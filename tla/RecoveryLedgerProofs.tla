------------------------ MODULE RecoveryLedgerProofs ------------------------
(* Theorems about the durable records a restore relies on: RecoveryLedger,   *)
(* for any number of processes, threads, identities, payloads and            *)
(* diagnostics, and LegacyMigration, which brings the tables an older        *)
(* gsbench recorded in to the current shape, for any columns.                *)
EXTENDS RecoveryLedger, LegacyMigration,
        FiniteSetTheorems, SequenceTheorems, WellFoundedInduction, TLAPS

-----------------------------------------------------------------------------
(* The file as a partial function.                                           *)

\* A file is a function from ids to entries.
LEMMA FileElements ==
  ASSUME NEW f
  PROVE  f \in File <=> /\ f = [i \in DOMAIN f |-> f[i]]
                        /\ DOMAIN f \subseteq Id
                        /\ \A i \in DOMAIN f : f[i] \in Entry
  BY DEF File

\* A ledger that does not exist yet is the empty file.
LEMMA EmptyFileElements == EmptyFile \in File /\ DOMAIN EmptyFile = {}
  BY DEF EmptyFile, File

\* Recording one entry keeps all the others.
LEMMA RecordElements ==
  ASSUME NEW f \in File, NEW i \in Id, NEW e \in Entry
  PROVE  /\ Record(f, i, e) \in File
         /\ DOMAIN Record(f, i, e) = DOMAIN f \cup {i}
         /\ Record(f, i, e)[i] = e
         /\ \A j \in DOMAIN f : j # i => Record(f, i, e)[j] = f[j]
  <1> DEFINE ids == DOMAIN f \cup {i}
             r == [j \in ids |-> IF j = i THEN e ELSE f[j]]
  <1>1. r = Record(f, i, e)
    BY DEF Record
  <1>2. ids \in SUBSET Id /\ \A j \in DOMAIN f : f[j] \in Entry
    BY FileElements
  <1>3. r \in [ids -> Entry]
    BY <1>2
  <1>4. r \in File
    <2> HIDE DEF r, ids
    <2> QED
      BY <1>2, <1>3 DEF File
  <1> QED
    BY <1>1, <1>4

\* Every state has a stage.
LEMMA StageOfState == \A s \in State : Stage[s] \in 1..4
  BY DEF Stage, State

\* The fields of an entry of a file.
LEMMA EntryFields ==
  ASSUME NEW f \in File, NEW i \in DOMAIN f
  PROVE  /\ i \in Id
         /\ f[i] \in Entry
         /\ f[i].payload \in Payload
         /\ f[i].state \in State
         /\ f[i].lastError \in Diagnostic \cup {NoDiagnostic}
         /\ Stage[f[i].state] \in 1..4
  BY StageOfState DEF File, Entry

\* NoRegression is a preorder on files.
LEMMA NoRegressionReflexive ==
  ASSUME NEW f \in File
  PROVE  NoRegression(f, f)
  BY EntryFields DEF NoRegression

\* Two updates that lose nothing lose nothing together.
LEMMA NoRegressionTransitive ==
  ASSUME NEW f \in File, NEW g \in File, NEW h \in File,
         NoRegression(f, g), NoRegression(g, h)
  PROVE  NoRegression(f, h)
  <1> SUFFICES ASSUME NEW i \in DOMAIN f
               PROVE  /\ i \in DOMAIN h
                      /\ h[i].payload = f[i].payload
                      /\ Stage[h[i].state] >= Stage[f[i].state]
    BY DEF NoRegression
  <1>1. i \in DOMAIN g /\ i \in DOMAIN h
    BY DEF NoRegression
  <1>2. /\ Stage[f[i].state] \in 1..4
        /\ Stage[g[i].state] \in 1..4
        /\ Stage[h[i].state] \in 1..4
    BY <1>1, EntryFields
  <1> QED
    BY <1>1, <1>2 DEF NoRegression

\* The transition table never moves a record to an earlier stage.
LEMMA TransitionMovesForward ==
  ASSUME NEW from \in State, NEW to \in State, AllowedTransition(from, to)
  PROVE  Stage[to] >= Stage[from]
  BY DEF AllowedTransition, Stage, State

\* What Put stages keeps everything the ledger held.
LEMMA PutKeepsLedger ==
  ASSUME NEW f \in File, NEW i \in Id, NEW e \in Entry, PutAccepted(f, i, e)
  PROVE  /\ PutEntry(f, i, e) \in Entry
         /\ NoRegression(f, Record(f, i, PutEntry(f, i, e)))
  <1>1. /\ PutEntry(f, i, e) \in Entry
        /\ PutEntry(f, i, e).payload = e.payload
        /\ PutEntry(f, i, e).state = e.state
    BY EntryFields DEF PutEntry, Entry
  <1>2. ASSUME i \in DOMAIN f
        PROVE  /\ f[i].payload = e.payload
               /\ Stage[e.state] >= Stage[f[i].state]
    BY <1>2, EntryFields, TransitionMovesForward DEF PutAccepted, Entry
  <1>3. \A j \in DOMAIN f : Stage[f[j].state] \in 1..4
    BY EntryFields
  <1>4. NoRegression(f, Record(f, i, PutEntry(f, i, e)))
    <2> DEFINE p == PutEntry(f, i, e)
               r == Record(f, i, p)
    <2>1. /\ DOMAIN r = DOMAIN f \cup {i}
          /\ r[i] = p
          /\ \A j \in DOMAIN f : j # i => r[j] = f[j]
      BY <1>1, RecordElements
    <2> HIDE DEF r, p
    <2>2. ASSUME NEW j \in DOMAIN f
          PROVE  /\ j \in DOMAIN r
                 /\ r[j].payload = f[j].payload
                 /\ Stage[r[j].state] >= Stage[f[j].state]
      <3>1. CASE j = i
        BY <3>1, <2>1, <1>1, <1>2 DEF p
      <3>2. CASE j # i
        BY <3>2, <2>1, <1>3
      <3> QED
        BY <3>1, <3>2
    <2> QED
      BY <2>2 DEF NoRegression, r, p
  <1> QED
    BY <1>1, <1>4

\* MarkRestored moves an entry to the last stage and keeps everything else.
LEMMA MarkKeepsLedger ==
  ASSUME NEW f \in File, NEW i \in DOMAIN f
  PROVE  LET e == [f[i] EXCEPT !.state = "restored", !.lastError = NoDiagnostic]
         IN  /\ e \in Entry
             /\ NoRegression(f, Record(f, i, e))
  <1> DEFINE e == [f[i] EXCEPT !.state = "restored", !.lastError = NoDiagnostic]
  <1>1. i \in Id /\ f[i] \in Entry
    BY EntryFields
  <1>2. e \in Entry /\ e.payload = f[i].payload /\ e.state = "restored"
    BY <1>1 DEF Entry, State
  <1>3. Stage["restored"] = 4
    BY DEF Stage, State
  <1>4. \A j \in DOMAIN f : Stage[f[j].state] \in 1..4
    BY EntryFields
  <1>5. NoRegression(f, Record(f, i, e))
    <2> HIDE DEF e
    <2> QED
      BY <1>1, <1>2, <1>3, <1>4, RecordElements DEF NoRegression
  <1> QED
    BY <1>2, <1>5

-----------------------------------------------------------------------------
(* The inductive invariant: the copies of the ledger are in order and every   *)
(* promise is kept by the copy that survives.                                 *)
LedgerInv == TypeOK /\ CopiesInOrder /\ AcknowledgedSurvives

\* At the start no ledger exists and nothing was promised.
LEMMA LedgerInvInit == Init => LedgerInv
  <1> SUFFICES ASSUME Init PROVE LedgerInv
    OBVIOUS
  <1> USE EmptyFileElements DEF Init
  <1>1. TypeOK
    BY DEF TypeOK, Point
  <1>2. CopiesInOrder
    BY DEF CopiesInOrder, NoRegression
  <1>3. AcknowledgedSurvives
    BY DEF AcknowledgedSurvives
  <1> QED
    BY <1>1, <1>2, <1>3 DEF LedgerInv

\* Steps that replace neither copy of the ledger and make no promise keep the
\* invariant, provided every writer they leave is where it was, or begins
\* with the flock to itself.
LEMMA QuietStep ==
  ASSUME LedgerInv, TypeOK',
         UNCHANGED <<visible, durable, promised>>,
         \A t \in Thread :
           /\ pc'[t] \in {"read", "rename", "resync"} => flock' = t
           /\ pc'[t] = "rename" => NoRegression(visible, staged'[t])
  PROVE  LedgerInv'
  BY DEF LedgerInv, CopiesInOrder, AcknowledgedSurvives, NoRegression

\* Every step of a writer, and a crash, keeps the invariant.
LEMMA LedgerInvNext == LedgerInv /\ [Next]_vars => LedgerInv'
  <1> SUFFICES ASSUME LedgerInv, [Next]_vars PROVE LedgerInv'
    OBVIOUS
  <1> USE LedgerConstants
  <1>a. TypeOK /\ CopiesInOrder /\ AcknowledgedSurvives
    BY DEF LedgerInv
  <1>b. visible \in File /\ durable \in File /\ \A t \in Thread : staged[t] \in File
    BY <1>a DEF TypeOK
  <1>1. ASSUME NEW t \in Thread, Enter(t) PROVE LedgerInv'
    <2>1. TypeOK'
      BY <1>1, <1>a DEF Enter, TypeOK, Point
    <2>2. \A s \in Thread : pc'[s] = pc[s] \/ pc'[s] = "wait"
      BY <1>1, <1>a DEF Enter, TypeOK
    <2> QED
      BY <1>1, <1>a, <2>1, <2>2, QuietStep DEF Enter, CopiesInOrder
  <1>2. ASSUME NEW t \in Thread, LockFile(t) PROVE LedgerInv'
    <2>1. TypeOK'
      BY <1>2, <1>a DEF LockFile, TypeOK, Point
    <2>2. \A s \in Thread : /\ pc[s] \notin {"read", "rename", "resync"}
                            /\ pc'[s] = IF s = t THEN "read" ELSE pc[s]
      BY <1>2, <1>a DEF LockFile, TypeOK, CopiesInOrder
    <2> QED
      BY <1>2, <1>a, <2>1, <2>2, QuietStep DEF LockFile
  <1>3. ASSUME NEW t \in Thread, Write(t) PROVE LedgerInv'
    <2>1. /\ pc[t] = "read" /\ flock = t /\ flock' = flock
          /\ UNCHANGED <<visible, durable, promised, mutex, reported>>
      BY <1>3, <1>a
         DEF Write, Put, MarkRestored, MarkRestoredAgain, CopiesInOrder
    <2>2. \/ /\ pc' = [pc EXCEPT ![t] = "resync"] /\ staged' = staged
             /\ \E i \in Id : subject' = [subject EXCEPT ![t] = i]
          \/ /\ pc' = [pc EXCEPT ![t] = "rename"]
             /\ \E i \in Id : subject' = [subject EXCEPT ![t] = i]
             /\ \E f \in File : /\ staged' = [staged EXCEPT ![t] = f]
                                /\ NoRegression(visible, f)
      <3>1. PICK i \in Id : \/ \E entry \in Entry : Put(t, i, entry)
                            \/ MarkRestored(t, i)
                            \/ MarkRestoredAgain(t, i)
        BY <1>3 DEF Write
      <3>2. ASSUME NEW entry \in Entry, Put(t, i, entry) PROVE <2>2!2
        BY <3>2, <1>b, PutKeepsLedger, RecordElements DEF Put
      <3>3. CASE MarkRestored(t, i)
        <4> DEFINE e == [visible[i] EXCEPT !.state = "restored",
                                           !.lastError = NoDiagnostic]
        <4>1. /\ i \in DOMAIN visible
              /\ staged' = [staged EXCEPT ![t] = Record(visible, i, e)]
          BY <3>3 DEF MarkRestored
        <4>2. e \in Entry /\ NoRegression(visible, Record(visible, i, e))
          BY <4>1, <1>b, MarkKeepsLedger
        <4>3. Record(visible, i, e) \in File
          <5> HIDE DEF e
          <5> QED
            BY <4>2, <1>b, RecordElements
        <4> HIDE DEF e
        <4> QED
          BY <3>3, <4>1, <4>2, <4>3 DEF MarkRestored
      <3>4. CASE MarkRestoredAgain(t, i)
        BY <3>4 DEF MarkRestoredAgain
      <3> QED
        BY <3>1, <3>2, <3>3, <3>4
    <2>3. TypeOK'
      BY <1>a, <2>1, <2>2 DEF TypeOK, Point
    <2>4. \A s \in Thread : pc[s] \in {"read", "rename", "resync"} => s = t
      BY <1>a, <2>1 DEF CopiesInOrder
    <2>5. ASSUME NEW s \in Thread
          PROVE  /\ pc'[s] \in {"read", "rename", "resync"} => flock' = s
                 /\ pc'[s] = "rename" => NoRegression(visible, staged'[s])
      <3>1. CASE s = t
        BY <3>1, <1>a, <2>1, <2>2 DEF TypeOK
      <3>2. CASE s # t
        BY <3>2, <1>a, <2>1, <2>2, <2>4 DEF TypeOK
      <3> QED
        BY <3>1, <3>2
    <2> QED
      BY <2>1, <2>3, <2>5, QuietStep
  <1>l. ASSUME NEW t \in Thread, Leave(t)
        PROVE  /\ mutex' \in [Process -> Thread \cup {Nobody}]
               /\ flock' \in Thread \cup {Nobody}
               /\ pc' \in [Thread -> Point]
               /\ staged' \in [Thread -> File]
               /\ subject' \in [Thread -> Id \cup {Nobody}]
               /\ \A s \in Thread : pc'[s] # "idle" =>
                    s # t /\ pc'[s] = pc[s] /\ staged'[s] = staged[s]
    BY <1>l, <1>a, EmptyFileElements DEF Leave, TypeOK, Point
  <1>m. ASSUME NEW t \in Thread, Leave(t),
               NEW s \in Thread, pc'[s] \in {"read", "rename", "resync"}
        PROVE  flock' = s
    BY <1>m, <1>l, <1>a DEF Leave, CopiesInOrder
  <1>n. ASSUME NEW t \in Thread, Leave(t),
               UNCHANGED <<visible, durable, promised, reported>>
        PROVE  LedgerInv'
    <2>1. TypeOK'
      BY <1>n, <1>l, <1>a DEF TypeOK
    <2> QED
      BY <2>1, <1>n, <1>l, <1>m, <1>a, QuietStep DEF CopiesInOrder
  <1>4. ASSUME NEW t \in Thread, Rename(t) PROVE LedgerInv'
    <2>1. /\ pc[t] = "rename" /\ flock = t /\ flock' = flock
          /\ NoRegression(visible, staged[t])
          /\ visible' = staged[t] /\ durable' = durable
          /\ pc' = [pc EXCEPT ![t] = "resync"]
      BY <1>4, <1>a DEF Rename, CopiesInOrder
    <2>2. TypeOK'
      BY <1>4, <1>a, <1>b DEF Rename, TypeOK, Point
    <2>3. NoRegression(durable, staged[t])
      BY <2>1, <1>a, <1>b, NoRegressionTransitive DEF CopiesInOrder
    <2>4. \A s \in Thread : /\ pc'[s] \in {"read", "rename", "resync"} => s = t
                            /\ pc'[s] # "rename" \/ s # t
      BY <2>1, <1>a DEF CopiesInOrder, TypeOK
    <2>5. CopiesInOrder'
      <3>1. NoRegression(durable, visible)'
        BY <2>1, <2>3 DEF NoRegression
      <3>2. ASSUME NEW s \in Thread
            PROVE  /\ pc'[s] \in {"read", "rename", "resync"} => flock' = s
                   /\ pc'[s] = "rename" => NoRegression(visible, staged[s])'
        BY <2>1, <2>4
      <3> QED
        BY <3>1, <3>2 DEF CopiesInOrder
    <2>6. AcknowledgedSurvives'
      BY <1>4, <1>a DEF Rename, AcknowledgedSurvives
    <2> QED
      BY <2>2, <2>5, <2>6 DEF LedgerInv
  <1>5. ASSUME NEW t \in Thread, FailBeforeRename(t) PROVE LedgerInv'
    BY <1>5, <1>n DEF FailBeforeRename
  <1>6. ASSUME NEW t \in Thread, SyncDirectory(t) PROVE LedgerInv'
    <2>1. /\ flock = t
          /\ durable' = visible /\ visible' = visible /\ reported' = reported
          /\ Leave(t)
      BY <1>6, <1>a DEF SyncDirectory, CopiesInOrder
    <2>2. \A i \in DOMAIN visible : Stage[visible[i].state] \in 1..4
      BY <1>b, EntryFields
    <2>3. TypeOK'
      <3>1. DOMAIN visible \subseteq Id
        BY <1>b, FileElements
      <3>2. promised' \in [Id -> 0..4]
        BY <1>6, <1>a, <2>2, <3>1 DEF SyncDirectory, TypeOK
      <3> QED
        BY <1>a, <1>l, <2>1, <3>2 DEF TypeOK
    <2>4. \A s \in Thread : pc'[s] \notin {"read", "rename", "resync"}
      BY <2>1, <1>l, <1>a DEF CopiesInOrder
    <2>5. CopiesInOrder'
      BY <2>1, <2>4, <1>b, NoRegressionReflexive DEF CopiesInOrder, NoRegression
    <2>6. AcknowledgedSurvives'
      <3> SUFFICES ASSUME NEW i \in Id, promised'[i] > 0
                   PROVE  /\ i \in DOMAIN visible
                          /\ Stage[visible[i].state] >= promised'[i]
        BY <2>1 DEF AcknowledgedSurvives
      <3>1. CASE promised'[i] = promised[i]
        <4>1. /\ promised[i] \in 0..4
              /\ i \in DOMAIN durable
              /\ Stage[durable[i].state] \in 1..4
              /\ Stage[durable[i].state] >= promised[i]
          BY <3>1, <1>a, <1>b, EntryFields DEF AcknowledgedSurvives, TypeOK
        <4>2. /\ i \in DOMAIN visible
              /\ Stage[visible[i].state] >= Stage[durable[i].state]
          BY <4>1, <1>a DEF CopiesInOrder, NoRegression
        <4> QED
          BY <3>1, <4>1, <4>2, <2>2
      <3>2. CASE promised'[i] # promised[i]
        <4>1. /\ i \in DOMAIN visible
              /\ promised'[i] = Stage[visible[i].state]
          BY <3>2, <1>6, <1>a DEF SyncDirectory, TypeOK
        <4> QED
          BY <4>1, <2>2
      <3> QED
        BY <3>1, <3>2
    <2> QED
      BY <2>3, <2>5, <2>6 DEF LedgerInv
  <1>7. ASSUME NEW t \in Thread, SyncDirectoryFails(t) PROVE LedgerInv'
    BY <1>7, <1>n DEF SyncDirectoryFails
  <1>8. ASSUME NEW t \in Thread, Snapshot(t) PROVE LedgerInv'
    <2>1. TypeOK'
      BY <1>8, <1>a, <1>b, FileElements DEF Snapshot, TypeOK
    <2> QED
      BY <2>1, <1>8, <1>a, QuietStep DEF Snapshot, CopiesInOrder
  <1>9. ASSUME NEW p \in Process, ProcessDies(p) PROVE LedgerInv'
    <2> DEFINE dead == {t \in Thread : ProcessOf[t] = p}
    <2>1. /\ pc' = [t \in Thread |-> IF t \in dead THEN "idle" ELSE pc[t]]
          /\ staged' = [t \in Thread |-> IF t \in dead THEN EmptyFile ELSE staged[t]]
          /\ flock' = IF flock \in dead THEN Nobody ELSE flock
          /\ UNCHANGED <<visible, durable, promised>>
      BY <1>9 DEF ProcessDies
    <2>2. TypeOK'
      BY <1>9, <1>a, EmptyFileElements DEF ProcessDies, TypeOK, Point
    <2>3. \A s \in Thread : pc'[s] # "idle" =>
            s \notin dead /\ pc'[s] = pc[s] /\ staged'[s] = staged[s]
      BY <2>1
    <2> HIDE DEF dead
    <2> QED
      BY <2>1, <2>2, <2>3, <1>a, QuietStep DEF CopiesInOrder
  <1>10. CASE WriteBack
    <2>1. TypeOK'
      BY <1>10, <1>a DEF WriteBack, TypeOK
    <2>2. CopiesInOrder'
      BY <1>10, <1>a, <1>b, NoRegressionReflexive
         DEF WriteBack, CopiesInOrder, NoRegression
    <2>3. AcknowledgedSurvives'
      <3> SUFFICES ASSUME NEW i \in Id, promised[i] > 0
                   PROVE  /\ i \in DOMAIN visible
                          /\ Stage[visible[i].state] >= promised[i]
        BY <1>10 DEF WriteBack, AcknowledgedSurvives
      <3>1. /\ promised[i] \in 0..4
            /\ i \in DOMAIN durable
            /\ Stage[durable[i].state] \in 1..4
            /\ Stage[durable[i].state] >= promised[i]
        BY <1>a, <1>b, EntryFields DEF AcknowledgedSurvives, TypeOK
      <3>2. /\ i \in DOMAIN visible
            /\ Stage[visible[i].state] >= Stage[durable[i].state]
        BY <3>1, <1>a DEF CopiesInOrder, NoRegression
      <3>3. Stage[visible[i].state] \in 1..4
        BY <3>2, <1>b, EntryFields
      <3> QED
        BY <3>1, <3>2, <3>3
    <2> QED
      BY <2>1, <2>2, <2>3 DEF LedgerInv
  <1>11. CASE PowerLoss
    <2>1. TypeOK'
      BY <1>11, <1>a, EmptyFileElements DEF PowerLoss, TypeOK, Point
    <2>2. CopiesInOrder'
      BY <1>11, <1>b, NoRegressionReflexive
         DEF PowerLoss, CopiesInOrder, NoRegression
    <2>3. AcknowledgedSurvives'
      BY <1>11, <1>a DEF PowerLoss, AcknowledgedSurvives
    <2> QED
      BY <2>1, <2>2, <2>3 DEF LedgerInv
  <1>12. CASE UNCHANGED vars
    BY <1>12, <1>a
       DEF vars, LedgerInv, TypeOK, CopiesInOrder, AcknowledgedSurvives, NoRegression
  <1> QED
    BY <1>1, <1>2, <1>3, <1>4, <1>5, <1>6, <1>7, <1>8, <1>9, <1>10, <1>11, <1>12
       DEF Next

\* The three properties hold in every state of every run of the ledger.
THEOREM LedgerSafety == Spec => []LedgerSafe
  <1>1. Init => LedgerInv
    BY LedgerInvInit
  <1>2. LedgerInv /\ [Next]_vars => LedgerInv'
    BY LedgerInvNext
  <1>3. LedgerInv => LedgerSafe
    BY DEF LedgerInv, LedgerSafe
  <1> QED
    BY <1>1, <1>2, <1>3, PTL DEF Spec

-----------------------------------------------------------------------------
(* The surviving file is an implementation of the abstract ledger.            *)

\* The abstract record of each identity of a file.
Abstract(f) ==
  [i \in DOMAIN f |-> [payload |-> f[i].payload, stage |-> Stage[f[i].state]]]

\* An update that regresses nothing is a step forward of the abstract ledger.
LEMMA AbstractForward ==
  ASSUME NEW f \in File, NEW g \in File, NoRegression(f, g)
  PROVE  /\ \E ids \in SUBSET Id :
              Abstract(g) \in [ids -> [payload : Payload, stage : 1..4]]
         /\ \A i \in DOMAIN Abstract(f) :
              /\ i \in DOMAIN Abstract(g)
              /\ Abstract(g)[i].payload = Abstract(f)[i].payload
              /\ Abstract(g)[i].stage >= Abstract(f)[i].stage
  <1>1. DOMAIN g \in SUBSET Id
    BY FileElements
  <1>2. \A i \in DOMAIN g : g[i].payload \in Payload /\ Stage[g[i].state] \in 1..4
    BY EntryFields
  <1>3. Abstract(g) \in [DOMAIN g -> [payload : Payload, stage : 1..4]]
    BY <1>2 DEF Abstract
  <1>4. \A i \in DOMAIN f :
          /\ i \in DOMAIN g
          /\ g[i].payload = f[i].payload
          /\ Stage[g[i].state] >= Stage[f[i].state]
    BY DEF NoRegression
  <1> QED
    BY <1>1, <1>3, <1>4 DEF Abstract

\* A step replaces the surviving file by what every process can read, or not
\* at all; it acknowledges only what it makes durable.
LEMMA DurableStep ==
  ASSUME LedgerInv, [Next]_vars
  PROVE  \/ UNCHANGED <<durable, promised>>
         \/ /\ durable' = visible
            /\ \/ promised' = promised
               \/ \E i \in Id : /\ i \in DOMAIN visible
                                /\ promised' = [promised EXCEPT ![i] = Stage[visible[i].state]]
  <1>1. ASSUME NEW t \in Thread, SyncDirectory(t)
        PROVE  /\ durable' = visible
               /\ \/ promised' = promised
                  \/ \E i \in Id : /\ i \in DOMAIN visible
                                   /\ promised' = [promised EXCEPT ![i] = Stage[visible[i].state]]
    <2>1. DOMAIN visible \subseteq Id
      BY FileElements DEF LedgerInv, TypeOK
    <2> QED
      BY <1>1, <2>1 DEF SyncDirectory
  <1>2. CASE WriteBack
    BY <1>2 DEF WriteBack
  <1>3. ASSUME NEW t \in Thread, Write(t)
        PROVE  UNCHANGED <<durable, promised>>
    BY <1>3 DEF Write, Put, MarkRestored, MarkRestoredAgain
  <1>4. ASSUME NEW t \in Thread,
               Enter(t) \/ LockFile(t) \/ Rename(t) \/ FailBeforeRename(t)
                 \/ SyncDirectoryFails(t) \/ Snapshot(t)
        PROVE  UNCHANGED <<durable, promised>>
    BY <1>4 DEF Enter, LockFile, Rename, FailBeforeRename, SyncDirectoryFails, Snapshot
  <1>5. ASSUME (\E p \in Process : ProcessDies(p)) \/ PowerLoss \/ UNCHANGED vars
        PROVE  UNCHANGED <<durable, promised>>
    BY <1>5 DEF ProcessDies, PowerLoss, vars
  <1> QED
    BY <1>1, <1>2, <1>3, <1>4, <1>5 DEF Next

\* Crashes and failed syncs included, the file is a ledger that only moves
\* forward and acknowledges only what it holds.
THEOREM LedgerImplementsDurableLedger == Spec => ImplementsDurableLedger
  <1>1. Init => Durable!Init
    BY EmptyFileElements DEF Init, Durable!Init, EmptyFile
  <1>2. LedgerInv /\ LedgerInv' /\ [Next]_vars => [Durable!Next]_Durable!vars
    <2> SUFFICES ASSUME LedgerInv, LedgerInv', [Next]_vars
                 PROVE  [Durable!Next]_Durable!vars
      OBVIOUS
    <2>1. /\ visible \in File /\ durable \in File
          /\ NoRegression(durable, visible)
      BY DEF LedgerInv, TypeOK, CopiesInOrder
    <2>2. CASE UNCHANGED <<durable, promised>>
      BY <2>2 DEF Durable!vars
    <2>f. ASSUME durable' = visible PROVE Durable!Forward
      <3> DEFINE st == [i \in DOMAIN durable |->
                          [payload |-> durable[i].payload,
                           stage |-> Stage[durable[i].state]]]
      <3>1. st = Abstract(durable) /\ st' = Abstract(visible)
        BY <2>f DEF Abstract
      <3>2. /\ \E ids \in SUBSET Id : st' \in [ids -> [payload : Payload, stage : 1..4]]
            /\ \A i \in DOMAIN st :
                 /\ i \in DOMAIN st'
                 /\ st'[i].payload = st[i].payload
                 /\ st'[i].stage >= st[i].stage
        <4> HIDE DEF st
        <4> QED
          BY <3>1, <2>1, AbstractForward
      <3> QED
        BY <3>2 DEF Durable!Forward, Durable!Record
    <2>3. CASE durable' = visible /\ promised' = promised
      BY <2>3, <2>f DEF Durable!Next
    <2>4. ASSUME durable' = visible,
                 NEW i \in Id, i \in DOMAIN visible,
                 promised' = [promised EXCEPT ![i] = Stage[visible[i].state]]
          PROVE  Durable!Next
      <3>1. Durable!Forward
        BY <2>4, <2>f
      <3>2. Durable!Acknowledge(i)
        BY <2>4 DEF Durable!Acknowledge
      <3> QED
        BY <3>1, <3>2 DEF Durable!Next
    <2> QED
      BY <2>2, <2>3, <2>4, DurableStep
  <1>3. Init => LedgerInv
    BY LedgerInvInit
  <1>4. LedgerInv /\ [Next]_vars => LedgerInv'
    BY LedgerInvNext
  <1> QED
    BY <1>1, <1>2, <1>3, <1>4, PTL DEF Spec, ImplementsDurableLedger, Durable!Spec

-----------------------------------------------------------------------------
(* The count limit: no writer leaves a file that readRecoveryLedger refuses.  *)

Readable(f) == Cardinality(DOMAIN f) <= MaxActions

LimitInv ==
  /\ LedgerInv
  /\ NeverUnreadable
  /\ \A t \in Thread : pc[t] = "rename" => Readable(staged[t])

\* A ledger with room for one more entry stays readable when one is recorded.
LEMMA RecordReadable ==
  ASSUME NEW f \in File, NEW i \in Id, NEW e, Readable(f),
         i \in DOMAIN f \/ Cardinality(DOMAIN f) < MaxActions
  PROVE  Readable(Record(f, i, e))
  <1>1. DOMAIN Record(f, i, e) = DOMAIN f \cup {i}
    BY DEF Record
  <1>2. IsFiniteSet(DOMAIN f)
    BY LedgerConstants, FileElements, FS_Subset
  <1>3. CASE i \in DOMAIN f
    <2>1. DOMAIN f \cup {i} = DOMAIN f
      BY <1>3
    <2> QED
      BY <1>1, <2>1 DEF Readable
  <1>4. CASE i \notin DOMAIN f
    <2>1. Cardinality(DOMAIN f \cup {i}) = Cardinality(DOMAIN f) + 1
      BY <1>2, <1>4, FS_AddElement
    <2> QED
      BY <1>1, <1>2, <1>4, <2>1, FS_CardinalityType, LedgerConstants DEF Readable
  <1> QED
    BY <1>3, <1>4

\* What a writer that checks the limit stages is readable.
LEMMA WriteReadable ==
  ASSUME LimitInv, NEW t \in Thread, Write(t)
  PROVE  /\ pc'[t] = "rename" => Readable(staged'[t])
         /\ \A s \in Thread \ {t} : pc'[s] = pc[s] /\ staged'[s] = staged[s]
         /\ UNCHANGED <<visible, durable>>
  <1>a. /\ visible \in File
        /\ pc \in [Thread -> Point]
        /\ staged \in [Thread -> File]
        /\ Readable(visible)
    BY DEF LimitInv, LedgerInv, TypeOK, NeverUnreadable, Readable
  <1>1. PICK i \in Id : \/ \E entry \in Entry : Put(t, i, entry)
                        \/ MarkRestored(t, i)
                        \/ MarkRestoredAgain(t, i)
    BY DEF Write
  <1>2. ASSUME NEW entry \in Entry, Put(t, i, entry) PROVE Readable(staged'[t])
    <2>1. i \in DOMAIN visible \/ Cardinality(DOMAIN visible) < MaxActions
      BY <1>2 DEF Put, PutAccepted
    <2>2. staged'[t] = Record(visible, i, PutEntry(visible, i, entry))
      BY <1>2, <1>a DEF Put
    <2> QED
      BY <1>a, <2>1, <2>2, RecordReadable
  <1>3. CASE MarkRestored(t, i)
    <2>1. i \in DOMAIN visible
      BY <1>3 DEF MarkRestored
    <2>2. PICK e : staged'[t] = Record(visible, i, e)
      BY <1>3, <1>a DEF MarkRestored
    <2>3. Readable(staged'[t])
      BY <1>a, <2>1, <2>2, RecordReadable
    <2> QED
      BY <1>3, <1>a, <2>3 DEF MarkRestored
  <1>4. CASE MarkRestoredAgain(t, i)
    BY <1>4, <1>a DEF MarkRestoredAgain
  <1>5. ASSUME NEW entry \in Entry, Put(t, i, entry)
        PROVE  /\ UNCHANGED <<visible, durable>>
               /\ \A s \in Thread \ {t} : pc'[s] = pc[s] /\ staged'[s] = staged[s]
    BY <1>5, <1>a DEF Put
  <1> QED
    BY <1>1, <1>2, <1>3, <1>4, <1>5, <1>a DEF MarkRestored, MarkRestoredAgain

\* Whatever the writers do, and wherever they stop, both copies of the ledger
\* stay within the limit a reader enforces.
THEOREM LedgerStaysReadable == Spec => []NeverUnreadable
  <1>1. Init => LimitInv
    <2> SUFFICES ASSUME Init PROVE LimitInv
      OBVIOUS
    <2>1. Cardinality({}) = 0
      BY FS_EmptySet
    <2>2. NeverUnreadable
      BY <2>1, EmptyFileElements, LedgerConstants DEF Init, NeverUnreadable
    <2> QED
      BY <2>2, LedgerInvInit DEF Init, LimitInv
  <1>2. LimitInv /\ [Next]_vars => LimitInv'
    <2> SUFFICES ASSUME LimitInv, [Next]_vars PROVE LimitInv'
      OBVIOUS
    <2>a. LedgerInv'
      BY LedgerInvNext DEF LimitInv
    <2>b. /\ pc \in [Thread -> Point] /\ staged \in [Thread -> File]
          /\ Readable(visible) /\ Readable(durable)
          /\ \A t \in Thread : pc[t] = "rename" => Readable(staged[t])
      BY DEF LimitInv, LedgerInv, TypeOK, NeverUnreadable, Readable
    <2>c. SUFFICES /\ Readable(visible') /\ Readable(durable')
                   /\ \A t \in Thread : pc'[t] = "rename" => Readable(staged'[t])
      BY <2>a DEF LimitInv, NeverUnreadable, Readable
    <2>1. ASSUME NEW t \in Thread, Write(t) PROVE <2>c!1
      <3>1. \A s \in Thread : pc'[s] = "rename" => Readable(staged'[s])
        BY <2>1, <2>b, WriteReadable
      <3> QED
        BY <2>1, <2>b, <3>1, WriteReadable
    <2>2. ASSUME NEW t \in Thread,
                 Enter(t) \/ LockFile(t) \/ Rename(t) \/ Snapshot(t)
          PROVE  <2>c!1
      BY <2>2, <2>b DEF Enter, LockFile, Rename, Snapshot
    <2>3. ASSUME NEW t \in Thread,
                 FailBeforeRename(t) \/ SyncDirectory(t) \/ SyncDirectoryFails(t)
          PROVE  <2>c!1
      BY <2>3, <2>b DEF FailBeforeRename, SyncDirectory, SyncDirectoryFails, Leave
    <2>4. ASSUME NEW p \in Process, ProcessDies(p) PROVE <2>c!1
      BY <2>4, <2>b DEF ProcessDies
    <2>5. CASE WriteBack \/ PowerLoss \/ UNCHANGED vars
      BY <2>5, <2>b DEF WriteBack, PowerLoss, vars
    <2> QED
      BY <2>1, <2>2, <2>3, <2>4, <2>5 DEF Next
  <1> QED
    BY <1>1, <1>2, PTL DEF Spec, LimitInv
-----------------------------------------------------------------------------
(* What other processes read: one identity at a time, along the table.        *)

\* A file is one legal change of itself.
LEMMA NoChangeIsLegal ==
  ASSUME NEW f \in File
  PROVE  OneLegalChange(f, f)
  <1>1. ASSUME NEW i \in DOMAIN f PROVE LegalChange(f[i], f[i])
    BY EntryFields DEF LegalChange
  <1> QED
    BY <1>1 DEF OneLegalChange

\* Recording an entry that follows the one it replaces is one legal change.
LEMMA RecordIsLegal ==
  ASSUME NEW f \in File, NEW i \in Id, NEW e \in Entry,
         i \in DOMAIN f => LegalChange(f[i], e)
  PROVE  OneLegalChange(f, Record(f, i, e))
  <1> DEFINE r == Record(f, i, e)
  <1>1. /\ DOMAIN r = DOMAIN f \cup {i}
        /\ r[i] = e
        /\ \A j \in DOMAIN f : j # i => r[j] = f[j]
    BY RecordElements
  <1> HIDE DEF r
  <1>2. OneLegalChange(f, f)
    BY NoChangeIsLegal
  <1>3. \A j \in DOMAIN f : j \in DOMAIN r /\ LegalChange(f[j], r[j])
    <2> SUFFICES ASSUME NEW j \in DOMAIN f PROVE LegalChange(f[j], r[j])
      BY <1>1
    <2>1. CASE j = i
      BY <2>1, <1>1
    <2>2. CASE j # i
      <3>1. LegalChange(f[j], f[j])
        BY <1>2 DEF OneLegalChange
      <3> QED
        BY <3>1, <2>2, <1>1
    <2> QED
      BY <2>1, <2>2
  <1>4. \A j \in DOMAIN r : j \notin DOMAIN f \/ f[j] # r[j] => j = i
    BY <1>1
  <1>5. OneLegalChange(f, r)
    BY <1>3, <1>4 DEF OneLegalChange
  <1> QED
    BY <1>5 DEF r

\* What Put agrees to stage follows the entry the ledger holds.
LEMMA PutIsLegal ==
  ASSUME NEW f \in File, NEW i \in Id, NEW e \in Entry, PutAccepted(f, i, e)
  PROVE  OneLegalChange(f, Record(f, i, PutEntry(f, i, e)))
  <1>1. PutEntry(f, i, e) \in Entry
    BY PutKeepsLedger
  <1>2. ASSUME i \in DOMAIN f PROVE LegalChange(f[i], PutEntry(f, i, e))
    <2>1. f[i] \in Entry /\ e \in Entry
      BY <1>2, EntryFields
    <2>2. /\ f[i].payload = e.payload
          /\ AllowedTransition(f[i].state, e.state)
          /\ \/ f[i].state # e.state
             \/ f[i].lastError = NoDiagnostic
             \/ e.lastError \in {NoDiagnostic, f[i].lastError}
      BY <1>2 DEF PutAccepted
    <2>3. CASE f[i].state # e.state
      <3>1. PutEntry(f, i, e) = e
        BY <2>3 DEF PutEntry
      <3> QED
        BY <3>1, <2>2, <2>3 DEF LegalChange
    <2>4. CASE f[i].state = e.state /\ e.lastError = NoDiagnostic
      <3>1. PutEntry(f, i, e) = [e EXCEPT !.lastError = f[i].lastError]
        BY <1>2, <2>4 DEF PutEntry
      <3>2. /\ PutEntry(f, i, e).payload = e.payload
            /\ PutEntry(f, i, e).state = e.state
            /\ PutEntry(f, i, e).lastError = f[i].lastError
        BY <3>1, <2>1 DEF Entry
      <3> QED
        BY <3>2, <2>2, <2>4 DEF LegalChange
    <2>5. CASE f[i].state = e.state /\ e.lastError # NoDiagnostic
      <3>1. PutEntry(f, i, e) = e
        BY <2>5 DEF PutEntry
      <3> QED
        BY <3>1, <2>2, <2>5 DEF LegalChange
    <2> QED
      BY <2>3, <2>4, <2>5
  <1> QED
    BY <1>1, <1>2, RecordIsLegal

\* MarkRestored follows the entry it ends.
LEMMA MarkIsLegal ==
  ASSUME NEW f \in File, NEW i \in DOMAIN f
  PROVE  OneLegalChange(f, Record(f, i, [f[i] EXCEPT !.state = "restored",
                                                     !.lastError = NoDiagnostic]))
  <1> DEFINE e == [f[i] EXCEPT !.state = "restored", !.lastError = NoDiagnostic]
  <1>1. i \in Id /\ f[i] \in Entry
    BY EntryFields
  <1>2. e \in Entry /\ e.payload = f[i].payload /\ e.state = "restored"
    BY <1>1 DEF Entry, State
  <1> HIDE DEF e
  <1>3. LegalChange(f[i], e)
    BY <1>2 DEF LegalChange
  <1>4. OneLegalChange(f, Record(f, i, e))
    BY <1>1, <1>2, <1>3, RecordIsLegal
  <1> QED
    BY <1>4 DEF e

\* The temporary file of the writer that holds the flock is one legal change
\* of the file it is about to replace.
StagedIsLegal ==
  \A t \in Thread : pc[t] = "rename" => OneLegalChange(visible, staged[t])

ReadersInv == LedgerInv /\ StagedIsLegal

\* A step that leaves the visible file alone, and every writer it leaves with a
\* temporary file where it was, leaves that file a legal change.
LEMMA StagedUnmoved ==
  ASSUME StagedIsLegal, visible' = visible,
         \A s \in Thread : pc'[s] = "rename" =>
                             pc[s] = "rename" /\ staged'[s] = staged[s]
  PROVE  StagedIsLegal'
  <1> SUFFICES ASSUME NEW s \in Thread, pc'[s] = "rename"
               PROVE  OneLegalChange(visible', staged'[s])
    BY DEF StagedIsLegal
  <1>1. OneLegalChange(visible, staged[s]) /\ staged'[s] = staged[s]
    BY DEF StagedIsLegal
  <1> QED
    BY <1>1

\* Leaving the ledger drops the temporary file and moves no other writer.
LEMMA LeaveUnmoves ==
  ASSUME TypeOK, NEW t \in Thread, Leave(t), NEW s \in Thread, pc'[s] = "rename"
  PROVE  pc[s] = "rename" /\ staged'[s] = staged[s]
  BY DEF Leave, TypeOK

\* A writer stages nothing but a legal change.
LEMMA WriteStagesLegal ==
  ASSUME ReadersInv, NEW t \in Thread, Write(t)
  PROVE  StagedIsLegal' /\ visible' = visible
  <1>a. /\ visible \in File /\ pc \in [Thread -> Point] /\ staged \in [Thread -> File]
        /\ StagedIsLegal
    BY DEF ReadersInv, LedgerInv, TypeOK
  <1>1. PICK i \in Id : \/ \E entry \in Entry : Put(t, i, entry)
                        \/ MarkRestored(t, i)
                        \/ MarkRestoredAgain(t, i)
    BY DEF Write
  <1>s. ASSUME NEW g, OneLegalChange(visible, g), visible' = visible,
               pc' = [pc EXCEPT ![t] = "rename"], staged' = [staged EXCEPT ![t] = g]
        PROVE  StagedIsLegal'
    <2> SUFFICES ASSUME NEW s \in Thread, pc'[s] = "rename"
                 PROVE  OneLegalChange(visible', staged'[s])
      BY DEF StagedIsLegal
    <2>1. CASE s = t
      <3>1. staged'[s] = g
        BY <2>1, <1>s, <1>a
      <3> QED
        BY <3>1, <1>s
    <2>2. CASE s # t
      <3>1. pc[s] = "rename" /\ staged'[s] = staged[s]
        BY <2>2, <1>s, <1>a
      <3>2. OneLegalChange(visible, staged[s])
        BY <3>1, <1>a DEF StagedIsLegal
      <3> QED
        BY <3>1, <3>2, <1>s
    <2> QED
      BY <2>1, <2>2
  <1>2. ASSUME NEW entry \in Entry, Put(t, i, entry) PROVE StagedIsLegal' /\ visible' = visible
    <2> DEFINE g == Record(visible, i, PutEntry(visible, i, entry))
    <2>1. /\ PutAccepted(visible, i, entry) /\ visible' = visible
          /\ pc' = [pc EXCEPT ![t] = "rename"] /\ staged' = [staged EXCEPT ![t] = g]
      BY <1>2 DEF Put
    <2>2. OneLegalChange(visible, g)
      BY <2>1, <1>a, PutIsLegal
    <2> HIDE DEF g
    <2> QED
      BY <2>1, <2>2, <1>s
  <1>3. ASSUME MarkRestored(t, i) PROVE StagedIsLegal' /\ visible' = visible
    <2> DEFINE g == Record(visible, i, [visible[i] EXCEPT !.state = "restored",
                                                          !.lastError = NoDiagnostic])
    <2>1. /\ i \in DOMAIN visible /\ visible' = visible
          /\ pc' = [pc EXCEPT ![t] = "rename"] /\ staged' = [staged EXCEPT ![t] = g]
      BY <1>3 DEF MarkRestored
    <2>2. OneLegalChange(visible, g)
      BY <2>1, <1>a, MarkIsLegal
    <2> HIDE DEF g
    <2> QED
      BY <2>1, <2>2, <1>s
  <1>4. ASSUME MarkRestoredAgain(t, i) PROVE StagedIsLegal' /\ visible' = visible
    <2>1. /\ visible' = visible /\ staged' = staged /\ pc' = [pc EXCEPT ![t] = "resync"]
      BY <1>4 DEF MarkRestoredAgain
    <2>2. \A s \in Thread : pc'[s] = "rename" => pc[s] = "rename"
      BY <2>1, <1>a
    <2> QED
      BY <2>1, <2>2, <1>a, StagedUnmoved
  <1> QED
    BY <1>1, <1>2, <1>3, <1>4

\* A rename puts a legal change before the readers, and no other writer is
\* left with a change of the file it replaced.
LEMMA RenameIsLegal ==
  ASSUME ReadersInv, NEW t \in Thread, Rename(t)
  PROVE  StagedIsLegal' /\ OneLegalChange(visible, visible')
  <1>1. /\ pc[t] = "rename" /\ visible' = staged[t]
        /\ pc' = [pc EXCEPT ![t] = "resync"]
    BY DEF Rename
  <1>2. OneLegalChange(visible, staged[t])
    BY <1>1 DEF ReadersInv, StagedIsLegal
  <1>3. flock = t
    BY <1>1 DEF ReadersInv, LedgerInv, CopiesInOrder
  <1>4. \A s \in Thread : pc'[s] # "rename"
    <2> SUFFICES ASSUME NEW s \in Thread, pc'[s] = "rename" PROVE FALSE
      OBVIOUS
    <2>1. s # t /\ pc[s] = "rename"
      BY <1>1 DEF ReadersInv, LedgerInv, TypeOK
    <2>2. flock = s
      BY <2>1 DEF ReadersInv, LedgerInv, CopiesInOrder
    <2> QED
      BY <2>1, <2>2, <1>3
  <1> QED
    BY <1>1, <1>2, <1>4 DEF StagedIsLegal

\* Every step but a power loss shows the readers one legal change at most, and
\* every step leaves what a writer is about to show one.
LEMMA ReadersNext ==
  ASSUME ReadersInv, [Next]_vars
  PROVE  StagedIsLegal' /\ (PowerLoss \/ OneLegalChange(visible, visible'))
  <1>a. /\ visible \in File /\ TypeOK /\ pc \in [Thread -> Point] /\ StagedIsLegal
    BY DEF ReadersInv, LedgerInv, TypeOK
  <1>b. OneLegalChange(visible, visible)
    BY <1>a, NoChangeIsLegal
  <1>q. ASSUME visible' = visible,
               \A s \in Thread : pc'[s] = "rename" =>
                                   pc[s] = "rename" /\ staged'[s] = staged[s]
        PROVE  StagedIsLegal' /\ OneLegalChange(visible, visible')
    BY <1>q, <1>a, <1>b, StagedUnmoved
  <1>1. ASSUME NEW t \in Thread,
               FailBeforeRename(t) \/ SyncDirectory(t) \/ SyncDirectoryFails(t)
        PROVE  StagedIsLegal' /\ OneLegalChange(visible, visible')
    <2>1. visible' = visible /\ Leave(t)
      BY <1>1 DEF FailBeforeRename, SyncDirectory, SyncDirectoryFails
    <2> QED
      BY <2>1, <1>a, <1>q, LeaveUnmoves
  <1>2. ASSUME NEW t \in Thread, Enter(t) \/ LockFile(t)
        PROVE  StagedIsLegal' /\ OneLegalChange(visible, visible')
    <2>1. /\ visible' = visible /\ staged' = staged
          /\ pc' = [pc EXCEPT ![t] = "wait"] \/ pc' = [pc EXCEPT ![t] = "read"]
      BY <1>2 DEF Enter, LockFile
    <2>2. \A s \in Thread : pc'[s] = "rename" => pc[s] = "rename"
      BY <2>1, <1>a
    <2> QED
      BY <2>1, <2>2, <1>q
  <1>3. ASSUME NEW t \in Thread, Snapshot(t)
        PROVE  StagedIsLegal' /\ OneLegalChange(visible, visible')
    BY <1>3, <1>q DEF Snapshot
  <1>4. ASSUME NEW t \in Thread, Write(t)
        PROVE  StagedIsLegal' /\ OneLegalChange(visible, visible')
    BY <1>4, <1>b, WriteStagesLegal
  <1>5. ASSUME NEW t \in Thread, Rename(t)
        PROVE  StagedIsLegal' /\ OneLegalChange(visible, visible')
    BY <1>5, RenameIsLegal
  <1>6. ASSUME NEW p \in Process, ProcessDies(p)
        PROVE  StagedIsLegal' /\ OneLegalChange(visible, visible')
    <2> DEFINE dead == {t \in Thread : ProcessOf[t] = p}
    <2>1. /\ visible' = visible
          /\ pc' = [t \in Thread |-> IF t \in dead THEN "idle" ELSE pc[t]]
          /\ staged' = [t \in Thread |-> IF t \in dead THEN EmptyFile ELSE staged[t]]
      BY <1>6 DEF ProcessDies
    <2> HIDE DEF dead
    <2>2. \A s \in Thread : pc'[s] = "rename" =>
                              pc[s] = "rename" /\ staged'[s] = staged[s]
      BY <2>1
    <2> QED
      BY <2>1, <2>2, <1>q
  <1>7. CASE WriteBack
    BY <1>7, <1>q DEF WriteBack
  <1>8. CASE PowerLoss
    BY <1>8 DEF PowerLoss, StagedIsLegal
  <1>9. CASE UNCHANGED vars
    BY <1>9, <1>q DEF vars
  <1> QED
    BY <1>1, <1>2, <1>3, <1>4, <1>5, <1>6, <1>7, <1>8, <1>9 DEF Next

\* Whatever the writers, the failed syncs and the dead processes do, what a
\* reader sees changes by one identity at a time and along the transition
\* table; only a power loss may show it an earlier file again.
THEOREM ReadersSeeOnlyLegalChanges == Spec => ReadersSeeLegalChanges
  <1>1. Init => ReadersInv
    <2>1. Init => StagedIsLegal
      BY DEF Init, StagedIsLegal
    <2> QED
      BY <2>1, LedgerInvInit DEF ReadersInv
  <1>2. ReadersInv /\ [Next]_vars => ReadersInv'
    BY LedgerInvNext, ReadersNext DEF ReadersInv
  <1>3. ReadersInv /\ [Next]_vars =>
          [PowerLoss \/ OneLegalChange(visible, visible')]_vars
    BY ReadersNext
  <1> QED
    BY <1>1, <1>2, <1>3, PTL DEF Spec, ReadersSeeLegalChanges

-----------------------------------------------------------------------------
(* The migration of a legacy table (LegacyMigration).                        *)

\* A set of numbers has a least one.
LEMMA LeastIndex ==
  ASSUME NEW T \in SUBSET Nat, T # {}
  PROVE  \E x \in T : \A y \in T : x <= y
  <1> DEFINE R == OpToRel(<, Nat)
  <1>1. IsWellFoundedOn(R, Nat)
    BY NatLessThanWellFounded
  <1>2. \A x, y \in Nat : x < y => <<x, y>> \in R
    BY Zenon DEF OpToRel
  <1> HIDE DEF R
  <1>3. PICK x \in T : \A y \in T : ~(<<y, x>> \in R)
    BY <1>1, WFMin, Zenon
  <1>4. \A y \in T : ~(y < x)
    BY <1>2, <1>3
  <1> QED
    BY <1>3, <1>4

\* Where the parts of a list lie in it.
PartsIn(list, n, seqs, at) ==
  /\ at \in [0..n -> Nat] /\ at[0] = 0
  /\ \A k \in 1..n : at[k] = at[k - 1] + Len(seqs[k])
  /\ Len(list) = at[n]
  /\ \A k \in 1..n : \A i \in 1..Len(seqs[k]) : list[at[k - 1] + i] = seqs[k][i]
  /\ \A p \in 1..at[n] : \E k \in 1..n : \E i \in 1..Len(seqs[k]) : p = at[k - 1] + i

\* No part ends after the list.
LEMMA JoinedWithin ==
  ASSUME NEW X, NEW n \in Nat, NEW seqs \in [1..n -> Seq(X)], NEW list, NEW at,
         PartsIn(list, n, seqs, at)
  PROVE  \A k \in 0..n : at[k] <= Len(list)
  <1>1. \A k \in 1..n : Len(seqs[k]) \in Nat /\ at[k - 1] \in Nat /\ at[k] \in Nat
    <2>1. \A k \in 1..n : k - 1 \in 0..n /\ k \in 0..n
      OBVIOUS
    <2> QED
      BY <2>1 DEF PartsIn
  <1>2. \A k \in 1..n : at[k] = at[k - 1] + Len(seqs[k])
    BY DEF PartsIn
  <1>3. Len(list) = at[n] /\ at \in [0..n -> Nat]
    BY DEF PartsIn
  <1> DEFINE B == {k \in 0..n : ~(at[n - k] <= Len(list))}
  <1>4. B = {}
    <2> SUFFICES ASSUME B # {} PROVE FALSE
      OBVIOUS
    <2>1. PICK k \in B : \A j \in B : k <= j
      <3>1. B \in SUBSET Nat
        OBVIOUS
      <3> QED
        BY <3>1, LeastIndex
    <2>2. k \in 0..n /\ ~(at[n - k] <= Len(list))
      OBVIOUS
    <2>3. k # 0
      BY <1>3, <2>2
    <2>4. k - 1 \in 0..n /\ ~(k <= k - 1)
      BY <2>2, <2>3
    <2>4a. k - 1 \notin B
      <3> HIDE DEF B
      <3> QED
        BY <2>1, <2>4
    <2>5. at[n - (k - 1)] <= Len(list)
      BY <2>4, <2>4a
    <2>6. PICK j \in 1..n : j = n - (k - 1) /\ n - k = j - 1
      BY <2>2, <2>3
    <2>7. at[j] = at[j - 1] + Len(seqs[j]) /\ at[j] <= Len(list) /\ ~(at[j - 1] <= Len(list))
      BY <1>2, <2>2, <2>5, <2>6
    <2>8. at[j] \in Nat /\ at[j - 1] \in Nat /\ Len(seqs[j]) \in Nat /\ Len(list) \in Nat
      BY <1>1, <1>3
    <2> QED
      BY <2>7, <2>8
  <1> SUFFICES ASSUME NEW k \in 0..n PROVE at[k] <= Len(list)
    OBVIOUS
  <1>5. n - k \in 0..n /\ n - (n - k) = k
    OBVIOUS
  <1> QED
    BY <1>4, <1>5

\* Only the parts count.
LEMMA SameParts ==
  ASSUME NEW list, NEW n, NEW seqs, NEW others, NEW at, PartsIn(list, n, seqs, at),
         \A k \in 1..n : others[k] = seqs[k]
  PROVE  PartsIn(list, n, others, at)
  <1>1. /\ at \in [0..n -> Nat] /\ at[0] = 0 /\ Len(list) = at[n]
        /\ \A k \in 1..n : at[k] = at[k - 1] + Len(seqs[k])
        /\ \A k \in 1..n : \A i \in 1..Len(seqs[k]) : list[at[k - 1] + i] = seqs[k][i]
        /\ \A p \in 1..at[n] : \E k \in 1..n : \E i \in 1..Len(seqs[k]) : p = at[k - 1] + i
    BY DEF PartsIn
  <1>2. \A k \in 1..n : at[k] = at[k - 1] + Len(others[k])
    BY <1>1
  <1>3. \A k \in 1..n : \A i \in 1..Len(others[k]) : list[at[k - 1] + i] = others[k][i]
    BY <1>1
  <1>4. \A p \in 1..at[n] : \E k \in 1..n : \E i \in 1..Len(others[k]) : p = at[k - 1] + i
    <2> SUFFICES ASSUME NEW p \in 1..at[n]
                 PROVE  \E k \in 1..n : \E i \in 1..Len(others[k]) : p = at[k - 1] + i
      OBVIOUS
    <2>1. PICK k \in 1..n : \E i \in 1..Len(seqs[k]) : p = at[k - 1] + i
      BY <1>1
    <2>2. Len(others[k]) = Len(seqs[k])
      OBVIOUS
    <2> QED
      BY <2>1, <2>2
  <1> QED
    BY <1>1, <1>2, <1>3, <1>4, Zenon DEF PartsIn

\* A place of a part is a place of the list, before those of later parts.
LEMMA PlaceWithin ==
  ASSUME NEW l \in Nat, NEW a \in Nat, NEW w \in Nat, a + w <= l, NEW i \in 1..w
  PROVE  a + i \in 1..l
  OBVIOUS

LEMMA PlaceBefore ==
  ASSUME NEW l \in Nat, NEW m \in Nat, NEW q \in 1..l, NEW r \in 1..m
  PROVE  q \in 1..((l + r) - 1)
  OBVIOUS

\* One part more.
LEMMA JoinedMore ==
  ASSUME NEW X, NEW n \in Nat, NEW seqs \in [1..(n + 1) -> Seq(X)], NEW list \in Seq(X),
         NEW at, PartsIn(list, n, seqs, at)
  PROVE  \E to : PartsIn(list \o seqs[n + 1], n + 1, seqs, to)
  <1>1. PICK s \in Seq(X) : s = seqs[n + 1]
    OBVIOUS
  <1>2. PICK l \in Nat, m \in Nat : l = Len(list) /\ m = Len(s)
    OBVIOUS
  <1>3. /\ at \in [0..n -> Nat] /\ at[0] = 0 /\ at[n] = l
        /\ \A k \in 1..n : at[k] = at[k - 1] + Len(seqs[k])
        /\ \A k \in 1..n : \A i \in 1..Len(seqs[k]) : list[at[k - 1] + i] = seqs[k][i]
        /\ \A p \in 1..l : \E k \in 1..n : \E i \in 1..Len(seqs[k]) : p = at[k - 1] + i
    BY <1>2 DEF PartsIn
  <1>4. PICK to : to = [k \in 0..(n + 1) |-> IF k = n + 1 THEN l + m ELSE at[k]]
    OBVIOUS
  <1>5. /\ to \in [0..(n + 1) -> Nat] /\ to[n + 1] = l + m
        /\ \A k \in 0..n : to[k] = at[k]
    BY <1>2, <1>3, <1>4
  <1>6a. list \o s \in Seq(X)
    BY ConcatProperties
  <1>6. PICK long \in Seq(X) : long = list \o s
    BY <1>6a
  <1>7. Len(long) = l + m /\ (\A i \in 1..l : long[i] = list[i])
    BY <1>2, <1>6
  <1>8. \A i \in 1..m : long[l + i] = s[i]
    BY <1>2, <1>6
  <1>9. \A k \in 1..n : Len(seqs[k]) \in Nat /\ at[k - 1] \in Nat /\ at[k] \in Nat
    <2>1. \A k \in 1..n : k \in 1..(n + 1) /\ k - 1 \in 0..n /\ k \in 0..n
      OBVIOUS
    <2>2. \A k \in 1..n : Len(seqs[k]) \in Nat
      BY <2>1, LenProperties
    <2>3. \A k \in 1..n : at[k - 1] \in Nat /\ at[k] \in Nat
      BY <1>3, <2>1
    <2> QED
      BY <2>2, <2>3
  <1>10. \A k \in 1..n : at[k] <= l
    <2>1. PICK some : some = [k \in 1..n |-> seqs[k]]
      OBVIOUS
    <2>2. \A k \in 1..n : k \in 1..(n + 1) /\ k \in 0..n
      OBVIOUS
    <2>3. some \in [1..n -> Seq(X)] /\ \A k \in 1..n : some[k] = seqs[k]
      BY <2>1, <2>2
    <2>4. PartsIn(list, n, some, at)
      BY <2>3, SameParts, Zenon
    <2> QED
      BY <1>2, <2>2, <2>3, <2>4, JoinedWithin
  <1>11. \A k \in 1..(n + 1) : to[k] = to[k - 1] + Len(seqs[k])
    <2> SUFFICES ASSUME NEW k \in 1..(n + 1) PROVE to[k] = to[k - 1] + Len(seqs[k])
      OBVIOUS
    <2>1. CASE k = n + 1
      <3>1. to[n] = l /\ Len(seqs[n + 1]) = m
        BY <1>1, <1>2, <1>3, <1>5
      <3>2. k - 1 = n
        BY <2>1
      <3> QED
        BY <1>5, <2>1, <3>1, <3>2
    <2>2. CASE k # n + 1
      <3>1. k \in 1..n /\ k \in 0..n /\ k - 1 \in 0..n
        BY <2>2
      <3> QED
        BY <1>3, <1>5, <3>1
    <2> QED
      BY <2>1, <2>2
  <1>12. \A k \in 1..(n + 1) : \A i \in 1..Len(seqs[k]) : long[to[k - 1] + i] = seqs[k][i]
    <2> SUFFICES ASSUME NEW k \in 1..(n + 1), NEW i \in 1..Len(seqs[k])
                 PROVE  long[to[k - 1] + i] = seqs[k][i]
      OBVIOUS
    <2>1. CASE k = n + 1
      <3>1. to[k - 1] = l /\ seqs[k] = s /\ i \in 1..m
        BY <1>1, <1>2, <1>3, <1>5, <2>1
      <3> QED
        BY <1>8, <3>1
    <2>2. CASE k # n + 1
      <3>1. k \in 1..n /\ k - 1 \in 0..n
        BY <2>2
      <3>2a. at[k - 1] \in Nat /\ at[k] \in Nat /\ Len(seqs[k]) \in Nat /\ at[k] <= l
             /\ at[k] = at[k - 1] + Len(seqs[k])
        BY <1>3, <1>9, <1>10, <3>1
      <3>2. PICK p \in Nat : p = at[k - 1] + i
        BY <3>2a
      <3>3. p \in 1..l
        <4>1. PICK a \in Nat, w \in Nat : a = at[k - 1] /\ w = Len(seqs[k])
          BY <3>2a
        <4>2. a + w <= l /\ i \in 1..w /\ p = a + i
          BY <3>1, <3>2a, <3>2, <4>1
        <4> QED
          BY <4>1, <4>2, PlaceWithin
      <3>4. list[p] = seqs[k][i]
        BY <1>3, <3>1, <3>2
      <3> QED
        BY <1>5, <1>7, <3>1, <3>2, <3>3, <3>4
    <2> QED
      BY <2>1, <2>2
  <1>13. \A p \in 1..(l + m) : \E k \in 1..(n + 1) : \E i \in 1..Len(seqs[k]) : p = to[k - 1] + i
    <2> SUFFICES ASSUME NEW p \in 1..(l + m)
                 PROVE  \E k \in 1..(n + 1) : \E i \in 1..Len(seqs[k]) : p = to[k - 1] + i
      OBVIOUS
    <2>1. CASE p \in 1..l
      <3>1. PICK k \in 1..n : \E i \in 1..Len(seqs[k]) : p = at[k - 1] + i
        BY <1>3, <2>1
      <3>2. PICK i \in 1..Len(seqs[k]) : p = at[k - 1] + i
        BY <3>1
      <3>3. k \in 1..(n + 1) /\ k - 1 \in 0..n
        OBVIOUS
      <3> QED
        BY <1>5, <3>2, <3>3
    <2>2. CASE p \notin 1..l
      <3>1. p - l \in 1..m /\ p = l + (p - l)
        BY <1>2, <2>2
      <3>2. n + 1 \in 1..(n + 1) /\ Len(seqs[n + 1]) = m /\ to[(n + 1) - 1] = l
        BY <1>1, <1>2, <1>3, <1>5
      <3> QED
        BY <3>1, <3>2
    <2> QED
      BY <2>1, <2>2
  <1>14. PartsIn(long, n + 1, seqs, to)
    <2>1. to[0] = 0
      BY <1>3, <1>5
    <2> QED
      BY <1>5, <1>7, <1>11, <1>12, <1>13, <2>1 DEF PartsIn
  <1> QED
    BY <1>1, <1>6, <1>14

\* FlattenSeq joins its parts, however many.
LEMMA FlattenJoins ==
  ASSUME NEW X, NEW n \in Nat, NEW seqs \in [1..n -> Seq(X)]
  PROVE  FlattenSeq(seqs) \in Seq(X) /\ \E at : PartsIn(FlattenSeq(seqs), n, seqs, at)
  <1>1. seqs \in Seq(Seq(X)) /\ Len(seqs) = n
    OBVIOUS
  <1>2. CASE n = 0
    <2>1. FlattenSeq(seqs) = seqs /\ seqs = << >>
      BY <1>1, <1>2 DEF FlattenSeq
    <2>2. PICK at : at = [k \in 0..0 |-> 0]
      OBVIOUS
    <2>3. at \in [0..0 -> Nat] /\ at[0] = 0 /\ 1..0 = {} /\ << >> \in Seq(X) /\ Len(<< >>) = 0
      BY <2>2
    <2>4. PartsIn(<< >>, 0, seqs, at)
      BY <2>3 DEF PartsIn
    <2> QED
      BY <1>2, <2>1, <2>3, <2>4
  <1>3. CASE n # 0
    <2> DEFINE Pair(i, f) == IF i = 1 THEN seqs[i] ELSE f[i - 1] \o seqs[i]
               Pairs(m, f) == f[1] = seqs[1] /\ \A i \in 2..m : f[i] = f[i - 1] \o seqs[i]
               T == {m \in 1..n : ~ \E f \in [1..m -> Seq(X)] : Pairs(m, f)}
    <2>1. T = {}
      <3> SUFFICES ASSUME T # {} PROVE FALSE
        OBVIOUS
      <3>1. PICK m \in T : \A k \in T : m <= k
        <4>1. T \in SUBSET Nat
          <5> HIDE DEF Pairs
          <5> QED
            OBVIOUS
        <4> QED
          BY <4>1, LeastIndex
      <3>2. m \in 1..n /\ ~ \E f \in [1..m -> Seq(X)] : Pairs(m, f)
        OBVIOUS
      <3> HIDE DEF T
      <3>3. CASE m = 1
        <4>1. PICK f : f = [i \in 1..1 |-> seqs[1]]
          OBVIOUS
        <4>2. 1 \in 1..1 /\ 2..1 = {} /\ 1 \in 1..n
          BY <3>2
        <4>3. seqs[1] \in Seq(X)
          BY <4>2
        <4>4. f \in [1..1 -> Seq(X)] /\ f[1] = seqs[1]
          BY <4>1, <4>2, <4>3, Zenon
        <4>5. Pairs(1, f)
          BY <4>2, <4>4, Zenon
        <4> QED
          BY <3>2, <3>3, <4>4, <4>5
      <3>4. CASE m # 1
        <4>1. m - 1 \in 1..n /\ m - 1 \notin T /\ m \in 2..n
          BY <3>1, <3>2, <3>4
        <4>2. PICK f \in [1..(m - 1) -> Seq(X)] : Pairs(m - 1, f)
          BY <4>1 DEF T
        <4>3. PICK z \in Seq(X) : z = f[m - 1] \o seqs[m]
          <5>1. f[m - 1] \in Seq(X) /\ seqs[m] \in Seq(X)
            BY <4>1
          <5>2. f[m - 1] \o seqs[m] \in Seq(X)
            BY <5>1, ConcatProperties
          <5> QED
            BY <5>2
        <4>4. PICK u : u = [i \in 1..m |-> IF i = m THEN z ELSE f[i]]
          OBVIOUS
        <4>5. u \in [1..m -> Seq(X)]
          BY <4>1, <4>3, <4>4
        <4>6. u[m] = z /\ \A i \in 1..(m - 1) : u[i] = f[i]
          BY <4>1, <4>4
        <4>7. u[1] = seqs[1]
          BY <4>1, <4>2, <4>6
        <4>8. \A i \in 2..m : u[i] = u[i - 1] \o seqs[i]
          <5> SUFFICES ASSUME NEW i \in 2..m PROVE u[i] = u[i - 1] \o seqs[i]
            OBVIOUS
          <5>1. CASE i = m
            <6>1. u[m] = z /\ u[m - 1] = f[m - 1]
              BY <4>1, <4>6
            <6> QED
              BY <4>3, <5>1, <6>1, Zenon
          <5>2. CASE i # m
            <6>1. i \in 2..(m - 1) /\ i \in 1..(m - 1) /\ i - 1 \in 1..(m - 1)
              BY <4>1, <5>2
            <6> QED
              BY <4>2, <4>6, <6>1
          <5> QED
            BY <5>1, <5>2
        <4>9. Pairs(m, u)
          BY <4>7, <4>8
        <4> QED
          BY <3>2, <4>5, <4>9
      <3> QED
        BY <3>3, <3>4
    <2>2. PICK f \in [1..n -> Seq(X)] : Pairs(n, f)
      <3>1. n \in 1..n /\ n \notin T
        <4> HIDE DEF T
        <4> QED
          BY <1>3, <2>1
      <3> QED
        BY <3>1
    <2>3. f = [i \in 1..n |-> Pair(i, f)]
      <3>1. \A i \in 1..n : i = 1 \/ i \in 2..n
        OBVIOUS
      <3>2. \A i \in 1..n : f[i] = Pair(i, f)
        BY <2>2, <3>1
      <3> HIDE DEF Pair
      <3> QED
        BY <3>2
    <2> DEFINE u == CHOOSE u : u = [i \in 1..n |-> Pair(i, u)]
    <2>4. u = [i \in 1..n |-> Pair(i, u)]
      <3> HIDE DEF Pair
      <3> QED
        BY <2>3
    <2>5. FlattenSeq(seqs) = u[n]
      BY <1>1, <1>3 DEF FlattenSeq
    <2> HIDE DEF u
    <2>6. \A i \in 1..n : u[i] = Pair(i, u)
      <3> HIDE DEF Pair
      <3> QED
        BY <2>4, Zenon
    <2>7. u[1] = seqs[1] /\ \A i \in 2..n : u[i] = u[i - 1] \o seqs[i]
      <3>1. 1 \in 1..n /\ \A i \in 2..n : i \in 1..n /\ i # 1
        BY <1>3
      <3> QED
        BY <2>6, <3>1
    <2> DEFINE Good(m) == u[m] \in Seq(X) /\ \E at : PartsIn(u[m], m, seqs, at)
               B == {m \in 1..n : ~Good(m)}
    <2>8. B = {}
      <3> SUFFICES ASSUME B # {} PROVE FALSE
        OBVIOUS
      <3>1. PICK m \in B : \A k \in B : m <= k
        <4>1. B \in SUBSET Nat
          OBVIOUS
        <4> QED
          BY <4>1, LeastIndex
      <3>2. m \in 1..n /\ ~Good(m)
        OBVIOUS
      <3>3. m - 1 \in 1..n => Good(m - 1)
        <4>1. ~(m <= m - 1)
          BY <3>2
        <4> HIDE DEF Good
        <4> QED
          BY <3>1, <4>1
      <3> HIDE DEF B
      <3>4a. \E list \in Seq(X), j \in Nat : \E at :
              /\ m = j + 1 /\ PartsIn(list, j, seqs, at) /\ u[m] = list \o seqs[j + 1]
        <4>1. CASE m = 1
          <5>1. PICK at : at = [k \in 0..0 |-> 0]
            OBVIOUS
          <5>2. at \in [0..0 -> Nat] /\ at[0] = 0 /\ 1..0 = {} /\ << >> \in Seq(X) /\ Len(<< >>) = 0
            BY <5>1
          <5>3. PartsIn(<< >>, 0, seqs, at)
            BY <5>2 DEF PartsIn
          <5>4. PICK s \in Seq(X) : s = seqs[1]
            BY <1>3
          <5>5. << >> \o s = s
            OBVIOUS
          <5>6. m = 0 + 1 /\ u[m] = << >> \o seqs[0 + 1]
            BY <2>7, <4>1, <5>4, <5>5
          <5> QED
            BY <5>2, <5>3, <5>6
        <4>2. CASE m # 1
          <5>1. PICK j \in Nat : m = j + 1 /\ j = m - 1 /\ j \in 1..n /\ m \in 2..n
            BY <3>2, <4>2
          <5>2. Good(j)
            BY <3>3, <5>1
          <5>3. u[m] = u[j] \o seqs[j + 1]
            BY <2>7, <5>1
          <5> QED
            BY <5>1, <5>2, <5>3
        <4> QED
          BY <4>1, <4>2
      <3>4b. PICK list \in Seq(X), j \in Nat : \E at :
              /\ m = j + 1 /\ PartsIn(list, j, seqs, at) /\ u[m] = list \o seqs[j + 1]
        BY <3>4a
      <3>4. PICK at : /\ m = j + 1 /\ PartsIn(list, j, seqs, at)
                      /\ u[m] = list \o seqs[j + 1]
        BY <3>4b
      <3>5a. \A k \in 1..(j + 1) : k \in 1..n
        BY <3>2, <3>4
      <3>5b. \A k \in 1..(j + 1) : seqs[k] \in Seq(X)
        BY <3>5a
      <3>5. PICK some \in [1..(j + 1) -> Seq(X)] : some = [k \in 1..(j + 1) |-> seqs[k]]
        BY <3>5b
      <3>6. \A k \in 1..(j + 1) : some[k] = seqs[k]
        BY <3>5
      <3>7. 1..j \subseteq 1..(j + 1) /\ j + 1 \in 1..(j + 1)
        OBVIOUS
      <3>8. PartsIn(list, j, some, at)
        <4>1. PartsIn(list, j, seqs, at) /\ \A k \in 1..j : some[k] = seqs[k]
          BY <3>4, <3>6, <3>7
        <4> QED
          BY <4>1, SameParts, Zenon
      <3>9. PICK to : PartsIn(list \o some[j + 1], j + 1, some, to)
        BY <3>8, JoinedMore
      <3>10. PartsIn(u[m], m, seqs, to)
        <4>1. u[m] = list \o some[j + 1]
          BY <3>4, <3>6, <3>7
        <4>2. PartsIn(u[m], j + 1, some, to)
          BY <3>9, <4>1
        <4>3. PartsIn(u[m], j + 1, seqs, to)
          BY <3>6, <4>2, SameParts, Zenon
        <4> QED
          BY <3>4, <4>3
      <3>11. u[m] \in Seq(X)
        <4>1. PICK s \in Seq(X) : s = seqs[j + 1]
          BY <3>2, <3>4
        <4> QED
          BY <3>4, <4>1
      <3> QED
        BY <3>2, <3>10, <3>11
    <2>9. Good(n)
      <3>1. n \in 1..n
        BY <1>3
      <3> HIDE DEF Good
      <3> QED
        BY <2>8, <3>1
    <2> QED
      BY <2>5, <2>9
  <1> QED
    BY <1>2, <1>3

\* What a column may hold, the names of the columns and the statements about them.
HeldValues == {"absent", "null", "legacy", "default"}
Columns(F) == {F[i].new : i \in DOMAIN F}
Names(F) == Columns(F) \cup {F[i].old : i \in DOMAIN F}
Change(F) ==
  {<<"drop key">>, <<"add key">>, <<"end">>}
    \cup {<<"add", c>> : c \in Columns(F)} \cup {<<"not null", c>> : c \in Columns(F)}
    \cup {<<"fill", c, v>> : c \in Columns(F), v \in {"legacy", "default"}}
    \cup {<<"drop", c>> : c \in Names(F)}

\* The columns of a table: no two have one name.
FieldList(F) ==
  /\ Len(F) \in Nat /\ DOMAIN F = 1..Len(F)
  /\ \A i, j \in DOMAIN F : F[i].new = F[j].new => i = j

LegacyTable(F) == [name : LegacyTables, screened : BOOLEAN, columns : SUBSET Names(F),
                   held : [Columns(F) -> HeldValues], required : SUBSET Names(F),
                   key : {"old", "none", "new"}]

\* What the table holds.
RowsKept(r, F) ==
  /\ r \in LegacyTable(F)
  /\ NoSource \notin r.columns
  /\ \A i \in DOMAIN F : F[i].old \in r.columns => r.held[F[i].new] # "default"
  /\ \A i \in DOMAIN F :
       F[i].old # NoSource /\ F[i].old \notin r.columns => r.held[F[i].new] = "legacy"

\* What one statement of a list says.
ChangeOK(s, r, F) ==
  /\ s[1] \in {"add", "fill", "not null", "drop key", "add key", "drop", "end"}
  /\ s[1] = "add" => /\ \E i \in DOMAIN F : s[2] = F[i].new
                     /\ r.held[s[2]] = "absent"
  /\ s[1] = "fill" => /\ s[3] \in {"legacy", "default"}
                      /\ \E i \in DOMAIN F : /\ s[2] = F[i].new
                                             /\ F[i].old \in r.columns => s[3] = "legacy"
  /\ s[1] = "not null" => s[2] \in Columns(F)
  /\ s[1] = "drop" => s[2] # NoSource

\* Column c has its old value when the statement at p runs.
WillHold(r, c, R, p) ==
  \/ r.held[c] = "legacy"
  \/ \E q \in 1..(p - 1) :
       /\ R[q][1] = "fill" /\ R[q][2] = c
       /\ r.held[c] = "null" \/ \E o \in 1..(q - 1) : R[o][1] = "add" /\ R[o][2] = c

\* The current shape is there or coming.
KeyComing(r, R) ==
  /\ r.key = "new" \/ \E p \in 1..Len(R) : R[p][1] = "add key"
  /\ \A p \in 1..Len(R) : R[p][1] = "drop key" => \E q \in (p + 1)..Len(R) : R[q][1] = "add key"
NeedsComing(r, F, R) ==
  \A i \in DOMAIN F :
    F[i].new \in r.required \/ \E p \in 1..Len(R) : R[p][1] = "not null" /\ R[p][2] = F[i].new
DropsComing(r, F, R) ==
  \A i \in DOMAIN F :
    F[i].old \notin r.columns \/ \E p \in 1..Len(R) : R[p][1] = "drop" /\ R[p][2] = F[i].old
ShapeComing(r, F, R) == KeyComing(r, R) /\ NeedsComing(r, F, R) /\ DropsComing(r, F, R)

\* What a list promises of a table.
LegacyComing(r, F, R) ==
  /\ R \in Seq(Change(F))
  /\ \A p \in 1..Len(R) : ChangeOK(R[p], r, F)
  /\ \A p, q \in 1..Len(R) : R[p][1] = "add" /\ R[q][1] = "add" /\ R[p][2] = R[q][2] => p = q
  /\ \A p \in 1..Len(R) : R[p][1] = "drop" =>
       \A i \in DOMAIN F : F[i].old = R[p][2] => WillHold(r, F[i].new, R, p)
  /\ R # << >> => ShapeComing(r, F, R)

\* The batches: their table, and the statements about it.
Batches == {"target_rows", "estimated_row_bytes"}
BatchTable == [name : {"meta_batches"}, screened : BOOLEAN, columns : {{}},
               held : [Batches -> HeldValues], required : SUBSET Batches, key : {"new"}]
BatchChange ==
  {<<"end">>} \cup {<<"add", c>> : c \in Batches} \cup {<<"not null", c>> : c \in Batches}
    \cup {<<"fill", c, "default">> : c \in Batches}

\* Every column of the batches is finished, torn by an init that stopped, missing
\* between two inits or about to be required by the running one.
Finished(c) == c \in relation.required \cup torn
Awaited(c, R) == \E p \in 1..Len(R) : R[p] = <<"not null", c>>
BatchesInv ==
  /\ relation \in BatchTable
  /\ remaining \in Seq(BatchChange)
  /\ \A c \in Batches : \/ Finished(c)
                        \/ remaining = << >> /\ relation.held[c] = "absent"
                        \/ Awaited(c, remaining)

\* The other tables: they are sound, and what is left of the list will drop no
\* column before its value is copied and will end at the current shape.
ReplacedInv ==
  /\ RowsKept(relation, FieldsOf(relation.name))
  /\ relation.name # "meta_batches"
  /\ LegacyComing(relation, FieldsOf(relation.name), remaining)

\* The inductive invariant.
LegacyInv ==
  /\ BatchesInv \/ ReplacedInv
  /\ ~relation.screened => remaining = << >>

-----------------------------------------------------------------------------
\* The columns of a table are a list without repetition.
LEMMA FieldsAreLists ==
  ASSUME NEW name \in LegacyTables, name # "meta_batches"
  PROVE  FieldList(FieldsOf(name))
  <1>1. CASE name = "meta_journal"
    <2>1. /\ Len(LegacyFields) \in Nat /\ DOMAIN LegacyFields = 1..Len(LegacyFields)
      BY LegacyAssumption, LenProperties
    <2> QED
      BY <1>1, <2>1, LegacyAssumption DEF FieldList, FieldsOf
  <1>2. CASE name # "meta_journal"
    <2>1. PICK f : f = [new |-> "scenario_code", old |-> "scenario"]
      OBVIOUS
    <2>2. PICK F : F = << f >>
      OBVIOUS
    <2>3. Len(F) = 1 /\ DOMAIN F = 1..1 /\ \A i, j \in 1..1 : i = j
      BY <2>2
    <2>4. FieldsOf(name) = F
      BY <1>2, <2>1, <2>2 DEF FieldsOf
    <2>5. FieldList(F)
      BY <2>3 DEF FieldList
    <2> QED
      BY <2>4, <2>5
  <1> QED
    BY <1>1, <1>2

\* The statements a list is made of.
LEMMA Changes ==
  ASSUME NEW F
  PROVE  /\ <<"drop key">> \in Change(F) /\ <<"add key">> \in Change(F)
         /\ <<"end">> \in Change(F)
         /\ \A i \in DOMAIN F : /\ <<"add", F[i].new>> \in Change(F)
                               /\ <<"not null", F[i].new>> \in Change(F)
                               /\ <<"fill", F[i].new, "legacy">> \in Change(F)
                               /\ <<"fill", F[i].new, "default">> \in Change(F)
                               /\ <<"drop", F[i].old>> \in Change(F)
  <1>1. \A i \in DOMAIN F : F[i].new \in Columns(F) /\ F[i].old \in Names(F)
    BY DEF Columns, Names
  <1>2. \A c \in Columns(F) : /\ <<"add", c>> \in Change(F)
                             /\ <<"not null", c>> \in Change(F)
                             /\ <<"fill", c, "legacy">> \in Change(F)
                             /\ <<"fill", c, "default">> \in Change(F)
    BY DEF Change
  <1>3. \A c \in Names(F) : <<"drop", c>> \in Change(F)
    BY DEF Change
  <1>4. /\ <<"drop key">> \in Change(F) /\ <<"add key">> \in Change(F)
        /\ <<"end">> \in Change(F)
    BY DEF Change
  <1> QED
    BY <1>1, <1>2, <1>3, <1>4, Zenon

\* A list of one statement.
LEMMA OneLong ==
  ASSUME NEW X, NEW a \in X
  PROVE  << a >> \in Seq(X) /\ Len(<< a >>) = 1 /\ << a >>[1] = a
  OBVIOUS

\* A list of two.
LEMMA TwoLong ==
  ASSUME NEW X, NEW a \in X, NEW b \in X
  PROVE  /\ << a, b >> \in Seq(X) /\ Len(<< a, b >>) = 2
         /\ << a, b >>[1] = a /\ << a, b >>[2] = b
  OBVIOUS

\* Two lists of one make a list of two.
LEMMA OneAndOne ==
  ASSUME NEW X, NEW a \in X, NEW b \in X
  PROVE  << a >> \o << b >> = << a, b >>
  <1>1. PICK s \in Seq(X) : s = << a >>
    BY OneLong
  <1>2. PICK t \in Seq(X) : t = << b >>
    BY OneLong
  <1>3. PICK u \in Seq(X) : u = << a, b >>
    BY TwoLong
  <1>4. Len(s) = 1 /\ Len(t) = 1 /\ s[1] = a /\ t[1] = b
    BY <1>1, <1>2
  <1>5. Len(u) = 2 /\ u[1] = a /\ u[2] = b
    BY <1>3
  <1>6. /\ s \o t \in Seq(X) /\ Len(s \o t) = Len(s) + Len(t)
        /\ \A i \in 1 .. Len(s) + Len(t) :
             (s \o t)[i] = IF i <= Len(s) THEN s[i] ELSE t[i - Len(s)]
    BY ConcatProperties
  <1>7. PICK v \in Seq(X) : v = s \o t
    BY <1>6
  <1>8. Len(v) = 2 /\ \A i \in 1..2 : v[i] = IF i <= 1 THEN s[i] ELSE t[i - 1]
    BY <1>4, <1>6, <1>7
  <1>9. \A i \in 1..Len(v) : v[i] = u[i]
    BY <1>4, <1>5, <1>8
  <1>10. v = u
    BY <1>5, <1>8, <1>9, SeqEqual
  <1> QED
    BY <1>1, <1>2, <1>3, <1>7, <1>10

\* What the statements that fill the formal columns are.
FillingOK(L, F) ==
  /\ \A p \in 1..Len(L) : \E i \in DOMAIN F :
       /\ L[p][2] = F[i].new
       /\ \/ L[p][1] = "fill" /\ L[p][3] = Source(F[i])
          \/ L[p][1] = "add" /\ ~Has(F[i].new)
  /\ \A p, q \in 1..Len(L) :
       L[p][1] = "add" /\ L[q][1] = "add" /\ L[p][2] = L[q][2] => p = q
  /\ \A i \in DOMAIN F : \E q \in 1..Len(L) :
       /\ L[q][1] = "fill" /\ L[q][2] = F[i].new
       /\ \/ Has(F[i].new)
          \/ \E o \in 1..(q - 1) : L[o][1] = "add" /\ L[o][2] = F[i].new

\* The statements that fill the formal columns.
LEMMA FillingList ==
  ASSUME NEW F, FieldList(F), NEW L, L = Filling(F)
  PROVE  /\ L \in Seq(Change(F))
         /\ FillingOK(L, F)
  <1>1. PICK n \in Nat : n = Len(F) /\ DOMAIN F = 1..n
    BY DEF FieldList
  <1> DEFINE add(i) == <<"add", F[i].new>>
             fill(i) == <<"fill", F[i].new, Source(F[i])>>
             block(i) == IF Has(F[i].new) THEN << fill(i) >> ELSE << add(i), fill(i) >>
  <1>3. \A i \in 1..n : add(i) \in Change(F) /\ fill(i) \in Change(F)
    BY <1>1, Changes DEF Source
  <1>4. \A i \in 1..n : /\ add(i)[1] = "add" /\ add(i)[2] = F[i].new
                        /\ fill(i)[1] = "fill" /\ fill(i)[2] = F[i].new
                        /\ fill(i)[3] = Source(F[i])
    OBVIOUS
  <1>5. \A i \in 1..n :
          When(~Has(F[i].new), << <<"add", F[i].new>> >>) \o << <<"fill", F[i].new, Source(F[i])>> >>
            = block(i)
    <2> SUFFICES ASSUME NEW i \in 1..n
                 PROVE  When(~Has(F[i].new), << add(i) >>) \o << fill(i) >> = block(i)
      OBVIOUS
    <2>1. add(i) \in Change(F) /\ fill(i) \in Change(F)
      BY <1>3
    <2> HIDE DEF add, fill
    <2>2. << >> \o << fill(i) >> = << fill(i) >> /\ << add(i) >> \o << fill(i) >> = << add(i), fill(i) >>
      BY <2>1, OneLong, ConcatEmptySeq, OneAndOne
    <2> QED
      BY <2>2 DEF When
  <1>6. PICK S : S = [i \in 1..n |-> block(i)]
    OBVIOUS
  <1>7. \A i \in 1..n : block(i) \in Seq(Change(F))
    <2> HIDE DEF add, fill
    <2> QED
      BY <1>3
  <1>8. S \in [1..n -> Seq(Change(F))] /\ \A i \in 1..n : S[i] = block(i)
    <2> HIDE DEF block
    <2> QED
      BY <1>6, <1>7
  <1>9. Filling(F) = FlattenSeq(S)
    <2>1. Filling(F) = FlattenSeq([i \in 1..n |->
             When(~Has(F[i].new), << <<"add", F[i].new>> >>) \o << <<"fill", F[i].new, Source(F[i])>> >>])
      BY <1>1 DEF Filling
    <2> HIDE DEF block
    <2>2. [i \in 1..n |->
             When(~Has(F[i].new), << <<"add", F[i].new>> >>) \o << <<"fill", F[i].new, Source(F[i])>> >>]
          = [i \in 1..n |-> block(i)]
      BY <1>5, Zenon
    <2> QED
      BY <1>6, <2>1, <2>2
  <1>10. L \in Seq(Change(F))
    BY <1>8, <1>9, FlattenJoins
  <1>11. PICK at : PartsIn(L, n, S, at)
    BY <1>8, <1>9, <1>10, FlattenJoins
  <1>12. /\ at \in [0..n -> Nat] /\ Len(L) = at[n]
         /\ \A k \in 1..n : \A i \in 1..Len(S[k]) : L[at[k - 1] + i] = S[k][i]
         /\ \A p \in 1..Len(L) : \E k \in 1..n : \E i \in 1..Len(S[k]) : p = at[k - 1] + i
    BY <1>11 DEF PartsIn
  <1>13. \A k \in 1..n :
           /\ Has(F[k].new) => Len(S[k]) = 1 /\ S[k][1] = fill(k)
           /\ ~Has(F[k].new) => Len(S[k]) = 2 /\ S[k][1] = add(k) /\ S[k][2] = fill(k)
    <2> HIDE DEF add, fill
    <2> QED
      BY <1>8
  <1>14. \A p \in 1..Len(L) : \E k \in 1..n :
           \/ L[p] = fill(k)
           \/ L[p] = add(k) /\ ~Has(F[k].new) /\ p = at[k - 1] + 1
    <2> SUFFICES ASSUME NEW p \in 1..Len(L)
                 PROVE  \E k \in 1..n : \/ L[p] = fill(k)
                                        \/ L[p] = add(k) /\ ~Has(F[k].new) /\ p = at[k - 1] + 1
      OBVIOUS
    <2>1. PICK k \in 1..n : \E i \in 1..Len(S[k]) : p = at[k - 1] + i
      BY <1>12
    <2>2. PICK i \in 1..Len(S[k]) : p = at[k - 1] + i
      BY <2>1
    <2>3. L[p] = S[k][i]
      BY <1>12, <2>2
    <2> HIDE DEF add, fill
    <2>4. i = 1 \/ (i = 2 /\ ~Has(F[k].new))
      <3>1. CASE Has(F[k].new)
        <4>1. Len(S[k]) = 1
          BY <1>13, <3>1
        <4> QED
          BY <4>1
      <3>2. CASE ~Has(F[k].new)
        <4>1. Len(S[k]) = 2
          BY <1>13, <3>2
        <4> QED
          BY <3>2, <4>1
      <3> QED
        BY <3>1, <3>2
    <2> QED
      BY <1>13, <2>2, <2>3, <2>4
  <1>15. \A p \in 1..Len(L) : \E i \in 1..n :
           \/ L[p] = fill(i)
           \/ L[p] = add(i) /\ ~Has(F[i].new)
    <2> HIDE DEF add, fill
    <2> QED
      BY <1>14
  <1>16. \A p, q \in 1..Len(L) :
           L[p][1] = "add" /\ L[q][1] = "add" /\ L[p][2] = L[q][2] => p = q
    <2> SUFFICES ASSUME NEW p \in 1..Len(L), NEW q \in 1..Len(L),
                        L[p][1] = "add", L[q][1] = "add", L[p][2] = L[q][2]
                 PROVE  p = q
      OBVIOUS
    <2> HIDE DEF add, fill
    <2>1. "fill" # "add"
      OBVIOUS
    <2>2. PICK k \in 1..n : L[p] = add(k) /\ p = at[k - 1] + 1
      BY <1>4, <1>14, <2>1
    <2>3. PICK j \in 1..n : L[q] = add(j) /\ q = at[j - 1] + 1
      BY <1>4, <1>14, <2>1
    <2>4. F[k].new = F[j].new
      BY <1>4, <2>2, <2>3
    <2>5. k = j
      BY <1>1, <2>4 DEF FieldList
    <2> QED
      BY <2>2, <2>3, <2>5
  <1>17. \A i \in 1..n : \E q \in 1..Len(L) :
           /\ L[q] = fill(i)
           /\ Has(F[i].new) \/ \E o \in 1..(q - 1) : L[o] = add(i)
    <2> SUFFICES ASSUME NEW k \in 1..n
                 PROVE  \E q \in 1..Len(L) :
                          /\ L[q] = fill(k)
                          /\ Has(F[k].new) \/ \E o \in 1..(q - 1) : L[o] = add(k)
      OBVIOUS
    <2> HIDE DEF add, fill
    <2>1. at[k - 1] \in Nat /\ at[k] \in Nat /\ at[k] = at[k - 1] + Len(S[k])
      <3>1. k - 1 \in 0..n /\ k \in 0..n
        OBVIOUS
      <3> QED
        BY <1>11, <1>12, <3>1 DEF PartsIn
    <2>2. at[k] <= Len(L)
      <3>1. \A j \in 0..n : at[j] <= Len(L)
        BY <1>8, <1>11, JoinedWithin
      <3>2. k \in 0..n
        OBVIOUS
      <3> QED
        BY <3>1, <3>2
    <2>3. CASE Has(F[k].new)
      <3>0. 1 \in 1..Len(S[k]) /\ Len(S[k]) = 1 /\ S[k][1] = fill(k)
        BY <1>13, <2>3
      <3>0a. L[at[k - 1] + 1] = S[k][1]
        BY <1>12, <3>0
      <3>0b. Len(L) \in Nat
        BY <1>10, LenProperties
      <3>1. at[k - 1] + 1 \in 1..Len(L) /\ L[at[k - 1] + 1] = fill(k)
        BY <2>1, <2>2, <3>0, <3>0a, <3>0b
      <3> QED
        BY <2>3, <3>1
    <2>4. CASE ~Has(F[k].new)
      <3>0. 1 \in 1..Len(S[k]) /\ 2 \in 1..Len(S[k]) /\ Len(S[k]) = 2
            /\ S[k][1] = add(k) /\ S[k][2] = fill(k)
        BY <1>13, <2>4
      <3>0a. L[at[k - 1] + 1] = S[k][1] /\ L[at[k - 1] + 2] = S[k][2]
        BY <1>12, <3>0
      <3>0b. Len(L) \in Nat
        BY <1>10, LenProperties
      <3>1. /\ at[k - 1] + 2 \in 1..Len(L) /\ L[at[k - 1] + 2] = fill(k)
            /\ at[k - 1] + 1 \in 1..((at[k - 1] + 2) - 1) /\ L[at[k - 1] + 1] = add(k)
        BY <2>1, <2>2, <3>0, <3>0a, <3>0b
      <3> QED
        BY <3>1
    <2> QED
      BY <2>3, <2>4
  <1>18. \A i \in DOMAIN F : i \in 1..n
    BY <1>1
  <1>19. \A i \in 1..n : i \in DOMAIN F
    BY <1>1
  <1>20. \A p \in 1..Len(L) : \E i \in DOMAIN F :
           /\ L[p][2] = F[i].new
           /\ \/ L[p][1] = "fill" /\ L[p][3] = Source(F[i])
              \/ L[p][1] = "add" /\ ~Has(F[i].new)
    <2> SUFFICES ASSUME NEW p \in 1..Len(L)
                 PROVE  \E i \in DOMAIN F :
                          /\ L[p][2] = F[i].new
                          /\ \/ L[p][1] = "fill" /\ L[p][3] = Source(F[i])
                             \/ L[p][1] = "add" /\ ~Has(F[i].new)
      OBVIOUS
    <2> HIDE DEF add, fill
    <2>1. PICK i \in 1..n : L[p] = fill(i) \/ (L[p] = add(i) /\ ~Has(F[i].new))
      BY <1>15
    <2>2. i \in DOMAIN F
      BY <1>19
    <2> QED
      BY <1>4, <2>1, <2>2
  <1>21. \A i \in DOMAIN F : \E q \in 1..Len(L) :
           /\ L[q][1] = "fill" /\ L[q][2] = F[i].new
           /\ \/ Has(F[i].new)
              \/ \E o \in 1..(q - 1) : L[o][1] = "add" /\ L[o][2] = F[i].new
    <2> SUFFICES ASSUME NEW i \in DOMAIN F
                 PROVE  \E q \in 1..Len(L) :
                          /\ L[q][1] = "fill" /\ L[q][2] = F[i].new
                          /\ \/ Has(F[i].new)
                             \/ \E o \in 1..(q - 1) : L[o][1] = "add" /\ L[o][2] = F[i].new
      OBVIOUS
    <2> HIDE DEF add, fill
    <2>1. i \in 1..n
      BY <1>18
    <2>2. PICK q \in 1..Len(L) :
            /\ L[q] = fill(i)
            /\ Has(F[i].new) \/ \E o \in 1..(q - 1) : L[o] = add(i)
      BY <1>17, <2>1
    <2>3. L[q][1] = "fill" /\ L[q][2] = F[i].new
      BY <1>4, <2>1, <2>2
    <2>4. Has(F[i].new) \/ \E o \in 1..(q - 1) : L[o][1] = "add" /\ L[o][2] = F[i].new
      BY <1>4, <2>1, <2>2
    <2> QED
      BY <2>3, <2>4
  <1> QED
    BY <1>10, <1>16, <1>20, <1>21, Zenon DEF FillingOK

\* Lists one after another, and the key of a table, named to be handled whole.
Appended(u, s, t) == u = s \o t
TheEnd == << <<"end">> >>
KeyOK(r) == r.key \in {"old", "none", "new"}

\* Where the statements of two appended lists are.
LEMMA AppendedPlaces ==
  ASSUME NEW X, NEW s \in Seq(X), NEW t \in Seq(X), NEW u, Appended(u, s, t)
  PROVE  /\ u \in Seq(X)
         /\ Len(s) \in Nat /\ Len(t) \in Nat /\ Len(u) = Len(s) + Len(t)
         /\ \A p \in 1..Len(s) : p \in 1..Len(u) /\ u[p] = s[p]
         /\ \A p \in 1..Len(t) : Len(s) + p \in 1..Len(u) /\ u[Len(s) + p] = t[p]
         /\ \A p \in 1..Len(u) : p \in 1..Len(s) \/ \E r \in 1..Len(t) : p = Len(s) + r
  <1>1. /\ s \o t \in Seq(X) /\ Len(s \o t) = Len(s) + Len(t)
        /\ \A i \in 1 .. Len(s) + Len(t) :
             (s \o t)[i] = IF i <= Len(s) THEN s[i] ELSE t[i - Len(s)]
    BY ConcatProperties
  <1>2. PICK l \in Nat, m \in Nat : l = Len(s) /\ m = Len(t)
    BY LenProperties
  <1>3. /\ u \in Seq(X) /\ Len(u) = l + m
        /\ \A i \in 1..(l + m) : u[i] = IF i <= l THEN s[i] ELSE t[i - l]
    BY <1>1, <1>2 DEF Appended
  <1>4. \A p \in 1..l : p \in 1..Len(u) /\ u[p] = s[p]
    BY <1>3
  <1>5. \A p \in 1..m : l + p \in 1..Len(u) /\ u[l + p] = t[p]
    BY <1>3
  <1>6. \A p \in 1..(l + m) : p \in 1..l \/ \E r \in 1..m : p = l + r
    <2> SUFFICES ASSUME NEW p \in 1..(l + m), p \notin 1..l PROVE \E r \in 1..m : p = l + r
      OBVIOUS
    <2>1. p - l \in 1..m /\ p = l + (p - l)
      OBVIOUS
    <2> QED
      BY <2>1
  <1> QED
    BY <1>2, <1>3, <1>4, <1>5, <1>6

\* The same, to be handled whole.
Placed(u, s, t) ==
  /\ Len(s) \in Nat /\ Len(t) \in Nat /\ Len(u) = Len(s) + Len(t)
  /\ \A p \in 1..Len(s) : p \in 1..Len(u) /\ u[p] = s[p]
  /\ \A p \in 1..Len(t) : Len(s) + p \in 1..Len(u) /\ u[Len(s) + p] = t[p]
  /\ \A p \in 1..Len(u) : p \in 1..Len(s) \/ \E r \in 1..Len(t) : p = Len(s) + r

LEMMA AppendedArePlaced ==
  ASSUME NEW X, NEW s \in Seq(X), NEW t \in Seq(X), NEW u, Appended(u, s, t)
  PROVE  u \in Seq(X) /\ Placed(u, s, t)
  BY AppendedPlaces DEF Placed

\* Lists can be appended.
LEMMA AppendsAreLists ==
  ASSUME NEW X, NEW s \in Seq(X), NEW t \in Seq(X)
  PROVE  \E u \in Seq(X) : Appended(u, s, t)
  BY ConcatProperties DEF Appended

\* The order in which lists are appended does not matter.
LEMMA AppendsAssociate ==
  ASSUME NEW X, NEW s \in Seq(X), NEW t \in Seq(X), NEW v \in Seq(X),
         NEW st, Appended(st, s, t), NEW tv, Appended(tv, t, v),
         NEW x, Appended(x, st, v), NEW y, Appended(y, s, tv)
  PROVE  x = y
  BY ConcatAssociative DEF Appended

\* The statements that drop the old columns that are there.
LEMMA DroppingList ==
  ASSUME NEW F, FieldList(F)
  PROVE  /\ Dropping(F) \in Seq(Change(F))
         /\ \A p \in 1..Len(Dropping(F)) : \E i \in DOMAIN F :
              Dropping(F)[p] = <<"drop", F[i].old>> /\ F[i].old \in relation.columns
         /\ \A i \in DOMAIN F : F[i].old \in relation.columns =>
              \E p \in 1..Len(Dropping(F)) : Dropping(F)[p] = <<"drop", F[i].old>>
  <1>1. PICK n \in Nat : n = Len(F) /\ DOMAIN F = 1..n
    BY DEF FieldList
  <1> DEFINE drop(i) == <<"drop", F[i].old>>
             block(i) == IF F[i].old \in relation.columns THEN << drop(i) >> ELSE << >>
  <1>2. \A i \in 1..n : drop(i) \in Change(F)
    BY <1>1, Changes
  <1>3. PICK S : S = [i \in 1..n |-> block(i)]
    OBVIOUS
  <1>4. S \in [1..n -> Seq(Change(F))] /\ \A i \in 1..n : S[i] = block(i)
    <2> HIDE DEF drop
    <2>1. \A i \in 1..n : block(i) \in Seq(Change(F))
      BY <1>2
    <2> HIDE DEF block
    <2> QED
      BY <1>3, <2>1
  <1>5. Dropping(F) = FlattenSeq(S)
    BY <1>1, <1>3 DEF Dropping, When
  <1>6. PICK B \in Seq(Change(F)) : B = Dropping(F)
    BY <1>4, <1>5, FlattenJoins
  <1>7. PICK at : PartsIn(B, n, S, at)
    BY <1>4, <1>5, <1>6, FlattenJoins
  <1>8. /\ at \in [0..n -> Nat] /\ Len(B) = at[n]
        /\ \A k \in 1..n : \A i \in 1..Len(S[k]) : B[at[k - 1] + i] = S[k][i]
        /\ \A p \in 1..Len(B) : \E k \in 1..n : \E i \in 1..Len(S[k]) : p = at[k - 1] + i
    BY <1>7 DEF PartsIn
  <1>9. \A k \in 1..n :
          /\ F[k].old \in relation.columns => Len(S[k]) = 1 /\ S[k][1] = drop(k)
          /\ F[k].old \notin relation.columns => Len(S[k]) = 0
    <2> HIDE DEF drop
    <2> QED
      BY <1>4
  <1>10. \A p \in 1..Len(B) : \E k \in 1..n : B[p] = drop(k) /\ F[k].old \in relation.columns
    <2> SUFFICES ASSUME NEW p \in 1..Len(B)
                 PROVE  \E k \in 1..n : B[p] = drop(k) /\ F[k].old \in relation.columns
      OBVIOUS
    <2> HIDE DEF drop
    <2>1. PICK k \in 1..n : \E i \in 1..Len(S[k]) : p = at[k - 1] + i
      BY <1>8
    <2>2. PICK i \in 1..Len(S[k]) : p = at[k - 1] + i
      BY <2>1
    <2>3. B[p] = S[k][i]
      BY <1>8, <2>2
    <2>4. F[k].old \in relation.columns /\ i = 1
      <3>1. CASE F[k].old \notin relation.columns
        <4>1. Len(S[k]) = 0
          BY <1>9, <3>1
        <4> QED
          BY <4>1
      <3>2. CASE F[k].old \in relation.columns
        <4>1. Len(S[k]) = 1
          BY <1>9, <3>2
        <4> QED
          BY <3>2, <4>1
      <3> QED
        BY <3>1, <3>2
    <2> QED
      BY <1>9, <2>3, <2>4
  <1>11. \A k \in 1..n : F[k].old \in relation.columns => \E p \in 1..Len(B) : B[p] = drop(k)
    <2> SUFFICES ASSUME NEW k \in 1..n, F[k].old \in relation.columns
                 PROVE  \E p \in 1..Len(B) : B[p] = drop(k)
      OBVIOUS
    <2> HIDE DEF drop
    <2>1. at[k - 1] \in Nat /\ at[k] \in Nat /\ at[k] = at[k - 1] + Len(S[k])
      <3>1. k - 1 \in 0..n /\ k \in 0..n
        OBVIOUS
      <3> QED
        BY <1>7, <1>8, <3>1 DEF PartsIn
    <2>2. at[k] <= Len(B)
      <3>1. \A j \in 0..n : at[j] <= Len(B)
        BY <1>4, <1>7, JoinedWithin
      <3>2. k \in 0..n
        OBVIOUS
      <3> QED
        BY <3>1, <3>2
    <2>3. 1 \in 1..Len(S[k]) /\ Len(S[k]) = 1 /\ S[k][1] = drop(k)
      BY <1>9
    <2>4. B[at[k - 1] + 1] = S[k][1]
      BY <1>8, <2>3
    <2>5. Len(B) \in Nat
      BY <1>6, LenProperties
    <2>6. at[k - 1] + 1 \in 1..Len(B) /\ B[at[k - 1] + 1] = drop(k)
      BY <2>1, <2>2, <2>3, <2>4, <2>5
    <2> QED
      BY <2>6
  <1>12. \A i \in DOMAIN F : i \in 1..n
    BY <1>1
  <1>13. \A i \in 1..n : i \in DOMAIN F
    BY <1>1
  <1>14. \A p \in 1..Len(B) : \E i \in DOMAIN F :
           B[p] = <<"drop", F[i].old>> /\ F[i].old \in relation.columns
    BY <1>10, <1>13, Zenon
  <1>15. \A i \in DOMAIN F : F[i].old \in relation.columns =>
           \E p \in 1..Len(B) : B[p] = <<"drop", F[i].old>>
    BY <1>11, <1>12, Zenon
  <1> QED
    BY <1>6, <1>14, <1>15, Zenon

\* The next place is after this one.
LEMMA OwnPlace ==
  ASSUME NEW w \in Nat, NEW p \in 1..w, p + 1 \in 1..w
  PROVE  p + 1 \in (p + 1)..w
  OBVIOUS

\* A place after another stays after it behind n statements.
LEMMA ShiftedPlace ==
  ASSUME NEW n \in Nat, NEW u \in Nat, NEW r \in 1..u, NEW q \in (r + 1)..u
  PROVE  q \in 1..u /\ n + q \in ((n + r) + 1)..(n + u)
  OBVIOUS

\* The statements after the filling ones.
LateOK(T, F) ==
  /\ T \in Seq(Change(F))
  /\ \A p \in 1..Len(T) :
       /\ T[p][1] \in {"not null", "drop key", "add key", "drop", "end"}
       /\ T[p][1] = "not null" => T[p][2] \in Columns(F)
       /\ T[p][1] = "drop" => T[p][2] \in relation.columns

\* The end of a list: the old columns go, then the init is done.
LEMMA DropsAndEnd ==
  ASSUME NEW F, FieldList(F), relation.columns \in SUBSET Names(F),
         NEW T, Appended(T, Dropping(F), TheEnd)
  PROVE  /\ LateOK(T, F)
         /\ \A p \in 1..Len(T) : T[p][1] \in {"drop", "end"}
         /\ \A i \in DOMAIN F : F[i].old \in relation.columns =>
              \E p \in 1..Len(T) : T[p][1] = "drop" /\ T[p][2] = F[i].old
  <1>1. PICK D \in Seq(Change(F)) : D = Dropping(F)
    BY DroppingList
  <1>2. PICK e \in Seq(Change(F)) : e = TheEnd /\ Len(e) = 1 /\ e[1] = <<"end">>
    <2>1. <<"end">> \in Change(F)
      BY Changes
    <2> QED
      BY <2>1, OneLong DEF TheEnd
  <1>3. Appended(T, D, e)
    BY <1>1, <1>2
  <1>4. /\ T \in Seq(Change(F)) /\ Len(T) = Len(D) + Len(e) /\ Len(D) \in Nat
        /\ \A p \in 1..Len(D) : p \in 1..Len(T) /\ T[p] = D[p]
        /\ \A p \in 1..Len(e) : Len(D) + p \in 1..Len(T) /\ T[Len(D) + p] = e[p]
        /\ \A p \in 1..Len(T) : p \in 1..Len(D) \/ \E r \in 1..Len(e) : p = Len(D) + r
    BY <1>3, AppendedPlaces
  <1>5. /\ \A p \in 1..Len(D) : \E i \in DOMAIN F :
             D[p] = <<"drop", F[i].old>> /\ F[i].old \in relation.columns
        /\ \A i \in DOMAIN F : F[i].old \in relation.columns =>
             \E p \in 1..Len(D) : D[p] = <<"drop", F[i].old>>
    BY <1>1, DroppingList
  <1>6. \A p \in 1..Len(T) : \/ T[p] = <<"end">>
                             \/ \E i \in DOMAIN F : T[p] = <<"drop", F[i].old>>
                                                    /\ F[i].old \in relation.columns
    <2> SUFFICES ASSUME NEW p \in 1..Len(T)
                 PROVE  \/ T[p] = <<"end">>
                        \/ \E i \in DOMAIN F : T[p] = <<"drop", F[i].old>>
                                               /\ F[i].old \in relation.columns
      OBVIOUS
    <2>1. CASE p \in 1..Len(D)
      <3>1. T[p] = D[p]
        BY <1>4, <2>1
      <3> QED
        BY <1>5, <2>1, <3>1, Zenon
    <2>2. CASE \E r \in 1..Len(e) : p = Len(D) + r
      <3>1. PICK r \in 1..Len(e) : p = Len(D) + r
        BY <2>2
      <3>2. r = 1
        BY <1>2
      <3>3. T[p] = e[1]
        BY <1>4, <3>1, <3>2
      <3> QED
        BY <1>2, <3>3, Zenon
    <2> QED
      BY <1>4, <2>1, <2>2
  <1>7. \A p \in 1..Len(T) : T[p][1] = "end" \/ (T[p][1] = "drop" /\ T[p][2] \in relation.columns)
    BY <1>6
  <1>8. \A i \in DOMAIN F : F[i].old \in relation.columns =>
          \E p \in 1..Len(T) : T[p][1] = "drop" /\ T[p][2] = F[i].old
    <2> SUFFICES ASSUME NEW i \in DOMAIN F, F[i].old \in relation.columns
                 PROVE  \E p \in 1..Len(T) : T[p][1] = "drop" /\ T[p][2] = F[i].old
      OBVIOUS
    <2>1. PICK p \in 1..Len(D) : D[p] = <<"drop", F[i].old>>
      BY <1>5
    <2>2. p \in 1..Len(T) /\ T[p] = <<"drop", F[i].old>>
      BY <1>4, <2>1
    <2> QED
      BY <2>2
  <1> QED
    BY <1>4, <1>7, <1>8 DEF LateOK

\* The statements that change the key.
LEMMA RekeyingList ==
  ASSUME NEW F, KeyOK(relation), NEW Y, Y = Rekeying
  PROVE  /\ Y \in Seq(Change(F)) /\ Len(Y) \in Nat
         /\ \A p \in 1..Len(Y) :
              \/ Y[p][1] = "add key"
              \/ Y[p][1] = "drop key" /\ p + 1 \in 1..Len(Y) /\ Y[p + 1][1] = "add key"
         /\ relation.key = "new" \/ \E p \in 1..Len(Y) : Y[p][1] = "add key"
  <1>1. PICK dk \in Change(F) : dk = <<"drop key">>
    BY Changes
  <1>2. PICK ak \in Change(F) : ak = <<"add key">>
    BY Changes
  <1>4. \/ relation.key = "new" /\ Y = << >>
        \/ Y = << dk, ak >>
        \/ Y = << ak >>
    BY <1>1, <1>2 DEF Rekeying, KeyOK
  <1>5. /\ Y \in Seq(Change(F)) /\ Len(Y) \in Nat
        /\ \A p \in 1..Len(Y) :
             \/ Y[p] = ak
             \/ Y[p] = dk /\ p + 1 \in 1..Len(Y) /\ Y[p + 1] = ak
        /\ relation.key = "new" \/ \E p \in 1..Len(Y) : Y[p] = ak
    <2>1. CASE relation.key = "new" /\ Y = << >>
      <3>1. Y \in Seq(Change(F)) /\ Len(Y) = 0 /\ 1..0 = {}
        BY <2>1
      <3> QED
        BY <2>1, <3>1
    <2>2. CASE Y = << dk, ak >>
      <3>1. Y \in Seq(Change(F)) /\ Len(Y) = 2 /\ Y[1] = dk /\ Y[2] = ak
        BY <2>2, TwoLong
      <3>2. 1..2 = {1, 2} /\ 1 + 1 = 2
        OBVIOUS
      <3> QED
        BY <3>1, <3>2
    <2>3. CASE Y = << ak >>
      <3>1. Y \in Seq(Change(F)) /\ Len(Y) = 1 /\ Y[1] = ak
        BY <2>3, OneLong
      <3>2. 1..1 = {1}
        OBVIOUS
      <3> QED
        BY <3>1, <3>2
    <2> QED
      BY <1>4, <2>1, <2>2, <2>3
  <1>6. dk[1] = "drop key" /\ ak[1] = "add key"
    BY <1>1, <1>2
  <1> QED
    BY <1>5, <1>6

\* The new key comes before them.
LEMMA KeyAndAfter ==
  ASSUME NEW F, FieldList(F), relation.columns \in SUBSET Names(F),
         KeyOK(relation),
         NEW U, Appended(U, Dropping(F), TheEnd), NEW T, Appended(T, Rekeying, U)
  PROVE  LateOK(T, F) /\ KeyComing(relation, T) /\ DropsComing(relation, F, T)
  <1>2. /\ LateOK(U, F)
        /\ \A p \in 1..Len(U) : U[p][1] \in {"drop", "end"}
        /\ \A i \in DOMAIN F : F[i].old \in relation.columns =>
             \E p \in 1..Len(U) : U[p][1] = "drop" /\ U[p][2] = F[i].old
    BY DropsAndEnd
  <1>3. U \in Seq(Change(F))
    BY <1>2 DEF LateOK
  <1>6a. PICK Y : Y = Rekeying
    OBVIOUS
  <1>6. Y \in Seq(Change(F)) /\ Y = Rekeying
    BY <1>6a, RekeyingList
  <1>8. /\ Len(Y) \in Nat
        /\ \A p \in 1..Len(Y) :
             \/ Y[p][1] = "add key"
             \/ Y[p][1] = "drop key" /\ p + 1 \in 1..Len(Y) /\ Y[p + 1][1] = "add key"
        /\ relation.key = "new" \/ \E p \in 1..Len(Y) : Y[p][1] = "add key"
    BY <1>6, RekeyingList
  <1>9. /\ T \in Seq(Change(F)) /\ Len(T) = Len(Y) + Len(U) /\ Len(U) \in Nat
        /\ \A p \in 1..Len(Y) : p \in 1..Len(T) /\ T[p] = Y[p]
        /\ \A p \in 1..Len(U) : Len(Y) + p \in 1..Len(T) /\ T[Len(Y) + p] = U[p]
        /\ \A p \in 1..Len(T) : p \in 1..Len(Y) \/ \E r \in 1..Len(U) : p = Len(Y) + r
    <2>1. Appended(T, Y, U)
      BY <1>6
    <2> QED
      BY <1>3, <1>6, <2>1, AppendedPlaces
  <1>10. \A p \in 1..Len(T) :
           \/ p \in 1..Len(Y) /\ T[p] = Y[p]
           \/ \E r \in 1..Len(U) : T[p] = U[r]
    BY <1>9
  <1>11. LateOK(T, F)
    <2>1. \A p \in 1..Len(T) :
            \/ T[p][1] \in {"drop key", "add key"}
            \/ \E r \in 1..Len(U) : T[p] = U[r]
      BY <1>8, <1>10
    <2>2. \A p \in 1..Len(T) :
            /\ T[p][1] \in {"not null", "drop key", "add key", "drop", "end"}
            /\ T[p][1] = "not null" => T[p][2] \in Columns(F)
            /\ T[p][1] = "drop" => T[p][2] \in relation.columns
      <3> SUFFICES ASSUME NEW p \in 1..Len(T)
                   PROVE  /\ T[p][1] \in {"not null", "drop key", "add key", "drop", "end"}
                          /\ T[p][1] = "not null" => T[p][2] \in Columns(F)
                          /\ T[p][1] = "drop" => T[p][2] \in relation.columns
        OBVIOUS
      <3>1. CASE T[p][1] \in {"drop key", "add key"}
        BY <3>1
      <3>2. CASE \E r \in 1..Len(U) : T[p] = U[r]
        BY <1>2, <3>2 DEF LateOK
      <3> QED
        BY <2>1, <3>1, <3>2
    <2> QED
      BY <1>9, <2>2 DEF LateOK
  <1>9a. Len(T) \in Nat
    BY <1>9, LenProperties
  <1>12. relation.key = "new" \/ \E p \in 1..Len(T) : T[p][1] = "add key"
    <2> SUFFICES ASSUME relation.key # "new" PROVE \E p \in 1..Len(T) : T[p][1] = "add key"
      OBVIOUS
    <2>1. PICK p \in 1..Len(Y) : Y[p][1] = "add key"
      BY <1>8
    <2>2. p \in 1..Len(T) /\ T[p][1] = "add key"
      BY <1>9, <2>1
    <2> QED
      BY <2>2
  <1>13. \A p \in 1..Len(T) : T[p][1] = "drop key" =>
           \E q \in (p + 1)..Len(T) : T[q][1] = "add key"
    <2> SUFFICES ASSUME NEW p \in 1..Len(T), T[p][1] = "drop key"
                 PROVE  \E q \in (p + 1)..Len(T) : T[q][1] = "add key"
      OBVIOUS
    <2>1. p \in 1..Len(Y) /\ T[p] = Y[p]
      <3>1. \A r \in 1..Len(U) : U[r][1] # "drop key"
        BY <1>2
      <3> QED
        BY <1>10, <3>1
    <2>2. p + 1 \in 1..Len(Y) /\ Y[p + 1][1] = "add key"
      BY <1>8, <2>1
    <2>3. p + 1 \in 1..Len(T) /\ T[p + 1][1] = "add key"
      BY <1>9, <2>2
    <2>3a. PICK w \in Nat : w = Len(T)
      BY <1>9a
    <2>4. p + 1 \in (p + 1)..Len(T)
      BY <2>3, <2>3a, OwnPlace
    <2> QED
      BY <2>3, <2>4
  <1>14. \A i \in DOMAIN F : F[i].old \in relation.columns =>
           \E p \in 1..Len(T) : T[p][1] = "drop" /\ T[p][2] = F[i].old
    <2> SUFFICES ASSUME NEW i \in DOMAIN F, F[i].old \in relation.columns
                 PROVE  \E p \in 1..Len(T) : T[p][1] = "drop" /\ T[p][2] = F[i].old
      OBVIOUS
    <2>1. PICK p \in 1..Len(U) : U[p][1] = "drop" /\ U[p][2] = F[i].old
      BY <1>2
    <2>2. Len(Y) + p \in 1..Len(T) /\ T[Len(Y) + p] = U[p]
      BY <1>9
    <2> QED
      BY <2>1, <2>2
  <1> QED
    BY <1>11, <1>12, <1>13, <1>14 DEF KeyComing, DropsComing

\* Every column is required before that.
LEMMA LateList ==
  ASSUME NEW F, FieldList(F), relation.columns \in SUBSET Names(F),
         KeyOK(relation),
         NEW V, Appended(V, Dropping(F), TheEnd), NEW U, Appended(U, Rekeying, V),
         NEW T, Appended(T, Requiring(F), U)
  PROVE  LateOK(T, F) /\ ShapeComing(relation, F, T)
  <1>2a. LateOK(U, F) /\ KeyComing(relation, U) /\ DropsComing(relation, F, U)
    BY KeyAndAfter
  <1>2. /\ LateOK(U, F)
        /\ relation.key = "new" \/ \E p \in 1..Len(U) : U[p][1] = "add key"
        /\ \A p \in 1..Len(U) : U[p][1] = "drop key" =>
             \E q \in (p + 1)..Len(U) : U[q][1] = "add key"
        /\ \A i \in DOMAIN F : F[i].old \in relation.columns =>
             \E p \in 1..Len(U) : U[p][1] = "drop" /\ U[p][2] = F[i].old
    BY <1>2a DEF KeyComing, DropsComing
  <1>3. U \in Seq(Change(F))
    BY <1>2 DEF LateOK
  <1>4. PICK n \in Nat : n = Len(F) /\ DOMAIN F = 1..n
    BY DEF FieldList
  <1> DEFINE need(i) == <<"not null", F[i].new>>
  <1>5. \A i \in 1..n : F[i].new \in Columns(F)
    BY <1>4 DEF Columns
  <1>6. \A i \in 1..n : need(i) \in Change(F) /\ need(i)[1] = "not null" /\ need(i)[2] = F[i].new
    BY <1>4, Changes
  <1> HIDE DEF need
  <1>7. PICK Q : Q = Requiring(F)
    OBVIOUS
  <1>8. Q = [i \in 1..n |-> need(i)]
    BY <1>4, <1>7 DEF Requiring, need
  <1>9. Q \in Seq(Change(F)) /\ Len(Q) = n /\ \A i \in 1..n : Q[i] = need(i)
    <2>1. \A i \in 1..n : need(i) \in Change(F)
      BY <1>6
    <2> QED
      BY <1>8, <2>1
  <1>9q. Q \in Seq(Change(F))
    BY <1>9
  <1>10. /\ T \in Seq(Change(F)) /\ Len(T) = n + Len(U) /\ Len(U) \in Nat
         /\ \A p \in 1..n : p \in 1..Len(T) /\ T[p] = need(p)
         /\ \A p \in 1..Len(U) : n + p \in 1..Len(T) /\ T[n + p] = U[p]
         /\ \A p \in 1..Len(T) : p \in 1..n \/ \E r \in 1..Len(U) : p = n + r
    <2>1. Appended(T, Q, U)
      BY <1>7
    <2>2. /\ T \in Seq(Change(F)) /\ Len(Q) \in Nat /\ Len(U) \in Nat
          /\ Len(T) = Len(Q) + Len(U)
          /\ \A p \in 1..Len(Q) : p \in 1..Len(T) /\ T[p] = Q[p]
          /\ \A p \in 1..Len(U) : Len(Q) + p \in 1..Len(T) /\ T[Len(Q) + p] = U[p]
          /\ \A p \in 1..Len(T) : p \in 1..Len(Q) \/ \E r \in 1..Len(U) : p = Len(Q) + r
      <3>1. PICK X : X = Change(F)
        OBVIOUS
      <3>2. Q \in Seq(X) /\ U \in Seq(X)
        BY <1>3, <1>9q, <3>1
      <3>3. T \in Seq(X) /\ Placed(T, Q, U)
        BY <2>1, <3>2, AppendedArePlaced
      <3> QED
        BY <3>1, <3>3, Zenon DEF Placed
    <2>3. Len(Q) = n /\ \A p \in 1..n : Q[p] = need(p)
      BY <1>9
    <2> QED
      BY <2>2, <2>3
  <1>11. LateOK(T, F)
    <2>2. \A p \in 1..Len(T) :
            /\ T[p][1] \in {"not null", "drop key", "add key", "drop", "end"}
            /\ T[p][1] = "not null" => T[p][2] \in Columns(F)
            /\ T[p][1] = "drop" => T[p][2] \in relation.columns
      <3> SUFFICES ASSUME NEW p \in 1..Len(T)
                   PROVE  /\ T[p][1] \in {"not null", "drop key", "add key", "drop", "end"}
                          /\ T[p][1] = "not null" => T[p][2] \in Columns(F)
                          /\ T[p][1] = "drop" => T[p][2] \in relation.columns
        OBVIOUS
      <3>1. CASE p \in 1..n
        BY <1>5, <1>6, <1>10, <3>1
      <3>2. CASE \E r \in 1..Len(U) : p = n + r
        BY <1>2, <1>10, <3>2 DEF LateOK
      <3> QED
        BY <1>10, <3>1, <3>2
    <2> QED
      BY <1>10, <2>2 DEF LateOK
  <1>12. relation.key = "new" \/ \E p \in 1..Len(T) : T[p][1] = "add key"
    <2> SUFFICES ASSUME relation.key # "new" PROVE \E p \in 1..Len(T) : T[p][1] = "add key"
      OBVIOUS
    <2>1. PICK p \in 1..Len(U) : U[p][1] = "add key"
      BY <1>2
    <2>2. n + p \in 1..Len(T) /\ T[n + p] = U[p]
      BY <1>10
    <2> QED
      BY <2>1, <2>2
  <1>13. \A p \in 1..Len(T) : T[p][1] = "drop key" =>
           \E q \in (p + 1)..Len(T) : T[q][1] = "add key"
    <2> SUFFICES ASSUME NEW p \in 1..Len(T), T[p][1] = "drop key"
                 PROVE  \E q \in (p + 1)..Len(T) : T[q][1] = "add key"
      OBVIOUS
    <2>1. p \notin 1..n
      BY <1>6, <1>10
    <2>2. PICK r \in 1..Len(U) : p = n + r
      BY <1>10, <2>1
    <2>3. PICK q \in (r + 1)..Len(U) : U[q][1] = "add key"
      BY <1>2, <1>10, <2>2
    <2>4a. Len(U) \in Nat /\ Len(T) = n + Len(U)
      BY <1>10
    <2>4. q \in 1..Len(U) /\ n + q \in (p + 1)..Len(T)
      BY <2>2, <2>4a, ShiftedPlace
    <2>5. T[n + q] = U[q]
      BY <1>10, <2>4
    <2> QED
      BY <2>3, <2>4, <2>5
  <1>14. \A i \in DOMAIN F : F[i].old \in relation.columns =>
           \E p \in 1..Len(T) : T[p][1] = "drop" /\ T[p][2] = F[i].old
    <2> SUFFICES ASSUME NEW i \in DOMAIN F, F[i].old \in relation.columns
                 PROVE  \E p \in 1..Len(T) : T[p][1] = "drop" /\ T[p][2] = F[i].old
      OBVIOUS
    <2>1. PICK p \in 1..Len(U) : U[p][1] = "drop" /\ U[p][2] = F[i].old
      BY <1>2
    <2>2. n + p \in 1..Len(T) /\ T[n + p] = U[p]
      BY <1>10
    <2> QED
      BY <2>1, <2>2
  <1>15. \A i \in DOMAIN F : \E p \in 1..Len(T) : T[p][1] = "not null" /\ T[p][2] = F[i].new
    <2> SUFFICES ASSUME NEW i \in DOMAIN F
                 PROVE  \E p \in 1..Len(T) : T[p][1] = "not null" /\ T[p][2] = F[i].new
      OBVIOUS
    <2>1. i \in 1..n
      BY <1>4
    <2>2. i \in 1..Len(T) /\ T[i] = need(i)
      BY <1>10, <2>1
    <2> QED
      BY <1>6, <2>1, <2>2
  <1> QED
    BY <1>11, <1>12, <1>13, <1>14, <1>15, Zenon DEF ShapeComing, KeyComing, NeedsComing, DropsComing

\* A list made from the table as it is promises what it should.
LEMMA WholeList ==
  ASSUME NEW F, FieldList(F), F = FieldsOf(relation.name), RowsKept(relation, F),
         relation.name # "meta_batches"
  PROVE  LegacyComing(relation, F, LegacyStatements \o << <<"end">> >>)
  <1>1. relation.columns \in SUBSET Names(F) /\ KeyOK(relation)
    BY DEF RowsKept, LegacyTable, KeyOK
  <1>2. PICK B \in Seq(Change(F)) : B = Filling(F)
    BY FillingList
  <1>3. PICK Q \in Seq(Change(F)) : Q = Requiring(F)
    <2>1. \A i \in DOMAIN F : <<"not null", F[i].new>> \in Change(F)
      BY Changes
    <2>2. PICK n \in Nat : DOMAIN F = 1..n
      BY DEF FieldList
    <2> DEFINE need(i) == <<"not null", F[i].new>>
    <2>3. Requiring(F) = [i \in 1..n |-> need(i)]
      BY <2>2 DEF Requiring
    <2>4. \A i \in 1..n : need(i) \in Change(F)
      BY <2>1, <2>2
    <2> HIDE DEF need
    <2>5. [i \in 1..n |-> need(i)] \in Seq(Change(F))
      BY <2>4
    <2> QED
      BY <2>3, <2>5
  <1>4a. PICK Y : Y = Rekeying
    OBVIOUS
  <1>4. Y \in Seq(Change(F)) /\ Y = Rekeying
    BY <1>1, <1>4a, RekeyingList
  <1>4y. Y \in Seq(Change(F))
    BY <1>4
  <1>5. PICK D \in Seq(Change(F)) : D = Dropping(F)
    BY DroppingList
  <1>6. PICK e \in Seq(Change(F)) : e = TheEnd
    <2>1. <<"end">> \in Change(F)
      BY Changes
    <2> QED
      BY <2>1, OneLong DEF TheEnd
  <1>7. PICK V \in Seq(Change(F)) : Appended(V, D, e)
    BY AppendsAreLists
  <1>7a. PICK U \in Seq(Change(F)) : Appended(U, Y, V)
    BY <1>4y, AppendsAreLists
  <1>7b. PICK T \in Seq(Change(F)) : Appended(T, Q, U)
    BY AppendsAreLists
  <1>7c. LateOK(T, F) /\ ShapeComing(relation, F, T)
    <2>1. Appended(V, Dropping(F), TheEnd) /\ Appended(U, Rekeying, V)
          /\ Appended(T, Requiring(F), U)
      BY <1>3, <1>4, <1>5, <1>6, <1>7, <1>7a, <1>7b
    <2> QED
      BY <1>1, <2>1, LateList
  <1>7d. PICK R \in Seq(Change(F)) : Appended(R, B, T)
    BY AppendsAreLists
  <1>7e. R = LegacyStatements \o << <<"end">> >>
    <2>1. PICK s \in Seq(Change(F)) : Appended(s, B, Q)
      BY AppendsAreLists
    <2>2. PICK t \in Seq(Change(F)) : Appended(t, s, Y)
      BY <1>4y, AppendsAreLists
    <2>3. PICK d \in Seq(Change(F)) : Appended(d, t, D)
      BY AppendsAreLists
    <2>4. PICK x \in Seq(Change(F)) : Appended(x, d, e)
      BY AppendsAreLists
    <2>5. PICK tv \in Seq(Change(F)) : Appended(tv, t, V)
      BY AppendsAreLists
    <2>6. PICK su \in Seq(Change(F)) : Appended(su, s, U)
      BY AppendsAreLists
    <2>7. x = tv
      BY <1>7, <2>3, <2>4, <2>5, AppendsAssociate
    <2>8. tv = su
      BY <1>4y, <1>7a, <2>2, <2>5, <2>6, AppendsAssociate
    <2>9. su = R
      BY <1>7b, <1>7d, <2>1, <2>6, AppendsAssociate
    <2>10. LegacyStatements = ((B \o Q) \o Y) \o D
      BY <1>2, <1>3, <1>4, <1>5, Zenon DEF LegacyStatements
    <2>11. d = LegacyStatements
      BY <2>1, <2>2, <2>3, <2>10, Zenon DEF Appended
    <2>12. x = LegacyStatements \o << <<"end">> >>
      BY <1>6, <2>4, <2>11, Zenon DEF Appended, TheEnd
    <2> QED
      BY <2>7, <2>8, <2>9, <2>12
  <1>8. PICK l \in Nat, m \in Nat : l = Len(B) /\ m = Len(T)
    BY <1>2, <1>7b, LenProperties
  <1>9. /\ R \in Seq(Change(F)) /\ Len(R) = l + m
        /\ \A p \in 1..l : p \in 1..Len(R) /\ R[p] = B[p]
        /\ \A p \in 1..m : l + p \in 1..Len(R) /\ R[l + p] = T[p]
        /\ \A p \in 1..Len(R) : p \in 1..l \/ \E r \in 1..m : p = l + r
    <2>1. PICK X : X = Change(F)
      OBVIOUS
    <2>2. B \in Seq(X) /\ T \in Seq(X)
      BY <1>2, <1>7b, <2>1
    <2>3. /\ R \in Seq(X) /\ Len(R) = Len(B) + Len(T)
          /\ \A p \in 1..Len(B) : p \in 1..Len(R) /\ R[p] = B[p]
          /\ \A p \in 1..Len(T) : Len(B) + p \in 1..Len(R) /\ R[Len(B) + p] = T[p]
          /\ \A p \in 1..Len(R) : p \in 1..Len(B) \/ \E r \in 1..Len(T) : p = Len(B) + r
      BY <1>7d, <2>2, AppendedPlaces
    <2> QED
      BY <1>8, <2>1, <2>3, Zenon
  <1>10. /\ \A p \in 1..l : \E i \in DOMAIN F :
              /\ B[p][2] = F[i].new
              /\ \/ B[p][1] = "fill" /\ B[p][3] = Source(F[i])
                 \/ B[p][1] = "add" /\ ~Has(F[i].new)
         /\ \A p, q \in 1..l :
              B[p][1] = "add" /\ B[q][1] = "add" /\ B[p][2] = B[q][2] => p = q
         /\ \A i \in DOMAIN F : \E q \in 1..l :
              /\ B[q][1] = "fill" /\ B[q][2] = F[i].new
              /\ \/ Has(F[i].new)
                 \/ \E o \in 1..(q - 1) : B[o][1] = "add" /\ B[o][2] = F[i].new
    <2>1. FillingOK(B, F)
      BY <1>2, FillingList
    <2> QED
      BY <1>8, <2>1 DEF FillingOK
  <1>11. \A p \in 1..m :
           /\ T[p][1] \in {"not null", "drop key", "add key", "drop", "end"}
           /\ T[p][1] = "not null" => T[p][2] \in Columns(F)
           /\ T[p][1] = "drop" => T[p][2] \in relation.columns
    BY <1>7c, <1>8 DEF LateOK
  <1>12. \A p \in 1..l : B[p][1] \in {"add", "fill"}
    BY <1>10
  <1>13. \A p \in 1..Len(R) : ChangeOK(R[p], relation, F)
    <2> SUFFICES ASSUME NEW p \in 1..Len(R) PROVE ChangeOK(R[p], relation, F)
      OBVIOUS
    <2>1. CASE p \in 1..l
      <3>1. PICK i \in DOMAIN F :
              /\ B[p][2] = F[i].new
              /\ \/ B[p][1] = "fill" /\ B[p][3] = Source(F[i])
                 \/ B[p][1] = "add" /\ ~Has(F[i].new)
        BY <1>10, <2>1
      <3>2. R[p] = B[p]
        BY <1>9, <2>1
      <3>3. PICK s : s = R[p]
        OBVIOUS
      <3>4. CASE s[1] = "fill" /\ s[3] = Source(F[i])
        <4>1. s[3] \in {"legacy", "default"} /\ (F[i].old \in relation.columns => s[3] = "legacy")
          BY <3>4 DEF Source
        <4>2. ChangeOK(s, relation, F)
          BY <3>1, <3>2, <3>3, <3>4, <4>1 DEF ChangeOK
        <4> QED
          BY <3>3, <4>2
      <3>5. CASE s[1] = "add" /\ ~Has(F[i].new)
        <4>1. s[2] = F[i].new /\ relation.held[s[2]] = "absent"
          BY <3>1, <3>2, <3>3, <3>5 DEF Has
        <4>2. ChangeOK(s, relation, F)
          BY <3>5, <4>1 DEF ChangeOK
        <4> QED
          BY <3>3, <4>2
      <3> QED
        BY <3>1, <3>2, <3>3, <3>4, <3>5
    <2>2. CASE \E r \in 1..m : p = l + r
      <3>1. PICK r \in 1..m : p = l + r
        BY <2>2
      <3>2. R[p] = T[r]
        BY <1>9, <3>1
      <3>3. NoSource \notin relation.columns
        BY DEF RowsKept
      <3>4. ChangeOK(T[r], relation, F)
        BY <1>1, <1>11, <3>3 DEF ChangeOK
      <3> QED
        BY <3>2, <3>4
    <2> QED
      BY <1>9, <2>1, <2>2
  <1>14. \A p \in 1..Len(R) : R[p][1] \in {"add", "fill"} => p \in 1..l
    <2> SUFFICES ASSUME NEW p \in 1..Len(R), p \notin 1..l PROVE R[p][1] \notin {"add", "fill"}
      OBVIOUS
    <2>1. PICK r \in 1..m : p = l + r
      BY <1>9
    <2>2. R[p] = T[r]
      BY <1>9, <2>1
    <2> QED
      BY <1>11, <2>2
  <1>14a. \A p, q \in 1..l :
            B[p][1] = "add" /\ B[q][1] = "add" /\ B[p][2] = B[q][2] => p = q
    BY <1>10
  <1>15. \A p, q \in 1..Len(R) :
           R[p][1] = "add" /\ R[q][1] = "add" /\ R[p][2] = R[q][2] => p = q
    <2> SUFFICES ASSUME NEW p \in 1..Len(R), NEW q \in 1..Len(R),
                        R[p][1] = "add", R[q][1] = "add", R[p][2] = R[q][2]
                 PROVE  p = q
      OBVIOUS
    <2>1. p \in 1..l /\ q \in 1..l
      BY <1>14
    <2>2. R[p] = B[p] /\ R[q] = B[q]
      BY <1>9, <2>1
    <2>3. B[p][1] = "add" /\ B[q][1] = "add" /\ B[p][2] = B[q][2]
      BY <2>2
    <2> QED
      BY <1>14a, <2>1, <2>3
  <1>16. \A p \in 1..Len(R) : R[p][1] = "drop" =>
           \A i \in DOMAIN F : F[i].old = R[p][2] => WillHold(relation, F[i].new, R, p)
    <2> SUFFICES ASSUME NEW p \in 1..Len(R), R[p][1] = "drop",
                        NEW i \in DOMAIN F, F[i].old = R[p][2]
                 PROVE  WillHold(relation, F[i].new, R, p)
      OBVIOUS
    <2>1. p \notin 1..l
      BY <1>9, <1>12
    <2>2. PICK r \in 1..m : p = l + r
      BY <1>9, <2>1
    <2>3. F[i].old \in relation.columns
      BY <1>9, <1>11, <2>2
    <2>4. relation.held[F[i].new] \in HeldValues /\ relation.held[F[i].new] # "default"
      <3>1. F[i].new \in Columns(F)
        BY DEF Columns
      <3> QED
        BY <2>3, <3>1 DEF RowsKept, LegacyTable
    <2>5. PICK q \in 1..l :
            /\ B[q][1] = "fill" /\ B[q][2] = F[i].new
            /\ \/ Has(F[i].new)
               \/ \E o \in 1..(q - 1) : B[o][1] = "add" /\ B[o][2] = F[i].new
      BY <1>10
    <2>6. q \in 1..(p - 1) /\ R[q][1] = "fill" /\ R[q][2] = F[i].new
      <3>1. R[q] = B[q]
        BY <1>9
      <3>2. q \in 1..(p - 1)
        BY <2>2, PlaceBefore
      <3> QED
        BY <2>5, <3>1, <3>2
    <2>7. CASE Has(F[i].new)
      <3>1. relation.held[F[i].new] \in {"null", "legacy"}
        BY <2>4, <2>7 DEF Has, HeldValues
      <3> QED
        BY <2>6, <3>1 DEF WillHold
    <2>8. CASE \E o \in 1..(q - 1) : B[o][1] = "add" /\ B[o][2] = F[i].new
      <3>1. PICK o \in 1..(q - 1) : B[o][1] = "add" /\ B[o][2] = F[i].new
        BY <2>8
      <3>2. o \in 1..l
        BY <3>1
      <3>3. R[o][1] = "add" /\ R[o][2] = F[i].new
        BY <1>9, <3>1, <3>2
      <3> QED
        BY <2>6, <3>1, <3>3 DEF WillHold
    <2> QED
      BY <2>5, <2>7, <2>8
  <1>17. ShapeComing(relation, F, R)
    <2>0. /\ relation.key = "new" \/ \E p \in 1..m : T[p][1] = "add key"
          /\ \A i \in DOMAIN F :
               /\ F[i].new \in relation.required
                  \/ \E p \in 1..m : T[p][1] = "not null" /\ T[p][2] = F[i].new
               /\ F[i].old \notin relation.columns
                  \/ \E p \in 1..m : T[p][1] = "drop" /\ T[p][2] = F[i].old
      BY <1>7c, <1>8 DEF ShapeComing, KeyComing, NeedsComing, DropsComing
    <2>0a. \A p \in 1..m : l + p \in 1..Len(R) /\ R[l + p] = T[p]
      BY <1>9
    <2>1. relation.key = "new" \/ \E p \in 1..Len(R) : R[p][1] = "add key"
      <3> SUFFICES ASSUME relation.key # "new" PROVE \E p \in 1..Len(R) : R[p][1] = "add key"
        OBVIOUS
      <3>1. PICK p \in 1..m : T[p][1] = "add key"
        BY <2>0
      <3> QED
        BY <2>0a, <3>1
    <2>2. \A p \in 1..Len(R) : R[p][1] = "drop key" =>
            \E q \in (p + 1)..Len(R) : R[q][1] = "add key"
      <3> SUFFICES ASSUME NEW p \in 1..Len(R), R[p][1] = "drop key"
                   PROVE  \E q \in (p + 1)..Len(R) : R[q][1] = "add key"
        OBVIOUS
      <3>1. p \notin 1..l
        BY <1>9, <1>12
      <3>2. PICK r \in 1..m : p = l + r
        BY <1>9, <3>1
      <3>2a. T[r][1] = "drop key"
        BY <1>9, <3>2
      <3>3. PICK q \in (r + 1)..m : T[q][1] = "add key"
        BY <1>7c, <1>8, <3>2a DEF ShapeComing, KeyComing, NeedsComing, DropsComing
      <3>3a. Len(R) = l + m
        BY <1>9
      <3>4. q \in 1..m /\ l + q \in (p + 1)..Len(R)
        BY <3>2, <3>3a, ShiftedPlace
      <3>5. R[l + q] = T[q]
        BY <1>9, <3>4
      <3> QED
        BY <3>3, <3>4, <3>5
    <2>3. ASSUME NEW i \in DOMAIN F
          PROVE  /\ F[i].new \in relation.required
                    \/ \E p \in 1..Len(R) : R[p][1] = "not null" /\ R[p][2] = F[i].new
                 /\ F[i].old \notin relation.columns
                    \/ \E p \in 1..Len(R) : R[p][1] = "drop" /\ R[p][2] = F[i].old
      <3>1. CASE F[i].new \in relation.required
        <4>1. CASE F[i].old \notin relation.columns
          BY <3>1, <4>1
        <4>2. CASE F[i].old \in relation.columns
          <5>1. PICK p \in 1..m : T[p][1] = "drop" /\ T[p][2] = F[i].old
            BY <2>0, <4>2
          <5> QED
            BY <2>0a, <3>1, <5>1
        <4> QED
          BY <4>1, <4>2
      <3>2. CASE F[i].new \notin relation.required
        <4>1. PICK q \in 1..m : T[q][1] = "not null" /\ T[q][2] = F[i].new
          BY <2>0, <3>2
        <4>2. \E p \in 1..Len(R) : R[p][1] = "not null" /\ R[p][2] = F[i].new
          BY <2>0a, <4>1
        <4>3. CASE F[i].old \notin relation.columns
          BY <4>2, <4>3
        <4>4. CASE F[i].old \in relation.columns
          <5>1. PICK p \in 1..m : T[p][1] = "drop" /\ T[p][2] = F[i].old
            BY <2>0, <4>4
          <5>2. \E z \in 1..Len(R) : R[z][1] = "drop" /\ R[z][2] = F[i].old
            BY <2>0a, <5>1
          <5> QED
            BY <4>2, <5>2
        <4> QED
          BY <4>3, <4>4
      <3> QED
        BY <3>1, <3>2
    <2> QED
      BY <2>1, <2>2, <2>3, Zenon DEF ShapeComing, KeyComing, NeedsComing, DropsComing
  <1>18. LegacyComing(relation, F, R)
    BY <1>9, <1>13, <1>15, <1>16, <1>17, Zenon DEF LegacyComing
  <1> QED
    BY <1>7e, <1>18

\* The rest of a list, when its first statement has run.
LEMMA RestOfList ==
  ASSUME NEW X, NEW R \in Seq(X), R # << >>
  PROVE  /\ Head(R) = R[1] /\ Len(R) \in Nat /\ 1 \in 1..Len(R)
         /\ Tail(R) \in Seq(X) /\ Len(Tail(R)) \in Nat
         /\ \A p \in 1..Len(Tail(R)) : p + 1 \in 1..Len(R) /\ Tail(R)[p] = R[p + 1]
         /\ \A p \in 1..Len(R) : p # 1 => p - 1 \in 1..Len(Tail(R)) /\ Tail(R)[p - 1] = R[p]
  OBVIOUS

\* Places in a list and in its rest.
LEMMA LaterPlace ==
  ASSUME NEW m \in Nat, NEW p \in Nat, NEW q \in ((p + 1) + 1)..m
  PROVE  q \in 1..m /\ q # 1
  OBVIOUS

\* A place after another is after it in the rest too.
LEMMA EarlierPlace ==
  ASSUME NEW m \in Nat, NEW k \in Nat, NEW p \in Nat, NEW q \in ((p + 1) + 1)..m, q - 1 \in 1..k
  PROVE  q - 1 \in (p + 1)..k
  OBVIOUS

\* x is r but for what one column holds.
HeldIs(x, r, c, v) == x = [r EXCEPT !.held[c] = v]

\* One column holds another value.
LEMMA HeldChange ==
  ASSUME NEW F, NEW r \in LegacyTable(F), NEW c \in Columns(F), NEW v \in HeldValues,
         NEW x, HeldIs(x, r, c, v)
  PROVE  /\ x \in LegacyTable(F) /\ x.name = r.name /\ x.screened = r.screened
         /\ x.columns = r.columns /\ x.required = r.required /\ x.key = r.key
         /\ x.held[c] = v /\ \A d \in Columns(F) : d # c => x.held[d] = r.held[d]
  <1>1. PICK h : h = [r.held EXCEPT ![c] = v]
    OBVIOUS
  <1>2. r.held \in [Columns(F) -> HeldValues]
    BY DEF LegacyTable
  <1> HIDE DEF HeldValues
  <1>3. /\ h \in [Columns(F) -> HeldValues] /\ h[c] = v
        /\ \A d \in Columns(F) : d # c => h[d] = r.held[d]
    BY <1>1, <1>2
  <1>4. x = [r EXCEPT !.held = h]
    BY <1>1 DEF HeldIs
  <1>5. /\ x \in LegacyTable(F) /\ x.name = r.name /\ x.screened = r.screened
        /\ x.columns = r.columns /\ x.required = r.required /\ x.key = r.key /\ x.held = h
    BY <1>3, <1>4 DEF LegacyTable
  <1> QED
    BY <1>3, <1>5

\* The table after statement s.
After(r, s, F) ==
  /\ r \in LegacyTable(F)
  /\ r.name = relation.name /\ r.screened = relation.screened
  /\ r.columns = IF s[1] = "drop" THEN relation.columns \ {s[2]} ELSE relation.columns
  /\ r.required = IF s[1] = "not null" THEN relation.required \cup {s[2]} ELSE relation.required
  /\ r.key = IF s[1] = "drop key" THEN "none" ELSE IF s[1] = "add key" THEN "new" ELSE relation.key
  /\ \A c \in Columns(F) : r.held[c] =
       IF s[1] = "add" /\ s[2] = c THEN "null"
       ELSE IF s[1] = "fill" /\ s[2] = c /\ relation.held[c] = "null" THEN s[3]
       ELSE relation.held[c]

\* The table a statement of a list leaves.
LEMMA ExecutedTable ==
  ASSUME NEW F, FieldList(F), RowsKept(relation, F),
         NEW R, LegacyComing(relation, F, R), R # << >>,
         NEW s, s = R[1], NEW r, r = Executed(s)
  PROVE  After(r, s, F)
  <1>1. relation \in LegacyTable(F)
    BY DEF RowsKept
  <1>2. ChangeOK(s, relation, F)
    <2>1. 1 \in 1..Len(R)
      BY RestOfList DEF LegacyComing
    <2> QED
      BY <2>1 DEF LegacyComing
  <1>3. \A i \in DOMAIN F : F[i].new \in Columns(F)
    BY DEF Columns
  <1>4. CASE s[1] = "add"
    <2>1. r = [relation EXCEPT !.held[s[2]] = "null"]
      BY <1>4 DEF Executed
    <2>2. PICK c \in Columns(F) : s[2] = c
      BY <1>2, <1>3, <1>4 DEF ChangeOK
    <2>3. PICK v \in HeldValues : v = "null"
      BY DEF HeldValues
    <2>4a. PICK o \in LegacyTable(F) : o = relation
      BY <1>1
    <2>4. HeldIs(r, o, c, v)
      BY <2>1, <2>2, <2>3, <2>4a DEF HeldIs
    <2>5. /\ r \in LegacyTable(F) /\ r.name = relation.name /\ r.screened = relation.screened
          /\ r.columns = relation.columns /\ r.required = relation.required
          /\ r.key = relation.key
          /\ r.held[c] = v /\ \A d \in Columns(F) : d # c => r.held[d] = relation.held[d]
      <3>1. /\ r \in LegacyTable(F) /\ r.name = o.name /\ r.screened = o.screened
            /\ r.columns = o.columns /\ r.required = o.required /\ r.key = o.key
            /\ r.held[c] = v /\ \A d \in Columns(F) : d # c => r.held[d] = o.held[d]
        BY <2>4, HeldChange
      <3> QED
        BY <2>4a, <3>1
    <2> QED
      BY <1>4, <2>2, <2>3, <2>5 DEF After
  <1>5. CASE s[1] = "fill"
    <2>1. r = IF relation.held[s[2]] = "null" THEN [relation EXCEPT !.held[s[2]] = s[3]]
              ELSE relation
      BY <1>5 DEF Executed, Filled
    <2>2. PICK c \in Columns(F) : s[2] = c
      BY <1>2, <1>3, <1>5 DEF ChangeOK
    <2>3. PICK v \in HeldValues : v = s[3]
      BY <1>2, <1>5 DEF ChangeOK, HeldValues
    <2>4. CASE relation.held[c] = "null"
      <3>1a. PICK o \in LegacyTable(F) : o = relation
        BY <1>1
      <3>1. HeldIs(r, o, c, v)
        BY <2>1, <2>2, <2>3, <2>4, <3>1a DEF HeldIs
      <3>2. /\ r \in LegacyTable(F) /\ r.name = relation.name /\ r.screened = relation.screened
            /\ r.columns = relation.columns /\ r.required = relation.required
            /\ r.key = relation.key
            /\ r.held[c] = v /\ \A d \in Columns(F) : d # c => r.held[d] = relation.held[d]
        <4>1. /\ r \in LegacyTable(F) /\ r.name = o.name /\ r.screened = o.screened
              /\ r.columns = o.columns /\ r.required = o.required /\ r.key = o.key
              /\ r.held[c] = v /\ \A d \in Columns(F) : d # c => r.held[d] = o.held[d]
          BY <3>1, HeldChange
        <4> QED
          BY <3>1a, <4>1
      <3> QED
        BY <1>5, <2>2, <2>3, <2>4, <3>2 DEF After
    <2>5. CASE relation.held[c] # "null"
      <3>1. r = relation
        BY <2>1, <2>2, <2>5
      <3> QED
        BY <1>1, <1>5, <2>2, <2>5, <3>1 DEF After
    <2> QED
      BY <2>4, <2>5
  <1>6. CASE s[1] = "not null"
    <2>1. r = [relation EXCEPT !.required = @ \cup {s[2]}] /\ s[2] \in Names(F)
      BY <1>2, <1>6 DEF Executed, ChangeOK, Names
    <2>2. /\ r \in LegacyTable(F) /\ r.name = relation.name /\ r.screened = relation.screened
          /\ r.columns = relation.columns /\ r.required = relation.required \cup {s[2]}
          /\ r.key = relation.key /\ r.held = relation.held
      BY <1>1, <2>1 DEF LegacyTable
    <2> QED
      BY <1>6, <2>2 DEF After
  <1>7. CASE s[1] = "drop key"
    <2>1. r = [relation EXCEPT !.key = "none"]
      BY <1>7 DEF Executed
    <2>2. /\ r \in LegacyTable(F) /\ r.name = relation.name /\ r.screened = relation.screened
          /\ r.columns = relation.columns /\ r.required = relation.required
          /\ r.key = "none" /\ r.held = relation.held
      BY <1>1, <2>1 DEF LegacyTable
    <2> QED
      BY <1>7, <2>2 DEF After
  <1>8. CASE s[1] = "add key"
    <2>1. r = [relation EXCEPT !.key = "new"]
      BY <1>8 DEF Executed
    <2>2. /\ r \in LegacyTable(F) /\ r.name = relation.name /\ r.screened = relation.screened
          /\ r.columns = relation.columns /\ r.required = relation.required
          /\ r.key = "new" /\ r.held = relation.held
      BY <1>1, <2>1 DEF LegacyTable
    <2> QED
      BY <1>8, <2>2 DEF After
  <1>9. CASE s[1] = "drop"
    <2>1. r = [relation EXCEPT !.columns = @ \ {s[2]}]
      BY <1>9 DEF Executed
    <2>2. /\ r \in LegacyTable(F) /\ r.name = relation.name /\ r.screened = relation.screened
          /\ r.columns = relation.columns \ {s[2]} /\ r.required = relation.required
          /\ r.key = relation.key /\ r.held = relation.held
      BY <1>1, <2>1 DEF LegacyTable
    <2> QED
      BY <1>9, <2>2 DEF After
  <1>10. CASE s[1] = "end"
    <2>1. r = relation
      BY <1>10 DEF Executed
    <2> QED
      BY <1>1, <1>10, <2>1 DEF After
  <1> QED
    BY <1>2, <1>4, <1>5, <1>6, <1>7, <1>8, <1>9, <1>10 DEF ChangeOK

\* A statement leaves a sound table.
LEMMA ExecutedRows ==
  ASSUME NEW F, FieldList(F), RowsKept(relation, F),
         NEW R, LegacyComing(relation, F, R), R # << >>,
         NEW s, s = R[1], NEW r, r = Executed(s)
  PROVE  RowsKept(r, F)
  <1>0. After(r, s, F)
    BY ExecutedTable
  <1>1. /\ r \in LegacyTable(F)
        /\ r.columns = IF s[1] = "drop" THEN relation.columns \ {s[2]} ELSE relation.columns
        /\ \A c \in Columns(F) : r.held[c] =
             IF s[1] = "add" /\ s[2] = c THEN "null"
             ELSE IF s[1] = "fill" /\ s[2] = c /\ relation.held[c] = "null" THEN s[3]
             ELSE relation.held[c]
    BY <1>0 DEF After
  <1>2. 1 \in 1..Len(R)
    BY RestOfList DEF LegacyComing
  <1>3. ChangeOK(s, relation, F)
    BY <1>2 DEF LegacyComing
  <1>4. r.columns \subseteq relation.columns /\ NoSource \notin r.columns
    BY <1>1 DEF RowsKept
  <1>5. \A i, j \in DOMAIN F : F[i].new = F[j].new => i = j
    BY DEF FieldList
  <1>6. ASSUME NEW i \in DOMAIN F, F[i].old \in r.columns PROVE r.held[F[i].new] # "default"
    <2>1. F[i].new \in Columns(F) /\ F[i].old \in relation.columns
      BY <1>4, <1>6 DEF Columns
    <2>2. relation.held[F[i].new] # "default"
      BY <2>1 DEF RowsKept
    <2>3. s[1] = "fill" /\ s[2] = F[i].new => s[3] = "legacy"
      BY <1>3, <1>5, <2>1 DEF ChangeOK
    <2> QED
      BY <1>1, <2>1, <2>2, <2>3
  <1>7. ASSUME NEW i \in DOMAIN F, F[i].old # NoSource, F[i].old \notin r.columns
        PROVE  r.held[F[i].new] = "legacy"
    <2>1. F[i].new \in Columns(F)
      BY DEF Columns
    <2>2. CASE F[i].old \notin relation.columns
      <3>1. relation.held[F[i].new] = "legacy"
        BY <1>7, <2>2 DEF RowsKept
      <3>2. ~(s[1] = "add" /\ s[2] = F[i].new)
        BY <1>3, <3>1 DEF ChangeOK
      <3> QED
        BY <1>1, <2>1, <3>1, <3>2
    <2>3. CASE F[i].old \in relation.columns
      <3>1. s[1] = "drop" /\ s[2] = F[i].old
        BY <1>1, <1>7, <2>3
      <3>2. WillHold(relation, F[i].new, R, 1)
        BY <1>2, <3>1 DEF LegacyComing
      <3>3. relation.held[F[i].new] = "legacy"
        BY <3>2 DEF WillHold
      <3> QED
        BY <1>1, <2>1, <3>1, <3>3
    <2> QED
      BY <2>2, <2>3
  <1> QED
    BY <1>1, <1>4, <1>6, <1>7, Zenon DEF RowsKept

\* A column that was to have its old value still is.
LEMMA StillHolds ==
  ASSUME NEW F, FieldList(F), RowsKept(relation, F),
         NEW R, LegacyComing(relation, F, R), R # << >>,
         NEW s, s = R[1], NEW r, r = Executed(s),
         NEW p \in 1..Len(Tail(R)), R[p + 1][1] = "drop",
         NEW i \in DOMAIN F, F[i].old = R[p + 1][2]
  PROVE  WillHold(r, F[i].new, Tail(R), p)
  <1>1. PICK c \in Columns(F) : c = F[i].new
    BY DEF Columns
  <1>0. After(r, s, F)
    BY ExecutedTable
  <1>2. r.held[c] =
          IF s[1] = "add" /\ s[2] = c THEN "null"
          ELSE IF s[1] = "fill" /\ s[2] = c /\ relation.held[c] = "null" THEN s[3]
          ELSE relation.held[c]
    BY <1>0 DEF After
  <1>3. PICK t : t = Tail(R)
    OBVIOUS
  <1>4. /\ Len(R) \in Nat /\ 1 \in 1..Len(R) /\ Len(t) \in Nat
        /\ \A q \in 1..Len(t) : q + 1 \in 1..Len(R) /\ t[q] = R[q + 1]
        /\ \A q \in 1..Len(R) : q # 1 => q - 1 \in 1..Len(t) /\ t[q - 1] = R[q]
    BY <1>3, RestOfList DEF LegacyComing
  <1>5. p + 1 \in 1..Len(R) /\ p \in 1..Len(t)
    BY <1>3, <1>4
  <1>6. ChangeOK(s, relation, F) /\ ChangeOK(R[p + 1], relation, F)
    BY <1>4, <1>5 DEF LegacyComing
  <1>7. WillHold(relation, c, R, p + 1)
    BY <1>1, <1>5 DEF LegacyComing
  <1>8. \/ relation.held[c] = "legacy"
        \/ \E q \in 1..p :
             /\ R[q][1] = "fill" /\ R[q][2] = c
             /\ relation.held[c] = "null" \/ \E o \in 1..(q - 1) : R[o][1] = "add" /\ R[o][2] = c
    BY <1>7 DEF WillHold
  \* What is after the first statement is kept.
  <1>9. ASSUME NEW q \in 1..p, q # 1, R[q][1] = "fill", R[q][2] = c,
               r.held[c] = "null" \/ \E o \in 1..(q - 1) : o # 1 /\ R[o][1] = "add" /\ R[o][2] = c
        PROVE  WillHold(r, c, t, p)
    <2>1. q - 1 \in 1..(p - 1) /\ t[q - 1] = R[q]
      BY <1>4, <1>5, <1>9
    <2>2. CASE r.held[c] = "null"
      BY <1>9, <2>1, <2>2 DEF WillHold
    <2>3. CASE \E o \in 1..(q - 1) : o # 1 /\ R[o][1] = "add" /\ R[o][2] = c
      <3>1. PICK o \in 1..(q - 1) : o # 1 /\ R[o][1] = "add" /\ R[o][2] = c
        BY <2>3
      <3>2. o - 1 \in 1..((q - 1) - 1) /\ t[o - 1] = R[o]
        BY <1>4, <1>5, <3>1
      <3> QED
        BY <1>9, <2>1, <3>1, <3>2 DEF WillHold
    <2> QED
      BY <1>9, <2>2, <2>3
  <1>10. r.held[c] = "legacy" => WillHold(r, c, t, p)
    BY DEF WillHold
  <1>11. CASE s[1] = "add" /\ s[2] = c
    <2>1. relation.held[c] = "absent" /\ r.held[c] = "null"
      BY <1>2, <1>6, <1>11 DEF ChangeOK
    <2>2. PICK q \in 1..p : R[q][1] = "fill" /\ R[q][2] = c
      BY <1>8, <2>1
    <2>3. q # 1
      BY <1>11, <2>2
    <2> QED
      BY <1>1, <1>3, <1>9, <2>1, <2>2, <2>3
  <1>12. CASE s[1] = "fill" /\ s[2] = c /\ relation.held[c] = "null"
    <2>1. F[i].old \in relation.columns
      <3>1. F[i].old # NoSource
        BY <1>6 DEF ChangeOK
      <3> QED
        BY <1>1, <1>12, <3>1 DEF RowsKept
    <2>2. s[3] = "legacy"
      <3>1. PICK j \in DOMAIN F : s[2] = F[j].new /\ (F[j].old \in relation.columns => s[3] = "legacy")
        BY <1>6, <1>12 DEF ChangeOK
      <3>2. j = i
        BY <1>1, <1>12, <3>1 DEF FieldList
      <3> QED
        BY <2>1, <3>1, <3>2
    <2>3. r.held[c] = "legacy"
      BY <1>2, <1>12, <2>2
    <2> QED
      BY <1>1, <1>3, <1>10, <2>3
  <1>13. CASE /\ ~(s[1] = "add" /\ s[2] = c)
              /\ ~(s[1] = "fill" /\ s[2] = c /\ relation.held[c] = "null")
    <2>1. r.held[c] = relation.held[c]
      BY <1>2, <1>13
    <2>2. CASE relation.held[c] = "legacy"
      BY <1>1, <1>3, <1>10, <2>1, <2>2
    <2>3. CASE relation.held[c] # "legacy"
      <3>1. PICK q \in 1..p :
              /\ R[q][1] = "fill" /\ R[q][2] = c
              /\ relation.held[c] = "null" \/ \E o \in 1..(q - 1) : R[o][1] = "add" /\ R[o][2] = c
        BY <1>8, <2>3
      <3>2. CASE relation.held[c] = "null"
        <4>1. q # 1
          BY <1>13, <3>1, <3>2
        <4> QED
          BY <1>1, <1>3, <1>9, <2>1, <3>1, <3>2, <4>1
      <3>3. CASE relation.held[c] # "null"
        <4>1. PICK o \in 1..(q - 1) : R[o][1] = "add" /\ R[o][2] = c
          BY <3>1, <3>3
        <4>2. o # 1 /\ q # 1
          BY <1>13, <4>1
        <4> QED
          BY <1>1, <1>3, <1>9, <3>1, <4>1, <4>2
      <3> QED
        BY <3>2, <3>3
    <2> QED
      BY <2>2, <2>3
  <1> QED
    BY <1>11, <1>12, <1>13

\* A place is a number.
LEMMA PlaceIsNat ==
  ASSUME NEW k \in Nat, NEW p \in 1..k
  PROVE  p \in Nat
  OBVIOUS

\* The rest of the list promises what is left.
LEMMA ExecutedComing ==
  ASSUME NEW F, FieldList(F), RowsKept(relation, F),
         NEW R, LegacyComing(relation, F, R), R # << >>,
         NEW s, s = R[1], NEW r, r = Executed(s)
  PROVE  LegacyComing(r, F, Tail(R))
  <1>1. PICK t : t = Tail(R)
    OBVIOUS
  <1>2. /\ Len(R) \in Nat /\ 1 \in 1..Len(R) /\ Len(t) \in Nat /\ t \in Seq(Change(F))
        /\ \A q \in 1..Len(t) : q + 1 \in 1..Len(R) /\ t[q] = R[q + 1]
        /\ \A q \in 1..Len(R) : q # 1 => q - 1 \in 1..Len(t) /\ t[q - 1] = R[q]
    BY <1>1, RestOfList DEF LegacyComing
  <1>0. After(r, s, F)
    BY ExecutedTable
  <1>3. /\ r.columns = IF s[1] = "drop" THEN relation.columns \ {s[2]} ELSE relation.columns
        /\ r.required = IF s[1] = "not null" THEN relation.required \cup {s[2]}
                        ELSE relation.required
        /\ r.key = IF s[1] = "drop key" THEN "none"
                   ELSE IF s[1] = "add key" THEN "new" ELSE relation.key
        /\ \A c \in Columns(F) : r.held[c] =
             IF s[1] = "add" /\ s[2] = c THEN "null"
             ELSE IF s[1] = "fill" /\ s[2] = c /\ relation.held[c] = "null" THEN s[3]
             ELSE relation.held[c]
    BY <1>0 DEF After
  <1>4. \A p, q \in 1..Len(R) :
          R[p][1] = "add" /\ R[q][1] = "add" /\ R[p][2] = R[q][2] => p = q
    BY DEF LegacyComing
  <1>5. \A p \in 1..Len(t) : ChangeOK(t[p], r, F)
    <2> SUFFICES ASSUME NEW p \in 1..Len(t) PROVE ChangeOK(t[p], r, F)
      OBVIOUS
    <2>1. p + 1 \in 1..Len(R) /\ t[p] = R[p + 1] /\ p + 1 # 1
      BY <1>2
    <2>2. PICK z : z = t[p]
      OBVIOUS
    <2>3. ChangeOK(z, relation, F)
      BY <2>1, <2>2 DEF LegacyComing
    <2>4. z[1] = "add" => r.held[z[2]] = "absent"
      <3> SUFFICES ASSUME z[1] = "add" PROVE r.held[z[2]] = "absent"
        OBVIOUS
      <3>1. z[2] \in Columns(F) /\ relation.held[z[2]] = "absent"
        BY <2>3 DEF ChangeOK, Columns
      <3>2. ~(s[1] = "add" /\ s[2] = z[2])
        BY <1>2, <1>4, <2>1, <2>2
      <3> QED
        BY <1>3, <3>1, <3>2
    <2>5. r.columns \subseteq relation.columns
      BY <1>3
    <2>6. z[1] = "fill" => /\ z[3] \in {"legacy", "default"}
                           /\ \E i \in DOMAIN F : /\ z[2] = F[i].new
                                                  /\ F[i].old \in r.columns => z[3] = "legacy"
      BY <2>3, <2>5 DEF ChangeOK
    <2>7. ChangeOK(z, r, F)
      BY <2>3, <2>4, <2>6 DEF ChangeOK
    <2> QED
      BY <2>2, <2>7
  <1>6. \A p, q \in 1..Len(t) :
          t[p][1] = "add" /\ t[q][1] = "add" /\ t[p][2] = t[q][2] => p = q
    <2> SUFFICES ASSUME NEW p \in 1..Len(t), NEW q \in 1..Len(t),
                        t[p][1] = "add", t[q][1] = "add", t[p][2] = t[q][2]
                 PROVE  p = q
      OBVIOUS
    <2>1. /\ p + 1 \in 1..Len(R) /\ t[p] = R[p + 1]
          /\ q + 1 \in 1..Len(R) /\ t[q] = R[q + 1]
      BY <1>2
    <2>2. p + 1 = q + 1
      BY <1>4, <2>1, Zenon
    <2>3. p \in Nat /\ q \in Nat
      BY <1>2, PlaceIsNat
    <2> QED
      BY <2>2, <2>3
  <1>7. \A p \in 1..Len(t) : t[p][1] = "drop" =>
          \A i \in DOMAIN F : F[i].old = t[p][2] => WillHold(r, F[i].new, t, p)
    <2> SUFFICES ASSUME NEW p \in 1..Len(t), t[p][1] = "drop",
                        NEW i \in DOMAIN F, F[i].old = t[p][2]
                 PROVE  WillHold(r, F[i].new, t, p)
      OBVIOUS
    <2>1. R[p + 1][1] = "drop" /\ F[i].old = R[p + 1][2]
      BY <1>2
    <2> QED
      BY <1>1, <2>1, StillHolds
  <1>8. ShapeComing(relation, F, R)
    BY DEF LegacyComing
  <1>9. r.key = "new" \/ \E p \in 1..Len(t) : t[p][1] = "add key"
    <2>1. CASE s[1] = "add key"
      BY <1>3, <2>1
    <2>2. CASE s[1] = "drop key"
      <3>1. PICK q \in (1 + 1)..Len(R) : R[q][1] = "add key"
        BY <1>2, <1>8, <2>2 DEF ShapeComing, KeyComing, NeedsComing, DropsComing
      <3>2. q \in 1..Len(R) /\ q # 1
        BY <1>2
      <3>3. q - 1 \in 1..Len(t) /\ t[q - 1] = R[q]
        BY <1>2, <3>2
      <3> QED
        BY <3>1, <3>3
    <2>3. CASE s[1] # "add key" /\ s[1] # "drop key"
      <3>1. CASE relation.key = "new"
        BY <1>3, <2>3, <3>1
      <3>2. CASE relation.key # "new"
        <4>1. PICK q \in 1..Len(R) : R[q][1] = "add key"
          BY <1>8, <3>2 DEF ShapeComing, KeyComing, NeedsComing, DropsComing
        <4>2. q # 1
          BY <2>3, <4>1
        <4>3. q - 1 \in 1..Len(t) /\ t[q - 1] = R[q]
          BY <1>2, <4>2
        <4> QED
          BY <4>1, <4>3
      <3> QED
        BY <3>1, <3>2
    <2> QED
      BY <2>1, <2>2, <2>3
  <1>10. \A p \in 1..Len(t) : t[p][1] = "drop key" =>
           \E q \in (p + 1)..Len(t) : t[q][1] = "add key"
    <2> SUFFICES ASSUME NEW p \in 1..Len(t), t[p][1] = "drop key"
                 PROVE  \E q \in (p + 1)..Len(t) : t[q][1] = "add key"
      OBVIOUS
    <2>1. p + 1 \in 1..Len(R) /\ R[p + 1][1] = "drop key"
      BY <1>2
    <2>2. PICK q \in ((p + 1) + 1)..Len(R) : R[q][1] = "add key"
      BY <1>8, <2>1 DEF ShapeComing, KeyComing, NeedsComing, DropsComing
    <2>3a. PICK m \in Nat, k \in Nat : m = Len(R) /\ k = Len(t)
      BY <1>2
    <2>3c. p \in 1..k
      BY <2>3a
    <2>3d. p \in Nat
      BY <2>3a, <2>3c, PlaceIsNat
    <2>3b. p \in Nat /\ q \in ((p + 1) + 1)..m
      BY <2>3a, <2>3d
    <2>3. q \in 1..Len(R) /\ q # 1
      BY <2>3a, <2>3b, LaterPlace
    <2>4. q - 1 \in 1..Len(t) /\ t[q - 1] = R[q]
      BY <1>2, <2>3
    <2>5. q - 1 \in (p + 1)..Len(t)
      <3>1. q - 1 \in 1..k
        BY <2>3a, <2>4
      <3>2. q - 1 \in (p + 1)..k
        BY <2>3b, <3>1, EarlierPlace
      <3> QED
        BY <2>3a, <3>2
    <2> QED
      BY <2>2, <2>4, <2>5
  <1>11. ASSUME NEW i \in DOMAIN F
         PROVE  /\ F[i].new \in r.required
                   \/ \E p \in 1..Len(t) : t[p][1] = "not null" /\ t[p][2] = F[i].new
                /\ F[i].old \notin r.columns
                   \/ \E p \in 1..Len(t) : t[p][1] = "drop" /\ t[p][2] = F[i].old
    <2>1. \/ F[i].new \in relation.required
          \/ \E p \in 1..Len(R) : R[p][1] = "not null" /\ R[p][2] = F[i].new
      BY <1>8 DEF ShapeComing, KeyComing, NeedsComing, DropsComing
    <2>2. \/ F[i].old \notin relation.columns
          \/ \E p \in 1..Len(R) : R[p][1] = "drop" /\ R[p][2] = F[i].old
      BY <1>8 DEF ShapeComing, KeyComing, NeedsComing, DropsComing
    <2>3. \/ F[i].new \in r.required
          \/ \E p \in 1..Len(t) : t[p][1] = "not null" /\ t[p][2] = F[i].new
      <3>1. CASE F[i].new \in relation.required
        BY <1>3, <3>1
      <3>2. CASE \E p \in 1..Len(R) : R[p][1] = "not null" /\ R[p][2] = F[i].new
        <4>1. PICK p \in 1..Len(R) : R[p][1] = "not null" /\ R[p][2] = F[i].new
          BY <3>2
        <4>2. CASE p = 1
          BY <1>3, <4>1, <4>2
        <4>3. CASE p # 1
          <5>1. p - 1 \in 1..Len(t) /\ t[p - 1] = R[p]
            BY <1>2, <4>3
          <5> QED
            BY <4>1, <5>1
        <4> QED
          BY <4>2, <4>3
      <3> QED
        BY <2>1, <3>1, <3>2
    <2>4. \/ F[i].old \notin r.columns
          \/ \E p \in 1..Len(t) : t[p][1] = "drop" /\ t[p][2] = F[i].old
      <3>1. CASE F[i].old \notin relation.columns
        BY <1>3, <3>1
      <3>2. CASE \E p \in 1..Len(R) : R[p][1] = "drop" /\ R[p][2] = F[i].old
        <4>1. PICK p \in 1..Len(R) : R[p][1] = "drop" /\ R[p][2] = F[i].old
          BY <3>2
        <4>2. CASE p = 1
          BY <1>3, <4>1, <4>2
        <4>3. CASE p # 1
          <5>1. p - 1 \in 1..Len(t) /\ t[p - 1] = R[p]
            BY <1>2, <4>3
          <5> QED
            BY <4>1, <5>1
        <4> QED
          BY <4>2, <4>3
      <3> QED
        BY <2>2, <3>1, <3>2
    <2> QED
      BY <2>3, <2>4
  <1>12. ShapeComing(r, F, t)
    BY <1>9, <1>10, <1>11, Zenon DEF ShapeComing, KeyComing, NeedsComing, DropsComing
  <1>13. LegacyComing(r, F, t)
    BY <1>2, <1>5, <1>6, <1>7, <1>12, Zenon DEF LegacyComing
  <1> QED
    BY <1>1, <1>13

\* An empty list promises nothing.
LEMMA NothingComing ==
  ASSUME NEW F, NEW r
  PROVE  LegacyComing(r, F, << >>)
  <1>1. << >> \in Seq(Change(F)) /\ Len(<< >>) = 0 /\ 1..0 = {}
    OBVIOUS
  <1> QED
    BY <1>1 DEF LegacyComing

\* A table of an older gsbench is sound.
LEMMA LegacyRelationRows ==
  ASSUME NEW name \in LegacyTables, name # "meta_batches", NEW flag \in BOOLEAN,
         NEW r, \/ r = LegacyRelation(name) /\ flag = FALSE
                \/ r = [LegacyRelation(name) EXCEPT !.screened = TRUE] /\ flag = TRUE
  PROVE  RowsKept(r, FieldsOf(name)) /\ r.name = name /\ r.screened = flag
  <1>1. PICK F : F = FieldsOf(name) /\ FieldList(F)
    BY FieldsAreLists
  <1>2. PICK old, new : old = {f.old : f \in ToSet(F)} \ {NoSource} /\ new = {f.new : f \in ToSet(F)}
    OBVIOUS
  <1>3. PICK held : held = [c \in new |-> "absent"]
    OBVIOUS
  <1>4. r = [name |-> name, screened |-> flag, columns |-> old, held |-> held,
             required |-> {}, key |-> "old"]
    BY <1>1, <1>2, <1>3 DEF LegacyRelation
  <1>5. /\ \A i \in DOMAIN F : F[i].old \in Names(F)
        /\ new = {F[i].new : i \in DOMAIN F}
        /\ old = {F[i].old : i \in DOMAIN F} \ {NoSource}
    <2>1. ToSet(F) = {F[i] : i \in DOMAIN F}
      BY DEF ToSet
    <2>2. new = {F[i].new : i \in DOMAIN F}
      BY <1>2, <2>1
    <2>3. {f.old : f \in ToSet(F)} = {F[i].old : i \in DOMAIN F}
      BY <2>1
    <2>4. \A i \in DOMAIN F : F[i].old \in Names(F)
      BY DEF Names
    <2> QED
      BY <1>2, <2>2, <2>3, <2>4
  <1>6. new = Columns(F)
    BY <1>5 DEF Columns
  <1>7. held \in [Columns(F) -> HeldValues] /\ \A c \in Columns(F) : held[c] = "absent"
    BY <1>3, <1>6 DEF HeldValues
  <1>8. old \in SUBSET Names(F) /\ NoSource \notin old
    BY <1>5
  <1>9. \A i \in DOMAIN F : F[i].old # NoSource => F[i].old \in old
    BY <1>5
  <1>10. \A i \in DOMAIN F : held[F[i].new] = "absent"
    BY <1>7 DEF Columns
  <1>11. r \in LegacyTable(F)
    <2>1. {} \in SUBSET Names(F) /\ "old" \in {"old", "none", "new"}
      OBVIOUS
    <2> QED
      BY <1>4, <1>7, <1>8, <2>1, ZenonT(60) DEF LegacyTable
  <1>12. r.columns = old /\ r.held = held
    BY <1>4
  <1>13. RowsKept(r, F)
    BY <1>8, <1>9, <1>10, <1>11, <1>12 DEF RowsKept
  <1> QED
    BY <1>1, <1>4, <1>13

\* The columns of the batches.
LEMMA BatchFields ==
  ASSUME NEW F, F = FieldsOf("meta_batches")
  PROVE  {f.new : f \in ToSet(F)} = Batches /\ {f.old : f \in ToSet(F)} = {NoSource}
  <1>1. PICK f, g : /\ f = [new |-> "target_rows", old |-> NoSource]
                    /\ g = [new |-> "estimated_row_bytes", old |-> NoSource]
    OBVIOUS
  <1>2. F = << f, g >>
    BY <1>1, Zenon DEF FieldsOf
  <1>3. ToSet(F) = {f, g}
    <2>1. DOMAIN << f, g >> = 1..2 /\ << f, g >>[1] = f /\ << f, g >>[2] = g /\ 1..2 = {1, 2}
      OBVIOUS
    <2> QED
      BY <1>2, <2>1, Zenon DEF ToSet
  <1>4. f.new = "target_rows" /\ g.new = "estimated_row_bytes" /\ f.old = NoSource /\ g.old = NoSource
    BY <1>1
  <1>5. \A x : x \in {y.new : y \in {f, g}} <=> x \in Batches
    BY <1>4 DEF Batches
  <1>6. \A x : x \in {y.old : y \in {f, g}} <=> x \in {NoSource}
    BY <1>4
  <1> QED
    BY <1>3, <1>5, <1>6

\* A record of the parts of a table is a table.
LEMMA PartsMakeTable ==
  ASSUME NEW N, NEW C, NEW H, NEW Q, NEW K,
         NEW n \in N, NEW b \in BOOLEAN, NEW c \in C, NEW h \in H, NEW q \in Q, NEW k \in K
  PROVE  [name |-> n, screened |-> b, columns |-> c, held |-> h, required |-> q, key |-> k]
           \in [name : N, screened : BOOLEAN, columns : C, held : H, required : Q, key : K]
  OBVIOUS

\* A statement that requires a column says so.
LEMMA NeedIs ==
  ASSUME NEW s, NEW c, s = <<"not null", c>>
  PROVE  s[1] = "not null" /\ s[2] = c
  OBVIOUS

\* The batches of an older gsbench have neither column.
LEMMA BatchesRelation ==
  ASSUME NEW r, r = [LegacyRelation("meta_batches") EXCEPT !.screened = TRUE]
  PROVE  /\ r \in BatchTable /\ r.name = "meta_batches" /\ r.screened = TRUE
         /\ \A c \in Batches : r.held[c] = "absent"
  <1>1. PICK F : F = FieldsOf("meta_batches")
    OBVIOUS
  <1>2. PICK held : held = [c \in Batches |-> "absent"]
    OBVIOUS
  <1>3. {f.new : f \in ToSet(F)} = Batches /\ {f.old : f \in ToSet(F)} \ {NoSource} = {}
    <2>1. {f.new : f \in ToSet(F)} = Batches /\ {f.old : f \in ToSet(F)} = {NoSource}
      BY <1>1, BatchFields
    <2> QED
      BY <2>1
  <1>4. LegacyRelation("meta_batches") =
          [name |-> "meta_batches", screened |-> FALSE, columns |-> {}, held |-> held,
           required |-> {}, key |-> "new"]
    BY <1>1, <1>2, <1>3, Zenon DEF LegacyRelation
  <1>5. held \in [Batches -> HeldValues] /\ \A c \in Batches : held[c] = "absent"
    BY <1>2 DEF HeldValues
  <1>6. r = [name |-> "meta_batches", screened |-> TRUE, columns |-> {}, held |-> held,
             required |-> {}, key |-> "new"]
    <2>1. PICK l : l = LegacyRelation("meta_batches")
      OBVIOUS
    <2>2. r = [l EXCEPT !.screened = TRUE]
      BY <2>1, Zenon
    <2>3. l = [name |-> "meta_batches", screened |-> FALSE, columns |-> {}, held |-> held,
               required |-> {}, key |-> "new"]
      BY <1>4, <2>1, Zenon
    <2> QED
      BY <2>2, <2>3
  <1>7. r.name = "meta_batches" /\ r.screened = TRUE /\ r.held = held
    BY <1>6
  <1>8. r \in BatchTable
    <2>1. /\ {} \in {{}} /\ {} \in SUBSET Batches /\ "new" \in {"new"} /\ TRUE \in BOOLEAN
          /\ "meta_batches" \in {"meta_batches"}
      OBVIOUS
    <2> QED
      <3>1. PICK N, C, H, Q, K : /\ N = {"meta_batches"} /\ C = {{}} /\ H = [Batches -> HeldValues]
                                 /\ Q = SUBSET Batches /\ K = {"new"}
        OBVIOUS
      <3>2. PICK n \in N, c \in C, q \in Q, k \in K :
              n = "meta_batches" /\ c = {} /\ q = {} /\ k = "new"
        BY <2>1, <3>1, Zenon
      <3>3. held \in H /\ TRUE \in BOOLEAN
        BY <1>5, <3>1, Zenon
      <3>4. [name |-> n, screened |-> TRUE, columns |-> c, held |-> held, required |-> q, key |-> k]
              \in [name : N, screened : BOOLEAN, columns : C, held : H, required : Q, key : K]
        BY <3>3, PartsMakeTable
      <3>5. BatchTable = [name : N, screened : BOOLEAN, columns : C, held : H, required : Q, key : K]
        BY <3>1, Zenon DEF BatchTable
      <3> QED
        BY <1>6, <3>2, <3>4, <3>5, Zenon
  <1> QED
    BY <1>5, <1>7, <1>8

\* The statements for one column: none if it is there.
LEMMA OneCompleted ==
  ASSUME NEW c \in Batches, NEW s, s = Completing(c)
  PROVE  /\ s \in Seq(BatchChange)
         /\ ~Has(c) => Awaited(c, s)
  <1>1. PICK a, f, n : a = <<"add", c>> /\ f = <<"fill", c, "default">> /\ n = <<"not null", c>>
    OBVIOUS
  <1>2. a \in BatchChange /\ f \in BatchChange /\ n \in BatchChange
    BY <1>1, Zenon DEF BatchChange
  <1>3. s = IF ~Has(c) THEN << a, f, n >> ELSE << >>
    BY <1>1, Zenon DEF Completing, When
  <1>4. CASE Has(c)
    BY <1>3, <1>4
  <1>5. CASE ~Has(c)
    <2>1. s = << a, f, n >>
      BY <1>3, <1>5
    <2>2. s \in Seq(BatchChange) /\ Len(s) = 3 /\ s[3] = n
      BY <1>2, <2>1
    <2>3. 3 \in 1..Len(s)
      BY <2>2
    <2> QED
      BY <1>1, <2>2, <2>3, Zenon DEF Awaited
  <1> QED
    BY <1>4, <1>5

\* The list of an init of the batches requires every column that is missing.
LEMMA BatchesList ==
  ASSUME relation.name = "meta_batches", NEW R, R = LegacyStatements \o << <<"end">> >>
  PROVE  /\ R \in Seq(BatchChange)
         /\ \A c \in Batches : ~Has(c) => Awaited(c, R)
  <1>1. PICK s : s = Completing("target_rows")
    OBVIOUS
  <1>2. PICK t : t = Completing("estimated_row_bytes")
    OBVIOUS
  <1>3. "target_rows" \in Batches /\ "estimated_row_bytes" \in Batches
        /\ \A c \in Batches : c = "target_rows" \/ c = "estimated_row_bytes"
    BY DEF Batches
  <1>4. s \in Seq(BatchChange) /\ (~Has("target_rows") => Awaited("target_rows", s))
    BY <1>1, <1>3, OneCompleted
  <1>5. t \in Seq(BatchChange) /\ (~Has("estimated_row_bytes") => Awaited("estimated_row_bytes", t))
    BY <1>2, <1>3, OneCompleted
  <1>6. PICK e \in Seq(BatchChange) : e = TheEnd
    <2>1. <<"end">> \in BatchChange
      BY DEF BatchChange
    <2> QED
      BY <2>1, OneLong DEF TheEnd
  <1>7. PICK u \in Seq(BatchChange) : Appended(u, s, t)
    BY <1>4, <1>5, AppendsAreLists
  <1>8. PICK v \in Seq(BatchChange) : Appended(v, u, e)
    BY AppendsAreLists
  <1>9. R = v
    <2>1. LegacyStatements = s \o t
      BY <1>1, <1>2, Zenon DEF LegacyStatements, CompletingBatches
    <2> QED
      BY <1>6, <1>7, <1>8, <2>1, Zenon DEF Appended, TheEnd
  <1>10. Placed(u, s, t) /\ Placed(v, u, e)
    <2>1. Placed(u, s, t)
      BY <1>4, <1>5, <1>7, AppendedArePlaced
    <2>2. Placed(v, u, e)
      BY <1>6, <1>7, <1>8, AppendedArePlaced
    <2> QED
      BY <2>1, <2>2
  <1>11. \A c : Awaited(c, s) \/ Awaited(c, t) => Awaited(c, u)
    BY <1>10, Zenon DEF Placed, Awaited
  <1>12. \A c : Awaited(c, u) => Awaited(c, v)
    BY <1>10, Zenon DEF Placed, Awaited
  <1>13. \A c \in Batches : ~Has(c) => Awaited(c, v)
    BY <1>3, <1>4, <1>5, <1>11, <1>12, Zenon
  <1> QED
    BY <1>8, <1>9, <1>13

\* A statement on the batches leaves a table of batches, and requires what it names.
LEMMA BatchExecuted ==
  ASSUME relation \in BatchTable, NEW s \in BatchChange, NEW r, r = Executed(s)
  PROVE  /\ r \in BatchTable /\ r.screened = relation.screened
         /\ relation.required \subseteq r.required
         /\ \A c \in Batches : s = <<"not null", c>> => c \in r.required
  <1>1. relation.held \in [Batches -> HeldValues] /\ relation.required \in SUBSET Batches
    BY DEF BatchTable
  <1>2. CASE s = <<"end">>
    <2>1. r = relation
      BY <1>2 DEF Executed
    <2> QED
      BY <1>2, <2>1
  <1>3. CASE \E c \in Batches : s = <<"not null", c>>
    <2>1. PICK c \in Batches : s = <<"not null", c>>
      BY <1>3
    <2>2. s[1] = "not null" /\ s[2] = c
      BY <2>1
    <2>3. r = [relation EXCEPT !.required = relation.required \cup {c}]
      BY <2>2 DEF Executed
    <2>4. r \in BatchTable /\ r.screened = relation.screened /\ r.required = relation.required \cup {c}
      BY <1>1, <2>3 DEF BatchTable
    <2>5. \A d \in Batches : s = <<"not null", d>> => d = c
      <3> SUFFICES ASSUME NEW d \in Batches, s = <<"not null", d>> PROVE d = c
        OBVIOUS
      <3>1. s[2] = d
        OBVIOUS
      <3> QED
        BY <2>2, <3>1
    <2> QED
      BY <2>4, <2>5
  <1>4. CASE \E c \in Batches : s = <<"add", c>> \/ s = <<"fill", c, "default">>
    <2>1. PICK c \in Batches : s = <<"add", c>> \/ s = <<"fill", c, "default">>
      BY <1>4
    <2>2. \/ s[1] = "add" /\ s[2] = c
          \/ s[1] = "fill" /\ s[2] = c /\ s[3] = "default"
      BY <2>1
    <2>3. PICK v \in HeldValues : v = "null" \/ v = "default"
      BY DEF HeldValues
    <2>4. \E w \in HeldValues : r = relation \/ r = [relation EXCEPT !.held[c] = w]
      <3>1. CASE s[1] = "add" /\ s[2] = c
        <4>1. r = [relation EXCEPT !.held[c] = "null"]
          BY <3>1 DEF Executed
        <4>2. "null" \in HeldValues
          BY DEF HeldValues
        <4> QED
          BY <4>1, <4>2, Zenon
      <3>2. CASE s[1] = "fill" /\ s[2] = c /\ s[3] = "default"
        <4>1. r = Filled(c, "default")
          BY <3>2 DEF Executed
        <4>2. "default" \in HeldValues
          BY DEF HeldValues
        <4> QED
          BY <4>1, <4>2, Zenon DEF Filled
      <3> QED
        BY <2>2, <3>1, <3>2
    <2>5. PICK w \in HeldValues : r = relation \/ r = [relation EXCEPT !.held[c] = w]
      BY <2>4
    <2>6. PICK h : h = [relation.held EXCEPT ![c] = w]
      OBVIOUS
    <2>7. h \in [Batches -> HeldValues]
      BY <1>1, <2>6, Zenon
    <2>8. r = relation \/ r = [relation EXCEPT !.held = h]
      BY <2>5, <2>6
    <2>9. r \in BatchTable /\ r.screened = relation.screened /\ r.required = relation.required
      BY <2>7, <2>8 DEF BatchTable
    <2>10. \A d \in Batches : s # <<"not null", d>>
      <3> SUFFICES ASSUME NEW d \in Batches, s = <<"not null", d>> PROVE FALSE
        OBVIOUS
      <3>1. s[1] = "not null"
        OBVIOUS
      <3> QED
        BY <2>2, <3>1
    <2> QED
      BY <2>9, <2>10
  <1>5. \/ s = <<"end">> \/ \E c \in Batches : s = <<"not null", c>>
        \/ \E c \in Batches : s = <<"add", c>> \/ s = <<"fill", c, "default">>
    BY Zenon DEF BatchChange
  <1> QED
    BY <1>2, <1>3, <1>4, <1>5

\* Before the first init nothing is to be done.
LEMMA LegacyInvInit == LegacyInit => LegacyInv
  <1> SUFFICES ASSUME LegacyInit PROVE LegacyInv
    OBVIOUS
  <1>1. "meta_journal" \in LegacyTables
    BY DEF LegacyTables
  <1>2. relation = LegacyRelation("meta_journal")
    BY DEF LegacyInit
  <1>3. RowsKept(relation, FieldsOf("meta_journal")) /\ relation.name = "meta_journal"
    BY <1>1, <1>2, LegacyRelationRows
  <1> QED
    BY <1>3, NothingComing DEF LegacyInit, LegacyInv, ReplacedInv

\* Every step on the tables but the batches keeps the invariant: a list is made from
\* the table as it is (MigrateLegacyDatasetObject), and each statement leaves the
\* rest of it right.
LEMMA ReplacedNext ==
  ASSUME ReplacedInv, relation.screened, MigrateLegacy \/ ExecuteLegacy
  PROVE  ReplacedInv' /\ relation'.screened
  <1>1. PICK F : F = FieldsOf(relation.name)
    OBVIOUS
  <1>2. RowsKept(relation, F) /\ LegacyComing(relation, F, remaining)
        /\ relation.name # "meta_batches"
    BY <1>1 DEF ReplacedInv
  <1>3. relation.name \in LegacyTables /\ FieldList(F)
    BY <1>1, <1>2, FieldsAreLists DEF RowsKept, LegacyTable
  <1>5. CASE MigrateLegacy
    <2>1. remaining' = LegacyStatements \o << <<"end">> >> /\ relation' = relation
          /\ relation.screened
      BY <1>5 DEF MigrateLegacy
    <2>2. LegacyComing(relation, F, remaining')
      BY <1>1, <1>2, <1>3, <2>1, WholeList
    <2>3. RowsKept(relation', FieldsOf(relation'.name))
      BY <1>1, <1>2, <2>1
    <2>4. LegacyComing(relation', FieldsOf(relation'.name), remaining')
      BY <1>1, <2>1, <2>2
    <2> QED
      BY <1>2, <2>1, <2>3, <2>4 DEF ReplacedInv
  <1>6. CASE ExecuteLegacy
    <2>1. /\ remaining # << >>
          /\ relation' = Executed(Head(remaining)) \/ relation' = relation
          /\ \/ remaining' = << >>
             \/ relation' = Executed(Head(remaining)) /\ remaining' = Tail(remaining)
      BY <1>6 DEF ExecuteLegacy
    <2>2. PICK s : s = remaining[1] /\ s = Head(remaining)
      BY <1>2, <2>1, RestOfList DEF LegacyComing
    <2>3. PICK r : r = Executed(s)
      OBVIOUS
    <2>4. /\ RowsKept(r, F) /\ LegacyComing(r, F, Tail(remaining))
          /\ r.name = relation.name /\ r.screened = relation.screened
      <3>1. RowsKept(r, F)
        BY <1>2, <1>3, <2>1, <2>2, <2>3, ExecutedRows
      <3>2. LegacyComing(r, F, Tail(remaining))
        BY <1>2, <1>3, <2>1, <2>2, <2>3, ExecutedComing
      <3>3. After(r, s, F)
        BY <1>2, <1>3, <2>1, <2>2, <2>3, ExecutedTable
      <3> QED
        BY <3>1, <3>2, <3>3 DEF After
    <2>5. RowsKept(relation', F) /\ relation'.name = relation.name
          /\ relation'.screened = relation.screened
      BY <1>2, <2>1, <2>2, <2>3, <2>4
    <2>6. LegacyComing(relation', F, remaining')
      BY <2>1, <2>2, <2>3, <2>4, NothingComing
    <2>8. FieldsOf(relation'.name) = F
      BY <1>1, <2>5
    <2> QED
      BY <1>2, <2>5, <2>6, <2>8 DEF ReplacedInv
  <1> QED
    BY <1>5, <1>6

\* Every step on the batches keeps it: a column that is missing gets its three
\* statements (legacyBatchMigrationStatements), and one that an init left behind
\* without the last of them is torn.
LEMMA BatchesNext ==
  ASSUME BatchesInv, MigrateLegacy \/ ExecuteLegacy
  PROVE  BatchesInv' /\ relation'.screened = relation.screened
  <1>1. relation \in BatchTable /\ remaining \in Seq(BatchChange) /\ relation.name = "meta_batches"
    BY DEF BatchesInv, BatchTable
  <1>2. CASE MigrateLegacy
    <2>1. remaining = << >> /\ remaining' = LegacyStatements \o << <<"end">> >>
          /\ relation' = relation /\ torn' = torn
      BY <1>2 DEF MigrateLegacy
    <2>2. /\ remaining' \in Seq(BatchChange)
          /\ \A c \in Batches : ~Has(c) => Awaited(c, remaining')
      BY <1>1, <2>1, BatchesList
    <2>3. \A c : ~Awaited(c, remaining)
      <3>1. 1..Len(remaining) = {}
        BY <2>1
      <3> QED
        BY <3>1 DEF Awaited
    <2>4. \A c \in Batches : Finished(c) \/ ~Has(c)
      BY <2>3 DEF BatchesInv, Has
    <2>5. \A c : Finished(c)' <=> Finished(c)
      BY <2>1 DEF Finished
    <2>6. \A c \in Batches : Finished(c)' \/ Awaited(c, remaining)'
      BY <2>2, <2>4, <2>5 DEF Awaited
    <2> QED
      BY <1>1, <2>1, <2>2, <2>6, Zenon DEF BatchesInv
  <1>3. CASE ExecuteLegacy
    <2>1. PICK s : s = Head(remaining)
      OBVIOUS
    <2>2. remaining # << >>
      BY <1>3 DEF ExecuteLegacy
    <2>3. s \in BatchChange /\ s = remaining[1] /\ Tail(remaining) \in Seq(BatchChange)
      <3>1. PICK R \in Seq(BatchChange) : R = remaining
        BY <1>1
      <3>2. /\ Head(R) = R[1] /\ 1 \in 1..Len(R) /\ Tail(R) \in Seq(BatchChange)
        BY <2>2, <3>1, RestOfList
      <3>3. \A p \in 1..Len(R) : R[p] \in BatchChange
        BY <3>1, ElementOfSeq
      <3> QED
        BY <2>1, <3>1, <3>2, <3>3
    <2>4. PICK r : r = Executed(s)
      OBVIOUS
    <2>5. /\ r \in BatchTable /\ r.screened = relation.screened
          /\ relation.required \subseteq r.required
          /\ \A c \in Batches : s = <<"not null", c>> => c \in r.required
      BY <1>1, <2>3, <2>4, BatchExecuted
    <2>6. CASE relation' = Executed(Head(remaining)) /\ remaining' = Tail(remaining) /\ torn' = torn
      <3>1. relation' = r
        BY <2>1, <2>4, <2>6
      <3>2. \A c \in Batches : Awaited(c, remaining) => s = <<"not null", c>> \/ Awaited(c, remaining')
        <4> SUFFICES ASSUME NEW c \in Batches, Awaited(c, remaining), s # <<"not null", c>>
                     PROVE  Awaited(c, Tail(remaining))
          BY <2>6
        <4>1. PICK R \in Seq(BatchChange) : R = remaining
          BY <1>1
        <4>2. PICK p \in 1..Len(R) : R[p] = <<"not null", c>>
          BY <4>1 DEF Awaited
        <4>3. p # 1
          BY <2>3, <4>1, <4>2
        <4>4. p - 1 \in 1..Len(Tail(R)) /\ Tail(R)[p - 1] = R[p]
          BY <2>2, <4>1, <4>3, RestOfList
        <4> QED
          BY <4>1, <4>2, <4>4 DEF Awaited
      <3>3. \A c \in Batches : Finished(c) => Finished(c)'
        BY <2>5, <2>6, <3>1 DEF Finished
      <3>4. \A c \in Batches : s = <<"not null", c>> => Finished(c)'
        BY <2>5, <3>1 DEF Finished
      <3>5. \A c \in Batches : Finished(c) \/ Awaited(c, remaining)
        BY <2>2 DEF BatchesInv
      <3>6. \A c \in Batches : Finished(c)' \/ Awaited(c, remaining)'
        BY <3>2, <3>3, <3>4, <3>5 DEF Awaited
      <3> QED
        BY <2>3, <2>5, <2>6, <3>1, <3>6, Zenon DEF BatchesInv
    <2>7. CASE /\ relation' = relation \/ relation' = Executed(Head(remaining))
               /\ remaining' = << >> /\ torn' = torn \cup Unfinished(relation')
      <3>1. relation' \in BatchTable /\ relation'.screened = relation.screened
        BY <1>1, <2>1, <2>4, <2>5, <2>7
      <3>2. \A c \in Batches : Finished(c)' \/ relation'.held[c] = "absent"
        <4> SUFFICES ASSUME NEW c \in Batches, relation'.held[c] # "absent" PROVE Finished(c)'
          OBVIOUS
        <4>1. DOMAIN relation'.held = Batches
          BY <3>1 DEF BatchTable
        <4>2. c \in Unfinished(relation') \/ c \in relation'.required
          BY <4>1, Zenon DEF Unfinished
        <4> QED
          BY <2>7, <4>2 DEF Finished
      <3>3. remaining' \in Seq(BatchChange)
        BY <2>7
      <3> QED
        BY <2>7, <3>1, <3>2, <3>3, Zenon DEF BatchesInv
    <2> QED
      BY <1>3, <2>6, <2>7, Zenon DEF ExecuteLegacy
  <1> QED
    BY <1>2, <1>3

\* Every step keeps the invariant.
LEMMA LegacyInvNext == LegacyInv /\ [LegacyNext]_legacyVars => LegacyInv'
  <1> SUFFICES ASSUME LegacyInv, [LegacyNext]_legacyVars PROVE LegacyInv'
    OBVIOUS
  <1>1. CASE ScreenLegacy
    <2>1. PICK name \in LegacyTables :
            relation' = [LegacyRelation(name) EXCEPT !.screened = TRUE]
      BY <1>1 DEF ScreenLegacy
    <2>2. remaining' = << >>
      BY <1>1 DEF LegacyInv, ScreenLegacy
    <2>3. CASE name # "meta_batches"
      <3>1. RowsKept(relation', FieldsOf(name)) /\ relation'.name = name
        BY <2>1, <2>3, LegacyRelationRows
      <3>2. RowsKept(relation', FieldsOf(relation'.name))
        BY <3>1
      <3>3. LegacyComing(relation', FieldsOf(relation'.name), remaining')
        BY <2>2, NothingComing
      <3> QED
        BY <2>2, <2>3, <3>1, <3>2, <3>3 DEF LegacyInv, ReplacedInv
    <2>4. CASE name = "meta_batches"
      <3>1. relation' \in BatchTable /\ \A c \in Batches : relation'.held[c] = "absent"
        BY <2>1, <2>4, BatchesRelation
      <3>2. remaining' \in Seq(BatchChange)
        BY <2>2
      <3> QED
        BY <2>2, <3>1, <3>2, Zenon DEF LegacyInv, BatchesInv
    <2> QED
      BY <2>3, <2>4
  <1>2. CASE MigrateLegacy \/ ExecuteLegacy
    <2>1. relation.screened
      BY <1>2 DEF LegacyInv, MigrateLegacy, ExecuteLegacy
    <2>2. CASE ReplacedInv
      BY <1>2, <2>1, <2>2, ReplacedNext DEF LegacyInv
    <2>3. CASE BatchesInv
      BY <1>2, <2>1, <2>3, BatchesNext DEF LegacyInv
    <2> QED
      BY <2>2, <2>3 DEF LegacyInv
  <1>3. CASE UNCHANGED legacyVars
    <2>1. relation' = relation /\ remaining' = remaining /\ torn' = torn
      BY <1>3 DEF legacyVars
    <2>2. BatchesInv => BatchesInv'
      BY <2>1 DEF BatchesInv, Finished, Awaited
    <2>3. ReplacedInv => ReplacedInv'
      BY <2>1 DEF ReplacedInv, RowsKept, LegacyComing
    <2> QED
      BY <2>1, <2>2, <2>3 DEF LegacyInv
  <1> QED
    BY <1>1, <1>2, <1>3 DEF LegacyNext

\* The invariant of the batches has what the migration promises.
LEMMA BatchesSafe == BatchesInv => LegacySafety
  <1> SUFFICES ASSUME BatchesInv PROVE LegacySafety
    OBVIOUS
  <1>1. PICK F : F = FieldsOf("meta_batches")
    OBVIOUS
  <1>2. {f.new : f \in ToSet(F)} = Batches /\ {f.old : f \in ToSet(F)} = {NoSource}
    BY <1>1, BatchFields
  <1>3. /\ relation.name = "meta_batches" /\ relation.key = "new" /\ relation.columns = {}
        /\ relation.held \in [Batches -> HeldValues]
    BY DEF BatchesInv, BatchTable
  <1>4. \A f \in ToSet(F) : f.new \in Batches /\ f.old = NoSource
    <2>1. \A f \in ToSet(F) : f.new \in {g.new : g \in ToSet(F)} /\ f.old \in {g.old : g \in ToSet(F)}
      OBVIOUS
    <2> QED
      BY <1>2, <2>1
  <1>5. LegacyTypeOK
    <2>1. DOMAIN relation.held = Batches /\ \A c \in Batches : relation.held[c] \in HeldValues
      BY <1>3
    <2> QED
      BY <1>3, <2>1 DEF LegacyTypeOK, HeldValues, LegacyTables
  <1>6. LegacyValuesKept
    BY <1>1, <1>3, <1>4, Zenon DEF LegacyValuesKept
  <1>7. MigratedIsCurrent
    <2> SUFFICES ASSUME remaining = << <<"end">> >>, NEW f \in ToSet(F)
                 PROVE  f.new \in relation.required \/ f.new \in torn
      BY <1>1, <1>3, Zenon DEF MigratedIsCurrent
    <2>1. remaining # << >> /\ Len(remaining) = 1 /\ \A p \in 1..Len(remaining) : remaining[p][1] = "end"
      OBVIOUS
    <2>2. ~Awaited(f.new, remaining)
      <3> SUFFICES ASSUME NEW p \in 1..Len(remaining), remaining[p] = <<"not null", f.new>>
                   PROVE  FALSE
        BY DEF Awaited
      <3>1. remaining[p][1] = "not null"
        BY NeedIs
      <3> QED
        BY <2>1, <3>1
    <2>3. Finished(f.new)
      BY <1>4, <2>1, <2>2 DEF BatchesInv
    <2> QED
      BY <2>3 DEF Finished
  <1> QED
    BY <1>5, <1>6, <1>7 DEF LegacySafety

\* The invariant of the other tables has it too.
LEMMA ReplacedSafe == ReplacedInv => LegacySafety
  <1> SUFFICES ASSUME ReplacedInv PROVE LegacySafety
    OBVIOUS
  <1>1. PICK F : F = FieldsOf(relation.name)
    OBVIOUS
  <1>2. RowsKept(relation, F) /\ LegacyComing(relation, F, remaining)
    BY <1>1 DEF ReplacedInv
  <1>3. ToSet(F) = {F[i] : i \in DOMAIN F}
    BY DEF ToSet
  <1>4. LegacyTypeOK
    <2>1. relation.name \in LegacyTables /\ relation.key \in {"old", "none", "new"}
          /\ relation.held \in [Columns(F) -> HeldValues]
      BY <1>2 DEF RowsKept, LegacyTable
    <2> QED
      BY <2>1 DEF LegacyTypeOK, HeldValues
  <1>5. LegacyValuesKept
    <2>1. \A i \in DOMAIN F :
            F[i].old # NoSource /\ F[i].old \notin relation.columns
              => relation.held[F[i].new] = "legacy"
      BY <1>2 DEF RowsKept
    <2>2. \A f \in ToSet(F) :
            f.old # NoSource /\ f.old \notin relation.columns
              => relation.held[f.new] = "legacy"
      <3> SUFFICES ASSUME NEW f \in ToSet(F), f.old # NoSource, f.old \notin relation.columns
                   PROVE  relation.held[f.new] = "legacy"
        OBVIOUS
      <3>1. PICK i \in DOMAIN F : f = F[i]
        BY <1>3
      <3> QED
        BY <2>1, <3>1
    <2>3. ToSet(FieldsOf(relation.name)) = ToSet(F)
      BY <1>1
    <2> QED
      BY <2>2, <2>3, Zenon DEF LegacyValuesKept
  <1>6. MigratedIsCurrent
    <2> SUFFICES ASSUME remaining = << <<"end">> >>
                 PROVE  /\ relation.key = "new"
                        /\ \A f \in ToSet(F) : f.new \in relation.required
                                               /\ f.old \notin relation.columns
      BY <1>1, Zenon DEF MigratedIsCurrent
    <2>1. remaining # << >> /\ Len(remaining) = 1 /\ \A p \in 1..Len(remaining) : remaining[p][1] = "end"
      OBVIOUS
    <2>2. ShapeComing(relation, F, remaining)
      BY <1>2, <2>1 DEF LegacyComing
    <2>3. relation.key = "new" /\ \A i \in DOMAIN F : F[i].new \in relation.required
                                                      /\ F[i].old \notin relation.columns
      <3>1. KeyComing(relation, remaining) /\ NeedsComing(relation, F, remaining)
            /\ DropsComing(relation, F, remaining)
        BY <2>2, Zenon DEF ShapeComing
      <3>2. relation.key = "new"
        BY <2>1, <3>1, Zenon DEF KeyComing
      <3>3. \A i \in DOMAIN F : F[i].new \in relation.required
        BY <2>1, <3>1, Zenon DEF NeedsComing
      <3>4. \A i \in DOMAIN F : F[i].old \notin relation.columns
        BY <2>1, <3>1, Zenon DEF DropsComing
      <3> QED
        BY <3>2, <3>3, <3>4
    <2>4. \A f \in ToSet(F) : f.new \in relation.required /\ f.old \notin relation.columns
      BY <1>3, <2>3, Zenon
    <2> QED
      BY <2>3, <2>4, Zenon
  <1> QED
    BY <1>4, <1>5, <1>6 DEF LegacySafety

\* The migration of a table of an older gsbench (MigrateLegacyDatasetObject) may
\* stop after any statement and start again from what it finds: no value of an old
\* column is lost, and an init that ran to its end leaves the current shape,
\* whatever the columns.
THEOREM LegacyValuesSurvive == LegacySpec => []LegacySafety
  <1>1. LegacyInit => LegacyInv
    BY LegacyInvInit
  <1>2. LegacyInv /\ [LegacyNext]_legacyVars => LegacyInv'
    BY LegacyInvNext
  <1>3. LegacyInv => LegacySafety
    BY BatchesSafe, ReplacedSafe DEF LegacyInv
  <1> QED
    BY <1>1, <1>2, <1>3, PTL DEF LegacySpec
=============================================================================
