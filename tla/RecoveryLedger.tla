--------------------------- MODULE RecoveryLedger ---------------------------
(* The file recovery ledger of gsbench (internal/gsbench/recovery_ledger.go). *)
(*                                                                            *)
(* Several threads of several processes share one JSON file.  A writer takes  *)
(* a process mutex and then a polling flock, reads the file, writes and syncs *)
(* a temporary file, renames it over the ledger and syncs the directory.      *)
(* A reader takes only the process mutex.  A process may die at any step and  *)
(* the machine may lose power at any step.                                    *)
(*                                                                            *)
(* The directory entry has two values: `visible', what an open sees, and      *)
(* `durable', what survives a power loss.  A rename changes the first; the    *)
(* directory sync, or the kernel on its own, copies it to the second.         *)
EXTENDS Naturals, FiniteSets

CONSTANTS Process,      \* gsbench processes on the host
          Thread,       \* goroutines that call the ledger
          ProcessOf,    \* the process of each thread
          Id,           \* (run, target) identities
          Payload,      \* everything sameRecoveryLedgerAction compares
          Diagnostic,   \* non-empty LastError texts
          NoDiagnostic, \* the empty LastError
          MaxActions,   \* recoveryLedgerMaxActions
          Nobody        \* no thread, or no identity

ASSUME LedgerConstants ==
  /\ ProcessOf \in [Thread -> Process]
  /\ IsFiniteSet(Id)
  /\ MaxActions \in Nat
  /\ NoDiagnostic \notin Diagnostic
  /\ Nobody \notin Thread \cup Id

VARIABLES visible,   \* the ledger every process opens
          durable,   \* the ledger a power loss leaves
          mutex,     \* recoveryLedgerPathLocks: one mutex per process
          flock,     \* the thread whose descriptor holds <ledger>.lock
          pc,        \* where each thread is in its call
          staged,    \* the synced temporary file of a writer
          subject,   \* the identity a writer's call is about
          promised,  \* history: the stage last acknowledged per identity
          reported   \* history: identities a Snapshot returned as restored

vars == <<visible, durable, mutex, flock, pc, staged, subject, promised, reported>>

-----------------------------------------------------------------------------
(* MutationState and the order in which an action moves through it.  Only     *)
(* restoring and restore_failed may alternate.                                *)
State == {"planned", "applied", "restoring", "restore_failed", "restored"}
PutState == State \ {"restored"}

Stage == [s \in State |->
            CASE s = "planned" -> 1
              [] s = "applied" -> 2
              [] s \in {"restoring", "restore_failed"} -> 3
              [] s = "restored" -> 4]

\* Mutant: a restored action may be restored once more.
AllowedTransitionAfterRestored(from, to) ==
  \/ from = to
  \/ from = "planned" /\ to \in {"applied", "restoring", "restore_failed"}
  \/ from = "applied" /\ to \in {"restoring", "restore_failed"}
  \/ from = "restoring" /\ to = "restore_failed"
  \/ from \in {"restore_failed", "restored"} /\ to = "restoring"

AllowedTransition(from, to) ==
  \/ from = to
  \/ from = "planned" /\ to \in {"applied", "restoring", "restore_failed"}
  \/ from = "applied" /\ to \in {"restoring", "restore_failed"}
  \/ from = "restoring" /\ to = "restore_failed"
  \/ from = "restore_failed" /\ to = "restoring"

Entry == [payload : Payload, state : State, lastError : Diagnostic \cup {NoDiagnostic}]

\* A ledger file is a partial function from identities to entries: reading it
\* rejects a duplicate identity, and the order of its list is canonical.
File == UNION {[ids -> Entry] : ids \in SUBSET Id}
EmptyFile == [i \in {} |-> {}]

Record(file, i, entry) ==
  [j \in DOMAIN file \cup {i} |-> IF j = i THEN entry ELSE file[j]]

\* Mutant: the limit is checked after the fact.
PutAcceptedAtLimit(file, i, entry) ==
  IF i \in DOMAIN file
  THEN /\ file[i].payload = entry.payload
       /\ AllowedTransition(file[i].state, entry.state)
       /\ \/ file[i].state # entry.state
          \/ file[i].lastError = NoDiagnostic
          \/ entry.lastError \in {NoDiagnostic, file[i].lastError}
  ELSE Cardinality(DOMAIN file) <= MaxActions

\* What Put stores for an identity the ledger holds, and when it agrees to.
PutAccepted(file, i, entry) ==
  IF i \in DOMAIN file
  THEN /\ file[i].payload = entry.payload
       /\ AllowedTransition(file[i].state, entry.state)
       /\ \/ file[i].state # entry.state
          \/ file[i].lastError = NoDiagnostic
          \/ entry.lastError \in {NoDiagnostic, file[i].lastError}
  ELSE Cardinality(DOMAIN file) < MaxActions

\* Mutants: the diagnostic is overwritten; the two diagnostics are joined.
PutEntryForgetful(file, i, entry) == entry

PutEntry(file, i, entry) ==
  IF /\ i \in DOMAIN file
     /\ file[i].state = entry.state
     /\ entry.lastError = NoDiagnostic
  THEN [entry EXCEPT !.lastError = file[i].lastError]
  ELSE entry

-----------------------------------------------------------------------------
\* A thread holds its process mutex when it is not idle, and the flock from
\* "read" on.  "rename": its temporary file is synced; "resync": the ledger is
\* in place and the directory is about to be synced.
Point == {"idle", "wait", "read", "rename", "resync"}

Init ==
  /\ visible = EmptyFile
  /\ durable = EmptyFile
  /\ mutex = [p \in Process |-> Nobody]
  /\ flock = Nobody
  /\ pc = [t \in Thread |-> "idle"]
  /\ staged = [t \in Thread |-> EmptyFile]
  /\ subject = [t \in Thread |-> Nobody]
  /\ promised = [i \in Id |-> 0]
  /\ reported = {}

\* withExclusiveLock(createParent = true): processLock.Lock().
Enter(t) ==
  /\ pc[t] = "idle"
  /\ mutex[ProcessOf[t]] = Nobody
  /\ mutex' = [mutex EXCEPT ![ProcessOf[t]] = t]
  /\ pc' = [pc EXCEPT ![t] = "wait"]
  /\ UNCHANGED <<visible, durable, flock, staged, subject, promised, reported>>

\* lockLedgerFile polls a non-blocking flock; verifyPinnedLockName succeeds.
LockFile(t) ==
  /\ pc[t] = "wait"
  /\ flock = Nobody
  /\ flock' = t
  /\ pc' = [pc EXCEPT ![t] = "read"]
  /\ UNCHANGED <<visible, durable, mutex, staged, subject, promised, reported>>

\* The deferred LOCK_UN and Unlock of withExclusiveLock, and the call returns.
Leave(t) ==
  /\ mutex' = [mutex EXCEPT ![ProcessOf[t]] = Nobody]
  /\ flock' = IF flock = t THEN Nobody ELSE flock
  /\ pc' = [pc EXCEPT ![t] = "idle"]
  /\ staged' = [staged EXCEPT ![t] = EmptyFile]
  /\ subject' = [subject EXCEPT ![t] = Nobody]

\* The context ends while polling, the lock cannot be trusted, the file cannot
\* be read or written, the size or count limit is passed, a transition or a
\* payload is refused, the rename fails: an error, and the ledger is as before.
FailBeforeRename(t) ==
  /\ pc[t] \in {"wait", "read", "rename"}
  /\ Leave(t)
  /\ UNCHANGED <<visible, durable, promised, reported>>

\* Put, up to the fsync of the temporary file.
Put(t, i, entry) ==
  /\ pc[t] = "read"
  /\ PutAccepted(visible, i, entry)
  /\ staged' = [staged EXCEPT ![t] = Record(visible, i, PutEntry(visible, i, entry))]
  /\ subject' = [subject EXCEPT ![t] = i]
  /\ pc' = [pc EXCEPT ![t] = "rename"]
  /\ UNCHANGED <<visible, durable, mutex, flock, promised, reported>>

\* MarkRestored of an identity that is pending, up to the same fsync.
MarkRestored(t, i) ==
  /\ pc[t] = "read"
  /\ i \in DOMAIN visible
  /\ visible[i].state # "restored"
  /\ staged' = [staged EXCEPT ![t] =
                  Record(visible, i, [visible[i] EXCEPT !.state = "restored",
                                                        !.lastError = NoDiagnostic])]
  /\ subject' = [subject EXCEPT ![t] = i]
  /\ pc' = [pc EXCEPT ![t] = "rename"]
  /\ UNCHANGED <<visible, durable, mutex, flock, promised, reported>>

\* MarkRestored of an identity already restored, or unknown: only the sync.
MarkRestoredAgain(t, i) ==
  /\ pc[t] = "read"
  /\ i \in DOMAIN visible => visible[i].state = "restored"
  /\ subject' = [subject EXCEPT ![t] = i]
  /\ pc' = [pc EXCEPT ![t] = "resync"]
  /\ UNCHANGED <<visible, durable, mutex, flock, staged, promised, reported>>

Rename(t) ==
  /\ pc[t] = "rename"
  /\ visible' = staged[t]
  /\ pc' = [pc EXCEPT ![t] = "resync"]
  /\ UNCHANGED <<durable, mutex, flock, staged, subject, promised, reported>>

\* Mutant: the rename is not followed by a directory sync.
SyncDirectorySkipped(t) ==
  /\ pc[t] = "resync"
  /\ promised' = IF subject[t] \in DOMAIN visible
                 THEN [promised EXCEPT ![subject[t]] = Stage[visible[subject[t]].state]]
                 ELSE promised
  /\ Leave(t)
  /\ UNCHANGED <<visible, durable, reported>>

\* syncPinnedDirectory succeeds and the call returns nil: what the ledger says
\* of its subject is now a promise to the caller.
SyncDirectory(t) ==
  /\ pc[t] = "resync"
  /\ durable' = visible
  /\ promised' = IF subject[t] \in DOMAIN visible
                 THEN [promised EXCEPT ![subject[t]] = Stage[visible[subject[t]].state]]
                 ELSE promised
  /\ Leave(t)
  /\ UNCHANGED <<visible, reported>>

\* syncPinnedDirectory fails: an error, although the ledger was replaced.
SyncDirectoryFails(t) ==
  /\ pc[t] = "resync"
  /\ Leave(t)
  /\ UNCHANGED <<visible, durable, promised, reported>>

\* Snapshot and Pending: the process mutex only, and one open of the file.
Snapshot(t) ==
  /\ pc[t] = "idle"
  /\ mutex[ProcessOf[t]] = Nobody
  /\ reported' = reported \cup {i \in DOMAIN visible : visible[i].state = "restored"}
  /\ UNCHANGED <<visible, durable, mutex, flock, pc, staged, subject, promised>>

\* The kernel writes the directory back on its own.
WriteBack ==
  /\ durable # visible
  /\ durable' = visible
  /\ UNCHANGED <<visible, mutex, flock, pc, staged, subject, promised, reported>>

\* A process dies: the kernel drops its flock, its mutex is gone.
ProcessDies(p) ==
  LET dead == {t \in Thread : ProcessOf[t] = p} IN
  /\ \E t \in dead : pc[t] # "idle"
  /\ mutex' = [mutex EXCEPT ![p] = Nobody]
  /\ flock' = IF flock \in dead THEN Nobody ELSE flock
  /\ pc' = [t \in Thread |-> IF t \in dead THEN "idle" ELSE pc[t]]
  /\ staged' = [t \in Thread |-> IF t \in dead THEN EmptyFile ELSE staged[t]]
  /\ subject' = [t \in Thread |-> IF t \in dead THEN Nobody ELSE subject[t]]
  /\ UNCHANGED <<visible, durable, promised, reported>>

PowerLoss ==
  /\ visible' = durable
  /\ mutex' = [p \in Process |-> Nobody]
  /\ flock' = Nobody
  /\ pc' = [t \in Thread |-> "idle"]
  /\ staged' = [t \in Thread |-> EmptyFile]
  /\ subject' = [t \in Thread |-> Nobody]
  /\ UNCHANGED <<durable, promised, reported>>

Write(t) ==
  \E i \in Id :
    \/ \E entry \in Entry : entry.state \in PutState /\ Put(t, i, entry)
    \/ MarkRestored(t, i)
    \/ MarkRestoredAgain(t, i)

Next ==
  \/ \E t \in Thread :
       \/ Enter(t) \/ LockFile(t) \/ Write(t) \/ Rename(t)
       \/ FailBeforeRename(t) \/ SyncDirectory(t) \/ SyncDirectoryFails(t)
       \/ Snapshot(t)
  \/ \E p \in Process : ProcessDies(p)
  \/ WriteBack
  \/ PowerLoss

Spec == Init /\ [][Next]_vars

-----------------------------------------------------------------------------
(* Properties.                                                                *)

\* Every variable holds a value of its kind.
TypeOK ==
  /\ visible \in File
  /\ durable \in File
  /\ mutex \in [Process -> Thread \cup {Nobody}]
  /\ flock \in Thread \cup {Nobody}
  /\ pc \in [Thread -> Point]
  /\ staged \in [Thread -> File]
  /\ subject \in [Thread -> Id \cup {Nobody}]
  /\ promised \in [Id -> 0..4]
  /\ reported \subseteq Id

\* A call that returned nil holds after any later mixture of writers, failed
\* syncs, dead processes and power losses: the surviving file still knows the
\* identity, at the acknowledged stage or a later one (writeRecoveryLedger).
AcknowledgedSurvives ==
  \A i \in Id : promised[i] > 0 =>
    /\ i \in DOMAIN durable
    /\ Stage[durable[i].state] >= promised[i]

\* `new' forgets nothing of `old', moves nothing back, replaces no payload.
NoRegression(old, new) ==
  \A i \in DOMAIN old :
    /\ i \in DOMAIN new
    /\ new[i].payload = old[i].payload
    /\ Stage[new[i].state] >= Stage[old[i].state]

\* The three copies of the ledger are in order, because one writer at a time
\* holds the flock: what survives is not ahead of what is read, and what is
\* read is not ahead of what the writer is about to put in its place.
CopiesInOrder ==
  /\ NoRegression(durable, visible)
  /\ \A t \in Thread :
       /\ pc[t] \in {"read", "rename", "resync"} => flock = t
       /\ pc[t] = "rename" => NoRegression(visible, staged[t])

\* What every call of the ledger leaves true, in the file that is read and in the
\* one that survives.
LedgerSafe == TypeOK /\ CopiesInOrder /\ AcknowledgedSurvives

\* The surviving file implements the abstract ledger: at no step, a power loss
\* included, does it forget an identity, move it back a stage or replace its
\* inverse, and nil is returned only for what it holds (Put, MarkRestored).
Durable == INSTANCE DurableLedger WITH
  store <- [i \in DOMAIN durable |->
              [payload |-> durable[i].payload, stage |-> Stage[durable[i].state]]],
  acknowledged <- promised

ImplementsDurableLedger == Durable!Spec

\* What other processes read changes only along the transition table, one
\* identity at a time, and a diagnostic is dropped only with its state.
LegalChange(old, new) ==
  /\ new.payload = old.payload
  /\ \/ AllowedTransition(old.state, new.state) /\ old.state # new.state
     \/ new.state = "restored"
     \/ new.state = old.state /\ old.lastError \in {NoDiagnostic, new.lastError}

OneLegalChange(old, new) ==
  /\ \A i \in DOMAIN old : i \in DOMAIN new /\ LegalChange(old[i], new[i])
  /\ \A i, j \in DOMAIN new :
       /\ i \notin DOMAIN old \/ old[i] # new[i]
       /\ j \notin DOMAIN old \/ old[j] # new[j]
       => i = j

ReadersSeeLegalChanges == [][PowerLoss \/ OneLegalChange(visible, visible')]_vars

\* A ledger at its limit stays readable: readRecoveryLedger rejects a file with
\* more actions than the limit, so no writer may ever leave one.
NeverUnreadable ==
  /\ Cardinality(DOMAIN visible) <= MaxActions
  /\ Cardinality(DOMAIN durable) <= MaxActions

\* The comment on Snapshot: it returns "durable restored tombstones".
ReportedTombstonesAreDurable ==
  \A i \in reported : i \in DOMAIN durable /\ durable[i].state = "restored"
=============================================================================
