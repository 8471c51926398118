--------------------------- MODULE DataLogFiles ----------------------------
(***************************************************************************)
(* The files of gstop's data log (internal/persist/rotating.go and         *)
(* datalogger.go).  A row that does not fit into the file rolls it over:   *)
(* the file is closed, compressed into a backup next to it and removed,    *)
(* backups beyond BackupCount are deleted, oldest first, and a file is     *)
(* opened under the name of the moment.  Any of these may fail, each       *)
(* deletion on its own, and gstop may be killed between any two of them;   *)
(* the next start opens a file under the name of its moment and does not   *)
(* look at what an earlier one left.                                       *)
(*                                                                         *)
(* A name carries the second it was made in, so that two made in one       *)
(* second are one name: the second opening appends to what is left of the  *)
(* first file, and the second compression replaces the first backup.       *)
(* Here names are numbers, newer ones larger; rows are numbered in the     *)
(* order they were written.                                                *)
(***************************************************************************)
EXTENDS Integers, FiniteSets

CONSTANTS
    MaxRowsInFile,   \* persist_file_max_size, in rows
    BackupCount,     \* main.max_backup_count
    MaxRow,          \* bound: rows written
    MaxName,         \* bound: names made
    MaxFaults        \* bound: operations that fail, and kills

ASSUME DataLogAssumption ==
    /\ MaxRowsInFile \in Nat \ {0} /\ BackupCount \in Nat
    /\ MaxRow \in Nat /\ MaxName \in Nat \ {0}

VARIABLES
    writer,          \* step of the writer, its name, its size, whether a file is open
    files,           \* rows of the file of each name, none if it is gone or empty
    backups,         \* names of the backups
    zipped,          \* rows of the backup of each name, none if it is gone or broken
    rows,            \* rows written, and those that backups lost, by why they did
    faults           \* failures so far

dataLogVars == <<writer, files, backups, zipped, rows, faults>>

FileName == 1..MaxName

DataLogTypeOK ==
    /\ writer.pc \in {"idle", "compress", "copy", "remove", "prune", "open", "write"}
    /\ writer.name \in FileName
    /\ writer.size \in Nat
    /\ backups \subseteq FileName
    /\ \A n \in FileName : files[n] \cup zipped[n] \subseteq 1..rows.written

DataLogInit ==
    /\ writer = [pc |-> "idle", name |-> 1, size |-> 0, open |-> TRUE]
    /\ files = [n \in FileName |-> {}]
    /\ backups = {}
    /\ zipped = [n \in FileName |-> {}]
    /\ rows = [written |-> 0, pruned |-> {}, spoiled |-> {}, replaced |-> {}]
    /\ faults = 0

-----------------------------------------------------------------------------
Fault ==
    /\ faults < MaxFaults
    /\ faults' = faults + 1

\* write, of a row that fits, or of the row that rolled the file over: it may fail,
\* and the row is lost; without a file every row is.
WritesRow ==
    /\ \/ writer.pc = "write"
       \/ /\ writer.pc = "idle"
          /\ ~writer.open \/ writer.size < MaxRowsInFile
    /\ rows.written < MaxRow
    /\ LET row == rows.written + 1
       IN  \/ /\ writer.open
              /\ files' = [files EXCEPT ![writer.name] = @ \cup {row}]
              /\ writer' = [writer EXCEPT !.pc = "idle", !.size = @ + 1]
              /\ rows' = [rows EXCEPT !.written = row]
              /\ UNCHANGED faults
           \/ /\ writer.open => Fault
              /\ ~writer.open => UNCHANGED faults
              /\ writer' = [writer EXCEPT !.pc = "idle"]
              /\ rows' = [rows EXCEPT !.written = row, !.spoiled = @ \cup {row}]
              /\ UNCHANGED files
    /\ UNCHANGED <<backups, zipped>>

\* write, of a row that does not fit, and rollover up to compress.
RollsOver ==
    /\ writer.pc = "idle"
    /\ writer.open
    /\ writer.size >= MaxRowsInFile
    /\ rows.written < MaxRow
    /\ writer' = [writer EXCEPT !.pc = "compress", !.open = FALSE]
    /\ UNCHANGED <<files, backups, zipped, rows, faults>>

\* Mutant: the file goes whether or not there is a backup of it.
RemovesAnyway ==
    /\ Fault
    /\ files' = [files EXCEPT ![writer.name] = {}]
    /\ writer' = [writer EXCEPT !.pc = "prune"]
    /\ UNCHANGED <<backups, zipped, rows>>

\* The file cannot be read or its backup not be made: it stays as it is.
LeavesFile ==
    /\ Fault
    /\ writer' = [writer EXCEPT !.pc = "prune"]
    /\ UNCHANGED <<files, backups, zipped, rows>>

\* compress, up to os.Create: a backup of the same name is emptied.
CreatesBackup ==
    /\ writer.pc = "compress"
    /\ \/ LeavesFile
       \/ /\ backups' = backups \cup {writer.name}
          /\ zipped' = [zipped EXCEPT ![writer.name] = {}]
          /\ rows' = [rows EXCEPT !.replaced = @ \cup (zipped[writer.name] \ files[writer.name])]
          /\ writer' = [writer EXCEPT !.pc = "copy"]
          /\ UNCHANGED <<files, faults>>

\* compress: a copy that fails half-way spoils rows, for the file goes all the same.
Compresses ==
    /\ writer.pc = "copy"
    /\ \/ /\ zipped' = [zipped EXCEPT ![writer.name] = files[writer.name]]
          /\ UNCHANGED <<rows, faults>>
       \/ /\ Fault
          /\ rows' = [rows EXCEPT !.spoiled = @ \cup files[writer.name]]
          /\ UNCHANGED zipped
    /\ writer' = [writer EXCEPT !.pc = "remove"]
    /\ UNCHANGED <<files, backups>>

\* The file goes; when it cannot be removed that is not noticed.
RemovesFile ==
    /\ writer.pc = "remove"
    /\ \/ files' = [files EXCEPT ![writer.name] = {}] /\ UNCHANGED faults
       \/ Fault /\ UNCHANGED files
    /\ writer' = [writer EXCEPT !.pc = "prune"]
    /\ UNCHANGED <<backups, zipped, rows>>

BackupsAfter(n) == {b \in backups : b > n}

\* The backups but for the k newest, by the time they were made.
OldestBeyond(k) == {n \in backups : Cardinality(BackupsAfter(n)) >= k}

\* manageBackups: all that are too many go.  In a directory that cannot be read none
\* does; one whose time cannot be read is left out, and one that cannot be removed
\* stays, and the others go all the same.
Prunes ==
    /\ writer.pc = "prune"
    /\ \E gone \in SUBSET OldestBeyond(BackupCount) :
         /\ IF gone = OldestBeyond(BackupCount) THEN UNCHANGED faults ELSE Fault
         /\ backups' = backups \ gone
         /\ rows' = [rows EXCEPT !.pruned = @ \cup UNION {zipped[n] : n \in gone}]
         /\ zipped' = [n \in FileName |-> IF n \in gone THEN {} ELSE zipped[n]]
    /\ writer' = [writer EXCEPT !.pc = "open"]
    /\ UNCHANGED files

\* generateName and open: the name is the last one still, or a later one.  A file of
\* that name is appended to; without a file, every later row is dropped.
OpensAs(pc, open) ==
    \E name \in {writer.name, writer.name + 1} \cap FileName :
        writer' = [pc |-> pc, name |-> name, open |-> open,
                   size |-> IF open THEN Cardinality(files[name]) ELSE 0]

OpensFile ==
    /\ writer.pc = "open"
    /\ \/ OpensAs("write", TRUE) /\ UNCHANGED faults
       \/ OpensAs("write", FALSE) /\ Fault
    /\ UNCHANGED <<files, backups, zipped, rows>>

\* gstop is killed or stopped, and started again: newRotatingWriter.
StartsAgain ==
    /\ Fault
    /\ \E open \in BOOLEAN : OpensAs("idle", open)
    /\ UNCHANGED <<files, backups, zipped, rows>>

DataLogNext ==
    \/ WritesRow
    \/ RollsOver
    \/ CreatesBackup
    \/ Compresses
    \/ RemovesFile
    \/ Prunes
    \/ OpensFile
    \/ StartsAgain

DataLogSpec == DataLogInit /\ [][DataLogNext]_dataLogVars

-----------------------------------------------------------------------------
RowsOnDisk == UNION {files[n] \cup zipped[n] : n \in FileName}

(* A row written is in a file or in a whole backup, unless its write       *)
(* failed, the copy of its file failed, a backup with it was deleted to    *)
(* make room, or a later backup of the same second replaced it: neither a  *)
(* compression that cannot start nor a kill between two steps of a         *)
(* rollover loses one (rollover, compress).                                *)
RowsAreKept ==
    1..rows.written
      \subseteq RowsOnDisk \cup rows.pruned \cup rows.spoiled \cup rows.replaced

(* The oldest backups are deleted first: a backup with a row older than a  *)
(* deleted one could not be deleted then, and the next pruning tries it    *)
(* again, for BackupCount newer ones are there still (manageBackups).      *)
OldestGoFirst ==
    \A n \in backups :
      (\E row \in zipped[n], old \in rows.pruned : row < old) => n \in OldestBeyond(BackupCount)

\* What the data log promises through rollovers and restarts: no row lost
\* without a failure or a reused name, and the oldest deleted first.
DataLogSafety ==
  /\ DataLogTypeOK
  /\ RowsAreKept
  /\ OldestGoFirst
=============================================================================
