------------------------------- MODULE Dataset -------------------------------
(***************************************************************************)
(* `gsbench init` and `gsbench cleanup --data`.  DatasetManager.Init takes  *)
(* a schema it creates, or one that carries its ownership marker, through   *)
(* tables, row migrations, batches of rows, indexes, a size calibration and *)
(* a version.  It runs alone (CommandLocks) and may stop anywhere: a failed *)
(* statement, a statement whose reply was lost and a killed process leave   *)
(* the same database behind, and the next init resumes from it.             *)
(***************************************************************************)
EXTENDS Integers, FiniteSets, Sequences

CONSTANTS DatasetBatches,  \* DatasetPlan.Batches: [table, weight, rowBytes, rows, size]
          TargetBytes,     \* DatasetPlan.EstimatedBytes
          RowFactors,      \* real bytes of a row over its estimate
          IndexBytes,      \* bytes an index adds
          MigrationBatch,  \* TableMigration.BatchSize
          LegacyRows       \* plan_data rows an older gsbench left

SizeFactor == 2            \* datasetProspectiveSizeFactor
CurrentVersion == "4"
TrustedVersions == {"1", "2", "3", CurrentVersion}
BatchOf == [i \in 1..Len(DatasetBatches) |-> DatasetBatches[i]]
DatasetTables == {BatchOf[i].table : i \in DOMAIN BatchOf}
Migration == {"plan_data_v2_columns", "plan_data_v3_stats_target"}
SecondaryIndexes == {"secondary", "post_migration"}

ASSUME DatasetAssumption ==
  /\ DatasetBatches \in Seq([table : STRING, weight : Nat, rowBytes : Nat \ {0}, rows : Nat,
                             size : Nat \ {0}])
  /\ "plan_data" \in DatasetTables
  /\ \A i, j \in DOMAIN BatchOf : BatchOf[i].table = BatchOf[j].table => i = j
  /\ TargetBytes \in Nat \ {0} /\ MigrationBatch \in Nat \ {0}
  /\ IndexBytes \in Nat /\ LegacyRows \in Nat /\ RowFactors \subseteq Nat

VARIABLES catalog,  \* what the database holds: owner, marker, rows, marks, indexes
          init      \* what one Init keeps in memory
datasetVars == <<catalog, init>>

NoSchema == [owner |-> "none", meta |-> FALSE, marker |-> "none", tables |-> FALSE,
             rows |-> [t \in DatasetTables |-> {}], high |-> [t \in DatasetTables |-> 0],
             v2 |-> {}, v3 |-> {}, migrated |-> [m \in Migration |-> 0],
             indexes |-> {}, factor |-> 1]

\* A dataset of version 1: rows with the first columns only, no migration mark.
LegacySchema == [NoSchema EXCEPT !.owner = "gsbench", !.meta = TRUE, !.marker = "1",
                                 !.tables = TRUE, !.indexes = {"secondary"},
                                 !.rows["plan_data"] = 1..LegacyRows,
                                 !.high["plan_data"] = LegacyRows]

Resting == {"idle", "done", "failed"}
Fresh == [pc |-> "idle", created |-> FALSE, inspect |-> FALSE, size |-> 0, stop |-> FALSE,
          queue |-> {}, sorted |-> FALSE, start |-> 0, changed |-> {}, round |-> 1, deficit |-> 0,
          migration |-> "plan_data_v2_columns"]

DatasetInit == catalog = NoSchema /\ init = Fresh

---------------------------------------------------------------------------
At(label) == init.pc = label
Fail == init' = [init EXCEPT !.pc = "failed"]

\* A statement: it works, or an error is reported whether or not it took effect.
Statement(effect, next) ==
  \/ catalog' = effect /\ init' = next
  \/ catalog' \in {catalog, effect} /\ Fail

\* The batches still to load, and which is first: the fixed tables come first when
\* sizes are known.
Weighted == {i \in DOMAIN BatchOf : BatchOf[i].weight > 0}
GoesBefore(i, j, sorted) ==
  IF sorted /\ (i \in Weighted) # (j \in Weighted) THEN j \in Weighted ELSE i <= j
FirstOf(queue, sorted) == CHOOSE i \in queue : \A j \in queue : GoesBefore(i, j, sorted)

SumOf(f) == LET sum[i \in 0..Len(f)] == IF i = 0 THEN 0 ELSE sum[i - 1] + f[i]
            IN  sum[Len(f)]

\* readCentralDatasetSize: heap and indexes of every relation of the schema.
PhysicalSize(c) ==
  IndexBytes * Cardinality(c.indexes)
    + SumOf([i \in DOMAIN BatchOf |->
               c.factor * BatchOf[i].rowBytes * Cardinality(c.rows[BatchOf[i].table])])

NearTarget(size) == size * 100 >= TargetBytes * 95
RowsBeforeTarget(b) == (TargetBytes - init.size) \div (b.rowBytes * SizeFactor)

---------------------------------------------------------------------------
(* commandInit up to the mutation, and the ownership of the schema. *)

\* An init that commandInit refuses (capacity, data.reuse_existing) does not start.
StartInit ==
  /\ init.pc \in Resting
  /\ init' = [Fresh EXCEPT !.pc = "schema"]
  /\ UNCHANGED catalog

FindSchema ==
  /\ At("schema")
  /\ init' = [init EXCEPT !.pc = IF catalog.owner = "none" THEN "create" ELSE "bootstrap"]
  /\ UNCHANGED catalog

\* A failed CREATE SCHEMA that finds the schema there counts it as pre-existing.
CreateSchema ==
  /\ At("create")
  /\ \/ /\ catalog.owner = "none"
        /\ catalog' = [catalog EXCEPT !.owner = "gsbench"]
        /\ \E reply \in BOOLEAN :
             init' = [init EXCEPT !.pc = "bootstrap", !.created = reply]
     \/ catalog.owner = "none" /\ Fail /\ UNCHANGED catalog
     \/ /\ catalog.owner # "none"
        /\ init' = [init EXCEPT !.pc = "bootstrap"]
        /\ UNCHANGED catalog

FindMarker ==
  /\ At("bootstrap")
  /\ \/ ~catalog.meta /\ ~init.created /\ Fail /\ UNCHANGED catalog
     \/ /\ ~catalog.meta /\ init.created
        /\ Statement([catalog EXCEPT !.meta = TRUE], [init EXCEPT !.pc = "mark"])
     \/ catalog.meta /\ catalog.marker \notin TrustedVersions /\ Fail /\ UNCHANGED catalog
     \/ /\ catalog.meta /\ catalog.marker \in TrustedVersions
        /\ init' = [init EXCEPT !.pc = "tables"]
        /\ UNCHANGED catalog

MarkOwned ==
  /\ At("mark")
  /\ Statement([catalog EXCEPT !.marker = CurrentVersion], [init EXCEPT !.pc = "tables"])

\* Tables and columns that are missing; each statement can be repeated.
EnsureTables ==
  /\ At("tables")
  /\ Statement([catalog EXCEPT !.tables = TRUE], [init EXCEPT !.pc = "migrate"])

---------------------------------------------------------------------------
(* Migrations of plan_data: an UPDATE, then its mark replaced in two statements. *)

Moved(c, m, ids) ==
  IF m = "plan_data_v2_columns" THEN [c EXCEPT !.v2 = @ \cup ids]
                                ELSE [c EXCEPT !.v3 = @ \cup ids]

MigrationEnd == LET end == catalog.high["plan_data"]
                    last == catalog.migrated[init.migration] + MigrationBatch
                IN  IF last < end THEN last ELSE end

UpdateRows ==
  /\ At("migrate") /\ catalog.migrated[init.migration] < catalog.high["plan_data"]
  /\ Statement(Moved(catalog, init.migration,
                     (catalog.migrated[init.migration] + 1)..MigrationEnd),
               [init EXCEPT !.pc = "unmark", !.start = MigrationEnd,
                            !.changed = @ \cup {"plan_data"}])

RemoveMark ==
  /\ At("unmark")
  /\ Statement([catalog EXCEPT !.migrated[init.migration] = 0], [init EXCEPT !.pc = "remark"])

InsertMark ==
  /\ At("remark")
  /\ Statement([catalog EXCEPT !.migrated[init.migration] = init.start],
               [init EXCEPT !.pc = "migrate"])

EndMigration ==
  /\ At("migrate") /\ catalog.migrated[init.migration] >= catalog.high["plan_data"]
  /\ init' = IF init.migration = "plan_data_v2_columns"
             THEN [init EXCEPT !.migration = "plan_data_v3_stats_target"]
             ELSE [init EXCEPT !.pc = "converge"]
  /\ UNCHANGED catalog

\* The columns become NOT NULL: the server refuses while a row lacks a value.
ConvergePlanData ==
  /\ At("converge")
  /\ IF catalog.rows["plan_data"] \subseteq catalog.v2
     THEN Statement(catalog, [init EXCEPT !.pc = "sample"])
     ELSE Fail /\ UNCHANGED catalog

---------------------------------------------------------------------------
(* The load: one batch, its mark and a size sample at a time. *)

FirstSample ==
  /\ At("sample")
  /\ \E inspect \in BOOLEAN :
       LET size == IF inspect THEN PhysicalSize(catalog) ELSE 0
       IN  init' = [init EXCEPT !.pc = "load", !.inspect = inspect, !.size = size,
                                !.stop = inspect /\ NearTarget(size),
                                !.queue = DOMAIN BatchOf, !.sorted = inspect]
  /\ UNCHANGED catalog

Table == BatchOf[FirstOf(init.queue, init.sorted)]
Rest == init.queue \ {FirstOf(init.queue, init.sorted)}

SkipTable ==
  /\ At("load") /\ init.queue # {}
  /\ catalog.high[Table.table] >= Table.rows \/ (Table.weight > 0 /\ init.stop)
  /\ init' = [init EXCEPT !.queue = Rest]
  /\ UNCHANGED catalog

OpenTable ==
  /\ At("load") /\ init.queue # {}
  /\ catalog.high[Table.table] < Table.rows
  /\ Table.weight = 0 \/ ~init.stop
  /\ init' = [init EXCEPT !.pc = "batch", !.start = catalog.high[Table.table] + 1]
  /\ UNCHANGED catalog

SizeStops == /\ init.inspect
             /\ \/ init.size >= TargetBytes
                \/ Table.weight > 0 /\ NearTarget(init.size)
                \/ RowsBeforeTarget(Table) <= 0

CloseTable ==
  /\ At("batch") /\ (SizeStops \/ init.start > Table.rows)
  /\ init' = [init EXCEPT !.pc = "load", !.queue = Rest,
                          !.stop = @ \/ (init.start <= Table.rows)]
  /\ UNCHANGED catalog

BatchEnd ==
  LET last == init.start + Table.size - 1
      whole == IF last < Table.rows THEN last ELSE Table.rows
      room == init.start + RowsBeforeTarget(Table) - 1
  IN  IF init.inspect /\ room < whole THEN room ELSE whole

\* Mutant: the mark is the table's target, not the last row of the batch.
MarkedAtTarget(t, first, last) ==
  LET b == CHOOSE b \in {BatchOf[i] : i \in DOMAIN BatchOf} : b.table = t
  IN  [catalog EXCEPT !.rows[t] = @ \cup (first..last), !.high[t] = b.rows]

\* ApplyDatasetBatch: the rows and their mark in one transaction.  New rows of
\* plan_data have every column.
WithBatch(t, first, last) ==
  LET moved == IF t = "plan_data" THEN first..last ELSE {}
  IN  [catalog EXCEPT !.rows[t] = @ \cup (first..last), !.high[t] = last,
                      !.v2 = @ \cup moved, !.v3 = @ \cup moved]

\* The primary key refuses a row that is already there.
Insertable(t, first, last) == catalog.rows[t] \cap (first..last) = {}

NextBatchStart(b) == b + 1

LoadBatch ==
  /\ At("batch") /\ ~SizeStops /\ init.start <= Table.rows
  /\ IF ~Insertable(Table.table, init.start, BatchEnd) THEN Fail /\ UNCHANGED catalog
     ELSE \E sampled \in BOOLEAN :
            LET loaded == WithBatch(Table.table, init.start, BatchEnd)
                inspect == init.inspect /\ sampled
                size == IF inspect THEN PhysicalSize(loaded) ELSE init.size
            IN  Statement(loaded,
                          [init EXCEPT !.start = NextBatchStart(BatchEnd), !.size = size,
                                       !.inspect = inspect,
                                       !.stop = @ \/ (inspect /\ NearTarget(size)),
                                       !.changed = @ \cup {Table.table}])

EndLoad ==
  /\ At("load") /\ init.queue = {}
  /\ init' = [init EXCEPT !.pc = "index"]
  /\ UNCHANGED catalog

---------------------------------------------------------------------------
(* Indexes, calibration, statistics and the version. *)

BuildIndex ==
  /\ At("index") /\ catalog.indexes # SecondaryIndexes
  /\ LET next == IF "secondary" \in catalog.indexes THEN "post_migration" ELSE "secondary"
         built == [catalog EXCEPT !.indexes = @ \cup {next}]
     IN  \E sampled \in BOOLEAN :
           Statement(built, [init EXCEPT !.inspect = @ /\ sampled,
                                         !.size = IF init.inspect /\ sampled
                                                  THEN PhysicalSize(built) ELSE @])

EndIndexes ==
  /\ At("index") /\ catalog.indexes = SecondaryIndexes
  /\ init' = [init EXCEPT !.pc = IF init.inspect THEN "calibrate" ELSE "analyze"]
  /\ UNCHANGED catalog

TotalWeight == SumOf([i \in DOMAIN BatchOf |-> BatchOf[i].weight])

CalibrationNeeded ==
  /\ init.round <= 3
  /\ init.size * 100 < TargetBytes * 90
  /\ TotalWeight > 0

OpenRound ==
  /\ At("calibrate")
  /\ init' = IF CalibrationNeeded
             THEN [init EXCEPT !.pc = "round", !.queue = Weighted,
                               !.deficit = (TargetBytes * 95) \div 100 - init.size]
             ELSE [init EXCEPT !.pc = "analyze"]
  /\ UNCHANGED catalog

RoundEnds == init.queue = {} \/ NearTarget(init.size) \/ RowsBeforeTarget(Table) <= 0

CloseRound ==
  /\ At("round") /\ RoundEnds
  /\ init' = [init EXCEPT !.pc = "calibrate", !.round = @ + 1]
  /\ UNCHANGED catalog

\* Rows of the weighted table that close its share of the deficit.
RowDeficit ==
  LET share == ((init.deficit * Table.weight) \div TotalWeight) \div Table.rowBytes
      least == IF share < 1 THEN 1 ELSE share
      batch == IF least > Table.size THEN Table.size ELSE least
  IN  IF batch > RowsBeforeTarget(Table) THEN RowsBeforeTarget(Table) ELSE batch

\* A failed batch ends the calibration, not the init; a failed sample reads as 0.
GrowTable ==
  /\ At("round") /\ ~RoundEnds
  /\ LET first == catalog.high[Table.table] + 1
         grown == WithBatch(Table.table, first, catalog.high[Table.table] + RowDeficit)
     IN  \/ /\ Insertable(Table.table, first, first + RowDeficit - 1)
            /\ catalog' = grown
            /\ \/ init' = [init EXCEPT !.size = PhysicalSize(grown), !.queue = Rest,
                                       !.changed = @ \cup {Table.table}]
               \/ init' = [init EXCEPT !.pc = "analyze", !.size = 0,
                                       !.changed = @ \cup {Table.table}]
         \/ catalog' \in {catalog, grown} /\ init' = [init EXCEPT !.pc = "analyze"]

AnalyzeChanged ==
  /\ At("analyze")
  /\ Statement(catalog, [init EXCEPT !.pc = "version"])

RecordVersion ==
  /\ At("version")
  /\ Statement([catalog EXCEPT !.marker = CurrentVersion], [init EXCEPT !.pc = "done"])

InitStep ==
  \/ FindSchema \/ CreateSchema \/ FindMarker \/ MarkOwned \/ EnsureTables
  \/ UpdateRows \/ RemoveMark \/ InsertMark \/ EndMigration \/ ConvergePlanData
  \/ FirstSample \/ SkipTable \/ OpenTable \/ CloseTable \/ LoadBatch \/ EndLoad
  \/ BuildIndex \/ EndIndexes \/ OpenRound \/ CloseRound \/ GrowTable
  \/ AnalyzeChanged \/ RecordVersion

---------------------------------------------------------------------------
(* Around it: others create the schema, gsbench drops a dataset it owns. *)

\* Another user's schema, with or without a table of the same name; or the
\* dataset of an older gsbench.  The cost of a row is the server's.
SchemaAppears ==
  /\ catalog.owner = "none"
  /\ \/ \E meta \in BOOLEAN :
          catalog' = [catalog EXCEPT !.owner = "other", !.meta = meta]
     \/ init.pc \in Resting /\ catalog' = [LegacySchema EXCEPT !.factor = catalog.factor]
     \/ init.pc \in Resting /\ \E f \in RowFactors : catalog' = [catalog EXCEPT !.factor = f]
  /\ UNCHANGED init

CleanupData ==
  /\ init.pc \in Resting
  /\ catalog.meta /\ catalog.marker \in TrustedVersions
  /\ catalog' = NoSchema
  /\ UNCHANGED init

DatasetNext == StartInit \/ InitStep \/ SchemaAppears \/ CleanupData
DatasetSpec == DatasetInit /\ [][DatasetNext]_datasetVars

---------------------------------------------------------------------------
DatasetTypeOK ==
  /\ catalog.owner \in {"none", "gsbench", "other"}
  /\ catalog.marker \in TrustedVersions \cup {"none"}
  /\ \A t \in DatasetTables : catalog.high[t] \in Nat /\ catalog.rows[t] \subseteq Nat
  /\ init.pc \in Resting \cup {"schema", "create", "bootstrap", "mark", "tables", "migrate",
                               "unmark", "remark", "converge", "sample", "load", "batch",
                               "index", "calibrate", "round", "analyze", "version"}

\* A table holds exactly the rows its high-water mark counts, wherever an init
\* stopped: a resumed init loads no row twice and skips none (ApplyDatasetBatch,
\* Init's resume from BatchHighWater).
MarksAreRows == \A t \in DatasetTables : catalog.rows[t] = 1..catalog.high[t]

\* A dataset that says it has the current version has no row an older version
\* wrote and no migration changed, whatever interrupted the migrations (migrate,
\* recordHighWater, RecordDatasetVersion).
VersionMeansMigrated ==
  catalog.marker = CurrentVersion => catalog.rows["plan_data"] \subseteq catalog.v2 \cap catalog.v3

\* A batch chosen from a size sample does not carry the dataset over its target, as
\* long as a row costs at most the prospective factor (Init's and calibrateDataset's
\* rowsBeforeTarget).
LoadKeepsTarget ==
  [][ /\ init.inspect /\ init.pc \in {"batch", "round"}
      /\ catalog.factor <= SizeFactor
      /\ PhysicalSize(catalog) <= TargetBytes
      => PhysicalSize(catalog') <= TargetBytes ]_datasetVars

\* Nothing is ever written into, marked in or dropped with a schema another user
\* created, the one created between init's check and its CREATE SCHEMA included.
ForeignUntouched == [][catalog.owner = "other" => catalog' = catalog]_datasetVars

\* A table whose load goes on has come at least one row further: the room left never
\* makes a batch empty, which would repeat for ever (Init's batch loop).
LoadAdvances ==
  [][init.pc = "batch" /\ init'.pc = "batch" => init'.start > init.start]_datasetVars

\* What an init promises, wherever it and the ones before it stopped: marks
\* that count the rows, a version only after its migrations, a load that keeps
\* its target and moves on, and a foreign schema left alone.
DatasetSafety ==
  /\ [](DatasetTypeOK /\ MarksAreRows /\ VersionMeansMigrated)
  /\ LoadKeepsTarget
  /\ ForeignUntouched
  /\ LoadAdvances
=============================================================================
