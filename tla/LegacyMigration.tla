--------------------------- MODULE LegacyMigration ---------------------------
(* Tables an older gsbench left, brought to the current shape at every init:  *)
(* MigrateLegacyDatasetObject reads the columns, screens the rows, makes a    *)
(* list of statements from what it read and runs them one by one, outside any *)
(* transaction.  It may stop after any of them, and the next init makes its   *)
(* list from the columns it finds then.                                       *)
EXTENDS Naturals, Sequences, SequencesExt

CONSTANT LegacyFields  \* formal columns: [new, old], old = NoSource if it has none

NoSource == ""

\* No two columns of a table have one name.
ASSUME LegacyAssumption ==
  /\ LegacyFields \in Seq([new : STRING, old : STRING])
  /\ \A i, j \in DOMAIN LegacyFields : LegacyFields[i].new = LegacyFields[j].new => i = j

LegacyTables == {"meta_journal", "meta_batches", "meta_plan_cache"}

\* The batches get two columns, filled from one that stays and with zero; in the
\* plan cache the scenario's code replaces its name.
FieldsOf(name) ==
  CASE name = "meta_journal" -> LegacyFields
    [] name = "meta_batches" -> << [new |-> "target_rows", old |-> NoSource],
                                   [new |-> "estimated_row_bytes", old |-> NoSource] >>
    [] OTHER                 -> << [new |-> "scenario_code", old |-> "scenario"] >>

VARIABLES relation,  \* the table: columns, what the formal ones hold, its key
          remaining, \* the statements left of the current init
          torn       \* history: columns an init that stopped left added, not required
legacyVars == <<relation, remaining, torn>>

\* held: "absent", "null", the old column's value or a default.  The batches have
\* their key already.
LegacyRelation(name) ==
  LET fields == ToSet(FieldsOf(name))
  IN  [name |-> name, screened |-> FALSE,
       columns |-> {f.old : f \in fields} \ {NoSource},
       held |-> [c \in {f.new : f \in fields} |-> "absent"],
       required |-> {},
       key |-> IF name = "meta_batches" THEN "new" ELSE "old"]

LegacyInit ==
  /\ relation = LegacyRelation("meta_journal")
  /\ remaining = << >> /\ torn = {}

---------------------------------------------------------------------------
Has(c) == relation.held[c] # "absent"
When(condition, statements) == IF condition THEN statements ELSE << >>

\* The expression is chosen when the list is made: the old column if it is there.
Source(f) == IF f.old \in relation.columns THEN "legacy" ELSE "default"

\* ADD COLUMN and UPDATE ... WHERE ... IS NULL of each field, before any other.
Filling(fields) ==
  FlattenSeq([i \in DOMAIN fields |->
    LET f == fields[i]
    IN  When(~Has(f.new), << <<"add", f.new>> >>) \o << <<"fill", f.new, Source(f)>> >>])

Requiring(fields) == [i \in DOMAIN fields |-> <<"not null", fields[i].new>>]

\* The journal's old key is dropped and the new one added; the plan cache swaps its
\* key in one statement.
Rekeying ==
  CASE relation.key = "new" -> << >>
    [] relation.key = "old" /\ relation.name = "meta_journal"
                            -> << <<"drop key">>, <<"add key">> >>
    [] OTHER                -> << <<"add key">> >>

Dropping(fields) ==
  FlattenSeq([i \in DOMAIN fields |->
    When(fields[i].old \in relation.columns, << <<"drop", fields[i].old>> >>)])

\* A column of the batches is added, filled and required only while it is missing:
\* one that is there is taken for done.
Completing(c) ==
  When(~Has(c), << <<"add", c>>, <<"fill", c, "default">>, <<"not null", c>> >>)

CompletingBatches == Completing("target_rows") \o Completing("estimated_row_bytes")

\* Mutant: the old columns go before their values are copied.
DroppingFirst ==
  LET fields == FieldsOf(relation.name)
  IN  IF relation.name = "meta_batches" THEN CompletingBatches
      ELSE Dropping(fields) \o Filling(fields) \o Requiring(fields) \o Rekeying

LegacyStatements ==
  LET fields == FieldsOf(relation.name)
  IN  IF relation.name = "meta_batches" THEN CompletingBatches
      ELSE Filling(fields) \o Requiring(fields) \o Rekeying \o Dropping(fields)

\* A table of an older gsbench.  Rows of the journal or the plan cache that hold a
\* credential or name no known scenario stop every init before it changes the table.
ScreenLegacy ==
  /\ ~relation.screened
  /\ \E name \in LegacyTables :
       relation' = [LegacyRelation(name) EXCEPT !.screened = TRUE]
  /\ UNCHANGED <<remaining, torn>>

MigrateLegacy ==
  /\ remaining = << >> /\ relation.screened
  /\ remaining' = LegacyStatements \o << <<"end">> >>
  /\ UNCHANGED <<relation, torn>>

Filled(c, value) == IF relation.held[c] = "null" THEN [relation EXCEPT !.held[c] = value]
                                                 ELSE relation

Executed(s) ==
  CASE s[1] = "add"      -> [relation EXCEPT !.held[s[2]] = "null"]
    [] s[1] = "fill"     -> Filled(s[2], s[3])
    [] s[1] = "not null" -> [relation EXCEPT !.required = @ \cup {s[2]}]
    [] s[1] = "drop key" -> [relation EXCEPT !.key = "none"]
    [] s[1] = "add key"  -> [relation EXCEPT !.key = "new"]
    [] s[1] = "drop"     -> [relation EXCEPT !.columns = @ \ {s[2]}]
    [] OTHER             -> relation

Refused(s) == s[1] = "not null" /\ relation.held[s[2]] = "null"

Unfinished(r) == {c \in DOMAIN r.held : r.held[c] # "absent"} \ r.required

\* A statement runs; or it fails, its reply is lost or the process dies: the init ends.
ExecuteLegacy ==
  /\ remaining # << >>
  /\ \/ /\ ~Refused(Head(remaining))
        /\ relation' = Executed(Head(remaining)) /\ remaining' = Tail(remaining)
        /\ UNCHANGED torn
     \/ /\ \/ UNCHANGED relation
           \/ ~Refused(Head(remaining)) /\ relation' = Executed(Head(remaining))
        /\ remaining' = << >>
        /\ torn' = torn \cup Unfinished(relation')

LegacyNext == ScreenLegacy \/ MigrateLegacy \/ ExecuteLegacy
LegacySpec == LegacyInit /\ [][LegacyNext]_legacyVars

---------------------------------------------------------------------------
LegacyTypeOK ==
  /\ relation.name \in LegacyTables /\ relation.key \in {"old", "none", "new"}
  /\ \A c \in DOMAIN relation.held : relation.held[c] \in {"absent", "null", "legacy", "default"}

\* No value of an old column is lost, wherever the inits stopped: a column that is
\* gone has left its value in the formal one (legacyJournalMigrationStatements,
\* legacyPlanCacheMigrationStatements).
LegacyValuesKept ==
  \A f \in ToSet(FieldsOf(relation.name)) :
    f.old # NoSource /\ f.old \notin relation.columns => relation.held[f.new] = "legacy"

\* An init that ran to its end leaves the current shape: every column required, the
\* key replaced, the old columns gone (validateDatasetObjectContract's table shape),
\* wherever earlier ones stopped; but for a column of the batches that an earlier
\* init had added when it stopped, which no later one finishes.
MigratedIsCurrent ==
  remaining = << <<"end">> >>
    => /\ relation.key = "new"
       /\ \A f \in ToSet(FieldsOf(relation.name)) :
            /\ f.old \notin relation.columns
            /\ \/ f.new \in relation.required
               \/ relation.name = "meta_batches" /\ f.new \in torn

\* What the migration of a table of an older gsbench promises: no old value
\* lost, and at its end the current shape, but for torn columns of the batches.
LegacySafety ==
  /\ LegacyTypeOK
  /\ LegacyValuesKept
  /\ MigratedIsCurrent
=============================================================================
