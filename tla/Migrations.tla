------------------------------ MODULE Migrations ------------------------------
(***************************************************************************)
(* The migration runner (apps/server/src/db/migrations.ts): db:migrate and *)
(* a server with DATABASE_MIGRATIONS_ON_START run it against one database, *)
(* with no lock between them.  Files are numbered in the order of their    *)
(* names.  A file's SQL and the row of schema_migrations that records it   *)
(* share a transaction; the SQL of this repository is CREATE ... IF NOT    *)
(* EXISTS throughout, so running it again succeeds.  Checksums are only    *)
(* reported, by db:status, and decide nothing.                             *)
(***************************************************************************)
EXTENDS Naturals, Sequences, FiniteSets

CONSTANTS
  Runners,     \* processes that may run runMigrations()
  Files        \* how many .sql files the directory holds

ASSUME MigrationsAssumption == Files \in Nat /\ IsFiniteSet(Runners)

VARIABLES
  schema,      \* the files whose SQL is committed, in the order of the commits
  catalog,     \* the versions recorded in schema_migrations
  runner       \* each run: where it stands, what it read as applied, its file

migrationVars == <<schema, catalog, runner>>

RunPhases == {"idle", "between", "transaction", "done", "failed"}
Waiting == [phase |-> "idle", applied |-> {}, file |-> 0]

InitMigrations ==
  /\ schema = <<>>
  /\ catalog = {}
  /\ runner = [r \in Runners |-> Waiting]

End(r, phase) == runner' = [runner EXCEPT ![r] = [Waiting EXCEPT !.phase = phase]]

(* The applied versions are read once, before the first transaction.       *)
ReadApplied(r) ==
  /\ runner[r].phase = "idle"
  /\ runner' = [runner EXCEPT ![r] = [phase |-> "between", applied |-> catalog, file |-> 0]]
  /\ UNCHANGED <<schema, catalog>>

Unapplied(r) == {f \in 1..Files : f > runner[r].file /\ f \notin runner[r].applied}
NextFile(r) == CHOOSE f \in Unapplied(r) : \A g \in Unapplied(r) : f <= g

(* BEGIN and the SQL of the file, which waits for a transaction that has   *)
(* created the same objects until it ends.                                 *)
Held(r, file) == \E other \in Runners \ {r} :
                   runner[other].phase = "transaction" /\ runner[other].file = file

BeginFile(r) ==
  /\ runner[r].phase = "between"
  /\ Unapplied(r) # {}
  /\ ~Held(r, NextFile(r))
  /\ runner' = [runner EXCEPT ![r].phase = "transaction", ![r].file = NextFile(r)]
  /\ UNCHANGED <<schema, catalog>>

(* The version is the primary key of schema_migrations: the row of a file  *)
(* somebody else has committed since is refused, and the run throws.       *)
NeverConflicts(r) == FALSE
RowConflicts(r) == runner[r].file \in catalog

Commit(r) ==
  /\ runner[r].phase = "transaction"
  /\ ~RowConflicts(r)
  /\ schema' = Append(schema, runner[r].file)
  /\ catalog' = catalog \cup {runner[r].file}
  /\ runner' = [runner EXCEPT ![r].phase = "between"]

LoseRace(r) ==
  /\ runner[r].phase = "transaction"
  /\ RowConflicts(r)
  /\ End(r, "failed")
  /\ UNCHANGED <<schema, catalog>>

(* Any statement may fail; the transaction rolls back and the run throws.  *)
Fail(r) ==
  /\ runner[r].phase \in {"idle", "between", "transaction"}
  /\ End(r, "failed")
  /\ UNCHANGED <<schema, catalog>>

Finish(r) ==
  /\ runner[r].phase = "between"
  /\ Unapplied(r) = {}
  /\ End(r, "done")
  /\ UNCHANGED <<schema, catalog>>

Migrate(r) ==
  ReadApplied(r) \/ BeginFile(r) \/ Commit(r) \/ LoseRace(r) \/ Fail(r) \/ Finish(r)

-----------------------------------------------------------------------------
(* Whatever runs of runMigrations() overlap, fail or are killed: each      *)
(* file's SQL is committed once, in the order of the names, together with  *)
(* its row, and a run that reports success leaves no file out.             *)
EachOnceInOrder == \A i \in DOMAIN schema : schema[i] = i
RecordedWithItsSql == catalog = {schema[i] : i \in DOMAIN schema}
SuccessIsComplete == \A r \in Runners : runner[r].phase = "done" => catalog = 1..Files
SchemaIsSound == EachOnceInOrder /\ RecordedWithItsSql /\ SuccessIsComplete
=============================================================================
