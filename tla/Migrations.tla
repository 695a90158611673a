------------------------------ MODULE Migrations ------------------------------
(***************************************************************************)
(* Database.run_migrations and the scripts of src/backend/migrations.      *)
(*                                                                         *)
(* executescript runs a script statement by statement, each committed by   *)
(* itself, and a second statement records the script in the table          *)
(* migrations.  CREATE ... IF NOT EXISTS may run again; ALTER TABLE ADD    *)
(* COLUMN raises when the column is there.  An exception ends the startup, *)
(* and whoever supervises the process starts it again.                     *)
(***************************************************************************)
EXTENDS Integers

CONSTANTS
    Last,           \* the migrations are 1..Last, in the order of their names
    Length,         \* Length[m]: the statements of script m
    Alters,         \* <<m, k>>: statement k of script m is an ALTER TABLE
    MaxCrashes      \* bound: crashes

ASSUME ScriptAssumption ==
    /\ Last \in Nat /\ MaxCrashes \in Nat
    /\ Length \in [1..Last -> Nat \ {0}]
    /\ Alters \subseteq (1..Last) \X Nat

VARIABLES
    schema,     \* statements whose effect is in the database file
    recorded,   \* rows of the table migrations
    pc,         \* "down", "check", "script", "record", "up", "failed"
    cur,        \* the migration run_migrations is at
    line,       \* the statement of its script that comes next
    crashes

migrationVars == <<schema, recorded, pc, cur, line, crashes>>

Script(m) == {<<m, k>> : k \in 1..Length[m]}

MigrationInit ==
    /\ schema = {} /\ recorded = {}
    /\ pc = "down" /\ cur = 1 /\ line = 1 /\ crashes = 0

(* startup_event: Database() and run_migrations, again after a failure *)
BeginStartup ==
    /\ pc \in {"down", "failed"}
    /\ pc' = "check" /\ cur' = 1 /\ line' = 1
    /\ UNCHANGED <<schema, recorded, crashes>>

(* SELECT * FROM migrations WHERE name = ?; past the last, the startup goes
   on.                                                                      *)
CheckScript ==
    /\ pc = "check"
    /\ IF cur > Last THEN pc' = "up" /\ UNCHANGED <<cur, line>>
       ELSE IF cur \in recorded
       THEN cur' = cur + 1 /\ line' = 1 /\ UNCHANGED pc
       ELSE pc' = "script" /\ line' = 1 /\ UNCHANGED cur
    /\ UNCHANGED <<schema, recorded, crashes>>

(* Mutant of RunStatement: a CREATE that runs again raises too, as without IF
   NOT EXISTS.                                                              *)
RunStatementStrict ==
    /\ pc = "script"
    /\ schema' = schema \cup {<<cur, line>>}
    /\ pc' = IF <<cur, line>> \in schema THEN "failed"
             ELSE IF line < Length[cur] THEN pc ELSE "record"
    /\ line' = IF line < Length[cur] /\ pc' = "script" THEN line + 1 ELSE line
    /\ UNCHANGED <<recorded, cur, crashes>>

(* One statement of executescript, and its commit *)
RunStatement ==
    /\ pc = "script"
    /\ IF <<cur, line>> \in schema \cap Alters
       THEN pc' = "failed" /\ UNCHANGED <<schema, line>>
       ELSE /\ schema' = schema \cup {<<cur, line>>}
            /\ IF line < Length[cur] THEN line' = line + 1 /\ UNCHANGED pc
                                     ELSE pc' = "record" /\ UNCHANGED line
    /\ UNCHANGED <<recorded, cur, crashes>>

(* Mutant of RecordScript: the record is written and the next script is skipped. *)
RecordSkipping ==
    /\ pc = "record"
    /\ recorded' = recorded \cup {cur}
    /\ cur' = IF cur < Last THEN cur + 2 ELSE cur + 1
    /\ line' = 1 /\ pc' = "check"
    /\ UNCHANGED <<schema, crashes>>

(* INSERT INTO migrations *)
RecordScript ==
    /\ pc = "record"
    /\ recorded' = recorded \cup {cur}
    /\ cur' = cur + 1 /\ line' = 1 /\ pc' = "check"
    /\ UNCHANGED <<schema, crashes>>

ServerDies ==
    /\ pc # "down" /\ crashes < MaxCrashes
    /\ crashes' = crashes + 1
    /\ pc' = "down"
    /\ UNCHANGED <<schema, recorded, cur, line>>

Startup == BeginStartup \/ CheckScript \/ RunStatement \/ RecordScript
MigrationNext == Startup \/ ServerDies
MigrationSpec == MigrationInit /\ [][MigrationNext]_migrationVars

(* The startup runs on; the process is started again whenever it ended. *)
MigrationFairSpec == MigrationSpec /\ WF_migrationVars(Startup)

-----------------------------------------------------------------------------
(* Properties *)

MigrationTypeOK ==
    /\ schema \subseteq UNION {Script(m) : m \in 1..Last}
    /\ recorded \subseteq 1..Last
    /\ pc \in {"down", "check", "script", "record", "up", "failed"}
    /\ cur \in 1..(Last + 1)
    /\ line \in Nat
    /\ crashes \in Nat

(* However crashes and restarts fall, what the table migrations says is so:
   a recorded script has run to its end; no statement of a script has run
   before every earlier script was recorded; and the server that is up has
   the whole schema.                                                        *)
RecordTruthful ==
    /\ \A m \in recorded : Script(m) \subseteq schema
    /\ \A x \in schema : \A m \in 1..(x[1] - 1) : m \in recorded
    /\ pc = "up" => \A m \in 1..Last : Script(m) \subseteq schema

(* A startup fails only over the remains of an interrupted one: a failure
   takes a crash after an ALTER and before the record of its script, and the
   script it names is the first one not recorded.                           *)
FailureExplained ==
    pc = "failed" =>
        /\ crashes > 0
        /\ cur \notin recorded /\ \A m \in 1..(cur - 1) : m \in recorded
        /\ <<cur, line>> \in schema \cap Alters

(* Strengthening for both: where in the order of the scripts the startup is *)
Progress ==
    /\ \A m \in recorded : Script(m) \subseteq schema
    /\ \A x \in schema : \A m \in 1..(x[1] - 1) : m \in recorded
    /\ pc # "down" => \A m \in 1..(cur - 1) : m \in recorded
    /\ pc \in {"script", "record", "failed"} => cur \in 1..Last \ recorded
    /\ pc = "script" => line \in 1..Length[cur] /\
                        \A k \in 1..(line - 1) : <<cur, k>> \in schema
    /\ pc = "record" => Script(cur) \subseteq schema
    /\ pc = "up" => cur = Last + 1
    /\ (crashes = 0 /\ pc # "record") =>
          \A x \in schema : x[1] \in recorded \/
                            (pc = "script" /\ x[1] = cur /\ x[2] < line)
    /\ pc = "failed" => crashes > 0 /\ <<cur, line>> \in schema \cap Alters

(* "Run all migrations in order" (db.py:94): sooner or later a startup does,
   crashes or not.                                                          *)
EventuallyMigrated == <>(\A m \in 1..Last : m \in recorded)

=============================================================================
