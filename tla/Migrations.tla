----------------------------- MODULE Migrations -----------------------------
(***************************************************************************)
(* Database migrations (crates/ricochet_cli/src/lib.rs: migrate_apply,     *)
(* migrate_rollback and the launch of a packaged application, with         *)
(* apply_migration and rollback_migration of active_record.rs).            *)
(*                                                                         *)
(* Processes run against one database, each with the migration files of    *)
(* its own checkout.  apply and rollback read schema_migrations once, when *)
(* they start; a packaged launch looks at it again for each migration, in  *)
(* the transaction that applies it.  A migration's SQL and the row that    *)
(* records it are one transaction, except that MySQL commits DDL at once.  *)
(*                                                                         *)
(* Versions are numbers in the order of their names.  Assumed of the       *)
(* project's SQL: down undoes what up did, and fails or does nothing when  *)
(* there is nothing to undo.                                               *)
(***************************************************************************)
EXTENDS Integers, FiniteSets, FiniteSetsExt

CONSTANTS
    Migrators,         \* processes that run migration commands
    MaxVersion,        \* bound: versions there are files for
    MigrationAdapters, \* databases to check; "packaged" is a packaged SQLite
    Repeatable,        \* versions whose up SQL succeeds when it runs again
    MaxCommands        \* bound: commands ever run

ASSUME MigrationAssumption ==
    /\ IsFiniteSet(Migrators) /\ {MaxVersion, MaxCommands} \subseteq Nat
    /\ MigrationAdapters \subseteq {"sqlite", "postgres", "mysql", "packaged"}
    /\ Repeatable \subseteq 1 .. MaxVersion
    /\ "nobody" \notin Migrators

Migrated == 1 .. MaxVersion
Nobody == "nobody"

VARIABLES
    target,    \* the database's adapter
    recorded,  \* the versions in schema_migrations
    inForce,   \* how often each version's up has taken effect, not undone
    writeLock, \* SQLite: the process whose immediate transaction is open
    command,   \* each process: its command, files, the versions it has yet to
               \* do, and the step it is in for the first of them
    commands   \* how many commands were run

migrationVars == <<target, recorded, inForce, writeLock, command, commands>>

Finished == [name |-> "none", files |-> {}, todo |-> {}, step |-> "idle"]

MigrationInit ==
    /\ target \in MigrationAdapters
    /\ recorded = {}
    /\ inForce = [v \in Migrated |-> 0]
    /\ writeLock = Nobody
    /\ command = [p \in Migrators |-> Finished]
    /\ commands = 0

-----------------------------------------------------------------------------
(* Starting a command: discover_migrations, the table, the applied versions *)

StartCommand(p, name, files, todo) ==
    /\ command[p] = Finished /\ commands < MaxCommands
    /\ todo # {}
    /\ commands' = commands + 1
    /\ command' = [command EXCEPT ![p] =
                      [name |-> name, files |-> files, todo |-> todo, step |-> "next"]]
    /\ UNCHANGED <<target, recorded, inForce, writeLock>>

MigrateApply(p, files) ==
    target # "packaged" /\ StartCommand(p, "apply", files, files \ recorded)

(* files are the versions that have a down file.                           *)
MigrateRollback(p, files, steps) ==
    /\ target # "packaged"
    /\ StartCommand(p, "rollback", files,
                    {v \in recorded : Cardinality({w \in recorded : w > v}) < steps})

(* prepare_packaged_mvc_sqlite                                             *)
LaunchPackaged(p, files) == target = "packaged" /\ StartCommand(p, "launch", files, files)

-----------------------------------------------------------------------------
(* One migration after the other *)

Doing(p, name) == command[p].name = name /\ command[p].todo # {}
Upward(p) == Min(command[p].todo)
Downward(p) == Max(command[p].todo)

(* The command after it is done with v                                     *)
Without(p, v) ==
    IF command[p].todo = {v} THEN Finished
    ELSE [command[p] EXCEPT !.todo = @ \ {v}, !.step = "next"]
Done(p, v) == command' = [command EXCEPT ![p] = Without(p, v)]

(* Mutant: "insert or replace" in a table without a primary key.           *)
RowAdded(v) == TRUE

(* The insert into schema_migrations: version is the primary key.          *)
MayRecord(v) == v \notin recorded

UpSucceeds(v) == inForce[v] = 0 \/ v \in Repeatable

(* The up SQL, the row and the commit; every failure rolls all back.       *)
Commits(p, v) ==
    /\ UpSucceeds(v) /\ MayRecord(v)
    /\ inForce' = [inForce EXCEPT ![v] = @ + 1]
    /\ recorded' = recorded \cup {v}
    /\ Done(p, v)

(* migrate_apply_sqlite, _postgres, _mysql: apply_migration                *)
ApplyMigration(p) ==
    /\ Doing(p, "apply") /\ command[p].step = "next"
    /\ Commits(p, Upward(p))
    /\ UNCHANGED <<target, writeLock, commands>>

(* Down on a migration that is not in force any more                       *)
Undone(v) == [inForce EXCEPT ![v] = IF @ > 0 THEN @ - 1 ELSE 0]

(* rollback_migration; deleting no row is no error.                        *)
RollbackMigration(p) ==
    /\ Doing(p, "rollback") /\ command[p].step = "next"
    /\ Downward(p) \in command[p].files
    /\ inForce' = Undone(Downward(p))
    /\ recorded' = recorded \ {Downward(p)}
    /\ Done(p, Downward(p))
    /\ UNCHANGED <<target, writeLock, commands>>

(* MySQL commits the DDL of a migration before its row is written.         *)
AutoCommit(p) ==
    /\ target = "mysql" /\ command[p].step = "next"
    /\ \/ /\ Doing(p, "apply") /\ UpSucceeds(Upward(p))
          /\ inForce' = [inForce EXCEPT ![Upward(p)] = @ + 1]
       \/ /\ Doing(p, "rollback") /\ Downward(p) \in command[p].files
          /\ inForce' = Undone(Downward(p))
    /\ command' = [command EXCEPT ![p].step = "committed"]
    /\ UNCHANGED <<target, recorded, writeLock, commands>>

WriteRow(p) ==
    /\ command[p].step = "committed"
    /\ \/ /\ Doing(p, "apply") /\ MayRecord(Upward(p))
          /\ recorded' = recorded \cup {Upward(p)} /\ Done(p, Upward(p))
       \/ /\ Doing(p, "rollback")
          /\ recorded' = recorded \ {Downward(p)} /\ Done(p, Downward(p))
    /\ UNCHANGED <<target, inForce, writeLock, commands>>

-----------------------------------------------------------------------------
(* migrate_apply_packaged_sqlite_at_path *)

(* TransactionBehavior::Immediate waits for the write lock.                *)
BeginImmediate(p) == writeLock = Nobody

(* The version is looked up in the transaction.                            *)
CheckApplied(p) ==
    /\ Doing(p, "launch") /\ command[p].step = "next"
    /\ BeginImmediate(p)
    /\ IF Upward(p) \in recorded
       THEN Done(p, Upward(p)) /\ UNCHANGED writeLock
       ELSE /\ command' = [command EXCEPT ![p].step = "applying"]
            /\ writeLock' = p
    /\ UNCHANGED <<target, recorded, inForce, commands>>

ApplyPackaged(p) ==
    /\ Doing(p, "launch") /\ command[p].step = "applying"
    /\ Commits(p, Upward(p))
    /\ writeLock' = Nobody
    /\ UNCHANGED <<target, commands>>

-----------------------------------------------------------------------------
(* SQL fails, a lock times out, a file is missing, the process is killed:  *)
(* the command ends where it is and its open transaction is rolled back.   *)
CommandFails(p) ==
    /\ command[p] # Finished
    /\ command' = [command EXCEPT ![p] = Finished]
    /\ writeLock' = IF writeLock = p THEN Nobody ELSE writeLock
    /\ UNCHANGED <<target, recorded, inForce, commands>>

MigrationNext == \E p \in Migrators :
    \/ \E files \in SUBSET Migrated :
          \/ MigrateApply(p, files) \/ LaunchPackaged(p, files)
          \/ \E steps \in 1 .. MaxVersion : MigrateRollback(p, files, steps)
    \/ ApplyMigration(p) \/ RollbackMigration(p) \/ AutoCommit(p) \/ WriteRow(p)
    \/ CheckApplied(p) \/ ApplyPackaged(p) \/ CommandFails(p)

MigrationSpec == MigrationInit /\ [][MigrationNext]_migrationVars

-----------------------------------------------------------------------------
(* Every variable has its type.                                            *)
MigrationTypeOK ==
    /\ target \in MigrationAdapters
    /\ recorded \subseteq Migrated /\ inForce \in [Migrated -> Nat]
    /\ writeLock \in Migrators \cup {Nobody}
    /\ command \in [Migrators -> [name : {"none", "apply", "rollback", "launch"},
                                  files : SUBSET Migrated, todo : SUBSET Migrated,
                                  step : {"idle", "next", "committed", "applying"}]]
    /\ commands \in 0 .. MaxCommands

(* Where a migration is one transaction, schema_migrations tells the truth *)
(* whatever commands run at the same time with whatever files, and         *)
(* wherever they fail: a version is recorded exactly when its up is in     *)
(* force, and it never takes effect twice.                                 *)
EffectsRecorded ==
    target # "mysql" => \A v \in Migrated : inForce[v] = IF v \in recorded THEN 1 ELSE 0

(* Packaged applications that start together do not trip over each other:  *)
(* one that found a migration missing can still record it.                 *)
LaunchesAgree ==
    \A p \in Migrators :
        command[p].step = "applying" => UpSucceeds(Upward(p)) /\ MayRecord(Upward(p))

(* Migrations that run at the same time leave a database that matches its  *)
(* table, and start every packaged application.                            *)
MigrationsTruthful == EffectsRecorded /\ LaunchesAgree

=============================================================================
