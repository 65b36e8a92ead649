--------------------------- MODULE HostWorkProofs ---------------------------
(***************************************************************************)
(* Theorems about Migrations, DatabaseSession, TaskRuntime and DebugSession:*)
(* work that many do at once, and that is done, counted and shown as often as*)
(* it was asked for.                                                       *)
(***************************************************************************)
EXTENDS Migrations, DatabaseSession, TaskRuntime, DebugSession, FiniteSetTheorems,
        WellFoundedInduction, TLAPS

-----------------------------------------------------------------------------
(***************************************************************************)
(* Migrations, for any number of migrators and versions.                   *)
(***************************************************************************)

(* A set of numbers that is not empty has a least one.                     *)
LEMMA LeastVersion ==
    ASSUME NEW S, S \subseteq Nat, S # {}
    PROVE  \E x \in S : \A y \in S : x <= y
  <1>1. PICK x \in S : \A y \in S : ~(<<y, x>> \in OpToRel(<, Nat))
    BY NatLessThanWellFounded, WFMin, Zenon
  <1>2. \A y \in S : ~(y < x)
    BY <1>1 DEF OpToRel
  <1>3. \A y \in S : y \in Nat /\ x \in Nat
    OBVIOUS
  <1>4. \A y \in S : x <= y
    BY <1>2, <1>3
  <1> QED BY <1>4

(* What Min and Max answer for a set of versions.                          *)
LEMMA MinMember ==
    ASSUME NEW S, S \subseteq Nat, S # {}
    PROVE  Min(S) \in S /\ \A y \in S : Min(S) <= y
  BY LeastVersion DEF Min

(* The maximum of a bounded set that is not empty is in it and above all.  *)
LEMMA MaxMember ==
    ASSUME NEW n \in Nat, NEW S, S \subseteq 0 .. n, S # {}
    PROVE  Max(S) \in S /\ \A y \in S : Max(S) >= y
  <1> DEFINE T == {k \in Nat : n - k \in S}
  <1>1. T \subseteq Nat /\ T # {}
    <2>1. PICK s \in S : TRUE
      OBVIOUS
    <2>2. n - s \in Nat /\ n - (n - s) = s
      BY <2>1
    <2> QED BY <2>1, <2>2
  <1>2. PICK k \in T : \A j \in T : k <= j
    BY <1>1, LeastVersion
  <1>3. n - k \in S
    BY <1>2
  <1>4. \A y \in S : n - y \in T /\ n - y \in Nat /\ y \in Nat
    OBVIOUS
  <1>5. \A y \in S : n - k >= y
    BY <1>2, <1>4
  <1>6. \E x \in S : \A y \in S : x >= y
    BY <1>3, <1>5
  <1> QED BY <1>6 DEF Max

-----------------------------------------------------------------------------
(* Which commands there are on which database, and how far they may be.    *)
CommandsInv ==
    \A p \in Migrators :
        /\ command[p].name \in {"apply", "rollback"} => target # "packaged"
        /\ command[p].name = "launch" => target = "packaged"
        /\ command[p].step = "committed" => target = "mysql"
        /\ command[p].step = "applying" => command[p].name = "launch" /\ command[p].todo # {}

(* A process that applies a migration has the write lock, and the version  *)
(* it looked up is not recorded.                                           *)
LockInv ==
    \A p \in Migrators :
        command[p].step = "applying" => writeLock = p /\ Upward(p) \notin recorded

(* The inductive invariant.                                                *)
MigrationInv == MigrationTypeOK /\ CommandsInv /\ LockInv /\ EffectsRecorded

(* The first and the last version that a command has yet to do.            *)
LEMMA TodoVersions ==
    ASSUME MigrationTypeOK, NEW p \in Migrators, command[p].todo # {}
    PROVE  Upward(p) \in Migrated /\ Downward(p) \in Migrated
  <1>1. command[p].todo \subseteq Migrated /\ MaxVersion \in Nat
    BY MigrationAssumption DEF MigrationTypeOK
  <1>2. command[p].todo \subseteq Nat /\ command[p].todo \subseteq 0 .. MaxVersion
    BY <1>1 DEF Migrated
  <1>3. Upward(p) \in command[p].todo
    BY <1>2, MinMember DEF Upward
  <1>4. Downward(p) \in command[p].todo
    BY <1>1, <1>2, MaxMember DEF Downward
  <1> QED BY <1>1, <1>3, <1>4

(* No command runs yet, nothing is recorded.                               *)
LEMMA InitMigrations == MigrationInit => MigrationInv
  BY MigrationAssumption DEF MigrationInit, MigrationInv, MigrationTypeOK, CommandsInv, LockInv,
     EffectsRecorded, Finished, Migrated

(* What a command of a migrator is.                                        *)
MigrationCommands == [name : {"none", "apply", "rollback", "launch"}, files : SUBSET Migrated,
                      todo : SUBSET Migrated, step : {"idle", "next", "committed", "applying"}]

(* A command that is done with a version goes on or ends.                  *)
LEMMA WithoutVersion ==
    ASSUME MigrationTypeOK, NEW p \in Migrators, NEW v
    PROVE  /\ Without(p, v) \in MigrationCommands
           /\ Without(p, v).name \in {"none", command[p].name}
           /\ Without(p, v).step \in {"idle", "next"}
  <1>1. command[p] \in MigrationCommands
    BY DEF MigrationTypeOK, MigrationCommands
  <1>2. Finished \in MigrationCommands /\ Finished.name = "none" /\ Finished.step = "idle"
    BY DEF Finished, MigrationCommands
  <1>3. CASE Without(p, v) = Finished
    BY <1>2, <1>3
  <1>4. CASE Without(p, v) = [command[p] EXCEPT !.todo = @ \ {v}, !.step = "next"]
    BY <1>1, <1>4 DEF MigrationCommands
  <1> QED BY <1>3, <1>4 DEF Without

(* A step that changes the command of p alone, and applies nothing, keeps  *)
(* what is known of the commands and the lock.                             *)
LEMMA CommandChanges ==
    ASSUME MigrationInv, NEW p \in Migrators, NEW c \in MigrationCommands,
           command' = [command EXCEPT ![p] = c], target' = target,
           c.name \in {"apply", "rollback"} => target # "packaged",
           c.name = "launch" => target = "packaged",
           c.step = "committed" => target = "mysql",
           c.step = "applying" => c.name = "launch" /\ c.todo # {},
           c.step = "applying" => writeLock' = p /\ Min(c.todo) \notin recorded',
           \A q \in Migrators : q # p /\ command[q].step = "applying" =>
               writeLock' = q /\ Upward(q) \notin recorded'
    PROVE  /\ command' \in [Migrators -> MigrationCommands]
           /\ CommandsInv' /\ LockInv'
  <1>1. /\ command'[p] = c /\ \A q \in Migrators : q # p => command'[q] = command[q]
        /\ command' \in [Migrators -> MigrationCommands]
    BY DEF MigrationInv, MigrationTypeOK, MigrationCommands
  <1>2. CommandsInv'
    BY <1>1 DEF MigrationInv, CommandsInv
  <1>3. LockInv'
    <2> SUFFICES ASSUME NEW q \in Migrators, command'[q].step = "applying"
                 PROVE  writeLock' = q /\ Min(command'[q].todo) \notin recorded'
      BY DEF LockInv, Upward
    <2>1. CASE q = p
      BY <2>1, <1>1
    <2>2. CASE q # p
      BY <2>2, <1>1 DEF Upward
    <2> QED BY <2>1, <2>2
  <1> QED BY <1>1, <1>2, <1>3

(* A command starts.                                                       *)
LEMMA StartKeeps ==
    ASSUME MigrationInv, NEW p \in Migrators, NEW files \in SUBSET Migrated,
           \/ MigrateApply(p, files) \/ LaunchPackaged(p, files)
           \/ \E steps \in 1 .. MaxVersion : MigrateRollback(p, files, steps)
    PROVE  MigrationInv'
  <1>a. MigrationTypeOK /\ CommandsInv /\ LockInv /\ EffectsRecorded
    BY DEF MigrationInv
  <1>b. PICK name \in {"apply", "rollback", "launch"}, todo \in SUBSET Migrated :
          /\ StartCommand(p, name, files, todo)
          /\ name \in {"apply", "rollback"} => target # "packaged"
          /\ name = "launch" => target = "packaged"
    <2>1. CASE MigrateApply(p, files)
      BY <2>1 DEF MigrateApply
    <2>2. CASE LaunchPackaged(p, files)
      BY <2>2 DEF LaunchPackaged
    <2>3. ASSUME NEW steps, MigrateRollback(p, files, steps)
          PROVE  \E todo \in SUBSET Migrated : StartCommand(p, "rollback", files, todo) /\ target # "packaged"
      <3>1. {v \in recorded : Cardinality({w \in recorded : w > v}) < steps} \in SUBSET Migrated
        BY <1>a DEF MigrationTypeOK
      <3> QED BY <2>3, <3>1 DEF MigrateRollback
    <2> QED BY <2>1, <2>2, <2>3
  <1> DEFINE c == [name |-> name, files |-> files, todo |-> todo, step |-> "next"]
  <1>c. c \in MigrationCommands /\ c.name = name /\ c.step = "next"
    BY DEF MigrationCommands
  <1>d. command' = [command EXCEPT ![p] = c] /\ UNCHANGED <<target, recorded, inForce, writeLock>>
        /\ commands' = commands + 1 /\ commands < MaxCommands
    BY <1>b DEF StartCommand
  <1> HIDE DEF c
  <1>1. command' \in [Migrators -> MigrationCommands] /\ CommandsInv' /\ LockInv'
    <2>1. \A q \in Migrators : q # p /\ command[q].step = "applying" =>
               writeLock' = q /\ Upward(q) \notin recorded'
      BY <1>a, <1>d DEF LockInv
    <2> QED BY <2>1, <1>b, <1>c, <1>d, CommandChanges
  <1>2. MigrationTypeOK'
    BY <1>1, <1>a, <1>d, MigrationAssumption DEF MigrationTypeOK, MigrationCommands
  <1>3. EffectsRecorded'
    BY <1>a, <1>d DEF EffectsRecorded
  <1> QED BY <1>1, <1>2, <1>3 DEF MigrationInv

(* What apply commits: on a database that no launch uses.                  *)
LEMMA ApplyKeeps ==
    ASSUME MigrationInv, NEW p \in Migrators, ApplyMigration(p) \/ ApplyPackaged(p)
    PROVE  MigrationInv'
  <1>a. MigrationTypeOK /\ CommandsInv /\ LockInv /\ EffectsRecorded
    BY DEF MigrationInv
  <1>b. PICK v : v = Upward(p)
    OBVIOUS
  <1>c. /\ command[p].todo # {} /\ v \notin recorded
        /\ inForce' = [inForce EXCEPT ![v] = @ + 1] /\ recorded' = recorded \cup {v}
        /\ command' = [command EXCEPT ![p] = Without(p, v)]
        /\ UNCHANGED <<target, commands>>
        /\ \/ command[p].name = "apply" /\ writeLock' = writeLock
           \/ command[p].step = "applying" /\ writeLock' = Nobody
    BY <1>b DEF ApplyMigration, ApplyPackaged, Doing, Commits, Done, MayRecord
  <1>d. v \in Migrated
    BY <1>a, <1>b, <1>c, TodoVersions
  <1>e. /\ Without(p, v) \in MigrationCommands
        /\ Without(p, v).name \in {"none", command[p].name}
        /\ Without(p, v).step \in {"idle", "next"}
    BY <1>a, WithoutVersion
  <1>f. \A q \in Migrators : q # p => command[q].step # "applying"
    <2>1. CASE command[p].name = "apply"
      BY <2>1, <1>a DEF CommandsInv
    <2>2. CASE command[p].step = "applying"
      BY <2>2, <1>a DEF LockInv
    <2> QED BY <2>1, <2>2, <1>c
  <1>1. command' \in [Migrators -> MigrationCommands] /\ CommandsInv' /\ LockInv'
    <2>1. Without(p, v).name \in {"apply", "rollback"} => target # "packaged"
      BY <1>a, <1>e DEF CommandsInv
    <2>2. Without(p, v).name = "launch" => target = "packaged"
      BY <1>a, <1>e DEF CommandsInv
    <2> QED BY <2>1, <2>2, <1>c, <1>e, <1>f, CommandChanges
  <1>2. inForce[v] \in Nat /\ inForce \in [Migrated -> Nat]
    BY <1>a, <1>d DEF MigrationTypeOK
  <1>3. MigrationTypeOK'
    <2>1. writeLock' \in Migrators \cup {Nobody}
      BY <1>a, <1>c DEF MigrationTypeOK
    <2> QED BY <2>1, <1>1, <1>2, <1>a, <1>c, <1>d DEF MigrationTypeOK, MigrationCommands
  <1>4. EffectsRecorded'
    <2> SUFFICES ASSUME target # "mysql", NEW w \in Migrated
                 PROVE  inForce'[w] = IF w \in recorded' THEN 1 ELSE 0
      BY <1>c DEF EffectsRecorded
    <2>1. CASE w = v
      BY <2>1, <1>a, <1>2, <1>c, <1>d DEF EffectsRecorded
    <2>2. CASE w # v
      BY <2>2, <1>a, <1>2, <1>c DEF EffectsRecorded
    <2> QED BY <2>1, <2>2
  <1> QED BY <1>1, <1>3, <1>4 DEF MigrationInv

(* Down and the row go together where a migration is one transaction.      *)
LEMMA RollbackKeeps ==
    ASSUME MigrationInv, NEW p \in Migrators, RollbackMigration(p)
    PROVE  MigrationInv'
  <1>a. MigrationTypeOK /\ CommandsInv /\ LockInv /\ EffectsRecorded
    BY DEF MigrationInv
  <1>b. PICK v : v = Downward(p)
    OBVIOUS
  <1>c. /\ command[p].todo # {} /\ command[p].name = "rollback"
        /\ inForce' = [inForce EXCEPT ![v] = IF @ > 0 THEN @ - 1 ELSE 0] /\ recorded' = recorded \ {v}
        /\ command' = [command EXCEPT ![p] = Without(p, v)]
        /\ UNCHANGED <<target, commands, writeLock>>
    BY <1>b DEF RollbackMigration, Doing, Done, Undone
  <1>d. v \in Migrated
    BY <1>a, <1>b, <1>c, TodoVersions
  <1>e. /\ Without(p, v) \in MigrationCommands
        /\ Without(p, v).name \in {"none", command[p].name}
        /\ Without(p, v).step \in {"idle", "next"}
    BY <1>a, WithoutVersion
  <1>f. target # "packaged" /\ \A q \in Migrators : command[q].step # "applying"
    BY <1>a, <1>c DEF CommandsInv
  <1>1. command' \in [Migrators -> MigrationCommands] /\ CommandsInv' /\ LockInv'
    BY <1>c, <1>e, <1>f, CommandChanges
  <1>2. inForce[v] \in Nat /\ inForce \in [Migrated -> Nat]
    BY <1>a, <1>d DEF MigrationTypeOK
  <1>3. inForce' \in [Migrated -> Nat]
    <2>1. (IF inForce[v] > 0 THEN inForce[v] - 1 ELSE 0) \in Nat
      BY <1>2
    <2> QED BY <2>1, <1>2, <1>c
  <1>4. MigrationTypeOK'
    BY <1>1, <1>3, <1>a, <1>c DEF MigrationTypeOK, MigrationCommands
  <1>5. EffectsRecorded'
    <2> SUFFICES ASSUME target # "mysql", NEW w \in Migrated
                 PROVE  inForce'[w] = IF w \in recorded' THEN 1 ELSE 0
      BY <1>c DEF EffectsRecorded
    <2>1. CASE w = v
      <3>1. inForce[v] \in {0, 1} /\ inForce'[v] = IF inForce[v] > 0 THEN inForce[v] - 1 ELSE 0
        BY <1>2, <1>a, <1>c, <1>d DEF EffectsRecorded
      <3> QED BY <2>1, <3>1, <1>c
    <2>2. CASE w # v
      BY <2>2, <1>a, <1>2, <1>c DEF EffectsRecorded
    <2> QED BY <2>1, <2>2
  <1> QED BY <1>1, <1>4, <1>5 DEF MigrationInv

(* MySQL, where a migration is two steps: nothing is claimed of its table. *)
LEMMA TwoStepsKeep ==
    ASSUME MigrationInv, NEW p \in Migrators, AutoCommit(p) \/ WriteRow(p)
    PROVE  MigrationInv'
  <1>a. MigrationTypeOK /\ CommandsInv /\ LockInv /\ EffectsRecorded
    BY DEF MigrationInv
  <1>b. target = "mysql" /\ target' = target /\ writeLock' = writeLock /\ commands' = commands
    BY <1>a DEF AutoCommit, WriteRow, CommandsInv
  <1>c. command[p].todo # {} /\ command[p].name # "launch"
    BY <1>a, <1>b DEF AutoCommit, WriteRow, Doing, CommandsInv
  <1>d. Upward(p) \in Migrated /\ Downward(p) \in Migrated
    BY <1>a, <1>c, TodoVersions
  <1>e. \A q \in Migrators : command[q].step # "applying"
    BY <1>a, <1>b DEF CommandsInv
  <1>f. recorded' \subseteq Migrated
    BY <1>a, <1>d DEF AutoCommit, WriteRow, MigrationTypeOK
  <1>g. inForce' \in [Migrated -> Nat]
    <2>1. inForce \in [Migrated -> Nat]
      BY <1>a DEF MigrationTypeOK
    <2>2. \A v \in Migrated : [inForce EXCEPT ![v] = @ + 1] \in [Migrated -> Nat]
                               /\ [inForce EXCEPT ![v] = IF @ > 0 THEN @ - 1 ELSE 0] \in [Migrated -> Nat]
      BY <2>1
    <2> QED BY <2>1, <2>2, <1>d DEF AutoCommit, WriteRow, Undone
  <1>h. PICK c \in MigrationCommands :
          /\ command' = [command EXCEPT ![p] = c]
          /\ c.name \in {"none", command[p].name} /\ c.step # "applying"
    <2>1. CASE AutoCommit(p)
      <3>1. command[p] \in MigrationCommands
        BY <1>a DEF MigrationTypeOK, MigrationCommands
      <3>2. /\ [command[p] EXCEPT !.step = "committed"] \in MigrationCommands
            /\ [command[p] EXCEPT !.step = "committed"].name = command[p].name
            /\ [command[p] EXCEPT !.step = "committed"].step = "committed"
        BY <3>1 DEF MigrationCommands
      <3>3. command' = [command EXCEPT ![p] = [command[p] EXCEPT !.step = "committed"]]
        BY <2>1 DEF AutoCommit
      <3> QED BY <3>2, <3>3
    <2>2. CASE WriteRow(p)
      <3>1. \E v : command' = [command EXCEPT ![p] = Without(p, v)]
        BY <2>2 DEF WriteRow, Done
      <3> QED BY <3>1, <1>a, WithoutVersion
    <2> QED BY <2>1, <2>2
  <1>1. command' \in [Migrators -> MigrationCommands] /\ CommandsInv' /\ LockInv'
    <2>1. c.name # "launch" /\ target # "packaged"
      BY <1>b, <1>c, <1>h
    <2> QED BY <2>1, <1>b, <1>e, <1>h, CommandChanges
  <1>2. MigrationTypeOK'
    BY <1>1, <1>a, <1>b, <1>f, <1>g DEF MigrationTypeOK, MigrationCommands
  <1>3. EffectsRecorded'
    BY <1>b DEF EffectsRecorded
  <1> QED BY <1>1, <1>2, <1>3 DEF MigrationInv

(* A launch looks a version up under the write lock.                       *)
LEMMA CheckKeeps ==
    ASSUME MigrationInv, NEW p \in Migrators, CheckApplied(p)
    PROVE  MigrationInv'
  <1>a. MigrationTypeOK /\ CommandsInv /\ LockInv /\ EffectsRecorded
    BY DEF MigrationInv
  <1>b. /\ command[p].name = "launch" /\ command[p].todo # {} /\ writeLock = Nobody
        /\ UNCHANGED <<target, recorded, inForce, commands>> /\ target = "packaged"
    BY <1>a DEF CheckApplied, Doing, BeginImmediate, CommandsInv
  <1>c. \A q \in Migrators : command[q].step # "applying"
    BY <1>a, <1>b, MigrationAssumption DEF LockInv, Nobody
  <1>d. PICK c \in MigrationCommands :
          /\ command' = [command EXCEPT ![p] = c]
          /\ c.name \in {"none", "launch"} /\ c.step # "committed"
          /\ c.step = "applying" =>
                c.name = "launch" /\ c.todo # {} /\ writeLock' = p /\ Min(c.todo) \notin recorded'
    <2>1. CASE command' = [command EXCEPT ![p] = Without(p, Upward(p))]
      <3>1. Without(p, Upward(p)) \in MigrationCommands
            /\ Without(p, Upward(p)).name \in {"none", "launch"}
            /\ Without(p, Upward(p)).step \in {"idle", "next"}
        BY <1>a, <1>b, WithoutVersion
      <3> QED BY <2>1, <3>1
    <2>2. CASE /\ command' = [command EXCEPT ![p].step = "applying"]
               /\ writeLock' = p /\ Upward(p) \notin recorded
      <3> DEFINE d == [command[p] EXCEPT !.step = "applying"]
      <3>1. command[p] \in MigrationCommands
        BY <1>a DEF MigrationTypeOK, MigrationCommands
      <3>2. d \in MigrationCommands /\ d.name = "launch" /\ d.todo = command[p].todo /\ d.step = "applying"
        BY <3>1, <1>b DEF MigrationCommands
      <3>3. command' = [command EXCEPT ![p] = d]
        BY <2>2
      <3>4. Min(d.todo) \notin recorded'
        BY <2>2, <3>2, <1>b DEF Upward
      <3> HIDE DEF d
      <3> QED BY <2>2, <3>2, <3>3, <3>4, <1>b
    <2> QED BY <2>1, <2>2 DEF CheckApplied, Done
  <1>1. command' \in [Migrators -> MigrationCommands] /\ CommandsInv' /\ LockInv'
    <2>1. c.name \notin {"apply", "rollback"}
      BY <1>d
    <2> QED BY <2>1, <1>b, <1>c, <1>d, CommandChanges
  <1>2. writeLock' \in Migrators \cup {Nobody}
    BY <1>b DEF CheckApplied
  <1>3. MigrationTypeOK'
    BY <1>1, <1>2, <1>a, <1>b DEF MigrationTypeOK, MigrationCommands
  <1>4. EffectsRecorded'
    BY <1>a, <1>b DEF EffectsRecorded
  <1> QED BY <1>1, <1>3, <1>4 DEF MigrationInv

(* A command that ends gives up the lock it has, and no other.             *)
LEMMA FailKeeps ==
    ASSUME MigrationInv, NEW p \in Migrators, CommandFails(p)
    PROVE  MigrationInv'
  <1>a. MigrationTypeOK /\ CommandsInv /\ LockInv /\ EffectsRecorded
    BY DEF MigrationInv
  <1>b. /\ command' = [command EXCEPT ![p] = Finished]
        /\ writeLock' = (IF writeLock = p THEN Nobody ELSE writeLock)
        /\ UNCHANGED <<target, recorded, inForce, commands>>
    BY DEF CommandFails
  <1>c. Finished \in MigrationCommands /\ Finished.name = "none" /\ Finished.step = "idle"
    BY DEF Finished, MigrationCommands
  <1>1. command' \in [Migrators -> MigrationCommands] /\ CommandsInv' /\ LockInv'
    <2>1. \A q \in Migrators : q # p /\ command[q].step = "applying" =>
               writeLock' = q /\ Upward(q) \notin recorded'
      BY <1>a, <1>b DEF LockInv
    <2> QED BY <2>1, <1>b, <1>c, CommandChanges
  <1>2. MigrationTypeOK'
    BY <1>1, <1>a, <1>b DEF MigrationTypeOK, MigrationCommands
  <1>3. EffectsRecorded'
    BY <1>a, <1>b DEF EffectsRecorded
  <1> QED BY <1>1, <1>2, <1>3 DEF MigrationInv

-----------------------------------------------------------------------------
(* Every step of the commands keeps the invariant.                         *)
LEMMA MigrationStep == MigrationInv /\ [MigrationNext]_migrationVars => MigrationInv'
  <1> SUFFICES ASSUME MigrationInv, [MigrationNext]_migrationVars PROVE MigrationInv'
    OBVIOUS
  <1>1. CASE UNCHANGED migrationVars
    BY <1>1 DEF migrationVars, MigrationInv, MigrationTypeOK, CommandsInv, LockInv, EffectsRecorded, Upward
  <1> QED BY <1>1, StartKeeps, ApplyKeeps, RollbackKeeps, TwoStepsKeep, CheckKeeps, FailKeeps
          DEF MigrationNext

(* The invariant lets every launch record what it found missing.           *)
LEMMA InvTruthful == MigrationInv => MigrationsTruthful
  <1> SUFFICES ASSUME MigrationInv, NEW p \in Migrators, command[p].step = "applying"
               PROVE  UpSucceeds(Upward(p)) /\ MayRecord(Upward(p))
    BY DEF MigrationsTruthful, LaunchesAgree, MigrationInv
  <1>1. Upward(p) \notin recorded /\ command[p].todo # {} /\ target = "packaged"
    BY DEF MigrationInv, LockInv, CommandsInv
  <1>2. Upward(p) \in Migrated
    BY <1>1, TodoVersions DEF MigrationInv
  <1> QED BY <1>1, <1>2 DEF MigrationInv, EffectsRecorded, UpSucceeds, MayRecord

(* Every variable has its type, for any number of processes and versions.  *)
THEOREM MigrationTypes == MigrationSpec => []MigrationTypeOK
  <1>1. MigrationInv => MigrationTypeOK
    BY DEF MigrationInv
  <1> QED BY <1>1, InitMigrations, MigrationStep, PTL DEF MigrationSpec

(* For any number of processes, versions and commands: on every database   *)
(* but MySQL the table says which migrations are in force, and packaged    *)
(* applications that start together do not trip over each other            *)
(* (apply_migration, rollback_migration, migrate_apply_packaged_sqlite).   *)
THEOREM TableIsTruthful == MigrationSpec => []MigrationsTruthful
  <1> QED BY InvTruthful, InitMigrations, MigrationStep, PTL DEF MigrationSpec

-----------------------------------------------------------------------------
(***************************************************************************)
(* Transactions, for any number of sessions, writes and savepoints and all *)
(* three backends.                                                         *)
(***************************************************************************)

(* A frame of the engine when there were n writes.                         *)
DbFrames(n) == [name : 0 .. MaxSavepoints, work : SUBSET (1 .. n)]

(* A session that has or takes a connection for a transaction.             *)
Holder(s) == dbTx[s] \/ dbPc[s] = "beginning"

(* The types the proofs need.                                              *)
DbTypes ==
    /\ DatabaseTypeOK
    /\ frames \in [Conns -> Seq(DbFrames(writes))]
    /\ savepoints \in [DbSessions -> Seq(1 .. MaxSavepoints)]
    /\ mine \in [DbSessions -> Seq(SUBSET (1 .. writes))]

(* SQLite's connection has one holder or is in the slot, and a transaction *)
(* is nobody's in the middle of a call.                                    *)
HoldersInv ==
    /\ \A s \in DbSessions : dbTx[s] => dbPc[s] = "idle"
    /\ adapter = "sqlite" =>
          /\ \A s, t \in DbSessions : Holder(s) /\ Holder(t) => s = t
          /\ inSlot <=> \A s \in DbSessions : ~Holder(s)

(* A connection has frames only while a session has a transaction on it.   *)
FramesInv ==
    \A c \in Conns : (\A s \in DbSessions : dbTx[s] => ConnOf(s) # c) => frames[c] = << >>

(* The numbers of savepoints grow and are below the counter.               *)
Rising(sp, top) ==
    /\ \A i, j \in DOMAIN sp : i < j => sp[i] < sp[j]
    /\ \A i \in DOMAIN sp : sp[i] <= top

(* The savepoints of a session, and its history of them.                   *)
SavepointsInv == \A s \in DbSessions :
    /\ Rising(savepoints[s], nextSavepoint[s])
    /\ dbTx[s] => InStep(frames[ConnOf(s)], savepoints[s]) /\ Len(mine[s]) = Len(savepoints[s]) + 1
    /\ ~dbTx[s] => savepoints[s] = << >> /\ mine[s] = << >>

(* The engine's frames hold what the session wrote, savepoint by savepoint.*)
Holds(fs, ws) == Len(fs) = Len(ws) /\ \A i \in DOMAIN ws : fs[i].work = ws[i]

(* While the engine ends nothing on its own, it has a session's open work, *)
(* and a write is in one place.                                            *)
WorkInv == ~engineAborts =>
    /\ \A c \in Conns : ~aborted[c]
    /\ \A s \in DbSessions : dbTx[s] => Holds(frames[ConnOf(s)], mine[s])
    /\ \A s \in DbSessions : \A i \in DOMAIN mine[s] : \A w \in mine[s][i] :
          w \notin stored /\ w \notin undone
    /\ \A s, t \in DbSessions : \A i \in DOMAIN mine[s], j \in DOMAIN mine[t] : \A w \in mine[s][i] :
          w \in mine[t][j] => s = t /\ i = j
    /\ WorkTruthful

(* The inductive invariant.                                                *)
DatabaseInv == DbTypes /\ HoldersInv /\ FramesInv /\ SavepointsInv /\ WorkInv

(* Frames and works of earlier writes.                                     *)
LEMMA SequencesGrow ==
    ASSUME NEW m \in Nat, NEW n \in Nat, m <= n
    PROVE  /\ \A fs \in Seq(DbFrames(m)) : fs \in Seq(DbFrames(n))
           /\ \A ws \in Seq(SUBSET (1 .. m)) : ws \in Seq(SUBSET (1 .. n))
  <1>1. 1 .. m \subseteq 1 .. n
    OBVIOUS
  <1>2. DbFrames(m) \subseteq DbFrames(n)
    BY <1>1 DEF DbFrames
  <1>3. SUBSET (1 .. m) \subseteq SUBSET (1 .. n)
    BY <1>1
  <1>4. ASSUME NEW S, NEW T, S \subseteq T, NEW q \in Seq(S) PROVE q \in Seq(T)
    <2>1. \A i \in 1 .. Len(q) : q[i] \in T
      BY <1>4
    <2> QED BY <2>1
  <1> HIDE DEF DbFrames
  <1>5. \A fs \in Seq(DbFrames(m)) : fs \in Seq(DbFrames(n))
    BY <1>2, <1>4
  <1>6. \A ws \in Seq(SUBSET (1 .. m)) : ws \in Seq(SUBSET (1 .. n))
    BY <1>3, <1>4
  <1> QED BY <1>5, <1>6

(* The connection of a holder is nobody else's.                            *)
LEMMA OwnConnection ==
    ASSUME DatabaseInv, NEW s \in DbSessions, Holder(s), NEW t \in DbSessions, dbTx[t], t # s
    PROVE  ConnOf(t) # ConnOf(s)
  <1>1. CASE adapter = "sqlite"
    BY <1>1 DEF DatabaseInv, HoldersInv, Holder
  <1>2. CASE adapter # "sqlite"
    BY <1>2 DEF ConnOf
  <1> QED BY <1>1, <1>2

(* Sessions have a connection.                                             *)
LEMMA ConnOfType ==
    ASSUME NEW s \in DbSessions
    PROVE  ConnOf(s) \in Conns
  BY DEF ConnOf, Conns

(* The types of the variables.                                             *)
LEMMA DbFacts ==
    ASSUME DatabaseInv
    PROVE  /\ frames \in [Conns -> Seq(DbFrames(writes))]
           /\ mine \in [DbSessions -> Seq(SUBSET (1 .. writes))]
           /\ savepoints \in [DbSessions -> Seq(1 .. MaxSavepoints)]
           /\ nextSavepoint \in [DbSessions -> 0 .. MaxSavepoints]
           /\ dbTx \in [DbSessions -> BOOLEAN] /\ aborted \in [Conns -> BOOLEAN]
           /\ dbPc \in [DbSessions -> {"idle", "statement", "begin", "beginning"}]
           /\ writes \in Nat /\ writes <= MaxWrites /\ MaxWrites \in Nat /\ MaxSavepoints \in Nat
           /\ stored \subseteq 1 .. writes /\ acked \subseteq 1 .. writes /\ undone \subseteq 1 .. writes
  <1>1. MaxWrites \in Nat /\ MaxSavepoints \in Nat
    BY DatabaseAssumption
  <1>2. writes \in 0 .. MaxWrites
    BY DEF DatabaseInv, DbTypes, DatabaseTypeOK
  <1>3. writes \in Nat /\ writes <= MaxWrites
    BY <1>1, <1>2
  <1> QED BY <1>1, <1>3 DEF DatabaseInv, DbTypes, DatabaseTypeOK

(* A step of the holder s that leaves its own in order keeps what concerns *)
(* the others.                                                             *)
LEMMA HolderKeeps ==
    ASSUME DatabaseInv, NEW s \in DbSessions, Holder(s), UNCHANGED <<adapter, engineAborts>>,
           NEW b \in BOOLEAN, NEW fs, NEW sp, NEW mn, NEW top,
           DatabaseTypeOK', HoldersInv', WorkInv', writes' \in Nat, writes <= writes',
           fs \in Seq(DbFrames(writes')), sp \in Seq(1 .. MaxSavepoints), mn \in Seq(SUBSET (1 .. writes')),
           frames' = [frames EXCEPT ![ConnOf(s)] = fs], savepoints' = [savepoints EXCEPT ![s] = sp],
           mine' = [mine EXCEPT ![s] = mn], nextSavepoint' = [nextSavepoint EXCEPT ![s] = top],
           dbTx' = [dbTx EXCEPT ![s] = b], Rising(sp, top),
           b => InStep(fs, sp) /\ Len(mn) = Len(sp) + 1,
           ~b => fs = << >> /\ sp = << >> /\ mn = << >>
    PROVE  DatabaseInv'
  <1>1. /\ frames \in [Conns -> Seq(DbFrames(writes))] /\ mine \in [DbSessions -> Seq(SUBSET (1 .. writes))]
        /\ savepoints \in [DbSessions -> Seq(1 .. MaxSavepoints)]
        /\ writes \in Nat /\ writes' \in Nat /\ ConnOf(s) \in Conns
        /\ nextSavepoint \in [DbSessions -> 0 .. MaxSavepoints] /\ dbTx \in [DbSessions -> BOOLEAN]
    BY DbFacts, ConnOfType DEF DatabaseTypeOK
  <1>2. \A t \in DbSessions : ConnOf(t)' = ConnOf(t) /\ ConnOf(t) \in Conns
    BY ConnOfType DEF ConnOf
  <1>3. \A t \in DbSessions : t # s /\ dbTx[t] => ConnOf(t) # ConnOf(s)
    BY OwnConnection
  <1>4. DbTypes'
    <2>1. \A c \in Conns : frames[c] \in Seq(DbFrames(writes'))
      BY <1>1, SequencesGrow
    <2>2. \A t \in DbSessions : mine[t] \in Seq(SUBSET (1 .. writes'))
      BY <1>1, SequencesGrow
    <2>3. frames' \in [Conns -> Seq(DbFrames(writes'))]
      BY <1>1, <2>1
    <2>4. mine' \in [DbSessions -> Seq(SUBSET (1 .. writes'))]
      BY <1>1, <2>2
    <2>5. savepoints' \in [DbSessions -> Seq(1 .. MaxSavepoints)]
      BY <1>1
    <2>6. (DbFrames(writes))' = DbFrames(writes')
      BY DEF DbFrames
    <2>7. Conns' = Conns
      BY DEF Conns
    <2> QED BY <2>3, <2>4, <2>5, <2>6, <2>7 DEF DbTypes
  <1>5. FramesInv'
    <2> SUFFICES ASSUME NEW c \in Conns, \A t \in DbSessions : dbTx'[t] => ConnOf(t) # c
                 PROVE  frames'[c] = << >>
      BY <1>2 DEF FramesInv, Conns
    <2>1. CASE c = ConnOf(s)
      <3>1. ~b
        BY <1>1, <2>1
      <3> QED BY <1>1, <2>1, <3>1
    <2>2. CASE c # ConnOf(s)
      <3>1. \A t \in DbSessions : dbTx[t] => ConnOf(t) # c
        BY <1>1, <2>2
      <3>2. frames[c] = << >>
        BY <3>1 DEF DatabaseInv, FramesInv
      <3> QED BY <1>1, <2>2, <3>2
    <2> QED BY <2>1, <2>2
  <1>6. SavepointsInv'
    <2> SUFFICES ASSUME NEW t \in DbSessions
                 PROVE  /\ Rising(savepoints'[t], nextSavepoint'[t])
                        /\ dbTx'[t] => InStep(frames'[ConnOf(t)], savepoints'[t]) /\ Len(mine'[t]) = Len(savepoints'[t]) + 1
                        /\ ~dbTx'[t] => savepoints'[t] = << >> /\ mine'[t] = << >>
      <3>1. \A t \in DbSessions : InStep(frames'[ConnOf(t)], savepoints'[t]) => (InStep(frames[ConnOf(t)], savepoints[t]))'
        BY <1>2 DEF InStep
      <3>2. \A t \in DbSessions : Rising(savepoints'[t], nextSavepoint'[t]) => (Rising(savepoints[t], nextSavepoint[t]))'
        BY DEF Rising
      <3> QED BY <3>1, <3>2 DEF SavepointsInv
    <2>1. CASE t = s
      BY <1>1, <2>1
    <2>2. CASE t # s
      <3>1. /\ savepoints'[t] = savepoints[t] /\ nextSavepoint'[t] = nextSavepoint[t] /\ dbTx'[t] = dbTx[t]
            /\ mine'[t] = mine[t]
            /\ dbTx[t] => frames'[ConnOf(t)] = frames[ConnOf(t)]
        BY <1>1, <1>2, <1>3, <2>2
      <3> QED BY <3>1 DEF DatabaseInv, SavepointsInv
    <2> QED BY <2>1, <2>2
  <1> QED BY <1>4, <1>5, <1>6 DEF DatabaseInv

(* The same for the work: what is new of s comes from s or is new, and so  *)
(* does what is stored or undone now.                                      *)
LEMMA HolderKeepsWork ==
    ASSUME DatabaseInv, NEW s \in DbSessions, Holder(s), UNCHANGED <<adapter, engineAborts>>,
           NEW b \in BOOLEAN, NEW fs, NEW mn,
           writes' \in Nat, writes <= writes',
           frames' = [frames EXCEPT ![ConnOf(s)] = fs], mine' = [mine EXCEPT ![s] = mn],
           dbTx' = [dbTx EXCEPT ![s] = b],
           ~engineAborts =>
              /\ \A c \in Conns : ~aborted'[c]
              /\ b => Holds(fs, mn)
              /\ \A i \in DOMAIN mn : \A w \in mn[i] :
                    /\ w \notin stored' /\ w \notin undone'
                    /\ w \in 1 .. writes => \E k \in DOMAIN mine[s] : w \in mine[s][k]
              /\ \A i, j \in DOMAIN mn : \A w \in mn[i] : w \in mn[j] => i = j
              /\ \A w \in 1 .. writes : w \in stored' \/ w \in undone' =>
                    w \in stored \/ w \in undone \/ \E k \in DOMAIN mine[s] : w \in mine[s][k]
              /\ acked' \subseteq stored' /\ undone' \cap stored' = {}
    PROVE  WorkInv'
  <1> SUFFICES ASSUME ~engineAborts PROVE WorkInv'
    BY DEF WorkInv
  <1>1. /\ mine \in [DbSessions -> Seq(SUBSET (1 .. writes))] /\ frames \in [Conns -> Seq(DbFrames(writes))]
        /\ dbTx \in [DbSessions -> BOOLEAN]
    BY DbFacts
  <1>2. \A t \in DbSessions : ConnOf(t)' = ConnOf(t) /\ ConnOf(t) \in Conns
    BY ConnOfType DEF ConnOf
  <1>3. \A t \in DbSessions : t # s /\ dbTx[t] => ConnOf(t) # ConnOf(s)
    BY OwnConnection
  <1>4. \A t \in DbSessions : mine'[t] = IF t = s THEN mn ELSE mine[t]
    BY <1>1
  <1>5. \A t \in DbSessions : \A i \in DOMAIN mine[t] : mine[t][i] \subseteq 1 .. writes
    <2> SUFFICES ASSUME NEW t \in DbSessions, NEW i \in DOMAIN mine[t] PROVE mine[t][i] \subseteq 1 .. writes
      OBVIOUS
    <2>1. mine[t] \in Seq(SUBSET (1 .. writes))
      BY <1>1
    <2> QED BY <2>1
  <1>6. WorkInv /\ WorkTruthful
    BY DEF DatabaseInv, WorkInv
  <1>7. ASSUME NEW t \in DbSessions, dbTx'[t] PROVE Holds(frames'[ConnOf(t)], mine'[t])
    <2>1. CASE t = s
      <3>1. b /\ frames'[ConnOf(s)] = fs /\ mine'[s] = mn
        BY <1>1, <1>2, <1>7, <2>1
      <3> QED BY <2>1, <3>1
    <2>2. CASE t # s
      <3>1. dbTx[t] /\ frames'[ConnOf(t)] = frames[ConnOf(t)] /\ mine'[t] = mine[t]
        BY <1>1, <1>2, <1>3, <1>7, <2>2
      <3> QED BY <3>1, <1>6 DEF WorkInv
    <2> QED BY <2>1, <2>2
  <1>8. ASSUME NEW t \in DbSessions, NEW i \in DOMAIN mine'[t], NEW w \in mine'[t][i]
        PROVE  w \notin stored' /\ w \notin undone'
    <2>1. CASE t = s
      BY <1>4, <1>8, <2>1
    <2>2. CASE t # s
      <3>1. i \in DOMAIN mine[t] /\ w \in mine[t][i] /\ w \in 1 .. writes
        BY <1>4, <1>5, <1>8, <2>2
      <3>2. w \notin stored /\ w \notin undone /\ \A k \in DOMAIN mine[s] : w \notin mine[s][k]
        BY <1>6, <2>2, <3>1 DEF WorkInv
      <3> QED BY <3>1, <3>2
    <2> QED BY <2>1, <2>2
  <1>9. ASSUME NEW t \in DbSessions, NEW u \in DbSessions, NEW i \in DOMAIN mine'[t], NEW j \in DOMAIN mine'[u],
               NEW w \in mine'[t][i], w \in mine'[u][j]
        PROVE  t = u /\ i = j
    <2>1. CASE t = s /\ u = s
      BY <1>4, <1>9, <2>1
    <2>2. CASE t # s /\ u # s
      BY <1>4, <1>6, <1>9, <2>2 DEF WorkInv
    <2>3. CASE t = s /\ u # s
      <3>1. j \in DOMAIN mine[u] /\ w \in mine[u][j] /\ w \in 1 .. writes /\ i \in DOMAIN mn /\ w \in mn[i]
        BY <1>4, <1>5, <1>9, <2>3
      <3>2. \A k \in DOMAIN mine[s] : w \notin mine[s][k]
        BY <1>6, <2>3, <3>1 DEF WorkInv
      <3> QED BY <3>1, <3>2
    <2>4. CASE t # s /\ u = s
      <3>1. i \in DOMAIN mine[t] /\ w \in mine[t][i] /\ w \in 1 .. writes /\ j \in DOMAIN mn /\ w \in mn[j]
        BY <1>4, <1>5, <1>9, <2>4
      <3>2. \A k \in DOMAIN mine[s] : w \notin mine[s][k]
        BY <1>6, <2>4, <3>1 DEF WorkInv
      <3> QED BY <3>1, <3>2
    <2> QED BY <2>1, <2>2, <2>3, <2>4
  <1>10. \A c \in Conns : ~aborted'[c]
    OBVIOUS
  <1>11. WorkTruthful'
    BY DEF WorkTruthful
  <1>12. Conns' = Conns
    BY DEF Conns
  <1>13. \A t \in DbSessions : Holds(frames'[ConnOf(t)], mine'[t]) => (Holds(frames[ConnOf(t)], mine[t]))'
    BY <1>2 DEF Holds
  <1> QED BY <1>7, <1>8, <1>9, <1>10, <1>11, <1>12, <1>13 DEF WorkInv

-----------------------------------------------------------------------------
(* Stacks *)

(* What is below the top.                                                  *)
LEMMA FrontOf ==
    ASSUME NEW S, NEW q \in Seq(S), q # << >>
    PROVE  /\ Len(q) \in Nat \ {0}
           /\ SubSeq(q, 1, Len(q) - 1) \in Seq(S) /\ Len(SubSeq(q, 1, Len(q) - 1)) = Len(q) - 1
           /\ DOMAIN SubSeq(q, 1, Len(q) - 1) = 1 .. Len(q) - 1
           /\ \A i \in 1 .. Len(q) - 1 : SubSeq(q, 1, Len(q) - 1)[i] = q[i] /\ i \in DOMAIN q
  <1>1. Len(q) \in Nat \ {0} /\ Len(q) - 1 \in Nat /\ DOMAIN q = 1 .. Len(q)
    OBVIOUS
  <1>2. \A i \in 1 .. Len(q) - 1 : i \in 1 .. Len(q) /\ q[i] \in S
    BY <1>1
  <1>3. SubSeq(q, 1, Len(q) - 1) = [i \in 1 .. Len(q) - 1 |-> q[i]]
    BY <1>1
  <1>4. SubSeq(q, 1, Len(q) - 1) \in [1 .. Len(q) - 1 -> S]
    BY <1>2, <1>3
  <1> QED BY <1>1, <1>2, <1>3, <1>4

(* The last savepoint of the session, if the engine knows it, is the frame *)
(* on top, and going back to it leaves the others in step.                 *)
LEMMA TopFrame ==
    ASSUME NEW m \in Nat, NEW fs \in Seq(DbFrames(m)), NEW sp \in Seq(1 .. MaxSavepoints), NEW top \in Nat,
           Rising(sp, top), InStep(fs, sp), sp # << >>, NEW n, n = Last(sp), Named(fs, n)
    PROVE  /\ Position(fs, n) = Len(fs) /\ Len(fs) \in Nat \ {0} /\ Len(sp) \in Nat \ {0}
           /\ Front(sp) \in Seq(1 .. MaxSavepoints) /\ Len(Front(sp)) = Len(sp) - 1
           /\ Rising(Front(sp), top)
  <1>1. MaxSavepoints \in Nat /\ Len(sp) \in Nat \ {0} /\ Len(fs) \in Nat /\ n = sp[Len(sp)] /\ n \in 1 .. MaxSavepoints
    BY DatabaseAssumption DEF Last
  <1>2. ASSUME NEW i \in DOMAIN fs, fs[i].name = n PROVE i = Len(fs)
    <2> DEFINE k == Len(sp) - (Len(fs) - i)
    <2>1. k \in DOMAIN sp /\ sp[k] = n
      BY <1>1, <1>2 DEF InStep, Begun
    <2>2. ~(k < Len(sp))
      <3>1. Len(sp) \in DOMAIN sp /\ sp[Len(sp)] = n /\ sp[k] \in Nat
        BY <1>1, <2>1
      <3> QED BY <2>1, <3>1, <1>1 DEF Rising
    <2> QED BY <1>1, <2>1, <2>2
  <1>3. Position(fs, n) \in DOMAIN fs /\ fs[Position(fs, n)].name = n
    BY DEF Named, Position
  <1>4. Position(fs, n) = Len(fs) /\ Len(fs) # 0
    BY <1>1, <1>2, <1>3
  <1>5. /\ Front(sp) \in Seq(1 .. MaxSavepoints) /\ Len(Front(sp)) = Len(sp) - 1
        /\ DOMAIN Front(sp) = 1 .. Len(sp) - 1
        /\ \A i \in 1 .. Len(sp) - 1 : Front(sp)[i] = sp[i] /\ i \in DOMAIN sp
    BY FrontOf DEF Front
  <1>6. Rising(Front(sp), top)
    <2>1. /\ \A i, j \in DOMAIN sp : i < j => sp[i] < sp[j]
          /\ \A i \in DOMAIN sp : sp[i] <= top
      BY DEF Rising
    <2>2. \A i \in DOMAIN Front(sp) : i \in DOMAIN sp /\ Front(sp)[i] = sp[i]
      BY <1>5
    <2> QED BY <2>1, <2>2 DEF Rising
  <1> QED BY <1>1, <1>4, <1>5, <1>6

(* What is left below it is in step with what is left of the savepoints.   *)
LEMMA BelowInStep ==
    ASSUME NEW m \in Nat, NEW fs \in Seq(DbFrames(m)), NEW sp \in Seq(1 .. MaxSavepoints),
           InStep(fs, sp), sp # << >>, fs # << >>,
           NEW r \in Seq(DbFrames(m)), Len(r) = Len(fs) - 1, \A i \in 1 .. Len(fs) - 1 : r[i].name = fs[i].name
    PROVE  InStep(r, Front(sp))
  <1>1. Len(sp) \in Nat \ {0} /\ Len(fs) \in Nat
    OBVIOUS
  <1>2. /\ Len(Front(sp)) = Len(sp) - 1 /\ DOMAIN Front(sp) = 1 .. Len(sp) - 1
        /\ \A i \in 1 .. Len(sp) - 1 : Front(sp)[i] = sp[i] /\ i \in DOMAIN sp
    BY FrontOf DEF Front
  <1> SUFFICES ASSUME NEW i \in DOMAIN r
               PROVE  IF r[i].name = Begun THEN i = 1
                      ELSE /\ Len(Front(sp)) - (Len(r) - i) \in DOMAIN Front(sp)
                           /\ Front(sp)[Len(Front(sp)) - (Len(r) - i)] = r[i].name
    BY DEF InStep
  <1>3. i \in DOMAIN fs /\ r[i].name = fs[i].name /\ i < Len(fs)
    BY <1>1
  <1>4. CASE r[i].name = Begun
    BY <1>3, <1>4 DEF InStep
  <1>5. CASE r[i].name # Begun
    <2> DEFINE k == Len(sp) - (Len(fs) - i)
    <2>1. k \in DOMAIN sp /\ sp[k] = fs[i].name
      BY <1>3, <1>5 DEF InStep
    <2>2. k = Len(Front(sp)) - (Len(r) - i) /\ k \in 1 .. Len(sp) - 1
      <3>1. DOMAIN sp = 1 .. Len(sp) /\ DOMAIN fs = 1 .. Len(fs)
        OBVIOUS
      <3>2. Len(sp) - (Len(fs) - i) = (Len(sp) - 1) - ((Len(fs) - 1) - i)
            /\ Len(sp) - (Len(fs) - i) < Len(sp)
        <4>1. i \in Nat /\ Len(sp) \in Nat /\ Len(fs) \in Nat
          BY <1>1, <1>3, <3>1
        <4> QED BY <1>3, <4>1
      <3>3. k \in 1 .. Len(sp) - 1
        BY <1>1, <2>1, <3>1, <3>2
      <3> QED BY <1>2, <3>2, <3>3
    <2> HIDE DEF k
    <2>3. Front(sp)[k] = r[i].name /\ k \in DOMAIN Front(sp)
      BY <1>2, <1>3, <2>1, <2>2
    <2> QED BY <1>5, <2>2, <2>3
  <1> QED BY <1>4, <1>5

(* The same names in the same places are in step with the same savepoints. *)
LEMMA SameNames ==
    ASSUME NEW m \in Nat, NEW k \in Nat, NEW fs \in Seq(DbFrames(m)), NEW r \in Seq(DbFrames(k)), NEW sp,
           InStep(fs, sp), Len(r) = Len(fs), \A i \in 1 .. Len(fs) : r[i].name = fs[i].name
    PROVE  InStep(r, sp)
  <1>1. DOMAIN r = DOMAIN fs /\ DOMAIN fs = 1 .. Len(fs)
    OBVIOUS
  <1> QED BY <1>1 DEF InStep

(* More work for a frame.                                                  *)
LEMMA MoreWork ==
    ASSUME NEW n, NEW f \in DbFrames(n), NEW W
    PROVE  [f EXCEPT !.work = f.work \cup W] = [name |-> f.name, work |-> f.work \cup W]
  BY DEF DbFrames

(* A function on the first numbers is a sequence.                          *)
LEMMA FunctionIsSequence ==
    ASSUME NEW S, NEW k \in Nat, NEW q \in [1 .. k -> S]
    PROVE  q \in Seq(S) /\ Len(q) = k
  OBVIOUS

(* Another frame on top.                                                   *)
LEMMA TopReplaced ==
    ASSUME NEW m \in Nat, NEW n \in Nat, m <= n, NEW fs \in Seq(DbFrames(m)), fs # << >>, NEW x \in DbFrames(n)
    PROVE  LET r == [fs EXCEPT ![Len(fs)] = x]
           IN  /\ r \in Seq(DbFrames(n)) /\ Len(r) = Len(fs) /\ Len(fs) \in Nat \ {0}
               /\ \A i \in 1 .. Len(fs) : r[i] = IF i = Len(fs) THEN x ELSE fs[i]
  <1> DEFINE r == [fs EXCEPT ![Len(fs)] = x]
  <1> HIDE DEF DbFrames
  <1>1. Len(fs) \in Nat \ {0} /\ DOMAIN fs = 1 .. Len(fs)
    OBVIOUS
  <1>2. \A i \in 1 .. Len(fs) : fs[i] \in DbFrames(n)
    <2>1. fs \in Seq(DbFrames(n))
      BY SequencesGrow
    <2> QED BY <2>1
  <1>3. DOMAIN r = 1 .. Len(fs) /\ \A i \in 1 .. Len(fs) : r[i] = IF i = Len(fs) THEN x ELSE fs[i]
    BY <1>1, Zenon
  <1>4. r \in Seq(DbFrames(n)) /\ Len(r) = Len(fs)
    <2>1. \A i \in 1 .. Len(fs) : r[i] \in DbFrames(n)
      BY <1>2, <1>3
    <2>2. r \in [1 .. Len(fs) -> DbFrames(n)]
      BY <1>1, <1>3, <2>1, Zenon
    <2>3. Len(fs) \in Nat
      BY <1>1
    <2> QED BY <2>2, <2>3, FunctionIsSequence, Zenon
  <1> QED BY <1>1, <1>3, <1>4

(* More work for the last of a session's works.                            *)
LEMMA WorkOnLast ==
    ASSUME NEW m \in Nat, NEW n \in Nat, m <= n, NEW ws \in Seq(SUBSET (1 .. m)), ws # << >>, NEW W \in SUBSET (1 .. n)
    PROVE  LET r == [ws EXCEPT ![Len(ws)] = @ \cup W]
           IN  /\ r \in Seq(SUBSET (1 .. n)) /\ Len(r) = Len(ws) /\ Len(ws) \in Nat \ {0}
               /\ DOMAIN r = 1 .. Len(ws) /\ DOMAIN ws = 1 .. Len(ws)
               /\ \A i \in 1 .. Len(ws) : r[i] = IF i = Len(ws) THEN ws[i] \cup W ELSE ws[i]
  <1> DEFINE r == [ws EXCEPT ![Len(ws)] = @ \cup W]
  <1>1. Len(ws) \in Nat \ {0} /\ DOMAIN ws = 1 .. Len(ws)
    OBVIOUS
  <1>2. \A i \in 1 .. Len(ws) : ws[i] \in SUBSET (1 .. n)
    <2>1. ws \in Seq(SUBSET (1 .. n))
      BY SequencesGrow
    <2> QED BY <2>1
  <1>3. DOMAIN r = 1 .. Len(ws) /\ \A i \in 1 .. Len(ws) : r[i] = IF i = Len(ws) THEN ws[i] \cup W ELSE ws[i]
    BY <1>1
  <1>4. r = [i \in 1 .. Len(ws) |-> r[i]]
    BY <1>1
  <1> HIDE DEF r
  <1>5. \A i \in 1 .. Len(ws) : r[i] \in SUBSET (1 .. n)
    BY <1>2, <1>3
  <1>6. r \in [1 .. Len(ws) -> SUBSET (1 .. n)]
    BY <1>4, <1>5
  <1>7. r \in Seq(SUBSET (1 .. n)) /\ Len(r) = Len(ws)
    BY <1>1, <1>6
  <1> QED BY <1>1, <1>3, <1>7 DEF r

-----------------------------------------------------------------------------
(* Steps *)

(* A step that leaves the transactions alone.                              *)
LEMMA SessionKeeps ==
    ASSUME DatabaseInv, UNCHANGED <<adapter, engineAborts, frames, savepoints, mine, dbTx>>,
           \A s \in DbSessions : nextSavepoint'[s] = nextSavepoint[s] \/ ~dbTx[s],
           DatabaseTypeOK', HoldersInv', WorkInv', writes' \in Nat, writes <= writes'
    PROVE  DatabaseInv'
  <1>1. \A t \in DbSessions : ConnOf(t)' = ConnOf(t) /\ ConnOf(t) \in Conns
    BY ConnOfType DEF ConnOf
  <1>2. DbTypes'
    <2>1. /\ writes \in Nat /\ frames \in [Conns -> Seq(DbFrames(writes))]
          /\ mine \in [DbSessions -> Seq(SUBSET (1 .. writes))]
          /\ savepoints \in [DbSessions -> Seq(1 .. MaxSavepoints)]
      BY DbFacts
    <2>2. \A c \in Conns : frames[c] \in Seq(DbFrames(writes'))
      BY <2>1, SequencesGrow
    <2>3. \A t \in DbSessions : mine[t] \in Seq(SUBSET (1 .. writes'))
      BY <2>1, SequencesGrow
    <2>4. (DbFrames(writes))' = DbFrames(writes') /\ Conns' = Conns
      BY DEF DbFrames, Conns
    <2>5. frames' \in [Conns -> Seq(DbFrames(writes'))]
      BY <2>1, <2>2
    <2>6. mine' \in [DbSessions -> Seq(SUBSET (1 .. writes'))]
      BY <2>1, <2>3
    <2> QED BY <2>1, <2>4, <2>5, <2>6 DEF DbTypes
  <1>3. FramesInv'
    BY <1>1 DEF DatabaseInv, FramesInv, Conns
  <1>4. SavepointsInv'
    <2> SUFFICES ASSUME NEW t \in DbSessions
                 PROVE  /\ Rising(savepoints[t], nextSavepoint'[t])
                        /\ dbTx[t] => InStep(frames[ConnOf(t)], savepoints[t]) /\ Len(mine[t]) = Len(savepoints[t]) + 1
                        /\ ~dbTx[t] => savepoints[t] = << >> /\ mine[t] = << >>
      <3>1. \A t \in DbSessions : InStep(frames[ConnOf(t)], savepoints[t]) => (InStep(frames[ConnOf(t)], savepoints[t]))'
        BY <1>1 DEF InStep
      <3>2. \A t \in DbSessions : Rising(savepoints[t], nextSavepoint'[t]) => (Rising(savepoints[t], nextSavepoint[t]))'
        BY DEF Rising
      <3> QED BY <3>1, <3>2 DEF SavepointsInv
    <2>1. CASE nextSavepoint'[t] = nextSavepoint[t]
      BY <2>1 DEF DatabaseInv, SavepointsInv
    <2>2. CASE ~dbTx[t]
      BY <2>2 DEF DatabaseInv, SavepointsInv, Rising
    <2> QED BY <2>1, <2>2
  <1> QED BY <1>2, <1>3, <1>4 DEF DatabaseInv

(* What such a step leaves alone, the work included.                       *)
LEMMA WorkSame ==
    ASSUME DatabaseInv, UNCHANGED <<adapter, engineAborts, dbTx, mine, frames, aborted, stored, acked, undone>>
    PROVE  WorkInv'
  <1>1. \A t \in DbSessions : ConnOf(t)' = ConnOf(t)
    BY DEF ConnOf
  <1>2. \A t \in DbSessions : Holds(frames[ConnOf(t)], mine[t]) => (Holds(frames[ConnOf(t)], mine[t]))'
    BY <1>1 DEF Holds
  <1> QED BY <1>1, <1>2 DEF DatabaseInv, WorkInv, WorkTruthful, Conns

(* Sleeping, waking up and calls.                                          *)
LEMMA CallsKeep ==
    ASSUME DatabaseInv, NEW s \in DbSessions, Sleep(s) \/ WakeSpuriously(s) \/ CallStatement(s) \/ CallBegin(s)
    PROVE  DatabaseInv'
  <1>1. UNCHANGED <<adapter, engineAborts, inSlot, dbTx, savepoints, nextSavepoint, frames, aborted, stored,
                    writes, mine, acked, undone>>
    BY DEF Sleep, WakeSpuriously, CallStatement, CallBegin, engineVars, dbHistory
  <1>2. \/ dbPc' = dbPc
        \/ dbPc[s] = "idle" /\ ~dbTx[s] /\ dbPc' = [dbPc EXCEPT ![s] = "statement"]
        \/ dbPc[s] = "idle" /\ ~dbTx[s] /\ dbPc' = [dbPc EXCEPT ![s] = "begin"]
    BY DEF Sleep, WakeSpuriously, CallStatement, CallBegin
  <1>3. dbPc \in [DbSessions -> {"idle", "statement", "begin", "beginning"}]
    BY DbFacts
  <1>4. dbPc' \in [DbSessions -> {"idle", "statement", "begin", "beginning"}]
    BY <1>2, <1>3
  <1>5. dbWaiting' \subseteq DbSessions
    BY DEF Sleep, WakeSpuriously, CallStatement, CallBegin, DatabaseInv, DbTypes, DatabaseTypeOK
  <1>6. begins' \in 0 .. MaxBegins
    <2>1. begins \in 0 .. MaxBegins /\ MaxBegins \in Nat
      BY DatabaseAssumption DEF DatabaseInv, DbTypes, DatabaseTypeOK
    <2>2. begins' = begins \/ (begins < MaxBegins /\ begins' = begins + 1)
      BY DEF Sleep, WakeSpuriously, CallStatement, CallBegin
    <2> QED BY <2>1, <2>2
  <1>7. DatabaseTypeOK'
    BY <1>1, <1>4, <1>5, <1>6 DEF DatabaseInv, DbTypes, DatabaseTypeOK, Conns
  <1>8. HoldersInv'
    <2>1. \A t \in DbSessions : /\ (dbTx'[t] \/ dbPc'[t] = "beginning") <=> (dbTx[t] \/ dbPc[t] = "beginning")
                                /\ dbTx[t] => dbPc'[t] = dbPc[t]
      BY <1>2, <1>1, <1>3
    <2> QED BY <1>1, <2>1 DEF DatabaseInv, HoldersInv, Holder
  <1>9. WorkInv'
    BY <1>1, WorkSame
  <1>10. writes' \in Nat /\ writes <= writes'
    BY <1>1, DbFacts
  <1> QED BY <1>1, <1>7, <1>8, <1>9, <1>10, SessionKeeps

(* A statement outside a transaction is stored and answered at once.       *)
LEMMA RunOnSlotKeeps ==
    ASSUME DatabaseInv, NEW s \in DbSessions, RunOnSlot(s)
    PROVE  DatabaseInv'
  <1>1. /\ UNCHANGED <<adapter, engineAborts, inSlot, dbWaiting, dbTx, savepoints, nextSavepoint,
                       frames, aborted, begins, mine, undone>>
        /\ dbPc[s] = "statement" /\ dbPc' = [dbPc EXCEPT ![s] = "idle"]
        /\ \/ /\ writes < MaxWrites /\ writes' = writes + 1
              /\ stored' = stored \cup {writes'} /\ acked' = acked \cup {writes'}
           \/ UNCHANGED <<writes, stored, acked>>
    BY DEF RunOnSlot
  <1>2. /\ dbPc \in [DbSessions -> {"idle", "statement", "begin", "beginning"}]
        /\ mine \in [DbSessions -> Seq(SUBSET (1 .. writes))]
        /\ writes \in Nat /\ writes <= MaxWrites /\ MaxWrites \in Nat
        /\ stored \subseteq 1 .. writes /\ acked \subseteq 1 .. writes /\ undone \subseteq 1 .. writes
    BY DbFacts
  <1>3. /\ writes' \in Nat /\ writes' <= MaxWrites /\ writes <= writes'
        /\ stored' \subseteq 1 .. writes' /\ acked' \subseteq 1 .. writes' /\ undone' \subseteq 1 .. writes'
    <2>1. writes' \in Nat /\ writes' <= MaxWrites /\ writes <= writes'
      BY <1>1, <1>2
    <2>2. 1 .. writes \subseteq 1 .. writes'
      BY <1>2, <2>1
    <2>3. CASE UNCHANGED <<writes, stored, acked>>
      BY <1>1, <1>2, <2>1, <2>3
    <2>4. CASE writes' = writes + 1 /\ stored' = stored \cup {writes'} /\ acked' = acked \cup {writes'}
      <3>1. writes' \in 1 .. writes'
        BY <1>2, <2>4
      <3> QED BY <1>1, <1>2, <2>1, <2>2, <2>4, <3>1
    <2> QED BY <1>1, <2>3, <2>4
  <1>4. DatabaseTypeOK'
    <2>1. dbPc' \in [DbSessions -> {"idle", "statement", "begin", "beginning"}] /\ writes' \in 0 .. MaxWrites
      BY <1>1, <1>2, <1>3
    <2> QED BY <1>1, <1>3, <2>1 DEF DatabaseInv, DbTypes, DatabaseTypeOK, Conns
  <1>5. HoldersInv'
    <2>1. \A t \in DbSessions : /\ (dbTx'[t] \/ dbPc'[t] = "beginning") <=> (dbTx[t] \/ dbPc[t] = "beginning")
                                /\ dbTx[t] => dbPc'[t] = dbPc[t]
      BY <1>1, <1>2 DEF DatabaseInv, HoldersInv
    <2> QED BY <1>1, <2>1 DEF DatabaseInv, HoldersInv, Holder
  <1>6. WorkInv'
    <2>1. CASE UNCHANGED <<writes, stored, acked>>
      BY <1>1, <2>1, WorkSame
    <2>2. CASE writes' = writes + 1 /\ stored' = stored \cup {writes'} /\ acked' = acked \cup {writes'}
      <3> SUFFICES ASSUME ~engineAborts PROVE WorkInv'
        BY <1>1 DEF WorkInv
      <3>1. WorkInv /\ WorkTruthful
        BY DEF DatabaseInv, WorkInv
      <3>2. \A t \in DbSessions : (Holds(frames[ConnOf(t)], mine[t]))' <=> Holds(frames[ConnOf(t)], mine[t])
        BY <1>1 DEF Holds, ConnOf
      <3>3. \A t \in DbSessions : \A i \in DOMAIN mine[t] : \A w \in mine[t][i] : w # writes'
        <4> SUFFICES ASSUME NEW t \in DbSessions, NEW i \in DOMAIN mine[t], NEW w \in mine[t][i] PROVE w # writes'
          OBVIOUS
        <4>1. mine[t] \in Seq(SUBSET (1 .. writes))
          BY <1>2
        <4>2. w \in 1 .. writes
          BY <4>1
        <4> QED BY <1>2, <2>2, <4>2
      <3>4. writes' \notin undone
        BY <1>2, <2>2
      <3>5. WorkTruthful'
        BY <1>1, <2>2, <3>1, <3>4 DEF WorkTruthful
      <3> QED BY <1>1, <2>2, <3>1, <3>2, <3>3, <3>4, <3>5 DEF WorkInv, Conns
    <2> QED BY <1>1, <2>1, <2>2
  <1> QED BY <1>1, <1>3, <1>4, <1>5, <1>6, SessionKeeps

(* take: the connection leaves the slot.                                   *)
LEMMA TakeConnectionKeeps ==
    ASSUME DatabaseInv, NEW s \in DbSessions, TakeConnection(s)
    PROVE  DatabaseInv'
  <1>1. /\ UNCHANGED <<adapter, engineAborts, dbWaiting, dbTx, savepoints, nextSavepoint,
                       frames, aborted, stored, begins, writes, mine, acked, undone>>
        /\ dbPc[s] = "begin" /\ dbPc' = [dbPc EXCEPT ![s] = "beginning"]
        /\ inSlot' = (adapter # "sqlite") /\ (adapter = "sqlite" => inSlot)
    BY DEF TakeConnection, Connected, engineVars, dbHistory
  <1>2. dbPc \in [DbSessions -> {"idle", "statement", "begin", "beginning"}]
    BY DbFacts
  <1>3. DatabaseTypeOK'
    <2>1. dbPc' \in [DbSessions -> {"idle", "statement", "begin", "beginning"}] /\ inSlot' \in BOOLEAN
      BY <1>1, <1>2
    <2> QED BY <1>1, <2>1 DEF DatabaseInv, DbTypes, DatabaseTypeOK, Conns
  <1>4. HoldersInv'
    <2>1. \A t \in DbSessions : dbTx[t] => dbPc'[t] = "idle"
      BY <1>1, <1>2 DEF DatabaseInv, HoldersInv
    <2>2. ASSUME adapter = "sqlite"
          PROVE  /\ \A t \in DbSessions : ~dbTx[t] /\ dbPc[t] # "beginning"
                 /\ \A t \in DbSessions : dbPc'[t] = "beginning" <=> t = s
                 /\ inSlot' = FALSE
      BY <1>1, <1>2, <2>2 DEF DatabaseInv, HoldersInv, Holder
    <2> QED BY <1>1, <2>1, <2>2 DEF HoldersInv, Holder
  <1>5. WorkInv'
    BY <1>1, WorkSame
  <1>6. writes' \in Nat /\ writes <= writes'
    BY <1>1, DbFacts
  <1> QED BY <1>1, <1>3, <1>4, <1>5, <1>6, SessionKeeps

(* GiveBack: nobody holds SQLite's connection any more.                    *)
LEMMA GiveBackFrees ==
    ASSUME DatabaseInv, NEW s \in DbSessions, Holder(s), GiveBack, adapter' = adapter,
           \A t \in DbSessions \ {s} : dbTx'[t] = dbTx[t] /\ dbPc'[t] = dbPc[t],
           dbTx'[s] = FALSE, dbPc'[s] = "idle"
    PROVE  HoldersInv' /\ inSlot' \in BOOLEAN /\ dbWaiting' \subseteq DbSessions
  <1>1. inSlot' \in BOOLEAN /\ dbWaiting' \subseteq DbSessions /\ (adapter = "sqlite" => inSlot' = TRUE)
    BY DEF GiveBack, Put, DatabaseInv, DbTypes, DatabaseTypeOK
  <1>2. \A t \in DbSessions : dbTx'[t] => dbPc'[t] = "idle"
    BY DEF DatabaseInv, HoldersInv
  <1>3. ASSUME adapter = "sqlite", NEW t \in DbSessions PROVE ~(dbTx'[t] \/ dbPc'[t] = "beginning")
    BY <1>3 DEF DatabaseInv, HoldersInv, Holder
  <1> QED BY <1>1, <1>2, <1>3 DEF HoldersInv, Holder

(* begin was refused.                                                      *)
LEMMA BeginFailsKeeps ==
    ASSUME DatabaseInv, NEW s \in DbSessions, BeginFails(s)
    PROVE  DatabaseInv'
  <1>1. /\ UNCHANGED <<adapter, engineAborts, dbTx, savepoints, nextSavepoint,
                       frames, aborted, stored, begins, writes, mine, acked, undone>>
        /\ dbPc[s] = "beginning" /\ dbPc' = [dbPc EXCEPT ![s] = "idle"] /\ GiveBack
    BY DEF BeginFails, engineVars, dbHistory
  <1>2. /\ dbPc \in [DbSessions -> {"idle", "statement", "begin", "beginning"}]
        /\ dbTx \in [DbSessions -> BOOLEAN]
    BY DbFacts
  <1>3. dbTx[s] = FALSE /\ Holder(s)
    BY <1>1, <1>2 DEF DatabaseInv, HoldersInv, Holder
  <1>4. HoldersInv' /\ inSlot' \in BOOLEAN /\ dbWaiting' \subseteq DbSessions
    <2>1. /\ \A t \in DbSessions \ {s} : dbTx'[t] = dbTx[t] /\ dbPc'[t] = dbPc[t]
          /\ dbTx'[s] = FALSE /\ dbPc'[s] = "idle"
      BY <1>1, <1>2, <1>3
    <2> QED BY <1>1, <1>3, <2>1, GiveBackFrees
  <1>5. DatabaseTypeOK'
    <2>1. dbPc' \in [DbSessions -> {"idle", "statement", "begin", "beginning"}]
      BY <1>1, <1>2
    <2> QED BY <1>1, <1>4, <2>1 DEF DatabaseInv, DbTypes, DatabaseTypeOK, Conns
  <1>6. WorkInv'
    BY <1>1, WorkSame
  <1>7. writes' \in Nat /\ writes <= writes'
    BY <1>1, DbFacts
  <1> QED BY <1>1, <1>4, <1>5, <1>6, <1>7, SessionKeeps

(* A statement, commit or savepoint of a session in a transaction, which   *)
(* stays in it.                                                            *)
LEMMA InTransactionKeeps ==
    ASSUME DatabaseInv, NEW s \in DbSessions, dbTx[s],
           UNCHANGED <<adapter, engineAborts, inSlot, dbWaiting, dbPc, dbTx, begins>>,
           NEW fs, NEW sp, NEW mn, NEW top \in 0 .. MaxSavepoints,
           writes' \in Nat, writes <= writes', writes' <= MaxWrites, aborted' \in [Conns -> BOOLEAN],
           stored' \subseteq 1 .. writes', acked' \subseteq 1 .. writes', undone' \subseteq 1 .. writes',
           fs \in Seq(DbFrames(writes')), sp \in Seq(1 .. MaxSavepoints), mn \in Seq(SUBSET (1 .. writes')),
           frames' = [frames EXCEPT ![ConnOf(s)] = fs], savepoints' = [savepoints EXCEPT ![s] = sp],
           mine' = [mine EXCEPT ![s] = mn], nextSavepoint' = [nextSavepoint EXCEPT ![s] = top],
           Rising(sp, top), InStep(fs, sp), Len(mn) = Len(sp) + 1, WorkInv'
    PROVE  DatabaseInv'
  <1>1. /\ savepoints \in [DbSessions -> Seq(1 .. MaxSavepoints)]
        /\ nextSavepoint \in [DbSessions -> 0 .. MaxSavepoints] /\ dbTx \in [DbSessions -> BOOLEAN]
        /\ MaxWrites \in Nat /\ writes \in Nat
    BY DbFacts
  <1>2. DatabaseTypeOK'
    <2>1. nextSavepoint' \in [DbSessions -> 0 .. MaxSavepoints] /\ writes' \in 0 .. MaxWrites
      BY <1>1
    <2>2. \A t \in DbSessions : savepoints'[t] \in Seq(1 .. MaxSavepoints)
      BY <1>1
    <2> QED BY <2>1, <2>2 DEF DatabaseInv, DbTypes, DatabaseTypeOK, Conns
  <1>3. HoldersInv'
    BY DEF DatabaseInv, HoldersInv, Holder
  <1>4. Holder(s) /\ TRUE \in BOOLEAN /\ dbTx' = [dbTx EXCEPT ![s] = TRUE]
    BY <1>1 DEF Holder
  <1> QED BY <1>2, <1>3, <1>4, HolderKeeps

(* The end of a transaction, however it comes.                             *)
LEMMA TransactionEndKeeps ==
    ASSUME DatabaseInv, NEW s \in DbSessions, dbTx[s], TransactionOver(s),
           UNCHANGED <<adapter, engineAborts, dbPc, begins, writes>>,
           NEW top \in 0 .. MaxSavepoints, nextSavepoint' = [nextSavepoint EXCEPT ![s] = top],
           frames' = [frames EXCEPT ![ConnOf(s)] = << >>], aborted' = [aborted EXCEPT ![ConnOf(s)] = FALSE],
           stored' \subseteq 1 .. writes, acked' \subseteq 1 .. writes, undone' \subseteq 1 .. writes,
           ~engineAborts =>
              /\ \A w \in 1 .. writes : w \in stored' \/ w \in undone' =>
                    w \in stored \/ w \in undone \/ \E k \in DOMAIN mine[s] : w \in mine[s][k]
              /\ acked' \subseteq stored' /\ undone' \cap stored' = {}
    PROVE  DatabaseInv'
  <1>1. /\ savepoints \in [DbSessions -> Seq(1 .. MaxSavepoints)] /\ aborted \in [Conns -> BOOLEAN]
        /\ nextSavepoint \in [DbSessions -> 0 .. MaxSavepoints] /\ dbTx \in [DbSessions -> BOOLEAN]
        /\ dbPc \in [DbSessions -> {"idle", "statement", "begin", "beginning"}]
        /\ writes \in Nat /\ writes <= writes /\ ConnOf(s) \in Conns
    BY DbFacts, ConnOfType
  <1>2. /\ dbTx' = [dbTx EXCEPT ![s] = FALSE] /\ savepoints' = [savepoints EXCEPT ![s] = << >>]
        /\ mine' = [mine EXCEPT ![s] = << >>] /\ GiveBack
    BY DEF TransactionOver
  <1>3. Holder(s) /\ dbPc[s] = "idle"
    BY DEF DatabaseInv, HoldersInv, Holder
  <1>4. HoldersInv' /\ inSlot' \in BOOLEAN /\ dbWaiting' \subseteq DbSessions
    <2>1. /\ \A t \in DbSessions \ {s} : dbTx'[t] = dbTx[t] /\ dbPc'[t] = dbPc[t]
          /\ dbTx'[s] = FALSE /\ dbPc'[s] = "idle" /\ adapter' = adapter
      BY <1>1, <1>2, <1>3
    <2> QED BY <1>2, <1>3, <2>1, GiveBackFrees
  <1>5. DatabaseTypeOK'
    <2>1. dbTx' \in [DbSessions -> BOOLEAN]
      BY <1>1, <1>2, Zenon
    <2>2. aborted' \in [Conns -> BOOLEAN]
      BY <1>1, Zenon
    <2>3. nextSavepoint' \in [DbSessions -> 0 .. MaxSavepoints]
      BY <1>1
    <2>4. \A t \in DbSessions : savepoints'[t] \in Seq(1 .. MaxSavepoints)
      <3>1. << >> \in Seq(1 .. MaxSavepoints)
        OBVIOUS
      <3> QED BY <1>1, <1>2, <3>1, Zenon
    <2> QED BY <1>4, <2>1, <2>3, <2>4, <2>2 DEF DatabaseInv, DbTypes, DatabaseTypeOK, Conns
  <1>6. ~engineAborts => \A c \in Conns : ~aborted'[c]
    BY <1>1 DEF DatabaseInv, WorkInv
  <1>7. WorkInv'
    <2>1. PICK b \in BOOLEAN : b = FALSE
      OBVIOUS
    <2> DEFINE fs == << >>
               mn == << >>
    <2>2. DOMAIN mn = {}
      OBVIOUS
    <2>3. \A i, j \in DOMAIN mn : \A w \in mn[i] : w \in mn[j] => i = j
      BY <2>2
    <2>4. \A i \in DOMAIN mn : \A w \in mn[i] : /\ w \notin stored' /\ w \notin undone'
                                                /\ w \in 1 .. writes => \E k \in DOMAIN mine[s] : w \in mine[s][k]
      BY <2>2
    <2>5. frames' = [frames EXCEPT ![ConnOf(s)] = fs] /\ mine' = [mine EXCEPT ![s] = mn]
      BY <1>2
    <2>6. writes' \in Nat /\ writes <= writes' /\ UNCHANGED <<adapter, engineAborts>> /\ dbTx' = [dbTx EXCEPT ![s] = b]
      BY <1>1, <1>2, <2>1
    <2> HIDE DEF fs, mn
    <2>7. ~engineAborts =>
              /\ \A c \in Conns : ~aborted'[c]
              /\ b => Holds(fs, mn)
              /\ \A i \in DOMAIN mn : \A w \in mn[i] :
                    /\ w \notin stored' /\ w \notin undone'
                    /\ w \in 1 .. writes => \E k \in DOMAIN mine[s] : w \in mine[s][k]
              /\ \A i, j \in DOMAIN mn : \A w \in mn[i] : w \in mn[j] => i = j
              /\ \A w \in 1 .. writes : w \in stored' \/ w \in undone' =>
                    w \in stored \/ w \in undone \/ \E k \in DOMAIN mine[s] : w \in mine[s][k]
              /\ acked' \subseteq stored' /\ undone' \cap stored' = {}
      BY <1>6, <2>1, <2>3, <2>4
    <2> QED BY <1>1, <1>3, <2>5, <2>6, <2>7, HolderKeepsWork
  <1>8. << >> \in Seq(DbFrames(writes')) /\ << >> \in Seq(1 .. MaxSavepoints) /\ << >> \in Seq(SUBSET (1 .. writes'))
    OBVIOUS
  <1>9. Rising(<< >>, top)
    BY DEF Rising
  <1>10. writes' = writes /\ FALSE \in BOOLEAN /\ UNCHANGED <<adapter, engineAborts>>
    OBVIOUS
  <1> QED BY <1>1, <1>2, <1>3, <1>4, <1>5, <1>7, <1>8, <1>9, <1>10, HolderKeeps

(* What a session wrote in its transaction.                                *)
LEMMA MineIs ==
    ASSUME DatabaseInv, NEW s \in DbSessions
    PROVE  /\ UNION Range(mine[s]) \subseteq 1 .. writes
           /\ \A w : w \in UNION Range(mine[s]) <=> \E k \in DOMAIN mine[s] : w \in mine[s][k]
  <1>1. mine[s] \in Seq(SUBSET (1 .. writes))
    BY DbFacts
  <1> QED BY <1>1 DEF Range

(* ... is what the engine has of it.                                       *)
LEMMA WorkIs ==
    ASSUME DatabaseInv, NEW s \in DbSessions, dbTx[s], ~engineAborts
    PROVE  Work(frames[ConnOf(s)]) = UNION Range(mine[s])
  <1>1. /\ mine[s] \in Seq(SUBSET (1 .. writes)) /\ frames[ConnOf(s)] \in Seq(DbFrames(writes))
    BY DbFacts, ConnOfType
  <1>2. Holds(frames[ConnOf(s)], mine[s])
    BY DEF DatabaseInv, WorkInv
  <1>3. DOMAIN frames[ConnOf(s)] = DOMAIN mine[s] /\ \A i \in DOMAIN mine[s] : frames[ConnOf(s)][i].work = mine[s][i]
    BY <1>1, <1>2 DEF Holds
  <1> QED BY <1>3 DEF Work, Range

(* begin: one frame, and no work yet.                                      *)
LEMMA BeginSucceedsKeeps ==
    ASSUME DatabaseInv, NEW s \in DbSessions, BeginSucceeds(s)
    PROVE  DatabaseInv'
  <1> DEFINE x == [name |-> Begun, work |-> {}]
             fs == << x >>
             mn == << {} >>
  <1>1. /\ dbPc[s] = "beginning" /\ dbPc' = [dbPc EXCEPT ![s] = "idle"]
        /\ dbTx' = [dbTx EXCEPT ![s] = TRUE] /\ savepoints' = [savepoints EXCEPT ![s] = << >>]
        /\ frames' = [frames EXCEPT ![ConnOf(s)] = fs] /\ mine' = [mine EXCEPT ![s] = mn]
        /\ UNCHANGED <<adapter, engineAborts, inSlot, dbWaiting, nextSavepoint, aborted, stored, begins,
                       writes, acked, undone>>
    BY DEF BeginSucceeds
  <1>2. /\ dbPc \in [DbSessions -> {"idle", "statement", "begin", "beginning"}]
        /\ dbTx \in [DbSessions -> BOOLEAN] /\ nextSavepoint \in [DbSessions -> 0 .. MaxSavepoints]
        /\ savepoints \in [DbSessions -> Seq(1 .. MaxSavepoints)]
        /\ writes \in Nat /\ writes' \in Nat /\ writes <= writes' /\ MaxSavepoints \in Nat
    BY <1>1, DbFacts
  <1>3. Holder(s)
    BY <1>1 DEF Holder
  <1>4. HoldersInv'
    <2>1. \A t \in DbSessions : /\ (dbTx'[t] \/ dbPc'[t] = "beginning") <=> (dbTx[t] \/ dbPc[t] = "beginning")
                                /\ dbTx'[t] => dbPc'[t] = "idle"
      BY <1>1, <1>2 DEF DatabaseInv, HoldersInv
    <2> QED BY <1>1, <2>1 DEF DatabaseInv, HoldersInv, Holder
  <1>5. DatabaseTypeOK'
    <2>1. dbPc' \in [DbSessions -> {"idle", "statement", "begin", "beginning"}]
      BY <1>1, <1>2
    <2>2. dbTx' \in [DbSessions -> BOOLEAN]
      BY <1>1, <1>2, Zenon
    <2>3. \A t \in DbSessions : savepoints'[t] \in Seq(1 .. MaxSavepoints)
      <3>1. << >> \in Seq(1 .. MaxSavepoints)
        OBVIOUS
      <3> QED BY <1>1, <1>2, <3>1, Zenon
    <2> QED BY <1>1, <2>1, <2>2, <2>3 DEF DatabaseInv, DbTypes, DatabaseTypeOK, Conns
  <1>6. x \in DbFrames(writes') /\ x.name = Begun /\ x.work = {}
    BY <1>2 DEF DbFrames, Begun
  <1>7. /\ fs \in Seq(DbFrames(writes')) /\ mn \in Seq(SUBSET (1 .. writes')) /\ << >> \in Seq(1 .. MaxSavepoints)
        /\ Len(fs) = 1 /\ Len(mn) = 1 /\ DOMAIN fs = {1} /\ DOMAIN mn = {1} /\ fs[1] = x /\ mn[1] = {}
    <2> HIDE DEF x
    <2> QED BY <1>6
  <1>8. InStep(fs, << >>) /\ Holds(fs, mn) /\ Len(mn) = Len(<< >>) + 1
    <2> HIDE DEF fs, mn, x
    <2>1. InStep(fs, << >>)
      BY <1>6, <1>7 DEF InStep
    <2>2. Holds(fs, mn)
      BY <1>6, <1>7 DEF Holds
    <2>3. Len(mn) = Len(<< >>) + 1
      BY <1>7
    <2> QED BY <2>1, <2>2, <2>3
  <1>9. Rising(<< >>, nextSavepoint[s])
    BY DEF Rising
  <1>10. PICK b \in BOOLEAN : b = TRUE
    OBVIOUS
  <1> HIDE DEF fs, mn, x
  <1>11. dbTx' = [dbTx EXCEPT ![s] = b]
    BY <1>1, <1>10
  <1>12. WorkInv'
    <2>1. ~engineAborts =>
              /\ \A c \in Conns : ~aborted'[c]
              /\ b => Holds(fs, mn)
              /\ \A i \in DOMAIN mn : \A w \in mn[i] :
                    /\ w \notin stored' /\ w \notin undone'
                    /\ w \in 1 .. writes => \E k \in DOMAIN mine[s] : w \in mine[s][k]
              /\ \A i, j \in DOMAIN mn : \A w \in mn[i] : w \in mn[j] => i = j
              /\ \A w \in 1 .. writes : w \in stored' \/ w \in undone' =>
                    w \in stored \/ w \in undone \/ \E k \in DOMAIN mine[s] : w \in mine[s][k]
              /\ acked' \subseteq stored' /\ undone' \cap stored' = {}
      BY <1>1, <1>7, <1>8 DEF DatabaseInv, WorkInv, WorkTruthful
    <2> QED BY <1>1, <1>2, <1>3, <1>11, <2>1, HolderKeepsWork
  <1>13. nextSavepoint' = [nextSavepoint EXCEPT ![s] = nextSavepoint[s]]
    BY <1>1, <1>2
  <1>14. /\ b => InStep(fs, << >>) /\ Len(mn) = Len(<< >>) + 1
         /\ ~b => fs = << >> /\ << >> = << >> /\ mn = << >>
    BY <1>8, <1>10
  <1> QED BY <1>1, <1>2, <1>3, <1>4, <1>5, <1>7, <1>9, <1>11, <1>12, <1>13, <1>14, HolderKeeps

(* An engine that ends a transaction on its own.                           *)
LEMMA EngineEndsKeeps ==
    ASSUME DatabaseInv, NEW s \in DbSessions, dbTx[s], engineAborts, 
           UNCHANGED <<adapter, engineAborts, inSlot, dbWaiting, dbPc, dbTx, savepoints, nextSavepoint,
                       aborted, stored, begins, writes, mine, acked, undone>>,
           frames' = [frames EXCEPT ![ConnOf(s)] = << >>]
    PROVE  DatabaseInv'
  <1>1. /\ nextSavepoint \in [DbSessions -> 0 .. MaxSavepoints] /\ MaxSavepoints \in Nat
        /\ savepoints \in [DbSessions -> Seq(1 .. MaxSavepoints)] /\ mine \in [DbSessions -> Seq(SUBSET (1 .. writes))]
        /\ aborted' \in [Conns -> BOOLEAN]
        /\ writes \in Nat /\ writes' \in Nat /\ writes <= writes' /\ writes' <= MaxWrites
        /\ stored' \subseteq 1 .. writes' /\ acked' \subseteq 1 .. writes' /\ undone' \subseteq 1 .. writes'
    BY DbFacts
  <1>2. /\ << >> \in Seq(DbFrames(writes')) /\ savepoints[s] \in Seq(1 .. MaxSavepoints)
        /\ mine[s] \in Seq(SUBSET (1 .. writes')) /\ nextSavepoint[s] \in 0 .. MaxSavepoints
    BY <1>1
  <1>3. /\ savepoints' = [savepoints EXCEPT ![s] = savepoints[s]] /\ mine' = [mine EXCEPT ![s] = mine[s]]
        /\ nextSavepoint' = [nextSavepoint EXCEPT ![s] = nextSavepoint[s]]
    BY <1>1
  <1>4. WorkInv'
    BY DEF WorkInv
  <1>5. Rising(savepoints[s], nextSavepoint[s]) /\ Len(mine[s]) = Len(savepoints[s]) + 1
    BY DEF DatabaseInv, SavepointsInv
  <1>6. InStep(<< >>, savepoints[s])
    BY DEF InStep
  <1> QED BY <1>1, <1>2, <1>3, <1>4, <1>5, <1>6, InTransactionKeeps

(* commit fails, and the transaction is over in the engine.                *)
LEMMA CommitFailsKeeps ==
    ASSUME DatabaseInv, NEW s \in DbSessions, CommitFails(s)
    PROVE  DatabaseInv'
  BY EngineEndsKeeps DEF CommitFails, dbHistory

(* commit: what was written is stored.                                     *)
LEMMA CommitKeeps ==
    ASSUME DatabaseInv, NEW s \in DbSessions, CommitSucceeds(s)
    PROVE  DatabaseInv'
  <1> DEFINE own == UNION Range(mine[s])
             work == Work(frames[ConnOf(s)])
  <1>1. /\ dbTx[s] /\ TransactionOver(s)
        /\ UNCHANGED <<adapter, engineAborts, dbPc, nextSavepoint, begins, writes, undone>>
        /\ stored' = IF aborted[ConnOf(s)] THEN stored ELSE stored \cup work
        /\ frames' = [frames EXCEPT ![ConnOf(s)] = << >>] /\ aborted' = [aborted EXCEPT ![ConnOf(s)] = FALSE]
        /\ acked' = acked \cup own
    BY DEF CommitSucceeds, EngineCommit
  <1>2. /\ nextSavepoint \in [DbSessions -> 0 .. MaxSavepoints] /\ frames[ConnOf(s)] \in Seq(DbFrames(writes))
        /\ stored \subseteq 1 .. writes /\ acked \subseteq 1 .. writes /\ undone \subseteq 1 .. writes
        /\ ConnOf(s) \in Conns
    BY DbFacts, ConnOfType
  <1>3. /\ own \subseteq 1 .. writes
        /\ \A w : w \in own <=> \E k \in DOMAIN mine[s] : w \in mine[s][k]
    BY MineIs
  <1>4. work \subseteq 1 .. writes
    <2>1. \A i \in DOMAIN frames[ConnOf(s)] : frames[ConnOf(s)][i].work \subseteq 1 .. writes
      <3>1. \A i \in DOMAIN frames[ConnOf(s)] : frames[ConnOf(s)][i] \in DbFrames(writes)
        BY <1>2
      <3> QED BY <3>1 DEF DbFrames
    <2> QED BY <2>1 DEF Work
  <1>5. ~engineAborts => work = own
    BY <1>1, WorkIs
  <1>6. ~engineAborts => /\ ~aborted[ConnOf(s)] /\ acked \subseteq stored /\ undone \cap stored = {}
                         /\ \A w \in own : w \notin undone
    BY <1>2, <1>3 DEF DatabaseInv, WorkInv, WorkTruthful
  <1> HIDE DEF own, work
  <1>7. stored' \subseteq 1 .. writes /\ acked' \subseteq 1 .. writes /\ undone' \subseteq 1 .. writes
    BY <1>1, <1>2, <1>3, <1>4
  <1>8. ~engineAborts =>
              /\ \A w \in 1 .. writes : w \in stored' \/ w \in undone' =>
                    w \in stored \/ w \in undone \/ \E k \in DOMAIN mine[s] : w \in mine[s][k]
              /\ acked' \subseteq stored' /\ undone' \cap stored' = {}
    BY <1>1, <1>3, <1>5, <1>6
  <1>9. nextSavepoint[s] \in 0 .. MaxSavepoints /\ nextSavepoint' = [nextSavepoint EXCEPT ![s] = nextSavepoint[s]]
    BY <1>1, <1>2
  <1> QED BY <1>1, <1>7, <1>8, <1>9, TransactionEndKeeps

(* rollback, and the drop of a session: nothing of it is stored.           *)
LEMMA UndoKeeps ==
    ASSUME DatabaseInv, NEW s \in DbSessions, dbTx[s], EngineRollback(ConnOf(s)), TransactionOver(s),
           undone' = undone \cup UNION Range(mine[s]),
           UNCHANGED <<adapter, engineAborts, dbPc, begins, writes, acked>>,
           NEW top \in 0 .. MaxSavepoints, nextSavepoint' = [nextSavepoint EXCEPT ![s] = top]
    PROVE  DatabaseInv'
  <1> DEFINE own == UNION Range(mine[s])
  <1>1. /\ stored' = stored /\ undone' = undone \cup own /\ acked' = acked
        /\ frames' = [frames EXCEPT ![ConnOf(s)] = << >>] /\ aborted' = [aborted EXCEPT ![ConnOf(s)] = FALSE]
    BY DEF EngineRollback
  <1>2. stored \subseteq 1 .. writes /\ acked \subseteq 1 .. writes /\ undone \subseteq 1 .. writes
    BY DbFacts
  <1>3. /\ own \subseteq 1 .. writes
        /\ \A w : w \in own <=> \E k \in DOMAIN mine[s] : w \in mine[s][k]
    BY MineIs
  <1>4. ~engineAborts => /\ acked \subseteq stored /\ undone \cap stored = {}
                         /\ \A w \in own : w \notin stored
    BY <1>3 DEF DatabaseInv, WorkInv, WorkTruthful
  <1> HIDE DEF own
  <1>5. stored' \subseteq 1 .. writes /\ acked' \subseteq 1 .. writes /\ undone' \subseteq 1 .. writes
    BY <1>1, <1>2, <1>3
  <1>6. ~engineAborts =>
              /\ \A w \in 1 .. writes : w \in stored' \/ w \in undone' =>
                    w \in stored \/ w \in undone \/ \E k \in DOMAIN mine[s] : w \in mine[s][k]
              /\ acked' \subseteq stored' /\ undone' \cap stored' = {}
    BY <1>1, <1>3, <1>4
  <1> QED BY <1>1, <1>5, <1>6, TransactionEndKeeps

(* rollback.                                                               *)
LEMMA TransactionRollbackKeeps ==
    ASSUME DatabaseInv, NEW s \in DbSessions, RollbackSucceeds(s)
    PROVE  DatabaseInv'
  <1>1. nextSavepoint[s] \in 0 .. MaxSavepoints /\ nextSavepoint' = [nextSavepoint EXCEPT ![s] = nextSavepoint[s]]
    BY DbFacts DEF RollbackSucceeds
  <1> QED BY <1>1, UndoKeeps DEF RollbackSucceeds

(* The end of a request.                                                   *)
LEMMA SessionDropKeeps ==
    ASSUME DatabaseInv, NEW s \in DbSessions, DropSession(s)
    PROVE  DatabaseInv'
  <1>1. /\ nextSavepoint \in [DbSessions -> 0 .. MaxSavepoints] /\ MaxSavepoints \in Nat /\ writes \in Nat
        /\ nextSavepoint' = [nextSavepoint EXCEPT ![s] = 0]
        /\ UNCHANGED <<adapter, engineAborts, dbPc, begins, writes, acked>>
    BY DbFacts DEF DropSession
  <1>2. 0 \in 0 .. MaxSavepoints
    BY <1>1
  <1>3. CASE dbTx[s]
    <2>1. EngineRollback(ConnOf(s)) /\ undone' = undone \cup UNION Range(mine[s]) /\ TransactionOver(s)
      BY <1>3 DEF DropSession, DropTransaction
    <2> QED BY <1>1, <1>2, <1>3, <2>1, UndoKeeps
  <1>4. CASE ~dbTx[s]
    <2>1. UNCHANGED <<frames, aborted, stored, undone, dbTx, savepoints, mine, inSlot, dbWaiting>>
      BY <1>4 DEF DropSession, engineVars
    <2>2. DatabaseTypeOK'
      <3>1. nextSavepoint' \in [DbSessions -> 0 .. MaxSavepoints]
        BY <1>1, <1>2
      <3> QED BY <1>1, <2>1, <3>1 DEF DatabaseInv, DbTypes, DatabaseTypeOK, Conns
    <2>3. HoldersInv'
      BY <1>1, <2>1 DEF DatabaseInv, HoldersInv, Holder
    <2>4. WorkInv'
      BY <1>1, <2>1, WorkSame
    <2>5. \A t \in DbSessions : nextSavepoint'[t] = nextSavepoint[t] \/ ~dbTx[t]
      BY <1>1, <1>4
    <2>6. writes' \in Nat /\ writes <= writes'
      BY <1>1
    <2> QED BY <1>1, <2>1, <2>2, <2>3, <2>4, <2>5, <2>6, SessionKeeps
  <1> QED BY <1>3, <1>4

(* A new frame for a new savepoint.                                        *)
LEMMA SavedInStep ==
    ASSUME NEW m \in Nat, NEW fs \in Seq(DbFrames(m)), NEW sp \in Seq(1 .. MaxSavepoints), NEW n \in 1 .. MaxSavepoints,
           InStep(fs, sp), NEW x \in DbFrames(m), x.name = n
    PROVE  InStep(Append(fs, x), Append(sp, n))
  <1> DEFINE r == Append(fs, x)
             q == Append(sp, n)
  <1>1. /\ Len(fs) \in Nat /\ Len(sp) \in Nat /\ DOMAIN fs = 1 .. Len(fs) /\ DOMAIN sp = 1 .. Len(sp)
        /\ Len(r) = Len(fs) + 1 /\ Len(q) = Len(sp) + 1 /\ DOMAIN r = 1 .. Len(fs) + 1 /\ DOMAIN q = 1 .. Len(sp) + 1
        /\ \A i \in 1 .. Len(fs) : r[i] = fs[i]
        /\ \A i \in 1 .. Len(sp) : q[i] = sp[i]
        /\ r[Len(fs) + 1] = x /\ q[Len(sp) + 1] = n
    <2> HIDE DEF DbFrames
    <2> QED OBVIOUS
  <1>2. n # Begun
    BY DEF Begun
  <1> HIDE DEF r, q
  <1> SUFFICES ASSUME NEW i \in DOMAIN r
               PROVE  IF r[i].name = Begun THEN i = 1
                      ELSE Len(q) - (Len(r) - i) \in DOMAIN q /\ q[Len(q) - (Len(r) - i)] = r[i].name
    BY DEF InStep, r, q
  <1>3. CASE i = Len(fs) + 1
    <2>1. r[i].name = n /\ Len(q) - (Len(r) - i) = Len(sp) + 1
      BY <1>1, <1>3
    <2> QED BY <1>1, <1>2, <2>1
  <1>4. CASE i \in 1 .. Len(fs)
    <2> DEFINE k == Len(sp) - (Len(fs) - i)
    <2>1. r[i] = fs[i] /\ Len(q) - (Len(r) - i) = k
      <3>1. i \in Int /\ Len(q) = Len(sp) + 1 /\ Len(r) = Len(fs) + 1 /\ Len(sp) \in Int /\ Len(fs) \in Int
        BY <1>1, <1>4
      <3>2. Len(q) - (Len(r) - i) = Len(sp) - (Len(fs) - i)
        BY <3>1
      <3> QED BY <1>1, <1>4, <3>2
    <2>2. IF fs[i].name = Begun THEN i = 1 ELSE k \in DOMAIN sp /\ sp[k] = fs[i].name
      BY <1>1, <1>4 DEF InStep
    <2> HIDE DEF k
    <2>3. k \in DOMAIN sp => k \in DOMAIN q /\ q[k] = sp[k]
      BY <1>1
    <2> QED BY <2>1, <2>2, <2>3
  <1> QED BY <1>1, <1>3, <1>4

(* A new number for the savepoints.                                        *)
LEMMA SavedRising ==
    ASSUME NEW sp \in Seq(1 .. MaxSavepoints), NEW top \in Nat, Rising(sp, top), top + 1 <= MaxSavepoints, MaxSavepoints \in Nat
    PROVE  /\ Rising(sp, top + 1) /\ Rising(Append(sp, top + 1), top + 1)
           /\ Append(sp, top + 1) \in Seq(1 .. MaxSavepoints) /\ Len(Append(sp, top + 1)) = Len(sp) + 1
  <1> DEFINE q == Append(sp, top + 1)
  <1>1. \A i \in DOMAIN sp : sp[i] \in Nat /\ sp[i] <= top
    BY DEF Rising
  <1>2. /\ Len(sp) \in Nat /\ DOMAIN sp = 1 .. Len(sp) /\ q \in Seq(1 .. MaxSavepoints)
        /\ Len(q) = Len(sp) + 1 /\ DOMAIN q = 1 .. Len(sp) + 1
        /\ \A i \in 1 .. Len(sp) : q[i] = sp[i]
        /\ q[Len(sp) + 1] = top + 1
    OBVIOUS
  <1> HIDE DEF q
  <1>3. Rising(sp, top + 1)
    BY <1>1 DEF Rising
  <1>4. \A i, j \in DOMAIN q : i < j => q[i] < q[j]
    <2> SUFFICES ASSUME NEW i \in DOMAIN q, NEW j \in DOMAIN q, i < j PROVE q[i] < q[j]
      OBVIOUS
    <2>1. i \in DOMAIN sp /\ q[i] = sp[i]
      BY <1>2
    <2>2. CASE j = Len(sp) + 1
      BY <1>1, <1>2, <2>1, <2>2
    <2>3. CASE j \in DOMAIN sp
      BY <1>2, <2>1, <2>3 DEF Rising
    <2> QED BY <1>2, <2>2, <2>3
  <1>5. \A i \in DOMAIN q : q[i] <= top + 1
    BY <1>1, <1>2
  <1> QED BY <1>2, <1>3, <1>4, <1>5 DEF Rising, q

(* What a session in a transaction has.                                    *)
LEMMA TransactionFacts ==
    ASSUME DatabaseInv, NEW s \in DbSessions, dbTx[s]
    PROVE  /\ frames[ConnOf(s)] \in Seq(DbFrames(writes)) /\ savepoints[s] \in Seq(1 .. MaxSavepoints)
           /\ mine[s] \in Seq(SUBSET (1 .. writes)) /\ nextSavepoint[s] \in 0 .. MaxSavepoints
           /\ Rising(savepoints[s], nextSavepoint[s]) /\ InStep(frames[ConnOf(s)], savepoints[s])
           /\ Len(mine[s]) = Len(savepoints[s]) + 1 /\ Len(savepoints[s]) \in Nat
           /\ DOMAIN mine[s] = 1 .. Len(mine[s]) /\ DOMAIN frames[ConnOf(s)] = 1 .. Len(frames[ConnOf(s)])
           /\ mine[s] # << >>
           /\ ~engineAborts =>
                 /\ Holds(frames[ConnOf(s)], mine[s]) /\ frames[ConnOf(s)] # << >>
                 /\ \A c \in Conns : ~aborted[c]
                 /\ \A i \in DOMAIN mine[s] : \A w \in mine[s][i] : w \notin stored /\ w \notin undone
                 /\ \A i, j \in DOMAIN mine[s] : \A w \in mine[s][i] : w \in mine[s][j] => i = j
                 /\ acked \subseteq stored /\ undone \cap stored = {}
  <1>1. /\ frames[ConnOf(s)] \in Seq(DbFrames(writes)) /\ savepoints[s] \in Seq(1 .. MaxSavepoints)
        /\ mine[s] \in Seq(SUBSET (1 .. writes)) /\ nextSavepoint[s] \in 0 .. MaxSavepoints
    BY DbFacts, ConnOfType
  <1>2. /\ Rising(savepoints[s], nextSavepoint[s]) /\ InStep(frames[ConnOf(s)], savepoints[s])
        /\ Len(mine[s]) = Len(savepoints[s]) + 1
    BY DEF DatabaseInv, SavepointsInv
  <1> HIDE DEF DbFrames
  <1>3. /\ Len(savepoints[s]) \in Nat /\ DOMAIN mine[s] = 1 .. Len(mine[s])
        /\ DOMAIN frames[ConnOf(s)] = 1 .. Len(frames[ConnOf(s)])
    BY <1>1
  <1>4. mine[s] # << >>
    BY <1>1, <1>2, <1>3
  <1>5. ASSUME ~engineAborts
        PROVE  /\ Holds(frames[ConnOf(s)], mine[s])
               /\ \A c \in Conns : ~aborted[c]
               /\ \A i \in DOMAIN mine[s] : \A w \in mine[s][i] : w \notin stored /\ w \notin undone
               /\ \A i, j \in DOMAIN mine[s] : \A w \in mine[s][i] : w \in mine[s][j] => i = j
               /\ acked \subseteq stored /\ undone \cap stored = {}
    BY <1>5 DEF DatabaseInv, WorkInv, WorkTruthful
  <1>6. ~engineAborts => frames[ConnOf(s)] # << >>
    BY <1>1, <1>2, <1>3, <1>5 DEF Holds
  <1> QED BY <1>1, <1>2, <1>3, <1>4, <1>5, <1>6

(* What a step in a transaction must show.                                 *)
LEMMA TransactionKeeps ==
    ASSUME DatabaseInv, NEW s \in DbSessions, dbTx[s],
           UNCHANGED <<adapter, engineAborts, inSlot, dbWaiting, dbPc, dbTx, begins, acked>>,
           NEW fs, NEW sp, NEW mn, NEW top \in 0 .. MaxSavepoints,
           writes' \in Nat, writes <= writes', writes' <= MaxWrites, aborted' \in [Conns -> BOOLEAN],
           stored' \subseteq 1 .. writes', undone' \subseteq 1 .. writes',
           fs \in Seq(DbFrames(writes')), sp \in Seq(1 .. MaxSavepoints), mn \in Seq(SUBSET (1 .. writes')),
           frames' = [frames EXCEPT ![ConnOf(s)] = fs], savepoints' = [savepoints EXCEPT ![s] = sp],
           mine' = [mine EXCEPT ![s] = mn], nextSavepoint' = [nextSavepoint EXCEPT ![s] = top],
           Rising(sp, top), InStep(fs, sp), Len(mn) = Len(sp) + 1,
           ~engineAborts =>
              /\ stored' = stored /\ undone \subseteq undone'
              /\ \A c \in Conns : ~aborted'[c]
              /\ Holds(fs, mn)
              /\ \A i \in DOMAIN mn : \A w \in mn[i] :
                    /\ w \notin stored /\ w \notin undone'
                    /\ w \in 1 .. writes => \E k \in DOMAIN mine[s] : w \in mine[s][k]
              /\ \A i, j \in DOMAIN mn : \A w \in mn[i] : w \in mn[j] => i = j
              /\ \A w \in undone' : w \in undone \/ \E k \in DOMAIN mine[s] : w \in mine[s][k]
    PROVE  DatabaseInv'
  <1>1. Holder(s)
    BY DEF Holder
  <1>2. /\ dbTx \in [DbSessions -> BOOLEAN] /\ writes \in Nat /\ acked \subseteq 1 .. writes
    BY DbFacts
  <1>3. acked' \subseteq 1 .. writes'
    BY <1>2
  <1>4. PICK b \in BOOLEAN : b = TRUE
    OBVIOUS
  <1>5. dbTx' = [dbTx EXCEPT ![s] = b]
    BY <1>2, <1>4
  <1>6. ~engineAborts =>
              /\ \A c \in Conns : ~aborted'[c]
              /\ b => Holds(fs, mn)
              /\ \A i \in DOMAIN mn : \A w \in mn[i] :
                    /\ w \notin stored' /\ w \notin undone'
                    /\ w \in 1 .. writes => \E k \in DOMAIN mine[s] : w \in mine[s][k]
              /\ \A i, j \in DOMAIN mn : \A w \in mn[i] : w \in mn[j] => i = j
              /\ \A w \in 1 .. writes : w \in stored' \/ w \in undone' =>
                    w \in stored \/ w \in undone \/ \E k \in DOMAIN mine[s] : w \in mine[s][k]
              /\ acked' \subseteq stored' /\ undone' \cap stored' = {}
    BY TransactionFacts
  <1>7. WorkInv'
    BY <1>1, <1>5, <1>6, HolderKeepsWork
  <1> QED BY <1>3, <1>7, InTransactionKeeps

(* A savepoint, or a number lost to a refusal.                             *)
LEMMA SavepointKeeps ==
    ASSUME DatabaseInv, NEW s \in DbSessions, Savepoint(s)
    PROVE  DatabaseInv'
  <1> DEFINE c == ConnOf(s)
             n == nextSavepoint[s] + 1
             x == [name |-> n, work |-> {}]
  <1>1. /\ dbTx[s] /\ nextSavepoint[s] < MaxSavepoints
        /\ nextSavepoint' = [nextSavepoint EXCEPT ![s] = n]
        /\ UNCHANGED <<adapter, engineAborts, inSlot, dbWaiting, dbPc, dbTx, begins, acked>>
        /\ writes' = writes /\ undone' = undone
        /\ aborted' = aborted /\ stored' = stored
    BY DEF Savepoint, EngineSavepoint, engineVars
  <1>2. /\ frames[c] \in Seq(DbFrames(writes)) /\ savepoints[s] \in Seq(1 .. MaxSavepoints)
        /\ mine[s] \in Seq(SUBSET (1 .. writes)) /\ nextSavepoint[s] \in 0 .. MaxSavepoints
        /\ Rising(savepoints[s], nextSavepoint[s]) /\ InStep(frames[c], savepoints[s])
        /\ Len(mine[s]) = Len(savepoints[s]) + 1 /\ Len(savepoints[s]) \in Nat
        /\ DOMAIN mine[s] = 1 .. Len(mine[s]) /\ DOMAIN frames[c] = 1 .. Len(frames[c])
    BY <1>1, TransactionFacts
  <1>3. /\ frames \in [Conns -> Seq(DbFrames(writes))] /\ mine \in [DbSessions -> Seq(SUBSET (1 .. writes))]
        /\ savepoints \in [DbSessions -> Seq(1 .. MaxSavepoints)] /\ MaxSavepoints \in Nat
        /\ writes' \in Nat /\ writes <= writes' /\ writes' <= MaxWrites /\ aborted' \in [Conns -> BOOLEAN]
        /\ stored' \subseteq 1 .. writes' /\ undone' \subseteq 1 .. writes' /\ c \in Conns
    BY <1>1, DbFacts, ConnOfType
  <1>4. n \in 1 .. MaxSavepoints /\ n \in 0 .. MaxSavepoints /\ nextSavepoint[s] \in Nat
    BY <1>1, <1>2, <1>3
  <1>5. /\ Rising(savepoints[s], n) /\ Rising(Append(savepoints[s], n), n)
        /\ Append(savepoints[s], n) \in Seq(1 .. MaxSavepoints)
        /\ Len(Append(savepoints[s], n)) = Len(savepoints[s]) + 1
    <2>1. nextSavepoint[s] + 1 <= MaxSavepoints
      BY <1>3, <1>4
    <2> QED BY <1>2, <1>3, <1>4, <2>1, SavedRising
  <1>6. ASSUME frames' = frames, savepoints' = savepoints, mine' = mine
        PROVE  DatabaseInv'
    <2>1. /\ frames' = [frames EXCEPT ![c] = frames[c]] /\ savepoints' = [savepoints EXCEPT ![s] = savepoints[s]]
          /\ mine' = [mine EXCEPT ![s] = mine[s]]
      BY <1>3, <1>6
    <2>2. WorkInv'
      BY <1>1, <1>6, WorkSame
    <2>3. frames[c] \in Seq(DbFrames(writes')) /\ mine[s] \in Seq(SUBSET (1 .. writes')) /\ acked' \subseteq 1 .. writes'
      BY <1>1, <1>2, DbFacts
    <2> HIDE DEF c, n
    <2> QED BY <1>1, <1>2, <1>3, <1>4, <1>5, <2>1, <2>2, <2>3, InTransactionKeeps DEF c
  <1>7. ASSUME EngineSavepoint(c, n), savepoints' = [savepoints EXCEPT ![s] = Append(@, n)],
               mine' = [mine EXCEPT ![s] = Append(@, {})]
        PROVE  DatabaseInv'
    <2> DEFINE fs == IF frames[c] = << >> /\ adapter = "mysql" THEN frames[c] ELSE Append(frames[c], x)
               mn == Append(mine[s], {})
    <2>1. x \in DbFrames(writes') /\ x.name = n /\ x.work = {}
      BY <1>4 DEF DbFrames
    <2>2. frames' = [frames EXCEPT ![c] = fs]
      BY <1>3, <1>7 DEF EngineSavepoint
    <2>3. /\ savepoints' = [savepoints EXCEPT ![s] = Append(savepoints[s], n)]
          /\ mine' = [mine EXCEPT ![s] = mn]
      BY <1>3, <1>7
    <2>4. /\ mn \in Seq(SUBSET (1 .. writes')) /\ Len(mn) = Len(mine[s]) + 1 /\ DOMAIN mn = 1 .. Len(mine[s]) + 1
          /\ \A i \in 1 .. Len(mine[s]) : mn[i] = mine[s][i]
          /\ mn[Len(mine[s]) + 1] = {}
      BY <1>1, <1>2
    <2>5. fs \in Seq(DbFrames(writes')) /\ InStep(fs, Append(savepoints[s], n))
      <3>1. CASE frames[c] = << >> /\ adapter = "mysql"
        BY <1>1, <1>2, <3>1 DEF InStep
      <3>2. CASE ~(frames[c] = << >> /\ adapter = "mysql")
        <4>1. fs = Append(frames[c], x)
          BY <3>2
        <4>2. Append(frames[c], x) \in Seq(DbFrames(writes'))
          <5> HIDE DEF x
          <5> QED BY <1>1, <1>2, <2>1
        <4>3. InStep(Append(frames[c], x), Append(savepoints[s], n))
          <5> HIDE DEF x, n
          <5> QED BY <1>1, <1>2, <1>3, <1>4, <2>1, SavedInStep
        <4> QED BY <4>1, <4>2, <4>3
      <3> QED BY <3>1, <3>2
    <2>6. ASSUME ~engineAborts
          PROVE  /\ stored' = stored /\ undone \subseteq undone'
                 /\ \A d \in Conns : ~aborted'[d]
                 /\ Holds(fs, mn)
                 /\ \A i \in DOMAIN mn : \A w \in mn[i] :
                    /\ w \notin stored /\ w \notin undone'
                    /\ w \in 1 .. writes => \E k \in DOMAIN mine[s] : w \in mine[s][k]
                 /\ \A i, j \in DOMAIN mn : \A w \in mn[i] : w \in mn[j] => i = j
                 /\ \A w \in undone' : w \in undone \/ \E k \in DOMAIN mine[s] : w \in mine[s][k]
      <3>1. /\ Holds(frames[c], mine[s]) /\ frames[c] # << >>
            /\ \A d \in Conns : ~aborted[d]
            /\ \A i \in DOMAIN mine[s] : \A w \in mine[s][i] : w \notin stored /\ w \notin undone
            /\ \A i, j \in DOMAIN mine[s] : \A w \in mine[s][i] : w \in mine[s][j] => i = j
        BY <1>1, <2>6, TransactionFacts
      <3>2. fs = Append(frames[c], x)
        BY <3>1
      <3>3. /\ Len(fs) = Len(frames[c]) + 1 /\ \A i \in 1 .. Len(frames[c]) : fs[i] = frames[c][i]
            /\ fs[Len(frames[c]) + 1] = x
        <4> HIDE DEF x
        <4> QED BY <1>2, <2>1, <3>2
      <3> HIDE DEF fs, mn, x
      <3>4. Holds(fs, mn)
        <4>1. Len(frames[c]) = Len(mine[s]) /\ \A i \in 1 .. Len(mine[s]) : frames[c][i].work = mine[s][i]
          BY <1>2, <3>1 DEF Holds
        <4>2. \A i \in 1 .. Len(mine[s]) : fs[i].work = mn[i]
          BY <2>4, <3>3, <4>1
        <4>3. fs[Len(mine[s]) + 1].work = mn[Len(mine[s]) + 1]
          BY <2>1, <2>4, <3>3, <4>1
        <4>4. Len(mine[s]) \in Nat
          BY <1>2
        <4>5. \A i \in DOMAIN mn : i \in 1 .. Len(mine[s]) \/ i = Len(mine[s]) + 1
          BY <2>4, <4>4
        <4>6. \A i \in DOMAIN mn : fs[i].work = mn[i]
          BY <4>2, <4>3, <4>5
        <4>7. Len(fs) = Len(mn)
          BY <2>4, <3>3, <4>1
        <4> QED BY <4>6, <4>7 DEF Holds
      <3>5. \A i \in DOMAIN mn : \A w \in mn[i] : i \in DOMAIN mine[s] /\ w \in mine[s][i]
        BY <1>2, <2>4
      <3> QED BY <1>1, <3>1, <3>4, <3>5
    <2> HIDE DEF fs, mn, n, x
    <2>7. Len(mn) = Len(Append(savepoints[s], n)) + 1
      BY <1>2, <1>5, <2>4
    <2> QED BY <1>1, <1>3, <1>4, <1>5, <2>2, <2>3, <2>4, <2>5, <2>6, <2>7, TransactionKeeps DEF c
  <1>8. \/ frames' = frames /\ savepoints' = savepoints /\ mine' = mine
        \/ EngineSavepoint(c, n) /\ savepoints' = [savepoints EXCEPT ![s] = Append(@, n)]
           /\ mine' = [mine EXCEPT ![s] = Append(@, {})]
    BY DEF Savepoint, engineVars
  <1> QED BY <1>6, <1>7, <1>8

(* A statement in a transaction, and one that fails there.                 *)
LEMMA RunInTransactionKeeps ==
    ASSUME DatabaseInv, NEW s \in DbSessions, RunInTransaction(s)
    PROVE  DatabaseInv'
  <1> DEFINE c == ConnOf(s)
  <1>1. /\ dbTx[s]
        /\ UNCHANGED <<adapter, engineAborts, inSlot, dbWaiting, dbPc, dbTx, begins, acked>>
        /\ savepoints' = savepoints /\ nextSavepoint' = nextSavepoint /\ undone' = undone
    BY DEF RunInTransaction
  <1>2. /\ frames[c] \in Seq(DbFrames(writes)) /\ savepoints[s] \in Seq(1 .. MaxSavepoints)
        /\ mine[s] \in Seq(SUBSET (1 .. writes)) /\ nextSavepoint[s] \in 0 .. MaxSavepoints
        /\ Rising(savepoints[s], nextSavepoint[s]) /\ InStep(frames[c], savepoints[s])
        /\ Len(mine[s]) = Len(savepoints[s]) + 1
        /\ DOMAIN mine[s] = 1 .. Len(mine[s]) /\ DOMAIN frames[c] = 1 .. Len(frames[c])
        /\ mine[s] # << >>
    BY <1>1, TransactionFacts
  <1>3. /\ frames \in [Conns -> Seq(DbFrames(writes))] /\ mine \in [DbSessions -> Seq(SUBSET (1 .. writes))]
        /\ savepoints \in [DbSessions -> Seq(1 .. MaxSavepoints)] /\ nextSavepoint \in [DbSessions -> 0 .. MaxSavepoints]
        /\ writes \in Nat /\ aborted \in [Conns -> BOOLEAN] /\ MaxWrites \in Nat
        /\ stored \subseteq 1 .. writes /\ undone \subseteq 1 .. writes /\ c \in Conns
    BY DbFacts, ConnOfType
  <1>4. ASSUME EngineStatementFails(c), UNCHANGED <<writes, stored, mine>>
        PROVE  DatabaseInv'
    <2>1. CASE engineAborts /\ frames' = [frames EXCEPT ![c] = << >>] /\ UNCHANGED aborted
      BY <1>1, <1>4, <2>1, EngineEndsKeeps
    <2>2. CASE frames' = frames /\ aborted' \in [Conns -> BOOLEAN] /\ (engineAborts \/ aborted' = aborted)
      <3>1. WorkInv'
        <4>1. CASE engineAborts
          BY <1>1, <4>1 DEF WorkInv
        <4>2. CASE aborted' = aborted
          BY <1>1, <1>4, <2>2, <4>2, WorkSame
        <4> QED BY <2>2, <4>1, <4>2
      <3>2. DatabaseTypeOK'
        BY <1>1, <1>4, <2>2 DEF DatabaseInv, DbTypes, DatabaseTypeOK, Conns
      <3>3. HoldersInv'
        BY <1>1 DEF DatabaseInv, HoldersInv, Holder
      <3>4. writes' \in Nat /\ writes <= writes' /\ \A t \in DbSessions : nextSavepoint'[t] = nextSavepoint[t] \/ ~dbTx[t]
        BY <1>1, <1>3, <1>4
      <3> QED BY <1>1, <1>4, <2>2, <3>1, <3>2, <3>3, <3>4, SessionKeeps
    <2>3. CASE engineAborts /\ frames' = frames /\ aborted' = [aborted EXCEPT ![c] = TRUE]
      <3>1. aborted' \in [Conns -> BOOLEAN]
        BY <1>3, <2>3, Zenon
      <3> QED BY <2>2, <2>3, <3>1
    <2> QED BY <1>3, <1>4, <2>1, <2>2, <2>3 DEF EngineStatementFails
  <1>5. ASSUME writes < MaxWrites, writes' = writes + 1, EngineWrite(c, writes'),
               mine' = [mine EXCEPT ![s] = AddTo(@, writes')], UNCHANGED aborted
        PROVE  DatabaseInv'
    <2> DEFINE W == {writes'}
               x == [name |-> frames[c][Len(frames[c])].name, work |-> frames[c][Len(frames[c])].work \cup W]
               fs == IF frames[c] # << >>
                     THEN [frames[c] EXCEPT ![Len(frames[c])] = x]
                     ELSE frames[c]
               mn == [mine[s] EXCEPT ![Len(mine[s])] = @ \cup W]
    <2>1. /\ writes' \in Nat /\ writes <= writes' /\ writes' <= MaxWrites /\ aborted' \in [Conns -> BOOLEAN]
          /\ W \in SUBSET (1 .. writes')
      BY <1>3, <1>5
    <2>2. stored' \subseteq 1 .. writes' /\ undone' \subseteq 1 .. writes'
      <3>1. 1 .. writes \subseteq 1 .. writes'
        BY <1>3, <1>5
      <3>2. stored' \subseteq stored \cup W
        BY <1>5 DEF EngineWrite
      <3> QED BY <1>1, <1>3, <2>1, <3>1, <3>2
    <2>3. frames' = [frames EXCEPT ![c] = fs]
      <3>1. CASE frames[c] = << >>
        BY <1>3, <1>5, <3>1 DEF EngineWrite
      <3>2. CASE frames[c] # << >>
        <4>1. frames[c][Len(frames[c])] \in DbFrames(writes)
          BY <1>2, <3>2
        <4>2. x = [frames[c][Len(frames[c])] EXCEPT !.work = frames[c][Len(frames[c])].work \cup W]
          BY <4>1, MoreWork
        <4> HIDE DEF x
        <4> QED BY <1>5, <3>2, <4>2 DEF EngineWrite
      <3> QED BY <3>1, <3>2
    <2>4. mine' = [mine EXCEPT ![s] = mn]
      BY <1>3, <1>5 DEF AddTo
    <2>5. /\ savepoints' = [savepoints EXCEPT ![s] = savepoints[s]]
          /\ nextSavepoint' = [nextSavepoint EXCEPT ![s] = nextSavepoint[s]]
      BY <1>1, <1>3
    <2> HIDE DEF c, W
    <2>6. /\ fs \in Seq(DbFrames(writes')) /\ InStep(fs, savepoints[s])
          /\ frames[c] # << >> =>
                /\ Len(fs) = Len(frames[c]) /\ Len(frames[c]) \in Nat \ {0}
                /\ \A i \in 1 .. Len(frames[c]) :
                      fs[i].work = IF i = Len(frames[c]) THEN frames[c][i].work \cup W ELSE frames[c][i].work
      <3>1. CASE frames[c] = << >>
        BY <1>2, <3>1
      <3>2. CASE frames[c] # << >>
        <4> DEFINE r == [frames[c] EXCEPT ![Len(frames[c])] = x]
        <4>1. /\ r \in Seq(DbFrames(writes')) /\ Len(r) = Len(frames[c]) /\ Len(frames[c]) \in Nat \ {0}
              /\ \A i \in 1 .. Len(frames[c]) : r[i].name = frames[c][i].name
              /\ \A i \in 1 .. Len(frames[c]) :
                    r[i].work = IF i = Len(frames[c]) THEN frames[c][i].work \cup W ELSE frames[c][i].work
          <5> DEFINE g == frames[c]
                     k == writes'
          <5>1. /\ writes \in Nat /\ k \in Nat /\ writes <= k /\ g \in Seq(DbFrames(writes))
                /\ g # << >> /\ W \in SUBSET (1 .. k)
            BY <1>2, <1>3, <2>1, <3>2
          <5>2. r = [g EXCEPT ![Len(g)] = x]
            OBVIOUS
          <5>3. x.name = g[Len(g)].name /\ x.work = g[Len(g)].work \cup W
            OBVIOUS
          <5> HIDE DEF g, k, fs, mn
          <5>4. x \in DbFrames(k)
            <6>1. g[Len(g)] \in DbFrames(writes) /\ 1 .. writes \subseteq 1 .. k
              BY <5>1
            <6> QED BY <5>1, <6>1 DEF DbFrames, g
          <5> HIDE DEF r, x
          <5>5. /\ r \in Seq(DbFrames(k)) /\ Len(r) = Len(g) /\ Len(g) \in Nat \ {0}
                /\ \A i \in 1 .. Len(g) : r[i] = IF i = Len(g) THEN x ELSE g[i]
            BY <5>1, <5>2, <5>4, TopReplaced
          <5>6. \A i \in 1 .. Len(g) : /\ r[i].name = g[i].name
                                       /\ r[i].work = IF i = Len(g) THEN g[i].work \cup W ELSE g[i].work
            BY <5>3, <5>5
          <5> QED BY <5>5, <5>6 DEF g, k
        <4>2. fs = r
          BY <3>2
        <4> HIDE DEF fs, r
        <4>3. InStep(r, savepoints[s])
          BY <1>2, <1>3, <2>1, <4>1, SameNames
        <4> QED BY <4>1, <4>2, <4>3
      <3> QED BY <3>1, <3>2
    <2>7. /\ mn \in Seq(SUBSET (1 .. writes')) /\ Len(mn) = Len(mine[s]) /\ Len(mine[s]) \in Nat \ {0}
          /\ DOMAIN mn = 1 .. Len(mine[s])
          /\ \A i \in 1 .. Len(mine[s]) : mn[i] = IF i = Len(mine[s]) THEN mine[s][i] \cup W ELSE mine[s][i]
      BY <1>2, <1>3, <2>1, WorkOnLast
    <2>8. ASSUME ~engineAborts
          PROVE  /\ stored' = stored /\ undone \subseteq undone'
                 /\ \A d \in Conns : ~aborted'[d]
                 /\ Holds(fs, mn)
                 /\ \A i \in DOMAIN mn : \A w \in mn[i] :
                    /\ w \notin stored /\ w \notin undone'
                    /\ w \in 1 .. writes => \E k \in DOMAIN mine[s] : w \in mine[s][k]
                 /\ \A i, j \in DOMAIN mn : \A w \in mn[i] : w \in mn[j] => i = j
                 /\ \A w \in undone' : w \in undone \/ \E k \in DOMAIN mine[s] : w \in mine[s][k]
      <3>1. /\ Holds(frames[c], mine[s]) /\ frames[c] # << >>
            /\ \A d \in Conns : ~aborted[d]
            /\ \A i \in DOMAIN mine[s] : \A w \in mine[s][i] : w \notin stored /\ w \notin undone
            /\ \A i, j \in DOMAIN mine[s] : \A w \in mine[s][i] : w \in mine[s][j] => i = j
        BY <1>1, <2>8, TransactionFacts DEF c
      <3>2. stored' = stored
        BY <1>5, <3>1 DEF EngineWrite
      <3> HIDE DEF fs, mn
      <3>3. Len(fs) = Len(mn) /\ \A i \in DOMAIN mn : fs[i].work = mn[i]
        BY <1>2, <2>6, <2>7, <3>1 DEF Holds
      <3>4. \A i \in DOMAIN mine[s] : \A w \in mine[s][i] : w \in 1 .. writes
        BY <1>2
      <3>5. writes' \notin stored /\ writes' \notin undone /\ writes' \notin 1 .. writes
        BY <1>3, <1>5
      <3>6. \A i \in DOMAIN mn : \A w \in mn[i] :
               \/ i \in DOMAIN mine[s] /\ w \in mine[s][i] /\ w \in 1 .. writes
               \/ w = writes' /\ i = Len(mine[s])
        BY <1>2, <2>7, <3>4 DEF W
      <3>7. ASSUME NEW i \in DOMAIN mn, NEW j \in DOMAIN mn, NEW w \in mn[i], w \in mn[j] PROVE i = j
        BY <3>1, <3>5, <3>6, <3>7
      <3> QED BY <1>1, <1>5, <3>1, <3>2, <3>3, <3>5, <3>6, <3>7 DEF Holds
    <2> HIDE DEF fs, mn
    <2>9. Len(mn) = Len(savepoints[s]) + 1
      BY <1>2, <2>7
    <2> QED BY <1>1, <1>2, <2>1, <2>2, <2>3, <2>4, <2>5, <2>6, <2>7, <2>8, <2>9, TransactionKeeps DEF c
  <1> QED BY <1>4, <1>5 DEF RunInTransaction

(* The work of the frame on top.                                           *)
LEMMA TopWork ==
    ASSUME NEW m \in Nat, NEW fs \in Seq(DbFrames(m)), fs # << >>
    PROVE  /\ Work(SubSeq(fs, Len(fs), Len(fs))) = fs[Len(fs)].work
           /\ fs[Len(fs)].work \in SUBSET (1 .. m)
  <1> DEFINE q == SubSeq(fs, Len(fs), Len(fs))
  <1>1. Len(fs) \in Nat \ {0} /\ DOMAIN fs = 1 .. Len(fs) /\ fs[Len(fs)] \in DbFrames(m)
    <2> HIDE DEF DbFrames
    <2> QED OBVIOUS
  <1>2. q = [i \in 1 .. (Len(fs) - Len(fs) + 1) |-> fs[Len(fs) + i - 1]]
    <2> HIDE DEF DbFrames
    <2> QED BY <1>1
  <1>3. DOMAIN q = {1} /\ q[1] = fs[Len(fs)]
    <2>1. 1 .. (Len(fs) - Len(fs) + 1) = {1} /\ Len(fs) + 1 - 1 = Len(fs)
      BY <1>1
    <2> QED BY <1>2, <2>1
  <1> HIDE DEF q
  <1>4. Work(q) = fs[Len(fs)].work
    BY <1>3 DEF Work
  <1> QED BY <1>1, <1>4 DEF DbFrames, q

(* The frame on top gives its work to the one below.                       *)
LEMMA MergedFrames ==
    ASSUME NEW m \in Nat, NEW fs \in Seq(DbFrames(m)), fs # << >>, Len(fs) # 1
    PROVE  LET r == [SubSeq(fs, 1, Len(fs) - 1) EXCEPT ![Len(fs) - 1].work =
                        @ \cup Work(SubSeq(fs, Len(fs), Len(fs)))]
           IN  /\ r \in Seq(DbFrames(m)) /\ Len(r) = Len(fs) - 1
               /\ \A i \in 1 .. Len(fs) - 1 :
                     /\ r[i].name = fs[i].name
                     /\ r[i].work = IF i = Len(fs) - 1 THEN fs[i].work \cup fs[Len(fs)].work ELSE fs[i].work
  <1> DEFINE g == SubSeq(fs, 1, Len(fs) - 1)
             W == Work(SubSeq(fs, Len(fs), Len(fs)))
             r == [g EXCEPT ![Len(fs) - 1].work = @ \cup W]
             y == [name |-> g[Len(g)].name, work |-> g[Len(g)].work \cup W]
  <1>1. /\ Len(fs) \in Nat \ {0} /\ g \in Seq(DbFrames(m)) /\ Len(g) = Len(fs) - 1 /\ DOMAIN g = 1 .. Len(fs) - 1
        /\ \A i \in 1 .. Len(fs) - 1 : g[i] = fs[i]
    BY FrontOf
  <1>2. W = fs[Len(fs)].work /\ W \in SUBSET (1 .. m)
    BY TopWork
  <1> HIDE DEF g, W
  <1>3. Len(g) \in 1 .. Len(fs) - 1 /\ g # << >>
    <2>1. Len(fs) - 1 \in 1 .. Len(fs) - 1
      BY <1>1
    <2> QED BY <1>1, <2>1
  <1>4. g[Len(g)] \in DbFrames(m)
    <2> HIDE DEF DbFrames
    <2> QED BY <1>1, <1>3
  <1>5. y \in DbFrames(m) /\ y.name = g[Len(g)].name /\ y.work = g[Len(g)].work \cup W
    BY <1>2, <1>4 DEF DbFrames
  <1>6. [g[Len(g)] EXCEPT !.work = g[Len(g)].work \cup W] = y
    BY <1>4, MoreWork
  <1> HIDE DEF y
  <1>7. r = [g EXCEPT ![Len(g)] = y]
    BY <1>1, <1>6
  <1> HIDE DEF r
  <1>8. /\ r \in Seq(DbFrames(m)) /\ Len(r) = Len(g)
        /\ \A i \in 1 .. Len(g) : r[i] = IF i = Len(g) THEN y ELSE g[i]
    <2>1. m <= m
      OBVIOUS
    <2> QED BY <1>1, <1>3, <1>5, <1>7, <2>1, TopReplaced
  <1>9. \A i \in 1 .. Len(fs) - 1 :
                     /\ r[i].name = fs[i].name
                     /\ r[i].work = IF i = Len(fs) - 1 THEN fs[i].work \cup fs[Len(fs)].work ELSE fs[i].work
    BY <1>1, <1>2, <1>3, <1>5, <1>8
  <1>10. r \in Seq(DbFrames(m)) /\ Len(r) = Len(fs) - 1
    BY <1>1, <1>8
  <1> QED BY <1>9, <1>10 DEF r, g, W

(* The same for what the session remembers.                                *)
LEMMA MergedWorks ==
    ASSUME NEW m \in Nat, NEW ws \in Seq(SUBSET (1 .. m)), Len(ws) \in Nat \ {0, 1}
    PROVE  LET r == [Front(ws) EXCEPT ![Len(ws) - 1] = @ \cup ws[Len(ws)]]
           IN  /\ r \in Seq(SUBSET (1 .. m)) /\ Len(r) = Len(ws) - 1 /\ DOMAIN r = 1 .. Len(ws) - 1
               /\ \A i \in 1 .. Len(ws) - 1 : r[i] = IF i = Len(ws) - 1 THEN ws[i] \cup ws[Len(ws)] ELSE ws[i]
  <1> DEFINE g == Front(ws)
             W == ws[Len(ws)]
             r == [g EXCEPT ![Len(ws) - 1] = @ \cup W]
  <1>1. /\ g \in Seq(SUBSET (1 .. m)) /\ Len(g) = Len(ws) - 1 /\ DOMAIN g = 1 .. Len(ws) - 1
        /\ \A i \in 1 .. Len(ws) - 1 : g[i] = ws[i]
    <2>1. ws # << >>
      OBVIOUS
    <2> QED BY <2>1, FrontOf DEF Front
  <1>2. Len(ws) - 1 \in 1 .. Len(ws) - 1 /\ m <= m
    <2>1. \A k \in Nat \ {0, 1} : k - 1 \in 1 .. k - 1
      OBVIOUS
    <2>2. m <= m
      OBVIOUS
    <2> QED BY <2>1, <2>2, Zenon
  <1>3. W \in SUBSET (1 .. m)
    <2>1. Len(ws) \in DOMAIN ws
      OBVIOUS
    <2> QED BY <2>1
  <1> HIDE DEF g, W
  <1>4. g # << >>
    BY <1>1, <1>2
  <1>5. r = [g EXCEPT ![Len(g)] = @ \cup W]
    BY <1>1
  <1> HIDE DEF r
  <1>6. /\ r \in Seq(SUBSET (1 .. m)) /\ Len(r) = Len(g) /\ DOMAIN r = 1 .. Len(g)
        /\ \A i \in 1 .. Len(g) : r[i] = IF i = Len(g) THEN g[i] \cup W ELSE g[i]
    BY <1>1, <1>2, <1>4, <1>5, <1>3, WorkOnLast
  <1>7. /\ r \in Seq(SUBSET (1 .. m)) /\ Len(r) = Len(ws) - 1 /\ DOMAIN r = 1 .. Len(ws) - 1
        /\ \A i \in 1 .. Len(ws) - 1 : r[i] = IF i = Len(ws) - 1 THEN ws[i] \cup W ELSE ws[i]
    BY <1>1, <1>6
  <1> QED BY <1>7 DEF r, g, W

(* What the completion of a savepoint finds.                               *)
LEMMA FinishFacts ==
    ASSUME DatabaseInv, NEW s \in DbSessions, dbTx[s], NEW n, MayFinish(s, n), Named(frames[ConnOf(s)], n)
    PROVE  /\ Position(frames[ConnOf(s)], n) = Len(frames[ConnOf(s)])
           /\ Len(frames[ConnOf(s)]) \in Nat \ {0} /\ frames[ConnOf(s)] # << >>
           /\ Front(savepoints[s]) \in Seq(1 .. MaxSavepoints) /\ Len(Front(savepoints[s])) + 2 = Len(mine[s])
           /\ Rising(Front(savepoints[s]), nextSavepoint[s]) /\ savepoints[s] # << >>
           /\ Len(mine[s]) \in Nat \ {0, 1}
  <1> DEFINE fs == frames[ConnOf(s)]
             sp == savepoints[s]
             top == nextSavepoint[s]
  <1>1. /\ fs \in Seq(DbFrames(writes)) /\ sp \in Seq(1 .. MaxSavepoints)
        /\ mine[s] \in Seq(SUBSET (1 .. writes)) /\ top \in 0 .. MaxSavepoints
        /\ Rising(sp, top) /\ InStep(fs, sp) /\ Len(mine[s]) = Len(sp) + 1
    BY TransactionFacts
  <1>2. writes \in Nat /\ MaxSavepoints \in Nat
    BY DbFacts
  <1>3. sp # << >> /\ n = Last(sp) /\ Named(fs, n)
    BY DEF MayFinish
  <1> HIDE DEF fs, sp, top
  <1>4. top \in Nat
    BY <1>1, <1>2
  <1>5. /\ Position(fs, n) = Len(fs) /\ Len(fs) \in Nat \ {0} /\ Len(sp) \in Nat \ {0}
        /\ Front(sp) \in Seq(1 .. MaxSavepoints) /\ Len(Front(sp)) = Len(sp) - 1
        /\ Rising(Front(sp), top)
    BY <1>1, <1>2, <1>3, <1>4, TopFrame
  <1>6. Len(mine[s]) \in Nat \ {0, 1} /\ Len(Front(sp)) + 2 = Len(mine[s])
    BY <1>1, <1>5
  <1>7. fs # << >>
    BY <1>1, <1>5
  <1> QED BY <1>3, <1>5, <1>6, <1>7 DEF fs, sp, top

(* The last savepoint is released.                                         *)
LEMMA SavepointReleaseKeeps ==
    ASSUME DatabaseInv, NEW s \in DbSessions, ReleaseSavepoint(s)
    PROVE  DatabaseInv'
  <1> DEFINE c == ConnOf(s)
             L == Len(frames[c])
             K == Len(mine[s])
  <1>1. PICK n \in 1 .. MaxSavepoints :
           /\ dbTx[s] /\ MayFinish(s, n) /\ Named(frames[c], n)
           /\ UNCHANGED <<adapter, engineAborts, inSlot, dbWaiting, dbPc, dbTx, begins, acked>>
           /\ nextSavepoint' = nextSavepoint /\ writes' = writes /\ undone' = undone
           /\ savepoints' = [savepoints EXCEPT ![s] = Front(@)]
           /\ EngineRelease(c, n)
           /\ mine' = [mine EXCEPT ![s] = [Front(mine[s]) EXCEPT ![K - 1] = @ \cup mine[s][K]]]
    BY DEF ReleaseSavepoint
  <1>2. /\ frames[c] \in Seq(DbFrames(writes)) /\ savepoints[s] \in Seq(1 .. MaxSavepoints)
        /\ mine[s] \in Seq(SUBSET (1 .. writes)) /\ nextSavepoint[s] \in 0 .. MaxSavepoints
        /\ InStep(frames[c], savepoints[s]) /\ DOMAIN mine[s] = 1 .. K /\ DOMAIN frames[c] = 1 .. L
    BY <1>1, TransactionFacts
  <1>3. /\ frames \in [Conns -> Seq(DbFrames(writes))] /\ mine \in [DbSessions -> Seq(SUBSET (1 .. writes))]
        /\ savepoints \in [DbSessions -> Seq(1 .. MaxSavepoints)] /\ nextSavepoint \in [DbSessions -> 0 .. MaxSavepoints]
        /\ writes \in Nat /\ writes <= MaxWrites /\ aborted \in [Conns -> BOOLEAN]
        /\ stored \subseteq 1 .. writes /\ undone \subseteq 1 .. writes /\ c \in Conns
    BY DbFacts, ConnOfType
  <1>4. /\ Position(frames[c], n) = L /\ L \in Nat \ {0} /\ frames[c] # << >>
        /\ Front(savepoints[s]) \in Seq(1 .. MaxSavepoints) /\ Len(Front(savepoints[s])) + 2 = K
        /\ Rising(Front(savepoints[s]), nextSavepoint[s]) /\ savepoints[s] # << >> /\ K \in Nat \ {0, 1}
    BY <1>1, FinishFacts
  <1>5. /\ savepoints' = [savepoints EXCEPT ![s] = Front(savepoints[s])]
        /\ nextSavepoint' = [nextSavepoint EXCEPT ![s] = nextSavepoint[s]]
    BY <1>1, <1>3
  <1> DEFINE since == Work(SubSeq(frames[c], L, L))
             merged == [SubSeq(frames[c], 1, L - 1) EXCEPT ![L - 1].work = @ \cup since]
             fs == IF L = 1 THEN << >> ELSE merged
             mn == [Front(mine[s]) EXCEPT ![K - 1] = @ \cup mine[s][K]]
  <1>6. /\ frames' = [frames EXCEPT ![c] = fs] /\ aborted' = aborted
        /\ stored' = IF L = 1 THEN stored \cup since ELSE stored
        /\ mine' = [mine EXCEPT ![s] = mn]
    <2> DEFINE p == Position(frames[c], n)
               sinceP == Work(SubSeq(frames[c], p, Len(frames[c])))
    <2>1. /\ frames' = [frames EXCEPT ![c] = IF p = 1 THEN << >>
                            ELSE [SubSeq(frames[c], 1, p - 1) EXCEPT ![p - 1].work = @ \cup sinceP]]
      BY <1>1, Zenon DEF EngineRelease
    <2>2. stored' = (IF p = 1 THEN stored \cup sinceP ELSE stored) /\ aborted' = aborted
      BY <1>1, Zenon DEF EngineRelease
    <2>3. p = L
      BY <1>4
    <2> HIDE DEF p
    <2>4. mine' = [mine EXCEPT ![s] = mn]
      BY <1>1, Zenon
    <2> QED BY <2>1, <2>3, <2>4, <2>2
  <1>7. /\ fs \in Seq(DbFrames(writes)) /\ InStep(fs, Front(savepoints[s])) /\ since \subseteq 1 .. writes
        /\ L # 1 =>
              /\ Len(fs) = L - 1
              /\ \A i \in 1 .. L - 1 :
                    fs[i].work = IF i = L - 1 THEN frames[c][i].work \cup frames[c][L].work ELSE frames[c][i].work
    <2>1. since \subseteq 1 .. writes
      BY <1>2, <1>3, <1>4, TopWork
    <2>2. CASE L = 1
      <3>1. fs = << >>
        BY <2>2
      <3> HIDE DEF fs
      <3> QED BY <2>1, <2>2, <3>1 DEF InStep
    <2>3. CASE L # 1
      <3>1. /\ merged \in Seq(DbFrames(writes)) /\ Len(merged) = L - 1
            /\ \A i \in 1 .. L - 1 :
                  /\ merged[i].name = frames[c][i].name
                  /\ merged[i].work = IF i = L - 1 THEN frames[c][i].work \cup frames[c][L].work ELSE frames[c][i].work
        BY <1>2, <1>3, <1>4, <2>3, MergedFrames
      <3>2. fs = merged
        BY <2>3
      <3> HIDE DEF merged, fs, since
      <3>3. InStep(merged, Front(savepoints[s]))
        BY <1>2, <1>3, <1>4, <3>1, BelowInStep
      <3> QED BY <2>1, <3>1, <3>2, <3>3
    <2> QED BY <2>2, <2>3
  <1>8. /\ mn \in Seq(SUBSET (1 .. writes)) /\ Len(mn) = K - 1 /\ DOMAIN mn = 1 .. K - 1
        /\ \A i \in 1 .. K - 1 : mn[i] = IF i = K - 1 THEN mine[s][i] \cup mine[s][K] ELSE mine[s][i]
    BY <1>2, <1>3, <1>4, MergedWorks
  <1> HIDE DEF fs, mn, merged, since
  <1>9. ASSUME ~engineAborts
        PROVE  /\ stored' = stored /\ undone \subseteq undone'
               /\ \A d \in Conns : ~aborted'[d]
               /\ Holds(fs, mn)
               /\ \A i \in DOMAIN mn : \A w \in mn[i] :
                    /\ w \notin stored /\ w \notin undone'
                    /\ w \in 1 .. writes => \E k \in DOMAIN mine[s] : w \in mine[s][k]
               /\ \A i, j \in DOMAIN mn : \A w \in mn[i] : w \in mn[j] => i = j
               /\ \A w \in undone' : w \in undone \/ \E k \in DOMAIN mine[s] : w \in mine[s][k]
    <2>1. /\ L = K /\ \A i \in 1 .. K : frames[c][i].work = mine[s][i]
          /\ \A d \in Conns : ~aborted[d]
          /\ \A i \in DOMAIN mine[s] : \A w \in mine[s][i] : w \notin stored /\ w \notin undone
          /\ \A i, j \in DOMAIN mine[s] : \A w \in mine[s][i] : w \in mine[s][j] => i = j
      BY <1>1, <1>2, <1>9, TransactionFacts DEF Holds
    <2>2. L # 1 /\ stored' = stored
      BY <1>4, <1>6, <2>1
    <2>3. Holds(fs, mn)
      <3>1. Len(fs) = Len(mn)
        BY <1>7, <1>8, <2>1, <2>2
      <3>2. ASSUME NEW i \in 1 .. K - 1 PROVE fs[i].work = mn[i]
        <4>1. i \in 1 .. K /\ K \in 1 .. K
          BY <1>4
        <4>2. frames[c][i].work = mine[s][i] /\ frames[c][K].work = mine[s][K]
          BY <2>1, <4>1
        <4>3. fs[i].work = IF i = K - 1 THEN mine[s][i] \cup mine[s][K] ELSE mine[s][i]
          BY <1>7, <2>1, <2>2, <4>2
        <4> QED BY <1>8, <4>3
      <3> QED BY <1>8, <3>1, <3>2 DEF Holds
    <2>4. ASSUME NEW i \in DOMAIN mn, NEW w \in mn[i]
          PROVE  /\ i # K
                 /\ \/ i \in DOMAIN mine[s] /\ w \in mine[s][i]
                    \/ K \in DOMAIN mine[s] /\ w \in mine[s][K] /\ i = K - 1
      <3>1. i \in 1 .. K - 1 /\ i \in 1 .. K /\ K \in 1 .. K /\ i # K
        BY <1>4, <1>8
      <3> QED BY <1>2, <1>8, <3>1
    <2>5. ASSUME NEW i \in DOMAIN mn, NEW j \in DOMAIN mn, NEW w \in mn[i], w \in mn[j] PROVE i = j
      BY <2>1, <2>4, <2>5
    <2> QED BY <1>1, <1>6, <2>1, <2>2, <2>3, <2>4, <2>5
  <1>10. /\ stored' \subseteq 1 .. writes' /\ undone' \subseteq 1 .. writes' /\ aborted' \in [Conns -> BOOLEAN]
         /\ writes' \in Nat /\ writes <= writes' /\ writes' <= MaxWrites
    BY <1>1, <1>3, <1>6, <1>7
  <1>11. fs \in Seq(DbFrames(writes')) /\ mn \in Seq(SUBSET (1 .. writes'))
    BY <1>1, <1>7, <1>8
  <1>12. Len(mn) = Len(Front(savepoints[s])) + 1
    BY <1>4, <1>8
  <1> QED BY <1>1, <1>2, <1>4, <1>5, <1>6, <1>7, <1>9, <1>10, <1>11, <1>12, TransactionKeeps DEF c

(* The last savepoint is rolled back.                                      *)
LEMMA RollbackToKeeps ==
    ASSUME DatabaseInv, NEW s \in DbSessions, RollbackToSavepoint(s)
    PROVE  DatabaseInv'
  <1> DEFINE c == ConnOf(s)
             L == Len(frames[c])
             K == Len(mine[s])
  <1>1. PICK n \in 1 .. MaxSavepoints :
           /\ dbTx[s] /\ MayFinish(s, n) /\ Named(frames[c], n)
           /\ UNCHANGED <<adapter, engineAborts, inSlot, dbWaiting, dbPc, dbTx, begins, acked>>
           /\ nextSavepoint' = nextSavepoint /\ writes' = writes /\ undone' = undone \cup Last(mine[s])
           /\ savepoints' = [savepoints EXCEPT ![s] = Front(@)]
           /\ RollbackToAndRelease(c, n) /\ mine' = [mine EXCEPT ![s] = Front(@)]
    BY DEF RollbackToSavepoint
  <1>2. /\ frames[c] \in Seq(DbFrames(writes)) /\ savepoints[s] \in Seq(1 .. MaxSavepoints)
        /\ mine[s] \in Seq(SUBSET (1 .. writes)) /\ nextSavepoint[s] \in 0 .. MaxSavepoints
        /\ InStep(frames[c], savepoints[s]) /\ DOMAIN mine[s] = 1 .. K /\ DOMAIN frames[c] = 1 .. L
    BY <1>1, TransactionFacts
  <1>3. /\ frames \in [Conns -> Seq(DbFrames(writes))] /\ mine \in [DbSessions -> Seq(SUBSET (1 .. writes))]
        /\ savepoints \in [DbSessions -> Seq(1 .. MaxSavepoints)] /\ nextSavepoint \in [DbSessions -> 0 .. MaxSavepoints]
        /\ writes \in Nat /\ writes <= MaxWrites /\ aborted \in [Conns -> BOOLEAN]
        /\ stored \subseteq 1 .. writes /\ undone \subseteq 1 .. writes /\ c \in Conns
    BY DbFacts, ConnOfType
  <1>4. /\ Position(frames[c], n) = L /\ L \in Nat \ {0} /\ frames[c] # << >>
        /\ Front(savepoints[s]) \in Seq(1 .. MaxSavepoints) /\ Len(Front(savepoints[s])) + 2 = K
        /\ Rising(Front(savepoints[s]), nextSavepoint[s]) /\ savepoints[s] # << >> /\ K \in Nat \ {0, 1}
    BY <1>1, FinishFacts
  <1>5. /\ savepoints' = [savepoints EXCEPT ![s] = Front(savepoints[s])]
        /\ nextSavepoint' = [nextSavepoint EXCEPT ![s] = nextSavepoint[s]]
    BY <1>1, <1>3
  <1> DEFINE fs == SubSeq(frames[c], 1, L - 1)
             mn == Front(mine[s])
  <1>6. /\ frames' = [frames EXCEPT ![c] = fs] /\ stored' = stored /\ mine' = [mine EXCEPT ![s] = mn]
        /\ aborted' = [aborted EXCEPT ![c] = FALSE]
    BY <1>1, <1>3, <1>4 DEF RollbackToAndRelease
  <1>7. /\ fs \in Seq(DbFrames(writes)) /\ Len(fs) = L - 1 /\ \A i \in 1 .. L - 1 : fs[i] = frames[c][i]
    BY <1>2, <1>4, FrontOf
  <1>8. /\ mn \in Seq(SUBSET (1 .. writes)) /\ Len(mn) = K - 1 /\ DOMAIN mn = 1 .. K - 1
        /\ \A i \in 1 .. K - 1 : mn[i] = mine[s][i] /\ i \in DOMAIN mine[s]
    <2>1. mine[s] # << >>
      BY <1>2, <1>4
    <2> QED BY <1>2, <2>1, FrontOf DEF Front
  <1> HIDE DEF fs, mn
  <1>9. InStep(fs, Front(savepoints[s]))
    BY <1>2, <1>3, <1>4, <1>7, BelowInStep
  <1>10. Last(mine[s]) = mine[s][K] /\ K \in DOMAIN mine[s] /\ mine[s][K] \in SUBSET (1 .. writes)
    BY <1>2, <1>4 DEF Last
  <1>11. ASSUME ~engineAborts
        PROVE  /\ stored' = stored /\ undone \subseteq undone'
               /\ \A d \in Conns : ~aborted'[d]
               /\ Holds(fs, mn)
               /\ \A i \in DOMAIN mn : \A w \in mn[i] :
                    /\ w \notin stored /\ w \notin undone'
                    /\ w \in 1 .. writes => \E k \in DOMAIN mine[s] : w \in mine[s][k]
               /\ \A i, j \in DOMAIN mn : \A w \in mn[i] : w \in mn[j] => i = j
               /\ \A w \in undone' : w \in undone \/ \E k \in DOMAIN mine[s] : w \in mine[s][k]
    <2>1. /\ L = K /\ \A i \in 1 .. K : frames[c][i].work = mine[s][i]
          /\ \A d \in Conns : ~aborted[d]
          /\ \A i \in DOMAIN mine[s] : \A w \in mine[s][i] : w \notin stored /\ w \notin undone
          /\ \A i, j \in DOMAIN mine[s] : \A w \in mine[s][i] : w \in mine[s][j] => i = j
      BY <1>1, <1>2, <1>11, TransactionFacts DEF Holds
    <2>2. Holds(fs, mn)
      <3>1. Len(fs) = Len(mn)
        BY <1>7, <1>8, <2>1
      <3>2. ASSUME NEW i \in 1 .. K - 1 PROVE fs[i].work = mn[i]
        <4>1. i \in 1 .. K
          BY <1>4
        <4> QED BY <1>7, <1>8, <2>1, <4>1
      <3> QED BY <1>8, <3>1, <3>2 DEF Holds
    <2>3. \A i \in DOMAIN mn : \A w \in mn[i] : i \in DOMAIN mine[s] /\ w \in mine[s][i] /\ i # K
      BY <1>4, <1>8
    <2>4. \A d \in Conns : ~aborted'[d]
      BY <1>3, <1>6, <2>1
    <2> QED BY <1>1, <1>6, <1>10, <2>1, <2>2, <2>3, <2>4
  <1>12. /\ stored' \subseteq 1 .. writes' /\ undone' \subseteq 1 .. writes'
         /\ writes' \in Nat /\ writes <= writes' /\ writes' <= MaxWrites
    <2>1. undone' = undone \cup mine[s][K] /\ writes' = writes /\ stored' = stored
      BY <1>1, <1>6, <1>10
    <2>2. undone' \subseteq 1 .. writes'
      BY <1>3, <1>10, <2>1, Zenon
    <2> QED BY <1>3, <2>1, <2>2
  <1>13. fs \in Seq(DbFrames(writes')) /\ mn \in Seq(SUBSET (1 .. writes'))
    BY <1>1, <1>7, <1>8
  <1>14. Len(mn) = Len(Front(savepoints[s])) + 1
    BY <1>4, <1>8
  <1>15. aborted' \in [Conns -> BOOLEAN]
    BY <1>3, <1>6, Zenon
  <1> QED BY <1>1, <1>2, <1>4, <1>5, <1>6, <1>11, <1>12, <1>13, <1>14, <1>9, <1>15, TransactionKeeps DEF c

-----------------------------------------------------------------------------
(* Nothing has begun.                                                      *)
LEMMA DatabaseStarts ==
    ASSUME DatabaseInit
    PROVE  DatabaseInv
  <1>1. /\ MaxWrites \in Nat /\ MaxBegins \in Nat /\ MaxSavepoints \in Nat
        /\ DbAdapters \subseteq {"sqlite", "postgres", "mysql"} /\ AbortModes \subseteq BOOLEAN
    BY DatabaseAssumption
  <1>2. /\ dbPc = [s \in DbSessions |-> "idle"] /\ dbTx = [s \in DbSessions |-> FALSE]
        /\ savepoints = [s \in DbSessions |-> << >>] /\ mine = [s \in DbSessions |-> << >>]
        /\ nextSavepoint = [s \in DbSessions |-> 0]
        /\ frames = [c \in Conns |-> << >>] /\ aborted = [c \in Conns |-> FALSE]
        /\ inSlot = TRUE /\ dbWaiting = {} /\ stored = {} /\ acked = {} /\ undone = {}
        /\ begins = 0 /\ writes = 0 /\ adapter \in DbAdapters /\ engineAborts \in AbortModes
    BY DEF DatabaseInit
  <1>3. \A s \in DbSessions : ConnOf(s) \in Conns
    BY ConnOfType
  <1>4. DatabaseTypeOK
    <2>1. dbTx \in [DbSessions -> BOOLEAN] /\ aborted \in [Conns -> BOOLEAN] /\ inSlot \in BOOLEAN
      BY <1>2, Zenon
    <2>2. dbPc \in [DbSessions -> {"idle", "statement", "begin", "beginning"}]
      BY <1>2
    <2>3. nextSavepoint \in [DbSessions -> 0 .. MaxSavepoints] /\ begins \in 0 .. MaxBegins /\ writes \in 0 .. MaxWrites
      BY <1>1, <1>2
    <2>4. \A s \in DbSessions : savepoints[s] \in Seq(1 .. MaxSavepoints)
      BY <1>2
    <2>5. engineAborts \in BOOLEAN
      BY <1>1, <1>2, Zenon
    <2> QED BY <1>1, <1>2, <2>1, <2>2, <2>3, <2>4, <2>5 DEF DatabaseTypeOK
  <1>5. DbTypes
    <2>1. << >> \in Seq(DbFrames(writes)) /\ << >> \in Seq(1 .. MaxSavepoints) /\ << >> \in Seq(SUBSET (1 .. writes))
      OBVIOUS
    <2> QED BY <1>2, <1>4, <2>1, Zenon DEF DbTypes
  <1>6. HoldersInv
    BY <1>2 DEF HoldersInv, Holder
  <1>7. FramesInv
    BY <1>2 DEF FramesInv
  <1>8. SavepointsInv
    BY <1>2 DEF SavepointsInv, Rising
  <1>9. WorkInv
    BY <1>2 DEF WorkInv, WorkTruthful
  <1> QED BY <1>5, <1>6, <1>7, <1>8, <1>9 DEF DatabaseInv

(* The invariant says what is promised: one holder is counted as one.      *)
LEMMA TransactionsPromises ==
    ASSUME DatabaseInv
    PROVE  TransactionsIsolated
  <1> DEFINE H == {s \in DbSessions : dbTx[s] \/ dbPc[s] = "beginning"}
  <1>1. ASSUME adapter = "sqlite"
        PROVE  Cardinality(H) = (IF inSlot THEN 0 ELSE 1) /\ (inSlot => frames[SharedConn] = << >>)
    <2>1. /\ \A s, t \in H : s = t
          /\ inSlot <=> H = {}
      BY <1>1 DEF DatabaseInv, HoldersInv, Holder
    <2>2. CASE inSlot
      <3>1. H = {} /\ SharedConn \in Conns
        BY <2>1, <2>2 DEF Conns
      <3>2. frames[SharedConn] = << >>
        BY <3>1 DEF DatabaseInv, FramesInv
      <3>3. Cardinality(H) = 0
        BY <3>1, FS_EmptySet
      <3> QED BY <2>2, <3>2, <3>3
    <2>3. CASE ~inSlot
      <3>1. PICK x \in H : H = {x}
        BY <2>1, <2>3
      <3>2. Cardinality({x}) = 1
        BY FS_Singleton
      <3> QED BY <2>3, <3>1, <3>2
    <2> QED BY <2>2, <2>3
  <1>2. \A s \in DbSessions : dbTx[s] => InStep(frames[ConnOf(s)], savepoints[s])
    BY DEF DatabaseInv, SavepointsInv
  <1>3. WorkTruthful
    BY DEF DatabaseInv, WorkInv, WorkTruthful
  <1> QED BY <1>1, <1>2, <1>3 DEF TransactionsIsolated, ConnectionsAccounted

(* Every step keeps the invariant.                                         *)
LEMMA DatabaseStep == DatabaseInv /\ [DatabaseNext]_dbVars => DatabaseInv'
  <1> SUFFICES ASSUME DatabaseInv, [DatabaseNext]_dbVars PROVE DatabaseInv'
    OBVIOUS
  <1>1. CASE UNCHANGED dbVars
    <2>1. UNCHANGED <<adapter, engineAborts, inSlot, dbWaiting, dbPc, dbTx, savepoints, nextSavepoint,
                      frames, aborted, stored, begins, writes, mine, acked, undone>>
      BY <1>1 DEF dbVars, engineVars, dbHistory
    <2>2. DatabaseTypeOK'
      BY <2>1 DEF DatabaseInv, DbTypes, DatabaseTypeOK, Conns
    <2>3. HoldersInv'
      BY <2>1 DEF DatabaseInv, HoldersInv, Holder
    <2>4. WorkInv'
      BY <2>1, WorkSame
    <2>5. writes' \in Nat /\ writes <= writes'
      BY <2>1, DbFacts
    <2>6. \A s \in DbSessions : nextSavepoint'[s] = nextSavepoint[s] \/ ~dbTx[s]
      BY <2>1
    <2> QED BY <2>1, <2>2, <2>3, <2>4, <2>5, <2>6, SessionKeeps
  <1>2. CASE DatabaseNext
    <2> SUFFICES ASSUME NEW s \in DbSessions,
                     \/ Sleep(s) \/ WakeSpuriously(s)
                     \/ CallStatement(s) \/ RunOnSlot(s) \/ RunInTransaction(s)
                     \/ CallBegin(s) \/ TakeConnection(s) \/ BeginSucceeds(s) \/ BeginFails(s)
                     \/ CommitSucceeds(s) \/ CommitFails(s) \/ RollbackSucceeds(s) \/ DropSession(s)
                     \/ Savepoint(s) \/ ReleaseSavepoint(s) \/ RollbackToSavepoint(s)
                 PROVE  DatabaseInv'
      BY <1>2 DEF DatabaseNext
    <2> QED BY CallsKeep, RunOnSlotKeeps, RunInTransactionKeeps, TakeConnectionKeeps, BeginSucceedsKeeps, BeginFailsKeeps,
               CommitKeeps, CommitFailsKeeps, TransactionRollbackKeeps, SessionDropKeeps, SavepointKeeps, SavepointReleaseKeeps, RollbackToKeeps
  <1> QED BY <1>1, <1>2

(* Transactions are isolated and answered truthfully: SQLite's connection  *)
(* is in its slot or with one session, no statement joins a stranger's     *)
(* transaction, the engine's savepoints are the session's last, and what   *)
(* is answered as committed or rolled back is, for any number of sessions, *)
(* writes, transactions and savepoints and all three backends.             *)
THEOREM TransactionsAreIsolated == DatabaseSpec => []TransactionsIsolated
  <1>1. DatabaseInit => DatabaseInv
    BY DatabaseStarts
  <1>2. DatabaseInv /\ [DatabaseNext]_dbVars => DatabaseInv'
    BY DatabaseStep
  <1>3. DatabaseInv => TransactionsIsolated
    BY TransactionsPromises
  <1> QED BY <1>1, <1>2, <1>3, PTL DEF DatabaseSpec

-----------------------------------------------------------------------------
(***************************************************************************)
(* Background tasks, for any number of tasks, permits and ways to nest them.*)
(***************************************************************************)

(* The tasks spawned so far.                                               *)
Spawned == 1 .. spawned
(* The same with the main program.                                         *)
Started == 0 .. spawned

(* A thread exists once its task is spawned, and a VM numbers its tasks    *)
(* below the number of all.                                                *)
SpawnedInv ==
    /\ \A t \in Tasks : worker[t] = "none" <=> t > spawned
    /\ \A v \in VMs : nextTaskId[v] <= spawned

(* par: the VM that spawned a task; anc: a VM and those above it.  A VM is *)
(* spawned before the VMs of its tasks, and no two tasks of a VM are both  *)
(* above the same VM.                                                      *)
Lineage(par, anc) ==
    /\ \A t \in Spawned : par[t] < t
    /\ \A u \in Started :
          /\ u \in anc[u]
          /\ \A w \in anc[u] : w <= u
          /\ \A w \in anc[u] \ {0} : par[w] \in anc[u]
          /\ \A s, t \in anc[u] \ {0} : par[s] = par[t] => s = t

(* num: the id of a task in the VM that spawned it, which no other task of *)
(* the VM has.                                                             *)
Numbered(par, num) ==
    \A t \in Spawned :
        /\ num[t] < nextTaskId[par[t]]
        /\ \A s \in Spawned : par[s] = par[t] /\ num[s] = num[t] => s = t

(* An entry, in the table or taken out by an await, is at its task's place *)
(* and there only; so is what an await answered.                           *)
Placed(par, num) ==
    /\ \A v \in VMs, i \in LocalIds : table[v][i] # NoEntry =>
          table[v][i].task \in Spawned /\ par[table[v][i].task] = v /\ num[table[v][i].task] = i
    /\ \A v \in VMs : awaiting[v] # NoEntry =>
          /\ awaitedAs[v].id \in LocalIds /\ table[v][awaitedAs[v].id] = NoEntry
          /\ awaiting[v].task \in Spawned /\ par[awaiting[v].task] = v
          /\ num[awaiting[v].task] = awaitedAs[v].id
    /\ \A r \in resolved : r.by \in Spawned /\ par[r.by] = r.vm /\ num[r.by] = r.handle.id

(* The output of v has the text of u only if v is above u (or u itself),   *)
(* and then v has merged the task through which it is above u.             *)
Merged(par, anc) ==
    \A v \in VMs, u \in Tasks :
        /\ output[v][u] <= 1
        /\ output[v][u] > 0 =>
              /\ u \in Spawned /\ v \in anc[u]
              /\ \A t \in anc[u] \ {0} : par[t] = v =>
                    /\ \A i \in LocalIds : table[v][i] # NoEntry /\ table[v][i].task = t => table[v][i].consumed
                    /\ awaiting[v] # NoEntry /\ awaiting[v].task = t => awaiting[v].consumed
        /\ v = u /\ worker[v] \in {"none", "running"} => output[v][u] = 0

(* Who spawned whom, under which number, and who is above whom.            *)
Family(par, num, anc) ==
    Lineage(par, anc) /\ Numbered(par, num) /\ Placed(par, num) /\ Merged(par, anc)

(* Such a numbering and such a tree exist.                                 *)
FamilyInv ==
    \E par \in [Tasks -> VMs], num \in [Tasks -> LocalIds], anc \in [VMs -> SUBSET VMs] :
        Family(par, num, anc)

(* The inductive invariant.                                                *)
TaskInv == TaskTypeOK /\ SpawnedInv /\ PermitsAccounted /\ FamilyInv

-----------------------------------------------------------------------------
(* The threads that hold a permit.                                         *)
Holders == {t \in Tasks : worker[t] \in {"running", "ready"}}

(* Only so many threads hold a permit.                                     *)
LEMMA HoldersFinite == IsFiniteSet(Holders) /\ Cardinality(Holders) \in Nat
  <1>1. IsFiniteSet(Tasks)
    BY TaskAssumption, FS_Interval DEF Tasks
  <1>2. Holders \subseteq Tasks
    BY DEF Holders
  <1> QED BY <1>1, <1>2, FS_Subset, FS_CardinalityType

(* Limits are numbers, and none is larger than the largest.                *)
LEMMA LimitBound == MaxLimit \in Nat /\ \A v : Limit(v) \in Nat /\ Limit(v) <= MaxLimit
  BY TaskAssumption DEF Limit, MaxLimit

(* No task exists at first.                                                *)
LEMMA InitTasks == TaskInit => TaskInv
  <1> SUFFICES ASSUME TaskInit PROVE TaskInv
    OBVIOUS
  <1>1. TaskTypeOK
    <2>1. table \in [VMs -> [LocalIds -> Entries \cup {NoEntry}]]
      BY DEF TaskInit
    <2>2. output \in [VMs -> [Tasks -> Nat]]
      BY DEF TaskInit, Silent
    <2>3. kind \in [VMs -> {"block", "value"}] /\ worker \in [VMs -> {"none", "running", "ready", "ended"}]
      BY DEF TaskInit
    <2> QED BY <2>1, <2>2, <2>3, TaskAssumption DEF TaskInit, TaskTypeOK
  <1>2. SpawnedInv
    BY TaskAssumption DEF TaskInit, SpawnedInv, Tasks, VMs
  <1>3. PermitsAccounted
    <2>1. Holders = {}
      BY DEF TaskInit, Holders, Tasks, VMs
    <2>2. Cardinality(Holders) = 0 /\ permits = 0 /\ 0 <= MaxLimit
      BY <2>1, FS_EmptySet, LimitBound DEF TaskInit
    <2> QED BY <2>2 DEF PermitsAccounted, Holders
  <1>4. FamilyInv
    <2> DEFINE par == [t \in Tasks |-> 0]
               num == [t \in Tasks |-> 0]
               anc == [v \in VMs |-> {0}]
    <2>1. par \in [Tasks -> VMs] /\ num \in [Tasks -> LocalIds] /\ anc \in [VMs -> SUBSET VMs]
      BY TaskAssumption DEF Tasks, VMs, LocalIds
    <2>2. Spawned = {} /\ Started = {0} /\ 0 \in VMs
      BY TaskAssumption DEF TaskInit, Spawned, Started, VMs
    <2>3. Lineage(par, anc) /\ Numbered(par, num)
      BY <2>2 DEF Lineage, Numbered
    <2>4. Placed(par, num)
      BY DEF TaskInit, Placed
    <2>5. Merged(par, anc)
      <3>1. \A v \in VMs, u \in Tasks : output[v][u] = 0
        BY DEF TaskInit, Silent
      <3> QED BY <3>1 DEF Merged
    <2> HIDE DEF par, num, anc
    <2> QED BY <2>1, <2>3, <2>4, <2>5 DEF FamilyInv, Family
  <1> QED BY <1>1, <1>2, <1>3, <1>4 DEF TaskInv

-----------------------------------------------------------------------------
(* The VM that spawns is one of those that were started, and the new task  *)
(* is neither it nor any other.                                            *)
LEMMA SpawnFacts ==
    ASSUME TaskInv, NEW v \in VMs, NEW k \in {"block", "value"}, SpawnTask(v, k)
    PROVE  /\ v \in Started /\ spawned + 1 \in Tasks /\ spawned + 1 # v /\ spawned + 1 \in VMs
           /\ nextTaskId[v] \in LocalIds /\ spawned \in Nat
           /\ worker[spawned + 1] = "none"
  <1>1. spawned \in Nat /\ spawned < MaxTasks /\ MaxTasks \in Nat
    BY TaskAssumption DEF TaskInv, TaskTypeOK, SpawnTask
  <1>2. worker[v] = "running"
    BY DEF SpawnTask, Executing
  <1>3. v \in Started
    <2>1. CASE v = 0
      BY <2>1, <1>1 DEF Started
    <2>2. CASE v \in Tasks
      BY <2>2, <1>1, <1>2 DEF TaskInv, SpawnedInv, Started, Tasks
    <2> QED BY <2>1, <2>2 DEF Tasks, VMs
  <1>4. nextTaskId[v] \in Nat /\ nextTaskId[v] <= spawned
    BY DEF TaskInv, TaskTypeOK, SpawnedInv
  <1>5. spawned + 1 \in Tasks /\ spawned + 1 # v /\ spawned + 1 \in VMs /\ nextTaskId[v] \in LocalIds
    BY <1>1, <1>3, <1>4 DEF Tasks, VMs, LocalIds, Started
  <1>6. worker[spawned + 1] = "none"
    BY <1>1, <1>5 DEF TaskInv, SpawnedInv
  <1> QED BY <1>1, <1>3, <1>5, <1>6

(* spawn keeps the types and the ledger of permits.                        *)
LEMMA SpawnTypes ==
    ASSUME TaskInv, NEW v \in VMs, NEW k \in {"block", "value"}, SpawnTask(v, k)
    PROVE  TaskTypeOK' /\ SpawnedInv' /\ PermitsAccounted'
  <1>a. /\ v \in Started /\ spawned + 1 \in Tasks /\ spawned + 1 # v /\ spawned + 1 \in VMs
        /\ nextTaskId[v] \in LocalIds /\ spawned \in Nat
        /\ worker[spawned + 1] = "none"
    BY SpawnFacts
  <1>b. TaskTypeOK /\ SpawnedInv /\ PermitsAccounted
    BY DEF TaskInv
  <1>c. PICK t : t = spawned + 1
    OBVIOUS
  <1>d. PICK i \in LocalIds : i = nextTaskId[v]
    BY <1>a
  <1>e. /\ permits' = permits + 1 /\ spawned' = t
        /\ nextTaskId' = [nextTaskId EXCEPT ![v] = nextTaskId[v] + 1]
        /\ table' = [table EXCEPT ![v] = [table[v] EXCEPT ![i] =
                         [task |-> t, state |-> "running", consumed |-> FALSE]]]
        /\ handles' = [handles EXCEPT ![t] = IF k = "block" THEN handles[v] ELSE {},
                                      ![v] = @ \cup {[id |-> i, of |-> t]}]
        /\ kind' = [kind EXCEPT ![t] = k]
        /\ worker' = [worker EXCEPT ![t] = "running"]
        /\ UNCHANGED <<awaiting, awaitedAs, result, output, resolved>>
        /\ permits < Limit(v)
    BY <1>c, <1>d DEF SpawnTask, NextId, PermitAvailable
  <1>1. TaskTypeOK'
    <2>1. table' \in [VMs -> [LocalIds -> Entries \cup {NoEntry}]]
      <3>1. [task |-> t, state |-> "running", consumed |-> FALSE] \in Entries
        BY <1>a, <1>c DEF Entries
      <3>2. table[v] \in [LocalIds -> Entries \cup {NoEntry}]
        BY <1>b DEF TaskTypeOK
      <3>3. [table[v] EXCEPT ![i] = [task |-> t, state |-> "running", consumed |-> FALSE]]
                \in [LocalIds -> Entries \cup {NoEntry}]
        BY <3>1, <3>2
      <3> QED BY <3>3, <1>b, <1>e DEF TaskTypeOK
    <2>2. handles' \in [VMs -> SUBSET Handles]
      <3>1. [id |-> i, of |-> t] \in Handles
        BY <1>a, <1>c DEF Handles
      <3> QED BY <3>1, <1>b, <1>e DEF TaskTypeOK
    <2>3. /\ permits' \in Nat /\ spawned' \in 0 .. MaxTasks /\ nextTaskId' \in [VMs -> Nat]
      <3>1. permits' \in Nat /\ nextTaskId[v] + 1 \in Nat
        BY <1>b, <1>e DEF TaskTypeOK
      <3>2. spawned' \in 0 .. MaxTasks
        BY <1>a, <1>c, <1>e DEF VMs
      <3>3. nextTaskId' \in [VMs -> Nat]
        BY <3>1, <1>b, <1>e DEF TaskTypeOK
      <3> QED BY <3>1, <3>2, <3>3
    <2>4. kind' \in [VMs -> {"block", "value"}] /\ worker' \in [VMs -> {"none", "running", "ready", "ended"}]
      BY <1>b, <1>e DEF TaskTypeOK
    <2> QED BY <2>1, <2>2, <2>3, <2>4, <1>b, <1>e DEF TaskTypeOK
  <1>2. SpawnedInv'
    <2>1. \A s \in Tasks : worker'[s] = "none" <=> s > spawned + 1
      BY <1>a, <1>b, <1>c, <1>e DEF TaskTypeOK, SpawnedInv, Tasks, VMs
    <2>2. \A w \in VMs : nextTaskId'[w] <= spawned + 1
      BY <1>a, <1>b, <1>e DEF TaskTypeOK, SpawnedInv
    <2> QED BY <2>1, <2>2, <1>c, <1>e DEF SpawnedInv
  <1>3. PermitsAccounted'
    <2>1. Holders' = Holders \cup {t} /\ t \notin Holders
      BY <1>a, <1>b, <1>c, <1>e DEF Holders, TaskTypeOK, Tasks, VMs
    <2>2. Cardinality(Holders') = Cardinality(Holders) + 1
      BY <2>1, HoldersFinite, FS_AddElement
    <2>3. permits + 1 <= MaxLimit
      BY <1>b, <1>e, LimitBound DEF TaskTypeOK
    <2> QED BY <2>2, <2>3, <1>b, <1>e DEF PermitsAccounted, Holders
  <1> QED BY <1>1, <1>2, <1>3

(* A new task is a leaf of the tree, with a number of its own.             *)
LEMMA SpawnFamily ==
    ASSUME TaskInv, NEW v \in VMs, NEW k \in {"block", "value"}, SpawnTask(v, k)
    PROVE  FamilyInv'
  <1>a. /\ v \in Started /\ spawned + 1 \in Tasks /\ spawned + 1 # v /\ spawned + 1 \in VMs
        /\ nextTaskId[v] \in LocalIds /\ spawned \in Nat
        /\ worker[spawned + 1] = "none"
    BY SpawnFacts
  <1>b. TaskTypeOK /\ SpawnedInv
    BY DEF TaskInv
  <1>c. PICK t \in Tasks : t = spawned + 1
    BY <1>a
  <1>d. PICK i \in LocalIds : i = nextTaskId[v]
    BY <1>a
  <1>e. PICK par \in [Tasks -> VMs], num \in [Tasks -> LocalIds], anc \in [VMs -> SUBSET VMs] :
          Family(par, num, anc)
    BY DEF TaskInv, FamilyInv
  <1>f. Lineage(par, anc) /\ Numbered(par, num) /\ Placed(par, num) /\ Merged(par, anc)
    BY <1>e DEF Family
  <1> DEFINE par2 == [par EXCEPT ![t] = v]
             num2 == [num EXCEPT ![t] = i]
             anc2 == [anc EXCEPT ![t] = anc[v] \cup {t}]
             e == [task |-> t, state |-> "running", consumed |-> FALSE]
  <1>g. /\ spawned' = t /\ t \in VMs /\ t # v /\ t \notin Spawned /\ t \notin Started
        /\ Spawned' = Spawned \cup {t} /\ Started' = Started \cup {t}
        /\ Spawned \subseteq Tasks /\ Started \subseteq VMs /\ Spawned = Started \ {0}
        /\ t # 0
    <2>1. spawned' = t /\ t = spawned + 1 /\ spawned \in Nat /\ t \in VMs /\ t # v
      BY <1>a, <1>c DEF SpawnTask
    <2>2. t \notin Spawned /\ t \notin Started /\ t # 0
      BY <2>1 DEF Spawned, Started
    <2>3. 1 .. (spawned + 1) = (1 .. spawned) \cup {spawned + 1}
          /\ 0 .. (spawned + 1) = (0 .. spawned) \cup {spawned + 1}
      BY <2>1
    <2>4. Spawned' = Spawned \cup {t} /\ Started' = Started \cup {t}
      BY <2>1, <2>3 DEF Spawned, Started
    <2>5. Spawned \subseteq Tasks /\ Started \subseteq VMs /\ Spawned = Started \ {0}
      BY <2>1, TaskAssumption DEF Spawned, Started, Tasks, VMs
    <2> QED BY <2>1, <2>2, <2>4, <2>5
  <1>h. /\ par2 \in [Tasks -> VMs] /\ num2 \in [Tasks -> LocalIds] /\ anc2 \in [VMs -> SUBSET VMs]
        /\ par2[t] = v /\ num2[t] = i /\ anc2[t] = anc[v] \cup {t}
        /\ \A s \in Spawned : par2[s] = par[s] /\ num2[s] = num[s]
        /\ \A u \in Started : anc2[u] = anc[u]
    BY <1>g
  <1>i. /\ nextTaskId'[v] = i + 1 /\ \A w \in VMs : w # v => nextTaskId'[w] = nextTaskId[w]
        /\ \A w \in VMs : nextTaskId[w] \in Nat
    BY <1>b, <1>d DEF SpawnTask, TaskTypeOK
  <1>j. /\ table'[v][i] = e /\ e.task = t
        /\ \A w \in VMs, n \in LocalIds : <<w, n>> # <<v, i>> => table'[w][n] = table[w][n]
    <2>1. table' = [table EXCEPT ![v] = [table[v] EXCEPT ![i] = e]]
      BY <1>c, <1>d DEF SpawnTask, NextId
    <2>2. table \in [VMs -> [LocalIds -> Entries \cup {NoEntry}]]
      BY <1>b DEF TaskTypeOK
    <2> HIDE DEF e
    <2>3. table'[v] = [table[v] EXCEPT ![i] = e] /\ \A w \in VMs : w # v => table'[w] = table[w]
      BY <2>1, <2>2
    <2>4. table'[v][i] = e /\ \A n \in LocalIds : n # i => table'[v][n] = table[v][n]
      BY <2>2, <2>3
    <2>5. e.task = t
      BY DEF e
    <2> QED BY <2>3, <2>4, <2>5
  <1>k. UNCHANGED <<awaiting, awaitedAs, result, output, resolved>>
        /\ worker'[t] = "running" /\ \A w \in VMs : w # t => worker'[w] = worker[w]
    BY <1>b, <1>c, <1>g DEF SpawnTask, TaskTypeOK
  <1>l. /\ \A u \in Started : \A w \in anc[u] : w \in Started
        /\ \A s \in Spawned : par[s] \in Started /\ par[s] \in VMs
    <2>1. \A u \in Started : \A w \in anc[u] : w <= u /\ w \in VMs
      BY <1>f, <1>g DEF Lineage
    <2>2. \A s \in Spawned : par[s] < s /\ par[s] \in VMs
      BY <1>f, <1>g DEF Lineage
    <2> QED BY <2>1, <2>2, <1>a DEF Started, Spawned, VMs
  <1> HIDE DEF par2, num2, anc2, e
  <1>1. Lineage(par2, anc2)'
    <2>1. \A s \in Spawned' : par2[s] < s
      <3>1. v < t
        BY <1>a, <1>c DEF Started
      <3> QED BY <3>1, <1>f, <1>g, <1>h DEF Lineage
    <2>2. ASSUME NEW u \in Started'
          PROVE  /\ u \in anc2[u]
                 /\ \A w \in anc2[u] : w <= u
                 /\ \A w \in anc2[u] \ {0} : par2[w] \in anc2[u]
                 /\ \A r, s \in anc2[u] \ {0} : par2[r] = par2[s] => r = s
      <3>1. CASE u \in Started
        <4>1. anc2[u] = anc[u] /\ \A w \in anc[u] \ {0} : par2[w] = par[w]
          BY <3>1, <1>g, <1>h, <1>l
        <4> QED BY <3>1, <4>1, <1>f DEF Lineage
      <3>2. CASE u = t
        <4>1. anc2[t] = anc[v] \cup {t} /\ v \in anc[v]
          BY <1>a, <1>f, <1>h DEF Lineage
        <4>2. \A w \in anc[v] \ {0} : par2[w] = par[w] /\ w \in Spawned
          BY <1>a, <1>g, <1>h, <1>l
        <4>3. \A w \in anc[v] \ {0} : par[w] # v
          <5>1. \A w \in anc[v] \ {0} : par[w] < w /\ w <= v /\ par[w] \in VMs
            BY <4>2, <1>a, <1>f, <1>l DEF Lineage
          <5> QED BY <5>1, <1>a, <1>l DEF VMs, Started
        <4>4. \A w \in anc2[t] : w <= t
          <5>1. \A w \in anc[v] : w \in Started
            BY <1>a, <1>l
          <5>2. \A w \in Started : w <= t
            BY <1>a, <1>c DEF Started
          <5>3. t <= t
            BY <1>a, <1>c
          <5> QED BY <4>1, <5>1, <5>2, <5>3
        <4>5. \A w \in anc2[t] \ {0} : par2[w] \in anc2[t]
          BY <4>1, <4>2, <1>a, <1>f, <1>h DEF Lineage
        <4>6. \A r, s \in anc[v] \ {0} : par[r] = par[s] => r = s
          BY <1>a, <1>f DEF Lineage
        <4>7. \A r, s \in anc2[t] \ {0} : par2[r] = par2[s] => r = s
          BY <4>1, <4>2, <4>3, <4>6, <1>h
        <4> QED BY <3>2, <4>1, <4>4, <4>5, <4>7
      <3> QED BY <3>1, <3>2, <1>g
    <2> QED BY <2>1, <2>2 DEF Lineage
  <1>2. Numbered(par2, num2)'
    <2>1. \A s \in Spawned : num[s] \in Nat /\ num[s] < nextTaskId[par[s]] /\ num[s] < nextTaskId'[par[s]]
      BY <1>d, <1>f, <1>g, <1>i, <1>l DEF Numbered, LocalIds
    <2>2. \A s \in Spawned : par[s] = v => num[s] # i
      BY <2>1, <1>d
    <2>3. \A s \in Spawned' : num2[s] < nextTaskId'[par2[s]]
      BY <2>1, <1>g, <1>h, <1>i DEF LocalIds
    <2>4. \A r, s \in Spawned' : par2[s] = par2[r] /\ num2[s] = num2[r] => s = r
      BY <2>2, <1>f, <1>g, <1>h DEF Numbered
    <2> QED BY <2>3, <2>4 DEF Numbered
  <1>3. Placed(par2, num2)'
    <2>1. ASSUME NEW w \in VMs, NEW n \in LocalIds, table'[w][n] # NoEntry
          PROVE  table'[w][n].task \in Spawned' /\ par2[table'[w][n].task] = w /\ num2[table'[w][n].task] = n
      <3>1. CASE w = v /\ n = i
        BY <3>1, <1>g, <1>h, <1>j
      <3>2. CASE ~(w = v /\ n = i)
        BY <2>1, <3>2, <1>f, <1>g, <1>h, <1>j DEF Placed
      <3> QED BY <3>1, <3>2
    <2>2. awaiting[v] = NoEntry
      BY DEF SpawnTask, Executing
    <2>3. ASSUME NEW w \in VMs, awaiting[w] # NoEntry
          PROVE  /\ awaitedAs[w].id \in LocalIds /\ table'[w][awaitedAs[w].id] = NoEntry
                 /\ awaiting[w].task \in Spawned' /\ par2[awaiting[w].task] = w
                 /\ num2[awaiting[w].task] = awaitedAs[w].id
      BY <2>2, <2>3, <1>f, <1>g, <1>h, <1>j DEF Placed
    <2>4. \A r \in resolved : r.by \in Spawned' /\ par2[r.by] = r.vm /\ num2[r.by] = r.handle.id
      BY <1>f, <1>g, <1>h DEF Placed
    <2> QED BY <2>1, <2>3, <2>4, <1>k DEF Placed
  <1>4. Merged(par2, anc2)'
    <2> SUFFICES ASSUME NEW w \in VMs, NEW u \in Tasks
                 PROVE  /\ output[w][u] <= 1
                        /\ output[w][u] > 0 =>
                              /\ u \in Spawned' /\ w \in anc2[u]
                              /\ \A s \in anc2[u] \ {0} : par2[s] = w =>
                                    /\ \A n \in LocalIds : table'[w][n] # NoEntry /\ table'[w][n].task = s =>
                                           table'[w][n].consumed
                                    /\ awaiting[w] # NoEntry /\ awaiting[w].task = s => awaiting[w].consumed
                        /\ w = u /\ worker'[w] \in {"none", "running"} => output[w][u] = 0
      BY <1>k DEF Merged
    <2>1. output[w][u] <= 1
      BY <1>f DEF Merged
    <2>2. w = u /\ worker'[w] \in {"none", "running"} => output[w][u] = 0
      BY <1>a, <1>c, <1>f, <1>k DEF Merged
    <2>3. ASSUME output[w][u] > 0
          PROVE  /\ u \in Spawned' /\ w \in anc2[u]
                 /\ \A s \in anc2[u] \ {0} : par2[s] = w =>
                       /\ \A n \in LocalIds : table'[w][n] # NoEntry /\ table'[w][n].task = s =>
                              table'[w][n].consumed
                       /\ awaiting[w] # NoEntry /\ awaiting[w].task = s => awaiting[w].consumed
      <3>1. u \in Spawned /\ w \in anc[u]
        BY <2>3, <1>f DEF Merged
      <3>2. anc2[u] = anc[u] /\ \A s \in anc[u] \ {0} : s \in Spawned /\ par2[s] = par[s] /\ s # t
        BY <3>1, <1>g, <1>h, <1>l
      <3>3. ASSUME NEW s \in anc[u] \ {0}, par[s] = w
            PROVE  /\ \A n \in LocalIds : table'[w][n] # NoEntry /\ table'[w][n].task = s =>
                          table'[w][n].consumed
                   /\ awaiting[w] # NoEntry /\ awaiting[w].task = s => awaiting[w].consumed
        <4>1. ASSUME NEW n \in LocalIds, table'[w][n] # NoEntry, table'[w][n].task = s
              PROVE  table'[w][n].consumed
          <5>1. ~(w = v /\ n = i)
            BY <4>1, <3>2, <3>3, <1>j
          <5>2. table'[w][n] = table[w][n]
            BY <5>1, <1>j
          <5> QED BY <5>2, <4>1, <3>3, <2>3, <1>f DEF Merged
        <4>2. awaiting[w] # NoEntry /\ awaiting[w].task = s => awaiting[w].consumed
          BY <3>3, <2>3, <1>f DEF Merged
        <4> QED BY <4>1, <4>2
      <3> QED BY <3>1, <3>2, <3>3, <1>g
    <2> QED BY <2>1, <2>2, <2>3
  <1> QED BY <1>1, <1>2, <1>3, <1>4, <1>h DEF FamilyInv, Family

(* A worker publishes its completion: its text is new, or gone.            *)
LEMMA PublishKeeps ==
    ASSUME TaskInv, NEW t \in Tasks,
           Panic(t) \/ \E value \in Handles \cup {Plain} : Complete(t, value)
    PROVE  TaskInv'
  <1>a. TaskTypeOK /\ SpawnedInv /\ PermitsAccounted
    BY DEF TaskInv
  <1>b. t \in VMs /\ worker[t] = "running"
    BY DEF Tasks, VMs, Panic, Complete
  <1>c. /\ UNCHANGED <<permits, spawned, nextTaskId, table, handles, awaiting, awaitedAs, kind, resolved>>
        /\ worker' = [worker EXCEPT ![t] = "ready"]
    BY DEF Panic, Complete, AfterPanic
  <1>d. result' \in [Tasks -> Handles \cup {Plain}]
    BY <1>a DEF TaskTypeOK, Panic, Complete
  <1>e. PICK o \in [Tasks -> Nat] :
          /\ output' = [output EXCEPT ![t] = o]
          /\ \A u \in Tasks : u # t => o[u] <= output[t][u]
          /\ o[t] <= output[t][t] + 1
    <2>1. output[t] \in [Tasks -> Nat] /\ Silent \in [Tasks -> Nat]
      BY <1>a, <1>b DEF TaskTypeOK, Silent
    <2>2. CASE output' = [output EXCEPT ![t] = Silent]
      <3>1. \A u \in Tasks : Silent[u] <= output[t][u] /\ Silent[u] <= output[t][u] + 1
        BY <2>1 DEF Silent
      <3> QED BY <2>1, <2>2, <3>1
    <2>3. CASE output' = [output EXCEPT ![t] = output[t]]
      <3>1. \A u \in Tasks : output[t][u] <= output[t][u] /\ output[t][u] <= output[t][u] + 1
        BY <2>1
      <3> QED BY <2>1, <2>3, <3>1
    <2>4. CASE output' = [output EXCEPT ![t] = [output[t] EXCEPT ![t] = output[t][t] + 1]]
      <3> DEFINE p == [output[t] EXCEPT ![t] = output[t][t] + 1]
      <3>1. p \in [Tasks -> Nat] /\ p[t] = output[t][t] + 1 /\ \A u \in Tasks : u # t => p[u] = output[t][u]
        BY <2>1
      <3> HIDE DEF p
      <3>2. p[t] <= output[t][t] + 1 /\ \A u \in Tasks : u # t => p[u] <= output[t][u]
        BY <2>1, <3>1
      <3>3. output' = [output EXCEPT ![t] = p]
        BY <2>4 DEF p
      <3> QED BY <3>1, <3>2, <3>3
    <2>5. CASE Panic(t)
      BY <2>2, <2>5 DEF Panic
    <2>6. CASE \E value \in Handles \cup {Plain} : Complete(t, value)
      <3>1. output' = [output EXCEPT ![t] = IF kind[t] = "block"
                          THEN [output[t] EXCEPT ![t] = output[t][t] + 1] ELSE output[t]]
        <4>1. PICK value : Complete(t, value)
          BY <2>6
        <4> QED BY <4>1 DEF Complete
      <3>2. CASE kind[t] = "block"
        <4>1. output' = [output EXCEPT ![t] = [output[t] EXCEPT ![t] = output[t][t] + 1]]
          BY <3>1, <3>2
        <4> QED BY <4>1, <2>4
      <3>3. CASE kind[t] # "block"
        <4>1. output' = [output EXCEPT ![t] = output[t]]
          BY <3>1, <3>3
        <4> QED BY <4>1, <2>3
      <3> QED BY <3>2, <3>3
    <2> QED BY <2>5, <2>6
  <1>f. /\ \A u \in Tasks : output'[t][u] = o[u]
        /\ \A w \in VMs : w # t => output'[w] = output[w]
        /\ output' \in [VMs -> [Tasks -> Nat]]
        /\ \A w \in VMs, u \in Tasks : output[w][u] \in Nat
    BY <1>a, <1>b, <1>e DEF TaskTypeOK
  <1>g. worker'[t] = "ready" /\ \A w \in VMs : w # t => worker'[w] = worker[w]
    BY <1>a, <1>b, <1>c DEF TaskTypeOK
  <1>1. TaskTypeOK'
    <2>1. worker' \in [VMs -> {"none", "running", "ready", "ended"}]
      BY <1>a, <1>c DEF TaskTypeOK
    <2> QED BY <2>1, <1>a, <1>c, <1>d, <1>f DEF TaskTypeOK
  <1>2. SpawnedInv'
    BY <1>a, <1>b, <1>c, <1>g DEF SpawnedInv, Tasks, VMs
  <1>3. PermitsAccounted'
    <2>1. \A u \in Tasks : u \in VMs
      BY DEF Tasks, VMs
    <2>2. Holders' = Holders
      BY <2>1, <1>b, <1>g DEF Holders
    <2> QED BY <2>2, <1>a, <1>c DEF PermitsAccounted, Holders
  <1>4. FamilyInv'
    <2>1. PICK par \in [Tasks -> VMs], num \in [Tasks -> LocalIds], anc \in [VMs -> SUBSET VMs] :
            Family(par, num, anc)
      BY DEF TaskInv, FamilyInv
    <2>2. Lineage(par, anc) /\ Numbered(par, num) /\ Placed(par, num) /\ Merged(par, anc)
      BY <2>1 DEF Family
    <2>3. Lineage(par, anc)'
      BY <2>2, <1>c DEF Lineage, Spawned, Started
    <2>4. Numbered(par, num)'
      BY <2>2, <1>c DEF Numbered, Spawned
    <2>5. Placed(par, num)'
      BY <2>2, <1>c DEF Placed, Spawned
    <2>6. Merged(par, anc)'
      <3>1. \A w \in VMs, u \in Tasks :
              /\ output[w][u] <= 1
              /\ output'[w][u] > 0 /\ ~(w = t /\ u = t) => output[w][u] > 0
              /\ ~(w = t /\ u = t) => output'[w][u] <= output[w][u]
        BY <2>2, <1>e, <1>f DEF Merged
      <3>2. output[t][t] = 0 /\ o[t] <= 1
        <4>1. output[t][t] = 0
          BY <2>2, <1>b DEF Merged
        <4> QED BY <4>1, <1>e
      <3>3. \A w \in VMs, u \in Tasks : output'[w][u] <= 1 /\ output'[w][u] \in Nat
        BY <3>1, <3>2, <1>b, <1>f
      <3>4. \A w \in VMs : w \in Tasks /\ worker'[w] \in {"none", "running"} => output'[w][w] = 0
        <4>1. \A w \in VMs : w \in Tasks /\ worker[w] \in {"none", "running"} => output[w][w] = 0
          BY <2>2 DEF Merged
        <4>2. \A w \in VMs : worker'[w] \in {"none", "running"} => w # t
          BY <1>g
        <4> QED BY <4>1, <4>2, <1>f, <1>g
      <3>5. t \in Spawned
        BY <1>a, <1>b DEF SpawnedInv, TaskTypeOK, Spawned, Tasks
      <3>6. \A s \in anc[t] \ {0} : par[s] # t
        <4>1. \A s \in anc[t] \ {0} : s <= t /\ s \in VMs
          BY <2>2, <3>5, <1>a, <1>b DEF Lineage, Started, Spawned, TaskTypeOK
        <4>2. \A s \in anc[t] \ {0} : s \in Spawned /\ par[s] \in VMs
          BY <4>1, <3>5, <1>a DEF Spawned, VMs, Tasks, TaskTypeOK
        <4>3. \A s \in anc[t] \ {0} : par[s] < s
          BY <4>2, <2>2 DEF Lineage
        <4> QED BY <4>1, <4>2, <4>3 DEF VMs, Tasks
      <3>7. t \in anc[t]
        BY <3>5, <2>2, <1>a DEF Lineage, Spawned, Started, TaskTypeOK
      <3>8. ASSUME NEW w \in VMs, NEW u \in Tasks, output'[w][u] > 0
            PROVE  /\ u \in Spawned /\ w \in anc[u]
                   /\ \A s \in anc[u] \ {0} : par[s] = w =>
                         /\ \A n \in LocalIds : table[w][n] # NoEntry /\ table[w][n].task = s => table[w][n].consumed
                         /\ awaiting[w] # NoEntry /\ awaiting[w].task = s => awaiting[w].consumed
        <4>1. CASE w = t /\ u = t
          BY <4>1, <3>5, <3>6, <3>7
        <4>2. CASE ~(w = t /\ u = t)
          <5>1. output[w][u] > 0
            BY <3>1, <3>8, <4>2
          <5> QED BY <5>1, <2>2 DEF Merged
        <4> QED BY <4>1, <4>2
      <3>9. Spawned' = Spawned
        BY <1>c DEF Spawned
      <3> QED BY <3>3, <3>4, <3>8, <3>9, <1>c DEF Merged
    <2> QED BY <2>3, <2>4, <2>5, <2>6 DEF FamilyInv, Family
  <1> QED BY <1>1, <1>2, <1>3, <1>4 DEF TaskInv

(* The thread ends and gives its permit back.                              *)
LEMMA DropKeeps ==
    ASSUME TaskInv, NEW t \in Tasks, DropPermit(t)
    PROVE  TaskInv'
  <1>a. TaskTypeOK /\ SpawnedInv /\ PermitsAccounted
    BY DEF TaskInv
  <1>b. t \in VMs /\ worker[t] = "ready" /\ permits' = permits - 1 /\ worker' = [worker EXCEPT ![t] = "ended"]
        /\ UNCHANGED <<spawned, nextTaskId, table, handles, awaiting, awaitedAs, kind, result, output, resolved>>
    BY DEF Tasks, VMs, DropPermit, PermitDropped
  <1>c. worker'[t] = "ended" /\ \A w \in VMs : w # t => worker'[w] = worker[w]
    BY <1>a, <1>b DEF TaskTypeOK
  <1>d. \A u \in Tasks : u \in VMs
    BY DEF Tasks, VMs
  <1>1. PermitsAccounted' /\ permits' \in Nat
    <2>1. Holders' = Holders \ {t} /\ t \in Holders
      BY <1>b, <1>c, <1>d DEF Holders
    <2>2. Cardinality(Holders') = Cardinality(Holders) - 1 /\ Cardinality(Holders') \in Nat
      <3>1. IsFiniteSet(Holders')
        BY <2>1, HoldersFinite, FS_Subset
      <3> QED BY <2>1, <3>1, HoldersFinite, FS_RemoveElement, FS_CardinalityType
    <2>3. permits = Cardinality(Holders) /\ permits <= MaxLimit
      BY <1>a DEF PermitsAccounted, Holders
    <2>4. permits' = Cardinality(Holders') /\ permits' <= MaxLimit /\ permits' \in Nat
      BY <2>2, <2>3, <1>b, LimitBound, HoldersFinite
    <2> QED BY <2>4 DEF PermitsAccounted, Holders
  <1>2. TaskTypeOK'
    <2>1. worker' \in [VMs -> {"none", "running", "ready", "ended"}]
      BY <1>a, <1>b DEF TaskTypeOK
    <2> QED BY <2>1, <1>1, <1>a, <1>b DEF TaskTypeOK
  <1>3. SpawnedInv'
    BY <1>a, <1>b, <1>c, <1>d DEF SpawnedInv
  <1>4. FamilyInv'
    <2>1. PICK par \in [Tasks -> VMs], num \in [Tasks -> LocalIds], anc \in [VMs -> SUBSET VMs] :
            Family(par, num, anc)
      BY DEF TaskInv, FamilyInv
    <2>2. Lineage(par, anc) /\ Numbered(par, num) /\ Placed(par, num) /\ Merged(par, anc)
      BY <2>1 DEF Family
    <2>3. Lineage(par, anc)' /\ Numbered(par, num)'
      BY <2>2, <1>b DEF Lineage, Numbered, Spawned, Started
    <2>4. Placed(par, num)'
      BY <2>2, <1>b DEF Placed, Spawned
    <2>5. Merged(par, anc)'
      <3>1. \A w \in VMs : worker'[w] \in {"none", "running"} => worker[w] \in {"none", "running"}
        BY <1>b, <1>c
      <3> QED BY <3>1, <2>2, <1>b DEF Merged, Spawned
    <2> QED BY <2>3, <2>4, <2>5 DEF FamilyInv, Family
  <1> QED BY <1>1, <1>2, <1>3, <1>4 DEF TaskInv

(* Taking an entry out of the table, to await it or to release it, leaves  *)
(* nothing behind at its place.                                            *)
LEMMA AwaitTakeKeeps ==
    ASSUME TaskInv, NEW v \in VMs, NEW h \in Handles, BeginAwait(v, h) \/ ReleaseTask(v, h)
    PROVE  TaskInv'
  <1>a. TaskTypeOK /\ SpawnedInv /\ PermitsAccounted
    BY DEF TaskInv
  <1>b. PICK i \in LocalIds : i = h.id
    BY DEF Handles
  <1>c. /\ awaiting[v] = NoEntry /\ table[v][i] # NoEntry
        /\ table' = [table EXCEPT ![v] = [table[v] EXCEPT ![i] = NoEntry]]
        /\ UNCHANGED <<permits, spawned, nextTaskId, handles, kind, worker, result, output, resolved>>
    BY <1>b DEF BeginAwait, ReleaseTask, Executing
  <1>d. \/ awaiting' = [awaiting EXCEPT ![v] = table[v][i]] /\ awaitedAs' = [awaitedAs EXCEPT ![v] = h]
        \/ awaiting' = awaiting /\ awaitedAs' = awaitedAs
    BY <1>b DEF BeginAwait, ReleaseTask
  <1>e. /\ table \in [VMs -> [LocalIds -> Entries \cup {NoEntry}]] /\ table[v][i] \in Entries
        /\ awaiting \in [VMs -> Entries \cup {NoEntry}] /\ awaitedAs \in [VMs -> Handles \cup {Plain}]
    BY <1>a, <1>c DEF TaskTypeOK
  <1>f. /\ table'[v][i] = NoEntry
        /\ \A w \in VMs, n \in LocalIds : table'[w][n] # NoEntry => table'[w][n] = table[w][n]
        /\ \A w \in VMs, n \in LocalIds : table[w][n] = NoEntry => table'[w][n] = NoEntry
    <2>1. table'[v] = [table[v] EXCEPT ![i] = NoEntry] /\ \A w \in VMs : w # v => table'[w] = table[w]
      BY <1>c, <1>e
    <2>2. table'[v][i] = NoEntry /\ \A n \in LocalIds : n # i => table'[v][n] = table[v][n]
      BY <2>1, <1>e
    <2> QED BY <2>1, <2>2
  <1>g. /\ \A w \in VMs : w # v => awaiting'[w] = awaiting[w] /\ awaitedAs'[w] = awaitedAs[w]
        /\ awaiting'[v] # NoEntry => awaiting'[v] = table[v][i] /\ awaitedAs'[v] = h
    BY <1>c, <1>d, <1>e
  <1>1. TaskTypeOK'
    <2>1. table' \in [VMs -> [LocalIds -> Entries \cup {NoEntry}]]
      <3>1. [table[v] EXCEPT ![i] = NoEntry] \in [LocalIds -> Entries \cup {NoEntry}]
        BY <1>e
      <3> QED BY <3>1, <1>c, <1>e
    <2>2. awaiting' \in [VMs -> Entries \cup {NoEntry}] /\ awaitedAs' \in [VMs -> Handles \cup {Plain}]
      BY <1>d, <1>e
    <2> QED BY <2>1, <2>2, <1>a, <1>c DEF TaskTypeOK
  <1>2. SpawnedInv' /\ PermitsAccounted'
    BY <1>a, <1>c DEF SpawnedInv, PermitsAccounted
  <1>3. FamilyInv'
    <2>1. PICK par \in [Tasks -> VMs], num \in [Tasks -> LocalIds], anc \in [VMs -> SUBSET VMs] :
            Family(par, num, anc)
      BY DEF TaskInv, FamilyInv
    <2>2. Lineage(par, anc) /\ Numbered(par, num) /\ Placed(par, num) /\ Merged(par, anc)
      BY <2>1 DEF Family
    <2>3. Lineage(par, anc)' /\ Numbered(par, num)'
      BY <2>2, <1>c DEF Lineage, Numbered, Spawned, Started
    <2>4. Spawned' = Spawned
      BY <1>c DEF Spawned
    <2>5. table[v][i].task \in Spawned /\ par[table[v][i].task] = v /\ num[table[v][i].task] = i
      BY <2>2, <1>c DEF Placed
    <2>6. Placed(par, num)'
      <3>1. ASSUME NEW w \in VMs, NEW n \in LocalIds, table'[w][n] # NoEntry
            PROVE  table'[w][n].task \in Spawned /\ par[table'[w][n].task] = w /\ num[table'[w][n].task] = n
        <4>1. table'[w][n] = table[w][n]
          BY <3>1, <1>f
        <4> QED BY <3>1, <4>1, <2>2 DEF Placed
      <3>2. ASSUME NEW w \in VMs, awaiting'[w] # NoEntry
            PROVE  /\ awaitedAs'[w].id \in LocalIds /\ table'[w][awaitedAs'[w].id] = NoEntry
                   /\ awaiting'[w].task \in Spawned /\ par[awaiting'[w].task] = w
                   /\ num[awaiting'[w].task] = awaitedAs'[w].id
        <4>1. CASE w = v
          BY <3>2, <4>1, <1>b, <1>f, <1>g, <2>5
        <4>2. CASE w # v
          BY <3>2, <4>2, <1>f, <1>g, <2>2 DEF Placed
        <4> QED BY <4>1, <4>2
      <3>3. \A r \in resolved : r.by \in Spawned /\ par[r.by] = r.vm /\ num[r.by] = r.handle.id
        BY <2>2 DEF Placed
      <3> QED BY <3>1, <3>2, <3>3, <2>4, <1>c DEF Placed
    <2>7. Merged(par, anc)'
      <3>1. ASSUME NEW w \in VMs, NEW u \in Tasks, output[w][u] > 0
            PROVE  /\ u \in Spawned /\ w \in anc[u]
                   /\ \A s \in anc[u] \ {0} : par[s] = w =>
                         /\ \A n \in LocalIds : table'[w][n] # NoEntry /\ table'[w][n].task = s =>
                                table'[w][n].consumed
                         /\ awaiting'[w] # NoEntry /\ awaiting'[w].task = s => awaiting'[w].consumed
        <4>1. /\ u \in Spawned /\ w \in anc[u]
              /\ \A s \in anc[u] \ {0} : par[s] = w =>
                    /\ \A n \in LocalIds : table[w][n] # NoEntry /\ table[w][n].task = s => table[w][n].consumed
                    /\ awaiting[w] # NoEntry /\ awaiting[w].task = s => awaiting[w].consumed
          BY <3>1, <2>2 DEF Merged
        <4>2. ASSUME NEW s \in anc[u] \ {0}, par[s] = w
              PROVE  /\ \A n \in LocalIds : table'[w][n] # NoEntry /\ table'[w][n].task = s =>
                            table'[w][n].consumed
                     /\ awaiting'[w] # NoEntry /\ awaiting'[w].task = s => awaiting'[w].consumed
          <5>1. \A n \in LocalIds : table'[w][n] # NoEntry /\ table'[w][n].task = s => table'[w][n].consumed
            BY <4>1, <4>2, <1>f
          <5>2. awaiting'[w] # NoEntry /\ awaiting'[w].task = s => awaiting'[w].consumed
            <6>1. CASE w = v
              BY <6>1, <4>1, <4>2, <1>c, <1>g
            <6>2. CASE w # v
              BY <6>2, <4>1, <4>2, <1>g
            <6> QED BY <6>1, <6>2
          <5> QED BY <5>1, <5>2
        <4> QED BY <4>1, <4>2
      <3>2. \A w \in VMs, u \in Tasks :
              output[w][u] <= 1 /\ (w = u /\ worker[w] \in {"none", "running"} => output[w][u] = 0)
        BY <2>2 DEF Merged
      <3> QED BY <3>1, <3>2, <2>4, <1>c DEF Merged
    <2> QED BY <2>3, <2>6, <2>7 DEF FamilyInv, Family
  <1> QED BY <1>1, <1>2, <1>3 DEF TaskInv

(* An await that returns keeps the types and the ledger of permits.        *)
LEMMA FinishTypes ==
    ASSUME TaskInv, NEW v \in VMs, FinishAwait(v)
    PROVE  TaskTypeOK' /\ SpawnedInv' /\ PermitsAccounted'
  <1>a. TaskTypeOK /\ SpawnedInv /\ PermitsAccounted
    BY DEF TaskInv
  <1>b. awaiting[v] # NoEntry /\ awaiting[v] \in Entries
    BY <1>a DEF FinishAwait, TaskTypeOK
  <1>c. PICK t \in Tasks : t = awaiting[v].task
    BY <1>b DEF Entries
  <1>d. awaitedAs[v].id \in LocalIds
    BY <1>b DEF TaskInv, FamilyInv, Family, Placed
  <1>e. PICK i \in LocalIds : i = awaitedAs[v].id
    BY <1>d
  <1>f. awaitedAs[v] \in Handles
    BY <1>a, <1>d DEF TaskTypeOK, Plain, LocalIds
  <1>g. /\ output' = [output EXCEPT ![v] = IF MergesOutput(v)
                          THEN [u \in Tasks |-> output[v][u] + output[t][u]] ELSE output[v]]
        /\ table' = [table EXCEPT ![v] = [table[v] EXCEPT ![i] =
                         [task |-> t, state |-> "finished", consumed |-> TRUE]]]
        /\ handles' = [handles EXCEPT ![v] = handles[v] \cup ({result[t]} \ {Plain})]
        /\ resolved' = resolved \cup {[vm |-> v, handle |-> awaitedAs[v], by |-> t]}
        /\ awaiting' = [awaiting EXCEPT ![v] = NoEntry]
        /\ UNCHANGED <<permits, spawned, nextTaskId, awaitedAs, kind, worker, result>>
    BY <1>c, <1>e DEF FinishAwait
  <1>1. table' \in [VMs -> [LocalIds -> Entries \cup {NoEntry}]]
    <2>1. [task |-> t, state |-> "finished", consumed |-> TRUE] \in Entries
      BY DEF Entries
    <2>2. table[v] \in [LocalIds -> Entries \cup {NoEntry}]
      BY <1>a DEF TaskTypeOK
    <2>3. [table[v] EXCEPT ![i] = [task |-> t, state |-> "finished", consumed |-> TRUE]]
              \in [LocalIds -> Entries \cup {NoEntry}]
      BY <2>1, <2>2
    <2> QED BY <2>3, <1>a, <1>g DEF TaskTypeOK
  <1>2. output' \in [VMs -> [Tasks -> Nat]]
    <2>1. output[v] \in [Tasks -> Nat] /\ output[t] \in [Tasks -> Nat]
      BY <1>a DEF TaskTypeOK, Tasks, VMs
    <2>2. [u \in Tasks |-> output[v][u] + output[t][u]] \in [Tasks -> Nat]
      BY <2>1
    <2> QED BY <2>1, <2>2, <1>a, <1>g DEF TaskTypeOK
  <1>3. handles' \in [VMs -> SUBSET Handles]
    BY <1>a, <1>g DEF TaskTypeOK
  <1>4. resolved' \subseteq [vm : VMs, handle : Handles, by : Tasks]
    BY <1>a, <1>f, <1>g DEF TaskTypeOK
  <1>5. awaiting' \in [VMs -> Entries \cup {NoEntry}]
    BY <1>a, <1>g DEF TaskTypeOK
  <1>6. TaskTypeOK'
    BY <1>1, <1>2, <1>3, <1>4, <1>5, <1>a, <1>g DEF TaskTypeOK
  <1>7. SpawnedInv' /\ PermitsAccounted'
    BY <1>a, <1>g DEF SpawnedInv, PermitsAccounted
  <1> QED BY <1>6, <1>7

(* An await that returns merges the text of a task and of those below it   *)
(* at most once, and puts the entry back at its place.                     *)
LEMMA FinishFamily ==
    ASSUME TaskInv, NEW v \in VMs, FinishAwait(v)
    PROVE  FamilyInv'
  <1>a. TaskTypeOK /\ SpawnedInv
    BY DEF TaskInv
  <1>b. PICK par \in [Tasks -> VMs], num \in [Tasks -> LocalIds], anc \in [VMs -> SUBSET VMs] :
          Family(par, num, anc)
    BY DEF TaskInv, FamilyInv
  <1>c. Lineage(par, anc) /\ Numbered(par, num) /\ Placed(par, num) /\ Merged(par, anc)
    BY <1>b DEF Family
  <1>d. awaiting[v] # NoEntry /\ awaiting[v] \in Entries
    BY <1>a DEF FinishAwait, TaskTypeOK
  <1>e. PICK t \in Tasks : t = awaiting[v].task
    BY <1>d DEF Entries
  <1>f. awaitedAs[v].id \in LocalIds
    BY <1>c, <1>d DEF Placed
  <1>g. PICK i \in LocalIds : i = awaitedAs[v].id
    BY <1>f
  <1>h. t \in Spawned /\ par[t] = v /\ num[t] = i /\ table[v][i] = NoEntry /\ t \in VMs /\ t # 0
    BY <1>c, <1>d, <1>e, <1>g DEF Placed, Tasks, VMs
  <1>i. /\ output' = [output EXCEPT ![v] = IF MergesOutput(v)
                          THEN [u \in Tasks |-> output[v][u] + output[t][u]] ELSE output[v]]
        /\ table' = [table EXCEPT ![v] = [table[v] EXCEPT ![i] =
                         [task |-> t, state |-> "finished", consumed |-> TRUE]]]
        /\ resolved' = resolved \cup {[vm |-> v, handle |-> awaitedAs[v], by |-> t]}
        /\ awaiting' = [awaiting EXCEPT ![v] = NoEntry]
        /\ UNCHANGED <<permits, spawned, nextTaskId, awaitedAs, kind, worker, result>>
    BY <1>e, <1>g DEF FinishAwait
  <1>j. /\ table'[v][i].task = t /\ table'[v][i].consumed
        /\ \A w \in VMs, n \in LocalIds : <<w, n>> # <<v, i>> => table'[w][n] = table[w][n]
    <2> DEFINE e == [task |-> t, state |-> "finished", consumed |-> TRUE]
    <2>1. e.task = t /\ e.consumed
      OBVIOUS
    <2>2. table' = [table EXCEPT ![v] = [table[v] EXCEPT ![i] = e]]
      BY <1>i
    <2>3. table \in [VMs -> [LocalIds -> Entries \cup {NoEntry}]]
      BY <1>a DEF TaskTypeOK
    <2> HIDE DEF e
    <2>4. table'[v] = [table[v] EXCEPT ![i] = e] /\ \A w \in VMs : w # v => table'[w] = table[w]
      BY <2>2, <2>3
    <2>5. table'[v][i] = e /\ \A n \in LocalIds : n # i => table'[v][n] = table[v][n]
      BY <2>3, <2>4
    <2> QED BY <2>1, <2>4, <2>5
  <1>k. awaiting'[v] = NoEntry /\ \A w \in VMs : w # v => awaiting'[w] = awaiting[w]
    BY <1>a, <1>i DEF TaskTypeOK
  <1>l. Spawned' = Spawned /\ Started' = Started
    BY <1>i DEF Spawned, Started
  <1>m. /\ \A w \in VMs, u \in Tasks : output[w][u] \in Nat
        /\ \A w \in VMs : w # v => output'[w] = output[w]
        /\ awaiting[v].consumed => \A u \in Tasks : output'[v][u] = output[v][u]
        /\ ~awaiting[v].consumed => \A u \in Tasks : output'[v][u] = output[v][u] + output[t][u]
    <2>1. \A w \in VMs, u \in Tasks : output[w][u] \in Nat
      BY <1>a DEF TaskTypeOK
    <2>2. \A w \in VMs : w # v => output'[w] = output[w]
      BY <1>a, <1>i DEF TaskTypeOK
    <2>3. output'[v] = IF MergesOutput(v) THEN [u \in Tasks |-> output[v][u] + output[t][u]] ELSE output[v]
      BY <1>a, <1>i DEF TaskTypeOK
    <2>4. CASE awaiting[v].consumed
      <3>1. output'[v] = output[v]
        BY <2>3, <2>4 DEF MergesOutput
      <3> QED BY <2>1, <2>2, <2>4, <3>1
    <2>5. CASE ~awaiting[v].consumed
      <3>1. output'[v] = [u \in Tasks |-> output[v][u] + output[t][u]]
        BY <2>3, <2>5 DEF MergesOutput
      <3> QED BY <2>1, <2>2, <2>5, <3>1
    <2> QED BY <2>4, <2>5
  <1>1. Lineage(par, anc)' /\ Numbered(par, num)'
    BY <1>c, <1>i, <1>l DEF Lineage, Numbered
  <1>2. Placed(par, num)'
    <2>1. ASSUME NEW w \in VMs, NEW n \in LocalIds, table'[w][n] # NoEntry
          PROVE  table'[w][n].task \in Spawned /\ par[table'[w][n].task] = w /\ num[table'[w][n].task] = n
      <3>1. CASE w = v /\ n = i
        BY <3>1, <1>h, <1>j
      <3>2. CASE ~(w = v /\ n = i)
        BY <2>1, <3>2, <1>c, <1>j DEF Placed
      <3> QED BY <3>1, <3>2
    <2>2. ASSUME NEW w \in VMs, awaiting'[w] # NoEntry
          PROVE  /\ awaitedAs[w].id \in LocalIds /\ table'[w][awaitedAs[w].id] = NoEntry
                 /\ awaiting'[w].task \in Spawned /\ par[awaiting'[w].task] = w
                 /\ num[awaiting'[w].task] = awaitedAs[w].id
      <3>1. w # v /\ awaiting'[w] = awaiting[w]
        BY <2>2, <1>k
      <3> QED BY <2>2, <3>1, <1>c, <1>j DEF Placed
    <2>3. ASSUME NEW r \in resolved' PROVE r.by \in Spawned /\ par[r.by] = r.vm /\ num[r.by] = r.handle.id
      <3>1. CASE r \in resolved
        BY <3>1, <1>c DEF Placed
      <3>2. CASE r = [vm |-> v, handle |-> awaitedAs[v], by |-> t]
        BY <3>2, <1>g, <1>h
      <3> QED BY <3>1, <3>2, <1>i
    <2> QED BY <2>1, <2>2, <2>3, <1>i, <1>l DEF Placed
  <1>3. \A u \in Tasks : output[t][u] > 0 => u \in Spawned /\ u \in Started /\ t \in anc[u] /\ v \in anc[u]
    <2>1. \A u \in Tasks : output[t][u] > 0 => u \in Spawned /\ t \in anc[u]
      BY <1>c, <1>h DEF Merged
    <2>2. \A u \in Spawned : u \in Started
      BY <1>a DEF Spawned, Started, TaskTypeOK
    <2> QED BY <2>1, <2>2, <1>c, <1>h DEF Lineage
  <1>4. \A u \in Tasks : output[t][u] > 0 /\ output[v][u] > 0 => awaiting[v].consumed
    BY <1>3, <1>c, <1>d, <1>e, <1>h DEF Merged
  <1>5. \A u \in Tasks : output'[v][u] > 0 => output[v][u] > 0 \/ output[t][u] > 0
    BY <1>m, <1>h
  <1>6. Merged(par, anc)'
    <2>1. ASSUME NEW w \in VMs, NEW u \in Tasks PROVE output'[w][u] <= 1
      <3>1. output[w][u] <= 1 /\ output[t][u] <= 1
        BY <1>c, <1>h DEF Merged
      <3>2. CASE w = v
        BY <3>1, <3>2, <1>4, <1>h, <1>m
      <3>3. CASE w # v
        BY <3>1, <3>3, <1>m
      <3> QED BY <3>2, <3>3
    <2>2. ASSUME NEW u \in Tasks, v = u, worker[v] \in {"none", "running"} PROVE output'[v][u] = 0
      <3>1. output[v][u] = 0
        BY <2>2, <1>c DEF Merged
      <3>2. ASSUME output[t][u] > 0 PROVE FALSE
        <4>1. t <= u /\ v < t
          BY <3>2, <1>3, <1>c, <1>h DEF Lineage
        <4> QED BY <4>1, <2>2 DEF Tasks
      <3>3. output[t][u] = 0
        BY <3>2, <1>h, <1>m
      <3> QED BY <3>1, <3>3, <1>m
    <2>3. ASSUME NEW w \in VMs, NEW u \in Tasks, output'[w][u] > 0
          PROVE  /\ u \in Spawned /\ w \in anc[u]
                 /\ \A s \in anc[u] \ {0} : par[s] = w =>
                       /\ \A n \in LocalIds : table'[w][n] # NoEntry /\ table'[w][n].task = s =>
                              table'[w][n].consumed
                       /\ awaiting'[w] # NoEntry /\ awaiting'[w].task = s => awaiting'[w].consumed
      <3>a. output[w][u] > 0 =>
              /\ u \in Spawned /\ w \in anc[u]
              /\ \A s \in anc[u] \ {0} : par[s] = w =>
                    /\ \A n \in LocalIds : table[w][n] # NoEntry /\ table[w][n].task = s => table[w][n].consumed
                    /\ awaiting[w] # NoEntry /\ awaiting[w].task = s => awaiting[w].consumed
        BY <1>c DEF Merged
      <3>1. CASE w # v
        <4>1. output[w][u] > 0
          BY <3>1, <2>3, <1>m
        <4>2. awaiting'[w] = awaiting[w] /\ \A n \in LocalIds : table'[w][n] = table[w][n]
          BY <3>1, <1>j, <1>k
        <4> QED BY <3>a, <4>1, <4>2
      <3>2. CASE w = v
        <4>1. u \in Spawned /\ v \in anc[u]
          BY <3>a, <3>2, <2>3, <1>3, <1>5
        <4>2. ASSUME NEW s \in anc[u] \ {0}, par[s] = v, NEW n \in LocalIds,
                     table'[v][n] # NoEntry, table'[v][n].task = s
              PROVE  table'[v][n].consumed
          <5>1. CASE n = i
            BY <5>1, <1>j
          <5>2. CASE n # i
            <6>1. table'[v][n] = table[v][n]
              BY <5>2, <1>j
            <6>2. num[s] = n
              BY <6>1, <4>2, <1>c DEF Placed
            <6>3. s # t
              BY <6>2, <5>2, <1>h
            <6>4. ~(output[t][u] > 0)
              BY <6>3, <4>2, <1>3, <1>c, <1>h DEF Lineage
            <6>5. output[v][u] > 0
              BY <6>4, <2>3, <3>2, <1>5
            <6> QED BY <6>1, <6>5, <3>a, <3>2, <4>2
          <5> QED BY <5>1, <5>2
        <4> QED BY <4>1, <4>2, <3>2, <1>k
      <3> QED BY <3>1, <3>2
    <2> QED BY <2>1, <2>2, <2>3, <1>c, <1>i, <1>l, <1>m DEF Merged
  <1> QED BY <1>1, <1>2, <1>6 DEF FamilyInv, Family

(* Every step of the tasks keeps the invariant.                            *)
LEMMA TaskStep == TaskInv /\ [TaskNext]_taskVars => TaskInv'
  <1> SUFFICES ASSUME TaskInv, [TaskNext]_taskVars PROVE TaskInv'
    OBVIOUS
  <1>1. CASE \E v \in VMs, k \in {"block", "value"} : SpawnTask(v, k)
    BY <1>1, SpawnTypes, SpawnFamily DEF TaskInv
  <1>2. CASE \E v \in VMs, h \in Handles : BeginAwait(v, h) \/ ReleaseTask(v, h)
    BY <1>2, AwaitTakeKeeps
  <1>3. CASE \E v \in VMs : FinishAwait(v)
    BY <1>3, FinishTypes, FinishFamily DEF TaskInv
  <1>4. CASE \E t \in Tasks : Panic(t) \/ \E value \in Handles \cup {Plain} : Complete(t, value)
    BY <1>4, PublishKeeps
  <1>5. CASE \E t \in Tasks : DropPermit(t)
    BY <1>5, DropKeeps
  <1>6. CASE UNCHANGED taskVars
    <2>1. TaskTypeOK' /\ SpawnedInv' /\ PermitsAccounted'
      BY <1>6 DEF TaskInv, TaskTypeOK, SpawnedInv, PermitsAccounted, taskVars
    <2>2. FamilyInv'
      <3>1. PICK par \in [Tasks -> VMs], num \in [Tasks -> LocalIds], anc \in [VMs -> SUBSET VMs] :
              Family(par, num, anc)
        BY DEF TaskInv, FamilyInv
      <3>2. Spawned' = Spawned /\ Started' = Started
        BY <1>6 DEF Spawned, Started, taskVars
      <3>3. Lineage(par, anc)' /\ Numbered(par, num)'
        BY <3>1, <3>2, <1>6 DEF Family, Lineage, Numbered, taskVars
      <3>4. Placed(par, num)'
        BY <3>1, <3>2, <1>6 DEF Family, Placed, taskVars
      <3>5. Merged(par, anc)'
        BY <3>1, <3>2, <1>6 DEF Family, Merged, taskVars
      <3> QED BY <3>3, <3>4, <3>5 DEF FamilyInv, Family
    <2> QED BY <2>1, <2>2 DEF TaskInv
  <1> QED BY <1>1, <1>2, <1>3, <1>4, <1>5, <1>6 DEF TaskNext

(* The invariant holds in every state of the specification.                *)
LEMMA TaskInvariant == TaskSpec => []TaskInv
  BY InitTasks, TaskStep, PTL DEF TaskSpec

(* A permit of the process-wide counter is neither leaked nor returned     *)
(* twice, and the counter never passes the largest limit, for any number   *)
(* of tasks and any limits.                                                *)
THEOREM PermitsAreAccounted == TaskSpec => []PermitsAccounted
  <1>1. TaskInv => PermitsAccounted
    BY DEF TaskInv
  <1> QED BY <1>1, TaskInvariant, PTL

(* However VMs spawn, await and release, at any depth: a task's text is    *)
(* merged into a VM's output at most once, and an id of a VM answers for   *)
(* one task for ever.                                                      *)
THEOREM AwaitsAreRepeatable == TaskSpec => []AwaitsRepeatable
  <1>1. TaskInv => AwaitsRepeatable
    <2> SUFFICES ASSUME TaskInv PROVE AwaitsRepeatable
      OBVIOUS
    <2>1. PICK par \in [Tasks -> VMs], num \in [Tasks -> LocalIds], anc \in [VMs -> SUBSET VMs] :
            Family(par, num, anc)
      BY DEF TaskInv, FamilyInv
    <2>2. OutputMergedOnce
      BY <2>1 DEF Family, Merged, OutputMergedOnce
    <2>3. IdsKeepTheirMeaning
      BY <2>1 DEF Family, Placed, Numbered, IdsKeepTheirMeaning
    <2> QED BY <2>2, <2>3 DEF AwaitsRepeatable
  <1> QED BY <1>1, TaskInvariant, PTL

-----------------------------------------------------------------------------
(***************************************************************************)
(* Debugging, for any number of browsers, lines, frames and commands.      *)
(***************************************************************************)

(* A command of a browser: only an edit of one line names a line.          *)
DebugCommands ==
    [kind : Resumes \cup {"clear", "list"}, line : {NotSet}, at : Nat]
        \cup [kind : {"add", "remove"}, line : CodeLines, at : Nat]

(* The two halves of publish_debug_web_event, and what they publish.       *)
PublishSteps == {"publishing", "broadcasting"}
(* What the recorder has to publish.                                      *)
Publications == [event : DebugEvents, next : {"waiting", "over"}]

(* A subscriber of /events.                                                *)
DebugViewers ==
    [step : {"none", "subscribed", "following", "closed"}, cursor : Nat,
     last : DebugEvents \cup {NotSet}, saw : Nat]

(* The types of the values that DebugTypeOK does not name.                 *)
DebugShapes ==
    /\ codeAt.stack \in Seq(FrameNames)
    /\ asked \in [action : Resumes, depth : Nat]
    /\ commandQueue \in Seq(DebugCommands)
    /\ control \in [Browsers -> DebugCommands \cup {NotSet}]
    /\ events \in Seq(DebugEvents) /\ latest \in DebugEvents \cup {NotSet}
    /\ viewer \in [Viewers -> DebugViewers]
    /\ unsent \in Publications \cup {NotSet}

(* A pause needs an instruction, and the status names the last pause.      *)
PausesCounted ==
    /\ pauseId = pauseCount
    /\ Pausing => pauseCount < executed

(* While the program runs the three step targets are those of the last     *)
(* resume.                                                                 *)
TargetsAsAsked ==
    vmAt \in {"running", "resumed"} =>
        /\ stepMode <=> asked.action = "step"
        /\ stepOver = IF asked.action = "next" THEN asked.depth ELSE NotSet
        /\ stepOut = IF asked.action = "out" THEN asked.depth ELSE NotSet

(* The resumes that browsers have yet to send, and those in the channel.   *)
InFlight == {b \in Browsers : control[b] # NotSet /\ control[b].kind \in Resumes}
(* Those in the channel.                                                   *)
Sent == {i \in DOMAIN commandQueue : commandQueue[i].kind \in Resumes}

(* At most one resume is on its way, and none after the last event.        *)
ResumesInv ==
    /\ \A b, d \in InFlight : b = d
    /\ \A i, j \in Sent : i = j
    /\ InFlight = {} \/ Sent = {}
    /\ \A b \in InFlight : control[b].at = pauseCount
    /\ \A i \in Sent : commandQueue[i].at = pauseCount
    /\ InFlight # {} \/ Sent # {} \/ completed => ~paused
    /\ InFlight # {} \/ Sent # {} \/ paused => vmAt \in PublishSteps \cup {"waiting"}
    /\ vmAt \in PublishSteps /\ unsent.next = "over" =>
          completed /\ InFlight = {} /\ Sent = {}

(* The latest event is the last one that was broadcast, or about to be.    *)
LatestInv ==
    /\ vmAt = "broadcasting" => latest = unsent.event
    /\ vmAt # "broadcasting" /\ Len(events) > 0 => latest = events[Len(events)]
    /\ vmAt # "broadcasting" /\ Len(events) = 0 => latest = NotSet

(* Between the two halves of publish a subscriber at the end may be one    *)
(* event behind or ahead; otherwise it has the latest.                     *)
ViewersInv ==
    \A v \in Viewers :
        /\ viewer[v].cursor <= Len(events)
        /\ viewer[v].step \in {"none", "subscribed"} => viewer[v].last = NotSet
        /\ viewer[v].step = "following" /\ viewer[v].cursor = Len(events) /\ vmAt # "broadcasting"
              => viewer[v].last = latest

(* The inductive invariant.                                                *)
DebugInv ==
    /\ DebugTypeOK /\ DebugShapes /\ PausesCounted
    /\ TargetsAsAsked /\ PausesWhereAsked
    /\ ResumesInv /\ LatestInv /\ ViewersInv

-----------------------------------------------------------------------------
(* What the assumption says of NotSet and of the bounds.                   *)
LEMMA DebugConstants ==
    /\ NotSet \notin Int /\ NotSet \notin Publications /\ FrameNames # {}
    /\ MaxDebugDepth \in Nat \ {0} /\ EventCapacity \in Nat \ {0}
    /\ MaxInstructions \in Nat /\ MaxControls \in Nat
  BY DebugAssumption DEF Publications

(* A set in which all are equal counts at most one.                        *)
LEMMA AtMostOneCounts ==
    ASSUME NEW S, \A x, y \in S : x = y
    PROVE  Cardinality(S) \in {0, 1} /\ (S = {} => Cardinality(S) = 0)
  <1>1. CASE S = {}
    BY <1>1, FS_EmptySet
  <1>2. CASE S # {}
    <2>1. PICK x : x \in S
      BY <1>2
    <2>2. S = {x}
      BY <2>1
    <2> QED BY <2>2, <1>2, FS_Singleton
  <1> QED BY <1>1, <1>2

(* The invariant gives the three parts of the property.                    *)
LEMMA DebugInvCoherent == DebugInv => DebugSessionCoherent
  <1> SUFFICES ASSUME DebugInv PROVE DebugSessionCoherent
    OBVIOUS
  <1>1. ResumesInv /\ PausesWhereAsked /\ ViewersInv /\ DebugTypeOK
    BY DEF DebugInv
  <1>2. ResumesMatchPauses
    <2>1. /\ Cardinality(InFlight) \in {0, 1} /\ (InFlight = {} => Cardinality(InFlight) = 0)
          /\ Cardinality(Sent) \in {0, 1} /\ (Sent = {} => Cardinality(Sent) = 0)
      BY <1>1, AtMostOneCounts DEF ResumesInv
    <2>2. InFlight = {} \/ Sent = {}
      BY <1>1 DEF ResumesInv
    <2>3. Cardinality(InFlight) + Cardinality(Sent) <= 1
      BY <2>1, <2>2
    <2> QED BY <1>1, <2>3 DEF ResumesMatchPauses, InFlight, Sent, ResumesInv, PublishSteps
  <1>3. ViewersCurrent
    BY <1>1 DEF ViewersCurrent, ViewersInv, DebugTypeOK
  <1> QED BY <1>1, <1>2, <1>3 DEF DebugSessionCoherent

-----------------------------------------------------------------------------
(* The session before its first instruction.                               *)
LEMMA InitDebug == DebugInit => DebugInv
  <1> SUFFICES ASSUME DebugInit PROVE DebugInv
    OBVIOUS
  <1> USE DebugConstants
  <1> DEFINE root == CHOOSE f \in FrameNames : TRUE
  <1>1. root \in FrameNames
    OBVIOUS
  <1>2. codeAt.stack = << root >> /\ codeAt.line = NotSet
    BY DEF DebugInit
  <1> HIDE DEF root
  <1>3. codeAt.stack \in Seq(FrameNames) /\ Len(codeAt.stack) = 1
    BY <1>1, <1>2
  <1>4. DebugTypeOK
    <2>1. (vmAt \in PublishSteps) = (unsent # NotSet)
      BY DEF DebugInit, PublishSteps
    <2>2. {stepMode, paused, completed} \subseteq BOOLEAN
      BY DEF DebugInit
    <2>3. \A v \in Viewers :
            /\ viewer[v].step \in {"none", "subscribed", "following", "closed"}
            /\ viewer[v].cursor \in 0 .. Len(events)
      BY DEF DebugInit, NoViewer
    <2>4. breakpoints \subseteq CodeLines
      BY DebugAssumption DEF DebugInit
    <2> QED BY <1>2, <1>3, <2>1, <2>2, <2>3, <2>4 DEF DebugInit, DebugTypeOK, Depth, PublishSteps
  <1>5. DebugShapes
    <2>1. viewer \in [Viewers -> DebugViewers]
      BY DEF DebugInit, NoViewer, DebugViewers
    <2>2. asked \in [action : Resumes, depth : Nat]
      BY DEF DebugInit, Resumes
    <2> QED BY <1>3, <2>1, <2>2 DEF DebugInit, DebugShapes
  <1>6. PausesCounted /\ TargetsAsAsked /\ PausesWhereAsked
    BY DEF DebugInit, PausesCounted, Pausing, TargetsAsAsked, PausesWhereAsked
  <1>7. ResumesInv
    BY DEF DebugInit, ResumesInv, InFlight, Sent, PublishSteps
  <1>8. LatestInv /\ ViewersInv
    BY DEF DebugInit, LatestInv, ViewersInv, NoViewer
  <1> QED BY <1>4, <1>5, <1>6, <1>7, <1>8 DEF DebugInv

-----------------------------------------------------------------------------
(* The stacks that one instruction reaches.                                *)
LEMMA ReachedStacks ==
    ASSUME NEW stack \in Seq(FrameNames), Len(stack) \in Nat \ {0}, NEW new \in Reach(stack)
    PROVE  new \in Seq(FrameNames) /\ Len(new) \in Nat \ {0}
  <1>1. CASE new = stack
    BY <1>1
  <1>2. CASE \E f \in FrameNames : new = Append(stack, f)
    BY <1>2
  <1>3. CASE Len(stack) > 1 /\ new = Front(stack)
    <2>1. new = SubSeq(stack, 1, Len(stack) - 1)
      BY <1>3 DEF Front
    <2> QED BY <1>3, <2>1
  <1> QED BY <1>1, <1>2, <1>3 DEF Reach

(* An instruction: only the step targets and where the thread is.          *)
LEMMA ExecuteKeeps ==
    ASSUME DebugInv, NEW stack \in Reach(codeAt.stack), NEW line \in CodeLines, ExecuteTo(stack, line)
    PROVE  DebugInv'
  <1> USE DebugConstants
  <1>a. /\ DebugTypeOK /\ DebugShapes /\ PausesCounted /\ TargetsAsAsked
        /\ ResumesInv /\ LatestInv /\ ViewersInv
    BY DEF DebugInv
  <1>b. /\ vmAt \in {"running", "resumed"} /\ executed < MaxInstructions
        /\ Len(stack) <= MaxDebugDepth /\ executed' = executed + 1
        /\ codeAt'.stack = stack /\ codeAt'.line = line
        /\ stepOver' \in {stepOver, NotSet} /\ stepOut' \in {stepOut, NotSet}
        /\ vmAt' \in {"breakpoint", "stepped", "running"}
        /\ UNCHANGED <<stepMode, asked, breakpoints, pauseCount, paused, completed, pauseId, latest,
                       events, unsent, commandQueue, control, controls, viewer>>
    BY DEF ExecuteTo, statusVars, publishVars, requestVars, Depth
  <1>c. stack \in Seq(FrameNames) /\ Len(stack) \in 1 .. MaxDebugDepth
    <2>1. codeAt.stack \in Seq(FrameNames) /\ Len(codeAt.stack) \in Nat \ {0}
      BY <1>a DEF DebugShapes, DebugTypeOK, Depth
    <2>2. Len(stack) \in Nat \ {0} /\ stack \in Seq(FrameNames)
      BY <2>1, ReachedStacks
    <2> QED BY <2>2, <1>b
  <1>1. DebugTypeOK'
    <2>1. executed \in 0 .. MaxInstructions /\ executed' \in 0 .. MaxInstructions
          /\ pauseCount' \in 0 .. executed' /\ pauseId' \in 0 .. executed'
      BY <1>a, <1>b DEF DebugTypeOK
    <2>2. (vmAt' \in {"publishing", "broadcasting"}) = (unsent' # NotSet)
      BY <1>a, <1>b DEF DebugTypeOK
    <2>3. Len(codeAt'.stack) \in 1 .. MaxDebugDepth /\ codeAt'.line \in CodeLines \cup {NotSet}
      BY <1>b, <1>c
    <2> QED BY <1>a, <1>b, <2>1, <2>2, <2>3 DEF DebugTypeOK, Depth
  <1>2. DebugShapes'
    BY <1>a, <1>b, <1>c DEF DebugShapes
  <1>3. PausesCounted'
    BY <1>a, <1>b DEF PausesCounted, DebugTypeOK
  <1>d. asked.action \in Resumes /\ asked.depth \in Nat /\ Depth(codeAt') = Len(stack)
    BY <1>a, <1>b DEF DebugShapes, Depth
  <1>4. TargetsAsAsked' /\ PausesWhereAsked'
    <2> DEFINE code == [line |-> line, stack |-> stack]
               quiet == IF suppressed = SiteOf(code) THEN suppressed ELSE NotSet
               breakpointHit == line \in breakpoints /\ quiet = NotSet
               overHit == stepOver # NotSet /\ Len(stack) <= stepOver
               outHit == stepOut # NotSet /\ Len(stack) < stepOut
    <2>1. /\ stepOver' = IF overHit THEN NotSet ELSE stepOver
          /\ stepOut' = IF outHit THEN NotSet ELSE stepOut
          /\ vmAt' = IF breakpointHit THEN "breakpoint"
                     ELSE IF stepMode \/ overHit \/ outHit THEN "stepped" ELSE "running"
      BY DEF ExecuteTo, Depth, OutOf
    <2>2. breakpointHit => line \in breakpoints
      OBVIOUS
    <2>3. stepMode \/ overHit \/ outHit <=> Due'
      <3>1. stepMode <=> asked.action = "step"
        BY <1>a, <1>b DEF TargetsAsAsked
      <3>2. overHit <=> asked.action = "next" /\ Len(stack) <= asked.depth
        BY <1>a, <1>b, <1>d DEF TargetsAsAsked
      <3>3. outHit <=> asked.action = "out" /\ Len(stack) < asked.depth
        BY <1>a, <1>b, <1>d DEF TargetsAsAsked
      <3> HIDE DEF overHit, outHit
      <3> QED BY <1>b, <1>d, <3>1, <3>2, <3>3 DEF Due, Depth
    <2> HIDE DEF breakpointHit, overHit, outHit
    <2>4. PausesWhereAsked'
      BY <1>b, <2>1, <2>2, <2>3 DEF PausesWhereAsked
    <2>5. TargetsAsAsked'
      BY <1>a, <1>b, <2>1 DEF TargetsAsAsked
    <2> QED BY <2>4, <2>5
  <1>5. ResumesInv'
    BY <1>a, <1>b DEF ResumesInv, InFlight, Sent, PublishSteps
  <1>6. LatestInv' /\ ViewersInv'
    BY <1>a, <1>b DEF LatestInv, ViewersInv
  <1> QED BY <1>1, <1>2, <1>3, <1>4, <1>5, <1>6 DEF DebugInv

(* The pause begins: no resume can be on its way yet.                      *)
LEMMA EnterPauseKeeps ==
    ASSUME DebugInv, EnterPause
    PROVE  DebugInv'
  <1> USE DebugConstants
  <1>a. /\ DebugTypeOK /\ DebugShapes /\ PausesCounted
        /\ ResumesInv /\ LatestInv /\ ViewersInv
    BY DEF DebugInv
  <1>b. /\ vmAt \in {"breakpoint", "stepped"} /\ vmAt' = "publishing"
        /\ pauseCount' = pauseCount + 1 /\ pauseId' = pauseCount + 1
        /\ paused' = TRUE /\ completed' = FALSE
        /\ unsent' = [event |-> [kind |-> "pause", of |-> pauseCount + 1], next |-> "waiting"]
        /\ UNCHANGED <<codeAt, stepMode, stepOver, stepOut, executed, asked, breakpoints, latest,
                       events, commandQueue, control, controls, viewer>>
    BY DEF EnterPause, Pausing, StartPublish, requestVars
  <1>c. pauseCount \in Nat /\ executed \in Nat /\ pauseCount < executed
    BY <1>a, <1>b DEF DebugTypeOK, PausesCounted, Pausing
  <1>d. unsent' \in Publications /\ unsent'.next = "waiting"
    BY <1>b, <1>c DEF Publications, DebugEvents
  <1>1. DebugTypeOK'
    <2>1. pauseCount' \in 0 .. executed' /\ pauseId' \in 0 .. executed'
      BY <1>b, <1>c
    <2>2. (vmAt' \in {"publishing", "broadcasting"}) = (unsent' # NotSet)
      BY <1>b, <1>d
    <2> QED BY <1>a, <1>b, <2>1, <2>2 DEF DebugTypeOK, Depth
  <1>2. DebugShapes'
    BY <1>a, <1>b, <1>d DEF DebugShapes
  <1>3. PausesCounted' /\ TargetsAsAsked' /\ PausesWhereAsked'
    BY <1>b DEF PausesCounted, Pausing, TargetsAsAsked, PausesWhereAsked
  <1>4. ResumesInv'
    <2>1. InFlight = {} /\ Sent = {}
      BY <1>a, <1>b DEF ResumesInv, PublishSteps
    <2>2. InFlight' = {} /\ Sent' = {}
      BY <1>b, <2>1 DEF InFlight, Sent
    <2> QED BY <1>b, <1>d, <2>2 DEF ResumesInv, PublishSteps
  <1>5. LatestInv' /\ ViewersInv'
    BY <1>a, <1>b DEF LatestInv, ViewersInv
  <1> QED BY <1>1, <1>2, <1>3, <1>4, <1>5 DEF DebugInv

(* The two halves of a publication.                                        *)
LEMMA BroadcastKeeps ==
    ASSUME DebugInv, SetLatest \/ Broadcast
    PROVE  DebugInv'
  <1> USE DebugConstants
  <1>a. /\ DebugTypeOK /\ DebugShapes /\ PausesCounted
        /\ ResumesInv /\ LatestInv /\ ViewersInv
    BY DEF DebugInv
  <1>b. /\ vmAt \in PublishSteps
        /\ UNCHANGED <<codeAt, stepMode, stepOver, stepOut, suppressed, executed, asked, breakpoints,
                       pauseCount, paused, completed, pauseId, commandQueue, control, controls, viewer>>
    BY DEF SetLatest, Broadcast, stepVars, statusVars, requestVars, PublishSteps
  <1>c. unsent \in Publications /\ unsent.event \in DebugEvents /\ unsent.next \in {"waiting", "over"}
    <2>1. unsent # NotSet
      BY <1>a, <1>b DEF DebugTypeOK, PublishSteps
    <2> QED BY <1>a, <2>1 DEF DebugShapes, Publications
  <1>d. InFlight' = InFlight /\ Sent' = Sent
    BY <1>b DEF InFlight, Sent
  <1>1. CASE SetLatest
    <2>b. /\ vmAt = "publishing" /\ vmAt' = "broadcasting" /\ latest' = unsent.event
          /\ UNCHANGED <<events, unsent>>
      BY <1>1 DEF SetLatest
    <2>1. DebugTypeOK'
      <3>1. (vmAt' \in {"publishing", "broadcasting"}) = (unsent' # NotSet)
        BY <1>c, <2>b
      <3> QED BY <1>a, <1>b, <2>b, <3>1 DEF DebugTypeOK, Depth
    <2>2. DebugShapes'
      BY <1>a, <1>b, <1>c, <2>b DEF DebugShapes
    <2>3. PausesCounted' /\ TargetsAsAsked' /\ PausesWhereAsked'
      BY <1>a, <1>b, <2>b DEF PausesCounted, Pausing, TargetsAsAsked, PausesWhereAsked
    <2>4. ResumesInv'
      BY <1>a, <1>b, <1>d, <2>b DEF ResumesInv, PublishSteps, InFlight, Sent
    <2>5. LatestInv' /\ ViewersInv'
      BY <1>a, <1>b, <2>b DEF LatestInv, ViewersInv
    <2> QED BY <2>1, <2>2, <2>3, <2>4, <2>5 DEF DebugInv
  <1>2. CASE Broadcast
    <2>b. /\ vmAt = "broadcasting" /\ vmAt' = unsent.next /\ latest' = latest
          /\ events' = Append(events, unsent.event) /\ unsent' = NotSet
      BY <1>2 DEF Broadcast
    <2>c. /\ events' \in Seq(DebugEvents) /\ Len(events) \in Nat /\ Len(events') = Len(events) + 1
          /\ events'[Len(events')] = unsent.event
      BY <1>a, <1>c, <2>b DEF DebugShapes
    <2>1. DebugTypeOK'
      <3>1. (vmAt' \in {"publishing", "broadcasting"}) = (unsent' # NotSet)
        BY <1>c, <2>b
      <3>2. \A v \in Viewers :
              /\ viewer'[v].step \in {"none", "subscribed", "following", "closed"}
              /\ viewer'[v].cursor \in 0 .. Len(events')
        BY <1>a, <1>b, <2>c DEF DebugTypeOK
      <3> QED BY <1>a, <1>b, <1>c, <2>b, <3>1, <3>2 DEF DebugTypeOK, Depth
    <2>2. DebugShapes'
      BY <1>a, <1>b, <2>b, <2>c DEF DebugShapes
    <2>3. PausesCounted' /\ TargetsAsAsked' /\ PausesWhereAsked'
      BY <1>a, <1>b, <1>c, <2>b DEF PausesCounted, Pausing, TargetsAsAsked, PausesWhereAsked
    <2>4. ResumesInv'
      <3>1. CASE unsent.next = "waiting"
        BY <1>a, <1>b, <1>d, <2>b, <3>1 DEF ResumesInv, PublishSteps
      <3>2. CASE unsent.next = "over"
        BY <1>a, <1>b, <1>d, <2>b, <3>2 DEF ResumesInv, PublishSteps
      <3> QED BY <1>c, <3>1, <3>2
    <2>5. LatestInv'
      BY <1>a, <1>c, <2>b, <2>c DEF LatestInv
    <2>6. ViewersInv'
      BY <1>a, <1>b, <2>b, <2>c DEF ViewersInv, DebugTypeOK
    <2> QED BY <2>1, <2>2, <2>3, <2>4, <2>5, <2>6 DEF DebugInv
  <1> QED BY <1>1, <1>2

(* What is left of the channel once its first command was taken.           *)
LEMMA TakenCommand ==
    ASSUME DebugInv, commandQueue # << >>, commandQueue' = Tail(commandQueue)
    PROVE  /\ Head(commandQueue) \in DebugCommands
           /\ commandQueue' \in Seq(DebugCommands)
           /\ Head(commandQueue) = commandQueue[1] /\ 1 \in DOMAIN commandQueue
           /\ Len(commandQueue) \in Nat \ {0}
           /\ DOMAIN commandQueue' = 1 .. Len(commandQueue) - 1
           /\ \A i \in DOMAIN commandQueue' :
                 i + 1 \in DOMAIN commandQueue /\ commandQueue'[i] = commandQueue[i + 1]
  <1>1. commandQueue \in Seq(DebugCommands)
    BY DEF DebugInv, DebugShapes
  <1> QED BY <1>1

(* A command that edits breakpoints.                                       *)
LEMMA EditKeeps ==
    ASSUME DebugInv, EditBreakpoints
    PROVE  DebugInv'
  <1> USE DebugConstants
  <1>a. /\ DebugTypeOK /\ DebugShapes /\ PausesCounted
        /\ ResumesInv /\ LatestInv /\ ViewersInv
    BY DEF DebugInv
  <1> DEFINE edit == Head(commandQueue)
             event == [kind |-> "breakpoints", of |-> <<edit.kind, edit.line, breakpoints'>>]
  <1>b. /\ vmAt = "waiting" /\ vmAt' = "publishing" /\ commandQueue # << >>
        /\ edit.kind \in Edits /\ commandQueue' = Tail(commandQueue)
        /\ breakpoints' = Edited(edit)
        /\ unsent' = [event |-> event, next |-> "waiting"]
        /\ UNCHANGED <<codeAt, stepMode, stepOver, stepOut, executed, asked, pauseCount, paused,
                       completed, pauseId, latest, events, control, controls, viewer>>
    BY DEF EditBreakpoints, StartPublish, stepVars, statusVars
  <1>c. /\ edit \in DebugCommands /\ commandQueue' \in Seq(DebugCommands)
        /\ edit = commandQueue[1] /\ 1 \in DOMAIN commandQueue
        /\ \A i \in DOMAIN commandQueue' :
              i + 1 \in DOMAIN commandQueue /\ commandQueue'[i] = commandQueue[i + 1]
        /\ DOMAIN commandQueue' \subseteq Int
    BY <1>b, TakenCommand
  <1>d. breakpoints' \subseteq CodeLines /\ edit.line \in CodeLines \cup {NotSet}
    <2>1. edit.line \in CodeLines \cup {NotSet}
      BY <1>c DEF DebugCommands
    <2>2. edit.kind = "add" => edit.line \in CodeLines
      BY <1>c DEF DebugCommands, Resumes
    <2>3. breakpoints \subseteq CodeLines
      BY <1>a DEF DebugTypeOK
    <2> HIDE DEF edit
    <2> QED BY <1>b, <2>1, <2>2, <2>3 DEF Edited, Edits
  <1>e. event \in DebugEvents
    <2> HIDE DEF edit
    <2> QED BY <1>b, <1>d DEF DebugEvents
  <1> HIDE DEF edit, event
  <1>f. unsent' \in Publications /\ unsent'.next = "waiting"
    BY <1>b, <1>e DEF Publications
  <1>1. DebugTypeOK'
    <2>1. (vmAt' \in {"publishing", "broadcasting"}) = (unsent' # NotSet)
      BY <1>b, <1>f
    <2> QED BY <1>a, <1>b, <1>d, <2>1 DEF DebugTypeOK, Depth
  <1>2. DebugShapes'
    BY <1>a, <1>b, <1>c, <1>f DEF DebugShapes
  <1>3. PausesCounted' /\ TargetsAsAsked' /\ PausesWhereAsked'
    BY <1>a, <1>b DEF PausesCounted, Pausing, TargetsAsAsked, PausesWhereAsked
  <1>4. ResumesInv'
    <2>1. \A i \in Sent' : i + 1 \in Sent /\ commandQueue'[i] = commandQueue[i + 1] /\ i \in Int
      BY <1>c DEF Sent
    <2>2. InFlight' = InFlight
      BY <1>b DEF InFlight
    <2>3. \A i, j \in Sent' : i = j
      BY <1>a, <2>1 DEF ResumesInv
    <2>4. Sent' # {} => Sent # {}
      BY <2>1
    <2>5. \A b \in InFlight' : control'[b].at = pauseCount'
      BY <1>a, <1>b, <2>2 DEF ResumesInv
    <2>6. \A i \in Sent' : commandQueue'[i].at = pauseCount'
      <3>1. \A i \in Sent : commandQueue[i].at = pauseCount
        BY <1>a DEF ResumesInv
      <3>2. pauseCount' = pauseCount
        BY <1>b
      <3> QED BY <2>1, <3>1, <3>2
    <2> QED BY <1>a, <1>b, <1>f, <2>2, <2>3, <2>4, <2>5, <2>6 DEF ResumesInv, PublishSteps
  <1>5. LatestInv' /\ ViewersInv'
    BY <1>a, <1>b DEF LatestInv, ViewersInv
  <1> QED BY <1>1, <1>2, <1>3, <1>4, <1>5 DEF DebugInv

(* The one resume that is on its way arrives.                              *)
LEMMA ResumeKeeps ==
    ASSUME DebugInv, ResumeProgram
    PROVE  DebugInv'
  <1> USE DebugConstants
  <1>a. /\ DebugTypeOK /\ DebugShapes /\ PausesCounted
        /\ ResumesInv /\ LatestInv /\ ViewersInv
    BY DEF DebugInv
  <1> DEFINE resume == Head(commandQueue).kind
  <1>b. /\ vmAt = "waiting" /\ vmAt' \in {"ended", "resumed"} /\ commandQueue # << >>
        /\ resume \in Resumes /\ commandQueue' = Tail(commandQueue) /\ paused' = FALSE
        /\ UNCHANGED <<codeAt, executed, breakpoints, pauseCount, completed, pauseId, latest, events,
                       unsent, control, controls, viewer>>
    BY DEF ResumeProgram, publishVars
  <1>c. /\ commandQueue' \in Seq(DebugCommands)
        /\ Head(commandQueue) = commandQueue[1] /\ 1 \in DOMAIN commandQueue
        /\ \A i \in DOMAIN commandQueue' :
              i + 1 \in DOMAIN commandQueue /\ commandQueue'[i] = commandQueue[i + 1]
        /\ DOMAIN commandQueue' \subseteq Nat \ {0}
    BY <1>b, TakenCommand
  <1>d. Depth(codeAt) \in 1 .. MaxDebugDepth
    BY <1>a DEF DebugTypeOK
  <1>e. \/ vmAt' = "ended" /\ UNCHANGED <<stepMode, stepOver, stepOut, asked>>
        \/ /\ vmAt' = "resumed"
           /\ stepMode' = (resume = "step")
           /\ stepOver' = IF resume = "next" THEN Depth(codeAt) ELSE NotSet
           /\ stepOut' = IF resume = "out" THEN Depth(codeAt) ELSE NotSet
           /\ asked' = [action |-> resume, depth |-> Depth(codeAt)]
    BY DEF ResumeProgram, StepTargets
  <1> HIDE DEF resume
  <1>1. DebugTypeOK'
    <2>1. (vmAt' \in {"publishing", "broadcasting"}) = (unsent' # NotSet)
      BY <1>a, <1>b DEF DebugTypeOK
    <2>2. {stepMode', paused', completed'} \subseteq BOOLEAN
      BY <1>a, <1>b, <1>e DEF DebugTypeOK
    <2>3. {stepOver', stepOut'} \subseteq {NotSet} \cup 1 .. MaxDebugDepth
      BY <1>a, <1>d, <1>e DEF DebugTypeOK
    <2> QED BY <1>a, <1>b, <2>1, <2>2, <2>3 DEF DebugTypeOK, Depth
  <1>2. DebugShapes'
    <2>1. asked' \in [action : Resumes, depth : Nat]
      BY <1>a, <1>b, <1>d, <1>e DEF DebugShapes
    <2> QED BY <1>a, <1>b, <1>c, <2>1 DEF DebugShapes
  <1>3. PausesCounted' /\ PausesWhereAsked'
    BY <1>a, <1>b DEF PausesCounted, Pausing, PausesWhereAsked
  <1>4. TargetsAsAsked'
    <2>1. CASE vmAt' = "ended"
      BY <2>1 DEF TargetsAsAsked
    <2>2. CASE vmAt' = "resumed"
      <3>1. asked'.action = resume /\ asked'.depth = Depth(codeAt)
        BY <1>e, <2>2
      <3>2. stepMode' <=> asked'.action = "step"
        BY <1>e, <2>2, <3>1
      <3> QED BY <1>e, <2>2, <3>1, <3>2 DEF TargetsAsAsked
    <2> QED BY <1>b, <2>1, <2>2
  <1>5. ResumesInv'
    <2>1. 1 \in Sent
      BY <1>b, <1>c DEF Sent, resume
    <2>2. Sent' = {}
      <3>1. \A i \in Sent' : i + 1 \in Sent /\ i \in Nat \ {0}
        BY <1>c DEF Sent
      <3> QED BY <1>a, <2>1, <3>1 DEF ResumesInv
    <2>3. InFlight' = {}
      <3>1. InFlight' = InFlight
        BY <1>b DEF InFlight
      <3> QED BY <1>a, <2>1, <3>1 DEF ResumesInv
    <2> QED BY <1>b, <2>2, <2>3 DEF ResumesInv, PublishSteps
  <1>6. LatestInv' /\ ViewersInv'
    BY <1>a, <1>b DEF LatestInv, ViewersInv
  <1> QED BY <1>1, <1>2, <1>3, <1>4, <1>5, <1>6 DEF DebugInv

(* The program ends, and the session with it.                              *)
LEMMA EndKeeps ==
    ASSUME DebugInv, ProgramEnds \/ CompleteSession
    PROVE  DebugInv'
  <1> USE DebugConstants
  <1>a. /\ DebugTypeOK /\ DebugShapes /\ PausesCounted
        /\ ResumesInv /\ LatestInv /\ ViewersInv
    BY DEF DebugInv
  <1>b. /\ vmAt \in {"running", "resumed", "ended"} /\ vmAt' \in {"ended", "publishing"}
        /\ UNCHANGED <<codeAt, stepMode, stepOver, stepOut, suppressed, executed, asked, breakpoints,
                       pauseCount, pauseId, latest, events, commandQueue, control, controls, viewer>>
    BY DEF ProgramEnds, CompleteSession, stepVars, statusVars, publishVars, requestVars
  <1>c. InFlight' = {} /\ Sent' = {} /\ InFlight = {} /\ Sent = {} /\ ~paused
    <2>1. InFlight' = InFlight /\ Sent' = Sent
      BY <1>b DEF InFlight, Sent
    <2> QED BY <1>a, <1>b, <2>1 DEF ResumesInv, PublishSteps
  <1>d. PausesCounted' /\ TargetsAsAsked' /\ PausesWhereAsked'
    BY <1>a, <1>b DEF PausesCounted, Pausing, TargetsAsAsked, PausesWhereAsked
  <1>e. LatestInv' /\ ViewersInv'
    BY <1>a, <1>b DEF LatestInv, ViewersInv
  <1>1. CASE ProgramEnds
    <2>b. vmAt' = "ended" /\ UNCHANGED <<paused, completed, unsent>>
      BY <1>1 DEF ProgramEnds, statusVars, publishVars
    <2>1. DebugTypeOK'
      <3>1. (vmAt' \in {"publishing", "broadcasting"}) = (unsent' # NotSet)
        BY <1>a, <1>b, <2>b DEF DebugTypeOK
      <3> QED BY <1>a, <1>b, <2>b, <3>1 DEF DebugTypeOK, Depth
    <2>2. DebugShapes'
      BY <1>a, <1>b, <2>b DEF DebugShapes
    <2>3. ResumesInv'
      BY <1>c, <2>b DEF ResumesInv, PublishSteps
    <2> QED BY <1>d, <1>e, <2>1, <2>2, <2>3 DEF DebugInv
  <1>2. CASE CompleteSession
    <2>b. /\ vmAt' = "publishing" /\ paused' = FALSE /\ completed' = TRUE
          /\ unsent' = [event |-> [kind |-> "terminal", of |-> pauseCount], next |-> "over"]
      BY <1>2 DEF CompleteSession, StartPublish
    <2>c. unsent' \in Publications
      <3>1. pauseCount \in Nat
        BY <1>a DEF DebugTypeOK
      <3> QED BY <2>b, <3>1 DEF Publications, DebugEvents
    <2>1. DebugTypeOK'
      <3>1. (vmAt' \in {"publishing", "broadcasting"}) = (unsent' # NotSet)
        BY <2>b, <2>c
      <3> QED BY <1>a, <1>b, <2>b, <3>1 DEF DebugTypeOK, Depth
    <2>2. DebugShapes'
      BY <1>a, <1>b, <2>c DEF DebugShapes
    <2>3. ResumesInv'
      BY <1>c, <2>b DEF ResumesInv, PublishSteps
    <2> QED BY <1>d, <1>e, <2>1, <2>2, <2>3 DEF DebugInv
  <1> QED BY <1>1, <1>2

(* A request is accepted while the session is paused, so nothing is on its *)
(* way, and a resume takes the pause with it.                              *)
LEMMA AcceptControlKeeps ==
    ASSUME DebugInv, NEW b \in Browsers, NEW word, NEW line, NEW given,
           AcceptControl(b, word, line, given),
           \/ word \in Resumes \cup {"clear", "list"} /\ line = NotSet
           \/ word \in {"add", "remove"} /\ line \in CodeLines
    PROVE  DebugInv'
  <1> USE DebugConstants
  <1>a. /\ DebugTypeOK /\ DebugShapes /\ PausesCounted /\ TargetsAsAsked /\ PausesWhereAsked
        /\ ResumesInv /\ LatestInv /\ ViewersInv
    BY DEF DebugInv
  <1> DEFINE order == [kind |-> word, line |-> line, at |-> pauseId]
  <1>b. /\ controls < MaxControls /\ controls' = controls + 1 /\ ~completed /\ paused
        /\ paused' = IF word \in Resumes THEN FALSE ELSE paused
        /\ control' = [control EXCEPT ![b] = order]
        /\ UNCHANGED <<vmAt, codeAt, stepMode, stepOver, stepOut, suppressed, executed, asked,
                       breakpoints, pauseCount, completed, pauseId, latest, events, unsent,
                       commandQueue, viewer>>
    BY DEF AcceptControl, PausedAfter, stepVars, publishVars
  <1>c. order \in DebugCommands /\ order.kind = word /\ order.at = pauseCount
    <2>1. pauseId \in Nat /\ pauseId = pauseCount
      BY <1>a DEF DebugTypeOK, PausesCounted
    <2> QED BY <2>1 DEF DebugCommands
  <1> HIDE DEF order
  <1>d. InFlight = {} /\ Sent = {} /\ vmAt \in PublishSteps \cup {"waiting"}
    BY <1>a, <1>b DEF ResumesInv
  <1>1. DebugTypeOK'
    <2>1. controls' \in 0 .. MaxControls
      BY <1>a, <1>b DEF DebugTypeOK
    <2>2. {stepMode', paused', completed'} \subseteq BOOLEAN
      BY <1>a, <1>b DEF DebugTypeOK
    <2>3. (vmAt' \in {"publishing", "broadcasting"}) = (unsent' # NotSet)
      BY <1>a, <1>b DEF DebugTypeOK
    <2> QED BY <1>a, <1>b, <2>1, <2>2, <2>3 DEF DebugTypeOK, Depth
  <1>2. DebugShapes'
    <2>1. control' \in [Browsers -> DebugCommands \cup {NotSet}]
      BY <1>a, <1>b, <1>c DEF DebugShapes
    <2> QED BY <1>a, <1>b, <2>1 DEF DebugShapes
  <1>3. PausesCounted' /\ TargetsAsAsked' /\ PausesWhereAsked'
    BY <1>a, <1>b DEF PausesCounted, Pausing, TargetsAsAsked, PausesWhereAsked, Due, Depth
  <1>4. ResumesInv'
    <2>1. Sent' = {}
      BY <1>b, <1>d DEF Sent
    <2>2. control \in [Browsers -> DebugCommands \cup {NotSet}]
      BY <1>a DEF DebugShapes
    <2>3. control'[b] = order /\ \A d \in Browsers : d # b => control'[d] = control[d]
      BY <1>b, <2>2
    <2>4. InFlight' \subseteq {b}
      BY <1>d, <2>3 DEF InFlight
    <2>5. InFlight' # {} => word \in Resumes
      BY <2>4, <2>3, <1>c DEF InFlight
    <2>6. unsent.next = "over" /\ vmAt \in PublishSteps => FALSE
      BY <1>a, <1>b DEF ResumesInv
    <2>7. \A d \in InFlight' : control'[d].at = pauseCount'
      BY <1>b, <1>c, <2>3, <2>4
    <2> QED BY <1>b, <1>d, <2>1, <2>4, <2>5, <2>6, <2>7 DEF ResumesInv, PublishSteps
  <1>5. LatestInv' /\ ViewersInv'
    BY <1>a, <1>b DEF LatestInv, ViewersInv
  <1> QED BY <1>1, <1>2, <1>3, <1>4, <1>5 DEF DebugInv

(* The command of a browser goes to the channel.                           *)
LEMMA SendKeeps ==
    ASSUME DebugInv, NEW b \in Browsers, SendCommand(b)
    PROVE  DebugInv'
  <1> USE DebugConstants
  <1>a. /\ DebugTypeOK /\ DebugShapes /\ PausesCounted /\ TargetsAsAsked /\ PausesWhereAsked
        /\ ResumesInv /\ LatestInv /\ ViewersInv
    BY DEF DebugInv
  <1>b. /\ control[b] # NotSet /\ commandQueue' = Append(commandQueue, control[b])
        /\ control' = [control EXCEPT ![b] = NotSet]
        /\ UNCHANGED <<vmAt, codeAt, stepMode, stepOver, stepOut, suppressed, executed, asked,
                       breakpoints, pauseCount, paused, completed, pauseId, latest, events, unsent,
                       controls, viewer>>
    BY DEF SendCommand, stepVars, statusVars, publishVars
  <1>c. /\ control \in [Browsers -> DebugCommands \cup {NotSet}]
        /\ commandQueue \in Seq(DebugCommands) /\ control[b] \in DebugCommands
    BY <1>a, <1>b DEF DebugShapes
  <1>d. /\ control'[b] = NotSet /\ \A d \in Browsers : d # b => control'[d] = control[d]
        /\ commandQueue' \in Seq(DebugCommands)
        /\ \A i \in DOMAIN commandQueue' :
              \/ i \in DOMAIN commandQueue /\ commandQueue'[i] = commandQueue[i]
              \/ i = Len(commandQueue) + 1 /\ commandQueue'[i] = control[b]
    BY <1>b, <1>c
  <1>1. DebugTypeOK'
    <2>1. (vmAt' \in {"publishing", "broadcasting"}) = (unsent' # NotSet)
      BY <1>a, <1>b DEF DebugTypeOK
    <2> QED BY <1>a, <1>b, <2>1 DEF DebugTypeOK, Depth
  <1>2. DebugShapes'
    <2>1. control' \in [Browsers -> DebugCommands \cup {NotSet}]
      BY <1>b, <1>c
    <2> QED BY <1>a, <1>b, <1>d, <2>1 DEF DebugShapes
  <1>3. PausesCounted' /\ TargetsAsAsked' /\ PausesWhereAsked'
    BY <1>a, <1>b DEF PausesCounted, Pausing, TargetsAsAsked, PausesWhereAsked, Due, Depth
  <1>4. ResumesInv'
    <2>1. InFlight' = InFlight \ {b}
      BY <1>d DEF InFlight
    <2>2. \A i \in Sent' :
            \/ i \in Sent /\ commandQueue'[i] = commandQueue[i]
            \/ i = Len(commandQueue) + 1 /\ commandQueue'[i] = control[b] /\ b \in InFlight
      BY <1>b, <1>d DEF Sent, InFlight
    <2>3. \A i, j \in Sent' : i = j
      BY <1>a, <2>2 DEF ResumesInv
    <2>4. InFlight' = {} \/ Sent' = {}
      BY <1>a, <2>1, <2>2 DEF ResumesInv
    <2>5. \A d \in InFlight' : control'[d].at = pauseCount'
      <3> SUFFICES ASSUME NEW d \in InFlight' PROVE control'[d].at = pauseCount'
        OBVIOUS
      <3>1. d \in InFlight /\ d # b /\ d \in Browsers
        BY <2>1 DEF InFlight
      <3> QED BY <1>a, <1>b, <1>d, <3>1 DEF ResumesInv
    <2>6. \A i \in Sent' : commandQueue'[i].at = pauseCount'
      BY <1>a, <1>b, <2>2 DEF ResumesInv
    <2>7. InFlight' # {} \/ Sent' # {} => InFlight # {} \/ Sent # {}
      BY <2>1, <2>2
    <2> QED BY <1>a, <1>b, <2>1, <2>3, <2>4, <2>5, <2>6, <2>7 DEF ResumesInv, PublishSteps
  <1>5. LatestInv' /\ ViewersInv'
    BY <1>a, <1>b DEF LatestInv, ViewersInv
  <1> QED BY <1>1, <1>2, <1>3, <1>4, <1>5 DEF DebugInv

-----------------------------------------------------------------------------
(* What a step that shows a viewer something must see to.                  *)
LEMMA ViewerKeeps ==
    ASSUME DebugInv, NEW v \in Viewers, NEW k \in DebugViewers,
           viewer' = [viewer EXCEPT ![v] = k],
           UNCHANGED <<vmAt, stepVars, breakpoints, pauseCount, statusVars, publishVars, requestVars>>,
           k.cursor <= Len(events),
           k.step \in {"none", "subscribed"} => k.last = NotSet,
           k.step = "following" /\ k.cursor = Len(events) /\ vmAt # "broadcasting" => k.last = latest
    PROVE  DebugInv'
  <1> USE DebugConstants
  <1>a. /\ DebugTypeOK /\ DebugShapes /\ PausesCounted /\ TargetsAsAsked /\ PausesWhereAsked
        /\ ResumesInv /\ LatestInv /\ ViewersInv
    BY DEF DebugInv
  <1>b. UNCHANGED <<vmAt, codeAt, stepMode, stepOver, stepOut, suppressed, executed, asked,
                    breakpoints, pauseCount, paused, completed, pauseId, latest, events, unsent,
                    commandQueue, control, controls>>
    BY DEF stepVars, statusVars, publishVars, requestVars
  <1>c. /\ viewer \in [Viewers -> DebugViewers] /\ viewer' \in [Viewers -> DebugViewers]
        /\ viewer'[v] = k /\ \A w \in Viewers : w # v => viewer'[w] = viewer[w]
    BY <1>a DEF DebugShapes
  <1>1. DebugTypeOK'
    <2>1. (vmAt' \in {"publishing", "broadcasting"}) = (unsent' # NotSet)
      BY <1>a, <1>b DEF DebugTypeOK
    <2>2. Len(events) \in Nat
      BY <1>a DEF DebugShapes
    <2>3. \A w \in Viewers :
            /\ viewer'[w].step \in {"none", "subscribed", "following", "closed"}
            /\ viewer'[w].cursor \in 0 .. Len(events')
      BY <1>a, <1>b, <1>c, <2>2 DEF DebugTypeOK, DebugViewers
    <2> QED BY <1>a, <1>b, <2>1, <2>3 DEF DebugTypeOK, Depth
  <1>2. DebugShapes'
    BY <1>a, <1>b, <1>c DEF DebugShapes
  <1>3. PausesCounted' /\ TargetsAsAsked' /\ PausesWhereAsked'
    BY <1>a, <1>b DEF PausesCounted, Pausing, TargetsAsAsked, PausesWhereAsked, Due, Depth
  <1>4. ResumesInv' /\ LatestInv'
    BY <1>a, <1>b DEF ResumesInv, LatestInv, InFlight, Sent
  <1>5. ViewersInv'
    BY <1>a, <1>b, <1>c DEF ViewersInv
  <1> QED BY <1>1, <1>2, <1>3, <1>4, <1>5 DEF DebugInv

(* What is shown to a viewer is what it has last.                          *)
LEMMA ShownIs ==
    ASSUME DebugInv, NEW v \in Viewers, NEW event \in DebugEvents, NEW cursor \in Nat
    PROVE  /\ Shown(v, event, cursor) \in DebugViewers
           /\ Shown(v, event, cursor).cursor = cursor
           /\ Shown(v, event, cursor).last = event
           /\ Shown(v, event, cursor).step \in {"following", "closed"}
  <1>1. viewer[v].saw \in Nat
    BY DEF DebugInv, DebugShapes, DebugViewers
  <1>2. event.kind = "pause" => event.of \in Nat
    BY DEF DebugEvents
  <1> QED BY <1>1, <1>2 DEF Shown, DebugViewers

(* Subscribing, replaying the latest event, and following.                 *)
LEMMA ViewingKeeps ==
    ASSUME DebugInv, NEW v \in Viewers,
           Subscribe(v) \/ ReadLatest(v) \/ Forward(v) \/ ForwardLagged(v)
    PROVE  DebugInv'
  <1> USE DebugConstants
  <1>a. /\ DebugTypeOK /\ DebugShapes /\ LatestInv /\ ViewersInv
    BY DEF DebugInv
  <1>b. /\ viewer[v] \in DebugViewers /\ viewer[v].cursor \in Nat /\ Len(events) \in Nat
        /\ viewer[v].cursor <= Len(events) /\ viewer \in [Viewers -> DebugViewers]
        /\ events \in Seq(DebugEvents)
    BY <1>a DEF DebugShapes, ViewersInv, DebugViewers
  <1>c. UNCHANGED <<vmAt, stepVars, breakpoints, pauseCount, statusVars, publishVars, requestVars>>
    BY DEF Subscribe, ReadLatest, Forward, ForwardLagged
  <1>1. CASE Subscribe(v)
    <2> DEFINE k == [NoViewer EXCEPT !.step = "subscribed", !.cursor = Len(events)]
    <2>1. viewer' = [viewer EXCEPT ![v] = k]
      BY <1>1 DEF Subscribe
    <2>2. k \in DebugViewers /\ k.step = "subscribed" /\ k.cursor = Len(events) /\ k.last = NotSet
      BY <1>b DEF NoViewer, DebugViewers
    <2> HIDE DEF k
    <2>3. /\ k.cursor <= Len(events)
          /\ k.step \in {"none", "subscribed"} => k.last = NotSet
          /\ k.step = "following" /\ k.cursor = Len(events) /\ vmAt # "broadcasting" => k.last = latest
      BY <1>b, <2>2
    <2> QED BY <1>c, <2>1, <2>2, <2>3, ViewerKeeps
  <1>2. CASE ReadLatest(v)
    <2>1. viewer[v].step = "subscribed" /\ viewer[v].last = NotSet
      BY <1>2, <1>a DEF ReadLatest, ViewersInv
    <2>2. CASE latest = NotSet
      <3> DEFINE k == [viewer[v] EXCEPT !.step = "following"]
      <3>1. viewer' = [viewer EXCEPT ![v] = k]
        BY <1>2, <2>2 DEF ReadLatest
      <3>2. k \in DebugViewers /\ k.cursor = viewer[v].cursor /\ k.last = latest /\ k.step = "following"
        BY <1>b, <2>1, <2>2 DEF DebugViewers
      <3> HIDE DEF k
      <3> QED BY <1>b, <1>c, <3>1, <3>2, ViewerKeeps
    <2>3. CASE latest # NotSet
      <3> DEFINE k == Shown(v, latest, viewer[v].cursor)
      <3>1. viewer' = [viewer EXCEPT ![v] = k]
        BY <1>2, <2>3 DEF ReadLatest
      <3>2. latest \in DebugEvents
        BY <1>a, <2>3 DEF DebugShapes
      <3>3. /\ k \in DebugViewers /\ k.cursor = viewer[v].cursor /\ k.last = latest
            /\ k.step \in {"following", "closed"}
        BY <1>b, <3>2, ShownIs
      <3> HIDE DEF k
      <3> QED BY <1>b, <1>c, <3>1, <3>3, ViewerKeeps
    <2> QED BY <2>2, <2>3
  <1>3. CASE Forward(v)
    <2> DEFINE i == viewer[v].cursor + 1
    <2>1. viewer[v].step = "following" /\ i <= Len(events)
      BY <1>3 DEF Forward
    <2>2. i \in Nat /\ events[i] \in DebugEvents
      BY <1>b, <2>1
    <2>3. i = Len(events) /\ vmAt # "broadcasting" => latest = events[i]
      BY <1>a, <1>b, <2>1 DEF LatestInv
    <2>4. CASE AlreadyShown(v, events[i])
      <3> DEFINE k == [viewer[v] EXCEPT !.cursor = i]
      <3>1. viewer' = [viewer EXCEPT ![v] = k]
        BY <1>3, <2>4 DEF Forward
      <3>2. k \in DebugViewers /\ k.cursor = i /\ k.last = events[i] /\ k.step = "following"
        BY <1>b, <2>1, <2>2, <2>4 DEF DebugViewers, AlreadyShown
      <3> HIDE DEF k, i
      <3> QED BY <1>b, <1>c, <2>1, <2>3, <3>1, <3>2, ViewerKeeps
    <2>5. CASE ~AlreadyShown(v, events[i])
      <3> DEFINE k == Shown(v, events[i], i)
      <3>1. viewer' = [viewer EXCEPT ![v] = k]
        BY <1>3, <2>5 DEF Forward
      <3> HIDE DEF i
      <3>2. /\ k \in DebugViewers /\ k.cursor = i /\ k.last = events[i]
            /\ k.step \in {"following", "closed"}
        BY <2>2, ShownIs
      <3> HIDE DEF k
      <3> QED BY <1>b, <1>c, <2>1, <2>3, <3>1, <3>2, ViewerKeeps
    <2> QED BY <2>4, <2>5
  <1>4. CASE ForwardLagged(v)
    <2> DEFINE e == [kind |-> "lagged", of |-> 0]
               k == Shown(v, e, Len(events) - EventCapacity)
    <2>1. viewer' = [viewer EXCEPT ![v] = k]
      BY <1>4 DEF ForwardLagged
    <2>2. Len(events) - EventCapacity \in Nat /\ Len(events) - EventCapacity < Len(events)
      BY <1>4, <1>b DEF ForwardLagged, Lagging
    <2>3. e \in DebugEvents
      BY DEF DebugEvents
    <2> HIDE DEF e
    <2>4. /\ k \in DebugViewers /\ k.cursor < Len(events) /\ k.cursor \in Nat
          /\ k.step \in {"following", "closed"}
      BY <2>2, <2>3, ShownIs
    <2> HIDE DEF k
    <2>5. /\ k.cursor <= Len(events)
          /\ k.step \in {"none", "subscribed"} => k.last = NotSet
          /\ k.step = "following" /\ k.cursor = Len(events) /\ vmAt # "broadcasting" => k.last = latest
      BY <1>b, <2>4
    <2> QED BY <1>c, <2>1, <2>4, <2>5, ViewerKeeps
  <1> QED BY <1>1, <1>2, <1>3, <1>4

-----------------------------------------------------------------------------
(* Every step of the program, the browsers and the viewers keeps it.       *)
LEMMA DebugStep == DebugInv /\ [DebugNext]_debugVars => DebugInv'
  <1> SUFFICES ASSUME DebugInv, [DebugNext]_debugVars PROVE DebugInv'
    OBVIOUS
  <1>1. CASE UNCHANGED debugVars
    <2>a. UNCHANGED <<vmAt, codeAt, stepMode, stepOver, stepOut, suppressed, executed, asked,
                      breakpoints, pauseCount, paused, completed, pauseId, latest, events, unsent,
                      commandQueue, control, controls, viewer>>
      BY <1>1 DEF debugVars, stepVars, statusVars, publishVars, requestVars
    <2>b. /\ DebugTypeOK /\ DebugShapes /\ PausesCounted /\ TargetsAsAsked /\ PausesWhereAsked
          /\ ResumesInv /\ LatestInv /\ ViewersInv
      BY DEF DebugInv
    <2>1. DebugTypeOK'
      <3>1. (vmAt' \in {"publishing", "broadcasting"}) = (unsent' # NotSet)
        BY <2>a, <2>b DEF DebugTypeOK
      <3> QED BY <2>a, <2>b, <3>1 DEF DebugTypeOK, Depth
    <2>2. DebugShapes' /\ PausesCounted' /\ TargetsAsAsked' /\ PausesWhereAsked'
      BY <2>a, <2>b DEF DebugShapes, PausesCounted, Pausing, TargetsAsAsked, PausesWhereAsked, Due, Depth
    <2>3. ResumesInv' /\ LatestInv' /\ ViewersInv'
      BY <2>a, <2>b DEF ResumesInv, LatestInv, ViewersInv, InFlight, Sent
    <2> QED BY <2>1, <2>2, <2>3 DEF DebugInv
  <1>2. ASSUME NEW b \in Browsers, NEW given,
               \/ \E word \in Resumes \cup {"clear", "list"} : AcceptControl(b, word, NotSet, given)
               \/ \E word \in {"add", "remove"}, line \in CodeLines : AcceptControl(b, word, line, given)
        PROVE  DebugInv'
    BY <1>2, AcceptControlKeeps
  <1> QED BY <1>1, <1>2, ExecuteKeeps, EnterPauseKeeps, BroadcastKeeps, EditKeeps, ResumeKeeps, EndKeeps,
             SendKeeps, ViewingKeeps DEF DebugNext

(* Every variable of the debugger has its type, for any program, any       *)
(* number of browsers and pages, and any capacity of the channel.          *)
THEOREM DebugTypes == DebugSpec => []DebugTypeOK
  <1>1. DebugInv => DebugTypeOK
    BY DEF DebugInv
  <1> QED BY <1>1, InitDebug, DebugStep, PTL DEF DebugSpec

(* For any program, any number of browsers and pages, and any capacity of  *)
(* the channel: the program pauses where the last resume asked it to, two  *)
(* browsers cannot resume one pause twice, and a page that received        *)
(* everything shows the latest event (pause_before_instruction,            *)
(* debug_web_control, forward_debug_web_sse_events).                       *)
THEOREM DebugIsCoherent == DebugSpec => []DebugSessionCoherent
  <1> QED BY DebugInvCoherent, InitDebug, DebugStep, PTL DEF DebugSpec

=============================================================================
