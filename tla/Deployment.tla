------------------------------ MODULE Deployment ------------------------------
(***************************************************************************)
(* The release of an image to production: ops/deploy.sh with its rollback, *)
(* the gate of ops/lib/deploy-gate.sh, the credential of the application   *)
(* role and scripts/migrate.mjs.                                           *)
(*                                                                         *)
(* Deployments come one after another, as releases are tagged.  Every      *)
(* command may fail, having done its work or not; a deployment may be      *)
(* killed at any point, which runs no trap, and its migrator goes on.      *)
(* What the health of the bot says is free: the legacy entrypoint reports  *)
(* nothing, so that no promise may rest on it.                             *)
(***************************************************************************)
EXTENDS Naturals, FiniteSets

CONSTANTS
  Images, Envs,
  Absent,             \* no container, no file
  Needs,              \* migrations an image brings and needs
  MaxDeployments,     \* bound on the deployments
  MaxDeployFaults     \* bound on failing commands, kills and dying bots

ASSUME DeploymentAssumption ==
  /\ Absent \notin Images \cup Envs
  /\ Needs \in [Images -> Nat]
  /\ MaxDeployments \in Nat /\ MaxDeployFaults \in Nat

VARIABLES
  envFiles,     \* .env.production and .env.production.rollback
  database,     \* environment of its container, password of the role, migrations
  bot,          \* the bot's container
  deployment,   \* the run of deploy.sh
  migrators,    \* migrate containers, by deployment
  lockedBy,     \* the migrator that holds the advisory lock, or 0
  deployFaults

deployVars == <<envFiles, database, bot, deployment, migrators, lockedBy, deployFaults>>

Numbers == 1..MaxDeployments
Production == [active |-> envFiles.active, db |-> database.env,
               role |-> database.role, image |-> bot.image, env |-> bot.env]
Ended == {"idle", "accepted", "untouched", "restored", "broken", "killed"}
Forward == {"save", "activate", "pull", "db", "role", "migrate", "migrating",
            "bot", "gate", "verify"}
Back == {"failed", "restore env", "restore db", "restore role", "restore bot"}

DeployTypeOK ==
  /\ envFiles.active \in Envs /\ envFiles.rollback \in Envs \cup {Absent}
  /\ database.env \in Envs /\ database.role \in Envs /\ database.schema \in Nat
  /\ bot.image \in Images /\ bot.env \in Envs /\ bot.up \in BOOLEAN
  /\ bot.restarted \in BOOLEAN /\ bot.by \in {"deploy", "rollback"}
  /\ deployment.at \in Ended \cup Forward \cup Back
  /\ deployment.number \in 0..MaxDeployments /\ deployment.checks \in 0..3
  /\ deployment.at # "idle" => deployment.env \in Envs /\ deployment.image \in Images
  /\ \A n \in Numbers : migrators[n].at \in {"none", "runs", "done", "failed"}
  /\ lockedBy \in {0} \cup {n \in Numbers : migrators[n].at = "runs"}
  /\ deployFaults \in 0..MaxDeployFaults

(* A production that an earlier release left whole.                         *)
DeployInit ==
  \E i \in Images, e \in Envs :
    /\ envFiles = [active |-> e, rollback |-> Absent]
    /\ database = [env |-> e, role |-> e, schema |-> Needs[i]]
    /\ bot = [image |-> i, env |-> e, up |-> TRUE, restarted |-> FALSE, by |-> "deploy"]
    /\ deployment = [at |-> "idle", number |-> 0, image |-> i, env |-> e,
                     promoted |-> FALSE, started |-> FALSE, lost |-> FALSE, checks |-> 0,
                     previous |-> i, before |-> Production]
    /\ migrators = [n \in Numbers |-> [at |-> "none", image |-> i]]
    /\ lockedBy = 0 /\ deployFaults = 0

DeployFault ==
  /\ deployFaults < MaxDeployFaults
  /\ deployFaults' = deployFaults + 1

(* The script goes from one of its commands to the next.                    *)
GoesTo(from, to) ==
  deployment.at = from /\ deployment' = [deployment EXCEPT !.at = to]

-----------------------------------------------------------------------------
(* The way forward *)

(* Both environments are valid; the running bot is what would be restored.  *)
BeginDeployment(i, e) ==
  /\ deployment.at \in Ended /\ deployment.number < MaxDeployments
  /\ deployment' =
       [at |-> IF e = envFiles.active THEN "pull" ELSE "save",
        number |-> deployment.number + 1, image |-> i, env |-> e,
        promoted |-> FALSE, started |-> FALSE, lost |-> FALSE, checks |-> 0,
        previous |-> IF bot.up THEN bot.image ELSE Absent, before |-> Production]
  /\ UNCHANGED <<envFiles, database, bot, migrators, lockedBy, deployFaults>>

(* Mutant: a backup that exists is taken to be good. *)
SaveRollbackOnce ==
  /\ GoesTo("save", "activate")
  /\ envFiles' = [envFiles EXCEPT !.rollback = IF @ = Absent THEN envFiles.active ELSE @]
  /\ UNCHANGED <<database, bot, migrators, lockedBy, deployFaults>>

SaveRollback ==
  /\ GoesTo("save", "activate")
  /\ envFiles' = [envFiles EXCEPT !.rollback = envFiles.active]
  /\ UNCHANGED <<database, bot, migrators, lockedBy, deployFaults>>

(* Before the trap is set: the script exits.                                *)
SaveFails ==
  /\ DeployFault /\ GoesTo("save", "untouched")
  /\ UNCHANGED <<envFiles, database, bot, migrators, lockedBy>>

Activate ==
  /\ deployment.at = "activate"
  /\ envFiles' = [envFiles EXCEPT !.active = deployment.env]
  /\ deployment' = [deployment EXCEPT !.at = "pull", !.promoted = TRUE]
  /\ UNCHANGED <<database, bot, migrators, lockedBy, deployFaults>>

Pull ==
  /\ deployment.at = "pull"
  /\ deployment' = [deployment EXCEPT !.at = "db", !.started = TRUE]
  /\ UNCHANGED <<envFiles, database, bot, migrators, lockedBy, deployFaults>>

(* The container takes the passwords of the active environment with it.     *)
UpDatabase ==
  /\ GoesTo("db", "role")
  /\ database' = [database EXCEPT !.env = envFiles.active]
  /\ UNCHANGED <<envFiles, bot, migrators, lockedBy, deployFaults>>

CreateAppRole ==
  /\ GoesTo("role", "migrate")
  /\ database' = [database EXCEPT !.role = database.env]
  /\ UNCHANGED <<envFiles, bot, migrators, lockedBy, deployFaults>>

(* Mutant: the migrations are not waited for. *)
RunMigrateDetached ==
  /\ GoesTo("migrate", "bot")
  /\ migrators' = [migrators EXCEPT ![deployment.number] =
                     [at |-> "runs", image |-> deployment.image]]
  /\ UNCHANGED <<envFiles, database, bot, lockedBy, deployFaults>>

RunMigrate ==
  /\ GoesTo("migrate", "migrating")
  /\ migrators' = [migrators EXCEPT ![deployment.number] =
                     [at |-> "runs", image |-> deployment.image]]
  /\ UNCHANGED <<envFiles, database, bot, lockedBy, deployFaults>>

MigrateReturns ==
  /\ deployment.at = "migrating"
  /\ \/ migrators[deployment.number].at = "done" /\ GoesTo("migrating", "bot")
     \/ migrators[deployment.number].at = "failed" /\ GoesTo("migrating", "failed")
  /\ UNCHANGED <<envFiles, database, bot, migrators, lockedBy, deployFaults>>

Container(i, e, by) ==
  [image |-> i, env |-> e, up |-> TRUE, restarted |-> FALSE, by |-> by]

(* A container that already is what is asked for is left as it is.          *)
UpBot ==
  /\ GoesTo("bot", "gate")
  /\ LET wanted == Container(deployment.image, envFiles.active, "deploy")
     IN  bot' = IF bot.image = wanted.image /\ bot.env = wanted.env /\ bot.by = "deploy"
                THEN [bot EXCEPT !.up = TRUE] ELSE wanted
  /\ UNCHANGED <<envFiles, database, migrators, lockedBy, deployFaults>>

ContainerIsDeployable == bot.up /\ ~bot.restarted

(* Three healthy polls in a row, or the deadline.                           *)
GateCheck ==
  /\ deployment.at = "gate"
  /\ \/ /\ ContainerIsDeployable
        /\ deployment' = [deployment EXCEPT !.checks = @ + 1,
                            !.at = IF deployment.checks = 2 THEN "verify" ELSE "gate"]
     \/ deployment' = [deployment EXCEPT !.checks = 0]
     \/ deployment' = [deployment EXCEPT !.at = "failed"]
  /\ UNCHANGED <<envFiles, database, bot, migrators, lockedBy, deployFaults>>

VerifyRuntime ==
  /\ GoesTo("verify", "accepted") \/ GoesTo("verify", "failed")
  /\ UNCHANGED <<envFiles, database, bot, migrators, lockedBy, deployFaults>>

(* A command fails with its work done, half done or not begun.              *)
CommandFails ==
  /\ DeployFault /\ \E from \in {"activate", "pull", "db", "role", "bot"} : GoesTo(from, "failed")
  /\ \/ deployment.at = "db" /\ database' = [database EXCEPT !.env = envFiles.active]
     \/ deployment.at = "role" /\ database' = [database EXCEPT !.role = database.env]
     \/ UNCHANGED database
  /\ \/ /\ deployment.at = "bot"
        /\ \/ bot' = Container(deployment.image, envFiles.active, "deploy")
           \/ bot' = [bot EXCEPT !.up = FALSE]
     \/ UNCHANGED bot
  /\ UNCHANGED <<envFiles, migrators, lockedBy>>

-----------------------------------------------------------------------------
(* The way back *)

RollbackNotNeeded == ~deployment.promoted /\ ~deployment.started

(* Mutant: an environment promoted before the images were pulled stays. *)
RollbackStarted ==
  /\ \/ ~deployment.started /\ GoesTo("failed", "untouched")
     \/ deployment.started /\ deployment.promoted /\ GoesTo("failed", "restore env")
     \/ deployment.started /\ ~deployment.promoted /\ GoesTo("failed", "restore bot")
  /\ UNCHANGED <<envFiles, database, bot, migrators, lockedBy, deployFaults>>

Rollback ==
  /\ \/ RollbackNotNeeded /\ GoesTo("failed", "untouched")
     \/ deployment.promoted /\ GoesTo("failed", "restore env")
     \/ ~deployment.promoted /\ deployment.started /\ GoesTo("failed", "restore bot")
  /\ UNCHANGED <<envFiles, database, bot, migrators, lockedBy, deployFaults>>

RestoreEnvironment ==
  /\ GoesTo("restore env", "restore db")
  /\ envFiles.rollback # Absent
  /\ envFiles' = [envFiles EXCEPT !.active = envFiles.rollback]
  /\ UNCHANGED <<database, bot, migrators, lockedBy, deployFaults>>

RestoreDatabase ==
  /\ GoesTo("restore db", "restore role")
  /\ database' = [database EXCEPT !.env = envFiles.active]
  /\ UNCHANGED <<envFiles, bot, migrators, lockedBy, deployFaults>>

(* Mutant: the role keeps the password of the failed release. *)
RestoreRoleForgotten ==
  /\ GoesTo("restore role", "restore bot")
  /\ UNCHANGED <<envFiles, database, bot, migrators, lockedBy, deployFaults>>

RestoreRole ==
  /\ GoesTo("restore role", "restore bot")
  /\ database' = [database EXCEPT !.role = database.env]
  /\ UNCHANGED <<envFiles, bot, migrators, lockedBy, deployFaults>>

(* The environment is needed for what follows, the database and the role    *)
(* are not: their failure is remembered and the bot restored all the same.  *)
RestoreFails ==
  /\ DeployFault
  /\ \/ /\ GoesTo("restore env", "broken") /\ UNCHANGED <<database, bot>>
     \/ /\ deployment.at = "restore db"
        /\ database' \in {database, [database EXCEPT !.env = envFiles.active]}
        /\ deployment' = [deployment EXCEPT !.at = "restore bot", !.lost = TRUE]
        /\ UNCHANGED bot
     \/ /\ deployment.at = "restore role"
        /\ database' \in {database, [database EXCEPT !.role = database.env]}
        /\ deployment' = [deployment EXCEPT !.at = "restore bot", !.lost = TRUE]
        /\ UNCHANGED bot
     \/ /\ GoesTo("restore bot", "broken")
        /\ bot' \in {bot, [bot EXCEPT !.up = FALSE]} /\ UNCHANGED database
  /\ UNCHANGED <<envFiles, migrators, lockedBy>>

RestoreBot ==
  /\ deployment.at = "restore bot"
  /\ \/ /\ deployment.previous # Absent
        /\ bot' = Container(deployment.previous, envFiles.active, "rollback")
        /\ deployment' = [deployment EXCEPT !.at = IF deployment.lost THEN "broken" ELSE "restored"]
     \/ /\ deployment.previous = Absent /\ UNCHANGED bot
        /\ deployment' = [deployment EXCEPT !.at = "broken"]
  /\ UNCHANGED <<envFiles, database, migrators, lockedBy, deployFaults>>

-----------------------------------------------------------------------------
(* scripts/migrate.mjs, one transaction to a migration *)

TakeMigrationLock(n) ==
  /\ migrators[n].at = "runs" /\ lockedBy = 0 /\ lockedBy' = n
  /\ UNCHANGED <<envFiles, database, bot, deployment, migrators, deployFaults>>

ApplyMigration(n) ==
  /\ lockedBy = n /\ database.schema < Needs[migrators[n].image]
  /\ database' = [database EXCEPT !.schema = @ + 1]
  /\ UNCHANGED <<envFiles, bot, deployment, migrators, lockedBy, deployFaults>>

EndMigrator(n, how) ==
  /\ migrators' = [migrators EXCEPT ![n].at = how]
  /\ lockedBy' = IF lockedBy = n THEN 0 ELSE lockedBy
  /\ UNCHANGED <<envFiles, database, bot, deployment>>

MigrationsApplied(n) ==
  /\ lockedBy = n /\ database.schema >= Needs[migrators[n].image]
  /\ EndMigrator(n, "done") /\ UNCHANGED deployFaults

MigrationFails(n) ==
  /\ migrators[n].at = "runs" /\ DeployFault /\ EndMigrator(n, "failed")

-----------------------------------------------------------------------------
(* What nobody asked for *)

(* The host reboots, or the connection the script writes to is lost.        *)
KillDeployment ==
  /\ DeployFault /\ deployment.at \in Forward \cup Back
  /\ deployment' = [deployment EXCEPT !.at = "killed"]
  /\ UNCHANGED <<envFiles, database, bot, migrators, lockedBy>>

BotDies ==
  /\ DeployFault /\ bot.up /\ bot' = [bot EXCEPT !.up = FALSE]
  /\ UNCHANGED <<envFiles, database, deployment, migrators, lockedBy>>

BotRestarts ==
  /\ ~bot.up /\ bot' = [bot EXCEPT !.up = TRUE, !.restarted = TRUE]
  /\ UNCHANGED <<envFiles, database, deployment, migrators, lockedBy, deployFaults>>

DeployNext ==
  \/ \E i \in Images, e \in Envs : BeginDeployment(i, e)
  \/ SaveRollback \/ SaveFails \/ Activate \/ Pull \/ UpDatabase \/ CreateAppRole
  \/ RunMigrate \/ MigrateReturns \/ UpBot \/ GateCheck \/ VerifyRuntime \/ CommandFails
  \/ Rollback \/ RestoreEnvironment \/ RestoreDatabase \/ RestoreRole \/ RestoreFails
  \/ RestoreBot \/ KillDeployment \/ BotDies \/ BotRestarts
  \/ \E n \in Numbers : \/ TakeMigrationLock(n) \/ ApplyMigration(n)
                        \/ MigrationsApplied(n) \/ MigrationFails(n)

DeploySpec == DeployInit /\ [][DeployNext]_deployVars

-----------------------------------------------------------------------------
(* What a deployment promises *)

(* An accepted release is whole, whatever the ones before it left: its      *)
(* image runs in the active environment, whose password the database knows. *)
AcceptedIsWhole ==
  deployment.at = "accepted" =>
    /\ Production = [active |-> deployment.env, db |-> deployment.env,
                     role |-> deployment.env, image |-> deployment.image,
                     env |-> deployment.env]
    /\ database.schema >= Needs[deployment.image]

(* A deployment that says nothing had changed has changed nothing.          *)
UntouchedIsAsBefore ==
  deployment.at = "untouched" => Production = deployment.before

(* A rollback that succeeds brings back the production it found, provided   *)
(* that was whole: after a kill between the promotion of an environment and *)
(* its credential the next rollback has nothing whole to go back to.        *)
RestoredIsAsBefore ==
  deployment.at = "restored" =>
    LET b == deployment.before
    IN  b.active = b.env /\ b.role = b.env /\ b.db = b.env => Production = b

(* No bot runs on a schema older than the one its image needs, after a      *)
(* rollback, a kill and the migrations of another release either.           *)
SchemaComesFirst == Needs[bot.image] <= database.schema

(* The environment that a rollback would restore is the one this            *)
(* deployment replaced, not the backup of an earlier one.                   *)
BackupIsOfThisDeployment ==
  deployment.promoted /\ deployment.at \notin Ended =>
    envFiles.rollback = deployment.before.active

(* A release is accepted whole or production is left as it was found, and   *)
(* nothing ever runs ahead of the schema (deploy.sh, rollback).             *)
DeploymentPromise ==
  /\ AcceptedIsWhole /\ UntouchedIsAsBefore /\ RestoredIsAsBefore
  /\ SchemaComesFirst /\ BackupIsOfThisDeployment
=============================================================================
