------------------------------- MODULE Migration -------------------------------
(***************************************************************************)
(* "ns migrate" and "ns update": the backup of the files of a project, the *)
(* files removed, the settings moved to nativescript.config.ts, and the    *)
(* dependencies renewed.                                                   *)
(*   lib/services/project-backup-service.ts, project-cleanup-service.ts,   *)
(*     project-config-service.ts;                                          *)
(*   lib/controllers/migrate-controller.ts, update-controller.ts.          *)
(*                                                                         *)
(* The command may be killed or fail at any step and be started again.     *)
(* Both commands keep one backup, .migration_backup.  tsconfig.json and    *)
(* the sources of the application are rewritten without a backup and left  *)
(* out here.                                                               *)
(***************************************************************************)
EXTENDS Naturals, Sequences, SequencesExt

CONSTANTS
    Present,        \* the files to back up that the project has at first
    Folders,        \* the files that are folders
    MaxAttempts     \* bound: commands started

VARIABLES
    project,        \* the content of each file in the project
    backup,         \* the content of each file in .migration_backup
    listed,         \* the paths in _backup.json; Torn if it does not parse
    config,         \* nativescript.config.ts: absent, the default, set from the
                    \* legacy files; moved, when package.json has main as well
    dependenciesDone, \* all of migrationDependencies are as desired
    step,           \* where the command is
    todo,           \* the files of the step still to be handled
    attempts,       \* commands started
    interrupted,    \* one ended between the default and the final config
    backupLost      \* a backup that could not be made was removed

migrationVars == <<project, backup, listed, config, dependenciesDone, step, todo,
                   attempts, interrupted, backupLost>>

Torn == {"torn"}

\* pathsToBackup, in the order of the code.
Migrated == <<"lib", "hooks", "webpack.config.js", "package.json",
              "package-lock.json", "tsconfig.tns.json", "karma.conf.js",
              "nsconfig.json", "app/package.json">>
Updated == <<"lib", "hooks", "webpack.config.js", "package.json",
             "package-lock.json", "nsconfig.json">>
Cleaned == <<"hooks", "package-lock.json">>
\* A migration cleans that too, if the project is not shared with a web one.
Unshared == Append(Cleaned, "tsconfig.tns.json")
Legacy == <<"app/package.json", "nsconfig.json">>

Generated == "app/main.js"
Files == ToSet(Migrated) \union {Generated}

ASSUME MigrationAssumption ==
    /\ Present \subseteq Files
    /\ Folders \subseteq Files /\ "hooks" \in Folders
    /\ MaxAttempts \in Nat

\* Files of which the migration or the package manager writes another version.
Rewritten == {"webpack.config.js", "package.json", "karma.conf.js",
              "package-lock.json"}

MigrationInit ==
    /\ project = [f \in Files |-> IF f \in Present THEN "original" ELSE "absent"]
    /\ backup = [f \in Files |-> "absent"]
    /\ listed = {}
    /\ config = "absent"
    /\ dependenciesDone = FALSE
    /\ step = "idle"
    /\ todo = <<>>
    /\ attempts = 0
    /\ interrupted = FALSE /\ backupLost = FALSE

enter(next, files) == step' = next /\ todo' = files

(***************************************************************************)
(* The commands                                                            *)
(***************************************************************************)
\* shouldMigrate(): a dependency of package.json is not as desired.
StartMigrate ==
    /\ step = "idle"
    /\ ~dependenciesDone
    /\ attempts < MaxAttempts
    /\ attempts' = attempts + 1
    /\ enter("create", Migrated)
    /\ UNCHANGED <<project, backup, listed, config, dependenciesDone, interrupted,
                   backupLost>>

StartUpdate ==
    /\ step = "idle"
    /\ attempts < MaxAttempts
    /\ attempts' = attempts + 1
    /\ enter("createForUpdate", Updated)
    /\ UNCHANGED <<project, backup, listed, config, dependenciesDone, interrupted,
                   backupLost>>

\* The command is killed, or a step fails and the error reaches the developer.
ends ==
    /\ step # "idle"
    /\ enter("idle", <<>>)
    /\ interrupted' = (interrupted \/ step \in {"setConfig", "writePackage"})
    /\ UNCHANGED <<project, config, dependenciesDone, attempts, backupLost>>

(* Mutant: the second create() that fails removes the backup, as the first *)
(* does.                                                                   *)
EndsWithoutBackup ==
    /\ ends
    /\ IF step = "createAgain"
       THEN backup' = [f \in Files |-> "absent"] /\ listed' = {}
       ELSE UNCHANGED <<backup, listed>>

Ends == ends /\ UNCHANGED <<backup, listed>>

\* Files come back: the package manager writes its lock file, plugins their
\* hooks.
InstallPackages ==
    /\ step = "idle" /\ attempts > 0
    /\ \E f \in Present \intersect ToSet(Cleaned) :
          project[f] = "absent" /\ project' = [project EXCEPT ![f] = "new"]
    /\ UNCHANGED <<backup, listed, config, dependenciesDone, step, todo, attempts,
                   interrupted, backupLost>>

(***************************************************************************)
(* The backup                                                              *)
(***************************************************************************)
creating == step \in {"create", "createForUpdate", "createAgain"}

\* create() copies what exists; into a folder that is there already it is
\* copied beside what that has.
CopyFile ==
    LET f == Head(todo) IN
    /\ creating /\ listed # Torn /\ todo # <<>>
    /\ backup' = IF project[f] = "absent" \/ (f \in Folders /\ backup[f] # "absent")
                 THEN backup ELSE [backup EXCEPT ![f] = project[f]]
    /\ enter(step, Tail(todo))
    /\ UNCHANGED <<project, listed, config, dependenciesDone, attempts, interrupted,
                   backupLost>>

\* _backup.json lists the files copied by this backup and by the ones before.
WriteBackupJson ==
    LET paths == CASE step = "create" -> ToSet(Migrated)
                   [] step = "createForUpdate" -> ToSet(Updated)
                   [] step = "createAgain" -> Files
    IN
    /\ creating /\ listed # Torn /\ todo = <<>>
    /\ listed' = listed \union {f \in paths : project[f] # "absent"}
    /\ \/ step = "create" /\ \E files \in {Cleaned, Unshared} : enter("clean", files)
       \/ step = "createForUpdate" /\ enter("cleanForUpdate", Cleaned)
       \/ step = "createAgain" /\ enter("cleanGenerated", <<Generated>>)
    /\ UNCHANGED <<project, backup, config, dependenciesDone, attempts, interrupted,
                   backupLost>>

\* The process is killed while it writes _backup.json.
TearBackupJson ==
    /\ creating /\ listed # Torn /\ todo = <<>>
    /\ listed' = Torn
    /\ enter("idle", <<>>)
    /\ UNCHANGED <<project, backup, config, dependenciesDone, attempts, interrupted,
                   backupLost>>

\* A file cannot be copied or _backup.json not be read: the backup is removed,
\* with all that earlier ones have put there.
BackupFails ==
    /\ step \in {"create", "createForUpdate"}
    /\ backup' = [f \in Files |-> "absent"]
    /\ listed' = {}
    /\ backupLost' = TRUE
    /\ enter("idle", <<>>)
    /\ UNCHANGED <<project, config, dependenciesDone, attempts, interrupted>>

(***************************************************************************)
(* Cleaning                                                                *)
(***************************************************************************)
removed(f) == project' = [project EXCEPT ![f] = "absent"]

\* clean(): a path that cannot be removed is logged and left.
CleanPath ==
    /\ step \in {"clean", "cleanForUpdate"} /\ todo # <<>>
    /\ removed(Head(todo)) \/ UNCHANGED project
    /\ enter(step, Tail(todo))
    /\ UNCHANGED <<backup, listed, config, dependenciesDone, attempts, interrupted,
                   backupLost>>

\* On with the backup of the generated files, or the dependencies of an update.
Cleared ==
    /\ todo = <<>>
    /\ \/ step = "clean" /\ enter("createAgain", Append(Migrated, Generated))
       \/ step = "cleanForUpdate" /\ enter("updateDependencies", <<>>)
    /\ UNCHANGED <<project, backup, listed, config, dependenciesDone, attempts,
                   interrupted, backupLost>>

\* handleAutoGeneratedFiles(): once isUpToDate() finds all of the backup.
CleanGenerated ==
    /\ step = "cleanGenerated"
    /\ IF \A f \in listed : backup[f] # "absent" THEN removed(Generated)
       ELSE UNCHANGED project
    /\ IF config = "absent" THEN enter("writeConfig", <<>>)
       ELSE enter("migrateDependencies", <<>>)
    /\ UNCHANGED <<backup, listed, config, dependenciesDone, attempts, interrupted,
                   backupLost>>

(***************************************************************************)
(* The settings: migrateConfigs()                                          *)
(***************************************************************************)
\* writeDefaultConfig(): an application id that is not the developer's.
WriteDefaultConfig ==
    /\ step = "writeConfig"
    /\ config' = "default"
    /\ enter("setConfig", <<>>)
    /\ UNCHANGED <<project, backup, listed, dependenciesDone, attempts, interrupted,
                   backupLost>>

(* Mutant: whether all values could be set is not looked at.               *)
SetConfigInAnyCase ==
    /\ step = "setConfig"
    /\ config' = "set" \/ UNCHANGED config
    /\ enter("writePackage", <<>>)
    /\ UNCHANGED <<project, backup, listed, dependenciesDone, attempts, interrupted,
                   backupLost>>

\* setValue(): all values are set, or one cannot be and the file is removed.
SetConfig ==
    /\ step = "setConfig"
    /\ \/ config' = "set" /\ enter("writePackage", <<>>)
       \/ config' = "absent" /\ enter("idle", <<>>)
    /\ UNCHANGED <<project, backup, listed, dependenciesDone, attempts, interrupted,
                   backupLost>>

\* main goes to package.json, the key "nativescript" from it.
WritePackage ==
    /\ step = "writePackage"
    /\ project' = [project EXCEPT !["package.json"] = "new"]
    /\ config' = IF config = "set" THEN "moved" ELSE config
    /\ enter("deleteLegacy", Legacy)
    /\ UNCHANGED <<backup, listed, dependenciesDone, attempts, interrupted, backupLost>>

DeleteLegacy ==
    /\ step = "deleteLegacy"
    /\ IF todo = <<>>
       THEN enter("migrateDependencies", <<>>) /\ UNCHANGED project
       ELSE enter(step, Tail(todo)) /\ removed(Head(todo))
    /\ UNCHANGED <<backup, listed, config, dependenciesDone, attempts, interrupted,
                   backupLost>>

(***************************************************************************)
(* The dependencies and what follows                                       *)
(***************************************************************************)
\* One dependency after the other is written to package.json; that of the unit
\* tests makes karma.conf.js from the one in the backup.
MigrateDependencies ==
    /\ step = "migrateDependencies"
    /\ \E karma \in {project["karma.conf.js"]}
                     \union (IF backup["karma.conf.js"] = "absent" THEN {} ELSE {"new"}) :
          project' = [project EXCEPT !["package.json"] = "new",
                                     !["karma.conf.js"] = karma]
    /\ \/ enter("cleanWebpack", <<>>) /\ dependenciesDone' = TRUE
       \/ enter("idle", <<>>) /\ UNCHANGED dependenciesDone
    /\ UNCHANGED <<backup, listed, config, attempts, interrupted, backupLost>>

UpdateDependencies ==
    /\ step = "updateDependencies"
    /\ project' = [project EXCEPT !["package.json"] = "new"]
    /\ enter("idle", <<>>)
    /\ UNCHANGED <<backup, listed, config, dependenciesDone, attempts, interrupted,
                   backupLost>>

\* migrateWebpack5(): a new configuration is left alone; an old one is removed
\* and another made, if npx can.
CleanWebpack ==
    /\ step = "cleanWebpack"
    /\ IF project["webpack.config.js"] = "new"
       THEN enter("idle", <<>>) /\ UNCHANGED project
       ELSE enter("initWebpack", <<>>) /\ removed("webpack.config.js")
    /\ UNCHANGED <<backup, listed, config, dependenciesDone, attempts, interrupted,
                   backupLost>>

InitWebpack ==
    /\ step = "initWebpack"
    /\ project' = [project EXCEPT !["webpack.config.js"] = "new",
                                  !["package.json"] = "new"]
       \/ project' = [project EXCEPT !["package.json"] = "new"]
    /\ enter("idle", <<>>)
    /\ UNCHANGED <<backup, listed, config, dependenciesDone, attempts, interrupted,
                   backupLost>>

MigrationNext ==
    \/ StartMigrate \/ StartUpdate \/ Ends \/ InstallPackages
    \/ CopyFile \/ WriteBackupJson \/ TearBackupJson \/ BackupFails
    \/ CleanPath \/ Cleared \/ CleanGenerated
    \/ WriteDefaultConfig \/ SetConfig \/ WritePackage \/ DeleteLegacy
    \/ MigrateDependencies \/ UpdateDependencies \/ CleanWebpack \/ InitWebpack

MigrationSpec == MigrationInit /\ [][MigrationNext]_migrationVars

(***************************************************************************)
(* Properties                                                              *)
(***************************************************************************)
\* Wherever a command is killed, what the project had is in the project or in
\* the backup.  A later command may put a rewritten file over the original
\* one, or lose the whole backup when it cannot make its own.
OriginalsAreKept ==
    \A f \in Present :
        \/ project[f] = "original" \/ backup[f] = "original"
        \/ attempts > 1 /\ (f \in Rewritten \/ backupLost)

\* The settings are in the legacy files until all of them are where the CLI
\* reads them; and they are there after a migration, unless one before it was
\* interrupted when nativescript.config.ts had been created only.
SettingsSurvive ==
    /\ config = "moved" \/ \A f \in Present \intersect ToSet(Legacy) :
                               project[f] = "original"
    /\ dependenciesDone /\ ~interrupted => config = "moved"

=============================================================================
