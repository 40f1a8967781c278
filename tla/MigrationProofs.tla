--------------------------- MODULE MigrationProofs ---------------------------
(***************************************************************************)
(* That a migration, wherever it is killed and however often it is begun,  *)
(* keeps the settings and the files of a project.                          *)
(***************************************************************************)
EXTENDS Migration, TLAPS

Steps == {"idle", "create", "createForUpdate", "createAgain", "clean",
          "cleanForUpdate", "cleanGenerated", "writeConfig", "setConfig",
          "writePackage", "deleteLegacy", "migrateDependencies",
          "updateDependencies", "cleanWebpack", "initWebpack"}
Contents == {"absent", "original", "new"}

MigrationTypes ==
    /\ project \in [Files -> Contents] /\ backup \in [Files -> Contents]
    /\ todo \in Seq(Files)
    /\ config \in {"absent", "default", "set", "moved"}
    /\ dependenciesDone \in BOOLEAN /\ interrupted \in BOOLEAN
    /\ attempts \in Nat

LEMMA FilesAreThese ==
    Files = {"lib", "hooks", "webpack.config.js", "package.json",
             "package-lock.json", "tsconfig.tns.json", "karma.conf.js",
             "nsconfig.json", "app/package.json", "app/main.js"}
  BY DEF Files, Migrated, Generated, ToSet

\* The files of a list are the first one and those of the rest.
LEMMA ToSetOfRest ==
    ASSUME NEW S, NEW s \in Seq(S), s # <<>>
    PROVE  /\ Head(s) \in S /\ Tail(s) \in Seq(S)
           /\ ToSet(s) = {Head(s)} \union ToSet(Tail(s))
  <1>1. Len(s) > 0 /\ Head(s) = s[1] /\ Tail(s) \in Seq(S) /\ s[1] \in S
        /\ DOMAIN s = 1..Len(s) /\ DOMAIN Tail(s) = 1..Len(Tail(s))
    OBVIOUS
  <1>2. Len(Tail(s)) = Len(s) - 1 /\ \A i \in 1..(Len(s) - 1) : Tail(s)[i] = s[i + 1]
    OBVIOUS
  <1>3. ToSet(s) = {s[i] : i \in 1..Len(s)}
        /\ ToSet(Tail(s)) = {Tail(s)[i] : i \in 1..Len(Tail(s))}
    BY <1>1 DEF ToSet
  <1>4. ASSUME NEW x \in ToSet(s) PROVE x \in {s[1]} \union ToSet(Tail(s))
    <2>1. PICK i \in 1..Len(s) : x = s[i]
      BY <1>3
    <2>2. CASE i = 1
      BY <2>1, <2>2
    <2>3. CASE i # 1
      <3>1. i - 1 \in 1..(Len(s) - 1) /\ Tail(s)[i - 1] = s[i]
        BY <2>3, <1>1, <1>2
      <3> QED
        BY <3>1, <2>1, <1>1, <1>2, <1>3
    <2> QED
      BY <2>2, <2>3
  <1>5. ASSUME NEW x \in {s[1]} \union ToSet(Tail(s)) PROVE x \in ToSet(s)
    <2>1. CASE x = s[1]
      BY <2>1, <1>1, <1>3
    <2>2. CASE x \in ToSet(Tail(s))
      <3>1. PICK i \in 1..(Len(s) - 1) : x = Tail(s)[i]
        BY <2>2, <1>1, <1>2, <1>3
      <3>2. i + 1 \in 1..Len(s) /\ x = s[i + 1]
        BY <3>1, <1>1, <1>2
      <3> QED
        BY <3>2, <1>3
    <2> QED
      BY <2>1, <2>2
  <1> QED
    BY <1>1, <1>4, <1>5

LEMMA ListsAreThese ==
    /\ Migrated \in Seq(Files) /\ Updated \in Seq(Files)
    /\ Cleaned \in Seq(Files) /\ Unshared \in Seq(Files)
    /\ Legacy \in Seq(Files) /\ <<>> \in Seq(Files) /\ <<Generated>> \in Seq(Files)
    /\ Append(Migrated, Generated) \in Seq(Files)
    /\ ToSet(<<>>) = {} /\ ToSet(<<Generated>>) = {Generated}
    /\ ToSet(Cleaned) = {"hooks", "package-lock.json"}
    /\ ToSet(Unshared) = {"hooks", "package-lock.json", "tsconfig.tns.json"}
    /\ ToSet(Legacy) = {"app/package.json", "nsconfig.json"}
  BY FilesAreThese DEF Migrated, Updated, Cleaned, Unshared, Legacy, Generated, ToSet

(* The variables keep their types.                                         *)
LEMMA MigrationTypesKept ==
    ASSUME MigrationTypes, [MigrationNext]_migrationVars
    PROVE  MigrationTypes'
  <1> USE ListsAreThese, FilesAreThese DEF MigrationTypes, enter, Contents
  <1>1. ASSUME todo # <<>> PROVE Head(todo) \in Files /\ Tail(todo) \in Seq(Files)
    BY <1>1, ToSetOfRest
  <1>2. CASE StartMigrate
    BY <1>2 DEF StartMigrate
  <1>3. CASE StartUpdate
    BY <1>3 DEF StartUpdate
  <1>4. CASE Ends
    BY <1>4 DEF Ends, ends
  <1>5. CASE InstallPackages
    BY <1>5 DEF InstallPackages
  <1>6. CASE CopyFile
    BY <1>1, <1>6 DEF CopyFile
  <1>7. CASE WriteBackupJson
    BY <1>7 DEF WriteBackupJson
  <1>8. CASE TearBackupJson
    BY <1>8 DEF TearBackupJson
  <1>9. CASE BackupFails
    BY <1>9 DEF BackupFails
  <1>10. CASE CleanPath
    BY <1>1, <1>10 DEF CleanPath, removed
  <1>11. CASE Cleared
    BY <1>11 DEF Cleared
  <1>12. CASE CleanGenerated
    BY <1>12 DEF CleanGenerated, removed
  <1>13. CASE WriteDefaultConfig
    BY <1>13 DEF WriteDefaultConfig
  <1>14. CASE SetConfig
    BY <1>14 DEF SetConfig
  <1>15. CASE WritePackage
    BY <1>15 DEF WritePackage
  <1>16. CASE DeleteLegacy
    BY <1>1, <1>16 DEF DeleteLegacy, removed
  <1>17. CASE MigrateDependencies
    <2>1. project' \in [Files -> Contents]
      <3>1. PICK karma \in {project["karma.conf.js"]} \union {"new"} :
              project' = [project EXCEPT !["package.json"] = "new",
                                         !["karma.conf.js"] = karma]
        BY <1>17 DEF MigrateDependencies
      <3> QED
        BY <3>1
    <2>2. /\ step' \in {"cleanWebpack", "idle"} /\ todo' = <<>>
          /\ dependenciesDone' \in {TRUE, dependenciesDone}
          /\ UNCHANGED <<backup, config, attempts, interrupted>>
      BY <1>17 DEF MigrateDependencies
    <2> QED
      BY <2>1, <2>2
  <1>18. CASE UpdateDependencies
    BY <1>18 DEF UpdateDependencies
  <1>19. CASE CleanWebpack
    <2>1. project' \in {project, [project EXCEPT !["webpack.config.js"] = "absent"]}
      BY <1>19 DEF CleanWebpack, removed
    <2>2. project' \in [Files -> Contents]
      BY <2>1
    <2>3. UNCHANGED <<backup, config, dependenciesDone, attempts, interrupted>>
          /\ todo' = <<>>
      BY <1>19 DEF CleanWebpack
    <2> QED
      BY <2>2, <2>3
  <1>20. CASE InitWebpack
    BY <1>20 DEF InitWebpack
  <1>21. CASE UNCHANGED migrationVars
    BY <1>21 DEF migrationVars
  <1> QED
    BY ONLY [MigrationNext]_migrationVars, <1>2, <1>3, <1>4, <1>5, <1>6, <1>7,
       <1>8, <1>9, <1>10, <1>11, <1>12, <1>13, <1>14, <1>15, <1>16, <1>17, <1>18,
       <1>19, <1>20, <1>21
       DEF MigrationNext

(***************************************************************************)
(* The settings                                                            *)
(***************************************************************************)
Settled == Present \intersect ToSet(Legacy)

\* Where the command is tells how far the settings are.  Paths are cleaned
\* before that, and none of them has settings.
SettingsInv ==
    /\ MigrationTypes
    /\ config = "moved" \/ \A f \in Settled : project[f] = "original"
    /\ step \in {"clean", "cleanForUpdate"} =>
           \A f \in Settled : f \notin ToSet(todo)
    /\ step = "writeConfig" => config = "absent"
    /\ step = "setConfig" => config = "default"
    /\ step = "writePackage" => config = "set"
    /\ step = "deleteLegacy" => config = "moved"
    /\ step = "migrateDependencies" => config # "absent"
    /\ config \in {"default", "set"} =>
           interrupted \/ step \in {"setConfig", "writePackage"}
    /\ dependenciesDone /\ ~interrupted => config = "moved"

LEMMA SettledAreThese ==
    Settled \subseteq {"app/package.json", "nsconfig.json"} /\ Settled \subseteq Files
  BY ListsAreThese, FilesAreThese DEF Settled

LEMMA SettingsStart == MigrationInit => SettingsInv
  <1> SUFFICES ASSUME MigrationInit PROVE SettingsInv
    OBVIOUS
  <1>1. MigrationTypes
    BY ListsAreThese DEF MigrationInit, MigrationTypes, Contents
  <1>2. \A f \in Settled : project[f] = "original"
    BY SettledAreThese DEF MigrationInit, Settled
  <1> QED
    BY <1>1, <1>2 DEF MigrationInit, SettingsInv

LEMMA SettingsStep == SettingsInv /\ [MigrationNext]_migrationVars => SettingsInv'
  <1> SUFFICES ASSUME SettingsInv, [MigrationNext]_migrationVars PROVE SettingsInv'
    OBVIOUS
  <1>0. MigrationTypes /\ MigrationTypes'
    BY MigrationTypesKept DEF SettingsInv
  <1> DEFINE Rest ==
        /\ config = "moved" \/ \A f \in Settled : project[f] = "original"
        /\ step \in {"clean", "cleanForUpdate"} =>
               \A f \in Settled : f \notin ToSet(todo)
        /\ step = "writeConfig" => config = "absent"
        /\ step = "setConfig" => config = "default"
        /\ step = "writePackage" => config = "set"
        /\ step = "deleteLegacy" => config = "moved"
        /\ step = "migrateDependencies" => config # "absent"
        /\ config \in {"default", "set"} =>
               interrupted \/ step \in {"setConfig", "writePackage"}
        /\ dependenciesDone /\ ~interrupted => config = "moved"
  <1>r. Rest
    BY DEF SettingsInv
  <1> SUFFICES Rest'
    BY <1>0 DEF SettingsInv
  <1> USE <1>0, <1>r, SettledAreThese, FilesAreThese DEF enter, MigrationTypes
  <1>2. CASE StartMigrate
    BY <1>2 DEF StartMigrate
  <1>3. CASE StartUpdate
    BY <1>3 DEF StartUpdate
  <1>4. CASE Ends
    BY <1>4 DEF Ends, ends
  <1>5. CASE InstallPackages
    BY <1>5, ListsAreThese DEF InstallPackages
  <1>6. CASE CopyFile
    BY <1>6 DEF CopyFile, creating
  <1>7. CASE WriteBackupJson
    BY <1>7, ListsAreThese DEF WriteBackupJson
  <1>8. CASE TearBackupJson
    BY <1>8 DEF TearBackupJson, creating
  <1>9. CASE BackupFails
    BY <1>9 DEF BackupFails
  <1>10. CASE CleanPath
    <2>1. todo \in Seq(Files) /\ todo # <<>>
      BY <1>10 DEF CleanPath
    <2>2. /\ Head(todo) \in Files
          /\ ToSet(todo) = {Head(todo)} \union ToSet(Tail(todo))
      BY <2>1, ToSetOfRest
    <2> QED
      BY <1>10, <2>2 DEF CleanPath, removed
  <1>11. CASE Cleared
    BY <1>11 DEF Cleared
  <1>12. CASE CleanGenerated
    BY <1>12 DEF CleanGenerated, removed, Generated
  <1>13. CASE WriteDefaultConfig
    BY <1>13 DEF WriteDefaultConfig
  <1>14. CASE SetConfig
    BY <1>14 DEF SetConfig
  <1>15. CASE WritePackage
    BY <1>15 DEF WritePackage
  <1>16. CASE DeleteLegacy
    BY <1>16 DEF DeleteLegacy
  <1>17. CASE MigrateDependencies
    <2>1. \A f \in Settled : project'[f] = project[f]
      BY <1>17 DEF MigrateDependencies
    <2>2. /\ step = "migrateDependencies" /\ step' \in {"cleanWebpack", "idle"}
          /\ dependenciesDone' \in {TRUE, dependenciesDone}
          /\ UNCHANGED <<config, interrupted>>
      BY <1>17 DEF MigrateDependencies
    <2> QED
      BY <2>1, <2>2
  <1>18. CASE UpdateDependencies
    BY <1>18 DEF UpdateDependencies
  <1>19. CASE CleanWebpack
    BY <1>19 DEF CleanWebpack, removed
  <1>20. CASE InitWebpack
    BY <1>20 DEF InitWebpack
  <1>21. CASE UNCHANGED migrationVars
    BY <1>21 DEF migrationVars
  <1> QED
    BY <1>2, <1>3, <1>4, <1>5, <1>6, <1>7, <1>8, <1>9, <1>10, <1>11, <1>12, <1>13,
       <1>14, <1>15, <1>16, <1>17, <1>18, <1>19, <1>20, <1>21 DEF MigrationNext

(* Wherever migrations are killed, the settings are in the legacy files or *)
(* all of them where the CLI reads them; and a migration that has renewed  *)
(* the dependencies has moved them.                                        *)
THEOREM SettingsAreKept == MigrationSpec => []SettingsSurvive
  <1>1. MigrationSpec => []SettingsInv
    BY SettingsStart, SettingsStep, PTL DEF MigrationSpec
  <1>2. SettingsInv => SettingsSurvive
    BY DEF SettingsInv, SettingsSurvive, Settled
  <1> QED
    BY <1>1, <1>2, PTL

(***************************************************************************)
(* The originals                                                           *)
(***************************************************************************)
\* What OriginalsAreKept allows to happen to f.
Excused(f) == attempts > 1 /\ (f \in Rewritten \/ backupLost)

\* The files of which a command need not fear for the one in the project: it
\* has copied them.
Secured ==
    CASE step = "idle" -> {}
      [] step = "create" -> ToSet(Migrated) \ ToSet(todo)
      [] step = "createForUpdate" -> ToSet(Updated) \ ToSet(todo)
      [] step = "createAgain" -> ToSet(Migrated) \union (Files \ ToSet(todo))
      [] step \in {"cleanForUpdate", "updateDependencies"} -> ToSet(Updated)
      [] step = "cleanGenerated" -> Files
      [] OTHER -> ToSet(Migrated)

\* The steps after the backups that change files.
Late == {"writePackage", "deleteLegacy", "migrateDependencies", "cleanWebpack",
         "initWebpack"}

\* An original is only in danger once the backup has it; the backup is only
\* overwritten by later commands, since the first one copies before it writes.
OriginalInv(f) ==
    /\ project[f] = "original" \/ backup[f] = "original" \/ Excused(f)
    /\ backup[f] = "new" => Excused(f)
    /\ f \in Secured /\ project[f] = "original" => backup[f] = "original" \/ Excused(f)
    /\ project[f] = "new" => f \in Rewritten \union {"hooks"}
    /\ attempts = 0 \/ (attempts = 1 /\ step \in {"create", "createForUpdate"}) =>
           project[f] = "original"
    /\ attempts = 1 /\ step \in {"clean", "createAgain"} => project[f] # "new"

\* Only what was copied is removed.
RemovesSecured ==
    step \in {"clean", "cleanForUpdate", "deleteLegacy"} => ToSet(todo) \subseteq Secured

OriginalsInv ==
    /\ MigrationTypes
    /\ step \in Steps
    /\ step # "idle" => attempts > 0
    /\ RemovesSecured
    /\ \A f \in Present : OriginalInv(f)

LEMMA SetsAreThese ==
    /\ ToSet(Migrated) = Files \ {Generated}
    /\ ToSet(Updated) = {"lib", "hooks", "webpack.config.js", "package.json",
                         "package-lock.json", "nsconfig.json"}
    /\ ToSet(Append(Migrated, Generated)) = Files
  BY FilesAreThese DEF Migrated, Updated, Generated, ToSet

LEMMA OriginalsStart == MigrationInit => OriginalsInv
  <1> SUFFICES ASSUME MigrationInit PROVE OriginalsInv
    OBVIOUS
  <1>1. MigrationTypes
    BY ListsAreThese DEF MigrationInit, MigrationTypes, Contents
  <1>2. ASSUME NEW f \in Present PROVE OriginalInv(f)
    BY MigrationAssumption DEF MigrationInit, OriginalInv, Secured
  <1> QED
    BY <1>1, <1>2 DEF MigrationInit, OriginalsInv, RemovesSecured, Steps

\* Which steps follow, with which files.
LEMMA StepsFollow ==
    ASSUME OriginalsInv, [MigrationNext]_migrationVars
    PROVE  /\ step' \in Steps
           /\ step' # "idle" => attempts' > 0
           /\ RemovesSecured'
  <1> USE DEF enter, Steps, OriginalsInv
  <1>0. MigrationTypes /\ RemovesSecured
    OBVIOUS
  <1>1. todo # <<>> => ToSet(Tail(todo)) \subseteq ToSet(todo)
    BY <1>0, ToSetOfRest DEF MigrationTypes
  <1> USE <1>0, SetsAreThese, ListsAreThese, FilesAreThese
      DEF MigrationTypes, RemovesSecured, Secured, Generated
  <1>2. CASE StartMigrate
    BY <1>2 DEF StartMigrate
  <1>3. CASE StartUpdate
    BY <1>3 DEF StartUpdate
  <1>4. CASE Ends
    BY <1>4 DEF Ends, ends
  <1>5. CASE InstallPackages
    BY <1>5 DEF InstallPackages
  <1>6. CASE CopyFile
    BY <1>6 DEF CopyFile, creating
  <1>7. CASE WriteBackupJson
    BY <1>7 DEF WriteBackupJson, creating
  <1>8. CASE TearBackupJson
    BY <1>8 DEF TearBackupJson, creating
  <1>9. CASE BackupFails
    BY <1>9 DEF BackupFails
  <1>10. CASE CleanPath
    BY <1>1, <1>10 DEF CleanPath, removed
  <1>11. CASE Cleared
    BY <1>11 DEF Cleared
  <1>12. CASE CleanGenerated
    BY <1>12 DEF CleanGenerated, removed
  <1>13. CASE WriteDefaultConfig
    BY <1>13 DEF WriteDefaultConfig
  <1>14. CASE SetConfig
    BY <1>14 DEF SetConfig
  <1>15. CASE WritePackage
    BY <1>15 DEF WritePackage
  <1>16. CASE DeleteLegacy
    BY <1>1, <1>16 DEF DeleteLegacy, removed
  <1>17. CASE MigrateDependencies
    BY <1>17 DEF MigrateDependencies
  <1>18. CASE UpdateDependencies
    BY <1>18 DEF UpdateDependencies
  <1>19. CASE CleanWebpack
    BY <1>19 DEF CleanWebpack, removed
  <1>20. CASE InitWebpack
    BY <1>20 DEF InitWebpack
  <1>21. CASE UNCHANGED migrationVars
    BY <1>21 DEF migrationVars
  <1> QED
    BY <1>2, <1>3, <1>4, <1>5, <1>6, <1>7, <1>8, <1>9, <1>10, <1>11, <1>12, <1>13,
       <1>14, <1>15, <1>16, <1>17, <1>18, <1>19, <1>20, <1>21 DEF MigrationNext

\* Nothing a file was excused for is taken back.
LEMMA ExcusesStay ==
    ASSUME MigrationTypes, [MigrationNext]_migrationVars, NEW f, Excused(f)
    PROVE  Excused(f)'
  <1>1. attempts' \in {attempts, attempts + 1} /\ (backupLost => backupLost')
    <2>1. CASE StartMigrate
      BY <2>1 DEF StartMigrate
    <2>2. CASE StartUpdate
      BY <2>2 DEF StartUpdate
    <2>3. CASE BackupFails
      BY <2>3 DEF BackupFails
    <2>4. CASE UNCHANGED <<attempts, backupLost>>
      BY <2>4
    <2> QED
      BY <2>1, <2>2, <2>3, <2>4 DEF MigrationNext, migrationVars, Ends, ends,
         InstallPackages, CopyFile, WriteBackupJson, TearBackupJson, CleanPath,
         Cleared, CleanGenerated, WriteDefaultConfig, SetConfig, WritePackage,
         DeleteLegacy, MigrateDependencies, UpdateDependencies, CleanWebpack,
         InitWebpack
  <1> QED
    BY <1>1 DEF Excused, MigrationTypes

\* No step endangers an original that the backup does not have.
LEMMA OriginalsStep ==
    ASSUME OriginalsInv, [MigrationNext]_migrationVars, NEW f \in Present
    PROVE  OriginalInv(f)'
  <1>0. /\ MigrationTypes /\ MigrationTypes' /\ RemovesSecured
        /\ step \in Steps /\ (step # "idle" => attempts > 0)
        /\ f \in Files /\ "hooks" \in Folders
    BY MigrationTypesKept, MigrationAssumption DEF OriginalsInv
  <1>f. OriginalInv(f)
    BY DEF OriginalsInv
  <1>e. Excused(f) => Excused(f)'
    BY <1>0, ExcusesStay
  <1>h. todo # <<>> => /\ Head(todo) \in Files
                       /\ ToSet(todo) = {Head(todo)} \union ToSet(Tail(todo))
    BY <1>0, ToSetOfRest DEF MigrationTypes
  \* A file may be changed when it is secured.
  <1>s. ASSUME f \in Secured \/ project'[f] = project[f],
               UNCHANGED <<backup, attempts>>
        PROVE  /\ project'[f] = "original" \/ backup'[f] = "original" \/ Excused(f)'
               /\ backup'[f] = "new" => Excused(f)'
    BY <1>f, <1>e, <1>s DEF OriginalInv
  \* ... and another version written when the migration has one.
  <1>w. ASSUME f \in Secured \/ project'[f] = project[f],
               project'[f] # project[f] =>
                   project'[f] = "absent" \/ (project'[f] = "new" /\ f \in Rewritten),
               UNCHANGED <<backup, attempts>>, attempts > 0, Secured' \subseteq Secured,
               step' \notin {"create", "createForUpdate", "clean", "createAgain"}
        PROVE  OriginalInv(f)'
    <2>1. /\ project'[f] = "original" \/ backup'[f] = "original" \/ Excused(f)'
          /\ backup'[f] = "new" => Excused(f)'
      BY <1>s, <1>w
    <2>2. f \in Secured => backup[f] = "original" \/ Excused(f)
      BY <1>f DEF OriginalInv
    <2>3. (f \in Secured)' /\ project'[f] = "original" =>
              backup'[f] = "original" \/ Excused(f)'
      BY <2>2, <1>e, <1>w
    <2>4. project'[f] = "new" => f \in Rewritten \union {"hooks"}
      BY <1>f, <1>w DEF OriginalInv
    <2>5. attempts' # 0 /\ step' \notin {"create", "createForUpdate", "clean", "createAgain"}
      BY <1>w, <1>0 DEF MigrationTypes
    <2> QED
      BY <2>1, <2>3, <2>4, <2>5 DEF OriginalInv
  <1>m. step \in Late => Secured = ToSet(Migrated)
    BY DEF Secured, Late
  <1>n. /\ step' = "idle" => Secured' = {}
        /\ step' \in Late => Secured' = ToSet(Migrated)
    BY DEF Secured, Late
  <1> USE <1>0, <1>f, <1>e, SetsAreThese, ListsAreThese, FilesAreThese
      DEF OriginalInv, MigrationTypes, Contents, enter
  <1>2. CASE StartMigrate
    BY <1>2 DEF StartMigrate, Secured
  <1>3. CASE StartUpdate
    BY <1>3 DEF StartUpdate, Secured
  <1>4. CASE Ends
    BY <1>4 DEF Ends, ends, Secured
  <1>5. CASE InstallPackages
    BY <1>5 DEF InstallPackages, Secured, Rewritten
  <1>6. CASE CopyFile
    <2>1. CASE Head(todo) # f
      BY <1>6, <1>h, <2>1 DEF CopyFile, creating, Secured
    <2>2. CASE Head(todo) = f
      BY <1>6, <1>h, <2>2 DEF CopyFile, creating, Secured, Excused
    <2> QED
      BY <2>1, <2>2
  <1>7. CASE WriteBackupJson
    BY <1>7 DEF WriteBackupJson, creating, Secured, Generated
  <1>8. CASE TearBackupJson
    BY <1>8 DEF TearBackupJson, creating, Secured
  <1>9. CASE BackupFails
    BY <1>9 DEF BackupFails, Secured, Excused
  <1>10. CASE CleanPath
    <2>1. /\ f \in Secured \/ project'[f] = project[f]
          /\ project'[f] \in {"absent", project[f]}
      BY <1>10, <1>h DEF CleanPath, removed, RemovesSecured
    <2>2. UNCHANGED <<backup, attempts, step>> /\ step \in {"clean", "cleanForUpdate"}
      BY <1>10 DEF CleanPath
    <2>3. Secured' = Secured
      BY <2>2 DEF Secured
    <2> QED
      BY <1>s, <2>1, <2>2, <2>3
  <1>11. CASE Cleared
    BY <1>11 DEF Cleared, Secured
  <1>12. CASE CleanGenerated
    BY <1>12 DEF CleanGenerated, removed, Secured
  <1>13. CASE WriteDefaultConfig
    BY <1>13 DEF WriteDefaultConfig, Secured
  <1>14. CASE SetConfig
    BY <1>14 DEF SetConfig, Secured
  <1>15. CASE WritePackage
    <2>1. /\ f \in Secured \/ project'[f] = project[f]
          /\ project'[f] # project[f] =>
                 project'[f] = "absent" \/ (project'[f] = "new" /\ f \in Rewritten)
      BY <1>15, <1>m DEF WritePackage, Rewritten, Generated, Late
    <2>2. /\ UNCHANGED <<backup, attempts>> /\ attempts > 0
          /\ step \in Late /\ step' \in Late \union {"idle"}
      BY <1>15 DEF WritePackage, Late
    <2> QED
      BY <1>w, <1>m, <1>n, <2>1, <2>2 DEF Late
  <1>16. CASE DeleteLegacy
    <2>1. /\ f \in Secured \/ project'[f] = project[f]
          /\ project'[f] # project[f] =>
                 project'[f] = "absent" \/ (project'[f] = "new" /\ f \in Rewritten)
      BY <1>16, <1>m, <1>h DEF DeleteLegacy, removed, RemovesSecured
    <2>2. /\ UNCHANGED <<backup, attempts>> /\ attempts > 0
          /\ step \in Late /\ step' \in Late \union {"idle"}
      BY <1>16 DEF DeleteLegacy, Late
    <2> QED
      BY <1>w, <1>m, <1>n, <2>1, <2>2 DEF Late
  <1>17. CASE MigrateDependencies
    <2>0. PICK karma \in {project["karma.conf.js"], "new"} :
            project' = [project EXCEPT !["package.json"] = "new",
                                       !["karma.conf.js"] = karma]
      BY <1>17 DEF MigrateDependencies
    <2>2. /\ UNCHANGED <<backup, attempts>> /\ attempts > 0
          /\ step \in Late /\ step' \in Late \union {"idle"}
      BY <1>17 DEF MigrateDependencies, Late
    <2>1. /\ f \in Secured \/ project'[f] = project[f]
          /\ project'[f] # project[f] => project'[f] = "new" /\ f \in Rewritten
      BY <2>0, <2>2, <1>m DEF Rewritten, Generated, Late
    <2> QED
      BY <1>w, <1>m, <1>n, <2>1, <2>2 DEF Late
  <1>18. CASE UpdateDependencies
    BY <1>18 DEF UpdateDependencies, Secured, Rewritten
  <1>19. CASE CleanWebpack
    <2>1. /\ f \in Secured \/ project'[f] = project[f]
          /\ project'[f] # project[f] =>
                 project'[f] = "absent" \/ (project'[f] = "new" /\ f \in Rewritten)
      BY <1>19, <1>m DEF CleanWebpack, removed, Generated, Late
    <2>2. /\ UNCHANGED <<backup, attempts>> /\ attempts > 0
          /\ step \in Late /\ step' \in Late \union {"idle"}
      BY <1>19 DEF CleanWebpack, Late
    <2> QED
      BY <1>w, <1>m, <1>n, <2>1, <2>2 DEF Late
  <1>20. CASE InitWebpack
    <2>1. /\ f \in Secured \/ project'[f] = project[f]
          /\ project'[f] # project[f] =>
                 project'[f] = "absent" \/ (project'[f] = "new" /\ f \in Rewritten)
      BY <1>20, <1>m DEF InitWebpack, Rewritten, Generated, Late
    <2>2. /\ UNCHANGED <<backup, attempts>> /\ attempts > 0
          /\ step \in Late /\ step' \in Late \union {"idle"}
      BY <1>20 DEF InitWebpack, Late
    <2> QED
      BY <1>w, <1>m, <1>n, <2>1, <2>2 DEF Late
  <1>21. CASE UNCHANGED migrationVars
    BY <1>21 DEF migrationVars, Secured, Excused
  <1> QED
    BY <1>2, <1>3, <1>4, <1>5, <1>6, <1>7, <1>8, <1>9, <1>10, <1>11, <1>12, <1>13,
       <1>14, <1>15, <1>16, <1>17, <1>18, <1>19, <1>20, <1>21 DEF MigrationNext

(* Wherever commands are killed, what the project had is in the project or *)
(* in the backup, unless a later command rewrote it or lost the backup.    *)
THEOREM OriginalsAreSafe == MigrationSpec => []OriginalsAreKept
  <1>1. OriginalsInv /\ [MigrationNext]_migrationVars => OriginalsInv'
    <2> SUFFICES ASSUME OriginalsInv, [MigrationNext]_migrationVars
                 PROVE  OriginalsInv'
      OBVIOUS
    <2>1. MigrationTypes'
      BY MigrationTypesKept DEF OriginalsInv
    <2>2. \A f \in Present : OriginalInv(f)'
      BY OriginalsStep
    <2> QED
      BY <2>1, <2>2, StepsFollow DEF OriginalsInv
  <1>2. OriginalsInv => OriginalsAreKept
    BY DEF OriginalsInv, OriginalInv, OriginalsAreKept, Excused
  <1> QED
    BY OriginalsStart, <1>1, <1>2, PTL DEF MigrationSpec
=============================================================================
