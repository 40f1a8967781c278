-------------------------- MODULE ProjectBuildProofs --------------------------
(***************************************************************************)
(* That the prepare info never vouches for a change the native project     *)
(* lacks, and that the application on a device that was synced has what    *)
(* was changed before; for any number of platforms, devices, changes and   *)
(* kills.                                                                  *)
(*   HonestInv: a prepare info tells what its native project lacks.        *)
(*   CodeInv: so does a build info of its package, and that of a device of *)
(*     its application; what is left alone by a command needs nothing.     *)
(***************************************************************************)
EXTENDS ProjectBuild, TLAPS

Projects == [Kinds -> Nat]
Infos == [kind : {"info"}, mtime : Nat, hash : Nat, time : Nat, requireBuildTime : Nat]
PrepareInfos ==
    [kind : {"info"}, about : Platforms, hash : Nat, time : Nat, requireBuildTime : Nat]
Prepares ==
    [at : {"none", "starting", "compiled", "checked", "native", "saving", "done"},
     platform : Platforms, checks : BOOLEAN, nativeChanged : BOOLEAN,
     hasChanges : BOOLEAN]
Visits ==
    [at : {"none", "look", "ask", "build", "built", "installIfNeeded", "throws",
           "install", "installed", "sync", "done"},
     device : Devices, shouldBuild : BOOLEAN, waived : BOOLEAN, changed : BOOLEAN,
     required : Projects]

BuildTypes ==
    /\ now \in Nat
    /\ sources \in [Platforms -> Projects]
    /\ native \in [Platforms -> Projects \union {None}]
    /\ info \in [Platforms -> Infos \union {None}]
    /\ prepareInfo \in PrepareInfos \union {None}
    /\ prep \in Prepares
    /\ visit \in Visits

\* Times: a file was written before now, and a hash taken before the last
\* change of package.json, which is that of all platforms.
TimesInv ==
    /\ \A p, q \in Platforms : sources[p].dependencies = sources[q].dependencies
    /\ \A p \in Platforms : info[p] # None =>
           info[p].mtime <= now /\ info[p].hash <= sources[p].dependencies
    /\ \A p \in Platforms : prepareInfo # None =>
           prepareInfo.hash <= sources[p].dependencies

\* What a prepare has when it comes to its steps.
PrepareInv ==
    /\ prep.at \in {"compiled", "checked", "native", "saving"} =>
           native[prep.platform] # None
    /\ prep.at \in {"checked", "native"} \/ (prep.at = "saving" /\ prep.checks) =>
           prepareInfo # None /\ changesInfo # None
    /\ prep.at \in {"starting", "compiled"} => ~prep.checks
    /\ prep.at \in {"checked", "native"} => prep.checks
    /\ prep.at = "saving" \/ watchers # {} => prepareInfo # None
    /\ visit.at = "done" => prep.at = "done"

\* The native project is what its sources are, but for package.json if the hash
\* to be written says so.
UpToDate(p, kinds) ==
    \A k \in kinds :
        \/ native[p][k] = sources[p][k]
        \/ k = "dependencies" /\ prepareInfo.hash # sources[p][k]

\* Why the prepare info may be written: what is not prepared by then was up to
\* date at the check.
PreparedInv ==
    LET p == prep.platform IN
    p \notin excused =>
        /\ prep.at = "checked" /\ ~prep.nativeChanged =>
               UpToDate(p, {"plugins", "dependencies"})
        /\ prep.at = "native" \/ (prep.at = "saving" /\ prep.checks) => UpToDate(p, Kinds)

\* What InfoIsHonest says of p.
Honest(p) ==
    p \notin excused /\ info[p] # None =>
        /\ native[p] # None
        /\ \A k \in Kinds :
            native[p][k] = sources[p][k]
            \/ IF k = "dependencies" THEN info[p].hash # sources[p][k]
                                     ELSE sources[p][k] >= info[p].mtime

HonestInv ==
    /\ BuildTypes
    /\ TimesInv
    /\ PrepareInv
    /\ PreparedInv
    /\ \A p \in Platforms : Honest(p)

LEMMA NoneIsNothing ==
    None \notin Projects /\ None \notin Infos /\ None \notin PrepareInfos
  <1>1. DOMAIN None = {"kind"} /\ None.kind = "none"
    BY DEF None
  <1>2. \A x \in Projects : DOMAIN x = Kinds
    BY DEF Projects
  <1>3. \A x \in Infos \union PrepareInfos : x.kind = "info"
    BY DEF Infos, PrepareInfos
  <1> QED
    BY <1>1, <1>2, <1>3 DEF Kinds

LEMMA HonestStart == BuildInit => HonestInv
  <1> SUFFICES ASSUME BuildInit PROVE HonestInv
    OBVIOUS
  <1>1. (CHOOSE p \in Platforms : TRUE) \in Platforms
        /\ (CHOOSE d \in Devices : TRUE) \in Devices
    BY BuildAssumption
  <1>2. Template \in Projects /\ [k \in Kinds |-> 1] \in Projects
    BY DEF Template, Projects
  <1>3. NoPrepare \in Prepares /\ NoPrepare.at = "none"
    BY <1>1 DEF NoPrepare, Prepares
  <1>4. NoVisit \in Visits /\ NoVisit.at = "none"
    BY <1>1, <1>2 DEF NoVisit, Visits
  <1>5. BuildTypes
    BY <1>2, <1>3, <1>4 DEF BuildInit, BuildTypes
  <1>6. TimesInv /\ PrepareInv /\ PreparedInv /\ \A p \in Platforms : Honest(p)
    BY <1>3, <1>4 DEF BuildInit, TimesInv, PrepareInv, PreparedInv, Honest, Kinds
  <1> QED
    BY <1>5, <1>6 DEF HonestInv

(***************************************************************************)
(* Steps that leave the native projects alone                              *)
(***************************************************************************)
\* A check remembers a hash that is not newer than package.json.
LEMMA CheckRemembers ==
    ASSUME BuildTypes, TimesInv, NEW p \in Platforms, CheckForChanges(p)
    PROVE  /\ changesInfo' # None
           /\ prepareInfo' \in PrepareInfos /\ prepareInfo'.about = p
           /\ prepareInfo'.hash = IF info[p] # None /\ pluginsChanged(p) THEN info[p].hash
                                  ELSE sources[p].dependencies
           /\ now' \in {now, now + 1}
           /\ \A q \in Platforms : prepareInfo'.hash <= sources[q].dependencies
  <1>1. sources[p] \in Projects /\ sources[p].dependencies \in Nat
    BY DEF BuildTypes, Projects, Kinds
  <1>2. info[p] # None => info[p] \in Infos
    BY DEF BuildTypes
  <1>3. info[p] # None => /\ info[p].hash \in Nat /\ info[p].time \in Nat
                          /\ info[p].requireBuildTime \in Nat
    BY <1>2 DEF Infos
  <1>4. ~hasChanges(p) => info[p] # None
    BY DEF hasChanges, resourcesChanged
  <1> DEFINE hash == IF info[p] # None /\ pluginsChanged(p) THEN info[p].hash
                     ELSE sources[p].dependencies
             remembered(time, build) == [kind |-> "info", about |-> p, hash |-> hash,
                                         time |-> time, requireBuildTime |-> build]
  <1>5. hash \in Nat
    BY <1>1, <1>3
  <1> HIDE DEF hash
  <1>6. \A t, b \in Nat : /\ remembered(t, b) \in PrepareInfos
                          /\ remembered(t, b).about = p /\ remembered(t, b).hash = hash
    BY <1>5 DEF PrepareInfos
  <1>7. now + 1 \in Nat
    BY DEF BuildTypes
  <1>8. /\ prepareInfo' = IF hasChanges(p) THEN remembered(now + 1, now + 1)
                          ELSE remembered(info[p].time, info[p].requireBuildTime)
        /\ now' \in {now, now + 1}
    BY DEF CheckForChanges, hash
  <1>9. prepareInfo' \in PrepareInfos /\ prepareInfo'.about = p /\ prepareInfo'.hash = hash
    <2> HIDE DEF remembered
    <2>1. CASE hasChanges(p)
      BY <2>1, <1>6, <1>7, <1>8
    <2>2. CASE ~hasChanges(p)
      BY <2>2, <1>3, <1>4, <1>6, <1>8
    <2> QED
      BY <2>1, <2>2
  <1>10. \A q \in Platforms : hash <= sources[q].dependencies
    <2> SUFFICES ASSUME NEW q \in Platforms PROVE hash <= sources[q].dependencies
      OBVIOUS
    <2>1. sources[p].dependencies = sources[q].dependencies
      BY DEF TimesInv
    <2>2. info[p] # None => info[p].hash <= sources[p].dependencies
      BY DEF TimesInv
    <2> QED
      BY <2>1, <2>2, <1>1 DEF hash
  <1>11. changesInfo' # None
    <2>1. changesInfo'.kind = "changes"
      BY DEF CheckForChanges
    <2> QED
      BY <2>1 DEF None
  <1> QED
    BY <1>8, <1>9, <1>10, <1>11 DEF hash

\* What happens on a device is no concern of the native projects; a check is one of
\* a prepare only when it is its own.
LEMMA DeviceIsAside ==
    ASSUME HonestInv,
           UNCHANGED <<sources, native, info, prep, excused>>,
           now' \in {now, now + 1}, visit' \in Visits,
           visit'.at = "done" => prep.at = "done",
           watchers' # {} => watchers # {},
           \/ UNCHANGED <<prepareInfo, changesInfo>>
           \/ /\ \E p \in Platforms : CheckForChanges(p)
              /\ changesInfo = None \/ prep.at = "done"
    PROVE  HonestInv'
  <1>1. BuildTypes /\ TimesInv /\ PrepareInv /\ PreparedInv
    BY DEF HonestInv
  <1>2. ASSUME ~UNCHANGED <<prepareInfo, changesInfo>>
        PROVE  /\ prepareInfo' \in PrepareInfos /\ changesInfo' # None
               /\ prepareInfo' # None
               /\ \A q \in Platforms : prepareInfo'.hash <= sources[q].dependencies
    BY <1>1, <1>2, CheckRemembers, NoneIsNothing
  <1>3. BuildTypes'
    BY <1>1, <1>2 DEF BuildTypes
  <1>4. TimesInv'
    <2>1. \A p \in Platforms : info[p] # None => info[p].mtime \in Nat
      BY <1>1 DEF BuildTypes, Infos
    <2> QED
      BY <1>1, <1>2, <2>1 DEF TimesInv, BuildTypes
  <1>5. PrepareInv'
    BY <1>1, <1>2 DEF PrepareInv
  <1>6. PreparedInv'
    <2>1. CASE UNCHANGED <<prepareInfo, changesInfo>>
      BY <2>1, <1>1 DEF PreparedInv, UpToDate
    <2>2. CASE changesInfo = None \/ prep.at = "done"
      <3>1. prep.at \notin {"checked", "native"} /\ ~(prep.at = "saving" /\ prep.checks)
        BY <2>2, <1>1 DEF PrepareInv
      <3> QED
        BY <3>1 DEF PreparedInv
    <2> QED
      BY <2>1, <2>2
  <1>7. \A p \in Platforms : Honest(p)'
    BY DEF HonestInv, Honest
  <1> QED
    BY <1>3, <1>4, <1>5, <1>6, <1>7 DEF HonestInv

LEMMA DeviceStep ==
    ASSUME HonestInv,
           \/ LooksForPackage \/ AskDeveloper \/ BuildProject \/ SaveLocalBuildInfo
           \/ InstallIfNeeded \/ InstallOnDevice \/ SaveDeviceBuildInfo \/ Synced
           \/ SyncChangedData \/ VisitFails
    PROVE  HonestInv'
  <1>0. visit \in Visits /\ BuildTypes /\ PrepareInv /\ NoVisit.at = "none"
    BY DEF HonestInv, BuildTypes, NoVisit
  <1>1. NoVisit \in Visits
    <2>1. (CHOOSE d \in Devices : TRUE) \in Devices /\ Template \in Projects
      BY BuildAssumption DEF Template, Projects
    <2> QED
      BY <2>1 DEF NoVisit, Visits
  <1>2. platform \in Platforms
    BY <1>0, BuildAssumption DEF platform, target, Visits
  <1>3. sources[platform] \in Projects
    BY <1>0, <1>2 DEF BuildTypes
  <1> DEFINE Places == {"look", "ask", "build", "built", "installIfNeeded", "throws",
                        "install", "installed", "sync"}
  <1>4. ASSUME NEW place \in Places \union {"done"}, goOn(place)
        PROVE  visit' \in Visits /\ visit'.at = place
    BY <1>0, <1>4 DEF goOn, Visits
  <1>5. ASSUME NEW place \in Places, NEW build \in BOOLEAN, NEW waived \in BOOLEAN,
               NEW required \in Projects, NEW changed \in BOOLEAN,
               \/ visit' = [visit EXCEPT !.at = place, !.shouldBuild = build]
               \/ visit' = [visit EXCEPT !.at = place, !.waived = waived]
               \/ visit' = [visit EXCEPT !.at = place, !.changed = changed,
                                         !.required = required]
        PROVE  visit' \in Visits /\ visit'.at = place
    BY <1>0, <1>5 DEF Visits
  <1> HIDE DEF Places
  <1>6. /\ {"look", "ask", "build", "built", "installIfNeeded", "throws", "install",
            "installed", "sync"} \subseteq Places
        /\ \A place \in Places : place # "done"
    BY DEF Places
  <1> USE <1>0, <1>6 DEF memory, onDisk, onDevices, counters, call
  <1>7. CASE LooksForPackage
    <2>1. visit' \in Visits /\ visit'.at # "done"
      <3>1. requiresBuild(platform, target, changesInfo') \in BOOLEAN
        BY DEF requiresBuild
      <3> QED
        BY <1>7, <1>4, <1>5, <3>1, <1>3 DEF LooksForPackage
    <2>2. /\ UNCHANGED <<sources, native, info, watchers, prep, excused>>
          /\ \/ UNCHANGED <<now, prepareInfo, changesInfo>>
             \/ changesInfo = None /\ CheckForChanges(platform)
      BY <1>7 DEF LooksForPackage
    <2>3. now' \in {now, now + 1}
      BY <2>2 DEF CheckForChanges
    <2> QED
      BY <2>1, <2>2, <2>3, <1>2, DeviceIsAside
  <1>8. CASE AskDeveloper
    <2>1. visit' \in Visits /\ visit'.at # "done"
      BY <1>8, <1>4, <1>5, <1>3 DEF AskDeveloper
    <2> QED
      BY <1>8, <2>1, DeviceIsAside DEF AskDeveloper
  <1>9. CASE BuildProject
    BY <1>9, <1>4, DeviceIsAside DEF BuildProject
  <1>10. CASE SaveLocalBuildInfo
    BY <1>10, <1>4, DeviceIsAside DEF SaveLocalBuildInfo
  <1>11. CASE InstallIfNeeded
    <2>1. visit' \in Visits /\ visit'.at # "done"
      BY <1>11, <1>1, <1>3, <1>4, <1>5 DEF InstallIfNeeded, Visits
    <2> QED
      BY <1>11, <2>1, DeviceIsAside DEF InstallIfNeeded
  <1>12. CASE InstallOnDevice
    BY <1>12, <1>4, DeviceIsAside DEF InstallOnDevice
  <1>13. CASE SaveDeviceBuildInfo
    BY <1>13, <1>4, DeviceIsAside DEF SaveDeviceBuildInfo
  <1>14. CASE Synced
    BY <1>14, <1>4, DeviceIsAside DEF Synced
  <1>15. CASE SyncChangedData
    <2>1. visit' \in Visits /\ visit'.at # "done"
      BY <1>15, <1>3, <1>5 DEF SyncChangedData
    <2>2. prep.at = "done" /\ CheckForChanges(platform)
      BY <1>15 DEF SyncChangedData, PrepareInv
    <2>3. now' \in {now, now + 1}
      BY <2>2 DEF CheckForChanges
    <2> QED
      BY <1>15, <1>2, <2>1, <2>2, <2>3, DeviceIsAside DEF SyncChangedData
  <1>16. CASE VisitFails
    <2>1. visit' = NoVisit /\ (watchers' # {} => watchers # {})
      BY <1>16 DEF VisitFails, deviceStops
    <2> QED
      BY <1>16, <1>1, <2>1, DeviceIsAside DEF VisitFails
  <1> QED
    BY <1>7, <1>8, <1>9, <1>10, <1>11, <1>12, <1>13, <1>14, <1>15, <1>16

(***************************************************************************)
(* Files change                                                            *)
(***************************************************************************)
\* The change is newer than whatever was written or hashed before, or it falls
\* into the window that excuses its platform.
LEMMA ChangeStep ==
    ASSUME HonestInv, NEW p \in Platforms, NEW kinds \in Edits, FileChanges(p, kinds)
    PROVE  HonestInv'
  <1>0. BuildTypes /\ TimesInv /\ PrepareInv /\ PreparedInv
    BY DEF HonestInv
  <1>1. PICK t \in {now, now + 1} :
            /\ \A k \in kinds : t > sources[p][k]
            /\ now' = t
            /\ sources' = [q \in Platforms |-> [k \in Kinds |->
                   IF k \in kinds /\ (q = p \/ k = "dependencies") THEN t
                   ELSE sources[q][k]]]
    BY DEF FileChanges
  <1>2. /\ UNCHANGED <<native, info, prepareInfo, changesInfo, watchers, prep, visit>>
        /\ excused' = IF /\ kinds # {"dependencies"}
                         /\ prep.platform = p
                         /\ prep.at \in {"checked", "native", "saving"}
                      THEN excused \union {p} ELSE excused
        /\ kinds \subseteq Kinds
    BY BuildAssumption DEF FileChanges, onDisk, memory, Kinds
  <1>3. t \in Nat /\ now \in Nat /\ now <= t
    BY <1>0, <1>1 DEF BuildTypes
  <1>4. \A q \in Platforms, k \in Kinds :
            /\ sources[q][k] \in Nat
            /\ sources'[q][k] = IF k \in kinds /\ (q = p \/ k = "dependencies") THEN t
                                ELSE sources[q][k]
    BY <1>0, <1>1 DEF BuildTypes, Projects
  <1>5. \A q \in Platforms : sources'[q].dependencies =
            IF "dependencies" \in kinds THEN t ELSE sources[q].dependencies
    BY <1>4 DEF Kinds
  <1>6. \A q \in Platforms : "dependencies" \in kinds => t > sources[q].dependencies
    BY <1>0, <1>1 DEF TimesInv
  <1>7. \A q \in Platforms : info[q] # None =>
            info[q].mtime \in Nat /\ info[q].hash \in Nat
    BY <1>0 DEF BuildTypes, Infos
  <1>8. prepareInfo # None => prepareInfo.hash \in Nat
    BY <1>0 DEF BuildTypes, PrepareInfos
  <1>9. BuildTypes'
    <2>1. sources' \in [Platforms -> Projects]
      BY <1>1, <1>3, <1>4 DEF Projects
    <2> QED
      BY <1>0, <1>1, <1>2, <1>3, <2>1 DEF BuildTypes
  <1>10. TimesInv'
    <2>1. \A q \in Platforms : sources[q].dependencies \in Nat
      BY <1>4 DEF Kinds
    <2>2. \A q \in Platforms : sources[q].dependencies <= sources'[q].dependencies
      BY <1>3, <1>5, <1>6, <2>1
    <2>3. \A q \in Platforms : sources'[q].dependencies \in Nat
      BY <1>3, <1>5, <2>1
    <2>4. \A q, r \in Platforms : sources'[q].dependencies = sources'[r].dependencies
      BY <1>0, <1>5 DEF TimesInv
    <2>5. ASSUME NEW q \in Platforms, info[q] # None
          PROVE  info[q].mtime <= now' /\ info[q].hash <= sources'[q].dependencies
      <3>1. info[q].mtime <= now /\ info[q].hash <= sources[q].dependencies
        BY <1>0, <2>5 DEF TimesInv
      <3> QED
        BY <3>1, <2>1, <2>2, <2>3, <2>5, <1>1, <1>3, <1>7
    <2>6. ASSUME NEW q \in Platforms, prepareInfo # None
          PROVE  prepareInfo.hash <= sources'[q].dependencies
      <3>1. prepareInfo.hash <= sources[q].dependencies
        BY <1>0, <2>6 DEF TimesInv
      <3> QED
        BY <3>1, <2>1, <2>2, <2>3, <2>6, <1>8
    <2> QED
      BY <1>2, <2>4, <2>5, <2>6 DEF TimesInv
  <1>11. PrepareInv'
    BY <1>0, <1>2 DEF PrepareInv
  \* What was up to date still is, or package.json is newer than its hash.
  <1>12. ASSUME NEW q \in Platforms, NEW ks \in SUBSET Kinds, UpToDate(q, ks),
                prepareInfo # None, kinds = {"dependencies"} \/ q # p
         PROVE  UpToDate(q, ks)'
    <2> SUFFICES ASSUME NEW k \in ks
                 PROVE  \/ native[q][k] = sources'[q][k]
                        \/ k = "dependencies" /\ prepareInfo.hash # sources'[q][k]
      BY <1>2 DEF UpToDate
    <2>1. \/ native[q][k] = sources[q][k]
          \/ k = "dependencies" /\ prepareInfo.hash # sources[q][k]
      BY <1>12 DEF UpToDate
    <2>2. CASE k \in kinds /\ k = "dependencies"
      <3>1. prepareInfo.hash <= sources[q].dependencies /\ sources[q].dependencies < t
        BY <1>0, <1>6, <1>12, <2>2 DEF TimesInv
      <3>2. sources'[q][k] = t /\ sources[q].dependencies \in Nat
        BY <1>4, <2>2
      <3> QED
        BY <3>1, <3>2, <1>3, <1>8, <1>12, <2>2
    <2>3. CASE ~(k \in kinds /\ k = "dependencies")
      <3>1. sources'[q][k] = sources[q][k]
        BY <1>4, <1>12, <2>3
      <3> QED
        BY <2>1, <3>1
    <2> QED
      BY <2>2, <2>3
  <1>13. PreparedInv'
    <2>1. PICK own \in Platforms : own = prep.platform /\ own = prep'.platform
      BY <1>0, <1>2 DEF BuildTypes, Prepares
    <2>2. ASSUME prep.platform \notin excused'
          PROVE  /\ prep.platform \notin excused
                 /\ prep.at \in {"checked", "native", "saving"} =>
                        kinds = {"dependencies"} \/ prep.platform # p
      BY <1>2, <2>2
    <2>3. /\ {"plugins", "dependencies"} \in SUBSET Kinds /\ Kinds \in SUBSET Kinds
          /\ prep.at \in {"checked", "native", "saving"} => prepareInfo # None
      BY <1>0 DEF Kinds, PrepareInv
    <2>4. ASSUME prep.platform \notin excused', prep.at = "checked", ~prep.nativeChanged
          PROVE  UpToDate(own, {"plugins", "dependencies"})'
      BY <1>0, <1>12, <2>1, <2>2, <2>3, <2>4 DEF PreparedInv
    <2>5. ASSUME prep.platform \notin excused',
                 prep.at = "native" \/ (prep.at = "saving" /\ prep.checks)
          PROVE  UpToDate(own, Kinds)'
      BY <1>0, <1>12, <2>1, <2>2, <2>3, <2>5 DEF PreparedInv
    <2>6. prep' = prep
      BY <1>2
    <2> QED
      BY <2>1, <2>4, <2>5, <2>6 DEF PreparedInv
  <1>14. ASSUME NEW q \in Platforms PROVE Honest(q)'
    <2> SUFFICES ASSUME q \notin excused', info[q] # None, NEW k \in Kinds
                 PROVE  /\ native[q] # None
                        /\ \/ native[q][k] = sources'[q][k]
                           \/ IF k = "dependencies" THEN info[q].hash # sources'[q][k]
                                                    ELSE sources'[q][k] >= info[q].mtime
      BY <1>2 DEF Honest, Kinds
    <2>1. /\ native[q] # None
          /\ \/ native[q][k] = sources[q][k]
             \/ IF k = "dependencies" THEN info[q].hash # sources[q][k]
                                      ELSE sources[q][k] >= info[q].mtime
      BY <1>2 DEF HonestInv, Honest
    <2>2. CASE sources'[q][k] = sources[q][k]
      BY <2>1, <2>2
    <2>3. CASE sources'[q][k] # sources[q][k] /\ k = "dependencies"
      <3>1. info[q].hash <= sources[q].dependencies
        BY <1>0 DEF TimesInv
      <3>2. sources'[q].dependencies = t /\ sources[q].dependencies < t
            /\ sources[q].dependencies \in Nat
        BY <2>3, <1>4, <1>6
      <3> QED
        BY <2>1, <2>3, <3>1, <3>2, <1>3, <1>7
    <2>4. CASE sources'[q][k] # sources[q][k] /\ k # "dependencies"
      <3>1. sources'[q][k] = t /\ info[q].mtime <= now
        BY <2>4, <1>0, <1>4 DEF TimesInv
      <3> QED
        BY <2>1, <2>4, <3>1, <1>3, <1>7
    <2> QED
      BY <2>2, <2>3, <2>4
  <1> QED
    BY <1>9, <1>10, <1>11, <1>13, <1>14 DEF HonestInv

(***************************************************************************)
(* The steps of a prepare                                                  *)
(***************************************************************************)
\* A prepare that begins, or is over, has nothing to vouch for.
LEMMA BetweenPrepares ==
    ASSUME HonestInv,
           UNCHANGED <<now, sources, native, info, excused>>,
           prep' \in Prepares, prep'.at \in {"none", "starting"}, ~prep'.checks,
           visit' \in Visits, visit'.at # "done",
           prepareInfo' = prepareInfo \/ (prepareInfo' = None /\ watchers' = {}),
           watchers' # {} => watchers # {}
    PROVE  HonestInv'
  <1>1. BuildTypes'
    BY DEF HonestInv, BuildTypes
  <1>2. TimesInv' /\ PrepareInv' /\ PreparedInv'
    BY DEF HonestInv, TimesInv, PrepareInv, PreparedInv
  <1>3. \A p \in Platforms : Honest(p)'
    BY DEF HonestInv, Honest
  <1> QED
    BY <1>1, <1>2, <1>3 DEF HonestInv

\* The prepare info of a platform is written when what is not prepared is known
\* to have been up to date.
LEMMA SavedIsHonest ==
    ASSUME HonestInv, NEW p \in Platforms, p = prep.platform, saved(p),
           native[p] # None, prepareInfo # None,
           UNCHANGED <<sources, native, prepareInfo, changesInfo, watchers>>,
           visit' \in Visits, visit'.at = "done" => prep'.at = "done",
           prep' \in Prepares, prep'.at \in {"saving", "done"},
           prep'.at = "saving" =>
               /\ prep'.platform = p /\ prep'.checks /\ changesInfo # None
               /\ p \notin excused => UpToDate(p, Kinds),
           excused \subseteq excused',
           p \notin excused' => UpToDate(p, Kinds)
    PROVE  HonestInv'
  <1>0. BuildTypes /\ TimesInv /\ PrepareInv /\ now \in Nat
    BY DEF HonestInv, BuildTypes
  <1>1. prepareInfo \in PrepareInfos
    BY <1>0 DEF BuildTypes
  <1> DEFINE new == [kind |-> "info", mtime |-> now + 1, hash |-> prepareInfo.hash,
                     time |-> prepareInfo.time,
                     requireBuildTime |-> prepareInfo.requireBuildTime]
  <1>2. /\ new \in Infos /\ new.mtime = now + 1 /\ new.hash = prepareInfo.hash
    BY <1>0, <1>1 DEF Infos, PrepareInfos
  <1>3. now' = now + 1 /\ info' = [info EXCEPT ![p] = new]
    BY DEF saved
  <1> HIDE DEF new
  <1>4. info' \in [Platforms -> Infos \union {None}] /\ info'[p] = new
        /\ \A q \in Platforms : q # p => info'[q] = info[q]
    BY <1>0, <1>2, <1>3 DEF BuildTypes
  <1>5. BuildTypes'
    BY <1>0, <1>3, <1>4 DEF BuildTypes
  <1>6. TimesInv'
    <2>1. \A q \in Platforms : info[q] # None => info[q].mtime \in Nat
      BY <1>0 DEF BuildTypes, Infos
    <2>2. ASSUME NEW q \in Platforms, info'[q] # None
          PROVE  info'[q].mtime <= now' /\ info'[q].hash <= sources[q].dependencies
      <3>1. CASE q = p
        BY <3>1, <1>0, <1>2, <1>3, <1>4 DEF TimesInv
      <3>2. CASE q # p
        BY <3>2, <2>1, <2>2, <1>0, <1>3, <1>4 DEF TimesInv
      <3> QED
        BY <3>1, <3>2
    <2> QED
      BY <2>2, <1>0 DEF TimesInv
  <1>7. PrepareInv'
    BY <1>0 DEF PrepareInv
  <1>8. PreparedInv'
    <2>1. p \notin excused' => p \notin excused
      OBVIOUS
    <2>2. UpToDate(p, Kinds)' <=> UpToDate(p, Kinds)
      BY DEF UpToDate
    <2>3. prep'.at = "saving" /\ p \notin excused' => UpToDate(p, Kinds)'
      BY <2>1, <2>2
    <2> QED
      BY <2>3 DEF PreparedInv
  <1>9. ASSUME NEW q \in Platforms PROVE Honest(q)'
    <2>1. CASE q = p
      <3>1. p \notin excused' => UpToDate(p, Kinds)
        OBVIOUS
      <3>2. \A k \in Kinds : p \notin excused' =>
                native[p][k] = sources[p][k]
                \/ (k = "dependencies" /\ new.hash # sources[p][k])
        BY <3>1, <1>2 DEF UpToDate
      <3> QED
        BY <2>1, <3>2, <1>4 DEF Honest
    <2>2. CASE q # p
      BY <2>2, <1>4 DEF HonestInv, Honest
    <2> QED
      BY <2>1, <2>2
  <1> QED
    BY <1>5, <1>6, <1>7, <1>8, <1>9 DEF HonestInv

\* How far a prepare is once it has begun.
LEMMA PrepareStep ==
    ASSUME HonestInv,
           \/ AddPlatformAndCompile \/ FindsWatcher \/ PrepareChecks \/ PrepareNative
           \/ SetNativePlatformStatus \/ SavePrepareInfo
    PROVE  HonestInv'
  <1>0. /\ BuildTypes /\ TimesInv /\ PrepareInv /\ PreparedInv
        /\ \A q \in Platforms : Honest(q)
        /\ prep \in Prepares /\ visit \in Visits
        /\ visit.at = "done" => prep.at = "done"
    BY DEF HonestInv, BuildTypes, PrepareInv
  <1>1. PICK p \in Platforms : p = prep.platform
    BY <1>0 DEF Prepares
  <1>2. native[p] \in Projects \union {None} /\ info[p] \in Infos \union {None}
        /\ sources[p] \in Projects
    BY <1>0 DEF BuildTypes
  <1>3. ASSUME NEW place \in {"compiled", "saving", "native"}, prepared(place)
        PROVE  /\ prep' \in Prepares /\ prep'.at = place
               /\ prep'.platform = p /\ prep'.checks = prep.checks
    BY <1>0, <1>1, <1>3 DEF Prepares, prepared
  <1> USE DEF onDisk, onDevices, memory, counters, call
  <1>4. CASE AddPlatformAndCompile
    <2>1. /\ UNCHANGED <<now, sources, prepareInfo, changesInfo, watchers, visit, excused>>
          /\ prep.at = "starting" /\ prepared("compiled")
          /\ \/ UNCHANGED <<native, info>> /\ native[p] # None
             \/ /\ native' = [native EXCEPT ![p] = Template]
                /\ info' = [info EXCEPT ![p] = None]
      BY <1>1, <1>4 DEF AddPlatformAndCompile
    <2>2. prep' \in Prepares /\ prep'.at = "compiled" /\ prep'.platform = p
      BY <2>1, <1>3
    <2>3. Template \in Projects
      BY DEF Template, Projects
    <2>4. native' \in [Platforms -> Projects \union {None}]
          /\ info' \in [Platforms -> Infos \union {None}] /\ native'[p] # None
          /\ \A q \in Platforms : info'[q] # None => UNCHANGED <<info[q], native[q]>>
      BY <2>1, <2>3, <1>0, NoneIsNothing DEF BuildTypes
    <2>5. BuildTypes'
      BY <2>1, <2>2, <2>4, <1>0 DEF BuildTypes
    <2>6. TimesInv' /\ PrepareInv' /\ PreparedInv'
      <3>1. TimesInv'
        BY <2>1, <2>4, <1>0 DEF TimesInv
      <3>2. PrepareInv'
        BY <2>1, <2>2, <2>4, <1>0, <1>1, <1>3 DEF PrepareInv
      <3>3. PreparedInv'
        BY <2>2 DEF PreparedInv
      <3> QED
        BY <3>1, <3>2, <3>3
    <2>7. \A q \in Platforms : Honest(q)'
      BY <2>1, <2>4, <1>0 DEF Honest
    <2> QED
      BY <2>5, <2>6, <2>7 DEF HonestInv
  <1>5. CASE FindsWatcher
    <2>1. /\ UNCHANGED <<now, sources, native, info, prepareInfo, changesInfo, watchers,
                         visit, excused>>
          /\ prep.at = "compiled" /\ prepared("saving") /\ watchers # {}
      BY <1>5 DEF FindsWatcher
    <2>2. /\ prep' \in Prepares /\ prep'.at = "saving" /\ prep'.platform = p
          /\ prep'.checks = prep.checks
      BY <2>1, <1>3
    <2>3. BuildTypes' /\ TimesInv'
      BY <2>1, <2>2, <1>0 DEF BuildTypes, TimesInv
    <2>4. PrepareInv' /\ PreparedInv'
      BY <2>1, <2>2, <1>0, <1>1 DEF PrepareInv, PreparedInv
    <2>5. \A q \in Platforms : Honest(q)'
      BY <2>1, <1>0 DEF Honest
    <2> QED
      BY <2>3, <2>4, <2>5 DEF HonestInv
  \* The check: what it finds unchanged is up to date.
  <1>6. CASE PrepareChecks
    <2>1. /\ UNCHANGED <<sources, native, info, visit, excused>>
          /\ prep.at = "compiled" /\ CheckForChanges(p)
          /\ prep' = [prep EXCEPT !.at = "checked", !.checks = TRUE,
                                  !.nativeChanged = nativeChanged(p),
                                  !.hasChanges = hasChanges(p)]
      BY <1>1, <1>6 DEF PrepareChecks, check
    <2>2. nativeChanged(p) \in BOOLEAN /\ hasChanges(p) \in BOOLEAN
      BY DEF nativeChanged, hasChanges
    <2>3. /\ prep' \in Prepares /\ prep'.at = "checked" /\ prep'.platform = p
          /\ prep'.checks /\ prep'.nativeChanged = nativeChanged(p)
      BY <2>1, <2>2, <1>0, <1>1 DEF Prepares
    <2>4. /\ changesInfo' # None /\ prepareInfo' \in PrepareInfos /\ prepareInfo' # None
          /\ prepareInfo'.hash = IF info[p] # None /\ pluginsChanged(p) THEN info[p].hash
                                 ELSE sources[p].dependencies
          /\ now' \in {now, now + 1}
          /\ \A q \in Platforms : prepareInfo'.hash <= sources[q].dependencies
      BY <2>1, <1>0, CheckRemembers, NoneIsNothing
    <2>5. BuildTypes'
      BY <2>1, <2>3, <2>4, <1>0 DEF BuildTypes
    <2>6. TimesInv'
      <3>1. \A q \in Platforms : info[q] # None => info[q].mtime \in Nat
        BY <1>0 DEF BuildTypes, Infos
      <3> QED
        BY <3>1, <2>1, <2>4, <1>0 DEF TimesInv, BuildTypes
    <2>7. PrepareInv'
      BY <2>1, <2>3, <2>4, <1>0, <1>1 DEF PrepareInv
    <2>8. PreparedInv'
      <3> SUFFICES ASSUME p \notin excused, ~nativeChanged(p)
                   PROVE  UpToDate(p, {"plugins", "dependencies"})'
        BY <2>1, <2>3 DEF PreparedInv
      <3>1. /\ info[p] # None /\ ~(sources[p].plugins >= info[p].mtime)
            /\ info[p].hash = sources[p].dependencies
        BY DEF nativeChanged, pluginsChanged
      <3>2. \A k \in {"plugins", "dependencies"} : native[p][k] = sources[p][k]
        BY <3>1, <1>0 DEF Honest, Kinds
      <3> QED
        BY <3>2, <2>1 DEF UpToDate
    <2>9. \A q \in Platforms : Honest(q)'
      BY <2>1, <1>0 DEF Honest
    <2> QED
      BY <2>5, <2>6, <2>7, <2>8, <2>9 DEF HonestInv
  \* All is prepared, or nothing of it but the resources has changed.
  <1>7. CASE PrepareNative
    <2>1. /\ UNCHANGED <<now, sources, info, prepareInfo, changesInfo, watchers, visit,
                         excused>>
          /\ prep.at = "checked" /\ prepared("native")
          /\ native' = [native EXCEPT ![p] =
                 [k \in Kinds |-> IF k = "resources" \/ prep.nativeChanged
                                  THEN sources[p][k] ELSE native[p][k]]]
      BY <1>1, <1>7 DEF PrepareNative
    <2>2. /\ prep' \in Prepares /\ prep'.at = "native" /\ prep'.platform = p
          /\ prep'.checks
      BY <2>1, <1>0, <1>3 DEF PrepareInv
    <2>3. native[p] \in Projects
      BY <2>1, <1>0, <1>1, <1>2 DEF PrepareInv
    <2>4. /\ native' \in [Platforms -> Projects \union {None}] /\ native'[p] # None
          /\ \A k \in Kinds : native'[p][k] = IF k = "resources" \/ prep.nativeChanged
                                              THEN sources[p][k] ELSE native[p][k]
          /\ \A q \in Platforms : q # p => native'[q] = native[q]
      <3> DEFINE made == [k \in Kinds |-> IF k = "resources" \/ prep.nativeChanged
                                         THEN sources[p][k] ELSE native[p][k]]
      <3>1. made \in Projects
        BY <2>3, <1>2 DEF Projects
      <3>2. made # None
        BY <3>1, NoneIsNothing
      <3>3. native' = [native EXCEPT ![p] = made]
        BY <2>1
      <3>4. \A k \in Kinds : made[k] = IF k = "resources" \/ prep.nativeChanged
                                       THEN sources[p][k] ELSE native[p][k]
        OBVIOUS
      <3> HIDE DEF made
      <3> QED
        BY <3>1, <3>2, <3>3, <3>4, <1>0 DEF BuildTypes
    <2>5. BuildTypes'
      BY <2>1, <2>2, <2>4, <1>0 DEF BuildTypes
    <2>6. TimesInv' /\ PrepareInv'
      BY <2>1, <2>2, <2>4, <1>0 DEF TimesInv, PrepareInv
    <2>7. PreparedInv'
      <3> SUFFICES ASSUME p \notin excused PROVE UpToDate(p, Kinds)'
        BY <2>1, <2>2 DEF PreparedInv
      <3>1. prep.nativeChanged \/ UpToDate(p, {"plugins", "dependencies"})
        BY <2>1, <1>0, <1>1 DEF PreparedInv
      <3> QED
        BY <3>1, <2>1, <2>4 DEF UpToDate, Kinds
    <2>8. ASSUME NEW q \in Platforms PROVE Honest(q)'
      <3>1. CASE q = p
        BY <3>1, <2>1, <2>4, <1>0 DEF Honest, Kinds
      <3>2. CASE q # p
        BY <3>2, <2>1, <2>4, <1>0 DEF Honest
      <3> QED
        BY <3>1, <3>2
    <2> QED
      BY <2>5, <2>6, <2>7, <2>8 DEF HonestInv
  <1>8. CASE SetNativePlatformStatus
    <2>1. /\ UNCHANGED <<sources, native, prepareInfo, changesInfo, watchers, visit,
                         excused>>
          /\ prep.at = "native" /\ prepared("saving") /\ saved(p)
      BY <1>1, <1>8 DEF SetNativePlatformStatus
    <2>2. /\ prep' \in Prepares /\ prep'.at = "saving" /\ prep'.platform = p
          /\ prep'.checks = prep.checks
      BY <2>1, <1>3
    <2>3. /\ prep.checks /\ native[p] # None /\ prepareInfo # None /\ changesInfo # None
          /\ visit.at # "done"
      BY <2>1, <1>0, <1>1 DEF PrepareInv
    <2>4. p \notin excused => UpToDate(p, Kinds)
      BY <2>1, <1>0, <1>1 DEF PreparedInv
    <2> QED
      BY <2>1, <2>2, <2>3, <2>4, <1>0, <1>1, SavedIsHonest
  \* Without a check the platform is excused, or was up to date.
  <1>9. CASE SavePrepareInfo
    <2>1. /\ UNCHANGED <<sources, native, prepareInfo, changesInfo, watchers, visit>>
          /\ prep.at = "saving" /\ saved(p)
          /\ prep' = [NoPrepare EXCEPT !.at = "done", !.hasChanges = prep.hasChanges]
          /\ excused' = IF prepareInfo.about # p \/ (~prep.checks /\ hasChanges(p))
                        THEN excused \union {p} ELSE excused
      BY <1>1, <1>9 DEF SavePrepareInfo
    <2>2. prep' \in Prepares /\ prep'.at = "done"
      BY <2>1, <1>0, BuildAssumption DEF Prepares, NoPrepare
    <2>3. native[p] # None /\ prepareInfo # None /\ visit.at # "done"
      BY <2>1, <1>0, <1>1 DEF PrepareInv
    <2>4. p \notin excused' => UpToDate(p, Kinds)
      <3>1. CASE prep.checks
        BY <3>1, <2>1, <1>0, <1>1 DEF PreparedInv
      <3>2. CASE ~prep.checks
        <4> SUFFICES ASSUME p \notin excused, ~hasChanges(p)
                     PROVE  \A k \in Kinds : native[p][k] = sources[p][k]
          BY <2>1, <3>2 DEF UpToDate
        <4>1. /\ info[p] # None /\ ~(sources[p].plugins >= info[p].mtime)
              /\ ~(sources[p].resources >= info[p].mtime)
              /\ info[p].hash = sources[p].dependencies
          BY DEF hasChanges, nativeChanged, pluginsChanged, resourcesChanged
        <4> QED
          BY <4>1, <1>0 DEF Honest, Kinds
      <3> QED
        BY <3>1, <3>2
    <2> QED
      BY <2>1, <2>2, <2>3, <2>4, <1>0, <1>1, SavedIsHonest
  <1> QED
    BY <1>4, <1>5, <1>6, <1>7, <1>8, <1>9

\* No step makes the prepare info dishonest.
LEMMA HonestNext == HonestInv /\ [BuildNext]_buildVars => HonestInv'
  <1> SUFFICES ASSUME HonestInv, [BuildNext]_buildVars PROVE HonestInv'
    OBVIOUS
  <1> USE DEF onDisk, onDevices, memory, counters, call
  <1>0. /\ (CHOOSE d \in Devices : TRUE) \in Devices
        /\ (CHOOSE p \in Platforms : TRUE) \in Platforms
        /\ Template \in Projects
    BY BuildAssumption DEF Template, Projects
  <1>1. /\ NoPrepare \in Prepares /\ NoPrepare.at = "none" /\ ~NoPrepare.checks
        /\ NoVisit \in Visits /\ NoVisit.at = "none"
    BY <1>0 DEF NoPrepare, Prepares, NoVisit, Visits
  <1>2. ASSUME NEW p \in Platforms, NEW kinds \in Edits, FileChanges(p, kinds)
        PROVE  HonestInv'
    BY <1>2, ChangeStep
  <1>3. CASE StartCommand
    BY <1>1, <1>3, BetweenPrepares DEF StartCommand
  <1>4. CASE PrepareFails
    <2>1. visit' = NoVisit /\ (watchers' # {} => watchers # {})
      BY <1>4 DEF PrepareFails, deviceStops
    <2> QED
      BY <1>1, <1>4, <2>1, BetweenPrepares DEF PrepareFails
  <1>5. ASSUME NEW d \in Devices, VisitDevice(d) PROVE HonestInv'
    <2>1. sources[platformOf[targetOf[d]]] \in Projects
          /\ platformOf[targetOf[d]] \in Platforms
      BY BuildAssumption DEF HonestInv, BuildTypes
    <2>2. /\ prep' \in Prepares /\ prep'.at = "starting" /\ ~prep'.checks
          /\ visit' \in Visits /\ visit'.at # "done"
      BY <1>0, <1>5, <2>1 DEF VisitDevice, NoPrepare, Prepares, NoVisit, Visits
    <2> QED
      BY <1>5, <2>2, BetweenPrepares DEF VisitDevice
  <1>6. CASE UNCHANGED buildVars
    BY <1>6 DEF buildVars, HonestInv, BuildTypes, TimesInv, PrepareInv, PreparedInv,
       UpToDate, Honest
  <1> QED
    BY <1>2, <1>3, <1>4, <1>5, <1>6, DeviceStep, PrepareStep DEF BuildNext

(* The prepare info never vouches for a change the native project lacks,   *)
(* unless the change fell where the code is known to miss it.              *)
THEOREM InfoStaysHonest == BuildSpec => []InfoIsHonest
  <1>1. HonestInv => InfoIsHonest
    BY DEF HonestInv, Honest, InfoIsHonest
  <1> QED
    BY HonestStart, HonestNext, <1>1, PTL DEF BuildSpec

(***************************************************************************)
(* What the application on a device is made of                             *)
(***************************************************************************)
BuildInfos == [kind : {"build"}, prepareTime : Nat, buildTime : Nat]

FileTypes ==
    /\ package \in [Targets -> Projects \union {None}]
    /\ buildInfo \in [Targets -> BuildInfos \union {None}]
    /\ installed \in [Devices -> Projects \union {None}]
    /\ deviceInfo \in [Devices -> BuildInfos \union {None}]
    /\ initialInfo \in BuildInfos \union {None}
    /\ command \in {"run", "deploy"}
    /\ rebuilt \subseteq Targets /\ visited \subseteq Devices

\* The sources of kind k differ from what the prepare info of p tells.
Evident(p, k) == IF k = "dependencies" THEN info[p].hash # sources[p][k]
                                       ELSE sources[p][k] >= info[p].mtime

\* The code is that of the sources, but for changes the next check will see.
Current(code, p) ==
    code # None /\ \A k \in Kinds : code[k] = sources[p][k] \/ Evident(p, k)

\* The code has what the device that is visited is to get.
Enough(code) == code # None /\ \A k \in Kinds : code[k] >= visit.required[k]

\* The package has been built since the last prepare with changes.
Matches(t) ==
    /\ buildInfo[t] # None /\ info[platformOf[t]] # None
    /\ buildInfo[t].prepareTime = info[platformOf[t]].requireBuildTime

\* The application has been installed since the last build.
HasBuild(d) ==
    /\ deviceInfo[d] # None /\ buildInfo[targetOf[d]] # None
    /\ deviceInfo[d].buildTime = buildInfo[targetOf[d]].buildTime

StampsInv ==
    /\ \A p \in Platforms : info[p] # None =>
           /\ native[p] # None
           /\ info[p].time = info[p].requireBuildTime /\ info[p].time <= now
    /\ prepareInfo # None =>
           prepareInfo.time = prepareInfo.requireBuildTime /\ prepareInfo.time <= now
    /\ \A t \in Targets : buildInfo[t] # None =>
           buildInfo[t].prepareTime <= now /\ buildInfo[t].buildTime <= now
    /\ \A d \in Devices : deviceInfo[d] # None => deviceInfo[d].buildTime <= now

Underway == prep.at \notin {"none", "done"}

\* How the prepare and the visit it is for go together.
StageInv ==
    /\ Underway => visit.at \notin {"none", "done"} /\ prep.platform = platform
    /\ visit.at # "none" => prep.at # "none"
    /\ visit.at \in {"built", "installIfNeeded", "throws", "done"} => prep.at = "done"
    /\ visit.at # "none" /\ prep.at = "done" => info[platform] # None
    /\ visit.at # "none" => \A k \in Kinds : visit.required[k] <= sources[platform][k]
    /\ prep.checks => prep.at \in {"checked", "native", "saving"}
    /\ prep.hasChanges => prep.checks \/ prep.at = "done"
    /\ prep.checks => prepareInfo # None /\ prepareInfo.about = prep.platform
    /\ visit.at \in {"look", "ask"} => command = "run"
    /\ visit.at = "built" => package[target] = native[platform]
    /\ visit.at = "installed" => installed[visit.device] = package[target]

\* A prepare without changes keeps the time that builds are compared with; one
\* with changes gives a time no build has.
RememberedInv ==
    /\ \A p \in Platforms :
           prepareInfo # None /\ prepareInfo.about = p /\ ~hasChanges(p) =>
               prepareInfo.requireBuildTime = info[p].requireBuildTime
    /\ prep.checks /\ prep.hasChanges =>
           \A t \in Targets : platformOf[t] = prep.platform /\ buildInfo[t] # None =>
               buildInfo[t].prepareTime # prepareInfo.requireBuildTime
    /\ prep.checks /\ ~prep.hasChanges /\ prep.platform \notin excused =>
           /\ info[prep.platform] # None
           /\ prepareInfo.requireBuildTime = info[prep.platform].requireBuildTime
           /\ prepareInfo.hash = info[prep.platform].hash
           /\ ~resourcesChanged(prep.platform) /\ ~pluginsChanged(prep.platform)

\* What a call has built it need not build for its other devices: their platform
\* is watched, so that no prepare of theirs checks it again.
RebuiltInv ==
    command = "run" =>
        /\ visit.at # "none" /\ prep.at \in {"checked", "native", "saving", "done"} =>
               platform \in watchers
        /\ \A t \in rebuilt :
              /\ native[platformOf[t]] # None
              /\ platformOf[t] \notin watchers =>
                     /\ \A d \in Devices : platformOf[targetOf[d]] = platformOf[t] =>
                            d \in visited
                     /\ Underway => prep.platform # platformOf[t]
              /\ platformOf[t] \in watchers \ excused => Matches(t)
              /\ prep.checks => prep.platform # platformOf[t]
        /\ visit.at = "look" /\ target \in rebuilt => ~prep.hasChanges

BuiltInv ==
    \A t \in Targets : platformOf[t] \notin excused /\ Matches(t) =>
        /\ Current(package[t], platformOf[t])
        /\ \A d \in Devices : targetOf[d] = t /\ HasBuild(d) =>
               Current(installed[d], platformOf[t])

\* InstalledIsCurrent speaks of this visit.
Concerned == visit.at # "none" /\ ~visit.changed /\ platform \notin excused

NativeInv ==
    Concerned =>
        /\ prep.at = "checked" /\ ~prep.nativeChanged =>
               \A k \in {"plugins", "dependencies"} :
                   native[platform][k] >= visit.required[k]
        /\ prep.at \in {"native", "done"} \/ (prep.checks /\ prep.at = "saving") =>
               Enough(native[platform])

BothEnough ==
    /\ Enough(package[target])
    /\ HasBuild(visit.device) => Enough(installed[visit.device])

\* Why a package is not built, and an application not installed.
VisitInv ==
    /\ Concerned =>
        /\ /\ prep.checks \/ prep.at = "done"
           /\ ~prep.hasChanges /\ Matches(target)
           => BothEnough
        /\ visit.at = "ask" /\ ~visit.shouldBuild /\ ~prep.hasChanges => Matches(target)
        /\ visit.at = "installIfNeeded" /\ ~visit.waived => BothEnough
        /\ prep.at = "done" /\ ~visit.waived =>
              /\ visit.at = "install" => Enough(package[target])
              /\ visit.at \in {"installed", "sync", "done"} =>
                     Enough(installed[visit.device])
    /\ visit.at \in {"install", "installed", "sync"} /\ prep.at # "done" =>
           /\ command = "run" /\ target \in rebuilt
           /\ visit.at # "install" => installed[visit.device] = package[target]

CodeInv ==
    /\ HonestInv /\ FileTypes /\ StampsInv /\ StageInv /\ RememberedInv
    /\ RebuiltInv /\ BuiltInv /\ NativeInv /\ VisitInv

\* What the types say of the visit, the prepare and what they are about.
LEMMA CodeFacts ==
    ASSUME CodeInv
    PROVE  /\ BuildTypes /\ now \in Nat /\ visit \in Visits /\ prep \in Prepares
           /\ visit.device \in Devices /\ target \in Targets
           /\ platform \in Platforms /\ prep.platform \in Platforms
           /\ sources[platform] \in Projects /\ visit.required \in Projects
           /\ \A p \in Platforms : info[p] # None =>
                  /\ info[p] \in Infos /\ info[p].mtime \in Nat /\ info[p].hash \in Nat
                  /\ info[p].time \in Nat /\ info[p].requireBuildTime \in Nat
           /\ prepareInfo # None =>
                  /\ prepareInfo \in PrepareInfos /\ prepareInfo.about \in Platforms
                  /\ prepareInfo.time \in Nat /\ prepareInfo.requireBuildTime \in Nat
           /\ \A t \in Targets : buildInfo[t] # None =>
                  buildInfo[t] \in BuildInfos /\ buildInfo[t].prepareTime \in Nat
                  /\ buildInfo[t].buildTime \in Nat
           /\ \A p \in Platforms, k \in Kinds : sources[p][k] \in Nat
           /\ \A k \in Kinds : visit.required[k] \in Nat
  <1>1. BuildTypes /\ FileTypes BY DEF CodeInv, HonestInv
  <1>2. visit.device \in Devices /\ prep.platform \in Platforms
        /\ visit.required \in Projects
    BY <1>1 DEF BuildTypes, Visits, Prepares
  <1>3. target \in Targets /\ platform \in Platforms
    BY <1>2, BuildAssumption DEF target, platform
  <1>4. \A p \in Platforms : info[p] # None => info[p] \in Infos
    BY <1>1 DEF BuildTypes
  <1>5. prepareInfo # None => prepareInfo \in PrepareInfos
    BY <1>1 DEF BuildTypes
  <1>6. \A t \in Targets : buildInfo[t] # None => buildInfo[t] \in BuildInfos
    BY <1>1 DEF FileTypes
  <1>7. \A p \in Platforms : sources[p] \in Projects BY <1>1 DEF BuildTypes
  <1> QED
    BY <1>1, <1>2, <1>3, <1>4, <1>5, <1>6, <1>7
       DEF BuildTypes, Infos, PrepareInfos, BuildInfos, Projects

\* NoPrepare and NoVisit.
LEMMA Idle ==
    /\ NoPrepare \in Prepares /\ NoPrepare.at = "none"
    /\ ~NoPrepare.checks /\ ~NoPrepare.hasChanges
    /\ NoVisit \in Visits /\ NoVisit.at = "none"
    /\ ~NoVisit.changed /\ ~NoVisit.waived /\ ~NoVisit.shouldBuild
  <1>1. /\ (CHOOSE d \in Devices : TRUE) \in Devices
        /\ (CHOOSE p \in Platforms : TRUE) \in Platforms
        /\ Template \in Projects
    BY BuildAssumption DEF Template, Projects
  <1> QED BY <1>1 DEF NoPrepare, Prepares, NoVisit, Visits

LEMMA CodeStart == BuildInit => CodeInv
  <1> SUFFICES ASSUME BuildInit PROVE CodeInv OBVIOUS
  <1>1. HonestInv BY HonestStart
  <1>2. FileTypes /\ StampsInv BY DEF BuildInit, FileTypes, StampsInv
  <1>3. StageInv /\ RememberedInv /\ RebuiltInv /\ NativeInv /\ VisitInv
    BY Idle DEF BuildInit, StageInv, Underway, RememberedInv, RebuiltInv, NativeInv,
                VisitInv, Concerned
  <1>4. BuiltInv
    BY BuildAssumption DEF BuildInit, BuiltInv, Matches
  <1> QED BY <1>1, <1>2, <1>3, <1>4 DEF CodeInv

(***************************************************************************)
(* Steps on a device                                                       *)
(***************************************************************************)
\* What is built stays built, whatever else the CLI does.
LEMMA BuiltFrame ==
    ASSUME BuiltInv, UNCHANGED <<sources, info, package, buildInfo, installed, deviceInfo>>,
           excused \subseteq excused'
    PROVE  BuiltInv'
  BY DEF BuiltInv, Matches, HasBuild, Current, Evident

\* A check by the device, before the prepare has made its own or after it.
LEMMA CheckKeepsRemembered ==
    ASSUME CodeInv, NEW p \in Platforms, CheckForChanges(p),
           UNCHANGED <<sources, info>>
    PROVE  /\ prepareInfo'.time = prepareInfo'.requireBuildTime
           /\ prepareInfo'.requireBuildTime =
                  IF hasChanges(p) THEN now + 1 ELSE info[p].requireBuildTime
           /\ prepareInfo'.time <= now' /\ now' \in {now, now + 1}
           /\ prepareInfo'.about = p /\ prepareInfo' # None /\ changesInfo' # None
           /\ \A q \in Platforms : prepareInfo'.about = q /\ ~hasChanges(q)' =>
                  prepareInfo'.requireBuildTime = info'[q].requireBuildTime
  <1>1. BuildTypes /\ TimesInv /\ StampsInv /\ now \in Nat
    BY CodeFacts DEF CodeInv, HonestInv
  <1>2. /\ prepareInfo' \in PrepareInfos /\ prepareInfo' # None /\ changesInfo' # None
        /\ prepareInfo'.about = p
    BY <1>1, CheckRemembers, NoneIsNothing
  <1>3. ~hasChanges(p) => info[p] # None
    BY DEF hasChanges, resourcesChanged
  <1>4. hasChanges(p)' = hasChanges(p)
    BY DEF hasChanges, nativeChanged, pluginsChanged, resourcesChanged
  <1>5. /\ hasChanges(p) => /\ prepareInfo'.time = now + 1 /\ now' = now + 1
                            /\ prepareInfo'.requireBuildTime = now + 1
        /\ ~hasChanges(p) => /\ prepareInfo'.time = info[p].time /\ now' = now
                             /\ prepareInfo'.requireBuildTime = info[p].requireBuildTime
    BY DEF CheckForChanges
  <1>6. ~hasChanges(p) => info[p].time = info[p].requireBuildTime /\ info[p].time <= now
    BY <1>1, <1>3 DEF StampsInv
  <1> QED BY <1>1, <1>2, <1>4, <1>5, <1>6

\* The visit goes on, without touching a file or the prepare.
LEMMA VisitGoesOn ==
    ASSUME CodeInv, HonestInv', VisitInv',
           UNCHANGED <<sources, native, info, package, buildInfo, installed, deviceInfo,
                       command, watchers, prep, visited, rebuilt, excused>>,
           initialInfo' \in BuildInfos \union {None},
           visit.at # "none", visit'.at \notin {"none", "look", "built", "installed"},
           visit'.at = "ask" => visit.at = "look",
           visit'.at \in {"installIfNeeded", "throws", "done"} => prep.at = "done",
           visit' \in Visits, visit'.device = visit.device,
           \/ visit'.required = visit.required /\ visit'.changed = visit.changed
           \/ visit'.required = sources[platform] /\ visit'.changed,
           \/ UNCHANGED <<now, prepareInfo, changesInfo>>
           \/ /\ CheckForChanges(platform)
              /\ changesInfo = None \/ prep.at = "done"
    PROVE  CodeInv'
  <1>0. /\ FileTypes /\ StampsInv /\ StageInv /\ RememberedInv /\ RebuiltInv /\ BuiltInv
        /\ NativeInv /\ PrepareInv
    BY DEF CodeInv, HonestInv
  <1>1. UNCHANGED <<target, platform>> BY DEF target, platform
  <1>2. now \in Nat /\ platform \in Platforms /\ \A k \in Kinds : sources[platform][k] \in Nat
    BY CodeFacts
  <1>3. ASSUME ~UNCHANGED <<now, prepareInfo, changesInfo>>
        PROVE  /\ prepareInfo'.time = prepareInfo'.requireBuildTime
               /\ prepareInfo'.time <= now' /\ now' \in {now, now + 1}
               /\ ~prep.checks
               /\ \A q \in Platforms : prepareInfo'.about = q /\ ~hasChanges(q)' =>
                      prepareInfo'.requireBuildTime = info'[q].requireBuildTime
    <2>1. ~prep.checks
      BY <1>0, <1>3 DEF StageInv, PrepareInv
    <2> QED BY <1>2, <1>3, <2>1, CheckKeepsRemembered
  <1>4. FileTypes' BY <1>0 DEF FileTypes
  <1>5. StampsInv'
    <2>1. /\ \A p \in Platforms : info[p] # None => info[p].time \in Nat
          /\ prepareInfo # None => prepareInfo.time \in Nat
          /\ \A t \in Targets : buildInfo[t] # None =>
                buildInfo[t].prepareTime \in Nat /\ buildInfo[t].buildTime \in Nat
          /\ \A d \in Devices : deviceInfo[d] # None => deviceInfo[d].buildTime \in Nat
      BY <1>0, CodeFacts DEF FileTypes, BuildInfos
    <2>2. CASE UNCHANGED <<now, prepareInfo>>
      BY <1>0, <2>2 DEF StampsInv
    <2>3. CASE ~UNCHANGED <<now, prepareInfo, changesInfo>>
      BY <1>0, <1>2, <1>3, <2>1, <2>3 DEF StampsInv
    <2> QED BY <2>2, <2>3
  <1>6. StageInv'
    BY <1>0, <1>1, <1>2, <1>3 DEF StageInv, Underway
  <1>7. RememberedInv'
    <2>1. \A p \in Platforms : /\ hasChanges(p)' = hasChanges(p)
                               /\ resourcesChanged(p)' = resourcesChanged(p)
                               /\ pluginsChanged(p)' = pluginsChanged(p)
      BY DEF hasChanges, nativeChanged, pluginsChanged, resourcesChanged
    <2>2. CASE UNCHANGED prepareInfo
      BY <1>0, <2>1, <2>2, CodeFacts DEF RememberedInv
    <2>3. CASE ~UNCHANGED <<now, prepareInfo, changesInfo>>
      BY <1>3, <2>3 DEF RememberedInv
    <2> QED BY <2>2, <2>3
  <1>8. RebuiltInv'
    BY <1>0, <1>1 DEF RebuiltInv, Underway, Matches
  <1>9. BuiltInv' BY <1>0, BuiltFrame
  <1>10. NativeInv'
    BY <1>0, <1>1 DEF NativeInv, Concerned, Enough
  <1> QED BY <1>4, <1>5, <1>6, <1>7, <1>8, <1>9, <1>10 DEF CodeInv

\* The device's own steps that touch no file but for what they ask.
LEMMA VisitSteps ==
    ASSUME CodeInv, HonestInv',
           \/ LooksForPackage \/ AskDeveloper \/ InstallIfNeeded \/ Synced
           \/ SyncChangedData
    PROVE  CodeInv'
  <1>0. /\ FileTypes /\ StageInv /\ RebuiltInv /\ VisitInv /\ BuiltInv /\ RememberedInv
        /\ visit \in Visits /\ PrepareInv /\ StampsInv
    BY CodeFacts DEF CodeInv, HonestInv
  <1> DEFINE d == visit.device
             t == target
             p == platform
  <1>1. /\ d \in Devices /\ t \in Targets /\ p \in Platforms /\ p = platformOf[t]
        /\ t = targetOf[d] /\ sources[p] \in Projects
    BY CodeFacts DEF platform, target
  <1>2. ASSUME visit'.device = visit.device
        PROVE  UNCHANGED <<target, platform>>
    BY <1>2 DEF target, platform
  <1> USE DEF onDisk, onDevices, memory, counters, call
  \* Without a build the package is that of the last prepare with changes.
  <1>3. CASE LooksForPackage
    <2>1. /\ UNCHANGED <<sources, native, info, package, buildInfo, installed, deviceInfo,
                         command, watchers, prep, visited, rebuilt, excused, initialInfo>>
          /\ visit.at = "look"
          /\ \/ UNCHANGED <<now, prepareInfo, changesInfo>>
             \/ CheckForChanges(p) /\ changesInfo = None
      BY <1>3 DEF LooksForPackage
    <2>2. /\ visit' \in Visits /\ visit'.device = d /\ visit'.required = visit.required
          /\ visit'.changed = visit.changed /\ visit'.waived = visit.waived
          /\ \/ visit'.at = "install" /\ t \in rebuilt
             \/ visit'.at = "build"
             \/ /\ visit'.at = "ask"
                /\ visit'.shouldBuild = requiresBuild(p, t, changesInfo')
      <3>1. requiresBuild(p, t, changesInfo') \in BOOLEAN
        BY DEF requiresBuild
      <3>2. CASE t \in rebuilt
        BY <1>0, <1>3, <3>2 DEF LooksForPackage, goOn, Visits
      <3>3. CASE t \notin rebuilt /\ package[t] = None
        BY <1>0, <1>3, <3>3 DEF LooksForPackage, goOn, Visits
      <3>4. CASE t \notin rebuilt /\ package[t] # None
        <4>1. visit' = [visit EXCEPT !.at = "ask",
                            !.shouldBuild = requiresBuild(p, t, changesInfo')]
          BY <1>3, <3>4 DEF LooksForPackage
        <4> QED BY <4>1, <3>1, <1>0 DEF Visits
      <3> QED BY <3>2, <3>3, <3>4
    <2>3. visit'.at = "ask" /\ ~visit'.shouldBuild => Matches(t)
      <3>1. info[p] # None => info[p].time = info[p].requireBuildTime
        BY <1>0, <1>1 DEF StampsInv
      <3> QED BY <1>1, <2>2, <3>1 DEF requiresBuild, Matches
    <2>4. VisitInv'
      <3>1. Concerned' = Concerned BY <1>2, <2>1, <2>2 DEF Concerned
      <3>2. /\ Matches(t)' = Matches(t) /\ BothEnough' = BothEnough
            /\ Enough(package[t])' = Enough(package[t])
        BY <1>2, <2>1, <2>2 DEF Matches, BothEnough, Enough, HasBuild
      <3>3. command = "run" BY <1>0, <2>1 DEF StageInv
      <3>4. ASSUME visit'.at = "install", prep.at = "done", Concerned
            PROVE  Enough(package[t])
        <4>1. p \in watchers /\ ~prep.hasChanges /\ Matches(t)
          BY <1>1, <2>1, <2>2, <3>3, <3>4, <1>0 DEF RebuiltInv, Concerned
        <4> QED BY <4>1, <3>4, <1>0 DEF VisitInv, BothEnough
      <3> QED BY <1>0, <1>2, <2>1, <2>2, <2>3, <3>1, <3>2, <3>3, <3>4 DEF VisitInv
    <2> QED BY <1>0, <2>1, <2>2, <2>4, VisitGoesOn DEF FileTypes
  <1>4. CASE AskDeveloper
    <2>1. /\ UNCHANGED <<sources, native, info, package, buildInfo, installed, deviceInfo,
                         command, watchers, prep, visited, rebuilt, excused, initialInfo,
                         now, prepareInfo, changesInfo>>
          /\ visit.at = "ask" /\ prep.at = "done"
      BY <1>4 DEF AskDeveloper
    <2>2. /\ visit' \in Visits /\ visit'.device = d /\ visit'.required = visit.required
          /\ visit'.changed = visit.changed
          /\ \/ visit'.at = "build"
             \/ visit'.at = "installIfNeeded" /\ visit'.waived
             \/ /\ visit'.at = "installIfNeeded" /\ visit'.waived = visit.waived
                /\ ~visit.shouldBuild /\ ~prep.hasChanges
      BY <1>0, <1>4 DEF AskDeveloper, goOn, Visits
    <2>3. VisitInv'
      <3>1. Concerned' = Concerned BY <1>2, <2>1, <2>2 DEF Concerned
      <3>2. Matches(t)' = Matches(t) /\ BothEnough' = BothEnough
        BY <1>2, <2>1, <2>2 DEF Matches, BothEnough, Enough, HasBuild
      <3> QED BY <1>0, <1>2, <2>1, <2>2, <3>1, <3>2 DEF VisitInv
    <2> QED BY <1>0, <2>1, <2>2, <2>3, VisitGoesOn DEF FileTypes
  \* An application with the build info of the package is of that build.
  <1>5. CASE InstallIfNeeded
    <2>1. /\ UNCHANGED <<sources, native, info, package, buildInfo, installed, deviceInfo,
                         command, watchers, prep, visited, rebuilt, excused, now,
                         prepareInfo, changesInfo>>
          /\ visit.at = "installIfNeeded" /\ prep.at = "done"
      BY <1>0, <1>5 DEF InstallIfNeeded, StageInv
    <2> DEFINE own == deviceInfo[d]
               known == IF initialInfo # None THEN initialInfo ELSE own
    <2>2. own \in BuildInfos \union {None} /\ initialInfo \in BuildInfos \union {None}
      BY <1>0, <1>1 DEF FileTypes
    <2>3. /\ visit' \in Visits /\ visit'.device = d /\ visit'.required = visit.required
          /\ visit'.changed = visit.changed
          /\ initialInfo' \in {initialInfo, known, None}
          /\ \/ visit'.at \in {"install", "throws"} /\ visit'.waived = visit.waived
             \/ /\ visit'.at = "sync"
                /\ visit'.waived \/ (visit'.waived = visit.waived /\ HasBuild(d))
      <3>1. CASE installed[d] = None
        BY <1>0, <1>5, <3>1 DEF InstallIfNeeded, goOn, Visits
      <3>2. CASE installed[d] # None /\ (known = None \/ buildInfo[t] = None)
        BY <1>0, <1>5, <3>2 DEF InstallIfNeeded, goOn, Visits
      <3>3. CASE installed[d] # None /\ known # None /\ buildInfo[t] # None
        <4>1. CASE known.buildTime # buildInfo[t].buildTime
          BY <1>0, <1>5, <3>3, <4>1 DEF InstallIfNeeded, goOn, Visits
        <4>2. CASE known.buildTime = buildInfo[t].buildTime
          <5>1. /\ visit' = [visit EXCEPT !.at = "sync",
                                          !.waived = @ \/ known # own]
                /\ initialInfo' = known
            BY <1>5, <3>3, <4>2 DEF InstallIfNeeded
          <5>2. known = own => HasBuild(d)
            BY <1>1, <3>3, <4>2 DEF HasBuild
          <5> HIDE DEF known, own
          <5>3. visit.waived \in BOOLEAN BY <1>0 DEF Visits
          <5>4. (visit.waived \/ known # own) \in BOOLEAN BY <5>3
          <5>5. /\ visit' \in Visits /\ visit'.device = d
                /\ visit'.required = visit.required
                /\ visit'.changed = visit.changed /\ visit'.at = "sync"
                /\ visit'.waived = (visit.waived \/ known # own)
            BY <1>0, <5>1, <5>4 DEF Visits
          <5> QED BY <5>1, <5>2, <5>3, <5>5
        <4> QED BY <4>1, <4>2
      <3> QED BY <3>1, <3>2, <3>3
    <2>4. initialInfo' \in BuildInfos \union {None} BY <2>2, <2>3
    <2>5. VisitInv'
      <3>1. Concerned' = Concerned BY <1>2, <2>1, <2>3 DEF Concerned
      <3>2. /\ Matches(t)' = Matches(t) /\ BothEnough' = BothEnough
            /\ Enough(package[t])' = Enough(package[t])
            /\ Enough(installed[d])' = Enough(installed[d])
        BY <1>2, <2>1, <2>3 DEF Matches, BothEnough, Enough, HasBuild
      <3>3. Concerned /\ ~visit'.waived /\ ~visit.waived =>
                /\ Enough(package[t])
                /\ HasBuild(d) => Enough(installed[d])
        BY <1>0, <2>1 DEF VisitInv, BothEnough
      <3>4. visit'.waived \/ visit'.waived = visit.waived BY <2>3
      <3>5. UNCHANGED target /\ visit'.device = d
        BY <1>2, <2>3
      <3>6. Concerned /\ Matches(t) /\ ~prep.hasChanges => BothEnough
        BY <1>0, <2>1 DEF VisitInv
      <3> QED
        BY <2>1, <2>3, <3>1, <3>2, <3>3, <3>4, <3>5, <3>6 DEF VisitInv
    <2> QED BY <1>0, <2>1, <2>3, <2>4, <2>5, VisitGoesOn
  <1>6. CASE Synced
    <2>1. /\ UNCHANGED <<sources, native, info, package, buildInfo, installed, deviceInfo,
                         command, watchers, prep, visited, rebuilt, excused, initialInfo,
                         now, prepareInfo, changesInfo>>
          /\ visit.at = "sync" /\ prep.at = "done"
      BY <1>6 DEF Synced
    <2>2. /\ visit' \in Visits /\ visit'.device = d /\ visit'.required = visit.required
          /\ visit'.changed = visit.changed /\ visit'.waived = visit.waived
          /\ visit'.at = "done"
      BY <1>0, <1>6 DEF Synced, goOn, Visits
    <2>3. VisitInv'
      <3>1. Concerned' = Concerned BY <1>2, <2>1, <2>2 DEF Concerned
      <3>2. /\ Matches(t)' = Matches(t) /\ BothEnough' = BothEnough
            /\ Enough(installed[d])' = Enough(installed[d])
        BY <1>2, <2>1, <2>2 DEF Matches, BothEnough, Enough, HasBuild
      <3> QED BY <1>0, <1>2, <2>1, <2>2, <3>1, <3>2 DEF VisitInv
    <2> QED BY <1>0, <2>1, <2>2, <2>3, VisitGoesOn DEF FileTypes
  <1>7. CASE SyncChangedData
    <2>1. /\ UNCHANGED <<sources, native, info, package, buildInfo, installed, deviceInfo,
                         command, watchers, prep, visited, rebuilt, excused, initialInfo>>
          /\ visit.at = "done" /\ prep.at = "done" /\ CheckForChanges(p)
      BY <1>0, <1>7 DEF SyncChangedData, StageInv
    <2>2. /\ visit' \in Visits /\ visit'.device = d /\ visit'.required = sources[p]
          /\ visit'.changed /\ visit'.at \in {"installIfNeeded", "sync"}
      BY <1>0, <1>1, <1>7 DEF SyncChangedData, Visits
    <2>3. VisitInv' BY <2>1, <2>2 DEF VisitInv, Concerned
    <2> QED BY <1>0, <2>1, <2>2, <2>3, VisitGoesOn DEF FileTypes
  <1> QED BY <1>3, <1>4, <1>5, <1>6, <1>7

(***************************************************************************)
(* Visits begin and end, files change                                      *)
(***************************************************************************)
\* A visit is over before it is done, and the prepare with it.
LEMMA VisitEnds ==
    ASSUME CodeInv, HonestInv',
           UNCHANGED <<now, sources, native, info, package, buildInfo, installed,
                       deviceInfo, excused>>,
           visit' = NoVisit, prep' = NoPrepare \/ (UNCHANGED prep /\ prep.at = "done"),
           prepareInfo' \in {prepareInfo, None},
           FileTypes', RebuiltInv'
    PROVE  CodeInv'
  <1>0. /\ StampsInv /\ StageInv /\ RememberedInv /\ BuiltInv
    BY DEF CodeInv
  <1>1. visit'.at = "none" /\ prep'.at \in {"none", "done"} /\ ~prep'.checks
        /\ (prep'.hasChanges => prep'.at = "done")
    BY <1>0, Idle DEF StageInv
  <1>2. StampsInv' BY <1>0 DEF StampsInv
  <1>3. StageInv' BY <1>1 DEF StageInv, Underway
  <1>4. RememberedInv'
    BY <1>0, <1>1 DEF RememberedInv, hasChanges, nativeChanged, pluginsChanged,
                      resourcesChanged
  <1>5. BuiltInv' BY <1>0, BuiltFrame
  <1>6. NativeInv' /\ VisitInv' BY <1>1 DEF NativeInv, VisitInv, Concerned
  <1> QED BY <1>2, <1>3, <1>4, <1>5, <1>6 DEF CodeInv

\* A command begins; a prepare or a visit fails.
LEMMA VisitsEnd ==
    ASSUME CodeInv, HonestInv', StartCommand \/ PrepareFails \/ VisitFails
    PROVE  CodeInv'
  <1>0. FileTypes /\ StageInv /\ RebuiltInv BY DEF CodeInv
  <1>1. visit \in Visits /\ platform \in Platforms /\ prep.platform \in Platforms
    BY CodeFacts
  <1> USE DEF onDisk, onDevices, memory, counters, call
  <1>2. CASE StartCommand
    <2>1. FileTypes' BY <1>0, <1>2 DEF StartCommand, FileTypes
    <2>2. RebuiltInv'
      BY <1>2, Idle DEF StartCommand, RebuiltInv
    <2> QED BY <1>2, <2>1, <2>2, VisitEnds DEF StartCommand
  \* The watchers of a platform are closed when no other device of it is left.
  <1>3. ASSUME NEW q \in Platforms, deviceStops(q), UNCHANGED <<command, native, info,
               buildInfo, rebuilt, excused>>,
               prep' = NoPrepare \/ (UNCHANGED prep /\ prep.at = "done")
        PROVE  RebuiltInv' /\ visited' \subseteq Devices
    <2>1. visit' = NoVisit /\ visit'.at = "none" /\ prep'.at \in {"none", "done"}
          /\ ~prep'.checks
      BY <1>0, <1>3, Idle DEF deviceStops, StageInv
    <2>2. \A t \in rebuilt : Matches(t)' = Matches(t)
      BY <1>3 DEF Matches
    <2>3. PICK closed \in {{}, {q}, Platforms} :
             /\ watchers' = watchers \ closed
             /\ visited' = visited \union
                               {d \in Devices : platformOf[targetOf[d]] \in closed}
      BY <1>3 DEF deviceStops
    <2> QED
      BY <1>0, <1>3, <2>1, <2>2, <2>3 DEF RebuiltInv, FileTypes, Underway
  <1>4. CASE PrepareFails
    <2>1. RebuiltInv' /\ visited' \subseteq Devices
      BY <1>1, <1>3, <1>4 DEF PrepareFails
    <2>2. FileTypes' BY <1>0, <1>4, <2>1 DEF PrepareFails, FileTypes
    <2> QED BY <1>4, <2>1, <2>2, VisitEnds DEF PrepareFails, deviceStops
  <1>5. CASE VisitFails
    <2>1. RebuiltInv' /\ visited' \subseteq Devices
      BY <1>1, <1>3, <1>5 DEF VisitFails
    <2>2. FileTypes' BY <1>0, <1>5, <2>1 DEF VisitFails, FileTypes
    <2> QED BY <1>5, <2>1, <2>2, VisitEnds DEF VisitFails, deviceStops
  <1> QED BY <1>2, <1>4, <1>5

\* The next device; one of a platform whose watchers were closed is of another call.
LEMMA VisitBegins ==
    ASSUME CodeInv, HonestInv', NEW e \in Devices, VisitDevice(e)
    PROVE  CodeInv'
  <1> DEFINE q == platformOf[targetOf[e]]
  <1>0. /\ FileTypes /\ StampsInv /\ StageInv /\ RememberedInv /\ RebuiltInv /\ BuiltInv
        /\ BuildTypes
    BY CodeFacts DEF CodeInv
  <1>1. q \in Platforms /\ targetOf[e] \in Targets /\ sources[q] \in Projects
        /\ \A k \in Kinds : sources[q][k] \in Nat
    BY BuildAssumption, CodeFacts DEF BuildTypes
  <1>2. /\ UNCHANGED <<now, sources, native, info, package, buildInfo, installed,
                       deviceInfo, command, prepareInfo, changesInfo, watchers,
                       initialInfo, excused>>
        /\ prep.at \in {"none", "done"}
        /\ \/ e \notin visited /\ visited' = visited \union {e} /\ UNCHANGED rebuilt
           \/ visited' = {e} /\ rebuilt' = {}
    BY DEF VisitDevice, onDisk, onDevices, memory
  <1>3. /\ prep'.at = "starting" /\ prep'.platform = q
        /\ ~prep'.checks /\ ~prep'.hasChanges
    BY <1>1, Idle DEF VisitDevice, Prepares
  <1>4. /\ visit'.device = e /\ visit'.required = sources[q]
        /\ visit'.at = IF command = "deploy" THEN "build" ELSE "look"
    BY <1>1, Idle DEF VisitDevice, Visits
  <1>5. target' = targetOf[e] /\ platform' = q BY <1>4 DEF target, platform
  <1>6. FileTypes' BY <1>0, <1>2 DEF FileTypes
  <1>7. StampsInv' BY <1>0, <1>2 DEF StampsInv
  <1>8. StageInv'
    <2>1. \A k \in Kinds : sources[q][k] <= sources[q][k] BY <1>1
    <2> QED BY <1>0, <1>2, <1>3, <1>4, <1>5, <2>1 DEF StageInv, Underway, FileTypes
  <1>9. RememberedInv'
    BY <1>0, <1>2, <1>3 DEF RememberedInv, hasChanges, nativeChanged, pluginsChanged,
                            resourcesChanged
  <1>10. RebuiltInv'
    <2>1. \A t \in rebuilt : Matches(t)' = Matches(t)
      BY <1>2 DEF Matches
    <2>2. CASE rebuilt' = {}
      BY <1>3, <1>4, <2>2 DEF RebuiltInv
    <2>3. CASE e \notin visited /\ visited' = visited \union {e} /\ UNCHANGED rebuilt
      BY <1>0, <1>2, <1>3, <1>4, <2>1, <2>3 DEF RebuiltInv
    <2> QED BY <1>2, <2>2, <2>3
  <1>11. BuiltInv' BY <1>0, <1>2, BuiltFrame
  <1>12. NativeInv' /\ VisitInv'
    BY <1>3, <1>4 DEF NativeInv, VisitInv
  <1> QED BY <1>6, <1>7, <1>8, <1>9, <1>10, <1>11, <1>12 DEF CodeInv

\* A change is seen by the next check, or falls into the window that excuses it.
LEMMA ChangeKeepsCodeInv ==
    ASSUME CodeInv, HonestInv', NEW p \in Platforms, NEW kinds \in Edits,
           FileChanges(p, kinds)
    PROVE  CodeInv'
  <1>0. /\ FileTypes /\ StampsInv /\ StageInv /\ RememberedInv /\ RebuiltInv /\ BuiltInv
        /\ NativeInv /\ VisitInv /\ BuildTypes /\ TimesInv
    BY CodeFacts DEF CodeInv, HonestInv
  <1>1. PICK x \in {now, now + 1} :
            /\ \A k \in kinds : x > sources[p][k]
            /\ now' = x
            /\ sources' = [q \in Platforms |-> [k \in Kinds |->
                   IF k \in kinds /\ (q = p \/ k = "dependencies") THEN x
                   ELSE sources[q][k]]]
    BY DEF FileChanges
  <1>2. /\ UNCHANGED <<native, info, package, buildInfo, installed, deviceInfo, command,
                       prepareInfo, changesInfo, watchers, initialInfo, prep, visit,
                       visited, rebuilt>>
        /\ excused' = IF /\ kinds # {"dependencies"}
                         /\ prep.platform = p
                         /\ prep.at \in {"checked", "native", "saving"}
                      THEN excused \union {p} ELSE excused
        /\ kinds \subseteq Kinds
    BY BuildAssumption DEF FileChanges, onDisk, onDevices, memory, call, Kinds
  <1>3. x \in Nat /\ now \in Nat /\ now <= x BY <1>1, CodeFacts
  <1>4. \A q \in Platforms, k \in Kinds :
            /\ sources[q][k] \in Nat
            /\ sources'[q][k] = IF k \in kinds /\ (q = p \/ k = "dependencies") THEN x
                                ELSE sources[q][k]
    BY <1>1, CodeFacts
  <1>5. "dependencies" \in kinds =>
            \A q \in Platforms : x > sources[q]["dependencies"]
    BY <1>0, <1>1 DEF TimesInv
  <1>6. \A q \in Platforms : info[q] # None =>
            /\ info[q].mtime \in Nat /\ info[q].hash \in Nat /\ info[q].mtime <= now
            /\ info[q].hash <= sources[q]["dependencies"]
    BY <1>0, CodeFacts DEF TimesInv
  <1>7. UNCHANGED <<target, platform>> BY <1>2 DEF target, platform
  \* What the sources differ in, they go on differing in.
  <1>8. \A q \in Platforms, k \in Kinds : info[q] # None =>
            \/ sources'[q][k] = sources[q][k] /\ Evident(q, k)' = Evident(q, k)
            \/ Evident(q, k)'
    <2> SUFFICES ASSUME NEW q \in Platforms, NEW k \in Kinds, info[q] # None,
                        sources'[q][k] # sources[q][k]
                 PROVE  Evident(q, k)'
      BY <1>2 DEF Evident
    <2>1. sources'[q][k] = x /\ k \in kinds /\ (q = p \/ k = "dependencies")
      BY <1>4
    <2>2. info[q].mtime \in Nat /\ info[q].hash \in Nat /\ info[q].mtime <= now
          /\ info[q].hash <= sources[q]["dependencies"]
      BY <1>6
    <2>3. CASE k = "dependencies"
      <3>1. x > sources[q]["dependencies"] /\ sources[q]["dependencies"] \in Nat
        BY <1>4, <1>5, <2>1, <2>3
      <3>2. info[q].hash # x BY <1>3, <2>2, <3>1
      <3> QED BY <1>2, <2>1, <2>3, <3>2 DEF Evident
    <2>4. CASE k # "dependencies"
      <3>1. x >= info[q].mtime BY <1>3, <2>2
      <3> QED BY <1>2, <2>1, <2>4, <3>1 DEF Evident
    <2> QED BY <2>3, <2>4
  <1>9. \A q \in Platforms : hasChanges(q) => hasChanges(q)'
    <2> SUFFICES ASSUME NEW q \in Platforms, hasChanges(q), info[q] # None
                 PROVE  hasChanges(q)'
      BY <1>2 DEF hasChanges, resourcesChanged
    <2>1. PICK k \in Kinds : Evident(q, k)
      BY DEF hasChanges, nativeChanged, pluginsChanged, resourcesChanged, Evident, Kinds
    <2>2. Evident(q, k)' BY <1>8, <2>1
    <2> QED
      BY <2>2 DEF hasChanges, nativeChanged, pluginsChanged, resourcesChanged, Evident, Kinds
  <1>10. \A t \in Targets : Matches(t)' = Matches(t) BY <1>2 DEF Matches
  <1>11. \A d \in Devices : HasBuild(d)' = HasBuild(d) BY <1>2 DEF HasBuild
  <1>12. excused \subseteq excused' BY <1>2
  <1>13. \A code : Enough(code)' = Enough(code) BY <1>2 DEF Enough
  <1>14. FileTypes' BY <1>0, <1>2 DEF FileTypes
  <1>15. StampsInv'
    <2>1. /\ \A q \in Platforms : info[q] # None => info[q].time \in Nat
          /\ prepareInfo # None => prepareInfo.time \in Nat
          /\ \A t \in Targets : buildInfo[t] # None =>
                buildInfo[t].prepareTime \in Nat /\ buildInfo[t].buildTime \in Nat
          /\ \A d \in Devices : deviceInfo[d] # None => deviceInfo[d].buildTime \in Nat
      BY <1>0, CodeFacts DEF FileTypes, BuildInfos
    <2> QED BY <1>0, <1>1, <1>2, <1>3, <2>1 DEF StampsInv
  <1>16. StageInv'
    <2>1. \A q \in Platforms, k \in Kinds : sources[q][k] <= sources'[q][k]
      <3> SUFFICES ASSUME NEW q \in Platforms, NEW k \in Kinds
                   PROVE  sources[q][k] <= sources'[q][k]
        OBVIOUS
      <3>1. k \in kinds /\ (q = p \/ k = "dependencies") => x > sources[q][k]
        BY <1>1, <1>5
      <3> QED BY <1>3, <1>4, <3>1
    <2>2. \A k \in Kinds : visit.at # "none" => visit.required[k] <= sources'[platform][k]
      <3> SUFFICES ASSUME NEW k \in Kinds, visit.at # "none"
                   PROVE  visit.required[k] <= sources'[platform][k]
        OBVIOUS
      <3>1. /\ visit.required[k] \in Nat /\ sources[platform][k] \in Nat
            /\ platform \in Platforms
        BY CodeFacts
      <3>2. sources'[platform][k] \in Nat BY <1>3, <1>4, <3>1
      <3> QED BY <1>0, <2>1, <3>1, <3>2 DEF StageInv
    <2> QED BY <1>0, <1>2, <1>7, <2>2 DEF StageInv, Underway
  <1>17. RememberedInv'
    <2>1. ASSUME prep.checks, ~prep.hasChanges, prep.platform \notin excused'
          PROVE  ~resourcesChanged(prep.platform)' /\ ~pluginsChanged(prep.platform)'
      <3> DEFINE q == prep.platform
      <3>1. q \in Platforms /\ info[q] # None
            /\ ~resourcesChanged(q) /\ ~pluginsChanged(q)
        BY <1>0, <1>12, <2>1, CodeFacts DEF RememberedInv
      <3>2. prep.at \in {"checked", "native", "saving"} BY <1>0, <2>1 DEF StageInv
      <3>3. q = p => kinds = {"dependencies"} BY <1>2, <2>1, <3>2
      <3>4. \A k \in {"resources", "plugins"} : sources'[q][k] = sources[q][k]
        BY <1>4, <3>1, <3>3 DEF Kinds
      <3> QED BY <1>2, <3>1, <3>4 DEF resourcesChanged, pluginsChanged
    <2> QED BY <1>0, <1>2, <1>9, <1>12, <2>1 DEF RememberedInv
  <1>18. RebuiltInv'
    <2>1. rebuilt \subseteq Targets BY <1>0 DEF FileTypes
    <2> QED BY <1>0, <1>2, <1>7, <1>10, <1>12, <2>1 DEF RebuiltInv, Underway
  <1>19. BuiltInv'
    <2> SUFFICES ASSUME NEW t \in Targets, platformOf[t] \notin excused', Matches(t)
                 PROVE  /\ Current(package[t], platformOf[t])'
                        /\ \A d \in Devices : targetOf[d] = t /\ HasBuild(d) =>
                               Current(installed[d], platformOf[t])'
      BY <1>10, <1>11 DEF BuiltInv
    <2>2. /\ platformOf[t] \in Platforms /\ info[platformOf[t]] # None
          /\ platformOf[t] \notin excused
      BY <1>12, BuildAssumption DEF Matches
    <2>3. /\ Current(package[t], platformOf[t])
          /\ \A d \in Devices : targetOf[d] = t /\ HasBuild(d) =>
                 Current(installed[d], platformOf[t])
      BY <1>0, <2>2 DEF BuiltInv
    <2>4. package' = package /\ installed' = installed BY <1>2
    <2>6. Current(package[t], platformOf[t])'
      BY <2>2, <2>3, <2>4, <1>8 DEF Current
    <2>7. ASSUME NEW d \in Devices, targetOf[d] = t, HasBuild(d)
          PROVE  Current(installed[d], platformOf[t])'
      BY <2>2, <2>3, <2>4, <2>7, <1>8 DEF Current
    <2> QED BY <2>6, <2>7
  <1>20. NativeInv'
    BY <1>0, <1>2, <1>7, <1>12 DEF NativeInv, Concerned, Enough
  <1>21. VisitInv'
    <2>1. target \in Targets /\ visit.device \in Devices BY CodeFacts
    <2>2. Concerned' => Concerned BY <1>2, <1>7, <1>12 DEF Concerned
    <2>3. BothEnough' = BothEnough BY <1>2, <1>7 DEF BothEnough, Enough, HasBuild
    <2>4. /\ Enough(package[target])' = Enough(package[target])
          /\ Enough(installed[visit.device])' = Enough(installed[visit.device])
          /\ Matches(target)' = Matches(target)
      BY <1>2, <1>7 DEF Enough, Matches
    <2> QED BY <1>0, <1>2, <1>7, <2>2, <2>3, <2>4 DEF VisitInv
  <1> QED
    BY <1>14, <1>15, <1>16, <1>17, <1>18, <1>19, <1>20, <1>21 DEF CodeInv

(***************************************************************************)
(* Building and installing                                                 *)
(***************************************************************************)
\* A package is built of what was prepared; it is installed as it was built.
LEMMA BuildSteps ==
    ASSUME CodeInv, HonestInv', BuildProject \/ SaveLocalBuildInfo
    PROVE  CodeInv'
  <1> DEFINE t == target
             p == platform
  <1>0. /\ FileTypes /\ StampsInv /\ StageInv /\ RememberedInv /\ RebuiltInv /\ BuiltInv
        /\ NativeInv /\ VisitInv /\ BuildTypes /\ visit \in Visits /\ now \in Nat
        /\ Honest(p)
    BY CodeFacts DEF CodeInv, HonestInv
  <1>1. /\ t \in Targets /\ p \in Platforms /\ p = platformOf[t]
        /\ visit.device \in Devices /\ targetOf[visit.device] = t
        /\ native[p] \in Projects \union {None}
    BY CodeFacts DEF platform, target, BuildTypes
  <1> USE DEF onDisk, onDevices, memory, counters, call
  <1>2. /\ UNCHANGED <<sources, native, info, installed, deviceInfo, command, prepareInfo,
                       changesInfo, watchers, initialInfo, prep, visited, excused>>
        /\ prep.at = "done" /\ visit.at \in {"build", "built"}
        /\ visit' \in Visits /\ visit'.device = visit.device
        /\ visit'.required = visit.required /\ visit'.changed = visit.changed
        /\ visit'.waived = visit.waived
        /\ visit'.at \in {"built", "install", "installIfNeeded"}
    BY <1>0 DEF BuildProject, SaveLocalBuildInfo, goOn, Visits, StageInv
  <1>3. UNCHANGED <<target, platform>> /\ Concerned' = Concerned
        /\ (\A c : Enough(c)' = Enough(c))
    BY <1>2 DEF target, platform, Concerned, Enough
  <1>4. ~prep.checks /\ info[p] # None /\ (Concerned => Enough(native[p]))
    BY <1>0, <1>2 DEF StageInv, NativeInv
  <1>5. p \notin excused => Current(native[p], p)
    BY <1>0, <1>4 DEF Honest, Current, Evident
  <1>6. NativeInv' BY <1>0, <1>2, <1>3 DEF NativeInv
  <1>7. CASE BuildProject
    <2>1. /\ package' = [package EXCEPT ![t] = native[p]] /\ UNCHANGED <<now, buildInfo, rebuilt>>
          /\ visit.at = "build" /\ visit'.at = "built"
      BY <1>0, <1>7 DEF BuildProject, goOn, Visits
    <2>2. package'[t] = native[p] /\ \A u \in Targets : u # t => package'[u] = package[u]
      BY <1>0, <1>1, <2>1 DEF FileTypes
    <2>3. FileTypes'
      BY <1>0, <1>1, <1>2, <2>1 DEF FileTypes
    <2>4. StampsInv' BY <1>0, <1>2, <2>1 DEF StampsInv
    <2>5. StageInv'
      BY <1>0, <1>2, <1>3, <2>1, <2>2 DEF StageInv, Underway
    <2>6. RememberedInv'
      BY <1>0, <1>2, <2>1 DEF RememberedInv, hasChanges, nativeChanged, pluginsChanged,
                              resourcesChanged
    <2>7. \A u \in Targets : Matches(u)' = Matches(u)
      BY <1>2, <2>1 DEF Matches
    <2>8. RebuiltInv'
      BY <1>0, <1>2, <1>3, <2>1, <2>7 DEF RebuiltInv, Underway, FileTypes
    <2>9. BuiltInv'
      <3>1. \A d \in Devices : HasBuild(d)' = HasBuild(d)
        BY <1>2, <2>1 DEF HasBuild
      <3>3. ASSUME NEW u \in Targets, platformOf[u] \notin excused, Matches(u)
            PROVE  /\ Current(package'[u], platformOf[u])
                   /\ \A d \in Devices : targetOf[d] = u /\ HasBuild(d) =>
                          Current(installed[d], platformOf[u])
        BY <1>0, <1>1, <1>5, <2>2, <3>3 DEF BuiltInv
      <3>4. \A u \in Targets : Current(package[u], platformOf[u])'
                                   = Current(package'[u], platformOf[u])
        BY <1>2 DEF Current, Evident
      <3>5. \A d \in Devices, u \in Targets : Current(installed[d], platformOf[u])'
                                   = Current(installed[d], platformOf[u])
        BY <1>2 DEF Current, Evident
      <3> QED BY <1>2, <2>7, <3>1, <3>3, <3>4, <3>5 DEF BuiltInv
    <2>10. VisitInv'
      <3>1. Enough(package[t])' = Enough(native[p])
        BY <1>2, <1>3, <2>2 DEF Enough
      <3>2. /\ HasBuild(visit.device)' = HasBuild(visit.device)
            /\ Enough(installed[visit.device])' = Enough(installed[visit.device])
            /\ Matches(t)' = Matches(t)
        BY <1>2, <1>3, <2>1 DEF HasBuild, Enough, Matches
      <3>3. /\ Concerned /\ ~prep.hasChanges /\ Matches(t) => BothEnough'
        BY <1>0, <1>2, <1>3, <1>4, <3>1, <3>2 DEF BothEnough, VisitInv
      <3> QED BY <1>2, <1>3, <2>1, <3>2, <3>3 DEF VisitInv
    <2> QED
      BY <1>6, <2>3, <2>4, <2>5, <2>6, <2>8, <2>9, <2>10 DEF CodeInv
  <1>8. CASE SaveLocalBuildInfo
    <2> DEFINE new == [kind |-> "build", prepareTime |-> info[p].requireBuildTime,
                       buildTime |-> now + 1]
    <2>1. /\ visit.at = "built" /\ now' = now + 1 /\ UNCHANGED package
          /\ buildInfo' = [buildInfo EXCEPT ![t] = new]
          /\ rebuilt' = rebuilt \union {t}
          /\ visit'.at \in {"install", "installIfNeeded"}
      BY <1>0, <1>8 DEF SaveLocalBuildInfo, goOn, Visits
    <2>2. info[p].requireBuildTime \in Nat /\ info[p].requireBuildTime <= now
      BY <1>0, <1>1, <1>4, CodeFacts DEF StampsInv
    <2>3. /\ new \in BuildInfos /\ new # None /\ new.buildTime = now + 1
          /\ new.prepareTime = info[p].requireBuildTime
      BY <1>0, <2>2 DEF BuildInfos, None
    <2> HIDE DEF new
    <2>4. buildInfo'[t] = new /\ \A u \in Targets : u # t => buildInfo'[u] = buildInfo[u]
      BY <1>0, <1>1, <2>1 DEF FileTypes
    <2>5. FileTypes'
      BY <1>0, <1>1, <1>2, <2>1, <2>3 DEF FileTypes
    <2>6. /\ \A q \in Platforms : info[q] # None => info[q].time \in Nat
          /\ prepareInfo # None => prepareInfo.time \in Nat
          /\ \A u \in Targets : buildInfo[u] # None =>
                buildInfo[u].prepareTime \in Nat /\ buildInfo[u].buildTime \in Nat
          /\ \A d \in Devices : deviceInfo[d] # None => deviceInfo[d].buildTime \in Nat
      BY <1>0, CodeFacts DEF FileTypes, BuildInfos
    <2>7. StampsInv'
      <3>1. \A u \in Targets : buildInfo'[u] # None =>
                buildInfo'[u].prepareTime <= now' /\ buildInfo'[u].buildTime <= now'
        <4> TAKE u \in Targets
        <4>1. CASE u = t BY <1>0, <2>1, <2>2, <2>3, <2>4, <4>1
        <4>2. CASE u # t BY <1>0, <2>1, <2>4, <2>6, <4>2 DEF StampsInv
        <4> QED BY <4>1, <4>2
      <3> QED BY <1>0, <1>2, <2>1, <2>6, <3>1 DEF StampsInv
    <2>8. StageInv'
      BY <1>0, <1>2, <1>3, <2>1 DEF StageInv, Underway
    <2>9. RememberedInv'
      BY <1>0, <1>2, <1>4 DEF RememberedInv, hasChanges, nativeChanged, pluginsChanged,
                              resourcesChanged
    <2>10. /\ Matches(t)'
           /\ \A u \in Targets : u # t => Matches(u)' = Matches(u)
      BY <1>1, <1>2, <1>3, <1>4, <2>3, <2>4 DEF Matches
    <2>11. RebuiltInv'
      <3>1. command = "run" => p \in watchers
        BY <1>0, <1>2 DEF RebuiltInv
      <3>2. rebuilt \subseteq Targets /\ ~Underway' /\ visit'.at # "look"
        BY <1>0, <1>2, <2>1 DEF FileTypes, Underway
      <3>3. ASSUME command = "run", NEW u \in rebuilt, u # t
            PROVE  /\ native[platformOf[u]] # None
                   /\ platformOf[u] \notin watchers =>
                         \A d \in Devices : platformOf[targetOf[d]] = platformOf[u] =>
                             d \in visited
                   /\ platformOf[u] \in watchers \ excused => Matches(u)'
        <4>1. Matches(u)' = Matches(u) BY <2>10, <3>2, <3>3
        <4> QED BY <1>0, <3>3, <4>1 DEF RebuiltInv
      <3>4. command = "run" =>
                \A u \in rebuilt' :
                    /\ native[platformOf[u]] # None
                    /\ platformOf[u] \notin watchers =>
                          \A d \in Devices : platformOf[targetOf[d]] = platformOf[u] =>
                              d \in visited
                    /\ platformOf[u] \in watchers \ excused => Matches(u)'
        <4>1. native[p] # None BY <1>0, <1>1, <1>4 DEF StampsInv
        <4> QED BY <1>1, <1>3, <2>1, <2>10, <3>1, <3>3, <4>1
      <3> QED BY <1>2, <1>3, <1>4, <3>1, <3>2, <3>4 DEF RebuiltInv
    <2>12. \A d \in Devices : targetOf[d] = t => ~HasBuild(d)'
      <3> SUFFICES ASSUME NEW d \in Devices, targetOf[d] = t, deviceInfo[d] # None
                   PROVE  deviceInfo[d].buildTime # now + 1
        BY <1>2, <2>3, <2>4 DEF HasBuild
      <3> QED BY <1>0, <2>6 DEF StampsInv
    <2>13. package[t] = native[p] BY <1>0, <2>1 DEF StageInv
    <2>14. BuiltInv'
      <3> SUFFICES ASSUME NEW u \in Targets, platformOf[u] \notin excused, Matches(u)'
                   PROVE  /\ Current(package[u], platformOf[u])'
                          /\ \A d \in Devices : targetOf[d] = u /\ HasBuild(d)' =>
                                 Current(installed[d], platformOf[u])'
        BY <1>2 DEF BuiltInv
      <3>1. CASE u = t
        BY <1>1, <1>2, <1>5, <2>1, <2>12, <2>13, <3>1 DEF Current, Evident
      <3>2. CASE u # t
        <4>1. \A d \in Devices : targetOf[d] = u => HasBuild(d)' = HasBuild(d)
          BY <1>2, <2>4, <3>2 DEF HasBuild
        <4>2. /\ Current(package[u], platformOf[u])
              /\ \A d \in Devices : targetOf[d] = u /\ HasBuild(d) =>
                     Current(installed[d], platformOf[u])
          BY <1>0, <2>10, <3>2 DEF BuiltInv
        <4> QED BY <1>2, <2>1, <4>1, <4>2 DEF Current, Evident
      <3> QED BY <3>1, <3>2
    <2>15. VisitInv'
      <3>1. Concerned => Enough(package[t])' BY <1>2, <1>3, <1>4, <2>1, <2>13 DEF Enough
      <3>2. ~HasBuild(visit.device)' BY <1>1, <1>2, <2>12
      <3>3. Concerned => BothEnough' BY <1>2, <1>3, <3>1, <3>2 DEF BothEnough
      <3> QED BY <1>2, <1>3, <2>1, <3>1, <3>3 DEF VisitInv
    <2> QED
      BY <1>6, <2>5, <2>7, <2>8, <2>9, <2>11, <2>14, <2>15 DEF CodeInv
  <1> QED BY <1>7, <1>8

\* What is installed is what has been built, with its build info.
LEMMA InstallSteps ==
    ASSUME CodeInv, HonestInv', InstallOnDevice \/ SaveDeviceBuildInfo
    PROVE  CodeInv'
  <1> DEFINE t == target
             p == platform
             d == visit.device
  <1>0. /\ FileTypes /\ StampsInv /\ StageInv /\ RememberedInv /\ RebuiltInv /\ BuiltInv
        /\ NativeInv /\ VisitInv /\ BuildTypes /\ visit \in Visits /\ now \in Nat
    BY CodeFacts DEF CodeInv, HonestInv
  <1>1. t \in Targets /\ p \in Platforms /\ p = platformOf[t] /\ d \in Devices
        /\ targetOf[d] = t
    BY CodeFacts DEF platform, target
  <1> USE DEF onDisk, onDevices, memory, counters, call
  <1>2. /\ UNCHANGED <<now, sources, native, info, package, buildInfo, command, prepareInfo,
                       changesInfo, watchers, initialInfo, prep, visited, rebuilt, excused>>
        /\ visit.at \in {"install", "installed"}
        /\ visit' \in Visits /\ visit'.device = d
        /\ visit'.required = visit.required /\ visit'.changed = visit.changed
        /\ visit'.waived = visit.waived
        /\ visit'.at = IF visit.at = "install" THEN "installed" ELSE "sync"
    BY <1>0 DEF InstallOnDevice, SaveDeviceBuildInfo, goOn, Visits
  <1>3. UNCHANGED <<target, platform>> /\ Concerned' = Concerned
        /\ (\A c : Enough(c)' = Enough(c))
    BY <1>2 DEF target, platform, Concerned, Enough
  <1>4. NativeInv' BY <1>0, <1>2, <1>3 DEF NativeInv
  <1>5. RememberedInv'
    BY <1>0, <1>2 DEF RememberedInv, hasChanges, nativeChanged, pluginsChanged,
                      resourcesChanged
  <1>6. \A u \in Targets : Matches(u)' = Matches(u) BY <1>2 DEF Matches
  <1>7. RebuiltInv'
    BY <1>0, <1>2, <1>3, <1>6 DEF RebuiltInv, Underway, FileTypes
  <1>8. Enough(package[t])' = Enough(package[t]) BY <1>2, <1>3 DEF Enough
  <1>9. installed'[d] = package[t] /\ \A e \in Devices : e # d => installed'[e] = installed[e]
    BY <1>0, <1>1 DEF InstallOnDevice, SaveDeviceBuildInfo, FileTypes, StageInv
  <1>10. /\ deviceInfo'[d] \in {None, buildInfo[t]}
         /\ visit.at = "install" => deviceInfo'[d] = None
         /\ \A e \in Devices : e # d => deviceInfo'[e] = deviceInfo[e]
    BY <1>0, <1>1 DEF InstallOnDevice, SaveDeviceBuildInfo, FileTypes
  <1>11. FileTypes'
    <2>1. /\ package[t] \in Projects \union {None}
          /\ buildInfo[t] \in BuildInfos \union {None}
      BY <1>0, <1>1 DEF FileTypes
    <2> QED
      BY <1>0, <1>1, <1>2, <2>1
         DEF InstallOnDevice, SaveDeviceBuildInfo, FileTypes
  <1>12. StampsInv'
    <2>1. \A e \in Devices : deviceInfo'[e] # None => deviceInfo'[e].buildTime <= now
      BY <1>0, <1>1, <1>10 DEF StampsInv
    <2> QED BY <1>0, <1>2, <2>1 DEF StampsInv
  <1>13. StageInv'
    BY <1>0, <1>2, <1>3, <1>9 DEF StageInv, Underway
  <1>14. BuiltInv'
    <2> SUFFICES ASSUME NEW u \in Targets, platformOf[u] \notin excused, Matches(u)
                 PROVE  /\ Current(package[u], platformOf[u])'
                        /\ \A e \in Devices : targetOf[e] = u /\ HasBuild(e)' =>
                               Current(installed[e], platformOf[u])'
      BY <1>2, <1>6 DEF BuiltInv
    <2>1. /\ Current(package[u], platformOf[u])
          /\ \A e \in Devices : targetOf[e] = u /\ HasBuild(e) =>
                 Current(installed[e], platformOf[u])
      BY <1>0 DEF BuiltInv
    <2>2. Current(package[u], platformOf[u])' BY <1>2, <2>1 DEF Current, Evident
    <2>3. ASSUME NEW e \in Devices, targetOf[e] = u, HasBuild(e)'
          PROVE  Current(installed[e], platformOf[u])'
      <3>1. CASE e = d
        BY <1>1, <1>2, <1>9, <2>1, <2>3, <3>1 DEF Current, Evident
      <3>2. CASE e # d
        <4>1. HasBuild(e) BY <1>2, <1>10, <2>3, <3>2 DEF HasBuild
        <4> QED BY <1>2, <1>9, <2>1, <2>3, <3>2, <4>1 DEF Current, Evident
      <3> QED BY <3>1, <3>2
    <2> QED BY <2>2, <2>3
  <1>15. VisitInv'
    <2>1. Enough(installed[d])' = Enough(package[t]) BY <1>2, <1>3, <1>9 DEF Enough
    <2>2. BothEnough => Enough(package[t]) BY DEF BothEnough
    <2>3. Enough(package[t]) => BothEnough'
      BY <1>2, <1>3, <1>8, <2>1 DEF BothEnough
    <2>4. visit.at = "installed" => installed[d] = package[t] BY <1>0 DEF StageInv
    <2>5. Concerned /\ prep.at = "done" /\ ~visit.waived => Enough(package[t])
      BY <1>0, <1>2, <2>4 DEF VisitInv
    <2>6. Matches(t)' = Matches(t) BY <1>1, <1>3, <1>6
    <2> QED
      BY <1>0, <1>2, <1>3, <1>9, <2>1, <2>2, <2>3, <2>5, <2>6 DEF VisitInv
  <1> QED
    BY <1>4, <1>5, <1>7, <1>11, <1>12, <1>13, <1>14, <1>15 DEF CodeInv

(***************************************************************************)
(* Preparing                                                               *)
(***************************************************************************)
\* Code that is current has what the visit requires, if nothing is evidently changed.
LEMMA CurrentIsEnough ==
    ASSUME CodeInv, visit.at # "none", info[platform] # None,
           NEW code, Current(code, platform),
           ~hasChanges(platform)
    PROVE  Enough(code)
  <1>1. \A k \in Kinds : ~Evident(platform, k)
    BY DEF hasChanges, nativeChanged, pluginsChanged, resourcesChanged, Evident, Kinds
  <1>2. \A k \in Kinds : visit.required[k] <= sources[platform][k]
    BY DEF CodeInv, StageInv
  <1>3. \A k \in Kinds : visit.required[k] \in Nat /\ sources[platform][k] \in Nat
    BY CodeFacts
  <1> QED BY <1>1, <1>2, <1>3 DEF Current, Enough

\* A platform that is added is one nothing has been built for.
LEMMA AddStep ==
    ASSUME CodeInv, HonestInv', AddPlatformAndCompile
    PROVE  CodeInv'
  <1> DEFINE p == prep.platform
  <1>0. /\ FileTypes /\ StampsInv /\ StageInv /\ RememberedInv /\ RebuiltInv /\ BuiltInv
        /\ NativeInv /\ VisitInv /\ BuildTypes /\ visit \in Visits /\ prep \in Prepares
        /\ p \in Platforms /\ target \in Targets /\ platform = platformOf[target]
    BY CodeFacts DEF CodeInv, HonestInv, platform
  <1> USE DEF onDisk, onDevices, memory, counters, call
  <1>1. /\ UNCHANGED <<now, sources, installed, deviceInfo, command, prepareInfo, changesInfo,
                       watchers, initialInfo, visit, visited, rebuilt, excused>>
        /\ prep.at = "starting" /\ prep'.at = "compiled" /\ prep'.platform = p
        /\ prep'.checks = prep.checks /\ prep'.hasChanges = prep.hasChanges
    BY <1>0 DEF AddPlatformAndCompile, prepared, Prepares
  <1>2. /\ UNCHANGED <<target, platform>> /\ Concerned' = Concerned /\ ~prep.checks
        /\ platform = p /\ ~prep.hasChanges
    BY <1>0, <1>1 DEF target, platform, Concerned, StageInv, Underway
  <1>3. \/ UNCHANGED <<native, info, package, buildInfo>>
        \/ /\ native[p] = None /\ native'[p] = Template /\ info'[p] = None
           /\ info[p] = None
           /\ \A q \in Platforms : q # p => UNCHANGED <<native[q], info[q]>>
           /\ package' \in [Targets -> Projects \union {None}]
           /\ buildInfo' \in [Targets -> BuildInfos \union {None}]
           /\ \A t \in Targets :
                 IF platformOf[t] = p THEN package'[t] = None /\ buildInfo'[t] = None
                 ELSE UNCHANGED <<package[t], buildInfo[t]>>
    <2>1. CASE native[p] # None BY <2>1 DEF AddPlatformAndCompile
    <2>2. CASE native[p] = None
      <3>1. /\ native' = [native EXCEPT ![p] = Template]
            /\ info' = [info EXCEPT ![p] = None]
            /\ package' = [t \in Targets |-> IF platformOf[t] = p THEN None ELSE package[t]]
            /\ buildInfo' = [t \in Targets |-> IF platformOf[t] = p THEN None
                                               ELSE buildInfo[t]]
        BY <2>2 DEF AddPlatformAndCompile
      <3>2. info[p] = None BY <1>0, <2>2 DEF StampsInv
      <3> QED BY <1>0, <2>2, <3>1, <3>2 DEF FileTypes, BuildTypes
    <2> QED BY <2>1, <2>2
  <1>4. Template # None
    BY NoneIsNothing DEF Template, Projects
  <1>5. FileTypes' BY <1>0, <1>1, <1>3 DEF FileTypes
  <1>6. StampsInv'
    BY <1>0, <1>1, <1>3, <1>4 DEF StampsInv
  <1>7. StageInv'
    <2>1. visit.at = "installed" => native[p] # None
      <3>1. visit.at = "installed" => command = "run" /\ target \in rebuilt
        BY <1>0, <1>1 DEF VisitInv
      <3> QED BY <1>0, <1>2, <3>1 DEF RebuiltInv
    <2>2. visit.at = "installed" => installed'[visit'.device] = package'[target']
      BY <1>0, <1>1, <1>2, <1>3, <2>1 DEF StageInv
    <2> QED BY <1>0, <1>1, <1>2, <2>2 DEF StageInv, Underway
  <1>8. RememberedInv'
    <2>1. \A q \in Platforms : ~hasChanges(q)' => ~hasChanges(q) /\ UNCHANGED info[q]
      BY <1>1, <1>3 DEF hasChanges, nativeChanged, pluginsChanged, resourcesChanged
    <2> QED BY <1>0, <1>1, <1>2, <2>1 DEF RememberedInv
  <1>9. \A t \in Targets : /\ Matches(t)' => Matches(t) /\ UNCHANGED package[t]
                                             /\ UNCHANGED buildInfo[t]
                                             /\ info'[platformOf[t]] = info[platformOf[t]]
                           /\ native[platformOf[t]] # None =>
                                 /\ Matches(t)' = Matches(t)
                                 /\ native'[platformOf[t]] # None
                                 /\ UNCHANGED package[t]
    <2> TAKE t \in Targets
    <2>1. platformOf[t] \in Platforms BY BuildAssumption
    <2> QED BY <1>3, <1>4, <2>1 DEF Matches
  <1>10. RebuiltInv'
    <2>1. rebuilt \subseteq Targets BY <1>0 DEF FileTypes
    <2> QED BY <1>0, <1>1, <1>2, <1>9, <2>1 DEF RebuiltInv, Underway
  <1>11. BuiltInv'
    <2> SUFFICES ASSUME NEW t \in Targets, platformOf[t] \notin excused, Matches(t)'
                 PROVE  /\ Current(package[t], platformOf[t])'
                        /\ \A d \in Devices : targetOf[d] = t /\ HasBuild(d)' =>
                               Current(installed[d], platformOf[t])'
      BY <1>1 DEF BuiltInv
    <2>1. /\ Current(package[t], platformOf[t])
          /\ \A d \in Devices : targetOf[d] = t /\ HasBuild(d) =>
                 Current(installed[d], platformOf[t])
      BY <1>0, <1>9 DEF BuiltInv
    <2>2. \A d \in Devices : targetOf[d] = t => HasBuild(d)' = HasBuild(d)
      BY <1>1, <1>9 DEF HasBuild
    <2> QED BY <1>1, <1>9, <2>1, <2>2 DEF Current, Evident
  <1>12. NativeInv' BY <1>1, <1>2 DEF NativeInv
  <1>13. VisitInv'
    <2>1. ASSUME Concerned, visit.at = "ask", ~visit.shouldBuild
          PROVE  Matches(target)'
      <3>1. Matches(target) BY <1>0, <1>2, <2>1 DEF VisitInv
      <3>2. native[platform] # None BY <1>0, <1>2, <3>1 DEF Matches, StampsInv
      <3> QED BY <1>0, <1>2, <1>9, <3>1, <3>2
    <2>2. visit.at # "installIfNeeded" BY <1>0, <1>1 DEF StageInv
    <2>3. ASSUME visit.at \in {"install", "installed", "sync"}
          PROVE  /\ command = "run" /\ target \in rebuilt
                 /\ visit.at # "install" => installed[visit.device] = package'[target]
      <3>1. /\ command = "run" /\ target \in rebuilt
            /\ visit.at # "install" => installed[visit.device] = package[target]
        BY <1>0, <1>1, <2>3 DEF VisitInv
      <3>2. native[platformOf[target]] # None BY <1>0, <3>1 DEF RebuiltInv
      <3> QED BY <1>0, <1>9, <3>1, <3>2
    <2> QED BY <1>1, <1>2, <2>1, <2>2, <2>3 DEF VisitInv
  <1> QED
    BY <1>5, <1>6, <1>7, <1>8, <1>10, <1>11, <1>12, <1>13 DEF CodeInv

\* A prepare that finds its platform watched checks nothing.
LEMMA WatchedStep ==
    ASSUME CodeInv, HonestInv', FindsWatcher
    PROVE  CodeInv'
  <1>0. /\ FileTypes /\ StampsInv /\ StageInv /\ RememberedInv /\ RebuiltInv /\ BuiltInv
        /\ NativeInv /\ VisitInv /\ visit \in Visits /\ prep \in Prepares
    BY CodeFacts DEF CodeInv, HonestInv
  <1> USE DEF onDisk, onDevices, memory, counters, call
  <1>1. /\ UNCHANGED <<now, sources, native, info, package, buildInfo, installed, deviceInfo,
                       command, prepareInfo, changesInfo, watchers, initialInfo, visit,
                       visited, rebuilt, excused>>
        /\ prep.at = "compiled" /\ prep'.at = "saving" /\ prep'.platform = prep.platform
        /\ prep'.checks = prep.checks /\ prep'.hasChanges = prep.hasChanges
        /\ prep.platform \in watchers
    BY <1>0 DEF FindsWatcher, prepared, Prepares
  <1>2. UNCHANGED <<target, platform>> /\ Concerned' = Concerned /\ ~prep.checks
        /\ ~prep.hasChanges /\ platform = prep.platform
    BY <1>0, <1>1 DEF target, platform, Concerned, StageInv, Underway
  <1>3. FileTypes' /\ StampsInv' BY <1>0, <1>1 DEF FileTypes, StampsInv
  <1>4. StageInv' BY <1>0, <1>1, <1>2 DEF StageInv, Underway
  <1>5. RememberedInv'
    BY <1>0, <1>1, <1>2 DEF RememberedInv, hasChanges, nativeChanged, pluginsChanged,
                            resourcesChanged
  <1>6. \A t \in Targets : Matches(t)' = Matches(t) BY <1>1 DEF Matches
  <1>7. RebuiltInv'
    BY <1>0, <1>1, <1>2, <1>6 DEF RebuiltInv, Underway, FileTypes
  <1>8. BuiltInv' BY <1>0, <1>1, BuiltFrame
  <1>9. NativeInv' BY <1>1, <1>2 DEF NativeInv
  <1>10. VisitInv'
    <2>1. Matches(target)' = Matches(target) BY <1>1, <1>2 DEF Matches
    <2>2. visit.at # "installIfNeeded" BY <1>0, <1>1 DEF StageInv
    <2> QED BY <1>0, <1>1, <1>2, <2>1, <2>2 DEF VisitInv
  <1> QED BY <1>3, <1>4, <1>5, <1>7, <1>8, <1>9, <1>10 DEF CodeInv

\* The check of a prepare: without changes, all that is built has the sources.
LEMMA CheckStep ==
    ASSUME CodeInv, HonestInv', PrepareChecks
    PROVE  CodeInv'
  <1> DEFINE p == prep.platform
  <1>0. /\ FileTypes /\ StampsInv /\ StageInv /\ RememberedInv /\ RebuiltInv /\ BuiltInv
        /\ NativeInv /\ VisitInv /\ BuildTypes /\ visit \in Visits /\ prep \in Prepares
        /\ p \in Platforms /\ target \in Targets /\ platform = platformOf[target]
        /\ Honest(p) /\ now \in Nat
    BY CodeFacts DEF CodeInv, HonestInv, platform
  <1> USE DEF onDisk, onDevices, memory, counters, call
  <1>1. /\ UNCHANGED <<sources, native, info, package, buildInfo, installed, deviceInfo,
                       command, initialInfo, visit, visited, rebuilt, excused>>
        /\ prep.at = "compiled" /\ CheckForChanges(p)
        /\ prep' = [prep EXCEPT !.at = "checked", !.checks = TRUE,
                                !.nativeChanged = nativeChanged(p),
                                !.hasChanges = hasChanges(p)]
        /\ command \in {"deploy"} \/ p \notin watchers
        /\ watchers' = IF command = "run" THEN watchers \union {p} ELSE watchers
    BY DEF PrepareChecks, check
  <1>2. /\ prep'.at = "checked" /\ prep'.platform = p /\ prep'.checks
        /\ prep'.nativeChanged = nativeChanged(p) /\ prep'.hasChanges = hasChanges(p)
    BY <1>0, <1>1 DEF Prepares
  <1>3. /\ UNCHANGED <<target, platform>> /\ Concerned' = Concerned
        /\ ~prep.hasChanges /\ platform = p /\ ~prep.checks
        /\ visit.at \notin {"none", "built", "installIfNeeded", "throws", "done"}
    BY <1>0, <1>1 DEF target, platform, Concerned, StageInv, Underway
  <1>4. /\ prepareInfo'.time = prepareInfo'.requireBuildTime
        /\ prepareInfo'.requireBuildTime =
               IF hasChanges(p) THEN now + 1 ELSE info[p].requireBuildTime
        /\ prepareInfo'.time <= now' /\ now' \in {now, now + 1}
        /\ prepareInfo'.about = p /\ prepareInfo' # None
        /\ \A q \in Platforms : prepareInfo'.about = q /\ ~hasChanges(q)' =>
               prepareInfo'.requireBuildTime = info'[q].requireBuildTime
    BY <1>0, <1>1, CheckKeepsRemembered
  <1>5. ~hasChanges(p) =>
            /\ info[p] # None /\ prepareInfo'.hash = info[p].hash
            /\ ~resourcesChanged(p) /\ ~pluginsChanged(p)
    BY <1>1 DEF CheckForChanges, hasChanges, nativeChanged, pluginsChanged, resourcesChanged
  <1>6. FileTypes' BY <1>0, <1>1 DEF FileTypes
  <1>7. StampsInv'
    <2>1. /\ \A q \in Platforms : info[q] # None => info[q].time \in Nat
          /\ \A t \in Targets : buildInfo[t] # None =>
                buildInfo[t].prepareTime \in Nat /\ buildInfo[t].buildTime \in Nat
          /\ \A d \in Devices : deviceInfo[d] # None => deviceInfo[d].buildTime \in Nat
      BY <1>0, CodeFacts DEF FileTypes, BuildInfos
    <2> QED BY <1>0, <1>1, <1>4, <2>1 DEF StampsInv
  <1>8. StageInv' BY <1>0, <1>1, <1>2, <1>3, <1>4 DEF StageInv, Underway
  <1>9. RememberedInv'
    <2>1. ASSUME hasChanges(p), NEW t \in Targets, buildInfo[t] # None
          PROVE  buildInfo[t].prepareTime # prepareInfo'.requireBuildTime
      <3>1. buildInfo[t].prepareTime \in Nat /\ buildInfo[t].prepareTime <= now
        BY <1>0, <2>1, CodeFacts DEF StampsInv
      <3> QED BY <1>0, <1>4, <2>1, <3>1
    <2>2. /\ resourcesChanged(p)' = resourcesChanged(p)
          /\ pluginsChanged(p)' = pluginsChanged(p)
      BY <1>1 DEF resourcesChanged, pluginsChanged
    <2> QED BY <1>1, <1>2, <1>4, <1>5, <2>1, <2>2 DEF RememberedInv
  <1>10. \A t \in Targets : Matches(t)' = Matches(t) BY <1>1 DEF Matches
  <1>11. RebuiltInv'
    <2> SUFFICES ASSUME command = "run" PROVE RebuiltInv'
      BY <1>1 DEF RebuiltInv
    <2>1. p \notin watchers /\ watchers' = watchers \union {p} BY <1>1
    <2>2. rebuilt \subseteq Targets BY <1>0 DEF FileTypes
    <2>3. \A t \in rebuilt : platformOf[t] # p
      BY <1>0, <1>1, <1>3, <2>1 DEF RebuiltInv, Underway
    <2>4. target \notin rebuilt BY <1>0, <1>3, <2>3
    <2> QED
      BY <1>0, <1>1, <1>2, <1>3, <1>10, <2>1, <2>2, <2>3, <2>4 DEF RebuiltInv, Underway
  <1>12. BuiltInv' BY <1>0, <1>1, BuiltFrame
  <1>13. NativeInv'
    <2> SUFFICES ASSUME Concerned, ~nativeChanged(p), NEW k \in {"plugins", "dependencies"}
                 PROVE  native[p][k] >= visit.required[k]
      BY <1>1, <1>2, <1>3 DEF NativeInv
    <2>1. /\ info[p] # None /\ ~(sources[p].plugins >= info[p].mtime)
          /\ info[p].hash = sources[p].dependencies /\ p \notin excused /\ k \in Kinds
      BY <1>3 DEF nativeChanged, pluginsChanged, Concerned, Kinds
    <2>2. native[p][k] = sources[p][k] BY <1>0, <2>1 DEF Honest
    <2>3. visit.required[k] <= sources[p][k] BY <1>0, <1>3, <2>1 DEF StageInv
    <2>4. visit.required[k] \in Nat /\ sources[p][k] \in Nat BY <1>0, <2>1, CodeFacts
    <2> QED BY <2>2, <2>3, <2>4
  <1>14. VisitInv'
    <2>1. ASSUME Concerned, ~hasChanges(p), Matches(target) PROVE BothEnough
      <3>1. /\ Current(package[target], platform)
            /\ HasBuild(visit.device) => Current(installed[visit.device], platform)
        BY <1>0, <2>1, CodeFacts DEF BuiltInv, Concerned, target
      <3> QED BY <1>3, <1>5, <2>1, <3>1, CurrentIsEnough DEF BothEnough
    <2>2. BothEnough' = BothEnough /\ Matches(target)' = Matches(target)
      BY <1>1, <1>3 DEF BothEnough, Enough, HasBuild, Matches
    <2> QED BY <1>0, <1>1, <1>2, <1>3, <2>1, <2>2 DEF VisitInv
  <1> QED
    BY <1>6, <1>7, <1>8, <1>9, <1>11, <1>12, <1>13, <1>14 DEF CodeInv

\* What was not up to date at the check is prepared.
LEMMA NativeStep ==
    ASSUME CodeInv, HonestInv', PrepareNative
    PROVE  CodeInv'
  <1> DEFINE p == prep.platform
  <1>0. /\ FileTypes /\ StampsInv /\ StageInv /\ RememberedInv /\ RebuiltInv /\ BuiltInv
        /\ NativeInv /\ VisitInv /\ BuildTypes /\ visit \in Visits /\ prep \in Prepares
        /\ p \in Platforms /\ target \in Targets /\ platform = platformOf[target]
        /\ PrepareInv
    BY CodeFacts DEF CodeInv, HonestInv, platform
  <1> USE DEF onDisk, onDevices, memory, counters, call
  <1>1. /\ UNCHANGED <<now, sources, info, package, buildInfo, installed, deviceInfo,
                       command, prepareInfo, changesInfo, watchers, initialInfo, visit,
                       visited, rebuilt, excused>>
        /\ prep.at = "checked" /\ prep'.at = "native" /\ prep'.platform = p
        /\ prep'.checks = prep.checks /\ prep'.hasChanges = prep.hasChanges
    BY <1>0 DEF PrepareNative, prepared, Prepares
  <1>2. /\ UNCHANGED <<target, platform>> /\ Concerned' = Concerned /\ platform = p
        /\ visit.at \notin {"none", "built", "installIfNeeded", "throws", "done"}
        /\ prep.checks
    BY <1>0, <1>1 DEF target, platform, Concerned, StageInv, Underway, PrepareInv
  <1> DEFINE made == [k \in Kinds |-> IF k = "resources" \/ prep.nativeChanged
                                     THEN sources[p][k] ELSE native[p][k]]
  <1>3. made \in Projects /\ made # None
    <2>1. native[p] \in Projects /\ sources[p] \in Projects
      BY <1>0, <1>1 DEF BuildTypes, PrepareInv
    <2>2. made \in Projects BY <2>1 DEF Projects
    <2> HIDE DEF made
    <2> QED BY <2>2, NoneIsNothing
  <1>4. native'[p] = made /\ \A q \in Platforms : q # p => native'[q] = native[q]
    BY <1>0, <1>1 DEF PrepareNative, BuildTypes
  <1>5. FileTypes' BY <1>0, <1>1 DEF FileTypes
  <1>6. StampsInv' BY <1>0, <1>1, <1>3, <1>4 DEF StampsInv
  <1>7. StageInv' BY <1>0, <1>1, <1>2 DEF StageInv, Underway
  <1>8. RememberedInv'
    BY <1>0, <1>1, <1>2 DEF RememberedInv, hasChanges, nativeChanged, pluginsChanged,
                            resourcesChanged
  <1>9. \A t \in Targets : Matches(t)' = Matches(t) BY <1>1 DEF Matches
  <1>10. RebuiltInv'
    <2>1. rebuilt \subseteq Targets BY <1>0 DEF FileTypes
    <2>2. \A q \in Platforms : native[q] # None => native'[q] # None BY <1>3, <1>4
    <2>3. \A t \in rebuilt : platformOf[t] \in Platforms BY <2>1, BuildAssumption
    <2> QED
      BY <1>0, <1>1, <1>2, <1>9, <2>1, <2>2, <2>3 DEF RebuiltInv, Underway
  <1>11. BuiltInv' BY <1>0, <1>1, BuiltFrame
  <1>12. NativeInv'
    <2> SUFFICES ASSUME Concerned PROVE Enough(made)
      BY <1>1, <1>2, <1>4 DEF NativeInv, Enough
    <2> SUFFICES ASSUME NEW k \in Kinds PROVE made[k] >= visit.required[k]
      BY <1>3 DEF Enough
    <2>1. CASE k = "resources" \/ prep.nativeChanged
      <3>1. made[k] = sources[p][k] BY <2>1
      <3>2. visit.required[k] <= sources[p][k] BY <1>0, <1>2 DEF StageInv
      <3>3. visit.required[k] \in Nat /\ sources[p][k] \in Nat BY <1>0, CodeFacts
      <3> QED BY <3>1, <3>2, <3>3
    <2>2. CASE k # "resources" /\ ~prep.nativeChanged
      <3>1. made[k] = native[p][k] BY <2>2
      <3>2. k \in {"plugins", "dependencies"} BY <2>2 DEF Kinds
      <3> QED BY <1>0, <1>1, <1>2, <2>2, <3>1, <3>2 DEF NativeInv
    <2> QED BY <2>1, <2>2
  <1>13. VisitInv'
    <2>1. /\ BothEnough' = BothEnough /\ Matches(target)' = Matches(target)
      BY <1>1, <1>2 DEF BothEnough, Enough, HasBuild, Matches
    <2> QED BY <1>0, <1>1, <1>2, <2>1 DEF VisitInv
  <1> QED
    BY <1>5, <1>6, <1>7, <1>8, <1>10, <1>11, <1>12, <1>13 DEF CodeInv

\* The file becomes what is remembered.  Without changes that is what it was; with
\* changes no build is of it; without a check the platform is excused or unchanged.
LEMMA SavedKeepsCode ==
    ASSUME CodeInv, HonestInv', NEW p \in Platforms, p = prep.platform, saved(p),
           prep.at \in {"native", "saving"},
           UNCHANGED <<sources, native, package, buildInfo, installed, deviceInfo, command,
                       prepareInfo, changesInfo, watchers, initialInfo, visit, visited,
                       rebuilt>>,
           prep'.hasChanges = prep.hasChanges,
           \/ prep.at = "native" /\ prep'.at = "saving" /\ prep'.checks = prep.checks
                 /\ prep'.platform = p
           \/ prep.at = "saving" /\ prep'.at = "done" /\ ~prep'.checks,
           excused \subseteq excused',
           p \notin excused' => prep.checks \/ (prepareInfo.about = p /\ ~hasChanges(p))
    PROVE  CodeInv'
  <1>0. /\ FileTypes /\ StampsInv /\ StageInv /\ RememberedInv /\ RebuiltInv /\ BuiltInv
        /\ NativeInv /\ VisitInv /\ BuildTypes /\ visit \in Visits /\ prep \in Prepares
        /\ target \in Targets /\ platform = platformOf[target] /\ visit.device \in Devices
        /\ Honest(p) /\ now \in Nat /\ PrepareInv /\ TimesInv
    BY CodeFacts DEF CodeInv, HonestInv, platform
  <1>1. /\ UNCHANGED <<target, platform>> /\ (Concerned' => Concerned) /\ platform = p
        /\ visit.at \notin {"none", "built", "installIfNeeded", "throws", "done"}
        /\ (prep.at = "native" => prep.checks)
        /\ native[p] # None /\ prepareInfo # None
        /\ (~prep.checks => ~prep.hasChanges)
    BY <1>0 DEF target, platform, Concerned, StageInv, Underway, PrepareInv
  <1> DEFINE new == [kind |-> "info", mtime |-> now + 1, hash |-> prepareInfo.hash,
                     time |-> prepareInfo.time,
                     requireBuildTime |-> prepareInfo.requireBuildTime]
  <1>2. /\ new # None /\ new.mtime = now + 1 /\ new.hash = prepareInfo.hash
        /\ new.time = prepareInfo.time
        /\ new.requireBuildTime = prepareInfo.requireBuildTime
    BY DEF None
  <1> HIDE DEF new
  <1>3. /\ now' = now + 1 /\ info'[p] = new
        /\ \A q \in Platforms : q # p => info'[q] = info[q]
    BY <1>0 DEF saved, new, BuildTypes
  \* What is sure of a platform that is not excused.
  <1>4. ASSUME p \notin excused', ~prep.hasChanges
        PROVE  info[p] # None /\ prepareInfo.requireBuildTime = info[p].requireBuildTime
    <2>1. CASE prep.checks BY <1>0, <1>4, <2>1 DEF RememberedInv
    <2>2. CASE ~prep.checks
      <3>1. prepareInfo.about = p /\ ~hasChanges(p) BY <1>4, <2>2
      <3> QED
        BY <1>0, <1>1, <3>1 DEF RememberedInv, hasChanges, resourcesChanged
    <2> QED BY <2>1, <2>2
  <1>5. ASSUME p \notin excused', NEW t \in Targets, platformOf[t] = p, Matches(t)'
        PROVE  Matches(t) /\ ~prep.hasChanges
    <2>1. buildInfo[t] # None /\ buildInfo[t].prepareTime = prepareInfo.requireBuildTime
      BY <1>2, <1>3, <1>5 DEF Matches
    <2>2. ~prep.hasChanges
      BY <1>0, <1>1, <1>5, <2>1 DEF RememberedInv
    <2> QED BY <1>4, <1>5, <2>1, <2>2 DEF Matches
  <1>6. ASSUME p \notin excused', ~prep.hasChanges, NEW code, Current(code, p)
        PROVE  Current(code, p)'
    <2>1. CASE prep.checks
      <3>1. /\ prepareInfo.hash = info[p].hash /\ info[p] # None
            /\ ~resourcesChanged(p) /\ ~pluginsChanged(p)
        BY <1>0, <1>6, <2>1 DEF RememberedInv
      <3>2. \A k \in Kinds : Evident(p, k) => k = "dependencies" /\ Evident(p, k)'
        BY <1>2, <1>3, <3>1
           DEF Evident, resourcesChanged, pluginsChanged, Kinds
      <3> QED BY <1>6, <3>2 DEF Current
    <2>2. CASE ~prep.checks
      <3>1. \A k \in Kinds : ~Evident(p, k)
        BY <1>6, <2>2 DEF hasChanges, nativeChanged, pluginsChanged, resourcesChanged,
                          Evident, Kinds
      <3> QED BY <1>6, <3>1 DEF Current
    <2> QED BY <2>1, <2>2
  <1>7. \A t \in Targets : /\ platformOf[t] \in Platforms
                           /\ platformOf[t] # p => Matches(t)' = Matches(t)
    BY <1>3, BuildAssumption DEF Matches
  <1>8. FileTypes' BY <1>0 DEF FileTypes
  <1>9. StampsInv'
    <2>1. /\ \A q \in Platforms : info[q] # None => info[q].time \in Nat
          /\ prepareInfo.time \in Nat
          /\ \A t \in Targets : buildInfo[t] # None =>
                buildInfo[t].prepareTime \in Nat /\ buildInfo[t].buildTime \in Nat
          /\ \A d \in Devices : deviceInfo[d] # None => deviceInfo[d].buildTime \in Nat
      BY <1>0, <1>1, CodeFacts DEF FileTypes, BuildInfos
    <2>2. ASSUME NEW q \in Platforms, info'[q] # None
          PROVE  /\ native[q] # None
                 /\ info'[q].time = info'[q].requireBuildTime /\ info'[q].time <= now + 1
      <3>1. CASE q = p BY <1>0, <1>1, <1>2, <1>3, <2>1, <3>1 DEF StampsInv
      <3>2. CASE q # p BY <1>0, <1>3, <2>1, <2>2, <3>2 DEF StampsInv
      <3> QED BY <3>1, <3>2
    <2> QED BY <1>0, <1>3, <2>1, <2>2 DEF StampsInv
  <1>10. StageInv'
    BY <1>0, <1>1, <1>2, <1>3 DEF StageInv, Underway
  <1>11. RememberedInv'
    <2>1. ASSUME NEW q \in Platforms, prepareInfo.about = q, ~hasChanges(q)'
          PROVE  prepareInfo.requireBuildTime = info'[q].requireBuildTime
      <3>1. CASE q = p BY <1>2, <1>3, <3>1
      <3>2. CASE q # p
        <4>1. hasChanges(q)' = hasChanges(q)
          BY <1>3, <3>2 DEF hasChanges, nativeChanged, pluginsChanged, resourcesChanged
        <4> QED BY <1>0, <1>1, <1>3, <2>1, <3>2, <4>1 DEF RememberedInv
      <3> QED BY <3>1, <3>2
    <2>2. ASSUME prep'.checks, ~prep.hasChanges, p \notin excused'
          PROVE  ~resourcesChanged(p)' /\ ~pluginsChanged(p)'
      <3>1. /\ info[p] # None /\ ~resourcesChanged(p) /\ ~pluginsChanged(p)
        BY <1>0, <2>2 DEF RememberedInv
      <3>2. info[p].mtime \in Nat /\ info[p].mtime <= now
        BY <1>0, <3>1, CodeFacts DEF TimesInv
      <3>3. \A k \in {"resources", "plugins"} :
                sources[p][k] \in Nat /\ ~(sources[p][k] >= info[p].mtime)
        BY <3>1, CodeFacts DEF resourcesChanged, pluginsChanged, Kinds
      <3>4. \A k \in {"resources", "plugins"} : ~(sources[p][k] >= now + 1)
        BY <1>0, <3>2, <3>3
      <3> QED BY <1>2, <1>3, <3>4 DEF resourcesChanged, pluginsChanged
    <2> QED
      BY <1>0, <1>1, <1>2, <1>3, <2>1, <2>2 DEF RememberedInv
  <1>12. RebuiltInv'
    <2> SUFFICES ASSUME command = "run" PROVE RebuiltInv'
      BY DEF RebuiltInv
    <2>1. rebuilt \subseteq Targets BY <1>0 DEF FileTypes
    <2>2. ASSUME NEW t \in rebuilt, platformOf[t] \in watchers \ excused'
          PROVE  Matches(t)'
      <3>1. Matches(t) BY <1>0, <2>2 DEF RebuiltInv
      <3>2. CASE platformOf[t] # p BY <1>7, <2>1, <3>1, <3>2
      <3>3. CASE platformOf[t] = p
        <4>1. ~prep.checks BY <1>0, <3>3 DEF RebuiltInv
        <4>2. prepareInfo.requireBuildTime = info[p].requireBuildTime
          BY <1>1, <1>4, <2>2, <3>3, <4>1
        <4> QED BY <1>2, <1>3, <3>1, <3>3, <4>2 DEF Matches
      <3> QED BY <3>2, <3>3
    <2>3. platform \in watchers BY <1>0, <1>1 DEF RebuiltInv
    <2> QED BY <1>0, <1>1, <2>1, <2>2, <2>3 DEF RebuiltInv, Underway
  <1>13. BuiltInv'
    <2> SUFFICES ASSUME NEW t \in Targets, platformOf[t] \notin excused', Matches(t)'
                 PROVE  /\ Current(package[t], platformOf[t])'
                        /\ \A d \in Devices : targetOf[d] = t /\ HasBuild(d)' =>
                               Current(installed[d], platformOf[t])'
      BY DEF BuiltInv
    <2>1. Matches(t) BY <1>5, <1>7
    <2>2. /\ Current(package[t], platformOf[t])
          /\ \A d \in Devices : targetOf[d] = t /\ HasBuild(d) =>
                 Current(installed[d], platformOf[t])
      BY <1>0, <2>1 DEF BuiltInv
    <2>3. \A d \in Devices : HasBuild(d)' = HasBuild(d) BY DEF HasBuild
    <2>4. CASE platformOf[t] = p
      <3>1. ~prep.hasChanges BY <1>5, <2>4
      <3>2. Current(package[t], p)' BY <1>6, <2>2, <2>4, <3>1
      <3>3. \A d \in Devices : Current(installed[d], p) => Current(installed[d], p)'
        BY <1>6, <2>4, <3>1
      <3> QED BY <2>2, <2>3, <2>4, <3>2, <3>3
    <2>5. CASE platformOf[t] # p
      BY <1>3, <1>7, <2>2, <2>3, <2>5 DEF Current, Evident
    <2> QED BY <2>4, <2>5
  \* Without a check all that matches has the sources.
  <1>14. ASSUME Concerned', ~prep.checks
         PROVE  /\ ~hasChanges(p) /\ info[p] # None
                /\ \A code : Current(code, p) => Enough(code)
    <2>1. ~hasChanges(p) /\ info[p] # None
      BY <1>1, <1>14 DEF hasChanges, resourcesChanged, Concerned
    <2> QED BY <1>1, <2>1, CurrentIsEnough
  <1>15. NativeInv'
    <2>1. \A c : Enough(c)' = Enough(c) BY DEF Enough
    <2>2. Enough(native[platform])' = Enough(native[platform]) BY <1>1 DEF Enough
    <2>3. ASSUME Concerned', prep'.at = "done" \/ prep'.checks
          PROVE  Enough(native[platform])
      <3>1. CASE prep.checks
        BY <1>0, <1>1, <2>3, <3>1 DEF NativeInv
      <3>2. CASE ~prep.checks
        <4>1. p \notin excused BY <1>1, <2>3 DEF Concerned
        <4>2. Current(native[p], p) BY <1>0, <1>14, <2>3, <3>2, <4>1
              DEF Honest, Current, Evident
        <4> QED BY <1>1, <1>14, <2>3, <3>2, <4>2
      <3> QED BY <3>1, <3>2
    <2> QED BY <1>1, <2>2, <2>3 DEF NativeInv
  <1>16. VisitInv'
    <2>1. /\ Enough(package[target])' = Enough(package[target])
          /\ Enough(installed[visit.device])' = Enough(installed[visit.device])
          /\ BothEnough' = BothEnough
      BY <1>1 DEF BothEnough, Enough, HasBuild
    <2>2. Concerned' => p \notin excused' /\ p \notin excused
      BY <1>1 DEF Concerned
    <2>3. ASSUME Concerned', ~prep.hasChanges
          PROVE  Matches(target)' = Matches(target)
      BY <1>0, <1>1, <1>2, <1>3, <1>4, <2>2, <2>3 DEF Matches
    \* BuiltInv of the visit's target and device.
    <2>4. ASSUME Concerned', ~prep.checks, Matches(target)
          PROVE  BothEnough
      <3>1. /\ Current(package[target], p)
            /\ HasBuild(visit.device) => Current(installed[visit.device], p)
        BY <1>0, <1>1, <2>2, <2>4 DEF BuiltInv, target
      <3> QED BY <1>14, <2>4, <3>1 DEF BothEnough
    <2>5. ASSUME Concerned', ~prep.hasChanges, Matches(target)'
          PROVE  BothEnough
      <3>1. Matches(target) BY <2>3, <2>5
      <3>2. CASE prep.checks BY <1>0, <1>1, <2>5, <3>1, <3>2 DEF VisitInv
      <3> QED BY <2>4, <2>5, <3>1, <3>2
    <2>6. ASSUME Concerned', visit.at = "ask", ~visit.shouldBuild, ~prep.hasChanges
          PROVE  Matches(target)'
      BY <1>0, <1>1, <2>3, <2>6 DEF VisitInv
    <2>7. ASSUME visit.at \in {"install", "installed", "sync"}
          PROVE  /\ command = "run" /\ target \in rebuilt
                 /\ visit.at # "install" => installed[visit.device] = package[target]
                 /\ Concerned' => Enough(package[target])
      <3>1. /\ command = "run" /\ target \in rebuilt
            /\ visit.at # "install" => installed[visit.device] = package[target]
        BY <1>0, <2>7 DEF VisitInv
      <3>2. ASSUME Concerned' PROVE Enough(package[target])
        <4>1. ~prep.checks BY <1>0, <1>1, <3>1 DEF RebuiltInv
        <4>2. platform \in watchers BY <1>0, <1>1, <3>1, <4>1 DEF RebuiltInv
        <4>3. Matches(target)
          BY <1>0, <1>1, <2>2, <3>1, <3>2, <4>2 DEF RebuiltInv
        <4> QED BY <2>4, <3>2, <4>1, <4>3 DEF BothEnough
      <3> QED BY <3>1, <3>2
    <2>8. visit.at \in {"install", "installed", "sync"} =>
              UNCHANGED <<target, visit, rebuilt, command, package, installed>>
      BY <1>1
    <2> QED BY <1>1, <2>1, <2>5, <2>6, <2>7, <2>8 DEF VisitInv
  <1> QED
    BY <1>8, <1>9, <1>10, <1>11, <1>12, <1>13, <1>15, <1>16 DEF CodeInv

\* Both saves of a prepare.
LEMMA SaveSteps ==
    ASSUME CodeInv, HonestInv', SetNativePlatformStatus \/ SavePrepareInfo
    PROVE  CodeInv'
  <1>0. prep \in Prepares /\ prep.platform \in Platforms /\ PrepareInv
    BY CodeFacts DEF CodeInv, HonestInv
  <1> USE DEF onDisk, onDevices, memory, counters, call
  <1>1. CASE SetNativePlatformStatus
    <2>1. /\ prep.at = "native" /\ prep.checks /\ prep'.at = "saving"
          /\ prep'.checks = prep.checks /\ prep'.platform = prep.platform
          /\ prep'.hasChanges = prep.hasChanges /\ excused' = excused
      BY <1>0, <1>1 DEF SetNativePlatformStatus, prepared, Prepares, PrepareInv
    <2> QED BY <1>0, <1>1, <2>1, SavedKeepsCode DEF SetNativePlatformStatus
  <1>2. CASE SavePrepareInfo
    <2>1. /\ prep.at = "saving" /\ prep'.at = "done" /\ ~prep'.checks
          /\ prep'.hasChanges = prep.hasChanges
          /\ excused \subseteq excused'
          /\ prep.platform \notin excused' =>
                 prep.checks \/ (prepareInfo.about = prep.platform
                                 /\ ~hasChanges(prep.platform))
      BY <1>0, <1>2 DEF SavePrepareInfo, NoPrepare
    <2> QED BY <1>0, <1>2, <2>1, SavedKeepsCode DEF SavePrepareInfo
  <1> QED BY <1>1, <1>2

\* CodeInv holds from the start, whatever happens.
LEMMA CodeNext == CodeInv /\ [BuildNext]_buildVars => CodeInv'
  <1> SUFFICES ASSUME CodeInv, [BuildNext]_buildVars PROVE CodeInv'
    OBVIOUS
  <1>1. HonestInv' BY HonestNext DEF CodeInv
  <1>2. CASE UNCHANGED buildVars
    <2>1. /\ UNCHANGED <<now, sources, native, info, package, buildInfo, installed,
                         deviceInfo, command, prepareInfo, changesInfo, watchers,
                         initialInfo, prep, visit, visited, rebuilt, excused>>
      BY <1>2 DEF buildVars, onDisk, onDevices, memory, call
    <2>2. UNCHANGED <<target, platform>> BY <2>1 DEF target, platform
    <2>3. FileTypes' /\ StampsInv' BY <2>1 DEF CodeInv, FileTypes, StampsInv
    <2>4. StageInv' BY <2>1, <2>2 DEF CodeInv, StageInv, Underway
    <2>5. RememberedInv'
      BY <2>1 DEF CodeInv, RememberedInv, hasChanges, nativeChanged, pluginsChanged,
                  resourcesChanged
    <2>6. RebuiltInv' BY <2>1, <2>2 DEF CodeInv, RebuiltInv, Underway, Matches
    <2>7. BuiltInv' BY <2>1, BuiltFrame DEF CodeInv
    <2>8. NativeInv' BY <2>1, <2>2 DEF CodeInv, NativeInv, Concerned, Enough
    <2>9. VisitInv'
      BY <2>1, <2>2 DEF CodeInv, VisitInv, Concerned, BothEnough, Enough, HasBuild, Matches
    <2> QED BY <1>1, <2>3, <2>4, <2>5, <2>6, <2>7, <2>8, <2>9 DEF CodeInv
  <1> QED
    BY <1>1, <1>2, VisitSteps, VisitsEnd, VisitBegins, ChangeKeepsCodeInv, BuildSteps,
       InstallSteps, AddStep, WatchedStep, CheckStep, NativeStep, SaveSteps
       DEF BuildNext

(* The application on a device that was synced has every change made before *)
(* the sync began, through failures, kills and commands that began anew.    *)
THEOREM ApplicationsAreCurrent == BuildSpec => []InstalledIsCurrent
  <1>1. CodeInv => InstalledIsCurrent
    <2> SUFFICES ASSUME CodeInv, Concerned, visit.at = "done", ~visit.waived
                 PROVE  Enough(installed[visit.device])
      BY DEF InstalledIsCurrent, Concerned, Enough
    <2> QED BY DEF CodeInv, StageInv, VisitInv
  <1> QED BY CodeStart, CodeNext, <1>1, PTL DEF BuildSpec
=============================================================================
