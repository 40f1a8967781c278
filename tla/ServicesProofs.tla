---------------------------- MODULE ServicesProofs ----------------------------
(***************************************************************************)
(* What TLAPS proves of three services that share no state: the detection  *)
(* of devices, the native code of plugins and the clean up.                *)
(***************************************************************************)
EXTENDS DeviceDetection, PluginNativeCode, CleanupService, SequenceTheorems, TLAPS

-----------------------------------------------------------------------------
(* The detection of devices settles, for any devices and any number of     *)
(* checks.  DetectionSettles says nothing while an init() is under way;    *)
(* what is inductive (Followed) says for each device what an init() under  *)
(* way will make of it.                                                    *)

Listings == [Phones -> Status]
Inits == [owner : Callers \union {Nobody}, device : Phones, status : Status \ {"none"}]

DetectionTypes ==
    /\ attached \in Listings /\ tracked \in Listings /\ known \in Listings
    /\ listing \in [Callers -> Listings]
    /\ inits \subseteq Inits

\* Of a device that has neither failed nor gone too early: an init() under way
\* is about the status it is tracked with, and without one it is known so.
Followed(d) ==
    /\ \A i \in inits : i.device = d => i.status = tracked[d]
    /\ (\A i \in inits : i.device # d) => known[d] = tracked[d]

DetectionInv == DetectionTypes /\ \A d \in Phones \ (hasty \union unusable) : Followed(d)

LEMMA UnlistedIsListing == Unlisted \in Listings
  BY DEF Unlisted, Listings, Status

LEMMA DetectionStarts == DetectionInit => DetectionInv
  <1> SUFFICES ASSUME DetectionInit PROVE DetectionInv
    OBVIOUS
  <1>1. DetectionTypes
    BY UnlistedIsListing DEF DetectionInit, DetectionTypes, Listings, Status
  <1>2. ASSUME NEW d \in Phones PROVE Followed(d)
    BY DEF DetectionInit, Followed
  <1> QED
    BY <1>1, <1>2 DEF DetectionInv

\* Steps that leave alone what Followed speaks of.
LEMMA DetectionFrame ==
    ASSUME DetectionInv, UNCHANGED <<tracked, known, inits, unusable, hasty>>,
           attached' \in Listings, listing' \in [Callers -> Listings]
    PROVE  DetectionInv'
  BY DEF DetectionInv, DetectionTypes, Followed

LEMMA CheckFollows ==
    ASSUME DetectionInv, NEW c \in Callers, CheckCurrentData(c)
    PROVE  DetectionInv'
  <1> DEFINE list == listing[c]
             begun == {[owner |-> c, device |-> d, status |-> list[d]] : d \in fresh(list)}
  <1>1. list \in Listings /\ known \in Listings /\ inits \subseteq Inits
    BY DEF DetectionInv, DetectionTypes
  <1>2. /\ tracked' = list /\ known' = lost(list) /\ attached' = attached
        /\ inits' = inits \union begun
        /\ hasty' = hasty \union {d \in gone(list) : \E i \in inits : i.device = d}
        /\ unusable' = unusable \ gone(list)
        /\ listing' = [listing EXCEPT ![c] = Unlisted]
    BY DEF CheckCurrentData
  <1>3. begun \subseteq Inits
    BY <1>1 DEF Inits, fresh, Listings
  <1>4. lost(list) \in Listings
    BY <1>1 DEF lost, Listings, Status
  <1>5. DetectionTypes'
    BY <1>1, <1>2, <1>3, <1>4, UnlistedIsListing DEF DetectionInv, DetectionTypes
  <1>6. ASSUME NEW d \in Phones, d \notin hasty', d \notin unusable'
        PROVE  Followed(d)'
    <2>1. tracked'[d] = list[d] /\ known'[d] = (IF d \in gone(list) THEN "none" ELSE known[d])
      BY <1>2 DEF lost
    <2>2. \A i \in begun : i.device = d => i.status = list[d] /\ d \in fresh(list)
      OBVIOUS
    <2>3. d \in fresh(list) => \E i \in begun : i.device = d
      <3>1. d \in fresh(list) => [owner |-> c, device |-> d, status |-> list[d]] \in begun
        OBVIOUS
      <3> QED
        BY <3>1
    <2> HIDE DEF begun, list
    <2>4. CASE d \in gone(list)
      <3>1. \A i \in inits : i.device # d
        BY <2>4, <1>2, <1>6
      <3>2. d \notin fresh(list) => list[d] = "none"
        BY <2>4 DEF gone, fresh
      <3> QED
        BY <3>1, <3>2, <2>1, <2>2, <2>3, <2>4, <1>2 DEF Followed
    <2>5. CASE d \notin gone(list)
      <3>1. d \notin hasty /\ d \notin unusable
        BY <2>5, <1>2, <1>6
      <3>2. Followed(d)
        BY <3>1 DEF DetectionInv
      <3>3. CASE tracked[d] = list[d]
        <4>1. d \notin fresh(list)
          BY <3>3 DEF fresh
        <4> QED
          BY <4>1, <3>2, <3>3, <2>1, <2>2, <2>5, <1>2 DEF Followed
      <3>4. CASE tracked[d] # list[d]
        \* It was not tracked: it is new, and no init() of it is under way.
        <4>1. tracked[d] = "none"
          BY <3>4, <2>5 DEF gone
        <4>2. \A i \in inits : i.status # "none"
          BY <1>1 DEF Inits
        <4>3. \A i \in inits : i.device # d
          BY <4>1, <4>2, <3>2 DEF Followed
        <4>4. d \in fresh(list)
          BY <4>1, <3>4 DEF fresh
        <4>5. \E i \in inits' : i.device = d
          BY <4>4, <2>3, <1>2
        <4>6. \A i \in inits' : i.device = d => i.status = tracked'[d]
          BY <4>3, <2>1, <2>2, <1>2
        <4> QED
          BY <4>5, <4>6 DEF Followed
      <3> QED
        BY <3>3, <3>4
    <2> QED
      BY <2>4, <2>5
  <1> QED
    BY <1>5, <1>6 DEF DetectionInv

LEMMA InitEndsFollows ==
    ASSUME DetectionInv, NEW i \in inits, InitEnds(i)
    PROVE  DetectionInv'
  <1>1. i \in Inits /\ known \in Listings /\ inits \subseteq Inits
    BY DEF DetectionInv, DetectionTypes
  <1>2. i.device \in Phones /\ i.status \in Status
    BY <1>1 DEF Inits
  <1>3. /\ known' = [known EXCEPT ![i.device] = i.status]
        /\ inits' = inits \ {i}
        /\ UNCHANGED <<attached, tracked, listing, unusable, hasty>>
    BY DEF InitEnds
  <1>4. DetectionTypes'
    BY <1>1, <1>2, <1>3 DEF DetectionInv, DetectionTypes, Listings
  <1>5. ASSUME NEW d \in Phones \ (hasty \union unusable) PROVE Followed(d)'
    <2>1. Followed(d)
      BY DEF DetectionInv
    <2>2. CASE i.device = d
      BY <2>1, <2>2, <1>1, <1>2, <1>3 DEF Followed, Listings
    <2>3. CASE i.device # d
      BY <2>1, <2>3, <1>1, <1>2, <1>3 DEF Followed, Listings
    <2> QED
      BY <2>2, <2>3
  <1> QED
    BY <1>3, <1>4, <1>5 DEF DetectionInv

LEMMA InitFailsFollows ==
    ASSUME DetectionInv, NEW i \in inits, InitFails(i)
    PROVE  DetectionInv'
  <1> DEFINE left(j) == IF j.owner = i.owner THEN [j EXCEPT !.owner = Nobody] ELSE j
  <1>1. inits \subseteq Inits
    BY DEF DetectionInv, DetectionTypes
  <1>2. \A j \in inits : /\ left(j) \in Inits
                        /\ left(j).device = j.device /\ left(j).status = j.status
    BY <1>1 DEF Inits
  <1>3. /\ inits' = {left(j) : j \in inits \ {i}}
        /\ unusable' = unusable \union {i.device}
        /\ UNCHANGED <<attached, tracked, known, listing, hasty>>
    BY DEF InitFails
  <1> HIDE DEF left
  <1>4. DetectionTypes'
    BY <1>1, <1>2, <1>3 DEF DetectionInv, DetectionTypes
  <1>5. ASSUME NEW d \in Phones \ (hasty \union (unusable \union {i.device}))
        PROVE  Followed(d)'
    <2>1. Followed(d) /\ i.device # d
      BY DEF DetectionInv
    <2>2. \A j \in inits' : j.device = d => j.status = tracked[d]
      BY <2>1, <1>2, <1>3 DEF Followed
    <2>3. (\A j \in inits' : j.device # d) => \A j \in inits : j.device # d
      <3> SUFFICES ASSUME \A j \in inits' : j.device # d, NEW j \in inits
                   PROVE  j.device # d
        OBVIOUS
      <3>1. CASE j = i
        BY <3>1, <2>1
      <3>2. CASE j # i
        <4>1. left(j) \in inits'
          BY <3>2, <1>3
        <4> QED
          BY <4>1, <1>2
      <3> QED
        BY <3>1, <3>2
    <2> QED
      BY <2>1, <2>2, <2>3, <1>3 DEF Followed
  <1> QED
    BY <1>3, <1>4, <1>5 DEF DetectionInv

LEMMA DetectionStep == DetectionInv /\ [DetectionNext]_detectionVars => DetectionInv'
  <1> SUFFICES ASSUME DetectionInv, [DetectionNext]_detectionVars PROVE DetectionInv'
    OBVIOUS
  <1>0. DetectionTypes
    BY DEF DetectionInv
  <1>1. ASSUME NEW d \in Phones, Plug(d) PROVE DetectionInv'
    <2>1. attached' \in Listings
      BY <1>0, <1>1 DEF Plug, DetectionTypes, Listings
    <2> QED
      BY <2>1, <1>0, <1>1, DetectionFrame DEF Plug, DetectionTypes
  <1>2. ASSUME NEW c \in Callers, StartLookingForDevices(c) PROVE DetectionInv'
    BY <1>0, <1>2, DetectionFrame DEF StartLookingForDevices, DetectionTypes
  <1>3. ASSUME NEW c \in Callers, GetDevices(c) PROVE DetectionInv'
    <2>1. listing' \in [Callers -> Listings]
      BY <1>0, <1>3 DEF GetDevices, DetectionTypes
    <2> QED
      BY <2>1, <1>0, <1>3, DetectionFrame DEF GetDevices, DetectionTypes
  <1>4. ASSUME NEW c \in Callers, CheckCurrentData(c) PROVE DetectionInv'
    BY <1>4, CheckFollows
  <1>5. ASSUME NEW i \in inits, InitEnds(i) PROVE DetectionInv'
    BY <1>5, InitEndsFollows
  <1>6. ASSUME NEW i \in inits, InitFails(i) PROVE DetectionInv'
    BY <1>6, InitFailsFollows
  <1>7. CASE StartDeviceDetectionInterval
    BY <1>0, <1>7, DetectionFrame DEF StartDeviceDetectionInterval, DetectionTypes
  <1>8. CASE StopDeviceDetectionInterval
    BY <1>0, <1>8, DetectionFrame DEF StopDeviceDetectionInterval, DetectionTypes
  <1>9. CASE UNCHANGED detectionVars
    BY <1>0, <1>9, DetectionFrame DEF detectionVars, DetectionTypes
  <1> QED
    BY <1>1, <1>2, <1>3, <1>4, <1>5, <1>6, <1>7, <1>8, <1>9 DEF DetectionNext

LEMMA FollowedSettles == DetectionInv => DetectionSettles
  BY DEF DetectionInv, Followed, DetectionSettles

(* Once the discovery has caught up with adb, the CLI knows the devices    *)
(* that are attached, whoever has checked, how often and in which order,   *)
(* but for those whose init() failed or was overtaken.                     *)
THEOREM DetectionIsSound == DetectionSpec => []DetectionSettles
  <1>1. DetectionSpec => []DetectionInv
    BY DetectionStarts, DetectionStep, PTL DEF DetectionSpec
  <1> QED
    BY <1>1, FollowedSettles, PTL

-----------------------------------------------------------------------------
(* A prepare leaves the native code of the plugins as they are installed,  *)
(* for any number of plugins, versions, edits and prepares.                *)

Building == {"hashed", "copied", "built"}
Stages == {"rest", "next", "prepare", "added", "taken", "done"} \union Building

NodeTypes ==
    [at : Stages, mobile : Mobiles, todo : SUBSET Plugins,
     plugin : Plugins \union {"none"}, hash : Nat, copied : Nat]

PluginTypes ==
    /\ code \in [Plugins -> Nat] /\ aar \in [Plugins -> Nat]
    /\ tempPlugin \in [Plugins -> Nat] /\ inXcode \in [Plugins -> SUBSET Nat]
    /\ nativeHashes \in [Mobiles -> [Plugins -> Seq(Nat)]]
    /\ unseen \in [Mobiles -> SUBSET Plugins]
    /\ node \in NodeTypes

\* Where the prepare is at a plugin it is one of the plugins; and only Android
\* builds.
NodeInv ==
    /\ node.at \in {"prepare", "added", "taken"} \union Building =>
           node.plugin \in Plugins
    /\ node.at \in Building => node.mobile = "android"
    /\ node.at = "added" => node.mobile = "ios"

\* What is remembered of n is true, unless n is among those excused: the folder
\* of the last build of the .aar, and the hashes of both platforms.
MemoryInv(n) ==
    /\ tempPlugin[n] # Nothing /\ aar[n] # Nothing =>
           tempPlugin[n] = aar[n] \/ n \in unseen["android"]
    /\ nativeHashes["android"][n] # <<>> =>
           \/ nativeHashes["android"][n][1] = nativeHashes["android"][n][2]
           \/ n \in unseen["android"]
    /\ nativeHashes["ios"][n] # <<>> =>
           \/ nativeHashes["ios"][n][1] \in inXcode[n]
           \/ n \in withdrawn \union unseen["ios"]

\* How far the plugin at hand is.
PluginInv(n) ==
    node.plugin = n =>
        /\ node.at = "prepare" => code[n] # Nothing
        /\ node.at = "added" => node.copied = code[n] \/ n \in unseen["ios"]
        /\ node.at = "hashed" => node.hash = code[n] \/ n \in unseen["android"]
        /\ node.at = "copied" =>
               /\ node.copied = code[n] \/ n \in unseen["android"]
               /\ node.hash = node.copied \/ n \in unseen["android"]
               /\ tempPlugin[n] = Nothing
        /\ node.at = "built" =>
               /\ aar[n] = code[n] \/ n \in unseen["android"]
               /\ aar[n] = node.hash \/ n \in unseen["android"]
               /\ tempPlugin[n] = Nothing
        /\ node.at = "taken" =>
               \/ n \in unseen[node.mobile]
               \/ IF node.mobile = "android" THEN aar[n] = code[n]
                                             ELSE code[n] \in inXcode[n]

\* The plugins the prepare has been at are current.
Current(n) ==
    code[n] # Nothing =>
        IF node.mobile = "android" THEN aar[n] = code[n]
        ELSE n \in withdrawn \/ code[n] \in inXcode[n]

DoneInv(n) ==
    /\ node.at # "rest"
    /\ n \notin touched \union unseen[node.mobile] \union node.todo
    /\ node.at \in {"next", "done"} \/ node.plugin # n
    => Current(n)

CodeInv ==
    /\ PluginTypes
    /\ NodeInv
    /\ node.at = "done" => node.todo = {}
    /\ \A n \in Plugins : MemoryInv(n) /\ PluginInv(n) /\ DoneInv(n)

\* The hashes of the files of a plugin.
LEMMA FilesAreHashes ==
    ASSUME PluginTypes, NEW n \in Plugins
    PROVE  /\ files("android", n) = <<code[n], aar[n]>> /\ files("ios", n) = <<code[n]>>
           /\ \A m \in Mobiles : files(m, n) \in Seq(Nat) /\ files(m, n) # <<>>
           /\ files("android", n)[1] = code[n] /\ files("android", n)[2] = aar[n]
           /\ files("ios", n)[1] = code[n]
  <1>1. code[n] \in Nat /\ aar[n] \in Nat
    BY DEF PluginTypes
  <1> QED
    BY <1>1 DEF files, Mobiles

(* The variables keep their types, and the prepare is at a plugin.         *)
LEMMA PluginTypesKept ==
    ASSUME PluginTypes, NodeInv, [PluginNext]_pluginVars
    PROVE  PluginTypes' /\ NodeInv'
  <1> USE DEF PluginTypes, NodeInv, Building, Nothing, move, at, edited, disk
  <1>1. ASSUME NEW k \in Plugins, EditSources(k) PROVE PluginTypes' /\ NodeInv'
    BY <1>1 DEF EditSources, Mobiles
  <1>2. ASSUME NEW k \in Plugins, InstallPlugin(k) PROVE PluginTypes' /\ NodeInv'
    BY <1>2 DEF InstallPlugin, Mobiles
  <1>3. ASSUME NEW k \in Plugins, RemovePlugin(k) PROVE PluginTypes' /\ NodeInv'
    BY <1>3 DEF RemovePlugin, Mobiles
  <1>4. CASE RemovePlatforms
    <2>1. PICK emptied \in {{"android"}, {"ios"}, Mobiles} :
              /\ nativeHashes' = [m \in Mobiles |-> IF m \in emptied
                                     THEN [k \in Plugins |-> <<>>] ELSE nativeHashes[m]]
              /\ inXcode' \in {inXcode, [k \in Plugins |-> {}]}
              /\ tempPlugin' \in {tempPlugin, [k \in Plugins |-> 0]}
      BY <1>4 DEF RemovePlatforms
    <2>2. [k \in Plugins |-> <<>>] \in [Plugins -> Seq(Nat)]
          /\ [k \in Plugins |-> 0] \in [Plugins -> Nat]
          /\ [k \in Plugins |-> {}] \in [Plugins -> SUBSET Nat]
      OBVIOUS
    <2>3. nativeHashes' \in [Mobiles -> [Plugins -> Seq(Nat)]]
      BY <2>1, <2>2
    <2> QED
      BY <1>4, <2>1, <2>2, <2>3 DEF RemovePlatforms
  <1>5. ASSUME NEW m \in Mobiles, PrepareNodeModules(m) PROVE PluginTypes' /\ NodeInv'
    BY <1>5 DEF PrepareNodeModules, NodeTypes, Stages, Rest, Mobiles
  <1>6. CASE NextPlugin
    <2>1. CASE node.todo = {}
      BY <1>6, <2>1 DEF NextPlugin, NodeTypes, Stages
    <2>2. CASE node.todo # {}
      <3>1. PICK k \in node.todo, place \in {"next", "prepare"} :
                node' = [node EXCEPT !.plugin = k, !.todo = @ \ {k}, !.at = place]
        BY <1>6, <2>2 DEF NextPlugin
      <3>2. k \in Plugins
        BY <3>1 DEF NodeTypes
      <3> QED
        BY <1>6, <3>1, <3>2 DEF NextPlugin, NodeTypes, Stages
    <2> QED
      BY <2>1, <2>2
  <1>7. CASE AddNativeSourceCode \/ AddResourcesAndLibraries
    <2>1. CASE AddNativeSourceCode
      BY <2>1 DEF AddNativeSourceCode, NodeTypes, Stages
    <2>2. CASE AddResourcesAndLibraries
      BY <2>2 DEF AddResourcesAndLibraries, NodeTypes, Stages
    <2> QED
      BY <1>7, <2>1, <2>2
  <1>8. CASE ShouldBuildAar
    BY <1>8 DEF ShouldBuildAar, NodeTypes, Stages
  <1>9. CASE CopySources
    BY <1>9 DEF CopySources, NodeTypes, Stages
  <1>10. CASE BuildAar
    BY <1>10 DEF BuildAar, NodeTypes, Stages
  <1>11. CASE WritePluginHashInfo
    <2>1. PICK h \in {node.hash, 0} : tempPlugin' = [tempPlugin EXCEPT ![node.plugin] = h]
      BY <1>11 DEF WritePluginHashInfo
    <2>2. h \in Nat
      BY <2>1 DEF NodeTypes
    <2> QED
      BY <1>11, <2>1, <2>2 DEF WritePluginHashInfo, NodeTypes, Stages
  <1>12. CASE SetPluginNativeHashes
    <2>1. node.plugin \in Plugins /\ node.mobile \in Mobiles
      BY <1>12 DEF SetPluginNativeHashes, NodeTypes
    <2>2. files(node.mobile, node.plugin) \in Seq(Nat)
      BY <2>1, FilesAreHashes
    <2>3. nativeHashes' \in [Mobiles -> [Plugins -> Seq(Nat)]]
      BY <1>12, <2>1, <2>2 DEF SetPluginNativeHashes
    <2> QED
      BY <1>12, <2>3 DEF SetPluginNativeHashes, NodeTypes, Stages
  <1>13. CASE PrepareEnds
    BY <1>13 DEF PrepareEnds, NodeTypes, Stages, Rest, Mobiles
  <1>14. CASE UNCHANGED pluginVars
    BY <1>14 DEF pluginVars, disk
  <1> QED
    BY <1>1, <1>2, <1>3, <1>4, <1>5, <1>6, <1>7, <1>8, <1>9, <1>10, <1>11, <1>12, <1>13,
       <1>14 DEF PluginNext

\* No step makes what is remembered of a plugin false.
LEMMA CodeStep ==
    ASSUME CodeInv, [PluginNext]_pluginVars, NEW n \in Plugins
    PROVE  MemoryInv(n)' /\ PluginInv(n)' /\ DoneInv(n)'
  <1>0. /\ PluginTypes /\ PluginTypes' /\ NodeInv /\ NodeInv'
        /\ MemoryInv(n) /\ PluginInv(n) /\ DoneInv(n)
        /\ (node.at = "done" => node.todo = {})
    BY PluginTypesKept DEF CodeInv
  <1>f. /\ files("android", n) = <<code[n], aar[n]>> /\ files("ios", n) = <<code[n]>>
        /\ files("android", n) # <<>> /\ files("ios", n) # <<>>
        /\ files("android", n)[1] = code[n] /\ files("android", n)[2] = aar[n]
        /\ files("ios", n)[1] = code[n]
    BY <1>0, FilesAreHashes DEF Mobiles
  <1> USE <1>0 DEF PluginTypes, NodeTypes, NodeInv, MemoryInv, PluginInv, DoneInv, Current,
                   Building, Stages, Mobiles, Nothing, move, at, edited, disk
  <1>1. ASSUME NEW k \in Plugins, EditSources(k)
        PROVE  MemoryInv(n)' /\ PluginInv(n)' /\ DoneInv(n)'
    <2>1. PICK v \in 1..MaxVersion : code' = [code EXCEPT ![k] = v]
      BY <1>1 DEF EditSources
    <2>2. code'[n] = code[n] \/ (n = k /\ code'[n] # 0)
      BY <2>1, PluginAssumption
    <2>3. node.plugin = n /\ node.at = "prepare" => code'[n] # 0
      BY <2>2
    <2>4. MemoryInv(n)'
      BY <1>1, <2>2, <2>3 DEF EditSources
    <2>5. PluginInv(n)'
      BY <1>1, <2>2, <2>3 DEF EditSources
    <2>6. DoneInv(n)'
      BY <1>1, <2>2, <2>3 DEF EditSources
    <2> QED
      BY <2>4, <2>5, <2>6
  <1>2. ASSUME NEW k \in Plugins, InstallPlugin(k)
        PROVE  MemoryInv(n)' /\ PluginInv(n)' /\ DoneInv(n)'
    <2>1. PICK v \in 1..MaxVersion : code' = [code EXCEPT ![k] = v]
      BY <1>2 DEF InstallPlugin
    <2>2. code'[n] = code[n] \/ (n = k /\ code'[n] # 0)
      BY <2>1, PluginAssumption
    <2>3. node.plugin = n /\ node.at = "prepare" => code'[n] # 0
      BY <2>2
    <2>4. MemoryInv(n)'
      BY <1>2, <2>2, <2>3 DEF InstallPlugin
    <2>5. PluginInv(n)'
      BY <1>2, <2>2, <2>3 DEF InstallPlugin
    <2>6. DoneInv(n)'
      BY <1>2, <2>2, <2>3 DEF InstallPlugin
    <2> QED
      BY <2>4, <2>5, <2>6
  <1>3. ASSUME NEW k \in Plugins, RemovePlugin(k)
        PROVE  MemoryInv(n)' /\ PluginInv(n)' /\ DoneInv(n)'
    BY <1>3 DEF RemovePlugin
  <1>4. CASE RemovePlatforms
    <2>1. PICK emptied \in {{"android"}, {"ios"}, Mobiles} :
              /\ nativeHashes' = [m \in Mobiles |-> IF m \in emptied
                                     THEN [k \in Plugins |-> <<>>] ELSE nativeHashes[m]]
              /\ IF "ios" \in emptied
                 THEN inXcode' = [k \in Plugins |-> {}] /\ withdrawn' = {}
                 ELSE UNCHANGED <<inXcode, withdrawn>>
              /\ tempPlugin' = IF emptied = Mobiles THEN [k \in Plugins |-> 0] ELSE tempPlugin
      BY <1>4 DEF RemovePlatforms
    <2>2. UNCHANGED <<code, aar, node, unseen, touched>> /\ node.at = "rest"
      BY <1>4 DEF RemovePlatforms
    <2>3. tempPlugin'[n] \in {0, tempPlugin[n]}
      BY <2>1
    <2>4. /\ nativeHashes'["android"][n] \in {<<>>, nativeHashes["android"][n]}
          /\ \/ nativeHashes'["ios"][n] = <<>>
             \/ UNCHANGED <<nativeHashes["ios"][n], inXcode, withdrawn>>
      BY <2>1
    <2>5. MemoryInv(n)'
      BY <2>2, <2>3, <2>4
    <2> QED
      BY <2>2, <2>5
  <1>5. ASSUME NEW m \in Mobiles, PrepareNodeModules(m)
        PROVE  MemoryInv(n)' /\ PluginInv(n)' /\ DoneInv(n)'
    BY <1>5 DEF PrepareNodeModules, Rest
  <1>6. CASE NextPlugin
    <2>0. UNCHANGED <<code, aar, tempPlugin, inXcode, nativeHashes, unseen, withdrawn,
                      touched>>
      BY <1>6 DEF NextPlugin
    <2>1. CASE node.todo = {}
      BY <1>6, <2>0, <2>1 DEF NextPlugin
    <2>2. CASE node.todo # {}
      <3>1. PICK k \in node.todo :
                node' = [node EXCEPT !.plugin = k, !.todo = @ \ {k},
                             !.at = IF \/ code[k] = Nothing
                                       \/ nativeHashes[node.mobile][k] = files(node.mobile, k)
                                    THEN "next" ELSE "prepare"]
        BY <1>6, <2>2 DEF NextPlugin
      <3>2. /\ node.at = "next" /\ node'.at \in {"next", "prepare"}
            /\ node'.mobile = node.mobile /\ node'.plugin = k
            /\ node'.todo = node.todo \ {k}
            /\ node'.at = "next" => \/ code[k] = 0
                                    \/ nativeHashes[node.mobile][k] = files(node.mobile, k)
            /\ node'.at = "prepare" => code[k] # 0
        BY <1>6, <2>2, <3>1 DEF NextPlugin
      <3>3. MemoryInv(n)' /\ PluginInv(n)'
        BY <2>0, <3>2
      <3>4. CASE n # k
        BY <2>0, <3>2, <3>3, <3>4
      <3>5. CASE n = k /\ node'.at = "next" /\ code[n] # 0
        <4>1. nativeHashes[node.mobile][n] = files(node.mobile, n)
          BY <3>2, <3>5
        <4>2. CASE node.mobile = "android"
          <5>1. /\ nativeHashes["android"][n] # <<>>
                /\ nativeHashes["android"][n][1] = code[n]
                /\ nativeHashes["android"][n][2] = aar[n]
            BY <4>1, <4>2, <1>f
          <5>2. code[n] = aar[n] \/ n \in unseen["android"]
            BY <5>1
          <5> QED
            BY <2>0, <3>2, <3>3, <3>5, <4>2, <5>2
        <4>3. CASE node.mobile = "ios"
          <5>1. nativeHashes["ios"][n][1] = code[n] /\ nativeHashes["ios"][n] # <<>>
            BY <4>1, <4>3, <1>f
          <5> QED
            BY <2>0, <3>2, <3>3, <3>5, <4>3, <5>1
        <4> QED
          BY <4>2, <4>3
      <3>6. CASE n = k /\ (node'.at = "prepare" \/ code[n] = 0)
        BY <2>0, <3>2, <3>3, <3>6
      <3> QED
        BY <3>2, <3>4, <3>5, <3>6
    <2> QED
      BY <2>1, <2>2
  <1>7. CASE AddNativeSourceCode \/ AddResourcesAndLibraries
    <2>1. CASE AddNativeSourceCode
      BY <2>1 DEF AddNativeSourceCode
    <2>2. CASE AddResourcesAndLibraries
      BY <2>2 DEF AddResourcesAndLibraries
    <2> QED
      BY <1>7, <2>1, <2>2
  <1>8. CASE ShouldBuildAar
    <2>0. UNCHANGED <<code, aar, tempPlugin, inXcode, nativeHashes, unseen, withdrawn,
                      touched>>
          /\ node.at = "prepare" /\ node.mobile = "android"
      BY <1>8 DEF ShouldBuildAar
    <2>1. /\ node'.mobile = "android" /\ node'.plugin = node.plugin
          /\ node'.todo = node.todo /\ node'.hash = code[node.plugin]
          /\ \/ node'.at = "hashed"
             \/ /\ node'.at = "taken" /\ tempPlugin[node.plugin] = code[node.plugin]
                /\ aar[node.plugin] # 0
      BY <1>8 DEF ShouldBuildAar
    <2>2. MemoryInv(n)' /\ DoneInv(n)'
      BY <2>0, <2>1
    <2>3. PluginInv(n)'
      <3>1. CASE n = node.plugin /\ node'.at = "taken"
        <4>1. aar[n] = code[n] \/ n \in unseen["android"]
          <5>1. tempPlugin[n] = code[n] /\ aar[n] # 0
            BY <2>1, <3>1
          <5>2. tempPlugin[n] # 0 => tempPlugin[n] = aar[n] \/ n \in unseen["android"]
            BY <2>0, <3>1, <5>1
          <5> QED
            BY <5>1, <5>2, <2>0, <3>1
        <4> QED
          BY <2>0, <2>1, <3>1, <4>1
      <3>2. CASE n # node.plugin \/ node'.at = "hashed"
        BY <2>0, <2>1, <3>2
      <3> QED
        BY <2>1, <3>1, <3>2
    <2> QED
      BY <2>2, <2>3
  <1>9. CASE CopySources
    BY <1>9 DEF CopySources
  <1>10. CASE BuildAar
    BY <1>10 DEF BuildAar
  <1>11. CASE WritePluginHashInfo
    BY <1>11 DEF WritePluginHashInfo
  <1>12. CASE SetPluginNativeHashes
    <2>0. /\ UNCHANGED <<code, aar, tempPlugin, inXcode, unseen, touched>>
          /\ withdrawn' = IF node.mobile = "ios" THEN withdrawn \ {node.plugin}
                          ELSE withdrawn
          /\ node.at = "taken" /\ node'.at = "next"
          /\ node'.mobile = node.mobile /\ node'.todo = node.todo
          /\ node'.plugin = node.plugin
      BY <1>12 DEF SetPluginNativeHashes
    <2>1. \A m \in Mobiles :
              nativeHashes'[m][n] = IF m = node.mobile /\ n = node.plugin
                                    THEN files(m, n) ELSE nativeHashes[m][n]
      BY <1>12 DEF SetPluginNativeHashes
    <2>2. PluginInv(n)' /\ DoneInv(n)'
      BY <2>0
    <2>3. CASE n # node.plugin
      BY <2>0, <2>1, <2>2, <2>3
    <2>4. CASE n = node.plugin /\ node.mobile = "android"
      <3>1. /\ nativeHashes'["android"][n][1] = code[n]
            /\ nativeHashes'["android"][n][2] = aar[n]
            /\ nativeHashes'["ios"][n] = nativeHashes["ios"][n]
        BY <2>1, <2>4, <1>f
      <3>2. aar[n] = code[n] \/ n \in unseen["android"]
        BY <2>0, <2>4
      <3> QED
        BY <2>0, <2>2, <2>4, <3>1, <3>2
    <2>5. CASE n = node.plugin /\ node.mobile = "ios"
      <3>1. nativeHashes'["ios"][n][1] = code[n]
            /\ nativeHashes'["android"][n] = nativeHashes["android"][n]
        BY <2>1, <2>5, <1>f
      <3>2. code[n] \in inXcode[n] \/ n \in unseen["ios"]
        BY <2>0, <2>5
      <3> QED
        BY <2>0, <2>2, <2>5, <3>1, <3>2
    <2> QED
      BY <2>3, <2>4, <2>5
  <1>13. CASE PrepareEnds
    BY <1>13 DEF PrepareEnds, Rest
  <1>14. CASE UNCHANGED pluginVars
    BY <1>14 DEF pluginVars, disk
  <1> QED
    BY <1>1, <1>2, <1>3, <1>4, <1>5, <1>6, <1>7, <1>8, <1>9, <1>10, <1>11, <1>12, <1>13,
       <1>14 DEF PluginNext

(* What a prepare leaves for the build is the native code of the plugins   *)
(* as they are installed, whatever was built, killed, reverted, removed or *)
(* installed before, with the exceptions the property names.               *)
THEOREM PreparesAreCurrent == PluginSpec => []PreparedPluginsAreCurrent
  <1>1. PluginInit => CodeInv
    <2> SUFFICES ASSUME PluginInit PROVE CodeInv
      OBVIOUS
    <2>1. PluginTypes /\ NodeInv
      <3>1. Rest \in NodeTypes
        BY DEF NodeTypes, Rest, Stages, Mobiles, Nothing
      <3>2. [k \in Plugins |-> <<>>] \in [Plugins -> Seq(Nat)]
        OBVIOUS
      <3> QED
        BY <3>1, <3>2 DEF PluginInit, PluginTypes, NodeInv, Rest, Building, Nothing, Mobiles
    <2>2. ASSUME NEW n \in Plugins PROVE MemoryInv(n) /\ PluginInv(n) /\ DoneInv(n)
      BY DEF PluginInit, MemoryInv, PluginInv, DoneInv, Rest, Mobiles
    <2> QED
      BY <2>1, <2>2 DEF CodeInv, PluginInit, Rest
  <1>2. CodeInv /\ [PluginNext]_pluginVars => CodeInv'
    <2> SUFFICES ASSUME CodeInv, [PluginNext]_pluginVars PROVE CodeInv'
      OBVIOUS
    <2>1. PluginTypes' /\ NodeInv'
      BY PluginTypesKept DEF CodeInv
    <2>2. \A n \in Plugins : MemoryInv(n)' /\ PluginInv(n)' /\ DoneInv(n)'
      BY CodeStep
    <2>3. (node.at = "done" => node.todo = {})'
      <3>1. CASE NextPlugin
        BY <3>1 DEF NextPlugin, move, at, CodeInv, PluginTypes, NodeTypes
      <3>2. CASE UNCHANGED node
        BY <3>2 DEF CodeInv
      <3>3. ASSUME NEW m \in Mobiles, PrepareNodeModules(m) PROVE node'.at # "done"
        BY <3>3 DEF PrepareNodeModules, Rest
      <3>4. CASE \/ ShouldBuildAar \/ AddNativeSourceCode \/ AddResourcesAndLibraries
                 \/ CopySources \/ BuildAar
                 \/ WritePluginHashInfo \/ SetPluginNativeHashes
        <4>1. node'.at \in {"added", "taken", "hashed", "copied", "built", "next"}
          BY <3>4 DEF ShouldBuildAar, AddNativeSourceCode, AddResourcesAndLibraries,
             CopySources, BuildAar,
             WritePluginHashInfo, SetPluginNativeHashes, move, at, CodeInv,
             PluginTypes, NodeTypes
        <4> QED
          BY <4>1
      <3>5. CASE PrepareEnds
        BY <3>5 DEF PrepareEnds, Rest
      <3> QED
        BY <3>1, <3>2, <3>3, <3>4, <3>5 DEF pluginVars, PluginNext, EditSources,
           InstallPlugin, RemovePlugin, RemovePlatforms
    <2> QED
      BY <2>1, <2>2, <2>3 DEF CodeInv
  <1>3. CodeInv => PreparedPluginsAreCurrent
    BY DEF CodeInv, DoneInv, Current, PreparedPluginsAreCurrent, at, PluginTypes
  <1> QED
    BY <1>1, <1>2, <1>3, PTL DEF PluginSpec

-----------------------------------------------------------------------------
(* The clean up at the end of the CLI rests on what is registered with the *)
(* cleanup process, the messages under way included.                       *)

Messages == [kind : {"add", "remove"}, thing : Things]

CleanupTypes ==
    /\ cli \in {"runs", "gone"}
    /\ cleanupProcess \in {"none", "pending", "resolved", "rejected"}
    /\ detached \in {"none", "booting", "ready", "cleaning", "gone"}
    /\ messages \in Seq(Messages)
    /\ registered \subseteq Things /\ existing \subseteq Things
    /\ client \in [Things -> {"rest", "asking", "made", "on", "stopping", "closing",
                              "done"}]

\* Messages are sent to a process that is ready, and received before it cleans.
StartInv ==
    /\ cleanupProcess = "none" => existing = {} /\ detached = "none"
    /\ cleanupProcess = "resolved" => detached \notin {"none", "booting"}
    /\ cleanupProcess = "resolved" /\ detached # "ready" => cli = "gone"
    /\ detached = "none" => cleanupProcess = "none"
    /\ messages # <<>> => detached = "ready" /\ cleanupProcess = "resolved"
    /\ detached = "cleaning" => cli = "gone"

\* What exists belongs to a client that is still to register it, is registered or
\* is about to be killed; or it was left behind.
Accounted(t) ==
    /\ t \in existing => client[t] \in {"made", "on", "stopping"} \/ t \in forsaken
    /\ t \in existing /\ cli = "gone" => client[t] = "on" \/ t \in forsaken
    /\ t \in existing /\ client[t] = "on" /\ detached = "gone" => t \in forsaken

\* A message that is sent and not received.
Said(kind, t) ==
    \E n \in 1 .. Len(messages) : messages[n] = [kind |-> kind, thing |-> t]

\* Nothing was said of what is not made.  What is on is registered, or will be
\* and stays so: nothing but "add" was said of it.
Announced(t) ==
    /\ client[t] \in {"rest", "asking", "made"} => ~ Said("add", t) /\ ~ Said("remove", t)
    /\ client[t] = "on" => ~ Said("remove", t)
    /\ client[t] = "on" /\ t \in existing =>
           t \in registered \/ Said("add", t) \/ t \in forsaken
    /\ client[t] \in {"on", "stopping", "closing"} => cleanupProcess = "resolved"
    /\ client[t] = "made" /\ t \in Webpacks => cleanupProcess = "resolved"

CleanupInv == CleanupTypes /\ StartInv /\ \A t \in Things : Accounted(t) /\ Announced(t)

LEMMA CleanupStarts == CleanupInit => CleanupInv
<1> SUFFICES ASSUME CleanupInit PROVE CleanupInv
  OBVIOUS
<1>1. CleanupTypes
  BY DEF CleanupInit, CleanupTypes
<1>2. StartInv
  BY DEF CleanupInit, StartInv
<1>3. ASSUME NEW t \in Things PROVE Accounted(t) /\ Announced(t)
  BY DEF CleanupInit, Accounted, Announced, Said
<1> QED
  BY <1>1, <1>2, <1>3 DEF CleanupInv

\* What send() adds to what was said, and what the cleanup process takes away.
LEMMA SendSays ==
  ASSUME messages \in Seq(Messages), NEW kind \in {"add", "remove"}, NEW t \in Things,
         send(kind, t)
  PROVE  /\ messages' \in Seq(Messages)
         /\ \A k, u : Said(k, u)' <=> Said(k, u) \/ (k = kind /\ u = t)
<1> DEFINE m == [kind |-> kind, thing |-> t]
<1>1. m \in Messages /\ messages' = Append(messages, m)
  BY DEF Messages, send
<1>2. /\ messages' \in Seq(Messages)
      /\ Len(messages') = Len(messages) + 1
      /\ \A n \in 1 .. Len(messages) : messages'[n] = messages[n]
      /\ messages'[Len(messages) + 1] = m
  BY <1>1, AppendProperties
<1>3. Len(messages) \in Nat
  BY LenProperties
<1>4. 1 .. Len(messages') = (1 .. Len(messages)) \union {Len(messages) + 1}
  BY <1>2, <1>3
<1>5. ASSUME NEW k, NEW u
      PROVE  Said(k, u)' <=> Said(k, u) \/ (k = kind /\ u = t)
  <2>1. Said(k, u)' <=> Said(k, u) \/ m = [kind |-> k, thing |-> u]
    BY <1>2, <1>4 DEF Said
  <2>2. m = [kind |-> k, thing |-> u] <=> k = kind /\ u = t
    OBVIOUS
  <2> QED
    BY <2>1, <2>2
<1> QED
  BY <1>2, <1>5

LEMMA ReceiveSays ==
  ASSUME messages \in Seq(Messages), messages # <<>>, messages' = Tail(messages)
  PROVE  /\ messages' \in Seq(Messages)
         /\ Head(messages) \in Messages
         /\ \A k, u : Said(k, u) <=>
              Said(k, u)' \/ Head(messages) = [kind |-> k, thing |-> u]
<1>1. /\ Len(messages) \in Nat /\ Len(messages) >= 1
      /\ Head(messages) = messages[1] /\ messages[1] \in Messages
  BY EmptySeq, LenProperties, ElementOfSeq, HeadTailProperties
<1>2. /\ messages' \in Seq(Messages)
      /\ Len(messages') = Len(messages) - 1
      /\ \A n \in 1 .. Len(messages') : messages'[n] = messages[n + 1]
  BY <1>1, HeadTailProperties
<1>3. ASSUME NEW k, NEW u
      PROVE  Said(k, u) <=> Said(k, u)' \/ Head(messages) = [kind |-> k, thing |-> u]
  <2> DEFINE m == [kind |-> k, thing |-> u]
  <2> HIDE DEF m
  <2>1. ASSUME NEW n \in 1 .. Len(messages), messages[n] = m
        PROVE  Head(messages) = m \/ \E i \in 1 .. Len(messages') : messages'[i] = m
    <3>1. CASE n = 1
      BY <1>1, <2>1, <3>1
    <3>2. CASE n # 1
      <4>1. n - 1 \in 1 .. Len(messages') /\ messages'[n - 1] = messages[n]
        BY <1>1, <1>2, <3>2
      <4> QED
        BY <2>1, <4>1
    <3> QED
      BY <3>1, <3>2
  <2>2. ASSUME NEW n \in 1 .. Len(messages'), messages'[n] = m
        PROVE  \E i \in 1 .. Len(messages) : messages[i] = m
    <3>1. n + 1 \in 1 .. Len(messages) /\ messages[n + 1] = m
      BY <1>1, <1>2, <2>2
    <3> QED
      BY <3>1
  <2>3. Head(messages) = m => \E i \in 1 .. Len(messages) : messages[i] = m
    BY <1>1
  <2> QED
    BY <2>1, <2>2, <2>3 DEF Said, m
<1> QED
  BY <1>1, <1>2, <1>3

LEMMA Unsaid ==
  ASSUME UNCHANGED messages
  PROVE  \A k, u : Said(k, u)' <=> Said(k, u)
  BY DEF Said

LEMMA ClientsStep ==
  ASSUME CleanupInv,
         \/ \E w \in Webpacks :
               \/ StartWebpackProcess(w) \/ SpawnWebpack(w)
               \/ StopWebpack(w) \/ KillWebpack(w) \/ WebpackExits(w) \/ Closed(w)
         \/ \E t \in Temps : MakeTemp(t)
         \/ \E t \in Things : AddCleanup(t) \/ CleanupIsRejected(t)
  PROVE  CleanupInv'
<1> USE CleanupAssumption DEF CleanupInv, CleanupTypes, StartInv, Things, from, to
<1>1. ASSUME NEW w \in Webpacks, StartWebpackProcess(w) PROVE CleanupInv'
  BY <1>1, Unsaid DEF StartWebpackProcess, getCleanupProcess, Accounted, Announced
<1>2. ASSUME NEW w \in Webpacks, SpawnWebpack(w) PROVE CleanupInv'
  BY <1>2, Unsaid DEF SpawnWebpack, Accounted, Announced
<1>3. ASSUME NEW w \in Webpacks, StopWebpack(w) PROVE CleanupInv'
  <2>1. messages' \in Seq(Messages)
        /\ \A k, u : Said(k, u)' <=> Said(k, u) \/ (k = "remove" /\ u = w)
    BY <1>3, SendSays DEF StopWebpack
  <2>2. cleanupProcess = "resolved" /\ detached = "ready"
    BY <1>3 DEF StopWebpack, Announced
  <2> QED
    BY <1>3, <2>1, <2>2 DEF StopWebpack, Accounted, Announced
<1>4. ASSUME NEW w \in Webpacks, KillWebpack(w) PROVE CleanupInv'
  BY <1>4, Unsaid DEF KillWebpack, Accounted, Announced
<1>5. ASSUME NEW w \in Webpacks, WebpackExits(w) PROVE CleanupInv'
  BY <1>5, Unsaid DEF WebpackExits, Accounted, Announced
<1>6. ASSUME NEW w \in Webpacks, Closed(w) PROVE CleanupInv'
  <2>1. messages' \in Seq(Messages)
        /\ \A k, u : Said(k, u)' <=> Said(k, u) \/ (k = "remove" /\ u = w)
    BY <1>6, SendSays DEF Closed
  <2>2. cleanupProcess = "resolved" /\ detached = "ready"
    BY <1>6 DEF Closed, Announced
  <2> QED
    BY <1>6, <2>1, <2>2 DEF Closed, Accounted, Announced
<1>7. ASSUME NEW t \in Temps, MakeTemp(t) PROVE CleanupInv'
  BY <1>7, Unsaid DEF MakeTemp, getCleanupProcess, Accounted, Announced
<1>8. ASSUME NEW t \in Things, AddCleanup(t) PROVE CleanupInv'
  <2>1. messages' \in Seq(Messages)
        /\ \A k, u : Said(k, u)' <=> Said(k, u) \/ (k = "add" /\ u = t)
    BY <1>8, SendSays DEF AddCleanup
  <2>2. cleanupProcess = "resolved" /\ detached = "ready"
    BY <1>8 DEF AddCleanup
  <2> QED
    BY <1>8, <2>1, <2>2 DEF AddCleanup, Accounted, Announced
<1>9. ASSUME NEW t \in Things, CleanupIsRejected(t) PROVE CleanupInv'
  BY <1>9, Unsaid DEF CleanupIsRejected, Accounted, Announced
<1> QED
  BY <1>1, <1>2, <1>3, <1>4, <1>5, <1>6, <1>7, <1>8, <1>9

LEMMA EndStep ==
  ASSUME CleanupInv,
         \/ Ready \/ StartFails \/ Exit \/ IsKilled
         \/ Receive \/ Disconnect \/ DeleteFiles
         \/ \E w \in Webpacks : ExecuteCommand(w)
  PROVE  CleanupInv'
<1> USE CleanupAssumption DEF CleanupInv, CleanupTypes, StartInv, Things
<1>1. CASE Ready
  BY <1>1, Unsaid DEF Ready, Accounted, Announced
<1>2. CASE StartFails
  BY <1>2, Unsaid DEF StartFails, Accounted, Announced
<1>3. CASE Exit
  BY <1>3, Unsaid DEF Exit, Accounted, Announced
<1>4. CASE IsKilled
  BY <1>4, Unsaid DEF IsKilled, Accounted, Announced
<1>5. CASE Receive
  <2>1. /\ messages' \in Seq(Messages)
        /\ Head(messages) \in Messages
        /\ \A k, u : Said(k, u) <=>
             Said(k, u)' \/ Head(messages) = [kind |-> k, thing |-> u]
    BY <1>5, ReceiveSays DEF Receive
  <2>2. PICK k \in {"add", "remove"}, u \in Things :
          Head(messages) = [kind |-> k, thing |-> u]
    BY <2>1 DEF Messages
  <2>3. registered' = IF k = "add" THEN registered \union {u} ELSE registered \ {u}
    <3> HIDE DEF CleanupInv
    <3> DEFINE m == Head(messages)
    <3>1. registered' = IF m.kind = "add" THEN registered \union {m.thing}
                        ELSE registered \ {m.thing}
      BY <1>5 DEF Receive
    <3>2. m.kind = k /\ m.thing = u
      BY <2>2
    <3> QED
      BY <3>1, <3>2
  <2>4. \A j, v : Said(j, v) <=> Said(j, v)' \/ (k = j /\ u = v)
    BY <2>1, <2>2
  <2>5. CleanupTypes' /\ StartInv'
    BY <1>5, <2>1, <2>3 DEF Receive
  <2>6. ASSUME NEW t \in Things PROVE Accounted(t)' /\ Announced(t)'
    BY <1>5, <2>3, <2>4 DEF Receive, Accounted, Announced
  <2> QED
    BY <2>5, <2>6
<1>6. CASE Disconnect
  BY <1>6, Unsaid DEF Disconnect, Accounted, Announced
<1>7. CASE DeleteFiles
  <2>1. \A k, u : ~ Said(k, u)
    BY <1>7 DEF DeleteFiles, Said
  <2>2. CleanupTypes' /\ StartInv'
    BY <1>7 DEF DeleteFiles
  <2>3. ASSUME NEW t \in Things PROVE Accounted(t)' /\ Announced(t)'
    BY <1>7, <2>1, Unsaid DEF DeleteFiles, Accounted, Announced
  <2> QED
    BY <2>2, <2>3
<1>8. ASSUME NEW w \in Webpacks, ExecuteCommand(w) PROVE CleanupInv'
  <2>1. \A k, u : ~ Said(k, u)
    BY <1>8 DEF ExecuteCommand, Said
  <2>2. CleanupTypes' /\ StartInv'
    BY <1>8 DEF ExecuteCommand
  <2>3. ASSUME NEW t \in Things PROVE Accounted(t)' /\ Announced(t)'
    BY <1>8, <2>1, Unsaid DEF ExecuteCommand, Accounted, Announced
  <2> QED
    BY <2>2, <2>3
<1> QED
  BY <1>1, <1>2, <1>3, <1>4, <1>5, <1>6, <1>7, <1>8

LEMMA CleanupStep == CleanupInv /\ [CleanupNext]_cleanupVars => CleanupInv'
<1> SUFFICES ASSUME CleanupInv, [CleanupNext]_cleanupVars PROVE CleanupInv'
  OBVIOUS
<1>1. CASE CleanupNext
  BY <1>1, ClientsStep, EndStep DEF CleanupNext
<1>2. CASE UNCHANGED cleanupVars
  BY <1>2, Unsaid
     DEF cleanupVars, CleanupInv, CleanupTypes, StartInv, Accounted, Announced
<1> QED
  BY <1>1, <1>2

\* Once the CLI is gone and its cleanup process has done its work, no webpack and
\* no temporary file is left, for any number of them and however the CLI ended,
\* except what NothingIsLeftBehind excepts.
THEOREM CleanupIsComplete == CleanupSpec => []NothingIsLeftBehind
<1>1. CleanupInv => NothingIsLeftBehind
  BY DEF CleanupInv, CleanupTypes, StartInv, Accounted, NothingIsLeftBehind
<1> QED
  BY <1>1, CleanupStarts, CleanupStep, PTL DEF CleanupSpec

=============================================================================
