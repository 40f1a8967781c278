--------------------------- MODULE PluginNativeCode ---------------------------
(***************************************************************************)
(* The native code of plugins on its way into the native projects, and the *)
(* hashes that say it is there already.                                    *)
(*   lib/tools/node-modules/node-modules-builder.ts: one plugin after the  *)
(*     other;                                                              *)
(*   lib/services/plugins-service.ts: preparePluginNativeCode() and        *)
(*     .ns-plugins-build-data.json of each platform; add() and remove();   *)
(*   lib/services/android-project-service.ts and                           *)
(*     android-plugin-build-service.ts: an .aar built from the sources, in *)
(*     a folder that keeps the hashes of what it was built from;           *)
(*   lib/services/ios-project-service.ts: the sources added to the Xcode   *)
(*     project.                                                            *)
(*                                                                         *)
(* Sources are versions, hashes the versions they were taken of.  Plugins  *)
(* change at any time, and the CLI may be killed at any step.              *)
(***************************************************************************)
EXTENDS Naturals

CONSTANTS
    Plugins,
    MaxVersion,     \* bound: versions of a plugin
    MaxPluginEdits, \* bound: plugins installed, removed or edited
    MaxPrepares     \* bound: prepares begun

ASSUME PluginAssumption ==
    MaxVersion \in Nat /\ MaxPluginEdits \in Nat /\ MaxPrepares \in Nat

VARIABLES
    code,           \* the version in node_modules; 0: not installed
    aar,            \* the version the .aar beside the sources was built from
    tempPlugin,     \* platforms/tempPlugin: the version of its plugin-data.json
    inXcode,        \* the versions of which the Xcode project has all files
    nativeHashes,   \* .ns-plugins-build-data.json of each platform
    node,           \* where prepareNodeModules() is
    unseen,         \* plugins of which the hashes may say too much
    withdrawn,      \* taken from the Xcode project, their hashes kept
    touched,        \* plugins changed since the prepare began
    edits, prepares

disk == <<code, aar, tempPlugin, inXcode, nativeHashes>>
pluginVars == <<disk, node, unseen, withdrawn, touched, edits, prepares>>

Nothing == 0            \* no version, and no entry for a plugin
Mobiles == {"android", "ios"}
Rest == [at |-> "rest", mobile |-> "android", todo |-> {}, plugin |-> "none",
         hash |-> Nothing, copied |-> Nothing]

PluginInit ==
    /\ code = [n \in Plugins |-> 1]
    /\ aar = [n \in Plugins |-> Nothing]
    /\ tempPlugin = [n \in Plugins |-> Nothing]
    /\ inXcode = [n \in Plugins |-> {}]
    /\ nativeHashes = [m \in Mobiles |-> [n \in Plugins |-> <<>>]]
    /\ node = Rest
    /\ unseen = [m \in Mobiles |-> {}]
    /\ withdrawn = {} /\ touched = {}
    /\ edits = 0 /\ prepares = 0

\* getPluginNativeHashes(): the .aar is among the files of the Android folder.
files(m, n) == IF m = "android" THEN <<code[n], aar[n]>> ELSE <<code[n]>>

at(place) == node.at = place
move(place) == node' = [node EXCEPT !.at = place]

(***************************************************************************)
(* Plugins change                                                          *)
(***************************************************************************)
edited(n) ==
    /\ edits < MaxPluginEdits /\ edits' = edits + 1
    /\ touched' = touched \union {n}
    /\ unseen' = [m \in Mobiles |->
           IF /\ m = node.mobile /\ n = node.plugin
              /\ node.at \in {"added", "hashed", "copied", "built", "taken"}
           THEN unseen[m] \union {n} ELSE unseen[m]]

\* The developer edits the native sources of a plugin.
EditSources(n) ==
    /\ code[n] # Nothing
    /\ edited(n)
    /\ \E v \in 1..MaxVersion \ {code[n]} : code' = [code EXCEPT ![n] = v]
    /\ UNCHANGED <<aar, tempPlugin, inXcode, nativeHashes, node, withdrawn, prepares>>

\* add(), or the package manager: the folder is replaced.
InstallPlugin(n) ==
    /\ edited(n)
    /\ \E v \in 1..MaxVersion : code' = [code EXCEPT ![n] = v]
    /\ aar' = [aar EXCEPT ![n] = Nothing]
    /\ UNCHANGED <<tempPlugin, inXcode, nativeHashes, node, withdrawn, prepares>>

\* remove(): removePluginNativeCode(), which Android does not implement and iOS
\* does by the names of the files installed, those of no version being complete
\* then; and the package manager.  The hashes stay.
RemovePlugin(n) ==
    /\ code[n] # Nothing /\ at("rest")
    /\ edited(n)
    /\ inXcode' = [inXcode EXCEPT ![n] = {}]
    /\ withdrawn' = IF nativeHashes["ios"][n] = <<>> THEN withdrawn
                    ELSE withdrawn \union {n}
    /\ code' = [code EXCEPT ![n] = Nothing]
    /\ aar' = [aar EXCEPT ![n] = Nothing]
    /\ UNCHANGED <<tempPlugin, nativeHashes, node, prepares>>

\* A platform is removed, or all of the folder platforms.
RemovePlatforms ==
    /\ at("rest") /\ edits < MaxPluginEdits /\ edits' = edits + 1
    /\ \E gone \in {{"android"}, {"ios"}, Mobiles} :
          /\ nativeHashes' = [m \in Mobiles |-> IF m \in gone THEN [n \in Plugins |-> <<>>]
                                                ELSE nativeHashes[m]]
          /\ IF "ios" \in gone
             THEN inXcode' = [n \in Plugins |-> {}] /\ withdrawn' = {}
             ELSE UNCHANGED <<inXcode, withdrawn>>
          /\ tempPlugin' = IF gone = Mobiles THEN [n \in Plugins |-> Nothing]
                           ELSE tempPlugin
    /\ UNCHANGED <<code, aar, node, unseen, touched, prepares>>

(***************************************************************************)
(* prepareNodeModules()                                                    *)
(***************************************************************************)
\* getAllProductionPlugins(): those installed when it begins.
PrepareNodeModules(m) ==
    /\ node.at \in {"rest", "done"}
    /\ prepares < MaxPrepares
    /\ prepares' = prepares + 1
    /\ node' = [Rest EXCEPT !.at = "next", !.mobile = m,
                            !.todo = {n \in Plugins : code[n] # Nothing}]
    /\ touched' = {}
    /\ UNCHANGED <<disk, unseen, withdrawn, edits>>

\* preparePluginNativeCode(): nothing is done for a plugin without its files,
\* or with the files of the last time.
NextPlugin ==
    /\ at("next")
    /\ IF node.todo = {} THEN move("done")
       ELSE \E n \in node.todo :
          node' = [node EXCEPT !.plugin = n, !.todo = @ \ {n},
              !.at = IF code[n] = Nothing \/ nativeHashes[node.mobile][n] = files(node.mobile, n)
                     THEN "next" ELSE "prepare"]
    /\ UNCHANGED <<disk, unseen, withdrawn, touched, edits, prepares>>

\* iOS: the project is saved with the sources, then with the resources and with
\* each framework and library.  What is there of other versions stays.
AddNativeSourceCode ==
    /\ at("prepare") /\ node.mobile = "ios"
    /\ node' = [node EXCEPT !.at = "added", !.copied = code[node.plugin]]
    /\ UNCHANGED <<disk, unseen, withdrawn, touched, edits, prepares>>

AddResourcesAndLibraries ==
    LET n == node.plugin  whole == {code[n]} \intersect {node.copied} IN
    /\ at("added")
    /\ inXcode' = [inXcode EXCEPT ![n] = @ \union whole]
    /\ move("taken")
    /\ UNCHANGED <<code, aar, tempPlugin, nativeHashes, unseen, withdrawn, touched, edits,
                   prepares>>

\* Android, buildAar(): the sources are hashed, and built unless the folder of
\* the last build has these hashes and the .aar is there.
ShouldBuildAar ==
    LET n == node.plugin IN
    /\ at("prepare") /\ node.mobile = "android"
    /\ node' = [node EXCEPT !.hash = code[n],
           !.at = IF tempPlugin[n] = code[n] /\ aar[n] # Nothing THEN "taken" ELSE "hashed"]
    /\ UNCHANGED <<disk, unseen, withdrawn, touched, edits, prepares>>

(* Mutant: the hashes are written before gradle has built.                 *)
CopySourcesAndWriteHashes ==
    /\ at("hashed")
    /\ tempPlugin' = [tempPlugin EXCEPT ![node.plugin] = node.hash]
    /\ node' = [node EXCEPT !.at = "copied", !.copied = code[node.plugin]]
    /\ UNCHANGED <<code, aar, inXcode, nativeHashes, unseen, withdrawn, touched, edits,
                   prepares>>

\* cleanPluginDir(), which deletes the hashes, and the sources copied.
CopySources ==
    /\ at("hashed")
    /\ tempPlugin' = [tempPlugin EXCEPT ![node.plugin] = Nothing]
    /\ node' = [node EXCEPT !.at = "copied", !.copied = code[node.plugin]]
    /\ UNCHANGED <<code, aar, inXcode, nativeHashes, unseen, withdrawn, touched, edits,
                   prepares>>

\* gradle, and copyAar().
BuildAar ==
    /\ at("copied")
    /\ aar' = [aar EXCEPT ![node.plugin] = node.copied]
    /\ move("built")
    /\ UNCHANGED <<code, tempPlugin, inXcode, nativeHashes, unseen, withdrawn, touched, edits,
                   prepares>>

\* writePluginHashInfo(): the hashes of before the build; migrateIncludeGradle()
\* may change a file after that.
WritePluginHashInfo ==
    /\ at("built")
    /\ \E h \in {node.hash, Nothing} : tempPlugin' = [tempPlugin EXCEPT ![node.plugin] = h]
    /\ move("taken")
    /\ UNCHANGED <<code, aar, inXcode, nativeHashes, unseen, withdrawn, touched, edits,
                   prepares>>

\* setPluginNativeHashes(): of the files as they are now.
SetPluginNativeHashes ==
    LET m == node.mobile  n == node.plugin IN
    /\ at("taken")
    /\ nativeHashes' = [nativeHashes EXCEPT ![m][n] = files(m, n)]
    /\ node' = [node EXCEPT !.at = "next", !.hash = Nothing, !.copied = Nothing]
    /\ withdrawn' = IF m = "ios" THEN withdrawn \ {n} ELSE withdrawn
    /\ UNCHANGED <<code, aar, tempPlugin, inXcode, unseen, touched, edits, prepares>>

\* The CLI is killed, or gradle or a file operation fails.
PrepareEnds ==
    /\ node.at \notin {"rest", "done"}
    /\ node' = Rest
    /\ UNCHANGED <<disk, unseen, withdrawn, touched, edits, prepares>>

PluginNext ==
    \/ \E n \in Plugins : EditSources(n) \/ InstallPlugin(n) \/ RemovePlugin(n)
    \/ RemovePlatforms
    \/ \E m \in Mobiles : PrepareNodeModules(m)
    \/ NextPlugin \/ AddNativeSourceCode \/ AddResourcesAndLibraries
    \/ ShouldBuildAar \/ CopySources \/ BuildAar \/ WritePluginHashInfo
    \/ SetPluginNativeHashes \/ PrepareEnds

PluginSpec == PluginInit /\ [][PluginNext]_pluginVars

\* What a prepare leaves for the build is the native code of the plugins as
\* they are installed, whatever was built, killed, reverted, removed or
\* installed before: the .aar is theirs, and the Xcode project has all their
\* files, those of other versions perhaps beside them.  Unless a plugin once
\* changed while it was prepared, between the first of its files that were read
\* and the hashes written, or it was taken from the Xcode project by remove().
PreparedPluginsAreCurrent ==
    at("done") =>
        \A n \in Plugins \ (touched \union unseen[node.mobile]) : code[n] # Nothing =>
            IF node.mobile = "android" THEN aar[n] = code[n]
            ELSE n \in withdrawn \/ code[n] \in inXcode[n]

=============================================================================
