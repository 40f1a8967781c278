------------------------------ MODULE MCServices ------------------------------
(* Instances of the components that share no state: a behaviour is one of  *)
(* the component that part names, the others stand still.                  *)
EXTENDS ProjectBuild, PluginNativeCode, Migration, DeviceDetection, CleanupService

CONSTANTS a, b, i       \* two Android devices and one of iOS

VARIABLE part

TwoPlatforms == ("android" :> "android") @@ ("ios" :> "ios")
ThreeDevices == (a :> "android") @@ (b :> "android") @@ (i :> "ios")

\* Nothing tells the two Android devices apart: which one NoVisit names is
\* never read.
AndroidDevices == Permutations({a, b})

ServicesInit ==
    /\ part \in {"build", "plugins", "migration", "detection", "cleanup"}
    /\ BuildInit /\ (part # "build" => command = "run")
    /\ PluginInit
    /\ MigrationInit
    /\ DetectionInit /\ (part # "detection" => attached = Unlisted)
    /\ CleanupInit

ServicesNext ==
    /\ UNCHANGED part
    /\ \/ /\ part = "build" /\ BuildNext
          /\ UNCHANGED <<pluginVars, migrationVars, detectionVars, cleanupVars>>
       \/ /\ part = "plugins" /\ PluginNext
          /\ UNCHANGED <<buildVars, migrationVars, detectionVars, cleanupVars>>
       \/ /\ part = "migration" /\ MigrationNext
          /\ UNCHANGED <<buildVars, pluginVars, detectionVars, cleanupVars>>
       \/ /\ part = "detection" /\ DetectionNext
          /\ UNCHANGED <<buildVars, pluginVars, migrationVars, cleanupVars>>
       \/ /\ part = "cleanup" /\ CleanupNext
          /\ UNCHANGED <<buildVars, pluginVars, migrationVars, detectionVars>>

ServicesSpec ==
    ServicesInit
    /\ [][ServicesNext]_<<part, buildVars, pluginVars, migrationVars, detectionVars,
                         cleanupVars>>
=============================================================================
