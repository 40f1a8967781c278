---------------------------- MODULE DeviceDetection ----------------------------
(***************************************************************************)
(* How the CLI learns of Android devices that come, go and change their    *)
(* status.                                                                 *)
(*   lib/common/mobile/mobile-core/android-device-discovery.ts and         *)
(*     device-discovery.ts: one check, from the answer of adb to the       *)
(*     events deviceFound and deviceLost;                                  *)
(*   lib/common/mobile/mobile-core/devices-service.ts: who checks when,    *)
(*     and the devices the rest of the CLI sees.                           *)
(*                                                                         *)
(* initialize() and the interval may check at the same time: a second call *)
(* of initialize() is let in after one that failed, and the interval has   *)
(* been started by then.                                                   *)
(***************************************************************************)
EXTENDS Naturals

CONSTANTS
    Phones,         \* the devices adb may list
    MaxPlugs,       \* bound: changes of what is attached
    MaxChecks       \* bound: checks begun

ASSUME DetectionAssumption == MaxPlugs \in Nat /\ MaxChecks \in Nat

VARIABLES
    attached,       \* the status of each device, as adb sees it
    tracked,        \* _devices of AndroidDeviceDiscovery
    known,          \* devices of DeviceDiscovery and _devices of DevicesService
    checker,        \* where the check of each caller is
    listing,        \* what adb has answered it
    inits,          \* device.init() under way, and the check that waits for it
    interval,       \* deviceDetectionInterval: unset, running, stopped
    unusable,       \* devices whose init() has failed since they were tracked
    hasty,          \* devices that went while their init() was under way
    plugs, checks

detectionVars == <<attached, tracked, known, checker, listing, inits, interval,
                   unusable, hasty, plugs, checks>>

Callers == {"initialize", "interval"}
Status == {"none", "offline", "device"}
Nobody == "nobody"
Unlisted == [d \in Phones |-> "none"]

DetectionInit ==
    /\ attached \in [Phones -> {"none", "device"}]
    /\ tracked = Unlisted
    /\ known = Unlisted
    /\ checker = [c \in Callers |-> "idle"]
    /\ listing = [c \in Callers |-> Unlisted]
    /\ inits = {}
    /\ interval = "unset"
    /\ unusable = {} /\ hasty = {}
    /\ plugs = 0 /\ checks = 0

\* A device is plugged in, unplugged, or changes its status.
Plug(d) ==
    /\ plugs < MaxPlugs
    /\ plugs' = plugs + 1
    /\ \E s \in Status \ {attached[d]} : attached' = [attached EXCEPT ![d] = s]
    /\ UNCHANGED <<tracked, known, checker, listing, inits, interval, unusable, hasty,
                   checks>>

\* initialize() looks for devices; so does the interval, unless its last check
\* goes on.
StartLookingForDevices(c) ==
    /\ checker[c] = "idle"
    /\ c = "interval" => interval = "running"
    /\ checks < MaxChecks
    /\ checks' = checks + 1
    /\ checker' = [checker EXCEPT ![c] = "asking"]
    /\ UNCHANGED <<attached, tracked, known, listing, inits, interval, unusable, hasty,
                   plugs>>

\* adb.getDevices() answers, or fails and the check is over.
GetDevices(c) ==
    /\ checker[c] = "asking"
    /\ \/ /\ checker' = [checker EXCEPT ![c] = "answered"]
          /\ listing' = [listing EXCEPT ![c] = attached]
       \/ /\ checker' = [checker EXCEPT ![c] = "idle"]
          /\ UNCHANGED listing
    /\ UNCHANGED <<attached, tracked, known, inits, interval, unusable, hasty, plugs,
                   checks>>

(***************************************************************************)
(* checkCurrentData()                                                      *)
(***************************************************************************)
\* Devices that are not listed as they are tracked.
gone(list) == {d \in Phones : tracked[d] # "none" /\ list[d] # tracked[d]}
fresh(list) == {d \in Phones : list[d] # "none" /\ list[d] # tracked[d]}

(* Mutant: a device that goes is forgotten by the discovery only.          *)
lostUnreported(list) == known

\* deleteAndRemoveDevice(): deviceLost is raised for a device that was found;
\* one whose init() goes on is passed over.
lost(list) == [d \in Phones |-> IF d \in gone(list) THEN "none" ELSE known[d]]

\* createAndAddDevice() tracks a device, then begins its init(); the check
\* waits for all it began.
CheckCurrentData(c) ==
    LET list == listing[c] IN
    /\ checker[c] = "answered"
    /\ tracked' = list
    /\ known' = lost(list)
    /\ inits' = inits \union {[owner |-> c, device |-> d, status |-> list[d]] :
                                  d \in fresh(list)}
    /\ hasty' = hasty \union {d \in gone(list) : \E i \in inits : i.device = d}
    /\ unusable' = unusable \ gone(list)
    /\ checker' = [checker EXCEPT ![c] = IF fresh(list) = {} THEN "idle" ELSE "waiting"]
    /\ listing' = [listing EXCEPT ![c] = Unlisted]
    /\ UNCHANGED <<attached, interval, plugs, checks>>

\* addDevice(): onDeviceFound().
InitEnds(i) ==
    /\ known' = [known EXCEPT ![i.device] = i.status]
    /\ inits' = inits \ {i}
    /\ checker' = IF i.owner # Nobody /\ \A j \in inits \ {i} : j.owner # i.owner
                  THEN [checker EXCEPT ![i.owner] = "idle"] ELSE checker
    /\ UNCHANGED <<attached, tracked, listing, interval, unusable, hasty, plugs, checks>>

\* The check fails with the first init() that does; the others go on and
\* nobody waits for them.
InitFails(i) ==
    /\ inits' = {IF j.owner = i.owner THEN [j EXCEPT !.owner = Nobody] ELSE j :
                     j \in inits \ {i}}
    /\ checker' = IF i.owner # Nobody THEN [checker EXCEPT ![i.owner] = "idle"]
                  ELSE checker
    /\ unusable' = unusable \union {i.device}
    /\ UNCHANGED <<attached, tracked, known, listing, interval, hasty, plugs, checks>>

(***************************************************************************)
(* The interval                                                            *)
(***************************************************************************)
\* After the first search of an initialize() without a platform.
StartDeviceDetectionInterval ==
    /\ interval = "unset"
    /\ checks > 0 /\ checker["initialize"] = "idle"
    /\ interval' = "running"
    /\ UNCHANGED <<attached, tracked, known, checker, listing, inits, unusable, hasty,
                   plugs, checks>>

\* The cleared interval is kept: no other is started.
StopDeviceDetectionInterval ==
    /\ interval = "running"
    /\ interval' = "stopped"
    /\ UNCHANGED <<attached, tracked, known, checker, listing, inits, unusable, hasty,
                   plugs, checks>>

DetectionNext ==
    \/ \E d \in Phones : Plug(d)
    \/ \E c \in Callers : StartLookingForDevices(c) \/ GetDevices(c) \/ CheckCurrentData(c)
    \/ \E i \in inits : InitEnds(i) \/ InitFails(i)
    \/ StartDeviceDetectionInterval \/ StopDeviceDetectionInterval

DetectionSpec == DetectionInit /\ [][DetectionNext]_detectionVars

\* Once the discovery has caught up with adb and nothing is under way, the CLI
\* knows the devices that are attached, with their status, and no other: except
\* one whose init() failed, or that went while its init() was under way.
DetectionSettles ==
    inits = {} /\ tracked = attached =>
        \A d \in Phones \ (hasty \union unusable) : known[d] = attached[d]

=============================================================================
