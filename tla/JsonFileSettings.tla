--------------------------- MODULE JsonFileSettings ---------------------------
(***************************************************************************)
(* lib/common/services/json-file-settings-service.ts: settings in one JSON *)
(* file, read and written by several CLI processes.  Every call runs its   *)
(* action with the file lock of LockService, of which this module keeps    *)
(* what the file depends on: the directory is taken when it is free or its *)
(* creator is dead, and whoever waited for it, even in vain, has listed it *)
(* with the cleanup process of its CLI process, which deletes it.          *)
(*                                                                         *)
(* An instance of the service reads the file once and keeps the data.  The *)
(* user settings and the migration resolve a new instance for each call.   *)
(***************************************************************************)
EXTENDS Naturals

CONSTANTS
    Calls,      \* calls of getSettingValue, saveSetting and removeSetting
    Request,    \* what each call asks for: [op, key, value]
    Procs,      \* CLI processes
    ProcOf,     \* the process that makes the call
    Instances,  \* instances of the service
    InstanceOf, \* the instance each call is made on
    Keys,
    Values,
    NoValue,    \* the value of a key that is not set
    Impatient,  \* calls whose wait for the lock may run out of retries
    Killable,   \* processes that may be killed at any moment
    None,       \* no call
    Absent,     \* the file does not exist
    Broken,     \* the file holds no JSON: it is empty, or written in part
    Unloaded    \* jsonSettingsData is null

Data == [Keys -> Values \union {NoValue}]

ASSUME SettingsAssumption ==
    /\ ProcOf \in [Calls -> Procs]
    /\ InstanceOf \in [Calls -> Instances]
    /\ Request \in [Calls -> [op : {"get", "save", "remove"}, key : Keys,
                              value : Values]]
    /\ \A c, d \in Calls : InstanceOf[c] = InstanceOf[d] => ProcOf[c] = ProcOf[d]
    /\ None \notin Calls /\ NoValue \notin Values
    /\ {Absent, Broken, Unloaded} \intersect Data = {}
    /\ Absent # Broken
    /\ Impatient \subseteq Calls /\ Killable \subseteq Procs

VARIABLES
    pc,         \* where each call is
    answer,     \* what its action came to, "pending" before that
    lock,       \* the call that created the lock directory, None if absent
    listed,     \* processes whose cleanup process has the directory listed
    file,       \* the settings file
    data,       \* jsonSettingsData of each instance
    process,    \* state of each CLI process and of its cleanup process
    intruded    \* history: the lock of a running call was deleted by another

vars == <<pc, answer, lock, listed, file, data, process, intruded>>

TypeOK ==
    /\ pc \in [Calls -> {"idle", "wait", "held", "unread", "loaded", "writing",
                         "nested", "rewriting", "rewritten", "leaving",
                         "released", "done"}]
    /\ answer \in [Calls -> {<<"pending">>, <<"saved">>, <<"removed">>, <<"failed">>}
                            \union {<<"got", v>> : v \in Values \union {NoValue}}]
    /\ lock \in Calls \union {None}
    /\ listed \subseteq Procs
    /\ file \in Data \union {Absent, Broken}
    /\ data \in [Instances -> Data \union {Unloaded}]
    /\ process \in [Procs -> {"running", "gone", "swept"}]
    /\ intruded \in BOOLEAN

Empty == [k \in Keys |-> NoValue]

Init ==
    /\ pc = [c \in Calls |-> "idle"]
    /\ answer = [c \in Calls |-> <<"pending">>]
    /\ lock = None /\ listed = {}
    /\ file = Absent
    /\ data = [i \in Instances |-> Unloaded]
    /\ process = [p \in Procs |-> "running"]
    /\ intruded = FALSE

-----------------------------------------------------------------------------
(* The lock *)

Live(c) == process[ProcOf[c]] = "running"

Goes(c, from, to) ==
    /\ Live(c)
    /\ pc[c] = from
    /\ pc' = [pc EXCEPT ![c] = to]

Answers(c, a) == answer' = [answer EXCEPT ![c] = a]

(* The directory is there, and fresh: its creator still refreshes it.      *)
Taken == lock # None /\ Live(lock)

(* The directory is removed for the calls C, whoever created it.           *)
Unlock(C) ==
    /\ lock' = None
    /\ intruded' = (intruded \/ (Taken /\ lock \notin C))

Lists(c) == listed' = listed \union {ProcOf[c]}

(* Mutant: the data is loaded before the lock is taken.                    *)
BeginLoaded(c) ==
    /\ Goes(c, "idle", "wait")
    /\ Lists(c)
    /\ data' = [data EXCEPT ![InstanceOf[c]] =
                  IF @ = Unloaded /\ file \in Data THEN file ELSE @]
    /\ UNCHANGED <<answer, lock, file, process, intruded>>

Begin(c) ==
    /\ Goes(c, "idle", "wait")
    /\ Lists(c)
    /\ UNCHANGED <<answer, lock, file, data, process, intruded>>

Enter(c) ==
    /\ ~Taken
    /\ Goes(c, "wait", "held")
    /\ lock' = c
    /\ UNCHANGED <<answer, listed, file, data, process, intruded>>

(* "Timeout while waiting for lock": the action does not run, and what the *)
(* call has listed stays so.                                               *)
Timeout(c) ==
    /\ c \in Impatient
    /\ lock # None
    /\ Goes(c, "wait", "done")
    /\ Answers(c, <<"failed">>)
    /\ UNCHANGED <<lock, listed, file, data, process, intruded>>

(* Mutant: no `finally' around the action.                                 *)
LeaveSucceeded(c) ==
    /\ Goes(c, "leaving", "released")
    /\ IF answer[c] = <<"failed">> THEN UNCHANGED <<lock, intruded>> ELSE Unlock({c})
    /\ UNCHANGED <<answer, listed, file, data, process>>

(* The release function, not awaited, whatever the action came to.         *)
Leave(c) ==
    /\ Goes(c, "leaving", "released")
    /\ Unlock({c})
    /\ UNCHANGED <<answer, listed, file, data, process>>

(* cleanLock: the process withdraws the directory, for all of its calls.   *)
CleanLock(c) ==
    /\ Goes(c, "released", "done")
    /\ listed' = listed \ {ProcOf[c]}
    /\ UNCHANGED <<answer, lock, file, data, process, intruded>>

(* A process ends, when its calls are over or killed at any moment.        *)
Ends(p) ==
    /\ process[p] = "running"
    /\ p \in Killable \/ \A c \in Calls : ProcOf[c] = p => pc[c] = "done"
    /\ process' = [process EXCEPT ![p] = "gone"]
    /\ UNCHANGED <<pc, answer, lock, listed, file, data, intruded>>

(* Its cleanup process deletes the lock directory if it is listed, even    *)
(* when the process never held the lock.                                   *)
Sweep(p) ==
    /\ process[p] = "gone"
    /\ process' = [process EXCEPT ![p] = "swept"]
    /\ IF p \in listed THEN Unlock({}) ELSE UNCHANGED <<lock, intruded>>
    /\ UNCHANGED <<pc, answer, listed, file, data>>

-----------------------------------------------------------------------------
(* The actions run with the lock *)

Mine(c) == data[InstanceOf[c]]

SetMine(c, d) == data' = [data EXCEPT ![InstanceOf[c]] = d]

(* loadUserSettingsFile: data that was loaded before is kept.  A missing   *)
(* file is written empty first, and what does not parse is deleted.        *)
Load(c) ==
    /\ \/ Mine(c) # Unloaded /\ Goes(c, "held", "loaded") /\ UNCHANGED <<file, data>>
       \/ /\ Mine(c) = Unloaded /\ file \notin {Absent, Broken}
          /\ Goes(c, "held", "loaded")
          /\ SetMine(c, file)
          /\ UNCHANGED file
       \/ /\ Mine(c) = Unloaded /\ file \in {Absent, Broken}
          /\ Goes(c, "held", "unread")
          /\ file' = Broken
          /\ UNCHANGED data
    /\ UNCHANGED <<answer, lock, listed, process, intruded>>

DeleteBroken(c) ==
    /\ Goes(c, "unread", "loaded")
    /\ file' = Absent
    /\ UNCHANGED <<answer, lock, listed, data, process, intruded>>

(* The action of getSettingValue.                                          *)
Read(c) ==
    /\ Request[c].op = "get"
    /\ Goes(c, "loaded", "leaving")
    /\ Answers(c, <<"got", IF Mine(c) = Unloaded THEN NoValue
                           ELSE Mine(c)[Request[c].key]>>)
    /\ UNCHANGED <<lock, listed, file, data, process, intruded>>

(* Mutant: the instance drops its data before writeJson has used it.       *)
WriteDropped(c) ==
    /\ Request[c].op = "save"
    /\ Goes(c, "loaded", "writing")
    /\ Answers(c, <<"saved">>)
    /\ SetMine(c, Unloaded)
    /\ file' = Broken
    /\ UNCHANGED <<lock, listed, process, intruded>>

(* The action of saveSettings up to the middle of writeJson, where the     *)
(* old contents of the file are gone.                                      *)
Write(c) ==
    /\ Request[c].op = "save"
    /\ Goes(c, "loaded", "writing")
    /\ Answers(c, <<"saved">>)
    /\ SetMine(c, [(IF Mine(c) = Unloaded THEN Empty ELSE Mine(c))
                     EXCEPT ![Request[c].key] = Request[c].value])
    /\ file' = Broken
    /\ UNCHANGED <<lock, listed, process, intruded>>

(* The rest of writeJson.  A file that somebody has deleted meanwhile does *)
(* not come back, and over what somebody else has written the outcome may  *)
(* be a mixture.                                                           *)
Written(c) ==
    /\ Goes(c, "writing", "leaving") \/ Goes(c, "rewriting", "rewritten")
    /\ file' \in IF file = Absent THEN {Absent}
                 ELSE {Mine(c)} \union (IF file = Broken THEN {} ELSE {Broken})
    /\ UNCHANGED <<answer, lock, listed, data, process, intruded>>

(* The action of removeSetting: without data `delete' throws, with data it *)
(* calls saveSettings, which waits for the lock this call holds.           *)
Remove(c) ==
    /\ Request[c].op = "remove"
    /\ \/ /\ Mine(c) = Unloaded
          /\ Goes(c, "loaded", "leaving")
          /\ Answers(c, <<"failed">>)
          /\ UNCHANGED <<data, listed>>
       \/ /\ Mine(c) # Unloaded
          /\ Goes(c, "loaded", "nested")
          /\ SetMine(c, [Mine(c) EXCEPT ![Request[c].key] = NoValue])
          /\ Lists(c)
          /\ UNCHANGED answer
    /\ UNCHANGED <<lock, file, process, intruded>>

NestedTimeout(c) ==
    /\ lock # None
    /\ Goes(c, "nested", "leaving")
    /\ Answers(c, <<"failed">>)
    /\ UNCHANGED <<lock, listed, file, data, process, intruded>>

(* Only when somebody has deleted its lock does the nested call get it.    *)
NestedEnter(c) ==
    /\ ~Taken
    /\ Goes(c, "nested", "rewriting")
    /\ Answers(c, <<"removed">>)
    /\ lock' = c
    /\ file' = Broken
    /\ UNCHANGED <<listed, data, process, intruded>>

NestedLeave(c) ==
    /\ Goes(c, "rewritten", "leaving")
    /\ Unlock({c})
    /\ UNCHANGED <<answer, listed, file, data, process>>

Step(c) ==
    \/ Begin(c) \/ Enter(c) \/ Timeout(c) \/ Leave(c) \/ CleanLock(c)
    \/ Load(c) \/ DeleteBroken(c) \/ Read(c) \/ Write(c) \/ Written(c)
    \/ Remove(c) \/ NestedTimeout(c) \/ NestedEnter(c) \/ NestedLeave(c)

Next ==
    \/ \E c \in Calls : Step(c)
    \/ \E p \in Procs : Ends(p) \/ Sweep(p)

Spec == Init /\ [][Next]_vars

(* Processes that run make progress, and so do the cleanup processes.      *)
(* Every call is made once, so weak fairness serves each waiter in the end. *)
FairSpec ==
    /\ Spec
    /\ \A c \in Calls : WF_vars(Step(c))
    /\ \A p \in Procs : WF_vars(Sweep(p))

-----------------------------------------------------------------------------
(* A live process is inside writeJson.                                     *)
Writing == Taken /\ pc[lock] = "writing"

(* What the file holds for the next call: what is being written, and       *)
(* nothing when it does not parse.                                         *)
Content ==
    IF Writing THEN Mine(lock)
    ELSE IF file \in {Absent, Broken} THEN Empty ELSE file

Ended == {p \in Procs : process[p] # "running"}

Store == INSTANCE SettingsStore WITH
    store <- Content,
    ended <- Ended,
    MayFail <- Impatient \union {c \in Calls : Request[c].op = "remove"}

(* Concurrent calls of several processes behave as calls of one store, one *)
(* at a time: no setting another process saved is overwritten or missed,   *)
(* and a call that fails changes nothing (executeActionWithLock around     *)
(* load, change and write).  Only the kill of a process may lose the       *)
(* settings, and the promise ends when a cleanup process, or the call it   *)
(* robbed, deletes the lock of a running call.                             *)
IsStore == Store!Init /\ [][Store!Next \/ intruded']_<<Content, answer, Ended>>

(* Every call of a process that is not killed returns, removeSetting too   *)
(* although it waits for itself (the retries of the lock run out).         *)
EveryCallReturns ==
    \A c \in Calls : pc[c] = "wait" ~> (pc[c] = "done" \/ ~Live(c))

=============================================================================
