------------------------ MODULE JsonFileSettingsProofs ------------------------
(***************************************************************************)
(* The settings file implements the store, for any calls, keys, values and *)
(* processes, whoever is killed or gives up waiting, when every call has   *)
(* an instance of its own (as the user settings and the migration          *)
(* arrange).                                                               *)
(***************************************************************************)
EXTENDS JsonFileSettings, TLAPS

(* What is written was loaded before.                                      *)
WriterHasData ==
    \A c \in Calls : pc[c] \in {"nested", "writing", "rewriting"} => Mine(c) \in Data

TypeInv == TypeOK /\ WriterHasData

(* Data is apart from the three marks.                                     *)
LEMMA Apart == ASSUME NEW x \in Data PROVE x \notin {Absent, Broken, Unloaded}
  BY SettingsAssumption

LEMMA EmptyIsData == Empty \in Data
  BY DEF Empty, Data

LEMMA UpdateType == ASSUME NEW x \in Data, NEW k \in Keys,
                           NEW v \in Values \union {NoValue}
                    PROVE [x EXCEPT ![k] = v] \in Data
  BY DEF Data

LEMMA RequestType == ASSUME NEW c \in Calls
                     PROVE Request[c].key \in Keys /\ Request[c].value \in Values
  BY SettingsAssumption

(* What an instance gets: it is data.                                      *)
LEMMA MineType == ASSUME TypeOK, NEW c \in Calls
                  PROVE /\ Mine(c) \in Data \union {Unloaded}
                        /\ Mine(c) # Unloaded => Mine(c) \in Data
                        /\ InstanceOf[c] \in Instances
  BY SettingsAssumption DEF TypeOK, Mine

(* A step of a call that may touch data sets its own instance to data.     *)
Sets(c) ==
    \/ UNCHANGED data
    \/ \E d \in Data : data' = [data EXCEPT ![InstanceOf[c]] = d]

LEMMA SetsStep ==
    ASSUME TypeOK, NEW c \in Calls, Load(c) \/ Write(c) \/ Remove(c)
    PROVE  Sets(c)
<1>1. CASE Load(c)
  BY <1>1 DEF Load, SetMine, Sets, TypeOK
<1>2. CASE Write(c)
  <2> DEFINE old == IF Mine(c) = Unloaded THEN Empty ELSE Mine(c)
             new == [old EXCEPT ![Request[c].key] = Request[c].value]
  <2>1. old \in Data
    BY MineType, EmptyIsData
  <2>2. new \in Data
    BY <2>1, RequestType, UpdateType
  <2>3. data' = [data EXCEPT ![InstanceOf[c]] = new]
    BY <1>2 DEF Write, SetMine
  <2> HIDE DEF new
  <2>4. QED
    BY <2>2, <2>3 DEF Sets
<1>3. CASE Remove(c)
  <2> DEFINE new == [Mine(c) EXCEPT ![Request[c].key] = NoValue]
  <2>1. CASE Mine(c) = Unloaded
    BY <1>3, <2>1 DEF Remove, Sets
  <2>2. CASE Mine(c) # Unloaded
    <3>1. new \in Data
      BY <2>2, MineType, RequestType, UpdateType
    <3>2. data' = [data EXCEPT ![InstanceOf[c]] = new]
      BY <1>3, <2>2 DEF Remove, SetMine
    <3> HIDE DEF new
    <3>3. QED
      BY <3>1, <3>2 DEF Sets
  <2>3. QED
    BY <2>1, <2>2
<1>4. QED
  BY <1>1, <1>2, <1>3

LEMMA TypeInvInit == Init => TypeInv
  BY DEF Init, TypeInv, TypeOK, WriterHasData

(* Every step keeps the types; what Written writes was loaded.             *)
LEMMA TypeInvStep == ASSUME TypeInv, [Next]_vars PROVE TypeInv'
<1> USE SettingsAssumption DEF TypeInv, TypeOK, WriterHasData, Mine
<1>1. ASSUME NEW c \in Calls,
             \/ Begin(c) \/ Enter(c) \/ Timeout(c) \/ Leave(c) \/ CleanLock(c)
             \/ DeleteBroken(c) \/ NestedTimeout(c) \/ NestedLeave(c)
      PROVE TypeInv'
  <2>1. TypeOK'
    <3>1. CASE Begin(c) \/ Enter(c) \/ CleanLock(c) \/ DeleteBroken(c)
      BY <3>1 DEF Begin, Enter, CleanLock, DeleteBroken, Goes, Lists
    <3>2. CASE Timeout(c) \/ NestedTimeout(c)
      <4>1. /\ answer' = [answer EXCEPT ![c] = <<"failed">>]
            /\ pc' \in {[pc EXCEPT ![c] = "done"], [pc EXCEPT ![c] = "leaving"]}
            /\ UNCHANGED <<lock, listed, file, data, process, intruded>>
        BY <3>2 DEF Timeout, NestedTimeout, Goes, Answers
      <4>2. QED
        BY <4>1
    <3>3. CASE Leave(c)
      BY <3>3 DEF Leave, Goes, Unlock
    <3>4. CASE NestedLeave(c)
      BY <3>4 DEF NestedLeave, Goes, Unlock
    <3>5. QED
      BY <1>1, <3>1, <3>2, <3>3, <3>4
  <2>2. /\ UNCHANGED data
        /\ \A d \in Calls : pc'[d] \in {"nested", "writing", "rewriting"} =>
              pc'[d] = pc[d]
    BY <1>1 DEF Begin, Enter, Timeout, Leave, CleanLock, DeleteBroken,
                NestedTimeout, NestedLeave, Goes
  <2>3. QED
    BY <2>1, <2>2
<1>2. ASSUME NEW c \in Calls, NestedEnter(c) PROVE TypeInv'
  <2>1. TypeOK'
    BY <1>2 DEF NestedEnter, Goes, Answers
  <2>2. /\ UNCHANGED data /\ pc[c] = "nested"
        /\ \A d \in Calls : d # c => pc'[d] = pc[d]
    BY <1>2 DEF NestedEnter, Goes
  <2>3. QED
    BY <2>1, <2>2
<1>3. ASSUME NEW c \in Calls, Written(c) PROVE TypeInv'
  <2>1. file' \in Data \union {Absent, Broken}
    BY <1>3 DEF Written, Goes
  <2>2. /\ UNCHANGED <<answer, lock, listed, data, process, intruded>>
        /\ pc' \in [Calls -> {"idle", "wait", "held", "unread", "loaded", "writing",
                         "nested", "rewriting", "rewritten", "leaving",
                         "released", "done"}]
        /\ pc'[c] \in {"leaving", "rewritten"}
        /\ \A d \in Calls : d # c => pc'[d] = pc[d]
    BY <1>3 DEF Written, Goes
  <2>3. QED
    BY <2>1, <2>2
<1>4. ASSUME NEW c \in Calls, Read(c) PROVE TypeInv'
  <2> DEFINE v == IF Mine(c) = Unloaded THEN NoValue ELSE Mine(c)[Request[c].key]
  <2>1. v \in Values \union {NoValue}
    BY MineType, RequestType DEF Data
  <2>2. answer' = [answer EXCEPT ![c] = <<"got", v>>]
    BY <1>4 DEF Read, Answers
  <2> HIDE DEF v
  <2>3. answer' \in [Calls -> {<<"pending">>, <<"saved">>, <<"removed">>, <<"failed">>}
                            \union {<<"got", w>> : w \in Values \union {NoValue}}]
    BY <2>1, <2>2
  <2>4. /\ UNCHANGED <<lock, listed, file, data, process, intruded>>
        /\ pc' = [pc EXCEPT ![c] = "leaving"]
    BY <1>4 DEF Read, Goes
  <2>5. QED
    BY <2>3, <2>4
<1>5. ASSUME NEW c \in Calls, Load(c) \/ Write(c) \/ Remove(c) PROVE TypeInv'
  <2>1. Sets(c)
    BY <1>5, SetsStep
  <2>2. /\ data' \in [Instances -> Data \union {Unloaded}]
        /\ \A d \in Calls : data[InstanceOf[d]] # Unloaded => data'[InstanceOf[d]] \in Data
    <3>1. CASE UNCHANGED data
      BY <3>1
    <3>2. ASSUME NEW x \in Data, data' = [data EXCEPT ![InstanceOf[c]] = x]
          PROVE  <2>2!:
      <4>1. data' \in [Instances -> Data \union {Unloaded}]
        BY <3>2
      <4>2. \A i \in Instances : data'[i] \in {data[i], x}
        BY <3>2
      <4>3. QED
        BY <4>1, <4>2
    <3>3. QED
      BY <2>1, <3>1, <3>2 DEF Sets
  <2>3. /\ \A d \in Calls : d # c => pc'[d] = pc[d]
        /\ pc'[c] \in {"nested", "writing"} => data'[InstanceOf[c]] \in Data
        /\ pc'[c] # "rewriting"
    <3>1. CASE Load(c)
      BY <1>5, <3>1 DEF Load, Goes
    <3>2. CASE Write(c)
      <4>1. data' # data \/ data[InstanceOf[c]] \in Data
        <5>1. CASE Mine(c) = Unloaded
          <6>1. data'[InstanceOf[c]] = [Empty EXCEPT ![Request[c].key] = Request[c].value]
            BY <3>2, <5>1 DEF Write, SetMine
          <6>2. data'[InstanceOf[c]] \in Data
            BY <6>1, EmptyIsData, RequestType, UpdateType
          <6>3. QED
            BY <6>2, <5>1, Apart
        <5>2. QED
          BY <5>1, MineType
      <4>2. data'[InstanceOf[c]] \in Data
        BY <4>1, <2>1 DEF Sets
      <4>3. QED
        BY <3>2, <4>2 DEF Write, Goes
    <3>3. CASE Remove(c)
      <4>1. pc'[c] = "nested" => data[InstanceOf[c]] # Unloaded
        BY <3>3 DEF Remove, Goes
      <4>2. QED
        BY <3>3, <4>1, <2>2 DEF Remove, Goes
    <3>4. QED
      BY <1>5, <3>1, <3>2, <3>3
  <2>4. TypeOK'
    <3>1. CASE Load(c)
      BY <3>1, <2>2 DEF Load, Goes
    <3>2. CASE Write(c)
      BY <3>2, <2>2 DEF Write, Goes, Answers
    <3>3. CASE Remove(c)
      BY <3>3, <2>2 DEF Remove, Goes, Answers, Lists
    <3>4. QED
      BY <1>5, <3>1, <3>2, <3>3
  <2>5. WriterHasData'
    <3>1. ASSUME NEW d \in Calls, d # c, pc'[d] \in {"nested", "writing", "rewriting"}
          PROVE  data'[InstanceOf[d]] \in Data
      <4>1. data[InstanceOf[d]] \in Data
        BY <3>1, <2>3
      <4>2. data[InstanceOf[d]] # Unloaded
        BY <4>1, Apart
      <4>3. QED
        BY <2>2, <4>2
    <3>2. QED
      BY <3>1, <2>3
  <2>6. QED
    BY <2>4, <2>5
<1>6. ASSUME NEW p \in Procs, Ends(p) \/ Sweep(p) PROVE TypeInv'
  <2>1. CASE Ends(p)
    BY <2>1 DEF Ends
  <2>2. CASE Sweep(p)
    <3>1. lock' \in Calls \union {None} /\ intruded' \in BOOLEAN
      BY <2>2 DEF Sweep, Unlock
    <3>2. QED
      BY <2>2, <3>1 DEF Sweep
  <2>3. QED
    BY <1>6, <2>1, <2>2
<1>7. CASE UNCHANGED vars
  BY <1>7 DEF vars
<1>8. QED
  BY <1>1, <1>2, <1>3, <1>4, <1>5, <1>6, <1>7 DEF Next, Step

(* The variables keep their types, whoever is killed, robbed or shares     *)
(* instances: the file never gets contents that no instance has loaded.    *)
THEOREM TypeCorrect == Spec => []TypeOK
<1>1. TypeInv => TypeOK
  BY DEF TypeInv
<1>2. QED
  BY TypeInvInit, TypeInvStep, <1>1, PTL DEF Spec

-----------------------------------------------------------------------------
(* The refinement, when no two calls share an instance.                    *)

Fresh == \A c, d \in Calls : InstanceOf[c] = InstanceOf[d] => c = d

Outside == {"idle", "wait", "released", "done"}

(* Until a lock is deleted under its call, a running call inside holds it. *)
LiveIsHolder == \A c \in Calls : Live(c) /\ pc[c] \notin Outside => lock = c

HolderIsInside == \A c \in Calls : lock = c => pc[c] \notin Outside

(* ... and removeSetting never gets the lock a second time.                *)
NobodyRewrites == \A c \in Calls : pc[c] \notin {"rewriting", "rewritten"}

(* An instance has no data before the action of its call has loaded it.    *)
UnloadedBefore ==
    \A c \in Calls : pc[c] \in {"idle", "wait", "held", "unread"} =>
        Mine(c) = Unloaded

(* A call has answered when it writes or leaves, and not before.           *)
Unanswered ==
    \A c \in Calls : pc[c] \in {"idle", "wait", "held", "unread", "loaded", "nested"}
        => answer[c] = <<"pending">>

OnlyRemoveNests == \A c \in Calls : pc[c] = "nested" => Request[c].op = "remove"

(* The file as the running call inside it left it.                         *)
FileIsHolders ==
    \A c \in Calls : Live(c) =>
        /\ pc[c] \in {"unread", "writing"} => file = Broken
        /\ pc[c] = "loaded" /\ Mine(c) = Unloaded => file = Absent
        /\ pc[c] = "loaded" /\ Mine(c) # Unloaded => file = Mine(c)

Undisturbed ==
    /\ LiveIsHolder
    /\ HolderIsInside
    /\ NobodyRewrites
    /\ UnloadedBefore
    /\ Unanswered
    /\ OnlyRemoveNests
    /\ FileIsHolders

IInv == intruded \/ Undisturbed

LEMMA IInvInit == Init => IInv
  BY SettingsAssumption
  DEF Init, IInv, Undisturbed, LiveIsHolder, HolderIsInside, NobodyRewrites,
      UnloadedBefore, Unanswered, OnlyRemoveNests, FileIsHolders, Outside, Mine

(* A step of a running call that has the lock, and keeps it, touches no    *)
(* other running call inside.                                              *)
HolderMoves(c, w) ==
    /\ Live(c) /\ pc[c] \notin Outside
    /\ pc' = [pc EXCEPT ![c] = w]
    /\ w \in {"unread", "loaded", "writing", "nested", "leaving"}
    /\ UNCHANGED <<lock, process>>
    /\ \A i \in Instances : i # InstanceOf[c] => data'[i] = data[i]
    /\ \A d \in Calls : d # c => answer'[d] = answer[d]
    /\ w = "unread" => Mine(c)' = Unloaded
    /\ w \in {"unread", "loaded", "nested"} => answer'[c] = <<"pending">>
    /\ w = "nested" => Request[c].op = "remove"
    /\ w \in {"unread", "writing"} => file' = Broken
    /\ w = "loaded" =>
          (file' = Absent /\ Mine(c)' = Unloaded)
          \/ (file' = Mine(c)' /\ Mine(c)' # Unloaded)

LEMMA HolderStep ==
    ASSUME Fresh, TypeOK, Undisturbed, NEW c \in Calls, NEW w, HolderMoves(c, w)
    PROVE  Undisturbed'
<1> USE SettingsAssumption DEF TypeOK, Outside, HolderMoves
<1>1. lock = c
  BY DEF Undisturbed, LiveIsHolder
<1>2. \A d \in Calls : d # c => pc'[d] = pc[d] /\ (Live(d)' <=> Live(d))
                               /\ Mine(d)' = Mine(d)
  BY DEF Fresh, Live, Mine
<1>3. pc'[c] = w /\ lock' = c /\ Live(c)'
  BY <1>1 DEF Live
<1>4. \A d \in Calls : d # c => pc[d] \in Outside \/ ~Live(d)
  BY <1>1 DEF Undisturbed, LiveIsHolder
<1>5. LiveIsHolder' /\ HolderIsInside' /\ NobodyRewrites'
  BY <1>2, <1>3, <1>4 DEF Undisturbed, LiveIsHolder, HolderIsInside, NobodyRewrites
<1>6. UnloadedBefore'
  BY <1>2, <1>3 DEF Undisturbed, UnloadedBefore
<1>7. Unanswered'
  BY <1>2, <1>3 DEF Undisturbed, Unanswered
<1>8. OnlyRemoveNests'
  BY <1>2, <1>3 DEF Undisturbed, OnlyRemoveNests
<1>9. FileIsHolders'
  BY <1>2, <1>3, <1>4 DEF Undisturbed, FileIsHolders
<1>10. QED
  BY <1>5, <1>6, <1>7, <1>8, <1>9 DEF Undisturbed

LEMMA UndisturbedStep ==
    ASSUME Fresh, TypeInv, Undisturbed, [Next]_vars, ~intruded, ~intruded'
    PROVE  Undisturbed'
<1> USE SettingsAssumption DEF TypeInv, TypeOK
<1>1. ASSUME NEW c \in Calls, Begin(c) \/ CleanLock(c) \/ Timeout(c)
      PROVE  Undisturbed'
  <2>1. /\ UNCHANGED <<lock, file, data, process>>
        /\ pc[c] \in Outside /\ pc'[c] \in Outside
        /\ pc'[c] = "wait" => pc[c] = "idle" /\ UNCHANGED answer
        /\ pc'[c] # "idle"
        /\ \A d \in Calls : d # c => pc'[d] = pc[d] /\ answer'[d] = answer[d]
    BY <1>1 DEF Begin, CleanLock, Timeout, Goes, Answers, Outside
  <2>2. QED
    BY <2>1 DEF Undisturbed, LiveIsHolder, HolderIsInside, NobodyRewrites,
                UnloadedBefore, Unanswered, OnlyRemoveNests, FileIsHolders,
                Outside, Mine, Live
<1>2. ASSUME NEW c \in Calls, Enter(c) PROVE Undisturbed'
  <2>1. /\ ~Taken /\ pc[c] = "wait" /\ pc' = [pc EXCEPT ![c] = "held"] /\ lock' = c
        /\ UNCHANGED <<answer, file, data, process>>
    BY <1>2 DEF Enter, Goes
  <2>2. \A d \in Calls : Live(d) => pc[d] \in Outside
    BY <2>1 DEF Taken, Undisturbed, LiveIsHolder
  <2>3. QED
    BY <2>1, <2>2
    DEF Undisturbed, LiveIsHolder, HolderIsInside, NobodyRewrites,
        UnloadedBefore, Unanswered, OnlyRemoveNests, FileIsHolders,
        Outside, Mine, Live
<1>3. ASSUME NEW c \in Calls, Leave(c) PROVE Undisturbed'
  <2>1. /\ Live(c) /\ pc[c] = "leaving" /\ pc' = [pc EXCEPT ![c] = "released"]
        /\ lock' = None
        /\ UNCHANGED <<answer, file, data, process>>
    BY <1>3 DEF Leave, Goes, Unlock
  <2>2. \A d \in Calls : d # c => (Live(d) => pc[d] \in Outside)
    BY <2>1 DEF Undisturbed, LiveIsHolder, Outside
  <2>3. QED
    BY <2>1, <2>2
    DEF Undisturbed, LiveIsHolder, HolderIsInside, NobodyRewrites,
        UnloadedBefore, Unanswered, OnlyRemoveNests, FileIsHolders,
        Outside, Mine, Live
<1>4. ASSUME NEW c \in Calls, NestedEnter(c) PROVE FALSE
  BY <1>4 DEF NestedEnter, Goes, Taken, Undisturbed, LiveIsHolder, Outside
<1>5. ASSUME NEW c \in Calls, NestedLeave(c) PROVE FALSE
  BY <1>5 DEF NestedLeave, Goes, Undisturbed, NobodyRewrites
<1>6. ASSUME NEW c \in Calls, Load(c) PROVE Undisturbed'
  <2>1. /\ Live(c) /\ pc[c] = "held" /\ Mine(c) = Unloaded
        /\ answer[c] = <<"pending">> /\ UNCHANGED <<answer, lock, process>>
    BY <1>6 DEF Load, Goes, Undisturbed, UnloadedBefore, Unanswered
  <2>2. CASE file \notin {Absent, Broken}
    <3>1. /\ pc' = [pc EXCEPT ![c] = "loaded"]
          /\ data' = [data EXCEPT ![InstanceOf[c]] = file] /\ UNCHANGED file
      BY <1>6, <2>1, <2>2 DEF Load, Goes, SetMine
    <3>2. Mine(c)' = file /\ file \in Data
      BY <3>1, <2>2 DEF Mine
    <3>3. Mine(c)' # Unloaded
      BY <3>2, Apart
    <3>4. HolderMoves(c, "loaded")
      BY <2>1, <3>1, <3>2, <3>3 DEF HolderMoves, Outside
    <3>5. QED
      BY <3>4, HolderStep
  <2>3. CASE file \in {Absent, Broken}
    <3>1. /\ pc' = [pc EXCEPT ![c] = "unread"]
          /\ UNCHANGED data /\ file' = Broken
      BY <1>6, <2>1, <2>3 DEF Load, Goes
    <3>2. Mine(c)' = Unloaded
      BY <2>1, <3>1 DEF Mine
    <3>3. HolderMoves(c, "unread")
      BY <2>1, <3>1, <3>2 DEF HolderMoves, Outside
    <3>4. QED
      BY <3>3, HolderStep
  <2>4. QED
    BY <2>2, <2>3
<1>7. ASSUME NEW c \in Calls, DeleteBroken(c) PROVE Undisturbed'
  <2>1. /\ Live(c) /\ pc[c] = "unread" /\ pc' = [pc EXCEPT ![c] = "loaded"]
        /\ UNCHANGED <<answer, lock, data, process>> /\ file' = Absent
    BY <1>7 DEF DeleteBroken, Goes
  <2>2. answer'[c] = <<"pending">> /\ Mine(c)' = Unloaded
    BY <2>1 DEF Undisturbed, UnloadedBefore, Unanswered, Mine
  <2>3. HolderMoves(c, "loaded")
    BY <2>1, <2>2 DEF HolderMoves, Outside
  <2>4. QED
    BY <2>3, HolderStep
<1>8. ASSUME NEW c \in Calls, Read(c) \/ Write(c) \/ Remove(c) PROVE Undisturbed'
  <2>1. /\ Live(c) /\ pc[c] = "loaded" /\ UNCHANGED <<lock, process>>
        /\ \A d \in Calls : d # c => answer'[d] = answer[d]
        /\ \A i \in Instances : i # InstanceOf[c] => data'[i] = data[i]
    BY <1>8 DEF Read, Write, Remove, Goes, Answers, SetMine
  <2>2. PICK w \in {"leaving", "writing", "nested"} :
          /\ pc' = [pc EXCEPT ![c] = w]
          /\ w = "writing" => file' = Broken
          /\ w = "nested" => Request[c].op = "remove" /\ UNCHANGED answer
    BY <1>8 DEF Read, Write, Remove, Goes
  <2>3. w = "nested" => answer'[c] = <<"pending">>
    BY <2>1, <2>2 DEF Undisturbed, Unanswered
  <2>4. HolderMoves(c, w)
    BY <2>1, <2>2, <2>3 DEF HolderMoves, Outside
  <2>5. QED
    BY <2>4, HolderStep
<1>9. ASSUME NEW c \in Calls, Written(c) \/ NestedTimeout(c) PROVE Undisturbed'
  <2>1. /\ Live(c) /\ pc[c] \in {"writing", "nested"}
        /\ pc' = [pc EXCEPT ![c] = "leaving"]
        /\ UNCHANGED <<lock, data, process>>
        /\ \A d \in Calls : d # c => answer'[d] = answer[d]
    BY <1>9 DEF Written, NestedTimeout, Goes, Answers, Undisturbed, NobodyRewrites
  <2>2. HolderMoves(c, "leaving")
    BY <2>1 DEF HolderMoves, Outside
  <2>3. QED
    BY <2>2, HolderStep
<1>10. ASSUME NEW p \in Procs, Ends(p) PROVE Undisturbed'
  <2>1. /\ UNCHANGED <<pc, answer, lock, file, data>>
        /\ \A d \in Calls : Live(d)' => Live(d)
    BY <1>10 DEF Ends, Live
  <2>2. QED
    BY <2>1
    DEF Undisturbed, LiveIsHolder, HolderIsInside, NobodyRewrites,
        UnloadedBefore, Unanswered, OnlyRemoveNests, FileIsHolders, Mine
<1>11. ASSUME NEW p \in Procs, Sweep(p) PROVE Undisturbed'
  <2>1. /\ UNCHANGED <<pc, answer, file, data>>
        /\ \A d \in Calls : Live(d)' <=> Live(d)
        /\ UNCHANGED lock \/ (lock' = None /\ ~Taken)
    BY <1>11 DEF Sweep, Live, Unlock
  <2>2. ~Taken => \A d \in Calls : Live(d) => pc[d] \in Outside
    BY DEF Taken, Undisturbed, LiveIsHolder
  <2>3. QED
    BY <2>1, <2>2
    DEF Undisturbed, LiveIsHolder, HolderIsInside, NobodyRewrites,
        UnloadedBefore, Unanswered, OnlyRemoveNests, FileIsHolders, Mine
<1>12. CASE UNCHANGED vars
  BY <1>12
  DEF vars, Undisturbed, LiveIsHolder, HolderIsInside, NobodyRewrites,
      UnloadedBefore, Unanswered, OnlyRemoveNests, FileIsHolders, Mine, Live
<1>13. QED
  BY <1>1, <1>2, <1>3, <1>4, <1>5, <1>6, <1>7, <1>8, <1>9, <1>10, <1>11, <1>12
  DEF Next, Step

(* What was lost stays lost.                                               *)
LEMMA IntrudedStays == ASSUME [Next]_vars, intruded PROVE intruded'
  BY DEF Next, Step, Begin, Enter, Timeout, Leave, CleanLock, Load, DeleteBroken,
         Read, Write, Written, Remove, NestedTimeout, NestedEnter, NestedLeave,
         Ends, Sweep, Unlock, vars

LEMMA IInvHolds == ASSUME Fresh PROVE Spec => [](IInv /\ TypeInv)
<1>1. IInv /\ TypeInv /\ [Next]_vars => IInv'
  BY UndisturbedStep, IntrudedStays DEF IInv
<1>2. QED
  BY IInvInit, TypeInvInit, TypeInvStep, <1>1, PTL DEF Spec

InFile == IF file \in {Absent, Broken} THEN Empty ELSE file

(* What the next call finds, while a running call is inside.               *)
LEMMA ContentInside ==
    ASSUME Undisturbed, NEW c \in Calls, Live(c), pc[c] \notin Outside
    PROVE  /\ lock = c /\ Taken
           /\ Content = IF pc[c] = "writing" THEN Mine(c) ELSE InFile
<1>1. lock = c /\ Taken
  BY SettingsAssumption DEF Undisturbed, LiveIsHolder, Taken
<1>2. QED
  BY <1>1 DEF Content, Writing, InFile

(* ... and while none is.                                                  *)
LEMMA ContentOutside ==
    ASSUME ~Taken PROVE Content = InFile
  BY DEF Content, Writing, InFile

(* What a call inside the lock finds, in the terms of the store.           *)
LEMMA LoadedContent ==
    ASSUME TypeOK, Undisturbed, NEW c \in Calls, Live(c), pc[c] = "loaded"
    PROVE  Content = IF Mine(c) = Unloaded THEN Empty ELSE Mine(c)
<1>1. Content = InFile
  BY ContentInside DEF Outside
<1>2. CASE Mine(c) = Unloaded
  BY <1>1, <1>2 DEF Undisturbed, FileIsHolders, InFile
<1>3. CASE Mine(c) # Unloaded
  <2>1. file = Mine(c) /\ Mine(c) \in Data
    BY <1>3, MineType DEF Undisturbed, FileIsHolders
  <2>2. QED
    BY <1>1, <1>3, <2>1, Apart DEF InFile
<1>4. QED
  BY <1>2, <1>3

(* Every step is a step of the store, or leaves it alone, until a lock is  *)
(* deleted under a running call.                                           *)
LEMMA StoreStep ==
    ASSUME Fresh, TypeInv, IInv, [Next]_vars, ~intruded'
    PROVE  [Store!Next]_<<Content, answer, Ended>>
<1> USE SettingsAssumption DEF TypeInv
<1> DEFINE Still == UNCHANGED <<Content, answer, Ended>>
<1>1. Undisturbed /\ Undisturbed' /\ TypeInv'
  BY IntrudedStays, UndisturbedStep, TypeInvStep DEF IInv
<1> USE <1>1
<1>2. ASSUME NEW c \in Calls, Begin(c) \/ CleanLock(c) PROVE Still
  <2>1. /\ UNCHANGED <<answer, lock, file, data, process>>
        /\ \A d \in Calls : pc'[d] = "writing" <=> pc[d] = "writing"
    BY <1>2 DEF Begin, CleanLock, Goes, TypeOK
  <2>2. QED
    BY <2>1 DEF TypeOK, Content, Writing, Taken, Live, Mine, Ended
<1>3. ASSUME NEW c \in Calls, Enter(c) PROVE Still
  <2>1. ~Taken /\ lock' = c /\ pc'[c] = "held" /\ Live(c)'
        /\ UNCHANGED <<answer, file, data, process>>
    BY <1>3 DEF Enter, Goes, TypeOK, Live
  <2>2. Content' = InFile'
    BY <2>1 DEF Content, Writing, InFile
  <2>3. QED
    BY <2>1, <2>2, ContentOutside DEF InFile, Ended
<1>4. ASSUME NEW c \in Calls, Timeout(c) \/ NestedTimeout(c) PROVE Store!Fail(c)
  <2>1. answer[c] = <<"pending">> /\ answer' = [answer EXCEPT ![c] = <<"failed">>]
    BY <1>4 DEF Undisturbed, Unanswered, Timeout, NestedTimeout, Goes, Answers
  <2>2. c \in Impatient \union {d \in Calls : Request[d].op = "remove"}
    BY <1>4 DEF Undisturbed, OnlyRemoveNests, Timeout, NestedTimeout, Goes
  <2>3. /\ UNCHANGED <<lock, file, data, process>>
        /\ \A d \in Calls : pc'[d] = "writing" <=> pc[d] = "writing"
    BY <1>4 DEF TypeOK, Timeout, NestedTimeout, Goes
  <2>4. UNCHANGED <<Content, Ended>>
    BY <2>3 DEF TypeOK, Content, Writing, Taken, Live, Mine, Ended
  <2>5. QED
    BY <2>1, <2>2, <2>4 DEF Store!Fail, Store!Answer
<1>5. ASSUME NEW c \in Calls, Leave(c) PROVE Still
  <2>1. /\ Live(c) /\ pc[c] = "leaving" /\ lock' = None
        /\ UNCHANGED <<answer, file, data, process>>
    BY <1>5 DEF Leave, Goes, Unlock
  <2>2. Content = InFile
    BY <2>1, ContentInside DEF Outside
  <2>3. Content' = InFile'
    BY <2>1 DEF Content, Writing, Taken, InFile
  <2>4. QED
    BY <2>1, <2>2, <2>3 DEF InFile, Ended
<1>6. ASSUME NEW c \in Calls, Load(c) \/ DeleteBroken(c) PROVE Still
  <2>1. /\ Live(c) /\ pc[c] \in {"held", "unread"}
        /\ pc'[c] \in {"unread", "loaded"}
        /\ UNCHANGED <<answer, lock, process>>
        /\ file' = file \/ (file \in {Absent, Broken} /\ file' \in {Absent, Broken})
    BY <1>6 DEF Load, DeleteBroken, Goes, TypeOK, Undisturbed, FileIsHolders
  <2>2. Content = InFile
    BY <2>1, ContentInside DEF Outside
  <2>3. Content' = InFile'
    BY <2>1, ContentInside DEF Taken, Live, Content, Writing, InFile, Outside
  <2>4. InFile' = InFile
    BY <2>1 DEF InFile
  <2>5. QED
    BY <2>1, <2>2, <2>3, <2>4 DEF Ended
<1>7. ASSUME NEW c \in Calls, Read(c) \/ Remove(c) PROVE UNCHANGED <<Content, Ended>>
  <2>1. /\ Live(c) /\ pc[c] = "loaded" /\ pc'[c] \in {"leaving", "nested"}
        /\ UNCHANGED <<file, lock, process>>
    BY <1>7 DEF Read, Remove, Goes, TypeOK
  <2>2. Content = InFile
    BY <2>1, ContentInside DEF Outside
  <2>3. Content' = InFile'
    BY <2>1, ContentInside DEF Taken, Live, Content, Writing, InFile, Outside
  <2>4. QED
    BY <2>1, <2>2, <2>3 DEF InFile, Ended
<1>8. ASSUME NEW c \in Calls, Read(c) PROVE Store!Get(c)
  <2>1. Live(c) /\ pc[c] = "loaded" /\ Request[c].op = "get"
    BY <1>8 DEF Read, Goes
  <2>2. answer[c] = <<"pending">>
    BY <2>1 DEF Undisturbed, Unanswered
  <2>3. (IF Mine(c) = Unloaded THEN NoValue ELSE Mine(c)[Request[c].key])
          = Content[Request[c].key]
    <3>1. CASE Mine(c) = Unloaded
      BY <3>1, <2>1, LoadedContent, RequestType DEF Empty
    <3>2. CASE Mine(c) # Unloaded
      BY <3>2, <2>1, LoadedContent
    <3>3. QED
      BY <3>1, <3>2
  <2>4. answer' = [answer EXCEPT ![c] = <<"got", Content[Request[c].key]>>]
    BY <1>8, <2>3 DEF Read, Answers
  <2>5. QED
    BY <1>7, <1>8, <2>1, <2>2, <2>4 DEF Store!Get, Store!Answer
<1>9. ASSUME NEW c \in Calls, Write(c) PROVE Store!Save(c)
  <2> DEFINE old == IF Mine(c) = Unloaded THEN Empty ELSE Mine(c)
             new == [old EXCEPT ![Request[c].key] = Request[c].value]
  <2>1. /\ Live(c) /\ pc[c] = "loaded" /\ Request[c].op = "save"
        /\ pc'[c] = "writing"
        /\ UNCHANGED <<lock, process>>
        /\ answer' = [answer EXCEPT ![c] = <<"saved">>]
    BY <1>9 DEF Write, Goes, Answers, TypeOK
  <2>2. answer[c] = <<"pending">>
    BY <2>1 DEF Undisturbed, Unanswered
  <2>3. Content = old
    BY <2>1, LoadedContent
  <2>4. data' = [data EXCEPT ![InstanceOf[c]] = new]
    BY <1>9 DEF Write, SetMine
  <2> HIDE DEF old
  <2>5. lock' = c /\ Writing'
    BY <2>1, ContentInside DEF Writing, Taken, Live, Outside
  <2>6. Content' = new
    <3>1. Content' = data'[InstanceOf[c]]
      BY <2>5 DEF Content, Mine
    <3> HIDE DEF new
    <3>2. QED
      BY <3>1, <2>4 DEF TypeOK
  <2>7. UNCHANGED Ended
    BY <2>1 DEF Ended
  <2>8. QED
    BY <2>1, <2>2, <2>3, <2>6, <2>7 DEF Store!Save, Store!Answer
<1>10. ASSUME NEW c \in Calls, Written(c) PROVE Still
  <2>1. /\ Live(c) /\ pc[c] = "writing" /\ pc'[c] = "leaving"
        /\ UNCHANGED <<answer, lock, data, process>>
    BY <1>10 DEF Written, Goes, Undisturbed, NobodyRewrites, TypeOK
  <2>2. file' = Mine(c) /\ Mine(c) \in Data
    BY <1>10, <2>1 DEF Written, Undisturbed, FileIsHolders, WriterHasData
  <2>3. Content = Mine(c)
    BY <2>1, ContentInside DEF Outside
  <2>4. Content' = InFile'
    BY <2>1, ContentInside DEF Taken, Live, Content, Writing, InFile, Outside
  <2>5. InFile' = Mine(c)
    BY <2>2, Apart DEF InFile
  <2>6. QED
    BY <2>1, <2>3, <2>4, <2>5 DEF Ended
<1>11. ASSUME NEW c \in Calls, Remove(c) PROVE Store!Fail(c) \/ Still
  <2>1. pc[c] = "loaded" /\ Request[c].op = "remove"
    BY <1>11 DEF Remove, Goes
  <2>2. answer[c] = <<"pending">>
    BY <2>1 DEF Undisturbed, Unanswered
  <2>3. UNCHANGED answer \/ answer' = [answer EXCEPT ![c] = <<"failed">>]
    BY <1>11 DEF Remove, Answers
  <2>4. QED
    BY <1>7, <1>11, <2>1, <2>2, <2>3 DEF Store!Fail, Store!Answer
<1>12. ASSUME NEW c \in Calls, NestedEnter(c) \/ NestedLeave(c) PROVE FALSE
  BY <1>12 DEF NestedEnter, NestedLeave, Goes, Taken, Undisturbed, LiveIsHolder,
              NobodyRewrites, Outside
<1>13. ASSUME NEW p \in Procs, Ends(p) PROVE Store!Ends
  <2>1. /\ UNCHANGED <<pc, answer, lock, file, data>>
        /\ process[p] = "running" /\ process' = [process EXCEPT ![p] = "gone"]
    BY <1>13 DEF Ends
  <2>2. Ended' = Ended \union {p} /\ p \notin Ended
    BY <2>1 DEF Ended, TypeOK
  <2>3. Content' \in {Content, Empty}
    <3>1. CASE Writing /\ ~Writing'
      <4>1. lock \in Calls /\ Live(lock) /\ pc[lock] = "writing"
        BY <3>1 DEF Writing, Taken, TypeOK
      <4>2. file = Broken
        BY <4>1 DEF Undisturbed, FileIsHolders
      <4>3. QED
        BY <2>1, <3>1, <4>2 DEF Content
    <3>2. CASE Writing <=> Writing'
      BY <2>1, <3>2 DEF Content, Mine
    <3>3. Writing' => Writing
      BY <2>1 DEF Writing, Taken, Live, TypeOK
    <3>4. QED
      BY <3>1, <3>2, <3>3
  <2>4. QED
    BY <2>1, <2>2, <2>3 DEF Store!Ends, Store!Empty, Empty
<1>14. ASSUME NEW p \in Procs, Sweep(p) PROVE Still
  <2>1. /\ UNCHANGED <<pc, answer, file, data>>
        /\ process[p] = "gone" /\ process' = [process EXCEPT ![p] = "swept"]
        /\ UNCHANGED lock \/ (lock' = None /\ ~Taken)
    BY <1>14 DEF Sweep, Unlock
  <2>2. UNCHANGED Ended /\ \A d \in Calls : Live(d)' <=> Live(d)
    BY <2>1 DEF Ended, Live, TypeOK
  <2>3. UNCHANGED Writing
    BY <2>1, <2>2 DEF Writing, Taken, TypeOK
  <2>4. Writing => UNCHANGED lock
    BY <2>1 DEF Writing
  <2>5. UNCHANGED Content
    BY <2>1, <2>3, <2>4 DEF Content, Mine
  <2>6. QED
    BY <2>1, <2>2, <2>5
<1>15. CASE UNCHANGED vars
  BY <1>15 DEF vars, Content, Writing, Taken, Live, Mine, Ended
<1>16. QED
  BY <1>2, <1>3, <1>4, <1>5, <1>6, <1>8, <1>9, <1>10, <1>11, <1>12, <1>13, <1>14,
     <1>15
  DEF Next, Step, Store!Next

(* The concurrent, locked reads and writes of the whole file implement the *)
(* store: no setting is lost but by a kill in the middle of a write, and   *)
(* each call happens at one moment, until a cleanup process deletes the    *)
(* lock of a running call of another process.                              *)
THEOREM SettingsAreStore == ASSUME Fresh PROVE Spec => IsStore
<1>1. Init => Store!Init
  BY SettingsAssumption
  DEF Init, Store!Init, Content, Writing, Taken, Empty, Store!Empty, Ended
<1>2. IInv /\ TypeInv /\ [Next]_vars =>
        [Store!Next \/ intruded']_<<Content, answer, Ended>>
  BY StoreStep
<1>3. QED
  BY <1>1, <1>2, IInvHolds, PTL DEF Spec, IsStore

=============================================================================
