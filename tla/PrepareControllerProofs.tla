----------------------- MODULE PrepareControllerProofs -----------------------
(***************************************************************************)
(* What TLAPS proves of PrepareController, for any number of platforms,    *)
(* handlers, toggles and webpack processes.                                *)
(***************************************************************************)
EXTENDS PrepareController, FiniteSetTheorems, TLAPS

USE ConstantsAssumption

-----------------------------------------------------------------------------
(* The types, one variable at a time.  Max stands for MaxChildren, whose   *)
(* value no step depends on.                                               *)

Watchers == [Platforms -> [known : BOOLEAN, webpack : BOOLEAN, native : BOOLEAN]]

Handlers == [made : 0 .. MaxHandlers, on : SUBSET (1 .. MaxHandlers),
             for : [1 .. MaxHandlers -> Platforms \union {None}]]

Prepares == [platform : Platforms \union {None},
             at : {"none", "setup", "compile", "native", "changes"},
             result : {"none", "native", "same"}]

ChildOrNone == 0 .. MaxChildren

Closing == [at : {"none", "native", "kill"}, child : ChildOrNone]

Toggles == [at : {"none", "kill", "resuming", "compile"},
            left : SUBSET Platforms, platform : Platforms \union {None},
            child : ChildOrNone, calls : 0 .. MaxToggles]

Compile == [at : {"none", "setup", "spawn", "first"},
            platform : Platforms \union {None}, child : ChildOrNone]

Child == [platform : Platforms \union {None},
          at : {"unborn", "compiling", "on", "killed", "exited", "gone"}]

HandlersAreSomeones == \A h \in listeners.on : listeners.for[h] # None

WatcherTypes == watcher \in Watchers
ListenerTypes == listeners \in Handlers /\ HandlersAreSomeones
PrepTypes == prep \in Prepares
ClosingTypes ==
    /\ closing \in [Platforms -> Closing]
    /\ \A q \in Platforms : closing[q].at = "kill" => closing[q].child # 0
ToggleTypes == toggle \in Toggles
CompileTypes == compile \in [Compilers -> Compile]
ProcessTypes == process \in [Platforms -> ChildOrNone]
ChildTypes == child \in [Children -> Child]
EventTypes ==
    /\ ready \in BOOLEAN /\ paused \in BOOLEAN
    /\ persisted \subseteq Platforms \X BOOLEAN
    /\ owed \subseteq Platforms

(* A prepare() has a platform, and room for its handler; a compilation and *)
(* a toggle that stops a process have theirs.                              *)
PrepareHasPlatform ==
    /\ prep.at # "none" => prep.platform \in Platforms
    /\ prep.at = "setup" => listeners.made < MaxHandlers

OthersHavePlatform ==
    /\ \A c \in Compilers : compile[c].at # "none" => compile[c].platform \in Platforms
    /\ toggle.at = "kill" => toggle.platform \in Platforms

(* A compilation is under way as long as its caller waits for it.          *)
Callers ==
    /\ compile["prepare"].at # "none" <=> prep.at = "compile"
    /\ compile["toggle"].at # "none" <=> toggle.at = "compile"
    /\ compile["prepare"].at # "none" => compile["prepare"].platform = prep.platform

Types ==
    /\ WatcherTypes /\ ListenerTypes /\ PrepTypes /\ ClosingTypes /\ ToggleTypes
    /\ CompileTypes /\ ProcessTypes /\ ChildTypes /\ EventTypes
    /\ PrepareHasPlatform /\ OthersHavePlatform /\ Callers

(* The history is of platforms and processes.                              *)
HistoryTypes ==
    suspended \subseteq Platforms /\ misheard \subseteq Platforms /\ forgotten \subseteq Children

LEMMA TypesAreTypeOK == Types /\ HistoryTypes => TypeOK
  BY DEF HistoryTypes, Types, TypeOK, WatcherTypes, ListenerTypes, PrepTypes, ClosingTypes,
         ToggleTypes, CompileTypes, ProcessTypes, ChildTypes, EventTypes,
         Watchers, Handlers, HandlersAreSomeones, Prepares, Closing, Toggles,
         Compile, Child, ChildOrNone

LEMMA MaxChildrenType == MaxChildren \in Nat
<1>1. Cardinality(Platforms) \in Nat
  BY FS_CardinalityType
<1>2. MaxToggles \div 2 \in Nat
  OBVIOUS
<1>3. (MaxToggles \div 2) * Cardinality(Platforms) \in Nat
  BY <1>1, <1>2
<1> QED
  BY <1>3 DEF MaxChildren

LEMMA ChildrenAre ==
  /\ 0 \in ChildOrNone
  /\ Children \subseteq ChildOrNone
  /\ \A i \in Children : i # 0
  BY MaxChildrenType DEF ChildOrNone, Children

LEMMA InitTypes == Init => Types
<1> SUFFICES ASSUME Init PROVE Types
  OBVIOUS
<1>1. WatcherTypes /\ EventTypes
  BY DEF Init, WatcherTypes, Watchers, EventTypes
<1>2. ListenerTypes
  BY DEF Init, ListenerTypes, Handlers, HandlersAreSomeones
<1>3. PrepTypes
  BY DEF Init, PrepTypes, Prepares
<1>4. ClosingTypes
  BY ChildrenAre DEF Init, ClosingTypes, Closing
<1>5. ToggleTypes
  BY ChildrenAre DEF Init, ToggleTypes, Toggles
<1>6. CompileTypes
  BY ChildrenAre DEF Init, CompileTypes, Compile, NoCompile
<1>7. ProcessTypes /\ ChildTypes
  BY ChildrenAre DEF Init, ProcessTypes, ChildTypes, Child
<1>8. PrepareHasPlatform /\ OthersHavePlatform /\ Callers
  BY DEF Init, PrepareHasPlatform, OthersHavePlatform, Callers, Compilers, NoCompile
<1> QED
  BY <1>1, <1>2, <1>3, <1>4, <1>5, <1>6, <1>7, <1>8 DEF Types

Unwaited == {c \in Compilers : compile[c].at # "none"}

(* What Resume and Abort do to the three variables they change.            *)
LEMMA CallersTypes ==
  ASSUME Types, NEW S \in SUBSET Unwaited, Resume(S) \/ Abort(S),
         listeners' = listeners
  PROVE  /\ PrepTypes' /\ ToggleTypes' /\ CompileTypes'
         /\ PrepareHasPlatform' /\ OthersHavePlatform' /\ Callers'
<1>1. NoCompile \in Compile
  BY ChildrenAre DEF Compile, NoCompile
<1>2. prep \in Prepares /\ toggle \in Toggles /\ compile \in [Compilers -> Compile]
  BY DEF Types, PrepTypes, ToggleTypes, CompileTypes
<1>3. compile' \in [Compilers -> Compile]
  BY <1>1, <1>2 DEF Resume, Abort
<1>4. prep' \in Prepares
  BY <1>2 DEF Prepares, Resume, Abort
<1>5. toggle' \in Toggles
  BY <1>2 DEF Toggles, Resume, Abort
<1>6. /\ "prepare" \in S => prep.at = "compile"
      /\ "toggle" \in S => toggle.at = "compile"
  BY DEF Types, Callers, Unwaited
<1>7. PrepareHasPlatform'
  BY <1>2, <1>6 DEF Types, PrepareHasPlatform, Prepares, Resume, Abort
<1>8. \A c \in Compilers : compile'[c] = IF c \in S THEN NoCompile ELSE compile[c]
  BY DEF Resume, Abort
<1>9. /\ "prepare" \in S => prep'.at \in {"native", "none"}
      /\ "prepare" \notin S => prep' = prep
  BY <1>2 DEF Resume, Abort, Prepares
<1>10. /\ "toggle" \in S => toggle'.at \in {"resuming", "none"}
       /\ "toggle" \notin S => toggle' = toggle
  BY <1>2 DEF Resume, Abort, Toggles
<1>11. OthersHavePlatform'
  <2>1. \A c \in Compilers : compile'[c].at # "none" => compile'[c].platform \in Platforms
    BY <1>8 DEF Types, OthersHavePlatform, NoCompile
  <2>2. toggle'.at = "kill" => toggle'.platform \in Platforms
    BY <1>10 DEF Types, OthersHavePlatform
  <2> QED
    BY <2>1, <2>2 DEF OthersHavePlatform
<1>12. Callers'
  <2>1. compile'["prepare"] = IF "prepare" \in S THEN NoCompile ELSE compile["prepare"]
    BY <1>8 DEF Compilers
  <2>2. compile'["toggle"] = IF "toggle" \in S THEN NoCompile ELSE compile["toggle"]
    BY <1>8 DEF Compilers
  <2> QED
    BY <1>9, <1>10, <2>1, <2>2 DEF Types, Callers, NoCompile
<1> QED
  BY <1>3, <1>4, <1>5, <1>7, <1>11, <1>12 DEF PrepTypes, ToggleTypes, CompileTypes

LEMMA CompileStepTypes ==
  ASSUME Types, NEW c \in Compilers,
         KillRunning(c) \/ MaySpawn(c) \/ SetupFails(c) \/ Spawn(c)
  PROVE  Types'
<1>1. compile[c].at # "none" => {c} \in SUBSET Unwaited
  BY DEF Unwaited
<1>2. CASE KillRunning(c)
  <2>1. {c} \in SUBSET Unwaited /\ Abort({c}) /\ listeners' = listeners
    BY <1>1, <1>2 DEF KillRunning
  <2>2. ChildTypes'
    BY <1>2 DEF KillRunning, Types, ChildTypes, Child
  <2>3. UNCHANGED <<watcher, listeners, paused, closing, process, handling>>
    BY <1>2 DEF KillRunning
  <2> QED
    BY <2>1, <2>2, <2>3, CallersTypes
       DEF Types, handling, WatcherTypes, ListenerTypes, HandlersAreSomeones,
           ClosingTypes, ProcessTypes, EventTypes
<1>3. CASE MaySpawn(c)
  <2>1. CompileTypes'
    BY <1>3 DEF MaySpawn, Types, CompileTypes, Compile
  <2>2. OthersHavePlatform' /\ Callers'
    BY <1>3 DEF MaySpawn, Types, CompileTypes, Compile, OthersHavePlatform, Callers,
                Compilers
  <2>3. UNCHANGED <<watcher, listeners, paused, prep, closing, toggle, process,
                    child, handling>>
    BY <1>3 DEF MaySpawn
  <2> QED
    BY <2>1, <2>2, <2>3
       DEF Types, handling, WatcherTypes, ListenerTypes, HandlersAreSomeones,
           PrepTypes, ToggleTypes, ChildTypes, PrepareHasPlatform,
           ClosingTypes, ProcessTypes, EventTypes
<1>4. CASE SetupFails(c)
  <2>1. {c} \in SUBSET Unwaited /\ Abort({c}) /\ listeners' = listeners
    BY <1>1, <1>4 DEF SetupFails
  <2>2. UNCHANGED <<watcher, listeners, paused, closing, process, child, handling>>
    BY <1>4 DEF SetupFails
  <2> QED
    BY <2>1, <2>2, CallersTypes
       DEF Types, handling, WatcherTypes, ListenerTypes, HandlersAreSomeones,
           ClosingTypes, ProcessTypes, ChildTypes, EventTypes
<1>5. CASE Spawn(c)
  <2> PICK i \in Children :
        /\ child' = [child EXCEPT ![i] =
                       [platform |-> compile[c].platform, at |-> "compiling"]]
        /\ process' = [process EXCEPT ![compile[c].platform] = i]
        /\ compile' = [compile EXCEPT ![c].at = "first", ![c].child = i]
    BY <1>5 DEF Spawn
  <2>1. compile[c].at # "none" /\ compile[c].platform \in Platforms
    BY <1>5 DEF Spawn, Types, OthersHavePlatform
  <2>2. CompileTypes'
    BY ChildrenAre DEF Types, CompileTypes, Compile
  <2>3. OthersHavePlatform' /\ Callers'
    BY <1>5, <2>1 DEF Spawn, Types, CompileTypes, Compile, OthersHavePlatform, Callers,
                Compilers
  <2>4. ChildTypes'
    BY <2>1 DEF Types, ChildTypes, Child
  <2>5. ProcessTypes'
    BY ChildrenAre DEF Types, ProcessTypes
  <2>6. UNCHANGED <<watcher, listeners, paused, prep, closing, toggle, handling>>
    BY <1>5 DEF Spawn
  <2> QED
    BY <2>2, <2>3, <2>4, <2>5, <2>6
       DEF Types, handling, WatcherTypes, ListenerTypes, HandlersAreSomeones,
           PrepTypes, ToggleTypes, PrepareHasPlatform, ClosingTypes, EventTypes
<1> QED
  BY <1>2, <1>3, <1>4, <1>5

LEMMA ChildStepTypes ==
  ASSUME Types, NEW i \in Children,
         FirstMessage(i) \/ Exit(i) \/ Close(i) \/ WebpackChange(i)
  PROVE  Types'
<1>1. WaitsFor(i) \in SUBSET Unwaited
  BY DEF WaitsFor, Unwaited
<1>2. CASE FirstMessage(i)
  <2>1. Resume(WaitsFor(i)) /\ listeners' = listeners
    BY <1>2 DEF FirstMessage
  <2>2. ChildTypes'
    BY <1>2 DEF FirstMessage, Types, ChildTypes, Child
  <2>3. UNCHANGED <<watcher, listeners, paused, closing, process, handling>>
    BY <1>2 DEF FirstMessage
  <2> QED
    BY <1>1, <2>1, <2>2, <2>3, CallersTypes
       DEF Types, handling, WatcherTypes, ListenerTypes, HandlersAreSomeones,
           ClosingTypes, ProcessTypes, EventTypes
<1>3. CASE Exit(i)
  <2>1. ChildTypes'
    BY <1>3 DEF Exit, Types, ChildTypes, Child
  <2>2. UNCHANGED <<watcher, listeners, paused, prep, closing, toggle, compile,
                    process, handling>>
    BY <1>3 DEF Exit
  <2> QED
    BY <2>1, <2>2
       DEF Types, handling, WatcherTypes, ListenerTypes, HandlersAreSomeones,
           PrepTypes, ToggleTypes, CompileTypes, PrepareHasPlatform,
           OthersHavePlatform, Callers, ClosingTypes, ProcessTypes, EventTypes
<1>4. CASE Close(i)
  <2>1. Abort(WaitsFor(i)) /\ listeners' = listeners
    BY <1>4 DEF Close
  <2>2. ChildTypes'
    BY <1>4 DEF Close, Types, ChildTypes, Child
  <2>3. ProcessTypes'
    BY <1>4, ChildrenAre DEF Close, Types, ProcessTypes
  <2>4. UNCHANGED <<watcher, listeners, paused, closing, handling>>
    BY <1>4 DEF Close
  <2> QED
    BY <1>1, <2>1, <2>2, <2>3, <2>4, CallersTypes
       DEF Types, handling, WatcherTypes, ListenerTypes, HandlersAreSomeones,
           ClosingTypes, EventTypes
<1>5. CASE WebpackChange(i)
  <2>1. child[i].platform \in Platforms
    <3> PICK h \in listeners.on : listeners.for[h] = child[i].platform
      BY <1>5 DEF WebpackChange
    <3> QED
      BY DEF Types, ListenerTypes, HandlersAreSomeones, ChildTypes, Child
  <2>2. UNCHANGED <<watcher, listeners, ready, paused, prep, closing, toggle,
                    compile, process, child, owed>>
    BY <1>5 DEF WebpackChange
  <2>3. EventTypes'
    <3>1. persisted' = persisted \union {<<child[i].platform, FALSE>>}
      BY <1>5 DEF WebpackChange
    <3>2. persisted' \subseteq Platforms \X BOOLEAN
      <4>1. <<child[i].platform, FALSE>> \in Platforms \X BOOLEAN
        BY <2>1
      <4>2. persisted \subseteq Platforms \X BOOLEAN
        BY DEF Types, EventTypes
      <4> QED
        BY <3>1, <4>1, <4>2
    <3> QED
      BY <2>2, <3>2 DEF Types, EventTypes
  <2> QED
    BY <2>2, <2>3
       DEF Types, WatcherTypes, ListenerTypes, HandlersAreSomeones,
           PrepTypes, ToggleTypes, CompileTypes, PrepareHasPlatform,
           OthersHavePlatform, Callers, ClosingTypes, ProcessTypes, ChildTypes
<1> QED
  BY <1>2, <1>3, <1>4, <1>5

LEMMA PrepareStepTypes ==
  ASSUME Types,
         \/ PrepareFails \/ StartJSWatcher \/ StartNativeWatcher \/ PrepareEnds
         \/ \E q \in Platforms : Prepare(q) \/ NativeEvent(q)
  PROVE  Types'
<1> USE DEF Types, handling
<1>1. CASE PrepareFails
  <2>1. PrepTypes' /\ prep'.at = "none" /\ prep.at \in {"setup", "changes"}
        /\ prep'.platform = prep.platform
    BY <1>1 DEF PrepareFails, PrepTypes, Prepares
  <2>2. UNCHANGED <<watcher, listeners, paused, closing, toggle, compile, process,
                    child, handling>>
    BY <1>1 DEF PrepareFails
  <2> QED
    BY <2>1, <2>2
       DEF WatcherTypes, ListenerTypes, HandlersAreSomeones, ToggleTypes,
           CompileTypes, PrepareHasPlatform, OthersHavePlatform, Callers,
           ClosingTypes, ProcessTypes, ChildTypes, EventTypes
<1>2. CASE StartJSWatcher
  <2> DEFINE q == prep.platform
             h == listeners.made + 1
  <2>1. q \in Platforms /\ prep.at = "setup" /\ h \in 1 .. MaxHandlers
    BY <1>2 DEF StartJSWatcher, PrepareHasPlatform, ListenerTypes, Handlers
  <2>2. WatcherTypes'
    <3>1. watcher' = [watcher EXCEPT ![q].known = TRUE, ![q].webpack = TRUE]
      BY <1>2 DEF StartJSWatcher
    <3> QED
      BY <3>1, <2>1 DEF WatcherTypes, Watchers
  <2>3. UNCHANGED <<paused, closing, toggle, process, child, handling>>
    BY <1>2 DEF StartJSWatcher
  <2>4. CASE prep' = [prep EXCEPT !.at = "native"] /\ UNCHANGED <<listeners, compile>>
    <3>1. PrepTypes' /\ prep'.at = "native" /\ prep'.platform = prep.platform
      BY <2>4 DEF PrepTypes, Prepares
    <3> QED
      BY <2>1, <2>2, <2>3, <2>4, <3>1
         DEF ListenerTypes, HandlersAreSomeones, ToggleTypes,
           CompileTypes, PrepareHasPlatform, OthersHavePlatform, Callers,
           ClosingTypes, ProcessTypes, ChildTypes, EventTypes
  <2>5. CASE /\ listeners' = [made |-> h, on |-> listeners.on \union {h},
                              for |-> [listeners.for EXCEPT ![h] = q]]
             /\ compile' = [compile EXCEPT !["prepare"] = Compiling(q)]
             /\ prep' = [prep EXCEPT !.at =
                            IF process[q] # 0 THEN "native" ELSE "compile"]
    <3>1. ListenerTypes'
      BY <2>1, <2>5 DEF ListenerTypes, Handlers, HandlersAreSomeones
    <3>2. PrepTypes' /\ prep'.platform = q
          /\ prep'.at = IF process[q] # 0 THEN "native" ELSE "compile"
      BY <2>5 DEF PrepTypes, Prepares
    <3>3. Compiling(q) \in Compile
      BY <2>1, ChildrenAre DEF Compiling, NoCompile, Compile
    <3>4. CompileTypes' /\ compile'["prepare"] = Compiling(q)
          /\ compile'["toggle"] = compile["toggle"]
      BY <2>5, <3>3 DEF CompileTypes, Compilers
    <3>5. PrepareHasPlatform'
      BY <2>1, <3>2 DEF PrepareHasPlatform
    <3>6. OthersHavePlatform' /\ Callers'
      BY <2>1, <2>3, <3>2, <3>4
         DEF OthersHavePlatform, Callers, Compilers, Compiling, NoCompile
    <3> QED
      BY <2>2, <2>3, <3>1, <3>2, <3>4, <3>5, <3>6
         DEF ToggleTypes, ClosingTypes, ProcessTypes, ChildTypes, EventTypes
  <2> QED
    BY <1>2, <2>4, <2>5 DEF StartJSWatcher
<1>3. CASE StartNativeWatcher
  <2>1. prep.platform \in Platforms
    BY <1>3 DEF StartNativeWatcher, PrepareHasPlatform
  <2>2. WatcherTypes'
    BY <1>3, <2>1 DEF StartNativeWatcher, WatcherTypes, Watchers
  <2>3. PrepTypes' /\ prep'.at = "changes" /\ prep'.platform = prep.platform
    BY <1>3 DEF StartNativeWatcher, PrepTypes, Prepares
  <2>4. UNCHANGED <<listeners, paused, closing, toggle, compile, process, child,
                    handling>> /\ prep.at = "native"
    BY <1>3 DEF StartNativeWatcher
  <2> QED
    BY <2>1, <2>2, <2>3, <2>4
       DEF ListenerTypes, HandlersAreSomeones, ToggleTypes,
           CompileTypes, PrepareHasPlatform, OthersHavePlatform, Callers,
           ClosingTypes, ProcessTypes, ChildTypes, EventTypes
<1>4. CASE PrepareEnds
  <2>1. prep.platform \in Platforms /\ prep.at \in {"changes", "native"}
    BY <1>4 DEF PrepareEnds, PrepareHasPlatform
  <2>2. PrepTypes' /\ prep'.at = "none" /\ prep'.platform = prep.platform
    BY <1>4 DEF PrepareEnds, PrepTypes, Prepares
  <2>3. UNCHANGED <<watcher, listeners, persisted, paused, closing, toggle, compile,
                   process, child>>
    BY <1>4 DEF PrepareEnds
  <2>4. EventTypes'
    BY <1>4, <2>3 DEF PrepareEnds, EventTypes
  <2> QED
    BY <2>1, <2>2, <2>3, <2>4
       DEF WatcherTypes, ListenerTypes, HandlersAreSomeones, ToggleTypes,
           CompileTypes, PrepareHasPlatform, OthersHavePlatform, Callers,
           ClosingTypes, ProcessTypes, ChildTypes
<1>5. ASSUME NEW q \in Platforms, Prepare(q) PROVE Types'
  <2>1. PrepTypes' /\ PrepareHasPlatform' /\ prep'.at = "setup" /\ prep.at = "none"
    BY <1>5 DEF Prepare, PrepTypes, Prepares, PrepareHasPlatform
  <2>2. UNCHANGED <<watcher, listeners, paused, closing, toggle, compile, process,
                    child, handling>>
    BY <1>5 DEF Prepare
  <2> QED
    BY <2>1, <2>2
       DEF WatcherTypes, ListenerTypes, HandlersAreSomeones, ToggleTypes,
           CompileTypes, OthersHavePlatform, Callers,
           ClosingTypes, ProcessTypes, ChildTypes, EventTypes
<1>6. ASSUME NEW q \in Platforms, NativeEvent(q) PROVE Types'
  <2>1. UNCHANGED <<watcher, listeners, ready, paused, prep, closing, toggle,
                    compile, process, child>>
    BY <1>6 DEF NativeEvent
  <2>2. EventTypes'
    <3>1. <<q, TRUE>> \in Platforms \X BOOLEAN
      OBVIOUS
    <3>2. persisted \subseteq Platforms \X BOOLEAN
      BY DEF EventTypes
    <3>3. persisted' = persisted \union {<<q, TRUE>>} /\ owed' = owed \union {q}
      BY <1>6 DEF NativeEvent
    <3>4. persisted' \subseteq Platforms \X BOOLEAN
      BY <3>1, <3>2, <3>3
    <3>5. owed' \subseteq Platforms
      BY <3>3 DEF EventTypes
    <3> QED
      BY <2>1, <3>4, <3>5 DEF EventTypes
  <2> QED
    BY <2>1, <2>2
       DEF WatcherTypes, ListenerTypes, HandlersAreSomeones, PrepTypes, ToggleTypes,
           CompileTypes, PrepareHasPlatform, OthersHavePlatform, Callers,
           ClosingTypes, ProcessTypes, ChildTypes
<1> QED
  BY <1>1, <1>2, <1>3, <1>4, <1>5, <1>6

(* stopWebpackCompiler, up to its await and after it.                      *)
LEMMA StopCompilerTypes ==
  ASSUME Types, NEW q \in Platforms, StopCompiler(q)
  PROVE  ClosingTypes'
  BY ChildrenAre DEF Types, ClosingTypes, Closing, StopCompiler, NotClosing,
                     ProcessTypes

LEMMA KillTypes ==
  ASSUME Types, NEW q \in Platforms, NEW i \in ChildOrNone, Kill(i, q)
  PROVE  ChildTypes' /\ ProcessTypes'
  BY ChildrenAre DEF Types, ChildTypes, Child, Kill, ProcessTypes, Alive, Running

LEMMA StopStepTypes ==
  ASSUME Types, NEW q \in Platforms,
         StopWatchers(q) \/ NativeClosed(q) \/ WebpackStopped(q)
  PROVE  Types'
<1> USE DEF Types, handling
<1>1. CASE StopWatchers(q)
  <2>1. UNCHANGED <<watcher, listeners, paused, prep, toggle, compile, process,
                   child, handling>>
    BY <1>1 DEF StopWatchers
  <2>2. CASE closing' = [closing EXCEPT ![q].at = "native"]
    <3>1. ClosingTypes'
      BY <2>2 DEF ClosingTypes, Closing
    <3> QED
      BY <2>1, <3>1
         DEF WatcherTypes, ListenerTypes, HandlersAreSomeones, PrepTypes, ToggleTypes,
             CompileTypes, PrepareHasPlatform, OthersHavePlatform, Callers,
             ProcessTypes, ChildTypes, EventTypes
  <2>3. CASE StopCompiler(q)
    BY <2>1, <2>3, StopCompilerTypes
       DEF WatcherTypes, ListenerTypes, HandlersAreSomeones, PrepTypes, ToggleTypes,
           CompileTypes, PrepareHasPlatform, OthersHavePlatform, Callers,
           ProcessTypes, ChildTypes, EventTypes
  <2> QED
    BY <1>1, <2>2, <2>3 DEF StopWatchers
<1>2. CASE NativeClosed(q)
  <2>1. UNCHANGED <<listeners, paused, prep, toggle, compile, process, child,
                    handling>> /\ ClosingTypes'
    BY <1>2, StopCompilerTypes DEF NativeClosed
  <2>2. WatcherTypes'
    BY <1>2 DEF NativeClosed, WatcherTypes, Watchers
  <2> QED
    BY <2>1, <2>2
       DEF ListenerTypes, HandlersAreSomeones, PrepTypes, ToggleTypes,
           CompileTypes, PrepareHasPlatform, OthersHavePlatform, Callers,
           ProcessTypes, ChildTypes, EventTypes
<1>3. CASE WebpackStopped(q)
  <2>1. closing[q].child \in ChildOrNone
    BY DEF ClosingTypes, Closing
  <2>2. ChildTypes' /\ ProcessTypes'
    BY <1>3, <2>1, KillTypes DEF WebpackStopped
  <2>3. WatcherTypes'
    BY <1>3 DEF WebpackStopped, WatcherTypes, Watchers
  <2>4. ClosingTypes'
    BY <1>3, ChildrenAre DEF WebpackStopped, ClosingTypes, Closing, NotClosing
  <2>5. ListenerTypes' /\ listeners'.made = listeners.made
    BY <1>3 DEF WebpackStopped, ListenerTypes, Handlers, HandlersAreSomeones
  <2>6. UNCHANGED <<paused, prep, toggle, compile, handling>>
    BY <1>3 DEF WebpackStopped
  <2> QED
    BY <2>2, <2>3, <2>4, <2>5, <2>6
       DEF PrepTypes, ToggleTypes, CompileTypes, PrepareHasPlatform,
           OthersHavePlatform, Callers, EventTypes
<1> QED
  BY <1>1, <1>2, <1>3

(* The loops of toggleFileWatcher.                                         *)
LEMMA PauseNextTypes ==
  ASSUME Types, NEW left \in SUBSET Platforms, NEW calls \in 0 .. MaxToggles,
         PauseNext(left, calls)
  PROVE  /\ ToggleTypes'
         /\ toggle'.at = "kill" => toggle'.platform \in Platforms
         /\ toggle'.at \in {"none", "kill"}
<1>1. toggle \in Toggles
  BY DEF Types, ToggleTypes
<1>2. CASE toggle' = [toggle EXCEPT !.at = "none", !.left = {}, !.calls = calls]
  BY <1>1, <1>2 DEF ToggleTypes, Toggles
<1>3. ASSUME NEW q \in left,
             toggle' = [at |-> "kill", left |-> left \ {q}, platform |-> q,
                        child |-> process[q], calls |-> calls]
      PROVE  /\ ToggleTypes'
             /\ toggle'.at = "kill" /\ toggle'.platform \in Platforms
  BY <1>3 DEF Types, ProcessTypes, ToggleTypes, Toggles
<1> QED
  BY <1>2, <1>3 DEF PauseNext

LEMMA ResumeNextTypes ==
  ASSUME Types, NEW left \in SUBSET Platforms, NEW calls \in 0 .. MaxToggles,
         ResumeNext(left, calls), toggle.at \in {"none", "resuming"},
         prep' = prep
  PROVE  /\ ToggleTypes' /\ CompileTypes' /\ WatcherTypes'
         /\ OthersHavePlatform' /\ Callers'
<1>1. toggle \in Toggles /\ compile \in [Compilers -> Compile] /\ watcher \in Watchers
  BY DEF Types, ToggleTypes, CompileTypes, WatcherTypes
<1>2. CASE /\ toggle' = [toggle EXCEPT !.at = "none", !.calls = calls]
           /\ UNCHANGED <<watcher, compile>>
  <2>1. toggle' \in Toggles /\ toggle'.at = "none"
    BY <1>1, <1>2 DEF Toggles
  <2> QED
    BY <1>2, <2>1
       DEF Types, ToggleTypes, CompileTypes, WatcherTypes, OthersHavePlatform, Callers
<1>3. ASSUME NEW q \in left,
             watcher' = [watcher EXCEPT ![q].webpack = TRUE],
             compile' = [compile EXCEPT !["toggle"] = Compiling(q)],
             toggle' = [toggle EXCEPT !.left = left \ {q}, !.calls = calls,
                         !.at = IF process[q] # 0 THEN "resuming" ELSE "compile"]
      PROVE  /\ ToggleTypes' /\ CompileTypes' /\ WatcherTypes'
             /\ OthersHavePlatform' /\ Callers'
  <2>1. watcher' \in Watchers
    BY <1>1, <1>3 DEF Watchers
  <2>2. /\ toggle' \in Toggles
        /\ toggle'.at = IF process[q] # 0 THEN "resuming" ELSE "compile"
    BY <1>1, <1>3 DEF Toggles
  <2>3. Compiling(q) \in Compile
    BY ChildrenAre DEF Compiling, NoCompile, Compile
  <2>4. compile' \in [Compilers -> Compile] /\ compile'["toggle"] = Compiling(q)
        /\ compile'["prepare"] = compile["prepare"]
    BY <1>1, <1>3, <2>3 DEF Compilers
  <2> QED
    BY <2>1, <2>2, <2>4
       DEF Types, ToggleTypes, CompileTypes, WatcherTypes, OthersHavePlatform,
           Callers, Compilers, Compiling, NoCompile
<1> QED
  BY <1>2, <1>3 DEF ResumeNext

LEMMA ToggleStepTypes ==
  ASSUME Types, Pause \/ PlatformPaused \/ Unpause \/ ResumeLoop
  PROVE  Types'
<1> USE DEF Types, handling
<1>1. Known \in SUBSET Platforms
  BY DEF Known
<1>2. /\ toggle.left \in SUBSET Platforms /\ toggle.calls \in 0 .. MaxToggles
      /\ toggle.child \in ChildOrNone
  BY DEF ToggleTypes, Toggles
<1>3. toggle.calls < MaxToggles => toggle.calls + 1 \in 0 .. MaxToggles
  BY <1>2
<1>4. CASE Pause
  <2>1. ToggleTypes' /\ (toggle'.at = "kill" => toggle'.platform \in Platforms)
        /\ toggle'.at # "compile" /\ toggle.at # "compile" /\ paused' = TRUE
    BY <1>1, <1>3, <1>4, PauseNextTypes DEF Pause, MayToggle
  <2>2. UNCHANGED <<watcher, listeners, prep, closing, compile, process, child,
                    handling>>
    BY <1>4 DEF Pause
  <2> QED
    BY <2>1, <2>2
       DEF WatcherTypes, ListenerTypes, HandlersAreSomeones, PrepTypes,
           CompileTypes, PrepareHasPlatform, OthersHavePlatform, Callers,
           ClosingTypes, ProcessTypes, ChildTypes, EventTypes
<1>5. CASE PlatformPaused
  <2> DEFINE q == toggle.platform
  <2>1. q \in Platforms /\ toggle.at = "kill"
    BY <1>5 DEF PlatformPaused, OthersHavePlatform
  <2>2. ToggleTypes' /\ (toggle'.at = "kill" => toggle'.platform \in Platforms)
        /\ toggle'.at # "compile"
    BY <1>2, <1>5, PauseNextTypes DEF PlatformPaused
  <2>3. ChildTypes' /\ ProcessTypes'
    BY <1>2, <1>5, <2>1, KillTypes DEF PlatformPaused
  <2>4. WatcherTypes'
    BY <1>5, <2>1 DEF PlatformPaused, WatcherTypes, Watchers
  <2>5. UNCHANGED <<listeners, paused, prep, closing, compile, handling>>
    BY <1>5 DEF PlatformPaused
  <2> QED
    BY <2>1, <2>2, <2>3, <2>4, <2>5
       DEF ListenerTypes, HandlersAreSomeones, PrepTypes,
           CompileTypes, PrepareHasPlatform, OthersHavePlatform, Callers,
           ClosingTypes, EventTypes
<1>6. CASE Unpause
  <2>1. ToggleTypes' /\ CompileTypes' /\ WatcherTypes' /\ OthersHavePlatform' /\ Callers'
    BY <1>1, <1>3, <1>6, ResumeNextTypes DEF Unpause, MayToggle
  <2>2. UNCHANGED <<listeners, prep, closing, process, child, handling>>
        /\ paused' = FALSE
    BY <1>6 DEF Unpause
  <2> QED
    BY <2>1, <2>2
       DEF ListenerTypes, HandlersAreSomeones, PrepTypes,
           PrepareHasPlatform, ClosingTypes, ProcessTypes, ChildTypes, EventTypes
<1>7. CASE ResumeLoop
  <2>1. ToggleTypes' /\ CompileTypes' /\ WatcherTypes' /\ OthersHavePlatform' /\ Callers'
    BY <1>2, <1>7, ResumeNextTypes DEF ResumeLoop
  <2>2. UNCHANGED <<listeners, paused, prep, closing, process, child, handling>>
    BY <1>7 DEF ResumeLoop
  <2> QED
    BY <2>1, <2>2
       DEF ListenerTypes, HandlersAreSomeones, PrepTypes,
           PrepareHasPlatform, ClosingTypes, ProcessTypes, ChildTypes, EventTypes
<1> QED
  BY <1>4, <1>5, <1>6, <1>7

LEMMA NextTypes == Types /\ [Next]_vars => Types'
<1> SUFFICES ASSUME Types, [Next]_vars PROVE Types'
  OBVIOUS
<1>1. CASE UNCHANGED vars
  BY <1>1 DEF vars, Types, WatcherTypes, ListenerTypes, HandlersAreSomeones,
      PrepTypes, ClosingTypes, ToggleTypes, CompileTypes, ProcessTypes, ChildTypes,
      EventTypes, PrepareHasPlatform, OthersHavePlatform, Callers
<1>2. CASE Next
  BY <1>2, CompileStepTypes, ChildStepTypes, PrepareStepTypes, StopStepTypes,
     ToggleStepTypes DEF Next, Step, Compiled
<1> QED
  BY <1>1, <1>2

LEMMA HistoryStep ==
  ASSUME Types, HistoryTypes, [Next]_vars
  PROVE  HistoryTypes'
<1> USE DEF HistoryTypes, history
<1>1. ASSUME NEW q, NEW i PROVE Others(q, i) \subseteq Children
  BY DEF Others
<1>2. ASSUME NEW c \in Compilers, Spawn(c) PROVE HistoryTypes'
  <2>1. PICK i \in Children :
          forgotten' = forgotten \union Others(compile[c].platform, i) \union
                         (IF watcher[compile[c].platform].webpack THEN {} ELSE {i})
    BY <1>2 DEF Spawn
  <2>2. UNCHANGED <<suspended, misheard>>
    BY <1>2 DEF Spawn
  <2> QED
    BY <1>1, <2>1, <2>2
<1>3. ASSUME NEW i \in Children, Close(i) PROVE HistoryTypes'
  BY <1>1, <1>3 DEF Close
<1>4. CASE StartJSWatcher
  BY <1>4 DEF StartJSWatcher, Types, PrepareHasPlatform
<1>5. ASSUME NEW q \in Platforms, WebpackStopped(q) PROVE HistoryTypes'
  <2>1. OutOfTurn(q) \subseteq Platforms
    BY DEF OutOfTurn
  <2> QED
    BY <1>1, <1>5, <2>1 DEF WebpackStopped, Kill
<1>6. CASE PlatformPaused
  BY <1>1, <1>6 DEF PlatformPaused, Kill, Types, OthersHavePlatform
<1>7. ASSUME NEW left \in SUBSET Platforms, NEW calls, ResumeNext(left, calls)
      PROVE  suspended' \subseteq Platforms /\ misheard' \subseteq Platforms
  BY <1>7 DEF ResumeNext
<1>8. CASE Unpause \/ ResumeLoop
  <2>1. Known \in SUBSET Platforms /\ toggle.left \in SUBSET Platforms
    BY DEF Known, Types, ToggleTypes, Toggles
  <2> QED
    BY <1>7, <1>8, <2>1 DEF Unpause, ResumeLoop
<1>9. CASE UNCHANGED history
  BY <1>9
<1>10. ASSUME \/ \E c \in Compilers : KillRunning(c) \/ MaySpawn(c) \/ SetupFails(c)
              \/ \E i \in Children : FirstMessage(i) \/ Exit(i) \/ WebpackChange(i)
              \/ PrepareFails \/ StartNativeWatcher \/ PrepareEnds \/ Pause
              \/ \E q \in Platforms : Prepare(q) \/ StopWatchers(q) \/ NativeClosed(q)
                                      \/ NativeEvent(q)
              \/ UNCHANGED vars
       PROVE  UNCHANGED history
  BY <1>10 DEF KillRunning, MaySpawn, SetupFails, FirstMessage, Exit, WebpackChange,
               PrepareFails, StartNativeWatcher, PrepareEnds, Pause, Prepare,
               StopWatchers, NativeClosed, NativeEvent, vars
<1> QED
  BY <1>2, <1>3, <1>4, <1>5, <1>6, <1>8, <1>9, <1>10 DEF Next, Step, Compiled

(* In every state of every behaviour, whoever overlaps whom, each variable *)
(* has its type: in particular a stopWatchers() that is about to kill has  *)
(* a process to kill (stopWebpackCompiler throws without one).             *)
THEOREM TypeCorrect == Spec => []TypeOK
<1>1. Init => Types /\ HistoryTypes
  BY InitTypes DEF Init, HistoryTypes
<1>2. (Types /\ HistoryTypes) /\ [Next]_vars => (Types /\ HistoryTypes)'
  BY NextTypes, HistoryStep
<1> QED
  BY <1>1, <1>2, TypesAreTypeOK, PTL DEF Spec

-----------------------------------------------------------------------------
(* Native changes.  An owed change is among the persisted events, and a    *)
(* prepare() has no result before its end.                                 *)
OwedIsPersisted == \A q \in owed : <<q, TRUE>> \in persisted
NoResultYet == prep.at # "none" => prep.result = "none"

ToldInv == Types /\ OwedIsPersisted /\ NoResultYet

(* Whatever leaves the events alone, and prep or just where it is.         *)
LEMMA ToldAside ==
  ASSUME ToldInv, Types', UNCHANGED handling,
         \/ prep' = prep
         \/ prep.at # "none" /\ prep'.result = "none"
         \/ prep'.result = "none"
         \/ prep.at # "none" /\ prep'.result = prep.result
  PROVE  /\ ToldInv'
         /\ prep.at # "none" => prep'.result = "none"
  BY DEF ToldInv, OwedIsPersisted, NoResultYet, handling

LEMMA ResultOfCallers ==
  ASSUME ToldInv, NEW S \in SUBSET Unwaited, Resume(S) \/ Abort(S)
  PROVE  prep' = prep \/ prep'.result = "none"
<1>1. "prepare" \in S => prep.at # "none"
  BY DEF ToldInv, Types, Callers, Unwaited
<1>2. prep \in Prepares
  BY DEF ToldInv, Types, PrepTypes
<1> QED
  BY <1>1, <1>2 DEF ToldInv, NoResultYet, Resume, Abort, Prepares

LEMMA ToldStep ==
  ASSUME ToldInv, Next
  PROVE  ToldInv' /\ (\A q \in Platforms :
           q \in owed /\ prep.platform = q /\ prep.at # "none" =>
             prep'.result # "same")
<1>1. Types'
  BY NextTypes DEF ToldInv
<1>2. prep \in Prepares
  BY DEF ToldInv, Types, PrepTypes
<1>3. CASE UNCHANGED <<prep, handling>>
  BY <1>1, <1>3, ToldAside DEF ToldInv, NoResultYet
<1>4. ASSUME NEW S \in SUBSET Unwaited, Resume(S) \/ Abort(S), UNCHANGED handling
      PROVE  ToldInv' /\ (prep.at # "none" => prep'.result = "none")
  BY <1>1, <1>4, ResultOfCallers, ToldAside
<1>5. ASSUME NEW c \in Compilers, KillRunning(c) \/ SetupFails(c)
      PROVE  ToldInv' /\ (prep.at # "none" => prep'.result = "none")
  <2>1. {c} \in SUBSET Unwaited /\ Abort({c}) /\ UNCHANGED handling
    BY <1>5 DEF KillRunning, SetupFails, Unwaited
  <2> QED
    BY <1>4, <2>1
<1>6. ASSUME NEW i \in Children, FirstMessage(i) \/ Close(i)
      PROVE  ToldInv' /\ (prep.at # "none" => prep'.result = "none")
  <2>1. WaitsFor(i) \in SUBSET Unwaited /\ UNCHANGED handling
        /\ (Resume(WaitsFor(i)) \/ Abort(WaitsFor(i)))
    BY <1>6 DEF FirstMessage, Close, Unwaited, WaitsFor
  <2> QED
    BY <1>4, <2>1
<1>7. CASE PrepareFails \/ StartJSWatcher \/ StartNativeWatcher
           \/ \E q \in Platforms : Prepare(q)
  <2>1. UNCHANGED handling
    BY <1>7 DEF PrepareFails, StartJSWatcher, StartNativeWatcher, Prepare
  <2>2. \/ prep'.result = "none"
        \/ prep.at # "none" /\ prep'.result = prep.result
    BY <1>2, <1>7 DEF PrepareFails, StartJSWatcher, StartNativeWatcher, Prepare, Prepares
  <2> QED
    BY <1>1, <2>1, <2>2, ToldAside
<1>8. CASE PrepareEnds
  <2>1. UNCHANGED persisted /\ owed' \subseteq owed /\ prep'.at = "none"
    BY <1>2, <1>8 DEF PrepareEnds, Prepares
  <2>2. prep.platform \in owed => prep'.result = "native"
    <3>1. prep.platform \in owed => Persisted(prep.platform)
      BY DEF ToldInv, OwedIsPersisted, Persisted
    <3> QED
      BY <1>2, <1>8, <3>1 DEF PrepareEnds, Prepares
  <2> QED
    BY <1>1, <2>1, <2>2 DEF ToldInv, OwedIsPersisted, NoResultYet
<1>9. ASSUME NEW q \in Platforms, NativeEvent(q)
      PROVE  ToldInv' /\ prep' = prep
  BY <1>1, <1>9 DEF NativeEvent, ToldInv, OwedIsPersisted, NoResultYet
<1>10. ASSUME NEW i \in Children, WebpackChange(i)
       PROVE  ToldInv' /\ prep' = prep
  BY <1>1, <1>10 DEF WebpackChange, ToldInv, OwedIsPersisted, NoResultYet
<1>11. ASSUME \/ \E c \in Compilers : MaySpawn(c) \/ Spawn(c)
              \/ \E i \in Children : Exit(i)
              \/ \E q \in Platforms : StopWatchers(q) \/ NativeClosed(q)
                                       \/ WebpackStopped(q)
              \/ Pause \/ PlatformPaused \/ Unpause \/ ResumeLoop
       PROVE  UNCHANGED <<prep, handling>>
  BY <1>11 DEF MaySpawn, Spawn, Exit, StopWatchers, NativeClosed, WebpackStopped,
       Pause, PlatformPaused, Unpause, ResumeLoop
<1> QED
  BY <1>3, <1>5, <1>6, <1>7, <1>8, <1>9, <1>10, <1>11
     DEF Next, Step, Compiled, ToldInv, NoResultYet

(* However prepares of several platforms fail, succeed and overlap the     *)
(* stopping and pausing of the watchers, one that succeeds for a platform  *)
(* with an unreported native change reports native changes.                *)
THEOREM NativeChangeIsTold == Spec => NativeIsTold
<1>1. Init => ToldInv
  BY InitTypes DEF Init, ToldInv, OwedIsPersisted, NoResultYet
<1>2. ToldInv /\ UNCHANGED vars => ToldInv'
  BY NextTypes DEF ToldInv, OwedIsPersisted, NoResultYet, vars
<1>3. ToldInv /\ [Next]_vars => ToldInv'
  BY <1>2, ToldStep
<1>4. ToldInv /\ [Next]_vars =>
        [\A q \in Platforms : q \in owed /\ prep.platform = q /\ prep.at # "none" =>
             prep'.result # "same"]_vars
  BY ToldStep
<1> QED
  BY <1>1, <1>3, <1>4, PTL DEF Spec, NativeIsTold

-----------------------------------------------------------------------------
(* The steps that leave the entries of webpackProcesses, the listeners and *)
(* the flags of the platforms alone, and start no webpack.                 *)
Quiet ==
    \/ \E c \in Compilers : KillRunning(c) \/ MaySpawn(c) \/ SetupFails(c)
    \/ \E i \in Children : FirstMessage(i) \/ Exit(i) \/ WebpackChange(i)
    \/ PrepareFails \/ StartNativeWatcher \/ PrepareEnds \/ Pause
    \/ \E q \in Platforms : Prepare(q) \/ StopWatchers(q) \/ NativeClosed(q)
                             \/ NativeEvent(q)
    \/ UNCHANGED vars

SameFlags == \A q \in Platforms : watcher'[q].webpack = watcher[q].webpack

(* No webpack starts to run, or changes its platform.                      *)
NoneStarts ==
    \A i \in Children : Running(i)' => Running(i) /\ child'[i].platform = child[i].platform

(* A compileWithWatch call on its way to a webpack for platform q.         *)
OnItsWay(q) ==
    \E c \in Compilers : compile[c].platform = q /\ compile[c].at \in {"setup", "spawn"}

Born == \A i \in Children : Running(i) => child[i].platform \in Platforms

LEMMA CallersSetOut ==
  ASSUME NEW S \in SUBSET Compilers, Resume(S) \/ Abort(S), NEW q, OnItsWay(q)'
  PROVE  OnItsWay(q)
<1>1. PICK c \in Compilers : compile'[c].platform = q /\ compile'[c].at \in {"setup", "spawn"}
  BY DEF OnItsWay
<1>2. compile'[c] = IF c \in S THEN NoCompile ELSE compile[c]
  BY DEF Resume, Abort
<1> QED
  BY <1>1, <1>2 DEF OnItsWay, NoCompile

LEMMA QuietSteps ==
  ASSUME Types, Quiet
  PROVE  /\ UNCHANGED <<listeners, process, suspended, misheard, forgotten>>
         /\ SameFlags /\ NoneStarts
         /\ \A q \in Platforms : OnItsWay(q)' => OnItsWay(q)
<1>1. /\ watcher \in Watchers /\ child \in [Children -> Child]
      /\ compile \in [Compilers -> Compile]
  BY DEF Types, WatcherTypes, ChildTypes, CompileTypes
<1>2. UNCHANGED watcher => SameFlags
  BY DEF SameFlags
<1>3. UNCHANGED child => NoneStarts
  BY DEF NoneStarts, Running
<1>4. UNCHANGED compile => \A q \in Platforms : OnItsWay(q)' => OnItsWay(q)
  BY DEF OnItsWay
<1>5. ASSUME NEW c \in Compilers, KillRunning(c) \/ SetupFails(c)
      PROVE  /\ UNCHANGED <<watcher, listeners, process, history>> /\ NoneStarts
             /\ \A q \in Platforms : OnItsWay(q)' => OnItsWay(q)
  <2>1. UNCHANGED <<watcher, listeners, process, history>> /\ Abort({c})
    BY <1>5 DEF KillRunning, SetupFails
  <2>2. NoneStarts
    BY <1>1, <1>3, <1>5 DEF KillRunning, SetupFails, NoneStarts, Running, Child
  <2> QED
    BY <2>1, <2>2, CallersSetOut
<1>6. ASSUME NEW c \in Compilers, MaySpawn(c)
      PROVE  /\ UNCHANGED <<watcher, listeners, process, child, history>>
             /\ \A q \in Platforms : OnItsWay(q)' => OnItsWay(q)
  <2>1. compile[c].at = "setup"
    BY <1>6 DEF MaySpawn
  <2>2. \A d \in Compilers : /\ compile'[d].platform = compile[d].platform
                             /\ compile'[d].at = IF d = c THEN "spawn" ELSE compile[d].at
    BY <1>1, <1>6 DEF MaySpawn, Compile
  <2> QED
    BY <1>6, <2>1, <2>2 DEF MaySpawn, OnItsWay
<1>7. ASSUME NEW i \in Children, FirstMessage(i)
      PROVE  /\ UNCHANGED <<watcher, listeners, process, history>> /\ NoneStarts
             /\ \A q \in Platforms : OnItsWay(q)' => OnItsWay(q)
  <2>1. UNCHANGED <<watcher, listeners, process, history>> /\ Resume(WaitsFor(i))
    BY <1>7 DEF FirstMessage
  <2>2. NoneStarts
    BY <1>1, <1>7 DEF FirstMessage, NoneStarts, Running, Child
  <2>3. WaitsFor(i) \in SUBSET Compilers
    BY DEF WaitsFor
  <2> QED
    BY <2>1, <2>2, <2>3, CallersSetOut
<1>8. ASSUME NEW i \in Children, Exit(i)
      PROVE  UNCHANGED <<watcher, listeners, process, compile, history>> /\ NoneStarts
  BY <1>1, <1>8 DEF Exit, NoneStarts, Running, Child
<1>9. CASE StartNativeWatcher
  BY <1>1, <1>3, <1>4, <1>9 DEF StartNativeWatcher, SameFlags, Watchers, history
<1>10. ASSUME NEW q \in Platforms, NativeClosed(q)
       PROVE  UNCHANGED <<listeners, process, compile, child, history>> /\ SameFlags
  BY <1>1, <1>10 DEF NativeClosed, SameFlags, Watchers
<1>11. ASSUME \/ \E i \in Children : WebpackChange(i)
              \/ PrepareFails \/ PrepareEnds \/ Pause
              \/ \E q \in Platforms : Prepare(q) \/ StopWatchers(q) \/ NativeEvent(q)
              \/ UNCHANGED vars
       PROVE  UNCHANGED <<watcher, listeners, process, compile, child, history>>
  BY <1>11 DEF WebpackChange, PrepareFails, PrepareEnds, Pause, Prepare, StopWatchers,
               NativeEvent, vars
<1> QED
  BY <1>2, <1>3, <1>4, <1>5, <1>6, <1>7, <1>8, <1>9, <1>10, <1>11 DEF Quiet, history

(* The steps that are not.                                                 *)
LEMMA NextIs ==
  ASSUME [Next]_vars
  PROVE  \/ Quiet
         \/ \E c \in Compilers : Spawn(c)
         \/ \E i \in Children : Close(i)
         \/ StartJSWatcher \/ PlatformPaused \/ Unpause \/ ResumeLoop
         \/ \E q \in Platforms : WebpackStopped(q)
  BY DEF Next, Step, Compiled, Quiet

(* What toggleFileWatcher's loops leave alone.                             *)
LEMMA ResumeIs ==
  ASSUME Types, Unpause \/ ResumeLoop
  PROVE  /\ UNCHANGED <<listeners, process, child, forgotten>>
         /\ \E left \in SUBSET Platforms, calls \in Nat : ResumeNext(left, calls)
<1>1. /\ Known \in SUBSET Platforms /\ toggle.left \in SUBSET Platforms
      /\ toggle.calls \in Nat /\ toggle.calls + 1 \in Nat
  BY DEF Known, Types, ToggleTypes, Toggles
<1> QED
  BY <1>1 DEF Unpause, ResumeLoop

-----------------------------------------------------------------------------
(* The running webpack of a platform is known.                             *)
KnownInv == Types /\ Born /\ RunningIsKnown

LEMMA KnownAside ==
  ASSUME KnownInv, NoneStarts, UNCHANGED <<process, forgotten>>,
         \A q \in Platforms : watcher[q].webpack => watcher'[q].webpack
  PROVE  Born' /\ RunningIsKnown'
  BY DEF KnownInv, Born, RunningIsKnown, NoneStarts

LEMMA KillKnown ==
  ASSUME KnownInv, NEW q \in Platforms, NEW i \in ChildOrNone, Kill(i, q),
         watcher' = [watcher EXCEPT ![q].webpack = FALSE]
  PROVE  Born' /\ RunningIsKnown' /\ NoneStarts
<1>1. /\ watcher \in Watchers /\ child \in [Children -> Child]
      /\ process \in [Platforms -> ChildOrNone]
  BY DEF KnownInv, Types, WatcherTypes, ChildTypes, ProcessTypes
<1>2. \A j \in Children : Running(j)' => j # i /\ child'[j] = child[j]
  BY <1>1 DEF Kill, Running, Alive, Child
<1>3. NoneStarts
  BY <1>2 DEF NoneStarts, Running
<1>4. Born'
  BY <1>3 DEF KnownInv, Born, NoneStarts
<1>5. ASSUME NEW j \in Children, Running(j)', j \notin forgotten'
      PROVE  /\ watcher'[child'[j].platform].webpack
             /\ process'[child'[j].platform] = j
  <2> DEFINE p == child[j].platform
  <2>1. j # i /\ Running(j) /\ child'[j].platform = p /\ p \in Platforms
    BY <1>2, <1>3, <1>5 DEF NoneStarts, KnownInv, Born
  <2>2. j \notin forgotten /\ j \notin Others(q, i)
    BY <1>5 DEF Kill
  <2>3. watcher[p].webpack /\ process[p] = j
    BY <2>1, <2>2 DEF KnownInv, RunningIsKnown
  <2>4. p # q
    BY <2>1, <2>2, <2>3 DEF Others
  <2> QED
    BY <1>1, <2>1, <2>3, <2>4 DEF Kill, Watchers
<1> QED
  BY <1>3, <1>4, <1>5 DEF RunningIsKnown

LEMMA KnownStep ==
  ASSUME KnownInv, [Next]_vars
  PROVE  KnownInv'
<1>1. Types'
  BY NextTypes DEF KnownInv
<1>2. /\ watcher \in Watchers /\ child \in [Children -> Child]
      /\ process \in [Platforms -> ChildOrNone]
  BY DEF KnownInv, Types, WatcherTypes, ChildTypes, ProcessTypes
<1>3. UNCHANGED child => NoneStarts
  BY DEF NoneStarts, Running
<1>4. CASE Quiet
  BY <1>1, <1>4, QuietSteps, KnownAside DEF KnownInv, SameFlags
<1>5. ASSUME NEW c \in Compilers, Spawn(c) PROVE KnownInv'
  <2> DEFINE q == compile[c].platform
  <2>1. PICK i \in Children :
          /\ child' = [child EXCEPT ![i] = [platform |-> q, at |-> "compiling"]]
          /\ process' = [process EXCEPT ![q] = i]
          /\ forgotten' = forgotten \union Others(q, i) \union
                            (IF watcher[q].webpack THEN {} ELSE {i})
    BY <1>5 DEF Spawn
  <2>2. q \in Platforms /\ UNCHANGED watcher
    BY <1>5 DEF Spawn, KnownInv, Types, OthersHavePlatform
  <2>3. /\ child'[i].platform = q
        /\ \A j \in Children : j # i => child'[j] = child[j]
    BY <1>2, <2>1
  <2>4. Born'
    BY <2>2, <2>3 DEF KnownInv, Born, Running
  <2>5. ASSUME NEW j \in Children, Running(j)', j \notin forgotten'
        PROVE  /\ watcher'[child'[j].platform].webpack
               /\ process'[child'[j].platform] = j
    <3>1. CASE j = i
      BY <1>2, <2>1, <2>2, <2>3, <2>5, <3>1
    <3>2. CASE j # i
      <4>1. Running(j) /\ child'[j] = child[j] /\ child[j].platform \in Platforms
        BY <2>3, <2>5, <3>2 DEF Running, KnownInv, Born
      <4>2. watcher[child[j].platform].webpack /\ process[child[j].platform] = j
        BY <2>1, <2>5, <4>1 DEF KnownInv, RunningIsKnown
      <4>3. child[j].platform # q
        BY <2>1, <2>5, <3>2, <4>2 DEF Others
      <4> QED
        BY <1>2, <2>1, <2>2, <4>1, <4>2, <4>3
    <3> QED
      BY <3>1, <3>2
  <2> QED
    BY <1>1, <2>4, <2>5 DEF KnownInv, RunningIsKnown
<1>6. ASSUME NEW i \in Children, Close(i) PROVE KnownInv'
  <2> DEFINE q == child[i].platform
  <2>1. /\ child[i].at = "exited" /\ child' = [child EXCEPT ![i].at = "gone"]
        /\ process' = [process EXCEPT ![q] = 0]
        /\ forgotten' = forgotten \union Others(q, i) /\ UNCHANGED watcher
    BY <1>6 DEF Close
  <2>2. \A j \in Children : Running(j)' => j # i /\ Running(j) /\ child'[j] = child[j]
    BY <1>2, <2>1 DEF Running, Child
  <2>3. Born'
    BY <2>2 DEF KnownInv, Born
  <2>4. ASSUME NEW j \in Children, Running(j)', j \notin forgotten'
        PROVE  /\ watcher'[child'[j].platform].webpack
               /\ process'[child'[j].platform] = j
    <3>1. child[j].platform \in Platforms
      BY <2>2, <2>4 DEF KnownInv, Born
    <3>2. watcher[child[j].platform].webpack /\ process[child[j].platform] = j
      BY <2>1, <2>2, <2>4 DEF KnownInv, RunningIsKnown
    <3>3. child[j].platform # q
      BY <2>1, <2>2, <2>4, <3>2 DEF Others
    <3> QED
      BY <1>2, <2>1, <2>2, <2>4, <3>1, <3>2, <3>3
  <2> QED
    BY <1>1, <2>3, <2>4 DEF KnownInv, RunningIsKnown
<1>7. CASE StartJSWatcher
  <2>1. UNCHANGED <<process, child, forgotten>> /\ prep.platform \in Platforms
        /\ watcher' = [watcher EXCEPT ![prep.platform].known = TRUE,
                                      ![prep.platform].webpack = TRUE]
    BY <1>7 DEF StartJSWatcher, KnownInv, Types, PrepareHasPlatform
  <2>2. \A q \in Platforms : watcher[q].webpack => watcher'[q].webpack
    BY <1>2, <2>1 DEF Watchers
  <2> QED
    BY <1>1, <1>3, <2>1, <2>2, KnownAside DEF KnownInv
<1>8. CASE Unpause \/ ResumeLoop
  <2>1. UNCHANGED <<process, child, forgotten>>
    BY <1>8, ResumeIs DEF KnownInv
  <2>2. PICK left \in SUBSET Platforms, calls \in Nat : ResumeNext(left, calls)
    BY <1>8, ResumeIs DEF KnownInv
  <2>3. \A q \in Platforms : watcher[q].webpack => watcher'[q].webpack
    <3>1. CASE UNCHANGED watcher
      BY <3>1
    <3>2. ASSUME NEW r \in left, watcher' = [watcher EXCEPT ![r].webpack = TRUE]
          PROVE  \A q \in Platforms : watcher[q].webpack => watcher'[q].webpack
      BY <1>2, <3>2 DEF Watchers
    <3> QED
      BY <2>2, <3>1, <3>2 DEF ResumeNext
  <2> QED
    BY <1>1, <1>3, <2>1, <2>3, KnownAside DEF KnownInv
<1>9. CASE PlatformPaused
  <2>1. toggle.platform \in Platforms /\ toggle.child \in ChildOrNone
    BY <1>9 DEF PlatformPaused, KnownInv, Types, OthersHavePlatform, ToggleTypes, Toggles
  <2> QED
    BY <1>1, <1>9, <2>1, KillKnown DEF PlatformPaused, KnownInv
<1>10. ASSUME NEW q \in Platforms, WebpackStopped(q) PROVE KnownInv'
  <2>1. closing[q].child \in ChildOrNone
    BY DEF KnownInv, Types, ClosingTypes, Closing
  <2> QED
    BY <1>1, <1>10, <2>1, KillKnown DEF WebpackStopped, KnownInv
<1> QED
  BY <1>4, <1>5, <1>6, <1>7, <1>8, <1>9, <1>10, NextIs

(* However the three functions overlap, and webpack fails, dies, closes    *)
(* late and is paused and resumed, stopWatchers would reach every webpack  *)
(* that runs, but for those whose entry another process's handler deleted, *)
(* another process took, or that were started behind a stop.               *)
THEOREM RunningWebpackIsKnown == Spec => []RunningIsKnown
<1>1. Init => KnownInv
  BY InitTypes DEF Init, KnownInv, Born, RunningIsKnown, Running
<1>2. KnownInv /\ [Next]_vars => KnownInv'
  BY KnownStep
<1>3. KnownInv => RunningIsKnown
  BY DEF KnownInv
<1> QED
  BY <1>1, <1>2, <1>3, PTL DEF Spec

-----------------------------------------------------------------------------
(* The changes of a running webpack are heard once.  Of a platform that    *)
(* webpack is started or paused for, one listener is attached: the last    *)
(* that was made for it.  Of any other platform there is none, and no      *)
(* webpack runs or is about to.                                            *)
Followed(q) == watcher[q].webpack \/ q \in suspended

OneListens(q) == \E h \in 1 .. MaxHandlers :
    /\ Listening(q) = {h}
    /\ \A g \in 1 .. MaxHandlers : listeners.for[g] = q => g <= h

Starting(q) == OnItsWay(q) \/ \E i \in Children : Running(i) /\ child[i].platform = q

HeardOf(q) == IF Followed(q) THEN OneListens(q) ELSE Listening(q) = {} /\ ~ Starting(q)

Numbered == \A h \in 1 .. MaxHandlers : listeners.for[h] # None => h <= listeners.made

HeardInv ==
    Types /\ Born /\ Numbered /\ \A q \in Platforms : q \in misheard \/ HeardOf(q)

LEMMA HeardAside ==
  ASSUME NEW q \in Platforms, q \notin misheard => HeardOf(q), q \notin misheard',
         UNCHANGED <<listeners, suspended, misheard>>,
         watcher'[q].webpack = watcher[q].webpack, NoneStarts, OnItsWay(q)' => OnItsWay(q)
  PROVE  HeardOf(q)'
<1>1. Starting(q)' => Starting(q)
  BY DEF Starting, NoneStarts
<1>2. Followed(q)' <=> Followed(q)
  BY DEF Followed
<1>3. Listening(q)' = Listening(q)
  BY DEF Listening
<1>4. OneListens(q) => OneListens(q)'
  BY <1>3 DEF OneListens
<1> QED
  BY <1>1, <1>2, <1>3, <1>4 DEF HeardOf

LEMMA KillStartsNone ==
  ASSUME Types, NEW q, NEW i, Kill(i, q)
  PROVE  NoneStarts /\ \A j \in Children : Running(j)' => j # i
<1>1. child \in [Children -> Child]
  BY DEF Types, ChildTypes
<1> QED
  BY <1>1 DEF Kill, NoneStarts, Running, Alive, Child

(* startJSWatcherWithPrepare attaches a listener of its platform.          *)
LEMMA HeardStart ==
  ASSUME HeardInv, StartJSWatcher
  PROVE  Numbered' /\ \A q \in Platforms : q \in misheard' \/ HeardOf(q)'
<1> PICK r \in Platforms : r = prep.platform
  BY DEF StartJSWatcher, HeardInv, Types, PrepareHasPlatform
<1> PICK h \in Nat : h = listeners.made + 1
  BY DEF HeardInv, Types, ListenerTypes, Handlers
<1>1. /\ watcher \in Watchers /\ listeners \in Handlers /\ r \in Platforms /\ h \in 1 .. MaxHandlers
      /\ compile \in [Compilers -> Compile]
  BY DEF StartJSWatcher, HeardInv, Types, WatcherTypes, ListenerTypes, Handlers,
         PrepareHasPlatform, CompileTypes
<1>2. /\ watcher' = [watcher EXCEPT ![r].known = TRUE, ![r].webpack = TRUE]
      /\ UNCHANGED child
  BY DEF StartJSWatcher
<1>3. watcher'[r].webpack /\ \A q \in Platforms : q # r => watcher'[q] = watcher[q]
  BY <1>1, <1>2 DEF Watchers
<1>4. NoneStarts
  BY <1>2 DEF NoneStarts, Running
<1>5. CASE watcher[r].webpack /\ UNCHANGED <<listeners, compile, suspended, misheard>>
  <2>1. Numbered'
    BY <1>5 DEF HeardInv, Numbered
  <2>2. ASSUME NEW q \in Platforms, q \notin misheard' PROVE HeardOf(q)'
    <3>1. watcher'[q].webpack = watcher[q].webpack
      BY <1>1, <1>2, <1>3, <1>5 DEF Watchers
    <3>2. OnItsWay(q)' => OnItsWay(q)
      BY <1>5 DEF OnItsWay
    <3> QED
      BY <1>4, <1>5, <2>2, <3>1, <3>2, HeardAside DEF HeardInv
  <2> QED
    BY <2>1, <2>2
<1>6. CASE /\ ~ watcher[r].webpack
           /\ listeners' = [made |-> h, on |-> listeners.on \union {h},
                            for |-> [listeners.for EXCEPT ![h] = r]]
           /\ compile' = [compile EXCEPT !["prepare"] = Compiling(r)]
           /\ misheard' = misheard \union ({r} \intersect suspended)
           /\ suspended' = suspended \ {r}
  <2>1. /\ listeners'.made = h /\ listeners'.on = listeners.on \union {h}
        /\ listeners'.for[h] = r
        /\ \A g \in 1 .. MaxHandlers : g # h => listeners'.for[g] = listeners.for[g]
    BY <1>1, <1>6 DEF Handlers
  <2>2. Numbered'
    BY <1>1, <2>1 DEF HeardInv, Numbered, Handlers
  <2>3. listeners.for[h] = None
    BY <1>1 DEF HeardInv, Numbered, Handlers
  <2>4. listeners.on \subseteq 1 .. MaxHandlers
    BY <1>1 DEF Handlers
  <2>5. ASSUME r \notin misheard' PROVE HeardOf(r)'
    <3>1. Listening(r) = {}
      BY <1>1, <1>6, <2>5 DEF HeardInv, HeardOf, Followed
    <3>2. Listening(r)' = {h}
      BY <1>1, <2>1, <2>4, <3>1 DEF Listening
    <3>3. OneListens(r)'
      BY <1>1, <2>1, <2>2, <3>2 DEF OneListens, Numbered
    <3> QED
      BY <1>3, <3>3 DEF HeardOf, Followed
  <2>6. ASSUME NEW q \in Platforms, q # r, q \notin misheard' PROVE HeardOf(q)'
    <3>1. Listening(q)' = Listening(q)
      BY <2>1, <2>3, <2>4, <2>6 DEF Listening
    <3>2. OneListens(q) => OneListens(q)'
      BY <2>1, <2>6, <3>1 DEF OneListens
    <3>3. Followed(q)' <=> Followed(q)
      BY <1>3, <1>6, <2>6 DEF Followed
    <3>4. OnItsWay(q)' => OnItsWay(q)
      <4>1. /\ compile'["prepare"] = Compiling(r)
            /\ \A c \in Compilers : c # "prepare" => compile'[c] = compile[c]
        BY <1>1, <1>6 DEF Compilers
      <4>2. Compiling(r).at \in {"setup", "spawn"} => Compiling(r).platform = r
        BY DEF Compiling, NoCompile
      <4> QED
        BY <2>6, <4>1, <4>2 DEF OnItsWay
    <3>5. Starting(q)' => Starting(q)
      BY <1>4, <3>4 DEF Starting, NoneStarts
    <3>6. HeardOf(q)
      BY <1>6, <2>6 DEF HeardInv
    <3> QED
      BY <3>1, <3>2, <3>3, <3>5, <3>6 DEF HeardOf
  <2> QED
    BY <2>2, <2>5, <2>6
<1> QED
  BY <1>5, <1>6 DEF StartJSWatcher

(* toggleFileWatcher starts the webpack of a platform again: the listener  *)
(* is there if the platform was paused, or never stopped.                  *)
LEMMA HeardResume ==
  ASSUME HeardInv, Unpause \/ ResumeLoop
  PROVE  Numbered' /\ \A q \in Platforms : q \in misheard' \/ HeardOf(q)'
<1>1. UNCHANGED <<listeners, child>>
  BY ResumeIs DEF HeardInv
<1>2. PICK left \in SUBSET Platforms, calls \in Nat : ResumeNext(left, calls)
  BY ResumeIs DEF HeardInv
<1>3. watcher \in Watchers /\ compile \in [Compilers -> Compile]
  BY DEF HeardInv, Types, WatcherTypes, CompileTypes
<1>4. Numbered' /\ NoneStarts
  BY <1>1 DEF HeardInv, Numbered, NoneStarts, Running
<1>5. \A q \in Platforms : Listening(q)' = Listening(q)
  BY <1>1 DEF Listening
<1>6. \A q \in Platforms : OneListens(q) => OneListens(q)'
  BY <1>1, <1>5 DEF OneListens
<1>7. CASE UNCHANGED <<watcher, compile, suspended, misheard>>
  <2>1. \A q \in Platforms : OnItsWay(q)' => OnItsWay(q)
    BY <1>7 DEF OnItsWay
  <2> QED
    BY <1>1, <1>4, <1>7, <2>1, HeardAside DEF HeardInv
<1>8. ASSUME NEW r \in left,
             misheard' = (IF watcher[r].webpack \/ r \in suspended THEN misheard
                          ELSE misheard \union {r}),
             suspended' = suspended \ {r},
             watcher' = [watcher EXCEPT ![r].webpack = TRUE],
             compile' = [compile EXCEPT !["toggle"] = Compiling(r)]
      PROVE  \A q \in Platforms : q \in misheard' \/ HeardOf(q)'
  <2>1. watcher'[r].webpack /\ \A q \in Platforms : q # r => watcher'[q] = watcher[q]
    BY <1>3, <1>8 DEF Watchers
  <2>2. ASSUME r \notin misheard' PROVE HeardOf(r)'
    BY <1>6, <1>8, <2>1, <2>2 DEF HeardInv, HeardOf, Followed
  <2>3. ASSUME NEW q \in Platforms, q # r, q \notin misheard' PROVE HeardOf(q)'
    <3>1. Followed(q)' <=> Followed(q)
      BY <1>8, <2>1, <2>3 DEF Followed
    <3>2. OnItsWay(q)' => OnItsWay(q)
      <4>1. /\ compile'["toggle"] = Compiling(r)
            /\ \A c \in Compilers : c # "toggle" => compile'[c] = compile[c]
        BY <1>3, <1>8 DEF Compilers
      <4>2. Compiling(r).at \in {"setup", "spawn"} => Compiling(r).platform = r
        BY DEF Compiling, NoCompile
      <4> QED
        BY <2>3, <4>1, <4>2 DEF OnItsWay
    <3>3. Starting(q)' => Starting(q)
      BY <1>4, <3>2 DEF Starting, NoneStarts
    <3>4. HeardOf(q)
      BY <1>8, <2>3 DEF HeardInv
    <3> QED
      BY <1>5, <1>6, <3>1, <3>3, <3>4 DEF HeardOf
  <2> QED
    BY <2>2, <2>3
<1> QED
  BY <1>2, <1>4, <1>7, <1>8 DEF ResumeNext

(* ... and pauses it: the listener stays.                                  *)
LEMMA HeardPause ==
  ASSUME HeardInv, PlatformPaused
  PROVE  Numbered' /\ \A q \in Platforms : q \in misheard' \/ HeardOf(q)'
<1> DEFINE r == toggle.platform
<1>1. /\ watcher \in Watchers /\ r \in Platforms
      /\ watcher' = [watcher EXCEPT ![r].webpack = FALSE]
      /\ suspended' = IF watcher[r].webpack THEN suspended \union {r} ELSE suspended
      /\ UNCHANGED <<listeners, compile, misheard>> /\ NoneStarts
  BY KillStartsNone DEF PlatformPaused, HeardInv, Types, WatcherTypes, OthersHavePlatform
<1>2. Numbered' /\ \A q \in Platforms : Listening(q)' = Listening(q)
  BY <1>1 DEF HeardInv, Numbered, Listening
<1>3. \A q \in Platforms : OneListens(q) => OneListens(q)'
  BY <1>1, <1>2 DEF OneListens
<1>4. \A q \in Platforms : Followed(q)' <=> Followed(q)
  BY <1>1 DEF Followed, Watchers
<1>5. \A q \in Platforms : Starting(q)' => Starting(q)
  BY <1>1 DEF Starting, NoneStarts, OnItsWay
<1> QED
  BY <1>1, <1>2, <1>3, <1>4, <1>5 DEF HeardInv, HeardOf

(* stopWatchers removes the listener that was made last: that of its       *)
(* platform, unless another platform was prepared since.                   *)
LEMMA HeardStop ==
  ASSUME HeardInv, NEW r \in Platforms, WebpackStopped(r)
  PROVE  Numbered' /\ \A q \in Platforms : q \in misheard' \/ HeardOf(q)'
<1> DEFINE i == closing[r].child
           last == listeners.for[listeners.made]
<1>1. /\ watcher \in Watchers /\ listeners \in Handlers
      /\ watcher' = [watcher EXCEPT ![r].webpack = FALSE]
      /\ suspended' = suspended \ {r}
      /\ misheard' = misheard \union OutOfTurn(r)
      /\ listeners' = [listeners EXCEPT !.on = @ \ {listeners.made}]
      /\ Kill(i, r) /\ UNCHANGED compile
  BY DEF WebpackStopped, HeardInv, Types, WatcherTypes, ListenerTypes
<1>2. NoneStarts /\ \A j \in Children : Running(j)' => j # i
  BY <1>1, KillStartsNone DEF HeardInv
<1>3. /\ listeners'.on = listeners.on \ {listeners.made}
      /\ listeners'.for = listeners.for /\ listeners'.made = listeners.made
      /\ listeners.on \subseteq 1 .. MaxHandlers /\ listeners.made \in Nat
  BY <1>1 DEF Handlers
<1>4. Numbered'
  BY <1>3 DEF HeardInv, Numbered
<1>5. ASSUME r \notin misheard' PROVE HeardOf(r)'
  <2>1. r \notin misheard /\ last = r /\ ~ Restarted(r, i)
    BY <1>1, <1>5 DEF OutOfTurn
  <2>2. ~ Starting(r)'
    <3>1. ~ OnItsWay(r)'
      BY <1>1, <2>1 DEF OnItsWay, Restarted
    <3>2. ASSUME NEW j \in Children, Running(j)', child'[j].platform = r PROVE FALSE
      BY <1>2, <2>1, <3>2 DEF NoneStarts, Restarted
    <3> QED
      BY <3>1, <3>2 DEF Starting
  <2>3. Listening(r)' = {}
    <3>1. CASE Followed(r)
      <4>1. PICK h \in 1 .. MaxHandlers :
              /\ Listening(r) = {h}
              /\ \A g \in 1 .. MaxHandlers : listeners.for[g] = r => g <= h
        BY <2>1, <3>1 DEF HeardInv, HeardOf, OneListens
      <4>2. h \in listeners.on /\ listeners.for[h] = r
        BY <4>1 DEF Listening
      <4>3. h <= listeners.made
        BY <4>2, ConstantsAssumption DEF HeardInv, Numbered
      <4>4. listeners.made \in 1 .. MaxHandlers
        BY <1>1, <4>1, <4>3 DEF Handlers
      <4>5. h = listeners.made
        BY <1>3, <2>1, <4>1, <4>3, <4>4
      <4> QED
        BY <1>3, <4>1, <4>5 DEF Listening
    <3>2. CASE ~ Followed(r)
      BY <1>3, <2>1, <3>2 DEF HeardInv, HeardOf, Listening
    <3> QED
      BY <3>1, <3>2
  <2>4. ~ Followed(r)'
    BY <1>1 DEF Followed, Watchers
  <2> QED
    BY <2>2, <2>3, <2>4 DEF HeardOf
<1>6. ASSUME NEW q \in Platforms, q # r, q \notin misheard' PROVE HeardOf(q)'
  <2>1. q \notin misheard /\ last # q
    BY <1>1, <1>6 DEF OutOfTurn
  <2>2. Listening(q)' = Listening(q)
    BY <1>3, <2>1 DEF Listening
  <2>3. OneListens(q) => OneListens(q)'
    BY <1>3, <2>2 DEF OneListens
  <2>4. Followed(q)' <=> Followed(q)
    BY <1>1, <1>6 DEF Followed, Watchers
  <2>5. Starting(q)' => Starting(q)
    BY <1>1, <1>2 DEF Starting, NoneStarts, OnItsWay
  <2> QED
    BY <2>1, <2>2, <2>3, <2>4, <2>5 DEF HeardInv, HeardOf
<1> QED
  BY <1>4, <1>5, <1>6

LEMMA HeardStep ==
  ASSUME HeardInv, [Next]_vars, Born'
  PROVE  HeardInv'
<1>1. Types'
  BY NextTypes DEF HeardInv
<1>2. \A q \in Platforms : q \notin misheard => HeardOf(q)
  BY DEF HeardInv
<1>3. ASSUME UNCHANGED <<listeners, suspended, misheard>>, NoneStarts, SameFlags,
             \A q \in Platforms : OnItsWay(q)' => OnItsWay(q)
      PROVE  HeardInv'
  <2>1. \A q \in Platforms : q \notin misheard' => HeardOf(q)'
    BY <1>2, <1>3, HeardAside DEF SameFlags
  <2> QED
    BY <1>1, <1>3, <2>1 DEF HeardInv, Numbered
<1>4. CASE Quiet
  BY <1>3, <1>4, QuietSteps DEF HeardInv
<1>5. ASSUME NEW c \in Compilers, Spawn(c) PROVE HeardInv'
  <2>1. PICK i \in Children :
          /\ child' = [child EXCEPT ![i] =
                         [platform |-> compile[c].platform, at |-> "compiling"]]
          /\ compile' = [compile EXCEPT ![c].at = "first", ![c].child = i]
    BY <1>5 DEF Spawn
  <2>2. /\ compile[c].at = "spawn"
        /\ UNCHANGED <<watcher, listeners, suspended, misheard>>
    BY <1>5 DEF Spawn
  <2>3. child \in [Children -> Child] /\ compile \in [Compilers -> Compile]
    BY DEF HeardInv, Types, ChildTypes, CompileTypes
  <2>4. ASSUME NEW q \in Platforms, Starting(q)' PROVE Starting(q)
    <3>1. CASE q = compile[c].platform
      BY <2>2, <3>1 DEF Starting, OnItsWay
    <3>2. CASE q # compile[c].platform
      <4>1. OnItsWay(q)' => OnItsWay(q)
        BY <2>1, <2>2, <2>3 DEF OnItsWay, Compile
      <4>2. \A j \in Children : Running(j)' /\ child'[j].platform = q =>
                                  Running(j) /\ child[j].platform = q
        BY <2>1, <2>3, <3>2 DEF Running
      <4> QED
        BY <2>4, <4>1, <4>2 DEF Starting
    <3> QED
      BY <3>1, <3>2
  <2>5. ASSUME NEW q \in Platforms, q \notin misheard' PROVE HeardOf(q)'
    <3>1. Followed(q)' <=> Followed(q)
      BY <2>2 DEF Followed
    <3>2. Listening(q)' = Listening(q)
      BY <2>2 DEF Listening
    <3>3. OneListens(q) => OneListens(q)'
      BY <2>2, <3>2 DEF OneListens
    <3> QED
      BY <1>2, <2>2, <2>4, <2>5, <3>1, <3>2, <3>3 DEF HeardOf
  <2> QED
    BY <1>1, <2>2, <2>5 DEF HeardInv, Numbered
<1>6. ASSUME NEW i \in Children, Close(i) PROVE HeardInv'
  <2>1. /\ child[i].at = "exited" /\ child' = [child EXCEPT ![i].at = "gone"]
        /\ Abort(WaitsFor(i)) /\ UNCHANGED <<watcher, listeners, suspended, misheard>>
    BY <1>6 DEF Close
  <2>2. child \in [Children -> Child] /\ WaitsFor(i) \in SUBSET Compilers
    BY DEF HeardInv, Types, ChildTypes, WaitsFor
  <2>3. NoneStarts
    BY <2>1, <2>2 DEF NoneStarts, Running, Child
  <2>4. \A q \in Platforms : OnItsWay(q)' => OnItsWay(q)
    BY <2>1, <2>2, CallersSetOut
  <2> QED
    BY <1>3, <2>1, <2>3, <2>4 DEF SameFlags
<1>7. CASE StartJSWatcher
  BY <1>1, <1>7, HeardStart DEF HeardInv
<1>8. CASE Unpause \/ ResumeLoop
  BY <1>1, <1>8, HeardResume DEF HeardInv
<1>9. CASE PlatformPaused
  BY <1>1, <1>9, HeardPause DEF HeardInv
<1>10. ASSUME NEW q \in Platforms, WebpackStopped(q) PROVE HeardInv'
  BY <1>1, <1>10, HeardStop DEF HeardInv
<1> QED
  BY <1>4, <1>5, <1>6, <1>7, <1>8, <1>9, <1>10, NextIs

(* However the three functions overlap, each change that a running webpack *)
(* reports is handled by one listener of its platform, unless one of the   *)
(* three orders of calls in which the code adds or removes the wrong       *)
(* listener came before (misheard).                                        *)
THEOREM ChangesAreHeardOnce == Spec => []HeardOnce
<1>1. Init => KnownInv /\ HeardInv
  <2> SUFFICES ASSUME Init PROVE KnownInv /\ HeardInv
    OBVIOUS
  <2>1. KnownInv
    BY InitTypes DEF Init, KnownInv, Born, RunningIsKnown, Running
  <2>2. Numbered
    BY DEF Init, Numbered
  <2>3. ASSUME NEW q \in Platforms PROVE HeardOf(q)
    <3>1. ~ Followed(q) /\ Listening(q) = {}
      BY DEF Init, Followed, Listening
    <3>2. ~ Starting(q)
      BY DEF Init, Starting, OnItsWay, NoCompile, Running
    <3> QED
      BY <3>1, <3>2 DEF HeardOf
  <2> QED
    BY <2>1, <2>2, <2>3 DEF KnownInv, HeardInv
<1>2. (KnownInv /\ HeardInv) /\ [Next]_vars => (KnownInv /\ HeardInv)'
  <2> SUFFICES ASSUME KnownInv, HeardInv, [Next]_vars PROVE KnownInv' /\ HeardInv'
    OBVIOUS
  <2>1. KnownInv'
    BY KnownStep
  <2> QED
    BY <2>1, HeardStep DEF KnownInv
<1>3. HeardInv => HeardOnce
  <2> SUFFICES ASSUME HeardInv, NEW i \in Children, child[i].at = "on",
                      child[i].platform \notin misheard
               PROVE  Cardinality(Listening(child[i].platform)) = 1
    BY DEF HeardOnce
  <2>1. child[i].platform \in Platforms /\ Starting(child[i].platform)
    BY DEF HeardInv, Born, Running, Starting
  <2>2. PICK h : Listening(child[i].platform) = {h}
    BY <2>1 DEF HeardInv, HeardOf, OneListens
  <2> QED
    BY <2>2, FS_Singleton
<1> QED
  BY <1>1, <1>2, <1>3, PTL DEF Spec

=============================================================================
