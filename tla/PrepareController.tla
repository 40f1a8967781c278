-------------------------- MODULE PrepareController --------------------------
(***************************************************************************)
(* prepare(), stopWatchers() and toggleFileWatcher() of                    *)
(* lib/controllers/prepare-controller.ts with the webpack processes of     *)
(* lib/services/webpack/webpack-compiler-service.ts, for one project and   *)
(* prepareData.watch.                                                      *)
(*                                                                         *)
(* A webpack process lives outside the event loop: it exits after it was   *)
(* killed, or by itself, and its "close" event is handled later still.     *)
(* prepare() and toggleFileWatcher() both call compileWithWatch and wait   *)
(* for the first message of the process they started.                      *)
(***************************************************************************)
EXTENDS Naturals, FiniteSets

CONSTANTS
    Platforms,
    Stoppable,      \* platforms stopWatchers may be called for
    Fragile,        \* platforms whose compilation may fail or die
    MaxHandlers,    \* bound: compilation handlers ever made
    MaxToggles,     \* bound: calls of toggleFileWatcher
    Overlap,        \* whether the three functions may overlap each other
    None            \* no platform

Compilers == {"prepare", "toggle"}

(* Each prepare() that makes a handler and each platform of a resuming     *)
(* toggle starts at most one process.                                      *)
MaxChildren == MaxHandlers + (MaxToggles \div 2) * Cardinality(Platforms)
Children == 1 .. MaxChildren

ASSUME ConstantsAssumption ==
    /\ None \notin Platforms
    /\ Stoppable \subseteq Platforms /\ Fragile \subseteq Platforms
    /\ IsFiniteSet(Platforms) /\ MaxHandlers \in Nat /\ MaxToggles \in Nat
    /\ Overlap \in BOOLEAN

VARIABLES
    watcher,    \* watchersData: is there an entry, hasWebpackCompilerProcess,
                \* nativeFilesWatcher
    listeners,  \* the listeners of WEBPACK_COMPILATION_COMPLETE: the platform
                \* each handler made so far is for, if it is still attached
    ready,      \* isInitialPrepareReady
    persisted,  \* persistedData: the events, as <<platform, hasNativeChanges>>
    paused,     \* pausedFileWatch
    prep,       \* the prepare() under way (global.prepare), or the last one and
                \* the hasNativeChanges it resolved with
    closing,    \* the stopWatchers() under way, for each platform
    toggle,     \* the toggleFileWatcher() under way, and how many there were
    compile,    \* the compileWithWatch() calls of prepare() and of the toggle
    process,    \* webpackProcesses: the child of each platform, or 0
    child,      \* the webpack processes ever started
    owed,       \* platforms with a native change no prepare() has reported
    \* History, which no guard reads:
    suspended,  \* platforms toggleFileWatcher paused and nobody started since
    misheard,   \* platforms that were given or left a listener out of turn
    forgotten   \* processes that lost their entry to another process of the
                \* platform, or were spawned behind a stop of it

history == <<suspended, misheard, forgotten>>

vars == <<watcher, listeners, ready, persisted, paused, prep, closing, toggle,
          compile, process, child, owed, history>>

handling == <<ready, persisted, owed>>

TypeOK ==
    /\ watcher \in [Platforms -> [known : BOOLEAN, webpack : BOOLEAN,
                                  native : BOOLEAN]]
    /\ listeners \in [made : 0 .. MaxHandlers, on : SUBSET (1 .. MaxHandlers),
                      for : [1 .. MaxHandlers -> Platforms \union {None}]]
    /\ \A h \in listeners.on : listeners.for[h] # None
    /\ ready \in BOOLEAN /\ paused \in BOOLEAN
    /\ persisted \subseteq Platforms \X BOOLEAN
    /\ prep \in [platform : Platforms \union {None},
                 at : {"none", "setup", "compile", "native", "changes"},
                 result : {"none", "native", "same"}]
    /\ closing \in [Platforms -> [at : {"none", "native", "kill"},
                                  child : 0 .. MaxChildren]]
    /\ \A q \in Platforms : closing[q].at = "kill" => closing[q].child # 0
    /\ toggle \in [at : {"none", "kill", "resuming", "compile"},
                   left : SUBSET Platforms, platform : Platforms \union {None},
                   child : 0 .. MaxChildren, calls : 0 .. MaxToggles]
    /\ compile \in [Compilers -> [at : {"none", "setup", "spawn", "first"},
                                  platform : Platforms \union {None},
                                  child : 0 .. MaxChildren]]
    /\ process \in [Platforms -> 0 .. MaxChildren]
    /\ child \in [Children -> [platform : Platforms \union {None},
                    at : {"unborn", "compiling", "on", "killed", "exited", "gone"}]]
    /\ owed \subseteq Platforms
    /\ suspended \subseteq Platforms /\ misheard \subseteq Platforms
    /\ forgotten \subseteq Children

NoCompile == [at |-> "none", platform |-> None, child |-> 0]

Init ==
    /\ watcher = [q \in Platforms |->
                    [known |-> FALSE, webpack |-> FALSE, native |-> FALSE]]
    /\ listeners = [made |-> 0, on |-> {}, for |-> [h \in 1 .. MaxHandlers |-> None]]
    /\ ready = FALSE /\ paused = FALSE
    /\ persisted = {}
    /\ prep = [platform |-> None, at |-> "none", result |-> "none"]
    /\ closing = [q \in Platforms |-> [at |-> "none", child |-> 0]]
    /\ toggle = [at |-> "none", left |-> {}, platform |-> None, child |-> 0,
                 calls |-> 0]
    /\ compile = [c \in Compilers |-> NoCompile]
    /\ process = [q \in Platforms |-> 0]
    /\ child = [i \in Children |-> [platform |-> None, at |-> "unborn"]]
    /\ owed = {}
    /\ suspended = {} /\ misheard = {} /\ forgotten = {}

Running(i) == child[i].at \in {"compiling", "on"}
Alive(i) == Running(i) \/ child[i].at = "killed"

Idle ==
    /\ prep.at = "none"
    /\ toggle.at = "none"
    /\ \A q \in Platforms : closing[q].at = "none"

MayCall == Overlap \/ Idle

-----------------------------------------------------------------------------
(* compileWithWatch *)

(* A call for a platform with a process is over at once, as NoCompile says. *)
Compiling(q) ==
    IF process[q] # 0 THEN NoCompile
    ELSE [at |-> "setup", platform |-> q, child |-> 0]

(* prepare() and toggleFileWatcher() when their compileWithWatch resolves. *)
Resume(callers) ==
    /\ prep' = IF "prepare" \in callers THEN [prep EXCEPT !.at = "native"] ELSE prep
    /\ toggle' = IF "toggle" \in callers THEN [toggle EXCEPT !.at = "resuming"]
                                         ELSE toggle
    /\ compile' = [c \in Compilers |->
                     IF c \in callers THEN NoCompile ELSE compile[c]]

(* ... and when it rejects: so do they.                                    *)
Abort(callers) ==
    /\ prep' = IF "prepare" \in callers
               THEN [prep EXCEPT !.at = "none", !.result = "none"] ELSE prep
    /\ toggle' = IF "toggle" \in callers
                 THEN [toggle EXCEPT !.at = "none", !.left = {}] ELSE toggle
    /\ compile' = [c \in Compilers |->
                     IF c \in callers THEN NoCompile ELSE compile[c]]

(* History: the process that loses its entry of webpackProcesses when the  *)
(* entry of q is set to process i, or deleted on its account.              *)
Others(q, i) == {j \in Children \ {i} : process[q] = j}

(* startWebpackProcess up to its last await.  When a process for the       *)
(* project and the platform is already running, all of them are killed.    *)
AlreadyRunning(q) == \E i \in Children : Alive(i) /\ child[i].platform = q

KillRunning(c) ==
    /\ compile[c].at = "setup"
    /\ AlreadyRunning(compile[c].platform)
    /\ child' = [i \in Children |->
                   IF Alive(i) THEN [child[i] EXCEPT !.at = "killed"] ELSE child[i]]
    /\ Abort({c})
    /\ UNCHANGED <<watcher, listeners, paused, closing, process, handling, history>>

MaySpawn(c) ==
    /\ compile[c].at = "setup"
    /\ ~ AlreadyRunning(compile[c].platform)
    /\ compile' = [compile EXCEPT ![c].at = "spawn"]
    /\ UNCHANGED <<watcher, listeners, paused, prep, closing, toggle, process,
                   child, handling, history>>

SetupFails(c) ==
    /\ compile[c].at = "setup"
    /\ compile[c].platform \in Fragile
    /\ Abort({c})
    /\ UNCHANGED <<watcher, listeners, paused, closing, process, child, handling, history>>

Spawn(c) ==
    /\ compile[c].at = "spawn"
    /\ \E i \in Children :
        /\ child[i].at = "unborn"
        /\ \A j \in 1 .. i - 1 : child[j].at # "unborn"
        /\ child' = [child EXCEPT ![i] =
                       [platform |-> compile[c].platform, at |-> "compiling"]]
        /\ process' = [process EXCEPT ![compile[c].platform] = i]
        /\ compile' = [compile EXCEPT ![c].at = "first", ![c].child = i]
        /\ forgotten' = forgotten \union Others(compile[c].platform, i) \union
                          (IF watcher[compile[c].platform].webpack THEN {} ELSE {i})
    /\ UNCHANGED <<watcher, listeners, paused, prep, closing, toggle, handling,
                   suspended, misheard>>

WaitsFor(i) == {c \in Compilers : compile[c].at = "first" /\ compile[c].child = i}

(* "first compilation can be ignored because it will be synced regardless" *)
FirstMessage(i) ==
    /\ child[i].at = "compiling"
    /\ child' = [child EXCEPT ![i].at = "on"]
    /\ Resume(WaitsFor(i))
    /\ UNCHANGED <<watcher, listeners, paused, closing, process, handling, history>>

Exit(i) ==
    /\ child[i].at = "killed" \/ (Running(i) /\ child[i].platform \in Fragile)
    /\ child' = [child EXCEPT ![i].at = "exited"]
    /\ UNCHANGED <<watcher, listeners, paused, prep, closing, toggle, compile,
                   process, handling, history>>

(* Mutant: the promise is left pending when webpack exits.                 *)
CloseUnnoticed(i) ==
    /\ child[i].at = "exited"
    /\ child' = [child EXCEPT ![i].at = "gone"]
    /\ process' = [process EXCEPT ![child[i].platform] = 0]
    /\ forgotten' = forgotten \union Others(child[i].platform, i)
    /\ UNCHANGED <<watcher, listeners, paused, prep, closing, toggle, compile,
                   handling, suspended, misheard>>

(* The "close" handler forgets the process of the platform, whichever it   *)
(* is by now, and rejects the promise of whoever started this one.         *)
Close(i) ==
    /\ child[i].at = "exited"
    /\ child' = [child EXCEPT ![i].at = "gone"]
    /\ process' = [process EXCEPT ![child[i].platform] = 0]
    /\ Abort(WaitsFor(i))
    /\ forgotten' = forgotten \union Others(child[i].platform, i)
    /\ UNCHANGED <<watcher, listeners, paused, closing, handling, suspended,
                   misheard>>

(* Mutant: the entry is deleted before it is read for the kill.            *)
KillNothing(i, q) ==
    /\ process' = [process EXCEPT ![q] = 0]
    /\ forgotten' = forgotten \union Others(q, i)
    /\ UNCHANGED child

(* process.kill("SIGINT"): no effect on a process that has exited.         *)
Kill(i, q) ==
    /\ child' = IF Alive(i) THEN [child EXCEPT ![i].at = "killed"] ELSE child
    /\ process' = [process EXCEPT ![q] = 0]
    /\ forgotten' = forgotten \union Others(q, i)

-----------------------------------------------------------------------------
(* prepare *)

(* The callers of prepare() await the one under way instead of a second.   *)
Prepare(q) ==
    /\ prep.at = "none"
    /\ MayCall
    /\ listeners.made < MaxHandlers
    /\ prep' = [platform |-> q, at |-> "setup", result |-> "none"]
    /\ UNCHANGED <<watcher, listeners, paused, closing, toggle, compile, process,
                   child, handling, history>>

(* Installing the dependencies, adding the platform or preparing the       *)
(* native project fails.                                                   *)
PrepareFails ==
    /\ prep.at \in {"setup", "changes"}
    /\ prep' = [prep EXCEPT !.at = "none"]
    /\ UNCHANGED <<watcher, listeners, paused, closing, toggle, compile, process,
                   child, handling, history>>

(* startJSWatcherWithPrepare: a platform that has its webpack goes on to   *)
(* the native watcher, the others get a new handler first.                 *)
StartJSWatcher ==
    LET q == prep.platform
        h == listeners.made + 1
    IN
    /\ prep.at = "setup"
    /\ watcher' = [watcher EXCEPT ![q].known = TRUE, ![q].webpack = TRUE]
    /\ \/ /\ watcher[q].webpack
          /\ prep' = [prep EXCEPT !.at = "native"]
          /\ UNCHANGED <<listeners, compile, suspended, misheard>>
       \/ /\ ~ watcher[q].webpack
          /\ listeners' = [made |-> h, on |-> listeners.on \union {h},
                           for |-> [listeners.for EXCEPT ![h] = q]]
          /\ compile' = [compile EXCEPT !["prepare"] = Compiling(q)]
          /\ prep' = [prep EXCEPT !.at =
                        IF process[q] # 0 THEN "native" ELSE "compile"]
          /\ misheard' = misheard \union ({q} \intersect suspended)
          /\ suspended' = suspended \ {q}
    /\ UNCHANGED <<paused, closing, toggle, process, child, handling, forgotten>>

(* A native watcher that is there already makes this the end of prepare(). *)
StartNativeWatcher ==
    LET q == prep.platform IN
    /\ prep.at = "native"
    /\ ~ watcher[q].native
    /\ watcher' = [watcher EXCEPT ![q].native = TRUE]
    /\ prep' = [prep EXCEPT !.at = "changes"]
    /\ UNCHANGED <<listeners, paused, closing, toggle, compile, process, child,
                   handling, history>>

(* Mutant: only the first event of the platform is looked at.              *)
PersistedFirst(q) == <<q, TRUE>> \in persisted /\ <<q, FALSE>> \notin persisted

Persisted(q) == <<q, TRUE>> \in persisted

(* What is left of startWatchersWithPrepare: hasNativeChanges is what the  *)
(* native preparation says, or what an event of the platform said before.  *)
PrepareEnds ==
    LET q == prep.platform IN
    /\ \/ prep.at = "changes"
       \/ prep.at = "native" /\ watcher[q].native
    /\ \E native \in IF Persisted(q) THEN {TRUE}
                     ELSE {FALSE, prep.at = "changes"} :
         /\ prep' = [prep EXCEPT !.at = "none",
                                 !.result = IF native THEN "native" ELSE "same"]
         /\ owed' = IF native THEN owed \ {q} ELSE owed
    /\ ready' = TRUE
    /\ UNCHANGED <<watcher, listeners, persisted, paused, closing, toggle, compile,
                   process, child, history>>

-----------------------------------------------------------------------------
(* The watchers.  emitPrepareEvent keeps the events until the first         *)
(* prepare() is ready; later ones go to the run controller at once.         *)

(* A change of a native file, outside a build and not on the ignore list.  *)
NativeEvent(q) ==
    /\ watcher[q].native /\ closing[q].at # "native"
    /\ ~ paused
    /\ ~ ready
    /\ persisted' = persisted \union {<<q, TRUE>>}
    /\ owed' = owed \union {q}
    /\ UNCHANGED <<watcher, listeners, ready, paused, prep, closing, toggle,
                   compile, process, child, history>>

(* A later compilation, handled by each listener of its platform.          *)
WebpackChange(i) ==
    LET q == child[i].platform IN
    /\ child[i].at = "on"
    /\ \E h \in listeners.on : listeners.for[h] = q
    /\ ~ paused
    /\ ~ ready
    /\ persisted' = persisted \union {<<q, FALSE>>}
    /\ UNCHANGED <<watcher, listeners, ready, paused, prep, closing, toggle,
                   compile, process, child, owed, history>>

-----------------------------------------------------------------------------
(* stopWatchers *)

NotClosing == [at |-> "none", child |-> 0]

(* Mutant: a process is taken for granted.                                 *)
StopCompilerUnchecked(q) ==
    closing' = [closing EXCEPT ![q] =
        IF watcher[q].webpack THEN [at |-> "kill", child |-> process[q]]
        ELSE NotClosing]

(* stopWebpackCompiler up to its await; it throws without a process.       *)
StopCompiler(q) ==
    closing' = [closing EXCEPT ![q] =
        IF watcher[q].webpack /\ process[q] # 0
        THEN [at |-> "kill", child |-> process[q]] ELSE NotClosing]

StopWatchers(q) ==
    /\ q \in Stoppable
    /\ MayCall
    /\ closing[q].at = "none"
    /\ watcher[q].native \/ watcher[q].webpack
    /\ IF watcher[q].native
       THEN closing' = [closing EXCEPT ![q].at = "native"]
       ELSE StopCompiler(q)
    /\ UNCHANGED <<watcher, listeners, paused, prep, toggle, compile, process,
                   child, handling, history>>

NativeClosed(q) ==
    /\ closing[q].at = "native"
    /\ watcher' = [watcher EXCEPT ![q].native = FALSE]
    /\ StopCompiler(q)
    /\ UNCHANGED <<listeners, paused, prep, toggle, compile, process, child,
                   handling, history>>

(* Whether webpack of q runs besides i, or is about to.                    *)
Restarted(q, i) ==
    \/ \E j \in Children \ {i} : Running(j) /\ child[j].platform = q
    \/ \E c \in Compilers : compile[c].platform = q /\ compile[c].at \in {"setup", "spawn"}

(* The platforms for which a stop of q removes the wrong listener: q and    *)
(* the one that loses its own instead, or q when webpack goes on there.     *)
OutOfTurn(q) ==
    {p \in Platforms : \/ (p = q) # (p = listeners.for[listeners.made])
                       \/ p = q /\ Restarted(q, closing[q].child)}

(* Mutant: the listener stays.                                             *)
WebpackStoppedHeard(q) ==
    /\ closing[q].at = "kill"
    /\ Kill(closing[q].child, q)
    /\ watcher' = [watcher EXCEPT ![q].webpack = FALSE]
    /\ closing' = [closing EXCEPT ![q] = NotClosing]
    /\ misheard' = misheard \union OutOfTurn(q)
    /\ suspended' = suspended \ {q}
    /\ UNCHANGED <<listeners, paused, prep, toggle, compile, handling>>

(* removeListener is given the handler that was made last, for whichever   *)
(* platform that was.                                                      *)
WebpackStopped(q) ==
    /\ closing[q].at = "kill"
    /\ Kill(closing[q].child, q)
    /\ listeners' = [listeners EXCEPT !.on = @ \ {listeners.made}]
    /\ watcher' = [watcher EXCEPT ![q].webpack = FALSE]
    /\ closing' = [closing EXCEPT ![q] = NotClosing]
    /\ misheard' = misheard \union OutOfTurn(q)
    /\ suspended' = suspended \ {q}
    /\ UNCHANGED <<paused, prep, toggle, compile, handling>>

-----------------------------------------------------------------------------
(* toggleFileWatcher *)

(* The loops over the platforms that are left, in any order.               *)
PauseNext(left, calls) ==
    LET over == [toggle EXCEPT !.at = "none", !.left = {}, !.calls = calls] IN
    \/ left = {} /\ toggle' = over
    \/ \E q \in left :
         toggle' = IF process[q] = 0 THEN over   \* stopWebpackCompiler throws
                   ELSE [at |-> "kill", left |-> left \ {q}, platform |-> q,
                         child |-> process[q], calls |-> calls]

ResumeNext(left, calls) ==
    \/ /\ left = {}
       /\ toggle' = [toggle EXCEPT !.at = "none", !.calls = calls]
       /\ UNCHANGED <<watcher, compile, suspended, misheard>>
    \/ \E q \in left :
         /\ misheard' = IF watcher[q].webpack \/ q \in suspended THEN misheard
                        ELSE misheard \union {q}
         /\ suspended' = suspended \ {q}
         /\ watcher' = [watcher EXCEPT ![q].webpack = TRUE]
         /\ compile' = [compile EXCEPT !["toggle"] = Compiling(q)]
         /\ toggle' = [toggle EXCEPT !.left = left \ {q}, !.calls = calls,
                         !.at = IF process[q] # 0 THEN "resuming" ELSE "compile"]

Known == {q \in Platforms : watcher[q].known}

MayToggle ==
    /\ toggle.at = "none"
    /\ toggle.calls < MaxToggles
    /\ MayCall

Pause ==
    /\ MayToggle
    /\ ~ paused
    /\ paused' = TRUE
    /\ PauseNext(Known, toggle.calls + 1)
    /\ UNCHANGED <<watcher, listeners, prep, closing, compile, process, child,
                   handling, history>>

PlatformPaused ==
    LET q == toggle.platform IN
    /\ toggle.at = "kill"
    /\ Kill(toggle.child, q)
    /\ watcher' = [watcher EXCEPT ![q].webpack = FALSE]
    /\ suspended' = IF watcher[q].webpack THEN suspended \union {q} ELSE suspended
    /\ PauseNext(toggle.left, toggle.calls)
    /\ UNCHANGED <<listeners, paused, prep, closing, compile, handling, misheard>>

Unpause ==
    /\ MayToggle
    /\ paused
    /\ paused' = FALSE
    /\ ResumeNext(Known, toggle.calls + 1)
    /\ UNCHANGED <<listeners, prep, closing, process, child, handling, forgotten>>

ResumeLoop ==
    /\ toggle.at = "resuming"
    /\ ResumeNext(toggle.left, toggle.calls)
    /\ UNCHANGED <<listeners, paused, prep, closing, process, child, handling,
                   forgotten>>

-----------------------------------------------------------------------------
(* What goes on by itself once it was started.                             *)
Step ==
    \/ \E c \in Compilers : KillRunning(c) \/ MaySpawn(c) \/ Spawn(c)
    \/ \E i \in Children : Close(i)
    \/ StartJSWatcher \/ StartNativeWatcher \/ PrepareEnds
    \/ \E q \in Platforms : NativeClosed(q) \/ WebpackStopped(q)
    \/ PlatformPaused \/ ResumeLoop

Compiled(i) == FirstMessage(i) \/ (child[i].at = "killed" /\ Exit(i))

Next ==
    \/ Step
    \/ \E i \in Children : Compiled(i) \/ Exit(i) \/ WebpackChange(i)
    \/ \E c \in Compilers : SetupFails(c)
    \/ PrepareFails
    \/ \E q \in Platforms : Prepare(q) \/ StopWatchers(q) \/ NativeEvent(q)
    \/ Pause \/ Unpause

Spec == Init /\ [][Next]_vars

(* Every await of the code is of something that ends, one way or another:  *)
(* a watcher that closes, a compilation, a process that was told to go.    *)
FairSpec ==
    /\ Spec
    /\ \A c \in Compilers :
         /\ WF_vars(KillRunning(c))
         /\ WF_vars(MaySpawn(c))
         /\ WF_vars(Spawn(c))
    /\ \A i \in Children : WF_vars(Compiled(i)) /\ WF_vars(Close(i))
    /\ WF_vars(StartJSWatcher)
    /\ WF_vars(StartNativeWatcher)
    /\ WF_vars(PrepareEnds)
    /\ \A q \in Platforms : WF_vars(NativeClosed(q)) /\ WF_vars(WebpackStopped(q))
    /\ WF_vars(PlatformPaused)
    /\ WF_vars(ResumeLoop)

-----------------------------------------------------------------------------
Listening(q) == {h \in listeners.on : listeners.for[h] = q}

(* Each change a running webpack reports is handled once: one listener of   *)
(* its platform is attached (the handlers startJSWatcherWithPrepare adds    *)
(* and stopWatchers removes).  But the code adds a second one when a paused *)
(* platform is prepared, removes that of the platform prepared last, and    *)
(* resumes a stopped platform without one (misheard).                       *)
HeardOnce ==
    \A i \in Children : child[i].at = "on" =>
        \/ Cardinality(Listening(child[i].platform)) = 1
        \/ child[i].platform \in misheard

(* stopWatchers of its platform would reach every webpack that runs: the    *)
(* flag is set and the process is the one webpackProcesses holds.  But the  *)
(* "close" of its predecessor deletes its entry, and calls that overlap may *)
(* take or delete each other's (forgotten).                                 *)
RunningIsKnown ==
    \A i \in Children : Running(i) =>
        \/ watcher[child[i].platform].webpack /\ process[child[i].platform] = i
        \/ i \in forgotten

(* A prepare() that succeeds for a platform with an unreported native      *)
(* change reports native changes, however many prepares of this or of      *)
(* another platform failed or succeeded in between (persistedData).        *)
NativeIsTold ==
    [][\A q \in Platforms :
         q \in owed /\ prep.platform = q /\ prep.at # "none" =>
            prep'.result # "same"]_vars

(* prepare(), stopWatchers() and toggleFileWatcher() return, even if they  *)
(* overlap, kill each other's processes or webpack dies.                   *)
EveryCallReturns ==
    /\ prep.at # "none" ~> prep.at = "none"
    /\ toggle.at # "none" ~> toggle.at = "none"
    /\ \A q \in Platforms : closing[q].at # "none" ~> closing[q].at = "none"

=============================================================================
