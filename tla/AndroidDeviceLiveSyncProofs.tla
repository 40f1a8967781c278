---------------------- MODULE AndroidDeviceLiveSyncProofs ----------------------
(***************************************************************************)
(* What holds of the LiveSync of an Android device for any number of       *)
(* sockets, files, changes and faults.                                     *)
(*                                                                         *)
(* First the connection (DeviceInv): a connect() that was rejected makes   *)
(* no connection, handlers throw only for what comes late, and the file    *)
(* livesync-in-progress is not left behind.  Then the types (SyncTypeInv), *)
(* with whose listeners a socket has (EarsInv).  Last what is delivered    *)
(* (DeliverInv): where the newest version of every file is at every step   *)
(* of a sync, in the queue, still to send, on its way, on the device or in *)
(* the application, which ends in ApplicationIsCurrent.                    *)
(***************************************************************************)
EXTENDS AndroidDeviceLiveSync, TLAPS

SyncFields == DOMAIN NoSync

ToolTypes ==
    /\ sock \in [Sockets -> SockTypes]
    /\ connect \in ConnectTypes
    /\ pending \in BOOLEAN /\ late \in BOOLEAN /\ faults \in Nat
    /\ DOMAIN sync = SyncFields

\* Attempts do not overlap: there is one while a sync awaits connect(), and its
\* time-out decides as long as it has not connected.  It has one socket or timer
\* at a time, and none when it is over.
ConnectInv ==
    /\ connect.at \in {"port", "trying", "failed"} => ~hasConnection
    /\ "deciding" \in lookups => connect.at = "trying" /\ connect.isConnected
    /\ sync.at \notin {"connect", "reconnect"} => connect.at = "idle"
    /\ "ours" \in retryTimers =>
           /\ connect.at = "trying" /\ ~connect.isConnected
           /\ \A s \in Sockets : sock[s].ears # "ours"
    /\ \A s \in Sockets : sock[s].ears = "ours" => connect.at = "trying"
    /\ \A s, t \in Sockets : sock[s].ears = "ours" /\ sock[t].ears = "ours" => s = t

\* As long as nothing of an earlier attempt was handled pendingConnectionData is
\* there for the attempt that needs it.
LateInv ==
    ~late =>
        /\ ~thrown
        /\ connect.at = "trying" /\ ~connect.isConnected => pending

\* Once files were transferred the marker is off.
MarkerInv ==
    /\ live /\ ~excused
    /\ sync.at \in {"idle", "refresh", "stop", "start", "reconnect", "status"}
    => ~marker

DeviceInv == ToolTypes /\ ConnectInv /\ LateInv /\ MarkerInv

(***************************************************************************)
(* The tool                                                                *)
(***************************************************************************)
\* An attempt takes a socket that is free.
LEMMA TryConnect ==
    ASSUME sock \in [Sockets -> SockTypes], NEW ears \in {"ours", "stale"},
           NEW isPending \in BOOLEAN, tryConnect(ears, isPending)
    PROVE  /\ sock' \in [Sockets -> SockTypes] /\ thrown' = ~isPending
           /\ \E s \in Sockets :
                  /\ sock'[s].ears \in {ears, "none"}
                  /\ \A t \in Sockets : t # s => sock'[t] = sock[t]
  <1> DEFINE free == {s \in Sockets : sock[s].at = "free"}
             taken == [at |-> "open", ears |-> IF isPending THEN ears ELSE "none"]
  <1>1. free # {} /\ sock' = [sock EXCEPT ![CHOOSE s \in free : TRUE] = taken]
        /\ thrown' = ~isPending
    BY DEF tryConnect
  <1>2. PICK s \in Sockets : s = CHOOSE u \in free : TRUE
    BY <1>1
  <1>3. taken \in SockTypes /\ taken.ears \in {ears, "none"}
    BY DEF SockTypes
  <1> HIDE DEF taken
  <1>4. sock' = [sock EXCEPT ![s] = taken]
    BY <1>1, <1>2
  <1> QED
    BY <1>1, <1>3, <1>4

\* The steps of the connection keep the invariant.
LEMMA ToolKeeps ==
    ASSUME DeviceInv, ToolSteps
    PROVE  DeviceInv'
  <1>0. ToolTypes /\ ConnectInv /\ LateInv /\ MarkerInv
    BY DEF DeviceInv
  <1>1. /\ UNCHANGED <<sync, live, excused, marker>> /\ ToolStep
    BY DEF ToolSteps, hostVars, deviceVars
  <1>2. MarkerInv'
    BY <1>0, <1>1 DEF MarkerInv
  <1> DEFINE Rest == ToolTypes' /\ ConnectInv' /\ LateInv'
  <1> SUFFICES Rest
    BY <1>2 DEF DeviceInv
  <1> USE <1>0, <1>1
          DEF ToolTypes, ConnectInv, LateInv, attempt, traffic, toolState, hasConnection
  <1>3. CASE PortForwarded
    <2>0. connect.at = "port"
          /\ UNCHANGED <<socketConnection, retryTimers, lookups, faults>>
      BY <1>3 DEF PortForwarded
    <2>1. CASE connect' = [connect EXCEPT !.at = "failed"]
               /\ UNCHANGED <<sock, pending, thrown, late>>
      BY <2>0, <2>1 DEF ConnectTypes
    <2>2. CASE connect' = [at |-> "trying", isConnected |-> FALSE]
               /\ pending' = TRUE /\ late' = FALSE /\ tryConnect("ours", TRUE)
      <3>1. PICK s \in Sockets :
                /\ sock' \in [Sockets -> SockTypes] /\ ~thrown'
                /\ sock'[s].ears \in {"ours", "none"}
                /\ \A t \in Sockets : t # s => sock'[t] = sock[t]
        BY <2>2, TryConnect
      <3>2. connect' \in ConnectTypes /\ connect'.at = "trying" /\ ~connect'.isConnected
        BY <2>2 DEF ConnectTypes
      <3>3. ToolTypes' /\ ConnectInv'
        BY <2>0, <2>2, <3>1, <3>2
      <3>4. LateInv'
        BY <2>0, <2>2, <3>1, <3>2
      <3> QED
        BY <3>3, <3>4
    <2> QED
      BY <1>3, <2>1, <2>2 DEF PortForwarded
  <1>4. ASSUME NEW whose \in {"ours", "stale"}, RetryFires(whose) PROVE Rest
    <2>1. /\ whose \in retryTimers /\ retryTimers' = retryTimers \ {whose}
          /\ tryConnect(whose, pending) /\ late' = (late \/ whose = "stale")
          /\ UNCHANGED <<socketConnection, connect, pending, lookups, faults>>
      BY <1>4 DEF RetryFires
    <2>2. PICK s \in Sockets :
              /\ sock' \in [Sockets -> SockTypes] /\ thrown' = ~pending
              /\ sock'[s].ears \in {whose, "none"}
              /\ \A t \in Sockets : t # s => sock'[t] = sock[t]
      BY <2>1, TryConnect
    <2>3. ToolTypes' /\ ConnectInv'
      BY <2>1, <2>2
    <2>4. LateInv'
      <3> SUFFICES ASSUME ~late' PROVE LateInv'
        OBVIOUS
      <3>1. ~late /\ whose = "ours" /\ pending
        BY <2>1
      <3> QED
        BY <2>1, <2>2, <3>1
    <2> QED
      BY <2>3, <2>4
  <1>5. ASSUME NEW s \in Sockets, tryConnectAfterTimeout(s) PROVE Rest
    <2>1. /\ sock' = [sock EXCEPT ![s] = Free]
          /\ late' = (late \/ sock[s].ears = "stale")
          /\ UNCHANGED <<socketConnection, connect, lookups, faults>>
      BY <1>5 DEF tryConnectAfterTimeout
    <2>2. sock' \in [Sockets -> SockTypes] /\ sock'[s].ears = "none"
          /\ \A t \in Sockets : t # s => sock'[t] = sock[t]
      BY <2>1 DEF Free, SockTypes
    <2>3. pending' \in BOOLEAN
      BY <1>5 DEF tryConnectAfterTimeout
    <2>4. ToolTypes' /\ ConnectInv'
      <3>1. \/ retryTimers' = retryTimers
            \/ /\ sock[s].ears = "ours" /\ ~connect.isConnected
               /\ retryTimers' = retryTimers \union {"ours"}
        BY <1>5 DEF tryConnectAfterTimeout
      <3>2. ToolTypes'
        BY <2>1, <2>2, <2>3
      <3>3. \A t, u \in Sockets : sock'[t].ears = "ours" /\ sock'[u].ears = "ours" => t = u
        BY <2>2
      <3>4. \A t \in Sockets : sock'[t].ears = "ours" => connect'.at = "trying"
        BY <2>1, <2>2
      <3>5. "ours" \in retryTimers' =>
                /\ connect'.at = "trying" /\ ~connect'.isConnected
                /\ \A t \in Sockets : sock'[t].ears # "ours"
        BY <2>1, <2>2, <3>1
      <3> QED
        BY <2>1, <3>2, <3>3, <3>4, <3>5
    <2>5. LateInv'
      <3>1. CASE sock[s].ears = "ours" /\ connect.isConnected
        BY <3>1, <1>5, <2>1, <2>2 DEF tryConnectAfterTimeout
      <3>2. CASE sock[s].ears = "ours" /\ ~connect.isConnected
        <4> SUFFICES ASSUME ~late' PROVE LateInv'
          OBVIOUS
        <4>1. connect.at = "trying" /\ pending
          BY <2>1, <3>2
        <4>2. ~thrown' /\ pending' /\ retryTimers' = retryTimers \union {"ours"}
          BY <3>2, <4>1, <1>5 DEF tryConnectAfterTimeout
        <4> QED
          BY <2>1, <3>2, <4>1, <4>2
      <3>3. CASE sock[s].ears = "stale"
        BY <3>3, <2>1
      <3>4. CASE sock[s].ears = "none"
        <4>1. UNCHANGED <<retryTimers, pending, thrown>>
          BY <3>4, <1>5 DEF tryConnectAfterTimeout
        <4> QED
          BY <4>1, <3>4, <2>1, <2>2
      <3>5. sock[s].ears \in {"none", "ours", "stale"}
        BY <1>5 DEF tryConnectAfterTimeout, SockTypes
      <3> QED
        BY <3>1, <3>2, <3>3, <3>4, <3>5
    <2> QED
      BY <2>4, <2>5
  <1>6. ASSUME NEW s \in Sockets, handleSocketError(s) PROVE Rest
    BY <1>6 DEF handleSocketError, end, closed, Free, SockTypes
  <1>7. ASSUME NEW s \in Sockets, SocketCloses(s) PROVE Rest
    BY <1>6, <1>7 DEF SocketCloses
  <1>8. CASE ConnectTimesOut
    BY <1>8 DEF ConnectTimesOut, ConnectTypes
  <1>9. ASSUME NEW whose \in {"deciding", "moot"}, LookupAnswers(whose) PROVE Rest
    <2>1. /\ whose \in lookups /\ lookups' = lookups \ {whose} /\ pending' = FALSE
          /\ UNCHANGED <<socketConnection, retryTimers, thrown>>
          /\ late' = (late \/ whose = "moot")
      BY <1>9 DEF LookupAnswers
    <2>2. CASE whose = "moot"
      <3>1. UNCHANGED <<connect, sock, faults>>
        BY <2>2, <1>9 DEF LookupAnswers
      <3> QED
        BY <2>1, <2>2, <3>1
    <2>3. CASE whose = "deciding"
      <3>1. connect' = [connect EXCEPT !.at = "failed"]
        BY <2>3, <1>9 DEF LookupAnswers
      <3>2. connect' \in ConnectTypes /\ connect'.at = "failed"
            /\ connect'.isConnected = connect.isConnected
        BY <3>1 DEF ConnectTypes
      <3>3. CASE UNCHANGED faults
                 /\ sock' = [s \in Sockets |-> IF sock[s].ears = "ours" THEN Free ELSE sock[s]]
        <4>1. sock' \in [Sockets -> SockTypes]
              /\ \A s \in Sockets : sock'[s].ears = IF sock[s].ears = "ours" THEN "none"
                                                     ELSE sock[s].ears
          BY <3>3 DEF Free, SockTypes
        <4>2. \A s \in Sockets : sock'[s].ears # "ours"
          BY <4>1
        <4>3. "ours" \notin retryTimers
          BY <2>1, <2>3
        <4>4. ToolTypes'
          BY <2>1, <3>2, <3>3, <4>1
        <4>5. ConnectInv'
          BY <2>1, <2>3, <3>2, <4>2, <4>3
        <4>6. LateInv'
          BY <2>1, <3>2, <3>3, <4>1
        <4> QED
          BY <4>4, <4>5, <4>6
      <3>4. CASE /\ faults' = faults + 1
                 /\ sock' = [s \in Sockets |->
                       IF sock[s].ears = "ours" THEN [sock[s] EXCEPT !.ears = "stale"]
                                                ELSE sock[s]]
        <4>1. sock' \in [Sockets -> SockTypes]
          BY <3>4 DEF SockTypes
        <4>2. faults' \in Nat /\ faults' # 0
          BY <3>4
        <4>3. LateInv'
          BY <2>1, <3>2
        <4>4. \A s \in Sockets : sock'[s].ears # "ours"
          BY <3>4 DEF SockTypes
        <4>5. "ours" \notin retryTimers
          BY <2>1, <2>3
        <4>6. ToolTypes'
          BY <2>1, <3>2, <4>1, <4>2
        <4>7. ConnectInv'
          BY <2>1, <2>3, <3>2, <4>4, <4>5
        <4> QED
          BY <4>3, <4>6, <4>7
      <3>5. \A s \in Sockets :
                s \in {t \in Sockets : sock[t].ears = "ours"} <=> sock[s].ears = "ours"
        OBVIOUS
      <3> QED
        BY <1>9, <2>3, <3>3, <3>4, <3>5 DEF LookupAnswers, fault
    <2> QED
      BY <2>2, <2>3
  <1>10. CASE ReportArrives
    BY <1>10 DEF ReportArrives, handleSocketError, end, closed, Free, SockTypes
  <1>11. CASE OperationTimesOut
    BY <1>11 DEF OperationTimesOut, handleSocketError, end, closed, Free, SockTypes
  <1> QED
    BY <1>3, <1>4, <1>5, <1>7, <1>8, <1>9, <1>10, <1>11 DEF ToolStep

\* The first answer of a socket of the attempt under way makes the connection.
LEMMA AnswerKeeps ==
    ASSUME DeviceInv, NEW s \in Sockets, Answered(s)
    PROVE  DeviceInv'
  <1>0. ToolTypes /\ ConnectInv /\ LateInv /\ MarkerInv
    BY DEF DeviceInv
  <1>1. /\ SocketAnswers(s)
        /\ UNCHANGED <<sync, live, excused, marker, retryTimers, pending, thrown, late>>
    BY DEF Answered, SocketAnswers, hostVars, deviceVars
  <1>2. MarkerInv'
    BY <1>0, <1>1 DEF MarkerInv
  <1>3. CASE sock[s].ears = "ours"
    <2>1. /\ sock' = [sock EXCEPT ![s].ears = "tool"]
          /\ connect' = [at |-> "connected", isConnected |-> TRUE]
          /\ \/ "deciding" \notin lookups /\ UNCHANGED <<lookups, faults>>
             \/ faults' = faults + 1 /\ lookups' = {"moot"}
      BY <1>1, <1>3 DEF SocketAnswers, fault
    <2>2. /\ sock' \in [Sockets -> SockTypes] /\ sock'[s].ears = "tool"
          /\ \A t \in Sockets : t # s => sock'[t] = sock[t]
      BY <2>1, <1>0 DEF ToolTypes, SockTypes
    <2>3. /\ connect' \in ConnectTypes /\ connect'.at = "connected"
          /\ faults' \in {faults, faults + 1}
      BY <2>1 DEF ConnectTypes
    <2>4. ToolTypes'
      BY <2>1, <2>2, <2>3, <1>0, <1>1 DEF ToolTypes
    <2>5. ConnectInv'
      <3>1. connect.at = "trying" /\ sync.at \in {"connect", "reconnect"}
        BY <1>0, <1>3 DEF ConnectInv
      <3>2. \A t \in Sockets : sock'[t].ears # "ours"
        BY <1>0, <1>3, <2>2 DEF ConnectInv
      <3>3. "ours" \notin retryTimers' /\ "deciding" \notin lookups'
        BY <1>0, <1>1, <1>3, <2>1 DEF ConnectInv
      <3> QED
        BY <1>1, <2>3, <3>1, <3>2, <3>3 DEF ConnectInv
    <2>6. LateInv'
      BY <2>3, <1>0, <1>1 DEF LateInv
    <2> QED
      BY <2>4, <2>5, <2>6, <1>2 DEF DeviceInv
  <1>4. CASE sock[s].ears # "ours"
    <2>1. sock' = [sock EXCEPT ![s] = Free]
          /\ UNCHANGED <<connect, socketConnection, lookups, faults>>
      BY <1>1, <1>4 DEF SocketAnswers
    <2>2. sock' \in [Sockets -> SockTypes] /\ sock'[s].ears = "none"
          /\ \A t \in Sockets : t # s => sock'[t] = sock[t]
      BY <2>1, <1>0 DEF ToolTypes, SockTypes, Free
    <2>3. ToolTypes' /\ ConnectInv' /\ LateInv'
      BY <2>1, <2>2, <1>0, <1>1 DEF ToolTypes, ConnectInv, LateInv, hasConnection
    <2> QED
      BY <2>3, <1>2 DEF DeviceInv
  <1> QED
    BY <1>3, <1>4

(***************************************************************************)
(* The syncs                                                               *)
(***************************************************************************)
ToolInv == ToolTypes /\ ConnectInv /\ LateInv

\* Steps that leave the attempts alone; sockets may be closed.
LEMMA AttemptsAside ==
    ASSUME ToolInv, UNCHANGED <<attempt, thrown, late>>,
           socketConnection' \in {socketConnection, NoSocket},
           sock' \in [Sockets -> SockTypes],
           \A s \in Sockets : sock'[s].ears \in {sock[s].ears, "none"},
           faults' \in {faults, faults + 1},
           DOMAIN sync' = SyncFields,
           sync'.at \notin {"connect", "reconnect"} => connect.at = "idle"
    PROVE  ToolInv'
  <1>1. ToolTypes'
    BY DEF ToolInv, ToolTypes, attempt
  <1>2. ConnectInv'
    BY DEF ToolInv, ConnectInv, attempt, hasConnection
  <1>3. LateInv'
    BY DEF ToolInv, LateInv, attempt
  <1> QED
    BY <1>1, <1>2, <1>3 DEF ToolInv

\* connect() begins when no other attempt is under way.
LEMMA ConnectBegins ==
    ASSUME ToolInv, beginConnect, connect.at = "idle", ~hasConnection,
           UNCHANGED <<socketConnection, sock, retryTimers, pending, lookups, thrown, late,
                       faults>>,
           DOMAIN sync' = SyncFields, sync'.at \in {"connect", "reconnect"}
    PROVE  ToolInv'
  <1>1. connect' \in ConnectTypes /\ connect'.at = "port" /\ ~connect'.isConnected
    BY DEF beginConnect, ConnectTypes
  <1>2. ToolTypes'
    BY <1>1 DEF ToolInv, ToolTypes
  <1>3. ConnectInv' /\ LateInv'
    BY <1>1 DEF ToolInv, ConnectInv, LateInv, hasConnection
  <1> QED
    BY <1>2, <1>3 DEF ToolInv

\* Closing the connection frees its socket.
LEMMA Closing ==
    ASSUME ToolTypes, closed
    PROVE  /\ UNCHANGED <<attempt, thrown, late, faults>> /\ socketConnection' = NoSocket
           /\ sock' \in [Sockets -> SockTypes]
           /\ \A s \in Sockets : sock'[s].ears \in {sock[s].ears, "none"}
  BY DEF closed, ToolTypes, Free, SockTypes

\* A socket that is cut off keeps its listeners.
LEMMA CuttingOff ==
    ASSUME ToolTypes
    PROVE  /\ cutOff \in [Sockets -> SockTypes]
           /\ \A s \in Sockets : cutOff[s].ears = sock[s].ears
  BY DEF cutOff, ToolTypes, SockTypes

\* A sync that is where it was, or goes to a place, has the same fields.
LEMMA Goto ==
    ASSUME DOMAIN sync = SyncFields, NEW place, goto(place)
    PROVE  DOMAIN sync' = SyncFields /\ sync'.at = place
  BY DEF goto, SyncFields, NoSync

\* A sync that is over is idle.
LEMMA Over ==
    ASSUME over
    PROVE  DOMAIN sync' = SyncFields /\ sync'.at = "idle"
  BY DEF over, SyncFields, NoSync

\* The invariant holds at first.
LEMMA Begins == Init => DeviceInv
  <1> SUFFICES ASSUME Init PROVE DeviceInv
    OBVIOUS
  <1>1. PICK force \in BOOLEAN : sync = [NoSync EXCEPT !.at = "before", !.force = force]
    BY DEF Init
  <1>2. DOMAIN sync = SyncFields /\ sync.at = "before"
    BY <1>1 DEF SyncFields, NoSync
  <1>3. ToolTypes
    BY <1>2 DEF Init, ToolInit, ToolTypes, Free, SockTypes, Idle, ConnectTypes
  <1>4. ConnectInv /\ LateInv /\ MarkerInv
    BY <1>2 DEF Init, ToolInit, ConnectInv, LateInv, MarkerInv, Free, Idle, hasConnection
  <1> QED
    BY <1>3, <1>4 DEF DeviceInv

\* The developer, the application and the device that joins again.
LEMMA OthersKeep ==
    ASSUME DeviceInv,
           \/ \E f \in Files, hot \in BOOLEAN : FileChanges(f, hot)
           \/ AppTakesFile \/ AppSyncs \/ AppDies
           \/ \E force \in BOOLEAN : SyncInitialData(force)
    PROVE  DeviceInv'
  <1>0. ToolTypes /\ ConnectInv /\ ToolInv /\ MarkerInv
    BY DEF DeviceInv, ToolInv
  <1>1. sync.at \notin {"connect", "reconnect"} => connect.at = "idle"
    BY <1>0 DEF ConnectInv
  <1> SUFFICES ToolInv' /\ MarkerInv'
    BY DEF DeviceInv, ToolInv
  <1>2. ASSUME NEW f \in Files, NEW hot \in BOOLEAN, FileChanges(f, hot)
        PROVE  ToolInv' /\ MarkerInv'
    <2>1. UNCHANGED <<toolVars, sync, live, excused, marker>>
      BY <1>2 DEF FileChanges, deviceVars
    <2> QED
      BY <2>1, <1>0, <1>1, AttemptsAside
         DEF toolVars, toolState, ToolTypes, MarkerInv
  <1>3. CASE AppTakesFile
    <2>1. UNCHANGED <<socketConnection, sock, attempt, thrown, late, faults, sync, live, excused,
                      marker>>
      BY <1>3 DEF AppTakesFile, hostVars
    <2> QED
      BY <2>1, <1>0, <1>1, AttemptsAside DEF ToolTypes, MarkerInv
  <1>4. CASE AppSyncs
    <2>1. /\ UNCHANGED <<socketConnection, sock, attempt, thrown, late, sync, live, marker>>
          /\ excused' \in {excused, TRUE} /\ faults' \in {faults, faults + 1}
      BY <1>4 DEF AppSyncs, fault
    <2>2. ToolInv'
      BY <2>1, <1>0, <1>1, AttemptsAside DEF ToolTypes
    <2> QED
      BY <2>1, <2>2, <1>0 DEF MarkerInv
  <1>5. CASE AppDies
    <2>1. /\ UNCHANGED <<socketConnection, attempt, thrown, late, sync, live, marker>>
          /\ sock' = cutOff /\ excused' = (excused \/ app.code # device.files)
          /\ faults' = faults + 1
      BY <1>5 DEF AppDies, fault, hostVars
    <2>2. ToolInv'
      BY <2>1, <1>0, <1>1, CuttingOff, AttemptsAside DEF ToolTypes
    <2> QED
      BY <2>1, <2>2, <1>0 DEF MarkerInv
  <1>6. ASSUME NEW force \in BOOLEAN, SyncInitialData(force)
        PROVE  ToolInv' /\ MarkerInv'
    <2>1. /\ UNCHANGED toolState /\ faults' = faults + 1 /\ sync.at = "idle"
          /\ sync' = [NoSync EXCEPT !.at = "before", !.force = force]
      BY <1>6 DEF SyncInitialData, fault, at
    <2>2. DOMAIN sync' = SyncFields /\ sync'.at = "before"
      BY <2>1 DEF SyncFields, NoSync
    <2>3. ToolInv'
      BY <2>1, <2>2, <1>0, <1>1, AttemptsAside DEF toolState, ToolTypes
    <2> QED
      BY <2>2, <2>3 DEF MarkerInv
  <1> QED
    BY <1>2, <1>3, <1>4, <1>5, <1>6

\* Where connect() begins and ends.
LEMMA ConnectKeeps ==
    ASSUME DeviceInv, BeforeLiveSyncAction \/ Connected \/ StartApplication
    PROVE  DeviceInv'
  <1>0. ToolTypes /\ ConnectInv /\ LateInv /\ ToolInv /\ MarkerInv
        /\ DOMAIN sync = SyncFields
    BY DEF DeviceInv, ToolInv, ToolTypes
  <1>1. sync.at \notin {"connect", "reconnect"} => connect.at = "idle"
    BY <1>0 DEF ConnectInv
  <1> SUFFICES ToolInv' /\ MarkerInv'
    BY DEF DeviceInv, ToolInv
  <1>2. CASE BeforeLiveSyncAction
    <2>0. connect.at = "idle"
      BY <1>1, <1>2 DEF BeforeLiveSyncAction, at
    <2>1. CASE goto("hash") /\ UNCHANGED toolVars
      <3>1. DOMAIN sync' = SyncFields /\ sync'.at = "hash"
        BY <2>1, <1>0, Goto
      <3>2. ToolInv'
        BY <2>0, <2>1, <3>1, <1>0, AttemptsAside DEF toolVars, toolState, ToolTypes
      <3> QED
        BY <3>1, <3>2 DEF MarkerInv
    <2>2. CASE /\ ~hasConnection /\ goto("connect") /\ beginConnect
               /\ UNCHANGED <<socketConnection, sock, retryTimers, pending, lookups,
                              traffic, thrown, late, faults>>
      <3>1. DOMAIN sync' = SyncFields /\ sync'.at = "connect"
        BY <2>2, <1>0, Goto
      <3>2. ToolInv'
        BY <2>0, <2>2, <3>1, <1>0, ConnectBegins
      <3> QED
        BY <3>1, <3>2 DEF MarkerInv
    <2>3. CASE fault /\ goto("failed") /\ UNCHANGED toolState
      <3>1. DOMAIN sync' = SyncFields /\ sync'.at = "failed"
        BY <2>3, <1>0, Goto
      <3>2. ToolInv'
        BY <2>0, <2>3, <3>1, <1>0, AttemptsAside DEF fault, toolState, ToolTypes
      <3> QED
        BY <3>1, <3>2 DEF MarkerInv
    <2> QED
      BY <1>2, <2>1, <2>2, <2>3 DEF BeforeLiveSyncAction
  <1>3. CASE Connected
    <2>1. /\ connect.at \in {"connected", "failed"} /\ connect' = Idle
          /\ UNCHANGED <<socketConnection, sock, retryTimers, pending, lookups, thrown, late,
                         faults, live, excused>>
          /\ \/ /\ sync.at = "connect"
                /\ goto(IF connect.at = "connected" THEN "hash" ELSE "failed")
             \/ sync.at = "reconnect" /\ goto("status") /\ UNCHANGED marker
      BY <1>3 DEF Connected, at, others
    <2>2. /\ DOMAIN sync' = SyncFields
          /\ \/ sync'.at \in {"hash", "failed"}
             \/ sync.at = "reconnect" /\ sync'.at = "status" /\ UNCHANGED marker
      BY <2>1, <1>0, Goto
    <2>3. connect' \in ConnectTypes /\ connect'.at = "idle" /\ ~connect'.isConnected
      BY <2>1 DEF Idle, ConnectTypes
    <2>4. ToolTypes'
      BY <2>1, <2>2, <2>3, <1>0 DEF ToolTypes
    <2>5. ConnectInv' /\ LateInv'
      BY <2>1, <2>3, <1>0 DEF ConnectInv, LateInv
    <2> QED
      BY <2>1, <2>2, <2>4, <2>5, <1>0 DEF MarkerInv, ToolInv
  <1>4. CASE StartApplication
    <2>0. connect.at = "idle" /\ sync.at = "start"
      BY <1>1, <1>4 DEF StartApplication, at
    <2>1. /\ UNCHANGED <<socketConnection, sock, retryTimers, pending, lookups, thrown, late,
                         live, marker>>
          /\ excused' \in {excused, TRUE}
      BY <1>4 DEF StartApplication
    <2>2. CASE goto("reconnect") /\ beginConnect /\ ~hasConnection /\ UNCHANGED faults
      <3>1. DOMAIN sync' = SyncFields /\ sync'.at = "reconnect"
        BY <2>2, <1>0, Goto
      <3>2. ToolInv'
        BY <2>0, <2>1, <2>2, <3>1, <1>0, ConnectBegins
      <3> QED
        BY <2>0, <2>1, <3>1, <3>2, <1>0 DEF MarkerInv
    <2>3. CASE goto("status") /\ UNCHANGED connect /\ faults' \in {faults, faults + 1}
      <3>1. DOMAIN sync' = SyncFields /\ sync'.at = "status"
        BY <2>3, <1>0, Goto
      <3>2. ToolInv'
        BY <2>0, <2>1, <2>3, <3>1, <1>0, AttemptsAside DEF attempt, ToolTypes
      <3> QED
        BY <2>0, <2>1, <3>1, <3>2, <1>0 DEF MarkerInv
    <2> QED
      BY <1>4, <2>2, <2>3 DEF StartApplication, fault
  <1> QED
    BY <1>2, <1>3, <1>4


\* The steps of a sync that leave the attempts to connect alone.
LEMMA StepsKeep ==
    ASSUME DeviceInv,
           \/ SyncChangedData \/ GenerateHashes
           \/ (\E f \in Files : SendFile(f)) \/ SendUpdate
           \/ UpdateHashesOnDevice \/ DoSync \/ DoSyncEnds \/ RefreshApplication
           \/ StopApplication \/ HmrStatusKnown \/ SyncFails
    PROVE  DeviceInv'
  <1>0. ToolTypes /\ ConnectInv /\ ToolInv /\ MarkerInv /\ DOMAIN sync = SyncFields
    BY DEF DeviceInv, ToolInv, ToolTypes
  <1>1. sync.at \notin {"connect", "reconnect"} => connect.at = "idle"
    BY <1>0 DEF ConnectInv
  <1> SUFFICES ToolInv' /\ MarkerInv'
    BY DEF DeviceInv, ToolInv
  <1> DEFINE From(places) == sync.at \in places /\ connect.at = "idle"
             To(places) == DOMAIN sync' = SyncFields /\ sync'.at \in places
  <1>2. CASE SyncChangedData
    <2>1. From({"idle"}) /\ UNCHANGED toolVars
      BY <1>1, <1>2 DEF SyncChangedData, at
    <2>2. To({"before"})
      BY <1>2 DEF SyncChangedData, SyncFields, NoSync
    <2>3. ToolInv'
      BY <2>1, <2>2, <1>0, AttemptsAside DEF toolVars, toolState, ToolTypes
    <2> QED
      BY <2>2, <2>3 DEF MarkerInv
  <1>3. CASE GenerateHashes
    <2>1. From({"hash"}) /\ UNCHANGED toolVars
      BY <1>1, <1>3 DEF GenerateHashes, at
    <2>2. To({"send"})
      BY <1>0, <1>3 DEF GenerateHashes, SyncFields, NoSync
    <2>3. ToolInv'
      BY <2>1, <2>2, <1>0, AttemptsAside DEF toolVars, toolState, ToolTypes
    <2> QED
      BY <2>2, <2>3 DEF MarkerInv
  <1>4. ASSUME (\E f \in Files : SendFile(f)) \/ SendUpdate
        PROVE  ToolInv' /\ MarkerInv'
    <2>1. /\ From({"send"})
          /\ UNCHANGED <<socketConnection, sock, attempt, thrown, late, faults>>
      BY <1>1, <1>4 DEF SendFile, SendUpdate, Send, at
    <2>2. To({"send", "failed"})
      BY <1>0, <1>4, <2>1 DEF SendFile, SendUpdate, SyncFields, NoSync
    <2>3. ToolInv'
      BY <2>1, <2>2, <1>0, AttemptsAside DEF ToolTypes
    <2> QED
      BY <2>2, <2>3 DEF MarkerInv
  <1>5. CASE UpdateHashesOnDevice
    <2>1. From({"send"}) /\ UNCHANGED toolVars
      BY <1>1, <1>5 DEF UpdateHashesOnDevice, at
    <2>2. To({"finalize"})
      BY <1>0, <1>5 DEF UpdateHashesOnDevice, SyncFields, NoSync
    <2>3. ToolInv'
      BY <2>1, <2>2, <1>0, AttemptsAside DEF toolVars, toolState, ToolTypes
    <2> QED
      BY <2>2, <2>3 DEF MarkerInv
  <1>6. CASE DoSync
    <2>0. From({"finalize"})
      BY <1>1, <1>6 DEF DoSync, at
    <2>1. CASE /\ sync.modified /\ goto("doSync")
               /\ UNCHANGED <<socketConnection, sock, attempt, thrown, late, faults>>
      <3>1. To({"doSync"})
        BY <2>1, <1>0, Goto
      <3>2. ToolInv'
        BY <2>0, <2>1, <3>1, <1>0, AttemptsAside DEF ToolTypes
      <3> QED
        BY <3>1, <3>2 DEF MarkerInv
    <2>2. CASE /\ ~sync.modified /\ ~marker' /\ (UNCHANGED toolVars \/ end)
               /\ sync' = [sync EXCEPT !.at = synced, !.didRefresh = TRUE]
      <3>1. To({"stop", "refresh"})
        BY <2>2, <1>0 DEF SyncFields, NoSync, synced
      <3>2. ASSUME UNCHANGED toolVars PROVE ToolInv'
        BY <2>0, <3>1, <3>2, <1>0, AttemptsAside DEF toolVars, toolState, ToolTypes
      <3>3. ASSUME end PROVE ToolInv'
        BY <2>0, <3>1, <3>3, <1>0, AttemptsAside, Closing DEF end
      <3>4. MarkerInv'
        BY <2>2 DEF MarkerInv
      <3> QED
        BY <2>2, <3>2, <3>3, <3>4
    <2> QED
      BY <1>6, <2>1, <2>2 DEF DoSync
  <1>7. CASE DoSyncEnds
    <2>1. /\ From({"doSync"}) /\ ~marker'
          /\ \/ closed
             \/ UNCHANGED <<socketConnection, sock, attempt, thrown, late, faults>>
      BY <1>1, <1>7 DEF DoSyncEnds, at
    <2>2. To({"stop", "refresh", "failed"})
      BY <1>0, <1>7, Goto DEF DoSyncEnds, SyncFields, NoSync, synced
    <2>3. ASSUME closed PROVE ToolInv'
      BY <2>1, <2>2, <2>3, <1>0, AttemptsAside, Closing
    <2>4. ASSUME UNCHANGED <<socketConnection, sock, attempt, thrown, late, faults>>
          PROVE  ToolInv'
      BY <2>1, <2>2, <2>4, <1>0, AttemptsAside DEF ToolTypes
    <2>5. MarkerInv'
      BY <2>1 DEF MarkerInv
    <2> QED
      BY <2>1, <2>3, <2>4, <2>5
  <1>8. CASE RefreshApplication
    <2>1. From({"refresh"}) /\ UNCHANGED <<toolVars, live, excused, marker>>
      BY <1>1, <1>8 DEF RefreshApplication, at, others, deviceVars
    <2>2. To({"stop", "status", "before"})
      BY <1>0, <1>8, Goto DEF RefreshApplication, SyncFields, NoSync
    <2>3. ToolInv'
      BY <2>1, <2>2, <1>0, AttemptsAside DEF toolVars, toolState, ToolTypes
    <2> QED
      BY <2>1, <2>2, <2>3, <1>0 DEF MarkerInv
  <1>9. CASE StopApplication
    <2>1. /\ From({"stop"}) /\ sock' = cutOff
          /\ UNCHANGED <<socketConnection, attempt, thrown, late, faults, live, excused, marker>>
      BY <1>1, <1>9 DEF StopApplication, at, others
    <2>2. To({"start"})
      BY <1>0, <1>9, Goto DEF StopApplication
    <2>3. ToolInv'
      BY <2>1, <2>2, <1>0, CuttingOff, AttemptsAside DEF ToolTypes
    <2> QED
      BY <2>1, <2>2, <2>3, <1>0 DEF MarkerInv
  <1>10. CASE HmrStatusKnown
    <2>1. From({"status"}) /\ UNCHANGED <<toolVars, live, excused, marker>>
      BY <1>1, <1>10 DEF HmrStatusKnown, at, deviceVars
    <2>2. To({"before", "idle"})
      BY <1>0, <1>10, Over DEF HmrStatusKnown, SyncFields, NoSync
    <2>3. ToolInv'
      BY <2>1, <2>2, <1>0, AttemptsAside DEF toolVars, toolState, ToolTypes
    <2> QED
      BY <2>1, <2>2, <2>3, <1>0 DEF MarkerInv
  <1>11. CASE SyncFails
    <2>1. /\ From({"failed"}) /\ faults' \in {faults, faults + 1}
          /\ UNCHANGED <<socketConnection, attempt, thrown, late>>
          /\ sock' \in {sock, cutOff}
      BY <1>1, <1>11 DEF SyncFails, at, fault, installOnDevice, toolVars, toolState
    <2>2. To({"before"}) \/ (To({"idle"}) /\ (excused' \/ ~live'))
      BY <1>0, <1>11, Over DEF SyncFails, SyncFields, NoSync
    <2>3. ToolInv'
      BY <2>1, <2>2, <1>0, CuttingOff, AttemptsAside DEF ToolTypes
    <2> QED
      BY <2>2, <2>3 DEF MarkerInv
  <1> QED
    BY <1>2, <1>3, <1>4, <1>5, <1>6, <1>7, <1>8, <1>9, <1>10, <1>11

\* Every step keeps the invariant.
LEMMA DeviceStep == DeviceInv /\ [Next]_vars => DeviceInv'
  <1> SUFFICES ASSUME DeviceInv, [Next]_vars PROVE DeviceInv'
    OBVIOUS
  <1>1. CASE UNCHANGED vars
    BY <1>1 DEF vars, toolVars, toolState, attempt, hostVars, deviceVars, DeviceInv,
               ToolTypes, ConnectInv, LateInv, MarkerInv, hasConnection
  <1>2. CASE Next
    BY <1>2, ToolKeeps, AnswerKeeps, OthersKeep, ConnectKeeps, StepsKeep
       DEF Next, SyncStep
  <1> QED
    BY <1>1, <1>2

-----------------------------------------------------------------------------
\* So it always holds.
LEMMA DeviceInvHolds == Spec => []DeviceInv
  BY Begins, DeviceStep, PTL DEF Spec

\* connect() that has failed, or goes on, has made no connection.
THEOREM RejectedIsFinal == Spec => []RejectedMeansNoConnection
  <1>1. DeviceInv => RejectedMeansNoConnection
    BY DEF DeviceInv, ConnectInv, RejectedMeansNoConnection
  <1> QED
    BY <1>1, DeviceInvHolds, PTL

\* As long as nothing of an earlier attempt to connect was handled no handler
\* throws, whatever faults there are.
THEOREM InTimeNothingThrows == Spec => []OnlyLateEventsThrow
  <1>1. DeviceInv => OnlyLateEventsThrow
    BY DEF DeviceInv, ToolTypes, LateInv, OnlyLateEventsThrow
  <1> QED
    BY <1>1, DeviceInvHolds, PTL

\* A sync that went well leaves no livesync-in-progress file behind.
THEOREM MarkerGoesAway == Spec => []MarkerIsCleared
  <1>1. DeviceInv => MarkerIsCleared
    BY DEF DeviceInv, MarkerInv, MarkerIsCleared, at
  <1> QED
    BY <1>1, DeviceInvHolds, PTL

(***************************************************************************)
(* Types                                                                   *)
(***************************************************************************)
\* What is written to the connection: files, hot updates, the do-sync operation.
Messages == [kind : {"file", "update"}, change : Changes]
            \union [kind : {"sync"}, refresh : BOOLEAN]

\* The connection has the listeners of the tool; a free socket has none.
EarsInv ==
    /\ \A s \in Sockets : sock[s].ears = "tool" <=> s = socketConnection
    /\ \A s \in Sockets : sock[s].at = "free" => sock[s].ears = "none"
    /\ socketConnection \in Sockets \union {NoSocket}

\* The types of what is on its way, of the computer and of the device.
TrafficTypes ==
    /\ retryTimers \subseteq {"ours", "stale"}
    /\ lookups \subseteq {"deciding", "moot"}
    /\ operation \in OperationTypes
    /\ report \in Reports
    /\ stream \in Seq(Messages)

HostTypes ==
    /\ local \in [Files -> Nat]
    /\ queue \in Seq(Changes)
    /\ hmrStatus \in {"none", "success", "error"}
    /\ sync \in SyncTypes
    /\ live \in BOOLEAN /\ longLiving \in BOOLEAN /\ webpack5 \in BOOLEAN

DeviceTypes ==
    /\ device \in [files : [Files -> Nat], update : Changes]
    /\ hashes \in [Files -> Versions \union {Unknown}]
    /\ app \in [runs : BOOLEAN, code : [Files -> Nat]]
    /\ excused \in BOOLEAN

SyncTypeInv == DeviceInv /\ EarsInv /\ TrafficTypes /\ HostTypes /\ DeviceTypes

\* The change that is none is of the type of a change.
LEMMA NoChangeType == NoChange \in Changes
  BY LiveSyncAssumption DEF NoChange, Changes, Versions

\* So is the sync that is none.
LEMMA NoSyncType == NoSync \in SyncTypes /\ NoSync.at = "idle"
  BY NoChangeType DEF NoSync, SyncTypes, NoHashes, Unknown

\* At first all is of its type.
LEMMA TypesBegin == Init => SyncTypeInv
  <1> SUFFICES ASSUME Init PROVE SyncTypeInv
    OBVIOUS
  <1>1. DeviceInv
    BY Begins
  <1>2. EarsInv
    BY SocketsAssumption DEF Init, ToolInit, EarsInv, Free
  <1>3. TrafficTypes
    <2>1. NoOperation \in OperationTypes
      BY DEF NoOperation, OperationTypes
    <2>2. /\ retryTimers = {} /\ lookups = {} /\ report = "none"
          /\ operation = NoOperation /\ stream = <<>>
      BY DEF Init, ToolInit
    <2>3. stream \in Seq(Messages)
      BY <2>2
    <2> QED
      BY <2>1, <2>2, <2>3 DEF TrafficTypes, Reports
  <1>4. sync \in SyncTypes
    <2>1. PICK force \in BOOLEAN : sync = [NoSync EXCEPT !.at = "before", !.force = force]
      BY DEF Init
    <2> QED
      BY <2>1, NoSyncType DEF SyncTypes
  <1>5. HostTypes
    <2>1. /\ local \in [Files -> {0, 1}] /\ queue = <<>> /\ hmrStatus = "none"
          /\ live = TRUE /\ longLiving \in BOOLEAN /\ webpack5 \in BOOLEAN
      BY DEF Init
    <2>2. queue \in Seq(Changes)
      BY <2>1
    <2>3. local \in [Files -> Nat]
      BY <2>1
    <2> QED
      BY <1>4, <2>1, <2>2, <2>3 DEF HostTypes
  <1>6. DeviceTypes
    <2>1. Base \in [Files -> Nat] /\ NoHashes \in [Files -> {Unknown}]
      BY DEF Base, NoHashes
    <2>2. hashes \in [Files -> Versions \union {Unknown}]
      BY <2>1 DEF Init, Versions
    <2> QED
      BY <2>1, <2>2, NoChangeType DEF Init, DeviceTypes
  <1> QED
    BY <1>1, <1>2, <1>3, <1>5, <1>6 DEF SyncTypeInv

(***************************************************************************)
(* The listeners                                                           *)
(***************************************************************************)
\* Whose steps leave the connection and what listens to it.
LEMMA EarsAside ==
    ASSUME EarsInv, UNCHANGED socketConnection,
           \A s \in Sockets :
              /\ sock'[s].ears = "tool" <=> sock[s].ears = "tool"
              /\ sock'[s].at = "free" => sock'[s].ears = "none"
    PROVE  EarsInv'
  BY DEF EarsInv

\* An attempt takes a free socket, never the connection's.
LEMMA TryConnectEars ==
    ASSUME ToolTypes, EarsInv, UNCHANGED socketConnection,
           NEW ears \in {"ours", "stale"}, NEW isPending \in BOOLEAN,
           tryConnect(ears, isPending)
    PROVE  /\ EarsInv'
           /\ hasConnection => sock'[socketConnection] = sock[socketConnection]
  <1> DEFINE free == {s \in Sockets : sock[s].at = "free"}
             taken == [at |-> "open", ears |-> IF isPending THEN ears ELSE "none"]
  <1>1. free # {} /\ sock' = [sock EXCEPT ![CHOOSE s \in free : TRUE] = taken]
    BY DEF tryConnect
  <1>2. PICK s \in Sockets : s = (CHOOSE u \in free : TRUE) /\ sock[s].at = "free"
    BY <1>1
  <1>3. taken.at = "open" /\ taken.ears # "tool"
    OBVIOUS
  <1> HIDE DEF taken
  <1>4. sock' = [sock EXCEPT ![s] = taken]
    BY <1>1, <1>2
  <1>5. sock'[s] = taken /\ \A t \in Sockets : t # s => sock'[t] = sock[t]
    BY <1>4 DEF ToolTypes
  <1>6. sock[s].ears = "none" /\ s # socketConnection
    BY <1>2 DEF EarsInv
  <1>7. EarsInv'
    BY <1>3, <1>5, <1>6, EarsAside DEF EarsInv
  <1> QED
    BY <1>5, <1>6, <1>7 DEF EarsInv, hasConnection

\* Closing the connection removes the tool's listeners with it.
LEMMA ClosedEars ==
    ASSUME ToolTypes, EarsInv, closed
    PROVE  EarsInv'
  BY SocketsAssumption DEF ToolTypes, EarsInv, closed, Free, hasConnection

\* What is cut off keeps who listens.
LEMMA CutOffEars ==
    ASSUME ToolTypes, EarsInv, sock' = cutOff, UNCHANGED socketConnection
    PROVE  EarsInv'
  BY EarsAside DEF ToolTypes, EarsInv, cutOff, SockTypes

\* An error of the connection closes it; of another socket, nothing.
LEMMA ErrorEars ==
    ASSUME ToolTypes, EarsInv, NEW s, handleSocketError(s)
    PROVE  EarsInv'
  BY ClosedEars, EarsAside DEF handleSocketError, end, EarsInv

\* The steps of the connection keep the listeners in order.
LEMMA ToolEars ==
    ASSUME ToolTypes, EarsInv, ToolStep
    PROVE  EarsInv'
  <1>1. CASE PortForwarded
    <2>1. CASE UNCHANGED <<socketConnection, sock>>
      BY <2>1 DEF EarsInv
    <2>2. CASE tryConnect("ours", TRUE) /\ UNCHANGED socketConnection
      BY <2>2, TryConnectEars
    <2> QED
      BY <1>1, <2>1, <2>2 DEF PortForwarded
  <1>2. ASSUME NEW whose \in {"ours", "stale"}, RetryFires(whose) PROVE EarsInv'
    BY <1>2, TryConnectEars DEF RetryFires, ToolTypes
  <1>3. ASSUME NEW s \in Sockets, tryConnectAfterTimeout(s) PROVE EarsInv'
    <2>1. sock' = [sock EXCEPT ![s] = Free] /\ UNCHANGED socketConnection
          /\ sock[s].ears # "tool"
      BY <1>3 DEF tryConnectAfterTimeout
    <2> QED
      BY <2>1, EarsAside DEF ToolTypes, EarsInv, Free
  <1>4. ASSUME NEW s \in Sockets, SocketCloses(s) PROVE EarsInv'
    BY <1>4, ErrorEars DEF SocketCloses
  <1>5. CASE ConnectTimesOut
    BY <1>5 DEF ConnectTimesOut, EarsInv
  <1>6. ASSUME NEW whose \in {"deciding", "moot"}, LookupAnswers(whose) PROVE EarsInv'
    <2>1. UNCHANGED socketConnection
      BY <1>6 DEF LookupAnswers
    <2>2. \A s \in Sockets :
              \/ sock'[s] = sock[s]
              \/ sock[s].ears = "ours" /\ sock'[s] = Free
              \/ sock[s].ears = "ours" /\ sock'[s] = [sock[s] EXCEPT !.ears = "stale"]
      <3> DEFINE open == {s \in Sockets : sock[s].ears = "ours"}
      <3>1. CASE UNCHANGED sock
        BY <3>1
      <3>2. CASE sock' = [s \in Sockets |-> IF s \in open THEN Free ELSE sock[s]]
        BY <3>2
      <3>3. CASE sock' = [s \in Sockets |->
                    IF s \in open THEN [sock[s] EXCEPT !.ears = "stale"] ELSE sock[s]]
        BY <3>3
      <3> QED
        BY <1>6, <3>1, <3>2, <3>3 DEF LookupAnswers
    <2>3. \A s \in Sockets : sock[s].ears = "ours" => sock[s].at # "free"
      BY DEF EarsInv
    <2>4. ASSUME NEW s \in Sockets
          PROVE  /\ sock'[s].ears = "tool" <=> sock[s].ears = "tool"
                 /\ sock'[s].at = "free" => sock'[s].ears = "none"
      <3>1. sock[s] \in SockTypes
        BY DEF ToolTypes
      <3>2. CASE sock'[s] = sock[s]
        BY <3>2 DEF EarsInv
      <3>3. CASE sock'[s] = Free /\ sock[s].ears = "ours"
        BY <3>3 DEF Free
      <3>4. CASE sock'[s] = [sock[s] EXCEPT !.ears = "stale"] /\ sock[s].ears = "ours"
        <4>1. sock'[s].ears = "stale" /\ sock'[s].at = sock[s].at
          BY <3>1, <3>4 DEF SockTypes
        <4> QED
          BY <4>1, <3>4, <2>3
      <3> QED
        BY <2>2, <3>2, <3>3, <3>4
    <2> QED
      BY <2>1, <2>4, EarsAside
  <1>7. CASE ReportArrives
    <2>1. CASE report = "error"
      BY <1>7, <2>1, ErrorEars DEF ReportArrives
    <2>2. CASE report # "error"
      BY <1>7, <2>2 DEF ReportArrives, EarsInv
    <2> QED
      BY <2>1, <2>2
  <1>8. CASE OperationTimesOut
    BY <1>8, ErrorEars DEF OperationTimesOut
  <1> QED
    BY <1>1, <1>2, <1>3, <1>4, <1>5, <1>6, <1>7, <1>8 DEF ToolStep

\* The socket that answers gets the listeners, when no other has them.
LEMMA AnswerEars ==
    ASSUME ToolTypes, ConnectInv, EarsInv, NEW s \in Sockets, SocketAnswers(s)
    PROVE  EarsInv'
  <1>1. CASE sock[s].ears = "ours"
    <2>1. sock' = [sock EXCEPT ![s].ears = "tool"] /\ socketConnection' = s
          /\ sock[s].at = "open"
      BY <1>1 DEF SocketAnswers
    <2>2. \A t \in Sockets : sock[t].ears # "tool"
      <3>1. ~hasConnection
        BY <1>1 DEF ConnectInv
      <3> QED
        BY <3>1, SocketsAssumption DEF EarsInv, hasConnection
    <2>3. /\ sock'[s].ears = "tool" /\ sock'[s].at = "open"
          /\ \A t \in Sockets : t # s => sock'[t] = sock[t]
      BY <2>1 DEF ToolTypes, SockTypes
    <2> QED
      BY <2>1, <2>2, <2>3 DEF EarsInv
  <1>2. CASE sock[s].ears = "stale"
    <2>1. sock' = [sock EXCEPT ![s] = Free] /\ UNCHANGED socketConnection
      BY <1>2 DEF SocketAnswers
    <2> QED
      BY <2>1, <1>2, EarsAside DEF EarsInv, ToolTypes, Free
  <1> QED
    BY <1>1, <1>2 DEF SocketAnswers

\* Every step of the rest leaves the sockets, closes the connection or cuts all.
LEMMA EarsStep ==
    ASSUME SyncTypeInv, [Next]_vars
    PROVE  EarsInv'
  <1>0. ToolTypes /\ ConnectInv /\ EarsInv
    BY DEF SyncTypeInv, DeviceInv
  <1> DEFINE Same == UNCHANGED <<socketConnection, sock>>
             Cut == sock' = cutOff /\ UNCHANGED socketConnection
  <1>1. ASSUME Same \/ Cut \/ closed PROVE EarsInv'
    <2>1. ASSUME Same PROVE EarsInv'
      BY <1>0, <2>1 DEF EarsInv
    <2> QED
      BY <1>0, <1>1, <2>1, ClosedEars, CutOffEars
  <1>2. CASE \/ (\E f \in Files, hot \in BOOLEAN : FileChanges(f, hot))
             \/ AppTakesFile \/ AppSyncs \/ AppDies
             \/ \E force \in BOOLEAN : SyncInitialData(force)
    <2>1. Same \/ Cut
      BY <1>2 DEF FileChanges, AppTakesFile, AppSyncs, AppDies, SyncInitialData,
                  toolVars, toolState
    <2> QED
      BY <1>1, <2>1
  <1>3. ASSUME NEW s \in Sockets, Answered(s) PROVE EarsInv'
    BY <1>0, <1>3, AnswerEars DEF Answered
  <1>4. CASE SyncStep
    <2>1. CASE SyncChangedData \/ BeforeLiveSyncAction \/ Connected \/ GenerateHashes
      BY <1>1, <2>1 DEF SyncChangedData, BeforeLiveSyncAction, Connected, GenerateHashes,
                        toolVars, toolState
    <2>2. CASE (\E f \in Files : SendFile(f)) \/ SendUpdate \/ UpdateHashesOnDevice
      BY <1>1, <2>2 DEF SendFile, SendUpdate, Send, UpdateHashesOnDevice,
                        toolVars, toolState
    <2>3. CASE DoSync \/ DoSyncEnds
      BY <1>1, <2>3 DEF DoSync, DoSyncEnds, end, toolVars, toolState
    <2>4. CASE RefreshApplication \/ StopApplication \/ StartApplication
               \/ HmrStatusKnown \/ SyncFails
      BY <1>1, <2>4 DEF RefreshApplication, StopApplication, StartApplication,
                        HmrStatusKnown, SyncFails, installOnDevice, toolVars, toolState
    <2> QED
      BY <1>4, <2>1, <2>2, <2>3, <2>4 DEF SyncStep
  <1>5. CASE ToolSteps
    BY <1>0, <1>5, ToolEars DEF ToolSteps
  <1>6. CASE UNCHANGED vars
    BY <1>1, <1>6 DEF vars, toolVars, toolState
  <1> QED
    BY <1>2, <1>3, <1>4, <1>5, <1>6 DEF Next

(***************************************************************************)
(* The other types                                                         *)
(***************************************************************************)
Places == {"idle", "before", "connect", "hash", "send", "upload", "finalize", "doSync",
           "refresh", "stop", "start", "reconnect", "status", "failed"}

\* What a sync is about.
aim == <<sync.kind, sync.change, sync.allFiles, sync.stage>>
\* What it has still to do.
work == <<sync.todo, sync.update, sync.modified, sync.didRefresh>>

\* A sync that goes to another place is about the same.
LEMMA GotoFields ==
    ASSUME sync \in SyncTypes, NEW place \in Places, goto(place)
    PROVE  sync' \in SyncTypes /\ sync'.at = place /\ UNCHANGED <<aim, work>>
  BY DEF goto, SyncTypes, Places, aim, work

\* A sync that is over is none.
LEMMA OverFields ==
    ASSUME over
    PROVE  /\ sync' \in SyncTypes /\ sync'.at = "idle" /\ sync' = NoSync
           /\ hmrStatus' = "none"
  BY NoSyncType DEF over

\* What Append and Tail do to a sequence, for the queue and the stream.
LEMMA Appended ==
    ASSUME NEW S, NEW s \in Seq(S), NEW e \in S
    PROVE  /\ Append(s, e) \in Seq(S) /\ Len(Append(s, e)) = Len(s) + 1
           /\ Len(s) \in Nat /\ Append(s, e) # <<>>
           /\ \A i \in 1 .. Len(s) : Append(s, e)[i] = s[i]
           /\ Append(s, e)[Len(s) + 1] = e
  OBVIOUS

\* What is left of a sequence without its head.
LEMMA Shortened ==
    ASSUME NEW S, NEW s \in Seq(S), s # <<>>
    PROVE  /\ Head(s) = s[1] /\ Head(s) \in S /\ Tail(s) \in Seq(S)
           /\ Len(s) \in Nat \ {0} /\ Len(Tail(s)) = Len(s) - 1
           /\ \A i \in 1 .. Len(s) - 1 : Tail(s)[i] = s[i + 1]
  OBVIOUS

\* A connection that is closed has nothing on its way.
LEMMA ClosedTraffic ==
    ASSUME TrafficTypes, closed
    PROVE  /\ UNCHANGED <<retryTimers, lookups>> /\ report' = "none" /\ stream' = <<>>
           /\ operation' \in OperationTypes => TrafficTypes'
  <1>1. UNCHANGED <<retryTimers, lookups>> /\ report' = "none" /\ stream' = <<>>
    BY DEF closed, attempt
  <1>2. stream' \in Seq(Messages)
    BY <1>1
  <1> QED
    BY <1>1, <1>2 DEF TrafficTypes, Reports

\* An operation that is rejected is one that failed.
LEMMA RejectedType ==
    ASSUME operation \in OperationTypes, NEW s
    PROVE  rejected(s) \in OperationTypes
  BY DEF rejected, OperationTypes

\* An error keeps the types of what is on its way.
LEMMA ErrorTraffic ==
    ASSUME TrafficTypes, NEW s, handleSocketError(s)
    PROVE  TrafficTypes'
  <1>1. operation \in OperationTypes
    BY DEF TrafficTypes
  <1>2. CASE end
    <2>1. operation' \in OperationTypes
      BY <1>1, <1>2, RejectedType DEF end
    <2> QED
      BY <1>2, <2>1, ClosedTraffic DEF end
  <1>3. CASE /\ operation' = rejected(s)
             /\ UNCHANGED <<retryTimers, lookups, stream, report>>
    BY <1>1, <1>3, RejectedType DEF TrafficTypes
  <1> QED
    BY <1>2, <1>3 DEF handleSocketError, attempt

\* So do the steps of the connection.
LEMMA ToolTraffic ==
    ASSUME TrafficTypes, ToolStep
    PROVE  TrafficTypes'
  <1> DEFINE Rest == UNCHANGED <<operation, stream, report>>
  <1>1. CASE PortForwarded
    BY <1>1 DEF PortForwarded, traffic, TrafficTypes
  <1>2. ASSUME NEW whose \in {"ours", "stale"}, RetryFires(whose) PROVE TrafficTypes'
    BY <1>2 DEF RetryFires, traffic, TrafficTypes
  <1>3. ASSUME NEW s \in Sockets, tryConnectAfterTimeout(s) PROVE TrafficTypes'
    BY <1>3 DEF tryConnectAfterTimeout, traffic, TrafficTypes
  <1>4. ASSUME NEW s \in Sockets, SocketCloses(s) PROVE TrafficTypes'
    BY <1>4, ErrorTraffic DEF SocketCloses
  <1>5. CASE ConnectTimesOut
    BY <1>5 DEF ConnectTimesOut, traffic, TrafficTypes
  <1>6. ASSUME NEW whose \in {"deciding", "moot"}, LookupAnswers(whose) PROVE TrafficTypes'
    BY <1>6 DEF LookupAnswers, traffic, TrafficTypes
  <1>7. CASE ReportArrives
    <2>1. CASE report = "error"
      BY <1>7, <2>1, ErrorTraffic DEF ReportArrives
    <2>2. CASE report # "error"
      <3>1. /\ operation' = IF operation.at = "pending"
                            THEN [operation EXCEPT !.at = report] ELSE operation
            /\ report' = "none" /\ UNCHANGED <<retryTimers, lookups, stream>>
            /\ report \in {"refreshed", "notRefreshed"}
        BY <1>7, <2>2 DEF ReportArrives, attempt, TrafficTypes, Reports
      <3>2. operation' \in OperationTypes
        BY <3>1 DEF TrafficTypes, OperationTypes
      <3> QED
        BY <3>1, <3>2 DEF TrafficTypes, Reports
    <2> QED
      BY <2>1, <2>2
  <1>8. CASE OperationTimesOut
    BY <1>8, ErrorTraffic DEF OperationTimesOut
  <1> QED
    BY <1>1, <1>2, <1>3, <1>4, <1>5, <1>6, <1>7, <1>8 DEF ToolStep

\* So does the first answer of a socket.
LEMMA AnswerTraffic ==
    ASSUME TrafficTypes, NEW s \in Sockets, SocketAnswers(s)
    PROVE  TrafficTypes'
  <1>1. UNCHANGED <<retryTimers, operation>> /\ stream' \in {stream, <<>>}
        /\ report' \in {report, "none"} /\ lookups' \in {lookups, {"moot"}}
    BY DEF SocketAnswers
  <1>2. <<>> \in Seq(Messages)
    OBVIOUS
  <1>3. stream' \in Seq(Messages)
    BY <1>1, <1>2 DEF TrafficTypes
  <1> QED
    BY <1>1, <1>3 DEF TrafficTypes, Reports

\* A message that is written is read or lost.
LEMMA WrittenType ==
    ASSUME TrafficTypes, NEW message \in Messages, written(message)
    PROVE  stream' \in Seq(Messages) /\ stream' \in {stream, Append(stream, message)}
  BY Appended DEF written, TrafficTypes

(***************************************************************************)
(* The steps, one after the other                                          *)
(***************************************************************************)
OtherTypes == TrafficTypes /\ HostTypes /\ DeviceTypes

\* A change of a file keeps the types.
LEMMA FileChangesTypes ==
    ASSUME OtherTypes, NEW f \in Files, NEW hot \in BOOLEAN, FileChanges(f, hot)
    PROVE  OtherTypes'
  <1>1. /\ UNCHANGED <<toolVars, hmrStatus, sync, live, kinds, deviceVars, excused>>
        /\ local' = [local EXCEPT ![f] = @ + 1]
    BY DEF FileChanges
  <1>2. queue' \in Seq(Changes)
    <2>1. [file |-> f, version |-> local[f] + 1, hot |-> hot] \in Changes
      BY DEF OtherTypes, HostTypes, Changes, Versions
    <2> QED
      BY <2>1, Appended DEF FileChanges, OtherTypes, HostTypes
  <1>3. local' \in [Files -> Nat]
    BY <1>1 DEF OtherTypes, HostTypes
  <1> QED
    BY <1>1, <1>2, <1>3 DEF OtherTypes, HostTypes, TrafficTypes, DeviceTypes, toolVars,
       toolState, attempt, traffic, kinds, deviceVars

\* What the application does keeps the types.
LEMMA AppTypes ==
    ASSUME OtherTypes, AppTakesFile \/ AppSyncs \/ AppDies
    PROVE  OtherTypes'
  <1>0. TrafficTypes /\ HostTypes /\ DeviceTypes /\ stream \in Seq(Messages)
    BY DEF OtherTypes, TrafficTypes
  <1>1. CASE AppTakesFile
    <2>1. /\ stream # <<>> /\ stream' = Tail(stream)
          /\ UNCHANGED <<attempt, operation, report, hostVars, hashes, app, excused>>
      BY <1>1 DEF AppTakesFile
    <2>2. Head(stream) \in Messages /\ stream' \in Seq(Messages)
      BY <1>0, <2>1, Shortened
    <2>3. Head(stream).kind \in {"file", "update"}
          /\ device' = IF Head(stream).kind = "file"
                       THEN [device EXCEPT !.files[Head(stream).change.file] =
                                               Head(stream).change.version]
                       ELSE [device EXCEPT !.update = Head(stream).change]
      BY <1>1 DEF AppTakesFile
    <2>4. Head(stream).change \in Changes
      BY <2>2, <2>3 DEF Messages
    <2>5. device' \in [files : [Files -> Nat], update : Changes]
      <3>1. device \in [files : [Files -> Nat], update : Changes]
            /\ Head(stream).change.version \in Nat
        BY <1>0, <2>4 DEF DeviceTypes, Changes, Versions
      <3>2. CASE Head(stream).kind = "file"
        BY <2>3, <3>1, <3>2
      <3>3. CASE Head(stream).kind # "file"
        BY <2>3, <2>4, <3>1, <3>3
      <3> QED
        BY <3>2, <3>3
    <2> QED
      BY <1>0, <2>1, <2>2, <2>5 DEF OtherTypes, HostTypes, TrafficTypes, DeviceTypes,
         attempt, hostVars, kinds
  <1>2. CASE AppSyncs
    <2>1. /\ stream # <<>> /\ stream' = Tail(stream)
          /\ report' \in {"error", "refreshed", "notRefreshed"}
          /\ device' = [device EXCEPT !.update = NoChange]
          /\ UNCHANGED <<attempt, operation, local, queue, sync, live, kinds, hashes>>
          /\ hmrStatus' \in {"success", "error", hmrStatus}
          /\ excused' \in {excused, TRUE}
          /\ \/ app' = app
             \/ app' = [app EXCEPT !.code[device.update.file] = device.update.version]
      BY <1>2 DEF AppSyncs
    <2>2. stream' \in Seq(Messages)
      BY <1>0, <2>1, Shortened
    <2>3. device' \in [files : [Files -> Nat], update : Changes]
      BY <1>0, <2>1, NoChangeType DEF DeviceTypes
    <2>4. app' \in [runs : BOOLEAN, code : [Files -> Nat]]
      <3>1. /\ app \in [runs : BOOLEAN, code : [Files -> Nat]]
            /\ device.update.file \in Files /\ device.update.version \in Nat
        BY <1>0 DEF DeviceTypes, Changes, Versions
      <3>2. ASSUME NEW f \in Files, NEW v \in Nat, app' = [app EXCEPT !.code[f] = v]
            PROVE  app' \in [runs : BOOLEAN, code : [Files -> Nat]]
        BY <3>1, <3>2
      <3> QED
        BY <2>1, <3>1, <3>2
    <2> QED
      BY <1>0, <2>1, <2>2, <2>3, <2>4 DEF OtherTypes, HostTypes, TrafficTypes, DeviceTypes,
         attempt, kinds, Reports
  <1>3. CASE AppDies
    <2>1. /\ stream' = <<>> /\ app' = [app EXCEPT !.runs = FALSE]
          /\ UNCHANGED <<attempt, operation, report, hostVars, device, hashes>>
          /\ excused' \in BOOLEAN
      BY <1>0, <1>3 DEF AppDies, DeviceTypes
    <2>2. stream' \in Seq(Messages)
      BY <2>1
    <2>3. app' \in [runs : BOOLEAN, code : [Files -> Nat]]
      BY <1>0, <2>1 DEF DeviceTypes
    <2> QED
      BY <1>0, <2>1, <2>2, <2>3 DEF OtherTypes, HostTypes, TrafficTypes, DeviceTypes,
         attempt, hostVars, kinds
  <1> QED
    BY <1>1, <1>2, <1>3

\* What the steps of a sync change of the traffic, the host and the device.
LEMMA StepTypes ==
    ASSUME OtherTypes,
           TrafficTypes', sync' \in SyncTypes, UNCHANGED <<local, kinds>>,
           hmrStatus' \in {hmrStatus, "none"}, live' \in BOOLEAN, queue' \in Seq(Changes),
           device' \in {device, [files |-> Base, update |-> NoChange]},
           hashes' \in [Files -> Versions \union {Unknown}],
           app' \in {app, [runs |-> TRUE, code |-> device.files],
                     [app EXCEPT !.runs = FALSE]},
           excused' \in BOOLEAN
    PROVE  OtherTypes'
  <1>1. HostTypes'
    BY DEF OtherTypes, HostTypes, kinds
  <1>2. app' \in [runs : BOOLEAN, code : [Files -> Nat]]
    <2>1. /\ app \in [runs : BOOLEAN, code : [Files -> Nat]]
          /\ device.files \in [Files -> Nat]
      BY DEF OtherTypes, DeviceTypes
    <2>2. CASE app' = [app EXCEPT !.runs = FALSE]
      BY <2>1, <2>2
    <2>3. CASE app' = [runs |-> TRUE, code |-> device.files]
      BY <2>1, <2>3
    <2> QED
      BY <2>1, <2>2, <2>3
  <1>3. [files |-> Base, update |-> NoChange] \in [files : [Files -> Nat], update : Changes]
    BY NoChangeType DEF Base
  <1>4. DeviceTypes'
    BY <1>2, <1>3 DEF OtherTypes, DeviceTypes
  <1> QED
    BY <1>1, <1>4 DEF OtherTypes

\* What is on its way is of its type as long as nothing touches it.
LEMMA TrafficAside ==
    ASSUME TrafficTypes, UNCHANGED <<retryTimers, lookups, operation, report, stream>>
    PROVE  TrafficTypes'
  BY DEF TrafficTypes

\* The steps of a sync keep the types.
LEMMA SyncTypesKept ==
    ASSUME OtherTypes, EarsInv, SyncStep
    PROVE  OtherTypes'
  <1>0. /\ TrafficTypes /\ sync \in SyncTypes /\ queue \in Seq(Changes)
        /\ hashes \in [Files -> Versions \union {Unknown}]
        /\ local \in [Files -> Nat] /\ live \in BOOLEAN /\ excused \in BOOLEAN
    BY DEF OtherTypes, HostTypes, DeviceTypes
  <1> USE DEF others, toolVars, toolState, attempt, traffic, deviceVars
  <1>1. CASE SyncChangedData
    <2>1. /\ queue # <<>> /\ queue' = Tail(queue)
          /\ sync' = [NoSync EXCEPT !.at = "before", !.kind = "watch",
                         !.change = Head(queue), !.allFiles = ~Head(queue).hot]
          /\ UNCHANGED <<toolVars, local, live, kinds, deviceVars, excused>>
          /\ hmrStatus' = "none"
      BY <1>1 DEF SyncChangedData
    <2>2. Head(queue) \in Changes /\ queue' \in Seq(Changes)
      BY <1>0, <2>1, Shortened
    <2>3. sync' \in SyncTypes
      BY <2>1, <2>2, NoSyncType DEF SyncTypes
    <2> QED
      BY <1>0, <2>1, <2>2, <2>3, StepTypes, TrafficAside
  <1>2. CASE BeforeLiveSyncAction
    <2>1. sync' \in SyncTypes
      BY <1>0, <1>2, GotoFields DEF BeforeLiveSyncAction, Places
    <2>2. /\ UNCHANGED <<retryTimers, lookups, traffic, others, device, hashes>>
          /\ app' \in {app, [runs |-> TRUE, code |-> device.files]}
      BY <1>2 DEF BeforeLiveSyncAction
    <2> QED
      BY <1>0, <2>1, <2>2, StepTypes, TrafficAside
  <1>3. CASE Connected
    <2>1. sync' \in SyncTypes
      BY <1>0, <1>3, GotoFields DEF Connected, Places
    <2>2. UNCHANGED <<retryTimers, lookups, traffic, others, device, hashes, app>>
      BY <1>3 DEF Connected
    <2> QED
      BY <1>0, <2>1, <2>2, StepTypes, TrafficAside
  <1>4. CASE GenerateHashes
    <2>1. PICK todo \in SUBSET Files, update \in BOOLEAN, g \in SUBSET Files :
              sync' = [sync EXCEPT
                       !.at = "send",
                       !.current = [f \in Files |-> IF f \in g THEN local[f] ELSE Unknown],
                       !.todo = todo, !.update = update,
                       !.modified = (todo # {} \/ update)]
      <3> DEFINE g == IF sync.kind = "full" THEN Files ELSE filesToSync
                 c == {f \in g : hashes[f] # local[f]}
                 t == IF sync.kind = "watch" \/ sync.force THEN g ELSE c
                 u == sync.kind = "watch" /\ withUpdate
      <3>1. sync' = [sync EXCEPT
                       !.at = "send",
                       !.current = [f \in Files |-> IF f \in g THEN local[f] ELSE Unknown],
                       !.todo = t, !.update = u, !.modified = (t # {} \/ u)]
        BY <1>4 DEF GenerateHashes
      <3>2. g \in SUBSET Files
        BY <1>0 DEF filesToSync, SyncTypes, Changes
      <3>3. t \in SUBSET Files /\ u \in BOOLEAN
        BY <3>2
      <3> HIDE DEF g, t, u
      <3> QED
        BY <3>1, <3>2, <3>3
    <2>2. sync' \in SyncTypes
      BY <1>0, <2>1 DEF SyncTypes, Versions
    <2>3. UNCHANGED <<toolVars, others, device, app>> /\ hashes' \in {hashes, NoHashes}
      BY <1>4 DEF GenerateHashes
    <2>4. hashes' \in [Files -> Versions \union {Unknown}]
      BY <1>0, <2>3 DEF NoHashes
    <2> QED
      BY <1>0, <2>2, <2>3, <2>4, StepTypes, TrafficAside
  <1>5. ASSUME NEW f \in Files, SendFile(f) PROVE OtherTypes'
    <2>1. sync' \in SyncTypes
      BY <1>0, <1>5 DEF SendFile, SyncTypes
    <2> DEFINE m == [kind |-> "file",
                     change |-> [NoChange EXCEPT !.file = f, !.version = local[f]]]
    <2>2. /\ UNCHANGED <<attempt, operation, report, others, deviceVars>>
          /\ written(m) \/ UNCHANGED stream
      BY <1>5 DEF SendFile, Send
    <2>3. m \in Messages
      BY <1>0, NoChangeType DEF Messages, Changes, Versions
    <2> HIDE DEF m
    <2>4. stream' \in Seq(Messages)
      BY <1>0, <2>2, <2>3, WrittenType DEF TrafficTypes
    <2>5. TrafficTypes'
      BY <1>0, <2>2, <2>4 DEF TrafficTypes
    <2> QED
      BY <1>0, <2>1, <2>2, <2>5, StepTypes
  <1>6. CASE SendUpdate
    <2>1. sync' \in SyncTypes
      BY <1>0, <1>6 DEF SendUpdate, SyncTypes
    <2> DEFINE m == [kind |-> "update", change |-> sync.change]
    <2>2. /\ UNCHANGED <<attempt, operation, report, others, deviceVars>>
          /\ written(m) \/ UNCHANGED stream
      BY <1>6 DEF SendUpdate, Send
    <2>3. m \in Messages
      BY <1>0 DEF Messages, SyncTypes
    <2> HIDE DEF m
    <2>4. stream' \in Seq(Messages)
      BY <1>0, <2>2, <2>3, WrittenType DEF TrafficTypes
    <2>5. TrafficTypes'
      BY <1>0, <2>2, <2>4 DEF TrafficTypes
    <2> QED
      BY <1>0, <2>1, <2>2, <2>5, StepTypes
  <1>7. CASE UpdateHashesOnDevice
    <2>1. /\ UNCHANGED <<toolVars, others, device, app>> /\ hashes' = sync.current
          /\ sync' = [sync EXCEPT !.at = "finalize", !.current = NoHashes, !.force = FALSE]
      BY <1>7 DEF UpdateHashesOnDevice
    <2>2. sync' \in SyncTypes /\ hashes' \in [Files -> Versions \union {Unknown}]
      BY <1>0, <2>1, NoSyncType DEF SyncTypes, NoHashes
    <2> QED
      BY <1>0, <2>1, <2>2, StepTypes, TrafficAside
  <1>8. CASE DoSync
    <2>1. UNCHANGED <<others, device, hashes, app>>
      BY <1>8 DEF DoSync
    <2>2. CASE sync.modified
      <3>1. sync' \in SyncTypes
        BY <1>0, <1>8, <2>2, GotoFields DEF DoSync, Places
      <3>2. /\ sendDoSyncOperation(UseHmr /\ sync.kind = "watch")
            /\ UNCHANGED <<attempt, report>>
        BY <1>8, <2>2 DEF DoSync
      <3>4. stream' \in Seq(Messages) /\ operation' \in OperationTypes
        <4>1. CASE ~hasConnection
          BY <4>1, <3>2, <1>0 DEF sendDoSyncOperation, NoOperation, OperationTypes, TrafficTypes
        <4>2. CASE hasConnection
          <5> DEFINE m == [kind |-> "sync", refresh |-> UseHmr /\ sync.kind = "watch"]
          <5>1. m \in Messages
            BY LiveSyncAssumption DEF Messages
          <5>2. written(m)
            BY <3>2, <4>2 DEF sendDoSyncOperation
          <5>3. operation' \in OperationTypes
            <6>1. operation' = [at |-> "pending", socket |-> socketConnection,
                                refresh |-> UseHmr /\ sync.kind = "watch"]
              BY <3>2, <4>2 DEF sendDoSyncOperation
            <6>2. socketConnection \in Sockets \union {NoSocket}
              BY DEF EarsInv
            <6> QED
              BY <6>1, <6>2, LiveSyncAssumption DEF OperationTypes
          <5> HIDE DEF m
          <5> QED
            BY <1>0, <5>1, <5>2, <5>3, WrittenType
        <4> QED
          BY <4>1, <4>2
      <3>5. TrafficTypes'
        BY <1>0, <3>2, <3>4 DEF TrafficTypes
      <3> QED
        BY <1>0, <2>1, <3>1, <3>5, StepTypes
    <2>3. CASE ~sync.modified
      <3>1. sync' = [sync EXCEPT !.at = synced, !.didRefresh = TRUE]
            /\ (UNCHANGED toolVars \/ end)
        BY <1>8, <2>3 DEF DoSync
      <3>2. sync' \in SyncTypes
        BY <1>0, <3>1 DEF SyncTypes, synced
      <3>3. TrafficTypes'
        <4>1. ASSUME end PROVE TrafficTypes'
          BY <1>0, <4>1, ClosedTraffic, RejectedType DEF end, TrafficTypes
        <4> QED
          BY <1>0, <3>1, <4>1, TrafficAside
      <3> QED
        BY <1>0, <2>1, <3>2, <3>3, StepTypes
    <2> QED
      BY <2>2, <2>3
  <1>9. CASE DoSyncEnds
    <2>1. UNCHANGED <<others, device, hashes, app>> /\ operation' = NoOperation
          /\ (closed \/ UNCHANGED <<attempt, stream, report>>)
      BY <1>9 DEF DoSyncEnds
    <2>2. sync' \in SyncTypes
      <3>1. CASE operation.at = "failed"
        BY <1>0, <1>9, <3>1, GotoFields DEF DoSyncEnds, Places
      <3>2. CASE operation.at # "failed"
        BY <1>0, <1>9, <3>2 DEF DoSyncEnds, synced, SyncTypes
      <3> QED
        BY <3>1, <3>2
    <2>3. NoOperation \in OperationTypes
      BY DEF NoOperation, OperationTypes
    <2>4. TrafficTypes'
      <3>1. ASSUME closed PROVE TrafficTypes'
        BY <1>0, <2>1, <2>3, <3>1, ClosedTraffic
      <3>2. ASSUME UNCHANGED <<attempt, stream, report>> PROVE TrafficTypes'
        BY <1>0, <2>1, <2>3, <3>2 DEF TrafficTypes
      <3> QED
        BY <2>1, <3>1, <3>2
    <2> QED
      BY <1>0, <2>1, <2>2, <2>4, StepTypes
  <1>10. CASE RefreshApplication
    <2>1. UNCHANGED <<toolVars, others, deviceVars>>
      BY <1>10 DEF RefreshApplication
    <2>2. sync' \in SyncTypes
      <3>1. CASE goto("stop") \/ goto("status")
        BY <1>0, <3>1, GotoFields DEF Places
      <3>2. CASE sync' = [sync EXCEPT !.at = "before", !.stage = "recover",
                                       !.allFiles = TRUE]
        BY <1>0, <3>2 DEF SyncTypes
      <3> QED
        BY <1>10, <3>1, <3>2 DEF RefreshApplication
    <2> QED
      BY <1>0, <2>1, <2>2, StepTypes, TrafficAside
  <1>11. CASE StopApplication
    <2>1. /\ UNCHANGED <<attempt, operation, report, others, device, hashes>>
          /\ stream' = <<>> /\ app' = [app EXCEPT !.runs = FALSE] /\ goto("start")
      BY <1>11 DEF StopApplication
    <2>2. stream' \in Seq(Messages)
      BY <2>1
    <2>3. sync' \in SyncTypes
      BY <1>0, <2>1, GotoFields DEF Places
    <2>4. TrafficTypes'
      BY <1>0, <2>1, <2>2 DEF TrafficTypes
    <2> QED
      BY <1>0, <2>1, <2>3, <2>4, StepTypes
  <1>12. CASE StartApplication
    <2>1. sync' \in SyncTypes
      BY <1>0, <1>12, GotoFields DEF StartApplication, Places
    <2>2. /\ UNCHANGED <<retryTimers, lookups, traffic, local, queue, hmrStatus, live,
                         kinds, device, hashes>>
          /\ app' \in {app, [runs |-> TRUE, code |-> device.files]}
          /\ excused' \in {excused, TRUE}
      BY <1>12 DEF StartApplication
    <2> QED
      BY <1>0, <2>1, <2>2, StepTypes, TrafficAside
  <1>13. CASE HmrStatusKnown
    <2>1. UNCHANGED <<toolVars, local, queue, live, kinds, excused, deviceVars>>
      BY <1>13 DEF HmrStatusKnown
    <2>2. sync' \in SyncTypes /\ hmrStatus' \in {hmrStatus, "none"}
      <3>1. CASE over
        BY <3>1, OverFields
      <3>2. CASE sync' = [sync EXCEPT !.at = "before", !.stage = "fallback",
                                    !.allFiles = TRUE] /\ UNCHANGED hmrStatus
        BY <1>0, <3>2 DEF SyncTypes
      <3> QED
        BY <1>13, <3>1, <3>2 DEF HmrStatusKnown
    <2> QED
      BY <1>0, <2>1, <2>2, StepTypes, TrafficAside
  <1>14. CASE SyncFails
    <2>1. /\ UNCHANGED <<retryTimers, lookups, operation, report, local, kinds>>
          /\ stream' \in {stream, <<>>}
          /\ live' \in {live, FALSE} /\ queue' \in {queue, <<>>} /\ excused' \in {excused, TRUE}
          /\ device' \in {device, [files |-> Base, update |-> NoChange]}
          /\ app' \in {app, [app EXCEPT !.runs = FALSE]}
          /\ hashes' \in {hashes, NoHashes, Base}
      BY <1>14 DEF SyncFails, installOnDevice, toolVars, toolState, attempt, traffic, deviceVars
    <2>2. sync' \in SyncTypes /\ hmrStatus' \in {hmrStatus, "none"}
      <3>1. CASE over
        BY <3>1, OverFields
      <3>2. CASE sync' = [sync EXCEPT !.at = "before", !.stage = "sync", !.todo = {},
                                    !.update = FALSE, !.secondTry = TRUE]
                 /\ UNCHANGED hmrStatus
        BY <1>0, <3>2 DEF SyncTypes
      <3> QED
        BY <1>14, <3>1, <3>2 DEF SyncFails
    <2>3. <<>> \in Seq(Changes) /\ <<>> \in Seq(Messages)
      OBVIOUS
    <2>4. queue' \in Seq(Changes)
      BY <1>0, <2>1, <2>3
    <2>5. TrafficTypes'
      BY <1>0, <2>1, <2>3 DEF TrafficTypes
    <2>6. hashes' \in [Files -> Versions \union {Unknown}]
      BY <1>0, <2>1 DEF NoHashes, Base, Versions
    <2>7. excused' \in BOOLEAN /\ live' \in BOOLEAN
      BY <1>0, <2>1
    <2> QED
      BY <1>0, <2>1, <2>2, <2>4, <2>5, <2>6, <2>7, StepTypes
  <1> QED
    BY <1>1, <1>2, <1>3, <1>4, <1>5, <1>6, <1>7, <1>8, <1>9, <1>10, <1>11, <1>12, <1>13,
       <1>14 DEF SyncStep

\* Every step keeps the types.
LEMMA TypesStep == SyncTypeInv /\ [Next]_vars => SyncTypeInv'
  <1> SUFFICES ASSUME SyncTypeInv, [Next]_vars PROVE SyncTypeInv'
    OBVIOUS
  <1>0. DeviceInv /\ TrafficTypes /\ OtherTypes
    BY DEF SyncTypeInv, OtherTypes
  <1>1. DeviceInv' /\ EarsInv'
    BY <1>0, DeviceStep, EarsStep
  <1> SUFFICES OtherTypes'
    BY <1>1 DEF SyncTypeInv, OtherTypes
  <1> DEFINE Far == UNCHANGED <<hostVars, deviceVars, excused>>
  <1>2. ASSUME Far, TrafficTypes' PROVE OtherTypes'
    BY <1>0, <1>2 DEF OtherTypes, HostTypes, DeviceTypes, hostVars, kinds, deviceVars
  <1>3. ASSUME NEW force \in BOOLEAN, SyncInitialData(force) PROVE OtherTypes'
    <2>1. /\ UNCHANGED <<toolState, local, queue, hmrStatus, kinds, deviceVars>>
          /\ live' = TRUE /\ excused' \in BOOLEAN
          /\ sync' = [NoSync EXCEPT !.at = "before", !.force = force]
      BY <1>3 DEF SyncInitialData
    <2>2. sync' \in SyncTypes
      BY <2>1, NoSyncType DEF SyncTypes
    <2> QED
      BY <1>0, <2>1, <2>2 DEF OtherTypes, HostTypes, DeviceTypes, TrafficTypes, toolState,
         attempt, traffic, kinds, deviceVars
  <1>4. ASSUME NEW s \in Sockets, Answered(s) PROVE OtherTypes'
    BY <1>0, <1>2, <1>4, AnswerTraffic DEF Answered
  <1>5. CASE ToolSteps
    <2>1. ToolStep /\ Far
      BY <1>5 DEF ToolSteps
    <2>2. TrafficTypes'
      BY <1>0, <2>1, ToolTraffic
    <2> QED
      BY <1>2, <2>1, <2>2
  <1>6. CASE UNCHANGED vars
    <2>1. Far /\ UNCHANGED <<retryTimers, lookups, operation, report, stream>>
      BY <1>6 DEF vars, toolVars, toolState, attempt, traffic
    <2>2. TrafficTypes'
      BY <1>0, <2>1, TrafficAside
    <2> QED
      BY <1>2, <2>1, <2>2
  <1>7. ASSUME NEW f \in Files, NEW hot \in BOOLEAN, FileChanges(f, hot) PROVE OtherTypes'
    BY <1>0, <1>7, FileChangesTypes
  <1>8. CASE AppTakesFile \/ AppSyncs \/ AppDies
    BY <1>0, <1>8, AppTypes
  <1>9. CASE SyncStep
    BY <1>0, <1>9, SyncTypesKept DEF SyncTypeInv
  <1> QED
    BY <1>3, <1>4, <1>5, <1>6, <1>7, <1>8, <1>9 DEF Next

\* So they always hold.
LEMMA TypesHold == Spec => []SyncTypeInv
  BY TypesBegin, TypesStep, PTL DEF Spec

\* Values are of their types, and only the connection has the tool's listeners.
THEOREM TypeCorrect == Spec => []TypeOK
  <1>1. SyncTypeInv => TypeOK
    BY DEF SyncTypeInv, DeviceInv, ToolTypes, EarsInv, TrafficTypes, HostTypes, TypeOK
  <1> QED
    BY <1>1, TypesHold, PTL

(***************************************************************************)
(* What the application gets                                               *)
(***************************************************************************)
InQueue(f) == \E i \in 1 .. Len(queue) : queue[i].file = f

\* A version of a file that is the newest, or a newer one will be synced.
Sound(f, v) == v = local[f] \/ InQueue(f)

\* What the application runs, or would run when it was started.
Has(f) == IF app.runs THEN app.code[f] ELSE device.files[f]

\* The device has a version of the file that is not too old.
OnDevice(f) == Sound(f, device.files[f])

\* A change the developer made, of the kind webpack reports.
Known(change) ==
    /\ change.version <= local[change.file]
    /\ change.hot => UseHmr
    /\ webpack5 => change.hot = UseHmr

\* A file with a change in the queue has its newest one there.
QueueInv ==
    /\ \A i \in 1 .. Len(queue) :
          /\ Known(queue[i])
          /\ \/ queue[i].version = local[queue[i].file]
             \/ \E j \in i + 1 .. Len(queue) : queue[j].file = queue[i].file
    /\ ~live => queue = <<>>

synced_file == sync.change.file
Watching == sync.kind = "watch"
Hot == Watching /\ sync.change.hot

\* The files a sync gives to the device.
given == IF sync.kind = "full" THEN Files ELSE filesToSync

\* The kinds of syncs, and what is left to do at each place.
SyncInv ==
    /\ sync.at # "idle" => live
    /\ sync.at # "idle" /\ Watching =>
           /\ Known(sync.change) /\ Sound(synced_file, sync.change.version)
           /\ sync.change.hot \/ sync.allFiles
    /\ sync.stage # "sync" => Watching /\ sync.allFiles
    /\ sync.at \in {"finalize", "doSync"} => sync.todo = {}
    /\ sync.update => sync.at \in {"send", "failed"} /\ Watching /\ withUpdate
    /\ sync.at \in {"send", "finalize"} /\ ~sync.modified =>
           sync.kind = "full" /\ sync.todo = {}
    /\ sync.at = "start" => ~app.runs

\* Nothing is newer than what the developer wrote.
Bounds ==
    /\ \A f \in Files : device.files[f] <= local[f] /\ app.code[f] <= local[f]
    /\ device.update.version <= local[device.update.file]

\* The connection does not carry anything any more.
Broken == ~hasConnection \/ sock[socketConnection].at # "open"

\* What is written is of this sync: its files as they are, its hot update, and
\* the do-sync operation, which comes last and which a report answers.
StreamInv ==
    /\ stream # <<>> =>
           sync.at \in {"send", "finalize", "doSync"} /\ sync.modified /\ ~Broken
    /\ \A i \in 1 .. Len(stream) :
          /\ stream[i].kind = "sync" => i = Len(stream) /\ sync.at = "doSync"
          /\ stream[i].kind = "file" =>
                /\ stream[i].change.version <= local[stream[i].change.file]
                /\ Sound(stream[i].change.file, stream[i].change.version)
          /\ stream[i].kind = "update" =>
                stream[i].change = sync.change /\ Watching /\ withUpdate
    /\ sync.at = "doSync" /\ stream # <<>> =>
           /\ stream[Len(stream)].kind = "sync"
           /\ stream[Len(stream)].refresh => Watching
           /\ operation.at = "pending" /\ report = "none"
    /\ report # "none" => operation.at = "pending"
    /\ operation.at # "none" <=> sync.at = "doSync"
    /\ operation.at = "pending" => operation.socket = socketConnection

\* A file, or the hot update, is on its way.
FileInStream(f) ==
    \E i \in 1 .. Len(stream) : stream[i].kind = "file" /\ stream[i].change.file = f
UpdateInStream == \E i \in 1 .. Len(stream) : stream[i].kind = "update"

\* The application has taken what was written, and perhaps refreshed.
Taken ==
    report \in {"refreshed", "notRefreshed"} \/ operation.at \in {"refreshed", "notRefreshed"}
Refreshed == report = "refreshed" \/ operation.at = "refreshed"

\* What is given is still to send, on its way or there, or the sync will fail.
SendInv ==
    /\ sync.at \in {"send", "finalize", "doSync"} =>
          /\ \A f \in given : f \in sync.todo \/ Broken \/ FileInStream(f) \/ OnDevice(f)
          /\ /\ Watching /\ withUpdate
             /\ report = "none" /\ operation.at \in {"none", "pending"}
             => sync.update \/ Broken \/ UpdateInStream \/ device.update = sync.change
    /\ sync.at \in {"send", "finalize"} /\ ~sync.modified => \A f \in Files : OnDevice(f)
    /\ Taken => \A f \in given : OnDevice(f)

\* The hashes that the first sync reads are those of the files.
HashInv ==
    sync.kind = "full" /\ sync.at \in {"before", "connect", "hash"} =>
        \A f \in Files : hashes[f] \in {Unknown, device.files[f]}

\* A hot update is applied once.  A second sync of all files follows one that
\* went wrong.
UpdateInv ==
    /\ Watching /\ (Taken \/ sync.at \in {"refresh", "stop", "start", "reconnect", "status"})
        => device.update = NoChange
    /\ Hot /\ ~webpack5 /\ sync.allFiles /\ sync.stage # "recover"
        => hmrStatus = "error" /\ device.update = NoChange

\* Where a sync has not yet transferred everything.
Transfer == {"before", "connect", "hash", "send", "finalize", "doSync", "failed"}

\* Whether the application may lack what is synced.
Behind(f) ==
    \/ sync.kind = "full" /\ sync.at \in Transfer \union {"refresh", "stop"}
    \/ Watching /\ f = synced_file /\ sync.at \in Transfer \union {"refresh", "stop"}
    \/ /\ Watching /\ f = synced_file /\ sync.at = "status"
       /\ UseHmr /\ sync.stage = "sync" /\ hmrStatus = "error"

HasInv ==
    /\ \A f \in Files : Behind(f) \/ Sound(f, Has(f))
    /\ /\ Hot /\ sync.stage = "sync"
       /\ Refreshed \/ (sync.at = "refresh" /\ sync.didRefresh)
       => Sound(synced_file, Has(synced_file)) \/ hmrStatus = "error"

\* A restart is for files that are on the device.
WillStop ==
    \/ sync.at = "stop"
    \/ sync.at = "refresh" /\ (~Hot \/ sync.stage = "fallback")

StopInv == WillStop => \A f \in Files : OnDevice(f)

\* Without chunks to fall back on, the device has all files all the time.
DevInv ==
    webpack5 \/ ~UseHmr => \A f \in Files :
        \/ sync.at \in Transfer /\ (sync.kind = "full" \/ f = synced_file)
        \/ OnDevice(f)

\* What holds in LiveSync as long as nothing excuses an old application.
Delivering == SendInv /\ HashInv /\ UpdateInv /\ HasInv /\ StopInv /\ DevInv

DeliverInv ==
    /\ QueueInv /\ SyncInv /\ Bounds /\ StreamInv
    /\ live /\ ~excused => Delivering

\* Nothing is synced at first, and the first sync is of everything.
LEMMA DeliverBegins == Init => DeliverInv
  <1> SUFFICES ASSUME Init PROVE DeliverInv
    OBVIOUS
  <1>1. PICK force \in BOOLEAN : sync = [NoSync EXCEPT !.at = "before", !.force = force]
    BY DEF Init
  <1>2. sync.at = "before" /\ sync.kind = "full" /\ sync.stage = "sync" /\ ~sync.update
    BY <1>1 DEF NoSync
  <1>3. /\ queue = <<>> /\ live /\ stream = <<>> /\ report = "none" /\ operation.at = "none"
        /\ app = [runs |-> FALSE, code |-> Base]
        /\ device = [files |-> Base, update |-> NoChange]
        /\ hashes \in {NoHashes, Base} /\ local \in [Files -> {0, 1}]
    BY DEF Init, ToolInit, NoOperation
  <1>4. QueueInv
    BY <1>3 DEF QueueInv
  <1>5. SyncInv
    BY <1>2, <1>3 DEF SyncInv, Watching
  <1>6. Bounds
    BY <1>3, LiveSyncAssumption DEF Bounds, Base, NoChange
  <1>7. StreamInv
    BY <1>2, <1>3 DEF StreamInv
  <1>8. SendInv /\ UpdateInv
    BY <1>2, <1>3 DEF SendInv, UpdateInv, Taken, Watching, Hot
  <1>9. HashInv
    BY <1>3 DEF HashInv, NoHashes, Base
  <1>10. HasInv /\ StopInv /\ DevInv
    BY <1>2 DEF HasInv, StopInv, DevInv, WillStop, Behind, Hot, Watching, Transfer
  <1> QED
    BY <1>4, <1>5, <1>6, <1>7, <1>8, <1>9, <1>10 DEF DeliverInv, Delivering

(***************************************************************************)
(* The connection                                                          *)
(***************************************************************************)
\* What holds of the files alone holds when nothing happens to them.
LEMMA FilesAside ==
    ASSUME UNCHANGED <<local, queue, sync, live, webpack5, device, hashes, app, hmrStatus>>
    PROVE  /\ QueueInv => QueueInv'
           /\ SyncInv => SyncInv'
           /\ Bounds => Bounds'
           /\ HashInv => HashInv'
           /\ StopInv => StopInv'
           /\ DevInv => DevInv'
           /\ given' = given /\ Watching' = Watching /\ withUpdate' = withUpdate
           /\ Hot' = Hot
           /\ \A f : OnDevice(f)' = OnDevice(f) /\ Has(f)' = Has(f) /\ Behind(f)' = Behind(f)
           /\ \A f, v : Sound(f, v)' = Sound(f, v)
  <1>1. \A f : InQueue(f)' = InQueue(f)
    BY DEF InQueue
  <1>2. /\ \A f, v : Sound(f, v)' = Sound(f, v)
        /\ \A f : OnDevice(f)' = OnDevice(f) /\ Has(f)' = Has(f)
    BY <1>1 DEF Sound, OnDevice, Has
  <1>3. given' = given /\ withUpdate' = withUpdate
        /\ Watching' = Watching /\ Hot' = Hot
    BY DEF given, filesToSync, withUpdate, Watching, Hot
  <1>4. \A f : Behind(f)' = Behind(f)
    BY DEF Behind, Watching, synced_file
  <1>5. /\ QueueInv => QueueInv'
        /\ Bounds => Bounds'
        /\ HashInv => HashInv'
    BY DEF QueueInv, Bounds, HashInv, Known
  <1>6. SyncInv => SyncInv'
    BY <1>2, <1>3 DEF SyncInv, Known, synced_file
  <1>7. StopInv => StopInv'
    BY <1>2, <1>3 DEF StopInv, WillStop
  <1>8. DevInv => DevInv'
    BY <1>2 DEF DevInv, synced_file
  <1> QED
    BY <1>2, <1>3, <1>4, <1>5, <1>6, <1>7, <1>8

\* What may happen to the connection while nothing happens to the files:
\* nothing, its end, a report that arrives, its beginning.
LinkAside ==
    /\ UNCHANGED <<stream, report, operation, socketConnection>>
    /\ hasConnection => sock'[socketConnection].at = sock[socketConnection].at
LinkEnds ==
    /\ stream' = <<>> /\ report' = "none" /\ socketConnection' = NoSocket
    /\ operation' = rejected(socketConnection)
LinkReports ==
    /\ report \in {"refreshed", "notRefreshed"} /\ report' = "none"
    /\ operation' = IF operation.at = "pending" THEN [operation EXCEPT !.at = report]
                    ELSE operation
    /\ UNCHANGED <<stream, socketConnection, sock>>
LinkBegins ==
    /\ sync.at \in {"connect", "reconnect"}
    /\ stream' = <<>> /\ report' = "none" /\ UNCHANGED operation

\* Whatever happens to the connection, the sync delivers or will fail.
LEMMA LinkKeeps ==
    ASSUME SyncTypeInv, DeliverInv, LinkAside \/ LinkEnds \/ LinkReports \/ LinkBegins,
           UNCHANGED <<local, queue, sync, live, webpack5, device, hashes, app, hmrStatus,
                       excused>>
    PROVE  DeliverInv'
  <1>0. /\ QueueInv /\ SyncInv /\ Bounds /\ StreamInv
        /\ (live /\ ~excused => Delivering)
        /\ stream \in Seq(Messages) /\ operation \in OperationTypes
    BY DEF DeliverInv, SyncTypeInv, TrafficTypes
  <1>1. QueueInv' /\ SyncInv' /\ Bounds'
    BY <1>0, FilesAside
  <1>2. HashInv /\ StopInv /\ DevInv => HashInv' /\ StopInv' /\ DevInv'
    BY FilesAside
  <1>3. /\ given' = given /\ Watching' = Watching /\ withUpdate' = withUpdate
        /\ Hot' = Hot
        /\ \A f : OnDevice(f)' = OnDevice(f) /\ Has(f)' = Has(f) /\ Behind(f)' = Behind(f)
        /\ \A f, v : Sound(f, v)' = Sound(f, v)
    BY FilesAside
  <1> DEFINE Rest == StreamInv' /\ (SendInv => SendInv') /\ (UpdateInv => UpdateInv')
                     /\ (HasInv => HasInv')
  <1> SUFFICES Rest
    BY <1>0, <1>1, <1>2 DEF DeliverInv, Delivering
  <1>4. CASE LinkAside
    <2>1. Broken' = Broken /\ Taken' = Taken /\ Refreshed' = Refreshed
          /\ (\A f : FileInStream(f)' = FileInStream(f)) /\ UpdateInStream' = UpdateInStream
      BY <1>4 DEF LinkAside, Broken, hasConnection, Taken, Refreshed, FileInStream,
                  UpdateInStream
    <2>2. StreamInv'
      BY <1>0, <1>3, <1>4, <2>1 DEF StreamInv, LinkAside
    <2>3. SendInv => SendInv'
      BY <1>3, <1>4, <2>1 DEF SendInv, LinkAside
    <2>4. (UpdateInv => UpdateInv') /\ (HasInv => HasInv')
      BY <1>3, <2>1 DEF UpdateInv, HasInv, synced_file
    <2> QED
      BY <2>2, <2>3, <2>4
  <1>5. CASE LinkEnds
    <2>1. Broken' /\ (Taken' => Taken) /\ (Refreshed' => Refreshed) /\ report' = "none"
          /\ operation'.at # "pending" /\ (operation'.at # "none" <=> operation.at # "none")
      BY <1>0, <1>5 DEF LinkEnds, Broken, hasConnection, Taken, Refreshed, rejected,
         StreamInv, OperationTypes
    <2>2. stream' = <<>> /\ Len(stream') = 0
      BY <1>5 DEF LinkEnds
    <2>3. StreamInv'
      BY <1>0, <2>1, <2>2 DEF StreamInv
    <2>4. SendInv => SendInv'
      BY <1>3, <2>1 DEF SendInv
    <2>5. (UpdateInv => UpdateInv') /\ (HasInv => HasInv')
      BY <1>3, <2>1 DEF UpdateInv, HasInv, synced_file
    <2> QED
      BY <2>3, <2>4, <2>5
  <1>6. CASE LinkReports
    <2>1. sync.at = "doSync" /\ stream = <<>>
      BY <1>0, <1>6 DEF StreamInv, LinkReports
    <2>2. /\ operation'.at \in {operation.at, report} /\ operation'.socket = operation.socket
          /\ operation'.at = "pending" => operation.at = "pending" /\ report' = report
      BY <1>0, <1>6 DEF LinkReports, OperationTypes
    <2>3. Broken' = Broken /\ (Taken' => Taken) /\ (Refreshed' => Refreshed) /\ Taken
          /\ (\A f : FileInStream(f)' = FileInStream(f)) /\ UpdateInStream' = UpdateInStream
      BY <1>6, <2>2 DEF LinkReports, Broken, hasConnection, Taken, Refreshed, FileInStream,
                  UpdateInStream
    <2>4. StreamInv'
      BY <1>0, <1>6, <2>1, <2>2 DEF StreamInv, LinkReports
    <2>5. SendInv => SendInv'
      <3>1. report' = "none" /\ operation'.at \notin {"none", "pending"}
        BY <1>0, <1>6, <2>1 DEF LinkReports, OperationTypes, StreamInv
      <3> QED
        BY <1>0, <1>3, <2>1, <2>3, <3>1 DEF SendInv, SyncInv
    <2>6. (UpdateInv => UpdateInv') /\ (HasInv => HasInv')
      BY <1>3, <2>3 DEF UpdateInv, HasInv, synced_file
    <2> QED
      BY <2>4, <2>5, <2>6
  <1>7. CASE LinkBegins
    <2>1. /\ sync'.at \in {"connect", "reconnect"} /\ report' = report /\ stream = <<>>
          /\ operation' = operation /\ operation.at = "none"
      BY <1>0, <1>7 DEF LinkBegins, StreamInv
    <2>2. Taken' = Taken /\ Refreshed' = Refreshed
      BY <2>1 DEF Taken, Refreshed
    <2>3. StreamInv'
      BY <1>0, <1>7, <2>1 DEF StreamInv, LinkBegins
    <2>4. SendInv => SendInv'
      BY <1>3, <2>1, <2>2 DEF SendInv
    <2>5. (UpdateInv => UpdateInv') /\ (HasInv => HasInv')
      BY <1>3, <2>2 DEF UpdateInv, HasInv, synced_file
    <2> QED
      BY <2>3, <2>4, <2>5
  <1> QED
    BY <1>4, <1>5, <1>6, <1>7

\* The steps of the connection are of these kinds.
LEMMA ToolLinks ==
    ASSUME SyncTypeInv, StreamInv, ToolStep
    PROVE  LinkAside \/ LinkEnds \/ LinkReports
  <1>0. ToolTypes /\ EarsInv /\ TrafficTypes
    BY DEF SyncTypeInv, DeviceInv
  <1>1. CASE PortForwarded
    <2>1. UNCHANGED <<stream, report, operation, socketConnection>>
      BY <1>1 DEF PortForwarded, traffic
    <2>2. UNCHANGED sock \/ tryConnect("ours", TRUE)
      BY <1>1 DEF PortForwarded
    <2> QED
      BY <1>0, <2>1, <2>2, TryConnectEars DEF LinkAside
  <1>2. ASSUME NEW whose \in {"ours", "stale"}, RetryFires(whose) PROVE LinkAside
    <2>1. /\ UNCHANGED <<stream, report, operation, socketConnection>>
          /\ tryConnect(whose, pending)
      BY <1>2 DEF RetryFires, traffic
    <2> QED
      BY <1>0, <2>1, TryConnectEars DEF LinkAside, ToolTypes
  <1>3. ASSUME NEW s \in Sockets, tryConnectAfterTimeout(s) PROVE LinkAside
    <2>1. /\ UNCHANGED <<stream, report, operation, socketConnection>>
          /\ sock' = [sock EXCEPT ![s] = Free] /\ sock[s].ears # "tool"
      BY <1>3 DEF tryConnectAfterTimeout, traffic
    <2>2. s # socketConnection
      BY <1>0, <2>1 DEF EarsInv
    <2>3. hasConnection => sock'[socketConnection] = sock[socketConnection]
      BY <1>0, <2>1, <2>2 DEF ToolTypes, EarsInv, hasConnection
    <2> QED
      BY <2>1, <2>3 DEF LinkAside
  <1>4. ASSUME NEW s \in Sockets, SocketCloses(s) PROVE LinkEnds
    BY <1>0, <1>4 DEF SocketCloses, handleSocketError, EarsInv, end, closed, LinkEnds
  <1>5. CASE ConnectTimesOut
    BY <1>5 DEF ConnectTimesOut, traffic, LinkAside
  <1>6. ASSUME NEW whose \in {"deciding", "moot"}, LookupAnswers(whose) PROVE LinkAside
    <2>1. UNCHANGED <<stream, report, operation, socketConnection>>
      BY <1>6 DEF LookupAnswers, traffic
    <2>2. ASSUME hasConnection PROVE sock'[socketConnection] = sock[socketConnection]
      <3>1. socketConnection \in Sockets /\ sock[socketConnection].ears = "tool"
        BY <1>0, <2>2 DEF EarsInv, hasConnection
      <3> QED
        BY <1>6, <3>1 DEF LookupAnswers
    <2> QED
      BY <2>1, <2>2 DEF LinkAside
  <1>7. CASE ReportArrives
    <2>1. CASE report = "error"
      BY <1>7, <2>1 DEF ReportArrives, handleSocketError, end, closed, LinkEnds
    <2>2. CASE report # "error"
      BY <1>0, <1>7, <2>2 DEF ReportArrives, LinkReports, TrafficTypes, Reports
    <2> QED
      BY <2>1, <2>2
  <1>8. CASE OperationTimesOut
    BY <1>8 DEF OperationTimesOut, StreamInv, handleSocketError, end, closed, LinkEnds
  <1> QED
    BY <1>1, <1>2, <1>3, <1>4, <1>5, <1>6, <1>7, <1>8 DEF ToolStep

\* A socket answers for the attempt under way, or for none.
LEMMA AnswerLinks ==
    ASSUME SyncTypeInv, NEW s \in Sockets, SocketAnswers(s)
    PROVE  LinkAside \/ LinkBegins
  <1>0. ToolTypes /\ ConnectInv /\ EarsInv
    BY DEF SyncTypeInv, DeviceInv
  <1>1. CASE sock[s].ears = "ours"
    <2>1. sync.at \in {"connect", "reconnect"}
      BY <1>0, <1>1 DEF ConnectInv
    <2> QED
      BY <1>1, <2>1 DEF SocketAnswers, LinkBegins
  <1>2. CASE sock[s].ears = "stale"
    <2>1. /\ UNCHANGED <<stream, report, operation, socketConnection>>
          /\ sock' = [sock EXCEPT ![s] = Free] /\ s # socketConnection
      BY <1>0, <1>2 DEF SocketAnswers, EarsInv
    <2> QED
      BY <1>0, <2>1 DEF LinkAside, ToolTypes, EarsInv, hasConnection
  <1> QED
    BY <1>1, <1>2 DEF SocketAnswers

\* The steps that are only of the connection.
LEMMA LinkSteps ==
    ASSUME SyncTypeInv, DeliverInv,
           \/ ToolSteps
           \/ \E s \in Sockets : Answered(s)
           \/ UNCHANGED vars
    PROVE  DeliverInv'
  <1>0. StreamInv
    BY DEF DeliverInv
  <1>1. UNCHANGED <<local, queue, sync, live, webpack5, device, hashes, app, hmrStatus,
                    excused>>
    BY DEF ToolSteps, Answered, vars, hostVars, kinds, deviceVars
  <1>2. LinkAside \/ LinkEnds \/ LinkReports \/ LinkBegins
    <2>1. CASE ToolSteps
      BY <1>0, <2>1, ToolLinks DEF ToolSteps
    <2>2. ASSUME NEW s \in Sockets, Answered(s) PROVE LinkAside \/ LinkBegins
      BY <2>2, AnswerLinks DEF Answered
    <2>3. CASE UNCHANGED vars
      BY <2>3 DEF LinkAside, vars, toolVars, toolState, traffic
    <2> QED
      BY <2>1, <2>2, <2>3
  <1> QED
    BY <1>1, <1>2, LinkKeeps

(***************************************************************************)
(* The steps of a sync                                                     *)
(***************************************************************************)
\* Nothing is on the connection but in between.
LEMMA AtRest ==
    ASSUME StreamInv, sync.at \notin {"send", "finalize", "doSync"}
    PROVE  stream = <<>> /\ report = "none" /\ operation.at = "none"
  BY DEF StreamInv

\* Without a transfer there is nothing to say of the connection.
LEMMA Quiet ==
    ASSUME stream' = <<>>, report' = "none", operation'.at = "none", sync'.at # "doSync"
    PROVE  /\ StreamInv' /\ ~Taken' /\ ~Refreshed'
           /\ sync'.at \notin {"send", "finalize"} => SendInv'
  <1>1. Len(stream') = 0
    OBVIOUS
  <1> QED
    BY <1>1 DEF StreamInv, Taken, Refreshed, SendInv

\* What holds of files and changes holds as long as neither changes.
LEMMA SoundAside ==
    ASSUME UNCHANGED <<local, queue>>
    PROVE  /\ \A f, v : Sound(f, v)' = Sound(f, v)
           /\ UNCHANGED webpack5 => \A c : Known(c)' = Known(c)
           /\ UNCHANGED <<webpack5, live>> /\ QueueInv => QueueInv'
           /\ UNCHANGED device => \A f : OnDevice(f)' = OnDevice(f)
           /\ UNCHANGED <<device, app>> => \A f : Has(f)' = Has(f)
           /\ UNCHANGED <<device, app>> /\ Bounds => Bounds'
  BY DEF InQueue, Sound, Known, QueueInv, OnDevice, Has, Bounds

\* A sync about the same change has the same to give.
LEMMA AimAside ==
    ASSUME UNCHANGED <<aim, webpack5>>
    PROVE  /\ Watching' = Watching /\ Hot' = Hot /\ withUpdate' = withUpdate
           /\ given' = given /\ synced_file' = synced_file /\ synced' = synced
  BY DEF aim, Watching, Hot, withUpdate, given, filesToSync, synced_file, synced

\* The device joins, and everything is new to it.
LEMMA InitialDelivers ==
    ASSUME DeliverInv, NEW force \in BOOLEAN, SyncInitialData(force)
    PROVE  DeliverInv'
  <1>0. QueueInv /\ Bounds /\ StreamInv
    BY DEF DeliverInv
  <1>1. /\ sync.at = "idle" /\ ~live /\ live'
        /\ sync'.at = "before" /\ sync'.kind = "full" /\ sync'.stage = "sync" /\ ~sync'.update
        /\ UNCHANGED <<toolState, local, queue, hmrStatus, kinds, deviceVars>>
        /\ excused' = \E f \in Files : hashes[f] \notin {Unknown, device.files[f]}
    BY DEF SyncInitialData, at, NoSync
  <1>2. queue = <<>> /\ queue' = <<>>
    BY <1>0, <1>1 DEF QueueInv
  <1>3. StreamInv' /\ SendInv' /\ ~Taken' /\ ~Refreshed'
    <2>1. stream = <<>> /\ report = "none" /\ operation.at = "none"
      BY <1>0, <1>1, AtRest
    <2> QED
      BY <1>1, <2>1, Quiet DEF toolState, traffic
  <1>4. QueueInv' /\ Bounds'
    <2>1. Len(queue') = 0
      BY <1>2
    <2>2. QueueInv'
      BY <1>1, <1>2, <2>1 DEF QueueInv
    <2> QED
      BY <1>0, <1>1, <2>2, SoundAside DEF deviceVars
  <1>5. SyncInv'
    BY <1>1 DEF SyncInv, Watching
  <1>6. ~excused' => HashInv'
    BY <1>1 DEF HashInv, deviceVars
  <1>7. UpdateInv' /\ HasInv' /\ StopInv' /\ DevInv'
    BY <1>1, <1>3 DEF UpdateInv, HasInv, StopInv, DevInv, Watching, Hot, Behind, WillStop,
                      Transfer
  <1> QED
    BY <1>3, <1>4, <1>5, <1>6, <1>7 DEF DeliverInv, Delivering

\* When the first change leaves the queue only its file is left.
LEMMA QueueShortens ==
    ASSUME queue \in Seq(Changes), queue # <<>>, queue' = Tail(queue),
           UNCHANGED <<local, webpack5, live>>, QueueInv,
           NEW change, change = Head(queue)
    PROVE  /\ QueueInv'
           /\ Known(change)' /\ Sound(change.file, change.version)'
           /\ \A f, v : Sound(f, v) /\ f # change.file => Sound(f, v)'
  <1>1. /\ change = queue[1] /\ Len(queue) \in Nat \ {0}
        /\ Len(queue') = Len(queue) - 1
        /\ \A i \in 1 .. Len(queue) - 1 : queue'[i] = queue[i + 1]
    BY Shortened
  <1>2. \A i \in 2 .. Len(queue) : i - 1 \in 1 .. Len(queue') /\ queue[i] = queue'[i - 1]
    BY <1>1
  <1>3. \A c : Known(c)' = Known(c)
    BY DEF Known
  <1>4. \A i \in 1 .. Len(queue) :
            /\ Known(queue[i])
            /\ \/ queue[i].version = local[queue[i].file]
               \/ \E j \in i + 1 .. Len(queue) : queue[j].file = queue[i].file
    BY DEF QueueInv
  <1>5. ASSUME NEW i \in 1 .. Len(queue')
        PROVE  /\ Known(queue[i])'
               /\ \/ queue'[i].version = local'[queue'[i].file]
                  \/ \E j \in i + 1 .. Len(queue') : queue'[j].file = queue'[i].file
    <2>1. i + 1 \in 1 .. Len(queue) /\ queue'[i] = queue[i + 1]
      BY <1>1
    <2>2. Known(queue[i])'
      BY <1>4, <2>1 DEF Known
    <2>3. ASSUME NEW j \in (i + 1) + 1 .. Len(queue), queue[j].file = queue[i + 1].file
          PROVE  \E k \in i + 1 .. Len(queue') : queue'[k].file = queue'[i].file
      <3>1. j - 1 \in i + 1 .. Len(queue') /\ queue'[j - 1] = queue[j]
        BY <1>1, <1>2
      <3> QED
        BY <2>1, <2>3, <3>1
    <2> QED
      BY <1>4, <2>1, <2>2, <2>3
  <1>6. QueueInv'
    BY <1>5 DEF QueueInv
  <1>7. \A f : InQueue(f) /\ f # change.file => InQueue(f)'
    <2>1. ASSUME NEW i \in 1 .. Len(queue), queue[i].file # change.file
          PROVE  \E j \in 1 .. Len(queue') : queue'[j].file = queue[i].file
      BY <1>1, <1>2, <2>1
    <2> QED
      BY <2>1 DEF InQueue
  <1>8. 1 \in 1 .. Len(queue)
    BY <1>1
  <1>9. Known(change)'
    BY <1>1, <1>3, <1>4, <1>8
  <1>10. Sound(change.file, change.version)'
    <2>1. ASSUME NEW j \in 1 + 1 .. Len(queue), queue[j].file = queue[1].file
          PROVE  InQueue(change.file)'
      <3>1. j - 1 \in 1 .. Len(queue') /\ queue'[j - 1] = queue[j]
        BY <1>2, <2>1
      <3> QED
        BY <1>1, <2>1, <3>1 DEF InQueue
    <2> QED
      BY <1>1, <1>4, <1>8, <2>1 DEF Sound
  <1> QED
    BY <1>6, <1>7, <1>9, <1>10 DEF Sound

\* The sync of the next change: its file is behind until it is synced.
LEMMA ChangedDelivers ==
    ASSUME SyncTypeInv, DeliverInv, SyncChangedData
    PROVE  DeliverInv'
  <1>0. QueueInv /\ Bounds /\ StreamInv /\ (live /\ ~excused => Delivering)
        /\ queue \in Seq(Changes)
    BY DEF DeliverInv, SyncTypeInv, HostTypes
  <1> DEFINE first == Head(queue)
  <1>1. /\ sync.at = "idle" /\ live /\ queue # <<>> /\ queue' = Tail(queue)
        /\ sync' = [NoSync EXCEPT !.at = "before", !.kind = "watch", !.change = first,
                              !.allFiles = ~first.hot]
        /\ UNCHANGED <<toolVars, local, live, kinds, deviceVars, excused>>
    BY DEF SyncChangedData, at
  <1>2. PICK change : change = first
    OBVIOUS
  <1>3. /\ sync'.at = "before" /\ sync'.kind = "watch" /\ sync'.change = change
        /\ sync'.allFiles = ~change.hot /\ sync'.stage = "sync" /\ ~sync'.update
    BY <1>1, <1>2 DEF NoSync
  <1>4. UNCHANGED <<local, live, webpack5, device, app, excused, stream, report, operation>>
    BY <1>1 DEF toolVars, toolState, traffic, kinds, deviceVars
  <1>5. /\ QueueInv' /\ Known(change)' /\ Sound(change.file, change.version)'
        /\ \A f, v : Sound(f, v) /\ f # change.file => Sound(f, v)'
    BY <1>0, <1>1, <1>2, <1>4, QueueShortens
  <1>6. StreamInv' /\ SendInv' /\ ~Taken' /\ ~Refreshed'
    <2>1. stream = <<>> /\ report = "none" /\ operation.at = "none"
      BY <1>0, <1>1, AtRest
    <2> QED
      BY <1>3, <1>4, <2>1, Quiet
  <1>7. SyncInv' /\ Bounds'
    <2>1. /\ Known(sync.change)' /\ Sound(synced_file, sync.change.version)'
          /\ sync'.change.hot \/ sync'.allFiles
      BY <1>3, <1>5 DEF Known, Sound, InQueue, synced_file
    <2>2. SyncInv'
      BY <1>1, <1>3, <1>4, <2>1 DEF SyncInv
    <2> QED
      BY <1>0, <1>4, <2>2 DEF Bounds
  <1>8. UpdateInv' /\ StopInv' /\ HashInv'
    BY <1>3, <1>6 DEF UpdateInv, StopInv, HashInv, WillStop, Hot
  <1>9. HasInv => HasInv'
    <2>1. \A f : ~Behind(f)
      BY <1>1 DEF Behind, Transfer
    <2>2. Behind(change.file)'
      BY <1>3 DEF Behind, Transfer, Watching, synced_file
    <2> QED
      BY <1>3, <1>4, <1>5, <1>6, <2>1, <2>2 DEF HasInv, Has
  <1>10. DevInv => DevInv'
    BY <1>1, <1>3, <1>4, <1>5 DEF DevInv, OnDevice, Transfer, synced_file
  <1> QED
    BY <1>0, <1>4, <1>5, <1>6, <1>7, <1>8, <1>9, <1>10 DEF DeliverInv, Delivering

\* Until something is written, and when a sync fails, it is about the same and
\* the device is as it was.
LEMMA NearDelivers ==
    ASSUME DeliverInv, sync.at \in Transfer, sync'.at \in {"connect", "hash", "failed"},
           sync'.at # "failed" => sync.at \in {"before", "connect"},
           stream' = <<>>, report' = "none", operation'.at = "none",
           UNCHANGED <<local, queue, live, webpack5, device, hashes, hmrStatus, excused,
                       aim, work>>,
           \A f : Has(f)' = Has(f), Bounds'
    PROVE  DeliverInv'
  <1>0. QueueInv /\ SyncInv /\ Bounds /\ (live /\ ~excused => Delivering)
    BY DEF DeliverInv
  <1>1. /\ UNCHANGED <<sync.kind, sync.change, sync.allFiles, sync.stage, sync.update>>
        /\ Watching' = Watching /\ Hot' = Hot /\ withUpdate' = withUpdate
        /\ synced_file' = synced_file
        /\ \A f : OnDevice(f)' = OnDevice(f)
        /\ \A f, v : Sound(f, v)' = Sound(f, v)
        /\ \A c : Known(c)' = Known(c)
    BY AimAside, SoundAside DEF aim, work
  <1>2. QueueInv' /\ StreamInv' /\ SendInv' /\ ~Taken' /\ ~Refreshed'
    BY <1>0, SoundAside, Quiet
  <1>3. SyncInv'
    <2>1. sync.at # "idle"
      BY DEF Transfer
    <2> QED
      BY <1>0, <1>1, <2>1 DEF SyncInv
  <1>4. HashInv => HashInv'
    BY <1>1 DEF HashInv
  <1>5. UpdateInv => UpdateInv'
    BY <1>1, <1>2 DEF UpdateInv
  <1>6. HasInv => HasInv'
    <2>1. \A f : Behind(f) => Behind(f)'
      BY <1>1 DEF Behind, Transfer
    <2> QED
      BY <1>1, <1>2, <2>1 DEF HasInv
  <1>7. StopInv' /\ (DevInv => DevInv')
    BY <1>1 DEF StopInv, WillStop, DevInv, Transfer
  <1> QED
    BY <1>0, <1>2, <1>3, <1>4, <1>5, <1>6, <1>7 DEF DeliverInv, Delivering

\* Starting the application gives it the files of the device.
LEMMA BeforeDelivers ==
    ASSUME SyncTypeInv, DeliverInv, BeforeLiveSyncAction
    PROVE  DeliverInv'
  <1>0. /\ sync.at = "before" /\ sync \in SyncTypes /\ Bounds /\ StreamInv
        /\ app \in [runs : BOOLEAN, code : [Files -> Nat]]
    BY DEF DeliverInv, SyncTypeInv, HostTypes, DeviceTypes, BeforeLiveSyncAction, at
  <1>1. sync'.at \in {"connect", "hash", "failed"} /\ UNCHANGED <<aim, work>>
    BY <1>0, GotoFields DEF BeforeLiveSyncAction, Places
  <1>2. /\ UNCHANGED <<stream, report, operation, local, queue, live, webpack5, device,
                       hashes, hmrStatus, excused>>
        /\ app' = app \/ (~app.runs /\ app' = [runs |-> TRUE, code |-> device.files])
    BY DEF BeforeLiveSyncAction, toolVars, toolState, traffic, others, kinds
  <1>3. stream = <<>> /\ report = "none" /\ operation.at = "none"
    BY <1>0, AtRest
  <1>4. (\A f : Has(f)' = Has(f)) /\ Bounds'
    BY <1>0, <1>2 DEF Has, Bounds
  <1> QED
    BY <1>0, <1>1, <1>2, <1>3, <1>4, NearDelivers DEF Transfer

\* connect() is over: on to the hashes, or to the status after a restart.
LEMMA ConnectedDelivers ==
    ASSUME SyncTypeInv, DeliverInv, Connected
    PROVE  DeliverInv'
  <1>0. /\ sync \in SyncTypes /\ QueueInv /\ SyncInv /\ Bounds /\ StreamInv
        /\ (live /\ ~excused => Delivering)
    BY DEF DeliverInv, SyncTypeInv, HostTypes
  <1>1. UNCHANGED <<stream, report, operation, local, queue, live, webpack5, device, app,
                    hashes, hmrStatus, excused>>
    BY DEF Connected, traffic, others, kinds
  <1>2. sync.at \in {"connect", "reconnect"}
    BY DEF Connected, at
  <1>3. stream = <<>> /\ report = "none" /\ operation.at = "none"
    BY <1>0, <1>2, AtRest
  <1>4. (\A f : Has(f)' = Has(f)) /\ Bounds' /\ QueueInv'
        /\ (\A f : OnDevice(f)' = OnDevice(f))
        /\ (\A f, v : Sound(f, v)' = Sound(f, v))
        /\ (\A c : Known(c)' = Known(c))
    BY <1>0, <1>1, SoundAside
  <1>5. CASE sync.at = "connect"
    <2>1. sync'.at \in {"hash", "failed"} /\ UNCHANGED <<aim, work>>
      BY <1>0, <1>5, GotoFields DEF Connected, at, Places
    <2> QED
      BY <1>1, <1>3, <1>4, <1>5, <2>1, NearDelivers DEF Transfer
  <1>6. CASE sync.at = "reconnect"
    <2>1. sync'.at = "status" /\ UNCHANGED <<aim, work>>
      BY <1>0, <1>6, GotoFields DEF Connected, at, Places
    <2>2. /\ UNCHANGED <<sync.kind, sync.change, sync.allFiles, sync.stage, sync.update>>
          /\ Watching' = Watching /\ Hot' = Hot /\ synced_file' = synced_file
      BY <1>1, <2>1, AimAside DEF aim, work
    <2>3. StreamInv' /\ SendInv' /\ ~Taken' /\ ~Refreshed'
      BY <1>1, <1>3, <2>1, Quiet
    <2>4. SyncInv'
      BY <1>0, <1>1, <1>4, <1>6, <2>1, <2>2 DEF SyncInv
    <2>5. HashInv' /\ StopInv' /\ (UpdateInv => UpdateInv')
      BY <1>1, <1>6, <2>1, <2>2, <2>3 DEF HashInv, StopInv, WillStop, UpdateInv
    <2>6. HasInv => HasInv'
      <3>1. \A f : ~Behind(f)
        BY <1>6 DEF Behind, Transfer
      <3> QED
        BY <1>4, <2>1, <2>3, <3>1 DEF HasInv
    <2>7. DevInv => DevInv'
      BY <1>1, <1>4, <1>6, <2>1 DEF DevInv, Transfer
    <2> QED
      BY <1>0, <1>1, <1>4, <2>3, <2>4, <2>5, <2>6, <2>7 DEF DeliverInv, Delivering
  <1> QED
    BY <1>2, <1>5, <1>6

\* What a sync is given is the files of the change, or all files.
LEMMA GivenFiles ==
    ASSUME sync \in SyncTypes
    PROVE  /\ given \subseteq Files
           /\ sync.allFiles \/ webpack5 => given # {} /\ (Watching => synced_file \in given)
           /\ sync.allFiles /\ UseHmr /\ ~webpack5 => given = Files
  BY LiveSyncAssumption DEF given, filesToSync, SyncTypes, Changes, synced_file, Watching

\* As long as a sync transfers, what it is for holds whatever it has sent.
LEMMA TransferAside ==
    ASSUME sync.at \in Transfer \ {"before", "connect"}, sync'.at \in {"send", "finalize", "doSync"},
           UNCHANGED <<aim, webpack5, local, queue, live, device, app, hmrStatus, excused>>,
           ~Taken', ~Refreshed'
    PROVE  /\ QueueInv => QueueInv'
           /\ Bounds => Bounds'
           /\ HashInv'
           /\ UpdateInv => UpdateInv'
           /\ HasInv => HasInv'
           /\ StopInv'
           /\ DevInv => DevInv'
  <1>1. /\ UNCHANGED <<sync.kind, sync.change, sync.allFiles, sync.stage>>
        /\ Watching' = Watching /\ Hot' = Hot /\ synced_file' = synced_file
        /\ \A f : OnDevice(f)' = OnDevice(f) /\ Has(f)' = Has(f)
        /\ \A f, v : Sound(f, v)' = Sound(f, v)
        /\ (QueueInv => QueueInv') /\ (Bounds => Bounds')
    BY AimAside, SoundAside DEF aim
  <1>2. HashInv' /\ StopInv' /\ (UpdateInv => UpdateInv')
    BY <1>1 DEF HashInv, StopInv, WillStop, UpdateInv
  <1>3. HasInv => HasInv'
    <2>1. \A f : Behind(f) => Behind(f)'
      BY <1>1 DEF Behind, Transfer
    <2> QED
      BY <1>1, <2>1 DEF HasInv
  <1>4. DevInv => DevInv'
    BY <1>1 DEF DevInv, Transfer
  <1> QED
    BY <1>1, <1>2, <1>3, <1>4

\* A file that is not to send has the hash it has on the device.
LEMMA GenerateDelivers ==
    ASSUME SyncTypeInv, DeliverInv, GenerateHashes
    PROVE  DeliverInv'
  <1>0. /\ QueueInv /\ SyncInv /\ Bounds /\ StreamInv /\ (live /\ ~excused => Delivering)
        /\ sync.at = "hash" /\ sync \in SyncTypes /\ local \in [Files -> Nat]
    BY DEF DeliverInv, SyncTypeInv, HostTypes, GenerateHashes, at
  <1>1. UNCHANGED <<stream, report, operation, local, queue, live, webpack5, device, app,
                    hmrStatus, excused>>
    BY DEF GenerateHashes, toolVars, toolState, traffic, others, kinds
  <1> DEFINE changed == {f \in given : hashes[f] # local[f]}
             todo == IF Watching \/ sync.force THEN given ELSE changed
             update == Watching /\ withUpdate
  <1>2. PICK current : sync' = [sync EXCEPT !.at = "send", !.current = current,
                  !.todo = todo, !.update = update, !.modified = (todo # {} \/ update)]
    BY DEF GenerateHashes, given, Watching
  <1>3. PICK t, u, m : t = todo /\ u = update /\ m = (todo # {} \/ update)
    OBVIOUS
  <1>4. /\ sync'.at = "send" /\ sync'.todo = t /\ sync'.update = u /\ sync'.modified = m
        /\ UNCHANGED aim
    <2>1. sync' = [sync EXCEPT !.at = "send", !.current = current,
                  !.todo = t, !.update = u, !.modified = m]
      BY <1>2, <1>3
    <2> QED
      BY <1>0, <2>1 DEF SyncTypes, aim
  <1>5. stream = <<>> /\ report = "none" /\ operation.at = "none"
    BY <1>0, AtRest
  <1>6. StreamInv' /\ ~Taken' /\ ~Refreshed'
    BY <1>1, <1>4, <1>5, Quiet
  <1>7. /\ given' = given /\ Watching' = Watching /\ withUpdate' = withUpdate
        /\ synced_file' = synced_file
        /\ UNCHANGED <<sync.kind, sync.change, sync.allFiles, sync.stage>>
        /\ \A f : OnDevice(f)' = OnDevice(f)
        /\ \A f, v : Sound(f, v)' = Sound(f, v)
        /\ \A c : Known(c)' = Known(c)
    BY <1>1, <1>4, AimAside, SoundAside DEF aim
  <1>8. live /\ ~excused => \A f \in given : f \in t \/ OnDevice(f)
    <2> SUFFICES ASSUME live, ~excused, NEW f \in given, f \notin todo PROVE OnDevice(f)
      BY <1>3
    <2>1. sync.kind = "full" /\ hashes[f] = local[f] /\ f \in Files
      BY <1>0, GivenFiles DEF SyncTypes, Watching
    <2>2. hashes[f] \in {Unknown, device.files[f]}
      BY <1>0, <2>1 DEF Delivering, HashInv
    <2>3. local[f] # Unknown
      BY <1>0, <2>1 DEF Unknown
    <2> QED
      BY <2>1, <2>2, <2>3 DEF OnDevice, Sound
  <1>9. Watching => m
    <2> SUFFICES ASSUME Watching PROVE todo # {} \/ update
      BY <1>3
    <2>1. sync.change.hot \/ sync.allFiles
      BY <1>0 DEF SyncInv
    <2>2. CASE sync.allFiles \/ webpack5
      BY <1>0, <2>2, GivenFiles
    <2>3. CASE ~(sync.allFiles \/ webpack5)
      BY <2>1, <2>3 DEF withUpdate
    <2> QED
      BY <2>2, <2>3
  <1>10. ~m => t = {}
    BY <1>3
  <1>11. SyncInv'
    BY <1>0, <1>1, <1>3, <1>4, <1>7, <1>9, <1>10 DEF SyncInv, Watching, SyncTypes
  <1>12. live /\ ~excused => SendInv'
    <2> SUFFICES ASSUME live, ~excused PROVE SendInv'
      OBVIOUS
    <2>1. ~m => sync.kind = "full" /\ given = Files /\ t = {}
      BY <1>0, <1>9, <1>10 DEF SyncTypes, Watching, given
    <2> QED
      BY <1>3, <1>4, <1>6, <1>7, <1>8, <2>1 DEF SendInv
  <1>13. sync.at \in Transfer \ {"before", "connect"}
    BY <1>0 DEF Transfer
  <1> QED
    BY <1>0, <1>1, <1>4, <1>6, <1>11, <1>12, <1>13, TransferAside
       DEF DeliverInv, Delivering

\* What is written comes last, or is lost with the connection.
LEMMA Writes ==
    ASSUME stream \in Seq(Messages), StreamInv, hasConnection, NEW message \in Messages,
           written(message), UNCHANGED <<socketConnection, sock>>
    PROVE  /\ Broken' = Broken
           /\ Broken => stream = <<>> /\ stream' = <<>> /\ Len(stream') = 0
           /\ ~Broken =>
                  /\ Len(stream) \in Nat /\ Len(stream') = Len(stream) + 1
                  /\ stream'[Len(stream')] = message
                  /\ \A i \in 1 .. Len(stream) :
                         i \in 1 .. Len(stream') /\ stream'[i] = stream[i]
  <1>1. Broken' = Broken
    BY DEF Broken, hasConnection
  <1>2. ASSUME Broken PROVE stream = <<>> /\ stream' = <<>> /\ Len(stream') = 0
    BY <1>2 DEF StreamInv, written, Broken
  <1>3. ASSUME ~Broken
        PROVE  /\ Len(stream) \in Nat /\ Len(stream') = Len(stream) + 1
               /\ stream'[Len(stream')] = message
               /\ \A i \in 1 .. Len(stream) :
                      i \in 1 .. Len(stream') /\ stream'[i] = stream[i]
    <2>1. stream' = Append(stream, message)
      BY <1>3 DEF written, Broken
    <2> QED
      BY <2>1, Appended
  <1> QED
    BY <1>1, <1>2, <1>3

\* A file or a hot update is sent.
LEMMA SentDelivers ==
    ASSUME SyncTypeInv, DeliverInv, sync.at = "send", sync'.at = "send", sync.modified,
           hasConnection, NEW message \in Messages, written(message),
           UNCHANGED <<socketConnection, sock, report, operation, local, queue, live, webpack5,
                       device, app, hmrStatus, excused, aim>>,
           sync'.modified, sync'.update => sync.update, sync'.todo \subseteq sync.todo,
           \/ message.kind = "file" /\ message.change.version = local[message.change.file]
              /\ message.change.file \in Files
           \/ message.kind = "update" /\ message.change = sync.change /\ Watching /\ withUpdate,
           \A f \in sync.todo \ sync'.todo : message.kind = "file" /\ message.change.file = f,
           sync.update /\ ~sync'.update => message.kind = "update"
    PROVE  DeliverInv'
  <1>0. /\ QueueInv /\ SyncInv /\ Bounds /\ StreamInv /\ (live /\ ~excused => Delivering)
        /\ sync \in SyncTypes /\ local \in [Files -> Nat] /\ stream \in Seq(Messages)
    BY DEF DeliverInv, SyncTypeInv, HostTypes, TrafficTypes
  <1>1. /\ Broken' = Broken
        /\ Broken => stream = <<>> /\ stream' = <<>> /\ Len(stream') = 0
        /\ ~Broken =>
               /\ Len(stream) \in Nat /\ Len(stream') = Len(stream) + 1
               /\ stream'[Len(stream')] = message
               /\ \A i \in 1 .. Len(stream) :
                      i \in 1 .. Len(stream') /\ stream'[i] = stream[i]
    BY <1>0, Writes
  <1>2. /\ given' = given /\ Watching' = Watching /\ withUpdate' = withUpdate
        /\ synced_file' = synced_file
        /\ UNCHANGED <<sync.kind, sync.change, sync.allFiles, sync.stage>>
        /\ \A f : OnDevice(f)' = OnDevice(f)
        /\ \A f, v : Sound(f, v)' = Sound(f, v)
        /\ \A c : Known(c)' = Known(c)
    BY AimAside, SoundAside DEF aim
  <1>3. report = "none" /\ operation.at = "none"
    BY <1>0 DEF StreamInv
  <1>4. ~Taken' /\ ~Refreshed'
    BY <1>3 DEF Taken, Refreshed
  <1>5. SyncInv'
    BY <1>0, <1>2 DEF SyncInv, SyncTypes
  <1>6. ASSUME ~Broken, NEW i \in 1 .. Len(stream')
        PROVE  /\ stream'[i].kind # "sync"
               /\ stream'[i].kind = "file" =>
                     /\ stream'[i].change.version <= local[stream'[i].change.file]
                     /\ Sound(stream[i].change.file, stream[i].change.version)'
               /\ stream'[i].kind = "update" =>
                     stream'[i].change = sync.change /\ Watching /\ withUpdate
    <2>1. CASE i \in 1 .. Len(stream)
      <3>1. stream'[i] = stream[i]
        BY <1>1, <1>6, <2>1
      <3> QED
        BY <1>0, <1>2, <2>1, <3>1 DEF StreamInv, Sound, InQueue
    <2>2. CASE i = Len(stream')
      <3>1. stream'[i] = message
        BY <1>1, <1>6, <2>2
      <3> QED
        BY <1>0, <3>1 DEF Sound, InQueue
    <2> QED
      BY <1>1, <1>6, <2>1, <2>2
  <1>7. StreamInv'
    <2>1. CASE Broken
      BY <1>0, <1>1, <1>3, <2>1 DEF StreamInv
    <2>2. CASE ~Broken
      BY <1>0, <1>1, <1>2, <1>3, <1>6, <2>2 DEF StreamInv
    <2> QED
      BY <2>1, <2>2
  <1>8. /\ \A f : FileInStream(f) => Broken \/ FileInStream(f)'
        /\ UpdateInStream => Broken \/ UpdateInStream'
        /\ message.kind = "file" => Broken \/ FileInStream(message.change.file)'
        /\ message.kind = "update" => Broken \/ UpdateInStream'
    <2>1. ~Broken => Len(stream') \in 1 .. Len(stream')
      BY <1>1
    <2> QED
      BY <1>1, <2>1 DEF FileInStream, UpdateInStream
  <1>9. SendInv => SendInv'
    BY <1>1, <1>2, <1>3, <1>4, <1>8 DEF SendInv
  <1> QED
    BY <1>0, <1>4, <1>5, <1>7, <1>9, TransferAside DEF DeliverInv, Delivering, Transfer

\* Without a connection a file is not sent, and the sync fails.
LEMMA UnsentDelivers ==
    ASSUME SyncTypeInv, DeliverInv, sync.at = "send", ~hasConnection,
           sync' = [sync EXCEPT !.at = "failed"],
           UNCHANGED <<stream, report, operation, local, queue, live, webpack5, device, app,
                       hashes, hmrStatus, excused>>
    PROVE  DeliverInv'
  <1>0. Bounds /\ StreamInv /\ sync \in SyncTypes
    BY DEF DeliverInv, SyncTypeInv, HostTypes
  <1>1. sync'.at = "failed" /\ UNCHANGED <<aim, work>>
    BY <1>0 DEF SyncTypes, aim, work
  <1>2. stream = <<>> /\ report = "none" /\ operation.at = "none"
    BY <1>0 DEF StreamInv, Broken
  <1>3. (\A f : Has(f)' = Has(f)) /\ Bounds'
    BY <1>0, SoundAside
  <1> QED
    BY <1>1, <1>2, <1>3, NearDelivers DEF Transfer

\* A file is sent as it is now.
LEMMA FileDelivers ==
    ASSUME SyncTypeInv, DeliverInv, NEW f \in Files, SendFile(f)
    PROVE  DeliverInv'
  <1>0. /\ SyncInv /\ sync.at = "send" /\ sync \in SyncTypes /\ local \in [Files -> Nat]
        /\ f \in sync.todo
    BY DEF DeliverInv, SyncTypeInv, HostTypes, SendFile, at
  <1>1. UNCHANGED <<socketConnection, sock, report, operation, local, queue, live, webpack5,
                    device, app, hashes, hmrStatus, excused>>
    BY DEF SendFile, Send, others, kinds, deviceVars
  <1>2. CASE ~hasConnection
    <2>1. sync' = [sync EXCEPT !.at = "failed"] /\ UNCHANGED stream
      BY <1>2 DEF SendFile, Send
    <2> QED
      BY <1>0, <1>1, <1>2, <2>1, UnsentDelivers
  <1>3. CASE hasConnection
    <2>1. PICK message :
              message = [kind |-> "file",
                         change |-> [NoChange EXCEPT !.file = f, !.version = local[f]]]
      OBVIOUS
    <2>2. sync' = [sync EXCEPT !.todo = @ \ {f}] /\ written(message)
      BY <1>3, <2>1 DEF SendFile, Send
    <2>3. /\ sync'.at = "send" /\ UNCHANGED aim /\ sync'.modified = sync.modified
          /\ sync'.update = sync.update /\ sync'.todo = sync.todo \ {f}
      BY <1>0, <2>2 DEF SyncTypes, aim
    <2>4. /\ message.change.file = f /\ message.change.version = local[f]
          /\ message.kind = "file" /\ message \in Messages
      BY <1>0, <2>1, NoChangeType DEF Changes, Messages, Versions
    <2>5. sync.modified
      BY <1>0 DEF SyncInv
    <2> QED
      BY <1>0, <1>1, <1>3, <2>2, <2>3, <2>4, <2>5, SentDelivers
  <1> QED
    BY <1>2, <1>3

\* The hot update is sent after the files.
LEMMA UpdateDelivers ==
    ASSUME SyncTypeInv, DeliverInv, SendUpdate
    PROVE  DeliverInv'
  <1>0. /\ SyncInv /\ sync.at = "send" /\ sync \in SyncTypes
        /\ sync.todo = {} /\ sync.update
    BY DEF DeliverInv, SyncTypeInv, HostTypes, SendUpdate, at
  <1>1. UNCHANGED <<socketConnection, sock, report, operation, local, queue, live, webpack5,
                    device, app, hashes, hmrStatus, excused>>
    BY DEF SendUpdate, Send, others, kinds, deviceVars
  <1>2. CASE ~hasConnection
    <2>1. sync' = [sync EXCEPT !.at = "failed"] /\ UNCHANGED stream
      BY <1>2 DEF SendUpdate, Send
    <2> QED
      BY <1>0, <1>1, <1>2, <2>1, UnsentDelivers
  <1>3. CASE hasConnection
    <2>1. PICK message : message = [kind |-> "update", change |-> sync.change]
      OBVIOUS
    <2>2. sync' = [sync EXCEPT !.update = FALSE] /\ written(message)
      BY <1>3, <2>1 DEF SendUpdate, Send
    <2>3. /\ sync'.at = "send" /\ UNCHANGED aim /\ sync'.modified = sync.modified
          /\ ~sync'.update /\ sync'.todo = sync.todo
      BY <1>0, <2>2 DEF SyncTypes, aim
    <2>4. message.change = sync.change /\ message.kind = "update" /\ message \in Messages
      BY <1>0, <2>1 DEF SyncTypes, Messages
    <2>5. sync.modified /\ Watching /\ withUpdate
      BY <1>0 DEF SyncInv, Watching
    <2> QED
      BY <1>0, <1>1, <1>3, <2>2, <2>3, <2>4, <2>5, SentDelivers
  <1> QED
    BY <1>2, <1>3

\* The file of hashes says nothing of what the sync still does.
LEMMA HashesDelivers ==
    ASSUME SyncTypeInv, DeliverInv, UpdateHashesOnDevice
    PROVE  DeliverInv'
  <1>0. /\ QueueInv /\ SyncInv /\ Bounds /\ StreamInv /\ (live /\ ~excused => Delivering)
        /\ sync.at = "send" /\ sync \in SyncTypes /\ sync.todo = {} /\ ~sync.update
    BY DEF DeliverInv, SyncTypeInv, HostTypes, UpdateHashesOnDevice, at
  <1>1. UNCHANGED <<socketConnection, sock, stream, report, operation, local, queue, live,
                    webpack5, device, app, hmrStatus, excused>>
    BY DEF UpdateHashesOnDevice, toolVars, toolState, traffic, others, kinds
  <1>2. sync'.at = "finalize" /\ UNCHANGED <<aim, work>>
    BY <1>0 DEF UpdateHashesOnDevice, SyncTypes, aim, work
  <1>3. /\ given' = given /\ Watching' = Watching /\ withUpdate' = withUpdate
        /\ synced_file' = synced_file
        /\ UNCHANGED <<sync.kind, sync.change, sync.allFiles, sync.stage, sync.todo,
                       sync.update, sync.modified>>
        /\ \A f : OnDevice(f)' = OnDevice(f)
        /\ \A f, v : Sound(f, v)' = Sound(f, v)
        /\ \A c : Known(c)' = Known(c)
    BY <1>1, <1>2, AimAside, SoundAside DEF aim, work
  <1>4. /\ Broken' = Broken /\ Taken' = Taken /\ Refreshed' = Refreshed /\ ~Taken
        /\ ~Refreshed /\ UpdateInStream' = UpdateInStream
        /\ \A f : FileInStream(f)' = FileInStream(f)
    BY <1>0, <1>1 DEF Broken, hasConnection, Taken, Refreshed, UpdateInStream, FileInStream,
                      StreamInv
  <1>5. SyncInv'
    BY <1>0, <1>1, <1>2, <1>3 DEF SyncInv
  <1>6. StreamInv'
    BY <1>0, <1>1, <1>2, <1>3, <1>4 DEF StreamInv
  <1>7. SendInv => SendInv'
    BY <1>0, <1>1, <1>2, <1>3, <1>4 DEF SendInv
  <1> QED
    BY <1>0, <1>1, <1>2, <1>4, <1>5, <1>6, <1>7, TransferAside
       DEF DeliverInv, Delivering, Transfer

\* A sync that has files to sync asks the application to take them.
LEMMA AskDelivers ==
    ASSUME SyncTypeInv, DeliverInv, DoSync, sync.modified
    PROVE  DeliverInv'
  <1>0. /\ QueueInv /\ SyncInv /\ Bounds /\ StreamInv /\ (live /\ ~excused => Delivering)
        /\ sync.at = "finalize" /\ sync \in SyncTypes /\ stream \in Seq(Messages)
    BY DEF DeliverInv, SyncTypeInv, HostTypes, TrafficTypes, DoSync, at
  <1>1. UNCHANGED <<socketConnection, sock, report, local, queue, live,
                    webpack5, device, app, hmrStatus, excused>>
    BY DEF DoSync, others, kinds
  <1>2. sync'.at = "doSync" /\ UNCHANGED <<aim, work>>
    BY <1>0, GotoFields DEF DoSync, Places
  <1>3. /\ given' = given /\ Watching' = Watching /\ withUpdate' = withUpdate
        /\ synced_file' = synced_file
        /\ UNCHANGED <<sync.kind, sync.change, sync.allFiles, sync.stage, sync.todo,
                       sync.update, sync.modified>>
        /\ \A f : OnDevice(f)' = OnDevice(f)
        /\ \A f, v : Sound(f, v)' = Sound(f, v)
        /\ \A c : Known(c)' = Known(c)
    BY <1>1, <1>2, AimAside, SoundAside DEF aim, work
  <1>4. report = "none" /\ operation.at = "none" /\ Broken' = Broken
    BY <1>0, <1>1 DEF StreamInv, Broken, hasConnection
  <1>5. SyncInv'
    BY <1>0, <1>1, <1>2, <1>3 DEF SyncInv
  <1> SUFFICES StreamInv' /\ (SendInv => SendInv') /\ ~Taken' /\ ~Refreshed'
    BY <1>0, <1>1, <1>2, <1>5, TransferAside DEF DeliverInv, Delivering, Transfer
  <1>6. CASE ~hasConnection
    <2>1. Broken /\ stream = <<>> /\ stream' = <<>> /\ operation'.at = "failed"
      BY <1>0, <1>6 DEF DoSync, sendDoSyncOperation, NoOperation, Broken, StreamInv
    <2>2. Len(stream') = 0
      BY <2>1
    <2>3. StreamInv' /\ ~Taken' /\ ~Refreshed'
      BY <1>1, <1>2, <1>4, <2>1, <2>2 DEF StreamInv, Taken, Refreshed
    <2>4. SendInv => SendInv'
      BY <1>2, <1>4, <2>1, <2>3 DEF SendInv
    <2> QED
      BY <2>3, <2>4
  <1>7. CASE hasConnection
    <2>1. PICK message : message = [kind |-> "sync", refresh |-> UseHmr /\ sync.kind = "watch"]
      OBVIOUS
    <2>2. /\ operation' = [at |-> "pending", socket |-> socketConnection,
                           refresh |-> UseHmr /\ sync.kind = "watch"]
          /\ written(message)
      BY <1>7, <2>1 DEF DoSync, sendDoSyncOperation
    <2>3. /\ message \in Messages /\ message.kind = "sync" /\ (message.refresh => Watching)
          /\ operation'.at = "pending" /\ operation'.socket = socketConnection'
      BY <1>1, <2>1, <2>2, LiveSyncAssumption DEF Messages, Watching
    <2>4. /\ Broken => stream = <<>> /\ stream' = <<>> /\ Len(stream') = 0
          /\ ~Broken =>
                 /\ Len(stream) \in Nat /\ Len(stream') = Len(stream) + 1
                 /\ stream'[Len(stream')] = message
                 /\ \A i \in 1 .. Len(stream) :
                        i \in 1 .. Len(stream') /\ stream'[i] = stream[i]
      BY <1>0, <1>1, <1>7, <2>2, <2>3, Writes
    <2>5. ~Taken' /\ ~Refreshed'
      BY <1>1, <1>4, <2>3 DEF Taken, Refreshed
    <2>6. ASSUME ~Broken, NEW i \in 1 .. Len(stream')
          PROVE  /\ stream'[i].kind = "sync" => i = Len(stream')
                 /\ stream'[i].kind = "file" =>
                       /\ stream'[i].change.version <= local[stream'[i].change.file]
                       /\ Sound(stream[i].change.file, stream[i].change.version)'
                 /\ stream'[i].kind = "update" =>
                       stream'[i].change = sync.change /\ Watching /\ withUpdate
      <3>1. CASE i \in 1 .. Len(stream)
        <4>1. stream'[i] = stream[i]
          BY <2>4, <2>6, <3>1
        <4> QED
          BY <1>0, <1>1, <3>1, <4>1 DEF StreamInv, Sound, InQueue
      <3>2. CASE i = Len(stream')
        BY <2>3, <2>4, <2>6, <3>2
      <3> QED
        BY <2>4, <2>6, <3>1, <3>2
    <2>7. StreamInv'
      <3>1. CASE Broken
        BY <1>1, <1>2, <1>4, <2>3, <2>4, <3>1 DEF StreamInv
      <3>2. CASE ~Broken
        BY <1>1, <1>2, <1>3, <1>4, <2>3, <2>4, <2>6, <3>2 DEF StreamInv
      <3> QED
        BY <3>1, <3>2
    <2>8. /\ \A f : FileInStream(f) => Broken \/ FileInStream(f)'
          /\ UpdateInStream => Broken \/ UpdateInStream'
      BY <2>4 DEF FileInStream, UpdateInStream
    <2>9. SendInv => SendInv'
      <3> SUFFICES ASSUME SendInv PROVE SendInv'
        OBVIOUS
      <3>1. \A f \in given :
                f \in sync.todo \/ Broken \/ FileInStream(f)' \/ OnDevice(f)
        BY <1>0, <2>8 DEF SendInv
      <3>2. Watching /\ withUpdate =>
                sync.update \/ Broken \/ UpdateInStream' \/ device.update = sync.change
        BY <1>0, <1>4, <2>8 DEF SendInv
      <3> QED
        BY <1>1, <1>2, <1>3, <1>4, <2>5, <3>1, <3>2 DEF SendInv
    <2> QED
      BY <2>5, <2>7, <2>9
  <1> QED
    BY <1>6, <1>7

\* When a transfer is over what was given is on the device, and all files are
\* that a restart will run.
LEMMA AllOnDevice ==
    ASSUME sync \in SyncTypes, SyncInv, DevInv, sync.at \in Transfer,
           \A f \in given : OnDevice(f)
    PROVE  /\ ~Hot \/ sync.stage # "sync" => \A f \in Files : OnDevice(f)
           /\ webpack5 \/ ~UseHmr => \A f \in Files : OnDevice(f)
  <1>1. CASE sync.kind = "full"
    BY <1>1 DEF given
  <1>2. CASE sync.kind # "full"
    <2>1. Watching /\ sync.at # "idle"
      BY <1>2 DEF SyncTypes, Watching, Transfer
    <2>2. sync.change.hot => UseHmr
      BY <2>1 DEF SyncInv, Known
    <2>3. sync.change.hot \/ sync.allFiles
      BY <2>1 DEF SyncInv
    <2>4. ~Hot \/ sync.stage # "sync" => sync.allFiles
      BY <2>1, <2>3 DEF SyncInv, Hot
    <2>5. ASSUME webpack5 \/ ~UseHmr, NEW f \in Files PROVE OnDevice(f)
      <3>1. synced_file \in given
        BY <2>1, <2>2, <2>3, <2>5, GivenFiles
      <3> QED
        BY <1>2, <2>5, <3>1 DEF DevInv
    <2>6. sync.allFiles /\ UseHmr /\ ~webpack5 => \A f \in Files : OnDevice(f)
      BY GivenFiles
    <2> QED
      BY <2>4, <2>5, <2>6
  <1> QED
    BY <1>1, <1>2

\* A transfer ends well: the sync goes on to refresh the application.
LEMMA TransferEnds ==
    ASSUME SyncTypeInv, DeliverInv, sync.at \in {"finalize", "doSync"}, sync'.at = synced,
           UNCHANGED <<aim, sync.update>>,
           UNCHANGED <<local, queue, live, webpack5, device, app, hmrStatus, excused>>,
           stream' = <<>>, report' = "none", operation'.at = "none",
           SendInv => \A f \in given : OnDevice(f),
           Watching => Taken /\ (sync'.didRefresh => Refreshed)
    PROVE  DeliverInv'
  <1>0. /\ QueueInv /\ SyncInv /\ Bounds /\ StreamInv /\ (live /\ ~excused => Delivering)
        /\ sync \in SyncTypes
    BY DEF DeliverInv, SyncTypeInv, HostTypes
  <1>1. /\ given' = given /\ Watching' = Watching /\ withUpdate' = withUpdate
        /\ synced_file' = synced_file /\ Hot' = Hot
        /\ UNCHANGED <<sync.kind, sync.change, sync.allFiles, sync.stage>>
        /\ \A f : OnDevice(f)' = OnDevice(f) /\ Has(f)' = Has(f)
        /\ \A f, v : Sound(f, v)' = Sound(f, v)
        /\ \A c : Known(c)' = Known(c)
        /\ QueueInv' /\ Bounds'
    BY <1>0, AimAside, SoundAside DEF aim
  <1>2. sync'.at \in {"refresh", "stop"} /\ (sync'.at = "stop" <=> sync.stage = "recover")
    BY DEF synced
  <1>3. StreamInv' /\ SendInv' /\ ~Taken' /\ ~Refreshed'
    BY <1>2, Quiet
  <1>4. SyncInv'
    BY <1>0, <1>1, <1>2 DEF SyncInv
  <1> SUFFICES ASSUME Delivering PROVE Delivering'
    BY <1>0, <1>1, <1>3, <1>4 DEF DeliverInv
  <1>5. SendInv /\ UpdateInv /\ HasInv /\ DevInv
    BY DEF Delivering
  <1>6. /\ ~Hot \/ sync.stage # "sync" => \A f \in Files : OnDevice(f)
        /\ webpack5 \/ ~UseHmr => \A f \in Files : OnDevice(f)
    BY <1>0, <1>5, AllOnDevice DEF Transfer
  <1>7. HashInv' /\ UpdateInv'
    BY <1>1, <1>2, <1>3, <1>5 DEF HashInv, UpdateInv
  <1>8. HasInv'
    <2>1. \A f : Behind(f) => Behind(f)'
      BY <1>1, <1>2 DEF Behind, Transfer
    <2> QED
      BY <1>1, <1>3, <1>5, <2>1 DEF HasInv, Hot
  <1>9. StopInv'
    BY <1>1, <1>2, <1>6 DEF StopInv, WillStop
  <1>10. DevInv'
    BY <1>1, <1>6 DEF DevInv
  <1> QED
    BY <1>3, <1>7, <1>8, <1>9, <1>10 DEF Delivering

\* A sync without files goes on at once: all files are on the device.
LEMMA DoSyncDelivers ==
    ASSUME SyncTypeInv, DeliverInv, DoSync
    PROVE  DeliverInv'
  <1>0. /\ QueueInv /\ SyncInv /\ Bounds /\ StreamInv
        /\ sync.at = "finalize" /\ sync \in SyncTypes
    BY DEF DeliverInv, SyncTypeInv, HostTypes, DoSync, at
  <1>1. CASE ~sync.modified
    <2>1. /\ sync' = [sync EXCEPT !.at = synced, !.didRefresh = TRUE]
          /\ UNCHANGED toolVars \/ end
          /\ UNCHANGED <<others, device, hashes, app>>
      BY <1>1 DEF DoSync
    <2>2. sync'.at = synced /\ UNCHANGED <<aim, sync.update>>
      BY <1>0, <2>1 DEF SyncTypes, aim
    <2>3. sync.kind = "full" /\ stream = <<>> /\ report = "none" /\ operation.at = "none"
      BY <1>0, <1>1 DEF SyncInv, StreamInv
    <2>4. stream' = <<>> /\ report' = "none" /\ operation'.at = "none"
      <3>1. CASE UNCHANGED toolVars
        BY <2>3, <3>1 DEF toolVars, toolState, traffic
      <3>2. CASE end
        BY <2>3, <3>2 DEF end, closed, rejected
      <3> QED
        BY <2>1, <3>1, <3>2
    <2>5. SendInv => \A f \in given : OnDevice(f)
      BY <1>0, <1>1, <2>3 DEF SendInv, given
    <2>6. ~Watching
      BY <2>3 DEF Watching
    <2> QED
      BY <1>0, <2>1, <2>2, <2>4, <2>5, <2>6, TransferEnds DEF others, kinds
  <1> QED
    BY <1>1, AskDelivers

\* The report says that all that was written has been taken.
LEMMA DoSyncEndsDelivers ==
    ASSUME SyncTypeInv, DeliverInv, DoSyncEnds
    PROVE  DeliverInv'
  <1>0. /\ QueueInv /\ SyncInv /\ Bounds /\ StreamInv
        /\ sync.at = "doSync" /\ sync \in SyncTypes
        /\ operation.at \in {"refreshed", "notRefreshed", "failed"}
    BY DEF DeliverInv, SyncTypeInv, HostTypes, DoSyncEnds, at
  <1>1. stream = <<>> /\ report = "none"
    BY <1>0 DEF StreamInv
  <1>2. stream' = <<>> /\ report' = "none" /\ operation'.at = "none"
    BY <1>1 DEF DoSyncEnds, closed, NoOperation
  <1>3. UNCHANGED <<local, queue, live, webpack5, device, hashes, app, hmrStatus, excused>>
    BY DEF DoSyncEnds, others, kinds
  <1>4. CASE operation.at = "failed"
    <2>1. sync'.at = "failed" /\ UNCHANGED <<aim, work>>
      BY <1>0, <1>4, GotoFields DEF DoSyncEnds, Places
    <2>2. (\A f : Has(f)' = Has(f)) /\ Bounds'
      BY <1>0, <1>3, SoundAside
    <2> QED
      BY <1>0, <1>2, <1>3, <2>1, <2>2, NearDelivers DEF Transfer
  <1>5. CASE operation.at # "failed"
    <2>1. sync' = [sync EXCEPT !.at = synced, !.didRefresh = (operation.at = "refreshed")]
      BY <1>5 DEF DoSyncEnds
    <2>2. /\ sync'.at = synced /\ UNCHANGED <<aim, sync.update>>
          /\ sync'.didRefresh => operation.at = "refreshed"
      BY <1>0, <2>1 DEF SyncTypes, aim
    <2>3. Taken /\ (sync'.didRefresh => Refreshed)
      BY <1>0, <1>5, <2>2 DEF Taken, Refreshed
    <2>4. SendInv => \A f \in given : OnDevice(f)
      BY <2>3 DEF SendInv
    <2> QED
      BY <1>0, <1>2, <1>3, <2>2, <2>3, <2>4, TransferEnds
  <1> QED
    BY <1>4, <1>5

\* What every step after the transfer starts from.
LEMMA AfterTransfer ==
    ASSUME SyncTypeInv, DeliverInv,
           sync.at \in {"refresh", "stop", "start", "status", "failed"}
    PROVE  /\ QueueInv /\ SyncInv /\ Bounds /\ StreamInv /\ (live /\ ~excused => Delivering)
           /\ sync \in SyncTypes /\ live
           /\ stream = <<>> /\ report = "none" /\ operation.at = "none"
           /\ ~Taken /\ ~Refreshed
  <1>1. QueueInv /\ SyncInv /\ Bounds /\ StreamInv /\ (live /\ ~excused => Delivering)
        /\ sync \in SyncTypes
    BY DEF DeliverInv, SyncTypeInv, HostTypes
  <1>2. stream = <<>> /\ report = "none" /\ operation.at = "none"
    BY <1>1, AtRest
  <1> QED
    BY <1>1, <1>2 DEF SyncInv, Taken, Refreshed

\* The changes, the connection and the files of the device are left alone.
Still == UNCHANGED <<local, queue, live, webpack5, device, report, operation>>

\* What holds after the transfer as long as no file changes.
LEMMA StillAside ==
    ASSUME Still, QueueInv, Bounds, stream' = <<>>, report = "none", operation.at = "none",
           sync'.at \notin {"send", "finalize", "doSync"},
           \A f \in Files : app'.code[f] \in {app.code[f], device.files[f]}
    PROVE  /\ QueueInv' /\ Bounds' /\ StreamInv' /\ SendInv' /\ ~Taken' /\ ~Refreshed'
           /\ \A f : OnDevice(f)' = OnDevice(f)
           /\ \A f, v : Sound(f, v)' = Sound(f, v)
           /\ \A c : Known(c)' = Known(c)
  <1>1. StreamInv' /\ SendInv' /\ ~Taken' /\ ~Refreshed'
    BY Quiet DEF Still
  <1>2. Bounds'
    BY DEF Still, Bounds
  <1> QED
    BY <1>1, <1>2, SoundAside DEF Still

\* A hot update that refreshed is applied or told; else all is synced.
LEMMA RefreshDelivers ==
    ASSUME SyncTypeInv, DeliverInv, RefreshApplication
    PROVE  DeliverInv'
  <1>0. sync.at = "refresh"
    BY DEF RefreshApplication, at
  <1>1. /\ QueueInv /\ SyncInv /\ Bounds /\ (live /\ ~excused => Delivering)
        /\ sync \in SyncTypes /\ live /\ ~Taken /\ ~Refreshed
        /\ stream = <<>> /\ report = "none" /\ operation.at = "none"
    BY <1>0, AfterTransfer
  <1>2. Still /\ UNCHANGED <<stream, app, hmrStatus, hashes, excused>>
    BY DEF RefreshApplication, Still, toolVars, toolState, traffic, others, kinds, deviceVars
  <1>3. CASE sync'.at \in {"stop", "status"} /\ UNCHANGED <<aim, work>>
             /\ (sync'.at = "stop" => ~Hot \/ sync.stage = "fallback")
             /\ (sync'.at = "status" => Hot /\ sync.stage = "sync" /\ sync.didRefresh)
    <2>1. /\ QueueInv' /\ Bounds' /\ StreamInv' /\ SendInv' /\ ~Taken' /\ ~Refreshed'
          /\ \A f : OnDevice(f)' = OnDevice(f)
          /\ \A f, v : Sound(f, v)' = Sound(f, v)
          /\ \A c : Known(c)' = Known(c)
      BY <1>1, <1>2, <1>3, StillAside
    <2>2. /\ Watching' = Watching /\ Hot' = Hot /\ withUpdate' = withUpdate
          /\ synced_file' = synced_file
          /\ UNCHANGED <<sync.kind, sync.change, sync.allFiles, sync.stage, sync.update>>
          /\ \A f : Has(f)' = Has(f)
      BY <1>2, <1>3, AimAside, SoundAside DEF Still, aim, work
    <2>3. SyncInv'
      BY <1>0, <1>1, <1>2, <1>3, <2>1, <2>2 DEF SyncInv, Still
    <2>4. HashInv' /\ (UpdateInv => UpdateInv') /\ (StopInv => StopInv') /\ (DevInv => DevInv')
      BY <1>0, <1>2, <1>3, <2>1, <2>2
         DEF HashInv, UpdateInv, StopInv, WillStop, DevInv, Transfer, Still
    <2>5. HasInv => HasInv'
      <3> SUFFICES ASSUME HasInv PROVE HasInv'
        OBVIOUS
      <3>1. CASE sync'.at = "stop"
        <4>1. \A f : Behind(f) => Behind(f)'
          BY <1>0, <2>2, <3>1 DEF Behind, Transfer
        <4> QED
          BY <2>1, <2>2, <3>1, <4>1 DEF HasInv
      <3>2. CASE sync'.at = "status"
        <4>1. Hot /\ sync.stage = "sync" /\ sync.didRefresh /\ UseHmr /\ Watching
          BY <1>0, <1>1, <1>3, <3>2 DEF SyncInv, Known, Hot
        <4>2. Sound(synced_file, Has(synced_file)) \/ hmrStatus = "error"
          BY <1>0, <4>1 DEF HasInv
        <4>3. hmrStatus = "error" => Behind(synced_file)'
          BY <1>2, <2>2, <3>2, <4>1 DEF Behind
        <4>4. \A f : Behind(f) => f = synced_file
          BY <4>1 DEF Behind, Watching
        <4> QED
          BY <2>1, <2>2, <3>2, <4>2, <4>3, <4>4 DEF HasInv
      <3> QED
        BY <1>3, <3>1, <3>2
    <2> QED
      BY <1>1, <1>2, <2>1, <2>3, <2>4, <2>5 DEF DeliverInv, Delivering, Still
  <1>4. CASE /\ Watching
             /\ sync' = [sync EXCEPT !.at = "before", !.stage = "recover", !.allFiles = TRUE]
    <2>1. /\ sync'.at = "before" /\ sync'.stage = "recover" /\ sync'.allFiles
          /\ UNCHANGED <<sync.kind, sync.change, sync.update>>
      BY <1>1, <1>4 DEF SyncTypes
    <2>2. /\ QueueInv' /\ Bounds' /\ StreamInv' /\ SendInv' /\ ~Taken' /\ ~Refreshed'
          /\ \A f : OnDevice(f)' = OnDevice(f)
          /\ \A f, v : Sound(f, v)' = Sound(f, v)
          /\ \A c : Known(c)' = Known(c)
      BY <1>1, <1>2, <2>1, StillAside
    <2>3. /\ Watching' /\ Hot' = Hot /\ synced_file' = synced_file
          /\ \A f : Has(f)' = Has(f)
      BY <1>2, <1>4, <2>1, SoundAside DEF Still, Watching, Hot, synced_file
    <2>4. SyncInv'
      BY <1>0, <1>1, <1>2, <1>4, <2>1, <2>2, <2>3 DEF SyncInv, Still
    <2>5. HashInv' /\ UpdateInv' /\ StopInv'
      BY <1>4, <2>1, <2>2, <2>3 DEF HashInv, UpdateInv, StopInv, WillStop, Watching
    <2>6. (HasInv => HasInv') /\ (DevInv => DevInv')
      <3>1. \A f : Behind(f) => Behind(f)'
        BY <1>0, <1>4, <2>1, <2>3 DEF Behind, Transfer, Watching
      <3> QED
        BY <1>0, <1>2, <2>1, <2>2, <2>3, <3>1 DEF HasInv, DevInv, Still, Transfer
    <2> QED
      BY <1>1, <1>2, <2>2, <2>4, <2>5, <2>6 DEF DeliverInv, Delivering, Still
  <1>5. CASE goto("stop") /\ (~Hot \/ sync.stage = "fallback")
    BY <1>1, <1>3, <1>5, GotoFields DEF Places
  <1>6. CASE goto("status") /\ Hot /\ sync.stage = "sync" /\ sync.didRefresh
    BY <1>1, <1>3, <1>6, GotoFields DEF Places
  <1> QED
    BY <1>1, <1>4, <1>5, <1>6 DEF RefreshApplication, Hot, Watching, SyncTypes

\* The application is stopped when all files are on the device.
LEMMA StopDelivers ==
    ASSUME SyncTypeInv, DeliverInv, StopApplication
    PROVE  DeliverInv'
  <1>0. sync.at = "stop"
    BY DEF StopApplication, at
  <1>1. /\ QueueInv /\ SyncInv /\ Bounds /\ (live /\ ~excused => Delivering)
        /\ sync \in SyncTypes /\ live /\ ~Taken /\ ~Refreshed
        /\ report = "none" /\ operation.at = "none"
        /\ app \in [runs : BOOLEAN, code : [Files -> Nat]]
    BY <1>0, AfterTransfer DEF SyncTypeInv, DeviceTypes
  <1>2. /\ Still /\ UNCHANGED <<hmrStatus, hashes, excused>> /\ stream' = <<>>
        /\ app' = [app EXCEPT !.runs = FALSE]
    BY DEF StopApplication, Still, others, kinds
  <1>3. ~app'.runs /\ app'.code = app.code
    BY <1>1, <1>2
  <1>4. sync'.at = "start" /\ UNCHANGED <<aim, work>>
    BY <1>1, GotoFields DEF StopApplication, Places
  <1>5. /\ QueueInv' /\ Bounds' /\ StreamInv' /\ SendInv' /\ ~Taken' /\ ~Refreshed'
        /\ \A f : OnDevice(f)' = OnDevice(f)
        /\ \A f, v : Sound(f, v)' = Sound(f, v)
        /\ \A c : Known(c)' = Known(c)
    BY <1>1, <1>2, <1>3, <1>4, StillAside
  <1>6. /\ Watching' = Watching /\ Hot' = Hot /\ synced_file' = synced_file
        /\ withUpdate' = withUpdate
        /\ UNCHANGED <<sync.kind, sync.change, sync.allFiles, sync.stage, sync.update>>
    BY <1>2, <1>4, AimAside DEF Still, aim, work
  <1>7. SyncInv'
    BY <1>0, <1>1, <1>2, <1>3, <1>4, <1>5, <1>6 DEF SyncInv, Still
  <1>8. HashInv' /\ (UpdateInv => UpdateInv') /\ StopInv' /\ (DevInv => DevInv')
    BY <1>0, <1>2, <1>4, <1>5, <1>6
       DEF HashInv, UpdateInv, StopInv, WillStop, DevInv, Transfer, Still
  <1>9. StopInv => HasInv'
    <2>1. StopInv => \A f \in Files : Sound(f, device.files[f])
      BY <1>0 DEF StopInv, WillStop, OnDevice
    <2>2. \A f : Has(f)' = device.files[f]
      BY <1>2, <1>3 DEF Has, Still
    <2> QED
      BY <1>4, <1>5, <2>1, <2>2 DEF HasInv
  <1> QED
    BY <1>1, <1>2, <1>5, <1>7, <1>8, <1>9 DEF DeliverInv, Delivering, Still

\* The application that starts has them.
LEMMA StartDelivers ==
    ASSUME SyncTypeInv, DeliverInv, StartApplication
    PROVE  DeliverInv'
  <1>0. sync.at = "start"
    BY DEF StartApplication, at
  <1>1. /\ QueueInv /\ SyncInv /\ Bounds /\ (live /\ ~excused => Delivering)
        /\ sync \in SyncTypes /\ live /\ ~Taken /\ ~Refreshed
        /\ stream = <<>> /\ report = "none" /\ operation.at = "none"
    BY <1>0, AfterTransfer
  <1>2. /\ Still /\ UNCHANGED <<hmrStatus, hashes, stream>>
        /\ \/ app' = [runs |-> TRUE, code |-> device.files] /\ UNCHANGED excused
           \/ UNCHANGED app /\ excused'
    BY DEF StartApplication, Still, kinds, traffic
  <1>3. sync'.at \in {"reconnect", "status"} /\ UNCHANGED <<aim, work>>
    BY <1>1, GotoFields DEF StartApplication, Places
  <1>4. \A f : app'.code[f] \in {app.code[f], device.files[f]}
    BY <1>2
  <1>5. /\ QueueInv' /\ Bounds' /\ StreamInv' /\ SendInv' /\ ~Taken' /\ ~Refreshed'
        /\ \A f : OnDevice(f)' = OnDevice(f)
        /\ \A f, v : Sound(f, v)' = Sound(f, v)
        /\ \A c : Known(c)' = Known(c)
    BY <1>1, <1>2, <1>3, <1>4, StillAside
  <1>6. /\ Watching' = Watching /\ Hot' = Hot /\ synced_file' = synced_file
        /\ withUpdate' = withUpdate
        /\ UNCHANGED <<sync.kind, sync.change, sync.allFiles, sync.stage, sync.update>>
    BY <1>2, <1>3, AimAside DEF Still, aim, work
  <1>7. SyncInv'
    BY <1>0, <1>1, <1>2, <1>3, <1>5, <1>6 DEF SyncInv, Still
  <1>8. HashInv' /\ (UpdateInv => UpdateInv') /\ StopInv' /\ (DevInv => DevInv')
    BY <1>0, <1>2, <1>3, <1>5, <1>6
       DEF HashInv, UpdateInv, StopInv, WillStop, DevInv, Transfer, Still
  <1>9. ~excused' => (HasInv => HasInv')
    <2> SUFFICES ASSUME ~excused', HasInv PROVE HasInv'
      OBVIOUS
    <2>1. ~app.runs
      BY <1>0, <1>1 DEF SyncInv
    <2>2. \A f : Has(f)' = Has(f)
      BY <1>2, <2>1 DEF Has, Still
    <2>3. \A f : ~Behind(f)
      BY <1>0 DEF Behind, Transfer
    <2> QED
      BY <1>3, <1>5, <2>2, <2>3 DEF HasInv
  <1> QED
    BY <1>1, <1>2, <1>5, <1>7, <1>8, <1>9 DEF DeliverInv, Delivering, Still

\* A sync is over unless the hot update is known to have failed.
LEMMA StatusDelivers ==
    ASSUME SyncTypeInv, DeliverInv, HmrStatusKnown
    PROVE  DeliverInv'
  <1>0. sync.at = "status"
    BY DEF HmrStatusKnown, at
  <1>1. /\ QueueInv /\ SyncInv /\ Bounds /\ (live /\ ~excused => Delivering)
        /\ sync \in SyncTypes /\ live /\ ~Taken /\ ~Refreshed
        /\ stream = <<>> /\ report = "none" /\ operation.at = "none"
    BY <1>0, AfterTransfer
  <1>2. Still /\ UNCHANGED <<stream, app, hashes, excused>>
    BY DEF HmrStatusKnown, Still, toolVars, toolState, traffic, kinds, deviceVars
  <1>3. ASSUME sync'.at \in {"before", "idle"}
        PROVE  /\ QueueInv' /\ Bounds' /\ StreamInv' /\ SendInv' /\ ~Taken' /\ ~Refreshed'
               /\ \A f : OnDevice(f)' = OnDevice(f) /\ Has(f)' = Has(f)
               /\ \A f, v : Sound(f, v)' = Sound(f, v)
               /\ \A c : Known(c)' = Known(c)
    BY <1>1, <1>2, <1>3, StillAside, SoundAside DEF Still
  <1>4. CASE Watching /\ UseHmr /\ sync.stage = "sync" /\ hmrStatus = "error"
    <2>1. /\ sync'.at = "before" /\ sync'.stage = "fallback" /\ sync'.allFiles
          /\ UNCHANGED <<sync.kind, sync.change, sync.update, hmrStatus>>
      BY <1>1, <1>4 DEF HmrStatusKnown, SyncTypes, Watching
    <2>2. Watching' /\ Hot' = Hot /\ synced_file' = synced_file
      BY <1>4, <2>1 DEF Watching, Hot, synced_file
    <2>3. SyncInv'
      BY <1>0, <1>1, <1>2, <1>3, <1>4, <2>1, <2>2 DEF SyncInv, Still
    <2>4. HashInv' /\ StopInv'
      BY <2>1, <2>2 DEF HashInv, StopInv, WillStop, Watching
    <2>5. UpdateInv => UpdateInv'
      BY <1>0, <1>2, <1>3, <1>4, <2>1 DEF UpdateInv, Still
    <2>6. (HasInv => HasInv') /\ (DevInv => DevInv')
      <3>1. \A f : Behind(f) => Behind(f)'
        BY <1>0, <1>4, <2>1, <2>2 DEF Behind, Transfer, Watching
      <3> QED
        BY <1>0, <1>2, <1>3, <2>1, <2>2, <3>1 DEF HasInv, DevInv, Still, Transfer
    <2> QED
      BY <1>1, <1>2, <1>3, <2>1, <2>3, <2>4, <2>5, <2>6 DEF DeliverInv, Delivering, Still
  <1>5. CASE ~(Watching /\ UseHmr /\ sync.stage = "sync" /\ hmrStatus = "error")
    <2>1. /\ sync'.at = "idle" /\ sync'.kind = "full" /\ sync'.stage = "sync"
          /\ ~sync'.update
      BY <1>5, OverFields DEF HmrStatusKnown, Watching, NoSync
    <2>2. SyncInv'
      BY <1>2, <2>1 DEF SyncInv, Still
    <2>3. HashInv' /\ StopInv' /\ UpdateInv' /\ (DevInv => DevInv')
      BY <1>0, <1>2, <1>3, <2>1
         DEF HashInv, StopInv, WillStop, UpdateInv, Watching, Hot, DevInv, Transfer, Still
    <2>4. HasInv => HasInv'
      <3>1. \A f : ~Behind(f)
        BY <1>0, <1>5 DEF Behind, Transfer
      <3> QED
        BY <1>3, <2>1, <3>1 DEF HasInv, Hot, Watching
    <2> QED
      BY <1>1, <1>2, <1>3, <2>1, <2>2, <2>3, <2>4 DEF DeliverInv, Delivering, Still
  <1> QED
    BY <1>4, <1>5

\* A sync that fails is told, tried again, or ends LiveSync.
LEMMA FailDelivers ==
    ASSUME SyncTypeInv, DeliverInv, SyncFails
    PROVE  DeliverInv'
  <1>0. sync.at = "failed"
    BY DEF SyncFails, at
  <1>1. /\ QueueInv /\ SyncInv /\ Bounds /\ (live /\ ~excused => Delivering)
        /\ sync \in SyncTypes /\ live /\ ~Taken /\ ~Refreshed
        /\ stream = <<>> /\ report = "none" /\ operation.at = "none"
    BY <1>0, AfterTransfer
  <1> DEFINE Left == UNCHANGED <<device, app, hashes>>
  <1>2. /\ UNCHANGED <<local, webpack5, report, operation>> /\ stream' = <<>>
        /\ Left \/ (installOnDevice /\ excused')
    BY <1>1 DEF SyncFails, installOnDevice, toolVars, toolState, traffic, kinds, deviceVars
  <1>3. ASSUME sync'.at \in {"before", "idle"}
        PROVE  /\ StreamInv' /\ SendInv' /\ ~Taken' /\ ~Refreshed'
               /\ Bounds'
    <2>1. ASSUME Left PROVE Bounds'
      BY <1>1, <1>2, <2>1 DEF Bounds
    <2>2. ASSUME installOnDevice PROVE Bounds'
      <3>1. /\ local \in [Files -> Nat] /\ app \in [runs : BOOLEAN, code : [Files -> Nat]]
            /\ NoChange.file \in Files /\ NoChange.version = 0
        BY NoChangeType DEF SyncTypeInv, HostTypes, DeviceTypes, Changes, NoChange
      <3>2. /\ device'.update = NoChange /\ \A f \in Files : device'.files[f] = 0
            /\ app'.code = app.code
        BY <2>2, <3>1 DEF installOnDevice, Base
      <3> QED
        BY <1>1, <1>2, <3>1, <3>2 DEF Bounds
    <2>3. operation'.at = "none"
      BY <1>1, <1>2
    <2>4. StreamInv' /\ SendInv' /\ ~Taken' /\ ~Refreshed'
      BY <1>1, <1>2, <1>3, <2>3, Quiet
    <2> QED
      BY <1>2, <2>1, <2>2, <2>4
  <1>4. CASE over /\ UNCHANGED queue /\ (UNCHANGED live /\ excused')
    <2>1. sync'.at = "idle" /\ sync'.kind = "full" /\ sync'.stage = "sync" /\ ~sync'.update
      BY <1>4, OverFields DEF NoSync
    <2>2. QueueInv' /\ SyncInv'
      BY <1>1, <1>2, <1>4, <2>1, SoundAside DEF SyncInv
    <2> QED
      BY <1>1, <1>3, <1>4, <2>1, <2>2 DEF DeliverInv
  <1>5. CASE over /\ queue' = <<>> /\ live' = FALSE
    <2>1. sync'.at = "idle" /\ sync'.kind = "full" /\ sync'.stage = "sync" /\ ~sync'.update
      BY <1>5, OverFields DEF NoSync
    <2>2. SyncInv'
      BY <2>1 DEF SyncInv
    <2>3. QueueInv'
      <3>1. Len(queue') = 0
        BY <1>5
      <3> QED
        BY <1>5, <3>1 DEF QueueInv
    <2> QED
      BY <1>1, <1>3, <1>5, <2>1, <2>2, <2>3 DEF DeliverInv
  <1>6. CASE /\ sync.stage # "recover" /\ UseHmr /\ Watching
             /\ sync' = [sync EXCEPT !.at = "before", !.stage = "sync", !.todo = {},
                                    !.update = FALSE, !.secondTry = TRUE]
             /\ UNCHANGED <<live, queue, hmrStatus>>
             /\ \/ Left /\ UNCHANGED excused
                \/ installOnDevice /\ excused'
    <2>1. /\ sync'.at = "before" /\ sync'.stage = "sync" /\ ~sync'.update
          /\ UNCHANGED <<sync.kind, sync.change, sync.allFiles>>
      BY <1>1, <1>6 DEF SyncTypes
    <2>2. Watching' /\ Hot' = Hot /\ synced_file' = synced_file
      BY <1>6, <2>1 DEF Watching, Hot, synced_file
    <2>3. /\ Left => \A f : OnDevice(f)' = OnDevice(f) /\ Has(f)' = Has(f)
          /\ \A f, v : Sound(f, v)' = Sound(f, v)
          /\ \A c : Known(c)' = Known(c)
          /\ QueueInv'
      BY <1>1, <1>2, <1>6, SoundAside
    <2>4. SyncInv'
      BY <1>0, <1>1, <1>2, <1>6, <2>1, <2>2, <2>3 DEF SyncInv
    <2> SUFFICES ASSUME ~excused' PROVE DeliverInv'
      BY <1>1, <1>3, <2>1, <2>3, <2>4 DEF DeliverInv
    <2>7. Left /\ ~excused
      BY <1>2, <1>6
    <2>5. HashInv' /\ StopInv' /\ (UpdateInv => UpdateInv')
      BY <1>2, <1>3, <1>6, <2>1, <2>2, <2>7 DEF HashInv, StopInv, WillStop, UpdateInv, Watching
    <2>6. (HasInv => HasInv') /\ (DevInv => DevInv')
      <3>1. \A f : Behind(f) => Behind(f)'
        BY <1>0, <1>6, <2>1, <2>2 DEF Behind, Transfer, Watching
      <3> QED
        BY <1>0, <1>2, <1>3, <2>1, <2>2, <2>3, <2>7, <3>1 DEF HasInv, DevInv, Transfer
    <2> QED
      BY <1>1, <1>3, <1>6, <2>1, <2>3, <2>4, <2>5, <2>6, <2>7 DEF DeliverInv, Delivering
  <1> QED
    BY <1>2, <1>4, <1>5, <1>6 DEF SyncFails, triesAgain, installOnDevice, Watching, deviceVars

(***************************************************************************)
(* The developer                                                           *)
(***************************************************************************)
\* A change of a file makes old what is there, and is in the queue for it.
LEMMA ChangeIsSound ==
    ASSUME SyncTypeInv, DeliverInv, NEW f \in Files, NEW hot \in BOOLEAN,
           FileChanges(f, hot)
    PROVE  /\ QueueInv'
           /\ \A g \in Files : local[g] <= local'[g]
           /\ live => \A v : \A g \in Files : Sound(g, v) => Sound(g, v)'
           /\ \A c \in Changes : Known(c) => Known(c)'
  <1>0. QueueInv /\ queue \in Seq(Changes) /\ local \in [Files -> Nat] /\ live \in BOOLEAN
    BY DEF DeliverInv, SyncTypeInv, HostTypes
  <1>1. /\ local' = [local EXCEPT ![f] = @ + 1] /\ UNCHANGED <<live, webpack5>>
        /\ IF webpack5 THEN hot = UseHmr ELSE hot => UseHmr
    BY DEF FileChanges, kinds
  <1>2. /\ local'[f] = local[f] + 1 /\ \A g \in Files : g # f => local'[g] = local[g]
        /\ \A g \in Files : local[g] <= local'[g]
    BY <1>0, <1>1
  <1>3. \A c \in Changes : Known(c) => Known(c)'
    <2>1. ASSUME NEW c \in Changes, Known(c) PROVE Known(c)'
      <3>1. c.file \in Files /\ c.version \in Nat /\ local[c.file] \in Nat
            /\ local'[c.file] \in Nat
        BY <1>0, <1>1 DEF Changes, Versions
      <3> QED
        BY <1>1, <1>2, <2>1, <3>1 DEF Known
    <2> QED
      BY <2>1
  <1>4. CASE ~live
    <2>1. queue' = <<>>
      BY <1>0, <1>4 DEF FileChanges, QueueInv
    <2>2. Len(queue') = 0
      BY <2>1
    <2>3. QueueInv'
      BY <2>1, <2>2 DEF QueueInv
    <2> QED
      BY <1>2, <1>3, <1>4, <2>3
  <1>5. CASE live
    <2>1. PICK change : change = [file |-> f, version |-> local[f] + 1, hot |-> hot]
      OBVIOUS
    <2>2. /\ change \in Changes /\ change.file = f /\ change.version = local'[f]
          /\ change.hot = hot /\ queue' = Append(queue, change)
      <3>1. queue' = Append(queue, change)
        BY <1>5, <2>1 DEF FileChanges
      <3>2. local'[f] \in Nat
        BY <1>0, <1>2
      <3> QED
        BY <1>2, <2>1, <3>1, <3>2 DEF Changes, Versions
    <2>3. /\ Len(queue') = Len(queue) + 1 /\ Len(queue) \in Nat
          /\ \A i \in 1 .. Len(queue) : queue'[i] = queue[i] /\ queue[i] \in Changes
          /\ queue'[Len(queue) + 1] = change
      BY <1>0, <2>2, Appended
    <2>4. \A g : InQueue(g) \/ g = f => InQueue(g)'
      <3>1. Len(queue) + 1 \in 1 .. Len(queue')
            /\ \A i \in 1 .. Len(queue) : i \in 1 .. Len(queue')
        BY <2>3
      <3> QED
        BY <2>2, <2>3, <3>1 DEF InQueue
    <2>5. \A v : \A g \in Files : Sound(g, v) => Sound(g, v)'
      BY <1>2, <2>4 DEF Sound
    <2>6. ASSUME NEW i \in 1 .. Len(queue')
          PROVE  /\ Known(queue[i])'
                 /\ \/ queue'[i].version = local'[queue'[i].file]
                    \/ \E j \in i + 1 .. Len(queue') : queue'[j].file = queue'[i].file
      <3>1. CASE i = Len(queue) + 1
        <4>1. local'[f] \in Nat
          BY <1>0, <1>2
        <4> QED
          BY <1>1, <2>2, <2>3, <3>1, <4>1 DEF Known
      <3>2. CASE i \in 1 .. Len(queue)
        <4>1. /\ queue'[i] = queue[i] /\ queue[i] \in Changes /\ queue[i].file \in Files
              /\ Known(queue[i])
              /\ \/ queue[i].version = local[queue[i].file]
                 \/ \E j \in i + 1 .. Len(queue) : queue[j].file = queue[i].file
          BY <1>0, <2>3, <3>2 DEF QueueInv, Changes
        <4>2. Known(queue[i])'
          BY <1>1, <1>2, <1>0, <4>1 DEF Known, Changes, Versions
        <4>3. CASE queue[i].file = f
          <5>1. Len(queue) + 1 \in i + 1 .. Len(queue')
            BY <2>3, <3>2
          <5> QED
            BY <2>2, <2>3, <4>1, <4>2, <4>3, <5>1
        <4>4. CASE queue[i].file # f /\ queue[i].version = local[queue[i].file]
          BY <1>2, <4>1, <4>2, <4>4
        <4>5. ASSUME NEW j \in i + 1 .. Len(queue), queue[j].file = queue[i].file
              PROVE  \E k \in i + 1 .. Len(queue') : queue'[k].file = queue'[i].file
          <5>1. j \in 1 .. Len(queue) /\ j \in i + 1 .. Len(queue')
            BY <2>3, <3>2, <4>5
          <5> QED
            BY <2>3, <4>1, <4>5, <5>1
        <4> QED
          BY <4>1, <4>2, <4>3, <4>4, <4>5
      <3> QED
        BY <2>3, <3>1, <3>2
    <2>7. QueueInv'
      BY <1>1, <1>5, <2>6 DEF QueueInv
    <2> QED
      BY <1>2, <1>3, <2>5, <2>7
  <1> QED
    BY <1>0, <1>4, <1>5

\* A change while a sync is under way makes no sync wrong.
LEMMA ChangeDelivers ==
    ASSUME SyncTypeInv, DeliverInv, NEW f \in Files, NEW hot \in BOOLEAN,
           FileChanges(f, hot)
    PROVE  DeliverInv'
  <1>0. /\ SyncInv /\ Bounds /\ StreamInv /\ (live /\ ~excused => Delivering)
        /\ sync \in SyncTypes /\ local \in [Files -> Nat] /\ local' \in [Files -> Nat]
        /\ stream \in Seq(Messages)
        /\ device \in [files : [Files -> Nat], update : Changes]
        /\ app \in [runs : BOOLEAN, code : [Files -> Nat]]
    <2>1. local' = [local EXCEPT ![f] = @ + 1] /\ local \in [Files -> Nat]
      BY DEF FileChanges, SyncTypeInv, HostTypes
    <2>2. local' \in [Files -> Nat]
      BY <2>1
    <2> QED
      BY <2>2 DEF DeliverInv, SyncTypeInv, HostTypes, TrafficTypes, DeviceTypes
  <1>1. UNCHANGED <<stream, report, operation, socketConnection, sock, hmrStatus, sync, live,
                    webpack5, device, app, hashes, excused>>
    BY DEF FileChanges, toolVars, toolState, traffic, kinds, deviceVars
  <1>2. /\ QueueInv'
        /\ \A g \in Files : local[g] <= local'[g]
        /\ live => \A v : \A g \in Files : Sound(g, v) => Sound(g, v)'
        /\ \A c \in Changes : Known(c) => Known(c)'
    BY ChangeIsSound
  <1>3. /\ given' = given /\ Watching' = Watching /\ withUpdate' = withUpdate
        /\ synced_file' = synced_file /\ Hot' = Hot
        /\ \A g : Has(g)' = Has(g) /\ Behind(g)' = Behind(g)
    BY <1>1 DEF given, filesToSync, Watching, withUpdate, synced_file, Hot, Has, Behind
  <1>4. /\ Broken' = Broken /\ Taken' = Taken /\ Refreshed' = Refreshed
        /\ UpdateInStream' = UpdateInStream
        /\ \A g : FileInStream(g)' = FileInStream(g)
    BY <1>1 DEF Broken, hasConnection, Taken, Refreshed, UpdateInStream, FileInStream
  <1>5. sync.change \in Changes /\ synced_file \in Files
    BY <1>0 DEF SyncTypes, synced_file, Changes
  <1>6. SyncInv'
    BY <1>0, <1>1, <1>2, <1>3, <1>5 DEF SyncInv
  <1>7. Bounds'
    <2>1. ASSUME NEW g \in Files, NEW v \in Nat, v <= local[g] PROVE v <= local'[g]
      BY <1>0, <1>2, <2>1
    <2>2. /\ \A g \in Files : device.files[g] \in Nat /\ app.code[g] \in Nat
          /\ device.update.file \in Files /\ device.update.version \in Nat
      BY <1>0 DEF Changes, Versions
    <2> QED
      BY <1>0, <1>1, <2>1, <2>2 DEF Bounds
  <1>8. StreamInv'
    <2>1. ASSUME NEW i \in 1 .. Len(stream), stream[i].kind = "file"
          PROVE  /\ stream[i].change.version <= local'[stream[i].change.file]
                 /\ Sound(stream[i].change.file, stream[i].change.version)'
      <3>1. stream[i] \in Messages /\ stream # <<>>
        BY <1>0
      <3>2. PICK g, v : g = stream[i].change.file /\ v = stream[i].change.version
        OBVIOUS
      <3>3. g \in Files /\ v \in Nat
        BY <2>1, <3>1, <3>2 DEF Messages, Changes, Versions
      <3>4. live
        BY <1>0, <3>1 DEF StreamInv, SyncInv
      <3>5. Sound(g, v) /\ v <= local[g]
        BY <1>0, <2>1, <3>2 DEF StreamInv
      <3>6. Sound(g, v)' /\ v <= local'[g]
        BY <1>0, <1>2, <3>3, <3>4, <3>5
      <3> QED
        BY <1>1, <3>2, <3>6
    <2> QED
      BY <1>0, <1>1, <1>3, <1>4, <2>1 DEF StreamInv
  <1> SUFFICES ASSUME live, Delivering PROVE Delivering'
    BY <1>0, <1>1, <1>2, <1>6, <1>7, <1>8 DEF DeliverInv
  <1>9. \A g \in Files : OnDevice(g) => OnDevice(g)'
    BY <1>1, <1>2 DEF OnDevice
  <1>10. given \subseteq Files
    BY <1>0, GivenFiles
  <1>11. SendInv'
    BY <1>1, <1>3, <1>4, <1>9, <1>10 DEF SendInv, Delivering
  <1>12. HashInv' /\ UpdateInv'
    BY <1>1, <1>3, <1>4 DEF HashInv, UpdateInv, Delivering
  <1>13. HasInv'
    BY <1>1, <1>2, <1>3, <1>4, <1>5 DEF HasInv, Delivering
  <1>14. StopInv' /\ DevInv'
    BY <1>1, <1>3, <1>9 DEF StopInv, WillStop, DevInv, Delivering
  <1> QED
    BY <1>11, <1>12, <1>13, <1>14 DEF Delivering

(***************************************************************************)
(* The application                                                         *)
(***************************************************************************)
\* An application that dies without hot updates has lost nothing.
LEMMA DeathDelivers ==
    ASSUME SyncTypeInv, DeliverInv, AppDies
    PROVE  DeliverInv'
  <1>0. /\ QueueInv /\ SyncInv /\ Bounds /\ StreamInv /\ (live /\ ~excused => Delivering)
        /\ EarsInv /\ sock \in [Sockets -> SockTypes] /\ excused \in BOOLEAN
        /\ app \in [runs : BOOLEAN, code : [Files -> Nat]]
    BY DEF DeliverInv, SyncTypeInv, DeviceInv, ToolTypes, DeviceTypes
  <1>1. /\ UNCHANGED <<report, operation, socketConnection, hmrStatus, sync, live, local,
                       queue, webpack5, device, hashes>>
        /\ app' = [app EXCEPT !.runs = FALSE] /\ stream' = <<>> /\ sock' = cutOff
        /\ excused' = (excused \/ app.code # device.files) /\ app.runs
    BY DEF AppDies, hostVars, kinds
  <1>2. ~app'.runs /\ app'.code = app.code
    BY <1>0, <1>1
  <1>3. /\ given' = given /\ Watching' = Watching /\ withUpdate' = withUpdate
        /\ synced_file' = synced_file /\ Hot' = Hot
        /\ \A f : Behind(f)' = Behind(f) /\ OnDevice(f)' = OnDevice(f)
        /\ \A f, v : Sound(f, v)' = Sound(f, v)
        /\ \A c : Known(c)' = Known(c)
        /\ QueueInv'
    BY <1>0, <1>1, SoundAside DEF given, filesToSync, Watching, withUpdate, synced_file, Hot, Behind
  <1>4. Taken' = Taken /\ Refreshed' = Refreshed /\ Len(stream') = 0
    BY <1>1 DEF Taken, Refreshed
  <1>5. Broken'
    <2> SUFFICES ASSUME hasConnection PROVE sock'[socketConnection].at # "open"
      BY <1>1 DEF Broken, hasConnection
    <2>1. socketConnection \in Sockets
      BY <1>0 DEF EarsInv, hasConnection
    <2> QED
      BY <1>0, <1>1, <2>1 DEF cutOff, SockTypes
  <1>6. SyncInv'
    BY <1>0, <1>1, <1>2, <1>3 DEF SyncInv
  <1>7. Bounds' /\ StreamInv'
    BY <1>0, <1>1, <1>2, <1>4 DEF Bounds, StreamInv
  <1> SUFFICES ASSUME Delivering, app.code = device.files PROVE Delivering'
    BY <1>0, <1>1, <1>3, <1>6, <1>7 DEF DeliverInv
  <1>8. \A f : Has(f)' = Has(f)
    BY <1>1, <1>2 DEF Has
  <1>9. SendInv'
    BY <1>1, <1>3, <1>4, <1>5 DEF SendInv, Delivering
  <1>10. HashInv' /\ UpdateInv' /\ HasInv' /\ StopInv' /\ DevInv'
    BY <1>1, <1>3, <1>4, <1>8
       DEF HashInv, UpdateInv, HasInv, StopInv, WillStop, DevInv, Delivering
  <1> QED
    BY <1>9, <1>10 DEF Delivering

\* What the application takes from the connection is on the device.
LEMMA TakeDelivers ==
    ASSUME SyncTypeInv, DeliverInv, AppTakesFile
    PROVE  DeliverInv'
  <1>0. /\ QueueInv /\ SyncInv /\ Bounds /\ StreamInv /\ (live /\ ~excused => Delivering)
        /\ sync \in SyncTypes /\ local \in [Files -> Nat] /\ stream \in Seq(Messages)
        /\ device \in [files : [Files -> Nat], update : Changes]
    BY DEF DeliverInv, SyncTypeInv, HostTypes, TrafficTypes, DeviceTypes
  <1>1. PICK message : message = Head(stream)
    OBVIOUS
  <1>2. /\ app.runs /\ stream # <<>> /\ stream' = Tail(stream)
        /\ message.kind \in {"file", "update"}
        /\ device' = IF message.kind = "file"
                     THEN [device EXCEPT !.files[message.change.file] = message.change.version]
                     ELSE [device EXCEPT !.update = message.change]
        /\ UNCHANGED <<socketConnection, sock, report, operation, hmrStatus, sync, live,
                       local, queue, webpack5, hashes, app, excused>>
    BY <1>1 DEF AppTakesFile, hostVars, kinds
  <1>3. /\ message = stream[1] /\ message \in Messages /\ 1 \in 1 .. Len(stream)
        /\ Len(stream) \in Nat \ {0} /\ Len(stream') = Len(stream) - 1
        /\ \A i \in 1 .. Len(stream) - 1 :
               stream'[i] = stream[i + 1] /\ i + 1 \in 1 .. Len(stream)
    BY <1>0, <1>1, <1>2, Shortened
  <1>4. /\ sync.at \in {"send", "finalize", "doSync"} /\ sync.modified /\ ~Broken
        /\ sync.at = "doSync" => report = "none" /\ operation.at = "pending"
        /\ report = "none" /\ operation.at \in {"none", "pending"}
    BY <1>0, <1>2 DEF StreamInv
  <1>5. /\ message.change \in Changes /\ message.change.file \in Files
        /\ message.change.version \in Nat
    BY <1>2, <1>3 DEF Messages, Changes, Versions
  <1>6. /\ message.kind = "file" => /\ message.change.version <= local[message.change.file]
                                    /\ Sound(message.change.file, message.change.version)
        /\ message.kind = "update" => message.change = sync.change /\ Watching /\ withUpdate
    BY <1>0, <1>3 DEF StreamInv
  <1>7. /\ given' = given /\ Watching' = Watching /\ withUpdate' = withUpdate
        /\ synced_file' = synced_file /\ Hot' = Hot /\ Broken' = Broken
        /\ \A f : Behind(f)' = Behind(f) /\ Has(f)' = Has(f)
        /\ \A f, v : Sound(f, v)' = Sound(f, v)
        /\ \A c : Known(c)' = Known(c)
        /\ QueueInv'
    BY <1>0, <1>2, SoundAside
       DEF given, filesToSync, Watching, withUpdate, synced_file, Hot, Behind, Broken,
           hasConnection, Has
  <1>8. ~Taken /\ ~Refreshed /\ ~Taken' /\ ~Refreshed'
    BY <1>2, <1>4 DEF Taken, Refreshed
  <1>9. /\ \A f \in Files : \/ device'.files[f] = device.files[f]
                            \/ /\ message.kind = "file" /\ f = message.change.file
                               /\ device'.files[f] = message.change.version
        /\ message.kind = "file" =>
               /\ device'.files[message.change.file] = message.change.version
               /\ device'.update = device.update
        /\ message.kind = "update" => device'.update = sync.change
    <2>1. CASE message.kind = "file"
      <3>1. device' = [device EXCEPT !.files[message.change.file] = message.change.version]
        BY <1>2, <2>1
      <3> QED
        BY <1>0, <1>5, <2>1, <3>1
    <2>2. CASE message.kind = "update"
      <3>1. device' = [device EXCEPT !.update = message.change]
        BY <1>2, <2>2
      <3> QED
        BY <1>0, <1>6, <2>2, <3>1
    <2> QED
      BY <1>2, <2>1, <2>2
  <1>10. \A f \in Files : OnDevice(f) => OnDevice(f)'
    BY <1>6, <1>7, <1>9 DEF OnDevice
  <1>11. message.kind = "file" => OnDevice(message.change.file)'
    BY <1>6, <1>7, <1>9 DEF OnDevice
  <1>12. SyncInv'
    BY <1>0, <1>2, <1>7 DEF SyncInv
  <1>13. Bounds'
    <2>1. sync.change.version <= local[sync.change.file] \/ ~Watching
      BY <1>0, <1>4 DEF SyncInv, Known
    <2> QED
      BY <1>0, <1>2, <1>6, <1>9, <2>1 DEF Bounds
  <1>14. StreamInv'
    <2>1. \A i \in 1 .. Len(stream') :
              stream'[i] = stream[i + 1] /\ i + 1 \in 1 .. Len(stream)
      BY <1>3
    <2>2. stream' # <<>> =>
              stream'[Len(stream')] = stream[Len(stream)] /\ Len(stream') \in 1 .. Len(stream')
      <3> SUFFICES ASSUME stream' # <<>>
                   PROVE  /\ stream'[Len(stream')] = stream[Len(stream)]
                          /\ Len(stream') \in 1 .. Len(stream')
        OBVIOUS
      <3>1. stream' \in Seq(Messages)
        BY <1>0, <1>2, Shortened
      <3>2. Len(stream') \in Nat \ {0}
        BY <3>1, Shortened
      <3> QED
        BY <1>3, <2>1, <3>2
    <2>3. ASSUME NEW i \in 1 .. Len(stream')
          PROVE  /\ stream'[i].kind = "sync" => i = Len(stream') /\ sync.at = "doSync"
                 /\ stream'[i].kind = "file" =>
                       /\ stream'[i].change.version <= local[stream'[i].change.file]
                       /\ Sound(stream[i].change.file, stream[i].change.version)'
                 /\ stream'[i].kind = "update" =>
                       stream'[i].change = sync.change /\ Watching /\ withUpdate
      <3>1. stream'[i] = stream[i + 1] /\ i + 1 \in 1 .. Len(stream)
        BY <2>1
      <3>2. stream[i + 1].kind = "file" =>
                Sound(stream[i + 1].change.file, stream[i + 1].change.version)
        BY <1>0, <3>1 DEF StreamInv
      <3>3. stream'[i].kind = "file" =>
                Sound(stream[i].change.file, stream[i].change.version)'
        BY <1>2, <3>1, <3>2 DEF Sound, InQueue
      <3> QED
        BY <1>0, <1>3, <3>1, <3>3 DEF StreamInv
    <2>4. stream' # <<>> => stream # <<>>
      BY <1>2
    <2> QED
      BY <1>0, <1>2, <1>4, <1>7, <2>2, <2>3, <2>4 DEF StreamInv
  <1> SUFFICES ASSUME Delivering PROVE Delivering'
    BY <1>0, <1>2, <1>7, <1>12, <1>13, <1>14 DEF DeliverInv
  <1>15. \A f \in Files : FileInStream(f) => FileInStream(f)' \/ OnDevice(f)'
    <2>1. ASSUME NEW f \in Files, NEW i \in 1 .. Len(stream),
                 stream[i].kind = "file", stream[i].change.file = f
          PROVE  FileInStream(f)' \/ OnDevice(f)'
      <3>1. CASE i = 1
        BY <1>3, <1>11, <2>1, <3>1
      <3>2. CASE i # 1
        <4>1. i - 1 \in 1 .. Len(stream') /\ stream'[i - 1] = stream[i]
          BY <1>3, <3>2
        <4> QED
          BY <2>1, <4>1 DEF FileInStream
      <3> QED
        BY <3>1, <3>2
    <2> QED
      BY <2>1 DEF FileInStream
  <1>16. UpdateInStream => UpdateInStream' \/ device'.update = sync.change
    <2>1. ASSUME NEW i \in 1 .. Len(stream), stream[i].kind = "update"
          PROVE  UpdateInStream' \/ device'.update = sync.change
      <3>1. CASE i = 1
        BY <1>3, <1>9, <2>1, <3>1
      <3>2. CASE i # 1
        <4>1. i - 1 \in 1 .. Len(stream') /\ stream'[i - 1] = stream[i]
          BY <1>3, <3>2
        <4> QED
          BY <2>1, <4>1 DEF UpdateInStream
      <3> QED
        BY <3>1, <3>2
    <2> QED
      BY <2>1 DEF UpdateInStream
  <1>17. device.update = sync.change => device'.update = sync.change
    BY <1>2, <1>9
  <1>18. given \subseteq Files
    BY <1>0, GivenFiles
  <1>19. SendInv'
    BY <1>2, <1>4, <1>7, <1>8, <1>10, <1>15, <1>16, <1>17, <1>18 DEF SendInv, Delivering
  <1>20. HashInv' /\ StopInv'
    BY <1>2, <1>4 DEF HashInv, StopInv, WillStop
  <1>21. UpdateInv'
    <2>1. Hot /\ ~webpack5 /\ sync.allFiles => message.kind # "update"
      BY <1>6 DEF Hot, withUpdate
    <2> QED
      BY <1>2, <1>4, <1>7, <1>8, <1>9, <2>1 DEF UpdateInv, Delivering
  <1>22. HasInv' /\ DevInv'
    BY <1>2, <1>4, <1>7, <1>8, <1>10 DEF HasInv, DevInv, Delivering
  <1> QED
    BY <1>19, <1>20, <1>21, <1>22 DEF Delivering

\* A hot update is applied to the version before it, and to no other.
LEMMA AppSyncsDelivers ==
    ASSUME SyncTypeInv, DeliverInv, AppSyncs
    PROVE  DeliverInv'
  <1>0. /\ QueueInv /\ SyncInv /\ Bounds /\ StreamInv /\ (live /\ ~excused => Delivering)
        /\ sync \in SyncTypes /\ local \in [Files -> Nat] /\ stream \in Seq(Messages)
        /\ device \in [files : [Files -> Nat], update : Changes]
        /\ app \in [runs : BOOLEAN, code : [Files -> Nat]]
        /\ excused \in BOOLEAN
    BY DEF DeliverInv, SyncTypeInv, HostTypes, TrafficTypes, DeviceTypes
  <1>1. PICK u, old, message :
            u = device.update /\ old = app.code[u.file] /\ message = Head(stream)
    OBVIOUS
  <1> DEFINE Kept == /\ UNCHANGED <<app, hmrStatus>>
                     /\ report' = "refreshed" /\ ~excused' => old >= u.version
             Applied == /\ message.refresh /\ old + 1 = u.version
                        /\ app' = [app EXCEPT !.code[u.file] = u.version]
             Told == message.refresh /\ old < u.version /\ hmrStatus' = "error" /\ UNCHANGED app
  <1>2. /\ app.runs /\ stream # <<>> /\ stream' = Tail(stream) /\ message.kind = "sync"
        /\ Kept \/ Applied \/ Told
        /\ report' # "none" /\ (~excused' => ~excused)
        /\ device' = [device EXCEPT !.update = NoChange]
        /\ UNCHANGED <<socketConnection, sock, operation, sync, live,
                       local, queue, webpack5, hashes>>
    BY <1>0, <1>1 DEF AppSyncs, kinds
  <1>3. /\ message = stream[1] /\ message \in Messages /\ 1 \in 1 .. Len(stream)
        /\ Len(stream) \in Nat \ {0} /\ Len(stream') = Len(stream) - 1
    BY <1>0, <1>1, <1>2, Shortened
  <1>4. Len(stream) = 1 /\ sync.at = "doSync"
    BY <1>0, <1>2, <1>3 DEF StreamInv
  <1>5. /\ ~Broken /\ report = "none" /\ operation.at = "pending"
        /\ message.refresh => Watching
    BY <1>0, <1>2, <1>3, <1>4 DEF StreamInv
  <1>6. /\ Len(stream') = 0 /\ stream' = <<>>
        /\ ~UpdateInStream /\ \A f : ~FileInStream(f)
    <2>1. Len(stream') = 0 /\ stream' \in Seq(Messages)
      BY <1>0, <1>2, <1>3, <1>4, Shortened
    <2>2. stream' = <<>>
      BY <2>1
    <2> QED
      BY <1>2, <1>3, <1>4, <2>1, <2>2 DEF UpdateInStream, FileInStream
  <1>7. /\ u.file \in Files /\ u.version \in Nat /\ old \in Nat /\ u \in Changes
        /\ u.version <= local[u.file] /\ old <= local[u.file] /\ local[u.file] \in Nat
    <2>1. u.file \in Files /\ u.version \in Nat /\ u \in Changes
      BY <1>0, <1>1 DEF Changes, Versions
    <2> QED
      BY <1>0, <1>1, <2>1 DEF Bounds
  <1>8. device'.update = NoChange /\ device'.files = device.files
    BY <1>0, <1>2
  <1>9. /\ given' = given /\ Watching' = Watching /\ withUpdate' = withUpdate
        /\ synced_file' = synced_file /\ Hot' = Hot /\ Broken' = Broken
        /\ \A f : OnDevice(f)' = OnDevice(f)
        /\ \A f, v : Sound(f, v)' = Sound(f, v)
        /\ \A c : Known(c)' = Known(c)
        /\ QueueInv'
    BY <1>0, <1>2, <1>8, SoundAside
       DEF given, filesToSync, Watching, withUpdate, synced_file, Hot, Broken,
           hasConnection, OnDevice
  <1>10. /\ Applied => /\ app'.code[u.file] = u.version /\ app'.runs
                       /\ \A f \in Files : f # u.file => app'.code[f] = app.code[f]
         /\ ~Applied => UNCHANGED app
    BY <1>0, <1>2, <1>7
  <1> HIDE DEF Applied
  <1>11. SyncInv'
    BY <1>0, <1>2, <1>4, <1>9 DEF SyncInv
  <1>12. Bounds'
    <2>1. NoChange.version = 0 /\ local[NoChange.file] \in Nat
      BY <1>0, NoChangeType DEF NoChange, Changes
    <2>2. \A f \in Files : app'.code[f] <= local[f]
      BY <1>0, <1>7, <1>10 DEF Bounds
    <2> QED
      BY <1>0, <1>2, <1>8, <2>1, <2>2 DEF Bounds
  <1>13. StreamInv'
    BY <1>0, <1>2, <1>4, <1>5, <1>6 DEF StreamInv
  <1> SUFFICES ASSUME live, ~excused', Delivering PROVE Delivering'
    BY <1>0, <1>2, <1>9, <1>11, <1>12, <1>13 DEF DeliverInv
  <1>14. \A f \in given : OnDevice(f)
    BY <1>0, <1>4, <1>5, <1>6 DEF SendInv, Delivering, SyncInv
  <1>15. SendInv'
    BY <1>2, <1>4, <1>9, <1>14 DEF SendInv
  <1>16. Hot /\ ~webpack5 /\ sync.allFiles /\ sync.stage # "recover" =>
            u = NoChange /\ hmrStatus = "error" /\ Kept
    <2>1. NoChange.version = 0
      BY DEF NoChange
    <2>2. Hot /\ ~webpack5 /\ sync.allFiles /\ sync.stage # "recover" =>
            u = NoChange /\ hmrStatus = "error"
      BY <1>1 DEF UpdateInv, Delivering
    <2>3. u = NoChange => ~Applied /\ ~Told
      BY <1>7, <2>1 DEF Applied
    <2> QED
      BY <1>2, <2>2, <2>3
  <1>17. UpdateInv'
    BY <1>2, <1>8, <1>9, <1>16 DEF UpdateInv
  <1>18. \A f \in Files : f # u.file => Has(f)' = Has(f)
    BY <1>2, <1>10 DEF Has
  <1>19. Has(u.file) = old
    BY <1>1, <1>2 DEF Has
  <1>20. ASSUME NEW f \in Files, Sound(f, Has(f)) PROVE Sound(f, Has(f))'
    <2>1. CASE f # u.file \/ ~Applied
      <3>1. Has(f)' = Has(f)
        BY <1>2, <1>8, <1>10, <1>18, <2>1 DEF Has
      <3> QED
        BY <1>9, <1>20, <3>1
    <2>2. CASE f = u.file /\ Applied
      <3>1. old < local[f]
        BY <1>7, <2>2 DEF Applied
      <3> QED
        BY <1>2, <1>7, <1>19, <1>20, <2>2, <3>1 DEF Sound, InQueue
    <2> QED
      BY <2>1, <2>2
  <1>21. \A f : Behind(f)' = Behind(f)
    BY <1>2, <1>4, <1>9 DEF Behind, Transfer
  <1>22. ASSUME Hot, sync.stage = "sync", report' = "refreshed"
         PROVE  Sound(synced_file, Has(synced_file))' \/ hmrStatus' = "error"
    <2>1. CASE ~webpack5 /\ sync.allFiles
      BY <1>16, <1>22, <2>1
    <2>2. CASE ~(~webpack5 /\ sync.allFiles)
      <3>1. withUpdate /\ Watching
        BY <1>22, <2>2 DEF withUpdate, Hot
      <3>2. ~sync.update
        BY <1>0, <1>4 DEF SyncInv
      <3>3. u = sync.change /\ u.file = synced_file
        BY <1>1, <1>4, <1>5, <1>6, <3>1, <3>2 DEF SendInv, Delivering, synced_file
      <3>4. Sound(u.file, u.version)
        BY <1>0, <1>4, <3>1, <3>3 DEF SyncInv
      <3>5. CASE Applied
        BY <1>2, <1>9, <1>10, <3>3, <3>4, <3>5 DEF Has
      <3>6. CASE Told
        BY <3>6
      <3>7. CASE Kept
        <4>1. old >= u.version
          BY <1>22, <3>7
        <4>2. Sound(u.file, old)
          BY <1>7, <3>4, <4>1 DEF Sound
        <4> QED
          BY <1>7, <1>9, <1>19, <1>20, <3>3, <4>2
      <3> QED
        BY <1>2, <3>5, <3>6, <3>7
    <2> QED
      BY <2>1, <2>2
  <1>23. HasInv'
    <2>1. Refreshed' => report' = "refreshed"
      BY <1>2, <1>5 DEF Refreshed
    <2> QED
      BY <1>2, <1>4, <1>9, <1>20, <1>21, <1>22, <2>1 DEF HasInv, Delivering
  <1>24. HashInv' /\ StopInv' /\ DevInv'
    BY <1>2, <1>4, <1>9 DEF HashInv, StopInv, WillStop, DevInv, Delivering
  <1> QED
    BY <1>15, <1>17, <1>23, <1>24 DEF Delivering

(***************************************************************************)
(* The newest versions                                                     *)
(***************************************************************************)
\* Every step keeps the invariant.
LEMMA DeliverStep ==
    ASSUME SyncTypeInv, DeliverInv, [Next]_vars
    PROVE  DeliverInv'
  <1>1. CASE SyncStep
    BY <1>1, ChangedDelivers, BeforeDelivers, ConnectedDelivers, GenerateDelivers, FileDelivers,
       UpdateDelivers, HashesDelivers, DoSyncDelivers, DoSyncEndsDelivers, RefreshDelivers,
       StopDelivers, StartDelivers, StatusDelivers, FailDelivers DEF SyncStep
  <1> QED
    BY <1>1, ChangeDelivers, TakeDelivers, AppSyncsDelivers, DeathDelivers, InitialDelivers,
       LinkSteps DEF Next

\* When every change is synced and nothing excuses it, the application that
\* runs has the newest version of every file.
THEOREM ApplicationIsCurrent == Spec => []SyncDelivers
  <1>1. SyncTypeInv /\ DeliverInv => SyncDelivers
    <2> SUFFICES ASSUME SyncTypeInv, DeliverInv, sync.at = "idle", live, queue = <<>>,
                        ~excused, app.runs
                 PROVE  app.code = local
      BY DEF SyncDelivers, at
    <2>1. app.code \in [Files -> Nat] /\ local \in [Files -> Nat]
      BY DEF SyncTypeInv, DeviceTypes, HostTypes
    <2>2. HasInv
      BY DEF DeliverInv, Delivering
    <2>3. Len(queue) = 0
      OBVIOUS
    <2>4. ASSUME NEW f \in Files PROVE app.code[f] = local[f]
      <3>1. ~Behind(f)
        BY DEF Behind, Transfer
      <3>2. ~InQueue(f)
        BY <2>3 DEF InQueue
      <3> QED
        BY <2>2, <3>1, <3>2 DEF HasInv, Sound, Has
    <2> QED
      BY <2>1, <2>4
  <1> QED
    BY <1>1, TypesBegin, TypesStep, DeliverBegins, DeliverStep, PTL DEF Spec

=============================================================================
