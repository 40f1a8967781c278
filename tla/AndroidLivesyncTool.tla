------------------------- MODULE AndroidLivesyncTool -------------------------
(***************************************************************************)
(* The LiveSync connection to an application on an Android device:         *)
(* lib/services/livesync/android-livesync-tool.ts.                         *)
(*                                                                         *)
(* connect() forwards a port, then opens sockets one after another, a      *)
(* second apart, until one answers or the time is up.  A socket that is    *)
(* still open when the time is up keeps its listeners: it is abandoned,    *)
(* and what it says later is heard in the middle of a later attempt.       *)
(* The first answer of the application makes the socket the connection.    *)
(* Files are written to it, then a do-sync operation, whose end the        *)
(* application reports; writes never fail, they are lost with the socket.  *)
(*                                                                         *)
(* Every action is the code between two awaits or the handler of one       *)
(* event.  The operators below the line are what the caller composes with  *)
(* steps of its own; the actions above it are timers and events.           *)
(***************************************************************************)
EXTENDS Naturals, Sequences, FiniteSets, SequencesExt

CONSTANTS
    Sockets,    \* bound: sockets that are in use at the same time
    NoSocket,
    MaxFaults   \* bound: sockets that answer late or never, what the
                \* application and adb do wrong, and new beginnings

ASSUME SocketsAssumption == NoSocket \notin Sockets /\ MaxFaults \in Nat

VARIABLES
    socketConnection,   \* the connection
    sock,               \* of each socket, whether it is open and who listens
    connect,            \* the attempt of connect(): where it is; isConnected
    retryTimers,        \* attempts whose setTimeout(tryConnect) is armed
    pending,            \* whether pendingConnectionData is not null
    lookups,            \* time-outs that await the application's process id
    operation,          \* the do-sync operation
    stream,             \* what is written and the application has not read
    report,             \* a report the application sent
    thrown,             \* whether a handler threw, which ends the CLI
    late,               \* history: whether an event of an earlier attempt was
                        \* handled since the last attempt began
    faults

attempt == <<connect, retryTimers, pending, lookups>>
traffic == <<operation, stream, report>>
toolState == <<socketConnection, sock, attempt, traffic, thrown, late>>
toolVars == <<toolState, faults>>

\* A fault happens.
fault == faults < MaxFaults /\ faults' = faults + 1

Free == [at |-> "free", ears |-> "none"]
Idle == [at |-> "idle", isConnected |-> FALSE]
NoOperation == [at |-> "none", socket |-> NoSocket, refresh |-> FALSE]

\* "ours": the listeners of the attempt under way; "stale": of one that is
\* over; "tool": those handleConnection() adds.
SockTypes == [at : {"free", "open", "lost"},
              ears : {"none", "ours", "stale", "tool"}]
ConnectTypes == [at : {"idle", "port", "trying", "connected", "failed"},
                 isConnected : BOOLEAN]
OperationTypes == [at : {"none", "pending", "refreshed", "notRefreshed", "failed"},
                   socket : Sockets \union {NoSocket}, refresh : BOOLEAN]
Reports == {"none", "refreshed", "notRefreshed", "error"}

ToolInit ==
    /\ socketConnection = NoSocket
    /\ sock = [s \in Sockets |-> Free]
    /\ connect = Idle
    /\ retryTimers = {}
    /\ pending = FALSE
    /\ lookups = {}
    /\ operation = NoOperation
    /\ stream = <<>>
    /\ report = "none"
    /\ thrown = FALSE
    /\ late = FALSE
    /\ faults = 0

hasConnection == socketConnection # NoSocket

(***************************************************************************)
(* connect()                                                               *)
(***************************************************************************)
\* tryConnect() of the attempt under way ("ours") or of one that is over.
\* It stores the socket in pendingConnectionData, which may be null by now.
tryConnect(ears, isPending) ==
    LET free == {s \in Sockets : sock[s].at = "free"}
    IN  /\ free # {}
        /\ sock' = [sock EXCEPT ![CHOOSE s \in free : TRUE] =
               [at |-> "open", ears |-> IF isPending THEN ears ELSE "none"]]
        /\ thrown' = ~isPending

\* The port is forwarded, or adb fails; the attempt begins.
PortForwarded ==
    /\ connect.at = "port"
    /\ \/ /\ connect' = [connect EXCEPT !.at = "failed"]
          /\ UNCHANGED <<sock, pending, thrown, late>>
       \/ /\ connect' = [at |-> "trying", isConnected |-> FALSE]
          /\ pending' = TRUE
          /\ late' = FALSE
          /\ tryConnect("ours", TRUE)
    /\ UNCHANGED <<socketConnection, retryTimers, lookups, traffic, faults>>

RetryFires(whose) ==
    /\ whose \in retryTimers
    /\ retryTimers' = retryTimers \ {whose}
    /\ tryConnect(whose, pending)
    /\ late' = (late \/ whose = "stale")
    /\ UNCHANGED <<socketConnection, connect, pending, lookups, traffic, faults>>

(* Mutant: a late answer of an abandoned socket makes it the connection.   *)
SocketAnswersLate(s) ==
    /\ sock[s].at = "open"
    /\ sock[s].ears \in {"ours", "stale"}
    /\ sock' = [sock EXCEPT ![s].ears = "tool"]
    /\ connect' = IF sock[s].ears = "ours"
                  THEN [at |-> "connected", isConnected |-> TRUE] ELSE connect
    /\ socketConnection' = s
    /\ UNCHANGED <<retryTimers, pending, lookups, traffic, thrown, late, faults>>

\* The first "data" event.  When the time is up and the promise not yet
\* rejected the answer still wins, and the time-out's rejection is void.  An
\* abandoned socket that answers is left open for nothing and left out here.
SocketAnswers(s) ==
    /\ sock[s].at = "open"
    /\ sock[s].ears \in {"ours", "stale"}
    /\ IF sock[s].ears = "ours"
       THEN /\ sock' = [sock EXCEPT ![s].ears = "tool"]
            /\ connect' = [at |-> "connected", isConnected |-> TRUE]
            /\ socketConnection' = s
            /\ \/ /\ "deciding" \notin lookups
                  /\ UNCHANGED <<lookups, faults>>
               \/ /\ "deciding" \in lookups
                  /\ fault
                  /\ lookups' = {"moot"}
       ELSE /\ sock' = [sock EXCEPT ![s] = Free]
            /\ UNCHANGED <<connect, socketConnection, lookups, faults>>
    /\ stream' = IF sock[s].ears = "ours" THEN <<>> ELSE stream
    /\ report' = IF sock[s].ears = "ours" THEN "none" ELSE report
    /\ UNCHANGED <<retryTimers, pending, operation, thrown, late>>

(* Mutant: pendingConnectionData is reset when an attempt fails.           *)
tryConnectAfterReset(s) ==
    /\ sock[s].at # "free"
    /\ sock[s].ears # "tool"
    /\ sock' = [sock EXCEPT ![s] = Free]
    /\ pending' = FALSE
    /\ late' = (late \/ sock[s].ears = "stale")
    /\ thrown' = FALSE
    /\ retryTimers' = IF sock[s].ears = "ours" /\ ~connect.isConnected
                      THEN retryTimers \union {"ours"} ELSE retryTimers
    /\ UNCHANGED <<socketConnection, connect, lookups, traffic, faults>>

\* "close" or "error" of a socket an attempt listens to.
tryConnectAfterTimeout(s) ==
    /\ sock[s].at # "free"
    /\ sock[s].ears # "tool"
    /\ sock' = [sock EXCEPT ![s] = Free]
    /\ late' = (late \/ sock[s].ears = "stale")
    /\ \/ /\ \/ sock[s].ears = "stale"
             \/ sock[s].ears = "ours" /\ connect.isConnected
          /\ pending' = FALSE
          /\ UNCHANGED <<retryTimers, thrown>>
       \/ /\ sock[s].ears = "ours"
          /\ ~connect.isConnected
          /\ thrown' = ~pending
          /\ retryTimers' = IF pending THEN retryTimers \union {"ours"} ELSE retryTimers
          /\ UNCHANGED pending
       \/ /\ sock[s].ears = "none"
          /\ UNCHANGED <<retryTimers, pending, thrown>>
    /\ UNCHANGED <<socketConnection, connect, lookups, traffic, faults>>

\* The time of connect() is up: no more attempts, then the process id.
ConnectTimesOut ==
    /\ connect.at = "trying"
    /\ ~connect.isConnected
    /\ connect' = [connect EXCEPT !.isConnected = TRUE]
    /\ retryTimers' =
           (retryTimers \ {"ours"}) \union
               (IF "ours" \in retryTimers /\ ~pending THEN {"stale"} ELSE {})
    /\ lookups' = lookups \union {"deciding"}
    /\ UNCHANGED <<socketConnection, sock, pending, traffic, thrown, late, faults>>

\* The process id is known: the promise is rejected, unless it was resolved.
\* A socket that is still open is abandoned; one that never says anything
\* again is left out.
LookupAnswers(whose) ==
    /\ whose \in lookups
    /\ lookups' = lookups \ {whose}
    /\ pending' = FALSE
    /\ late' = (late \/ whose = "moot")
    /\ IF whose = "deciding"
       THEN LET open == {s \in Sockets : sock[s].ears = "ours"}
            IN  /\ connect' = [connect EXCEPT !.at = "failed"]
                /\ \/ /\ sock' = [s \in Sockets |-> IF s \in open THEN Free ELSE sock[s]]
                      /\ UNCHANGED faults
                   \/ /\ open # {}
                      /\ fault
                      /\ \E s \in Sockets : sock[s].at = "free"
                      /\ sock' = [s \in Sockets |->
                            IF s \in open THEN [sock[s] EXCEPT !.ears = "stale"]
                                          ELSE sock[s]]
       ELSE UNCHANGED <<connect, sock, faults>>
    /\ UNCHANGED <<socketConnection, retryTimers, traffic, thrown>>

(***************************************************************************)
(* The connection and the operation on it                                  *)
(***************************************************************************)
(* Mutant: operations are left to their own time-out.                      *)
rejectedLater(s) == operation

\* rejectPendingSyncOperations(s).
rejected(s) ==
    IF operation.at = "pending" /\ operation.socket = s
    THEN [operation EXCEPT !.at = "failed"]
    ELSE operation

(* Mutant: the listeners of the connection stay.                           *)
closedListening ==
    /\ socketConnection' = NoSocket
    /\ stream' = <<>>
    /\ report' = "none"
    /\ UNCHANGED <<sock, attempt, thrown, late, faults>>

\* end(), but for the operations: cleanState() and destroy the socket.
closed ==
    /\ socketConnection' = NoSocket
    /\ sock' = IF hasConnection THEN [sock EXCEPT ![socketConnection] = Free] ELSE sock
    /\ stream' = <<>>
    /\ report' = "none"
    /\ UNCHANGED <<attempt, thrown, late, faults>>

end == closed /\ operation' = rejected(socketConnection)

\* handleSocketError(): end() when s is the connection.
handleSocketError(s) ==
    \/ s = socketConnection /\ end
    \/ /\ s # socketConnection
       /\ operation' = rejected(s)
       /\ UNCHANGED <<socketConnection, sock, attempt, stream, report, thrown, late, faults>>

\* handleSocketClose(), and "error" without an errorHandler.
SocketCloses(s) ==
    /\ sock[s].ears = "tool"
    /\ sock[s].at = "lost"
    /\ handleSocketError(s)

\* handleData() and handleSyncEnd().
ReportArrives ==
    /\ report # "none"
    /\ hasConnection
    /\ IF report = "error"
       THEN handleSocketError(socketConnection)
       ELSE /\ operation' = IF operation.at = "pending"
                            THEN [operation EXCEPT !.at = report] ELSE operation
            /\ report' = "none"
            /\ UNCHANGED <<socketConnection, sock, attempt, stream, thrown, late, faults>>

\* "Sync operation is taking too long".
OperationTimesOut ==
    /\ operation.at = "pending"
    /\ handleSocketError(operation.socket)

ToolStep ==
    \/ PortForwarded
    \/ \E whose \in {"ours", "stale"} : RetryFires(whose)
    \/ \E s \in Sockets : tryConnectAfterTimeout(s) \/ SocketCloses(s)
    \/ ConnectTimesOut
    \/ \E whose \in {"deciding", "moot"} : LookupAnswers(whose)
    \/ ReportArrives
    \/ OperationTimesOut

-----------------------------------------------------------------------------
(***************************************************************************)
(* What the caller does; each leaves the variables it does not name alone. *)
(***************************************************************************)
\* connect(), which fails at once when there is a connection.
beginConnect ==
    connect' = [at |-> IF hasConnection THEN "failed" ELSE "port",
                isConnected |-> FALSE]

\* writeToSocket(): lost when the socket is, without an error.
written(message) ==
    stream' = IF sock[socketConnection].at = "open"
              THEN Append(stream, message) ELSE stream

\* sendDoSyncOperation(): rejected at once without a connection.
sendDoSyncOperation(doRefresh) ==
    IF hasConnection
    THEN /\ operation' = [at |-> "pending", socket |-> socketConnection,
                          refresh |-> doRefresh]
         /\ written([kind |-> "sync", refresh |-> doRefresh])
    ELSE /\ operation' = [NoOperation EXCEPT !.at = "failed"]
         /\ UNCHANGED stream

=============================================================================
