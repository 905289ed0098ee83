------------------------ MODULE ConnectionLifecycle -------------------------
(***************************************************************************)
(* The life of a client connection (the initiator of EpConnection.ts) over *)
(* the sockets it opens one after the other: connect() and reconnect(),    *)
(* the handshake and its deadline, unexpected disconnects and the timer of *)
(* automatic reconnection, close() and destroy(), and what becomes of the  *)
(* requests in flight.                                                     *)
(*                                                                         *)
(* JavaScript runs one job at a time.  What an async function does after   *)
(* an await is an action of its own (Resume), but it is a microtask: once  *)
(* what it awaits has settled, no other job starts before it.  The job     *)
(* that called reconnect() is still running at the first await: it may go  *)
(* on and send, close() or destroy() before the new socket exists.         *)
(*                                                                         *)
(* Abstractions.  The transport is the WebSocket of WSocket.ts.  The       *)
(* handshake is one answer of the server, the restore loop of a reconnect  *)
(* one request.  The connection object reaches the application when        *)
(* connect() resolves, and a destroyed connection is not reconnected.      *)
(* WSocket.connect awaits the native socket before it dials it; the model  *)
(* has it at once, so a socket closed in that gap fails and reports here,  *)
(* where in the code it is let go without a report.                        *)
(***************************************************************************)
EXTENDS Naturals, FiniteSets

CONSTANTS
    Request,        \* requests of the application
    Stream,         \* those among them that ask for a stream
    AutoReconnect,  \* the option autoReconnect
    MaxSocket       \* bound: sockets the connection opens

ASSUME ConnectionLifecycleAssumption ==
    /\ Stream \subseteq Request
    /\ AutoReconnect \in BOOLEAN
    /\ MaxSocket \in Nat \ {0}

VARIABLES
    wire,           \* what the native socket is really doing
    state,          \* WSocket.state
    closeNotified,  \* sockets that have reported their close
    socket,         \* the connection's current socket, 0 for none
    opened,         \* sockets opened so far
    attempt,        \* the connect() or reconnect() in progress
    readyReply,     \* the reply whenReady() returns
    authenticated,
    deadline,       \* the authentication deadline is running
    reconnectTimer, \* a reconnect is scheduled
    manualClose,
    destroyed,
    inApplication,  \* the application has the connection object
    tooEarly,       \* history: what came before the attempt's socket was open
    request,        \* the state of each request
    sentOn          \* the socket a request was sent on

socketVars == <<wire, state, closeNotified>>
authVars == <<readyReply, authenticated, deadline>>
lifeVars == <<manualClose, destroyed, inApplication>>
requestVars == <<request, sentOn>>
vars == <<socketVars, socket, opened, attempt, authVars, reconnectTimer, lifeVars,
          tooEarly, requestVars>>

-----------------------------------------------------------------------------
Socket == 1 .. MaxSocket
Wire == {"unused", "dialling", "open", "lost", "closing", "failing", "closed"}
Unsettled == {"new", "pending"}

(* Who began an attempt, where its async body is awaiting, and how that    *)
(* went.  A retry is a reconnect() of the timer.                           *)
Attempt == [kind : {"connect", "reconnect", "retry"},
            at : {"creating", "dialling", "handshake", "restoring"},
            outcome : {"waiting", "ok", "failed"}]
NoAttempt == [kind |-> "none", at |-> "none", outcome |-> "waiting"]

(* reconnectReply is set exactly while the body of reconnect() runs.       *)
Reconnecting == attempt.kind \in {"reconnect", "retry"}

(* A microtask is due: no other job runs first.                            *)
Due == attempt.outcome # "waiting"

(* What the application may do: start a job, or go on with the one that    *)
(* called reconnect().                                                     *)
Creating == attempt.kind = "reconnect" /\ attempt.at = "creating"
MayAct == inApplication /\ (~Due \/ Creating)

IsConnected == socket # 0 /\ state[socket] = "Established"

ShouldAutoReconnect_LoggedOutOnly == AutoReconnect /\ ~manualClose /\ ~authenticated
ShouldAutoReconnect == AutoReconnect /\ ~manualClose

(* scheduleReconnect(): what the timer is afterwards.                      *)
ScheduleReconnect ==
    reconnectTimer' = (reconnectTimer \/ (~Reconnecting /\ ShouldAutoReconnect))

Awaiting(place) == attempt.at = place /\ attempt.outcome = "waiting"
Settles(outcome) == attempt' = [attempt EXCEPT !.outcome = outcome]

Init ==
    /\ wire = [s \in Socket |-> "unused"]
    /\ state = [s \in Socket |-> "Initial"]
    /\ closeNotified = {}
    /\ socket = 0
    /\ opened = 0
    /\ attempt = NoAttempt
    /\ readyReply = "none"
    /\ authenticated = FALSE
    /\ deadline = FALSE
    /\ reconnectTimer = FALSE
    /\ manualClose = FALSE
    /\ destroyed = FALSE
    /\ inApplication = FALSE
    /\ tooEarly = {}
    /\ request = [r \in Request |-> "new"]
    /\ sentOn = [r \in Request |-> 0]

-----------------------------------------------------------------------------
(* Opening a connection.                                                   *)

(* openClientSocket up to its first await: the handshake is begun, the     *)
(* socket of before is still the connection's.                             *)
OpenClientSocket(kind) ==
    /\ opened < MaxSocket
    /\ attempt' = [kind |-> kind, at |-> "creating", outcome |-> "ok"]
    /\ readyReply' = "pending"
    /\ authenticated' = FALSE
    /\ deadline' = TRUE
    /\ manualClose' = FALSE
    /\ tooEarly' = {}
    /\ UNCHANGED <<socketVars, socket, opened, destroyed, inApplication, requestVars>>

Connect ==
    /\ opened = 0 /\ attempt = NoAttempt
    /\ OpenClientSocket("connect")
    /\ UNCHANGED reconnectTimer

(* reconnect() of the application; one in progress is shared instead.      *)
Reconnect ==
    /\ inApplication /\ ~destroyed /\ attempt = NoAttempt
    /\ OpenClientSocket("reconnect")
    /\ UNCHANGED reconnectTimer

(* The timer fires: reconnect() returns the attempt in progress if any.    *)
ReconnectTimerFires ==
    /\ reconnectTimer /\ ~Due
    /\ reconnectTimer' = FALSE
    /\ IF attempt = NoAttempt
         THEN OpenClientSocket("retry")
         ELSE UNCHANGED <<socketVars, socket, opened, attempt, authVars, lifeVars,
                          tooEarly, requestVars>>

(* The WebSocket opens: connected() sends Initialize.                      *)
SocketOpens(s) ==
    /\ ~Due /\ wire[s] = "dialling"
    /\ wire' = [wire EXCEPT ![s] = "open"]
    /\ state' = [state EXCEPT ![s] = "Established"]
    /\ Settles("ok")
    /\ UNCHANGED <<closeNotified, socket, opened, authVars, reconnectTimer, lifeVars,
                   tooEarly, requestVars>>

(* The WebSocket fails to open: its error event, the close event follows.  *)
SocketError(s) ==
    /\ ~Due /\ wire[s] = "dialling"
    /\ wire' = [wire EXCEPT ![s] = "failing"]
    /\ IF state[s] = "Connecting" THEN Settles("failed") ELSE UNCHANGED attempt
    /\ UNCHANGED <<state, closeNotified, socket, opened, authVars, reconnectTimer,
                   lifeVars, tooEarly, requestVars>>

(* The continuation of the attempt.  When it fails, the rejection handler  *)
(* of a timed reconnect calls scheduleReconnect while the attempt is still *)
(* registered, and only then is the attempt cleared.                       *)
Fail ==
    /\ attempt' = NoAttempt
    /\ IF attempt.kind = "retry" THEN ScheduleReconnect ELSE UNCHANGED reconnectTimer

Advance(place, outcome) ==
    /\ attempt' = [attempt EXCEPT !.at = place, !.outcome = outcome]
    /\ UNCHANGED <<reconnectTimer, inApplication>>

Resolve ==
    /\ attempt' = NoAttempt
    /\ inApplication' = (inApplication \/ attempt.kind = "connect")
    /\ UNCHANGED reconnectTimer

(* The new socket takes the place of the one before, which is not closed,  *)
(* and is dialled, whatever became of the connection meanwhile.            *)
AssignSocket ==
    /\ opened' = opened + 1
    /\ socket' = opened'
    /\ wire' = [wire EXCEPT ![opened'] = "dialling"]
    /\ state' = [state EXCEPT ![opened'] = "Connecting"]

(* What the body of the attempt goes on with.                              *)
Continue_OnOpen ==
    CASE attempt.outcome = "failed" -> Fail /\ UNCHANGED inApplication
      [] attempt.outcome = "ok" /\ attempt.at = "creating" -> Advance("dialling", "waiting")
      [] attempt.outcome = "ok" /\ Reconnecting /\ attempt.at = "dialling" ->
           Advance("restoring", IF IsConnected THEN "waiting" ELSE "failed")
      [] OTHER -> Resolve

Continue ==
    CASE attempt.outcome = "failed" -> Fail /\ UNCHANGED inApplication
      [] attempt.outcome = "ok" /\ attempt.at = "creating" -> Advance("dialling", "waiting")
      [] attempt.outcome = "ok" /\ attempt.at = "dialling" ->
           Advance("handshake", IF readyReply = "pending" THEN "waiting" ELSE readyReply)
      [] attempt.outcome = "ok" /\ attempt.at = "handshake" /\ Reconnecting ->
           Advance("restoring", IF IsConnected THEN "waiting" ELSE "failed")
      [] OTHER -> Resolve

(* An attempt whose body goes on after what it awaited has settled.        *)
Resume ==
    /\ Due
    /\ Continue
    /\ IF attempt.at = "creating" THEN AssignSocket
                                  ELSE UNCHANGED <<wire, state, socket, opened>>
    /\ UNCHANGED <<closeNotified, authVars, manualClose, destroyed, tooEarly, requestVars>>

-----------------------------------------------------------------------------
(* The end of a socket.                                                    *)

(* The attempt under way has no open socket yet.                           *)
BeforeOpen == attempt.at \in {"creating", "dialling"}

Disconnected_KeepsRequests(unsent) ==
    /\ deadline' = FALSE
    /\ readyReply' = IF readyReply = "pending" THEN "failed" ELSE readyReply
    /\ request' = [r \in Request |-> IF r \in unsent THEN "failed" ELSE request[r]]
    /\ IF Awaiting("restoring") \/ (Awaiting("handshake") /\ readyReply = "pending")
         THEN Settles("failed")
         ELSE UNCHANGED attempt
    /\ ScheduleReconnect
    /\ tooEarly' = IF BeforeOpen THEN tooEarly \cup {"disconnect"} ELSE tooEarly
    /\ UNCHANGED authenticated

(* disconnected(): what is waiting fails, the request being sent with it,  *)
(* and a reconnect is scheduled.                                           *)
Disconnected(unsent) ==
    /\ deadline' = FALSE
    /\ readyReply' = IF readyReply = "pending" THEN "failed" ELSE readyReply
    /\ request' = [r \in Request |-> IF request[r] = "pending" \/ r \in unsent
                                       THEN "failed" ELSE request[r]]
    /\ IF Awaiting("restoring") \/ (Awaiting("handshake") /\ readyReply = "pending")
         THEN Settles("failed")
         ELSE UNCHANGED attempt
    /\ ScheduleReconnect
    /\ tooEarly' = IF BeforeOpen THEN tooEarly \cup {"disconnect"} ELSE tooEarly
    /\ UNCHANGED authenticated

Hears_AnySocket(s) == s \notin closeNotified

(* transitionClosed and networkClose: only the current socket's close, and *)
(* only its first report, reaches the connection.                          *)
Hears(s) == s = socket /\ s \notin closeNotified

(* The close event.  After an error event it may be part of the same job.  *)
CloseEvent(s) ==
    /\ wire[s] \in {"lost", "closing", "failing"}
    /\ Due => wire[s] = "failing" /\ attempt.outcome = "failed"
    /\ wire' = [wire EXCEPT ![s] = "closed"]
    /\ state' = [state EXCEPT ![s] = "Closed"]
    /\ closeNotified' = closeNotified \cup {s}
    /\ IF Hears(s) THEN Disconnected({})
                   ELSE UNCHANGED <<attempt, authVars, reconnectTimer, tooEarly, request>>
    /\ UNCHANGED <<socket, opened, lifeVars, sentOn>>

(* The native socket has ended; its close event has not been delivered.    *)
NetworkDrops(s) ==
    /\ ~Due /\ wire[s] = "open"
    /\ wire' = [wire EXCEPT ![s] = "lost"]
    /\ UNCHANGED <<state, closeNotified, socket, opened, attempt, authVars,
                   reconnectTimer, lifeVars, tooEarly, requestVars>>

CloseSocket_LetsDial(s) ==
    /\ state' = [state EXCEPT ![s] = "Closed"]
    /\ wire' = [wire EXCEPT ![s] = IF @ = "open" THEN "closing" ELSE @]

(* WSocket.close: closed for us at once, its event comes later.  A socket  *)
(* that is still dialling will only fail.                                  *)
CloseSocket(s) ==
    /\ state' = [state EXCEPT ![s] = "Closed"]
    /\ wire' = [wire EXCEPT ![s] = CASE @ = "dialling" -> "failing"
                                     [] @ = "open" -> "closing"
                                     [] OTHER -> @]

(* A close reaches the socket there is, not the one being created.         *)
ClosesWhatThereIs ==
    tooEarly' = IF Creating THEN tooEarly \cup {"close"} ELSE tooEarly \ {"close"}

(* close() of the application.                                             *)
Close ==
    /\ MayAct
    /\ manualClose' = TRUE
    /\ reconnectTimer' = FALSE
    /\ deadline' = FALSE
    /\ IF socket = 0 THEN UNCHANGED <<wire, state>> ELSE CloseSocket(socket)
    /\ ClosesWhatThereIs
    /\ UNCHANGED <<closeNotified, socket, opened, attempt, readyReply, authenticated,
                   destroyed, inApplication, requestVars>>

(* destroy(): as close(), and the socket is let go without a report.       *)
Destroy ==
    /\ MayAct
    /\ destroyed' = TRUE
    /\ manualClose' = TRUE
    /\ reconnectTimer' = FALSE
    /\ deadline' = FALSE
    /\ IF socket = 0 THEN UNCHANGED <<wire, state>> ELSE CloseSocket(socket)
    /\ socket' = 0
    /\ ClosesWhatThereIs
    /\ UNCHANGED <<closeNotified, opened, attempt, readyReply, authenticated,
                   inApplication, requestVars>>

-----------------------------------------------------------------------------
(* The handshake.                                                          *)

(* failAuthentication: the attempt fails and the connection is closed.     *)
FailAuthentication ==
    /\ deadline' = FALSE
    /\ readyReply' = IF readyReply = "pending" THEN "failed" ELSE readyReply
    /\ IF Awaiting("handshake") THEN Settles("failed") ELSE UNCHANGED attempt
    /\ manualClose' = TRUE
    /\ reconnectTimer' = FALSE
    /\ CloseSocket(socket)
    /\ ClosesWhatThereIs
    /\ UNCHANGED <<closeNotified, socket, opened, authenticated, destroyed,
                   inApplication, requestVars>>

InHandshake == socket # 0 /\ wire[socket] = "open" /\ IsConnected /\ ~authenticated

SessionEstablished ==
    /\ ~Due /\ InHandshake
    /\ authenticated' = TRUE
    /\ deadline' = FALSE
    /\ readyReply' = IF readyReply = "pending" THEN "ok" ELSE readyReply
    /\ IF Awaiting("handshake") THEN Settles("ok") ELSE UNCHANGED attempt
    /\ UNCHANGED <<socketVars, socket, opened, reconnectTimer, lifeVars, tooEarly,
                   requestVars>>

HandshakeRefused ==
    /\ ~Due /\ InHandshake
    /\ FailAuthentication

DeadlineFires ==
    /\ ~Due /\ deadline /\ ~authenticated /\ socket # 0
    /\ FailAuthentication

-----------------------------------------------------------------------------
(* Requests and their answers.                                             *)

(* send over a socket that is open, or one that is not: it counts as       *)
(* closed from then on, and reports that unless it has before.             *)
Send(r) ==
    /\ sentOn' = [sentOn EXCEPT ![r] = socket]
    /\ \/ /\ wire[socket] = "open" /\ IsConnected
          /\ request' = [request EXCEPT ![r] = "pending"]
          /\ UNCHANGED <<socketVars, attempt, authVars, reconnectTimer, tooEarly>>
       \/ /\ wire[socket] # "open" \/ ~IsConnected
          /\ state' = [state EXCEPT ![socket] = "Closed"]
          /\ closeNotified' = closeNotified \cup {socket}
          /\ IF Hears(socket)
               THEN Disconnected({r})
               ELSE /\ request' = [request EXCEPT ![r] = "pending"]
                    /\ UNCHANGED <<attempt, authVars, reconnectTimer, tooEarly>>
          /\ UNCHANGED wire

MaySend(r) == MayAct /\ request[r] = "new"

(* sendRequest: refused when the socket is not established.                *)
SendRequest(r) ==
    /\ MaySend(r) /\ r \notin Stream
    /\ \/ /\ ~IsConnected
          /\ request' = [request EXCEPT ![r] = "failed"]
          /\ UNCHANGED <<socketVars, attempt, authVars, reconnectTimer, tooEarly, sentOn>>
       \/ IsConnected /\ Send(r)
    /\ UNCHANGED <<socket, opened, lifeVars>>

(* sendStreamRequest does not ask; without a socket the send does nothing. *)
SendStreamRequest(r) ==
    /\ MaySend(r) /\ r \in Stream
    /\ \/ /\ socket = 0
          /\ request' = [request EXCEPT ![r] = "pending"]
          /\ UNCHANGED <<socketVars, attempt, authVars, reconnectTimer, tooEarly, sentOn>>
       \/ socket # 0 /\ Send(r)
    /\ UNCHANGED <<socket, opened, lifeVars>>

(* dispatchReply.  What a replaced socket receives is not heard.           *)
PeerAnswers(r) ==
    /\ ~Due /\ request[r] = "pending" /\ authenticated
    /\ IsConnected /\ sentOn[r] = socket /\ wire[socket] = "open"
    /\ request' = [request EXCEPT ![r] = "answered"]
    /\ UNCHANGED <<socketVars, socket, opened, attempt, authVars, reconnectTimer,
                   lifeVars, tooEarly, sentOn>>

(* The restore loop of a reconnect ends, or an error other than a missing  *)
(* resource aborts it.                                                     *)
RestoreEnds(outcome) ==
    /\ Awaiting("restoring") /\ IsConnected /\ wire[socket] = "open"
    /\ Settles(outcome)
    /\ UNCHANGED <<socketVars, socket, opened, authVars, reconnectTimer, lifeVars,
                   tooEarly, requestVars>>

-----------------------------------------------------------------------------
Dialled == \E s \in Socket : SocketOpens(s) \/ SocketError(s)
Restored == \E outcome \in {"ok", "failed"} : RestoreEnds(outcome)
Application ==
    \/ Connect \/ Reconnect \/ Close \/ Destroy
    \/ \E r \in Request : SendRequest(r) \/ SendStreamRequest(r)
Platform ==
    \/ Resume \/ ReconnectTimerFires \/ DeadlineFires \/ Dialled
    \/ \E s \in Socket : NetworkDrops(s) \/ CloseEvent(s)
Peer ==
    \/ SessionEstablished \/ HandshakeRefused \/ Restored
    \/ \E r \in Request : PeerAnswers(r)

Next == Application \/ Platform \/ Peer

Spec == Init /\ [][Next]_vars

(* Microtasks and timers run, a socket opens or fails and reports its end, *)
(* and the server answers a reattach on a connection that stays up.        *)
Fairness ==
    /\ WF_vars(Resume)
    /\ WF_vars(ReconnectTimerFires)
    /\ WF_vars(DeadlineFires)
    /\ WF_vars(Dialled)
    /\ \A s \in Socket : WF_vars(CloseEvent(s))
    /\ WF_vars(Restored)

FairSpec == Spec /\ Fairness

-----------------------------------------------------------------------------
(* Properties.                                                             *)

FlagsOK ==
    /\ authenticated \in BOOLEAN /\ deadline \in BOOLEAN
    /\ reconnectTimer \in BOOLEAN /\ manualClose \in BOOLEAN
    /\ destroyed \in BOOLEAN /\ inApplication \in BOOLEAN

TypeOK ==
    /\ wire \in [Socket -> Wire]
    /\ state \in [Socket -> {"Initial", "Connecting", "Established", "Closed"}]
    /\ closeNotified \subseteq Socket
    /\ socket \in 0 .. MaxSocket /\ opened \in 0 .. MaxSocket
    /\ attempt \in Attempt \cup {NoAttempt}
    /\ readyReply \in {"none", "pending", "ok", "failed"}
    /\ request \in [Request -> {"new", "pending", "answered", "failed"}]
    /\ sentOn \in [Request -> 0 .. MaxSocket]
    /\ tooEarly \subseteq {"close", "disconnect"}
    /\ FlagsOK

(* After close(), destroy() or a failed handshake the connection neither   *)
(* carries traffic nor waits to reconnect, until it is asked to connect    *)
(* again; whatever attempt was under way, and wherever it was.  But for a  *)
(* close() or destroy() in the job that called reconnect(): it closes the  *)
(* socket of before, and the one then created (EpConnection.ts:527) is     *)
(* dialled and used on the closed connection.                              *)
ClosedStaysClosed ==
    manualClose => ~reconnectTimer /\ ("close" \in tooEarly \/ ~IsConnected)

(* An attempt that is never told: the connection was destroyed, the socket *)
(* counted as closed while it dialled, by close(), by the deadline or by a *)
(* stream request, or a close() before the socket existed has cancelled    *)
(* the deadline.                                                           *)
Abandoned ==
    \/ destroyed \/ "close" \in tooEarly
    \/ Awaiting("dialling") /\ state[socket] = "Closed"

(* Once connect() or reconnect() has settled, an established connection is *)
(* an authenticated one: no request leaves before the handshake is over.   *)
(* But for a stream request while the socket was being created or dialled: *)
(* it counts the socket there is as closed and fails the handshake reply,  *)
(* the socket opens all the same and is Established, and the attempt fails *)
(* and leaves it so.                                                       *)
AuthenticatedAtRest ==
    (attempt = NoAttempt /\ IsConnected /\ "disconnect" \notin tooEarly) => authenticated

(* A request fails only with the socket it was sent on: the close of a     *)
(* socket that was replaced does not disturb the one in use.               *)
FailsWithItsSocket ==
    [][\A r \in Request : (request[r] = "pending" /\ request'[r] = "failed") =>
          \A s \in Socket : sentOn[r] = s /\ socket = s => wire[s] # "open"]_vars

(* Nobody waits for ever.  A request in flight settles when its socket     *)
(* ends, unless the socket is replaced before it reports that, or counted  *)
(* as closed before; every connect() and reconnect() settles, with the     *)
(* deadline to bound the handshake, unless it is abandoned (disconnected,  *)
(* failAuthentication).                                                    *)
CallersSettle ==
    /\ \A r \in Request : \A s \in Socket :
          (/\ request[r] = "pending" /\ sentOn[r] = s /\ socket = s
           /\ wire[s] # "open" /\ s \notin closeNotified)
            ~> (request[r] # "pending" \/ socket # s)
    /\ (attempt # NoAttempt) ~> (attempt = NoAttempt \/ Abandoned)

(* With autoReconnect, a connection lost while no attempt is in progress   *)
(* is followed by an attempt to connect again, until close() is called.    *)
ReconnectsAfterDrop ==
    \A s \in Socket \ {MaxSocket} :
        (/\ AutoReconnect /\ ~manualClose /\ attempt = NoAttempt
         /\ socket = s /\ wire[s] = "lost" /\ s \notin closeNotified)
          ~> (socket # s \/ manualClose)

(* With autoReconnect, a retry that fails after its socket has reported    *)
(* its end is followed by another retry.                                   *)
RetriesAgain ==
    [][(/\ attempt.kind = "retry" /\ attempt' = NoAttempt /\ attempt.outcome = "failed"
        /\ inApplication /\ ShouldAutoReconnect /\ socket \in closeNotified)
         => reconnectTimer']_vars
=============================================================================
