----------------------------- MODULE Admission ------------------------------
(***************************************************************************)
(* What a server lets in: the attempts to connect and the connections that *)
(* EpServer.ts counts, in all and by address, and the calls and changes of *)
(* properties that a connection asks for, which the resource managers      *)
(* permit, refuse or delay.                                                *)
(*                                                                         *)
(* An upgrade to a WebSocket is admitted when its request is verified and  *)
(* again when the socket is open; in between others go through.  Time is   *)
(* counted in permits of the rate policy; a window is Window of them.      *)
(***************************************************************************)
EXTENDS ResourceManagers, Sequences, FiniteSets

CONSTANTS
    Address,                    \* addresses of the peers
    Unknown,                    \* an address the socket does not tell
    Member,                     \* members of a resource that bear a rate policy
    MaximumConnections, MaximumConnectionsPerIpAddress,
    MaximumAttempts, MaximumAttemptsPerIpAddress, Window,
    MaxConn,                    \* bound: attempts to connect
    MaxTime,                    \* bound: the clock
    MaxRequest                  \* bound: requests received

ASSUME AdmissionAssumption ==
    /\ Unknown \notin Address
    /\ MaximumConnections \in Nat \ {0} /\ MaximumConnectionsPerIpAddress \in Nat \ {0}
    /\ MaximumAttempts \in Nat \ {0} /\ MaximumAttemptsPerIpAddress \in Nat \ {0}
    /\ Window \in Nat \ {0} /\ MaxConn \in Nat /\ MaxTime \in Nat /\ MaxRequest \in Nat

VARIABLES
    now,
    globalAttemptWindow, attemptWindowsByAddress,
    connectionAddresses,        \* the connections registered
    connectionCountsByAddress,
    conn,                       \* each connection
    buckets,                    \* the rate policy's, by connection and member
    request                     \* the requests received, in order

vars == <<now, globalAttemptWindow, attemptWindowsByAddress, connectionAddresses,
          connectionCountsByAddress, conn, buckets, request>>
counts == <<globalAttemptWindow, attemptWindowsByAddress, connectionAddresses,
            connectionCountsByAddress>>

-----------------------------------------------------------------------------
Conn == 1 .. MaxConn
Time == 0 .. MaxTime
AttemptWindow(limit) == [startedAt : Time, count : 0 .. limit]
NewConn == [state |-> "unused", address |-> Unknown, at |-> 0]
Connection == [state : {"unused", "refused", "upgrading", "open", "closed"},
               address : Address \cup {Unknown}, at : Time]

(* due: the time the delay of a request ends; at: when it came to be what  *)
(* it is, which for one that is run is when it took effect.                *)
Request == [conn : Conn, member : Member, state : {"delayed", "denied", "refused", "run"},
            due : Nat, at : Nat]

Init ==
    /\ now = 0
    /\ globalAttemptWindow = [startedAt |-> 0, count |-> 0]
    /\ attemptWindowsByAddress = [a \in Address |-> [startedAt |-> 0, count |-> 0]]
    /\ connectionAddresses = {}
    /\ connectionCountsByAddress = [a \in Address |-> 0]
    /\ conn = [c \in Conn |-> NewConn]
    /\ buckets = [c \in Conn |-> [m \in Member |-> FullBucket]]
    /\ request = <<>>

(* Mutant: a new window is not dated.                                      *)
Current_Undated(w) == IF now - w.startedAt >= Window THEN [w EXCEPT !.count = 0] ELSE w

Current(w) == IF now - w.startedAt >= Window THEN [startedAt |-> now, count |-> 0] ELSE w
Counted(w) == [Current(w) EXCEPT !.count = @ + 1]

Full(a) ==
    \/ Cardinality(connectionAddresses) >= MaximumConnections
    \/ a # Unknown /\ connectionCountsByAddress[a] >= MaximumConnectionsPerIpAddress

(* admitConnectionAttempt: an attempt counts in all even when it is then   *)
(* refused, and for its address once the server has room for it.           *)
AdmitConnectionAttempt(c, a) ==
    LET counted == Current(globalAttemptWindow).count < MaximumAttempts
        room == Cardinality(connectionAddresses) < MaximumConnections
        known == a # Unknown
        local == known => Current(attemptWindowsByAddress[a]).count < MaximumAttemptsPerIpAddress
    IN  /\ conn[c].state = "unused"
        /\ \A d \in Conn : conn[d].state = "unused" => c <= d
        /\ globalAttemptWindow' = IF counted THEN Counted(globalAttemptWindow)
                                  ELSE Current(globalAttemptWindow)
        /\ attemptWindowsByAddress' =
              IF ~(counted /\ room /\ known) THEN attemptWindowsByAddress
              ELSE [attemptWindowsByAddress EXCEPT
                      ![a] = IF local THEN Counted(@) ELSE Current(@)]
        /\ conn' = [conn EXCEPT ![c] =
              [state |-> IF counted /\ local /\ ~Full(a) THEN "upgrading" ELSE "refused",
               address |-> a, at |-> now]]
        /\ UNCHANGED <<now, connectionAddresses, connectionCountsByAddress, buckets, request>>

(* Mutant: the limits are left to the verification of the upgrade.         *)
RegisterConnection_Verified(c) ==
    LET a == conn[c].address
    IN  /\ conn[c].state = "upgrading"
        /\ conn' = [conn EXCEPT ![c].state = "open"]
        /\ connectionAddresses' = connectionAddresses \cup {c}
        /\ connectionCountsByAddress' =
              IF a = Unknown THEN connectionCountsByAddress
              ELSE [connectionCountsByAddress EXCEPT ![a] = @ + 1]
        /\ UNCHANGED <<now, globalAttemptWindow, attemptWindowsByAddress, buckets, request>>

(* registerConnection, when the socket of an upgrade is open.              *)
RegisterConnection(c) ==
    LET a == conn[c].address
    IN  /\ conn[c].state = "upgrading"
        /\ IF Full(a)
           THEN /\ conn' = [conn EXCEPT ![c].state = "refused"]
                /\ UNCHANGED <<connectionAddresses, connectionCountsByAddress>>
           ELSE /\ conn' = [conn EXCEPT ![c].state = "open"]
                /\ connectionAddresses' = connectionAddresses \cup {c}
                /\ connectionCountsByAddress' =
                      IF a = Unknown THEN connectionCountsByAddress
                      ELSE [connectionCountsByAddress EXCEPT ![a] = @ + 1]
        /\ UNCHANGED <<now, globalAttemptWindow, attemptWindowsByAddress, buckets, request>>

(* The peer goes away, in the middle of the upgrade or later:              *)
(* releaseConnection.                                                      *)
Close(c) ==
    LET a == conn[c].address
    IN  /\ conn[c].state \in {"upgrading", "open"}
        /\ conn' = [conn EXCEPT ![c].state = "closed"]
        /\ connectionAddresses' = connectionAddresses \ {c}
        /\ connectionCountsByAddress' =
              IF c \notin connectionAddresses \/ a = Unknown THEN connectionCountsByAddress
              ELSE [connectionCountsByAddress EXCEPT ![a] = IF @ <= 1 THEN 0 ELSE @ - 1]
        /\ UNCHANGED <<now, globalAttemptWindow, attemptWindowsByAddress, buckets, request>>

-----------------------------------------------------------------------------
(* tryApplyManagers in epRequestInvokeFunction and epRequestSetProperty:   *)
(* every manager rules on every request, so one that another manager       *)
(* denies takes its permit or its queue position all the same.             *)
TryApplyManagers(c, m, action) ==
    LET b == buckets[c][m]
        delay == IF Reserved(b).queued > b.queued THEN Delay(b) ELSE 0
    IN  /\ conn[c].state = "open" /\ Len(request) < MaxRequest
        /\ buckets' = [buckets EXCEPT ![c][m] = Reserved(b)]
        /\ \E other \in [category : {"permissions", "auditing"}, ruling : Ruling] :
              LET allowed == IsAllowed({other, RateVerdict(b)}, action)
                  state == CASE delay = 0 /\ allowed  -> "run"
                             [] delay = 0 /\ ~allowed -> "refused"
                             [] delay > 0 /\ allowed  -> "delayed"
                             [] OTHER                 -> "denied"
              IN  request' = Append(request, [conn |-> c, member |-> m, state |-> state,
                                              due |-> now + delay, at |-> now])
        /\ UNCHANGED <<now, counts, conn>>

(* The timers of a reservation, whether the connection is still there or   *)
(* not: the queue position is released, then the handler goes on.  A timer *)
(* never fires early, and may fire late; the two are set in one turn, for  *)
(* one delay, and are one here.                                            *)
DelayEnds(i) ==
    LET r == request[i]
    IN  /\ r.state \in {"delayed", "denied"} /\ r.due <= now
        /\ buckets' = [buckets EXCEPT ![r.conn][r.member] = QueuePositionReleased(@)]
        /\ request' = [request EXCEPT
                           ![i].state = IF @ = "delayed" THEN "run" ELSE "refused",
                           ![i].at = now]
        /\ UNCHANGED <<now, counts, conn>>

Elapse ==
    /\ now < MaxTime
    /\ now' = now + 1
    /\ buckets' = [c \in Conn |-> [m \in Member |-> Replenished(buckets[c][m])]]
    /\ UNCHANGED <<counts, conn, request>>

Next ==
    \/ Elapse
    \/ \E i \in DOMAIN request : DelayEnds(i)
    \/ \E c \in Conn :
          \/ RegisterConnection(c) \/ Close(c)
          \/ \E a \in Address \cup {Unknown} : AdmitConnectionAttempt(c, a)
          \/ \E m \in Member, action \in {"Execute", "SetProperty"} :
                TryApplyManagers(c, m, action)

Spec == Init /\ [][Next]_vars

-----------------------------------------------------------------------------
Open == {c \in Conn : conn[c].state = "open"}
OpenFrom(a) == {c \in Open : conn[c].address = a}

Of(c, m) == {i \in DOMAIN request : request[i].conn = c /\ request[i].member = m}

(* The windows, counts and buckets stay in range.                          *)
TypeOK ==
    /\ now \in Time
    /\ globalAttemptWindow \in AttemptWindow(MaximumAttempts)
    /\ attemptWindowsByAddress \in [Address -> AttemptWindow(MaximumAttemptsPerIpAddress)]
    /\ connectionAddresses \subseteq Conn
    /\ connectionCountsByAddress \in [Address -> Nat]
    /\ conn \in [Conn -> Connection]
    /\ buckets \in [Conn -> [Member -> Bucket]]
    /\ request \in Seq(Request)

(* The connections open are those counted, in all and by address, and no   *)
(* more than allowed, however many upgrades are under way at once and in   *)
(* whatever order they finish and close (registerConnection).              *)
ConnectionsWithinLimits ==
    /\ connectionAddresses = Open
    /\ Cardinality(Open) <= MaximumConnections
    /\ \A a \in Address : /\ connectionCountsByAddress[a] = Cardinality(OpenFrom(a))
                           /\ Cardinality(OpenFrom(a)) <= MaximumConnectionsPerIpAddress

(* Windows follow one another, so no stretch of the length of a window     *)
(* admits more than two windows' attempts (admitConnectionAttempt).        *)
AttemptsWithinLimits ==
    \A t \in Time :
        LET admitted == {c \in Conn : /\ conn[c].state \notin {"unused", "refused"}
                                      /\ conn[c].at \in t .. (t + Window - 1)}
        IN  /\ Cardinality(admitted) <= 2 * MaximumAttempts
            /\ \A a \in Address : Cardinality({c \in admitted : conn[c].address = a})
                                    <= 2 * MaximumAttemptsPerIpAddress

(* A queue position is held by each reservation that waits and by nothing  *)
(* else (BurstRatePolicy.applicable).  Of the requests of a connection for *)
(* a member, those that are run are due, in any stretch of time, no faster *)
(* than a full bucket and the permits of that time; and those that take    *)
(* effect in it, their timers being late perhaps, exceed that by no more   *)
(* than the queue.                                                         *)
RateHolds ==
    \A c \in Conn, m \in Member :
        LET ran == {i \in Of(c, m) : request[i].state = "run"}
        IN  /\ buckets[c][m].queued = Cardinality({i \in Of(c, m) :
                                          request[i].state \in {"delayed", "denied"}})
            /\ ran # {} => \A t \in Time : \A u \in t .. MaxTime :
                  /\ Cardinality({i \in ran : request[i].due \in t .. u}) <= Capacity + (u - t)
                  /\ Cardinality({i \in ran : request[i].at \in t .. u})
                        <= Capacity + QueueLimit + (u - t)
=============================================================================
