-------------------------- MODULE AdmissionProofs --------------------------
(***************************************************************************)
(* Proofs about Admission, for any addresses, members, limits and bounds.  *)
(***************************************************************************)
EXTENDS Admission, FiniteSetTheorems, SequenceTheorems, TLAPS

USE AdmissionAssumption, ResourceManagersAssumption

-----------------------------------------------------------------------------
(* The attempts to connect.                                                *)

Admitted == {c \in Conn : conn[c].state \notin {"unused", "refused"}}
AdmittedFrom(a) == {c \in Admitted : conn[c].address = a}
At == [c \in Conn |-> conn[c].at]

(* What the window w promises of the attempts in S, admitted at the times  *)
(* at: it has counted those since it started, those a window's length      *)
(* before are the ones of the window before, and no stretch of that length *)
(* has more than two windows'.                                             *)
Since(S, at, s) == {c \in S : at[c] >= s}
Within(S, at, t) == {c \in S : t <= at[c] /\ at[c] < t + Window}
WindowHolds(w, S, at, limit, time) ==
    /\ w.startedAt <= time
    /\ \A c \in S : at[c] <= time /\ at[c] < w.startedAt + Window
    /\ Cardinality(Since(S, at, w.startedAt)) <= w.count
    /\ Cardinality(Within(S, at, w.startedAt - Window)) <= limit
    /\ \A t \in Int : Cardinality(Within(S, at, t)) <= 2 * limit

WindowsHold ==
    /\ WindowHolds(globalAttemptWindow, Admitted, At, MaximumAttempts, now)
    /\ \A a \in Address :
          WindowHolds(attemptWindowsByAddress[a], AdmittedFrom(a), At,
                      MaximumAttemptsPerIpAddress, now)

-----------------------------------------------------------------------------
(* The requests.                                                           *)

Larger(x, y) == IF x >= y THEN x ELSE y

Pending(c, m) == {i \in Of(c, m) : request[i].state \in {"delayed", "denied"}}

(* The requests that take effect, or will, from t to u.                    *)
Effective(c, m) == {i \in Of(c, m) : request[i].state \in {"run", "delayed"}}
Taking(c, m, t, u) == {i \in Effective(c, m) : request[i].due \in t .. u}

(* The permits taken in advance are those of the moments to come, one each,*)
(* and what a bucket holds is what a stretch that ends now, or later, has  *)
(* left.                                                                   *)
BucketHolds(c, m) ==
    LET b == buckets[c][m]
    IN  /\ b.queued = Cardinality(Pending(c, m))
        /\ \A i \in Effective(c, m) : request[i].due > now => request[i].due <= now - b.tokens
        /\ \A i, j \in Effective(c, m) :
              request[i].due > now /\ request[i].due = request[j].due => i = j
        /\ \A t, u \in Nat : t <= now /\ now <= u =>
              Cardinality(Taking(c, m, t, u))
                <= Capacity - Larger(b.tokens, now - u) + (now - t)
        /\ \A t, u \in Nat : t <= u /\ u < now =>
              Cardinality(Taking(c, m, t, u)) <= Capacity + (u - t)

BucketsHold ==
    /\ \A i \in DOMAIN request : request[i].state = "run" => request[i].due <= now
    /\ \A c \in Conn, m \in Member : BucketHolds(c, m)

(* At most as many requests as the queue holds were, at the time t, due    *)
(* before and not yet run: a timer that is late keeps its queue position.  *)
Late(c, m, t) == {i \in Of(c, m) :
    /\ request[i].due < t
    /\ request[i].state \in {"delayed", "denied"} \/ (request[i].state = "run" /\ request[i].at >= t)}

LateHeld == \A c \in Conn, m \in Member, t \in Nat :
                t <= now => Cardinality(Late(c, m, t)) <= QueueLimit

(* No request takes effect before it is due.                               *)
Dated(r) == r.at <= now /\ (r.state = "run" => r.due <= r.at)
EffectsHold == LateHeld /\ \A i \in DOMAIN request : Dated(request[i])

(* The limits say nothing of what a window and a bucket have already given:*)
(* alone they are not inductive.                                           *)
IInv == TypeOK /\ ConnectionsWithinLimits /\ WindowsHold /\ BucketsHold

-----------------------------------------------------------------------------
(* Cardinalities.                                                          *)

LEMMA Shrink ==
  ASSUME NEW T, IsFiniteSet(T), NEW S \in SUBSET T
  PROVE  /\ IsFiniteSet(S) /\ Cardinality(S) \in Nat /\ Cardinality(T) \in Nat
         /\ Cardinality(S) <= Cardinality(T)
  <1>1. IsFiniteSet(S) /\ Cardinality(S) <= Cardinality(T)
    BY FS_Subset
  <1> QED BY <1>1, FS_CardinalityType

LEMMA Grow ==
  ASSUME NEW T, IsFiniteSet(T), NEW x, NEW S \in SUBSET (T \cup {x})
  PROVE  /\ IsFiniteSet(S) /\ Cardinality(S) \in Nat /\ Cardinality(T) \in Nat
         /\ Cardinality(S) <= Cardinality(T) + 1
  <1>1. /\ IsFiniteSet(T \cup {x})
        /\ Cardinality(T \cup {x}) = IF x \in T THEN Cardinality(T) ELSE Cardinality(T) + 1
    BY FS_AddElement
  <1>2. /\ IsFiniteSet(S) /\ Cardinality(S) \in Nat
        /\ Cardinality(S) <= Cardinality(T \cup {x})
    BY <1>1, Shrink
  <1>3. Cardinality(T) \in Nat
    BY FS_CardinalityType
  <1> QED BY <1>1, <1>2, <1>3

LEMMA Join ==
  ASSUME NEW T, IsFiniteSet(T), NEW U, IsFiniteSet(U), NEW S \in SUBSET (T \cup U)
  PROVE  /\ IsFiniteSet(S) /\ Cardinality(S) \in Nat
         /\ Cardinality(T) \in Nat /\ Cardinality(U) \in Nat
         /\ Cardinality(S) <= Cardinality(T) + Cardinality(U)
  <1>1. /\ IsFiniteSet(T \cup U)
        /\ Cardinality(T \cup U) = Cardinality(T) + Cardinality(U) - Cardinality(T \cap U)
    BY FS_Union
  <1>2. IsFiniteSet(T \cap U)
    BY FS_Subset
  <1>3. Cardinality(T) \in Nat /\ Cardinality(U) \in Nat /\ Cardinality(T \cap U) \in Nat
    BY <1>2, FS_CardinalityType
  <1>4. /\ IsFiniteSet(S) /\ Cardinality(S) \in Nat
        /\ Cardinality(S) <= Cardinality(T \cup U)
    BY <1>1, Shrink
  <1> QED BY <1>1, <1>3, <1>4

LEMMA ConnSets == \A S \in SUBSET Conn : IsFiniteSet(S) /\ Cardinality(S) \in Nat
  BY FS_Interval, Shrink, MaxConn \in Int, 1 \in Int DEF Conn

-----------------------------------------------------------------------------
(* A window goes on holding when attempts are forgotten and time goes by.  *)
LEMMA WindowShrinks ==
  ASSUME NEW S \in SUBSET Conn, NEW T \in SUBSET S,
         NEW at \in [Conn -> Int], NEW at2 \in [Conn -> Int], \A c \in T : at2[c] = at[c],
         NEW limit \in Nat, NEW w \in AttemptWindow(limit),
         NEW time \in Int, NEW later \in Int, time <= later,
         WindowHolds(w, S, at, limit, time)
  PROVE  WindowHolds(w, T, at2, limit, later)
  <1>0. w.startedAt \in Int /\ w.count \in Nat
    BY DEF AttemptWindow, Time
  <1>1. w.startedAt <= later
    BY <1>0 DEF WindowHolds
  <1>2. \A c \in T : at2[c] <= later /\ at2[c] < w.startedAt + Window
    BY <1>0 DEF WindowHolds
  <1>3. Cardinality(Since(T, at2, w.startedAt)) <= w.count
    <2>1. Since(S, at, w.startedAt) \in SUBSET Conn
      BY DEF Since
    <2>2. Since(T, at2, w.startedAt) \in SUBSET Since(S, at, w.startedAt)
      BY DEF Since
    <2>3. /\ Cardinality(Since(T, at2, w.startedAt)) <= Cardinality(Since(S, at, w.startedAt))
          /\ Cardinality(Since(T, at2, w.startedAt)) \in Nat
          /\ Cardinality(Since(S, at, w.startedAt)) \in Nat
      BY <2>1, <2>2, ConnSets, Shrink
    <2> QED BY <1>0, <2>3 DEF WindowHolds
  <1>4. ASSUME NEW t \in Int, NEW n \in Int, Cardinality(Within(S, at, t)) <= n
        PROVE  Cardinality(Within(T, at2, t)) <= n
    <2>1. Within(S, at, t) \in SUBSET Conn
      BY DEF Within
    <2>2. Within(T, at2, t) \in SUBSET Within(S, at, t)
      BY DEF Within
    <2>3. /\ Cardinality(Within(T, at2, t)) <= Cardinality(Within(S, at, t))
          /\ Cardinality(Within(T, at2, t)) \in Nat
          /\ Cardinality(Within(S, at, t)) \in Nat
      BY <2>1, <2>2, ConnSets, Shrink
    <2> QED BY <1>4, <2>3
  <1>5. Cardinality(Within(T, at2, w.startedAt - Window)) <= limit
    BY <1>0, <1>4 DEF WindowHolds
  <1>6. \A t \in Int : Cardinality(Within(T, at2, t)) <= 2 * limit
    BY <1>4, 2 * limit \in Int DEF WindowHolds
  <1> QED BY <1>1, <1>2, <1>3, <1>5, <1>6 DEF WindowHolds

(* A new window has admitted nothing, and the one before no more than its  *)
(* limit.                                                                  *)
LEMMA CurrentHolds ==
  ASSUME NEW S \in SUBSET Conn, NEW at \in [Conn -> Int], now \in Time,
         NEW limit \in Nat, NEW w \in AttemptWindow(limit),
         WindowHolds(w, S, at, limit, now)
  PROVE  /\ Current(w) \in AttemptWindow(limit)
         /\ now < Current(w).startedAt + Window
         /\ WindowHolds(Current(w), S, at, limit, now)
  <1>0. /\ w.startedAt \in Int /\ w.count \in Nat /\ w.count <= limit /\ now \in Int
        /\ w.startedAt <= now
    BY DEF AttemptWindow, Time, WindowHolds
  <1>1. CASE now - w.startedAt < Window
    <2>1. Current(w) = w
      BY <1>0, <1>1 DEF Current
    <2> QED BY <1>0, <1>1, <2>1
  <1>2. CASE now - w.startedAt >= Window
    <2> DEFINE v == [startedAt |-> now, count |-> 0]
    <2>1. Current(w) = v
      BY <1>2 DEF Current
    <2>2. v \in AttemptWindow(limit)
      BY DEF AttemptWindow
    <2>3. \A c \in S : at[c] <= now /\ at[c] < w.startedAt + Window
      BY DEF WindowHolds
    <2>4. Cardinality(Since(S, at, v.startedAt)) <= v.count
      <3>1. Since(S, at, v.startedAt) = {}
        BY <1>0, <1>2, <2>3 DEF Since
      <3> QED BY <3>1, FS_EmptySet
    <2>5. Cardinality(Within(S, at, v.startedAt - Window)) <= limit
      <3>1. Within(S, at, v.startedAt - Window) \in SUBSET Since(S, at, w.startedAt)
        BY <1>0, <1>2 DEF Within, Since
      <3>2. Since(S, at, w.startedAt) \in SUBSET Conn
        BY DEF Since
      <3>3. /\ Cardinality(Within(S, at, v.startedAt - Window))
                  <= Cardinality(Since(S, at, w.startedAt))
            /\ Cardinality(Within(S, at, v.startedAt - Window)) \in Nat
            /\ Cardinality(Since(S, at, w.startedAt)) \in Nat
        BY <3>1, <3>2, ConnSets, Shrink
      <3> QED BY <1>0, <3>3 DEF WindowHolds
    <2>6. \A c \in S : at[c] <= now /\ at[c] < v.startedAt + Window
      BY <1>0, <2>3
    <2>7. WindowHolds(v, S, at, limit, now)
      BY <1>0, <2>4, <2>5, <2>6 DEF WindowHolds
    <2> QED BY <1>0, <2>1, <2>2, <2>7
  <1> QED BY <1>0, <1>1, <1>2

(* One more attempt, counted in the current window: a stretch it is in     *)
(* reaches back into the window before, and no further.                    *)
LEMMA CountedHolds ==
  ASSUME NEW S \in SUBSET Conn, NEW c \in Conn \ S,
         NEW at \in [Conn -> Int], NEW at2 \in [Conn -> Int],
         \A d \in S : at2[d] = at[d], at2[c] = now, now \in Time,
         NEW limit \in Nat, NEW v \in AttemptWindow(limit),
         now < v.startedAt + Window, v.count < limit,
         WindowHolds(v, S, at, limit, now)
  PROVE  /\ [v EXCEPT !.count = @ + 1] \in AttemptWindow(limit)
         /\ WindowHolds([v EXCEPT !.count = @ + 1], S \cup {c}, at2, limit, now)
  <1> DEFINE w == [v EXCEPT !.count = @ + 1]
             s == v.startedAt
             T == S \cup {c}
  <1>0. /\ s \in Int /\ v.count \in Nat /\ now \in Int /\ s <= now
        /\ w.startedAt = s /\ w.count = v.count + 1 /\ w \in AttemptWindow(limit)
    BY DEF AttemptWindow, Time, WindowHolds
  <1>1. \A d \in T : at2[d] <= now /\ at2[d] < s + Window
    BY <1>0 DEF WindowHolds
  <1>2. /\ Cardinality(Since(T, at2, s)) <= v.count + 1
        /\ IsFiniteSet(Since(T, at2, s)) /\ Cardinality(Since(T, at2, s)) \in Nat
    <2>1. Since(S, at, s) \in SUBSET Conn /\ Since(T, at2, s) \in SUBSET (Since(S, at, s) \cup {c})
      BY DEF Since
    <2>2. IsFiniteSet(Since(S, at, s))
      BY <2>1, ConnSets
    <2>3. /\ IsFiniteSet(Since(T, at2, s)) /\ Cardinality(Since(T, at2, s)) \in Nat
          /\ Cardinality(Since(S, at, s)) \in Nat
          /\ Cardinality(Since(T, at2, s)) <= Cardinality(Since(S, at, s)) + 1
      BY <2>1, <2>2, Grow
    <2> QED BY <1>0, <2>3 DEF WindowHolds
  <1>3. \A t \in Int : c \notin Within(T, at2, t) => Within(T, at2, t) = Within(S, at, t)
    BY DEF Within
  <1>4. /\ Cardinality(Within(T, at2, s - Window)) <= limit
        /\ Within(T, at2, s - Window) \in SUBSET Conn
    <2>1. c \notin Within(T, at2, s - Window)
      BY <1>0 DEF Within
    <2>2. Within(T, at2, s - Window) = Within(S, at, s - Window)
      <3>1. s - Window \in Int
        BY <1>0
      <3> QED BY <1>3, <2>1, <3>1
    <2>3. Cardinality(Within(T, at2, s - Window)) <= limit
      BY <2>2 DEF WindowHolds
    <2> QED BY <2>3 DEF Within
  <1>5. ASSUME NEW t \in Int PROVE Cardinality(Within(T, at2, t)) <= 2 * limit
    <2>1. CASE c \notin Within(T, at2, t)
      <3>1. Within(T, at2, t) = Within(S, at, t)
        BY <1>3, <2>1
      <3>2. Cardinality(Within(S, at, t)) <= 2 * limit
        BY DEF WindowHolds
      <3> QED BY <3>1, <3>2
    <2>2. CASE c \in Within(T, at2, t)
      <3>1. now < t + Window
        BY <2>2 DEF Within
      <3>2. Within(T, at2, t) \in SUBSET (Within(T, at2, s - Window) \cup Since(T, at2, s))
        BY <1>0, <3>1 DEF Within, Since
      <3>3. IsFiniteSet(Within(T, at2, s - Window))
        BY <1>4, ConnSets
      <3>4. /\ Cardinality(Within(T, at2, t))
                 <= Cardinality(Within(T, at2, s - Window)) + Cardinality(Since(T, at2, s))
            /\ Cardinality(Within(T, at2, t)) \in Nat
            /\ Cardinality(Within(T, at2, s - Window)) \in Nat
        BY <1>2, <3>2, <3>3, Join
      <3> QED BY <1>0, <1>2, <1>4, <3>4
    <2> QED BY <2>1, <2>2
  <1> QED BY <1>0, <1>1, <1>2, <1>4, <1>5 DEF WindowHolds

-----------------------------------------------------------------------------
(* The initial states.                                                     *)
LEMMA InitIInv == Init => IInv
  <1> SUFFICES ASSUME Init PROVE IInv
    OBVIOUS
  <1>1. TypeOK
    <2>1. 0 \in Time /\ 0 \in Nat
      BY DEF Time
    <2>2. NewConn \in Connection
      BY <2>1 DEF NewConn, Connection
    <2>3. FullBucket \in Bucket
      BY DEF FullBucket, Bucket
    <2>4. <<>> \in Seq(Request)
      OBVIOUS
    <2> QED BY <2>1, <2>2, <2>3, <2>4 DEF Init, TypeOK, AttemptWindow
  <1>2. ConnectionsWithinLimits
    <2>1. Open = {} /\ \A a \in Address : OpenFrom(a) = {}
      BY DEF Init, NewConn, Open, OpenFrom
    <2>2. Cardinality({}) = 0 /\ 0 <= MaximumConnections /\ 0 <= MaximumConnectionsPerIpAddress
      BY FS_EmptySet
    <2>3. connectionAddresses = {} /\ \A a \in Address : connectionCountsByAddress[a] = 0
      BY DEF Init
    <2> QED BY <2>1, <2>2, <2>3 DEF ConnectionsWithinLimits
  <1>3. WindowsHold
    <2>1. Admitted = {} /\ \A a \in Address : AdmittedFrom(a) = {}
      BY DEF Init, NewConn, Admitted, AdmittedFrom
    <2>2. \A t \in Int : Since({}, At, t) = {} /\ Within({}, At, t) = {}
      BY DEF Since, Within
    <2>3. ASSUME NEW limit \in Nat
          PROVE  WindowHolds([startedAt |-> 0, count |-> 0], {}, At, limit, 0)
      BY <2>2, FS_EmptySet DEF WindowHolds
    <2> QED BY <2>1, <2>3 DEF Init, WindowsHold
  <1>4. BucketsHold
    <2>1. \A c \in Conn, m \in Member : Of(c, m) = {}
      BY DEF Init, Of
    <2>2. ASSUME NEW c \in Conn, NEW m \in Member PROVE BucketHolds(c, m)
      <3>1. Pending(c, m) = {} /\ Effective(c, m) = {}
        BY <2>1 DEF Pending, Effective
      <3>2. \A t, u \in Nat : Taking(c, m, t, u) = {}
        BY <3>1 DEF Taking
      <3>3. buckets[c][m] = FullBucket /\ now = 0
        BY DEF Init
      <3>4. /\ FullBucket.tokens = Capacity /\ FullBucket.queued = 0 /\ Cardinality({}) = 0
            /\ \A u \in Nat : Larger(Capacity, 0 - u) = Capacity
        BY FS_EmptySet DEF FullBucket, Larger
      <3>5. \A t, u \in Nat : /\ t <= 0 /\ 0 <= u => 0 <= Capacity - Capacity + (0 - t)
                              /\ ~(t <= u /\ u < 0)
        OBVIOUS
      <3> HIDE DEF FullBucket
      <3> QED BY <3>1, <3>2, <3>3, <3>4, <3>5 DEF BucketHolds
    <2> QED BY <2>2 DEF BucketsHold, Init
  <1> QED BY <1>1, <1>2, <1>3, <1>4 DEF IInv

-----------------------------------------------------------------------------
(* Where an operation leaves a part alone.                                 *)

LEMMA ConnectionsKept ==
  ASSUME ConnectionsWithinLimits, UNCHANGED <<conn, connectionAddresses, connectionCountsByAddress>>
  PROVE  ConnectionsWithinLimits'
  BY DEF ConnectionsWithinLimits, Open, OpenFrom

LEMMA WindowsKept ==
  ASSUME WindowsHold, UNCHANGED <<now, conn, globalAttemptWindow, attemptWindowsByAddress>>
  PROVE  WindowsHold'
  BY DEF WindowsHold, WindowHolds, Since, Within, Admitted, AdmittedFrom, At

LEMMA BucketsKept ==
  ASSUME BucketsHold, UNCHANGED <<now, buckets, request>>
  PROVE  BucketsHold'
  <1>1. ASSUME NEW c \in Conn, NEW m \in Member PROVE BucketHolds(c, m)'
    <2>1. /\ Pending(c, m)' = Pending(c, m) /\ Effective(c, m)' = Effective(c, m)
          /\ \A t, u \in Nat : Taking(c, m, t, u)' = Taking(c, m, t, u)
      BY DEF Pending, Effective, Taking, Of
    <2>2. BucketHolds(c, m)
      BY DEF BucketsHold
    <2> QED BY <2>1, <2>2 DEF BucketHolds
  <1> QED BY <1>1 DEF BucketsHold

(* Attempts that were admitted go on, or are refused after all.            *)
LEMMA WindowsShrink ==
  ASSUME TypeOK, TypeOK', WindowsHold,
         UNCHANGED <<globalAttemptWindow, attemptWindowsByAddress>>, now <= now',
         \A c \in Admitted' : /\ c \in Admitted
                              /\ conn'[c].address = conn[c].address /\ conn'[c].at = conn[c].at
  PROVE  WindowsHold'
  <1>0. /\ Admitted \in SUBSET Conn /\ Admitted' \in SUBSET Admitted
        /\ At \in [Conn -> Int] /\ At' \in [Conn -> Int] /\ \A c \in Admitted' : At'[c] = At[c]
        /\ now \in Int /\ now' \in Int
    BY DEF Admitted, At, TypeOK, Connection, Time
  <1>1. WindowHolds(globalAttemptWindow, Admitted', At', MaximumAttempts, now')
    <2>1. globalAttemptWindow \in AttemptWindow(MaximumAttempts)
      BY DEF TypeOK
    <2>2. WindowHolds(globalAttemptWindow, Admitted, At, MaximumAttempts, now)
      BY DEF WindowsHold
    <2> QED BY <1>0, <2>1, <2>2, WindowShrinks, MaximumAttempts \in Nat
  <1>2. ASSUME NEW a \in Address
        PROVE  WindowHolds(attemptWindowsByAddress[a], AdmittedFrom(a)', At',
                           MaximumAttemptsPerIpAddress, now')
    <2>0. /\ AdmittedFrom(a) \in SUBSET Conn /\ AdmittedFrom(a)' \in SUBSET AdmittedFrom(a)
          /\ \A c \in AdmittedFrom(a)' : At'[c] = At[c]
      BY <1>0 DEF AdmittedFrom
    <2>1. attemptWindowsByAddress[a] \in AttemptWindow(MaximumAttemptsPerIpAddress)
      BY DEF TypeOK
    <2>2. WindowHolds(attemptWindowsByAddress[a], AdmittedFrom(a), At,
                      MaximumAttemptsPerIpAddress, now)
      BY DEF WindowsHold
    <2> QED BY <1>0, <2>0, <2>1, <2>2, WindowShrinks, MaximumAttemptsPerIpAddress \in Nat
  <1> QED BY <1>1, <1>2 DEF WindowsHold

-----------------------------------------------------------------------------
(* An attempt to connect.                                                  *)
LEMMA AdmitStep ==
  ASSUME IInv, NEW c \in Conn, NEW a \in Address \cup {Unknown}, AdmitConnectionAttempt(c, a)
  PROVE  IInv'
  <1> DEFINE counted == Current(globalAttemptWindow).count < MaximumAttempts
             room == Cardinality(connectionAddresses) < MaximumConnections
             known == a # Unknown
             local == known => Current(attemptWindowsByAddress[a]).count
                                  < MaximumAttemptsPerIpAddress
             ok == counted /\ local /\ ~Full(a)
             new == [state |-> IF ok THEN "upgrading" ELSE "refused", address |-> a, at |-> now]
  <1>0. /\ TypeOK /\ ConnectionsWithinLimits /\ WindowsHold /\ BucketsHold
        /\ conn[c].state = "unused" /\ conn' = [conn EXCEPT ![c] = new]
        /\ UNCHANGED <<now, connectionAddresses, connectionCountsByAddress, buckets, request>>
    BY DEF IInv, AdmitConnectionAttempt
  <1>1. /\ now \in Time /\ now \in Int /\ At \in [Conn -> Int]
        /\ MaximumAttempts \in Nat /\ MaximumAttemptsPerIpAddress \in Nat
        /\ Admitted \in SUBSET Conn /\ c \notin Admitted
    BY <1>0 DEF TypeOK, Time, At, Connection, Admitted
  <1>2. /\ new \in Connection /\ conn' \in [Conn -> Connection]
        /\ conn'[c] = new /\ \A d \in Conn \ {c} : conn'[d] = conn[d]
    BY <1>0, <1>1 DEF TypeOK, Connection
  <1>3. /\ At' \in [Conn -> Int] /\ At'[c] = now /\ \A d \in Admitted : At'[d] = At[d]
    BY <1>1, <1>2 DEF At, Connection, Time
  <1>4. /\ Admitted' = IF ok THEN Admitted \cup {c} ELSE Admitted
        /\ \A b \in Address : AdmittedFrom(b)' =
              IF ok /\ b = a THEN AdmittedFrom(b) \cup {c} ELSE AdmittedFrom(b)
    <2>1. Admitted' = IF ok THEN Admitted \cup {c} ELSE Admitted
      BY <1>0, <1>1, <1>2 DEF Admitted
    <2> QED BY <1>1, <1>2, <2>1 DEF AdmittedFrom
  <1>5. ASSUME NEW S \in SUBSET Admitted, NEW limit \in Nat, NEW w \in AttemptWindow(limit),
               WindowHolds(w, S, At, limit, now)
        PROVE  /\ WindowHolds(w, S, At', limit, now)
               /\ Current(w) \in AttemptWindow(limit)
               /\ WindowHolds(Current(w), S, At', limit, now)
               /\ Current(w).count < limit =>
                     /\ Counted(w) \in AttemptWindow(limit)
                     /\ WindowHolds(Counted(w), S \cup {c}, At', limit, now)
                     /\ WindowHolds(Counted(w), S, At', limit, now)
    <2>0. S \in SUBSET Conn /\ c \in Conn \ S /\ now <= now /\ \A d \in S : At'[d] = At[d]
      BY <1>1, <1>3
    <2>1. WindowHolds(w, S, At', limit, now)
      BY <1>1, <1>3, <1>5, <2>0, WindowShrinks
    <2>2. /\ Current(w) \in AttemptWindow(limit) /\ now < Current(w).startedAt + Window
          /\ WindowHolds(Current(w), S, At', limit, now)
      BY <1>1, <1>3, <2>0, <2>1, CurrentHolds
    <2>3. ASSUME Current(w).count < limit
          PROVE  /\ Counted(w) \in AttemptWindow(limit)
                 /\ WindowHolds(Counted(w), S \cup {c}, At', limit, now)
      BY <1>1, <1>3, <2>0, <2>2, <2>3, CountedHolds DEF Counted
    <2>4. ASSUME Current(w).count < limit
          PROVE  WindowHolds(Counted(w), S, At', limit, now)
      <3>1. S \cup {c} \in SUBSET Conn /\ S \in SUBSET (S \cup {c})
        BY <2>0
      <3> QED BY <1>1, <1>3, <2>0, <2>3, <2>4, <3>1, WindowShrinks
    <2> QED BY <2>1, <2>2, <2>3, <2>4
  <1>6. /\ globalAttemptWindow' \in AttemptWindow(MaximumAttempts)
        /\ WindowHolds(globalAttemptWindow', Admitted', At', MaximumAttempts, now)
    <2>1. /\ globalAttemptWindow \in AttemptWindow(MaximumAttempts)
          /\ WindowHolds(globalAttemptWindow, Admitted, At, MaximumAttempts, now)
      BY <1>0 DEF TypeOK, WindowsHold
    <2>2. globalAttemptWindow' = IF counted THEN Counted(globalAttemptWindow)
                                 ELSE Current(globalAttemptWindow)
      BY DEF AdmitConnectionAttempt
    <2> QED BY <1>1, <1>4, <1>5, <2>1, <2>2
  <1>7. ASSUME NEW b \in Address
        PROVE  /\ attemptWindowsByAddress'[b] \in AttemptWindow(MaximumAttemptsPerIpAddress)
               /\ WindowHolds(attemptWindowsByAddress'[b], AdmittedFrom(b)', At',
                              MaximumAttemptsPerIpAddress, now)
    <2> DEFINE w == attemptWindowsByAddress[b]
    <2>1. /\ w \in AttemptWindow(MaximumAttemptsPerIpAddress)
          /\ WindowHolds(w, AdmittedFrom(b), At, MaximumAttemptsPerIpAddress, now)
          /\ AdmittedFrom(b) \in SUBSET Admitted
      BY <1>0 DEF TypeOK, WindowsHold, AdmittedFrom
    <2>2. CASE b # a \/ ~(counted /\ room /\ known)
      <3>1. attemptWindowsByAddress'[b] = w
        BY <1>0, <2>2 DEF AdmitConnectionAttempt, TypeOK
      <3>2. ~(ok /\ b = a)
        <4>1. Cardinality(connectionAddresses) \in Nat
          BY <1>0, ConnSets DEF TypeOK
        <4> QED BY <2>2, <4>1 DEF Full
      <3> QED BY <1>1, <1>4, <1>5, <2>1, <3>1, <3>2
    <2>3. CASE b = a /\ counted /\ room /\ known
      <3>1. attemptWindowsByAddress'[b] = IF local THEN Counted(w) ELSE Current(w)
        <4>1. attemptWindowsByAddress' =
                 [attemptWindowsByAddress EXCEPT
                    ![a] = IF local THEN Counted(@) ELSE Current(@)]
          BY <2>3 DEF AdmitConnectionAttempt
        <4> QED BY <1>0, <2>3, <4>1 DEF TypeOK
      <3>2. local <=> Current(w).count < MaximumAttemptsPerIpAddress
        BY <2>3
      <3>3. AdmittedFrom(b)' = IF ok THEN AdmittedFrom(b) \cup {c} ELSE AdmittedFrom(b)
        BY <1>4, <2>3
      <3>4. CASE local
        BY <1>1, <1>5, <2>1, <3>1, <3>2, <3>3, <3>4
      <3>5. CASE ~local
        BY <1>1, <1>5, <2>1, <3>1, <3>3, <3>5
      <3> QED BY <3>4, <3>5
    <2> QED BY <2>2, <2>3
  <1>8. WindowsHold'
    BY <1>0, <1>6, <1>7 DEF WindowsHold
  <1>9. TypeOK'
    <2>1. attemptWindowsByAddress' \in [Address -> AttemptWindow(MaximumAttemptsPerIpAddress)]
      <3>1. DOMAIN attemptWindowsByAddress' = Address
              /\ attemptWindowsByAddress' = [b \in Address |-> attemptWindowsByAddress'[b]]
        BY <1>0 DEF AdmitConnectionAttempt, TypeOK
      <3> QED BY <1>7, <3>1
    <2> QED BY <1>0, <1>2, <1>6, <2>1 DEF TypeOK
  <1>10. ConnectionsWithinLimits'
    <2>1. Open' = Open
      BY <1>0, <1>2 DEF Open
    <2>2. \A b \in Address : OpenFrom(b)' = OpenFrom(b)
      BY <1>0, <1>2, <2>1 DEF OpenFrom, Open
    <2> QED BY <1>0, <2>1, <2>2 DEF ConnectionsWithinLimits
  <1> QED BY <1>0, <1>8, <1>9, <1>10, BucketsKept DEF IInv

-----------------------------------------------------------------------------
(* A connection that is registered, or goes away.                          *)

LEMMA RegisterStep ==
  ASSUME IInv, NEW c \in Conn, RegisterConnection(c)
  PROVE  IInv'
  <1> DEFINE a == conn[c].address
  <1>0. /\ TypeOK /\ ConnectionsWithinLimits /\ WindowsHold /\ BucketsHold
        /\ conn[c].state = "upgrading"
        /\ UNCHANGED <<now, globalAttemptWindow, attemptWindowsByAddress, buckets, request>>
    BY DEF IInv, RegisterConnection
  <1>1. /\ now \in Int /\ conn \in [Conn -> Connection] /\ c \notin Open
        /\ connectionAddresses \in SUBSET Conn /\ Open \in SUBSET Conn
        /\ connectionCountsByAddress \in [Address -> Nat]
    BY <1>0 DEF TypeOK, Time, Open
  <1>2. PICK state \in {"refused", "open"} :
            /\ conn' = [conn EXCEPT ![c].state = state]
            /\ state = "refused" <=> Full(a)
    BY DEF RegisterConnection
  <1>3. /\ conn'[c].state = state /\ conn'[c].address = a /\ conn'[c].at = conn[c].at
        /\ \A d \in Conn \ {c} : conn'[d] = conn[d]
        /\ conn' \in [Conn -> Connection]
    BY <1>1, <1>2 DEF Connection
  <1>4. /\ Open' = IF state = "open" THEN Open \cup {c} ELSE Open
        /\ \A b \in Address : OpenFrom(b)' =
              IF state = "open" /\ b = a THEN OpenFrom(b) \cup {c} ELSE OpenFrom(b)
    <2>1. Open' = IF state = "open" THEN Open \cup {c} ELSE Open
      BY <1>1, <1>2, <1>3 DEF Open
    <2> QED BY <1>1, <1>3, <2>1 DEF OpenFrom
  <1>5. TypeOK'
    <2>1. /\ connectionAddresses' \in SUBSET Conn
          /\ connectionCountsByAddress' \in [Address -> Nat]
      BY <1>1 DEF RegisterConnection
    <2> QED BY <1>0, <1>3, <2>1 DEF TypeOK
  <1>6. ConnectionsWithinLimits'
    <2>1. CASE state = "refused"
      <3>1. UNCHANGED <<connectionAddresses, connectionCountsByAddress>>
        BY <1>2, <2>1 DEF RegisterConnection
      <3> QED BY <1>0, <1>4, <2>1, <3>1 DEF ConnectionsWithinLimits
    <2>2. CASE state = "open"
      <3>1. /\ connectionAddresses' = connectionAddresses \cup {c}
            /\ connectionCountsByAddress' =
                  IF a = Unknown THEN connectionCountsByAddress
                  ELSE [connectionCountsByAddress EXCEPT ![a] = @ + 1]
        BY <1>2, <2>2 DEF RegisterConnection
      <3>2. IsFiniteSet(Open) /\ Cardinality(Open) \in Nat
        BY <1>1, ConnSets
      <3>3. /\ Cardinality(Open) < MaximumConnections
            /\ a \in Address => connectionCountsByAddress[a] < MaximumConnectionsPerIpAddress
        BY <1>0, <1>1, <1>2, <2>2, <3>2 DEF Full, ConnectionsWithinLimits
      <3>4. Cardinality(Open') <= MaximumConnections
        <4>1. Cardinality(Open') = Cardinality(Open) + 1
          BY <1>1, <1>4, <2>2, <3>2, FS_AddElement
        <4> QED BY <3>2, <3>3, <4>1
      <3>5. ASSUME NEW b \in Address
            PROVE  /\ connectionCountsByAddress'[b] = Cardinality(OpenFrom(b)')
                   /\ Cardinality(OpenFrom(b)') <= MaximumConnectionsPerIpAddress
        <4>0. /\ OpenFrom(b) \in SUBSET Conn /\ c \notin OpenFrom(b)
              /\ connectionCountsByAddress[b] = Cardinality(OpenFrom(b))
              /\ Cardinality(OpenFrom(b)) <= MaximumConnectionsPerIpAddress
          BY <1>0, <1>1 DEF OpenFrom, ConnectionsWithinLimits
        <4>1. CASE b = a
          <5>1. IsFiniteSet(OpenFrom(b)) /\ Cardinality(OpenFrom(b)) \in Nat
            BY <4>0, ConnSets
          <5>2. Cardinality(OpenFrom(b)') = Cardinality(OpenFrom(b)) + 1
            BY <1>4, <2>2, <4>0, <4>1, <5>1, FS_AddElement
          <5>3. connectionCountsByAddress'[b] = connectionCountsByAddress[b] + 1
            BY <1>1, <3>1, <4>1
          <5> QED BY <3>3, <4>0, <4>1, <5>1, <5>2, <5>3
        <4>2. CASE b # a
          BY <1>1, <1>4, <3>1, <4>0, <4>2
        <4> QED BY <4>1, <4>2
      <3> QED BY <1>0, <1>4, <2>2, <3>1, <3>4, <3>5 DEF ConnectionsWithinLimits
    <2> QED BY <2>1, <2>2
  <1>7. WindowsHold'
    <2>1. \A d \in Admitted' : /\ d \in Admitted
                               /\ conn'[d].address = conn[d].address /\ conn'[d].at = conn[d].at
      BY <1>0, <1>3 DEF Admitted
    <2> QED BY <1>0, <1>1, <1>5, <2>1, WindowsShrink
  <1> QED BY <1>0, <1>5, <1>6, <1>7, BucketsKept DEF IInv

LEMMA CloseStep ==
  ASSUME IInv, NEW c \in Conn, Close(c)
  PROVE  IInv'
  <1> DEFINE a == conn[c].address
  <1>0. /\ TypeOK /\ ConnectionsWithinLimits /\ WindowsHold /\ BucketsHold
        /\ conn[c].state \in {"upgrading", "open"}
        /\ conn' = [conn EXCEPT ![c].state = "closed"]
        /\ connectionAddresses' = connectionAddresses \ {c}
        /\ connectionCountsByAddress' =
              IF c \notin connectionAddresses \/ a = Unknown THEN connectionCountsByAddress
              ELSE [connectionCountsByAddress EXCEPT ![a] = IF @ <= 1 THEN 0 ELSE @ - 1]
        /\ UNCHANGED <<now, globalAttemptWindow, attemptWindowsByAddress, buckets, request>>
    BY DEF IInv, Close
  <1>1. /\ now \in Int /\ conn \in [Conn -> Connection]
        /\ Open \in SUBSET Conn /\ connectionAddresses = Open
        /\ connectionCountsByAddress \in [Address -> Nat]
    BY <1>0 DEF TypeOK, Time, Open, ConnectionsWithinLimits
  <1>3. /\ conn'[c].state = "closed" /\ conn'[c].address = a /\ conn'[c].at = conn[c].at
        /\ \A d \in Conn \ {c} : conn'[d] = conn[d]
        /\ conn' \in [Conn -> Connection]
    BY <1>0, <1>1 DEF Connection
  <1>4. /\ Open' = Open \ {c}
        /\ \A b \in Address : OpenFrom(b)' = OpenFrom(b) \ {c}
    <2>1. Open' = Open \ {c}
      BY <1>1, <1>3 DEF Open
    <2> QED BY <1>1, <1>3, <2>1 DEF OpenFrom
  <1>5. TypeOK'
    <2>1. connectionCountsByAddress' \in [Address -> Nat]
      <3>1. a \in Address => connectionCountsByAddress[a] \in Nat
        BY <1>1
      <3>2. a \in Address => (IF connectionCountsByAddress[a] <= 1 THEN 0
                             ELSE connectionCountsByAddress[a] - 1) \in Nat
        BY <3>1
      <3>3. a \in Address \/ a = Unknown
        BY <1>1 DEF Connection
      <3> QED BY <1>0, <1>1, <3>2, <3>3
    <2> QED BY <1>0, <1>3, <2>1 DEF TypeOK
  <1>6. ConnectionsWithinLimits'
    <2>1. Cardinality(Open') <= MaximumConnections
      <3>1. IsFiniteSet(Open) /\ Cardinality(Open) \in Nat /\ Open' \in SUBSET Open
        BY <1>1, <1>4, ConnSets
      <3>2. Cardinality(Open') <= Cardinality(Open) /\ Cardinality(Open') \in Nat
        BY <3>1, Shrink
      <3> QED BY <1>0, <3>1, <3>2 DEF ConnectionsWithinLimits
    <2>2. ASSUME NEW b \in Address
          PROVE  /\ connectionCountsByAddress'[b] = Cardinality(OpenFrom(b)')
                 /\ Cardinality(OpenFrom(b)') <= MaximumConnectionsPerIpAddress
      <3>0. /\ OpenFrom(b) \in SUBSET Conn
            /\ c \in OpenFrom(b) <=> c \in Open /\ b = a
            /\ connectionCountsByAddress[b] = Cardinality(OpenFrom(b))
            /\ Cardinality(OpenFrom(b)) <= MaximumConnectionsPerIpAddress
        BY <1>0, <1>1 DEF OpenFrom, ConnectionsWithinLimits
      <3>1. /\ IsFiniteSet(OpenFrom(b)) /\ Cardinality(OpenFrom(b)) \in Nat
            /\ Cardinality(OpenFrom(b) \ {c}) \in Nat
            /\ Cardinality(OpenFrom(b) \ {c}) =
                  IF c \in OpenFrom(b) THEN Cardinality(OpenFrom(b)) - 1
                  ELSE Cardinality(OpenFrom(b))
        BY <3>0, ConnSets, FS_RemoveElement, FS_CardinalityType
      <3>2. connectionCountsByAddress'[b] =
              IF c \in Open /\ b = a
              THEN IF connectionCountsByAddress[b] <= 1 THEN 0 ELSE connectionCountsByAddress[b] - 1
              ELSE connectionCountsByAddress[b]
        <4>1. b # Unknown
          OBVIOUS
        <4>2. CASE c \in Open /\ b = a
          <5>1. connectionCountsByAddress' =
                  [connectionCountsByAddress EXCEPT ![a] = IF @ <= 1 THEN 0 ELSE @ - 1]
            BY <1>0, <1>1, <4>1, <4>2
          <5> QED BY <1>1, <4>2, <5>1
        <4>3. CASE ~(c \in Open /\ b = a)
          BY <1>0, <1>1, <4>3
        <4> QED BY <4>2, <4>3
      <3>3. Cardinality(OpenFrom(b)') = Cardinality(OpenFrom(b) \ {c})
        BY <1>4
      <3>4. CASE c \in OpenFrom(b)
        BY <3>0, <3>1, <3>2, <3>3, <3>4
      <3>5. CASE c \notin OpenFrom(b)
        BY <3>0, <3>1, <3>2, <3>3, <3>5
      <3> QED BY <3>4, <3>5
    <2> QED BY <1>0, <1>1, <1>4, <2>1, <2>2 DEF ConnectionsWithinLimits
  <1>7. WindowsHold'
    <2>1. \A d \in Admitted' : /\ d \in Admitted
                               /\ conn'[d].address = conn[d].address /\ conn'[d].at = conn[d].at
      BY <1>0, <1>3 DEF Admitted
    <2> QED BY <1>0, <1>1, <1>5, <2>1, WindowsShrink
  <1> QED BY <1>0, <1>5, <1>6, <1>7, BucketsKept DEF IInv

-----------------------------------------------------------------------------
(* The requests of a connection for a member.                              *)

LEMMA Requests ==
  ASSUME TypeOK, NEW c \in Conn, NEW m \in Member
  PROVE  /\ Of(c, m) \in SUBSET (1 .. Len(request)) /\ IsFiniteSet(Of(c, m))
         /\ Pending(c, m) \in SUBSET Of(c, m) /\ Effective(c, m) \in SUBSET Of(c, m)
         /\ \A t, u : Taking(c, m, t, u) \in SUBSET Effective(c, m)
         /\ \A i \in Of(c, m) : request[i] \in Request
         /\ buckets[c][m] \in Bucket /\ buckets[c][m].tokens \in Int
         /\ buckets[c][m].tokens <= Capacity /\ now \in Nat
  <1>1. Len(request) \in Nat /\ DOMAIN request = 1 .. Len(request)
        /\ \A i \in DOMAIN request : request[i] \in Request
    BY DEF TypeOK
  <1>2. Of(c, m) \in SUBSET (1 .. Len(request))
    BY <1>1 DEF Of
  <1>3. IsFiniteSet(Of(c, m))
    <2>1. IsFiniteSet(1 .. Len(request))
      BY <1>1, FS_Interval
    <2> QED BY <1>2, <2>1, FS_Subset
  <1>4. buckets[c][m] \in Bucket /\ now \in Nat
    BY DEF TypeOK, Time
  <1>5. buckets[c][m].tokens \in Int /\ buckets[c][m].tokens <= Capacity
    BY <1>4 DEF Bucket
  <1> QED BY <1>1, <1>2, <1>3, <1>4, <1>5 DEF Of, Pending, Effective, Taking

LEMMA TakingFinite ==
  ASSUME TypeOK, NEW c \in Conn, NEW m \in Member
  PROVE  \A t, u : IsFiniteSet(Taking(c, m, t, u)) /\ Cardinality(Taking(c, m, t, u)) \in Nat
  <1> TAKE t, u
  <1>1. Taking(c, m, t, u) \in SUBSET Of(c, m) /\ IsFiniteSet(Of(c, m))
    BY Requests
  <1> QED BY <1>1, Shrink

(* The requests of others change nothing.                                  *)
LEMMA BucketApart ==
  ASSUME NEW c \in Conn, NEW m \in Member, BucketHolds(c, m), now' = now,
         buckets'[c][m] = buckets[c][m], Of(c, m)' = Of(c, m),
         \A i \in Of(c, m) : request'[i] = request[i]
  PROVE  BucketHolds(c, m)'
  <1>1. /\ Pending(c, m)' = Pending(c, m) /\ Effective(c, m)' = Effective(c, m)
        /\ \A i \in Effective(c, m) : request'[i] = request[i]
    BY DEF Pending, Effective
  <1>2. \A t, u \in Nat : Taking(c, m, t, u)' = Taking(c, m, t, u)
    BY <1>1 DEF Taking
  <1> QED BY <1>1, <1>2 DEF BucketHolds

(* One more request: it takes the next permit of the bucket, now or to     *)
(* come, or it never takes effect.                                         *)
LEMMA Reservation ==
  ASSUME TypeOK, TypeOK', NEW c \in Conn, NEW m \in Member, BucketHolds(c, m), now' = now,
         NEW n, n \notin Of(c, m), Effective(c, m)' \in SUBSET (Effective(c, m) \cup {n}),
         \A i \in Effective(c, m) : request'[i] = request[i],
         buckets'[c][m].queued = Cardinality(Pending(c, m)'),
         buckets'[c][m].tokens <= buckets[c][m].tokens,
         n \in Effective(c, m)' =>
            /\ buckets'[c][m].tokens = buckets[c][m].tokens - 1
            /\ request'[n].due = IF buckets[c][m].tokens >= 1 THEN now
                                 ELSE now + 1 - buckets[c][m].tokens
  PROVE  BucketHolds(c, m)'
  <1> DEFINE k == buckets[c][m].tokens
             l == buckets'[c][m].tokens
             d == IF k >= 1 THEN now ELSE now + 1 - k
  <1>0. /\ k \in Int /\ l \in Int /\ now \in Nat /\ l <= k /\ d \in Int /\ d >= now
        /\ n \in Effective(c, m)' => l = k - 1 /\ request'[n].due = d
    <2>1. buckets'[c][m] \in Bucket
      BY DEF TypeOK
    <2> QED BY <2>1, Requests DEF Bucket
  <1>1. \A i \in Effective(c, m) : request[i].due \in Nat
    BY Requests DEF Request
  <1>2. \A i \in Effective(c, m)' : request'[i].due > now => request'[i].due <= now - l
    <2>1. \A i \in Effective(c, m) : request[i].due > now => request[i].due <= now - k
      BY DEF BucketHolds
    <2>2. \A i \in Effective(c, m) : request[i].due > now => request[i].due <= now - l
      BY <1>0, <1>1, <2>1
    <2>3. n \in Effective(c, m)' /\ request'[n].due > now => request'[n].due <= now - l
      BY <1>0
    <2> QED BY <2>2, <2>3
  <1>3. \A i, j \in Effective(c, m)' :
           request'[i].due > now /\ request'[i].due = request'[j].due => i = j
    <2>1. \A i, j \in Effective(c, m) :
             request[i].due > now /\ request[i].due = request[j].due => i = j
      BY DEF BucketHolds
    <2>2. ASSUME NEW i \in Effective(c, m), n \in Effective(c, m)',
                 request'[i].due = request'[n].due, request'[n].due > now
          PROVE  FALSE
      <3>1. request[i].due > now => request[i].due <= now - k
        BY DEF BucketHolds
      <3>2. request[i].due = d /\ d > now
        BY <1>0, <2>2
      <3> QED BY <1>0, <3>1, <3>2
    <2>3. ASSUME NEW i \in Effective(c, m)', NEW j \in Effective(c, m)',
                 request'[i].due > now, request'[i].due = request'[j].due
          PROVE  i = j
      <3>1. CASE i = n /\ j = n
        BY <3>1
      <3>2. CASE i # n /\ j # n
        <4>1. i \in Effective(c, m) /\ j \in Effective(c, m)
          BY <3>2
        <4> QED BY <2>1, <2>3, <4>1
      <3>3. CASE i = n /\ j # n
        <4>1. j \in Effective(c, m) /\ n \in Effective(c, m)'
          BY <3>3
        <4> QED BY <2>2, <2>3, <3>3, <4>1
      <3>4. CASE i # n /\ j = n
        <4>1. i \in Effective(c, m) /\ n \in Effective(c, m)'
          BY <3>4
        <4> QED BY <2>2, <2>3, <3>4, <4>1
      <3> QED BY <3>1, <3>2, <3>3, <3>4
    <2> QED BY <2>3
  <1>4. ASSUME NEW t \in Nat, NEW u \in Nat
        PROVE  /\ n \notin Taking(c, m, t, u)' =>
                      Cardinality(Taking(c, m, t, u)') <= Cardinality(Taking(c, m, t, u))
               /\ Cardinality(Taking(c, m, t, u)') <= Cardinality(Taking(c, m, t, u)) + 1
               /\ Cardinality(Taking(c, m, t, u)') \in Nat
               /\ Cardinality(Taking(c, m, t, u)) \in Nat
    <2>1. Taking(c, m, t, u)' \in SUBSET (Taking(c, m, t, u) \cup {n})
      BY DEF Taking
    <2>2. IsFiniteSet(Taking(c, m, t, u))
      BY TakingFinite
    <2>3. n \notin Taking(c, m, t, u)' => Taking(c, m, t, u)' \in SUBSET Taking(c, m, t, u)
      BY <2>1
    <2>4. n \notin Taking(c, m, t, u)' =>
            Cardinality(Taking(c, m, t, u)') <= Cardinality(Taking(c, m, t, u))
      BY <2>2, <2>3, Shrink
    <2> QED BY <2>1, <2>2, <2>4, Grow
  <1>5. ASSUME NEW t \in Nat, NEW u \in Nat, t <= now, now <= u
        PROVE  Cardinality(Taking(c, m, t, u)') <= Capacity - Larger(l, now - u) + (now - t)
    <2>1. Cardinality(Taking(c, m, t, u)) <= Capacity - Larger(k, now - u) + (now - t)
      BY <1>5 DEF BucketHolds
    <2>2. CASE n \notin Taking(c, m, t, u)'
      <3>1. /\ Larger(l, now - u) \in Int /\ Larger(k, now - u) \in Int
            /\ Larger(l, now - u) <= Larger(k, now - u)
        BY <1>0 DEF Larger
      <3>2. /\ Cardinality(Taking(c, m, t, u)') <= Cardinality(Taking(c, m, t, u))
            /\ Cardinality(Taking(c, m, t, u)') \in Nat /\ Cardinality(Taking(c, m, t, u)) \in Nat
        BY <1>4, <2>2
      <3> QED BY <1>0, <2>1, <3>1, <3>2
    <2>3. CASE n \in Taking(c, m, t, u)'
      <3>1. n \in Effective(c, m)' /\ d <= u
        BY <1>0, <2>3 DEF Taking
      <3>2. l = k - 1
        BY <1>0, <3>1
      <3>3. Larger(k, now - u) = k /\ Larger(l, now - u) = l
        BY <1>0, <1>5, <3>1, <3>2 DEF Larger
      <3>4. /\ Cardinality(Taking(c, m, t, u)') <= Cardinality(Taking(c, m, t, u)) + 1
            /\ Cardinality(Taking(c, m, t, u)') \in Nat /\ Cardinality(Taking(c, m, t, u)) \in Nat
        BY <1>4
      <3>5. Cardinality(Taking(c, m, t, u)) <= Capacity - k + (now - t)
        BY <2>1, <3>3
      <3> QED BY <1>0, <3>2, <3>3, <3>4, <3>5
    <2> QED BY <2>2, <2>3
  <1>6. ASSUME NEW t \in Nat, NEW u \in Nat, t <= u, u < now
        PROVE  Cardinality(Taking(c, m, t, u)') <= Capacity + (u - t)
    <2>1. Cardinality(Taking(c, m, t, u)) <= Capacity + (u - t)
      BY <1>6 DEF BucketHolds
    <2>2. n \notin Taking(c, m, t, u)'
      BY <1>0, <1>6 DEF Taking
    <2> QED BY <1>4, <2>1, <2>2
  <1> QED BY <1>2, <1>3, <1>5, <1>6 DEF BucketHolds

(* A request that the rate policy denies takes no permit and has no delay, *)
(* and neither does it take effect.                                        *)
LEMMA RateDenied ==
  ASSUME NEW b, NEW other, NEW action, IsAllowed({other, RateVerdict(b)}, action)
  PROVE  b.tokens >= 1 \/ b.queued < QueueLimit
  <1> SUFFICES ASSUME ~(b.tokens >= 1 \/ b.queued < QueueLimit) PROVE FALSE
    OBVIOUS
  <1>1. RateVerdict(b) = [category |-> "rateControl", ruling |-> "Denied"]
    BY DEF RateVerdict
  <1>2. Aggregate({other, RateVerdict(b)}, "rateControl") = "Denied"
    BY <1>1 DEF Aggregate
  <1> QED BY <1>2 DEF IsAllowed

LEMMA TryStep ==
  ASSUME IInv, NEW c \in Conn, NEW m \in Member, NEW action, TryApplyManagers(c, m, action)
  PROVE  IInv'
  <1> DEFINE b == buckets[c][m]
             delay == IF Reserved(b).queued > b.queued THEN Delay(b) ELSE 0
             n == Len(request) + 1
  <1>0. /\ TypeOK /\ ConnectionsWithinLimits /\ WindowsHold /\ BucketsHold
        /\ buckets' = [buckets EXCEPT ![c][m] = Reserved(b)]
        /\ UNCHANGED <<now, counts, conn>>
    BY DEF IInv, TryApplyManagers
  <1>1. PICK r \in {"delayed", "denied", "refused", "run"} :
            /\ request' = Append(request, [conn |-> c, member |-> m, state |-> r,
                                           due |-> now + delay, at |-> now])
            /\ r \in {"delayed", "denied"} <=> delay > 0
            /\ r = "run" => b.tokens >= 1 \/ b.queued < QueueLimit
    <2>1. PICK other \in [category : {"permissions", "auditing"}, ruling : Ruling] :
             LET allowed == IsAllowed({other, RateVerdict(b)}, action)
                 state == CASE delay = 0 /\ allowed  -> "run"
                            [] delay = 0 /\ ~allowed -> "refused"
                            [] delay > 0 /\ allowed  -> "delayed"
                            [] OTHER                 -> "denied"
             IN  request' = Append(request, [conn |-> c, member |-> m, state |-> state,
                                             due |-> now + delay, at |-> now])
      BY DEF TryApplyManagers
    <2> DEFINE allowed == IsAllowed({other, RateVerdict(b)}, action)
    <2>2. allowed => b.tokens >= 1 \/ b.queued < QueueLimit
      BY RateDenied
    <2>3. delay \in Nat
      <3>1. b \in Bucket
        BY <1>0, Requests
      <3> HIDE DEF b
      <3>2. b.tokens \in Int /\ Delay(b) \in Nat
        BY <3>1 DEF Delay, Bucket
      <3> QED BY <3>2
    <2> HIDE DEF delay
    <2> DEFINE Made(r) == request' = Append(request, [conn |-> c, member |-> m, state |-> r,
                                                      due |-> now + delay, at |-> now])
    <2>4. CASE delay = 0 /\ allowed
      <3>1. Made("run")
        BY <2>1, <2>4
      <3> QED BY <2>2, <2>4, <3>1
    <2>5. CASE delay = 0 /\ ~allowed
      <3>1. Made("refused")
        BY <2>1, <2>5
      <3> QED BY <2>5, <3>1
    <2>6. CASE delay > 0 /\ allowed
      <3>1. Made("delayed")
        BY <2>1, <2>6
      <3> QED BY <2>6, <3>1
    <2>7. CASE delay > 0 /\ ~allowed
      <3>1. Made("denied")
        BY <2>1, <2>7
      <3> QED BY <2>7, <3>1
    <2> QED BY <2>3, <2>4, <2>5, <2>6, <2>7
  <1> DEFINE new == [conn |-> c, member |-> m, state |-> r, due |-> now + delay, at |-> now]
  <1>2. /\ b \in Bucket /\ b.tokens \in Int /\ b.queued \in Nat /\ b.queued <= QueueLimit
        /\ b.tokens <= Capacity /\ now \in Nat
    <2>1. b \in Bucket /\ now \in Nat
      BY <1>0, Requests
    <2> HIDE DEF b
    <2> QED BY <2>1 DEF Bucket
  <1>3. /\ delay \in Nat
        /\ delay > 0 <=> b.tokens < 1 /\ b.queued < QueueLimit
        /\ delay > 0 => delay = 1 - b.tokens
        /\ Reserved(b) \in Bucket
        /\ Reserved(b).queued = IF delay > 0 THEN b.queued + 1 ELSE b.queued
        /\ Reserved(b).tokens = IF b.tokens >= 1 \/ delay > 0 THEN b.tokens - 1 ELSE b.tokens
    <2>1. CASE b.tokens >= 1
      BY <1>2, <2>1 DEF Reserved, Delay, Bucket
    <2>2. CASE b.tokens < 1 /\ b.queued < QueueLimit
      BY <1>2, <2>2 DEF Reserved, Delay, Bucket
    <2>3. CASE b.tokens < 1 /\ ~(b.queued < QueueLimit)
      BY <1>2, <2>3 DEF Reserved, Delay, Bucket
    <2> QED BY <1>2, <2>1, <2>2, <2>3
  <1>4. /\ new \in Request /\ request \in Seq(Request) /\ Len(request) \in Nat
        /\ DOMAIN request = 1 .. Len(request)
    BY <1>0, <1>2, <1>3 DEF Request, TypeOK
  <1>5. /\ request' \in Seq(Request) /\ DOMAIN request' = 1 .. n
        /\ request'[n] = new /\ \A i \in DOMAIN request : request'[i] = request[i]
        /\ n \notin DOMAIN request /\ DOMAIN request' = DOMAIN request \cup {n}
    BY <1>1, <1>4
  <1>6. TypeOK'
    <2>1. buckets' \in [Conn -> [Member -> Bucket]]
      BY <1>0, <1>3 DEF TypeOK
    <2> QED BY <1>0, <1>5, <2>1 DEF TypeOK, counts
  <1>7. \A d \in Conn, e \in Member :
            /\ buckets'[d][e] = IF d = c /\ e = m THEN Reserved(b) ELSE buckets[d][e]
            /\ Of(d, e)' = IF d = c /\ e = m THEN Of(d, e) \cup {n} ELSE Of(d, e)
    BY <1>0, <1>5 DEF TypeOK, Of
  <1>8. ASSUME NEW d \in Conn, NEW e \in Member PROVE BucketHolds(d, e)'
    <2>0. BucketHolds(d, e)
      BY <1>0 DEF BucketsHold
    <2>1. CASE ~(d = c /\ e = m)
      <3>1. \A i \in Of(d, e) : request'[i] = request[i]
        BY <1>5 DEF Of
      <3> QED BY <1>0, <1>7, <2>0, <2>1, <3>1, BucketApart
    <2>2. CASE d = c /\ e = m
      <3>0. BucketHolds(c, m)
        BY <2>0, <2>2
      <3>1. /\ Of(c, m)' = Of(c, m) \cup {n} /\ n \notin Of(c, m)
            /\ buckets'[c][m] = Reserved(b)
            /\ \A i \in Of(c, m) : request'[i] = request[i]
        BY <1>5, <1>7 DEF Of
      <3>2. /\ Effective(c, m)' = IF r \in {"run", "delayed"} THEN Effective(c, m) \cup {n}
                                  ELSE Effective(c, m)
            /\ \A i \in Effective(c, m) : request'[i] = request[i]
            /\ n \notin Effective(c, m)
        BY <1>5, <3>1 DEF Effective
      <3>3. /\ Pending(c, m)' = IF delay > 0 THEN Pending(c, m) \cup {n} ELSE Pending(c, m)
            /\ n \notin Pending(c, m)
        <4>1. request'[n].state = r
          BY <1>5
        <4>2. Pending(c, m)' = IF r \in {"delayed", "denied"} THEN Pending(c, m) \cup {n}
                               ELSE Pending(c, m)
          BY <3>1, <4>1 DEF Pending
        <4>3. n \notin Pending(c, m)
          BY <3>1 DEF Pending
        <4> QED BY <1>1, <4>2, <4>3
      <3>4. Reserved(b).queued = Cardinality(Pending(c, m)')
        <4>1. IsFiniteSet(Pending(c, m)) /\ Cardinality(Pending(c, m)) = b.queued
          BY <1>0, <3>0, Requests, FS_Subset DEF BucketHolds
        <4>2. Cardinality(Pending(c, m) \cup {n}) = b.queued + 1
          BY <3>3, <4>1, FS_AddElement
        <4> QED BY <1>3, <3>3, <4>1, <4>2
      <3>5. n \in Effective(c, m)' =>
               /\ Reserved(b).tokens = b.tokens - 1
               /\ request'[n].due = IF b.tokens >= 1 THEN now ELSE now + 1 - b.tokens
        <4>1. ASSUME r \in {"run", "delayed"}
              PROVE  /\ Reserved(b).tokens = b.tokens - 1
                     /\ now + delay = IF b.tokens >= 1 THEN now ELSE now + 1 - b.tokens
          BY <1>1, <1>2, <1>3, <4>1
        <4> QED BY <1>5, <3>2, <4>1
      <3>6. Reserved(b).tokens <= b.tokens
        BY <1>2, <1>3
      <3>7. BucketHolds(c, m)'
        BY <1>0, <1>6, <3>0, <3>1, <3>2, <3>4, <3>5, <3>6, Reservation
      <3> QED BY <2>2, <3>7
    <2> QED BY <2>1, <2>2
  <1>9. BucketsHold'
    <2>1. ASSUME NEW i \in DOMAIN request', request'[i].state = "run"
          PROVE  request'[i].due <= now
      <3>1. CASE i = n
        <4>1. delay = 0
          BY <1>1, <1>3, <1>5, <2>1, <3>1
        <4> QED BY <1>2, <1>5, <3>1, <4>1
      <3>2. CASE i # n
        BY <1>0, <1>5, <2>1, <3>2 DEF BucketsHold
      <3> QED BY <3>1, <3>2
    <2> QED BY <1>0, <1>8, <2>1 DEF BucketsHold
  <1> QED BY <1>0, <1>6, <1>9, ConnectionsKept, WindowsKept DEF IInv, counts

(* A delay that ends.                                                      *)
LEMMA DelayStep ==
  ASSUME IInv, NEW x \in DOMAIN request, DelayEnds(x)
  PROVE  IInv'
  <1> DEFINE c == request[x].conn
             m == request[x].member
             b == buckets[c][m]
             r == IF request[x].state = "delayed" THEN "run" ELSE "refused"
  <1>0. /\ TypeOK /\ ConnectionsWithinLimits /\ WindowsHold /\ BucketsHold
        /\ request[x].state \in {"delayed", "denied"} /\ request[x].due <= now
        /\ buckets' = [buckets EXCEPT ![c][m] = QueuePositionReleased(b)]
        /\ request' = [request EXCEPT ![x].state = r, ![x].at = now]
        /\ UNCHANGED <<now, counts, conn>>
    BY DEF IInv, DelayEnds
  <1>1. /\ request \in Seq(Request) /\ Len(request) \in Nat
        /\ DOMAIN request = 1 .. Len(request) /\ request[x] \in Request
        /\ c \in Conn /\ m \in Member /\ now \in Nat
    <2>0. now \in Nat
      BY <1>0 DEF TypeOK, Time
    <2>1. request \in Seq(Request)
      BY <1>0 DEF TypeOK
    <2>2. request[x] \in Request
      BY <2>1
    <2> QED BY <2>0, <2>1, <2>2 DEF Request
  <1>2. /\ DOMAIN request' = DOMAIN request
        /\ \A i \in DOMAIN request \ {x} : request'[i] = request[i]
        /\ request'[x] = [request[x] EXCEPT !.state = r, !.at = now] /\ request'[x] \in Request
        /\ request'[x].conn = c /\ request'[x].member = m /\ request'[x].state = r
        /\ request'[x].due = request[x].due
    <2>1. /\ DOMAIN request' = DOMAIN request
          /\ \A i \in DOMAIN request \ {x} : request'[i] = request[i]
          /\ request'[x] = [request[x] EXCEPT !.state = r, !.at = now]
      BY <1>0, <1>1
    <2> QED BY <1>1, <2>1 DEF Request
  <1>3. request' \in Seq(Request)
    <2> DEFINE e == [request[x] EXCEPT !.state = r, !.at = now]
    <2>1. request' = [request EXCEPT ![x] = e]
      BY <1>0
    <2>2. e \in Request
      BY <1>2
    <2> HIDE DEF e
    <2> QED BY <1>1, <2>1, <2>2, ExceptSeq
  <1>4. b \in Bucket /\ b.queued \in Nat /\ b.tokens \in Int
    <2>1. TypeOK /\ c \in Conn /\ m \in Member
      BY <1>0, <1>1
    <2> HIDE DEF c, m
    <2>2. b \in Bucket
      BY <2>1, Requests
    <2> QED BY <2>2 DEF Bucket
  <1>5. /\ QueuePositionReleased(b) \in Bucket
        /\ QueuePositionReleased(b).queued = IF b.queued > 0 THEN b.queued - 1 ELSE 0
        /\ QueuePositionReleased(b).tokens = b.tokens
    BY <1>4 DEF QueuePositionReleased, Bucket
  <1>6. TypeOK'
    <2>1. buckets' \in [Conn -> [Member -> Bucket]]
      BY <1>0, <1>1, <1>5 DEF TypeOK
    <2> QED BY <1>0, <1>3, <2>1 DEF TypeOK, counts
  <1>7. \A d \in Conn, e \in Member :
            /\ buckets'[d][e] = IF d = c /\ e = m THEN QueuePositionReleased(b) ELSE buckets[d][e]
            /\ Of(d, e)' = Of(d, e)
    <2>1. ASSUME NEW d \in Conn, NEW e \in Member PROVE Of(d, e)' = Of(d, e)
      BY <1>2 DEF Of
    <2> QED BY <1>0, <1>1, <2>1 DEF TypeOK
  <1>8. ASSUME NEW d \in Conn, NEW e \in Member PROVE BucketHolds(d, e)'
    <2>0. BucketHolds(d, e)
      BY <1>0 DEF BucketsHold
    <2>1. CASE ~(d = c /\ e = m)
      <3>1. x \notin Of(d, e) /\ Of(d, e) \in SUBSET DOMAIN request
        BY <2>1 DEF Of
      <3>2. \A i \in Of(d, e) : request'[i] = request[i]
        BY <1>2, <3>1
      <3>3. now' = now /\ buckets'[d][e] = buckets[d][e] /\ Of(d, e)' = Of(d, e)
        BY <1>0, <1>7, <2>1
      <3> QED BY <2>0, <3>2, <3>3, BucketApart
    <2>2. CASE d = c /\ e = m
      <3>0. Of(d, e) \in SUBSET DOMAIN request /\ x \in Of(d, e)
        BY <2>2 DEF Of
      <3>1. Effective(d, e)' = Effective(d, e)
        BY <1>0, <1>2, <1>7, <3>0 DEF Effective
      <3>2. \A i \in DOMAIN request : request'[i].due = request[i].due
        BY <1>2
      <3>3. Pending(d, e)' = Pending(d, e) \ {x} /\ x \in Pending(d, e)
        BY <1>0, <1>2, <1>7, <3>0 DEF Pending
      <3>4. QueuePositionReleased(b).queued = Cardinality(Pending(d, e)')
        <4>1. IsFiniteSet(Pending(d, e)) /\ Cardinality(Pending(d, e)) = b.queued
          BY <1>0, <2>0, <2>2, Requests, FS_Subset DEF BucketHolds
        <4>2. /\ Cardinality(Pending(d, e) \ {x}) = b.queued - 1
              /\ Cardinality(Pending(d, e) \ {x}) \in Nat
          BY <3>3, <4>1, FS_RemoveElement, FS_CardinalityType
        <4> QED BY <1>4, <1>5, <3>3, <4>2
      <3>5. \A t, u \in Nat : Taking(d, e, t, u)' = Taking(d, e, t, u)
        BY <3>0, <3>1, <3>2 DEF Taking, Effective
      <3>6. /\ Effective(d, e) \in SUBSET DOMAIN request
            /\ buckets'[d][e].tokens = buckets[d][e].tokens
            /\ buckets'[d][e].queued = Cardinality(Pending(d, e)')
        BY <1>5, <1>7, <2>2, <3>0, <3>4 DEF Effective
      <3>7. /\ DOMAIN request' = DOMAIN request /\ now' = now
            /\ \A i \in Effective(d, e)' : request'[i].due = request[i].due /\ i \in Effective(d, e)
        BY <1>0, <1>2, <3>1, <3>2, <3>6
      <3>8. /\ \A i \in Effective(d, e)' : request'[i].due > now =>
                    request'[i].due <= now - buckets'[d][e].tokens
            /\ \A i, j \in Effective(d, e)' :
                  request'[i].due > now /\ request'[i].due = request'[j].due => i = j
        BY <2>0, <3>6, <3>7 DEF BucketHolds
      <3>9. /\ \A t, u \in Nat : t <= now /\ now <= u =>
                  Cardinality(Taking(d, e, t, u)')
                    <= Capacity - Larger(buckets'[d][e].tokens, now - u) + (now - t)
            /\ \A t, u \in Nat : t <= u /\ u < now =>
                  Cardinality(Taking(d, e, t, u)') <= Capacity + (u - t)
        BY <2>0, <3>5, <3>6 DEF BucketHolds
      <3> QED BY <3>6, <3>7, <3>8, <3>9 DEF BucketHolds
    <2> QED BY <2>1, <2>2
  <1>9. BucketsHold'
    <2>1. \A i \in DOMAIN request' : request'[i].state = "run" => request'[i].due <= now
      BY <1>0, <1>2 DEF BucketsHold
    <2> QED BY <1>0, <1>8, <2>1 DEF BucketsHold
  <1> QED BY <1>0, <1>6, <1>9, ConnectionsKept, WindowsKept DEF IInv, counts

(* The permits taken in advance, up to u: one for a moment, and none after *)
(* what the bucket lacks.                                                  *)
LEMMA Slots ==
  ASSUME TypeOK, NEW c \in Conn, NEW m \in Member, BucketHolds(c, m),
         NEW u \in Nat, u > now, NEW l \in Int, l <= buckets[c][m].tokens + 1, l <= Capacity
  PROVE  Cardinality(Taking(c, m, now + 1, u)) <= Capacity - Larger(l, now + 1 - u)
  <1> DEFINE k == buckets[c][m].tokens
             S == Taking(c, m, now + 1, u)
             last == IF u <= now - k THEN u ELSE now - k
             T == (now + 1) .. last
             due == [i \in S |-> request[i].due]
  <1>1. k \in Int /\ k <= Capacity /\ now \in Nat /\ last \in Int
    BY Requests
  <1>2. \A i \in S : /\ request[i].due \in Nat /\ request[i].due > now
                     /\ request[i].due <= u /\ request[i].due <= now - k
    <2>1. \A i \in S : i \in Effective(c, m) /\ request[i].due \in (now + 1) .. u
      BY DEF Taking
    <2>2. \A i \in Effective(c, m) : request[i].due \in Nat
      BY Requests DEF Request
    <2> QED BY <1>1, <2>1, <2>2 DEF BucketHolds
  <1>3. due \in Injection(S, T)
    <2>1. due \in [S -> T]
      BY <1>1, <1>2
    <2>2. \A i, j \in S : due[i] = due[j] => i = j
      BY <1>2 DEF BucketHolds, Taking
    <2> QED BY <2>1, <2>2 DEF Injection, IsInjective
  <1>4. /\ IsFiniteSet(T)
        /\ Cardinality(T) = IF now + 1 > last THEN 0 ELSE last - (now + 1) + 1
    <2>1. now + 1 \in Int /\ last \in Int
      BY <1>1
    <2> HIDE DEF last
    <2> QED BY <2>1, FS_Interval
  <1>5. Cardinality(S) <= Cardinality(T) /\ Cardinality(S) \in Nat
    BY <1>3, <1>4, FS_Injection, FS_CardinalityType
  <1>6. last = IF u <= now - k THEN u ELSE now - k
    OBVIOUS
  <1>7. Larger(l, now + 1 - u) \in Int /\ Cardinality(T) \in Nat
    BY <1>1, <1>4, FS_CardinalityType DEF Larger
  <1> HIDE DEF last, T, S, due
  <1>8. Cardinality(T) <= Capacity - Larger(l, now + 1 - u)
    <2>1. CASE now + 1 > last
      BY <1>1, <1>4, <1>6, <2>1 DEF Larger
    <2>2. CASE now + 1 <= last
      <3>1. Cardinality(T) = last - now
        BY <1>1, <1>4, <2>2
      <3>2. last <= u /\ last <= now - k
        BY <1>1, <1>6
      <3>3. Larger(l, now + 1 - u) = l \/ Larger(l, now + 1 - u) = now + 1 - u
        BY DEF Larger
      <3>4. Capacity >= 1
        OBVIOUS
      <3> QED BY <1>1, <3>1, <3>2, <3>3, <3>4
    <2> QED BY <1>1, <2>1, <2>2
  <1> QED BY <1>5, <1>7, <1>8 DEF S

(* The clock goes on.                                                      *)
LEMMA ElapseStep ==
  ASSUME IInv, Elapse
  PROVE  IInv'
  <1>0. /\ TypeOK /\ ConnectionsWithinLimits /\ WindowsHold /\ BucketsHold
        /\ now' = now + 1 /\ now < MaxTime /\ now \in Nat /\ now' \in Nat
        /\ buckets' = [c \in Conn |-> [m \in Member |-> Replenished(buckets[c][m])]]
        /\ UNCHANGED <<counts, conn, request>>
    BY DEF IInv, Elapse, TypeOK, Time
  <1>1. ASSUME NEW c \in Conn, NEW m \in Member
        PROVE  /\ buckets'[c][m] \in Bucket
               /\ buckets'[c][m].queued = buckets[c][m].queued
               /\ buckets'[c][m].tokens = IF buckets[c][m].tokens < Capacity
                                         THEN buckets[c][m].tokens + 1 ELSE Capacity
    <2>1. buckets'[c][m] = Replenished(buckets[c][m]) /\ buckets[c][m] \in Bucket
      BY <1>0, Requests
    <2> QED BY <2>1 DEF Replenished, Bucket
  <1>2. TypeOK'
    <2>1. buckets' \in [Conn -> [Member -> Bucket]]
      BY <1>0, <1>1
    <2>2. now' \in Time
      BY <1>0 DEF Time
    <2> QED BY <1>0, <2>1, <2>2 DEF TypeOK, counts
  <1>3. WindowsHold'
    <2>1. \A d \in Admitted' : /\ d \in Admitted
                               /\ conn'[d].address = conn[d].address /\ conn'[d].at = conn[d].at
      BY <1>0 DEF Admitted
    <2>2. now <= now'
      BY <1>0
    <2> QED BY <1>0, <1>2, <2>1, <2>2, WindowsShrink DEF counts
  <1>4. ASSUME NEW c \in Conn, NEW m \in Member PROVE BucketHolds(c, m)'
    <2> DEFINE k == buckets[c][m].tokens
               l == buckets'[c][m].tokens
    <2>0. /\ BucketHolds(c, m) /\ k \in Int /\ k <= Capacity
          /\ l = IF k < Capacity THEN k + 1 ELSE Capacity
          /\ buckets'[c][m].queued = buckets[c][m].queued
      BY <1>0, <1>1, Requests DEF BucketsHold
    <2>1. /\ Pending(c, m)' = Pending(c, m) /\ Effective(c, m)' = Effective(c, m)
          /\ \A t, u : Taking(c, m, t, u)' = Taking(c, m, t, u)
          /\ request' = request
      BY <1>0 DEF Pending, Effective, Taking, Of
    <2>2. \A i \in Effective(c, m) : request[i].due \in Nat
      BY <1>0, Requests DEF Request
    <2>3. \A i \in Effective(c, m) : request[i].due > now + 1 => request[i].due <= now + 1 - l
      BY <1>0, <2>0, <2>2 DEF BucketHolds
    <2>4. \A i, j \in Effective(c, m) :
             request[i].due > now + 1 /\ request[i].due = request[j].due => i = j
      BY <1>0, <2>0, <2>2 DEF BucketHolds
    <2>5. ASSUME NEW t \in Nat, NEW u \in Nat, t <= now + 1, now + 1 <= u
          PROVE  Cardinality(Taking(c, m, t, u)) <= Capacity - Larger(l, now + 1 - u) + (now + 1 - t)
      <3>0. Cardinality(Taking(c, m, t, u)) \in Nat
        BY <1>0, TakingFinite
      <3>1. CASE t <= now
        <4>1. Cardinality(Taking(c, m, t, u)) <= Capacity - Larger(k, now - u) + (now - t)
          BY <1>0, <2>0, <2>5, <3>1 DEF BucketHolds
        <4>2. /\ Larger(k, now - u) \in Int /\ Larger(l, now + 1 - u) \in Int
              /\ Larger(l, now + 1 - u) <= Larger(k, now - u) + 1
          BY <1>0, <2>0 DEF Larger
        <4> QED BY <1>0, <3>0, <4>1, <4>2
      <3>2. CASE t = now + 1
        <4>1. u > now /\ l \in Int /\ l <= k + 1 /\ l <= Capacity
          BY <1>0, <2>0, <2>5
        <4>2. Cardinality(Taking(c, m, t, u)) <= Capacity - Larger(l, now + 1 - u)
          BY <1>0, <2>0, <3>2, <4>1, Slots
        <4>3. Larger(l, now + 1 - u) \in Int
          BY <1>0, <4>1 DEF Larger
        <4> QED BY <1>0, <3>0, <3>2, <4>2, <4>3
      <3> QED BY <1>0, <2>5, <3>1, <3>2
    <2>6. ASSUME NEW t \in Nat, NEW u \in Nat, t <= u, u < now + 1
          PROVE  Cardinality(Taking(c, m, t, u)) <= Capacity + (u - t)
      <3>0. Cardinality(Taking(c, m, t, u)) \in Nat
        BY <1>0, TakingFinite
      <3>1. CASE u < now
        BY <1>0, <2>0, <2>6, <3>1 DEF BucketHolds
      <3>2. CASE u = now
        <4>1. Cardinality(Taking(c, m, t, u)) <= Capacity - Larger(k, now - u) + (now - t)
          BY <1>0, <2>0, <2>6, <3>2 DEF BucketHolds
        <4>2. Larger(k, now - u) \in Int /\ Larger(k, now - u) >= 0
          BY <1>0, <2>0, <3>2 DEF Larger
        <4> QED BY <1>0, <2>6, <3>0, <3>2, <4>1, <4>2
      <3> QED BY <1>0, <2>6, <3>1, <3>2
    <2>7. buckets'[c][m].queued = Cardinality(Pending(c, m)')
      BY <2>0, <2>1 DEF BucketHolds
    <2>8. /\ \A i \in Effective(c, m)' : request'[i].due > now' => request'[i].due <= now' - l
          /\ \A i, j \in Effective(c, m)' :
                request'[i].due > now' /\ request'[i].due = request'[j].due => i = j
      <3>0. now' = now + 1 /\ now \in Int /\ l \in Int
        BY <1>0, <2>0
      <3> HIDE DEF k, l
      <3>1. \A i \in Effective(c, m) : request[i].due > now' => request[i].due <= now' - l
        BY <2>2, <2>3, <3>0
      <3>2. \A i, j \in Effective(c, m) :
               request[i].due > now' /\ request[i].due = request[j].due => i = j
        BY <2>2, <2>4, <3>0
      <3> QED BY <2>1, <3>1, <3>2
    <2>9. /\ \A t, u \in Nat : t <= now' /\ now' <= u =>
                Cardinality(Taking(c, m, t, u)') <= Capacity - Larger(l, now' - u) + (now' - t)
          /\ \A t, u \in Nat : t <= u /\ u < now' =>
                Cardinality(Taking(c, m, t, u)') <= Capacity + (u - t)
      BY <1>0, <2>1, <2>5, <2>6
    <2> HIDE DEF k, l
    <2> QED BY <2>7, <2>8, <2>9 DEF BucketHolds, l
  <1>5. BucketsHold'
    <2>1. \A i \in DOMAIN request : request[i].state = "run" => request[i].due <= now + 1
      <3>1. \A i \in DOMAIN request : request[i].due \in Nat
        <4>1. request \in Seq(Request)
          BY <1>0 DEF TypeOK
        <4>2. \A i \in DOMAIN request : request[i] \in Request
          BY <4>1
        <4> QED BY <4>2 DEF Request
      <3>2. \A i \in DOMAIN request : request[i].state = "run" => request[i].due <= now
        BY <1>0 DEF BucketsHold
      <3> QED BY <1>0, <3>1, <3>2
    <2> QED BY <1>0, <1>4, <2>1 DEF BucketsHold
  <1> QED BY <1>0, <1>2, <1>3, <1>5, ConnectionsKept DEF IInv, counts

-----------------------------------------------------------------------------
LEMMA NextIInv == IInv /\ [Next]_vars => IInv'
  <1> SUFFICES ASSUME IInv, [Next]_vars PROVE IInv'
    OBVIOUS
  <1>1. CASE Elapse
    BY <1>1, ElapseStep
  <1>2. ASSUME NEW i \in DOMAIN request, DelayEnds(i) PROVE IInv'
    BY <1>2, DelayStep
  <1>3. ASSUME NEW c \in Conn, RegisterConnection(c) PROVE IInv'
    BY <1>3, RegisterStep
  <1>4. ASSUME NEW c \in Conn, Close(c) PROVE IInv'
    BY <1>4, CloseStep
  <1>5. ASSUME NEW c \in Conn, NEW a \in Address \cup {Unknown}, AdmitConnectionAttempt(c, a)
        PROVE  IInv'
    BY <1>5, AdmitStep
  <1>6. ASSUME NEW c \in Conn, NEW m \in Member, NEW action \in {"Execute", "SetProperty"},
               TryApplyManagers(c, m, action)
        PROVE  IInv'
    BY <1>6, TryStep
  <1>7. CASE UNCHANGED vars
    <2>1. TypeOK'
      BY <1>7 DEF IInv, TypeOK, vars
    <2> QED BY <1>7, <2>1, ConnectionsKept, WindowsKept, BucketsKept DEF IInv, vars
  <1> QED BY <1>1, <1>2, <1>3, <1>4, <1>5, <1>6, <1>7 DEF Next

(* The invariant holds for any number of connections, addresses, members   *)
(* and requests, whatever the limits.                                      *)
THEOREM AdmissionInvariance == Spec => []IInv
  <1> QED BY InitIInv, NextIInv, PTL DEF Spec

(* The server never has more connections than its limits allow, in all and *)
(* from an address, and counts what it has (EpServer.registerConnection).  *)
THEOREM ConnectionsWithinLimitsAlways == Spec => []ConnectionsWithinLimits
  <1>1. IInv => ConnectionsWithinLimits
    BY DEF IInv
  <1> QED BY <1>1, AdmissionInvariance, PTL

(* No stretch of the length of a window sees more than two windows'        *)
(* attempts admitted (EpServer.admitConnectionAttempt).                    *)
THEOREM AttemptsWithinLimitsAlways == Spec => []AttemptsWithinLimits
  <1>1. ASSUME IInv PROVE AttemptsWithinLimits
    <2> SUFFICES ASSUME NEW t \in Time
                 PROVE  LET admitted == {c \in Conn : /\ conn[c].state \notin {"unused", "refused"}
                                                      /\ conn[c].at \in t .. (t + Window - 1)}
                        IN  /\ Cardinality(admitted) <= 2 * MaximumAttempts
                            /\ \A a \in Address :
                                  Cardinality({c \in admitted : conn[c].address = a})
                                    <= 2 * MaximumAttemptsPerIpAddress
      BY DEF AttemptsWithinLimits
    <2> DEFINE admitted == {c \in Conn : /\ conn[c].state \notin {"unused", "refused"}
                                         /\ conn[c].at \in t .. (t + Window - 1)}
    <2>0. t \in Int /\ \A c \in Conn : conn[c].at \in Int
      BY <1>1 DEF IInv, TypeOK, Connection, Time
    <2>1. admitted = Within(Admitted, At, t)
      BY <2>0 DEF Within, Admitted, At
    <2>2. \A a \in Address : {c \in admitted : conn[c].address = a} = Within(AdmittedFrom(a), At, t)
      BY <2>0 DEF Within, Admitted, AdmittedFrom, At
    <2>3. Cardinality(Within(Admitted, At, t)) <= 2 * MaximumAttempts
      BY <1>1, <2>0 DEF IInv, WindowsHold, WindowHolds
    <2>4. \A a \in Address :
             Cardinality(Within(AdmittedFrom(a), At, t)) <= 2 * MaximumAttemptsPerIpAddress
      BY <1>1, <2>0 DEF IInv, WindowsHold, WindowHolds
    <2> QED BY <2>1, <2>2, <2>3, <2>4
  <1> QED BY <1>1, AdmissionInvariance, PTL

-----------------------------------------------------------------------------
(* When requests take effect, which the timers may make later than due.    *)

LEMMA LateFinite ==
  ASSUME TypeOK, NEW c \in Conn, NEW m \in Member
  PROVE  \A t : IsFiniteSet(Late(c, m, t)) /\ Cardinality(Late(c, m, t)) \in Nat
  <1> TAKE t
  <1>1. Late(c, m, t) \in SUBSET Of(c, m) /\ IsFiniteSet(Of(c, m))
    BY Requests DEF Late
  <1> QED BY <1>1, Shrink

LEMMA EffectsKept ==
  ASSUME EffectsHold, UNCHANGED <<now, request>>
  PROVE  EffectsHold'
  <1>1. \A c \in Conn, m \in Member, t \in Nat : Late(c, m, t)' = Late(c, m, t)
    BY DEF Late, Of
  <1>2. LateHeld'
    BY <1>1 DEF EffectsHold, LateHeld
  <1> QED BY <1>2 DEF EffectsHold, Dated

(* A new request is due now or later.                                      *)
LEMMA TryEffects ==
  ASSUME TypeOK, EffectsHold, NEW c \in Conn, NEW m \in Member, NEW action,
         TryApplyManagers(c, m, action)
  PROVE  EffectsHold'
  <1> DEFINE b == buckets[c][m]
             delay == IF Reserved(b).queued > b.queued THEN Delay(b) ELSE 0
             n == Len(request) + 1
  <1>1. delay \in Nat /\ now \in Nat
    <2>1. b \in Bucket /\ now \in Nat
      BY Requests
    <2> HIDE DEF b
    <2>2. b.tokens \in Int /\ Delay(b) \in Nat
      BY <2>1 DEF Delay, Bucket
    <2> QED BY <2>1, <2>2
  <1>2. PICK state : /\ request' = Append(request, [conn |-> c, member |-> m, state |-> state,
                                                    due |-> now + delay, at |-> now])
                     /\ state = "run" => delay = 0
    <2>1. PICK other \in [category : {"permissions", "auditing"}, ruling : Ruling] :
             LET allowed == IsAllowed({other, RateVerdict(b)}, action)
                 state == CASE delay = 0 /\ allowed  -> "run"
                            [] delay = 0 /\ ~allowed -> "refused"
                            [] delay > 0 /\ allowed  -> "delayed"
                            [] OTHER                 -> "denied"
             IN  request' = Append(request, [conn |-> c, member |-> m, state |-> state,
                                             due |-> now + delay, at |-> now])
      BY DEF TryApplyManagers
    <2> DEFINE allowed == IsAllowed({other, RateVerdict(b)}, action)
               Made(r) == request' = Append(request, [conn |-> c, member |-> m, state |-> r,
                                                      due |-> now + delay, at |-> now])
    <2> HIDE DEF delay
    <2>2. CASE delay = 0
      <3>1. \E r : Made(r)
        BY <2>1
      <3> QED BY <2>2, <3>1
    <2>3. CASE delay > 0 /\ allowed
      <3>1. Made("delayed") /\ "delayed" # "run"
        BY <2>1, <2>3
      <3> QED BY <3>1
    <2>4. CASE delay # 0 /\ ~(delay > 0 /\ allowed)
      <3>1. Made("denied") /\ "denied" # "run"
        BY <2>1, <2>4
      <3> QED BY <3>1
    <2>5. delay > 0 => delay # 0
      BY <1>1
    <2> QED BY <2>2, <2>3, <2>4, <2>5
  <1> DEFINE new == [conn |-> c, member |-> m, state |-> state, due |-> now + delay, at |-> now]
  <1>3. request \in Seq(Request) /\ Len(request) \in Nat /\ DOMAIN request = 1 .. Len(request)
    BY DEF TypeOK
  <1>4. /\ DOMAIN request' = DOMAIN request \cup {n} /\ request'[n] = new
        /\ \A i \in DOMAIN request : i # n /\ request'[i] = request[i]
    BY <1>2, <1>3
  <1>5. now' = now /\ new.at = now /\ new.due >= now /\ (new.state = "run" => new.due = now)
    <2>1. now' = now
      BY DEF TryApplyManagers
    <2> HIDE DEF delay
    <2>2. new.at = now /\ new.due = now + delay /\ new.state = state
      OBVIOUS
    <2> QED BY <1>1, <1>2, <2>1, <2>2
  <1> HIDE DEF new, n, delay
  <1>6. ASSUME NEW d \in Conn, NEW e \in Member, NEW t \in Nat, t <= now
        PROVE  Late(d, e, t)' = Late(d, e, t)
    <2>1. ~(new.due < t)
      <3>1. new.due \in Nat
        BY <1>1 DEF new
      <3> QED BY <1>1, <1>5, <1>6, <3>1
    <2> QED BY <1>4, <2>1 DEF Late, Of
  <1>7. LateHeld'
    BY <1>5, <1>6 DEF EffectsHold, LateHeld
  <1>8. ASSUME NEW i \in DOMAIN request' PROVE Dated(request[i])'
    <2>1. CASE i = n
      BY <1>1, <1>4, <1>5, <2>1 DEF Dated
    <2>2. CASE i # n
      BY <1>4, <1>5, <2>2 DEF EffectsHold, Dated
    <2> QED BY <2>1, <2>2
  <1> QED BY <1>7, <1>8 DEF EffectsHold

(* The timer of a request that runs late held its queue position.          *)
LEMMA DelayEffects ==
  ASSUME TypeOK, EffectsHold, NEW x \in DOMAIN request, DelayEnds(x)
  PROVE  EffectsHold'
  <1>1. /\ request[x].state \in {"delayed", "denied"} /\ request[x].due <= now
        /\ request' = [request EXCEPT
                ![x].state = IF request[x].state = "delayed" THEN "run" ELSE "refused",
                ![x].at = now]
        /\ now' = now /\ now \in Nat
    BY DEF DelayEnds, TypeOK, Time
  <1>2. /\ request \in Seq(Request) /\ request[x] \in Request
    <2>1. request \in Seq(Request)
      BY DEF TypeOK
    <2> QED BY <2>1
  <1>3. /\ DOMAIN request' = DOMAIN request
        /\ \A i \in DOMAIN request \ {x} : request'[i] = request[i]
        /\ request'[x].conn = request[x].conn /\ request'[x].member = request[x].member
        /\ request'[x].due = request[x].due /\ request'[x].at = now
        /\ request'[x].state \in {"run", "refused"}
    BY <1>1, <1>2 DEF Request
  <1>4. ASSUME NEW d \in Conn, NEW e \in Member, NEW t \in Nat
        PROVE  Late(d, e, t)' \in SUBSET Late(d, e, t)
    <2>1. ASSUME NEW i \in Late(d, e, t)' PROVE i \in Late(d, e, t)
      <3>1. i \in DOMAIN request
        BY <1>3 DEF Late, Of
      <3>2. CASE i = x
        BY <1>1, <1>3, <3>1, <3>2 DEF Late, Of
      <3>3. CASE i # x
        BY <1>3, <3>1, <3>3 DEF Late, Of
      <3> QED BY <3>2, <3>3
    <2> QED BY <2>1
  <1>5. ASSUME NEW d \in Conn, NEW e \in Member, NEW t \in Nat, t <= now'
        PROVE  Cardinality(Late(d, e, t)') <= QueueLimit
    <2>1. IsFiniteSet(Late(d, e, t)) /\ Cardinality(Late(d, e, t)) \in Nat
      BY LateFinite
    <2>2. Cardinality(Late(d, e, t)') <= Cardinality(Late(d, e, t))
          /\ Cardinality(Late(d, e, t)') \in Nat
      BY <1>4, <2>1, Shrink
    <2>3. Cardinality(Late(d, e, t)) <= QueueLimit
      BY <1>1, <1>5 DEF EffectsHold, LateHeld
    <2> QED BY <2>1, <2>2, <2>3
  <1>6. ASSUME NEW i \in DOMAIN request' PROVE Dated(request[i])'
    <2>1. CASE i = x
      BY <1>1, <1>3, <2>1 DEF Dated
    <2>2. CASE i # x
      BY <1>1, <1>3, <2>2 DEF EffectsHold, Dated
    <2> QED BY <2>1, <2>2
  <1>7. LateHeld'
    BY <1>5 DEF LateHeld
  <1> QED BY <1>6, <1>7 DEF EffectsHold

(* What is late at the next moment waits in the queue.                     *)
LEMMA ElapseEffects ==
  ASSUME TypeOK, BucketsHold, EffectsHold, Elapse
  PROVE  EffectsHold'
  <1>1. now \in Nat /\ now' = now + 1 /\ request' = request
    BY DEF Elapse, TypeOK, Time
  <1>2. \A i \in DOMAIN request : request[i].at \in Nat
    <2>1. request \in Seq(Request)
      BY DEF TypeOK
    <2>2. \A i \in DOMAIN request : request[i] \in Request
      BY <2>1
    <2> QED BY <2>2 DEF Request
  <1>3. ASSUME NEW c \in Conn, NEW m \in Member, NEW t \in Nat, t <= now + 1
        PROVE  Cardinality(Late(c, m, t)') <= QueueLimit
    <2>1. Late(c, m, t)' = Late(c, m, t)
      BY <1>1 DEF Late, Of
    <2>2. CASE t <= now
      BY <2>1, <2>2 DEF EffectsHold, LateHeld
    <2>3. CASE t = now + 1
      <3>1. Late(c, m, t) \in SUBSET Pending(c, m)
        <4>1. ASSUME NEW i \in Late(c, m, t) PROVE i \in Pending(c, m)
          <5>1. i \in DOMAIN request /\ request[i].at <= now
            BY DEF Late, Of, EffectsHold, Dated
          <5>2. ~(request[i].at >= t)
            BY <1>1, <1>2, <2>3, <5>1
          <5> QED BY <5>2 DEF Late, Pending
        <4> QED BY <4>1
      <3>2. IsFiniteSet(Pending(c, m))
        BY Requests, FS_Subset
      <3>3. Cardinality(Pending(c, m)) <= QueueLimit /\ Cardinality(Pending(c, m)) \in Nat
        <4>1. buckets[c][m].queued = Cardinality(Pending(c, m)) /\ buckets[c][m] \in Bucket
          BY Requests DEF BucketsHold, BucketHolds
        <4> QED BY <4>1 DEF Bucket
      <3>4. /\ Cardinality(Late(c, m, t)) <= Cardinality(Pending(c, m))
            /\ Cardinality(Late(c, m, t)) \in Nat
        BY <3>1, <3>2, Shrink
      <3> QED BY <2>1, <3>3, <3>4
    <2> QED BY <1>1, <1>3, <2>2, <2>3
  <1>4. ASSUME NEW i \in DOMAIN request' PROVE Dated(request[i])'
    <2>1. i \in DOMAIN request /\ Dated(request[i]) /\ request[i].at \in Nat
      BY <1>1, <1>2 DEF EffectsHold
    <2>2. request[i].at <= now'
      BY <1>1, <2>1 DEF Dated
    <2> QED BY <1>1, <2>1, <2>2 DEF Dated
  <1>5. LateHeld'
    BY <1>1, <1>3 DEF LateHeld
  <1> QED BY <1>4, <1>5 DEF EffectsHold

LEMMA NextEffects == IInv /\ EffectsHold /\ [Next]_vars => EffectsHold'
  <1> SUFFICES ASSUME IInv, EffectsHold, [Next]_vars PROVE EffectsHold'
    OBVIOUS
  <1>0. TypeOK /\ BucketsHold
    BY DEF IInv
  <1>1. CASE Elapse
    BY <1>0, <1>1, ElapseEffects
  <1>2. ASSUME NEW i \in DOMAIN request, DelayEnds(i) PROVE EffectsHold'
    BY <1>0, <1>2, DelayEffects
  <1>3. ASSUME NEW c \in Conn, RegisterConnection(c) PROVE EffectsHold'
    BY <1>3, EffectsKept DEF RegisterConnection
  <1>4. ASSUME NEW c \in Conn, Close(c) PROVE EffectsHold'
    BY <1>4, EffectsKept DEF Close
  <1>5. ASSUME NEW c \in Conn, NEW a \in Address \cup {Unknown}, AdmitConnectionAttempt(c, a)
        PROVE  EffectsHold'
    BY <1>5, EffectsKept DEF AdmitConnectionAttempt
  <1>6. ASSUME NEW c \in Conn, NEW m \in Member, NEW action \in {"Execute", "SetProperty"},
               TryApplyManagers(c, m, action)
        PROVE  EffectsHold'
    BY <1>0, <1>6, TryEffects
  <1>7. CASE UNCHANGED vars
    BY <1>7, EffectsKept DEF vars
  <1> QED BY <1>1, <1>2, <1>3, <1>4, <1>5, <1>6, <1>7 DEF Next

LEMMA InitEffects == Init => EffectsHold
  <1> SUFFICES ASSUME Init PROVE EffectsHold
    OBVIOUS
  <1>1. request = <<>> /\ \A c \in Conn, m \in Member, t \in Nat : Late(c, m, t) = {}
    BY DEF Init, Late, Of
  <1>2. LateHeld
    BY <1>1, FS_EmptySet DEF LateHeld
  <1> QED BY <1>1, <1>2 DEF EffectsHold

(* A connection's requests for a member fall due no faster than its rate   *)
(* policy allows; those that take effect in a stretch of time, however     *)
(* late their timers, exceed that by no more than the queue; and queue     *)
(* positions are held by those that wait (BurstRatePolicy.applicable,      *)
(* EpConnection.tryApplyManagers).                                         *)
THEOREM RateHoldsAlways == Spec => []RateHolds
  <1>1. ASSUME IInv, EffectsHold PROVE RateHolds
    <2> SUFFICES ASSUME NEW c \in Conn, NEW m \in Member
                 PROVE  LET ran == {i \in Of(c, m) : request[i].state = "run"}
                        IN  /\ buckets[c][m].queued = Cardinality(Pending(c, m))
                            /\ \A t, u \in Time : t <= u =>
                                  /\ Cardinality({i \in ran : request[i].due \in t .. u})
                                        <= Capacity + (u - t)
                                  /\ Cardinality({i \in ran : request[i].at \in t .. u})
                                        <= Capacity + QueueLimit + (u - t)
      <3>1. \A t \in Time : \A u \in t .. MaxTime : u \in Time /\ t <= u
        BY DEF Time
      <3> QED BY <3>1 DEF RateHolds, Pending
    <2> DEFINE ran == {i \in Of(c, m) : request[i].state = "run"}
    <2>0. /\ TypeOK /\ BucketHolds(c, m) /\ now \in Nat /\ buckets[c][m].tokens \in Int
          /\ \A i \in Of(c, m) : /\ request[i].state = "run" => request[i].due <= now
                                 /\ request[i].due \in Nat /\ request[i].at \in Nat
      BY <1>1, Requests DEF IInv, BucketsHold, Of, Request
    <2>1. ASSUME NEW t \in Time, NEW u \in Time, t <= u
          PROVE  /\ IsFiniteSet({i \in ran : request[i].due \in t .. u})
                 /\ Cardinality({i \in ran : request[i].due \in t .. u}) \in Nat
                 /\ Cardinality({i \in ran : request[i].due \in t .. u}) <= Capacity + (u - t)
      <3> DEFINE S == {i \in ran : request[i].due \in t .. u}
      <3>0. /\ t \in Nat /\ u \in Nat
            /\ IsFiniteSet(Taking(c, m, t, u)) /\ Cardinality(Taking(c, m, t, u)) \in Nat
        BY <2>0, TakingFinite DEF Time
      <3>1. /\ Cardinality(S) <= Cardinality(Taking(c, m, t, u))
            /\ Cardinality(S) \in Nat /\ IsFiniteSet(S)
        <4>1. S \in SUBSET Taking(c, m, t, u)
          BY DEF Taking, Effective
        <4> QED BY <3>0, <4>1, Shrink, FS_Subset
      <3>2. CASE u < now
        <4>1. Cardinality(Taking(c, m, t, u)) <= Capacity + (u - t)
          BY <2>0, <2>1, <3>0, <3>2 DEF BucketHolds
        <4> HIDE DEF S
        <4>2. Cardinality(S) <= Capacity + (u - t)
          BY <3>0, <3>1, <4>1
        <4> QED BY <3>1, <4>2 DEF S
      <3>3. CASE t <= now /\ now <= u
        <4>1. Cardinality(Taking(c, m, t, u))
                <= Capacity - Larger(buckets[c][m].tokens, now - u) + (now - t)
          BY <2>0, <3>0, <3>3 DEF BucketHolds
        <4>2. /\ Larger(buckets[c][m].tokens, now - u) \in Int
              /\ Larger(buckets[c][m].tokens, now - u) >= now - u
          BY <2>0, <3>0 DEF Larger
        <4> HIDE DEF S
        <4>3. Cardinality(S) <= Capacity + (u - t)
          BY <2>0, <3>0, <3>1, <4>1, <4>2
        <4> QED BY <3>1, <4>3 DEF S
      <3>4. CASE now < t
        <4>1. S = {}
          BY <2>0, <3>0, <3>4
        <4>2. Cardinality(S) = 0
          BY <4>1, FS_EmptySet
        <4> HIDE DEF S
        <4>3. Cardinality(S) <= Capacity + (u - t)
          BY <2>1, <3>0, <4>2
        <4> QED BY <3>1, <4>3 DEF S
      <3> QED BY <2>0, <3>0, <3>2, <3>3, <3>4, <3>1
    <2>2. ASSUME NEW t \in Time, NEW u \in Time, t <= u
          PROVE  Cardinality({i \in ran : request[i].at \in t .. u})
                    <= Capacity + QueueLimit + (u - t)
      <3> DEFINE S == {i \in ran : request[i].due \in t .. u}
                 A == {i \in ran : request[i].at \in t .. u}
                 L == Late(c, m, t)
      <3>0. /\ t \in Nat /\ u \in Nat
            /\ IsFiniteSet(S) /\ Cardinality(S) \in Nat /\ Cardinality(S) <= Capacity + (u - t)
            /\ IsFiniteSet(L) /\ Cardinality(L) \in Nat
        <4>1. t \in Nat /\ u \in Nat
          BY DEF Time
        <4>2. IsFiniteSet(L) /\ Cardinality(L) \in Nat
          BY <2>0, LateFinite
        <4>3. IsFiniteSet(S) /\ Cardinality(S) \in Nat /\ Cardinality(S) <= Capacity + (u - t)
          <5> HIDE DEF ran
          <5> QED BY <2>1, <2>2
        <4> QED BY <4>1, <4>2, <4>3
      <3>1. \A i \in ran : request[i].at <= now /\ request[i].due <= request[i].at
        BY <1>1 DEF EffectsHold, Dated, Of
      <3>2. CASE t <= now
        <4>1. A \in SUBSET (S \cup L)
          <5>1. ASSUME NEW i \in A PROVE i \in S \/ i \in L
            <6>1. /\ i \in Of(c, m) /\ request[i].state = "run" /\ i \in ran
                  /\ t <= request[i].at /\ request[i].at <= u
                  /\ request[i].due <= request[i].at
                  /\ request[i].due \in Nat /\ request[i].at \in Nat
              BY <2>0, <3>0, <3>1
            <6>2. CASE request[i].due < t
              BY <6>1, <6>2 DEF Late
            <6>3. CASE t <= request[i].due
              BY <3>0, <6>1, <6>3
            <6> QED BY <3>0, <6>1, <6>2, <6>3
          <5> QED BY <5>1
        <4>2. Cardinality(L) <= QueueLimit
          BY <1>1, <3>0, <3>2 DEF EffectsHold, LateHeld
        <4>3. Cardinality(A) \in Nat /\ Cardinality(A) <= Cardinality(S) + Cardinality(L)
          BY <3>0, <4>1, Join
        <4> HIDE DEF S, A, L
        <4>5. Cardinality(A) <= Capacity + QueueLimit + (u - t)
          BY <3>0, <4>2, <4>3
        <4> QED BY <4>5 DEF A
      <3>3. CASE now < t
        <4>1. A = {}
          BY <2>0, <3>0, <3>1, <3>3
        <4>2. Cardinality(A) = 0
          BY <4>1, FS_EmptySet
        <4> HIDE DEF A
        <4>3. Cardinality(A) <= Capacity + QueueLimit + (u - t)
          BY <2>2, <3>0, <4>2
        <4> QED BY <4>3 DEF A
      <3> QED BY <2>0, <3>0, <3>2, <3>3
    <2>3. buckets[c][m].queued = Cardinality(Pending(c, m))
      BY <2>0 DEF BucketHolds
    <2> HIDE DEF ran
    <2>4. \A t, u \in Time : t <= u =>
             /\ Cardinality({i \in ran : request[i].due \in t .. u}) <= Capacity + (u - t)
             /\ Cardinality({i \in ran : request[i].at \in t .. u})
                   <= Capacity + QueueLimit + (u - t)
      BY <2>1, <2>2
    <2> QED BY <2>3, <2>4 DEF ran
  <1> QED BY <1>1, AdmissionInvariance, InitEffects, NextEffects, PTL DEF Spec
=============================================================================
