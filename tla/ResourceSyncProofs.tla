------------------------- MODULE ResourceSyncProofs -------------------------
(***************************************************************************)
(* Proofs about ResourceSync, for any links, properties, proxies, ids and  *)
(* bounds: its operators, the types of its variables, and, when every      *)
(* snapshot is decoded with its reply, what the proxies of a connection    *)
(* show: those the application holds are kept and no value goes back.      *)
(***************************************************************************)
EXTENDS ResourceSyncInvariant, TLAPS

USE ResourceSyncAssumption

-----------------------------------------------------------------------------
(* Sequences and records.                                                  *)

LEMMA Appended ==
  ASSUME NEW S, NEW s \in Seq(S), NEW e \in S, NEW t \in {s, Append(s, e)}
  PROVE  t \in Seq(S)
OBVIOUS

LEMMA Dropped ==
  ASSUME NEW S, NEW s \in Seq(S), s # <<>>
  PROVE  /\ Head(s) \in S /\ Head(s) = s[1] /\ 1 \in DOMAIN s
         /\ Tail(s) \in Seq(S)
         /\ Len(Tail(s)) = Len(s) - 1
         /\ \A k \in DOMAIN Tail(s) : k + 1 \in DOMAIN s /\ Tail(s)[k] = s[k + 1]
         /\ \A k \in DOMAIN s : k # 1 => k - 1 \in DOMAIN Tail(s)
OBVIOUS

LEMMA MessageType ==
  ASSUME NEW m \in Message
  PROVE  /\ m.type \in AnswerTypes => m \in Answer
         /\ m.type \in NotificationTypes => m \in Notification
         /\ m.type = "refused" => m.id \in Id
         /\ m.type \in AnswerTypes \cup NotificationTypes =>
               m.id \in Id /\ m.gen \in Generation /\ m.rev \in Revision
         /\ m.type \in AnswerTypes => m.link \in Link /\ m.values \in Values
         /\ m.type = "property" => m.prop \in Prop
<1>1. CASE m \in Answer
  BY <1>1 DEF Answer, AnswerTypes, NotificationTypes
<1>2. CASE m \in Refusal
  BY <1>2 DEF Refusal, AnswerTypes, NotificationTypes
<1>3. CASE m \in Notification
  BY <1>3 DEF Notification, AnswerTypes, NotificationTypes
<1> QED BY <1>1, <1>2, <1>3 DEF Message

LEMMA AnswerIsMessage ==
  ASSUME NEW t \in AnswerTypes, NEW i \in Id, NEW g \in Generation, NEW l \in Link,
         NEW r \in Revision, NEW v \in Values
  PROVE  [type |-> t, id |-> i, gen |-> g, link |-> l, rev |-> r, values |-> v] \in Message
BY DEF Message, Answer, AnswerTypes

LEMMA ValuesType ==
  /\ \A v \in Values : DOMAIN v \subseteq Prop /\ \A p \in DOMAIN v : v[p] \in Revision
  /\ \A v : (\E ps \in SUBSET Prop : v \in [ps -> Revision]) => v \in Values
BY DEF Values

LEMMA InstanceType ==
  ASSUME NEW x \in Instance
  PROVE  /\ x # Absent
         /\ x.id \in Id /\ x.gen \in Generation /\ x.rev \in Revision
         /\ x.age \in [Prop -> Revision]
         /\ AllValues(x) \in Values
         /\ \A n \in Nat : /\ ValuesSince(x, n) \in Values
                           /\ DOMAIN ValuesSince(x, n) = {q \in Prop : x.age[q] > n}
                           /\ \A q \in DOMAIN ValuesSince(x, n) : ValuesSince(x, n)[q] = x.age[q]
<1>1. x.id \in Id /\ x.gen \in Generation /\ x.rev \in Revision /\ x.age \in [Prop -> Revision]
  BY DEF Instance
<1>2. x # Absent
  BY <1>1 DEF Absent, Id
<1>3. AllValues(x) \in Values
  <2>1. x.age \in [Prop -> Revision] /\ Prop \in SUBSET Prop
    BY <1>1
  <2> QED BY <2>1, ValuesType DEF AllValues
<1>4. ASSUME NEW n \in Nat
      PROVE  /\ ValuesSince(x, n) \in Values
             /\ DOMAIN ValuesSince(x, n) = {q \in Prop : x.age[q] > n}
             /\ \A q \in DOMAIN ValuesSince(x, n) : ValuesSince(x, n)[q] = x.age[q]
  <2> DEFINE S == {q \in Prop : x.age[q] > n}
  <2>1. ValuesSince(x, n) = [q \in S |-> x.age[q]]
    BY DEF ValuesSince
  <2>2. ValuesSince(x, n) \in [S -> Revision] /\ S \in SUBSET Prop
    BY <1>1, <2>1
  <2>3. ValuesSince(x, n) \in Values
    BY <2>2, ValuesType
  <2> QED BY <2>1, <2>3
<1> QED BY <1>1, <1>2, <1>3, <1>4

LEMMA ProxyType ==
  ASSUME NEW r \in Proxy
  PROVE  /\ r # Unused
         /\ r.link \in Link /\ r.id \in Id /\ r.gen \in Generation /\ r.rev \in Revision
         /\ r.cache \in [Prop -> Stamp \cup {NoStamp}]
         /\ r.propertyCursors \in [Prop -> Stamp \cup {NoStamp}]
BY DEF Proxy, Unused

LEMMA ProxyIntro ==
  ASSUME NEW l \in Link, NEW i \in Id, NEW g \in Generation, NEW n \in Revision,
         NEW c \in [Prop -> Stamp \cup {NoStamp}], NEW d \in [Prop -> Stamp \cup {NoStamp}]
  PROVE  [link |-> l, id |-> i, gen |-> g, rev |-> n, cache |-> c, propertyCursors |-> d] \in Proxy
BY DEF Proxy

(* What the client's functions on a proxy make of it.                      *)
LEMMA Merged ==
  ASSUME NEW r \in Proxy, NEW v \in Values
  PROVE  LET s == Merge(r, v) IN
         /\ s \in Proxy
         /\ s.link = r.link /\ s.id = r.id /\ s.gen = r.gen /\ s.rev = r.rev
         /\ \A p \in Prop :
               /\ p \in DOMAIN v => /\ s.cache[p] = [gen |-> r.gen, rev |-> v[p]]
                                    /\ s.propertyCursors[p] = [gen |-> r.gen, rev |-> v[p]]
               /\ p \notin DOMAIN v => /\ s.cache[p] = r.cache[p]
                                       /\ s.propertyCursors[p] = r.propertyCursors[p]
<1> DEFINE stamp(p) == [gen |-> r.gen, rev |-> v[p]]
           c == [p \in Prop |-> IF p \in DOMAIN v THEN stamp(p) ELSE r.cache[p]]
           d == [p \in Prop |-> IF p \in DOMAIN v THEN stamp(p) ELSE r.propertyCursors[p]]
<1>1. r = [link |-> r.link, id |-> r.id, gen |-> r.gen, rev |-> r.rev,
           cache |-> r.cache, propertyCursors |-> r.propertyCursors]
  BY DEF Proxy
<1>2. Merge(r, v) = [link |-> r.link, id |-> r.id, gen |-> r.gen, rev |-> r.rev,
                     cache |-> c, propertyCursors |-> d]
  <2>1. Merge(r, v) = [r EXCEPT !.cache = c, !.propertyCursors = d]
    BY DEF Merge
  <2> HIDE DEF c, d
  <2> QED BY <1>1, <2>1
<1>3. \A p \in DOMAIN v : stamp(p) \in Stamp
  BY ValuesType, ProxyType DEF Stamp
<1>4. c \in [Prop -> Stamp \cup {NoStamp}] /\ d \in [Prop -> Stamp \cup {NoStamp}]
  BY <1>3, ProxyType
<1>5. Merge(r, v) \in Proxy
  BY <1>2, <1>4, ProxyType, ProxyIntro
<1> QED BY <1>2, <1>5

LEMMA Identified ==
  ASSUME NEW r \in Proxy, NEW m \in Answer
  PROVE  LET s == Identify(r, m) IN
         /\ s \in Proxy
         /\ s.link = m.link /\ s.id = m.id /\ s.gen = m.gen /\ s.rev = m.rev
         /\ s.cache = r.cache
         /\ r.gen = m.gen => s.propertyCursors = r.propertyCursors
         /\ r.gen # m.gen => \A p \in Prop : s.propertyCursors[p] = NoStamp
<1> DEFINE d == IF r.gen = m.gen THEN r.propertyCursors ELSE [p \in Prop |-> NoStamp]
<1>1. r = [link |-> r.link, id |-> r.id, gen |-> r.gen, rev |-> r.rev,
           cache |-> r.cache, propertyCursors |-> r.propertyCursors]
  BY DEF Proxy
<1>2. Identify(r, m) = [link |-> m.link, id |-> m.id, gen |-> m.gen, rev |-> m.rev,
                        cache |-> r.cache, propertyCursors |-> d]
  <2>1. Identify(r, m) = [r EXCEPT !.id = m.id, !.gen = m.gen, !.rev = m.rev,
                                   !.link = m.link, !.propertyCursors = d]
    BY DEF Identify
  <2> HIDE DEF d
  <2> QED BY <1>1, <2>1
<1>3. d \in [Prop -> Stamp \cup {NoStamp}]
  BY ProxyType
<1>4. m.link \in Link /\ m.id \in Id /\ m.gen \in Generation /\ m.rev \in Revision
  BY DEF Answer
<1>5. Identify(r, m) \in Proxy
  BY <1>2, <1>3, <1>4, ProxyType, ProxyIntro
<1> QED BY <1>2, <1>5

LEMMA Made ==
  ASSUME NEW m \in Answer
  PROVE  LET s == NewProxy(m) IN
         /\ s \in Proxy
         /\ s.link = m.link /\ s.id = m.id /\ s.gen = m.gen /\ s.rev = m.rev
         /\ \A p \in Prop : s.cache[p] = NoStamp /\ s.propertyCursors[p] = NoStamp
<1>1. m.link \in Link /\ m.id \in Id /\ m.gen \in Generation /\ m.rev \in Revision
  BY DEF Answer
<1>2. [p \in Prop |-> NoStamp] \in [Prop -> Stamp \cup {NoStamp}]
  OBVIOUS
<1>3. NewProxy(m) \in Proxy
  BY <1>1, <1>2, ProxyIntro DEF NewProxy
<1> QED BY <1>3 DEF NewProxy

LEMMA Observed ==
  ASSUME NEW r \in Proxy, NEW m \in Notification
  PROVE  LET s == ObserveCursor(r, m) IN
         /\ s \in Proxy
         /\ s.link = r.link /\ s.id = r.id /\ s.gen = m.gen
         /\ s.rev = IF r.gen # m.gen \/ m.rev > r.rev THEN m.rev ELSE r.rev
         /\ s.cache = r.cache /\ s.propertyCursors = r.propertyCursors
<1>1. r = [link |-> r.link, id |-> r.id, gen |-> r.gen, rev |-> r.rev,
           cache |-> r.cache, propertyCursors |-> r.propertyCursors]
  BY DEF Proxy
<1>2. m.gen \in Generation /\ m.rev \in Revision
  BY DEF Notification
<1>3. CASE r.gen # m.gen \/ m.rev > r.rev
  <2>1. ObserveCursor(r, m) = [link |-> r.link, id |-> r.id, gen |-> m.gen, rev |-> m.rev,
                               cache |-> r.cache, propertyCursors |-> r.propertyCursors]
    BY <1>1, <1>3 DEF ObserveCursor
  <2>2. ObserveCursor(r, m) \in Proxy
    BY <1>2, <2>1, ProxyType, ProxyIntro
  <2> QED BY <1>3, <2>1, <2>2
<1>4. CASE ~(r.gen # m.gen \/ m.rev > r.rev)
  BY <1>4 DEF ObserveCursor
<1> QED BY <1>3, <1>4

Seen(r, m) == r.propertyCursors[m.prop].gen = m.gen /\ r.propertyCursors[m.prop].rev >= m.rev

LEMMA Updated ==
  ASSUME NEW r \in Proxy, NEW m \in Notification, m.type = "property"
  PROVE  LET s == UpdateProperty(r, m) IN
         /\ s \in Proxy
         /\ Seen(r, m) => s = r
         /\ ~Seen(r, m) =>
              /\ s.link = r.link /\ s.id = r.id /\ s.gen = m.gen
              /\ s.rev = IF r.gen # m.gen \/ m.rev > r.rev THEN m.rev ELSE r.rev
              /\ s.cache = [r.cache EXCEPT ![m.prop] = [gen |-> m.gen, rev |-> m.rev]]
              /\ s.propertyCursors =
                   [r.propertyCursors EXCEPT ![m.prop] = [gen |-> m.gen, rev |-> m.rev]]
<1> DEFINE o == ObserveCursor(r, m)
           stamp == [gen |-> m.gen, rev |-> m.rev]
           c == [r.cache EXCEPT ![m.prop] = stamp]
           d == [r.propertyCursors EXCEPT ![m.prop] = stamp]
<1>1. m.gen \in Generation /\ m.rev \in Revision /\ m.prop \in Prop
  BY DEF Notification
<1>2. o \in Proxy /\ o.link = r.link /\ o.id = r.id /\ o.gen = m.gen
      /\ o.cache = r.cache /\ o.propertyCursors = r.propertyCursors
      /\ o.rev = IF r.gen # m.gen \/ m.rev > r.rev THEN m.rev ELSE r.rev
  BY Observed
<1>3. CASE Seen(r, m)
  BY <1>3 DEF UpdateProperty, Seen
<1>4. CASE ~Seen(r, m)
  <2> HIDE DEF o
  <2>1. UpdateProperty(r, m) = [o EXCEPT !.cache[m.prop] = stamp, !.propertyCursors[m.prop] = stamp]
    BY <1>4 DEF UpdateProperty, Seen, o
  <2>2. o = [link |-> o.link, id |-> o.id, gen |-> o.gen, rev |-> o.rev,
             cache |-> o.cache, propertyCursors |-> o.propertyCursors]
    BY <1>2 DEF Proxy
  <2>3. UpdateProperty(r, m) = [link |-> r.link, id |-> r.id, gen |-> m.gen, rev |-> o.rev,
                                cache |-> c, propertyCursors |-> d]
    BY <1>2, <2>1, <2>2
  <2>4. stamp \in Stamp
    BY <1>1 DEF Stamp
  <2>5. c \in [Prop -> Stamp \cup {NoStamp}] /\ d \in [Prop -> Stamp \cup {NoStamp}]
    BY <2>4, ProxyType
  <2>6. UpdateProperty(r, m) \in Proxy
    BY <1>1, <1>2, <2>3, <2>5, ProxyType, ProxyIntro
  <2> QED BY <1>2, <1>4, <2>3, <2>6
<1> QED BY <1>3, <1>4

LEMMA LinkOfLive ==
  ASSUME NEW i, IsLive(i)
  PROVE  LinkOf(i) \in Link /\ Live(LinkOf(i)) /\ instance[LinkOf(i)].id = i
BY DEF IsLive, LinkOf

-----------------------------------------------------------------------------
(* Type correctness, with the place of the reattach: one lemma per action. *)

USE DEF serverVars, serverSession, sessionVars, clientVars

LEMMA InitSound == Init => Sound
<1> SUFFICES ASSUME Init PROVE Sound
  OBVIOUS
<1>1. TypeOK
  <2>1. None \in Obj \cup {None} /\ Absent \in Instance \cup {Absent} /\ Unused \in Proxy \cup {Unused}
    OBVIOUS
  <2>2. /\ put \in [Link -> 0 .. MaxGeneration] /\ resourceCounter \in 0 .. MaxId
        /\ restarts \in 0 .. MaxRestart /\ sessions \in 0 .. MaxSession
    BY DEF Init
  <2>3. /\ instance \in [Link -> Instance \cup {Absent}]
        /\ proxy \in [Obj -> Proxy \cup {Unused}]
    BY <2>1 DEF Init
  <2>4. /\ attachedResources \in [Id -> Obj \cup {None}]
        /\ restore \in [Id -> Obj \cup {None}]
    BY <2>1 DEF Init, Nothing
  <2>5. /\ handling \in Seq(DirectRequest) /\ toServer \in Seq(Request)
        /\ toClient \in Seq(Message) /\ notificationQueue \in Seq(Notification)
    BY DEF Init
  <2> QED BY <2>2, <2>3, <2>4, <2>5 DEF Init, TypeOK
<1>2. UsedWhereNamed
  BY DEF Init, UsedWhereNamed, Nothing
<1>3. OneReattach
  BY DEF Init, OneReattach, Asked, Answered, Deltas
<1> QED BY <1>1, <1>2, <1>3 DEF Sound

(* What stays as it is.                                                    *)
LEMMA SameUsed ==
  ASSUME UsedWhereNamed, UNCHANGED <<proxy, attachedResources, restore, reattaching, decoding>>,
         UNCHANGED held
  PROVE  UsedWhereNamed'
BY DEF UsedWhereNamed, Used

LEMMA SameReattach ==
  ASSUME OneReattach, UNCHANGED <<toServer, toClient, querying, reattaching, decoding>>
  PROVE  OneReattach'
BY DEF OneReattach, Asked, Answered, Deltas

(* A message that has nothing to do with a reattach is added or removed.   *)
LEMMA ReattachElsewhere ==
  ASSUME OneReattach, UNCHANGED <<querying, reattaching>>, Deltas' = Deltas,
         toServer \in Seq(Request), toClient \in Seq(Message),
         \/ UNCHANGED toServer
         \/ toServer # <<>> /\ Head(toServer).type # "reattach" /\ toServer' = Tail(toServer)
         \/ \E m \in Request : m.type # "reattach" /\ toServer' = Append(toServer, m),
         \/ UNCHANGED toClient
         \/ toClient # <<>> /\ Head(toClient).type \notin OutcomeTypes /\ toClient' = Tail(toClient)
         \/ \E m \in Message : m.type \notin OutcomeTypes /\ toClient' = Append(toClient, m)
  PROVE  OneReattach'
<1>1. /\ \A j, k \in Asked' : j = k
      /\ Asked' # {} => Asked # {}
  <2>1. CASE UNCHANGED toServer
    BY <2>1 DEF OneReattach, Asked
  <2>2. CASE toServer # <<>> /\ Head(toServer).type # "reattach" /\ toServer' = Tail(toServer)
    <3>1. \A k \in Asked' : k + 1 \in Asked
      BY <2>2 DEF Asked
    <3> QED BY <3>1 DEF OneReattach, Asked
  <2>3. ASSUME NEW m \in Request, m.type # "reattach", toServer' = Append(toServer, m)
        PROVE  Asked' \subseteq Asked
    BY <2>3 DEF Asked
  <2> QED BY <2>1, <2>2, <2>3 DEF OneReattach
<1>2. /\ \A j, k \in Answered' : j = k
      /\ Answered' # {} => Answered # {}
  <2>1. CASE UNCHANGED toClient
    BY <2>1 DEF OneReattach, Answered
  <2>2. CASE toClient # <<>> /\ Head(toClient).type \notin OutcomeTypes /\ toClient' = Tail(toClient)
    <3>1. \A k \in Answered' : k + 1 \in Answered
      BY <2>2 DEF Answered
    <3> QED BY <3>1 DEF OneReattach, Answered
  <2>3. ASSUME NEW m \in Message, m.type \notin OutcomeTypes, toClient' = Append(toClient, m)
        PROVE  Answered' \subseteq Answered
    BY <2>3 DEF Answered
  <2> QED BY <2>1, <2>2, <2>3 DEF OneReattach
<1> QED BY <1>1, <1>2 DEF OneReattach

LEMMA NotifySound ==
  ASSUME Sound, NEW l \in Link, Live(l), NEW x \in Instance,
         instance' = [instance EXCEPT ![l] = x],
         NEW m \in Notification, Notify(instance[l].id, m),
         UNCHANGED <<put, resourceCounter, restarts, serverSession, toServer, sessionVars,
                     clientVars, notificationQueue>>
  PROVE  Sound'
<1>1. m \in Message /\ m.type \notin OutcomeTypes
  BY DEF Message, Notification, OutcomeTypes
<1>2. TypeOK'
  <2>1. toClient \in Seq(Message) /\ toClient' \in {toClient, Append(toClient, m)}
    BY DEF Sound, TypeOK, Notify
  <2>2. toClient' \in Seq(Message)
    BY <1>1, <2>1, Appended
  <2> QED BY <2>2 DEF Sound, TypeOK
<1>3. UsedWhereNamed'
  BY SameUsed DEF Sound
<1>4. toClient' = toClient \/ toClient' = Append(toClient, m)
  BY DEF Notify
<1>5. OneReattach'
  BY <1>1, <1>4, ReattachElsewhere DEF Sound, TypeOK, Deltas
<1> QED BY <1>2, <1>3, <1>5 DEF Sound

(* What Modify and RaiseEvent make of the instance.                        *)
LEMMA Changed ==
  ASSUME NEW x \in Instance, NEW n \in Revision, NEW p \in Prop
  PROVE  /\ [x EXCEPT !.rev = n]
              = [id |-> x.id, gen |-> x.gen, rev |-> n, age |-> x.age]
         /\ [x EXCEPT !.rev = n, !.age[p] = n]
              = [id |-> x.id, gen |-> x.gen, rev |-> n, age |-> [x.age EXCEPT ![p] = n]]
         /\ [x EXCEPT !.rev = n] \in Instance
         /\ [x EXCEPT !.rev = n, !.age[p] = n] \in Instance
<1>1. x = [id |-> x.id, gen |-> x.gen, rev |-> x.rev, age |-> x.age]
  BY DEF Instance
<1>2. x.id \in Id /\ x.gen \in Generation /\ x.age \in [Prop -> Revision]
  BY DEF Instance
<1> HIDE DEF Instance, Id, Generation, Revision
<1>3. [x EXCEPT !.rev = n] = [id |-> x.id, gen |-> x.gen, rev |-> n, age |-> x.age]
  BY <1>1
<1>4. [x.age EXCEPT ![p] = n] \in [Prop -> Revision]
  BY <1>2
<1>5. [x EXCEPT !.rev = n, !.age[p] = n]
        = [id |-> x.id, gen |-> x.gen, rev |-> n, age |-> [x.age EXCEPT ![p] = n]]
  <2> DEFINE z == [x EXCEPT !.rev = n]
  <2>1. [x EXCEPT !.rev = n, !.age[p] = n] = [z EXCEPT !.age[p] = n]
    OBVIOUS
  <2>2. z = [id |-> x.id, gen |-> x.gen, rev |-> n, age |-> x.age]
    BY <1>3
  <2>3. z.age = x.age
    BY <2>2
  <2> HIDE DEF z
  <2>4. [z EXCEPT !.age[p] = n]
          = [id |-> x.id, gen |-> x.gen, rev |-> n, age |-> [z.age EXCEPT ![p] = n]]
    BY <2>2
  <2> QED BY <2>1, <2>3, <2>4
<1>6. \A f \in [Prop -> Revision] : [id |-> x.id, gen |-> x.gen, rev |-> n, age |-> f] \in Instance
  BY <1>2 DEF Instance
<1> QED BY <1>2, <1>3, <1>4, <1>5, <1>6

LEMMA ModifyChanges ==
  ASSUME TypeOK, NEW l \in Link, NEW p \in Prop, Modify(l, p)
  PROVE  LET x == instance[l]
             n == x.rev + 1
             y == [id |-> x.id, gen |-> x.gen, rev |-> n, age |-> [x.age EXCEPT ![p] = n]]
             m == [type |-> "property", id |-> x.id, gen |-> x.gen, rev |-> n, prop |-> p]
         IN  /\ x \in Instance /\ n \in Revision /\ y \in Instance /\ m \in Notification
             /\ instance' = [instance EXCEPT ![l] = y]
             /\ Notify(x.id, m) /\ Live(l)
             /\ UNCHANGED <<put, resourceCounter, restarts, serverSession, toServer, sessionVars,
                           clientVars, notificationQueue>>
<1> DEFINE x == instance[l]
           n == x.rev + 1
           y == [id |-> x.id, gen |-> x.gen, rev |-> n, age |-> [x.age EXCEPT ![p] = n]]
           m == [type |-> "property", id |-> x.id, gen |-> x.gen, rev |-> n, prop |-> p]
<1>1. x \in Instance
  BY DEF TypeOK, Modify, Live
<1>2. n \in Revision
  <2>1. x.rev \in Revision /\ x.rev < MaxRevision
    BY <1>1, InstanceType DEF Modify
  <2> QED BY <2>1 DEF Revision
<1> HIDE DEF x, n
<1>5. y \in Instance /\ y = [x EXCEPT !.rev = n, !.age[p] = n]
  <2>1. [x EXCEPT !.rev = n, !.age[p] = n] = y
    BY <1>1, <1>2, Changed, Zenon
  <2>2. [x EXCEPT !.rev = n, !.age[p] = n] \in Instance
    BY <1>1, <1>2, Changed, Zenon
  <2> HIDE DEF y
  <2> QED BY <2>1, <2>2
<1>3. m \in Notification
  BY <1>1, <1>2, InstanceType DEF Notification
<1>4. instance' = [instance EXCEPT ![l] = [x EXCEPT !.rev = n, !.age[p] = n]]
  <2>1. instance' = [instance EXCEPT ![l].rev = n, ![l].age[p] = n]
    BY DEF Modify, x, n
  <2>2. instance \in [Link -> Instance \cup {Absent}]
    BY DEF TypeOK
  <2> QED BY <1>1, <2>1, <2>2 DEF x
<1>6. Notify(x.id, m) /\ Live(l)
  BY DEF Modify, x, n
<1>7. UNCHANGED <<put, resourceCounter, restarts, serverSession, toServer, sessionVars,
                  clientVars, notificationQueue>>
  BY DEF Modify
<1> QED BY <1>1, <1>2, <1>3, <1>4, <1>5, <1>6, <1>7 DEF x, n

LEMMA ModifySound ==
  ASSUME Sound, NEW l \in Link, NEW p \in Prop, Modify(l, p)
  PROVE  Sound'
BY ModifyChanges, NotifySound DEF Sound

LEMMA RaiseEventChanges ==
  ASSUME TypeOK, NEW l \in Link, RaiseEvent(l)
  PROVE  LET x == instance[l]
             n == x.rev + 1
             y == [id |-> x.id, gen |-> x.gen, rev |-> n, age |-> x.age]
             m == [type |-> "event", id |-> x.id, gen |-> x.gen, rev |-> n]
         IN  /\ x \in Instance /\ n \in Revision /\ y \in Instance /\ m \in Notification
             /\ instance' = [instance EXCEPT ![l] = y]
             /\ Notify(x.id, m) /\ Live(l)
             /\ UNCHANGED <<put, resourceCounter, restarts, serverSession, toServer, sessionVars,
                           clientVars, notificationQueue>>
<1> DEFINE x == instance[l]
           n == x.rev + 1
           y == [id |-> x.id, gen |-> x.gen, rev |-> n, age |-> x.age]
           m == [type |-> "event", id |-> x.id, gen |-> x.gen, rev |-> n]
<1>1. x \in Instance
  BY DEF TypeOK, RaiseEvent, Live
<1>2. n \in Revision
  <2>1. x.rev \in Revision /\ x.rev < MaxRevision
    BY <1>1, InstanceType DEF RaiseEvent
  <2> QED BY <2>1 DEF Revision
<1> HIDE DEF x, n
<1>3. m \in Notification
  BY <1>1, <1>2, InstanceType DEF Notification
<1>4. y \in Instance
  BY <1>1, <1>2, InstanceType DEF Instance
<1>5. [x EXCEPT !.rev = n] = y
  <2>1. x = [id |-> x.id, gen |-> x.gen, rev |-> x.rev, age |-> x.age]
    BY <1>1 DEF Instance
  <2> QED BY <2>1
<1>6. instance' = [instance EXCEPT ![l] = [x EXCEPT !.rev = n]]
  <2>1. instance' = [instance EXCEPT ![l].rev = n]
    BY DEF RaiseEvent, x, n
  <2>2. instance \in [Link -> Instance \cup {Absent}]
    BY DEF TypeOK
  <2> QED BY <1>1, <2>1, <2>2 DEF x
<1>7. Notify(x.id, m) /\ Live(l)
  BY DEF RaiseEvent, x, n
<1>8. UNCHANGED <<put, resourceCounter, restarts, serverSession, toServer, sessionVars,
                  clientVars, notificationQueue>>
  BY DEF RaiseEvent
<1> QED BY <1>1, <1>2, <1>3, <1>4, <1>5, <1>6, <1>7, <1>8 DEF x, n

LEMMA RaiseEventSound ==
  ASSUME Sound, NEW l \in Link, RaiseEvent(l)
  PROVE  Sound'
BY RaiseEventChanges, NotifySound DEF Sound

LEMMA PutMakes ==
  ASSUME TypeOK, NEW l \in Link, Put(l)
  PROVE  LET x == [id |-> resourceCounter + 1, gen |-> <<l, put[l] + 1>>, rev |-> 0,
                   age |-> [p \in Prop |-> 0]]
         IN  /\ x \in Instance /\ ~Live(l)
             /\ instance' = [instance EXCEPT ![l] = x]
             /\ resourceCounter' = resourceCounter + 1 /\ resourceCounter' \in 0 .. MaxId
             /\ put' = [put EXCEPT ![l] = put[l] + 1] /\ put[l] + 1 \in 1 .. MaxGeneration
             /\ put[l] \in 0 .. MaxGeneration /\ resourceCounter \in 0 .. MaxId
             /\ UNCHANGED <<restarts, serverSession, toServer, toClient, sessionVars, clientVars,
                           notificationQueue>>
<1> DEFINE x == [id |-> resourceCounter + 1, gen |-> <<l, put[l] + 1>>, rev |-> 0,
                 age |-> [p \in Prop |-> 0]]
<1>1. /\ resourceCounter \in 0 .. MaxId /\ resourceCounter < MaxId
      /\ put[l] \in 0 .. MaxGeneration /\ put[l] < MaxGeneration
      /\ put \in [Link -> 0 .. MaxGeneration]
  BY DEF TypeOK, Put
<1>2. /\ resourceCounter + 1 \in Id /\ resourceCounter + 1 \in 0 .. MaxId
      /\ put[l] + 1 \in 1 .. MaxGeneration /\ 0 \in Revision
  BY <1>1 DEF Id, Revision
<1>3. <<l, put[l] + 1>> \in Generation /\ [p \in Prop |-> 0] \in [Prop -> Revision]
  BY <1>2 DEF Generation
<1>4. x \in Instance
  BY <1>2, <1>3 DEF Instance
<1>5. put' = [put EXCEPT ![l] = put[l] + 1] /\ put'[l] = put[l] + 1
  BY <1>1 DEF Put
<1>6. instance' = [instance EXCEPT ![l] = x]
  BY <1>5 DEF Put
<1> QED BY <1>1, <1>2, <1>4, <1>5, <1>6 DEF Put

LEMMA PutSound ==
  ASSUME Sound, NEW l \in Link, Put(l)
  PROVE  Sound'
<1>1. TypeOK'
  <2>1. instance' \in [Link -> Instance \cup {Absent}]
    <3>1. instance \in [Link -> Instance \cup {Absent}]
      BY DEF Sound, TypeOK
    <3>2. PICK x \in Instance : instance' = [instance EXCEPT ![l] = x]
      BY PutMakes, Zenon DEF Sound
    <3> QED BY <3>1, <3>2
  <2>2. put' \in [Link -> 0 .. MaxGeneration]
    <3>1. put \in [Link -> 0 .. MaxGeneration]
      BY DEF Sound, TypeOK
    <3>2. put' = [put EXCEPT ![l] = put[l] + 1] /\ put[l] + 1 \in 1 .. MaxGeneration
      BY PutMakes, Zenon DEF Sound
    <3> QED BY <3>1, <3>2
  <2> QED BY <2>1, <2>2, PutMakes DEF Sound, TypeOK
<1> QED BY <1>1, PutMakes, SameUsed, SameReattach DEF Sound

LEMMA RemoveSound ==
  ASSUME Sound, NEW l \in Link, Remove(l)
  PROVE  Sound'
<1>1. instance' \in [Link -> Instance \cup {Absent}]
  BY DEF Sound, TypeOK, Remove
<1>2. TypeOK'
  BY <1>1 DEF Sound, TypeOK, Remove
<1> QED BY <1>2, SameUsed, SameReattach DEF Sound, Remove

LEMMA ReceiveAttachSound ==
  ASSUME Sound, ReceiveAttach
  PROVE  Sound'
<1> DEFINE m == Head(toServer)
<1>1. m \in DirectRequest /\ m.id \in Id
  BY DEF Sound, TypeOK, ReceiveAttach, Request, DirectRequest, ReattachRequest
<1>2. [type |-> "refused", id |-> m.id] \in Message
  BY <1>1 DEF Message, Refusal
<1>3. TypeOK'
  <2>3. toServer \in Seq(Request) /\ handling \in Seq(DirectRequest) /\ toClient \in Seq(Message)
    BY DEF Sound, TypeOK
  <2>4. toServer # <<>> /\ toServer' = Tail(toServer)
    BY DEF ReceiveAttach
  <2>5. handling' \in {handling, Append(handling, m)}
    BY DEF ReceiveAttach
  <2>6. toClient' \in {toClient, Append(toClient, [type |-> "refused", id |-> m.id])}
    BY DEF ReceiveAttach, Reply
  <2>1. toServer' \in Seq(Request)
    BY <2>3, <2>4
  <2> HIDE DEF m
  <2>2. handling' \in Seq(DirectRequest) /\ toClient' \in Seq(Message)
    BY <1>1, <1>2, <2>3, <2>5, <2>6, Appended
  <2> QED BY <2>1, <2>2 DEF Sound, TypeOK, ReceiveAttach
<1>4. UsedWhereNamed'
  BY SameUsed DEF Sound, ReceiveAttach
<1>5. OneReattach'
  <2>1. toServer # <<>> /\ Head(toServer).type # "reattach" /\ toServer' = Tail(toServer)
    BY DEF ReceiveAttach
  <2>2. toClient' \in {toClient, Append(toClient, [type |-> "refused", id |-> m.id])}
    BY DEF ReceiveAttach, Reply
  <2>3. UNCHANGED <<querying, reattaching>> /\ Deltas' = Deltas
    BY DEF ReceiveAttach, Deltas
  <2> QED BY <1>2, <2>1, <2>2, <2>3, ReattachElsewhere DEF Sound, TypeOK, OutcomeTypes
<1> QED BY <1>3, <1>4, <1>5 DEF Sound

LEMMA FinishAttachReplies ==
  ASSUME TypeOK, FinishAttach, IsLive(Head(handling).id)
  PROVE  LET id == Head(handling).id
             l == LinkOf(id)
             x == instance[l]
             m == [type |-> "attached", id |-> id, gen |-> x.gen, link |-> l, rev |-> x.rev,
                   values |-> AllValues(x)]
         IN  /\ id \in Id /\ l \in Link /\ Live(l) /\ x \in Instance /\ x.id = id
             /\ m \in Answer /\ m \in Message
             /\ toClient' = Append(toClient, m)
             /\ subscriptions' = subscriptions \cup {id}
<1> DEFINE id == Head(handling).id
           l == LinkOf(id)
           x == instance[l]
           m == [type |-> "attached", id |-> id, gen |-> x.gen, link |-> l, rev |-> x.rev,
                 values |-> AllValues(x)]
<1>1. id \in Id
  <2>1. Head(handling) \in DirectRequest
    BY DEF TypeOK, FinishAttach
  <2> QED BY <2>1 DEF DirectRequest
<1>2. l \in Link /\ Live(l) /\ x.id = id
  BY LinkOfLive
<1>3. x \in Instance
  BY <1>2 DEF TypeOK, Live
<1>4. toClient' = Append(toClient, m) /\ subscriptions' = subscriptions \cup {id}
  BY Zenon DEF FinishAttach, Reply
<1>5. x.gen \in Generation /\ x.rev \in Revision /\ AllValues(x) \in Values
  BY <1>3, InstanceType
<1> HIDE DEF id, l, x
<1>6. m \in Answer
  BY <1>1, <1>2, <1>5 DEF Answer
<1> QED BY <1>1, <1>2, <1>3, <1>4, <1>6 DEF id, l, x, Message

LEMMA FinishAttachSound ==
  ASSUME Sound, FinishAttach
  PROVE  Sound'
<1>1. handling' \in Seq(DirectRequest)
  BY DEF Sound, TypeOK, FinishAttach
<1>2. UsedWhereNamed'
  BY SameUsed DEF Sound, FinishAttach
<1>3. CASE IsLive(Head(handling).id)
  <2> DEFINE i == Head(handling).id
  <2>5. \E m \in Message : toClient' = Append(toClient, m)
    BY <1>3, FinishAttachReplies DEF Sound
  <2>6. i \in Id /\ subscriptions' = subscriptions \cup {i}
    BY <1>3, FinishAttachReplies DEF Sound
  <2>7. toClient' \in Seq(Message)
    BY <2>5 DEF Sound, TypeOK
  <2>1. TypeOK'
    BY <1>1, <2>6, <2>7 DEF Sound, TypeOK, FinishAttach
  <2>2. \E m \in Message : m.type \notin OutcomeTypes /\ toClient' = Append(toClient, m)
    BY <1>3, FinishAttachReplies DEF Sound, OutcomeTypes
  <2>3. UNCHANGED <<toServer, querying, reattaching>> /\ Deltas' = Deltas
    BY DEF FinishAttach, Deltas
  <2>4. OneReattach'
    BY <2>2, <2>3, ReattachElsewhere DEF Sound, TypeOK
  <2> QED BY <1>2, <2>1, <2>4 DEF Sound
<1>4. CASE ~IsLive(Head(handling).id)
  <2>1. TypeOK'
    BY <1>1, <1>4 DEF Sound, TypeOK, FinishAttach
  <2>2. OneReattach'
    BY <1>4, SameReattach DEF Sound, FinishAttach
  <2> QED BY <1>2, <2>1, <2>2 DEF Sound
<1> QED BY <1>3, <1>4

LEMMA ReceiveReattachSound ==
  ASSUME Sound, ReceiveReattach
  PROVE  Sound'
<1> DEFINE m == Head(toServer)
<1>1. /\ toServer \in Seq(Request) /\ toServer # <<>> /\ toServer' = Tail(toServer)
      /\ m.type = "reattach" /\ querying' = m
  BY DEF Sound, TypeOK, ReceiveReattach
<1>2. m \in Request /\ toServer' \in Seq(Request)
  BY <1>1, Dropped
<1>3. m \in ReattachRequest
  BY <1>1, <1>2 DEF Request, DirectRequest
<1>4. TypeOK'
  BY <1>1, <1>2, <1>3 DEF Sound, TypeOK, ReceiveReattach
<1>5. UsedWhereNamed'
  BY SameUsed DEF Sound, ReceiveReattach
<1>6. 1 \in Asked
  BY <1>1, Dropped DEF Asked
<1>7. Asked' = {}
  <2>1. \A k \in Asked' : k + 1 \in Asked
    BY <1>1, Dropped DEF Asked
  <2>2. \A k \in Asked' : k + 1 # 1
    BY <1>2 DEF Asked
  <2> QED BY <1>6, <2>1, <2>2 DEF Sound, OneReattach
<1>8. Answered' = Answered /\ Deltas' = Deltas /\ UNCHANGED reattaching
  BY DEF ReceiveReattach, Answered, Deltas
<1>9. OneReattach'
  BY <1>6, <1>7, <1>8 DEF Sound, OneReattach
<1> QED BY <1>4, <1>5, <1>9 DEF Sound

(* The three outcomes of a reattach.                                       *)
LEMMA FinishReattachReplies ==
  ASSUME TypeOK, FinishReattach
  PROVE  LET l == querying.link
             x == instance[l]
             v == IF querying.gen = x.gen THEN ValuesSince(x, querying.rev) ELSE AllValues(x)
             m == [type |-> "reattached", id |-> x.id, gen |-> x.gen, link |-> l,
                   rev |-> x.rev, values |-> v]
         IN  /\ querying \in ReattachRequest /\ l \in Link /\ querying' = None
             /\ \/ /\ subscriptions' = subscriptions
                   /\ \/ toClient' = Append(toClient, [type |-> "notFound"])
                      \/ toClient' = Append(toClient, [type |-> "rejected"])
                \/ /\ Live(l) /\ x \in Instance /\ m \in Answer /\ m \in Message
                   /\ subscriptions' = subscriptions \cup {x.id}
                   /\ toClient' = Append(toClient, m)
<1> DEFINE l == querying.link
           x == instance[l]
           v == IF querying.gen = x.gen THEN ValuesSince(x, querying.rev) ELSE AllValues(x)
           m == [type |-> "reattached", id |-> x.id, gen |-> x.gen, link |-> l,
                 rev |-> x.rev, values |-> v]
<1>1. querying \in ReattachRequest /\ querying' = None
  BY DEF TypeOK, FinishReattach
<1>2. l \in Link /\ querying.rev \in Nat
  BY <1>1 DEF ReattachRequest, Revision
<1>3. \/ /\ subscriptions' = subscriptions
         /\ \/ toClient' = Append(toClient, [type |-> "notFound"])
            \/ toClient' = Append(toClient, [type |-> "rejected"])
      \/ /\ Live(l)
         /\ subscriptions' = subscriptions \cup {x.id}
         /\ toClient' = Append(toClient, m)
  <2>1. CASE ~Live(l)
    BY <2>1, Zenon DEF FinishReattach, Reply
  <2>2. CASE Live(l) /\ AlreadyAttached(x.id)
    BY <2>2, Zenon DEF FinishReattach, Reply
  <2>3. CASE Live(l) /\ ~AlreadyAttached(x.id)
    BY <2>3, Zenon DEF FinishReattach, Reply
  <2> QED BY <2>1, <2>2, <2>3
<1>4. ASSUME Live(l) PROVE x \in Instance /\ m \in Answer
  <2>1. x \in Instance
    BY <1>2, <1>4 DEF TypeOK, Live
  <2>2. x.id \in Id /\ x.gen \in Generation /\ x.rev \in Revision /\ v \in Values
    BY <1>2, <2>1, InstanceType
  <2> HIDE DEF x, l, v
  <2> QED BY <1>2, <2>1, <2>2 DEF Answer
<1> QED BY <1>1, <1>2, <1>3, <1>4 DEF Message

LEMMA FinishReattachSound ==
  ASSUME Sound, FinishReattach
  PROVE  Sound'
<1> DEFINE x == instance[querying.link]
<1>1. PICK m \in Message : m.type \in OutcomeTypes /\ toClient' = Append(toClient, m)
  <2>1. [type |-> "notFound"] \in Message /\ [type |-> "rejected"] \in Message
    BY DEF Message, Refusal
  <2> QED BY <2>1, FinishReattachReplies DEF Sound, OutcomeTypes
<1>2. \/ subscriptions' = subscriptions
      \/ x \in Instance /\ subscriptions' = subscriptions \cup {x.id}
  BY FinishReattachReplies DEF Sound
<1>3. subscriptions' \subseteq Id
  <2> HIDE DEF x
  <2>1. subscriptions \subseteq Id
    BY DEF Sound, TypeOK
  <2> QED BY <1>2, <2>1, InstanceType
<1>4. toClient \in Seq(Message)
  BY DEF Sound, TypeOK
<1>5. TypeOK'
  BY <1>1, <1>3, <1>4, Appended DEF Sound, TypeOK, FinishReattach
<1>6. UsedWhereNamed'
  BY SameUsed DEF Sound, FinishReattach
<1>7. /\ querying # None /\ querying' = None /\ UNCHANGED reattaching
      /\ Asked' = Asked /\ Deltas' = Deltas
  BY DEF FinishReattach, Asked, Deltas
<1>8. Answered = {} /\ Asked = {} /\ Deltas = {} /\ reattaching # None
  BY <1>7 DEF Sound, OneReattach
<1>9. \A k \in Answered' : k = Len(toClient) + 1
  BY <1>1, <1>4, <1>8 DEF Answered
<1>10. OneReattach'
  BY <1>7, <1>8, <1>9 DEF OneReattach
<1> QED BY <1>5, <1>6, <1>10 DEF Sound

LEMMA ReceiveDetachSound ==
  ASSUME Sound, ReceiveDetach
  PROVE  Sound'
<1> DEFINE m == Head(toServer)
<1>1. /\ toServer \in Seq(Request) /\ toServer # <<>> /\ toServer' = Tail(toServer)
      /\ m.type = "detach" /\ handling \in Seq(DirectRequest)
      /\ handling' \in {handling, Append(handling, m)}
  BY DEF Sound, TypeOK, ReceiveDetach
<1>2. m \in Request /\ toServer' \in Seq(Request)
  BY <1>1, Dropped
<1>3. m \in DirectRequest
  BY <1>1, <1>2 DEF Request, ReattachRequest
<1>4. handling' \in Seq(DirectRequest)
  BY <1>1, <1>3, Appended
<1>5. TypeOK'
  BY <1>2, <1>4 DEF Sound, TypeOK, ReceiveDetach
<1>6. UsedWhereNamed'
  BY SameUsed DEF Sound, ReceiveDetach
<1>7. UNCHANGED <<toClient, querying, reattaching>> /\ Deltas' = Deltas
  BY DEF ReceiveDetach, Deltas
<1>8. OneReattach'
  BY <1>1, <1>7, ReattachElsewhere DEF Sound, TypeOK
<1> QED BY <1>5, <1>6, <1>8 DEF Sound

LEMMA FinishDetachSound ==
  ASSUME Sound, FinishDetach
  PROVE  Sound'
<1>1. handling' \in Seq(DirectRequest)
  BY DEF Sound, TypeOK, FinishDetach
<1>2. subscriptions' \subseteq Id
  BY DEF Sound, TypeOK, FinishDetach
<1>3. TypeOK'
  BY <1>1, <1>2 DEF Sound, TypeOK, FinishDetach
<1> QED BY <1>3, SameUsed, SameReattach DEF Sound, FinishDetach

LEMMA AttachSound ==
  ASSUME Sound, NEW id \in Id, Attach(id)
  PROVE  Sound'
<1> DEFINE m == [type |-> "attach", id |-> id]
<1>1. m \in Request /\ m.type # "reattach"
  BY DEF Request, DirectRequest
<1>2. toServer' \in {toServer, Append(toServer, m)} /\ toServer \in Seq(Request)
  BY DEF Attach, Sound, TypeOK
<1>3. held' \subseteq Obj
  <2>1. attachedResources[id] \in Obj \cup {None} /\ held \subseteq Obj
    BY DEF Sound, TypeOK
  <2> QED BY <2>1 DEF Attach
<1>4. attachRequests' \subseteq Id
  <2>1. attachRequests \subseteq Id
    BY DEF Sound, TypeOK
  <2> QED BY <2>1 DEF Attach
<1>5. disturbed' \in BOOLEAN
  BY DEF Attach, Disturbance, Sound, TypeOK
<1>6. toServer' \in Seq(Request)
  BY <1>1, <1>2, Appended
<1>7. TypeOK'
  BY <1>3, <1>4, <1>5, <1>6 DEF Sound, TypeOK, Attach
<1>8. UsedWhereNamed'
  <2>1. UNCHANGED <<proxy, attachedResources, restore, reattaching, decoding>>
    BY DEF Attach
  <2>2. \A o \in held' : \/ o \in held
                         \/ attachedResources[id] # None /\ o = attachedResources[id]
    <3>1. CASE attachedResources[id] # None
      BY <3>1, Zenon DEF Attach
    <3>2. CASE attachedResources[id] = None
      BY <3>2, Zenon DEF Attach
    <3> QED BY <3>1, <3>2
  <2> QED BY <2>1, <2>2 DEF Sound, UsedWhereNamed, Used
<1>9. UNCHANGED <<toClient, querying, reattaching>> /\ Deltas' = Deltas
  BY DEF Attach, Deltas
<1>10. OneReattach'
  BY <1>1, <1>2, <1>9, ReattachElsewhere DEF Sound, TypeOK
<1> QED BY <1>7, <1>8, <1>10 DEF Sound

LEMMA DetachSound ==
  ASSUME Sound, NEW o \in Obj, Detach(o)
  PROVE  Sound'
<1> DEFINE i == proxy[o].id
           m == [type |-> "detach", id |-> i]
<1>11. proxy[o] \in Proxy
  BY DEF Sound, TypeOK, UsedWhereNamed, Used, Detach
<1>1. i \in Id /\ m \in Request /\ m.type # "reattach"
  BY <1>11, ProxyType DEF Request, DirectRequest
<1>2. toServer' \in {toServer, Append(toServer, m)} /\ toServer \in Seq(Request)
  BY DEF Detach, Sound, TypeOK
<1>3. /\ attachedResources \in [Id -> Obj \cup {None}]
      /\ attachedResources' = [attachedResources EXCEPT ![i] = None]
  BY DEF Detach, Sound, TypeOK
<1>4. disturbed' \in BOOLEAN /\ held' \subseteq Obj
  BY DEF Detach, Disturbance, Sound, TypeOK
<1>5. toServer' \in Seq(Request)
  BY <1>1, <1>2, Appended
<1>6. attachedResources' \in [Id -> Obj \cup {None}]
  BY <1>3
<1>7. TypeOK'
  BY <1>4, <1>5, <1>6 DEF Sound, TypeOK, Detach
<1>8. UsedWhereNamed'
  BY <1>3 DEF Sound, UsedWhereNamed, Used, Detach
<1>9. UNCHANGED <<toClient, querying, reattaching>> /\ Deltas' = Deltas
  BY DEF Detach, Deltas
<1>10. OneReattach'
  BY <1>1, <1>2, <1>9, ReattachElsewhere DEF Sound, TypeOK
<1> QED BY <1>7, <1>8, <1>10 DEF Sound

LEMMA ProxyChanged ==
  ASSUME proxy \in [Obj -> Proxy \cup {Unused}], NEW o \in Obj, NEW r \in Proxy,
         proxy' = [proxy EXCEPT ![o] = r]
  PROVE  /\ proxy' \in [Obj -> Proxy \cup {Unused}]
         /\ proxy'[o] = r /\ Used(o)'
         /\ \A q \in Obj : q # o => proxy'[q] = proxy[q]
         /\ \A q \in Obj : Used(q) => Used(q)'
BY ProxyType DEF Used

(* The reply at the head of the channel.                                   *)
LEMMA Receives ==
  ASSUME toClient \in Seq(Message), NEW t, Receiving(t)
  PROVE  /\ toClient # <<>> /\ toClient' = Tail(toClient) /\ toClient' \in Seq(Message)
         /\ Head(toClient) = toClient[1] /\ toClient[1] \in Message /\ toClient[1].type = t
         /\ 1 \in DOMAIN toClient
         /\ \A k \in DOMAIN toClient' : /\ k + 1 \in DOMAIN toClient /\ k + 1 # 1
                                        /\ toClient'[k] = toClient[k + 1]
         /\ \A k \in DOMAIN toClient : k # 1 => k - 1 \in DOMAIN toClient'
         /\ Len(toClient') = Len(toClient) - 1
<1>1. toClient # <<>> /\ toClient' = Tail(toClient) /\ Head(toClient).type = t
  BY DEF Receiving
<1> QED BY <1>1, Dropped

LEMMA ReceiveAttachedSound ==
  ASSUME Sound, NEW o \in Obj, ReceiveAttached(o)
  PROVE  Sound'
<1> DEFINE m == toClient[1]
<1>0. toClient \in Seq(Message) /\ proxy \in [Obj -> Proxy \cup {Unused}]
  BY DEF Sound, TypeOK
<1>1. Receiving("attached") /\ Head(toClient) = m /\ m.type = "attached" /\ m \in Message
  BY <1>0, Receives DEF ReceiveAttached
<1>2. m \in Answer /\ m.id \in Id /\ m.values \in Values
  BY <1>1, MessageType DEF AnswerTypes
<1>3. toClient' \in Seq(Message) /\ disturbed' \in BOOLEAN
  BY <1>0, <1>1, Receives DEF Sound, TypeOK, ReceiveAttached, Disturbance
<1>4. UNCHANGED <<toServer, querying, reattaching>>
  BY DEF ReceiveAttached
<1>5. CASE /\ proxy' = [proxy EXCEPT ![o] = Merge(NewProxy(m), m.values)]
           /\ Track(o, m.id)
           /\ UNCHANGED <<decoding, late>>
  <2>1. Merge(NewProxy(m), m.values) \in Proxy
    BY <1>2, Made, Merged
  <2>2. /\ proxy' \in [Obj -> Proxy \cup {Unused}] /\ Used(o)'
        /\ \A q \in Obj : Used(q) => Used(q)'
    BY <1>0, <1>5, <2>1, ProxyChanged, Zenon
  <2>3. /\ attachedResources \in [Id -> Obj \cup {None}]
        /\ attachedResources' = [attachedResources EXCEPT ![m.id] = o]
    BY <1>5 DEF Track, Sound, TypeOK
  <2> HIDE DEF m
  <2>4. attachedResources' \in [Id -> Obj \cup {None}]
    BY <2>3
  <2>5. attachRequests' \subseteq Id /\ held' \subseteq Obj /\ held' = held \cup {o}
    BY <1>5 DEF Track, Sound, TypeOK
  <2>6. TypeOK'
    BY <1>3, <1>5, <2>2, <2>4, <2>5 DEF Sound, TypeOK, ReceiveAttached
  <2>7. UsedWhereNamed'
    <3>1. \A i \in Id : attachedResources'[i] \in {o, attachedResources[i]}
      BY <2>3
    <3>2. UNCHANGED <<restore, reattaching, decoding>>
      BY <1>5 DEF ReceiveAttached
    <3> QED BY <2>2, <2>5, <3>1, <3>2 DEF Sound, TypeOK, UsedWhereNamed
  <2>8. Deltas' = Deltas
    BY <1>5 DEF Deltas
  <2>9. OneReattach'
    BY <1>0, <1>1, <1>4, <2>8, ReattachElsewhere DEF Sound, TypeOK, Receiving, OutcomeTypes
  <2> QED BY <2>6, <2>7, <2>9 DEF Sound
<1>6. CASE /\ DecodeLater(o, m.id, m)
           /\ proxy' = [proxy EXCEPT ![o] = NewProxy(m)]
           /\ UNCHANGED <<attachedResources, attachRequests, held>>
  <2> DEFINE d == [obj |-> o, old |-> m.id, reply |-> m]
  <2>1. NewProxy(m) \in Proxy
    BY <1>2, Made
  <2>2. /\ proxy' \in [Obj -> Proxy \cup {Unused}] /\ Used(o)'
        /\ \A q \in Obj : Used(q) => Used(q)'
    BY <1>0, <1>6, <2>1, ProxyChanged, Zenon
  <2>3. decoding' = decoding \cup {d} /\ late' = late \cup {o} /\ d.obj = o /\ d.reply = m
    BY <1>6 DEF DecodeLater
  <2>4. d \in [obj : Obj, old : Id, reply : Answer]
    BY <1>2
  <2> HIDE DEF m, d
  <2>5. TypeOK'
    BY <1>3, <1>6, <2>2, <2>3, <2>4 DEF Sound, TypeOK, ReceiveAttached
  <2>6. UsedWhereNamed'
    <3>1. UNCHANGED <<attachedResources, restore, reattaching, held>>
      BY <1>6 DEF ReceiveAttached
    <3> QED BY <2>2, <2>3, <2>4, <3>1 DEF Sound, TypeOK, UsedWhereNamed
  <2>7. Deltas' = Deltas
    BY <1>1, <2>3 DEF Deltas
  <2>8. OneReattach'
    BY <1>0, <1>1, <1>4, <2>7, ReattachElsewhere DEF Sound, TypeOK, Receiving, OutcomeTypes
  <2> QED BY <2>5, <2>6, <2>8 DEF Sound
<1> QED BY <1>1, <1>5, <1>6 DEF ReceiveAttached

LEMMA ReceiveRefusedSound ==
  ASSUME Sound, ReceiveRefused
  PROVE  Sound'
<1>0. toClient \in Seq(Message)
  BY DEF Sound, TypeOK
<1>1. Receiving("refused") /\ toClient' \in Seq(Message)
  BY <1>0, Receives DEF ReceiveRefused
<1>2. attachRequests' \subseteq Id
  BY DEF Sound, TypeOK, ReceiveRefused
<1>3. TypeOK'
  BY <1>1, <1>2 DEF Sound, TypeOK, ReceiveRefused
<1>4. UsedWhereNamed'
  BY SameUsed DEF Sound, ReceiveRefused
<1>5. UNCHANGED <<toServer, querying, reattaching>> /\ Deltas' = Deltas
  BY DEF ReceiveRefused, Deltas
<1>6. OneReattach'
  BY <1>0, <1>1, <1>5, ReattachElsewhere DEF Sound, TypeOK, Receiving, OutcomeTypes
<1> QED BY <1>3, <1>4, <1>6 DEF Sound

(* The answer to the reattach is the only trace of it.                     *)
LEMMA LastOfReattach ==
  ASSUME Sound, NEW t \in OutcomeTypes, Receiving(t)
  PROVE  /\ reattaching \in Obj /\ Used(reattaching) /\ proxy[reattaching] \in Proxy
         /\ Asked = {} /\ querying = None /\ Deltas = {} /\ Answered' = {}
<1>0. toClient \in Seq(Message)
  BY DEF Sound, TypeOK
<1>1. 1 \in Answered
  BY <1>0, Receives DEF Answered
<1>2. Answered' = {}
  <2>1. \A k \in Answered' : k + 1 \in Answered /\ k + 1 # 1
    BY <1>0, Receives DEF Answered
  <2> QED BY <1>1, <2>1 DEF Sound, OneReattach
<1>3. Asked = {} /\ querying = None /\ Deltas = {} /\ reattaching # None
  BY <1>1 DEF Sound, OneReattach
<1>4. reattaching \in Obj /\ Used(reattaching)
  BY <1>3 DEF Sound, TypeOK, UsedWhereNamed
<1>5. proxy[reattaching] \in Proxy
  BY <1>4 DEF Sound, TypeOK, Used
<1> QED BY <1>2, <1>3, <1>4, <1>5

LEMMA ReceiveReattachedSound ==
  ASSUME Sound, ReceiveReattached
  PROVE  Sound'
<1> DEFINE m == toClient[1]
           o == reattaching
           r == proxy[o]
           old == r.id
<1>0. toClient \in Seq(Message) /\ proxy \in [Obj -> Proxy \cup {Unused}]
  BY DEF Sound, TypeOK
<1>1. Receiving("reattached") /\ Head(toClient) = m /\ m.type = "reattached" /\ m \in Message
  BY <1>0, Receives DEF ReceiveReattached
<1>2. m \in Answer /\ m.id \in Id /\ m.values \in Values
  BY <1>1, MessageType DEF AnswerTypes
<1>3. toClient' \in Seq(Message) /\ disturbed' \in BOOLEAN
  BY <1>0, <1>1, Receives DEF Sound, TypeOK, ReceiveReattached, Disturbance
<1>4. /\ o \in Obj /\ Used(o) /\ r \in Proxy
      /\ Asked = {} /\ querying = None /\ Deltas = {} /\ Answered' = {}
  BY <1>1, LastOfReattach DEF OutcomeTypes
<1>5. Asked' = {} /\ querying' = None /\ UNCHANGED <<restore, held>>
  BY <1>4 DEF ReceiveReattached, Asked
<1>6. Identify(r, m) \in Proxy /\ Merge(Identify(r, m), m.values) \in Proxy
  BY <1>2, <1>4, Identified, Merged
<1>7. CASE /\ proxy' = [proxy EXCEPT ![o] = Merge(Identify(@, m), m.values)]
           /\ Rekey(o, old, m.id)
           /\ reattaching' = None
           /\ UNCHANGED <<decoding, late>>
  <2> DEFINE s == Merge(Identify(r, m), m.values)
  <2>0. proxy' = [proxy EXCEPT ![o] = s] /\ s \in Proxy
    BY <1>6, <1>7
  <2> HIDE DEF s, r
  <2>1. /\ proxy' \in [Obj -> Proxy \cup {Unused}] /\ proxy'[o] # Unused
        /\ \A q \in Obj : Used(q) => Used(q)'
    BY <1>0, <1>4, <2>0, ProxyChanged, ProxyType, Zenon
  <2> HIDE DEF m, o, old
  <2>2. \A i \in Id : attachedResources'[i] \in {o, None, attachedResources[i]}
    BY <1>7 DEF Rekey
  <2>3. attachedResources' \in [Id -> Obj \cup {None}]
    <3>1. attachedResources \in [Id -> Obj \cup {None}]
      BY DEF Sound, TypeOK
    <3> QED BY <1>4, <1>7, <3>1 DEF Rekey
  <2>4. TypeOK'
    BY <1>3, <1>7, <2>1, <2>3 DEF Sound, TypeOK, ReceiveReattached
  <2>5. UsedWhereNamed'
    BY <1>4, <1>5, <1>7, <2>1, <2>2 DEF Sound, TypeOK, UsedWhereNamed, Used
  <2>6. Deltas' = {}
    BY <1>4, <1>7 DEF Deltas
  <2>7. OneReattach'
    BY <1>4, <1>5, <2>6 DEF OneReattach
  <2> QED BY <2>4, <2>5, <2>7 DEF Sound
<1>8. CASE /\ DecodeLater(o, old, m)
           /\ proxy' = [proxy EXCEPT ![o] = Identify(@, m)]
           /\ UNCHANGED <<attachedResources, reattaching>>
  <2> DEFINE d == [obj |-> o, old |-> old, reply |-> m]
  <2>1. /\ proxy' \in [Obj -> Proxy \cup {Unused}] /\ proxy'[o] # Unused
        /\ \A q \in Obj : Used(q) => Used(q)'
    BY <1>0, <1>4, <1>6, <1>8, ProxyChanged, ProxyType, Zenon
  <2>2. decoding' = decoding \cup {d} /\ late' = late \cup {o} /\ d.obj = o /\ d.reply = m
    BY <1>8 DEF DecodeLater
  <2>3. d \in [obj : Obj, old : Id, reply : Answer]
    BY <1>2, <1>4, ProxyType
  <2> HIDE DEF m, d, o, old
  <2>4. TypeOK'
    BY <1>3, <1>4, <1>8, <2>1, <2>2, <2>3 DEF Sound, TypeOK, ReceiveReattached
  <2>5. UsedWhereNamed'
    BY <1>4, <1>5, <1>8, <2>1, <2>2, <2>3 DEF Sound, TypeOK, UsedWhereNamed, Used
  <2>6. Deltas' = {d} /\ reattaching' # None
    BY <1>1, <1>4, <1>8, <2>2 DEF Deltas, o
  <2>7. OneReattach'
    BY <1>4, <1>5, <2>6 DEF OneReattach
  <2> QED BY <2>4, <2>5, <2>7 DEF Sound
<1> QED BY <1>1, <1>7, <1>8 DEF ReceiveReattached

LEMMA FinishDecodeSound ==
  ASSUME Sound, NEW d \in decoding, FinishDecode(d)
  PROVE  Sound'
<1> DEFINE o == d.obj
           m == d.reply
<1>0. proxy \in [Obj -> Proxy \cup {Unused}]
  BY DEF Sound, TypeOK
<1>1. /\ d \in [obj : Obj, old : Id, reply : Answer]
      /\ o \in Obj /\ Used(o) /\ d.old \in Id /\ m \in Answer
  BY DEF Sound, TypeOK, UsedWhereNamed
<1>2. /\ m.type \in AnswerTypes /\ m.id \in Id /\ m.values \in Values
      /\ proxy[o] \in Proxy
  BY <1>0, <1>1, MessageType DEF Answer, AnswerTypes, Used
<1>3. Merge(proxy[o], m.values) \in Proxy
  BY <1>2, Merged
<1>4. /\ proxy' \in [Obj -> Proxy \cup {Unused}]
      /\ \A q \in Obj : Used(q) => Used(q)'
  <2>1. proxy' = [proxy EXCEPT ![o] = Merge(proxy[o], m.values)]
    BY DEF FinishDecode
  <2> QED BY <1>0, <1>1, <1>3, <2>1, ProxyChanged, Zenon
<1>5. /\ decoding' = decoding \ {d} /\ UNCHANGED <<toServer, toClient, querying, restore>>
      /\ Asked' = Asked /\ Answered' = Answered
  BY DEF FinishDecode, Asked, Answered
<1>6. attachedResources \in [Id -> Obj \cup {None}] /\ held \subseteq Obj /\ attachRequests \subseteq Id
  BY DEF Sound, TypeOK
<1>7. CASE m.type = "attached"
  <2>1. /\ attachedResources' = [attachedResources EXCEPT ![m.id] = o]
        /\ attachRequests' = attachRequests \ {m.id}
        /\ held' = held \cup {o}
        /\ UNCHANGED reattaching
    BY <1>7 DEF FinishDecode, Track
  <2> HIDE DEF o, m
  <2>2. attachedResources' \in [Id -> Obj \cup {None}] /\ held' \subseteq Obj /\ attachRequests' \subseteq Id
    BY <1>1, <1>6, <2>1
  <2>3. TypeOK'
    BY <1>4, <1>5, <2>1, <2>2 DEF Sound, TypeOK, FinishDecode
  <2>4. UsedWhereNamed'
    <3>1. \A i \in Id : attachedResources'[i] \in {o, attachedResources[i]}
      BY <1>6, <2>1
    <3> QED BY <1>1, <1>4, <1>5, <2>1, <3>1 DEF Sound, TypeOK, UsedWhereNamed
  <2>5. Deltas' = Deltas
    BY <1>5, <1>7 DEF Deltas, m
  <2>6. OneReattach'
    BY <1>5, <2>1, <2>5 DEF Sound, OneReattach
  <2> QED BY <2>3, <2>4, <2>6 DEF Sound
<1>8. CASE m.type = "reattached"
  <2>1. Rekey(o, d.old, m.id) /\ reattaching' = None /\ UNCHANGED <<attachRequests, held>>
    BY <1>8 DEF FinishDecode
  <2>2. d \in Deltas
    BY <1>8 DEF Deltas
  <2> HIDE DEF o, m
  <2>3. \A i \in Id : attachedResources'[i] \in {o, None, attachedResources[i]}
    BY <2>1 DEF Rekey
  <2>4. attachedResources' \in [Id -> Obj \cup {None}]
    BY <1>1, <1>6, <2>1 DEF Rekey
  <2>5. TypeOK'
    BY <1>4, <1>5, <2>1, <2>4 DEF Sound, TypeOK, FinishDecode
  <2>6. UsedWhereNamed'
    BY <1>1, <1>4, <1>5, <2>1, <2>3 DEF Sound, TypeOK, UsedWhereNamed
  <2>7. Deltas' = {} /\ Asked' = {} /\ Answered' = {} /\ querying' = None
    BY <1>5, <2>2 DEF Sound, OneReattach, Deltas
  <2>8. OneReattach'
    BY <2>7 DEF OneReattach
  <2> QED BY <2>5, <2>6, <2>8 DEF Sound
<1> QED BY <1>2, <1>7, <1>8 DEF AnswerTypes

LEMMA ReattachFailedSound ==
  ASSUME Sound, ReceiveNotFound \/ ReceiveRejected
  PROVE  Sound'
<1>0. toClient \in Seq(Message)
  BY DEF Sound, TypeOK
<1>1. PICK t \in OutcomeTypes : Receiving(t)
  BY DEF ReceiveNotFound, ReceiveRejected, OutcomeTypes
<1>2. toClient' \in Seq(Message)
  BY <1>0, <1>1, Receives
<1>3. reattaching' = None /\ restore' \in {restore, Nothing}
  BY DEF ReceiveNotFound, ReceiveRejected
<1>4. UNCHANGED <<serverVars, serverSession, toServer, sessionVars, proxy, attachedResources,
                  attachRequests, decoding, late, held, disturbed, notificationQueue>>
  BY DEF ReceiveNotFound, ReceiveRejected
<1>5. restore' \in [Id -> Obj \cup {None}]
  <2>1. restore \in [Id -> Obj \cup {None}] /\ Nothing \in [Id -> Obj \cup {None}]
    BY DEF Sound, TypeOK, Nothing
  <2> QED BY <1>3, <2>1
<1>6. TypeOK'
  BY <1>2, <1>3, <1>4, <1>5 DEF Sound, TypeOK
<1>7. UsedWhereNamed'
  <2>1. \A i \in Id : restore'[i] \in {restore[i], None}
    BY <1>3 DEF Nothing
  <2> QED BY <1>3, <1>4, <2>1 DEF Sound, UsedWhereNamed, Used
<1>8. OneReattach'
  <2>1. Asked' = {} /\ querying' = None /\ Deltas' = {} /\ Answered' = {}
    BY <1>1, <1>4, LastOfReattach DEF Asked, Deltas
  <2> QED BY <2>1 DEF OneReattach
<1> QED BY <1>6, <1>7, <1>8 DEF Sound

LEMMA EnqueueNotificationSound ==
  ASSUME Sound, EnqueueNotification
  PROVE  Sound'
<1>0. toClient \in Seq(Message) /\ notificationQueue \in Seq(Notification)
  BY DEF Sound, TypeOK
<1>1. PICK t \in NotificationTypes : Receiving(t)
  BY DEF EnqueueNotification, NotificationTypes
<1>2. toClient' \in Seq(Message) /\ toClient[1] \in Notification /\ Head(toClient) = toClient[1]
  BY <1>0, <1>1, Receives, MessageType
<1>3. notificationQueue' \in Seq(Notification)
  BY <1>0, <1>2, Appended DEF EnqueueNotification
<1>4. TypeOK'
  BY <1>2, <1>3 DEF Sound, TypeOK, EnqueueNotification
<1>5. UsedWhereNamed'
  BY SameUsed DEF Sound, EnqueueNotification
<1>6. UNCHANGED <<toServer, querying, reattaching>> /\ Deltas' = Deltas
  BY DEF EnqueueNotification, Deltas
<1>7. toClient # <<>> /\ Head(toClient).type \notin OutcomeTypes /\ toClient' = Tail(toClient)
  BY <1>1 DEF Receiving, OutcomeTypes, NotificationTypes
<1>8. OneReattach'
  BY <1>0, <1>6, <1>7, ReattachElsewhere DEF Sound, TypeOK
<1> QED BY <1>4, <1>5, <1>8 DEF Sound

(* What a notification makes of the proxy its id names.                    *)
Taken(r, m) == IF m.type = "property" THEN UpdateProperty(r, m) ELSE ObserveCursor(r, m)

LEMMA Processes ==
  ASSUME Sound, ProcessNotification
  PROVE  LET m == notificationQueue[1]
             o == attachedResources[m.id]
         IN  /\ notificationQueue # <<>> /\ 1 \in DOMAIN notificationQueue
             /\ m \in Notification /\ m.id \in Id
             /\ notificationQueue' = Tail(notificationQueue)
             /\ notificationQueue' \in Seq(Notification)
             /\ o = None => proxy' = proxy
             /\ o # None => /\ o \in Obj /\ proxy[o] \in Proxy /\ Taken(proxy[o], m) \in Proxy
                            /\ proxy' = [proxy EXCEPT ![o] = Taken(proxy[o], m)]
<1> DEFINE m == notificationQueue[1]
           o == attachedResources[m.id]
<1>1. /\ notificationQueue \in Seq(Notification) /\ notificationQueue # <<>>
      /\ notificationQueue' = Tail(notificationQueue)
  BY DEF Sound, TypeOK, ProcessNotification
<1>2. /\ m \in Notification /\ Head(notificationQueue) = m /\ 1 \in DOMAIN notificationQueue
      /\ notificationQueue' \in Seq(Notification)
  BY <1>1, Dropped
<1>3. m.id \in Id
  BY <1>2 DEF Notification
<1>4. o = None => proxy' = proxy
  BY <1>2 DEF ProcessNotification
<1>5. o # None => proxy' = [proxy EXCEPT ![o] = Taken(proxy[o], m)]
  BY <1>2 DEF ProcessNotification, Taken
<1>6. o # None => o \in Obj /\ proxy[o] \in Proxy
  BY <1>3 DEF Sound, TypeOK, UsedWhereNamed, Used
<1>7. o # None => Taken(proxy[o], m) \in Proxy
  BY <1>2, <1>6, Updated, Observed DEF Taken
<1> QED BY <1>1, <1>2, <1>3, <1>4, <1>5, <1>6, <1>7

LEMMA ProcessNotificationSound ==
  ASSUME Sound, ProcessNotification
  PROVE  Sound'
<1>1. notificationQueue' \in Seq(Notification)
  BY Processes
<1>2. /\ proxy' \in [Obj -> Proxy \cup {Unused}]
      /\ \A q \in Obj : Used(q) => Used(q)'
  <2> DEFINE m == notificationQueue[1]
             o == attachedResources[m.id]
  <2>0. proxy \in [Obj -> Proxy \cup {Unused}]
    BY DEF Sound, TypeOK
  <2>1. CASE o = None
    BY <2>0, <2>1, Processes DEF Used
  <2>2. CASE o # None
    <3> DEFINE s == Taken(proxy[o], m)
    <3>0. o \in Obj /\ s \in Proxy /\ proxy' = [proxy EXCEPT ![o] = s]
      BY <2>2, Processes
    <3> HIDE DEF o, s
    <3>1. PICK x \in Obj, r \in Proxy : proxy' = [proxy EXCEPT ![x] = r]
      BY <3>0
    <3> QED BY <2>0, <3>1, ProxyChanged
  <2> QED BY <2>1, <2>2
<1>3. TypeOK'
  BY <1>1, <1>2 DEF Sound, TypeOK, ProcessNotification
<1>4. UsedWhereNamed'
  BY <1>2 DEF Sound, TypeOK, UsedWhereNamed, ProcessNotification
<1> QED BY <1>3, <1>4, SameReattach DEF Sound, ProcessNotification

LEMMA LoseConnectionSound ==
  ASSUME Sound, LoseConnection, TypeOK',
         UNCHANGED disturbed
  PROVE  Sound'
<1>1. UsedWhereNamed'
  BY DEF Sound, LoseConnection, UsedWhereNamed, Used, Nothing
<1>2. OneReattach'
  BY DEF LoseConnection, OneReattach, Asked, Answered, Deltas
<1> QED BY <1>1, <1>2 DEF Sound

LEMMA LoseConnectionType ==
  ASSUME Sound, LoseConnection
  PROVE  /\ connected' \in BOOLEAN
         /\ subscriptions' \subseteq Id /\ handling' \in Seq(DirectRequest)
         /\ querying' \in ReattachRequest \cup {None}
         /\ toServer' \in Seq(Request) /\ toClient' \in Seq(Message)
         /\ attachRequests' \subseteq Id
         /\ decoding' \subseteq [obj : Obj, old : Id, reply : Answer]
         /\ notificationQueue' \in Seq(Notification)
         /\ restore' \in [Id -> Obj \cup {None}]
         /\ reattaching' \in Obj \cup {None}
         /\ UNCHANGED <<sessions, proxy, attachedResources, late, held>>
<1>1. restore' \in [Id -> Obj \cup {None}]
  BY DEF LoseConnection, Nothing
<1>2. /\ handling' = <<>> /\ toServer' = <<>> /\ toClient' = <<>> /\ notificationQueue' = <<>>
      /\ connected' = FALSE /\ subscriptions' = {} /\ attachRequests' = {} /\ decoding' = {}
      /\ querying' = None /\ reattaching' = None
      /\ UNCHANGED <<sessions, proxy, attachedResources, late, held>>
  BY DEF LoseConnection
<1>3. /\ handling' \in Seq(DirectRequest) /\ toServer' \in Seq(Request)
      /\ toClient' \in Seq(Message) /\ notificationQueue' \in Seq(Notification)
  BY <1>2
<1> QED BY <1>1, <1>2, <1>3

LEMMA DisconnectSound ==
  ASSUME Sound, Disconnect
  PROVE  Sound'
<1>1. LoseConnection /\ UNCHANGED <<serverVars, disturbed>>
  BY DEF Disconnect
<1>2. TypeOK'
  BY <1>1, LoseConnectionType DEF Sound, TypeOK
<1> QED BY <1>1, <1>2, LoseConnectionSound

LEMMA ServerRestartSound ==
  ASSUME Sound, ServerRestart
  PROVE  Sound'
<1>1. LoseConnection /\ UNCHANGED <<put, disturbed>>
  BY DEF ServerRestart
<1>2. /\ instance' \in [Link -> Instance \cup {Absent}]
      /\ resourceCounter' \in 0 .. MaxId /\ restarts' \in 0 .. MaxRestart
  <2>1. restarts \in 0 .. MaxRestart
    BY DEF Sound, TypeOK
  <2> QED BY <2>1 DEF ServerRestart
<1>3. TypeOK'
  BY <1>1, <1>2, LoseConnectionType DEF Sound, TypeOK
<1> QED BY <1>1, <1>3, LoseConnectionSound

LEMMA ConnectSound ==
  ASSUME Sound, Connect
  PROVE  Sound'
<1>1. sessions' \in 0 .. MaxSession
  <2>1. sessions \in 0 .. MaxSession
    BY DEF Sound, TypeOK
  <2> QED BY <2>1 DEF Connect
<1>2. TypeOK'
  BY <1>1 DEF Sound, TypeOK, Connect
<1>3. UsedWhereNamed'
  BY DEF Sound, UsedWhereNamed, Used, Connect
<1> QED BY <1>2, <1>3, SameReattach DEF Sound, Connect

LEMMA ReattachAsks ==
  ASSUME Sound, NEW i \in Id, Reattach(i)
  PROVE  LET r == proxy[restore[i]]
             m == [type |-> "reattach", link |-> r.link, gen |-> r.gen, rev |-> r.rev]
         IN  /\ restore[i] \in Obj /\ r \in Proxy /\ m \in ReattachRequest /\ m \in Request
             /\ reattaching' = restore[i] /\ reattaching = None
             /\ toServer' = Append(toServer, m)
<1> DEFINE r == proxy[restore[i]]
           m == [type |-> "reattach", link |-> r.link, gen |-> r.gen, rev |-> r.rev]
<1>1. restore[i] # None /\ reattaching' = restore[i] /\ reattaching = None
  BY DEF Reattach
<1>2. restore[i] \in Obj /\ r \in Proxy
  BY <1>1 DEF Sound, TypeOK, UsedWhereNamed, Used
<1>3. m \in ReattachRequest
  <2> HIDE DEF r
  <2> QED BY <1>2, ProxyType DEF ReattachRequest
<1>4. toServer' = Append(toServer, m)
  BY DEF Reattach
<1> QED BY <1>1, <1>2, <1>3, <1>4 DEF Request

LEMMA ReattachSound ==
  ASSUME Sound, NEW i \in Id, Reattach(i)
  PROVE  Sound'
<1>1. PICK m \in Request : toServer' = Append(toServer, m)
  BY ReattachAsks
<1>2. toServer \in Seq(Request) /\ restore \in [Id -> Obj \cup {None}]
  BY DEF Sound, TypeOK
<1>3. restore' = [restore EXCEPT ![i] = None]
  BY DEF Reattach
<1>4. toServer' \in Seq(Request) /\ restore' \in [Id -> Obj \cup {None}]
  BY <1>1, <1>2, <1>3
<1>5. reattaching' \in Obj /\ reattaching = None /\ reattaching' = restore[i]
  BY ReattachAsks
<1>6. TypeOK'
  BY <1>4, <1>5 DEF Sound, TypeOK, Reattach
<1>7. UsedWhereNamed'
  <2>1. \A j \in Id : restore'[j] \in {restore[j], None}
    BY <1>2, <1>3
  <2>2. UNCHANGED <<proxy, attachedResources, decoding, held>> /\ restore[i] # None
    BY DEF Reattach
  <2> QED BY <1>5, <2>1, <2>2 DEF Sound, UsedWhereNamed, Used
<1>8. Asked = {} /\ querying' = None /\ Answered' = {} /\ Deltas' = {}
  BY <1>5 DEF Sound, OneReattach, Reattach, Answered, Deltas
<1>9. \A k \in Asked' : k = Len(toServer) + 1
  BY <1>1, <1>2, <1>8 DEF Asked
<1>10. OneReattach'
  BY <1>5, <1>8, <1>9 DEF OneReattach
<1> QED BY <1>6, <1>7, <1>10 DEF Sound

LEMMA StutterSound ==
  ASSUME Sound, UNCHANGED vars
  PROVE  Sound'
<1>1. TypeOK'
  BY DEF Sound, TypeOK, vars
<1> QED BY <1>1, SameUsed, SameReattach DEF Sound, vars

LEMMA NextSound == Sound /\ [Next]_vars => Sound'
<1> SUFFICES ASSUME Sound, [Next]_vars PROVE Sound'
  OBVIOUS
<1>1. CASE ServerResources
  BY <1>1, PutSound, RemoveSound, RaiseEventSound, ModifySound DEF ServerResources
<1>2. CASE ServerHandlers
  BY <1>2, ReceiveAttachSound, FinishAttachSound, ReceiveReattachSound, FinishReattachSound,
     ReceiveDetachSound, FinishDetachSound DEF ServerHandlers
<1>3. CASE Application
  BY <1>3, AttachSound, DetachSound DEF Application
<1>4. CASE ClientReplies
  BY <1>4, ReceiveAttachedSound, ReceiveRefusedSound, ReceiveReattachedSound,
     FinishDecodeSound, ReattachFailedSound DEF ClientReplies
<1>5. CASE ClientNotifications
  BY <1>5, EnqueueNotificationSound, ProcessNotificationSound DEF ClientNotifications
<1>6. CASE Session
  BY <1>6, DisconnectSound, ServerRestartSound, ConnectSound, ReattachSound DEF Session
<1> QED BY <1>1, <1>2, <1>3, <1>4, <1>5, <1>6, StutterSound DEF Next

(* Every value of the connection's state is of its type.                   *)
THEOREM TypeCorrect == Spec => []TypeOK
<1>1. Sound => TypeOK
  BY DEF Sound
<1> QED BY <1>1, InitSound, NextSound, PTL DEF Spec

-----------------------------------------------------------------------------
(* The types, as the proofs use them.                                      *)

LEMMA MessageFacts ==
  ASSUME TypeOK
  PROVE  /\ toClient \in Seq(Message) /\ Len(toClient) \in Nat
         /\ DOMAIN toClient = 1 .. Len(toClient)
         /\ \A k \in DOMAIN toClient :
               /\ toClient[k] \in Message
               /\ Carries(k) => /\ toClient[k].id \in Id /\ toClient[k].gen \in Generation
                                /\ toClient[k].rev \in Revision /\ toClient[k].rev \in Nat
               /\ IsAnswer(k) => toClient[k] \in Answer /\ toClient[k].link \in Link
               /\ IsAnswer(k) => ~IsNotification(k)
               /\ toClient[k].type = "property" => IsNotification(k) /\ toClient[k].prop \in Prop
<1>1. toClient \in Seq(Message)
  BY DEF TypeOK
<1>2. \A m \in Message : m.type = "property" => m.prop \in Prop
  BY MessageType
<1>3. \A m \in Message : m.type \in AnswerTypes \cup NotificationTypes =>
          m.id \in Id /\ m.gen \in Generation /\ m.rev \in Revision
  BY MessageType
<1>4. \A m \in Message : m.type \in AnswerTypes => m \in Answer /\ m.link \in Link
  BY MessageType
<1>5. \A n \in Revision : n \in Nat
  BY DEF Revision
<1>6. /\ Len(toClient) \in Nat /\ DOMAIN toClient = 1 .. Len(toClient)
      /\ \A k \in DOMAIN toClient : toClient[k] \in Message
  BY <1>1
<1>7. ASSUME NEW k \in DOMAIN toClient, Carries(k)
      PROVE  /\ toClient[k].id \in Id /\ toClient[k].gen \in Generation
             /\ toClient[k].rev \in Revision /\ toClient[k].rev \in Nat
  BY <1>3, <1>5, <1>6, <1>7 DEF Carries, IsAnswer, IsNotification
<1>8. ASSUME NEW k \in DOMAIN toClient
      PROVE  /\ IsAnswer(k) => toClient[k] \in Answer /\ toClient[k].link \in Link
             /\ IsAnswer(k) => ~IsNotification(k)
             /\ toClient[k].type = "property" => IsNotification(k) /\ toClient[k].prop \in Prop
  BY <1>2, <1>4, <1>6 DEF IsAnswer, IsNotification, AnswerTypes, NotificationTypes
<1> QED BY <1>1, <1>6, <1>7, <1>8

LEMMA QueueFacts ==
  ASSUME TypeOK
  PROVE  /\ notificationQueue \in Seq(Notification) /\ Len(notificationQueue) \in Nat
         /\ DOMAIN notificationQueue = 1 .. Len(notificationQueue)
         /\ \A k \in DOMAIN notificationQueue :
               /\ notificationQueue[k] \in Notification
               /\ notificationQueue[k].id \in Id /\ notificationQueue[k].gen \in Generation
               /\ notificationQueue[k].rev \in Revision /\ notificationQueue[k].rev \in Nat
<1>1. notificationQueue \in Seq(Notification)
  BY DEF TypeOK
<1>2. \A m \in Notification : m.id \in Id /\ m.gen \in Generation /\ m.rev \in Revision /\ m.rev \in Nat
  BY DEF Notification, Revision
<1> QED BY <1>1, <1>2

LEMMA InstanceFacts ==
  ASSUME TypeOK
  PROVE  \A l \in Link : Live(l) =>
             /\ instance[l] \in Instance
             /\ instance[l].id \in Id /\ instance[l].gen \in Generation
             /\ instance[l].rev \in Revision /\ instance[l].rev \in Nat
             /\ \A q \in Prop : instance[l].age[q] \in Revision /\ instance[l].age[q] \in Nat
<1> SUFFICES ASSUME NEW l \in Link, Live(l)
             PROVE  /\ instance[l] \in Instance
                    /\ instance[l].id \in Id /\ instance[l].gen \in Generation
                    /\ instance[l].rev \in Revision /\ instance[l].rev \in Nat
                    /\ \A q \in Prop : instance[l].age[q] \in Revision /\ instance[l].age[q] \in Nat
  OBVIOUS
<1>1. instance[l] \in Instance
  BY DEF TypeOK, Live
<1>2. \A n \in Revision : n \in Nat
  BY DEF Revision
<1> QED BY <1>1, <1>2, InstanceType

LEMMA ProxyFacts ==
  ASSUME TypeOK, UsedWhereNamed
  PROVE  /\ \A o \in Obj : Used(o) =>
               /\ proxy[o] \in Proxy
               /\ proxy[o].link \in Link /\ proxy[o].id \in Id /\ proxy[o].gen \in Generation
               /\ proxy[o].rev \in Revision /\ proxy[o].rev \in Nat
         /\ \A i \in Id : attachedResources[i] # None =>
               attachedResources[i] \in Obj /\ Used(attachedResources[i])
         /\ reattaching # None => reattaching \in Obj /\ Used(reattaching)
<1>1. \A n \in Revision : n \in Nat
  BY DEF Revision
<1>2. \A o \in Obj : Used(o) => proxy[o] \in Proxy
  BY DEF TypeOK, Used
<1>3. /\ \A i \in Id : attachedResources[i] # None =>
            attachedResources[i] \in Obj /\ Used(attachedResources[i])
      /\ reattaching # None => reattaching \in Obj /\ Used(reattaching)
  BY DEF TypeOK, UsedWhereNamed
<1> QED BY <1>1, <1>2, <1>3, ProxyType

-----------------------------------------------------------------------------
(* The channel to the client: d messages are taken, some may be added.     *)

Kept(d) ==
    \A k \in DOMAIN toClient : k > d =>
        k - d \in DOMAIN toClient' /\ toClient'[k - d] = toClient[k]
NoNews(d) ==
    \A k \in DOMAIN toClient' : toClient'[k].type \in AnswerTypes \cup NotificationTypes =>
        k + d \in DOMAIN toClient /\ toClient'[k] = toClient[k + d]

LEMMA Lengths ==
  ASSUME TypeOK, TypeOK'
  PROVE  /\ Len(toClient) \in Nat /\ DOMAIN toClient = 1 .. Len(toClient)
         /\ Len(toClient') \in Nat /\ DOMAIN toClient' = 1 .. Len(toClient')
         /\ \A k \in DOMAIN toClient : k \in Nat
         /\ \A k \in DOMAIN toClient' : k \in Nat
<1>1. toClient \in Seq(Message) /\ toClient' \in Seq(Message)
  BY DEF TypeOK
<1> QED BY <1>1

LEMMA ComesStill ==
  ASSUME TypeOK, NEW d \in {0, 1}, Kept(d), NEW l, NEW q,
         instance'[l].gen = instance[l].gen, instance'[l].age[q] = instance[l].age[q],
         NEW i \in Nat, NEW j \in Nat, NEW n \in Nat, NEW o \in Nat,
         j + d <= i, n <= o + d, Comes(i, n, l, q)
  PROVE  Comes(j, o, l, q)'
<1>1. PICK k \in DOMAIN toClient :
          /\ i < k /\ k <= n
          /\ \/ IsAnswer(k) /\ About(k, l)
             \/ IsChange(toClient[k], l, q)
  BY DEF Comes
<1>2. k \in Nat /\ k > d
  BY <1>1, MessageFacts
<1>3. k - d \in DOMAIN toClient' /\ toClient'[k - d] = toClient[k] /\ j < k - d /\ k - d <= o
  BY <1>1, <1>2 DEF Kept
<1>4. IsAnswer(k) /\ About(k, l) => (IsAnswer(k - d) /\ About(k - d, l))'
  BY <1>3 DEF IsAnswer, IsNotification, Carries, About
<1>5. IsChange(toClient[k], l, q) => IsChange(toClient[k - d], l, q)'
  BY <1>3 DEF IsChange
<1> QED BY <1>1, <1>3, <1>4, <1>5 DEF Comes

LEMMA ComesFirstOrAfter ==
  ASSUME TypeOK, NEW l, NEW q, NEW n \in Nat, Comes(0, n, l, q)
  PROVE  \/ Comes(1, n, l, q)
         \/ 1 \in DOMAIN toClient /\ IsAnswer(1) /\ About(1, l)
         \/ 1 \in DOMAIN toClient /\ IsChange(toClient[1], l, q)
BY MessageFacts DEF Comes

LEMMA AnnouncedStill ==
  ASSUME TypeOK, NEW d \in {0, 1}, Kept(d), NEW i, NEW n \in Nat, NEW o \in Nat,
         n <= o + d, Announced(i, n), d = 1 => ~(IsAnswer(1) /\ toClient[1].id = i)
  PROVE  Announced(i, o)'
<1>1. PICK k \in 1 .. n : k \in DOMAIN toClient /\ IsAnswer(k) /\ toClient[k].id = i
  BY DEF Announced
<1>2. k > d
  BY <1>1
<1>3. k - d \in DOMAIN toClient' /\ toClient'[k - d] = toClient[k] /\ k - d \in 1 .. o
  BY <1>1, <1>2 DEF Kept
<1> QED BY <1>1, <1>3 DEF Announced, IsAnswer

LEMMA AppendKeeps ==
  ASSUME TypeOK, NEW m, toClient' = Append(toClient, m)
  PROVE  /\ Kept(0)
         /\ Len(toClient') = Len(toClient) + 1
         /\ DOMAIN toClient' = 1 .. Len(toClient) + 1
         /\ toClient'[Len(toClient) + 1] = m
         /\ \A k \in DOMAIN toClient : k \in DOMAIN toClient' /\ toClient'[k] = toClient[k]
         /\ \A k \in DOMAIN toClient' : k \in DOMAIN toClient \/ k = Len(toClient) + 1
         /\ m.type \notin AnswerTypes \cup NotificationTypes => NoNews(0)
<1>1. /\ Len(toClient') = Len(toClient) + 1 /\ Len(toClient) \in Nat
      /\ DOMAIN toClient' = 1 .. Len(toClient) + 1 /\ DOMAIN toClient = 1 .. Len(toClient)
      /\ toClient'[Len(toClient) + 1] = m
      /\ \A k \in DOMAIN toClient : k \in DOMAIN toClient' /\ toClient'[k] = toClient[k]
  BY MessageFacts
<1> QED BY <1>1 DEF Kept, NoNews

LEMMA ReceiveKeeps ==
  ASSUME TypeOK, NEW t, Receiving(t)
  PROVE  /\ Kept(1) /\ NoNews(1)
         /\ Len(toClient') = Len(toClient) - 1 /\ Len(toClient) > 0
         /\ \A k \in DOMAIN toClient' : k + 1 \in DOMAIN toClient /\ toClient'[k] = toClient[k + 1]
         /\ 1 \in DOMAIN toClient /\ toClient[1].type = t /\ Head(toClient) = toClient[1]
<1>1. toClient \in Seq(Message)
  BY DEF TypeOK
<1> QED BY <1>1, Receives DEF Kept, NoNews

LEMMA NothingReceived ==
  ASSUME TypeOK, toClient' = toClient
  PROVE  Kept(0) /\ NoNews(0)
BY MessageFacts DEF Kept, NoNews

-----------------------------------------------------------------------------
(* Steps that bring no news of the resources.                              *)

(* The messages that carry some stay, in their places or one place on.     *)
NoNewsStep(d) ==
    /\ Kept(d) /\ NoNews(d)
    /\ d = 1 => ~Carries(1)
    /\ UNCHANGED <<instance, put, resourceCounter, proxy, notificationQueue>>
    /\ \A i \in Id : attachedResources'[i] \in {attachedResources[i], None}
    /\ subscriptions' \subseteq subscriptions
    /\ reattaching' = reattaching \/ Answered' = {}

LEMMA SameCarriers ==
  ASSUME TypeOK, TypeOK', NEW d \in {0, 1}, NoNewsStep(d)
  PROVE  /\ \A k \in DOMAIN toClient' : Carries(k)' =>
               /\ k + d \in DOMAIN toClient /\ toClient'[k] = toClient[k + d]
               /\ Carries(k + d)
               /\ IsAnswer(k)' <=> IsAnswer(k + d)
               /\ IsNotification(k)' <=> IsNotification(k + d)
               /\ \A l \in Link : About(k, l)' <=> About(k + d, l)
         /\ Len(toClient) <= Len(toClient') + d
<1>1. ASSUME NEW k \in DOMAIN toClient', Carries(k)'
      PROVE  k + d \in DOMAIN toClient /\ toClient'[k] = toClient[k + d]
  BY <1>1 DEF Carries, IsAnswer, IsNotification, NoNewsStep, NoNews
<1>2. ASSUME NEW k \in DOMAIN toClient', Carries(k)'
      PROVE  /\ Carries(k + d)
             /\ IsAnswer(k)' <=> IsAnswer(k + d)
             /\ IsNotification(k)' <=> IsNotification(k + d)
             /\ \A l \in Link : About(k, l)' <=> About(k + d, l)
  BY <1>1, <1>2 DEF Carries, IsAnswer, IsNotification, About, NoNewsStep
<1>3. Len(toClient) <= Len(toClient') + d
  <2>1. /\ Len(toClient) \in Nat /\ DOMAIN toClient = 1 .. Len(toClient)
        /\ Len(toClient') \in Nat /\ DOMAIN toClient' = 1 .. Len(toClient')
    BY Lengths
  <2>2. Kept(d)
    BY DEF NoNewsStep
  <2>3. CASE Len(toClient) > d
    <3>1. Len(toClient) \in DOMAIN toClient
      BY <2>1, <2>3
    <3>2. Len(toClient) - d \in DOMAIN toClient'
      BY <2>2, <2>3, <3>1 DEF Kept
    <3> QED BY <2>1, <3>2
  <2> QED BY <2>1, <2>3
<1> QED BY <1>1, <1>2, <1>3

LEMMA NoNewsNames ==
  ASSUME Sound, Sound', NEW d \in {0, 1}, NoNewsStep(d), OneName, ProxiesTrue, Routed
  PROVE  OneName' /\ ProxiesTrue' /\ Routed'
<1>1. TypeOK /\ TypeOK' /\ UsedWhereNamed
  BY DEF Sound
<1>2. \A k \in DOMAIN toClient' : Carries(k)' =>
          /\ k + d \in DOMAIN toClient /\ toClient'[k] = toClient[k + d]
          /\ Carries(k + d)
          /\ IsAnswer(k)' <=> IsAnswer(k + d)
          /\ IsNotification(k)' <=> IsNotification(k + d)
  BY <1>1, SameCarriers
<1>3. UNCHANGED <<instance, put, resourceCounter, proxy, notificationQueue>>
      /\ subscriptions' \subseteq subscriptions
      /\ \A i \in Id : attachedResources'[i] # None =>
            attachedResources'[i] = attachedResources[i]
  BY DEF NoNewsStep
<1>4. OneName'
  <2>1. \A i \in Id, g \in Generation : Named(i, g)' => Named(i, g)
    BY <1>2, <1>3 DEF Named, Live
  <2>2. \A i, j \in Id, g, h \in Generation : (Named(i, g) /\ Named(j, h))' => (i = j <=> g = h)
    BY <2>1 DEF OneName
  <2>3. \A i \in Id, g \in Generation : Named(i, g)' => i <= resourceCounter' /\ g[2] <= put'[g[1]]
    BY <1>3, <2>1 DEF OneName
  <2>4. \A l \in Link : Live(l)' => instance'[l].gen[1] = l
    BY <1>3 DEF OneName, Live
  <2>5. \A k \in DOMAIN toClient' : IsAnswer(k)' => toClient'[k].gen[1] = toClient'[k].link
    BY <1>2 DEF OneName, Carries
  <2>6. \A i \in subscriptions' : i <= resourceCounter'
    BY <1>3 DEF OneName
  <2> QED BY <2>2, <2>3, <2>4, <2>5, <2>6 DEF OneName
<1>5. ProxiesTrue'
  BY <1>3 DEF ProxiesTrue, Used, Live
<1>6. Routed'
  <2>1. \A i \in Id, g \in Generation : Settled(i, g) => Settled(i, g)'
    BY <1>3 DEF Settled
  <2>2. \A k \in DOMAIN notificationQueue' :
            Settled(notificationQueue[k].id, notificationQueue[k].gen)'
    BY <1>1, <1>3, <2>1, QueueFacts DEF Routed, Settled
  <2>3. ASSUME NEW i, NEW n \in Nat, NEW o \in Nat, n <= o + d, Announced(i, n)
        PROVE  Announced(i, o)'
    BY <1>1, <2>3, AnnouncedStill DEF NoNewsStep, Carries
  <2>4. ASSUME NEW k \in DOMAIN toClient', IsNotification(k)'
        PROVE  Announced(toClient[k].id, k)' \/ Settled(toClient[k].id, toClient[k].gen)'
    <3>1. /\ k + d \in DOMAIN toClient /\ toClient'[k] = toClient[k + d]
          /\ IsNotification(k + d) /\ toClient[k + d].id \in Id
      BY <1>1, <1>2, <2>4, MessageFacts DEF Carries
    <3>2. \/ Announced(toClient[k + d].id, k + d)
          \/ Settled(toClient[k + d].id, toClient[k + d].gen)
      BY <3>1 DEF Routed
    <3>3. k \in Nat /\ k + d \in Nat
      BY <1>1, Lengths
    <3>4. CASE Announced(toClient[k + d].id, k + d)
      <4>1. PICK i \in Id, n \in Nat : i = toClient[k + d].id /\ n = k + d
        BY <3>1, <3>3
      <4>2. Announced(i, k)'
        BY <2>3, <3>3, <3>4, <4>1
      <4> QED BY <3>1, <4>1, <4>2 DEF Announced
    <3>5. CASE Settled(toClient[k + d].id, toClient[k + d].gen)
      BY <1>3, <3>1, <3>5 DEF Settled
    <3> QED BY <3>2, <3>4, <3>5
  <2>5. ASSUME NEW l \in Link, Live(l)', instance'[l].id \in subscriptions'
        PROVE  \/ Announced(instance[l].id, Len(toClient))'
               \/ Settled(instance[l].id, instance[l].gen)'
    <3>1. \/ Announced(instance[l].id, Len(toClient))
          \/ Settled(instance[l].id, instance[l].gen)
      BY <1>3, <2>5 DEF Routed, Live
    <3>2. /\ Len(toClient) \in Nat /\ Len(toClient') \in Nat
          /\ Len(toClient) <= Len(toClient') + d /\ instance[l].id \in Id
      BY <1>1, <1>3, <2>5, SameCarriers, Lengths, InstanceFacts DEF Live
    <3>3. CASE Announced(instance[l].id, Len(toClient))
      <4>1. PICK i \in {instance[l].id}, n \in Nat : n = Len(toClient')
        BY <3>2
      <4>2. Announced(i, n)'
        BY <2>3, <3>2, <3>3, <4>1
      <4> QED BY <1>3, <4>1, <4>2 DEF Announced
    <3>4. CASE Settled(instance[l].id, instance[l].gen)
      BY <1>3, <3>2, <3>4 DEF Settled
    <3> QED BY <3>1, <3>3, <3>4
  <2> QED BY <2>2, <2>4, <2>5 DEF Routed
<1> QED BY <1>4, <1>5, <1>6

LEMMA NoNewsAnswers ==
  ASSUME Sound, Sound', NEW d \in {0, 1}, NoNewsStep(d),
         InOrder, RevisionsInOrder, AnswersComplete, AllCovered
  PROVE  InOrder' /\ RevisionsInOrder' /\ AnswersComplete' /\ AllCovered'
<1>1. TypeOK /\ TypeOK' /\ UsedWhereNamed
  BY DEF Sound
<1>2. \A k \in DOMAIN toClient' : Carries(k)' =>
          /\ k + d \in DOMAIN toClient /\ toClient'[k] = toClient[k + d]
          /\ Carries(k + d)
          /\ IsAnswer(k)' <=> IsAnswer(k + d)
          /\ IsNotification(k)' <=> IsNotification(k + d)
          /\ \A l \in Link : About(k, l)' <=> About(k + d, l)
  BY <1>1, SameCarriers
<1>3. UNCHANGED <<instance, put, resourceCounter, proxy, notificationQueue>>
  BY DEF NoNewsStep
<1>4. InOrder'
  <2> SUFFICES ASSUME NEW l \in Link, Live(l)'
               PROVE  /\ \A q \in Prop : instance'[l].age[q] <= instance'[l].rev
                      /\ \A k \in DOMAIN toClient' :
                            About(k, l)' => toClient'[k].rev <= instance'[l].rev
                      /\ \A k \in DOMAIN notificationQueue' : QueuedAbout(k, l)' =>
                            notificationQueue'[k].rev <= instance'[l].rev
                      /\ \A k \in DOMAIN toClient' :
                            toClient'[k].type = "property" /\ About(k, l)' =>
                               toClient'[k].rev <= instance'[l].age[toClient'[k].prop]
                      /\ \A k \in DOMAIN notificationQueue' :
                            notificationQueue'[k].type = "property" /\ QueuedAbout(k, l)' =>
                               notificationQueue'[k].rev
                                  <= instance'[l].age[notificationQueue'[k].prop]
    BY Zenon DEF InOrder
  <2>1. Live(l)
    BY <1>3 DEF Live
  <2>2. \A k \in DOMAIN notificationQueue' : QueuedAbout(k, l)' <=> QueuedAbout(k, l)
    BY <1>3 DEF QueuedAbout
  <2>3. ASSUME NEW k \in DOMAIN toClient', About(k, l)'
        PROVE  /\ toClient'[k].rev <= instance'[l].rev
               /\ toClient'[k].type = "property" =>
                     toClient'[k].rev <= instance'[l].age[toClient'[k].prop]
    <3>1. k + d \in DOMAIN toClient /\ toClient'[k] = toClient[k + d] /\ About(k + d, l)
      BY <1>2, <2>3 DEF About
    <3> QED BY <1>3, <2>1, <3>1 DEF InOrder
  <2> QED BY <1>3, <2>1, <2>2, <2>3 DEF InOrder
<1>5. RevisionsInOrder'
  <2>1. ASSUME NEW j \in DOMAIN toClient', NEW k \in DOMAIN toClient',
               j < k, Carries(j)', Carries(k)', toClient'[j].gen = toClient'[k].gen
        PROVE  toClient'[j].rev <= toClient'[k].rev
    <3>1. j + d < k + d
      BY <1>1, <2>1, Lengths
    <3> QED BY <1>2, <2>1, <3>1 DEF RevisionsInOrder
  <2>2. ASSUME NEW j \in DOMAIN notificationQueue', NEW k \in DOMAIN toClient',
               Carries(k)', notificationQueue'[j].gen = toClient'[k].gen
        PROVE  notificationQueue'[j].rev <= toClient'[k].rev
    BY <1>2, <1>3, <2>2 DEF RevisionsInOrder
  <2> QED BY <2>1, <2>2 DEF RevisionsInOrder
<1>6. AnswersComplete'
  <2> SUFFICES ASSUME NEW k \in DOMAIN toClient', IsAnswer(k)'
               PROVE  /\ \A q \in DOMAIN toClient'[k].values :
                            toClient'[k].values[q] <= toClient'[k].rev
                      /\ \A l \in Link : (Live(l) /\ About(k, l))' => Brings(toClient[k], l)'
    BY DEF AnswersComplete
  <2>1. /\ k + d \in DOMAIN toClient /\ toClient'[k] = toClient[k + d]
        /\ IsAnswer(k + d) /\ \A l \in Link : About(k, l)' <=> About(k + d, l)
    BY <1>2 DEF Carries
  <2>2. ASSUME NEW l \in Link, (Live(l) /\ About(k, l))' PROVE Brings(toClient[k], l)'
    <3>1. Brings(toClient[k + d], l)
      BY <1>3, <2>1, <2>2 DEF AnswersComplete, Live
    <3>2. toClient'[k].type = "reattached" => reattaching' = reattaching
      BY DEF NoNewsStep, Answered, OutcomeTypes
    <3> QED BY <1>3, <2>1, <3>1, <3>2 DEF Brings
  <2> QED BY <2>1, <2>2 DEF AnswersComplete
<1>7. AllCovered'
  BY <1>3 DEF AllCovered, CursorCovered, Used, Live
<1> QED BY <1>4, <1>5, <1>6, <1>7

LEMMA NoNewsChanges ==
  ASSUME Sound, Sound', NEW d \in {0, 1}, NoNewsStep(d),
         ChangesFollowAnswers, ChangesFollowCursor
  PROVE  ChangesFollowAnswers' /\ ChangesFollowCursor'
<1>1. TypeOK /\ TypeOK' /\ UsedWhereNamed
  BY DEF Sound
<1>2. \A k \in DOMAIN toClient' : Carries(k)' =>
          /\ k + d \in DOMAIN toClient /\ toClient'[k] = toClient[k + d]
          /\ IsAnswer(k)' <=> IsAnswer(k + d)
          /\ \A l \in Link : About(k, l)' <=> About(k + d, l)
  BY <1>1, SameCarriers
<1>3. UNCHANGED <<instance, put, resourceCounter, proxy, notificationQueue>>
      /\ subscriptions' \subseteq subscriptions
      /\ \A i \in Id : attachedResources'[i] # None =>
            attachedResources'[i] = attachedResources[i]
  BY DEF NoNewsStep
<1>4. /\ Len(toClient) \in Nat /\ Len(toClient') \in Nat /\ Len(toClient) <= Len(toClient') + d
      /\ \A k \in DOMAIN toClient' : k \in Nat /\ k + d \in Nat
  BY <1>1, SameCarriers, Lengths
<1>5. ASSUME NEW l \in Link, NEW q \in Prop, NEW i \in Nat, NEW j \in Nat, NEW n \in Nat,
             NEW o \in Nat, j + d <= i, n <= o + d, Comes(i, n, l, q)
      PROVE  Comes(j, o, l, q)'
  BY <1>1, <1>3, <1>5, ComesStill DEF NoNewsStep
<1>6. ASSUME NEW l \in Link, NEW q \in Prop, NEW n \in Nat, NEW o \in Nat,
             n <= o + d, Comes(0, n, l, q)
      PROVE  Comes(0, o, l, q)'
  <2>1. CASE d = 0
    BY <1>5, <1>6, <2>1
  <2>2. CASE d = 1
    <3>1. 1 \in DOMAIN toClient => ~IsAnswer(1) /\ ~IsChange(toClient[1], l, q)
      BY <2>2 DEF NoNewsStep, Carries, IsNotification, NotificationTypes, IsChange
    <3>2. Comes(1, n, l, q)
      BY <1>1, <1>6, <3>1, ComesFirstOrAfter
    <3> QED BY <1>5, <1>6, <2>2, <3>2
  <2> QED BY <2>1, <2>2
<1>7. ChangesFollowAnswers'
  <2> SUFFICES ASSUME NEW l \in Link, Live(l)', NEW j \in DOMAIN toClient',
                      (IsAnswer(j) /\ About(j, l))', NEW q \in Prop,
                      instance'[l].age[q] > toClient'[j].rev
               PROVE  /\ instance'[l].id \in subscriptions' => Comes(j, Len(toClient), l, q)'
                      /\ \A n \in DOMAIN toClient' :
                            j < n /\ About(n, l)' /\ instance'[l].age[q] <= toClient'[n].rev =>
                               Comes(j, n, l, q)'
    BY DEF ChangesFollowAnswers
  <2>1. /\ j + d \in DOMAIN toClient /\ toClient'[j] = toClient[j + d]
        /\ IsAnswer(j + d) /\ About(j + d, l) /\ Live(l)
    BY <1>2, <1>3 DEF Carries, Live
  <2>2. instance'[l].id \in subscriptions' => Comes(j, Len(toClient), l, q)'
    <3>1. instance'[l].id \in subscriptions' => Comes(j + d, Len(toClient), l, q)
      BY <1>3, <2>1 DEF ChangesFollowAnswers
    <3> QED BY <1>4, <1>5, <3>1
  <2>3. ASSUME NEW n \in DOMAIN toClient', j < n, About(n, l)',
               instance'[l].age[q] <= toClient'[n].rev
        PROVE  Comes(j, n, l, q)'
    <3>1. /\ n + d \in DOMAIN toClient /\ toClient'[n] = toClient[n + d] /\ About(n + d, l)
          /\ j + d < n + d
      BY <1>2, <1>4, <2>3 DEF About
    <3>2. Comes(j + d, n + d, l, q)
      BY <1>3, <2>1, <2>3, <3>1 DEF ChangesFollowAnswers
    <3> QED BY <1>4, <1>5, <3>2
  <2> QED BY <2>2, <2>3
<1>8. ChangesFollowCursor'
  <2> SUFFICES ASSUME NEW l \in Link, Live(l)',
                      attachedResources'[instance'[l].id] # None,
                      proxy'[attachedResources'[instance'[l].id]].gen = instance'[l].gen,
                      NEW q \in Prop,
                      instance'[l].age[q] > proxy'[attachedResources'[instance'[l].id]].rev
               PROVE  /\ instance'[l].id \in subscriptions' =>
                            \/ Comes(0, Len(toClient), l, q)'
                            \/ Queued(Len(notificationQueue), l, q)'
                      /\ \A n \in DOMAIN toClient' :
                            About(n, l)' /\ instance'[l].age[q] <= toClient'[n].rev =>
                               \/ Comes(0, n, l, q)'
                               \/ Queued(Len(notificationQueue), l, q)'
                      /\ \A n \in DOMAIN notificationQueue' :
                            QueuedAbout(n, l)' /\ instance'[l].age[q] <= notificationQueue'[n].rev =>
                               Queued(n, l, q)'
    BY Zenon DEF ChangesFollowCursor
  <2>1. Live(l) /\ instance[l].id \in Id
        /\ attachedResources'[instance[l].id] = attachedResources[instance[l].id]
    BY <1>1, <1>3, InstanceFacts DEF Live
  <2>2. \A n : Queued(n, l, q) => Queued(n, l, q)'
    BY <1>3 DEF Queued, IsChange
  <2>3. instance'[l].id \in subscriptions' =>
            Comes(0, Len(toClient), l, q)' \/ Queued(Len(notificationQueue), l, q)'
    <3>1. instance'[l].id \in subscriptions' =>
              Comes(0, Len(toClient), l, q) \/ Queued(Len(notificationQueue), l, q)
      BY <1>3, <2>1 DEF ChangesFollowCursor
    <3> QED BY <1>3, <1>4, <1>6, <2>2, <3>1
  <2>4. ASSUME NEW n \in DOMAIN toClient', About(n, l)',
               instance'[l].age[q] <= toClient'[n].rev
        PROVE  Comes(0, n, l, q)' \/ Queued(Len(notificationQueue), l, q)'
    <3>1. n + d \in DOMAIN toClient /\ toClient'[n] = toClient[n + d] /\ About(n + d, l)
      BY <1>2, <2>4 DEF About
    <3>2. Comes(0, n + d, l, q) \/ Queued(Len(notificationQueue), l, q)
      BY <1>3, <2>1, <2>4, <3>1 DEF ChangesFollowCursor
    <3> QED BY <1>3, <1>4, <1>6, <2>2, <3>2
  <2>5. ASSUME NEW n \in DOMAIN notificationQueue', QueuedAbout(n, l)',
               instance'[l].age[q] <= notificationQueue'[n].rev
        PROVE  Queued(n, l, q)'
    BY <1>3, <2>1, <2>2, <2>5 DEF ChangesFollowCursor, QueuedAbout
  <2> QED BY <2>3, <2>4, <2>5
<1> QED BY <1>7, <1>8

LEMMA NoNewsPrompted ==
  ASSUME Sound, Sound', Prompted, NEW d \in {0, 1}, NoNewsStep(d),
         decoding' = {}, ReattachFits', HeldWhereNamed'
  PROVE  Prompted'
BY NoNewsNames, NoNewsAnswers, NoNewsChanges DEF Prompted

(* The channel to the server, when no reattach is asked for.               *)
LEMMA NothingAsked ==
  ASSUME TypeOK,
         \/ UNCHANGED toServer
         \/ toServer # <<>> /\ toServer' = Tail(toServer)
         \/ \E m \in Request : m.type # "reattach" /\ toServer' = Append(toServer, m)
  PROVE  \A k \in Asked' : \E j \in Asked : toServer'[k] = toServer[j]
<1>0. toServer \in Seq(Request)
  BY DEF TypeOK
<1>1. CASE UNCHANGED toServer
  BY <1>1 DEF Asked
<1>2. CASE toServer # <<>> /\ toServer' = Tail(toServer)
  <2>1. \A k \in Asked' : k + 1 \in Asked /\ toServer'[k] = toServer[k + 1]
    BY <1>0, <1>2 DEF Asked
  <2> QED BY <2>1
<1>3. ASSUME NEW m \in Request, m.type # "reattach", toServer' = Append(toServer, m)
      PROVE  \A k \in Asked' : k \in Asked /\ toServer'[k] = toServer[k]
  BY <1>0, <1>3 DEF Asked
<1> QED BY <1>1, <1>2, <1>3

LEMMA FitsStill ==
  ASSUME ReattachFits, UNCHANGED proxy,
         reattaching' = reattaching, querying' \in {querying, None},
         \A k \in Asked' : \E j \in Asked : toServer'[k] = toServer[j],
         \A k \in Answered' : toClient'[k].type = "reattached" =>
             \E j \in Answered : toClient'[k] = toClient[j]
  PROVE  ReattachFits'
<1>1. \A k \in Asked' : AsksFor(proxy'[reattaching'], toServer'[k])
  BY DEF ReattachFits
<1>2. querying' # None => AsksFor(proxy'[reattaching'], querying')
  BY DEF ReattachFits
<1>3. \A k \in Answered' : toClient'[k].type = "reattached" =>
          LET r == proxy'[reattaching'] IN
          /\ toClient'[k].link = r.link
          /\ r.gen = toClient'[k].gen => r.rev <= toClient'[k].rev
          /\ r.gen # toClient'[k].gen => DOMAIN toClient'[k].values = Prop
  BY DEF ReattachFits
<1> QED BY <1>1, <1>2, <1>3 DEF ReattachFits, AsksFor

LEMMA SameFits ==
  ASSUME TypeOK, ReattachFits, NEW d \in {0, 1}, NoNews(d), UNCHANGED proxy,
         reattaching' = reattaching, querying' \in {querying, None},
         \A k \in Asked' : \E j \in Asked : toServer'[k] = toServer[j]
  PROVE  ReattachFits'
<1>1. ASSUME NEW k \in Answered', toClient'[k].type = "reattached"
      PROVE  \E j \in Answered : toClient'[k] = toClient[j]
  BY <1>1 DEF Answered, NoNews, AnswerTypes
<1> QED BY <1>1, FitsStill

LEMMA NothingInFlightFits ==
  ASSUME Asked' = {}, querying' = None, Answered' = {}
  PROVE  ReattachFits'
BY DEF ReattachFits

LEMMA SameHeld ==
  ASSUME TypeOK', HeldWhereNamed, disturbed => disturbed', held \subseteq held',
         UNCHANGED <<attachedResources, restore, reattaching>>
  PROVE  HeldWhereNamed'
BY DEF HeldWhereNamed, TypeOK

-----------------------------------------------------------------------------
(* These steps are most of those of the handlers and of the session.       *)

LEMMA ReceiveAttachPrompted ==
  ASSUME Sound, Sound', Prompted, ReceiveAttach
  PROVE  Prompted'
<1>1. TypeOK /\ TypeOK'
  BY DEF Sound
<1>2. /\ toServer # <<>> /\ toServer' = Tail(toServer)
      /\ toClient' \in {toClient, Append(toClient, [type |-> "refused", id |-> Head(toServer).id])}
      /\ UNCHANGED <<serverVars, subscriptions, querying, sessionVars, clientVars,
                     notificationQueue>>
  BY DEF ReceiveAttach, Reply
<1>3. Kept(0) /\ NoNews(0)
  BY <1>1, <1>2, NothingReceived, AppendKeeps DEF AnswerTypes, NotificationTypes
<1>4. NoNewsStep(0)
  BY <1>2, <1>3 DEF NoNewsStep
<1>5. ReattachFits' /\ HeldWhereNamed' /\ decoding' = {}
  BY <1>1, <1>2, <1>3, NothingAsked, SameFits, SameHeld DEF Prompted
<1> QED BY <1>4, <1>5, NoNewsPrompted

LEMMA FinishAttachOfGonePrompted ==
  ASSUME Sound, Sound', Prompted, FinishAttach, ~IsLive(Head(handling).id)
  PROVE  Prompted'
<1>1. TypeOK /\ TypeOK'
  BY DEF Sound
<1>2. UNCHANGED <<serverVars, subscriptions, querying, toServer, toClient, sessionVars,
                  clientVars, notificationQueue>>
  BY DEF FinishAttach
<1>3. Kept(0) /\ NoNews(0) /\ NoNewsStep(0)
  BY <1>1, <1>2, NothingReceived DEF NoNewsStep
<1>4. ReattachFits' /\ HeldWhereNamed' /\ decoding' = {}
  BY <1>1, <1>2, <1>3, NothingAsked, SameFits, SameHeld DEF Prompted
<1> QED BY <1>3, <1>4, NoNewsPrompted

LEMMA ReceiveReattachPrompted ==
  ASSUME Sound, Sound', Prompted, ReceiveReattach
  PROVE  Prompted'
<1>1. TypeOK /\ TypeOK'
  BY DEF Sound
<1>2. /\ toServer # <<>> /\ Head(toServer).type = "reattach" /\ toServer' = Tail(toServer)
      /\ querying' = Head(toServer)
      /\ UNCHANGED <<serverVars, subscriptions, toClient, sessionVars, clientVars,
                     notificationQueue>>
  BY DEF ReceiveReattach
<1>3. Kept(0) /\ NoNews(0) /\ NoNewsStep(0)
  BY <1>1, <1>2, NothingReceived DEF NoNewsStep
<1>4. toServer \in Seq(Request)
  BY <1>1 DEF TypeOK
<1>5. 1 \in Asked /\ Head(toServer) = toServer[1]
  BY <1>2, <1>4, Dropped DEF Asked
<1>6. AsksFor(proxy[reattaching], querying') /\ Answered = {}
  BY <1>2, <1>5 DEF Prompted, ReattachFits, Sound, OneReattach
<1>7. Asked' = {}
  <2>1. \A k \in Asked' : k + 1 \in Asked /\ k + 1 # 1
    BY <1>2, <1>4, Dropped DEF Asked
  <2> QED BY <1>5, <2>1 DEF Sound, OneReattach
<1>8. Asked' = {} /\ Answered' = {}
  BY <1>2, <1>6, <1>7 DEF Answered
<1>9. ReattachFits'
  BY <1>2, <1>6, <1>8 DEF ReattachFits, AsksFor
<1>10. HeldWhereNamed' /\ decoding' = {}
  BY <1>1, <1>2, SameHeld DEF Prompted
<1> QED BY <1>3, <1>9, <1>10, NoNewsPrompted

LEMMA FinishReattachFailedPrompted ==
  ASSUME Sound, Sound', Prompted, FinishReattach, subscriptions' = subscriptions,
         \/ toClient' = Append(toClient, [type |-> "notFound"])
         \/ toClient' = Append(toClient, [type |-> "rejected"])
  PROVE  Prompted'
<1>1. TypeOK /\ TypeOK'
  BY DEF Sound
<1>2. querying' = None /\ UNCHANGED <<serverVars, toServer, clientVars, notificationQueue>>
  BY DEF FinishReattach
<1>3. Kept(0) /\ NoNews(0) /\ NoNewsStep(0)
  BY <1>1, <1>2, AppendKeeps DEF NoNewsStep, AnswerTypes, NotificationTypes
<1>4. ReattachFits' /\ HeldWhereNamed' /\ decoding' = {}
  BY <1>1, <1>2, <1>3, NothingAsked, SameFits, SameHeld DEF Prompted
<1> QED BY <1>3, <1>4, NoNewsPrompted

LEMMA DetachHandlersPrompted ==
  ASSUME Sound, Sound', Prompted, ReceiveDetach \/ FinishDetach
  PROVE  Prompted'
<1>1. TypeOK /\ TypeOK'
  BY DEF Sound
<1>2. /\ subscriptions' \subseteq subscriptions
      /\ UNCHANGED <<serverVars, querying, toClient, sessionVars, clientVars, notificationQueue>>
      /\ \/ UNCHANGED toServer
         \/ toServer # <<>> /\ toServer' = Tail(toServer)
  BY DEF ReceiveDetach, FinishDetach
<1>3. Kept(0) /\ NoNews(0) /\ NoNewsStep(0)
  BY <1>1, <1>2, NothingReceived DEF NoNewsStep
<1>4. ReattachFits' /\ HeldWhereNamed' /\ decoding' = {}
  BY <1>1, <1>2, <1>3, NothingAsked, SameFits, SameHeld DEF Prompted
<1> QED BY <1>3, <1>4, NoNewsPrompted

LEMMA AttachPrompted ==
  ASSUME Sound, Sound', Prompted, NEW id \in Id, Attach(id)
  PROVE  Prompted'
<1>1. TypeOK /\ TypeOK'
  BY DEF Sound
<1>2. UNCHANGED <<serverVars, serverSession, toClient, sessionVars, proxy,
                  attachedResources, decoding, restore, reattaching, late, notificationQueue>>
  BY DEF Attach
<1>3. disturbed => disturbed'
  BY DEF Attach, Disturbance
<1>4. /\ held \subseteq held'
      /\ \/ UNCHANGED toServer
         \/ toServer' = Append(toServer, [type |-> "attach", id |-> id])
  <2>1. CASE attachedResources[id] # None
    BY <2>1 DEF Attach
  <2>2. CASE attachedResources[id] = None
    BY <2>2 DEF Attach
  <2> QED BY <2>1, <2>2
<1>5. [type |-> "attach", id |-> id] \in Request
  BY DEF Request, DirectRequest
<1>6. Kept(0) /\ NoNews(0) /\ NoNewsStep(0)
  BY <1>1, <1>2, NothingReceived DEF NoNewsStep
<1>7. \A k \in Asked' : \E j \in Asked : toServer'[k] = toServer[j]
  BY <1>1, <1>4, <1>5, NothingAsked
<1>8. ReattachFits' /\ HeldWhereNamed' /\ decoding' = {}
  BY <1>1, <1>2, <1>3, <1>4, <1>6, <1>7, SameFits, SameHeld DEF Prompted
<1> QED BY <1>6, <1>8, NoNewsPrompted

LEMMA ReceiveRefusedPrompted ==
  ASSUME Sound, Sound', Prompted, ReceiveRefused
  PROVE  Prompted'
<1>1. TypeOK /\ TypeOK'
  BY DEF Sound
<1>2. Receiving("refused") /\ UNCHANGED <<serverVars, serverSession, toServer, sessionVars, proxy,
             attachedResources, decoding, restore, reattaching, late, held, disturbed,
             notificationQueue>>
  BY DEF ReceiveRefused
<1>3. Kept(1) /\ NoNews(1) /\ ~Carries(1)
  BY <1>1, <1>2, ReceiveKeeps DEF Carries, IsAnswer, IsNotification, AnswerTypes, NotificationTypes
<1>4. NoNewsStep(1)
  BY <1>2, <1>3 DEF NoNewsStep
<1>5. ReattachFits' /\ HeldWhereNamed' /\ decoding' = {}
  BY <1>1, <1>2, <1>3, NothingAsked, SameFits, SameHeld DEF Prompted
<1> QED BY <1>4, <1>5, NoNewsPrompted

LEMMA ReattachFailedPrompted ==
  ASSUME Sound, Sound', Prompted, ReceiveNotFound \/ ReceiveRejected
  PROVE  Prompted'
<1>1. TypeOK /\ TypeOK'
  BY DEF Sound
<1>2. /\ Receiving("notFound") \/ Receiving("rejected")
      /\ reattaching' = None /\ restore' \in {restore, Nothing}
      /\ UNCHANGED <<serverVars, serverSession, toServer, proxy, attachedResources, decoding,
                     held, disturbed, notificationQueue>>
  BY DEF ReceiveNotFound, ReceiveRejected
<1>3. Kept(1) /\ NoNews(1) /\ ~Carries(1)
  BY <1>1, <1>2, ReceiveKeeps DEF Carries, IsAnswer, IsNotification, AnswerTypes, NotificationTypes
<1>4. Asked' = {} /\ querying' = None /\ Answered' = {}
  BY <1>2 DEF Sound, OneReattach
<1>5. NoNewsStep(1)
  BY <1>2, <1>3, <1>4 DEF NoNewsStep
<1>6. HeldWhereNamed' /\ decoding' = {}
  BY <1>2 DEF Prompted, HeldWhereNamed, Nothing
<1> QED BY <1>4, <1>5, <1>6, NoNewsPrompted, NothingInFlightFits

LEMMA ConnectPrompted ==
  ASSUME Sound, Sound', Prompted, Connect
  PROVE  Prompted'
<1>1. TypeOK /\ TypeOK'
  BY DEF Sound
<1>2. /\ restore' = attachedResources
      /\ UNCHANGED <<serverVars, serverSession, toServer, toClient, proxy,
                 attachedResources, attachRequests, decoding, reattaching, late,
                 held, disturbed, notificationQueue>>
  BY DEF Connect
<1>3. Kept(0) /\ NoNews(0) /\ NoNewsStep(0)
  BY <1>1, <1>2, NothingReceived DEF NoNewsStep
<1>4. ReattachFits' /\ decoding' = {}
  BY <1>1, <1>2, <1>3, NothingAsked, SameFits DEF Prompted
<1>5. HeldWhereNamed'
  BY <1>2 DEF Prompted, HeldWhereNamed
<1> QED BY <1>3, <1>4, <1>5, NoNewsPrompted

LEMMA ReattachPrompted ==
  ASSUME Sound, Sound', Prompted, NEW i \in Id, Reattach(i)
  PROVE  Prompted'
<1> DEFINE r == proxy[restore[i]]
           m == [type |-> "reattach", link |-> r.link, gen |-> r.gen, rev |-> r.rev]
<1>1. TypeOK /\ TypeOK' /\ UsedWhereNamed
  BY DEF Sound
<1>2. /\ restore[i] # None /\ reattaching = None /\ reattaching' = restore[i]
      /\ restore' = [restore EXCEPT ![i] = None]
      /\ toServer' = Append(toServer, m)
      /\ UNCHANGED <<serverVars, serverSession, toClient, sessionVars, proxy,
                 attachedResources, attachRequests, decoding, late, held, disturbed,
                 notificationQueue>>
  BY DEF Reattach
<1>3. Asked = {} /\ querying = None /\ Answered = {}
  BY <1>2 DEF Sound, OneReattach
<1>4. Answered' = {} /\ querying' = None
  BY <1>2, <1>3 DEF Answered
<1>5. Kept(0) /\ NoNews(0) /\ NoNewsStep(0)
  BY <1>1, <1>2, <1>4, NothingReceived DEF NoNewsStep
<1>6. toServer \in Seq(Request) /\ restore \in [Id -> Obj \cup {None}]
  BY <1>1 DEF TypeOK
<1>7. \A k \in Asked' : toServer'[k] = m
  BY <1>2, <1>3, <1>6 DEF Asked
<1>8. AsksFor(r, m)
  <2>1. r \in Proxy
    BY <1>1, <1>2, <1>6 DEF TypeOK, UsedWhereNamed, Used
  <2>2. r.rev <= r.rev
    BY <2>1, ProxyType DEF Revision
  <2> QED BY <2>2 DEF AsksFor
<1>9. ReattachFits'
  BY <1>2, <1>4, <1>7, <1>8 DEF ReattachFits, AsksFor
<1>10. HeldWhereNamed' /\ decoding' = {}
  <2>1. \A j \in Id : restore'[j] \in {restore[j], None}
    BY <1>2, <1>6
  <2> QED BY <1>2, <2>1 DEF Prompted, HeldWhereNamed
<1> QED BY <1>5, <1>9, <1>10, NoNewsPrompted

-----------------------------------------------------------------------------
(* A change of a resource: Modify and RaiseEvent.                          *)

(* The instance of l changes to its next revision, and m tells of it.      *)
ChangeStep(l, m) ==
    /\ Live(l) /\ instance[l] \in Instance /\ instance'[l] \in Instance /\ m \in Notification
    /\ \A k \in Link : k # l => instance'[k] = instance[k]
    /\ instance'[l].id = instance[l].id /\ instance'[l].gen = instance[l].gen
    /\ instance'[l].rev = instance[l].rev + 1
    /\ \A q \in Prop :
          \/ m.type = "property" /\ q = m.prop /\ instance'[l].age[q] = instance'[l].rev
          \/ ~(m.type = "property" /\ q = m.prop) /\ instance'[l].age[q] = instance[l].age[q]
    /\ m.id = instance[l].id /\ m.gen = instance[l].gen /\ m.rev = instance'[l].rev
    /\ Notify(instance[l].id, m)
    /\ UNCHANGED <<put, resourceCounter, restarts, serverSession, toServer, sessionVars,
                   clientVars, notificationQueue>>

(* The messages and the instances around a change.                         *)
LEMMA ChangeView ==
  ASSUME TypeOK, TypeOK', OneName, NEW l \in Link, NEW m, ChangeStep(l, m)
  PROVE  /\ \A k \in Link : /\ Live(k)' <=> Live(k)
                            /\ Live(k) => /\ instance'[k].id = instance[k].id
                                          /\ instance'[k].gen = instance[k].gen
                                          /\ instance[k].rev <= instance'[k].rev
                            /\ k # l => instance'[k] = instance[k]
                            /\ Live(k) /\ instance[k].gen = m.gen => k = l
         /\ Kept(0)
         /\ \A k \in DOMAIN toClient : k \in DOMAIN toClient' /\ toClient'[k] = toClient[k]
         /\ \A k \in DOMAIN toClient' :
               \/ k \in DOMAIN toClient
               \/ /\ k = Len(toClient) + 1 /\ k = Len(toClient') /\ toClient'[k] = m
                  /\ instance[l].id \in subscriptions
         /\ instance[l].id \in subscriptions =>
               /\ Len(toClient') = Len(toClient) + 1 /\ Len(toClient') \in DOMAIN toClient'
               /\ toClient'[Len(toClient')] = m
         /\ Len(toClient) <= Len(toClient')
         /\ m.type \in NotificationTypes
<1>1. \A k \in Link : Live(k)' <=> Live(k)
  BY InstanceType DEF ChangeStep, Live
<1>2. \A k \in Link : Live(k) => /\ instance'[k].id = instance[k].id
                                 /\ instance'[k].gen = instance[k].gen
                                 /\ instance[k].rev <= instance'[k].rev
  <2>1. \A k \in Link : Live(k) => instance[k].rev \in Nat
    BY InstanceFacts
  <2> QED BY <2>1 DEF ChangeStep
<1>3. \A k \in Link : Live(k) /\ instance[k].gen = m.gen => k = l
  BY DEF OneName, ChangeStep
<1>6. m.type \in NotificationTypes
  BY DEF ChangeStep, Notification, NotificationTypes
<1>4. CASE instance[l].id \in subscriptions
  <2>1. toClient' = Append(toClient, m)
    BY <1>4 DEF ChangeStep, Notify
  <2> QED BY <1>1, <1>2, <1>3, <1>4, <1>6, <2>1, AppendKeeps, Lengths DEF ChangeStep
<1>5. CASE instance[l].id \notin subscriptions
  <2>1. toClient' = toClient
    BY <1>5 DEF ChangeStep, Notify
  <2>2. Kept(0) /\ Len(toClient) <= Len(toClient')
    BY <2>1, NothingReceived, MessageFacts
  <2> QED BY <1>1, <1>2, <1>3, <1>5, <1>6, <2>1, <2>2 DEF ChangeStep
<1> QED BY <1>4, <1>5

LEMMA ChangeNames ==
  ASSUME Sound, Sound', Prompted, NEW l \in Link, NEW m, ChangeStep(l, m)
  PROVE  OneName' /\ ProxiesTrue' /\ Routed' /\ ReattachFits' /\ HeldWhereNamed' /\ decoding' = {}
<1>1. TypeOK /\ TypeOK' /\ OneName /\ ProxiesTrue /\ Routed
  BY DEF Sound, Prompted
<1>2. /\ \A k \in Link : /\ Live(k)' <=> Live(k)
                         /\ Live(k) => /\ instance'[k].id = instance[k].id
                                       /\ instance'[k].gen = instance[k].gen
      /\ Kept(0)
      /\ \A k \in DOMAIN toClient : k \in DOMAIN toClient' /\ toClient'[k] = toClient[k]
      /\ \A k \in DOMAIN toClient' :
            \/ k \in DOMAIN toClient
            \/ /\ k = Len(toClient) + 1 /\ k = Len(toClient') /\ toClient'[k] = m
               /\ instance[l].id \in subscriptions
      /\ Len(toClient) <= Len(toClient')
      /\ m.type \in NotificationTypes
  BY <1>1, ChangeView
<1>3. /\ UNCHANGED <<put, resourceCounter, serverSession, toServer, clientVars, notificationQueue>>
      /\ Live(l) /\ m.id = instance[l].id /\ m.gen = instance[l].gen
  BY DEF ChangeStep
<1>4. OneName'
  <2>1. \A i \in Id, g \in Generation : Named(i, g)' => Named(i, g)
    <3> SUFFICES ASSUME NEW i \in Id, NEW g \in Generation, Named(i, g)'
                 PROVE  Named(i, g)
      OBVIOUS
    <3>1. ASSUME NEW k \in Link, Live(k)', instance'[k].id = i, instance'[k].gen = g
          PROVE  Named(i, g)
      BY <1>2, <3>1 DEF Named
    <3>2. ASSUME NEW k \in DOMAIN toClient', Carries(k)', toClient'[k].id = i, toClient'[k].gen = g
          PROVE  Named(i, g)
      <4>1. CASE k \in DOMAIN toClient
        BY <1>2, <3>2, <4>1 DEF Named, Carries, IsAnswer, IsNotification
      <4>2. CASE toClient'[k] = m
        BY <1>3, <3>2, <4>2 DEF Named
      <4> QED BY <1>2, <4>1, <4>2
    <3> QED BY <1>3, <3>1, <3>2 DEF Named
  <2>2. \A i, j \in Id, g, h \in Generation : (Named(i, g) /\ Named(j, h))' => (i = j <=> g = h)
    BY <1>1, <2>1 DEF OneName
  <2>3. \A i \in Id, g \in Generation : Named(i, g)' => i <= resourceCounter' /\ g[2] <= put'[g[1]]
    BY <1>1, <1>3, <2>1 DEF OneName
  <2>4. \A k \in Link : Live(k)' => instance'[k].gen[1] = k
    BY <1>1, <1>2 DEF OneName
  <2>5. \A k \in DOMAIN toClient' : IsAnswer(k)' => toClient'[k].gen[1] = toClient'[k].link
    BY <1>1, <1>2 DEF OneName, IsAnswer, AnswerTypes, NotificationTypes
  <2>6. \A i \in subscriptions' : i <= resourceCounter'
    BY <1>1, <1>3 DEF OneName
  <2> QED BY <2>2, <2>3, <2>4, <2>5, <2>6 DEF OneName
<1>5. ProxiesTrue'
  <2>1. ASSUME NEW o \in Obj, NEW k \in Link, Used(o)', Live(k)', instance'[k].gen = proxy'[o].gen
        PROVE  proxy'[o].id = instance'[k].id
    BY <1>1, <1>2, <1>3, <2>1 DEF ProxiesTrue, Used
  <2> QED BY <1>1, <1>3, <2>1 DEF ProxiesTrue, Used
<1>6. Routed'
  <2>1. \A i, g : Settled(i, g) => Settled(i, g)'
    BY <1>3 DEF Settled
  <2>2. \A k \in DOMAIN notificationQueue' :
            Settled(notificationQueue[k].id, notificationQueue[k].gen)'
    BY <1>1, <1>3, <2>1 DEF Routed, Settled
  <2>3. ASSUME NEW i, NEW n \in Nat, NEW o \in Nat, n <= o, Announced(i, n)
        PROVE  Announced(i, o)'
    BY <1>1, <1>2, <2>3, AnnouncedStill
  <2>4. ASSUME NEW k \in DOMAIN toClient', IsNotification(k)'
        PROVE  Announced(toClient[k].id, k)' \/ Settled(toClient[k].id, toClient[k].gen)'
    <3>1. CASE k \in DOMAIN toClient
      <4>1. \/ Announced(toClient[k].id, k)
            \/ Settled(toClient[k].id, toClient[k].gen)
        BY <1>1, <1>2, <2>4, <3>1 DEF Routed, IsNotification
      <4>2. k \in Nat /\ k <= k
        BY <1>1, Lengths
      <4>3. CASE Announced(toClient[k].id, k)
        <5>1. PICK i \in {toClient[k].id} : Announced(i, k)
          BY <4>3
        <5>2. Announced(i, k)'
          BY <2>3, <4>2, <5>1
        <5> QED BY <1>2, <3>1, <5>1, <5>2 DEF Announced
      <4>4. CASE Settled(toClient[k].id, toClient[k].gen)
        BY <1>2, <1>3, <3>1, <4>4 DEF Settled
      <4> QED BY <4>1, <4>3, <4>4
    <3>2. CASE /\ k = Len(toClient) + 1 /\ toClient'[k] = m
               /\ instance[l].id \in subscriptions
      <4>1. Announced(m.id, Len(toClient)) \/ Settled(m.id, m.gen)
        BY <1>1, <1>3, <3>2 DEF Routed
      <4>2. k \in Nat /\ Len(toClient) \in Nat /\ Len(toClient) <= k
        BY <1>1, <3>2, Lengths
      <4>3. CASE Announced(m.id, Len(toClient))
        <5>1. PICK i \in {m.id} : Announced(i, Len(toClient))
          BY <4>3
        <5>2. Announced(i, k)'
          BY <2>3, <4>2, <5>1
        <5> QED BY <3>2, <5>1, <5>2 DEF Announced
      <4>4. CASE Settled(m.id, m.gen)
        BY <1>3, <3>2, <4>4 DEF Settled
      <4> QED BY <4>1, <4>3, <4>4
    <3> QED BY <1>2, <3>1, <3>2
  <2>5. ASSUME NEW k \in Link, Live(k)', instance'[k].id \in subscriptions'
        PROVE  \/ Announced(instance[k].id, Len(toClient))'
               \/ Settled(instance[k].id, instance[k].gen)'
    <3>1. \/ Announced(instance[k].id, Len(toClient))
          \/ Settled(instance[k].id, instance[k].gen)
      BY <1>1, <1>2, <1>3, <2>5 DEF Routed
    <3>2. Len(toClient) \in Nat /\ Len(toClient') \in Nat /\ Len(toClient) <= Len(toClient')
      BY <1>1, <1>2, Lengths
    <3>3. CASE Announced(instance[k].id, Len(toClient))
      <4>1. PICK i \in {instance[k].id}, n \in Nat : n = Len(toClient')
        BY <3>2
      <4>2. Announced(i, n)'
        BY <2>3, <3>2, <3>3, <4>1
      <4> QED BY <1>2, <2>5, <4>1, <4>2 DEF Announced
    <3>4. CASE Settled(instance[k].id, instance[k].gen)
      BY <1>2, <1>3, <2>5, <3>4 DEF Settled
    <3> QED BY <3>1, <3>3, <3>4
  <2> QED BY <2>2, <2>4, <2>5 DEF Routed
<1>7. ReattachFits'
  <2>1. ASSUME NEW k \in Answered', toClient'[k].type = "reattached"
        PROVE  \E j \in Answered : toClient'[k] = toClient[j]
    BY <1>2, <2>1 DEF Answered, NotificationTypes
  <2>2. \A k \in Asked' : \E j \in Asked : toServer'[k] = toServer[j]
    BY <1>1, <1>3, NothingAsked
  <2> QED BY <1>3, <2>1, <2>2, FitsStill DEF Prompted
<1>8. HeldWhereNamed' /\ decoding' = {}
  BY <1>1, <1>3, SameHeld DEF Prompted
<1> QED BY <1>4, <1>5, <1>6, <1>7, <1>8

LEMMA ChangeAnswers ==
  ASSUME Sound, Sound', Prompted, NEW l \in Link, NEW m, ChangeStep(l, m)
  PROVE  InOrder' /\ RevisionsInOrder' /\ AnswersComplete' /\ AllCovered'
<1>1. TypeOK /\ TypeOK' /\ OneName /\ InOrder /\ RevisionsInOrder /\ UsedWhereNamed
  BY DEF Sound, Prompted
<1>2. /\ \A k \in Link : /\ Live(k)' <=> Live(k)
                         /\ Live(k) => /\ instance'[k].gen = instance[k].gen
                                       /\ instance[k].rev <= instance'[k].rev
                         /\ k # l => instance'[k] = instance[k]
                         /\ Live(k) /\ instance[k].gen = m.gen => k = l
      /\ \A k \in DOMAIN toClient : k \in DOMAIN toClient' /\ toClient'[k] = toClient[k]
      /\ \A k \in DOMAIN toClient' :
            \/ k \in DOMAIN toClient
            \/ k = Len(toClient) + 1 /\ toClient'[k] = m
      /\ m.type \in NotificationTypes
  BY <1>1, ChangeView
<1>3. /\ UNCHANGED <<clientVars, notificationQueue>>
      /\ Live(l) /\ m.gen = instance[l].gen /\ instance'[l].gen = instance[l].gen
      /\ m.rev = instance[l].rev + 1 /\ instance'[l].rev = instance[l].rev + 1
      /\ \A q \in Prop :
            \/ m.type = "property" /\ q = m.prop /\ instance'[l].age[q] = m.rev
            \/ ~(m.type = "property" /\ q = m.prop) /\ instance'[l].age[q] = instance[l].age[q]
  BY DEF ChangeStep
<1>4. /\ \A k \in Link : Live(k) =>
            instance[k].rev \in Nat /\ \A q \in Prop : instance[k].age[q] \in Nat
      /\ m.rev \in Nat /\ (m.type = "property" => m.prop \in Prop)
  BY <1>1, <1>3, InstanceFacts DEF ChangeStep, Notification
<1>5. /\ \A k \in DOMAIN toClient : Carries(k) => toClient[k].rev \in Nat
      /\ \A k \in DOMAIN toClient : toClient[k].type = "property" => toClient[k].prop \in Prop
  BY <1>1, MessageFacts
<1>6. /\ \A k \in DOMAIN notificationQueue : notificationQueue[k].rev \in Nat
      /\ \A k \in DOMAIN notificationQueue :
            notificationQueue[k].type = "property" => notificationQueue[k].prop \in Prop
  BY <1>1, QueueFacts DEF Notification
<1>7. \A k \in Link, q \in Prop : Live(k) => instance[k].age[q] <= instance'[k].age[q]
  BY <1>1, <1>2, <1>3, <1>4 DEF InOrder
<1>8. \A k \in DOMAIN toClient : /\ IsAnswer(k)' <=> IsAnswer(k)
                                 /\ Carries(k)' <=> Carries(k)
                                 /\ \A n \in Link : Live(n) => (About(k, n)' <=> About(k, n))
  BY <1>2 DEF IsAnswer, IsNotification, Carries, About
<1>9. InOrder'
  <2> SUFFICES ASSUME NEW k \in Link, Live(k)'
               PROVE  /\ \A q \in Prop : instance'[k].age[q] <= instance'[k].rev
                      /\ \A n \in DOMAIN toClient' :
                            About(n, k)' => toClient'[n].rev <= instance'[k].rev
                      /\ \A n \in DOMAIN notificationQueue' : QueuedAbout(n, k)' =>
                            notificationQueue'[n].rev <= instance'[k].rev
                      /\ \A n \in DOMAIN toClient' :
                            toClient'[n].type = "property" /\ About(n, k)' =>
                               toClient'[n].rev <= instance'[k].age[toClient'[n].prop]
                      /\ \A n \in DOMAIN notificationQueue' :
                            notificationQueue'[n].type = "property" /\ QueuedAbout(n, k)' =>
                               notificationQueue'[n].rev
                                  <= instance'[k].age[notificationQueue'[n].prop]
    BY Zenon DEF InOrder
  <2>0. Live(k) /\ instance[k].rev \in Nat /\ instance'[k].rev \in Nat
        /\ \A q \in Prop : instance[k].age[q] \in Nat /\ instance'[k].age[q] \in Nat
    BY <1>1, <1>2, <1>3, <1>4
  <2>1. \A q \in Prop : instance'[k].age[q] <= instance'[k].rev
    BY <1>1, <1>2, <1>3, <1>4, <2>0 DEF InOrder
  <2>2. ASSUME NEW n \in DOMAIN toClient', About(n, k)'
        PROVE  /\ toClient'[n].rev <= instance'[k].rev
               /\ toClient'[n].type = "property" =>
                     toClient'[n].rev <= instance'[k].age[toClient'[n].prop]
    <3>1. CASE n \in DOMAIN toClient
      <4>1. About(n, k) /\ Carries(n) /\ toClient'[n] = toClient[n] /\ toClient[n].rev \in Nat
        BY <1>2, <1>5, <1>8, <2>0, <2>2, <3>1 DEF About
      <4>2. toClient[n].rev <= instance[k].rev
        BY <1>1, <2>0, <3>1, <4>1 DEF InOrder
      <4>3. toClient[n].type = "property" =>
                /\ toClient[n].prop \in Prop
                /\ toClient[n].rev <= instance[k].age[toClient[n].prop]
        BY <1>1, <1>5, <2>0, <3>1, <4>1 DEF InOrder
      <4> QED BY <1>2, <1>7, <2>0, <4>1, <4>2, <4>3
    <3>2. CASE toClient'[n] = m
      <4>1. k = l
        BY <1>2, <2>0, <2>2, <3>2 DEF About
      <4> QED BY <1>3, <1>4, <3>2, <4>1
    <3> QED BY <1>2, <3>1, <3>2
  <2>3. ASSUME NEW n \in DOMAIN notificationQueue', QueuedAbout(n, k)'
        PROVE  /\ notificationQueue'[n].rev <= instance'[k].rev
               /\ notificationQueue'[n].type = "property" =>
                     notificationQueue'[n].rev <= instance'[k].age[notificationQueue'[n].prop]
    <3>1. n \in DOMAIN notificationQueue /\ notificationQueue' = notificationQueue
          /\ QueuedAbout(n, k) /\ notificationQueue[n].rev \in Nat
      BY <1>2, <1>3, <1>6, <2>0, <2>3 DEF QueuedAbout
    <3>2. notificationQueue[n].rev <= instance[k].rev
      BY <1>1, <2>0, <3>1 DEF InOrder
    <3>3. notificationQueue[n].type = "property" =>
              /\ notificationQueue[n].prop \in Prop
              /\ notificationQueue[n].rev <= instance[k].age[notificationQueue[n].prop]
      BY <1>1, <1>6, <2>0, <3>1 DEF InOrder
    <3> QED BY <1>2, <1>7, <2>0, <3>1, <3>2, <3>3
  <2> QED BY <2>1, <2>2, <2>3
<1>10. RevisionsInOrder'
  <2>1. ASSUME NEW j \in DOMAIN toClient', NEW k \in DOMAIN toClient',
               j < k, Carries(j)', Carries(k)', toClient'[j].gen = toClient'[k].gen
        PROVE  toClient'[j].rev <= toClient'[k].rev
    <3>1. CASE k \in DOMAIN toClient
      <4>1. j \in DOMAIN toClient
        BY <1>1, <1>2, <2>1, <3>1, Lengths
      <4> QED BY <1>1, <1>2, <1>8, <2>1, <3>1, <4>1 DEF RevisionsInOrder
    <3>2. CASE k = Len(toClient) + 1 /\ toClient'[k] = m
      <4>1. j \in DOMAIN toClient
        BY <1>1, <2>1, <3>2, Lengths
      <4>2. About(j, l) /\ Carries(j) /\ toClient'[j] = toClient[j]
        BY <1>2, <1>3, <1>8, <2>1, <3>2, <4>1 DEF About
      <4>3. toClient[j].rev <= instance[l].rev /\ toClient[j].rev \in Nat
        BY <1>1, <1>3, <1>5, <4>1, <4>2 DEF InOrder
      <4> QED BY <1>3, <1>4, <3>2, <4>2, <4>3
    <3> QED BY <1>2, <3>1, <3>2
  <2>2. ASSUME NEW j \in DOMAIN notificationQueue', NEW k \in DOMAIN toClient',
               Carries(k)', notificationQueue'[j].gen = toClient'[k].gen
        PROVE  notificationQueue'[j].rev <= toClient'[k].rev
    <3>1. CASE k \in DOMAIN toClient
      BY <1>1, <1>2, <1>3, <1>8, <2>2, <3>1 DEF RevisionsInOrder
    <3>2. CASE toClient'[k] = m
      <4>1. notificationQueue' = notificationQueue /\ QueuedAbout(j, l)
        BY <1>3, <2>2, <3>2 DEF QueuedAbout
      <4>2. notificationQueue[j].rev <= instance[l].rev /\ notificationQueue[j].rev \in Nat
        BY <1>1, <1>3, <1>6, <2>2, <4>1 DEF InOrder
      <4> QED BY <1>3, <1>4, <3>2, <4>1, <4>2
    <3> QED BY <1>2, <3>1, <3>2
  <2> QED BY <2>1, <2>2 DEF RevisionsInOrder
<1>11. AnswersComplete'
  <2> SUFFICES ASSUME NEW k \in DOMAIN toClient', IsAnswer(k)'
               PROVE  /\ \A q \in DOMAIN toClient'[k].values :
                            toClient'[k].values[q] <= toClient'[k].rev
                      /\ \A n \in Link : (Live(n) /\ About(k, n))' => Brings(toClient[k], n)'
    BY DEF AnswersComplete
  <2>1. k \in DOMAIN toClient /\ toClient'[k] = toClient[k] /\ IsAnswer(k)
    BY <1>2 DEF IsAnswer, AnswerTypes, NotificationTypes
  <2>2. ASSUME NEW n \in Link, (Live(n) /\ About(k, n))' PROVE Brings(toClient[k], n)'
    <3>1. Live(n) /\ About(k, n)
      BY <1>2, <1>8, <2>1, <2>2
    <3>2. Brings(toClient[k], n) /\ toClient[k].rev <= instance[n].rev /\ toClient[k].rev \in Nat
      <4>1. Brings(toClient[k], n)
        BY <2>1, <3>1 DEF Prompted, AnswersComplete
      <4>2. toClient[k].rev <= instance[n].rev
        BY <1>1, <2>1, <3>1 DEF InOrder
      <4>3. Carries(k)
        BY <2>1 DEF Carries
      <4> QED BY <1>5, <2>1, <4>1, <4>2, <4>3
    <3>3. \A q \in Prop : instance'[n].age[q] <= toClient[k].rev =>
                             instance'[n].age[q] = instance[n].age[q]
      <4>1. CASE n # l
        BY <1>2, <4>1
      <4>2. CASE n = l
        BY <1>3, <1>4, <3>1, <3>2, <4>2
      <4> QED BY <4>1, <4>2
    <3> QED BY <1>3, <2>1, <3>2, <3>3 DEF Brings
  <2> QED BY <2>1, <2>2 DEF Prompted, AnswersComplete
<1>12. AllCovered'
  <2> SUFFICES ASSUME NEW o \in Obj, Used(o), instance'[proxy[o].link] # Absent,
                      proxy[o].gen = instance'[proxy[o].link].gen
               PROVE  /\ proxy[o].rev <= instance'[proxy[o].link].rev
                      /\ \A p \in Prop : instance'[proxy[o].link].age[p] <= proxy[o].rev =>
                            proxy[o].cache[p] = [gen |-> instance'[proxy[o].link].gen,
                                                 rev |-> instance'[proxy[o].link].age[p]]
    BY <1>3 DEF AllCovered, CursorCovered, Used, Live
  <2> DEFINE k == proxy[o].link
  <2>0. k \in Link /\ proxy[o].rev \in Nat
    BY <1>1, ProxyFacts
  <2>1. k \in Link /\ proxy[o].rev \in Nat /\ Live(k) /\ proxy[o].gen = instance[k].gen
    BY <1>2, <2>0 DEF Live
  <2>2. /\ proxy[o].rev <= instance[k].rev
        /\ \A p \in Prop : instance[k].age[p] <= proxy[o].rev =>
              proxy[o].cache[p] = [gen |-> instance[k].gen, rev |-> instance[k].age[p]]
    BY <2>1 DEF Prompted, AllCovered, CursorCovered
  <2> HIDE DEF k
  <2>3. \A p \in Prop : instance'[k].age[p] <= proxy[o].rev =>
                           instance'[k].age[p] = instance[k].age[p]
    BY <1>2, <1>3, <1>4, <2>1, <2>2
  <2>4. proxy[o].rev <= instance'[k].rev /\ instance'[k].gen = instance[k].gen
    BY <1>2, <1>3, <1>4, <2>1, <2>2
  <2> QED BY <2>2, <2>3, <2>4 DEF k
<1> QED BY <1>9, <1>10, <1>11, <1>12

LEMMA ChangeFollows ==
  ASSUME Sound, Sound', Prompted, NEW l \in Link, NEW m, ChangeStep(l, m)
  PROVE  ChangesFollowAnswers' /\ ChangesFollowCursor'
<1>1. TypeOK /\ TypeOK' /\ OneName /\ InOrder /\ UsedWhereNamed
  BY DEF Sound, Prompted
<1>2. /\ \A k \in Link : /\ Live(k)' <=> Live(k)
                         /\ Live(k) => /\ instance'[k].gen = instance[k].gen
                                       /\ instance'[k].id = instance[k].id
                         /\ k # l => instance'[k] = instance[k]
                         /\ Live(k) /\ instance[k].gen = m.gen => k = l
      /\ Kept(0)
      /\ \A k \in DOMAIN toClient : k \in DOMAIN toClient' /\ toClient'[k] = toClient[k]
      /\ \A k \in DOMAIN toClient' :
            \/ k \in DOMAIN toClient
            \/ /\ k = Len(toClient) + 1 /\ k = Len(toClient') /\ toClient'[k] = m
               /\ instance[l].id \in subscriptions
      /\ instance[l].id \in subscriptions =>
            /\ Len(toClient') = Len(toClient) + 1 /\ Len(toClient') \in DOMAIN toClient'
            /\ toClient'[Len(toClient')] = m
      /\ Len(toClient) <= Len(toClient')
      /\ m.type \in NotificationTypes
  BY <1>1, ChangeView
<1>3. /\ UNCHANGED <<subscriptions, clientVars, notificationQueue>>
      /\ Live(l) /\ m.gen = instance[l].gen
      /\ m.rev = instance[l].rev + 1 /\ instance'[l].rev = instance[l].rev + 1
      /\ \A q \in Prop :
            \/ m.type = "property" /\ q = m.prop /\ instance'[l].age[q] = m.rev
            \/ ~(m.type = "property" /\ q = m.prop) /\ instance'[l].age[q] = instance[l].age[q]
  BY DEF ChangeStep
<1>4. /\ Len(toClient) \in Nat /\ Len(toClient') \in Nat /\ DOMAIN toClient = 1 .. Len(toClient)
      /\ \A k \in DOMAIN toClient : k \in Nat
      /\ \A k \in DOMAIN toClient' : k \in Nat
      /\ \A k \in DOMAIN toClient : Carries(k) => toClient[k].rev \in Nat
      /\ \A k \in DOMAIN notificationQueue : notificationQueue[k].rev \in Nat
      /\ \A k \in Link : Live(k) =>
            instance[k].rev \in Nat /\ \A q \in Prop : instance[k].age[q] \in Nat
  BY <1>1, MessageFacts, QueueFacts, InstanceFacts, Lengths
<1>5. \A k \in DOMAIN toClient : /\ IsAnswer(k)' <=> IsAnswer(k)
                                 /\ \A n \in Link : Live(n) => (About(k, n)' <=> About(k, n))
  BY <1>2 DEF IsAnswer, IsNotification, Carries, About
<1>6. \A k \in DOMAIN toClient' : IsAnswer(k)' => k \in DOMAIN toClient
  BY <1>2 DEF IsAnswer, AnswerTypes, NotificationTypes
(* A change that was on its way still is.                                *)
<1>7. ASSUME NEW k \in Link, Live(k), NEW q \in Prop, instance'[k].age[q] = instance[k].age[q],
             NEW i \in Nat, NEW n \in Nat, NEW o \in Nat, n <= o, Comes(i, n, k, q)
      PROVE  Comes(i, o, k, q)'
  BY <1>1, <1>2, <1>7, ComesStill
<1>8. ASSUME NEW k \in Link, Live(k), NEW q \in Prop, instance'[k].age[q] = instance[k].age[q],
             NEW n, Queued(n, k, q)
      PROVE  Queued(n, k, q)'
  BY <1>2, <1>3, <1>8 DEF Queued, IsChange
(* The new change of l is at the end of the channel, if it is anywhere.  *)
<1>9. ASSUME NEW q \in Prop, instance'[l].age[q] # instance[l].age[q], NEW i \in Nat,
             i <= Len(toClient), instance[l].id \in subscriptions, NEW n \in Nat, n = Len(toClient')
      PROVE  Comes(i, n, l, q)'
  <2>1. n \in DOMAIN toClient' /\ toClient'[n] = m /\ i < n
    BY <1>2, <1>4, <1>9
  <2>2. m.type = "property" /\ q = m.prop /\ instance'[l].age[q] = m.rev
        /\ instance'[l].gen = m.gen
    BY <1>2, <1>3, <1>9
  <2>3. IsChange(toClient[n], l, q)'
    BY <2>1, <2>2 DEF IsChange
  <2>4. n <= n
    BY <1>9
  <2> QED BY <2>1, <2>3, <2>4 DEF Comes
<1>10. \A k \in Link, q \in Prop : Live(k) =>
           \/ instance'[k].age[q] = instance[k].age[q]
           \/ /\ k = l /\ instance'[k].age[q] # instance[k].age[q]
              /\ instance'[k].age[q] = instance[k].rev + 1
  BY <1>2, <1>3
<1>11. ChangesFollowAnswers'
  <2> SUFFICES ASSUME NEW k \in Link, Live(k)', NEW j \in DOMAIN toClient',
                      (IsAnswer(j) /\ About(j, k))', NEW q \in Prop,
                      instance'[k].age[q] > toClient'[j].rev
               PROVE  /\ instance'[k].id \in subscriptions' => Comes(j, Len(toClient), k, q)'
                      /\ \A n \in DOMAIN toClient' :
                            j < n /\ About(n, k)' /\ instance'[k].age[q] <= toClient'[n].rev =>
                               Comes(j, n, k, q)'
    BY DEF ChangesFollowAnswers
  <2>1. /\ Live(k) /\ j \in DOMAIN toClient /\ IsAnswer(j) /\ About(j, k) /\ j \in Nat
        /\ toClient'[j] = toClient[j] /\ j <= Len(toClient)
    BY <1>2, <1>4, <1>5, <1>6
  <2>2. CASE instance'[k].age[q] = instance[k].age[q]
    <3>1. instance[k].id \in subscriptions => Comes(j, Len(toClient), k, q)
      BY <2>1, <2>2 DEF Prompted, ChangesFollowAnswers
    <3>2. instance'[k].id \in subscriptions' => Comes(j, Len(toClient), k, q)'
      BY <1>2, <1>3, <1>4, <1>7, <2>1, <2>2, <3>1
    <3>3. ASSUME NEW n \in DOMAIN toClient', j < n, About(n, k)',
                 instance'[k].age[q] <= toClient'[n].rev
          PROVE  Comes(j, n, k, q)'
      <4>1. CASE n \in DOMAIN toClient
        <5>1. Comes(j, n, k, q)
          BY <1>2, <1>5, <2>1, <2>2, <3>3, <4>1 DEF Prompted, ChangesFollowAnswers
        <5>2. n \in Nat /\ n <= n
          BY <1>4, <4>1
        <5> QED BY <1>7, <2>1, <2>2, <5>1, <5>2
      <4>2. CASE /\ n = Len(toClient) + 1 /\ n = Len(toClient') /\ toClient'[n] = m
                 /\ instance[l].id \in subscriptions
        <5>1. k = l
          BY <1>2, <2>1, <3>3, <4>2 DEF About
        <5> QED BY <1>4, <1>7, <2>1, <2>2, <3>1, <4>2, <5>1
      <4> QED BY <1>2, <4>1, <4>2
    <3> QED BY <3>2, <3>3
  <2>3. CASE k = l /\ instance'[k].age[q] # instance[k].age[q]
               /\ instance'[k].age[q] = instance[k].rev + 1
    <3>1. instance'[k].id \in subscriptions' => Comes(j, Len(toClient), k, q)'
      BY <1>2, <1>3, <1>4, <1>9, <2>1, <2>3
    <3>2. ASSUME NEW n \in DOMAIN toClient', j < n, About(n, k)',
                 instance'[k].age[q] <= toClient'[n].rev
          PROVE  Comes(j, n, k, q)'
      <4>1. CASE n \in DOMAIN toClient
        <5>1. About(n, k) /\ Carries(n) /\ toClient'[n] = toClient[n]
          BY <1>2, <1>5, <2>1, <3>2, <4>1 DEF About
        <5>2. toClient[n].rev <= instance[k].rev /\ toClient[n].rev \in Nat /\ instance[k].rev \in Nat
          BY <1>1, <1>4, <2>1, <4>1, <5>1 DEF InOrder
        <5> QED BY <2>3, <3>2, <5>1, <5>2
      <4>2. CASE /\ n = Len(toClient) + 1 /\ n = Len(toClient')
                 /\ instance[l].id \in subscriptions
        BY <1>4, <1>9, <2>1, <2>3, <4>2
      <4> QED BY <1>2, <4>1, <4>2
    <3> QED BY <3>1, <3>2
  <2> QED BY <1>10, <2>1, <2>2, <2>3
<1>12. ChangesFollowCursor'
  <2> SUFFICES ASSUME NEW k \in Link, Live(k)',
                      attachedResources'[instance'[k].id] # None,
                      proxy'[attachedResources'[instance'[k].id]].gen = instance'[k].gen,
                      NEW q \in Prop,
                      instance'[k].age[q] > proxy'[attachedResources'[instance'[k].id]].rev
               PROVE  /\ instance'[k].id \in subscriptions' =>
                            \/ Comes(0, Len(toClient), k, q)'
                            \/ Queued(Len(notificationQueue), k, q)'
                      /\ \A n \in DOMAIN toClient' :
                            About(n, k)' /\ instance'[k].age[q] <= toClient'[n].rev =>
                               \/ Comes(0, n, k, q)'
                               \/ Queued(Len(notificationQueue), k, q)'
                      /\ \A n \in DOMAIN notificationQueue' :
                            QueuedAbout(n, k)' /\ instance'[k].age[q] <= notificationQueue'[n].rev =>
                               Queued(n, k, q)'
    BY Zenon DEF ChangesFollowCursor
  <2> DEFINE o == attachedResources[instance[k].id]
  <2>1. /\ Live(k) /\ o # None /\ proxy[o].gen = instance[k].gen
        /\ instance'[k].age[q] > proxy[o].rev /\ UNCHANGED notificationQueue
    BY <1>2, <1>3
  <2>2. CASE instance'[k].age[q] = instance[k].age[q]
    <3>1. /\ instance[k].id \in subscriptions =>
                Comes(0, Len(toClient), k, q) \/ Queued(Len(notificationQueue), k, q)
          /\ \A n \in DOMAIN toClient :
                About(n, k) /\ instance[k].age[q] <= toClient[n].rev =>
                    Comes(0, n, k, q) \/ Queued(Len(notificationQueue), k, q)
          /\ \A n \in DOMAIN notificationQueue :
                QueuedAbout(n, k) /\ instance[k].age[q] <= notificationQueue[n].rev =>
                    Queued(n, k, q)
      BY <2>1, <2>2 DEF Prompted, ChangesFollowCursor
    <3>2. instance'[k].id \in subscriptions' =>
              Comes(0, Len(toClient), k, q)' \/ Queued(Len(notificationQueue), k, q)'
      BY <1>2, <1>3, <1>4, <1>7, <1>8, <2>1, <2>2, <3>1
    <3>3. ASSUME NEW n \in DOMAIN toClient', About(n, k)',
                 instance'[k].age[q] <= toClient'[n].rev
          PROVE  Comes(0, n, k, q)' \/ Queued(Len(notificationQueue), k, q)'
      <4>1. CASE n \in DOMAIN toClient
        <5>1. Comes(0, n, k, q) \/ Queued(Len(notificationQueue), k, q)
          BY <1>2, <1>5, <2>1, <2>2, <3>1, <3>3, <4>1
        <5>2. n \in Nat /\ n <= n
          BY <1>4, <4>1
        <5> QED BY <1>7, <1>8, <2>1, <2>2, <5>1, <5>2
      <4>2. CASE /\ n = Len(toClient) + 1 /\ n = Len(toClient') /\ toClient'[n] = m
                 /\ instance[l].id \in subscriptions
        <5>1. k = l
          BY <1>2, <2>1, <3>3, <4>2 DEF About
        <5>2. Comes(0, Len(toClient), k, q) \/ Queued(Len(notificationQueue), k, q)
          BY <3>1, <4>2, <5>1
        <5>3. Comes(0, Len(toClient), k, q) => Comes(0, n, k, q)'
          BY <1>4, <1>7, <2>1, <2>2, <4>2
        <5> QED BY <1>8, <2>1, <2>2, <5>2, <5>3
      <4> QED BY <1>2, <4>1, <4>2
    <3>4. ASSUME NEW n \in DOMAIN notificationQueue', QueuedAbout(n, k)',
                 instance'[k].age[q] <= notificationQueue'[n].rev
          PROVE  Queued(n, k, q)'
      BY <1>2, <1>8, <2>1, <2>2, <3>1, <3>4 DEF QueuedAbout
    <3> QED BY <3>2, <3>3, <3>4
  <2>3. CASE k = l /\ instance'[k].age[q] # instance[k].age[q]
               /\ instance'[k].age[q] = instance[k].rev + 1
    <3>1. instance'[k].id \in subscriptions' => Comes(0, Len(toClient), k, q)'
      BY <1>2, <1>3, <1>4, <1>9, <2>1, <2>3
    <3>2. ASSUME NEW n \in DOMAIN toClient', About(n, k)',
                 instance'[k].age[q] <= toClient'[n].rev
          PROVE  Comes(0, n, k, q)'
      <4>1. CASE n \in DOMAIN toClient
        <5>1. About(n, k) /\ Carries(n) /\ toClient'[n] = toClient[n]
          BY <1>2, <1>5, <2>1, <3>2, <4>1 DEF About
        <5>2. toClient[n].rev <= instance[k].rev /\ toClient[n].rev \in Nat /\ instance[k].rev \in Nat
          BY <1>1, <1>4, <2>1, <4>1, <5>1 DEF InOrder
        <5> QED BY <2>3, <3>2, <5>1, <5>2
      <4>2. CASE /\ n = Len(toClient) + 1 /\ n = Len(toClient')
                 /\ instance[l].id \in subscriptions
        BY <1>4, <1>9, <2>1, <2>3, <4>2
      <4> QED BY <1>2, <4>1, <4>2
    <3>3. ASSUME NEW n \in DOMAIN notificationQueue', QueuedAbout(n, k)',
                 instance'[k].age[q] <= notificationQueue'[n].rev
          PROVE  Queued(n, k, q)'
      <4>1. n \in DOMAIN notificationQueue /\ QueuedAbout(n, k)
        BY <1>2, <2>1, <3>3 DEF QueuedAbout
      <4>2. notificationQueue[n].rev <= instance[k].rev /\ instance[k].rev \in Nat
            /\ notificationQueue[n].rev \in Nat
        BY <1>1, <1>4, <2>1, <4>1 DEF InOrder
      <4> QED BY <2>1, <2>3, <3>3, <4>2
    <3> QED BY <3>1, <3>2, <3>3
  <2> QED BY <1>10, <2>1, <2>2, <2>3
<1> QED BY <1>11, <1>12

LEMMA ChangePrompted ==
  ASSUME Sound, Sound', Prompted, NEW l \in Link, NEW m, ChangeStep(l, m)
  PROVE  Prompted'
BY ChangeNames, ChangeAnswers, ChangeFollows DEF Prompted

LEMMA ModifyIsChange ==
  ASSUME TypeOK, NEW l \in Link, NEW p \in Prop, Modify(l, p)
  PROVE  \E m : ChangeStep(l, m)
<1> DEFINE x == instance[l]
           n == x.rev + 1
           y == [id |-> x.id, gen |-> x.gen, rev |-> n, age |-> [x.age EXCEPT ![p] = n]]
           m == [type |-> "property", id |-> x.id, gen |-> x.gen, rev |-> n, prop |-> p]
<1>1. TypeOK
  OBVIOUS
<1>2. /\ x \in Instance /\ y \in Instance /\ m \in Notification
      /\ instance' = [instance EXCEPT ![l] = y]
      /\ Notify(x.id, m) /\ Live(l)
      /\ UNCHANGED <<put, resourceCounter, restarts, serverSession, toServer, sessionVars,
                    clientVars, notificationQueue>>
  BY <1>1, ModifyChanges
<1>3. instance \in [Link -> Instance \cup {Absent}] /\ x.age \in [Prop -> Revision]
  BY <1>1, <1>2, InstanceType DEF TypeOK
<1>4. /\ instance'[l] = y
      /\ \A k \in Link : k # l => instance'[k] = instance[k]
  BY <1>2, <1>3
<1>5. \A q \in Prop : y.age[q] = IF q = p THEN n ELSE x.age[q]
  BY <1>3
<1>6. ChangeStep(l, m)
  BY <1>2, <1>4, <1>5 DEF ChangeStep
<1> QED BY <1>6

LEMMA ModifyPrompted ==
  ASSUME Sound, Sound', Prompted, NEW l \in Link, NEW p \in Prop, Modify(l, p)
  PROVE  Prompted'
BY ModifyIsChange, ChangePrompted DEF Sound

LEMMA RaiseEventIsChange ==
  ASSUME TypeOK, NEW l \in Link, RaiseEvent(l)
  PROVE  \E m : ChangeStep(l, m)
<1> DEFINE x == instance[l]
           n == x.rev + 1
           y == [id |-> x.id, gen |-> x.gen, rev |-> n, age |-> x.age]
           m == [type |-> "event", id |-> x.id, gen |-> x.gen, rev |-> n]
<1>1. TypeOK
  OBVIOUS
<1>2. /\ x \in Instance /\ y \in Instance /\ m \in Notification
      /\ instance' = [instance EXCEPT ![l] = y]
      /\ Notify(x.id, m) /\ Live(l)
      /\ UNCHANGED <<put, resourceCounter, restarts, serverSession, toServer, sessionVars,
                    clientVars, notificationQueue>>
  BY <1>1, RaiseEventChanges
<1>3. instance \in [Link -> Instance \cup {Absent}]
  BY <1>1 DEF TypeOK
<1>4. /\ instance'[l] = y
      /\ \A k \in Link : k # l => instance'[k] = instance[k]
  BY <1>2, <1>3
<1>5. ChangeStep(l, m)
  BY <1>2, <1>4 DEF ChangeStep
<1> QED BY <1>5

LEMMA RaiseEventPrompted ==
  ASSUME Sound, Sound', Prompted, NEW l \in Link, RaiseEvent(l)
  PROVE  Prompted'
BY RaiseEventIsChange, ChangePrompted DEF Sound

-----------------------------------------------------------------------------
(* Resources come and go.                                                  *)

(* The resource of k is new: nothing there is, is of its generation.       *)
Newcomer(k) ==
    /\ \A q \in Prop : instance'[k].age[q] <= instance'[k].rev
    /\ instance'[k].id \notin subscriptions
    /\ \A n \in DOMAIN toClient : Carries(n) => toClient[n].gen # instance'[k].gen
    /\ \A n \in DOMAIN notificationQueue : notificationQueue[n].gen # instance'[k].gen
    /\ \A o \in Obj : Used(o) => proxy[o].gen # instance'[k].gen

ResourcesStep ==
    /\ UNCHANGED <<subscriptions, querying, toServer, toClient, clientVars, notificationQueue>>
    /\ \A k \in Link : put[k] <= put'[k]
    /\ \A k \in Link : instance'[k] # Absent => instance'[k] = instance[k] \/ Newcomer(k)

LEMMA ResourcesPrompted ==
  ASSUME Sound, Sound', Prompted, ResourcesStep, OneName'
  PROVE  Prompted'
<1>1. TypeOK /\ TypeOK' /\ UsedWhereNamed
  BY DEF Sound
<1>2. /\ UNCHANGED <<subscriptions, querying, toServer, toClient, clientVars, notificationQueue>>
      /\ \A k \in Link : Live(k)' => (instance'[k] = instance[k] /\ Live(k)) \/ Newcomer(k)
  BY DEF ResourcesStep, Live
<1>3. /\ \A k \in DOMAIN toClient : IsAnswer(k)' <=> IsAnswer(k)
      /\ \A k \in DOMAIN toClient : Carries(k)' <=> Carries(k)
      /\ \A k \in DOMAIN toClient : IsNotification(k)' <=> IsNotification(k)
  BY <1>2 DEF IsAnswer, IsNotification, Carries
<1>4. \A k \in Link, n \in DOMAIN toClient :
          Live(k)' /\ About(n, k)' => instance'[k] = instance[k] /\ Live(k) /\ About(n, k)
  BY <1>2, <1>3 DEF About, Newcomer
<1>5. \A k \in Link, n \in DOMAIN notificationQueue :
          Live(k)' /\ QueuedAbout(n, k)' => instance'[k] = instance[k] /\ Live(k) /\ QueuedAbout(n, k)
  BY <1>2 DEF QueuedAbout, Newcomer
<1>6. \A k \in Link, o \in Obj : Live(k)' /\ Used(o) /\ proxy[o].gen = instance'[k].gen =>
          instance'[k] = instance[k] /\ Live(k)
  BY <1>2 DEF Newcomer
<1>7. ReattachFits' /\ HeldWhereNamed' /\ decoding' = {}
  <2>1. Kept(0) /\ NoNews(0)
    BY <1>1, <1>2, NothingReceived
  <2> QED BY <1>1, <1>2, <2>1, NothingAsked, SameFits, SameHeld DEF Prompted
<1>8. ProxiesTrue'
  <2>1. ASSUME NEW o \in Obj, Used(o)
        PROVE  proxy[o].gen[2] <= put'[proxy[o].link]
    <3>1. proxy[o].link \in Link /\ proxy[o].gen[2] \in Nat
      BY <1>1, <2>1, ProxyFacts DEF Generation
    <3>2. proxy[o].gen[2] <= put[proxy[o].link] /\ put[proxy[o].link] <= put'[proxy[o].link]
      BY <2>1, <3>1 DEF Prompted, ProxiesTrue, ResourcesStep
    <3>3. put[proxy[o].link] \in Nat /\ put'[proxy[o].link] \in Nat
      <4>1. put \in [Link -> 0 .. MaxGeneration] /\ put' \in [Link -> 0 .. MaxGeneration]
        BY <1>1 DEF TypeOK
      <4> QED BY <3>1, <4>1
    <3> QED BY <3>1, <3>2, <3>3
  <2>2. ASSUME NEW o \in Obj, Used(o), NEW k \in Link, Live(k)', instance'[k].gen = proxy[o].gen
        PROVE  proxy[o].id = instance'[k].id
    BY <1>6, <2>2 DEF Prompted, ProxiesTrue
  <2> QED BY <1>2, <2>1, <2>2 DEF Prompted, ProxiesTrue, Used
<1>9. Routed'
  <2>1. \A i, n : Announced(i, n) => Announced(i, n)'
    BY <1>2, <1>3 DEF Announced
  <2>2. \A i, g : Settled(i, g) => Settled(i, g)'
    BY <1>2 DEF Settled
  <2>3. \A k \in DOMAIN notificationQueue' :
            Settled(notificationQueue[k].id, notificationQueue[k].gen)'
    BY <1>2, <2>2 DEF Prompted, Routed, Settled
  <2>4. \A k \in DOMAIN toClient' : IsNotification(k)' =>
            Announced(toClient[k].id, k)' \/ Settled(toClient[k].id, toClient[k].gen)'
    BY <1>2, <1>3 DEF Prompted, Routed, Settled, Announced
  <2>5. ASSUME NEW k \in Link, Live(k)', instance'[k].id \in subscriptions'
        PROVE  \/ Announced(instance[k].id, Len(toClient))'
               \/ Settled(instance[k].id, instance[k].gen)'
    <3>1. instance'[k] = instance[k] /\ Live(k)
      BY <1>2, <2>5 DEF Newcomer
    <3>2. \/ Announced(instance[k].id, Len(toClient))
          \/ Settled(instance[k].id, instance[k].gen)
      BY <1>2, <2>5, <3>1 DEF Prompted, Routed
    <3> QED BY <1>2, <1>3, <3>1, <3>2 DEF Announced, Settled
  <2> QED BY <2>3, <2>4, <2>5 DEF Routed
<1>10. InOrder' /\ RevisionsInOrder'
  <2>1. \A k \in Link : Live(k)' => \A q \in Prop : instance'[k].age[q] <= instance'[k].rev
    BY <1>2 DEF Newcomer, Prompted, InOrder
  <2>2. InOrder'
    BY <1>2, <1>4, <1>5, <2>1 DEF Prompted, InOrder
  <2>3. RevisionsInOrder'
    BY <1>2, <1>3 DEF Prompted, RevisionsInOrder
  <2> QED BY <2>2, <2>3
<1>11. AnswersComplete'
  <2>1. ASSUME NEW n \in DOMAIN toClient, IsAnswer(n), NEW k \in Link, Live(k)', About(n, k)'
        PROVE  Brings(toClient[n], k)'
    BY <1>2, <1>4, <2>1 DEF Prompted, AnswersComplete, Brings
  <2> QED BY <1>2, <1>3, <2>1 DEF Prompted, AnswersComplete
<1>12. ASSUME NEW k \in Link, instance'[k] = instance[k]
       PROVE  /\ \A i, n, q : Comes(i, n, k, q) => Comes(i, n, k, q)'
              /\ \A n, q : Queued(n, k, q) => Queued(n, k, q)'
  BY <1>2, <1>12 DEF Comes, Queued, IsChange, IsAnswer, IsNotification, Carries, About
<1>13. ChangesFollowAnswers'
  <2> SUFFICES ASSUME NEW k \in Link, Live(k)', NEW j \in DOMAIN toClient',
                      (IsAnswer(j) /\ About(j, k))', NEW q \in Prop,
                      instance'[k].age[q] > toClient'[j].rev
               PROVE  /\ instance'[k].id \in subscriptions' => Comes(j, Len(toClient), k, q)'
                      /\ \A n \in DOMAIN toClient' :
                            j < n /\ About(n, k)' /\ instance'[k].age[q] <= toClient'[n].rev =>
                               Comes(j, n, k, q)'
    BY DEF ChangesFollowAnswers
  <2>1. instance'[k] = instance[k] /\ Live(k) /\ About(j, k) /\ IsAnswer(j) /\ j \in DOMAIN toClient
    BY <1>2, <1>3, <1>4
  <2>2. /\ instance[k].id \in subscriptions => Comes(j, Len(toClient), k, q)
        /\ \A n \in DOMAIN toClient :
              j < n /\ About(n, k) /\ instance[k].age[q] <= toClient[n].rev => Comes(j, n, k, q)
    BY <1>2, <2>1 DEF Prompted, ChangesFollowAnswers
  <2>3. Comes(j, Len(toClient), k, q) => Comes(j, Len(toClient), k, q)'
    BY <1>2, <1>12, <2>1 DEF Comes
  <2> QED BY <1>2, <1>4, <1>12, <2>1, <2>2, <2>3
<1>14. ChangesFollowCursor'
  <2> SUFFICES ASSUME NEW k \in Link, Live(k)',
                      attachedResources'[instance'[k].id] # None,
                      proxy'[attachedResources'[instance'[k].id]].gen = instance'[k].gen,
                      NEW q \in Prop,
                      instance'[k].age[q] > proxy'[attachedResources'[instance'[k].id]].rev
               PROVE  /\ instance'[k].id \in subscriptions' =>
                            \/ Comes(0, Len(toClient), k, q)'
                            \/ Queued(Len(notificationQueue), k, q)'
                      /\ \A n \in DOMAIN toClient' :
                            About(n, k)' /\ instance'[k].age[q] <= toClient'[n].rev =>
                               \/ Comes(0, n, k, q)'
                               \/ Queued(Len(notificationQueue), k, q)'
                      /\ \A n \in DOMAIN notificationQueue' :
                            QueuedAbout(n, k)' /\ instance'[k].age[q] <= notificationQueue'[n].rev =>
                               Queued(n, k, q)'
    BY Zenon DEF ChangesFollowCursor
  <2>1. instance'[k] = instance[k] /\ Live(k)
    <3>0. instance'[k] \in Instance
      BY <1>1 DEF TypeOK, Live
    <3>1. instance'[k].id \in Id
      BY <3>0, InstanceType
    <3>2. attachedResources[instance'[k].id] \in Obj /\ Used(attachedResources[instance'[k].id])
      BY <1>1, <1>2, <3>1, ProxyFacts
    <3> QED BY <1>2, <1>6, <3>2
  <2>2. /\ instance[k].id \in subscriptions =>
              Comes(0, Len(toClient), k, q) \/ Queued(Len(notificationQueue), k, q)
        /\ \A n \in DOMAIN toClient :
              About(n, k) /\ instance[k].age[q] <= toClient[n].rev =>
                  Comes(0, n, k, q) \/ Queued(Len(notificationQueue), k, q)
        /\ \A n \in DOMAIN notificationQueue :
              QueuedAbout(n, k) /\ instance[k].age[q] <= notificationQueue[n].rev => Queued(n, k, q)
    BY <1>2, <2>1 DEF Prompted, ChangesFollowCursor
  <2>3. /\ Comes(0, Len(toClient), k, q) => Comes(0, Len(toClient), k, q)'
        /\ Queued(Len(notificationQueue), k, q) => Queued(Len(notificationQueue), k, q)'
    BY <1>2, <1>12, <2>1 DEF Comes, Queued
  <2>4. \A n \in DOMAIN notificationQueue : QueuedAbout(n, k)' <=> QueuedAbout(n, k)
    BY <1>2, <2>1 DEF QueuedAbout
  <2> QED BY <1>2, <1>4, <1>12, <2>1, <2>2, <2>3, <2>4
<1>15. AllCovered'
  <2> SUFFICES ASSUME NEW o \in Obj, Used(o), instance'[proxy[o].link] # Absent,
                      proxy[o].gen = instance'[proxy[o].link].gen
               PROVE  instance'[proxy[o].link] = instance[proxy[o].link]
    BY <1>2 DEF Prompted, AllCovered, CursorCovered, Used, Live
  <2>1. proxy[o].link \in Link
    BY <1>1, ProxyFacts
  <2> QED BY <1>6, <2>1 DEF Live
<1> QED BY <1>7, <1>8, <1>9, <1>10, <1>11, <1>13, <1>14, <1>15 DEF Prompted

LEMMA RemovePrompted ==
  ASSUME Sound, Sound', Prompted, NEW l \in Link, Remove(l)
  PROVE  Prompted'
<1>1. TypeOK /\ instance' = [instance EXCEPT ![l] = Absent]
      /\ UNCHANGED <<put, resourceCounter, restarts, serverSession, toServer, toClient,
                     sessionVars, clientVars, notificationQueue>>
  BY DEF Sound, Remove
<1>2. instance \in [Link -> Instance \cup {Absent}]
  BY <1>1 DEF TypeOK
<1>3. \A k \in Link : instance'[k] # Absent => instance'[k] = instance[k]
  BY <1>1, <1>2
<1>4. OneName'
  <2>1. \A i \in Id, g \in Generation : Named(i, g)' => Named(i, g)
    BY <1>1, <1>3 DEF Named, Live, Carries, IsAnswer, IsNotification
  <2> QED BY <1>1, <1>3, <2>1 DEF Prompted, OneName, Live, IsAnswer
<1>5. ResourcesStep
  <2>1. \A k \in Link : put[k] <= put'[k]
    BY <1>1 DEF TypeOK
  <2> QED BY <1>1, <1>3, <2>1 DEF ResourcesStep
<1> QED BY <1>4, <1>5, ResourcesPrompted

LEMMA PutPrompted ==
  ASSUME Sound, Sound', Prompted, NEW l \in Link, Put(l)
  PROVE  Prompted'
<1> DEFINE g == <<l, put[l] + 1>>
           x == [id |-> resourceCounter + 1, gen |-> g, rev |-> 0, age |-> [p \in Prop |-> 0]]
<1>1. TypeOK /\ TypeOK' /\ OneName /\ ProxiesTrue /\ UsedWhereNamed
  BY DEF Sound, Prompted
<1>2. /\ resourceCounter' = resourceCounter + 1 /\ put' = [put EXCEPT ![l] = @ + 1]
      /\ instance' = [instance EXCEPT ![l] = x]
      /\ UNCHANGED <<restarts, serverSession, toServer, toClient, sessionVars, clientVars,
                     notificationQueue>>
  BY <1>1 DEF Put, TypeOK
<1>3. /\ instance \in [Link -> Instance \cup {Absent}] /\ put \in [Link -> 0 .. MaxGeneration]
      /\ resourceCounter \in Nat /\ \A k \in Link : put[k] \in Nat
  <2>1. put \in [Link -> 0 .. MaxGeneration]
    BY <1>1 DEF TypeOK
  <2>2. \A k \in Link : put[k] \in Nat
    BY <2>1
  <2>3. instance \in [Link -> Instance \cup {Absent}] /\ resourceCounter \in 0 .. MaxId
    BY <1>1 DEF TypeOK
  <2> QED BY <2>1, <2>2, <2>3
<1>4. /\ instance'[l] = x /\ \A k \in Link : k # l => instance'[k] = instance[k]
      /\ put'[l] = put[l] + 1 /\ \A k \in Link : k # l => put'[k] = put[k]
  BY <1>2, <1>3
(* What there is, has smaller numbers.                                   *)
<1>5. \A i \in Id, h \in Generation : Named(i, h) => i # resourceCounter + 1 /\ h # g
  <2>1. \A i \in Id, h \in Generation : Named(i, h) => i <= resourceCounter /\ h[2] <= put[h[1]]
    BY <1>1 DEF OneName
  <2>2. g[1] = l /\ g[2] = put[l] + 1 /\ put[l] \in Nat
    BY <1>3
  <2> QED BY <1>3, <2>1, <2>2
<1>6. \A o \in Obj : Used(o) => proxy[o].gen # g
  <2>1. g[1] = l /\ g[2] = put[l] + 1 /\ put[l] \in Nat
    BY <1>3
  <2> QED BY <1>1, <2>1 DEF ProxiesTrue
<1>7. Newcomer(l)
  <2>1. \A n \in DOMAIN toClient : Carries(n) => toClient[n].gen # g
    BY <1>1, <1>5, MessageFacts DEF Named
  <2>2. \A n \in DOMAIN notificationQueue : notificationQueue[n].gen # g
    BY <1>1, <1>5, QueueFacts DEF Named
  <2>3. resourceCounter + 1 \notin subscriptions
    BY <1>1, <1>3 DEF OneName
  <2> QED BY <1>4, <1>6, <2>1, <2>2, <2>3 DEF Newcomer
<1>8. ResourcesStep
  <2>1. \A k \in Link : put[k] <= put'[k]
    BY <1>3, <1>4
  <2> QED BY <1>2, <1>4, <1>7, <2>1 DEF ResourcesStep
<1>9. OneName'
  <2>1. \A i \in Id, h \in Generation :
            Named(i, h)' => Named(i, h) \/ (i = resourceCounter + 1 /\ h = g)
    BY <1>2, <1>4 DEF Named, Live, Carries, IsAnswer, IsNotification
  <2>2. \A i, j \in Id, h, e \in Generation : (Named(i, h) /\ Named(j, e))' => (i = j <=> h = e)
    BY <1>1, <1>5, <2>1 DEF OneName
  <2>3. ASSUME NEW i \in Id, NEW h \in Generation, Named(i, h)'
        PROVE  i <= resourceCounter' /\ h[2] <= put'[h[1]]
    <3>1. CASE Named(i, h)
      <4>1. i <= resourceCounter /\ h[2] <= put[h[1]] /\ h[1] \in Link /\ h[2] \in Nat /\ i \in Nat
        BY <1>1, <3>1 DEF OneName, Generation, Id
      <4> QED BY <1>2, <1>3, <1>4, <4>1
    <3>2. CASE i = resourceCounter + 1 /\ h = g
      <4>1. g[1] = l /\ g[2] = put[l] + 1 /\ put[l] \in Nat
        BY <1>3
      <4> QED BY <1>2, <1>3, <1>4, <3>2, <4>1
    <3> QED BY <2>1, <2>3, <3>1, <3>2
  <2>4. \A k \in Link : Live(k)' => instance'[k].gen[1] = k
    BY <1>1, <1>4 DEF OneName, Live
  <2>5. \A k \in DOMAIN toClient' : IsAnswer(k)' => toClient'[k].gen[1] = toClient'[k].link
    BY <1>1, <1>2 DEF OneName, IsAnswer
  <2>6. \A i \in subscriptions' : i <= resourceCounter'
    BY <1>1, <1>2, <1>3 DEF OneName, TypeOK, Id
  <2> QED BY <2>2, <2>3, <2>4, <2>5, <2>6 DEF OneName
<1> QED BY <1>8, <1>9, ResourcesPrompted

-----------------------------------------------------------------------------
(* The server answers an attach or a reattach.                             *)

(* m is the answer about the resource of l, to the reattach that is        *)
(* querying if it is of that type.                                         *)
AnswerStep(l, m) ==
    /\ Live(l) /\ m \in Answer
    /\ m.id = instance[l].id /\ m.gen = instance[l].gen
    /\ m.link = l /\ m.rev = instance[l].rev
    /\ \A q \in DOMAIN m.values : m.values[q] = instance[l].age[q]
    /\ \/ m.type = "attached" /\ DOMAIN m.values = Prop /\ querying' = querying
       \/ /\ m.type = "reattached" /\ querying # None /\ querying' = None
          /\ querying.link = l
          /\ querying.gen # m.gen => DOMAIN m.values = Prop
          /\ querying.gen = m.gen => \A q \in Prop :
                q \notin DOMAIN m.values => instance[l].age[q] <= querying.rev
    /\ toClient' = Append(toClient, m)
    /\ subscriptions' = subscriptions \cup {m.id}
    /\ UNCHANGED <<serverVars, toServer, sessionVars, clientVars, notificationQueue>>

LEMMA AnswerView ==
  ASSUME Sound, Sound', Prompted, NEW l \in Link, NEW m, AnswerStep(l, m)
  PROVE  /\ Kept(0) /\ m.type \in AnswerTypes
         /\ Len(toClient) \in Nat /\ Len(toClient') = Len(toClient) + 1
         /\ Len(toClient') \in DOMAIN toClient' /\ toClient'[Len(toClient')] = m
         /\ \A k \in DOMAIN toClient : k \in DOMAIN toClient' /\ toClient'[k] = toClient[k]
                                       /\ k \in Nat /\ k < Len(toClient')
         /\ \A k \in DOMAIN toClient' : k \in DOMAIN toClient \/ k = Len(toClient')
         /\ \A k \in DOMAIN toClient : /\ IsAnswer(k)' <=> IsAnswer(k)
                                       /\ IsNotification(k)' <=> IsNotification(k)
                                       /\ Carries(k)' <=> Carries(k)
                                       /\ \A n \in Link : About(k, n)' <=> About(k, n)
         /\ \A k \in Link : Live(k) => (instance[k].gen = m.gen <=> k = l)
         /\ \A k \in Link : Live(k) => (instance[k].id = m.id <=> k = l)
         /\ m.id \in Id /\ m.gen \in Generation /\ m.rev \in Nat
<1>1. TypeOK /\ TypeOK' /\ OneName
  BY DEF Sound, Prompted
<1>2. toClient' = Append(toClient, m) /\ m.type \in AnswerTypes /\ UNCHANGED instance
      /\ m.id \in Id /\ m.gen \in Generation /\ m.rev \in Nat
  BY DEF AnswerStep, AnswerTypes, Answer, Revision
<1>3. /\ Kept(0) /\ Len(toClient) \in Nat /\ Len(toClient') = Len(toClient) + 1
      /\ Len(toClient') \in DOMAIN toClient' /\ toClient'[Len(toClient')] = m
      /\ \A k \in DOMAIN toClient : k \in DOMAIN toClient' /\ toClient'[k] = toClient[k]
                                    /\ k \in Nat /\ k < Len(toClient')
      /\ \A k \in DOMAIN toClient' : k \in DOMAIN toClient \/ k = Len(toClient')
  BY <1>1, <1>2, AppendKeeps, Lengths
<1>4. \A k \in DOMAIN toClient : /\ IsAnswer(k)' <=> IsAnswer(k)
                                 /\ IsNotification(k)' <=> IsNotification(k)
                                 /\ Carries(k)' <=> Carries(k)
                                 /\ \A n \in Link : About(k, n)' <=> About(k, n)
  BY <1>2, <1>3 DEF IsAnswer, IsNotification, Carries, About
<1>5. \A k \in Link : Live(k) => (instance[k].gen = m.gen <=> k = l)
  BY <1>1 DEF OneName, AnswerStep
<1>6. ASSUME NEW k \in Link, Live(k), instance[k].id = m.id PROVE k = l
  <2>1. Named(m.id, instance[k].gen) /\ Named(m.id, m.gen)
    BY <1>6 DEF Named, AnswerStep
  <2>2. instance[k].gen \in Generation
    BY <1>1, <1>6, InstanceFacts
  <2>3. instance[k].gen = m.gen
    BY <1>1, <1>2, <2>1, <2>2 DEF OneName
  <2> QED BY <1>5, <1>6, <2>3
<1> QED BY <1>2, <1>3, <1>4, <1>5, <1>6 DEF AnswerStep

LEMMA AnswerFits ==
  ASSUME Sound, Sound', Prompted, NEW l \in Link, NEW m, AnswerStep(l, m)
  PROVE  ReattachFits' /\ HeldWhereNamed' /\ decoding' = {}
<1>1. TypeOK /\ TypeOK' /\ UsedWhereNamed
  BY DEF Sound
<1>2. /\ Live(l) /\ m.gen = instance[l].gen /\ m.link = l /\ m.rev = instance[l].rev
      /\ toClient' = Append(toClient, m)
      /\ UNCHANGED <<serverVars, toServer, sessionVars, clientVars, notificationQueue>>
  BY DEF AnswerStep
<1>3. /\ \A k \in DOMAIN toClient : k \in DOMAIN toClient' /\ toClient'[k] = toClient[k]
      /\ \A k \in DOMAIN toClient' : k \in DOMAIN toClient \/ toClient'[k] = m
  BY AnswerView
<1>4. HeldWhereNamed' /\ decoding' = {}
  BY <1>1, <1>2, SameHeld DEF Prompted
<1>5. CASE m.type = "attached" /\ querying' = querying
  <2>1. \A k \in Answered' : k \in Answered /\ toClient'[k] = toClient[k]
    BY <1>3, <1>5 DEF Answered, OutcomeTypes
  <2>2. \A k \in Asked' : \E j \in Asked : toServer'[k] = toServer[j]
    BY <1>1, <1>2, NothingAsked
  <2> QED BY <1>2, <1>4, <1>5, <2>1, <2>2, FitsStill DEF Prompted
<1>6. CASE /\ m.type = "reattached" /\ querying # None /\ querying' = None
           /\ querying.link = l
           /\ querying.gen # m.gen => DOMAIN m.values = Prop
  <2>1. Asked = {} /\ Answered = {} /\ reattaching # None
    BY <1>6 DEF Sound, OneReattach
  <2>2. Asked' = {} /\ \A k \in Answered' : toClient'[k] = m
    BY <1>2, <1>3, <2>1 DEF Asked, Answered
  <2>3. reattaching \in Obj /\ Used(reattaching)
    BY <1>1, <2>1, ProxyFacts
  <2>4. AsksFor(proxy[reattaching], querying)
    BY <1>6 DEF Prompted, ReattachFits
  <2>5. /\ m.link = proxy[reattaching].link
        /\ proxy[reattaching].gen # m.gen => DOMAIN m.values = Prop
    BY <1>2, <1>6, <2>4 DEF AsksFor
  <2>6. proxy[reattaching].gen = m.gen => proxy[reattaching].rev <= m.rev
    BY <1>2, <2>3, <2>5 DEF Prompted, AllCovered, CursorCovered
  <2>7. ReattachFits'
    BY <1>2, <1>6, <2>2, <2>5, <2>6 DEF ReattachFits
  <2> QED BY <1>4, <2>7
<1> QED BY <1>5, <1>6 DEF AnswerStep

LEMMA AnswerNames ==
  ASSUME Sound, Sound', Prompted, NEW l \in Link, NEW m, AnswerStep(l, m)
  PROVE  OneName' /\ ProxiesTrue' /\ Routed'
<1>1. TypeOK /\ TypeOK' /\ OneName /\ ProxiesTrue /\ Routed
  BY DEF Sound, Prompted
<1>2. /\ Live(l) /\ m.id = instance[l].id /\ m.gen = instance[l].gen /\ m.link = l
      /\ subscriptions' = subscriptions \cup {m.id}
      /\ UNCHANGED <<serverVars, toServer, sessionVars, clientVars, notificationQueue>>
  BY DEF AnswerStep
<1>3. /\ Kept(0) /\ m.type \in AnswerTypes
      /\ Len(toClient) \in Nat /\ Len(toClient') = Len(toClient) + 1
      /\ Len(toClient') \in DOMAIN toClient' /\ toClient'[Len(toClient')] = m
      /\ \A k \in DOMAIN toClient : k \in DOMAIN toClient' /\ toClient'[k] = toClient[k]
                                    /\ k \in Nat
      /\ \A k \in DOMAIN toClient' : k \in DOMAIN toClient \/ k = Len(toClient')
      /\ \A k \in DOMAIN toClient : /\ IsAnswer(k)' <=> IsAnswer(k)
                                    /\ IsNotification(k)' <=> IsNotification(k)
                                    /\ Carries(k)' <=> Carries(k)
      /\ \A k \in Link : Live(k) => (instance[k].id = m.id <=> k = l)
      /\ m.id \in Id /\ m.gen \in Generation
  BY AnswerView
<1>4. OneName'
  <2>1. \A i \in Id, g \in Generation : Named(i, g)' => Named(i, g)
    <3> SUFFICES ASSUME NEW i \in Id, NEW g \in Generation, Named(i, g)'
                 PROVE  Named(i, g)
      OBVIOUS
    <3>1. ASSUME NEW k \in DOMAIN toClient', Carries(k)', toClient'[k].id = i, toClient'[k].gen = g
          PROVE  Named(i, g)
      BY <1>2, <1>3, <3>1 DEF Named
    <3>2. ASSUME NEW k \in Link, Live(k)', instance'[k].id = i, instance'[k].gen = g
          PROVE  Named(i, g)
      BY <1>2, <3>2 DEF Named, Live
    <3> QED BY <1>2, <3>1, <3>2 DEF Named
  <2>2. \A i, j \in Id, g, h \in Generation : (Named(i, g) /\ Named(j, h))' => (i = j <=> g = h)
    BY <1>1, <2>1 DEF OneName
  <2>3. \A i \in Id, g \in Generation : Named(i, g)' => i <= resourceCounter' /\ g[2] <= put'[g[1]]
    BY <1>1, <1>2, <2>1 DEF OneName
  <2>4. \A k \in Link : Live(k)' => instance'[k].gen[1] = k
    BY <1>1, <1>2 DEF OneName, Live
  <2>5. \A k \in DOMAIN toClient' : IsAnswer(k)' => toClient'[k].gen[1] = toClient'[k].link
    BY <1>1, <1>2, <1>3 DEF OneName
  <2>6. m.id <= resourceCounter
    BY <1>1, <1>2, <1>3 DEF OneName, Named
  <2>7. \A i \in subscriptions' : i <= resourceCounter'
    BY <1>1, <1>2, <2>6 DEF OneName
  <2> QED BY <2>2, <2>3, <2>4, <2>5, <2>7 DEF OneName
<1>5. ProxiesTrue'
  BY <1>1, <1>2 DEF ProxiesTrue, Used, Live
<1>6. Routed'
  <2>1. \A i, g : Settled(i, g) => Settled(i, g)'
    BY <1>2 DEF Settled
  <2>2. \A k \in DOMAIN notificationQueue' :
            Settled(notificationQueue[k].id, notificationQueue[k].gen)'
    BY <1>1, <1>2, <2>1 DEF Routed, Settled
  <2>3. ASSUME NEW i, NEW n \in Nat, NEW o \in Nat, n <= o, Announced(i, n)
        PROVE  Announced(i, o)'
    BY <1>1, <1>3, <2>3, AnnouncedStill
  <2>4. ASSUME NEW k \in DOMAIN toClient', IsNotification(k)'
        PROVE  Announced(toClient[k].id, k)' \/ Settled(toClient[k].id, toClient[k].gen)'
    <3>1. k \in DOMAIN toClient /\ toClient'[k] = toClient[k] /\ IsNotification(k) /\ k \in Nat
      BY <1>3, <2>4 DEF IsNotification, AnswerTypes, NotificationTypes
    <3>2. \/ Announced(toClient[k].id, k)
          \/ Settled(toClient[k].id, toClient[k].gen)
      BY <1>1, <3>1 DEF Routed
    <3>3. CASE Announced(toClient[k].id, k)
      <4>1. PICK i \in {toClient[k].id} : Announced(i, k)
        BY <3>3
      <4>2. Announced(i, k)'
        BY <2>3, <3>1, <4>1
      <4> QED BY <3>1, <4>1, <4>2 DEF Announced
    <3>4. CASE Settled(toClient[k].id, toClient[k].gen)
      BY <1>2, <3>1, <3>4 DEF Settled
    <3> QED BY <3>2, <3>3, <3>4
  <2>5. ASSUME NEW k \in Link, Live(k)', instance'[k].id \in subscriptions'
        PROVE  \/ Announced(instance[k].id, Len(toClient))'
               \/ Settled(instance[k].id, instance[k].gen)'
    <3>1. Live(k) /\ instance'[k] = instance[k]
      BY <1>2, <2>5 DEF Live
    <3>2. CASE instance[k].id = m.id
      <4>1. IsAnswer(Len(toClient))' /\ Len(toClient') \in 1 .. Len(toClient')
        BY <1>3 DEF IsAnswer
      <4> QED BY <1>3, <3>1, <3>2, <4>1 DEF Announced
    <3>3. CASE instance[k].id \in subscriptions
      <4>1. \/ Announced(instance[k].id, Len(toClient))
            \/ Settled(instance[k].id, instance[k].gen)
        BY <1>1, <3>1, <3>3 DEF Routed
      <4>2. CASE Announced(instance[k].id, Len(toClient))
        <5>1. PICK i \in {instance[k].id}, n \in Nat : n = Len(toClient')
          BY <1>3
        <5>2. Announced(i, n)'
          BY <1>3, <2>3, <4>2, <5>1
        <5> QED BY <3>1, <5>1, <5>2 DEF Announced
      <4>3. CASE Settled(instance[k].id, instance[k].gen)
        BY <1>2, <3>1, <4>3 DEF Settled
      <4> QED BY <4>1, <4>2, <4>3
    <3> QED BY <1>2, <2>5, <3>1, <3>2, <3>3
  <2> QED BY <2>2, <2>4, <2>5 DEF Routed
<1> QED BY <1>4, <1>5, <1>6

LEMMA AnswerAnswers ==
  ASSUME Sound, Sound', Prompted, NEW l \in Link, NEW m, AnswerStep(l, m)
  PROVE  InOrder' /\ RevisionsInOrder' /\ AnswersComplete' /\ AllCovered'
<1>1. TypeOK /\ TypeOK' /\ InOrder /\ RevisionsInOrder /\ UsedWhereNamed
  BY DEF Sound, Prompted
<1>2. /\ Live(l) /\ m.gen = instance[l].gen /\ m.link = l /\ m.rev = instance[l].rev
      /\ UNCHANGED <<serverVars, toServer, sessionVars, clientVars, notificationQueue>>
      /\ \A k : Live(k)' <=> Live(k)
      /\ \A k, n : QueuedAbout(k, n)' <=> QueuedAbout(k, n)
  BY DEF AnswerStep, Live, QueuedAbout
<1>3. /\ m.type \in AnswerTypes
      /\ toClient'[Len(toClient')] = m
      /\ \A k \in DOMAIN toClient : k \in DOMAIN toClient' /\ toClient'[k] = toClient[k]
                                    /\ k < Len(toClient') /\ k \in Nat
      /\ \A k \in DOMAIN toClient' : k \in DOMAIN toClient \/ k = Len(toClient')
      /\ \A k \in DOMAIN toClient : /\ IsAnswer(k)' <=> IsAnswer(k)
                                    /\ Carries(k)' <=> Carries(k)
                                    /\ \A n \in Link : About(k, n)' <=> About(k, n)
      /\ \A k \in Link : Live(k) => (instance[k].gen = m.gen <=> k = l)
      /\ m.rev \in Nat /\ Len(toClient') \in Nat
  BY AnswerView
<1>4. \A k \in Link : About(Len(toClient), k)' /\ Live(k) => k = l
  BY <1>2, <1>3 DEF About
<1>5. \A q \in Prop : instance[l].age[q] <= instance[l].rev
  BY <1>1, <1>2 DEF InOrder
<1>6. m \in Answer /\ DOMAIN m.values \subseteq Prop
  <2>1. m \in Answer /\ m.values \in Values
    BY DEF AnswerStep, Answer
  <2> QED BY <2>1, ValuesType
<1>7. InOrder'
  <2> SUFFICES ASSUME NEW k \in Link, Live(k)'
               PROVE  /\ \A q \in Prop : instance'[k].age[q] <= instance'[k].rev
                      /\ \A n \in DOMAIN toClient' :
                            About(n, k)' => toClient'[n].rev <= instance'[k].rev
                      /\ \A n \in DOMAIN notificationQueue' : QueuedAbout(n, k)' =>
                            notificationQueue'[n].rev <= instance'[k].rev
                      /\ \A n \in DOMAIN toClient' :
                            toClient'[n].type = "property" /\ About(n, k)' =>
                               toClient'[n].rev <= instance'[k].age[toClient'[n].prop]
                      /\ \A n \in DOMAIN notificationQueue' :
                            notificationQueue'[n].type = "property" /\ QueuedAbout(n, k)' =>
                               notificationQueue'[n].rev
                                  <= instance'[k].age[notificationQueue'[n].prop]
    BY Zenon DEF InOrder
  <2>1. /\ Live(k) /\ instance' = instance /\ notificationQueue' = notificationQueue
        /\ instance[k].rev \in Nat
    BY <1>1, <1>2, InstanceFacts
  <2>2. ASSUME NEW n \in DOMAIN toClient', About(n, k)'
        PROVE  /\ toClient'[n].rev <= instance'[k].rev
               /\ toClient'[n].type = "property" =>
                     toClient'[n].rev <= instance'[k].age[toClient'[n].prop]
    <3>1. CASE n \in DOMAIN toClient
      BY <1>1, <1>3, <2>1, <2>2, <3>1 DEF InOrder
    <3>2. CASE n = Len(toClient')
      <4>1. k = l /\ toClient'[n] = m
        BY <1>3, <1>4, <2>1, <2>2, <3>2
      <4> QED BY <1>2, <1>3, <2>1, <4>1 DEF AnswerTypes
    <3> QED BY <1>3, <3>1, <3>2
  <2>3. /\ \A q \in Prop : instance[k].age[q] <= instance[k].rev
        /\ \A n \in DOMAIN notificationQueue : QueuedAbout(n, k) =>
              notificationQueue[n].rev <= instance[k].rev
        /\ \A n \in DOMAIN notificationQueue :
              notificationQueue[n].type = "property" /\ QueuedAbout(n, k) =>
                 notificationQueue[n].rev <= instance[k].age[notificationQueue[n].prop]
    BY <1>1, <2>1 DEF InOrder
  <2> QED BY <1>2, <2>1, <2>2, <2>3
<1>8. RevisionsInOrder'
  <2>1. ASSUME NEW j \in DOMAIN toClient', NEW k \in DOMAIN toClient',
               j < k, Carries(j)', Carries(k)', toClient'[j].gen = toClient'[k].gen
        PROVE  toClient'[j].rev <= toClient'[k].rev
    <3>1. j \in DOMAIN toClient
      BY <1>3, <2>1
    <3>2. CASE k \in DOMAIN toClient
      BY <1>1, <1>3, <2>1, <3>1, <3>2 DEF RevisionsInOrder
    <3>3. CASE k = Len(toClient')
      <4>1. About(j, l) /\ toClient'[j] = toClient[j] /\ toClient'[k] = m
        BY <1>2, <1>3, <2>1, <3>1, <3>3 DEF About
      <4> QED BY <1>1, <1>2, <3>1, <4>1 DEF InOrder
    <3> QED BY <1>3, <3>2, <3>3
  <2>2. ASSUME NEW j \in DOMAIN notificationQueue', NEW k \in DOMAIN toClient',
               Carries(k)', notificationQueue'[j].gen = toClient'[k].gen
        PROVE  notificationQueue'[j].rev <= toClient'[k].rev
    <3>1. j \in DOMAIN notificationQueue /\ notificationQueue' = notificationQueue
      BY <1>2
    <3>2. CASE k \in DOMAIN toClient
      BY <1>1, <1>3, <2>2, <3>1, <3>2 DEF RevisionsInOrder
    <3>3. CASE k = Len(toClient')
      <4>1. QueuedAbout(j, l) /\ toClient'[k] = m
        BY <1>2, <1>3, <2>2, <3>1, <3>3 DEF QueuedAbout
      <4> QED BY <1>1, <1>2, <3>1, <4>1 DEF InOrder
    <3> QED BY <1>3, <3>2, <3>3
  <2> QED BY <2>1, <2>2 DEF RevisionsInOrder
<1>9. AnswersComplete'
  <2>1. ASSUME NEW k \in DOMAIN toClient, IsAnswer(k)
        PROVE  /\ \A q \in DOMAIN toClient'[k].values : toClient'[k].values[q] <= toClient'[k].rev
               /\ \A n \in Link : (Live(n) /\ About(k, n))' => Brings(toClient[k], n)'
    BY <1>2, <1>3, <2>1 DEF Prompted, AnswersComplete, Brings
  <2>2. \A q \in DOMAIN m.values : m.values[q] <= m.rev
    BY <1>2, <1>5, <1>6 DEF AnswerStep
  <2>3. ASSUME NEW q \in Prop, q \notin DOMAIN m.values
        PROVE  /\ m.type = "reattached"
               /\ proxy[reattaching].cache[q] = [gen |-> m.gen, rev |-> instance[l].age[q]]
    <3>1. /\ m.type = "reattached" /\ querying # None /\ querying.link = l
          /\ querying.gen = m.gen /\ instance[l].age[q] <= querying.rev
      BY <2>3 DEF AnswerStep
    <3>2. AsksFor(proxy[reattaching], querying)
      BY <3>1 DEF Prompted, ReattachFits
    <3>3. reattaching \in Obj /\ Used(reattaching)
      BY <1>1, <3>1, ProxyFacts DEF Sound, OneReattach
    <3>4. instance[l].age[q] <= proxy[reattaching].rev
      <4>1. instance[l].age[q] \in Nat /\ proxy[reattaching].rev \in Nat
        BY <1>1, <1>2, <3>3, InstanceFacts, ProxyFacts
      <4>2. querying.rev \in Nat
        BY <1>1, <3>1 DEF TypeOK, ReattachRequest, Revision
      <4> QED BY <3>1, <3>2, <4>1, <4>2 DEF AsksFor
    <3>5. CursorCovered(reattaching)
      BY <3>3 DEF Prompted, AllCovered
    <3> QED BY <1>2, <3>1, <3>2, <3>4, <3>5 DEF CursorCovered, AsksFor
  <2>4. ASSUME NEW n \in Link, Live(n), About(Len(toClient), n)'
        PROVE  Brings(toClient[Len(toClient)], n)'
    <3>1. n = l
      BY <1>4, <2>4
    <3>2. \A q \in DOMAIN m.values : m.values[q] = instance[l].age[q]
      BY DEF AnswerStep
    <3> QED BY <1>2, <1>3, <2>3, <3>1, <3>2 DEF Brings
  <2> QED BY <1>2, <1>3, <2>1, <2>2, <2>4 DEF AnswersComplete
<1>10. AllCovered'
  BY <1>2 DEF Prompted, AllCovered, CursorCovered, Used
<1> QED BY <1>7, <1>8, <1>9, <1>10

LEMMA AnswerFollows ==
  ASSUME Sound, Sound', Prompted, NEW l \in Link, NEW m, AnswerStep(l, m)
  PROVE  ChangesFollowAnswers' /\ ChangesFollowCursor'
<1>1. TypeOK /\ TypeOK' /\ InOrder /\ UsedWhereNamed
  BY DEF Sound, Prompted
<1>2. /\ Live(l) /\ m.gen = instance[l].gen /\ m.rev = instance[l].rev
      /\ subscriptions' = subscriptions \cup {m.id}
      /\ UNCHANGED <<serverVars, toServer, sessionVars, clientVars, notificationQueue>>
      /\ \A k : Live(k)' <=> Live(k)
  BY DEF AnswerStep, Live
<1>3. /\ Kept(0) /\ m.type \in AnswerTypes
      /\ Len(toClient) \in Nat /\ Len(toClient') = Len(toClient) + 1
      /\ Len(toClient') \in DOMAIN toClient' /\ toClient'[Len(toClient')] = m
      /\ \A k \in DOMAIN toClient : k \in DOMAIN toClient' /\ toClient'[k] = toClient[k]
                                    /\ k < Len(toClient') /\ k \in Nat
      /\ \A k \in DOMAIN toClient' : k \in DOMAIN toClient \/ k = Len(toClient')
      /\ \A k \in DOMAIN toClient : /\ IsAnswer(k)' <=> IsAnswer(k)
                                    /\ \A n \in Link : About(k, n)' <=> About(k, n)
      /\ \A k \in Link : Live(k) => (instance[k].gen = m.gen <=> k = l)
      /\ \A k \in Link : Live(k) => (instance[k].id = m.id <=> k = l)
  BY AnswerView
<1>4. \A k \in Link : About(Len(toClient), k)' /\ Live(k) => k = l
  BY <1>2, <1>3 DEF About
<1>5. ASSUME NEW k \in Link, NEW q \in Prop, NEW i \in Nat, NEW n \in Nat, NEW o \in Nat,
             n <= o, Comes(i, n, k, q)
      PROVE  Comes(i, o, k, q)'
  BY <1>1, <1>2, <1>3, <1>5, ComesStill
(* After whatever was on its way the answer itself comes.                *)
<1>6. ASSUME NEW q \in Prop, NEW i \in Nat, i <= Len(toClient), NEW n \in Nat, n = Len(toClient')
      PROVE  Comes(i, n, l, q)'
  <2>1. (IsAnswer(n) /\ About(n, l))' /\ i < n /\ n <= n /\ n \in DOMAIN toClient'
    BY <1>2, <1>3, <1>6 DEF IsAnswer, About, Carries
  <2> QED BY <2>1 DEF Comes
<1>7. ChangesFollowAnswers'
  <2> SUFFICES ASSUME NEW k \in Link, Live(k)', NEW j \in DOMAIN toClient',
                      (IsAnswer(j) /\ About(j, k))', NEW q \in Prop,
                      instance'[k].age[q] > toClient'[j].rev
               PROVE  /\ instance'[k].id \in subscriptions' => Comes(j, Len(toClient), k, q)'
                      /\ \A n \in DOMAIN toClient' :
                            j < n /\ About(n, k)' /\ instance'[k].age[q] <= toClient'[n].rev =>
                               Comes(j, n, k, q)'
    BY DEF ChangesFollowAnswers
  <2>1. Live(k) /\ instance' = instance
    BY <1>2
  <2>2. j \in DOMAIN toClient
    <3>1. CASE j = Len(toClient')
      <4>1. k = l /\ toClient'[j].rev = instance[l].rev
        BY <1>2, <1>3, <1>4, <2>1, <3>1
      <4>2. instance[l].age[q] <= instance[l].rev /\ instance[l].age[q] \in Nat /\ instance[l].rev \in Nat
        BY <1>1, <1>2, InstanceFacts DEF InOrder
      <4> QED BY <2>1, <4>1, <4>2
    <3> QED BY <1>3, <3>1
  <2>3. /\ j \in Nat /\ j <= Len(toClient) /\ toClient'[j] = toClient[j]
        /\ IsAnswer(j) /\ About(j, k)
    BY <1>1, <1>3, <2>2, Lengths
  <2>4. /\ instance[k].id \in subscriptions => Comes(j, Len(toClient), k, q)
        /\ \A n \in DOMAIN toClient :
              j < n /\ About(n, k) /\ instance[k].age[q] <= toClient[n].rev => Comes(j, n, k, q)
    BY <2>1, <2>2, <2>3 DEF Prompted, ChangesFollowAnswers
  <2>5. PICK n \in Nat : n = Len(toClient')
    BY <1>3
  <2>6. instance'[k].id \in subscriptions' => Comes(j, Len(toClient), k, q)'
    <3>1. CASE k = l
      <4>1. Comes(j, n, l, q)'
        BY <1>6, <2>3, <2>5
      <4> QED BY <2>5, <3>1, <4>1 DEF Comes
    <3>2. CASE k # l
      <4>1. instance'[k].id \in subscriptions' => instance[k].id \in subscriptions
        BY <1>2, <1>3, <2>1, <3>2
      <4>2. Comes(j, Len(toClient), k, q) => Comes(j, n, k, q)'
        BY <1>3, <1>5, <2>3, <2>5
      <4> QED BY <2>4, <2>5, <4>1, <4>2 DEF Comes
    <3> QED BY <3>1, <3>2
  <2>7. ASSUME NEW i \in DOMAIN toClient', j < i, About(i, k)',
               instance'[k].age[q] <= toClient'[i].rev
        PROVE  Comes(j, i, k, q)'
    <3>1. CASE i \in DOMAIN toClient
      <4>1. i \in Nat /\ i <= i /\ Comes(j, i, k, q)
        BY <1>3, <2>1, <2>4, <2>7, <3>1
      <4> QED BY <1>5, <2>3, <4>1
    <3>2. CASE i = Len(toClient')
      <4>1. k = l /\ i \in Nat
        BY <1>3, <1>4, <2>1, <2>5, <2>7, <3>2
      <4> QED BY <1>6, <2>3, <3>2, <4>1
    <3> QED BY <1>3, <3>1, <3>2
  <2> QED BY <2>6, <2>7
<1>8. ChangesFollowCursor'
  <2> SUFFICES ASSUME NEW k \in Link, Live(k)',
                      attachedResources'[instance'[k].id] # None,
                      proxy'[attachedResources'[instance'[k].id]].gen = instance'[k].gen,
                      NEW q \in Prop,
                      instance'[k].age[q] > proxy'[attachedResources'[instance'[k].id]].rev
               PROVE  /\ instance'[k].id \in subscriptions' =>
                            \/ Comes(0, Len(toClient), k, q)'
                            \/ Queued(Len(notificationQueue), k, q)'
                      /\ \A n \in DOMAIN toClient' :
                            About(n, k)' /\ instance'[k].age[q] <= toClient'[n].rev =>
                               \/ Comes(0, n, k, q)'
                               \/ Queued(Len(notificationQueue), k, q)'
                      /\ \A n \in DOMAIN notificationQueue' :
                            QueuedAbout(n, k)' /\ instance'[k].age[q] <= notificationQueue'[n].rev =>
                               Queued(n, k, q)'
    BY Zenon DEF ChangesFollowCursor
  <2>1. Live(k) /\ instance' = instance /\ notificationQueue' = notificationQueue
    BY <1>2
  <2>2. /\ instance[k].id \in subscriptions =>
              Comes(0, Len(toClient), k, q) \/ Queued(Len(notificationQueue), k, q)
        /\ \A n \in DOMAIN toClient :
              About(n, k) /\ instance[k].age[q] <= toClient[n].rev =>
                  Comes(0, n, k, q) \/ Queued(Len(notificationQueue), k, q)
        /\ \A n \in DOMAIN notificationQueue :
              QueuedAbout(n, k) /\ instance[k].age[q] <= notificationQueue[n].rev => Queued(n, k, q)
    BY <1>2, <2>1 DEF Prompted, ChangesFollowCursor
  <2>3. /\ \A n : Queued(n, k, q) => Queued(n, k, q)'
        /\ Queued(Len(notificationQueue), k, q) => Queued(Len(notificationQueue), k, q)'
        /\ \A n : QueuedAbout(n, k)' <=> QueuedAbout(n, k)
    BY <2>1 DEF Queued, IsChange, QueuedAbout
  <2>4. PICK n \in Nat : n = Len(toClient')
    BY <1>3
  <2>5. 0 \in Nat /\ 0 <= Len(toClient) /\ Len(toClient) <= n
    BY <1>3, <2>4
  <2>6. instance'[k].id \in subscriptions' =>
            Comes(0, Len(toClient), k, q)' \/ Queued(Len(notificationQueue), k, q)'
    <3>1. CASE k = l
      <4>1. Comes(0, n, l, q)'
        BY <1>6, <2>4, <2>5
      <4> QED BY <2>4, <3>1, <4>1 DEF Comes
    <3>2. CASE k # l
      <4>1. instance'[k].id \in subscriptions' => instance[k].id \in subscriptions
        BY <1>2, <1>3, <2>1, <3>2
      <4>2. Comes(0, Len(toClient), k, q) => Comes(0, n, k, q)'
        BY <1>3, <1>5, <2>5
      <4> QED BY <2>2, <2>3, <2>4, <4>1, <4>2 DEF Comes
    <3> QED BY <3>1, <3>2
  <2>7. ASSUME NEW i \in DOMAIN toClient', About(i, k)',
               instance'[k].age[q] <= toClient'[i].rev
        PROVE  Comes(0, i, k, q)' \/ Queued(Len(notificationQueue), k, q)'
    <3>1. CASE i \in DOMAIN toClient
      <4>1. i \in Nat /\ i <= i
            /\ (Comes(0, i, k, q) \/ Queued(Len(notificationQueue), k, q))
        BY <1>3, <2>1, <2>2, <2>7, <3>1
      <4>2. Comes(0, i, k, q) => Comes(0, i, k, q)'
        BY <1>5, <2>5, <4>1
      <4> QED BY <2>3, <4>1, <4>2
    <3>2. CASE i = Len(toClient')
      <4>1. k = l /\ i \in Nat
        BY <1>3, <1>4, <2>1, <2>4, <2>7, <3>2
      <4> QED BY <1>6, <2>5, <3>2, <4>1
    <3> QED BY <1>3, <3>1, <3>2
  <2>8. \A i \in DOMAIN notificationQueue' :
            QueuedAbout(i, k)' /\ instance'[k].age[q] <= notificationQueue'[i].rev =>
                Queued(i, k, q)'
    BY <2>1, <2>2, <2>3
  <2> QED BY <2>6, <2>7, <2>8
<1> QED BY <1>7, <1>8

LEMMA AnswerPrompted ==
  ASSUME Sound, Sound', Prompted, NEW l \in Link, NEW m, AnswerStep(l, m)
  PROVE  Prompted'
BY AnswerFits, AnswerNames, AnswerAnswers, AnswerFollows DEF Prompted

LEMMA FinishAttachPrompted ==
  ASSUME Sound, Sound', Prompted, FinishAttach
  PROVE  Prompted'
<1>1. CASE ~IsLive(Head(handling).id)
  BY <1>1, FinishAttachOfGonePrompted
<1>2. CASE IsLive(Head(handling).id)
  <2> DEFINE id == Head(handling).id
             l == LinkOf(id)
             x == instance[l]
             m == [type |-> "attached", id |-> id, gen |-> x.gen, link |-> l, rev |-> x.rev,
                   values |-> AllValues(x)]
  <2>1. /\ l \in Link /\ Live(l) /\ x \in Instance /\ x.id = id /\ m \in Answer
        /\ toClient' = Append(toClient, m)
        /\ subscriptions' = subscriptions \cup {id}
    BY <1>2, FinishAttachReplies DEF Sound
  <2>2. UNCHANGED <<serverVars, querying, toServer, sessionVars, clientVars, notificationQueue>>
    BY DEF FinishAttach
  <2>3. AllValues(x) = x.age /\ x.age \in [Prop -> Revision]
    BY <2>1, InstanceType DEF AllValues
  <2> HIDE DEF l, id
  <2>4. AnswerStep(l, m)
    BY <2>1, <2>2, <2>3 DEF AnswerStep
  <2> QED BY <2>1, <2>4, AnswerPrompted
<1> QED BY <1>1, <1>2

LEMMA FinishReattachPrompted ==
  ASSUME Sound, Sound', Prompted, FinishReattach
  PROVE  Prompted'
<1> DEFINE l == querying.link
           x == instance[l]
           v == IF querying.gen = x.gen THEN ValuesSince(x, querying.rev) ELSE AllValues(x)
           m == [type |-> "reattached", id |-> x.id, gen |-> x.gen, link |-> l,
                 rev |-> x.rev, values |-> v]
<1>1. /\ querying \in ReattachRequest /\ l \in Link /\ querying' = None
      /\ \/ /\ subscriptions' = subscriptions
            /\ \/ toClient' = Append(toClient, [type |-> "notFound"])
               \/ toClient' = Append(toClient, [type |-> "rejected"])
         \/ /\ Live(l) /\ x \in Instance /\ m \in Answer
            /\ subscriptions' = subscriptions \cup {x.id}
            /\ toClient' = Append(toClient, m)
  BY FinishReattachReplies DEF Sound
<1>2. CASE /\ subscriptions' = subscriptions
           /\ \/ toClient' = Append(toClient, [type |-> "notFound"])
              \/ toClient' = Append(toClient, [type |-> "rejected"])
  BY <1>2, FinishReattachFailedPrompted
<1>3. CASE /\ Live(l) /\ x \in Instance /\ m \in Answer
           /\ subscriptions' = subscriptions \cup {x.id}
           /\ toClient' = Append(toClient, m)
  <2>1. /\ querying # None
        /\ UNCHANGED <<serverVars, toServer, sessionVars, clientVars, notificationQueue>>
    BY DEF FinishReattach
  <2>2. querying.rev \in Nat
    BY <1>1 DEF ReattachRequest, Revision
  <2>3. /\ x.age \in [Prop -> Revision]
        /\ DOMAIN ValuesSince(x, querying.rev) = {q \in Prop : x.age[q] > querying.rev}
        /\ \A q \in DOMAIN ValuesSince(x, querying.rev) :
              ValuesSince(x, querying.rev)[q] = x.age[q]
    BY <1>3, <2>2, InstanceType
  <2>4. \A q \in Prop : x.age[q] \in Nat
    BY <2>3 DEF Revision
  <2>5. /\ \A q \in DOMAIN v : v[q] = x.age[q]
        /\ querying.gen # x.gen => DOMAIN v = Prop
        /\ querying.gen = x.gen => \A q \in Prop : q \notin DOMAIN v => x.age[q] <= querying.rev
    BY <2>2, <2>3, <2>4 DEF AllValues
  <2> HIDE DEF l, v
  <2>6. AnswerStep(l, m)
    BY <1>1, <1>3, <2>1, <2>5 DEF AnswerStep, l
  <2> QED BY <1>1, <2>6, AnswerPrompted
<1> QED BY <1>1, <1>2, <1>3

-----------------------------------------------------------------------------
(* The application detaches, the connection is lost.                       *)

LEMMA DetachPrompted ==
  ASSUME Sound, Sound', Prompted, NEW o \in Obj, Detach(o)
  PROVE  Prompted'
<1>1. TypeOK /\ TypeOK' /\ UsedWhereNamed /\ ProxiesTrue
  BY DEF Sound, Prompted
<1>2. /\ o \in held /\ held' = held \ {o}
      /\ attachedResources' = [attachedResources EXCEPT ![proxy[o].id] = None]
      /\ disturbed' = (disturbed \/ Restoring)
      /\ UNCHANGED <<serverVars, serverSession, toClient, sessionVars, proxy, attachRequests,
                     decoding, restore, reattaching, late, notificationQueue>>
  BY DEF Detach, Disturbance
<1>3. \/ UNCHANGED toServer
      \/ \E m \in Request : m.type # "reattach" /\ toServer' = Append(toServer, m)
  <2>1. proxy[o].id \in Id
    BY <1>1, <1>2, ProxyFacts DEF UsedWhereNamed
  <2>2. [type |-> "detach", id |-> proxy[o].id] \in Request
    BY <2>1 DEF Request, DirectRequest
  <2> QED BY <2>2 DEF Detach
<1>4. \A i \in Id :
          \/ attachedResources'[i] = attachedResources[i] /\ i # proxy[o].id
          \/ attachedResources'[i] = None
  <2>1. attachedResources \in [Id -> Obj \cup {None}]
    BY <1>1 DEF TypeOK
  <2> QED BY <1>2, <2>1
<1>5. ReattachFits' /\ decoding' = {}
  <2>1. Kept(0) /\ NoNews(0)
    BY <1>1, <1>2, NothingReceived
  <2>2. \A k \in Asked' : \E j \in Asked : toServer'[k] = toServer[j]
    BY <1>1, <1>3, NothingAsked
  <2> QED BY <1>1, <1>2, <2>1, <2>2, SameFits DEF Prompted
<1>6. NoNewsStep(0)
  <2>1. Kept(0) /\ NoNews(0)
    BY <1>1, <1>2, NothingReceived
  <2> QED BY <1>2, <1>4, <2>1 DEF NoNewsStep
<1>7. HeldWhereNamed'
  <2>1. ASSUME ~disturbed'
        PROVE  ~disturbed /\ reattaching' = None /\ restore' = Nothing
    BY <1>2, <2>1 DEF Restoring
  <2>2. ASSUME ~disturbed', NEW i \in Id, attachedResources'[i] # None
        PROVE  attachedResources'[i] \in held'
    <3>1. attachedResources'[i] = attachedResources[i] /\ i # proxy[o].id
      BY <1>4, <2>2
    <3>2. attachedResources[i] \in held /\ proxy[attachedResources[i]].id = i
      BY <2>1, <2>2, <3>1 DEF Prompted, HeldWhereNamed, ProxiesTrue
    <3> QED BY <1>2, <3>1, <3>2
  <2> QED BY <2>1, <2>2 DEF HeldWhereNamed, Nothing
<1> QED BY <1>5, <1>6, <1>7, NoNewsPrompted

LEMMA LoseConnectionPrompted ==
  ASSUME Sound, Sound', Prompted, LoseConnection, UNCHANGED <<put, disturbed>>,
         \A k \in Link : instance'[k] # Absent =>
             instance'[k] = instance[k] /\ resourceCounter' = resourceCounter
  PROVE  Prompted'
<1>1. TypeOK /\ TypeOK' /\ UsedWhereNamed
  BY DEF Sound
<1>2. /\ subscriptions' = {} /\ querying' = None /\ toServer' = <<>> /\ toClient' = <<>>
      /\ decoding' = {} /\ notificationQueue' = <<>> /\ restore' = Nothing /\ reattaching' = None
      /\ UNCHANGED <<proxy, attachedResources, held, put, disturbed>>
      /\ DOMAIN toClient' = {} /\ DOMAIN notificationQueue' = {} /\ DOMAIN toServer' = {}
  BY DEF LoseConnection
<1>3. \A k \in Link : Live(k)' => /\ Live(k) /\ instance'[k] = instance[k]
                                  /\ resourceCounter' = resourceCounter
  BY DEF Live
<1>4. ReattachFits'
  BY <1>2, NothingInFlightFits DEF Asked, Answered
<1>5. OneName'
  <2>1. \A i, g : Named(i, g)' => Named(i, g) /\ resourceCounter' = resourceCounter
    BY <1>2, <1>3 DEF Named
  <2>2. \A i, j \in Id, g, h \in Generation : (Named(i, g) /\ Named(j, h))' => (i = j <=> g = h)
    BY <2>1 DEF Prompted, OneName
  <2>3. \A i \in Id, g \in Generation : Named(i, g)' => i <= resourceCounter' /\ g[2] <= put'[g[1]]
    BY <1>2, <2>1 DEF Prompted, OneName
  <2>4. \A k \in Link : Live(k)' => instance'[k].gen[1] = k
    BY <1>3 DEF Prompted, OneName
  <2> QED BY <1>2, <2>2, <2>3, <2>4 DEF OneName
<1>6. ProxiesTrue'
  <2>1. \A o \in Obj, k \in Link : Used(o) /\ Live(k)' /\ instance'[k].gen = proxy[o].gen =>
            proxy[o].id = instance'[k].id
    BY <1>3 DEF Prompted, ProxiesTrue
  <2> QED BY <1>2, <2>1 DEF Prompted, ProxiesTrue, Used
<1>7. Routed' /\ RevisionsInOrder' /\ AnswersComplete' /\ ChangesFollowAnswers'
  BY <1>2 DEF Routed, RevisionsInOrder, AnswersComplete, ChangesFollowAnswers
<1>8. InOrder'
  BY <1>2, <1>3 DEF Prompted, InOrder
<1>9. ChangesFollowCursor'
  BY <1>2 DEF ChangesFollowCursor
<1>10. AllCovered'
  <2>1. ASSUME NEW o \in Obj, Used(o), instance'[proxy[o].link] # Absent
        PROVE  Live(proxy[o].link) /\ instance'[proxy[o].link] = instance[proxy[o].link]
    <3>1. proxy[o].link \in Link
      BY <1>1, <2>1, ProxyFacts
    <3> QED BY <1>3, <2>1, <3>1 DEF Live
  <2> QED BY <1>2, <2>1 DEF Prompted, AllCovered, CursorCovered, Used, Live
<1>11. HeldWhereNamed'
  BY <1>2 DEF Prompted, HeldWhereNamed, Nothing
<1> QED BY <1>2, <1>4, <1>5, <1>6, <1>7, <1>8, <1>9, <1>10, <1>11 DEF Prompted

LEMMA DisconnectPrompted ==
  ASSUME Sound, Sound', Prompted, Disconnect
  PROVE  Prompted'
BY LoseConnectionPrompted DEF Disconnect

LEMMA ServerRestartPrompted ==
  ASSUME Sound, Sound', Prompted, ServerRestart
  PROVE  Prompted'
<1>1. \A k \in Link : instance'[k] = Absent
  BY DEF ServerRestart
<1> QED BY <1>1, LoseConnectionPrompted DEF ServerRestart

-----------------------------------------------------------------------------
(* A message that carries something is taken from the channel.             *)

LEMMA ReceiveView ==
  ASSUME TypeOK, TypeOK', NEW t, Receiving(t), UNCHANGED instance
  PROVE  /\ Kept(1) /\ NoNews(1) /\ 1 \in DOMAIN toClient /\ toClient[1].type = t
         /\ Head(toClient) = toClient[1]
         /\ Len(toClient) \in Nat /\ Len(toClient') \in Nat /\ Len(toClient) = Len(toClient') + 1
         /\ \A k \in DOMAIN toClient' :
               /\ k \in Nat /\ k + 1 \in DOMAIN toClient /\ toClient'[k] = toClient[k + 1]
               /\ 1 < k + 1
               /\ IsAnswer(k)' <=> IsAnswer(k + 1)
               /\ IsNotification(k)' <=> IsNotification(k + 1)
               /\ Carries(k)' <=> Carries(k + 1)
               /\ \A l \in Link : About(k, l)' <=> About(k + 1, l)
         /\ \A l : Live(l)' <=> Live(l)
<1>1. /\ Kept(1) /\ NoNews(1) /\ Len(toClient') = Len(toClient) - 1
      /\ \A k \in DOMAIN toClient' : k + 1 \in DOMAIN toClient /\ toClient'[k] = toClient[k + 1]
      /\ 1 \in DOMAIN toClient /\ toClient[1].type = t /\ Head(toClient) = toClient[1]
  BY ReceiveKeeps
<1>2. /\ Len(toClient) \in Nat /\ Len(toClient') \in Nat /\ Len(toClient) = Len(toClient') + 1
      /\ \A k \in DOMAIN toClient' : k \in Nat /\ 1 < k + 1
  BY <1>1, Lengths
<1>3. ASSUME NEW k \in DOMAIN toClient'
      PROVE  /\ IsAnswer(k)' <=> IsAnswer(k + 1)
             /\ IsNotification(k)' <=> IsNotification(k + 1)
             /\ Carries(k)' <=> Carries(k + 1)
             /\ \A l \in Link : About(k, l)' <=> About(k + 1, l)
  BY <1>1 DEF IsAnswer, IsNotification, Carries, About
<1>4. \A l : Live(l)' <=> Live(l)
  BY DEF Live
<1> QED BY <1>1, <1>2, <1>3, <1>4

LEMMA EnqueueView ==
  ASSUME Sound, Sound', EnqueueNotification
  PROVE  /\ IsNotification(1) /\ ~IsAnswer(1) /\ Carries(1)
         /\ notificationQueue' = Append(notificationQueue, toClient[1])
         /\ Len(notificationQueue) \in Nat /\ Len(notificationQueue') = Len(notificationQueue) + 1
         /\ \A k \in DOMAIN notificationQueue :
               /\ k \in DOMAIN notificationQueue' /\ notificationQueue'[k] = notificationQueue[k]
               /\ k \in Nat /\ k < Len(notificationQueue')
         /\ Len(notificationQueue') \in DOMAIN notificationQueue'
         /\ notificationQueue'[Len(notificationQueue')] = toClient[1]
         /\ \A k \in DOMAIN notificationQueue' :
               k \in DOMAIN notificationQueue \/ k = Len(notificationQueue')
         /\ \E t \in NotificationTypes : Receiving(t)
         /\ UNCHANGED <<serverVars, serverSession, toServer, sessionVars, clientVars>>
<1>1. PICK t \in NotificationTypes : Receiving(t)
  BY DEF EnqueueNotification, NotificationTypes
<1>2. TypeOK /\ TypeOK' /\ UNCHANGED instance
  BY DEF Sound, EnqueueNotification
<1>3. toClient[1].type = t /\ Head(toClient) = toClient[1]
  BY <1>1, <1>2, ReceiveView
<1>4. IsNotification(1) /\ ~IsAnswer(1) /\ Carries(1)
  BY <1>3 DEF IsNotification, IsAnswer, Carries, NotificationTypes, AnswerTypes
<1>5. notificationQueue' = Append(notificationQueue, toClient[1])
  BY <1>3 DEF EnqueueNotification
<1>6. notificationQueue \in Seq(Notification)
  BY <1>2 DEF TypeOK
<1>7. /\ Len(notificationQueue) \in Nat /\ Len(notificationQueue') = Len(notificationQueue) + 1
      /\ \A k \in DOMAIN notificationQueue :
            /\ k \in DOMAIN notificationQueue' /\ notificationQueue'[k] = notificationQueue[k]
            /\ k \in Nat /\ k < Len(notificationQueue')
      /\ Len(notificationQueue') \in DOMAIN notificationQueue'
      /\ notificationQueue'[Len(notificationQueue')] = toClient[1]
      /\ \A k \in DOMAIN notificationQueue' :
            k \in DOMAIN notificationQueue \/ k = Len(notificationQueue')
  BY <1>5, <1>6
<1> QED BY <1>1, <1>4, <1>5, <1>7 DEF EnqueueNotification

LEMMA EnqueueNames ==
  ASSUME Sound, Sound', Prompted, EnqueueNotification
  PROVE  /\ ReattachFits' /\ HeldWhereNamed' /\ decoding' = {}
         /\ OneName' /\ ProxiesTrue' /\ Routed'
<1>1. TypeOK /\ TypeOK' /\ OneName /\ ProxiesTrue /\ Routed
  BY DEF Sound, Prompted
<1>2. /\ IsNotification(1) /\ ~IsAnswer(1) /\ Carries(1)
      /\ \A k \in DOMAIN notificationQueue' :
            \/ k \in DOMAIN notificationQueue /\ notificationQueue'[k] = notificationQueue[k]
            \/ notificationQueue'[k] = toClient[1]
      /\ UNCHANGED <<serverVars, serverSession, toServer, sessionVars, clientVars>>
  BY EnqueueView
<1>3. PICK t \in NotificationTypes : Receiving(t)
  BY EnqueueView
<1>4. /\ Kept(1) /\ NoNews(1) /\ 1 \in DOMAIN toClient
      /\ Len(toClient) \in Nat /\ Len(toClient') \in Nat /\ Len(toClient) = Len(toClient') + 1
      /\ \A k \in DOMAIN toClient' :
            /\ k \in Nat /\ k + 1 \in DOMAIN toClient /\ toClient'[k] = toClient[k + 1]
            /\ IsAnswer(k)' <=> IsAnswer(k + 1)
            /\ IsNotification(k)' <=> IsNotification(k + 1)
            /\ Carries(k)' <=> Carries(k + 1)
      /\ \A l : Live(l)' <=> Live(l)
  BY <1>1, <1>2, <1>3, ReceiveView
<1>5. ReattachFits' /\ HeldWhereNamed' /\ decoding' = {}
  BY <1>1, <1>2, <1>4, NothingAsked, SameFits, SameHeld DEF Prompted
<1>6. OneName'
  <2>1. \A i \in Id, g \in Generation : Named(i, g)' => Named(i, g)
    BY <1>2, <1>4 DEF Named
  <2>2. \A i, j \in Id, g, h \in Generation : (Named(i, g) /\ Named(j, h))' => (i = j <=> g = h)
    BY <1>1, <2>1 DEF OneName
  <2>3. \A i \in Id, g \in Generation : Named(i, g)' => i <= resourceCounter' /\ g[2] <= put'[g[1]]
    BY <1>1, <1>2, <2>1 DEF OneName
  <2> QED BY <1>1, <1>2, <1>4, <2>2, <2>3 DEF OneName
<1>7. ProxiesTrue'
  BY <1>1, <1>2 DEF ProxiesTrue, Used, Live
<1>8. Routed'
  <2>1. \A i, g : Settled(i, g) => Settled(i, g)'
    BY <1>2 DEF Settled
  <2>2. ASSUME NEW k \in DOMAIN notificationQueue'
        PROVE  Settled(notificationQueue[k].id, notificationQueue[k].gen)'
    <3>1. CASE k \in DOMAIN notificationQueue /\ notificationQueue'[k] = notificationQueue[k]
      BY <1>1, <1>2, <3>1 DEF Routed, Settled
    <3>2. CASE notificationQueue'[k] = toClient[1]
      <4>1. ~Announced(toClient[1].id, 1)
        BY <1>2 DEF Announced
      <4>2. Settled(toClient[1].id, toClient[1].gen)
        BY <1>1, <1>2, <1>4, <4>1 DEF Routed
      <4> QED BY <1>2, <3>2, <4>2 DEF Settled
    <3> QED BY <1>2, <3>1, <3>2
  <2>3. ASSUME NEW i, NEW n \in Nat, NEW o \in Nat, n <= o + 1, Announced(i, n)
        PROVE  Announced(i, o)'
    BY <1>1, <1>2, <1>4, <2>3, AnnouncedStill
  <2>4. ASSUME NEW k \in DOMAIN toClient', IsNotification(k)'
        PROVE  Announced(toClient[k].id, k)' \/ Settled(toClient[k].id, toClient[k].gen)'
    <3>1. \/ Announced(toClient[k + 1].id, k + 1)
          \/ Settled(toClient[k + 1].id, toClient[k + 1].gen)
      BY <1>1, <1>4, <2>4 DEF Routed
    <3>2. CASE Announced(toClient[k + 1].id, k + 1)
      <4>1. PICK i \in {toClient[k + 1].id} : Announced(i, k + 1)
        BY <3>2
      <4>2. Announced(i, k)'
        BY <1>4, <2>3, <4>1
      <4> QED BY <1>4, <4>1, <4>2 DEF Announced
    <3>3. CASE Settled(toClient[k + 1].id, toClient[k + 1].gen)
      BY <1>2, <1>4, <3>3 DEF Settled
    <3> QED BY <3>1, <3>2, <3>3
  <2>5. ASSUME NEW l \in Link, Live(l)', instance'[l].id \in subscriptions'
        PROVE  \/ Announced(instance[l].id, Len(toClient))'
               \/ Settled(instance[l].id, instance[l].gen)'
    <3>1. \/ Announced(instance[l].id, Len(toClient))
          \/ Settled(instance[l].id, instance[l].gen)
      BY <1>1, <1>2, <1>4, <2>5 DEF Routed
    <3>2. CASE Announced(instance[l].id, Len(toClient))
      <4>1. PICK i \in {instance[l].id}, n \in Nat : n = Len(toClient')
        BY <1>4
      <4>2. Announced(i, n)'
        BY <1>4, <2>3, <3>2, <4>1
      <4> QED BY <1>2, <4>1, <4>2 DEF Announced
    <3>3. CASE Settled(instance[l].id, instance[l].gen)
      BY <1>2, <3>3 DEF Settled
    <3> QED BY <3>1, <3>2, <3>3
  <2> QED BY <2>2, <2>4, <2>5 DEF Routed
<1> QED BY <1>5, <1>6, <1>7, <1>8

LEMMA EnqueueAnswers ==
  ASSUME Sound, Sound', Prompted, EnqueueNotification
  PROVE  InOrder' /\ RevisionsInOrder' /\ AnswersComplete' /\ AllCovered'
<1>1. TypeOK /\ TypeOK' /\ InOrder /\ RevisionsInOrder /\ AnswersComplete
  BY DEF Sound, Prompted
<1>2. /\ Carries(1)
      /\ \A k \in DOMAIN notificationQueue' :
            \/ k \in DOMAIN notificationQueue /\ notificationQueue'[k] = notificationQueue[k]
            \/ notificationQueue'[k] = toClient[1]
      /\ UNCHANGED <<serverVars, serverSession, toServer, sessionVars, clientVars>>
  BY EnqueueView
<1>3. PICK t \in NotificationTypes : Receiving(t)
  BY EnqueueView
<1>4. /\ 1 \in DOMAIN toClient
      /\ \A k \in DOMAIN toClient' :
            /\ k \in Nat /\ k + 1 \in DOMAIN toClient /\ toClient'[k] = toClient[k + 1]
            /\ 1 < k + 1
            /\ IsAnswer(k)' <=> IsAnswer(k + 1)
            /\ Carries(k)' <=> Carries(k + 1)
            /\ \A l \in Link : About(k, l)' <=> About(k + 1, l)
      /\ \A l : Live(l)' <=> Live(l)
  BY <1>1, <1>2, <1>3, ReceiveView
<1>5. InOrder'
  <2> SUFFICES ASSUME NEW l \in Link, Live(l)'
               PROVE  /\ \A q \in Prop : instance'[l].age[q] <= instance'[l].rev
                      /\ \A k \in DOMAIN toClient' :
                            About(k, l)' => toClient'[k].rev <= instance'[l].rev
                      /\ \A k \in DOMAIN notificationQueue' : QueuedAbout(k, l)' =>
                            notificationQueue'[k].rev <= instance'[l].rev
                      /\ \A k \in DOMAIN toClient' :
                            toClient'[k].type = "property" /\ About(k, l)' =>
                               toClient'[k].rev <= instance'[l].age[toClient'[k].prop]
                      /\ \A k \in DOMAIN notificationQueue' :
                            notificationQueue'[k].type = "property" /\ QueuedAbout(k, l)' =>
                               notificationQueue'[k].rev
                                  <= instance'[l].age[notificationQueue'[k].prop]
    BY Zenon DEF InOrder
  <2>1. Live(l) /\ instance' = instance
    BY <1>2, <1>4
  <2>2. ASSUME NEW k \in DOMAIN toClient', About(k, l)'
        PROVE  /\ toClient'[k].rev <= instance'[l].rev
               /\ toClient'[k].type = "property" =>
                     toClient'[k].rev <= instance'[l].age[toClient'[k].prop]
    BY <1>1, <1>4, <2>1, <2>2 DEF InOrder
  <2>3. ASSUME NEW k \in DOMAIN notificationQueue', QueuedAbout(k, l)'
        PROVE  /\ notificationQueue'[k].rev <= instance'[l].rev
               /\ notificationQueue'[k].type = "property" =>
                     notificationQueue'[k].rev <= instance'[l].age[notificationQueue'[k].prop]
    <3>1. CASE k \in DOMAIN notificationQueue /\ notificationQueue'[k] = notificationQueue[k]
      BY <1>1, <2>1, <2>3, <3>1 DEF InOrder, QueuedAbout
    <3>2. CASE notificationQueue'[k] = toClient[1]
      <4>1. About(1, l)
        BY <1>2, <2>1, <2>3, <3>2 DEF QueuedAbout, About
      <4> QED BY <1>1, <1>4, <2>1, <3>2, <4>1 DEF InOrder
    <3> QED BY <1>2, <3>1, <3>2
  <2>4. \A q \in Prop : instance[l].age[q] <= instance[l].rev
    BY <1>1, <2>1 DEF InOrder
  <2> QED BY <2>1, <2>2, <2>3, <2>4
<1>6. RevisionsInOrder'
  <2>1. ASSUME NEW j \in DOMAIN toClient', NEW k \in DOMAIN toClient',
               j < k, Carries(j)', Carries(k)', toClient'[j].gen = toClient'[k].gen
        PROVE  toClient'[j].rev <= toClient'[k].rev
    <3>1. j + 1 < k + 1
      BY <1>4, <2>1
    <3> QED BY <1>1, <1>4, <2>1, <3>1 DEF RevisionsInOrder
  <2>2. ASSUME NEW j \in DOMAIN notificationQueue', NEW k \in DOMAIN toClient',
               Carries(k)', notificationQueue'[j].gen = toClient'[k].gen
        PROVE  notificationQueue'[j].rev <= toClient'[k].rev
    <3>1. CASE j \in DOMAIN notificationQueue /\ notificationQueue'[j] = notificationQueue[j]
      BY <1>1, <1>4, <2>2, <3>1 DEF RevisionsInOrder
    <3>2. CASE notificationQueue'[j] = toClient[1]
      BY <1>1, <1>2, <1>4, <2>2, <3>2 DEF RevisionsInOrder
    <3> QED BY <1>2, <3>1, <3>2
  <2> QED BY <2>1, <2>2 DEF RevisionsInOrder
<1>7. AnswersComplete'
  <2>1. ASSUME NEW k \in DOMAIN toClient', IsAnswer(k)'
        PROVE  /\ \A q \in DOMAIN toClient'[k].values :
                     toClient'[k].values[q] <= toClient'[k].rev
               /\ \A l \in Link : (Live(l) /\ About(k, l))' => Brings(toClient[k], l)'
    BY <1>1, <1>2, <1>4, <2>1 DEF AnswersComplete, Brings
  <2> QED BY <2>1 DEF AnswersComplete
<1>8. AllCovered'
  BY <1>2 DEF Prompted, AllCovered, CursorCovered, Used, Live
<1> QED BY <1>5, <1>6, <1>7, <1>8

LEMMA ReceivedFollowAnswers ==
  ASSUME TypeOK, TypeOK', ChangesFollowAnswers, NEW t, Receiving(t),
         UNCHANGED <<instance, subscriptions>>
  PROVE  ChangesFollowAnswers'
<1>1. /\ Kept(1)
      /\ Len(toClient) \in Nat /\ Len(toClient') \in Nat /\ Len(toClient) = Len(toClient') + 1
      /\ \A k \in DOMAIN toClient' :
            /\ k \in Nat /\ k + 1 \in DOMAIN toClient /\ toClient'[k] = toClient[k + 1]
            /\ IsAnswer(k)' <=> IsAnswer(k + 1)
            /\ \A l \in Link : About(k, l)' <=> About(k + 1, l)
      /\ \A l : Live(l)' <=> Live(l)
  BY ReceiveView
<1>2. ASSUME NEW l \in Link, NEW q \in Prop, NEW i \in Nat, NEW j \in Nat, NEW n \in Nat,
             NEW o \in Nat, j + 1 <= i, n <= o + 1, Comes(i, n, l, q)
      PROVE  Comes(j, o, l, q)'
  BY <1>1, <1>2, ComesStill
<1> SUFFICES ASSUME NEW l \in Link, Live(l)', NEW j \in DOMAIN toClient',
                    (IsAnswer(j) /\ About(j, l))', NEW q \in Prop,
                    instance'[l].age[q] > toClient'[j].rev
             PROVE  /\ instance'[l].id \in subscriptions' => Comes(j, Len(toClient), l, q)'
                    /\ \A n \in DOMAIN toClient' :
                          j < n /\ About(n, l)' /\ instance'[l].age[q] <= toClient'[n].rev =>
                             Comes(j, n, l, q)'
  BY DEF ChangesFollowAnswers
<1>3. /\ instance[l].id \in subscriptions => Comes(j + 1, Len(toClient), l, q)
      /\ \A n \in DOMAIN toClient :
            j + 1 < n /\ About(n, l) /\ instance[l].age[q] <= toClient[n].rev =>
               Comes(j + 1, n, l, q)
  BY <1>1 DEF ChangesFollowAnswers
<1>4. PICK o \in Nat : o = Len(toClient')
  BY <1>1
<1>5. Comes(j + 1, Len(toClient), l, q) => Comes(j, o, l, q)'
  BY <1>1, <1>2, <1>4
<1>6. instance'[l].id \in subscriptions' => Comes(j, Len(toClient), l, q)'
  BY <1>3, <1>4, <1>5 DEF Comes
<1>7. ASSUME NEW n \in DOMAIN toClient', j < n, About(n, l)',
             instance'[l].age[q] <= toClient'[n].rev
      PROVE  Comes(j, n, l, q)'
  <2>1. /\ n + 1 \in DOMAIN toClient /\ About(n + 1, l) /\ j + 1 < n + 1
        /\ instance[l].age[q] <= toClient[n + 1].rev
    BY <1>1, <1>7
  <2>2. Comes(j + 1, n + 1, l, q)
    BY <1>3, <2>1
  <2> QED BY <1>1, <1>2, <2>2
<1> QED BY <1>6, <1>7

LEMMA EnqueueFollows ==
  ASSUME Sound, Sound', Prompted, EnqueueNotification
  PROVE  ChangesFollowAnswers' /\ ChangesFollowCursor'
<1>1. TypeOK /\ TypeOK' /\ UsedWhereNamed
  BY DEF Sound
<1>2. /\ IsNotification(1) /\ ~IsAnswer(1) /\ Carries(1)
      /\ Len(notificationQueue) \in Nat
      /\ \A k \in DOMAIN notificationQueue :
            /\ k \in DOMAIN notificationQueue' /\ notificationQueue'[k] = notificationQueue[k]
            /\ k \in Nat /\ k < Len(notificationQueue')
      /\ Len(notificationQueue') \in DOMAIN notificationQueue'
      /\ notificationQueue'[Len(notificationQueue')] = toClient[1]
      /\ \A k \in DOMAIN notificationQueue' :
            k \in DOMAIN notificationQueue \/ k = Len(notificationQueue')
      /\ Len(notificationQueue') = Len(notificationQueue) + 1
      /\ UNCHANGED <<serverVars, serverSession, toServer, sessionVars, clientVars>>
  BY EnqueueView
<1>3. PICK t \in NotificationTypes : Receiving(t)
  BY EnqueueView
<1>4. ChangesFollowAnswers'
  BY <1>1, <1>2, <1>3, ReceivedFollowAnswers DEF Prompted
<1>5. /\ Kept(1) /\ 1 \in DOMAIN toClient
      /\ Len(toClient) \in Nat /\ Len(toClient') \in Nat /\ Len(toClient) = Len(toClient') + 1
      /\ \A k \in DOMAIN toClient' :
            /\ k \in Nat /\ k + 1 \in DOMAIN toClient /\ toClient'[k] = toClient[k + 1]
            /\ \A l \in Link : About(k, l)' <=> About(k + 1, l)
      /\ \A l : Live(l)' <=> Live(l)
  BY <1>1, <1>2, <1>3, ReceiveView
(* The change is still in the channel, or it is the one that is queued.  *)
<1>6. ASSUME NEW l \in Link, NEW q \in Prop, NEW n, n = Len(notificationQueue')
      PROVE  /\ IsChange(toClient[1], l, q) => Queued(n, l, q)'
             /\ \A k \in DOMAIN notificationQueue : Queued(k, l, q) => Queued(k, l, q)'
             /\ Queued(Len(notificationQueue), l, q) => Queued(n, l, q)'
  <2>1. IsChange(toClient[1], l, q) => Queued(n, l, q)'
    BY <1>2, <1>6 DEF Queued, IsChange
  <2>2. \A k \in DOMAIN notificationQueue : Queued(k, l, q) => Queued(k, l, q)'
    BY <1>2 DEF Queued, IsChange
  <2>3. Queued(Len(notificationQueue), l, q) => Queued(n, l, q)'
    <3> SUFFICES ASSUME NEW k \in DOMAIN notificationQueue, IsChange(notificationQueue[k], l, q)
                 PROVE  Queued(n, l, q)'
      BY DEF Queued
    <3>1. k \in DOMAIN notificationQueue' /\ k <= n /\ IsChange(notificationQueue[k], l, q)'
      BY <1>2, <1>6 DEF IsChange
    <3> QED BY <3>1 DEF Queued
  <2> QED BY <2>1, <2>2, <2>3
<1>7. ASSUME NEW l \in Link, NEW q \in Prop, NEW n \in Nat, NEW o \in Nat, n <= o + 1,
             Comes(0, n, l, q)
      PROVE  Comes(0, o, l, q)' \/ IsChange(toClient[1], l, q)
  <2>1. Comes(1, n, l, q) \/ IsChange(toClient[1], l, q)
    BY <1>1, <1>2, <1>7, ComesFirstOrAfter
  <2>2. Comes(1, n, l, q) => Comes(0, o, l, q)'
    BY <1>1, <1>2, <1>5, <1>7, ComesStill
  <2> QED BY <2>1, <2>2
<1>8. ChangesFollowCursor'
  <2> SUFFICES ASSUME NEW l \in Link, Live(l)',
                      attachedResources'[instance'[l].id] # None,
                      proxy'[attachedResources'[instance'[l].id]].gen = instance'[l].gen,
                      NEW q \in Prop,
                      instance'[l].age[q] > proxy'[attachedResources'[instance'[l].id]].rev
               PROVE  /\ instance'[l].id \in subscriptions' =>
                            \/ Comes(0, Len(toClient), l, q)'
                            \/ Queued(Len(notificationQueue), l, q)'
                      /\ \A n \in DOMAIN toClient' :
                            About(n, l)' /\ instance'[l].age[q] <= toClient'[n].rev =>
                               \/ Comes(0, n, l, q)'
                               \/ Queued(Len(notificationQueue), l, q)'
                      /\ \A n \in DOMAIN notificationQueue' :
                            QueuedAbout(n, l)' /\ instance'[l].age[q] <= notificationQueue'[n].rev =>
                               Queued(n, l, q)'
    BY Zenon DEF ChangesFollowCursor
  <2>1. /\ instance[l].id \in subscriptions =>
              Comes(0, Len(toClient), l, q) \/ Queued(Len(notificationQueue), l, q)
        /\ \A n \in DOMAIN toClient :
              About(n, l) /\ instance[l].age[q] <= toClient[n].rev =>
                  Comes(0, n, l, q) \/ Queued(Len(notificationQueue), l, q)
        /\ \A n \in DOMAIN notificationQueue :
              QueuedAbout(n, l) /\ instance[l].age[q] <= notificationQueue[n].rev => Queued(n, l, q)
    BY <1>2, <1>5 DEF Prompted, ChangesFollowCursor
  <2>2. PICK e \in Nat, o \in Nat : e = Len(notificationQueue') /\ o = Len(toClient')
    BY <1>2, <1>5
  <2>3. Queued(e, l, q)' => Queued(Len(notificationQueue), l, q)'
    BY <2>2 DEF Queued
  <2>4. instance'[l].id \in subscriptions' =>
            Comes(0, Len(toClient), l, q)' \/ Queued(Len(notificationQueue), l, q)'
    <3>1. Comes(0, Len(toClient), l, q) => Comes(0, o, l, q)' \/ IsChange(toClient[1], l, q)
      BY <1>5, <1>7, <2>2
    <3>2. Comes(0, o, l, q)' => Comes(0, Len(toClient), l, q)'
      BY <2>2 DEF Comes
    <3> QED BY <1>2, <1>6, <2>1, <2>2, <2>3, <3>1, <3>2
  <2>5. ASSUME NEW n \in DOMAIN toClient', About(n, l)',
               instance'[l].age[q] <= toClient'[n].rev
        PROVE  Comes(0, n, l, q)' \/ Queued(Len(notificationQueue), l, q)'
    <3>1. Comes(0, n + 1, l, q) \/ Queued(Len(notificationQueue), l, q)
      BY <1>2, <1>5, <2>1, <2>5
    <3>2. Comes(0, n + 1, l, q) => Comes(0, n, l, q)' \/ IsChange(toClient[1], l, q)
      BY <1>5, <1>7
    <3> QED BY <1>6, <2>2, <2>3, <3>1, <3>2
  <2>6. ASSUME NEW n \in DOMAIN notificationQueue', QueuedAbout(n, l)',
               instance'[l].age[q] <= notificationQueue'[n].rev
        PROVE  Queued(n, l, q)'
    <3>1. CASE n \in DOMAIN notificationQueue
      <4>1. QueuedAbout(n, l) /\ notificationQueue'[n] = notificationQueue[n]
        BY <1>2, <2>6, <3>1 DEF QueuedAbout
      <4> QED BY <1>2, <1>6, <2>1, <2>2, <2>6, <3>1, <4>1
    <3>2. CASE n = Len(notificationQueue')
      <4>1. About(1, l) /\ instance[l].age[q] <= toClient[1].rev
        BY <1>2, <2>6, <3>2 DEF QueuedAbout, About
      <4>2. Comes(0, 1, l, q) \/ Queued(Len(notificationQueue), l, q)
        BY <1>5, <2>1, <4>1
      <4>3. Comes(0, 1, l, q) => IsChange(toClient[1], l, q)
        <5>1. \A k \in DOMAIN toClient : 0 < k /\ k <= 1 => k = 1
          BY <1>1, Lengths
        <5> QED BY <1>2, <5>1 DEF Comes
      <4> QED BY <1>6, <3>2, <4>2, <4>3
    <3> QED BY <1>2, <3>1, <3>2
  <2> QED BY <2>4, <2>5, <2>6
<1> QED BY <1>4, <1>8

LEMMA EnqueueNotificationPrompted ==
  ASSUME Sound, Sound', Prompted, EnqueueNotification
  PROVE  Prompted'
BY EnqueueNames, EnqueueAnswers, EnqueueFollows DEF Prompted

-----------------------------------------------------------------------------
(* A queued notification is processed.                                     *)

(* s is r with the notification m of its own generation taken.             *)
Takes(r, s, m) ==
    LET stamp == [gen |-> m.gen, rev |-> m.rev] IN
    /\ s.link = r.link /\ s.id = r.id /\ s.gen = r.gen /\ r.gen = m.gen
    /\ r.rev <= s.rev /\ m.rev <= s.rev /\ s.rev \in {r.rev, m.rev}
    /\ \A p \in Prop :
          \/ s.cache[p] = r.cache[p] /\ s.propertyCursors[p] = r.propertyCursors[p]
          \/ /\ m.type = "property" /\ p = m.prop /\ ~Seen(r, m)
             /\ s.cache[p] = stamp /\ s.propertyCursors[p] = stamp
    /\ m.type = "property" => s = r \/ s.cache[m.prop] = stamp

LEMMA TakenTakes ==
  ASSUME NEW r \in Proxy, NEW m \in Notification, r.gen = m.gen,
         \A p \in Prop : r.propertyCursors[p].gen = r.gen => r.propertyCursors[p].rev <= r.rev
  PROVE  Takes(r, Taken(r, m), m)
<1> DEFINE s == Taken(r, m)
           stamp == [gen |-> m.gen, rev |-> m.rev]
<1>1. m.gen \in Generation /\ m.rev \in Nat /\ r.rev \in Nat
      /\ r.cache \in [Prop -> Stamp \cup {NoStamp}]
      /\ r.propertyCursors \in [Prop -> Stamp \cup {NoStamp}]
  BY ProxyType DEF Notification, Revision
<1>2. CASE m.type = "property"
  <2>1. m.prop \in Prop
    BY <1>2 DEF Notification
  <2>2. CASE Seen(r, m)
    <3>1. s = r
      BY <1>2, <2>2, Updated DEF Taken
    <3>2. m.rev <= r.rev
      <4>1. r.propertyCursors[m.prop].gen = r.gen /\ r.propertyCursors[m.prop].rev >= m.rev
        BY <2>2 DEF Seen
      <4>2. r.propertyCursors[m.prop] \in Stamp \cup {NoStamp}
        BY <1>1, <2>1
      <4>3. r.propertyCursors[m.prop].rev \in Nat
        BY <4>2 DEF Stamp, NoStamp, Revision
      <4> QED BY <1>1, <2>1, <4>1, <4>3
    <3> QED BY <1>1, <3>1, <3>2 DEF Takes
  <2>3. CASE ~Seen(r, m)
    <3>1. /\ s.link = r.link /\ s.id = r.id /\ s.gen = m.gen
          /\ s.rev = IF r.gen # m.gen \/ m.rev > r.rev THEN m.rev ELSE r.rev
          /\ s.cache = [r.cache EXCEPT ![m.prop] = stamp]
          /\ s.propertyCursors = [r.propertyCursors EXCEPT ![m.prop] = stamp]
      BY <1>2, <2>3, Updated DEF Taken
    <3> HIDE DEF s
    <3>2. /\ s.cache[m.prop] = stamp /\ s.propertyCursors[m.prop] = stamp
          /\ \A p \in Prop : p # m.prop => /\ s.cache[p] = r.cache[p]
                                           /\ s.propertyCursors[p] = r.propertyCursors[p]
      BY <1>1, <2>1, <3>1
    <3>3. r.rev <= s.rev /\ m.rev <= s.rev /\ s.rev \in {r.rev, m.rev}
      BY <1>1, <3>1
    <3>4. Takes(r, s, m)
      BY <1>2, <2>3, <3>1, <3>2, <3>3 DEF Takes
    <3> QED BY <3>4 DEF s
  <2> QED BY <2>2, <2>3
<1>3. CASE m.type # "property"
  <2>1. /\ s.link = r.link /\ s.id = r.id /\ s.gen = m.gen
        /\ s.rev = IF r.gen # m.gen \/ m.rev > r.rev THEN m.rev ELSE r.rev
        /\ s.cache = r.cache /\ s.propertyCursors = r.propertyCursors
    BY <1>3, Observed DEF Taken
  <2> HIDE DEF s
  <2>2. r.rev <= s.rev /\ m.rev <= s.rev /\ s.rev \in {r.rev, m.rev}
    BY <1>1, <2>1
  <2>3. Takes(r, s, m)
    BY <1>3, <2>1, <2>2 DEF Takes
  <2> QED BY <2>3 DEF s
<1> QED BY <1>2, <1>3

LEMMA ProcessView ==
  ASSUME Sound, Sound', Prompted, ProcessNotification
  PROVE  LET m == notificationQueue[1]
             o == attachedResources[m.id]
         IN  /\ m \in Notification /\ m.id \in Id /\ m.gen \in Generation /\ m.rev \in Nat
             /\ 1 \in DOMAIN notificationQueue
             /\ \A k \in DOMAIN notificationQueue' :
                   k \in Nat /\ k + 1 \in DOMAIN notificationQueue
                   /\ notificationQueue'[k] = notificationQueue[k + 1]
             /\ \A k \in DOMAIN notificationQueue : k # 1 =>
                   k \in Nat /\ k - 1 \in DOMAIN notificationQueue'
                   /\ notificationQueue'[k - 1] = notificationQueue[k]
             /\ Len(notificationQueue) \in Nat
             /\ Len(notificationQueue') = Len(notificationQueue) - 1
             /\ o # None => o \in Obj /\ Used(o) /\ proxy[o].id = m.id
             /\ \A x \in Obj : /\ Used(x)' <=> Used(x)
                               /\ x # o => proxy'[x] = proxy[x]
                               /\ x = o => Used(x) /\ Takes(proxy[x], proxy'[x], m)
             /\ UNCHANGED <<serverVars, serverSession, toServer, toClient, sessionVars,
                    attachedResources, attachRequests, decoding, restore, reattaching,
                    late, held, disturbed>>
<1> DEFINE m == notificationQueue[1]
           o == attachedResources[m.id]
<1>1. TypeOK /\ TypeOK' /\ UsedWhereNamed /\ ProxiesTrue /\ Routed
  BY DEF Sound, Prompted
<1>2. /\ notificationQueue # <<>> /\ 1 \in DOMAIN notificationQueue
      /\ m \in Notification /\ m.id \in Id
      /\ notificationQueue' = Tail(notificationQueue)
      /\ o = None => proxy' = proxy
      /\ o # None => /\ o \in Obj /\ proxy[o] \in Proxy /\ Taken(proxy[o], m) \in Proxy
                     /\ proxy' = [proxy EXCEPT ![o] = Taken(proxy[o], m)]
  BY Processes
<1>3. m.gen \in Generation /\ m.rev \in Nat
  BY <1>2 DEF Notification, Revision
<1>4. notificationQueue \in Seq(Notification)
  BY <1>1 DEF TypeOK
<1>5. /\ \A k \in DOMAIN notificationQueue' :
            k \in Nat /\ k + 1 \in DOMAIN notificationQueue
            /\ notificationQueue'[k] = notificationQueue[k + 1]
      /\ \A k \in DOMAIN notificationQueue : k # 1 =>
            k \in Nat /\ k - 1 \in DOMAIN notificationQueue'
            /\ notificationQueue'[k - 1] = notificationQueue[k]
      /\ Len(notificationQueue) \in Nat
      /\ Len(notificationQueue') = Len(notificationQueue) - 1
  BY <1>2, <1>4
<1>6. UNCHANGED <<serverVars, serverSession, toServer, toClient, sessionVars,
                  attachedResources, attachRequests, decoding, restore, reattaching,
                  late, held, disturbed>>
  BY DEF ProcessNotification
<1>7. proxy \in [Obj -> Proxy \cup {Unused}]
  BY <1>1 DEF TypeOK
<1>8. CASE o = None
  <2>1. \A x \in Obj : (Used(x)' <=> Used(x)) /\ x # o /\ proxy'[x] = proxy[x]
    BY <1>2, <1>8 DEF Used
  <2> QED BY <1>2, <1>3, <1>5, <1>6, <1>8, <2>1
<1>9. CASE o # None
  <2> DEFINE s == Taken(proxy[o], m)
  <2>1. o \in Obj /\ proxy[o] \in Proxy /\ s \in Proxy /\ proxy' = [proxy EXCEPT ![o] = s]
        /\ Used(o)
    BY <1>2, <1>9, ProxyType DEF Used
  <2>2. proxy[o].gen = m.gen
    BY <1>1, <1>2, <1>9 DEF Routed, Settled
  <2>3. proxy[o].id = m.id
    BY <1>1, <1>2, <1>9 DEF ProxiesTrue
  <2>4. Takes(proxy[o], s, m)
    BY <1>1, <1>2, <2>1, <2>2, TakenTakes DEF ProxiesTrue
  <2> HIDE DEF s, o, m
  <2>5. /\ proxy'[o] = s /\ proxy'[o] # Unused
        /\ \A q \in Obj : q # o => proxy'[q] = proxy[q]
    BY <1>7, <2>1, ProxyType
  <2>6. \A x \in Obj : /\ Used(x)' <=> Used(x)
                       /\ x # o => proxy'[x] = proxy[x]
                       /\ x = o => Used(x) /\ Takes(proxy[x], proxy'[x], m)
    BY <2>1, <2>4, <2>5 DEF Used
  <2> USE DEF o, m
  <2> QED BY <1>2, <1>3, <1>5, <1>6, <2>1, <2>3, <2>6
<1> QED BY <1>8, <1>9

LEMMA ProcessKeeps ==
  ASSUME Sound, Sound', Prompted, ProcessNotification
  PROVE  /\ \A x \in Obj : Used(x) => /\ proxy'[x].link = proxy[x].link
                                      /\ proxy'[x].id = proxy[x].id
                                      /\ proxy'[x].gen = proxy[x].gen
                                      /\ proxy[x].rev <= proxy'[x].rev
                                      /\ proxy[x].rev \in Nat /\ proxy'[x].rev \in Nat
         /\ \A i \in Id : \A g : Settled(i, g)' <=> Settled(i, g)
<1> DEFINE m == notificationQueue[1]
           o == attachedResources[m.id]
<1>1. TypeOK /\ TypeOK' /\ UsedWhereNamed /\ UsedWhereNamed'
  BY DEF Sound
<1>2. /\ \A x \in Obj : /\ Used(x)' <=> Used(x)
                        /\ x # o => proxy'[x] = proxy[x]
                        /\ x = o => Used(x) /\ Takes(proxy[x], proxy'[x], m)
      /\ UNCHANGED attachedResources
  BY ProcessView
<1> HIDE DEF o, m
<1>3. ASSUME NEW x \in Obj, Used(x)
      PROVE  /\ proxy'[x].link = proxy[x].link
             /\ proxy'[x].id = proxy[x].id
             /\ proxy'[x].gen = proxy[x].gen
             /\ proxy[x].rev <= proxy'[x].rev
             /\ proxy[x].rev \in Nat /\ proxy'[x].rev \in Nat
  <2>1. proxy[x].rev \in Nat
    BY <1>1, <1>3, ProxyFacts
  <2>2. proxy'[x] \in Proxy
    BY <1>1, <1>2, <1>3 DEF TypeOK, Used
  <2>3. proxy'[x].rev \in Nat
    BY <2>2, ProxyType DEF Revision
  <2> QED BY <1>2, <1>3, <2>1, <2>3 DEF Takes
<1>4. ASSUME NEW i \in Id, attachedResources[i] # None
      PROVE  attachedResources[i] \in Obj /\ Used(attachedResources[i])
  BY <1>1, <1>4, ProxyFacts
<1>5. \A i \in Id : \A g : Settled(i, g)' <=> Settled(i, g)
  BY <1>2, <1>3, <1>4 DEF Settled
<1> QED BY <1>3, <1>5

LEMMA ProcessNames ==
  ASSUME Sound, Sound', Prompted, ProcessNotification
  PROVE  /\ ReattachFits' /\ HeldWhereNamed' /\ decoding' = {}
         /\ OneName' /\ ProxiesTrue' /\ Routed'
<1> DEFINE m == notificationQueue[1]
           o == attachedResources[m.id]
<1>1. TypeOK /\ TypeOK' /\ OneName /\ ProxiesTrue /\ Routed /\ UsedWhereNamed
  BY DEF Sound, Prompted
<1>2. /\ m.gen \in Generation /\ m.rev \in Nat /\ 1 \in DOMAIN notificationQueue
      /\ \A k \in DOMAIN notificationQueue' :
            k + 1 \in DOMAIN notificationQueue /\ notificationQueue'[k] = notificationQueue[k + 1]
      /\ \A x \in Obj : /\ Used(x)' <=> Used(x)
                        /\ x # o => proxy'[x] = proxy[x]
                        /\ x = o => Used(x) /\ Takes(proxy[x], proxy'[x], m)
      /\ UNCHANGED <<serverVars, serverSession, toServer, toClient, sessionVars,
                  attachedResources, attachRequests, decoding, restore, reattaching,
                  late, held, disturbed>>
  BY ProcessView
<1>3. /\ \A x \in Obj : Used(x) => /\ proxy'[x].link = proxy[x].link
                                   /\ proxy'[x].id = proxy[x].id
                                   /\ proxy'[x].gen = proxy[x].gen
                                   /\ proxy[x].rev <= proxy'[x].rev
                                   /\ proxy[x].rev \in Nat /\ proxy'[x].rev \in Nat
      /\ \A i \in Id : \A g : Settled(i, g)' <=> Settled(i, g)
  BY ProcessKeeps
<1> HIDE DEF o
<1>4. HeldWhereNamed' /\ decoding' = {}
  BY <1>1, <1>2, SameHeld DEF Prompted
<1>5. ReattachFits'
  <2> DEFINE x == reattaching
  <2>1. Asked' = Asked /\ Answered' = Answered
    BY <1>2 DEF Asked, Answered
  <2>2. CASE x = None
    BY <1>2, <2>1, <2>2 DEF ReattachFits, Sound, OneReattach
  <2>3. CASE x # None
    <3>1. x \in Obj /\ Used(x)
      BY <1>1, <2>3, ProxyFacts
    <3>2. /\ proxy'[x].link = proxy[x].link /\ proxy'[x].gen = proxy[x].gen
          /\ proxy[x].rev <= proxy'[x].rev
          /\ proxy[x].rev \in Nat /\ proxy'[x].rev \in Nat
      BY <1>3, <3>1
    <3>3. \A k \in Asked' : AsksFor(proxy'[x], toServer'[k])
      <4>1. toServer \in Seq(Request)
        BY <1>1 DEF TypeOK
      <4>2. \A k \in Asked : toServer[k].rev \in Nat
        BY <4>1 DEF Asked, Request, DirectRequest, ReattachRequest, Revision
      <4>3. \A k \in Asked : AsksFor(proxy[x], toServer[k])
        BY DEF Prompted, ReattachFits
      <4> QED BY <1>2, <2>1, <3>2, <4>2, <4>3 DEF AsksFor
    <3>4. querying' # None => AsksFor(proxy'[x], querying')
      <4>1. querying # None => querying.rev \in Nat
        BY <1>1 DEF TypeOK, ReattachRequest, Revision
      <4>2. querying # None => AsksFor(proxy[x], querying)
        BY DEF Prompted, ReattachFits
      <4> QED BY <1>2, <3>2, <4>1, <4>2 DEF AsksFor
    <3>5. ASSUME NEW k \in Answered', toClient'[k].type = "reattached"
          PROVE  /\ toClient'[k].link = proxy'[x].link
                 /\ proxy'[x].gen = toClient'[k].gen => proxy'[x].rev <= toClient'[k].rev
                 /\ proxy'[x].gen # toClient'[k].gen => DOMAIN toClient'[k].values = Prop
      <4>1. /\ k \in DOMAIN toClient /\ toClient' = toClient /\ Carries(k)
            /\ k \in Answered /\ toClient[k].type = "reattached"
        BY <1>2, <2>1, <3>5 DEF Answered, Carries, IsAnswer, AnswerTypes
      <4>2. /\ toClient[k].link = proxy[x].link
            /\ proxy[x].gen = toClient[k].gen => proxy[x].rev <= toClient[k].rev
            /\ proxy[x].gen # toClient[k].gen => DOMAIN toClient[k].values = Prop
        BY <4>1 DEF Prompted, ReattachFits
      <4>3. ASSUME proxy[x].gen = toClient[k].gen, x = o PROVE m.rev <= toClient[k].rev
        <5>1. m.gen = toClient[k].gen
          BY <1>2, <3>1, <4>3 DEF Takes
        <5> QED BY <1>2, <4>1, <5>1 DEF Prompted, RevisionsInOrder
      <4>4. proxy'[x].rev = proxy[x].rev \/ (x = o /\ proxy'[x].rev = m.rev)
        BY <1>2, <3>1 DEF Takes
      <4> QED BY <3>2, <4>1, <4>2, <4>3, <4>4
    <3> QED BY <1>2, <3>3, <3>4, <3>5 DEF ReattachFits
  <2> QED BY <2>2, <2>3
<1>6. OneName'
  <2>1. \A i, g : Named(i, g)' => Named(i, g)
    BY <1>2 DEF Named, Live, Carries, IsAnswer, IsNotification
  <2> QED BY <1>1, <1>2, <2>1 DEF OneName, Live, IsAnswer
<1>7. ProxiesTrue'
  <2>1. ASSUME NEW x \in Obj, Used(x)'
        PROVE  LET s == proxy'[x] IN
               /\ s.gen[1] = s.link /\ s.gen[2] <= put'[s.link]
               /\ \A p \in Prop : /\ s.cache[p] # NoStamp => s.cache[p].gen[1] = s.link
                                  /\ s.propertyCursors[p].gen = s.gen => s.propertyCursors[p].rev <= s.rev
                                  /\ s.cache[p].gen = s.gen => s.propertyCursors[p] = s.cache[p]
               /\ \A l \in Link : Live(l)' /\ instance'[l].gen = s.gen => s.id = instance'[l].id
    <3> DEFINE r == proxy[x]
               s == proxy'[x]
    <3>1. /\ Used(x) /\ s.link = r.link /\ s.id = r.id /\ s.gen = r.gen
          /\ r.rev <= s.rev /\ r.rev \in Nat /\ s.rev \in Nat
      BY <1>2, <1>3, <2>1
    <3>2. /\ r.gen[1] = r.link /\ r.gen[2] <= put[r.link]
          /\ \A p \in Prop : /\ r.cache[p] # NoStamp => r.cache[p].gen[1] = r.link
                             /\ r.propertyCursors[p].gen = r.gen => r.propertyCursors[p].rev <= r.rev
                             /\ r.cache[p].gen = r.gen => r.propertyCursors[p] = r.cache[p]
          /\ \A l \in Link : Live(l) /\ instance[l].gen = r.gen => r.id = instance[l].id
      BY <1>1, <3>1 DEF ProxiesTrue
    <3>3. s.gen[1] = s.link /\ s.gen[2] <= put'[s.link]
      BY <1>2, <3>1, <3>2
    <3>4. \A l \in Link : Live(l)' /\ instance'[l].gen = s.gen => s.id = instance'[l].id
      BY <1>2, <3>1, <3>2 DEF Live
    <3>5. ASSUME NEW p \in Prop
          PROVE  /\ s.cache[p] # NoStamp => s.cache[p].gen[1] = s.link
                 /\ s.propertyCursors[p].gen = s.gen => s.propertyCursors[p].rev <= s.rev
                 /\ s.cache[p].gen = s.gen => s.propertyCursors[p] = s.cache[p]
      <4>1. CASE s.cache[p] = r.cache[p] /\ s.propertyCursors[p] = r.propertyCursors[p]
        <5>1. r.propertyCursors[p] \in Stamp \cup {NoStamp}
          BY <1>1, <3>1, ProxyFacts, ProxyType
        <5>2. r.propertyCursors[p].rev \in Nat
          BY <5>1 DEF Stamp, NoStamp, Revision
        <5> QED BY <3>1, <3>2, <4>1, <5>2
      <4>2. CASE /\ x = o /\ s.cache[p] = [gen |-> m.gen, rev |-> m.rev]
                 /\ s.propertyCursors[p] = [gen |-> m.gen, rev |-> m.rev]
        <5>1. r.gen = m.gen /\ m.rev <= s.rev
          BY <1>2, <4>2 DEF Takes
        <5> QED BY <3>1, <3>2, <4>2, <5>1
      <4> QED BY <1>2, <3>1, <4>1, <4>2 DEF Takes
    <3> QED BY <3>3, <3>4, <3>5
  <2>2. ASSUME NEW i \in Id, attachedResources'[i] # None
        PROVE  proxy'[attachedResources'[i]].id = i
    <3>1. attachedResources[i] \in Obj /\ Used(attachedResources[i])
      BY <1>1, <1>2, <2>2, ProxyFacts
    <3> QED BY <1>1, <1>2, <1>3, <2>2, <3>1 DEF ProxiesTrue
  <2> QED BY <2>1, <2>2 DEF ProxiesTrue
<1>8. Routed'
  <2>1. \A k \in DOMAIN notificationQueue' :
            Settled(notificationQueue[k].id, notificationQueue[k].gen)'
    <3> SUFFICES ASSUME NEW k \in DOMAIN notificationQueue'
                 PROVE  Settled(notificationQueue[k].id, notificationQueue[k].gen)'
      OBVIOUS
    <3>1. PICK i \in Id, g \in Generation : i = notificationQueue[k + 1].id /\ g = notificationQueue[k + 1].gen
      BY <1>1, <1>2, QueueFacts
    <3>2. Settled(i, g)'
      BY <1>1, <1>2, <1>3, <3>1 DEF Routed
    <3> QED BY <1>2, <3>1, <3>2 DEF Settled
  <2>2. \A i, n : Announced(i, n)' <=> Announced(i, n)
    BY <1>2 DEF Announced, IsAnswer
  <2>3. ASSUME NEW k \in DOMAIN toClient', IsNotification(k)'
        PROVE  Announced(toClient[k].id, k)' \/ Settled(toClient[k].id, toClient[k].gen)'
    <3>1. PICK i \in Id, g \in Generation : i = toClient[k].id /\ g = toClient[k].gen
      BY <1>1, <1>2, <2>3, MessageFacts DEF Carries, IsNotification
    <3>2. Announced(i, k) \/ Settled(i, g)
      BY <1>1, <1>2, <2>3, <3>1 DEF Routed, IsNotification
    <3>3. Announced(i, k)' \/ Settled(i, g)'
      BY <1>3, <2>2, <3>2
    <3> QED BY <1>2, <3>1, <3>3 DEF Announced, Settled
  <2>4. ASSUME NEW l \in Link, Live(l)', instance'[l].id \in subscriptions'
        PROVE  \/ Announced(instance[l].id, Len(toClient))'
               \/ Settled(instance[l].id, instance[l].gen)'
    <3>0. Len(toClient) \in Nat
      BY <1>1, MessageFacts
    <3>1. PICK i \in Id, g \in Generation, n \in Nat :
              i = instance[l].id /\ g = instance[l].gen /\ n = Len(toClient)
      BY <1>1, <1>2, <2>4, <3>0, InstanceFacts DEF Live
    <3>2. Announced(i, n) \/ Settled(i, g)
      BY <1>1, <1>2, <2>4, <3>1 DEF Routed, Live
    <3>3. Announced(i, n)' \/ Settled(i, g)'
      BY <1>3, <2>2, <3>2
    <3> QED BY <1>2, <3>1, <3>3 DEF Announced, Settled
  <2> QED BY <2>1, <2>3, <2>4 DEF Routed
<1> QED BY <1>4, <1>5, <1>6, <1>7, <1>8

LEMMA ProcessAnswers ==
  ASSUME Sound, Sound', Prompted, ProcessNotification
  PROVE  InOrder' /\ RevisionsInOrder' /\ AnswersComplete'
<1> DEFINE m == notificationQueue[1]
           o == attachedResources[m.id]
<1>1. TypeOK /\ TypeOK' /\ UsedWhereNamed /\ InOrder /\ RevisionsInOrder /\ AnswersComplete
  BY DEF Sound, Prompted
<1>2. /\ m \in Notification /\ m.gen \in Generation /\ m.rev \in Nat
      /\ 1 \in DOMAIN notificationQueue
      /\ \A k \in DOMAIN notificationQueue' :
            k + 1 \in DOMAIN notificationQueue /\ notificationQueue'[k] = notificationQueue[k + 1]
      /\ \A x \in Obj : /\ Used(x)' <=> Used(x)
                        /\ x # o => proxy'[x] = proxy[x]
                        /\ x = o => Used(x) /\ Takes(proxy[x], proxy'[x], m)
      /\ UNCHANGED <<serverVars, serverSession, toServer, toClient, sessionVars,
                  attachedResources, attachRequests, decoding, restore, reattaching,
                  late, held, disturbed>>
  BY ProcessView
<1> HIDE DEF o
<1>3. /\ \A k : Live(k)' <=> Live(k)
      /\ \A k \in DOMAIN toClient : /\ IsAnswer(k)' <=> IsAnswer(k)
                                    /\ Carries(k)' <=> Carries(k)
                                    /\ \A l \in Link : About(k, l)' <=> About(k, l)
      /\ \A k \in DOMAIN notificationQueue', l \in Link :
            QueuedAbout(k, l)' <=> QueuedAbout(k + 1, l)
  BY <1>2 DEF Live, IsAnswer, IsNotification, Carries, About, QueuedAbout
<1>4. InOrder'
  <2> SUFFICES ASSUME NEW l \in Link, Live(l)'
               PROVE  /\ \A q \in Prop : instance'[l].age[q] <= instance'[l].rev
                      /\ \A k \in DOMAIN toClient' :
                            About(k, l)' => toClient'[k].rev <= instance'[l].rev
                      /\ \A k \in DOMAIN notificationQueue' : QueuedAbout(k, l)' =>
                            notificationQueue'[k].rev <= instance'[l].rev
                      /\ \A k \in DOMAIN toClient' :
                            toClient'[k].type = "property" /\ About(k, l)' =>
                               toClient'[k].rev <= instance'[l].age[toClient'[k].prop]
                      /\ \A k \in DOMAIN notificationQueue' :
                            notificationQueue'[k].type = "property" /\ QueuedAbout(k, l)' =>
                               notificationQueue'[k].rev
                                  <= instance'[l].age[notificationQueue'[k].prop]
    BY Zenon DEF InOrder
  <2>1. Live(l) /\ instance' = instance /\ toClient' = toClient
    BY <1>2, <1>3
  <2>2. ASSUME NEW k \in DOMAIN notificationQueue', QueuedAbout(k, l)'
        PROVE  /\ notificationQueue'[k].rev <= instance'[l].rev
               /\ notificationQueue'[k].type = "property" =>
                     notificationQueue'[k].rev <= instance'[l].age[notificationQueue'[k].prop]
    BY <1>1, <1>2, <1>3, <2>1, <2>2 DEF InOrder
  <2>3. /\ \A q \in Prop : instance[l].age[q] <= instance[l].rev
        /\ \A k \in DOMAIN toClient : About(k, l) => toClient[k].rev <= instance[l].rev
        /\ \A k \in DOMAIN toClient :
              toClient[k].type = "property" /\ About(k, l) =>
                 toClient[k].rev <= instance[l].age[toClient[k].prop]
    BY <1>1, <2>1 DEF InOrder
  <2> QED BY <1>3, <2>1, <2>2, <2>3
<1>5. RevisionsInOrder'
  <2>1. ASSUME NEW j \in DOMAIN notificationQueue', NEW k \in DOMAIN toClient',
               Carries(k)', notificationQueue'[j].gen = toClient'[k].gen
        PROVE  notificationQueue'[j].rev <= toClient'[k].rev
    BY <1>1, <1>2, <1>3, <2>1 DEF RevisionsInOrder
  <2>2. ASSUME NEW j \in DOMAIN toClient', NEW k \in DOMAIN toClient',
               j < k, Carries(j)', Carries(k)', toClient'[j].gen = toClient'[k].gen
        PROVE  toClient'[j].rev <= toClient'[k].rev
    BY <1>1, <1>2, <1>3, <2>2 DEF RevisionsInOrder
  <2> QED BY <2>1, <2>2 DEF RevisionsInOrder
<1>6. AnswersComplete'
  (* What the proxy in the reattach has, a newer change does not replace. *)
  <2>1. ASSUME NEW k \in DOMAIN toClient, IsAnswer(k), NEW l \in Link, Live(l), About(k, l),
               Brings(toClient[k], l), NEW q \in Prop, instance[l].age[q] <= toClient[k].rev,
               q \notin DOMAIN toClient[k].values
        PROVE  /\ toClient[k].type = "reattached"
               /\ proxy'[reattaching].cache[q] = [gen |-> toClient[k].gen,
                                                  rev |-> instance[l].age[q]]
    <3> DEFINE x == reattaching
               r == proxy[x]
               s == proxy'[x]
    <3>1. /\ toClient[k].type = "reattached"
          /\ r.cache[q] = [gen |-> toClient[k].gen, rev |-> instance[l].age[q]]
      BY <2>1 DEF Brings
    <3>2. k \in Answered /\ x \in Obj /\ Used(x)
      <4>1. k \in Answered
        BY <3>1 DEF Answered, OutcomeTypes
      <4> QED BY <1>1, <4>1, ProxyFacts DEF Sound, OneReattach
    <3>3. r.gen = toClient[k].gen
      BY <2>1, <3>1, <3>2 DEF Prompted, ReattachFits
    <3>4. CASE s.cache[q] = r.cache[q]
      BY <3>1, <3>4
    <3>5. CASE x = o /\ m.type = "property" /\ q = m.prop /\ ~Seen(r, m)
      <4>1. m.gen = instance[l].gen
        BY <1>2, <2>1, <3>2, <3>3, <3>5 DEF Takes, About
      <4>2. m.rev <= instance[l].age[q]
        BY <1>1, <1>2, <2>1, <3>5, <4>1 DEF InOrder, QueuedAbout
      <4>3. r.propertyCursors[q] = r.cache[q]
        BY <3>1, <3>2, <3>3 DEF Prompted, ProxiesTrue
      <4>4. instance[l].age[q] \in Nat
        BY <1>1, <2>1, InstanceFacts
      <4>5. Seen(r, m)
        BY <1>2, <2>1, <3>1, <3>5, <4>1, <4>2, <4>3, <4>4 DEF Seen, About
      <4> QED BY <3>5, <4>5
    <3> QED BY <1>2, <3>1, <3>2, <3>4, <3>5 DEF Takes
  <2>2. ASSUME NEW k \in DOMAIN toClient, IsAnswer(k), NEW l \in Link, Live(l), About(k, l)
        PROVE  Brings(toClient[k], l)'
    <3>1. Brings(toClient[k], l)
      BY <1>1, <2>2 DEF AnswersComplete
    <3>2. \A q \in Prop : instance[l].age[q] <= toClient[k].rev =>
              IF q \in DOMAIN toClient[k].values
                THEN toClient[k].values[q] = instance[l].age[q]
                ELSE /\ toClient[k].type = "reattached"
                     /\ proxy'[reattaching].cache[q] = [gen |-> toClient[k].gen,
                                                        rev |-> instance[l].age[q]]
      BY <2>1, <2>2, <3>1 DEF Brings
    <3> QED BY <1>2, <3>2 DEF Brings
  <2> QED BY <1>1, <1>2, <1>3, <2>2 DEF AnswersComplete
<1> QED BY <1>4, <1>5, <1>6

LEMMA ProcessCovers ==
  ASSUME Sound, Sound', Prompted, ProcessNotification
  PROVE  AllCovered'
<1> DEFINE m == notificationQueue[1]
           o == attachedResources[m.id]
<1>1. TypeOK /\ TypeOK' /\ UsedWhereNamed /\ InOrder /\ AllCovered /\ ProxiesTrue
      /\ ChangesFollowCursor
  BY DEF Sound, Prompted
<1>2. /\ m \in Notification /\ m.id \in Id /\ m.gen \in Generation /\ m.rev \in Nat
      /\ 1 \in DOMAIN notificationQueue
      /\ o # None => o \in Obj /\ Used(o) /\ proxy[o].id = m.id
      /\ \A x \in Obj : /\ Used(x)' <=> Used(x)
                        /\ x # o => proxy'[x] = proxy[x]
                        /\ x = o => Used(x) /\ Takes(proxy[x], proxy'[x], m)
      /\ UNCHANGED <<serverVars, attachedResources>>
  BY ProcessView
<1>3. /\ \A x \in Obj : Used(x) => /\ proxy'[x].link = proxy[x].link
                                   /\ proxy'[x].gen = proxy[x].gen
                                   /\ proxy[x].rev <= proxy'[x].rev
                                   /\ proxy[x].rev \in Nat /\ proxy'[x].rev \in Nat
  BY ProcessKeeps
<1> SUFFICES ASSUME NEW x \in Obj, Used(x), NEW l \in Link, l = proxy[x].link,
                    Live(l), proxy[x].gen = instance[l].gen
             PROVE  /\ proxy'[x].rev <= instance[l].rev
                    /\ \A p \in Prop : instance[l].age[p] <= proxy'[x].rev =>
                          proxy'[x].cache[p] = [gen |-> instance[l].gen,
                                                rev |-> instance[l].age[p]]
  <2>1. \A x \in Obj : Used(x) => proxy[x].link \in Link
    BY <1>1, ProxyFacts
  <2> QED BY <1>2, <1>3, <2>1 DEF AllCovered, CursorCovered, Live
<1> DEFINE r == proxy[x]
           s == proxy'[x]
<1>4. /\ r.rev <= instance[l].rev
      /\ \A p \in Prop : instance[l].age[p] <= r.rev =>
            r.cache[p] = [gen |-> instance[l].gen, rev |-> instance[l].age[p]]
  BY <1>1 DEF AllCovered, CursorCovered
<1>5. CASE x # o
  BY <1>2, <1>4, <1>5
<1>6. CASE x = o
  <2>1. Takes(r, s, m) /\ r.rev \in Nat /\ s.rev \in Nat
    BY <1>2, <1>3, <1>6
  <2>2. QueuedAbout(1, l) /\ m.gen = instance[l].gen
    BY <2>1 DEF Takes, QueuedAbout
  <2>3. m.rev <= instance[l].rev /\ (m.type = "property" => m.rev <= instance[l].age[m.prop])
    BY <1>1, <1>2, <2>2 DEF InOrder
  <2>4. s.rev <= instance[l].rev
    BY <1>4, <2>1, <2>3 DEF Takes
  <2>5. /\ attachedResources[instance[l].id] = x /\ x # None /\ proxy[x].id = instance[l].id
    <3>1. proxy[x].id = instance[l].id
      BY <1>1 DEF ProxiesTrue
    <3> QED BY <1>2, <1>6, <3>1
  <2>6. ASSUME NEW p \in Prop, instance[l].age[p] <= s.rev
        PROVE  s.cache[p] = [gen |-> instance[l].gen, rev |-> instance[l].age[p]]
    <3>1. instance[l].age[p] \in Nat
      BY <1>1, InstanceFacts
    <3>2. CASE instance[l].age[p] <= r.rev
      <4>1. r.cache[p] = [gen |-> instance[l].gen, rev |-> instance[l].age[p]]
        BY <1>4, <3>2
      <4>2. CASE s.cache[p] = r.cache[p]
        BY <4>1, <4>2
      <4>3. CASE m.type = "property" /\ p = m.prop /\ ~Seen(r, m)
        <5>1. r.propertyCursors[p] = r.cache[p]
          BY <1>1, <4>1 DEF ProxiesTrue
        <5> QED BY <1>2, <2>2, <2>3, <3>1, <4>1, <4>3, <5>1 DEF Seen
      <4> QED BY <2>1, <4>2, <4>3 DEF Takes
    <3>3. CASE instance[l].age[p] > r.rev
      <4>1. s.rev = m.rev /\ instance[l].age[p] <= m.rev /\ s # r
        BY <2>1, <2>6, <3>1, <3>3 DEF Takes
      <4>2. Queued(1, l, p)
        <5>1. \A n \in DOMAIN notificationQueue :
                  QueuedAbout(n, l) /\ instance[l].age[p] <= notificationQueue[n].rev =>
                      Queued(n, l, p)
          BY <1>1, <2>5, <3>3 DEF ChangesFollowCursor
        <5> QED BY <1>2, <2>2, <4>1, <5>1
      <4>3. IsChange(m, l, p)
        <5>1. \A k \in DOMAIN notificationQueue : k <= 1 => k = 1
          BY <1>1, QueueFacts
        <5> QED BY <4>2, <5>1 DEF Queued
      <4> QED BY <2>1, <2>2, <4>1, <4>3 DEF Takes, IsChange
    <3> QED BY <2>1, <3>1, <3>2, <3>3
  <2> QED BY <2>4, <2>6
<1> QED BY <1>5, <1>6

LEMMA ProcessFollows ==
  ASSUME Sound, Sound', Prompted, ProcessNotification
  PROVE  ChangesFollowAnswers' /\ ChangesFollowCursor'
<1> DEFINE m == notificationQueue[1]
           o == attachedResources[m.id]
<1>1. TypeOK /\ TypeOK' /\ UsedWhereNamed /\ OneName /\ ProxiesTrue
  BY DEF Sound, Prompted
<1>2. /\ m \in Notification /\ m.id \in Id /\ m.gen \in Generation /\ m.rev \in Nat
      /\ 1 \in DOMAIN notificationQueue
      /\ \A k \in DOMAIN notificationQueue' :
            k \in Nat /\ k + 1 \in DOMAIN notificationQueue
            /\ notificationQueue'[k] = notificationQueue[k + 1]
      /\ \A k \in DOMAIN notificationQueue : k # 1 =>
            k \in Nat /\ k - 1 \in DOMAIN notificationQueue'
            /\ notificationQueue'[k - 1] = notificationQueue[k]
      /\ Len(notificationQueue) \in Nat
      /\ Len(notificationQueue') = Len(notificationQueue) - 1
      /\ o # None => o \in Obj /\ Used(o) /\ proxy[o].id = m.id
      /\ \A x \in Obj : /\ Used(x)' <=> Used(x)
                        /\ x # o => proxy'[x] = proxy[x]
                        /\ x = o => Used(x) /\ Takes(proxy[x], proxy'[x], m)
      /\ UNCHANGED <<serverVars, serverSession, toServer, toClient, sessionVars,
                  attachedResources, attachRequests, decoding, restore, reattaching,
                  late, held, disturbed>>
  BY ProcessView
<1>3. /\ \A x \in Obj : Used(x) => /\ proxy'[x].gen = proxy[x].gen
                                   /\ proxy[x].rev <= proxy'[x].rev
                                   /\ proxy[x].rev \in Nat /\ proxy'[x].rev \in Nat
  BY ProcessKeeps
<1> HIDE DEF o
<1>4. \A i, n, l, q : Comes(i, n, l, q)' <=> Comes(i, n, l, q)
  <2>1. UNCHANGED <<toClient, instance>>
    BY <1>2
  <2> QED BY <2>1 DEF Comes, IsAnswer, IsNotification, Carries, About, IsChange
<1>5. ChangesFollowAnswers'
  <2>1. UNCHANGED <<toClient, instance, subscriptions>> /\ ChangesFollowAnswers
    BY <1>2 DEF Prompted
  <2> QED BY <2>1 DEF ChangesFollowAnswers, Live, About, IsAnswer, IsNotification, Carries,
                      Comes, IsChange
<1>6. ChangesFollowCursor'
  <2> SUFFICES ASSUME NEW l \in Link, Live(l)',
                      attachedResources'[instance'[l].id] # None,
                      proxy'[attachedResources'[instance'[l].id]].gen = instance'[l].gen,
                      NEW q \in Prop,
                      instance'[l].age[q] > proxy'[attachedResources'[instance'[l].id]].rev
               PROVE  /\ instance'[l].id \in subscriptions' =>
                            \/ Comes(0, Len(toClient), l, q)'
                            \/ Queued(Len(notificationQueue), l, q)'
                      /\ \A n \in DOMAIN toClient' :
                            About(n, l)' /\ instance'[l].age[q] <= toClient'[n].rev =>
                               \/ Comes(0, n, l, q)'
                               \/ Queued(Len(notificationQueue), l, q)'
                      /\ \A n \in DOMAIN notificationQueue' :
                            QueuedAbout(n, l)' /\ instance'[l].age[q] <= notificationQueue'[n].rev =>
                               Queued(n, l, q)'
    BY Zenon DEF ChangesFollowCursor
  <2> DEFINE x == attachedResources[instance[l].id]
  <2>1. /\ Live(l) /\ UNCHANGED <<instance, toClient, subscriptions, attachedResources>>
        /\ x # None /\ x \in Obj /\ Used(x)
        /\ proxy[x].gen = instance[l].gen /\ proxy'[x].gen = instance[l].gen
        /\ instance[l].age[q] > proxy'[x].rev /\ instance[l].age[q] > proxy[x].rev
        /\ proxy'[x].rev \in Nat /\ instance[l].age[q] \in Nat /\ instance[l].id \in Id
        /\ instance[l].gen \in Generation
    <3>1. /\ Live(l) /\ UNCHANGED <<instance, toClient, subscriptions, attachedResources>>
      BY <1>2 DEF Live
    <3>2. /\ instance[l].id \in Id /\ instance[l].age[q] \in Nat /\ instance[l].gen \in Generation
      BY <1>1, <3>1, InstanceFacts
    <3>3. x # None /\ x \in Obj /\ Used(x)
      BY <1>1, <3>1, <3>2, ProxyFacts
    <3> QED BY <1>3, <3>1, <3>2, <3>3
  <2>2. /\ instance[l].id \in subscriptions =>
              Comes(0, Len(toClient), l, q) \/ Queued(Len(notificationQueue), l, q)
        /\ \A n \in DOMAIN toClient :
              About(n, l) /\ instance[l].age[q] <= toClient[n].rev =>
                  Comes(0, n, l, q) \/ Queued(Len(notificationQueue), l, q)
        /\ \A n \in DOMAIN notificationQueue :
              QueuedAbout(n, l) /\ instance[l].age[q] <= notificationQueue[n].rev => Queued(n, l, q)
    BY <2>1 DEF Prompted, ChangesFollowCursor
  (* The notification that is processed is not the change missed.        *)
  <2>3. ~IsChange(m, l, q)
    <3> SUFFICES ASSUME IsChange(m, l, q) PROVE FALSE
      OBVIOUS
    <3>1. m.gen = instance[l].gen /\ m.rev = instance[l].age[q]
      BY DEF IsChange
    <3>2. Named(m.id, m.gen) /\ Named(instance[l].id, m.gen)
      BY <1>2, <2>1, <3>1 DEF Named
    <3>3. m.id = instance[l].id
      BY <1>1, <1>2, <2>1, <3>2 DEF OneName
    <3>4. x = o
      BY <3>3 DEF o
    <3>5. m.rev <= proxy'[x].rev
      BY <1>2, <2>1, <3>4 DEF Takes
    <3> QED BY <2>1, <3>1, <3>5
  <2>4. ASSUME NEW n \in Nat, NEW i \in Nat, n <= i + 1, Queued(n, l, q)
        PROVE  Queued(i, l, q)'
    <3>1. PICK k \in DOMAIN notificationQueue : k <= n /\ IsChange(notificationQueue[k], l, q)
      BY <2>4 DEF Queued
    <3>2. k # 1
      BY <2>3, <3>1
    <3>3. /\ k \in Nat /\ k - 1 \in DOMAIN notificationQueue' /\ k - 1 <= i
          /\ notificationQueue'[k - 1] = notificationQueue[k]
      BY <1>2, <2>4, <3>1, <3>2
    <3>4. IsChange(notificationQueue[k - 1], l, q)'
      BY <2>1, <3>1, <3>3 DEF IsChange
    <3> QED BY <3>3, <3>4 DEF Queued
  <2>5. Queued(Len(notificationQueue), l, q) => Queued(Len(notificationQueue), l, q)'
    <3>1. Len(notificationQueue) - 1 \in Nat
      BY <1>1, <1>2, QueueFacts
    <3>2. PICK n \in Nat : n = Len(notificationQueue')
      BY <1>2, <3>1
    <3>3. Queued(Len(notificationQueue), l, q) => Queued(n, l, q)'
      BY <1>2, <2>4, <3>2
    <3> QED BY <3>2, <3>3 DEF Queued
  <2>6. instance'[l].id \in subscriptions' =>
            Comes(0, Len(toClient), l, q)' \/ Queued(Len(notificationQueue), l, q)'
    BY <1>4, <2>1, <2>2, <2>5 DEF Comes
  <2>7. ASSUME NEW n \in DOMAIN toClient', About(n, l)',
               instance'[l].age[q] <= toClient'[n].rev
        PROVE  Comes(0, n, l, q)' \/ Queued(Len(notificationQueue), l, q)'
    <3>1. About(n, l)
      BY <2>1, <2>7 DEF About, Carries, IsAnswer, IsNotification
    <3> QED BY <1>4, <2>1, <2>2, <2>5, <2>7, <3>1
  <2>8. ASSUME NEW n \in DOMAIN notificationQueue', QueuedAbout(n, l)',
               instance'[l].age[q] <= notificationQueue'[n].rev
        PROVE  Queued(n, l, q)'
    <3>1. /\ n \in Nat /\ n + 1 \in DOMAIN notificationQueue /\ QueuedAbout(n + 1, l)
          /\ instance[l].age[q] <= notificationQueue[n + 1].rev
      BY <1>2, <2>1, <2>8 DEF QueuedAbout
    <3>2. Queued(n + 1, l, q)
      BY <2>2, <3>1
    <3> QED BY <2>4, <3>1, <3>2
  <2> QED BY <2>6, <2>7, <2>8
<1> QED BY <1>5, <1>6

LEMMA ProcessNotificationPrompted ==
  ASSUME Sound, Sound', Prompted, ProcessNotification
  PROVE  Prompted'
BY ProcessNames, ProcessAnswers, ProcessCovers, ProcessFollows DEF Prompted

-----------------------------------------------------------------------------
(* An answer is taken from the channel, decoded, and its proxy tracked.    *)

DeliverStep(o) ==
    LET m == toClient[1]
        r == proxy[o]
        s == proxy'[o]
        stamp(q) == [gen |-> m.gen, rev |-> m.values[q]] IN
    /\ \E t \in AnswerTypes : Receiving(t)
    /\ s # Unused /\ s.link = m.link /\ s.id = m.id /\ s.gen = m.gen /\ s.rev = m.rev
    /\ \A q \in Prop :
          \/ /\ q \in DOMAIN m.values
             /\ s.cache[q] = stamp(q) /\ s.propertyCursors[q] = stamp(q)
          \/ /\ q \notin DOMAIN m.values /\ m.type = "attached"
             /\ s.cache[q] = NoStamp /\ s.propertyCursors[q] = NoStamp
          \/ /\ q \notin DOMAIN m.values /\ m.type = "reattached"
             /\ o = reattaching /\ Used(o) /\ r.gen = m.gen /\ r.rev <= m.rev
             /\ s.cache[q] = r.cache[q] /\ s.propertyCursors[q] = r.propertyCursors[q]
    /\ \A x \in Obj : x # o => proxy'[x] = proxy[x]
    /\ attachedResources'[m.id] = o
    /\ \A i \in Id : i # m.id => \/ attachedResources'[i] = None
                                 \/ attachedResources'[i] = attachedResources[i] /\ attachedResources[i] # o
    /\ Answered' = {} \/ (reattaching' = reattaching /\ reattaching # o)
    /\ UNCHANGED <<instance, put, resourceCounter, subscriptions, notificationQueue>>

LEMMA DeliverView ==
  ASSUME Sound, Sound', Prompted, NEW o \in Obj, DeliverStep(o)
  PROVE  LET m == toClient[1] IN
         /\ 1 \in DOMAIN toClient /\ IsAnswer(1) /\ Carries(1) /\ ~IsNotification(1)
         /\ m \in Answer /\ m.id \in Id /\ m.gen \in Generation /\ m.link \in Link
         /\ m.rev \in Nat /\ m.gen[1] = m.link /\ m.gen # None
         /\ m.type \in AnswerTypes /\ o # None
         /\ Named(m.id, m.gen)
         /\ Kept(1)
         /\ Len(toClient) \in Nat /\ Len(toClient') \in Nat /\ Len(toClient) = Len(toClient') + 1
         /\ \A k \in DOMAIN toClient' :
               /\ k \in Nat /\ k + 1 \in DOMAIN toClient /\ toClient'[k] = toClient[k + 1]
               /\ 1 < k + 1
               /\ IsAnswer(k)' <=> IsAnswer(k + 1)
               /\ IsNotification(k)' <=> IsNotification(k + 1)
               /\ Carries(k)' <=> Carries(k + 1)
               /\ \A l \in Link : About(k, l)' <=> About(k + 1, l)
         /\ \A l : Live(l)' <=> Live(l)
<1> DEFINE m == toClient[1]
<1>1. PICK t \in AnswerTypes : Receiving(t)
  BY DEF DeliverStep
<1>2. TypeOK /\ TypeOK' /\ UNCHANGED instance /\ OneName
  BY DEF Sound, DeliverStep, Prompted
<1>3. /\ Kept(1) /\ 1 \in DOMAIN toClient /\ toClient[1].type = t
      /\ Len(toClient) \in Nat /\ Len(toClient') \in Nat /\ Len(toClient) = Len(toClient') + 1
      /\ \A k \in DOMAIN toClient' :
            /\ k \in Nat /\ k + 1 \in DOMAIN toClient /\ toClient'[k] = toClient[k + 1]
            /\ 1 < k + 1
            /\ IsAnswer(k)' <=> IsAnswer(k + 1)
            /\ IsNotification(k)' <=> IsNotification(k + 1)
            /\ Carries(k)' <=> Carries(k + 1)
            /\ \A l \in Link : About(k, l)' <=> About(k + 1, l)
      /\ \A l : Live(l)' <=> Live(l)
  BY <1>1, <1>2, ReceiveView
<1>4. IsAnswer(1) /\ Carries(1) /\ m.type \in AnswerTypes
  BY <1>1, <1>3 DEF IsAnswer, Carries
<1>5. /\ m \in Answer /\ m.id \in Id /\ m.gen \in Generation /\ m.link \in Link
      /\ m.rev \in Nat /\ ~IsNotification(1)
  BY <1>2, <1>3, <1>4, MessageFacts
<1>6. m.gen[1] = m.link
  BY <1>2, <1>3, <1>4 DEF OneName
<1>7. m.gen # None /\ o # None
  BY <1>5 DEF Generation, ResourceSyncAssumption
<1>8. Named(m.id, m.gen)
  BY <1>3, <1>4 DEF Named
<1> QED BY <1>3, <1>4, <1>5, <1>6, <1>7, <1>8

LEMMA DeliverNames ==
  ASSUME Sound, Sound', Prompted, NEW o \in Obj, DeliverStep(o)
  PROVE  OneName' /\ ProxiesTrue' /\ Routed'
<1> DEFINE m == toClient[1]
           s == proxy'[o]
<1>1. TypeOK /\ TypeOK' /\ OneName /\ ProxiesTrue /\ Routed /\ AnswersComplete
      /\ UsedWhereNamed
  BY DEF Sound, Prompted
<1>2. /\ 1 \in DOMAIN toClient /\ IsAnswer(1) /\ Carries(1)
      /\ m.id \in Id /\ m.gen \in Generation /\ m.link \in Link
      /\ m.rev \in Nat /\ m.gen[1] = m.link /\ m.gen # None /\ o # None
      /\ Named(m.id, m.gen) /\ Kept(1)
      /\ Len(toClient) \in Nat /\ Len(toClient') \in Nat /\ Len(toClient) = Len(toClient') + 1
      /\ \A k \in DOMAIN toClient' :
            /\ k \in Nat /\ k + 1 \in DOMAIN toClient /\ toClient'[k] = toClient[k + 1]
            /\ IsAnswer(k)' <=> IsAnswer(k + 1)
            /\ IsNotification(k)' <=> IsNotification(k + 1)
            /\ Carries(k)' <=> Carries(k + 1)
      /\ \A l : Live(l)' <=> Live(l)
  BY DeliverView
<1>3. UNCHANGED <<instance, put, resourceCounter, subscriptions, notificationQueue>>
  BY DEF DeliverStep
<1>4. OneName'
  <2>1. \A i, g : Named(i, g)' => Named(i, g)
    BY <1>2, <1>3 DEF Named
  <2> QED BY <1>1, <1>2, <1>3, <2>1 DEF OneName
<1>5. ProxiesTrue'
  <2>1. /\ s.gen[1] = s.link /\ s.gen[2] <= put'[s.link]
        /\ \A l \in Link : Live(l)' /\ instance'[l].gen = s.gen => s.id = instance'[l].id
    <3>1. s.gen = m.gen /\ s.link = m.link /\ s.id = m.id
      BY DEF DeliverStep
    <3>2. m.gen[2] <= put[m.gen[1]]
      BY <1>1, <1>2 DEF OneName
    <3>3. ASSUME NEW l \in Link, Live(l), instance[l].gen = m.gen
          PROVE  m.id = instance[l].id
      <4>1. instance[l].id \in Id /\ Named(instance[l].id, m.gen)
        BY <1>1, <1>2, <3>3, InstanceFacts DEF Named
      <4> QED BY <1>1, <1>2, <4>1 DEF OneName
    <3> QED BY <1>2, <1>3, <3>1, <3>2, <3>3
  <2>2. ASSUME NEW q \in Prop
        PROVE  /\ s.cache[q] # NoStamp => s.cache[q].gen[1] = s.link
               /\ s.propertyCursors[q].gen = s.gen => s.propertyCursors[q].rev <= s.rev
               /\ s.cache[q].gen = s.gen => s.propertyCursors[q] = s.cache[q]
    <3>1. s.gen = m.gen /\ s.link = m.link /\ s.rev = m.rev
      BY DEF DeliverStep
    <3>2. CASE /\ q \in DOMAIN m.values
               /\ s.cache[q] = [gen |-> m.gen, rev |-> m.values[q]]
               /\ s.propertyCursors[q] = [gen |-> m.gen, rev |-> m.values[q]]
      <4>1. m.values[q] <= m.rev
        BY <1>1, <1>2, <3>2 DEF AnswersComplete
      <4> QED BY <1>2, <3>1, <3>2, <4>1
    <3>3. CASE s.cache[q] = NoStamp /\ s.propertyCursors[q] = NoStamp
      BY <1>2, <3>1, <3>3 DEF NoStamp
    <3>4. CASE /\ Used(o) /\ proxy[o].gen = m.gen /\ proxy[o].rev <= m.rev
               /\ s.cache[q] = proxy[o].cache[q]
               /\ s.propertyCursors[q] = proxy[o].propertyCursors[q]
      <4>1. /\ proxy[o].gen[1] = proxy[o].link
            /\ proxy[o].cache[q] # NoStamp => proxy[o].cache[q].gen[1] = proxy[o].link
            /\ proxy[o].propertyCursors[q].gen = proxy[o].gen => proxy[o].propertyCursors[q].rev <= proxy[o].rev
            /\ proxy[o].cache[q].gen = proxy[o].gen => proxy[o].propertyCursors[q] = proxy[o].cache[q]
        BY <1>1, <3>4 DEF ProxiesTrue
      <4>2. proxy[o].rev \in Nat /\ proxy[o].propertyCursors[q] \in Stamp \cup {NoStamp}
        BY <1>1, <3>4, ProxyFacts, ProxyType
      <4>3. proxy[o].propertyCursors[q].rev \in Nat
        BY <4>2 DEF Stamp, NoStamp, Revision
      <4> QED BY <1>2, <3>1, <3>4, <4>1, <4>2, <4>3
    <3> QED BY <3>2, <3>3, <3>4 DEF DeliverStep
  <2>3. ASSUME NEW x \in Obj, x # o, proxy'[x] # Unused
        PROVE  LET z == proxy'[x] IN
               /\ z.gen[1] = z.link /\ z.gen[2] <= put'[z.link]
               /\ \A p \in Prop : /\ z.cache[p] # NoStamp => z.cache[p].gen[1] = z.link
                                  /\ z.propertyCursors[p].gen = z.gen => z.propertyCursors[p].rev <= z.rev
                                  /\ z.cache[p].gen = z.gen => z.propertyCursors[p] = z.cache[p]
               /\ \A l \in Link : Live(l)' /\ instance'[l].gen = z.gen => z.id = instance'[l].id
    <3>1. proxy'[x] = proxy[x] /\ Used(x)
      BY <2>3 DEF DeliverStep, Used
    <3> QED BY <1>1, <1>2, <1>3, <3>1 DEF ProxiesTrue
  <2>4. ASSUME NEW i \in Id, attachedResources'[i] # None
        PROVE  proxy'[attachedResources'[i]].id = i
    <3>1. CASE i = m.id
      BY <3>1 DEF DeliverStep
    <3>2. CASE i # m.id
      <4>1. attachedResources'[i] = attachedResources[i] /\ attachedResources[i] # o
        BY <2>4, <3>2 DEF DeliverStep
      <4>2. attachedResources[i] \in Obj
        BY <1>1, <2>4, <4>1, ProxyFacts
      <4>3. proxy'[attachedResources[i]] = proxy[attachedResources[i]]
        BY <4>1, <4>2 DEF DeliverStep
      <4> QED BY <1>1, <2>4, <4>1, <4>3 DEF ProxiesTrue
    <3> QED BY <3>1, <3>2
  <2>5. ASSUME NEW x \in Obj, proxy'[x] # Unused
        PROVE  LET z == proxy'[x] IN
               /\ z.gen[1] = z.link /\ z.gen[2] <= put'[z.link]
               /\ \A p \in Prop : /\ z.cache[p] # NoStamp => z.cache[p].gen[1] = z.link
                                  /\ z.propertyCursors[p].gen = z.gen => z.propertyCursors[p].rev <= z.rev
                                  /\ z.cache[p].gen = z.gen => z.propertyCursors[p] = z.cache[p]
               /\ \A l \in Link : Live(l)' /\ instance'[l].gen = z.gen => z.id = instance'[l].id
    BY <2>1, <2>2, <2>3, <2>5
  <2> QED BY <2>4, <2>5 DEF ProxiesTrue, Used
<1>6. Routed'
  (* What is about the id of the answer is of the generation answered.   *)
  <2>1. ASSUME NEW i \in Id, NEW g \in Generation, Named(i, g), NEW n \in Nat, NEW e \in Nat,
               n <= e + 1, Announced(i, n) \/ Settled(i, g)
        PROVE  Announced(i, e)' \/ Settled(i, g)'
    <3>1. CASE i = m.id
      <4>1. g = m.gen
        BY <1>1, <1>2, <2>1, <3>1 DEF OneName
      <4>2. attachedResources'[i] = o /\ proxy'[o].gen = g
        BY <3>1, <4>1 DEF DeliverStep
      <4> QED BY <4>2 DEF Settled
    <3>2. CASE i # m.id
      <4>1. CASE Announced(i, n)
        <5>1. 1 \in {0, 1} /\ ~(IsAnswer(1) /\ toClient[1].id = i)
          BY <3>2
        <5> QED BY <1>1, <1>2, <2>1, <4>1, <5>1, AnnouncedStill
      <4>2. CASE Settled(i, g)
        <5>1. CASE attachedResources'[i] = None
          BY <5>1 DEF Settled
        <5>2. CASE /\ attachedResources'[i] = attachedResources[i]
                   /\ attachedResources[i] \notin {o, None}
          <6>1. attachedResources[i] \in Obj
            BY <1>1, <5>2, ProxyFacts
          <6>2. proxy'[attachedResources[i]] = proxy[attachedResources[i]]
            BY <5>2, <6>1 DEF DeliverStep
          <6> QED BY <4>2, <5>2, <6>2 DEF Settled
        <5> QED BY <3>2, <5>1, <5>2 DEF DeliverStep
      <4> QED BY <2>1, <4>1, <4>2
    <3> QED BY <3>1, <3>2
  <2>2. ASSUME NEW k \in DOMAIN notificationQueue'
        PROVE  Settled(notificationQueue[k].id, notificationQueue[k].gen)'
    <3>1. PICK i \in Id, g \in Generation :
              i = notificationQueue[k].id /\ g = notificationQueue[k].gen
      BY <1>1, <1>3, QueueFacts
    <3>2. Named(i, g) /\ Settled(i, g)
      BY <1>1, <1>3, <3>1 DEF Named, Routed
    <3>3. Announced(i, 0)' \/ Settled(i, g)'
      BY <2>1, <3>2
    <3>4. ~Announced(i, 0)'
      BY DEF Announced
    <3> QED BY <1>3, <3>1, <3>3, <3>4 DEF Settled
  <2>3. ASSUME NEW k \in DOMAIN toClient', IsNotification(k)'
        PROVE  Announced(toClient[k].id, k)' \/ Settled(toClient[k].id, toClient[k].gen)'
    <3>1. k + 1 \in DOMAIN toClient /\ toClient'[k] = toClient[k + 1] /\ IsNotification(k + 1)
          /\ k \in Nat /\ Carries(k + 1)
      BY <1>2, <2>3 DEF Carries
    <3>2. PICK i \in Id, g \in Generation :
              i = toClient[k + 1].id /\ g = toClient[k + 1].gen
      BY <1>1, <3>1, MessageFacts
    <3>3. Named(i, g) /\ (Announced(i, k + 1) \/ Settled(i, g))
      BY <1>1, <3>1, <3>2 DEF Named, Routed
    <3>4. Announced(i, k)' \/ Settled(i, g)'
      BY <2>1, <3>1, <3>3
    <3> QED BY <3>1, <3>2, <3>4 DEF Announced, Settled
  <2>4. ASSUME NEW l \in Link, Live(l)', instance'[l].id \in subscriptions'
        PROVE  \/ Announced(instance[l].id, Len(toClient))'
               \/ Settled(instance[l].id, instance[l].gen)'
    <3>1. PICK i \in Id, g \in Generation, e \in Nat :
              i = instance[l].id /\ g = instance[l].gen /\ e = Len(toClient')
      BY <1>1, <1>2, <2>4, InstanceFacts
    <3>2. Named(i, g) /\ (Announced(i, Len(toClient)) \/ Settled(i, g))
      BY <1>1, <1>2, <1>3, <2>4, <3>1 DEF Named, Routed
    <3>3. Announced(i, e)' \/ Settled(i, g)'
      BY <1>2, <2>1, <3>1, <3>2
    <3> QED BY <1>3, <3>1, <3>3 DEF Announced, Settled
  <2> QED BY <2>2, <2>3, <2>4 DEF Routed
<1> QED BY <1>4, <1>5, <1>6

LEMMA DeliverAnswers ==
  ASSUME Sound, Sound', Prompted, NEW o \in Obj, DeliverStep(o)
  PROVE  InOrder' /\ RevisionsInOrder' /\ AnswersComplete'
<1>1. TypeOK /\ TypeOK' /\ InOrder /\ RevisionsInOrder /\ AnswersComplete /\ UsedWhereNamed
  BY DEF Sound, Prompted
<1>2. /\ \A k \in DOMAIN toClient' :
            /\ k \in Nat /\ k + 1 \in DOMAIN toClient /\ toClient'[k] = toClient[k + 1]
            /\ IsAnswer(k)' <=> IsAnswer(k + 1)
            /\ Carries(k)' <=> Carries(k + 1)
            /\ \A l \in Link : About(k, l)' <=> About(k + 1, l)
      /\ \A l : Live(l)' <=> Live(l)
  BY DeliverView
<1>3. UNCHANGED <<instance, notificationQueue>>
  BY DEF DeliverStep
<1>4. \A k, l : QueuedAbout(k, l)' <=> QueuedAbout(k, l)
  BY <1>3 DEF QueuedAbout
<1>5. InOrder'
  <2> SUFFICES ASSUME NEW l \in Link, Live(l)'
               PROVE  /\ \A q \in Prop : instance'[l].age[q] <= instance'[l].rev
                      /\ \A k \in DOMAIN toClient' :
                            About(k, l)' => toClient'[k].rev <= instance'[l].rev
                      /\ \A k \in DOMAIN notificationQueue' : QueuedAbout(k, l)' =>
                            notificationQueue'[k].rev <= instance'[l].rev
                      /\ \A k \in DOMAIN toClient' :
                            toClient'[k].type = "property" /\ About(k, l)' =>
                               toClient'[k].rev <= instance'[l].age[toClient'[k].prop]
                      /\ \A k \in DOMAIN notificationQueue' :
                            notificationQueue'[k].type = "property" /\ QueuedAbout(k, l)' =>
                               notificationQueue'[k].rev
                                  <= instance'[l].age[notificationQueue'[k].prop]
    BY Zenon DEF InOrder
  <2>1. /\ \A q \in Prop : instance[l].age[q] <= instance[l].rev
        /\ \A k \in DOMAIN toClient : About(k, l) => toClient[k].rev <= instance[l].rev
        /\ \A k \in DOMAIN notificationQueue : QueuedAbout(k, l) =>
              notificationQueue[k].rev <= instance[l].rev
        /\ \A k \in DOMAIN toClient :
              toClient[k].type = "property" /\ About(k, l) =>
                 toClient[k].rev <= instance[l].age[toClient[k].prop]
        /\ \A k \in DOMAIN notificationQueue :
              notificationQueue[k].type = "property" /\ QueuedAbout(k, l) =>
                 notificationQueue[k].rev <= instance[l].age[notificationQueue[k].prop]
    BY <1>1, <1>2 DEF InOrder
  <2> QED BY <1>2, <1>3, <1>4, <2>1
<1>6. RevisionsInOrder'
  <2>1. ASSUME NEW j \in DOMAIN notificationQueue', NEW k \in DOMAIN toClient',
               Carries(k)', notificationQueue'[j].gen = toClient'[k].gen
        PROVE  notificationQueue'[j].rev <= toClient'[k].rev
    BY <1>1, <1>2, <1>3, <2>1 DEF RevisionsInOrder
  <2>2. ASSUME NEW j \in DOMAIN toClient', NEW k \in DOMAIN toClient',
               j < k, Carries(j)', Carries(k)', toClient'[j].gen = toClient'[k].gen
        PROVE  toClient'[j].rev <= toClient'[k].rev
    <3>1. j + 1 < k + 1
      BY <1>2, <2>2
    <3> QED BY <1>1, <1>2, <2>2, <3>1 DEF RevisionsInOrder
  <2> QED BY <2>1, <2>2 DEF RevisionsInOrder
<1>7. AnswersComplete'
  <2> SUFFICES ASSUME NEW k \in DOMAIN toClient', IsAnswer(k)'
               PROVE  /\ \A q \in DOMAIN toClient'[k].values :
                            toClient'[k].values[q] <= toClient'[k].rev
                      /\ \A l \in Link : Live(l)' /\ About(k, l)' => Brings(toClient[k], l)'
    BY Zenon DEF AnswersComplete
  <2>1. k + 1 \in DOMAIN toClient /\ toClient'[k] = toClient[k + 1] /\ IsAnswer(k + 1)
    BY <1>2
  <2>2. \A q \in DOMAIN toClient'[k].values : toClient'[k].values[q] <= toClient'[k].rev
    BY <1>1, <2>1 DEF AnswersComplete
  <2>3. ASSUME NEW l \in Link, Live(l)', About(k, l)'
        PROVE  Brings(toClient[k], l)'
    <3>1. Brings(toClient[k + 1], l)
      BY <1>1, <1>2, <2>1, <2>3 DEF AnswersComplete
    <3>2. ASSUME toClient[k + 1].type = "reattached", reattaching # None
          PROVE  proxy'[reattaching'] = proxy[reattaching]
      <4>1. k \in Answered'
        BY <2>1, <3>2 DEF Answered, OutcomeTypes
      <4>2. reattaching' = reattaching /\ reattaching # o
        BY <4>1 DEF DeliverStep
      <4>3. reattaching \in Obj
        BY <1>1, <3>2, ProxyFacts
      <4> QED BY <4>2, <4>3 DEF DeliverStep
    <3>3. toClient[k + 1].type = "reattached" => reattaching # None
      <4>1. toClient[k + 1].type = "reattached" => k + 1 \in Answered
        BY <2>1 DEF Answered, OutcomeTypes
      <4> QED BY <4>1 DEF Sound, OneReattach
    <3>4. \A q \in Prop : instance'[l].age[q] <= toClient'[k].rev =>
              IF q \in DOMAIN toClient'[k].values
                THEN toClient'[k].values[q] = instance'[l].age[q]
                ELSE /\ toClient'[k].type = "reattached"
                     /\ proxy'[reattaching'].cache[q] = [gen |-> toClient'[k].gen,
                                                        rev |-> instance'[l].age[q]]
      BY <1>3, <2>1, <3>1, <3>2, <3>3 DEF Brings
    <3> QED BY <3>4 DEF Brings
  <2> QED BY <2>2, <2>3
<1> QED BY <1>5, <1>6, <1>7

LEMMA DeliverCovers ==
  ASSUME Sound, Sound', Prompted, NEW o \in Obj, DeliverStep(o)
  PROVE  AllCovered'
<1> DEFINE m == toClient[1]
<1>1. TypeOK /\ InOrder /\ AllCovered /\ AnswersComplete
  BY DEF Sound, Prompted
<1>2. /\ 1 \in DOMAIN toClient /\ IsAnswer(1) /\ Carries(1) /\ m.link \in Link
      /\ \A l : Live(l)' <=> Live(l)
  BY DeliverView
<1>3. UNCHANGED instance
  BY DEF DeliverStep
<1> SUFFICES ASSUME NEW x \in Obj, proxy'[x] # Unused PROVE CursorCovered(x)'
  BY DEF AllCovered, Used
<1>4. CASE x # o
  <2>1. proxy'[x] = proxy[x] /\ CursorCovered(x)
    BY <1>1, <1>4 DEF DeliverStep, AllCovered, Used
  <2> QED BY <1>3, <2>1 DEF CursorCovered, Live
<1>5. CASE x = o
  <2> DEFINE s == proxy'[o]
             l == m.link
  <2> SUFFICES ASSUME Live(l), m.gen = instance[l].gen
               PROVE  /\ m.rev <= instance[l].rev
                      /\ \A p \in Prop : instance[l].age[p] <= m.rev =>
                            s.cache[p] = [gen |-> m.gen, rev |-> instance[l].age[p]]
    <3>1. s.link = l /\ s.gen = m.gen /\ s.rev = m.rev
      BY DEF DeliverStep
    <3> QED BY <1>3, <1>5, <3>1 DEF CursorCovered, Live
  <2>1. About(1, l)
    BY <1>2 DEF About
  <2>2. m.rev <= instance[l].rev /\ Brings(m, l)
    BY <1>1, <1>2, <2>1 DEF InOrder, AnswersComplete
  <2>3. ASSUME NEW p \in Prop, instance[l].age[p] <= m.rev
        PROVE  s.cache[p] = [gen |-> m.gen, rev |-> instance[l].age[p]]
    <3>1. CASE p \in DOMAIN m.values
      <4>1. m.values[p] = instance[l].age[p]
        BY <2>2, <2>3, <3>1 DEF Brings
      <4>2. s.cache[p] = [gen |-> m.gen, rev |-> m.values[p]]
        BY <3>1 DEF DeliverStep
      <4> QED BY <4>1, <4>2
    <3>2. CASE p \notin DOMAIN m.values
      <4>1. /\ m.type = "reattached"
            /\ proxy[reattaching].cache[p] = [gen |-> m.gen, rev |-> instance[l].age[p]]
        BY <2>2, <2>3, <3>2 DEF Brings
      <4>2. o = reattaching /\ s.cache[p] = proxy[o].cache[p]
        BY <3>2, <4>1 DEF DeliverStep
      <4> QED BY <4>1, <4>2
    <3> QED BY <3>1, <3>2
  <2> QED BY <2>2, <2>3
<1> QED BY <1>4, <1>5

LEMMA DeliverFollows ==
  ASSUME Sound, Sound', Prompted, NEW o \in Obj, DeliverStep(o)
  PROVE  ChangesFollowAnswers' /\ ChangesFollowCursor'
<1> DEFINE m == toClient[1]
<1>1. TypeOK /\ TypeOK' /\ UsedWhereNamed /\ OneName /\ RevisionsInOrder
      /\ ChangesFollowAnswers /\ ChangesFollowCursor
  BY DEF Sound, Prompted
<1>2. /\ 1 \in DOMAIN toClient /\ IsAnswer(1) /\ Carries(1) /\ ~IsNotification(1)
      /\ m.id \in Id /\ m.gen \in Generation /\ m.rev \in Nat
      /\ Named(m.id, m.gen) /\ Kept(1)
      /\ Len(toClient) \in Nat /\ Len(toClient') \in Nat /\ Len(toClient) = Len(toClient') + 1
      /\ \A k \in DOMAIN toClient' :
            /\ k \in Nat /\ k + 1 \in DOMAIN toClient /\ toClient'[k] = toClient[k + 1]
            /\ 1 < k + 1
            /\ \A l \in Link : About(k, l)' <=> About(k + 1, l)
      /\ \A l : Live(l)' <=> Live(l)
  BY DeliverView
<1>3. UNCHANGED <<instance, subscriptions, notificationQueue>>
  BY DEF DeliverStep
<1>4. ChangesFollowAnswers'
  <2>1. PICK t \in AnswerTypes : Receiving(t)
    BY DEF DeliverStep
  <2> QED BY <1>1, <1>3, <2>1, ReceivedFollowAnswers
<1>5. ChangesFollowCursor'
  <2> SUFFICES ASSUME NEW l \in Link, Live(l)',
                      attachedResources'[instance'[l].id] # None,
                      proxy'[attachedResources'[instance'[l].id]].gen = instance'[l].gen,
                      NEW q \in Prop,
                      instance'[l].age[q] > proxy'[attachedResources'[instance'[l].id]].rev
               PROVE  /\ instance'[l].id \in subscriptions' =>
                            \/ Comes(0, Len(toClient), l, q)'
                            \/ Queued(Len(notificationQueue), l, q)'
                      /\ \A n \in DOMAIN toClient' :
                            About(n, l)' /\ instance'[l].age[q] <= toClient'[n].rev =>
                               \/ Comes(0, n, l, q)'
                               \/ Queued(Len(notificationQueue), l, q)'
                      /\ \A n \in DOMAIN notificationQueue' :
                            QueuedAbout(n, l)' /\ instance'[l].age[q] <= notificationQueue'[n].rev =>
                               Queued(n, l, q)'
    BY Zenon DEF ChangesFollowCursor
  <2> DEFINE i == instance[l].id
  <2>1. /\ Live(l) /\ i \in Id /\ instance[l].gen \in Generation /\ instance[l].age[q] \in Nat
        /\ Named(i, instance[l].gen)
    BY <1>1, <1>2, InstanceFacts DEF Named
  <2>2. \A n : Queued(n, l, q)' <=> Queued(n, l, q)
    BY <1>3 DEF Queued, IsChange
  <2>3. \A n : QueuedAbout(n, l)' <=> QueuedAbout(n, l)
    BY <1>3 DEF QueuedAbout
  <2>4. ASSUME NEW n \in Nat, NEW e \in Nat, n <= e + 1, Comes(1, n, l, q)
        PROVE  Comes(0, e, l, q)'
    BY <1>1, <1>2, <1>3, <2>4, ComesStill
  <2>5. PICK e \in Nat : e = Len(toClient')
    BY <1>2
  (* What is missed comes after the answer, or is queued before it.      *)
  <2>6. SUFFICES /\ i \in subscriptions =>
                       \/ Comes(1, Len(toClient), l, q)
                       \/ Queued(Len(notificationQueue), l, q)
                 /\ \A n \in DOMAIN toClient :
                       1 < n /\ About(n, l) /\ instance[l].age[q] <= toClient[n].rev =>
                          \/ Comes(1, n, l, q)
                          \/ Queued(Len(notificationQueue), l, q)
                 /\ \A n \in DOMAIN notificationQueue :
                       QueuedAbout(n, l) /\ instance[l].age[q] <= notificationQueue[n].rev =>
                          Queued(n, l, q)
    <3>1. instance'[l].id \in subscriptions' =>
              Comes(0, e, l, q)' \/ Queued(Len(notificationQueue), l, q)'
      <4>1. Comes(1, Len(toClient), l, q) => Comes(0, e, l, q)'
        BY <1>2, <2>4, <2>5
      <4>2. Queued(Len(notificationQueue), l, q) => Queued(Len(notificationQueue), l, q)'
        BY <1>3 DEF Queued, IsChange
      <4> QED BY <1>3, <2>6, <4>1, <4>2
    <3>2. ASSUME NEW n \in DOMAIN toClient', About(n, l)',
                 instance'[l].age[q] <= toClient'[n].rev
          PROVE  Comes(0, n, l, q)' \/ Queued(Len(notificationQueue), l, q)'
      <4>1. /\ n + 1 \in DOMAIN toClient /\ 1 < n + 1 /\ About(n + 1, l) /\ n \in Nat
            /\ instance[l].age[q] <= toClient[n + 1].rev
        BY <1>2, <1>3, <3>2
      <4>2. Comes(1, n + 1, l, q) => Comes(0, n, l, q)'
        BY <2>4, <4>1
      <4>3. Queued(Len(notificationQueue), l, q) => Queued(Len(notificationQueue), l, q)'
        BY <1>3 DEF Queued, IsChange
      <4> QED BY <2>6, <4>1, <4>2, <4>3
    <3>3. ASSUME NEW n \in DOMAIN notificationQueue', QueuedAbout(n, l)',
                 instance'[l].age[q] <= notificationQueue'[n].rev
          PROVE  Queued(n, l, q)'
      BY <1>3, <2>2, <2>3, <2>6, <3>3
    <3> QED BY <2>5, <3>1, <3>2, <3>3 DEF Comes
  <2>7. CASE i = m.id
    <3>1. instance[l].gen = m.gen
      BY <1>1, <1>2, <2>1, <2>7 DEF OneName
    <3>2. About(1, l) /\ instance[l].age[q] > m.rev
      <4>1. attachedResources'[i] = o /\ proxy'[o].rev = m.rev
        BY <2>7 DEF DeliverStep
      <4> QED BY <1>2, <1>3, <3>1, <4>1 DEF About
    <3>3. /\ i \in subscriptions => Comes(1, Len(toClient), l, q)
          /\ \A n \in DOMAIN toClient :
                1 < n /\ About(n, l) /\ instance[l].age[q] <= toClient[n].rev => Comes(1, n, l, q)
      BY <1>1, <1>2, <2>1, <3>2 DEF ChangesFollowAnswers
    <3>4. ASSUME NEW n \in DOMAIN notificationQueue, QueuedAbout(n, l)
          PROVE  ~(instance[l].age[q] <= notificationQueue[n].rev)
      <4>1. notificationQueue[n].rev <= m.rev
        BY <1>1, <1>2, <3>1, <3>4 DEF RevisionsInOrder, QueuedAbout
      <4>2. notificationQueue[n].rev \in Nat
        BY <1>1, QueueFacts
      <4> QED BY <1>2, <2>1, <3>2, <4>1, <4>2
    <3> QED BY <3>3, <3>4
  <2>8. CASE i # m.id
    <3> DEFINE x == attachedResources[i]
    <3>1. attachedResources'[i] = x /\ x # o /\ x # None
      BY <1>3, <2>1, <2>8 DEF DeliverStep
    <3>2. x \in Obj
      BY <1>1, <2>1, <3>1, ProxyFacts
    <3>3. proxy'[x] = proxy[x]
      BY <3>1, <3>2 DEF DeliverStep
    <3>4. /\ i \in subscriptions =>
                Comes(0, Len(toClient), l, q) \/ Queued(Len(notificationQueue), l, q)
          /\ \A n \in DOMAIN toClient :
                About(n, l) /\ instance[l].age[q] <= toClient[n].rev =>
                    Comes(0, n, l, q) \/ Queued(Len(notificationQueue), l, q)
          /\ \A n \in DOMAIN notificationQueue :
                QueuedAbout(n, l) /\ instance[l].age[q] <= notificationQueue[n].rev => Queued(n, l, q)
      BY <1>1, <1>3, <2>1, <3>1, <3>3 DEF ChangesFollowCursor
    <3>5. ~About(1, l)
      <4> SUFFICES ASSUME m.gen = instance[l].gen PROVE FALSE
        BY DEF About
      <4> QED BY <1>1, <1>2, <2>1, <2>8 DEF OneName
    <3>6. ~IsChange(toClient[1], l, q)
      BY <1>2 DEF IsChange, IsNotification, NotificationTypes
    <3>7. \A n \in Nat : Comes(0, n, l, q) => Comes(1, n, l, q)
      BY <1>1, <3>5, <3>6, ComesFirstOrAfter
    <3>8. \A n \in DOMAIN toClient : n \in Nat
      BY <1>1, MessageFacts
    <3> QED BY <1>2, <3>4, <3>7, <3>8
  <2> QED BY <2>7, <2>8
<1> QED BY <1>4, <1>5

LEMMA DeliverPrompted ==
  ASSUME Sound, Sound', Prompted, NEW o \in Obj, DeliverStep(o),
         decoding' = {}, ReattachFits', HeldWhereNamed'
  PROVE  Prompted'
BY DeliverNames, DeliverAnswers, DeliverCovers, DeliverFollows DEF Prompted

LEMMA ReceiveAttachedDelivers ==
  ASSUME Sound, Sound', Prompted, NEW o \in Obj, ReceiveAttached(o), late' = {}
  PROVE  /\ DeliverStep(o) /\ ~Used(o) /\ reattaching # o
         /\ Receiving("attached") /\ held' = held \cup {o} /\ (disturbed => disturbed')
         /\ \A i \in Id : attachedResources'[i] \in {o, attachedResources[i]}
         /\ UNCHANGED <<serverVars, serverSession, toServer, sessionVars, restore,
                        reattaching, decoding, notificationQueue>>
<1> DEFINE m == toClient[1]
           s == Merge(NewProxy(m), m.values)
<1>1. TypeOK /\ TypeOK' /\ UsedWhereNamed /\ ReattachFits /\ HeldWhereNamed
  BY DEF Sound, Prompted
<1>2. toClient \in Seq(Message) /\ proxy \in [Obj -> Proxy \cup {Unused}]
      /\ attachedResources \in [Id -> Obj \cup {None}]
  BY <1>1 DEF TypeOK
<1>3. Receiving("attached") /\ Head(toClient) = m /\ m.type = "attached" /\ m \in Message
  BY <1>2, Receives DEF ReceiveAttached
<1>4. m \in Answer /\ m.id \in Id /\ m.values \in Values /\ ~Used(o)
  BY <1>3, MessageType DEF AnswerTypes, ReceiveAttached, Used
<1>5. /\ proxy' = [proxy EXCEPT ![o] = s] /\ Track(o, m.id) /\ UNCHANGED <<decoding, late>>
      /\ UNCHANGED <<serverVars, serverSession, toServer, sessionVars, restore,
                     reattaching, notificationQueue>>
      /\ disturbed => disturbed'
  <2>1. ~DecodeLater(o, m.id, m)
    BY DEF DecodeLater
  <2> QED BY <1>3, <2>1 DEF ReceiveAttached, Disturbance
<1>6. s \in Proxy /\ s # Unused /\ s.link = m.link /\ s.id = m.id /\ s.gen = m.gen /\ s.rev = m.rev
      /\ \A p \in Prop :
            /\ p \in DOMAIN m.values => /\ s.cache[p] = [gen |-> m.gen, rev |-> m.values[p]]
                                        /\ s.propertyCursors[p] = [gen |-> m.gen, rev |-> m.values[p]]
            /\ p \notin DOMAIN m.values => s.cache[p] = NoStamp /\ s.propertyCursors[p] = NoStamp
  <2> DEFINE n == NewProxy(m)
  <2>1. /\ n \in Proxy
        /\ n.link = m.link /\ n.id = m.id /\ n.gen = m.gen /\ n.rev = m.rev
        /\ \A p \in Prop : n.cache[p] = NoStamp /\ n.propertyCursors[p] = NoStamp
    BY <1>4, Made
  <2> HIDE DEF n
  <2>2. /\ Merge(n, m.values) \in Proxy
        /\ Merge(n, m.values).link = n.link /\ Merge(n, m.values).id = n.id
        /\ Merge(n, m.values).gen = n.gen /\ Merge(n, m.values).rev = n.rev
        /\ \A p \in Prop :
              /\ p \in DOMAIN m.values =>
                    /\ Merge(n, m.values).cache[p] = [gen |-> n.gen, rev |-> m.values[p]]
                    /\ Merge(n, m.values).propertyCursors[p] = [gen |-> n.gen, rev |-> m.values[p]]
              /\ p \notin DOMAIN m.values =>
                    /\ Merge(n, m.values).cache[p] = n.cache[p]
                    /\ Merge(n, m.values).propertyCursors[p] = n.propertyCursors[p]
    BY <1>4, <2>1, Merged
  <2>3. Merge(n, m.values) # Unused
    BY <2>2, ProxyType
  <2> QED BY <2>1, <2>2, <2>3 DEF n
<1> HIDE DEF s
<1>7. proxy'[o] = s /\ \A x \in Obj : x # o => proxy'[x] = proxy[x]
  BY <1>2, <1>5, <1>6, ProxyChanged, Zenon
<1> HIDE DEF m
<1>8. /\ attachedResources' = [attachedResources EXCEPT ![m.id] = o]
      /\ held' = held \cup {o}
  BY <1>5 DEF Track
<1>9. attachedResources'[m.id] = o
      /\ \A i \in Id : i # m.id => attachedResources'[i] = attachedResources[i]
  BY <1>2, <1>4, <1>8
<1>10. \A i \in Id : attachedResources[i] # o
  BY <1>1, <1>2, <1>4, ResourceSyncAssumption DEF UsedWhereNamed
<1>11. reattaching # o
  BY <1>1, <1>4, ResourceSyncAssumption DEF UsedWhereNamed
<1>12. DeliverStep(o)
  <2>1. ASSUME NEW q \in Prop
        PROVE  \/ /\ q \in DOMAIN m.values
                  /\ s.cache[q] = [gen |-> m.gen, rev |-> m.values[q]]
                  /\ s.propertyCursors[q] = [gen |-> m.gen, rev |-> m.values[q]]
               \/ /\ q \notin DOMAIN m.values
                  /\ s.cache[q] = NoStamp /\ s.propertyCursors[q] = NoStamp
    BY <1>6
  <2>2. \E t \in AnswerTypes : Receiving(t)
    BY <1>3 DEF AnswerTypes
  <2> QED BY <1>3, <1>5, <1>6, <1>7, <1>9, <1>10, <1>11, <2>1, <2>2 DEF DeliverStep, m
<1>13. \A i \in Id : attachedResources'[i] \in {o, attachedResources[i]}
  BY <1>9
<1> QED BY <1>3, <1>4, <1>5, <1>8, <1>11, <1>12, <1>13

LEMMA ReceiveAttachedPrompted ==
  ASSUME Sound, Sound', Prompted, NEW o \in Obj, ReceiveAttached(o), late' = {}
  PROVE  Prompted'
<1>1. TypeOK /\ TypeOK' /\ UsedWhereNamed /\ ReattachFits /\ HeldWhereNamed
      /\ toClient \in Seq(Message)
  BY DEF Sound, Prompted, TypeOK
<1>2. /\ DeliverStep(o) /\ reattaching # o
      /\ Receiving("attached") /\ held' = held \cup {o} /\ (disturbed => disturbed')
      /\ \A i \in Id : attachedResources'[i] \in {o, attachedResources[i]}
      /\ UNCHANGED <<serverVars, serverSession, toServer, sessionVars, restore,
                     reattaching, decoding, notificationQueue>>
  BY ReceiveAttachedDelivers
<1>3. decoding' = {}
  BY <1>2 DEF Prompted
<1>4. HeldWhereNamed'
  <2> SUFFICES ASSUME ~disturbed'
               PROVE  /\ \A i \in Id : attachedResources'[i] # None => attachedResources'[i] \in held'
                      /\ \A i \in Id : restore'[i] # None => restore'[i] \in held'
                      /\ reattaching' # None => reattaching' \in held'
    BY Zenon DEF HeldWhereNamed
  <2>1. /\ \A i \in Id : attachedResources[i] # None => attachedResources[i] \in held
        /\ \A i \in Id : restore[i] # None => restore[i] \in held
        /\ reattaching # None => reattaching \in held
    BY <1>1, <1>2 DEF HeldWhereNamed
  <2> QED BY <1>2, <2>1
<1>5. ReattachFits'
  <2>1. CASE reattaching = None
    <3>1. reattaching' = None
      BY <1>2, <2>1
    <3> QED BY <3>1, NothingInFlightFits DEF Sound, OneReattach
  <2>2. CASE reattaching # None
    <3>1. proxy'[reattaching'] = proxy[reattaching] /\ querying' = querying
      BY <1>1, <1>2, <2>2, ProxyFacts DEF DeliverStep
    <3>2. \A k \in Asked' : k \in Asked /\ toServer'[k] = toServer[k]
      BY <1>2 DEF Asked
    <3>3. \A k \in Answered' : k + 1 \in Answered /\ toClient'[k] = toClient[k + 1]
      BY <1>1, <1>2, Receives DEF Answered
    <3>4. \A k \in Asked' : AsksFor(proxy'[reattaching'], toServer'[k])
      BY <1>1, <3>1, <3>2 DEF ReattachFits
    <3>5. querying' # None => AsksFor(proxy'[reattaching'], querying')
      BY <1>1, <3>1 DEF ReattachFits
    <3>6. \A k \in Answered' : toClient'[k].type = "reattached" =>
              LET r == proxy'[reattaching'] IN
              /\ toClient'[k].link = r.link
              /\ r.gen = toClient'[k].gen => r.rev <= toClient'[k].rev
              /\ r.gen # toClient'[k].gen => DOMAIN toClient'[k].values = Prop
      BY <1>1, <3>1, <3>3 DEF ReattachFits
    <3> QED BY <3>4, <3>5, <3>6 DEF ReattachFits, AsksFor
  <2> QED BY <2>1, <2>2
<1> QED BY <1>2, <1>3, <1>4, <1>5, DeliverPrompted

LEMMA ReceiveReattachedDelivers ==
  ASSUME Sound, Sound', Prompted, ReceiveReattached, late' = {}
  PROVE  /\ DeliverStep(reattaching) /\ reattaching \in Obj /\ Used(reattaching)
         /\ Receiving("reattached") /\ toClient[1].type = "reattached"
         /\ Asked = {} /\ querying = None /\ Answered' = {} /\ reattaching' = None
         /\ (disturbed => disturbed')
         /\ \A i \in Id : attachedResources'[i] \in {None, reattaching, attachedResources[i]}
         /\ UNCHANGED <<serverVars, serverSession, toServer, sessionVars, attachRequests,
                        restore, held, decoding, notificationQueue>>
<1> DEFINE m == toClient[1]
           o == reattaching
           r == proxy[o]
           old == r.id
           s == Merge(Identify(r, m), m.values)
<1>1. TypeOK /\ TypeOK' /\ UsedWhereNamed /\ ReattachFits /\ HeldWhereNamed
  BY DEF Sound, Prompted
<1>2. toClient \in Seq(Message) /\ proxy \in [Obj -> Proxy \cup {Unused}]
      /\ attachedResources \in [Id -> Obj \cup {None}]
  BY <1>1 DEF TypeOK
<1>3. Receiving("reattached") /\ Head(toClient) = m /\ m.type = "reattached" /\ m \in Message
      /\ 1 \in Answered
  BY <1>2, Receives DEF ReceiveReattached, Answered, OutcomeTypes
<1>4. m \in Answer /\ m.id \in Id /\ m.values \in Values
  BY <1>3, MessageType DEF AnswerTypes
<1>5. /\ o \in Obj /\ Used(o) /\ r \in Proxy
      /\ Asked = {} /\ querying = None /\ Answered' = {}
  BY <1>3, LastOfReattach DEF OutcomeTypes
<1>6. /\ proxy' = [proxy EXCEPT ![o] = s] /\ Rekey(o, old, m.id) /\ reattaching' = None
      /\ UNCHANGED <<decoding, late>>
      /\ UNCHANGED <<serverVars, serverSession, toServer, sessionVars, attachRequests,
                     restore, held, notificationQueue>>
      /\ disturbed => disturbed'
  <2>1. ~DecodeLater(o, old, m)
    BY DEF DecodeLater
  <2> QED BY <1>3, <2>1 DEF ReceiveReattached, Disturbance
<1>7. /\ m.link = r.link
      /\ r.gen = m.gen => r.rev <= m.rev
      /\ r.gen # m.gen => DOMAIN m.values = Prop
  BY <1>1, <1>3 DEF ReattachFits
<1>8. s \in Proxy /\ s # Unused /\ s.link = m.link /\ s.id = m.id /\ s.gen = m.gen /\ s.rev = m.rev
      /\ \A p \in Prop :
            /\ p \in DOMAIN m.values => /\ s.cache[p] = [gen |-> m.gen, rev |-> m.values[p]]
                                        /\ s.propertyCursors[p] = [gen |-> m.gen, rev |-> m.values[p]]
            /\ p \notin DOMAIN m.values /\ r.gen = m.gen =>
                  s.cache[p] = r.cache[p] /\ s.propertyCursors[p] = r.propertyCursors[p]
  <2> DEFINE n == Identify(r, m)
  <2> HIDE DEF r
  <2>1. /\ n \in Proxy
        /\ n.link = m.link /\ n.id = m.id /\ n.gen = m.gen /\ n.rev = m.rev
        /\ n.cache = r.cache
        /\ r.gen = m.gen => n.propertyCursors = r.propertyCursors
    BY <1>4, <1>5, Identified
  <2> HIDE DEF n
  <2>2. /\ Merge(n, m.values) \in Proxy
        /\ Merge(n, m.values).link = n.link /\ Merge(n, m.values).id = n.id
        /\ Merge(n, m.values).gen = n.gen /\ Merge(n, m.values).rev = n.rev
        /\ \A p \in Prop :
              /\ p \in DOMAIN m.values =>
                    /\ Merge(n, m.values).cache[p] = [gen |-> n.gen, rev |-> m.values[p]]
                    /\ Merge(n, m.values).propertyCursors[p] = [gen |-> n.gen, rev |-> m.values[p]]
              /\ p \notin DOMAIN m.values =>
                    /\ Merge(n, m.values).cache[p] = n.cache[p]
                    /\ Merge(n, m.values).propertyCursors[p] = n.propertyCursors[p]
    BY <1>4, <2>1, Merged
  <2>3. Merge(n, m.values) # Unused
    BY <2>2, ProxyType
  <2> QED BY <2>1, <2>2, <2>3 DEF n
<1> HIDE DEF s, r
<1>9. proxy'[o] = s /\ \A x \in Obj : x # o => proxy'[x] = proxy[x]
  BY <1>2, <1>5, <1>6, <1>8, ProxyChanged, Zenon
<1>10. \A i \in Id : attachedResources[i] = o => i = old
  BY <1>1, <1>2, <1>5, ResourceSyncAssumption DEF Prompted, ProxiesTrue, r
<1> HIDE DEF m, o, old
<1>11. attachedResources'[m.id] = o
  BY <1>4, <1>6 DEF Rekey
<1>12. \A i \in Id : i # m.id => \/ attachedResources'[i] = None
                                 \/ /\ attachedResources'[i] = attachedResources[i]
                                    /\ attachedResources[i] # o
  BY <1>6, <1>10 DEF Rekey
<1>13. DeliverStep(o)
  <2>1. ASSUME NEW q \in Prop
        PROVE  \/ /\ q \in DOMAIN m.values
                  /\ s.cache[q] = [gen |-> m.gen, rev |-> m.values[q]]
                  /\ s.propertyCursors[q] = [gen |-> m.gen, rev |-> m.values[q]]
               \/ /\ q \notin DOMAIN m.values
                  /\ r.gen = m.gen /\ r.rev <= m.rev
                  /\ s.cache[q] = r.cache[q] /\ s.propertyCursors[q] = r.propertyCursors[q]
    BY <1>7, <1>8
  <2>2. \E t \in AnswerTypes : Receiving(t)
    BY <1>3 DEF AnswerTypes
  <2> QED BY <1>3, <1>5, <1>6, <1>8, <1>9, <1>11, <1>12, <2>1, <2>2 DEF DeliverStep, m, r, o
<1>14. \A i \in Id : attachedResources'[i] \in {None, o, attachedResources[i]}
  BY <1>11, <1>12
<1> QED BY <1>3, <1>5, <1>6, <1>13, <1>14 DEF m, o

LEMMA ReceiveReattachedPrompted ==
  ASSUME Sound, Sound', Prompted, ReceiveReattached, late' = {}
  PROVE  Prompted'
<1>1. HeldWhereNamed
  BY DEF Prompted
<1>2. /\ DeliverStep(reattaching) /\ reattaching \in Obj
      /\ Asked = {} /\ querying = None /\ Answered' = {} /\ reattaching' = None
      /\ (disturbed => disturbed')
      /\ \A i \in Id : attachedResources'[i] \in {None, reattaching, attachedResources[i]}
      /\ UNCHANGED <<serverVars, serverSession, toServer, sessionVars, attachRequests,
                     restore, held, decoding, notificationQueue>>
  BY ReceiveReattachedDelivers
<1>3. decoding' = {}
  BY <1>2 DEF Prompted
<1>4. HeldWhereNamed'
  <2> SUFFICES ASSUME ~disturbed'
               PROVE  /\ \A i \in Id : attachedResources'[i] # None => attachedResources'[i] \in held'
                      /\ \A i \in Id : restore'[i] # None => restore'[i] \in held'
                      /\ reattaching' # None => reattaching' \in held'
    BY Zenon DEF HeldWhereNamed
  <2>1. /\ \A i \in Id : attachedResources[i] # None => attachedResources[i] \in held
        /\ \A i \in Id : restore[i] # None => restore[i] \in held
        /\ reattaching # None => reattaching \in held
    BY <1>1, <1>2 DEF HeldWhereNamed
  <2>2. reattaching \in held
    BY <1>2, <2>1, ResourceSyncAssumption
  <2> QED BY <1>2, <2>1, <2>2
<1>5. ReattachFits'
  <2>1. Asked' = {} /\ querying' = None
    BY <1>2 DEF Asked
  <2> QED BY <1>2, <2>1, NothingInFlightFits
<1> QED BY <1>2, <1>3, <1>4, <1>5, DeliverPrompted

-----------------------------------------------------------------------------
(* The invariant.                                                          *)

LEMMA InitPrompted == Init => Prompted
<1> SUFFICES ASSUME Init PROVE Prompted
  OBVIOUS
<1>1. /\ DOMAIN toClient = {} /\ DOMAIN notificationQueue = {} /\ DOMAIN toServer = {}
      /\ \A l \in Link : ~Live(l)
      /\ \A o \in Obj : ~Used(o)
      /\ \A i \in Id : attachedResources[i] = None /\ restore[i] = None
      /\ reattaching = None /\ querying = None /\ decoding = {} /\ subscriptions = {}
  BY DEF Init, Live, Used, Nothing
<1>2. ReattachFits
  BY <1>1 DEF ReattachFits, Asked, Answered
<1>3. OneName
  BY <1>1 DEF OneName, Named
<1>4. ProxiesTrue /\ AllCovered
  BY <1>1 DEF ProxiesTrue, AllCovered
<1>5. Routed
  BY <1>1 DEF Routed
<1>6. InOrder /\ RevisionsInOrder /\ AnswersComplete
  BY <1>1 DEF InOrder, RevisionsInOrder, AnswersComplete
<1>7. ChangesFollowAnswers /\ ChangesFollowCursor
  BY <1>1 DEF ChangesFollowAnswers, ChangesFollowCursor
<1>8. HeldWhereNamed
  BY <1>1 DEF HeldWhereNamed
<1> QED BY <1>1, <1>2, <1>3, <1>4, <1>5, <1>6, <1>7, <1>8 DEF Prompted

LEMMA StutterPrompted ==
  ASSUME Sound, Sound', Prompted, UNCHANGED vars
  PROVE  Prompted'
<1>1. TypeOK /\ TypeOK'
  BY DEF Sound
<1>2. UNCHANGED <<serverVars, serverSession, toServer, toClient, sessionVars, clientVars,
                  notificationQueue>>
  BY DEF vars
<1>3. NoNewsStep(0)
  BY <1>1, <1>2, NothingReceived DEF NoNewsStep
<1>4. ReattachFits'
  <2>1. NoNews(0) /\ \A k \in Asked' : \E j \in Asked : toServer'[k] = toServer[j]
    BY <1>1, <1>2, NothingReceived DEF Asked
  <2> QED BY <1>1, <1>2, <2>1, SameFits DEF Prompted
<1>5. HeldWhereNamed' /\ decoding' = {}
  BY <1>1, <1>2, SameHeld DEF Prompted
<1> QED BY <1>3, <1>4, <1>5, NoNewsPrompted

(* Once a snapshot was decoded late, that is not forgotten.                *)
LEMMA LateGrows == [Next]_vars => late \subseteq late'
<1> SUFFICES ASSUME [Next]_vars PROVE late \subseteq late'
  OBVIOUS
<1>1. CASE ServerResources
  BY <1>1 DEF ServerResources, Put, Remove, RaiseEvent, Modify
<1>2. CASE ServerHandlers
  BY <1>2 DEF ServerHandlers, ReceiveAttach, FinishAttach, ReceiveReattach, FinishReattach,
              ReceiveDetach, FinishDetach
<1>3. CASE Application
  BY <1>3 DEF Application, Attach, Detach
<1>4. CASE ClientReplies
  <2>1. ASSUME NEW o \in Obj, ReceiveAttached(o) PROVE late \subseteq late'
    BY <2>1 DEF ReceiveAttached, DecodeLater
  <2>2. ASSUME ReceiveReattached PROVE late \subseteq late'
    BY <2>2 DEF ReceiveReattached, DecodeLater
  <2>3. ASSUME ReceiveRefused \/ ReceiveNotFound \/ ReceiveRejected PROVE late \subseteq late'
    BY <2>3 DEF ReceiveRefused, ReceiveNotFound, ReceiveRejected
  <2>4. ASSUME NEW d \in decoding, FinishDecode(d) PROVE late \subseteq late'
    BY <2>4 DEF FinishDecode
  <2> QED BY <1>4, <2>1, <2>2, <2>3, <2>4 DEF ClientReplies
<1>5. CASE ClientNotifications
  BY <1>5 DEF ClientNotifications, EnqueueNotification, ProcessNotification
<1>6. CASE Session
  BY <1>6 DEF Session, Disconnect, ServerRestart, LoseConnection, Connect, Reattach
<1>7. CASE UNCHANGED vars
  BY <1>7 DEF vars
<1> QED BY <1>1, <1>2, <1>3, <1>4, <1>5, <1>6, <1>7 DEF Next

LEMMA NextPrompted ==
  ASSUME Sound, Sound', Prompted, [Next]_vars, late' = {}
  PROVE  Prompted'
<1>1. CASE ServerResources
  BY <1>1, PutPrompted, RemovePrompted, RaiseEventPrompted, ModifyPrompted DEF ServerResources
<1>2. CASE ServerHandlers
  BY <1>2, ReceiveAttachPrompted, FinishAttachPrompted, ReceiveReattachPrompted,
     FinishReattachPrompted, DetachHandlersPrompted DEF ServerHandlers
<1>3. CASE Application
  BY <1>3, AttachPrompted, DetachPrompted DEF Application
<1>4. CASE ClientReplies
  <2>1. \A d \in decoding : FALSE
    BY DEF Prompted
  <2> QED BY <1>4, <2>1, ReceiveAttachedPrompted, ReceiveRefusedPrompted,
             ReceiveReattachedPrompted, ReattachFailedPrompted DEF ClientReplies
<1>5. CASE ClientNotifications
  BY <1>5, EnqueueNotificationPrompted, ProcessNotificationPrompted DEF ClientNotifications
<1>6. CASE Session
  BY <1>6, DisconnectPrompted, ServerRestartPrompted, ConnectPrompted, ReattachPrompted
     DEF Session
<1>7. CASE UNCHANGED vars
  BY <1>7, StutterPrompted
<1> QED BY <1>1, <1>2, <1>3, <1>4, <1>5, <1>6, <1>7 DEF Next

LEMMA IInvariant == Spec => []IInv
<1>1. Init => IInv
  BY InitSound, InitPrompted DEF IInv
<1>2. IInv /\ [Next]_vars => IInv'
  <2> SUFFICES ASSUME IInv, [Next]_vars PROVE IInv'
    OBVIOUS
  <2>1. Sound /\ Sound'
    BY NextSound DEF IInv
  <2>2. ASSUME late' = {} PROVE Prompted'
    <3>1. Prompted
      BY <2>2, LateGrows DEF IInv
    <3> QED BY <2>1, <2>2, <3>1, NextPrompted
  <2> QED BY <2>1, <2>2 DEF IInv
<1> QED BY <1>1, <1>2, PTL DEF Spec

-----------------------------------------------------------------------------
(* What it says of the proxies.                                            *)

(* Every value of a proxy is of its own resource, whatever restarts gave   *)
(* its id to another one in between.                                       *)
THEOREM ProxiesShowTheirOwn == Spec => []NoCrossTalk
<1>1. IInv => NoCrossTalk
  BY DEF IInv, Prompted, ProxiesTrue, Used, NoCrossTalk
<1> QED BY <1>1, IInvariant, PTL

(* What the connection tracks the application holds, unless it attached or *)
(* released something while the restore loop ran.                          *)
THEOREM TrackedIsHeld == Spec => []ReleasedStaysReleasedIfCalm
<1>1. IInv => ReleasedStaysReleasedIfCalm
  BY DEF IInv, Prompted, HeldWhereNamed, ReleasedStaysReleasedIfCalm
<1> QED BY <1>1, IInvariant, PTL

(* When nothing is in flight, a tracked proxy of a subscribed resource     *)
(* shows what the resource holds, whatever drops, restarts, detaches and   *)
(* reattaches came before, and however many resources, changes and         *)
(* sessions there were.                                                    *)
THEOREM SubscribedIsFresh == Spec => []FreshWhenSubscribed
<1>1. ASSUME IInv PROVE FreshWhenSubscribed
  <2> SUFFICES ASSUME late = {}, Quiescent, NEW id \in subscriptions,
                      attachedResources[id] # None, IsLive(id)
               PROVE  /\ proxy[attachedResources[id]].link = LinkOf(id)
                      /\ Mirrors(attachedResources[id])
    BY DEF FreshWhenSubscribed
  <2> DEFINE o == attachedResources[id]
             l == LinkOf(id)
  <2>1. TypeOK /\ UsedWhereNamed /\ OneName /\ ProxiesTrue /\ Routed /\ ChangesFollowCursor
        /\ AllCovered
    BY <1>1 DEF IInv, Sound, Prompted
  <2>2. id \in Id /\ l \in Link /\ Live(l) /\ instance[l].id = id
    BY <2>1, LinkOfLive DEF TypeOK
  <2>3. o \in Obj /\ Used(o)
    BY <2>1, <2>2, ProxyFacts
  <2> HIDE DEF l, o
  <2>4. DOMAIN toClient = {} /\ DOMAIN notificationQueue = {}
    BY DEF Quiescent
  <2>5. proxy[o].gen = instance[l].gen
    <3>1. Announced(id, Len(toClient)) \/ Settled(id, instance[l].gen)
      BY <2>1, <2>2 DEF Routed
    <3> QED BY <2>4, <3>1 DEF Announced, Settled, o
  <2>6. proxy[o].link = l
    BY <2>1, <2>2, <2>3, <2>5 DEF OneName, ProxiesTrue
  <2>7. ASSUME NEW p \in Prop
        PROVE  instance[l].age[p] <= proxy[o].rev
    <3>1. instance[l].age[p] \in Nat /\ proxy[o].rev \in Nat
      BY <2>1, <2>2, <2>3, InstanceFacts, ProxyFacts
    <3>2. ~(instance[l].age[p] > proxy[o].rev)
      <4> SUFFICES ASSUME instance[l].age[p] > proxy[o].rev PROVE FALSE
        OBVIOUS
      <4>1. \/ Comes(0, Len(toClient), l, p)
            \/ Queued(Len(notificationQueue), l, p)
        BY <2>1, <2>2, <2>5 DEF ChangesFollowCursor, o
      <4> QED BY <2>4, <4>1 DEF Comes, Queued
    <3> QED BY <3>1, <3>2
  <2>8. CursorCovered(o)
    BY <2>1, <2>3 DEF AllCovered
  <2>9. Mirrors(o)
    BY <2>2, <2>5, <2>6, <2>7, <2>8 DEF CursorCovered, Mirrors
  <2> QED BY <2>6, <2>9 DEF l, o
<1> QED BY <1>1, IInvariant, PTL

(* A reattach from the cursor of a proxy asks for all the proxy lacks.     *)
THEOREM CursorsAreHonest == Spec => [](late = {} => CursorHonest)
<1>1. ASSUME IInv PROVE late = {} => CursorHonest
  <2> SUFFICES ASSUME late = {}, NEW o \in Obj, Tracked(o) PROVE CursorCovered(o)
    BY DEF CursorHonest
  <2>1. TypeOK /\ UsedWhereNamed /\ AllCovered
    BY <1>1 DEF IInv, Sound, Prompted
  <2>2. Used(o)
    BY <2>1, ResourceSyncAssumption DEF Tracked, UsedWhereNamed
  <2> QED BY <2>1, <2>2 DEF AllCovered
<1> QED BY <1>1, IInvariant, PTL

-----------------------------------------------------------------------------
(* Messages in a queue that grows at its end and shrinks at its head.      *)

LEMMA NoneIn ==
  ASSUME NEW T, NEW U
  PROVE  /\ \A i : ~In(<<>>, T, i)
         /\ Once(<<>>, T) /\ Precede(<<>>, T, U)
BY DEF In, Once, Precede

LEMMA InAppended ==
  ASSUME NEW S, NEW q \in Seq(S), NEW m, NEW T
  PROVE  /\ \A i : In(Append(q, m), T, i) <=> In(q, T, i) \/ (m.type \in T /\ m.id = i)
         /\ Once(q, T) /\ (m.type \in T => ~In(q, T, m.id)) => Once(Append(q, m), T)
         /\ \A U : Precede(q, T, U) /\ m.type \notin T => Precede(Append(q, m), T, U)
         /\ \A U : Precede(q, U, T) /\ m.type \notin T /\ (m.type \in U => ~In(q, T, m.id)) =>
                  Precede(Append(q, m), U, T)
<1> DEFINE r == Append(q, m)
           n == Len(q) + 1
<1>1. /\ Len(q) \in Nat /\ DOMAIN q = 1 .. Len(q) /\ DOMAIN r = 1 .. n
      /\ r[n] = m /\ \A k \in DOMAIN q : r[k] = q[k] /\ k \in DOMAIN r /\ k < n
      /\ \A k \in DOMAIN r : k = n \/ k \in DOMAIN q
      /\ n \in DOMAIN r
  OBVIOUS
<1> HIDE DEF r, n
<1>2. \A i : In(r, T, i) <=> In(q, T, i) \/ (m.type \in T /\ m.id = i)
  BY <1>1 DEF In
<1>3. Once(q, T) /\ (m.type \in T => ~In(q, T, m.id)) => Once(r, T)
  BY <1>1 DEF Once, In
<1>4. ASSUME NEW U, Precede(q, T, U), m.type \notin T PROVE Precede(r, T, U)
  BY <1>1, <1>4 DEF Precede
<1>5. ASSUME NEW U, Precede(q, U, T), m.type \notin T, m.type \in U => ~In(q, T, m.id)
      PROVE  Precede(r, U, T)
  BY <1>1, <1>5 DEF Precede, In
<1> QED BY <1>2, <1>3, <1>4, <1>5 DEF r

LEMMA InDropped ==
  ASSUME NEW S, NEW q \in Seq(S), q # <<>>, NEW T
  PROVE  /\ \A i : In(Tail(q), T, i) => In(q, T, i)
         /\ \A i : In(q, T, i) => In(Tail(q), T, i) \/ (Head(q).type \in T /\ Head(q).id = i)
         /\ Head(q).type \in T => In(q, T, Head(q).id)
         /\ Once(q, T) => /\ Once(Tail(q), T)
                          /\ Head(q).type \in T => ~In(Tail(q), T, Head(q).id)
         /\ \A U : Precede(q, T, U) =>
               /\ Precede(Tail(q), T, U)
               /\ Head(q).type \in U => ~In(Tail(q), T, Head(q).id)
<1> DEFINE r == Tail(q)
<1>1. /\ Head(q) = q[1] /\ 1 \in DOMAIN q
      /\ \A k \in DOMAIN r : k \in Nat /\ k + 1 \in DOMAIN q /\ r[k] = q[k + 1] /\ k + 1 # 1
      /\ \A k \in DOMAIN q : k \in Nat /\ (k # 1 => k - 1 \in DOMAIN r /\ r[k - 1] = q[k])
      /\ \A k \in DOMAIN r : 1 <= k
  OBVIOUS
<1> HIDE DEF r
<1>2. \A i : In(r, T, i) => In(q, T, i)
  BY <1>1 DEF In
<1>3. \A i : In(q, T, i) => In(r, T, i) \/ (Head(q).type \in T /\ Head(q).id = i)
  BY <1>1 DEF In
<1>4. Head(q).type \in T => In(q, T, Head(q).id)
  BY <1>1 DEF In
<1>5. ASSUME Once(q, T) PROVE Once(r, T)
  <2> SUFFICES ASSUME NEW j \in DOMAIN r, NEW k \in DOMAIN r,
                      r[j].type \in T, r[k].type \in T, r[j].id = r[k].id
               PROVE  j = k
    BY DEF Once
  <2>1. /\ j + 1 \in DOMAIN q /\ k + 1 \in DOMAIN q
        /\ q[j + 1].type \in T /\ q[k + 1].type \in T /\ q[j + 1].id = q[k + 1].id
    BY <1>1
  <2>2. j + 1 = k + 1
    BY <1>5, <2>1 DEF Once
  <2> QED BY <1>1, <2>2
<1>6. ASSUME Once(q, T), Head(q).type \in T PROVE ~In(r, T, Head(q).id)
  BY <1>1, <1>6 DEF Once, In
<1>7. ASSUME NEW U, Precede(q, T, U) PROVE Precede(r, T, U)
  <2> SUFFICES ASSUME NEW j \in DOMAIN r, NEW k \in DOMAIN r,
                      r[j].type \in T, r[k].type \in U, r[j].id = r[k].id
               PROVE  j < k
    BY DEF Precede
  <2>1. /\ j + 1 \in DOMAIN q /\ k + 1 \in DOMAIN q
        /\ q[j + 1].type \in T /\ q[k + 1].type \in U /\ q[j + 1].id = q[k + 1].id
    BY <1>1
  <2>2. j + 1 < k + 1
    BY <1>7, <2>1 DEF Precede
  <2> QED BY <1>1, <2>2
<1>8. ASSUME NEW U, Precede(q, T, U), Head(q).type \in U PROVE ~In(r, T, Head(q).id)
  <2> SUFFICES ASSUME NEW k \in DOMAIN r, r[k].type \in T, r[k].id = Head(q).id PROVE FALSE
    BY DEF In
  <2>1. /\ k + 1 \in DOMAIN q /\ 1 \in DOMAIN q
        /\ q[k + 1].type \in T /\ q[1].type \in U /\ q[k + 1].id = q[1].id
    BY <1>1, <1>8
  <2>2. k + 1 < 1
    BY <1>8, <2>1 DEF Precede
  <2> QED BY <1>1, <2>2
<1> QED BY <1>2, <1>3, <1>4, <1>5, <1>6, <1>7, <1>8 DEF r

-----------------------------------------------------------------------------
(* What calm gives, and what of it a step keeps that does not touch it.    *)

LEMMA CalmFacts ==
  ASSUME Sound, Prompted, Keeping, Calm
  PROVE  /\ toServer \in Seq(Request) /\ handling \in Seq(DirectRequest)
         /\ toClient \in Seq(Message) /\ subscriptions \subseteq Id
         /\ attachRequests \subseteq Id /\ held \subseteq Obj
         /\ proxy \in [Obj -> Proxy \cup {Unused}]
         /\ attachedResources \in [Id -> Obj \cup {None}]
         /\ restore \in [Id -> Obj \cup {None}] /\ reattaching \in Obj \cup {None}
         /\ decoding = {}
         /\ \A o \in held : Used(o) /\ proxy[o].id \in Id /\ proxy[o].link \in Link
         /\ \A i \in Id : attachedResources[i] # None =>
               attachedResources[i] \in held /\ proxy[attachedResources[i]].id = i
         /\ reattaching # None \/ querying # None \/ Asked # {} \/ Answered # {} =>
               Restoring /\ reattaching \in held
         /\ \A i \in Id : restore[i] # None => Restoring /\ restore[i] \in held
         /\ \A o \in Obj : Pending(o) => Restoring
         /\ Restoring => /\ connected
                         /\ \A i \in Id : /\ ~In(toServer, Asks, i) /\ ~In(toServer, Detaches, i)
                                          /\ ~In(toClient, Replies, i)
<1>1. /\ toServer \in Seq(Request) /\ handling \in Seq(DirectRequest)
      /\ toClient \in Seq(Message) /\ subscriptions \subseteq Id
      /\ attachRequests \subseteq Id /\ held \subseteq Obj
      /\ proxy \in [Obj -> Proxy \cup {Unused}]
      /\ attachedResources \in [Id -> Obj \cup {None}]
      /\ restore \in [Id -> Obj \cup {None}] /\ reattaching \in Obj \cup {None}
      /\ decoding = {}
  BY DEF Sound, TypeOK, Prompted
<1>2. \A o \in held : Used(o) /\ proxy[o].id \in Id /\ proxy[o].link \in Link
  BY ProxyFacts DEF Sound, TypeOK, UsedWhereNamed
<1>3. \A i \in Id : attachedResources[i] # None =>
         attachedResources[i] \in held /\ proxy[attachedResources[i]].id = i
  BY DEF Prompted, Calm, HeldWhereNamed, ProxiesTrue
<1>4. /\ reattaching # None => reattaching \in held
      /\ \A i \in Id : restore[i] # None => restore[i] \in held
  BY DEF Prompted, Calm, HeldWhereNamed
<1>5. reattaching # None \/ querying # None \/ Asked # {} \/ Answered # {} =>
         Restoring /\ reattaching \in held
  BY <1>4 DEF Sound, OneReattach, Restoring
<1>6. \A i \in Id : restore[i] # None => Restoring
  BY DEF Restoring, Nothing
<1>7. \A o \in Obj : Pending(o) => Restoring
  BY <1>6 DEF Pending, Restoring
<1>8. Restoring => /\ connected
                   /\ \A i \in Id : /\ ~In(toServer, Asks, i) /\ ~In(toServer, Detaches, i)
                                    /\ ~In(toClient, Replies, i)
  BY DEF Keeping, ClosedIsEmpty, RestoresAlone, AttachesOnce
<1> QED BY <1>1, <1>2, <1>3, <1>4, <1>5, <1>6, <1>7, <1>8

LEMMA IdleRestores ==
  ASSUME Sound', ~Restoring'
  PROVE  RestoresAlone'
<1>1. reattaching' = None /\ \A i \in Id : restore'[i] = None
  BY DEF Restoring, Nothing
<1>2. Answered' = {}
  BY <1>1 DEF Sound, OneReattach
<1>3. \A k \in DOMAIN toClient' : toClient'[k].type \notin OutcomeTypes
  BY <1>2 DEF Answered
<1>4. \A o \in Obj : ~Pending(o)'
  BY <1>1 DEF Pending
<1> QED BY <1>1, <1>3, <1>4 DEF RestoresAlone, OutcomeTypes

LEMMA HeldStill ==
  ASSUME HeldTracked, UNCHANGED <<held, attachedResources>>, connected' => connected,
         \A o \in held : /\ proxy'[o].id = proxy[o].id /\ proxy'[o].link = proxy[o].link
                         /\ Current(o)' => Current(o)
                         /\ connected /\ Current(o) /\ Served(o) => Served(o)'
  PROVE  HeldTracked'
BY DEF HeldTracked

-----------------------------------------------------------------------------
(* The server's resources.                                                 *)

LEMMA ResourcesKeeping ==
  ASSUME Sound, Prompted, Keeping, Calm,
         UNCHANGED <<serverSession, toServer, sessionVars, clientVars, notificationQueue>>,
         \/ toClient' = toClient
         \/ subscriptions # {} /\ \E m \in Notification : toClient' = Append(toClient, m),
         \A l \in Link : Live(l)' /\ instance'[l].id \in subscriptions =>
             Live(l) /\ instance'[l].id = instance[l].id,
         \A o \in Obj : Used(o) /\ Current(o)' => Current(o)
  PROVE  Keeping'
<1>1. /\ \A T, i : T \cap NotificationTypes = {} /\ In(toClient', T, i) => In(toClient, T, i)
      /\ Once(toClient, Replies)'
      /\ \A k \in DOMAIN toClient' : toClient'[k].type \in OutcomeTypes =>
            k \in DOMAIN toClient /\ toClient'[k] = toClient[k]
      /\ Answered' = {} => Answered = {}
  <2>1. CASE toClient' = toClient
    BY <2>1 DEF Keeping, AttachesOnce, Answered
  <2>2. ASSUME NEW m \in Notification, toClient' = Append(toClient, m)
        PROVE  /\ \A T, i : T \cap NotificationTypes = {} /\ In(toClient', T, i) =>
                     In(toClient, T, i)
               /\ Once(toClient, Replies)'
               /\ \A k \in DOMAIN toClient' : toClient'[k].type \in OutcomeTypes =>
                     k \in DOMAIN toClient /\ toClient'[k] = toClient[k]
               /\ Answered' = {} => Answered = {}
    <3>1. m.type \in NotificationTypes
      BY DEF Notification, NotificationTypes
    <3>2. toClient \in Seq(Message)
      BY CalmFacts
    <3>3. m.type \notin Replies /\ m.type \notin OutcomeTypes
      BY <3>1 DEF NotificationTypes, Replies, OutcomeTypes
    <3>4. \A T, i : T \cap NotificationTypes = {} /\ In(toClient', T, i) => In(toClient, T, i)
      BY <2>2, <3>1, <3>2, InAppended
    <3>5. Once(toClient, Replies)'
      BY <2>2, <3>2, <3>3, InAppended DEF Keeping, AttachesOnce
    <3>6. \A k \in DOMAIN toClient' : toClient'[k].type \in OutcomeTypes =>
            k \in DOMAIN toClient /\ toClient'[k] = toClient[k]
      BY <2>2, <3>2, <3>3
    <3>7. \A k \in DOMAIN toClient : k \in DOMAIN toClient' /\ toClient'[k] = toClient[k]
      BY <2>2, <3>2
    <3> QED BY <3>4, <3>5, <3>6, <3>7 DEF Answered
  <2> QED BY <2>1, <2>2
<1>2. ClosedIsEmpty'
  BY DEF Keeping, ClosedIsEmpty, Restoring
<1>3. \A i \in Id : /\ In(toClient', Replies, i) => In(toClient, Replies, i)
                    /\ In(toClient', Brought, i) => In(toClient, Brought, i)
                    /\ In(toClient', AnswerTypes, i) => In(toClient, AnswerTypes, i)
  BY <1>1 DEF Replies, Brought, AnswerTypes, NotificationTypes
<1>4. AttachesOnce'
  BY <1>1, <1>3 DEF Keeping, AttachesOnce
<1>5. AttachesAnew'
  BY <1>3 DEF Keeping, AttachesAnew, Detaching
<1>6. RestoresAlone'
  <2>1. \A o \in Obj : Pending(o)' => Pending(o) /\ Used(o) /\ proxy[o].link \in Link
    <3>1. \A o \in Obj : Pending(o)' => Pending(o)
      BY <1>1 DEF Pending
    <3>2. \A o \in Obj : Pending(o) => o \in held
      BY CalmFacts DEF Pending
    <3> QED BY <3>1, <3>2, CalmFacts
  <2>2. \A o \in Obj : (Pending(o) /\ Live(proxy[o].link))' => instance'[proxy[o].link].id \notin subscriptions
    BY <2>1 DEF Keeping, RestoresAlone
  <2>3. ASSUME NEW k \in DOMAIN toClient'
        PROVE  /\ toClient'[k].type # "rejected"
               /\ toClient'[k].type = "notFound" => ~Current(reattaching)'
    <3>1. CASE toClient'[k].type \in OutcomeTypes
      <4>1. k \in Answered
        BY <1>1, <3>1 DEF Answered
      <4>2. reattaching \in held /\ reattaching \in Obj /\ Used(reattaching)
        BY <4>1, CalmFacts
      <4> QED BY <1>1, <3>1, <4>2 DEF Keeping, RestoresAlone
    <3> QED BY <3>1 DEF OutcomeTypes
  <2> QED BY <2>2, <2>3 DEF Keeping, RestoresAlone, Restoring
<1>7. HeldTracked'
  <2>1. \A o \in held : o \in Obj /\ Used(o)
    BY CalmFacts
  <2>2. \A o \in held : Served(o) => Served(o)'
    BY DEF Served, Detaching
  <2> QED BY <2>1, <2>2, HeldStill DEF Keeping
<1> QED BY <1>2, <1>4, <1>5, <1>6, <1>7 DEF Keeping

(* A change of the instance of a link, as Modify and RaiseEvent make it.   *)
LEMMA ChangeKeeping ==
  ASSUME Sound, Prompted, Keeping, Calm, NEW l \in Link, Live(l), NEW y \in Instance,
         y.id = instance[l].id, y.gen = instance[l].gen,
         instance' = [instance EXCEPT ![l] = y],
         NEW m \in Notification, Notify(instance[l].id, m),
         UNCHANGED <<put, resourceCounter, restarts, serverSession, toServer, sessionVars,
                     clientVars, notificationQueue>>
  PROVE  Keeping'
<1>1. instance \in [Link -> Instance \cup {Absent}]
  BY DEF Sound, TypeOK
<1>2. \A k \in Link : /\ Live(k)' <=> Live(k)
                      /\ instance'[k].id = instance[k].id /\ instance'[k].gen = instance[k].gen
  BY <1>1, InstanceType DEF Live
<1>3. \A o \in Obj : Used(o) /\ Current(o)' => Current(o)
  <2>1. \A o \in Obj : Used(o) => proxy[o].link \in Link
    BY ProxyFacts DEF Sound
  <2> QED BY <1>2, <2>1 DEF Current
<1>4. \/ toClient' = toClient
      \/ subscriptions # {} /\ \E n \in Notification : toClient' = Append(toClient, n)
  BY DEF Notify
<1> QED BY <1>2, <1>3, <1>4, ResourcesKeeping

LEMMA ModifyKeeping ==
  ASSUME Sound, Prompted, Keeping, Calm, NEW l \in Link, NEW p \in Prop, Modify(l, p)
  PROVE  Keeping'
<1> DEFINE x == instance[l]
           n == x.rev + 1
           y == [id |-> x.id, gen |-> x.gen, rev |-> n, age |-> [x.age EXCEPT ![p] = n]]
           m == [type |-> "property", id |-> x.id, gen |-> x.gen, rev |-> n, prop |-> p]
<1>1. /\ y \in Instance /\ m \in Notification /\ Live(l)
      /\ instance' = [instance EXCEPT ![l] = y] /\ Notify(instance[l].id, m)
      /\ UNCHANGED <<put, resourceCounter, restarts, serverSession, toServer, sessionVars,
                     clientVars, notificationQueue>>
  BY ModifyChanges DEF Sound
<1>2. y.id = instance[l].id /\ y.gen = instance[l].gen
  OBVIOUS
<1> HIDE DEF y, m
<1> QED BY <1>1, <1>2, ChangeKeeping

LEMMA RaiseEventKeeping ==
  ASSUME Sound, Prompted, Keeping, Calm, NEW l \in Link, RaiseEvent(l)
  PROVE  Keeping'
<1> DEFINE x == instance[l]
           n == x.rev + 1
           y == [id |-> x.id, gen |-> x.gen, rev |-> n, age |-> x.age]
           m == [type |-> "event", id |-> x.id, gen |-> x.gen, rev |-> n]
<1>1. /\ y \in Instance /\ m \in Notification /\ Live(l)
      /\ instance' = [instance EXCEPT ![l] = y] /\ Notify(instance[l].id, m)
      /\ UNCHANGED <<put, resourceCounter, restarts, serverSession, toServer, sessionVars,
                     clientVars, notificationQueue>>
  BY RaiseEventChanges DEF Sound
<1>2. y.id = instance[l].id /\ y.gen = instance[l].gen
  OBVIOUS
<1> HIDE DEF y, m
<1> QED BY <1>1, <1>2, ChangeKeeping

(* A new instance has an id nobody is subscribed to and a generation no    *)
(* proxy is of.                                                            *)
LEMMA PutKeeping ==
  ASSUME Sound, Prompted, Keeping, Calm, NEW l \in Link, Put(l)
  PROVE  Keeping'
<1> DEFINE x == [id |-> resourceCounter + 1, gen |-> <<l, put[l] + 1>>, rev |-> 0,
                 age |-> [p \in Prop |-> 0]]
<1>1. /\ instance' = [instance EXCEPT ![l] = x] /\ ~Live(l)
      /\ put[l] \in 0 .. MaxGeneration /\ resourceCounter \in 0 .. MaxId
      /\ UNCHANGED <<restarts, serverSession, toServer, toClient, sessionVars, clientVars,
                     notificationQueue>>
  BY PutMakes DEF Sound
<1>2. instance \in [Link -> Instance \cup {Absent}]
  BY DEF Sound, TypeOK
<1>3. x.id = resourceCounter + 1 /\ x.gen[2] = put[l] + 1
  OBVIOUS
<1> HIDE DEF x
<1>4. instance'[l] = x /\ \A k \in Link : k # l => instance'[k] = instance[k]
  BY <1>1, <1>2
<1>5. x.id \notin subscriptions
  <2>1. \A i \in subscriptions : i <= resourceCounter
    BY DEF Prompted, OneName
  <2> QED BY <1>1, <1>3, <2>1
<1>6. ASSUME NEW o \in Obj, Used(o), Current(o)' PROVE Current(o)
  <2>1. proxy[o].link \in Link /\ proxy[o].gen[2] <= put[proxy[o].link]
    BY <1>6, ProxyFacts DEF Prompted, ProxiesTrue, Sound
  <2>2. proxy'[o] = proxy[o]
    BY <1>1
  <2>3. proxy[o].link # l
    <3> SUFFICES ASSUME proxy[o].link = l PROVE FALSE
      OBVIOUS
    <3>1. proxy[o].gen = x.gen
      BY <1>4, <1>6, <2>2 DEF Current
    <3>2. put[l] + 1 <= put[l]
      BY <1>3, <2>1, <3>1
    <3> QED BY <1>1, <3>2
  <2> QED BY <1>4, <1>6, <2>1, <2>2, <2>3 DEF Current, Live
<1>7. \A k \in Link : Live(k)' /\ instance'[k].id \in subscriptions =>
         Live(k) /\ instance'[k].id = instance[k].id
  BY <1>4, <1>5 DEF Live
<1> QED BY <1>1, <1>6, <1>7, ResourcesKeeping

LEMMA RemoveKeeping ==
  ASSUME Sound, Prompted, Keeping, Calm, NEW l \in Link, Remove(l)
  PROVE  Keeping'
<1>1. instance \in [Link -> Instance \cup {Absent}]
  BY DEF Sound, TypeOK
<1>2. /\ instance' = [instance EXCEPT ![l] = Absent]
      /\ UNCHANGED <<put, resourceCounter, restarts, serverSession, toServer, toClient,
                     sessionVars, clientVars, notificationQueue>>
  BY DEF Remove
<1>3. \A k \in Link : Live(k)' => Live(k) /\ instance'[k] = instance[k]
  BY <1>1, <1>2 DEF Live
<1>4. \A o \in Obj : Used(o) /\ Current(o)' => Current(o)
  <2>1. \A o \in Obj : Used(o) => proxy[o].link \in Link
    BY ProxyFacts DEF Sound
  <2> QED BY <1>2, <1>3, <2>1 DEF Current
<1> QED BY <1>2, <1>3, <1>4, ResourcesKeeping

-----------------------------------------------------------------------------
(* The server's handlers.                                                  *)

LEMMA ReceiveAttachKeeping ==
  ASSUME Sound, Sound', Prompted, Keeping, Calm, ReceiveAttach
  PROVE  Keeping'
<1> DEFINE m == Head(toServer)
           n == [type |-> "refused", id |-> m.id]
<1>1. toServer \in Seq(Request) /\ handling \in Seq(DirectRequest) /\ toClient \in Seq(Message)
  BY CalmFacts
<1>2. toServer # <<>> /\ m.type = "attach" /\ toServer' = Tail(toServer) /\ n.type = "refused" /\ n.id = m.id
  BY DEF ReceiveAttach
<1>3. UNCHANGED <<serverVars, subscriptions, querying, sessionVars, clientVars,
                  notificationQueue>>
  BY DEF ReceiveAttach
<1>4. \/ toClient' = Append(toClient, n) /\ handling' = handling
      \/ handling' = Append(handling, m) /\ toClient' = toClient
  BY DEF ReceiveAttach, Reply
<1>5. m.id \in Id
  <2>1. m \in Request
    BY <1>1, <1>2
  <2> QED BY <1>2, <2>1 DEF Request, DirectRequest, ReattachRequest
<1> HIDE DEF m, n
<1>6. /\ In(toServer, Asks, m.id) /\ ~In(toServer', Asks, m.id)
      /\ \A i : /\ In(toServer', Asks, i) => In(toServer, Asks, i)
                /\ In(toServer', Detaches, i) => In(toServer, Detaches, i)
      /\ Once(toServer', Asks) /\ Precede(toServer', Detaches, Asks)
      /\ ~In(toServer', Detaches, m.id)
  BY <1>1, <1>2, InDropped DEF Keeping, AttachesOnce, AttachesAnew, Asks, m
<1>7. ~In(handling, Asks, m.id) /\ ~In(toClient, Replies, m.id) /\ m.id \in attachRequests
  BY <1>5, <1>6 DEF Keeping, AttachesOnce
<1>8. ASSUME toClient' = Append(toClient, n), handling' = handling
      PROVE  AttachesOnce' /\ AttachesAnew'
  <2>0. n.type \in Replies /\ n.type \notin Brought /\ n.type \notin AnswerTypes
    BY <1>2 DEF Replies, Brought, AnswerTypes
  <2>1. /\ Once(toClient', Replies)
        /\ \A i : In(toClient', Replies, i) => In(toClient, Replies, i) \/ i = m.id
        /\ \A i : In(toClient', Brought, i) => In(toClient, Brought, i)
        /\ \A i : In(toClient', AnswerTypes, i) => In(toClient, AnswerTypes, i)
    BY <1>1, <1>2, <1>7, <1>8, <2>0, InAppended DEF Keeping, AttachesOnce
  <2>2. AttachesOnce'
    BY <1>3, <1>6, <1>7, <1>8, <2>1 DEF Keeping, AttachesOnce
  <2>3. AttachesAnew'
    BY <1>3, <1>6, <1>8, <2>1 DEF Keeping, AttachesAnew, Detaching
  <2> QED BY <2>2, <2>3
<1>9. ASSUME handling' = Append(handling, m), toClient' = toClient
      PROVE  AttachesOnce' /\ AttachesAnew'
  <2>0. m.type \in Asks /\ m.type \notin Detaches
    BY <1>2 DEF Asks, Detaches
  <2>1. /\ Once(handling', Asks)
        /\ \A i : In(handling', Asks, i) => In(handling, Asks, i) \/ i = m.id
        /\ \A i : In(handling', Detaches, i) => In(handling, Detaches, i)
    BY <1>1, <1>7, <1>9, <2>0, InAppended DEF Keeping, AttachesOnce
  <2>4. Precede(handling', Detaches, Asks)
    BY <1>1, <1>9, <2>0, InAppended DEF Keeping, AttachesAnew
  <2>2. AttachesOnce'
    BY <1>3, <1>6, <1>7, <1>9, <2>1 DEF Keeping, AttachesOnce
  <2>3. AttachesAnew'
    BY <1>3, <1>6, <1>9, <2>1, <2>4 DEF Keeping, AttachesAnew, Detaching
  <2> QED BY <2>2, <2>3
<1>10. AttachesOnce' /\ AttachesAnew'
  BY <1>4, <1>8, <1>9
<1>11. connected /\ ~Restoring
  BY <1>2, <1>5, <1>6, CalmFacts DEF Keeping, ClosedIsEmpty
<1>12. ClosedIsEmpty' /\ RestoresAlone'
  BY <1>3, <1>11, IdleRestores DEF ClosedIsEmpty, Restoring
<1>13. HeldTracked'
  <2>0. m.type \notin Detaches
    BY <1>2 DEF Detaches
  <2>1. \A i : In(handling', Detaches, i) => In(handling, Detaches, i)
    <3>1. \A i : In(Append(handling, m), Detaches, i) => In(handling, Detaches, i)
      BY <1>1, <2>0, InAppended
    <3> QED BY <1>4, <3>1
  <2>2. \A o \in held : Served(o) => Served(o)'
    BY <1>3, <1>6, <2>1 DEF Served, Detaching
  <2>3. \A o \in held : Current(o)' <=> Current(o)
    BY <1>3 DEF Current, Live
  <2> QED BY <1>3, <2>2, <2>3, HeldStill DEF Keeping
<1> QED BY <1>10, <1>12, <1>13 DEF Keeping

LEMMA FinishAttachKeeping ==
  ASSUME Sound, Sound', Prompted, Keeping, Calm, FinishAttach
  PROVE  Keeping'
<1> DEFINE m == Head(handling)
<1>1. toServer \in Seq(Request) /\ handling \in Seq(DirectRequest) /\ toClient \in Seq(Message)
  BY CalmFacts
<1>2. handling # <<>> /\ m.type = "attach" /\ handling' = Tail(handling)
  BY DEF FinishAttach
<1>3. UNCHANGED <<serverVars, querying, toServer, sessionVars, clientVars, notificationQueue>>
  BY DEF FinishAttach
<1>4. m.id \in Id
  <2>1. m \in DirectRequest
    BY <1>1, <1>2
  <2> QED BY <2>1 DEF DirectRequest
<1>5. \/ subscriptions' = subscriptions /\ toClient' = toClient
      \/ \E n \in Message : /\ n.type = "attached" /\ n.id = m.id
                            /\ toClient' = Append(toClient, n)
                            /\ subscriptions' = subscriptions \cup {m.id}
  <2>1. CASE ~IsLive(m.id)
    BY <2>1 DEF FinishAttach
  <2>2. CASE IsLive(m.id)
    BY <2>2, FinishAttachReplies DEF Sound
  <2> QED BY <2>1, <2>2
<1> HIDE DEF m
<1>6. connected /\ ~Restoring
  BY <1>2 DEF Keeping, ClosedIsEmpty, RestoresAlone
<1>7. /\ In(handling, Asks, m.id) /\ ~In(handling', Asks, m.id) /\ ~In(handling', Detaches, m.id)
      /\ Once(handling', Asks) /\ Precede(handling', Detaches, Asks)
      /\ \A i : /\ In(handling', Asks, i) => In(handling, Asks, i)
                /\ In(handling', Detaches, i) => In(handling, Detaches, i)
  BY <1>1, <1>2, InDropped DEF Keeping, AttachesOnce, AttachesAnew, Asks, m
<1>8. /\ ~In(toServer, Asks, m.id) /\ ~In(toClient, Replies, m.id) /\ m.id \in attachRequests
      /\ ~In(toServer, Detaches, m.id)
  BY <1>4, <1>7 DEF Keeping, AttachesOnce, AttachesAnew
<1>9. /\ Once(toClient', Replies)
      /\ \A i : /\ In(toClient', Replies, i) => In(toClient, Replies, i) \/ i = m.id
                /\ In(toClient', Brought, i) => In(toClient, Brought, i) \/ i = m.id
                /\ In(toClient', AnswerTypes, i) =>
                      In(toClient, AnswerTypes, i) \/ i \in subscriptions'
      /\ subscriptions \subseteq subscriptions'
  <2>1. CASE subscriptions' = subscriptions /\ toClient' = toClient
    BY <2>1 DEF Keeping, AttachesOnce
  <2>2. ASSUME NEW n \in Message, n.type = "attached", n.id = m.id,
               toClient' = Append(toClient, n), subscriptions' = subscriptions \cup {m.id}
        PROVE  /\ Once(toClient', Replies)
               /\ \A i : /\ In(toClient', Replies, i) => In(toClient, Replies, i) \/ i = m.id
                         /\ In(toClient', Brought, i) => In(toClient, Brought, i) \/ i = m.id
                         /\ In(toClient', AnswerTypes, i) =>
                               In(toClient, AnswerTypes, i) \/ i \in subscriptions'
               /\ subscriptions \subseteq subscriptions'
    BY <1>1, <1>8, <2>2, InAppended DEF Keeping, AttachesOnce
  <2> QED BY <1>5, <2>1, <2>2
<1>10. AttachesOnce'
  BY <1>3, <1>7, <1>8, <1>9 DEF Keeping, AttachesOnce
<1>11. AttachesAnew'
  BY <1>3, <1>7, <1>8, <1>9 DEF Keeping, AttachesAnew, Detaching
<1>12. ClosedIsEmpty' /\ RestoresAlone'
  BY <1>3, <1>6, IdleRestores DEF ClosedIsEmpty, Restoring
<1>13. HeldTracked'
  <2>1. \A o \in held : Served(o) => Served(o)'
    BY <1>3, <1>7, <1>9 DEF Served, Detaching
  <2>2. \A o \in held : Current(o)' <=> Current(o)
    BY <1>3 DEF Current, Live
  <2> QED BY <1>3, <2>1, <2>2, HeldStill DEF Keeping
<1> QED BY <1>10, <1>11, <1>12, <1>13 DEF Keeping

LEMMA ReceiveReattachKeeping ==
  ASSUME Sound, Sound', Prompted, Keeping, Calm, ReceiveReattach
  PROVE  Keeping'
<1>1. toServer \in Seq(Request)
  BY CalmFacts
<1>2. toServer # <<>> /\ toServer' = Tail(toServer)
  BY DEF ReceiveReattach
<1>3. UNCHANGED <<serverVars, subscriptions, handling, toClient, sessionVars, clientVars,
                  notificationQueue>>
  BY DEF ReceiveReattach
<1>4. /\ \A i : /\ In(toServer', Asks, i) => In(toServer, Asks, i)
                /\ In(toServer', Detaches, i) => In(toServer, Detaches, i)
      /\ Once(toServer', Asks) /\ Precede(toServer', Detaches, Asks)
  BY <1>1, <1>2, InDropped DEF Keeping, AttachesOnce, AttachesAnew
<1>5. ClosedIsEmpty'
  BY <1>2, <1>3 DEF Keeping, ClosedIsEmpty
<1>6. AttachesOnce'
  BY <1>3, <1>4 DEF Keeping, AttachesOnce
<1>7. AttachesAnew'
  BY <1>3, <1>4 DEF Keeping, AttachesAnew, Detaching
<1>8. RestoresAlone'
  <2>1. (Restoring' <=> Restoring) /\ \A o : (Pending(o)' <=> Pending(o)) /\ (Current(o)' <=> Current(o))
    BY <1>3 DEF Restoring, Pending, Answered, Current, Live
  <2> QED BY <1>3, <1>4, <2>1 DEF Keeping, RestoresAlone, Live
<1>9. HeldTracked'
  <2>1. \A o \in held : Served(o) => Served(o)'
    BY <1>3, <1>4 DEF Served, Detaching
  <2>2. \A o \in held : Current(o)' <=> Current(o)
    BY <1>3 DEF Current, Live
  <2> QED BY <1>3, <2>1, <2>2, HeldStill DEF Keeping
<1> QED BY <1>5, <1>6, <1>7, <1>8, <1>9 DEF Keeping

(* The reattach is not rejected: the restore has the connection for itself,*)
(* and no other proxy held is of the link.                                 *)
LEMMA FinishReattachKeeping ==
  ASSUME Sound, Sound', Prompted, Keeping, Calm, FinishReattach
  PROVE  Keeping'
<1> DEFINE l == querying.link
           x == instance[l]
<1>1. toClient \in Seq(Message) /\ handling \in Seq(DirectRequest)
  BY CalmFacts
<1>2. UNCHANGED <<serverVars, handling, toServer, sessionVars, clientVars, notificationQueue>>
  BY DEF FinishReattach
<1>3. /\ querying # None /\ querying' = None /\ Restoring /\ connected
      /\ reattaching \in held /\ reattaching \in Obj /\ Answered = {}
  BY CalmFacts DEF FinishReattach, Sound, OneReattach
<1>4. /\ querying \in ReattachRequest /\ l \in Link
      /\ proxy[reattaching].link = l
  BY <1>3, FinishReattachReplies DEF Prompted, ReattachFits, AsksFor, Sound
<1>5. Pending(reattaching)
  BY <1>3 DEF Pending
<1>6. Live(l) => ~AlreadyAttached(x.id)
  <2>1. Live(l) => x.id \notin subscriptions
    BY <1>3, <1>4, <1>5 DEF Keeping, RestoresAlone
  <2>2. handling = <<>>
    BY <1>3 DEF Keeping, RestoresAlone
  <2>3. PeerAttaching = {}
    BY <2>2 DEF PeerAttaching
  <2> QED BY <2>1, <2>3 DEF AlreadyAttached
<1>7. PICK n : /\ toClient' = Append(toClient, n)
               /\ \/ /\ ~Live(l) /\ n.type = "notFound" /\ subscriptions' = subscriptions
                  \/ /\ Live(l) /\ n.type = "reattached" /\ n.id = x.id
                     /\ subscriptions' = subscriptions \cup {x.id}
  <2>1. CASE ~Live(l)
    <3>1. toClient' = Append(toClient, [type |-> "notFound"]) /\ subscriptions' = subscriptions
      BY <2>1, Zenon DEF FinishReattach, Reply
    <3> QED BY <2>1, <3>1
  <2>2. CASE Live(l)
    <3> DEFINE v == IF querying.gen = x.gen THEN ValuesSince(x, querying.rev) ELSE AllValues(x)
               n == [type |-> "reattached", id |-> x.id, gen |-> x.gen, link |-> l,
                     rev |-> x.rev, values |-> v]
    <3>1. toClient' = Append(toClient, n) /\ subscriptions' = subscriptions \cup {x.id}
      BY <1>6, <2>2, Zenon DEF FinishReattach, Reply
    <3>2. n.type = "reattached" /\ n.id = x.id
      OBVIOUS
    <3> HIDE DEF n
    <3> QED BY <2>2, <3>1, <3>2
  <2> QED BY <2>1, <2>2
<1> HIDE DEF l, x
<1>8. n.type \in OutcomeTypes /\ n.type \notin Replies /\ n.type \notin Brought /\ n.type # "rejected"
  BY <1>7 DEF OutcomeTypes, Replies, Brought
<1>9. n.type \in AnswerTypes => n.id \in subscriptions'
  BY <1>7 DEF AnswerTypes
<1>10. subscriptions \subseteq subscriptions'
  BY <1>7
<1>11. /\ Once(toClient', Replies)
       /\ \A i : /\ In(toClient', Replies, i) => In(toClient, Replies, i)
                 /\ In(toClient', Brought, i) => In(toClient, Brought, i)
  BY <1>1, <1>7, <1>8, InAppended DEF Keeping, AttachesOnce
<1>12. \A i : In(toClient', AnswerTypes, i) => In(toClient, AnswerTypes, i) \/ i \in subscriptions'
  BY <1>1, <1>7, <1>9, InAppended
<1>13. ClosedIsEmpty'
  BY <1>2, <1>3 DEF ClosedIsEmpty
<1>14. AttachesOnce'
  BY <1>2, <1>11 DEF Keeping, AttachesOnce
<1>15. AttachesAnew'
  BY <1>2, <1>10, <1>11, <1>12 DEF Keeping, AttachesAnew, Detaching
<1>16. RestoresAlone'
  <2>1. Restoring' /\ \A o : Current(o)' <=> Current(o)
    BY <1>2, <1>3 DEF Restoring, Current, Live
  <2>2. Len(toClient) + 1 \in DOMAIN toClient' /\ toClient'[Len(toClient) + 1] = n
        /\ \A k \in DOMAIN toClient' : k = Len(toClient) + 1 \/ (k \in DOMAIN toClient /\ toClient'[k] = toClient[k])
    BY <1>1, <1>7
  <2>3. Answered' # {}
    BY <1>8, <2>2 DEF Answered
  <2>4. ASSUME NEW k \in DOMAIN toClient'
        PROVE  /\ toClient'[k].type # "rejected"
               /\ toClient'[k].type = "notFound" => ~Current(reattaching)'
    <3>1. CASE k \in DOMAIN toClient /\ toClient'[k] = toClient[k]
      BY <1>2, <2>1, <3>1 DEF Keeping, RestoresAlone
    <3>2. CASE k = Len(toClient) + 1
      BY <1>2, <1>4, <1>7, <1>8, <2>2, <3>2 DEF Current, Live
    <3> QED BY <2>2, <3>1, <3>2
  <2>5. ASSUME NEW o \in Obj, Pending(o)', Live(proxy[o].link)'
        PROVE  instance'[proxy[o].link].id \notin subscriptions'
    <3>1. PICK i \in Id : restore[i] = o
      BY <1>2, <2>3, <2>5 DEF Pending
    <3>2. Pending(o) /\ Live(proxy[o].link)
      BY <1>2, <2>5, <3>1 DEF Pending, Live
    <3>3. instance[proxy[o].link].id \notin subscriptions
      BY <3>2 DEF Keeping, RestoresAlone
    <3>4. ASSUME Live(l) PROVE instance[proxy[o].link].id # x.id
      <4>1. o \in held /\ o # reattaching /\ o # None
        BY <3>1, CalmFacts DEF Keeping, RestoresAlone
      <4>2. proxy[o].link # l /\ proxy[o].link \in Link
        BY <1>3, <1>4, <4>1, CalmFacts DEF Keeping, HeldTracked
      <4>3. ASSUME instance[proxy[o].link].id = x.id PROVE FALSE
        <5> DEFINE y == instance[proxy[o].link]
        <5>1. /\ y.id \in Id /\ y.gen \in Generation /\ x.id \in Id /\ x.gen \in Generation
          BY <1>4, <3>2, <3>4, <4>2, InstanceFacts DEF Sound, x
        <5>2. Named(y.id, y.gen) /\ Named(x.id, x.gen)
          BY <1>4, <3>2, <3>4, <4>2 DEF Named, x
        <5>3. y.gen = x.gen
          BY <4>3, <5>1, <5>2 DEF Prompted, OneName
        <5>4. y.gen[1] = proxy[o].link /\ x.gen[1] = l
          BY <1>4, <3>2, <3>4, <4>2 DEF Prompted, OneName, x
        <5> QED BY <4>2, <5>3, <5>4
      <4> QED BY <4>3
    <3> QED BY <1>2, <1>7, <3>3, <3>4
  <2> QED BY <1>2, <1>3, <2>4, <2>5 DEF Keeping, RestoresAlone
<1>17. HeldTracked'
  <2>1. \A o \in held : Served(o) => Served(o)'
    BY <1>2, <1>10 DEF Served, Detaching
  <2>2. \A o \in held : Current(o)' <=> Current(o)
    BY <1>2 DEF Current, Live
  <2> QED BY <1>2, <2>1, <2>2, HeldStill DEF Keeping
<1> QED BY <1>13, <1>14, <1>15, <1>16, <1>17 DEF Keeping

LEMMA ReceiveDetachKeeping ==
  ASSUME Sound, Sound', Prompted, Keeping, Calm, ReceiveDetach
  PROVE  Keeping'
<1> DEFINE m == Head(toServer)
<1>1. toServer \in Seq(Request) /\ handling \in Seq(DirectRequest)
  BY CalmFacts
<1>2. toServer # <<>> /\ m.type = "detach" /\ toServer' = Tail(toServer)
      /\ handling' \in {handling, Append(handling, m)}
  BY DEF ReceiveDetach
<1>3. UNCHANGED <<serverVars, subscriptions, querying, toClient, sessionVars, clientVars,
                  notificationQueue>>
  BY DEF ReceiveDetach
<1>4. m.id \in Id
  <2>1. m \in Request
    BY <1>1, <1>2
  <2> QED BY <1>2, <2>1 DEF Request, DirectRequest, ReattachRequest
<1>5. m.type \in Detaches /\ m.type \notin Asks
  BY <1>2 DEF Detaches, Asks
<1> HIDE DEF m
<1>6. /\ In(toServer, Detaches, m.id)
      /\ \A i : /\ In(toServer', Asks, i) => In(toServer, Asks, i)
                /\ In(toServer', Detaches, i) => In(toServer, Detaches, i)
      /\ Once(toServer', Asks) /\ Precede(toServer', Detaches, Asks)
  BY <1>1, <1>2, <1>5, InDropped DEF Keeping, AttachesOnce, AttachesAnew, m
<1>7. ~In(handling, Asks, m.id)
  BY <1>4, <1>6 DEF Keeping, AttachesAnew
<1>8. /\ Once(handling', Asks) /\ Precede(handling', Detaches, Asks)
      /\ \A i : /\ In(handling', Asks, i) => In(handling, Asks, i)
                /\ In(handling', Detaches, i) => In(handling, Detaches, i) \/ i = m.id
  <2>1. CASE handling' = handling
    BY <2>1 DEF Keeping, AttachesOnce, AttachesAnew
  <2>2. CASE handling' = Append(handling, m)
    BY <1>1, <1>5, <1>7, <2>2, InAppended DEF Keeping, AttachesOnce, AttachesAnew
  <2> QED BY <1>2, <2>1, <2>2
<1>9. connected /\ ~Restoring
  BY <1>2, <1>4, <1>6, CalmFacts DEF Keeping, ClosedIsEmpty
<1>10. AttachesOnce'
  BY <1>3, <1>6, <1>8 DEF Keeping, AttachesOnce
<1>11. \A i : Detaching(i)' => Detaching(i)
  BY <1>6, <1>8 DEF Detaching
<1>12. AttachesAnew'
  BY <1>3, <1>6, <1>8, <1>11 DEF Keeping, AttachesAnew
<1>13. ClosedIsEmpty' /\ RestoresAlone'
  BY <1>3, <1>9, IdleRestores DEF ClosedIsEmpty, Restoring
<1>14. HeldTracked'
  <2>1. \A o \in held : Served(o) => Served(o)'
    BY <1>3, <1>11 DEF Served
  <2>2. \A o \in held : Current(o)' <=> Current(o)
    BY <1>3 DEF Current, Live
  <2> QED BY <1>3, <2>1, <2>2, HeldStill DEF Keeping
<1> QED BY <1>10, <1>12, <1>13, <1>14 DEF Keeping

(* A subscription ends when no answer about the resource is on its way.    *)
LEMMA FinishDetachKeeping ==
  ASSUME Sound, Sound', Prompted, Keeping, Calm, FinishDetach
  PROVE  Keeping'
<1> DEFINE m == Head(handling)
<1>1. handling \in Seq(DirectRequest) /\ toClient \in Seq(Message)
  BY CalmFacts
<1>2. handling # <<>> /\ m.type = "detach" /\ handling' = Tail(handling)
      /\ subscriptions' = subscriptions \ {m.id}
  BY DEF FinishDetach
<1>3. UNCHANGED <<serverVars, querying, toServer, toClient, sessionVars, clientVars,
                  notificationQueue>>
  BY DEF FinishDetach
<1>4. m.id \in Id
  <2>1. m \in DirectRequest
    BY <1>1, <1>2
  <2> QED BY <2>1 DEF DirectRequest
<1>5. m.type \in Detaches
  BY <1>2 DEF Detaches
<1> HIDE DEF m
<1>6. connected /\ ~Restoring
  BY <1>2 DEF Keeping, ClosedIsEmpty, RestoresAlone
<1>7. /\ In(handling, Detaches, m.id)
      /\ \A i : /\ In(handling', Asks, i) => In(handling, Asks, i)
                /\ In(handling', Detaches, i) => In(handling, Detaches, i)
      /\ Once(handling', Asks) /\ Precede(handling', Detaches, Asks)
  BY <1>1, <1>2, <1>5, InDropped DEF Keeping, AttachesOnce, AttachesAnew, m
<1>8. Detaching(m.id) /\ \A i : Detaching(i)' => Detaching(i)
  BY <1>3, <1>7 DEF Detaching
<1>9. ~In(toClient, AnswerTypes, m.id)
  <2>1. ~In(toClient, Brought, m.id)
    BY <1>4, <1>8 DEF Keeping, AttachesAnew
  <2>2. Answered = {}
    BY <1>6, CalmFacts
  <2> QED BY <2>1, <2>2 DEF In, Answered, AnswerTypes, Brought, OutcomeTypes
<1>10. AttachesOnce'
  BY <1>3, <1>7 DEF Keeping, AttachesOnce
<1>11. AttachesAnew'
  BY <1>2, <1>3, <1>7, <1>8, <1>9 DEF Keeping, AttachesAnew
<1>12. ClosedIsEmpty' /\ RestoresAlone'
  BY <1>3, <1>6, IdleRestores DEF ClosedIsEmpty, Restoring
<1>13. HeldTracked'
  <2>1. \A o \in held : Served(o) => Served(o)'
    BY <1>2, <1>3, <1>8 DEF Served
  <2>2. \A o \in held : Current(o)' <=> Current(o)
    BY <1>3 DEF Current, Live
  <2> QED BY <1>3, <2>1, <2>2, HeldStill DEF Keeping
<1> QED BY <1>10, <1>11, <1>12, <1>13 DEF Keeping

-----------------------------------------------------------------------------
(* The application.                                                        *)

(* What is tracked is held already, and what is asked for is not tracked.  *)
LEMMA AttachKeeping ==
  ASSUME Sound, Sound', Prompted, Keeping, Calm, Calm', NEW id \in Id, Attach(id)
  PROVE  Keeping'
<1> DEFINE m == [type |-> "attach", id |-> id]
<1>1. toServer \in Seq(Request) /\ attachRequests \subseteq Id
  BY CalmFacts
<1>2. connected /\ ~Restoring /\ id \notin attachRequests
  BY DEF Attach, Disturbance, Calm
<1>3. /\ attachedResources[id] = None /\ held' = held
      /\ attachRequests' = attachRequests \cup {id} /\ toServer' = Append(toServer, m)
  <2>1. attachedResources[id] = None
    <3> SUFFICES ASSUME attachedResources[id] # None PROVE FALSE
      OBVIOUS
    <3>1. held' = held \cup {attachedResources[id]} /\ held' # held
      BY DEF Attach
    <3>2. attachedResources[id] \in held
      BY CalmFacts
    <3> QED BY <3>1, <3>2
  <2> QED BY <2>1 DEF Attach
<1>4. UNCHANGED <<serverVars, serverSession, toClient, sessionVars, proxy, attachedResources,
                  decoding, restore, reattaching, late, notificationQueue>>
  BY DEF Attach
<1>5. m.type \in Asks /\ m.type \notin Detaches /\ m.id = id
  BY DEF Asks, Detaches
<1> HIDE DEF m
<1>6. ~In(toServer, Asks, id) /\ ~In(handling, Asks, id) /\ ~In(toClient, Replies, id)
  BY <1>2 DEF Keeping, AttachesOnce
<1>7. /\ Once(toServer', Asks) /\ Precede(toServer', Detaches, Asks)
      /\ \A i : /\ In(toServer', Asks, i) => In(toServer, Asks, i) \/ i = id
                /\ In(toServer', Detaches, i) => In(toServer, Detaches, i)
  BY <1>1, <1>3, <1>5, <1>6, InAppended DEF Keeping, AttachesOnce, AttachesAnew
<1>8. AttachesOnce'
  BY <1>3, <1>4, <1>6, <1>7 DEF Keeping, AttachesOnce
<1>9. AttachesAnew'
  BY <1>3, <1>4, <1>7 DEF Keeping, AttachesAnew, Detaching
<1>10. ClosedIsEmpty' /\ RestoresAlone'
  BY <1>2, <1>4, IdleRestores DEF ClosedIsEmpty, Restoring
<1>11. HeldTracked'
  <2>1. \A o \in held : Served(o) => Served(o)'
    BY <1>4, <1>7 DEF Served, Detaching
  <2>2. \A o \in held : Current(o)' <=> Current(o)
    BY <1>4 DEF Current, Live
  <2> QED BY <1>3, <1>4, <2>1, <2>2, HeldStill DEF Keeping
<1> QED BY <1>8, <1>9, <1>10, <1>11 DEF Keeping

LEMMA DetachKeeping ==
  ASSUME Sound, Sound', Prompted, Keeping, Calm, Calm', NEW o \in Obj, Detach(o)
  PROVE  Keeping'
<1> DEFINE i == proxy[o].id
           m == [type |-> "detach", id |-> i]
<1>1. toServer \in Seq(Request) /\ attachRequests \subseteq Id
      /\ attachedResources \in [Id -> Obj \cup {None}]
  BY CalmFacts
<1>2. /\ o \in held /\ ~Restoring /\ held' = held \ {o}
      /\ attachedResources' = [attachedResources EXCEPT ![i] = None]
      /\ toServer' \in {toServer, Append(toServer, m)}
      /\ ~connected => toServer' = toServer
  BY DEF Detach, Disturbance, Calm
<1>3. UNCHANGED <<serverVars, serverSession, toClient, sessionVars, proxy, attachRequests,
                  decoding, restore, reattaching, late, notificationQueue>>
  BY DEF Detach
<1>4. i \in Id /\ attachedResources[i] = o /\ o # None
  BY <1>2, CalmFacts DEF Keeping, HeldTracked
<1>5. m.type \in Detaches /\ m.type \notin Asks /\ m.id = i
  BY DEF Asks, Detaches
<1> HIDE DEF m, i
<1>6. i \notin attachRequests
  BY <1>4 DEF Keeping, AttachesAnew
<1>7. ~In(toServer, Asks, i) /\ ~In(handling, Asks, i) /\ ~In(toClient, Replies, i)
  BY <1>4, <1>6 DEF Keeping, AttachesOnce
<1>8. /\ Once(toServer', Asks) /\ Precede(toServer', Detaches, Asks)
      /\ \A j : /\ In(toServer', Asks, j) => In(toServer, Asks, j)
                /\ In(toServer', Detaches, j) => In(toServer, Detaches, j) \/ j = i
  <2>1. CASE toServer' = toServer
    BY <2>1 DEF Keeping, AttachesOnce, AttachesAnew
  <2>2. CASE toServer' = Append(toServer, m)
    BY <1>1, <1>5, <1>7, <2>2, InAppended DEF Keeping, AttachesOnce, AttachesAnew
  <2> QED BY <1>2, <2>1, <2>2
<1>9. AttachesOnce'
  BY <1>3, <1>8 DEF Keeping, AttachesOnce
<1>10. AttachesAnew'
  <2>1. ~In(toClient, Brought, i)
    BY <1>7 DEF In, Brought, Replies
  <2>2. \A j \in attachRequests : attachedResources'[j] = None
    BY <1>1, <1>2, <1>6 DEF Keeping, AttachesAnew
  <2> QED BY <1>3, <1>7, <1>8, <2>1, <2>2 DEF Keeping, AttachesAnew, Detaching
<1>11. ClosedIsEmpty' /\ RestoresAlone'
  BY <1>2, <1>3, IdleRestores DEF Keeping, ClosedIsEmpty, Restoring
<1>12. HeldTracked'
  <2>1. ASSUME NEW p \in held, p # o
        PROVE  /\ attachedResources[proxy[p].id] = p /\ proxy[p].id \in Id
               /\ proxy[p].id # i
               /\ attachedResources'[proxy[p].id] = p
    <3>1. attachedResources[proxy[p].id] = p /\ proxy[p].id \in Id
      BY CalmFacts DEF Keeping, HeldTracked
    <3>2. proxy[p].id # i
      BY <1>4, <2>1, <3>1
    <3> QED BY <1>1, <1>2, <3>1, <3>2
  <2>2. ASSUME NEW p \in held, p # o, connected, Current(p)' PROVE Served(p)'
    <3>1. Current(p)
      BY <1>3, <2>2 DEF Current, Live
    <3>2. Served(p)
      BY <2>2, <3>1 DEF Keeping, HeldTracked
    <3>3. Detaching(proxy[p].id)' => Detaching(proxy[p].id)
      BY <1>3, <1>8, <2>1, <2>2 DEF Detaching
    <3> QED BY <1>3, <3>2, <3>3 DEF Served
  <2> QED BY <1>2, <1>3, <2>1, <2>2 DEF Keeping, HeldTracked
<1> QED BY <1>9, <1>10, <1>11, <1>12 DEF Keeping

-----------------------------------------------------------------------------
(* The client's replies.                                                   *)

(* The head of the channel to the client is taken.                         *)
LEMMA ReceiveInView ==
  ASSUME Sound, Keeping, NEW t, Receiving(t)
  PROVE  /\ toClient' = Tail(toClient) /\ connected
         /\ toClient[1] \in Message /\ toClient[1].type = t /\ 1 \in DOMAIN toClient
         /\ \A T, i : In(toClient', T, i) => In(toClient, T, i)
         /\ \A T : t \in T => In(toClient, T, toClient[1].id)
         /\ Once(toClient', Replies)
         /\ t \in Replies => ~In(toClient', Replies, toClient[1].id)
         /\ \A k \in DOMAIN toClient' : k + 1 \in DOMAIN toClient /\ toClient'[k] = toClient[k + 1]
         /\ t \notin OutcomeTypes /\ Answered' = {} => Answered = {}
<1>1. toClient \in Seq(Message)
  BY DEF Sound, TypeOK
<1>2. /\ toClient # <<>> /\ toClient' = Tail(toClient) /\ Head(toClient) = toClient[1]
      /\ toClient[1] \in Message /\ toClient[1].type = t /\ 1 \in DOMAIN toClient
      /\ \A k \in DOMAIN toClient' : /\ k + 1 \in DOMAIN toClient /\ toClient'[k] = toClient[k + 1]
      /\ \A k \in DOMAIN toClient : k # 1 => k - 1 \in DOMAIN toClient'
  BY <1>1, Receives
<1>3. connected
  BY <1>2 DEF Keeping, ClosedIsEmpty
<1>4. /\ \A T, i : In(toClient', T, i) => In(toClient, T, i)
      /\ \A T : t \in T => In(toClient, T, toClient[1].id)
  BY <1>1, <1>2, InDropped
<1>5. Once(toClient', Replies) /\ (t \in Replies => ~In(toClient', Replies, toClient[1].id))
  BY <1>1, <1>2, InDropped DEF Keeping, AttachesOnce
<1>6. t \notin OutcomeTypes /\ Answered' = {} => Answered = {}
  <2>1. \A k \in DOMAIN toClient : k # 1 => toClient'[k - 1] = toClient[k]
    BY <1>1, <1>2
  <2> QED BY <1>2, <2>1 DEF Answered
<1> QED BY <1>2, <1>3, <1>4, <1>5, <1>6

LEMMA ReceiveRefusedKeeping ==
  ASSUME Sound, Sound', Prompted, Keeping, Calm, ReceiveRefused
  PROVE  Keeping'
<1> DEFINE m == toClient[1]
<1>1. toClient \in Seq(Message) /\ Receiving("refused")
  BY CalmFacts DEF ReceiveRefused
<1>2. attachRequests' = attachRequests \ {m.id}
  BY <1>1, Receives DEF ReceiveRefused
<1>3. UNCHANGED <<serverVars, serverSession, toServer, sessionVars, proxy,
                  attachedResources, decoding, restore, reattaching, late, held, disturbed,
                  notificationQueue>>
  BY DEF ReceiveRefused
<1>4. m.id \in Id
  <2>1. m \in Message /\ m.type = "refused"
    BY <1>1, ReceiveInView
  <2>2. m \in Refusal
    BY <2>1 DEF Message, Answer, Notification
  <2> QED BY <2>1, <2>2 DEF Refusal
<1> HIDE DEF m
<1>5. /\ connected
      /\ \A i : /\ In(toClient', Replies, i) => In(toClient, Replies, i)
                /\ In(toClient', Brought, i) => In(toClient, Brought, i)
                /\ In(toClient', AnswerTypes, i) => In(toClient, AnswerTypes, i)
      /\ In(toClient, Replies, m.id) /\ Once(toClient', Replies)
      /\ ~In(toClient', Replies, m.id)
  BY <1>1, ReceiveInView DEF m, Replies
<1>6. ~Restoring
  BY <1>4, <1>5, CalmFacts
<1>7. AttachesOnce'
  BY <1>2, <1>3, <1>5 DEF Keeping, AttachesOnce
<1>8. AttachesAnew'
  BY <1>2, <1>3, <1>5 DEF Keeping, AttachesAnew, Detaching
<1>9. ClosedIsEmpty' /\ RestoresAlone'
  BY <1>3, <1>5, <1>6, IdleRestores DEF ClosedIsEmpty, Restoring
<1>10. HeldTracked'
  <2>1. \A o \in held : Served(o) => Served(o)'
    BY <1>3 DEF Served, Detaching
  <2>2. \A o \in held : Current(o)' <=> Current(o)
    BY <1>3 DEF Current, Live
  <2> QED BY <1>3, <2>1, <2>2, HeldStill DEF Keeping
<1> QED BY <1>7, <1>8, <1>9, <1>10 DEF Keeping

(* What is attached has no proxy yet, nor has its link, and its resource   *)
(* is subscribed and not being detached.                                   *)
LEMMA ReceiveAttachedKeeping ==
  ASSUME Sound, Sound', Prompted, Keeping, Calm, Calm', NEW o \in Obj, ReceiveAttached(o)
  PROVE  Keeping'
<1> DEFINE m == toClient[1]
           s == Merge(NewProxy(m), m.values)
<1>1. /\ toClient \in Seq(Message) /\ proxy \in [Obj -> Proxy \cup {Unused}]
      /\ attachedResources \in [Id -> Obj \cup {None}] /\ attachRequests \subseteq Id
      /\ held \subseteq Obj
  BY CalmFacts
<1>2. Receiving("attached") /\ Head(toClient) = m /\ m.type = "attached" /\ m \in Message
  BY <1>1, Receives DEF ReceiveAttached
<1>3. m \in Answer /\ m.id \in Id /\ m.values \in Values /\ ~Used(o)
  BY <1>2, MessageType DEF AnswerTypes, ReceiveAttached, Used
<1>4. /\ proxy' = [proxy EXCEPT ![o] = s]
      /\ attachedResources' = [attachedResources EXCEPT ![m.id] = o]
      /\ attachRequests' = attachRequests \ {m.id} /\ held' = held \cup {o}
      /\ UNCHANGED <<serverVars, serverSession, toServer, sessionVars, restore,
                     reattaching, notificationQueue>>
      /\ \A i \in Id : attachedResources[i] # None => proxy[attachedResources[i]].link # m.link
  <2>1. ~DecodeLater(o, m.id, m)
    BY DEF DecodeLater, Calm
  <2>2. proxy' = [proxy EXCEPT ![o] = s] /\ Track(o, m.id)
    BY <1>2, <2>1 DEF ReceiveAttached
  <2>3. UNCHANGED <<serverVars, serverSession, toServer, sessionVars, restore,
                    reattaching, notificationQueue>>
    BY DEF ReceiveAttached
  <2>4. \A i \in Id : attachedResources[i] # None => proxy[attachedResources[i]].link # m.link
    BY <1>2 DEF ReceiveAttached, Disturbance, Calm
  <2> QED BY <2>2, <2>3, <2>4 DEF Track
<1>5. s.link = m.link /\ s.id = m.id /\ s.gen = m.gen
  BY <1>3 DEF Merge, NewProxy
<1> HIDE DEF m, s
<1>6. /\ connected
      /\ \A i : /\ In(toClient', Replies, i) => In(toClient, Replies, i)
                /\ In(toClient', Brought, i) => In(toClient, Brought, i)
                /\ In(toClient', AnswerTypes, i) => In(toClient, AnswerTypes, i)
      /\ In(toClient, Replies, m.id) /\ In(toClient, Brought, m.id)
      /\ In(toClient, AnswerTypes, m.id)
      /\ Once(toClient', Replies) /\ ~In(toClient', Replies, m.id)
  BY <1>2, ReceiveInView DEF m, Replies, Brought, AnswerTypes
<1>7. /\ ~Restoring /\ m.id \in attachRequests /\ m.id \in subscriptions /\ ~Detaching(m.id)
      /\ attachedResources[m.id] = None
  BY <1>3, <1>6, CalmFacts DEF Keeping, AttachesOnce, AttachesAnew
<1>8. AttachesOnce'
  BY <1>3, <1>4, <1>6 DEF Keeping, AttachesOnce
<1>9. AttachesAnew'
  <2>1. \A i \in attachRequests' : attachedResources'[i] = None
    BY <1>1, <1>4 DEF Keeping, AttachesAnew
  <2> QED BY <1>4, <1>6, <2>1 DEF Keeping, AttachesAnew, Detaching
<1>10. ClosedIsEmpty' /\ RestoresAlone'
  BY <1>4, <1>6, <1>7, IdleRestores DEF ClosedIsEmpty, Restoring
<1>11. HeldTracked'
  <2>1. proxy'[o] = s /\ attachedResources'[m.id] = o
    BY <1>1, <1>3, <1>4
  <2>2. ASSUME NEW p \in held
        PROVE  /\ p # o /\ proxy'[p] = proxy[p] /\ p \in Obj
               /\ attachedResources'[proxy[p].id] = p
               /\ proxy[p].link # m.link
    <3>1. Used(p) /\ proxy[p].id \in Id /\ attachedResources[proxy[p].id] = p /\ p # None
      BY <1>1, CalmFacts DEF Keeping, HeldTracked
    <3>2. p # o /\ p \in Obj /\ proxy[p].link # m.link
      BY <1>1, <1>3, <1>4, <3>1
    <3>3. proxy[p].id # m.id
      BY <1>7, <3>1
    <3> QED BY <1>1, <1>4, <3>1, <3>2, <3>3
  <2>3. ASSUME NEW p \in held, Current(p)' PROVE Served(p)'
    <3>1. Current(p)
      BY <1>4, <2>2, <2>3 DEF Current, Live
    <3>2. Served(p)
      BY <1>6, <3>1 DEF Keeping, HeldTracked
    <3> QED BY <1>4, <2>2, <3>2 DEF Served, Detaching
  <2>4. Served(o)'
    BY <1>4, <1>5, <1>7, <2>1 DEF Served, Detaching
  <2>5. \A p \in held' : attachedResources'[proxy'[p].id] = p
    BY <1>4, <1>5, <2>1, <2>2
  <2>6. \A p, q \in held' : proxy'[p].link = proxy'[q].link => p = q
    BY <1>4, <1>5, <2>1, <2>2 DEF Keeping, HeldTracked
  <2> QED BY <1>4, <2>3, <2>4, <2>5, <2>6 DEF HeldTracked
<1> QED BY <1>8, <1>9, <1>10, <1>11 DEF Keeping

(* A reattach settles: the loop goes on with what is left of the restore.  *)
LEMMA LoopGoesOn ==
  ASSUME Sound, Prompted, Keeping, Calm, NEW t \in OutcomeTypes, Receiving(t), reattaching' = None,
         UNCHANGED <<instance, subscriptions, toServer, handling, attachRequests, restore>>,
         \A i \in Id : restore[i] # None =>
            /\ attachedResources'[i] = attachedResources[i]
            /\ proxy'[restore[i]] = proxy[restore[i]]
  PROVE  /\ RestoresAlone'
         /\ Restoring /\ reattaching \in held /\ reattaching \in Obj
<1>1. Answered' = {}
  BY LastOfReattach
<1>2. Restoring /\ reattaching \in held /\ reattaching \in Obj
  <2>1. 1 \in Answered
    BY ReceiveInView DEF Answered
  <2> QED BY <2>1, CalmFacts
<1>3. \A k \in DOMAIN toClient' : toClient'[k].type \notin OutcomeTypes
  BY <1>1 DEF Answered
<1>4. \A o \in Obj : Pending(o)' => Pending(o) /\ proxy'[o] = proxy[o]
  BY DEF Pending
<1>5. \A i \in Id : restore[i] # None => attachedResources[i] = restore[i]
  BY DEF Keeping, RestoresAlone
<1>6. /\ \A i \in Id : restore'[i] # None =>
            attachedResources'[i] = restore'[i] /\ restore'[i] # reattaching'
      /\ Restoring' => attachRequests' = {} /\ handling' = <<>>
                       /\ \A i \in Id : ~In(toServer', Detaches, i)
  BY <1>2, <1>5 DEF Keeping, RestoresAlone
<1>7. \A o \in Obj : (Pending(o) /\ Live(proxy[o].link))' =>
          instance'[proxy'[o].link].id \notin subscriptions'
  BY <1>4 DEF Keeping, RestoresAlone, Live
<1>8. \A k \in DOMAIN toClient' : toClient'[k].type # "rejected" /\ toClient'[k].type # "notFound"
  BY <1>3 DEF OutcomeTypes
<1> QED BY <1>2, <1>6, <1>7, <1>8 DEF RestoresAlone

LEMMA ReceiveNotFoundKeeping ==
  ASSUME Sound, Sound', Prompted, Keeping, Calm, ReceiveNotFound
  PROVE  Keeping'
<1>1. Receiving("notFound") /\ "notFound" \in OutcomeTypes /\ reattaching' = None
  BY DEF ReceiveNotFound, OutcomeTypes
<1>2. UNCHANGED <<serverVars, serverSession, toServer, sessionVars, proxy,
                  attachedResources, attachRequests, decoding, restore, late, held, disturbed,
                  notificationQueue>>
  BY DEF ReceiveNotFound
<1>3. RestoresAlone' /\ Restoring /\ reattaching \in held
  BY <1>1, <1>2, LoopGoesOn
<1>4. /\ connected /\ Once(toClient', Replies)
      /\ \A i : /\ In(toClient', Replies, i) => In(toClient, Replies, i)
                /\ In(toClient', Brought, i) => In(toClient, Brought, i)
                /\ In(toClient', AnswerTypes, i) => In(toClient, AnswerTypes, i)
  BY <1>1, ReceiveInView
<1>5. ~Current(reattaching)
  <2>1. 1 \in DOMAIN toClient /\ toClient[1].type = "notFound"
    BY <1>1, ReceiveInView
  <2> QED BY <2>1 DEF Keeping, RestoresAlone
<1>6. ClosedIsEmpty'
  BY <1>2, <1>4 DEF ClosedIsEmpty
<1>7. AttachesOnce'
  BY <1>2, <1>4 DEF Keeping, AttachesOnce
<1>8. AttachesAnew'
  BY <1>2, <1>4 DEF Keeping, AttachesAnew, Detaching
<1>9. HeldTracked'
  <2>1. \A o \in held : Current(o) /\ Served(o) => Served(o)'
    BY <1>2, <1>5 DEF Served, Detaching
  <2>2. \A o \in held : Current(o)' <=> Current(o)
    BY <1>2 DEF Current, Live
  <2> QED BY <1>2, <2>1, <2>2, HeldStill DEF Keeping
<1> QED BY <1>3, <1>6, <1>7, <1>8, <1>9 DEF Keeping

LEMMA NothingIsRejected ==
  ASSUME Sound, Keeping
  PROVE  ~ReceiveRejected
<1> SUFFICES ASSUME ReceiveRejected PROVE FALSE
  OBVIOUS
<1>1. 1 \in DOMAIN toClient /\ toClient[1].type = "rejected"
  BY ReceiveInView DEF ReceiveRejected
<1> QED BY <1>1 DEF Keeping, RestoresAlone

(* No other proxy is tracked under the id the resource has now.            *)
LEMMA ReceiveReattachedKeeping ==
  ASSUME Sound, Sound', Prompted, Keeping, Calm, Calm', ReceiveReattached
  PROVE  Keeping'
<1> DEFINE m == toClient[1]
           o == reattaching
           r == proxy[o]
           old == r.id
           s == Merge(Identify(r, m), m.values)
<1>1. /\ toClient \in Seq(Message) /\ proxy \in [Obj -> Proxy \cup {Unused}]
      /\ attachedResources \in [Id -> Obj \cup {None}] /\ held \subseteq Obj
  BY CalmFacts
<1>2. Receiving("reattached") /\ Head(toClient) = m /\ m.type = "reattached" /\ m \in Message
      /\ 1 \in Answered /\ "reattached" \in OutcomeTypes
  BY <1>1, Receives DEF ReceiveReattached, Answered, OutcomeTypes
<1>3. m \in Answer /\ m.id \in Id /\ m.values \in Values
  BY <1>2, MessageType DEF AnswerTypes
<1>4. /\ o \in held /\ o \in Obj /\ Restoring /\ r \in Proxy /\ o # None
      /\ attachedResources[old] = o /\ old \in Id
  BY <1>2, CalmFacts, LastOfReattach DEF Keeping, HeldTracked
<1>5. /\ proxy' = [proxy EXCEPT ![o] = s] /\ Rekey(o, old, m.id) /\ reattaching' = None
      /\ UNCHANGED <<serverVars, serverSession, toServer, sessionVars, attachRequests,
                     restore, held, notificationQueue>>
      /\ attachedResources[m.id] \in {None, o}
  <2>1. ~DecodeLater(o, old, m)
    BY DEF DecodeLater, Calm
  <2>2. proxy' = [proxy EXCEPT ![o] = s] /\ Rekey(o, old, m.id) /\ reattaching' = None
    BY <1>2, <2>1 DEF ReceiveReattached
  <2>3. attachedResources[m.id] \in {None, o}
    BY <1>2 DEF ReceiveReattached, Disturbance, Calm
  <2>4. UNCHANGED <<serverVars, serverSession, toServer, sessionVars, attachRequests,
                    restore, held, notificationQueue>>
    BY DEF ReceiveReattached
  <2> QED BY <2>2, <2>3, <2>4
<1>6. m.link = r.link
  BY <1>2 DEF Prompted, ReattachFits
<1>7. s.link = m.link /\ s.id = m.id
  <2> DEFINE n == Identify(r, m)
  <2> HIDE DEF r, m
  <2>1. n \in Proxy /\ n.link = m.link /\ n.id = m.id
    BY <1>3, <1>4, Identified
  <2> HIDE DEF n
  <2>2. Merge(n, m.values).link = n.link /\ Merge(n, m.values).id = n.id
    BY <1>3, <2>1, Merged
  <2> QED BY <2>1, <2>2 DEF n
<1> HIDE DEF s
<1>8. proxy'[o] = s /\ \A x \in Obj : x # o => proxy'[x] = proxy[x]
  BY <1>1, <1>4, <1>5
<1>9. /\ connected /\ Once(toClient', Replies)
      /\ \A i : /\ In(toClient', Replies, i) => In(toClient, Replies, i)
                /\ In(toClient', Brought, i) => In(toClient, Brought, i)
                /\ In(toClient', AnswerTypes, i) => In(toClient, AnswerTypes, i)
      /\ In(toClient, AnswerTypes, m.id)
  BY <1>2, ReceiveInView DEF AnswerTypes
<1> HIDE DEF m, r, o, old
<1>10. /\ attachedResources'[m.id] = o
       /\ \A i \in Id : i # m.id /\ attachedResources[i] # o =>
             attachedResources'[i] = attachedResources[i]
  BY <1>3, <1>5 DEF Rekey
<1>11. attachRequests = {} /\ handling = <<>> /\ \A i \in Id : ~In(toServer, Detaches, i)
  BY <1>4 DEF Keeping, RestoresAlone
<1>12. m.id \in subscriptions /\ ~Detaching(m.id)
  BY <1>3, <1>9, <1>11, NoneIn DEF Keeping, AttachesAnew, Detaching
<1>13. \A i \in Id : restore[i] # None =>
          /\ attachedResources'[i] = attachedResources[i]
          /\ proxy'[restore[i]] = proxy[restore[i]]
  <2> SUFFICES ASSUME NEW i \in Id, restore[i] # None
               PROVE  /\ attachedResources'[i] = attachedResources[i]
                      /\ proxy'[restore[i]] = proxy[restore[i]]
    OBVIOUS
  <2>1. attachedResources[i] = restore[i] /\ restore[i] # o /\ restore[i] \in Obj
    BY CalmFacts DEF Keeping, RestoresAlone, o
  <2>2. i # m.id
    BY <1>5, <2>1
  <2> QED BY <1>8, <1>10, <2>1, <2>2
<1>14. RestoresAlone'
  BY <1>2, <1>5, <1>13, LoopGoesOn
<1>15. ClosedIsEmpty'
  BY <1>5, <1>9 DEF ClosedIsEmpty
<1>16. AttachesOnce'
  BY <1>5, <1>9 DEF Keeping, AttachesOnce
<1>17. AttachesAnew'
  BY <1>5, <1>9, <1>11 DEF Keeping, AttachesAnew, Detaching
<1>18. HeldTracked'
  <2>1. ASSUME NEW p \in held, p # o
        PROVE  /\ proxy'[p] = proxy[p] /\ p \in Obj
               /\ attachedResources'[proxy[p].id] = p
               /\ proxy[p].link # r.link
    <3>1. proxy[p].id \in Id /\ attachedResources[proxy[p].id] = p /\ p # None /\ p \in Obj
      BY <1>1, CalmFacts DEF Keeping, HeldTracked
    <3>2. proxy[p].id # m.id
      BY <1>5, <2>1, <3>1
    <3>3. proxy[p].link # r.link
      BY <1>4, <2>1 DEF Keeping, HeldTracked, r
    <3> QED BY <1>8, <1>10, <2>1, <3>1, <3>2, <3>3
  <2>2. ASSUME NEW p \in held, p # o, Current(p)' PROVE Served(p)'
    <3>1. Current(p)
      BY <1>5, <2>1, <2>2 DEF Current, Live
    <3>2. Served(p)
      BY <1>9, <3>1 DEF Keeping, HeldTracked
    <3> QED BY <1>5, <2>1, <2>2, <3>2 DEF Served, Detaching, o
  <2>3. ASSUME NEW p \in held, p = o PROVE Served(p)'
    BY <1>5, <1>7, <1>8, <1>12, <2>3 DEF Served, Detaching
  <2>4. \A p \in held' : attachedResources'[proxy'[p].id] = p
    BY <1>5, <1>7, <1>8, <1>10, <2>1
  <2>5. \A p, q \in held' : proxy'[p].link = proxy'[q].link => p = q
    BY <1>5, <1>6, <1>7, <1>8, <2>1 DEF Keeping, HeldTracked
  <2> QED BY <1>5, <2>2, <2>3, <2>4, <2>5 DEF HeldTracked
<1> QED BY <1>14, <1>15, <1>16, <1>17, <1>18 DEF Keeping

-----------------------------------------------------------------------------
(* Notifications.                                                          *)

LEMMA EnqueueNotificationKeeping ==
  ASSUME Sound, Sound', Prompted, Keeping, Calm, EnqueueNotification
  PROVE  Keeping'
<1>1. PICK t \in NotificationTypes : Receiving(t)
  BY DEF EnqueueNotification, NotificationTypes
<1>2. UNCHANGED <<serverVars, serverSession, toServer, sessionVars, clientVars>>
  BY DEF EnqueueNotification
<1>3. t \notin OutcomeTypes
  BY DEF NotificationTypes, OutcomeTypes
<1>4. /\ connected /\ Once(toClient', Replies)
      /\ \A i : /\ In(toClient', Replies, i) => In(toClient, Replies, i)
                /\ In(toClient', Brought, i) => In(toClient, Brought, i)
                /\ In(toClient', AnswerTypes, i) => In(toClient, AnswerTypes, i)
      /\ Answered' = {} => Answered = {}
      /\ \A k \in DOMAIN toClient' : k + 1 \in DOMAIN toClient /\ toClient'[k] = toClient[k + 1]
  BY <1>1, <1>3, ReceiveInView
<1>5. ClosedIsEmpty'
  BY <1>2, <1>4 DEF ClosedIsEmpty
<1>6. AttachesOnce'
  BY <1>2, <1>4 DEF Keeping, AttachesOnce
<1>7. AttachesAnew'
  BY <1>2, <1>4 DEF Keeping, AttachesAnew, Detaching
<1>8. RestoresAlone'
  <2>1. /\ Restoring' <=> Restoring
        /\ \A o : (Pending(o)' => Pending(o)) /\ (Current(o)' <=> Current(o))
    BY <1>2, <1>4 DEF Restoring, Pending, Current, Live
  <2>2. \A k \in DOMAIN toClient' :
           /\ toClient'[k].type # "rejected"
           /\ toClient'[k].type = "notFound" => ~Current(reattaching)
    BY <1>4 DEF Keeping, RestoresAlone
  <2>3. \A k \in DOMAIN toClient' : toClient'[k].type = "notFound" => ~Current(reattaching)'
    BY <1>2, <2>2 DEF Current, Live
  <2> QED BY <1>2, <2>1, <2>2, <2>3 DEF Keeping, RestoresAlone, Live
<1>9. HeldTracked'
  <2>1. \A o \in held : Served(o) => Served(o)'
    BY <1>2 DEF Served, Detaching
  <2>2. \A o \in held : Current(o)' <=> Current(o)
    BY <1>2 DEF Current, Live
  <2> QED BY <1>2, <2>1, <2>2, HeldStill DEF Keeping
<1> QED BY <1>5, <1>6, <1>7, <1>8, <1>9 DEF Keeping

(* A notification finds a proxy of its own generation, so that the proxy   *)
(* is of the one it was of.                                                *)
LEMMA ProcessNotificationKeeping ==
  ASSUME Sound, Sound', Prompted, Keeping, Calm, ProcessNotification
  PROVE  Keeping'
<1>1. UNCHANGED <<serverVars, serverSession, toServer, toClient, sessionVars,
                  attachedResources, attachRequests, decoding, restore, reattaching,
                  late, held, disturbed>>
  BY DEF ProcessNotification
<1>2. \A x \in Obj : /\ Used(x)' <=> Used(x)
                     /\ \/ proxy'[x] = proxy[x]
                        \/ /\ proxy'[x].link = proxy[x].link /\ proxy'[x].id = proxy[x].id
                           /\ proxy'[x].gen = proxy[x].gen
  BY ProcessView, Zenon DEF Takes
<1>3. \A x \in Obj : /\ proxy'[x].link = proxy[x].link /\ proxy'[x].id = proxy[x].id
                     /\ proxy'[x].gen = proxy[x].gen
  BY <1>2
<1>4. \A x \in Obj : Current(x)' <=> Current(x)
  BY <1>1, <1>3 DEF Current, Live
<1>5. ClosedIsEmpty'
  BY <1>1 DEF Keeping, ClosedIsEmpty, Restoring
<1>6. AttachesOnce'
  BY <1>1 DEF Keeping, AttachesOnce
<1>7. AttachesAnew'
  BY <1>1 DEF Keeping, AttachesAnew, Detaching
<1>8. RestoresAlone'
  <2>1. (Restoring' <=> Restoring) /\ \A o : Pending(o)' <=> Pending(o)
    BY <1>1 DEF Restoring, Pending, Answered
  <2>2. ASSUME NEW k \in DOMAIN toClient', toClient'[k].type = "notFound"
        PROVE  ~Current(reattaching)'
    <3>1. k \in Answered /\ ~Current(reattaching)
      BY <1>1, <2>2 DEF Answered, OutcomeTypes, Keeping, RestoresAlone
    <3>2. reattaching \in held /\ reattaching \in Obj
      BY <3>1, CalmFacts
    <3> QED BY <1>1, <1>3, <3>1, <3>2 DEF Current, Live
  <2> QED BY <1>1, <1>3, <2>1, <2>2 DEF Keeping, RestoresAlone, Live
<1>9. HeldTracked'
  <2>1. \A o \in held : o \in Obj
    BY CalmFacts
  <2>2. \A o \in held : Served(o) => Served(o)'
    BY <1>1, <1>3, <2>1 DEF Served, Detaching
  <2> QED BY <1>1, <1>3, <1>4, <2>1, <2>2, HeldStill DEF Keeping
<1> QED BY <1>5, <1>6, <1>7, <1>8, <1>9 DEF Keeping

-----------------------------------------------------------------------------
(* The life of the connection.                                             *)

LEMMA LoseConnectionKeeping ==
  ASSUME Sound, Sound', Prompted, Keeping, Calm, LoseConnection
  PROVE  Keeping'
<1>1. /\ handling' = <<>> /\ toServer' = <<>> /\ toClient' = <<>>
      /\ connected' = FALSE /\ subscriptions' = {} /\ attachRequests' = {}
      /\ querying' = None /\ reattaching' = None /\ restore' = Nothing
      /\ UNCHANGED <<proxy, attachedResources, held>>
  BY DEF LoseConnection
<1>2. /\ \A T, i : ~In(toServer', T, i) /\ ~In(handling', T, i) /\ ~In(toClient', T, i)
      /\ \A T : Once(toServer', T) /\ Once(handling', T) /\ Once(toClient', T)
      /\ \A T, U : Precede(toServer', T, U) /\ Precede(handling', T, U)
  BY <1>1, NoneIn
<1>3. ~Restoring'
  BY <1>1 DEF Restoring, Nothing
<1>4. ClosedIsEmpty' /\ AttachesOnce' /\ AttachesAnew'
  BY <1>1, <1>2, <1>3 DEF ClosedIsEmpty, AttachesOnce, AttachesAnew, Detaching
<1>5. HeldTracked'
  BY <1>1 DEF Keeping, HeldTracked
<1> QED BY <1>3, <1>4, <1>5, IdleRestores DEF Keeping

LEMMA ConnectKeeping ==
  ASSUME Sound, Sound', Prompted, Keeping, Calm, Connect
  PROVE  Keeping'
<1>1. ~connected /\ connected' /\ restore' = attachedResources
  BY DEF Connect
<1>2. UNCHANGED <<serverVars, serverSession, toServer, toClient, proxy, attachedResources,
                  attachRequests, decoding, reattaching, late, held, disturbed,
                  notificationQueue>>
  BY DEF Connect
<1>3. /\ toServer = <<>> /\ toClient = <<>> /\ handling = <<>> /\ attachRequests = {}
      /\ subscriptions = {} /\ reattaching = None
  BY <1>1 DEF Keeping, ClosedIsEmpty, Restoring
<1>4. ClosedIsEmpty' /\ AttachesOnce' /\ AttachesAnew'
  BY <1>1, <1>2 DEF Keeping, ClosedIsEmpty, AttachesOnce, AttachesAnew, Detaching
<1>5. RestoresAlone'
  <2>1. \A i \in Id : ~In(toServer', Detaches, i)
    BY <1>2, <1>3, NoneIn
  <2> QED BY <1>1, <1>2, <1>3, <2>1 DEF RestoresAlone
<1>6. HeldTracked'
  <2>1. \A o \in held : proxy[o].id \in Id /\ attachedResources[proxy[o].id] = o
    BY CalmFacts DEF Keeping, HeldTracked
  <2>2. \A o \in held : Served(o)'
    BY <1>1, <2>1 DEF Served
  <2> QED BY <1>2, <2>2 DEF Keeping, HeldTracked
<1> QED BY <1>4, <1>5, <1>6 DEF Keeping

LEMMA ReattachKeeping ==
  ASSUME Sound, Sound', Prompted, Keeping, Calm, NEW i \in Id, Reattach(i)
  PROVE  Keeping'
<1>1. /\ toServer \in Seq(Request) /\ restore \in [Id -> Obj \cup {None}]
      /\ connected /\ restore[i] # None
      /\ reattaching = None /\ reattaching' = restore[i]
      /\ restore' = [restore EXCEPT ![i] = None]
  BY CalmFacts DEF Reattach
<1>2. PICK m : m.type = "reattach" /\ toServer' = Append(toServer, m)
  BY DEF Reattach
<1>3. UNCHANGED <<serverVars, serverSession, toClient, sessionVars, proxy, attachedResources,
                  attachRequests, decoding, late, held, disturbed, notificationQueue>>
  BY DEF Reattach
<1>4. m.type \notin Asks /\ m.type \notin Detaches
  BY <1>2 DEF Asks, Detaches
<1>5. /\ Once(toServer', Asks) /\ Precede(toServer', Detaches, Asks)
      /\ \A j : /\ In(toServer', Asks, j) => In(toServer, Asks, j)
                /\ In(toServer', Detaches, j) => In(toServer, Detaches, j)
  BY <1>1, <1>2, <1>4, InAppended DEF Keeping, AttachesOnce, AttachesAnew
<1>6. Restoring
  BY <1>1, CalmFacts
<1>7. ClosedIsEmpty'
  BY <1>1, <1>3 DEF ClosedIsEmpty
<1>8. AttachesOnce'
  BY <1>3, <1>5 DEF Keeping, AttachesOnce
<1>9. AttachesAnew'
  BY <1>3, <1>5 DEF Keeping, AttachesAnew, Detaching
<1>10. \A j \in Id : IF j = i THEN restore'[j] = None ELSE restore'[j] = restore[j]
  BY <1>1
<1>11. RestoresAlone'
  <2>1. \A o \in Obj : Pending(o)' => Pending(o)
    BY <1>1, <1>10 DEF Pending
  <2>2. ASSUME NEW j \in Id, restore'[j] # None
        PROVE  attachedResources'[j] = restore'[j] /\ restore'[j] # reattaching'
    <3>1. j # i /\ restore'[j] = restore[j]
      BY <1>10, <2>2
    <3>2. attachedResources[j] = restore[j] /\ attachedResources[i] = restore[i]
      BY <1>1, <2>2, <3>1 DEF Keeping, RestoresAlone
    <3>3. proxy[restore[j]].id = j /\ proxy[restore[i]].id = i
      BY <1>1, <2>2, <3>1, <3>2, CalmFacts
    <3> QED BY <1>1, <1>3, <3>1, <3>2, <3>3
  <2>3. \A k \in DOMAIN toClient' :
           toClient'[k].type # "rejected" /\ toClient'[k].type # "notFound"
    BY <1>1, <1>3 DEF Sound, OneReattach, Answered, OutcomeTypes
  <2>4. attachRequests' = {} /\ handling' = <<>> /\ \A j \in Id : ~In(toServer', Detaches, j)
    BY <1>3, <1>5, <1>6 DEF Keeping, RestoresAlone
  <2> QED BY <1>3, <2>1, <2>2, <2>3, <2>4 DEF Keeping, RestoresAlone, Live
<1>12. HeldTracked'
  <2>1. \A o \in held : o # None
    BY CalmFacts
  <2>2. \A o \in held : Served(o) => Served(o)'
    BY <1>1, <1>3, <1>5, <1>10, <2>1 DEF Served, Detaching
  <2>3. \A o \in held : Current(o)' <=> Current(o)
    BY <1>3 DEF Current, Live
  <2> QED BY <1>3, <2>2, <2>3, HeldStill DEF Keeping
<1> QED BY <1>7, <1>8, <1>9, <1>11, <1>12 DEF Keeping

-----------------------------------------------------------------------------
(* Every step.                                                             *)

LEMMA InitKeeping == Init => Keeping
<1> SUFFICES ASSUME Init PROVE Keeping
  OBVIOUS
<1>1. /\ toServer = <<>> /\ toClient = <<>> /\ handling = <<>> /\ attachRequests = {}
      /\ subscriptions = {} /\ reattaching = None /\ restore = Nothing /\ querying = None
      /\ attachedResources = Nothing /\ held = {} /\ ~connected
  BY DEF Init
<1>2. /\ \A T, i : ~In(toServer, T, i) /\ ~In(handling, T, i) /\ ~In(toClient, T, i)
      /\ \A T : Once(toServer, T) /\ Once(handling, T) /\ Once(toClient, T)
      /\ \A T, U : Precede(toServer, T, U) /\ Precede(handling, T, U)
  BY <1>1, NoneIn
<1>3. ~Restoring /\ \A i \in Id : restore[i] = None
  BY <1>1 DEF Restoring, Nothing
<1>4. ClosedIsEmpty /\ AttachesOnce /\ AttachesAnew
  BY <1>1, <1>2, <1>3 DEF ClosedIsEmpty, AttachesOnce, AttachesAnew, Detaching
<1>5. RestoresAlone
  BY <1>1, <1>3 DEF RestoresAlone
<1>6. HeldTracked
  BY <1>1 DEF HeldTracked
<1> QED BY <1>4, <1>5, <1>6 DEF Keeping

LEMMA StutterKeeping ==
  ASSUME Keeping, UNCHANGED vars
  PROVE  Keeping'
<1>1. UNCHANGED <<serverVars, serverSession, toServer, toClient, sessionVars, clientVars,
                  notificationQueue>>
  BY DEF vars
<1>2. ClosedIsEmpty' /\ AttachesOnce' /\ AttachesAnew'
  BY <1>1 DEF Keeping, ClosedIsEmpty, AttachesOnce, AttachesAnew, Detaching, Restoring
<1>3. RestoresAlone'
  BY <1>1 DEF Keeping, RestoresAlone, Restoring, Pending, Answered, Current, Live
<1>4. HeldTracked'
  BY <1>1 DEF Keeping, HeldTracked, Served, Detaching, Current, Live
<1> QED BY <1>2, <1>3, <1>4 DEF Keeping

(* What was disturbed once stays so.                                       *)
LEMMA DisturbedStays ==
  ASSUME Sound, [Next]_vars, ~disturbed'
  PROVE  ~disturbed
<1>1. CASE ServerResources
  BY <1>1 DEF ServerResources, Put, Remove, RaiseEvent, Modify
<1>2. CASE ServerHandlers
  BY <1>2 DEF ServerHandlers, ReceiveAttach, FinishAttach, ReceiveReattach, FinishReattach,
              ReceiveDetach, FinishDetach
<1>3. CASE Application
  BY <1>3 DEF Application, Attach, Detach, Disturbance
<1>4. CASE ClientReplies
  <2>1. ASSUME NEW o \in Obj, ReceiveAttached(o) PROVE ~disturbed
    BY <2>1 DEF ReceiveAttached, Disturbance
  <2>2. ASSUME ReceiveReattached PROVE ~disturbed
    BY <2>2 DEF ReceiveReattached, Disturbance
  <2>3. ASSUME ReceiveRefused \/ ReceiveNotFound \/ ReceiveRejected PROVE ~disturbed
    BY <2>3 DEF ReceiveRefused, ReceiveNotFound, ReceiveRejected
  <2>4. ASSUME NEW d \in decoding, FinishDecode(d) PROVE ~disturbed
    BY <2>4 DEF FinishDecode
  <2> QED BY <1>4, <2>1, <2>2, <2>3, <2>4 DEF ClientReplies
<1>5. CASE ClientNotifications
  BY <1>5 DEF ClientNotifications, EnqueueNotification, ProcessNotification
<1>6. CASE Session
  BY <1>6 DEF Session, Disconnect, ServerRestart, LoseConnection, Connect, Reattach
<1>7. CASE UNCHANGED vars
  BY <1>7 DEF vars
<1> QED BY <1>1, <1>2, <1>3, <1>4, <1>5, <1>6, <1>7 DEF Next

LEMMA NextKeeping ==
  ASSUME Sound, Sound', Prompted, Keeping, [Next]_vars, Calm, Calm'
  PROVE  Keeping'
<1>1. CASE ServerResources
  BY <1>1, PutKeeping, RemoveKeeping, RaiseEventKeeping, ModifyKeeping DEF ServerResources
<1>2. CASE ServerHandlers
  BY <1>2, ReceiveAttachKeeping, FinishAttachKeeping, ReceiveReattachKeeping,
     FinishReattachKeeping, ReceiveDetachKeeping, FinishDetachKeeping DEF ServerHandlers
<1>3. CASE Application
  BY <1>3, AttachKeeping, DetachKeeping DEF Application
<1>4. CASE ClientReplies
  <2>1. \A d \in decoding : FALSE
    BY DEF Prompted
  <2> QED BY <1>4, <2>1, ReceiveAttachedKeeping, ReceiveRefusedKeeping,
             ReceiveReattachedKeeping, ReceiveNotFoundKeeping, NothingIsRejected
          DEF ClientReplies
<1>5. CASE ClientNotifications
  BY <1>5, EnqueueNotificationKeeping, ProcessNotificationKeeping DEF ClientNotifications
<1>6. CASE Session
  <2>1. ASSUME Disconnect \/ ServerRestart PROVE Keeping'
    BY <2>1, LoseConnectionKeeping DEF Disconnect, ServerRestart
  <2> QED BY <1>6, <2>1, ConnectKeeping, ReattachKeeping DEF Session
<1>7. CASE UNCHANGED vars
  BY <1>7, StutterKeeping
<1> QED BY <1>1, <1>2, <1>3, <1>4, <1>5, <1>6, <1>7 DEF Next

LEMMA HInvariant == Spec => []HInv
<1>1. Init => HInv
  BY InitSound, InitPrompted, InitKeeping DEF HInv, IInv
<1>2. HInv /\ IInv' /\ [Next]_vars => HInv'
  <2> SUFFICES ASSUME HInv, IInv', [Next]_vars PROVE HInv'
    OBVIOUS
  <2>1. ASSUME Calm' PROVE Keeping'
    <3>1. Sound /\ Sound'
      BY DEF HInv, IInv
    <3>2. Calm
      BY <2>1, <3>1, LateGrows, DisturbedStays DEF Calm
    <3>3. Prompted /\ Keeping
      BY <3>2 DEF HInv, IInv, Calm
    <3> QED BY <2>1, <3>1, <3>2, <3>3, NextKeeping
  <2> QED BY <2>1 DEF HInv
<1> QED BY <1>1, <1>2, IInvariant, PTL DEF Spec

(* A proxy the application holds is kept up to date by the connection,     *)
(* until the resource is removed or made anew, unless the application      *)
(* attached or released something while the restore loop ran, held a link  *)
(* twice, or a restart gave the id of a held proxy to another resource.    *)
THEOREM HeldIsKept == Spec => [](late = {} => HeldIsKeptFresh)
<1>1. HInv /\ FreshWhenSubscribed => (late = {} => HeldIsKeptFresh)
  <2> SUFFICES ASSUME HInv, FreshWhenSubscribed, late = {}, Quiescent, ~disturbed, NEW o \in held, Current(o)
               PROVE  /\ proxy[o].id \in subscriptions
                      /\ attachedResources[proxy[o].id] = o
                      /\ Mirrors(o)
    BY DEF HeldIsKeptFresh
  <2> DEFINE i == proxy[o].id
             l == proxy[o].link
  <2>1. Calm /\ Keeping /\ Sound /\ Prompted
    BY DEF Calm, HInv, IInv
  <2>2. attachedResources[i] = o /\ i \in Id /\ l \in Link /\ Used(o) /\ o \in Obj /\ o # None
    BY <2>1, CalmFacts DEF Keeping, HeldTracked
  <2>3. reattaching = None /\ \A j \in Id : restore[j] = None
    BY DEF Quiescent, Restoring, Nothing
  <2>4. i \in subscriptions
    BY <2>1, <2>2, <2>3 DEF Keeping, HeldTracked, Served, Quiescent
  <2>5. Live(l) /\ instance[l].gen = proxy[o].gen
    BY DEF Current
  <2>6. instance[l].id = i
    BY <2>1, <2>2, <2>5 DEF Prompted, ProxiesTrue
  <2>7. IsLive(i)
    BY <2>2, <2>5, <2>6 DEF IsLive
  <2>8. Mirrors(o)
    BY <2>2, <2>4, <2>7 DEF FreshWhenSubscribed
  <2> QED BY <2>2, <2>4, <2>8
<1> QED BY <1>1, HInvariant, SubscribedIsFresh, PTL

-----------------------------------------------------------------------------
(* No value of a proxy is replaced by an older one.                        *)

(* What a step must leave alone: d messages are taken, and what the proxy  *)
(* or the queue gets was in the queue or was the message taken.            *)
AnswersStay(d) ==
    \A k \in DOMAIN toClient' : toClient'[k].type = "reattached" =>
        /\ \A j \in 1 .. k : j + d \in DOMAIN toClient /\ toClient'[j] = toClient[j + d]
        /\ reattaching' = reattaching
CacheStays ==
    reattaching # None =>
        LET r == proxy[reattaching]
            s == proxy'[reattaching] IN
        /\ s.gen = r.gen
        /\ \A q \in Prop :
              \/ s.cache[q] = r.cache[q]
              \/ \E i \in DOMAIN notificationQueue :
                    LET m == notificationQueue[i] IN
                    /\ m.type = "property" /\ m.prop = q
                    /\ s.cache[q] = [gen |-> m.gen, rev |-> m.rev]
QueueStays(d) ==
    \A j \in DOMAIN notificationQueue' :
        \/ \E i \in DOMAIN notificationQueue : notificationQueue'[j] = notificationQueue[i]
        \/ d = 1 /\ notificationQueue'[j] = toClient[1]

LEMMA SupersedesStill ==
  ASSUME Sound, Sound', Supersedes, NEW d \in {0, 1}, AnswersStay(d), CacheStays, QueueStays(d)
  PROVE  Supersedes'
<1> SUFFICES ASSUME NEW k \in DOMAIN toClient', toClient'[k].type = "reattached"
             PROVE  NotNewer(proxy[reattaching], toClient[k], k)'
  BY DEF Supersedes
<1> DEFINE a == toClient'[k]
           r == proxy[reattaching]
           s == proxy'[reattaching]
<1>1. TypeOK /\ TypeOK'
  BY DEF Sound
<1>2. k \in Nat /\ k \in 1 .. k /\ \A j \in DOMAIN toClient' : j \in Nat /\ (j < k => j \in 1 .. k)
  BY <1>1, Lengths
<1>3. /\ k + d \in DOMAIN toClient /\ a = toClient[k + d]
      /\ reattaching' = reattaching
      /\ \A j \in DOMAIN toClient' : j < k =>
            j + d \in DOMAIN toClient /\ toClient'[j] = toClient[j + d] /\ j + d < k + d
  BY <1>2 DEF AnswersStay
<1>4. NotNewer(r, a, k + d)
  BY <1>3 DEF Supersedes
<1>5. reattaching # None
  BY <1>3 DEF Sound, OneReattach, Answered, OutcomeTypes
<1>6. DOMAIN a.values \subseteq Prop
  <2>1. a \in Message /\ a.type \in AnswerTypes
    BY <1>1, <1>3, MessageFacts DEF AnswerTypes
  <2>2. a.values \in Values
    BY <2>1, MessageType
  <2> QED BY <2>2, ValuesType
<1>7. s.gen # a.gen => s.gen[2] < a.gen[2]
  BY <1>4, <1>5 DEF NotNewer, CacheStays
<1>8. ASSUME NEW q \in DOMAIN a.values
      PROVE  /\ s.cache[q].gen = a.gen => s.cache[q].rev <= a.values[q]
             /\ \A j \in DOMAIN toClient' :
                   j < k /\ Tells(toClient'[j], a, q) => toClient'[j].rev <= a.values[q]
             /\ \A j \in DOMAIN notificationQueue' :
                   Tells(notificationQueue'[j], a, q) => notificationQueue'[j].rev <= a.values[q]
  <2>1. /\ r.cache[q].gen = a.gen => r.cache[q].rev <= a.values[q]
        /\ \A j \in DOMAIN toClient :
              j < k + d /\ Tells(toClient[j], a, q) => toClient[j].rev <= a.values[q]
        /\ \A j \in DOMAIN notificationQueue :
              Tells(notificationQueue[j], a, q) => notificationQueue[j].rev <= a.values[q]
    BY <1>4 DEF NotNewer
  <2>2. s.cache[q].gen = a.gen => s.cache[q].rev <= a.values[q]
    <3>1. q \in Prop
      BY <1>6
    <3>2. \/ s.cache[q] = r.cache[q]
          \/ \E i \in DOMAIN notificationQueue :
                LET m == notificationQueue[i] IN
                /\ m.type = "property" /\ m.prop = q
                /\ s.cache[q] = [gen |-> m.gen, rev |-> m.rev]
      BY <1>5, <3>1 DEF CacheStays
    <3>3. ASSUME NEW i \in DOMAIN notificationQueue, NEW m, m = notificationQueue[i],
                 m.type = "property", m.prop = q,
                 s.cache[q] = [gen |-> m.gen, rev |-> m.rev], s.cache[q].gen = a.gen
          PROVE  s.cache[q].rev <= a.values[q]
      <4>1. m.gen = a.gen /\ s.cache[q].rev = m.rev
        BY <3>3
      <4> QED BY <2>1, <3>3, <4>1 DEF Tells
    <3> QED BY <2>1, <3>2, <3>3
  <2>3. \A j \in DOMAIN toClient' :
            j < k /\ Tells(toClient'[j], a, q) => toClient'[j].rev <= a.values[q]
    BY <1>3, <2>1
  <2>4. ASSUME NEW j \in DOMAIN notificationQueue', Tells(notificationQueue'[j], a, q)
        PROVE  notificationQueue'[j].rev <= a.values[q]
    <3>1. CASE \E i \in DOMAIN notificationQueue : notificationQueue'[j] = notificationQueue[i]
      BY <2>1, <2>4, <3>1
    <3>2. CASE d = 1 /\ notificationQueue'[j] = toClient[1]
      <4>1. 1 \in DOMAIN toClient /\ 1 < k + d
        BY <1>1, <1>2, <1>3, <3>2, Lengths
      <4> QED BY <2>1, <2>4, <3>2, <4>1
    <3> QED BY <3>1, <3>2 DEF QueueStays
  <2> QED BY <2>2, <2>3, <2>4
<1> QED BY <1>3, <1>7, <1>8 DEF NotNewer, Tells

LEMMA NoneSupersedes ==
  ASSUME Answered' = {}
  PROVE  Supersedes'
BY DEF Supersedes, Answered, OutcomeTypes

(* The channel and the queue, as most steps change them.                   *)
LEMMA SentStay ==
  ASSUME TypeOK, TypeOK', UNCHANGED <<reattaching, notificationQueue>>,
         toClient' = toClient \/ \E m : m.type # "reattached" /\ toClient' = Append(toClient, m)
  PROVE  AnswersStay(0) /\ QueueStays(0)
<1>1. ASSUME NEW k \in DOMAIN toClient', toClient'[k].type = "reattached"
      PROVE  \A j \in 1 .. k : j + 0 \in DOMAIN toClient /\ toClient'[j] = toClient[j + 0]
  <2>1. CASE toClient' = toClient
    BY <1>1, <2>1, Lengths
  <2>2. ASSUME NEW m, m.type # "reattached", toClient' = Append(toClient, m)
        PROVE  \A j \in 1 .. k : j + 0 \in DOMAIN toClient /\ toClient'[j] = toClient[j + 0]
    <3>1. /\ DOMAIN toClient' = 1 .. Len(toClient) + 1 /\ toClient'[Len(toClient) + 1] = m
          /\ \A j \in DOMAIN toClient : toClient'[j] = toClient[j]
      BY <2>2, AppendKeeps
    <3>2. k \in 1 .. Len(toClient)
      <4>1. k \in 1 .. Len(toClient) + 1 /\ Len(toClient) \in Nat
        BY <3>1, Lengths
      <4>2. k # Len(toClient) + 1
        BY <1>1, <2>2, <3>1
      <4> QED BY <4>1, <4>2
    <3> QED BY <3>1, <3>2, Lengths
  <2> QED BY <2>1, <2>2
<1>2. QueueStays(0)
  BY DEF QueueStays
<1> QED BY <1>1, <1>2 DEF AnswersStay

LEMMA ReceivedStay ==
  ASSUME TypeOK, TypeOK', NEW t, Receiving(t), UNCHANGED reattaching
  PROVE  AnswersStay(1)
<1>1. \A k \in DOMAIN toClient' : k + 1 \in DOMAIN toClient /\ toClient'[k] = toClient[k + 1]
  BY ReceiveKeeps
<1>2. \A k \in DOMAIN toClient' : \A j \in 1 .. k : j \in DOMAIN toClient'
  BY Lengths
<1> QED BY <1>1, <1>2 DEF AnswersStay

LEMMA SameProxies ==
  ASSUME UNCHANGED proxy
  PROVE  CacheStays /\ (OfOneGeneration => OfOneGeneration')
BY DEF CacheStays, OfOneGeneration, Used

-----------------------------------------------------------------------------
(* One lemma per kind of step.                                             *)

(* A handler, a call or a refusal: no proxy and no resource changes.       *)
LEMMA QuietSupersedes ==
  ASSUME Sound, Sound', Superseding, UNCHANGED <<instance, put, proxy, reattaching>>,
         \/ UNCHANGED notificationQueue /\ toClient' = toClient
         \/ /\ UNCHANGED notificationQueue
            /\ \E m : m.type # "reattached" /\ toClient' = Append(toClient, m)
         \/ \E t : Receiving(t) /\ notificationQueue' \in
                      {notificationQueue, Append(notificationQueue, toClient[1])}
  PROVE  Superseding'
<1>1. TypeOK /\ TypeOK' /\ Latest' /\ OfOneGeneration' /\ CacheStays
  BY SameProxies DEF Sound, Superseding, Latest, Live
<1>2. CASE \/ UNCHANGED notificationQueue /\ toClient' = toClient
           \/ /\ UNCHANGED notificationQueue
              /\ \E m : m.type # "reattached" /\ toClient' = Append(toClient, m)
  <2>1. AnswersStay(0) /\ QueueStays(0)
    BY <1>1, <1>2, SentStay
  <2> QED BY <1>1, <2>1, SupersedesStill DEF Superseding
<1>3. ASSUME NEW t, Receiving(t),
             notificationQueue' \in {notificationQueue, Append(notificationQueue, toClient[1])}
      PROVE  Superseding'
  <2>1. AnswersStay(1)
    BY <1>1, <1>3, ReceivedStay
  <2>2. notificationQueue \in Seq(Notification)
    BY <1>1 DEF TypeOK
  <2>3. QueueStays(1)
    BY <1>3, <2>2 DEF QueueStays
  <2> QED BY <1>1, <2>1, <2>3, SupersedesStill DEF Superseding
<1> QED BY <1>2, <1>3

(* No answer is left: there is nothing to supersede.                       *)
LEMMA UnansweredSupersedes ==
  ASSUME Superseding, Answered' = {}, UNCHANGED <<proxy, put>>,
         \A l \in Link : Live(l)' => Live(l) /\ instance'[l] = instance[l]
  PROVE  Superseding'
BY NoneSupersedes, SameProxies DEF Superseding, Latest

LEMMA ChangeSupersedes ==
  ASSUME Sound, Sound', Prompted, Superseding, NEW l \in Link, NEW m, ChangeStep(l, m)
  PROVE  Superseding'
<1>1. TypeOK /\ TypeOK' /\ OneName /\ UNCHANGED <<put, proxy, reattaching, notificationQueue>>
      /\ toClient' \in {toClient, Append(toClient, m)}
  BY DEF Sound, Prompted, ChangeStep, Notify
<1>2. m.type # "reattached"
  BY <1>1, ChangeView DEF NotificationTypes
<1>3. Latest'
  <2>1. \A k \in Link : Live(k)' => Live(k) /\ instance'[k].gen = instance[k].gen
    BY <1>1, ChangeView
  <2> QED BY <1>1, <2>1 DEF Superseding, Latest
<1>4. AnswersStay(0) /\ QueueStays(0)
  BY <1>1, <1>2, SentStay
<1>5. CacheStays /\ OfOneGeneration'
  BY <1>1, SameProxies DEF Superseding
<1> QED BY <1>3, <1>4, <1>5, SupersedesStill DEF Superseding

LEMMA ResourcesSupersede ==
  ASSUME Sound, Sound', Prompted, Superseding, ServerResources
  PROVE  Superseding'
<1>1. TypeOK
  BY DEF Sound
<1>2. ASSUME NEW l \in Link, Put(l) PROVE Superseding'
  <2>1. /\ UNCHANGED <<proxy, reattaching, toClient, notificationQueue>>
        /\ put' = [put EXCEPT ![l] = @ + 1]
        /\ \E x : x.gen = <<l, put'[l]>> /\ instance' = [instance EXCEPT ![l] = x]
    BY <1>2 DEF Put
  <2>2. Latest'
    <3>1. put \in [Link -> 0 .. MaxGeneration] /\ instance \in [Link -> Instance \cup {Absent}]
      BY <1>1 DEF TypeOK
    <3>2. \A k \in Link : k # l => put'[k] = put[k] /\ instance'[k] = instance[k]
      BY <2>1, <3>1
    <3>3. instance'[l].gen = <<l, put'[l]>>
      BY <2>1, <3>1
    <3>4. instance'[l].gen[2] = put'[l]
      BY <3>3
    <3> QED BY <3>2, <3>4 DEF Superseding, Latest, Live
  <2>3. AnswersStay(0) /\ QueueStays(0)
    BY <2>1, SentStay DEF Sound
  <2>4. CacheStays /\ OfOneGeneration'
    BY <2>1, SameProxies DEF Superseding
  <2> QED BY <2>2, <2>3, <2>4, SupersedesStill DEF Superseding
<1>3. ASSUME NEW l \in Link, Remove(l) PROVE Superseding'
  <2>1. /\ UNCHANGED <<put, proxy, reattaching, toClient, notificationQueue>>
        /\ instance' = [instance EXCEPT ![l] = Absent]
    BY <1>3 DEF Remove
  <2>2. Latest'
    <3>1. instance \in [Link -> Instance \cup {Absent}]
      BY <1>1 DEF TypeOK
    <3>2. \A k \in Link : Live(k)' => Live(k) /\ instance'[k] = instance[k]
      BY <2>1, <3>1 DEF Live
    <3> QED BY <2>1, <3>2 DEF Superseding, Latest
  <2>3. AnswersStay(0) /\ QueueStays(0)
    BY <2>1, SentStay DEF Sound
  <2>4. CacheStays /\ OfOneGeneration'
    BY <2>1, SameProxies DEF Superseding
  <2> QED BY <2>2, <2>3, <2>4, SupersedesStill DEF Superseding
<1>4. ASSUME NEW l \in Link, RaiseEvent(l) PROVE Superseding'
  BY <1>1, <1>4, RaiseEventIsChange, ChangeSupersedes
<1>5. ASSUME NEW l \in Link, NEW p \in Prop, Modify(l, p) PROVE Superseding'
  BY <1>1, <1>5, ModifyIsChange, ChangeSupersedes
<1> QED BY <1>2, <1>3, <1>4, <1>5 DEF ServerResources

LEMMA HandlersSupersede ==
  ASSUME Sound, Sound', Prompted, Superseding, ServerHandlers
  PROVE  Superseding'
<1>1. CASE ReceiveAttach
  <2>1. /\ UNCHANGED <<instance, put, proxy, reattaching, notificationQueue>>
        /\ \/ toClient' = toClient
           \/ toClient' = Append(toClient, [type |-> "refused", id |-> Head(toServer).id])
    BY <1>1 DEF ReceiveAttach, Reply
  <2>2. [type |-> "refused", id |-> Head(toServer).id].type # "reattached"
    OBVIOUS
  <2> QED BY <2>1, <2>2, QuietSupersedes
<1>2. CASE FinishAttach
  <2> DEFINE i == Head(handling).id
             x == instance[LinkOf(i)]
             m == [type |-> "attached", id |-> i, gen |-> x.gen, link |-> LinkOf(i),
                   rev |-> x.rev, values |-> AllValues(x)]
  <2>1. /\ UNCHANGED <<instance, put, proxy, reattaching, notificationQueue>>
        /\ toClient' = toClient \/ toClient' = Append(toClient, m)
    BY <1>2 DEF FinishAttach, Reply
  <2>2. m.type # "reattached"
    OBVIOUS
  <2> HIDE DEF m
  <2> QED BY <2>1, <2>2, QuietSupersedes
<1>3. CASE ReceiveReattach \/ ReceiveDetach \/ FinishDetach
  <2>1. UNCHANGED <<instance, put, proxy, reattaching, toClient, notificationQueue>>
    BY <1>3 DEF ReceiveReattach, ReceiveDetach, FinishDetach
  <2> QED BY <2>1, QuietSupersedes
<1>4. CASE FinishReattach
  <2> DEFINE l == querying.link
             x == instance[l]
             v == IF querying.gen = x.gen THEN ValuesSince(x, querying.rev) ELSE AllValues(x)
             a == [type |-> "reattached", id |-> x.id, gen |-> x.gen, link |-> l,
                   rev |-> x.rev, values |-> v]
             r == proxy[reattaching]
  <2>1. /\ querying \in ReattachRequest /\ l \in Link
        /\ \/ toClient' = Append(toClient, [type |-> "notFound"])
           \/ toClient' = Append(toClient, [type |-> "rejected"])
           \/ /\ Live(l) /\ x \in Instance /\ a \in Answer
              /\ toClient' = Append(toClient, a)
    BY <1>4, FinishReattachReplies DEF Sound
  <2>2. UNCHANGED <<instance, put, proxy, reattaching, notificationQueue>> /\ querying # None
    BY <1>4 DEF FinishReattach
  <2>3. CASE \/ toClient' = Append(toClient, [type |-> "notFound"])
             \/ toClient' = Append(toClient, [type |-> "rejected"])
    <3>1. /\ [type |-> "notFound"].type # "reattached"
          /\ [type |-> "rejected"].type # "reattached"
      OBVIOUS
    <3> QED BY <2>2, <2>3, <3>1, QuietSupersedes
  <2>4. CASE Live(l) /\ x \in Instance /\ a \in Answer /\ toClient' = Append(toClient, a)
    <3>1. /\ TypeOK /\ TypeOK' /\ UsedWhereNamed /\ OneName /\ ProxiesTrue /\ InOrder
          /\ AsksFor(r, querying) /\ Answered = {} /\ reattaching # None
          /\ AllCovered
      BY <2>2 DEF Sound, Prompted, ReattachFits, OneReattach
    <3>2. /\ reattaching \in Obj /\ Used(reattaching) /\ r \in Proxy /\ r.link = l
          /\ r.gen \in Generation /\ r.rev \in Nat /\ querying.gen = r.gen
          /\ querying.rev \in Nat
      BY <2>1, <3>1, ProxyFacts DEF AsksFor, ReattachRequest, Revision
    <3>3. /\ x.gen \in Generation /\ x.gen[1] = l /\ x.gen[2] = put[l]
          /\ \A q \in Prop : x.age[q] \in Nat
      BY <2>1, <2>4, <3>1, InstanceFacts DEF OneName, Superseding, Latest
    <3>4. /\ DOMAIN v \subseteq Prop /\ \A q \in DOMAIN v : v[q] = x.age[q]
      <4>1. AllValues(x) = x.age /\ DOMAIN x.age = Prop
        BY <2>4, InstanceType DEF AllValues
      <4>2. /\ DOMAIN ValuesSince(x, querying.rev) \subseteq Prop
            /\ \A q \in DOMAIN ValuesSince(x, querying.rev) :
                  ValuesSince(x, querying.rev)[q] = x.age[q]
        BY <2>4, <3>2, InstanceType
      <4> QED BY <4>1, <4>2
    <3>5. r.gen # x.gen => r.gen[2] < x.gen[2]
      <4>1. r.gen[1] = l /\ r.gen[2] <= put[l]
        BY <3>1, <3>2 DEF ProxiesTrue
      <4>2. \A g, h \in Generation : /\ g[2] \in Nat
                                     /\ g[1] = h[1] /\ g[2] = h[2] => g = h
        BY DEF Generation
      <4> QED BY <3>2, <3>3, <4>1, <4>2
    <3>6. ASSUME NEW q \in Prop, r.cache[q].gen = x.gen PROVE r.cache[q].rev <= x.age[q]
      <4>1. r.cache[q] \in Stamp /\ r.cache[q] # NoStamp /\ r.cache[q].rev \in Nat
        <5>1. x.gen # None
          BY <3>3 DEF Generation
        <5>2. r.cache[q] \in Stamp \cup {NoStamp}
          BY <3>2, ProxyType
        <5> QED BY <3>6, <5>1, <5>2 DEF Stamp, NoStamp, Revision
      <4>2. r.gen = x.gen
        BY <3>2, <3>6, <4>1 DEF Superseding, OfOneGeneration
      <4>3. r.cache[q].rev <= r.rev
        BY <3>1, <3>2, <3>6, <4>2 DEF ProxiesTrue
      <4>4. x.age[q] <= r.rev => r.cache[q] = [gen |-> x.gen, rev |-> x.age[q]]
        BY <2>4, <3>1, <3>2, <4>2 DEF AllCovered, CursorCovered
      <4>5. x.age[q] <= r.rev => r.cache[q].rev = x.age[q]
        BY <4>4
      <4> QED BY <3>2, <3>3, <4>1, <4>3, <4>5
    <3>7. /\ \A q \in Prop : \A j \in DOMAIN toClient :
                Tells(toClient[j], a, q) => toClient[j].rev <= x.age[q]
          /\ \A q \in Prop : \A j \in DOMAIN notificationQueue :
                Tells(notificationQueue[j], a, q) => notificationQueue[j].rev <= x.age[q]
      <4>1. a.gen = x.gen
        OBVIOUS
      <4>2. \A j \in DOMAIN toClient : \A q : Tells(toClient[j], a, q) => About(j, l)
        BY <3>1, <4>1, MessageFacts DEF Tells, About, Carries
      <4>3. \A j \in DOMAIN notificationQueue : \A q :
                Tells(notificationQueue[j], a, q) => QueuedAbout(j, l)
        BY <4>1 DEF Tells, QueuedAbout
      <4> QED BY <2>1, <2>4, <3>1, <4>2, <4>3 DEF InOrder, Tells
    <3>8. a.type = "reattached" /\ a.gen = x.gen /\ a.values = v
      OBVIOUS
    <3> HIDE DEF a, v, x, l
    <3>9. /\ DOMAIN toClient' = 1 .. Len(toClient) + 1 /\ toClient'[Len(toClient) + 1] = a
          /\ \A j \in DOMAIN toClient : j \in DOMAIN toClient' /\ toClient'[j] = toClient[j]
          /\ Len(toClient) \in Nat /\ DOMAIN toClient = 1 .. Len(toClient)
      BY <2>4, <3>1, AppendKeeps, Lengths
    <3>10. ASSUME NEW k \in DOMAIN toClient', toClient'[k].type = "reattached"
           PROVE  NotNewer(proxy[reattaching], toClient[k], k)'
      <4>1. k = Len(toClient) + 1
        <5>1. k \in DOMAIN toClient => k \in Answered
          BY <3>9, <3>10 DEF Answered, OutcomeTypes
        <5> QED BY <3>1, <3>9, <5>1
      <4>2. toClient'[k] = a /\ proxy'[reattaching'] = r /\ notificationQueue' = notificationQueue
        BY <2>2, <3>9, <4>1
      <4>3. \A j \in DOMAIN toClient' : j < k => j \in DOMAIN toClient /\ toClient'[j] = toClient[j]
        BY <3>9, <4>1
      <4>4. ASSUME NEW q \in DOMAIN a.values
            PROVE  /\ r.cache[q].gen = a.gen => r.cache[q].rev <= a.values[q]
                   /\ \A j \in DOMAIN toClient' :
                         j < k /\ Tells(toClient'[j], a, q) => toClient'[j].rev <= a.values[q]
                   /\ \A j \in DOMAIN notificationQueue :
                         Tells(notificationQueue[j], a, q) => notificationQueue[j].rev <= a.values[q]
        <5>1. q \in Prop /\ a.values[q] = x.age[q]
          BY <3>4, <3>8
        <5> QED BY <3>6, <3>7, <3>8, <4>3, <5>1
      <4> QED BY <3>5, <3>8, <4>2, <4>4 DEF NotNewer, Tells
    <3>11. Supersedes'
      BY <3>10 DEF Supersedes
    <3>12. OfOneGeneration' /\ Latest'
      BY <2>2, SameProxies DEF Superseding, Latest, Live
    <3> QED BY <3>11, <3>12 DEF Superseding
  <2> QED BY <2>1, <2>3, <2>4
<1> QED BY <1>1, <1>2, <1>3, <1>4 DEF ServerHandlers

LEMMA ApplicationSupersedes ==
  ASSUME Sound, Sound', Superseding, Application
  PROVE  Superseding'
<1>1. UNCHANGED <<instance, put, proxy, reattaching, toClient, notificationQueue>>
  BY DEF Application, Attach, Detach
<1> QED BY <1>1, QuietSupersedes

(* A snapshot is delivered: what the proxy shows then is of the generation *)
(* of the answer.                                                          *)
LEMMA DeliverSupersedes ==
  ASSUME Sound, Sound', Prompted, Superseding, NEW o \in Obj, DeliverStep(o)
  PROVE  Superseding'
<1> DEFINE m == toClient[1]
           r == proxy[o]
           s == proxy'[o]
<1>1. /\ UNCHANGED <<instance, put, notificationQueue>>
      /\ \A x \in Obj : x # o => proxy'[x] = proxy[x]
      /\ Answered' = {} \/ (reattaching' = reattaching /\ reattaching # o)
      /\ s.gen = m.gen /\ \E t : Receiving(t)
  BY DEF DeliverStep
<1>2. Latest'
  BY <1>1 DEF Superseding, Latest, Live
<1>3. ASSUME NEW q \in Prop, s.cache[q] # NoStamp PROVE s.cache[q].gen = s.gen
  <2>1. CASE s.cache[q] = [gen |-> m.gen, rev |-> m.values[q]]
    BY <1>1, <2>1
  <2>2. CASE Used(o) /\ r.gen = m.gen /\ s.cache[q] = r.cache[q]
    BY <1>1, <1>3, <2>2 DEF Superseding, OfOneGeneration
  <2> QED BY <1>3, <2>1, <2>2 DEF DeliverStep
<1>4. OfOneGeneration'
  BY <1>1, <1>3 DEF Superseding, OfOneGeneration, Used
<1>5. CASE Answered' = {}
  BY <1>2, <1>4, <1>5, NoneSupersedes DEF Superseding
<1>6. CASE reattaching' = reattaching /\ reattaching # o
  <2>1. AnswersStay(1) /\ QueueStays(1)
    BY <1>1, <1>6, ReceivedStay DEF Sound, QueueStays
  <2>2. CacheStays
    BY <1>1, <1>6 DEF Sound, TypeOK, CacheStays
  <2> QED BY <1>2, <1>4, <2>1, <2>2, SupersedesStill DEF Superseding
<1> QED BY <1>1, <1>5, <1>6

LEMMA RepliesSupersede ==
  ASSUME Sound, Sound', Prompted, Superseding, ClientReplies, late' = {}
  PROVE  Superseding'
<1>1. ASSUME NEW o \in Obj, ReceiveAttached(o) PROVE Superseding'
  BY <1>1, ReceiveAttachedDelivers, DeliverSupersedes
<1>2. CASE ReceiveRefused
  BY <1>2, QuietSupersedes DEF ReceiveRefused
<1>3. CASE ReceiveReattached
  BY <1>3, ReceiveReattachedDelivers, DeliverSupersedes
<1>4. CASE ReceiveNotFound \/ ReceiveRejected
  <2>1. UNCHANGED <<instance, put, proxy>> /\ \E t \in OutcomeTypes : Receiving(t)
    BY <1>4 DEF ReceiveNotFound, ReceiveRejected, OutcomeTypes
  <2>2. Answered' = {}
    BY <2>1, LastOfReattach
  <2> QED BY <2>1, <2>2, UnansweredSupersedes DEF Live
<1>5. \A d \in decoding : FALSE
  BY DEF Prompted
<1> QED BY <1>1, <1>2, <1>3, <1>4, <1>5 DEF ClientReplies

(* A change is older than what the answer after it brings.                 *)
LEMMA NotificationsSupersede ==
  ASSUME Sound, Sound', Prompted, Superseding, ClientNotifications
  PROVE  Superseding'
<1>1. CASE EnqueueNotification
  BY <1>1, EnqueueView, QuietSupersedes
<1>2. CASE ProcessNotification
  <2> DEFINE m == notificationQueue[1]
             o == attachedResources[m.id]
  <2>1. /\ UNCHANGED <<instance, put, toClient, reattaching>>
        /\ 1 \in DOMAIN notificationQueue /\ m.gen \in Generation
        /\ \A k \in DOMAIN notificationQueue' :
              k + 1 \in DOMAIN notificationQueue
              /\ notificationQueue'[k] = notificationQueue[k + 1]
        /\ \A x \in Obj : /\ Used(x)' <=> Used(x)
                          /\ x # o => proxy'[x] = proxy[x]
                          /\ x = o => Takes(proxy[x], proxy'[x], m)
    BY <1>2, ProcessView
  <2> HIDE DEF m, o
  <2>2. Latest'
    BY <2>1 DEF Superseding, Latest, Live
  <2>3. OfOneGeneration'
    <3> SUFFICES ASSUME NEW x \in Obj, Used(x), NEW q \in Prop, proxy'[x].cache[q] # NoStamp
                 PROVE  proxy'[x].cache[q].gen = proxy'[x].gen
      BY <2>1 DEF OfOneGeneration
    <3>1. CASE x # o
      BY <2>1, <3>1 DEF Superseding, OfOneGeneration
    <3>2. CASE x = o
      <4>1. Takes(proxy[x], proxy'[x], m)
        BY <2>1, <3>2
      <4>2. /\ proxy'[x].gen = proxy[x].gen /\ proxy[x].gen = m.gen
            /\ \/ proxy'[x].cache[q] = proxy[x].cache[q]
               \/ proxy'[x].cache[q] = [gen |-> m.gen, rev |-> m.rev]
        BY <4>1 DEF Takes
      <4> QED BY <4>2 DEF Superseding, OfOneGeneration
    <3> QED BY <3>1, <3>2
  <2>4. AnswersStay(0)
    BY <2>1, Lengths DEF Sound, AnswersStay
  <2>5. QueueStays(0)
    BY <2>1 DEF QueueStays
  <2>6. CacheStays
    <3> SUFFICES ASSUME reattaching # None
                 PROVE  LET r == proxy[reattaching]
                            s == proxy'[reattaching] IN
                        /\ s.gen = r.gen
                        /\ \A q \in Prop :
                              \/ s.cache[q] = r.cache[q]
                              \/ \E i \in DOMAIN notificationQueue :
                                    LET n == notificationQueue[i] IN
                                    /\ n.type = "property" /\ n.prop = q
                                    /\ s.cache[q] = [gen |-> n.gen, rev |-> n.rev]
      BY DEF CacheStays
    <3>1. reattaching \in Obj
      BY DEF Sound, TypeOK
    <3>2. CASE reattaching # o
      BY <2>1, <3>1, <3>2
    <3>3. CASE reattaching = o
      <4>1. Takes(proxy[reattaching], proxy'[reattaching], m)
        BY <2>1, <3>1, <3>3
      <4> QED BY <2>1, <4>1 DEF Takes, m
    <3> QED BY <3>2, <3>3
  <2> QED BY <2>2, <2>3, <2>4, <2>5, <2>6, SupersedesStill DEF Superseding
<1> QED BY <1>1, <1>2 DEF ClientNotifications

LEMMA SessionSupersedes ==
  ASSUME Sound, Sound', Superseding, Session
  PROVE  Superseding'
<1>1. CASE Disconnect \/ ServerRestart
  <2>1. /\ UNCHANGED <<proxy, put>> /\ toClient' = <<>>
        /\ \A l \in Link : instance'[l] # Absent => instance'[l] = instance[l]
    BY <1>1 DEF Disconnect, ServerRestart, LoseConnection
  <2>2. Answered' = {}
    BY <2>1 DEF Answered
  <2> QED BY <2>1, <2>2, UnansweredSupersedes DEF Live
<1>2. CASE Connect
  BY <1>2, QuietSupersedes DEF Connect
<1>3. ASSUME NEW i \in Id, Reattach(i) PROVE Superseding'
  <2>1. UNCHANGED <<instance, proxy, put, toClient>> /\ reattaching = None
    BY <1>3 DEF Reattach
  <2>2. Answered' = {}
    BY <2>1 DEF Sound, OneReattach, Answered
  <2> QED BY <2>1, <2>2, UnansweredSupersedes DEF Live
<1> QED BY <1>1, <1>2, <1>3 DEF Session

LEMMA NextSupersedes ==
  ASSUME Sound, Sound', Prompted, Superseding, [Next]_vars, late' = {}
  PROVE  Superseding'
<1>1. CASE UNCHANGED vars
  BY <1>1, QuietSupersedes DEF vars
<1> QED BY <1>1, ResourcesSupersede, HandlersSupersede, ApplicationSupersedes,
           RepliesSupersede, NotificationsSupersede, SessionSupersedes DEF Next

LEMMA NInvariant == Spec => []NInv
<1>1. Init => NInv
  <2>1. Init => Superseding
    <3> SUFFICES ASSUME Init PROVE Superseding
      OBVIOUS
    <3>1. /\ \A l \in Link : ~Live(l)
          /\ \A o \in Obj : ~Used(o)
          /\ DOMAIN toClient = {}
      BY DEF Init, Live, Used
    <3> QED BY <3>1 DEF Superseding, Latest, OfOneGeneration, Supersedes
  <2> QED BY <2>1, InitSound, InitPrompted DEF NInv, IInv
<1>2. NInv /\ IInv' /\ [Next]_vars => NInv'
  <2> SUFFICES ASSUME NInv, IInv', [Next]_vars, late' = {} PROVE Superseding'
    BY DEF NInv
  <2>1. late = {}
    BY LateGrows
  <2> QED BY <2>1, NextSupersedes DEF NInv, IInv
<1> QED BY <1>1, <1>2, IInvariant, PTL DEF Spec

-----------------------------------------------------------------------------
(* Only a delivery and a notification change what a proxy in use shows.    *)

Advances(b, a) == \/ a.gen[2] > b.gen[2]
                  \/ a.gen = b.gen /\ a.rev >= b.rev

LEMMA SnapshotAdvances ==
  ASSUME Sound, Prompted, Superseding, NEW o \in Obj, DeliverStep(o), Used(o),
         o = reattaching, toClient[1].type = "reattached",
         NEW q \in Prop, proxy[o].cache[q] # NoStamp
  PROVE  Advances(proxy[o].cache[q], proxy'[o].cache[q])
<1> DEFINE m == toClient[1]
           r == proxy[o]
           s == proxy'[o]
<1>1. /\ TypeOK /\ UsedWhereNamed /\ ReattachFits
      /\ 1 \in DOMAIN toClient /\ 1 \in Answered /\ NotNewer(r, m, 1)
  <2>1. \E t : Receiving(t)
    BY DEF DeliverStep
  <2>2. 1 \in DOMAIN toClient
    BY <2>1, ReceiveKeeps DEF Sound
  <2> QED BY <2>2 DEF Sound, Prompted, Answered, OutcomeTypes, Superseding, Supersedes
<1>2. /\ r \in Proxy /\ r.gen \in Generation /\ r.cache[q] \in Stamp
      /\ r.cache[q].rev \in Nat /\ r.cache[q].gen = r.gen
  <2>1. r \in Proxy /\ r.gen \in Generation
    BY <1>1, ProxyFacts
  <2>2. r.cache[q] \in Stamp
    BY <2>1, ProxyType
  <2> QED BY <2>1, <2>2 DEF Stamp, Revision, Superseding, OfOneGeneration
<1>3. CASE q \in DOMAIN m.values /\ s.cache[q] = [gen |-> m.gen, rev |-> m.values[q]]
  <2>1. /\ r.gen # m.gen => r.gen[2] < m.gen[2]
        /\ r.cache[q].gen = m.gen => r.cache[q].rev <= m.values[q]
    BY <1>1, <1>3 DEF NotNewer
  <2>2. s.cache[q].gen = m.gen /\ s.cache[q].rev = m.values[q]
    BY <1>3
  <2>3. m.gen \in Generation /\ m.values[q] \in Nat
    <3>1. m \in Answer /\ m.gen \in Generation
      BY <1>1, MessageFacts DEF IsAnswer, Carries, AnswerTypes
    <3>2. m.values \in Values
      BY <3>1 DEF Answer
    <3> QED BY <1>3, <3>1, <3>2, ValuesType DEF Revision
  <2>4. r.gen[2] \in Nat /\ m.gen[2] \in Nat
    BY <1>2, <2>3 DEF Generation
  <2> QED BY <1>2, <2>1, <2>2, <2>3, <2>4 DEF Advances
<1>4. CASE s.cache[q] = r.cache[q]
  BY <1>2, <1>4 DEF Advances
<1> QED BY <1>3, <1>4 DEF DeliverStep

LEMMA ChangeAdvances ==
  ASSUME Sound, Sound', Prompted, Superseding, ProcessNotification,
         NEW o \in Obj, Used(o), NEW q \in Prop, proxy[o].cache[q] # NoStamp
  PROVE  Advances(proxy[o].cache[q], proxy'[o].cache[q])
<1> DEFINE m == notificationQueue[1]
           r == proxy[o]
           s == proxy'[o]
<1>1. TypeOK /\ UsedWhereNamed /\ ProxiesTrue
  BY DEF Sound, Prompted
<1>2. /\ m.gen \in Generation /\ m.rev \in Nat
      /\ s = r \/ Takes(r, s, m)
  BY ProcessView
<1>3. /\ r \in Proxy /\ r.cache[q] \in Stamp
      /\ r.cache[q].rev \in Nat /\ r.cache[q].gen = r.gen
  <2>1. r \in Proxy
    BY <1>1, ProxyFacts
  <2>2. r.cache[q] \in Stamp
    BY <2>1, ProxyType
  <2> QED BY <2>1, <2>2 DEF Stamp, Revision, Superseding, OfOneGeneration
<1>4. CASE s.cache[q] = r.cache[q]
  BY <1>3, <1>4 DEF Advances
<1>5. CASE /\ r.gen = m.gen /\ q = m.prop /\ ~Seen(r, m)
           /\ s.cache[q] = [gen |-> m.gen, rev |-> m.rev]
  <2>1. r.propertyCursors[q] = r.cache[q]
    BY <1>1, <1>3 DEF ProxiesTrue
  <2>2. r.cache[q].rev < m.rev
    BY <1>2, <1>3, <1>5, <2>1 DEF Seen
  <2>3. s.cache[q].gen = m.gen /\ s.cache[q].rev = m.rev
    BY <1>5
  <2> QED BY <1>2, <1>3, <1>5, <2>2, <2>3 DEF Advances
<1> QED BY <1>2, <1>4, <1>5 DEF Takes

LEMMA NextAdvances ==
  ASSUME Sound, Sound', Prompted, Superseding, [Next]_vars, late' = {},
         NEW o \in Obj, Used(o), NEW q \in Prop, proxy[o].cache[q] # NoStamp
  PROVE  Advances(proxy[o].cache[q], proxy'[o].cache[q])
<1>1. proxy[o].cache[q] \in Stamp /\ proxy[o].cache[q].rev \in Nat
  <2>1. proxy[o] \in Proxy
    BY ProxyFacts DEF Sound
  <2>2. proxy[o].cache[q] \in Stamp
    BY <2>1, ProxyType
  <2> QED BY <2>2 DEF Stamp, Revision
<1>2. CASE proxy'[o] = proxy[o]
  BY <1>1, <1>2 DEF Advances
<1>3. CASE ServerResources \/ ServerHandlers \/ Application \/ Session \/ UNCHANGED vars
  <2>1. proxy' = proxy
    BY <1>3 DEF ServerResources, Put, Remove, RaiseEvent, Modify, ServerHandlers, ReceiveAttach,
         FinishAttach, ReceiveReattach, FinishReattach, ReceiveDetach, FinishDetach,
         Application, Attach, Detach, Session, Disconnect, ServerRestart, LoseConnection,
         Connect, Reattach, vars
  <2> QED BY <1>2, <2>1
<1>4. CASE ClientReplies
  <2>1. ASSUME NEW x \in Obj, ReceiveAttached(x) PROVE proxy'[o] = proxy[o]
    BY <2>1, ReceiveAttachedDelivers DEF DeliverStep
  <2>2. CASE ReceiveReattached
    <3>1. CASE o = reattaching
      BY <2>2, <3>1, ReceiveReattachedDelivers, SnapshotAdvances
    <3>2. CASE o # reattaching
      <4>1. proxy'[o] = proxy[o]
        BY <2>2, <3>2, ReceiveReattachedDelivers DEF DeliverStep
      <4> QED BY <1>2, <4>1
    <3> QED BY <3>1, <3>2
  <2>3. CASE ReceiveRefused \/ ReceiveNotFound \/ ReceiveRejected
    <3>1. proxy' = proxy
      BY <2>3 DEF ReceiveRefused, ReceiveNotFound, ReceiveRejected
    <3> QED BY <1>2, <3>1
  <2>4. \A d \in decoding : FALSE
    BY DEF Prompted
  <2> QED BY <1>2, <1>4, <2>1, <2>2, <2>3, <2>4 DEF ClientReplies
<1>5. CASE EnqueueNotification
  <2>1. proxy' = proxy
    BY <1>5 DEF EnqueueNotification
  <2> QED BY <1>2, <2>1
<1>6. CASE ProcessNotification
  BY <1>6, ChangeAdvances
<1> QED BY <1>3, <1>4, <1>5, <1>6 DEF Next, ClientNotifications

(* While snapshots are decoded with their replies, a value of a proxy is   *)
(* only ever replaced by one as new of the same generation, or by one of a *)
(* later generation: neither a late notification nor a snapshot takes it   *)
(* back.                                                                   *)
THEOREM ValuesOnlyAdvance == Spec /\ [](late = {}) => NeverRegresses
<1> DEFINE NoneGoesBack == \A o \in Obj : (proxy[o] # Unused /\ Prompt(o)) => \A p \in Prop :
               LET before == proxy[o].cache[p]
                   after == proxy'[o].cache[p] IN
               before # NoStamp => \/ after.gen[2] > before.gen[2]
                                   \/ after.gen = before.gen /\ after.rev >= before.rev
<1>1. NInv /\ NInv' /\ (late = {})' /\ [Next]_vars => [NoneGoesBack]_vars
  <2> SUFFICES ASSUME NInv, NInv', late' = {}, [Next]_vars PROVE NoneGoesBack
    OBVIOUS
  <2>1. late = {}
    BY LateGrows
  <2>2. Sound /\ Sound' /\ Prompted /\ Superseding
    BY <2>1 DEF NInv, IInv
  <2> QED BY <2>2, NextAdvances DEF Advances, Used
<1>2. NeverRegresses <=> [][NoneGoesBack]_vars
  BY DEF NeverRegresses
<1> QED BY <1>1, <1>2, NInvariant, PTL DEF Spec
=============================================================================
