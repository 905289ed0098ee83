----------------------- MODULE EventSubscriptionProofs -----------------------
(***************************************************************************)
(* Proofs about module EventSubscription, in this order: the types; what a *)
(* session says, and in what order; that a proxy at rest believes what the *)
(* server does; that the pages of a replay are what is retained; what the  *)
(* journal retains; what is promised of a listener's feed while it has not *)
(* lapsed, which is inductive; and from it that a listener catches up, and *)
(* that module EventFeed is implemented.                                   *)
(***************************************************************************)
EXTENDS EventSubscription, FiniteSetTheorems, TLAPS

-----------------------------------------------------------------------------
(* What the queues hold.                                                   *)

Is(m, t, e) == m.type = t /\ m.event = e

Has(q, t) == \E i \in DOMAIN q : q[i].type = t
Carries(q, t, e) == \E i \in DOMAIN q : Is(q[i], t, e)

(* Everything of the first kind comes before everything of the second.     *)
Before(q, t, u) ==
    \A i, j \in DOMAIN q : q[i].type = t /\ q[j].type = u => i < j
BeforeFor(q, t, u, e) ==
    \A i, j \in DOMAIN q : Is(q[i], t, e) /\ Is(q[j], u, e) => i < j

AtMostOne(q, t) ==
    \A i, j \in DOMAIN q : q[i].type = t /\ q[j].type = t => i = j
AtMostOneFor(q, t, e) ==
    \A i, j \in DOMAIN q : Is(q[i], t, e) /\ Is(q[j], t, e) => i = j

LEMMA HasAppended ==
  ASSUME NEW S, NEW q \in Seq(S), NEW m \in S
  PROVE  /\ \A t : Has(Append(q, m), t) <=> Has(q, t) \/ m.type = t
         /\ \A t, e : Carries(Append(q, m), t, e) <=> Carries(q, t, e) \/ Is(m, t, e)
  <1>1. /\ DOMAIN Append(q, m) = 1 .. Len(q) + 1 /\ DOMAIN q = 1 .. Len(q) /\ Len(q) \in Nat
        /\ \A i \in DOMAIN q : Append(q, m)[i] = q[i] /\ i \in DOMAIN Append(q, m)
        /\ Append(q, m)[Len(q) + 1] = m /\ Len(q) + 1 \in DOMAIN Append(q, m)
        /\ \A i \in DOMAIN Append(q, m) : i \in DOMAIN q \/ i = Len(q) + 1
    OBVIOUS
  <1> QED BY <1>1 DEF Has, Carries, Is

LEMMA OrderAppended ==
  ASSUME NEW S, NEW q \in Seq(S), NEW m \in S
  PROVE  /\ \A t, u : Before(q, t, u) /\ t # u /\ (m.type = t => ~Has(q, u))
                          => Before(Append(q, m), t, u)
         /\ \A t, u, e : BeforeFor(q, t, u, e) /\ t # u /\ (Is(m, t, e) => ~Carries(q, u, e))
                           => BeforeFor(Append(q, m), t, u, e)
         /\ \A t : AtMostOne(q, t) /\ (m.type = t => ~Has(q, t)) => AtMostOne(Append(q, m), t)
         /\ \A t, e : AtMostOneFor(q, t, e) /\ (Is(m, t, e) => ~Carries(q, t, e))
                        => AtMostOneFor(Append(q, m), t, e)
  <1>1. /\ DOMAIN Append(q, m) = 1 .. Len(q) + 1 /\ DOMAIN q = 1 .. Len(q) /\ Len(q) \in Nat
        /\ \A i \in DOMAIN q : Append(q, m)[i] = q[i] /\ i < Len(q) + 1 /\ i \in Nat
        /\ Append(q, m)[Len(q) + 1] = m
        /\ \A i \in DOMAIN Append(q, m) : i \in DOMAIN q \/ i = Len(q) + 1
    OBVIOUS
  <1>2. \A t, u : Before(q, t, u) /\ t # u /\ (m.type = t => ~Has(q, u))
                      => Before(Append(q, m), t, u)
    BY <1>1 DEF Before, Has
  <1>3. \A t, u, e : BeforeFor(q, t, u, e) /\ t # u /\ (Is(m, t, e) => ~Carries(q, u, e))
                       => BeforeFor(Append(q, m), t, u, e)
    BY <1>1 DEF BeforeFor, Carries, Is
  <1>4. \A t : AtMostOne(q, t) /\ (m.type = t => ~Has(q, t)) => AtMostOne(Append(q, m), t)
    BY <1>1 DEF AtMostOne, Has
  <1>5. \A t, e : AtMostOneFor(q, t, e) /\ (Is(m, t, e) => ~Carries(q, t, e))
                    => AtMostOneFor(Append(q, m), t, e)
    BY <1>1 DEF AtMostOneFor, Carries, Is
  <1> QED BY <1>2, <1>3, <1>4, <1>5

LEMMA TailAt ==
  ASSUME NEW S, NEW q \in Seq(S), q # <<>>
  PROVE  /\ DOMAIN q = 1 .. Len(q) /\ Len(q) \in Nat \ {0} /\ DOMAIN Tail(q) = 1 .. Len(q) - 1
         /\ \A i \in DOMAIN Tail(q) : Tail(q)[i] = q[i + 1] /\ i + 1 \in DOMAIN q
         /\ Head(q) = q[1] /\ 1 \in DOMAIN q
         /\ \A i \in DOMAIN q : i = 1 \/ (i - 1 \in DOMAIN Tail(q) /\ Tail(q)[i - 1] = q[i])
  OBVIOUS

LEMMA HasRemoved ==
  ASSUME NEW S, NEW q \in Seq(S), q # <<>>
  PROVE  /\ \A t : Has(q, t) <=> Head(q).type = t \/ Has(Tail(q), t)
         /\ \A t, e : Carries(q, t, e) <=> Is(Head(q), t, e) \/ Carries(Tail(q), t, e)
  <1>1. /\ \A i \in DOMAIN Tail(q) : Tail(q)[i] = q[i + 1] /\ i + 1 \in DOMAIN q
        /\ Head(q) = q[1] /\ 1 \in DOMAIN q
        /\ \A i \in DOMAIN q : i = 1 \/ \E j \in DOMAIN Tail(q) : Tail(q)[j] = q[i]
    BY TailAt
  <1>2. \A t : Has(q, t) <=> Head(q).type = t \/ Has(Tail(q), t)
    BY <1>1 DEF Has
  <1>3. \A t, e : Carries(q, t, e) <=> Is(Head(q), t, e) \/ Carries(Tail(q), t, e)
    BY <1>1 DEF Carries, Is
  <1> QED BY <1>2, <1>3

LEMMA OrderRemoved ==
  ASSUME NEW S, NEW q \in Seq(S), q # <<>>
  PROVE  /\ \A t, u : Before(q, t, u) =>
                /\ Before(Tail(q), t, u)
                /\ Head(q).type = u => ~Has(q, t)
         /\ \A t, u, e : BeforeFor(q, t, u, e) =>
                /\ BeforeFor(Tail(q), t, u, e)
                /\ Is(Head(q), u, e) => ~Carries(q, t, e)
         /\ \A t : AtMostOne(q, t) =>
                /\ AtMostOne(Tail(q), t)
                /\ Head(q).type = t => ~Has(Tail(q), t)
         /\ \A t, e : AtMostOneFor(q, t, e) =>
                /\ AtMostOneFor(Tail(q), t, e)
                /\ Is(Head(q), t, e) => ~Carries(Tail(q), t, e)
  <1>1. \A i, j \in DOMAIN Tail(q) : /\ i \in Nat /\ j \in Nat
                                     /\ i + 1 < j + 1 => i < j
                                     /\ i + 1 = j + 1 => i = j
    BY TailAt
  <1>2. \A i \in DOMAIN q : i \in Nat /\ 1 <= i
    BY TailAt
  <1>3. \A i \in DOMAIN Tail(q) : i + 1 # 1
    BY TailAt
  <1>4. \A t, u : Before(q, t, u) =>
                /\ Before(Tail(q), t, u)
                /\ Head(q).type = u => ~Has(q, t)
    BY TailAt, <1>1, <1>2 DEF Before, Has
  <1>5. \A t, u, e : BeforeFor(q, t, u, e) =>
                /\ BeforeFor(Tail(q), t, u, e)
                /\ Is(Head(q), u, e) => ~Carries(q, t, e)
    BY TailAt, <1>1, <1>2 DEF BeforeFor, Carries, Is
  <1>6. \A t : AtMostOne(q, t) =>
                /\ AtMostOne(Tail(q), t)
                /\ Head(q).type = t => ~Has(Tail(q), t)
    BY TailAt, <1>1, <1>2, <1>3 DEF AtMostOne, Has
  <1>7. \A t, e : AtMostOneFor(q, t, e) =>
                /\ AtMostOneFor(Tail(q), t, e)
                /\ Is(Head(q), t, e) => ~Carries(Tail(q), t, e)
    BY TailAt, <1>1, <1>2, <1>3 DEF AtMostOneFor, Carries, Is
  <1> QED BY <1>4, <1>5, <1>6, <1>7

LEMMA NothingHeld ==
  /\ \A t : ~Has(<<>>, t) /\ AtMostOne(<<>>, t)
  /\ \A t, e : ~Carries(<<>>, t, e) /\ AtMostOneFor(<<>>, t, e)
  /\ \A t, u : Before(<<>>, t, u)
  /\ \A t, u, e : BeforeFor(<<>>, t, u, e)
  BY DEF Has, Carries, Before, BeforeFor, AtMostOne, AtMostOneFor

LEMMA CarriedIsHad == \A q, t, e : Carries(q, t, e) => Has(q, t)
  BY DEF Carries, Has, Is

(* Only messages of one type follow.                                       *)
LEMMA HasFollowed ==
  ASSUME NEW S, NEW q \in Seq(S), NEW r \in Seq(S), NEW x, \A i \in DOMAIN r : r[i].type = x
  PROVE  /\ \A t : t # x => (Has(q \o r, t) <=> Has(q, t))
         /\ \A t, e : t # x => (Carries(q \o r, t, e) <=> Carries(q, t, e))
         /\ \A t, u : t # x /\ Before(q, t, u) => Before(q \o r, t, u)
         /\ \A t, u, e : t # x /\ BeforeFor(q, t, u, e) => BeforeFor(q \o r, t, u, e)
         /\ \A t : t # x /\ AtMostOne(q, t) => AtMostOne(q \o r, t)
         /\ \A t, e : t # x /\ AtMostOneFor(q, t, e) => AtMostOneFor(q \o r, t, e)
  <1>1. /\ DOMAIN (q \o r) = 1 .. Len(q) + Len(r) /\ DOMAIN q = 1 .. Len(q) /\ DOMAIN r = 1 .. Len(r)
        /\ Len(q) \in Nat /\ Len(r) \in Nat
        /\ \A i \in DOMAIN (q \o r) : (q \o r)[i] = IF i <= Len(q) THEN q[i] ELSE r[i - Len(q)]
    OBVIOUS
  <1>2. /\ \A i \in DOMAIN q : (q \o r)[i] = q[i] /\ i \in DOMAIN (q \o r)
        /\ \A i \in DOMAIN (q \o r) : i \in DOMAIN q \/ (q \o r)[i].type = x
        /\ \A i \in DOMAIN q, j \in DOMAIN (q \o r) : j \notin DOMAIN q => i < j
    <2>1. \A i \in DOMAIN q : (q \o r)[i] = q[i] /\ i \in DOMAIN (q \o r)
      BY <1>1
    <2>2. \A i \in DOMAIN (q \o r) : i \in DOMAIN q \/ (i - Len(q) \in DOMAIN r /\ (q \o r)[i] = r[i - Len(q)])
      BY <1>1
    <2>3. \A i \in DOMAIN q, j \in DOMAIN (q \o r) : j \notin DOMAIN q => i < j
      BY <1>1
    <2> QED BY <2>1, <2>2, <2>3
  <1> DEFINE w == q \o r
  <1> HIDE DEF w
  <1>3. /\ \A i \in DOMAIN q : w[i] = q[i] /\ i \in DOMAIN w
        /\ \A i \in DOMAIN w : i \in DOMAIN q \/ w[i].type = x
        /\ \A i \in DOMAIN q, j \in DOMAIN w : j \notin DOMAIN q => i < j
    BY <1>2 DEF w
  <1>4. \A t : t # x => (Has(w, t) <=> Has(q, t))
    BY <1>3 DEF Has
  <1>5. \A t, e : t # x => (Carries(w, t, e) <=> Carries(q, t, e))
    BY <1>3 DEF Carries, Is
  <1>6. \A t, u : t # x /\ Before(q, t, u) => Before(w, t, u)
    BY <1>3 DEF Before
  <1>7. \A t, u, e : t # x /\ BeforeFor(q, t, u, e) => BeforeFor(w, t, u, e)
    BY <1>3 DEF BeforeFor, Is
  <1>8. \A t : t # x /\ AtMostOne(q, t) => AtMostOne(w, t)
    BY <1>3 DEF AtMostOne
  <1>9. \A t, e : t # x /\ AtMostOneFor(q, t, e) => AtMostOneFor(w, t, e)
    BY <1>3 DEF AtMostOneFor, Is
  <1> QED BY <1>4, <1>5, <1>6, <1>7, <1>8, <1>9 DEF w

(* A queue with one more message at its end, and without its first.        *)
Added(q, m, p) ==
    /\ \A t : Has(p, t) <=> Has(q, t) \/ m.type = t
    /\ \A t, e : Carries(p, t, e) <=> Carries(q, t, e) \/ Is(m, t, e)
    /\ \A t, u : Before(q, t, u) /\ t # u /\ (m.type = t => ~Has(q, u)) => Before(p, t, u)
    /\ \A t, u, e : BeforeFor(q, t, u, e) /\ t # u /\ (Is(m, t, e) => ~Carries(q, u, e))
                       => BeforeFor(p, t, u, e)
    /\ \A t : AtMostOne(q, t) /\ (m.type = t => ~Has(q, t)) => AtMostOne(p, t)
    /\ \A t, e : AtMostOneFor(q, t, e) /\ (Is(m, t, e) => ~Carries(q, t, e)) => AtMostOneFor(p, t, e)

Taken(q, m, p) ==
    /\ \A t : Has(q, t) <=> m.type = t \/ Has(p, t)
    /\ \A t, e : Carries(q, t, e) <=> Is(m, t, e) \/ Carries(p, t, e)
    /\ \A t, u : Before(q, t, u) => Before(p, t, u) /\ (m.type = u => ~Has(q, t))
    /\ \A t, u, e : BeforeFor(q, t, u, e) => BeforeFor(p, t, u, e) /\ (Is(m, u, e) => ~Carries(q, t, e))
    /\ \A t : AtMostOne(q, t) => AtMostOne(p, t) /\ (m.type = t => ~Has(p, t))
    /\ \A t, e : AtMostOneFor(q, t, e) => AtMostOneFor(p, t, e) /\ (Is(m, t, e) => ~Carries(p, t, e))

(* A queue followed by messages of one type only.                          *)
Followed(q, x, p) ==
    /\ \A t : t # x => (Has(p, t) <=> Has(q, t))
    /\ \A t, e : t # x => (Carries(p, t, e) <=> Carries(q, t, e))
    /\ \A t, u : t # x /\ Before(q, t, u) => Before(p, t, u)
    /\ \A t, u, e : t # x /\ BeforeFor(q, t, u, e) => BeforeFor(p, t, u, e)
    /\ \A t : t # x /\ AtMostOne(q, t) => AtMostOne(p, t)
    /\ \A t, e : t # x /\ AtMostOneFor(q, t, e) => AtMostOneFor(p, t, e)

LEMMA AppendAdds ==
  ASSUME NEW S, NEW q \in Seq(S), NEW m \in S
  PROVE  Added(q, m, Append(q, m))
  BY HasAppended, OrderAppended DEF Added

LEMMA TailTakes ==
  ASSUME NEW S, NEW q \in Seq(S), q # <<>>
  PROVE  Taken(q, Head(q), Tail(q))
  BY HasRemoved, OrderRemoved DEF Taken

LEMMA ConcatFollows ==
  ASSUME NEW S, NEW q \in Seq(S), NEW r \in Seq(S), NEW x, \A i \in DOMAIN r : r[i].type = x
  PROVE  Followed(q, x, q \o r)
  BY HasFollowed DEF Followed

-----------------------------------------------------------------------------
(* The replay enumerates the revisions it found.                           *)

(* Of a finite set of numbers, one has each rank.                          *)
LEMMA RankIsTaken ==
  ASSUME NEW S \in SUBSET Nat, IsFiniteSet(S), NEW i \in 1 .. Cardinality(S)
  PROVE  \E r \in S : Rank(r, S) = i
  <1> DEFINE n == Cardinality(S)
             Below(r) == {y \in S : y <= r}
             rank == [r \in S |-> Cardinality(Below(r))]
  <1>1. n \in Nat /\ IsFiniteSet(1 .. n) /\ Cardinality(1 .. n) = n
    BY FS_CardinalityType, FS_Interval
  <1>2. \A r \in S : /\ IsFiniteSet(Below(r)) /\ Cardinality(Below(r)) \in 1 .. n
                     /\ Below(r) \in SUBSET S
    <2> SUFFICES ASSUME NEW r \in S
                 PROVE  /\ IsFiniteSet(Below(r)) /\ Cardinality(Below(r)) \in 1 .. n
                        /\ Below(r) \in SUBSET S
      OBVIOUS
    <2>1. Below(r) \in SUBSET S /\ r \in Below(r)
      OBVIOUS
    <2> HIDE DEF Below
    <2>2. IsFiniteSet(Below(r)) /\ Cardinality(Below(r)) <= n
      BY <2>1, FS_Subset
    <2>3. Cardinality(Below(r)) \in Nat /\ Cardinality(Below(r)) # 0
      BY <2>1, <2>2, FS_CardinalityType, FS_EmptySet
    <2> QED BY <1>1, <2>1, <2>2, <2>3
  <1>3. \A r, s \in S : r < s => Cardinality(Below(r)) < Cardinality(Below(s))
    <2> SUFFICES ASSUME NEW r \in S, NEW s \in S, r < s
                 PROVE  Cardinality(Below(r)) < Cardinality(Below(s))
      OBVIOUS
    <2>1. Below(r) \in SUBSET Below(s) /\ s \in Below(s) /\ s \notin Below(r)
      <3>1. r \in Nat /\ s \in Nat /\ \A y \in S : y \in Nat
        OBVIOUS
      <3>2. \A y \in Nat : y <= r => y <= s
        BY <3>1
      <3>3. s <= s /\ ~(s <= r)
        BY <3>1
      <3> QED BY <3>1, <3>2, <3>3
    <2> HIDE DEF Below
    <2>2. /\ IsFiniteSet(Below(s))
          /\ Cardinality(Below(r)) \in Nat /\ Cardinality(Below(s)) \in Nat
      BY <1>1, <1>2 DEF n
    <2> QED BY <2>1, <2>2, FS_Subset
  <1>4. rank \in [S -> 1 .. n]
    BY <1>2
  <1>5. \A r, s \in S : rank[r] = rank[s] => r = s
    <2> SUFFICES ASSUME NEW r \in S, NEW s \in S, rank[r] = rank[s], r # s
                 PROVE  FALSE
      OBVIOUS
    <2>1. r < s \/ s < r
      <3>1. r \in Nat /\ s \in Nat
        OBVIOUS
      <3> QED BY <3>1
    <2>2. rank[r] = Cardinality(Below(r)) /\ rank[s] = Cardinality(Below(s))
      OBVIOUS
    <2> HIDE DEF rank, Below, n
    <2>3. Cardinality(Below(r)) \in Nat /\ Cardinality(Below(s)) \in Nat
      BY <1>1, <1>2
    <2>4. Cardinality(Below(r)) = Cardinality(Below(s))
      BY <2>2
    <2>5. CASE r < s
      <3>1. Cardinality(Below(r)) < Cardinality(Below(s))
        BY <1>3, <2>5
      <3> QED BY <2>3, <2>4, <3>1
    <2>6. CASE s < r
      <3>1. Cardinality(Below(s)) < Cardinality(Below(r))
        BY <1>3, <2>6
      <3> QED BY <2>3, <2>4, <3>1
    <2> QED BY <2>1, <2>5, <2>6
  <1>n. n = Cardinality(S)
    OBVIOUS
  <1> HIDE DEF rank, n
  <1>6. rank \in Injection(S, 1 .. n)
    BY <1>4, <1>5 DEF Injection, IsInjective
  <1>7. rank \in Surjection(S, 1 .. n)
    <2>1. Cardinality(S) = Cardinality(1 .. n)
      BY <1>1, <1>n
    <2> QED BY <1>1, <1>6, <2>1, FS_Injection
  <1>8. PICK r \in S : rank[r] = i
    BY <1>7, <1>n DEF Surjection
  <1> QED BY <1>8 DEF rank, Rank

LEMMA RevisionsAreFinite == IsFiniteSet(Revision) /\ Revision \subseteq Nat
  BY EventSubscriptionAssumption, FS_Interval DEF Revision

LEMMA IsSequence ==
  ASSUME NEW n \in Nat, NEW S, NEW f \in [1 .. n -> S]
  PROVE  f \in Seq(S) /\ Len(f) = n /\ DOMAIN f = 1 .. n
  OBVIOUS

LEMMA SubsetSequence ==
  ASSUME NEW S, NEW T, S \subseteq T, NEW q \in Seq(S)
  PROVE  q \in Seq(T)
  OBVIOUS

LEMMA ReplayIs ==
  ASSUME NEW e \in Event, NEW after, Head1.gen \in 1 .. MaxGeneration
  PROVE  Replay(e, after) \in Seq([type : {"event"}, event : {e}, cursor : Position])
  <1>1. ASSUME NEW revs \in SUBSET Revision
        PROVE  InOrder(e, revs) \in Seq([type : {"event"}, event : {e}, cursor : Position])
    <2>1. IsFiniteSet(revs) /\ revs \subseteq Nat
      BY RevisionsAreFinite, FS_Subset
    <2>2. Cardinality(revs) \in Nat
      BY <2>1, FS_CardinalityType
    <2>3. \A i \in 1 .. Cardinality(revs) : (CHOOSE r \in revs : Rank(r, revs) = i) \in Revision
      BY <2>1, RankIsTaken
    <2>4. \A i \in 1 .. Cardinality(revs) :
            Notice(e, Cursor(Head1.gen, CHOOSE r \in revs : Rank(r, revs) = i))
              \in [type : {"event"}, event : {e}, cursor : Position]
      BY <2>3 DEF Notice, Cursor, Position
    <2>5. InOrder(e, revs) \in
            [1 .. Cardinality(revs) -> [type : {"event"}, event : {e}, cursor : Position]]
      BY <2>4 DEF InOrder
    <2> QED BY <2>2, <2>5, IsSequence
  <1> QED BY <1>1 DEF Replay

(* SetToSeq enumerates a finite set.                                       *)
LEMMA SetToSeqIs ==
  ASSUME NEW S, IsFiniteSet(S)
  PROVE  Cardinality(S) \in Nat /\ SetToSeq(S) \in [1 .. Cardinality(S) -> S]
  <1>1. Cardinality(S) \in Nat /\ ExistsBijection(1 .. Cardinality(S), S)
    BY FS_CardinalityType
  <1>2. \E f \in [1 .. Cardinality(S) -> S] : IsInjective(f)
    BY <1>1 DEF ExistsBijection, Bijection, Injection, IsInjective
  <1> QED BY <1>1, <1>2 DEF SetToSeq

-----------------------------------------------------------------------------
(* Types.                                                                  *)

Wire == Subscribable \cup Historical

Request ==
    [type : {"attach", "detach"}]
      \cup [type : {"subscribe"}, event : Wire, after : Position]
      \cup [type : {"unsubscribe"}, event : Wire]
Occurrence == [type : {"event"}, event : Event, cursor : Position]
Acknowledgement == [type : {"subscribed"}, event : Wire, head : Revision]
Deferred == Occurrence \cup [type : {"property"}, cursor : Position] \cup Acknowledgement
Answer == Deferred \cup [type : {"failed", "unsubscribed"}, event : Wire]
            \cup [type : {"attached"}, cursor : Position]

JournalTypes ==
    /\ journal.head \in Position /\ journal.discarded \in Revision
    /\ journal.entries \in Seq([rev : Revision, member : Event \cup {Other}])
    /\ Len(journal.entries) <= JournalSize

MessageTypes ==
    /\ toServer \in Seq(Request) /\ handling \in Seq(Request)
    /\ toClient \in Seq(Answer) /\ notificationQueue \in Seq(Deferred)

(* Every session but the first cost a fault, and so did every release.     *)
SessionTypes ==
    /\ attached \in BOOLEAN /\ connected \in BOOLEAN
    /\ sessions \in Nat \ {0} /\ releases \in Nat
    /\ sessions - 1 + releases + (IF connected THEN 0 ELSE 1) <= MaxFault

ProxyTypes ==
    /\ tracked \in BOOLEAN
    /\ eventSubscriptions \subseteq Wire
    /\ cursor \in Position /\ eventCursors \in [Event -> Stamps]
    /\ listeners \in [Event -> 0 .. MaxListener]
    /\ subscribedEvents \subseteq Wire /\ reconciling \subseteq Wire

Types == JournalTypes /\ MessageTypes /\ SessionTypes /\ ProxyTypes

LEMMA TypesImplyTypeOK == Types => TypeOK
  <1> SUFFICES ASSUME Types PROVE TypeOK
    OBVIOUS
  <1>1. sessions \in 1 .. 1 + MaxFault /\ releases \in 0 .. MaxFault
    BY EventSubscriptionAssumption DEF Types, SessionTypes
  <1> QED BY <1>1 DEF Types, JournalTypes, SessionTypes, ProxyTypes, Wire, TypeOK

LEMMA WireIsEvents == Wire \subseteq Event /\ IsFiniteSet(Wire)
  <1>1. Wire \in SUBSET Event
    BY EventSubscriptionAssumption DEF Wire
  <1> QED BY <1>1, EventSubscriptionAssumption, FS_Subset

LEMMA CursorsArePositions ==
  /\ \A g \in 1 .. MaxGeneration, r \in Revision : Cursor(g, r) \in Position
  /\ \A c \in Position : c.gen \in 1 .. MaxGeneration /\ c.rev \in Revision
  BY DEF Cursor, Position

LEMMA InitTypes == Init => Types
  <1> SUFFICES ASSUME Init PROVE Types
    OBVIOUS
  <1>1. Cursor(1, 0) \in Position
    BY EventSubscriptionAssumption DEF Cursor, Position, Revision
  <1>2. JournalTypes
    BY <1>1, EventSubscriptionAssumption DEF Init, EmptyJournal, JournalTypes, Revision
  <1>3. MessageTypes
    BY DEF Init, MessageTypes
  <1>4. SessionTypes
    BY EventSubscriptionAssumption DEF Init, SessionTypes
  <1>5. ProxyTypes
    BY <1>1, EventSubscriptionAssumption DEF Init, ProxyTypes, Stamps
  <1> QED BY <1>2, <1>3, <1>4, <1>5 DEF Types

LEMMA NextRevision ==
  ASSUME Types, Head1.rev < MaxRevision \div Head1.gen
  PROVE  Cursor(Head1.gen, Head1.rev + 1) \in Position
  <1>1. /\ Head1.gen \in Nat /\ Head1.gen >= 1 /\ Head1.rev \in Nat /\ MaxRevision \in Nat
        /\ Head1.gen \in 1 .. MaxGeneration
    BY EventSubscriptionAssumption DEF Types, JournalTypes, Position, Revision, Head1
  <1>2. \A m, g \in Nat : g >= 1 => m \div g <= m
    OBVIOUS
  <1>3. MaxRevision \div Head1.gen <= MaxRevision /\ MaxRevision \div Head1.gen \in Int
    BY <1>1, <1>2
  <1>4. Head1.rev + 1 \in Revision
    BY <1>1, <1>3 DEF Revision
  <1> QED BY <1>1, <1>4 DEF Cursor, Position

(* What is retained stays within the journal's size.                       *)
LEMMA AppendedJournal ==
  ASSUME Types, NEW c \in Position, NEW member \in Event \cup {Other}, NEW retain \in BOOLEAN,
         journal' = AppendEntry(journal, c, member, retain, JournalSize)
  PROVE  JournalTypes'
  <1> DEFINE R == [rev : Revision, member : Event \cup {Other}]
             all == IF retain THEN Append(journal.entries, Entry(c.rev, member)) ELSE journal.entries
             excess == Len(all) - Least(Len(all), JournalSize)
             kept == SubSeq(all, excess + 1, Len(all))
  <1>1. Entry(c.rev, member) \in R
    BY DEF Entry, Position
  <1>2. all \in Seq(R)
    <2>1. journal.entries \in Seq(R)
      BY DEF Types, JournalTypes
    <2> HIDE DEF R
    <2> QED BY <1>1, <2>1
  <1>3. /\ Len(all) \in Nat /\ JournalSize \in Nat
        /\ excess \in 0 .. Len(all) /\ Len(all) - excess <= JournalSize
    <2> HIDE DEF all
    <2> QED BY <1>2, EventSubscriptionAssumption DEF Least
  <1>4. kept \in Seq(R) /\ Len(kept) <= JournalSize
    <2> HIDE DEF all, excess, R
    <2> QED BY <1>2, <1>3
  <1>5. DiscardedThrough(journal, all, excess) \in Revision
    <2>1. excess # 0 => all[excess] \in R
      <3> HIDE DEF all, excess, R
      <3> QED BY <1>2, <1>3
    <2> QED BY <2>1 DEF DiscardedThrough, Types, JournalTypes
  <1>6. \/ journal' = journal
        \/ journal' = [head |-> c, discarded |-> DiscardedThrough(journal, all, excess), entries |-> kept]
    BY DEF AppendEntry
  <1> HIDE DEF kept, excess, all, R
  <1> QED BY <1>4, <1>5, <1>6 DEF Types, JournalTypes, R

(* The messages the program makes.                                         *)
LEMMA MessagesAre ==
  /\ \A e \in Event, c \in Position :
       /\ Notice(e, c) \in Deferred /\ [type |-> "property", cursor |-> c] \in Deferred
       /\ [type |-> "attached", cursor |-> c] \in Answer
  /\ \A e \in Wire :
       /\ \A c \in Position : [type |-> "subscribe", event |-> e, after |-> c] \in Request
       /\ [type |-> "unsubscribe", event |-> e] \in Request
       /\ [type |-> "failed", event |-> e] \in Answer /\ [type |-> "unsubscribed", event |-> e] \in Answer
       /\ \A r \in Revision : [type |-> "subscribed", event |-> e, head |-> r] \in Acknowledgement
  /\ [type |-> "attach"] \in Request /\ [type |-> "detach"] \in Request
  /\ Deferred \subseteq Answer /\ Acknowledgement \subseteq Deferred
  BY DEF Notice, Request, Occurrence, Acknowledgement, Deferred, Answer

LEMMA RequestsHave ==
  ASSUME NEW m \in Request
  PROVE  /\ m.type \in {"attach", "detach", "subscribe", "unsubscribe"}
         /\ m.type = "subscribe" => m.event \in Wire /\ m.after \in Position
         /\ m.type = "unsubscribe" => m.event \in Wire
  BY DEF Request

LEMMA AnswersHave ==
  ASSUME NEW m \in Answer
  PROVE  /\ m.type \in {"event", "property", "subscribed", "failed", "unsubscribed", "attached"}
         /\ m.type \in {"event", "property", "subscribed"} => m \in Deferred
         /\ m.type = "event" => m.event \in Event /\ m.cursor \in Position
         /\ m.type \in {"property", "attached"} => m.cursor \in Position
         /\ m.type \in {"subscribed", "failed", "unsubscribed"} => m.event \in Wire
         /\ m.type = "subscribed" => m.head \in Revision
  <1>1. CASE m \in Occurrence
    BY <1>1 DEF Occurrence, Deferred
  <1>2. CASE m \in [type : {"property"}, cursor : Position]
    BY <1>2 DEF Deferred
  <1>3. CASE m \in Acknowledgement
    BY <1>3 DEF Acknowledgement, Deferred
  <1>4. CASE m \in [type : {"failed", "unsubscribed"}, event : Wire]
    BY <1>4
  <1>5. CASE m \in [type : {"attached"}, cursor : Position]
    BY <1>5
  <1> QED BY <1>1, <1>2, <1>3, <1>4, <1>5 DEF Answer, Deferred

LEMMA Received ==
  ASSUME NEW S, NEW q \in Seq(S), q # <<>>
  PROVE  Head(q) \in S /\ Tail(q) \in Seq(S)
  OBVIOUS

(* A turn of the reconciliation, for any event that needs the wire.        *)
LEMMA TurnTypes ==
  ASSUME Types, NEW e \in Wire, Turn(e), cursor' \in Position, eventCursors' \in [Event -> Stamps]
  PROVE  toServer' \in Seq(Request) /\ reconciling' \subseteq Wire
  <1>1. reconciling' \subseteq Wire
    BY DEF Turn, Types, ProxyTypes
  <1>2. Subscription(e) \in Request
    <2>1. (IF eventCursors'[e] = None THEN cursor' ELSE eventCursors'[e]) \in Position
      BY WireIsEvents DEF Stamps
    <2> QED BY <2>1, MessagesAre DEF Subscription
  <1>3. [type |-> "unsubscribe", event |-> e] \in Request
    BY MessagesAre
  <1>4. toServer \in Seq(Request)
    BY DEF Types, MessageTypes
  <1>5. toServer' = toServer \/ \E m \in Request : toServer' = Append(toServer, m)
    BY <1>2, <1>3 DEF Turn
  <1> QED BY <1>1, <1>4, <1>5

LEMMA ReconcileTypes ==
  ASSUME Types, NEW e \in Event, Reconcile(e), cursor' \in Position, eventCursors' \in [Event -> Stamps]
  PROVE  toServer' \in Seq(Request) /\ reconciling' \subseteq Wire
  <1>1. CASE e \in reconciling \/ ~OnWire(e)
    BY <1>1 DEF Reconcile, Types, MessageTypes, ProxyTypes
  <1>2. CASE ~(e \in reconciling \/ ~OnWire(e))
    <2>1. e \in Wire /\ Turn(e)
      BY <1>2 DEF Reconcile, OnWire, Wire
    <2> QED BY <2>1, TurnTypes
  <1> QED BY <1>1, <1>2

LEMMA SessionKept == Types /\ UNCHANGED session /\ attached' \in BOOLEAN => SessionTypes'
  <1> SUFFICES ASSUME Types, UNCHANGED session, attached' \in BOOLEAN PROVE SessionTypes'
    OBVIOUS
  <1>1. connected' = connected /\ sessions' = sessions /\ releases' = releases
    BY DEF session
  <1> QED BY <1>1 DEF Types, SessionTypes

LEMMA ProxyKept == Types /\ UNCHANGED proxy /\ eventSubscriptions' \subseteq Wire => ProxyTypes'
  BY DEF proxy, Types, ProxyTypes

LEMMA ServerKept ==
  Types => attached \in BOOLEAN /\ eventSubscriptions \subseteq Wire
  BY DEF Types, SessionTypes, ProxyTypes

LEMMA ChangeTypes ==
  ASSUME Types, (\E e \in Event : EmitEvent(e)) \/ Modify
  PROVE  Types'
  <1>1. /\ Head1.rev < MaxRevision \div Head1.gen
        /\ \E member \in Event \cup {Other}, retain \in BOOLEAN :
             journal' = AppendEntry(journal, Cursor(Head1.gen, Head1.rev + 1), member, retain, JournalSize)
    <2>1. CASE \E e \in Event : EmitEvent(e)
      <3>1. PICK e \in Event : EmitEvent(e)
        BY <2>1
      <3>2. Advance(e, e \in Historical)
        BY <3>1 DEF EmitEvent
      <3> DEFINE retain == e \in Historical
      <3>3. Advance(e, retain) /\ retain \in BOOLEAN
        BY <3>2
      <3> HIDE DEF retain
      <3> QED BY <3>3 DEF Advance
    <2>2. CASE Modify
      <3>1. Advance(Other, TRUE)
        BY <2>2 DEF Modify
      <3>2. /\ Head1.rev < MaxRevision \div Head1.gen
            /\ journal' = AppendEntry(journal, Cursor(Head1.gen, Head1.rev + 1), Other, TRUE, JournalSize)
        BY <3>1 DEF Advance
      <3>3. Other \in Event \cup {Other} /\ TRUE \in BOOLEAN
        OBVIOUS
      <3> QED BY <3>2, <3>3
    <2> QED BY <2>1, <2>2
  <1>2. JournalTypes'
    BY <1>1, NextRevision, AppendedJournal
  <1>3. MessageTypes'
    <2>1. journal'.head \in Position
      BY <1>2 DEF JournalTypes
    <2>2. CASE \E e \in Event : EmitEvent(e)
      <3>1. PICK e \in Event : EmitEvent(e)
        BY <2>2
      <3>2. Notice(e, journal'.head) \in Answer
        BY <2>1, MessagesAre
      <3>3. toClient' = toClient \/ toClient' = Append(toClient, Notice(e, journal'.head))
        BY <3>1 DEF EmitEvent
      <3>4. UNCHANGED <<toServer, handling, notificationQueue>>
        BY <3>1 DEF EmitEvent
      <3>5. toClient' \in Seq(Answer)
        <4>1. PICK m \in Answer : toClient' = toClient \/ toClient' = Append(toClient, m)
          BY <3>2, <3>3
        <4>2. toClient \in Seq(Answer)
          BY DEF Types, MessageTypes
        <4>3. Append(toClient, m) \in Seq(Answer)
          BY <4>2
        <4> QED BY <4>1, <4>2, <4>3
      <3> QED BY <3>4, <3>5 DEF Types, MessageTypes
    <2>3. CASE Modify
      <3>2. [type |-> "property", cursor |-> journal'.head] \in Answer
        BY <2>1 DEF Answer, Deferred
      <3>3. toClient' = toClient \/ toClient' = Append(toClient, [type |-> "property", cursor |-> journal'.head])
        BY <2>3 DEF Modify
      <3>4. UNCHANGED <<toServer, handling, notificationQueue>>
        BY <2>3 DEF Modify
      <3>5. toClient' \in Seq(Answer)
        <4>1. PICK m \in Answer : toClient' = toClient \/ toClient' = Append(toClient, m)
          BY <3>2, <3>3
        <4>2. toClient \in Seq(Answer)
          BY DEF Types, MessageTypes
        <4>3. Append(toClient, m) \in Seq(Answer)
          BY <4>2
        <4> QED BY <4>1, <4>2, <4>3
      <3> QED BY <3>4, <3>5 DEF Types, MessageTypes
    <2> QED BY <2>2, <2>3
  <1>4. UNCHANGED <<attached, eventSubscriptions, session, proxy>>
    BY DEF EmitEvent, Modify
  <1>5. SessionTypes' /\ ProxyTypes'
    BY <1>4, SessionKept, ProxyKept, ServerKept
  <1> QED BY <1>2, <1>3, <1>5 DEF Types

LEMMA ServerTypes ==
  ASSUME Types, Server
  PROVE  Types'
  <1>1. JournalTypes'
    BY DEF Server, ReceiveRequest, FinishSubscribe, FinishUnsubscribe, FinishAttach, FinishDetach,
           Finishing, Types, JournalTypes
  <1>2. SessionTypes'
    <2>1. UNCHANGED session /\ attached' \in {attached, TRUE, FALSE}
      BY DEF Server, ReceiveRequest, FinishSubscribe, FinishUnsubscribe, FinishAttach, FinishDetach,
             Finishing
    <2> QED BY <2>1, ServerKept, SessionKept
  <1>3. CASE ReceiveRequest
    <2>1. toServer # <<>> /\ toServer \in Seq(Request)
      BY <1>3 DEF ReceiveRequest, Types, MessageTypes
    <2>2. Head(toServer) \in Request /\ Tail(toServer) \in Seq(Request)
      BY <2>1
    <2>3. ~Admitted(Head(toServer)) => Head(toServer).event \in Wire
      BY <2>2, RequestsHave DEF Admitted
    <2>4. CASE Admitted(Head(toServer))
      <3>1. /\ toServer' = Tail(toServer) /\ handling' = Append(handling, Head(toServer))
            /\ UNCHANGED <<toClient, notificationQueue>>
        BY <1>3, <2>4 DEF ReceiveRequest
      <3>2. MessageTypes'
        BY <2>2, <3>1 DEF Types, MessageTypes
      <3>3. ProxyTypes'
        BY <1>3 DEF ReceiveRequest, proxy, Types, ProxyTypes
      <3> QED BY <1>1, <1>2, <3>2, <3>3 DEF Types
    <2>5. CASE ~Admitted(Head(toServer))
      <3>1. /\ toServer' = Tail(toServer)
            /\ toClient' = Append(toClient, [type |-> "failed", event |-> Head(toServer).event])
            /\ UNCHANGED <<handling, notificationQueue>>
        BY <1>3, <2>5 DEF ReceiveRequest, Failed, Reply
      <3>2. [type |-> "failed", event |-> Head(toServer).event] \in Answer
        BY <2>3, <2>5, MessagesAre
      <3>3. MessageTypes'
        BY <2>2, <3>1, <3>2 DEF Types, MessageTypes
      <3>4. ProxyTypes'
        BY <1>3 DEF ReceiveRequest, proxy, Types, ProxyTypes
      <3> QED BY <1>1, <1>2, <3>3, <3>4 DEF Types
    <2> QED BY <2>4, <2>5
  <1>4. CASE FinishSubscribe \/ FinishUnsubscribe \/ FinishAttach \/ FinishDetach
    <2>1. /\ handling # <<>> /\ handling' = Tail(handling) /\ handling \in Seq(Request)
          /\ UNCHANGED <<toServer, notificationQueue>>
      BY <1>4 DEF FinishSubscribe, FinishUnsubscribe, FinishAttach, FinishDetach, Finishing,
                  Types, MessageTypes
    <2>2. Head(handling) \in Request /\ Tail(handling) \in Seq(Request)
      BY <2>1
    <2>3. Head1 \in Position /\ Head1.gen \in 1 .. MaxGeneration /\ Head1.rev \in Revision
      BY CursorsArePositions DEF Types, JournalTypes, Head1
    <2>4. /\ Head(handling).type \in {"subscribe", "unsubscribe"} => Head(handling).event \in Wire
      BY <2>2, RequestsHave
    <2>5. toClient' \in Seq(Answer)
      <3>0. toClient \in Seq(Answer)
        BY DEF Types, MessageTypes
      <3>1. CASE FinishAttach
        <4>1. toClient' = Append(toClient, [type |-> "attached", cursor |-> Head1])
          BY <3>1 DEF FinishAttach, Reply
        <4>2. [type |-> "attached", cursor |-> Head1] \in Answer
          BY <2>3 DEF Answer
        <4> QED BY <3>0, <4>1, <4>2
      <3>2. CASE FinishDetach
        BY <3>0, <3>2 DEF FinishDetach
      <3>3. CASE FinishUnsubscribe
        <4>1. toClient' = Append(toClient, [type |-> "unsubscribed", event |-> Head(handling).event])
          BY <3>3 DEF FinishUnsubscribe, Reply
        <4>2. [type |-> "unsubscribed", event |-> Head(handling).event] \in Answer
          BY <2>4, <3>3, MessagesAre DEF FinishUnsubscribe, Finishing
        <4> QED BY <3>0, <4>1, <4>2
      <3>4. CASE FinishSubscribe
        <4> DEFINE m == Head(handling)
                   a == [type |-> "failed", event |-> m.event]
                   b == [type |-> "subscribed", event |-> m.event, head |-> Head1.rev]
                   replayed == IF m.event \in Historical THEN Replay(m.event, m.after) ELSE <<>>
        <4>1. m.event \in Wire /\ m.event \in Event
          BY <2>4, <3>4, WireIsEvents DEF FinishSubscribe, Finishing
        <4>2. a \in Answer /\ b \in Answer
          BY <2>3, <4>1, MessagesAre
        <4>3. replayed \in Seq(Answer)
          <5>1. [type : {"event"}, event : {m.event}, cursor : Position] \subseteq Answer
            BY <4>1 DEF Answer, Deferred, Occurrence
          <5>2. Replay(m.event, m.after) \in Seq([type : {"event"}, event : {m.event}, cursor : Position])
            BY <2>3, <4>1, ReplayIs
          <5> DEFINE E == [type : {"event"}, event : {m.event}, cursor : Position]
          <5>3. Replay(m.event, m.after) \in Seq(Answer)
            <6> DEFINE r == Replay(m.event, m.after)
            <6>1. E \subseteq Answer /\ r \in Seq(E)
              BY <5>1, <5>2
            <6> HIDE DEF E, r
            <6>2. r \in Seq(Answer)
              BY <6>1, SubsetSequence
            <6> QED BY <6>2 DEF r
          <5> QED BY <5>3
        <4>4. toClient' = Append(toClient, a) \/ toClient' = (toClient \o replayed) \o <<b>>
          BY <3>4 DEF FinishSubscribe, Failed, Reply
        <4> HIDE DEF m, a, b, replayed
        <4>5. toClient \o replayed \in Seq(Answer) /\ <<b>> \in Seq(Answer)
          BY <3>0, <4>2, <4>3
        <4>6. Append(toClient, a) \in Seq(Answer)
          BY <3>0, <4>2
        <4>7. (toClient \o replayed) \o <<b>> \in Seq(Answer)
          BY <4>5
        <4> QED BY <4>4, <4>6, <4>7
      <3> QED BY <1>4, <3>1, <3>2, <3>3, <3>4
    <2>6. MessageTypes'
      BY <2>1, <2>2, <2>5 DEF Types, MessageTypes
    <2>7. ProxyTypes'
      <3>1. eventSubscriptions' \subseteq Wire
        BY <1>4, <2>4 DEF FinishSubscribe, FinishUnsubscribe, FinishAttach, FinishDetach, Finishing,
                          Types, ProxyTypes
      <3>2. UNCHANGED proxy
        BY <1>4 DEF FinishSubscribe, FinishUnsubscribe, FinishAttach, FinishDetach, Finishing
      <3> QED BY <3>1, <3>2 DEF proxy, Types, ProxyTypes
    <2> QED BY <1>1, <1>2, <2>6, <2>7 DEF Types
  <1> QED BY <1>3, <1>4 DEF Server

LEMMA PropertiesOfTypes ==
  ASSUME Types
  PROVE  /\ toServer \in Seq(Request) /\ handling \in Seq(Request)
         /\ toClient \in Seq(Answer) /\ notificationQueue \in Seq(Deferred)
         /\ cursor \in Position /\ eventCursors \in [Event -> Stamps]
         /\ listeners \in [Event -> 0 .. MaxListener]
         /\ subscribedEvents \subseteq Wire /\ reconciling \subseteq Wire
         /\ tracked \in BOOLEAN
  BY DEF Types, MessageTypes, ProxyTypes

LEMMA ListenerTypes ==
  ASSUME Types, NEW e \in Event, On(e) \/ Off(e) \/ \E r \in Revision : OnFrom(e, r)
  PROVE  Types'
  <1>1. UNCHANGED <<server, toClient, session, notificationQueue, tracked, cursor, subscribedEvents>>
    BY DEF On, Off, OnFrom
  <1>2. cursor' \in Position /\ eventCursors' \in [Event -> Stamps]
    <2>1. CASE On(e) \/ Off(e)
      BY <1>1, <2>1, PropertiesOfTypes DEF On, Off
    <2>2. CASE \E r \in Revision : OnFrom(e, r)
      <3>1. PICK r \in Revision : eventCursors' = [eventCursors EXCEPT ![e] = Cursor(cursor.gen, r)]
        BY <2>2 DEF OnFrom
      <3>2. Cursor(cursor.gen, r) \in Stamps
        BY CursorsArePositions, PropertiesOfTypes DEF Stamps
      <3> QED BY <1>1, <3>1, <3>2, PropertiesOfTypes
    <2> QED BY <2>1, <2>2
  <1>3. listeners' \in [Event -> 0 .. MaxListener]
    <2>1. listeners[e] \in 0 .. MaxListener /\ MaxListener \in Nat
      BY PropertiesOfTypes, EventSubscriptionAssumption
    <2>2. \E n \in 0 .. MaxListener : listeners' = [listeners EXCEPT ![e] = n]
      <3>1. CASE listeners[e] < MaxListener /\ listeners' = [listeners EXCEPT ![e] = listeners[e] + 1]
        <4> DEFINE n == listeners[e] + 1
        <4>1. n \in 0 .. MaxListener
          BY <2>1, <3>1
        <4>2. listeners' = [listeners EXCEPT ![e] = n]
          BY <3>1
        <4> HIDE DEF n
        <4> QED BY <4>1, <4>2
      <3>2. CASE listeners[e] > 0 /\ listeners' = [listeners EXCEPT ![e] = listeners[e] - 1]
        <4> DEFINE n == listeners[e] - 1
        <4>1. n \in 0 .. MaxListener
          BY <2>1, <3>2
        <4>2. listeners' = [listeners EXCEPT ![e] = n]
          BY <3>2
        <4> HIDE DEF n
        <4> QED BY <4>1, <4>2
      <3> QED BY <3>1, <3>2 DEF On, Off, OnFrom
    <2> QED BY <2>2, PropertiesOfTypes
  <1>4. Reconcile(e)
    BY DEF On, Off, OnFrom
  <1>5. toServer' \in Seq(Request) /\ reconciling' \subseteq Wire
    BY <1>2, <1>4, ReconcileTypes
  <1>6. JournalTypes' /\ MessageTypes'
    BY <1>1, <1>5 DEF server, Types, JournalTypes, MessageTypes
  <1>7. attached' \in BOOLEAN /\ eventSubscriptions' \subseteq Wire /\ UNCHANGED session
    BY <1>1, ServerKept DEF server
  <1>8. ProxyTypes'
    BY <1>1, <1>2, <1>3, <1>5, <1>7, PropertiesOfTypes DEF ProxyTypes
  <1> QED BY <1>6, <1>7, <1>8, SessionKept DEF Types

LEMMA FrameTypes ==
  ASSUME Types, ReceiveNotification \/ ReceiveSubscribed \/ ReceiveUnsubscribed \/ ReceiveFailed
  PROVE  Types'
  <1>1. /\ toClient # <<>> /\ toClient' = Tail(toClient) /\ UNCHANGED <<server, session>>
    BY DEF ReceiveNotification, ReceiveSubscribed, ReceiveUnsubscribed, ReceiveFailed, Frame
  <1>2. Head(toClient) \in Answer /\ Tail(toClient) \in Seq(Answer)
    BY <1>1, PropertiesOfTypes, Received
  <1>3. notificationQueue' \in Seq(Deferred)
    <2>1. CASE ReceiveNotification \/ ReceiveSubscribed
      <3>1. Head(toClient) \in Deferred
        BY <1>2, <2>1, AnswersHave DEF ReceiveNotification, ReceiveSubscribed, Frame
      <3>2. notificationQueue' = Append(notificationQueue, Head(toClient))
        BY <2>1 DEF ReceiveNotification, ReceiveSubscribed, Queued, Barrier
      <3> QED BY <3>1, <3>2, PropertiesOfTypes
    <2>2. CASE ReceiveUnsubscribed \/ ReceiveFailed
      BY <2>2, PropertiesOfTypes DEF ReceiveUnsubscribed, ReceiveFailed
    <2> QED BY <2>1, <2>2
  <1>4. /\ UNCHANGED <<tracked, cursor, eventCursors, listeners>>
        /\ subscribedEvents' \subseteq Wire /\ reconciling' \subseteq Wire /\ toServer' \in Seq(Request)
    <2>1. CASE ReceiveNotification \/ ReceiveSubscribed
      BY <2>1, PropertiesOfTypes DEF ReceiveNotification, ReceiveSubscribed, proxy
    <2>2. CASE ReceiveFailed
      BY <2>2, PropertiesOfTypes DEF ReceiveFailed, Abandon
    <2>3. CASE ReceiveUnsubscribed
      <3>1. /\ UNCHANGED <<tracked, cursor, eventCursors, listeners>> /\ Turn(Head(toClient).event)
            /\ subscribedEvents' \subseteq subscribedEvents /\ Head(toClient).type = "unsubscribed"
        BY <2>3 DEF ReceiveUnsubscribed, Frame
      <3>2. Head(toClient).event \in Wire
        BY <1>2, <3>1, AnswersHave
      <3> QED BY <3>1, <3>2, PropertiesOfTypes, TurnTypes
    <2> QED BY <2>1, <2>2, <2>3
  <1>5. JournalTypes' /\ MessageTypes'
    BY <1>1, <1>2, <1>3, <1>4 DEF server, Types, JournalTypes, MessageTypes
  <1>6. attached' \in BOOLEAN /\ eventSubscriptions' \subseteq Wire
    BY <1>1, ServerKept DEF server
  <1>7. ProxyTypes'
    BY <1>4, <1>6, PropertiesOfTypes DEF ProxyTypes
  <1> QED BY <1>1, <1>5, <1>6, <1>7, SessionKept DEF Types

LEMMA ProcessTypes ==
  ASSUME Types, ProcessNotification
  PROVE  Types'
  <1> DEFINE m == Head(notificationQueue)
  <1>1. /\ notificationQueue # <<>> /\ notificationQueue' = Tail(notificationQueue)
        /\ UNCHANGED <<server, toClient, session, tracked, listeners>>
    BY DEF ProcessNotification
  <1>2. m \in Deferred /\ Tail(notificationQueue) \in Seq(Deferred) /\ m \in Answer
    BY <1>1, PropertiesOfTypes, Received, MessagesAre
  <1>3. /\ m.type \in {"event", "property", "subscribed"}
        /\ m.type = "event" => m.event \in Event /\ m.cursor \in Position
        /\ m.type = "property" => m.cursor \in Position
        /\ m.type = "subscribed" => m.event \in Wire
    BY <1>2 DEF Deferred, Occurrence, Acknowledgement
  <1>4. /\ cursor' \in Position /\ eventCursors' \in [Event -> Stamps]
        /\ subscribedEvents' \subseteq Wire /\ reconciling' \subseteq Wire /\ toServer' \in Seq(Request)
    <2>1. CASE m.type = "property"
      <3>1. /\ cursor' \in {cursor, m.cursor}
            /\ UNCHANGED <<eventCursors, subscribedEvents, reconciling, toServer>>
        BY <2>1 DEF ProcessNotification, Observe
      <3> QED BY <1>3, <2>1, <3>1, PropertiesOfTypes
    <2>2. CASE m.type = "event" /\ ~(tracked /\ Applies(m.event, m.cursor))
      BY <2>2, PropertiesOfTypes DEF ProcessNotification
    <2>3. CASE m.type = "event" /\ tracked /\ Applies(m.event, m.cursor)
      <3>1. /\ cursor' \in {cursor, m.cursor}
            /\ eventCursors' = [eventCursors EXCEPT ![m.event] = m.cursor]
            /\ UNCHANGED <<subscribedEvents, reconciling, toServer>>
        BY <2>3 DEF ProcessNotification, Observe
      <3>2. m.cursor \in Stamps
        BY <1>3, <2>3 DEF Stamps
      <3> QED BY <1>3, <2>3, <3>1, <3>2, PropertiesOfTypes
    <2>4. CASE m.type = "subscribed"
      <3>1. /\ UNCHANGED <<cursor, eventCursors>> /\ Turn(m.event)
            /\ subscribedEvents' = subscribedEvents \cup {m.event}
        BY <2>4 DEF ProcessNotification
      <3> QED BY <1>3, <2>4, <3>1, PropertiesOfTypes, TurnTypes
    <2> QED BY <1>3, <2>1, <2>2, <2>3, <2>4
  <1>5. JournalTypes' /\ MessageTypes'
    BY <1>1, <1>2, <1>4 DEF server, Types, JournalTypes, MessageTypes
  <1>6. attached' \in BOOLEAN /\ eventSubscriptions' \subseteq Wire
    BY <1>1, ServerKept DEF server
  <1>7. ProxyTypes'
    BY <1>1, <1>4, <1>6, PropertiesOfTypes DEF ProxyTypes
  <1> QED BY <1>1, <1>5, <1>6, <1>7, SessionKept DEF Types

LEMMA DropTypes ==
  ASSUME Types, Disconnect \/ Restart
  PROVE  Types'
  <1>1. /\ connected /\ Fault /\ DropConnection
        /\ journal' = journal \/ (Head1.gen < MaxGeneration /\ journal' = EmptyJournal(Cursor(Head1.gen + 1, 0)))
    BY DEF Disconnect, Restart
  <1>2. JournalTypes'
    <2>1. CASE journal' = journal
      BY <2>1 DEF Types, JournalTypes
    <2>2. CASE Head1.gen < MaxGeneration /\ journal' = EmptyJournal(Cursor(Head1.gen + 1, 0))
      <3>1. Head1.gen \in 1 .. MaxGeneration /\ MaxGeneration \in Nat
        BY CursorsArePositions, EventSubscriptionAssumption DEF Types, JournalTypes, Head1
      <3>2. 0 \in Revision /\ 0 <= JournalSize /\ Head1.gen + 1 \in 1 .. MaxGeneration
        BY <2>2, <3>1, EventSubscriptionAssumption DEF Revision
      <3>3. Cursor(Head1.gen + 1, 0) \in Position
        BY <3>2, CursorsArePositions
      <3> QED BY <2>2, <3>2, <3>3 DEF EmptyJournal, JournalTypes
    <2> QED BY <1>1, <2>1, <2>2
  <1>3. MessageTypes'
    BY <1>1 DEF DropConnection, MessageTypes
  <1>4. SessionTypes'
    <2>1. /\ connected' = FALSE /\ attached' = FALSE /\ UNCHANGED <<sessions, releases>>
          /\ sessions - 1 + releases < MaxFault
      BY <1>1 DEF DropConnection, Fault
    <2>2. sessions \in Nat \ {0} /\ releases \in Nat /\ MaxFault \in Nat
      BY EventSubscriptionAssumption DEF Types, SessionTypes
    <2>3. sessions - 1 + releases + 1 <= MaxFault
      BY <2>1, <2>2
    <2>4. sessions' - 1 + releases' + (IF connected' THEN 0 ELSE 1) <= MaxFault
      BY <2>1, <2>3
    <2> QED BY <2>1, <2>2, <2>4 DEF SessionTypes
  <1>5. ProxyTypes'
    <2>1. \A m \in ToSet(notificationQueue) : m.type = "subscribed" => m.event \in Wire
      <3>1. \A m \in Deferred : m.type = "subscribed" => m.event \in Wire
        BY MessagesAre, AnswersHave
      <3>2. \A m \in ToSet(notificationQueue) : m \in Deferred
        BY PropertiesOfTypes DEF ToSet
      <3> QED BY <3>1, <3>2
    <2>2. /\ UNCHANGED <<tracked, cursor, eventCursors, listeners>>
          /\ eventSubscriptions' = {} /\ reconciling' = {}
          /\ subscribedEvents' = subscribedEvents \cup
               {m.event : m \in {x \in ToSet(notificationQueue) : x.type = "subscribed"}}
      BY <1>1 DEF DropConnection
    <2> QED BY <2>1, <2>2, PropertiesOfTypes DEF ProxyTypes
  <1> QED BY <1>2, <1>3, <1>4, <1>5 DEF Types

LEMMA ReconnectTypes ==
  ASSUME Types, Reconnect
  PROVE  Types'
  <1>1. /\ toServer' \in {<<[type |-> "attach"]>>, <<>>}
        /\ UNCHANGED <<server, toClient, releases, proxy, notificationQueue>>
        /\ ~connected /\ connected' = TRUE /\ sessions' = sessions + 1
    BY DEF Reconnect
  <1>2. toServer' \in Seq(Request)
    <2>1. PICK a \in Request : a = [type |-> "attach"]
      BY MessagesAre
    <2>2. toServer' = <<a>> \/ toServer' = <<>>
      BY <1>1, <2>1
    <2>3. <<a>> \in Seq(Request) /\ <<>> \in Seq(Request)
      OBVIOUS
    <2> QED BY <2>2, <2>3
  <1>3. JournalTypes' /\ MessageTypes'
    BY <1>1, <1>2 DEF server, Types, JournalTypes, MessageTypes
  <1>4. SessionTypes'
    <2>1. attached' \in BOOLEAN /\ connected' \in BOOLEAN
      BY <1>1, ServerKept DEF server
    <2>2. sessions' \in Nat \ {0} /\ releases' \in Nat /\ sessions' - 1 + releases' <= MaxFault
      BY <1>1, EventSubscriptionAssumption DEF Types, SessionTypes
    <2> QED BY <1>1, <2>1, <2>2, EventSubscriptionAssumption DEF SessionTypes
  <1>5. ProxyTypes'
    BY <1>1, ServerKept, ProxyKept DEF server
  <1> QED BY <1>3, <1>4, <1>5 DEF Types

(* Where a subscription resumes the event.                                 *)
ResumedFrom(e) == IF eventCursors'[e] = None THEN cursor' ELSE eventCursors'[e]

(* Resubscribing asks for every event with listeners that needs the wire.  *)
LEMMA ResubscribeIs ==
  ASSUME Types, Resubscribe, cursor' \in Position, eventCursors' \in [Event -> Stamps]
  PROVE  /\ subscribedEvents' = {} /\ reconciling' = {e \in Event : OnWire(e) /\ Wanted(e)}
         /\ reconciling' \subseteq Wire
         /\ \E r \in Seq(Request) : /\ toServer' = toServer \o r
                                    /\ \A i \in DOMAIN r : r[i].type = "subscribe"
                                    /\ \A i \in DOMAIN r : r[i].after = ResumedFrom(r[i].event)
  <1> DEFINE again == {e \in Event : OnWire(e) /\ Wanted(e)}
             n == Cardinality(again)
             r == [i \in 1 .. n |-> Subscription(SetToSeq(again)[i])]
  <1>1. again \subseteq Wire /\ IsFiniteSet(again)
    <2>1. again \in SUBSET Wire
      BY DEF OnWire, Wire
    <2> HIDE DEF again
    <2> QED BY <2>1, WireIsEvents, FS_Subset
  <1>2. subscribedEvents' = {} /\ reconciling' = again /\ toServer' = toServer \o r
    BY DEF Resubscribe
  <1>3. \A e \in Wire : /\ Subscription(e) \in Request /\ Subscription(e).type = "subscribe"
                        /\ Subscription(e).after = ResumedFrom(Subscription(e).event)
    <2> SUFFICES ASSUME NEW e \in Wire
                 PROVE  /\ Subscription(e) \in Request /\ Subscription(e).type = "subscribe"
                        /\ Subscription(e).after = ResumedFrom(Subscription(e).event)
      OBVIOUS
    <2>1. (IF eventCursors'[e] = None THEN cursor' ELSE eventCursors'[e]) \in Position
      BY WireIsEvents DEF Stamps
    <2>2. Subscription(e).event = e /\ Subscription(e).after = ResumedFrom(e)
      BY DEF Subscription, ResumedFrom
    <2> QED BY <2>1, <2>2, MessagesAre DEF Subscription
  <1>4. n \in Nat /\ \A i \in 1 .. n : SetToSeq(again)[i] \in Wire
    <2> HIDE DEF again
    <2> QED BY <1>1, SetToSeqIs
  <1>5. /\ r \in [1 .. n -> Request]
        /\ \A i \in 1 .. n : r[i].type = "subscribe" /\ r[i].after = ResumedFrom(r[i].event)
    <2> HIDE DEF again, n
    <2> QED BY <1>3, <1>4
  <1>6. r \in Seq(Request) /\ DOMAIN r = 1 .. n
    <2> HIDE DEF n, r
    <2> QED BY <1>4, <1>5, IsSequence
  <1> HIDE DEF again, n, r
  <1>7. \A i \in DOMAIN r : r[i].type = "subscribe" /\ r[i].after = ResumedFrom(r[i].event)
    BY <1>5, <1>6
  <1> QED BY <1>1, <1>2, <1>6, <1>7 DEF again

LEMMA AttachedTypes ==
  ASSUME Types, ReceiveAttached
  PROVE  Types'
  <1> DEFINE c == Head(toClient).cursor
  <1>1. /\ toClient # <<>> /\ Head(toClient).type = "attached" /\ toClient' = Tail(toClient)
        /\ UNCHANGED <<server, session, listeners, notificationQueue>> /\ tracked' = TRUE
        /\ cursor' = c
    BY DEF ReceiveAttached, Frame
  <1>2. Head(toClient) \in Answer /\ Tail(toClient) \in Seq(Answer)
    BY <1>1, PropertiesOfTypes, Received
  <1>3. c \in Position
    BY <1>1, <1>2, AnswersHave
  <1>4. eventCursors' \in [Event -> Stamps]
    <2>1. c \in Stamps /\ None \in Stamps
      BY <1>3 DEF Stamps
    <2>2. eventCursors' \in {Replace(c), [e \in Event |-> None]}
      BY DEF ReceiveAttached
    <2> HIDE DEF c
    <2> QED BY <2>1, <2>2, PropertiesOfTypes DEF Replace
  <1>5. subscribedEvents' \subseteq Wire /\ reconciling' \subseteq Wire /\ toServer' \in Seq(Request)
    <2>1. CASE tracked
      <3>1. Resubscribe
        BY <2>1 DEF ReceiveAttached
      <3>2. PICK r \in Seq(Request) : toServer' = toServer \o r
        BY <1>1, <1>3, <1>4, <3>1, ResubscribeIs
      <3>3. toServer \o r \in Seq(Request)
        BY PropertiesOfTypes
      <3> QED BY <1>1, <1>3, <1>4, <3>1, <3>2, <3>3, ResubscribeIs
    <2>2. CASE ~tracked
      BY <2>2, PropertiesOfTypes DEF ReceiveAttached
    <2> QED BY <2>1, <2>2
  <1>6. JournalTypes' /\ MessageTypes'
    BY <1>1, <1>2, <1>5 DEF server, Types, JournalTypes, MessageTypes
  <1>7. attached' \in BOOLEAN /\ eventSubscriptions' \subseteq Wire
    BY <1>1, ServerKept DEF server
  <1>8. ProxyTypes'
    BY <1>1, <1>3, <1>4, <1>5, <1>7, PropertiesOfTypes DEF ProxyTypes
  <1> QED BY <1>1, <1>6, <1>7, <1>8, SessionKept DEF Types

LEMMA ReleaseTypes ==
  ASSUME Types, Release \/ Attach
  PROVE  Types'
  <1>1. \E m \in Request : toServer' = Append(toServer, m)
    <2>1. toServer' = Append(toServer, [type |-> "attach"]) \/ toServer' = Append(toServer, [type |-> "detach"])
      BY DEF Release, Attach
    <2> QED BY <2>1, MessagesAre
  <1>2. UNCHANGED <<server, toClient, notificationQueue>>
    BY DEF Release, Attach
  <1>3. JournalTypes' /\ MessageTypes'
    BY <1>1, <1>2 DEF server, Types, JournalTypes, MessageTypes
  <1>4. attached' \in BOOLEAN /\ eventSubscriptions' \subseteq Wire
    BY <1>2, ServerKept DEF server
  <1>5. SessionTypes'
    <2>1. CASE Attach
      BY <1>4, <2>1, SessionKept DEF Attach
    <2>2. CASE Release
      <3>1. /\ connected /\ connected' = connected /\ sessions' = sessions /\ releases' = releases + 1
            /\ sessions - 1 + releases < MaxFault
        BY <2>2 DEF Release, Fault
      <3> QED BY <1>4, <3>1, EventSubscriptionAssumption DEF Types, SessionTypes
    <2> QED BY <2>1, <2>2
  <1>6. ProxyTypes'
    <2>1. CASE Attach
      BY <1>4, <2>1, ProxyKept DEF Attach
    <2>2. CASE Release
      <3>1. /\ tracked' = FALSE /\ listeners' = [e \in Event |-> 0] /\ subscribedEvents' = {}
            /\ UNCHANGED <<cursor, eventCursors, reconciling>>
        BY <2>2 DEF Release
      <3>2. 0 \in 0 .. MaxListener
        BY EventSubscriptionAssumption
      <3> QED BY <1>4, <3>1, <3>2, PropertiesOfTypes DEF ProxyTypes
    <2> QED BY <2>1, <2>2
  <1> QED BY <1>3, <1>5, <1>6 DEF Types

(* Every variable and every message in flight has its type, and no more    *)
(* sessions and releases have been than faults.                            *)
THEOREM TypesInvariance == Spec => []Types
  <1>1. Types /\ [Next]_vars => Types'
    <2> SUFFICES ASSUME Types, [Next]_vars PROVE Types'
      OBVIOUS
    <2>1. CASE UNCHANGED vars
      BY <2>1 DEF vars, server, session, proxy, Types, JournalTypes, MessageTypes, SessionTypes, ProxyTypes
    <2>2. CASE Next
      BY <2>2, ChangeTypes, ServerTypes, ListenerTypes, FrameTypes, ProcessTypes, DropTypes,
         ReconnectTypes, AttachedTypes, ReleaseTypes
         DEF Next, Client, Application
    <2> QED BY <2>1, <2>2
  <1> QED BY InitTypes, <1>1, PTL DEF Spec

(* Every variable holds what the code can put there: revisions within the  *)
(* bound, a journal within maximumEntriesPerResource, subscriptions and    *)
(* reconciliations only of events that need the wire.                      *)
THEOREM TypeCorrect == Spec => []TypeOK
  BY TypesInvariance, TypesImplyTypeOK, PTL

-----------------------------------------------------------------------------
(* The session: who is attached, and in what order that is said.           *)

Wishes == {"subscribe", "unsubscribe"}
Verdicts == {"subscribed", "unsubscribed"}

(* An attachment is asked for, or granted and not yet taken notice of.     *)
Asked == Has(toServer, "attach") \/ Has(handling, "attach")
Told == Has(toClient, "attached")
Reattaching == Asked \/ Told

OneAttach ==
    /\ AtMostOne(toServer, "attach") /\ AtMostOne(handling, "attach") /\ AtMostOne(toClient, "attached")
    /\ ~Has(toServer, "attach") \/ ~Has(handling, "attach")
    /\ ~Asked \/ ~Told

Silent ==
    ~connected => /\ toServer = <<>> /\ handling = <<>> /\ toClient = <<>> /\ notificationQueue = <<>>
                  /\ eventSubscriptions = {} /\ ~attached /\ reconciling = {}

(* Nothing about events is asked or answered ahead of the attachment.      *)
AttachFirst ==
    /\ \A u \in Wishes : Before(handling, "attach", u) /\ Before(toServer, "attach", u)
    /\ \A u \in Wishes : Has(toServer, "attach") => ~Has(handling, u)
    /\ \A u \in Verdicts : /\ Asked => ~Has(toClient, u)
                           /\ Before(toClient, "attached", u)
    /\ Reattaching => ~Has(notificationQueue, "subscribed")

(* A proxy is released before it is attached again, never after.           *)
DetachFirst ==
    /\ Before(handling, "detach", "attach") /\ Before(toServer, "detach", "attach")
    /\ Has(toServer, "detach") => ~Has(handling, "attach")
    /\ tracked \/ Told => ~Has(toServer, "detach") /\ ~Has(handling, "detach")
    /\ Told => attached
    /\ connected /\ tracked /\ ~Reattaching => attached

(* A released proxy has nothing under way.                                 *)
Untracked ==
    /\ releases = 0 => tracked
    /\ ~tracked =>
         /\ subscribedEvents = {} /\ reconciling = {} /\ \A e \in Event : listeners[e] = 0
         /\ \A u \in Wishes : ~Has(toServer, u) /\ ~Has(handling, u)
         /\ \A u \in Verdicts \cup {"failed"} : ~Has(toClient, u)
         /\ ~Has(notificationQueue, "subscribed")

Link == OneAttach /\ Silent /\ AttachFirst /\ DetachFirst /\ Untracked

Sent(t, e) ==
    \E m \in Request : m.type = t /\ m.event = e /\ Added(toServer, m, toServer')

(* A turn of the reconciliation ends it, or asks for what is missing.      *)
Turned(e) ==
    \/ /\ reconciling' = reconciling \ {e} /\ toServer' = toServer
       /\ ~connected \/ (listeners'[e] > 0 <=> e \in subscribedEvents')
    \/ /\ connected /\ reconciling' = reconciling \cup {e}
       /\ listeners'[e] > 0 /\ e \notin subscribedEvents' /\ Sent("subscribe", e)
    \/ /\ connected /\ reconciling' = reconciling \cup {e}
       /\ ~(listeners'[e] > 0) /\ e \in subscribedEvents' /\ Sent("unsubscribe", e)

LEMMA TurnSends ==
  ASSUME Types, NEW e \in Wire, Turn(e), cursor' \in Position, eventCursors' \in [Event -> Stamps]
  PROVE  Turned(e)
  <1>1. toServer \in Seq(Request)
    BY PropertiesOfTypes
  <1>2. Subscription(e) \in Request /\ Subscription(e).type = "subscribe" /\ Subscription(e).event = e
    <2>1. (IF eventCursors'[e] = None THEN cursor' ELSE eventCursors'[e]) \in Position
      BY WireIsEvents DEF Stamps
    <2> QED BY <2>1, MessagesAre DEF Subscription
  <1>3. PICK m \in Request : m = [type |-> "unsubscribe", event |-> e]
    BY MessagesAre
  <1>4. m.type = "unsubscribe" /\ m.event = e
    BY <1>3
  <1>5. toServer' = Append(toServer, Subscription(e)) => Sent("subscribe", e)
    BY <1>1, <1>2, AppendAdds DEF Sent
  <1>6. toServer' = Append(toServer, m) => Sent("unsubscribe", e)
    BY <1>1, <1>4, AppendAdds DEF Sent
  <1>7. CASE (listeners'[e] > 0 <=> e \in subscribedEvents') \/ ~connected
    BY <1>7 DEF Turn, Turned
  <1>8. CASE ~((listeners'[e] > 0 <=> e \in subscribedEvents') \/ ~connected)
    <2>1. /\ connected /\ reconciling' = reconciling \cup {e}
          /\ toServer' = Append(toServer, IF listeners'[e] > 0 THEN Subscription(e) ELSE m)
      BY <1>3, <1>8 DEF Turn
    <2>2. CASE listeners'[e] > 0
      BY <1>5, <1>8, <2>1, <2>2 DEF Turned
    <2>3. CASE ~(listeners'[e] > 0)
      BY <1>6, <1>8, <2>1, <2>3 DEF Turned
    <2> QED BY <2>2, <2>3
  <1> QED BY <1>7, <1>8

LEMMA InitLink == Init => Link
  BY NothingHeld, EventSubscriptionAssumption
     DEF Init, Link, OneAttach, Silent, AttachFirst, DetachFirst, Untracked, Asked, Told, Reattaching

(* A notification is no answer.                                            *)
LEMMA ChangeIsTold ==
  ASSUME Types, Types', (\E e \in Event : EmitEvent(e)) \/ Modify
  PROVE  \/ toClient' = toClient
         \/ attached /\ \E m \in Answer : m.type \in {"event", "property"} /\ Added(toClient, m, toClient')
  <1>1. toClient \in Seq(Answer) /\ journal'.head \in Position
    BY PropertiesOfTypes DEF Types, JournalTypes
  <1>2. CASE \E e \in Event : EmitEvent(e)
    <2>1. PICK e \in Event : EmitEvent(e)
      BY <1>2
    <2>2. Notice(e, journal'.head) \in Answer /\ Notice(e, journal'.head).type = "event"
      BY <1>1, MessagesAre DEF Notice
    <2> QED BY <1>1, <2>1, <2>2, AppendAdds DEF EmitEvent, Delivers
  <1>3. CASE Modify
    <2>1. PICK m \in Answer : m = [type |-> "property", cursor |-> journal'.head]
      BY <1>1 DEF Answer, Deferred
    <2>2. m.type = "property"
      BY <2>1
    <2>3. toClient' = toClient \/ (attached /\ toClient' = Append(toClient, m))
      BY <1>3, <2>1 DEF Modify
    <2> QED BY <1>1, <2>2, <2>3, AppendAdds
  <1> QED BY <1>2, <1>3

LEMMA ChangeKeepsLink ==
  ASSUME Types, Types', Link, (\E e \in Event : EmitEvent(e)) \/ Modify
  PROVE  Link'
  <1>1. UNCHANGED <<attached, eventSubscriptions, handling, toServer, session, proxy, notificationQueue>>
    BY DEF EmitEvent, Modify
  <1>2. \/ toClient' = toClient
        \/ attached /\ \E m \in Answer : m.type \in {"event", "property"} /\ Added(toClient, m, toClient')
    BY ChangeIsTold
  <1>3. CASE toClient' = toClient
    BY <1>1, <1>3 DEF session, proxy, Link, OneAttach, Silent, AttachFirst, DetachFirst, Untracked,
                      Asked, Told, Reattaching
  <1>4. CASE attached /\ \E m \in Answer : m.type \in {"event", "property"} /\ Added(toClient, m, toClient')
    <2>1. PICK m \in Answer : m.type \in {"event", "property"} /\ Added(toClient, m, toClient')
      BY <1>4
    <2>2. /\ \A t \in Verdicts \cup {"attached", "failed"} : Has(toClient', t) <=> Has(toClient, t)
          /\ AtMostOne(toClient, "attached") => AtMostOne(toClient', "attached")
          /\ \A u \in Verdicts : Before(toClient, "attached", u) => Before(toClient', "attached", u)
      BY <2>1 DEF Added, Verdicts
    <2> QED BY <1>1, <1>4, <2>2 DEF session, proxy, Link, OneAttach, Silent, AttachFirst, DetachFirst,
                      Untracked, Asked, Told, Reattaching
  <1> QED BY <1>2, <1>3, <1>4

(* A request is admitted to its await, or refused.                         *)
LEMMA RequestMoves ==
  ASSUME Types, ReceiveRequest
  PROVE  /\ Head(toServer) \in Request /\ Taken(toServer, Head(toServer), toServer')
         /\ UNCHANGED <<attached, eventSubscriptions, session, proxy, notificationQueue>>
         /\ \/ /\ Admitted(Head(toServer)) /\ toClient' = toClient
               /\ Added(handling, Head(toServer), handling')
            \/ /\ ~Admitted(Head(toServer)) /\ handling' = handling
               /\ Head(toServer).type \in Wishes
               /\ \E a \in Answer : /\ a.type = "failed" /\ a.event = Head(toServer).event
                                    /\ Added(toClient, a, toClient')
  <1> DEFINE m == Head(toServer)
  <1>1. /\ toServer # <<>> /\ toServer' = Tail(toServer) /\ toServer \in Seq(Request)
        /\ handling \in Seq(Request) /\ toClient \in Seq(Answer)
        /\ UNCHANGED <<attached, eventSubscriptions, session, proxy, notificationQueue>>
        /\ IF Admitted(m) THEN handling' = Append(handling, m) /\ UNCHANGED toClient
                          ELSE Failed(m) /\ UNCHANGED handling
    BY PropertiesOfTypes DEF ReceiveRequest
  <1>2. m \in Request /\ Taken(toServer, m, toServer')
    BY <1>1, Received, TailTakes
  <1>3. CASE Admitted(m)
    BY <1>1, <1>2, <1>3, AppendAdds
  <1>4. CASE ~Admitted(m)
    <2>1. m.type \in Wishes /\ m.event \in Wire
      BY <1>2, <1>4, RequestsHave DEF Admitted, Wishes
    <2>2. PICK a \in Answer : a = [type |-> "failed", event |-> m.event]
      BY <2>1, MessagesAre
    <2>3. a.type = "failed" /\ a.event = m.event
      BY <2>2
    <2>4. toClient' = Append(toClient, a) /\ handling' = handling
      BY <1>1, <1>4, <2>2 DEF Failed, Reply
    <2>5. Added(toClient, a, toClient')
      BY <1>1, <2>4, AppendAdds
    <2> QED BY <1>1, <1>2, <1>4, <2>1, <2>3, <2>4, <2>5
  <1> QED BY <1>3, <1>4

LEMMA SilentMeansConnected ==
  ASSUME Silent, ~(toServer = <<>> /\ handling = <<>> /\ toClient = <<>> /\ notificationQueue = <<>>)
  PROVE  connected
  BY DEF Silent

LEMMA RequestKeepsLink ==
  ASSUME Types, Link, ReceiveRequest
  PROVE  Link'
  <1> DEFINE m == Head(toServer)
  <1>1. /\ m \in Request /\ Taken(toServer, m, toServer')
        /\ UNCHANGED <<attached, eventSubscriptions, session, proxy, notificationQueue>>
    BY RequestMoves
  <1>2. connected /\ connected' = connected
    BY <1>1, SilentMeansConnected DEF ReceiveRequest, Link, session
  <1>3. UNCHANGED <<releases, tracked, subscribedEvents, reconciling, listeners, connected>>
    BY <1>1 DEF session, proxy
  <1>4. CASE toClient' = toClient /\ Added(handling, m, handling')
    <2> HIDE DEF m
    <2>1. OneAttach'
      BY <1>1, <1>4 DEF Taken, Added, Link, OneAttach, Asked, Told
    <2>2. AttachFirst'
      BY <1>1, <1>4 DEF Taken, Added, Link, OneAttach, AttachFirst, Asked, Told, Reattaching, Wishes
    <2>3. DetachFirst'
      BY <1>1, <1>3, <1>4 DEF Taken, Added, Link, OneAttach, DetachFirst, Asked, Told, Reattaching
    <2>4. Untracked'
      BY <1>1, <1>3, <1>4 DEF Taken, Added, Link, Untracked
    <2> QED BY <1>2, <2>1, <2>2, <2>3, <2>4 DEF Link, Silent
  <1>5. CASE /\ handling' = handling /\ m.type \in Wishes
             /\ \E a \in Answer : /\ a.type = "failed" /\ a.event = m.event
                                  /\ Added(toClient, a, toClient')
    <2>1. PICK a \in Answer : a.type = "failed" /\ Added(toClient, a, toClient')
      BY <1>5
    <2> HIDE DEF m
    <2>2. OneAttach'
      BY <1>1, <1>5, <2>1 DEF Taken, Added, Link, OneAttach, Asked, Told
    <2>3. AttachFirst'
      BY <1>1, <1>5, <2>1 DEF Taken, Added, Link, AttachFirst, Asked, Told, Reattaching, Wishes, Verdicts
    <2>4. DetachFirst'
      BY <1>1, <1>3, <1>5, <2>1 DEF Taken, Added, Link, DetachFirst, Asked, Told, Reattaching, Wishes
    <2>5. Untracked'
      BY <1>1, <1>3, <1>5, <2>1 DEF Taken, Added, Link, Untracked, Wishes
    <2> QED BY <1>2, <2>2, <2>3, <2>4, <2>5 DEF Link, Silent
  <1> QED BY <1>4, <1>5, RequestMoves

(* A handler resumes: the oldest request leaves its await.                 *)
LEMMA HandlerResumes ==
  ASSUME Types, NEW type, Finishing(type)
  PROVE  /\ Head(handling) \in Request /\ Head(handling).type = type /\ handling # <<>>
         /\ Taken(handling, Head(handling), handling')
         /\ UNCHANGED <<toServer, session, proxy, notificationQueue>>
  <1>1. /\ handling # <<>> /\ Head(handling).type = type /\ handling' = Tail(handling)
        /\ handling \in Seq(Request)
        /\ UNCHANGED <<toServer, session, proxy, notificationQueue>>
    BY PropertiesOfTypes DEF Finishing
  <1> QED BY <1>1, Received, TailTakes

(* Replies(t, e): the client is sent one message, of type t about e.       *)
Replies(t, e, p) == \E a \in Answer : a.type = t /\ a.event = e /\ Added(p, a, toClient')

LEMMA SubscribeReplies ==
  ASSUME Types, FinishSubscribe
  PROVE  /\ attached' = attached /\ Head(handling).event \in Wire
         /\ \/ /\ Replies("failed", Head(handling).event, toClient)
               /\ eventSubscriptions' = eventSubscriptions
            \/ /\ Head(handling).event \notin eventSubscriptions
               /\ eventSubscriptions' = eventSubscriptions \cup {Head(handling).event}
               /\ \E p : /\ Followed(toClient, "event", p)
                         /\ Replies("subscribed", Head(handling).event, p)
  <1> DEFINE m == Head(handling)
             replayed == IF m.event \in Historical THEN Replay(m.event, m.after) ELSE <<>>
             p == toClient \o replayed
  <1>1. m \in Request /\ m.type = "subscribe"
    BY HandlerResumes DEF FinishSubscribe
  <1>2. m.event \in Wire /\ m.event \in Event
    BY <1>1, RequestsHave, WireIsEvents
  <1>3. toClient \in Seq(Answer) /\ Head1.gen \in 1 .. MaxGeneration /\ Head1.rev \in Revision
    BY CursorsArePositions, PropertiesOfTypes DEF Types, JournalTypes, Head1
  <1>4. PICK a \in Answer : a = [type |-> "failed", event |-> m.event]
    BY <1>2, MessagesAre
  <1>5. PICK b \in Answer : b = [type |-> "subscribed", event |-> m.event, head |-> Head1.rev]
    BY <1>2, <1>3, MessagesAre
  <1>6. a.type = "failed" /\ a.event = m.event /\ b.type = "subscribed" /\ b.event = m.event
    BY <1>4, <1>5
  <1>7. replayed \in Seq(Answer) /\ \A i \in DOMAIN replayed : replayed[i].type = "event"
    <2> DEFINE E == [type : {"event"}, event : {m.event}, cursor : Position]
    <2>1. E \subseteq Answer /\ \A x \in E : x.type = "event"
      BY <1>2 DEF Answer, Deferred, Occurrence
    <2>2. Replay(m.event, m.after) \in Seq(E)
      BY <1>2, <1>3, ReplayIs
    <2>3. <<>> \in Seq(E)
      OBVIOUS
    <2>4. replayed \in Seq(E)
      BY <2>2, <2>3
    <2> HIDE DEF E, replayed
    <2>5. \A i \in DOMAIN replayed : replayed[i] \in E
      BY <2>4
    <2> QED BY <2>1, <2>4, <2>5, SubsetSequence
  <1>8. \/ toClient' = Append(toClient, a) /\ eventSubscriptions' = eventSubscriptions
        \/ /\ m.event \notin eventSubscriptions /\ toClient' = Append(p, b)
           /\ eventSubscriptions' = eventSubscriptions \cup {m.event}
    <2>1. p \in Seq(Answer) /\ \A q \in Seq(Answer) : q \o <<b>> = Append(q, b)
      <3> HIDE DEF replayed
      <3> QED BY <1>3, <1>7
    <2>2. p \o <<b>> = Append(p, b)
      BY <2>1
    <2> QED BY <1>4, <1>5, <2>2 DEF FinishSubscribe, Failed, Reply
  <1> HIDE DEF replayed
  <1>9. p \in Seq(Answer) /\ Followed(toClient, "event", p)
    BY <1>3, <1>7, ConcatFollows
  <1>10. attached' = attached
    BY DEF FinishSubscribe
  <1> HIDE DEF p, m
  <1>11. CASE toClient' = Append(toClient, a) /\ eventSubscriptions' = eventSubscriptions
    BY <1>2, <1>3, <1>6, <1>10, <1>11, AppendAdds DEF Replies, m
  <1>12. CASE /\ m.event \notin eventSubscriptions /\ toClient' = Append(p, b)
              /\ eventSubscriptions' = eventSubscriptions \cup {m.event}
    <2>1. Added(p, b, toClient')
      BY <1>9, <1>12, AppendAdds
    <2>2. Replies("subscribed", m.event, p)
      BY <1>6, <2>1 DEF Replies
    <2> QED BY <1>2, <1>9, <1>10, <1>12, <2>2 DEF m
  <1> QED BY <1>8, <1>11, <1>12

LEMMA UnsubscribeReplies ==
  ASSUME Types, FinishUnsubscribe
  PROVE  /\ attached' = attached /\ Head(handling).event \in Wire
         /\ eventSubscriptions' = eventSubscriptions \ {Head(handling).event}
         /\ Replies("unsubscribed", Head(handling).event, toClient)
  <1> DEFINE m == Head(handling)
  <1>1. m \in Request /\ m.type = "unsubscribe"
    BY HandlerResumes DEF FinishUnsubscribe
  <1>2. m.event \in Wire
    BY <1>1, RequestsHave
  <1>3. PICK a \in Answer : a = [type |-> "unsubscribed", event |-> m.event]
    BY <1>2, MessagesAre
  <1>4. a.type = "unsubscribed" /\ a.event = m.event
    BY <1>3
  <1>5. toClient' = Append(toClient, a)
    BY <1>3 DEF FinishUnsubscribe, Reply
  <1>6. Added(toClient, a, toClient')
    BY <1>5, PropertiesOfTypes, AppendAdds
  <1>7. Replies("unsubscribed", m.event, toClient)
    BY <1>4, <1>6 DEF Replies
  <1> QED BY <1>2, <1>7 DEF FinishUnsubscribe

LEMMA AttachReplies ==
  ASSUME Types, FinishAttach
  PROVE  /\ attached' = TRUE /\ eventSubscriptions' = eventSubscriptions
         /\ \E a \in Answer : a.type = "attached" /\ Added(toClient, a, toClient')
  <1>1. Head1 \in Position
    BY DEF Types, JournalTypes, Head1
  <1>2. PICK a \in Answer : a = [type |-> "attached", cursor |-> Head1]
    BY <1>1 DEF Answer
  <1>3. a.type = "attached" /\ toClient' = Append(toClient, a)
    BY <1>2 DEF FinishAttach, Reply
  <1>4. Added(toClient, a, toClient')
    BY <1>3, PropertiesOfTypes, AppendAdds
  <1> QED BY <1>3, <1>4 DEF FinishAttach

(* A verdict is given once the attachment has been.                        *)
LEMMA VerdictKeepsLink ==
  ASSUME Types, Link, NEW type \in Wishes, Finishing(type), attached' = attached,
         NEW a \in Answer, a.type \in Verdicts \cup {"failed"}, NEW p, Added(p, a, toClient'),
         p = toClient \/ Followed(toClient, "event", p)
  PROVE  Link'
  <1> DEFINE m == Head(handling)
  <1>1. /\ m.type = type /\ Taken(handling, m, handling') /\ handling # <<>>
        /\ UNCHANGED <<toServer, session, proxy, notificationQueue>>
    BY HandlerResumes
  <1>2. connected /\ connected' = connected
    BY <1>1, SilentMeansConnected DEF Link, session
  <1>3. UNCHANGED <<releases, tracked, subscribedEvents, reconciling, listeners, connected, toServer,
                    notificationQueue, attached>>
    BY <1>1 DEF session, proxy
  <1> HIDE DEF m
  <1>4. /\ \A t : t # "event" => (Has(toClient', t) <=> Has(toClient, t) \/ a.type = t)
        /\ AtMostOne(toClient, "attached") => AtMostOne(toClient', "attached")
        /\ \A u \in Verdicts : Before(toClient, "attached", u) => Before(toClient', "attached", u)
    BY DEF Added, Followed, Verdicts
  <1>5. ~Asked /\ tracked
    <2>1. ~Has(handling, "attach") /\ ~Has(toServer, "attach")
      BY <1>1 DEF Link, AttachFirst, Taken, Wishes
    <2>2. Has(handling, type)
      BY <1>1 DEF Taken
    <2> QED BY <2>1, <2>2 DEF Link, Untracked, Asked
  <1>6. OneAttach'
    BY <1>1, <1>3, <1>4, <1>5 DEF Taken, Link, OneAttach, Asked, Told, Verdicts
  <1>7. AttachFirst'
    BY <1>1, <1>3, <1>4, <1>5 DEF Taken, Link, AttachFirst, Asked, Told, Reattaching, Verdicts
  <1>8. DetachFirst'
    BY <1>1, <1>3, <1>4, <1>5 DEF Taken, Link, DetachFirst, Asked, Told, Reattaching, Verdicts
  <1>9. Untracked'
    BY <1>3, <1>5 DEF Link, Untracked
  <1> QED BY <1>2, <1>6, <1>7, <1>8, <1>9 DEF Link, Silent

LEMMA FinishKeepsLink ==
  ASSUME Types, Link, FinishSubscribe \/ FinishUnsubscribe \/ FinishAttach \/ FinishDetach
  PROVE  Link'
  <1>1. CASE FinishSubscribe
    <2>1. Finishing("subscribe") /\ "subscribe" \in Wishes
      BY <1>1 DEF FinishSubscribe, Wishes
    <2>2. \E a \in Answer : \E p :
             /\ a.type \in Verdicts \cup {"failed"} /\ Added(p, a, toClient')
             /\ p = toClient \/ Followed(toClient, "event", p)
      BY <1>1, SubscribeReplies DEF Replies, Verdicts
    <2> QED BY <1>1, <2>1, <2>2, SubscribeReplies, VerdictKeepsLink
  <1>2. CASE FinishUnsubscribe
    <2>1. Finishing("unsubscribe") /\ "unsubscribe" \in Wishes
      BY <1>2 DEF FinishUnsubscribe, Wishes
    <2>2. \E a \in Answer : a.type \in Verdicts \cup {"failed"} /\ Added(toClient, a, toClient')
      BY <1>2, UnsubscribeReplies DEF Replies, Verdicts
    <2> QED BY <1>2, <2>1, <2>2, UnsubscribeReplies, VerdictKeepsLink
  <1> DEFINE m == Head(handling)
  <1>3. CASE FinishAttach
    <2>1. /\ m.type = "attach" /\ Taken(handling, m, handling') /\ handling # <<>>
          /\ UNCHANGED <<toServer, session, proxy, notificationQueue>>
      BY <1>3, HandlerResumes DEF FinishAttach
    <2>2. PICK a \in Answer : a.type = "attached" /\ Added(toClient, a, toClient')
      BY <1>3, AttachReplies
    <2>3. attached' = TRUE /\ UNCHANGED <<releases, tracked, subscribedEvents, reconciling, listeners, connected>>
      BY <1>3, <2>1, AttachReplies DEF session, proxy
    <2>4. connected
      BY <2>1, SilentMeansConnected DEF Link
    <2> HIDE DEF m
    <2>5. OneAttach'
      BY <2>1, <2>2 DEF Taken, Added, Link, OneAttach, Asked, Told
    <2>6. AttachFirst'
      BY <2>1, <2>2 DEF Taken, Added, Link, OneAttach, AttachFirst, Asked, Told, Reattaching, Verdicts, Wishes
    <2>7. DetachFirst'
      BY <2>1, <2>2, <2>3 DEF Taken, Added, Link, DetachFirst, Asked, Told, Reattaching
    <2>8. Untracked'
      BY <2>1, <2>2, <2>3 DEF Taken, Added, Link, Untracked, Verdicts
    <2> QED BY <2>3, <2>4, <2>5, <2>6, <2>7, <2>8 DEF Link, Silent
  <1>4. CASE FinishDetach
    <2>1. /\ m.type = "detach" /\ Taken(handling, m, handling') /\ handling # <<>>
          /\ UNCHANGED <<toServer, session, proxy, notificationQueue, toClient>>
          /\ attached' = FALSE
      BY <1>4, HandlerResumes DEF FinishDetach
    <2>3. UNCHANGED <<releases, tracked, subscribedEvents, reconciling, listeners, connected>>
      BY <2>1 DEF session, proxy
    <2>4. connected
      BY <2>1, SilentMeansConnected DEF Link
    <2> HIDE DEF m
    <2>5. OneAttach'
      BY <2>1 DEF Taken, Link, OneAttach, Asked, Told
    <2>6. AttachFirst'
      BY <2>1 DEF Taken, Link, AttachFirst, Asked, Told, Reattaching
    <2>7. DetachFirst'
      BY <2>1, <2>3 DEF Taken, Link, DetachFirst, Asked, Told, Reattaching
    <2>8. Untracked'
      BY <2>1, <2>3 DEF Taken, Link, Untracked
    <2> QED BY <2>3, <2>4, <2>5, <2>6, <2>7, <2>8 DEF Link, Silent
  <1> QED BY <1>1, <1>2, <1>3, <1>4

(* A turn is taken only while the proxy is tracked.                        *)
LEMMA TurnKeepsLink ==
  ASSUME Types, Link, NEW e \in Wire, Turn(e), tracked,
         cursor' \in Position, eventCursors' \in [Event -> Stamps],
         handling' = handling, UNCHANGED <<attached, eventSubscriptions, session, tracked>>,
         \/ toClient' = toClient
         \/ toClient # <<>> /\ Taken(toClient, Head(toClient), toClient') /\ Head(toClient).type # "attached",
         notificationQueue' = notificationQueue
           \/ (notificationQueue # <<>> /\ Taken(notificationQueue, Head(notificationQueue), notificationQueue'))
  PROVE  Link'
  <1>1. /\ connected' = connected /\ releases' = releases /\ tracked' = tracked /\ attached' = attached
        /\ eventSubscriptions' = eventSubscriptions
    BY DEF session
  <1>2. \/ toServer' = toServer
        \/ connected /\ \E m \in Request : m.type \in Wishes /\ Added(toServer, m, toServer')
    BY TurnSends DEF Turned, Sent, Wishes
  <1>3. /\ \A t : t \notin Wishes => (Has(toServer', t) <=> Has(toServer, t))
        /\ AtMostOne(toServer, "attach") => AtMostOne(toServer', "attach")
        /\ \A u \in Wishes : Before(toServer, "attach", u) => Before(toServer', "attach", u)
        /\ Before(toServer, "detach", "attach") => Before(toServer', "detach", "attach")
    BY <1>2 DEF Added, Wishes
  <1>4. /\ \A t : Has(toClient', t) => Has(toClient, t)
        /\ Has(toClient', "attached") <=> Has(toClient, "attached")
        /\ AtMostOne(toClient, "attached") => AtMostOne(toClient', "attached")
        /\ \A u \in Verdicts : Before(toClient, "attached", u) => Before(toClient', "attached", u)
    BY DEF Taken
  <1>5. \A t : Has(notificationQueue', t) => Has(notificationQueue, t)
    BY DEF Taken
  <1>6. Has(toServer', "attach") <=> Has(toServer, "attach")
    BY <1>3 DEF Wishes
  <1>7. Has(toServer', "detach") <=> Has(toServer, "detach")
    BY <1>3 DEF Wishes
  <1>8. OneAttach'
    BY <1>3, <1>4, <1>6 DEF Link, OneAttach, Asked, Told
  <1>9. AttachFirst'
    BY <1>3, <1>4, <1>5, <1>6 DEF Link, AttachFirst, Asked, Told, Reattaching
  <1>10. DetachFirst'
    BY <1>1, <1>3, <1>4, <1>6, <1>7 DEF Link, DetachFirst, Asked, Told, Reattaching
  <1>11. Untracked'
    BY <1>1 DEF Link, Untracked
  <1>12. Silent'
    <2>1. CASE connected
      BY <1>1, <2>1 DEF Silent
    <2>2. CASE ~connected
      <3>1. /\ toServer' = toServer /\ reconciling' = reconciling \ {e}
        BY <2>2, TurnSends DEF Turned
      <3> QED BY <1>1, <2>2, <3>1 DEF Link, Silent
    <2> QED BY <2>1, <2>2
  <1> QED BY <1>8, <1>9, <1>10, <1>11, <1>12 DEF Link

LEMMA ListenerKeepsLink ==
  ASSUME Types, Types', Link, NEW e \in Event, On(e) \/ Off(e) \/ \E r \in Revision : OnFrom(e, r)
  PROVE  Link'
  <1>1. /\ UNCHANGED <<server, toClient, session, notificationQueue, tracked, cursor, subscribedEvents>>
        /\ Reconcile(e)
    BY DEF On, Off, OnFrom
  <1>2. tracked
    <2>1. CASE Off(e)
      <3>1. listeners[e] > 0 /\ ~(0 > 0)
        BY <2>1 DEF Off
      <3>2. listeners[e] # 0
        BY <3>1
      <3> QED BY <3>2 DEF Link, Untracked
    <2>2. CASE On(e) \/ \E r \in Revision : OnFrom(e, r)
      BY <2>2 DEF On, OnFrom
    <2> QED BY <2>1, <2>2
  <1>3. cursor' \in Position /\ eventCursors' \in [Event -> Stamps]
    BY DEF Types, ProxyTypes
  <1>4. CASE e \in Wire /\ Turn(e)
    BY <1>1, <1>2, <1>3, <1>4, TurnKeepsLink DEF server
  <1>5. CASE UNCHANGED <<reconciling, toServer>>
    <2>1. UNCHANGED <<toServer, handling, toClient, notificationQueue, attached, eventSubscriptions,
                      connected, releases, tracked, reconciling>>
      BY <1>1, <1>5 DEF server, session
    <2> QED BY <1>2, <2>1 DEF Link, OneAttach, Silent, AttachFirst, DetachFirst, Untracked,
                              Asked, Told, Reattaching
  <1> QED BY <1>1, <1>4, <1>5 DEF Reconcile, OnWire, Wire

LEMMA FrameTakes ==
  ASSUME Types, NEW type, Frame(type)
  PROVE  /\ toClient # <<>> /\ Head(toClient) \in Answer /\ Head(toClient).type = type
         /\ Taken(toClient, Head(toClient), toClient')
  <1>1. toClient # <<>> /\ Head(toClient).type = type /\ toClient' = Tail(toClient) /\ toClient \in Seq(Answer)
    BY PropertiesOfTypes DEF Frame
  <1> QED BY <1>1, Received, TailTakes

LEMMA FrameKeepsLink ==
  ASSUME Types, Types', Link,
         ReceiveNotification \/ ReceiveSubscribed \/ ReceiveUnsubscribed \/ ReceiveFailed
  PROVE  Link'
  <1> DEFINE m == Head(toClient)
  <1>1. /\ toClient # <<>> /\ m \in Answer /\ Taken(toClient, m, toClient')
        /\ m.type \in {"event", "property", "subscribed", "unsubscribed", "failed"}
    BY FrameTakes DEF ReceiveNotification, ReceiveSubscribed, ReceiveUnsubscribed, ReceiveFailed
  <1>2. UNCHANGED <<server, session, tracked, listeners>>
    BY DEF ReceiveNotification, ReceiveSubscribed, ReceiveUnsubscribed, ReceiveFailed, proxy
  <1>3. connected /\ UNCHANGED <<connected, releases, attached, eventSubscriptions, handling>>
    BY <1>1, <1>2, SilentMeansConnected DEF Link, session, server
  <1>4. CASE ReceiveNotification \/ ReceiveSubscribed
    <2>1. UNCHANGED <<toServer, subscribedEvents, reconciling>> /\ Added(notificationQueue, m, notificationQueue')
      <3>1. m \in Deferred
        BY <1>1, <1>4, AnswersHave DEF ReceiveNotification, ReceiveSubscribed, Frame
      <3>2. notificationQueue' = Append(notificationQueue, m) /\ UNCHANGED <<toServer, proxy>>
        BY <1>4 DEF ReceiveNotification, ReceiveSubscribed, Queued, Barrier
      <3> QED BY <3>1, <3>2, PropertiesOfTypes, AppendAdds DEF proxy
    <2> HIDE DEF m
    <2>2. OneAttach'
      BY <1>1, <1>3, <2>1 DEF Taken, Link, OneAttach, Asked, Told
    <2>3. AttachFirst'
      BY <1>1, <1>3, <2>1 DEF Taken, Added, Link, OneAttach, AttachFirst, Asked, Told, Reattaching, Verdicts
    <2>4. DetachFirst'
      BY <1>1, <1>2, <1>3, <2>1 DEF Taken, Link, DetachFirst, Asked, Told, Reattaching
    <2>5. Untracked'
      BY <1>1, <1>2, <1>3, <2>1 DEF Taken, Added, Link, Untracked, Verdicts
    <2> QED BY <1>3, <2>2, <2>3, <2>4, <2>5 DEF Link, Silent
  <1>5. CASE ReceiveUnsubscribed
    <2>1. m.type = "unsubscribed" /\ Turn(m.event) /\ notificationQueue' = notificationQueue
      BY <1>5 DEF ReceiveUnsubscribed, Frame
    <2>2. m.event \in Wire
      BY <1>1, <2>1, AnswersHave
    <2>3. tracked
      BY <1>1, <2>1 DEF Taken, Link, Untracked, Verdicts
    <2>4. cursor' \in Position /\ eventCursors' \in [Event -> Stamps]
      BY DEF Types, ProxyTypes
    <2> QED BY <1>1, <1>2, <1>3, <2>1, <2>2, <2>3, <2>4, TurnKeepsLink
  <1>6. CASE ReceiveFailed
    <2>1. /\ UNCHANGED <<toServer, subscribedEvents, notificationQueue>> /\ m.type = "failed"
          /\ reconciling' = reconciling \ {m.event}
      BY <1>6 DEF ReceiveFailed, Abandon, Frame
    <2> HIDE DEF m
    <2>2. OneAttach'
      BY <1>1, <1>3, <2>1 DEF Taken, Link, OneAttach, Asked, Told
    <2>3. AttachFirst'
      BY <1>1, <1>3, <2>1 DEF Taken, Link, AttachFirst, Asked, Told, Reattaching
    <2>4. DetachFirst'
      BY <1>1, <1>2, <1>3, <2>1 DEF Taken, Link, DetachFirst, Asked, Told, Reattaching
    <2>5. Untracked'
      BY <1>1, <1>2, <1>3, <2>1 DEF Taken, Link, Untracked, Verdicts
    <2> QED BY <1>3, <2>2, <2>3, <2>4, <2>5 DEF Link, Silent
  <1> QED BY <1>4, <1>5, <1>6

LEMMA QueueTakes ==
  ASSUME Types, ProcessNotification
  PROVE  /\ notificationQueue # <<>> /\ Head(notificationQueue) \in Deferred
         /\ Taken(notificationQueue, Head(notificationQueue), notificationQueue')
         /\ UNCHANGED <<server, toClient, session, tracked, listeners>>
         /\ Head(notificationQueue).type = "subscribed" =>
              /\ Head(notificationQueue).event \in Wire /\ Turn(Head(notificationQueue).event)
              /\ subscribedEvents' = subscribedEvents \cup {Head(notificationQueue).event}
         /\ Head(notificationQueue).type # "subscribed" =>
              UNCHANGED <<subscribedEvents, reconciling, toServer>>
  <1>1. /\ notificationQueue # <<>> /\ notificationQueue' = Tail(notificationQueue)
        /\ notificationQueue \in Seq(Deferred)
        /\ UNCHANGED <<server, toClient, session, tracked, listeners>>
    BY PropertiesOfTypes DEF ProcessNotification
  <1> DEFINE m == Head(notificationQueue)
  <1>2. m \in Deferred /\ Taken(notificationQueue, m, notificationQueue')
    BY <1>1, Received, TailTakes
  <1>3. m \in Answer /\ m.type \in {"event", "property", "subscribed"}
    BY <1>2, MessagesAre DEF Deferred, Occurrence, Acknowledgement
  <1>4. CASE m.type = "subscribed"
    BY <1>1, <1>2, <1>3, <1>4, AnswersHave DEF ProcessNotification
  <1>5. CASE m.type # "subscribed"
    <2>1. m.type = "property" \/ m.type = "event"
      BY <1>3, <1>5
    <2>2. UNCHANGED <<subscribedEvents, reconciling, toServer>>
      BY <2>1 DEF ProcessNotification
    <2> QED BY <1>1, <1>2, <1>5, <2>2
  <1> QED BY <1>4, <1>5

LEMMA ProcessKeepsLink ==
  ASSUME Types, Types', Link, ProcessNotification
  PROVE  Link'
  <1> DEFINE m == Head(notificationQueue)
  <1>1. /\ notificationQueue # <<>> /\ Taken(notificationQueue, m, notificationQueue')
        /\ UNCHANGED <<server, toClient, session, tracked, listeners>>
    BY QueueTakes
  <1>2. UNCHANGED <<connected, releases, attached, eventSubscriptions, handling>>
    BY <1>1 DEF session, server
  <1>3. CASE m.type = "subscribed"
    <2>1. m.event \in Wire /\ Turn(m.event)
      BY <1>3, QueueTakes
    <2>2. tracked
      BY <1>1, <1>3 DEF Taken, Link, Untracked
    <2>3. cursor' \in Position /\ eventCursors' \in [Event -> Stamps]
      BY DEF Types, ProxyTypes
    <2> QED BY <1>1, <1>2, <2>1, <2>2, <2>3, TurnKeepsLink
  <1>4. CASE m.type # "subscribed"
    <2>1. UNCHANGED <<subscribedEvents, reconciling, toServer>>
      BY <1>4, QueueTakes
    <2>2. connected
      BY <1>1, SilentMeansConnected DEF Link
    <2>3. \A t : Has(notificationQueue', t) => Has(notificationQueue, t)
      BY <1>1 DEF Taken
    <2>4. OneAttach' /\ AttachFirst' /\ DetachFirst' /\ Untracked'
      BY <1>1, <1>2, <2>1, <2>3 DEF Link, OneAttach, AttachFirst, DetachFirst, Untracked, Asked, Told, Reattaching
    <2> QED BY <1>2, <2>2, <2>4 DEF Link, Silent
  <1> QED BY <1>3, <1>4

LEMMA DropKeepsLink ==
  ASSUME Types, Link, Disconnect \/ Restart
  PROVE  Link'
  <1>1. DropConnection
    BY DEF Disconnect, Restart
  <1>2. /\ connected' = FALSE /\ toServer' = <<>> /\ toClient' = <<>> /\ handling' = <<>>
        /\ notificationQueue' = <<>> /\ attached' = FALSE /\ eventSubscriptions' = {}
        /\ reconciling' = {} /\ UNCHANGED <<releases, tracked, listeners>>
        /\ subscribedEvents' = subscribedEvents \cup
             {m.event : m \in {x \in ToSet(notificationQueue) : x.type = "subscribed"}}
    BY <1>1 DEF DropConnection
  <1>3. ~tracked => subscribedEvents' = {}
    <2> SUFFICES ASSUME ~tracked PROVE subscribedEvents' = {}
      OBVIOUS
    <2>1. subscribedEvents = {} /\ ~Has(notificationQueue, "subscribed")
      BY DEF Link, Untracked
    <2>2. {x \in ToSet(notificationQueue) : x.type = "subscribed"} = {}
      BY <2>1 DEF ToSet, Has
    <2> QED BY <1>2, <2>1, <2>2
  <1>4. OneAttach' /\ AttachFirst' /\ DetachFirst'
    BY <1>2, NothingHeld DEF OneAttach, AttachFirst, DetachFirst, Asked, Told, Reattaching, Link
  <1>5. Silent'
    BY <1>2 DEF Silent
  <1>6. Untracked'
    BY <1>2, <1>3, NothingHeld DEF Untracked, Link
  <1> QED BY <1>4, <1>5, <1>6 DEF Link

LEMMA ReconnectKeepsLink ==
  ASSUME Types, Link, Reconnect
  PROVE  Link'
  <1>1. /\ toServer = <<>> /\ handling = <<>> /\ toClient = <<>> /\ notificationQueue = <<>>
        /\ connected' = TRUE
        /\ UNCHANGED <<handling, toClient, notificationQueue, attached, eventSubscriptions, releases,
                       tracked, listeners, subscribedEvents, reconciling>>
        /\ toServer' = IF tracked THEN <<[type |-> "attach"]>> ELSE <<>>
    BY DEF Reconnect, server, proxy, Link, Silent
  <1>2. CASE tracked
    <2>1. PICK m \in Request : m = [type |-> "attach"]
      BY MessagesAre
    <2>2. m.type = "attach" /\ toServer' = <<m>>
      BY <1>1, <1>2, <2>1
    <2>3. DOMAIN <<m>> = {1} /\ <<m>>[1] = m
      OBVIOUS
    <2>4. /\ \A t : Has(toServer', t) <=> t = "attach"
          /\ AtMostOne(toServer', "attach")
          /\ \A u \in Wishes : Before(toServer', "attach", u)
          /\ Before(toServer', "detach", "attach")
      BY <2>2, <2>3 DEF Has, AtMostOne, Before, Wishes
    <2>5. OneAttach' /\ AttachFirst' /\ DetachFirst'
      BY <1>1, <1>2, <2>4, NothingHeld DEF OneAttach, AttachFirst, DetachFirst, Asked, Told, Reattaching
    <2> QED BY <1>1, <1>2, <2>5 DEF Link, Silent, Untracked
  <1>3. CASE ~tracked
    <2>1. toServer' = <<>>
      BY <1>1, <1>3
    <2>2. OneAttach' /\ AttachFirst' /\ DetachFirst'
      BY <1>1, <1>3, <2>1, NothingHeld DEF OneAttach, AttachFirst, DetachFirst, Asked, Told, Reattaching
    <2>3. Untracked'
      BY <1>1, <2>1, NothingHeld DEF Link, Untracked
    <2> QED BY <1>1, <2>2, <2>3 DEF Link, Silent
  <1> QED BY <1>2, <1>3

LEMMA AttachedMoves ==
  ASSUME Types, Types', ReceiveAttached
  PROVE  /\ Head(toClient).type = "attached" /\ Taken(toClient, Head(toClient), toClient') /\ toClient # <<>>
         /\ UNCHANGED <<server, session, listeners, notificationQueue>> /\ tracked' = TRUE
         /\ tracked => /\ subscribedEvents' = {} /\ reconciling' = {e \in Event : OnWire(e) /\ Wanted(e)}
                       /\ Followed(toServer, "subscribe", toServer')
         /\ ~tracked => UNCHANGED <<subscribedEvents, reconciling, toServer>>
  <1>1. /\ Head(toClient).type = "attached" /\ Taken(toClient, Head(toClient), toClient') /\ toClient # <<>>
    BY FrameTakes DEF ReceiveAttached
  <1>2. UNCHANGED <<server, session, listeners, notificationQueue>> /\ tracked' = TRUE
    BY DEF ReceiveAttached
  <1>3. CASE tracked
    <2>1. Resubscribe /\ cursor' \in Position /\ eventCursors' \in [Event -> Stamps]
      BY <1>3 DEF ReceiveAttached, Types, ProxyTypes
    <2>2. PICK r \in Seq(Request) : /\ toServer' = toServer \o r
                                    /\ \A i \in DOMAIN r : r[i].type = "subscribe"
      BY <2>1, ResubscribeIs
    <2>3. Followed(toServer, "subscribe", toServer')
      BY <2>2, PropertiesOfTypes, ConcatFollows
    <2> QED BY <1>1, <1>2, <1>3, <2>1, <2>3, ResubscribeIs
  <1>4. CASE ~tracked
    BY <1>1, <1>2, <1>4 DEF ReceiveAttached
  <1> QED BY <1>3, <1>4

LEMMA AttachedKeepsLink ==
  ASSUME Types, Types', Link, ReceiveAttached
  PROVE  Link'
  <1> DEFINE m == Head(toClient)
  <1>1. /\ m.type = "attached" /\ Taken(toClient, m, toClient') /\ toClient # <<>>
        /\ UNCHANGED <<server, session, listeners, notificationQueue>> /\ tracked' = TRUE
        /\ toServer' = toServer \/ (tracked /\ Followed(toServer, "subscribe", toServer'))
    BY AttachedMoves
  <1>2. UNCHANGED <<connected, releases, attached, eventSubscriptions, handling, notificationQueue>>
    BY <1>1 DEF session, server
  <1>3. connected
    BY <1>1, SilentMeansConnected DEF Link
  <1> HIDE DEF m
  <1>4. ~Asked /\ attached /\ ~Has(toServer, "detach") /\ ~Has(handling, "detach")
    BY <1>1 DEF Taken, Link, OneAttach, DetachFirst, Told
  <1>5. /\ ~Has(toServer', "attach") /\ ~Has(toServer', "detach")
        /\ AtMostOne(toServer', "attach")
        /\ \A u \in Wishes : Before(toServer', "attach", u)
        /\ Before(toServer', "detach", "attach")
    BY <1>1, <1>4 DEF Followed, Asked, Link, OneAttach, AttachFirst, DetachFirst
  <1>6. ~Has(toClient', "attached")
    BY <1>1 DEF Taken, Link, OneAttach
  <1>7. OneAttach'
    BY <1>1, <1>2, <1>4, <1>5, <1>6 DEF Taken, Link, OneAttach, Asked, Told
  <1>8. AttachFirst'
    BY <1>1, <1>2, <1>4, <1>5, <1>6 DEF Taken, Link, AttachFirst, Asked, Told, Reattaching
  <1>9. DetachFirst'
    BY <1>2, <1>4, <1>5, <1>6 DEF Link, DetachFirst, Told
  <1> QED BY <1>1, <1>2, <1>3, <1>7, <1>8, <1>9 DEF Link, Silent, Untracked

LEMMA ReleaseKeepsLink ==
  ASSUME Types, Link, Release
  PROVE  Link'
  <1>1. /\ tracked /\ reconciling = {} /\ connected /\ toServer' = Append(toServer, [type |-> "detach"])
        /\ UNCHANGED <<handling, toClient, notificationQueue, connected, attached, eventSubscriptions, reconciling>>
        /\ tracked' = FALSE /\ releases' = releases + 1
        /\ listeners' = [e \in Event |-> 0] /\ subscribedEvents' = {}
    BY DEF Release, server
  <1>2. /\ \A t : t \notin {"event", "property"} =>
                    ~Has(toServer, t) /\ ~Has(handling, t) /\ ~Has(toClient, t)
        /\ ~Has(notificationQueue, "subscribed")
    BY DEF Release, Has
  <1>3. PICK m \in Request : m = [type |-> "detach"]
    BY MessagesAre
  <1>4. m.type = "detach" /\ Added(toServer, m, toServer')
    BY <1>1, <1>3, PropertiesOfTypes, AppendAdds
  <1>5. releases' # 0
    BY <1>1, EventSubscriptionAssumption DEF Types, SessionTypes
  <1>6. \A t \in Wishes \cup Verdicts \cup {"failed", "attach", "attached"} :
           ~Has(toServer', t) /\ ~Has(handling, t) /\ ~Has(toClient, t)
    BY <1>2, <1>4 DEF Added, Wishes, Verdicts
  <1>7. OneAttach'
    BY <1>1, <1>2, <1>4, <1>6 DEF Added, Link, OneAttach, Asked, Told
  <1>8. AttachFirst'
    <2>1. \A u \in Wishes : Before(toServer', "attach", u) /\ Before(handling', "attach", u)
      BY <1>1, <1>4 DEF Added, Link, AttachFirst, Wishes
    <2>2. ~Has(notificationQueue', "subscribed")
      BY <1>1, <1>2
    <2>3. \A u \in Verdicts : ~Has(toClient', u) /\ Before(toClient', "attached", u)
      BY <1>1, <1>6 DEF Link, AttachFirst
    <2>4. \A u \in Wishes : ~Has(handling', u)
      BY <1>1, <1>6
    <2> QED BY <2>1, <2>2, <2>3, <2>4 DEF AttachFirst
  <1>9. DetachFirst'
    BY <1>1, <1>2, <1>4, <1>6 DEF Added, Link, DetachFirst, Told
  <1>10. Untracked'
    BY <1>1, <1>2, <1>5, <1>6 DEF Untracked
  <1> QED BY <1>1, <1>7, <1>8, <1>9, <1>10 DEF Link, Silent

LEMMA AttachKeepsLink ==
  ASSUME Types, Link, Attach
  PROVE  Link'
  <1>1. /\ ~tracked /\ connected /\ toServer' = Append(toServer, [type |-> "attach"])
        /\ UNCHANGED <<handling, toClient, notificationQueue, connected, attached, eventSubscriptions,
                       reconciling, tracked, releases, listeners, subscribedEvents>>
    BY DEF Attach, server, session, proxy
  <1>2. \A t \in {"attach", "attached"} : ~Has(toServer, t) /\ ~Has(handling, t) /\ ~Has(toClient, t)
    BY DEF Attach, Has
  <1>3. PICK m \in Request : m = [type |-> "attach"]
    BY MessagesAre
  <1>4. m.type = "attach" /\ Added(toServer, m, toServer')
    BY <1>1, <1>3, PropertiesOfTypes, AppendAdds
  <1>5. \A u \in Wishes : ~Has(toServer, u) /\ ~Has(handling, u)
    BY <1>1 DEF Link, Untracked
  <1>6. \A u \in Verdicts : ~Has(toClient, u)
    BY <1>1 DEF Link, Untracked
  <1>7. OneAttach'
    BY <1>1, <1>2, <1>4 DEF Added, Link, OneAttach, Asked, Told
  <1>8. AttachFirst'
    <2>1. \A u \in Wishes : Before(toServer', "attach", u) /\ Before(handling', "attach", u)
      BY <1>1, <1>4, <1>5 DEF Added, Link, AttachFirst, Wishes
    <2>2. ~Has(notificationQueue', "subscribed")
      BY <1>1 DEF Link, Untracked
    <2>3. \A u \in Verdicts : ~Has(toClient', u) /\ Before(toClient', "attached", u)
      BY <1>1, <1>6 DEF Link, AttachFirst
    <2>4. \A u \in Wishes : ~Has(handling', u)
      BY <1>1, <1>5
    <2> QED BY <2>1, <2>2, <2>3, <2>4 DEF AttachFirst
  <1>9. DetachFirst'
    BY <1>1, <1>2, <1>4 DEF Added, Link, DetachFirst, Told
  <1>10. Untracked'
    BY <1>1, <1>4, <1>5 DEF Added, Link, Untracked, Wishes
  <1> QED BY <1>1, <1>7, <1>8, <1>9, <1>10 DEF Link, Silent

(* A session says things in order: one attachment at a time, before        *)
(* anything about events (reattach, attach, detach), and nothing survives  *)
(* the loss of the connection on the server (disconnected).                *)
THEOREM LinkInvariance == Spec => []Link
  <1>1. Types /\ Types' /\ Link /\ [Next]_vars => Link'
    <2> SUFFICES ASSUME Types, Types', Link, [Next]_vars PROVE Link'
      OBVIOUS
    <2>1. CASE UNCHANGED vars
      BY <2>1 DEF vars, server, session, proxy, Link, OneAttach, Silent, AttachFirst, DetachFirst,
                  Untracked, Asked, Told, Reattaching
    <2>2. CASE Next
      BY <2>2, ChangeKeepsLink, RequestKeepsLink, FinishKeepsLink, ListenerKeepsLink, FrameKeepsLink,
         ProcessKeepsLink, DropKeepsLink, ReconnectKeepsLink, AttachedKeepsLink, ReleaseKeepsLink,
         AttachKeepsLink
         DEF Next, Server, Client, Application
    <2> QED BY <2>1, <2>2
  <1> QED BY InitLink, TypesInvariance, <1>1, PTL DEF Spec

-----------------------------------------------------------------------------
(* What the proxy believes of an event, and what is on its way.            *)

Asking(e) == Carries(toServer, "subscribe", e) \/ Carries(handling, "subscribe", e)
Ending(e) == Carries(toServer, "unsubscribe", e) \/ Carries(handling, "unsubscribe", e)
Acknowledged(e) == Carries(toClient, "subscribed", e) \/ Carries(notificationQueue, "subscribed", e)
Withdrawn(e) == Carries(toClient, "unsubscribed", e)

(* Of the requests about an event, every t is ahead of every u.            *)
InPipeline(t, u, e) ==
    /\ BeforeFor(handling, t, u, e) /\ BeforeFor(toServer, t, u, e)
    /\ ~Carries(handling, u, e) \/ ~Carries(toServer, t, e)

(* Believed since a session that is over: it holds for nothing any more.   *)
Stale(e) ==
    /\ e \notin eventSubscriptions /\ ~Asking(e) /\ ~Acknowledged(e) /\ ~Withdrawn(e)
    /\ ~Carries(handling, "unsubscribe", e)

(* Believed: so it is, or the server's word to the contrary is on its way; *)
(* and what is wished otherwise has been asked for.                        *)
Believed(e) ==
    /\ ~Acknowledged(e) /\ InPipeline("subscribe", "unsubscribe", e)
    /\ \/ e \in eventSubscriptions /\ ~Withdrawn(e)
       \/ e \notin eventSubscriptions /\ Withdrawn(e) /\ ~Asking(e)
    /\ e \in reconciling \/ ~Wanted(e) => Ending(e) \/ Withdrawn(e)

OneReply(e) ==
    /\ AtMostOneFor(toClient, "subscribed", e) /\ AtMostOneFor(notificationQueue, "subscribed", e)
    /\ ~Carries(toClient, "subscribed", e) \/ ~Carries(notificationQueue, "subscribed", e)
    /\ BeforeFor(toClient, "unsubscribed", "subscribed", e)
    /\ ~Withdrawn(e) \/ ~Carries(notificationQueue, "subscribed", e)

(* Not believed: if the server delivers it all the same then its word is   *)
(* on its way, once, and nothing that would end the delivery.              *)
Unbelieved(e) ==
    /\ InPipeline("unsubscribe", "subscribe", e)
    /\ e \in eventSubscriptions => ~Ending(e) /\ (releases = 0 => Acknowledged(e))
    /\ Acknowledged(e) => e \in eventSubscriptions
    /\ OneReply(e)

Belief(e) ==
    /\ e \notin subscribedEvents => Unbelieved(e)
    /\ e \in subscribedEvents /\ connected => IF Reattaching THEN Stale(e) ELSE Believed(e)

Beliefs == \A e \in Event : Belief(e)

LEMMA NoneIsOrdered ==
  /\ \A q, t, u, e : ~Carries(q, t, e) \/ ~Carries(q, u, e) => BeforeFor(q, t, u, e)
  /\ \A q, t, e : ~Carries(q, t, e) => AtMostOneFor(q, t, e)
  BY DEF Carries, BeforeFor, AtMostOneFor

LEMMA InitBeliefs == Init => Beliefs
  BY NothingHeld DEF Init, Beliefs, Belief, Unbelieved, OneReply, InPipeline, Ending, Acknowledged, Withdrawn

LEMMA ChangeKeepsBelief ==
  ASSUME Types, Types', NEW e \in Event, Belief(e), (\E f \in Event : EmitEvent(f)) \/ Modify
  PROVE  Belief(e)'
  <1>1. UNCHANGED <<attached, eventSubscriptions, handling, toServer, session, proxy, notificationQueue>>
    BY DEF EmitEvent, Modify
  <1>2. toClient' = toClient \/ \E m \in Answer : m.type \in {"event", "property"} /\ Added(toClient, m, toClient')
    BY ChangeIsTold
  <1>3. UNCHANGED <<connected, releases, subscribedEvents, reconciling, listeners>>
    BY <1>1 DEF session, proxy
  <1>4. /\ \A u \in Verdicts : Carries(toClient', u, e) <=> Carries(toClient, u, e)
        /\ Has(toClient', "attached") <=> Has(toClient, "attached")
        /\ AtMostOneFor(toClient, "subscribed", e) => AtMostOneFor(toClient', "subscribed", e)
        /\ BeforeFor(toClient, "unsubscribed", "subscribed", e) => BeforeFor(toClient', "unsubscribed", "subscribed", e)
    BY <1>2 DEF Added, Is, Verdicts
  <1> QED BY <1>1, <1>3, <1>4 DEF Verdicts, Belief, Unbelieved, OneReply, Stale, Believed, InPipeline, Asking, Ending,
             Acknowledged, Withdrawn, Wanted, Reattaching, Asked, Told

LEMMA RequestKeepsBelief ==
  ASSUME Types, Link, NEW e \in Event, Belief(e), ReceiveRequest
  PROVE  Belief(e)'
  <1> DEFINE m == Head(toServer)
  <1>1. /\ Taken(toServer, m, toServer')
        /\ UNCHANGED <<attached, eventSubscriptions, session, proxy, notificationQueue>>
    BY RequestMoves
  <1>2. UNCHANGED <<connected, releases, subscribedEvents, reconciling, listeners, eventSubscriptions>>
    BY <1>1 DEF session, proxy
  <1>3. CASE Admitted(m) /\ toClient' = toClient /\ Added(handling, m, handling')
    <2>1. Is(m, "unsubscribe", e) => e \in eventSubscriptions
      BY <1>3 DEF Admitted, Is
    <2> HIDE DEF m
    <2>2. \A t, u \in Wishes : t # u /\ InPipeline(t, u, e) => InPipeline(t, u, e)'
      BY <1>1, <1>3 DEF Taken, Added, InPipeline
    <2>3. \A t \in Wishes : Carries(toServer', t, e) \/ Carries(handling', t, e)
                              <=> Carries(toServer, t, e) \/ Carries(handling, t, e)
      BY <1>1, <1>3 DEF Taken, Added
    <2>4. (Asking(e)' <=> Asking(e)) /\ (Ending(e)' <=> Ending(e))
      BY <2>3 DEF Asking, Ending, Wishes
    <2>5. Reattaching' <=> Reattaching
      BY <1>1, <1>3 DEF Taken, Added, Reattaching, Asked, Told
    <2>6. Unbelieved(e) => Unbelieved(e)'
      BY <1>1, <1>2, <1>3, <2>2, <2>4 DEF Unbelieved, OneReply, Acknowledged, Withdrawn, Wishes
    <2>7. Believed(e) => Believed(e)'
      BY <1>1, <1>2, <1>3, <2>2, <2>4 DEF Believed, Acknowledged, Withdrawn, Wanted, Wishes
    <2>8. Stale(e) => Stale(e)'
      BY <1>1, <1>2, <1>3, <2>1, <2>4 DEF Stale, Acknowledged, Withdrawn, Added
    <2> QED BY <1>2, <2>5, <2>6, <2>7, <2>8 DEF Belief
  <1>4. CASE /\ ~Admitted(m) /\ handling' = handling /\ m.type \in Wishes
             /\ \E a \in Answer : /\ a.type = "failed" /\ a.event = m.event
                                  /\ Added(toClient, a, toClient')
    <2>1. Is(m, "unsubscribe", e) => ~attached \/ e \notin eventSubscriptions
      BY <1>4 DEF Admitted, Is
    <2>2. /\ \A u \in Verdicts : Carries(toClient', u, e) <=> Carries(toClient, u, e)
          /\ Has(toClient', "attached") <=> Has(toClient, "attached")
          /\ AtMostOneFor(toClient, "subscribed", e) => AtMostOneFor(toClient', "subscribed", e)
          /\ BeforeFor(toClient, "unsubscribed", "subscribed", e) => BeforeFor(toClient', "unsubscribed", "subscribed", e)
      BY <1>4 DEF Added, Is, Verdicts
    <2> HIDE DEF m
    <2>3. \A t, u \in Wishes : t # u /\ InPipeline(t, u, e) => InPipeline(t, u, e)'
      BY <1>1, <1>4 DEF Taken, InPipeline
    <2>4. /\ Asking(e)' => Asking(e)
          /\ Ending(e)' => Ending(e)
          /\ Carries(handling, "unsubscribe", e)' <=> Carries(handling, "unsubscribe", e)
          /\ Ending(e) => Ending(e)' \/ Is(m, "unsubscribe", e)
      BY <1>1, <1>4 DEF Asking, Ending, Taken
    <2>5. Reattaching' <=> Reattaching
      BY <1>1, <1>4, <2>2 DEF Taken, Reattaching, Asked, Told, Wishes
    <2>6. (Acknowledged(e)' <=> Acknowledged(e)) /\ (Withdrawn(e)' <=> Withdrawn(e))
      BY <1>1, <2>2 DEF Acknowledged, Withdrawn, Verdicts
    <2>7. Unbelieved(e) => Unbelieved(e)'
      <3>1. InPipeline("unsubscribe", "subscribe", e) => InPipeline("unsubscribe", "subscribe", e)'
        BY <2>3 DEF Wishes
      <3>2. /\ Carries(toClient, "subscribed", e)' <=> Carries(toClient, "subscribed", e)
            /\ notificationQueue' = notificationQueue
        BY <1>1, <2>2 DEF Verdicts
      <3> QED BY <1>2, <2>2, <2>4, <2>6, <3>1, <3>2 DEF Unbelieved, OneReply
    <2>8. Stale(e) => Stale(e)'
      BY <1>2, <2>4, <2>6 DEF Stale
    <2>9. ASSUME Believed(e), e \in subscribedEvents, ~Reattaching, connected
          PROVE  Believed(e)'
      <3>1. attached
        BY <2>9 DEF Link, DetachFirst, Untracked
      <3>2. Ending(e) => Ending(e)' \/ Withdrawn(e)
        BY <2>1, <2>4, <2>9, <3>1 DEF Believed
      <3>3. InPipeline("subscribe", "unsubscribe", e)'
        BY <2>3, <2>9 DEF Wishes, Believed
      <3> QED BY <1>2, <2>4, <2>6, <2>9, <3>2, <3>3 DEF Believed, Wanted
    <2> QED BY <1>2, <2>5, <2>7, <2>8, <2>9 DEF Belief
  <1> QED BY <1>3, <1>4, RequestMoves

(* To one event, a queue and what it became are alike.                     *)
Talk == Wishes \cup Verdicts
Alike(q, p, e) ==
    /\ \A t \in Talk : Carries(p, t, e) <=> Carries(q, t, e)
    /\ \A t, u \in Talk : t # u /\ BeforeFor(q, t, u, e) => BeforeFor(p, t, u, e)
    /\ \A t \in Talk : AtMostOneFor(q, t, e) => AtMostOneFor(p, t, e)

LEMMA AlikeIs ==
  /\ \A q, e : Alike(q, q, e)
  /\ \A q, p, r, e : Alike(q, p, e) /\ Alike(p, r, e) => Alike(q, r, e)
  /\ \A q, m, p, e : Added(q, m, p) /\ ~(m.type \in Talk /\ m.event = e) => Alike(q, p, e)
  /\ \A q, m, p, e : Taken(q, m, p) /\ ~(m.type \in Talk /\ m.event = e) => Alike(q, p, e)
  /\ \A q, p, e : Followed(q, "event", p) => Alike(q, p, e)
  <1>1. \A q, e : Alike(q, q, e)
    BY DEF Alike
  <1>2. \A q, p, r, e : Alike(q, p, e) /\ Alike(p, r, e) => Alike(q, r, e)
    BY DEF Alike
  <1>3. \A q, m, p, e : Added(q, m, p) /\ ~(m.type \in Talk /\ m.event = e) => Alike(q, p, e)
    BY DEF Added, Alike, Is
  <1>4. \A q, m, p, e : Taken(q, m, p) /\ ~(m.type \in Talk /\ m.event = e) => Alike(q, p, e)
    BY DEF Taken, Alike, Is
  <1>5. \A q, p, e : Followed(q, "event", p) => Alike(q, p, e)
    BY DEF Followed, Alike, Talk, Wishes, Verdicts
  <1> QED BY <1>1, <1>2, <1>3, <1>4, <1>5

LEMMA AlikeSays ==
  ASSUME NEW q, NEW p, NEW e, Alike(q, p, e)
  PROVE  /\ Carries(p, "subscribe", e) <=> Carries(q, "subscribe", e)
         /\ Carries(p, "unsubscribe", e) <=> Carries(q, "unsubscribe", e)
         /\ Carries(p, "subscribed", e) <=> Carries(q, "subscribed", e)
         /\ Carries(p, "unsubscribed", e) <=> Carries(q, "unsubscribed", e)
         /\ BeforeFor(q, "subscribe", "unsubscribe", e) => BeforeFor(p, "subscribe", "unsubscribe", e)
         /\ BeforeFor(q, "unsubscribe", "subscribe", e) => BeforeFor(p, "unsubscribe", "subscribe", e)
         /\ BeforeFor(q, "unsubscribed", "subscribed", e) => BeforeFor(p, "unsubscribed", "subscribed", e)
         /\ AtMostOneFor(q, "subscribed", e) => AtMostOneFor(p, "subscribed", e)
  BY DEF Alike, Talk, Wishes, Verdicts

LEMMA AlikeKeepsBelief ==
  ASSUME NEW e \in Event, Belief(e),
         Alike(toServer, toServer', e), Alike(handling, handling', e),
         Alike(toClient, toClient', e), Alike(notificationQueue, notificationQueue', e),
         e \in eventSubscriptions' <=> e \in eventSubscriptions,
         e \in subscribedEvents' <=> e \in subscribedEvents,
         e \in reconciling' => e \in reconciling,
         listeners'[e] = listeners[e], connected' => connected,
         releases' = 0 => releases = 0,
         e \in subscribedEvents /\ connected => (Reattaching' <=> Reattaching)
  PROVE  Belief(e)'
  <1>1. /\ Asking(e)' <=> Asking(e)
        /\ Ending(e)' <=> Ending(e)
        /\ Acknowledged(e)' <=> Acknowledged(e)
        /\ Withdrawn(e)' <=> Withdrawn(e)
    BY AlikeSays DEF Asking, Ending, Acknowledged, Withdrawn
  <1>2. /\ InPipeline("unsubscribe", "subscribe", e) => InPipeline("unsubscribe", "subscribe", e)'
        /\ InPipeline("subscribe", "unsubscribe", e) => InPipeline("subscribe", "unsubscribe", e)'
    BY AlikeSays DEF InPipeline
  <1>3. Unbelieved(e) => Unbelieved(e)'
    BY <1>1, <1>2, AlikeSays DEF Unbelieved, OneReply
  <1>4. Believed(e) => Believed(e)'
    BY <1>1, <1>2 DEF Believed, Wanted
  <1>5. Stale(e) => Stale(e)'
    BY <1>1, AlikeSays DEF Stale
  <1> QED BY <1>3, <1>4, <1>5 DEF Belief

LEMMA SubscribeKeepsBelief ==
  ASSUME Types, Link, NEW e \in Event, Belief(e), FinishSubscribe
  PROVE  Belief(e)'
  <1> DEFINE m == Head(handling)
  <1>1. /\ m.type = "subscribe" /\ Taken(handling, m, handling') /\ attached' = attached
        /\ UNCHANGED <<toServer, session, proxy, notificationQueue>>
    BY HandlerResumes, SubscribeReplies DEF FinishSubscribe
  <1>2. UNCHANGED <<connected, releases, subscribedEvents, reconciling, listeners>>
    BY <1>1 DEF session, proxy
  <1>3. PICK a, p :
          /\ a.event = m.event /\ Added(p, a, toClient') /\ (p = toClient \/ Followed(toClient, "event", p))
          /\ \/ a.type = "failed" /\ eventSubscriptions' = eventSubscriptions
             \/ /\ a.type = "subscribed" /\ m.event \notin eventSubscriptions
                /\ eventSubscriptions' = eventSubscriptions \cup {m.event}
    BY SubscribeReplies DEF Replies
  <1> HIDE DEF m
  <1>4. Alike(toClient, p, e)
    BY <1>3, AlikeIs
  <1>5. Reattaching' <=> Reattaching
    BY <1>1, <1>3 DEF Taken, Added, Followed, Reattaching, Asked, Told
  <1>6. Alike(toServer, toServer', e) /\ Alike(notificationQueue, notificationQueue', e)
    BY <1>1, AlikeIs
  <1>7. CASE m.event # e
    <2>1. Alike(handling, handling', e) /\ Alike(p, toClient', e)
      BY <1>1, <1>3, <1>7, AlikeIs
    <2>2. Alike(toClient, toClient', e)
      BY <1>4, <2>1, AlikeIs
    <2> QED BY <1>2, <1>3, <1>5, <1>6, <1>7, <2>1, <2>2, AlikeKeepsBelief
  <1>8. CASE m.event = e
    <2>1. Is(m, "subscribe", e) /\ Carries(handling, "subscribe", e)
      BY <1>1, <1>8 DEF Is, Taken
    <2>2. /\ Carries(handling', "unsubscribe", e) <=> Carries(handling, "unsubscribe", e)
          /\ Carries(handling', "subscribe", e) => Carries(handling, "subscribe", e)
          /\ BeforeFor(handling, "unsubscribe", "subscribe", e) =>
               /\ BeforeFor(handling', "unsubscribe", "subscribe", e)
               /\ ~Carries(handling, "unsubscribe", e)
          /\ BeforeFor(handling, "subscribe", "unsubscribe", e) =>
               BeforeFor(handling', "subscribe", "unsubscribe", e)
      BY <1>1, <2>1 DEF Taken, Is
    <2>3. Asking(e)' => Asking(e)
      BY <1>1, <2>2 DEF Asking
    <2>4. (Ending(e)' <=> Ending(e)) /\ Asking(e)
      BY <1>1, <2>1, <2>2 DEF Ending, Asking
    <2>5. InPipeline("unsubscribe", "subscribe", e) =>
            InPipeline("unsubscribe", "subscribe", e)' /\ ~Ending(e)
      BY <1>1, <2>1, <2>2 DEF InPipeline, Ending
    <2>6. InPipeline("subscribe", "unsubscribe", e) => InPipeline("subscribe", "unsubscribe", e)'
      BY <1>1, <2>2 DEF InPipeline
    <2>7. ~Stale(e)
      BY <2>4 DEF Stale
    <2>8. CASE a.type = "failed" /\ eventSubscriptions' = eventSubscriptions
      <3>1. Alike(p, toClient', e)
        BY <1>3, <2>8, AlikeIs DEF Talk, Wishes, Verdicts
      <3>2. Alike(toClient, toClient', e)
        BY <1>4, <3>1, AlikeIs
      <3>3. /\ Acknowledged(e)' <=> Acknowledged(e)
            /\ Withdrawn(e)' <=> Withdrawn(e)
        BY <1>1, <3>2, AlikeSays DEF Acknowledged, Withdrawn
      <3>4. Unbelieved(e) => Unbelieved(e)'
        BY <1>1, <1>2, <2>4, <2>5, <2>8, <3>2, <3>3, AlikeSays DEF Unbelieved, OneReply
      <3>5. Believed(e) => Believed(e)'
        BY <1>2, <2>3, <2>4, <2>6, <2>8, <3>3 DEF Believed, Wanted
      <3> QED BY <1>2, <1>5, <2>7, <3>4, <3>5 DEF Belief
    <2>9. CASE /\ a.type = "subscribed" /\ m.event \notin eventSubscriptions
               /\ eventSubscriptions' = eventSubscriptions \cup {m.event}
      <3>1. ~Believed(e)
        BY <1>8, <2>4, <2>9 DEF Believed
      <3>2. connected
        BY <2>1, NothingHeld DEF Link, Silent
      <3>3. Unbelieved(e) /\ e \notin subscribedEvents
        BY <2>7, <3>1, <3>2 DEF Belief
      <3>4. /\ ~Acknowledged(e) /\ ~Carries(toClient, "subscribed", e) /\ ~Carries(notificationQueue, "subscribed", e)
            /\ ~Carries(p, "subscribed", e)
        BY <1>4, <1>8, <2>9, <3>3, AlikeSays DEF Unbelieved, OneReply, Acknowledged
      <3>5. Is(a, "subscribed", e)
        BY <1>3, <1>8, <2>9 DEF Is
      <3>6. Carries(toClient', "subscribed", e) /\ AtMostOneFor(p, "subscribed", e)
        BY <1>3, <3>4, <3>5, NoneIsOrdered DEF Added
      <3>7. AtMostOneFor(toClient', "subscribed", e)
        BY <1>3, <3>4, <3>6 DEF Added
      <3>8. BeforeFor(p, "unsubscribed", "subscribed", e)
        BY <3>4, NoneIsOrdered
      <3>9. BeforeFor(toClient', "unsubscribed", "subscribed", e)
        BY <1>3, <3>5, <3>8 DEF Added, Is
      <3>10. Unbelieved(e)'
        BY <1>1, <1>8, <2>4, <2>5, <2>9, <3>3, <3>4, <3>6, <3>7, <3>9 DEF Unbelieved, OneReply, Acknowledged
      <3> QED BY <1>2, <3>3, <3>10 DEF Belief
    <2> QED BY <1>3, <2>8, <2>9
  <1> QED BY <1>7, <1>8

LEMMA UnsubscribeKeepsBelief ==
  ASSUME Types, Link, NEW e \in Event, Belief(e), FinishUnsubscribe
  PROVE  Belief(e)'
  <1> DEFINE m == Head(handling)
  <1>1. /\ m.type = "unsubscribe" /\ Taken(handling, m, handling') /\ attached' = attached
        /\ UNCHANGED <<toServer, session, proxy, notificationQueue>>
    BY HandlerResumes, UnsubscribeReplies DEF FinishUnsubscribe
  <1>2. UNCHANGED <<connected, releases, subscribedEvents, reconciling, listeners>>
    BY <1>1 DEF session, proxy
  <1>3. PICK a : /\ a.type = "unsubscribed" /\ a.event = m.event /\ Added(toClient, a, toClient')
                 /\ eventSubscriptions' = eventSubscriptions \ {m.event}
    BY UnsubscribeReplies DEF Replies
  <1> HIDE DEF m
  <1>4. Reattaching' <=> Reattaching
    BY <1>1, <1>3 DEF Taken, Added, Reattaching, Asked, Told
  <1>5. Alike(toServer, toServer', e) /\ Alike(notificationQueue, notificationQueue', e)
    BY <1>1, AlikeIs
  <1>6. CASE m.event # e
    <2>1. Alike(handling, handling', e) /\ Alike(toClient, toClient', e)
      BY <1>1, <1>3, <1>6, AlikeIs
    <2> QED BY <1>2, <1>3, <1>4, <1>5, <1>6, <2>1, AlikeKeepsBelief
  <1>7. CASE m.event = e
    <2>1. Is(m, "unsubscribe", e) /\ Carries(handling, "unsubscribe", e) /\ Is(a, "unsubscribed", e)
      BY <1>1, <1>3, <1>7 DEF Is, Taken
    <2>2. /\ Carries(handling', "subscribe", e) <=> Carries(handling, "subscribe", e)
          /\ Carries(handling', "unsubscribe", e) => Carries(handling, "unsubscribe", e)
          /\ BeforeFor(handling, "subscribe", "unsubscribe", e) =>
               /\ BeforeFor(handling', "subscribe", "unsubscribe", e)
               /\ ~Carries(handling, "subscribe", e)
          /\ BeforeFor(handling, "unsubscribe", "subscribe", e) =>
               BeforeFor(handling', "unsubscribe", "subscribe", e)
      BY <1>1, <2>1 DEF Taken, Is
    <2>3. Ending(e)
      BY <2>1 DEF Ending
    <2>4. Withdrawn(e)' /\ (Acknowledged(e)' <=> Acknowledged(e))
      BY <1>1, <1>3, <2>1 DEF Withdrawn, Acknowledged, Added, Is
    <2>5. InPipeline("unsubscribe", "subscribe", e) => InPipeline("unsubscribe", "subscribe", e)'
      BY <1>1, <2>2 DEF InPipeline
    <2>6. InPipeline("subscribe", "unsubscribe", e) =>
            InPipeline("subscribe", "unsubscribe", e)' /\ ~Asking(e)'
      BY <1>1, <2>1, <2>2 DEF InPipeline, Asking
    <2>7. e \notin eventSubscriptions'
      BY <1>3, <1>7
    <2>8. Believed(e) => Believed(e)'
      BY <2>4, <2>6, <2>7 DEF Believed
    <2>9. Unbelieved(e) => Unbelieved(e)'
      <3> SUFFICES ASSUME Unbelieved(e) PROVE Unbelieved(e)'
        OBVIOUS
      <3>1. ~Acknowledged(e)'
        BY <2>3, <2>4 DEF Unbelieved, OneReply
      <3>2. ~Carries(toClient', "subscribed", e) /\ ~Carries(notificationQueue', "subscribed", e)
        BY <3>1 DEF Acknowledged
      <3> QED BY <2>5, <2>7, <3>1, <3>2, NoneIsOrdered DEF Unbelieved, OneReply
    <2>10. ~Stale(e)
      BY <2>1 DEF Stale
    <2> QED BY <1>2, <1>4, <2>8, <2>9, <2>10 DEF Belief
  <1> QED BY <1>6, <1>7

LEMMA AttachmentKeepsBelief ==
  ASSUME Types, Link, NEW e \in Event, Belief(e), FinishAttach \/ FinishDetach
  PROVE  Belief(e)'
  <1> DEFINE m == Head(handling)
  <1>1. /\ m.type \in {"attach", "detach"} /\ Taken(handling, m, handling')
        /\ UNCHANGED <<toServer, session, proxy, notificationQueue, eventSubscriptions>>
    BY HandlerResumes, AttachReplies DEF FinishAttach, FinishDetach
  <1>2. UNCHANGED <<connected, releases, subscribedEvents, reconciling, listeners>>
    BY <1>1 DEF session, proxy
  <1>3. \/ m.type = "detach" /\ toClient' = toClient
        \/ m.type = "attach" /\ \E a \in Answer : a.type = "attached" /\ Added(toClient, a, toClient')
    BY HandlerResumes, AttachReplies DEF FinishAttach, FinishDetach
  <1> HIDE DEF m
  <1>4. Alike(toServer, toServer', e) /\ Alike(notificationQueue, notificationQueue', e)
    BY <1>1, AlikeIs
  <1>5. Alike(handling, handling', e) /\ Alike(toClient, toClient', e)
    BY <1>1, <1>3, AlikeIs DEF Talk, Wishes, Verdicts
  <1>6. Reattaching' <=> Reattaching
    BY <1>1, <1>3 DEF Taken, Added, Reattaching, Asked, Told
  <1> QED BY <1>1, <1>2, <1>4, <1>5, <1>6, AlikeKeepsBelief

(* A turn speaks of one event, and of no attachment.                       *)
LEMMA TurnSays ==
  ASSUME NEW e \in Event, Turned(e)
  PROVE  /\ \A t : t \notin Wishes => (Has(toServer', t) <=> Has(toServer, t))
         /\ \A f \in Event : f # e => /\ Alike(toServer, toServer', f)
                                      /\ f \in reconciling' <=> f \in reconciling
  BY AlikeIs DEF Turned, Sent, Added, Wishes

(* A turn settles what is believed, whatever led to it.                    *)
LEMMA TurnSettles ==
  ASSUME NEW e \in Event, Turned(e), handling' = handling, connected' = connected,
         eventSubscriptions' = eventSubscriptions, Reattaching' <=> Reattaching,
         e \in subscribedEvents' /\ connected /\ Reattaching =>
           /\ e \notin eventSubscriptions /\ ~Asking(e) /\ ~Acknowledged(e)' /\ ~Withdrawn(e)'
           /\ ~Carries(handling, "unsubscribe", e),
         e \in subscribedEvents' /\ connected /\ ~Reattaching =>
           /\ ~Acknowledged(e)' /\ InPipeline("subscribe", "unsubscribe", e)
           /\ \/ e \in eventSubscriptions /\ ~Withdrawn(e)'
              \/ e \notin eventSubscriptions /\ Withdrawn(e)' /\ ~Asking(e),
         e \notin subscribedEvents' =>
           /\ InPipeline("unsubscribe", "subscribe", e)
           /\ e \in eventSubscriptions => ~Ending(e) /\ (releases' = 0 => Acknowledged(e)')
           /\ Acknowledged(e)' => e \in eventSubscriptions
           /\ OneReply(e)'
  PROVE  Belief(e)'
  <1>1. CASE /\ toServer' = toServer /\ e \notin reconciling'
             /\ (~connected \/ (listeners'[e] > 0 <=> e \in subscribedEvents'))
    <2>1. (Asking(e)' <=> Asking(e)) /\ (Ending(e)' <=> Ending(e))
      BY <1>1 DEF Asking, Ending
    <2>2. /\ InPipeline("subscribe", "unsubscribe", e) => InPipeline("subscribe", "unsubscribe", e)'
          /\ InPipeline("unsubscribe", "subscribe", e) => InPipeline("unsubscribe", "subscribe", e)'
      BY <1>1 DEF InPipeline
    <2> QED BY <1>1, <2>1, <2>2 DEF Belief, Stale, Believed, Unbelieved, Wanted
  <1>2. CASE connected /\ e \notin subscribedEvents' /\ Sent("subscribe", e)
    <2>1. PICK m : m.type = "subscribe" /\ m.event = e /\ Added(toServer, m, toServer')
      BY <1>2 DEF Sent
    <2>2. /\ Carries(toServer', "unsubscribe", e) <=> Carries(toServer, "unsubscribe", e)
          /\ BeforeFor(toServer, "unsubscribe", "subscribe", e) =>
               BeforeFor(toServer', "unsubscribe", "subscribe", e)
      BY <2>1 DEF Added, Is
    <2>3. Ending(e)' <=> Ending(e)
      BY <2>2 DEF Ending
    <2>4. InPipeline("unsubscribe", "subscribe", e) => InPipeline("unsubscribe", "subscribe", e)'
      BY <2>2 DEF InPipeline
    <2> QED BY <1>2, <2>3, <2>4 DEF Belief, Unbelieved
  <1>3. CASE connected /\ e \in subscribedEvents' /\ Sent("unsubscribe", e)
    <2>1. PICK m : m.type = "unsubscribe" /\ m.event = e /\ Added(toServer, m, toServer')
      BY <1>3 DEF Sent
    <2>2. /\ Carries(toServer', "subscribe", e) <=> Carries(toServer, "subscribe", e)
          /\ Carries(toServer', "unsubscribe", e)
          /\ BeforeFor(toServer, "subscribe", "unsubscribe", e) =>
               BeforeFor(toServer', "subscribe", "unsubscribe", e)
      BY <2>1 DEF Added, Is
    <2>3. (Asking(e)' <=> Asking(e)) /\ Ending(e)'
      BY <2>2 DEF Asking, Ending
    <2>4. InPipeline("subscribe", "unsubscribe", e) => InPipeline("subscribe", "unsubscribe", e)'
      BY <2>2 DEF InPipeline
    <2> QED BY <1>3, <2>3, <2>4 DEF Belief, Believed, Stale
  <1> QED BY <1>1, <1>2, <1>3 DEF Turned

LEMMA ListenerKeepsBelief ==
  ASSUME Types, Types', NEW e \in Event, Belief(e),
         NEW f \in Event, On(f) \/ Off(f) \/ \E r \in Revision : OnFrom(f, r)
  PROVE  Belief(e)'
  <1>1. /\ UNCHANGED <<server, toClient, session, notificationQueue, subscribedEvents>>
        /\ Reconcile(f)
        /\ \E n \in Int : listeners' = [listeners EXCEPT ![f] = n]
    <2>1. listeners[f] + 1 \in Int /\ listeners[f] - 1 \in Int
      BY PropertiesOfTypes, EventSubscriptionAssumption
    <2> QED BY <2>1 DEF On, Off, OnFrom
  <1>2. UNCHANGED <<handling, eventSubscriptions, connected, releases>>
    BY <1>1 DEF server, session
  <1>3. cursor' \in Position /\ eventCursors' \in [Event -> Stamps]
    BY DEF Types, ProxyTypes
  <1>4. \/ Turned(f)
        \/ (f \in reconciling \/ ~OnWire(f)) /\ UNCHANGED <<reconciling, toServer>>
    <2>1. CASE f \in reconciling \/ ~OnWire(f)
      BY <1>1, <2>1 DEF Reconcile
    <2>2. CASE ~(f \in reconciling \/ ~OnWire(f))
      <3>1. f \in Wire /\ Turn(f)
        BY <1>1, <2>2 DEF Reconcile, OnWire, Wire
      <3> QED BY <1>3, <3>1, TurnSends
    <2> QED BY <2>1, <2>2
  <1>5. Alike(handling, handling', e) /\ Alike(notificationQueue, notificationQueue', e) /\ Alike(toClient, toClient', e)
    BY <1>1, <1>2, AlikeIs
  <1>6. Reattaching' <=> Reattaching
    BY <1>1, <1>2, <1>4, TurnSays DEF Reattaching, Asked, Told, Wishes
  <1>7. e # f => listeners'[e] = listeners[e]
    BY <1>1, PropertiesOfTypes
  <1>8. CASE e # f
    <2>1. Alike(toServer, toServer', e) /\ (e \in reconciling' => e \in reconciling)
      BY <1>4, <1>8, AlikeIs, TurnSays
    <2> QED BY <1>1, <1>2, <1>5, <1>6, <1>7, <1>8, <2>1, AlikeKeepsBelief
  <1>9. CASE e = f /\ Turned(f)
    <2>1. (Acknowledged(e)' <=> Acknowledged(e)) /\ (Withdrawn(e)' <=> Withdrawn(e)) /\ (OneReply(e)' <=> OneReply(e))
      BY <1>1 DEF Acknowledged, Withdrawn, OneReply
    <2>2. Turned(e)
      BY <1>9
    <2>3. e \in subscribedEvents' /\ connected /\ Reattaching =>
           /\ e \notin eventSubscriptions /\ ~Asking(e) /\ ~Acknowledged(e)' /\ ~Withdrawn(e)'
           /\ ~Carries(handling, "unsubscribe", e)
      BY <1>1, <2>1 DEF Belief, Stale
    <2>4. e \in subscribedEvents' /\ connected /\ ~Reattaching =>
           /\ ~Acknowledged(e)' /\ InPipeline("subscribe", "unsubscribe", e)
           /\ \/ e \in eventSubscriptions /\ ~Withdrawn(e)'
              \/ e \notin eventSubscriptions /\ Withdrawn(e)' /\ ~Asking(e)
      BY <1>1, <2>1 DEF Belief, Believed
    <2>5. e \notin subscribedEvents' =>
           /\ InPipeline("unsubscribe", "subscribe", e)
           /\ e \in eventSubscriptions => ~Ending(e) /\ (releases' = 0 => Acknowledged(e)')
           /\ Acknowledged(e)' => e \in eventSubscriptions
           /\ OneReply(e)'
      BY <1>1, <1>2, <2>1 DEF Belief, Unbelieved
    <2> QED BY <1>2, <1>6, <2>2, <2>3, <2>4, <2>5, TurnSettles
  <1>10. CASE /\ e = f /\ (f \in reconciling \/ ~OnWire(f))
              /\ UNCHANGED <<reconciling, toServer>>
    <2>1. e \in subscribedEvents => e \in reconciling
      BY <1>10, PropertiesOfTypes DEF OnWire, Wire
    <2>2. /\ Asking(e)' <=> Asking(e)
          /\ Ending(e)' <=> Ending(e)
          /\ Acknowledged(e)' <=> Acknowledged(e)
          /\ Withdrawn(e)' <=> Withdrawn(e)
          /\ OneReply(e)' <=> OneReply(e)
          /\ InPipeline("subscribe", "unsubscribe", e)' <=> InPipeline("subscribe", "unsubscribe", e)
          /\ InPipeline("unsubscribe", "subscribe", e)' <=> InPipeline("unsubscribe", "subscribe", e)
      BY <1>1, <1>2, <1>10 DEF Asking, Ending, Acknowledged, Withdrawn, OneReply, InPipeline
    <2>3. (Unbelieved(e) => Unbelieved(e)') /\ (Stale(e) => Stale(e)')
      BY <1>2, <2>2 DEF Unbelieved, Stale
    <2>4. e \in subscribedEvents /\ Believed(e) => Believed(e)'
      BY <1>2, <2>1, <2>2 DEF Believed
    <2> QED BY <1>1, <1>2, <1>6, <2>3, <2>4 DEF Belief
  <1> QED BY <1>4, <1>8, <1>9, <1>10

LEMMA NotificationKeepsBelief ==
  ASSUME Types, Link, NEW e \in Event, Belief(e),
         ReceiveNotification \/ ReceiveSubscribed \/ ReceiveFailed
  PROVE  Belief(e)'
  <1> DEFINE m == Head(toClient)
  <1>1. /\ toClient # <<>> /\ m \in Answer /\ Taken(toClient, m, toClient')
        /\ m.type \in {"event", "property", "subscribed", "failed"}
    BY FrameTakes DEF ReceiveNotification, ReceiveSubscribed, ReceiveFailed
  <1>2. UNCHANGED <<server, session, toServer, subscribedEvents, listeners>> /\ reconciling' \subseteq reconciling
    BY DEF ReceiveNotification, ReceiveSubscribed, ReceiveFailed, Abandon, proxy
  <1>3. UNCHANGED <<connected, releases, attached, eventSubscriptions, handling>> /\ connected
    BY <1>1, <1>2, SilentMeansConnected DEF Link, session, server
  <1>4. \/ m.type = "failed" /\ notificationQueue' = notificationQueue
        \/ m.type \in {"event", "property", "subscribed"} /\ Added(notificationQueue, m, notificationQueue')
    <2>1. CASE ReceiveFailed
      BY <2>1 DEF ReceiveFailed, Frame
    <2>2. CASE ReceiveNotification \/ ReceiveSubscribed
      <3>1. m.type \in {"event", "property", "subscribed"} /\ notificationQueue' = Append(notificationQueue, m)
        BY <2>2 DEF ReceiveNotification, ReceiveSubscribed, Frame, Queued, Barrier
      <3>2. m \in Deferred
        BY <1>1, <3>1, AnswersHave
      <3> QED BY <3>1, <3>2, PropertiesOfTypes, AppendAdds
    <2> QED BY <2>1, <2>2
  <1> HIDE DEF m
  <1>5. Reattaching' <=> Reattaching
    BY <1>1, <1>2, <1>3 DEF Taken, Reattaching, Asked, Told
  <1>6. Alike(toServer, toServer', e) /\ Alike(handling, handling', e)
    BY <1>2, <1>3, AlikeIs
  <1>7. CASE ~Is(m, "subscribed", e)
    <2>1. ~(m.type \in Talk /\ m.event = e)
      BY <1>1, <1>7 DEF Is, Talk, Wishes, Verdicts
    <2>2. Alike(toClient, toClient', e) /\ Alike(notificationQueue, notificationQueue', e)
      BY <1>1, <1>4, <2>1, AlikeIs
    <2> QED BY <1>2, <1>3, <1>5, <1>6, <2>2, AlikeKeepsBelief
  <1>8. CASE Is(m, "subscribed", e)
    <2>1. Carries(toClient, "subscribed", e) /\ Acknowledged(e)
      BY <1>1, <1>8 DEF Taken, Acknowledged
    <2>2. e \notin subscribedEvents /\ Unbelieved(e)
      BY <1>3, <2>1 DEF Belief, Stale, Believed
    <2>3. Added(notificationQueue, m, notificationQueue')
      BY <1>4, <1>8 DEF Is
    <2>4. ~Carries(notificationQueue, "subscribed", e) /\ ~Carries(toClient', "subscribed", e)
      BY <1>1, <1>8, <2>1, <2>2 DEF Unbelieved, OneReply, Taken
    <2>5. Carries(notificationQueue', "subscribed", e) /\ AtMostOneFor(notificationQueue', "subscribed", e)
      BY <1>8, <2>2, <2>3, <2>4 DEF Unbelieved, OneReply, Added
    <2>6. ~Carries(toClient', "unsubscribed", e)
      BY <1>1, <1>8, <2>2 DEF Unbelieved, OneReply, Taken
    <2>7. OneReply(e)' /\ Acknowledged(e)'
      BY <2>4, <2>5, <2>6, NoneIsOrdered DEF OneReply, Acknowledged, Withdrawn
    <2>8. InPipeline("unsubscribe", "subscribe", e)' /\ (Ending(e)' <=> Ending(e))
      BY <1>2, <1>3, <2>2 DEF InPipeline, Unbelieved, Ending
    <2>9. Unbelieved(e)'
      BY <1>3, <2>1, <2>2, <2>7, <2>8 DEF Unbelieved
    <2> QED BY <1>2, <2>2, <2>9 DEF Belief
  <1> QED BY <1>7, <1>8

LEMMA WithdrawalKeepsBelief ==
  ASSUME Types, Types', Link, NEW e \in Event, Belief(e), ReceiveUnsubscribed
  PROVE  Belief(e)'
  <1> DEFINE m == Head(toClient)
  <1>1. /\ toClient # <<>> /\ m \in Answer /\ Taken(toClient, m, toClient') /\ m.type = "unsubscribed"
        /\ UNCHANGED <<server, session, notificationQueue, listeners>>
        /\ subscribedEvents' = subscribedEvents \ {m.event} /\ Turn(m.event)
    BY FrameTakes DEF ReceiveUnsubscribed
  <1>2. m.event \in Wire /\ m.event \in Event
    BY <1>1, AnswersHave, WireIsEvents
  <1>3. Turned(m.event)
    BY <1>1, <1>2, TurnSends DEF Types, ProxyTypes
  <1>4. UNCHANGED <<connected, releases, attached, eventSubscriptions, handling>> /\ connected
    BY <1>1, SilentMeansConnected DEF Link, session, server
  <1> HIDE DEF m
  <1>5. Reattaching' <=> Reattaching
    BY <1>1, <1>2, <1>3, <1>4, TurnSays DEF Taken, Reattaching, Asked, Told, Wishes
  <1>6. CASE m.event # e
    <2>1. Alike(toClient, toClient', e) /\ Alike(notificationQueue, notificationQueue', e) /\ Alike(handling, handling', e)
      BY <1>1, <1>4, <1>6, AlikeIs
    <2>2. Alike(toServer, toServer', e) /\ (e \in reconciling' => e \in reconciling)
      BY <1>2, <1>3, <1>6, TurnSays
    <2> QED BY <1>1, <1>4, <1>5, <1>6, <2>1, <2>2, AlikeKeepsBelief
  <1>7. CASE m.event = e
    <2>1. Withdrawn(e) /\ e \notin subscribedEvents' /\ Turned(e)
      BY <1>1, <1>3, <1>7 DEF Withdrawn, Taken, Is
    <2>2. Acknowledged(e)' <=> Acknowledged(e)
      BY <1>1 DEF Taken, Is, Acknowledged
    <2>3. /\ InPipeline("unsubscribe", "subscribe", e)
          /\ e \in eventSubscriptions => ~Ending(e) /\ (releases' = 0 => Acknowledged(e)')
          /\ Acknowledged(e)' => e \in eventSubscriptions
          /\ OneReply(e)'
      <3>1. CASE e \in subscribedEvents
        <4>1. Believed(e)
          BY <1>4, <2>1, <3>1 DEF Belief, Stale
        <4>2. e \notin eventSubscriptions /\ ~Asking(e) /\ ~Acknowledged(e)'
          BY <2>1, <2>2, <4>1 DEF Believed
        <4>3. InPipeline("unsubscribe", "subscribe", e)
          BY <4>2, NoneIsOrdered DEF InPipeline, Asking
        <4>4. OneReply(e)'
          BY <4>2, NoneIsOrdered DEF OneReply, Acknowledged
        <4> QED BY <4>2, <4>3, <4>4
      <3>2. CASE e \notin subscribedEvents
        <4>1. Unbelieved(e)
          BY <3>2 DEF Belief
        <4>2. OneReply(e)'
          <5>1. /\ AtMostOneFor(toClient', "subscribed", e) /\ BeforeFor(toClient', "unsubscribed", "subscribed", e)
                /\ Carries(toClient', "subscribed", e) => Carries(toClient, "subscribed", e)
                /\ Withdrawn(e)' => Withdrawn(e)
            BY <1>1, <4>1 DEF Unbelieved, OneReply, Taken, Withdrawn
          <5> QED BY <1>1, <4>1, <5>1 DEF Unbelieved, OneReply
        <4> QED BY <1>4, <2>2, <4>1, <4>2 DEF Unbelieved
      <3> QED BY <3>1, <3>2
    <2> QED BY <1>2, <1>4, <1>5, <1>7, <2>1, <2>3, TurnSettles
  <1> QED BY <1>6, <1>7

LEMMA ProcessKeepsBelief ==
  ASSUME Types, Types', Link, NEW e \in Event, Belief(e), ProcessNotification
  PROVE  Belief(e)'
  <1> DEFINE m == Head(notificationQueue)
  <1>1. /\ notificationQueue # <<>> /\ m \in Deferred /\ Taken(notificationQueue, m, notificationQueue')
        /\ UNCHANGED <<server, toClient, session, listeners>>
    BY QueueTakes
  <1>2. UNCHANGED <<connected, releases, attached, eventSubscriptions, handling>> /\ connected
    BY <1>1, SilentMeansConnected DEF Link, session, server
  <1>3. Alike(toClient, toClient', e) /\ Alike(handling, handling', e)
    BY <1>1, <1>2, AlikeIs
  <1>4. CASE m.type # "subscribed"
    <2>1. UNCHANGED <<subscribedEvents, reconciling, toServer>>
      BY <1>4, QueueTakes
    <2>2. m.type \in {"event", "property"}
      BY <1>1, <1>4 DEF Deferred, Occurrence, Acknowledgement
    <2> HIDE DEF m
    <2>3. Alike(notificationQueue, notificationQueue', e) /\ Alike(toServer, toServer', e)
      BY <1>1, <2>1, <2>2, AlikeIs DEF Talk, Wishes, Verdicts
    <2>4. Reattaching' <=> Reattaching
      BY <1>1, <1>2, <2>1 DEF Reattaching, Asked, Told
    <2> QED BY <1>1, <1>2, <1>3, <2>1, <2>3, <2>4, AlikeKeepsBelief
  <1>5. CASE m.type = "subscribed"
    <2>1. /\ m.event \in Wire /\ Turn(m.event)
          /\ subscribedEvents' = subscribedEvents \cup {m.event}
      BY <1>5, QueueTakes
    <2>2. m.event \in Event /\ Turned(m.event)
      BY <2>1, WireIsEvents, TurnSends DEF Types, ProxyTypes
    <2> HIDE DEF m
    <2>3. Reattaching' <=> Reattaching
      BY <1>1, <1>2, <2>2, TurnSays DEF Reattaching, Asked, Told, Wishes
    <2>4. CASE m.event # e
      <3>1. Alike(notificationQueue, notificationQueue', e)
        BY <1>1, <2>4, AlikeIs
      <3>2. Alike(toServer, toServer', e) /\ (e \in reconciling' => e \in reconciling)
        BY <2>2, <2>4, TurnSays
      <3> QED BY <1>1, <1>2, <1>3, <2>1, <2>3, <2>4, <3>1, <3>2, AlikeKeepsBelief
    <2>5. CASE m.event = e
      <3>1. Is(m, "subscribed", e) /\ Carries(notificationQueue, "subscribed", e) /\ Acknowledged(e)
        BY <1>1, <1>5, <2>5 DEF Is, Taken, Acknowledged
      <3>2. e \notin subscribedEvents /\ Unbelieved(e)
        BY <1>2, <3>1 DEF Belief, Stale, Believed
      <3>3. ~Reattaching
        BY <3>1, CarriedIsHad DEF Link, AttachFirst
      <3>4. e \in eventSubscriptions /\ ~Ending(e) /\ ~Withdrawn(e)
        BY <3>1, <3>2 DEF Unbelieved, OneReply
      <3>5. ~Carries(toClient, "subscribed", e) /\ ~Carries(notificationQueue', "subscribed", e)
        BY <1>1, <3>1, <3>2 DEF Unbelieved, OneReply, Taken
      <3>6. ~Acknowledged(e)' /\ ~Withdrawn(e)'
        BY <1>1, <3>4, <3>5 DEF Acknowledged, Withdrawn
      <3>7. InPipeline("subscribe", "unsubscribe", e)
        BY <3>4, NoneIsOrdered DEF InPipeline, Ending
      <3>8. e \in subscribedEvents' /\ Turned(e)
        BY <2>1, <2>2, <2>5
      <3> QED BY <1>2, <2>3, <3>3, <3>4, <3>6, <3>7, <3>8, TurnSettles
    <2> QED BY <2>4, <2>5
  <1> QED BY <1>4, <1>5

LEMMA DropKeepsBelief ==
  ASSUME Types, NEW e \in Event, Disconnect \/ Restart
  PROVE  Belief(e)'
  <1>1. /\ connected' = FALSE /\ toServer' = <<>> /\ toClient' = <<>> /\ handling' = <<>>
        /\ notificationQueue' = <<>> /\ eventSubscriptions' = {}
    BY DEF Disconnect, Restart, DropConnection
  <1> QED BY <1>1, NothingHeld DEF Belief, Unbelieved, OneReply, InPipeline, Ending, Acknowledged, Withdrawn

LEMMA ReconnectKeepsBelief ==
  ASSUME Types, Link, NEW e \in Event, Belief(e), Reconnect
  PROVE  Belief(e)'
  <1>1. /\ toServer = <<>> /\ handling = <<>> /\ toClient = <<>> /\ notificationQueue = <<>>
        /\ eventSubscriptions = {}
        /\ toServer' = IF tracked THEN <<[type |-> "attach"]>> ELSE <<>>
        /\ UNCHANGED <<handling, toClient, notificationQueue, eventSubscriptions, subscribedEvents>>
    BY DEF Reconnect, Link, Silent, server, proxy
  <1>2. /\ \A t, f : ~Carries(handling', t, f) /\ ~Carries(toClient', t, f) /\ ~Carries(notificationQueue', t, f)
        /\ \A t \in Wishes : ~Carries(toServer', t, e)
    <2>1. CASE tracked
      <3>1. PICK m \in Request : m = [type |-> "attach"]
        BY MessagesAre
      <3>2. m.type = "attach" /\ toServer' = Append(toServer, m) /\ toServer \in Seq(Request)
        BY <1>1, <2>1, <3>1, PropertiesOfTypes
      <3>3. Added(toServer, m, toServer')
        BY <3>2, AppendAdds
      <3> QED BY <1>1, <3>2, <3>3, NothingHeld DEF Added, Is, Wishes
    <2>2. CASE ~tracked
      BY <1>1, <2>2, NothingHeld
    <2> QED BY <2>1, <2>2
  <1>3. Unbelieved(e)' /\ Stale(e)'
    BY <1>1, <1>2, NoneIsOrdered DEF Unbelieved, Stale, OneReply, InPipeline, Asking, Ending, Acknowledged,
                                     Withdrawn, Wishes
  <1>4. e \in subscribedEvents' => Reattaching'
    <2> SUFFICES ASSUME e \in subscribedEvents' PROVE Reattaching'
      OBVIOUS
    <2>1. tracked
      BY <1>1 DEF Link, Untracked
    <2>2. PICK m \in Request : m = [type |-> "attach"]
      BY MessagesAre
    <2>3. m.type = "attach" /\ toServer' = Append(toServer, m) /\ toServer \in Seq(Request)
      BY <1>1, <2>1, <2>2, PropertiesOfTypes
    <2>4. Added(toServer, m, toServer')
      BY <2>3, AppendAdds
    <2> QED BY <2>3, <2>4 DEF Added, Reattaching, Asked
  <1> QED BY <1>3, <1>4 DEF Belief

LEMMA AttachedKeepsBelief ==
  ASSUME Types, Types', Link, NEW e \in Event, Belief(e), ReceiveAttached
  PROVE  Belief(e)'
  <1> DEFINE m == Head(toClient)
  <1>1. /\ m.type = "attached" /\ Taken(toClient, m, toClient') /\ toClient # <<>>
        /\ UNCHANGED <<server, session, listeners, notificationQueue>>
    BY AttachedMoves
  <1>2. UNCHANGED <<connected, releases, eventSubscriptions, handling>> /\ connected
    BY <1>1, SilentMeansConnected DEF Link, session, server
  <1> HIDE DEF m
  <1>3. /\ Alike(toClient, toClient', e) /\ Alike(handling, handling', e)
        /\ Alike(notificationQueue, notificationQueue', e)
    BY <1>1, <1>2, AlikeIs DEF Talk, Wishes, Verdicts
  <1>4. CASE ~tracked
    <2>1. UNCHANGED <<subscribedEvents, reconciling, toServer>> /\ e \notin subscribedEvents
      BY <1>4, AttachedMoves DEF Link, Untracked
    <2>2. Alike(toServer, toServer', e)
      BY <2>1, AlikeIs
    <2> QED BY <1>1, <1>2, <1>3, <2>1, <2>2, AlikeKeepsBelief
  <1>5. CASE tracked
    <2>1. subscribedEvents' = {} /\ Followed(toServer, "subscribe", toServer')
      BY <1>5, AttachedMoves
    <2>2. /\ Carries(toServer', "unsubscribe", e) <=> Carries(toServer, "unsubscribe", e)
          /\ BeforeFor(toServer, "unsubscribe", "subscribe", e) =>
               BeforeFor(toServer', "unsubscribe", "subscribe", e)
      BY <2>1 DEF Followed
    <2>3. (Ending(e)' <=> Ending(e)) /\ (Acknowledged(e)' <=> Acknowledged(e)) /\ (Withdrawn(e)' <=> Withdrawn(e))
      BY <1>2, <1>3, <2>2, AlikeSays DEF Ending, Acknowledged, Withdrawn
    <2>4. InPipeline("unsubscribe", "subscribe", e) => InPipeline("unsubscribe", "subscribe", e)'
      BY <1>2, <2>2 DEF InPipeline
    <2>5. CASE e \notin subscribedEvents
      <3>1. Unbelieved(e)
        BY <2>5 DEF Belief
      <3>2. OneReply(e)'
        BY <1>1, <1>3, <2>3, <3>1, AlikeSays DEF Unbelieved, OneReply
      <3>3. Unbelieved(e)'
        BY <1>2, <2>3, <2>4, <3>1, <3>2 DEF Unbelieved
      <3> QED BY <2>1, <3>3 DEF Belief
    <2>6. CASE e \in subscribedEvents
      <3>1. Has(toClient, "attached")
        BY <1>1 DEF Taken
      <3>2. Stale(e)
        BY <1>2, <2>6, <3>1 DEF Belief, Reattaching, Told
      <3>3. InPipeline("unsubscribe", "subscribe", e)
        BY <3>2, NoneIsOrdered DEF Stale, Asking, InPipeline
      <3>4. e \notin eventSubscriptions' /\ ~Acknowledged(e)'
        BY <1>2, <2>3, <3>2 DEF Stale
      <3>5. OneReply(e)'
        BY <3>4, NoneIsOrdered DEF OneReply, Acknowledged
      <3>6. Unbelieved(e)'
        BY <2>4, <3>3, <3>4, <3>5 DEF Unbelieved
      <3> QED BY <2>1, <3>6 DEF Belief
    <2> QED BY <2>5, <2>6
  <1> QED BY <1>4, <1>5

LEMMA ReleaseKeepsBelief ==
  ASSUME Types, NEW e \in Event, Release
  PROVE  Belief(e)'
  <1>1. /\ toServer' = Append(toServer, [type |-> "detach"])
        /\ UNCHANGED <<handling, toClient, notificationQueue>>
        /\ releases' = releases + 1 /\ subscribedEvents' = {}
    BY DEF Release, server
  <1>2. /\ \A t \in Talk : ~Has(toServer, t) /\ ~Has(handling, t) /\ ~Has(toClient, t)
        /\ ~Has(notificationQueue, "subscribed")
    BY DEF Release, Has, Talk, Wishes, Verdicts
  <1>3. PICK m \in Request : m = [type |-> "detach"]
    BY MessagesAre
  <1>4. m.type = "detach" /\ Added(toServer, m, toServer')
    BY <1>1, <1>3, PropertiesOfTypes, AppendAdds
  <1>5. releases' # 0
    BY <1>1, EventSubscriptionAssumption DEF Types, SessionTypes
  <1>6. /\ ~Carries(toServer', "subscribe", e) /\ ~Carries(toServer', "unsubscribe", e)
        /\ ~Carries(handling', "subscribe", e) /\ ~Carries(handling', "unsubscribe", e)
        /\ ~Carries(toClient', "subscribed", e) /\ ~Carries(toClient', "unsubscribed", e)
        /\ ~Carries(notificationQueue', "subscribed", e)
    BY <1>1, <1>2, <1>4, CarriedIsHad DEF Added, Is, Talk, Wishes, Verdicts
  <1>7. Unbelieved(e)'
    BY <1>5, <1>6, NoneIsOrdered DEF Unbelieved, OneReply, InPipeline, Ending, Acknowledged, Withdrawn
  <1> QED BY <1>1, <1>7 DEF Belief

LEMMA AttachKeepsBelief ==
  ASSUME Types, Link, NEW e \in Event, Belief(e), Attach
  PROVE  Belief(e)'
  <1>1. /\ ~tracked /\ toServer' = Append(toServer, [type |-> "attach"])
        /\ UNCHANGED <<handling, toClient, notificationQueue, connected, eventSubscriptions,
                       reconciling, releases, listeners, subscribedEvents>>
    BY DEF Attach, server, session, proxy
  <1>2. PICK m \in Request : m = [type |-> "attach"]
    BY MessagesAre
  <1>3. m.type = "attach" /\ Added(toServer, m, toServer')
    BY <1>1, <1>2, PropertiesOfTypes, AppendAdds
  <1>4. e \notin subscribedEvents
    BY <1>1 DEF Link, Untracked
  <1>5. /\ Alike(toServer, toServer', e) /\ Alike(handling, handling', e)
        /\ Alike(toClient, toClient', e) /\ Alike(notificationQueue, notificationQueue', e)
    BY <1>1, <1>3, AlikeIs DEF Talk, Wishes, Verdicts
  <1> QED BY <1>1, <1>4, <1>5, AlikeKeepsBelief

(* What the proxy believes of every event is so, or word of it is on its   *)
(* way: reconcileSubscription and the handlers of subscribe, unsubscribe,  *)
(* attach and reattach, whatever order their messages arrive in.           *)
THEOREM BeliefsInvariance == Spec => []Beliefs
  <1>1. Types /\ Types' /\ Link /\ Beliefs /\ [Next]_vars => Beliefs'
    <2> SUFFICES ASSUME Types, Types', Link, Beliefs, [Next]_vars, NEW e \in Event
                 PROVE  Belief(e)'
      BY DEF Beliefs
    <2>1. Belief(e)
      BY DEF Beliefs
    <2>2. CASE UNCHANGED vars
      BY <2>1, <2>2 DEF vars, server, session, proxy, Belief, Unbelieved, OneReply, Believed, Stale, InPipeline,
                        Asking, Ending, Acknowledged, Withdrawn, Wanted, Reattaching, Asked, Told
    <2>3. CASE Next
      BY <2>1, <2>3, ChangeKeepsBelief, RequestKeepsBelief, SubscribeKeepsBelief, UnsubscribeKeepsBelief,
         AttachmentKeepsBelief, ListenerKeepsBelief, NotificationKeepsBelief, WithdrawalKeepsBelief,
         ProcessKeepsBelief, DropKeepsBelief, ReconnectKeepsBelief, AttachedKeepsBelief, ReleaseKeepsBelief,
         AttachKeepsBelief
         DEF Next, Server, Client, Application
    <2> QED BY <2>2, <2>3
  <1> QED BY InitBeliefs, TypesInvariance, LinkInvariance, <1>1, PTL DEF Spec

LEMMA BeliefsAgreeAtRest == Types /\ Link /\ Beliefs => AgreeAtRest
  <1> SUFFICES ASSUME Types, Link, Beliefs, AtRest
               PROVE  /\ subscribedEvents \subseteq eventSubscriptions
                      /\ \A e \in subscribedEvents : Wanted(e)
                      /\ releases = 0 => eventSubscriptions \subseteq subscribedEvents
    BY DEF AgreeAtRest
  <1>1. /\ connected /\ reconciling = {}
        /\ toServer = <<>> /\ toClient = <<>> /\ handling = <<>> /\ notificationQueue = <<>>
    BY DEF AtRest
  <1>2. ~Reattaching /\ \A e : ~Ending(e) /\ ~Withdrawn(e) /\ ~Acknowledged(e)
    BY <1>1, NothingHeld DEF Reattaching, Asked, Told, Ending, Withdrawn, Acknowledged
  <1>3. subscribedEvents \subseteq Event /\ eventSubscriptions \subseteq Event
    BY WireIsEvents DEF Types, ProxyTypes
  <1>4. ASSUME NEW e \in subscribedEvents PROVE e \in eventSubscriptions /\ Wanted(e)
    BY <1>1, <1>2, <1>3 DEF Beliefs, Belief, Believed
  <1>5. ASSUME releases = 0, NEW e \in eventSubscriptions PROVE e \in subscribedEvents
    BY <1>2, <1>3, <1>5 DEF Beliefs, Belief, Unbelieved
  <1> QED BY <1>4, <1>5

(* At rest each event the proxy believes subscribed has listeners and the  *)
(* server delivers it; a proxy that was never released is delivered no     *)
(* other.  This is what on, off and reconcileSubscription leave behind; an *)
(* event with listeners whose subscription was refused stays without one.  *)
THEOREM AgreeAtRestAlways == Spec => []AgreeAtRest
  BY TypesInvariance, LinkInvariance, BeliefsInvariance, BeliefsAgreeAtRest, PTL

-----------------------------------------------------------------------------
(* The replay finds every occurrence that is retained after its cursor, in *)
(* the order of their revisions.                                           *)

LEMMA RanksGrow ==
  ASSUME NEW S \in SUBSET Nat, IsFiniteSet(S)
  PROVE  /\ Cardinality(S) \in Nat
         /\ \A r \in S : Rank(r, S) \in 1 .. Cardinality(S)
         /\ \A r, s \in S : r < s => Rank(r, S) < Rank(s, S)
  <1> DEFINE Below(r) == {y \in S : y <= r}
  <1>1. Cardinality(S) \in Nat
    BY FS_CardinalityType
  <1>2. \A r \in S : /\ IsFiniteSet(Below(r)) /\ Cardinality(Below(r)) \in 1 .. Cardinality(S)
                     /\ Below(r) \in SUBSET S
    <2> SUFFICES ASSUME NEW r \in S
                 PROVE  /\ IsFiniteSet(Below(r)) /\ Cardinality(Below(r)) \in 1 .. Cardinality(S)
                        /\ Below(r) \in SUBSET S
      OBVIOUS
    <2>1. Below(r) \in SUBSET S /\ r \in Below(r)
      OBVIOUS
    <2> HIDE DEF Below
    <2>2. IsFiniteSet(Below(r)) /\ Cardinality(Below(r)) <= Cardinality(S)
      BY <2>1, FS_Subset
    <2>3. Cardinality(Below(r)) \in Nat /\ Cardinality(Below(r)) # 0
      BY <2>1, <2>2, FS_CardinalityType, FS_EmptySet
    <2> QED BY <1>1, <2>1, <2>2, <2>3
  <1>3. \A r, s \in S : r < s => Cardinality(Below(r)) < Cardinality(Below(s))
    <2> SUFFICES ASSUME NEW r \in S, NEW s \in S, r < s
                 PROVE  Cardinality(Below(r)) < Cardinality(Below(s))
      OBVIOUS
    <2>1. Below(r) \in SUBSET Below(s) /\ s \in Below(s) /\ s \notin Below(r)
      <3>1. r \in Nat /\ s \in Nat /\ \A y \in S : y \in Nat
        OBVIOUS
      <3>2. \A y \in Nat : y <= r => y <= s
        BY <3>1
      <3>3. s <= s /\ ~(s <= r)
        BY <3>1
      <3> QED BY <3>1, <3>2, <3>3
    <2> HIDE DEF Below
    <2>2. /\ IsFiniteSet(Below(s))
          /\ Cardinality(Below(r)) \in Nat /\ Cardinality(Below(s)) \in Nat
      BY <1>1, <1>2
    <2> QED BY <2>1, <2>2, FS_Subset
  <1> QED BY <1>1, <1>2, <1>3 DEF Rank

(* A finite set of numbers that is not empty has a greatest.               *)
LEMMA GreatestIs ==
  ASSUME NEW S \in SUBSET Nat, IsFiniteSet(S), S # {}
  PROVE  \E g \in S : \A x \in S : x <= g
  <1> DEFINE n == Cardinality(S)
  <1>1. n \in Nat /\ n # 0
    BY FS_CardinalityType, FS_EmptySet
  <1>2. PICK g \in S : Rank(g, S) = n
    <2>1. n \in 1 .. n
      BY <1>1
    <2> QED BY <2>1, RankIsTaken
  <1>3. \A x \in S : x <= g
    <2> SUFFICES ASSUME NEW x \in S, g < x PROVE FALSE
      OBVIOUS
    <2>1. Rank(g, S) < Rank(x, S) /\ Rank(x, S) \in 1 .. n
      BY RanksGrow
    <2> QED BY <1>1, <1>2, <2>1
  <1> QED BY <1>3

(* InOrder lists the occurrences at some revisions, in their order.        *)
Lists(q, e, revs) ==
    /\ \A i \in DOMAIN q : /\ Is(q[i], "event", e) /\ q[i].cursor.gen = Head1.gen
                           /\ q[i].cursor.rev \in revs
    /\ \A r \in revs : \E i \in DOMAIN q : q[i].cursor.rev = r
    /\ \A i, j \in DOMAIN q : i < j => q[i].cursor.rev < q[j].cursor.rev

LEMMA InOrderLists ==
  ASSUME NEW e, NEW revs \in SUBSET Revision
  PROVE  Lists(InOrder(e, revs), e, revs)
  <1> DEFINE n == Cardinality(revs)
             At(i) == CHOOSE r \in revs : Rank(r, revs) = i
             q == InOrder(e, revs)
  <1>1. IsFiniteSet(revs) /\ revs \in SUBSET Nat
    BY RevisionsAreFinite, FS_Subset
  <1>2. /\ n \in Nat
        /\ \A r \in revs : Rank(r, revs) \in 1 .. n
        /\ \A r, s \in revs : r < s => Rank(r, revs) < Rank(s, revs)
    BY <1>1, RanksGrow
  <1>3. \A i \in 1 .. n : At(i) \in revs /\ Rank(At(i), revs) = i
    BY <1>1, RankIsTaken
  <1>4. DOMAIN q = 1 .. n /\ \A i \in 1 .. n : q[i] = Notice(e, Cursor(Head1.gen, At(i)))
    BY DEF InOrder
  <1>5. \A i \in 1 .. n : Is(q[i], "event", e) /\ q[i].cursor.gen = Head1.gen /\ q[i].cursor.rev = At(i)
    BY <1>4 DEF Notice, Cursor, Is
  <1> HIDE DEF q, At, n
  <1>6. \A r, s \in revs : Rank(r, revs) = Rank(s, revs) => r = s
    <2> SUFFICES ASSUME NEW r \in revs, NEW s \in revs, Rank(r, revs) = Rank(s, revs), r # s
                 PROVE  FALSE
      OBVIOUS
    <2>1. r \in Nat /\ s \in Nat
      BY <1>1
    <2>2. r < s \/ s < r
      BY <2>1
    <2>3. Rank(r, revs) \in Nat
      BY <1>2
    <2> QED BY <1>2, <2>2, <2>3
  <1>7. \A r \in revs : \E i \in 1 .. n : At(i) = r
    BY <1>2, <1>3, <1>6
  <1>8. \A i, j \in 1 .. n : i < j => At(i) < At(j)
    <2> SUFFICES ASSUME NEW i \in 1 .. n, NEW j \in 1 .. n, i < j, ~(At(i) < At(j))
                 PROVE  FALSE
      OBVIOUS
    <2>1. At(i) \in Nat /\ At(j) \in Nat
      BY <1>1, <1>3
    <2>2. At(j) < At(i) \/ At(i) = At(j)
      BY <2>1
    <2>3. i \in Nat /\ j \in Nat
      BY <1>2
    <2>4. CASE At(i) = At(j)
      BY <1>3, <2>3, <2>4
    <2>5. CASE At(j) < At(i)
      <3>1. Rank(At(j), revs) < Rank(At(i), revs)
        BY <1>2, <1>3, <2>5
      <3> QED BY <1>3, <2>3, <3>1
    <2> QED BY <2>2, <2>4, <2>5
  <1> QED BY <1>3, <1>4, <1>5, <1>7, <1>8 DEF Lists, q

(* What is retained of an event after a revision.                          *)
Left(e, at) ==
    {x \in {journal.entries[i] : i \in DOMAIN journal.entries} :
        x.rev > at /\ x.rev <= Head1.rev /\ x.member \in {e}}

Page(e, gen, at) == QueryJournal(journal, Cursor(gen, at), Head1.rev, {e}, PageLimit)

LEMMA EntriesAre ==
  ASSUME Types
  PROVE  \A i \in DOMAIN journal.entries :
           journal.entries[i].rev \in Revision /\ journal.entries[i].rev \in Nat
  <1> DEFINE R == [rev : Revision, member : Event \cup {Other}]
  <1>1. journal.entries \in Seq(R)
    BY DEF Types, JournalTypes
  <1>2. \A x \in R : x.rev \in Revision /\ x.rev \in Nat
    BY RevisionsAreFinite
  <1> HIDE DEF R
  <1> QED BY <1>1, <1>2

(* One turn of the page loop: the page is the beginning of what is left,   *)
(* and where the next one begins the rest of it is left.                   *)
LEMMA PageIs ==
  ASSUME Types, NEW e, NEW at \in Revision
  PROVE  LET p == Page(e, Head1.gen, at) IN
         /\ p.hasMore = (p.entries # Left(e, at))
         /\ p.entries \subseteq Left(e, at)
         /\ p.hasMore => /\ p.next.rev \in Revision /\ p.next.rev > at
                         /\ p.entries \cup Left(e, p.next.rev) = Left(e, at)
  <1> DEFINE L == Left(e, at)
             R == Revisions(L)
             page == {x \in L : Rank(x.rev, R) <= PageLimit}
             p == Page(e, Head1.gen, at)
             g == CHOOSE r \in Revisions(page) : \A q \in Revisions(page) : q <= r
  <1>1. Cursor(Head1.gen, at).gen = journal.head.gen /\ Cursor(Head1.gen, at).rev = at
    BY DEF Cursor, Head1
  <1>2. p.hasMore = (page # L) /\ p.entries = page
    BY <1>1 DEF Page, QueryJournal, Left
  <1>3. page # {} => p.next.rev = g
    BY <1>1 DEF Page, QueryJournal, Left, NextPage, Cursor
  <1>4. /\ \A x \in L : x.rev \in Revision /\ x.rev \in Nat /\ x.rev \in R /\ x.rev > at
        /\ R \subseteq Revision /\ Revisions(page) \subseteq R /\ at \in Nat
    <2>1. \A x \in {journal.entries[i] : i \in DOMAIN journal.entries} : x.rev \in Revision
      BY EntriesAre
    <2>2. \A x \in L : x.rev \in Revision /\ x.rev > at
      BY <2>1 DEF Left
    <2>3. Revision \subseteq Nat
      BY RevisionsAreFinite
    <2> HIDE DEF L
    <2> QED BY <2>2, <2>3 DEF Revisions
  <1>5. IsFiniteSet(R) /\ R \in SUBSET Nat /\ IsFiniteSet(Revisions(page)) /\ Revisions(page) \in SUBSET Nat
    <2>1. IsFiniteSet(R) /\ R \in SUBSET Nat
      <3> HIDE DEF R
      <3> QED BY <1>4, RevisionsAreFinite, FS_Subset
    <2> HIDE DEF R, page
    <2> QED BY <1>4, <2>1, FS_Subset
  <1>6. /\ \A r \in R : Rank(r, R) \in Nat
        /\ \A r, s \in R : r < s => Rank(r, R) < Rank(s, R)
        /\ Cardinality(R) \in Nat
    <2> HIDE DEF R
    <2> QED BY <1>5, RanksGrow
  <1>7. L # {} => page # {}
    <2> SUFFICES ASSUME NEW x \in L PROVE page # {}
      OBVIOUS
    <2>1. Cardinality(R) # 0
      <3>1. R # {}
        BY <1>4
      <3> HIDE DEF R
      <3> QED BY <1>5, <3>1, FS_EmptySet
    <2>2. 1 \in 1 .. Cardinality(R)
      BY <1>6, <2>1
    <2>3. PICK r \in R : Rank(r, R) = 1
      <3> HIDE DEF R
      <3> QED BY <1>5, <2>2, RankIsTaken
    <2>4. PICK y \in L : y.rev = r
      BY DEF Revisions
    <2>5. 1 <= PageLimit
      BY EventSubscriptionAssumption
    <2> HIDE DEF R, L
    <2> QED BY <2>3, <2>4, <2>5
  <1>8. ASSUME page # L
        PROVE  /\ p.next.rev \in Revision /\ p.next.rev > at
               /\ page \cup Left(e, p.next.rev) = L
    <2>1. page # {} /\ Revisions(page) # {}
      BY <1>7, <1>8 DEF Revisions
    <2>2. p.next.rev \in Revisions(page) /\ \A q \in Revisions(page) : q <= p.next.rev
      <3> DEFINE V == Revisions(page)
      <3>1. \E r \in V : \A q \in V : q <= r
        <4> HIDE DEF V, page
        <4>1. V \in SUBSET Nat /\ IsFiniteSet(V) /\ V # {}
          BY <1>5, <2>1 DEF V
        <4> QED BY <4>1, GreatestIs
      <3>2. g \in V /\ \A q \in V : q <= g
        <4>1. g = CHOOSE r \in V : \A q \in V : q <= r
          OBVIOUS
        <4> HIDE DEF V, g
        <4> QED BY <3>1, <4>1
      <3> HIDE DEF g, page
      <3> QED BY <1>3, <2>1, <3>2
    <2> DEFINE n == p.next.rev
    <2>3. PICK y \in page : y.rev = n
      BY <2>2 DEF Revisions
    <2> HIDE DEF p
    <2>4. y \in L /\ Rank(n, R) <= PageLimit /\ n \in R
      BY <1>4, <2>3
    <2>5. n \in Revision /\ n > at /\ n \in Nat
      BY <1>4, <2>3, <2>4
    <2> HIDE DEF n
    <2>6. \A x \in L : x.rev <= n => x \in page
      <3> SUFFICES ASSUME NEW x \in L, x.rev <= n PROVE Rank(x.rev, R) <= PageLimit
        OBVIOUS
      <3>1. x.rev \in R /\ x.rev \in Nat
        BY <1>4
      <3> HIDE DEF L, R
      <3>2. Rank(x.rev, R) <= Rank(n, R)
        <4>1. CASE x.rev = n
          BY <1>6, <2>4, <4>1
        <4>2. CASE x.rev < n
          <5>1. Rank(x.rev, R) < Rank(n, R) /\ Rank(x.rev, R) \in Nat /\ Rank(n, R) \in Nat
            BY <1>6, <2>4, <3>1, <4>2
          <5> QED BY <5>1
        <4> QED BY <2>5, <3>1, <4>1, <4>2
      <3> QED BY <1>6, <2>4, <3>1, <3>2, EventSubscriptionAssumption
    <2>7. \A x \in L : ~(x.rev <= n) => x \in Left(e, n)
      <3> SUFFICES ASSUME NEW x \in L, ~(x.rev <= n) PROVE x \in Left(e, n)
        OBVIOUS
      <3>1. x.rev > n
        BY <1>4, <2>5
      <3> QED BY <3>1 DEF Left
    <2>8. Left(e, n) \subseteq L
      <3> SUFFICES ASSUME NEW x \in Left(e, n) PROVE x \in L
        OBVIOUS
      <3>1. x \in {journal.entries[i] : i \in DOMAIN journal.entries} /\ x.rev > n
        BY DEF Left
      <3>2. x.rev \in Nat
        <4>1. PICK i \in DOMAIN journal.entries : x = journal.entries[i]
          BY <3>1
        <4> QED BY <4>1, EntriesAre
      <3>3. x.rev > at
        BY <1>4, <2>5, <3>1, <3>2
      <3> QED BY <3>1, <3>3 DEF Left
    <2> QED BY <2>5, <2>6, <2>7, <2>8 DEF n
  <1> QED BY <1>2, <1>8

(* What is left is entries of the event.                                   *)
LEMMA LeftAreEntries ==
  ASSUME Types, NEW e, NEW at
  PROVE  \A x \in Left(e, at) : x = Entry(x.rev, e)
  <1> DEFINE R == [rev : Revision, member : Event \cup {Other}]
  <1>1. \A i \in DOMAIN journal.entries : journal.entries[i] \in R
    <2>1. journal.entries \in Seq(R)
      BY DEF Types, JournalTypes
    <2> HIDE DEF R
    <2> QED BY <2>1
  <1>2. \A x \in R : x.member = e => x = Entry(x.rev, e)
    BY DEF Entry
  <1> HIDE DEF R
  <1> QED BY <1>1, <1>2 DEF Left

(* The pages together are all that is left: the loop of epRequestSubscribe *)
(* misses nothing and sends nothing twice, for every size of a page.  The  *)
(* recursion has that as its only solution, since a revision where another *)
(* differs, and the greatest such, would contradict it.                    *)
THEOREM ReplayReads ==
  ASSUME Types, NEW e, NEW after \in Position, after.gen = Head1.gen
  PROVE  Replay(e, after) = InOrder(e, {r \in Revision : Entry(r, e) \in Left(e, after.rev)})
  <1> DEFINE Turned1(F) == [at \in Revision |->
               LET page == QueryJournal(journal, Cursor(after.gen, at), Head1.rev, {e}, PageLimit)
               IN  page.entries \cup IF page.hasMore THEN F[page.next.rev] ELSE {}]
             Read == CHOOSE F : F = Turned1(F)
             All == [at \in Revision |-> Left(e, at)]
             P(at) == Page(e, Head1.gen, at)
  <1>1. Replay(e, after) = InOrder(e, Revision \cap Revisions(Read[after.rev]))
    BY DEF Replay
  <1>2. \A F : Turned1(F) = [at \in Revision |->
                 P(at).entries \cup IF P(at).hasMore THEN F[P(at).next.rev] ELSE {}]
    BY DEF Page
  <1>3. \A at \in Revision :
           /\ P(at).hasMore = (P(at).entries # Left(e, at))
           /\ P(at).entries \subseteq Left(e, at)
           /\ P(at).hasMore => /\ P(at).next.rev \in Revision /\ P(at).next.rev > at
                               /\ P(at).entries \cup Left(e, P(at).next.rev) = Left(e, at)
    BY PageIs
  <1> HIDE DEF P, Turned1
  <1>4. All = Turned1(All)
    <2>1. \A at \in Revision :
             P(at).entries \cup (IF P(at).hasMore THEN All[P(at).next.rev] ELSE {}) = Left(e, at)
      BY <1>3
    <2>2. Turned1(All) = [at \in Revision |-> Left(e, at)]
      BY <1>2, <2>1
    <2> QED BY <2>2
  <1>5. Read = Turned1(Read)
    BY <1>4
  <1> HIDE DEF Read
  <1>6. \A at \in Revision :
          Read[at] = P(at).entries \cup IF P(at).hasMore THEN Read[P(at).next.rev] ELSE {}
    BY <1>2, <1>5
  <1>7. \A at \in Revision : Read[at] = Left(e, at)
    <2> DEFINE Bad == {at \in Revision : Read[at] # Left(e, at)}
    <2>1. SUFFICES ASSUME Bad # {} PROVE FALSE
      OBVIOUS
    <2>2. Bad \in SUBSET Nat /\ IsFiniteSet(Bad)
      <3>1. Bad \in SUBSET Revision
        OBVIOUS
      <3> HIDE DEF Bad
      <3> QED BY <3>1, RevisionsAreFinite, FS_Subset
    <2>3. PICK b \in Bad : \A x \in Bad : x <= b
      <3> HIDE DEF Bad
      <3> QED BY <2>1, <2>2, GreatestIs
    <2>4. b \in Revision /\ b \in Nat
      BY RevisionsAreFinite
    <2>5. CASE ~P(b).hasMore
      <3>1. Read[b] = P(b).entries
        BY <1>6, <2>4, <2>5
      <3>2. P(b).entries = Left(e, b)
        BY <1>3, <2>4, <2>5
      <3> QED BY <2>3, <3>1, <3>2
    <2>6. CASE P(b).hasMore
      <3>0. Read[b] = P(b).entries \cup Read[P(b).next.rev]
        BY <1>6, <2>4, <2>6
      <3>1. P(b).next.rev \in Revision /\ P(b).next.rev > b
        BY <1>3, <2>4, <2>6
      <3>2. P(b).next.rev \notin Bad
        <4> SUFFICES ASSUME P(b).next.rev \in Bad PROVE FALSE
          OBVIOUS
        <4> DEFINE n == P(b).next.rev
        <4>1. n <= b /\ n > b /\ n \in Nat
          BY <2>2, <2>3, <3>1
        <4> HIDE DEF n
        <4> QED BY <2>4, <4>1
      <3>3. Read[P(b).next.rev] = Left(e, P(b).next.rev)
        BY <3>1, <3>2
      <3>4. Read[b] = Left(e, b)
        BY <1>3, <2>4, <2>6, <3>0, <3>3
      <3> QED BY <2>3, <3>4
    <2> HIDE DEF Bad
    <2>7. P(b).hasMore \/ ~P(b).hasMore
      OBVIOUS
    <2> QED BY ONLY <2>5, <2>6, <2>7
  <1>8. after.rev \in Revision
    BY DEF Position
  <1>9. \A r \in Revision : r \in Revisions(Left(e, after.rev)) <=> Entry(r, e) \in Left(e, after.rev)
    BY LeftAreEntries DEF Revisions, Entry
  <1>10. Revision \cap Revisions(Left(e, after.rev)) = {r \in Revision : Entry(r, e) \in Left(e, after.rev)}
    <2> DEFINE A == Revisions(Left(e, after.rev))
               B(r) == Entry(r, e) \in Left(e, after.rev)
    <2>1. \A r \in Revision : r \in A <=> B(r)
      BY <1>9
    <2> HIDE DEF A, B
    <2>2. Revision \cap A = {r \in Revision : B(r)}
      BY <2>1
    <2> QED BY <2>2 DEF A, B
  <1> QED BY <1>1, <1>7, <1>8, <1>10

-----------------------------------------------------------------------------
(* The history: what each variable of the feed holds.                      *)

Lapses == {"foreign", "busy", "unplaced"}

FeedTypes ==
    /\ occurred \in [Event -> SUBSET Revision] /\ from \in [Event -> Revision]
    /\ heard \in [Event -> Seq(Revision)] /\ lapse \in [Event -> SUBSET Lapses]
    /\ resolved \in [Event -> Revision]

LEMMA InitFeedTypes == Init => FeedTypes
  BY EventSubscriptionAssumption DEF Init, FeedTypes, Revision

LEMMA StartKeepsFeedTypes ==
  ASSUME Types, FeedTypes, NEW e \in Event, On(e) \/ \E r \in Revision : OnFrom(e, r)
  PROVE  FeedTypes'
  <1>1. /\ occurred' = occurred
        /\ \E rev \in Revision, lapses \in SUBSET Lapses : Starts(e, rev, lapses)
    <2>1. CASE On(e)
      <3> DEFINE start == IF eventCursors[e] = None THEN cursor ELSE eventCursors[e]
                 lapses == IF Wanted(e) THEN {}
                             ELSE IF releases > 0 \/ start.gen # Head1.gen THEN {"foreign"}
                             ELSE IF ~Quiet(e) THEN {"busy"} ELSE {}
      <3>1. start.rev \in Revision
        BY CursorsArePositions, PropertiesOfTypes DEF Stamps
      <3>2. lapses \in SUBSET Lapses
        BY DEF Lapses
      <3>3. Starts(e, start.rev, lapses) /\ occurred' = occurred
        BY <2>1 DEF On
      <3> HIDE DEF start, lapses
      <3> QED BY <3>1, <3>2, <3>3
    <2>2. CASE \E r \in Revision : OnFrom(e, r)
      <3>1. PICK r \in Revision : OnFrom(e, r)
        BY <2>2
      <3> DEFINE lapses == IF Wanted(e) \/ ~Quiet(e) THEN {"busy"}
                             ELSE IF releases > 0 \/ cursor.gen # Head1.gen THEN {"foreign"} ELSE {}
      <3>2. lapses \in SUBSET Lapses
        BY DEF Lapses
      <3>3. Starts(e, r, lapses) /\ occurred' = occurred
        BY <3>1 DEF OnFrom
      <3> HIDE DEF lapses
      <3> QED BY <3>2, <3>3
    <2> QED BY <2>1, <2>2
  <1>2. PICK rev \in Revision, lapses \in SUBSET Lapses : Starts(e, rev, lapses)
    BY <1>1
  <1>3. 0 \in Revision /\ <<>> \in Seq(Revision)
    BY EventSubscriptionAssumption DEF Revision
  <1>4. lapse[e] \cup lapses \in SUBSET Lapses
    BY DEF FeedTypes
  <1> QED BY <1>1, <1>2, <1>3, <1>4 DEF Starts, FeedTypes

LEMMA ProcessKeepsFeedTypes ==
  ASSUME Types, FeedTypes, ProcessNotification
  PROVE  FeedTypes'
  <1> DEFINE m == Head(notificationQueue)
  <1>1. m \in Deferred /\ m \in Answer /\ m.type \in {"property", "event", "subscribed"}
    <2>1. notificationQueue # <<>>
      BY DEF ProcessNotification
    <2>2. m \in Deferred
      BY <2>1, Received, PropertiesOfTypes
    <2> QED BY <2>2 DEF Answer, Deferred, Occurrence, Acknowledgement
  <1>2. CASE m.type = "event" /\ tracked /\ Applies(m.event, m.cursor)
    <2>1. m.event \in Event /\ m.cursor.rev \in Revision
      BY <1>1, <1>2, AnswersHave, CursorsArePositions
    <2>2. /\ heard' = heard \/ heard' = [heard EXCEPT ![m.event] = Append(heard[m.event], m.cursor.rev)]
          /\ UNCHANGED <<occurred, from, lapse, resolved>>
      BY <1>2 DEF ProcessNotification
    <2> DEFINE r == m.cursor.rev
               q == Append(heard[m.event], r)
    <2>3. q \in Seq(Revision)
      <3> HIDE DEF m
      <3> QED BY <2>1 DEF FeedTypes
    <2>4. heard' = heard \/ heard' = [heard EXCEPT ![m.event] = q]
      BY <2>2
    <2> HIDE DEF q
    <2> QED BY <2>2, <2>3, <2>4 DEF FeedTypes
  <1>3. CASE m.type = "subscribed"
    <2>1. m.head \in Revision
      BY <1>1, <1>3, AnswersHave
    <2>2. /\ UNCHANGED <<occurred, from, heard, lapse>>
          /\ resolved' = IF Wanted(m.event) THEN [resolved EXCEPT ![m.event] = m.head] ELSE resolved
      BY <1>3 DEF ProcessNotification
    <2> HIDE DEF m
    <2> QED BY <2>1, <2>2 DEF FeedTypes
  <1>4. CASE m.type = "property" \/ (m.type = "event" /\ ~(tracked /\ Applies(m.event, m.cursor)))
    <2>1. UNCHANGED feed
      BY <1>4 DEF ProcessNotification
    <2> QED BY <2>1 DEF feed, FeedTypes
  <1> QED BY <1>1, <1>2, <1>3, <1>4

LEMMA NextKeepsFeedTypes ==
  ASSUME Types, Types', FeedTypes, Next
  PROVE  FeedTypes'
  <1>1. CASE \E e \in Event : EmitEvent(e)
    <2>1. PICK e \in Event : EmitEvent(e)
      BY <1>1
    <2>2. /\ UNCHANGED <<from, heard, lapse, resolved>>
          /\ occurred' = [occurred EXCEPT ![e] = occurred[e] \cup {journal'.head.rev}]
      BY <2>1 DEF EmitEvent
    <2>3. journal'.head.rev \in Revision
      BY CursorsArePositions DEF Types, JournalTypes
    <2> QED BY <2>2, <2>3 DEF FeedTypes
  <1>2. CASE Modify \/ Server
    BY <1>2 DEF Modify, Server, ReceiveRequest, FinishSubscribe, FinishUnsubscribe, FinishAttach,
                FinishDetach, Finishing, feed, FeedTypes
  <1>3. CASE ReceiveNotification \/ ReceiveSubscribed \/ ReceiveUnsubscribed
    BY <1>3 DEF ReceiveNotification, ReceiveSubscribed, ReceiveUnsubscribed, feed, FeedTypes
  <1>4. CASE ReceiveFailed
    <2>1. UNCHANGED <<occurred, from, heard, resolved>>
      BY <1>4 DEF ReceiveFailed
    <2>2. \E e : lapse' = lapse \/ lapse' = [lapse EXCEPT ![e] = lapse[e] \cup {"unplaced"}]
      BY <1>4 DEF ReceiveFailed
    <2> QED BY <2>1, <2>2 DEF FeedTypes, Lapses
  <1>5. CASE ReceiveAttached
    <2>1. UNCHANGED <<occurred, from, heard, resolved>>
      BY <1>5 DEF ReceiveAttached
    <2>2. \/ lapse' = [e \in Event |-> lapse[e] \cup IF eventCursors[e] = None /\ Wanted(e)
                                                        THEN {"unplaced"} ELSE {}]
          \/ lapse' = lapse
      BY <1>5 DEF ReceiveAttached
    <2> QED BY <2>1, <2>2 DEF FeedTypes, Lapses
  <1>6. CASE ProcessNotification
    BY <1>6, ProcessKeepsFeedTypes
  <1>7. CASE \E e \in Event : On(e) \/ \E r \in Revision : OnFrom(e, r)
    BY <1>7, StartKeepsFeedTypes
  <1>8. CASE (\E e \in Event : Off(e)) \/ Release \/ Attach \/ Reconnect
    BY <1>8 DEF Off, Release, Attach, Reconnect, feed, FeedTypes
  <1>9. CASE Disconnect
    BY <1>9 DEF Disconnect, DropConnection, FeedTypes
  <1>10. CASE Restart
    <2>1. /\ UNCHANGED <<from, heard, resolved>> /\ occurred' = [e \in Event |-> {}]
          /\ lapse' = [e \in Event |-> lapse[e] \cup {"foreign"}]
      BY <1>10 DEF Restart, DropConnection
    <2> QED BY <2>1 DEF FeedTypes, Lapses
  <1> QED BY <1>1, <1>2, <1>3, <1>4, <1>5, <1>6, <1>7, <1>8, <1>9, <1>10 DEF Next, Client, Application

LEMMA FeedTypesInvariance == Spec => []FeedTypes
  <1>1. Types /\ Types' /\ FeedTypes /\ [Next]_vars => FeedTypes'
    <2> SUFFICES ASSUME Types, Types', FeedTypes, [Next]_vars PROVE FeedTypes'
      OBVIOUS
    <2>1. CASE UNCHANGED vars
      BY <2>1 DEF vars, feed, FeedTypes
    <2> QED BY <2>1, NextKeepsFeedTypes
  <1> QED BY InitFeedTypes, TypesInvariance, <1>1, PTL DEF Spec

-----------------------------------------------------------------------------
(* The journal and what has occurred.                                      *)

(* Entries are in the order of their revisions, after what was discarded.  *)
OrderedJournal ==
    /\ journal.discarded <= journal.head.rev
    /\ \A i \in DOMAIN journal.entries :
         journal.discarded < journal.entries[i].rev /\ journal.entries[i].rev <= journal.head.rev
    /\ \A i, j \in DOMAIN journal.entries : i < j => journal.entries[i].rev < journal.entries[j].rev

(* Every occurrence of a historical event that was not discarded is        *)
(* retained, and nothing else of it is.                                    *)
Chronicle ==
    /\ \A e \in Event : \A r \in occurred[e] : r <= journal.head.rev
    /\ \A e \in Historical, r \in Revision :
         r > journal.discarded =>
           (r \in occurred[e] <=> \E i \in DOMAIN journal.entries : journal.entries[i] = Entry(r, e))

LEMMA JournalAppends ==
  ASSUME Types, OrderedJournal, NEW member \in Event \cup {Other}, NEW retain \in BOOLEAN, Advance(member, retain)
  PROVE  /\ OrderedJournal'
         /\ journal'.head = Cursor(Head1.gen, Head1.rev + 1) /\ journal.discarded <= journal'.discarded
         /\ \A x : x.rev > journal'.discarded =>
               ((\E i \in DOMAIN journal'.entries : journal'.entries[i] = x)
                  <=> \/ \E i \in DOMAIN journal.entries : journal.entries[i] = x
                      \/ retain /\ x = Entry(Head1.rev + 1, member))
  <1> DEFINE c == Cursor(Head1.gen, Head1.rev + 1)
             x0 == Entry(c.rev, member)
             all == IF retain THEN Append(journal.entries, x0) ELSE journal.entries
             excess == Len(all) - Least(Len(all), JournalSize)
             kept == SubSeq(all, excess + 1, Len(all))
             R == [rev : Revision, member : Event \cup {Other}]
  <1>1. /\ c.gen = Head1.gen /\ c.rev = Head1.rev + 1 /\ Head1 = journal.head /\ Head1.rev \in Nat
        /\ journal.discarded \in Nat
    BY RevisionsAreFinite, CursorsArePositions DEF Cursor, Head1, Types, JournalTypes
  <1>2. Accepts(journal, c)
    BY <1>1 DEF Accepts
  <1>3. journal' = [head |-> c, discarded |-> DiscardedThrough(journal, all, excess), entries |-> kept]
    BY <1>2 DEF Advance, AppendEntry
  <1>4. x0 \in R /\ x0.rev = Head1.rev + 1
    BY <1>1, NextRevision DEF Advance, Entry, Cursor, Position
  <1>5. all \in Seq(R)
    <2>1. journal.entries \in Seq(R)
      BY DEF Types, JournalTypes
    <2> HIDE DEF R, x0
    <2> QED BY <1>4, <2>1
  <1>6. Len(all) \in Nat /\ excess \in 0 .. Len(all)
    <2> HIDE DEF all
    <2> QED BY <1>5, EventSubscriptionAssumption DEF Least
  <1>7. /\ \A i \in DOMAIN all : /\ all[i].rev \in Nat /\ journal.discarded < all[i].rev
                                 /\ all[i].rev <= Head1.rev + 1
        /\ \A i, j \in DOMAIN all : i < j => all[i].rev < all[j].rev
        /\ \A x : (\E i \in DOMAIN all : all[i] = x)
                    <=> \/ \E i \in DOMAIN journal.entries : journal.entries[i] = x
                        \/ retain /\ x = x0
    <2>0. \A i \in DOMAIN journal.entries :
            /\ journal.entries[i].rev \in Nat /\ journal.discarded < journal.entries[i].rev
            /\ journal.entries[i].rev <= Head1.rev /\ journal.entries[i].rev < Head1.rev + 1
      BY <1>1, EntriesAre DEF OrderedJournal
    <2>1. CASE ~retain
      BY <1>1, <2>0, <2>1 DEF OrderedJournal
    <2>2. CASE retain
      <3>1. /\ DOMAIN all = 1 .. Len(journal.entries) + 1 /\ DOMAIN journal.entries = 1 .. Len(journal.entries)
            /\ Len(journal.entries) \in Nat
            /\ \A i \in DOMAIN journal.entries : all[i] = journal.entries[i] /\ i \in DOMAIN all
            /\ all[Len(journal.entries) + 1] = x0 /\ Len(journal.entries) + 1 \in DOMAIN all
        <4>1. journal.entries \in Seq(R)
          BY DEF Types, JournalTypes
        <4> HIDE DEF R, x0
        <4> QED BY <1>4, <2>2, <4>1
      <3>2. \A i \in DOMAIN all : i \in DOMAIN journal.entries \/ i = Len(journal.entries) + 1
        BY <3>1
      <3> HIDE DEF all
      <3>3. \A i \in DOMAIN all : /\ all[i].rev \in Nat /\ journal.discarded < all[i].rev
                                  /\ all[i].rev <= Head1.rev + 1
        <4> SUFFICES ASSUME NEW i \in DOMAIN all
                     PROVE  /\ all[i].rev \in Nat /\ journal.discarded < all[i].rev
                            /\ all[i].rev <= Head1.rev + 1
          OBVIOUS
        <4>1. CASE i \in DOMAIN journal.entries
          BY <1>1, <2>0, <3>1, <4>1
        <4>2. CASE all[i] = x0
          BY <1>1, <1>4, <4>2 DEF OrderedJournal
        <4> QED BY <3>1, <3>2, <4>1, <4>2
      <3>4. \A i, j \in DOMAIN all : i < j => all[i].rev < all[j].rev
        <4> SUFFICES ASSUME NEW i \in DOMAIN all, NEW j \in DOMAIN all, i < j
                     PROVE  all[i].rev < all[j].rev
          OBVIOUS
        <4>1. i \in DOMAIN journal.entries
          BY <3>1, <3>2
        <4>2. CASE j \in DOMAIN journal.entries
          BY <3>1, <4>1, <4>2 DEF OrderedJournal
        <4>3. CASE j = Len(journal.entries) + 1
          BY <1>4, <2>0, <3>1, <4>1, <4>3
        <4> QED BY <3>2, <4>2, <4>3
      <3>5. \A x : (\E i \in DOMAIN all : all[i] = x)
                    <=> \/ \E i \in DOMAIN journal.entries : journal.entries[i] = x
                        \/ retain /\ x = x0
        BY <2>2, <3>1, <3>2
      <3> QED BY <3>3, <3>4, <3>5
    <2> QED BY <2>1, <2>2
  <1> HIDE DEF all, excess, x0, R
  <1>8. /\ DOMAIN all = 1 .. Len(all) /\ DOMAIN kept = 1 .. Len(all) - excess
        /\ \A i \in DOMAIN kept : kept[i] = all[excess + i] /\ excess + i \in DOMAIN all
    BY <1>5, <1>6
  <1>9. \A i \in DOMAIN all : i > excess => i - excess \in DOMAIN kept /\ kept[i - excess] = all[i]
    <2> SUFFICES ASSUME NEW i \in DOMAIN all, i > excess
                 PROVE  i - excess \in DOMAIN kept /\ kept[i - excess] = all[i]
      OBVIOUS
    <2>1. i - excess \in 1 .. Len(all) - excess /\ excess + (i - excess) = i
      BY <1>6, <1>8
    <2> QED BY <1>8, <2>1
  <1> HIDE DEF kept
  <1> DEFINE d == DiscardedThrough(journal, all, excess)
  <1>10. /\ d \in Nat /\ journal.discarded <= d /\ d <= Head1.rev + 1
         /\ \A i \in DOMAIN all : IF i <= excess THEN all[i].rev <= d ELSE d < all[i].rev
    <2>1. CASE excess = 0
      <3>1. d = journal.discarded
        BY <2>1 DEF DiscardedThrough
      <3>2. \A i \in DOMAIN all : ~(i <= excess)
        BY <1>8, <2>1
      <3> QED BY <1>1, <1>7, <3>1, <3>2 DEF OrderedJournal
    <2>2. CASE excess # 0
      <3>1. d = all[excess].rev /\ excess \in DOMAIN all
        BY <1>6, <1>8, <2>2 DEF DiscardedThrough
      <3>2. \A i \in DOMAIN all : i \in Nat /\ (i = excess \/ i < excess \/ i > excess)
        BY <1>6, <1>8
      <3> HIDE DEF d
      <3>3. \A i \in DOMAIN all : IF i <= excess THEN all[i].rev <= d ELSE d < all[i].rev
        <4> SUFFICES ASSUME NEW i \in DOMAIN all
                     PROVE  IF i <= excess THEN all[i].rev <= d ELSE d < all[i].rev
          OBVIOUS
        <4>1. all[i].rev \in Nat /\ d \in Nat
          BY <1>7, <3>1
        <4>2. CASE i = excess
          BY <1>6, <3>1, <4>1, <4>2
        <4>3. CASE i < excess
          BY <1>6, <1>7, <3>1, <3>2, <4>1, <4>3
        <4>4. CASE i > excess
          BY <1>6, <1>7, <3>1, <3>2, <4>1, <4>4
        <4> QED BY <3>2, <4>2, <4>3, <4>4
      <3> QED BY <1>1, <1>7, <3>1, <3>3
    <2> QED BY <2>1, <2>2
  <1>11. journal'.head = c /\ journal'.discarded = d /\ journal'.entries = kept
    BY <1>3
  <1> HIDE DEF d, c
  <1>12. OrderedJournal'
    <2>1. \A i \in DOMAIN kept : d < kept[i].rev /\ kept[i].rev <= c.rev
      <3> SUFFICES ASSUME NEW i \in DOMAIN kept PROVE d < kept[i].rev /\ kept[i].rev <= c.rev
        OBVIOUS
      <3>1. kept[i] = all[excess + i] /\ excess + i \in DOMAIN all /\ ~(excess + i <= excess)
        BY <1>6, <1>8
      <3> QED BY <1>1, <1>7, <1>10, <3>1
    <2>2. \A i, j \in DOMAIN kept : i < j => kept[i].rev < kept[j].rev
      <3> SUFFICES ASSUME NEW i \in DOMAIN kept, NEW j \in DOMAIN kept, i < j PROVE kept[i].rev < kept[j].rev
        OBVIOUS
      <3>1. excess + i < excess + j
        BY <1>6, <1>8
      <3> QED BY <1>7, <1>8, <3>1
    <2> QED BY <1>1, <1>10, <1>11, <2>1, <2>2 DEF OrderedJournal
  <1>13. \A x : x.rev > d =>
               ((\E i \in DOMAIN kept : kept[i] = x) <=> (\E i \in DOMAIN all : all[i] = x))
    <2> SUFFICES ASSUME NEW x, x.rev > d
                 PROVE  (\E i \in DOMAIN kept : kept[i] = x) <=> (\E i \in DOMAIN all : all[i] = x)
      OBVIOUS
    <2>1. ASSUME NEW i \in DOMAIN all, all[i] = x
          PROVE  \E k \in DOMAIN kept : kept[k] = x
      <3>1. ~(i <= excess)
        BY <1>7, <1>10, <2>1
      <3>2. i > excess
        BY <1>6, <1>8, <3>1
      <3> QED BY <1>9, <2>1, <3>2
    <2> QED BY <1>8, <2>1
  <1> QED BY <1>1, <1>4, <1>7, <1>10, <1>11, <1>12, <1>13 DEF c, x0

LEMMA NumbersAre ==
  ASSUME Types
  PROVE  /\ Head1 = journal.head /\ Head1 \in Position /\ Head1.gen \in 1 .. MaxGeneration /\ Head1.gen \in Nat
         /\ Head1.rev \in Revision /\ Head1.rev \in Nat /\ journal.discarded \in Nat
         /\ \A c \in Position : c.rev \in Nat /\ c.gen \in Nat /\ c.gen # 0 /\ c.rev \in Revision
  <1>1. journal.head \in Position /\ journal.discarded \in Revision
    BY DEF Types, JournalTypes
  <1>2. \A c \in Position : c.rev \in Nat /\ c.gen \in Nat /\ c.gen # 0 /\ c.rev \in Revision /\ c.gen \in 1 .. MaxGeneration
    <2> SUFFICES ASSUME NEW c \in Position
                 PROVE  c.rev \in Nat /\ c.gen \in Nat /\ c.gen # 0 /\ c.rev \in Revision /\ c.gen \in 1 .. MaxGeneration
      OBVIOUS
    <2>1. c.gen \in 1 .. MaxGeneration /\ c.rev \in Revision
      BY CursorsArePositions
    <2>2. c.rev \in Nat
      BY <2>1, RevisionsAreFinite
    <2>3. MaxGeneration \in Nat
      BY EventSubscriptionAssumption
    <2>4. c.gen \in Nat /\ c.gen # 0
      BY <2>1, <2>3
    <2> QED BY <2>1, <2>2, <2>4
  <1> QED BY <1>1, <1>2, RevisionsAreFinite DEF Head1

LEMMA InitChronicle == Init => OrderedJournal /\ Chronicle
  BY EventSubscriptionAssumption DEF Init, EmptyJournal, Cursor, OrderedJournal, Chronicle, Revision

LEMMA EventKeepsChronicle ==
  ASSUME Types, FeedTypes, OrderedJournal, Chronicle, NEW e \in Event, EmitEvent(e)
  PROVE  OrderedJournal' /\ Chronicle'
  <1> DEFINE n == Head1.rev + 1
  <1>1. e \in Event \cup {Other} /\ (e \in Historical) \in BOOLEAN /\ Advance(e, e \in Historical)
    BY DEF EmitEvent
  <1>2. /\ OrderedJournal'
        /\ journal'.head = Cursor(Head1.gen, n) /\ journal.discarded <= journal'.discarded
        /\ \A x : x.rev > journal'.discarded =>
               ((\E i \in DOMAIN journal'.entries : journal'.entries[i] = x)
                  <=> \/ \E i \in DOMAIN journal.entries : journal.entries[i] = x
                      \/ e \in Historical /\ x = Entry(n, e))
    BY <1>1, JournalAppends
  <1>3. occurred' = [occurred EXCEPT ![e] = occurred[e] \cup {n}] /\ journal'.head.rev = n
    BY <1>2 DEF EmitEvent, Cursor
  <1>4. /\ Head1.rev \in Nat /\ Head1 = journal.head /\ n \in Nat /\ journal.discarded \in Nat
        /\ Head1.rev <= n
    BY NumbersAre
  <1>5. /\ \A f \in Event : occurred[f] \in SUBSET Revision /\ Revision \subseteq Nat
        /\ \A f \in Event : \A r : r \in occurred'[f] <=> r \in occurred[f] \/ (f = e /\ r = n)
    BY <1>3, RevisionsAreFinite DEF FeedTypes
  <1> HIDE DEF n
  <1>6. \A f \in Event : \A r \in occurred'[f] : r <= journal'.head.rev
    <2> SUFFICES ASSUME NEW f \in Event, NEW r \in occurred'[f] PROVE r <= n
      BY <1>3
    <2>1. CASE r \in occurred[f]
      BY <1>4, <1>5, <2>1 DEF Chronicle
    <2> QED BY <1>4, <1>5, <2>1
  <1>7. ASSUME NEW f \in Historical, NEW r \in Revision, r > journal'.discarded
        PROVE  r \in occurred'[f] <=> \E i \in DOMAIN journal'.entries : journal'.entries[i] = Entry(r, f)
    <2>1. Entry(r, f).rev = r /\ (Entry(r, f) = Entry(n, e) <=> r = n /\ f = e)
      BY DEF Entry
    <2>2. r > journal.discarded
      <3>0. r \in Nat
        BY <1>7, RevisionsAreFinite
      <3>1. journal'.discarded \in Int
        <4>1. journal' = AppendEntry(journal, Cursor(Head1.gen, Head1.rev + 1), e, e \in Historical, JournalSize)
              /\ Cursor(Head1.gen, Head1.rev + 1) \in Position
          BY <1>1, NextRevision DEF Advance
        <4>2. JournalTypes'
          BY <1>1, <4>1, AppendedJournal
        <4>3. journal'.discarded \in Revision
          BY <4>2 DEF JournalTypes
        <4>4. journal'.discarded \in Nat
          BY <4>3, RevisionsAreFinite
        <4> QED BY <4>4
      <3> QED BY <1>2, <1>4, <1>7, <3>0, <3>1
    <2>3. f \in Event
      BY EventSubscriptionAssumption
    <2>4. r \in occurred[f] <=> \E i \in DOMAIN journal.entries : journal.entries[i] = Entry(r, f)
      BY <2>2 DEF Chronicle
    <2>5. (\E i \in DOMAIN journal'.entries : journal'.entries[i] = Entry(r, f))
            <=> \/ \E i \in DOMAIN journal.entries : journal.entries[i] = Entry(r, f)
                \/ e \in Historical /\ Entry(r, f) = Entry(n, e)
      BY <1>2, <1>7, <2>1
    <2> QED BY <1>5, <2>1, <2>3, <2>4, <2>5
  <1> QED BY <1>2, <1>6, <1>7 DEF Chronicle

LEMMA ModifyKeepsChronicle ==
  ASSUME Types, FeedTypes, OrderedJournal, Chronicle, Modify
  PROVE  OrderedJournal' /\ Chronicle'
  <1> DEFINE n == Head1.rev + 1
  <1>1. Other \in Event \cup {Other} /\ TRUE \in BOOLEAN /\ Advance(Other, TRUE) /\ occurred' = occurred
    BY DEF Modify, feed
  <1>2. /\ OrderedJournal'
        /\ journal'.head = Cursor(Head1.gen, n) /\ journal.discarded <= journal'.discarded
        /\ \A x : x.rev > journal'.discarded =>
               ((\E i \in DOMAIN journal'.entries : journal'.entries[i] = x)
                  <=> \/ \E i \in DOMAIN journal.entries : journal.entries[i] = x
                      \/ x = Entry(n, Other))
    BY <1>1, JournalAppends
  <1>4. /\ Head1.rev \in Nat /\ Head1 = journal.head /\ n \in Nat /\ journal.discarded \in Nat
        /\ Head1.rev <= n /\ journal'.head.rev = n
    BY <1>2, NumbersAre DEF Cursor
  <1>5. \A f \in Event : occurred[f] \in SUBSET Revision /\ Revision \subseteq Nat
    BY RevisionsAreFinite DEF FeedTypes
  <1> HIDE DEF n
  <1>6. \A f \in Event : \A r \in occurred'[f] : r <= journal'.head.rev
    BY <1>1, <1>4, <1>5 DEF Chronicle
  <1>7. ASSUME NEW f \in Historical, NEW r \in Revision, r > journal'.discarded
        PROVE  r \in occurred'[f] <=> \E i \in DOMAIN journal'.entries : journal'.entries[i] = Entry(r, f)
    <2>1. Entry(r, f).rev = r /\ Entry(r, f) # Entry(n, Other)
      BY EventSubscriptionAssumption DEF Entry
    <2>2. r > journal.discarded
      <3>0. r \in Nat
        BY <1>7, RevisionsAreFinite
      <3>1. journal'.discarded \in Int
        <4>1. journal' = AppendEntry(journal, Cursor(Head1.gen, Head1.rev + 1), Other, TRUE, JournalSize)
              /\ Cursor(Head1.gen, Head1.rev + 1) \in Position
          BY <1>1, NextRevision DEF Advance
        <4>2. JournalTypes'
          BY <1>1, <4>1, AppendedJournal
        <4>3. journal'.discarded \in Revision
          BY <4>2 DEF JournalTypes
        <4>4. journal'.discarded \in Nat
          BY <4>3, RevisionsAreFinite
        <4> QED BY <4>4
      <3> QED BY <1>2, <1>4, <1>7, <3>0, <3>1
    <2>4. r \in occurred[f] <=> \E i \in DOMAIN journal.entries : journal.entries[i] = Entry(r, f)
      BY <2>2 DEF Chronicle
    <2>5. (\E i \in DOMAIN journal'.entries : journal'.entries[i] = Entry(r, f))
            <=> \E i \in DOMAIN journal.entries : journal.entries[i] = Entry(r, f)
      BY <1>2, <1>7, <2>1
    <2> QED BY <1>1, <2>4, <2>5
  <1> QED BY <1>2, <1>6, <1>7 DEF Chronicle

(* What a restart leaves: a journal with nothing in it.                    *)
LEMMA RestartKeepsChronicle ==
  ASSUME Types, Restart
  PROVE  OrderedJournal' /\ Chronicle'
  <1>1. journal' = EmptyJournal(Cursor(Head1.gen + 1, 0)) /\ occurred' = [e \in Event |-> {}]
    BY DEF Restart
  <1>2. journal'.discarded = 0 /\ journal'.head.rev = 0 /\ journal'.entries = <<>>
    BY <1>1 DEF EmptyJournal, Cursor
  <1> QED BY <1>1, <1>2, EventSubscriptionAssumption DEF OrderedJournal, Chronicle

(* Every other step leaves the journal and what occurred.                  *)
LEMMA OnlyChanges ==
  ASSUME Types, Next, ~\E e \in Event : EmitEvent(e), ~Modify, ~Restart
  PROVE  UNCHANGED <<journal, occurred>>
  <1>1. CASE Server
    BY <1>1 DEF Server, ReceiveRequest, FinishSubscribe, FinishUnsubscribe, FinishAttach,
                FinishDetach, Finishing, feed
  <1>2. CASE Client
    <2>1. CASE ProcessNotification
      <3> DEFINE m == Head(notificationQueue)
      <3>1. m.type \in {"property", "event", "subscribed"} /\ UNCHANGED server
        <4>1. m \in Deferred /\ UNCHANGED server
          BY <2>1, QueueTakes
        <4> QED BY <4>1 DEF Deferred, Occurrence, Acknowledgement
      <3>2. occurred' = occurred
        <4> DEFINE live == tracked /\ Applies(m.event, m.cursor)
        <4>1. CASE m.type = "property"
          BY <2>1, <4>1 DEF ProcessNotification, feed
        <4>2. CASE m.type = "subscribed"
          BY <2>1, <4>2 DEF ProcessNotification
        <4>3. CASE m.type = "event" /\ live
          BY <2>1, <4>3 DEF ProcessNotification
        <4>4. CASE m.type = "event" /\ ~live
          BY <2>1, <4>4 DEF ProcessNotification, feed
        <4> QED BY <3>1, <4>1, <4>2, <4>3, <4>4
      <3> QED BY <3>1, <3>2 DEF server
    <2> QED BY <1>2, <2>1 DEF Client, ReceiveNotification, ReceiveSubscribed, ReceiveUnsubscribed, ReceiveFailed,
                ReceiveAttached, feed, server
  <1>3. CASE Application
    BY <1>3 DEF Application, On, Off, OnFrom, Release, Attach, server, feed
  <1>4. CASE Disconnect \/ Reconnect
    BY <1>4 DEF Disconnect, Reconnect, server, feed
  <1> QED BY <1>1, <1>2, <1>3, <1>4 DEF Next

LEMMA NextKeepsChronicle ==
  ASSUME Types, FeedTypes, OrderedJournal, Chronicle, Next
  PROVE  OrderedJournal' /\ Chronicle'
  <1>1. CASE UNCHANGED <<journal, occurred>>
    BY <1>1 DEF OrderedJournal, Chronicle
  <1> QED BY <1>1, EventKeepsChronicle, ModifyKeepsChronicle, RestartKeepsChronicle, OnlyChanges

(* What the journal retains is in order, and of a historical event it is   *)
(* what has occurred since the last revision it discarded: appendEntry of  *)
(* MemoryStore, whatever its size.                                         *)
THEOREM ChronicleInvariance == Spec => [](OrderedJournal /\ Chronicle)
  <1>1. Types /\ FeedTypes /\ OrderedJournal /\ Chronicle /\ [Next]_vars => (OrderedJournal /\ Chronicle)'
    <2> SUFFICES ASSUME Types, FeedTypes, OrderedJournal, Chronicle, [Next]_vars
                 PROVE  OrderedJournal' /\ Chronicle'
      OBVIOUS
    <2>1. CASE UNCHANGED vars
      BY <2>1 DEF vars, server, feed, OrderedJournal, Chronicle
    <2> QED BY <2>1, NextKeepsChronicle
  <1> QED BY InitChronicle, TypesInvariance, FeedTypesInvariance, <1>1, PTL DEF Spec

-----------------------------------------------------------------------------
(* What the server answers to a subscription.                              *)

LEMMA AcceptedMeans ==
  ASSUME Types, NEW e, NEW after \in Position, ~Expired(e, after)
  PROVE  after.gen = Head1.gen /\ journal.discarded <= after.rev
  <1>1. after.gen # 0 /\ after.rev \in Nat /\ journal.discarded \in Nat
    BY NumbersAre
  <1>2. Expired(e, after) <=>
          \/ after.gen # Head1.gen
          \/ after.rev < journal.discarded
    BY <1>1 DEF Expired, QueryJournal, Head1
  <1> QED BY <1>1, <1>2

(* A subscription is granted: what was missed, then that it is.            *)
Granted(m, q) ==
    /\ m.event \notin eventSubscriptions /\ eventSubscriptions' = eventSubscriptions \cup {m.event}
    /\ q \in Seq(Occurrence)
    /\ toClient' = Append(toClient \o q,
                          [type |-> "subscribed", event |-> m.event, head |-> Head1.rev])
    /\ m.event \in Historical =>
         /\ m.after.gen = Head1.gen
         /\ Lists(q, m.event, {r \in occurred[m.event] : r > m.after.rev})
    /\ m.event \notin Historical => q = <<>>
Refused(m) ==
    /\ eventSubscriptions' = eventSubscriptions
    /\ toClient' = Append(toClient, [type |-> "failed", event |-> m.event])

(* A subscription is refused and changes nothing, or it is granted and     *)
(* every retained occurrence after its cursor precedes the reply, in       *)
(* order: the subscribe handler of EpConnection with its replay.           *)
THEOREM SubscribeOutcome ==
  ASSUME Types, FeedTypes, Chronicle, FinishSubscribe
  PROVE  LET m == Head(handling) IN
         /\ m \in Request /\ m.type = "subscribe" /\ m.event \in Wire /\ m.after \in Position
         /\ Refused(m) \/ \E q : Granted(m, q)
  <1> DEFINE m == Head(handling)
             e == m.event
             revs == {r \in Revision : Entry(r, e) \in Left(e, m.after.rev)}
             q == IF e \in Historical THEN Replay(e, m.after) ELSE <<>>
             refused == \/ e \in eventSubscriptions
                        \/ e \in Historical /\ Expired(e, m.after)
  <1>1. m \in Request /\ m.type = "subscribe"
    BY HandlerResumes DEF FinishSubscribe
  <1>2. m.event \in Wire /\ m.after \in Position
    BY <1>1, RequestsHave
  <1>3. IF refused
          THEN Refused(m)
          ELSE /\ eventSubscriptions' = eventSubscriptions \cup {e}
               /\ toClient' = (toClient \o q)
                       \o <<[type |-> "subscribed", event |-> e, head |-> Head1.rev]>>
    BY DEF FinishSubscribe, Failed, Reply, Refused
  <1>4. ASSUME ~refused PROVE \E z : Granted(m, z)
    <2>1. e \in Event /\ Head1.gen \in 1 .. MaxGeneration /\ Head1.rev \in Revision
      BY <1>2, WireIsEvents, CursorsArePositions DEF Types, JournalTypes, Head1
    <2>2. q \in Seq(Occurrence)
      <3>1. CASE e \in Historical
        <4>1. q \in Seq([type : {"event"}, event : {e}, cursor : Position])
          BY <2>1, <3>1, ReplayIs
        <4>2. [type : {"event"}, event : {e}, cursor : Position] \subseteq Occurrence
          BY <2>1 DEF Occurrence
        <4> HIDE DEF q, m
        <4> QED BY <4>1, <4>2, SubsetSequence
      <3> QED BY <3>1
    <2>3. toClient' = Append(toClient \o q, [type |-> "subscribed", event |-> e, head |-> Head1.rev])
      <3> DEFINE a == [type |-> "subscribed", event |-> e, head |-> Head1.rev]
      <3>1. a \in Answer
        BY <1>2, <2>1, MessagesAre
      <3>2. toClient \o q \in Seq(Answer)
        <4>1. q \in Seq(Answer)
          BY <2>2, SubsetSequence, MessagesAre DEF Answer, Deferred
        <4> HIDE DEF q
        <4> QED BY <4>1, PropertiesOfTypes
      <3>3. toClient' = (toClient \o q) \o <<a>>
        BY <1>3, <1>4
      <3> HIDE DEF a, q
      <3>4. Append(toClient \o q, a) = (toClient \o q) \o <<a>>
        BY <3>1, <3>2
      <3> QED BY <3>3, <3>4 DEF a
    <2>4. ASSUME e \in Historical
          PROVE  /\ m.after.gen = Head1.gen
                 /\ Lists(q, e, {r \in occurred[e] : r > m.after.rev})
      <3>1. m.after.gen = Head1.gen /\ journal.discarded <= m.after.rev
        BY <1>2, <1>4, <2>4, AcceptedMeans
      <3>2. q = InOrder(e, revs)
        BY <1>2, <2>4, <3>1, ReplayReads
      <3>3. revs = {r \in occurred[e] : r > m.after.rev}
        <4>0. occurred[e] \subseteq Revision /\ m.after.rev \in Nat /\ Revision \subseteq Nat /\ journal.discarded \in Nat
          BY <1>2, <2>1, RevisionsAreFinite, CursorsArePositions DEF FeedTypes, Types, JournalTypes
        <4>1. \A r \in Revision : Entry(r, e) \in Left(e, m.after.rev) <=>
                 /\ \E i \in DOMAIN journal.entries : journal.entries[i] = Entry(r, e)
                 /\ r > m.after.rev /\ r <= Head1.rev
          BY DEF Left, Entry
        <4>2. \A r \in Revision : r > m.after.rev => r > journal.discarded
          BY <3>1, <4>0
        <4>3. \A r \in Revision : r > m.after.rev =>
                 (r \in occurred[e] <=> \E i \in DOMAIN journal.entries : journal.entries[i] = Entry(r, e))
          BY <2>4, <4>2 DEF Chronicle
        <4>4. \A r \in occurred[e] : r <= Head1.rev
          BY <2>1 DEF Chronicle, Head1
        <4> HIDE DEF m
        <4> QED BY <4>0, <4>1, <4>3, <4>4
      <3>4. revs \in SUBSET Revision
        OBVIOUS
      <3> HIDE DEF revs, q, m
      <3> QED BY <3>1, <3>2, <3>3, <3>4, InOrderLists
    <2>5. e \notin Historical => q = <<>>
      OBVIOUS
    <2>6. e \notin eventSubscriptions /\ eventSubscriptions' = eventSubscriptions \cup {e}
      BY <1>3, <1>4
    <2>7. Granted(m, q)
      <3> HIDE DEF q
      <3> QED BY <2>2, <2>3, <2>4, <2>5, <2>6 DEF Granted
    <2> QED BY <2>7
  <1> HIDE DEF refused
  <1>5. Refused(m) \/ \E z : Granted(m, z)
    BY <1>3, <1>4
  <1> QED BY <1>1, <1>2, <1>5

-----------------------------------------------------------------------------
(* What is told of the journal: nothing is ahead of its head, and nothing  *)
(* of an earlier life of the server is under way.                          *)
Current ==
    {m \in Answer :
        /\ m.type \in {"event", "property", "attached"} =>
             m.cursor.gen = Head1.gen /\ m.cursor.rev <= Head1.rev
        /\ m.type = "subscribed" => m.head <= Head1.rev}
Stamped == toClient \in Seq(Current) /\ notificationQueue \in Seq(Current)

LEMMA InitStamped == Init => Stamped
  BY DEF Init, Stamped

LEMMA ChangeKeepsStamped ==
  ASSUME Types, Stamped, (\E e \in Event : EmitEvent(e)) \/ Modify
  PROVE  Stamped'
  <1>1. \E member, retain : Advance(member, retain)
    BY DEF EmitEvent, Modify
  <1>2. /\ Cursor(Head1.gen, Head1.rev + 1) \in Position
        /\ journal'.head = Cursor(Head1.gen, Head1.rev + 1)
    <2>1. PICK member, retain : Advance(member, retain)
      BY <1>1
    <2>2. Accepts(journal, Cursor(Head1.gen, Head1.rev + 1))
      BY NumbersAre DEF Accepts, Cursor
    <2> QED BY <2>1, <2>2, NextRevision DEF Advance, AppendEntry
  <1> DEFINE c == journal'.head
  <1>3. c \in Position /\ c.gen = Head1.gen /\ c.rev = Head1.rev + 1 /\ Head1.rev \in Nat /\ Head1' = c
    BY <1>2, NumbersAre DEF Cursor, Head1
  <1>4. Current \subseteq Current'
    <2> SUFFICES ASSUME NEW m \in Current PROVE m \in Current'
      OBVIOUS
    <2>1. m \in Answer
      BY DEF Current
    <2>2. /\ m.type \in {"event", "property", "attached"} => m.cursor.rev \in Nat
          /\ m.type = "subscribed" => m.head \in Nat
      BY <2>1, AnswersHave, NumbersAre, RevisionsAreFinite
    <2> QED BY <1>3, <2>1, <2>2 DEF Current
  <1> HIDE DEF c
  <1>5. /\ \A e \in Event : Notice(e, c) \in Current'
        /\ [type |-> "property", cursor |-> c] \in Current'
    <2>1. /\ \A e \in Event : Notice(e, c) \in Answer
          /\ [type |-> "property", cursor |-> c] \in Answer
      <3>1. /\ \A e \in Event : Notice(e, c) \in Deferred
            /\ [type |-> "property", cursor |-> c] \in Deferred
        BY <1>3 DEF Deferred, Occurrence, Notice
      <3> QED BY <3>1, MessagesAre
    <2>2. c.rev <= Head1'.rev /\ c.gen = Head1'.gen
      BY <1>3
    <2> QED BY <2>1, <2>2 DEF Current, Notice
  <1>6. toClient \in Seq(Current') /\ notificationQueue \in Seq(Current')
    BY <1>4, SubsetSequence DEF Stamped
  <1>7. notificationQueue' = notificationQueue
    BY DEF EmitEvent, Modify
  <1>8. \/ toClient' = toClient
        \/ \E e \in Event : toClient' = Append(toClient, Notice(e, c))
        \/ toClient' = Append(toClient, [type |-> "property", cursor |-> c])
    BY DEF EmitEvent, Modify, c
  <1> DEFINE C == Current'
  <1>9. toClient' \in Seq(C)
    <2> HIDE DEF C
    <2> SUFFICES ASSUME NEW m \in C, toClient' = Append(toClient, m) PROVE toClient' \in Seq(C)
      BY <1>5, <1>6, <1>8 DEF C
    <2> QED BY <1>6 DEF C
  <1> QED BY <1>6, <1>7, <1>9 DEF Stamped

LEMMA CurrentKept == journal' = journal => Current' = Current
  BY DEF Current, Head1

(* What the server answers for itself.                                     *)
LEMMA RepliesAreCurrent ==
  ASSUME Types
  PROVE  /\ \A e \in Wire : /\ [type |-> "failed", event |-> e] \in Current
                            /\ [type |-> "unsubscribed", event |-> e] \in Current
                            /\ [type |-> "subscribed", event |-> e, head |-> Head1.rev] \in Current
         /\ [type |-> "attached", cursor |-> Head1] \in Current
  <1>1. Head1 \in Position /\ Head1.rev \in Revision /\ Head1.rev <= Head1.rev /\ Acknowledgement \subseteq Answer
    BY NumbersAre, MessagesAre
  <1>2. ASSUME NEW e \in Wire
        PROVE  /\ [type |-> "failed", event |-> e] \in Current
               /\ [type |-> "unsubscribed", event |-> e] \in Current
               /\ [type |-> "subscribed", event |-> e, head |-> Head1.rev] \in Current
    <2>1. /\ [type |-> "failed", event |-> e] \in Answer
          /\ [type |-> "unsubscribed", event |-> e] \in Answer
          /\ [type |-> "subscribed", event |-> e, head |-> Head1.rev] \in Acknowledgement
      BY <1>1, MessagesAre
    <2> QED BY <1>1, <2>1 DEF Current
  <1>3. [type |-> "attached", cursor |-> Head1] \in Current
    <2>1. [type |-> "attached", cursor |-> Head1] \in Answer
      BY <1>1 DEF Answer
    <2> QED BY <1>1, <2>1 DEF Current
  <1> QED BY <1>2, <1>3

LEMMA AppendCurrent ==
  ASSUME NEW q \in Seq(Current), NEW m \in Current
  PROVE  Append(q, m) \in Seq(Current)
  <1> HIDE DEF Current
  <1> QED OBVIOUS

LEMMA GrantIsCurrent ==
  ASSUME Types, FeedTypes, Chronicle, NEW m \in Request, m.type = "subscribe", NEW q, Granted(m, q)
  PROVE  q \in Seq(Current)
  <1>1. m.event \in Wire /\ m.event \in Event /\ q \in Seq(Occurrence)
    BY RequestsHave, WireIsEvents DEF Granted
  <1>2. CASE m.event \notin Historical
    <2>1. q = <<>>
      BY <1>2 DEF Granted
    <2> QED BY <2>1
  <1>3. CASE m.event \in Historical
    <2>1. /\ DOMAIN q = 1 .. Len(q) /\ Len(q) \in Nat
          /\ \A i \in DOMAIN q : q[i] \in Occurrence
      <3> HIDE DEF Occurrence
      <3> QED BY <1>1
    <2>2. \A i \in DOMAIN q : q[i] \in Current
      <3> SUFFICES ASSUME NEW i \in DOMAIN q PROVE q[i] \in Current
        OBVIOUS
      <3>1. q[i].type = "event" /\ q[i].cursor.gen = Head1.gen /\ q[i].cursor.rev \in occurred[m.event]
        BY <1>3 DEF Granted, Lists, Is
      <3>2. q[i].cursor.rev <= Head1.rev
        BY <1>1, <3>1 DEF Chronicle, Head1
      <3>3. q[i] \in Answer
        BY <2>1 DEF Occurrence, Deferred, Answer
      <3> QED BY <3>1, <3>2, <3>3 DEF Current
    <2>3. q = [i \in 1 .. Len(q) |-> q[i]]
      <3> HIDE DEF Occurrence
      <3> QED BY <1>1
    <2> HIDE DEF Current
    <2> QED BY <2>1, <2>2, <2>3, IsSequence
  <1> QED BY <1>2, <1>3

LEMMA ServerKeepsStamped ==
  ASSUME Types, FeedTypes, Chronicle, Stamped, Server
  PROVE  Stamped'
  <1>1. journal' = journal /\ notificationQueue' = notificationQueue
    BY DEF Server, ReceiveRequest, FinishSubscribe, FinishUnsubscribe, FinishAttach, FinishDetach, Finishing
  <1>2. SUFFICES toClient' \in Seq(Current)
    BY <1>1, CurrentKept DEF Stamped
  <1>3. toClient \in Seq(Current)
    BY DEF Stamped
  <1>4. CASE ReceiveRequest
    <2>1. toClient' = toClient \/ (/\ ~Admitted(Head(toServer)) /\ toServer # <<>>
                                   /\ toClient' = Append(toClient, [type |-> "failed", event |-> Head(toServer).event]))
      BY <1>4 DEF ReceiveRequest, Failed, Reply
    <2>2. CASE ~Admitted(Head(toServer)) /\ toServer # <<>>
      <3>1. Head(toServer) \in Request /\ Head(toServer).type \in Wishes
        BY <1>4, <2>2, RequestMoves
      <3>2. Head(toServer).event \in Wire
        BY <3>1, RequestsHave DEF Wishes
      <3> QED BY <1>3, <2>1, <3>2, RepliesAreCurrent, AppendCurrent
    <2> QED BY <1>3, <2>1, <2>2
  <1>5. CASE FinishSubscribe
    <2> DEFINE m == Head(handling)
    <2>1. /\ m \in Request /\ m.type = "subscribe" /\ m.event \in Wire
          /\ Refused(m) \/ \E q : Granted(m, q)
      BY <1>5, SubscribeOutcome
    <2> HIDE DEF m
    <2>2. CASE Refused(m)
      BY <1>3, <2>1, <2>2, RepliesAreCurrent, AppendCurrent DEF Refused
    <2>3. CASE \E q : Granted(m, q)
      <3>1. PICK q : Granted(m, q)
        BY <2>3
      <3>2. q \in Seq(Current)
        BY <2>1, <3>1, GrantIsCurrent
      <3>3. toClient \o q \in Seq(Current)
        <4> HIDE DEF Current
        <4> QED BY <1>3, <3>2
      <3> QED BY <2>1, <3>1, <3>3, RepliesAreCurrent, AppendCurrent DEF Granted
    <2> QED BY <2>1, <2>2, <2>3
  <1>6. CASE FinishUnsubscribe
    <2>1. Head(handling).event \in Wire
      BY <1>6, UnsubscribeReplies
    <2> QED BY <1>3, <1>6, <2>1, RepliesAreCurrent, AppendCurrent DEF FinishUnsubscribe, Reply
  <1>7. CASE FinishAttach
    BY <1>3, <1>7, RepliesAreCurrent, AppendCurrent DEF FinishAttach, Reply
  <1>8. CASE FinishDetach
    BY <1>3, <1>8 DEF FinishDetach
  <1> QED BY <1>4, <1>5, <1>6, <1>7, <1>8 DEF Server

LEMMA ClientKeepsStamped ==
  ASSUME Types, Stamped, Client
  PROVE  Stamped'
  <1>0. /\ \A q \in Seq(Current) : q # <<>> => Head(q) \in Current /\ Tail(q) \in Seq(Current)
        /\ toClient \in Seq(Current) /\ notificationQueue \in Seq(Current)
    BY Received DEF Stamped
  <1>1. journal' = journal
    <2>1. CASE ProcessNotification
      BY <2>1, QueueTakes DEF server
    <2> QED BY <2>1 DEF Client, ReceiveNotification, ReceiveSubscribed, ReceiveUnsubscribed,
                        ReceiveFailed, ReceiveAttached, server
  <1>2. CASE ProcessNotification
    <2>1. toClient' = toClient /\ notificationQueue # <<>> /\ notificationQueue' = Tail(notificationQueue)
      BY <1>2, QueueTakes DEF ProcessNotification
    <2> QED BY <1>0, <1>1, <2>1, CurrentKept DEF Stamped
  <1>3. CASE ~ProcessNotification
    <2>1. toClient # <<>> /\ toClient' = Tail(toClient)
      BY <1>3 DEF Client, ReceiveNotification, ReceiveSubscribed, ReceiveUnsubscribed,
                        ReceiveFailed, ReceiveAttached, Frame
    <2>2. \/ notificationQueue' = notificationQueue
          \/ notificationQueue' = Append(notificationQueue, Head(toClient))
      BY <1>3 DEF Client, ReceiveNotification, ReceiveSubscribed, ReceiveUnsubscribed,
                        ReceiveFailed, ReceiveAttached, Queued, Barrier
    <2>3. notificationQueue' \in Seq(Current)
      BY <1>0, <2>1, <2>2, AppendCurrent
    <2> QED BY <1>0, <1>1, <2>1, <2>3, CurrentKept DEF Stamped
  <1> QED BY <1>2, <1>3

LEMMA NextKeepsStamped ==
  ASSUME Types, FeedTypes, Chronicle, Stamped, Next
  PROVE  Stamped'
  <1>1. CASE Application
    <2>1. UNCHANGED <<journal, toClient, notificationQueue>>
      BY <1>1 DEF Application, On, Off, OnFrom, Release, Attach, server
    <2> QED BY <2>1, CurrentKept DEF Stamped
  <1>2. CASE Disconnect \/ Restart
    <2>1. toClient' = <<>> /\ notificationQueue' = <<>>
      BY <1>2 DEF Disconnect, Restart, DropConnection
    <2> QED BY <2>1 DEF Stamped
  <1>3. CASE Reconnect
    <2>1. UNCHANGED <<journal, toClient, notificationQueue>>
      BY <1>3 DEF Reconnect, server
    <2> QED BY <2>1, CurrentKept DEF Stamped
  <1> QED BY <1>1, <1>2, <1>3, ChangeKeepsStamped, ServerKeepsStamped, ClientKeepsStamped DEF Next

(* The elements of a stamped queue.                                        *)
LEMMA StampsAre ==
  ASSUME Types, Stamped
  PROVE  /\ \A i \in DOMAIN toClient : toClient[i] \in Current
         /\ \A i \in DOMAIN notificationQueue : notificationQueue[i] \in Current
         /\ toClient # <<>> => Head(toClient) \in Current
         /\ notificationQueue # <<>> => Head(notificationQueue) \in Current
         /\ \A m \in Current :
              /\ m \in Answer
              /\ m.type \in {"event", "property", "attached"} =>
                   m.cursor \in Position /\ m.cursor.gen = Head1.gen /\ m.cursor.rev <= Head1.rev
              /\ m.type = "subscribed" => m.head \in Revision /\ m.head <= Head1.rev
  <1>1. /\ \A i \in DOMAIN toClient : toClient[i] \in Current
        /\ \A i \in DOMAIN notificationQueue : notificationQueue[i] \in Current
        /\ toClient # <<>> => Head(toClient) \in Current
        /\ notificationQueue # <<>> => Head(notificationQueue) \in Current
    <2> HIDE DEF Current
    <2> QED BY DEF Stamped
  <1>2. ASSUME NEW m \in Current
        PROVE  /\ m \in Answer
               /\ m.type \in {"event", "property", "attached"} =>
                   m.cursor \in Position /\ m.cursor.gen = Head1.gen /\ m.cursor.rev <= Head1.rev
               /\ m.type = "subscribed" => m.head \in Revision /\ m.head <= Head1.rev
    <2>1. m \in Answer
      BY DEF Current
    <2> QED BY <2>1, AnswersHave DEF Current
  <1> QED BY <1>1, <1>2

-----------------------------------------------------------------------------
(* While a known proxy waits to be reattached no notification is under     *)
(* way, and once it has been it is of the server's present life.           *)
Notices == {"event", "property"}

Reattached ==
    releases = 0 =>
      /\ Asked => ~attached /\ eventSubscriptions = {} /\ \A u \in Notices : ~Has(toClient, u)
      /\ Reattaching => \A u \in Notices : ~Has(notificationQueue, u)
      /\ \A u \in Notices : Before(toClient, "attached", u)
      /\ connected /\ ~Reattaching => cursor.gen = Head1.gen

(* Not ahead of the journal's head.                                        *)
Level(c) == c.gen < Head1.gen \/ (c.gen = Head1.gen /\ c.rev <= Head1.rev)

(* The cursors of a proxy that was never released: of one life of the      *)
(* server, none ahead of the journal.                                      *)
Placing ==
    releases = 0 =>
      /\ Level(cursor)
      /\ \A e \in Event : eventCursors[e] # None =>
                             eventCursors[e].gen = cursor.gen /\ Level(eventCursors[e])

LEMMA InitReattached == Init => Reattached /\ Placing
  <1> SUFFICES ASSUME Init PROVE Reattached /\ Placing
    OBVIOUS
  <1>1. /\ cursor = Cursor(1, 0) /\ Head1 = Cursor(1, 0) /\ cursor.gen = 1 /\ cursor.rev = 0
        /\ \A e \in Event : eventCursors[e] = None
    BY DEF Init, Head1, Cursor, EmptyJournal
  <1>2. toServer = <<>> /\ handling = <<>> /\ toClient = <<>> /\ notificationQueue = <<>>
    BY DEF Init
  <1> QED BY <1>1, <1>2, NothingHeld DEF Reattached, Placing, Level, Asked, Told, Reattaching

LEMMA ChangeKeepsReattached ==
  ASSUME Types, Types', Reattached, Placing, (\E e \in Event : EmitEvent(e)) \/ Modify
  PROVE  Reattached' /\ Placing'
  <1>1. \E member, retain : Advance(member, retain)
    BY DEF EmitEvent, Modify
  <1>2. Head1'.gen = Head1.gen /\ Head1'.rev = Head1.rev + 1
    <2>1. PICK member, retain : Advance(member, retain)
      BY <1>1
    <2>2. Accepts(journal, Cursor(Head1.gen, Head1.rev + 1))
      BY NumbersAre DEF Accepts, Cursor
    <2> QED BY <2>1, <2>2 DEF Advance, AppendEntry, Cursor, Head1
  <1>3. UNCHANGED <<attached, eventSubscriptions, handling, toServer, connected, releases, cursor, eventCursors,
                    notificationQueue>>
    BY DEF EmitEvent, Modify, session, proxy
  <1>4. \/ toClient' = toClient
        \/ attached /\ \E m \in Answer : m.type \in {"event", "property"} /\ Added(toClient, m, toClient')
    BY ChangeIsTold
  <1>5. Asked' <=> Asked
    BY <1>3 DEF Asked
  <1>6. ASSUME releases = 0
        PROVE  /\ Told' <=> Told
               /\ Asked => \A u \in Notices : ~Has(toClient', u)
               /\ \A u \in Notices : Before(toClient', "attached", u)
    <2>1. CASE toClient' = toClient
      BY <1>6, <2>1 DEF Told, Reattached
    <2>2. CASE attached /\ \E m \in Answer : m.type \in {"event", "property"} /\ Added(toClient, m, toClient')
      <3>1. PICK m \in Answer : m.type \in {"event", "property"} /\ Added(toClient, m, toClient')
        BY <2>2
      <3>2. Has(toClient', "attached") <=> Has(toClient, "attached")
        BY <3>1 DEF Added
      <3>3. ~Asked
        BY <1>6, <2>2 DEF Reattached
      <3>4. \A u \in Notices : Before(toClient', "attached", u)
        BY <1>6, <3>1 DEF Reattached, Added, Notices
      <3> QED BY <3>2, <3>3, <3>4 DEF Told
    <2> QED BY <1>4, <2>1, <2>2
  <1>7. Reattached'
    BY <1>2, <1>3, <1>5, <1>6 DEF Reattached, Reattaching
  <1>8. /\ Head1.rev \in Nat /\ Head1.gen \in Nat /\ cursor.rev \in Nat
        /\ \A e \in Event : eventCursors[e] # None => eventCursors[e].rev \in Nat
    <2>1. cursor \in Position /\ \A e \in Event : eventCursors[e] # None => eventCursors[e] \in Position
      BY PropertiesOfTypes DEF Stamps
    <2> QED BY <2>1, NumbersAre
  <1>9. \A c : c.rev \in Nat /\ Level(c) => Level(c)'
    BY <1>2, <1>8 DEF Level
  <1>10. Placing'
    <2> SUFFICES ASSUME releases = 0
                 PROVE  /\ Level(cursor)'
                        /\ \A e \in Event : eventCursors[e] # None =>
                             eventCursors[e].gen = cursor.gen /\ Level(eventCursors[e])'
      BY <1>3 DEF Placing, Level
    <2> QED BY <1>2, <1>3, <1>8 DEF Placing, Level
  <1> QED BY <1>7, <1>10

LEMMA PlacingKept ==
  ASSUME Placing, releases' = 0 => releases = 0, UNCHANGED <<journal, cursor, eventCursors>>
  PROVE  Placing'
  BY DEF Placing, Level, Head1

(* The requests and the answers about the attachment stay what they were.  *)
LEMMA ReattachedKept ==
  ASSUME Reattached, releases' = 0 => releases = 0, UNCHANGED <<journal, cursor>>,
         connected' => connected,
         releases = 0 =>
           /\ Asked' <=> Asked
           /\ Told' <=> Told
           /\ Asked => ~attached' /\ eventSubscriptions' = {} /\ \A u \in Notices : ~Has(toClient', u)
           /\ Reattaching => \A u \in Notices : ~Has(notificationQueue', u)
           /\ \A u \in Notices : Before(toClient', "attached", u)
  PROVE  Reattached'
  BY DEF Reattached, Reattaching, Head1

LEMMA RequestKeepsReattached ==
  ASSUME Types, Reattached, Placing, ReceiveRequest
  PROVE  Reattached' /\ Placing'
  <1> DEFINE m == Head(toServer)
  <1>1. /\ m \in Request /\ Taken(toServer, m, toServer')
        /\ UNCHANGED <<attached, eventSubscriptions, connected, releases, cursor, eventCursors, notificationQueue>>
        /\ \/ toClient' = toClient /\ Added(handling, m, handling')
           \/ /\ handling' = handling /\ m.type \in Wishes
              /\ \E a \in Answer : a.type = "failed" /\ Added(toClient, a, toClient')
    BY RequestMoves DEF session, proxy
  <1>2. journal' = journal
    BY DEF ReceiveRequest
  <1> HIDE DEF m
  <1>3. Asked' <=> Asked
    <2>1. CASE Added(handling, m, handling')
      BY <1>1, <2>1 DEF Taken, Added, Asked
    <2>2. CASE handling' = handling /\ m.type \in Wishes
      BY <1>1, <2>2 DEF Taken, Asked, Wishes
    <2> QED BY <1>1, <2>1, <2>2
  <1>4. /\ Told' <=> Told
        /\ \A u \in Notices : Has(toClient', u) <=> Has(toClient, u)
        /\ \A u \in Notices : Before(toClient, "attached", u) => Before(toClient', "attached", u)
    <2>1. CASE toClient' = toClient
      BY <2>1 DEF Told
    <2>2. CASE \E a \in Answer : a.type = "failed" /\ Added(toClient, a, toClient')
      <3>1. PICK a \in Answer : a.type = "failed" /\ Added(toClient, a, toClient')
        BY <2>2
      <3> QED BY <3>1 DEF Added, Told, Notices
    <2> QED BY <1>1, <2>1, <2>2
  <1>5. Reattached'
    <2>1. releases = 0 =>
           /\ Asked => ~attached' /\ eventSubscriptions' = {} /\ \A u \in Notices : ~Has(toClient', u)
           /\ Reattaching => \A u \in Notices : ~Has(notificationQueue', u)
           /\ \A u \in Notices : Before(toClient', "attached", u)
      BY <1>1, <1>4 DEF Reattached
    <2> QED BY <1>1, <1>2, <1>3, <1>4, <2>1, ReattachedKept
  <1> QED BY <1>1, <1>2, <1>5, PlacingKept

(* A verdict comes of a request that was made after the attachment.        *)
LEMMA NotAskedWhileWishing ==
  ASSUME Types, Link, NEW type \in Wishes, Finishing(type)
  PROVE  ~Asked /\ (Asked' => Asked) /\ toServer' = toServer
  <1>1. /\ Head(handling).type = type /\ Taken(handling, Head(handling), handling') /\ toServer' = toServer
    BY HandlerResumes
  <1>2. Has(handling, type)
    BY <1>1 DEF Taken
  <1>3. ~Has(toServer, "attach")
    BY <1>2 DEF Link, AttachFirst
  <1>4. ~Has(handling, "attach")
    BY <1>1 DEF Link, AttachFirst, Taken
  <1>5. ~Has(handling', "attach")
    BY <1>1, <1>4 DEF Taken
  <1> QED BY <1>1, <1>3, <1>4, <1>5 DEF Asked

LEMMA VerdictKeepsReattached ==
  ASSUME Types, Link, Reattached, Placing, NEW type \in Wishes, Finishing(type),
         NEW a, a.type \notin Notices, a.type # "attached", NEW p, Added(p, a, toClient'),
         p = toClient \/ Followed(toClient, "event", p)
  PROVE  Reattached' /\ Placing'
  <1>1. UNCHANGED <<journal, connected, releases, cursor, eventCursors, notificationQueue, toServer>>
    BY DEF Finishing, session, proxy
  <1>2. ~Asked /\ ~Asked'
    BY NotAskedWhileWishing DEF Asked
  <1>3. Told' <=> Told
    <2>1. Has(p, "attached") <=> Has(toClient, "attached")
      BY DEF Followed
    <2> QED BY <2>1 DEF Told, Added
  <1>4. \A u \in Notices : Before(toClient, "attached", u) => Before(toClient', "attached", u)
    <2> SUFFICES ASSUME NEW u \in Notices, Before(toClient, "attached", u) PROVE Before(toClient', "attached", u)
      OBVIOUS
    <2>1. Before(p, "attached", u)
      BY DEF Followed
    <2> QED BY <2>1 DEF Added, Notices
  <1>5. Reattached'
    BY <1>1, <1>2, <1>3, <1>4, ReattachedKept DEF Reattached
  <1> QED BY <1>1, <1>5, PlacingKept

LEMMA FinishKeepsReattached ==
  ASSUME Types, Link, Reattached, Placing, FinishSubscribe \/ FinishUnsubscribe \/ FinishAttach \/ FinishDetach
  PROVE  Reattached' /\ Placing'
  <1>1. CASE FinishSubscribe
    <2>1. \/ Replies("failed", Head(handling).event, toClient)
          \/ \E p : Followed(toClient, "event", p) /\ Replies("subscribed", Head(handling).event, p)
      BY <1>1, SubscribeReplies
    <2>2. \E p, a : /\ a.type \in {"failed", "subscribed"} /\ Added(p, a, toClient')
                    /\ p = toClient \/ Followed(toClient, "event", p)
      BY <2>1 DEF Replies
    <2>3. Finishing("subscribe")
      BY <1>1 DEF FinishSubscribe
    <2> QED BY <2>2, <2>3, VerdictKeepsReattached DEF Wishes, Notices
  <1>2. CASE FinishUnsubscribe
    <2>1. \E a : a.type = "unsubscribed" /\ Added(toClient, a, toClient')
      BY <1>2, UnsubscribeReplies DEF Replies
    <2>2. Finishing("unsubscribe")
      BY <1>2 DEF FinishUnsubscribe
    <2> QED BY <2>1, <2>2, VerdictKeepsReattached DEF Wishes, Notices
  <1>3. CASE FinishAttach
    <2>1. /\ eventSubscriptions' = eventSubscriptions /\ attached' = TRUE
          /\ \E a \in Answer : a.type = "attached" /\ Added(toClient, a, toClient')
      BY <1>3, AttachReplies
    <2>2. PICK a \in Answer : a.type = "attached" /\ Added(toClient, a, toClient')
      BY <2>1
    <2>3. /\ Head(handling).type = "attach" /\ Taken(handling, Head(handling), handling')
          /\ UNCHANGED <<journal, toServer, connected, releases, cursor, eventCursors, notificationQueue>>
      BY <1>3, HandlerResumes DEF FinishAttach, Finishing, session, proxy
    <2>4. Asked /\ ~Asked'
      <3>1. Has(handling, "attach") /\ ~Has(handling', "attach")
        BY <2>3 DEF Taken, Link, OneAttach
      <3> QED BY <2>3, <3>1 DEF Asked, Link, OneAttach
    <2>5. Told'
      BY <2>2 DEF Told, Added
    <2>6. releases = 0 => \A u \in Notices : Before(toClient', "attached", u)
      BY <2>2, <2>4 DEF Added, Reattached, Notices
    <2>7. Reattached'
      BY <2>3, <2>4, <2>5, <2>6 DEF Reattached, Reattaching
    <2> QED BY <2>3, <2>7, PlacingKept
  <1>4. CASE FinishDetach
    <2>1. /\ Head(handling).type = "detach" /\ Taken(handling, Head(handling), handling')
          /\ releases' = releases
      BY <1>4, HandlerResumes DEF FinishDetach, Finishing, session
    <2>2. Has(handling, "detach")
      BY <2>1 DEF Taken
    <2>3. releases # 0
      BY <2>2 DEF Link, DetachFirst, Untracked
    <2> QED BY <2>1, <2>3 DEF Reattached, Placing
  <1> QED BY <1>1, <1>2, <1>3, <1>4

(* A frame is handled that is not about the attachment.                    *)
LEMMA FrameKeepsReattached ==
  ASSUME Types, Types', Link, Stamped, Reattached, Placing,
         ReceiveNotification \/ ReceiveSubscribed \/ ReceiveUnsubscribed \/ ReceiveFailed
  PROVE  Reattached' /\ Placing'
  <1> DEFINE m == Head(toClient)
  <1>1. /\ m \in Answer /\ m.type # "attached" /\ Taken(toClient, m, toClient') /\ toClient # <<>>
    BY FrameTakes DEF ReceiveNotification, ReceiveSubscribed, ReceiveUnsubscribed, ReceiveFailed
  <1>2. UNCHANGED <<journal, attached, eventSubscriptions, handling, connected, releases, cursor, eventCursors>>
    BY DEF ReceiveNotification, ReceiveSubscribed, ReceiveUnsubscribed, ReceiveFailed, server, session, proxy
  <1>3. Asked' <=> Asked
    <2>1. CASE ReceiveUnsubscribed
      <3>1. Frame("unsubscribed") /\ Turn(m.event)
        BY <2>1 DEF ReceiveUnsubscribed
      <3>2. m.event \in Wire
        BY <1>1, <3>1, AnswersHave DEF Frame
      <3>3. Turned(m.event)
        BY <3>1, <3>2, TurnSends, PropertiesOfTypes, <1>2
      <3>4. Has(toServer', "attach") <=> Has(toServer, "attach")
        BY <3>2, <3>3, WireIsEvents, TurnSays DEF Wishes
      <3> QED BY <1>2, <3>4 DEF Asked
    <2>2. CASE ~ReceiveUnsubscribed
      BY <1>2, <2>2 DEF ReceiveNotification, ReceiveSubscribed, ReceiveFailed, Asked
    <2> QED BY <2>1, <2>2
  <1>4. /\ Told' <=> Told
        /\ \A u : Has(toClient', u) => Has(toClient, u)
        /\ \A u \in Notices : Before(toClient, "attached", u) => Before(toClient', "attached", u)
    BY <1>1 DEF Taken, Told
  <1>5. releases = 0 /\ Reattaching => \A u \in Notices : ~Has(notificationQueue', u)
    <2> SUFFICES ASSUME releases = 0, Reattaching PROVE \A u \in Notices : ~Has(notificationQueue', u)
      OBVIOUS
    <2>1. \A u \in Notices : ~Has(notificationQueue, u)
      BY DEF Reattached
    <2>2. CASE m.type \in Notices
      <3>1. Has(toClient, m.type) /\ ~Has(toClient, "attached")
        BY <1>1, <2>2 DEF Taken, Reattached
      <3>2. ~Asked
        BY <2>2, <3>1 DEF Reattached
      <3> QED BY <3>1, <3>2 DEF Reattaching, Told
    <2>3. CASE m.type \notin Notices
      <3>1. ~ReceiveNotification
        BY <2>3 DEF ReceiveNotification, Frame, Notices
      <3>2. CASE ReceiveSubscribed
        <4>1. m \in Deferred /\ notificationQueue' = Append(notificationQueue, m)
          BY <1>1, <3>2, AnswersHave DEF ReceiveSubscribed, Barrier, Queued, Frame
        <4>2. Added(notificationQueue, m, notificationQueue')
          <5> HIDE DEF m
          <5> QED BY <4>1, AppendAdds, PropertiesOfTypes
        <4> QED BY <2>1, <2>3, <4>2 DEF Added
      <3>3. CASE ~ReceiveSubscribed
        BY <2>1, <3>1, <3>3 DEF ReceiveUnsubscribed, ReceiveFailed
      <3> QED BY <3>2, <3>3
    <2> QED BY <2>2, <2>3
  <1>6. Reattached'
    <2>1. releases = 0 =>
           /\ Asked => ~attached' /\ eventSubscriptions' = {} /\ \A u \in Notices : ~Has(toClient', u)
           /\ Reattaching => \A u \in Notices : ~Has(notificationQueue', u)
           /\ \A u \in Notices : Before(toClient', "attached", u)
      BY <1>2, <1>4, <1>5 DEF Reattached
    <2> QED BY <1>2, <1>3, <1>4, <2>1, ReattachedKept
  <1> QED BY <1>2, <1>6, PlacingKept

(* What processing a notification does to the cursors and to the feed.     *)
Ignored(m) ==
    /\ m.type = "event" /\ ~(tracked /\ Applies(m.event, m.cursor))
    /\ UNCHANGED <<cursor, eventCursors, feed>>
Noticed(m) ==
    /\ m.type = "property" /\ (Observe(m.cursor) \/ cursor' = cursor)
    /\ UNCHANGED <<eventCursors, feed>>
Applied(m) ==
    /\ m.type = "event" /\ tracked /\ Applies(m.event, m.cursor)
    /\ eventCursors' = [eventCursors EXCEPT ![m.event] = m.cursor] /\ Observe(m.cursor)
    /\ heard' = IF Wanted(m.event) THEN [heard EXCEPT ![m.event] = Append(heard[m.event], m.cursor.rev)]
                                   ELSE heard
    /\ UNCHANGED <<occurred, from, lapse, resolved>>
Confirmed(m) ==
    /\ m.type = "subscribed"
    /\ resolved' = IF Wanted(m.event) THEN [resolved EXCEPT ![m.event] = m.head] ELSE resolved
    /\ UNCHANGED <<cursor, eventCursors, occurred, from, heard, lapse>>

LEMMA ProcessOutcome ==
  ASSUME Types, ProcessNotification
  PROVE  LET m == Head(notificationQueue) IN
         Ignored(m) \/ Noticed(m) \/ Applied(m) \/ Confirmed(m)
  <1> DEFINE m == Head(notificationQueue)
             live == tracked /\ Applies(m.event, m.cursor)
  <1>1. m.type \in {"property", "event", "subscribed"}
    <2>1. m \in Deferred
      BY QueueTakes
    <2> QED BY <2>1 DEF Deferred, Occurrence, Acknowledgement
  <1>2. CASE m.type = "property"
    <2>1. Noticed(m)
      BY <1>2 DEF ProcessNotification, Noticed
    <2> QED BY <2>1
  <1>3. CASE m.type = "subscribed"
    <2>1. Confirmed(m)
      BY <1>3 DEF ProcessNotification, Confirmed
    <2> QED BY <2>1
  <1>4. CASE m.type = "event" /\ live
    <2>1. Applied(m)
      BY <1>4 DEF ProcessNotification, Applied
    <2> QED BY <2>1
  <1>5. CASE m.type = "event" /\ ~live
    <2>1. Ignored(m)
      BY <1>5 DEF ProcessNotification, Ignored
    <2> QED BY <2>1
  <1> QED BY <1>1, <1>2, <1>3, <1>4, <1>5

LEMMA ProcessKeepsReattached ==
  ASSUME Types, Types', Link, Stamped, Reattached, Placing, ProcessNotification
  PROVE  Reattached' /\ Placing'
  <1> DEFINE m == Head(notificationQueue)
  <1>1. /\ notificationQueue # <<>> /\ Taken(notificationQueue, m, notificationQueue')
        /\ UNCHANGED <<journal, attached, eventSubscriptions, handling, toClient, connected, releases>>
        /\ Ignored(m) \/ Noticed(m) \/ Applied(m) \/ Confirmed(m)
        /\ m \in Current
    BY QueueTakes, ProcessOutcome, StampsAre DEF server, session
  <1>2. Asked' <=> Asked
    <2>1. CASE m.type = "subscribed"
      <3>1. /\ m.event \in Wire /\ Turn(m.event)
        BY <2>1, QueueTakes
      <3>2. Turned(m.event)
        BY <3>1, TurnSends DEF Types, ProxyTypes
      <3>3. Has(toServer', "attach") <=> Has(toServer, "attach")
        BY <3>1, <3>2, WireIsEvents, TurnSays DEF Wishes
      <3> QED BY <1>1, <3>3 DEF Asked
    <2>2. CASE m.type # "subscribed"
      BY <1>1, <2>2, QueueTakes DEF Asked
    <2> QED BY <2>1, <2>2
  <1>3. (Told' <=> Told) /\ (Reattaching' <=> Reattaching)
    BY <1>1, <1>2 DEF Told, Reattaching
  <1>4. m.type \in Notices => m.cursor \in Position /\ m.cursor.gen = Head1.gen /\ m.cursor.rev <= Head1.rev
    BY <1>1, StampsAre DEF Notices
  <1>5. releases = 0 /\ m.type \in Notices => ~Reattaching /\ connected /\ cursor.gen = Head1.gen
    <2>1. connected
      BY <1>1, SilentMeansConnected DEF Link
    <2>2. m.type \in Notices => Has(notificationQueue, m.type)
      BY <1>1 DEF Taken
    <2> QED BY <2>1, <2>2 DEF Reattached
  <1>6. \A u : Has(notificationQueue', u) => Has(notificationQueue, u)
    BY <1>1 DEF Taken
  <1>7. cursor' = cursor \/ (m.type \in Notices /\ cursor' = m.cursor)
    BY <1>1 DEF Ignored, Noticed, Applied, Confirmed, Observe, Notices
  <1>8. eventCursors' = eventCursors \/ (m.type \in Notices /\ eventCursors' = [eventCursors EXCEPT ![m.event] = m.cursor])
    BY <1>1 DEF Ignored, Noticed, Applied, Confirmed, Notices
  <1> HIDE DEF m
  <1>9. Reattached'
    BY <1>1, <1>2, <1>3, <1>4, <1>5, <1>6, <1>7 DEF Reattached, Head1, Notices
  <1>10. Placing'
    <2> SUFFICES ASSUME releases = 0 PROVE Placing'
      BY <1>1 DEF Placing
    <2>0. Head1' = Head1 /\ cursor'.gen = cursor.gen
      BY <1>1, <1>4, <1>5, <1>7 DEF Head1
    <2>1. Level(cursor)'
      BY <1>4, <1>7, <2>0 DEF Placing, Level
    <2>2. ASSUME NEW e \in Event, eventCursors'[e] # None
          PROVE  eventCursors'[e].gen = cursor.gen /\ Level(eventCursors[e])'
      <3>1. CASE eventCursors'[e] = eventCursors[e]
        BY <2>0, <2>2, <3>1 DEF Placing, Level
      <3>2. CASE eventCursors'[e] = m.cursor /\ m.type \in Notices
        BY <1>4, <1>5, <2>0, <3>2 DEF Level
      <3> QED BY <1>8, <3>1, <3>2, PropertiesOfTypes
    <2> QED BY <2>0, <2>1, <2>2 DEF Placing
  <1> QED BY <1>9, <1>10

LEMMA AttachedKeepsReattached ==
  ASSUME Types, Types', Link, Stamped, Reattached, Placing, ReceiveAttached
  PROVE  Reattached' /\ Placing'
  <1> DEFINE c == Head(toClient).cursor
  <1>1. /\ Head(toClient).type = "attached" /\ Taken(toClient, Head(toClient), toClient') /\ toClient # <<>>
        /\ UNCHANGED <<journal, attached, eventSubscriptions, handling, connected, releases, notificationQueue>>
        /\ tracked => Followed(toServer, "subscribe", toServer')
        /\ Head1' = Head1
    BY AttachedMoves DEF server, session, Head1
  <1>2. SUFFICES ASSUME releases = 0 PROVE Reattached' /\ Placing'
    BY <1>1 DEF Reattached, Placing
  <1>3. tracked
    BY <1>2 DEF Link, Untracked
  <1>4. cursor' = c /\ eventCursors' = IF cursor.gen # c.gen THEN [e \in Event |-> c] ELSE eventCursors
    BY <1>3 DEF ReceiveAttached, Replace
  <1>5. c.gen = Head1.gen /\ c.rev <= Head1.rev
    <2>1. Head(toClient) \in Current
      BY <1>1, StampsAre
    <2> QED BY <1>1, <2>1, StampsAre
  <1>6. Told /\ ~Asked /\ ~Told' /\ ~Asked'
    <2>1. Told
      BY <1>1 DEF Taken, Told
    <2>2. ~Told'
      BY <1>1 DEF Taken, Told, Link, OneAttach
    <2>3. ~Asked
      BY <2>1 DEF Link, OneAttach
    <2>4. ~Asked'
      BY <1>1, <1>3, <2>3 DEF Followed, Asked
    <2> QED BY <2>1, <2>2, <2>3, <2>4
  <1>7. \A u \in Notices : Before(toClient', "attached", u)
    BY <1>1, <1>2 DEF Taken, Reattached
  <1> HIDE DEF c
  <1>8. Reattached'
    BY <1>1, <1>4, <1>5, <1>6, <1>7 DEF Reattached, Reattaching
  <1>9. Placing'
    <2>1. Level(c) /\ \A d : Level(d)' <=> Level(d)
      BY <1>1, <1>5 DEF Level
    <2>2. \A e \in Event : eventCursors'[e] # None => eventCursors'[e].gen = c.gen /\ Level(eventCursors'[e])
      BY <1>2, <1>4, <2>1 DEF Placing
    <2> QED BY <1>1, <1>4, <2>1, <2>2 DEF Placing, Level
  <1> QED BY <1>8, <1>9

(* The application adds and removes listeners.                             *)
LEMMA ListenerTurns ==
  ASSUME Types, Types', NEW e \in Event, On(e) \/ Off(e) \/ \E r \in Revision : OnFrom(e, r)
  PROVE  /\ UNCHANGED <<reconciling, toServer>> \/ (e \in Wire /\ e \notin reconciling /\ Turned(e))
         /\ UNCHANGED <<journal, attached, eventSubscriptions, handling, toClient, connected, releases, sessions,
                        notificationQueue, cursor, occurred, subscribedEvents, tracked>>
         /\ Asked' <=> Asked
         /\ Told' <=> Told
  <1>1. Reconcile(e)
    BY DEF On, Off, OnFrom
  <1>2. UNCHANGED <<journal, attached, eventSubscriptions, handling, toClient, connected, releases, sessions,
                        notificationQueue, cursor, occurred, subscribedEvents, tracked>>
    BY DEF On, Off, OnFrom, server, session, feed
  <1>3. UNCHANGED <<reconciling, toServer>> \/ (e \in Wire /\ e \notin reconciling /\ Turned(e))
    <2>1. CASE e \in reconciling \/ ~OnWire(e)
      BY <1>1, <2>1 DEF Reconcile
    <2>2. CASE e \notin reconciling /\ OnWire(e)
      <3>1. Turn(e) /\ e \in Wire
        BY <1>1, <2>2 DEF Reconcile, OnWire, Wire
      <3>2. Turned(e)
        BY <3>1, TurnSends DEF Types, ProxyTypes
      <3> QED BY <2>2, <3>1, <3>2
    <2> QED BY <2>1, <2>2
  <1>4. Asked' <=> Asked
    <2>1. CASE Turned(e)
      BY <1>2, <2>1, TurnSays DEF Asked, Wishes
    <2> QED BY <1>2, <1>3, <2>1 DEF Asked
  <1> QED BY <1>2, <1>3, <1>4 DEF Told

LEMMA ListenerKeepsReattached ==
  ASSUME Types, Types', Reattached, Placing, NEW e \in Event, On(e) \/ Off(e) \/ \E r \in Revision : OnFrom(e, r)
  PROVE  Reattached' /\ Placing'
  <1>1. /\ UNCHANGED <<journal, attached, eventSubscriptions, toClient, connected, releases, notificationQueue, cursor>>
        /\ Asked' <=> Asked
        /\ Told' <=> Told
    BY ListenerTurns
  <1>2. Reattached'
    BY <1>1, ReattachedKept DEF Reattached
  <1>3. CASE \E r \in Revision : OnFrom(e, r)
    <2>1. PICK r \in Revision : OnFrom(e, r)
      BY <1>3
    <2>2. r <= cursor.rev /\ eventCursors' = [eventCursors EXCEPT ![e] = Cursor(cursor.gen, r)]
      BY <2>1 DEF OnFrom
    <2>3. /\ Head1.rev \in Nat /\ cursor.rev \in Nat /\ r \in Nat /\ Head1' = Head1
      BY <1>1, NumbersAre, PropertiesOfTypes, RevisionsAreFinite DEF Head1
    <2>4. Level(cursor) => Level(Cursor(cursor.gen, r))
      BY <2>2, <2>3 DEF Level, Cursor
    <2>5. \A d : Level(d)' <=> Level(d)
      BY <2>3 DEF Level
    <2>6. Cursor(cursor.gen, r).gen = cursor.gen
      BY DEF Cursor
    <2>7. \A f \in Event : eventCursors'[f] = eventCursors[f] \/ eventCursors'[f] = Cursor(cursor.gen, r)
      BY <2>2, PropertiesOfTypes
    <2>8. Placing'
      <3> SUFFICES ASSUME releases = 0 PROVE Placing'
        BY <1>1 DEF Placing
      <3>1. Level(cursor)'
        BY <1>1, <2>5 DEF Placing
      <3>2. ASSUME NEW f \in Event, eventCursors'[f] # None
            PROVE  eventCursors'[f].gen = cursor.gen /\ Level(eventCursors'[f])
        BY <2>4, <2>6, <2>7, <3>2 DEF Placing
      <3> QED BY <1>1, <2>5, <3>1, <3>2 DEF Placing, Level
    <2> QED BY <1>2, <2>8
  <1>4. CASE On(e) \/ Off(e)
    BY <1>1, <1>2, <1>4, PlacingKept DEF On, Off
  <1> QED BY <1>3, <1>4

LEMMA ReleaseKeepsReattached ==
  ASSUME Types, Link, Release \/ Attach
  PROVE  Reattached' /\ Placing'
  <1>1. CASE Release
    <2>1. releases' # 0
      BY <1>1 DEF Release, Types, SessionTypes
    <2> QED BY <2>1 DEF Reattached, Placing
  <1>2. CASE Attach
    <2>1. releases' = releases /\ ~tracked
      BY <1>2 DEF Attach, session
    <2> QED BY <2>1 DEF Reattached, Placing, Link, Untracked
  <1> QED BY <1>1, <1>2

LEMMA DropKeepsReattached ==
  ASSUME Types, Reattached, Placing, Disconnect \/ Restart
  PROVE  Reattached' /\ Placing'
  <1>1. /\ ~connected' /\ toServer' = <<>> /\ toClient' = <<>> /\ handling' = <<>> /\ notificationQueue' = <<>>
        /\ eventSubscriptions' = {} /\ ~attached' /\ UNCHANGED <<releases, cursor, eventCursors>>
    BY DEF Disconnect, Restart, DropConnection
  <1>2. Reattached'
    BY <1>1, NothingHeld DEF Reattached, Asked, Told, Reattaching
  <1>3. CASE Disconnect
    BY <1>1, <1>2, <1>3, PlacingKept DEF Disconnect
  <1>4. CASE Restart
    <2>1. Head1'.gen = Head1.gen + 1 /\ Head1.gen \in Nat
      BY <1>4, NumbersAre DEF Restart, EmptyJournal, Cursor, Head1
    <2>2. cursor.gen \in Nat /\ \A e \in Event : eventCursors[e] # None => eventCursors[e].gen \in Nat
      <3>1. cursor \in Position /\ \A e \in Event : eventCursors[e] # None => eventCursors[e] \in Position
        BY PropertiesOfTypes DEF Stamps
      <3> QED BY <3>1, NumbersAre
    <2>3. releases = 0 => /\ cursor.gen < Head1.gen + 1
                          /\ \A e \in Event : eventCursors[e] # None => eventCursors[e].gen < Head1.gen + 1
                                                                     /\ eventCursors[e].gen = cursor.gen
      BY <2>1, <2>2 DEF Placing, Level
    <2>4. Placing'
      BY <1>1, <2>1, <2>3 DEF Placing, Level
    <2> QED BY <1>2, <2>4
  <1> QED BY <1>3, <1>4

LEMMA ReconnectKeepsReattached ==
  ASSUME Types, Link, Reattached, Placing, Reconnect
  PROVE  Reattached' /\ Placing'
  <1>1. /\ UNCHANGED <<journal, attached, eventSubscriptions, handling, toClient, releases, cursor, eventCursors, notificationQueue>>
        /\ ~connected /\ toServer' = IF tracked THEN <<[type |-> "attach"]>> ELSE <<>>
    BY DEF Reconnect, server, proxy
  <1>2. toClient = <<>> /\ notificationQueue = <<>> /\ eventSubscriptions = {} /\ ~attached
    BY <1>1 DEF Link, Silent
  <1>3. releases = 0 => Asked'
    BY <1>1 DEF Link, Untracked, Asked, Has
  <1>4. Reattached'
    BY <1>1, <1>2, <1>3, NothingHeld DEF Reattached, Reattaching
  <1> QED BY <1>1, <1>4, PlacingKept

LEMMA NextKeepsReattached ==
  ASSUME Types, Types', Link, Stamped, Reattached, Placing, Next
  PROVE  Reattached' /\ Placing'
  BY ChangeKeepsReattached, RequestKeepsReattached, FinishKeepsReattached, FrameKeepsReattached,
     AttachedKeepsReattached, ProcessKeepsReattached, ListenerKeepsReattached, ReleaseKeepsReattached,
     DropKeepsReattached, ReconnectKeepsReattached DEF Next, Server, Client, Application

-----------------------------------------------------------------------------
(* All that is so of the session and of the journal, together.             *)
Setting ==
    /\ Types /\ FeedTypes /\ OrderedJournal /\ Chronicle /\ Link /\ Beliefs
    /\ Stamped /\ Reattached /\ Placing

(* Nothing under way is of an earlier life of the server or ahead of its   *)
(* journal, and neither is a proxy that was never released, once it is     *)
(* reattached: the cursors of notifications, reattach and applyEvent.      *)
THEOREM SettingInvariance == Spec => []Setting
  <1>1. /\ Types /\ Types' /\ FeedTypes /\ Chronicle /\ Link
        /\ Stamped /\ Reattached /\ Placing /\ [Next]_vars
        => Stamped' /\ Reattached' /\ Placing'
    <2> SUFFICES ASSUME Types, Types', FeedTypes, Chronicle, Link, Stamped, Reattached, Placing, [Next]_vars
                 PROVE  Stamped' /\ Reattached' /\ Placing'
      OBVIOUS
    <2>1. CASE UNCHANGED vars
      <3>1. UNCHANGED <<journal, attached, eventSubscriptions, handling, toServer, toClient, connected, releases,
                        cursor, eventCursors, notificationQueue>>
        BY <2>1 DEF vars, server, session, proxy
      <3>2. (Asked' <=> Asked) /\ (Told' <=> Told)
        BY <3>1 DEF Asked, Told
      <3>3. Stamped'
        BY <3>1, CurrentKept DEF Stamped
      <3> QED BY <3>1, <3>3, PlacingKept DEF Reattached, Reattaching, Asked, Told, Head1
    <2> QED BY <2>1, NextKeepsStamped, NextKeepsReattached
  <1> QED BY InitStamped, InitReattached, <1>1, TypesInvariance, FeedTypesInvariance, ChronicleInvariance,
             LinkInvariance, BeliefsInvariance, PTL DEF Spec, Setting

-----------------------------------------------------------------------------
(* What a queue says of an event.                                          *)
Says(q, t, e) == {m \in ToSet(q) : Is(m, t, e)}
Post(q, e) == Says(q, "event", e) \cup Says(q, "subscribed", e)
Revs(M, e) == {m.cursor.rev : m \in {x \in M : Is(x, "event", e)}}

(* An occurrence comes after the occurrences, and the answers to           *)
(* subscriptions, that are older.                                          *)
Sorted(x, y, e) ==
    Is(y, "event", e) =>
      /\ Is(x, "event", e) => x.cursor.rev < y.cursor.rev
      /\ Is(x, "subscribed", e) => x.head < y.cursor.rev
InLine(q, e) == \A i, j \in DOMAIN q : i < j => Sorted(q[i], q[j], e)
Across(q, p, e) == \A x \in Post(q, e), y \in Post(p, e) : Sorted(x, y, e)

LEMMA SaysAre ==
  /\ \A q, t, e : Carries(q, t, e) <=> Says(q, t, e) # {}
  /\ \A q, t, e, m : m \in Says(q, t, e) <=> m \in ToSet(q) /\ Is(m, t, e)
  /\ \A q, e, m : m \in Post(q, e) <=> m \in ToSet(q) /\ (Is(m, "event", e) \/ Is(m, "subscribed", e))
  /\ \A q, m : m \in ToSet(q) <=> \E i \in DOMAIN q : q[i] = m
  <1>1. \A q, m : m \in ToSet(q) <=> \E i \in DOMAIN q : q[i] = m
    BY DEF ToSet
  <1>2. \A q, t, e, m : m \in Says(q, t, e) <=> m \in ToSet(q) /\ Is(m, t, e)
    BY DEF Says
  <1>3. \A q, e, m : m \in Post(q, e) <=> m \in ToSet(q) /\ (Is(m, "event", e) \/ Is(m, "subscribed", e))
    BY <1>2 DEF Post
  <1>4. \A q, t, e : Carries(q, t, e) <=> Says(q, t, e) # {}
    BY <1>1, <1>2 DEF Carries
  <1> QED BY <1>1, <1>2, <1>3, <1>4

LEMMA SaysAppended ==
  ASSUME NEW S, NEW q \in Seq(S), NEW m \in S
  PROVE  /\ ToSet(Append(q, m)) = ToSet(q) \cup {m}
         /\ \A t, e : Is(m, t, e) => Says(Append(q, m), t, e) = Says(q, t, e) \cup {m}
         /\ \A t, e : ~Is(m, t, e) => Says(Append(q, m), t, e) = Says(q, t, e)
         /\ \A e : InLine(q, e) /\ (\A x \in ToSet(q) : Sorted(x, m, e)) => InLine(Append(q, m), e)
  <1> DEFINE p == Append(q, m)
  <1>1. /\ DOMAIN p = 1 .. Len(q) + 1 /\ DOMAIN q = 1 .. Len(q) /\ Len(q) \in Nat
        /\ \A i \in DOMAIN q : p[i] = q[i] /\ i \in DOMAIN p
        /\ p[Len(q) + 1] = m /\ Len(q) + 1 \in DOMAIN p
    OBVIOUS
  <1>2. \A i \in DOMAIN p : i \in DOMAIN q \/ i = Len(q) + 1
    BY <1>1
  <1> HIDE DEF p
  <1>3. ToSet(p) = ToSet(q) \cup {m}
    <2>1. \A x : x \in ToSet(p) <=> x \in ToSet(q) \/ x = m
      BY <1>1, <1>2, SaysAre
    <2> QED BY <2>1
  <1>4. \A e : InLine(q, e) /\ (\A x \in ToSet(q) : Sorted(x, m, e)) => InLine(p, e)
    <2> SUFFICES ASSUME NEW e, InLine(q, e), \A x \in ToSet(q) : Sorted(x, m, e),
                        NEW i \in DOMAIN p, NEW j \in DOMAIN p, i < j
                 PROVE  Sorted(p[i], p[j], e)
      BY DEF InLine
    <2>1. i \in DOMAIN q
      BY <1>1, <1>2
    <2>2. CASE j \in DOMAIN q
      BY <1>1, <2>1, <2>2 DEF InLine
    <2>3. CASE j = Len(q) + 1
      BY <1>1, <2>1, <2>3, SaysAre
    <2> QED BY <1>2, <2>2, <2>3
  <1>5. \A t, e : /\ Is(m, t, e) => Says(p, t, e) = Says(q, t, e) \cup {m}
                  /\ ~Is(m, t, e) => Says(p, t, e) = Says(q, t, e)
    <2> SUFFICES ASSUME NEW t, NEW e
                 PROVE  /\ Is(m, t, e) => Says(p, t, e) = Says(q, t, e) \cup {m}
                        /\ ~Is(m, t, e) => Says(p, t, e) = Says(q, t, e)
      OBVIOUS
    <2> QED BY <1>3 DEF Says
  <1> QED BY <1>3, <1>4, <1>5 DEF p

LEMMA SaysRemoved ==
  ASSUME NEW S, NEW q \in Seq(S), q # <<>>
  PROVE  /\ ToSet(q) = ToSet(Tail(q)) \cup {Head(q)}
         /\ \A t, e : Is(Head(q), t, e) => Says(q, t, e) = Says(Tail(q), t, e) \cup {Head(q)}
         /\ \A t, e : ~Is(Head(q), t, e) => Says(q, t, e) = Says(Tail(q), t, e)
         /\ \A e : InLine(q, e) => InLine(Tail(q), e) /\ \A y \in ToSet(Tail(q)) : Sorted(Head(q), y, e)
  <1> DEFINE p == Tail(q)
             m == Head(q)
  <1>1. /\ DOMAIN q = 1 .. Len(q) /\ Len(q) \in Nat \ {0} /\ DOMAIN p = 1 .. Len(q) - 1
        /\ \A i \in DOMAIN p : p[i] = q[i + 1] /\ i + 1 \in DOMAIN q
        /\ m = q[1] /\ 1 \in DOMAIN q
        /\ \A i \in DOMAIN q : i = 1 \/ (i - 1 \in DOMAIN p /\ p[i - 1] = q[i])
    BY TailAt
  <1> HIDE DEF p, m
  <1>3. ToSet(q) = ToSet(p) \cup {m}
    <2>1. ASSUME NEW x \in ToSet(q) PROVE x \in ToSet(p) \cup {m}
      <3>1. PICK i \in DOMAIN q : q[i] = x
        BY SaysAre
      <3>2. CASE i = 1
        BY <1>1, <3>1, <3>2
      <3>3. CASE i - 1 \in DOMAIN p /\ p[i - 1] = q[i]
        BY <3>1, <3>3, SaysAre
      <3> QED BY <1>1, <3>2, <3>3
    <2>2. m \in ToSet(q)
      BY <1>1, SaysAre
    <2>3. ASSUME NEW x \in ToSet(p) PROVE x \in ToSet(q)
      <3>1. PICK i \in DOMAIN p : p[i] = x
        BY SaysAre
      <3>2. i + 1 \in DOMAIN q /\ q[i + 1] = x
        BY <1>1, <3>1
      <3> QED BY <3>2, SaysAre
    <2> QED BY <2>1, <2>2, <2>3
  <1>4. ASSUME NEW e, InLine(q, e)
        PROVE  InLine(p, e) /\ \A y \in ToSet(p) : Sorted(m, y, e)
    <2>1. InLine(p, e)
      <3> SUFFICES ASSUME NEW i \in DOMAIN p, NEW j \in DOMAIN p, i < j PROVE Sorted(p[i], p[j], e)
        BY DEF InLine
      <3>1. i + 1 < j + 1
        BY <1>1
      <3> QED BY <1>1, <1>4, <3>1 DEF InLine
    <2>2. ASSUME NEW y \in ToSet(p) PROVE Sorted(m, y, e)
      <3>1. PICK i \in DOMAIN p : p[i] = y
        BY SaysAre
      <3>2. 1 < i + 1
        BY <1>1
      <3> QED BY <1>1, <1>4, <3>1, <3>2 DEF InLine
    <2> QED BY <2>1, <2>2
  <1>5. \A t, e : /\ Is(m, t, e) => Says(q, t, e) = Says(p, t, e) \cup {m}
                  /\ ~Is(m, t, e) => Says(q, t, e) = Says(p, t, e)
    <2> SUFFICES ASSUME NEW t, NEW e
                 PROVE  /\ Is(m, t, e) => Says(q, t, e) = Says(p, t, e) \cup {m}
                        /\ ~Is(m, t, e) => Says(q, t, e) = Says(p, t, e)
      OBVIOUS
    <2> QED BY <1>3 DEF Says
  <1> QED BY <1>3, <1>4, <1>5 DEF p, m

LEMMA SaysFollowed ==
  ASSUME NEW S, NEW q \in Seq(S), NEW r \in Seq(S)
  PROVE  /\ ToSet(q \o r) = ToSet(q) \cup ToSet(r)
         /\ \A t, e : Says(q \o r, t, e) = Says(q, t, e) \cup Says(r, t, e)
         /\ \A e : InLine(q, e) /\ InLine(r, e) /\ (\A x \in ToSet(q), y \in ToSet(r) : Sorted(x, y, e))
                     => InLine(q \o r, e)
  <1> DEFINE p == q \o r
  <1>1. /\ DOMAIN q = 1 .. Len(q) /\ Len(q) \in Nat /\ DOMAIN r = 1 .. Len(r) /\ Len(r) \in Nat
        /\ DOMAIN p = 1 .. Len(q) + Len(r)
        /\ \A i \in DOMAIN q : p[i] = q[i] /\ i \in DOMAIN p
        /\ \A i \in DOMAIN p : i > Len(q) => p[i] = r[i - Len(q)]
    OBVIOUS
  <1>2. /\ \A i \in DOMAIN p : i \in DOMAIN q \/ (i > Len(q) /\ i - Len(q) \in DOMAIN r /\ p[i] = r[i - Len(q)])
        /\ \A i \in DOMAIN r : Len(q) + i \in DOMAIN p /\ p[Len(q) + i] = r[i]
    <2>1. \A i \in DOMAIN p : i \in DOMAIN q \/ (i > Len(q) /\ i - Len(q) \in DOMAIN r)
      BY <1>1
    <2>2. \A i \in DOMAIN r : Len(q) + i \in DOMAIN p /\ Len(q) + i > Len(q) /\ (Len(q) + i) - Len(q) = i
      BY <1>1
    <2> QED BY <1>1, <2>1, <2>2
  <1> HIDE DEF p
  <1>3. ToSet(p) = ToSet(q) \cup ToSet(r)
    <2>1. \A x : x \in ToSet(p) <=> x \in ToSet(q) \/ x \in ToSet(r)
      BY <1>1, <1>2, SaysAre
    <2> QED BY <2>1
  <1>4. ASSUME NEW e, InLine(q, e), InLine(r, e), \A x \in ToSet(q), y \in ToSet(r) : Sorted(x, y, e)
        PROVE  InLine(p, e)
    <2> SUFFICES ASSUME NEW i \in DOMAIN p, NEW j \in DOMAIN p, i < j PROVE Sorted(p[i], p[j], e)
      BY DEF InLine
    <2>1. CASE j \in DOMAIN q
      <3>1. i \in DOMAIN q
        BY <1>1, <2>1
      <3> QED BY <1>1, <1>4, <2>1, <3>1 DEF InLine
    <2>2. CASE j > Len(q) /\ j - Len(q) \in DOMAIN r /\ p[j] = r[j - Len(q)]
      <3>1. CASE i \in DOMAIN q
        <4>1. p[i] \in ToSet(q) /\ p[j] \in ToSet(r)
          BY <1>1, <2>2, <3>1, SaysAre
        <4> QED BY <1>4, <4>1
      <3>2. CASE i > Len(q) /\ i - Len(q) \in DOMAIN r /\ p[i] = r[i - Len(q)]
        <4>1. i - Len(q) < j - Len(q)
          BY <1>1
        <4> QED BY <1>4, <2>2, <3>2, <4>1 DEF InLine
      <3> QED BY <1>2, <3>1, <3>2
    <2> QED BY <1>2, <2>1, <2>2
  <1>5. \A t, e : Says(p, t, e) = Says(q, t, e) \cup Says(r, t, e)
    <2> SUFFICES ASSUME NEW t, NEW e PROVE Says(p, t, e) = Says(q, t, e) \cup Says(r, t, e)
      OBVIOUS
    <2> QED BY <1>3 DEF Says
  <1> QED BY <1>3, <1>4, <1>5 DEF p

LEMMA NothingSaid ==
  /\ \A t, e : Says(<<>>, t, e) = {}
  /\ \A e : Post(<<>>, e) = {} /\ InLine(<<>>, e)
  BY DEF Says, Post, InLine, ToSet

-----------------------------------------------------------------------------
(* What is promised of an event, while its listener's feed has not lapsed. *)
Reached(e) == IF heard[e] = <<>> THEN from[e] ELSE heard[e][Len(heard[e])]
Kept(e) == Wanted(e) /\ lapse[e] = {}
Pleas(e) == Says(toServer, "subscribe", e) \cup Says(handling, "subscribe", e)
Mail(e) == Post(toClient, e) \cup Post(notificationQueue, e)

(* The listener was given what occurred after where it started, through    *)
(* where it has come to, which is where it would be resumed from.          *)
Served(e) ==
    /\ releases = 0 /\ cursor.gen = Head1.gen
    /\ from[e] <= Reached(e) /\ Reached(e) <= Head1.rev
    /\ ToSet(heard[e]) = {r \in Due(e) : r <= Reached(e)}
    /\ resolved[e] <= Head1.rev
    /\ {r \in Due(e) : r <= resolved[e]} \subseteq ToSet(heard[e])
    /\ IF eventCursors[e] = None THEN heard[e] = <<>> ELSE eventCursors[e].rev = Reached(e)

(* Where it would be resumed from is known: the replay cursor of the event,*)
(* or the request that was sent when it started.                           *)
Placed(e) == eventCursors[e] = None => connected /\ ~Reattaching

(* What it was not given yet is on its way, in order, or is asked for.     *)
Pending(e) ==
    /\ e \notin eventSubscriptions => \A m \in Pleas(e) : m.after = Cursor(Head1.gen, Reached(e))
    /\ e \in eventSubscriptions => Revs(Mail(e), e) = {r \in occurred[e] : r > Reached(e)}
    /\ InLine(toClient, e) /\ InLine(notificationQueue, e) /\ Across(notificationQueue, toClient, e)

Steady(e) ==
    /\ ~Ending(e) /\ ~Withdrawn(e)
    /\ e \notin eventSubscriptions =>
         ~Carries(toClient, "event", e) /\ ~Carries(notificationQueue, "event", e)
    /\ eventCursors[e] = None /\ connected /\ ~Reattaching => e \in reconciling \cup subscribedEvents

Promise(e) == Served(e) /\ Steady(e) /\ (Placed(e) => Pending(e))
Promises == \A e \in Promised : Kept(e) => Promise(e)

LEMMA ReachedIs ==
  ASSUME FeedTypes, NEW e \in Event
  PROVE  /\ Reached(e) \in Revision /\ Reached(e) \in Nat
         /\ heard[e] \in Seq(Revision) /\ from[e] \in Nat /\ resolved[e] \in Nat /\ from[e] \in Revision
         /\ occurred[e] \subseteq Revision /\ occurred[e] \subseteq Nat
         /\ ToSet(heard[e]) \subseteq Nat
  <1>1. heard[e] \in Seq(Revision) /\ from[e] \in Revision /\ resolved[e] \in Revision /\ occurred[e] \subseteq Revision
    BY DEF FeedTypes
  <1>2. heard[e] # <<>> => heard[e][Len(heard[e])] \in Revision
    BY <1>1
  <1>3. \A i \in DOMAIN heard[e] : heard[e][i] \in Revision
    BY <1>1
  <1>4. ToSet(heard[e]) \subseteq Revision
    BY <1>3 DEF ToSet
  <1>5. Reached(e) \in Revision
    BY <1>1, <1>2 DEF Reached
  <1> QED BY <1>1, <1>4, <1>5, RevisionsAreFinite

(* Nothing about an event changes, but perhaps the head of the journal.    *)
LEMMA PromiseKept ==
  ASSUME Types, FeedTypes, NEW e \in Event, Promise(e),
         releases' = releases, Head1'.gen = Head1.gen, Head1'.rev \in Nat, Head1.rev <= Head1'.rev, cursor'.gen = cursor.gen,
         occurred'[e] = occurred[e], from'[e] = from[e], heard'[e] = heard[e], resolved'[e] = resolved[e],
         eventCursors'[e] = eventCursors[e],
         e \in eventSubscriptions' <=> e \in eventSubscriptions,
         ~Ending(e)', ~Withdrawn(e)',
         eventCursors[e] = None /\ connected' /\ ~Reattaching' =>
           connected /\ ~Reattaching /\ e \in reconciling' \cup subscribedEvents',
         Placed(e)' => Pleas(e)' \subseteq Pleas(e),
         Post(toClient, e)' = Post(toClient, e), Post(notificationQueue, e)' = Post(notificationQueue, e),
         InLine(toClient, e) => InLine(toClient, e)',
         InLine(notificationQueue, e) => InLine(notificationQueue, e)'
  PROVE  Promise(e)'
  <1>1. Reached(e)' = Reached(e) /\ Due(e)' = Due(e)
    BY DEF Reached, Due
  <1>2. Reached(e) \in Nat /\ resolved[e] \in Nat /\ Head1.rev \in Nat
    BY ReachedIs, NumbersAre
  <1>3. Served(e)'
    <2>1. Reached(e) <= Head1'.rev /\ resolved[e] <= Head1'.rev
      BY <1>2 DEF Promise, Served
    <2> QED BY <1>1, <2>1 DEF Promise, Served
  <1>4. \A q : Carries(q, "event", e) <=> \E m \in Post(q, e) : Is(m, "event", e)
    <2> SUFFICES ASSUME NEW q
                 PROVE  Carries(q, "event", e) <=> \E m \in Post(q, e) : Is(m, "event", e)
      OBVIOUS
    <2>1. Carries(q, "event", e) <=> \E m : m \in Says(q, "event", e)
      BY SaysAre
    <2> QED BY <2>1 DEF Says, Post
  <1>5. Steady(e)'
    <2>1. /\ Carries(toClient, "event", e)' <=> Carries(toClient, "event", e)
      BY <1>4
    <2>2. Carries(notificationQueue, "event", e)' <=> Carries(notificationQueue, "event", e)
      BY <1>4
    <2>3. /\ e \notin eventSubscriptions' =>
                ~Carries(toClient, "event", e)' /\ ~Carries(notificationQueue, "event", e)'
      BY <2>1, <2>2 DEF Promise, Steady
    <2> QED BY <2>3 DEF Steady
  <1>6. Placed(e)' => Placed(e)
    BY DEF Placed
  <1>7. Mail(e)' = Mail(e)
    BY DEF Mail
  <1>8. Across(notificationQueue, toClient, e) => Across(notificationQueue, toClient, e)'
    BY DEF Across
  <1>9. ASSUME Placed(e)' PROVE Pending(e)'
    <2>1. Pending(e)
      BY <1>6, <1>9 DEF Promise
    <2>2. e \notin eventSubscriptions' => \A m \in Pleas(e)' : m.after = Cursor(Head1'.gen, Reached(e)')
      BY <1>1, <1>9, <2>1 DEF Pending
    <2>3. e \in eventSubscriptions' => Revs(Mail(e)', e) = {r \in occurred'[e] : r > Reached(e)'}
      BY <1>1, <1>7, <2>1 DEF Pending
    <2> QED BY <1>8, <2>1, <2>2, <2>3 DEF Pending
  <1> QED BY <1>3, <1>5, <1>9 DEF Promise

LEMMA OtherPosted ==
  ASSUME NEW S, NEW q \in Seq(S), NEW m \in S, NEW e, ~Is(m, "event", e), ~Is(m, "subscribed", e)
  PROVE  Post(Append(q, m), e) = Post(q, e) /\ (InLine(q, e) => InLine(Append(q, m), e))
  <1>1. \A x : Sorted(x, m, e)
    BY DEF Sorted
  <1> QED BY <1>1, SaysAppended DEF Post

LEMMA OtherTaken ==
  ASSUME NEW S, NEW q \in Seq(S), q # <<>>, NEW e, ~Is(Head(q), "event", e), ~Is(Head(q), "subscribed", e)
  PROVE  Post(Tail(q), e) = Post(q, e) /\ (InLine(q, e) => InLine(Tail(q), e))
  BY SaysRemoved DEF Post

LEMMA PromisedAre ==
  ASSUME NEW e \in Promised
  PROVE  e \in Event /\ e \in Wire /\ e \in Subscribable /\ e \in Historical /\ OnWire(e) /\ Gated(e)
  BY EventSubscriptionAssumption DEF Promised, Wire, OnWire, Gated

(* A proxy that was never released is tracked, and attached wherever the   *)
(* server has a subscription of it.                                        *)
LEMMA NeverReleased ==
  ASSUME Setting, releases = 0
  PROVE  /\ tracked /\ ~Has(toServer, "detach") /\ ~Has(handling, "detach")
         /\ eventSubscriptions # {} => connected /\ attached
  <1>1. tracked /\ ~Has(toServer, "detach") /\ ~Has(handling, "detach")
    BY DEF Setting, Link, Untracked, DetachFirst
  <1>2. ASSUME eventSubscriptions # {} PROVE connected /\ attached
    <2>1. connected /\ ~Asked
      BY <1>2 DEF Setting, Link, Silent, Reattached
    <2>2. Told => attached
      BY DEF Setting, Link, DetachFirst
    <2> QED BY <1>1, <2>1, <2>2 DEF Setting, Link, DetachFirst, Reattaching
  <1> QED BY <1>1, <1>2

LEMMA HeadMoves ==
  ASSUME Types, (\E e \in Event : EmitEvent(e)) \/ Modify
  PROVE  /\ Head1'.gen = Head1.gen /\ Head1'.rev = Head1.rev + 1 /\ Head1' = journal'.head
         /\ Head1'.rev \in Nat /\ Head1.rev \in Nat /\ Head1.rev <= Head1'.rev
         /\ journal'.head \in Position
  <1>1. \E member, retain : Advance(member, retain)
    BY DEF EmitEvent, Modify
  <1>2. PICK member, retain : Advance(member, retain)
    BY <1>1
  <1>3. Accepts(journal, Cursor(Head1.gen, Head1.rev + 1))
    BY NumbersAre DEF Accepts, Cursor
  <1>4. journal'.head = Cursor(Head1.gen, Head1.rev + 1)
    BY <1>2, <1>3 DEF Advance, AppendEntry
  <1>5. Cursor(Head1.gen, Head1.rev + 1) \in Position
    BY <1>2, NextRevision DEF Advance
  <1> QED BY <1>4, <1>5, NumbersAre DEF Head1, Cursor

(* Something else changes.                                                 *)
LEMMA OtherChangeKeepsPromise ==
  ASSUME Setting, Types', NEW e \in Promised, Promise(e),
         (\E f \in Event : f # e /\ EmitEvent(f)) \/ Modify
  PROVE  Promise(e)'
  <1>1. (\E f \in Event : EmitEvent(f)) \/ Modify
    OBVIOUS
  <1>2. e \in Event /\ Types /\ FeedTypes
    BY PromisedAre DEF Setting
  <1>3. /\ Head1'.gen = Head1.gen /\ Head1'.rev \in Nat /\ Head1.rev <= Head1'.rev /\ journal'.head \in Position
    BY <1>1, <1>2, HeadMoves
  <1>4. /\ UNCHANGED <<handling, toServer, connected, releases, cursor, eventCursors, notificationQueue,
                       eventSubscriptions, reconciling, subscribedEvents, from, heard, resolved>>
        /\ occurred'[e] = occurred[e]
    <2>1. CASE Modify
      BY <2>1 DEF Modify, session, proxy, feed
    <2>2. CASE \E f \in Event : f # e /\ EmitEvent(f)
      <3>1. PICK f \in Event : f # e /\ EmitEvent(f)
        BY <2>2
      <3> QED BY <1>2, <3>1 DEF EmitEvent, session, proxy, FeedTypes
    <2> QED BY <2>1, <2>2
  <1>5. \/ toClient' = toClient
        \/ \E m \in Answer : /\ toClient' = Append(toClient, m)
                             /\ \A t \in {"event", "subscribed", "unsubscribed"} : ~Is(m, t, e)
                             /\ m.type # "attached"
    <2>1. CASE Modify
      <3> DEFINE m == [type |-> "property", cursor |-> journal'.head]
      <3>1. m \in Answer
        BY <1>3 DEF Deferred, Answer
      <3>2. m.type = "property"
        OBVIOUS
      <3>3. toClient' = toClient \/ toClient' = Append(toClient, m)
        BY <2>1 DEF Modify
      <3> HIDE DEF m
      <3> QED BY <3>1, <3>2, <3>3 DEF Is
    <2>2. CASE \E f \in Event : f # e /\ EmitEvent(f)
      <3>1. PICK f \in Event : f # e /\ EmitEvent(f)
        BY <2>2
      <3> DEFINE m == Notice(f, journal'.head)
      <3>2. m \in Answer
        <4>1. m \in Deferred
          BY <1>3 DEF Notice, Deferred, Occurrence
        <4> QED BY <4>1, MessagesAre
      <3>3. m.type = "event" /\ m.event = f
        BY DEF Notice
      <3>4. toClient' = toClient \/ toClient' = Append(toClient, m)
        BY <3>1 DEF EmitEvent
      <3> HIDE DEF m
      <3> QED BY <3>1, <3>2, <3>3, <3>4 DEF Is
    <2> QED BY <2>1, <2>2
  <1>6. /\ Post(toClient, e)' = Post(toClient, e)
        /\ InLine(toClient, e) => InLine(toClient, e)'
        /\ Withdrawn(e)' <=> Withdrawn(e)
        /\ Told' <=> Told
    <2>1. CASE toClient' = toClient
      BY <2>1 DEF Post, Says, InLine, Withdrawn, Told
    <2>2. CASE \E m \in Answer : /\ toClient' = Append(toClient, m)
                                 /\ \A t \in {"event", "subscribed", "unsubscribed"} : ~Is(m, t, e)
                                 /\ m.type # "attached"
      <3>1. PICK m \in Answer : /\ toClient' = Append(toClient, m)
                                /\ \A t \in {"event", "subscribed", "unsubscribed"} : ~Is(m, t, e)
                                /\ m.type # "attached"
        BY <2>2
      <3>2. toClient \in Seq(Answer)
        BY <1>2, PropertiesOfTypes
      <3>3. Post(toClient', e) = Post(toClient, e) /\ (InLine(toClient, e) => InLine(toClient', e))
        BY <3>1, <3>2, OtherPosted
      <3>4. Added(toClient, m, toClient')
        BY <3>1, <3>2, AppendAdds
      <3> QED BY <3>1, <3>3, <3>4 DEF Added, Withdrawn, Told
    <2> QED BY <1>5, <2>1, <2>2
  <1>7. (Reattaching' <=> Reattaching) /\ (Ending(e)' <=> Ending(e)) /\ Pleas(e)' = Pleas(e)
    BY <1>4, <1>6 DEF Reattaching, Asked, Ending, Pleas
  <1>8. /\ Post(notificationQueue, e)' = Post(notificationQueue, e)
        /\ InLine(notificationQueue, e) => InLine(notificationQueue, e)'
    BY <1>4 DEF InLine
  <1>9. ~Ending(e)' /\ ~Withdrawn(e)'
    BY <1>6, <1>7 DEF Promise, Steady
  <1>10. eventCursors[e] = None /\ connected' /\ ~Reattaching' =>
           connected /\ ~Reattaching /\ e \in reconciling' \cup subscribedEvents'
    BY <1>4, <1>7 DEF Promise, Steady
  <1> QED BY <1>2, <1>3, <1>4, <1>6, <1>7, <1>8, <1>9, <1>10, PromiseKept

(* The event occurs: it is delivered, or will be when it is subscribed.    *)
LEMMA OccurrenceKeepsPromise ==
  ASSUME Setting, Types', NEW e \in Promised, Promise(e), EmitEvent(e)
  PROVE  Promise(e)'
  <1> DEFINE n == Head1.rev + 1
             x == Notice(e, journal'.head)
  <1>1. /\ e \in Event /\ Types /\ FeedTypes /\ Gated(e)
        /\ releases = 0 /\ Stamped /\ Chronicle
    BY PromisedAre DEF Setting, Promise, Served
  <1>2. /\ Head1'.gen = Head1.gen /\ Head1'.rev = n /\ n \in Nat /\ Head1.rev \in Nat /\ Head1.rev < n
        /\ journal'.head \in Position /\ journal'.head.rev = n /\ journal'.head.gen = Head1.gen
    BY <1>1, HeadMoves
  <1>3. /\ UNCHANGED <<handling, toServer, connected, releases, cursor, eventCursors, notificationQueue,
                       eventSubscriptions, reconciling, subscribedEvents, from, heard, resolved>>
        /\ occurred'[e] = occurred[e] \cup {n}
        /\ toClient' = IF attached /\ e \in eventSubscriptions THEN Append(toClient, x) ELSE toClient
    BY <1>1, <1>2 DEF EmitEvent, session, proxy, FeedTypes, Delivers
  <1>4. e \in eventSubscriptions => attached
    BY <1>1, NeverReleased
  <1>5. toClient \in Seq(Answer) /\ x \in Answer /\ x.type = "event" /\ x.event = e /\ x.cursor.rev = n
    <2>1. x \in Deferred
      BY <1>1, <1>2 DEF Notice, Deferred, Occurrence
    <2>2. x.type = "event" /\ x.event = e /\ x.cursor = journal'.head
      BY DEF Notice
    <2> QED BY <1>1, <1>2, <2>1, <2>2, MessagesAre, PropertiesOfTypes
  <1> HIDE DEF x
  <1>6. /\ Reached(e) \in Nat /\ from[e] \in Nat /\ resolved[e] \in Nat /\ occurred[e] \subseteq Nat
        /\ from[e] <= Reached(e) /\ Reached(e) <= Head1.rev /\ resolved[e] <= Head1.rev
    BY <1>1, ReachedIs DEF Promise, Served
  <1>7. Reached(e)' = Reached(e) /\ Due(e)' = Due(e) \cup {n}
    <2>1. n > from[e]
      BY <1>2, <1>6
    <2> HIDE DEF n
    <2> QED BY <1>3, <2>1 DEF Reached, Due
  <1> HIDE DEF n
  <1>8. Served(e)'
    <2>1. {r \in Due(e)' : r <= Reached(e)} = {r \in Due(e) : r <= Reached(e)}
      BY <1>2, <1>6, <1>7
    <2>2. {r \in Due(e)' : r <= resolved[e]} = {r \in Due(e) : r <= resolved[e]}
      BY <1>2, <1>6, <1>7
    <2>3. Reached(e) <= Head1'.rev /\ resolved[e] <= Head1'.rev
      BY <1>2, <1>6
    <2> QED BY <1>2, <1>3, <1>7, <2>1, <2>2, <2>3 DEF Promise, Served
  <1>9. /\ Withdrawn(e)' <=> Withdrawn(e)
        /\ Told' <=> Told
        /\ e \notin eventSubscriptions => toClient' = toClient
        /\ e \in eventSubscriptions => toClient' = Append(toClient, x)
    <2>1. CASE toClient' = toClient
      BY <1>3, <1>4, <2>1 DEF Withdrawn, Told
    <2>2. CASE e \in eventSubscriptions
      <3>1. Added(toClient, x, toClient')
        BY <1>3, <1>4, <1>5, <2>2, AppendAdds
      <3> QED BY <1>3, <1>4, <1>5, <2>2, <3>1 DEF Added, Withdrawn, Told, Is
    <2> QED BY <1>3, <2>1, <2>2
  <1>10. (Reattaching' <=> Reattaching) /\ (Ending(e)' <=> Ending(e)) /\ Pleas(e)' = Pleas(e)
    BY <1>3, <1>9 DEF Reattaching, Asked, Ending, Pleas
  <1>11. Steady(e)'
    BY <1>3, <1>9, <1>10 DEF Promise, Steady
  <1>12. ASSUME Placed(e)' PROVE Pending(e)'
    <2>1. Pending(e)
      BY <1>3, <1>10, <1>12 DEF Promise, Placed
    <2>2. e \notin eventSubscriptions' => \A m \in Pleas(e)' : m.after = Cursor(Head1'.gen, Reached(e)')
      BY <1>2, <1>3, <1>7, <1>10, <2>1 DEF Pending
    <2>3. CASE e \notin eventSubscriptions
      BY <1>3, <1>9, <2>1, <2>2, <2>3 DEF Pending, InLine, Across
    <2>4. CASE e \in eventSubscriptions
      <3>1. /\ Says(toClient', "event", e) = Says(toClient, "event", e) \cup {x}
            /\ Says(toClient', "subscribed", e) = Says(toClient, "subscribed", e)
            /\ Post(toClient', e) = Post(toClient, e) \cup {x}
            /\ InLine(toClient, e) /\ (\A y \in ToSet(toClient) : Sorted(y, x, e)) => InLine(toClient', e)
        <4>1. Is(x, "event", e) /\ ~Is(x, "subscribed", e) /\ toClient' = Append(toClient, x)
          BY <1>5, <1>9, <2>4 DEF Is
        <4>2. /\ Says(toClient', "event", e) = Says(toClient, "event", e) \cup {x}
              /\ Says(toClient', "subscribed", e) = Says(toClient, "subscribed", e)
              /\ InLine(toClient, e) /\ (\A y \in ToSet(toClient) : Sorted(y, x, e)) => InLine(toClient', e)
          BY <1>5, <4>1, SaysAppended
        <4> QED BY <4>2 DEF Post
      <3>2. \A y \in ToSet(toClient) \cup ToSet(notificationQueue) : Sorted(y, x, e)
        <4> SUFFICES ASSUME NEW y \in ToSet(toClient) \cup ToSet(notificationQueue) PROVE Sorted(y, x, e)
          OBVIOUS
        <4>1. y \in Current
          BY <1>1, StampsAre, SaysAre
        <4>2. /\ Is(y, "event", e) => y.cursor.rev <= Head1.rev /\ y.cursor.rev \in Nat
              /\ Is(y, "subscribed", e) => y.head <= Head1.rev /\ y.head \in Nat
          <5>1. Is(y, "event", e) => y.cursor \in Position /\ y.cursor.rev <= Head1.rev
            BY <1>1, <4>1, StampsAre DEF Is
          <5>2. Is(y, "subscribed", e) => y.head \in Revision /\ y.head <= Head1.rev
            BY <1>1, <4>1, StampsAre DEF Is
          <5> QED BY <1>1, <5>1, <5>2, NumbersAre, RevisionsAreFinite
        <4> QED BY <1>2, <1>5, <4>2 DEF Sorted
      <3>3. InLine(toClient', e)
        BY <2>1, <3>1, <3>2 DEF Pending
      <3>4. Across(notificationQueue, toClient', e)
        <4> SUFFICES ASSUME NEW y \in Post(notificationQueue, e), NEW z \in Post(toClient', e)
                     PROVE  Sorted(y, z, e)
          BY DEF Across
        <4>1. CASE z = x
          BY <3>2, <4>1, SaysAre
        <4>2. CASE z \in Post(toClient, e)
          BY <2>1, <4>2 DEF Pending, Across
        <4> QED BY <3>1, <4>1, <4>2
      <3>5. Revs(Mail(e)', e) = {r \in occurred'[e] : r > Reached(e)'}
        <4>1. Mail(e)' = Mail(e) \cup {x}
          BY <1>3, <3>1 DEF Mail
        <4>2. Revs(Mail(e) \cup {x}, e) = Revs(Mail(e), e) \cup {n}
          BY <1>5 DEF Revs, Is
        <4>3. Revs(Mail(e), e) = {r \in occurred[e] : r > Reached(e)} /\ n > Reached(e)
          BY <1>2, <1>6, <2>1, <2>4 DEF Pending
        <4> QED BY <1>3, <1>7, <4>1, <4>2, <4>3
      <3>6. InLine(notificationQueue, e)'
        BY <1>3, <2>1 DEF Pending, InLine
      <3> QED BY <1>3, <2>2, <2>4, <3>3, <3>4, <3>5, <3>6 DEF Pending
    <2> QED BY <2>3, <2>4
  <1> QED BY <1>8, <1>11, <1>12 DEF Promise

LEMMA SettingIs ==
  ASSUME Setting
  PROVE  /\ Types /\ FeedTypes /\ OrderedJournal /\ Chronicle /\ Link /\ Beliefs
         /\ Stamped /\ Reattached /\ Placing
         /\ toServer \in Seq(Request) /\ handling \in Seq(Request)
         /\ toClient \in Seq(Answer) /\ notificationQueue \in Seq(Deferred)
         /\ Head1.rev \in Nat /\ Head1.rev <= Head1.rev
  <1>1. Types
    BY DEF Setting
  <1> QED BY <1>1, PropertiesOfTypes, NumbersAre DEF Setting

(* A subscription is acknowledged while it lasts, and before it is         *)
(* believed.                                                               *)
LEMMA AcknowledgedIs ==
  ASSUME Setting, NEW e \in Event, Acknowledged(e)
  PROVE  connected /\ e \notin subscribedEvents /\ e \in eventSubscriptions
  <1>1. connected
    BY NothingHeld DEF Setting, Link, Silent, Acknowledged
  <1>2. Belief(e)
    BY DEF Setting, Beliefs
  <1>3. e \notin subscribedEvents
    BY <1>1, <1>2 DEF Belief, Stale, Believed
  <1> QED BY <1>1, <1>2, <1>3 DEF Belief, Unbelieved

(* A reply that is no acknowledgement.                                     *)
LEMMA OtherReply ==
  ASSUME Setting, NEW m \in Answer, m.type \in {"failed", "unsubscribed", "attached"},
         toClient' = Append(toClient, m), NEW e
  PROVE  /\ Post(toClient, e)' = Post(toClient, e)
         /\ InLine(toClient, e) => InLine(toClient, e)'
         /\ Withdrawn(e)' <=> Withdrawn(e) \/ Is(m, "unsubscribed", e)
         /\ Told' <=> Told \/ m.type = "attached"
  <1>1. toClient \in Seq(Answer) /\ ~Is(m, "event", e) /\ ~Is(m, "subscribed", e)
    BY SettingIs DEF Is
  <1>2. Post(toClient', e) = Post(toClient, e) /\ (InLine(toClient, e) => InLine(toClient', e))
    BY <1>1, OtherPosted
  <1>3. Added(toClient, m, toClient')
    BY <1>1, AppendAdds
  <1> QED BY <1>2, <1>3 DEF Added, Withdrawn, Told

LEMMA RequestKeepsPromise ==
  ASSUME Setting, NEW e \in Promised, Promise(e), ReceiveRequest
  PROVE  Promise(e)'
  <1> DEFINE m == Head(toServer)
             a == [type |-> "failed", event |-> m.event]
  <1>1. /\ m \in Request /\ Taken(toServer, m, toServer') /\ toServer # <<>> /\ toServer' = Tail(toServer)
        /\ UNCHANGED <<journal, eventSubscriptions, connected, releases, cursor, eventCursors,
                       reconciling, subscribedEvents, notificationQueue, occurred, from, heard, resolved>>
        /\ \/ toClient' = toClient /\ handling' = Append(handling, m)
           \/ handling' = handling /\ m.type \in Wishes /\ toClient' = Append(toClient, a)
    <2>1. /\ m \in Request /\ Taken(toServer, m, toServer')
          /\ UNCHANGED <<session, proxy, notificationQueue>>
          /\ ~Admitted(m) => m.type \in Wishes
      <3>1. m \in Request /\ Taken(toServer, m, toServer') /\ UNCHANGED <<session, proxy, notificationQueue>>
        BY SettingIs, RequestMoves
      <3>2. m.type \in {"attach", "detach", "subscribe", "unsubscribe"}
        BY <3>1, RequestsHave
      <3>3. ~Admitted(m) => m.type \in Wishes
        BY <3>2 DEF Admitted, Wishes
      <3> QED BY <3>1, <3>3
    <2>2. /\ toServer # <<>> /\ toServer' = Tail(toServer)
          /\ UNCHANGED <<journal, eventSubscriptions, occurred, from, heard, resolved>>
      BY DEF ReceiveRequest, feed
    <2>3. \/ Admitted(m) /\ toClient' = toClient /\ handling' = Append(handling, m)
          \/ ~Admitted(m) /\ handling' = handling /\ toClient' = Append(toClient, a)
      BY DEF ReceiveRequest, Failed, Reply
    <2> QED BY <2>1, <2>2, <2>3 DEF session, proxy
  <1>2. /\ Types /\ FeedTypes /\ e \in Event /\ Head1' = Head1
    BY <1>1, SettingIs, PromisedAre DEF Head1
  <1>3. /\ Post(toClient, e)' = Post(toClient, e)
        /\ InLine(toClient, e) => InLine(toClient, e)'
        /\ Withdrawn(e)' <=> Withdrawn(e)
        /\ Told' <=> Told
    <2>1. CASE toClient' = toClient
      BY <2>1 DEF Post, Says, InLine, Withdrawn, Told
    <2>2. CASE m.type \in Wishes /\ toClient' = Append(toClient, a)
      <3>1. m.event \in Wire
        BY <1>1, <2>2, RequestsHave DEF Wishes
      <3>2. a \in Answer /\ a.type = "failed"
        BY <3>1, MessagesAre
      <3> HIDE DEF a
      <3> QED BY <2>2, <3>2, OtherReply DEF Is
    <2> QED BY <1>1, <2>1, <2>2
  <1> HIDE DEF m, a
  <1>4. /\ Asked' <=> Asked
        /\ ~Ending(e) => ~Ending(e)'
        /\ Pleas(e)' \subseteq Pleas(e)
    <2>0. toServer \in Seq(Request) /\ handling \in Seq(Request) /\ m = Head(toServer)
      BY SettingIs DEF m
    <2>1. CASE handling' = Append(handling, m)
      <3>1. Added(handling, m, handling')
        BY <1>1, <2>0, <2>1, AppendAdds
      <3>2. Pleas(e)' \subseteq Pleas(e)
        <4>1. CASE Is(m, "subscribe", e)
          BY <1>1, <2>0, <2>1, <4>1, SaysRemoved, SaysAppended DEF Pleas
        <4>2. CASE ~Is(m, "subscribe", e)
          BY <1>1, <2>0, <2>1, <4>2, SaysRemoved, SaysAppended DEF Pleas
        <4> QED BY <4>1, <4>2
      <3> QED BY <1>1, <3>1, <3>2 DEF Added, Taken, Asked, Ending
    <2>2. CASE handling' = handling /\ m.type \in Wishes
      <3>1. Says(toServer', "subscribe", e) \subseteq Says(toServer, "subscribe", e)
        <4>1. CASE Is(m, "subscribe", e)
          BY <1>1, <2>0, <4>1, SaysRemoved
        <4>2. CASE ~Is(m, "subscribe", e)
          BY <1>1, <2>0, <4>2, SaysRemoved
        <4> QED BY <4>1, <4>2
      <3> QED BY <1>1, <2>2, <3>1 DEF Taken, Asked, Ending, Pleas, Wishes
    <2> QED BY <1>1, <2>1, <2>2
  <1>5. (Reattaching' <=> Reattaching) /\ ~Ending(e)' /\ ~Withdrawn(e)'
    BY <1>3, <1>4 DEF Reattaching, Promise, Steady
  <1>6. /\ Post(notificationQueue, e)' = Post(notificationQueue, e)
        /\ InLine(notificationQueue, e) => InLine(notificationQueue, e)'
    BY <1>1 DEF InLine
  <1>7. eventCursors[e] = None /\ connected' /\ ~Reattaching' =>
           connected /\ ~Reattaching /\ e \in reconciling' \cup subscribedEvents'
    BY <1>1, <1>5 DEF Promise, Steady
  <1>8. Head1'.rev \in Nat /\ Head1.rev <= Head1'.rev
    BY <1>2, SettingIs
  <1> QED BY <1>1, <1>2, <1>3, <1>4, <1>5, <1>6, <1>7, <1>8, PromiseKept

(* A handler finishes that changes nothing of the event.                   *)
LEMMA OtherFinishKeepsPromise ==
  ASSUME Setting, NEW e \in Promised, Promise(e), NEW type, Finishing(type),
         e \in eventSubscriptions' <=> e \in eventSubscriptions,
         Reattaching' <=> Reattaching,
         Post(toClient, e)' = Post(toClient, e), InLine(toClient, e) => InLine(toClient, e)',
         ~Withdrawn(e)'
  PROVE  Promise(e)'
  <1>1. /\ Types /\ FeedTypes /\ e \in Event
    BY SettingIs, PromisedAre
  <1>2. /\ Taken(handling, Head(handling), handling') /\ handling # <<>> /\ handling' = Tail(handling)
        /\ UNCHANGED <<journal, toServer, connected, releases, cursor, eventCursors,
                       reconciling, subscribedEvents, notificationQueue, occurred, from, heard, resolved>>
    BY <1>1, HandlerResumes DEF Finishing, session, proxy, feed
  <1>3. Pleas(e)' \subseteq Pleas(e)
    <2>1. handling \in Seq(Request)
      BY SettingIs
    <2>2. CASE Is(Head(handling), "subscribe", e)
      BY <1>2, <2>1, <2>2, SaysRemoved DEF Pleas
    <2>3. CASE ~Is(Head(handling), "subscribe", e)
      BY <1>2, <2>1, <2>3, SaysRemoved DEF Pleas
    <2> QED BY <2>2, <2>3
  <1>4. ~Ending(e)'
    BY <1>2 DEF Taken, Ending, Promise, Steady
  <1>5. /\ Post(notificationQueue, e)' = Post(notificationQueue, e)
        /\ InLine(notificationQueue, e) => InLine(notificationQueue, e)'
    BY <1>2 DEF InLine
  <1>6. eventCursors[e] = None /\ connected' /\ ~Reattaching' =>
           connected /\ ~Reattaching /\ e \in reconciling' \cup subscribedEvents'
    BY <1>2 DEF Promise, Steady
  <1>7. Head1' = Head1 /\ Head1'.rev \in Nat /\ Head1.rev <= Head1'.rev
    BY <1>2, SettingIs DEF Head1
  <1> QED BY <1>1, <1>2, <1>3, <1>4, <1>5, <1>6, <1>7, PromiseKept

LEMMA FinishKeepsPromise ==
  ASSUME Setting, NEW e \in Promised, Promise(e), FinishUnsubscribe \/ FinishAttach \/ FinishDetach
  PROVE  Promise(e)'
  <1>0. Types /\ Link /\ e \in Event
    BY SettingIs, PromisedAre
  <1>1. CASE FinishUnsubscribe
    <2> DEFINE f == Head(handling).event
               a == [type |-> "unsubscribed", event |-> f]
    <2>1. /\ f \in Wire /\ eventSubscriptions' = eventSubscriptions \ {f} /\ Finishing("unsubscribe")
          /\ toClient' = Append(toClient, a)
      BY <1>0, <1>1, UnsubscribeReplies DEF FinishUnsubscribe, Reply
    <2>2. f # e
      <3>1. Carries(handling, "unsubscribe", f)
        BY <1>0, <2>1, HandlerResumes DEF Taken, Is
      <3> QED BY <3>1 DEF Promise, Steady, Ending
    <2>3. a \in Answer /\ a.type = "unsubscribed" /\ a.event = f
      BY <2>1, MessagesAre
    <2> HIDE DEF a, f
    <2>4. /\ Post(toClient, e)' = Post(toClient, e)
          /\ InLine(toClient, e) => InLine(toClient, e)'
          /\ Withdrawn(e)' <=> Withdrawn(e)
          /\ Told' <=> Told
      BY <2>1, <2>2, <2>3, OtherReply DEF Is
    <2>5. (Asked' <=> Asked) /\ Finishing("unsubscribe")
      BY <1>0, <2>1, NotAskedWhileWishing DEF Wishes
    <2> QED BY <2>1, <2>2, <2>4, <2>5, OtherFinishKeepsPromise DEF Reattaching, Promise, Steady
  <1>2. CASE FinishAttach
    <2> DEFINE a == [type |-> "attached", cursor |-> Head1]
    <2>1. /\ eventSubscriptions' = eventSubscriptions /\ Finishing("attach")
          /\ toClient' = Append(toClient, a)
      BY <1>2 DEF FinishAttach, Reply
    <2>2. a \in Answer /\ a.type = "attached"
      <3>1. Head1 \in Position
        BY <1>0, NumbersAre
      <3> QED BY <3>1 DEF Answer
    <2> HIDE DEF a
    <2>3. /\ Post(toClient, e)' = Post(toClient, e)
          /\ InLine(toClient, e) => InLine(toClient, e)'
          /\ Withdrawn(e)' <=> Withdrawn(e)
          /\ Told'
      BY <2>1, <2>2, OtherReply DEF Is
    <2>4. Asked
      <3>1. Has(handling, "attach")
        BY <1>0, <2>1, HandlerResumes DEF Taken
      <3> QED BY <3>1 DEF Asked
    <2> QED BY <2>1, <2>3, <2>4, OtherFinishKeepsPromise DEF Reattaching, Promise, Steady
  <1>3. CASE FinishDetach
    <2>1. Has(handling, "detach")
      BY <1>0, <1>3, HandlerResumes DEF FinishDetach, Taken
    <2> QED BY <2>1, NeverReleased DEF Promise, Served
  <1> QED BY <1>1, <1>2, <1>3

LEMMA SubscribeKeepsPromise ==
  ASSUME Setting, NEW e \in Promised, Promise(e), FinishSubscribe
  PROVE  Promise(e)'
  <1> DEFINE m == Head(handling)
             ack == [type |-> "subscribed", event |-> m.event, head |-> Head1.rev]
  <1>0. Types /\ FeedTypes /\ Chronicle /\ Link /\ e \in Event /\ e \in Historical /\ Finishing("subscribe")
    BY SettingIs, PromisedAre DEF FinishSubscribe
  <1>1. /\ m \in Request /\ m.type = "subscribe" /\ m.event \in Wire /\ m.after \in Position
        /\ Refused(m) \/ \E q : Granted(m, q)
    BY <1>0, SubscribeOutcome
  <1>2. (Asked' <=> Asked) /\ ~Asked
    BY <1>0, NotAskedWhileWishing DEF Wishes
  <1>3. /\ m = Head(handling)
        /\ Taken(handling, m, handling') /\ handling # <<>> /\ handling' = Tail(handling)
        /\ UNCHANGED <<journal, toServer, connected, releases, cursor, eventCursors,
                       reconciling, subscribedEvents, notificationQueue, occurred, from, heard, resolved>>
    BY <1>0, HandlerResumes DEF Finishing, session, proxy, feed
  <1> HIDE DEF m
  <1>4. CASE Refused(m)
    <2> DEFINE a == [type |-> "failed", event |-> m.event]
    <2>1. a \in Answer /\ a.type = "failed" /\ toClient' = Append(toClient, a)
      BY <1>1, <1>4, MessagesAre DEF Refused
    <2> HIDE DEF a
    <2>2. /\ Post(toClient, e)' = Post(toClient, e)
          /\ InLine(toClient, e) => InLine(toClient, e)'
          /\ Withdrawn(e)' <=> Withdrawn(e)
          /\ Told' <=> Told
      BY <2>1, OtherReply DEF Is
    <2> QED BY <1>0, <1>2, <1>4, <2>2, OtherFinishKeepsPromise DEF Reattaching, Refused, Promise, Steady
  <1>5. ASSUME NEW q, Granted(m, q)
        PROVE  Promise(e)'
    <2>1. ack \in Answer /\ ack.type = "subscribed" /\ ack.event = m.event
      <3>1. ack \in Acknowledgement
        BY <1>0, <1>1, MessagesAre, NumbersAre
      <3> QED BY <3>1, MessagesAre
    <2>2. toClient \in Seq(Answer) /\ q \in Seq(Answer) /\ toClient \o q \in Seq(Answer)
      <3>1. q \in Seq(Occurrence) /\ Occurrence \subseteq Answer
        BY <1>5, MessagesAre DEF Granted, Deferred
      <3>2. q \in Seq(Answer) /\ toClient \in Seq(Answer)
        BY <3>1, SubsetSequence, SettingIs
      <3> QED BY <3>2
    <2>3. toClient' = Append(toClient \o q, ack)
      BY <1>5 DEF Granted
    <2> HIDE DEF ack
    <2>4. \A y \in ToSet(q) : y.type = "event" /\ y.event = m.event
      <3>1. CASE m.event \in Historical
        BY <1>5, <3>1, SaysAre DEF Granted, Lists, Is
      <3>2. CASE m.event \notin Historical
        <4>1. q = <<>>
          BY <1>5, <3>2 DEF Granted
        <4> QED BY <4>1 DEF ToSet
      <3> QED BY <3>1, <3>2
    <2>5. (Told' <=> Told) /\ (Withdrawn(e)' <=> Withdrawn(e))
      <3>1. \A i \in DOMAIN q : q[i].type = "event"
        BY <2>4, SaysAre
      <3>2. Followed(toClient, "event", toClient \o q)
        BY <2>2, <3>1, ConcatFollows
      <3>3. Added(toClient \o q, ack, toClient')
        BY <2>1, <2>2, <2>3, AppendAdds
      <3> QED BY <2>1, <3>2, <3>3 DEF Followed, Added, Told, Withdrawn, Is
    <2>6. Reattaching' <=> Reattaching
      BY <1>2, <2>5 DEF Reattaching
    <2>7. CASE m.event # e
      <3>1. Says(q, "event", e) = {} /\ Says(q, "subscribed", e) = {}
        BY <2>4, <2>7 DEF Says, Is
      <3>2. \A x, y : y \in ToSet(q) => Sorted(x, y, e)
        BY <2>4, <2>7 DEF Sorted, Is
      <3>3. InLine(q, e)
        BY <3>2, SaysAre DEF InLine
      <3>4. /\ Post(toClient \o q, e) = Post(toClient, e)
            /\ InLine(toClient, e) => InLine(toClient \o q, e)
        BY <2>2, <3>1, <3>2, <3>3, SaysFollowed DEF Post
      <3>5. ~Is(ack, "event", e) /\ ~Is(ack, "subscribed", e)
        BY <2>1, <2>7 DEF Is
      <3>6. /\ Post(toClient', e) = Post(toClient, e)
            /\ InLine(toClient, e) => InLine(toClient', e)
        BY <2>1, <2>2, <2>3, <3>4, <3>5, OtherPosted
      <3>7. e \in eventSubscriptions' <=> e \in eventSubscriptions
        BY <1>5, <2>7 DEF Granted
      <3> QED BY <1>0, <2>5, <2>6, <3>6, <3>7, OtherFinishKeepsPromise DEF Promise, Steady
    <2>8. CASE m.event = e
      <3>1. /\ e \notin eventSubscriptions /\ e \in eventSubscriptions'
            /\ m.after.gen = Head1.gen /\ Lists(q, e, {r \in occurred[e] : r > m.after.rev})
        BY <1>0, <1>5, <2>8 DEF Granted
      <3>2. ~Acknowledged(e) /\ ~Carries(toClient, "event", e) /\ ~Carries(notificationQueue, "event", e)
        BY <1>0, <3>1, AcknowledgedIs DEF Promise, Steady
      <3>3. Post(toClient, e) = {} /\ Post(notificationQueue, e) = {}
        BY <3>2, SaysAre DEF Post, Acknowledged
      <3>4. Reached(e)' = Reached(e) /\ Due(e)' = Due(e) /\ Head1' = Head1
        BY <1>3 DEF Reached, Due, Head1
      <3>5. Served(e)'
        BY <1>3, <3>4 DEF Promise, Served
      <3>6. ~Ending(e)'
        BY <1>3 DEF Taken, Ending, Promise, Steady
      <3>7. Steady(e)'
        BY <1>3, <2>5, <2>6, <3>1, <3>6 DEF Promise, Steady
      <3>8. ASSUME Placed(e)' PROVE Pending(e)'
        <4>1. Pending(e)
          BY <1>3, <2>6, <3>8 DEF Promise, Placed
        <4>2. m.after.rev = Reached(e)
          <5>1. m \in Pleas(e)
            <6>1. handling \in Seq(Request) /\ Is(m, "subscribe", e)
              BY <1>1, <2>8, SettingIs DEF Is
            <6>2. m \in ToSet(handling)
              BY <1>3, <6>1, SaysRemoved
            <6> QED BY <6>1, <6>2, SaysAre DEF Pleas
          <5>2. m.after = Cursor(Head1.gen, Reached(e))
            BY <3>1, <4>1, <5>1 DEF Pending
          <5> QED BY <5>2 DEF Cursor
        <4>3. InLine(q, e)
          BY <3>1 DEF Lists, InLine, Sorted, Is
        <4>4. \A x \in ToSet(toClient), y \in ToSet(q) : Sorted(x, y, e)
          BY <3>3, SaysAre DEF Sorted
        <4>5. InLine(toClient \o q, e)
          BY <2>2, <4>1, <4>3, <4>4, SaysFollowed DEF Pending
        <4>6. \A x : Sorted(x, ack, e)
          BY <2>1 DEF Sorted, Is
        <4>7. InLine(toClient', e)
          BY <2>1, <2>2, <2>3, <4>5, <4>6, SaysAppended
        <4>8. Across(notificationQueue, toClient', e)
          BY <3>3 DEF Across
        <4>9. Revs(Mail(e)', e) = {r \in occurred[e] : r > Reached(e)}
          <5>1. \A y : (y \in Mail(e)' /\ Is(y, "event", e)) <=> y \in ToSet(q)
            <6>1. ToSet(toClient') = (ToSet(toClient) \cup ToSet(q)) \cup {ack}
              <7>1. ToSet(toClient \o q) = ToSet(toClient) \cup ToSet(q)
                BY <2>2, SaysFollowed
              <7>2. ToSet(toClient') = ToSet(toClient \o q) \cup {ack}
                <8>1. \A p \in Seq(Answer), x \in Answer : ToSet(Append(p, x)) = ToSet(p) \cup {x}
                  BY SaysAppended
                <8> QED BY <2>1, <2>2, <2>3, <8>1
              <7> QED BY <7>1, <7>2
            <6>2. Mail(e)' = Post(toClient', e)
              BY <1>3, <3>3 DEF Mail
            <6>3. \A y \in ToSet(toClient) : ~Is(y, "event", e)
              BY <3>3, SaysAre
            <6>4. \A y \in ToSet(q) : Is(y, "event", e)
              BY <2>4, <2>8 DEF Is
            <6>5. ~Is(ack, "event", e)
              BY <2>1 DEF Is
            <6>6. \A y : y \in Post(toClient', e) /\ Is(y, "event", e) <=> y \in ToSet(toClient') /\ Is(y, "event", e)
              BY SaysAre
            <6> QED BY <6>1, <6>2, <6>3, <6>4, <6>5, <6>6
          <5>2. Revs(Mail(e)', e) = {y.cursor.rev : y \in ToSet(q)}
            BY <5>1 DEF Revs
          <5>3. \A r : r \in {r0 \in occurred[e] : r0 > Reached(e)} <=> \E i \in DOMAIN q : q[i].cursor.rev = r
            BY <3>1, <4>2 DEF Lists
          <5>4. \A r : (\E i \in DOMAIN q : q[i].cursor.rev = r) <=> \E y \in ToSet(q) : y.cursor.rev = r
            BY SaysAre
          <5> QED BY <5>2, <5>3, <5>4
        <4>10. InLine(notificationQueue, e)'
          BY <1>3, <4>1 DEF Pending, InLine
        <4> QED BY <1>3, <3>1, <3>4, <4>7, <4>8, <4>9, <4>10 DEF Pending
      <3> QED BY <3>5, <3>7, <3>8 DEF Promise
    <2> QED BY <2>7, <2>8
  <1> QED BY <1>1, <1>4, <1>5

(* A turn of the reconciliation is over, or makes a request.               *)
Rested(e) ==
    /\ toServer' = toServer /\ reconciling' = reconciling \ {e}
    /\ ~connected \/ (listeners'[e] > 0 <=> e \in subscribedEvents')
Requested(e, m) ==
    /\ m \in Request /\ m.event = e /\ m.type \in Wishes /\ connected
    /\ toServer' = Append(toServer, m) /\ reconciling' = reconciling \cup {e}
    /\ IF listeners'[e] > 0 THEN /\ m.type = "subscribe" /\ m.after = ResumedFrom(e)
                                 /\ e \notin subscribedEvents'
                            ELSE m.type = "unsubscribe"

LEMMA TurnAsks ==
  ASSUME Types, NEW e \in Wire, Turn(e), cursor' \in Position, eventCursors' \in [Event -> Stamps]
  PROVE  Rested(e) \/ \E m : Requested(e, m)
  <1>1. CASE (listeners'[e] > 0 <=> e \in subscribedEvents') \/ ~connected
    BY <1>1 DEF Turn, Rested
  <1>2. CASE ~((listeners'[e] > 0 <=> e \in subscribedEvents') \/ ~connected)
    <2> DEFINE m == IF listeners'[e] > 0 THEN Subscription(e) ELSE [type |-> "unsubscribe", event |-> e]
    <2>1. /\ connected /\ reconciling' = reconciling \cup {e} /\ toServer' = Append(toServer, m)
          /\ (listeners'[e] > 0) => e \notin subscribedEvents'
      BY <1>2 DEF Turn
    <2>2. m \in Request
      <3>1. ResumedFrom(e) \in Position
        BY WireIsEvents DEF Stamps, ResumedFrom
      <3>2. Subscription(e) = [type |-> "subscribe", event |-> e, after |-> ResumedFrom(e)]
        BY DEF Subscription, ResumedFrom
      <3> QED BY <3>1, <3>2, MessagesAre
    <2>3. m.event = e
      BY DEF Subscription
    <2>4. CASE listeners'[e] > 0
      <3>1. m.type = "subscribe" /\ m.after = ResumedFrom(e)
        BY <2>4 DEF Subscription, ResumedFrom
      <3> HIDE DEF m
      <3>2. Requested(e, m)
        BY <2>1, <2>2, <2>3, <2>4, <3>1 DEF Requested, Wishes
      <3> QED BY <3>2
    <2>5. CASE ~(listeners'[e] > 0)
      <3>1. m.type = "unsubscribe"
        BY <2>5
      <3> HIDE DEF m
      <3>2. Requested(e, m)
        BY <2>1, <2>2, <2>3, <2>5, <3>1 DEF Requested, Wishes
      <3> QED BY <3>2
    <2> QED BY <2>4, <2>5
  <1> QED BY <1>1, <1>2

(* A turn for one event is nothing to another.                             *)
LEMMA OtherTurn ==
  ASSUME Setting, NEW f \in Wire, Turn(f), cursor' \in Position, eventCursors' \in [Event -> Stamps],
         handling' = handling, NEW e, e # f
  PROVE  /\ Pleas(e)' = Pleas(e)
         /\ Ending(e)' <=> Ending(e)
         /\ Asked' <=> Asked
         /\ e \in reconciling' <=> e \in reconciling
  <1>1. Rested(f) \/ \E m : Requested(f, m)
    BY SettingIs, TurnAsks
  <1>2. CASE Rested(f)
    BY <1>2 DEF Rested, Pleas, Ending, Asked
  <1>3. CASE \E m : Requested(f, m)
    <2>1. PICK m : Requested(f, m)
      BY <1>3
    <2>2. /\ m \in Request /\ m.event # e /\ m.type \in Wishes /\ toServer' = Append(toServer, m)
          /\ toServer \in Seq(Request) /\ reconciling' = reconciling \cup {f}
      BY <2>1, SettingIs DEF Requested
    <2>3. Says(toServer', "subscribe", e) = Says(toServer, "subscribe", e)
      BY <2>2, SaysAppended DEF Is
    <2>4. Added(toServer, m, toServer')
      BY <2>2, AppendAdds
    <2> QED BY <2>2, <2>3, <2>4 DEF Added, Pleas, Ending, Asked, Is, Wishes
  <1> QED BY <1>1, <1>2, <1>3

(* The client takes a notification, or an acknowledgement, from the        *)
(* connection to its queue.                                                *)
LEMMA QueueingKeepsPromise ==
  ASSUME Setting, NEW e \in Promised, Promise(e), ReceiveNotification \/ ReceiveSubscribed
  PROVE  Promise(e)'
  <1> DEFINE m == Head(toClient)
  <1>1. /\ toClient # <<>> /\ toClient' = Tail(toClient) /\ notificationQueue' = Append(notificationQueue, m)
        /\ UNCHANGED <<journal, toServer, handling, connected, releases, cursor, eventCursors, eventSubscriptions,
                       reconciling, subscribedEvents, occurred, from, heard, resolved>>
        /\ m.type \in {"event", "property", "subscribed"}
    BY DEF ReceiveNotification, ReceiveSubscribed, Frame, Queued, Barrier, server, session, proxy, feed
  <1>2. /\ Types /\ FeedTypes /\ e \in Event /\ toClient \in Seq(Answer) /\ notificationQueue \in Seq(Deferred)
    BY SettingIs, PromisedAre
  <1>3. m \in Answer /\ m \in Deferred /\ Taken(toClient, m, toClient')
    <2>1. m \in Answer /\ Taken(toClient, m, toClient')
      BY <1>1, <1>2, Received, TailTakes
    <2> QED BY <1>1, <2>1, AnswersHave
  <1>4. m = Head(toClient)
    OBVIOUS
  <1> HIDE DEF m
  <1>5. /\ ToSet(toClient) = ToSet(toClient') \cup {m}
        /\ ToSet(notificationQueue') = ToSet(notificationQueue) \cup {m}
        /\ InLine(toClient, e) => InLine(toClient', e) /\ \A y \in ToSet(toClient') : Sorted(m, y, e)
        /\ InLine(notificationQueue, e) /\ (\A x \in ToSet(notificationQueue) : Sorted(x, m, e))
             => InLine(notificationQueue', e)
    BY <1>1, <1>2, <1>3, <1>4, SaysRemoved, SaysAppended
  <1>6. Mail(e)' = Mail(e)
    BY <1>5 DEF Mail, Post, Says
  <1>7. (Told' <=> Told) /\ (Reattaching' <=> Reattaching) /\ (Withdrawn(e)' => Withdrawn(e))
        /\ (Ending(e)' <=> Ending(e)) /\ Pleas(e)' = Pleas(e)
    <2>1. (Told' <=> Told) /\ (Withdrawn(e)' => Withdrawn(e))
      BY <1>1, <1>3 DEF Taken, Told, Withdrawn
    <2> QED BY <1>1, <2>1 DEF Reattaching, Asked, Ending, Pleas
  <1>8. Reached(e)' = Reached(e) /\ Due(e)' = Due(e) /\ Head1' = Head1
    BY <1>1 DEF Reached, Due, Head1
  <1>9. Served(e)'
    BY <1>1, <1>8 DEF Promise, Served
  <1>10. Steady(e)'
    <2>1. e \notin eventSubscriptions => ~Carries(toClient', "event", e) /\ ~Carries(notificationQueue', "event", e)
      <3> SUFFICES ASSUME e \notin eventSubscriptions
                   PROVE  ~Carries(toClient', "event", e) /\ ~Carries(notificationQueue', "event", e)
        OBVIOUS
      <3>1. ~Carries(toClient, "event", e) /\ ~Carries(notificationQueue, "event", e)
        BY DEF Promise, Steady
      <3>2. \A x \in ToSet(toClient) \cup ToSet(notificationQueue) : ~Is(x, "event", e)
        BY <3>1, SaysAre
      <3>3. \A x \in ToSet(toClient') \cup ToSet(notificationQueue') : ~Is(x, "event", e)
        BY <1>5, <3>2
      <3> QED BY <3>3, SaysAre
    <2> QED BY <1>1, <1>7, <2>1 DEF Promise, Steady
  <1>11. ASSUME Placed(e)' PROVE Pending(e)'
    <2>1. Pending(e)
      BY <1>1, <1>7, <1>11 DEF Promise, Placed
    <2>2. InLine(toClient', e) /\ \A y \in ToSet(toClient') : Sorted(m, y, e)
      BY <1>5, <2>1 DEF Pending
    <2>3. \A x \in ToSet(notificationQueue) : Sorted(x, m, e)
      <3> SUFFICES ASSUME NEW x \in ToSet(notificationQueue), ~Sorted(x, m, e) PROVE FALSE
        OBVIOUS
      <3>1. x \in Post(notificationQueue, e) /\ m \in Post(toClient, e)
        <4>1. Is(m, "event", e) /\ (Is(x, "event", e) \/ Is(x, "subscribed", e))
          BY DEF Sorted
        <4> QED BY <1>5, <4>1, SaysAre
      <3> QED BY <2>1, <3>1 DEF Pending, Across
    <2>4. InLine(notificationQueue', e)
      BY <1>5, <2>1, <2>3 DEF Pending
    <2>5. Across(notificationQueue', toClient', e)
      <3> SUFFICES ASSUME NEW x \in Post(notificationQueue', e), NEW y \in Post(toClient', e) PROVE Sorted(x, y, e)
        BY DEF Across
      <3>1. y \in ToSet(toClient') /\ y \in Post(toClient, e)
        BY <1>5, SaysAre
      <3>2. CASE x = m
        BY <2>2, <3>1, <3>2
      <3>3. CASE x \in Post(notificationQueue, e)
        BY <2>1, <3>1, <3>3 DEF Pending, Across
      <3> QED BY <1>5, <3>2, <3>3, SaysAre
    <2> QED BY <1>1, <1>6, <1>7, <1>8, <2>1, <2>2, <2>4, <2>5 DEF Pending
  <1> QED BY <1>9, <1>10, <1>11 DEF Promise

(* A frame is taken that says nothing the event is waiting for.            *)
LEMMA FrameIsTaken ==
  ASSUME Setting, NEW type \in {"unsubscribed", "failed", "attached"}, Frame(type), NEW e
  PROVE  /\ Head(toClient) \in Answer /\ toClient # <<>> /\ Taken(toClient, Head(toClient), toClient')
         /\ Head(toClient).type = type
         /\ Post(toClient, e)' = Post(toClient, e)
         /\ InLine(toClient, e) => InLine(toClient, e)'
         /\ Withdrawn(e)' => Withdrawn(e)
         /\ type # "attached" => (Told' <=> Told)
  <1>1. /\ Head(toClient) \in Answer /\ toClient # <<>> /\ Taken(toClient, Head(toClient), toClient')
        /\ Head(toClient).type = type /\ toClient' = Tail(toClient) /\ toClient \in Seq(Answer)
    BY SettingIs, FrameTakes DEF Frame
  <1>2. ~Is(Head(toClient), "event", e) /\ ~Is(Head(toClient), "subscribed", e)
    BY <1>1 DEF Is
  <1>3. Post(toClient', e) = Post(toClient, e) /\ (InLine(toClient, e) => InLine(toClient', e))
    BY <1>1, <1>2, OtherTaken
  <1> QED BY <1>1, <1>3 DEF Taken, Withdrawn, Told

LEMMA UnsubscribedKeepsPromise ==
  ASSUME Setting, Types', NEW e \in Promised, Promise(e), ReceiveUnsubscribed
  PROVE  Promise(e)'
  <1> DEFINE f == Head(toClient).event
  <1>1. /\ Frame("unsubscribed") /\ Turn(f) /\ subscribedEvents' = subscribedEvents \ {f}
        /\ UNCHANGED <<journal, handling, connected, releases, cursor, eventCursors, eventSubscriptions,
                       notificationQueue, occurred, from, heard, resolved>>
    BY DEF ReceiveUnsubscribed, server, session, feed
  <1>2. /\ Types /\ FeedTypes /\ e \in Event
    BY SettingIs, PromisedAre
  <1>3. /\ Head(toClient) \in Answer /\ Taken(toClient, Head(toClient), toClient')
        /\ Head(toClient).type = "unsubscribed"
        /\ Post(toClient, e)' = Post(toClient, e)
        /\ InLine(toClient, e) => InLine(toClient, e)'
        /\ Withdrawn(e)' => Withdrawn(e)
        /\ Told' <=> Told
    BY <1>1, FrameIsTaken
  <1>4. f \in Wire /\ e # f
    <2>1. f \in Wire
      BY <1>3, AnswersHave
    <2>2. Withdrawn(f)
      BY <1>3 DEF Taken, Withdrawn, Is
    <2> QED BY <2>1, <2>2 DEF Promise, Steady
  <1>5. cursor' \in Position /\ eventCursors' \in [Event -> Stamps]
    BY DEF Types, ProxyTypes
  <1> HIDE DEF f
  <1>6. /\ Pleas(e)' = Pleas(e)
        /\ Ending(e)' <=> Ending(e)
        /\ Asked' <=> Asked
        /\ e \in reconciling' <=> e \in reconciling
    BY <1>1, <1>4, <1>5, OtherTurn
  <1>7. (Reattaching' <=> Reattaching) /\ ~Ending(e)' /\ ~Withdrawn(e)'
    BY <1>3, <1>6 DEF Reattaching, Promise, Steady
  <1>8. /\ Post(notificationQueue, e)' = Post(notificationQueue, e)
        /\ InLine(notificationQueue, e) => InLine(notificationQueue, e)'
    BY <1>1 DEF InLine
  <1>9. eventCursors[e] = None /\ connected' /\ ~Reattaching' =>
           connected /\ ~Reattaching /\ e \in reconciling' \cup subscribedEvents'
    BY <1>1, <1>4, <1>6, <1>7 DEF Promise, Steady
  <1>10. Head1' = Head1 /\ Head1'.rev \in Nat /\ Head1.rev <= Head1'.rev
    BY <1>1, SettingIs DEF Head1
  <1> QED BY <1>1, <1>2, <1>3, <1>6, <1>7, <1>8, <1>9, <1>10, PromiseKept

LEMMA FailedKeepsPromise ==
  ASSUME Setting, Types', NEW e \in Promised, Promise(e), Kept(e), Kept(e)', ReceiveFailed
  PROVE  Promise(e)'
  <1> DEFINE f == Head(toClient).event
  <1>1. /\ Frame("failed") /\ reconciling' = reconciling \ {f}
        /\ UNCHANGED <<journal, handling, toServer, connected, releases, cursor, eventCursors, eventSubscriptions,
                       subscribedEvents, notificationQueue, occurred, from, heard, resolved>>
        /\ lapse' = IF Wanted(f) /\ eventCursors[f] = None
                     THEN [lapse EXCEPT ![f] = lapse[f] \cup {"unplaced"}] ELSE lapse
    BY DEF ReceiveFailed, server, session, Abandon
  <1>2. /\ Types /\ FeedTypes /\ e \in Event
    BY SettingIs, PromisedAre
  <1>3. /\ Post(toClient, e)' = Post(toClient, e)
        /\ InLine(toClient, e) => InLine(toClient, e)'
        /\ Withdrawn(e)' => Withdrawn(e)
        /\ Told' <=> Told
    BY <1>1, FrameIsTaken
  <1> HIDE DEF f
  <1>4. eventCursors[e] = None => f # e
    BY <1>1, <1>2 DEF Kept, FeedTypes
  <1>5. (Reattaching' <=> Reattaching) /\ ~Ending(e)' /\ ~Withdrawn(e)' /\ Pleas(e)' = Pleas(e)
    BY <1>1, <1>3 DEF Reattaching, Asked, Promise, Steady, Ending, Pleas
  <1>8. /\ Post(notificationQueue, e)' = Post(notificationQueue, e)
        /\ InLine(notificationQueue, e) => InLine(notificationQueue, e)'
    BY <1>1 DEF InLine
  <1>9. eventCursors[e] = None /\ connected' /\ ~Reattaching' =>
           connected /\ ~Reattaching /\ e \in reconciling' \cup subscribedEvents'
    BY <1>1, <1>4, <1>5 DEF Promise, Steady
  <1>10. Head1' = Head1 /\ Head1'.rev \in Nat /\ Head1.rev <= Head1'.rev
    BY <1>1, SettingIs DEF Head1
  <1> QED BY <1>1, <1>2, <1>3, <1>5, <1>8, <1>9, <1>10, PromiseKept

(* The proxy is reattached: it asks for the event again, from where its    *)
(* listener has come to.                                                   *)
LEMMA AttachedKeepsPromise ==
  ASSUME Setting, Types', NEW e \in Promised, Promise(e), Kept(e), Kept(e)', ReceiveAttached
  PROVE  Promise(e)'
  <1> DEFINE c == Head(toClient).cursor
  <1>1. /\ Types /\ FeedTypes /\ e \in Event /\ Stamped /\ Placing /\ Link /\ releases = 0
        /\ tracked /\ toServer \in Seq(Request)
    BY SettingIs, PromisedAre, NeverReleased DEF Promise, Served
  <1>2. /\ Frame("attached") /\ cursor' = c /\ eventCursors' = Replace(c) /\ Resubscribe
        /\ UNCHANGED <<journal, handling, connected, releases, eventSubscriptions, notificationQueue,
                       occurred, from, heard, resolved>>
        /\ lapse' = [g \in Event |->
                       lapse[g] \cup IF eventCursors[g] = None /\ Wanted(g) THEN {"unplaced"} ELSE {}]
    BY <1>1 DEF ReceiveAttached, server, session
  <1>3. eventCursors[e] # None
    BY <1>1, <1>2 DEF Kept
  <1>4. /\ Post(toClient, e)' = Post(toClient, e)
        /\ InLine(toClient, e) => InLine(toClient, e)'
        /\ Withdrawn(e)' => Withdrawn(e)
        /\ toClient # <<>> /\ Head(toClient).type = "attached"
    BY <1>2, FrameIsTaken
  <1>5. c.gen = Head1.gen
    <2>1. Head(toClient) \in Current
      BY <1>1, <1>4, StampsAre
    <2> QED BY <1>1, <1>4, <2>1, StampsAre
  <1>6. eventCursors' = eventCursors /\ cursor'.gen = cursor.gen /\ eventCursors[e] = Cursor(Head1.gen, Reached(e))
    <2>1. cursor.gen = Head1.gen /\ eventCursors[e].rev = Reached(e)
      BY <1>3 DEF Promise, Served
    <2>2. eventCursors[e].gen = Head1.gen /\ eventCursors[e] \in Position
      BY <1>1, <1>3, <2>1, PropertiesOfTypes DEF Placing, Stamps
    <2>3. eventCursors[e] = Cursor(eventCursors[e].gen, eventCursors[e].rev)
      BY <2>2 DEF Position, Cursor
    <2> QED BY <1>2, <1>5, <2>1, <2>2, <2>3 DEF Replace
  <1> HIDE DEF c
  <1>7. PICK r \in Seq(Request) : /\ toServer' = toServer \o r
                                  /\ \A i \in DOMAIN r : r[i].type = "subscribe"
                                  /\ \A i \in DOMAIN r : r[i].after = ResumedFrom(r[i].event)
    <2>1. cursor' \in Position /\ eventCursors' \in [Event -> Stamps]
      BY DEF Types, ProxyTypes
    <2> QED BY <1>1, <1>2, <2>1, ResubscribeIs
  <1>8. \A m \in Says(r, "subscribe", e) : m.after = Cursor(Head1.gen, Reached(e))
    <2> SUFFICES ASSUME NEW m \in Says(r, "subscribe", e) PROVE m.after = Cursor(Head1.gen, Reached(e))
      OBVIOUS
    <2>1. m.event = e /\ m.after = ResumedFrom(e)
      BY <1>7, SaysAre DEF Is
    <2> QED BY <1>3, <1>6, <2>1 DEF ResumedFrom
  <1>9. Pleas(e)' = Pleas(e) \cup Says(r, "subscribe", e)
    BY <1>1, <1>2, <1>7, SaysFollowed DEF Pleas
  <1>10. ~Ending(e)'
    <2>1. Says(r, "unsubscribe", e) = {}
      BY <1>7, SaysAre DEF Says, Is
    <2>2. Says(toServer', "unsubscribe", e) = Says(toServer, "unsubscribe", e)
      <3>1. Says(toServer \o r, "unsubscribe", e) = Says(toServer, "unsubscribe", e) \cup Says(r, "unsubscribe", e)
        BY <1>1, <1>7, SaysFollowed
      <3> QED BY <1>7, <2>1, <3>1
    <2> QED BY <1>2, <2>2, SaysAre DEF Ending, Promise, Steady
  <1>11. Reached(e)' = Reached(e) /\ Due(e)' = Due(e) /\ Head1' = Head1 /\ eventCursors'[e] = eventCursors[e]
    BY <1>2, <1>6 DEF Reached, Due, Head1
  <1>12. Served(e)'
    BY <1>2, <1>6, <1>11 DEF Promise, Served
  <1>13. \A q : Carries(q, "event", e) <=> \E m \in Post(q, e) : Is(m, "event", e)
    <2> SUFFICES ASSUME NEW q
                 PROVE  Carries(q, "event", e) <=> \E m \in Post(q, e) : Is(m, "event", e)
      OBVIOUS
    <2>1. Carries(q, "event", e) <=> \E m : m \in Says(q, "event", e)
      BY SaysAre
    <2> QED BY <2>1 DEF Says, Post
  <1>14. Steady(e)'
    <2>1. Carries(toClient', "event", e) <=> Carries(toClient, "event", e)
      BY <1>4, <1>13
    <2> QED BY <1>2, <1>3, <1>4, <1>6, <1>10, <2>1 DEF Promise, Steady
  <1>15. Pending(e)'
    <2>1. Pending(e)
      BY <1>3 DEF Promise, Placed
    <2>2. e \notin eventSubscriptions => \A m \in Pleas(e)' : m.after = Cursor(Head1.gen, Reached(e))
      BY <1>8, <1>9, <2>1 DEF Pending
    <2>3. Mail(e)' = Mail(e)
      BY <1>2, <1>4 DEF Mail
    <2> QED BY <1>2, <1>4, <1>11, <2>1, <2>2, <2>3 DEF Pending, InLine, Across
  <1> QED BY <1>12, <1>14, <1>15 DEF Promise

(* What is left once the first notification is processed.                  *)
Rest(e) == Post(toClient, e) \cup Post(Tail(notificationQueue), e)

LEMMA RestIs ==
  ASSUME Setting, NEW e \in Promised, notificationQueue # <<>>, Pending(e)
  PROVE  LET m == Head(notificationQueue) IN
         /\ m \in Current /\ m \in ToSet(notificationQueue)
         /\ \A y : y \in Mail(e) <=> y \in Rest(e) \/ (y = m /\ (Is(m, "event", e) \/ Is(m, "subscribed", e)))
         /\ Is(m, "event", e) \/ Is(m, "subscribed", e) => \A y \in Rest(e) : Sorted(m, y, e)
         /\ InLine(Tail(notificationQueue), e) /\ Across(Tail(notificationQueue), toClient, e)
  <1> DEFINE m == Head(notificationQueue)
             q == Tail(notificationQueue)
  <1>1. m \in Current
    BY SettingIs, StampsAre
  <1>2. /\ ToSet(notificationQueue) = ToSet(q) \cup {m}
        /\ InLine(q, e) /\ \A y \in ToSet(q) : Sorted(m, y, e)
    BY SettingIs, SaysRemoved DEF Pending
  <1> HIDE DEF m, q
  <1>3. \A y : y \in Mail(e) <=> y \in Rest(e) \/ (y = m /\ (Is(m, "event", e) \/ Is(m, "subscribed", e)))
    <2>1. Rest(e) = Post(toClient, e) \cup Post(q, e)
      BY DEF Rest, q
    <2> QED BY <1>2, <2>1, SaysAre DEF Mail
  <1>4. Is(m, "event", e) \/ Is(m, "subscribed", e) => \A y \in Rest(e) : Sorted(m, y, e)
    <2> SUFFICES ASSUME Is(m, "event", e) \/ Is(m, "subscribed", e), NEW y \in Rest(e)
                 PROVE  Sorted(m, y, e)
      OBVIOUS
    <2>1. CASE y \in Post(toClient, e)
      <3>1. m \in Post(notificationQueue, e)
        BY <1>2, SaysAre
      <3> QED BY <2>1, <3>1 DEF Pending, Across
    <2>2. CASE y \in Post(q, e)
      BY <1>2, <2>2, SaysAre
    <2> QED BY <2>1, <2>2 DEF Rest, q
  <1>5. Across(q, toClient, e)
    <2>1. Post(q, e) \subseteq Post(notificationQueue, e)
      BY <1>2, SaysAre
    <2> QED BY <2>1 DEF Pending, Across
  <1> QED BY <1>1, <1>2, <1>3, <1>4, <1>5 DEF m, q

(* An occurrence that is processed is the next the listener waits for.     *)
LEMMA HeadIsNext ==
  ASSUME Setting, NEW e \in Promised, Promise(e), notificationQueue # <<>>,
         Is(Head(notificationQueue), "event", e)
  PROVE  LET r == Head(notificationQueue).cursor.rev IN
         /\ e \in eventSubscriptions /\ connected /\ ~Reattaching /\ Pending(e)
         /\ Head(notificationQueue).cursor.gen = Head1.gen
         /\ r \in occurred[e] /\ r \in Nat /\ r > Reached(e) /\ r <= Head1.rev
         /\ \A s \in occurred[e] : s > Reached(e) => r <= s
         /\ Revs(Rest(e), e) = {s \in occurred[e] : s > r}
  <1> DEFINE m == Head(notificationQueue)
             r == m.cursor.rev
  <1>0. /\ Types /\ FeedTypes /\ e \in Event /\ notificationQueue \in Seq(Deferred) /\ Stamped /\ Reattached /\ Link
        /\ releases = 0
    BY SettingIs, PromisedAre DEF Promise, Served
  <1>1. e \in eventSubscriptions
    <2>1. Carries(notificationQueue, "event", e)
      BY <1>0, HasRemoved
    <2> QED BY <2>1 DEF Promise, Steady
  <1>2. connected /\ ~Reattaching
    <2>1. Has(notificationQueue, "event")
      BY <1>0, HasRemoved DEF Is
    <2>2. connected
      BY <1>0, SilentMeansConnected DEF Link
    <2> QED BY <1>0, <2>1, <2>2 DEF Reattached, Notices
  <1>3. Pending(e)
    BY <1>2 DEF Promise, Placed
  <1>4. m \in Current
    BY <1>0, StampsAre
  <1>5. /\ m.cursor.gen = Head1.gen /\ r \in Nat /\ r <= Head1.rev
    <2>1. m.cursor \in Position /\ m.cursor.gen = Head1.gen /\ m.cursor.rev <= Head1.rev
      BY <1>0, <1>4, StampsAre DEF Is
    <2> QED BY <1>0, <2>1, NumbersAre
  <1>6. Is(m, "event", e)
    OBVIOUS
  <1>7. /\ \A y : y \in Mail(e) <=> y \in Rest(e) \/ y = m
        /\ \A y \in Rest(e) : Sorted(m, y, e)
    BY <1>3, <1>6, RestIs
  <1>8. m.cursor.rev = r
    OBVIOUS
  <1> HIDE DEF m, r
  <1>9. \A s : s \in Revs(Mail(e), e) <=> s \in Revs(Rest(e), e) \/ s = r
    BY <1>6, <1>7, <1>8 DEF Revs
  <1>10. \A s \in Revs(Rest(e), e) : r < s
    BY <1>6, <1>7, <1>8 DEF Revs, Sorted
  <1>11. Revs(Mail(e), e) = {s \in occurred[e] : s > Reached(e)}
    BY <1>1, <1>3 DEF Pending
  <1>12. Reached(e) \in Nat /\ occurred[e] \subseteq Nat
    BY <1>0, ReachedIs
  <1>13. r \in occurred[e] /\ r > Reached(e)
    BY <1>9, <1>11
  <1>14. \A s \in occurred[e] : s > Reached(e) => r <= s
    BY <1>5, <1>9, <1>10, <1>11, <1>12
  <1>15. Revs(Rest(e), e) = {s \in occurred[e] : s > r}
    <2>1. \A s : s \in Revs(Rest(e), e) => s \in occurred[e] /\ s > r
      BY <1>5, <1>9, <1>10, <1>11, <1>12
    <2>2. \A s \in occurred[e] : s > r => s \in Revs(Rest(e), e)
      BY <1>5, <1>9, <1>11, <1>12, <1>13
    <2> QED BY <2>1, <2>2
  <1> QED BY <1>1, <1>2, <1>3, <1>5, <1>13, <1>14, <1>15 DEF m, r

LEMMA ListAppended ==
  ASSUME NEW S, NEW q \in Seq(S), NEW r \in S
  PROVE  /\ Append(q, r) # <<>> /\ Append(q, r)[Len(Append(q, r))] = r
         /\ ToSet(Append(q, r)) = ToSet(q) \cup {r}
  <1>1. Append(q, r) # <<>> /\ Append(q, r)[Len(Append(q, r))] = r
    OBVIOUS
  <1> QED BY <1>1, SaysAppended

(* The listener is given the next occurrence.                              *)
LEMMA AppliedKeepsPromise ==
  ASSUME Setting, NEW e \in Promised, Promise(e), Kept(e), ProcessNotification,
         Applied(Head(notificationQueue)), Head(notificationQueue).event = e
  PROVE  Promise(e)'
  <1> DEFINE m == Head(notificationQueue)
             r == m.cursor.rev
  <1>0. /\ Types /\ FeedTypes /\ e \in Event /\ releases = 0 /\ cursor.gen = Head1.gen /\ Is(m, "event", e)
    BY SettingIs, PromisedAre DEF Promise, Served, Applied, Is
  <1>1. /\ notificationQueue # <<>> /\ notificationQueue' = Tail(notificationQueue)
        /\ UNCHANGED <<journal, toServer, handling, toClient, connected, releases, eventSubscriptions,
                       reconciling, subscribedEvents>>
    BY <1>0, QueueTakes DEF ProcessNotification, server, session, Is
  <1>2. /\ e \in eventSubscriptions /\ connected /\ ~Reattaching /\ Pending(e)
        /\ m.cursor.gen = Head1.gen
        /\ r \in occurred[e] /\ r \in Nat /\ r > Reached(e) /\ r <= Head1.rev
        /\ \A s \in occurred[e] : s > Reached(e) => r <= s
        /\ Revs(Rest(e), e) = {s \in occurred[e] : s > r}
    BY <1>0, <1>1, HeadIsNext
  <1>3. /\ InLine(notificationQueue', e) /\ Across(notificationQueue', toClient, e)
    BY <1>1, <1>2, RestIs
  <1>4. /\ eventCursors' = [eventCursors EXCEPT ![e] = m.cursor]
        /\ cursor' = cursor \/ cursor' = m.cursor
        /\ heard' = [heard EXCEPT ![e] = Append(heard[e], r)]
        /\ UNCHANGED <<occurred, from, lapse, resolved>>
    BY DEF Applied, Observe, Kept
  <1>5. m.cursor.rev = r /\ m.cursor # None
    <2>1. m \in Current
      BY <1>1, SettingIs, StampsAre
    <2>2. m.cursor \in Position
      <3>1. m.type = "event"
        BY <1>0 DEF Is
      <3> HIDE DEF m
      <3> QED BY <1>0, <2>1, <3>1, StampsAre, SettingIs
    <2>3. Position \subseteq [gen : Nat, rev : Nat]
      BY EventSubscriptionAssumption DEF Position, Revision
    <2> QED BY <2>2, <2>3, EventSubscriptionAssumption
  <1> HIDE DEF m, r
  <1>6. /\ eventCursors'[e] = m.cursor /\ heard'[e] = Append(heard[e], r)
        /\ heard[e] \in Seq(Revision) /\ occurred[e] \subseteq Revision
        /\ Reached(e) \in Nat /\ from[e] \in Nat /\ resolved[e] \in Nat /\ occurred[e] \subseteq Nat
    BY <1>0, <1>4, ReachedIs, PropertiesOfTypes DEF FeedTypes
  <1>7. heard'[e] # <<>> /\ heard'[e][Len(heard'[e])] = r /\ ToSet(heard'[e]) = ToSet(heard[e]) \cup {r}
    BY <1>2, <1>6, ListAppended
  <1>8. Reached(e)' = r /\ Due(e)' = Due(e) /\ Head1' = Head1
    BY <1>1, <1>4, <1>7 DEF Reached, Due, Head1
  <1>9. Served(e)'
    <2>1. ToSet(heard[e]) = {s \in Due(e) : s <= Reached(e)} /\ from[e] <= Reached(e)
      BY DEF Promise, Served
    <2>2. {s \in Due(e) : s <= r} = {s \in Due(e) : s <= Reached(e)} \cup {r}
      <3>1. r \in Due(e)
        BY <1>2, <1>6, <2>1 DEF Due
      <3>2. \A s \in Due(e) : s \in occurred[e] /\ s \in Nat
        BY <1>6 DEF Due
      <3>3. \A s \in Due(e) : (s <= r <=> s <= Reached(e) \/ s = r)
        <4> SUFFICES ASSUME NEW s \in Due(e) PROVE (s <= r <=> s <= Reached(e) \/ s = r)
          OBVIOUS
        <4>1. s \in Nat /\ (s > Reached(e) => r <= s)
          BY <1>2, <3>2
        <4> QED BY <1>2, <1>6, <4>1
      <3> QED BY <3>1, <3>3
    <2>3. ToSet(heard'[e]) = {s \in Due(e) : s <= r}
      BY <1>7, <2>1, <2>2
    <2>4. {s \in Due(e) : s <= resolved[e]} \subseteq ToSet(heard'[e])
      BY <1>7 DEF Promise, Served
    <2>5. from[e] <= r
      BY <1>2, <1>6, <2>1
    <2>6. cursor'.gen = Head1.gen
      BY <1>0, <1>2, <1>4
    <2> QED BY <1>1, <1>2, <1>4, <1>5, <1>6, <1>8, <2>3, <2>4, <2>5, <2>6 DEF Promise, Served
  <1>10. (Ending(e)' <=> Ending(e)) /\ (Withdrawn(e)' <=> Withdrawn(e))
    BY <1>1 DEF Ending, Withdrawn
  <1>11. Steady(e)'
    BY <1>1, <1>2, <1>5, <1>6, <1>10 DEF Promise, Steady
  <1>12. Pending(e)'
    <2>1. Mail(e)' = Rest(e)
      BY <1>1 DEF Mail, Rest
    <2>2. InLine(toClient, e)
      BY <1>2 DEF Pending
    <2> QED BY <1>1, <1>2, <1>3, <1>4, <1>8, <2>1, <2>2 DEF Pending
  <1> QED BY <1>9, <1>11, <1>12 DEF Promise

(* subscribe() is answered: what was missed before has reached the         *)
(* listener.                                                               *)
LEMMA ConfirmedKeepsPromise ==
  ASSUME Setting, Types', NEW e \in Promised, Promise(e), Kept(e), ProcessNotification,
         Confirmed(Head(notificationQueue)), Head(notificationQueue).event = e
  PROVE  Promise(e)'
  <1> DEFINE m == Head(notificationQueue)
  <1>0. /\ Types /\ FeedTypes /\ Link /\ Stamped /\ e \in Event /\ e \in Wire /\ Is(m, "subscribed", e)
        /\ m.type = "subscribed" /\ notificationQueue \in Seq(Deferred)
    BY SettingIs, PromisedAre DEF Confirmed, Is
  <1>1. /\ notificationQueue # <<>> /\ notificationQueue' = Tail(notificationQueue)
        /\ UNCHANGED <<journal, handling, toClient, connected, releases, eventSubscriptions, listeners>>
        /\ Turn(e) /\ subscribedEvents' = subscribedEvents \cup {e}
    BY <1>0, QueueTakes DEF ProcessNotification, server, session
  <1>2. connected /\ ~Reattaching /\ e \in eventSubscriptions
    <2>1. Carries(notificationQueue, "subscribed", e) /\ Has(notificationQueue, "subscribed")
      BY <1>0, <1>1, HasRemoved
    <2>2. connected /\ e \in eventSubscriptions
      BY <1>0, <2>1, AcknowledgedIs DEF Acknowledged
    <2> QED BY <1>0, <2>1, <2>2 DEF Link, AttachFirst
  <1>3. Pending(e)
    BY <1>2 DEF Promise, Placed
  <1>4. /\ resolved' = [resolved EXCEPT ![e] = m.head]
        /\ UNCHANGED <<cursor, eventCursors, occurred, from, heard, lapse>>
    BY DEF Confirmed, Kept
  <1>5. m.head \in Nat /\ m.head <= Head1.rev
    <2>1. m \in Current
      BY <1>0, <1>1, StampsAre
    <2>2. m.head \in Revision /\ m.head <= Head1.rev
      BY <1>0, <2>1, StampsAre
    <2> QED BY <2>2, RevisionsAreFinite
  <1>6. /\ \A y : y \in Mail(e) <=> y \in Rest(e) \/ y = m
        /\ \A y \in Rest(e) : Sorted(m, y, e)
        /\ InLine(notificationQueue', e) /\ Across(notificationQueue', toClient, e)
    BY <1>0, <1>1, <1>3, RestIs
  <1>7. toServer' = toServer /\ reconciling' = reconciling \ {e}
    <2>1. listeners'[e] > 0 /\ e \in subscribedEvents'
      BY <1>1 DEF Kept, Wanted
    <2> QED BY <1>1, <2>1 DEF Turn
  <1> HIDE DEF m
  <1>8. \A s : s \in Revs(Mail(e), e) <=> s \in Revs(Rest(e), e)
    <2>1. ~Is(m, "event", e)
      BY <1>0 DEF Is
    <2> QED BY <1>6, <2>1 DEF Revs
  <1>9. \A s \in Revs(Rest(e), e) : m.head < s
    BY <1>0, <1>6 DEF Revs, Sorted
  <1>10. Reached(e)' = Reached(e) /\ Due(e)' = Due(e) /\ Head1' = Head1 /\ resolved'[e] = m.head
    BY <1>0, <1>1, <1>4 DEF Reached, Due, Head1, FeedTypes
  <1>11. Served(e)'
    <2>1. Revs(Mail(e), e) = {s \in occurred[e] : s > Reached(e)}
      BY <1>2, <1>3 DEF Pending
    <2>2. Reached(e) \in Nat /\ occurred[e] \subseteq Nat
      BY <1>0, ReachedIs
    <2>3. {s \in Due(e) : s <= m.head} \subseteq ToSet(heard[e])
      <3> SUFFICES ASSUME NEW s \in Due(e), s <= m.head PROVE s \in ToSet(heard[e])
        OBVIOUS
      <3>1. s \in occurred[e] /\ s \in Nat
        BY <2>2 DEF Due
      <3>2. ~(s > Reached(e))
        BY <1>5, <1>8, <1>9, <2>1, <3>1
      <3>3. s <= Reached(e)
        BY <2>2, <3>1, <3>2
      <3> QED BY <3>3 DEF Promise, Served
    <2> QED BY <1>1, <1>4, <1>5, <1>10, <2>3 DEF Promise, Served
  <1>12. (Ending(e)' <=> Ending(e)) /\ (Withdrawn(e)' <=> Withdrawn(e))
    BY <1>1, <1>7 DEF Ending, Withdrawn
  <1>13. Steady(e)'
    BY <1>1, <1>2, <1>12 DEF Promise, Steady
  <1>14. Pending(e)'
    <2>1. Mail(e)' = Rest(e)
      BY <1>1 DEF Mail, Rest
    <2>2. Revs(Mail(e), e) = Revs(Mail(e)', e)
      BY <1>8, <2>1
    <2> QED BY <1>1, <1>2, <1>3, <1>4, <1>6, <1>10, <2>2 DEF Pending
  <1> QED BY <1>11, <1>13, <1>14 DEF Promise

(* A notification is processed that is not about the event.                *)
LEMMA OtherProcessedKeepsPromise ==
  ASSUME Setting, Types', NEW e \in Promised, Promise(e), ProcessNotification,
         LET m == Head(notificationQueue) IN ~Is(m, "event", e) /\ ~Is(m, "subscribed", e)
  PROVE  Promise(e)'
  <1> DEFINE m == Head(notificationQueue)
  <1>0. /\ Types /\ FeedTypes /\ Stamped /\ e \in Event /\ notificationQueue \in Seq(Deferred)
        /\ ~Is(m, "event", e) /\ ~Is(m, "subscribed", e) /\ cursor.gen = Head1.gen
    BY SettingIs, PromisedAre DEF Promise, Served
  <1>1. /\ notificationQueue # <<>> /\ notificationQueue' = Tail(notificationQueue)
        /\ UNCHANGED <<journal, handling, toClient, connected, releases, eventSubscriptions, listeners>>
        /\ m.type = "subscribed" =>
              /\ m.event \in Wire /\ Turn(m.event)
              /\ subscribedEvents' = subscribedEvents \cup {m.event}
        /\ m.type # "subscribed" => UNCHANGED <<subscribedEvents, reconciling, toServer>>
        /\ Ignored(m) \/ Noticed(m) \/ Applied(m) \/ Confirmed(m)
        /\ m \in Current
    BY <1>0, QueueTakes, ProcessOutcome, StampsAre DEF ProcessNotification, server, session
  <1>2. /\ Post(notificationQueue, e)' = Post(notificationQueue, e)
        /\ InLine(notificationQueue, e) => InLine(notificationQueue, e)'
    BY <1>0, <1>1, OtherTaken
  <1> HIDE DEF m
  <1>3. cursor'.gen = cursor.gen
    <2>1. m.type \in {"event", "property"} => m.cursor.gen = Head1.gen
      BY <1>0, <1>1, StampsAre
    <2> QED BY <1>0, <1>1, <2>1 DEF Ignored, Noticed, Applied, Confirmed, Observe
  <1>4. /\ eventCursors'[e] = eventCursors[e] /\ heard'[e] = heard[e] /\ resolved'[e] = resolved[e]
        /\ UNCHANGED <<occurred, from>>
    <2>1. CASE Ignored(m) \/ Noticed(m)
      BY <2>1 DEF Ignored, Noticed, feed
    <2>2. CASE Applied(m)
      <3>1. m.event # e
        BY <1>0, <2>2 DEF Applied, Is
      <3> QED BY <2>2, <3>1 DEF Applied
    <2>3. CASE Confirmed(m)
      <3>1. m.event # e
        BY <1>0, <2>3 DEF Confirmed, Is
      <3> QED BY <2>3, <3>1 DEF Confirmed
    <2> QED BY <1>1, <2>1, <2>2, <2>3
  <1>5. /\ Pleas(e)' = Pleas(e)
        /\ Ending(e)' <=> Ending(e)
        /\ Asked' <=> Asked
        /\ e \in reconciling' <=> e \in reconciling
        /\ e \in subscribedEvents => e \in subscribedEvents'
    <2>1. CASE m.type = "subscribed"
      <3>1. m.event # e
        BY <1>0, <2>1 DEF Is
      <3>2. cursor' \in Position /\ eventCursors' \in [Event -> Stamps]
        BY DEF Types, ProxyTypes
      <3>3. /\ Pleas(e)' = Pleas(e)
            /\ Ending(e)' <=> Ending(e)
            /\ Asked' <=> Asked
            /\ e \in reconciling' <=> e \in reconciling
        BY <1>1, <2>1, <3>1, <3>2, OtherTurn
      <3> QED BY <1>1, <2>1, <3>3
    <2>2. CASE m.type # "subscribed"
      BY <1>1, <2>2 DEF Pleas, Ending, Asked
    <2> QED BY <2>1, <2>2
  <1>6. (Reattaching' <=> Reattaching) /\ ~Ending(e)' /\ ~Withdrawn(e)'
    BY <1>1, <1>5 DEF Reattaching, Told, Withdrawn, Promise, Steady
  <1>7. /\ Post(toClient, e)' = Post(toClient, e)
        /\ InLine(toClient, e) => InLine(toClient, e)'
    BY <1>1 DEF InLine
  <1>8. eventCursors[e] = None /\ connected' /\ ~Reattaching' =>
           connected /\ ~Reattaching /\ e \in reconciling' \cup subscribedEvents'
    BY <1>1, <1>5, <1>6 DEF Promise, Steady
  <1>9. Head1' = Head1 /\ Head1'.rev \in Nat /\ Head1.rev <= Head1'.rev
    BY <1>1, SettingIs DEF Head1
  <1> QED BY <1>0, <1>1, <1>2, <1>3, <1>4, <1>5, <1>6, <1>7, <1>8, <1>9, PromiseKept

LEMMA ProcessKeepsPromise ==
  ASSUME Setting, Types', NEW e \in Promised, Promise(e), Kept(e), ProcessNotification
  PROVE  Promise(e)'
  <1> DEFINE m == Head(notificationQueue)
  <1>1. /\ notificationQueue # <<>> /\ tracked
        /\ Ignored(m) \/ Noticed(m) \/ Applied(m) \/ Confirmed(m)
    BY SettingIs, QueueTakes, ProcessOutcome, NeverReleased DEF Promise, Served
  <1>2. CASE Is(m, "event", e)
    <2>1. ~Ignored(m)
      <3> SUFFICES ASSUME Ignored(m) PROVE FALSE
        OBVIOUS
      <3>1. m.event = e /\ m.type = "event"
        BY <1>2 DEF Is
      <3>2. m.cursor.gen = Head1.gen /\ m.cursor.rev > Reached(e)
        BY <1>1, <1>2, HeadIsNext
      <3>3. ~Applies(e, m.cursor)
        BY <1>1, <3>1 DEF Ignored
      <3>4. eventCursors[e] # None /\ eventCursors[e].rev = Reached(e)
        BY <3>3 DEF Applies, Newer, Promise, Served
      <3> QED BY <3>2, <3>3, <3>4 DEF Applies, Newer
    <2>2. Applied(m) /\ m.event = e
      BY <1>1, <1>2, <2>1 DEF Noticed, Confirmed, Is
    <2> QED BY <2>2, AppliedKeepsPromise
  <1>3. CASE Is(m, "subscribed", e)
    <2>1. Confirmed(m) /\ m.event = e
      BY <1>1, <1>3 DEF Ignored, Noticed, Applied, Is
    <2> QED BY <2>1, ConfirmedKeepsPromise
  <1> QED BY <1>2, <1>3, OtherProcessedKeepsPromise

(* What adding or removing a listener does for its event: the              *)
(* reconciliation has a turn, unless one is under way.                     *)
LEMMA ListenerReconciles ==
  ASSUME Setting, Types', NEW f \in Event, On(f) \/ Off(f) \/ \E r \in Revision : OnFrom(f, r)
  PROVE  /\ UNCHANGED <<journal, attached, eventSubscriptions, handling, toClient, connected, releases,
                        notificationQueue, cursor, occurred, subscribedEvents, tracked>>
         /\ \/ /\ f \in reconciling \/ f \notin Wire
               /\ UNCHANGED <<reconciling, toServer>>
            \/ f \in Wire /\ f \notin reconciling /\ Turn(f)
         /\ cursor' \in Position /\ eventCursors' \in [Event -> Stamps]
         /\ Reattaching' <=> Reattaching
  <1>1. Types
    BY SettingIs
  <1>2. /\ UNCHANGED <<journal, attached, eventSubscriptions, handling, toClient, connected, releases,
                       notificationQueue, cursor, occurred, subscribedEvents, tracked>>
        /\ Asked' <=> Asked
        /\ Told' <=> Told
    BY <1>1, ListenerTurns
  <1>3. Reconcile(f)
    BY DEF On, Off, OnFrom
  <1>4. \/ /\ f \in reconciling \/ f \notin Wire
           /\ UNCHANGED <<reconciling, toServer>>
        \/ f \in Wire /\ f \notin reconciling /\ Turn(f)
    BY <1>3 DEF Reconcile, OnWire, Wire
  <1>5. cursor' \in Position /\ eventCursors' \in [Event -> Stamps]
    BY DEF Types, ProxyTypes
  <1> QED BY <1>2, <1>4, <1>5 DEF Reattaching

(* Listeners of another event come and go.                                 *)
LEMMA OtherListenerKeepsPromise ==
  ASSUME Setting, Types', NEW e \in Promised, Promise(e), NEW f \in Event, f # e,
         On(f) \/ Off(f) \/ \E r \in Revision : OnFrom(f, r)
  PROVE  Promise(e)'
  <1>1. /\ Types /\ FeedTypes /\ e \in Event
    BY SettingIs, PromisedAre
  <1>2. /\ UNCHANGED <<journal, attached, eventSubscriptions, handling, toClient, connected, releases,
                        notificationQueue, cursor, occurred, subscribedEvents, tracked>>
        /\ \/ UNCHANGED <<reconciling, toServer>>
           \/ f \in Wire /\ Turn(f)
        /\ cursor' \in Position /\ eventCursors' \in [Event -> Stamps]
        /\ Reattaching' <=> Reattaching
    BY ListenerReconciles
  <1>3. /\ eventCursors'[e] = eventCursors[e] /\ from'[e] = from[e] /\ heard'[e] = heard[e]
        /\ resolved'[e] = resolved[e]
    <2>1. CASE On(f)
      BY <1>1, <2>1, PropertiesOfTypes DEF On, Starts, FeedTypes
    <2>2. CASE Off(f)
      BY <1>1, <2>2 DEF Off, feed
    <2>3. CASE \E r \in Revision : OnFrom(f, r)
      BY <1>1, <2>3, PropertiesOfTypes DEF OnFrom, Starts, FeedTypes
    <2> QED BY <2>1, <2>2, <2>3
  <1>4. /\ Pleas(e)' = Pleas(e)
        /\ Ending(e)' <=> Ending(e)
        /\ e \in reconciling' <=> e \in reconciling
    <2>1. CASE UNCHANGED <<reconciling, toServer>>
      BY <1>2, <2>1 DEF Pleas, Ending
    <2>2. CASE f \in Wire /\ Turn(f)
      BY <1>2, <2>2, OtherTurn
    <2> QED BY <1>2, <2>1, <2>2
  <1>5. ~Ending(e)' /\ ~Withdrawn(e)'
    BY <1>2, <1>4 DEF Promise, Steady, Withdrawn
  <1>6. eventCursors[e] = None /\ connected' /\ ~Reattaching' =>
          connected /\ ~Reattaching /\ e \in reconciling' \cup subscribedEvents'
    BY <1>2, <1>4 DEF Promise, Steady
  <1>7. /\ Post(toClient, e)' = Post(toClient, e) /\ Post(notificationQueue, e)' = Post(notificationQueue, e)
        /\ InLine(toClient, e) => InLine(toClient, e)'
        /\ InLine(notificationQueue, e) => InLine(notificationQueue, e)'
    BY <1>2 DEF InLine
  <1>8. Head1' = Head1 /\ Head1'.rev \in Nat /\ Head1.rev <= Head1'.rev
    BY <1>2, SettingIs DEF Head1
  <1> QED BY <1>1, <1>2, <1>3, <1>4, <1>5, <1>6, <1>7, <1>8, PromiseKept

(* A cursor is what it says.                                               *)
LEMMA CursorIs ==
  \A c \in Position : c = Cursor(c.gen, c.rev)
  BY DEF Position, Cursor

(* When a feed starts that cannot be promised, it lapses at once.          *)
LEMMA OnStarts ==
  ASSUME Types, NEW e \in Event, On(e)
  PROVE  LET start == IF eventCursors[e] = None THEN cursor ELSE eventCursors[e] IN
         /\ start \in Position /\ UNCHANGED <<cursor, eventCursors>>
         /\ \E lapses \in SUBSET Lapses :
              /\ Starts(e, start.rev, lapses)
              /\ ~Wanted(e) /\ lapses = {} => releases <= 0 /\ start.gen = Head1.gen /\ Quiet(e)
  <1> DEFINE start == IF eventCursors[e] = None THEN cursor ELSE eventCursors[e]
             lapses == IF Wanted(e) THEN {}
                         ELSE IF releases > 0 \/ start.gen # Head1.gen THEN {"foreign"}
                         ELSE IF ~Quiet(e) THEN {"busy"} ELSE {}
  <1>1. start \in Position
    BY PropertiesOfTypes DEF Stamps
  <1>2. lapses \in SUBSET Lapses
    BY DEF Lapses
  <1>3. ~Wanted(e) /\ lapses = {} => releases <= 0 /\ start.gen = Head1.gen /\ Quiet(e)
    <2> HIDE DEF start
    <2>1. releases \in Nat
      BY DEF Types, SessionTypes
    <2> QED BY <2>1
  <1>4. Starts(e, start.rev, lapses) /\ UNCHANGED <<cursor, eventCursors>>
    BY DEF On
  <1> HIDE DEF lapses
  <1> QED BY <1>1, <1>2, <1>3, <1>4

LEMMA OnFromStarts ==
  ASSUME Types, NEW e \in Event, NEW r \in Revision, OnFrom(e, r)
  PROVE  /\ cursor \in Position /\ r <= cursor.rev /\ cursor' = cursor
         /\ eventCursors' = [eventCursors EXCEPT ![e] = Cursor(cursor.gen, r)]
         /\ \E lapses \in SUBSET Lapses :
              /\ Starts(e, r, lapses)
              /\ lapses = {} => ~Wanted(e) /\ releases <= 0 /\ cursor.gen = Head1.gen /\ Quiet(e)
  <1> DEFINE lapses == IF Wanted(e) \/ ~Quiet(e) THEN {"busy"}
                         ELSE IF releases > 0 \/ cursor.gen # Head1.gen THEN {"foreign"} ELSE {}
  <1>1. cursor \in Position
    BY PropertiesOfTypes
  <1>2. lapses \in SUBSET Lapses
    BY DEF Lapses
  <1>3. lapses = {} => ~Wanted(e) /\ releases <= 0 /\ cursor.gen = Head1.gen /\ Quiet(e)
    <2>1. releases \in Nat
      BY DEF Types, SessionTypes
    <2> QED BY <2>1
  <1>4. /\ Starts(e, r, lapses) /\ r <= cursor.rev /\ cursor' = cursor
        /\ eventCursors' = [eventCursors EXCEPT ![e] = Cursor(cursor.gen, r)]
    BY DEF OnFrom
  <1> HIDE DEF lapses
  <1> QED BY <1>1, <1>2, <1>3, <1>4

(* Other listeners of the same event come and go, while one stays.         *)
LEMMA MoreListenersKeepPromise ==
  ASSUME Setting, Types', NEW e \in Promised, Promise(e), Kept(e), Kept(e)',
         On(e) \/ Off(e) \/ \E r \in Revision : OnFrom(e, r)
  PROVE  Promise(e)'
  <1>1. /\ Types /\ FeedTypes /\ Placing /\ e \in Event /\ e \in Wire /\ toServer \in Seq(Request) /\ releases = 0
    BY SettingIs, PromisedAre DEF Promise, Served
  <1>2. /\ UNCHANGED <<journal, attached, eventSubscriptions, handling, toClient, connected, releases,
                        notificationQueue, cursor, occurred, subscribedEvents, tracked>>
        /\ \/ UNCHANGED <<reconciling, toServer>>
           \/ e \in Wire /\ e \notin reconciling /\ Turn(e)
        /\ cursor' \in Position /\ eventCursors' \in [Event -> Stamps]
        /\ Reattaching' <=> Reattaching
    BY <1>1, ListenerReconciles
  <1>3. On(e) \/ Off(e)
    <2> SUFFICES ASSUME NEW r \in Revision, OnFrom(e, r) PROVE FALSE
      OBVIOUS
    <2>1. PICK lapses \in SUBSET Lapses : Starts(e, r, lapses) /\ lapses # {}
      BY <1>1, OnFromStarts DEF Kept
    <2>2. lapse' = [lapse EXCEPT ![e] = @ \cup lapses]
      BY <2>1 DEF Starts, Kept
    <2>3. lapse'[e] # {}
      BY <1>1, <2>1, <2>2 DEF FeedTypes
    <2> QED BY <2>3 DEF Kept
  <1>4. UNCHANGED <<eventCursors, from, heard, resolved>>
    BY <1>3 DEF On, Off, Starts, feed, Kept
  <1>5. Reached(e)' = Reached(e) /\ Due(e)' = Due(e) /\ Head1' = Head1
    BY <1>2, <1>4 DEF Reached, Due, Head1
  <1>6. Served(e)'
    BY <1>2, <1>4, <1>5 DEF Promise, Served
  <1>7. /\ Mail(e)' = Mail(e) /\ Withdrawn(e)' = Withdrawn(e)
        /\ InLine(toClient, e)' = InLine(toClient, e)
        /\ InLine(notificationQueue, e)' = InLine(notificationQueue, e)
        /\ Across(notificationQueue, toClient, e)' = Across(notificationQueue, toClient, e)
        /\ Carries(toClient, "event", e)' = Carries(toClient, "event", e)
        /\ Carries(notificationQueue, "event", e)' = Carries(notificationQueue, "event", e)
    BY <1>2 DEF Mail, Withdrawn, InLine, Across
  <1>8. CASE UNCHANGED <<reconciling, toServer>>
    <2>1. Steady(e)'
      BY <1>2, <1>4, <1>7, <1>8 DEF Promise, Steady, Ending
    <2>2. Placed(e) => Pending(e)'
      BY <1>2, <1>4, <1>5, <1>7, <1>8 DEF Promise, Pending, Pleas
    <2> QED BY <1>2, <1>4, <1>6, <2>1, <2>2 DEF Promise, Placed
  <1>9. CASE e \notin reconciling /\ Turn(e)
    <2>1. CASE Rested(e)
      <3>1. UNCHANGED <<reconciling, toServer>>
        BY <1>9, <2>1 DEF Rested
      <3> QED BY <1>8, <3>1
    <2>2. CASE \E m : Requested(e, m)
      <3>1. PICK m : Requested(e, m)
        BY <2>2
      <3>2. /\ m \in Request /\ m.event = e /\ connected /\ toServer' = Append(toServer, m)
            /\ m.type = "subscribe" /\ m.after = ResumedFrom(e) /\ e \notin subscribedEvents'
            /\ reconciling' = reconciling \cup {e}
        BY <3>1 DEF Requested, Kept, Wanted
      <3>3. /\ Says(toServer', "subscribe", e) = Says(toServer, "subscribe", e) \cup {m}
            /\ Carries(toServer', "unsubscribe", e) <=> Carries(toServer, "unsubscribe", e)
        <4>1. Added(toServer, m, toServer')
          BY <1>1, <3>2, AppendAdds
        <4>2. Is(m, "subscribe", e) /\ ~Is(m, "unsubscribe", e)
          BY <3>2 DEF Is
        <4>3. Says(toServer', "subscribe", e) = Says(toServer, "subscribe", e) \cup {m}
          BY <1>1, <3>2, <4>2, SaysAppended
        <4> QED BY <4>1, <4>2, <4>3 DEF Added
      <3>4. Steady(e)'
        BY <1>2, <1>4, <1>7, <3>2, <3>3 DEF Promise, Steady, Ending
      <3>5. ASSUME eventCursors[e] # None PROVE Pending(e)'
        <4>1. eventCursors[e] = Cursor(Head1.gen, Reached(e))
          <5>1. eventCursors[e] \in Position
            BY <1>1, <3>5, PropertiesOfTypes DEF Stamps
          <5>2. eventCursors[e].gen = Head1.gen /\ eventCursors[e].rev = Reached(e)
            BY <1>1, <3>5 DEF Placing, Promise, Served
          <5> QED BY <5>1, <5>2, CursorIs
        <4>2. m.after = Cursor(Head1.gen, Reached(e))
          BY <1>4, <3>2, <3>5, <4>1 DEF ResumedFrom
        <4>3. Pleas(e)' = Pleas(e) \cup {m}
          BY <1>2, <3>3 DEF Pleas
        <4>4. Pending(e)
          BY <3>5 DEF Promise, Placed
        <4> QED BY <1>2, <1>5, <1>7, <4>2, <4>3, <4>4 DEF Pending
      <3>6. eventCursors[e] = None => ~Placed(e)'
        <4>1. eventCursors[e] = None /\ connected => Reattaching
          BY <1>2, <1>9, <3>2 DEF Promise, Steady
        <4> QED BY <1>2, <1>4, <3>2, <4>1 DEF Placed
      <3> QED BY <1>6, <3>4, <3>5, <3>6 DEF Promise
    <2> QED BY <1>1, <1>2, <1>9, <2>1, <2>2, TurnAsks
  <1> QED BY <1>2, <1>8, <1>9

(* The feed of an event starts, and does not lapse at once: from a         *)
(* revision the journal has reached, with nothing of the event under way.  *)
Started(e) ==
    /\ releases = 0 /\ Quiet(e) /\ cursor.gen = Head1.gen /\ cursor' = cursor
    /\ from'[e] \in Nat /\ from'[e] <= Head1.rev /\ heard'[e] = <<>> /\ resolved'[e] = 0
    /\ ResumedFrom(e) = Cursor(Head1.gen, from'[e])
    /\ eventCursors'[e] # None => eventCursors'[e].rev = from'[e]

LEMMA StartedIs ==
  ASSUME Setting, Types', NEW e \in Promised, ~Wanted(e), Kept(e)',
         On(e) \/ \E r \in Revision : OnFrom(e, r)
  PROVE  Started(e)
  <1>1. /\ Types /\ FeedTypes /\ Placing /\ e \in Event /\ releases \in Nat
        /\ Head1.rev \in Nat /\ Head1.gen \in Nat
    BY SettingIs, PromisedAre, NumbersAre DEF Types, SessionTypes
  <1>2. CASE On(e)
    <2> DEFINE start == IF eventCursors[e] = None THEN cursor ELSE eventCursors[e]
    <2>1. /\ start \in Position /\ UNCHANGED <<cursor, eventCursors>>
          /\ \E lapses \in SUBSET Lapses :
               /\ Starts(e, start.rev, lapses)
               /\ ~Wanted(e) /\ lapses = {} => releases <= 0 /\ start.gen = Head1.gen /\ Quiet(e)
      BY <1>1, <1>2, OnStarts
    <2>2. (eventCursors[e] = None => start = cursor) /\ (eventCursors[e] # None => start = eventCursors[e])
      OBVIOUS
    <2>3. ResumedFrom(e) = start
      BY <2>1 DEF ResumedFrom
    <2> HIDE DEF start
    <2>4. PICK lapses \in SUBSET Lapses :
               /\ Starts(e, start.rev, lapses)
               /\ lapses = {} => releases <= 0 /\ start.gen = Head1.gen /\ Quiet(e)
      BY <2>1
    <2>5. /\ from' = [from EXCEPT ![e] = start.rev] /\ heard' = [heard EXCEPT ![e] = <<>>]
          /\ resolved' = [resolved EXCEPT ![e] = 0] /\ lapse' = [lapse EXCEPT ![e] = lapses]
      BY <2>4 DEF Starts
    <2>6. from'[e] = start.rev /\ heard'[e] = <<>> /\ resolved'[e] = 0 /\ lapse'[e] = lapses
      BY <1>1, <2>5 DEF FeedTypes
    <2>7. releases = 0 /\ start.gen = Head1.gen /\ Quiet(e)
      BY <1>1, <2>4, <2>6 DEF Kept
    <2>8. cursor.gen = Head1.gen /\ Level(start)
      BY <1>1, <2>2, <2>7 DEF Placing
    <2>9. start.rev \in Nat /\ start.rev <= Head1.rev
      BY <1>1, <2>1, <2>7, <2>8, NumbersAre DEF Level
    <2>10. start = Cursor(Head1.gen, start.rev)
      BY <2>1, <2>7, CursorIs
    <2> QED BY <2>1, <2>2, <2>3, <2>6, <2>7, <2>8, <2>9, <2>10 DEF Started
  <1>3. CASE \E r \in Revision : OnFrom(e, r)
    <2>1. PICK r \in Revision : OnFrom(e, r)
      BY <1>3
    <2>2. /\ cursor \in Position /\ r <= cursor.rev /\ cursor' = cursor
          /\ eventCursors' = [eventCursors EXCEPT ![e] = Cursor(cursor.gen, r)]
      BY <1>1, <2>1, OnFromStarts
    <2>3. PICK lapses \in SUBSET Lapses :
               /\ Starts(e, r, lapses)
               /\ lapses = {} => releases <= 0 /\ cursor.gen = Head1.gen /\ Quiet(e)
      BY <1>1, <2>1, OnFromStarts
    <2>4. /\ from' = [from EXCEPT ![e] = r] /\ heard' = [heard EXCEPT ![e] = <<>>]
          /\ resolved' = [resolved EXCEPT ![e] = 0] /\ lapse' = [lapse EXCEPT ![e] = lapses]
      BY <2>3 DEF Starts
    <2>5. from'[e] = r /\ heard'[e] = <<>> /\ resolved'[e] = 0 /\ lapse'[e] = lapses
      BY <1>1, <2>4 DEF FeedTypes
    <2>6. releases = 0 /\ cursor.gen = Head1.gen /\ Quiet(e)
      BY <1>1, <2>3, <2>5 DEF Kept
    <2>7. r \in Nat /\ r <= Head1.rev
      <3>1. cursor.rev \in Nat /\ r \in Nat
        BY <1>1, <2>2, NumbersAre, RevisionsAreFinite
      <3>2. cursor.rev <= Head1.rev
        BY <1>1, <2>6 DEF Placing, Level
      <3> QED BY <1>1, <2>2, <3>1, <3>2
    <2>8. eventCursors'[e] = Cursor(Head1.gen, r)
      BY <1>1, <2>2, <2>6, PropertiesOfTypes
    <2>9. Cursor(Head1.gen, r) # None /\ Cursor(Head1.gen, r).rev = r
      <3>1. Cursor(Head1.gen, r) \in [gen : Nat, rev : Nat]
        BY <1>1, <2>7 DEF Cursor
      <3> QED BY <3>1, EventSubscriptionAssumption DEF Cursor
    <2> QED BY <2>2, <2>5, <2>6, <2>7, <2>8, <2>9 DEF Started, ResumedFrom
  <1> QED BY <1>2, <1>3

(* Nothing is said of a quiet event.                                       *)
LEMMA QuietIs ==
  ASSUME Setting, NEW e \in Event, Quiet(e), releases = 0
  PROVE  /\ \A t \in {"subscribe", "unsubscribe", "subscribed", "unsubscribed", "failed", "event"} :
              /\ ~Carries(toServer, t, e) /\ ~Carries(handling, t, e)
              /\ ~Carries(toClient, t, e) /\ ~Carries(notificationQueue, t, e)
         /\ e \notin eventSubscriptions /\ e \notin reconciling /\ e \notin subscribedEvents
  <1>1. \A q \in {toServer, toClient, handling, notificationQueue} : \A i \in DOMAIN q : ~About(q[i], e)
    BY DEF Quiet
  <1>2. \A t \in {"subscribe", "unsubscribe", "subscribed", "unsubscribed", "failed", "event"} :
              /\ ~Carries(toServer, t, e) /\ ~Carries(handling, t, e)
              /\ ~Carries(toClient, t, e) /\ ~Carries(notificationQueue, t, e)
    BY <1>1 DEF Carries, Is, About
  <1>3. Belief(e) /\ e \notin subscribedEvents /\ e \notin reconciling
    BY SettingIs DEF Beliefs, Quiet
  <1> QED BY <1>2, <1>3 DEF Belief, Unbelieved, Acknowledged

LEMMA NothingPosted ==
  ASSUME NEW q, NEW e, ~Carries(q, "event", e), ~Carries(q, "subscribed", e)
  PROVE  Post(q, e) = {} /\ InLine(q, e)
  <1>1. Post(q, e) = {}
    BY SaysAre DEF Post
  <1>2. InLine(q, e)
    BY DEF InLine, Sorted, Carries
  <1> QED BY <1>1, <1>2

(* The first listener of an event: it is promised everything from where it *)
(* starts.                                                                 *)
LEMMA StartKeepsPromise ==
  ASSUME Setting, Types', NEW e \in Promised, ~Wanted(e), Kept(e)',
         On(e) \/ \E r \in Revision : OnFrom(e, r)
  PROVE  Promise(e)'
  <1>1. /\ Types /\ FeedTypes /\ e \in Event /\ e \in Wire /\ toServer \in Seq(Request) /\ Started(e)
        /\ Head1.rev \in Nat /\ FeedTypes'
    <2>1. Next
      BY PromisedAre DEF Next, Application
    <2> QED BY <2>1, SettingIs, PromisedAre, StartedIs, NextKeepsFeedTypes
  <1>2. /\ UNCHANGED <<journal, attached, eventSubscriptions, handling, toClient, connected, releases,
                        notificationQueue, cursor, occurred, subscribedEvents, tracked>>
        /\ \/ e \in reconciling
           \/ e \in Wire /\ e \notin reconciling /\ Turn(e)
        /\ cursor' \in Position /\ eventCursors' \in [Event -> Stamps]
        /\ Reattaching' <=> Reattaching
    BY <1>1, ListenerReconciles
  <1>3. /\ \A t \in {"subscribe", "unsubscribe", "subscribed", "unsubscribed", "failed", "event"} :
              /\ ~Carries(toServer, t, e) /\ ~Carries(handling, t, e)
              /\ ~Carries(toClient, t, e) /\ ~Carries(notificationQueue, t, e)
        /\ e \notin eventSubscriptions /\ e \notin reconciling /\ e \notin subscribedEvents
    BY <1>1, QuietIs DEF Started
  <1>4. Rested(e) \/ \E m : Requested(e, m)
    BY <1>1, <1>2, <1>3, TurnAsks
  <1>5. Reached(e)' = from'[e] /\ Head1' = Head1
    BY <1>1, <1>2 DEF Started, Reached, Head1
  <1>6. Served(e)'
    <2>1. ToSet(heard'[e]) = {}
      BY <1>1 DEF Started, ToSet
    <2>2. \A r \in Due(e)' : r \in Nat /\ r > from'[e]
      BY <1>1, ReachedIs DEF Due, FeedTypes, Revision
    <2>3. {r \in Due(e)' : r <= from'[e]} = {}
      BY <1>1, <2>2 DEF Started
    <2>4. {r \in Due(e)' : r <= 0} = {}
      BY <1>1, <2>2 DEF Started
    <2> QED BY <1>1, <1>2, <1>5, <2>1, <2>3, <2>4 DEF Served, Started
  <1>7. /\ Says(toServer', "unsubscribe", e) = {}
        /\ \A m \in Says(toServer', "subscribe", e) : m.after = Cursor(Head1.gen, from'[e])
        /\ connected => e \in reconciling'
    <2>1. Says(toServer, "unsubscribe", e) = {} /\ Says(toServer, "subscribe", e) = {}
      BY <1>3, SaysAre
    <2>2. listeners'[e] > 0
      BY DEF Kept, Wanted
    <2>3. CASE Rested(e)
      BY <1>2, <1>3, <2>1, <2>2, <2>3 DEF Rested
    <2>4. CASE \E m : Requested(e, m)
      <3>1. PICK m : Requested(e, m)
        BY <2>4
      <3>2. /\ m \in Request /\ toServer' = Append(toServer, m) /\ m.after = ResumedFrom(e)
            /\ e \in reconciling' /\ Is(m, "subscribe", e) /\ ~Is(m, "unsubscribe", e)
        BY <2>2, <3>1 DEF Requested, Is
      <3>3. /\ Says(toServer', "subscribe", e) = Says(toServer, "subscribe", e) \cup {m}
            /\ Says(toServer', "unsubscribe", e) = Says(toServer, "unsubscribe", e)
        BY <1>1, <3>2, SaysAppended
      <3> QED BY <1>1, <2>1, <3>2, <3>3 DEF Started
    <2> QED BY <1>4, <2>3, <2>4
  <1>8. Steady(e)'
    BY <1>2, <1>3, <1>7, SaysAre DEF Steady, Ending, Withdrawn
  <1>9. Pending(e)'
    <2>1. \A m \in Pleas(e)' : m.after = Cursor(Head1.gen, from'[e])
      BY <1>2, <1>3, <1>7, SaysAre DEF Pleas
    <2>2. /\ Post(toClient, e) = {} /\ InLine(toClient, e)
          /\ Post(notificationQueue, e) = {} /\ InLine(notificationQueue, e)
      BY <1>3, NothingPosted
    <2> QED BY <1>2, <1>3, <1>5, <2>1, <2>2 DEF Pending, InLine, Across
  <1> QED BY <1>6, <1>8, <1>9 DEF Promise

-----------------------------------------------------------------------------
(* The connection is lost, and found again.                                *)
LEMMA DisconnectKeepsPromise ==
  ASSUME Setting, NEW e \in Promised, Promise(e), Disconnect
  PROVE  Promise(e)'
  <1>1. /\ connected' = FALSE /\ toServer' = <<>> /\ toClient' = <<>> /\ handling' = <<>>
        /\ eventSubscriptions' = {} /\ notificationQueue' = <<>>
        /\ UNCHANGED <<journal, releases, cursor, eventCursors, occurred, from, heard, resolved>>
    BY DEF Disconnect, DropConnection
  <1>2. Reached(e)' = Reached(e) /\ Due(e)' = Due(e) /\ Head1' = Head1
    BY <1>1 DEF Reached, Due, Head1
  <1>3. Served(e)'
    BY <1>1, <1>2 DEF Promise, Served
  <1>4. Steady(e)'
    BY <1>1, NothingHeld DEF Steady, Ending, Withdrawn
  <1>5. Pending(e)'
    <2>1. Pleas(e)' = {}
      BY <1>1, NothingSaid DEF Pleas
    <2> QED BY <1>1, <2>1, NothingSaid DEF Pending, Across, InLine
  <1> QED BY <1>3, <1>4, <1>5 DEF Promise

LEMMA ReconnectKeepsPromise ==
  ASSUME Setting, NEW e \in Promised, Promise(e), Reconnect
  PROVE  Promise(e)'
  <1>1. /\ Types /\ FeedTypes /\ e \in Event /\ tracked /\ Head1.rev \in Nat
    BY SettingIs, PromisedAre, NeverReleased DEF Promise, Served
  <1>2. /\ UNCHANGED <<journal, handling, eventSubscriptions, toClient, releases, cursor, eventCursors,
                       notificationQueue, occurred, from, heard, resolved>>
        /\ toServer' = <<[type |-> "attach"]>> /\ ~connected
    BY <1>1 DEF Reconnect, server, proxy, feed
  <1>3. toServer = <<>>
    BY <1>2, SettingIs DEF Link, Silent
  <1>4. Reattaching'
    BY <1>2 DEF Reattaching, Asked, Has
  <1>5. /\ Says(toServer', "subscribe", e) = {} /\ ~Carries(toServer', "unsubscribe", e)
    BY <1>2 DEF Says, Is, ToSet, Carries
  <1>6. /\ ~Ending(e)' /\ ~Withdrawn(e)' /\ Pleas(e)' \subseteq Pleas(e)
    BY <1>2, <1>5 DEF Ending, Withdrawn, Pleas, Promise, Steady
  <1>7. /\ Post(toClient, e)' = Post(toClient, e) /\ Post(notificationQueue, e)' = Post(notificationQueue, e)
        /\ InLine(toClient, e) => InLine(toClient, e)'
        /\ InLine(notificationQueue, e) => InLine(notificationQueue, e)'
    BY <1>2 DEF InLine
  <1>8. Head1' = Head1 /\ Head1'.rev \in Nat /\ Head1.rev <= Head1'.rev
    BY <1>1, <1>2, SettingIs DEF Head1
  <1> QED BY <1>1, <1>2, <1>4, <1>6, <1>7, <1>8, PromiseKept

(* A feed that has not lapsed goes on, or starts.                          *)
LEMMA KeptStill ==
  ASSUME Setting, NEW e \in Promised, Next, Kept(e)'
  PROVE  /\ ~Release /\ ~Restart
         /\ Kept(e) \/ (~Wanted(e) /\ (On(e) \/ \E r \in Revision : OnFrom(e, r)))
  <1>1. /\ Types /\ FeedTypes /\ e \in Event
    BY SettingIs, PromisedAre
  <1>2. ~Release
    BY <1>1 DEF Release, Kept, Wanted
  <1>3. ~Restart
    <2>1. Restart => "foreign" \in lapse'[e]
      BY <1>1 DEF Restart
    <2> QED BY <2>1 DEF Kept
  <1>4. CASE \E f \in Event : On(f) \/ \E r \in Revision : OnFrom(f, r)
    <2>1. PICK f \in Event : On(f) \/ \E r \in Revision : OnFrom(f, r)
      BY <1>4
    <2>2. PICK rev, lapses : Starts(f, rev, lapses)
      BY <1>1, <2>1, OnStarts, OnFromStarts
    <2>3. f # e => listeners'[e] = listeners[e] /\ lapse'[e] = lapse[e]
      BY <1>1, <2>1, <2>2, PropertiesOfTypes DEF On, OnFrom, Starts, FeedTypes
    <2>4. f = e /\ Wanted(e) => lapse[e] = {}
      <3>1. f = e /\ Wanted(e) => lapse'[e] = lapse[e] \cup lapses
        BY <1>1, <2>2 DEF Starts, FeedTypes
      <3> QED BY <3>1 DEF Kept
    <2> QED BY <1>2, <1>3, <2>1, <2>3, <2>4 DEF Kept, Wanted
  <1>5. CASE \E f \in Event : Off(f)
    <2>1. PICK f \in Event : Off(f)
      BY <1>5
    <2>2. listeners' = [listeners EXCEPT ![f] = @ - 1] /\ lapse' = lapse
      BY <2>1 DEF Off, feed
    <2>3. listeners[e] \in Nat
      BY <1>1, PropertiesOfTypes, EventSubscriptionAssumption
    <2>4. listeners'[e] = listeners[e] \/ listeners'[e] = listeners[e] - 1
      BY <1>1, <2>2, PropertiesOfTypes
    <2> QED BY <1>2, <1>3, <2>2, <2>3, <2>4 DEF Kept, Wanted
  <1>6. CASE ReceiveFailed
    <2>1. listeners' = listeners /\ (lapse'[e] = lapse[e] \/ \E x : lapse'[e] = lapse[e] \cup x)
      BY <1>1, <1>6 DEF ReceiveFailed, FeedTypes
    <2> QED BY <1>2, <1>3, <2>1 DEF Kept, Wanted
  <1>7. CASE ReceiveAttached
    <2>1. listeners' = listeners /\ (lapse'[e] = lapse[e] \/ \E x : lapse'[e] = lapse[e] \cup x)
      BY <1>1, <1>7 DEF ReceiveAttached, FeedTypes
    <2> QED BY <1>2, <1>3, <2>1 DEF Kept, Wanted
  <1>8. CASE ProcessNotification
    <2>1. listeners' = listeners /\ lapse' = lapse
      BY <1>1, <1>8, ProcessOutcome, QueueTakes DEF Ignored, Noticed, Applied, Confirmed, feed
    <2> QED BY <1>2, <1>3, <2>1 DEF Kept, Wanted
  <1>9. CASE \/ \E f \in Event : EmitEvent(f)
             \/ Modify \/ Server \/ ReceiveNotification \/ ReceiveSubscribed \/ ReceiveUnsubscribed
             \/ Attach \/ Disconnect \/ Reconnect
    <2>1. listeners' = listeners /\ lapse' = lapse
      BY <1>9 DEF EmitEvent, Modify, Server, ReceiveRequest, Finishing, FinishSubscribe, FinishUnsubscribe,
                  FinishAttach, FinishDetach, ReceiveNotification, ReceiveSubscribed, ReceiveUnsubscribed,
                  Attach, Disconnect, DropConnection, Reconnect, proxy, feed
    <2> QED BY <1>2, <1>3, <2>1 DEF Kept, Wanted
  <1> QED BY <1>2, <1>3, <1>4, <1>5, <1>6, <1>7, <1>8, <1>9 DEF Next, Client, Application

LEMMA NextKeepsPromises ==
  ASSUME Setting, Types', Promises, Next
  PROVE  Promises'
  <1> SUFFICES ASSUME NEW e \in Promised, Kept(e)' PROVE Promise(e)'
    BY DEF Promises, Promised
  <1>1. /\ ~Release /\ ~Restart
        /\ Kept(e) \/ (~Wanted(e) /\ (On(e) \/ \E r \in Revision : OnFrom(e, r)))
    BY KeptStill
  <1>2. CASE ~Kept(e)
    BY <1>1, <1>2, StartKeepsPromise
  <1>3. CASE Kept(e)
    <2>0. Promise(e) /\ e \in Event
      BY <1>3, PromisedAre DEF Promises
    <2>1. CASE \E f \in Event : EmitEvent(f)
      BY <2>0, <2>1, OtherChangeKeepsPromise, OccurrenceKeepsPromise
    <2>2. CASE Modify
      BY <2>0, <2>2, OtherChangeKeepsPromise
    <2>3. CASE Server
      BY <2>0, <2>3, RequestKeepsPromise, SubscribeKeepsPromise, FinishKeepsPromise DEF Server
    <2>4. CASE Client
      BY <1>3, <2>0, <2>4, QueueingKeepsPromise, UnsubscribedKeepsPromise, FailedKeepsPromise,
         AttachedKeepsPromise, ProcessKeepsPromise DEF Client
    <2>5. CASE \E f \in Event : On(f) \/ Off(f) \/ \E r \in Revision : OnFrom(f, r)
      <3>1. PICK f \in Event : On(f) \/ Off(f) \/ \E r \in Revision : OnFrom(f, r)
        BY <2>5
      <3>2. CASE f = e
        BY <1>3, <2>0, <3>1, <3>2, MoreListenersKeepPromise
      <3>3. CASE f # e
        BY <2>0, <3>1, <3>3, OtherListenerKeepsPromise
      <3> QED BY <3>2, <3>3
    <2>6. CASE Attach
      <3>1. tracked
        BY <2>0, NeverReleased DEF Promise, Served
      <3> QED BY <2>6, <3>1 DEF Attach
    <2>7. CASE Disconnect \/ Reconnect
      BY <2>0, <2>7, DisconnectKeepsPromise, ReconnectKeepsPromise
    <2> QED BY <1>1, <2>1, <2>2, <2>3, <2>4, <2>5, <2>6, <2>7 DEF Next, Application
  <1> QED BY <1>2, <1>3

LEMMA StutterKeepsPromises == Promises /\ UNCHANGED vars => Promises'
  <1> SUFFICES ASSUME Promises, UNCHANGED vars, NEW e \in Promised, Kept(e)' PROVE Promise(e)'
    BY DEF Promises, Promised
  <1>1. /\ UNCHANGED <<journal, attached, eventSubscriptions, handling, toServer, toClient, connected, sessions,
                       releases, tracked, cursor, eventCursors, listeners, subscribedEvents, reconciling,
                       notificationQueue, occurred, from, heard, lapse, resolved>>
    BY DEF vars, server, session, proxy, feed
  <1>2. Promise(e)
    BY <1>1 DEF Promises, Kept, Wanted
  <1>3. Reached(e)' = Reached(e) /\ Due(e)' = Due(e) /\ Head1' = Head1
    BY <1>1 DEF Reached, Due, Head1
  <1>4. Served(e)'
    BY <1>1, <1>2, <1>3 DEF Promise, Served
  <1>5. Steady(e)'
    BY <1>1, <1>2 DEF Promise, Steady, Ending, Withdrawn, Reattaching, Asked, Told
  <1>6. Placed(e) => Pending(e)'
    BY <1>1, <1>2, <1>3 DEF Promise, Pending, Pleas, Mail, InLine, Across
  <1>7. Placed(e)' => Placed(e)
    BY <1>1 DEF Placed, Reattaching, Asked, Told
  <1> QED BY <1>4, <1>5, <1>6, <1>7 DEF Promise

LEMMA InitPromises == Init => Promises
  <1> SUFFICES ASSUME Init, NEW e \in Promised, Kept(e) PROVE FALSE
    BY DEF Promises
  <1>1. listeners[e] = 0
    BY PromisedAre DEF Init
  <1> QED BY <1>1 DEF Kept, Wanted

(* What a feed that has not lapsed is promised is given, on its way in     *)
(* order, or asked for: subscribe's cursor, the page loop, the queue of    *)
(* notifications and applyEvent's check, whatever session they are of.     *)
THEOREM PromisesInvariance == Spec => []Promises
  <1>1. Init => Promises
    BY InitPromises
  <1>2. Setting /\ Types' /\ Promises /\ [Next]_vars => Promises'
    BY NextKeepsPromises, StutterKeepsPromises
  <1> QED BY <1>1, <1>2, SettingInvariance, TypesInvariance, PTL DEF Spec

-----------------------------------------------------------------------------
(* What the listener can tell.                                             *)

LEMMA PromisesCatchUp == Setting /\ Promises => CaughtUp
  <1> SUFFICES ASSUME Setting, Promises, AtRest,
                      NEW e \in Promised, e \in subscribedEvents, Wanted(e), lapse[e] = {}
               PROVE  ToSet(heard[e]) = Due(e)
    BY DEF CaughtUp
  <1>1. /\ connected /\ toServer = <<>> /\ toClient = <<>> /\ handling = <<>> /\ notificationQueue = <<>>
    BY DEF AtRest
  <1>2. Promise(e) /\ e \in Event /\ FeedTypes
    BY PromisedAre, SettingIs DEF Promises, Kept
  <1>3. ~Reattaching /\ ~Withdrawn(e)
    BY <1>1, NothingHeld DEF Reattaching, Asked, Told, Withdrawn
  <1>4. e \in eventSubscriptions
    BY <1>1, <1>2, <1>3, SettingIs DEF Beliefs, Belief, Believed
  <1>5. Pending(e)
    BY <1>1, <1>2, <1>3 DEF Promise, Placed
  <1>6. Revs(Mail(e), e) = {}
    <2>1. Mail(e) = {}
      BY <1>1, NothingSaid DEF Mail
    <2> QED BY <2>1 DEF Revs
  <1>7. {r \in occurred[e] : r > Reached(e)} = {}
    BY <1>4, <1>5, <1>6 DEF Pending
  <1>8. Reached(e) \in Nat /\ occurred[e] \subseteq Nat
    BY <1>2, ReachedIs
  <1>9. \A r \in Due(e) : r <= Reached(e)
    BY <1>7, <1>8 DEF Due
  <1> QED BY <1>2, <1>9 DEF Promise, Served

(* At rest the listener of a promised event was given every occurrence     *)
(* after where it started, by replay or live, across reconnects: subscribe *)
(* with its cursor, the page loop of epRequestSubscribe, applyEvent.       *)
THEOREM CaughtUpAlways == Spec => []CaughtUp
  BY SettingInvariance, PromisesInvariance, PromisesCatchUp, PTL

LEMMA PromisesAreResolved == Setting /\ Promises => ResolvedMeansReplayed
  <1> SUFFICES ASSUME Setting, Promises, NEW e \in Promised, Wanted(e), lapse[e] = {}
               PROVE  {r \in Due(e) : r <= resolved[e]} \subseteq ToSet(heard[e])
    BY DEF ResolvedMeansReplayed
  <1> QED BY DEF Promises, Kept, Promise, Served

(* When subscribe() is answered, what occurred before has reached the      *)
(* listener: the reply waits its turn behind the notifications.            *)
THEOREM ResolvedMeansReplayedAlways == Spec => []ResolvedMeansReplayed
  BY SettingInvariance, PromisesInvariance, PromisesAreResolved, PTL

-----------------------------------------------------------------------------
(* The feed that module EventFeed promises is implemented.                 *)

LEMMA FeedStarts == Init => Feed!Init
  <1> SUFFICES ASSUME Init PROVE Feed!Init
    OBVIOUS
  <1>1. \A e \in Promised : e \in Event
    BY PromisedAre
  <1>2. \A e \in Promised : occurred[e] = {} /\ from[e] = 0 /\ heard[e] = <<>> /\ lapse[e] = {} /\ ~Wanted(e)
    BY <1>1 DEF Init, Wanted
  <1> QED BY <1>2 DEF Feed!Init

(* The feeds are what they were.                                           *)
LEMMA FeedStutters ==
  ASSUME \A e \in Promised : /\ occurred'[e] = occurred[e] /\ from'[e] = from[e] /\ heard'[e] = heard[e]
                             /\ lapse'[e] = {} <=> lapse[e] = {}
                             /\ listeners'[e] > 0 <=> listeners[e] > 0
  PROVE  UNCHANGED Feed!vars
  BY DEF Feed!vars, Wanted

(* An event occurs.                                                        *)
LEMMA OccurrenceIsOccur ==
  ASSUME Setting, NEW e \in Event, EmitEvent(e)
  PROVE  Feed!Next \/ UNCHANGED Feed!vars
  <1> DEFINE r == journal'.head.rev
  <1>1. /\ UNCHANGED <<from, heard, lapse, listeners>>
        /\ occurred' = [occurred EXCEPT ![e] = @ \cup {r}]
        /\ FeedTypes /\ Types
    BY SettingIs DEF EmitEvent, proxy
  <1>2. r = Head1.rev + 1 /\ Head1.rev \in Nat /\ r \in Revision
    BY <1>1, HeadMoves, NumbersAre
  <1> HIDE DEF r
  <1>3. CASE e \notin Promised
    <2>1. \A f \in Promised : occurred'[f] = occurred[f]
      BY <1>1, <1>3, PromisedAre DEF FeedTypes
    <2> QED BY <1>1, <2>1, FeedStutters
  <1>4. CASE e \in Promised
    <2>1. \A f \in Promised : \A s \in occurred[f] : s < r
      <3> SUFFICES ASSUME NEW f \in Promised, NEW s \in occurred[f] PROVE s < r
        OBVIOUS
      <3>1. s <= Head1.rev /\ s \in Nat
        BY <1>1, SettingIs, PromisedAre, ReachedIs, NumbersAre DEF Chronicle
      <3> QED BY <1>2, <3>1
    <2>2. [f \in Promised |-> occurred'[f]]
            = [[f \in Promised |-> occurred[f]] EXCEPT ![e] = @ \cup {r}]
      BY <1>1, <1>4, PromisedAre DEF FeedTypes
    <2>3. Feed!Occur(e)
      BY <1>1, <1>2, <2>1, <2>2 DEF Feed!Occur, Wanted
    <2> QED BY <1>4, <2>3 DEF Feed!Next
  <1> QED BY <1>3, <1>4

(* Listeners leave.                                                        *)
LEMMA FeedLeaves ==
  ASSUME \A e \in Promised : /\ occurred'[e] = occurred[e] /\ from'[e] = from[e] /\ heard'[e] = heard[e]
                             /\ lapse'[e] = {} <=> lapse[e] = {}
                             /\ listeners'[e] > 0 => listeners[e] > 0
  PROVE  Feed!Leave
  <1> DEFINE now == {e \in Promised : listeners[e] > 0}
             then == {e \in Promised : listeners'[e] > 0}
             es == now \ then
  <1>1. es \in SUBSET now /\ then = now \ es
    OBVIOUS
  <1>2. /\ [e \in Promised |-> occurred'[e]] = [e \in Promised |-> occurred[e]]
        /\ [e \in Promised |-> from'[e]] = [e \in Promised |-> from[e]]
        /\ [e \in Promised |-> heard'[e]] = [e \in Promised |-> heard[e]]
        /\ {e \in Promised : lapse'[e] # {}} = {e \in Promised : lapse[e] # {}}
    OBVIOUS
  <1> HIDE DEF es
  <1> QED BY <1>1, <1>2 DEF Feed!Leave, Wanted

(* Feeds lapse.                                                            *)
LEMMA FeedLapses ==
  ASSUME \A e \in Promised : /\ occurred'[e] = occurred[e] /\ from'[e] = from[e] /\ heard'[e] = heard[e]
                             /\ lapse'[e] = {} => lapse[e] = {}
                             /\ listeners'[e] > 0 <=> listeners[e] > 0
  PROVE  Feed!Lapse
  <1> DEFINE now == {e \in Promised : lapse[e] # {}}
             then == {e \in Promised : lapse'[e] # {}}
  <1>1. then = now \cup then /\ then \in SUBSET Promised
    OBVIOUS
  <1>2. /\ [e \in Promised |-> occurred'[e]] = [e \in Promised |-> occurred[e]]
        /\ [e \in Promised |-> from'[e]] = [e \in Promised |-> from[e]]
        /\ [e \in Promised |-> heard'[e]] = [e \in Promised |-> heard[e]]
        /\ {e \in Promised : listeners'[e] > 0} = {e \in Promised : listeners[e] > 0}
    OBVIOUS
  <1>3. \E es \in SUBSET Promised : then = now \cup es
    BY <1>1
  <1> QED BY <1>2, <1>3 DEF Feed!Lapse, Wanted

(* The feed of an event starts anew.                                       *)
LEMMA FeedJoins ==
  ASSUME NEW e \in Promised, ~Wanted(e), listeners'[e] > 0, from'[e] \in Revision, heard'[e] = <<>>,
         occurred' = occurred,
         \A f \in Promised : f # e => /\ from'[f] = from[f] /\ heard'[f] = heard[f]
                                      /\ lapse'[f] = {} <=> lapse[f] = {}
                                      /\ listeners'[f] > 0 <=> listeners[f] > 0
  PROVE  Feed!Join(e)
  <1> DEFINE listening == {f \in Promised : listeners[f] > 0}
             lapsed == {f \in Promised : lapse[f] # {}}
  <1>1. e \notin listening
    BY DEF Wanted
  <1>2. {f \in Promised : listeners'[f] > 0} = listening \cup {e}
    OBVIOUS
  <1>3. [f \in Promised |-> from'[f]] = [[f \in Promised |-> from[f]] EXCEPT ![e] = from'[e]]
    OBVIOUS
  <1>4. [f \in Promised |-> heard'[f]] = [[f \in Promised |-> heard[f]] EXCEPT ![e] = <<>>]
    OBVIOUS
  <1>5. {f \in Promised : lapse'[f] # {}} \in {lapsed \ {e}, lapsed \cup {e}}
    <2>1. CASE lapse'[e] = {}
      <3>1. {f \in Promised : lapse'[f] # {}} = lapsed \ {e}
        BY <2>1
      <3> QED BY <3>1
    <2>2. CASE lapse'[e] # {}
      <3>1. {f \in Promised : lapse'[f] # {}} = lapsed \cup {e}
        BY <2>2
      <3> QED BY <3>1
    <2> QED BY <2>1, <2>2
  <1>6. \E r \in Revision : [f \in Promised |-> from'[f]] = [[f \in Promised |-> from[f]] EXCEPT ![e] = r]
    BY <1>3
  <1> HIDE DEF listening, lapsed
  <1> QED BY <1>1, <1>2, <1>4, <1>5, <1>6 DEF Feed!Join, Wanted, listening, lapsed

(* The listener of an event is given an occurrence.                        *)
LEMMA FeedHears ==
  ASSUME NEW e \in Promised, Wanted(e), NEW r \in Revision,
         heard' = [heard EXCEPT ![e] = Append(heard[e], r)], heard \in [Event -> Seq(Revision)],
         UNCHANGED <<occurred, from, lapse, listeners>>,
         lapse[e] = {} => /\ r \in occurred[e] /\ r > Reached(e)
                          /\ \A s \in occurred[e] : s > Reached(e) => r <= s
  PROVE  Feed!Hear(e)
  <1>1. [f \in Promised |-> heard'[f]]
          = [[f \in Promised |-> heard[f]] EXCEPT ![e] = Append(heard[e], r)]
    BY PromisedAre
  <1>2. Feed!Last(e) = Reached(e)
    BY DEF Feed!Last, Reached
  <1>3. lapse[e] # {} \/ Feed!IsNext(r, e)
    BY <1>2 DEF Feed!IsNext, Feed!Unheard
  <1> QED BY <1>1, <1>3 DEF Feed!Hear, Wanted

LEMMA ListenerMovesFeed ==
  ASSUME Setting, Types', NEW f \in Event, On(f) \/ \E r \in Revision : OnFrom(f, r)
  PROVE  Feed!Next \/ UNCHANGED Feed!vars
  <1>1. Types /\ FeedTypes /\ occurred' = occurred /\ listeners' = [listeners EXCEPT ![f] = @ + 1]
    BY SettingIs DEF On, OnFrom
  <1>2. PICK rev \in Revision, lapses \in SUBSET Lapses : Starts(f, rev, lapses)
    BY <1>1, OnStarts, OnFromStarts, CursorsArePositions
  <1>3. \A e \in Event : e # f => /\ from'[e] = from[e] /\ heard'[e] = heard[e] /\ lapse'[e] = lapse[e]
                                 /\ listeners'[e] = listeners[e]
    BY <1>1, <1>2, PropertiesOfTypes DEF Starts, FeedTypes
  <1>4. listeners'[f] > 0
    <2>1. listeners[f] \in Nat /\ listeners'[f] = listeners[f] + 1
      BY <1>1, PropertiesOfTypes, EventSubscriptionAssumption
    <2> QED BY <2>1
  <1>5. CASE f \notin Promised
    <2>1. \A e \in Promised : e \in Event /\ e # f
      BY <1>5, PromisedAre
    <2> QED BY <1>1, <1>3, <2>1, FeedStutters
  <1>6. CASE f \in Promised /\ Wanted(f)
    <2>1. from'[f] = from[f] /\ heard'[f] = heard[f] /\ lapse'[f] = lapse[f] \cup lapses
      BY <1>1, <1>2, <1>6 DEF Starts, FeedTypes
    <2>2. \A e \in Promised : /\ occurred'[e] = occurred[e] /\ from'[e] = from[e] /\ heard'[e] = heard[e]
                              /\ lapse'[e] = {} => lapse[e] = {}
                              /\ listeners'[e] > 0 <=> listeners[e] > 0
      <3> SUFFICES ASSUME NEW e \in Promised
                   PROVE  /\ occurred'[e] = occurred[e] /\ from'[e] = from[e] /\ heard'[e] = heard[e]
                          /\ lapse'[e] = {} => lapse[e] = {}
                          /\ listeners'[e] > 0 <=> listeners[e] > 0
        OBVIOUS
      <3>1. CASE e = f
        BY <1>1, <1>4, <1>6, <2>1, <3>1 DEF Wanted
      <3>2. CASE e # f
        BY <1>1, <1>3, <3>2, PromisedAre
      <3> QED BY <3>1, <3>2
    <2> QED BY <2>2, FeedLapses DEF Feed!Next
  <1>7. CASE f \in Promised /\ ~Wanted(f)
    <2>1. from'[f] = rev /\ heard'[f] = <<>>
      BY <1>1, <1>2, <1>7 DEF Starts, FeedTypes
    <2>2. \A e \in Promised : e # f => /\ from'[e] = from[e] /\ heard'[e] = heard[e]
                                       /\ lapse'[e] = {} <=> lapse[e] = {}
                                       /\ listeners'[e] > 0 <=> listeners[e] > 0
      BY <1>3, PromisedAre
    <2>3. Feed!Join(f)
      BY <1>1, <1>2, <1>4, <1>7, <2>1, <2>2, FeedJoins
    <2> QED BY <1>7, <2>3 DEF Feed!Next
  <1> QED BY <1>5, <1>6, <1>7

LEMMA ProcessMovesFeed ==
  ASSUME Setting, Promises, ProcessNotification
  PROVE  Feed!Next \/ UNCHANGED Feed!vars
  <1> DEFINE m == Head(notificationQueue)
             r == m.cursor.rev
  <1>1. /\ Types /\ FeedTypes /\ listeners' = listeners /\ notificationQueue # <<>>
        /\ m \in Current
        /\ Ignored(m) \/ Noticed(m) \/ Applied(m) \/ Confirmed(m)
    BY SettingIs, QueueTakes, ProcessOutcome, StampsAre
  <1>2. CASE Ignored(m) \/ Noticed(m) \/ Confirmed(m)
    <2>1. UNCHANGED <<occurred, from, heard, lapse>>
      BY <1>2 DEF Ignored, Noticed, Confirmed, feed
    <2> QED BY <1>1, <2>1, FeedStutters
  <1>3. CASE Applied(m)
    <2>1. /\ m.type = "event" /\ UNCHANGED <<occurred, from, lapse>>
          /\ heard' = IF Wanted(m.event) THEN [heard EXCEPT ![m.event] = Append(heard[m.event], r)] ELSE heard
      BY <1>3 DEF Applied
    <2>2. r \in Revision
      <3> HIDE DEF m
      <3> QED BY <1>1, <2>1, SettingIs, StampsAre, NumbersAre
    <2>3. CASE Wanted(m.event) /\ m.event \in Promised
      <3>1. lapse[m.event] = {} => /\ r \in occurred[m.event] /\ r > Reached(m.event)
                                   /\ \A s \in occurred[m.event] : s > Reached(m.event) => r <= s
        BY <1>1, <2>1, <2>3, HeadIsNext DEF Promises, Kept, Is
      <3>2. heard' = [heard EXCEPT ![m.event] = Append(heard[m.event], r)] /\ heard \in [Event -> Seq(Revision)]
        BY <1>1, <2>1, <2>3 DEF FeedTypes
      <3> HIDE DEF m, r
      <3>3. PICK e \in Promised, k \in Revision : e = m.event /\ k = r
        BY <2>2, <2>3
      <3>4. /\ heard' = [heard EXCEPT ![e] = Append(heard[e], k)] /\ Wanted(e)
            /\ lapse[e] = {} => /\ k \in occurred[e] /\ k > Reached(e)
                                /\ \A s \in occurred[e] : s > Reached(e) => k <= s
        BY <2>3, <3>1, <3>2, <3>3
      <3>5. Feed!Hear(e)
        BY <1>1, <2>1, <3>2, <3>4, FeedHears
      <3> QED BY <3>5 DEF Feed!Next
    <2>4. CASE ~(Wanted(m.event) /\ m.event \in Promised)
      <3> HIDE DEF m, r
      <3>1. \A e \in Promised : heard'[e] = heard[e]
        BY <1>1, <2>1, <2>4, PromisedAre DEF FeedTypes
      <3> QED BY <1>1, <2>1, <3>1, FeedStutters
    <2> QED BY <2>3, <2>4
  <1> QED BY <1>1, <1>2, <1>3

LEMMA NextMovesFeed ==
  ASSUME Setting, Types', Promises, Next
  PROVE  Feed!Next \/ UNCHANGED Feed!vars
  <1>0. Types /\ FeedTypes /\ \A e \in Promised : e \in Event
    BY SettingIs, PromisedAre
  <1>1. CASE \E e \in Event : EmitEvent(e)
    BY <1>1, OccurrenceIsOccur
  <1>2. CASE \E e \in Event : On(e) \/ \E r \in Revision : OnFrom(e, r)
    BY <1>2, ListenerMovesFeed
  <1>3. CASE \E e \in Event : Off(e)
    <2>1. PICK f \in Event : Off(f)
      BY <1>3
    <2>2. listeners' = [listeners EXCEPT ![f] = @ - 1] /\ UNCHANGED <<occurred, from, heard, lapse>>
      BY <2>1 DEF Off, feed
    <2>3. \A e \in Event : listeners[e] \in Nat /\ (listeners'[e] = listeners[e] \/ listeners'[e] = listeners[e] - 1)
      BY <1>0, <2>2, PropertiesOfTypes, EventSubscriptionAssumption
    <2>4. \A e \in Event : listeners'[e] > 0 => listeners[e] > 0
      BY <2>3
    <2>5. Feed!Leave
      BY <1>0, <2>2, <2>4, FeedLeaves
    <2> QED BY <2>5 DEF Feed!Next
  <1>4. CASE Release
    <2>1. \A e \in Event : ~(listeners'[e] > 0)
      BY <1>4 DEF Release
    <2>2. UNCHANGED <<occurred, from, heard, lapse>>
      BY <1>4 DEF Release, feed
    <2>3. Feed!Leave
      BY <1>0, <2>1, <2>2, FeedLeaves
    <2> QED BY <2>3 DEF Feed!Next
  <1>5. CASE ReceiveFailed \/ ReceiveAttached
    <2>1. UNCHANGED <<occurred, from, heard, listeners>>
      BY <1>5 DEF ReceiveFailed, ReceiveAttached
    <2>2. \A e \in Event : lapse'[e] = {} => lapse[e] = {}
      <3>1. CASE ReceiveFailed
        <4>1. \A e \in Event : lapse'[e] = lapse[e] \/ \E x : lapse'[e] = lapse[e] \cup x
          BY <1>0, <3>1 DEF ReceiveFailed, FeedTypes
        <4> QED BY <4>1
      <3>2. CASE ReceiveAttached
        <4>1. \A e \in Event : lapse'[e] = lapse[e] \/ \E x : lapse'[e] = lapse[e] \cup x
          BY <1>0, <3>2 DEF ReceiveAttached, FeedTypes
        <4> QED BY <4>1
      <3> QED BY <1>5, <3>1, <3>2
    <2>3. Feed!Lapse
      BY <1>0, <2>1, <2>2, FeedLapses
    <2> QED BY <2>3 DEF Feed!Next
  <1>6. CASE Restart
    <2>1. /\ occurred' = [e \in Event |-> {}] /\ lapse' = [e \in Event |-> lapse[e] \cup {"foreign"}]
          /\ UNCHANGED <<from, heard, listeners>>
      BY <1>6 DEF Restart, DropConnection
    <2>2. {e \in Promised : lapse'[e] # {}} = Promised
      BY <1>0, <2>1
    <2>3. [e \in Promised |-> occurred'[e]] = [e \in Promised |-> {}]
      BY <1>0, <2>1
    <2>4. Promised = {e \in Promised : lapse[e] # {}} \cup Promised
      OBVIOUS
    <2>5. \E es \in SUBSET Promised : {e \in Promised : lapse'[e] # {}} = {e \in Promised : lapse[e] # {}} \cup es
      BY <2>2, <2>4
    <2>6. Feed!Lapse
      BY <2>1, <2>2, <2>3, <2>5 DEF Feed!Lapse, Wanted
    <2> QED BY <2>6 DEF Feed!Next
  <1>7. CASE ProcessNotification
    BY <1>7, ProcessMovesFeed
  <1>8. CASE \/ Modify \/ Server \/ ReceiveNotification \/ ReceiveSubscribed \/ ReceiveUnsubscribed
             \/ Attach \/ Disconnect \/ Reconnect
    <2>1. UNCHANGED <<occurred, from, heard, lapse, listeners>>
      BY <1>8 DEF Modify, Server, ReceiveRequest, Finishing, FinishSubscribe, FinishUnsubscribe,
                  FinishAttach, FinishDetach, ReceiveNotification, ReceiveSubscribed, ReceiveUnsubscribed,
                  Attach, Disconnect, DropConnection, Reconnect, proxy, feed
    <2> QED BY <2>1, FeedStutters
  <1> QED BY <1>1, <1>2, <1>3, <1>4, <1>5, <1>6, <1>7, <1>8 DEF Next, Client, Application

(* Everything the listener sees is what module EventFeed promises: every   *)
(* occurrence after where it started, once and in order, unless its feed   *)
(* lapsed; journal, subscription and applyEvent together are that feed.    *)
THEOREM FeedImplemented == Spec => FeedIsImplemented
  <1>1. Init => Feed!Init
    BY FeedStarts
  <1>2. Setting /\ Types' /\ Promises /\ [Next]_vars => [Feed!Next]_Feed!vars
    <2> SUFFICES ASSUME Setting, Types', Promises, [Next]_vars PROVE Feed!Next \/ UNCHANGED Feed!vars
      OBVIOUS
    <2>1. CASE Next
      BY <2>1, NextMovesFeed
    <2>2. CASE UNCHANGED vars
      <3>1. UNCHANGED <<occurred, from, heard, lapse, listeners>>
        BY <2>2 DEF vars, proxy, feed
      <3> QED BY <3>1, FeedStutters
    <2> QED BY <2>1, <2>2
  <1> QED BY <1>1, <1>2, SettingInvariance, TypesInvariance, PromisesInvariance, PTL
          DEF Spec, FeedIsImplemented, Feed!Spec
=============================================================================
