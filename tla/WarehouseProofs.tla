-------------------------- MODULE WarehouseProofs ---------------------------
(***************************************************************************)
(* Proofs about Warehouse, for any resources, links and bounds.            *)
(***************************************************************************)
EXTENDS Warehouse, TLAPS

USE WarehouseAssumption

(* A resource goes by an instance id: in a table, in its instance, or in a *)
(* put that made the instance.                                             *)
Claims(i, r) ==
    \/ resources[i] = r \/ stored[i] = r \/ instance[r].id = i
    \/ \E x \in puts : x.step # "query" /\ x.resource = r /\ x.id = i

(* An id is handed out once.                                               *)
OneClaim == \A i \in Id : \A r, q \in Held : Claims(i, r) /\ Claims(i, q) => r = q

(* The ids above the counter are unused.                                   *)
FreshAbove == \A i \in Id : \A r \in Held : Claims(i, r) => i <= resourceCounter

(* A resource that is not raced is put once, has no instance before its    *)
(* put has made one, and has that one while the put goes on.               *)
CalmPuts ==
    \A x \in puts : x.resource \notin raced =>
        /\ \A y \in puts : y.resource = x.resource => y = x
        /\ x.step = "query" => instance[x.resource] = NoInstance
        /\ x.step = "store" => instance[x.resource].id = x.id

(* RegistryHonest says nothing of the ids to come, nor of what a put that  *)
(* is under way still brings: alone it is not inductive.                   *)
IInv == TypeOK /\ OneClaim /\ FreshAbove /\ CalmPuts /\ RegistryHonest

USE DEF Id, Held

-----------------------------------------------------------------------------
LEMMA InitIInv == Init => IInv
  <1> SUFFICES ASSUME Init PROVE IInv
    OBVIOUS
  <1>0. /\ resourceCounter \in Id /\ resources \in [Id -> Held \cup {None}]
        /\ stored \in [Id -> Resource \cup {None}]
        /\ instance \in [Held -> Instance \cup {NoInstance}]
    <2>1. 1 \in Id /\ Store \in Held /\ [id |-> 1, link |-> None] \in Instance
      BY DEF Instance
    <2> QED BY <2>1 DEF Init
  <1>1. TypeOK
    <2>1. /\ opens \in 0 .. MaxOpen
          /\ opening \in Opening \cup {None} /\ closing = None
      BY DEF Init
    <2>2. opened \in BOOLEAN /\ failed \in BOOLEAN
      BY Zenon DEF Init
    <2>3. puts = {} /\ handling = {} /\ initialized = {} /\ raced = {}
      BY DEF Init
    <2> QED BY <1>0, <2>1, <2>2, <2>3 DEF TypeOK
  <1>2. \A i \in Id : \A r \in Held : Claims(i, r) => r = Store /\ i = 1
    BY DEF Init, Claims, NoInstance
  <1>3. OneClaim /\ FreshAbove
    BY <1>2 DEF OneClaim, FreshAbove, Init
  <1>4. CalmPuts /\ RegistryHonest
    BY DEF Init, CalmPuts, RegistryHonest, NoInstance
  <1> QED BY <1>1, <1>3, <1>4 DEF IInv

(* What claims no more keeps the claims apart.                             *)
LEMMA FewerClaims ==
  ASSUME OneClaim, FreshAbove, resourceCounter' = resourceCounter,
         \A i \in Id : \A r \in Held : Claims(i, r)' => Claims(i, r)
  PROVE  OneClaim' /\ FreshAbove'
  BY DEF OneClaim, FreshAbove

(* A step that leaves the tables and the puts alone.                       *)
LEMMA Elsewhere ==
  ASSUME IInv, UNCHANGED <<tables, puts, raced>>
  PROVE  OneClaim' /\ FreshAbove' /\ CalmPuts' /\ RegistryHonest'
  <1>1. \A i \in Id : \A r \in Held : Claims(i, r)' => Claims(i, r)
    BY DEF Claims, tables
  <1>2. OneClaim' /\ FreshAbove'
    BY <1>1, FewerClaims DEF IInv, tables
  <1>3. CalmPuts'
    BY DEF IInv, CalmPuts, tables
  <1>4. RegistryHonest'
    BY DEF IInv, RegistryHonest, tables
  <1> QED BY <1>2, <1>3, <1>4

(* A put begins: it holds no id yet.                                       *)
LEMMA BeginPutStep ==
  ASSUME IInv, NEW r \in Resource, NEW p \in Path, BeginPut(r, p), UNCHANGED tables
  PROVE  /\ OneClaim' /\ FreshAbove' /\ CalmPuts' /\ RegistryHonest'
         /\ puts' \subseteq Put /\ raced' \subseteq Resource
  <1> DEFINE x == [resource |-> r, link |-> p, step |-> "query"]
  <1>1. x \in Put /\ x.step = "query" /\ x.resource = r
    BY DEF Put
  <1>2. puts' = puts \cup {x} /\ puts \subseteq Put /\ raced \subseteq raced'
    BY DEF BeginPut, IInv, TypeOK
  <1>3. puts' \subseteq Put /\ raced' \subseteq Resource
    BY <1>1, <1>2 DEF BeginPut, IInv, TypeOK
  <1>4. \A i \in Id : \A q \in Held : Claims(i, q)' => Claims(i, q)
    BY <1>1, <1>2 DEF Claims, tables
  <1>5. OneClaim' /\ FreshAbove'
    BY <1>4, FewerClaims DEF IInv, tables
  <1>6. CalmPuts'
    BY <1>1, <1>2 DEF IInv, CalmPuts, BeginPut, tables
  <1>7. RegistryHonest'
    BY <1>1, <1>2 DEF IInv, RegistryHonest, tables
  <1> QED BY <1>3, <1>5, <1>6, <1>7

(* A put makes an instance, under an id that nothing goes by.              *)
LEMMA PutFoundStep ==
  ASSUME IInv, NEW x \in puts, PutFound(x)
  PROVE  IInv'
  <1> DEFINE id == resourceCounter + 1
             r == x.resource
             y == [resource |-> r, link |-> x.link, step |-> "store", id |-> id]
  <1>1. x \in Put /\ x.step = "query" /\ r \in Resource /\ x.link \in Path /\ id \in Id
    BY DEF PutFound, IInv, TypeOK, Put
  <1>2. y \in Put /\ y.resource = r /\ y.step = "store" /\ y.id = id
    BY <1>1 DEF Put
  <1>3. puts' = (puts \ {x}) \cup {y}
    BY DEF PutFound
  <1>4. \A q \in Held : ~Claims(id, q)
    BY <1>1 DEF IInv, FreshAbove, TypeOK
  <1>5. instance[r] = NoInstance \/ r \in raced
    BY <1>1 DEF IInv, CalmPuts
  <1>6. TypeOK'
    BY <1>1, <1>2, <1>3 DEF IInv, TypeOK, PutFound, StorePut, Instance, NoInstance, history
  <1>7. /\ instance'[r].id = id /\ stored'[id] = r
        /\ \A q \in Held : q # r => instance'[q] = instance[q]
        /\ \A i \in Id : i # id => stored'[i] = stored[i]
        /\ resources' = resources /\ resourceCounter' = id /\ raced' = raced
    BY <1>1 DEF IInv, TypeOK, PutFound, StorePut, history
  <1>8. ASSUME NEW i \in Id, NEW q \in Held, Claims(i, q)'
        PROVE  (i = id /\ q = r) \/ (i # id /\ Claims(i, q))
    <2>1. CASE q = r /\ i = id
      BY <2>1
    <2>2. CASE q = r /\ i # id
      BY <1>1, <1>2, <1>3, <1>7, <1>8, <2>2 DEF Claims
    <2>3. CASE q # r
      <3>1. Claims(i, q)
        BY <1>1, <1>2, <1>3, <1>7, <1>8, <2>3 DEF Claims
      <3> QED BY <3>1, <1>4
    <2> QED BY <2>1, <2>2, <2>3
  <1>9. OneClaim' /\ FreshAbove'
    BY <1>7, <1>8, <1>1 DEF IInv, OneClaim, FreshAbove, TypeOK
  <1>10. CalmPuts'
    BY <1>1, <1>2, <1>3, <1>7, <1>5 DEF IInv, CalmPuts, TypeOK, Put
  <1>11. RegistryHonest'
    <2>1. resources[id] \notin Held /\ \A q \in Held : instance[q].id # id
      BY <1>1, <1>4 DEF Claims
    <2>2. r \notin raced => \A i \in Id : instance[r].id # i
      BY <1>5 DEF NoInstance
    <2>3. ASSUME NEW i \in Id, resources'[i] \in Resource \ raced'
          PROVE  instance'[resources'[i]].id = i /\ stored'[i] = resources'[i]
      BY <1>7, <2>1, <2>2, <2>3 DEF IInv, RegistryHonest
    <2>4. ASSUME NEW i \in Id, stored'[i] \in Resource \ raced'
          PROVE  /\ instance'[stored'[i]].id = i
                 /\ \/ resources'[i] = stored'[i]
                    \/ \E z \in puts' : z.step = "store" /\ z.id = i
      <3>1. CASE i = id
        BY <1>2, <1>3, <1>7, <3>1
      <3>2. CASE i # id
        BY <1>1, <1>3, <1>7, <2>2, <2>4, <3>2 DEF IInv, RegistryHonest
      <3> QED BY <3>1, <3>2
    <2>5. ASSUME NEW i \in Id, NEW q \in Resource \ raced', instance'[q].id = i
          PROVE  stored'[i] = q
      BY <1>7, <2>1, <2>5 DEF IInv, RegistryHonest
    <2> QED BY <2>3, <2>4, <2>5 DEF RegistryHonest
  <1> QED BY <1>6, <1>9, <1>10, <1>11 DEF IInv

(* What a put stores, it registers.                                        *)
LEMMA PutStoredStep ==
  ASSUME IInv, NEW x \in puts, PutStored(x)
  PROVE  IInv'
  <1> DEFINE y == [x EXCEPT !.step = "initialize"]
  <1>1. x \in Put /\ x.step = "store" /\ x.resource \in Resource /\ x.id \in Id
    BY DEF PutStored, IInv, TypeOK, Put
  <1>2. y \in Put /\ y.resource = x.resource /\ y.step = "initialize" /\ y.id = x.id
    BY <1>1 DEF Put
  <1>3. puts' = (puts \ {x}) \cup {y} \/ puts' = puts \ {x}
    BY DEF PutStored
  <1>4. /\ resources'[x.id] = x.resource
        /\ \A i \in Id : i # x.id => resources'[i] = resources[i]
        /\ stored' = stored /\ instance' = instance /\ raced' = raced
        /\ resourceCounter' = resourceCounter
    BY <1>1 DEF PutStored, IInv, TypeOK, history
  <1>5. TypeOK'
    BY <1>1, <1>2, <1>3 DEF IInv, TypeOK, PutStored, history
  <1>6. Claims(x.id, x.resource)
    BY <1>1 DEF Claims
  <1>7. ASSUME NEW i \in Id, NEW q \in Held, Claims(i, q)'
        PROVE  Claims(i, q)
    <2>1. CASE i = x.id /\ q = x.resource
      BY <1>6, <2>1
    <2>2. CASE ~(i = x.id /\ q = x.resource)
      <3> HIDE DEF y
      <3>1. \A z \in puts' : z.id = i /\ z.resource = q => z \in puts
        BY <1>2, <1>3, <2>2
      <3>2. resources'[i] = q => resources[i] = q
        BY <1>4, <2>2
      <3> QED BY <1>4, <1>7, <3>1, <3>2 DEF Claims
    <2> QED BY <2>1, <2>2
  <1>8. OneClaim' /\ FreshAbove'
    BY <1>4, <1>7, FewerClaims DEF IInv
  <1>9. CalmPuts'
    <2> HIDE DEF y
    <2>1. ASSUME NEW z \in puts, z.resource \notin raced,
                 NEW w \in puts, z.resource = w.resource
          PROVE  z = w
      BY <2>1 DEF IInv, CalmPuts
    <2>2. ASSUME NEW z \in puts', z.resource \notin raced', z # y
          PROVE  /\ \A w \in puts' : w.resource = z.resource => w = z
                 /\ z.step = "query" => instance'[z.resource] = NoInstance
                 /\ z.step = "store" => instance'[z.resource].id = z.id
      <3>1. z \in puts /\ z # x /\ z.resource # x.resource
        BY <1>3, <1>4, <2>1, <2>2
      <3> QED BY <1>2, <1>3, <1>4, <2>1, <2>2, <3>1 DEF IInv, CalmPuts
    <2>3. ASSUME y \in puts', y.resource \notin raced', NEW w \in puts',
                 w.resource = y.resource
          PROVE  w = y
      BY <1>2, <1>3, <1>4, <2>1, <2>3
    <2> QED BY <1>2, <2>2, <2>3 DEF CalmPuts
  <1>10. \A i \in Id : stored[i] \in Resource /\ i = x.id => stored[i] = x.resource
    BY <1>1, <1>6 DEF IInv, OneClaim, Claims
  <1>11. \A q \in Resource : instance[q].id = x.id => q = x.resource
    BY <1>1, <1>6 DEF IInv, OneClaim, Claims
  <1>12. x.resource \notin raced =>
            instance[x.resource].id = x.id /\ stored[x.id] = x.resource
    BY <1>1 DEF IInv, CalmPuts, RegistryHonest
  <1>13. RegistryHonest'
    BY <1>1, <1>2, <1>3, <1>4, <1>10, <1>11, <1>12 DEF IInv, RegistryHonest
  <1> QED BY <1>5, <1>8, <1>9, <1>13 DEF IInv

LEMMA PutInitializedStep ==
  ASSUME IInv, NEW x \in puts, PutInitialized(x)
  PROVE  IInv'
  <1>1. x \in Put /\ x.step = "initialize" /\ x.resource \in Resource
    BY DEF PutInitialized, IInv, TypeOK, Put
  <1>2. puts' = puts \ {x} /\ UNCHANGED <<tables, raced>>
    BY DEF PutInitialized
  <1>3. TypeOK'
    BY <1>1 DEF IInv, TypeOK, PutInitialized, tables
  <1>4. \A i \in Id : \A q \in Held : Claims(i, q)' => Claims(i, q)
    BY <1>2 DEF Claims, tables
  <1>5. OneClaim' /\ FreshAbove'
    BY <1>2, <1>4, FewerClaims DEF IInv, tables
  <1>6. CalmPuts'
    BY <1>2 DEF IInv, CalmPuts, tables
  <1>7. RegistryHonest'
    BY <1>1, <1>2 DEF IInv, RegistryHonest, tables
  <1> QED BY <1>3, <1>5, <1>6, <1>7 DEF IInv

(* A resource that is removed leaves no entry under the id it had.         *)
LEMMA RemoveStep ==
  ASSUME IInv, NEW r \in Resource, instance[r] # NoInstance, Remove(r), puts' = puts
  PROVE  /\ OneClaim' /\ FreshAbove' /\ CalmPuts' /\ RegistryHonest'
         /\ resourceCounter' \in Id
         /\ resources' \in [Id -> Held \cup {None}]
         /\ stored' \in [Id -> Resource \cup {None}]
         /\ instance' \in [Held -> Instance \cup {NoInstance}]
         /\ initialized' \subseteq Held /\ raced' \subseteq Resource
  <1> DEFINE id == instance[r].id
  <1>1. id \in Id
    BY DEF IInv, TypeOK, Instance
  <1>2. /\ resources'[id] = None /\ stored'[id] = None
        /\ \A i \in Id : i # id => resources'[i] = resources[i] /\ stored'[i] = stored[i]
        /\ instance'[r] = NoInstance
        /\ \A q \in Held : q # r => instance'[q] = instance[q]
        /\ resourceCounter' = resourceCounter /\ raced \subseteq raced'
    BY <1>1 DEF IInv, TypeOK, Remove, StoreRemove
  <1>3. /\ resourceCounter' \in Id
        /\ resources' \in [Id -> Held \cup {None}]
        /\ stored' \in [Id -> Resource \cup {None}]
        /\ instance' \in [Held -> Instance \cup {NoInstance}]
        /\ initialized' \subseteq Held /\ raced' \subseteq Resource
    BY <1>1 DEF IInv, TypeOK, Remove, StoreRemove
  <1>4. \A i \in Id : \A q \in Held : Claims(i, q)' => Claims(i, q)
    BY <1>1, <1>2 DEF Claims, NoInstance
  <1>5. OneClaim' /\ FreshAbove'
    BY <1>2, <1>4, FewerClaims DEF IInv
  <1>6. \A x \in puts : x.resource = r => r \in raced'
    BY DEF Remove
  <1>7. \A x \in puts : x.resource \in Resource
    BY DEF IInv, TypeOK, Put
  <1>8. CalmPuts'
    BY <1>2, <1>6, <1>7 DEF IInv, CalmPuts
  <1>9. \A q \in Held : instance[q].id = id => q = r
    BY <1>1 DEF IInv, OneClaim, Claims
  <1>10. RegistryHonest'
    BY <1>1, <1>2, <1>9 DEF IInv, RegistryHonest, NoInstance
  <1> QED BY <1>3, <1>5, <1>8, <1>10

-----------------------------------------------------------------------------
(* What a handler does after its await.                                    *)
LEMMA HandleStep ==
  ASSUME IInv, NEW h \in handling, Handle(h)
  PROVE  IInv'
  <1>1. h \in Handler
    BY DEF IInv, TypeOK
  <1> DEFINE Kept == /\ OneClaim' /\ FreshAbove' /\ CalmPuts' /\ RegistryHonest'
                     /\ resourceCounter' \in Id
                     /\ resources' \in [Id -> Held \cup {None}]
                     /\ stored' \in [Id -> Resource \cup {None}]
                     /\ instance' \in [Held -> Instance \cup {NoInstance}]
                     /\ puts' \subseteq Put
                     /\ initialized' \subseteq Held /\ raced' \subseteq Resource
  <1>2. ASSUME h.op = "move", Move(h) PROVE Kept
    <2>1. h.resource \in Resource /\ h.link \in Path
      BY <1>1, <1>2 DEF Handler
    <2>2. instance' \in [Held -> Instance \cup {NoInstance}]
      BY <1>2, <2>1 DEF Move, StoreMove, IInv, TypeOK, Instance, NoInstance
    <2>3. \A q \in Held : /\ instance'[q].id = instance[q].id
                          /\ instance[q] = NoInstance => instance'[q] = NoInstance
      BY <1>2, <2>1 DEF Move, StoreMove, IInv, TypeOK, Instance, NoInstance
    <2>4. UNCHANGED <<resourceCounter, resources, stored, puts, initialized, raced>>
      BY <1>2 DEF Move
    <2>5. \A i \in Id : \A q \in Held : Claims(i, q)' => Claims(i, q)
      BY <2>3, <2>4 DEF Claims
    <2>6. OneClaim' /\ FreshAbove'
      BY <2>4, <2>5, FewerClaims DEF IInv
    <2>7. CalmPuts'
      <3>1. \A x \in puts : x.resource \in Resource
        BY DEF IInv, TypeOK, Put
      <3> QED BY <2>3, <2>4, <3>1 DEF IInv, CalmPuts
    <2>8. RegistryHonest'
      BY <2>3, <2>4 DEF IInv, RegistryHonest
    <2> QED BY <2>2, <2>4, <2>6, <2>7, <2>8 DEF IInv, TypeOK
  <1>3. ASSUME h.op = "delete", Delete(h) PROVE Kept
    <2>1. h.resource \in Resource
      BY <1>1, <1>3 DEF Handler
    <2>2. CASE instance[h.resource] = NoInstance
      BY <1>3, <2>2, Elsewhere DEF Delete, IInv, TypeOK, tables
    <2>3. CASE instance[h.resource] # NoInstance
      BY <1>3, <2>1, <2>3, RemoveStep DEF Delete, IInv, TypeOK
    <2> QED BY <2>2, <2>3
  <1>4. ASSUME h.op = "create", Create(h) PROVE Kept
    <2>1. h.link \in Path
      BY <1>1, <1>4 DEF Handler
    <2>2. PICK r \in Resource : BeginPut(r, h.link)
      BY <1>4 DEF Create
    <2> QED BY <1>4, <2>1, <2>2, BeginPutStep DEF Create, IInv, TypeOK, tables
  <1>5. Kept
    BY <1>2, <1>3, <1>4 DEF Handle
  <1>6. TypeOK'
    BY <1>5 DEF Handle, IInv, TypeOK
  <1> QED BY <1>5, <1>6 DEF IInv

(* The steps of open() and close().                                        *)
LEMMA OpenCloseStep ==
  ASSUME IInv, Open \/ OpenNext \/ OpenHandled \/ Close \/ CloseSettled
  PROVE  IInv'
  <1>1. UNCHANGED <<tables, puts, raced>>
    BY DEF Open, OpenNext, OpenHandled, Close, CloseSettled, history
  <1>2. TypeOK'
    <2>1. CASE Open
      BY <2>1 DEF Open, IInv, TypeOK, Opening, tables
    <2>2. CASE OpenNext
      <3>1. opening \in Opening /\ opening.visited \subseteq Id
        BY <2>2 DEF OpenNext, IInv, TypeOK, Opening
      <3>2. opening' \in Opening
        BY <2>2, <3>1 DEF OpenNext, VisitNext, Ahead, IInv, TypeOK, Opening
      <3> QED BY <2>2, <3>2 DEF OpenNext, IInv, TypeOK, tables, history
    <2>3. CASE OpenHandled
      <3>1. opening \in Opening
        BY <2>3 DEF OpenHandled, IInv, TypeOK
      <3>2. opening' \in Opening \cup {None} /\ initialized' \subseteq Held
        <4>1. CASE opening.step = "initialize"
          <5>1. opening.resource \in Held /\ opening.visited \subseteq Id
            BY <3>1, <4>1 DEF Opening
          <5> QED BY <2>3, <4>1, <5>1 DEF OpenHandled, IInv, TypeOK, Opening
        <4>2. CASE opening.step # "initialize"
          BY <2>3, <4>2 DEF OpenHandled, IInv, TypeOK
        <4> QED BY <4>1, <4>2
      <3>3. failed' \in BOOLEAN
        BY <2>3, Zenon DEF OpenHandled, IInv, TypeOK
      <3> QED BY <2>3, <3>2, <3>3 DEF OpenHandled, IInv, TypeOK, tables
    <2>4. CASE Close
      BY <2>4 DEF Close, IInv, TypeOK, tables, history
    <2>5. CASE CloseSettled
      BY <2>5 DEF CloseSettled, IInv, TypeOK, tables, history
    <2> QED BY <2>1, <2>2, <2>3, <2>4, <2>5
  <1> QED BY <1>1, <1>2, Elsewhere DEF IInv

LEMMA NextIInv == IInv /\ [Next]_vars => IInv'
  <1> SUFFICES ASSUME IInv, [Next]_vars PROVE IInv'
    OBVIOUS
  <1>1. CASE Open \/ OpenNext \/ OpenHandled \/ Close \/ CloseSettled
    BY <1>1, OpenCloseStep
  <1>2. ASSUME NEW r \in Resource, RemoveResource(r) PROVE IInv'
    BY <1>2, RemoveStep DEF RemoveResource, IInv, TypeOK
  <1>3. ASSUME NEW r \in Resource, NEW p \in Path, PutResource(r, p) PROVE IInv'
    BY <1>3, BeginPutStep DEF PutResource, IInv, TypeOK, tables
  <1>4. ASSUME NEW x \in puts, PutFound(x) PROVE IInv'
    BY <1>4, PutFoundStep
  <1>5. ASSUME NEW x \in puts, PutStored(x) PROVE IInv'
    BY <1>5, PutStoredStep
  <1>6. ASSUME NEW x \in puts, PutInitialized(x) PROVE IInv'
    BY <1>6, PutInitializedStep
  <1>7. ASSUME NEW h \in Handler, Request(h) PROVE IInv'
    <2>1. UNCHANGED <<tables, puts, raced>> /\ TypeOK'
      BY <1>7 DEF Request, IInv, TypeOK, tables, history
    <2> QED BY <2>1, Elsewhere DEF IInv
  <1>8. ASSUME NEW h \in handling, Handle(h) PROVE IInv'
    BY <1>8, HandleStep
  <1>9. CASE UNCHANGED vars
    <2>1. UNCHANGED <<tables, puts, raced>> /\ TypeOK'
      BY <1>9 DEF vars, IInv, TypeOK, tables, history
    <2> QED BY <2>1, Elsewhere DEF IInv
  <1> QED BY <1>1, <1>2, <1>3, <1>4, <1>5, <1>6, <1>7, <1>8, <1>9 DEF Next

-----------------------------------------------------------------------------
(* An instance id is handed out once and goes by one resource, in the      *)
(* tables, the instances and the puts under way (putAsync, remove).        *)
THEOREM WarehouseInvariance == Spec => []IInv
  BY InitIInv, NextIInv, PTL DEF Spec

(* Every variable of the warehouse keeps its type.                         *)
THEOREM WarehouseTypeCorrect == Spec => []TypeOK
  <1>1. IInv => TypeOK
    BY DEF IInv
  <1> QED BY <1>1, WarehouseInvariance, PTL

(* The table of the warehouse, the store's and the instances tell the same *)
(* for any number of resources, puts and handlers at their awaits.         *)
THEOREM RegistryHonestAlways == Spec => []RegistryHonest
  <1>1. IInv => RegistryHonest
    BY DEF IInv
  <1> QED BY <1>1, WarehouseInvariance, PTL
-----------------------------------------------------------------------------
(* open() and the puts: what is registered is initialized, or will be by   *)
(* the put that registered it, or by the loop of openAsync.                *)

Initialized(i) ==
    \/ resources[i] \in {None} \cup raced \cup initialized
    \/ \E x \in puts : x.step = "initialize" /\ x.resource = resources[i]

Awaited(i) ==
    /\ opening # None
    /\ \/ opening.step # "open" /\ i \notin opening.visited
       \/ opening.step = "initialize" /\ resources[i] = opening.resource

OpenCovers == opened /\ ~failed => \A i \in Id : Initialized(i) \/ Awaited(i)

LEMMA InitOpenCovers == Init => OpenCovers
  BY DEF Init, OpenCovers

LEMMA RemoveCovers ==
  ASSUME IInv, OpenCovers, NEW r \in Resource, instance[r] # NoInstance, Remove(r),
         UNCHANGED <<opened, puts, opening, failed>>
  PROVE  OpenCovers'
  <1> SUFFICES ASSUME opened, ~failed, NEW i \in Id, resources'[i] # None
               PROVE  (Initialized(i) \/ Awaited(i))'
    BY DEF OpenCovers, Initialized
  <1>1. instance[r].id \in Id
    BY DEF IInv, TypeOK, Instance
  <1>2. i # instance[r].id /\ resources'[i] = resources[i]
    BY <1>1 DEF Remove, IInv, TypeOK
  <1>3. resources[i] = r => r \in raced
    BY <1>2 DEF IInv, RegistryHonest
  <1>4. initialized' = initialized \ {r} /\ raced \subseteq raced'
    BY DEF Remove
  <1>5. Initialized(i) \/ Awaited(i)
    BY DEF OpenCovers
  <1> QED BY <1>2, <1>3, <1>4, <1>5 DEF Initialized, Awaited

LEMMA PutCovers ==
  ASSUME IInv, OpenCovers, NEW x \in puts, PutFound(x) \/ PutStored(x) \/ PutInitialized(x)
  PROVE  OpenCovers'
  <1>1. x \in Put
    BY DEF IInv, TypeOK
  <1>2. CASE PutFound(x)
    <2> SUFFICES ASSUME opened, ~failed, NEW i \in Id
                 PROVE  (Initialized(i) \/ Awaited(i))'
      BY <1>2 DEF OpenCovers, PutFound, history
    <2>1. /\ \A y \in puts : y.step = "initialize" => y \in puts'
          /\ UNCHANGED <<resources, opening, initialized, raced>>
      BY <1>2 DEF PutFound, history
    <2>2. Initialized(i) \/ Awaited(i)
      BY DEF OpenCovers
    <2> QED BY <2>1, <2>2 DEF Initialized, Awaited
  <1>3. CASE PutStored(x)
    <2> SUFFICES ASSUME opened, ~failed, NEW i \in Id
                 PROVE  (Initialized(i) \/ Awaited(i))'
      BY <1>3 DEF OpenCovers, PutStored, history
    <2> DEFINE y == [x EXCEPT !.step = "initialize"]
    <2>1. x.step = "store" /\ x.id \in Id /\ x.resource \in Resource
      BY <1>1, <1>3 DEF PutStored, Put
    <2>2. y.step = "initialize" /\ y.resource = x.resource /\ y \in puts'
      BY <1>1, <1>3, <2>1 DEF PutStored, Put
    <2>3. /\ \A z \in puts : z.step = "initialize" => z \in puts'
          /\ UNCHANGED <<opening, initialized, raced>>
      BY <1>3, <2>1 DEF PutStored, history
    <2>4. resources'[i] = IF i = x.id THEN x.resource ELSE resources[i]
      BY <1>3, <2>1 DEF PutStored, IInv, TypeOK
    <2>5. CASE i = x.id
      <3> HIDE DEF y
      <3> QED BY <2>2, <2>4, <2>5 DEF Initialized
    <2>6. CASE i # x.id
      <3>1. Initialized(i) \/ Awaited(i)
        BY DEF OpenCovers
      <3> QED BY <2>3, <2>4, <2>6, <3>1 DEF Initialized, Awaited
    <2> QED BY <2>5, <2>6
  <1>4. CASE PutInitialized(x)
    <2> SUFFICES ASSUME opened, ~failed', NEW i \in Id
                 PROVE  (Initialized(i) \/ Awaited(i))'
      BY <1>4 DEF OpenCovers, PutInitialized
    <2>1. /\ puts' = puts \ {x} /\ initialized' = initialized \cup {x.resource} /\ ~failed
          /\ UNCHANGED <<resources, opening, raced>>
      BY <1>4 DEF PutInitialized, tables
    <2>2. Initialized(i) \/ Awaited(i)
      BY <2>1 DEF OpenCovers
    <2> QED BY <2>1, <2>2 DEF Initialized, Awaited
  <1> QED BY <1>2, <1>3, <1>4

(* The loop of openAsync visits whatever has been registered by then; what *)
(* is registered later is initialized by its put.                          *)
LEMMA OpenLoopCovers ==
  ASSUME IInv, OpenCovers, Open \/ OpenNext \/ OpenHandled
  PROVE  OpenCovers'
  <1> DEFINE Loop(o, i) == /\ o # None
                           /\ \/ o.step # "open" /\ i \notin o.visited
                              \/ o.step = "initialize" /\ resources[i] = o.resource
  <1>0. /\ UNCHANGED <<resources, puts, raced>>
        /\ \A i \in Id : Awaited(i)' <=> Loop(opening', i)
    BY DEF Open, OpenNext, OpenHandled, tables, history, Awaited
  <1>1. CASE Open
    <2>1. opening' = [step |-> "next", visited |-> {}] /\ opening' \in Opening
      BY <1>1 DEF Open, Opening
    <2>2. opening' # None
      BY <2>1, NoneAssumption
    <2> QED BY <1>0, <2>1, <2>2 DEF OpenCovers
  <1>2. CASE OpenNext
    <2> SUFFICES ASSUME opened, ~failed, NEW i \in Id
                 PROVE  (Initialized(i) \/ Awaited(i))'
      BY <1>2 DEF OpenNext, OpenCovers, history
    <2>1. opening \in Opening /\ opening.step = "next" /\ initialized' = initialized
      BY <1>2 DEF OpenNext, IInv, TypeOK, history
    <2>2. Initialized(i) => Initialized(i)'
      BY <1>0, <2>1 DEF Initialized
    <2>3. Initialized(i) \/ i \notin opening.visited
      BY <2>1 DEF OpenCovers, Awaited
    <2>4. CASE Ahead = {}
      <3>1. resources[i] = None \/ i \in opening.visited
        BY <2>4 DEF Ahead
      <3> QED BY <2>2, <2>3, <3>1 DEF Initialized
    <2>5. CASE Ahead # {}
      <3>1. PICK k \in Ahead : opening' = [step |-> "initialize",
                                          visited |-> opening.visited \cup {k},
                                          resource |-> resources[k]]
        BY <1>2, <2>5 DEF OpenNext, VisitNext
      <3>2. k \in Id /\ resources[k] \in Held
        BY DEF Ahead, IInv, TypeOK
      <3>3. opening' \in Opening
        BY <2>1, <3>1, <3>2 DEF Opening
      <3>4. opening' # None
        BY <3>3, NoneAssumption
      <3> QED BY <1>0, <2>2, <2>3, <3>1, <3>4
    <2> QED BY <2>4, <2>5
  <1>3. CASE OpenHandled
    <2> SUFFICES ASSUME opened, ~failed', NEW i \in Id
                 PROVE  (Initialized(i) \/ Awaited(i))'
      BY <1>3 DEF OpenHandled, OpenCovers
    <2>1. opening \in Opening /\ opening.step # "next"
      BY <1>3 DEF OpenHandled, IInv, TypeOK
    <2>2. CASE opening.step = "initialize" /\ opening' # None
      <3>1. /\ opening' = [step |-> "next", visited |-> opening.visited]
            /\ initialized' = initialized \cup {opening.resource}
            /\ ~failed
        BY <1>3, <2>2 DEF OpenHandled
      <3>2. Initialized(i) \/ Awaited(i)
        BY <3>1 DEF OpenCovers
      <3> QED BY <1>0, <2>2, <3>1, <3>2 DEF Initialized, Awaited
    <2>3. CASE ~(opening.step = "initialize" /\ opening' # None)
      <3>1. opening.step = "open" /\ initialized' = initialized /\ ~failed
        BY <1>3, <2>1, <2>3, NoneAssumption DEF OpenHandled, Opening
      <3>2. Initialized(i)
        BY <3>1 DEF OpenCovers, Awaited
      <3> QED BY <1>0, <3>1, <3>2 DEF Initialized
    <2> QED BY <2>2, <2>3
  <1> QED BY <1>1, <1>2, <1>3

LEMMA NextOpenCovers == IInv /\ OpenCovers /\ [Next]_vars => OpenCovers'
  <1> SUFFICES ASSUME IInv, OpenCovers, [Next]_vars PROVE OpenCovers'
    OBVIOUS
  <1>1. ASSUME \/ UNCHANGED <<resources, opening, failed, initialized, raced, puts>>
               \/ /\ UNCHANGED <<resources, opening, failed, initialized>>
                  /\ raced \subseteq raced' /\ puts \subseteq puts',
               opened' => opened
        PROVE  OpenCovers'
    BY <1>1 DEF OpenCovers, Initialized, Awaited
  <1>2. CASE Open \/ OpenNext \/ OpenHandled
    BY <1>2, OpenLoopCovers
  <1>3. CASE Close \/ CloseSettled
    BY <1>1, <1>3 DEF Close, CloseSettled, tables, history
  <1>4. ASSUME NEW r \in Resource, RemoveResource(r) PROVE OpenCovers'
    BY <1>4, RemoveCovers DEF RemoveResource
  <1>5. ASSUME NEW r \in Resource, NEW p \in Path, PutResource(r, p) PROVE OpenCovers'
    BY <1>1, <1>5 DEF PutResource, BeginPut, tables
  <1>6. ASSUME NEW x \in puts, PutFound(x) \/ PutStored(x) \/ PutInitialized(x)
        PROVE  OpenCovers'
    BY <1>6, PutCovers
  <1>7. ASSUME NEW h \in Handler, Request(h) PROVE OpenCovers'
    BY <1>1, <1>7 DEF Request, tables, history
  <1>8. ASSUME NEW h \in handling, Handle(h) PROVE OpenCovers'
    <2>1. h \in Handler /\ UNCHANGED <<opened, opening, failed>>
      BY <1>8 DEF Handle, IInv, TypeOK
    <2>2. CASE h.op = "move" /\ Move(h)
      BY <1>1, <2>1, <2>2 DEF Move
    <2>3. CASE h.op = "delete" /\ Delete(h)
      <3>1. h.resource \in Resource
        BY <2>1, <2>3 DEF Handler
      <3>2. CASE instance[h.resource] = NoInstance
        BY <1>1, <2>1, <2>3, <3>2 DEF Delete, tables
      <3>3. CASE instance[h.resource] # NoInstance
        BY <2>1, <2>3, <3>1, <3>3, RemoveCovers DEF Delete
      <3> QED BY <3>2, <3>3
    <2>4. CASE h.op = "create" /\ Create(h)
      BY <1>1, <2>1, <2>4 DEF Create, BeginPut, tables
    <2> QED BY <1>8, <2>2, <2>3, <2>4 DEF Handle
  <1>9. CASE UNCHANGED vars
    BY <1>1, <1>9 DEF vars
  <1> QED BY <1>2, <1>3, <1>4, <1>5, <1>6, <1>7, <1>8, <1>9 DEF Next

(* A resource put before, during or after open() is initialized, for any   *)
(* number of openings, puts and removals (openAsync, putAsync).            *)
THEOREM InitializedWhenOpenAlways == Spec => []InitializedWhenOpen
  <1>1. OpenCovers => InitializedWhenOpen
    BY DEF OpenCovers, InitializedWhenOpen, Initialized, Awaited
  <1>2. IInv /\ IInv' /\ OpenCovers /\ [Next]_vars => OpenCovers'
    BY NextOpenCovers
  <1> QED BY <1>1, <1>2, InitOpenCovers, WarehouseInvariance, PTL DEF Spec
=============================================================================
