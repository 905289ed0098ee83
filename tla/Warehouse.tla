----------------------------- MODULE Warehouse ------------------------------
(***************************************************************************)
(* The warehouse of one process: its table of resources by instance id,    *)
(* the MemoryStore that addresses them by link, and the operations of the  *)
(* application and of remote peers that put, move and remove resources and *)
(* open and close the warehouse, each with its awaits: others run there.   *)
(*                                                                         *)
(* Abstractions.  There is one store, put before anything else; resources  *)
(* are put below it.  The managers admit what peers ask for.  The handlers *)
(* of a resource (Resource.handle) take their time and may throw.          *)
(***************************************************************************)
EXTENDS Naturals, FiniteSets

CONSTANTS
    Resource,       \* the resources an application may put
    Store,          \* the MemoryStore
    None,
    Path,           \* links below the store
    MaxId,          \* bound: instance ids
    MaxOpen,        \* bound: times the warehouse is opened
    MaxPut,         \* bound: putAsync running at once
    MaxHandler      \* bound: requests of peers being handled

ASSUME WarehouseAssumption ==
    /\ Store \notin Resource /\ None \notin Resource \cup {Store}
    /\ MaxId \in Nat \ {0} /\ MaxOpen \in Nat /\ MaxPut \in Nat /\ MaxHandler \in Nat

VARIABLES
    opened,             \* the flag
    opens,              \* times opened
    resourceCounter,
    resources,          \* the warehouse's table, by id
    stored,             \* the store's table, by id
    instance,           \* of each resource: its id and link
    puts,               \* putAsync at one of its awaits
    opening,            \* openAsync at its await, if it runs
    closing,            \* close at its await, if it runs
    handling,           \* handlers of peers' requests awaiting their managers
    initialized,        \* history: Initialize returned since the last open()
    raced,              \* history: put again, or removed, while being put
    failed              \* history: an Initialize or Open threw

vars == <<opened, opens, resourceCounter, resources, stored, instance, puts, opening,
          closing, handling, initialized, raced, failed>>
tables == <<resourceCounter, resources, stored, instance>>
history == <<initialized, raced, failed>>

-----------------------------------------------------------------------------
Id == 1 .. MaxId
Held == Resource \cup {Store}
NoInstance == [id |-> 0]
Instance == [id : Id, link : Path \cup {None}]

Put == [resource : Resource, link : Path, step : {"query"}]
         \cup [resource : Resource, link : Path, step : {"store", "initialize"}, id : Id]
Opening == [step : {"next", "open"}, visited : SUBSET Id]
             \cup [step : {"initialize"}, visited : SUBSET Id, resource : Held]
Handler == [op : {"move"}, resource : Resource, link : Path]
             \cup [op : {"delete"}, resource : Resource]
             \cup [op : {"create"}, link : Path]

(* None is no state of the loop of openAsync.                              *)
ASSUME NoneAssumption == None \notin Opening

Init ==
    /\ opened = FALSE /\ opens = 0
    /\ resourceCounter = 1
    /\ resources = [i \in Id |-> IF i = 1 THEN Store ELSE None]
    /\ stored = [i \in Id |-> None]
    /\ instance = [r \in Held |-> IF r = Store THEN [id |-> 1, link |-> None] ELSE NoInstance]
    /\ puts = {} /\ handling = {}
    /\ opening = None /\ closing = None
    /\ initialized = {} /\ raced = {} /\ failed = FALSE

-----------------------------------------------------------------------------
(* MemoryStore: put, remove and move.  The link is one of the variables of *)
(* the instance.                                                           *)
StorePut(id, r) == [stored EXCEPT ![id] = r]
StoreRemove(id) == [stored EXCEPT ![id] = None]
StoreMove(r, link) == [instance EXCEPT ![r].link = link]

(* putAsync, up to the query of the parent: refused if the resource has an *)
(* instance.                                                               *)
BeginPut(r, p) ==
    /\ instance[r] = NoInstance /\ Cardinality(puts) < MaxPut
    /\ puts' = puts \cup {[resource |-> r, link |-> p, step |-> "query"]}
    /\ raced' = IF \E x \in puts : x.resource = r THEN raced \cup {r} ELSE raced

PutResource(r, p) ==
    /\ BeginPut(r, p)
    /\ UNCHANGED <<opened, opens, tables, opening, closing, handling, initialized,
                   failed>>

(* The parent is found: the instance is made and handed to the store.      *)
PutFound(x) ==
    LET id == resourceCounter + 1
        r == x.resource
    IN  /\ x.step = "query" /\ id <= MaxId
        /\ resourceCounter' = id
        /\ instance' = [instance EXCEPT ![r] = [id |-> id, link |-> x.link]]
        /\ stored' = StorePut(id, r)
        /\ puts' = (puts \ {x}) \cup
                      {[resource |-> r, link |-> x.link, step |-> "store", id |-> id]}
        /\ UNCHANGED <<opened, opens, resources, opening, closing, handling, history>>

(* Mutant: what is put while open() runs is left to its loop.              *)
PutStored_LeftToOpen(x) ==
    /\ x.step = "store"
    /\ resources' = [resources EXCEPT ![x.id] = x.resource]
    /\ puts' = (puts \ {x}) \cup
                  (IF opened /\ opening = None THEN {[x EXCEPT !.step = "initialize"]} ELSE {})
    /\ UNCHANGED <<opened, opens, resourceCounter, stored, instance, opening, closing,
                   handling, history>>

(* Stored: the resource is registered, and initialized if the warehouse is *)
(* open, or opening.                                                       *)
PutStored(x) ==
    /\ x.step = "store"
    /\ resources' = [resources EXCEPT ![x.id] = x.resource]
    /\ puts' = (puts \ {x}) \cup (IF opened THEN {[x EXCEPT !.step = "initialize"]} ELSE {})
    /\ UNCHANGED <<opened, opens, resourceCounter, stored, instance, opening, closing,
                   handling, history>>

PutInitialized(x) ==
    /\ x.step = "initialize"
    /\ puts' = puts \ {x}
    /\ \/ initialized' = initialized \cup {x.resource} /\ UNCHANGED failed
       \/ failed' = TRUE /\ UNCHANGED initialized
    /\ UNCHANGED <<opened, opens, tables, opening, closing, handling, raced>>

(* Mutant: the store is left to notice.                                    *)
Remove_KeepsStored(r) ==
    LET id == instance[r].id
    IN  /\ resources' = [resources EXCEPT ![id] = None]
        /\ instance' = [instance EXCEPT ![r] = NoInstance]
        /\ raced' = IF \E x \in puts : x.resource = r THEN raced \cup {r} ELSE raced
        /\ initialized' = initialized \ {r}
        /\ UNCHANGED <<resourceCounter, stored>>

(* Warehouse.remove and MemoryStore.remove, of a resource with an instance.*)
Remove(r) ==
    LET id == instance[r].id
    IN  /\ resources' = [resources EXCEPT ![id] = None]
        /\ stored' = StoreRemove(id)
        /\ instance' = [instance EXCEPT ![r] = NoInstance]
        /\ raced' = IF \E x \in puts : x.resource = r THEN raced \cup {r} ELSE raced
        /\ initialized' = initialized \ {r}
        /\ UNCHANGED resourceCounter

RemoveResource(r) ==
    /\ instance[r] # NoInstance
    /\ Remove(r)
    /\ UNCHANGED <<opened, opens, puts, opening, closing, handling, failed>>

-----------------------------------------------------------------------------
(* Handlers of MoveResource, DeleteResource and CreateResource: what they  *)
(* look up before the await of tryApplyManagers, and what they do after it.*)
Request(h) ==
    /\ Cardinality(handling) < MaxHandler
    /\ h.op # "create" => \E i \in Id : resources[i] = h.resource /\ instance[h.resource] # NoInstance
    /\ handling' = handling \cup {h}
    /\ UNCHANGED <<opened, opens, tables, puts, opening, closing, history>>

(* A resource that is gone by now: Move throws on its instance and nothing *)
(* answers, Delete answers with an error.                                  *)
Move(h) ==
    /\ instance' = IF instance[h.resource] = NoInstance THEN instance
                   ELSE StoreMove(h.resource, h.link)
    /\ UNCHANGED <<resourceCounter, resources, stored, puts, initialized, raced>>

Delete(h) ==
    /\ IF instance[h.resource] = NoInstance
       THEN UNCHANGED <<tables, initialized, raced>>
       ELSE Remove(h.resource)
    /\ UNCHANGED puts

(* The resource is a new one.                                              *)
Create(h) ==
    /\ \E r \in Resource \ raced : (\A x \in puts : x.resource # r) /\ BeginPut(r, h.link)
    /\ UNCHANGED <<tables, initialized>>

Handle(h) ==
    /\ handling' = handling \ {h}
    /\ \/ h.op = "move" /\ Move(h)
       \/ h.op = "delete" /\ Delete(h)
       \/ h.op = "create" /\ Create(h)
    /\ UNCHANGED <<opened, opens, opening, closing, failed>>

-----------------------------------------------------------------------------
(* openAsync: every resource of the table, those put meanwhile included,   *)
(* then the store.                                                         *)
Open ==
    /\ opening = None /\ opens < MaxOpen
    /\ opened' = TRUE /\ opens' = opens + 1
    /\ initialized' = {}
    /\ opening' = [step |-> "next", visited |-> {}]
    /\ UNCHANGED <<tables, puts, closing, handling, raced, failed>>

Ahead == {i \in Id \ opening.visited : resources[i] # None}

VisitNext ==
    IF Ahead = {} THEN opening' = [opening EXCEPT !.step = "open"]
    ELSE \E i \in Ahead :
            opening' = [step |-> "initialize", visited |-> opening.visited \cup {i},
                        resource |-> resources[i]]

OpenNext ==
    /\ opening # None /\ opening.step = "next"
    /\ VisitNext
    /\ UNCHANGED <<opened, opens, tables, puts, closing, handling, history>>

(* A handler returns, or throws and ends the loop.                         *)
OpenHandled ==
    /\ opening # None /\ opening.step # "next"
    /\ \/ /\ opening.step = "initialize"
          /\ opening' = [step |-> "next", visited |-> opening.visited]
          /\ initialized' = initialized \cup {opening.resource}
          /\ UNCHANGED failed
       \/ opening.step = "open" /\ opening' = None /\ UNCHANGED <<initialized, failed>>
       \/ opening' = None /\ failed' = TRUE /\ UNCHANGED initialized
    /\ UNCHANGED <<opened, opens, tables, puts, closing, handling, raced>>

(* close: Terminate, then SystemTerminated, for all resources, then the    *)
(* flag.  The handlers that throw delay nothing.                           *)
Close ==
    /\ closing = None /\ opened
    /\ closing' = "Terminate"
    /\ UNCHANGED <<opened, opens, tables, puts, opening, handling, history>>

CloseSettled ==
    /\ closing # None
    /\ IF closing = "Terminate" THEN closing' = "SystemTerminated" /\ UNCHANGED opened
       ELSE closing' = None /\ opened' = FALSE
    /\ UNCHANGED <<opens, tables, puts, opening, handling, history>>

Next ==
    \/ Open \/ OpenNext \/ OpenHandled \/ Close \/ CloseSettled
    \/ \E r \in Resource : RemoveResource(r) \/ (\E p \in Path : PutResource(r, p))
    \/ \E x \in puts : PutFound(x) \/ PutStored(x) \/ PutInitialized(x)
    \/ \E h \in Handler : Request(h)
    \/ \E h \in handling : Handle(h)

Spec == Init /\ [][Next]_vars

-----------------------------------------------------------------------------
(* The tables, and what is at an await, are of the kinds the code makes.   *)
TypeOK ==
    /\ opened \in BOOLEAN /\ opens \in 0 .. MaxOpen /\ resourceCounter \in Id
    /\ resources \in [Id -> Held \cup {None}] /\ stored \in [Id -> Resource \cup {None}]
    /\ instance \in [Held -> Instance \cup {NoInstance}]
    /\ puts \subseteq Put /\ handling \subseteq Handler
    /\ opening \in Opening \cup {None} /\ closing \in {None, "Terminate", "SystemTerminated"}
    /\ initialized \subseteq Held /\ raced \subseteq Resource
    /\ failed \in BOOLEAN

(* The warehouse's table, the store's and the instances of the resources   *)
(* tell the same, whatever is put, moved, removed and opened in between    *)
(* the awaits of a put, of a resource that was not itself put again or     *)
(* removed while it was being put.                                         *)
RegistryHonest ==
    LET calm == Resource \ raced
        beingStored(i) == \E x \in puts : x.step = "store" /\ x.id = i
    IN  \A i \in Id :
            /\ resources[i] \in calm => instance[resources[i]].id = i /\ stored[i] = resources[i]
            /\ stored[i] \in calm => /\ instance[stored[i]].id = i
                                     /\ resources[i] = stored[i] \/ beingStored(i)
            /\ \A r \in calm : instance[r].id = i => stored[i] = r

(* A resource put before, during or after open() has been initialized once *)
(* open() and its put are done, unless a handler threw: openAsync visits   *)
(* what putAsync found the warehouse closed for.                           *)
InitializedWhenOpen ==
    opened /\ opening = None /\ puts = {} /\ ~failed =>
        \A i \in Id : resources[i] \in {None} \cup raced \cup initialized
=============================================================================
