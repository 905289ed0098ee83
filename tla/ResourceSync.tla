---------------------------- MODULE ResourceSync ----------------------------
(***************************************************************************)
(* Keeping the remote proxies of one client connection equal to the        *)
(* resources of the server they were attached from.                        *)
(*                                                                         *)
(* Server side: the warehouse's instances (Instance.ts), and the attach,   *)
(* reattach and detach handlers of EpConnection.ts with the subscription   *)
(* table they share.  Client side: the proxies (EpResource.ts), the table  *)
(* attachedResources of the connection, the queue of notifications, the    *)
(* restore loop a reconnect runs.  Between them one FIFO channel each way, *)
(* lost whole when the connection drops.                                   *)
(*                                                                         *)
(* Abstractions.  A property value is the position in the resource's       *)
(* change stream that wrote it, so a value in a message is its age.  A     *)
(* generation (a fresh UUID per instance) is a pair of the link and a      *)
(* counter.  The type definition of a resource is known when it is         *)
(* attached, managers admit every request, attachment limits are not met.  *)
(* A proxy's own assignments are left out: SetResourceProperty writes the  *)
(* cache before the server has answered (EpResource.ts:490), so what is    *)
(* said of values is said of proxies that do not assign.                   *)
(*                                                                         *)
(* The values of a snapshot are decoded either within the task of the      *)
(* reply that carries them or later: when they refer to resources that     *)
(* must be fetched, or when the reply shares its chunk of bytes with the   *)
(* frames that follow it.                                                  *)
(***************************************************************************)
EXTENDS Naturals, Sequences, FiniteSets

CONSTANTS
    Link,           \* paths of the server's resources
    Prop,           \* property indexes
    Obj,            \* proxies the client can allocate
    None,           \* no proxy
    MaxId,          \* bound: instance ids the server hands out in one life
    MaxRevision,    \* bound: changes of one generation
    MaxGeneration,  \* bound: times one link is put
    MaxSession,     \* bound: connections the client opens
    MaxRestart,     \* bound: restarts of the server process
    MaxNotified,    \* bound: frames from the server not yet handled
    MaxLate         \* bound: proxies with a snapshot decoded late

ASSUME ResourceSyncAssumption ==
    /\ None \notin Obj \cup Link \cup (Link \X (1 .. MaxGeneration))
    /\ MaxId \in Nat /\ MaxRevision \in Nat /\ MaxGeneration \in Nat
    /\ MaxSession \in Nat /\ MaxRestart \in Nat /\ MaxNotified \in Nat
    /\ MaxLate \in Nat

VARIABLES
    instance,           \* server: the live instance of a link, if any
    put,                \* server: generations made of each link so far
    resourceCounter,    \* server: the last instance id handed out
    restarts,           \* server: restarts so far
    subscriptions,      \* server: ids this connection is subscribed to
    handling,           \* server: attach and detach handlers at their await
    querying,           \* server: the reattach handler at its query, if any
    toServer, toClient, \* the two directions of the connection
    connected,          \* the connection is established
    sessions,           \* connections opened so far
    proxy,              \* client: the state of each proxy
    attachedResources,  \* client: the proxy tracked under an id
    attachRequests,     \* client: ids with an attachment in progress
    notificationQueue,  \* client: notifications received, not processed
    decoding,           \* client: replies whose values are being decoded
    restore,            \* client: what is left of the restore loop
    reattaching,        \* client: the proxy whose reattach is in flight
    late,               \* history: proxies with a snapshot decoded late
    held,               \* the proxies the application holds
    disturbed           \* history: see Disturbance below

serverVars == <<instance, put, resourceCounter, restarts>>
serverSession == <<subscriptions, handling, querying>>
sessionVars == <<connected, sessions>>
clientVars == <<proxy, attachedResources, attachRequests, decoding, restore,
                reattaching, late, held, disturbed>>
vars == <<serverVars, serverSession, toServer, toClient, sessionVars, clientVars,
          notificationQueue>>

-----------------------------------------------------------------------------
Id == 1 .. MaxId
Generation == Link \X (1 .. MaxGeneration)
Revision == 0 .. MaxRevision

(* Values of some of the properties, each with the age that identifies it. *)
Values == UNION {[ps -> Revision] : ps \in SUBSET Prop}

Stamp == [gen : Generation, rev : Revision]
NoStamp == [gen |-> None, rev |-> 0]

Instance == [id : Id, gen : Generation, rev : Revision, age : [Prop -> Revision]]
Absent == [id |-> 0]

Proxy == [link : Link, id : Id, gen : Generation, rev : Revision,
          cache : [Prop -> Stamp \cup {NoStamp}],
          propertyCursors : [Prop -> Stamp \cup {NoStamp}]]
Unused == [link |-> None]

DirectRequest == [type : {"attach", "detach"}, id : Id]
ReattachRequest == [type : {"reattach"}, link : Link, gen : Generation, rev : Revision]
Request == DirectRequest \cup ReattachRequest
Answer == [type : {"attached", "reattached"}, id : Id, gen : Generation,
           link : Link, rev : Revision, values : Values]
Refusal == [type : {"refused"}, id : Id] \cup [type : {"notFound", "rejected"}]
Notification == [type : {"property"}, id : Id, gen : Generation, rev : Revision, prop : Prop]
                  \cup [type : {"event"}, id : Id, gen : Generation, rev : Revision]
Message == Answer \cup Refusal \cup Notification

Live(l) == instance[l] # Absent
IsLive(id) == \E l \in Link : Live(l) /\ instance[l].id = id
LinkOf(id) == CHOOSE l \in Link : Live(l) /\ instance[l].id = id

Nothing == [id \in Id |-> None]
Restoring == reattaching # None \/ restore # Nothing

(* composePropertyValueArray and composePropertyValueMap: the values of    *)
(* the properties whose age the predicate of the reader selects.           *)
AllValues(inst) == inst.age
ValuesSince_SkipsOne(inst, rev) ==
    [p \in {q \in Prop : inst.age[q] > rev + 1} |-> inst.age[p]]
ValuesSince(inst, rev) == [p \in {q \in Prop : inst.age[q] > rev} |-> inst.age[p]]

Init ==
    /\ instance = [l \in Link |-> Absent]
    /\ put = [l \in Link |-> 0]
    /\ resourceCounter = 0
    /\ restarts = 0
    /\ subscriptions = {}
    /\ handling = <<>>
    /\ querying = None
    /\ toServer = <<>>
    /\ toClient = <<>>
    /\ connected = FALSE
    /\ sessions = 0
    /\ proxy = [o \in Obj |-> Unused]
    /\ attachedResources = Nothing
    /\ attachRequests = {}
    /\ notificationQueue = <<>>
    /\ decoding = {}
    /\ restore = Nothing
    /\ reattaching = None
    /\ late = {}
    /\ held = {}
    /\ disturbed = FALSE

-----------------------------------------------------------------------------
(* The server's resources.                                                 *)

(* A notification goes out on the spot to a subscribed connection.         *)
Notify(id, m) ==
    toClient' = IF id \in subscriptions THEN Append(toClient, m) ELSE toClient

RoomToNotify(id) ==
    id \in subscriptions => Len(toClient) + Len(notificationQueue) < MaxNotified

(* An exported property is assigned.                                       *)
Modify(l, p) ==
    /\ Live(l) /\ instance[l].rev < MaxRevision /\ RoomToNotify(instance[l].id)
    /\ LET next == instance[l].rev + 1 IN
       /\ instance' = [instance EXCEPT ![l].rev = next, ![l].age[p] = next]
       /\ Notify(instance[l].id, [type |-> "property", id |-> instance[l].id,
                                  gen |-> instance[l].gen, rev |-> next, prop |-> p])
    /\ UNCHANGED <<put, resourceCounter, restarts, serverSession, toServer, sessionVars,
                   clientVars, notificationQueue>>

(* An auto-delivered event is raised: it takes a revision of its own.      *)
RaiseEvent(l) ==
    /\ Live(l) /\ instance[l].rev < MaxRevision /\ RoomToNotify(instance[l].id)
    /\ LET next == instance[l].rev + 1 IN
       /\ instance' = [instance EXCEPT ![l].rev = next]
       /\ Notify(instance[l].id, [type |-> "event", id |-> instance[l].id,
                                  gen |-> instance[l].gen, rev |-> next])
    /\ UNCHANGED <<put, resourceCounter, restarts, serverSession, toServer, sessionVars,
                   clientVars, notificationQueue>>

(* Warehouse.put: the next id and a generation never used before.          *)
Put(l) ==
    /\ ~Live(l) /\ resourceCounter < MaxId /\ put[l] < MaxGeneration
    /\ resourceCounter' = resourceCounter + 1
    /\ put' = [put EXCEPT ![l] = @ + 1]
    /\ instance' = [instance EXCEPT ![l] =
                      [id |-> resourceCounter', gen |-> <<l, put'[l]>>, rev |-> 0,
                       age |-> [p \in Prop |-> 0]]]
    /\ UNCHANGED <<restarts, serverSession, toServer, toClient, sessionVars, clientVars,
                   notificationQueue>>

(* Warehouse.remove: the id leaves the warehouse, not the subscriptions.   *)
Remove(l) ==
    /\ Live(l)
    /\ instance' = [instance EXCEPT ![l] = Absent]
    /\ UNCHANGED <<put, resourceCounter, restarts, serverSession, toServer, toClient,
                   sessionVars, clientVars, notificationQueue>>

-----------------------------------------------------------------------------
(* The server's request handlers.  A handler that awaits is two actions;   *)
(* attach and detach resume in the order they began, a reattach whenever   *)
(* the stores answer its query.                                            *)

Reply(m) == toClient' = Append(toClient, m)

PeerAttaching == {handling[i].id : i \in {j \in DOMAIN handling : handling[j].type = "attach"}}

(* beginPeerAttachment, with duplicates rejected as configured by default. *)
AlreadyAttached(id) == id \in subscriptions \/ id \in PeerAttaching

ReceiveAttach ==
    /\ toServer # <<>> /\ Head(toServer).type = "attach"
    /\ toServer' = Tail(toServer)
    /\ LET id == Head(toServer).id IN
       IF AlreadyAttached(id) \/ ~IsLive(id)
         THEN Reply([type |-> "refused", id |-> id]) /\ UNCHANGED handling
         ELSE handling' = Append(handling, Head(toServer)) /\ UNCHANGED toClient
    /\ UNCHANGED <<serverVars, subscriptions, querying, sessionVars, clientVars,
                   notificationQueue>>

(* A resource removed across the await gets no answer at all.              *)
FinishAttach ==
    /\ handling # <<>> /\ Head(handling).type = "attach"
    /\ handling' = Tail(handling)
    /\ LET id == Head(handling).id
           inst == instance[LinkOf(id)] IN
       IF ~IsLive(id)
         THEN UNCHANGED <<subscriptions, toClient>>
         ELSE /\ subscriptions' = subscriptions \cup {id}
              /\ Reply([type |-> "attached", id |-> id, gen |-> inst.gen,
                        link |-> LinkOf(id), rev |-> inst.rev, values |-> AllValues(inst)])
    /\ UNCHANGED <<serverVars, querying, toServer, sessionVars, clientVars,
                   notificationQueue>>

ReceiveReattach ==
    /\ toServer # <<>> /\ Head(toServer).type = "reattach"
    /\ toServer' = Tail(toServer)
    /\ querying' = Head(toServer)
    /\ UNCHANGED <<serverVars, subscriptions, handling, toClient, sessionVars,
                   clientVars, notificationQueue>>

(* The link is resolved, and the values changed since the cursor are sent; *)
(* all of them when the cursor is of another generation.  No frame is      *)
(* handled between the answer of the query and the reply: the managers'    *)
(* ruling in between is awaited, but at hand.                              *)
FinishReattach ==
    /\ querying # None
    /\ querying' = None
    /\ LET l == querying.link
           inst == instance[l] IN
       CASE ~Live(l) -> Reply([type |-> "notFound"]) /\ UNCHANGED subscriptions
         [] Live(l) /\ AlreadyAttached(inst.id) ->
              Reply([type |-> "rejected"]) /\ UNCHANGED subscriptions
         [] OTHER ->
              /\ subscriptions' = subscriptions \cup {inst.id}
              /\ Reply([type |-> "reattached", id |-> inst.id, gen |-> inst.gen,
                        link |-> l, rev |-> inst.rev,
                        values |-> IF querying.gen = inst.gen
                                     THEN ValuesSince(inst, querying.rev)
                                     ELSE AllValues(inst)])
    /\ UNCHANGED <<serverVars, handling, toServer, sessionVars, clientVars,
                   notificationQueue>>

(* Detaching an id that is gone fails before the subscription is dropped.  *)
ReceiveDetach ==
    /\ toServer # <<>> /\ Head(toServer).type = "detach"
    /\ toServer' = Tail(toServer)
    /\ handling' = IF IsLive(Head(toServer).id) THEN Append(handling, Head(toServer))
                                                ELSE handling
    /\ UNCHANGED <<serverVars, subscriptions, querying, toClient, sessionVars,
                   clientVars, notificationQueue>>

(* The reply to a detach settles the caller and changes nothing else.      *)
FinishDetach ==
    /\ handling # <<>> /\ Head(handling).type = "detach"
    /\ handling' = Tail(handling)
    /\ subscriptions' = subscriptions \ {Head(handling).id}
    /\ UNCHANGED <<serverVars, querying, toServer, toClient, sessionVars, clientVars,
                   notificationQueue>>

-----------------------------------------------------------------------------
(* The application's calls on the connection.                              *)

(* History: the application attached or released a resource while the      *)
(* restore loop ran, a second proxy was made for one link, or an id came   *)
(* to name another resource after a restart and a reattach took the entry  *)
(* of the proxy it named before.  None of these is an error of the         *)
(* application; the properties that need their absence say so.             *)
Disturbance(happened) == disturbed' = (disturbed \/ happened)

(* attach(): the tracked proxy if there is one, or else a request, unless  *)
(* the same attachment is in progress and is shared.                       *)
Attach(id) ==
    /\ connected /\ id \notin attachRequests
    /\ IF attachedResources[id] # None
         THEN /\ held' = held \cup {attachedResources[id]}
              /\ held' # held
              /\ UNCHANGED <<attachRequests, toServer>>
         ELSE /\ id <= resourceCounter
              /\ Cardinality(attachRequests) < Cardinality({o \in Obj : proxy[o] = Unused})
              /\ attachRequests' = attachRequests \cup {id}
              /\ toServer' = Append(toServer, [type |-> "attach", id |-> id])
              /\ UNCHANGED held
    /\ Disturbance(Restoring)
    /\ UNCHANGED <<serverVars, serverSession, toClient, sessionVars, proxy,
                   attachedResources, decoding, restore, reattaching, late, notificationQueue>>

Detach_AsksFirst(o) ==
    /\ o \in held
    /\ held' = held \ {o}
    /\ attachedResources' = IF connected
                              THEN [attachedResources EXCEPT ![proxy[o].id] = None]
                              ELSE attachedResources
    /\ toServer' = IF connected
                     THEN Append(toServer, [type |-> "detach", id |-> proxy[o].id])
                     ELSE toServer
    /\ Disturbance(Restoring)
    /\ UNCHANGED <<serverVars, serverSession, toClient, sessionVars, proxy, attachRequests,
                   decoding, restore, reattaching, late, notificationQueue>>

(* detach(): forget the id first, then tell the server if there is one.    *)
Detach(o) ==
    /\ o \in held
    /\ held' = held \ {o}
    /\ attachedResources' = [attachedResources EXCEPT ![proxy[o].id] = None]
    /\ toServer' = IF connected
                     THEN Append(toServer, [type |-> "detach", id |-> proxy[o].id])
                     ELSE toServer
    /\ Disturbance(Restoring)
    /\ UNCHANGED <<serverVars, serverSession, toClient, sessionVars, proxy, attachRequests,
                   decoding, restore, reattaching, late, notificationQueue>>

-----------------------------------------------------------------------------
(* The client's handling of replies.                                       *)

(* setPropertySnapshot for each of the values: unconditional.              *)
Merge(r, values) ==
    LET stamp(p) == [gen |-> r.gen, rev |-> values[p]] IN
    [r EXCEPT !.cache = [p \in Prop |-> IF p \in DOMAIN values THEN stamp(p) ELSE @[p]],
              !.propertyCursors =
                 [p \in Prop |-> IF p \in DOMAIN values THEN stamp(p) ELSE @[p]]]

Identify_CursorReset(r, m) ==
    [r EXCEPT !.id = m.id, !.gen = None, !.rev = 0, !.link = m.link]

(* setRemoteIdentity: the cursor moves at once, and the guards of the      *)
(* properties are dropped with their generation.                           *)
Identify(r, m) ==
    [r EXCEPT !.id = m.id, !.gen = m.gen, !.rev = m.rev, !.link = m.link,
              !.propertyCursors = IF r.gen = m.gen THEN @ ELSE [p \in Prop |-> NoStamp]]

NewProxy(m) ==
    [link |-> m.link, id |-> m.id, gen |-> m.gen, rev |-> m.rev,
     cache |-> [p \in Prop |-> NoStamp], propertyCursors |-> [p \in Prop |-> NoStamp]]

(* The tail of attachWithTypeDef, once the values are decoded.             *)
Track(o, id) ==
    /\ attachedResources' = [attachedResources EXCEPT ![id] = o]
    /\ attachRequests' = attachRequests \ {id}
    /\ held' = held \cup {o}

(* The tail of reattach: the entry of the old id goes if it is still ours. *)
Rekey(o, old, id) ==
    attachedResources' =
        [i \in Id |-> IF i = id THEN o
                      ELSE IF i = old /\ attachedResources[i] = o THEN None
                      ELSE attachedResources[i]]

Receiving(type) ==
    /\ toClient # <<>> /\ Head(toClient).type = type
    /\ toClient' = Tail(toClient)

(* The await of the decode does not resume within the task of the reply.   *)
DecodeLater(o, old, m) ==
    /\ Cardinality(late \cup {o}) <= MaxLate
    /\ late' = late \cup {o}
    /\ decoding' = decoding \cup {[obj |-> o, old |-> old, reply |-> m]}

ReceiveAttached(o) ==
    /\ Receiving("attached") /\ proxy[o] = Unused
    /\ LET m == Head(toClient) IN
       /\ \/ /\ proxy' = [proxy EXCEPT ![o] = Merge(NewProxy(m), m.values)]
             /\ Track(o, m.id)
             /\ UNCHANGED <<decoding, late>>
          \/ /\ DecodeLater(o, m.id, m)
             /\ proxy' = [proxy EXCEPT ![o] = NewProxy(m)]
             /\ UNCHANGED <<attachedResources, attachRequests, held>>
       /\ Disturbance(\E i \in Id : /\ attachedResources[i] # None
                                    /\ proxy[attachedResources[i]].link = m.link)
    /\ UNCHANGED <<serverVars, serverSession, toServer, sessionVars, restore,
                   reattaching, notificationQueue>>

ReceiveRefused ==
    /\ Receiving("refused")
    /\ attachRequests' = attachRequests \ {Head(toClient).id}
    /\ UNCHANGED <<serverVars, serverSession, toServer, sessionVars, proxy,
                   attachedResources, decoding, restore, reattaching, late, held, disturbed,
                   notificationQueue>>

ReceiveReattached ==
    /\ Receiving("reattached")
    /\ LET m == Head(toClient)
           o == reattaching
           old == proxy[o].id IN
       /\ Disturbance(attachedResources[m.id] \notin {None, o})
       /\ \/ /\ proxy' = [proxy EXCEPT ![o] = Merge(Identify(@, m), m.values)]
             /\ Rekey(o, old, m.id)
             /\ reattaching' = None
             /\ UNCHANGED <<decoding, late>>
          \/ /\ DecodeLater(o, old, m)
             /\ proxy' = [proxy EXCEPT ![o] = Identify(@, m)]
             /\ UNCHANGED <<attachedResources, reattaching>>
    /\ UNCHANGED <<serverVars, serverSession, toServer, sessionVars, attachRequests,
                   restore, held, notificationQueue>>

(* The values of such a reply are decoded at last: merge them and track.   *)
FinishDecode(d) ==
    /\ d \in decoding
    /\ decoding' = decoding \ {d}
    /\ proxy' = [proxy EXCEPT ![d.obj] = Merge(@, d.reply.values)]
    /\ IF d.reply.type = "attached"
         THEN Track(d.obj, d.reply.id) /\ UNCHANGED reattaching
         ELSE /\ Rekey(d.obj, d.old, d.reply.id)
              /\ reattaching' = None
              /\ UNCHANGED <<attachRequests, held>>
    /\ UNCHANGED <<serverVars, serverSession, toServer, toClient, sessionVars, restore,
                   late, disturbed, notificationQueue>>

ReceiveNotFound_EndsLoop ==
    /\ Receiving("notFound")
    /\ reattaching' = None
    /\ restore' = Nothing
    /\ UNCHANGED <<serverVars, serverSession, toServer, sessionVars, proxy,
                   attachedResources, attachRequests, decoding, late, held, disturbed,
                   notificationQueue>>

(* A resource that is gone is counted as failed and the loop goes on.      *)
ReceiveNotFound ==
    /\ Receiving("notFound")
    /\ reattaching' = None
    /\ UNCHANGED <<serverVars, serverSession, toServer, sessionVars, proxy,
                   attachedResources, attachRequests, decoding, restore, late, held, disturbed,
                   notificationQueue>>

(* Any other error ends the loop; the connection stays up.                 *)
ReceiveRejected ==
    /\ Receiving("rejected")
    /\ reattaching' = None
    /\ restore' = Nothing
    /\ UNCHANGED <<serverVars, serverSession, toServer, sessionVars, proxy,
                   attachedResources, attachRequests, decoding, late, held, disturbed,
                   notificationQueue>>

-----------------------------------------------------------------------------
(* The client's handling of notifications.                                 *)

EnqueueNotification ==
    /\ Receiving("property") \/ Receiving("event")
    /\ notificationQueue' = Append(notificationQueue, Head(toClient))
    /\ UNCHANGED <<serverVars, serverSession, toServer, sessionVars, clientVars>>

(* observeCursor: the proxy's cursor follows the newest change seen.       *)
ObserveCursor(r, m) ==
    IF r.gen # m.gen \/ m.rev > r.rev THEN [r EXCEPT !.gen = m.gen, !.rev = m.rev] ELSE r

UpdateProperty_Unguarded(r, m) ==
    LET stamp == [gen |-> m.gen, rev |-> m.rev] IN
    [ObserveCursor(r, m) EXCEPT !.cache[m.prop] = stamp, !.propertyCursors[m.prop] = stamp]

(* updateProperty: a change the property has already seen is dropped.      *)
UpdateProperty(r, m) ==
    LET seen == r.propertyCursors[m.prop]
        stamp == [gen |-> m.gen, rev |-> m.rev] IN
    IF seen.gen = m.gen /\ seen.rev >= m.rev
      THEN r
      ELSE [ObserveCursor(r, m) EXCEPT !.cache[m.prop] = stamp,
                                       !.propertyCursors[m.prop] = stamp]

ProcessNotification ==
    /\ notificationQueue # <<>>
    /\ notificationQueue' = Tail(notificationQueue)
    /\ LET m == Head(notificationQueue)
           o == attachedResources[m.id] IN
       IF o = None
         THEN UNCHANGED proxy
         ELSE proxy' = [proxy EXCEPT ![o] = IF m.type = "property"
                                              THEN UpdateProperty(@, m)
                                              ELSE ObserveCursor(@, m)]
    /\ UNCHANGED <<serverVars, serverSession, toServer, toClient, sessionVars,
                   attachedResources, attachRequests, decoding, restore, reattaching,
                   late, held, disturbed>>

-----------------------------------------------------------------------------
(* The life of the connection.                                             *)

LoseConnection_KeepsQueue ==
    /\ connected' = FALSE
    /\ subscriptions' = {} /\ handling' = <<>> /\ querying' = None
    /\ toServer' = <<>> /\ toClient' = <<>>
    /\ attachRequests' = {} /\ decoding' = {}
    /\ restore' = Nothing /\ reattaching' = None
    /\ UNCHANGED <<sessions, proxy, attachedResources, late, held, notificationQueue>>

(* disconnected() on both sides: requests, attachments and decodes in      *)
(* flight fail, queued notifications are dropped, the server's per-        *)
(* connection tables are cleared.  A proxy keeps its cursor and its cache. *)
LoseConnection ==
    /\ connected' = FALSE
    /\ subscriptions' = {} /\ handling' = <<>> /\ querying' = None
    /\ toServer' = <<>> /\ toClient' = <<>>
    /\ attachRequests' = {} /\ decoding' = {}
    /\ notificationQueue' = <<>>
    /\ restore' = Nothing /\ reattaching' = None
    /\ UNCHANGED <<sessions, proxy, attachedResources, late, held>>

Disconnect ==
    /\ connected
    /\ LoseConnection
    /\ UNCHANGED <<serverVars, disturbed>>

(* The server process restarts: new instances, ids from one again.         *)
ServerRestart ==
    /\ restarts < MaxRestart
    /\ restarts' = restarts + 1
    /\ instance' = [l \in Link |-> Absent]
    /\ resourceCounter' = 0
    /\ LoseConnection
    /\ UNCHANGED <<put, disturbed>>

(* connect() the first time, reconnect() later: the restore loop runs over *)
(* the entries tracked at that moment.                                     *)
Connect ==
    /\ ~connected /\ sessions < MaxSession
    /\ connected' = TRUE
    /\ sessions' = sessions + 1
    /\ restore' = attachedResources
    /\ UNCHANGED <<serverVars, serverSession, toServer, toClient, proxy,
                   attachedResources, attachRequests, decoding, reattaching, late,
                   held, disturbed, notificationQueue>>

(* One turn of restoreAttachedResources: reattach by link from the cursor. *)
Reattach(i) ==
    /\ connected /\ reattaching = None /\ restore[i] # None
    /\ reattaching' = restore[i]
    /\ restore' = [restore EXCEPT ![i] = None]
    /\ LET r == proxy[restore[i]] IN
       toServer' = Append(toServer, [type |-> "reattach", link |-> r.link,
                                     gen |-> r.gen, rev |-> r.rev])
    /\ UNCHANGED <<serverVars, serverSession, toClient, sessionVars, proxy,
                   attachedResources, attachRequests, decoding, late, held, disturbed,
                   notificationQueue>>

-----------------------------------------------------------------------------
ServerResources == \E l \in Link : Put(l) \/ Remove(l) \/ RaiseEvent(l)
                                     \/ \E p \in Prop : Modify(l, p)
ServerHandlers == ReceiveAttach \/ FinishAttach \/ ReceiveReattach \/ FinishReattach
                    \/ ReceiveDetach \/ FinishDetach
Application == (\E id \in Id : Attach(id)) \/ (\E o \in Obj : Detach(o))
ClientReplies == \/ \E o \in Obj : ReceiveAttached(o)
                 \/ ReceiveRefused \/ ReceiveReattached
                 \/ \E d \in decoding : FinishDecode(d)
                 \/ ReceiveNotFound \/ ReceiveRejected
ClientNotifications == EnqueueNotification \/ ProcessNotification
Session == Disconnect \/ ServerRestart \/ Connect \/ \E i \in Id : Reattach(i)

Next == ServerResources \/ ServerHandlers \/ Application \/ ClientReplies
          \/ ClientNotifications \/ Session

Spec == Init /\ [][Next]_vars

-----------------------------------------------------------------------------
(* Properties.                                                             *)

TypeOK ==
    /\ instance \in [Link -> Instance \cup {Absent}]
    /\ put \in [Link -> 0 .. MaxGeneration]
    /\ resourceCounter \in 0 .. MaxId
    /\ restarts \in 0 .. MaxRestart
    /\ subscriptions \subseteq Id
    /\ handling \in Seq(DirectRequest)
    /\ querying \in ReattachRequest \cup {None}
    /\ toServer \in Seq(Request)
    /\ toClient \in Seq(Message)
    /\ connected \in BOOLEAN
    /\ sessions \in 0 .. MaxSession
    /\ proxy \in [Obj -> Proxy \cup {Unused}]
    /\ attachedResources \in [Id -> Obj \cup {None}]
    /\ attachRequests \subseteq Id
    /\ notificationQueue \in Seq(Notification)
    /\ decoding \subseteq [obj : Obj, old : Id, reply : Answer]
    /\ restore \in [Id -> Obj \cup {None}]
    /\ reattaching \in Obj \cup {None}
    /\ late \subseteq Obj
    /\ held \subseteq Obj
    /\ disturbed \in BOOLEAN

(* Nothing is in flight in either direction and no handler is waiting.     *)
Quiescent ==
    /\ connected
    /\ toServer = <<>> /\ toClient = <<>> /\ notificationQueue = <<>>
    /\ handling = <<>> /\ querying = None
    /\ decoding = {} /\ ~Restoring

Prompt(o) == o \notin late
Tracked(o) == \E id \in Id : attachedResources[id] = o

(* The proxy shows the value of every property of the resource.            *)
Mirrors(o) ==
    LET inst == instance[proxy[o].link] IN
    \A p \in Prop : proxy[o].cache[p] = [gen |-> inst.gen, rev |-> inst.age[p]]

(* The instance the proxy was attached to is still the one of its link.    *)
Current(o) == Live(proxy[o].link) /\ instance[proxy[o].link].gen = proxy[o].gen

(* Once everything in flight has arrived, the proxy tracked under an id    *)
(* the server notifies about shows what that resource holds, as the        *)
(* comment of class EpResource says, whatever drops, restarts, detaches    *)
(* and reattaches came before; provided that every snapshot was decoded    *)
(* with its reply (applyAttach, reattach, dispatchNotification).           *)
FreshWhenSubscribed ==
    (late = {} /\ Quiescent) => \A id \in subscriptions :
        LET o == attachedResources[id] IN
        (o # None /\ IsLive(id)) => proxy[o].link = LinkOf(id) /\ Mirrors(o)

(* A proxy the application holds is kept up to date by the connection: it  *)
(* is tracked, the server notifies about it, and it shows what the         *)
(* resource holds, until the resource is removed or made anew.             *)
HeldIsKeptFresh ==
    (Quiescent /\ ~disturbed) => \A o \in held :
        Current(o) => /\ proxy[o].id \in subscriptions
                      /\ attachedResources[proxy[o].id] = o
                      /\ Prompt(o) => Mirrors(o)

(* Reattaching from the cursor of a proxy loses nothing: every change of   *)
(* a property up to the cursor is in the cache.                            *)
CursorCovered(o) ==
    LET r == proxy[o]
        inst == instance[r.link] IN
    (Live(r.link) /\ r.gen = inst.gen) =>
        /\ r.rev <= inst.rev
        /\ \A p \in Prop : inst.age[p] <= r.rev =>
              r.cache[p] = [gen |-> inst.gen, rev |-> inst.age[p]]

(* ... for the proxies whose snapshots were decoded with their reply.      *)
CursorHonest == \A o \in Obj : (Tracked(o) /\ Prompt(o)) => CursorCovered(o)

(* A proxy shows values of its own resource only, although instance ids    *)
(* are handed out again after a restart of the server.  While a delta is   *)
(* decoded late the id it came for may still name the proxy of another     *)
(* resource, which then takes the notifications (reattach).                *)
NoCrossTalk ==
    late = {} => \A o \in Obj : proxy[o] # Unused =>
        /\ proxy[o].gen[1] = proxy[o].link
        /\ \A p \in Prop : proxy[o].cache[p] # NoStamp =>
              proxy[o].cache[p].gen[1] = proxy[o].link

(* A proxy the application released is not tracked by the connection, as   *)
(* long as it was not released while the restore loop ran, which works on  *)
(* a copy of the table; and no delta was decoded late: a loss in between   *)
(* leaves a proxy under its old id, where detach() does not find it.       *)
ReleasedStaysReleasedIfCalm ==
    (late = {} /\ ~disturbed) =>
        \A id \in Id : attachedResources[id] # None => attachedResources[id] \in held

(* What a proxy shows never goes back to an earlier value or generation.   *)
NeverRegresses ==
    [][\A o \in Obj : (proxy[o] # Unused /\ Prompt(o)) => \A p \in Prop :
          LET before == proxy[o].cache[p]
              after == proxy'[o].cache[p] IN
          before # NoStamp => \/ after.gen[2] > before.gen[2]
                              \/ after.gen = before.gen /\ after.rev >= before.rev]_vars
=============================================================================
