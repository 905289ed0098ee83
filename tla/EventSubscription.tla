-------------------------- MODULE EventSubscription --------------------------
(***************************************************************************)
(* Events of one resource, from the server that raises them to the         *)
(* listeners of one remote proxy: the journal (Instance.ts, MemoryStore.ts *)
(* through module ResourceJournal), the subscribe, unsubscribe, attach,    *)
(* reattach and detach handlers (EpConnection.ts), and the reconciliation  *)
(* of listeners with subscriptions in the proxy (EpResource.ts).           *)
(*                                                                         *)
(* A handler checks its request, awaits the managers and finishes: two     *)
(* actions, in the order of arrival, since without a delaying rate policy  *)
(* the await is one turn of the microtask queue.  Property changes appear  *)
(* as "other" changes: they take a revision and move the proxy's cursor.   *)
(*                                                                         *)
(* Abstractions.  The proxy is released only when no request of it is in   *)
(* flight.  Values, times, and the property cache are left out.            *)
(***************************************************************************)
EXTENDS ResourceJournal, SequencesExt

CONSTANTS
    Event,          \* the events of the resource
    Subscribable,   \* those delivered to subscribers only
    Historical,     \* those retained in the journal
    None,           \* no cursor
    JournalSize,    \* maximumEntriesPerResource
    PageLimit,      \* entries the replay loop asks for at a time
    MaxRevision,    \* bound: changes of the first generation, half of it in the second
    MaxGeneration,  \* bound: lives of the server process
    MaxFault,       \* bound: connections lost and proxies released, together
    MaxListener     \* bound: listeners of one event

Other == "other"    \* the resource's properties, which are no events

ASSUME EventSubscriptionAssumption ==
    /\ Subscribable \subseteq Event /\ Historical \subseteq Event
    /\ None \notin Event /\ None \notin [gen : Nat, rev : Nat]
    /\ Other \notin Event /\ IsFiniteSet(Event)
    /\ JournalSize \in Nat \ {0} /\ PageLimit \in Nat \ {0}
    /\ MaxRevision \in Nat /\ MaxGeneration \in Nat \ {0} /\ MaxFault \in Nat
    /\ MaxListener \in Nat

VARIABLES
    journal,            \* server: the journal of the resource, its head the cursor
    attached,           \* server: this connection is subscribed to the instance
    eventSubscriptions, \* server: the events this connection subscribed to
    handling,           \* server: requests at their await
    toServer, toClient, \* the two directions of the connection
    connected, sessions,
    tracked,            \* client: the proxy is in attachedResources
    cursor,             \* client: the cursor of the proxy
    eventCursors,       \* client: the replay cursor of each event, if any
    listeners,          \* client: how many listeners each event has
    subscribedEvents,   \* client: what it believes the server delivers
    reconciling,        \* client: events with a reconciliation under way
    notificationQueue,  \* client: notifications, and replies waiting behind them
    releases,
    occurred, from, heard, lapse, resolved    \* history, see Feed

server == <<journal, attached, eventSubscriptions, handling>>
session == <<connected, sessions, releases>>
proxy == <<tracked, cursor, eventCursors, listeners, subscribedEvents, reconciling>>
feed == <<occurred, from, heard, lapse, resolved>>
vars == <<server, toServer, toClient, session, proxy, notificationQueue, feed>>

-----------------------------------------------------------------------------
Revision == 0 .. MaxRevision
Position == [gen : 1 .. MaxGeneration, rev : Revision]

Head1 == journal.head
Gated(e) == e \in Subscribable
OnWire(e) == e \in Subscribable \cup Historical
Wanted(e) == listeners[e] > 0

(* Bounds what goes wrong.                                                 *)
Fault == sessions - 1 + releases < MaxFault

Notice(e, c) == [type |-> "event", event |-> e, cursor |-> c]
About(m, e) == m.type \in {"subscribe", "unsubscribe", "subscribed", "unsubscribed",
                           "failed", "event"} /\ m.event = e

(* Nothing about an event is under way in either direction.                *)
Quiet(e) ==
    /\ e \notin subscribedEvents /\ e \notin reconciling
    /\ \A q \in {toServer, toClient, handling, notificationQueue} :
         \A i \in DOMAIN q : ~About(q[i], e)

Init ==
    /\ journal = EmptyJournal(Cursor(1, 0))
    /\ attached = TRUE /\ eventSubscriptions = {} /\ handling = <<>>
    /\ toServer = <<>> /\ toClient = <<>>
    /\ connected = TRUE /\ sessions = 1 /\ releases = 0
    /\ tracked = TRUE /\ cursor = Cursor(1, 0)
    /\ eventCursors = [e \in Event |-> None]
    /\ listeners = [e \in Event |-> 0]
    /\ subscribedEvents = {} /\ reconciling = {} /\ notificationQueue = <<>>
    /\ occurred = [e \in Event |-> {}] /\ from = [e \in Event |-> 0]
    /\ heard = [e \in Event |-> <<>>] /\ lapse = [e \in Event |-> {}]
    /\ resolved = [e \in Event |-> 0]

-----------------------------------------------------------------------------
(* The resource changes.                                                   *)

Advance(member, retain) ==
    /\ Head1.rev < MaxRevision \div Head1.gen
    /\ journal' = AppendEntry(journal, Cursor(Head1.gen, Head1.rev + 1), member, retain, JournalSize)

(* emitEventByIndex, and the connection's listener: a subscribable event   *)
(* goes to connections that subscribed, any other to all attached.         *)
Delivers(e) == attached /\ (Gated(e) => e \in eventSubscriptions)

EmitEvent(e) ==
    /\ Advance(e, e \in Historical)
    /\ toClient' = IF Delivers(e) THEN Append(toClient, Notice(e, journal'.head)) ELSE toClient
    /\ occurred' = [occurred EXCEPT ![e] = @ \cup {journal'.head.rev}]
    /\ UNCHANGED <<attached, eventSubscriptions, handling, toServer, session, proxy,
                   notificationQueue, from, heard, lapse, resolved>>

(* A property that is historical is assigned.                              *)
Modify ==
    /\ Advance(Other, TRUE)
    /\ toClient' = IF attached
                     THEN Append(toClient, [type |-> "property", cursor |-> journal'.head])
                     ELSE toClient
    /\ UNCHANGED <<attached, eventSubscriptions, handling, toServer, session, proxy,
                   notificationQueue, feed>>

-----------------------------------------------------------------------------
(* The server's handlers.                                                  *)

Reply(m) == toClient' = Append(toClient, m)
Failed(m) == Reply([type |-> "failed", event |-> m.event])

(* What a handler checks before it awaits the managers.                    *)
Admitted(m) ==
    CASE m.type = "subscribe" -> attached
      [] m.type = "unsubscribe" -> attached /\ m.event \in eventSubscriptions
      [] OTHER -> TRUE

ReceiveRequest ==
    /\ toServer # <<>>
    /\ toServer' = Tail(toServer)
    /\ IF Admitted(Head(toServer))
         THEN handling' = Append(handling, Head(toServer)) /\ UNCHANGED toClient
         ELSE Failed(Head(toServer)) /\ UNCHANGED handling
    /\ UNCHANGED <<journal, attached, eventSubscriptions, session, proxy,
                   notificationQueue, feed>>

Finishing(type) ==
    /\ handling # <<>> /\ Head(handling).type = type
    /\ handling' = Tail(handling)
    /\ UNCHANGED <<journal, toServer, session, proxy, notificationQueue, feed>>

(* The occurrences of an event at some revisions, in their order.          *)
InOrder(e, revs) ==
    [i \in 1 .. Cardinality(revs) |->
       Notice(e, Cursor(Head1.gen, CHOOSE r \in revs : Rank(r, revs) = i))]

(* The replay loop asks page after page; no change comes between them.     *)
Replay_Inclusive(e, after) ==
    InOrder(e, {r \in Revision : \E i \in DOMAIN journal.entries :
                   journal.entries[i] = Entry(r, e) /\ r >= after.rev})
Replay(e, after) ==
    LET Read[at \in Revision] ==
            LET page == QueryJournal(journal, Cursor(after.gen, at), Head1.rev, {e}, PageLimit)
            IN  page.entries \cup IF page.hasMore THEN Read[page.next.rev] ELSE {}
    IN  InOrder(e, Revision \cap Revisions(Read[after.rev]))

Expired(e, after) == QueryJournal(journal, after, Head1.rev, {e}, MaxRevision).expired

(* A cursor too old ends the subscription that was just made.              *)
FinishSubscribe ==
    /\ Finishing("subscribe")
    /\ LET m == Head(handling)
           replayed == IF m.event \in Historical THEN Replay(m.event, m.after) ELSE <<>>
           refused == \/ m.event \in eventSubscriptions
                      \/ m.event \in Historical /\ Expired(m.event, m.after)
       IN  IF refused
             THEN Failed(m) /\ UNCHANGED eventSubscriptions
             ELSE /\ eventSubscriptions' = eventSubscriptions \cup {m.event}
                  /\ toClient' = (toClient \o replayed)
                       \o <<[type |-> "subscribed", event |-> m.event, head |-> Head1.rev]>>
    /\ UNCHANGED attached

FinishUnsubscribe ==
    /\ Finishing("unsubscribe")
    /\ eventSubscriptions' = eventSubscriptions \ {Head(handling).event}
    /\ Reply([type |-> "unsubscribed", event |-> Head(handling).event])
    /\ UNCHANGED attached

FinishAttach ==
    /\ Finishing("attach")
    /\ attached' = TRUE
    /\ Reply([type |-> "attached", cursor |-> Head1])
    /\ UNCHANGED eventSubscriptions

(* Detaching drops the notifications, and leaves the event subscriptions.  *)
FinishDetach ==
    /\ Finishing("detach")
    /\ attached' = FALSE
    /\ UNCHANGED <<eventSubscriptions, toClient>>

-----------------------------------------------------------------------------
(* The proxy's reconciliation of listeners and subscriptions.              *)

Subscription(e) ==
    [type |-> "subscribe", event |-> e,
     after |-> IF eventCursors'[e] = None THEN cursor' ELSE eventCursors'[e]]

(* One turn of the loop of reconcileSubscription: done when belief and     *)
(* wish agree, else a request, which fails at once without a connection.   *)
Turn(e) ==
    LET wanted == listeners'[e] > 0
        agree == wanted <=> e \in subscribedEvents'
    IN  IF agree \/ ~connected
          THEN reconciling' = reconciling \ {e} /\ UNCHANGED toServer
          ELSE /\ reconciling' = reconciling \cup {e}
               /\ toServer' = Append(toServer, IF wanted THEN Subscription(e)
                                                ELSE [type |-> "unsubscribe", event |-> e])

Reconcile(e) ==
    IF e \in reconciling \/ ~OnWire(e) THEN UNCHANGED <<reconciling, toServer>> ELSE Turn(e)

(* History: the feed of the first listener of an event starts here.        *)
Starts(e, rev, lapses) ==
    IF Wanted(e)
      THEN /\ lapse' = [lapse EXCEPT ![e] = @ \cup lapses]
           /\ UNCHANGED <<from, heard, resolved>>
      ELSE /\ from' = [from EXCEPT ![e] = rev]
           /\ heard' = [heard EXCEPT ![e] = <<>>]
           /\ resolved' = [resolved EXCEPT ![e] = 0]
           /\ lapse' = [lapse EXCEPT ![e] = lapses]

(* on() and onAsync(): from the event's replay cursor, or the proxy's.     *)
On(e) ==
    /\ tracked /\ listeners[e] < MaxListener
    /\ listeners' = [listeners EXCEPT ![e] = @ + 1]
    /\ UNCHANGED <<tracked, cursor, eventCursors, subscribedEvents>>
    /\ Reconcile(e)
    /\ LET start == IF eventCursors[e] = None THEN cursor ELSE eventCursors[e] IN
       Starts(e, start.rev,
              IF Wanted(e) THEN {}
              ELSE IF releases > 0 \/ start.gen # Head1.gen THEN {"foreign"}
              ELSE IF ~Quiet(e) THEN {"busy"} ELSE {})
    /\ UNCHANGED <<server, toClient, session, notificationQueue, occurred>>

(* onFromAsync(): from a cursor the application kept.                      *)
OnFrom(e, rev) ==
    /\ tracked /\ listeners[e] < MaxListener /\ e \in Historical /\ rev <= cursor.rev
    /\ listeners' = [listeners EXCEPT ![e] = @ + 1]
    /\ eventCursors' = [eventCursors EXCEPT ![e] = Cursor(cursor.gen, rev)]
    /\ UNCHANGED <<tracked, cursor, subscribedEvents>>
    /\ Reconcile(e)
    /\ Starts(e, rev,
              IF Wanted(e) \/ ~Quiet(e) THEN {"busy"}
              ELSE IF releases > 0 \/ cursor.gen # Head1.gen THEN {"foreign"} ELSE {})
    /\ UNCHANGED <<server, toClient, session, notificationQueue, occurred>>

Off(e) ==
    /\ listeners[e] > 0
    /\ listeners' = [listeners EXCEPT ![e] = @ - 1]
    /\ UNCHANGED <<tracked, cursor, eventCursors, subscribedEvents>>
    /\ Reconcile(e)
    /\ UNCHANGED <<server, toClient, session, notificationQueue, feed>>

-----------------------------------------------------------------------------
(* The client handles frames: a reply at once, a notification through its  *)
(* queue.                                                                  *)

Frame(type) == toClient # <<>> /\ Head(toClient).type = type /\ toClient' = Tail(toClient)

Queued(m) == notificationQueue' = Append(notificationQueue, m)

ReceiveNotification ==
    /\ Frame("event") \/ Frame("property")
    /\ Queued(Head(toClient))
    /\ UNCHANGED <<server, toServer, session, proxy, feed>>

(* subscribe() waits for the notifications that came before its reply.     *)
Barrier_None(m) == notificationQueue' = <<m>> \o notificationQueue
Barrier(m) == Queued(m)

ReceiveSubscribed ==
    /\ Frame("subscribed")
    /\ Barrier(Head(toClient))
    /\ UNCHANGED <<server, toServer, session, proxy, feed>>

ReceiveUnsubscribed ==
    /\ Frame("unsubscribed")
    /\ subscribedEvents' = subscribedEvents \ {Head(toClient).event}
    /\ UNCHANGED <<tracked, cursor, eventCursors, listeners>>
    /\ Turn(Head(toClient).event)
    /\ UNCHANGED <<server, session, notificationQueue, feed>>

(* The loop ends with its request, and lets the next on() or off() start.  *)
Abandon_Stuck(e) == reconciling
Abandon(e) == reconciling \ {e}

ReceiveFailed ==
    /\ Frame("failed")
    /\ LET e == Head(toClient).event IN
       /\ reconciling' = Abandon(e)
       /\ lapse' = IF Wanted(e) /\ eventCursors[e] = None
                     THEN [lapse EXCEPT ![e] = @ \cup {"unplaced"}] ELSE lapse
    /\ UNCHANGED <<server, toServer, session, tracked, cursor, eventCursors, listeners,
                   subscribedEvents, notificationQueue, occurred, from, heard, resolved>>

Newer(c, d) == d = None \/ d.gen # c.gen \/ c.rev > d.rev

(* applyEvent drops what is not newer than the event's cursor.             *)
Applies(e, c) == Newer(c, eventCursors[e])

Observe(c) == cursor' = IF Newer(c, cursor) THEN c ELSE cursor

ProcessNotification ==
    /\ notificationQueue # <<>>
    /\ notificationQueue' = Tail(notificationQueue)
    /\ LET m == Head(notificationQueue) IN
       CASE m.type = "property" ->
              /\ IF tracked THEN Observe(m.cursor) ELSE UNCHANGED cursor
              /\ UNCHANGED <<eventCursors, subscribedEvents, reconciling, toServer, feed>>
         [] m.type = "event" /\ ~(tracked /\ Applies(m.event, m.cursor)) ->
              UNCHANGED <<cursor, eventCursors, subscribedEvents, reconciling, toServer, feed>>
         [] m.type = "event" /\ tracked /\ Applies(m.event, m.cursor) ->
              /\ eventCursors' = [eventCursors EXCEPT ![m.event] = m.cursor]
              /\ Observe(m.cursor)
              /\ heard' = IF Wanted(m.event)
                            THEN [heard EXCEPT ![m.event] = Append(@, m.cursor.rev)]
                            ELSE heard
              /\ UNCHANGED <<subscribedEvents, reconciling, toServer,
                             occurred, from, lapse, resolved>>
         [] m.type = "subscribed" ->
              /\ subscribedEvents' = subscribedEvents \cup {m.event}
              /\ UNCHANGED <<cursor, eventCursors, listeners>>
              /\ Turn(m.event)
              /\ resolved' = IF Wanted(m.event) THEN [resolved EXCEPT ![m.event] = m.head]
                                                ELSE resolved
              /\ UNCHANGED <<occurred, from, heard, lapse>>
    /\ UNCHANGED <<server, toClient, session, tracked, listeners>>

-----------------------------------------------------------------------------
(* Losing the connection, and finding it again.                            *)

(* disconnected() on both sides.  A reply that waits behind notifications  *)
(* is let go at once, and believed, though what it waited for is dropped   *)
(* (resolved leaves this out); requests in flight fail.                    *)
DropConnection ==
    /\ connected' = FALSE
    /\ toServer' = <<>> /\ toClient' = <<>>
    /\ attached' = FALSE /\ eventSubscriptions' = {} /\ handling' = <<>>
    /\ notificationQueue' = <<>>
    /\ subscribedEvents' = subscribedEvents \cup
         {m.event : m \in {x \in ToSet(notificationQueue) : x.type = "subscribed"}}
    /\ reconciling' = {}
    /\ UNCHANGED <<sessions, releases, tracked, cursor, eventCursors, listeners,
                   from, heard, resolved>>

Disconnect ==
    /\ connected /\ Fault
    /\ DropConnection
    /\ UNCHANGED <<journal, occurred, lapse>>

(* The server process starts anew, with a store that forgets.              *)
Restart ==
    /\ connected /\ Fault /\ Head1.gen < MaxGeneration
    /\ DropConnection
    /\ journal' = EmptyJournal(Cursor(Head1.gen + 1, 0))
    /\ occurred' = [e \in Event |-> {}]
    /\ lapse' = [e \in Event |-> lapse[e] \cup {"foreign"}]

Reconnect ==
    /\ ~connected
    /\ connected' = TRUE /\ sessions' = sessions + 1
    /\ toServer' = IF tracked THEN <<[type |-> "attach"]>> ELSE <<>>
    /\ UNCHANGED <<server, toClient, releases, proxy, notificationQueue, feed>>

(* resubscribeAfterReconnect: what was believed is forgotten, and every    *)
(* event with listeners is reconciled.                                     *)
Resubscribe_Keeps ==
    UNCHANGED <<subscribedEvents, reconciling, toServer>>
Resubscribe ==
    LET again == {e \in Event : OnWire(e) /\ Wanted(e)} IN
    /\ subscribedEvents' = {}
    /\ reconciling' = again
    /\ toServer' = toServer \o [i \in 1 .. Cardinality(again) |-> Subscription(SetToSeq(again)[i])]

(* The reply to attach() for a new proxy, to reattach() for a known one.   *)
(* A new generation moves every replay cursor to its head.                 *)
Replace(c) ==
    IF cursor.gen # c.gen THEN [e \in Event |-> c] ELSE eventCursors

ReceiveAttached ==
    /\ Frame("attached")
    /\ LET c == Head(toClient).cursor IN
       IF tracked
         THEN /\ cursor' = c
              /\ eventCursors' = Replace(c)
              /\ Resubscribe
              /\ lapse' = [e \in Event |->
                             lapse[e] \cup IF eventCursors[e] = None /\ Wanted(e)
                                             THEN {"unplaced"} ELSE {}]
         ELSE /\ cursor' = c
              /\ eventCursors' = [e \in Event |-> None]
              /\ UNCHANGED <<subscribedEvents, reconciling, toServer, lapse>>
    /\ tracked' = TRUE
    /\ UNCHANGED <<server, session, listeners, notificationQueue,
                   occurred, from, heard, resolved>>

(* The application releases the proxy, and later attaches a new one.       *)
Release ==
    /\ tracked /\ Fault /\ reconciling = {} /\ connected
    /\ \A q \in {toServer, handling, toClient} :
         \A i \in DOMAIN q : q[i].type \in {"event", "property"}
    /\ \A i \in DOMAIN notificationQueue : notificationQueue[i].type # "subscribed"
    /\ tracked' = FALSE /\ releases' = releases + 1
    /\ toServer' = Append(toServer, [type |-> "detach"])
    /\ listeners' = [e \in Event |-> 0]
    /\ subscribedEvents' = {}
    /\ UNCHANGED <<server, toClient, connected, sessions, cursor, eventCursors, reconciling,
                   notificationQueue, feed>>

Attach ==
    /\ ~tracked /\ connected
    /\ \A q \in {toServer, handling, toClient} :
         \A i \in DOMAIN q : q[i].type \notin {"attach", "attached"}
    /\ toServer' = Append(toServer, [type |-> "attach"])
    /\ UNCHANGED <<server, toClient, session, proxy, notificationQueue, feed>>

-----------------------------------------------------------------------------
Server ==
    \/ ReceiveRequest
    \/ FinishSubscribe \/ FinishUnsubscribe \/ FinishAttach \/ FinishDetach

Client ==
    \/ ReceiveNotification \/ ReceiveSubscribed \/ ReceiveUnsubscribed \/ ReceiveFailed
    \/ ReceiveAttached \/ ProcessNotification

Application ==
    \/ \E e \in Event : On(e) \/ Off(e) \/ \E r \in Revision : OnFrom(e, r)
    \/ Release \/ Attach

Next ==
    \/ \E e \in Event : EmitEvent(e)
    \/ Modify
    \/ Server \/ Client \/ Application
    \/ Disconnect \/ Restart \/ Reconnect

Spec == Init /\ [][Next]_vars

(* Frames arrive, handlers resume, queued notifications are processed.     *)
FairSpec == Spec /\ WF_vars(Server) /\ WF_vars(Client)

-----------------------------------------------------------------------------
(* Properties.                                                             *)

Stamps == Position \cup {None}

(* Every variable holds what the code can put there, and a reconciliation  *)
(* runs only for an event that needs the wire.                             *)
TypeOK ==
    /\ journal.head \in Position /\ journal.discarded \in Revision
    /\ Len(journal.entries) <= JournalSize
    /\ attached \in BOOLEAN /\ connected \in BOOLEAN /\ tracked \in BOOLEAN
    /\ eventSubscriptions \subseteq Subscribable \cup Historical
    /\ sessions \in 1 .. 1 + MaxFault /\ releases \in 0 .. MaxFault
    /\ cursor \in Position
    /\ eventCursors \in [Event -> Stamps]
    /\ listeners \in [Event -> 0 .. MaxListener]
    /\ subscribedEvents \subseteq Subscribable \cup Historical
    /\ reconciling \subseteq Subscribable \cup Historical

(* The events whose every occurrence is promised: retained, and delivered  *)
(* to subscribers only.  A retained event that is delivered unconditionally*)
(* may overtake its own replay, which applyEvent then drops.               *)
Promised == Subscribable \cap Historical

AtRest ==
    /\ connected /\ tracked /\ attached /\ reconciling = {}
    /\ \A q \in {toServer, toClient, handling, notificationQueue} : q = <<>>

Due(e) == {r \in occurred[e] : r > from[e]}

(* Replay and live delivery together give the listener of a historical     *)
(* event every occurrence after its cursor, across reconnects: the cursor  *)
(* of subscribe, the page loop of epRequestSubscribe, applyEvent's check.  *)
CaughtUp ==
    AtRest => \A e \in Promised \cap subscribedEvents :
                 (Wanted(e) /\ lapse[e] = {}) => ToSet(heard[e]) = Due(e)

(* Once onFromAsync() has resolved, what was replayed has reached the      *)
(* listener: the barrier of subscribe(), in a session that lasts until     *)
(* then.                                                                   *)
ResolvedMeansReplayed ==
    \A e \in Promised : (Wanted(e) /\ lapse[e] = {}) =>
        {r \in Due(e) : r <= resolved[e]} \subseteq ToSet(heard[e])

(* At rest the proxy believes what is so: it has listeners for each event  *)
(* it believes subscribed, and the server delivers that one, and no other  *)
(* unless the proxy was released.  reconcileSubscription coalesces         *)
(* listeners that come and go, and resubscribeAfterReconnect clears what   *)
(* the closed connection left.  An event that has listeners may be without *)
(* a subscription: reconcileSubscription gives up when one is refused.     *)
AgreeAtRest ==
    AtRest => /\ subscribedEvents \subseteq eventSubscriptions
              /\ \A e \in subscribedEvents : Wanted(e)
              /\ releases = 0 => eventSubscriptions \subseteq subscribedEvents

(* The listener's feed, as module EventFeed promises it.                   *)
Feed == INSTANCE EventFeed WITH
            Event <- Promised,
            occurred <- [e \in Promised |-> occurred[e]],
            listening <- {e \in Promised : Wanted(e)},
            from <- [e \in Promised |-> from[e]],
            heard <- [e \in Promised |-> heard[e]],
            lapsed <- {e \in Promised : lapse[e] # {}}

FeedIsImplemented == Feed!Spec

(* Once an event's listeners stop coming and going its reconciliation is   *)
(* over, by agreement or by failure, again and again.                      *)
ReconcilingEnds ==
    \A e \in Event : (<>[]Wanted(e) \/ <>[]~Wanted(e)) => []<>(e \notin reconciling)
=============================================================================
