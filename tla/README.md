# Formal models of esiur-ts

TLA+ models of the EP protocol implementation in this repository, checked with
TLC on small instances and, where that is possible, proved with TLAPS for every
value of the parameters. Paths below are relative to the repository root.

To run: `tlc -config ResourceSync.cfg MCResourceSync.tla` (each run and its
module are in the table below), `tlapm TransportProofs.tla`.

## The system

Two peers speak EP over a socket (WebSocket, or TCP in Node). Each peer is an
`EpConnection`; one side initiates, the other responds. A peer with a
`Warehouse` serves its resources; the other peer holds remote proxies of them.
Everything runs on JavaScript's single thread: concurrency comes from `await`,
from the order of promise continuations (microtasks) against socket events and
timers, and from the network.

| Component | State it keeps | Operations | Module |
|---|---|---|---|
| Resource synchronisation (`EpConnection.ts`, `EpResource.ts`, `Instance.ts`) | server: instances with a generation and a revision and age per property, `subscriptions`; client: proxies with cache and cursors, `attachedResources`, the notification queue | attach, detach, reattach, restore after reconnect, notifications | `ResourceSync` |
| Connection lifecycle (`EpConnection.ts`, `src/net/`) | socket and its state, `readyReply`, `reconnectReply`, timers, `manualClose`, `requests` | connect, reconnect, close, destroy, disconnected, sendRequest | `ConnectionLifecycle` |
| Attachment graph (`EpConnection.ts`) | attach and type requests under way, `resourcesFetchBlockedOn`, `typeDefsFetchBlockedOn` | nested attach, cycle detection, limits | `AttachmentGraph` |
| Journal and event subscriptions (`ResourceJournal.ts`, `MemoryStore.ts`, `Instance.ts`, `EpResource.ts`) | bounded entries, replay cursors, listener counts, subscriptions | commit, query, on, onFromAsync, off, subscribe, replay | `ResourceJournal`, `EventSubscription`, `EventFeed` |
| Streaming and invocations (`AsyncStreamReply.ts`, `ServerInvocationContext.ts`, `EpConnection.ts`) | chunk queues, pull and halt state, the invocation table | invoke, chunk, pull, halt, resume, terminate | `Invocation` |
| Handshake and encryption (`EpConnection.ts`, `src/security/`) | headers, nonces, cipher, `encryptionActive` | Initialize, Acknowledge, Action, Established, derivation | `PasswordAuthentication`, `Session` |
| Admission, permissions, rate control (`EpServer.ts`, `src/security/`, `Warehouse.ts`) | windows and counts by address, buckets | admit, register, evaluate, delay | `ResourceManagers`, `Admission` |
| Framing (`NetworkBuffer.ts`, `NetworkConnection.ts`, `EpConnection.ts`, the packet parsers) | buffered bytes, protection level | write, protect, read, parse | `Framing` |
| Warehouse and stores (`Warehouse.ts`, `MemoryStore.ts`, the handlers of peers) | resources by id, the store's table, instances | put, remove, move, open, close | `Warehouse` |
| Type definitions, data codec, React bindings, command line | | | none, see below |

How they meet: a socket hands chunks to *framing*, which hands packets to the
*handshake* until the session is established and to the request, reply and
notification handlers of `EpConnection` after it. The *lifecycle* ends and renews
sockets; each loss fails what waits and each reconnect runs the restore loop of
*resource synchronisation* and the resubscription of *events*. Values in replies
that refer to resources start nested attachments, the *attachment graph*. Calls
and changes of properties pass *admission* before they reach a resource of the
*warehouse*; its changes go to the *journal* and out as notifications.

What is hard: a reply whose decoding awaits while later frames are handled; a
connection lost between any two steps; instance ids handed out again by a
restarted server; a restore loop running while the application attaches and
releases; close, timers, deadlines and replaced sockets racing an attempt to
connect; a listener that joins while occurrences go on; waits that close a
circle over several chains of attachments; control requests of a stream racing
its chunks; the change from plaintext to records at one place of the stream; a
put that awaits while its resource is removed. `PROJECT.json` lists each hazard
at its line, with the properties that are about it.

## Modules

Each module begins with what it is about and what it abstracts from, and its
VARIABLES say which field of the code each is. Handlers are one action, or one
for each stretch between two awaits; what runs in between is what a real event
loop could run there. All bounds are CONSTANTS whose comment says "bound", in
guards. `PROJECT.json` maps every definition to the lines it models.

### ResourceSync, MCResourceSync, ResourceSyncInvariant, ResourceSyncProofs

One client connection and the server it is connected to, over any number of
sessions of that connection.

| Model | Code |
|---|---|
| `instance`, `put`, `resourceCounter` | live instances of the warehouse, generations, `Warehouse.resourceCounter` |
| `subscriptions`, `handling`, `querying` | `subscriptions`, handlers at their `await` (with `peerAttachmentRequests`), the reattach handler at `warehouse.query` |
| `toServer`, `toClient` | the two directions of the socket |
| `proxy[o]` | an `EpResource`: `instanceId`, `link`, `cursor`, `cache`, `propertyCursors` |
| `attachedResources`, `attachRequests` | the maps of the same purpose in `EpConnection` |
| `notificationQueue`, `decoding` | the promise chain of notifications, replies whose values are being decoded |
| `restore`, `reattaching` | `restoreAttachedResources` of a reconnect: what is left, what is in flight |
| `late`, `disturbed` | history variables, read by properties only |

A value is the revision that wrote it, stamped with its generation. Managers
admit everything, limits are not met, type definitions are known. A reply's
values are decoded either within the task that received it or later: when a value
refers to a resource that must be fetched, or when the reply shares a chunk of
bytes with the frames after it. `late` records the second case and `MaxLate`
bounds it. `disturbed` records three situations in which the restore loop
promises nothing: the application attaches or releases while it runs, two
proxies exist for one link, and an id of a restarted server collides with a
tracked one. Properties that need their absence name it. A proxy's own assignments
are left out: `SetResourceProperty` writes the cache before the server has answered
(`src/protocol/EpResource.ts:478-504`), so what is said of values is said of
proxies that do not assign.

### ConnectionLifecycle, TransportProofs

The initiator's connection over the sockets it opens one after the other. `wire`
is what the native WebSocket does, `state` what `WSocket` believes; they differ
after `close()` and before an event is delivered. `attempt` is the body of
`connect()` or `reconnect()` and the `await` it is at; its continuation `Resume`
is a microtask, so while one is due nothing else runs, except the close event
that some platforms deliver in the job of the error event, and the rest of the
job that called `reconnect()`. An attempt begins `creating`: `OpenClientSocket`
ends at the await of `EpConnection.ts:527`, before there is a new socket, and
`Resume` then assigns and dials one, whatever the connection has become by then;
in between the caller may go on to send, `close()` or `destroy()`, and these act
on the socket of before. `tooEarly` is a history variable, read by properties only,
of what was done before the attempt's socket was open. `request` holds the
application's requests and streams; `sentOn` is the socket each was given to.
The handshake is one answer, the restore loop one answer. A native socket that
ends reports it eventually; a peer that vanishes unnoticed is not modelled.

### AttachmentGraph, MCAttachmentGraph, AttachmentGraphProofs

Attaching resources whose values refer to other resources and to types.
`task[n]` is the attach or type request of a node with how far it is: waiting for
its description (`describe`), its type (`typed`) or its values (`request`),
decoding them (`decode`: `todo` is left, `on` is what it awaits, `chain` the
request sequence) or about to fail. `have` is `attachedResources` and the type
cache, `edges` the two `...FetchBlockedOn` maps, kept by number as in the code,
so that ids of different nodes may be told apart only within a kind. `graph`,
chosen at the start from `Graphs`, is what refers to what. `served` is the
server's side, with its limit and its refusal of duplicates.
A lost connection ends every task in one step, between two events of the socket
(`Idle`), as `disconnected()` does; left out are an application that attaches
again before all the rejections have propagated, and a `send()` that itself
discovers the closed socket and calls `disconnected()` amid other decodes.

### ResourceJournal, EventSubscription, EventFeed, EventSubscriptionProofs

`ResourceJournal` holds the journal's operators: `AppendEntry` (with what is
discarded at the bound) and `QueryJournal` (range, page, `cursorExpired`).
`EventSubscription` is a resource that raises events, the connection's
subscriptions, and a proxy with listeners: `listeners`, `subscribedEvents`,
`reconciling` are the fields of `EpResource`, `Turn` is one turn of the loop of
`reconcileSubscription`. A reply to `subscribe()` goes through the notification
queue (its barrier). `Restart` empties the journal and begins a generation.

`EventFeed` is the promise: an occurrence after the start of a feed is heard
once and in order, until the listener leaves or the feed lapses.
`EventSubscription` implements it under the mapping `Feed`; `lapse` says when a
feed has lapsed: `busy` (it started while an earlier request for the event was
under way), `foreign` (its cursor is of another generation or another proxy),
`unplaced` (a subscribe failed, or the session changed, before the event had a
replay cursor of its own: its next start is the proxy's cursor). Lapsing is not
the excuse it may seem: `CaughtUp` checks that without it nothing is missing,
across disconnects of any listener that has heard something.

### PasswordAuthentication, Session, SessionProofs

`PasswordAuthentication` is `process()` of the handler as operators over
symbolic hashes. `Session` is both ends of a connection: the headers
(`Declare`), the messages of the handshake in the four modes, the cipher
negotiation, `completeAuthentication` with its asynchronous derivation
(`Derive`), and the requests that follow, sealed or not. `setup` is the
configuration of the two peers, with at most one thing wrong with it. `conn[s]`
is an `EpConnection`; the initiator's object is kept over new connections, and
with it the fields that `startInitiatorHandshake` does not reset. `Coalescing`
says whether packets may arrive in one chunk, which only matters while the
cipher is being derived.

### Invocation, InvocationProofs

A call over one connection: `stream[c]` is the `AsyncStreamReply` and the
consumer's loop (`iter`), `jobs[c]` the queue in which chunks are decoded,
`execution[c]` and `pulling[c]` the server's call and the steps pending on its
iterator, `handling` control requests at the managers' await. A call may be
delayed or refused. The connection breaks at most once.

### ResourceManagers, Admission, AdmissionProofs

`ResourceManagers` aggregates the managers' rulings (deny over allow in a
category, the defaults when nobody rules) and holds the bucket of
`BurstRatePolicy`: time in permits, a bucket that goes below zero for the permits
it has given in advance. `Admission` is the server of `EpServer.ts`: windows of
attempts and counts of connections, in all and by address, an upgrade being
verified and registered in two steps; and the requests of the connections, at
once, delayed by a timer, or denied by another manager after they took a permit.
`due` is when the delay of a request ends, `at` when the request took effect: a
timer never fires early and may fire late (`DelayEnds`). The two steps of an upgrade
may be further apart here than in the code, where they are of one job. A
responder's `destroy()`, after which its connection stays counted, is not modelled.

### Warehouse, MCWarehouse, WarehouseProofs

`resources` (by instance id), the store's own table `stored`, and each resource's
`instance`. `puts` are the running `putAsync`, at the query of the parent, at the
store's put, or at `Initialize`; `opening` and `closing` the loops of `openAsync`
and `close`; `handling` the requests of peers to move, delete or create, which
find the world changed after the managers' await. `raced` records the two known
hazards: a resource put twice at once, or removed during its own put.

### Framing, TransportProofs

A stream of packets in plaintext, or of records, of which any number of bytes
may have arrived. `ParsePacket`, `ParseTdu` and `ParseRecord` compute, from what
is there, a packet or the number of bytes still needed, like `EpAuthPacket.ts`,
`EpPacket.ts`, `PlainTdu.parse` and the record loop of `dataReceived`; `Read`,
`ParseNext` and `ParseNextRecord` are the drain of `NetworkConnection` with that
loop, `HoldFor` is the protected buffer of `NetworkBuffer`. Bytes may arrive
inside a handler (`Arrive` while `receiving`). A length is written in base `Base`
(256 in the code), one in which short packets have lengths of two digits. `Bytes`
and `Number` are recursive functions, so that the proofs can unfold them.

## Runs

| Run | Question | Result |
|---|---|---|
| `ResourceSync` | two links, two proxies, two sessions, one restart: do proxies stay equal to their resources, and only to theirs? | holds, 2,178,772 states |
| `ResourceSyncValues` | one link with two properties, three changes, three sessions, one late decode: do cached values never go back? | holds, 1,367,184 states |
| `ConnectionLifecycle` | three sockets, a request and a stream, automatic reconnection: what settles, what stays closed? | holds, 273,413 states, with liveness |
| `EventReplay` | a historical event, a journal of two, pages of one, two generations: each occurrence once and in order? | holds, 490,128 states, with refinement and liveness |
| `AttachmentGraph` | five graphs of four resources and two types: no circular wait, nothing missing, every attach settled? | holds, 117,443 states, with liveness |
| `Session` | all modes and faults, three connections, two breaks: one key, nobody unproved, records where expected? | holds, 64,688 states, with liveness |
| `Invocation` | a call or stream of two items, with controls: in order, answered, released? | holds, 459,600 states, with liveness |
| `Admission` | three overlapping upgrades, three requests, timers that are late: within limits and rate? | holds, 535,998 states |
| `Warehouse` | two resources, two puts, one peer, one opening: do the tables agree? | holds, 1,747,995 states |
| `Framing` | streams of two packets or records, any chunks: dispatched as sent, nothing held back? | holds, 557,772 states |
| `EarlyRecord` | is a peer's first record always read as one? | violated |
| `ReconnectGivesUp` | is a failed retry followed by another? | violated |

Deadlock is not checked: every specification stops at its bounds, and the system
may stop when the application asks for nothing.

What the bounds let happen:

* `ResourceSync`: two sessions for a restore, three (`ResourceSyncValues`) for a
  delta on top of a delta, one restart and two links for ids that change meaning,
  a queue long enough for one notification to be overtaken.
* `ConnectionLifecycle`: two sockets for a replaced one, three for a retry after a
  retry; a request and a stream sent on different sockets.
* `EventReplay`: a journal of two under three changes discards, pages of one make
  the replay loop turn, one fault is a loss, a release or a restart.
* `AttachmentGraph`: three attachments at most, of four resources, so that a
  graph does not fit; three calls, so that two chains meet in the middle of a
  ring and a resource is detached and attached again; one failure anywhere.
* `Session`: the second connection meets what the first left in the object, the
  third what a failed one left; two requests a side, one of each before the other
  side is ready.
* `Invocation`: two items, so that one chunk waits behind another; one control
  request of the application besides the consumer's own.
* `Admission`: a window and the first moment of the next, room for one
  connection of an address and two in all under three attempts; a bucket of one
  and a queue of two, which three requests fill and late timers empty at once.
  Three attempts exceed the limit of an address, not twice the limit in all, and
  three requests never take effect in greater number than `RateHolds` allows at
  one moment; the theorems are about any number of both.
* `Warehouse`: two puts at once, ids for both and the store; the two resources
  and the two links are symmetric.
* `Framing`: lengths below, at and above one length digit and the limits
  `MaximumPayload` and `MaximumRecord`, fixed and dynamic values, packets with and
  without an id.

What the violated runs show:

* `completeAuthentication` derives the cipher in a promise, and `dataReceived`
  goes on with the same chunk: a record that follows the last plaintext packet
  in it is parsed as an authentication packet. The run `Session` is without such
  chunks and there `RecordsAreRead` holds, as is proved for any number of sessions.
* `reconnect` rejects its reply before it clears `reconnectReply`; the handler
  that should schedule the next retry runs at once and finds it set. A drop
  outside an attempt is recovered from: `ReconnectsAfterDrop`.

Places where the models do what the code does and a property is narrowed
accordingly, the exception being named in it:

* `attachWithTypeDef` tracks a proxy only after decoding its snapshot, while the
  server subscribed the connection when it replied: a notification in between is
  dropped (against `src/protocol/EpResource.ts:52`). `FreshWhenSubscribed` is
  about snapshots decoded with their reply.
* `reattach` moves the cursor before the delta is decoded; a drop in between
  leaves a hole (against `README.md:133`). `CursorHonest` likewise. While the
  delta is decoded, the new id may still name the proxy of another resource,
  which takes the notifications: `NoCrossTalk` likewise. A drop before the delta
  is decoded leaves the proxy tracked under its old id, where `detach()`, which
  looks under the new one, does not find it: `ReleasedStaysReleasedIfCalm`
  likewise.
* `restoreAttachedResources` works on a copy and restores a proxy released
  meanwhile (against `EpConnection.ts:1351`). `ReleasedStaysReleasedIfCalm`.
* `openClientSocket` awaits `createClientSocket` (`EpConnection.ts:527`) before it
  assigns the new socket, and does not look at the connection again. A `close()` or
  `destroy()` in the job that called `reconnect()` therefore closes only the socket of
  before: the new one is dialled, authenticated and used on a connection that was
  closed. `ClosedStaysClosed` is about a `close()` at any other moment
  (`"close" \in tooEarly` is the exception).
* `sendStreamRequest` does not check the connection (against
  `docs/dotnet-parity-matrix.md:26`), and a send on a socket that is not open
  makes `WSocket` report its end. `CallersSettle` covers what was sent on a
  socket that had not reported its end. While the new socket is created or dialled
  such a request fails the handshake's reply, and the socket opens all the same: the
  attempt fails and leaves the connection established and unauthenticated.
  `AuthenticatedAtRest` names it (`"disconnect" \in tooEarly`).
* `CallersSettle` also leaves out an attempt whose socket counts as closed while it
  dials, one that was closed before it had a socket, which cancels its deadline,
  and what is in flight on a destroyed connection (`Abandoned`).
* The responder of `PasswordAuthenticationHandler` swaps the local and the remote
  identity when it looks up accounts; `PasswordAuthentication` does the same.
* A detach with a listener left keeps the server's event subscription, and the
  next subscribe is refused: the feed lapses. So it does when the server refuses a
  replay cursor. `AgreeAtRest` says that at rest both ends agree on what is subscribed
  and that nothing is that nobody listens for; it does not say that whatever has a
  listener is subscribed, which is false after a refusal.
* A connection lost while the reply of `subscribe()` waits behind the replayed
  notifications drops these and lets the reply resolve (against
  `EpConnection.ts:1283`). `ResolvedMeansReplayed` is about sessions that last
  until then; the next session replays what was dropped (`CaughtUp`).
* A value that cannot be decoded fails an attach the server has already served
  (`spoiled` in `HeldIsServed`). A cycle closed by `ResourceLink`s
  (`EpConnection.ts:244`) is not in the wait graph and waits for ever; the graphs
  checked have links but no such cycle.
* A terminate that reaches a call still delayed by a manager is refused, and the
  stream starts later: `TerminatedIsReleased` is about streams that have started. It
  leaves out as well a delayed call that is run after its connection was lost.
* A delayed request keeps its place in the rate policy's queue until its timer has
  run. Timers that are late may run together: `RateHolds` says that requests fall due
  within the rate, and that those that take effect in a stretch of time exceed it by no
  more than the queue holds.

## Fairness

All of it is weak fairness, and of two kinds: JavaScript runs the jobs that are
due (handlers of frames at hand, continuations, timers), and, where a property
is about an answer, the peer answers.

* `ConnectionLifecycle`: continuations and timers; the opening or failing of a
  socket and its close event, which the WebSocket standard guarantees; the end of
  the restore loop while the connection is up. Neither the handshake's answer
  nor the application's are assumed. The deadline is enabled, as by default.
* `EventSubscription`: the server's handlers and the client's. The reconnect is
  not assumed.
* `AttachmentGraph`: replies and decoding go on (`Progress`), and a lost
  connection is found again (`Reconnect`). The application's calls are bounded.
* `Session`: packets are received and derivations settle. No deadline is assumed
  (it can be disabled): the handshake settles by its messages alone, or by the
  end of the connection.
* `Invocation`: dispatch, handlers, decoding, delays, the function and the steps
  of its iterator, and the consumer's loop. Halting is up to the application, so
  `CallsSettle` excepts a halted stream.

`ResourceSync`, `Admission`, `Warehouse` and `Framing` state safety only.

## Proofs

Nine components have proofs, for any values of the constants that satisfy the
assumptions in their modules. Each rests on an inductive invariant `IInv` that
TLC confirmed first, with one lemma per action and one step per conjunct.

`ResourceSyncProofs` proves `TypeCorrect`. A type alone is not kept: that a reply
to a reattach finds the proxy it is for needs `Sound`, which says that a reattach
is at one place (asked, queried, answered or decoded), and that every proxy that
is tracked, restored or held was made. `ResourceSyncInvariant` holds the definitions.

Its second half proves `ProxiesShowTheirOwn`, `TrackedIsHeld`,
`SubscribedIsFresh`, `CursorsAreHonest`, `HeldIsKept` and `ValuesOnlyAdvance`, all
of histories in which every snapshot is decoded with its reply (`late = {}`): the model loses updates without
that, as the code does. What a proxy holds says nothing of what is on its way to
it, so none of them is inductive. `Prompted` adds what is:

* `OneName`: in the instances, the channel and the queue together, an id names
  one generation and a generation has one id, in one life of the server. This is
  what makes ids that are handed out again harmless: a disconnect empties both.
* `Routed`: a notification finds a proxy of its own generation under its id, or
  the answer that brings one is before it, or it is dropped for want of any.
* `InOrder`, `RevisionsInOrder`: messages of one generation come in the order of
  their revisions, and none is ahead of the instance.
* `AnswersComplete`, `ReattachFits`: an answer brings every value as old as its
  revision, unless the proxy being reattached, whose cursor it was asked from,
  has it.
* `ChangesFollowAnswers`, `ChangesFollowCursor`: what is newer than an answer, or
  than the cursor of a tracked proxy, comes after it if the server notifies, and
  comes before every message that is as new.
* `AllCovered`: what is as old as the cursor is in the cache. With nothing in
  flight, `ChangesFollowCursor` leaves nothing newer: that is freshness.

`HeldIsKept` is freshness of what the application holds, not of what the server
has subscribed; it adds `Keeping`, kept while the application is `Calm`
(`~disturbed`: it attached or released nothing during a restore, held no link
twice, and no restart gave the id of a held proxy to another resource):

* `AttachesOnce`, `AttachesAnew`: an attachment under way is at one place, of an id
  that is not tracked, after every detach of that id; an id answered is subscribed.
* `RestoresAlone`: a restore has the connection for itself, and what it has yet to
  ask for is not subscribed: nothing it asks for is rejected.
* `HeldTracked`, `Served`: what is held and current is tracked, and is subscribed or
  about to be asked for again. At rest nothing is pending: it is subscribed, so fresh.

`ValuesOnlyAdvance` is an action property, `Spec /\ [](late = {}) => NeverRegresses`.
Merging a snapshot is unconditional in the code, so that it never takes a value back
is all in what the snapshot is: `Supersedes` says that the answer to a reattach is of
a later generation than its proxy, or brings nothing older than what the proxy shows
and than every change on its way before it. That needs `Latest` (what stands for a link
is its newest generation) and `OfOneGeneration` (a proxy shows one generation at a time),
and for the step that sends the answer, `AllCovered` and `InOrder` from above. A
notification cannot, by the guard of its property.

The steps fall into kinds with one lemma for each conjunct: those that bring no
news (`NoNewsStep`), changes of an instance (`ChangeStep`), answers of the server
(`AnswerStep`), answers received (`DeliverStep`), notifications queued and
notifications processed.

`TransportProofs` is about both models of the transport. Of `Framing` it proves
`FramingInvariance`, `FramesIntactAlways` and `NothingHeldBackAlways`, for any base of
the length digits, any lengths that fit them, any limits and any streams, however they
are cut. `FramesIntact` is inductive but for the parsers: that the bytes taken off are
the packet that was sent is what must be shown of them.

* Digits are read back as the number they were written for (`NumberOfDigits`), so a
  parser that has a header knows the length that was composed (`TduIs`, `PacketIs`,
  `RecordIs`).
* `ParseTduOn`, `ParsePacketOn` and `ParseRecordOn`: of bytes that begin a packet a
  parser finds that packet, or asks for no more bytes than it lacks and for one at
  least, or refuses it.
* `AtHand`: by the invariant (`Continues`), what was read begins the next packet, so
  that each turn of the loop dispatches it (`DispatchKeeps`) or holds a tail of it
  (`HoldForKeeps`). `Continues` also bounds what the buffer waits for by the
  length of that packet; this is what `NothingHeldBack` needs.
* All this while the connection is open or, in plaintext, still draining (`Aligned`). A
  record over the limit closes the connection and the drain goes on behind it,
  out of step with the records; then a record opens only in its turn, which keeps
  what is dispatched a prefix.

Of `ConnectionLifecycle` it proves `TypeCorrect`, `ClosedStaysClosedAlways`,
`AuthenticatedAtRestAlways` and `FailsWithItsSocketAlways`. None of these is
inductive. `ClosedStaysClosed` needs that a socket which counts as closed cannot
still open as the current one (`ClosedIsInert`); `AuthenticatedAtRest` needs to
know where the attempt is before authentication, and that the handshake's reply
is still pending there (`HandshakeIsAwaited`, `DiallingIsPending`); even the type
of `attempt` needs that only the socket an attempt awaits is dialling
(`DiallingIsAwaited`, `AttemptHasReply`) and that an attempt which is creating its
socket has one left to create (`CreatingHasRoom`). The exceptions of the first two
are those of the run, `tooEarly`.

`WarehouseProofs` proves `WarehouseInvariance`, `WarehouseTypeCorrect`,
`RegistryHonestAlways` and `InitializedWhenOpenAlways`. That the two tables and
the instances agree depends on what puts under way still bring: an id is claimed
by one resource, in the tables, the instances and the puts (`OneClaim`), the ids
above the counter by none (`FreshAbove`), and a resource that is not raced is put
once, with no instance before its put makes one (`CalmPuts`). That nothing stays
uninitialised needs `OpenCovers`: while the loop of `openAsync` is before a
resource, or a put of it is to come to `Initialize`, it is not lost.

`AttachmentGraphProofs` proves the four invariants of its run and
`GenuineCycles`, for any graph.

* `Structure` says what a request under way is: it is for what is not attached, it
  has left a rest of its references, and it waits only for one under way. `Limits`,
  with it, is the type.
* `SafeWaits` is `NoDeadlock` with `WaitsAreRecorded`: every wait within a kind,
  but for those through links, is an edge of that kind's graph. A circle that a
  new wait n → m closed would contain a set of nodes each of which waits for
  another of it. The least such set lies within one kind, since a resource waits
  for types but no type for a resource, and holds no wait through a link; the
  edges then lead from m back to n, which `hasResourceWaitForCycle` excludes.
  Its assumption `LinksCloseNoCycle` says that the target of a link does not
  refer back to its holder: such a circle is not in the code's graph and does
  wait for ever (see above). It is an assumption on the values, not on the order
  of events.
* `CycleInv` (edges and chains stand for waits) is the converse: who is given a
  placeholder is waited for. Edges compare numbers, and the number of a resource
  and of a type definition may be the same, so this one assumes `DistinctIds`.
* `ServedInv` follows what is served by what is attached or being decoded;
  `ReferencesProvided` says that each reference passed over was attached,
  detached since, or handed out as a placeholder.

`AdmissionProofs` proves `AdmissionInvariance`, `ConnectionsWithinLimitsAlways`,
`AttemptsWithinLimitsAlways` and `RateHoldsAlways`: the last two for every stretch
of time and any number of addresses, connections and requests. `RateHoldsAlways`
bounds both the requests that fall due in a stretch and those that take effect in it,
however late the timers are.

* `WindowHolds`: a window has counted every attempt since it started, the
  stretch before it holds one window's worth at most, and so no stretch of a
  window's length holds more than two.
* `BucketHolds`: the requests admitted in advance are due at different moments,
  none later than the debt of the bucket reaches; and any stretch up to a moment
  `u`, now or later, holds no more requests than a full bucket and the permits of
  that time, less what the bucket still holds by `u`.
* `EffectsHold`: no request takes effect before it is due (`Dated`), and those that
  were due before a moment and had not yet run hold a queue position at that moment,
  so there are at most `QueueLimit` of them (`LateHeld`). What takes effect in a
  stretch is due in it or was late at its start.

`InvocationProofs` proves `InvocationInvariance`, `TypeCorrect`, `DeliveryAlways`,
`RequestsAreOwedAlways` and `TerminatedIsReleasedAlways`, for any number of calls,
items and controls.

* `Staged` is the type with the protocol's order: an id belongs to one request, a
  call is received once, what is pulled, halted or said to have started has begun,
  and a closed connection holds nothing.
* `StreamsEnd` says how far the end of a stream has got: one the client gave up is
  told to end or its termination is under way, one told to end is over or a step of
  its iterator returns. With nothing of the call under way, that is
  `TerminatedIsReleased`.
* `RequestsAreOwed` is inductive over `Staged`: every place a request can be in has
  a step to the next one or to the answer.
* `Deliveries`: `Flow` says of the decode queue and the channel of a call that they
  hold the items after those the consumer has, up to the last one yielded, each
  before the next, and a completion only after them. Each kind of step (a chunk
  yielded, received, decoded, a message of others passing, a completion, the loss
  of the connection) has its lemma about `Flow`; a completed stream has got
  everything.

`EventSubscriptionProofs` proves every safety property of its run: `TypeCorrect`,
`AgreeAtRestAlways`, `CaughtUpAlways`, `ResolvedMeansReplayedAlways` and the refinement
`FeedImplemented`, for any number of events, sizes of the journal and of a page, and
queues of any length. None is inductive: that the client and the server agree, or that
a listener has caught up, when nothing is in flight says nothing of a step on the way
there. The invariants that lead to them, each inductive over those before it:

* `Types`, with the types of the messages in the four queues.
* `Link` is what a session says of attachments: one is asked for or told of at a time
  (`OneAttach`), before anything about events (`AttachFirst`), and a release before the
  next one (`DetachFirst`); a lost connection leaves the server nothing (`Silent`), and a
  released proxy has nothing under way (`Untracked`).
* `Belief(e)` is one of three. `Stale`: the proxy believes what a session that is over
  told it, and is about to be reattached, which makes it forget. `Believed`: the server
  delivers the event, or its word that it stopped is on its way and nothing is that would
  start it again; and if no listener is left, the end has been asked for. `Unbelieved`:
  if the server delivers the event, its one reply is on its way and no request to end it
  is. Requests of opposite kinds may both be in flight, so each says in which order
  (`InPipeline`, `OneReply`).

* `OrderedJournal` and `Chronicle`: the journal retains, in order, exactly what occurred
  of a historical event since the last revision it discarded (`ChronicleInvariance`).
* `Stamped`, `Reattached` and `Placing`: nothing in flight is of an earlier life of the
  server or ahead of its journal, no notification is in flight while a proxy waits to be
  reattached, and the cursors of a proxy that was never released are all of one life of
  the server (`SettingInvariance`, which gathers all of the above).
* `Promise(e)` is what holds of an event in `Promised` while its feed is `Kept` (it has a
  listener and has not lapsed): `Served`, the listener was given exactly the occurrences
  from where it started through where it has come to, `Reached`, which is the event's
  replay cursor; `Pending`, if the server delivers the event then the occurrences beyond
  `Reached` are all in the two queues, in order and each before the replies that answer
  later ones, and otherwise every subscribe on its way asks from `Reached`; `Steady`, no
  request to end it is in flight, and until it has a replay cursor of its own it is
  subscribed or being subscribed. `Pending` has the exception that makes the invariant
  true: between the loss of a session and the reattachment an event that never had a
  replay cursor has no place to be resumed from (`Placed`), and its feed then lapses.

At rest the queues are empty, so `Pending` leaves nothing beyond `Reached`: `CaughtUp`.
For `FeedImplemented` an occurrence that is applied has to be the least one not yet heard
(`HeadIsNext`), which `Pending` says of the first in the queue. What a replay sends is
`ReplayReads`: the page loop is a recursive function of the position it reads from, and
without induction over data its value is found another way. `Left`, what the journal
retains from a position on, satisfies the equation of the loop, so such a function
exists; and any function that satisfies it is `Left`, since at the greatest revision
where it differed the page would lead to a greater one.

The lemmas on queues (`Added`, `Taken`, `Followed`) say what sending, receiving and a
replay of any length do to what a queue carries and in which order, those on `Says`,
`Post` and `InLine` what they do to its contents; `AlikeKeepsBelief` and `PromiseKept`
settle every step that is not about the event. Two assumptions on the constants are
needed that any choice of names satisfies: no event is called what a property is in the
journal, and the absence of a cursor is no cursor.

`SessionProofs` proves `SessionInvariance`, `KeysAgreeAlways`, `NobodyUnprovedAlways`
and `NothingInTheClearAlways`, for either value of `Coalescing`, every setup and any
number of sessions and requests. None is inductive: what a side is given depends on
what its peer computed from what it was given before. The invariant therefore speaks
of the transcript, the calls of `process()` a session makes if it runs through
(`A0`, `B0`, `A1`, `B1`, `A2`), which depends only on the setup, the session and the
identity the initiator's object opened with.

* `Transcript` is about these calls alone: in every mode they succeed in order, the
  two keys are equal, and success implies that the identities asked for were
  `Proved`. Hashes are terms, equal only when what they hash is.
* `WireInv`: in each direction at most one packet of a handshake is on the wire that
  a side would still read, it says what the transcript says next, and both sides
  hold the handler that goes with it (`GoodForInitiator`, `GoodForResponder`).
* `InitiatorInv`, `ResponderInv`: a side in an authentication mode has the headers
  of the session and, once it has accepted, the transcript's key.
* `CipherInv`: a cipher being derived, and one of this session, is of the context
  both ends compute from these. `KeysAgree` is then immediate.
* `StaleInv` is the other case: the object still holds the cipher of an earlier
  session, its first packet is sealed, and the new responder gets no further than
  closing or misreading it. Without it the invariant is false: the code does
  not reset the cipher.

Steps that take no part in a handshake (`Quiet`) have one argument for all of them;
each packet of the handshake has its own (`TurnOnInitialize` to `TurnOnEstablished`).

`RecordInvariance` and `RecordsAreReadAlways` are about the records, and assume
`~Coalescing`, the packet that completes a handshake ending its chunk: with
`Coalescing` the property is false, which is what the run that expects a violation
shows. They say where in a stream the two sides change to records. `Ordered(s)` is the
stream to side `s` while it is open and nothing was misread: steps of the handshake
(`Greeting`) until its peer derives, then the last word in the clear (`Handing`), then
records with the peer's key numbered from what `s` has counted (`Sealing`); the peer
can have come to the last two only if `s` has derived, or has the last word still to
read. One lemma for each thing that can happen to such a stream (`OrderAfterStep`,
`OrderAfterLastWord`, `OrderAfterDeriving`, `OrderAfterSealing`, `OrderAfterRecord`,
`OrderAfterClosing`) gives the steps. That a side has no step left to read when it
derives comes from `WireInv`: at most one is on the wire. `TurnGoesOn` says what each
handler answers in those terms, `HandlersCount` that none of them touches the record
counters. A record that is misread all the same was sealed in an earlier session
(`ReasonIsStale`).

Only model-checked: liveness; of `ResourceSync`,
everything about snapshots decoded late (`NeverRegresses` among it, which a run checks
with one of them). TLAPS does not reason about fairness or ENABLED. Induction up to a
number, over the digits of a length or the packets of a stream, is over sets of
naturals (`LeastExists` and `Induction` in `TransportProofs`).

## Not modelled

* The encodings of values (`src/data/`), but for the headers and length
  fields by which a stream is cut (`Framing`) and the order in which references
  are decoded (`AttachmentGraph`, `Invocation`): sequential functions with unit
  tests.
* Composing and parsing type definitions: sequential code over data. Fetching them
  is in `AttachmentGraph`.
* The bits of the cryptography: keys and hashes are terms.
* Authentication and encryption providers other than the password handler and
  AES, one that takes longer than a microtask to derive its cipher, the rules of
  permission managers, sliding-window policies.
* The writes of a proxy to its own cache before the server answers
  (`SetResourceProperty`), see `ResourceSync` above.
* The lifecycle of a responder (its `destroy()` never releases its count), TCP
  sockets outside `Session` and `Framing`, several stores, warehouses that relay proxies of others, durable journals.
* The React bindings and the command line: thin adapters and I/O.

What is left worth doing: the late decodes of `ResourceSync` in its proved invariant; the restore loop composed with the lifecycle's sockets; a put through several stores.
