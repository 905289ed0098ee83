---------------------------- MODULE AttachmentGraph ----------------------------
(***************************************************************************)
(* Attaching a graph of resources over one connection (EpConnection.ts):   *)
(* the values of a resource refer to other resources and to types, which   *)
(* are attached and fetched while the values are decoded, each once, with  *)
(* placeholders where a wait would close a cycle.  The server's side is    *)
(* beginPeerAttachment and the attach, detach and type handlers.           *)
(*                                                                         *)
(* A node is a resource or a type; a decode waits for one node at a time,  *)
(* since parseAsync awaits each value in turn.  Values, other than what    *)
(* they refer to, are left out; so is the round trip that resolves a link. *)
(* The rejections of a lost connection reach every task before the         *)
(* application runs again: one step ends them all.                         *)
(***************************************************************************)
EXTENDS Naturals, Sequences, FiniteSets

CONSTANTS
    Resource, Type, \* the nodes
    Id,             \* the number of each: of its resource, or of its type definition
    Graphs,         \* the graphs considered: type and refs of each node, and the
                    \* pairs of resources of which the first holds a link to the second
    None,
    MaxAttached,    \* maximumAttachedResourcesPerConnection
    MaxPending,     \* maximumPendingAttachmentsPerConnection
    MaxAttach,      \* bound: calls of attach() and detach()
    MaxFault        \* bound: refusals, malformed values and lost connections

Node == Resource \cup Type

ASSUME AttachmentAssumption ==
    /\ Resource \cap Type = {} /\ None \notin Node /\ IsFiniteSet(Node)
    /\ Id \in [Node -> Nat]
    /\ \A kind \in {Resource, Type} : \A m, n \in kind : Id[m] = Id[n] => m = n
    /\ \A g \in Graphs : /\ g.type \in [Resource -> Type]
                         /\ g.refs \in [Node -> Seq(Node)]
                         /\ \A t \in Type : g.refs[t] \in Seq(Type)
                         /\ g.links \subseteq Resource \X Resource
    /\ MaxAttached \in Nat \ {0} /\ MaxPending \in Nat \ {0}
    /\ MaxAttach \in Nat /\ MaxFault \in Nat

VARIABLES
    graph,
    task,       \* resourceAttachRequests and typeDefRequests, with how far each is
    have,       \* attachedResources and cachedTypeDefs
    edges,      \* resourcesFetchBlockedOn and typeDefsFetchBlockedOn, between numbers
    callers,    \* resources whose attach() the application still waits for
    served,     \* server: the subscriptions of the connection
    up, attaches, faults,
    borrowed,   \* history: who was given the placeholder of whom
    failed,     \* history: nodes a request for which has failed
    spoiled,    \* history: resources served, whose values could not be decoded
    detached    \* history: resources detached

history == <<borrowed, failed, spoiled, detached>>
vars == <<graph, task, have, edges, callers, served, up, attaches, faults, history>>

-----------------------------------------------------------------------------
NoTask == [stage |-> "none", chain |-> <<>>, todo |-> <<>>, on |-> None]
Task(stage, chain, todo) == [stage |-> stage, chain |-> chain, todo |-> todo, on |-> None]

Kind(n) == IF n \in Resource THEN "resource" ELSE "type"
Pending(n) == task[n].stage # "none"
PendingResources == {n \in Resource : Pending(n)}

Init ==
    /\ graph \in Graphs
    /\ task = [n \in Node |-> NoTask]
    /\ have = {} /\ edges = [k \in {"resource", "type"} |-> {}]
    /\ callers = {} /\ served = {}
    /\ up = TRUE /\ attaches = 0 /\ faults = 0
    /\ borrowed = {} /\ failed = {} /\ spoiled = {} /\ detached = {}

(* What the values of a resource refer to, and the members of a type, in   *)
(* the order they are decoded.                                             *)
ValueReferences(n) == graph.refs[n]
TypeReferences(t) == graph.refs[t]

(* The placeholder is published when the reply is there, before decoding.  *)
Placeholder(n) == task[n].stage = "decode"

(* hasResourceWaitForCycle and hasTypeDefWaitForCycle: does the node wait, *)
(* through recorded edges, for a member of the chain?                      *)
WaitForCycle_Direct(n, chain) ==
    \E e \in edges[Kind(n)] : e[1] = Id[n] /\ \E i \in DOMAIN chain : e[2] = Id[chain[i]]

(* The ids found from i along edges: those in every set that holds i and   *)
(* goes on along them.                                                     *)
Number == {Id[n] : n \in Node}
Reachable(step, i) ==
    {j \in Number : \A S \in SUBSET Number :
        (i \in S /\ \A e \in step : e[1] \in S => e[2] \in S) => j \in S}

WaitForCycle(n, chain) ==
    \E e \in edges[Kind(n)] : /\ e[1] \in Reachable(edges[Kind(n)], Id[n])
                              /\ \E i \in DOMAIN chain : e[2] = Id[chain[i]]

SameChain(n, chain) == \E i \in DOMAIN chain : Id[chain[i]] = Id[n]

(* A reference that would wait for itself is given the placeholder.        *)
Borrows_Eager(n, chain) == Placeholder(n)
Borrows(n, chain) == Placeholder(n) /\ (SameChain(n, chain) \/ WaitForCycle(n, chain))

(* The last of the chain waits for n.                                      *)
Edge(n, chain) == <<Id[chain[Len(chain)]], Id[n]>>

Block(n, chain) ==
    IF chain = <<>> THEN edges ELSE [edges EXCEPT ![Kind(n)] = @ \cup {Edge(n, chain)}]

(* The limits of attachResource; types have none.                          *)
WithinLimits_PendingOnly(n) == n \in Type \/ Cardinality(PendingResources) < MaxPending
WithinLimits(n) ==
    n \in Type \/ /\ Cardinality(PendingResources) < MaxPending
                  /\ Cardinality(have \cap Resource) + Cardinality(PendingResources) < MaxAttached

(* A request that cannot be sent fails at once.                            *)
NewTask(n, chain) ==
    Task(IF ~up THEN "failing" ELSE IF n \in Resource THEN "describe" ELSE "request",
         Append(chain, n), <<>>)

-----------------------------------------------------------------------------
(* attach(), by the application.                                           *)
Attach(n) ==
    /\ attaches < MaxAttach /\ attaches' = attaches + 1
    /\ n \notin have /\ (Pending(n) \/ WithinLimits(n))
    /\ callers' = callers \cup {n}
    /\ task' = IF Pending(n) THEN task ELSE [task EXCEPT ![n] = NewTask(n, <<>>)]
    /\ UNCHANGED <<graph, have, edges, served, up, faults, history>>

(* detach(): forgotten here, then there.                                   *)
Unserve_Local(n) == served
Unserve(n) == IF up THEN served \ {n} ELSE served

Detach(n) ==
    /\ attaches < MaxAttach /\ attaches' = attaches + 1
    /\ n \in have
    /\ have' = have \ {n} /\ served' = Unserve(n)
    /\ detached' = detached \cup {n}
    /\ UNCHANGED <<graph, task, edges, callers, up, faults, borrowed, failed, spoiled>>

-----------------------------------------------------------------------------
(* Decoding: the next reference of the values of n.                        *)

Ref(n) == Head(task[n].todo)
IsLink(n) == <<n, Ref(n)>> \in graph.links

(* get(), which resolves a link, attaches outside of the chain.            *)
Chain(n) == IF IsLink(n) THEN <<>> ELSE task[n].chain

Decoding(n) == task[n].stage = "decode" /\ task[n].on = None /\ task[n].todo # <<>>

PassOver(n) == [task EXCEPT ![n].todo = Tail(@)]

FindReference(n) ==
    /\ Decoding(n) /\ Ref(n) \in have
    /\ task' = PassOver(n)
    /\ UNCHANGED <<graph, have, edges, callers, served, up, attaches, faults, history>>

BorrowReference(n) ==
    /\ Decoding(n) /\ Ref(n) \notin have /\ Borrows(Ref(n), Chain(n))
    /\ task' = PassOver(n)
    /\ borrowed' = borrowed \cup {<<n, Ref(n)>>}
    /\ UNCHANGED <<graph, have, edges, callers, served, up, attaches, faults,
                   failed, spoiled, detached>>

AwaitReference(n) ==
    /\ Decoding(n) /\ Ref(n) \notin have
    /\ Pending(Ref(n)) /\ ~Borrows(Ref(n), Chain(n))
    /\ task' = [task EXCEPT ![n].on = Ref(n)]
    /\ edges' = Block(Ref(n), Chain(n))
    /\ UNCHANGED <<graph, have, callers, served, up, attaches, faults, history>>

StartReference(n) ==
    /\ Decoding(n) /\ Ref(n) \notin have
    /\ ~Pending(Ref(n)) /\ WithinLimits(Ref(n))
    /\ task' = [task EXCEPT ![n].on = Ref(n), ![Ref(n)] = NewTask(Ref(n), Chain(n))]
    /\ edges' = Block(Ref(n), Chain(n))
    /\ UNCHANGED <<graph, have, callers, served, up, attaches, faults, history>>

Fails(n) == [task EXCEPT ![n].stage = "failing"]
Spoil(n) == spoiled' = spoiled \cup ({n} \cap served)

RefuseReference(n) ==
    /\ Decoding(n) /\ Ref(n) \notin have /\ ~Pending(Ref(n)) /\ ~WithinLimits(Ref(n))
    /\ task' = Fails(n) /\ Spoil(n)
    /\ UNCHANGED <<graph, have, edges, callers, served, up, attaches, faults,
                   borrowed, failed, detached>>

-----------------------------------------------------------------------------
(* A task ends: those that wait for it go on, or fail with it.             *)

Unblock(n) == [edges EXCEPT ![Kind(n)] = {e \in @ : e[1] # Id[n] /\ e[2] # Id[n]}]

Resume_IgnoresFailure(t, ok) ==
    IF t.stage = "typed" THEN [t EXCEPT !.on = None, !.stage = "request"]
    ELSE [t EXCEPT !.on = None, !.todo = Tail(@)]
Resume(t, ok) ==
    IF ~ok THEN [t EXCEPT !.on = None, !.stage = "failing"]
    ELSE IF t.stage = "typed" THEN [t EXCEPT !.on = None, !.stage = "request"]
    ELSE [t EXCEPT !.on = None, !.todo = Tail(@)]

Settle(n, ok) ==
    /\ task' = [w \in Node |-> CASE w = n -> NoTask
                                 [] w # n /\ task[w].on = n -> Resume(task[w], ok)
                                 [] OTHER -> task[w]]
    /\ edges' = Unblock(n)
    /\ callers' = callers \ {n}
    /\ UNCHANGED <<graph, up, attaches, faults, borrowed>>

Finish(n) ==
    /\ task[n].stage = "decode" /\ task[n].todo = <<>>
    /\ Settle(n, TRUE)
    /\ have' = have \cup {n}
    /\ detached' = detached \ {n}
    /\ UNCHANGED <<served, failed, spoiled>>

Fail(n) ==
    /\ task[n].stage = "failing"
    /\ Settle(n, FALSE)
    /\ failed' = failed \cup {n}
    /\ spoiled' = spoiled \cup {w \in served : task[w].on = n}
    /\ UNCHANGED <<have, served, detached>>

-----------------------------------------------------------------------------
(* Replies of the server.                                                  *)

(* TypeDefByResourceId: the payload is parsed unless the type is known, or *)
(* on its way; this wait is not recorded as an edge.                       *)
ReplyDescription(n) ==
    /\ up /\ task[n].stage = "describe"
    /\ LET t == graph.type[n] IN
       task' = CASE t \in have -> [task EXCEPT ![n].stage = "request"]
                 [] t \notin have /\ Pending(t) -> [task EXCEPT ![n].stage = "typed", ![n].on = t]
                 [] OTHER -> [task EXCEPT ![n].stage = "typed", ![n].on = t,
                                          ![t] = Task("decode", <<t>>, TypeReferences(t))]
    /\ UNCHANGED <<graph, have, edges, callers, served, up, attaches, faults, history>>

ReplyType(t) ==
    /\ up /\ t \in Type /\ task[t].stage = "request"
    /\ task' = [task EXCEPT ![t].stage = "decode", ![t].todo = TypeReferences(t)]
    /\ UNCHANGED <<graph, have, edges, callers, served, up, attaches, faults, history>>

(* beginPeerAttachment refuses a resource it serves already, and more than *)
(* the limit.                                                              *)
Admits(n) == n \notin served /\ Cardinality(served) < MaxAttached

ReplyAttach(n) ==
    /\ up /\ n \in Resource /\ task[n].stage = "request"
    /\ IF Admits(n)
         THEN /\ served' = served \cup {n}
              /\ task' = [task EXCEPT ![n].stage = "decode", ![n].todo = ValueReferences(n)]
         ELSE task' = Fails(n) /\ UNCHANGED served
    /\ UNCHANGED <<graph, have, edges, callers, up, attaches, faults, history>>

-----------------------------------------------------------------------------
(* What goes wrong.                                                        *)

Fault == faults < MaxFault /\ faults' = faults + 1

(* The managers deny it, it is gone, or its description is malformed.      *)
Refuse(n) ==
    /\ up /\ Fault /\ task[n].stage \in {"describe", "request"}
    /\ task' = Fails(n)
    /\ UNCHANGED <<graph, have, edges, callers, served, up, attaches, history>>

(* A value cannot be decoded.                                              *)
Malformed(n) ==
    /\ Fault /\ task[n].stage = "decode" /\ task[n].on = None
    /\ task' = Fails(n) /\ Spoil(n)
    /\ UNCHANGED <<graph, have, edges, callers, served, up, attaches,
                   borrowed, failed, detached>>

(* A task that waits neither for the server nor for another task goes on   *)
(* in microtasks, before the next event of the socket (a send() that finds *)
(* the socket closing and reports it at once is left out).                 *)
Idle == \A n \in Node : Pending(n) =>
            task[n].stage \in {"describe", "request"} \/ task[n].on # None

(* disconnected(): every task under way fails, and the graph is cleared.   *)
Drop ==
    /\ up /\ Fault /\ up' = FALSE /\ Idle
    /\ task' = [n \in Node |-> NoTask]
    /\ edges' = [k \in {"resource", "type"} |-> {}]
    /\ callers' = {} /\ failed' = failed \cup {n \in Node : Pending(n)}
    /\ served' = {} /\ spoiled' = {}
    /\ UNCHANGED <<graph, have, attaches, borrowed, detached>>

(* reconnect() reattaches what is attached by then.                        *)
Reconnect ==
    /\ ~up /\ Idle /\ up' = TRUE
    /\ served' = have \cap Resource
    /\ UNCHANGED <<graph, task, have, edges, callers, attaches, faults, history>>

-----------------------------------------------------------------------------
Decode(n) ==
    \/ FindReference(n) \/ BorrowReference(n) \/ AwaitReference(n)
    \/ StartReference(n) \/ RefuseReference(n)
    \/ Finish(n) \/ Fail(n)

Reply(n) == ReplyAttach(n) \/ ReplyType(n) \/ (n \in Resource /\ ReplyDescription(n))

Progress == \E n \in Node : Decode(n) \/ Reply(n)

Next ==
    \/ Progress
    \/ \E n \in Node : Refuse(n) \/ Malformed(n)
    \/ \E n \in Resource : Attach(n) \/ Detach(n)
    \/ Drop \/ Reconnect

Spec == Init /\ [][Next]_vars

(* Replies come, decoding goes on, and a lost connection is found again.   *)
FairSpec == Spec /\ WF_vars(Progress) /\ WF_vars(Reconnect)

-----------------------------------------------------------------------------
(* Properties.                                                             *)

Stage == {"none", "describe", "typed", "request", "decode", "failing"}

(* Every variable holds what the code can put there, and the attachments,  *)
(* under way and done, stay within the limits of the connection.           *)
TypeOK ==
    /\ graph \in Graphs
    /\ \A n \in Node : /\ task[n].stage \in Stage
                       /\ task[n].on \in Node \cup {None}
    /\ have \subseteq Node /\ served \subseteq Resource /\ callers \subseteq Resource
    /\ edges \in [{"resource", "type"} -> SUBSET (Nat \X Nat)]
    /\ Cardinality(PendingResources) <= MaxPending
    /\ Cardinality(have \cap Resource) + Cardinality(PendingResources) <= MaxAttached

Waiting == {n \in Node : task[n].on # None}

(* Nobody waits for himself, through any number of others: the chain and   *)
(* the recorded edges find every cycle before it closes.                   *)
NoDeadlock == \A S \in SUBSET Waiting : S # {} => \E n \in S : task[n].on \notin S

(* n waits for m, or for one that does: a set that n is in, with all that  *)
(* its members wait for, has m in it.                                      *)
WaitsFor(n, m) ==
    \A S \in SUBSET Node :
        (n \in S /\ \A x \in S : task[x].on \in S \cup {None}) => m \in S

(* A placeholder is handed out only where waiting would close a cycle.     *)
GenuineCycles ==
    [][\A p \in borrowed' \ borrowed : WaitsFor(p[2], p[1])]_vars

AtRest == \A n \in Node : ~Pending(n)

(* Everything an attached resource refers to is attached and every type it *)
(* uses is known, but for what the application detached since and for      *)
(* placeholders whose own attachment failed later.                         *)
GraphIsWhole ==
    AtRest => \A n \in have : \A i \in DOMAIN graph.refs[n] :
        LET m == graph.refs[n][i] IN
        m \in have \cup detached \/ (<<n, m>> \in borrowed /\ m \in failed)

(* The server serves what the client holds, and, but for a resource whose  *)
(* decoding failed after it was served, nothing else.                      *)
HeldIsServed ==
    (AtRest /\ up) => /\ have \cap Resource \subseteq served
                      /\ served \ spoiled \subseteq have

(* Every attach() settles, once the application asks for nothing new.      *)
AttachSettles == callers # {} ~> callers = {}
=============================================================================
