------------------------ MODULE AttachmentGraphProofs ------------------------
(***************************************************************************)
(* Proofs about AttachmentGraph, for any resources, types and references   *)
(* among them, and any limits.                                             *)
(***************************************************************************)
EXTENDS AttachmentGraph, FiniteSetTheorems, TLAPS

USE AttachmentAssumption

-----------------------------------------------------------------------------
(* The inductive invariant.                                                *)

TaskState == [stage : Stage, chain : Seq(Node), todo : Seq(Node), on : Node \cup {None}]

(* What is left to decode is the end of what the node refers to.           *)
IsLeft(n, todo) ==
    /\ Len(todo) <= Len(graph.refs[n])
    /\ \A i \in 1 .. Len(todo) :
          todo[i] = graph.refs[n][Len(graph.refs[n]) - Len(todo) + i]

(* A task of n: its chain ends with n; n is not attached yet; without a    *)
(* connection the task is a request that could not be sent; and it waits   *)
(* for a task, that of its type or of the next thing its values refer to.  *)
Sound(n, t) ==
    /\ t.stage # "none" /\ t.chain # <<>> /\ t.chain[Len(t.chain)] = n
    /\ n \notin have
    /\ ~up => t.stage = "failing"
    /\ t.stage = "describe" => n \in Resource
    /\ t.stage = "decode" => IsLeft(n, t.todo)
    /\ t.on # None =>
          /\ Pending(t.on)
          /\ \/ t.stage = "typed" /\ n \in Resource /\ t.on \in Type
             \/ t.stage = "decode" /\ t.todo # <<>> /\ t.on = Head(t.todo)

TasksAreSound == \A n \in Node : task[n] = NoTask \/ Sound(n, task[n])

TypeInv ==
    /\ graph \in Graphs
    /\ task \in [Node -> TaskState]
    /\ have \subseteq Node /\ served \subseteq Resource /\ callers \subseteq Resource
    /\ edges \in [{"resource", "type"} -> SUBSET (Number \X Number)]
    /\ up \in BOOLEAN
    /\ spoiled \subseteq Resource /\ detached \subseteq Resource

Structure == TypeInv /\ TasksAreSound

Limits ==
    /\ Cardinality(PendingResources) <= MaxPending
    /\ Cardinality(have \cap Resource) + Cardinality(PendingResources) <= MaxAttached

(* Nodes that wait are told apart by number only from their kind: the      *)
(* edges of a kind hold every wait within it, but for those of links.      *)
WaitsAreRecorded ==
    \A n \in Node :
        (/\ task[n].on # None /\ Kind(task[n].on) = Kind(n)
         /\ <<n, task[n].on>> \notin graph.links)
            => <<Id[n], Id[task[n].on]>> \in edges[Kind(n)]

(* An edge stands for a wait.                                              *)
EdgesAreWaits ==
    \A k \in {"resource", "type"} : \A e \in edges[k] :
        \E n \in Node : /\ e[1] = Id[n] /\ task[n].on # None /\ Kind(task[n].on) = k
                        /\ e[2] = Id[task[n].on]

(* Who is in a chain waits for its end.                                    *)
ChainsWait ==
    \A n \in Node : Pending(n) =>
        \A i \in DOMAIN task[n].chain : WaitsFor(task[n].chain[i], n)

(* The server serves what is attached, and what is being decoded.          *)
ServedInv ==
    /\ ~up => served = {}
    /\ up => have \cap Resource \subseteq served
    /\ \A n \in Resource : task[n].stage = "decode" => n \in served
    /\ served \ spoiled \subseteq have \cup {n \in Resource : task[n].stage = "decode"}

(* What a node refers to is there once it is passed over: or its           *)
(* placeholder is, that of a node under way, or which has failed since.    *)
Provided(n, m) ==
    m \in have \cup detached \/ (<<n, m>> \in borrowed /\ (m \in failed \/ Pending(m)))

Passed(n) ==
    IF n \in have THEN Len(graph.refs[n])
    ELSE IF task[n].stage = "decode" THEN Len(graph.refs[n]) - Len(task[n].todo)
    ELSE 0

ReferencesProvided ==
    \A n \in Node : \A i \in 1 .. Passed(n) : Provided(n, graph.refs[n][i])

(* No resource is linked to one from which its own references lead back:   *)
(* such a link is outside of the wait graph, and would wait for ever.      *)
LinksCloseNoCycle ==
    \A g \in Graphs : \A l \in g.links :
        \E T \in SUBSET Resource :
            /\ l[2] \in T /\ l[1] \notin T
            /\ \A n \in T : \A i \in DOMAIN g.refs[n] : g.refs[n][i] \in T \cup Type

DistinctIds == \A m, n \in Node : Id[m] = Id[n] => m = n
-----------------------------------------------------------------------------
(* Facts about the constants and the tasks.                                *)

LEMMA Kinds ==
  /\ None \notin Node /\ Resource \cap Type = {}
  /\ \A n \in Node : /\ n \in Resource \/ n \in Type
                     /\ Kind(n) \in {"resource", "type"} /\ Id[n] \in Nat
                     /\ Kind(n) = "resource" <=> n \in Resource
  /\ \A g \in Graphs : /\ \A n \in Node : g.refs[n] \in Seq(Node)
                       /\ \A r \in Resource : g.type[r] \in Type
                       /\ \A t \in Type : \A i \in DOMAIN g.refs[t] : g.refs[t][i] \in Type
  BY DEF AttachmentAssumption, Node, Kind

LEMMA SameId ==
  ASSUME NEW m \in Node, NEW n \in Node, Kind(m) = Kind(n), Id[m] = Id[n]
  PROVE  m = n
  BY DEF AttachmentAssumption, Node, Kind

LEMMA NoTaskState == NoTask \in TaskState /\ NoTask.stage = "none" /\ NoTask.on = None
  BY DEF NoTask, TaskState, Stage

LEMMA TaskStates ==
  ASSUME NEW t \in TaskState
  PROVE  /\ \A todo \in Seq(Node) :
              /\ [t EXCEPT !.todo = todo] \in TaskState
              /\ [t EXCEPT !.on = None, !.todo = todo] \in TaskState
              /\ [t EXCEPT !.stage = "decode", !.todo = todo] \in TaskState
         /\ \A stage \in Stage :
              /\ [t EXCEPT !.stage = stage] \in TaskState
              /\ [t EXCEPT !.on = None, !.stage = stage] \in TaskState
              /\ \A m \in Node : [t EXCEPT !.stage = stage, !.on = m] \in TaskState
         /\ \A m \in Node : [t EXCEPT !.on = m] \in TaskState
         /\ \A stage \in Stage, chain, todo \in Seq(Node) : Task(stage, chain, todo) \in TaskState
  BY DEF TaskState, Stage, Task

LEMMA TailIsLeft ==
  ASSUME NEW n \in Node, graph \in Graphs, NEW todo \in Seq(Node), todo # <<>>, IsLeft(n, todo)
  PROVE  /\ Tail(todo) \in Seq(Node) /\ Head(todo) \in Node
         /\ IsLeft(n, Tail(todo))
         /\ Head(todo) = graph.refs[n][Len(graph.refs[n]) - Len(todo) + 1]
         /\ Len(Tail(todo)) = Len(todo) - 1
  <1> DEFINE all == Len(graph.refs[n])  left == Len(todo)
  <1>1. all \in Nat /\ left \in Nat \ {0} /\ left <= all
    BY Kinds DEF IsLeft
  <1>2. /\ Tail(todo) \in Seq(Node) /\ Head(todo) \in Node /\ Head(todo) = todo[1]
        /\ Len(Tail(todo)) = left - 1
        /\ \A i \in 1 .. left - 1 : Tail(todo)[i] = todo[i + 1]
    OBVIOUS
  <1>3. \A i \in 1 .. left : todo[i] = graph.refs[n][all - left + i]
    BY DEF IsLeft
  <1> HIDE DEF all, left
  <1>4. \A i \in 1 .. left - 1 : Tail(todo)[i] = graph.refs[n][all - (left - 1) + i]
    <2> SUFFICES ASSUME NEW i \in 1 .. left - 1
                 PROVE  Tail(todo)[i] = graph.refs[n][all - (left - 1) + i]
      OBVIOUS
    <2>1. i + 1 \in 1 .. left /\ all - left + (i + 1) = all - (left - 1) + i
      BY <1>1
    <2> QED  BY <1>2, <1>3, <2>1
  <1>5. left - 1 <= all /\ Head(todo) = graph.refs[n][all - left + 1]
    BY <1>1, <1>2, <1>3
  <1> QED  BY <1>2, <1>4, <1>5 DEF IsLeft, all, left

LEMMA AllIsLeft ==
  ASSUME NEW n \in Node, graph \in Graphs
  PROVE  graph.refs[n] \in Seq(Node) /\ IsLeft(n, graph.refs[n])
  BY Kinds DEF IsLeft

(* A task that a step leaves alone.                                        *)
LEMMA LeftAlone ==
  ASSUME Structure, NEW n \in Node, task'[n] = task[n], graph' = graph,
         up => up', n \in have' => n \in have,
         \A m \in Node : task[n].on = m /\ Pending(m) => Pending(m)'
  PROVE  (task[n] = NoTask \/ Sound(n, task[n]))'
  <1>1. CASE task[n] = NoTask
    BY <1>1 DEF NoTask
  <1>2. CASE Sound(n, task[n])
    <2>1. task[n].on \in Node \cup {None}
      BY DEF Structure, TypeInv, TaskState
    <2>2. task[n].on # None => Pending(task[n].on)'
      BY <1>2, <2>1 DEF Sound
    <2> QED  BY <1>2, <2>2 DEF Sound, IsLeft, Pending
  <1> QED  BY <1>1, <1>2 DEF Structure, TasksAreSound

LEMMA SameTasks ==
  ASSUME Structure, task' = task, graph' = graph, up => up', have' \subseteq have
  PROVE  TasksAreSound'
  <1>1. \A n \in Node : Pending(n) => Pending(n)'
    BY DEF Pending
  <1>2. \A n \in Node : (task[n] = NoTask \/ Sound(n, task[n]))'
    BY <1>1, LeftAlone
  <1> QED  BY <1>2 DEF TasksAreSound

(* A step that changes the tasks of two nodes, or of one, and attaches     *)
(* none.                                                                   *)
LEMMA TwoChange ==
  ASSUME Structure, NEW n \in Node, NEW r \in Node,
         \A m \in Node \ {n, r} : task'[m] = task[m],
         graph' = graph, up' = up, have' \subseteq have,
         Sound(n, task[n])', Sound(r, task[r])'
  PROVE  TasksAreSound'
  <1> SUFFICES ASSUME NEW m \in Node
               PROVE  (task[m] = NoTask \/ Sound(m, task[m]))'
    BY DEF TasksAreSound
  <1>1. \A w \in Node : Pending(w) => Pending(w)'
    BY DEF Sound, Pending
  <1>2. CASE m \in {n, r}
    BY <1>2
  <1>3. CASE m \notin {n, r}
    BY <1>1, <1>3, LeftAlone
  <1> QED  BY <1>2, <1>3

LEMMA OneChanges ==
  ASSUME Structure, NEW n \in Node, \A m \in Node \ {n} : task'[m] = task[m],
         graph' = graph, up' = up, have' \subseteq have, Sound(n, task[n])'
  PROVE  TasksAreSound'
  BY TwoChange

LEMMA InitStructure == Init => Structure
  BY Kinds, NoTaskState DEF Init, Structure, TypeInv, TasksAreSound

(* A decode that goes on: past a reference that is there, or to wait.      *)
LEMMA DecodingIsSound ==
  ASSUME Structure, NEW n \in Node, Decoding(n)
  PROVE  /\ task[n] \in TaskState /\ Sound(n, task[n]) /\ up
         /\ task[n].todo \in Seq(Node) /\ IsLeft(n, task[n].todo) /\ Ref(n) \in Node
         /\ Pending(n) /\ n \notin have
  BY DEF Structure, TypeInv, TasksAreSound, TaskState, Decoding, Ref, Sound, NoTask, Pending

LEMMA PassStructure ==
  ASSUME Structure, NEW n \in Node, Decoding(n), task' = PassOver(n),
         UNCHANGED <<graph, have, callers, served, up, spoiled, detached, edges>>
  PROVE  Structure'
  <1>1. /\ Tail(task[n].todo) \in Seq(Node) /\ IsLeft(n, Tail(task[n].todo))
    BY DecodingIsSound, TailIsLeft DEF Structure, TypeInv, Decoding
  <1>2. /\ task' = [task EXCEPT ![n] = [task[n] EXCEPT !.todo = Tail(task[n].todo)]]
        /\ task \in [Node -> TaskState]
    BY DEF PassOver, Structure, TypeInv
  <1>3. task' \in [Node -> TaskState]
    <2>1. [task[n] EXCEPT !.todo = Tail(task[n].todo)] \in TaskState
      BY <1>1, <1>2, TaskStates, DecodingIsSound
    <2> QED  BY <1>2, <2>1
  <1>4. Sound(n, task[n])'
    BY <1>1, <1>2, DecodingIsSound DEF Sound, Decoding, TaskState, IsLeft
  <1>5. TasksAreSound'
    BY <1>2, <1>4, OneChanges
  <1> QED  BY <1>3, <1>5 DEF Structure, TypeInv

LEMMA OfTask ==
  ASSUME Structure, NEW n \in Node, Pending(n)
  PROVE  task[n] \in TaskState /\ Sound(n, task[n]) /\ n \notin have
  BY DEF Structure, TypeInv, TasksAreSound, TaskState, Sound, NoTask, Pending

LEMMA BlockType ==
  ASSUME Structure, NEW n \in Node, NEW chain \in Seq(Node)
  PROVE  Block(n, chain) \in [{"resource", "type"} -> SUBSET (Number \X Number)]
  <1>1. CASE chain = <<>>
    BY <1>1 DEF Block, Structure, TypeInv
  <1>2. CASE chain # <<>>
    <2>1. chain[Len(chain)] \in Node
      BY <1>2
    <2>2. Edge(n, chain) \in Number \X Number
      BY <2>1 DEF Edge, Number
    <2> QED  BY <1>2, <2>2, Kinds DEF Block, Structure, TypeInv
  <1> QED  BY <1>1, <1>2

LEMMA UnblockType ==
  ASSUME Structure, NEW n \in Node
  PROVE  Unblock(n) \in [{"resource", "type"} -> SUBSET (Number \X Number)]
  BY Kinds DEF Unblock, Structure, TypeInv

LEMMA ChainType ==
  ASSUME Structure, NEW n \in Node, Pending(n)
  PROVE  Chain(n) \in Seq(Node)
  BY OfTask DEF Chain, TaskState

LEMMA NewTaskSound ==
  ASSUME Structure, NEW n \in Node, NEW chain \in Seq(Node), n \notin have',
         task'[n] = NewTask(n, chain), up' = up, graph' = graph
  PROVE  NewTask(n, chain) \in TaskState /\ Sound(n, task[n])'
  <1>1. /\ Append(chain, n) \in Seq(Node) /\ Append(chain, n) # <<>>
        /\ Append(chain, n)[Len(Append(chain, n))] = n
    OBVIOUS
  <1>2. NewTask(n, chain) \in TaskState
    <2>1. (IF ~up THEN "failing" ELSE IF n \in Resource THEN "describe" ELSE "request") \in Stage
      BY DEF Stage
    <2>2. <<>> \in Seq(Node)
      OBVIOUS
    <2> QED  BY <1>1, <2>1, <2>2 DEF NewTask, Task, TaskState
  <1>3. /\ task'[n].chain = Append(chain, n) /\ task'[n].on = None
        /\ task'[n].stage \in {"failing", "describe", "request"}
        /\ task'[n].stage = "describe" => n \in Resource
        /\ ~up => task'[n].stage = "failing"
    BY DEF NewTask, Task
  <1> QED  BY <1>1, <1>2, <1>3 DEF Sound

LEMMA AwaitStructure ==
  ASSUME Structure, NEW n \in Node, AwaitReference(n)
  PROVE  Structure'
  <1>1. Decoding(n) /\ Pending(Ref(n))
    BY DEF AwaitReference
  <1>2. task' = [task EXCEPT ![n] = [task[n] EXCEPT !.on = Ref(n)]] /\ task \in [Node -> TaskState]
    BY DEF AwaitReference, Structure, TypeInv
  <1>3. [task[n] EXCEPT !.on = Ref(n)] \in TaskState
    BY <1>1, DecodingIsSound, TaskStates
  <1>4. Sound(n, task[n])'
    <2>1. \A m \in Node : Pending(m) => Pending(m)'
      BY <1>2 DEF Pending
    <2>2. /\ task'[n].on = Ref(n) /\ task'[n].todo = task[n].todo /\ task'[n].stage = "decode"
          /\ task'[n].chain = task[n].chain
      BY <1>1, <1>2, DecodingIsSound DEF TaskState, Decoding
    <2>3. Pending(task'[n].on)
      BY <1>1, <2>2
    <2>4. UNCHANGED <<graph, have, up>> /\ Ref(n) \in Node
      BY <1>1, DecodingIsSound DEF AwaitReference
    <2>5. task'[task'[n].on].stage # "none"
      BY <2>1, <2>2, <2>3, <2>4 DEF Pending
    <2>6. Sound(n, task[n]) /\ up /\ n \notin have /\ task[n].todo # <<>> /\ IsLeft(n, task[n].todo)
      BY <1>1, DecodingIsSound DEF Decoding
    <2> QED  BY <2>2, <2>4, <2>5, <2>6 DEF Sound, IsLeft, Pending, Ref
  <1>5. TasksAreSound'
    BY <1>2, <1>4, OneChanges DEF AwaitReference
  <1>6. edges' \in [{"resource", "type"} -> SUBSET (Number \X Number)]
    BY <1>1, DecodingIsSound, ChainType, BlockType DEF AwaitReference
  <1> QED  BY <1>2, <1>3, <1>5, <1>6 DEF Structure, TypeInv, AwaitReference, history

LEMMA StartStructure ==
  ASSUME Structure, NEW n \in Node, StartReference(n)
  PROVE  Structure'
  <1> PICK r : r = Ref(n)
    OBVIOUS
  <1>1. Decoding(n) /\ ~Pending(r) /\ r \notin have /\ UNCHANGED <<graph, have, up>>
    BY DEF StartReference
  <1>2. r \in Node /\ n # r /\ Chain(n) \in Seq(Node)
    BY <1>1, DecodingIsSound, ChainType
  <1>3. /\ task' = [task EXCEPT ![n] = [task[n] EXCEPT !.on = r], ![r] = NewTask(r, Chain(n))]
        /\ task \in [Node -> TaskState]
    BY DEF StartReference, Structure, TypeInv
  <1>4. /\ task'[n] = [task[n] EXCEPT !.on = r] /\ task'[r] = NewTask(r, Chain(n))
        /\ \A m \in Node \ {n, r} : task'[m] = task[m]
    BY <1>2, <1>3
  <1>5. NewTask(r, Chain(n)) \in TaskState /\ Sound(r, task[r])'
    BY <1>1, <1>2, <1>4, NewTaskSound
  <1>6. [task[n] EXCEPT !.on = r] \in TaskState
    BY <1>1, <1>2, DecodingIsSound, TaskStates
  <1>7. task' \in [Node -> TaskState]
    BY <1>2, <1>3, <1>5, <1>6
  <1>8. Sound(n, task[n])'
    <2>1. task'[r].stage # "none"
      BY <1>5 DEF Sound
    <2> QED  BY SMTT(15), <1>1, <1>2, <1>4, <2>1, DecodingIsSound
             DEF Sound, Decoding, TaskState, IsLeft, Pending, Ref
  <1>9. TasksAreSound'
    BY <1>1, <1>2, <1>4, <1>5, <1>8, TwoChange
  <1>10. edges' \in [{"resource", "type"} -> SUBSET (Number \X Number)]
    BY <1>2, BlockType DEF StartReference
  <1> QED  BY <1>7, <1>9, <1>10 DEF Structure, TypeInv, StartReference, history

LEMMA FailsStructure ==
  ASSUME Structure, NEW n \in Node, Pending(n), task[n].on = None, task' = Fails(n),
         UNCHANGED <<graph, have, edges, callers, served, up, detached>>,
         spoiled' \subseteq Resource
  PROVE  Structure'
  <1>1. task' = [task EXCEPT ![n] = [task[n] EXCEPT !.stage = "failing"]] /\ task \in [Node -> TaskState]
    BY DEF Fails, Structure, TypeInv
  <1>2. [task[n] EXCEPT !.stage = "failing"] \in TaskState
    BY <1>1, TaskStates DEF Stage
  <1>3. Sound(n, task[n])'
    BY <1>1, OfTask DEF Sound, TaskState
  <1>4. TasksAreSound'
    BY <1>1, <1>3, OneChanges
  <1> QED  BY <1>1, <1>2, <1>4 DEF Structure, TypeInv

LEMMA SettleTasks ==
  ASSUME Structure, NEW n \in Node, NEW ok \in BOOLEAN, Settle(n, ok), task[n].on = None
  PROVE  /\ task'[n] = NoTask
         /\ \A w \in Node \ {n} : task[w].on = n => task'[w] = Resume(task[w], ok)
         /\ \A w \in Node \ {n} : task[w].on # n => task'[w] = task[w]
         /\ \A w \in Node : Pending(w)' => w # n /\ Pending(w)
         /\ \A w \in Node \ {n} : Pending(w) => Pending(w)'
         /\ UNCHANGED <<graph, up>>
  <1>1. /\ task'[n] = NoTask
        /\ \A w \in Node \ {n} : task[w].on = n => task'[w] = Resume(task[w], ok)
        /\ \A w \in Node \ {n} : task[w].on # n => task'[w] = task[w]
    <2>1. \A w \in Node : task'[w] = CASE w = n -> NoTask
                                       [] w # n /\ task[w].on = n -> Resume(task[w], ok)
                                       [] OTHER -> task[w]
      BY DEF Settle
    <2>2. \A w \in Node \ {n} : task[w].on = n => task'[w] = Resume(task[w], ok)
      BY <2>1
    <2>3. \A w \in Node \ {n} : task[w].on # n => task'[w] = task[w]
      BY <2>1
    <2>4. task'[n] = NoTask
      BY <2>1, Kinds
    <2> QED  BY <2>2, <2>3, <2>4
  <1>2. \A w \in Node \ {n} : task[w].on = n => Pending(w) /\ Pending(w)'
    <2> SUFFICES ASSUME NEW w \in Node \ {n}, task[w].on = n
                 PROVE  Pending(w) /\ Pending(w)'
      OBVIOUS
    <2>1. Pending(w) /\ task[w] \in TaskState
      BY Kinds, NoTaskState, OfTask DEF Structure, TasksAreSound, Sound, Pending
    <2>2. CASE ~ok \/ task[w].stage = "typed"
      <3>1. PICK stage \in {"failing", "request"} :
               task'[w] = [task[w] EXCEPT !.on = None, !.stage = stage]
        BY <1>1, <2>2 DEF Resume
      <3> QED  BY <2>1, <3>1 DEF Pending, TaskState
    <2>3. CASE ok /\ task[w].stage # "typed"
      <3>1. task'[w] = [task[w] EXCEPT !.on = None, !.todo = Tail(@)]
        BY <1>1, <2>3 DEF Resume
      <3> QED  BY <2>1, <3>1 DEF Pending, TaskState
    <2> QED  BY <2>1, <2>2, <2>3
  <1> QED  BY <1>1, <1>2, NoTaskState DEF Settle, Pending

LEMMA SettledWaits ==
  ASSUME Structure, NEW n \in Node, NEW ok \in BOOLEAN, Settle(n, ok), task[n].on = None
  PROVE  /\ \A w \in Node : task[w].on = n => task'[w].on = None /\ w # n
         /\ \A w \in Node : task[w].on # n => task'[w].on = task[w].on
         /\ \A w \in Node : Pending(w)' => task'[w].chain = task[w].chain
  <1>1. \A w \in Node \ {n} : task[w].on = n => task'[w].on = None /\ task'[w].chain = task[w].chain
    <2> SUFFICES ASSUME NEW w \in Node \ {n}, task[w].on = n
                 PROVE  task'[w].on = None /\ task'[w].chain = task[w].chain
      OBVIOUS
    <2>1. task'[w] = Resume(task[w], ok) /\ task[w] \in TaskState
      BY SettleTasks DEF Structure, TypeInv
    <2>2. CASE ~ok \/ task[w].stage = "typed"
      BY <2>1, <2>2 DEF Resume, TaskState
    <2>3. CASE ok /\ task[w].stage # "typed"
      <3>1. task'[w] = [task[w] EXCEPT !.on = None, !.todo = Tail(@)]
        BY <2>1, <2>3 DEF Resume
      <3> QED  BY <2>1, <3>1 DEF TaskState
    <2> QED  BY <2>2, <2>3
  <1>2. /\ task'[n] = NoTask
        /\ \A w \in Node \ {n} : task[w].on # n => task'[w] = task[w]
        /\ \A w \in Node : Pending(w)' => w # n
    BY SettleTasks
  <1>3. task[n].on # n /\ task'[n].on = task[n].on
    BY <1>2, Kinds, NoTaskState
  <1> QED  BY <1>1, <1>2, <1>3

LEMMA SettleStructure ==
  ASSUME Structure, NEW n \in Node, NEW ok \in BOOLEAN, Settle(n, ok), task[n].on = None,
         have' \subseteq have \cup {n}, served' = served,
         spoiled' \subseteq Resource, detached' \subseteq detached
  PROVE  Structure'
  <1>1. \A w \in Node \ {n} : task[w].on = n =>
           /\ task[w] \in TaskState /\ Sound(w, task[w])
           /\ task[w].stage \in {"typed", "decode"}
           /\ task'[w] = Resume(task[w], ok)
    <2> SUFFICES ASSUME NEW w \in Node \ {n}, task[w].on = n
                 PROVE  /\ task[w] \in TaskState /\ Sound(w, task[w])
                        /\ task[w].stage \in {"typed", "decode"}
                        /\ task'[w] = Resume(task[w], ok)
      OBVIOUS
    <2>1. Sound(w, task[w])
      BY Kinds, NoTaskState DEF Structure, TasksAreSound
    <2> QED  BY <2>1, Kinds, OfTask, SettleTasks DEF Sound, Pending
  <1>2. \A w \in Node \ {n} : task[w].on = n =>
           task'[w] \in TaskState /\ Sound(w, task[w])'
    <2> SUFFICES ASSUME NEW w \in Node \ {n}, task[w].on = n
                 PROVE  task'[w] \in TaskState /\ Sound(w, task[w])'
      OBVIOUS
    <2>1. /\ task[w] \in TaskState /\ Sound(w, task[w]) /\ task'[w] = Resume(task[w], ok)
          /\ w \notin have' /\ UNCHANGED <<graph, up>> /\ w \in Node
          /\ task[w].stage \in {"typed", "decode"}
      BY <1>1, SettleTasks DEF Sound
    <2>2. task[w].on # None /\ up
      BY <2>1, Kinds DEF Sound
    <2>3. CASE ~ok \/ task[w].stage = "typed"
      <3>1. PICK stage \in {"failing", "request"} : task'[w] = [task[w] EXCEPT !.on = None, !.stage = stage]
        BY <2>1, <2>3 DEF Resume
      <3>2. task'[w] \in TaskState
        <4>1. stage \in Stage
          BY DEF Stage
        <4>2. [task[w] EXCEPT !.on = None, !.stage = stage] \in TaskState
          BY <2>1, <4>1, TaskStates
        <4> QED  BY <3>1, <4>2
      <3>3. /\ task'[w].on = None /\ task'[w].stage = stage
            /\ task'[w].chain = task[w].chain
        BY <2>1, <3>1 DEF TaskState
      <3> QED  BY <2>1, <2>2, <3>2, <3>3 DEF Sound
    <2>4. CASE ok /\ task[w].stage = "decode"
      <3>1. task'[w] = [task[w] EXCEPT !.on = None, !.todo = Tail(task[w].todo)]
        BY <2>1, <2>4 DEF Resume
      <3>2. /\ task[w].todo \in Seq(Node) /\ task[w].todo # <<>> /\ IsLeft(w, task[w].todo)
        BY <2>1, <2>2, <2>4 DEF Sound, TaskState
      <3>3. Tail(task[w].todo) \in Seq(Node) /\ IsLeft(w, Tail(task[w].todo))
        BY <2>1, <3>2, TailIsLeft DEF Structure, TypeInv
      <3>4. task'[w] \in TaskState
        <4>1. [task[w] EXCEPT !.on = None, !.todo = Tail(task[w].todo)] \in TaskState
          BY <2>1, <3>3, TaskStates
        <4> QED  BY <3>1, <4>1
      <3>5. /\ task'[w].on = None /\ task'[w].stage = "decode" /\ task'[w].todo = Tail(task[w].todo)
            /\ task'[w].chain = task[w].chain
        BY <2>1, <2>4, <3>1 DEF TaskState
      <3> QED  BY <2>1, <2>2, <3>3, <3>4, <3>5 DEF Sound, IsLeft
    <2> QED  BY <1>1, <2>3, <2>4
  <1>3. TasksAreSound'
    <2> SUFFICES ASSUME NEW w \in Node
                 PROVE  (task[w] = NoTask \/ Sound(w, task[w]))'
      BY DEF TasksAreSound
    <2>1. CASE w = n
      BY <2>1, SettleTasks
    <2>2. CASE w # n /\ task[w].on = n
      BY <1>2, <2>2
    <2>3. CASE w # n /\ task[w].on # n
      BY <2>3, SettleTasks, LeftAlone
    <2> QED  BY <2>1, <2>2, <2>3
  <1>4. task' \in [Node -> TaskState]
    <2>1. \A w \in Node : task'[w] \in TaskState
      BY <1>2, SettleTasks, NoTaskState DEF Structure, TypeInv
    <2>2. task' = [w \in Node |-> task'[w]]
      BY DEF Settle
    <2> QED  BY <2>1, <2>2
  <1> QED  BY <1>3, <1>4, UnblockType DEF Structure, TypeInv, Settle

(* Who settles waits for nobody.                                           *)
LEMMA SettlesFree ==
  ASSUME Structure, NEW n \in Node, Finish(n) \/ Fail(n)
  PROVE  task[n].on = None /\ Pending(n)
  BY OfTask DEF Sound, Finish, Fail, Pending

LEMMA FinishStructure ==
  ASSUME Structure, NEW n \in Node, Finish(n)
  PROVE  Structure'
  BY SettlesFree, SettleStructure DEF Finish, Structure, TypeInv

LEMMA FailStructure ==
  ASSUME Structure, NEW n \in Node, Fail(n)
  PROVE  Structure'
  BY SettlesFree, SettleStructure DEF Fail, Structure, TypeInv

LEMMA DescriptionStructure ==
  ASSUME Structure, NEW n \in Resource, ReplyDescription(n)
  PROVE  Structure'
  <1> PICK t : t = graph.type[n]
    OBVIOUS
  <1>1. /\ up /\ task[n].stage = "describe" /\ n \in Node
        /\ UNCHANGED <<graph, have, edges, callers, served, up, attaches, faults, history>>
    BY DEF ReplyDescription, Node
  <1>2. Pending(n) /\ task[n] \in TaskState /\ Sound(n, task[n]) /\ task[n].on = None
    BY <1>1, OfTask DEF Sound, Pending
  <1>3. t \in Type /\ t \in Node /\ t # n /\ TypeReferences(t) \in Seq(Node)
    BY Kinds DEF Structure, TypeInv, TypeReferences, Node
  <1>4. task \in [Node -> TaskState]
    BY DEF Structure, TypeInv
  <1>5. CASE t \in have
    <2>1. task' = [task EXCEPT ![n] = [task[n] EXCEPT !.stage = "request"]]
      BY <1>4, <1>5 DEF ReplyDescription
    <2>2. [task[n] EXCEPT !.stage = "request"] \in TaskState
      BY <1>2, TaskStates DEF Stage
    <2>3. Sound(n, task[n])'
      BY <1>1, <1>2, <1>4, <2>1 DEF Sound, TaskState
    <2>4. TasksAreSound'
      BY <1>1, <1>4, <2>1, <2>3, OneChanges
    <2> QED  BY <1>1, <1>4, <2>1, <2>2, <2>4 DEF Structure, TypeInv, history
  <1>6. CASE t \notin have /\ Pending(t)
    <2>1. task' = [task EXCEPT ![n] = [task[n] EXCEPT !.stage = "typed", !.on = t]]
      BY <1>4, <1>6 DEF ReplyDescription
    <2>2. [task[n] EXCEPT !.stage = "typed", !.on = t] \in TaskState
      BY <1>2, <1>3, TaskStates DEF Stage
    <2>3. Sound(n, task[n])'
      BY <1>1, <1>2, <1>3, <1>4, <1>6, <2>1 DEF Sound, TaskState, Pending
    <2>4. TasksAreSound'
      BY <1>1, <1>4, <2>1, <2>3, OneChanges
    <2> QED  BY <1>1, <1>4, <2>1, <2>2, <2>4 DEF Structure, TypeInv, history
  <1>7. CASE t \notin have /\ ~Pending(t)
    <2>1. task' = [task EXCEPT ![n] = [task[n] EXCEPT !.stage = "typed", !.on = t],
                               ![t] = Task("decode", <<t>>, TypeReferences(t))]
      <3>1. task' = [task EXCEPT ![n].stage = "typed", ![n].on = t,
                                 ![t] = Task("decode", <<t>>, TypeReferences(t))]
        BY <1>7 DEF ReplyDescription
      <3> QED  BY <1>1, <1>3, <1>4, <3>1
    <2>2. /\ [task[n] EXCEPT !.stage = "typed", !.on = t] \in TaskState
          /\ Task("decode", <<t>>, TypeReferences(t)) \in TaskState
      <3>1. Task("decode", <<t>>, TypeReferences(t)) \in TaskState
        BY <1>3 DEF Task, TaskState, Stage
      <3>2. "typed" \in Stage
        BY DEF Stage
      <3> QED  BY <1>2, <1>3, <3>1, <3>2, TaskStates
    <2>3. task'[t] = Task("decode", <<t>>, TypeReferences(t))
      BY <1>3, <1>4, <2>1
    <2>4. Sound(t, task[t])'
      <3>1. IsLeft(t, TypeReferences(t))
        BY <1>3, AllIsLeft DEF Structure, TypeInv, TypeReferences
      <3>2. /\ task'[t].stage = "decode" /\ task'[t].chain = <<t>> /\ task'[t].on = None
            /\ task'[t].todo = TypeReferences(t)
        BY <2>3 DEF Task
      <3> QED  BY <1>1, <1>7, <3>1, <3>2 DEF Sound, IsLeft, TypeReferences
    <2>5. Sound(n, task[n])'
      <3>1. task'[t].stage # "none"
        BY <2>4 DEF Sound
      <3> QED  BY <1>1, <1>2, <1>3, <1>4, <2>1, <3>1 DEF Sound, TaskState, Pending
    <2>6. TasksAreSound'
      BY <1>1, <1>3, <1>4, <2>1, <2>4, <2>5, TwoChange
    <2>7. task' \in [Node -> TaskState]
      BY <1>3, <1>4, <2>1, <2>2
    <2> QED  BY <1>1, <2>6, <2>7 DEF Structure, TypeInv, history
  <1> QED  BY <1>5, <1>6, <1>7

(* A reply with what there is to decode.                                   *)
LEMMA DecodeStructure ==
  ASSUME Structure, NEW n \in Node, up, task[n].stage = "request",
         task' = [task EXCEPT ![n].stage = "decode", ![n].todo = graph.refs[n]],
         UNCHANGED <<graph, have, edges, callers, up, spoiled, detached>>,
         served' \subseteq Resource
  PROVE  Structure'
  <1>1. Pending(n) /\ task[n] \in TaskState /\ Sound(n, task[n]) /\ task[n].on = None
    BY OfTask DEF Sound, Pending
  <1>2. /\ task' = [task EXCEPT ![n] = [task[n] EXCEPT !.stage = "decode", !.todo = graph.refs[n]]]
        /\ task \in [Node -> TaskState]
    BY DEF Structure, TypeInv
  <1>3. graph.refs[n] \in Seq(Node) /\ IsLeft(n, graph.refs[n])
    BY AllIsLeft DEF Structure, TypeInv
  <1>4. [task[n] EXCEPT !.stage = "decode", !.todo = graph.refs[n]] \in TaskState
    BY <1>1, <1>3, TaskStates
  <1>5. Sound(n, task[n])'
    BY <1>1, <1>2, <1>3 DEF Sound, TaskState, IsLeft
  <1>6. TasksAreSound'
    BY <1>2, <1>5, OneChanges
  <1> QED  BY <1>2, <1>4, <1>6 DEF Structure, TypeInv

LEMMA ReplyStructure ==
  ASSUME Structure, NEW n \in Node, Reply(n)
  PROVE  Structure'
  <1>1. CASE ReplyAttach(n)
    <2>1. Pending(n) /\ task[n].on = None
      BY <1>1, OfTask DEF ReplyAttach, Sound, Pending
    <2>2. CASE Admits(n)
      BY SMTT(15), <1>1, <2>2, DecodeStructure DEF ReplyAttach, ValueReferences, Structure, TypeInv, history
    <2>3. CASE ~Admits(n)
      BY <1>1, <2>1, <2>3, FailsStructure DEF ReplyAttach, Structure, TypeInv, history
    <2> QED  BY <2>2, <2>3
  <1>2. CASE ReplyType(n)
    BY <1>2, DecodeStructure DEF ReplyType, TypeReferences, Structure, TypeInv, history
  <1>3. CASE n \in Resource /\ ReplyDescription(n)
    BY <1>3, DescriptionStructure
  <1> QED  BY <1>1, <1>2, <1>3 DEF Reply

LEMMA RefusalStructure ==
  ASSUME Structure, NEW n \in Node, RefuseReference(n) \/ Refuse(n) \/ Malformed(n)
  PROVE  Structure'
  <1>1. CASE RefuseReference(n)
    BY <1>1, DecodingIsSound, FailsStructure
       DEF RefuseReference, Decoding, Spoil, Structure, TypeInv
  <1>2. CASE Refuse(n)
    BY <1>2, OfTask, FailsStructure DEF Refuse, Sound, Pending, Structure, TypeInv, history
  <1>3. CASE Malformed(n)
    BY <1>3, FailsStructure DEF Malformed, Spoil, Pending, Structure, TypeInv
  <1> QED  BY <1>1, <1>2, <1>3

LEMMA ApplicationStructure ==
  ASSUME Structure, NEW n \in Resource, Attach(n) \/ Detach(n)
  PROVE  Structure'
  <1>1. CASE Attach(n)
    <2>1. n \in Node /\ n \notin have /\ UNCHANGED <<graph, have, edges, served, up, history>>
      BY <1>1 DEF Attach, Node
    <2>2. CASE Pending(n)
      <3>1. task' = task
        BY <1>1, <2>2 DEF Attach
      <3>2. TasksAreSound'
        BY <2>1, <3>1, SameTasks
      <3> QED  BY <1>1, <2>1, <3>1, <3>2 DEF Structure, TypeInv, Attach, history
    <2>3. CASE ~Pending(n)
      <3>1. task' = [task EXCEPT ![n] = NewTask(n, <<>>)] /\ task \in [Node -> TaskState]
        BY <1>1, <2>3 DEF Attach, Structure, TypeInv
      <3>2. task'[n] = NewTask(n, <<>>) /\ \A m \in Node \ {n} : task'[m] = task[m]
        BY <2>1, <3>1
      <3>3. NewTask(n, <<>>) \in TaskState /\ Sound(n, task[n])'
        <4>1. <<>> \in Seq(Node)
          OBVIOUS
        <4> QED  BY <2>1, <3>2, <4>1, NewTaskSound
      <3>4. TasksAreSound'
        BY <2>1, <3>2, <3>3, OneChanges
      <3> QED  BY <1>1, <2>1, <3>1, <3>3, <3>4 DEF Structure, TypeInv, Attach, history
    <2> QED  BY <2>2, <2>3
  <1>2. CASE Detach(n)
    <2>1. UNCHANGED <<graph, task, edges, callers, up, spoiled>> /\ have' \subseteq have
      BY <1>2 DEF Detach
    <2>2. TasksAreSound'
      BY <2>1, SameTasks
    <2> QED  BY <1>2, <2>1, <2>2 DEF Structure, TypeInv, Detach, Unserve
  <1> QED  BY <1>1, <1>2

LEMMA ConnectionStructure ==
  ASSUME Structure, Drop \/ Reconnect
  PROVE  Structure'
  <1>1. CASE Drop
    BY <1>1, Kinds, NoTaskState DEF Drop, Structure, TypeInv, TasksAreSound
  <1>2. CASE Reconnect
    <2>1. UNCHANGED <<graph, task, have, edges, callers, spoiled, detached>> /\ up' = TRUE
      BY <1>2 DEF Reconnect, history
    <2>2. TasksAreSound'
      BY <2>1, SameTasks
    <2> QED  BY <1>2, <2>1, <2>2 DEF Structure, TypeInv, Reconnect
  <1> QED  BY <1>1, <1>2

LEMMA DecodeStepStructure ==
  ASSUME Structure, NEW n \in Node, Decode(n)
  PROVE  Structure'
  <1>1. CASE FindReference(n)
    BY <1>1, PassStructure DEF FindReference, history
  <1>2. CASE BorrowReference(n)
    BY <1>2, PassStructure DEF BorrowReference
  <1>3. CASE RefuseReference(n)
    BY <1>3, RefusalStructure
  <1> QED  BY <1>1, <1>2, <1>3, AwaitStructure, StartStructure, FinishStructure, FailStructure DEF Decode

LEMMA NextStructure ==
  ASSUME Structure, [Next]_vars
  PROVE  Structure'
  <1>1. CASE UNCHANGED vars
    <2>1. TasksAreSound'
      BY <1>1, SameTasks DEF vars
    <2> QED  BY <1>1, <2>1 DEF vars, history, Structure, TypeInv
  <1>2. CASE Next
    BY <1>2, DecodeStepStructure, ReplyStructure, RefusalStructure, ApplicationStructure,
       ConnectionStructure DEF Next, Progress
  <1> QED  BY <1>1, <1>2

(* The inductive invariant: tasks are of nodes that are not attached yet,  *)
(* fail without a connection, and wait for tasks.                          *)
THEOREM StructureAlways == Spec => []Structure
  BY InitStructure, NextStructure, PTL DEF Spec

-----------------------------------------------------------------------------
(* What each step does to the tasks, node by node.                         *)

(* No wait begins or ends.                                                 *)
Quiet ==
    /\ UNCHANGED <<graph, edges>>
    /\ \A x \in Node : task'[x].on = task[x].on
    /\ \A x \in Node : Pending(x)' =>
          (Pending(x) /\ task'[x].chain = task[x].chain) \/ task'[x].chain = <<x>>

Describes(n) == n \in Resource /\ ReplyDescription(n) /\ graph.type[n] \notin have

StartsToWait(n) == AwaitReference(n) \/ StartReference(n) \/ Describes(n)

LEMMA PassTasks ==
  ASSUME Structure, NEW n \in Node, Decoding(n), task' = PassOver(n)
  PROVE  /\ \A m \in Node \ {n} : task'[m] = task[m]
         /\ task'[n].on = task[n].on /\ task'[n].chain = task[n].chain
         /\ task'[n].stage = task[n].stage /\ task'[n].todo = Tail(task[n].todo)
         /\ \A m \in Node : Pending(m)' <=> Pending(m)
  <1>1. task[n] \in TaskState /\ task \in [Node -> TaskState]
    BY DecodingIsSound DEF Structure, TypeInv
  <1>2. task' = [task EXCEPT ![n] = [task[n] EXCEPT !.todo = Tail(task[n].todo)]]
    BY <1>1 DEF PassOver
  <1> QED  BY <1>1, <1>2 DEF TaskState, Pending

LEMMA FailsTasks ==
  ASSUME Structure, NEW n \in Node, Pending(n), task' = Fails(n)
  PROVE  /\ \A m \in Node \ {n} : task'[m] = task[m]
         /\ task'[n].on = task[n].on /\ task'[n].chain = task[n].chain
         /\ task'[n].stage = "failing"
         /\ \A m \in Node : Pending(m)' <=> Pending(m)
  <1>1. task[n] \in TaskState /\ task \in [Node -> TaskState]
    BY OfTask DEF Structure, TypeInv
  <1>2. task' = [task EXCEPT ![n] = [task[n] EXCEPT !.stage = "failing"]]
    BY <1>1 DEF Fails
  <1> QED  BY <1>1, <1>2 DEF TaskState, Pending

LEMMA DecodeTasks ==
  ASSUME Structure, NEW n \in Node, task[n].stage = "request",
         task' = [task EXCEPT ![n].stage = "decode", ![n].todo = graph.refs[n]]
  PROVE  /\ \A m \in Node \ {n} : task'[m] = task[m]
         /\ task'[n].on = task[n].on /\ task'[n].chain = task[n].chain
         /\ task'[n].stage = "decode" /\ task'[n].todo = graph.refs[n]
         /\ \A m \in Node : Pending(m)' <=> Pending(m)
  <1>1. task[n] \in TaskState /\ task \in [Node -> TaskState]
    BY OfTask DEF Structure, TypeInv, Pending
  <1>2. task' = [task EXCEPT ![n] = [task[n] EXCEPT !.stage = "decode", !.todo = graph.refs[n]]]
    BY <1>1
  <1> QED  BY <1>1, <1>2 DEF TaskState, Pending

LEMMA AttachTasks ==
  ASSUME Structure, NEW n \in Resource, Attach(n)
  PROVE  \/ Pending(n) /\ task' = task
         \/ /\ ~Pending(n) /\ WithinLimits(n)
            /\ \A m \in Node \ {n} : task'[m] = task[m]
            /\ task[n].on = None /\ task'[n].on = None /\ task'[n].chain = <<n>>
            /\ task'[n].stage \in {"failing", "describe"} /\ Pending(n)'
  <1>1. CASE Pending(n)
    BY <1>1 DEF Attach
  <1>2. CASE ~Pending(n)
    <2>1. task' = [task EXCEPT ![n] = NewTask(n, <<>>)] /\ task \in [Node -> TaskState] /\ n \in Node
      BY <1>2 DEF Attach, Structure, TypeInv, Node
    <2>2. task[n].on = None
      BY <1>2, <2>1, NoTaskState DEF Structure, TasksAreSound, Sound, Pending
    <2>3. /\ task'[n] = NewTask(n, <<>>) /\ \A m \in Node \ {n} : task'[m] = task[m]
      BY <2>1
    <2>4. Append(<<>>, n) = <<n>>
      OBVIOUS
    <2>5. /\ task'[n].on = None /\ task'[n].chain = <<n>> /\ task'[n].stage \in {"failing", "describe"}
      BY <2>3, <2>4 DEF NewTask, Task
    <2> QED  BY <1>2, <2>2, <2>3, <2>5 DEF Attach, Pending
  <1> QED  BY <1>1, <1>2

LEMMA AwaitTasks ==
  ASSUME Structure, NEW n \in Node, NEW m \in Node, AwaitReference(n), m = Ref(n)
  PROVE  /\ Decoding(n) /\ task[n].on = None /\ Pending(n) /\ Pending(m)
         /\ \A x \in Node \ {n} : task'[x] = task[x]
         /\ task'[n].on = m /\ task'[n].chain = task[n].chain
         /\ task'[n].stage = "decode" /\ task'[n].todo = task[n].todo
         /\ \A x \in Node : Pending(x)' <=> Pending(x)
  <1>1. Decoding(n) /\ task[n] \in TaskState /\ task \in [Node -> TaskState]
    BY DecodingIsSound DEF Structure, TypeInv, AwaitReference
  <1>2. task' = [task EXCEPT ![n] = [task[n] EXCEPT !.on = m]]
    BY <1>1 DEF AwaitReference
  <1> QED  BY <1>1, <1>2 DEF TaskState, Pending, Decoding, AwaitReference

LEMMA StartTasks ==
  ASSUME Structure, NEW n \in Node, NEW m \in Node, StartReference(n), m = Ref(n)
  PROVE  /\ Decoding(n) /\ n # m /\ task[n].on = None /\ Pending(n) /\ ~Pending(m) /\ WithinLimits(m)
         /\ \A x \in Node \ {n, m} : task'[x] = task[x]
         /\ task'[n].on = m /\ task'[n].chain = task[n].chain
         /\ task'[n].stage = "decode" /\ task'[n].todo = task[n].todo
         /\ task[m].on = None /\ task'[m].on = None /\ task'[m].chain = Append(Chain(n), m)
         /\ task'[m].stage \in {"describe", "request"} /\ Chain(n) \in Seq(Node)
  <1>1. /\ Decoding(n) /\ task[n] \in TaskState /\ task \in [Node -> TaskState] /\ up
        /\ ~Pending(m) /\ Pending(n) /\ n # m /\ Chain(n) \in Seq(Node) /\ WithinLimits(m)
    BY DecodingIsSound, ChainType DEF Structure, TypeInv, StartReference
  <1>2. task' = [task EXCEPT ![n] = [task[n] EXCEPT !.on = m], ![m] = NewTask(m, Chain(n))]
    BY <1>1 DEF StartReference
  <1>3. /\ task'[n] = [task[n] EXCEPT !.on = m] /\ task'[m] = NewTask(m, Chain(n))
        /\ \A x \in Node \ {n, m} : task'[x] = task[x]
    BY <1>1, <1>2
  <1>4. task[m].on = None
    BY <1>1, NoTaskState DEF Structure, TasksAreSound, Sound, Pending
  <1>5. task'[m].on = None /\ task'[m].chain = Append(Chain(n), m) /\ task'[m].stage \in {"describe", "request"}
    BY <1>1, <1>3 DEF NewTask, Task
  <1>6. /\ task'[n].on = m /\ task'[n].chain = task[n].chain
        /\ task'[n].stage = "decode" /\ task'[n].todo = task[n].todo
    BY <1>1, <1>3 DEF TaskState, Decoding
  <1> QED  BY <1>1, <1>3, <1>4, <1>5, <1>6 DEF Decoding

LEMMA DescribesTasks ==
  ASSUME Structure, NEW n \in Node, NEW m \in Node, Describes(n), m = graph.type[n]
  PROVE  /\ n \in Resource /\ m \in Type /\ n # m /\ task[n].on = None /\ Pending(n)
         /\ task'[n].on = m /\ task'[n].chain = task[n].chain /\ task'[n].stage = "typed"
         /\ \A x \in Node \ {n, m} : task'[x] = task[x]
         /\ \/ Pending(m) /\ task'[m] = task[m]
            \/ /\ ~Pending(m) /\ task[m].on = None /\ task'[m] = Task("decode", <<m>>, graph.refs[m])
  <1>1. /\ n \in Resource /\ task[n].stage = "describe" /\ Pending(n) /\ task[n] \in TaskState
        /\ Sound(n, task[n]) /\ task \in [Node -> TaskState] /\ m \notin have
    BY OfTask DEF Describes, ReplyDescription, Structure, TypeInv, Pending
  <1>2. m \in Type /\ n # m /\ task[n].on = None
    BY <1>1, Kinds DEF Structure, TypeInv, Sound
  <1>3. CASE Pending(m)
    <2>1. task' = [task EXCEPT ![n].stage = "typed", ![n].on = m]
      BY <1>1, <1>3 DEF Describes, ReplyDescription
    <2>2. task' = [task EXCEPT ![n] = [task[n] EXCEPT !.stage = "typed", !.on = m]]
      BY <1>1, <2>1
    <2> QED  BY <1>1, <1>2, <1>3, <2>2 DEF TaskState
  <1>4. CASE ~Pending(m)
    <2>1. task' = [task EXCEPT ![n].stage = "typed", ![n].on = m,
                               ![m] = Task("decode", <<m>>, TypeReferences(m))]
      BY <1>1, <1>4 DEF Describes, ReplyDescription
    <2>2. task' = [task EXCEPT ![n] = [task[n] EXCEPT !.stage = "typed", !.on = m],
                               ![m] = Task("decode", <<m>>, graph.refs[m])]
      BY <1>1, <1>2, <2>1 DEF TypeReferences
    <2>3. task[m].on = None
      BY <1>4, NoTaskState DEF Structure, TasksAreSound, Sound, Pending
    <2>4. /\ task'[n] = [task[n] EXCEPT !.stage = "typed", !.on = m]
          /\ task'[m] = Task("decode", <<m>>, graph.refs[m])
          /\ \A x \in Node \ {n, m} : task'[x] = task[x]
      BY <1>1, <1>2, <2>2
    <2> QED  BY <1>1, <1>2, <1>4, <2>3, <2>4 DEF TaskState
  <1> QED  BY <1>3, <1>4

LEMMA DescribedTasks ==
  ASSUME Structure, NEW n \in Resource, ReplyDescription(n), ~Describes(n)
  PROVE  /\ \A m \in Node \ {n} : task'[m] = task[m]
         /\ task'[n].on = task[n].on /\ task'[n].chain = task[n].chain
         /\ task[n].stage = "describe" /\ task'[n].stage = "request"
         /\ \A m \in Node : Pending(m)' <=> Pending(m)
  <1>1. /\ task[n].stage = "describe" /\ task[n] \in TaskState /\ n \in Node
        /\ task \in [Node -> TaskState]
    BY DEF ReplyDescription, Structure, TypeInv, Node
  <1>2. task' = [task EXCEPT ![n].stage = "request"]
    BY DEF Describes, ReplyDescription
  <1>3. task' = [task EXCEPT ![n] = [task[n] EXCEPT !.stage = "request"]]
    BY <1>1, <1>2
  <1> QED  BY <1>1, <1>3 DEF TaskState, Pending

LEMMA StepsOfWaits ==
  ASSUME Structure, [Next]_vars
  PROVE  Quiet \/ (\E n \in Node : StartsToWait(n) \/ Finish(n) \/ Fail(n)) \/ Drop
  <1>1. CASE UNCHANGED vars \/ Reconnect
    BY <1>1 DEF vars, Reconnect, history, Quiet, Pending
  <1>2. CASE \E n \in Node : FindReference(n) \/ BorrowReference(n)
    BY <1>2, PassTasks DEF FindReference, BorrowReference, Quiet
  <1>3. CASE \E n \in Node : RefuseReference(n) \/ Refuse(n) \/ Malformed(n)
    <2> SUFFICES ASSUME NEW n \in Node, RefuseReference(n) \/ Refuse(n) \/ Malformed(n)
                 PROVE  Quiet
      BY <1>3
    <2>1. Pending(n) /\ task' = Fails(n) /\ UNCHANGED <<graph, edges>>
      BY DEF RefuseReference, Refuse, Malformed, Decoding, Pending, history
    <2> QED  BY <2>1, FailsTasks DEF Quiet
  <1>4. CASE \E n \in Node : ReplyAttach(n)
    <2> SUFFICES ASSUME NEW n \in Node, ReplyAttach(n)
                 PROVE  Quiet
      BY <1>4
    <2>1. task[n].stage = "request" /\ Pending(n) /\ UNCHANGED <<graph, edges>>
      BY DEF ReplyAttach, Pending
    <2>2. CASE task' = [task EXCEPT ![n].stage = "decode", ![n].todo = graph.refs[n]]
      BY <2>1, <2>2, DecodeTasks DEF Quiet
    <2>3. CASE task' = Fails(n)
      BY <2>1, <2>3, FailsTasks DEF Quiet
    <2> QED  BY <2>2, <2>3 DEF ReplyAttach, ValueReferences
  <1>5. CASE \E n \in Node : ReplyType(n)
    <2> SUFFICES ASSUME NEW n \in Node, ReplyType(n)
                 PROVE  Quiet
      BY <1>5
    <2>1. task[n].stage = "request" /\ Pending(n) /\ UNCHANGED <<graph, edges>>
      BY DEF ReplyType, Pending
    <2>2. task' = [task EXCEPT ![n].stage = "decode", ![n].todo = graph.refs[n]]
      BY DEF ReplyType, TypeReferences
    <2> QED  BY <2>1, <2>2, DecodeTasks DEF Quiet
  <1>6. CASE \E n \in Resource : ReplyDescription(n)
    <2> SUFFICES ASSUME NEW n \in Resource, ReplyDescription(n), ~Describes(n)
                 PROVE  Quiet
      BY <1>6 DEF StartsToWait, Node
    <2>1. UNCHANGED <<graph, edges>> /\ n \in Node
      BY DEF ReplyDescription, Node
    <2> QED  BY <2>1, DescribedTasks DEF Quiet
  <1>7. CASE \E n \in Resource : Attach(n)
    <2> SUFFICES ASSUME NEW n \in Resource, Attach(n)
                 PROVE  Quiet
      BY <1>7
    <2>1. UNCHANGED <<graph, edges>> /\ n \in Node
      BY DEF Attach, Node
    <2> QED  BY <2>1, AttachTasks DEF Quiet, Pending
  <1>8. CASE \E n \in Resource : Detach(n)
    BY <1>8 DEF Detach, Quiet, Pending
  <1> QED
    BY <1>1, <1>2, <1>3, <1>4, <1>5, <1>6, <1>7, <1>8
       DEF Next, Progress, Decode, Reply, StartsToWait

-----------------------------------------------------------------------------
(* The limits of the connection.                                           *)

LEMMA FinitePending ==
  /\ IsFiniteSet(PendingResources) /\ IsFiniteSet(have \cap Resource)
  /\ Cardinality(PendingResources) \in Nat /\ Cardinality(have \cap Resource) \in Nat
  <1>1. PendingResources \subseteq Node /\ have \cap Resource \subseteq Node /\ IsFiniteSet(Node)
    BY DEF PendingResources, Node
  <1> QED  BY <1>1, FS_Subset, FS_CardinalityType

LEMMA FewerWithin ==
  ASSUME Limits, PendingResources' \subseteq PendingResources,
         have' \cap Resource \subseteq have \cap Resource
  PROVE  Limits'
  <1>1. /\ Cardinality(PendingResources') <= Cardinality(PendingResources)
        /\ Cardinality(have' \cap Resource) <= Cardinality(have \cap Resource)
        /\ Cardinality(PendingResources') \in Nat /\ Cardinality(have' \cap Resource) \in Nat
    BY FinitePending, FS_Subset, FS_CardinalityType
  <1> QED  BY <1>1, FinitePending DEF Limits

LEMMA OneMoreWithin ==
  ASSUME Limits, NEW r \in Node, WithinLimits(r), ~Pending(r), have' = have,
         \A m \in Node \ {r} : Pending(m)' => Pending(m)
  PROVE  Limits'
  <1>1. CASE r \in Type
    <2>1. PendingResources' \subseteq PendingResources
      BY <1>1 DEF PendingResources, Node
    <2> QED  BY <2>1, FewerWithin
  <1>2. CASE r \in Resource
    <2> DEFINE P == PendingResources \cup {r}
    <2>1. PendingResources' \subseteq P
      BY DEF PendingResources, Node
    <2>2. IsFiniteSet(P) /\ Cardinality(P) = Cardinality(PendingResources) + 1
      BY FinitePending, FS_AddElement DEF PendingResources
    <2>3. Cardinality(PendingResources') \in Nat /\ Cardinality(PendingResources') <= Cardinality(P)
      BY <2>1, <2>2, FS_Subset, FS_CardinalityType
    <2>4. /\ Cardinality(PendingResources) < MaxPending
          /\ Cardinality(have \cap Resource) + Cardinality(PendingResources) < MaxAttached
      BY <1>2 DEF WithinLimits
    <2> HIDE DEF P
    <2> QED  BY <2>2, <2>3, <2>4, FinitePending DEF Limits
  <1> QED  BY <1>1, <1>2 DEF Node

LEMMA SettledWithin ==
  ASSUME Structure, Limits, NEW n \in Node, Finish(n) \/ Fail(n)
  PROVE  Limits'
  <1>1. /\ \A w \in Node : Pending(w)' => w # n /\ Pending(w)
        /\ Pending(n) /\ have' \subseteq have \cup {n}
    BY SettlesFree, SettleTasks DEF Finish, Fail
  <1>2. CASE n \in Type
    <2>1. PendingResources' \subseteq PendingResources /\ have' \cap Resource \subseteq have \cap Resource
      BY <1>1, <1>2 DEF PendingResources, Node
    <2> QED  BY <2>1, FewerWithin
  <1>3. CASE n \in Resource
    <2> DEFINE P == PendingResources \ {n}  H == (have \cap Resource) \cup {n}
    <2>1. PendingResources' \subseteq P /\ have' \cap Resource \subseteq H /\ n \in PendingResources
      BY <1>1, <1>3 DEF PendingResources, Node
    <2>2. /\ IsFiniteSet(P) /\ Cardinality(P) = Cardinality(PendingResources) - 1
          /\ IsFiniteSet(H) /\ Cardinality(H) \in Nat
          /\ Cardinality(H) <= Cardinality(have \cap Resource) + 1
      <3>1. IsFiniteSet(P) /\ Cardinality(P) = Cardinality(PendingResources) - 1
        BY <2>1, FinitePending, FS_RemoveElement
      <3>2. /\ IsFiniteSet(H)
            /\ \/ Cardinality(H) = Cardinality(have \cap Resource)
               \/ Cardinality(H) = Cardinality(have \cap Resource) + 1
        BY FinitePending, FS_AddElement
      <3> HIDE DEF P, H
      <3>3. Cardinality(H) \in Nat
        BY <3>2, FS_CardinalityType
      <3> QED  BY <3>1, <3>2, <3>3, FinitePending
    <2>3. /\ Cardinality(PendingResources') \in Nat /\ Cardinality(PendingResources') <= Cardinality(P)
          /\ Cardinality(have' \cap Resource) \in Nat /\ Cardinality(have' \cap Resource) <= Cardinality(H)
      BY <2>1, <2>2, FS_Subset, FS_CardinalityType
    <2> HIDE DEF P, H
    <2> QED  BY <2>2, <2>3, FinitePending DEF Limits
  <1> QED  BY <1>2, <1>3 DEF Node

LEMMA InitLimits == Init => Limits
  <1> SUFFICES ASSUME Init
               PROVE  Limits
    OBVIOUS
  <1>1. PendingResources = {} /\ have \cap Resource = {}
    BY NoTaskState DEF Init, PendingResources, Pending, Node
  <1>2. Cardinality({}) = 0
    BY FS_EmptySet
  <1>3. Cardinality(PendingResources) = 0 /\ Cardinality(have \cap Resource) = 0
    BY <1>1, <1>2
  <1>4. 0 <= MaxPending /\ 0 + 0 <= MaxAttached
    BY DEF AttachmentAssumption
  <1> QED  BY <1>3, <1>4 DEF Limits

LEMMA NextLimits ==
  ASSUME Structure, Limits, [Next]_vars
  PROVE  Limits'
  <1>1. ASSUME \A m \in Resource : Pending(m)' => Pending(m), have' \subseteq have
        PROVE  Limits'
    BY <1>1, FewerWithin DEF PendingResources
  <1>2. CASE UNCHANGED vars \/ Reconnect
    BY <1>1, <1>2 DEF vars, Reconnect, history, Pending
  <1>3. CASE Drop
    BY <1>1, <1>3, NoTaskState DEF Drop, Pending, Node
  <1>4. ASSUME NEW n \in Node, FindReference(n) \/ BorrowReference(n)
        PROVE  Limits'
    BY <1>1, <1>4, PassTasks DEF FindReference, BorrowReference, Node
  <1>5. ASSUME NEW n \in Node, RefuseReference(n) \/ Refuse(n) \/ Malformed(n)
        PROVE  Limits'
    <2>1. Pending(n) /\ task' = Fails(n) /\ have' = have
      BY <1>5 DEF RefuseReference, Refuse, Malformed, Decoding, Pending, history
    <2> QED  BY <1>1, <1>5, <2>1, FailsTasks DEF Node
  <1>6. ASSUME NEW n \in Node, AwaitReference(n)
        PROVE  Limits'
    BY <1>1, <1>6, AwaitTasks, DecodingIsSound DEF AwaitReference, Node
  <1>7. ASSUME NEW n \in Node, StartReference(n)
        PROVE  Limits'
    <2> PICK r : r = Ref(n)
      OBVIOUS
    <2>1. r \in Node /\ have' = have
      BY <1>7, DecodingIsSound DEF StartReference
    <2>2. /\ WithinLimits(r) /\ ~Pending(r) /\ \A m \in Node \ {r} : Pending(m)' => Pending(m)
      BY <1>7, <2>1, StartTasks DEF Pending
    <2> QED  BY <2>1, <2>2, OneMoreWithin
  <1>8. ASSUME NEW n \in Node, Reply(n)
        PROVE  Limits'
    <2>1. have' = have
      BY <1>8 DEF Reply, ReplyAttach, ReplyType, ReplyDescription
    <2>2. CASE ReplyAttach(n) \/ ReplyType(n)
      <3>1. task[n].stage = "request" /\ Pending(n)
        BY <2>2 DEF ReplyAttach, ReplyType, Pending
      <3>2. \/ task' = [task EXCEPT ![n].stage = "decode", ![n].todo = graph.refs[n]]
            \/ task' = Fails(n)
        BY <2>2 DEF ReplyAttach, ReplyType, ValueReferences, TypeReferences
      <3> QED  BY <1>1, <1>8, <2>1, <3>1, <3>2, DecodeTasks, FailsTasks DEF Node
    <2>3. CASE n \in Resource /\ ReplyDescription(n)
      <3>1. CASE Describes(n)
        <4> PICK t : t = graph.type[n]
          OBVIOUS
        <4>1. t \in Node
          BY <2>3, Kinds DEF Structure, TypeInv, Node
        <4>2. \A m \in Resource : Pending(m)' => Pending(m)
          <5>1. /\ t \in Type /\ Pending(n)
                /\ \A x \in Node \ {n, t} : task'[x] = task[x]
            BY <1>8, <3>1, <4>1, DescribesTasks
          <5> QED  BY <5>1, Kinds DEF Pending, Node
        <4> QED  BY <1>1, <2>1, <4>2
      <3>2. CASE ~Describes(n)
        BY <1>1, <2>1, <2>3, <3>2, DescribedTasks DEF Node
      <3> QED  BY <3>1, <3>2
    <2> QED  BY <1>8, <2>2, <2>3 DEF Reply
  <1>9. ASSUME NEW n \in Resource, Attach(n)
        PROVE  Limits'
    <2>1. have' = have /\ n \in Node
      BY <1>9 DEF Attach, Node
    <2>2. CASE task' = task
      BY <1>1, <2>1, <2>2 DEF Pending
    <2>3. CASE task' # task
      <3>1. ~Pending(n) /\ WithinLimits(n) /\ \A m \in Node \ {n} : task'[m] = task[m]
        BY <1>9, <2>3, AttachTasks
      <3> QED  BY <2>1, <3>1, OneMoreWithin DEF Pending
    <2> QED  BY <2>2, <2>3
  <1>10. ASSUME NEW n \in Resource, Detach(n)
         PROVE  Limits'
    BY <1>1, <1>10 DEF Detach, Pending
  <1> QED
    BY <1>2, <1>3, <1>4, <1>5, <1>6, <1>7, <1>8, <1>9, <1>10, SettledWithin DEF Next, Progress, Decode

(* Every variable holds what the code can put there, and no order of       *)
(* replies and decodes takes a connection past its limits: what is         *)
(* attached and what is on its way stay within                             *)
(* maximumAttachedResourcesPerConnection together, and what is on its way  *)
(* within maximumPendingAttachmentsPerConnection.                          *)
THEOREM TypeOKAlways == Spec => []TypeOK
  <1>1. Structure /\ Limits => TypeOK
    <2> SUFFICES ASSUME Structure, Limits
                 PROVE  TypeOK
      OBVIOUS
    <2>1. edges \in [{"resource", "type"} -> SUBSET (Nat \X Nat)]
      <3>1. Number \subseteq Nat
        BY Kinds DEF Number
      <3>2. Number \X Number \subseteq Nat \X Nat
        BY <3>1
      <3>3. SUBSET (Number \X Number) \subseteq SUBSET (Nat \X Nat)
        BY <3>2
      <3> QED  BY <3>3 DEF Structure, TypeInv
    <2>2. \A n \in Node : task[n].stage \in Stage /\ task[n].on \in Node \cup {None}
      BY DEF Structure, TypeInv, TaskState
    <2> QED  BY <2>1, <2>2 DEF TypeOK, Structure, TypeInv, Limits
  <1>2. Init => Structure /\ Limits
    BY InitStructure, InitLimits
  <1>3. Structure /\ Limits /\ [Next]_vars => (Structure /\ Limits)'
    BY NextStructure, NextLimits
  <1> QED  BY <1>1, <1>2, <1>3, PTL DEF Spec

-----------------------------------------------------------------------------
(* Nobody waits for himself.                                               *)

(* A node starts to wait: for something its values refer to, or for its    *)
(* type.                                                                   *)
NewWait(n, m) ==
    /\ task[n].on = None /\ task'[n].on = m
    /\ \A x \in Node \ {n} : task'[x].on = task[x].on
    /\ graph' = graph

ForReference(n, m) ==
    /\ task[n].stage = "decode" /\ task[n].todo # <<>> /\ m = Ref(n)
    /\ IF Pending(m) THEN ~Borrows(m, Chain(n)) ELSE m # n /\ task[m].on = None
    /\ task[n].chain # <<>> /\ task[n].chain[Len(task[n].chain)] = n
    /\ edges' = Block(m, Chain(n)) /\ Chain(n) \in Seq(Node)

ForType(n, m) == n \in Resource /\ m \in Type /\ edges' = edges

LEMMA WaitBegins ==
  ASSUME Structure, NEW n \in Node, StartsToWait(n)
  PROVE  \E m \in Node : NewWait(n, m) /\ (ForReference(n, m) \/ ForType(n, m))
  <1>1. CASE AwaitReference(n) \/ StartReference(n)
    <2> PICK m : m = Ref(n)
      OBVIOUS
    <2>1. Decoding(n)
      BY <1>1 DEF AwaitReference, StartReference
    <2>2. /\ m \in Node /\ Pending(n) /\ Sound(n, task[n]) /\ Chain(n) \in Seq(Node)
          /\ task[n].stage = "decode" /\ task[n].todo # <<>>
      BY <2>1, DecodingIsSound, ChainType DEF Decoding
    <2>3. CASE AwaitReference(n)
      <3>1. NewWait(n, m)
        BY <2>2, <2>3, AwaitTasks DEF NewWait, AwaitReference
      <3>2. Pending(m) /\ ~Borrows(m, Chain(n)) /\ edges' = Block(m, Chain(n))
        BY <2>3 DEF AwaitReference
      <3> QED  BY <2>2, <3>1, <3>2 DEF ForReference, Sound
    <2>4. CASE StartReference(n)
      <3>1. NewWait(n, m) /\ n # m /\ task[m].on = None
        <4>1. /\ n # m /\ task[n].on = None /\ task'[n].on = m
              /\ task[m].on = None /\ task'[m].on = None
              /\ \A x \in Node \ {n, m} : task'[x] = task[x]
          BY <2>2, <2>4, StartTasks
        <4>2. graph' = graph
          BY <2>4 DEF StartReference
        <4> QED  BY <4>1, <4>2 DEF NewWait
      <3>2. ~Pending(m) /\ edges' = Block(m, Chain(n))
        BY <2>4 DEF StartReference
      <3> QED  BY <2>2, <3>1, <3>2 DEF ForReference, Sound
    <2> QED  BY <1>1, <2>3, <2>4
  <1>2. CASE Describes(n)
    <2> PICK m : m = graph.type[n]
      OBVIOUS
    <2>1. m \in Node /\ UNCHANGED <<graph, edges>>
      BY <1>2, Kinds DEF Structure, TypeInv, Node, Describes, ReplyDescription
    <2>2. /\ n \in Resource /\ m \in Type /\ task[n].on = None /\ task'[n].on = m
          /\ \A x \in Node \ {n, m} : task'[x] = task[x]
          /\ task'[m].on = task[m].on
      <3>1. /\ n \in Resource /\ m \in Type /\ task[n].on = None /\ task'[n].on = m
            /\ \A x \in Node \ {n, m} : task'[x] = task[x]
            /\ \/ task'[m] = task[m]
               \/ task[m].on = None /\ task'[m] = Task("decode", <<m>>, graph.refs[m])
        BY <1>2, <2>1, DescribesTasks
      <3> QED  BY <3>1 DEF Task
    <2>3. NewWait(n, m)
      BY <2>1, <2>2 DEF NewWait
    <2> QED  BY <2>1, <2>2, <2>3 DEF ForType
  <1> QED  BY <1>1, <1>2 DEF StartsToWait

LEMMA FirstIsReference ==
  ASSUME Structure, NEW n \in Node, task[n].stage = "decode", task[n].todo # <<>>
  PROVE  /\ Head(task[n].todo) \in Node
         /\ \E i \in DOMAIN graph.refs[n] : Head(task[n].todo) = graph.refs[n][i]
         /\ n \in Type => Head(task[n].todo) \in Type
  <1>1. /\ task[n].todo \in Seq(Node) /\ IsLeft(n, task[n].todo)
        /\ graph \in Graphs /\ graph.refs[n] \in Seq(Node)
    BY OfTask, Kinds DEF Sound, TaskState, Structure, TypeInv, Pending
  <1>2. PICK i : i = Len(graph.refs[n]) - Len(task[n].todo) + 1
    OBVIOUS
  <1>3. i \in DOMAIN graph.refs[n]
    <2>1. Len(graph.refs[n]) \in Nat /\ Len(task[n].todo) \in Nat \ {0}
      BY <1>1
    <2>2. Len(task[n].todo) <= Len(graph.refs[n]) /\ DOMAIN graph.refs[n] = 1 .. Len(graph.refs[n])
      BY <1>1 DEF IsLeft
    <2>3. \A a \in Nat, l \in Nat \ {0} : l <= a => a - l + 1 \in 1 .. a
      OBVIOUS
    <2> QED  BY <1>2, <2>1, <2>2, <2>3
  <1>4. Head(task[n].todo) = graph.refs[n][i] /\ Head(task[n].todo) \in Node
    BY <1>1, <1>2, TailIsLeft
  <1>5. n \in Type => graph.refs[n][i] \in Type
    BY <1>1, <1>3, Kinds
  <1> QED  BY <1>3, <1>4, <1>5

(* What a wait is for.                                                     *)
LEMMA WaitIsFor ==
  ASSUME Structure, NEW n \in Node, task[n].on # None
  PROVE  /\ task[n].on \in Node /\ Pending(task[n].on) /\ Pending(n)
         /\ \/ task[n].stage = "typed" /\ n \in Resource /\ task[n].on \in Type
            \/ task[n].stage = "decode" /\ \E i \in DOMAIN graph.refs[n] : task[n].on = graph.refs[n][i]
         /\ n \in Type => task[n].on \in Type
  <1>1. task[n] \in TaskState /\ Sound(n, task[n]) /\ task[n].on \in Node
    BY NoTaskState DEF Structure, TypeInv, TasksAreSound, TaskState
  <1>2. CASE task[n].stage = "typed" /\ n \in Resource /\ task[n].on \in Type
    BY <1>1, <1>2, Kinds DEF Sound, Pending
  <1>3. CASE task[n].stage = "decode" /\ task[n].todo # <<>> /\ task[n].on = Head(task[n].todo)
    BY <1>1, <1>3, FirstIsReference DEF Sound, Pending
  <1> QED  BY <1>1, <1>2, <1>3 DEF Sound

LEMMA NewWaitIsRecorded ==
  ASSUME Structure, WaitsAreRecorded, NEW n \in Node, StartsToWait(n)
  PROVE  WaitsAreRecorded'
  <1>1. PICK m \in Node : NewWait(n, m) /\ (ForReference(n, m) \/ ForType(n, m))
    BY WaitBegins
  <1>2. \A k \in {"resource", "type"} : edges[k] \subseteq edges'[k]
    BY <1>1 DEF ForReference, ForType, Block, Structure, TypeInv
  <1> SUFFICES ASSUME NEW x \in Node, task'[x].on # None, Kind(task'[x].on) = Kind(x),
                      <<x, task'[x].on>> \notin graph.links
               PROVE  <<Id[x], Id[task'[x].on]>> \in edges'[Kind(x)]
    BY <1>1 DEF WaitsAreRecorded, NewWait, Kind
  <1>3. CASE x # n
    BY <1>1, <1>2, <1>3, Kinds DEF NewWait, WaitsAreRecorded
  <1>4. CASE x = n
    <2>1. task'[n].on = m /\ Kind(m) = Kind(n)
      BY <1>1, <1>4 DEF NewWait
    <2>2. ForReference(n, m)
      BY <1>1, <2>1 DEF ForType, Kind, AttachmentAssumption
    <2>3. Chain(n) = task[n].chain
      BY <1>4, <2>1, <2>2 DEF ForReference, Chain, IsLink
    <2>4. Edge(m, Chain(n)) = <<Id[n], Id[m]>> /\ Chain(n) # <<>>
      BY <2>2, <2>3 DEF ForReference, Edge
    <2>5. Edge(m, Chain(n)) \in edges'[Kind(m)]
      BY <2>2, <2>4, Kinds DEF ForReference, Block, Structure, TypeInv
    <2> QED  BY <1>4, <2>1, <2>4, <2>5
  <1> QED  BY <1>3, <1>4

LEMMA SettledRecorded ==
  ASSUME Structure, WaitsAreRecorded, NEW n \in Node, Finish(n) \/ Fail(n)
  PROVE  WaitsAreRecorded'
  <1>1. /\ graph' = graph /\ edges' = Unblock(n)
        /\ \A x \in Node : task'[x].on # None => task'[x].on = task[x].on /\ task[x].on # n /\ x # n
    BY SettlesFree, SettledWaits DEF Finish, Fail, Settle
  <1> SUFFICES ASSUME NEW x \in Node, task'[x].on # None, Kind(task'[x].on) = Kind(x),
                      <<x, task'[x].on>> \notin graph.links
               PROVE  <<Id[x], Id[task'[x].on]>> \in edges'[Kind(x)]
    BY <1>1 DEF WaitsAreRecorded, Kind
  <1> PICK m : m = task[x].on
    OBVIOUS
  <1>2. task'[x].on = m /\ m # None /\ m # n /\ x # n /\ m \in Node
    BY <1>1 DEF Structure, TypeInv, TaskState
  <1>3. <<Id[x], Id[m]>> \in edges[Kind(x)]
    BY <1>2 DEF WaitsAreRecorded
  <1>4. Kind(x) = Kind(n) => Id[x] # Id[n] /\ Id[m] # Id[n]
    BY <1>2, SameId
  <1> QED  BY <1>1, <1>2, <1>3, <1>4, Kinds DEF Unblock, Structure, TypeInv

(* Nodes each of which waits for another of them.                          *)
Trap(on, S) == S # {} /\ \A x \in S : on[x] \in S

LEMMA Traps ==
  NoDeadlock <=> \A S \in SUBSET Node : ~Trap([x \in Node |-> task[x].on], S)
  <1>1. ASSUME NoDeadlock, NEW S \in SUBSET Node, Trap([x \in Node |-> task[x].on], S)
        PROVE  FALSE
    <2>1. S # {} /\ \A x \in S : task[x].on \in S
      BY <1>1 DEF Trap
    <2>2. S \subseteq Waiting
      BY <2>1, Kinds DEF Waiting
    <2> QED  BY <1>1, <2>1, <2>2 DEF NoDeadlock
  <1>2. ASSUME \A S \in SUBSET Node : ~Trap([x \in Node |-> task[x].on], S)
        PROVE  NoDeadlock
    BY <1>2 DEF Trap, NoDeadlock, Waiting
  <1> QED  BY <1>1, <1>2

(* The ids found along edges: what an edge leads to from one of them is    *)
(* one of them, and no fewer hold the first and go on along the edges.     *)
LEMMA ReachableIds ==
  ASSUME NEW step \in SUBSET (Number \X Number), NEW i \in Number
  PROVE  /\ i \in Reachable(step, i)
         /\ \A e \in step : e[1] \in Reachable(step, i) => e[2] \in Reachable(step, i)
         /\ \A S \in SUBSET Number : (i \in S /\ \A e \in step : e[1] \in S => e[2] \in S)
                                        => Reachable(step, i) \subseteq S
         /\ Reachable(step, i) \subseteq Number
  BY DEF Reachable

LEMMA NewWaitSafe ==
  ASSUME LinksCloseNoCycle, Structure, WaitsAreRecorded, NoDeadlock,
         NEW n \in Node, StartsToWait(n)
  PROVE  NoDeadlock'
  <1>1. PICK m \in Node : NewWait(n, m) /\ (ForReference(n, m) \/ ForType(n, m))
    BY WaitBegins
  <1>2. PICK on : on = [x \in Node |-> task'[x].on]
    OBVIOUS
  <1>3. \A S \in SUBSET Node : Trap(on, S) => n \in S /\ m \in S
    <2> SUFFICES ASSUME NEW S \in SUBSET Node, Trap(on, S)
                 PROVE  n \in S /\ m \in S
      OBVIOUS
    <2>1. \A x \in S : x # n => on[x] = task[x].on
      BY <1>1, <1>2 DEF NewWait
    <2>2. n \in S
      <3>1. n \notin S => Trap([x \in Node |-> task[x].on], S)
        BY <2>1 DEF Trap
      <3> QED  BY <3>1, Traps
    <2>3. on[n] = m
      BY <1>1, <1>2 DEF NewWait
    <2> QED  BY <2>2, <2>3 DEF Trap
  <1> SUFFICES ASSUME NEW S \in SUBSET Node, Trap(on, S)
               PROVE  FALSE
    <2>1. NoDeadlock' <=> \A S \in SUBSET Node : ~Trap([x \in Node |-> task'[x].on], S)
      <3>1. ASSUME NoDeadlock', NEW S \in SUBSET Node, Trap([x \in Node |-> task'[x].on], S)
            PROVE  FALSE
        <4>1. S # {} /\ \A x \in S : task'[x].on \in S
          BY <3>1 DEF Trap
        <4>2. S \subseteq Waiting'
          BY <4>1, Kinds DEF Waiting
        <4> QED  BY <3>1, <4>1, <4>2 DEF NoDeadlock
      <3>2. ASSUME \A S \in SUBSET Node : ~Trap([x \in Node |-> task'[x].on], S)
            PROVE  NoDeadlock'
        BY <3>2 DEF Trap, NoDeadlock, Waiting
      <3> QED  BY <3>1, <3>2
    <2> QED  BY <1>2, <2>1
  <1>4. n \in S /\ m \in S /\ on[n] = m /\ \A x \in Node \ {n} : on[x] = task[x].on
    BY <1>1, <1>2, <1>3 DEF NewWait
  <1>5. Trap(on, S \cap Type) \/ S \cap Type = {}
    <2>1. \A x \in S \cap Type : on[x] \in Type
      <3> SUFFICES ASSUME NEW x \in S \cap Type
                   PROVE  on[x] \in Type
        OBVIOUS
      <3>1. x \in Node /\ on[x] \in Node
        BY DEF Trap
      <3>2. CASE x = n
        BY <1>1, <1>4, <3>1, <3>2, FirstIsReference DEF ForReference, ForType, Ref, AttachmentAssumption
      <3>3. CASE x # n
        BY <1>4, <3>1, <3>3, WaitIsFor, Kinds
      <3> QED  BY <3>2, <3>3
    <2> QED  BY <2>1 DEF Trap
  <1>6. CASE Kind(m) # Kind(n)
    <2>1. n \in Resource /\ m \in Type
      <3>1. n \in Type => m \in Type
        BY <1>1, FirstIsReference DEF ForReference, ForType, Ref, AttachmentAssumption
      <3> QED  BY <1>6, <3>1, Kinds DEF Kind
    <2> QED  BY <1>3, <1>4, <1>5, <2>1, Kinds
  <1>7. CASE Kind(m) = Kind(n)
    <2>1. ForReference(n, m)
      BY <1>1, <1>7, Kinds DEF ForType, Kind
    <2>2. PICK M \in SUBSET S : Trap(on, M) /\ \A B \in SUBSET M : Trap(on, B) => B = M
      <3> DEFINE L == {y \in S : \A B \in SUBSET S : Trap(on, B) => y \in B}
      <3>1. n \in L
        BY <1>3, <1>4
      <3>2. Trap(on, L)
        BY <3>1 DEF Trap
      <3>3. \A B \in SUBSET L : Trap(on, B) => B = L
        OBVIOUS
      <3> QED  BY <3>2, <3>3
    <2>3. n \in M /\ m \in M
      BY <1>3, <2>2
    (* The least trap stays within one kind.                               *)
    <2>4. \A x \in M : Kind(x) = Kind(n)
      <3>1. n \in Type => M \subseteq Type
        <4>1. n \in Type => Trap(on, S \cap Type)
          BY <1>4, <1>5
        <4>2. n \in Type => Trap(on, M \cap Type)
          <5>1. ASSUME n \in Type
                PROVE  \A x \in M \cap Type : on[x] \in M \cap Type
            BY <2>2, <4>1, <5>1 DEF Trap
          <5> QED  BY <2>3, <5>1 DEF Trap
        <4> QED  BY <2>2, <4>2
      <3>2. n \in Resource => M \subseteq Resource
        <4>1. n \in Resource => S \cap Type = {}
          BY <1>3, <1>5, Kinds
        <4> QED  BY <4>1 DEF Node
      <3> QED  BY <3>1, <3>2, Kinds DEF Kind, Node
    (* Nor is there a link among its waits.                                *)
    <2>5. \A x \in M : <<x, on[x]>> \notin graph.links
      <3> SUFFICES ASSUME NEW l \in M, <<l, on[l]>> \in graph.links
                   PROVE  FALSE
        OBVIOUS
      <3>1. PICK T \in SUBSET Resource :
               /\ on[l] \in T /\ l \notin T
               /\ \A x \in T : \A i \in DOMAIN graph.refs[x] : graph.refs[x][i] \in T \cup Type
        <4>1. graph \in Graphs
          BY DEF Structure, TypeInv
        <4>2. PICK k : k = <<l, on[l]>>
          OBVIOUS
        <4>3. k \in graph.links /\ k[1] = l /\ k[2] = on[l]
          BY <4>2
        <4> QED  BY <4>1, <4>3 DEF LinksCloseNoCycle
      <3>2. M \subseteq Resource
        BY <2>2, <2>4, <3>1, Kinds DEF Kind, Trap
      <3>3. \A x \in M \cap T : on[x] \in M \cap T
        <4> SUFFICES ASSUME NEW x \in M \cap T
                     PROVE  on[x] \in M \cap T
          OBVIOUS
        <4>1. on[x] \in M /\ on[x] \in Resource /\ on[x] \notin Type
          BY <2>2, <3>2, Kinds DEF Trap
        <4>2. \E i \in DOMAIN graph.refs[x] : on[x] = graph.refs[x][i]
          <5>1. CASE x = n
            <6>1. \E i \in DOMAIN graph.refs[n] : Ref(n) = graph.refs[n][i]
              BY <2>1, FirstIsReference DEF ForReference, Ref
            <6> QED  BY <1>4, <2>1, <5>1, <6>1 DEF ForReference
          <5>2. CASE x # n
            <6>1. task[x].on = on[x] /\ task[x].on # None /\ x \in Node
              BY <1>4, <4>1, <5>2, Kinds DEF Node
            <6> QED  BY <4>1, <6>1, WaitIsFor
          <5> QED  BY <5>1, <5>2
        <4> QED  BY <3>1, <4>1, <4>2
      <3>4. Trap(on, M \cap T)
        BY <2>2, <3>1, <3>3 DEF Trap
      <3>5. M \cap T = M
        BY <2>2, <3>4
      <3> QED  BY <3>1, <3>5
    <2>6. Chain(n) = task[n].chain /\ Chain(n) # <<>> /\ Chain(n)[Len(Chain(n))] = n /\ Chain(n) \in Seq(Node)
      BY <1>4, <2>1, <2>3, <2>5 DEF ForReference, Chain, IsLink
    <2>7. Len(Chain(n)) \in DOMAIN Chain(n)
      BY <2>6
    (* What n waits for is decoding, with a wait of its own.               *)
    <2>8. Pending(m) /\ ~SameChain(m, Chain(n)) /\ ~WaitForCycle(m, Chain(n))
      <3>1. Pending(m)
        <4>1. CASE m # n /\ task[m].on = None
          <5>1. on[m] = None /\ on[m] \in Node
            BY <1>4, <4>1 DEF Trap
          <5> QED  BY <5>1, Kinds
        <4>2. CASE Pending(m)
          BY <4>2
        <4> QED  BY <2>1, <4>1, <4>2 DEF ForReference
      <3>2. Placeholder(m)
        <4>1. CASE m = n
          BY <2>1, <4>1 DEF ForReference, Placeholder
        <4>2. CASE m # n
          <5>1. task[m].on \in M /\ task[m].on # None
            BY <1>4, <2>2, <2>3, <4>2, Kinds DEF Trap
          <5>2. Kind(task[m].on) = Kind(m)
            BY <1>7, <2>4, <5>1
          <5> QED  BY <5>1, <5>2, WaitIsFor, Kinds DEF Placeholder, Kind
        <4> QED  BY <4>1, <4>2
      <3> QED  BY <2>1, <3>1, <3>2 DEF ForReference, Borrows
    <2>9. m # n /\ Id[m] # Id[n]
      BY <2>6, <2>7, <2>8 DEF SameChain
    (* The edges lead from m to all that wait within the trap, but not     *)
    (* to n: so these are a trap without n.                                *)
    <2> DEFINE V == Reachable(edges[Kind(m)], Id[m])
    <2>10. /\ Id[m] \in V /\ V \subseteq Number
           /\ \A e \in edges[Kind(m)] : e[1] \in V => e[2] \in V
           /\ \A C \in SUBSET Number :
                 (Id[m] \in C /\ \A e \in edges[Kind(m)] : e[1] \in C => e[2] \in C) => V \subseteq C
      <3>1. edges[Kind(m)] \in SUBSET (Number \X Number) /\ Id[m] \in Number
        BY Kinds DEF Structure, TypeInv, Number
      <3>2. PICK step, i : step = edges[Kind(m)] /\ i = Id[m]
        OBVIOUS
      <3>3. step \in SUBSET (Number \X Number) /\ i \in Number /\ V = Reachable(step, i)
        BY <3>1, <3>2
      <3>4. /\ i \in Reachable(step, i) /\ Reachable(step, i) \subseteq Number
            /\ \A e \in step : e[1] \in Reachable(step, i) => e[2] \in Reachable(step, i)
            /\ \A C \in SUBSET Number : (i \in C /\ \A e \in step : e[1] \in C => e[2] \in C)
                                           => Reachable(step, i) \subseteq C
        BY <3>3, ReachableIds
      <3> QED  BY <3>2, <3>3, <3>4
    <2>11. \A e \in edges[Kind(m)] : e[1] \in V => e[2] # Id[n]
      BY <2>6, <2>7, <2>8 DEF WaitForCycle
    <2> HIDE DEF V
    <2>12. Id[n] \notin V
      <3>1. /\ V \ {Id[n]} \in SUBSET Number /\ Id[m] \in V \ {Id[n]}
            /\ \A e \in edges[Kind(m)] : e[1] \in V \ {Id[n]} => e[2] \in V \ {Id[n]}
        BY <2>9, <2>10, <2>11
      <3> QED  BY <2>10, <3>1
    <2> DEFINE B == {x \in M : Id[x] \in V}
    <2>13. \A x \in B : on[x] \in B
      <3> SUFFICES ASSUME NEW x \in B
                   PROVE  on[x] \in B
        OBVIOUS
      <3>1. x \in M /\ x # n /\ Id[x] \in V /\ on[x] \in M /\ x \in Node
        BY <2>2, <2>12 DEF Trap
      <3>2. task[x].on = on[x] /\ on[x] # None /\ Kind(on[x]) = Kind(x) /\ Kind(x) = Kind(m)
        BY <1>4, <1>7, <2>4, <3>1, Kinds
      <3>3. <<Id[x], Id[on[x]]>> \in edges[Kind(m)]
        BY <2>5, <3>1, <3>2 DEF WaitsAreRecorded
      <3>4. Id[on[x]] \in V
        BY <2>10, <3>1, <3>3
      <3> QED  BY <3>1, <3>4
    <2>14. Trap(on, B) /\ n \notin B
      BY <2>3, <2>10, <2>12, <2>13 DEF Trap
    <2> QED  BY <1>3, <2>14
  <1> QED  BY <1>6, <1>7

(* A step in which no wait begins closes no trap.                          *)
LEMMA NoNewWaitSafe ==
  ASSUME NoDeadlock, \A x \in Node : task'[x].on \in {task[x].on, None}
  PROVE  NoDeadlock'
  <1> SUFFICES ASSUME NEW S \in SUBSET Waiting', S # {}
               PROVE  \E x \in S : task'[x].on \notin S
    BY DEF NoDeadlock
  <1>1. S \subseteq Waiting /\ \A x \in S : task'[x].on = task[x].on
    BY DEF Waiting
  <1> QED  BY <1>1 DEF NoDeadlock

SafeWaits == NoDeadlock /\ WaitsAreRecorded

LEMMA InitSafeWaits == Init => SafeWaits
  <1> SUFFICES ASSUME Init
               PROVE  SafeWaits
    OBVIOUS
  <1>1. \A x \in Node : task[x].on = None
    BY NoTaskState DEF Init
  <1> QED  BY <1>1 DEF SafeWaits, NoDeadlock, WaitsAreRecorded, Waiting

LEMMA NextSafeWaits ==
  ASSUME LinksCloseNoCycle, Structure, SafeWaits, [Next]_vars
  PROVE  SafeWaits'
  <1>1. CASE Quiet
    <2>1. NoDeadlock'
      BY <1>1, NoNewWaitSafe DEF Quiet, SafeWaits
    <2>2. WaitsAreRecorded'
      BY <1>1 DEF Quiet, SafeWaits, WaitsAreRecorded, Kind
    <2> QED  BY <2>1, <2>2 DEF SafeWaits
  <1>2. ASSUME NEW n \in Node, StartsToWait(n)
        PROVE  SafeWaits'
    BY <1>2, NewWaitSafe, NewWaitIsRecorded DEF SafeWaits
  <1>3. ASSUME NEW n \in Node, Finish(n) \/ Fail(n)
        PROVE  SafeWaits'
    <2>1. \A x \in Node : task'[x].on \in {task[x].on, None}
      BY <1>3, SettlesFree, SettledWaits DEF Finish, Fail
    <2> QED  BY <1>3, <2>1, NoNewWaitSafe, SettledRecorded DEF SafeWaits
  <1>4. CASE Drop
    <2>1. \A x \in Node : task'[x].on = None
      BY <1>4, NoTaskState DEF Drop
    <2> QED  BY <2>1, NoNewWaitSafe DEF SafeWaits, WaitsAreRecorded
  <1> QED  BY <1>1, <1>2, <1>3, <1>4, StepsOfWaits

(* Nobody waits for himself, through any number of others: hasResource-    *)
(* WaitForCycle and hasTypeDefWaitForCycle, over the edges they are given, *)
(* find every cycle of attachments before it closes, whatever the values   *)
(* refer to and in whatever order the replies come, except where the cycle *)
(* would go through a link, which is attached outside of the wait graph.   *)
THEOREM NoDeadlockAlways ==
  ASSUME LinksCloseNoCycle
  PROVE  Spec => []NoDeadlock
  <1>1. Init => Structure /\ SafeWaits
    BY InitStructure, InitSafeWaits
  <1>2. Structure /\ SafeWaits /\ [Next]_vars => (Structure /\ SafeWaits)'
    BY NextStructure, NextSafeWaits
  <1>3. Structure /\ SafeWaits => NoDeadlock
    BY DEF SafeWaits
  <1> QED  BY <1>1, <1>2, <1>3, PTL DEF Spec

-----------------------------------------------------------------------------
(* Placeholders are handed out only to those they are waited for by.       *)

CycleInv == EdgesAreWaits /\ ChainsWait

LEMMA InitCycleInv == Init => CycleInv
  BY NoTaskState DEF Init, CycleInv, EdgesAreWaits, ChainsWait, Pending

LEMMA QuietCycleInv ==
  ASSUME Structure, CycleInv, Quiet
  PROVE  CycleInv'
  <1>1. EdgesAreWaits'
    BY DEF CycleInv, EdgesAreWaits, Quiet, Kind
  <1>2. ChainsWait'
    <2> SUFFICES ASSUME NEW x \in Node, Pending(x)', NEW i \in DOMAIN task'[x].chain
                 PROVE  WaitsFor(task[x].chain[i], x)'
      BY DEF ChainsWait
    <2>1. CASE Pending(x) /\ task'[x].chain = task[x].chain
      <3>1. WaitsFor(task[x].chain[i], x)
        BY <2>1 DEF CycleInv, ChainsWait
      <3> QED  BY <2>1, <3>1 DEF WaitsFor, Quiet
    <2>2. CASE task'[x].chain = <<x>>
      BY <2>2 DEF WaitsFor
    <2> QED  BY <2>1, <2>2 DEF Quiet
  <1> QED  BY <1>1, <1>2 DEF CycleInv

LEMMA NewWaitChains ==
  ASSUME Structure, NEW n \in Node, StartsToWait(n), NEW y \in Node, Pending(y)'
  PROVE  \/ Pending(y) /\ task'[y].chain = task[y].chain
         \/ task'[y].chain = <<y>>
         \/ /\ task'[n].on = y /\ Pending(n)
            /\ task'[y].chain = Append(task[n].chain, y) /\ task[n].chain \in Seq(Node)
  <1>1. CASE AwaitReference(n)
    <2> PICK m : m = Ref(n)
      OBVIOUS
    <2>1. m \in Node
      BY <1>1, DecodingIsSound DEF AwaitReference
    <2> QED  BY <1>1, <2>1, AwaitTasks
  <1>2. CASE StartReference(n)
    <2> PICK m : m = Ref(n)
      OBVIOUS
    <2>1. m \in Node
      BY <1>2, DecodingIsSound DEF StartReference
    <2>2. /\ \A x \in Node \ {n, m} : task'[x] = task[x]
          /\ task'[n].on = m /\ Pending(n) /\ task'[n].chain = task[n].chain
          /\ task'[m].chain = Append(Chain(n), m) /\ Chain(n) \in Seq(Node)
      BY <1>2, <2>1, StartTasks
    <2>3. Append(<<>>, m) = <<m>>
      OBVIOUS
    <2>4. Chain(n) = <<>> \/ Chain(n) = task[n].chain
      BY DEF Chain
    <2>5. CASE y = m
      BY <2>2, <2>3, <2>4, <2>5
    <2>6. CASE y # m
      BY <2>2, <2>6 DEF Pending
    <2> QED  BY <2>5, <2>6
  <1>3. CASE Describes(n)
    <2> PICK m : m = graph.type[n]
      OBVIOUS
    <2>1. m \in Node
      BY <1>3, Kinds DEF Structure, TypeInv, Node, Describes
    <2>2. /\ \A x \in Node \ {n, m} : task'[x] = task[x]
          /\ task'[n].chain = task[n].chain /\ Pending(n)
          /\ \/ Pending(m) /\ task'[m] = task[m]
             \/ task'[m] = Task("decode", <<m>>, graph.refs[m])
      BY <1>3, <2>1, DescribesTasks
    <2>3. Task("decode", <<m>>, graph.refs[m]).chain = <<m>>
      BY DEF Task
    <2> QED  BY <2>2, <2>3 DEF Pending
  <1> QED  BY <1>1, <1>2, <1>3 DEF StartsToWait

LEMMA NewWaitCycleInv ==
  ASSUME Structure, CycleInv, NEW n \in Node, StartsToWait(n)
  PROVE  CycleInv'
  <1>1. PICK m \in Node : NewWait(n, m) /\ (ForReference(n, m) \/ ForType(n, m))
    BY WaitBegins
  <1>2. \A x \in Node : task[x].on \in {task'[x].on, None}
    BY <1>1 DEF NewWait
  <1>3. EdgesAreWaits'
    <2> SUFFICES ASSUME NEW k \in {"resource", "type"}, NEW e \in edges'[k]
                 PROVE  \E x \in Node : /\ e[1] = Id[x] /\ task'[x].on # None /\ Kind(task'[x].on) = k
                                        /\ e[2] = Id[task'[x].on]
      BY DEF EdgesAreWaits, Kind
    <2>1. CASE e \in edges[k]
      <3>1. PICK x \in Node : /\ e[1] = Id[x] /\ task[x].on # None /\ Kind(task[x].on) = k
                              /\ e[2] = Id[task[x].on]
        BY <2>1 DEF CycleInv, EdgesAreWaits
      <3>2. task'[x].on = task[x].on
        BY <1>2, <3>1
      <3> QED  BY <3>1, <3>2
    <2>2. CASE e \notin edges[k]
      <3>1. ForReference(n, m) /\ Chain(n) # <<>>
        BY <1>1, <2>2 DEF ForReference, ForType, Block
      <3>2. Chain(n) = task[n].chain
        BY <3>1 DEF Chain
      <3>3. Edge(m, Chain(n)) = <<Id[n], Id[m]>>
        BY <3>1, <3>2 DEF ForReference, Edge
      <3>4. edges' = [edges EXCEPT ![Kind(m)] = @ \cup {Edge(m, Chain(n))}]
        BY <3>1 DEF ForReference, Block
      <3>5. e = <<Id[n], Id[m]>> /\ k = Kind(m)
        BY <2>2, <3>3, <3>4, Kinds DEF Structure, TypeInv
      <3>6. task'[n].on = m /\ m # None
        BY <1>1, Kinds DEF NewWait
      <3> QED  BY <3>5, <3>6
    <2> QED  BY <2>1, <2>2
  <1>4. ChainsWait'
    <2> SUFFICES ASSUME NEW y \in Node, Pending(y)', NEW i \in DOMAIN task'[y].chain
                 PROVE  WaitsFor(task[y].chain[i], y)'
      BY DEF ChainsWait
    <2>1. CASE Pending(y) /\ task'[y].chain = task[y].chain
      <3> PICK c : c = task[y].chain[i]
        OBVIOUS
      <3>1. WaitsFor(c, y)
        BY <2>1 DEF CycleInv, ChainsWait
      <3>2. WaitsFor(c, y)'
        BY <1>2, <3>1 DEF WaitsFor
      <3> QED  BY <2>1, <3>2
    <2>2. CASE task'[y].chain = <<y>>
      BY <2>2 DEF WaitsFor
    <2>3. CASE /\ task'[n].on = y /\ Pending(n)
               /\ task'[y].chain = Append(task[n].chain, y) /\ task[n].chain \in Seq(Node)
      <3> PICK c : c = task'[y].chain[i]
        OBVIOUS
      <3>1. c = y \/ \E j \in DOMAIN task[n].chain : c = task[n].chain[j]
        BY <2>3
      <3>2. CASE c = y
        BY <3>2 DEF WaitsFor
      <3>3. CASE \E j \in DOMAIN task[n].chain : c = task[n].chain[j]
        <4>1. WaitsFor(c, n)
          BY <2>3, <3>3 DEF CycleInv, ChainsWait
        <4>2. WaitsFor(c, y)'
          <5> SUFFICES ASSUME NEW S \in SUBSET Node, c \in S, \A x \in S : task'[x].on \in S \cup {None}
                       PROVE  y \in S
            BY DEF WaitsFor
          <5>1. \A x \in S : task[x].on \in S \cup {None}
            BY <1>2
          <5>2. n \in S
            BY <4>1, <5>1 DEF WaitsFor
          <5>3. y # None
            BY Kinds
          <5> QED  BY <2>3, <5>2, <5>3
        <4> QED  BY <4>2
      <3> QED  BY <3>1, <3>2, <3>3
    <2> QED  BY <2>1, <2>2, <2>3, NewWaitChains
  <1> QED  BY <1>3, <1>4 DEF CycleInv

LEMMA SettledCycleInv ==
  ASSUME Structure, CycleInv, NEW n \in Node, Finish(n) \/ Fail(n)
  PROVE  CycleInv'
  <1>1. /\ task[n].on = None /\ edges' = Unblock(n)
        /\ \A x \in Node : task[x].on = n => task'[x].on = None
        /\ \A x \in Node : task[x].on # n => task'[x].on = task[x].on
        /\ \A x \in Node : Pending(x)' => Pending(x) /\ x # n /\ task'[x].chain = task[x].chain
    <2>1. PICK ok \in BOOLEAN : Settle(n, ok) /\ task[n].on = None
      BY SettlesFree DEF Finish, Fail
    <2>2. edges' = Unblock(n) /\ \A x \in Node : Pending(x)' => Pending(x) /\ x # n
      BY <2>1, SettleTasks DEF Settle
    <2> QED  BY <2>1, <2>2, SettledWaits
  <1>2. EdgesAreWaits'
    <2> SUFFICES ASSUME NEW k \in {"resource", "type"}, NEW e \in edges'[k]
                 PROVE  \E x \in Node : /\ e[1] = Id[x] /\ task'[x].on # None /\ Kind(task'[x].on) = k
                                        /\ e[2] = Id[task'[x].on]
      BY DEF EdgesAreWaits, Kind
    <2>1. e \in edges[k] /\ (k = Kind(n) => e[2] # Id[n])
      BY <1>1 DEF Unblock, Structure, TypeInv
    <2>2. PICK x \in Node : /\ e[1] = Id[x] /\ task[x].on # None /\ Kind(task[x].on) = k
                            /\ e[2] = Id[task[x].on]
      BY <2>1 DEF CycleInv, EdgesAreWaits
    <2>3. task'[x].on = task[x].on
      BY <1>1, <2>1, <2>2
    <2> QED  BY <2>2, <2>3
  <1>3. ChainsWait'
    <2> SUFFICES ASSUME NEW y \in Node, Pending(y)', NEW i \in DOMAIN task'[y].chain
                 PROVE  WaitsFor(task[y].chain[i], y)'
      BY DEF ChainsWait
    <2> PICK c : c = task'[y].chain[i]
      OBVIOUS
    <2>1. WaitsFor(c, y) /\ y # n
      BY <1>1 DEF CycleInv, ChainsWait
    <2> SUFFICES ASSUME NEW S \in SUBSET Node, c \in S, \A x \in S : task'[x].on \in S \cup {None}
                 PROVE  y \in S
      BY DEF WaitsFor
    <2> PICK T : T = S \cup {n}
      OBVIOUS
    <2>2. T \in SUBSET Node /\ c \in T /\ \A x \in T : task[x].on \in T \cup {None}
      BY <1>1
    <2>3. y \in T
      BY <2>1, <2>2 DEF WaitsFor
    <2> QED  BY <2>1, <2>3
  <1> QED  BY <1>2, <1>3 DEF CycleInv

LEMMA NextCycleInv ==
  ASSUME Structure, CycleInv, [Next]_vars
  PROVE  CycleInv'
  <1>1. CASE Drop
    <2>1. /\ \A x \in Node : task'[x] = NoTask
          /\ \A k \in {"resource", "type"} : edges'[k] = {}
      BY <1>1 DEF Drop
    <2> QED  BY <2>1, NoTaskState DEF CycleInv, EdgesAreWaits, ChainsWait, Pending
  <1> QED  BY <1>1, StepsOfWaits, QuietCycleInv, NewWaitCycleInv, SettledCycleInv

(* A placeholder is given only to one that the node waits for already.     *)
LEMMA BorrowsGenuinely ==
  ASSUME DistinctIds, Structure, CycleInv, NEW n \in Node, BorrowReference(n)
  PROVE  WaitsFor(Ref(n), n)
  <1> PICK r : r = Ref(n)
    OBVIOUS
  <1>1. /\ Decoding(n) /\ Pending(n) /\ r \in Node /\ Chain(n) \in Seq(Node)
        /\ SameChain(r, Chain(n)) \/ WaitForCycle(r, Chain(n))
    BY DecodingIsSound, ChainType DEF BorrowReference, Borrows
  <1>2. \A i \in DOMAIN Chain(n) : Chain(n)[i] \in Node /\ WaitsFor(Chain(n)[i], n)
    <2>1. Chain(n) = <<>> \/ Chain(n) = task[n].chain
      BY DEF Chain
    <2> QED  BY <1>1, <2>1 DEF CycleInv, ChainsWait
  <1>3. CASE SameChain(r, Chain(n))
    BY <1>1, <1>2, <1>3 DEF SameChain, DistinctIds
  <1>4. CASE WaitForCycle(r, Chain(n))
    <2> PICK step : step = edges[Kind(r)]
      OBVIOUS
    <2>1. PICK e \in step, i \in DOMAIN Chain(n) : e[1] \in Reachable(step, Id[r]) /\ e[2] = Id[Chain(n)[i]]
      BY <1>4 DEF WaitForCycle
    <2> SUFFICES ASSUME NEW S \in SUBSET Node, r \in S, \A x \in S : task[x].on \in S \cup {None}
                 PROVE  n \in S
      BY DEF WaitsFor
    <2> DEFINE Ids == {Id[x] : x \in S}
    <2>2. \A f \in step : f[1] \in Ids => f[2] \in Ids
      <3> SUFFICES ASSUME NEW f \in step, f[1] \in Ids
                   PROVE  f[2] \in Ids
        OBVIOUS
      <3>1. PICK w \in Node : f[1] = Id[w] /\ task[w].on # None /\ f[2] = Id[task[w].on]
        BY <1>1, Kinds DEF CycleInv, EdgesAreWaits
      <3>2. w \in S
        BY <3>1 DEF DistinctIds
      <3> QED  BY <3>1, <3>2
    <2>3. step \in SUBSET (Number \X Number) /\ Id[r] \in Number /\ Ids \in SUBSET Number /\ Id[r] \in Ids
      BY <1>1, Kinds DEF Structure, TypeInv, Number
    <2> HIDE DEF Ids
    <2>4. Reachable(step, Id[r]) \subseteq Ids
      BY <2>2, <2>3 DEF Reachable
    <2>5. e[2] \in Ids
      BY <2>1, <2>2, <2>4
    <2>6. Chain(n)[i] \in S
      BY <1>2, <2>1, <2>5 DEF Ids, DistinctIds
    <2> QED  BY <1>2, <2>6 DEF WaitsFor
  <1> QED  BY <1>1, <1>3, <1>4

(* A placeholder is handed out only where waiting would close a cycle: for *)
(* any resources, types and references among them, the one that is given   *)
(* it is one that its owner waits for, through any number of others.  The  *)
(* edges compare numbers, and a chain may hold resources and types, so it  *)
(* is said for numbers that tell all nodes apart.                          *)
THEOREM GenuineCyclesAlways ==
  ASSUME DistinctIds
  PROVE  Spec => GenuineCycles
  <1>1. Init => Structure /\ CycleInv
    BY InitStructure, InitCycleInv
  <1>2. Structure /\ CycleInv /\ [Next]_vars => (Structure /\ CycleInv)'
    BY NextStructure, NextCycleInv
  <1>3. Structure /\ CycleInv /\ [Next]_vars => [\A p \in borrowed' \ borrowed : WaitsFor(p[2], p[1])]_vars
    <2> SUFFICES ASSUME Structure, CycleInv, Next, NEW p \in borrowed' \ borrowed
                 PROVE  WaitsFor(p[2], p[1])
      OBVIOUS
    <2>1. PICK n \in Node : BorrowReference(n)
      BY DEF Next, Progress, Decode, Reply, FindReference, AwaitReference, StartReference, RefuseReference,
             Finish, Fail, Settle, ReplyDescription, ReplyType, ReplyAttach, Refuse, Malformed,
             Attach, Detach, Drop, Reconnect, history
    <2>2. p = <<n, Ref(n)>>
      BY <2>1 DEF BorrowReference
    <2> QED  BY <2>1, <2>2, BorrowsGenuinely
  <1> QED  BY <1>1, <1>2, <1>3, PTL DEF Spec, GenuineCycles

-----------------------------------------------------------------------------
(* The server serves what the client holds.                                *)

LEMMA SettledStages ==
  ASSUME Structure, NEW n \in Node, Finish(n) \/ Fail(n), NEW w \in Node, w # n
  PROVE  \/ task[w].on # n /\ task'[w] = task[w]
         \/ /\ task[w].on = n /\ task[w].stage = "decode" /\ Finish(n)
            /\ task'[w].stage = "decode" /\ task'[w].todo = Tail(task[w].todo)
            /\ task[w].todo \in Seq(Node) /\ task[w].todo # <<>> /\ n = Head(task[w].todo)
         \/ task[w].on = n /\ task[w].stage = "decode" /\ Fail(n) /\ task'[w].stage = "failing"
         \/ /\ task[w].on = n /\ task[w].stage = "typed"
            /\ task'[w].stage \in {"failing", "request"}
  <1>1. CASE task[w].on # n
    <2>1. PICK ok \in BOOLEAN : Settle(n, ok) /\ task[n].on = None
      BY SettlesFree DEF Finish, Fail
    <2> QED  BY <1>1, <2>1, SettleTasks
  <1>2. CASE task[w].on = n
    <2>1. /\ task[w] \in TaskState /\ Sound(w, task[w]) /\ n # None
          /\ \/ Finish(n) /\ task'[w] = Resume(task[w], TRUE)
             \/ Fail(n) /\ task'[w] = Resume(task[w], FALSE)
      <3>1. CASE Finish(n)
        <4>1. task'[w] = CASE w = n -> NoTask
                           [] w # n /\ task[w].on = n -> Resume(task[w], TRUE)
                           [] OTHER -> task[w]
          BY <3>1 DEF Finish, Settle
        <4> QED  BY <1>2, <3>1, <4>1, Kinds, NoTaskState DEF Structure, TypeInv, TasksAreSound
      <3>2. CASE Fail(n)
        <4>1. task'[w] = CASE w = n -> NoTask
                           [] w # n /\ task[w].on = n -> Resume(task[w], FALSE)
                           [] OTHER -> task[w]
          BY <3>2 DEF Fail, Settle
        <4> QED  BY <1>2, <3>2, <4>1, Kinds, NoTaskState DEF Structure, TypeInv, TasksAreSound
      <3> QED  BY <3>1, <3>2
    <2>2. \/ task[w].stage = "typed"
          \/ task[w].stage = "decode" /\ task[w].todo # <<>> /\ n = Head(task[w].todo)
      BY <1>2, <2>1 DEF Sound
    <2>3. CASE Fail(n) /\ task'[w] = Resume(task[w], FALSE)
      BY <1>2, <2>1, <2>2, <2>3 DEF Resume, TaskState
    <2>4. CASE Finish(n) /\ task'[w] = Resume(task[w], TRUE) /\ task[w].stage = "typed"
      BY <1>2, <2>1, <2>4 DEF Resume, TaskState
    <2>5. CASE Finish(n) /\ task'[w] = Resume(task[w], TRUE) /\ task[w].stage = "decode"
      <3>1. task'[w] = [task[w] EXCEPT !.on = None, !.todo = Tail(@)]
        BY <2>1, <2>5 DEF Resume
      <3> QED  BY <1>2, <2>1, <2>2, <2>5, <3>1 DEF TaskState
    <2> QED  BY <2>1, <2>2, <2>3, <2>4, <2>5
  <1> QED  BY <1>1, <1>2

LEMMA ServedKept ==
  ASSUME ServedInv, UNCHANGED <<have, served, up>>, spoiled \subseteq spoiled',
         \A x \in Resource : task'[x].stage = "decode" => task[x].stage = "decode",
         \A x \in Resource : task[x].stage = "decode" /\ task'[x].stage # "decode" /\ x \in served
                                => x \in spoiled'
  PROVE  ServedInv'
  BY DEF ServedInv

LEMMA InitServedInv == Init => ServedInv
  BY NoTaskState DEF Init, ServedInv, Node

LEMMA SettledServed ==
  ASSUME Structure, ServedInv, NEW n \in Node, Finish(n) \/ Fail(n)
  PROVE  ServedInv'
  <1>1. CASE Finish(n)
    <2>1. /\ Settle(n, TRUE) /\ task[n].on = None /\ task[n].stage = "decode" /\ task'[n] = NoTask
          /\ UNCHANGED <<served, spoiled, up>> /\ have' = have \cup {n}
      BY <1>1, SettlesFree, SettleTasks DEF Finish, Settle
    <2>2. \A x \in Node \ {n} : /\ task'[x].stage = "decode" => task[x].stage = "decode"
                                /\ task[x].stage = "decode" => task'[x].stage = "decode"
      <3>1. ~Fail(n)
        BY <2>1 DEF Fail
      <3> QED  BY <1>1, <3>1, SettledStages
    <2> QED  BY <2>1, <2>2, NoTaskState DEF ServedInv, Node
  <1>2. CASE Fail(n)
    <2>1. /\ Settle(n, FALSE) /\ task[n].on = None /\ task[n].stage = "failing" /\ task'[n] = NoTask
          /\ UNCHANGED <<have, served, up>>
          /\ spoiled' = spoiled \cup {w \in served : task[w].on = n}
      BY <1>2, SettlesFree, SettleTasks DEF Fail, Settle
    <2>2. \A x \in Node \ {n} : /\ task'[x].stage = "decode" => task[x].stage = "decode"
                                /\ task[x].stage = "decode" /\ task'[x].stage # "decode" => task[x].on = n
      BY <1>2, SettledStages
    <2> QED  BY <2>1, <2>2, NoTaskState, ServedKept DEF Node
  <1> QED  BY <1>1, <1>2

LEMMA ReplyServed ==
  ASSUME Structure, ServedInv, NEW n \in Node, Reply(n)
  PROVE  ServedInv'
  <1>1. CASE ReplyAttach(n)
    <2>1. /\ up /\ n \in Resource /\ task[n].stage = "request" /\ Pending(n)
          /\ UNCHANGED <<have, up, spoiled>>
      BY <1>1 DEF ReplyAttach, Pending, history
    <2>2. CASE Admits(n)
      <3>1. /\ task' = [task EXCEPT ![n].stage = "decode", ![n].todo = graph.refs[n]]
            /\ served' = served \cup {n}
        BY <1>1, <2>2 DEF ReplyAttach, ValueReferences
      <3>2. task'[n].stage = "decode" /\ \A m \in Node \ {n} : task'[m] = task[m]
        BY <2>1, <3>1, DecodeTasks
      <3>3. \A m \in Resource : task'[m].stage = "decode" <=> (m = n \/ task[m].stage = "decode")
        BY <3>2 DEF Node
      <3> QED  BY <2>1, <3>1, <3>3 DEF ServedInv
    <2>3. CASE ~Admits(n)
      <3>1. task' = Fails(n) /\ served' = served
        BY <1>1, <2>3 DEF ReplyAttach
      <3> QED  BY <2>1, <3>1, FailsTasks, ServedKept DEF Node
    <2> QED  BY <2>2, <2>3
  <1>2. CASE ReplyType(n)
    <2>1. n \in Type /\ task[n].stage = "request" /\ UNCHANGED <<have, served, up, spoiled>>
      BY <1>2 DEF ReplyType, history
    <2>2. task' = [task EXCEPT ![n].stage = "decode", ![n].todo = graph.refs[n]]
      BY <1>2 DEF ReplyType, TypeReferences
    <2>3. \A m \in Resource : task'[m] = task[m]
      <3>1. \A m \in Node \ {n} : task'[m] = task[m]
        BY <2>1, <2>2, DecodeTasks
      <3> QED  BY <2>1, <3>1, Kinds DEF Node
    <2> QED  BY <2>1, <2>3, ServedKept
  <1>3. CASE n \in Resource /\ ReplyDescription(n)
    <2>1. UNCHANGED <<have, served, up, spoiled>> /\ task[n].stage = "describe"
      BY <1>3 DEF ReplyDescription, history
    <2>2. CASE Describes(n)
      <3> PICK t : t = graph.type[n]
        OBVIOUS
      <3>1. t \in Type /\ t \in Node
        BY <1>3, Kinds DEF Structure, TypeInv, Node
      <3>2. task'[n].stage = "typed" /\ \A x \in Node \ {n, t} : task'[x] = task[x]
        BY <2>2, <3>1, DescribesTasks
      <3>3. \A x \in Resource : x = n \/ task'[x] = task[x]
        BY <3>1, <3>2, Kinds DEF Node
      <3> QED  BY <2>1, <3>2, <3>3, ServedKept
    <2>3. CASE ~Describes(n)
      <3>1. /\ \A m \in Resource \ {n} : task'[m] = task[m]
            /\ task[n].stage = "describe" /\ task'[n].stage = "request"
        BY <1>3, <2>3, DescribedTasks DEF Node
      <3> QED  BY <2>1, <3>1, ServedKept
    <2> QED  BY <2>2, <2>3
  <1> QED  BY <1>1, <1>2, <1>3 DEF Reply

LEMMA DecodeServed ==
  ASSUME Structure, ServedInv, NEW n \in Node, Decode(n)
  PROVE  ServedInv'
  <1>1. CASE FindReference(n) \/ BorrowReference(n)
    <2>1. Decoding(n) /\ task' = PassOver(n) /\ UNCHANGED <<have, served, up, spoiled>>
      BY <1>1 DEF FindReference, BorrowReference, history
    <2> QED  BY <2>1, PassTasks, ServedKept DEF Node
  <1>2. CASE AwaitReference(n)
    <2> PICK m : m = Ref(n)
      OBVIOUS
    <2>1. m \in Node /\ task[n].stage = "decode" /\ UNCHANGED <<have, served, up, spoiled>>
      BY <1>2, DecodingIsSound DEF AwaitReference, Decoding, history
    <2>2. task'[n].stage = "decode" /\ \A x \in Node \ {n} : task'[x] = task[x]
      BY <1>2, <2>1, AwaitTasks
    <2> QED  BY <2>1, <2>2, ServedKept DEF Node
  <1>3. CASE StartReference(n)
    <2> PICK m : m = Ref(n)
      OBVIOUS
    <2>1. m \in Node /\ task[n].stage = "decode" /\ UNCHANGED <<have, served, up, spoiled>>
      BY <1>3, DecodingIsSound DEF StartReference, Decoding, history
    <2>2. /\ task'[n].stage = "decode" /\ \A x \in Node \ {n, m} : task'[x] = task[x]
          /\ ~Pending(m) /\ task'[m].stage \in {"describe", "request"}
      BY <1>3, <2>1, StartTasks
    <2> QED  BY <2>1, <2>2, ServedKept DEF Node, Pending
  <1>4. CASE RefuseReference(n)
    <2>1. /\ task' = Fails(n) /\ Pending(n) /\ UNCHANGED <<have, served, up>>
          /\ spoiled' = spoiled \cup ({n} \cap served)
      BY <1>4 DEF RefuseReference, Decoding, Pending, Spoil
    <2> QED  BY <2>1, FailsTasks, ServedKept DEF Node
  <1> QED  BY <1>1, <1>2, <1>3, <1>4, SettledServed DEF Decode

LEMMA NextServedInv ==
  ASSUME Structure, ServedInv, [Next]_vars
  PROVE  ServedInv'
  <1>1. CASE UNCHANGED vars
    BY <1>1, ServedKept DEF vars, history
  <1>2. ASSUME NEW n \in Node, Refuse(n)
        PROVE  ServedInv'
    <2>1. /\ task' = Fails(n) /\ Pending(n) /\ task[n].stage # "decode"
          /\ UNCHANGED <<have, served, up, spoiled>>
      BY <1>2 DEF Refuse, Pending, history
    <2> QED  BY <2>1, FailsTasks, ServedKept DEF Node
  <1>3. ASSUME NEW n \in Node, Malformed(n)
        PROVE  ServedInv'
    <2>1. /\ task' = Fails(n) /\ Pending(n) /\ UNCHANGED <<have, served, up>>
          /\ spoiled' = spoiled \cup ({n} \cap served)
      BY <1>3 DEF Malformed, Pending, Spoil
    <2> QED  BY <2>1, FailsTasks, ServedKept DEF Node
  <1>4. ASSUME NEW n \in Resource, Attach(n)
        PROVE  ServedInv'
    <2>1. UNCHANGED <<have, served, up, spoiled>>
      BY <1>4 DEF Attach, history
    <2> QED  BY <1>4, <2>1, AttachTasks, ServedKept DEF Node, Pending
  <1>5. ASSUME NEW n \in Resource, Detach(n)
        PROVE  ServedInv'
    <2>1. task[n].stage # "decode"
      BY <1>5, OfTask DEF Detach, Pending, Node
    <2>2. CASE up
      BY <1>5, <2>1, <2>2 DEF ServedInv, Detach, Unserve
    <2>3. CASE ~up
      BY <1>5, <2>1, <2>3 DEF ServedInv, Detach, Unserve
    <2> QED  BY <2>2, <2>3
  <1>6. CASE Drop
    BY <1>6, NoTaskState DEF Drop, ServedInv, Node
  <1>7. CASE Reconnect
    <2>1. \A n \in Resource : task[n].stage # "decode"
      <3> SUFFICES ASSUME NEW n \in Resource, task[n].stage = "decode"
                   PROVE  FALSE
        OBVIOUS
      <3>1. n \in Node /\ Pending(n)
        BY DEF Pending, Node
      <3> QED  BY <1>7, <3>1, OfTask DEF Sound, Reconnect
    <2> QED  BY <1>7, <2>1 DEF Reconnect, ServedInv, history
  <1> QED
    BY <1>1, <1>2, <1>3, <1>4, <1>5, <1>6, <1>7, DecodeServed, ReplyServed DEF Next, Progress

(* At rest, the server serves what the client holds, and nothing else but  *)
(* resources whose decoding failed after the server had begun to serve     *)
(* them: over attachments, detachments, refusals, malformed values, lost   *)
(* connections and reconnections in any order.                             *)
THEOREM HeldIsServedAlways == Spec => []HeldIsServed
  <1>1. Init => Structure /\ ServedInv
    BY InitStructure, InitServedInv
  <1>2. Structure /\ ServedInv /\ [Next]_vars => (Structure /\ ServedInv)'
    BY NextStructure, NextServedInv
  <1>3. ServedInv => HeldIsServed
    BY DEF ServedInv, HeldIsServed, AtRest, Pending, Node
  <1> QED  BY <1>1, <1>2, <1>3, PTL DEF Spec

-----------------------------------------------------------------------------
(* What is attached is whole.                                              *)

(* Whatever is there stays, or what was under way arrives, or fails.       *)
Keeps ==
    /\ graph' = graph /\ borrowed \subseteq borrowed' /\ failed \subseteq failed'
    /\ have \cup detached \subseteq have' \cup detached'
    /\ \A m \in Node : Pending(m) => Pending(m)' \/ m \in have' \cup detached' \cup failed'

(* Decodes begin, stand, or pass over what is provided, and only one that  *)
(* has passed over everything is done.                                     *)
Advances ==
    /\ \A x \in Node : x \in have' =>
          x \in have \/ (task[x].stage = "decode" /\ task[x].todo = <<>>)
    /\ \A x \in Node : task'[x].stage = "decode" =>
          \/ task'[x].todo = graph.refs[x]
          \/ task[x].stage = "decode" /\ task'[x].todo = task[x].todo
          \/ /\ task[x].stage = "decode" /\ task[x].todo # <<>>
             /\ task'[x].todo = Tail(task[x].todo)
             /\ \E m \in Node : m = Head(task[x].todo) /\ Provided(x, m)'

LEMMA AdvancesProvided ==
  ASSUME Structure, Structure', ReferencesProvided, Keeps, Advances
  PROVE  ReferencesProvided'
  <1> SUFFICES ASSUME NEW n \in Node, NEW i \in 1 .. Passed(n)'
               PROVE  Provided(n, graph.refs[n][i])'
    BY DEF ReferencesProvided
  <1> PICK m : m = graph.refs[n][i]
    OBVIOUS
  <1> PICK all : all = Len(graph.refs[n])
    OBVIOUS
  <1> PICK left : left = Len(task'[n].todo)
    OBVIOUS
  <1>1. graph' = graph /\ graph.refs[n] \in Seq(Node) /\ all \in Nat /\ graph \in Graphs
    BY Kinds DEF Keeps, Structure, TypeInv
  <1>0. left \in Nat
    <2>1. task'[n].todo \in Seq(Node)
      BY DEF Structure, TypeInv, TaskState
    <2> QED  BY <2>1
  <1>2. Provided(n, m) => Provided(n, m)'
    <2>1. Pending(m) => m \in Node
      <3>1. all = Len(graph.refs[n]) /\ DOMAIN graph.refs[n] = 1 .. all
        BY <1>1
      <3>2. i \in 1 .. all
        <4>1. Passed(n)' = all \/ Passed(n)' = all - left \/ Passed(n)' = 0
          BY <1>1 DEF Passed
        <4>2. \A l \in Nat : \A j \in 1 .. (all - l) : j \in 1 .. all
          BY <1>1
        <4>3. \A j \in 1 .. 0 : j \in 1 .. all
          OBVIOUS
        <4> QED  BY <1>0, <4>1, <4>2, <4>3
      <3> QED  BY <1>1, <3>1, <3>2
    <2> QED  BY <2>1 DEF Provided, Keeps
  <1> SUFFICES i \in 1 .. Passed(n) \/ Provided(n, m)'
    BY <1>1, <1>2 DEF ReferencesProvided
  <1>3. CASE n \in have'
    <2>1. CASE n \in have
      BY <1>1, <1>3, <2>1 DEF Passed
    <2>2. CASE n \notin have
      <3>1. task[n].stage = "decode" /\ task[n].todo = <<>>
        BY <1>3, <2>2 DEF Advances
      <3>2. Passed(n) = all - 0 /\ Passed(n)' = all
        BY <1>1, <1>3, <2>2, <3>1 DEF Passed
      <3> QED  BY <1>1, <3>2
    <2> QED  BY <2>1, <2>2
  <1>4. CASE n \notin have' /\ task'[n].stage = "decode"
    <2>1. Passed(n)' = all - left
      BY <1>1, <1>4 DEF Passed
    <2>2. CASE task'[n].todo = graph.refs[n]
      BY <1>1, <2>1, <2>2
    <2>3. CASE task[n].stage = "decode" /\ task'[n].todo = task[n].todo
      <3>1. n \notin have
        BY <2>3, OfTask DEF Pending
      <3> QED  BY <2>1, <2>3, <3>1 DEF Passed
    <2>4. CASE /\ task[n].stage = "decode" /\ task[n].todo # <<>>
               /\ task'[n].todo = Tail(task[n].todo)
               /\ \E h \in Node : h = Head(task[n].todo) /\ Provided(n, h)'
      <3> PICK h \in Node : h = Head(task[n].todo) /\ Provided(n, h)'
        BY <2>4
      <3> PICK was : was = Len(task[n].todo)
        OBVIOUS
      <3>1. /\ n \notin have /\ task[n].todo \in Seq(Node) /\ IsLeft(n, task[n].todo)
        BY <2>4, OfTask DEF Pending, Sound, TaskState
      <3>2. /\ left = was - 1 /\ h = graph.refs[n][all - was + 1]
            /\ was \in Nat /\ was <= all
        <4> PICK todo \in Seq(Node) : todo = task[n].todo
          BY <3>1
        <4>1. /\ Len(Tail(todo)) = Len(todo) - 1
              /\ Head(todo) = graph.refs[n][Len(graph.refs[n]) - Len(todo) + 1]
          BY <1>1, <2>4, <3>1, TailIsLeft
        <4>2. Len(todo) \in Nat /\ Len(todo) <= all
          BY <3>1 DEF IsLeft
        <4> QED  BY <2>4, <4>1, <4>2
      <3>3. Passed(n) = all - was
        BY <2>4, <3>1 DEF Passed
      <3>4. i \in 1 .. (all - was) \/ i = all - was + 1
        <4>1. i \in 1 .. (all - (was - 1))
          BY <2>1, <3>2
        <4>2. \A a, w \in Nat : \A j \in 1 .. (a - (w - 1)) : j \in 1 .. (a - w) \/ j = a - w + 1
          OBVIOUS
        <4> QED  BY <1>1, <3>2, <4>1, <4>2
      <3> QED  BY <3>2, <3>3, <3>4
    <2> QED  BY <1>4, <2>2, <2>3, <2>4 DEF Advances
  <1>5. CASE n \notin have' /\ task'[n].stage # "decode"
    BY <1>5 DEF Passed
  <1> QED  BY <1>3, <1>4, <1>5

LEMMA SettledAdvances ==
  ASSUME Structure, NEW n \in Node, Finish(n) \/ Fail(n)
  PROVE  Keeps /\ Advances
  <1>1. PICK ok \in BOOLEAN : Settle(n, ok) /\ task[n].on = None
    BY SettlesFree DEF Finish, Fail
  <1>2. /\ graph' = graph /\ borrowed' = borrowed /\ task'[n] = NoTask
        /\ \A w \in Node \ {n} : Pending(w) => Pending(w)'
    BY <1>1, SettleTasks DEF Settle
  <1>3. Keeps
    BY <1>2 DEF Keeps, Finish, Fail
  <1>4. \A x \in Node : x \in have' =>
          x \in have \/ (task[x].stage = "decode" /\ task[x].todo = <<>>)
    BY DEF Finish, Fail
  <1>5. ASSUME NEW x \in Node, task'[x].stage = "decode"
        PROVE  \/ task[x].stage = "decode" /\ task'[x].todo = task[x].todo
               \/ /\ task[x].stage = "decode" /\ task[x].todo # <<>>
                  /\ task'[x].todo = Tail(task[x].todo)
                  /\ n = Head(task[x].todo) /\ Provided(x, n)'
    <2>1. x # n
      BY <1>2, <1>5, NoTaskState
    <2>2. Finish(n) => Provided(x, n)'
      BY DEF Finish, Provided
    <2> QED  BY <1>5, <2>1, <2>2, SettledStages
  <1>6. Advances
    BY <1>4, <1>5 DEF Advances
  <1> QED  BY <1>3, <1>6

(* A step that attaches nothing, and passes nothing over.                  *)
LEMMA StandsAdvances ==
  ASSUME graph' = graph, borrowed \subseteq borrowed', failed \subseteq failed', have' \subseteq have,
         have \cup detached \subseteq have' \cup detached',
         \A m \in Node : Pending(m) => Pending(m)',
         \A x \in Node : task'[x].stage = "decode" =>
            \/ task'[x].todo = graph.refs[x]
            \/ task[x].stage = "decode" /\ task'[x].todo = task[x].todo
  PROVE  Keeps /\ Advances
  BY DEF Keeps, Advances

LEMMA DecodeAdvances ==
  ASSUME Structure, NEW n \in Node, Decode(n)
  PROVE  Keeps /\ Advances
  <1>1. CASE FindReference(n) \/ BorrowReference(n)
    <2> PICK r : r = Ref(n)
      OBVIOUS
    <2>1. /\ Decoding(n) /\ task' = PassOver(n) /\ UNCHANGED <<graph, have, failed, detached>>
          /\ borrowed \subseteq borrowed'
      BY <1>1 DEF FindReference, BorrowReference, history
    <2>2. /\ \A m \in Node \ {n} : task'[m] = task[m]
          /\ task[n].stage = "decode" /\ task'[n].todo = Tail(task[n].todo)
          /\ task[n].todo # <<>> /\ r = Head(task[n].todo) /\ r \in Node
          /\ \A m \in Node : Pending(m)' <=> Pending(m)
      BY <2>1, PassTasks, DecodingIsSound DEF Decoding, Ref
    <2>3. Provided(n, r)'
      <3>1. CASE FindReference(n)
        BY <3>1 DEF FindReference, Provided, history
      <3>2. CASE BorrowReference(n)
        <4>1. Pending(r) /\ <<n, r>> \in borrowed'
          BY <3>2 DEF BorrowReference, Borrows, Placeholder, Pending
        <4>2. Pending(r)'
          BY <2>2, <4>1
        <4> QED  BY <4>1, <4>2 DEF Provided
      <3> QED  BY <1>1, <3>1, <3>2
    <2>4. Keeps
      BY <2>1, <2>2 DEF Keeps
    <2>5. Advances
      BY <2>1, <2>2, <2>3 DEF Advances
    <2> QED  BY <2>4, <2>5
  <1>2. CASE AwaitReference(n)
    <2> PICK m : m = Ref(n)
      OBVIOUS
    <2>1. m \in Node /\ task[n].stage = "decode" /\ UNCHANGED <<graph, have, history>>
      BY <1>2, DecodingIsSound DEF AwaitReference, Decoding
    <2>2. /\ task'[n].stage = "decode" /\ task'[n].todo = task[n].todo
          /\ \A x \in Node \ {n} : task'[x] = task[x]
          /\ \A x \in Node : Pending(x)' <=> Pending(x)
      BY <1>2, <2>1, AwaitTasks
    <2> QED  BY <2>1, <2>2, StandsAdvances DEF history
  <1>3. CASE StartReference(n)
    <2> PICK m : m = Ref(n)
      OBVIOUS
    <2>1. m \in Node /\ task[n].stage = "decode" /\ UNCHANGED <<graph, have, history>>
      BY <1>3, DecodingIsSound DEF StartReference, Decoding
    <2>2. /\ task'[n].stage = "decode" /\ task'[n].todo = task[n].todo
          /\ \A x \in Node \ {n, m} : task'[x] = task[x]
          /\ ~Pending(m) /\ task'[m].stage \in {"describe", "request"}
      BY <1>3, <2>1, StartTasks
    <2>3. \A x \in Node : Pending(x) => Pending(x)'
      BY <2>2 DEF Pending
    <2> QED  BY <2>1, <2>2, <2>3, StandsAdvances DEF history
  <1>4. CASE RefuseReference(n)
    <2>1. /\ task' = Fails(n) /\ Pending(n) /\ UNCHANGED <<graph, have, borrowed, failed, detached>>
      BY <1>4 DEF RefuseReference, Decoding, Pending
    <2> QED  BY <2>1, FailsTasks, StandsAdvances
  <1> QED  BY <1>1, <1>2, <1>3, <1>4, SettledAdvances DEF Decode

LEMMA ReplyAdvances ==
  ASSUME Structure, NEW n \in Node, Reply(n)
  PROVE  Keeps /\ Advances
  <1>1. CASE ReplyAttach(n) \/ ReplyType(n)
    <2>1. /\ task[n].stage = "request" /\ Pending(n) /\ UNCHANGED <<graph, have, history>>
          /\ \/ task' = [task EXCEPT ![n].stage = "decode", ![n].todo = graph.refs[n]]
             \/ task' = Fails(n)
      BY <1>1 DEF ReplyAttach, ReplyType, ValueReferences, TypeReferences, Pending
    <2>2. CASE task' = Fails(n)
      BY <2>1, <2>2, FailsTasks, StandsAdvances DEF history
    <2>3. CASE task' = [task EXCEPT ![n].stage = "decode", ![n].todo = graph.refs[n]]
      BY <2>1, <2>3, DecodeTasks, StandsAdvances DEF history
    <2> QED  BY <2>1, <2>2, <2>3
  <1>2. CASE n \in Resource /\ ReplyDescription(n)
    <2>1. UNCHANGED <<graph, have, history>> /\ task[n].stage = "describe"
      BY <1>2 DEF ReplyDescription
    <2>2. CASE Describes(n)
      <3> PICK t : t = graph.type[n]
        OBVIOUS
      <3>1. t \in Node
        BY <1>2, Kinds DEF Structure, TypeInv, Node
      <3>2. /\ task'[n].stage = "typed" /\ \A x \in Node \ {n, t} : task'[x] = task[x]
            /\ \/ Pending(t) /\ task'[t] = task[t]
               \/ ~Pending(t) /\ task'[t] = Task("decode", <<t>>, graph.refs[t])
        BY <2>2, <3>1, DescribesTasks
      <3>3. Task("decode", <<t>>, graph.refs[t]).todo = graph.refs[t]
        BY DEF Task
      <3>4. \A x \in Node : Pending(x) => Pending(x)'
        BY <3>2 DEF Pending
      <3>5. \A x \in Node : task'[x].stage = "decode" =>
               \/ task'[x].todo = graph.refs[x]
               \/ task[x].stage = "decode" /\ task'[x].todo = task[x].todo
        BY <3>2, <3>3
      <3> QED  BY <2>1, <3>4, <3>5, StandsAdvances DEF history
    <2>3. CASE ~Describes(n)
      BY <1>2, <2>1, <2>3, DescribedTasks, StandsAdvances DEF history
    <2> QED  BY <2>2, <2>3
  <1> QED  BY <1>1, <1>2 DEF Reply

LEMMA NextAdvances ==
  ASSUME Structure, [Next]_vars
  PROVE  Keeps /\ Advances
  <1>1. CASE UNCHANGED vars \/ Reconnect
    BY <1>1, StandsAdvances DEF vars, Reconnect, history, Pending
  <1>2. ASSUME NEW n \in Node, Refuse(n) \/ Malformed(n)
        PROVE  Keeps /\ Advances
    <2>1. task' = Fails(n) /\ Pending(n) /\ UNCHANGED <<graph, have, borrowed, failed, detached>>
      BY <1>2 DEF Refuse, Malformed, Pending, history
    <2> QED  BY <2>1, FailsTasks, StandsAdvances
  <1>3. ASSUME NEW n \in Resource, Attach(n)
        PROVE  Keeps /\ Advances
    <2>1. UNCHANGED <<graph, have, borrowed, failed, detached>>
      BY <1>3 DEF Attach, history
    <2>2. CASE task' = task
      BY <2>1, <2>2, StandsAdvances DEF Pending
    <2>3. CASE task' # task
      <3>1. /\ \A m \in Node \ {n} : task'[m] = task[m]
            /\ task'[n].stage \in {"failing", "describe"}
        BY <1>3, <2>3, AttachTasks
      <3> QED  BY <2>1, <3>1, StandsAdvances DEF Pending
    <2> QED  BY <2>2, <2>3
  <1>4. ASSUME NEW n \in Resource, Detach(n)
        PROVE  Keeps /\ Advances
    BY <1>4, StandsAdvances DEF Detach, Pending
  <1>5. CASE Drop
    <2>1. /\ \A x \in Node : task'[x] = NoTask
          /\ UNCHANGED <<graph, have, borrowed, detached>>
          /\ failed' = failed \cup {n \in Node : Pending(n)}
      BY <1>5 DEF Drop
    <2> QED  BY <2>1, NoTaskState DEF Keeps, Advances
  <1> QED
    BY <1>1, <1>2, <1>3, <1>4, <1>5, DecodeAdvances, ReplyAdvances DEF Next, Progress

LEMMA InitReferencesProvided == Init => ReferencesProvided
  BY NoTaskState DEF Init, ReferencesProvided, Passed

(* At rest, everything that an attached resource or a known type refers to *)
(* is attached too, or detached since, but for a placeholder whose own     *)
(* attachment failed after it was handed out: no reference is lost among   *)
(* waits, failures and lost connections, whatever the graph.               *)
THEOREM GraphIsWholeAlways == Spec => []GraphIsWhole
  <1>1. Init => Structure /\ ReferencesProvided
    BY InitStructure, InitReferencesProvided
  <1>2. Structure /\ ReferencesProvided /\ [Next]_vars => (Structure /\ ReferencesProvided)'
    BY NextStructure, NextAdvances, AdvancesProvided
  <1>3. Structure /\ ReferencesProvided => GraphIsWhole
    <2> SUFFICES ASSUME Structure, ReferencesProvided, AtRest, NEW n \in have,
                        NEW i \in DOMAIN graph.refs[n], NEW m, m = graph.refs[n][i]
                 PROVE  m \in have \cup detached \/ (<<n, m>> \in borrowed /\ m \in failed)
      BY DEF GraphIsWhole
    <2>1. n \in Node /\ graph.refs[n] \in Seq(Node)
      BY Kinds DEF Structure, TypeInv
    <2>2. m \in Node /\ i \in 1 .. Passed(n)
      BY <2>1 DEF Passed
    <2> QED  BY <2>1, <2>2 DEF ReferencesProvided, Provided, AtRest
  <1> QED  BY <1>1, <1>2, <1>3, PTL DEF Spec
====
