----------------------- MODULE ResourceSyncInvariant -----------------------
(***************************************************************************)
(* What makes the safety of ResourceSync inductive: the places a request   *)
(* can be in, what the messages on their way say of the resources, and     *)
(* what the application's proxies can count on.                            *)
(***************************************************************************)
EXTENDS ResourceSync

-----------------------------------------------------------------------------
(* Places: a reattach is at one of them, and the proxies in use are made. *)

AnswerTypes == {"attached", "reattached"}
OutcomeTypes == {"reattached", "notFound", "rejected"}
NotificationTypes == {"property", "event"}

(* The proxies in use: tracked, to be restored, being reattached or held.  *)
Used(o) == proxy[o] # Unused
UsedWhereNamed ==
    /\ \A i \in Id : attachedResources[i] # None => Used(attachedResources[i])
    /\ \A i \in Id : restore[i] # None => Used(restore[i])
    /\ reattaching # None => Used(reattaching)
    /\ \A d \in decoding : Used(d.obj)
    /\ \A o \in held : Used(o)

(* A reattach is at one place: asked for, queried, answered, decoded.      *)
Asked == {k \in DOMAIN toServer : toServer[k].type = "reattach"}
Answered == {k \in DOMAIN toClient : toClient[k].type \in OutcomeTypes}
Deltas == {d \in decoding : d.reply.type = "reattached"}
OneReattach ==
    /\ \A j, k \in Asked : j = k
    /\ \A j, k \in Answered : j = k
    /\ \A c, d \in Deltas : c = d
    /\ Asked # {} => querying = None /\ Answered = {} /\ Deltas = {}
    /\ querying # None => Answered = {} /\ Deltas = {}
    /\ Answered # {} => Deltas = {}
    /\ reattaching = None => /\ Asked = {} /\ querying = None
                             /\ Answered = {} /\ Deltas = {}

(* A type alone is not kept: a reply to a reattach needs its proxy.        *)
Sound == TypeOK /\ UsedWhereNamed /\ OneReattach

-----------------------------------------------------------------------------
(* Freshness: answers and notifications, and what a reattach asks for.     *)

IsAnswer(k) == toClient[k].type \in AnswerTypes
IsNotification(k) == toClient[k].type \in NotificationTypes
Carries(k) == IsAnswer(k) \/ IsNotification(k)

(* A reattach asks for its link from the cursor of the proxy it is for.    *)
AsksFor(r, m) == m.link = r.link /\ m.gen = r.gen /\ m.rev <= r.rev
ReattachFits ==
    /\ \A k \in Asked : AsksFor(proxy[reattaching], toServer[k])
    /\ querying # None => AsksFor(proxy[reattaching], querying)
    /\ \A k \in Answered : toClient[k].type = "reattached" =>
          LET r == proxy[reattaching] IN
          /\ toClient[k].link = r.link
          /\ r.gen = toClient[k].gen => r.rev <= toClient[k].rev
          /\ r.gen # toClient[k].gen => DOMAIN toClient[k].values = Prop

-----------------------------------------------------------------------------
(* What an instance id names, in one life of the server.                   *)

Named(i, g) ==
    \/ \E l \in Link : Live(l) /\ instance[l].id = i /\ instance[l].gen = g
    \/ \E k \in DOMAIN toClient : Carries(k) /\ toClient[k].id = i /\ toClient[k].gen = g
    \/ \E k \in DOMAIN notificationQueue :
          notificationQueue[k].id = i /\ notificationQueue[k].gen = g

OneName ==
    /\ \A i, j \in Id, g, h \in Generation : Named(i, g) /\ Named(j, h) => (i = j <=> g = h)
    /\ \A i \in Id, g \in Generation :
          Named(i, g) => i <= resourceCounter /\ g[2] <= put[g[1]]
    /\ \A i \in subscriptions : i <= resourceCounter
    /\ \A l \in Link : Live(l) => instance[l].gen[1] = l
    /\ \A k \in DOMAIN toClient : IsAnswer(k) => toClient[k].gen[1] = toClient[k].link

(* A proxy is of one resource, tracked under its own id, and of the        *)
(* generation that id has if it is of one that lives.                      *)
ProxiesTrue ==
    /\ \A o \in Obj : Used(o) =>
          LET r == proxy[o] IN
          /\ r.gen[1] = r.link /\ r.gen[2] <= put[r.link]
          /\ \A p \in Prop : /\ r.cache[p] # NoStamp => r.cache[p].gen[1] = r.link
                             /\ r.propertyCursors[p].gen = r.gen => r.propertyCursors[p].rev <= r.rev
                             /\ r.cache[p].gen = r.gen => r.propertyCursors[p] = r.cache[p]
          /\ \A l \in Link : Live(l) /\ instance[l].gen = r.gen => r.id = instance[l].id
    /\ \A i \in Id : attachedResources[i] # None => proxy[attachedResources[i]].id = i

(* The proxy tracked under i is of generation g, or there is none.         *)
Settled(i, g) == attachedResources[i] # None => proxy[attachedResources[i]].gen = g
Announced(i, n) == \E k \in 1 .. n : k \in DOMAIN toClient /\ IsAnswer(k) /\ toClient[k].id = i

(* Notifications find the proxy they are for, or the answer that brings it *)
(* is before them.                                                         *)
Routed ==
    /\ \A k \in DOMAIN notificationQueue :
          Settled(notificationQueue[k].id, notificationQueue[k].gen)
    /\ \A k \in DOMAIN toClient : IsNotification(k) =>
          Announced(toClient[k].id, k) \/ Settled(toClient[k].id, toClient[k].gen)
    /\ \A l \in Link : Live(l) /\ instance[l].id \in subscriptions =>
          \/ Announced(instance[l].id, Len(toClient))
          \/ Settled(instance[l].id, instance[l].gen)

-----------------------------------------------------------------------------
(* What is on its way, and what is not, about the instance of a link.      *)

About(k, l) == Carries(k) /\ toClient[k].gen = instance[l].gen
QueuedAbout(k, l) == notificationQueue[k].gen = instance[l].gen

(* A change of q as old as it is now.                                      *)
IsChange(m, l, q) ==
    /\ m.type = "property" /\ m.gen = instance[l].gen
    /\ m.prop = q /\ m.rev = instance[l].age[q]

(* From j on up to n the change of q comes, or an answer with its own.     *)
Comes(j, n, l, q) ==
    \E k \in DOMAIN toClient : /\ j < k /\ k <= n
                               /\ \/ IsAnswer(k) /\ About(k, l)
                                  \/ IsChange(toClient[k], l, q)
Queued(n, l, q) ==
    \E k \in DOMAIN notificationQueue : k <= n /\ IsChange(notificationQueue[k], l, q)

InOrder ==
    \A l \in Link : Live(l) =>
        /\ \A q \in Prop : instance[l].age[q] <= instance[l].rev
        /\ \A k \in DOMAIN toClient : About(k, l) => toClient[k].rev <= instance[l].rev
        /\ \A k \in DOMAIN notificationQueue :
              QueuedAbout(k, l) => notificationQueue[k].rev <= instance[l].rev
        /\ \A k \in DOMAIN toClient : toClient[k].type = "property" /\ About(k, l) =>
              toClient[k].rev <= instance[l].age[toClient[k].prop]
        /\ \A k \in DOMAIN notificationQueue :
              notificationQueue[k].type = "property" /\ QueuedAbout(k, l) =>
                 notificationQueue[k].rev <= instance[l].age[notificationQueue[k].prop]

RevisionsInOrder ==
    /\ \A j, k \in DOMAIN toClient :
          j < k /\ Carries(j) /\ Carries(k) /\ toClient[j].gen = toClient[k].gen =>
             toClient[j].rev <= toClient[k].rev
    /\ \A j \in DOMAIN notificationQueue, k \in DOMAIN toClient :
          Carries(k) /\ notificationQueue[j].gen = toClient[k].gen =>
             notificationQueue[j].rev <= toClient[k].rev

(* An answer brings every value as old as its revision, unless the proxy   *)
(* that is reattached has it.                                              *)
Brings(m, l) ==
    \A q \in Prop : instance[l].age[q] <= m.rev =>
        IF q \in DOMAIN m.values THEN m.values[q] = instance[l].age[q]
        ELSE /\ m.type = "reattached"
             /\ proxy[reattaching].cache[q] = [gen |-> m.gen, rev |-> instance[l].age[q]]
AnswersComplete ==
    /\ \A k \in DOMAIN toClient : IsAnswer(k) =>
          /\ \A q \in DOMAIN toClient[k].values : toClient[k].values[q] <= toClient[k].rev
          /\ \A l \in Link : Live(l) /\ About(k, l) => Brings(toClient[k], l)

(* After an answer no change is left out, neither before another message   *)
(* about the resource nor, while it is subscribed, at all.                 *)
ChangesFollowAnswers ==
    \A l \in Link : Live(l) =>
        \A j \in DOMAIN toClient : IsAnswer(j) /\ About(j, l) =>
            \A q \in Prop : instance[l].age[q] > toClient[j].rev =>
                /\ instance[l].id \in subscriptions => Comes(j, Len(toClient), l, q)
                /\ \A n \in DOMAIN toClient :
                      j < n /\ About(n, l) /\ instance[l].age[q] <= toClient[n].rev =>
                          Comes(j, n, l, q)

(* The same of the cursor of a tracked proxy.                              *)
ChangesFollowCursor ==
    \A l \in Link : Live(l) =>
        LET o == attachedResources[instance[l].id] IN
        o # None /\ proxy[o].gen = instance[l].gen =>
            \A q \in Prop : instance[l].age[q] > proxy[o].rev =>
                /\ instance[l].id \in subscriptions =>
                      \/ Comes(0, Len(toClient), l, q)
                      \/ Queued(Len(notificationQueue), l, q)
                /\ \A n \in DOMAIN toClient :
                      About(n, l) /\ instance[l].age[q] <= toClient[n].rev =>
                          Comes(0, n, l, q) \/ Queued(Len(notificationQueue), l, q)
                /\ \A n \in DOMAIN notificationQueue :
                      QueuedAbout(n, l) /\ instance[l].age[q] <= notificationQueue[n].rev =>
                          Queued(n, l, q)

AllCovered == \A o \in Obj : Used(o) => CursorCovered(o)

(* Calm: what the connection tracks or restores, the application holds.    *)
HeldWhereNamed ==
    ~disturbed =>
        /\ \A i \in Id : attachedResources[i] # None => attachedResources[i] \in held
        /\ \A i \in Id : restore[i] # None => restore[i] \in held
        /\ reattaching # None => reattaching \in held

-----------------------------------------------------------------------------
Prompted ==
    /\ decoding = {}
    /\ ReattachFits /\ OneName /\ ProxiesTrue /\ Routed
    /\ InOrder /\ RevisionsInOrder /\ AnswersComplete
    /\ ChangesFollowAnswers /\ ChangesFollowCursor /\ AllCovered
    /\ HeldWhereNamed

(* Neither what a proxy holds nor its cursor says what is on its way to it:*)
(* alone the properties are not inductive.                                 *)
IInv == Sound /\ (late = {} => Prompted)

-----------------------------------------------------------------------------
(* What the application holds, while it neither attaches nor releases when *)
(* a restore runs, nor holds a link twice.                                 *)

(* A message of one of the types about i is in q; one at most; the ones    *)
(* before come before the ones after.                                      *)
In(q, types, i) == \E k \in DOMAIN q : q[k].type \in types /\ q[k].id = i
Once(q, types) ==
    \A j, k \in DOMAIN q :
        q[j].type \in types /\ q[k].type \in types /\ q[j].id = q[k].id => j = k
Precede(q, before, after) ==
    \A j, k \in DOMAIN q :
        q[j].type \in before /\ q[k].type \in after /\ q[j].id = q[k].id => j < k

Asks == {"attach"}
Detaches == {"detach"}
Brought == {"attached"}
Replies == {"attached", "refused"}
Detaching(i) == In(toServer, Detaches, i) \/ In(handling, Detaches, i)

(* A closed connection holds nothing.                                      *)
ClosedIsEmpty ==
    ~connected => /\ toServer = <<>> /\ toClient = <<>> /\ handling = <<>>
                  /\ querying = None /\ attachRequests = {} /\ subscriptions = {}
                  /\ ~Restoring

(* An attachment under way is at one place.                                *)
AttachesOnce ==
    /\ Once(toServer, Asks) /\ Once(handling, Asks) /\ Once(toClient, Replies)
    /\ \A i \in Id :
          /\ In(toServer, Asks, i) => ~In(handling, Asks, i) /\ ~In(toClient, Replies, i)
          /\ In(handling, Asks, i) => ~In(toClient, Replies, i)
          /\ In(toServer, Asks, i) \/ In(handling, Asks, i) \/ In(toClient, Replies, i)
                => i \in attachRequests

(* What is being attached is not tracked, and is no longer detached; what  *)
(* an answer is about is subscribed.                                       *)
AttachesAnew ==
    /\ \A i \in attachRequests : attachedResources[i] = None
    /\ Precede(toServer, Detaches, Asks) /\ Precede(handling, Detaches, Asks)
    /\ \A i \in Id :
          /\ In(toServer, Detaches, i) => ~In(handling, Asks, i)
          /\ Detaching(i) => ~In(toClient, Brought, i)
          /\ In(toClient, AnswerTypes, i) => i \in subscriptions

(* A restore has the connection for itself, works on what is tracked, and  *)
(* what it has yet to ask for is not subscribed: it is not rejected.       *)
Pending(o) ==
    \/ \E i \in Id : restore[i] = o
    \/ reattaching = o /\ Answered = {}
RestoresAlone ==
    /\ Restoring => /\ attachRequests = {} /\ handling = <<>>
                    /\ \A i \in Id : ~In(toServer, Detaches, i)
    /\ \A i \in Id : restore[i] # None =>
          attachedResources[i] = restore[i] /\ restore[i] # reattaching
    /\ \A o \in Obj : Pending(o) /\ Live(proxy[o].link) =>
          instance[proxy[o].link].id \notin subscriptions
    /\ \A k \in DOMAIN toClient :
          /\ toClient[k].type # "rejected"
          /\ toClient[k].type = "notFound" => ~Current(reattaching)

(* A proxy held is tracked, it is the only one of its link, and the server *)
(* notifies about it or the restore has yet to come to it.                 *)
Served(o) ==
    \/ reattaching = o
    \/ \E i \in Id : restore[i] = o
    \/ proxy[o].id \in subscriptions /\ ~Detaching(proxy[o].id)
HeldTracked ==
    /\ \A o \in held : attachedResources[proxy[o].id] = o
    /\ \A o, p \in held : proxy[o].link = proxy[p].link => o = p
    /\ connected => \A o \in held : Current(o) => Served(o)

Keeping == ClosedIsEmpty /\ AttachesOnce /\ AttachesAnew /\ RestoresAlone /\ HeldTracked
Calm == late = {} /\ ~disturbed

(* The two invariants together: Keeping is kept from where IInv holds, as  *)
(* long as the application stays calm, and neither comes back once lost.   *)
HInv == IInv /\ (Calm => Keeping)

(* What stands for a link is its newest generation.                        *)
Latest == \A l \in Link : Live(l) => instance[l].gen[2] = put[l]

(* A proxy shows values of its own generation.                             *)
OfOneGeneration ==
    \A o \in Obj : Used(o) => \A q \in Prop :
        proxy[o].cache[q] # NoStamp => proxy[o].cache[q].gen = proxy[o].gen

(* The answer to a reattach brings nothing older than what the proxy it is *)
(* for shows, or will have been told when the answer comes.                *)
Tells(m, a, q) == m.type = "property" /\ m.gen = a.gen /\ m.prop = q
NotNewer(r, a, k) ==
    /\ r.gen # a.gen => r.gen[2] < a.gen[2]
    /\ \A q \in DOMAIN a.values :
          /\ r.cache[q].gen = a.gen => r.cache[q].rev <= a.values[q]
          /\ \A j \in DOMAIN toClient :
                j < k /\ Tells(toClient[j], a, q) => toClient[j].rev <= a.values[q]
          /\ \A j \in DOMAIN notificationQueue :
                Tells(notificationQueue[j], a, q) => notificationQueue[j].rev <= a.values[q]
Supersedes ==
    \A k \in DOMAIN toClient :
        toClient[k].type = "reattached" => NotNewer(proxy[reattaching], toClient[k], k)

Superseding == Latest /\ OfOneGeneration /\ Supersedes

(* The two invariants together, while snapshots come with their replies.   *)
NInv == IInv /\ (late = {} => Superseding)
=============================================================================
