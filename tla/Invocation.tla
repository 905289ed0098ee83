----------------------------- MODULE Invocation -----------------------------
(***************************************************************************)
(* Calls of remote functions over one connection, plain and streamed: the  *)
(* AsyncStreamReply of the client and its consumer, the decoding of the    *)
(* chunks, the delay and refusal of the call by the resource managers, and *)
(* the ServerInvocationContext that drives the iterator the function       *)
(* returned.  The connection may break once; ConnectionLifecycle has the   *)
(* reconnect.                                                              *)
(*                                                                         *)
(* Abstractions.  The k-th item of an iterator is k.  An iterator is an    *)
(* async generator or a synchronous one: the calls of next() and return()  *)
(* on it finish in the order they were made, and return() does not throw.  *)
(* The managers admit controls.  Resources, indexes and arguments are      *)
(* valid.                                                                  *)
(***************************************************************************)
EXTENDS Naturals, SequencesExt

CONSTANTS
    MaxCall,        \* bound: calls made
    MaxItem,        \* bound: items of an iterator
    MaxControl      \* bound: control requests of the application not answered

ASSUME InvocationAssumption ==
    MaxCall \in Nat \ {0} /\ MaxItem \in Nat \ {0} /\ MaxControl \in Nat

VARIABLES
    connected,
    calls,          \* client: calls made
    stream,         \* client: the reply object of each call, and its consumer
    requests,       \* client: requests without their final reply
    jobs,           \* client: the chunk decode queue of each call
    toServer, toClient,
    execution,      \* server: each call
    pulling,        \* server: next() and return() pending on each iterator
    invocations,    \* server: the streamed calls registered
    handling        \* server: handlers of controls awaiting their managers

client == <<calls, stream, requests, jobs>>
server == <<execution, pulling, invocations, handling>>
vars == <<connected, client, server, toServer, toClient>>

-----------------------------------------------------------------------------
Call == 1 .. MaxCall
Mode == {"None", "Push", "Pull"}
Control == {"pull", "next", "terminate", "halt", "resume"}

(* Bound: the requests of consumers and application outstanding together.  *)
ControlId == (MaxCall + 1) .. (3 * MaxCall + MaxControl)
Request == [id : Call, op : {"invoke"}, call : Call]
             \cup [id : ControlId, op : Control, call : Call]
Reply == [reply : {"Stream", "Completed", "Error"}, id : Call \cup ControlId]
           \cup [reply : {"Chunk"}, id : Call, value : 1 .. MaxItem]

Stream == [mode : Mode, pausable : BOOLEAN,
           started : BOOLEAN, completed : BOOLEAN, error : BOOLEAN, terminated : BOOLEAN,
           settled : {"no", "value", "error"}, items : Seq(1 .. MaxItem),
           iter : {"idle", "starting", "waiting", "woken", "done", "thrown", "left"},
           consumed : Seq(1 .. MaxItem)]
NewStream(m, p) ==
    [mode |-> m, pausable |-> p,
     started |-> FALSE, completed |-> FALSE, error |-> FALSE, terminated |-> FALSE,
     settled |-> "no", items |-> <<>>, iter |-> "idle", consumed |-> <<>>]
Uncalled == NewStream("None", FALSE)

(* produced: items taken from the iterator.                                *)
Execution == [state : {"none", "refused", "delayed", "admitted", "running", "streaming",
                        "over"},
              ended : BOOLEAN, halted : BOOLEAN,
              produced : 0 .. MaxItem]
NotExecuted == [state |-> "none", ended |-> FALSE, halted |-> FALSE,
                produced |-> 0]

Pump == 0
Completion == 0
Waiter == [id : {Pump} \cup ControlId, at : {"halt", "next", "return"}]

Init ==
    /\ connected = TRUE
    /\ calls = 0
    /\ stream = [c \in Call |-> Uncalled]
    /\ requests = {}
    /\ jobs = [c \in Call |-> <<>>]
    /\ toServer = <<>> /\ toClient = <<>>
    /\ execution = [c \in Call |-> NotExecuted]
    /\ pulling = [c \in Call |-> <<>>]
    /\ invocations = {}
    /\ handling = <<>>

-----------------------------------------------------------------------------
(* Client.                                                                 *)

(* AsyncStreamReply on the events of the connection, AsyncReply for a call *)
(* without a stream.  A consumer that waits is woken by an item or the end.*)
Woken(s) == IF s.iter = "waiting" THEN [s EXCEPT !.iter = "woken"] ELSE s

StreamStarted(s) == IF s.completed \/ s.error THEN s ELSE [s EXCEPT !.started = TRUE]

ReceiveItem(s, v) ==
    IF s.completed \/ s.error THEN s ELSE Woken([s EXCEPT !.items = Append(@, v)])

(* Mutant: a consumer that waits is not woken by the end of the stream.    *)
StreamCompleted_Unwoken(s) ==
    IF s.mode = "None" \/ s.completed THEN s ELSE [s EXCEPT !.completed = TRUE]

StreamCompleted(s) ==
    IF s.mode = "None" \/ s.completed THEN s ELSE Woken([s EXCEPT !.completed = TRUE])

Triggered(s) == IF s.settled = "no" THEN [s EXCEPT !.settled = "value"] ELSE s

Failed(s) ==
    CASE s.mode = "None" -> [s EXCEPT !.settled = IF @ = "no" THEN "error" ELSE @]
      [] s.mode # "None" /\ s.completed -> s
      [] OTHER           -> Woken([s EXCEPT !.completed = TRUE, !.error = TRUE,
                                            !.settled = IF @ = "no" THEN "error" ELSE @])

Unused == {i \in ControlId : \A r \in requests : r.id # i}
Outstanding(ops) == {r \in requests : r.op \in ops}
Least(ids) == CHOOSE i \in ids : \A j \in ids : i <= j

(* invoke, invokeStream and staticCall of a connected client.              *)
Invoke ==
    /\ connected /\ calls < MaxCall
    /\ \E m \in Mode, p \in BOOLEAN :
          /\ m = "None" => ~p
          /\ stream' = [stream EXCEPT ![calls + 1] = NewStream(m, p)]
    /\ calls' = calls + 1
    /\ LET r == [id |-> calls + 1, op |-> "invoke", call |-> calls + 1]
       IN  requests' = requests \cup {r} /\ toServer' = Append(toServer, r)
    /\ UNCHANGED <<connected, jobs, toClient, server>>

(* sendRequest of a control, s being the stream as the caller left it.     *)
(* Without a connection it fails at once, and the stream with it.          *)
Ask(op, c, s) ==
    /\ connected => Unused # {}
    /\ IF connected
       THEN LET r == [id |-> Least(Unused), op |-> op, call |-> c]
            IN  /\ requests' = requests \cup {r}
                /\ toServer' = Append(toServer, r)
                /\ stream' = [stream EXCEPT ![c] = s]
       ELSE /\ stream' = [stream EXCEPT ![c] = IF op = "pull" THEN s ELSE Failed(s)]
            /\ UNCHANGED <<requests, toServer>>
    /\ UNCHANGED <<connected, calls, jobs, toClient, server>>

Streaming(c) == c <= calls /\ stream[c].mode # "None"
MayControl == Cardinality(Outstanding(Control \ {"next"})) < MaxControl

Terminated(s) == Woken([s EXCEPT !.terminated = TRUE, !.completed = TRUE])

(* The application's own controls.                                         *)
Pull(c) ==
    /\ Streaming(c) /\ MayControl
    /\ stream[c].mode = "Pull" /\ ~stream[c].completed
    /\ Ask("pull", c, stream[c])

Terminate(c) ==
    /\ Streaming(c) /\ MayControl
    /\ ~stream[c].completed
    /\ Ask("terminate", c, Terminated(stream[c]))

Halt(c) == Streaming(c) /\ MayControl /\ ~stream[c].completed /\ Ask("halt", c, stream[c])
Resume(c) == Streaming(c) /\ MayControl /\ ~stream[c].completed /\ Ask("resume", c, stream[c])

(* The consumer asks for an item,                                          *)
MoveNext(c) ==
    /\ Streaming(c) /\ stream[c].iter = "idle"
    /\ stream' = [stream EXCEPT ![c].iter = "starting"]
    /\ UNCHANGED <<connected, calls, requests, jobs, toServer, toClient, server>>

(* and gets it, or the end, or the error, or waits for one of them.        *)
Advance(c) ==
    LET s == stream[c]
        To(t) == /\ stream' = [stream EXCEPT ![c] = t]
                 /\ UNCHANGED <<connected, calls, requests, jobs, toServer, toClient, server>>
    IN  /\ \/ s.iter = "woken"
           \/ s.iter = "starting" /\ (s.started \/ s.completed)
        /\ \/ s.error /\ To([s EXCEPT !.iter = "thrown"])
           \/ /\ ~s.error /\ s.items # <<>>
              /\ To([s EXCEPT !.iter = "idle", !.items = Tail(@),
                              !.consumed = Append(@, Head(s.items))])
           \/ ~s.error /\ s.items = <<>> /\ s.completed /\ To([s EXCEPT !.iter = "done"])
           \/ /\ ~s.completed /\ s.items = <<>>
              /\ IF s.mode = "Pull"
                 THEN Ask("next", c, [s EXCEPT !.iter = "waiting"])
                 ELSE To([s EXCEPT !.iter = "waiting"])

(* The consumer leaves its loop: the iterator's return().                  *)
Leave(c) ==
    /\ Streaming(c) /\ stream[c].iter = "idle"
    /\ ~stream[c].completed => MayControl
    /\ LET s == [stream[c] EXCEPT !.iter = "left"]
       IN  IF s.completed
           THEN /\ stream' = [stream EXCEPT ![c] = s]
                /\ UNCHANGED <<connected, calls, requests, jobs, toServer, toClient, server>>
           ELSE Ask("terminate", c, Terminated(s))

-----------------------------------------------------------------------------
(* Mutant: a chunk whose values are at hand is not queued.                 *)
ReplyChunk_Unordered(c, v) == jobs' = [jobs EXCEPT ![c] = <<v>> \o @]

(* The replies of the server.  A chunk is decoded after those before it,   *)
(* the completion of a call follows its chunks, an error does not.         *)
ReplyChunk(c, v) == jobs' = [jobs EXCEPT ![c] = Append(@, v)]

ReplyCompleted(c) == jobs' = [jobs EXCEPT ![c] = Append(@, Completion)]

(* Failing a control fails its stream, but for the application's pull().   *)
ReplyError(r) ==
    IF r.op = "pull" THEN UNCHANGED <<stream, jobs>>
    ELSE /\ stream' = [stream EXCEPT ![r.call] = Failed(@)]
         /\ jobs' = IF r.op = "invoke" THEN [jobs EXCEPT ![r.call] = <<>>] ELSE jobs

DispatchReply ==
    /\ toClient # <<>>
    /\ toClient' = Tail(toClient)
    /\ UNCHANGED <<connected, calls, toServer, server>>
    /\ LET m == Head(toClient)
           known == {r \in requests : r.id = m.id}
       IN  \/ known = {} /\ UNCHANGED <<stream, requests, jobs>>
           \/ \E r \in known :
                 \/ /\ m.reply = "Stream"
                    /\ stream' = [stream EXCEPT ![r.call] = StreamStarted(@)]
                    /\ UNCHANGED <<requests, jobs>>
                 \/ /\ m.reply = "Chunk"
                    /\ ReplyChunk(r.call, m.value)
                    /\ UNCHANGED <<stream, requests>>
                 \/ /\ m.reply = "Completed"
                    /\ requests' = requests \ {r}
                    /\ IF r.op = "invoke" THEN ReplyCompleted(r.call) ELSE UNCHANGED jobs
                    /\ UNCHANGED stream
                 \/ /\ m.reply = "Error"
                    /\ requests' = requests \ {r}
                    /\ ReplyError(r)

(* Decoding may have to fetch a resource the value refers to, and fail.    *)
Decode(c) ==
    /\ jobs[c] # <<>>
    /\ jobs' = [jobs EXCEPT ![c] = Tail(@)]
    /\ LET j == Head(jobs[c])
       IN  \/ /\ j = Completion
              /\ stream' = [stream EXCEPT ![c] = Triggered(StreamCompleted(@))]
           \/ /\ j # Completion
              /\ stream' = [stream EXCEPT ![c] = ReceiveItem(@, j)]
           \/ /\ j # Completion \/ stream[c].mode = "None"
              /\ stream' = [stream EXCEPT ![c] = Failed(@)]
    /\ UNCHANGED <<connected, calls, requests, toServer, toClient, server>>

-----------------------------------------------------------------------------
(* Server.  What is sent after the connection closed is lost.              *)
Started(c) == [reply |-> "Stream", id |-> c]
Completed(id) == [reply |-> "Completed", id |-> id]
Error(id) == [reply |-> "Error", id |-> id]
Chunk(c, v) == [reply |-> "Chunk", id |-> c, value |-> v]

Send(ms) == toClient' = IF connected THEN toClient \o ms ELSE toClient

(* The answers of a handler to the call and to its own request, if any.    *)
Both(c, w, answer(_)) == IF w.id = Pump THEN <<answer(c)>> ELSE <<answer(c), answer(w.id)>>

Receive(r) ==
    /\ toServer # <<>> /\ r = Head(toServer)
    /\ toServer' = Tail(toServer)

(* tryApplyManagers of a call: refused, delayed or admitted.               *)
ReceiveCall(r) ==
    /\ Receive(r) /\ r.op = "invoke"
    /\ \E ruling \in {"refused", "delayed", "admitted"} :
          /\ execution' = [execution EXCEPT ![r.call].state = ruling]
          /\ Send(IF ruling = "refused" THEN <<Error(r.id)>> ELSE <<>>)
    /\ UNCHANGED <<connected, client, pulling, invocations, handling>>

DelayEnds(c) ==
    /\ execution[c].state = "delayed"
    /\ execution' = [execution EXCEPT ![c].state = "admitted"]
    /\ UNCHANGED <<connected, client, toServer, toClient, pulling, invocations, handling>>

(* pullAsync, up to its waitWhileHalted: that takes a turn in any case.    *)
Waiting(id) == [id |-> id, at |-> "halt"]

(* epRequestInvokeFunction and epRequestStaticCall after admission, and    *)
(* replyWithFunctionResult: the function throws, returns or begins a       *)
(* stream, unless its result cannot be iterated.                           *)
Execute(c) ==
    /\ execution[c].state = "admitted"
    /\ \/ /\ execution' = [execution EXCEPT ![c].state = "over"]
          /\ Send(<<Error(c)>>)
          /\ UNCHANGED <<pulling, invocations>>
       \/ /\ stream[c].mode = "None"
          /\ execution' = [execution EXCEPT ![c].state = "running"]
          /\ UNCHANGED <<toClient, pulling, invocations>>
       \/ /\ stream[c].mode # "None"
          /\ execution' = [execution EXCEPT ![c].state = "streaming"]
          /\ invocations' = invocations \cup {c}
          /\ Send(<<Started(c)>>)
          /\ pulling' = [pulling EXCEPT ![c] =
                            IF stream[c].mode = "Push" THEN <<Waiting(Pump)>>
                            ELSE <<>>]
    /\ UNCHANGED <<connected, client, toServer, handling>>

(* The result of a call without a stream, at once or by a promise.         *)
ResultSettles(c) ==
    /\ execution[c].state = "running"
    /\ execution' = [execution EXCEPT ![c].state = "over"]
    /\ \E m \in {Completed(c), Error(c)} : Send(<<m>>)
    /\ UNCHANGED <<connected, client, toServer, pulling, invocations,
                   handling>>

(* A control is refused when its call has no stream here, else its handler *)
(* awaits the managers.                                                    *)
ReceiveControl(r) ==
    /\ Receive(r) /\ r.op # "invoke"
    /\ IF r.call \notin invocations \/ (r.op \in {"pull", "next"} /\ stream[r.call].mode # "Pull")
       THEN Send(<<Error(r.id)>>) /\ UNCHANGED handling
       ELSE handling' = Append(handling, r) /\ UNCHANGED toClient
    /\ UNCHANGED <<connected, client, execution, pulling, invocations>>

PullStream(r) ==
    IF execution[r.call].ended
    THEN /\ invocations' = invocations \ {r.call}
         /\ Send(Both(r.call, r, Completed))
         /\ UNCHANGED <<execution, pulling>>
    ELSE /\ pulling' = [pulling EXCEPT ![r.call] = Append(@, Waiting(r.id))]
         /\ UNCHANGED <<execution, invocations, toClient>>

(* Mutant: the stream is ended, but stays registered.                      *)
TerminateExecution_Kept(r) ==
    /\ execution' = [execution EXCEPT ![r.call].ended = TRUE]
    /\ Send(Both(r.call, r, Completed))
    /\ UNCHANGED <<pulling, invocations>>

(* Mutant: the request to terminate is not answered.                       *)
TerminateExecution_Unanswered(r) ==
    /\ invocations' = invocations \ {r.call}
    /\ execution' = [execution EXCEPT ![r.call].ended = TRUE]
    /\ Send(<<Completed(r.call)>>)
    /\ UNCHANGED pulling

TerminateExecution(r) ==
    /\ invocations' = invocations \ {r.call}
    /\ IF execution[r.call].ended
       THEN Send(Both(r.call, r, Completed)) /\ UNCHANGED <<execution, pulling>>
       ELSE /\ execution' = [execution EXCEPT ![r.call].ended = TRUE]
            /\ pulling' = [pulling EXCEPT ![r.call] = Append(@, [id |-> r.id, at |-> "return"])]
            /\ UNCHANGED toClient

(* halt() or resume(): refused unless the stream is pausable and in the    *)
(* other state.                                                            *)
Pause(r, halted) ==
    LET e == execution[r.call]
        may == ~e.ended /\ stream[r.call].pausable /\ e.halted # halted
    IN  /\ execution' = [execution EXCEPT ![r.call].halted = IF may THEN halted ELSE @]
        /\ Send(<<IF may THEN Completed(r.id) ELSE Error(r.id)>>)
        /\ UNCHANGED <<pulling, invocations>>

Handle ==
    /\ handling # <<>>
    /\ handling' = Tail(handling)
    /\ LET r == Head(handling)
       IN  \/ r.op \in {"pull", "next"} /\ PullStream(r)
           \/ r.op = "terminate" /\ TerminateExecution(r)
           \/ r.op = "halt" /\ Pause(r, TRUE)
           \/ r.op = "resume" /\ Pause(r, FALSE)
    /\ UNCHANGED <<connected, client, toServer>>

(* waitWhileHalted: a pull calls next() once there is no halt, unless the  *)
(* stream ended meanwhile.  Pulls that wait may overtake one another.      *)
Wake(c) ==
    \E i \in DOMAIN pulling[c] :
        /\ pulling[c][i].at = "halt"
        /\ ~execution[c].halted \/ execution[c].ended
        /\ IF execution[c].ended
           THEN /\ pulling' = [pulling EXCEPT ![c] = RemoveAt(@, i)]
                /\ invocations' = invocations \ {c}
                /\ Send(Both(c, pulling[c][i], Completed))
           ELSE /\ pulling' = [pulling EXCEPT
                       ![c] = Append(RemoveAt(@, i), [@[i] EXCEPT !.at = "next"])]
                /\ UNCHANGED <<invocations, toClient>>
        /\ UNCHANGED <<connected, client, toServer, execution, handling>>

(* The oldest call of next() or return() on the iterator.                  *)
First(c) ==
    LET is == {i \in DOMAIN pulling[c] : pulling[c][i].at # "halt"}
    IN  IF is = {} THEN 0 ELSE Least(is)

(* The iterator yields an item to the pull that asked first; the pump then *)
(* pulls again.                                                            *)
Yield(c) ==
    LET i == First(c)
        w == pulling[c][i]
        v == execution[c].produced + 1
        stops == w.id = Pump /\ execution[c].ended
    IN  /\ i # 0 /\ w.at = "next"
        /\ execution[c].state = "streaming" /\ v <= MaxItem
        /\ execution' = [execution EXCEPT ![c].produced = v]
        /\ pulling' = [pulling EXCEPT ![c] =
                          IF w.id = Pump /\ ~stops THEN [@ EXCEPT ![i] = Waiting(Pump)]
                          ELSE RemoveAt(@, i)]
        /\ Send(<<Chunk(c, v)>> \o (IF stops THEN <<Completed(c)>>
                                    ELSE IF w.id # Pump THEN <<Completed(w.id)>> ELSE <<>>))
        /\ invocations' = IF stops THEN invocations \ {c} ELSE invocations
        /\ UNCHANGED <<connected, client, toServer, handling>>

(* The iterator is done, throws, or has returned.                          *)
IteratorEnds(c) ==
    LET i == First(c)
        w == pulling[c][i]
        first == execution[c].state = "streaming"
    IN  /\ i # 0
        /\ pulling' = [pulling EXCEPT ![c] = RemoveAt(@, i)]
        /\ invocations' = invocations \ {c}
        /\ \/ /\ execution' = [execution EXCEPT ![c].ended = TRUE, ![c].state = "over"]
              /\ Send(Both(c, w, Completed))
           \/ /\ w.at = "next" /\ first
              /\ execution' = [execution EXCEPT ![c].state = "over"]
              /\ Send(Both(c, w, Error))
        /\ UNCHANGED <<connected, client, toServer, handling>>

-----------------------------------------------------------------------------
(* The connection closes on both sides: the client fails its requests, the *)
(* server terminates the streams registered.                               *)
Disconnect ==
    /\ connected
    /\ connected' = FALSE
    /\ toServer' = <<>> /\ toClient' = <<>>
    /\ requests' = {}
    /\ stream' = [c \in Call |->
                     IF \E r \in requests : r.call = c /\ r.op # "pull"
                     THEN Failed(stream[c]) ELSE stream[c]]
    /\ execution' = [c \in Call |->
                        IF c \in invocations THEN [execution[c] EXCEPT !.ended = TRUE]
                        ELSE execution[c]]
    /\ pulling' = [c \in Call |->
                      IF c \in invocations /\ ~execution[c].ended
                      THEN Append(pulling[c], [id |-> Pump, at |-> "return"])
                      ELSE pulling[c]]
    /\ invocations' = {}
    /\ UNCHANGED <<calls, jobs, handling>>

Next ==
    \/ Invoke \/ DispatchReply \/ Handle \/ Disconnect
    \/ \E c \in Call : \/ Pull(c) \/ Terminate(c) \/ Halt(c) \/ Resume(c)
                       \/ MoveNext(c) \/ Advance(c) \/ Leave(c) \/ Decode(c)
                       \/ DelayEnds(c) \/ Execute(c) \/ ResultSettles(c)
                       \/ Wake(c) \/ Yield(c) \/ IteratorEnds(c)
    \/ \E r \in requests : ReceiveCall(r) \/ ReceiveControl(r)

Spec == Init /\ [][Next]_vars

(* The event loops run, the network delivers, decoding and the functions   *)
(* called finish.  The application need do nothing.                        *)
FairSpec ==
    /\ Spec
    /\ WF_vars(DispatchReply) /\ WF_vars(Handle)
    /\ WF_vars(\E r \in requests : ReceiveCall(r) \/ ReceiveControl(r))
    /\ \A c \in Call : /\ WF_vars(Advance(c)) /\ WF_vars(Decode(c))
                       /\ WF_vars(DelayEnds(c)) /\ WF_vars(Execute(c) \/ ResultSettles(c))
                       /\ WF_vars(Wake(c)) /\ WF_vars(Yield(c) \/ IteratorEnds(c))

-----------------------------------------------------------------------------
(* The tables and queues hold what the code puts there.                    *)
TypeOK ==
    /\ connected \in BOOLEAN /\ calls \in 0 .. MaxCall
    /\ stream \in [Call -> Stream]
    /\ requests \subseteq Request
    /\ jobs \in [Call -> Seq(0 .. MaxItem)]
    /\ toServer \in Seq(Request) /\ toClient \in Seq(Reply)
    /\ execution \in [Call -> Execution]
    /\ pulling \in [Call -> Seq(Waiter)]
    /\ invocations \subseteq Call /\ handling \in Seq(Request)

(* The items on their way to the consumer of a call, oldest first, with a  *)
(* Completion in the place of every other message.                         *)
Arriving(c) ==
    stream[c].items \o jobs[c]
        \o [i \in DOMAIN toClient |->
               IF toClient[i].reply = "Chunk" /\ toClient[i].id = c THEN toClient[i].value
               ELSE Completion]

FirstItems(n) == [i \in 1 .. n |-> i]

(* Its items are from + 1, from + 2 and so on, up to to.                   *)
Continues(line, from, to) ==
    /\ {line[i] : i \in DOMAIN line} \ {Completion} = (from + 1) .. to
    /\ \A i, j \in DOMAIN line :
          i < j /\ Completion \notin {line[i], line[j]} => line[i] < line[j]

(* A consumer gets the items of the iterator in order, none twice and none *)
(* missing; while the call is neither ended nor failed those it has not    *)
(* got are on their way, and a loop that ends without being left has seen  *)
(* all of them (the chunk queues of replyChunk and replyCompleted).        *)
Delivery ==
    \A c \in Call :
        LET s == stream[c]
        IN  /\ s.consumed = FirstItems(Len(s.consumed))
            /\ connected /\ ~s.completed =>
                  /\ Len(s.consumed) <= execution[c].produced
                  /\ Continues(Arriving(c), Len(s.consumed), execution[c].produced)
            /\ s.iter = "done" /\ ~s.terminated => Len(s.consumed) = execution[c].produced

(* While the connection is up the answer to a request the client keeps is  *)
(* owed by somebody: a handler, the iterator's next step, or a consumer    *)
(* that has yet to pull.                                                   *)
Owed(r) ==
    LET c == r.call
        e == execution[c]
    IN  \/ \E i \in DOMAIN toServer : toServer[i] = r
        \/ \E i \in DOMAIN toClient :
              toClient[i].id = r.id /\ toClient[i].reply \in {"Completed", "Error"}
        \/ r.op # "invoke" /\ \E i \in DOMAIN handling : handling[i] = r
        \/ r.op # "invoke" /\ \E i \in DOMAIN pulling[c] : pulling[c][i].id = r.id
        \/ r.op = "invoke" /\ e.state \in {"delayed", "admitted", "running"}
        \/ r.op = "invoke" /\ c \in invocations
        \/ r.op = "invoke" /\ \E i \in DOMAIN pulling[c] : pulling[c][i].at = "return"
RequestsAreOwed == connected => \A r \in requests : Owed(r)

(* No request, reply or handler of the call is under way.                  *)
Quiet(c) ==
    /\ \A i \in DOMAIN toServer : toServer[i].call # c
    /\ \A i \in DOMAIN handling : handling[i].call # c
    /\ execution[c].state \notin {"delayed", "admitted"}
    /\ pulling[c] = <<>>

(* Only streams that can still yield are registered; terminate() of one    *)
(* that has started leaves nothing of it on the server, nor does a break   *)
(* of the connection (ServerInvocationContext, disconnected).              *)
TerminatedIsReleased ==
    \A c \in Call :
        /\ c \in invocations => execution[c].state = "streaming"
        /\ Quiet(c) /\ stream[c].started /\ (stream[c].terminated \/ ~connected)
              => c \notin invocations /\ execution[c].state # "streaming"

(* A call without a stream settles; the next() of a consumer returns or    *)
(* throws, unless the stream is halted.                                    *)
CallsSettle ==
    \A c \in Call :
        /\ c <= calls /\ stream[c].mode = "None" ~> stream[c].settled # "no"
        /\ stream[c].iter \in {"starting", "waiting", "woken"}
             ~> stream[c].iter \notin {"starting", "waiting", "woken"} \/ execution[c].halted
=============================================================================
