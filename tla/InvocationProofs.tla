-------------------------- MODULE InvocationProofs --------------------------
(***************************************************************************)
(* Proofs about module Invocation.                                         *)
(***************************************************************************)
EXTENDS Invocation, FiniteSetTheorems, SequenceTheorems, TLAPS

ControlsAreHandled == \A i \in DOMAIN handling : handling[i].op # "invoke"

Typed == TypeOK /\ ControlsAreHandled

(* A request is of a call made, with an id of its own, and terminates a    *)
(* stream the client has given up; what is not called yet is untouched; a  *)
(* closed connection holds nothing.                                        *)
Asked(r) ==
    /\ r.call <= calls
    /\ r.op = "invoke" => r.id = r.call
    /\ r.op = "terminate" => stream[r.call].terminated

RequestsAreAsked ==
    /\ \A r \in requests : Asked(r)
    /\ \A i \in DOMAIN toServer : Asked(toServer[i])
    /\ \A i \in DOMAIN handling : Asked(handling[i])
    /\ \A r, q \in requests : r.id = q.id => r = q

Unasked ==
    \A c \in Call : c > calls => stream[c] = Uncalled /\ jobs[c] = <<>>

ClosedIsEmpty ==
    ~connected => toServer = <<>> /\ toClient = <<>> /\ requests = {}

Asking == Typed /\ RequestsAreAsked /\ Unasked /\ ClosedIsEmpty

(* A call is received once.  What is asked of a stream, yielded or said to *)
(* have started has begun, and streams are of calls with a mode.           *)
Begun(c) == execution[c].state \in {"streaming", "over"}

InvokesWait ==
    /\ \A i \in DOMAIN toServer : toServer[i].op = "invoke" =>
          /\ execution[toServer[i].call].state = "none"
          /\ \A j \in DOMAIN toServer :
                toServer[j].op = "invoke" /\ toServer[j].call = toServer[i].call => j = i
    /\ \A c \in Call : c > calls => execution[c].state = "none"

WorkIsBegun ==
    /\ \A i \in DOMAIN handling : Begun(handling[i].call)
    /\ \A i \in DOMAIN toClient : toClient[i].reply = "Stream" =>
          toClient[i].id \in Call /\ Begun(toClient[i].id)
    /\ \A c \in Call : pulling[c] # <<>> \/ stream[c].started => Begun(c)

StreamsHaveMode ==
    \A c \in Call :
        /\ c \in invocations => execution[c].state = "streaming"
        /\ stream[c].mode = "None" =>
              execution[c].state # "streaming" /\ execution[c].produced = 0

Staged == Asking /\ InvokesWait /\ WorkIsBegun /\ StreamsHaveMode
-----------------------------------------------------------------------------
(* Facts about the constants, sequences and records.                       *)

LEMMA Ids ==
  /\ Call \subseteq Nat /\ ControlId \subseteq Nat /\ Call \cap ControlId = {}
  /\ Pump = 0 /\ Pump \notin Call \cup ControlId /\ Completion = 0
  /\ \A i \in 1 .. MaxItem : i \in Nat /\ i # Completion
  /\ MaxCall \in Nat /\ MaxItem \in Nat
  BY InvocationAssumption DEF Call, ControlId, Pump, Completion

LEMMA Requests ==
  ASSUME NEW r \in Request
  PROVE  /\ r.call \in Call /\ r.id \in Call \cup ControlId /\ r.op \in {"invoke"} \cup Control
         /\ r.op = "invoke" => r.id \in Call
         /\ r.op # "invoke" => r.id \in ControlId /\ r.op \in Control
  BY DEF Request, Control

LEMMA LeastIs ==
  ASSUME NEW ids \in SUBSET Nat, ids # {}
  PROVE  Least(ids) \in ids
  <1>1. PICK k \in ids : TRUE
    OBVIOUS
  <1> DEFINE Below(i) == {j \in 0 .. k : j <= i /\ j \in ids}
             T == {Below(i) : i \in ids \cap (0 .. k)}
  <1>2. /\ T \subseteq FiniteSubsetsOf(0 .. k) /\ T # {}
    <2>1. IsFiniteSet(0 .. k)
      BY <1>1, FS_Interval
    <2>2. FiniteSubsetsOf(0 .. k) = SUBSET (0 .. k)
      BY <2>1, FS_FiniteSubsetsOfFinite
    <2>3. k \in ids \cap (0 .. k)
      BY <1>1
    <2>4. T \subseteq SUBSET (0 .. k)
      OBVIOUS
    <2>5. Below(k) \in T
      BY <2>3
    <2> QED BY <2>2, <2>4, <2>5
  <1>3. IsWellFoundedOn(StrictSubsetOrdering(0 .. k), FiniteSubsetsOf(0 .. k))
    BY FS_StrictSubsetOrderingWellFounded
  <1>4. PICK B \in T : \A A \in T : <<A, B>> \notin StrictSubsetOrdering(0 .. k)
    <2> HIDE DEF T
    <2> QED BY <1>2, <1>3, WFMin
  <1>5. PICK i \in ids \cap (0 .. k) : B = Below(i)
    OBVIOUS
  <1>6. ASSUME NEW j \in ids, j < i
        PROVE  FALSE
    <2>1. j \in ids \cap (0 .. k)
      BY <1>1, <1>5, <1>6
    <2>2. Below(j) \in T
      BY <2>1
    <2>3. Below(j) \subseteq Below(i) /\ Below(j) # Below(i)
      <3>1. i \in Below(i) /\ i \notin Below(j)
        BY <1>5, <1>6, <2>1
      <3>2. \A x \in Below(j) : x \in Below(i)
        BY <1>5, <1>6, <2>1
      <3> QED BY <3>1, <3>2
    <2>4. <<Below(j), Below(i)>> \in StrictSubsetOrdering(0 .. k)
      BY <2>3 DEF StrictSubsetOrdering
    <2> QED BY <1>4, <1>5, <2>2, <2>4
  <1>7. \A j \in ids : i <= j
    BY <1>5, <1>6
  <1> QED BY <1>5, <1>7 DEF Least

LEMMA TailOf ==
  ASSUME NEW S, NEW q \in Seq(S), q # <<>>
  PROVE  /\ Tail(q) \in Seq(S) /\ Head(q) \in S /\ Head(q) = q[1] /\ 1 \in DOMAIN q
         /\ Len(Tail(q)) = Len(q) - 1
         /\ \A i \in DOMAIN Tail(q) : i \in Nat /\ i + 1 \in DOMAIN q /\ Tail(q)[i] = q[i + 1]
         /\ \A i \in DOMAIN q : i # 1 => i - 1 \in DOMAIN Tail(q) /\ Tail(q)[i - 1] = q[i]
  OBVIOUS

LEMMA AppendOf ==
  ASSUME NEW S, NEW q \in Seq(S), NEW e \in S
  PROVE  /\ Append(q, e) \in Seq(S) /\ Len(Append(q, e)) = Len(q) + 1
         /\ DOMAIN Append(q, e) = DOMAIN q \cup {Len(q) + 1} /\ Len(q) + 1 \notin DOMAIN q
         /\ Append(q, e)[Len(q) + 1] = e
         /\ \A i \in DOMAIN q : Append(q, e)[i] = q[i]
  OBVIOUS

LEMMA ConcatOf ==
  ASSUME NEW S, NEW q \in Seq(S), NEW p \in Seq(S)
  PROVE  /\ q \o p \in Seq(S) /\ Len(q \o p) = Len(q) + Len(p)
         /\ \A i \in DOMAIN q : i \in DOMAIN (q \o p) /\ (q \o p)[i] = q[i]
         /\ \A i \in DOMAIN p : Len(q) + i \in DOMAIN (q \o p) /\ (q \o p)[Len(q) + i] = p[i]
         /\ \A i \in DOMAIN (q \o p) :
               i \in DOMAIN q \/ (i > Len(q) /\ i - Len(q) \in DOMAIN p)
  OBVIOUS

(* What is left of a sequence from which an element is removed.            *)
LEMMA RemoveAtOf ==
  ASSUME NEW S, NEW q \in Seq(S), NEW i \in DOMAIN q
  PROVE  /\ RemoveAt(q, i) \in Seq(S)
         /\ \A j \in DOMAIN q : j # i => \E k \in DOMAIN RemoveAt(q, i) : RemoveAt(q, i)[k] = q[j]
         /\ \A k \in DOMAIN RemoveAt(q, i) : \E j \in DOMAIN q : RemoveAt(q, i)[k] = q[j]
  <1>1. Len(q) \in Nat /\ DOMAIN q = 1 .. Len(q)
    OBVIOUS
  <1>2. PICK a \in Seq(S) : /\ a = SubSeq(q, 1, i - 1) /\ Len(a) = i - 1
                            /\ \A j \in 1 .. i - 1 : a[j] = q[j]
    <2>1. /\ i \in Int /\ i - 1 \in Int /\ 1 \in Int /\ 1 <= i - 1 + 1 /\ i - 1 <= Len(q)
          /\ i - 1 - 1 + 1 = i - 1
          /\ \A j \in 1 .. i - 1 : j \in 1 .. Len(q) /\ 1 + j - 1 = j
      BY <1>1
    <2>2. SubSeq(q, 1, i - 1) \in Seq(S)
      BY <1>1
    <2>3. Len(SubSeq(q, 1, i - 1)) = i - 1
      BY <1>1
    <2>4. \A j \in 1 .. i - 1 : SubSeq(q, 1, i - 1)[j] = q[j]
      BY <1>1, <2>1
    <2> QED BY <2>2, <2>3, <2>4
  <1>3. PICK b \in Seq(S) : /\ b = SubSeq(q, i + 1, Len(q)) /\ Len(b) = Len(q) - i
                            /\ \A j \in 1 .. Len(q) - i : b[j] = q[j + i]
    <2>1. SubSeq(q, i + 1, Len(q)) \in Seq(S)
      BY <1>1
    <2>2. Len(SubSeq(q, i + 1, Len(q))) = Len(q) - i
      BY <1>1
    <2>3. \A j \in 1 .. Len(q) - i : SubSeq(q, i + 1, Len(q))[j] = q[j + i]
      BY <1>1
    <2> QED BY <2>1, <2>2, <2>3
  <1>4. RemoveAt(q, i) = a \o b
    BY <1>2, <1>3 DEF RemoveAt
  <1>5. a \o b \in Seq(S)
    BY ConcatOf
  <1>6. ASSUME NEW j \in DOMAIN q, j # i
        PROVE  \E k \in DOMAIN (a \o b) : (a \o b)[k] = q[j]
    <2>1. CASE j < i
      <3>1. j \in DOMAIN a /\ a[j] = q[j]
        BY <1>1, <1>2, <2>1
      <3> QED BY <3>1, ConcatOf
    <2>2. CASE j > i
      <3>1. PICK l \in 1 .. Len(q) - i : l + i = j
        <4>1. j - i \in 1 .. Len(q) - i /\ (j - i) + i = j
          BY <1>1, <2>2
        <4> QED BY <4>1
      <3>2. l \in DOMAIN b /\ b[l] = q[j]
        BY <1>3, <3>1
      <3>3. Len(a) + l \in DOMAIN (a \o b) /\ (a \o b)[Len(a) + l] = b[l]
        BY SMTT(30), <3>2, ConcatOf
      <3> QED BY <3>2, <3>3
    <2> QED BY <1>1, <1>6, <2>1, <2>2
  <1>7. ASSUME NEW k \in DOMAIN (a \o b)
        PROVE  \E j \in DOMAIN q : (a \o b)[k] = q[j]
    <2>1. CASE k \in DOMAIN a
      <3>1. k \in DOMAIN q /\ a[k] = q[k] /\ (a \o b)[k] = a[k]
        BY <1>1, <1>2, <2>1
      <3> QED BY <3>1
    <2>2. CASE k \notin DOMAIN a
      <3>1. k - (i - 1) \in DOMAIN b /\ (a \o b)[k] = b[k - (i - 1)]
        BY <1>1, <1>2, <2>2
      <3>2. PICK l \in 1 .. Len(q) - i : l = k - (i - 1)
        BY <1>3, <3>1
      <3>3. l + i \in DOMAIN q
        BY <1>1, <3>2
      <3>4. b[l] = q[l + i]
        BY <1>3, <3>2
      <3> QED BY <3>1, <3>2, <3>3, <3>4
    <2> QED BY <2>1, <2>2
  <1> QED BY <1>4, <1>5, <1>6, <1>7

LEMMA StreamStates ==
  ASSUME NEW s \in Stream
  PROVE  /\ Failed(s) \in Stream /\ Woken(s) \in Stream /\ StreamStarted(s) \in Stream
         /\ StreamCompleted(s) \in Stream /\ Triggered(s) \in Stream /\ Terminated(s) \in Stream
         /\ \A v \in 1 .. MaxItem : ReceiveItem(s, v) \in Stream
         /\ \A it \in {"idle", "starting", "waiting", "woken", "done", "thrown", "left"} :
               [s EXCEPT !.iter = it] \in Stream
         /\ s.items # <<>> => [s EXCEPT !.iter = "idle", !.items = Tail(@),
                                        !.consumed = Append(@, Head(s.items))] \in Stream
  <1>1. \A v \in 1 .. MaxItem : Append(s.items, v) \in Seq(1 .. MaxItem)
    BY DEF Stream
  <1>2. s.items # <<>> => /\ Tail(s.items) \in Seq(1 .. MaxItem)
                          /\ Append(s.consumed, Head(s.items)) \in Seq(1 .. MaxItem)
    <2>1. s.items \in Seq(1 .. MaxItem) /\ s.consumed \in Seq(1 .. MaxItem)
      BY DEF Stream
    <2>2. PICK q \in Seq(1 .. MaxItem) : q = s.items
      BY <2>1
    <2>3. q # <<>> => Tail(q) \in Seq(1 .. MaxItem) /\ Head(q) \in 1 .. MaxItem
      BY TailOf
    <2> QED BY <2>1, <2>2, <2>3
  <1>3. /\ Failed(s) \in Stream /\ Woken(s) \in Stream /\ StreamStarted(s) \in Stream
        /\ StreamCompleted(s) \in Stream /\ Triggered(s) \in Stream /\ Terminated(s) \in Stream
    <2>1. \A x \in Stream : Woken(x) \in Stream
      <3>1. \A x \in Stream : [x EXCEPT !.iter = "woken"] \in Stream
        BY DEF Stream
      <3> QED BY <3>1 DEF Woken
    <2>2. [s EXCEPT !.terminated = TRUE, !.completed = TRUE] \in Stream
      BY DEF Stream
    <2>3. StreamStarted(s) \in Stream /\ Triggered(s) \in Stream
      BY DEF Stream, StreamStarted, Triggered
    <2>4. [s EXCEPT !.completed = TRUE] \in Stream
      BY DEF Stream
    <2>5. /\ [s EXCEPT !.settled = IF @ = "no" THEN "error" ELSE @] \in Stream
          /\ [s EXCEPT !.completed = TRUE, !.error = TRUE,
                       !.settled = IF @ = "no" THEN "error" ELSE @] \in Stream
      BY DEF Stream
    <2> QED BY <2>1, <2>2, <2>3, <2>4, <2>5 DEF Terminated, StreamCompleted, Failed
  <1>4. \A v \in 1 .. MaxItem : ReceiveItem(s, v) \in Stream
    BY <1>1 DEF Stream, ReceiveItem, Woken
  <1>5. s.items # <<>> => [s EXCEPT !.iter = "idle", !.items = Tail(@),
                                    !.consumed = Append(@, Head(s.items))] \in Stream
    BY <1>2 DEF Stream
  <1>6. \A it \in {"idle", "starting", "waiting", "woken", "done", "thrown", "left"} :
           [s EXCEPT !.iter = it] \in Stream
    BY DEF Stream
  <1> QED BY <1>3, <1>4, <1>5, <1>6

LEMMA NewStreams ==
  /\ Uncalled \in Stream
  /\ \A m \in Mode, p \in BOOLEAN : NewStream(m, p) \in Stream
  BY DEF Uncalled, NewStream, Stream, Mode

LEMMA ExecutionStates ==
  ASSUME NEW e \in Execution
  PROVE  /\ \A st \in {"none", "refused", "delayed", "admitted", "running", "streaming", "over"} :
               /\ [e EXCEPT !.state = st] \in Execution
               /\ [e EXCEPT !.ended = TRUE, !.state = st] \in Execution
         /\ [e EXCEPT !.ended = TRUE] \in Execution
         /\ \A h \in BOOLEAN : [e EXCEPT !.halted = h] \in Execution
         /\ \A n \in 0 .. MaxItem : [e EXCEPT !.produced = n] \in Execution
  BY DEF Execution

LEMMA Messages ==
  /\ \A id \in Call \cup ControlId : Completed(id) \in Reply /\ Error(id) \in Reply
  /\ \A c \in Call : Started(c) \in Reply /\ \A v \in 1 .. MaxItem : Chunk(c, v) \in Reply
  BY DEF Completed, Error, Started, Chunk, Reply

(* What a handler sends.                                                   *)
LEMMA Sends ==
  ASSUME TypeOK, NEW ms \in Seq(Reply), Send(ms)
  PROVE  toClient' \in Seq(Reply)
  BY ConcatOf DEF TypeOK, Send
-----------------------------------------------------------------------------
(* Types.                                                                  *)

LEMMA InitTyped == Init => Typed
  <1> SUFFICES ASSUME Init
               PROVE  Typed
    OBVIOUS
  <1>1. NotExecuted \in Execution
    BY InvocationAssumption DEF NotExecuted, Execution
  <1>2. TypeOK
    BY <1>1, NewStreams, InvocationAssumption DEF Init, TypeOK
  <1> QED BY <1>2 DEF Init, Typed, ControlsAreHandled

LEMMA AskTyped ==
  ASSUME Typed, NEW op \in Control, NEW c \in Call, NEW s \in Stream, Ask(op, c, s)
  PROVE  Typed'
  <1>1. stream' \in [Call -> Stream]
    BY StreamStates DEF Ask, Typed, TypeOK
  <1>2. requests' \subseteq Request /\ toServer' \in Seq(Request)
    <2>1. CASE ~connected
      BY <2>1 DEF Ask, Typed, TypeOK
    <2>2. CASE connected
      <3>1. Unused \in SUBSET Nat /\ Unused # {} /\ Unused \subseteq ControlId
        BY <2>2, Ids DEF Ask, Unused
      <3>2. Least(Unused) \in ControlId
        BY <3>1, LeastIs
      <3>3. PICK r : r = [id |-> Least(Unused), op |-> op, call |-> c]
        OBVIOUS
      <3>4. r \in Request
        BY <3>2, <3>3 DEF Request
      <3>5. requests' = requests \cup {r} /\ toServer' = Append(toServer, r)
        BY <2>2, <3>3 DEF Ask
      <3> QED BY <3>4, <3>5, AppendOf DEF Typed, TypeOK
    <2> QED BY <2>1, <2>2
  <1> QED BY <1>1, <1>2 DEF Ask, server, Typed, TypeOK, ControlsAreHandled

LEMMA ControlTyped ==
  ASSUME Typed, NEW c \in Call, Pull(c) \/ Terminate(c) \/ Halt(c) \/ Resume(c)
  PROVE  Typed'
  <1>1. stream[c] \in Stream
    BY DEF Typed, TypeOK
  <1>2. Terminated(stream[c]) \in Stream
    BY <1>1, StreamStates
  <1> QED BY <1>1, <1>2, AskTyped DEF Pull, Terminate, Halt, Resume, Control

LEMMA ConsumerTyped ==
  ASSUME Typed, NEW c \in Call, MoveNext(c) \/ Advance(c) \/ Leave(c)
  PROVE  Typed'
  <1>1. stream[c] \in Stream /\ stream \in [Call -> Stream]
    BY DEF Typed, TypeOK
  <1>2. \A t \in Stream :
           (/\ stream' = [stream EXCEPT ![c] = t]
            /\ UNCHANGED <<connected, calls, requests, jobs, toServer, toClient, server>>) => Typed'
    BY <1>1 DEF server, Typed, TypeOK, ControlsAreHandled
  <1>3. CASE MoveNext(c)
    <2>1. [stream[c] EXCEPT !.iter = "starting"] \in Stream
      BY <1>1, StreamStates
    <2> QED BY <1>1, <1>2, <1>3, <2>1 DEF MoveNext
  <1>4. CASE Leave(c)
    <2>1. PICK s : s = [stream[c] EXCEPT !.iter = "left"]
      OBVIOUS
    <2>2. s \in Stream /\ Terminated(s) \in Stream
      BY <1>1, <2>1, StreamStates
    <2>3. \/ /\ stream' = [stream EXCEPT ![c] = s]
             /\ UNCHANGED <<connected, calls, requests, jobs, toServer, toClient, server>>
          \/ Ask("terminate", c, Terminated(s))
      BY <1>4, <2>1 DEF Leave
    <2> QED BY <1>2, <2>2, <2>3, AskTyped DEF Control
  <1>5. CASE Advance(c)
    <2>1. PICK s \in Stream : s = stream[c]
      BY <1>1
    <2>2. \E t \in Stream :
             \/ /\ stream' = [stream EXCEPT ![c] = t]
                /\ UNCHANGED <<connected, calls, requests, jobs, toServer, toClient, server>>
             \/ Ask("next", c, t)
      <3>1. /\ [s EXCEPT !.iter = "thrown"] \in Stream /\ [s EXCEPT !.iter = "done"] \in Stream
            /\ [s EXCEPT !.iter = "waiting"] \in Stream
            /\ s.items # <<>> => [s EXCEPT !.iter = "idle", !.items = Tail(@),
                                            !.consumed = Append(@, Head(s.items))] \in Stream
        BY StreamStates
      <3> QED BY <1>5, <2>1, <3>1 DEF Advance
    <2> QED BY <1>2, <2>2, AskTyped DEF Control
  <1> QED BY <1>3, <1>4, <1>5

LEMMA InvokeTyped ==
  ASSUME Typed, Invoke
  PROVE  Typed'
  <1>1. calls + 1 \in Call /\ calls + 1 \in 0 .. MaxCall
    BY Ids DEF Invoke, Typed, TypeOK, Call
  <1>2. PICK r : r = [id |-> calls + 1, op |-> "invoke", call |-> calls + 1]
    OBVIOUS
  <1>3. r \in Request
    BY <1>1, <1>2 DEF Request
  <1>4. requests' = requests \cup {r} /\ toServer' = Append(toServer, r)
    BY <1>2 DEF Invoke
  <1>5. requests' \subseteq Request /\ toServer' \in Seq(Request)
    BY <1>3, <1>4, AppendOf DEF Typed, TypeOK
  <1>6. stream' \in [Call -> Stream]
    BY NewStreams DEF Invoke, Typed, TypeOK
  <1> QED BY <1>1, <1>5, <1>6 DEF Invoke, server, Typed, TypeOK, ControlsAreHandled

(* A reply for a request that is kept.                                     *)
LEMMA ReplyTyped ==
  ASSUME Typed, DispatchReply
  PROVE  Typed'
  <1>1. toClient' \in Seq(Reply) /\ Head(toClient) \in Reply
    BY TailOf DEF DispatchReply, Typed, TypeOK
  <1>2. requests' \subseteq Request
    BY DEF DispatchReply, Typed, TypeOK
  <1>3. stream' \in [Call -> Stream] /\ jobs' \in [Call -> Seq(0 .. MaxItem)]
    <2>1. CASE UNCHANGED <<stream, requests, jobs>>
      BY <2>1 DEF Typed, TypeOK
    <2>2. ASSUME ~UNCHANGED <<stream, requests, jobs>>
          PROVE  stream' \in [Call -> Stream] /\ jobs' \in [Call -> Seq(0 .. MaxItem)]
      <3>1. PICK m : m = Head(toClient)
        OBVIOUS
      <3>2. PICK r \in requests :
                 \/ /\ m.reply = "Stream"
                    /\ stream' = [stream EXCEPT ![r.call] = StreamStarted(@)]
                    /\ UNCHANGED <<requests, jobs>>
                 \/ /\ m.reply = "Chunk"
                    /\ ReplyChunk(r.call, m.value)
                    /\ UNCHANGED <<stream, requests>>
                 \/ /\ m.reply = "Completed"
                    /\ requests' = requests \ {r}
                    /\ IF r.op = "invoke" THEN ReplyCompleted(r.call) ELSE UNCHANGED jobs
                    /\ UNCHANGED stream
                 \/ /\ m.reply = "Error"
                    /\ requests' = requests \ {r}
                    /\ ReplyError(r)
        BY <2>2, <3>1 DEF DispatchReply
      <3>3. r.call \in Call /\ stream[r.call] \in Stream /\ jobs[r.call] \in Seq(0 .. MaxItem)
        BY Requests DEF Typed, TypeOK
      <3>4. StreamStarted(stream[r.call]) \in Stream /\ Failed(stream[r.call]) \in Stream
        BY <3>3, StreamStates
      <3>5. m.reply = "Chunk" => Append(jobs[r.call], m.value) \in Seq(0 .. MaxItem)
        <4>1. m.reply = "Chunk" => m.value \in 0 .. MaxItem
          BY <1>1, <3>1, Ids DEF Reply
        <4> QED BY <3>3, <4>1, AppendOf
      <3>6. Append(jobs[r.call], Completion) \in Seq(0 .. MaxItem) /\ <<>> \in Seq(0 .. MaxItem)
        <4>1. Completion \in 0 .. MaxItem
          BY Ids
        <4> QED BY <3>3, <4>1, AppendOf
      <3> QED BY <3>2, <3>3, <3>4, <3>5, <3>6 DEF ReplyChunk, ReplyCompleted, ReplyError, Typed, TypeOK
    <2> QED BY <2>1, <2>2
  <1> QED BY <1>1, <1>2, <1>3 DEF DispatchReply, server, Typed, TypeOK, ControlsAreHandled

LEMMA DecodeTyped ==
  ASSUME Typed, NEW c \in Call, Decode(c)
  PROVE  Typed'
  <1>1. PICK q \in Seq(0 .. MaxItem) : q = jobs[c]
    BY DEF Typed, TypeOK
  <1>2. Tail(q) \in Seq(0 .. MaxItem) /\ Head(q) \in 0 .. MaxItem
    BY <1>1, TailOf DEF Decode
  <1>3. stream[c] \in Stream
    BY DEF Typed, TypeOK
  <1>4. Head(q) # Completion => Head(q) \in 1 .. MaxItem
    BY <1>2, Ids
  <1>5. /\ Triggered(StreamCompleted(stream[c])) \in Stream /\ Failed(stream[c]) \in Stream
        /\ Head(q) # Completion => ReceiveItem(stream[c], Head(q)) \in Stream
    BY <1>3, <1>4, StreamStates
  <1>6. stream' \in [Call -> Stream] /\ jobs' \in [Call -> Seq(0 .. MaxItem)]
    BY <1>1, <1>2, <1>5 DEF Decode, Typed, TypeOK
  <1> QED BY <1>6 DEF Decode, server, Typed, TypeOK, ControlsAreHandled

(* What a step of the server may change, by type.                          *)
LEMMA ServerTyped ==
  ASSUME Typed, UNCHANGED <<connected, client>>,
         toServer' \in Seq(Request), toClient' \in Seq(Reply),
         execution' \in [Call -> Execution], pulling' \in [Call -> Seq(Waiter)],
         invocations' \subseteq Call, handling' \in Seq(Request), ControlsAreHandled'
  PROVE  Typed'
  BY DEF client, Typed, TypeOK

LEMMA AnswersTyped ==
  ASSUME Typed, NEW c \in Call, NEW w, w.id \in {Pump} \cup ControlId
  PROVE  /\ Both(c, w, Completed) \in Seq(Reply) /\ Both(c, w, Error) \in Seq(Reply)
         /\ w.id # Pump => Completed(w.id) \in Reply /\ Error(w.id) \in Reply
  <1>1. Completed(c) \in Reply /\ Error(c) \in Reply
    BY Messages
  <1>2. w.id # Pump => Completed(w.id) \in Reply /\ Error(w.id) \in Reply
    BY Messages
  <1>3. Both(c, w, Completed) \in Seq(Reply)
    BY <1>1, <1>2 DEF Both
  <1>4. Both(c, w, Error) \in Seq(Reply)
    BY <1>1, <1>2 DEF Both
  <1> QED BY <1>2, <1>3, <1>4

LEMMA ReceiveTyped ==
  ASSUME Typed, NEW r \in requests, ReceiveCall(r) \/ ReceiveControl(r)
  PROVE  Typed'
  <1>1. toServer' \in Seq(Request)
    <2>1. toServer \in Seq(Request) /\ toServer # <<>> /\ toServer' = Tail(toServer)
      BY DEF ReceiveCall, ReceiveControl, Receive, Typed, TypeOK
    <2> QED BY <2>1, TailOf
  <1>2. r \in Request /\ r.call \in Call /\ r.id \in Call \cup ControlId
    BY Requests DEF Typed, TypeOK
  <1>3. <<>> \in Seq(Reply) /\ <<Error(r.id)>> \in Seq(Reply)
    <2>1. Error(r.id) \in Reply
      BY <1>2, Messages
    <2> QED BY <2>1
  <1>4. CASE ReceiveCall(r)
    <2>1. toClient' \in Seq(Reply)
      BY <1>3, <1>4, Sends DEF ReceiveCall, Typed
    <2>2. execution' \in [Call -> Execution]
      <3>1. PICK ruling \in {"refused", "delayed", "admitted"} :
               execution' = [execution EXCEPT ![r.call].state = ruling]
        BY <1>4 DEF ReceiveCall
      <3>2. execution \in [Call -> Execution] /\ [execution[r.call] EXCEPT !.state = ruling] \in Execution
        BY <1>2, ExecutionStates DEF Typed, TypeOK
      <3> QED BY <3>1, <3>2
    <2> QED BY <1>1, <1>4, <2>1, <2>2, ServerTyped DEF ReceiveCall, Typed, TypeOK, ControlsAreHandled
  <1>5. CASE ReceiveControl(r)
    <2>1. toClient' \in Seq(Reply)
      BY <1>3, <1>5, Sends DEF ReceiveControl, Typed, TypeOK
    <2>2. handling' \in Seq(Request) /\ ControlsAreHandled'
      <3>1. handling \in Seq(Request) /\ ControlsAreHandled /\ r.op # "invoke"
        BY <1>5 DEF Typed, TypeOK, ReceiveControl
      <3>2. CASE handling' = handling
        BY <3>1, <3>2 DEF ControlsAreHandled
      <3>3. CASE handling' = Append(handling, r)
        BY <1>2, <3>1, <3>3, AppendOf DEF ControlsAreHandled
      <3> QED BY <1>5, <3>2, <3>3 DEF ReceiveControl
    <2> QED BY <1>1, <1>5, <2>1, <2>2, ServerTyped DEF ReceiveControl, Typed, TypeOK
  <1> QED BY <1>4, <1>5

LEMMA FunctionTyped ==
  ASSUME Typed, NEW c \in Call, DelayEnds(c) \/ Execute(c) \/ ResultSettles(c)
  PROVE  Typed'
  <1>1. execution' \in [Call -> Execution]
    <2>1. PICK st \in {"admitted", "running", "streaming", "over"} :
             execution' = [execution EXCEPT ![c].state = st]
      BY DEF DelayEnds, Execute, ResultSettles
    <2>2. execution \in [Call -> Execution] /\ [execution[c] EXCEPT !.state = st] \in Execution
      BY ExecutionStates DEF Typed, TypeOK
    <2> QED BY <2>1, <2>2
  <1>2. toClient' \in Seq(Reply)
    <2>1. /\ <<Error(c)>> \in Seq(Reply) /\ <<Completed(c)>> \in Seq(Reply)
          /\ <<Started(c)>> \in Seq(Reply)
      <3>1. Error(c) \in Reply /\ Completed(c) \in Reply /\ Started(c) \in Reply
        BY Messages
      <3> QED BY <3>1
    <2> QED BY <2>1, Sends DEF DelayEnds, Execute, ResultSettles, Typed, TypeOK
  <1>3. pulling' \in [Call -> Seq(Waiter)]
    <2>1. <<Waiting(Pump)>> \in Seq(Waiter) /\ <<>> \in Seq(Waiter)
      BY DEF Waiting, Waiter
    <2> QED BY <2>1 DEF DelayEnds, Execute, ResultSettles, Typed, TypeOK
  <1>4. invocations' \subseteq Call
    BY DEF DelayEnds, Execute, ResultSettles, Typed, TypeOK
  <1> QED BY <1>1, <1>2, <1>3, <1>4, ServerTyped
          DEF DelayEnds, Execute, ResultSettles, Typed, TypeOK, ControlsAreHandled

LEMMA HandleTyped ==
  ASSUME Typed, Handle
  PROVE  Typed'
  <1>1. PICK r \in Request : r = Head(handling) /\ r.op # "invoke"
    BY TailOf DEF Handle, Typed, TypeOK, ControlsAreHandled
  <1>2. r.call \in Call /\ r.id \in ControlId
    BY <1>1, Requests
  <1>3. handling' \in Seq(Request) /\ ControlsAreHandled'
    BY TailOf DEF Handle, Typed, TypeOK, ControlsAreHandled
  <1>4. PullStream(r) \/ TerminateExecution(r) \/ \E h \in BOOLEAN : Pause(r, h)
    BY <1>1 DEF Handle
  <1>5. Waiting(r.id) \in Waiter /\ [id |-> r.id, at |-> "return"] \in Waiter
    BY <1>2 DEF Waiting, Waiter
  <1>6. /\ pulling[r.call] \in Seq(Waiter) /\ execution[r.call] \in Execution
        /\ pulling \in [Call -> Seq(Waiter)] /\ execution \in [Call -> Execution]
    BY <1>2 DEF Typed, TypeOK
  <1>7. pulling' \in [Call -> Seq(Waiter)]
    <2>1. /\ Append(pulling[r.call], Waiting(r.id)) \in Seq(Waiter)
          /\ Append(pulling[r.call], [id |-> r.id, at |-> "return"]) \in Seq(Waiter)
      BY <1>5, <1>6, AppendOf
    <2> QED BY <1>4, <1>6, <2>1 DEF PullStream, TerminateExecution, Pause
  <1>8. execution' \in [Call -> Execution]
    <2>1. \/ execution' = execution
          \/ execution' = [execution EXCEPT ![r.call].ended = TRUE]
          \/ \E h \in BOOLEAN : execution' = [execution EXCEPT ![r.call].halted = h]
      BY <1>4, <1>6 DEF PullStream, TerminateExecution, Pause, Execution
    <2>2. /\ [execution[r.call] EXCEPT !.ended = TRUE] \in Execution
          /\ \A h \in BOOLEAN : [execution[r.call] EXCEPT !.halted = h] \in Execution
      BY <1>6, ExecutionStates
    <2> QED BY <1>6, <2>1, <2>2
  <1>9. toClient' \in Seq(Reply)
    <2>1. \A ms \in Seq(Reply) : Send(ms) => toClient' \in Seq(Reply)
      BY Sends DEF Typed
    <2>2. Both(r.call, r, Completed) \in Seq(Reply)
      BY <1>2, AnswersTyped
    <2>3. <<Completed(r.id)>> \in Seq(Reply) /\ <<Error(r.id)>> \in Seq(Reply)
      <3>1. Completed(r.id) \in Reply /\ Error(r.id) \in Reply
        BY <1>2, Messages
      <3> QED BY <3>1
    <2> QED BY <1>4, <2>1, <2>2, <2>3 DEF PullStream, TerminateExecution, Pause, Typed, TypeOK
  <1>10. invocations' \subseteq Call
    BY <1>4 DEF PullStream, TerminateExecution, Pause, Typed, TypeOK
  <1> QED BY <1>3, <1>7, <1>8, <1>9, <1>10, ServerTyped DEF Handle, Typed, TypeOK

LEMMA FirstIs ==
  ASSUME Typed, NEW c \in Call, First(c) # 0
  PROVE  /\ First(c) \in DOMAIN pulling[c] /\ pulling[c][First(c)] \in Waiter
         /\ pulling[c][First(c)].at # "halt"
  <1> DEFINE is == {i \in DOMAIN pulling[c] : pulling[c][i].at # "halt"}
  <1>1. pulling[c] \in Seq(Waiter)
    BY DEF Typed, TypeOK
  <1>2. is \in SUBSET Nat /\ is # {} /\ First(c) = Least(is)
    BY <1>1 DEF First
  <1>4. \A i \in is : i \in DOMAIN pulling[c] /\ pulling[c][i].at # "halt" /\ pulling[c][i] \in Waiter
    BY <1>1
  <1>3. Least(is) \in is
    <2> HIDE DEF is
    <2> QED BY <1>2, LeastIs
  <1> QED BY <1>2, <1>3, <1>4

LEMMA WakeTyped ==
  ASSUME Typed, NEW c \in Call, Wake(c)
  PROVE  Typed'
  <1>1. PICK q \in Seq(Waiter) : q = pulling[c]
    BY DEF Typed, TypeOK
  <1>2. PICK i \in DOMAIN q :
          IF execution[c].ended
           THEN /\ pulling' = [pulling EXCEPT ![c] = RemoveAt(q, i)]
                /\ invocations' = invocations \ {c}
                /\ Send(Both(c, q[i], Completed))
           ELSE /\ pulling' = [pulling EXCEPT
                       ![c] = Append(RemoveAt(q, i), [q[i] EXCEPT !.at = "next"])]
                /\ UNCHANGED <<invocations, toClient>>
    BY <1>1 DEF Wake, Typed, TypeOK
  <1>3. q[i] \in Waiter /\ [q[i] EXCEPT !.at = "next"] \in Waiter /\ q[i].id \in {Pump} \cup ControlId
    <2>1. q[i] \in Waiter
      OBVIOUS
    <2> QED BY <2>1 DEF Waiter
  <1>4. /\ RemoveAt(q, i) \in Seq(Waiter)
        /\ Append(RemoveAt(q, i), [q[i] EXCEPT !.at = "next"]) \in Seq(Waiter)
    BY <1>3, RemoveAtOf, AppendOf
  <1>5. pulling' \in [Call -> Seq(Waiter)]
    BY <1>2, <1>4 DEF Typed, TypeOK
  <1>6. toClient' \in Seq(Reply)
    BY <1>2, <1>3, AnswersTyped, Sends DEF Typed, TypeOK
  <1> QED BY <1>2, <1>5, <1>6, ServerTyped DEF Wake, Typed, TypeOK, ControlsAreHandled

LEMMA IteratorTyped ==
  ASSUME Typed, NEW c \in Call, Yield(c) \/ IteratorEnds(c)
  PROVE  Typed'
  <1>1. PICK q \in Seq(Waiter) : q = pulling[c]
    BY DEF Typed, TypeOK
  <1>2. PICK i \in DOMAIN q : i = First(c) /\ q[i] \in Waiter /\ q[i].id \in {Pump} \cup ControlId
    BY <1>1, FirstIs DEF Yield, IteratorEnds, Waiter
  <1>3. /\ RemoveAt(q, i) \in Seq(Waiter) /\ [q EXCEPT ![i] = Waiting(Pump)] \in Seq(Waiter)
    <2>1. Waiting(Pump) \in Waiter
      BY DEF Waiting, Waiter
    <2> QED BY <2>1, RemoveAtOf
  <1>4. pulling' \in [Call -> Seq(Waiter)]
    <2>1. pulling' = [pulling EXCEPT ![c] = RemoveAt(q, i)]
             \/ pulling' = [pulling EXCEPT ![c] = [q EXCEPT ![i] = Waiting(Pump)]]
      BY <1>1, <1>2 DEF Yield, IteratorEnds, Typed, TypeOK
    <2> QED BY <1>3, <2>1 DEF Typed, TypeOK
  <1>5. execution[c] \in Execution /\ execution \in [Call -> Execution] /\ execution[c].produced \in 0 .. MaxItem
    BY DEF Typed, TypeOK, Execution
  <1>6. invocations' \subseteq Call
    BY DEF Yield, IteratorEnds, Typed, TypeOK
  <1>7. CASE Yield(c)
    <2>1. PICK v \in 1 .. MaxItem : v = execution[c].produced + 1
      BY <1>5, <1>7, Ids DEF Yield
    <2>2. execution' \in [Call -> Execution]
      <3>1. [execution[c] EXCEPT !.produced = v] \in Execution
        <4>1. v \in 0 .. MaxItem
          BY <2>1
        <4> QED BY <1>5, <4>1, ExecutionStates
      <3> QED BY <1>5, <1>7, <2>1, <3>1 DEF Yield
    <2>3. toClient' \in Seq(Reply)
      <3>1. Chunk(c, v) \in Reply /\ Completed(c) \in Reply
        BY Messages
      <3>2. q[i].id # Pump => Completed(q[i].id) \in Reply
        BY <1>2, AnswersTyped
      <3>3. \E ms \in Seq(Reply) : Send(ms)
        <4>1. PICK w : w = q[i]
          OBVIOUS
        <4>2. \/ Send(<<Chunk(c, v)>> \o <<Completed(c)>>)
              \/ w.id # Pump /\ Send(<<Chunk(c, v)>> \o <<Completed(w.id)>>)
              \/ Send(<<Chunk(c, v)>> \o <<>>)
          BY <1>1, <1>2, <1>7, <2>1, <4>1 DEF Yield
        <4>3. /\ <<Chunk(c, v)>> \in Seq(Reply) /\ <<Completed(c)>> \in Seq(Reply)
              /\ <<>> \in Seq(Reply)
              /\ w.id # Pump => <<Completed(w.id)>> \in Seq(Reply)
          BY <3>1, <3>2, <4>1
        <4> QED BY <4>2, <4>3, ConcatOf
      <3> QED BY <3>3, Sends DEF Typed
    <2> QED BY <1>4, <1>6, <1>7, <2>2, <2>3, ServerTyped DEF Yield, Typed, TypeOK, ControlsAreHandled
  <1>8. CASE IteratorEnds(c)
    <2>1. execution' \in [Call -> Execution]
      BY <1>5, <1>8, ExecutionStates DEF IteratorEnds
    <2>2. toClient' \in Seq(Reply)
      <3>1. Send(Both(c, q[i], Completed)) \/ Send(Both(c, q[i], Error))
        BY <1>1, <1>2, <1>8 DEF IteratorEnds
      <3> QED BY <1>2, <3>1, AnswersTyped, Sends DEF Typed
    <2> QED BY <1>4, <1>6, <1>8, <2>1, <2>2, ServerTyped DEF IteratorEnds, Typed, TypeOK, ControlsAreHandled
  <1> QED BY <1>7, <1>8

LEMMA DisconnectTyped ==
  ASSUME Typed, Disconnect
  PROVE  Typed'
  <1>1. stream' \in [Call -> Stream]
    BY StreamStates DEF Disconnect, Typed, TypeOK
  <1>2. execution' \in [Call -> Execution]
    BY ExecutionStates DEF Disconnect, Typed, TypeOK
  <1>3. pulling' \in [Call -> Seq(Waiter)]
    <2>1. [id |-> Pump, at |-> "return"] \in Waiter
      BY DEF Waiter
    <2>2. \A c \in Call : /\ pulling[c] \in Seq(Waiter)
                          /\ Append(pulling[c], [id |-> Pump, at |-> "return"]) \in Seq(Waiter)
      BY <2>1, AppendOf DEF Typed, TypeOK
    <2> QED BY <2>2 DEF Disconnect
  <1>4. /\ connected' \in BOOLEAN /\ UNCHANGED <<calls, jobs, handling>> /\ requests' = {}
        /\ toServer' = <<>> /\ toClient' = <<>> /\ invocations' = {}
    BY DEF Disconnect
  <1> QED BY <1>1, <1>2, <1>3, <1>4 DEF Typed, TypeOK, ControlsAreHandled

LEMMA NextTyped == Typed /\ [Next]_vars => Typed'
  <1> SUFFICES ASSUME Typed, [Next]_vars
               PROVE  Typed'
    OBVIOUS
  <1>1. CASE UNCHANGED vars
    BY <1>1 DEF vars, client, server, Typed, TypeOK, ControlsAreHandled
  <1>2. CASE Next
    BY <1>2, ControlTyped, ConsumerTyped, InvokeTyped, ReplyTyped, DecodeTyped, ReceiveTyped,
       FunctionTyped, HandleTyped, WakeTyped, IteratorTyped, DisconnectTyped DEF Next
  <1> QED BY <1>1, <1>2

-----------------------------------------------------------------------------
(* The steps of a consumer and its application, and what they leave.       *)

Taken(s) ==
    [s EXCEPT !.iter = "idle", !.items = Tail(@), !.consumed = Append(@, Head(s.items))]

Consumes(s, t) ==
    \/ t = s
    \/ ~s.completed /\ t = Terminated(s)
    \/ ~s.completed /\ t = Terminated([s EXCEPT !.iter = "left"])
    \/ \E it \in {"starting", "waiting", "thrown", "left"} : t = [s EXCEPT !.iter = it]
    \/ s.completed /\ ~s.error /\ s.items = <<>> /\ t = [s EXCEPT !.iter = "done"]
    \/ s.items # <<>> /\ t = Taken(s)

Consumer(c) ==
    Pull(c) \/ Terminate(c) \/ Halt(c) \/ Resume(c) \/ MoveNext(c) \/ Advance(c) \/ Leave(c)

StreamOnly(c, t) ==
    /\ stream' = [stream EXCEPT ![c] = t]
    /\ UNCHANGED <<connected, calls, requests, jobs, toServer, toClient, server>>

LEMMA ConsumesStream ==
  ASSUME NEW s \in Stream, NEW t, Consumes(s, t)
  PROVE  t \in Stream
  <1>1. [s EXCEPT !.iter = "left"] \in Stream
    BY StreamStates
  <1>2. Terminated(s) \in Stream /\ Terminated([s EXCEPT !.iter = "left"]) \in Stream
    BY <1>1, StreamStates
  <1> QED BY <1>2, StreamStates DEF Consumes, Taken

LEMMA ConsumerSteps ==
  ASSUME Typed, Unasked, NEW c \in Call, Consumer(c)
  PROVE  /\ c <= calls
         /\ \E t : /\ Consumes(stream[c], t)
                   /\ \/ StreamOnly(c, t) /\ t.terminated = stream[c].terminated
                      \/ \E op \in Control :
                            /\ Ask(op, c, t)
                            /\ op = "terminate" => t.terminated
                            /\ op # "terminate" => t.terminated = stream[c].terminated
  <1>1. PICK s \in Stream : s = stream[c]
    BY DEF Typed, TypeOK
  <1>2. calls \in Nat /\ c \in Nat
    BY Ids DEF Typed, TypeOK
  <1>3. c > calls => s.iter = "idle"
    BY <1>1 DEF Unasked, Uncalled, NewStream
  <1>4. CASE Pull(c) \/ Halt(c) \/ Resume(c)
    BY <1>1, <1>4 DEF Pull, Halt, Resume, Consumes, Streaming, Control
  <1>5. CASE Terminate(c)
    <2>1. Terminated(s).terminated
      BY DEF Terminated, Woken, Stream
    <2> QED BY <1>1, <1>5, <2>1 DEF Terminate, Consumes, Streaming, Control
  <1>6. CASE MoveNext(c)
    <2>1. stream' = [stream EXCEPT ![c] = [s EXCEPT !.iter = "starting"]]
      BY <1>1, <1>6 DEF MoveNext, Typed, TypeOK
    <2>2. [s EXCEPT !.iter = "starting"].terminated = s.terminated
      BY DEF Stream
    <2>3. Consumes(s, [s EXCEPT !.iter = "starting"])
      BY DEF Consumes
    <2> QED BY <1>1, <1>6, <2>1, <2>2, <2>3 DEF MoveNext, Streaming, StreamOnly
  <1>7. CASE Leave(c)
    <2>1. PICK t : t = [s EXCEPT !.iter = "left"]
      OBVIOUS
    <2>2. t \in Stream /\ t.completed = s.completed /\ t.terminated = s.terminated
      BY <2>1 DEF Stream
    <2>3. Terminated(t).terminated
      BY <2>2 DEF Terminated, Woken, Stream
    <2>4. CASE s.completed
      <3>1. StreamOnly(c, t)
        BY <1>1, <1>7, <2>1, <2>2, <2>4 DEF Leave, StreamOnly
      <3>2. Consumes(s, t)
        BY <2>1 DEF Consumes
      <3> QED BY <1>1, <1>7, <2>2, <3>1, <3>2 DEF Leave, Streaming
    <2>5. CASE ~s.completed
      <3>1. Ask("terminate", c, Terminated(t))
        BY <1>1, <1>7, <2>1, <2>2, <2>5 DEF Leave
      <3>2. Consumes(s, Terminated(t))
        BY <2>1, <2>5 DEF Consumes
      <3> QED BY <1>1, <1>7, <2>3, <3>1, <3>2 DEF Leave, Streaming, Control
    <2> QED BY <2>4, <2>5
  <1>8. CASE Advance(c)
    <2>1. s.iter \in {"woken", "starting"}
      BY <1>1, <1>8 DEF Advance
    <2>2. \/ s.error /\ StreamOnly(c, [s EXCEPT !.iter = "thrown"])
          \/ s.items # <<>> /\ StreamOnly(c, Taken(s))
          \/ /\ ~s.error /\ s.items = <<>> /\ s.completed
             /\ StreamOnly(c, [s EXCEPT !.iter = "done"])
          \/ Ask("next", c, [s EXCEPT !.iter = "waiting"])
          \/ StreamOnly(c, [s EXCEPT !.iter = "waiting"])
      BY <1>1, <1>8 DEF Advance, StreamOnly, Taken
    <2>3. /\ [s EXCEPT !.iter = "thrown"].terminated = s.terminated
          /\ Taken(s).terminated = s.terminated
          /\ [s EXCEPT !.iter = "done"].terminated = s.terminated
          /\ [s EXCEPT !.iter = "waiting"].terminated = s.terminated
      BY DEF Taken, Stream
    <2>4. /\ Consumes(s, [s EXCEPT !.iter = "thrown"]) /\ Consumes(s, [s EXCEPT !.iter = "waiting"])
          /\ s.items # <<>> => Consumes(s, Taken(s))
          /\ ~s.error /\ s.items = <<>> /\ s.completed => Consumes(s, [s EXCEPT !.iter = "done"])
      BY DEF Consumes
    <2>5. "next" \in Control
      BY DEF Control
    <2>6. c <= calls
      BY <1>2, <1>3, <2>1
    <2> QED BY <1>1, <2>2, <2>3, <2>4, <2>5, <2>6
  <1> QED BY <1>4, <1>5, <1>6, <1>7, <1>8 DEF Consumer

-----------------------------------------------------------------------------
(* Requests.                                                               *)

LEMMA InitAsking == Init => Asking
  BY InitTyped DEF Init, Asking, RequestsAreAsked, Unasked, ClosedIsEmpty

(* A step that leaves the calls already made what they are, and makes no   *)
(* request.                                                                *)
LEMMA AskingKept ==
  ASSUME Asking, Typed', calls' = calls,
         \A c \in Call : stream[c].terminated => stream'[c].terminated,
         \A c \in Call : c > calls => stream'[c] = stream[c] /\ jobs'[c] = jobs[c],
         requests' \subseteq requests,
         \A i \in DOMAIN toServer' : \E j \in DOMAIN toServer : toServer'[i] = toServer[j],
         \A i \in DOMAIN handling' :
            handling'[i] \in requests \/ \E j \in DOMAIN handling : handling'[i] = handling[j],
         ClosedIsEmpty'
  PROVE  Asking'
  <1>1. ASSUME NEW r \in Request, Asked(r)
        PROVE  Asked(r)'
    BY <1>1, Requests DEF Asked
  <1>2. /\ \A r \in requests : r \in Request /\ Asked(r)
        /\ \A i \in DOMAIN toServer : toServer[i] \in Request /\ Asked(toServer[i])
        /\ \A i \in DOMAIN handling : handling[i] \in Request /\ Asked(handling[i])
    BY DEF Asking, Typed, TypeOK, RequestsAreAsked
  <1>3. RequestsAreAsked'
    BY <1>1, <1>2 DEF Asking, RequestsAreAsked
  <1>4. Unasked'
    BY DEF Asking, Unasked
  <1> QED BY <1>3, <1>4 DEF Asking

LEMMA NewRequest ==
  ASSUME Asking, Typed', NEW r \in Request, \A q \in requests : q.id # r.id,
         connected, connected', calls' \in {calls, calls + 1},
         \A c \in Call : stream[c].terminated => stream'[c].terminated \/ c > calls,
         \A c \in Call : c > calls' => stream'[c] = stream[c] /\ jobs'[c] = jobs[c],
         requests' = requests \cup {r}, toServer' = Append(toServer, r), handling' = handling,
         Asked(r)'
  PROVE  Asking'
  <1>1. calls \in Nat /\ calls' >= calls
    BY DEF Asking, Typed, TypeOK
  <1>2. ASSUME NEW q \in Request, Asked(q)
        PROVE  Asked(q)'
    <2>1. q.call \in Nat /\ q.call \in Call
      BY Requests, Ids
    <2> QED BY <1>1, <1>2, <2>1 DEF Asked
  <1>3. /\ \A q \in requests : q \in Request /\ Asked(q)
        /\ \A i \in DOMAIN toServer : toServer[i] \in Request /\ Asked(toServer[i])
        /\ \A i \in DOMAIN handling : handling[i] \in Request /\ Asked(handling[i])
    BY DEF Asking, Typed, TypeOK, RequestsAreAsked
  <1>4. \A i \in DOMAIN toServer' : toServer'[i] = r \/ \E j \in DOMAIN toServer : toServer'[i] = toServer[j]
    BY AppendOf DEF Asking, Typed, TypeOK
  <1>5. (\A i \in DOMAIN toServer : Asked(toServer[i]))'
    <2>1. \A i \in DOMAIN toServer' : \E q \in Request : q = toServer'[i] /\ (Asked(q) \/ q = r)
      BY <1>3, <1>4
    <2>2. \A i \in DOMAIN toServer' : \E q \in Request : q = toServer'[i] /\ Asked(q)'
      BY <1>2, <2>1
    <2> QED BY <2>2
  <1>6. RequestsAreAsked'
    BY <1>2, <1>3, <1>5 DEF Asking, RequestsAreAsked
  <1>7. Unasked'
    <2>1. \A c \in Call : c > calls' => c > calls
      BY <1>1, Ids DEF Asking, Typed, TypeOK
    <2> QED BY <2>1 DEF Asking, Unasked
  <1> QED BY <1>6, <1>7 DEF Asking, ClosedIsEmpty

LEMMA ConsumesKeeps ==
  ASSUME NEW s \in Stream, NEW t, Consumes(s, t)
  PROVE  /\ s.terminated => t.terminated /\ Failed(t).terminated
         /\ s.completed => t.completed /\ Failed(t).completed
         /\ t.mode = s.mode /\ Failed(t).mode = s.mode
         /\ t.started = s.started /\ Failed(t).started = s.started
         /\ Failed(t).terminated = t.terminated
  <1>1. /\ s.terminated => t.terminated
        /\ s.completed => t.completed
        /\ t.mode = s.mode /\ t.started = s.started
    <2>1. ASSUME ~s.completed, NEW x \in Stream, t = Terminated(x),
                 x = s \/ x = [s EXCEPT !.iter = "left"]
          PROVE  t.terminated /\ t.completed /\ t.mode = s.mode /\ t.started = s.started
      <3>1. t.terminated /\ t.completed /\ t.mode = x.mode /\ t.started = x.started
        BY <2>1 DEF Terminated, Woken, Stream
      <3>2. x.mode = s.mode /\ x.started = s.started
        BY <2>1 DEF Stream
      <3> QED BY <3>1, <3>2
    <2>2. ASSUME NEW it \in {"starting", "waiting", "thrown", "left", "done"},
                 t = [s EXCEPT !.iter = it]
          PROVE  /\ t.terminated = s.terminated /\ t.completed = s.completed
                 /\ t.mode = s.mode /\ t.started = s.started
      BY <2>2 DEF Stream
    <2>3. ASSUME t = Taken(s)
          PROVE  /\ t.terminated = s.terminated /\ t.completed = s.completed
                 /\ t.mode = s.mode /\ t.started = s.started
      BY <2>3 DEF Taken, Stream
    <2>4. [s EXCEPT !.iter = "left"] \in Stream
      BY DEF Stream
    <2> QED BY <2>1, <2>2, <2>3, <2>4 DEF Consumes
  <1>2. /\ Failed(t).terminated = t.terminated /\ Failed(t).mode = t.mode
        /\ Failed(t).started = t.started
        /\ t.completed => Failed(t).completed
    <2>1. t \in Stream
      <3>1. \A it \in {"starting", "waiting", "thrown", "left", "done"} :
               [s EXCEPT !.iter = it] \in Stream
        BY StreamStates
      <3>2. Terminated(s) \in Stream /\ Terminated([s EXCEPT !.iter = "left"]) \in Stream
        BY <3>1, StreamStates
      <3> QED BY <3>1, <3>2, StreamStates DEF Consumes, Taken
    <2> QED BY <2>1 DEF Failed, Woken, Stream
  <1> QED BY <1>1, <1>2

LEMMA AskAsking ==
  ASSUME Asking, Typed', NEW op \in Control, NEW c \in Call, c <= calls, NEW t,
         Consumes(stream[c], t), op = "terminate" => t.terminated, Ask(op, c, t)
  PROVE  Asking'
  <1>1. stream \in [Call -> Stream] /\ stream[c] \in Stream
    BY DEF Asking, Typed, TypeOK
  <1>2. stream' = [stream EXCEPT ![c] = t] \/ stream' = [stream EXCEPT ![c] = Failed(t)]
    BY DEF Ask
  <1>3. /\ \A d \in Call : stream[d].terminated => stream'[d].terminated
        /\ \A d \in Call : d > calls => stream'[d] = stream[d] /\ jobs'[d] = jobs[d]
    <2>1. calls \in Nat /\ c \in Nat
      BY Ids DEF Asking, Typed, TypeOK
    <2> QED BY <1>1, <1>2, <2>1, ConsumesKeeps DEF Ask
  <1>4. CASE ~connected
    <2>1. UNCHANGED <<connected, calls, requests, toServer, toClient, handling>>
      BY <1>4 DEF Ask, server
    <2> QED BY <1>3, <2>1, AskingKept DEF Asking, ClosedIsEmpty
  <1>5. CASE connected
    <2>1. PICK r : r = [id |-> Least(Unused), op |-> op, call |-> c]
      OBVIOUS
    <2>2. Least(Unused) \in Unused
      <3>1. Unused \in SUBSET Nat /\ Unused # {}
        BY <1>5, Ids DEF Ask, Unused
      <3> QED BY <3>1, LeastIs
    <2>3. r \in Request /\ \A q \in requests : q.id # r.id
      BY <2>1, <2>2 DEF Unused, Request
    <2>4. /\ requests' = requests \cup {r} /\ toServer' = Append(toServer, r)
          /\ stream' = [stream EXCEPT ![c] = t]
      BY <1>5, <2>1 DEF Ask
    <2>5. Asked(r)'
      BY <1>1, <2>1, <2>4 DEF Asked, Control, Ask
    <2> QED BY <1>3, <1>5, <2>3, <2>4, <2>5, NewRequest DEF Ask, server
  <1> QED BY <1>4, <1>5

LEMMA ConsumerAsking ==
  ASSUME Asking, Typed', NEW c \in Call, Consumer(c)
  PROVE  Asking'
  <1>1. stream \in [Call -> Stream] /\ stream[c] \in Stream
    BY DEF Asking, Typed, TypeOK
  <1>2. c <= calls
    BY ConsumerSteps DEF Asking
  <1>3. PICK t : /\ Consumes(stream[c], t)
                 /\ \/ StreamOnly(c, t)
                    \/ \E op \in Control : Ask(op, c, t) /\ (op = "terminate" => t.terminated)
    BY ConsumerSteps DEF Asking
  <1>4. CASE StreamOnly(c, t)
    <2>1. /\ \A d \in Call : stream[d].terminated => stream'[d].terminated
          /\ \A d \in Call : d > calls => stream'[d] = stream[d] /\ jobs'[d] = jobs[d]
      <3>1. calls \in Nat /\ c \in Nat
        BY Ids DEF Asking, Typed, TypeOK
      <3> QED BY <1>1, <1>2, <1>3, <1>4, <3>1, ConsumesKeeps DEF StreamOnly
    <2> QED BY <1>4, <2>1, AskingKept DEF StreamOnly, server, Asking, ClosedIsEmpty
  <1> QED BY <1>2, <1>3, <1>4, AskAsking

LEMMA InvokeAsking ==
  ASSUME Asking, Typed', Invoke
  PROVE  Asking'
  <1>1. PICK r : r = [id |-> calls + 1, op |-> "invoke", call |-> calls + 1]
    OBVIOUS
  <1>2. calls \in Nat /\ calls + 1 \in Call
    BY Ids DEF Invoke, Asking, Typed, TypeOK, Call
  <1>3. r \in Request
    BY <1>1, <1>2 DEF Request
  <1>4. \A q \in requests : q.id # r.id
    <2> SUFFICES ASSUME NEW q \in requests, q.id = r.id
                 PROVE  FALSE
      OBVIOUS
    <2>1. q \in Request /\ Asked(q)
      BY DEF Asking, Typed, TypeOK, RequestsAreAsked
    <2>2. q.id \in Call
      BY <1>1, <1>2
    <2>3. q.op = "invoke"
      BY <2>1, <2>2, Requests, Ids
    <2> QED BY <1>1, <1>2, <2>1, <2>3 DEF Asked
  <1>5. requests' = requests \cup {r} /\ toServer' = Append(toServer, r) /\ handling' = handling
    BY <1>1 DEF Invoke, server
  <1>6. Asked(r)'
    BY <1>1, <1>2 DEF Invoke, Asked
  <1>7. \A c \in Call : c # calls + 1 => stream'[c] = stream[c]
    BY DEF Invoke, Asking, Typed, TypeOK
  <1>8. /\ \A c \in Call : stream[c].terminated => stream'[c].terminated \/ c > calls
        /\ \A c \in Call : c > calls' => stream'[c] = stream[c] /\ jobs'[c] = jobs[c]
    BY <1>2, <1>7, Ids DEF Invoke
  <1> QED BY <1>3, <1>4, <1>5, <1>6, <1>8, NewRequest DEF Invoke

LEMMA ReceivedKeeps ==
  ASSUME NEW s \in Stream
  PROVE  /\ Failed(s).terminated = s.terminated /\ StreamStarted(s).terminated = s.terminated
         /\ Triggered(StreamCompleted(s)).terminated = s.terminated
         /\ \A v : ReceiveItem(s, v).terminated = s.terminated
  BY DEF Failed, StreamStarted, Triggered, StreamCompleted, ReceiveItem, Woken, Stream

(* What a reply brings to a request it is for.                             *)
Replied(m, r) ==
    \/ /\ m.reply = "Stream"
       /\ stream' = [stream EXCEPT ![r.call] = StreamStarted(@)]
       /\ UNCHANGED <<requests, jobs>>
    \/ /\ m.reply = "Chunk"
       /\ ReplyChunk(r.call, m.value)
       /\ UNCHANGED <<stream, requests>>
    \/ /\ m.reply = "Completed"
       /\ requests' = requests \ {r}
       /\ IF r.op = "invoke" THEN ReplyCompleted(r.call) ELSE UNCHANGED jobs
       /\ UNCHANGED stream
    \/ /\ m.reply = "Error"
       /\ requests' = requests \ {r}
       /\ ReplyError(r)

LEMMA ReplyAsking ==
  ASSUME Asking, Typed', DispatchReply
  PROVE  Asking'
  <1>1. /\ \A c \in Call : stream[c].terminated => stream'[c].terminated
        /\ \A c \in Call : c > calls => stream'[c] = stream[c] /\ jobs'[c] = jobs[c]
        /\ requests' \subseteq requests
    <2>1. CASE UNCHANGED <<stream, requests, jobs>>
      BY <2>1
    <2>2. ASSUME NEW r \in requests, Replied(Head(toClient), r)
          PROVE  /\ \A c \in Call : stream[c].terminated => stream'[c].terminated
                 /\ \A c \in Call : c > calls => stream'[c] = stream[c] /\ jobs'[c] = jobs[c]
                 /\ requests' \subseteq requests
      <3>1. /\ r.call \in Call /\ r.call <= calls /\ calls \in Nat /\ Call \subseteq Nat
            /\ stream[r.call] \in Stream /\ stream \in [Call -> Stream]
            /\ jobs \in [Call -> Seq(0 .. MaxItem)]
        <4>1. r \in Request
          BY DEF Asking, Typed, TypeOK
        <4>2. r.call \in Call
          BY <4>1, Requests
        <4>3. r.call <= calls
          BY DEF Asking, RequestsAreAsked, Asked
        <4>4. /\ stream \in [Call -> Stream] /\ jobs \in [Call -> Seq(0 .. MaxItem)]
              /\ calls \in Nat
          BY Ids DEF Asking, Typed, TypeOK
        <4> QED BY <4>2, <4>3, <4>4, Ids
      <3>2. /\ Failed(stream[r.call]).terminated = stream[r.call].terminated
            /\ StreamStarted(stream[r.call]).terminated = stream[r.call].terminated
        BY <3>1, ReceivedKeeps
      <3> QED BY <2>2, <3>1, <3>2 DEF Replied, ReplyChunk, ReplyCompleted, ReplyError
    <2> QED BY <2>1, <2>2 DEF DispatchReply, Replied
  <1>2. connected
    BY DEF DispatchReply, Asking, ClosedIsEmpty
  <1> QED BY <1>1, <1>2, AskingKept DEF DispatchReply, server, ClosedIsEmpty

LEMMA DecodeAsking ==
  ASSUME Asking, Typed', NEW c \in Call, Decode(c)
  PROVE  Asking'
  <1>1. /\ stream[c] \in Stream /\ stream \in [Call -> Stream]
        /\ jobs \in [Call -> Seq(0 .. MaxItem)]
    BY DEF Asking, Typed, TypeOK
  <1>2. PICK t : stream' = [stream EXCEPT ![c] = t] /\ t.terminated = stream[c].terminated
    BY <1>1, ReceivedKeeps DEF Decode
  <1>3. ~(c > calls)
    BY DEF Decode, Asking, Unasked
  <1>4. /\ \A d \in Call : stream[d].terminated => stream'[d].terminated
        /\ \A d \in Call : d > calls => stream'[d] = stream[d] /\ jobs'[d] = jobs[d]
    BY <1>1, <1>2, <1>3 DEF Decode
  <1> QED BY <1>4, AskingKept DEF Decode, server, Asking, ClosedIsEmpty

(* The server makes no request, and sends only while connected.            *)
LEMMA ServerAsking ==
  ASSUME Asking, Typed', UNCHANGED <<connected, client>>,
         \A i \in DOMAIN toServer' : \E j \in DOMAIN toServer : toServer'[i] = toServer[j],
         \A i \in DOMAIN handling' :
            handling'[i] \in requests \/ \E j \in DOMAIN handling : handling'[i] = handling[j],
         ~connected => toServer' = <<>> /\ toClient' = <<>>
  PROVE  Asking'
  BY AskingKept DEF client, Asking, ClosedIsEmpty

LEMMA ReceiveAsking ==
  ASSUME Asking, Typed', NEW r \in requests, ReceiveCall(r) \/ ReceiveControl(r)
  PROVE  Asking'
  <1>1. /\ toServer \in Seq(Request) /\ toServer # <<>> /\ toServer' = Tail(toServer)
        /\ handling \in Seq(Request) /\ r \in Request
    BY DEF ReceiveCall, ReceiveControl, Receive, Asking, Typed, TypeOK
  <1>2. \A i \in DOMAIN toServer' : \E j \in DOMAIN toServer : toServer'[i] = toServer[j]
    BY <1>1, TailOf
  <1>3. handling' = handling \/ handling' = Append(handling, r)
    BY DEF ReceiveCall, ReceiveControl
  <1>4. \A i \in DOMAIN handling' :
           handling'[i] \in requests \/ \E j \in DOMAIN handling : handling'[i] = handling[j]
    <2>1. CASE handling' = Append(handling, r)
      <3>1. \A i \in DOMAIN handling' : i \in DOMAIN handling \/ i = Len(handling) + 1
        BY <1>1, <2>1, AppendOf
      <3>2. handling'[Len(handling) + 1] = r /\ \A i \in DOMAIN handling : handling'[i] = handling[i]
        BY <1>1, <2>1, AppendOf
      <3> QED BY <3>1, <3>2
    <2> QED BY <1>3, <2>1
  <1>5. connected
    BY <1>1 DEF Asking, ClosedIsEmpty
  <1> QED BY <1>2, <1>4, <1>5, ServerAsking DEF ReceiveCall, ReceiveControl

LEMMA WorkAsking ==
  ASSUME Asking, Typed', NEW c \in Call,
         \/ DelayEnds(c) \/ Execute(c) \/ ResultSettles(c)
         \/ Wake(c) \/ Yield(c) \/ IteratorEnds(c)
  PROVE  Asking'
  <1>1. UNCHANGED <<connected, client, toServer, handling>>
    BY DEF DelayEnds, Execute, ResultSettles, Wake, Yield, IteratorEnds
  <1>2. connected \/ toClient' = toClient
    BY DEF DelayEnds, Execute, ResultSettles, Wake, Yield, IteratorEnds, Send
  <1> QED BY <1>1, <1>2, ServerAsking DEF Asking, ClosedIsEmpty

LEMMA HandleAsking ==
  ASSUME Asking, Typed', Handle
  PROVE  Asking'
  <1>1. connected \/ toClient' = toClient
    BY DEF Handle, PullStream, TerminateExecution, Pause, Send
  <1>2. handling \in Seq(Request) /\ handling # <<>> /\ handling' = Tail(handling)
    BY DEF Handle, Asking, Typed, TypeOK
  <1>3. \A i \in DOMAIN handling' : \E j \in DOMAIN handling : handling'[i] = handling[j]
    BY <1>2, TailOf
  <1> QED BY <1>1, <1>3, ServerAsking DEF Handle, Asking, ClosedIsEmpty

LEMMA DisconnectAsking ==
  ASSUME Asking, Typed', Disconnect
  PROVE  Asking'
  <1>1. \A c \in Call : stream[c].terminated => stream'[c].terminated
    BY ReceivedKeeps DEF Disconnect, Asking, Typed, TypeOK
  <1>2. \A c \in Call : c > calls => stream'[c] = stream[c]
    <2>1. \A r \in requests : r.call <= calls /\ r.call \in Nat
      BY Requests, Ids DEF Asking, Typed, TypeOK, RequestsAreAsked, Asked
    <2> QED BY <2>1, Ids DEF Disconnect, Asking, Typed, TypeOK
  <1> QED BY <1>1, <1>2, AskingKept DEF Disconnect, ClosedIsEmpty

LEMMA NextAsking == Asking /\ [Next]_vars => Asking'
  <1> SUFFICES ASSUME Asking, [Next]_vars
               PROVE  Asking'
    OBVIOUS
  <1>1. Typed'
    BY NextTyped DEF Asking
  <1>2. CASE UNCHANGED vars
    BY <1>1, <1>2, AskingKept DEF vars, client, server, Asking, ClosedIsEmpty
  <1>3. CASE Next
    BY <1>1, <1>3, ConsumerAsking, InvokeAsking, ReplyAsking, DecodeAsking, ReceiveAsking,
       WorkAsking, HandleAsking, DisconnectAsking DEF Next, Consumer
  <1> QED BY <1>2, <1>3

-----------------------------------------------------------------------------
(* The stages of a call.                                                   *)

LEMMA InitStaged == Init => Staged
  BY InitAsking DEF Init, Staged, InvokesWait, WorkIsBegun, StreamsHaveMode, NotExecuted,
     Uncalled, NewStream

(* What a handler sends comes after what was sent before.                  *)
LEMMA SentIs ==
  ASSUME Typed, NEW ms \in Seq(Reply), Send(ms)
  PROVE  /\ \A i \in DOMAIN toClient : i \in DOMAIN toClient' /\ toClient'[i] = toClient[i]
         /\ \A i \in DOMAIN toClient' :
               \/ i \in DOMAIN toClient /\ toClient'[i] = toClient[i]
               \/ /\ connected /\ i > Len(toClient) /\ i - Len(toClient) \in DOMAIN ms
                  /\ toClient'[i] = ms[i - Len(toClient)]
         /\ connected => \A i \in DOMAIN ms : \E j \in DOMAIN toClient' : toClient'[j] = ms[i]
  <1>1. toClient \in Seq(Reply)
    BY DEF Typed, TypeOK
  <1>2. CASE ~connected
    BY <1>1, <1>2 DEF Send
  <1>3. CASE connected
    <2>1. toClient' = toClient \o ms
      BY <1>3 DEF Send
    <2>2. /\ \A i \in DOMAIN toClient : i \in DOMAIN (toClient \o ms) /\ (toClient \o ms)[i] = toClient[i]
          /\ \A i \in DOMAIN ms : /\ Len(toClient) + i \in DOMAIN (toClient \o ms)
                                  /\ (toClient \o ms)[Len(toClient) + i] = ms[i]
          /\ \A i \in DOMAIN (toClient \o ms) :
               i \in DOMAIN toClient \/ (i > Len(toClient) /\ i - Len(toClient) \in DOMAIN ms)
      BY <1>1, ConcatOf
    <2>3. Len(toClient) \in Nat /\ DOMAIN (toClient \o ms) \subseteq Nat
      BY <1>1, ConcatOf
    <2>4. ASSUME NEW i \in DOMAIN (toClient \o ms), i - Len(toClient) \in DOMAIN ms
          PROVE  (toClient \o ms)[i] = ms[i - Len(toClient)]
      <3>1. Len(toClient) + (i - Len(toClient)) = i
        BY <2>3
      <3> QED BY <2>2, <2>4, <3>1
    <2> QED BY <1>3, <2>1, <2>2, <2>4
  <1> QED BY <1>2, <1>3

(* M is what is sent, and all that is.                                     *)
Says(M) ==
    /\ \A i \in DOMAIN toClient : i \in DOMAIN toClient' /\ toClient'[i] = toClient[i]
    /\ \A i \in DOMAIN toClient' :
          i \in DOMAIN toClient \/ (connected /\ i > Len(toClient) /\ toClient'[i] \in M)
    /\ connected => \A m \in M : \E i \in DOMAIN toClient' : toClient'[i] = m

Told(c, w, answer(_)) == {answer(c)} \cup {answer(id) : id \in {w.id} \ {Pump}}

LEMMA SaysNothing ==
  ASSUME Typed, UNCHANGED toClient \/ Send(<<>>)
  PROVE  Says({})
  <1>1. toClient \in Seq(Reply)
    BY DEF Typed, TypeOK
  <1>2. toClient' = toClient
    BY <1>1 DEF Send
  <1> QED BY <1>2 DEF Says

LEMMA SaysOne ==
  ASSUME Typed, NEW m \in Reply, Send(<<m>>)
  PROVE  Says({m})
  <1>1. <<m>> \in Seq(Reply) /\ DOMAIN <<m>> = {1} /\ <<m>>[1] = m
    OBVIOUS
  <1>2. PICK ms \in Seq(Reply) : ms = <<m>>
    BY <1>1
  <1>3. DOMAIN ms = {1} /\ ms[1] = m /\ Send(ms)
    BY <1>1, <1>2
  <1>4. \A i \in DOMAIN ms : ms[i] = m
    BY <1>3
  <1> QED BY <1>3, <1>4, SentIs DEF Says

LEMMA SaysTwo ==
  ASSUME Typed, NEW a \in Reply, NEW b \in Reply, Send(<<a, b>>)
  PROVE  Says({a, b})
  <1>1. <<a, b>> \in Seq(Reply) /\ DOMAIN <<a, b>> = {1, 2} /\ <<a, b>>[1] = a /\ <<a, b>>[2] = b
    OBVIOUS
  <1>2. PICK ms \in Seq(Reply) : ms = <<a, b>>
    BY <1>1
  <1>3. DOMAIN ms = {1, 2} /\ ms[1] = a /\ ms[2] = b /\ Send(ms)
    BY <1>1, <1>2
  <1>4. \A i \in DOMAIN ms : ms[i] \in {a, b}
    BY <1>3
  <1> QED BY <1>3, <1>4, SentIs DEF Says

LEMMA SaysBoth ==
  ASSUME Typed, NEW c \in Call, NEW w, w.id \in {Pump} \cup ControlId
  PROVE  /\ Send(Both(c, w, Completed)) => Says(Told(c, w, Completed))
         /\ Send(Both(c, w, Error)) => Says(Told(c, w, Error))
         /\ Told(c, w, Completed) \cup Told(c, w, Error) \subseteq Reply
  <1>1. Completed(c) \in Reply /\ Error(c) \in Reply
    BY Messages
  <1>2. CASE w.id = Pump
    <2>1. /\ Both(c, w, Completed) = <<Completed(c)>> /\ Both(c, w, Error) = <<Error(c)>>
          /\ Told(c, w, Completed) = {Completed(c)} /\ Told(c, w, Error) = {Error(c)}
      BY <1>2 DEF Both, Told
    <2> QED BY <1>1, <2>1, SaysOne
  <1>3. CASE w.id # Pump
    <2>1. Completed(w.id) \in Reply /\ Error(w.id) \in Reply
      BY <1>3, Messages
    <2>2. /\ Both(c, w, Completed) = <<Completed(c), Completed(w.id)>>
          /\ Both(c, w, Error) = <<Error(c), Error(w.id)>>
          /\ Told(c, w, Completed) = {Completed(c), Completed(w.id)}
          /\ Told(c, w, Error) = {Error(c), Error(w.id)}
      BY <1>3 DEF Both, Told
    <2> QED BY <1>1, <2>1, <2>2, SaysTwo
  <1> QED BY <1>2, <1>3

LEMMA Kinds ==
  /\ \A id : Completed(id).reply = "Completed" /\ Completed(id).id = id
  /\ \A id : Error(id).reply = "Error" /\ Error(id).id = id
  /\ \A c : Started(c).reply = "Stream" /\ Started(c).id = c
  /\ \A c, v : Chunk(c, v).reply = "Chunk" /\ Chunk(c, v).id = c /\ Chunk(c, v).value = v
  BY DEF Completed, Error, Started, Chunk

LEMMA PairOf ==
  ASSUME NEW S, NEW a \in S, NEW b \in S
  PROVE  <<a>> \o <<b>> = <<a, b>> /\ <<a>> \o <<>> = <<a>>
  <1>1. PICK p \in Seq(S), q \in Seq(S), r \in Seq(S) : p = <<a>> /\ q = <<b>> /\ r = <<a, b>>
    <2>1. <<a>> \in Seq(S) /\ <<b>> \in Seq(S) /\ <<a, b>> \in Seq(S)
      OBVIOUS
    <2> QED BY <2>1
  <1>2. /\ Len(p) = 1 /\ p[1] = a /\ 1 \in DOMAIN p
        /\ Len(q) = 1 /\ q[1] = b /\ 1 \in DOMAIN q
        /\ Len(r) = 2 /\ r[1] = a /\ r[2] = b
    BY <1>1
  <1>3. /\ p \o q \in Seq(S) /\ Len(p \o q) = Len(p) + Len(q)
        /\ (p \o q)[1] = p[1] /\ (p \o q)[Len(p) + 1] = q[1]
    BY <1>2, ConcatOf
  <1>4. Len(p \o q) = 2 /\ (p \o q)[1] = a /\ (p \o q)[2] = b
    BY <1>2, <1>3
  <1>5. p \o q = r
    BY <1>2, <1>3, <1>4, SeqEqual
  <1>6. <<a>> \o <<>> = <<a>>
    OBVIOUS
  <1> QED BY <1>1, <1>5, <1>6

(* What each step of the server says.                                      *)
LEMMA ReceiveSays ==
  ASSUME Typed, NEW r \in Request
  PROVE  /\ ReceiveCall(r) => \E ruling \in {"refused", "delayed", "admitted"} :
               /\ execution' = [execution EXCEPT ![r.call].state = ruling]
               /\ Says(IF ruling = "refused" THEN {Error(r.id)} ELSE {})
         /\ ReceiveControl(r) =>
               \/ Says({Error(r.id)}) /\ UNCHANGED handling
               \/ /\ r.call \in invocations /\ Says({}) /\ handling' = Append(handling, r)
  <1>1. Error(r.id) \in Reply
    BY Requests, Messages
  <1>2. Send(<<Error(r.id)>>) => Says({Error(r.id)})
    BY <1>1, SaysOne
  <1>3. Send(<<>>) \/ UNCHANGED toClient => Says({})
    BY SaysNothing
  <1>4. ASSUME NEW ruling \in {"refused", "delayed", "admitted"},
               Send(IF ruling = "refused" THEN <<Error(r.id)>> ELSE <<>>)
        PROVE  Says(IF ruling = "refused" THEN {Error(r.id)} ELSE {})
    <2>1. CASE ruling = "refused"
      BY <1>2, <1>4, <2>1
    <2>2. CASE ruling # "refused"
      BY <1>3, <1>4, <2>2
    <2> QED BY <2>1, <2>2
  <1> QED BY <1>2, <1>3, <1>4 DEF ReceiveCall, ReceiveControl

LEMMA FunctionSays ==
  ASSUME Typed, NEW c \in Call
  PROVE  /\ DelayEnds(c) => Says({})
         /\ ResultSettles(c) => Says({Completed(c)}) \/ Says({Error(c)})
         /\ Execute(c) =>
               \/ Says({Error(c)}) /\ execution' = [execution EXCEPT ![c].state = "over"]
                  /\ UNCHANGED <<pulling, invocations>>
               \/ Says({}) /\ execution' = [execution EXCEPT ![c].state = "running"]
                  /\ UNCHANGED <<pulling, invocations>>
               \/ /\ Says({Started(c)}) /\ execution' = [execution EXCEPT ![c].state = "streaming"]
                  /\ stream[c].mode # "None" /\ invocations' = invocations \cup {c}
                  /\ pulling' = [pulling EXCEPT ![c] =
                            IF stream[c].mode = "Push" THEN <<Waiting(Pump)>> ELSE <<>>]
  <1>1. Completed(c) \in Reply /\ Error(c) \in Reply /\ Started(c) \in Reply
    BY Messages
  <1>2. /\ Send(<<Error(c)>>) => Says({Error(c)})
        /\ Send(<<Completed(c)>>) => Says({Completed(c)})
        /\ Send(<<Started(c)>>) => Says({Started(c)})
        /\ UNCHANGED toClient => Says({})
    BY <1>1, SaysOne, SaysNothing
  <1> QED BY <1>2 DEF DelayEnds, ResultSettles, Execute

LEMMA HandlerSays ==
  ASSUME Typed, NEW r \in Request, r.op # "invoke"
  PROVE  /\ PullStream(r) =>
               IF execution[r.call].ended
               THEN /\ invocations' = invocations \ {r.call} /\ Says(Told(r.call, r, Completed))
                    /\ UNCHANGED <<execution, pulling>>
               ELSE /\ pulling' = [pulling EXCEPT ![r.call] = Append(@, Waiting(r.id))]
                    /\ Says({}) /\ UNCHANGED <<execution, invocations>>
         /\ TerminateExecution(r) =>
               /\ invocations' = invocations \ {r.call}
               /\ IF execution[r.call].ended
                  THEN Says(Told(r.call, r, Completed)) /\ UNCHANGED <<execution, pulling>>
                  ELSE /\ execution' = [execution EXCEPT ![r.call].ended = TRUE]
                       /\ pulling' = [pulling EXCEPT ![r.call] =
                                         Append(@, [id |-> r.id, at |-> "return"])]
                       /\ Says({})
         /\ \A h \in BOOLEAN : Pause(r, h) =>
               /\ \E x \in BOOLEAN : execution' = [execution EXCEPT ![r.call].halted = x]
               /\ Says({Completed(r.id)}) \/ Says({Error(r.id)})
               /\ UNCHANGED <<pulling, invocations>>
  <1>1. r.call \in Call /\ r.id \in ControlId
    BY Requests
  <1>2. /\ Send(Both(r.call, r, Completed)) => Says(Told(r.call, r, Completed))
        /\ UNCHANGED toClient => Says({})
    BY <1>1, SaysBoth, SaysNothing
  <1>3. ASSUME NEW h \in BOOLEAN, Pause(r, h)
        PROVE  /\ \E x \in BOOLEAN : execution' = [execution EXCEPT ![r.call].halted = x]
               /\ Says({Completed(r.id)}) \/ Says({Error(r.id)})
               /\ UNCHANGED <<pulling, invocations>>
    <2>1. /\ execution \in [Call -> Execution] /\ execution[r.call].halted \in BOOLEAN
          /\ execution[r.call] \in Execution
      BY <1>1 DEF Typed, TypeOK, Execution
    <2>2. \E x \in BOOLEAN : execution' = [execution EXCEPT ![r.call].halted = x]
      BY <1>3, <2>1 DEF Pause
    <2>3. Completed(r.id) \in Reply /\ Error(r.id) \in Reply
      BY <1>1, Messages
    <2>4. Send(<<Completed(r.id)>>) \/ Send(<<Error(r.id)>>)
      BY <1>3 DEF Pause
    <2> QED BY <1>3, <2>2, <2>3, <2>4, SaysOne DEF Pause
  <1> QED BY <1>2, <1>3 DEF PullStream, TerminateExecution

(* q is what waits on the iterator and w = q[i] the one that moves.        *)
LEMMA WakeSays ==
  ASSUME Typed, NEW c \in Call, Wake(c)
  PROVE  \E q \in Seq(Waiter), w \in Waiter : \E i \in DOMAIN q :
            /\ q = pulling[c] /\ w = q[i] /\ w.at = "halt" /\ w.id \in {Pump} \cup ControlId
            /\ \/ /\ execution[c].ended
                  /\ pulling' = [pulling EXCEPT ![c] = RemoveAt(q, i)]
                  /\ invocations' = invocations \ {c} /\ Says(Told(c, w, Completed))
               \/ /\ ~execution[c].ended
                  /\ pulling' = [pulling EXCEPT
                                    ![c] = Append(RemoveAt(q, i), [w EXCEPT !.at = "next"])]
                  /\ UNCHANGED invocations /\ Says({})
  <1>1. PICK q \in Seq(Waiter) : q = pulling[c]
    BY DEF Typed, TypeOK
  <1>2. PICK i \in DOMAIN q :
          /\ q[i].at = "halt"
          /\ IF execution[c].ended
             THEN /\ pulling' = [pulling EXCEPT ![c] = RemoveAt(q, i)]
                  /\ invocations' = invocations \ {c}
                  /\ Send(Both(c, q[i], Completed))
             ELSE /\ pulling' = [pulling EXCEPT
                         ![c] = Append(RemoveAt(q, i), [q[i] EXCEPT !.at = "next"])]
                  /\ UNCHANGED <<invocations, toClient>>
    BY <1>1 DEF Wake, Typed, TypeOK
  <1>3. PICK w \in Waiter : w = q[i]
    OBVIOUS
  <1>4. w.id \in {Pump} \cup ControlId
    BY DEF Waiter
  <1>5. /\ Send(Both(c, w, Completed)) => Says(Told(c, w, Completed))
        /\ UNCHANGED toClient => Says({})
    BY <1>4, SaysBoth, SaysNothing
  <1> QED BY <1>1, <1>2, <1>3, <1>4, <1>5

Moves(c, q, i, w) ==
    /\ q = pulling[c] /\ i \in DOMAIN q /\ w = q[i] /\ w.id \in {Pump} \cup ControlId

Yields(c, q, i, w, v) ==
    /\ w.at = "next" /\ execution[c].state = "streaming" /\ v = execution[c].produced + 1
    /\ execution' = [execution EXCEPT ![c].produced = v]
    /\ \/ /\ w.id = Pump /\ execution[c].ended
          /\ pulling' = [pulling EXCEPT ![c] = RemoveAt(q, i)]
          /\ invocations' = invocations \ {c}
          /\ Send(<<Chunk(c, v), Completed(c)>>)
       \/ /\ w.id = Pump /\ ~execution[c].ended
          /\ pulling' = [pulling EXCEPT ![c] = [q EXCEPT ![i] = Waiting(Pump)]]
          /\ UNCHANGED invocations /\ Send(<<Chunk(c, v)>>)
       \/ /\ w.id # Pump
          /\ pulling' = [pulling EXCEPT ![c] = RemoveAt(q, i)]
          /\ UNCHANGED invocations /\ Send(<<Chunk(c, v), Completed(w.id)>>)

Ends(c, q, i, w) ==
    /\ pulling' = [pulling EXCEPT ![c] = RemoveAt(q, i)]
    /\ invocations' = invocations \ {c}
    /\ \/ /\ execution' = [execution EXCEPT ![c].ended = TRUE, ![c].state = "over"]
          /\ Says(Told(c, w, Completed))
       \/ /\ execution' = [execution EXCEPT ![c].state = "over"]
          /\ w.at = "next" /\ execution[c].state = "streaming"
          /\ Says(Told(c, w, Error))

LEMMA IteratorSays ==
  ASSUME Typed, NEW c \in Call, Yield(c) \/ IteratorEnds(c)
  PROVE  \E q \in Seq(Waiter), w \in Waiter : \E i \in DOMAIN q :
            /\ Moves(c, q, i, w) /\ i = First(c) /\ w.at \in {"next", "return"}
            /\ \/ \E v \in 1 .. MaxItem : Yields(c, q, i, w, v)
               \/ Ends(c, q, i, w)
  <1>1. PICK q \in Seq(Waiter) : q = pulling[c]
    BY DEF Typed, TypeOK
  <1>2. PICK i \in DOMAIN q : i = First(c) /\ q[i].at # "halt"
    BY <1>1, FirstIs DEF Yield, IteratorEnds
  <1>3. PICK w \in Waiter : w = q[i]
    OBVIOUS
  <1>4. w.id \in {Pump} \cup ControlId /\ w.at \in {"next", "return"}
    BY <1>2, <1>3 DEF Waiter
  <1>5. CASE Yield(c)
    <2>1. PICK v \in 1 .. MaxItem : v = execution[c].produced + 1
      BY <1>5, Ids DEF Yield, Typed, TypeOK, Execution
    <2>2. /\ w.at = "next" /\ execution[c].state = "streaming"
          /\ execution' = [execution EXCEPT ![c].produced = v]
          /\ invocations' = IF w.id = Pump /\ execution[c].ended THEN invocations \ {c}
                            ELSE invocations
      BY <1>1, <1>2, <1>3, <1>5, <2>1 DEF Yield
    <2>3. pulling' = [pulling EXCEPT ![c] =
                        IF w.id = Pump /\ ~execution[c].ended THEN [q EXCEPT ![i] = Waiting(Pump)]
                        ELSE RemoveAt(q, i)]
      BY <1>1, <1>2, <1>3, <1>5 DEF Yield, Typed, TypeOK
    <2>4. \A a \in Reply, b \in Reply : <<a>> \o <<b>> = <<a, b>> /\ <<a>> \o <<>> = <<a>>
      BY PairOf
    <2>7. /\ Chunk(c, v) \in Reply /\ Completed(c) \in Reply
          /\ w.id # Pump => Completed(w.id) \in Reply
      BY <1>4, Messages
    <2>5. Send(<<Chunk(c, v)>> \o (CASE w.id = Pump /\ execution[c].ended -> <<Completed(c)>>
                                      [] w.id # Pump   -> <<Completed(w.id)>>
                                      [] OTHER         -> <<>>))
      BY <1>1, <1>2, <1>3, <1>5, <2>1 DEF Yield
    <2>6. \/ w.id = Pump /\ execution[c].ended /\ Send(<<Chunk(c, v), Completed(c)>>)
          \/ w.id = Pump /\ ~execution[c].ended /\ Send(<<Chunk(c, v)>>)
          \/ w.id # Pump /\ Send(<<Chunk(c, v), Completed(w.id)>>)
      <3>1. CASE w.id = Pump /\ execution[c].ended
        BY <2>4, <2>5, <2>7, <3>1
      <3>2. CASE w.id = Pump /\ ~execution[c].ended
        BY <2>4, <2>5, <2>7, <3>2
      <3>3. CASE w.id # Pump
        BY <2>4, <2>5, <2>7, <3>3
      <3> QED BY <3>1, <3>2, <3>3
    <2>8. Yields(c, q, i, w, v)
      BY <2>1, <2>2, <2>3, <2>6 DEF Yields
    <2> QED BY <1>1, <1>2, <1>3, <1>4, <2>8 DEF Moves
  <1>6. CASE IteratorEnds(c)
    <2>1. /\ Send(Both(c, w, Completed)) => Says(Told(c, w, Completed))
          /\ Send(Both(c, w, Error)) => Says(Told(c, w, Error))
      BY <1>4, SaysBoth
    <2>2. /\ pulling' = [pulling EXCEPT ![c] = RemoveAt(q, i)]
          /\ invocations' = invocations \ {c}
          /\ \/ /\ execution' = [execution EXCEPT ![c].ended = TRUE, ![c].state = "over"]
                /\ Send(Both(c, w, Completed))
             \/ /\ execution' = [execution EXCEPT ![c].state = "over"]
                /\ w.at = "next" /\ execution[c].state = "streaming"
                /\ Send(Both(c, w, Error))
      BY <1>1, <1>2, <1>3, <1>6 DEF IteratorEnds, Typed, TypeOK
    <2>3. Ends(c, q, i, w)
      BY <2>1, <2>2 DEF Ends
    <2> QED BY <1>1, <1>2, <1>3, <1>4, <2>3 DEF Moves
  <1> QED BY <1>5, <1>6

LEMMA InvokesKept ==
  ASSUME Staged, calls' = calls,
         \A c \in Call : execution[c].state = "none" => execution'[c].state = "none",
         \/ toServer' \in {toServer, <<>>}
         \/ toServer # <<>> /\ toServer' = Tail(toServer)
         \/ \E r \in Request : r.op # "invoke" /\ toServer' = Append(toServer, r)
  PROVE  InvokesWait'
  <1>1. toServer \in Seq(Request) /\ \A i \in DOMAIN toServer : toServer[i].call \in Call
    BY Requests DEF Staged, Asking, Typed, TypeOK
  <1>2. \A c \in Call : c > calls' => execution'[c].state = "none"
    BY DEF Staged, InvokesWait
  <1>3. CASE toServer' = toServer
    BY <1>1, <1>2, <1>3 DEF Staged, InvokesWait
  <1>4. CASE toServer' = <<>>
    BY <1>2, <1>4 DEF InvokesWait
  <1>5. CASE toServer # <<>> /\ toServer' = Tail(toServer)
    <2>1. \A i \in DOMAIN toServer' : i \in Nat /\ i + 1 \in DOMAIN toServer /\ toServer'[i] = toServer[i + 1]
      BY <1>1, <1>5, TailOf
    <2>2. \A i \in DOMAIN toServer' : \A j \in DOMAIN toServer' : i + 1 = j + 1 => i = j
      BY <2>1
    <2> QED BY <1>1, <1>2, <2>1, <2>2 DEF Staged, InvokesWait
  <1>6. ASSUME NEW r \in Request, r.op # "invoke", toServer' = Append(toServer, r)
        PROVE  InvokesWait'
    <2>1. /\ toServer'[Len(toServer) + 1] = r
          /\ \A i \in DOMAIN toServer' : i \in DOMAIN toServer \/ i = Len(toServer) + 1
          /\ \A i \in DOMAIN toServer : toServer'[i] = toServer[i]
      BY <1>1, <1>6, AppendOf
    <2> QED BY <1>1, <1>2, <1>6, <2>1 DEF Staged, InvokesWait
  <1> QED BY <1>3, <1>4, <1>5, <1>6

LEMMA BegunKept ==
  ASSUME Staged,
         \A c \in Call : Begun(c) => Begun(c)',
         \A i \in DOMAIN handling' :
            \/ \E j \in DOMAIN handling : handling'[i] = handling[j]
            \/ execution'[handling'[i].call].state \in {"streaming", "over"},
         \A i \in DOMAIN toClient' : toClient'[i].reply = "Stream" =>
            \/ \E j \in DOMAIN toClient : toClient'[i] = toClient[j]
            \/ /\ toClient'[i].id \in Call
               /\ execution'[toClient'[i].id].state \in {"streaming", "over"},
         \A c \in Call : pulling'[c] # <<>> \/ stream'[c].started =>
                            pulling[c] # <<>> \/ stream[c].started \/ Begun(c)'
  PROVE  WorkIsBegun'
  <1>1. \A i \in DOMAIN handling : handling[i].call \in Call
    BY Requests DEF Staged, Asking, Typed, TypeOK
  <1>2. (\A i \in DOMAIN handling : Begun(handling[i].call))'
    BY <1>1 DEF Staged, WorkIsBegun, Begun
  <1>3. (\A i \in DOMAIN toClient : toClient[i].reply = "Stream" =>
           toClient[i].id \in Call /\ Begun(toClient[i].id))'
    BY DEF Staged, WorkIsBegun, Begun
  <1>4. (\A c \in Call : pulling[c] # <<>> \/ stream[c].started => Begun(c))'
    BY DEF Staged, WorkIsBegun
  <1> QED BY <1>2, <1>3, <1>4 DEF WorkIsBegun

(* A consumer's step: a request at most, and one stream changed.           *)
LEMMA ConsumerAsks ==
  ASSUME Asking, NEW c \in Call, Consumer(c)
  PROVE  \E t \in Stream :
            /\ Consumes(stream[c], t)
            /\ \/ stream' = [stream EXCEPT ![c] = t]
               \/ ~connected /\ stream' = [stream EXCEPT ![c] = Failed(t)]
            /\ \/ UNCHANGED <<requests, toServer>>
               \/ \E r \in Request : /\ r.op \in Control /\ r.op # "invoke" /\ r.call = c
                                     /\ requests' = requests \cup {r}
                                     /\ toServer' = Append(toServer, r)
            /\ \/ ~connected \/ t.terminated = stream[c].terminated
               \/ \E r \in Request : /\ r.op = "terminate" /\ r.call = c
                                     /\ toServer' = Append(toServer, r)
            /\ UNCHANGED <<connected, calls, jobs, toClient, server>>
  <1>1. PICK t : /\ Consumes(stream[c], t)
                 /\ \/ StreamOnly(c, t) /\ t.terminated = stream[c].terminated
                    \/ \E op \in Control :
                          /\ Ask(op, c, t)
                          /\ op # "terminate" => t.terminated = stream[c].terminated
    BY ConsumerSteps DEF Asking
  <1>2. t \in Stream
    BY <1>1, ConsumesStream DEF Asking, Typed, TypeOK
  <1>3. CASE StreamOnly(c, t) /\ t.terminated = stream[c].terminated
    BY <1>1, <1>2, <1>3 DEF StreamOnly
  <1>4. ASSUME NEW op \in Control, Ask(op, c, t), ~connected,
               op # "terminate" => t.terminated = stream[c].terminated
        PROVE  /\ \/ stream' = [stream EXCEPT ![c] = t]
                  \/ ~connected /\ stream' = [stream EXCEPT ![c] = Failed(t)]
               /\ UNCHANGED <<requests, toServer>>
               /\ UNCHANGED <<connected, calls, jobs, toClient, server>>
    BY <1>4 DEF Ask
  <1>5. ASSUME NEW op \in Control, Ask(op, c, t), connected,
               op # "terminate" => t.terminated = stream[c].terminated
        PROVE  /\ stream' = [stream EXCEPT ![c] = t]
               /\ \E r \in Request : /\ r.op = op /\ r.op # "invoke" /\ r.call = c
                                     /\ requests' = requests \cup {r}
                                     /\ toServer' = Append(toServer, r)
               /\ UNCHANGED <<connected, calls, jobs, toClient, server>>
    <2>1. PICK r : r = [id |-> Least(Unused), op |-> op, call |-> c]
      OBVIOUS
    <2>2. Least(Unused) \in Unused
      <3>1. Unused \in SUBSET Nat /\ Unused # {}
        BY <1>5, Ids DEF Ask, Unused
      <3> QED BY <3>1, LeastIs
    <2>3. r \in Request /\ r.op = op /\ r.op # "invoke" /\ r.call = c
      BY <2>1, <2>2 DEF Unused, Request, Control
    <2>4. requests' = requests \cup {r} /\ toServer' = Append(toServer, r)
      BY <1>5, <2>1 DEF Ask
    <2> QED BY <1>5, <2>3, <2>4 DEF Ask
  <1> QED BY <1>1, <1>2, <1>3, <1>4, <1>5

LEMMA ConsumerStaged ==
  ASSUME Staged, Asking', NEW c \in Call, Consumer(c)
  PROVE  Staged'
  <1>1. PICK t \in Stream :
            /\ Consumes(stream[c], t)
            /\ \/ stream' = [stream EXCEPT ![c] = t]
               \/ ~connected /\ stream' = [stream EXCEPT ![c] = Failed(t)]
            /\ \/ UNCHANGED <<requests, toServer>>
               \/ \E r \in Request : /\ r.op \in Control /\ r.op # "invoke" /\ r.call = c
                                     /\ requests' = requests \cup {r}
                                     /\ toServer' = Append(toServer, r)
            /\ UNCHANGED <<connected, calls, jobs, toClient, server>>
    BY ConsumerAsks DEF Staged
  <1>2. UNCHANGED <<calls, toClient, execution, pulling, invocations, handling>>
    BY <1>1 DEF server
  <1>3. stream[c] \in Stream /\ stream \in [Call -> Stream]
    BY DEF Staged, Asking, Typed, TypeOK
  <1>4. \A d \in Call : stream'[d].started = stream[d].started /\ stream'[d].mode = stream[d].mode
    BY <1>1, <1>3, ConsumesKeeps
  <1>5. InvokesWait'
    BY <1>1, <1>2, InvokesKept
  <1>6. WorkIsBegun'
    BY <1>2, <1>4, BegunKept DEF Staged, WorkIsBegun, Begun
  <1>7. StreamsHaveMode'
    BY <1>2, <1>4 DEF Staged, StreamsHaveMode
  <1> QED BY <1>5, <1>6, <1>7 DEF Staged

LEMMA InvokeStaged ==
  ASSUME Staged, Asking', Invoke
  PROVE  Staged'
  <1>1. PICK r : r = [id |-> calls + 1, op |-> "invoke", call |-> calls + 1]
    OBVIOUS
  <1>2. calls \in Nat /\ calls + 1 \in Call /\ calls' = calls + 1
    BY Ids DEF Invoke, Staged, Asking, Typed, TypeOK, Call
  <1>3. r \in Request /\ toServer' = Append(toServer, r)
    BY <1>1, <1>2 DEF Request, Invoke
  <1>4. UNCHANGED <<toClient, execution, pulling, invocations, handling>>
    BY DEF Invoke, server
  <1>5. toServer \in Seq(Request)
        /\ \A i \in DOMAIN toServer : toServer[i].call \in Call /\ toServer[i].call <= calls
    BY Requests DEF Staged, Asking, Typed, TypeOK, RequestsAreAsked, Asked
  <1>6. /\ toServer'[Len(toServer) + 1] = r
        /\ \A i \in DOMAIN toServer' : i \in DOMAIN toServer \/ i = Len(toServer) + 1
        /\ \A i \in DOMAIN toServer : toServer'[i] = toServer[i]
    BY <1>3, <1>5, AppendOf
  <1>7. InvokesWait'
    <2>1. \A c \in Call : c > calls' => execution'[c].state = "none"
      BY <1>2, <1>4, Ids DEF Staged, InvokesWait
    <2>2. execution[calls + 1].state = "none"
      BY <1>2 DEF Staged, InvokesWait
    <2>3. \A i \in DOMAIN toServer : toServer[i].call # r.call
      BY <1>1, <1>2, <1>5, Ids
    <2>4. \A i \in DOMAIN toServer' : toServer'[i].op = "invoke" =>
             execution'[toServer'[i].call].state = "none"
      BY <1>1, <1>4, <1>6, <2>2 DEF Staged, InvokesWait
    <2>5. \A i, j \in DOMAIN toServer' :
              toServer'[i].op = "invoke" /\ toServer'[j].op = "invoke" /\ toServer'[j].call = toServer'[i].call
                => j = i
      BY <1>6, <2>3 DEF Staged, InvokesWait
    <2> QED BY <2>1, <2>4, <2>5 DEF InvokesWait
  <1>8. PICK m \in Mode, p \in BOOLEAN : stream' = [stream EXCEPT ![calls + 1] = NewStream(m, p)]
    BY DEF Invoke
  <1>9. /\ stream'[calls + 1].started = FALSE
        /\ \A c \in Call : c # calls + 1 => stream'[c] = stream[c]
        /\ stream[calls + 1] = Uncalled
    BY <1>2, <1>8 DEF Staged, Asking, Typed, TypeOK, NewStream, Unasked
  <1>10. WorkIsBegun'
    BY <1>2, <1>4, <1>9, BegunKept DEF Staged, WorkIsBegun, Begun
  <1>11. StreamsHaveMode'
    <2>1. stream[calls + 1].mode = "None"
      BY <1>9 DEF Uncalled, NewStream
    <2> QED BY <1>2, <1>4, <1>9, <2>1 DEF Staged, StreamsHaveMode
  <1> QED BY <1>7, <1>10, <1>11 DEF Staged

LEMMA ReceivedMode ==
  ASSUME NEW s \in Stream
  PROVE  /\ Failed(s).mode = s.mode /\ StreamStarted(s).mode = s.mode
         /\ Triggered(StreamCompleted(s)).mode = s.mode
         /\ \A v : ReceiveItem(s, v).mode = s.mode
         /\ Failed(s).started = s.started /\ Triggered(StreamCompleted(s)).started = s.started
         /\ \A v : ReceiveItem(s, v).started = s.started
  BY DEF Failed, StreamStarted, Triggered, StreamCompleted, ReceiveItem, Woken, Stream

LEMMA ReplyStaged ==
  ASSUME Staged, Asking', DispatchReply
  PROVE  Staged'
  <1>1. /\ toClient \in Seq(Reply) /\ toClient # <<>> /\ toClient' = Tail(toClient)
        /\ stream \in [Call -> Stream]
        /\ UNCHANGED <<calls, toServer, execution, pulling, invocations, handling>>
    BY DEF DispatchReply, server, Staged, Asking, Typed, TypeOK
  <1>2. /\ \A i \in DOMAIN toClient' : \E j \in DOMAIN toClient : toClient'[i] = toClient[j]
        /\ 1 \in DOMAIN toClient /\ Head(toClient) = toClient[1]
    BY <1>1, TailOf
  <1>3. \A c \in Call : /\ stream'[c].mode = stream[c].mode
                        /\ stream'[c].started => stream[c].started \/ Begun(c)'
    <2>1. CASE stream' = stream
      BY <2>1
    <2>2. ASSUME NEW r \in requests, r.id = Head(toClient).id, Replied(Head(toClient), r)
          PROVE  \A c \in Call : /\ stream'[c].mode = stream[c].mode
                                 /\ stream'[c].started => stream[c].started \/ Begun(c)'
      <3>1. r \in Request /\ r.call \in Call /\ Asked(r) /\ stream[r.call] \in Stream
        BY Requests DEF Staged, Asking, Typed, TypeOK, RequestsAreAsked
      <3>2. /\ Failed(stream[r.call]).mode = stream[r.call].mode
            /\ Failed(stream[r.call]).started = stream[r.call].started
            /\ StreamStarted(stream[r.call]).mode = stream[r.call].mode
        BY <3>1, ReceivedMode
      <3>3. Head(toClient).reply = "Stream" => Begun(r.call)
        <4>1. Head(toClient).reply = "Stream" => r.id \in Call /\ Begun(r.id)
          BY <1>2, <2>2 DEF Staged, WorkIsBegun
        <4>2. r.id \in Call => r.call = r.id
          BY <3>1, Requests, Ids DEF Asked
        <4> QED BY <4>1, <4>2
      <3>4. \/ stream' = stream
            \/ stream' = [stream EXCEPT ![r.call] = Failed(@)]
            \/ stream' = [stream EXCEPT ![r.call] = StreamStarted(@)] /\ Head(toClient).reply = "Stream"
        BY <2>2 DEF Replied, ReplyError
      <3> QED BY <1>1, <3>1, <3>2, <3>3, <3>4 DEF Begun
    <2> QED BY <2>1, <2>2 DEF DispatchReply, Replied
  <1>4. InvokesWait'
    BY <1>1, InvokesKept
  <1>5. WorkIsBegun'
    BY <1>1, <1>2, <1>3, BegunKept DEF Staged, WorkIsBegun, Begun
  <1>6. StreamsHaveMode'
    BY <1>1, <1>3 DEF Staged, StreamsHaveMode
  <1> QED BY <1>4, <1>5, <1>6 DEF Staged

LEMMA DecodeStaged ==
  ASSUME Staged, Asking', NEW c \in Call, Decode(c)
  PROVE  Staged'
  <1>1. /\ stream \in [Call -> Stream] /\ stream[c] \in Stream
        /\ UNCHANGED <<calls, toServer, toClient, execution, pulling, invocations, handling>>
    BY DEF Decode, server, Staged, Asking, Typed, TypeOK
  <1>2. \A d \in Call : stream'[d].mode = stream[d].mode /\ stream'[d].started = stream[d].started
    BY <1>1, ReceivedMode DEF Decode
  <1>3. InvokesWait'
    BY <1>1, InvokesKept
  <1>4. WorkIsBegun'
    BY <1>1, <1>2, BegunKept DEF Staged, WorkIsBegun, Begun
  <1>5. StreamsHaveMode'
    BY <1>1, <1>2 DEF Staged, StreamsHaveMode
  <1> QED BY <1>3, <1>4, <1>5 DEF Staged

(* The same as what an iterator's step says, whatever the order.           *)
LEMMA IteratorTells ==
  ASSUME Typed, NEW c \in Call, Yield(c) \/ IteratorEnds(c)
  PROVE  \E w \in Waiter :
            \/ \E v \in 1 .. MaxItem :
                  \/ Says({Chunk(c, v), Completed(c)})
                  \/ Says({Chunk(c, v)})
                  \/ Says({Chunk(c, v), Completed(w.id)})
            \/ Says(Told(c, w, Completed)) \/ Says(Told(c, w, Error))
  <1>1. ASSUME NEW w \in Waiter, NEW v \in 1 .. MaxItem, w.id \in {Pump} \cup ControlId
        PROVE  /\ Send(<<Chunk(c, v), Completed(c)>>) => Says({Chunk(c, v), Completed(c)})
               /\ Send(<<Chunk(c, v)>>) => Says({Chunk(c, v)})
               /\ w.id # Pump /\ Send(<<Chunk(c, v), Completed(w.id)>>)
                    => Says({Chunk(c, v), Completed(w.id)})
    <2>1. /\ Chunk(c, v) \in Reply /\ Completed(c) \in Reply
          /\ w.id # Pump => Completed(w.id) \in Reply
      BY <1>1, Messages
    <2> QED BY <2>1, SaysOne, SaysTwo
  <1>2. PICK q \in Seq(Waiter), w \in Waiter, i \in Nat :
           /\ Moves(c, q, i, w)
           /\ \/ \E v \in 1 .. MaxItem : Yields(c, q, i, w, v)
              \/ Ends(c, q, i, w)
    <2>1. \A q \in Seq(Waiter) : DOMAIN q \subseteq Nat
      OBVIOUS
    <2> QED BY <2>1, IteratorSays
  <1>3. CASE Ends(c, q, i, w)
    BY <1>3 DEF Ends
  <1>4. ASSUME NEW v \in 1 .. MaxItem, Yields(c, q, i, w, v)
        PROVE  \/ Says({Chunk(c, v), Completed(c)})
               \/ Says({Chunk(c, v)})
               \/ Says({Chunk(c, v), Completed(w.id)})
    BY <1>1, <1>2, <1>4 DEF Moves, Yields
  <1> QED BY <1>2, <1>3, <1>4

NoNews == \E M : Says(M) /\ \A m \in M : m.reply # "Stream"

LEMMA NoNewsIs ==
  /\ Says({}) => NoNews
  /\ \A id : Says({Completed(id)}) \/ Says({Error(id)}) => NoNews
  /\ \A c, w : Says(Told(c, w, Completed)) \/ Says(Told(c, w, Error)) => NoNews
  /\ \A c, v, id : Says({Chunk(c, v), Completed(id)}) \/ Says({Chunk(c, v)}) => NoNews
  <1>1. \A M : Says(M) /\ (\A m \in M : m.reply # "Stream") => NoNews
    BY DEF NoNews
  <1>2. \A m \in {} : m.reply # "Stream"
    OBVIOUS
  <1>3. ASSUME NEW id
        PROVE  /\ \A m \in {Completed(id)} : m.reply # "Stream"
               /\ \A m \in {Error(id)} : m.reply # "Stream"
    BY Kinds
  <1>4. ASSUME NEW c, NEW w
        PROVE  /\ \A m \in Told(c, w, Completed) : m.reply # "Stream"
               /\ \A m \in Told(c, w, Error) : m.reply # "Stream"
    BY Kinds DEF Told
  <1>5. ASSUME NEW c, NEW v, NEW id
        PROVE  /\ \A m \in {Chunk(c, v), Completed(id)} : m.reply # "Stream"
               /\ \A m \in {Chunk(c, v)} : m.reply # "Stream"
    BY Kinds
  <1>6. Says({}) => NoNews
    BY <1>1, <1>2
  <1>7. \A id : Says({Completed(id)}) \/ Says({Error(id)}) => NoNews
    BY <1>1, <1>3
  <1>8. \A c, w : Says(Told(c, w, Completed)) \/ Says(Told(c, w, Error)) => NoNews
    BY <1>1, <1>4
  <1>9. \A c, v, id : Says({Chunk(c, v), Completed(id)}) \/ Says({Chunk(c, v)}) => NoNews
    BY <1>1, <1>5
  <1> QED BY <1>6, <1>7, <1>8, <1>9

(* The work of the server on a call: what is said is no news of a stream   *)
(* that has not begun, and what is pulled is pulled from one that has.     *)
LEMMA WorkStaged ==
  ASSUME Staged, Asking', UNCHANGED <<connected, client>>,
         \A c \in Call : execution[c].state = "none" => execution'[c].state = "none",
         \A c \in Call : Begun(c) => execution'[c].state \in {"streaming", "over"},
         toServer' = toServer \/ (toServer # <<>> /\ toServer' = Tail(toServer)),
         \A i \in DOMAIN handling' :
            \/ \E j \in DOMAIN handling : handling'[i] = handling[j]
            \/ execution'[handling'[i].call].state \in {"streaming", "over"},
         NEW M, Says(M),
         \A m \in M : m.reply = "Stream" =>
            m.id \in Call /\ execution'[m.id].state \in {"streaming", "over"},
         \A c \in Call : pulling'[c] # <<>> =>
            pulling[c] # <<>> \/ execution'[c].state \in {"streaming", "over"},
         \A c \in Call : c \in invocations' => execution'[c].state = "streaming",
         \A c \in Call : execution'[c].state = "streaming" \/ execution'[c].produced # execution[c].produced
                            => execution[c].state = "streaming" \/ stream[c].mode # "None"
  PROVE  Staged'
  <1>1. InvokesWait'
    BY InvokesKept DEF client
  <1>2. \A i \in DOMAIN toClient' : toClient'[i].reply = "Stream" =>
            \/ \E j \in DOMAIN toClient : toClient'[i] = toClient[j]
            \/ /\ toClient'[i].id \in Call
               /\ execution'[toClient'[i].id].state \in {"streaming", "over"}
    BY DEF Says
  <1>3. WorkIsBegun'
    BY <1>2, BegunKept DEF client, Begun
  <1>4. StreamsHaveMode'
    BY DEF client, Staged, StreamsHaveMode
  <1> QED BY <1>1, <1>3, <1>4 DEF Staged

LEMMA ReceiveCallStaged ==
  ASSUME Staged, Asking', NEW r \in requests, ReceiveCall(r)
  PROVE  Staged'
  <1>1. /\ r \in Request /\ r.call \in Call /\ r.op = "invoke"
        /\ r.id \in Call \cup ControlId
    BY Requests DEF ReceiveCall, Staged, Asking, Typed, TypeOK
  <1>2. /\ toServer \in Seq(Request) /\ toServer # <<>> /\ toServer' = Tail(toServer)
        /\ r = toServer[1] /\ 1 \in DOMAIN toServer
        /\ execution \in [Call -> Execution]
    BY TailOf DEF ReceiveCall, Receive, Staged, Asking, Typed, TypeOK
  <1>3. PICK ruling \in {"refused", "delayed", "admitted"} :
           /\ execution' = [execution EXCEPT ![r.call].state = ruling]
           /\ Says(IF ruling = "refused" THEN {Error(r.id)} ELSE {})
    BY <1>1, ReceiveSays DEF Staged, Asking
  <1>4. UNCHANGED <<connected, client, pulling, invocations, handling>>
    BY DEF ReceiveCall
  <1>5. /\ \A c \in Call : c # r.call => execution'[c] = execution[c]
        /\ execution'[r.call].state = ruling
    BY <1>1, <1>2, <1>3 DEF Execution
  <1>6. execution[r.call].state = "none"
    BY <1>1, <1>2 DEF Staged, InvokesWait
  <1>7. InvokesWait'
    <2>1. \A i \in DOMAIN toServer' : i \in Nat \ {0} /\ i + 1 \in DOMAIN toServer /\ toServer'[i] = toServer[i + 1]
      <3>1. Tail(toServer) \in Seq(Request)
        BY <1>2, TailOf
      <3> QED BY <1>2, <3>1, TailOf
    <2>2. \A i \in DOMAIN toServer' : \A j \in DOMAIN toServer' : i + 1 = j + 1 => i = j
      BY <2>1
    <2>3. \A i \in DOMAIN toServer : toServer[i].call \in Call
      BY <1>2, Requests
    <2>4. \A i \in DOMAIN toServer' : toServer'[i].op = "invoke" => toServer'[i].call # r.call
      <3>1. \A i \in DOMAIN toServer' : i + 1 # 1
        BY <2>1
      <3> QED BY <1>1, <1>2, <2>1, <3>1 DEF Staged, InvokesWait
    <2>5. calls' = calls /\ r.call <= calls /\ calls \in Nat
      BY <1>4, Ids DEF client, Staged, Asking, Typed, TypeOK, RequestsAreAsked, Asked
    <2>6. \A c \in Call : c > calls' => execution'[c].state = "none"
      <3>1. \A c \in Call : c > calls => c # r.call
        BY <1>1, <2>5, Ids
      <3>2. \A c \in Call : c > calls => execution[c].state = "none"
        BY DEF Staged, InvokesWait
      <3> QED BY <1>5, <2>5, <3>1, <3>2
    <2> QED BY <1>5, <2>1, <2>2, <2>3, <2>4, <2>6 DEF Staged, InvokesWait
  <1>8. \A i \in DOMAIN toClient' : toClient'[i].reply = "Stream" =>
           \E j \in DOMAIN toClient : toClient'[i] = toClient[j]
    BY <1>3, Kinds DEF Says
  <1>9. WorkIsBegun'
    BY <1>4, <1>5, <1>6, <1>8, BegunKept DEF client, Staged, WorkIsBegun, Begun
  <1>10. StreamsHaveMode'
    <2>1. execution'[r.call].produced = execution[r.call].produced
      BY <1>1, <1>2, <1>3 DEF Execution
    <2> QED BY <1>3, <1>4, <1>5, <1>6, <2>1 DEF client, Staged, StreamsHaveMode
  <1> QED BY <1>7, <1>9, <1>10 DEF Staged

LEMMA ReceiveControlStaged ==
  ASSUME Staged, Asking', NEW r \in requests, ReceiveControl(r)
  PROVE  Staged'
  <1>1. /\ r \in Request /\ r.call \in Call
        /\ toServer # <<>> /\ toServer' = Tail(toServer)
        /\ handling \in Seq(Request)
        /\ UNCHANGED <<connected, client, execution, pulling, invocations>>
    BY Requests DEF ReceiveControl, Receive, Staged, Asking, Typed, TypeOK
  <1>2. /\ \A c \in Call : execution[c].state = "none" => execution'[c].state = "none"
        /\ \A c \in Call : Begun(c) => execution'[c].state \in {"streaming", "over"}
        /\ \A c \in Call : pulling'[c] # <<>> => pulling[c] # <<>>
        /\ \A c \in Call : c \in invocations' => execution'[c].state = "streaming"
        /\ \A c \in Call : execution'[c].produced = execution[c].produced
                           /\ execution'[c].state = execution[c].state
    BY <1>1 DEF Staged, StreamsHaveMode, Begun
  <1>3. NoNews
    BY <1>1, ReceiveSays, NoNewsIs DEF Staged, Asking
  <1>4. \A i \in DOMAIN handling' :
            \/ \E j \in DOMAIN handling : handling'[i] = handling[j]
            \/ execution'[handling'[i].call].state \in {"streaming", "over"}
    <2>1. CASE handling' = handling
      BY <2>1
    <2>2. CASE r.call \in invocations /\ handling' = Append(handling, r)
      <3>1. \A i \in DOMAIN handling' :
              \/ \E j \in DOMAIN handling : handling'[i] = handling[j]
              \/ handling'[i] = r
        BY <1>1, <2>2, AppendOf
      <3>2. execution'[r.call].state = "streaming"
        BY <1>1, <2>2 DEF Staged, StreamsHaveMode
      <3> QED BY <3>1, <3>2
    <2> QED BY <1>1, <2>1, <2>2, ReceiveSays DEF Staged, Asking
  <1> QED BY <1>1, <1>2, <1>3, <1>4, WorkStaged DEF NoNews

LEMMA FunctionStaged ==
  ASSUME Staged, Asking', NEW c \in Call, DelayEnds(c) \/ Execute(c) \/ ResultSettles(c)
  PROVE  Staged'
  <1>1. /\ UNCHANGED <<connected, client, toServer, handling>>
        /\ execution \in [Call -> Execution] /\ pulling \in [Call -> Seq(Waiter)]
    BY DEF DelayEnds, Execute, ResultSettles, Staged, Asking, Typed, TypeOK
  <1>2. PICK st \in {"admitted", "running", "streaming", "over"} :
           /\ execution' = [execution EXCEPT ![c].state = st]
           /\ st = "streaming" => stream[c].mode # "None"
           /\ st # "streaming" => UNCHANGED <<pulling, invocations>>
           /\ invocations' \subseteq invocations \cup {c}
           /\ execution[c].state \in {"delayed", "admitted", "running"}
           /\ \A d \in Call : d # c => pulling'[d] = pulling[d]
    BY <1>1 DEF DelayEnds, Execute, ResultSettles
  <1>3. /\ \A d \in Call : d # c => execution'[d] = execution[d]
        /\ execution'[c].state = st /\ execution'[c].produced = execution[c].produced
    BY <1>1, <1>2 DEF Execution
  <1>4. \E M : /\ Says(M)
               /\ \A m \in M : m.reply = "Stream" =>
                    m.id \in Call /\ execution'[m.id].state \in {"streaming", "over"}
    <2>1. CASE DelayEnds(c) \/ ResultSettles(c)
      <3>1. NoNews
        BY <2>1, FunctionSays, NoNewsIs DEF Staged, Asking
      <3> QED BY <3>1 DEF NoNews
    <2>2. CASE Execute(c)
      <3>1. execution' = [execution EXCEPT ![c].state = "streaming"] => execution'[c].state = "streaming"
        BY <1>1 DEF Execution
      <3>2. CASE Says({Started(c)}) /\ execution'[c].state = "streaming"
        <4>1. \A m \in {Started(c)} : m.reply = "Stream" =>
                 m.id \in Call /\ execution'[m.id].state \in {"streaming", "over"}
          BY <3>2, Kinds
        <4> QED BY <3>2, <4>1
      <3>3. NoNews \/ (Says({Started(c)}) /\ execution'[c].state = "streaming")
        BY <2>2, <3>1, FunctionSays, NoNewsIs DEF Staged, Asking
      <3> QED BY <3>2, <3>3 DEF NoNews
    <2> QED BY <2>1, <2>2
  <1>5. /\ execution[c].state # "streaming" /\ c \notin invocations /\ ~Begun(c)
        /\ pulling[c] = <<>>
    BY <1>2 DEF Staged, StreamsHaveMode, WorkIsBegun, Begun
  <1>6. \A d \in Call : d \in invocations' => execution'[d].state = "streaming"
    BY <1>2, <1>3, <1>5 DEF Staged, StreamsHaveMode
  <1>7. \A d \in Call : pulling'[d] # <<>> =>
           pulling[d] # <<>> \/ execution'[d].state \in {"streaming", "over"}
    BY <1>2, <1>3
  <1>8. \A i \in DOMAIN handling' : \E j \in DOMAIN handling : handling'[i] = handling[j]
    BY <1>1
  <1>9. /\ \A d \in Call : execution[d].state = "none" => execution'[d].state = "none"
        /\ \A d \in Call : Begun(d) => execution'[d].state \in {"streaming", "over"}
    BY <1>2, <1>3, <1>5 DEF Begun
  <1>10. \A d \in Call : execution'[d].state = "streaming" \/ execution'[d].produced # execution[d].produced
                            => execution[d].state = "streaming" \/ stream[d].mode # "None"
    BY <1>2, <1>3
  <1> QED BY <1>1, <1>4, <1>6, <1>7, <1>8, <1>9, <1>10, WorkStaged

LEMMA HandleStaged ==
  ASSUME Staged, Asking', Handle
  PROVE  Staged'
  <1>1. /\ handling \in Seq(Request) /\ handling # <<>> /\ handling' = Tail(handling)
        /\ UNCHANGED <<connected, client, toServer>>
        /\ execution \in [Call -> Execution] /\ pulling \in [Call -> Seq(Waiter)]
    BY DEF Handle, Staged, Asking, Typed, TypeOK
  <1>2. /\ \A i \in DOMAIN handling' : \E j \in DOMAIN handling : handling'[i] = handling[j]
        /\ 1 \in DOMAIN handling /\ Head(handling) = handling[1] /\ Head(handling) \in Request
    BY <1>1, TailOf
  <1>3. PICK r \in Request : /\ r = Head(handling) /\ r.op # "invoke" /\ Begun(r.call)
                             /\ r.call \in Call
    BY <1>2, Requests DEF Staged, Asking, Typed, ControlsAreHandled, WorkIsBegun
  <1>4. PullStream(r) \/ TerminateExecution(r) \/ \E h \in BOOLEAN : Pause(r, h)
    BY <1>3 DEF Handle
  <1>5. \/ UNCHANGED execution
        \/ execution' = [execution EXCEPT ![r.call].ended = TRUE]
        \/ \E h \in BOOLEAN : execution' = [execution EXCEPT ![r.call].halted = h]
    BY <1>3, <1>4, HandlerSays DEF Staged, Asking
  <1>6. \A d \in Call : execution'[d].state = execution[d].state
                           /\ execution'[d].produced = execution[d].produced
    <2>1. execution[r.call] \in Execution
      BY <1>1, <1>3
    <2>2. /\ [execution[r.call] EXCEPT !.ended = TRUE].state = execution[r.call].state
          /\ [execution[r.call] EXCEPT !.ended = TRUE].produced = execution[r.call].produced
          /\ \A h : /\ [execution[r.call] EXCEPT !.halted = h].state = execution[r.call].state
                    /\ [execution[r.call] EXCEPT !.halted = h].produced = execution[r.call].produced
      BY <2>1 DEF Execution
    <2>3. CASE UNCHANGED execution
      BY <2>3
    <2>4. CASE execution' = [execution EXCEPT ![r.call].ended = TRUE]
      BY <1>1, <1>3, <2>2, <2>4
    <2>5. ASSUME NEW h, execution' = [execution EXCEPT ![r.call].halted = h]
          PROVE  \A d \in Call : execution'[d].state = execution[d].state
                                 /\ execution'[d].produced = execution[d].produced
      BY <1>1, <1>3, <2>2, <2>5
    <2> QED BY <1>5, <2>3, <2>4, <2>5
  <1>7. invocations' \subseteq invocations /\ \A d \in Call : d # r.call => pulling'[d] = pulling[d]
    BY <1>1, <1>3, <1>4 DEF PullStream, TerminateExecution, Pause
  <1>8. NoNews
    BY <1>3, <1>4, HandlerSays, NoNewsIs DEF Staged, Asking
  <1>9. \A d \in Call : /\ execution[d].state = "none" => execution'[d].state = "none"
                        /\ Begun(d) => execution'[d].state \in {"streaming", "over"}
                        /\ pulling'[d] # <<>> =>
                             pulling[d] # <<>> \/ execution'[d].state \in {"streaming", "over"}
                        /\ d \in invocations' => execution'[d].state = "streaming"
    BY <1>3, <1>6, <1>7 DEF Begun, Staged, StreamsHaveMode
  <1> QED BY <1>1, <1>2, <1>6, <1>8, <1>9, WorkStaged DEF NoNews

LEMMA IteratorStaged ==
  ASSUME Staged, Asking', NEW c \in Call, Wake(c) \/ Yield(c) \/ IteratorEnds(c)
  PROVE  Staged'
  <1>1. /\ UNCHANGED <<connected, client, toServer, handling>>
        /\ execution \in [Call -> Execution] /\ pulling \in [Call -> Seq(Waiter)]
    BY DEF Wake, Yield, IteratorEnds, Staged, Asking, Typed, TypeOK
  <1>2. pulling[c] # <<>>
    <2>1. \A q \in Seq(Waiter) : \A i \in DOMAIN q : q # <<>>
      OBVIOUS
    <2>2. CASE Wake(c)
      BY <2>1, <2>2, WakeSays DEF Staged, Asking
    <2>3. CASE Yield(c) \/ IteratorEnds(c)
      BY <2>1, <2>3, IteratorSays DEF Staged, Asking, Moves
    <2> QED BY <2>2, <2>3
  <1>3. Begun(c)
    BY <1>2 DEF Staged, WorkIsBegun
  <1>4. /\ \A d \in Call : d # c => execution'[d] = execution[d] /\ pulling'[d] = pulling[d]
        /\ execution'[c].state \in {execution[c].state, "over"}
        /\ execution'[c].produced # execution[c].produced => execution[c].state = "streaming"
        /\ invocations' \subseteq invocations
        /\ execution'[c].state # execution[c].state => c \notin invocations'
    <2>1. CASE Wake(c)
      BY <1>1, <2>1 DEF Wake
    <2>2. CASE Yield(c)
      BY <1>1, <2>2 DEF Yield, Execution
    <2>3. CASE IteratorEnds(c)
      BY <1>1, <2>3 DEF IteratorEnds, Execution
    <2> QED BY <2>1, <2>2, <2>3
  <1>5. NoNews
    <2>1. CASE Wake(c)
      BY <2>1, WakeSays, NoNewsIs DEF Staged, Asking
    <2>2. CASE Yield(c) \/ IteratorEnds(c)
      BY <2>2, IteratorTells, NoNewsIs DEF Staged, Asking
    <2> QED BY <2>1, <2>2
  <1>6. \A d \in Call : /\ execution[d].state = "none" => execution'[d].state = "none"
                        /\ Begun(d) => execution'[d].state \in {"streaming", "over"}
                        /\ pulling'[d] # <<>> =>
                             pulling[d] # <<>> \/ execution'[d].state \in {"streaming", "over"}
                        /\ d \in invocations' => execution'[d].state = "streaming"
    BY <1>3, <1>4 DEF Begun, Staged, StreamsHaveMode
  <1>7. \A d \in Call : execution'[d].state = "streaming" \/ execution'[d].produced # execution[d].produced
                            => execution[d].state = "streaming" \/ stream[d].mode # "None"
    BY <1>4
  <1> QED BY <1>1, <1>5, <1>6, <1>7, WorkStaged DEF NoNews

LEMMA DisconnectStaged ==
  ASSUME Staged, Asking', Disconnect
  PROVE  Staged'
  <1>1. /\ execution \in [Call -> Execution] /\ stream \in [Call -> Stream]
        /\ toServer' = <<>> /\ toClient' = <<>> /\ UNCHANGED <<calls, handling>>
        /\ invocations' = {}
    BY DEF Disconnect, Staged, Asking, Typed, TypeOK
  <1>2. \A c \in Call : /\ execution'[c].state = execution[c].state
                        /\ execution'[c].produced = execution[c].produced
    BY <1>1 DEF Disconnect, Execution
  <1>3. \A c \in Call : stream'[c].started = stream[c].started /\ stream'[c].mode = stream[c].mode
    BY <1>1, ReceivedMode DEF Disconnect
  <1>4. \A c \in Call : pulling'[c] # <<>> => pulling[c] # <<>> \/ Begun(c)'
    BY <1>2 DEF Disconnect, Staged, StreamsHaveMode, Begun
  <1>5. InvokesWait'
    BY <1>1, <1>2, InvokesKept
  <1>6. WorkIsBegun'
    BY <1>1, <1>2, <1>3, <1>4, BegunKept DEF Begun
  <1>7. StreamsHaveMode'
    BY <1>1, <1>2, <1>3 DEF Staged, StreamsHaveMode
  <1> QED BY <1>5, <1>6, <1>7 DEF Staged

LEMMA NextStaged == Staged /\ [Next]_vars => Staged'
  <1> SUFFICES ASSUME Staged, [Next]_vars
               PROVE  Staged'
    OBVIOUS
  <1>1. Asking'
    BY NextAsking DEF Staged
  <1>2. CASE UNCHANGED vars
    BY <1>1, <1>2 DEF vars, client, server, Staged, InvokesWait, WorkIsBegun, StreamsHaveMode, Begun
  <1>3. CASE Next
    BY <1>1, <1>3, ConsumerStaged, InvokeStaged, ReplyStaged, DecodeStaged, ReceiveCallStaged,
       ReceiveControlStaged, FunctionStaged, HandleStaged, IteratorStaged, DisconnectStaged
       DEF Next, Consumer
  <1> QED BY <1>2, <1>3

-----------------------------------------------------------------------------
(* Who owes the answer to a request.                                       *)

OnItsWay(r) == \E i \in DOMAIN toServer : toServer[i] = r
Answers(m, r) == m.id = r.id /\ m.reply \in {"Completed", "Error"}
Answered(r) == \E i \in DOMAIN toClient : Answers(toClient[i], r)
Handled(r) == \E i \in DOMAIN handling : handling[i] = r
Waits(r) == \E i \in DOMAIN pulling[r.call] : pulling[r.call][i].id = r.id
Working(c) == execution[c].state \in {"delayed", "admitted", "running"}
Returning(c) == \E i \in DOMAIN pulling[c] : pulling[c][i].at = "return"

Debt(r) ==
    \/ OnItsWay(r) \/ Answered(r)
    \/ r.op # "invoke" /\ (Handled(r) \/ Waits(r))
    \/ r.op = "invoke" /\ (Working(r.call) \/ r.call \in invocations \/ Returning(r.call))

LEMMA OwedIs ==
  ASSUME NEW r
  PROVE  (Owed(r) <=> Debt(r)) /\ (Owed(r)' <=> Debt(r)')
  <1>1. Owed(r) <=> Debt(r)
    BY DEF Owed, Debt, OnItsWay, Answered, Answers, Handled, Waits, Working, Returning
  <1>2. Owed(r)' <=> Debt(r)'
    BY DEF Owed, Debt, OnItsWay, Answered, Answers, Handled, Waits, Working, Returning
  <1> QED BY <1>1, <1>2

LEMMA SaysAnswers ==
  ASSUME connected, NEW M, Says(M), NEW r
  PROVE  /\ Answered(r) => Answered(r)'
         /\ \A m \in M : Answers(m, r) => Answered(r)'
  BY DEF Says, Answered, Answers

LEMMA ToldAnswers ==
  ASSUME Asking, NEW c \in Call, NEW w, w.id \in {Pump} \cup ControlId, NEW r \in requests,
         r.id = w.id \/ (r.op = "invoke" /\ r.call = c)
  PROVE  /\ \E m \in Told(c, w, Completed) : Answers(m, r)
         /\ \E m \in Told(c, w, Error) : Answers(m, r)
  <1>1. r \in Request /\ Asked(r)
    BY DEF Asking, Typed, TypeOK, RequestsAreAsked
  <1>2. r.id = c \/ (r.id = w.id /\ w.id # Pump)
    BY <1>1, Requests, Ids DEF Asked
  <1>3. /\ \E m \in Told(c, w, Completed) : m = Completed(r.id)
        /\ \E m \in Told(c, w, Error) : m = Error(r.id)
    BY <1>2 DEF Told
  <1>4. Answers(Completed(r.id), r) /\ Answers(Error(r.id), r)
    BY Kinds DEF Answers
  <1> QED BY <1>3, <1>4

(* What waits on the iterator of a call when one of them is taken out.     *)
Keeps(p, q, i) == \A j \in DOMAIN q : j # i => \E k \in DOMAIN p : p[k] = q[j]

LEMMA WaitersKept ==
  ASSUME Typed, NEW c \in Call, NEW i \in DOMAIN pulling[c], NEW p \in Seq(Waiter),
         pulling' = [pulling EXCEPT ![c] = p], Keeps(p, pulling[c], i)
  PROVE  /\ pulling'[c] = p
         /\ \A r \in Request : Waits(r) => Waits(r)' \/ (r.call = c /\ r.id = pulling[c][i].id)
         /\ \A d \in Call : Returning(d) => Returning(d)' \/ (d = c /\ pulling[c][i].at = "return")
  <1>1. pulling \in [Call -> Seq(Waiter)]
    BY DEF Typed, TypeOK
  <1>2. /\ pulling'[c] = p /\ \A d \in Call : d # c => pulling'[d] = pulling[d]
    BY <1>1
  <1>3. ASSUME NEW r \in Request, Waits(r)
        PROVE  Waits(r)' \/ (r.call = c /\ r.id = pulling[c][i].id)
    <2>1. r.call \in Call
      BY Requests
    <2> QED BY <1>2, <1>3, <2>1 DEF Waits, Keeps
  <1>4. ASSUME NEW d \in Call, Returning(d)
        PROVE  Returning(d)' \/ (d = c /\ pulling[c][i].at = "return")
    BY <1>2, <1>4 DEF Returning, Keeps
  <1> QED BY <1>2, <1>3, <1>4

(* ... and when one comes.                                                 *)
LEMMA WaitersCome ==
  ASSUME Typed, NEW c \in Call, NEW w \in Waiter, pulling' = [pulling EXCEPT ![c] = Append(@, w)]
  PROVE  /\ \A r \in Request : Waits(r) \/ (r.call = c /\ r.id = w.id) => Waits(r)'
         /\ \A d \in Call : Returning(d) \/ (d = c /\ w.at = "return") => Returning(d)'
  <1>1. pulling \in [Call -> Seq(Waiter)] /\ pulling[c] \in Seq(Waiter)
    BY DEF Typed, TypeOK
  <1>2. PICK q \in Seq(Waiter) : q = pulling[c]
    BY <1>1
  <1>3. PICK p \in Seq(Waiter) : \E l \in DOMAIN p :
           /\ pulling' = [pulling EXCEPT ![c] = p] /\ p[l] = w
           /\ \A j \in DOMAIN q : j \in DOMAIN p /\ p[j] = q[j]
    <2>1. pulling' = [pulling EXCEPT ![c] = Append(q, w)]
      BY <1>1, <1>2
    <2>2. PICK p \in Seq(Waiter) : p = Append(q, w)
      BY AppendOf
    <2>3. /\ Len(q) + 1 \in DOMAIN p /\ p[Len(q) + 1] = w
          /\ \A j \in DOMAIN q : j \in DOMAIN p /\ p[j] = q[j]
      BY <2>2, AppendOf
    <2> QED BY <2>1, <2>2, <2>3
  <1>4. /\ pulling'[c] = p /\ \A d \in Call : d # c => pulling'[d] = pulling[d]
    BY <1>1, <1>3
  <1>5. ASSUME NEW r \in Request, Waits(r) \/ (r.call = c /\ r.id = w.id)
        PROVE  Waits(r)'
    <2>1. r.call \in Call
      BY Requests
    <2> QED BY <1>2, <1>3, <1>4, <1>5, <2>1 DEF Waits
  <1>6. ASSUME NEW d \in Call, Returning(d) \/ (d = c /\ w.at = "return")
        PROVE  Returning(d)'
    BY <1>2, <1>3, <1>4, <1>6 DEF Returning
  <1> QED BY <1>5, <1>6

LEMMA ClientOwed ==
  ASSUME Staged, RequestsAreOwed, Typed', UNCHANGED <<connected, toClient, server>>,
         \/ UNCHANGED <<requests, toServer>>
         \/ \E r \in Request : requests' = requests \cup {r} /\ toServer' = Append(toServer, r)
  PROVE  RequestsAreOwed'
  <1> SUFFICES ASSUME connected, NEW r \in requests'
               PROVE  Owed(r)'
    BY DEF RequestsAreOwed
  <1>1. OnItsWay(r) => OnItsWay(r)'
    <2>1. CASE UNCHANGED toServer
      BY <2>1 DEF OnItsWay
    <2>2. ASSUME NEW e \in Request, toServer' = Append(toServer, e)
          PROVE  OnItsWay(r) => OnItsWay(r)'
      <3>1. toServer \in Seq(Request)
        BY DEF Staged, Asking, Typed, TypeOK
      <3>2. \A i \in DOMAIN toServer : i \in DOMAIN toServer' /\ toServer'[i] = toServer[i]
        BY <2>2, <3>1, AppendOf
      <3> QED BY <3>2 DEF OnItsWay
    <2> QED BY <2>1, <2>2
  <1>2. CASE r \in requests
    BY <1>1, <1>2 DEF RequestsAreOwed, Owed, OnItsWay, server
  <1>3. CASE r \notin requests
    <2>1. toServer' = Append(toServer, r) /\ r \in Request
      BY <1>3
    <2> QED BY <2>1, AppendOf DEF Owed, Staged, Asking, Typed, TypeOK
  <1> QED BY <1>2, <1>3

LEMMA ReplyOwed ==
  ASSUME Staged, RequestsAreOwed, Typed', DispatchReply
  PROVE  RequestsAreOwed'
  <1>1. /\ toClient \in Seq(Reply) /\ toClient # <<>> /\ toClient' = Tail(toClient)
        /\ UNCHANGED <<connected, toServer, execution, pulling, invocations, handling>>
    BY DEF DispatchReply, server, Staged, Asking, Typed, TypeOK
  <1>2. requests' \subseteq requests
    BY DEF DispatchReply
  <1> SUFFICES ASSUME connected, NEW r \in requests'
               PROVE  Owed(r)'
    BY <1>1 DEF RequestsAreOwed
  <1>3. r \in requests /\ Owed(r)
    BY <1>2 DEF RequestsAreOwed
  <1>4. ~Answers(Head(toClient), r)
    <2> SUFFICES ASSUME Answers(Head(toClient), r)
                 PROVE  FALSE
      OBVIOUS
    <2>1. Head(toClient).reply \in {"Completed", "Error"} /\ r.id = Head(toClient).id
      BY DEF Answers
    <2>2. PICK q \in requests : q.id = Head(toClient).id /\ requests' = requests \ {q}
      BY <1>3, <2>1 DEF DispatchReply
    <2>3. q = r
      BY <1>3, <2>1, <2>2 DEF Staged, Asking, RequestsAreAsked
    <2> QED BY <2>2, <2>3
  <1>5. Answered(r) => Answered(r)'
    <2>1. Head(toClient) = toClient[1]
          /\ \A i \in DOMAIN toClient : i # 1 => i - 1 \in DOMAIN toClient' /\ toClient'[i - 1] = toClient[i]
      BY <1>1, TailOf
    <2> QED BY <1>4, <2>1 DEF Answered, Answers
  <1> QED BY <1>1, <1>3, <1>5 DEF Owed, Answered, Answers

LEMMA ReceiveOwed ==
  ASSUME Staged, RequestsAreOwed, Typed', NEW q \in requests, ReceiveCall(q) \/ ReceiveControl(q)
  PROVE  RequestsAreOwed'
  <1>1. /\ q \in Request /\ q.call \in Call /\ q = Head(toServer)
        /\ toServer \in Seq(Request) /\ toServer # <<>> /\ toServer' = Tail(toServer)
        /\ handling \in Seq(Request) /\ execution \in [Call -> Execution]
        /\ UNCHANGED <<connected, client, pulling, invocations>>
    BY Requests DEF ReceiveCall, ReceiveControl, Receive, Staged, Asking, Typed, TypeOK
  <1> SUFFICES ASSUME connected, NEW r \in requests
               PROVE  Debt(r)'
    BY <1>1, OwedIs DEF RequestsAreOwed, client
  <1>2. r \in Request /\ r.call \in Call /\ Debt(r)
    BY Requests, OwedIs DEF RequestsAreOwed, Staged, Asking, Typed, TypeOK
  <1>3. /\ Head(toServer) = toServer[1] /\ 1 \in DOMAIN toServer
        /\ \A i \in DOMAIN toServer : i # 1 => i - 1 \in DOMAIN toServer' /\ toServer'[i - 1] = toServer[i]
    BY <1>1, TailOf
  <1>4. OnItsWay(r) => OnItsWay(r)' \/ r = q
    BY <1>1, <1>3 DEF OnItsWay
  <1>5. CASE ReceiveCall(q)
    <2>1. PICK ruling \in {"refused", "delayed", "admitted"} :
             /\ execution' = [execution EXCEPT ![q.call].state = ruling]
             /\ Says(IF ruling = "refused" THEN {Error(q.id)} ELSE {})
      BY <1>1, <1>5, ReceiveSays DEF Staged, Asking
    <2>2. /\ \A c \in Call : c # q.call => execution'[c] = execution[c]
          /\ execution'[q.call].state = ruling
      BY <1>1, <2>1 DEF Execution
    <2>3. execution[q.call].state = "none" /\ q.op = "invoke" /\ handling' = handling
      BY <1>1, <1>3, <1>5 DEF ReceiveCall, Staged, InvokesWait
    <2>4. Working(r.call) => Working(r.call)'
      BY <1>2, <2>2, <2>3 DEF Working
    <2>5. Answered(r) => Answered(r)'
      BY <2>1, SaysAnswers
    <2>6. r = q => Answered(r)' \/ Working(r.call)'
      <3>1. CASE ruling = "refused"
        <4>1. Says({Error(q.id)}) /\ Answers(Error(q.id), q)
          BY <2>1, <3>1, Kinds DEF Answers
        <4> QED BY <4>1, SaysAnswers
      <3>2. CASE ruling # "refused"
        BY <2>2, <3>2 DEF Working
      <3> QED BY <3>1, <3>2
    <2>7. /\ Handled(r) => Handled(r)'
          /\ Waits(r) => Waits(r)'
          /\ Returning(r.call) => Returning(r.call)'
      BY <1>1, <2>3 DEF Handled, Waits, Returning
    <2> QED BY <1>1, <1>2, <1>4, <2>3, <2>4, <2>5, <2>6, <2>7 DEF Debt
  <1>6. CASE ReceiveControl(q)
    <2>1. \/ Says({Error(q.id)}) /\ UNCHANGED handling
          \/ Says({}) /\ handling' = Append(handling, q)
      BY <1>1, <1>6, ReceiveSays DEF Staged, Asking
    <2>2. q.op # "invoke" /\ execution' = execution
      BY <1>6 DEF ReceiveControl
    <2>3. Answered(r) => Answered(r)'
      BY <2>1, SaysAnswers
    <2>4. Answers(Error(q.id), q)
      BY Kinds DEF Answers
    <2>5. r = q => Answered(r)' \/ Handled(r)'
      <3>1. CASE Says({Error(q.id)})
        BY <2>4, <3>1, SaysAnswers
      <3>2. CASE handling' = Append(handling, q)
        BY <1>1, <3>2, AppendOf DEF Handled
      <3> QED BY <2>1, <3>1, <3>2
    <2>6. Handled(r) => Handled(r)'
      <3>1. \A i \in DOMAIN handling : i \in DOMAIN handling' /\ handling'[i] = handling[i]
        <4>1. CASE handling' = handling
          BY <4>1
        <4>2. CASE handling' = Append(handling, q)
          BY <1>1, <4>2, AppendOf
        <4> QED BY <2>1, <4>1, <4>2
      <3> QED BY <3>1 DEF Handled
    <2>7. /\ Waits(r) => Waits(r)'
          /\ Returning(r.call) => Returning(r.call)'
          /\ Working(r.call) => Working(r.call)'
      BY <1>1, <2>2 DEF Waits, Returning, Working
    <2> QED BY <1>1, <1>2, <1>4, <2>2, <2>3, <2>5, <2>6, <2>7 DEF Debt
  <1> QED BY <1>5, <1>6

LEMMA FunctionOwed ==
  ASSUME Staged, RequestsAreOwed, Typed', NEW c \in Call,
         DelayEnds(c) \/ Execute(c) \/ ResultSettles(c)
  PROVE  RequestsAreOwed'
  <1>1. /\ execution \in [Call -> Execution] /\ pulling \in [Call -> Seq(Waiter)]
        /\ UNCHANGED <<connected, client, toServer, handling>>
    BY DEF DelayEnds, Execute, ResultSettles, Staged, Asking, Typed, TypeOK
  <1> SUFFICES ASSUME connected, NEW r \in requests
               PROVE  Debt(r)'
    BY <1>1, OwedIs DEF RequestsAreOwed, client
  <1>2. r \in Request /\ r.call \in Call /\ Debt(r) /\ Asked(r)
    BY Requests, OwedIs DEF RequestsAreOwed, Staged, Asking, Typed, TypeOK, RequestsAreAsked
  <1>3. pulling[c] = <<>>
    <2>1. execution[c].state \in {"delayed", "admitted", "running"}
      BY DEF DelayEnds, Execute, ResultSettles
    <2> QED BY <2>1 DEF Staged, WorkIsBegun, Begun
  <1>4. \A d \in Call : d # c => execution'[d] = execution[d] /\ pulling'[d] = pulling[d]
    BY <1>1 DEF DelayEnds, Execute, ResultSettles
  <1>5. /\ Waits(r) => Waits(r)'
        /\ Returning(r.call) => Returning(r.call)'
        /\ OnItsWay(r) => OnItsWay(r)'
        /\ Handled(r) => Handled(r)'
    <2>1. r.call = c => ~Waits(r) /\ ~Returning(c)
      BY <1>3 DEF Waits, Returning
    <2>2. r.call # c => pulling'[r.call] = pulling[r.call]
      BY <1>2, <1>4
    <2> QED BY <1>1, <2>1, <2>2 DEF Waits, Returning, OnItsWay, Handled
  <1>6. invocations \subseteq invocations'
    BY DEF DelayEnds, Execute, ResultSettles
  <1>7. \/ \E M : Says(M) /\ \E m \in M : m \in {Completed(c), Error(c)}
        \/ (\E M : Says(M)) /\ (Working(c)' \/ c \in invocations')
    <2>1. CASE DelayEnds(c)
      <3>1. Working(c)'
        BY <1>1, <2>1 DEF DelayEnds, Working
      <3> QED BY <2>1, <3>1, FunctionSays DEF Staged, Asking
    <2>2. CASE ResultSettles(c)
      <3>1. Says({Completed(c)}) \/ Says({Error(c)})
        BY <2>2, FunctionSays DEF Staged, Asking
      <3> QED BY <3>1
    <2>3. CASE Execute(c)
      <3>1. execution' = [execution EXCEPT ![c].state = "running"] => Working(c)'
        BY <1>1 DEF Working
      <3>2. \/ Says({Error(c)}) \/ (Says({}) /\ Working(c)') \/ (Says({Started(c)}) /\ c \in invocations')
        BY <2>3, <3>1, FunctionSays DEF Staged, Asking
      <3> QED BY <3>2
    <2> QED BY <2>1, <2>2, <2>3
  <1>8. Answered(r) => Answered(r)'
    BY <1>7, SaysAnswers
  <1>9. r.op = "invoke" /\ r.call = c => Answered(r)' \/ Working(c)' \/ c \in invocations'
    <2>1. r.op = "invoke" /\ r.call = c => Answers(Completed(c), r) /\ Answers(Error(c), r)
      BY <1>2, Kinds DEF Asked, Answers
    <2> QED BY <1>7, <2>1, SaysAnswers
  <1>10. r.call # c /\ Working(r.call) => Working(r.call)'
    BY <1>2, <1>4 DEF Working
  <1> QED BY <1>2, <1>5, <1>6, <1>8, <1>9, <1>10 DEF Debt

LEMMA HandleOwed ==
  ASSUME Staged, RequestsAreOwed, Typed', Handle
  PROVE  RequestsAreOwed'
  <1>1. /\ handling \in Seq(Request) /\ handling # <<>> /\ handling' = Tail(handling)
        /\ UNCHANGED <<connected, client, toServer>>
        /\ execution \in [Call -> Execution] /\ pulling \in [Call -> Seq(Waiter)]
    BY DEF Handle, Staged, Asking, Typed, TypeOK
  <1>2. /\ 1 \in DOMAIN handling /\ Head(handling) = handling[1] /\ Head(handling) \in Request
        /\ \A i \in DOMAIN handling : i # 1 => i - 1 \in DOMAIN handling' /\ handling'[i - 1] = handling[i]
    BY <1>1, TailOf
  <1>3. PICK h \in Request : /\ h = Head(handling) /\ h.op # "invoke" /\ h.call \in Call
                             /\ h.id \in ControlId
    BY <1>2, Requests DEF Staged, Asking, Typed, ControlsAreHandled
  <1>4. PullStream(h) \/ TerminateExecution(h) \/ \E x \in BOOLEAN : Pause(h, x)
    BY <1>3 DEF Handle
  <1> SUFFICES ASSUME connected, NEW r \in requests
               PROVE  Debt(r)'
    BY <1>1, OwedIs DEF RequestsAreOwed, client
  <1>5. r \in Request /\ r.call \in Call /\ Debt(r)
    BY Requests, OwedIs DEF RequestsAreOwed, Staged, Asking, Typed, TypeOK
  <1>6. /\ OnItsWay(r) => OnItsWay(r)'
        /\ Handled(r) => Handled(r)' \/ r = h
    BY <1>1, <1>2, <1>3 DEF OnItsWay, Handled
  <1>7. Working(r.call) => Working(r.call)'
    <2>1. \A d \in Call : execution'[d].state = execution[d].state
      <3>1. \/ UNCHANGED execution
            \/ execution' = [execution EXCEPT ![h.call].ended = TRUE]
            \/ \E x \in BOOLEAN : execution' = [execution EXCEPT ![h.call].halted = x]
        BY <1>3, <1>4, HandlerSays DEF Staged, Asking
      <3>2. execution[h.call] \in Execution
        BY <1>1, <1>3
      <3>3. /\ [execution[h.call] EXCEPT !.ended = TRUE].state = execution[h.call].state
            /\ \A x : [execution[h.call] EXCEPT !.halted = x].state = execution[h.call].state
        BY <3>2 DEF Execution
      <3>4. CASE UNCHANGED execution
        BY <3>4
      <3>5. CASE execution' = [execution EXCEPT ![h.call].ended = TRUE]
        BY <1>1, <1>3, <3>3, <3>5
      <3>6. ASSUME NEW x, execution' = [execution EXCEPT ![h.call].halted = x]
            PROVE  \A d \in Call : execution'[d].state = execution[d].state
        BY <1>1, <1>3, <3>3, <3>6
      <3> QED BY <3>1, <3>4, <3>5, <3>6
    <2> QED BY <1>5, <2>1 DEF Working
  <1>8. CASE Says(Told(h.call, h, Completed)) /\ UNCHANGED pulling /\ invocations' = invocations \ {h.call}
    <2>1. r = h \/ (r.op = "invoke" /\ r.call = h.call) => Answered(r)'
      <3>1. r = h \/ (r.op = "invoke" /\ r.call = h.call) =>
               \E m \in Told(h.call, h, Completed) : Answers(m, r)
        BY <1>3, ToldAnswers DEF Staged
      <3> QED BY <1>8, <3>1, SaysAnswers
    <2>2. /\ Answered(r) => Answered(r)'
          /\ Waits(r) => Waits(r)'
          /\ Returning(r.call) => Returning(r.call)'
      BY <1>8, SaysAnswers DEF Waits, Returning
    <2> QED BY <1>5, <1>6, <1>7, <1>8, <2>1, <2>2 DEF Debt
  <1>9. ASSUME NEW w \in Waiter, w.id = h.id, pulling' = [pulling EXCEPT ![h.call] = Append(@, w)],
               Says({}), invocations' = invocations \/ (w.at = "return" /\ invocations' = invocations \ {h.call})
        PROVE  Debt(r)'
    <2>1. /\ Waits(r) \/ r = h => Waits(r)'
          /\ Returning(r.call) \/ (r.call = h.call /\ w.at = "return") => Returning(r.call)'
      BY <1>3, <1>5, <1>9, WaitersCome DEF Staged, Asking
    <2>2. Answered(r) => Answered(r)'
      BY <1>9, SaysAnswers
    <2> QED BY <1>3, <1>5, <1>6, <1>7, <1>9, <2>1, <2>2 DEF Debt
  <1>10. CASE /\ Says({Completed(h.id)}) \/ Says({Error(h.id)})
              /\ UNCHANGED <<pulling, invocations>>
    <2>1. r = h => Answers(Completed(h.id), r) /\ Answers(Error(h.id), r)
      BY Kinds DEF Answers
    <2>2. /\ Answered(r) \/ r = h => Answered(r)'
          /\ Waits(r) => Waits(r)'
          /\ Returning(r.call) => Returning(r.call)'
      BY <1>10, <2>1, SaysAnswers DEF Waits, Returning
    <2> QED BY <1>5, <1>6, <1>7, <1>10, <2>2 DEF Debt
  <1>11. Waiting(h.id) \in Waiter /\ [id |-> h.id, at |-> "return"] \in Waiter
    BY <1>3 DEF Waiting, Waiter
  <1>12. Waiting(h.id).id = h.id
    BY DEF Waiting
  <1>13. CASE PullStream(h)
    BY <1>3, <1>8, <1>9, <1>11, <1>12, <1>13, HandlerSays DEF Staged, Asking
  <1>14. CASE TerminateExecution(h)
    BY <1>3, <1>8, <1>9, <1>11, <1>14, HandlerSays DEF Staged, Asking
  <1>15. CASE \E x \in BOOLEAN : Pause(h, x)
    BY <1>3, <1>10, <1>15, HandlerSays DEF Staged, Asking
  <1> QED BY <1>4, <1>13, <1>14, <1>15

LEMMA IteratorOwed ==
  ASSUME Staged, RequestsAreOwed, Typed', NEW c \in Call, Wake(c) \/ Yield(c) \/ IteratorEnds(c)
  PROVE  RequestsAreOwed'
  <1>1. /\ UNCHANGED <<connected, client, toServer, handling>>
        /\ execution \in [Call -> Execution] /\ pulling \in [Call -> Seq(Waiter)]
    BY DEF Wake, Yield, IteratorEnds, Staged, Asking, Typed, TypeOK
  <1> SUFFICES ASSUME connected, NEW r \in requests
               PROVE  Debt(r)'
    BY <1>1, OwedIs DEF RequestsAreOwed, client
  <1>2. r \in Request /\ r.call \in Call /\ Debt(r) /\ (r.op # "invoke" => r.id # Pump)
    BY Requests, Ids, OwedIs DEF RequestsAreOwed, Staged, Asking, Typed, TypeOK
  <1>3. /\ OnItsWay(r) => OnItsWay(r)'
        /\ Handled(r) => Handled(r)'
    BY <1>1 DEF OnItsWay, Handled
  <1>4. Working(r.call) => Working(r.call)'
    <2>1. pulling[c] # <<>>
      <3>1. \A q \in Seq(Waiter) : \A i \in DOMAIN q : q # <<>>
        OBVIOUS
      <3>2. CASE Wake(c)
        BY <3>1, <3>2, WakeSays DEF Staged, Asking
      <3>3. CASE Yield(c) \/ IteratorEnds(c)
        BY <3>1, <3>3, IteratorSays DEF Staged, Asking, Moves
      <3> QED BY <3>2, <3>3
    <2>2. ~Working(c)
      BY <2>1 DEF Staged, WorkIsBegun, Begun, Working
    <2>3. \A d \in Call : d # c => execution'[d] = execution[d]
      BY <1>1 DEF Wake, Yield, IteratorEnds
    <2> QED BY <1>2, <2>2, <2>3 DEF Working
  <1>5. ASSUME NEW i \in DOMAIN pulling[c], NEW p \in Seq(Waiter),
               pulling' = [pulling EXCEPT ![c] = p], Keeps(p, pulling[c], i),
               r.id = pulling[c][i].id => Answered(r)' \/ \E k \in DOMAIN p : p[k].id = r.id,
               Answered(r) => Answered(r)',
               pulling[c][i].at = "return" /\ r.op = "invoke" /\ r.call = c => Answered(r)',
               \/ UNCHANGED invocations
               \/ invocations' = invocations \ {c} /\ (r.op = "invoke" /\ r.call = c => Answered(r)')
        PROVE  Debt(r)'
    <2>1. /\ Waits(r) => Waits(r)' \/ (r.call = c /\ r.id = pulling[c][i].id)
          /\ Returning(r.call) => Returning(r.call)' \/ (r.call = c /\ pulling[c][i].at = "return")
          /\ pulling'[c] = p
      <3>1. Typed
        BY DEF Staged, Asking
      <3>2. /\ pulling' = [pulling EXCEPT ![c] = p] /\ Keeps(p, pulling[c], i)
        BY <1>5
      <3>3. /\ pulling'[c] = p
            /\ \A x \in Request : Waits(x) => Waits(x)' \/ (x.call = c /\ x.id = pulling[c][i].id)
            /\ \A d \in Call : Returning(d) => Returning(d)' \/ (d = c /\ pulling[c][i].at = "return")
        BY <3>1, <3>2, WaitersKept
      <3> QED BY <1>2, <3>3
    <2>2. r.call = c /\ r.id = pulling[c][i].id => Waits(r)' \/ Answered(r)'
      BY <1>5, <2>1 DEF Waits
    <2> QED BY <1>2, <1>3, <1>4, <1>5, <2>1, <2>2 DEF Debt
  <1>6. CASE Wake(c)
    <2>1. PICK q \in Seq(Waiter), w \in Waiter : \E i \in DOMAIN q :
            /\ q = pulling[c] /\ w = q[i] /\ w.at = "halt" /\ w.id \in {Pump} \cup ControlId
            /\ \/ /\ execution[c].ended
                  /\ pulling' = [pulling EXCEPT ![c] = RemoveAt(q, i)]
                  /\ invocations' = invocations \ {c} /\ Says(Told(c, w, Completed))
               \/ /\ ~execution[c].ended
                  /\ pulling' = [pulling EXCEPT
                                    ![c] = Append(RemoveAt(q, i), [w EXCEPT !.at = "next"])]
                  /\ UNCHANGED invocations /\ Says({})
      BY <1>6, WakeSays DEF Staged, Asking
    <2>2. PICK i \in DOMAIN q :
            /\ q = pulling[c] /\ w = q[i] /\ w.at = "halt" /\ w.id \in {Pump} \cup ControlId
            /\ \/ /\ execution[c].ended
                  /\ pulling' = [pulling EXCEPT ![c] = RemoveAt(q, i)]
                  /\ invocations' = invocations \ {c} /\ Says(Told(c, w, Completed))
               \/ /\ ~execution[c].ended
                  /\ pulling' = [pulling EXCEPT
                                    ![c] = Append(RemoveAt(q, i), [w EXCEPT !.at = "next"])]
                  /\ UNCHANGED invocations /\ Says({})
      BY <2>1
    <2>3. PICK a \in Seq(Waiter) : /\ a = RemoveAt(q, i)
                                   /\ Keeps(a, q, i)
      BY RemoveAtOf DEF Keeps
    <2>4. CASE Says(Told(c, w, Completed)) /\ pulling' = [pulling EXCEPT ![c] = a]
               /\ invocations' = invocations \ {c}
      <3>1. r.id = w.id \/ (r.op = "invoke" /\ r.call = c) => Answered(r)'
        <4>1. r.id = w.id \/ (r.op = "invoke" /\ r.call = c) =>
                 \E m \in Told(c, w, Completed) : Answers(m, r)
          BY <2>2, ToldAnswers DEF Staged
        <4> QED BY <2>4, <4>1, SaysAnswers
      <3>2. Answered(r) => Answered(r)'
        BY <2>4, SaysAnswers
      <3> QED BY <1>5, <2>2, <2>3, <2>4, <3>1, <3>2
    <2>5. CASE Says({}) /\ pulling' = [pulling EXCEPT ![c] = Append(a, [w EXCEPT !.at = "next"])]
               /\ UNCHANGED invocations
      <3>1. [w EXCEPT !.at = "next"] \in Waiter /\ [w EXCEPT !.at = "next"].id = w.id
        BY DEF Waiter
      <3>2. PICK p \in Seq(Waiter) :
              /\ p = Append(a, [w EXCEPT !.at = "next"])
              /\ \E k \in DOMAIN p : p[k].id = w.id
              /\ \A k \in DOMAIN a : k \in DOMAIN p /\ p[k] = a[k]
        <4>1. PICK x \in Waiter : x = [w EXCEPT !.at = "next"]
          BY <3>1
        <4>2. PICK p \in Seq(Waiter) : p = Append(a, x)
          BY AppendOf
        <4>3. /\ Len(a) + 1 \in DOMAIN p /\ p[Len(a) + 1] = x
              /\ \A j \in DOMAIN a : j \in DOMAIN p /\ p[j] = a[j]
          BY <4>2, AppendOf
        <4>4. \E k \in DOMAIN p : p[k].id = w.id
          BY <3>1, <4>1, <4>3
        <4>5. p = Append(a, [w EXCEPT !.at = "next"])
          BY <4>1, <4>2
        <4> QED BY <4>3, <4>4, <4>5
      <3>3. /\ pulling' = [pulling EXCEPT ![c] = p]
            /\ i \in DOMAIN pulling[c] /\ pulling[c][i] = w /\ w.at = "halt"
        BY <2>2, <2>5, <3>2
      <3>4. Keeps(p, pulling[c], i)
        <4>1. Keeps(p, q, i)
          BY <2>3, <3>2 DEF Keeps
        <4> QED BY <2>2, <4>1
      <3>5. Answered(r) => Answered(r)'
        BY <2>5, SaysAnswers
      <3>6. r.id = w.id => \E k \in DOMAIN p : p[k].id = r.id
        BY <3>2
      <3> QED BY <1>5, <2>5, <3>3, <3>4, <3>5, <3>6
    <2> QED BY <2>2, <2>3, <2>4, <2>5
  <1>7. CASE Yield(c) \/ IteratorEnds(c)
    <2>1. PICK q \in Seq(Waiter), w \in Waiter, i \in Nat :
             /\ Moves(c, q, i, w)
             /\ (\E v \in 1 .. MaxItem : Yields(c, q, i, w, v)) \/ Ends(c, q, i, w)
      <3>1. \A q \in Seq(Waiter) : DOMAIN q \subseteq Nat
        OBVIOUS
      <3> QED BY <1>7, <3>1, IteratorSays DEF Staged, Asking
    <2>2. i \in DOMAIN q /\ q = pulling[c] /\ w = q[i] /\ w.id \in {Pump} \cup ControlId
      BY <2>1 DEF Moves
    <2>3. PICK a \in Seq(Waiter) : /\ a = RemoveAt(q, i)
                                   /\ Keeps(a, q, i)
      BY <2>2, RemoveAtOf DEF Keeps
    <2>4. CASE Ends(c, q, i, w)
      <3>1. Says(Told(c, w, Completed)) \/ Says(Told(c, w, Error))
        BY <2>4 DEF Ends
      <3>2. r.id = w.id \/ (r.op = "invoke" /\ r.call = c) => Answered(r)'
        <4>1. r.id = w.id \/ (r.op = "invoke" /\ r.call = c) =>
                 /\ \E m \in Told(c, w, Completed) : Answers(m, r)
                 /\ \E m \in Told(c, w, Error) : Answers(m, r)
          BY <2>2, ToldAnswers DEF Staged
        <4> QED BY <3>1, <4>1, SaysAnswers
      <3>3. Answered(r) => Answered(r)'
        BY <3>1, SaysAnswers
      <3>4. pulling' = [pulling EXCEPT ![c] = a] /\ invocations' = invocations \ {c}
        BY <2>3, <2>4 DEF Ends
      <3> QED BY <1>5, <2>2, <2>3, <3>2, <3>3, <3>4
    <2>5. ASSUME NEW v \in 1 .. MaxItem, Yields(c, q, i, w, v)
          PROVE  Debt(r)'
      <3>1. /\ Chunk(c, v) \in Reply /\ Completed(c) \in Reply
            /\ w.id # Pump => Completed(w.id) \in Reply
        BY <2>2, Messages
      <3>2. /\ Send(<<Chunk(c, v), Completed(c)>>) => Says({Chunk(c, v), Completed(c)})
            /\ Send(<<Chunk(c, v)>>) => Says({Chunk(c, v)})
            /\ w.id # Pump /\ Send(<<Chunk(c, v), Completed(w.id)>>)
                 => Says({Chunk(c, v), Completed(w.id)})
        BY <3>1, SaysOne, SaysTwo DEF Staged, Asking
      <3>3. w.at = "next"
        BY <2>5 DEF Yields
      <3>4. /\ r.op = "invoke" /\ r.call = c => r.id = c
            /\ r.id = c => Answers(Completed(c), r)
            /\ r.id = w.id => Answers(Completed(w.id), r)
        BY Kinds DEF Staged, Asking, RequestsAreAsked, Asked, Answers
      <3>5. r.id \in Call \cup ControlId /\ r.id # Pump
        BY <1>2, Requests, Ids
      <3>6. CASE w.id = Pump /\ Says({Chunk(c, v), Completed(c)})
                 /\ pulling' = [pulling EXCEPT ![c] = a] /\ invocations' = invocations \ {c}
        <4>1. (Answered(r) => Answered(r)') /\ (r.op = "invoke" /\ r.call = c => Answered(r)')
          BY <3>4, <3>6, SaysAnswers
        <4> QED BY <1>5, <2>2, <2>3, <3>3, <3>5, <3>6, <4>1
      <3>7. CASE w.id # Pump /\ Says({Chunk(c, v), Completed(w.id)})
                 /\ pulling' = [pulling EXCEPT ![c] = a] /\ UNCHANGED invocations
        <4>1. (Answered(r) => Answered(r)') /\ (r.id = w.id => Answered(r)')
          BY <3>4, <3>7, SaysAnswers
        <4> QED BY <1>5, <2>2, <2>3, <3>3, <3>5, <3>7, <4>1
      <3>8. CASE w.id = Pump /\ Says({Chunk(c, v)}) /\ UNCHANGED invocations
                 /\ pulling' = [pulling EXCEPT ![c] = [q EXCEPT ![i] = Waiting(Pump)]]
        <4>1. Answered(r) => Answered(r)'
          BY <3>8, SaysAnswers
        <4>2. Waiting(Pump) \in Waiter
          BY DEF Waiting, Waiter
        <4>3. PICK p \in Seq(Waiter) : /\ p = [q EXCEPT ![i] = Waiting(Pump)]
                                       /\ \A j \in DOMAIN q : j # i => j \in DOMAIN p /\ p[j] = q[j]
          <5>1. PICK x \in Waiter : x = Waiting(Pump)
            BY <4>2
          <5>2. [q EXCEPT ![i] = x] \in Seq(Waiter)
            BY <2>2
          <5>3. \A j \in DOMAIN q : /\ j # i => [q EXCEPT ![i] = x][j] = q[j]
                                    /\ j \in DOMAIN [q EXCEPT ![i] = x]
            BY <2>2
          <5> QED BY <5>1, <5>2, <5>3
        <4>4. Keeps(p, q, i)
          BY <4>3 DEF Keeps
        <4> QED BY <1>5, <2>2, <3>3, <3>5, <3>8, <4>1, <4>3, <4>4
      <3> QED BY <2>3, <2>5, <3>2, <3>6, <3>7, <3>8 DEF Yields
    <2> QED BY <2>1, <2>4, <2>5
  <1> QED BY <1>6, <1>7

LEMMA NextOwed == Staged /\ RequestsAreOwed /\ [Next]_vars => RequestsAreOwed'
  <1> SUFFICES ASSUME Staged, RequestsAreOwed, [Next]_vars
               PROVE  RequestsAreOwed'
    OBVIOUS
  <1>1. Typed'
    BY NextTyped DEF Staged, Asking
  <1>2. CASE UNCHANGED vars
    BY <1>1, <1>2, ClientOwed DEF vars, client, server
  <1>3. CASE Invoke
    <2>1. PICK r : r = [id |-> calls + 1, op |-> "invoke", call |-> calls + 1]
      OBVIOUS
    <2>2. calls + 1 \in Call
      BY <1>3, Ids DEF Invoke, Staged, Asking, Typed, TypeOK, Call
    <2>3. r \in Request /\ requests' = requests \cup {r} /\ toServer' = Append(toServer, r)
      BY <1>3, <2>1, <2>2 DEF Invoke, Request
    <2> QED BY <1>1, <1>3, <2>3, ClientOwed DEF Invoke
  <1>4. ASSUME NEW c \in Call, Consumer(c)
        PROVE  RequestsAreOwed'
    <2>1. /\ \/ UNCHANGED <<requests, toServer>>
             \/ \E r \in Request : requests' = requests \cup {r} /\ toServer' = Append(toServer, r)
          /\ UNCHANGED <<connected, toClient, server>>
      BY <1>4, ConsumerAsks DEF Staged
    <2> QED BY <1>1, <2>1, ClientOwed
  <1>5. ASSUME NEW c \in Call, Decode(c)
        PROVE  RequestsAreOwed'
    BY <1>1, <1>5, ClientOwed DEF Decode
  <1>6. CASE Disconnect
    BY <1>6 DEF Disconnect, RequestsAreOwed
  <1> QED BY <1>1, <1>2, <1>3, <1>4, <1>5, <1>6, ReplyOwed, ReceiveOwed, FunctionOwed, HandleOwed,
             IteratorOwed DEF Next, Consumer

-----------------------------------------------------------------------------
(* The end of a stream: one that is told to end before it is over is       *)
(* returning, one that cannot be pulled any more has been told to end, and *)
(* one the client has given up will be.                                    *)

TerminateAsked(c) ==
    \/ \E i \in DOMAIN toServer : toServer[i].op = "terminate" /\ toServer[i].call = c
    \/ \E i \in DOMAIN handling : handling[i].op = "terminate" /\ handling[i].call = c

EndIsSeen(c) ==
    /\ execution[c].ended => Begun(c)
    /\ execution[c].ended /\ connected => stream[c].terminated \/ execution[c].state = "over"
    /\ stream[c].terminated => stream[c].completed

EndIsReached(c) ==
    execution[c].state = "streaming" =>
        /\ execution[c].ended => Returning(c)
        /\ c \notin invocations => execution[c].ended
        /\ stream[c].started /\ stream[c].terminated /\ connected /\ ~execution[c].ended
              => TerminateAsked(c)
        /\ stream[c].started /\ ~connected => execution[c].ended

StreamsEnd == \A c \in Call : EndIsSeen(c) /\ EndIsReached(c)

LEMMA InitEnds == Init => StreamsEnd
  BY DEF Init, StreamsEnd, EndIsSeen, EndIsReached, NotExecuted, Uncalled, NewStream

(* The steps of the client: the streams and what is on its way.            *)
LEMMA ClientEnds ==
  ASSUME StreamsEnd, UNCHANGED <<connected, server>>,
         \A i \in DOMAIN toServer : \E j \in DOMAIN toServer' : toServer'[j] = toServer[i],
         \A c \in Call :
            /\ stream[c].terminated => stream'[c].terminated \/ ~Begun(c)
            /\ stream'[c].terminated => stream'[c].completed
            /\ stream'[c].started => stream[c].started \/ (connected /\ ~stream'[c].terminated)
            /\ stream'[c].started /\ connected /\ stream'[c].terminated /\ ~stream[c].terminated
                 => TerminateAsked(c)'
  PROVE  StreamsEnd'
  <1> SUFFICES ASSUME NEW c \in Call
               PROVE  EndIsSeen(c)' /\ EndIsReached(c)'
    BY DEF StreamsEnd
  <1>1. UNCHANGED <<execution, pulling, invocations, handling, connected>>
    BY DEF server
  <1>2. TerminateAsked(c) => TerminateAsked(c)'
    BY <1>1 DEF TerminateAsked
  <1>3. EndIsSeen(c)'
    BY <1>1 DEF StreamsEnd, EndIsSeen, Begun
  <1>4. EndIsReached(c)'
    <2>1. execution[c].state = "streaming" => Begun(c)
      BY DEF Begun
    <2> QED BY <1>1, <1>2, <2>1 DEF StreamsEnd, EndIsReached, Returning
  <1> QED BY <1>3, <1>4

LEMMA TerminatedCompletes ==
  ASSUME NEW s \in Stream, s.terminated => s.completed
  PROVE  /\ \A t : Consumes(s, t) =>
                     /\ t.terminated => t.completed
                     /\ Failed(t).terminated => Failed(t).completed
         /\ Failed(s).terminated => Failed(s).completed
         /\ StreamStarted(s).terminated => StreamStarted(s).completed
         /\ StreamStarted(s).started => s.started \/ ~StreamStarted(s).terminated
         /\ Triggered(StreamCompleted(s)).terminated => Triggered(StreamCompleted(s)).completed
         /\ \A v : ReceiveItem(s, v).terminated => ReceiveItem(s, v).completed
  <1>1. ASSUME NEW t, Consumes(s, t)
        PROVE  /\ t.terminated => t.completed
               /\ Failed(t).terminated => Failed(t).completed
    BY <1>1 DEF Consumes, Terminated, Woken, Taken, Failed, Stream
  <1>2. /\ Failed(s).terminated => Failed(s).completed
        /\ StreamStarted(s).terminated => StreamStarted(s).completed
        /\ StreamStarted(s).started => s.started \/ ~StreamStarted(s).terminated
    BY DEF Failed, StreamStarted, Woken, Stream
  <1>3. /\ Triggered(StreamCompleted(s)).terminated => Triggered(StreamCompleted(s)).completed
        /\ \A v : ReceiveItem(s, v).terminated => ReceiveItem(s, v).completed
    BY DEF Triggered, StreamCompleted, ReceiveItem, Woken, Stream
  <1> QED BY <1>1, <1>2, <1>3

LEMMA ConsumerEnds ==
  ASSUME Staged, StreamsEnd, NEW c \in Call, Consumer(c)
  PROVE  StreamsEnd'
  <1>1. PICK t \in Stream :
            /\ Consumes(stream[c], t)
            /\ \/ stream' = [stream EXCEPT ![c] = t]
               \/ ~connected /\ stream' = [stream EXCEPT ![c] = Failed(t)]
            /\ \/ UNCHANGED <<requests, toServer>>
               \/ \E r \in Request : toServer' = Append(toServer, r)
            /\ \/ ~connected \/ t.terminated = stream[c].terminated
               \/ \E r \in Request : /\ r.op = "terminate" /\ r.call = c
                                     /\ toServer' = Append(toServer, r)
            /\ UNCHANGED <<connected, server>>
    BY ConsumerAsks DEF Staged
  <1>2. /\ stream \in [Call -> Stream] /\ stream[c] \in Stream /\ toServer \in Seq(Request)
        /\ stream[c].terminated => stream[c].completed
    BY DEF Staged, Asking, Typed, TypeOK, StreamsEnd, EndIsSeen
  <1>3. /\ t.terminated => t.completed
        /\ Failed(t).terminated => Failed(t).completed
        /\ stream[c].terminated => t.terminated /\ Failed(t).terminated
        /\ t.started = stream[c].started /\ Failed(t).started = stream[c].started
    BY <1>1, <1>2, TerminatedCompletes, ConsumesKeeps
  <1>4. \A i \in DOMAIN toServer : \E j \in DOMAIN toServer' : toServer'[j] = toServer[i]
    <2>1. CASE UNCHANGED toServer
      BY <2>1
    <2>2. ASSUME NEW r \in Request, toServer' = Append(toServer, r)
          PROVE  \A i \in DOMAIN toServer : \E j \in DOMAIN toServer' : toServer'[j] = toServer[i]
      BY <1>2, <2>2, AppendOf
    <2> QED BY <1>1, <2>1, <2>2
  <1>5. connected => t.terminated = stream[c].terminated \/ TerminateAsked(c)'
    <2>1. ASSUME NEW r \in Request, r.op = "terminate", r.call = c, toServer' = Append(toServer, r)
          PROVE  TerminateAsked(c)'
      <3>1. \E i \in DOMAIN toServer' : toServer'[i] = r
        BY <1>2, <2>1, AppendOf
      <3> QED BY <2>1, <3>1 DEF TerminateAsked
    <2> QED BY <1>1, <2>1
  <1>6. \A d \in Call :
            /\ stream[d].terminated => stream'[d].terminated
            /\ stream'[d].terminated => stream'[d].completed
            /\ stream'[d].started => stream[d].started
            /\ stream'[d].started /\ connected /\ stream'[d].terminated /\ ~stream[d].terminated
                 => TerminateAsked(d)'
    <2>1. \A d \in Call : stream[d].terminated => stream[d].completed
      BY DEF StreamsEnd, EndIsSeen
    <2>2. \A d \in Call : d # c => stream'[d] = stream[d]
      BY <1>1, <1>2
    <2>3. stream'[c] = t \/ (~connected /\ stream'[c] = Failed(t))
      BY <1>1, <1>2
    <2> QED BY <1>3, <1>5, <2>1, <2>2, <2>3
  <1> QED BY <1>1, <1>4, <1>6, ClientEnds

LEMMA InvokeEnds ==
  ASSUME Staged, StreamsEnd, Invoke
  PROVE  StreamsEnd'
  <1>1. /\ calls \in Nat /\ calls + 1 \in Call
        /\ stream \in [Call -> Stream] /\ toServer \in Seq(Request)
    BY Ids DEF Invoke, Staged, Asking, Typed, TypeOK, Call
  <1>2. PICK m \in Mode, p \in BOOLEAN : stream' = [stream EXCEPT ![calls + 1] = NewStream(m, p)]
    BY DEF Invoke
  <1>3. /\ stream'[calls + 1].terminated = FALSE /\ stream'[calls + 1].started = FALSE
        /\ \A c \in Call : c # calls + 1 => stream'[c] = stream[c]
    BY <1>1, <1>2 DEF NewStream
  <1>4. ~stream[calls + 1].terminated
    BY <1>1 DEF Staged, Asking, Unasked, Uncalled, NewStream
  <1>5. \A i \in DOMAIN toServer : \E j \in DOMAIN toServer' : toServer'[j] = toServer[i]
    <2>1. PICK r : r = [id |-> calls + 1, op |-> "invoke", call |-> calls + 1]
      OBVIOUS
    <2>2. r \in Request /\ toServer' = Append(toServer, r)
      BY <1>1, <2>1 DEF Invoke, Request
    <2> QED BY <1>1, <2>2, AppendOf
  <1>6. \A c \in Call :
            /\ stream[c].terminated => stream'[c].terminated
            /\ stream'[c].terminated => stream'[c].completed /\ stream[c].terminated
            /\ stream'[c].started => stream[c].started
    BY <1>3, <1>4 DEF StreamsEnd, EndIsSeen
  <1> QED BY <1>5, <1>6, ClientEnds DEF Invoke

LEMMA ReplyEnds ==
  ASSUME Staged, StreamsEnd, DispatchReply
  PROVE  StreamsEnd'
  <1>1. /\ stream \in [Call -> Stream]
        /\ UNCHANGED <<connected, toServer, server>>
        /\ connected
    BY DEF DispatchReply, Staged, Asking, ClosedIsEmpty, Typed, TypeOK
  <1>2. stream' = stream \/ \E c \in Call : \/ stream' = [stream EXCEPT ![c] = Failed(@)]
                                            \/ stream' = [stream EXCEPT ![c] = StreamStarted(@)]
    BY Requests DEF DispatchReply, ReplyError, Staged, Asking, Typed, TypeOK
  <1>3. \A c \in Call :
            /\ stream'[c].terminated = stream[c].terminated
            /\ stream'[c].terminated => stream'[c].completed
            /\ stream'[c].started => stream[c].started \/ ~stream'[c].terminated
    <2>1. \A c \in Call : stream[c] \in Stream /\ (stream[c].terminated => stream[c].completed)
      BY <1>1 DEF StreamsEnd, EndIsSeen
    <2>2. CASE stream' = stream
      BY <2>1, <2>2
    <2>3. ASSUME NEW c \in Call, \/ stream' = [stream EXCEPT ![c] = Failed(@)]
                                 \/ stream' = [stream EXCEPT ![c] = StreamStarted(@)]
          PROVE  \A d \in Call :
                    /\ stream'[d].terminated = stream[d].terminated
                    /\ stream'[d].terminated => stream'[d].completed
                    /\ stream'[d].started => stream[d].started \/ ~stream'[d].terminated
      <3>1. stream'[c] = Failed(stream[c]) \/ stream'[c] = StreamStarted(stream[c])
        BY <1>1, <2>3
      <3>2. \A d \in Call : d # c => stream'[d] = stream[d]
        BY <1>1, <2>3
      <3>3. /\ stream'[c].terminated = stream[c].terminated
            /\ stream'[c].terminated => stream'[c].completed
        BY <2>1, <3>1, TerminatedCompletes, ReceivedKeeps
      <3>4. stream'[c].started => stream[c].started \/ ~stream'[c].terminated
        BY <2>1, <3>1, TerminatedCompletes, ReceivedMode
      <3> QED BY <2>1, <3>2, <3>3, <3>4
    <2> QED BY <1>2, <2>2, <2>3
  <1> QED BY <1>1, <1>3, ClientEnds

LEMMA DecodeEnds ==
  ASSUME Staged, StreamsEnd, NEW c \in Call, Decode(c)
  PROVE  StreamsEnd'
  <1>1. /\ stream \in [Call -> Stream] /\ stream[c] \in Stream
        /\ UNCHANGED <<connected, toServer, server>>
        /\ stream[c].terminated => stream[c].completed
    BY DEF Decode, Staged, Asking, Typed, TypeOK, StreamsEnd, EndIsSeen
  <1>2. PICK t : /\ stream' = [stream EXCEPT ![c] = t]
                 /\ \/ t = Failed(stream[c]) \/ t = Triggered(StreamCompleted(stream[c]))
                    \/ t = ReceiveItem(stream[c], Head(jobs[c]))
    BY DEF Decode
  <1>3. /\ t.terminated = stream[c].terminated /\ t.started = stream[c].started
        /\ t.terminated => t.completed
    BY <1>1, <1>2, TerminatedCompletes, ReceivedKeeps, ReceivedMode
  <1>4. \A d \in Call :
            /\ stream'[d].terminated = stream[d].terminated /\ stream'[d].started = stream[d].started
            /\ stream'[d].terminated => stream'[d].completed
    BY <1>1, <1>2, <1>3 DEF StreamsEnd, EndIsSeen
  <1> QED BY <1>1, <1>4, ClientEnds

(* A request taken off the line.                                           *)
LEMMA ReceiveEnds ==
  ASSUME Staged, StreamsEnd, NEW q \in requests, ReceiveCall(q) \/ ReceiveControl(q)
  PROVE  StreamsEnd'
  <1>1. /\ q \in Request /\ q.call \in Call /\ q = Head(toServer)
        /\ toServer \in Seq(Request) /\ toServer # <<>> /\ toServer' = Tail(toServer)
        /\ handling \in Seq(Request) /\ execution \in [Call -> Execution]
        /\ UNCHANGED <<connected, client, pulling, invocations>>
    BY Requests DEF ReceiveCall, ReceiveControl, Receive, Staged, Asking, Typed, TypeOK
  <1>2. /\ Head(toServer) = toServer[1] /\ 1 \in DOMAIN toServer
        /\ \A i \in DOMAIN toServer : i # 1 => i - 1 \in DOMAIN toServer' /\ toServer'[i - 1] = toServer[i]
    BY <1>1, TailOf
  <1>3. \A i \in DOMAIN handling : i \in DOMAIN handling' /\ handling'[i] = handling[i]
    <2>1. CASE handling' = handling
      BY <2>1
    <2>2. CASE handling' = Append(handling, q)
      BY <1>1, <2>2, AppendOf
    <2> QED BY <2>1, <2>2 DEF ReceiveCall, ReceiveControl
  <1>4. \A c \in Call : TerminateAsked(c) => TerminateAsked(c)' \/ (q.op = "terminate" /\ q.call = c)
    BY ZenonT(60), <1>1, <1>2, <1>3 DEF TerminateAsked
  <1>5. /\ \A c \in Call : execution'[c].ended = execution[c].ended
        /\ \A c \in Call : execution'[c].state = "streaming" => execution[c].state = "streaming"
        /\ \A c \in Call : Begun(c) => Begun(c)' /\ execution'[c].state = execution[c].state
    <2>1. CASE execution' = execution
      BY <2>1 DEF Begun
    <2>2. CASE ReceiveCall(q)
      <3>1. PICK ruling \in {"refused", "delayed", "admitted"} :
               execution' = [execution EXCEPT ![q.call].state = ruling]
        BY <2>2 DEF ReceiveCall
      <3>2. /\ \A c \in Call : c # q.call => execution'[c] = execution[c]
            /\ execution'[q.call].state = ruling /\ execution'[q.call].ended = execution[q.call].ended
        BY <1>1, <3>1 DEF Execution
      <3>3. execution[q.call].state = "none"
        BY <1>1, <1>2, <2>2 DEF ReceiveCall, Staged, InvokesWait
      <3> QED BY <3>2, <3>3 DEF Begun
    <2> QED BY <2>1, <2>2 DEF ReceiveControl
  <1>6. q.op = "terminate" => TerminateAsked(q.call)' \/ q.call \notin invocations
    <2>1. q.op = "terminate" => q.call \notin invocations \/ handling' = Append(handling, q)
      BY DEF ReceiveCall, ReceiveControl
    <2>2. ASSUME q.op = "terminate", handling' = Append(handling, q)
          PROVE  TerminateAsked(q.call)'
      <3>1. \E i \in DOMAIN handling' : handling'[i] = q
        BY <1>1, <2>2, AppendOf
      <3> QED BY <2>2, <3>1 DEF TerminateAsked
    <2> QED BY <2>1, <2>2
  <1> SUFFICES ASSUME NEW c \in Call
               PROVE  EndIsSeen(c)' /\ EndIsReached(c)'
    BY DEF StreamsEnd
  <1>7. UNCHANGED <<connected, stream, pulling, invocations>>
    BY <1>1 DEF client
  <1>8. EndIsSeen(c) /\ EndIsReached(c)
    BY DEF StreamsEnd
  <1>9. EndIsSeen(c)'
    BY <1>5, <1>7, <1>8 DEF EndIsSeen
  <1>10. EndIsReached(c)'
    BY <1>4, <1>5, <1>6, <1>7, <1>8 DEF EndIsReached, Returning
  <1> QED BY <1>9, <1>10

LEMMA FunctionEnds ==
  ASSUME Staged, StreamsEnd, NEW d \in Call, DelayEnds(d) \/ Execute(d) \/ ResultSettles(d)
  PROVE  StreamsEnd'
  <1>1. /\ execution \in [Call -> Execution] /\ pulling \in [Call -> Seq(Waiter)]
        /\ UNCHANGED <<connected, client, toServer, handling>>
    BY DEF DelayEnds, Execute, ResultSettles, Staged, Asking, Typed, TypeOK
  <1>2. PICK st \in {"admitted", "running", "streaming", "over"} :
           /\ execution' = [execution EXCEPT ![d].state = st]
           /\ st = "streaming" => d \in invocations'
           /\ \A c \in Call : c # d => (c \in invocations' <=> c \in invocations)
           /\ execution[d].state \in {"delayed", "admitted", "running"}
           /\ \A c \in Call : c # d => pulling'[c] = pulling[c]
    BY <1>1 DEF DelayEnds, Execute, ResultSettles
  <1>3. /\ \A c \in Call : c # d => execution'[c] = execution[c]
        /\ execution'[d].state = st /\ execution'[d].ended = execution[d].ended
    BY <1>1, <1>2 DEF Execution
  <1>4. ~Begun(d) /\ ~stream[d].started
    BY <1>2 DEF Begun, Staged, WorkIsBegun
  <1>5. ~execution[d].ended
    BY <1>4 DEF StreamsEnd, EndIsSeen
  <1> SUFFICES ASSUME NEW c \in Call
               PROVE  EndIsSeen(c)' /\ EndIsReached(c)'
    BY DEF StreamsEnd
  <1>6. UNCHANGED <<connected, stream, toServer, handling>>
    BY <1>1 DEF client
  <1>7. EndIsSeen(c) /\ EndIsReached(c)
    BY DEF StreamsEnd
  <1>8. CASE c = d
    BY <1>2, <1>3, <1>4, <1>5, <1>6, <1>7, <1>8 DEF EndIsSeen, EndIsReached
  <1>9. CASE c # d
    BY <1>2, <1>3, <1>6, <1>7, <1>9 DEF EndIsSeen, EndIsReached, Begun, Returning, TerminateAsked
  <1> QED BY <1>8, <1>9

LEMMA HandleEnds ==
  ASSUME Staged, StreamsEnd, Handle
  PROVE  StreamsEnd'
  <1>1. /\ handling \in Seq(Request) /\ handling # <<>> /\ handling' = Tail(handling)
        /\ UNCHANGED <<connected, client, toServer>>
        /\ execution \in [Call -> Execution] /\ pulling \in [Call -> Seq(Waiter)]
    BY DEF Handle, Staged, Asking, Typed, TypeOK
  <1>2. /\ 1 \in DOMAIN handling /\ Head(handling) = handling[1] /\ Head(handling) \in Request
        /\ \A i \in DOMAIN handling : i # 1 => i - 1 \in DOMAIN handling' /\ handling'[i - 1] = handling[i]
    BY <1>1, TailOf
  <1>3. PICK h \in Request : /\ h = Head(handling) /\ h.op # "invoke" /\ h.call \in Call
                             /\ h.id \in ControlId /\ Begun(h.call)
                             /\ h.op = "terminate" => stream[h.call].terminated
    BY <1>2, Requests
       DEF Staged, Asking, Typed, ControlsAreHandled, WorkIsBegun, RequestsAreAsked, Asked
  <1>4. \A c \in Call : TerminateAsked(c) => TerminateAsked(c)' \/ (h.op = "terminate" /\ h.call = c)
    BY ZenonT(60), <1>1, <1>2, <1>3 DEF TerminateAsked
  <1>5. execution[h.call] \in Execution
    BY <1>1, <1>3
  <1> SUFFICES ASSUME NEW c \in Call
               PROVE  EndIsSeen(c)' /\ EndIsReached(c)'
    BY DEF StreamsEnd
  <1>6. UNCHANGED <<connected, stream, toServer>>
    BY <1>1 DEF client
  <1>7. EndIsSeen(c) /\ EndIsReached(c)
    BY DEF StreamsEnd
  <1>8. CASE \/ /\ invocations' = invocations \ {h.call} /\ execution[h.call].ended
                /\ UNCHANGED <<execution, pulling>>
             \/ /\ h.op # "terminate" /\ UNCHANGED <<execution, invocations>>
                /\ \A d \in Call : Returning(d) => Returning(d)'
    <2>1. \A d \in Call : Returning(d) => Returning(d)'
      BY <1>8 DEF Returning
    <2>2. UNCHANGED execution
      BY <1>8
    <2>3. EndIsSeen(c)'
      BY <1>6, <1>7, <2>2 DEF EndIsSeen, Begun
    <2>4. EndIsReached(c)'
      BY <1>4, <1>6, <1>7, <1>8, <2>1, <2>2 DEF EndIsReached
    <2> QED BY <2>3, <2>4
  <1>9. CASE /\ h.op = "terminate" /\ invocations' = invocations \ {h.call}
             /\ execution' = [execution EXCEPT ![h.call].ended = TRUE]
             /\ \A d \in Call : Returning(d) \/ d = h.call => Returning(d)'
    <2>1. /\ execution'[h.call].ended /\ execution'[h.call].state = execution[h.call].state
          /\ \A d \in Call : d # h.call => execution'[d] = execution[d]
      BY <1>1, <1>3, <1>5, <1>9 DEF Execution
    <2>2. EndIsSeen(c)'
      <3>1. CASE c = h.call
        BY <1>3, <1>6, <1>7, <1>9, <2>1, <3>1 DEF EndIsSeen, Begun
      <3>2. CASE c # h.call
        BY <1>6, <1>7, <2>1, <3>2 DEF EndIsSeen, Begun
      <3> QED BY <3>1, <3>2
    <2>3. EndIsReached(c)'
      BY <1>4, <1>6, <1>7, <1>9, <2>1 DEF EndIsReached
    <2> QED BY <2>2, <2>3
  <1>10. ASSUME h.op # "terminate", NEW x, execution' = [execution EXCEPT ![h.call].halted = x],
                UNCHANGED <<pulling, invocations>>
         PROVE  EndIsSeen(c)' /\ EndIsReached(c)'
    <2>1. /\ execution'[c].ended = execution[c].ended
          /\ execution'[c].state = execution[c].state
      <3>1. CASE c = h.call
        BY <1>1, <1>5, <1>10, <3>1 DEF Execution
      <3>2. CASE c # h.call
        BY <1>1, <1>3, <1>10, <3>2
      <3> QED BY <3>1, <3>2
    <2>2. EndIsSeen(c)'
      BY <1>6, <1>7, <2>1 DEF EndIsSeen, Begun
    <2>3. EndIsReached(c)'
      BY <1>4, <1>6, <1>7, <1>10, <2>1 DEF EndIsReached, Returning
    <2> QED BY <2>2, <2>3
  <1>11. Waiting(h.id) \in Waiter /\ [id |-> h.id, at |-> "return"] \in Waiter
    BY <1>3 DEF Waiting, Waiter
  <1>12. CASE h.op \in {"pull", "next"} /\ PullStream(h)
    <2>1. \/ execution[h.call].ended /\ invocations' = invocations \ {h.call} /\ UNCHANGED <<execution, pulling>>
          \/ /\ pulling' = [pulling EXCEPT ![h.call] = Append(@, Waiting(h.id))]
             /\ UNCHANGED <<execution, invocations>>
      BY <1>12 DEF PullStream
    <2>2. pulling' = [pulling EXCEPT ![h.call] = Append(@, Waiting(h.id))]
             => \A d \in Call : Returning(d) => Returning(d)'
      BY <1>3, <1>11, WaitersCome DEF Staged, Asking
    <2> QED BY <1>8, <1>12, <2>1, <2>2
  <1>13. CASE h.op = "terminate" /\ TerminateExecution(h)
    <2>1. \/ execution[h.call].ended /\ invocations' = invocations \ {h.call} /\ UNCHANGED <<execution, pulling>>
          \/ /\ pulling' = [pulling EXCEPT ![h.call] = Append(@, [id |-> h.id, at |-> "return"])]
             /\ execution' = [execution EXCEPT ![h.call].ended = TRUE]
             /\ invocations' = invocations \ {h.call}
      BY <1>13 DEF TerminateExecution
    <2>2. pulling' = [pulling EXCEPT ![h.call] = Append(@, [id |-> h.id, at |-> "return"])]
             => \A d \in Call : Returning(d) \/ d = h.call => Returning(d)'
      BY <1>3, <1>11, WaitersCome DEF Staged, Asking
    <2> QED BY <1>8, <1>9, <1>13, <2>1, <2>2
  <1>14. CASE h.op \in {"halt", "resume"} /\ \E x \in BOOLEAN : Pause(h, x)
    <2>1. \E x : execution' = [execution EXCEPT ![h.call].halted = x]
      BY <1>3, <1>14, HandlerSays DEF Staged, Asking
    <2>2. UNCHANGED <<pulling, invocations>>
      BY <1>14 DEF Pause
    <2> QED BY <1>10, <1>14, <2>1, <2>2
  <1> QED BY <1>3, <1>12, <1>13, <1>14 DEF Handle

LEMMA IterationEnds ==
  ASSUME Staged, StreamsEnd, NEW d \in Call, Wake(d) \/ Yield(d) \/ IteratorEnds(d)
  PROVE  StreamsEnd'
  <1>1. /\ UNCHANGED <<connected, client, toServer, handling>>
        /\ execution \in [Call -> Execution] /\ pulling \in [Call -> Seq(Waiter)]
        /\ Typed
    BY DEF Wake, Yield, IteratorEnds, Staged, Asking, Typed, TypeOK
  <1>2. \A c \in Call : c # d => /\ execution'[c] = execution[c] /\ pulling'[c] = pulling[c]
                                 /\ (c \in invocations' <=> c \in invocations)
    BY <1>1 DEF Wake, Yield, IteratorEnds
  <1> SUFFICES ASSUME NEW c \in Call
               PROVE  EndIsSeen(c)' /\ EndIsReached(c)'
    BY DEF StreamsEnd
  <1>3. UNCHANGED <<connected, stream, toServer, handling>>
    BY <1>1 DEF client
  <1>4. EndIsSeen(c) /\ EndIsReached(c)
    BY DEF StreamsEnd
  <1>5. CASE c # d
    BY <1>2, <1>3, <1>4, <1>5 DEF EndIsSeen, EndIsReached, Begun, Returning, TerminateAsked
  <1>6. ASSUME c = d, execution'[c].state = execution[c].state, execution'[c].ended = execution[c].ended,
               c \notin invocations' => c \notin invocations \/ execution[c].ended,
               Returning(c) => Returning(c)'
        PROVE  EndIsSeen(c)' /\ EndIsReached(c)'
    BY <1>3, <1>4, <1>6 DEF EndIsSeen, EndIsReached, Begun, TerminateAsked
  <1>7. CASE c = d /\ Wake(d)
    <2>1. PICK q \in Seq(Waiter), w \in Waiter : \E i \in DOMAIN q :
            /\ q = pulling[d] /\ w = q[i] /\ w.at = "halt" /\ w.id \in {Pump} \cup ControlId
            /\ \/ /\ execution[d].ended
                  /\ pulling' = [pulling EXCEPT ![d] = RemoveAt(q, i)]
                  /\ invocations' = invocations \ {d} /\ Says(Told(d, w, Completed))
               \/ /\ ~execution[d].ended
                  /\ pulling' = [pulling EXCEPT
                                    ![d] = Append(RemoveAt(q, i), [w EXCEPT !.at = "next"])]
                  /\ UNCHANGED invocations /\ Says({})
      BY <1>1, <1>7, WakeSays
    <2>2. PICK i \in DOMAIN q :
            /\ q = pulling[d] /\ w = q[i] /\ w.at = "halt"
            /\ \/ /\ execution[d].ended
                  /\ pulling' = [pulling EXCEPT ![d] = RemoveAt(q, i)]
                  /\ invocations' = invocations \ {d}
               \/ /\ pulling' = [pulling EXCEPT
                                    ![d] = Append(RemoveAt(q, i), [w EXCEPT !.at = "next"])]
                  /\ UNCHANGED invocations
      BY <2>1
    <2>3. PICK a \in Seq(Waiter) : a = RemoveAt(q, i) /\ Keeps(a, q, i)
      BY RemoveAtOf DEF Keeps
    <2>4. PICK x \in Waiter : x = [w EXCEPT !.at = "next"]
      BY DEF Waiter
    <2>5. PICK p \in Seq(Waiter) : p = Append(a, x) /\ Keeps(p, q, i)
      <3>1. PICK p \in Seq(Waiter) : p = Append(a, x)
        BY AppendOf
      <3>2. \A j \in DOMAIN a : j \in DOMAIN p /\ p[j] = a[j]
        BY <3>1, AppendOf
      <3>3. ASSUME NEW j \in DOMAIN q, j # i
            PROVE  \E k \in DOMAIN p : p[k] = q[j]
        <4>1. PICK k \in DOMAIN a : a[k] = q[j]
          BY <2>3, <3>3 DEF Keeps
        <4> QED BY <3>2, <4>1
      <3> QED BY <3>1, <3>3 DEF Keeps
    <2>6. Returning(d) => Returning(d)'
      <3>1. \A y \in Seq(Waiter) : pulling' = [pulling EXCEPT ![d] = y] /\ Keeps(y, pulling[d], i)
                                      => (Returning(d) => Returning(d)')
        BY <1>1, <2>2, WaitersKept
      <3> QED BY <2>2, <2>3, <2>4, <2>5, <3>1
    <2>7. UNCHANGED execution
      BY <1>7 DEF Wake
    <2> QED BY <1>6, <1>7, <2>2, <2>6, <2>7
  <1>8. CASE c = d /\ (Yield(d) \/ IteratorEnds(d))
    <2>1. PICK q \in Seq(Waiter), w \in Waiter, i \in Nat :
             /\ Moves(d, q, i, w)
             /\ (\E v \in 1 .. MaxItem : Yields(d, q, i, w, v)) \/ Ends(d, q, i, w)
      <3>1. \A q \in Seq(Waiter) : DOMAIN q \subseteq Nat
        OBVIOUS
      <3> QED BY <1>1, <1>8, <3>1, IteratorSays
    <2>2. i \in DOMAIN q /\ q = pulling[d] /\ w = q[i]
      BY <2>1 DEF Moves
    <2>3. CASE Ends(d, q, i, w)
      <3>1. execution'[d].state = "over"
        BY <1>1, <2>3 DEF Ends, Execution
      <3> QED BY <1>3, <1>4, <1>8, <3>1 DEF EndIsSeen, EndIsReached, Begun
    <2>4. ASSUME NEW v \in 1 .. MaxItem, Yields(d, q, i, w, v)
          PROVE  EndIsSeen(c)' /\ EndIsReached(c)'
      <3>1. execution'[d].state = execution[d].state /\ execution'[d].ended = execution[d].ended
        BY <1>1, <2>4 DEF Yields, Execution
      <3>2. c \notin invocations' => c \notin invocations \/ execution[c].ended
        BY <1>8, <2>4 DEF Yields
      <3>3. PICK a \in Seq(Waiter) : a = RemoveAt(q, i) /\ Keeps(a, q, i)
        BY <2>2, RemoveAtOf DEF Keeps
      <3>4. PICK p \in Seq(Waiter) : p = [q EXCEPT ![i] = Waiting(Pump)] /\ Keeps(p, q, i)
        <4>1. PICK x \in Waiter : x = Waiting(Pump)
          BY DEF Waiting, Waiter
        <4>2. PICK p \in Seq(Waiter) : p = [q EXCEPT ![i] = x]
          <5>1. [q EXCEPT ![i] = x] \in Seq(Waiter)
            BY <2>2
          <5> QED BY <5>1
        <4>3. \A j \in DOMAIN q : j # i => j \in DOMAIN p /\ p[j] = q[j]
          BY <2>2, <4>2
        <4> QED BY <4>1, <4>2, <4>3 DEF Keeps
      <3>5. pulling' = [pulling EXCEPT ![d] = a] \/ pulling' = [pulling EXCEPT ![d] = p]
        BY <2>4, <3>3, <3>4 DEF Yields
      <3>6. Returning(d) => Returning(d)'
        <4>1. w.at # "return"
          BY <2>4 DEF Yields
        <4>2. ASSUME NEW y \in Seq(Waiter), pulling' = [pulling EXCEPT ![d] = y],
                     Keeps(y, pulling[d], i)
              PROVE  Returning(d) => Returning(d)'
          <5>1. Typed /\ d \in Call /\ i \in DOMAIN pulling[d] /\ pulling[d][i].at # "return"
            BY <1>1, <2>2, <4>1
          <5>2. \A e \in Call : Returning(e) => Returning(e)' \/ (e = d /\ pulling[d][i].at = "return")
            BY <4>2, <5>1, WaitersKept
          <5> QED BY <5>1, <5>2
        <4> QED BY ZenonT(60), <2>2, <3>3, <3>4, <3>5, <4>2
      <3> QED BY <1>6, <1>8, <3>1, <3>2, <3>6
    <2> QED BY <2>1, <2>3, <2>4
  <1> QED BY <1>5, <1>7, <1>8

LEMMA DisconnectEnds ==
  ASSUME Staged, StreamsEnd, Disconnect
  PROVE  StreamsEnd'
  <1>1. /\ stream \in [Call -> Stream] /\ execution \in [Call -> Execution]
        /\ pulling \in [Call -> Seq(Waiter)]
        /\ ~connected' /\ invocations' = {}
    BY DEF Disconnect, Staged, Asking, Typed, TypeOK
  <1> SUFFICES ASSUME NEW c \in Call
               PROVE  EndIsSeen(c)' /\ EndIsReached(c)'
    BY DEF StreamsEnd
  <1>2. EndIsSeen(c) /\ EndIsReached(c) /\ (c \in invocations => execution[c].state = "streaming")
    BY DEF StreamsEnd, Staged, StreamsHaveMode
  <1>3. stream'[c].terminated => stream'[c].completed
    <2>1. stream'[c] = stream[c] \/ stream'[c] = Failed(stream[c])
      BY DEF Disconnect
    <2> QED BY <1>1, <1>2, <2>1, TerminatedCompletes DEF EndIsSeen
  <1>4. /\ execution'[c].state = execution[c].state
        /\ execution'[c].ended <=> execution[c].ended \/ c \in invocations
    BY <1>1 DEF Disconnect, Execution
  <1>5. execution'[c].ended /\ execution[c].state = "streaming" => Returning(c)'
    <2>1. CASE c \in invocations /\ ~execution[c].ended
      <3>1. PICK x \in Waiter : x = [id |-> Pump, at |-> "return"]
        BY DEF Waiter
      <3>2. pulling'[c] = Append(pulling[c], x)
        BY <2>1, <3>1 DEF Disconnect
      <3>3. PICK q \in Seq(Waiter) : q = pulling[c]
        BY <1>1
      <3>4. Len(q) + 1 \in DOMAIN Append(q, x) /\ Append(q, x)[Len(q) + 1] = x
        BY AppendOf
      <3> QED BY <3>1, <3>2, <3>3, <3>4 DEF Returning
    <2>2. CASE ~(c \in invocations /\ ~execution[c].ended)
      <3>1. pulling'[c] = pulling[c]
        BY <2>2 DEF Disconnect
      <3> QED BY <1>2, <1>4, <2>2, <3>1 DEF EndIsReached, Returning
    <2> QED BY <2>1, <2>2
  <1>6. EndIsSeen(c)'
    BY <1>1, <1>2, <1>3, <1>4 DEF EndIsSeen, Begun
  <1>7. EndIsReached(c)'
    BY <1>1, <1>2, <1>4, <1>5 DEF EndIsReached
  <1> QED BY <1>6, <1>7

LEMMA NextEnds == Staged /\ StreamsEnd /\ [Next]_vars => StreamsEnd'
  <1> SUFFICES ASSUME Staged, StreamsEnd, [Next]_vars
               PROVE  StreamsEnd'
    OBVIOUS
  <1>1. CASE UNCHANGED vars
    BY <1>1 DEF vars, client, server, StreamsEnd, EndIsSeen, EndIsReached, Begun, Returning, TerminateAsked
  <1>2. CASE Next
    BY <1>2, ConsumerEnds, InvokeEnds, ReplyEnds, DecodeEnds, ReceiveEnds, FunctionEnds,
       HandleEnds, IterationEnds, DisconnectEnds DEF Next, Consumer
  <1> QED BY <1>1, <1>2

LEMMA EndsRelease ==
  ASSUME Staged, StreamsEnd
  PROVE  TerminatedIsReleased
  <1> SUFFICES ASSUME NEW c \in Call, Quiet(c), stream[c].started, stream[c].terminated \/ ~connected
               PROVE  execution[c].state # "streaming"
    BY DEF TerminatedIsReleased, Staged, StreamsHaveMode
  <1>1. ~Returning(c) /\ ~TerminateAsked(c)
    BY DEF Quiet, Returning, TerminateAsked
  <1> QED BY <1>1 DEF StreamsEnd, EndIsReached

-----------------------------------------------------------------------------
(* Delivery.  J is what waits to be decoded and T what is on its way: the  *)
(* items f + 1 to t of call c, those of J first.                           *)

IsChunk(m, c) == m.reply = "Chunk" /\ m.id = c

Comes(J, T, c, f, t) ==
    /\ f <= t
    /\ \A i \in DOMAIN J : J[i] # Completion => f < J[i] /\ J[i] <= t
    /\ \A i \in DOMAIN T : IsChunk(T[i], c) => f < T[i].value /\ T[i].value <= t
    /\ \A v \in (f + 1) .. t :
          \/ \E i \in DOMAIN J : J[i] = v
          \/ \E i \in DOMAIN T : IsChunk(T[i], c) /\ T[i].value = v
    /\ \A i, j \in DOMAIN J :
          i < j /\ J[i] # Completion /\ J[j] # Completion => J[i] < J[j]
    /\ \A i, j \in DOMAIN T :
          i < j /\ IsChunk(T[i], c) /\ IsChunk(T[j], c) => T[i].value < T[j].value
    /\ \A i \in DOMAIN J : \A j \in DOMAIN T :
          J[i] # Completion /\ IsChunk(T[j], c) => J[i] < T[j].value

(* The completion of a call that is over follows its items.                *)
IsCompletion(m, c) == m.reply = "Completed" /\ m.id = c

CompletesLast(J, T, c, over) ==
    /\ \A i \in DOMAIN T : IsCompletion(T[i], c) =>
          over /\ \A j \in DOMAIN T : j > i => ~IsChunk(T[j], c)
    /\ \A i \in DOMAIN J : J[i] = Completion =>
          /\ over
          /\ \A j \in DOMAIN T : ~IsChunk(T[j], c)
          /\ \A j \in DOMAIN J : j > i => J[j] = Completion

Flow(J, T, c, f, t, over) == Comes(J, T, c, f, t) /\ CompletesLast(J, T, c, over)

Over(c) == execution[c].state = "over"
Got(s) == Len(s.consumed) + Len(s.items)

Uncompleted(c) ==
    \/ \E r \in requests : r.op = "invoke" /\ r.call = c
    \/ \E i \in DOMAIN jobs[c] : jobs[c][i] = Completion

Whole(c) ==
    /\ Flow(jobs[c], toClient, c, Got(stream[c]), execution[c].produced, Over(c))
    /\ stream[c].mode # "None" => Uncompleted(c)

InOrder(s) ==
    /\ s.consumed = FirstItems(Len(s.consumed))
    /\ \A i \in DOMAIN s.items : s.items[i] = Len(s.consumed) + i
    /\ s.iter = "done" => s.completed /\ ~s.error /\ s.items = <<>>
    /\ s.error => s.completed

(* What the consumer has got is in order.  While the stream is open the    *)
(* rest is on its way; once it is complete there is no rest.               *)
Delivering(c) ==
    LET s == stream[c]
    IN  /\ InOrder(s)
        /\ ~s.completed => Whole(c)
        /\ s.completed /\ ~s.error /\ ~s.terminated =>
              Over(c) /\ Got(s) = execution[c].produced

Deliveries == \A c \in Call : Delivering(c)

TailsTo(p, q) ==
    /\ p = Tail(q)
    /\ \A i \in DOMAIN p : i \in Nat /\ 1 < i + 1 /\ i + 1 \in DOMAIN q /\ p[i] = q[i + 1]
    /\ \A i \in DOMAIN q : i # 1 => 1 < i /\ i - 1 \in DOMAIN p /\ p[i - 1] = q[i]

LEMMA TailIs ==
  ASSUME NEW S, NEW q \in Seq(S), q # <<>>
  PROVE  \E p \in Seq(S) : TailsTo(p, q)
  <1>1. /\ Tail(q) \in Seq(S)
        /\ \A i \in DOMAIN Tail(q) :
              i \in Nat /\ 1 < i + 1 /\ i + 1 \in DOMAIN q /\ Tail(q)[i] = q[i + 1]
        /\ \A i \in DOMAIN q : i # 1 => i - 1 \in DOMAIN Tail(q) /\ Tail(q)[i - 1] = q[i]
    BY TailOf
  <1>2. \A i \in DOMAIN q : i # 1 => 1 < i
    OBVIOUS
  <1> QED BY <1>1, <1>2 DEF TailsTo

Adds(p, q, e) ==
    /\ p = Append(q, e) /\ DOMAIN p = DOMAIN q \cup {Len(q) + 1}
    /\ p[Len(q) + 1] = e /\ \A i \in DOMAIN q : p[i] = q[i]

LEMMA AppendIs ==
  ASSUME NEW S, NEW q \in Seq(S), NEW e \in S
  PROVE  \E p \in Seq(S) : Adds(p, q, e)
  <1>1. /\ Append(q, e) \in Seq(S)
        /\ DOMAIN Append(q, e) = DOMAIN q \cup {Len(q) + 1}
        /\ Append(q, e)[Len(q) + 1] = e
        /\ \A i \in DOMAIN q : Append(q, e)[i] = q[i]
    BY AppendOf
  <1> QED BY <1>1 DEF Adds

(* Each message that arrives, item decoded or message sent moves the flow. *)
LEMMA Contents ==
  ASSUME NEW J \in Seq(0 .. MaxItem), NEW T \in Seq(Reply)
  PROVE  /\ \A i \in DOMAIN J : J[i] \in Nat
         /\ \A i \in DOMAIN T : T[i].reply = "Chunk" => /\ T[i].value \in 1 .. MaxItem
                                                        /\ T[i].value # Completion
                                                        /\ T[i].id \in Call
         /\ Len(J) \in Nat /\ DOMAIN J = 1 .. Len(J) /\ Len(T) \in Nat /\ DOMAIN T = 1 .. Len(T)
  <1>1. \A i \in DOMAIN J : J[i] \in Nat
    BY Ids
  <1>2. \A m \in Reply : m.reply = "Chunk" => m.value \in 1 .. MaxItem /\ m.id \in Call
    BY DEF Reply
  <1> QED BY <1>1, <1>2, Ids

LEMMA FlowChunk ==
  ASSUME NEW J \in Seq(0 .. MaxItem), NEW T \in Seq(Reply), T # <<>>,
         NEW c, NEW f \in Nat, NEW t \in Nat, NEW over \in BOOLEAN,
         Flow(J, T, c, f, t, over), IsChunk(Head(T), c)
  PROVE  Flow(Append(J, Head(T).value), Tail(T), c, f, t, over)
  <1>1. PICK v \in 1 .. MaxItem : v = Head(T).value /\ v = T[1].value /\ v # Completion
    BY Contents, TailOf, Ids DEF IsChunk
  <1>2. PICK p \in Seq(0 .. MaxItem) : Adds(p, J, v)
    <2>1. v \in 0 .. MaxItem
      BY Ids
    <2> QED BY <2>1, AppendIs
  <1>3. PICK q \in Seq(Reply) : TailsTo(q, T)
    BY TailIs
  <1> USE DEF TailsTo, Adds
  <1>4. IsChunk(T[1], c) /\ 1 \in DOMAIN T /\ T[1].value = v
    BY <1>1, TailOf
  <1>5. /\ \A i \in DOMAIN J : J[i] \in Nat /\ i < Len(J) + 1
        /\ \A i \in DOMAIN T : i \in Nat /\ (T[i].reply = "Chunk" => T[i].value \in Nat)
        /\ Len(J) \in Nat
    BY Contents, Ids
  <1>6. ASSUME Comes(J, T, c, f, t)
        PROVE  Comes(p, q, c, f, t)
    <2>1. \A i \in DOMAIN p : p[i] # Completion => f < p[i] /\ p[i] <= t
      BY <1>2, <1>4, <1>6 DEF Comes
    <2>2. \A i \in DOMAIN q : IsChunk(q[i], c) => f < q[i].value /\ q[i].value <= t
      BY <1>3, <1>6 DEF Comes
    <2>3. ASSUME NEW u \in (f + 1) .. t
          PROVE  \/ \E i \in DOMAIN p : p[i] = u
                 \/ \E i \in DOMAIN q : IsChunk(q[i], c) /\ q[i].value = u
      <3>1. CASE \E i \in DOMAIN J : J[i] = u
        BY <1>2, <3>1
      <3>2. ASSUME NEW i \in DOMAIN T, IsChunk(T[i], c), T[i].value = u
            PROVE  \/ \E k \in DOMAIN p : p[k] = u
                   \/ \E k \in DOMAIN q : IsChunk(q[k], c) /\ q[k].value = u
        <4>1. CASE i = 1
          BY <1>2, <1>4, <3>2, <4>1
        <4>2. CASE i # 1
          BY <1>3, <3>2, <4>2
        <4> QED BY <4>1, <4>2
      <3> QED BY <1>6, <3>1, <3>2 DEF Comes
    <2>4. \A i, j \in DOMAIN p : i < j /\ p[i] # Completion /\ p[j] # Completion => p[i] < p[j]
      BY <1>2, <1>4, <1>5, <1>6 DEF Comes
    <2>5. \A i, j \in DOMAIN q : i < j /\ IsChunk(q[i], c) /\ IsChunk(q[j], c) => q[i].value < q[j].value
      BY <1>3, <1>6 DEF Comes
    <2>6. \A i \in DOMAIN p : \A j \in DOMAIN q :
             p[i] # Completion /\ IsChunk(q[j], c) => p[i] < q[j].value
      <3>1. \A j \in DOMAIN q : j + 1 \in DOMAIN T /\ 1 < j + 1 /\ q[j] = T[j + 1]
        BY <1>3
      <3>2. \A j \in DOMAIN q : IsChunk(q[j], c) => v < q[j].value
        BY <1>4, <1>6, <3>1 DEF Comes
      <3> QED BY <1>2, <1>6, <3>1, <3>2 DEF Comes
    <2> QED BY <1>6, <2>1, <2>2, <2>3, <2>4, <2>5, <2>6 DEF Comes
  <1>7. CompletesLast(p, q, c, over)
    <2>1. \A i \in DOMAIN J : J[i] # Completion
      BY <1>4 DEF Flow, CompletesLast
    <2>2. \A i \in DOMAIN p : p[i] # Completion
      BY <1>1, <1>2, <2>1
    <2>3. \A i \in DOMAIN q : IsCompletion(q[i], c) =>
             over /\ \A j \in DOMAIN q : j > i => ~IsChunk(q[j], c)
      BY <1>3 DEF Flow, CompletesLast
    <2> QED BY <2>2, <2>3 DEF CompletesLast
  <1> QED BY <1>1, <1>2, <1>3, <1>6, <1>7 DEF Flow

LEMMA FlowSkip ==
  ASSUME NEW J \in Seq(0 .. MaxItem), NEW T \in Seq(Reply), T # <<>>,
         NEW c, NEW f \in Nat, NEW t \in Nat, NEW over \in BOOLEAN,
         Flow(J, T, c, f, t, over), ~IsChunk(Head(T), c)
  PROVE  Flow(J, Tail(T), c, f, t, over)
  <1>1. PICK q \in Seq(Reply) : TailsTo(q, T)
    BY TailIs
  <1> USE DEF TailsTo
  <1>2. ~IsChunk(T[1], c)
    BY TailOf
  <1>3. \A i \in DOMAIN T : IsChunk(T[i], c) => \E k \in DOMAIN q : q[k] = T[i]
    BY <1>1, <1>2
  <1>4. Comes(J, q, c, f, t)
    <2>1. /\ \A i \in DOMAIN q : IsChunk(q[i], c) => f < q[i].value /\ q[i].value <= t
          /\ \A i, j \in DOMAIN q :
                i < j /\ IsChunk(q[i], c) /\ IsChunk(q[j], c) => q[i].value < q[j].value
          /\ \A i \in DOMAIN J : \A j \in DOMAIN q :
                J[i] # Completion /\ IsChunk(q[j], c) => J[i] < q[j].value
      BY <1>1 DEF Flow, Comes
    <2>2. \A v \in (f + 1) .. t :
             \/ \E i \in DOMAIN J : J[i] = v
             \/ \E i \in DOMAIN q : IsChunk(q[i], c) /\ q[i].value = v
      BY <1>3 DEF Flow, Comes
    <2> HIDE DEF TailsTo
    <2> QED BY <2>1, <2>2 DEF Flow, Comes
  <1>5. CompletesLast(J, q, c, over)
    BY <1>1 DEF Flow, CompletesLast
  <1> QED BY <1>1, <1>4, <1>5 DEF Flow

LEMMA FlowCompletes ==
  ASSUME NEW J \in Seq(0 .. MaxItem), NEW T \in Seq(Reply), T # <<>>,
         NEW c, NEW f \in Nat, NEW t \in Nat, NEW over \in BOOLEAN,
         Flow(J, T, c, f, t, over), IsCompletion(Head(T), c)
  PROVE  Flow(Append(J, Completion), Tail(T), c, f, t, over)
  <1>1. PICK q \in Seq(Reply) : TailsTo(q, T)
    BY TailIs
  <1> USE DEF TailsTo
  <1>2. 1 \in DOMAIN T /\ IsCompletion(T[1], c)
    BY TailOf
  <1>3. over /\ \A j \in DOMAIN q : ~IsChunk(q[j], c)
    <2>1. \A j \in DOMAIN q : j + 1 > 1
      BY <1>1
    <2> QED BY <1>1, <1>2, <2>1 DEF Flow, CompletesLast
  <1>4. Flow(J, q, c, f, t, over)
    BY <1>1, <1>2, FlowSkip, TailOf DEF IsChunk, IsCompletion
  <1>5. PICK p \in Seq(0 .. MaxItem) : Adds(p, J, Completion)
    <2>1. Completion \in 0 .. MaxItem
      BY Ids
    <2> QED BY <2>1, AppendIs
  <1> USE DEF Adds
  <1>6. /\ \A i \in DOMAIN p : p[i] # Completion => i \in DOMAIN J /\ p[i] = J[i]
        /\ \A i \in DOMAIN J : i \in DOMAIN p /\ p[i] = J[i] /\ i < Len(J) + 1
    BY <1>5, Contents
  <1>7. Comes(p, q, c, f, t)
    <2>1. \A v \in (f + 1) .. t :
             \/ \E i \in DOMAIN p : p[i] = v
             \/ \E i \in DOMAIN q : IsChunk(q[i], c) /\ q[i].value = v
      BY <1>4, <1>6 DEF Flow, Comes
    <2> QED BY <1>4, <1>6, <2>1 DEF Flow, Comes
  <1>8. CompletesLast(p, q, c, over)
    <2>1. \A i, j \in DOMAIN p : p[i] = Completion /\ j > i => p[j] = Completion
      <3>1. \A i \in DOMAIN p : i = Len(J) + 1 \/ i \in DOMAIN J
        BY <1>5
      <3>2. Len(J) \in Nat /\ DOMAIN J = 1 .. Len(J)
        BY Contents
      <3> QED BY <1>4, <1>5, <1>6, <3>1, <3>2 DEF Flow, CompletesLast
    <2> QED BY <1>3, <1>4, <2>1 DEF Flow, CompletesLast
  <1> QED BY <1>1, <1>5, <1>7, <1>8 DEF Flow

LEMMA FlowItem ==
  ASSUME NEW J \in Seq(0 .. MaxItem), NEW T \in Seq(Reply), J # <<>>,
         NEW c, NEW f \in Nat, NEW t \in Nat, NEW over \in BOOLEAN,
         Flow(J, T, c, f, t, over), Head(J) # Completion
  PROVE  Head(J) = f + 1 /\ Flow(Tail(J), T, c, f + 1, t, over)
  <1>1. PICK p \in Seq(0 .. MaxItem) : TailsTo(p, J)
    BY TailIs
  <1> USE DEF TailsTo
  <1>2. 1 \in DOMAIN J /\ J[1] = Head(J) /\ J[1] # Completion
    BY TailOf
  <1>3. /\ \A i \in DOMAIN J : J[i] \in Nat
        /\ \A i \in DOMAIN T : IsChunk(T[i], c) => T[i].value \in Nat
    BY Contents, Ids DEF IsChunk
  <1>4. f < J[1] /\ J[1] <= t
    BY <1>2 DEF Flow, Comes
  <1>5. /\ \A i \in DOMAIN J : i # 1 /\ J[i] # Completion => J[1] < J[i]
        /\ \A i \in DOMAIN T : IsChunk(T[i], c) => J[1] < T[i].value
    BY <1>1, <1>2 DEF Flow, Comes
  <1>6. J[1] = f + 1
    <2>1. f + 1 \in (f + 1) .. t
      BY <1>2, <1>3, <1>4
    <2>2. CASE \E i \in DOMAIN J : J[i] = f + 1
      <3>1. PICK i \in DOMAIN J : J[i] = f + 1
        BY <2>2
      <3>2. J[i] # Completion
        BY <3>1, Ids
      <3> QED BY <1>2, <1>3, <1>4, <1>5, <3>1, <3>2
    <2>3. CASE \E i \in DOMAIN T : IsChunk(T[i], c) /\ T[i].value = f + 1
      BY <1>2, <1>3, <1>4, <1>5, <2>3
    <2> QED BY <2>1, <2>2, <2>3 DEF Flow, Comes
  <1>7. Comes(p, T, c, f + 1, t)
    <2>1. f + 1 <= t
      BY <1>3, <1>4, <1>6
    <2>2. /\ \A i \in DOMAIN p : p[i] # Completion => f + 1 < p[i] /\ p[i] <= t
          /\ \A i \in DOMAIN T : IsChunk(T[i], c) => f + 1 < T[i].value /\ T[i].value <= t
      BY <1>1, <1>5, <1>6 DEF Flow, Comes
    <2>3. \A v \in ((f + 1) + 1) .. t :
             \/ \E i \in DOMAIN p : p[i] = v
             \/ \E i \in DOMAIN T : IsChunk(T[i], c) /\ T[i].value = v
      <3>1. \A v \in ((f + 1) + 1) .. t : v \in (f + 1) .. t /\ v # f + 1
        OBVIOUS
      <3>2. \A i \in DOMAIN J : J[i] = f + 1 \/ \E k \in DOMAIN p : p[k] = J[i]
        BY <1>1, <1>6
      <3> QED BY <3>1, <3>2 DEF Flow, Comes
    <2>4. \A i, j \in DOMAIN p : i < j /\ p[i] # Completion /\ p[j] # Completion => p[i] < p[j]
      BY <1>1 DEF Flow, Comes
    <2> QED BY <1>1, <2>1, <2>2, <2>3, <2>4 DEF Flow, Comes
  <1>8. CompletesLast(p, T, c, over)
    <2>1. \A i \in DOMAIN p : p[i] = Completion =>
             /\ over
             /\ \A j \in DOMAIN T : ~IsChunk(T[j], c)
             /\ \A j \in DOMAIN p : j > i => p[j] = Completion
      BY <1>1 DEF Flow, CompletesLast
    <2> QED BY <2>1 DEF Flow, CompletesLast
  <1> QED BY <1>1, <1>2, <1>6, <1>7, <1>8 DEF Flow

LEMMA FlowEnd ==
  ASSUME NEW J \in Seq(0 .. MaxItem), NEW T \in Seq(Reply), J # <<>>,
         NEW c, NEW f \in Nat, NEW t \in Nat, NEW over \in BOOLEAN,
         Flow(J, T, c, f, t, over), Head(J) = Completion
  PROVE  over /\ f = t
  <1>1. 1 \in DOMAIN J /\ J[1] = Completion
    BY TailOf
  <1>2. /\ over
        /\ \A j \in DOMAIN T : ~IsChunk(T[j], c)
        /\ \A j \in DOMAIN J : j > 1 => J[j] = Completion
    BY <1>1 DEF Flow, CompletesLast
  <1>3. \A j \in DOMAIN J : J[j] = Completion
    <2>1. \A j \in DOMAIN J : j = 1 \/ j > 1
      OBVIOUS
    <2> QED BY <1>1, <1>2, <2>1
  <1>4. ASSUME f # t
        PROVE  FALSE
    <2>1. f + 1 \in (f + 1) .. t /\ f + 1 # Completion
      BY <1>4, Ids DEF Flow, Comes
    <2> QED BY <1>2, <1>3, <2>1 DEF Flow, Comes
  <1> QED BY <1>2, <1>4

(* Nothing is lost where nothing is to come.                               *)
LEMMA FlowEmpty ==
  ASSUME NEW J \in Seq(0 .. MaxItem), NEW T \in Seq(Reply),
         NEW c, NEW f \in Nat, NEW over \in BOOLEAN, Flow(J, T, c, f, f, over),
         NEW p \in Seq(0 .. MaxItem), NEW q \in Seq(Reply),
         \A i \in DOMAIN p : \E k \in DOMAIN J : p[i] = J[k],
         \A i \in DOMAIN q : \E k \in DOMAIN T : q[i] = T[k]
  PROVE  Flow(p, q, c, f, f, over)
  <1>1. /\ \A i \in DOMAIN J : J[i] \in Nat
        /\ \A i \in DOMAIN T : IsChunk(T[i], c) => T[i].value \in Nat
    BY Contents, Ids DEF IsChunk
  <1>2. /\ \A i \in DOMAIN J : J[i] = Completion
        /\ \A i \in DOMAIN T : ~IsChunk(T[i], c)
    BY <1>1 DEF Flow, Comes
  <1>3. /\ \A i \in DOMAIN p : p[i] = Completion
        /\ \A i \in DOMAIN q : ~IsChunk(q[i], c)
    BY <1>2
  <1>4. Comes(p, q, c, f, f)
    <2>1. \A v \in (f + 1) .. f : FALSE
      OBVIOUS
    <2> QED BY <1>3, <2>1 DEF Comes
  <1>5. /\ (\E i \in DOMAIN J : J[i] = Completion) => over
        /\ (\E i \in DOMAIN T : IsCompletion(T[i], c)) => over
    BY DEF Flow, CompletesLast
  <1>6. CompletesLast(p, q, c, over)
    BY <1>3, <1>5 DEF CompletesLast
  <1> QED BY <1>4, <1>6 DEF Flow

(* Nor is it once the completion has arrived.                              *)
LEMMA FlowLost ==
  ASSUME NEW J \in Seq(0 .. MaxItem), NEW T \in Seq(Reply),
         NEW c, NEW f \in Nat, NEW t \in Nat, NEW over \in BOOLEAN,
         Flow(J, T, c, f, t, over), \E i \in DOMAIN J : J[i] = Completion
  PROVE  Flow(J, <<>>, c, f, t, over)
  <1>1. \A i \in DOMAIN T : ~IsChunk(T[i], c)
    BY DEF Flow, CompletesLast
  <1>2. PICK q : q = <<>> /\ \A i \in DOMAIN q : FALSE
    OBVIOUS
  <1>3. Comes(J, q, c, f, t)
    BY <1>1, <1>2 DEF Flow, Comes
  <1>4. CompletesLast(J, q, c, over)
    BY <1>2 DEF Flow, CompletesLast
  <1> QED BY <1>2, <1>3, <1>4 DEF Flow

(* U is T and what is sent after it.                                       *)
Extends(U, T) ==
    /\ \A i \in DOMAIN T : i \in DOMAIN U /\ U[i] = T[i]
    /\ \A i \in DOMAIN U : i \notin DOMAIN T => \A j \in DOMAIN T : j < i

LEMMA FlowSaid ==
  ASSUME NEW J \in Seq(0 .. MaxItem), NEW T \in Seq(Reply), NEW U \in Seq(Reply),
         NEW c, NEW f \in Nat, NEW t \in Nat, NEW over \in BOOLEAN, NEW then \in BOOLEAN,
         Flow(J, T, c, f, t, over), over => then, Extends(U, T),
         \A i \in DOMAIN U : i \notin DOMAIN T =>
            ~IsChunk(U[i], c) /\ (IsCompletion(U[i], c) => then)
  PROVE  Flow(J, U, c, f, t, then)
  <1>1. \A i \in DOMAIN U : IsChunk(U[i], c) => i \in DOMAIN T /\ U[i] = T[i]
    BY DEF Extends
  <1>2. Comes(J, U, c, f, t)
    <2>1. \A v \in (f + 1) .. t :
             \/ \E i \in DOMAIN J : J[i] = v
             \/ \E i \in DOMAIN U : IsChunk(U[i], c) /\ U[i].value = v
      BY DEF Flow, Comes, Extends
    <2> QED BY <1>1, <2>1 DEF Flow, Comes
  <1>3. ASSUME NEW i \in DOMAIN U, IsCompletion(U[i], c)
        PROVE  then /\ \A j \in DOMAIN U : j > i => ~IsChunk(U[j], c)
    <2>1. CASE i \in DOMAIN T
      BY <1>1, <1>3, <2>1 DEF Flow, CompletesLast, Extends
    <2>2. CASE i \notin DOMAIN T
      <3>1. \A j \in DOMAIN U : j > i => j \notin DOMAIN T
        BY <2>2 DEF Extends
      <3> QED BY <1>1, <1>3, <2>2, <3>1
    <2> QED BY <2>1, <2>2
  <1>4. \A i \in DOMAIN J : J[i] = Completion =>
          /\ then
          /\ \A j \in DOMAIN U : ~IsChunk(U[j], c)
          /\ \A j \in DOMAIN J : j > i => J[j] = Completion
    BY <1>1 DEF Flow, CompletesLast
  <1> QED BY <1>2, <1>3, <1>4 DEF Flow, CompletesLast

(* An item of a call that is not over.                                     *)
LEMMA FlowYield ==
  ASSUME NEW J \in Seq(0 .. MaxItem), NEW T \in Seq(Reply), NEW U \in Seq(Reply),
         NEW c, NEW f \in Nat, NEW t \in Nat,
         Flow(J, T, c, f, t, FALSE), Extends(U, T),
         NEW k \in DOMAIN U, k \notin DOMAIN T, IsChunk(U[k], c), U[k].value = t + 1,
         \A i \in DOMAIN U : i \notin DOMAIN T /\ i # k =>
            ~IsChunk(U[i], c) /\ ~IsCompletion(U[i], c)
  PROVE  Flow(J, U, c, f, t + 1, FALSE)
  <1>1. \A i \in DOMAIN U : IsChunk(U[i], c) => i = k \/ (i \in DOMAIN T /\ U[i] = T[i])
    BY DEF Extends
  <1>2. /\ \A i \in DOMAIN J : J[i] \in Nat
        /\ \A i \in DOMAIN T : IsChunk(T[i], c) => T[i].value \in Nat
    BY Contents, Ids DEF IsChunk
  <1>3. /\ \A i \in DOMAIN J : J[i] # Completion => f < J[i] /\ J[i] <= t /\ J[i] < t + 1
        /\ \A i \in DOMAIN T : IsChunk(T[i], c) =>
              f < T[i].value /\ T[i].value <= t /\ T[i].value < t + 1
    BY <1>2 DEF Flow, Comes
  <1>4. \A i \in DOMAIN T : i < k
    BY DEF Extends
  <1>5. Comes(J, U, c, f, t + 1)
    <2>1. f <= t + 1 /\ f < t + 1
      BY DEF Flow, Comes
    <2>2. /\ \A i \in DOMAIN J : J[i] # Completion => f < J[i] /\ J[i] <= t + 1
          /\ \A i \in DOMAIN U : IsChunk(U[i], c) => f < U[i].value /\ U[i].value <= t + 1
      BY <1>1, <1>2, <1>3, <2>1
    <2>3. ASSUME NEW v \in (f + 1) .. (t + 1)
          PROVE  \/ \E i \in DOMAIN J : J[i] = v
                 \/ \E i \in DOMAIN U : IsChunk(U[i], c) /\ U[i].value = v
      <3>1. v = t + 1 \/ v \in (f + 1) .. t
        OBVIOUS
      <3>2. \/ v = t + 1
            \/ \E i \in DOMAIN J : J[i] = v
            \/ \E i \in DOMAIN T : IsChunk(T[i], c) /\ T[i].value = v
        BY <3>1 DEF Flow, Comes
      <3>3. \A i \in DOMAIN T : i \in DOMAIN U /\ U[i] = T[i]
        BY DEF Extends
      <3> QED BY <3>2, <3>3
    <2>4. \A i, j \in DOMAIN U :
            i < j /\ IsChunk(U[i], c) /\ IsChunk(U[j], c) => U[i].value < U[j].value
      <3>1. \A i \in DOMAIN U : i \in Nat
        OBVIOUS
      <3>2. \A i, j \in DOMAIN U : i < j /\ i = k => j \notin DOMAIN T /\ j # k
        BY <1>4, <3>1
      <3> QED BY <1>1, <1>3, <3>1, <3>2 DEF Flow, Comes
    <2>5. \A i \in DOMAIN J : \A j \in DOMAIN U :
            J[i] # Completion /\ IsChunk(U[j], c) => J[i] < U[j].value
      BY <1>1, <1>3 DEF Flow, Comes
    <2> QED BY <2>1, <2>2, <2>3, <2>4, <2>5 DEF Flow, Comes
  <1>6. CompletesLast(J, U, c, FALSE)
    <2>1. \A i \in DOMAIN U : ~IsCompletion(U[i], c)
      BY DEF Flow, CompletesLast, Extends, IsChunk, IsCompletion
    <2> QED BY <2>1 DEF Flow, CompletesLast
  <1> QED BY <1>5, <1>6 DEF Flow

(* The states of a stream.                                                 *)
LEMMA NextItem ==
  ASSUME NEW s \in Stream, InOrder(s), s.items # <<>>
  PROVE  /\ InOrder(Taken(s)) \/ s.iter = "done"
         /\ Got(Taken(s)) = Got(s)
  <1>1. PICK n \in Nat, q \in Seq(1 .. MaxItem), d \in Seq(1 .. MaxItem) :
           /\ n = Len(d) /\ q = s.items /\ d = s.consumed /\ q # <<>>
    BY DEF Stream
  <1>2. q[1] = n + 1 /\ Head(q) = n + 1 /\ Head(q) \in 1 .. MaxItem
    BY <1>1, TailOf DEF InOrder
  <1>3. PICK p \in Seq(1 .. MaxItem) : TailsTo(p, q)
    BY <1>1, TailIs
  <1>4. PICK e \in Seq(1 .. MaxItem) : Adds(e, d, Head(q))
    BY <1>1, <1>2, AppendIs
  <1>5. PICK t \in Stream : t = Taken(s)
    BY <1>1, StreamStates DEF Taken
  <1>6. t.items = p /\ t.consumed = e /\ t.iter = "idle" /\ t.error = s.error /\ t.completed = s.completed
    BY <1>1, <1>3, <1>4, <1>5 DEF Taken, Stream, TailsTo, Adds
  <1>7. Len(e) = n + 1 /\ Len(p) = Len(q) - 1 /\ Len(q) \in Nat
    BY <1>1, <1>2, <1>3, <1>4, TailOf, AppendOf DEF TailsTo, Adds
  <1>8. e = FirstItems(n + 1)
    <2>1. d = FirstItems(n)
      BY <1>1 DEF InOrder
    <2>2. \A i \in 1 .. n : d[i] = i
      BY <2>1 DEF FirstItems
    <2>3. DOMAIN e = 1 .. n + 1
      BY <1>7
    <2>4. \A i \in 1 .. n + 1 : e[i] = i
      <3>1. DOMAIN d = 1 .. n
        BY <1>1
      <3>2. \A i \in 1 .. n + 1 : i = n + 1 \/ i \in 1 .. n
        OBVIOUS
      <3> QED BY <1>1, <1>2, <1>4, <2>2, <3>1, <3>2 DEF Adds
    <2>5. e = [i \in 1 .. n + 1 |-> i]
      BY <2>3, <2>4
    <2> QED BY <2>5 DEF FirstItems
  <1>9. \A i \in DOMAIN p : p[i] = (n + 1) + i
    <2>1. \A i \in DOMAIN q : q[i] = n + i
      BY <1>1 DEF InOrder
    <2>2. \A i \in DOMAIN p : i \in Nat /\ i + 1 \in DOMAIN q /\ p[i] = q[i + 1]
      BY <1>3 DEF TailsTo
    <2>3. \A i \in DOMAIN p : p[i] = n + (i + 1) /\ i \in Nat
      BY <2>1, <2>2
    <2>4. \A i \in Nat : n + (i + 1) = (n + 1) + i
      OBVIOUS
    <2> QED BY <2>3, <2>4
  <1>10. InOrder(t)
    BY <1>1, <1>6, <1>7, <1>8, <1>9 DEF InOrder
  <1>11. Got(t) = Got(s)
    <2>1. Got(t) = Len(e) + Len(p) /\ Got(s) = Len(d) + Len(q)
      BY <1>1, <1>6 DEF Got
    <2>2. \A m \in Nat : (n + 1) + (m - 1) = n + m
      OBVIOUS
    <2> QED BY <1>1, <1>7, <2>1, <2>2
  <1> QED BY <1>5, <1>10, <1>11

(* What a step does to a stream: it keeps what the consumer has got.       *)
Same(s, t) ==
    /\ t.mode = s.mode /\ Got(t) = Got(s) /\ InOrder(t)
    /\ t.completed /\ ~t.error /\ ~t.terminated => s.completed /\ ~s.error /\ ~s.terminated
    /\ ~t.completed => ~s.completed

LEMMA SameStreams ==
  ASSUME NEW s \in Stream, InOrder(s)
  PROVE  /\ Same(s, s) /\ Same(s, Failed(s)) /\ Same(s, StreamStarted(s))
         /\ s.completed => \A v : Same(s, ReceiveItem(s, v))
         /\ s.mode = "None" \/ s.completed => Same(s, Triggered(StreamCompleted(s)))
  <1>1. Same(s, s)
    BY DEF Same
  <1>2. Same(s, Failed(s))
    BY DEF Same, Failed, Woken, Stream, Got, InOrder
  <1>3. Same(s, StreamStarted(s))
    BY DEF Same, StreamStarted, Stream, Got, InOrder
  <1>4. s.completed => \A v : Same(s, ReceiveItem(s, v))
    BY <1>1 DEF ReceiveItem
  <1>5. s.mode = "None" \/ s.completed => Same(s, Triggered(StreamCompleted(s)))
    BY DEF Same, Triggered, StreamCompleted, Stream, Got, InOrder
  <1> QED BY <1>1, <1>2, <1>3, <1>4, <1>5

LEMMA SameIs ==
  ASSUME NEW s \in Stream, InOrder(s), NEW t \in Stream,
         t.mode = s.mode, t.items = s.items, t.consumed = s.consumed, t.error = s.error,
         s.completed => t.completed, t.completed => s.completed \/ t.terminated,
         s.terminated => t.terminated,
         t.iter = "done" => t.completed /\ ~t.error /\ t.items = <<>>
  PROVE  Same(s, t)
  <1>1. Got(t) = Got(s)
    BY DEF Got
  <1>2. InOrder(t)
    BY DEF InOrder
  <1> QED BY <1>1, <1>2 DEF Same

LEMMA SameConsumed ==
  ASSUME NEW s \in Stream, InOrder(s), NEW t, Consumes(s, t)
  PROVE  Same(s, t) /\ Same(s, Failed(t))
  <1>1. t \in Stream
    BY ConsumesStream
  <1> SUFFICES Same(s, t)
    <2>1. Same(s, t) => Same(t, Failed(t))
      BY <1>1, SameStreams DEF Same
    <2> QED BY <2>1 DEF Same
  <1>2. CASE t = s
    BY <1>2, SameStreams
  <1>3. CASE ~s.completed /\ t = Terminated(s)
    <2>1. s.iter # "done"
      BY <1>3 DEF InOrder
    <2>2. /\ t.mode = s.mode /\ t.items = s.items /\ t.consumed = s.consumed /\ t.error = s.error
          /\ t.terminated /\ t.completed /\ t.iter # "done"
      BY <1>3, <2>1 DEF Terminated, Woken, Stream
    <2>3. /\ s.completed => t.completed
          /\ t.completed => s.completed \/ t.terminated
          /\ s.terminated => t.terminated
          /\ t.iter = "done" => t.completed /\ ~t.error /\ t.items = <<>>
      BY <2>2
    <2> QED BY <1>1, <2>2, <2>3, SameIs
  <1>4. CASE ~s.completed /\ t = Terminated([s EXCEPT !.iter = "left"])
    <2>1. /\ t.mode = s.mode /\ t.items = s.items /\ t.consumed = s.consumed /\ t.error = s.error
          /\ t.terminated /\ t.completed /\ t.iter # "done"
      BY <1>4 DEF Terminated, Woken, Stream
    <2> QED BY <1>1, <2>1, SameIs
  <1>5. ASSUME NEW it \in {"starting", "waiting", "thrown", "left"}, t = [s EXCEPT !.iter = it]
        PROVE  Same(s, t)
    <2>1. /\ t.mode = s.mode /\ t.items = s.items /\ t.consumed = s.consumed /\ t.error = s.error
          /\ t.terminated = s.terminated /\ t.completed = s.completed /\ t.iter # "done"
      BY <1>5 DEF Stream
    <2>2. /\ s.completed => t.completed
          /\ t.completed => s.completed \/ t.terminated
          /\ s.terminated => t.terminated
          /\ t.iter = "done" => t.completed /\ ~t.error /\ t.items = <<>>
      BY <2>1
    <2> QED BY <1>1, <2>1, <2>2, SameIs
  <1>6. CASE s.completed /\ ~s.error /\ s.items = <<>> /\ t = [s EXCEPT !.iter = "done"]
    <2>1. /\ t.mode = s.mode /\ t.items = s.items /\ t.consumed = s.consumed /\ t.error = s.error
          /\ t.terminated = s.terminated /\ t.completed = s.completed
      BY <1>6 DEF Stream
    <2>2. /\ s.completed => t.completed
          /\ t.completed => s.completed \/ t.terminated
          /\ s.terminated => t.terminated
          /\ t.iter = "done" => t.completed /\ ~t.error /\ t.items = <<>>
      BY <1>6, <2>1
    <2> QED BY <1>1, <2>1, <2>2, SameIs
  <1>7. CASE s.items # <<>> /\ t = Taken(s)
    <2>1. s.iter # "done"
      BY <1>7 DEF InOrder
    <2>2. InOrder(t) /\ Got(t) = Got(s)
      BY <1>7, <2>1, NextItem
    <2>3. /\ t.mode = s.mode /\ t.completed = s.completed /\ t.error = s.error
          /\ t.terminated = s.terminated
      BY <1>7 DEF Taken, Stream
    <2>4. /\ t.completed /\ ~t.error /\ ~t.terminated => s.completed /\ ~s.error /\ ~s.terminated
          /\ ~t.completed => ~s.completed
      BY <2>3
    <2> QED BY <2>2, <2>3, <2>4 DEF Same
  <1> QED BY <1>2, <1>3, <1>4, <1>5, <1>6, <1>7 DEF Consumes

LEMMA ItemReceived ==
  ASSUME NEW s \in Stream, InOrder(s), ~s.completed, NEW v \in 1 .. MaxItem, v = Got(s) + 1
  PROVE  /\ InOrder(ReceiveItem(s, v)) /\ Got(ReceiveItem(s, v)) = Got(s) + 1
         /\ ReceiveItem(s, v).mode = s.mode /\ ReceiveItem(s, v).completed = FALSE
  <1>1. PICK q \in Seq(1 .. MaxItem), d \in Seq(1 .. MaxItem) : q = s.items /\ d = s.consumed
    BY DEF Stream
  <1>2. PICK p \in Seq(1 .. MaxItem) : Adds(p, q, v)
    BY AppendIs
  <1>3. PICK t : t = [s EXCEPT !.items = p]
    OBVIOUS
  <1>4. ~s.error /\ s.iter # "done"
    BY DEF InOrder
  <1>5. ReceiveItem(s, v) = Woken(t)
    BY <1>1, <1>2, <1>3, <1>4 DEF ReceiveItem, Adds, Stream
  <1>6. t \in Stream
    BY <1>3 DEF Stream
  <1>7. /\ t.items = p /\ t.consumed = d /\ t.mode = s.mode /\ t.completed = FALSE /\ t.error = FALSE
        /\ t.iter # "done"
    BY <1>1, <1>3, <1>4 DEF Stream
  <1>8. /\ Woken(t).items = p /\ Woken(t).consumed = d /\ Woken(t).mode = s.mode
        /\ Woken(t).completed = FALSE /\ Woken(t).error = FALSE /\ Woken(t).iter # "done"
    BY <1>6, <1>7 DEF Woken, Stream
  <1>9. Len(p) = Len(q) + 1 /\ Len(q) \in Nat /\ Len(d) \in Nat
    BY <1>2, AppendOf DEF Adds
  <1>13. Got(s) = Len(d) + Len(q)
    BY <1>1 DEF Got
  <1>10. \A i \in DOMAIN p : p[i] = Len(d) + i
    <2>1. \A i \in DOMAIN q : q[i] = Len(d) + i
      BY <1>1 DEF InOrder
    <2>2. v = Len(d) + (Len(q) + 1)
      <3>1. \A m, l \in Nat : (m + l) + 1 = m + (l + 1)
        OBVIOUS
      <3>2. v = (Len(d) + Len(q)) + 1
        BY <1>13
      <3> QED BY <1>9, <3>1, <3>2
    <2> QED BY <1>2, <2>1, <2>2 DEF Adds
  <1>11. InOrder(Woken(t))
    BY <1>1, <1>8, <1>10 DEF InOrder
  <1>12. Got(Woken(t)) = Got(s) + 1
    <2>1. Got(Woken(t)) = Len(d) + Len(p)
      BY <1>8 DEF Got
    <2> QED BY <1>9, <1>13, <2>1
  <1> QED BY <1>5, <1>8, <1>11, <1>12

(* Of a step that keeps what a consumer has got only the flow is to show.  *)
LEMMA Delivers ==
  ASSUME NEW c \in Call, Delivering(c), Same(stream[c], stream'[c]),
         execution'[c].produced = execution[c].produced, Over(c) => Over(c)',
         ~stream[c].completed /\ ~stream'[c].completed /\ Whole(c) => Whole(c)'
  PROVE  Delivering(c)'
  <1>1. InOrder(stream'[c]) /\ Got(stream'[c]) = Got(stream[c])
    BY DEF Same
  <1>2. ~stream'[c].completed => Whole(c)'
    BY DEF Same, Delivering
  <1>3. stream'[c].completed /\ ~stream'[c].error /\ ~stream'[c].terminated =>
           Over(c) /\ Got(stream[c]) = execution[c].produced
    BY DEF Same, Delivering
  <1> QED BY <1>1, <1>2, <1>3 DEF Delivering

LEMMA ClientDelivers ==
  ASSUME NEW c \in Call, Delivering(c), Same(stream[c], stream'[c]),
         jobs'[c] = jobs[c], UNCHANGED <<toClient, execution>>,
         \A r \in requests : r.op = "invoke" => r \in requests'
  PROVE  Delivering(c)'
  <1>1. stream'[c].mode = stream[c].mode /\ Got(stream'[c]) = Got(stream[c])
    BY DEF Same
  <1>2. Uncompleted(c) => Uncompleted(c)'
    BY DEF Uncompleted
  <1>3. Over(c)' <=> Over(c)
    BY DEF Over
  <1>4. Over(c)' = Over(c)
    BY DEF Over
  <1>5. Whole(c) => Whole(c)'
    BY <1>1, <1>2, <1>4 DEF Whole
  <1> QED BY <1>3, <1>5, Delivers

LEMMA ConsumerDelivers ==
  ASSUME Staged, Deliveries, NEW d \in Call, Consumer(d)
  PROVE  Deliveries'
  <1>1. PICK t \in Stream :
            /\ Consumes(stream[d], t)
            /\ \/ stream' = [stream EXCEPT ![d] = t]
               \/ ~connected /\ stream' = [stream EXCEPT ![d] = Failed(t)]
            /\ \/ UNCHANGED <<requests, toServer>>
               \/ \E r \in Request : /\ r.op \in Control /\ r.op # "invoke" /\ r.call = d
                                     /\ requests' = requests \cup {r}
                                     /\ toServer' = Append(toServer, r)
            /\ UNCHANGED <<connected, calls, jobs, toClient, server>>
    BY ConsumerAsks DEF Staged
  <1>2. stream \in [Call -> Stream] /\ stream[d] \in Stream
    BY DEF Staged, Asking, Typed, TypeOK
  <1>3. \A c \in Call : InOrder(stream[c])
    BY DEF Deliveries, Delivering
  <1>4. Same(stream[d], t) /\ Same(stream[d], Failed(t))
    BY <1>1, <1>2, <1>3, SameConsumed
  <1>5. ASSUME NEW c \in Call
        PROVE  Same(stream[c], stream'[c])
    <2>1. CASE c = d
      BY <1>1, <1>2, <1>4, <2>1
    <2>2. CASE c # d
      BY <1>1, <1>2, <1>3, <2>2, SameStreams
    <2> QED BY <2>1, <2>2
  <1>6. /\ \A r \in requests : r \in requests'
        /\ UNCHANGED <<jobs, toClient, execution>>
    BY <1>1 DEF server
  <1> QED BY <1>5, <1>6, ClientDelivers DEF Deliveries

LEMMA InvokeDelivers ==
  ASSUME Staged, Deliveries, Invoke
  PROVE  Deliveries'
  <1>1. /\ calls \in Nat /\ calls + 1 \in Call /\ calls + 1 > calls
        /\ stream \in [Call -> Stream] /\ UNCHANGED <<jobs, toClient, execution>>
        /\ \A r \in requests : r \in requests'
    BY Ids DEF Invoke, Staged, Asking, Typed, TypeOK, Call, server
  <1>2. PICK m \in Mode, p \in BOOLEAN : stream' = [stream EXCEPT ![calls + 1] = NewStream(m, p)]
    BY DEF Invoke
  <1> SUFFICES ASSUME NEW c \in Call
               PROVE  Delivering(c)'
    BY DEF Deliveries
  <1>3. Delivering(c)
    BY DEF Deliveries
  <1>4. CASE c # calls + 1
    <2>1. stream'[c] = stream[c]
      BY <1>1, <1>2, <1>4
    <2>2. Same(stream[c], stream'[c])
      BY <1>1, <1>3, <2>1, SameStreams DEF Delivering
    <2> QED BY <1>1, <1>3, <2>2, ClientDelivers
  <1>5. CASE c = calls + 1
    <2>1. stream'[c] = NewStream(m, p) /\ stream[c] = NewStream("None", FALSE)
      BY <1>1, <1>2, <1>5 DEF Staged, Asking, Unasked, Uncalled
    <2>2. /\ stream'[c].completed = FALSE /\ stream[c].completed = FALSE
          /\ stream'[c].items = <<>> /\ stream[c].items = <<>>
          /\ stream'[c].consumed = <<>> /\ stream[c].consumed = <<>>
          /\ stream'[c].error = FALSE /\ stream'[c].iter = "idle"
      BY <2>1 DEF NewStream
    <2>3. Got(stream'[c]) = Got(stream[c])
      BY <2>2 DEF Got
    <2>4. InOrder(stream'[c])
      <3>1. stream'[c].consumed = stream[c].consumed /\ stream'[c].items = stream[c].items
        BY <2>2
      <3> QED BY <1>3, <2>2, <3>1 DEF Delivering, InOrder
    <2>5. Uncompleted(c)'
      <3>1. PICK r : r = [id |-> calls + 1, op |-> "invoke", call |-> calls + 1]
        OBVIOUS
      <3>2. r \in requests' /\ r.op = "invoke" /\ r.call = c
        BY <1>5, <3>1 DEF Invoke
      <3> QED BY <3>2 DEF Uncompleted
    <2>6. Whole(c)'
      <3>1. Whole(c)
        BY <1>3, <2>2 DEF Delivering
      <3>2. Over(c)' = Over(c)
        BY <1>1 DEF Over
      <3> QED BY <1>1, <2>3, <2>5, <3>1, <3>2 DEF Whole
    <2> QED BY <2>2, <2>4, <2>6 DEF Delivering
  <1> QED BY <1>4, <1>5

LEMMA InitDelivers == Init => Deliveries
  <1> SUFFICES ASSUME Init, NEW c \in Call
               PROVE  Delivering(c)
    BY DEF Deliveries
  <1>1. /\ stream[c] = NewStream("None", FALSE) /\ jobs[c] = <<>> /\ toClient = <<>>
        /\ execution[c].produced = 0
    BY DEF Init, Uncalled, NotExecuted
  <1>2. /\ stream[c].completed = FALSE /\ stream[c].items = <<>> /\ stream[c].consumed = <<>>
        /\ stream[c].error = FALSE /\ stream[c].iter = "idle" /\ stream[c].mode = "None"
    BY <1>1 DEF NewStream
  <1>3. InOrder(stream[c])
    <2>1. <<>> = [i \in 1 .. 0 |-> i]
      OBVIOUS
    <2> QED BY <1>2, <2>1 DEF InOrder, FirstItems
  <1>4. Got(stream[c]) = 0
    BY <1>2 DEF Got
  <1>5. Flow(<<>>, <<>>, c, 0, 0, Over(c))
    BY DEF Flow, Comes, CompletesLast
  <1> QED BY <1>1, <1>2, <1>3, <1>4, <1>5 DEF Delivering, Whole

(* What a decoder and the arrival of a reply work on.                      *)
LEMMA Queues ==
  ASSUME Staged, NEW c \in Call
  PROVE  /\ jobs[c] \in Seq(0 .. MaxItem) /\ toClient \in Seq(Reply) /\ stream[c] \in Stream
         /\ Got(stream[c]) \in Nat /\ execution[c].produced \in Nat /\ Over(c) \in BOOLEAN
         /\ stream[c].mode = "None" => execution[c].produced = 0
         /\ jobs \in [Call -> Seq(0 .. MaxItem)] /\ stream \in [Call -> Stream]
  <1>1. /\ jobs[c] \in Seq(0 .. MaxItem) /\ toClient \in Seq(Reply) /\ stream[c] \in Stream
        /\ execution[c] \in Execution
        /\ jobs \in [Call -> Seq(0 .. MaxItem)] /\ stream \in [Call -> Stream]
    BY DEF Staged, Asking, Typed, TypeOK
  <1>2. stream[c].consumed \in Seq(1 .. MaxItem) /\ stream[c].items \in Seq(1 .. MaxItem)
    BY <1>1 DEF Stream
  <1>3. Got(stream[c]) \in Nat
    <2>1. PICK a \in Seq(1 .. MaxItem), b \in Seq(1 .. MaxItem) :
             a = stream[c].consumed /\ b = stream[c].items
      BY <1>2
    <2>2. Len(a) \in Nat /\ Len(b) \in Nat
      OBVIOUS
    <2>3. Got(stream[c]) = Len(a) + Len(b)
      BY <2>1 DEF Got
    <2> QED BY <2>2, <2>3
  <1>4. execution[c].produced \in Nat
    BY <1>1, Ids DEF Execution
  <1> QED BY <1>1, <1>3, <1>4 DEF Over, Staged, StreamsHaveMode

(* Without a stream nothing is to come.                                    *)
LEMMA NothingComes ==
  ASSUME Staged, NEW c \in Call, Whole(c), stream[c].mode = "None",
         NEW J \in Seq(0 .. MaxItem), NEW T \in Seq(Reply),
         \A i \in DOMAIN J : \E k \in DOMAIN jobs[c] : J[i] = jobs[c][k],
         \A i \in DOMAIN T : \E k \in DOMAIN toClient : T[i] = toClient[k]
  PROVE  /\ Flow(J, T, c, Got(stream[c]), execution[c].produced, Over(c))
         /\ \A i \in DOMAIN toClient : ~IsChunk(toClient[i], c)
         /\ \A i \in DOMAIN jobs[c] : jobs[c][i] = Completion
  <1>1. PICK p \in Seq(0 .. MaxItem), q \in Seq(Reply), f \in Nat, over \in BOOLEAN :
           p = jobs[c] /\ q = toClient /\ f = Got(stream[c]) /\ over = Over(c)
    BY Queues
  <1>2. Flow(p, q, c, f, 0, over) /\ execution[c].produced = 0
    BY <1>1, Queues DEF Whole
  <1>3. f = 0
    BY <1>1, <1>2 DEF Flow, Comes
  <1>4. Flow(J, T, c, f, f, over)
    <2>1. Flow(p, q, c, f, f, over)
      BY <1>2, <1>3
    <2>2. /\ \A i \in DOMAIN J : \E k \in DOMAIN p : J[i] = p[k]
          /\ \A i \in DOMAIN T : \E k \in DOMAIN q : T[i] = q[k]
      BY <1>1
    <2> QED BY ZenonT(60), <2>1, <2>2, FlowEmpty
  <1>5. /\ \A i \in DOMAIN p : p[i] \in Nat
        /\ \A i \in DOMAIN q : IsChunk(q[i], c) => q[i].value \in Nat
    BY Contents, Ids DEF IsChunk
  <1>6. /\ \A i \in DOMAIN q : ~IsChunk(q[i], c)
        /\ \A i \in DOMAIN p : p[i] = Completion
    BY <1>2, <1>3, <1>5 DEF Flow, Comes
  <1> QED BY <1>1, <1>2, <1>3, <1>4, <1>6

LEMMA DecodeDelivers ==
  ASSUME Staged, Deliveries, NEW d \in Call, Decode(d)
  PROVE  Deliveries'
  <1>1. /\ jobs \in [Call -> Seq(0 .. MaxItem)] /\ stream \in [Call -> Stream]
        /\ jobs[d] # <<>> /\ jobs' = [jobs EXCEPT ![d] = Tail(@)]
        /\ UNCHANGED <<toClient, requests, execution>>
    BY Queues DEF Decode, server
  <1> SUFFICES ASSUME NEW c \in Call
               PROVE  Delivering(c)'
    BY DEF Deliveries
  <1>2. Delivering(c) /\ InOrder(stream[c])
    BY DEF Deliveries, Delivering
  <1>3. CASE c # d
    <2>1. stream'[c] = stream[c] /\ jobs'[c] = jobs[c]
      BY <1>1, <1>3 DEF Decode
    <2>2. Same(stream[c], stream'[c])
      BY <1>1, <1>2, <2>1, SameStreams
    <2> QED BY <1>1, <1>2, <2>1, <2>2, ClientDelivers
  <1>4. CASE c = d
    <2>1. PICK s \in Stream, p \in Seq(0 .. MaxItem), q \in Seq(Reply),
               f \in Nat, t \in Nat, over \in BOOLEAN :
             /\ s = stream[c] /\ p = jobs[c] /\ q = toClient
             /\ f = Got(stream[c]) /\ t = execution[c].produced /\ over = Over(c)
      BY Queues
    <2>2. PICK r \in Seq(0 .. MaxItem) : TailsTo(r, p)
      BY <1>1, <1>4, <2>1, TailIs
    <2>3. /\ jobs'[c] = r /\ r = Tail(p) /\ p # <<>> /\ Head(p) \in 0 .. MaxItem /\ InOrder(s)
          /\ execution'[c].produced = t /\ Over(c)' = over /\ toClient' = q /\ f = Got(s)
      <3>1. Head(p) \in 0 .. MaxItem
        BY <1>1, <1>4, <2>1, TailOf
      <3>2. Over(c)' = over
        BY <1>1, <2>1 DEF Over
      <3> QED BY <1>1, <1>2, <1>4, <2>1, <2>2, <3>1, <3>2 DEF TailsTo
    <2>4. Whole(c) => Flow(p, q, c, f, t, over)
      BY <2>1 DEF Whole
    <2>5. \/ Head(p) = Completion /\ stream'[c] = Triggered(StreamCompleted(s))
          \/ Head(p) # Completion /\ stream'[c] = ReceiveItem(s, Head(p))
          \/ (Head(p) # Completion \/ s.mode = "None") /\ stream'[c] = Failed(s)
      BY <1>1, <1>4, <2>1 DEF Decode
    <2>6. CASE Same(s, stream'[c]) /\ (s.completed \/ s.mode = "None")
      <3>1. ASSUME s.mode = "None", Whole(c)
            PROVE  Whole(c)'
        <4>1. \A i \in DOMAIN r : \E k \in DOMAIN p : r[i] = p[k]
          BY <2>2 DEF TailsTo
        <4>2. Flow(r, q, c, f, t, over)
          BY <2>1, <3>1, <4>1, NothingComes
        <4>3. stream'[c].mode = "None" /\ Got(stream'[c]) = f
          BY <2>3, <2>6, <3>1 DEF Same
        <4> QED BY <2>3, <4>2, <4>3 DEF Whole
      <3>2. ~s.completed => s.mode = "None"
        BY <2>6
      <3>3. execution'[c].produced = execution[c].produced /\ (Over(c) => Over(c)')
        BY <2>1, <2>3
      <3> QED BY <1>2, <2>1, <2>6, <3>1, <3>2, <3>3, Delivers
    <2>7. CASE s.completed \/ s.mode = "None"
      <3>1. CASE Same(s, stream'[c])
        BY <2>6, <2>7, <3>1
      <3>2. CASE ~s.completed /\ stream'[c] = ReceiveItem(s, Head(p)) /\ Head(p) # Completion
        <4>1. Whole(c) /\ s.mode = "None"
          BY <1>2, <2>1, <2>7, <3>2 DEF Delivering
        <4>2. \A i \in DOMAIN jobs[c] : jobs[c][i] = Completion
          BY <2>1, <4>1, NothingComes
        <4>3. 1 \in DOMAIN p /\ p[1] = Head(p)
          BY <2>3, TailOf
        <4> QED BY <2>1, <3>2, <4>2, <4>3
      <3> QED BY <2>3, <2>5, <2>7, <3>1, <3>2, SameStreams
    <2>8. CASE ~s.completed /\ s.mode # "None"
      <3>1. Flow(p, q, c, f, t, over) /\ Uncompleted(c)
        BY <1>2, <2>1, <2>4, <2>8 DEF Delivering, Whole
      <3>2. CASE Head(p) = Completion /\ stream'[c] = Triggered(StreamCompleted(s))
        <4>1. over /\ f = t
          BY <2>3, <3>1, <3>2, FlowEnd
        <4>2. s.iter # "done" /\ ~s.error
          BY <2>3, <2>8 DEF InOrder
        <4>3. /\ stream'[c].completed = TRUE /\ stream'[c].items = s.items
              /\ stream'[c].consumed = s.consumed /\ stream'[c].iter # "done"
              /\ stream'[c].error = s.error
          BY <2>8, <3>2, <4>2 DEF Triggered, StreamCompleted, Woken, Stream
        <4>4. Got(stream'[c]) = f /\ InOrder(stream'[c])
          BY <2>3, <4>2, <4>3 DEF Got, InOrder
        <4> QED BY <2>3, <4>1, <4>3, <4>4 DEF Delivering
      <3>3. CASE Head(p) # Completion /\ stream'[c] = Failed(s)
        <4>1. s.iter # "done"
          BY <2>3, <2>8 DEF InOrder
        <4>2. /\ stream'[c].completed = TRUE /\ stream'[c].items = s.items
              /\ stream'[c].consumed = s.consumed /\ stream'[c].iter # "done"
              /\ stream'[c].error = TRUE
          BY <2>8, <3>3, <4>1 DEF Failed, Woken, Stream
        <4>3. InOrder(stream'[c])
          BY <2>3, <4>1, <4>2 DEF InOrder
        <4> QED BY <4>2, <4>3 DEF Delivering
      <3>4. CASE Head(p) # Completion /\ stream'[c] = ReceiveItem(s, Head(p))
        <4>1. Head(p) = f + 1 /\ Flow(r, q, c, f + 1, t, over)
          BY <2>3, <3>1, <3>4, FlowItem
        <4>2. Head(p) \in 1 .. MaxItem
          BY <2>3, <3>4, Ids
        <4>3. /\ InOrder(stream'[c]) /\ Got(stream'[c]) = f + 1
              /\ stream'[c].mode = s.mode /\ stream'[c].completed = FALSE
          BY <2>3, <2>8, <3>4, <4>1, <4>2, ItemReceived
        <4>4. Uncompleted(c)'
          <5>1. CASE \E i \in DOMAIN p : p[i] = Completion
            <6>1. PICK i \in DOMAIN p : p[i] = Completion
              BY <5>1
            <6>2. i # 1
              BY <2>3, <3>4, <6>1, TailOf
            <6>3. i - 1 \in DOMAIN r /\ r[i - 1] = Completion
              BY <2>2, <6>1, <6>2 DEF TailsTo
            <6> QED BY <2>3, <6>3 DEF Uncompleted
          <5>2. CASE \E x \in requests : x.op = "invoke" /\ x.call = c
            BY <1>1, <5>2 DEF Uncompleted
          <5> QED BY <2>1, <3>1, <5>1, <5>2 DEF Uncompleted
        <4> QED BY <2>3, <4>1, <4>3, <4>4 DEF Delivering, Whole
      <3> QED BY <2>5, <2>8, <3>2, <3>3, <3>4
    <2> QED BY <2>7, <2>8
  <1> QED BY <1>3, <1>4

(* A reply that says nothing of a call.                                    *)
LEMMA Skipped ==
  ASSUME Staged, NEW c \in Call, Delivering(c), toClient # <<>>, toClient' = Tail(toClient),
         UNCHANGED execution, Same(stream[c], stream'[c]), jobs'[c] = jobs[c],
         ~IsChunk(Head(toClient), c) \/ stream[c].completed \/ stream[c].mode = "None",
         \A r \in requests : r.op = "invoke" /\ r.call = c /\ stream[c].mode # "None" =>
            r \in requests'
  PROVE  Delivering(c)'
  <1>1. Over(c)' = Over(c) /\ execution'[c].produced = execution[c].produced
    BY DEF Over
  <1>2. stream'[c].mode = stream[c].mode /\ Got(stream'[c]) = Got(stream[c])
    BY DEF Same
  <1>3. ASSUME Whole(c), ~stream[c].completed
        PROVE  Whole(c)'
    <2>1. Flow(jobs[c], toClient, c, Got(stream[c]), execution[c].produced, Over(c))
      BY <1>3 DEF Whole
    <2>3. ~IsChunk(Head(toClient), c)
      <3>1. CASE stream[c].mode = "None"
        <4>1. \A i \in DOMAIN toClient : ~IsChunk(toClient[i], c)
          BY <1>3, <3>1, Queues, NothingComes
        <4> QED BY <4>1, TailOf, Queues
      <3> QED BY <1>3, <3>1
    <2>4. Flow(jobs[c], Tail(toClient), c, Got(stream[c]), execution[c].produced, Over(c))
      BY <2>1, <2>3, FlowSkip, Queues
    <2>5. stream[c].mode # "None" => Uncompleted(c)'
      BY <1>3 DEF Whole, Uncompleted
    <2> QED BY <1>1, <1>2, <2>4, <2>5 DEF Whole
  <1> QED BY <1>1, <1>3, Delivers

LEMMA ReplyDelivers ==
  ASSUME Staged, Deliveries, DispatchReply
  PROVE  Deliveries'
  <1>1. /\ jobs \in [Call -> Seq(0 .. MaxItem)] /\ stream \in [Call -> Stream]
        /\ toClient \in Seq(Reply) /\ toClient # <<>> /\ toClient' = Tail(toClient)
        /\ UNCHANGED execution
    BY DEF DispatchReply, server, Staged, Asking, Typed, TypeOK
  <1>2. PICK m \in Reply : m = Head(toClient) /\ m = toClient[1] /\ 1 \in DOMAIN toClient
    BY <1>1, TailOf
  <1>3. \A r \in requests : /\ r.call \in Call
                            /\ r.op = "invoke" => r.id = r.call
                            /\ r.op # "invoke" => r.id \notin Call
    BY Requests, Ids DEF Staged, Asking, Typed, TypeOK, RequestsAreAsked, Asked
  <1>4. m.reply = "Chunk" => m.id \in Call /\ m.value \in 1 .. MaxItem
    BY DEF Reply
  <1> SUFFICES ASSUME NEW c \in Call
               PROVE  Delivering(c)'
    BY DEF Deliveries
  <1>5. Delivering(c) /\ InOrder(stream[c])
    BY DEF Deliveries, Delivering
  <1>6. /\ Same(stream[c], stream[c]) /\ Same(stream[c], Failed(stream[c]))
        /\ Same(stream[c], StreamStarted(stream[c]))
    BY <1>1, <1>5, SameStreams
  <1>7. IsChunk(m, c) /\ ~stream[c].completed /\ stream[c].mode # "None" =>
           \E r \in requests : r.id = m.id
    <2> SUFFICES ASSUME IsChunk(m, c), Whole(c), stream[c].mode # "None"
                 PROVE  \E r \in requests : r.id = m.id
      BY <1>5 DEF Delivering
    <2>1. \A i \in DOMAIN jobs[c] : jobs[c][i] # Completion
      BY <1>2 DEF Whole, Flow, CompletesLast
    <2> QED BY <1>3, <2>1 DEF Whole, Uncompleted, IsChunk
  <1>8. CASE (\A r \in requests : r.id # m.id) /\ UNCHANGED <<stream, requests, jobs>>
    BY <1>1, <1>2, <1>5, <1>6, <1>7, <1>8, Skipped
  <1>9. ASSUME NEW r \in requests, r.id = m.id, Replied(m, r)
        PROVE  Delivering(c)'
    <2>1. CASE m.reply = "Stream" /\ stream' = [stream EXCEPT ![r.call] = StreamStarted(@)]
               /\ UNCHANGED <<requests, jobs>>
      <3>1. Same(stream[c], stream'[c])
        BY <1>1, <1>6, <2>1
      <3>2. ~IsChunk(m, c)
        BY <2>1 DEF IsChunk
      <3> QED BY <1>1, <1>2, <1>5, <2>1, <3>1, <3>2, Skipped
    <2>2. CASE m.reply = "Chunk" /\ ReplyChunk(r.call, m.value) /\ UNCHANGED <<stream, requests>>
      <3>1. r.op = "invoke" /\ r.call = m.id
        BY <1>3, <1>4, <1>9, <2>2
      <3>2. CASE c # m.id
        <4>1. ~IsChunk(m, c) /\ jobs'[c] = jobs[c]
          BY <1>1, <2>2, <3>1, <3>2 DEF IsChunk, ReplyChunk
        <4> QED BY <1>1, <1>2, <1>5, <1>6, <2>2, <4>1, Skipped
      <3>3. CASE c = m.id
        <4>1. jobs'[c] = Append(jobs[c], m.value) /\ IsChunk(m, c)
          BY <1>1, <2>2, <3>1, <3>3 DEF ReplyChunk, IsChunk
        <4>2. ASSUME Whole(c)
              PROVE  Whole(c)'
          <5>1. Flow(Append(jobs[c], m.value), Tail(toClient), c, Got(stream[c]),
                     execution[c].produced, Over(c))
            BY <1>1, <1>2, <4>1, <4>2, Queues, FlowChunk DEF Whole
          <5>2. Over(c)' = Over(c)
            BY <1>1 DEF Over
          <5>3. Uncompleted(c) => Uncompleted(c)'
            <6>1. PICK p \in Seq(0 .. MaxItem) : p = jobs[c]
              BY Queues
            <6>2. m.value \in 0 .. MaxItem
              BY <1>4, <2>2, Ids
            <6>3. \A i \in DOMAIN p : i \in DOMAIN Append(p, m.value) /\ Append(p, m.value)[i] = p[i]
              BY <6>2, AppendOf
            <6> QED BY <2>2, <4>1, <6>1, <6>3 DEF Uncompleted
          <5> QED BY <1>1, <2>2, <4>1, <4>2, <5>1, <5>2, <5>3 DEF Whole
        <4>3. Over(c) => Over(c)'
          BY <1>1 DEF Over
        <4> QED BY <1>1, <1>5, <1>6, <2>2, <4>2, <4>3, Delivers
      <3> QED BY <3>2, <3>3
    <2>3. CASE m.reply = "Completed" /\ requests' = requests \ {r}
               /\ (IF r.op = "invoke" THEN ReplyCompleted(r.call) ELSE UNCHANGED jobs)
               /\ UNCHANGED stream
      <3>1. ~IsChunk(m, c)
        BY <2>3 DEF IsChunk
      <3>2. CASE ~(r.op = "invoke" /\ r.call = c)
        <4>1. jobs'[c] = jobs[c]
          BY <1>1, <2>3, <3>2 DEF ReplyCompleted
        <4>2. \A x \in requests : x.op = "invoke" /\ x.call = c => x \in requests'
          BY <2>3, <3>2
        <4> QED BY <1>1, <1>2, <1>5, <1>6, <2>3, <3>1, <4>1, <4>2, Skipped
      <3>3. CASE r.op = "invoke" /\ r.call = c
        <4>1. jobs'[c] = Append(jobs[c], Completion) /\ IsCompletion(m, c)
          BY <1>1, <1>3, <1>9, <2>3, <3>3 DEF ReplyCompleted, IsCompletion
        <4>2. ASSUME Whole(c)
              PROVE  Whole(c)'
          <5>1. Flow(Append(jobs[c], Completion), Tail(toClient), c, Got(stream[c]),
                     execution[c].produced, Over(c))
            BY <1>1, <1>2, <4>1, <4>2, Queues, FlowCompletes DEF Whole
          <5>2. Over(c)' = Over(c)
            BY <1>1 DEF Over
          <5>3. Uncompleted(c)'
            <6>1. PICK p \in Seq(0 .. MaxItem) : p = jobs[c]
              BY Queues
            <6>2. Completion \in 0 .. MaxItem
              BY Ids
            <6>3. PICK q \in Seq(0 .. MaxItem) : Adds(q, p, Completion)
              BY <6>2, AppendIs
            <6>4. jobs'[c] = q /\ Len(p) + 1 \in DOMAIN q /\ q[Len(p) + 1] = Completion
              BY <4>1, <6>1, <6>3 DEF Adds
            <6> QED BY <6>4 DEF Uncompleted
          <5> QED BY <1>1, <2>3, <4>1, <5>1, <5>2, <5>3 DEF Whole
        <4>3. Over(c) => Over(c)'
          BY <1>1 DEF Over
        <4> QED BY <1>1, <1>5, <1>6, <2>3, <4>2, <4>3, Delivers
      <3> QED BY <3>2, <3>3
    <2>4. CASE m.reply = "Error" /\ requests' = requests \ {r} /\ ReplyError(r)
      <3>1. ~IsChunk(m, c)
        BY <2>4 DEF IsChunk
      <3>2. Same(stream[c], stream'[c])
        BY <1>1, <1>6, <2>4 DEF ReplyError
      <3>3. CASE ~(r.op = "invoke" /\ r.call = c)
        <4>1. jobs'[c] = jobs[c]
          BY <1>1, <2>4, <3>3 DEF ReplyError
        <4>2. \A x \in requests : x.op = "invoke" /\ x.call = c => x \in requests'
          BY <2>4, <3>3
        <4> QED BY <1>1, <1>2, <1>5, <3>1, <3>2, <4>1, <4>2, Skipped
      <3>4. CASE r.op = "invoke" /\ r.call = c
        <4>1. stream'[c] = Failed(stream[c]) /\ jobs'[c] = <<>>
          BY <1>1, <2>4, <3>4 DEF ReplyError
        <4>2. stream[c].mode # "None" => Failed(stream[c]).completed
          BY <1>1 DEF Failed, Woken, Stream
        <4>3. ASSUME ~stream'[c].completed, Whole(c)
              PROVE  Whole(c)'
          <5>1. stream[c].mode = "None"
            BY <4>1, <4>2, <4>3
          <5>2. PICK J \in Seq(0 .. MaxItem), T \in Seq(Reply) :
                  /\ J = <<>> /\ (\A i \in DOMAIN J : FALSE) /\ T = Tail(toClient)
                  /\ \A i \in DOMAIN T : \E k \in DOMAIN toClient : T[i] = toClient[k]
            <6>1. PICK J \in Seq(0 .. MaxItem) : J = <<>> /\ \A i \in DOMAIN J : FALSE
              <7>1. <<>> \in Seq(0 .. MaxItem) /\ DOMAIN <<>> = {}
                OBVIOUS
              <7> QED BY <7>1
            <6>2. PICK T \in Seq(Reply) : TailsTo(T, toClient)
              BY <1>1, TailIs
            <6> QED BY ZenonT(60), <6>1, <6>2 DEF TailsTo
          <5>3. Flow(J, T, c, Got(stream[c]), execution[c].produced, Over(c))
            BY <4>3, <5>1, <5>2, NothingComes
          <5>4. Over(c)' = Over(c)
            BY <1>1 DEF Over
          <5>5. Got(stream'[c]) = Got(stream[c]) /\ stream'[c].mode = "None"
            BY <3>2, <5>1 DEF Same
          <5> QED BY <1>1, <4>1, <5>2, <5>3, <5>4, <5>5 DEF Whole
        <4>4. Over(c) => Over(c)'
          BY <1>1 DEF Over
        <4> QED BY <1>1, <1>5, <3>2, <4>3, <4>4, Delivers
      <3> QED BY <3>3, <3>4
    <2> QED BY <1>9, <2>1, <2>2, <2>3, <2>4 DEF Replied
  <1> QED BY <1>2, <1>8, <1>9 DEF DispatchReply, Replied

(* The connection closes: what was to come is given up with the call, but  *)
(* for a call whose completion has arrived.                                *)
LEMMA DisconnectDelivers ==
  ASSUME Staged, Deliveries, Disconnect
  PROVE  Deliveries'
  <1>1. /\ stream \in [Call -> Stream] /\ execution \in [Call -> Execution]
        /\ toClient' = <<>> /\ UNCHANGED jobs
    BY DEF Disconnect, Staged, Asking, Typed, TypeOK
  <1> SUFFICES ASSUME NEW c \in Call
               PROVE  Delivering(c)'
    BY DEF Deliveries
  <1>2. Delivering(c) /\ InOrder(stream[c])
    BY DEF Deliveries, Delivering
  <1>3. /\ execution'[c].produced = execution[c].produced
        /\ execution'[c].state = execution[c].state
    BY <1>1 DEF Disconnect, Execution
  <1>4. Over(c)' = Over(c)
    BY <1>3 DEF Over
  <1>5. Same(stream[c], stream'[c])
    <2>1. stream'[c] = stream[c] \/ stream'[c] = Failed(stream[c])
      BY DEF Disconnect
    <2> QED BY <1>1, <1>2, <2>1, SameStreams
  <1>6. ASSUME ~stream'[c].completed, Whole(c)
        PROVE  Whole(c)'
    <2>1. /\ stream'[c].mode = stream[c].mode /\ Got(stream'[c]) = Got(stream[c])
      BY <1>5 DEF Same
    <2>2. CASE stream[c].mode = "None"
      <3>1. PICK T \in Seq(Reply) : T = <<>> /\ \A i \in DOMAIN T : FALSE
        <4>1. <<>> \in Seq(Reply) /\ DOMAIN <<>> = {}
          OBVIOUS
        <4> QED BY <4>1
      <3>2. PICK J \in Seq(0 .. MaxItem) : J = jobs[c]
        BY Queues
      <3>3. \A i \in DOMAIN J : \E k \in DOMAIN jobs[c] : J[i] = jobs[c][k]
        BY <3>2
      <3>4. Flow(J, T, c, Got(stream[c]), execution[c].produced, Over(c))
        BY <1>6, <2>2, <3>1, <3>3, NothingComes
      <3> QED BY <1>1, <1>3, <1>4, <2>1, <2>2, <3>1, <3>2, <3>4 DEF Whole
    <2>3. CASE stream[c].mode # "None"
      <3>1. ~\E r \in requests : r.op = "invoke" /\ r.call = c
        <4> SUFFICES ASSUME NEW r \in requests, r.op = "invoke", r.call = c
                     PROVE  FALSE
          OBVIOUS
        <4>1. stream'[c] = Failed(stream[c])
          BY DEF Disconnect
        <4>2. stream[c] \in Stream
          BY <1>1
        <4>3. Failed(stream[c]).completed
          BY <2>3, <4>2 DEF Failed, Woken, Stream
        <4> QED BY <1>6, <4>1, <4>3
      <3>2. \E i \in DOMAIN jobs[c] : jobs[c][i] = Completion
        BY <1>6, <2>3, <3>1 DEF Whole, Uncompleted
      <3>3. Flow(jobs[c], <<>>, c, Got(stream[c]), execution[c].produced, Over(c))
        BY <1>6, <3>2, FlowLost, Queues DEF Whole
      <3>4. Uncompleted(c)'
        BY <1>1, <3>2 DEF Uncompleted
      <3> QED BY <1>1, <1>3, <1>4, <2>1, <3>3, <3>4 DEF Whole
    <2> QED BY <2>2, <2>3
  <1> QED BY <1>2, <1>3, <1>4, <1>5, <1>6, Delivers

-----------------------------------------------------------------------------
(* The server: of a call whose completion is sent nothing more comes.      *)
LEMMA SaidExtends ==
  ASSUME Typed, NEW M, Says(M), NEW U \in Seq(Reply), U = toClient'
  PROVE  /\ Extends(U, toClient)
         /\ \A i \in DOMAIN U : i \notin DOMAIN toClient => connected /\ U[i] \in M
  <1>1. PICK T \in Seq(Reply) : T = toClient
    BY DEF Typed, TypeOK
  <1>2. DOMAIN T = 1 .. Len(T) /\ Len(T) \in Nat /\ \A i \in DOMAIN U : i \in Nat
    OBVIOUS
  <1>3. /\ \A i \in DOMAIN T : i \in DOMAIN U /\ U[i] = T[i]
        /\ \A i \in DOMAIN U : i \in DOMAIN T \/ (connected /\ i > Len(T) /\ U[i] \in M)
    BY <1>1 DEF Says
  <1>4. \A i \in DOMAIN U : i \notin DOMAIN T => \A j \in DOMAIN T : j < i
    BY <1>2, <1>3
  <1> QED BY <1>1, <1>3, <1>4 DEF Extends

LEMMA ServerDelivers ==
  ASSUME Staged, Typed', NEW c \in Call, Delivering(c), UNCHANGED client,
         execution'[c].produced = execution[c].produced, Over(c) => Over(c)',
         NEW M, Says(M), \A m \in M : ~IsChunk(m, c),
         \A m \in M : connected /\ ~stream[c].completed /\ IsCompletion(m, c) => Over(c)'
  PROVE  Delivering(c)'
  <1>1. UNCHANGED <<stream, requests, jobs>>
    BY DEF client
  <1>2. Same(stream[c], stream'[c])
    BY <1>1, Queues, SameStreams DEF Delivering
  <1>3. ASSUME Whole(c), ~stream[c].completed
        PROVE  Whole(c)'
    <2>1. PICK U \in Seq(Reply) : U = toClient'
      BY DEF Typed, TypeOK
    <2>2. /\ Extends(U, toClient)
          /\ \A i \in DOMAIN U : i \notin DOMAIN toClient => connected /\ U[i] \in M
      BY <2>1, SaidExtends DEF Staged, Asking
    <2>3. PICK then \in BOOLEAN : then = Over(c)'
      BY DEF Over
    <2>4. \A i \in DOMAIN U : i \notin DOMAIN toClient =>
             ~IsChunk(U[i], c) /\ (IsCompletion(U[i], c) => then)
      BY <1>3, <2>2, <2>3
    <2>5. Flow(jobs[c], U, c, Got(stream[c]), execution[c].produced, then)
      BY <1>3, <2>2, <2>3, <2>4, Queues, FlowSaid DEF Whole
    <2>6. Uncompleted(c) => Uncompleted(c)'
      BY <1>1 DEF Uncompleted
    <2> QED BY <1>1, <1>3, <2>1, <2>3, <2>5, <2>6 DEF Whole
  <1> QED BY <1>2, <1>3, Delivers

LEMMA ReceiveDelivers ==
  ASSUME Staged, Typed', Deliveries, NEW r \in requests, ReceiveCall(r) \/ ReceiveControl(r)
  PROVE  Deliveries'
  <1>1. /\ r \in Request /\ r.call \in Call /\ Typed
        /\ UNCHANGED client /\ execution \in [Call -> Execution]
    BY Requests DEF ReceiveCall, ReceiveControl, Staged, Asking, Typed, TypeOK
  <1>2. \A c \in Call : /\ ~IsChunk(Error(r.id), c) /\ ~IsCompletion(Error(r.id), c)
    BY Kinds DEF IsChunk, IsCompletion
  <1> SUFFICES ASSUME NEW c \in Call
               PROVE  Delivering(c)'
    BY DEF Deliveries
  <1>3. Delivering(c)
    BY DEF Deliveries
  <1>4. /\ execution'[c].produced = execution[c].produced
        /\ Over(c) => Over(c)'
    <2>1. CASE ReceiveControl(r)
      BY <2>1 DEF ReceiveControl, Over
    <2>2. CASE ReceiveCall(r)
      <3>1. PICK ruling : execution' = [execution EXCEPT ![r.call].state = ruling]
        BY <2>2 DEF ReceiveCall
      <3>2. execution[r.call].state = "none"
        <4>1. /\ toServer \in Seq(Request) /\ toServer # <<>> /\ r = Head(toServer)
              /\ r.op = "invoke"
          BY <2>2 DEF ReceiveCall, Receive, Staged, Asking, Typed, TypeOK
        <4>2. 1 \in DOMAIN toServer /\ r = toServer[1]
          BY <4>1, TailOf
        <4> QED BY <4>1, <4>2 DEF Staged, InvokesWait
      <3> QED BY <1>1, <3>1, <3>2 DEF Execution, Over
    <2> QED BY <2>1, <2>2
  <1>5. Says({}) \/ Says({Error(r.id)})
    BY <1>1, ReceiveSays
  <1> QED BY <1>1, <1>2, <1>3, <1>4, <1>5, ServerDelivers

LEMMA FunctionDelivers ==
  ASSUME Staged, Typed', Deliveries, NEW d \in Call, DelayEnds(d) \/ Execute(d) \/ ResultSettles(d)
  PROVE  Deliveries'
  <1>1. UNCHANGED client /\ execution \in [Call -> Execution] /\ Typed
    BY DEF DelayEnds, Execute, ResultSettles, Staged, Asking, Typed, TypeOK
  <1>2. PICK st : /\ execution' = [execution EXCEPT ![d].state = st]
                  /\ execution[d].state \in {"delayed", "admitted", "running"}
                  /\ \/ Says({}) \/ Says({Error(d)}) \/ Says({Started(d)})
                     \/ Says({Completed(d)}) /\ st = "over"
    BY <1>1, FunctionSays DEF DelayEnds, Execute, ResultSettles
  <1> SUFFICES ASSUME NEW c \in Call
               PROVE  Delivering(c)'
    BY DEF Deliveries
  <1>3. Delivering(c)
    BY DEF Deliveries
  <1>4. /\ execution'[c].produced = execution[c].produced
        /\ Over(c) => Over(c)'
        /\ c = d /\ st = "over" => Over(c)'
    BY <1>1, <1>2 DEF Execution, Over
  <1>5. /\ ~IsChunk(Error(d), c) /\ ~IsChunk(Started(d), c) /\ ~IsChunk(Completed(d), c)
        /\ ~IsCompletion(Error(d), c) /\ ~IsCompletion(Started(d), c)
        /\ IsCompletion(Completed(d), c) => c = d
    BY Kinds DEF IsChunk, IsCompletion
  <1>6. CASE Says({}) \/ Says({Error(d)}) \/ Says({Started(d)})
    BY <1>1, <1>3, <1>4, <1>5, <1>6, ServerDelivers
  <1>7. CASE Says({Completed(d)}) /\ st = "over"
    BY <1>1, <1>3, <1>4, <1>5, <1>7, ServerDelivers
  <1> QED BY <1>2, <1>6, <1>7

(* Those who are told of the end of a stream are told when it is over.     *)
LEMMA ToldDelivers ==
  ASSUME Staged, Typed', StreamsEnd, NEW c \in Call, Delivering(c), UNCHANGED client,
         execution'[c].produced = execution[c].produced, Over(c) => Over(c)',
         NEW d \in Call, execution[d].ended, NEW w, w.id \in {Pump} \cup ControlId,
         Says(Told(d, w, Completed))
  PROVE  Delivering(c)'
  <1>1. ASSUME NEW m \in Told(d, w, Completed)
        PROVE  /\ ~IsChunk(m, c)
               /\ IsCompletion(m, c) => c = d
    <2>1. m = Completed(d) \/ (w.id # Pump /\ m = Completed(w.id))
      BY DEF Told
    <2>2. w.id # Pump => w.id # c
      BY Ids
    <2> QED BY <2>1, <2>2, Kinds DEF IsChunk, IsCompletion
  <1>2. connected /\ ~stream[d].completed => Over(d)
    BY DEF StreamsEnd, EndIsSeen, Over
  <1> QED BY <1>1, <1>2, ServerDelivers

LEMMA HandleDelivers ==
  ASSUME Staged, Typed', StreamsEnd, Deliveries, Handle
  PROVE  Deliveries'
  <1>1. /\ UNCHANGED client /\ execution \in [Call -> Execution] /\ Typed
        /\ handling \in Seq(Request) /\ handling # <<>>
    BY DEF Handle, Staged, Asking, Typed, TypeOK
  <1>2. PICK h \in Request : h = Head(handling) /\ h.op # "invoke" /\ h.call \in Call /\ h.id \in ControlId
    <2>1. 1 \in DOMAIN handling /\ Head(handling) = handling[1] /\ Head(handling) \in Request
      BY <1>1, TailOf
    <2> QED BY <2>1, Requests DEF Staged, Asking, Typed, ControlsAreHandled
  <1>3. execution[h.call] \in Execution
    BY <1>1, <1>2
  <1>4. /\ \A c \in Call : execution'[c].produced = execution[c].produced
        /\ \A c \in Call : execution'[c].state = execution[c].state
        /\ \/ Says({}) \/ Says({Completed(h.id)}) \/ Says({Error(h.id)})
           \/ execution[h.call].ended /\ Says(Told(h.call, h, Completed))
    <2>1. CASE PullStream(h)
      BY <1>1, <1>2, <2>1, HandlerSays DEF PullStream
    <2>2. CASE TerminateExecution(h)
      <3>1. \/ execution[h.call].ended /\ Says(Told(h.call, h, Completed)) /\ UNCHANGED execution
            \/ Says({}) /\ execution' = [execution EXCEPT ![h.call].ended = TRUE]
        BY <1>1, <1>2, <2>2, HandlerSays
      <3>2. CASE UNCHANGED execution
        BY <3>1, <3>2
      <3>3. CASE Says({}) /\ execution' = [execution EXCEPT ![h.call].ended = TRUE]
        <4>1. \A c \in Call : c # h.call => execution'[c] = execution[c]
          BY <1>1, <3>3
        <4>2. execution'[h.call] = [execution[h.call] EXCEPT !.ended = TRUE]
          BY <1>1, <1>2, <3>3
        <4>3. /\ execution'[h.call].produced = execution[h.call].produced
              /\ execution'[h.call].state = execution[h.call].state
          BY <1>3, <4>2 DEF Execution
        <4> QED BY <3>3, <4>1, <4>3
      <3> QED BY <3>1, <3>2, <3>3
    <2>3. ASSUME NEW x \in BOOLEAN, Pause(h, x)
          PROVE  /\ \A c \in Call : execution'[c].produced = execution[c].produced
                 /\ \A c \in Call : execution'[c].state = execution[c].state
                 /\ Says({Completed(h.id)}) \/ Says({Error(h.id)})
      <3>1. PICK y \in BOOLEAN : execution' = [execution EXCEPT ![h.call].halted = y]
        BY <1>1, <1>2, <2>3, HandlerSays
      <3>2. Says({Completed(h.id)}) \/ Says({Error(h.id)})
        BY <1>1, <1>2, <2>3, HandlerSays
      <3> QED BY <1>1, <1>2, <1>3, <3>1, <3>2 DEF Execution
    <2> QED BY <1>2, <2>1, <2>2, <2>3 DEF Handle
  <1> SUFFICES ASSUME NEW c \in Call
               PROVE  Delivering(c)'
    BY DEF Deliveries
  <1>5. /\ Delivering(c) /\ execution'[c].produced = execution[c].produced
        /\ Over(c) => Over(c)'
    BY <1>4 DEF Deliveries, Over
  <1>6. CASE execution[h.call].ended /\ Says(Told(h.call, h, Completed))
    BY <1>1, <1>2, <1>5, <1>6, ToldDelivers
  <1>7. CASE Says({}) \/ Says({Completed(h.id)}) \/ Says({Error(h.id)})
    <2>1. /\ ~IsChunk(Completed(h.id), c) /\ ~IsChunk(Error(h.id), c)
          /\ ~IsCompletion(Completed(h.id), c) /\ ~IsCompletion(Error(h.id), c)
      BY <1>2, Kinds, Ids DEF IsChunk, IsCompletion
    <2> QED BY <1>1, <1>5, <1>7, <2>1, ServerDelivers
  <1> QED BY <1>4, <1>6, <1>7

LEMMA WakeDelivers ==
  ASSUME Staged, Typed', StreamsEnd, Deliveries, NEW d \in Call, Wake(d)
  PROVE  Deliveries'
  <1>1. UNCHANGED client /\ UNCHANGED execution /\ Typed
    BY DEF Wake, Staged, Asking
  <1>2. PICK w \in Waiter : /\ w.id \in {Pump} \cup ControlId
                            /\ \/ execution[d].ended /\ Says(Told(d, w, Completed))
                               \/ Says({})
    BY <1>1, WakeSays
  <1> SUFFICES ASSUME NEW c \in Call
               PROVE  Delivering(c)'
    BY DEF Deliveries
  <1>3. /\ Delivering(c) /\ execution'[c].produced = execution[c].produced
        /\ Over(c) => Over(c)'
    BY <1>1 DEF Deliveries, Over
  <1>4. CASE execution[d].ended /\ Says(Told(d, w, Completed))
    BY <1>1, <1>2, <1>3, <1>4, ToldDelivers
  <1>5. CASE Says({})
    BY <1>1, <1>3, <1>5, ServerDelivers
  <1> QED BY <1>2, <1>4, <1>5

LEMMA EndDelivers ==
  ASSUME Staged, Typed', Deliveries, NEW d \in Call, UNCHANGED client,
         NEW q, NEW i, NEW w, Moves(d, q, i, w), Ends(d, q, i, w)
  PROVE  Deliveries'
  <1>1. UNCHANGED client /\ execution \in [Call -> Execution] /\ w.id \in {Pump} \cup ControlId
    BY DEF Moves, Staged, Asking, Typed, TypeOK
  <1>2. /\ \A c \in Call : execution'[c].produced = execution[c].produced
        /\ \A c \in Call : Over(c) => Over(c)'
        /\ Over(d)'
    BY <1>1 DEF Ends, Execution, Over
  <1> SUFFICES ASSUME NEW c \in Call
               PROVE  Delivering(c)'
    BY DEF Deliveries
  <1>3. ASSUME NEW m \in Told(d, w, Completed)
        PROVE  /\ ~IsChunk(m, c)
               /\ IsCompletion(m, c) => c = d
    <2>1. m = Completed(d) \/ (w.id # Pump /\ m = Completed(w.id))
      BY <1>3 DEF Told
    <2>2. w.id # Pump => w.id # c
      BY <1>1, Ids
    <2> QED BY <2>1, <2>2, Kinds DEF IsChunk, IsCompletion
  <1>4. ASSUME NEW m \in Told(d, w, Error)
        PROVE  ~IsChunk(m, c) /\ ~IsCompletion(m, c)
    <2>1. m.reply = "Error"
      BY <1>4, Kinds DEF Told
    <2> QED BY <2>1 DEF IsChunk, IsCompletion
  <1>5. Says(Told(d, w, Completed)) \/ Says(Told(d, w, Error))
    BY DEF Ends
  <1>6. Delivering(c)
    BY DEF Deliveries
  <1> QED BY <1>1, <1>2, <1>3, <1>4, <1>5, <1>6, ServerDelivers

(* The chunk of an item, and the answer to the pull it is for.             *)
LEMMA YieldSends ==
  ASSUME Typed, Typed', connected, NEW c \in Call, NEW v \in 1 .. MaxItem, NEW id \in ControlId,
         Send(<<Chunk(c, v)>>) \/ Send(<<Chunk(c, v), Completed(id)>>),
         \A i \in DOMAIN toClient : IsChunk(toClient[i], c) => toClient[i].value # v
  PROVE  \E U \in Seq(Reply) : \E k \in DOMAIN U :
            /\ U = toClient' /\ Extends(U, toClient) /\ k \notin DOMAIN toClient
            /\ IsChunk(U[k], c) /\ U[k].value = v
            /\ \A i \in DOMAIN U : i \notin DOMAIN toClient /\ i # k =>
                  ~IsChunk(U[i], c) /\ ~IsCompletion(U[i], c)
  <1>1. PICK a \in Reply, b \in Reply : a = Chunk(c, v) /\ b = Completed(id)
    BY Messages
  <1>2. /\ IsChunk(a, c) /\ a.value = v /\ ~IsChunk(b, c) /\ ~IsCompletion(b, c)
    BY <1>1, Kinds, Ids DEF IsChunk, IsCompletion
  <1>3. PICK U \in Seq(Reply), T \in Seq(Reply) : U = toClient' /\ T = toClient
    BY DEF Typed, TypeOK
  <1>4. PICK M : Says(M) /\ a \in M
    <2>1. Send(<<a>>) => Says({a})
      BY SaysOne
    <2>2. Send(<<a, b>>) => Says({a, b})
      BY SaysTwo
    <2>3. a \in {a} /\ a \in {a, b}
      OBVIOUS
    <2> QED BY <1>1, <2>1, <2>2, <2>3
  <1>5. Extends(U, T)
    BY <1>3, <1>4, SaidExtends
  <1>6. PICK k \in DOMAIN U : U[k] = a /\ k \notin DOMAIN T
    <2>1. PICK k \in DOMAIN U : U[k] = a
      BY <1>3, <1>4 DEF Says
    <2>2. k \notin DOMAIN T
      BY <1>2, <1>3, <1>5, <2>1 DEF Extends
    <2> QED BY <2>1, <2>2
  <1>7. PICK ms \in Seq(Reply) : /\ Send(ms) /\ 1 \in DOMAIN ms /\ ms[1] = a
                                 /\ \A i \in DOMAIN ms : i # 1 => ms[i] = b
    <2>1. PICK x \in Seq(Reply), y \in Seq(Reply) : x = <<a>> /\ y = <<a, b>>
      <3>1. <<a>> \in Seq(Reply) /\ <<a, b>> \in Seq(Reply)
        OBVIOUS
      <3> QED BY <3>1
    <2>2. /\ DOMAIN x = {1} /\ x[1] = a
          /\ DOMAIN y = {1, 2} /\ y[1] = a /\ y[2] = b
      BY <2>1
    <2>3. Send(x) \/ Send(y)
      BY <1>1, <2>1
    <2>4. /\ 1 \in DOMAIN x /\ 1 \in DOMAIN y
          /\ \A i \in DOMAIN x : i # 1 => x[i] = b
          /\ \A i \in DOMAIN y : i # 1 => y[i] = b
      BY <2>2
    <2> QED BY <2>2, <2>3, <2>4
  <1>8. \A i \in DOMAIN U : i \in DOMAIN T \/ (i - Len(T) \in DOMAIN ms /\ U[i] = ms[i - Len(T)])
    BY <1>3, <1>7, SentIs
  <1>9. a # b
    BY <1>2
  <1>10. k - Len(T) = 1
    BY <1>6, <1>7, <1>8, <1>9
  <1>11. ASSUME NEW i \in DOMAIN U, i \notin DOMAIN T, i # k
         PROVE  U[i] = b
    <2>1. i \in Nat /\ k \in Nat /\ Len(T) \in Nat
      OBVIOUS
    <2>2. i - Len(T) # 1
      BY <1>10, <1>11, <2>1
    <2> QED BY <1>7, <1>8, <1>11, <2>2
  <1> QED BY <1>2, <1>3, <1>5, <1>6, <1>11

LEMMA YieldDelivers ==
  ASSUME Staged, Typed', StreamsEnd, Deliveries, NEW d \in Call, UNCHANGED client,
         NEW q, NEW i, NEW w, NEW v \in 1 .. MaxItem, Moves(d, q, i, w), Yields(d, q, i, w, v)
  PROVE  Deliveries'
  <1>1. /\ UNCHANGED client /\ execution \in [Call -> Execution]
        /\ w.id \in {Pump} \cup ControlId /\ Typed
    BY DEF Moves, Staged, Asking, Typed, TypeOK
  <1>2. /\ \A c \in Call : c # d => execution'[c] = execution[c]
        /\ execution[d].state = "streaming" /\ execution'[d].state = "streaming"
        /\ execution'[d].produced = v /\ v = execution[d].produced + 1
    BY <1>1 DEF Yields, Execution
  <1> SUFFICES ASSUME NEW c \in Call
               PROVE  Delivering(c)'
    BY DEF Deliveries
  <1>3. Delivering(c)
    BY DEF Deliveries
  <1>4. CASE c # d
    <2>1. /\ Chunk(d, v) \in Reply /\ Completed(d) \in Reply
          /\ w.id # Pump => Completed(w.id) \in Reply
      BY <1>1, Messages
    <2>2. \/ Says({Chunk(d, v), Completed(d)})
          \/ Says({Chunk(d, v)})
          \/ w.id # Pump /\ Says({Chunk(d, v), Completed(w.id)})
      BY <1>1, <2>1, SaysOne, SaysTwo DEF Yields
    <2>3. /\ ~IsChunk(Chunk(d, v), c) /\ ~IsChunk(Completed(d), c)
          /\ ~IsCompletion(Chunk(d, v), c) /\ ~IsCompletion(Completed(d), c)
          /\ ~IsChunk(Completed(w.id), c)
          /\ w.id # Pump => ~IsCompletion(Completed(w.id), c)
      BY <1>1, <1>4, Kinds, Ids DEF IsChunk, IsCompletion
    <2>4. execution'[c].produced = execution[c].produced /\ (Over(c) => Over(c)')
      BY <1>2, <1>4 DEF Over
    <2>5. PICK M : Says(M) /\ \A m \in M : ~IsChunk(m, c) /\ ~IsCompletion(m, c)
      <3>1. /\ \A m \in {Chunk(d, v), Completed(d)} : ~IsChunk(m, c) /\ ~IsCompletion(m, c)
            /\ \A m \in {Chunk(d, v)} : ~IsChunk(m, c) /\ ~IsCompletion(m, c)
            /\ w.id # Pump => \A m \in {Chunk(d, v), Completed(w.id)} :
                                 ~IsChunk(m, c) /\ ~IsCompletion(m, c)
        BY <2>3
      <3> QED BY <2>2, <3>1
    <2> QED BY <1>1, <1>3, <2>4, <2>5, ServerDelivers
  <1>5. CASE c = d
    <2>1. UNCHANGED <<stream, requests, jobs>>
      BY <1>1 DEF client
    <2>2. Over(c) = FALSE /\ Over(c)' = FALSE
      BY <1>2, <1>5 DEF Over
    <2> SUFFICES ASSUME ~stream[c].completed, Whole(c)
                 PROVE  Whole(c)'
      BY <1>3, <2>1, <2>2 DEF Delivering
    <2>3. stream[c].mode # "None"
      BY <1>2, <1>5 DEF Staged, StreamsHaveMode
    <2>4. requests # {}
      <3>1. \A j \in DOMAIN jobs[c] : jobs[c][j] # Completion
        BY <2>2 DEF Whole, Flow, CompletesLast
      <3> QED BY <2>3, <3>1 DEF Whole, Uncompleted
    <2>5. connected
      BY <2>4 DEF Staged, Asking, ClosedIsEmpty
    <2>6. ~execution[d].ended
      BY <1>5, <2>2, <2>5 DEF StreamsEnd, EndIsSeen, Over
    <2>7. PICK id \in ControlId : Send(<<Chunk(c, v)>>) \/ Send(<<Chunk(c, v), Completed(id)>>)
      <3>1. CASE w.id = Pump
        <4>1. Send(<<Chunk(c, v)>>)
          BY <1>5, <2>6, <3>1 DEF Yields
        <4>2. ControlId # {}
          <5>1. \A n, m \in Nat : n # 0 => n + 1 <= 3 * n + m
            OBVIOUS
          <5>2. MaxCall + 1 <= 3 * MaxCall + MaxControl
            BY <5>1, InvocationAssumption
          <5>3. MaxCall + 1 \in ControlId
            BY <5>2, InvocationAssumption DEF ControlId
          <5> QED BY <5>3
        <4> QED BY <4>1, <4>2
      <3>2. CASE w.id # Pump
        <4>1. Send(<<Chunk(c, v), Completed(w.id)>>)
          BY <1>5, <3>2 DEF Yields
        <4> QED BY <1>1, <3>2, <4>1
      <3> QED BY <3>1, <3>2
    <2>8. PICK J \in Seq(0 .. MaxItem), T \in Seq(Reply), f \in Nat, t \in Nat :
             /\ J = jobs[c] /\ T = toClient /\ f = Got(stream[c]) /\ t = execution[c].produced
      BY Queues
    <2>9. Flow(J, T, c, f, t, FALSE) /\ v = t + 1
      BY <1>2, <1>5, <2>2, <2>8 DEF Whole
    <2>10. \A j \in DOMAIN T : IsChunk(T[j], c) => T[j].value # v
      BY <2>9 DEF Flow, Comes
    <2>11. PICK U \in Seq(Reply) : \E k \in DOMAIN U :
              /\ U = toClient' /\ Extends(U, T) /\ k \notin DOMAIN T
              /\ IsChunk(U[k], c) /\ U[k].value = v
              /\ \A j \in DOMAIN U : j \notin DOMAIN T /\ j # k =>
                    ~IsChunk(U[j], c) /\ ~IsCompletion(U[j], c)
      BY <1>1, <2>5, <2>7, <2>8, <2>10, YieldSends
    <2>12. Flow(J, U, c, f, t + 1, FALSE)
      BY <2>9, <2>11, FlowYield
    <2>13. Uncompleted(c)'
      BY <2>1, <2>3 DEF Whole, Uncompleted
    <2>14. /\ U = toClient' /\ execution'[c].produced = t + 1
      BY <1>2, <1>5, <2>9, <2>11
    <2> QED BY <2>1, <2>2, <2>8, <2>12, <2>13, <2>14 DEF Whole
  <1> QED BY <1>4, <1>5

LEMMA NextDelivers == Staged /\ StreamsEnd /\ Deliveries /\ [Next]_vars => Deliveries'
  <1> SUFFICES ASSUME Staged, StreamsEnd, Deliveries, [Next]_vars
               PROVE  Deliveries'
    OBVIOUS
  <1>1. Typed' /\ Typed
    BY NextTyped DEF Staged, Asking
  <1>2. CASE UNCHANGED vars
    <2>1. UNCHANGED <<stream, jobs, requests, toClient, execution>>
      BY <1>2 DEF vars, client, server
    <2>2. \A c \in Call : Same(stream[c], stream'[c])
      BY <2>1, Queues, SameStreams DEF Deliveries, Delivering
    <2> QED BY <2>1, <2>2, ClientDelivers DEF Deliveries
  <1>3. ASSUME NEW d \in Call, Yield(d) \/ IteratorEnds(d)
        PROVE  Deliveries'
    <2>1. PICK q \in Seq(Waiter), w \in Waiter, i \in Nat :
             /\ Moves(d, q, i, w)
             /\ (\E v \in 1 .. MaxItem : Yields(d, q, i, w, v)) \/ Ends(d, q, i, w)
      <3>1. \A q \in Seq(Waiter) : DOMAIN q \subseteq Nat
        OBVIOUS
      <3> QED BY <1>1, <1>3, <3>1, IteratorSays
    <2>4. UNCHANGED client
      BY <1>3 DEF Yield, IteratorEnds
    <2>2. CASE Ends(d, q, i, w)
      BY <1>1, <2>1, <2>2, <2>4, EndDelivers
    <2>3. ASSUME NEW v \in 1 .. MaxItem, Yields(d, q, i, w, v)
          PROVE  Deliveries'
      BY <1>1, <2>1, <2>3, <2>4, YieldDelivers
    <2> QED BY <2>1, <2>2, <2>3
  <1>4. CASE Next
    BY <1>1, <1>3, <1>4, ConsumerDelivers, InvokeDelivers, ReplyDelivers, DecodeDelivers,
       ReceiveDelivers, FunctionDelivers, HandleDelivers, WakeDelivers, DisconnectDelivers
       DEF Next, Consumer
  <1> QED BY <1>2, <1>4

(* The line of a consumer is what it has not taken, what waits to be       *)
(* decoded and what is on its way.                                         *)
Line(I, J, T, c) ==
    I \o J \o [i \in DOMAIN T |-> IF T[i].reply = "Chunk" /\ T[i].id = c THEN T[i].value
                                  ELSE Completion]

LEMMA FlowContinues ==
  ASSUME NEW I \in Seq(1 .. MaxItem), NEW J \in Seq(0 .. MaxItem), NEW T \in Seq(Reply),
         NEW c, NEW n \in Nat, NEW t \in Nat, NEW over \in BOOLEAN,
         \A i \in DOMAIN I : I[i] = n + i,
         Flow(J, T, c, n + Len(I), t, over)
  PROVE  Continues(Line(I, J, T, c), n, t)
  <1>1. PICK K : K = [i \in DOMAIN T |-> IF T[i].reply = "Chunk" /\ T[i].id = c
                                         THEN T[i].value ELSE Completion]
    OBVIOUS
  <1>2. /\ DOMAIN K = 1 .. Len(T) /\ Len(T) \in Nat /\ DOMAIN T = 1 .. Len(T)
        /\ \A i \in DOMAIN T : IF IsChunk(T[i], c) THEN K[i] = T[i].value ELSE K[i] = Completion
    BY <1>1 DEF IsChunk
  <1>3. ASSUME NEW i \in DOMAIN T
        PROVE  K[i] \in 0 .. MaxItem
    <2>1. CASE IsChunk(T[i], c)
      <3>1. T[i].value \in 1 .. MaxItem
        BY <2>1, Contents DEF IsChunk
      <3> QED BY <1>2, <2>1, <3>1, Ids
    <2>2. CASE ~IsChunk(T[i], c)
      <3>1. Completion \in 0 .. MaxItem
        BY Ids
      <3> QED BY <1>2, <2>2, <3>1
    <2> QED BY <2>1, <2>2
  <1>4. K \in Seq(0 .. MaxItem) /\ Len(K) = Len(T)
    BY <1>1, <1>2, <1>3
  <1>5. PICK P \in Seq(0 .. MaxItem) : P = I \o J
    <2>1. I \in Seq(0 .. MaxItem)
      <3>1. 1 .. MaxItem \subseteq 0 .. MaxItem
        BY Ids
      <3> QED BY <3>1, SeqMonotonic
    <2> QED BY <2>1, ConcatOf
  <1>6. PICK f \in Nat, l \in Nat : f = n + Len(I) /\ l = Len(I) /\ DOMAIN I = 1 .. l
    OBVIOUS
  <1>7. Flow(J, T, c, f, t, over)
    BY <1>6
  <1>8. /\ \A i \in DOMAIN J : J[i] \in Nat
        /\ \A i \in DOMAIN T : IsChunk(T[i], c) => T[i].value \in Nat /\ T[i].value # Completion
        /\ DOMAIN J = 1 .. Len(J) /\ Len(J) \in Nat
    BY Contents, Ids DEF IsChunk
  <1>9. /\ Len(P) = l + Len(J)
        /\ \A i \in DOMAIN I : i \in DOMAIN P /\ P[i] = n + i
        /\ \A i \in DOMAIN J : l + i \in DOMAIN P /\ P[l + i] = J[i]
        /\ \A i \in DOMAIN P : i \in 1 .. l \/ \E j \in DOMAIN J : i = l + j
    <2>1. /\ Len(I \o J) = Len(I) + Len(J)
          /\ \A i \in DOMAIN I : i \in DOMAIN (I \o J) /\ (I \o J)[i] = I[i]
          /\ \A i \in DOMAIN J : Len(I) + i \in DOMAIN (I \o J) /\ (I \o J)[Len(I) + i] = J[i]
      OBVIOUS
    <2>2. ASSUME NEW i \in DOMAIN P, i \notin 1 .. l
          PROVE  \E j \in DOMAIN J : i = l + j
      <3>1. i \in 1 .. l + Len(J)
        BY <1>5, <1>6, <2>1
      <3>2. i - l \in DOMAIN J /\ i = l + (i - l)
        BY <1>8, <2>2, <3>1
      <3> QED BY <3>2
    <2> QED BY <1>5, <1>6, <2>1, <2>2
  <1>10. PICK L \in Seq(0 .. MaxItem) : L = P \o K
    BY <1>4, ConcatOf
  <1>11. /\ \A i \in DOMAIN P : i \in DOMAIN L /\ L[i] = P[i]
         /\ \A i \in DOMAIN K : Len(P) + i \in DOMAIN L /\ L[Len(P) + i] = K[i]
         /\ \A i \in DOMAIN L : i \in DOMAIN P \/ \E j \in DOMAIN K : i = Len(P) + j
    <2>3. PICK N \in Seq(0 .. MaxItem) : N = K
      BY <1>4
    <2>1. /\ Len(P \o K) = Len(P) + Len(K) /\ Len(P) \in Nat /\ Len(K) \in Nat
          /\ \A i \in DOMAIN P : i \in DOMAIN (P \o K) /\ (P \o K)[i] = P[i]
          /\ \A i \in DOMAIN K : Len(P) + i \in DOMAIN (P \o K) /\ (P \o K)[Len(P) + i] = K[i]
          /\ DOMAIN (P \o K) = 1 .. Len(P) + Len(K) /\ DOMAIN P = 1 .. Len(P) /\ DOMAIN K = 1 .. Len(K)
      <3>1. /\ Len(P \o N) = Len(P) + Len(N) /\ Len(P) \in Nat /\ Len(N) \in Nat
            /\ \A i \in DOMAIN P : i \in DOMAIN (P \o N) /\ (P \o N)[i] = P[i]
            /\ \A i \in DOMAIN N : Len(P) + i \in DOMAIN (P \o N) /\ (P \o N)[Len(P) + i] = N[i]
            /\ DOMAIN (P \o N) = 1 .. Len(P) + Len(N)
            /\ DOMAIN P = 1 .. Len(P) /\ DOMAIN N = 1 .. Len(N)
        <4>1. Len(P \o N) = Len(P) + Len(N) /\ Len(P) \in Nat /\ Len(N) \in Nat
          OBVIOUS
        <4>2. \A i \in DOMAIN P : i \in DOMAIN (P \o N) /\ (P \o N)[i] = P[i]
          OBVIOUS
        <4>3. \A i \in DOMAIN N : Len(P) + i \in DOMAIN (P \o N) /\ (P \o N)[Len(P) + i] = N[i]
          OBVIOUS
        <4>4. /\ DOMAIN (P \o N) = 1 .. Len(P) + Len(N)
              /\ DOMAIN P = 1 .. Len(P) /\ DOMAIN N = 1 .. Len(N)
          OBVIOUS
        <4> QED BY <4>1, <4>2, <4>3, <4>4
      <3> QED BY <2>3, <3>1
    <2>2. ASSUME NEW i \in DOMAIN L, i \notin DOMAIN P
          PROVE  \E j \in DOMAIN K : i = Len(P) + j
      <3>1. i \in 1 .. Len(P) + Len(K) /\ i \notin 1 .. Len(P)
        BY <1>10, <2>1, <2>2
      <3>2. i - Len(P) \in DOMAIN K /\ i = Len(P) + (i - Len(P))
        BY <2>1, <3>1
      <3> QED BY <3>2
    <2> QED BY <1>10, <2>1, <2>2
  (* The three parts of the line.                                          *)
  <1> DEFINE Part(x, i) ==
        \/ i \in 1 .. l /\ x = n + i
        \/ \E j \in DOMAIN J : i = l + j /\ x = J[j]
        \/ \E j \in DOMAIN T : i = (l + Len(J)) + j /\ x = K[j]
  <1>12. \A i \in DOMAIN L : Part(L[i], i)
    BY <1>2, <1>6, <1>9, <1>11
  <1>13. /\ n <= f /\ f <= t
         /\ \A j \in DOMAIN J : J[j] # Completion => f < J[j] /\ J[j] <= t
         /\ \A j \in DOMAIN T : K[j] # Completion => f < K[j] /\ K[j] <= t /\ IsChunk(T[j], c)
    <2>1. n <= f
      BY <1>6
    <2> QED BY <1>2, <1>7, <2>1 DEF Flow, Comes
  <1>14. \A i \in 1 .. l : n + i \in (n + 1) .. t /\ n + i <= f /\ n + i # Completion
    <2>1. \A i \in 1 .. l : n + i \in Nat /\ n + 1 <= n + i /\ n + i <= f /\ n + i # 0
      BY <1>6
    <2>2. \A i \in 1 .. l : n + i <= t
      BY <1>6, <1>13, <2>1
    <2>3. Completion = 0
      BY Ids
    <2> QED BY SMTT(30), <2>1, <2>2, <2>3
  <1>15. {L[i] : i \in DOMAIN L} \ {Completion} = (n + 1) .. t
    <2>1. ASSUME NEW i \in DOMAIN L, L[i] # Completion
          PROVE  L[i] \in (n + 1) .. t
      <3>1. CASE i \in 1 .. l /\ L[i] = n + i
        BY <1>14, <3>1
      <3>2. ASSUME NEW j \in DOMAIN J, L[i] = J[j]
            PROVE  L[i] \in (n + 1) .. t
        BY <1>8, <1>13, <2>1, <3>2
      <3>3. ASSUME NEW j \in DOMAIN T, L[i] = K[j]
            PROVE  L[i] \in (n + 1) .. t
        <4>1. K[j] \in Nat
          BY <1>3, Ids
        <4> QED BY <1>13, <2>1, <3>3, <4>1
      <3> QED BY <1>12, <3>1, <3>2, <3>3
    <2>2. ASSUME NEW v \in (n + 1) .. t
          PROVE  v # Completion /\ \E i \in DOMAIN L : L[i] = v
      <3>1. v # Completion
        BY Ids
      <3>2. CASE v <= f
        <4>1. v - n \in 1 .. l /\ n + (v - n) = v
          BY <1>6, <3>2
        <4>2. v - n \in DOMAIN L /\ L[v - n] = v
          BY <1>6, <1>9, <1>11, <4>1
        <4> QED BY <3>1, <4>2
      <3>3. CASE v > f
        <4>1. v \in (f + 1) .. t
          BY <3>3
        <4>2. \/ \E j \in DOMAIN J : J[j] = v
              \/ \E j \in DOMAIN T : IsChunk(T[j], c) /\ T[j].value = v
          BY <1>7, <4>1 DEF Flow, Comes
        <4>3. \A j \in DOMAIN J : \E i \in DOMAIN L : L[i] = J[j]
          BY <1>9, <1>11
        <4>4. \A j \in DOMAIN T : \E i \in DOMAIN L : L[i] = K[j]
          BY <1>2, <1>11
        <4> QED BY <1>2, <3>1, <4>2, <4>3, <4>4
      <3> QED BY <3>2, <3>3
    <2>3. \A x \in {L[i] : i \in DOMAIN L} \ {Completion} : x \in (n + 1) .. t
      BY <2>1
    <2>4. \A v \in (n + 1) .. t : v \in {L[i] : i \in DOMAIN L} \ {Completion}
      BY <2>2
    <2> QED BY <2>3, <2>4
  <1>16. ASSUME NEW i \in DOMAIN L, NEW j \in DOMAIN L, i < j, L[i] # Completion, L[j] # Completion
         PROVE  L[i] < L[j]
    <2>1. /\ \A k, m \in DOMAIN J : k < m /\ J[k] # Completion /\ J[m] # Completion => J[k] < J[m]
          /\ \A k, m \in DOMAIN T : k < m /\ K[k] # Completion /\ K[m] # Completion => K[k] < K[m]
          /\ \A k \in DOMAIN J : \A m \in DOMAIN T :
                J[k] # Completion /\ K[m] # Completion => J[k] < K[m]
      <3>1. \A k, m \in DOMAIN J : k < m /\ J[k] # Completion /\ J[m] # Completion => J[k] < J[m]
        BY <1>7 DEF Flow, Comes
      <3>2. \A k \in DOMAIN T : K[k] # Completion => IsChunk(T[k], c) /\ K[k] = T[k].value
        BY <1>2, <1>13
      <3>3. \A k, m \in DOMAIN T : k < m /\ K[k] # Completion /\ K[m] # Completion => K[k] < K[m]
        BY <1>7, <3>2 DEF Flow, Comes
      <3>4. \A k \in DOMAIN J : \A m \in DOMAIN T :
                J[k] # Completion /\ K[m] # Completion => J[k] < K[m]
        BY <1>7, <3>2 DEF Flow, Comes
      <3> QED BY <3>1, <3>3, <3>4
    <2>2. /\ \A k \in DOMAIN J : k \in 1 .. Len(J) /\ J[k] \in Nat
          /\ \A k \in DOMAIN T : k \in Nat /\ k > 0 /\ K[k] \in Nat
          /\ i \in Nat /\ j \in Nat
      <3>1. \A k \in DOMAIN J : k \in 1 .. Len(J) /\ J[k] \in Nat
        BY <1>8
      <3>2. \A k \in DOMAIN T : k \in Nat /\ k > 0 /\ K[k] \in Nat
        <4>1. \A k \in 0 .. MaxItem : k \in Nat
          BY Ids
        <4> QED BY <1>2, <1>3, <4>1
      <3>3. i \in Nat /\ j \in Nat
        OBVIOUS
      <3> QED BY <3>1, <3>2, <3>3
    <2>3. CASE i \in 1 .. l /\ L[i] = n + i
      <3>1. L[i] <= f /\ L[i] \in Nat
        <4>1. n + i <= f
          BY <1>14, <2>3
        <4>2. n + i \in Nat
          BY <2>2
        <4> QED BY <2>3, <4>1, <4>2
      <3>2. CASE j \in 1 .. l /\ L[j] = n + j
        BY <1>16, <2>3, <3>2
      <3>3. ASSUME NEW m \in DOMAIN J, L[j] = J[m]
            PROVE  L[i] < L[j]
        BY SMTT(30), <1>13, <1>16, <2>2, <3>1, <3>3
      <3>4. ASSUME NEW m \in DOMAIN T, L[j] = K[m]
            PROVE  L[i] < L[j]
        BY SMTT(30), <1>13, <1>16, <2>2, <3>1, <3>4
      <3> QED BY <1>12, <3>2, <3>3, <3>4
    <2>4. ASSUME NEW k \in DOMAIN J, i = l + k, L[i] = J[k]
          PROVE  L[i] < L[j]
      <3>1. CASE j \in 1 .. l
        BY SMTT(30), <1>16, <2>2, <2>4, <3>1
      <3>2. ASSUME NEW m \in DOMAIN J, j = l + m, L[j] = J[m]
            PROVE  L[i] < L[j]
        <4>1. k < m
          BY <1>8, <1>16, <2>2, <2>4, <3>2
        <4> QED BY <1>16, <2>1, <2>4, <3>2, <4>1
      <3>3. ASSUME NEW m \in DOMAIN T, L[j] = K[m]
            PROVE  L[i] < L[j]
        BY <1>16, <2>1, <2>4, <3>3
      <3> QED BY <1>12, <3>1, <3>2, <3>3
    <2>5. ASSUME NEW k \in DOMAIN T, i = (l + Len(J)) + k, L[i] = K[k]
          PROVE  L[i] < L[j]
      <3>1. ~(j \in 1 .. l) /\ \A m \in DOMAIN J : j # l + m
        <4>1. j > l + Len(J) /\ l \in Nat /\ Len(J) \in Nat
          BY SMTT(30), <1>8, <1>16, <2>2, <2>5
        <4> QED BY SMTT(30), <2>2, <4>1
      <3>2. PICK m \in DOMAIN T : j = (l + Len(J)) + m /\ L[j] = K[m]
        BY <1>12, <3>1
      <3>3. k < m
        BY SMTT(30), <1>8, <1>16, <2>2, <2>5, <3>2
      <3> QED BY <1>16, <2>1, <2>5, <3>2, <3>3
    <2> QED BY <1>12, <2>3, <2>4, <2>5
  <1>17. Continues(L, n, t)
    BY <1>15, <1>16 DEF Continues
  <1> QED BY <1>1, <1>5, <1>10, <1>17 DEF Line

LEMMA DeliveriesDeliver ==
  ASSUME Staged, Deliveries
  PROVE  Delivery
  <1> SUFFICES ASSUME NEW c \in Call
               PROVE  /\ stream[c].consumed = FirstItems(Len(stream[c].consumed))
                      /\ connected /\ ~stream[c].completed =>
                            /\ Len(stream[c].consumed) <= execution[c].produced
                            /\ Continues(Arriving(c), Len(stream[c].consumed),
                                         execution[c].produced)
                      /\ stream[c].iter = "done" /\ ~stream[c].terminated =>
                            Len(stream[c].consumed) = execution[c].produced
    BY DEF Delivery
  <1>1. Delivering(c) /\ InOrder(stream[c])
    BY DEF Deliveries, Delivering
  <1>2. PICK s \in Stream, J \in Seq(0 .. MaxItem), T \in Seq(Reply), t \in Nat :
          s = stream[c] /\ J = jobs[c] /\ T = toClient /\ t = execution[c].produced
    BY Queues
  <1>3. PICK I \in Seq(1 .. MaxItem), d \in Seq(1 .. MaxItem), n \in Nat :
          I = s.items /\ d = s.consumed /\ n = Len(d)
    BY DEF Stream
  <1>4. ASSUME ~stream[c].completed
        PROVE  n <= t /\ Continues(Arriving(c), n, t)
    <2>1. Whole(c)
      BY <1>1, <1>4 DEF Delivering
    <2>2. Flow(J, T, c, n + Len(I), t, Over(c))
      BY <1>2, <1>3, <2>1 DEF Whole, Got
    <2>3. \A i \in DOMAIN I : I[i] = n + i
      BY <1>1, <1>2, <1>3 DEF InOrder
    <2>4. Continues(Line(I, J, T, c), n, t)
      BY <2>2, <2>3, Queues, FlowContinues
    <2>5. n + Len(I) <= t /\ Len(I) \in Nat
      BY <2>2 DEF Flow, Comes
    <2>6. n <= t
      BY <2>5
    <2> QED BY <1>2, <1>3, <2>4, <2>6 DEF Arriving, Line
  <1>5. ASSUME s.iter = "done", ~s.terminated
        PROVE  n = t
    <2>1. s.completed /\ ~s.error /\ s.items = <<>>
      BY <1>1, <1>2, <1>5 DEF InOrder
    <2>2. Got(s) = t
      BY <1>1, <1>2, <1>5, <2>1 DEF Delivering
    <2>3. Got(s) = n + Len(I) /\ Len(I) = 0
      BY <1>3, <2>1 DEF Got
    <2> QED BY <2>2, <2>3
  <1> QED BY <1>1, <1>2, <1>3, <1>4, <1>5 DEF InOrder

-----------------------------------------------------------------------------
LEMMA InitOwed == Init => RequestsAreOwed
  BY DEF Init, RequestsAreOwed

(* The inductive invariant: a request is of a call that was made and is    *)
(* executed once, what a stream is asked or says has begun, the end of a   *)
(* stream is seen by its iterator, every request is owed an answer, and    *)
(* the items a consumer lacks are on their way to it in order.             *)
IInv == Staged /\ StreamsEnd /\ RequestsAreOwed /\ Deliveries

(* The inductive invariant holds over calls, chunks, pulls, halts, resumes *)
(* and terminations in any order, and a break of the connection.           *)
THEOREM InvocationInvariance == Spec => []IInv
  <1>1. Init => IInv
    BY InitStaged, InitEnds, InitOwed, InitDelivers DEF IInv
  <1>2. IInv /\ [Next]_vars => IInv'
    BY NextStaged, NextEnds, NextOwed, NextDelivers DEF IInv
  <1> QED BY <1>1, <1>2, PTL DEF Spec

(* Every variable of the client's streams and the server's executions      *)
(* keeps its type, for any number of calls, items and stream controls.     *)
THEOREM TypeCorrect == Spec => []TypeOK
  <1>1. IInv => TypeOK
    BY DEF IInv, Staged, Asking, Typed
  <1> QED BY <1>1, InvocationInvariance, PTL

(* A consumer gets the items in the order the function yields them, none   *)
(* lost or repeated, and its iterator is done, unless it terminated the    *)
(* stream, only once it has them all: though chunks are decoded one by one *)
(* while the replies to later pulls, and the completion, arrive            *)
(* (AsyncStreamReply, the chunk queue of EpConnection).                    *)
THEOREM DeliveryAlways == Spec => []Delivery
  <1>1. IInv => Delivery
    BY DeliveriesDeliver DEF IInv
  <1> QED BY <1>1, InvocationInvariance, PTL

(* While the connection is up somebody owes an answer to every request the *)
(* client keeps, be it of a call, a pull, a halt, a resume or a            *)
(* termination (requests, ServerInvocationContext).                        *)
THEOREM RequestsAreOwedAlways == Spec => []RequestsAreOwed
  <1>1. IInv => RequestsAreOwed
    BY DEF IInv
  <1> QED BY <1>1, InvocationInvariance, PTL

(* Only streams that can still yield are registered, and a termination or  *)
(* a break of the connection leaves nothing of a stream on the server      *)
(* (terminateExecution, disconnected).                                     *)
THEOREM TerminatedIsReleasedAlways == Spec => []TerminatedIsReleased
  <1>1. IInv => TerminatedIsReleased
    BY EndsRelease DEF IInv
  <1> QED BY <1>1, InvocationInvariance, PTL
=============================================================================
