------------------------------- MODULE Framing -------------------------------
(***************************************************************************)
(* How a connection cuts the byte stream of its socket into packets.  The  *)
(* peer composes packets (EpAuthPacket until the session is established,   *)
(* EpPacket after it, each sealed in a length-prefixed record once the     *)
(* transport is encrypted); the network delivers their bytes in chunks of  *)
(* any size; the socket appends a chunk to its NetworkBuffer and calls     *)
(* networkReceive, which drains the buffer: dataReceived takes all of it,  *)
(* parses and dispatches packet by packet, and pushes an incomplete tail   *)
(* back with the number of bytes it needs.                                 *)
(*                                                                         *)
(* Abstraction.  A byte is <<top 2 bits, size bits, rest>>, a digit being  *)
(* <<0, 0, d>> with d below Base; in the code Base is 256.  Of a value     *)
(* only its class and length are kept.  Sealing appends Overhead bytes.    *)
(* A stream is either plain or sealed from its first byte: the change of   *)
(* transport is the subject of module Session.                             *)
(***************************************************************************)
EXTENDS Integers, Sequences, SequencesExt

CONSTANTS
    Base,             \* values of a length byte
    Methods,          \* methods of the packets the peer sends
    FixedLengths,     \* lengths of the fixed-size values it sends
    Lengths,          \* lengths of the other values it sends
    MaximumPayload,   \* maximumPayloadLength of PlainTdu.parse; 0 disables it
    MaximumRecord,    \* encryption.maximumRecordSize; 0 disables it
    Overhead,         \* bytes sealing adds
    MaxPacket         \* bound: packets of a stream

Fixed == 0
Dynamic == 1

RequestMethod == 1
ReplyMethod == 2

HeaderSize == 4   \* bytes of the length of a record
IdSize == 4       \* bytes of the id of a call

(* n without its last k digits.                                            *)
Quotient(n) == LET q[k \in 0..7] == IF k = 0 THEN n ELSE q[k-1] \div Base IN q
Fits(n, size) == Quotient(n)[size] = 0

(* Lengths have at most seven digits, and those of records four.           *)
LargestPacket(length) == 1 + IdSize + 1 + 7 + length
ASSUME FramingAssumption ==
    /\ Base \in Nat \ {0, 1}
    /\ Methods \subseteq 0..3
    /\ FixedLengths \subseteq {0} \cup {2^e : e \in 0..6}
    /\ FixedLengths \cup Lengths \subseteq Nat
    /\ \A n \in Lengths : Fits(n, 7)
    /\ {MaximumPayload, MaximumRecord, Overhead, MaxPacket} \subseteq Nat
    /\ \A n \in {0} \cup FixedLengths \cup Lengths :
          \A size \in 1..LargestPacket(n) : Fits(size + Overhead, HeaderSize)

VARIABLES
    stream,       \* what the peer sends
    arrived,      \* bytes of it the socket has received
    buffer,       \* NetworkBuffer.data
    needed,       \* NetworkBuffer.neededDataLength
    msg,          \* what dataReceived has read and not yet parsed
    receiving,    \* receivingFlag
    open,         \* the socket's state is not Closed
    dispatched    \* packets handed to their handlers, as the bytes they span

framingVars == <<stream, arrived, buffer, needed, msg, receiving, open, dispatched>>

-----------------------------------------------------------------------------
(* Composing, in the peer.  Numbers are big-endian, but for the ids.       *)

Digit(d) == <<0, 0, d>>
Digits(n, size) == [i \in 1..size |-> Digit(Quotient(n)[size - i] % Base)]
Payload(mark, length) == [i \in 1..length |-> Digit((mark + i) % Base)]

LengthSize(n) == CHOOSE k \in 0..7 : Fits(n, k) /\ \A j \in 0..(k-1) : ~Fits(n, j)
Exponent(length) == IF length = 0 THEN 0 ELSE CHOOSE e \in 1..7 : 2^(e-1) = length

FramedHeader(class, length) == <<<<class, LengthSize(length), 0>>>> \o Digits(length, LengthSize(length))
ComposeTdu(class, length, mark) ==
    (IF class = Fixed THEN <<<<Fixed, Exponent(length), 0>>>> ELSE FramedHeader(class, length))
        \o Payload(mark, length)

Value == {[class |-> Fixed, length |-> n] : n \in FixedLengths}
            \cup {[class |-> Dynamic, length |-> n] : n \in Lengths}
Packet == {[method |-> m, values |-> v] : m \in Methods,
                                          v \in {<<>>} \cup {<<x>> : x \in Value}}

HasId(method, isAuth) == ~isAuth /\ method \in {RequestMethod, ReplyMethod}
ComposePacket(p, mark, isAuth) ==
    <<<<p.method, Len(p.values), mark>>>>
        \o (IF HasId(p.method, isAuth) THEN Reverse(Digits(mark, IdSize)) ELSE <<>>)
        \o (IF p.values = <<>> THEN <<>>
            ELSE ComposeTdu(p.values[1].class, p.values[1].length, mark))

(* A record: its length, then the protected bytes.                         *)
Record(bytes) ==
    Digits(Len(bytes) + Overhead, HeaderSize) \o bytes \o [i \in 1..Overhead |-> Digit(0)]
Plaintext(record) == SubSeq(record, HeaderSize + 1, Len(record) - Overhead)

(* What the peer sends: its packets, and what send() writes for each.      *)
Compose(sealed, auth, packets) ==
    LET bytes == [i \in DOMAIN packets |-> ComposePacket(packets[i], i, i <= auth)]
    IN  [sealed |-> sealed, auth |-> auth, packets |-> bytes,
         frames |-> IF sealed THEN [i \in DOMAIN bytes |-> Record(bytes[i])] ELSE bytes]
ByteStream == {s \in {Compose(sealed, auth, p) : sealed \in BOOLEAN, auth \in 0..MaxPacket,
                                                 p \in SeqOf(Packet, MaxPacket)} :
                  s.sealed => s.auth = 0}

(* The bytes of its first k packets, and of all of them.                   *)
Bytes == LET upTo[k \in 0..Len(stream.frames)] ==
                 IF k = 0 THEN <<>> ELSE upTo[k-1] \o stream.frames[k]
         IN  upTo
Written == Bytes[Len(stream.frames)]

-----------------------------------------------------------------------------
(* Parsing.  The outcome is the size of the packet, the bytes still        *)
(* missing, or the refusal of a length over the limit.                     *)

Parsed(size) == [kind |-> "parsed", n |-> size]
Missing(k) == [kind |-> "missing", n |-> k]
Refused == [kind |-> "refused", n |-> 0]

Number(bytes) ==
    LET value[i \in 0..Len(bytes)] ==
            IF i = 0 THEN 0 ELSE value[i-1] * Base + bytes[i][3]
    IN  value[Len(bytes)]

(* notEnough(): what the needed bytes lack of the ones at hand.            *)
NotEnough_Whole(at, want) == IF at < want THEN want ELSE 0
NotEnough(at, want) == IF at < want THEN want - at ELSE 0

(* PlainTdu.parse.  The limit is checked before completeness.              *)
ParseTdu(data) ==
    LET class == data[1][1]
        lengthSize == IF class = Fixed THEN 0 ELSE data[1][2]
        rest == Len(data) - 1
        length == IF class = Fixed
                  THEN IF data[1][2] = 0 THEN 0 ELSE 2^(data[1][2] - 1)
                  ELSE Number(SubSeq(data, 2, 1 + lengthSize))
    IN  IF NotEnough(rest, lengthSize) > 0 THEN Missing(NotEnough(rest, lengthSize))
        ELSE IF class # Fixed /\ MaximumPayload > 0 /\ length > MaximumPayload THEN Refused
        ELSE IF NotEnough(rest - lengthSize, length) > 0
             THEN Missing(NotEnough(rest - lengthSize, length))
        ELSE Parsed(1 + lengthSize + length)

(* EpAuthPacket.parse and EpPacket.parse.                                  *)
ParsePacket(data, isAuth) ==
    LET idSize == IF HasId(data[1][1], isAuth) THEN IdSize ELSE 0
        rest == Len(data) - 1
        tdu == ParseTdu(SubSeq(data, 2 + idSize, Len(data)))
    IN  IF NotEnough(rest, idSize) > 0 THEN Missing(NotEnough(rest, idSize))
        ELSE IF data[1][2] = 0 THEN Parsed(1 + idSize)
        ELSE IF NotEnough(rest - idSize, 1) > 0 THEN Missing(NotEnough(rest - idSize, 1))
        ELSE IF tdu.kind = "parsed" THEN Parsed(1 + idSize + tdu.n)
        ELSE tdu

(* A record of an encrypted transport.                                     *)
ParseRecord(data) ==
    LET protectedLength == Number(SubSeq(data, 1, HeaderSize))
        total == HeaderSize + protectedLength
    IN  IF Len(data) < HeaderSize THEN Missing(HeaderSize - Len(data))
        ELSE IF MaximumRecord > 0 /\ protectedLength > MaximumRecord THEN Refused
        ELSE IF Len(data) < total THEN Missing(total - Len(data))
        ELSE Parsed(total)

-----------------------------------------------------------------------------
FramingInit ==
    /\ stream \in ByteStream
    /\ arrived = 0 /\ buffer = <<>> /\ needed = 0 /\ msg = <<>>
    /\ receiving = FALSE /\ open = TRUE /\ dispatched = <<>>

(* The last of the authentication packets establishes the session.         *)
Authenticated == Len(dispatched) >= stream.auth

Readable(data) == data # <<>> /\ Len(data) >= needed

Write(data) == buffer' = buffer \o data

(* A chunk arrives: TcpSocket's "data" handler.  A socket in memory may    *)
(* call it while a packet is being handled.  (Bound: none once the socket  *)
(* is closed and the drain has ended, when it is never read.)              *)
Arrive(n) ==
    /\ open \/ receiving
    /\ arrived + n <= Len(Written)
    /\ arrived' = arrived + n
    /\ Write(SubSeq(Written, arrived + 1, arrived + n))
    /\ receiving' = (receiving \/ (open /\ Readable(buffer')))
    /\ UNCHANGED <<stream, needed, msg, open, dispatched>>

(* The head of the drain loop, and its end.                                *)
Read ==
    /\ receiving /\ msg = <<>> /\ Readable(buffer)
    /\ msg' = buffer /\ buffer' = <<>> /\ needed' = 0
    /\ UNCHANGED <<stream, arrived, receiving, open, dispatched>>

Drained ==
    /\ receiving /\ msg = <<>> /\ ~Readable(buffer)
    /\ receiving' = FALSE
    /\ UNCHANGED <<stream, arrived, buffer, needed, msg, open, dispatched>>

(* NetworkBuffer.holdFor: the tail goes back in front of what has arrived  *)
(* since, to be read once the missing bytes are there.                     *)
HoldFor_Behind(k) ==
    /\ buffer' = buffer \o msg /\ needed' = Len(msg) + k /\ msg' = <<>>
    /\ UNCHANGED <<stream, arrived, receiving, open, dispatched>>
HoldFor(k) ==
    /\ buffer' = msg \o buffer /\ needed' = Len(msg) + k /\ msg' = <<>>
    /\ UNCHANGED <<stream, arrived, receiving, open, dispatched>>

Dispatch(packet, size) ==
    /\ dispatched' = Append(dispatched, packet)
    /\ msg' = SubSeq(msg, size + 1, Len(msg))
    /\ UNCHANGED <<stream, arrived, buffer, needed, receiving, open>>

(* ParserLimitException leaves dataReceived and its loop, and              *)
(* EpConnection.networkReceive closes the connection.                      *)
Refuse ==
    /\ open' = FALSE /\ receiving' = FALSE /\ msg' = <<>>
    /\ UNCHANGED <<stream, arrived, buffer, needed, dispatched>>

(* A record over the limit closes the connection and ends dataReceived,    *)
(* not the loop that called it: what arrived meanwhile is still read.      *)
RefuseRecord ==
    /\ open' = FALSE /\ msg' = <<>>
    /\ UNCHANGED <<stream, arrived, buffer, needed, receiving, dispatched>>

(* One turn of the loop of dataReceived, of a plain transport ...          *)
ParseNext ==
    LET next == ParsePacket(msg, ~Authenticated)
    IN  /\ receiving /\ msg # <<>> /\ ~stream.sealed
        /\ \/ next.kind = "missing" /\ HoldFor(next.n)
           \/ next.kind = "refused" /\ Refuse
           \/ next.kind = "parsed" /\ Dispatch(SubSeq(msg, 1, next.n), next.n)

(* ... and of an encrypted one.  A record is sealed with its number, so it *)
(* opens only in its turn; a record that does not open closes the          *)
(* connection too.  It holds one packet: send() seals each by itself.      *)
Opens(record) == \E i \in DOMAIN stream.frames :
                    i = Len(dispatched) + 1 /\ record = stream.frames[i]
OpenRecord(record) ==
    LET packet == Plaintext(record)
        next == ParsePacket(packet, ~Authenticated)
    IN  \/ next.kind = "refused" /\ Refuse
        \/ next.kind = "parsed" /\ Dispatch(SubSeq(packet, 1, next.n), Len(record))
ParseNextRecord ==
    LET next == ParseRecord(msg)
        record == SubSeq(msg, 1, next.n)
    IN  /\ receiving /\ msg # <<>> /\ stream.sealed
        /\ \/ next.kind = "missing" /\ HoldFor(next.n)
           \/ next.kind = "refused" /\ RefuseRecord
           \/ next.kind = "parsed" /\ Opens(record) /\ OpenRecord(record)
           \/ next.kind = "parsed" /\ ~Opens(record) /\ RefuseRecord

(* The application, a handler or the peer closes the connection.           *)
CloseConnection ==
    /\ open /\ open' = FALSE
    /\ UNCHANGED <<stream, arrived, buffer, needed, msg, receiving, dispatched>>

FramingNext ==
    \/ \E n \in 1..(Len(Written) - arrived) : Arrive(n)
    \/ Read
    \/ Drained
    \/ ParseNext
    \/ ParseNextRecord
    \/ CloseConnection

FramingSpec == FramingInit /\ [][FramingNext]_framingVars

-----------------------------------------------------------------------------
(* However the bytes were cut into chunks, the handlers get the packets    *)
(* the peer composed, whole, once and in order (a packet still being       *)
(* received when the connection is closed may be lost), and while the      *)
(* connection is open no byte of the rest is lost, duplicated or moved: a  *)
(* tail pushed back after newer bytes arrived is still read before them    *)
(* (NetworkBuffer.holdFor, EpConnection.dataReceived).                     *)
FramesIntact ==
    /\ IsPrefix(dispatched, stream.packets)
    /\ open => Bytes[Len(dispatched)] \o msg \o buffer = SubSeq(Written, 1, arrived)

(* No packet that has arrived is left in the buffer for bytes it does not  *)
(* need: when the drain has ended and the connection is open, the next     *)
(* packet is not complete, or there is none (notEnough, PlainTdu.invalid,  *)
(* NetworkBuffer.protected_, the loop of NetworkConnection.networkReceive).*)
NothingHeldBack ==
    open /\ ~receiving /\ Len(dispatched) < Len(stream.frames) =>
        arrived < Len(Bytes[Len(dispatched) + 1])
=============================================================================
