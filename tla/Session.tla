------------------------------- MODULE Session -------------------------------
(***************************************************************************)
(* The session of a connection: the authentication handshake between the   *)
(* initiator and the responder (EpConnection.ts), the derivation of the    *)
(* session cipher, the change to encrypted records on both sides, and the  *)
(* requests that follow; over TCP, which may break, after which the        *)
(* initiator opens a new connection with the same object.                  *)
(*                                                                         *)
(* The authentication protocol is PasswordAuthentication, the cipher that  *)
(* of AesEncryptionProvider.ts.  createCipher is asynchronous.  That of    *)
(* AesEncryptionProvider awaits no more than the import of a module the    *)
(* runtime holds: it settles before the next chunk of the stream, but not  *)
(* before the next packet of the same chunk, which dataReceived parses in  *)
(* the same synchronous loop.  Coalescing says whether a chunk may go on   *)
(* after the packet that completes the handshake.  (A provider that takes  *)
(* longer than AesEncryptionProvider is left out.)                         *)
(*                                                                         *)
(* Abstraction.  A packet arrives whole.  Keys are derived without         *)
(* collision: a key is the secret, the salt and the label it was derived   *)
(* from.  The parser limits the headers advertise are left out.            *)
(***************************************************************************)
EXTENDS PasswordAuthentication, FiniteSets

CONSTANTS
    Coalescing,     \* packets that wait for a side may reach it in one chunk
    MaxSession,     \* bound: connections opened
    MaxRequest,     \* bound: requests of a side in one session
    MaxDrop         \* bound: breaks of the network

ASSUME SessionAssumption ==
    Coalescing \in BOOLEAN /\ MaxSession \in Nat \ {0} /\ MaxRequest \in Nat /\ MaxDrop \in Nat

VARIABLES
    setup,          \* the configuration of the two peers
    session,        \* connections opened so far
    conn,           \* the EpConnection of each side
    wire,           \* packets on their way to each side
    drops,
    misread         \* history: why a record was first misread, if one was

vars == <<setup, session, conn, wire, drops, misread>>

-----------------------------------------------------------------------------
Side == {"initiator", "responder"}
Peer(s) == IF s = "initiator" THEN "responder" ELSE "initiator"
AuthMode == {"None", "InitializerIdentity", "ResponderIdentity", "DualIdentity"}
EncMode == {"None", "SessionKey", "SessionKeyAndAddress"}

(* What may be wrong with a configuration.                                 *)
Fault == {"none", "initiatorPassword", "initiatorUnknown", "responderPassword",
          "responderUnknown", "initiatorCipher", "responderCipher", "provider"}
Setup == [authMode : AuthMode, encMode : EncMode, allowUnauthorized : BOOLEAN,
          fault : Fault]

Own(s) == IF s = "initiator" THEN <<"alice">> ELSE <<"server">>
PasswordFault(s) == IF s = "initiator" THEN "initiatorPassword" ELSE "responderPassword"
UnknownFault(s) == IF s = "initiator" THEN "initiatorUnknown" ELSE "responderUnknown"
CipherFault(s) == IF s = "initiator" THEN "initiatorCipher" ELSE "responderCipher"

(* The application's provider: its own credential, the accounts it hosts.  *)
Provider(s) ==
    [identity |-> Own(s),
     password |-> IF setup.fault = PasswordFault(s) THEN Password(<<"wrong">>)
                  ELSE Password(Own(s)),
     hosted |-> IF setup.fault = UnknownFault(Peer(s)) THEN {} ELSE {Own(Peer(s))}]
Ciphers(s) == IF setup.fault = CipherFault(s) THEN {} ELSE {"aes-gcm"}

Nonce(s, use) == <<use, s, session'>>

(* Headers: the ones the session depends on.                               *)
NoHeaders == [ciphers |-> {}, cipher |-> "none", nonce |-> Nil, protocol |-> FALSE]
Packet(method, headers, data) ==
    [method |-> method, authMode |-> "None", encMode |-> "None", headers |-> headers,
     data |-> data, seal |-> Nil, sequence |-> 0]
Plain(method, data) == Packet(method, NoHeaders, data)
Fin == Plain("fin", Nil)    \* the end of the TCP stream

(* A connection object as the constructor leaves it.                       *)
NewConnection ==
    [open |-> FALSE, authenticated |-> TRUE, authSessionEstablished |-> TRUE,
     readyReply |-> "none", deadline |-> FALSE, authMode |-> "None", encMode |-> "None",
     handler |-> Nil, localHeaders |-> NoHeaders, remoteHeaders |-> NoHeaders,
     provider |-> "none", localIdentity |-> Nil, remoteIdentity |-> Nil,
     sessionKey |-> Nil, deriving |-> <<>>, cipher |-> Nil, cipherSession |-> 0,
     encryptionActive |-> FALSE, sendSequence |-> 0, receiveSequence |-> 0,
     sent |-> 0, ever |-> FALSE]

-----------------------------------------------------------------------------
(* A handler turns a connection into a step: the connection afterwards and *)
(* the packets it sends, in order.                                         *)

Step(c, out) == [c |-> c, out |-> out]

(* The session cipher: the key of the session, and a salt that binds it to *)
(* all that was negotiated; from them the keys of the two directions.      *)
ContextSalt(x) == <<x.authMode, x.mode, x.offered, x.cipher, x.initiatorNonce, x.responderNonce>>
NewCipher(x) == [key |-> x.key, salt |-> ContextSalt(x)]
Label(s) == <<s, "to", Peer(s)>>
SendKey(s, c) == <<c.cipher, Label(s)>>
ReceiveKey(s, c) == <<c.cipher, Label(Peer(s))>>

(* send(): sealed in a record once encryption is active.                   *)
Sealed(s, c, p) ==
    IF c.encryptionActive /\ c.cipher # Nil
    THEN [p EXCEPT !.seal = SendKey(s, c), !.sequence = c.sendSequence]
    ELSE p
Send(s, c, p) ==
    Step(IF c.encryptionActive /\ c.cipher # Nil
         THEN [c EXCEPT !.sendSequence = @ + 1] ELSE c,
         <<Sealed(s, c, p)>>)

(* close(), with what disconnected() then does.                            *)
Closed(c) ==
    [c EXCEPT !.open = FALSE, !.deadline = FALSE,
              !.readyReply = IF @ = "pending" THEN "failed" ELSE @]
Close(step) == Step(Closed(step.c), step.out \o <<Fin>>)

(* failAuthentication().                                                   *)
FailAuthentication(s, c, suppressSend) ==
    Close(IF suppressSend THEN Step(c, <<>>) ELSE Send(s, c, Plain("ErrorTerminate", Nil)))

(* finishAuthenticationReady().                                            *)
FinishAuthenticationReady(c) ==
    [c EXCEPT !.deadline = FALSE, !.authenticated = TRUE, !.ever = TRUE,
              !.readyReply = IF @ = "pending" THEN "ok" ELSE @]

StoreAuthenticationResult(c, local, remote, key) ==
    [c EXCEPT !.authSessionEstablished = TRUE, !.localIdentity = local,
              !.remoteIdentity = remote, !.sessionKey = key]

(* prepareSessionEncryption() up to its await: what createCipher is given, *)
(* and whether validateContext will accept it.                             *)
EncryptionContext_MineFirst(s, c) ==
    [key |-> c.sessionKey, mode |-> c.encMode, authMode |-> c.authMode,
     cipher |-> IF s = "initiator" THEN c.remoteHeaders.cipher ELSE c.localHeaders.cipher,
     offered |-> IF s = "initiator" THEN c.localHeaders.ciphers
                 ELSE c.remoteHeaders.ciphers,
     initiatorNonce |-> c.localHeaders.nonce, responderNonce |-> c.remoteHeaders.nonce]
EncryptionContext(s, c) ==
    LET mine == c.localHeaders
        theirs == c.remoteHeaders
    IN  [key |-> c.sessionKey, mode |-> c.encMode, authMode |-> c.authMode,
         cipher |-> IF s = "initiator" THEN theirs.cipher ELSE mine.cipher,
         offered |-> IF s = "initiator" THEN mine.ciphers ELSE theirs.ciphers,
         initiatorNonce |-> IF s = "initiator" THEN mine.nonce ELSE theirs.nonce,
         responderNonce |-> IF s = "initiator" THEN theirs.nonce ELSE mine.nonce]
ValidContext(x) ==
    /\ x.key # Nil /\ x.initiatorNonce # Nil /\ x.responderNonce # Nil
    /\ x.mode = "SessionKey"        \* no address is ever put in the context
    /\ x.cipher \in x.offered
    /\ x.authMode # "None"

CompleteAuthentication_OwnChoice(s, c) ==
    LET e == [c EXCEPT !.authSessionEstablished = TRUE]
    IN  IF c.localHeaders.cipher = "none" THEN FinishAuthenticationReady(e)
        ELSE [e EXCEPT !.deriving = Append(@, EncryptionContext(s, e))]
CompleteAuthentication(s, c) ==
    LET e == [c EXCEPT !.authSessionEstablished = TRUE]
    IN  IF c.encMode = "None" THEN FinishAuthenticationReady(e)
        ELSE [e EXCEPT !.deriving = Append(@, EncryptionContext(s, e))]

-----------------------------------------------------------------------------
(* The handshake, initiator first.                                         *)

PrepareEncryptionOffer(c, h) ==
    IF c.encMode = "None" THEN h
    ELSE [h EXCEPT !.ciphers = Ciphers("initiator"),
                   !.nonce = Nonce("initiator", "cipherNonce")]

InitiatorAuthenticationHandler(c) ==
    NewHandler(c.localIdentity, Nil, Nonce("initiator", "authNonce"))

(* connected() and declare(): what the initiator sends first.              *)
Declare(c) ==
    LET encrypts == c.encMode # "None"
        h == PrepareEncryptionOffer(c, [NoHeaders EXCEPT !.protocol = (c.authMode # "None")])
        first == Process(c.authMode, "initiator", InitiatorAuthenticationHandler(c),
                         Nil, Provider("initiator"))
        d == [c EXCEPT !.localHeaders = h,
                       !.handler = IF c.authMode = "None" THEN Nil ELSE first.handler]
    IN  IF \/ encrypts /\ (c.authMode = "None" \/ Ciphers("initiator") = {})
           \/ c.authMode # "None" /\ first.ruling = "Failed"
        THEN FailAuthentication("initiator", c, FALSE)
        ELSE Send("initiator", d,
                  [Packet("Initialize", h, IF c.authMode = "None" THEN Nil ELSE first.data)
                     EXCEPT !.authMode = c.authMode, !.encMode = c.encMode])

RejectEncryption(s, c) == Close(Send(s, c, Plain("ErrorMustEncrypt", Nil)))

(* negotiateEncryptionAsResponder(): the connection, if it accepts.        *)
Negotiable(s, p) ==
    \/ p.encMode = "None"
    \/ /\ p.authMode # "None"
       /\ p.headers.ciphers \cap Ciphers(s) # {}
       /\ p.headers.nonce # Nil
Negotiate(s, c, p) ==
    LET selected == CHOOSE x \in p.headers.ciphers : x \in Ciphers(s)
    IN  IF p.encMode = "None" THEN [c EXCEPT !.encMode = "None"]
        ELSE [c EXCEPT !.encMode = p.encMode, !.provider = selected,
                       !.localHeaders = [NoHeaders EXCEPT
                            !.ciphers = Ciphers(s), !.cipher = selected,
                            !.nonce = <<"cipherNonce", s, session>>]]

(* handleAuthInitialize().                                                 *)
HandleAuthInitialize(s, c0, p) ==
    LET c == [c0 EXCEPT !.remoteHeaders = p.headers]
        n == Negotiate(s, c, p)
        handler == NewHandler(Nil, Nil, <<"authNonce", s, session>>)
        result == Process(p.authMode, s, handler, p.data, Provider(s))
        d == [n EXCEPT !.authMode = p.authMode, !.handler = result.handler]
    IN  IF ~Negotiable(s, p) THEN RejectEncryption(s, [c EXCEPT !.encMode = p.encMode])
        ELSE IF p.authMode = "None" THEN
            IF ~setup.allowUnauthorized THEN FailAuthentication(s, n, FALSE)
            ELSE LET step == Send(s, n, Packet("SessionEstablished", n.localHeaders, Nil))
                 IN  Step(CompleteAuthentication(s,
                            StoreAuthenticationResult([step.c EXCEPT !.authMode = "None"],
                                                      Nil, Nil, Nil)),
                          step.out)
        ELSE IF setup.fault = "provider" \/ ~p.headers.protocol
        THEN Close(Send(s, n, Packet("NotSupported", n.localHeaders, Nil)))
        ELSE CASE result.ruling = "Failed" ->
                    Close(Send(s, d, Packet("Denied", d.localHeaders, Nil)))
               [] result.ruling = "InProgress" ->
                    Send(s, d, Packet("ProceedToHandshake", d.localHeaders, result.data))
               [] OTHER ->
                    LET step == Send(s, d, Packet("SessionEstablished", d.localHeaders,
                                                  result.data))
                    IN  Step(CompleteAuthentication(s,
                                StoreAuthenticationResult(step.c, result.local,
                                                          result.remote, result.key)),
                             step.out)

(* acceptEncryptionAsInitiator().                                          *)
Acceptable(s, c, h) ==
    IF c.encMode = "None" THEN h.cipher = "none"
    ELSE h.cipher \in c.localHeaders.ciphers /\ h.nonce # Nil /\ h.cipher \in Ciphers(s)

(* handleAuthAcknowledge().                                                *)
HandleAuthAcknowledge(s, c, p) ==
    LET d == [c EXCEPT !.remoteHeaders = p.headers]
        result == Process(c.authMode, s, c.handler, p.data, Provider(s))
        e == [d EXCEPT !.handler = result.handler]
        stored == StoreAuthenticationResult(e, result.local, result.remote, result.key)
    IN  IF c.authMode = "None" THEN
            IF p.method = "SessionEstablished"
            THEN Step(CompleteAuthentication(s,
                        StoreAuthenticationResult(d, Nil, Nil, Nil)), <<>>)
            ELSE FailAuthentication(s, c, TRUE)
        ELSE IF p.method \in {"Denied", "NotSupported"} THEN FailAuthentication(s, c, TRUE)
        ELSE IF ~Acceptable(s, d, p.headers) THEN RejectEncryption(s, d)
        ELSE IF c.handler = Nil THEN FailAuthentication(s, d, FALSE)
        ELSE CASE result.ruling = "Failed" -> FailAuthentication(s, e, FALSE)
               [] result.ruling = "InProgress" ->
                    IF p.method = "ProceedToHandshake"
                    THEN Send(s, e, Plain("Handshake", result.data))
                    ELSE FailAuthentication(s, e, FALSE)
               [] OTHER ->
                    IF p.method = "SessionEstablished"
                    THEN Step(CompleteAuthentication(s, stored), <<>>)
                    ELSE Send(s, stored, Plain("FinalHandshake", result.data))

(* The last plaintext packet leaves before the cipher is derived.          *)
Establish_Sealed(s, c) ==
    LET d == CompleteAuthentication(s, c)
    IN  IF d.deriving = <<>> THEN Step(d, <<Plain("Established", Nil)>>)
        ELSE Send(s, [d EXCEPT !.encryptionActive = TRUE, !.cipher = NewCipher(d.deriving[1]),
                               !.cipherSession = session],
                  Plain("Established", Nil))
Establish_Silent(s, c) == Step(CompleteAuthentication(s, c), <<>>)
Establish(s, c) ==
    LET step == Send(s, c, Plain("Established", Nil))
    IN  Step(CompleteAuthentication(s, step.c), step.out)

(* handleAuthAction(), of either side.                                     *)
HandleAuthAction(s, c, p) ==
    LET result == Process(c.authMode, s, c.handler, p.data, Provider(s))
        e == [c EXCEPT !.handler = result.handler]
        stored == StoreAuthenticationResult(e, result.local, result.remote, result.key)
        reply == IF result.data = Nil THEN Step(stored, <<>>)
                 ELSE Send(s, stored, Plain("FinalHandshake", result.data))
        final == Establish(s, reply.c)
    IN  IF c.handler = Nil THEN FailAuthentication(s, c, FALSE)
        ELSE CASE result.ruling = "Failed" -> FailAuthentication(s, e, FALSE)
               [] result.ruling = "InProgress" ->
                    Send(s, e, Plain("Handshake", result.data))
               [] OTHER ->
                    IF p.method = "FinalHandshake" \/ result.data = Nil
                    THEN Step(final.c, reply.out \o final.out)
                    ELSE reply

(* handleAuthEvent().                                                      *)
HandleAuthEvent(s, c, p) ==
    IF p.method # "Established" THEN FailAuthentication(s, c, TRUE)
    ELSE IF c.authSessionEstablished THEN Step(CompleteAuthentication(s, c), <<>>)
    ELSE FailAuthentication(s, c, FALSE)

(* handleAuthPacket().                                                     *)
HandleAuthPacket(s, c, p) ==
    CASE p.method = "Initialize" -> HandleAuthInitialize(s, c, p)
      [] p.method \in {"ProceedToHandshake", "SessionEstablished", "Denied",
                       "NotSupported"} -> HandleAuthAcknowledge(s, c, p)
      [] p.method \in {"Handshake", "FinalHandshake"} -> HandleAuthAction(s, c, p)
      [] OTHER -> HandleAuthEvent(s, c, p)

-----------------------------------------------------------------------------
(* Receiving.                                                              *)

(* decrypt(): a record of the peer's cipher, in sequence.                  *)
Opens(s, c, p) ==
    /\ p.seal = ReceiveKey(s, c)
    /\ p.sequence = c.receiveSequence

(* dataReceived() on a record while it does not decrypt: the length starts *)
(* with a zero byte, which reads as Initialize without authentication.     *)
Misread(s, c) ==
    IF c.authenticated THEN Step(c, <<>>)
    ELSE HandleAuthInitialize(s, c, Plain("Initialize", Nil))

(* Why a record is misread: the sender seals with the cipher of an earlier *)
(* session, or this session's cipher is not the receiver's yet.            *)
Reason(s) ==
    IF misread # "no" THEN misread
    ELSE IF conn[Peer(s)].cipherSession < session THEN "stale"
    ELSE "early"

(* createCipher settles at once: a side does nothing before it has, but    *)
(* handle the packets of the chunk it is in, those on the wire by now (the *)
(* other side waits, so that no more come to be on the wire).              *)
Idle(s) == conn[s].deriving = <<>>
Free(s) == Idle(s) /\ (Coalescing => Idle(Peer(s)))
InChunk(s) == Coalescing /\ ~Idle(s)

Deliver(s, step) ==
    /\ conn' = [conn EXCEPT ![s] = step.c]
    /\ wire' = [wire EXCEPT ![s] = Tail(@), ![Peer(s)] = @ \o step.out]

Receive(s) ==
    LET c == conn[s]
        p == Head(wire[s])
        opened == [c EXCEPT !.receiveSequence = @ + 1]
    IN  /\ c.open /\ (Free(s) \/ InChunk(s)) /\ wire[s] # <<>>
        /\ UNCHANGED <<setup, session, drops>>
        /\ CASE p.method = "fin" ->
                  Deliver(s, Step(Closed(c), <<>>)) /\ UNCHANGED misread
             [] p.method # "fin" /\ c.encryptionActive /\ ~Opens(s, c, p) ->
                  \* a plaintext packet reads as a record that is far too long
                  /\ Deliver(s, Close(Step(c, <<>>)))
                  /\ misread' = Reason(s)
             [] p.method # "fin" /\ ~c.encryptionActive /\ p.seal # Nil ->
                  /\ Deliver(s, Misread(s, c))
                  /\ misread' = Reason(s)
             [] OTHER ->
                  LET d == IF p.seal = Nil THEN c ELSE opened
                  IN  /\ IF ~c.authenticated
                         THEN Deliver(s, HandleAuthPacket(s, d, p))
                         ELSE Deliver(s, Step(d, <<>>))
                      /\ UNCHANGED misread

(* createCipher() has settled: the rest of completeAuthentication().       *)
Derive(s) ==
    LET c == conn[s]
        x == Head(c.deriving)
        d == [c EXCEPT !.deriving = Tail(@)]
        cipher == IF c.cipher # Nil THEN c.cipher ELSE NewCipher(x)
        failing == FailAuthentication(s, d, FALSE)
    IN  /\ c.deriving # <<>>
        /\ IF c.cipher = Nil /\ ~ValidContext(x)
           THEN /\ conn' = [conn EXCEPT ![s] = failing.c]
                /\ wire' = IF c.open THEN [wire EXCEPT ![Peer(s)] = @ \o failing.out]
                           ELSE wire
           ELSE /\ conn' = [conn EXCEPT ![s] =
                      FinishAuthenticationReady(
                          [d EXCEPT !.cipher = cipher, !.encryptionActive = TRUE,
                                    !.cipherSession = IF c.cipher = Nil THEN session ELSE @])]
                /\ UNCHANGED wire
        /\ UNCHANGED <<setup, session, drops, misread>>

-----------------------------------------------------------------------------
(* The life of a connection.                                               *)

(* openClientSocket() and startInitiatorHandshake(): the cipher and the    *)
(* encryption flags stay as they are.                                      *)
StartInitiatorHandshake(c) ==
    [c EXCEPT !.open = TRUE, !.authenticated = FALSE, !.authSessionEstablished = FALSE,
              !.readyReply = "pending", !.deadline = TRUE, !.handler = Nil,
              !.localHeaders = NoHeaders, !.remoteHeaders = NoHeaders,
              !.authMode = setup.authMode, !.encMode = setup.encMode, !.sent = 0]
StartResponderHandshake ==
    [NewConnection EXCEPT !.open = TRUE, !.authenticated = FALSE,
                          !.authSessionEstablished = FALSE, !.deadline = TRUE]

Connect ==
    /\ session < MaxSession
    /\ ~conn["initiator"].open /\ Free("initiator")
    /\ session = 0 \/ conn["initiator"].ever
    /\ session' = session + 1
    /\ LET step == Declare(StartInitiatorHandshake(conn["initiator"]))
       IN  /\ conn' = [initiator |-> step.c, responder |-> StartResponderHandshake]
           /\ wire' = [initiator |-> <<>>, responder |-> step.out]
    /\ UNCHANGED <<setup, drops, misread>>

(* A request of the application, once it has the connection.               *)
Request(s) ==
    LET c == [conn[s] EXCEPT !.sent = @ + 1]
        step == Send(s, c, Plain("request", c.sent))
    IN  /\ conn[s].open /\ Free(s) /\ conn[s].authenticated /\ conn[s].sent < MaxRequest
        /\ conn' = [conn EXCEPT ![s] = step.c]
        /\ wire' = [wire EXCEPT ![Peer(s)] = @ \o step.out]
        /\ UNCHANGED <<setup, session, drops, misread>>

(* The authentication deadline.                                            *)
Timeout(s) ==
    LET step == FailAuthentication(s, conn[s], TRUE)
    IN  /\ conn[s].open /\ Free(s) /\ conn[s].deadline
        /\ conn' = [conn EXCEPT ![s] = step.c]
        /\ wire' = [wire EXCEPT ![Peer(s)] = @ \o step.out]
        /\ UNCHANGED <<setup, session, drops, misread>>

(* close() of the application.                                             *)
CloseConnection(s) ==
    LET step == Close(Step(conn[s], <<>>))
    IN  /\ conn[s].open /\ Free(s) /\ conn[s].authenticated
        /\ conn' = [conn EXCEPT ![s] = step.c]
        /\ wire' = [wire EXCEPT ![Peer(s)] = @ \o step.out]
        /\ UNCHANGED <<setup, session, drops, misread>>

(* The network breaks: both sides see their socket close.                  *)
Drop ==
    /\ drops < MaxDrop
    /\ \E s \in Side : conn[s].open
    /\ \A s \in Side : Idle(s)
    /\ drops' = drops + 1
    /\ conn' = [s \in Side |-> IF conn[s].open THEN Closed(conn[s]) ELSE conn[s]]
    /\ wire' = [s \in Side |-> <<>>]
    /\ UNCHANGED <<setup, session, misread>>

Init ==
    /\ setup \in Setup
    /\ session = 0
    /\ conn = [s \in Side |->
                IF s = "initiator" THEN [NewConnection EXCEPT !.localIdentity = Own(s)]
                ELSE NewConnection]
    /\ wire = [s \in Side |-> <<>>]
    /\ drops = 0
    /\ misread = "no"

Next ==
    \/ Connect
    \/ \E s \in Side : Receive(s) \/ Derive(s) \/ Request(s) \/ Timeout(s) \/ CloseConnection(s)
    \/ Drop

Spec == Init /\ [][Next]_vars
(* Packets arrive and createCipher settles; nobody has to connect, and no  *)
(* deadline has to pass (authenticationTimeoutMs may be 0).                *)
Fairness == \A s \in Side : WF_vars(Receive(s)) /\ WF_vars(Derive(s))
FairSpec == Spec /\ Fairness

-----------------------------------------------------------------------------
(* Two sides that have finished a handshake hold the same session key, and *)
(* two ciphers of one session were derived from the same context: what one *)
(* seals the other opens (PasswordAuthenticationHandler.ts,                *)
(* prepareSessionEncryption).                                              *)
KeysAgree ==
    LET i == conn["initiator"]
        r == conn["responder"]
    IN  /\ (/\ i.open /\ r.open /\ i.authSessionEstablished /\ r.authSessionEstablished
            /\ i.sessionKey # Nil /\ r.sessionKey # Nil) => i.sessionKey = r.sessionKey
        /\ (i.cipherSession = session /\ r.cipherSession = session /\ session > 0)
                => i.cipher = r.cipher

(* Whoever is authenticated in a mode that asks a peer to prove itself has *)
(* had it proved: the peer has the right password and its account is known *)
(* (handleAuthAcknowledge, handleAuthAction, handleAuthEvent).             *)
Proved(s) == setup.fault \notin {PasswordFault(s), UnknownFault(s), "provider"}
NobodyUnproved ==
    \A s \in Side :
        (conn[s].open /\ conn[s].authenticated) =>
            CASE conn[s].authMode = "None" -> TRUE
              [] conn[s].authMode = "InitializerIdentity" -> Proved("initiator")
              [] conn[s].authMode = "ResponderIdentity" -> Proved("responder")
              [] OTHER -> Proved("initiator") /\ Proved("responder")

(* A connection set to encrypt puts no request on the wire in the clear,   *)
(* unless it took a record for an authentication packet before             *)
(* (completeAuthentication, send).                                         *)
NothingInTheClear ==
    (setup.encMode # "None" /\ misread = "no") =>
        \A k \in 1 .. Len(wire["responder"]) :
            wire["responder"][k].method = "request" => wire["responder"][k].seal # Nil

(* No record of a session reaches a side that does not decrypt yet, and    *)
(* none is refused: both sides change to records at the same place of the  *)
(* stream, as the comments of completeAuthentication and dataReceived say. *)
(* The records of an object that still holds the cipher of an earlier      *)
(* session are another matter (dataReceived, enableEncryption).            *)
RecordsAreRead == misread # "early"

(* Without any deadline, a handshake settles: whenReady() resolves or      *)
(* fails (startInitiatorHandshake).                                        *)
HandshakeSettles ==
    conn["initiator"].readyReply = "pending" ~> conn["initiator"].readyReply # "pending"
=============================================================================
