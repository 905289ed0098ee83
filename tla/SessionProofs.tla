--------------------------- MODULE SessionProofs ----------------------------
(***************************************************************************)
(* Proofs about module Session, for any number of sessions and, but for    *)
(* the records at the end, either value of Coalescing. The argument is the *)
(* transcript: what process() answers at each end of a session is a        *)
(* function of the setup, the session and the identity the initiator       *)
(* opened with, and the invariant says that every packet of a handshake on *)
(* the wire and every state of a side is where that transcript says. The   *)
(* records come in order behind the last packet of it that a side sends in *)
(* the clear.                                                              *)
(***************************************************************************)
EXTENDS Session, TLAPS

-----------------------------------------------------------------------------
(***************************************************************************)
(* What the helpers of the handlers do to a connection: they leave alone   *)
(* what the handshake depends on, or close it, and send nothing that takes *)
(* part in a handshake.                                                    *)
(***************************************************************************)

Fields == {"open", "authenticated", "authSessionEstablished", "readyReply", "deadline",
           "authMode", "encMode", "handler", "localHeaders", "remoteHeaders", "provider",
           "localIdentity", "remoteIdentity", "sessionKey", "deriving", "cipher",
           "cipherSession", "encryptionActive", "sendSequence", "receiveSequence",
           "sent", "ever"}

(* What the handshake depends on is the same in two connections.           *)
Alike(c, d) ==
    /\ DOMAIN d = Fields
    /\ d.open = c.open /\ d.authenticated = c.authenticated
    /\ d.authSessionEstablished = c.authSessionEstablished
    /\ d.authMode = c.authMode /\ d.encMode = c.encMode /\ d.handler = c.handler
    /\ d.localHeaders = c.localHeaders /\ d.remoteHeaders = c.remoteHeaders
    /\ d.localIdentity = c.localIdentity /\ d.sessionKey = c.sessionKey
    /\ d.deriving = c.deriving /\ d.cipher = c.cipher
    /\ d.cipherSession = c.cipherSession /\ d.encryptionActive = c.encryptionActive

(* The connection has closed.                                              *)
Shut(c, d) ==
    /\ DOMAIN d = Fields
    /\ ~d.open
    /\ d.localIdentity = c.localIdentity /\ d.sessionKey = c.sessionKey
    /\ d.deriving \in {c.deriving, <<>>} /\ d.cipher = c.cipher
    /\ d.cipherSession = c.cipherSession /\ d.encryptionActive = c.encryptionActive

(* A record was taken for Initialize without authentication.               *)
Misled(c, d) ==
    /\ DOMAIN d = Fields
    /\ d.open = c.open /\ d.authenticated /\ d.authSessionEstablished
    /\ d.authMode = "None" /\ d.encMode = "None"
    /\ d.localIdentity = Nil /\ d.sessionKey = Nil
    /\ d.deriving = c.deriving /\ d.cipher = c.cipher
    /\ d.cipherSession = c.cipherSession /\ d.encryptionActive = c.encryptionActive

(* Packets that start or go on with a handshake.                           *)
Steps == {"Initialize", "ProceedToHandshake", "SessionEstablished", "Handshake",
          "FinalHandshake", "Established"}
IsStep(p) == p.seal = Nil /\ p.method \in Steps

(* What a side may put on the wire without its being a step.               *)
Incidental(c, out) ==
    /\ \E S : out \in Seq(S)
    /\ \A k \in DOMAIN out :
         /\ out[k].seal # Nil => c.encryptionActive /\ c.cipher # Nil
         /\ ~IsStep(out[k])
         /\ out[k].method # "request"

(* A new connection has the fields named above.                            *)
LEMMA ConnectionsHaveFields == DOMAIN NewConnection = Fields
BY DEF NewConnection, Fields

(* Closing a connection shuts it: nothing of its identity, key or cipher   *)
(* changes.                                                                *)
LEMMA ClosedShuts ==
    ASSUME NEW c, DOMAIN c = Fields
    PROVE  Shut(c, Closed(c))
BY DEF Closed, Shut, Fields

(* Sending one packet puts one packet on the wire, sealed exactly when the *)
(* side's encryption is active, and leaves alone what the handshake        *)
(* depends on.                                                             *)
LEMMA SendIs ==
    ASSUME NEW s, NEW c, DOMAIN c = Fields, NEW m, NEW h, NEW x
    PROVE  LET p == Packet(m, h, x)
               q == Sealed(s, c, p) IN
           /\ Send(s, c, p).out = <<q>>
           /\ Alike(c, Send(s, c, p).c)
           /\ q.method = m /\ q.headers = h /\ q.data = x
           /\ q.seal # Nil <=> (c.encryptionActive /\ c.cipher # Nil)
           /\ ~(c.encryptionActive /\ c.cipher # Nil) => q = p /\ Send(s, c, p).c = c
<1> DEFINE p == Packet(m, h, x)
           q == Sealed(s, c, p)
<1>1. Send(s, c, p).out = <<q>>
  BY DEF Send, Step
<1>2. Alike(c, Send(s, c, p).c)
  BY DEF Send, Step, Alike, Fields
<1>3. q.method = m /\ q.headers = h /\ q.data = x
  BY DEF Sealed, Packet
<1>4. SendKey(s, c) # Nil
  BY DEF SendKey, Nil
<1>5. q.seal # Nil <=> (c.encryptionActive /\ c.cipher # Nil)
  BY <1>4 DEF Sealed, Packet
<1>6. ~(c.encryptionActive /\ c.cipher # Nil) => q = p /\ Send(s, c, p).c = c
  BY DEF Send, Step, Sealed
<1> QED BY <1>1, <1>2, <1>3, <1>5, <1>6

(* Sending a packet that is no step of a handshake is incidental.          *)
LEMMA IncidentalSend ==
    ASSUME NEW s, NEW c, DOMAIN c = Fields, NEW m, NEW h, NEW x, m \notin Steps, m # "request"
    PROVE  Incidental(c, Send(s, c, Packet(m, h, x)).out)
<1> DEFINE q == Sealed(s, c, Packet(m, h, x))
<1>1. /\ Send(s, c, Packet(m, h, x)).out = <<q>>
      /\ q.method = m
      /\ q.seal # Nil <=> (c.encryptionActive /\ c.cipher # Nil)
  BY SendIs
<1> HIDE DEF q
<1>2. <<q>> \in Seq({q}) /\ DOMAIN <<q>> = {1} /\ <<q>>[1] = q
  OBVIOUS
<1>3. ~IsStep(q)
  BY <1>1 DEF IsStep
<1>4. Incidental(c, <<q>>)
  BY <1>1, <1>2, <1>3 DEF Incidental
<1> QED BY <1>1, <1>4

(* What is incidental stays so when more incidental packets follow.        *)
LEMMA IncidentalJoin ==
    ASSUME NEW c, NEW out, NEW out2, Incidental(c, out), Incidental(c, out2)
    PROVE  Incidental(c, out \o out2)
<1>1. PICK S : out \in Seq(S)
  BY DEF Incidental
<1>2. PICK T : out2 \in Seq(T)
  BY DEF Incidental
<1>3. out \in Seq(S \cup T) /\ out2 \in Seq(S \cup T)
  BY <1>1, <1>2
<1>4. out \o out2 \in Seq(S \cup T)
  BY <1>3
<1>5. ASSUME NEW k \in DOMAIN (out \o out2)
      PROVE  \/ k \in DOMAIN out /\ (out \o out2)[k] = out[k]
             \/ k - Len(out) \in DOMAIN out2 /\ (out \o out2)[k] = out2[k - Len(out)]
  BY <1>3
<1> QED BY <1>4, <1>5 DEF Incidental

(* The end of the connection, and nothing at all, are incidental.          *)
LEMMA FinIsIncidental ==
    ASSUME NEW c
    PROVE  Incidental(c, <<Fin>>) /\ Incidental(c, <<>>)
<1>1. Fin.method = "fin" /\ Fin.seal = Nil
  BY DEF Fin, Plain, Packet
<1>2. <<Fin>> \in Seq({Fin}) /\ DOMAIN <<Fin>> = {1} /\ <<Fin>>[1] = Fin
  OBVIOUS
<1>3. <<>> \in Seq({}) /\ DOMAIN <<>> = {}
  OBVIOUS
<1>4. ~IsStep(Fin)
  BY <1>1 DEF IsStep, Steps
<1>5. Incidental(c, <<Fin>>)
  BY <1>1, <1>2, <1>4 DEF Incidental
<1>6. Incidental(c, <<>>)
  BY <1>3 DEF Incidental
<1> QED BY <1>5, <1>6

(* Closing after incidental packets shuts the connection, incidentally.    *)
LEMMA CloseShuts ==
    ASSUME NEW step, DOMAIN step.c = Fields, Incidental(step.c, step.out)
    PROVE  Shut(step.c, Close(step).c) /\ Incidental(step.c, Close(step).out)
<1>1. Close(step).c = Closed(step.c) /\ Close(step).out = step.out \o <<Fin>>
  BY DEF Close, Step
<1> QED BY <1>1, ClosedShuts, IncidentalJoin, FinIsIncidental

(* failAuthentication shuts the connection, whether or not it tells the    *)
(* peer.                                                                   *)
LEMMA FailShuts ==
    ASSUME NEW s, NEW c, DOMAIN c = Fields, NEW b \in BOOLEAN
    PROVE  Shut(c, FailAuthentication(s, c, b).c) /\ Incidental(c, FailAuthentication(s, c, b).out)
<1>1. CASE b
  <2>1. FailAuthentication(s, c, b) = Close(Step(c, <<>>))
    BY <1>1 DEF FailAuthentication
  <2>2. Step(c, <<>>).c = c /\ Step(c, <<>>).out = <<>>
    BY DEF Step
  <2> QED BY <2>1, <2>2, CloseShuts, FinIsIncidental
<1>2. CASE ~b
  <2> DEFINE t == Send(s, c, Packet("ErrorTerminate", NoHeaders, Nil))
  <2>1. FailAuthentication(s, c, b) = Close(t)
    BY <1>2 DEF FailAuthentication, Plain
  <2>2. Alike(c, t.c) /\ Incidental(c, t.out)
    BY SendIs, IncidentalSend DEF Steps
  <2> HIDE DEF t
  <2>3. Incidental(t.c, t.out) /\ DOMAIN t.c = Fields
    BY <2>2 DEF Incidental, Alike
  <2>4. Shut(t.c, Close(t).c) /\ Incidental(t.c, Close(t).out)
    BY <2>3, CloseShuts
  <2> QED BY <2>1, <2>2, <2>4 DEF Shut, Incidental, Alike
<1> QED BY <1>1, <1>2

(* Refusing with a packet that is no step, then closing, shuts the         *)
(* connection.                                                             *)
LEMMA RejectShuts ==
    ASSUME NEW s, NEW c, DOMAIN c = Fields, NEW m, NEW h, NEW x, m \notin Steps, m # "request"
    PROVE  LET t == Close(Send(s, c, Packet(m, h, x)))
           IN  Shut(c, t.c) /\ Incidental(c, t.out)
<1> DEFINE t == Send(s, c, Packet(m, h, x))
<1>2. Alike(c, t.c) /\ Incidental(c, t.out)
  BY SendIs, IncidentalSend
<1> HIDE DEF t
<1>3. Incidental(t.c, t.out) /\ DOMAIN t.c = Fields
  BY <1>2 DEF Incidental, Alike
<1>4. Shut(t.c, Close(t).c) /\ Incidental(t.c, Close(t).out)
  BY <1>3, CloseShuts
<1>5. Shut(c, Close(t).c) /\ Incidental(c, Close(t).out)
  BY <1>2, <1>4 DEF Shut, Incidental, Alike
<1> QED BY <1>5 DEF t

(* storeAuthenticationResult sets the identity and the key of a session    *)
(* and nothing else the handshake depends on.                              *)
LEMMA StoreIs ==
    ASSUME NEW c, DOMAIN c = Fields, NEW l, NEW r, NEW k
    PROVE  LET d == StoreAuthenticationResult(c, l, r, k) IN
           /\ DOMAIN d = Fields
           /\ d.authSessionEstablished /\ d.localIdentity = l /\ d.sessionKey = k
           /\ d.open = c.open /\ d.authenticated = c.authenticated
           /\ d.authMode = c.authMode /\ d.encMode = c.encMode /\ d.handler = c.handler
           /\ d.localHeaders = c.localHeaders /\ d.remoteHeaders = c.remoteHeaders
           /\ d.deriving = c.deriving /\ d.cipher = c.cipher
           /\ d.cipherSession = c.cipherSession /\ d.encryptionActive = c.encryptionActive
BY DEF StoreAuthenticationResult, Fields

(* finishAuthenticationReady makes a connection authenticated and nothing  *)
(* else.                                                                   *)
LEMMA FinishIs ==
    ASSUME NEW c, DOMAIN c = Fields
    PROVE  LET d == FinishAuthenticationReady(c) IN
           /\ DOMAIN d = Fields
           /\ d.authenticated
           /\ d.authSessionEstablished = c.authSessionEstablished
           /\ d.localIdentity = c.localIdentity /\ d.sessionKey = c.sessionKey
           /\ d.open = c.open
           /\ d.authMode = c.authMode /\ d.encMode = c.encMode /\ d.handler = c.handler
           /\ d.localHeaders = c.localHeaders /\ d.remoteHeaders = c.remoteHeaders
           /\ d.deriving = c.deriving /\ d.cipher = c.cipher
           /\ d.cipherSession = c.cipherSession /\ d.encryptionActive = c.encryptionActive
BY DEF FinishAuthenticationReady, Fields

(* completeAuthentication lets a plain connection be ready at once and     *)
(* makes an encrypted one derive from the context it has.                  *)
LEMMA CompleteIs ==
    ASSUME NEW s, NEW c, DOMAIN c = Fields
    PROVE  LET d == CompleteAuthentication(s, c) IN
           /\ DOMAIN d = Fields
           /\ d.authSessionEstablished
           /\ d.localIdentity = c.localIdentity /\ d.sessionKey = c.sessionKey
           /\ d.open = c.open
           /\ d.authMode = c.authMode /\ d.encMode = c.encMode /\ d.handler = c.handler
           /\ d.localHeaders = c.localHeaders /\ d.remoteHeaders = c.remoteHeaders
           /\ d.cipher = c.cipher
           /\ d.cipherSession = c.cipherSession /\ d.encryptionActive = c.encryptionActive
           /\ c.encMode = "None" => d.authenticated /\ d.deriving = c.deriving
           /\ c.encMode # "None" => /\ d.authenticated = c.authenticated
                                    /\ d.deriving = Append(c.deriving, EncryptionContext(s, c))
<1> DEFINE e == [c EXCEPT !.authSessionEstablished = TRUE]
<1>1. /\ DOMAIN e = Fields
      /\ e.authSessionEstablished
      /\ e.localIdentity = c.localIdentity /\ e.sessionKey = c.sessionKey
      /\ e.open = c.open /\ e.authenticated = c.authenticated
      /\ e.authMode = c.authMode /\ e.encMode = c.encMode /\ e.handler = c.handler
      /\ e.localHeaders = c.localHeaders /\ e.remoteHeaders = c.remoteHeaders
      /\ e.cipher = c.cipher /\ e.deriving = c.deriving
      /\ e.cipherSession = c.cipherSession /\ e.encryptionActive = c.encryptionActive
  BY DEF Fields
<1>2. EncryptionContext(s, e) = EncryptionContext(s, c)
  BY <1>1 DEF EncryptionContext
<1>3. CASE c.encMode = "None"
  <2>1. CompleteAuthentication(s, c) = FinishAuthenticationReady(e)
    BY <1>3 DEF CompleteAuthentication
  <2> HIDE DEF e
  <2> QED BY <1>1, <1>3, <2>1, FinishIs
<1>4. CASE c.encMode # "None"
  <2>1. CompleteAuthentication(s, c) = [e EXCEPT !.deriving = Append(@, EncryptionContext(s, e))]
    BY <1>4 DEF CompleteAuthentication
  <2> HIDE DEF e
  <2> QED BY <1>1, <1>2, <1>4, <2>1 DEF Fields
<1> QED BY <1>3, <1>4

-----------------------------------------------------------------------------
(***************************************************************************)
(* The transcript of a session: the calls of process() at both ends, and   *)
(* that in every mode a handler that succeeds had to have the right        *)
(* password.                                                               *)
(***************************************************************************)

M == setup.authMode
E == setup.encMode
Late == M # "InitializerIdentity"

(* The calls of process() in one session, when the initiator opens it with *)
(* the identity me: each side is given what the other side answered.       *)
AuthNonce(s) == <<"authNonce", s, session>>
A0(me) == Process(M, "initiator", NewHandler(me, Nil, AuthNonce("initiator")), Nil,
                  Provider("initiator"))
B0(me) == Process(M, "responder", NewHandler(Nil, Nil, AuthNonce("responder")), A0(me).data,
                  Provider("responder"))
A1(me) == Process(M, "initiator", A0(me).handler, B0(me).data, Provider("initiator"))
B1(me) == Process(M, "responder", B0(me).handler, A1(me).data, Provider("responder"))
A2(me) == Process(M, "initiator", A1(me).handler, B1(me).data, Provider("initiator"))
Last(me) == IF Late THEN A2(me) ELSE A1(me)

(* How far a handshake has come.                                           *)
Challenged(me) == M # "None" /\ B0(me).ruling = "InProgress"
Answered(me) == Challenged(me) /\ A1(me).ruling = IF Late THEN "InProgress" ELSE "Succeeded"
Accepted(me) == Answered(me) /\ B1(me).ruling = "Succeeded"
Finished(me) == IF Late THEN Accepted(me) /\ A2(me).ruling = "Succeeded" ELSE Answered(me)

Identities == {Nil, Own("initiator")}
Demanded == CASE M = "None" -> TRUE
              [] M = "InitializerIdentity" -> setup.fault \notin {"initiatorPassword", "initiatorUnknown"}
              [] M = "ResponderIdentity" -> setup.fault \notin {"responderPassword", "responderUnknown"}
              [] OTHER -> setup.fault \notin {"initiatorPassword", "initiatorUnknown", "responderPassword", "responderUnknown"}

(* Terms of the symbolic cryptography are equal only when their parts are: *)
(* a hash stands for what was hashed, and no password is the wrong one.    *)
LEMMA TermsDiffer ==
    /\ \A x : Password(x) # Nil
    /\ Password(<<"wrong">>) # Password(Own("initiator"))
    /\ Password(<<"wrong">>) # Password(Own("responder"))
    /\ \A x, y, a, b : Hashed(x, y) = Hashed(a, b) => x = a /\ y = b
    /\ \A x, y, z, a, b, c : Sha3(<<x, y, z>>) = Sha3(<<a, b, c>>) => x = a /\ y = b /\ z = c
    /\ \A x, y, z, w, a, b, c, d : Sha3(<<x, y, z, w>>) = Sha3(<<a, b, c, d>>)
            => x = a /\ y = b /\ z = c /\ w = d
    /\ \A x : Credential(x) # NoCredential
<1>1. \A x : Password(x) # Nil
  BY DEF Password, Nil
<1>2. Password(<<"wrong">>) # Password(Own("initiator"))
  BY DEF Password, Own
<1>3. Password(<<"wrong">>) # Password(Own("responder"))
  BY DEF Password, Own
<1>4. \A x, y, a, b : Hashed(x, y) = Hashed(a, b) => x = a /\ y = b
  BY DEF Hashed, Sha3
<1>5. \A x, y, z, a, b, c : Sha3(<<x, y, z>>) = Sha3(<<a, b, c>>) => x = a /\ y = b /\ z = c
  BY DEF Sha3
<1>6. \A x, y, z, w, a, b, c, d : Sha3(<<x, y, z, w>>) = Sha3(<<a, b, c, d>>)
            => x = a /\ y = b /\ z = c /\ w = d
  BY DEF Sha3
<1>7. \A x : Salt(x) # Nil
  BY DEF Salt, Nil
<1>8. \A x : Credential(x) # NoCredential
  BY <1>7 DEF Credential, NoCredential
<1> QED BY <1>1, <1>2, <1>3, <1>4, <1>5, <1>6, <1>8

(* What a provider holds, in each of the faults a setup may have.          *)
LEMMA ProvidersAre ==
    ASSUME setup \in Setup
    PROVE  LET i == Provider("initiator")
               r == Provider("responder") IN
           /\ i.identity = Own("initiator") /\ r.identity = Own("responder")
           /\ i.password = IF setup.fault = "initiatorPassword" THEN Password(<<"wrong">>)
                           ELSE Password(Own("initiator"))
           /\ r.password = IF setup.fault = "responderPassword" THEN Password(<<"wrong">>)
                           ELSE Password(Own("responder"))
           /\ GetHostedAccountCredential(i, Own("responder")) =
                IF setup.fault = "responderUnknown" THEN NoCredential ELSE Credential(Own("responder"))
           /\ GetHostedAccountCredential(r, Own("initiator")) =
                IF setup.fault = "initiatorUnknown" THEN NoCredential ELSE Credential(Own("initiator"))
<1>1. /\ Provider("initiator").identity = Own("initiator")
      /\ Provider("responder").identity = Own("responder")
  BY DEF Provider
<1>2. /\ Provider("initiator").password = IF setup.fault = "initiatorPassword" THEN Password(<<"wrong">>)
                           ELSE Password(Own("initiator"))
      /\ Provider("responder").password = IF setup.fault = "responderPassword" THEN Password(<<"wrong">>)
                           ELSE Password(Own("responder"))
  BY DEF Provider, PasswordFault
<1>3. Peer("initiator") = "responder" /\ Peer("responder") = "initiator"
  BY DEF Peer
<1>4. /\ Provider("initiator").hosted = IF setup.fault = "responderUnknown" THEN {} ELSE {Own("responder")}
      /\ Provider("responder").hosted = IF setup.fault = "initiatorUnknown" THEN {} ELSE {Own("initiator")}
  BY <1>3 DEF Provider, UnknownFault
<1> QED BY <1>1, <1>2, <1>4 DEF GetHostedAccountCredential

(* The fields of the results of process().                                 *)
LEMMA ResultsAre ==
    /\ \A h : Failed(h).ruling = "Failed" /\ FailedAndStop(h).ruling = "Failed"
    /\ \A h, x : /\ InProgress(h, x).ruling = "InProgress"
                 /\ InProgress(h, x).handler = h /\ InProgress(h, x).data = x
    /\ \A h, x, l, r, k :
        /\ Succeeded(h, x, l, r, k).ruling = "Succeeded" /\ Succeeded(h, x, l, r, k).data = x
        /\ Succeeded(h, x, l, r, k).local = l /\ Succeeded(h, x, l, r, k).key = Sha3(k)
BY DEF Failed, FailedAndStop, InProgress, Succeeded

(* The calls of process() when the initiator proves its identity: they run *)
(* in the order of the handshake, both sides that accept have one key, and *)
(* they get there only with the password the responder knows.              *)
LEMMA InitializerTranscript ==
    ASSUME setup \in Setup, NEW me \in Identities, M = "InitializerIdentity"
    PROVE  /\ B0(me).ruling \in {"Failed", "InProgress"}
           /\ Challenged(me) => A1(me).ruling \in {"Failed", "Succeeded"}
           /\ Answered(me) => B1(me).ruling \in {"Failed", "Succeeded"}
           /\ Accepted(me) => B1(me).data = Nil /\ A1(me).key = B1(me).key
           /\ Answered(me) => A1(me).local \in Identities /\ Demanded
<1> DEFINE i == Provider("initiator")
           r == Provider("responder")
           ni == AuthNonce("initiator")
           nr == AuthNonce("responder")
           h0 == NewHandler(me, Nil, ni)
           g0 == NewHandler(Nil, Nil, nr)
           h1 == A0(me).handler
           g1 == B0(me).handler
           own == Own("initiator")
           account == GetHostedAccountCredential(r, own)
           challenge == <<nr, account.salt, Sha3(<<nr, account.hash, ni>>)>>
           hashed == Hashed(i.password, account.salt)
           answer == <<Sha3(<<ni, hashed, nr>>)>>
<1>1. /\ A0(me).data = <<ni, own>>
      /\ h1.step = 1 /\ h1.localNonce = ni /\ h1.initiatorIdentity = own
      /\ h1.initiatorPassword = i.password
  <2>1. i.password # Nil /\ i.identity = own
    BY ProvidersAre, TermsDiffer
  <2> DEFINE self == LoadInitiator(h0, i)
  <2>2. /\ self.localNonce = ni /\ self.initiatorPassword = i.password
        /\ DOMAIN self = DOMAIN h0 /\ "step" \in DOMAIN self
        /\ "localNonce" \in DOMAIN self /\ "initiatorPassword" \in DOMAIN self
        /\ "initiatorIdentity" \in DOMAIN self
    BY DEF LoadInitiator, NewHandler
  <2>3. h0.initiatorIdentity = me /\ "initiatorIdentity" \in DOMAIN h0
    BY DEF NewHandler
  <2>4. self.initiatorIdentity = own
    BY <2>1, <2>3 DEF LoadInitiator, Identities
  <2>5. A0(me) = InitiatorInitializerIdentity(h0, Nil, i) /\ h0.step = 0
    BY DEF A0, Process, NewHandler
  <2>6. InitiatorInitializerIdentity(h0, Nil, i) = InProgress([self EXCEPT !.step = 1], <<self.localNonce, self.initiatorIdentity>>)
    BY <2>1, <2>2, <2>5 DEF InitiatorInitializerIdentity
  <2> HIDE DEF self
  <2> QED BY <2>2, <2>4, <2>5, <2>6 DEF InProgress
<1>2. B0(me) = ResponderInitializerIdentity(g0, <<ni, own>>, r)
  BY <1>1 DEF B0, Process
<1>3. /\ B0(me).ruling \in {"Failed", "InProgress"}
      /\ B0(me).ruling = "InProgress" =>
            /\ account # NoCredential /\ B0(me).data = challenge
            /\ g1.step = 1 /\ g1.localNonce = nr /\ g1.remoteNonce = ni
            /\ g1.initiatorIdentity = own /\ g1.initiatorPassword = account.hash
  <2> DEFINE known == [g0 EXCEPT !.remoteNonce = ni, !.initiatorIdentity = own, !.initiatorPassword = account.hash]
  <2>1. g0.step = 0 /\ Len(<<ni, own>>) >= 2 /\ <<ni, own>>[1] = ni /\ <<ni, own>>[2] = own /\ g0.localNonce = nr
    BY DEF NewHandler
  <2>2. LET g == [known EXCEPT !.step = 1] IN
            /\ g.step = 1 /\ g.localNonce = nr /\ g.remoteNonce = ni
            /\ g.initiatorIdentity = own /\ g.initiatorPassword = account.hash
    BY DEF NewHandler
  <2>3. \/ B0(me) = FailedAndStop(known)
        \/ B0(me) = Failed(known)
        \/ account # NoCredential /\ B0(me) = InProgress([known EXCEPT !.step = 1], challenge)
    BY <1>2, <2>1 DEF ResponderInitializerIdentity
  <2>4. CASE B0(me) = FailedAndStop(known) \/ B0(me) = Failed(known)
    <3> HIDE DEF known
    <3>1. B0(me).ruling = "Failed"
      BY <2>4, ResultsAre
    <3> QED BY <3>1
  <2>5. CASE account # NoCredential /\ B0(me) = InProgress([known EXCEPT !.step = 1], challenge)
    <3> DEFINE g == [known EXCEPT !.step = 1]
    <3>1. /\ g.step = 1 /\ g.localNonce = nr /\ g.remoteNonce = ni
          /\ g.initiatorIdentity = own /\ g.initiatorPassword = account.hash
      BY <2>2
    <3>2. account # NoCredential /\ B0(me) = InProgress(g, challenge)
      BY <2>5
    <3> HIDE DEF known, g, account, challenge, ni, nr, own
    <3>3. B0(me).ruling = "InProgress" /\ g1 = g /\ B0(me).data = challenge
      BY <3>2, ResultsAre
    <3> QED BY <3>1, <3>2, <3>3
  <2> HIDE DEF known, account, challenge
  <2> QED BY <2>3, <2>4, <2>5
<1>4. ASSUME Challenged(me)
      PROVE  /\ A1(me).ruling \in {"Failed", "Succeeded"}
             /\ A1(me).ruling = "Succeeded" =>
                  /\ account.hash = hashed /\ A1(me).data = answer /\ A1(me).local = own
                  /\ A1(me).key = Sha3(<<own, hashed, ni, nr>>)
  <2>1. B0(me).data = challenge
    BY <1>3, <1>4 DEF Challenged
  <2>2. A1(me) = InitiatorInitializerIdentity(h1, challenge, i)
    BY <1>1, <2>1 DEF A1, Process
  <2>3. /\ Len(challenge) >= 3 /\ challenge[1] = nr /\ challenge[2] = account.salt
        /\ challenge[3] = Sha3(<<nr, account.hash, ni>>)
    OBVIOUS
  <2> HIDE DEF h1, challenge
  <2>4. \/ /\ Sha3(<<nr, account.hash, ni>>) = Sha3(<<nr, hashed, ni>>)
           /\ A1(me) = Succeeded(h1, answer, own, Nil, <<own, hashed, ni, nr>>)
        \/ A1(me) = FailedAndStop(h1)
    BY <1>1, <2>2, <2>3 DEF InitiatorInitializerIdentity
  <2>5. Sha3(<<nr, account.hash, ni>>) = Sha3(<<nr, hashed, ni>>) => account.hash = hashed
    BY TermsDiffer
  <2> QED BY <2>4, <2>5 DEF Succeeded, FailedAndStop, Failed
<1>5. ASSUME Answered(me)
      PROVE  /\ B1(me).ruling \in {"Failed", "Succeeded"}
             /\ B1(me).ruling = "Succeeded" => B1(me).data = Nil /\ B1(me).key = A1(me).key
  <2>1. Challenged(me) /\ A1(me).ruling = "Succeeded"
    BY <1>5 DEF Answered, Late
  <2>2. B1(me) = ResponderInitializerIdentity(g1, answer, r)
    BY <1>4, <2>1 DEF B1, Process
  <2>3. Len(answer) >= 1
    OBVIOUS
  <2>6. /\ g1.step = 1 /\ g1.localNonce = nr /\ g1.remoteNonce = ni
        /\ g1.initiatorIdentity = own /\ g1.initiatorPassword = account.hash
    BY <1>3, <2>1 DEF Challenged
  <2> HIDE DEF g1, answer
  <2>4. \/ B1(me) = Succeeded(g1, Nil, own, g1.responderIdentity, <<own, account.hash, ni, nr>>)
        \/ B1(me) = FailedAndStop(g1)
    BY <2>2, <2>3, <2>6 DEF ResponderInitializerIdentity
  <2> QED BY <1>4, <2>1, <2>4 DEF Succeeded, FailedAndStop, Failed
<1>6. ASSUME Answered(me)
      PROVE  Demanded
  <2>1. account # NoCredential /\ account.hash = hashed
    BY <1>3, <1>4, <1>6 DEF Answered, Late, Challenged
  <2>2. setup.fault # "initiatorUnknown" /\ account = Credential(own)
    BY <2>1, ProvidersAre
  <2>3. account.hash = Hashed(Password(own), Salt(own)) /\ account.salt = Salt(own)
    BY <2>2 DEF Credential
  <2>4. Password(own) = i.password
    BY <2>1, <2>3, TermsDiffer
  <2>5. setup.fault # "initiatorPassword"
    BY <2>4, ProvidersAre, TermsDiffer
  <2> QED BY <2>2, <2>5 DEF Demanded
<1>7. own \in Identities
  BY DEF Identities
<1> QED BY <1>3, <1>4, <1>5, <1>6, <1>7 DEF Accepted, Answered, Challenged, Late

(* The same when the responder proves its identity: the initiator speaks   *)
(* once more, and has the last key.                                        *)
LEMMA ResponderTranscript ==
    ASSUME setup \in Setup, NEW me \in Identities, M = "ResponderIdentity"
    PROVE  /\ B0(me).ruling \in {"Failed", "InProgress"}
           /\ Challenged(me) => A1(me).ruling \in {"Failed", "InProgress"}
           /\ Answered(me) => B1(me).ruling \in {"Failed", "Succeeded"}
           /\ Accepted(me) => /\ B1(me).data # Nil /\ Demanded
                              /\ A2(me).ruling \in {"Failed", "Succeeded"}
           /\ Finished(me) => /\ A2(me).data = Nil /\ A2(me).local \in Identities
                              /\ A2(me).key = B1(me).key
<1> DEFINE i == Provider("initiator")
           r == Provider("responder")
           ni == AuthNonce("initiator")
           nr == AuthNonce("responder")
           h0 == NewHandler(me, Nil, ni)
           g0 == NewHandler(Nil, Nil, nr)
           h1 == A0(me).handler
           g1 == B0(me).handler
           h2 == A1(me).handler
           server == Own("responder")
           account == GetHostedAccountCredential(i, server)
           hashed == Hashed(r.password, account.salt)
           proof == <<account.salt, Sha3(<<ni, account.hash, nr>>)>>
           reply == <<Sha3(<<nr, hashed, ni>>)>>
<1>1. /\ A0(me).data = <<ni>>
      /\ h1.step = 1 /\ h1.localNonce = ni /\ h1.initiatorIdentity = me
  <2>1. A0(me) = InProgress([h0 EXCEPT !.step = 1], <<h0.localNonce>>)
    BY DEF A0, Process, InitiatorResponderIdentity, NewHandler
  <2>2. LET h == [h0 EXCEPT !.step = 1] IN h.step = 1 /\ h.localNonce = ni /\ h.initiatorIdentity = me
    BY DEF NewHandler
  <2>3. h0.localNonce = ni
    BY DEF NewHandler
  <2> DEFINE h == [h0 EXCEPT !.step = 1]
  <2>4. A0(me) = InProgress(h, <<ni>>) /\ h.step = 1 /\ h.localNonce = ni /\ h.initiatorIdentity = me
    BY <2>1, <2>2, <2>3
  <2> HIDE DEF h0, h
  <2>5. h1 = h /\ A0(me).data = <<ni>>
    BY <2>4, ResultsAre
  <2> QED BY <2>4, <2>5
<1>2. B0(me) = ResponderResponderIdentity(g0, <<ni>>, r)
  BY <1>1 DEF B0, Process
<1>3. /\ B0(me).ruling \in {"Failed", "InProgress"}
      /\ B0(me).ruling = "InProgress" =>
            /\ B0(me).data = <<nr, server>>
            /\ g1.step = 1 /\ g1.localNonce = nr /\ g1.remoteNonce = ni
            /\ g1.responderIdentity = server /\ g1.responderPassword = r.password
  <2> DEFINE self == LoadResponder([g0 EXCEPT !.remoteNonce = ni], r)
             g == [self EXCEPT !.step = 1]
  <2>1. g0.step = 0 /\ Len(<<ni>>) >= 1 /\ <<ni>>[1] = ni /\ g0.localNonce = nr
    BY DEF NewHandler
  <2>2. r.identity = server
    BY ProvidersAre
  <2>3. LET g2 == [g0 EXCEPT !.remoteNonce = ni] IN
        /\ g2.responderIdentity = Nil /\ g2.localNonce = nr /\ g2.remoteNonce = ni
        /\ {"responderIdentity", "localNonce", "remoteNonce", "step", "responderPassword"} \subseteq DOMAIN g2
    BY DEF NewHandler
  <2>4. /\ self.responderIdentity = server /\ self.localNonce = nr /\ self.remoteNonce = ni
        /\ self.responderPassword = r.password
        /\ {"responderIdentity", "localNonce", "remoteNonce", "step", "responderPassword"} \subseteq DOMAIN self
    BY <2>2, <2>3 DEF LoadResponder
  <2>5. \/ B0(me) = FailedAndStop(self)
        \/ B0(me) = Failed(self)
        \/ B0(me) = InProgress(g, <<g0.localNonce, self.responderIdentity>>)
    BY <1>2, <2>1 DEF ResponderResponderIdentity
  <2> HIDE DEF self
  <2>6. /\ g.step = 1 /\ g.localNonce = nr /\ g.remoteNonce = ni
        /\ g.responderIdentity = server /\ g.responderPassword = r.password
    BY <2>4
  <2> HIDE DEF g
  <2>7. CASE B0(me) = FailedAndStop(self) \/ B0(me) = Failed(self)
    <3>1. B0(me).ruling = "Failed"
      BY <2>7, ResultsAre
    <3> QED BY <3>1
  <2>8. CASE B0(me) = InProgress(g, <<g0.localNonce, self.responderIdentity>>)
    <3>1. B0(me).ruling = "InProgress" /\ g1 = g /\ B0(me).data = <<nr, server>>
      BY <2>1, <2>4, <2>8, ResultsAre
    <3> QED BY <2>6, <3>1
  <2> QED BY <2>5, <2>7, <2>8
<1>4. ASSUME Challenged(me)
      PROVE  /\ A1(me).ruling \in {"Failed", "InProgress"}
             /\ A1(me).ruling = "InProgress" =>
                  /\ A1(me).data = proof /\ account # NoCredential
                  /\ h2.step = 2 /\ h2.localNonce = ni /\ h2.remoteNonce = nr
                  /\ h2.initiatorIdentity = me /\ h2.responderIdentity = server
                  /\ h2.responderPassword = account.hash
  <2> DEFINE known == [h1 EXCEPT !.remoteNonce = nr, !.responderIdentity = server,
                                 !.responderPassword = account.hash]
             h == [known EXCEPT !.step = 2]
  <2>1. A1(me) = InitiatorResponderIdentity(h1, <<nr, server>>, i)
    BY <1>3, <1>4 DEF A1, Process, Challenged
  <2>2. Len(<<nr, server>>) >= 2 /\ <<nr, server>>[1] = nr /\ <<nr, server>>[2] = server
    OBVIOUS
  <2>3. \/ A1(me) = FailedAndStop(known)
        \/ account # NoCredential /\ A1(me) = InProgress(h, <<account.salt, Sha3(<<h1.localNonce, account.hash, nr>>)>>)
    BY <1>1, <2>1, <2>2 DEF InitiatorResponderIdentity
  <2>4. {"initiatorIdentity", "responderIdentity", "localNonce", "remoteNonce", "step", "responderPassword"} \subseteq DOMAIN h1
    <3>1. h1 = [h0 EXCEPT !.step = 1]
      BY ResultsAre DEF A0, Process, InitiatorResponderIdentity, NewHandler
    <3> QED BY <3>1 DEF NewHandler
  <2> HIDE DEF h1
  <2>5. /\ h.step = 2 /\ h.localNonce = ni /\ h.remoteNonce = nr
        /\ h.initiatorIdentity = me /\ h.responderIdentity = server
        /\ h.responderPassword = account.hash
    BY <1>1, <2>4
  <2> HIDE DEF known, h
  <2>6. CASE A1(me) = FailedAndStop(known)
    <3>1. A1(me).ruling = "Failed"
      BY <2>6, ResultsAre
    <3> QED BY <3>1
  <2>7. CASE account # NoCredential /\ A1(me) = InProgress(h, <<account.salt, Sha3(<<h1.localNonce, account.hash, nr>>)>>)
    <3>1. A1(me).ruling = "InProgress" /\ h2 = h /\ A1(me).data = proof
      BY <1>1, <2>7, ResultsAre
    <3> QED BY <2>5, <2>7, <3>1
  <2> QED BY <2>3, <2>6, <2>7
<1>5. ASSUME Answered(me)
      PROVE  /\ B1(me).ruling \in {"Failed", "Succeeded"}
             /\ B1(me).ruling = "Succeeded" =>
                  /\ account.hash = hashed /\ B1(me).data = reply
                  /\ B1(me).key = Sha3(<<server, hashed, ni, nr>>)
  <2>1. Challenged(me) /\ A1(me).ruling = "InProgress"
    BY <1>5 DEF Answered, Late
  <2>2. B1(me) = ResponderResponderIdentity(g1, proof, r)
    BY <1>4, <2>1 DEF B1, Process
  <2>3. Len(proof) >= 2 /\ proof[1] = account.salt /\ proof[2] = Sha3(<<ni, account.hash, nr>>)
    OBVIOUS
  <2>4. /\ g1.step = 1 /\ g1.localNonce = nr /\ g1.remoteNonce = ni
        /\ g1.responderIdentity = server /\ g1.responderPassword = r.password
    BY <1>3, <2>1 DEF Challenged
  <2> HIDE DEF g1, proof
  <2>5. \/ /\ Sha3(<<ni, account.hash, nr>>) = Sha3(<<ni, hashed, nr>>)
           /\ B1(me) = Succeeded(g1, reply, server, Nil, <<server, hashed, ni, nr>>)
        \/ B1(me) = FailedAndStop(g1)
    BY <2>2, <2>3, <2>4 DEF ResponderResponderIdentity
  <2>6. Sha3(<<ni, account.hash, nr>>) = Sha3(<<ni, hashed, nr>>) => account.hash = hashed
    BY TermsDiffer
  <2> QED BY <2>5, <2>6, ResultsAre
<1>6. ASSUME Accepted(me)
      PROVE  /\ A2(me).ruling \in {"Failed", "Succeeded"}
             /\ A2(me).ruling = "Succeeded" =>
                  /\ A2(me).data = Nil /\ A2(me).local = me /\ A2(me).key = B1(me).key
  <2>1. Answered(me) /\ Challenged(me) /\ A1(me).ruling = "InProgress" /\ B1(me).ruling = "Succeeded"
    BY <1>6 DEF Accepted, Answered, Late
  <2>2. A2(me) = InitiatorResponderIdentity(h2, reply, i)
    BY <1>5, <2>1 DEF A2, Process
  <2>3. Len(reply) >= 1
    OBVIOUS
  <2>4. /\ h2.step = 2 /\ h2.localNonce = ni /\ h2.remoteNonce = nr
        /\ h2.initiatorIdentity = me /\ h2.responderIdentity = server
        /\ h2.responderPassword = account.hash
    BY <1>4, <2>1
  <2> HIDE DEF h2, reply
  <2>5. \/ A2(me) = Succeeded(h2, Nil, me, server, <<server, account.hash, ni, nr>>)
        \/ A2(me) = FailedAndStop(h2)
    BY <2>2, <2>3, <2>4 DEF InitiatorResponderIdentity
  <2> QED BY <1>5, <2>1, <2>5, ResultsAre
<1>7. ASSUME Accepted(me)
      PROVE  Demanded /\ B1(me).data # Nil
  <2>1. account # NoCredential /\ account.hash = hashed /\ B1(me).data = reply
    BY <1>4, <1>5, <1>7 DEF Accepted, Answered, Late
  <2>2. setup.fault # "responderUnknown" /\ account = Credential(server)
    BY <2>1, ProvidersAre
  <2>3. account.hash = Hashed(Password(server), Salt(server)) /\ account.salt = Salt(server)
    BY <2>2 DEF Credential
  <2>4. Password(server) = r.password
    BY <2>1, <2>3, TermsDiffer
  <2>5. setup.fault # "responderPassword"
    BY <2>4, ProvidersAre, TermsDiffer
  <2>6. reply # Nil
    BY DEF Nil
  <2> QED BY <2>1, <2>2, <2>5, <2>6 DEF Demanded
<1> QED BY <1>3, <1>4, <1>5, <1>6, <1>7 DEF Finished, Accepted, Answered, Challenged, Late

(* The same when both prove their identities.                              *)
LEMMA DualTranscript ==
    ASSUME setup \in Setup, NEW me \in Identities, M = "DualIdentity"
    PROVE  /\ B0(me).ruling \in {"Failed", "InProgress"}
           /\ Challenged(me) => A1(me).ruling \in {"Failed", "InProgress"}
           /\ Answered(me) => B1(me).ruling \in {"Failed", "Succeeded"}
           /\ Accepted(me) => /\ B1(me).data # Nil /\ Demanded
                              /\ A2(me).ruling \in {"Failed", "Succeeded"}
           /\ Finished(me) => /\ A2(me).data = Nil /\ A2(me).local \in Identities
                              /\ A2(me).key = B1(me).key
<1> DEFINE i == Provider("initiator")
           r == Provider("responder")
           ni == AuthNonce("initiator")
           nr == AuthNonce("responder")
           h0 == NewHandler(me, Nil, ni)
           g0 == NewHandler(Nil, Nil, nr)
           h1 == A0(me).handler
           g1 == B0(me).handler
           h2 == A1(me).handler
           own == Own("initiator")
           server == Own("responder")
           mine == GetHostedAccountCredential(r, own)
           theirs == GetHostedAccountCredential(i, server)
           sent == Hashed(i.password, mine.salt)
           kept == Hashed(r.password, theirs.salt)
           proof == <<theirs.salt, Sha3(<<ni, sent, theirs.hash, nr>>)>>
           reply == <<Sha3(<<nr, kept, mine.hash, ni>>)>>
<1>1. /\ A0(me).data = <<ni, own>>
      /\ h1.step = 1 /\ h1.localNonce = ni /\ h1.initiatorIdentity = own
      /\ h1.initiatorPassword = i.password
      /\ {"initiatorIdentity", "responderIdentity", "localNonce", "remoteNonce", "remoteSalt",
          "step", "responderPassword", "initiatorPassword"} \subseteq DOMAIN h1
  <2>1. i.password # Nil /\ i.identity = own
    BY ProvidersAre, TermsDiffer
  <2> DEFINE self == LoadInitiator(h0, i)
  <2>2. /\ self.localNonce = ni /\ self.initiatorPassword = i.password
        /\ {"initiatorIdentity", "responderIdentity", "localNonce", "remoteNonce", "remoteSalt",
          "step", "responderPassword", "initiatorPassword"} \subseteq DOMAIN self
    BY DEF LoadInitiator, NewHandler
  <2>3. h0.initiatorIdentity = me /\ "initiatorIdentity" \in DOMAIN h0
    BY DEF NewHandler
  <2>4. self.initiatorIdentity = own
    BY <2>1, <2>3 DEF LoadInitiator, Identities
  <2>5. A0(me) = InitiatorDualIdentity(h0, Nil, i) /\ h0.step = 0
    BY DEF A0, Process, NewHandler
  <2>6. InitiatorDualIdentity(h0, Nil, i) = InProgress([self EXCEPT !.step = 1], <<self.localNonce, self.initiatorIdentity>>)
    BY <2>1, <2>2, <2>5 DEF InitiatorDualIdentity
  <2> HIDE DEF self
  <2> QED BY <2>2, <2>4, <2>5, <2>6, ResultsAre
<1>2. B0(me) = ResponderDualIdentity(g0, <<ni, own>>, r)
  BY <1>1 DEF B0, Process
<1>3. /\ B0(me).ruling \in {"Failed", "InProgress"}
      /\ B0(me).ruling = "InProgress" =>
            /\ B0(me).data = <<nr, server, mine.salt>> /\ mine # NoCredential
            /\ g1.step = 1 /\ g1.localNonce = nr /\ g1.remoteNonce = ni
            /\ g1.initiatorIdentity = own /\ g1.initiatorPassword = mine.hash
            /\ g1.responderIdentity = server /\ g1.responderPassword = r.password
  <2> DEFINE g2 == [g0 EXCEPT !.remoteNonce = ni, !.initiatorIdentity = own]
             self == LoadResponder(g2, r)
             g == [self EXCEPT !.step = 1, !.initiatorPassword = mine.hash]
             F == {"initiatorIdentity", "initiatorPassword", "responderIdentity", "localNonce",
                   "remoteNonce", "step", "responderPassword"}
  <2>1. g0.step = 0 /\ Len(<<ni, own>>) >= 2 /\ <<ni, own>>[1] = ni /\ <<ni, own>>[2] = own /\ g0.localNonce = nr
    BY DEF NewHandler
  <2>2. r.identity = server
    BY ProvidersAre
  <2>3. /\ g2.responderIdentity = Nil /\ g2.localNonce = nr /\ g2.remoteNonce = ni
        /\ g2.initiatorIdentity = own /\ F \subseteq DOMAIN g2
    BY DEF NewHandler
  <2>5. \/ B0(me) = FailedAndStop(self)
        \/ B0(me) = Failed(self)
        \/ mine # NoCredential /\ B0(me) = InProgress(g, <<g0.localNonce, self.responderIdentity, mine.salt>>)
    BY <1>2, <2>1 DEF ResponderDualIdentity
  <2> HIDE DEF g2
  <2>4. /\ self.responderIdentity = server /\ self.localNonce = nr /\ self.remoteNonce = ni
        /\ self.responderPassword = r.password /\ self.initiatorIdentity = own
        /\ F \subseteq DOMAIN self
    BY <2>2, <2>3 DEF LoadResponder
  <2> HIDE DEF self
  <2>6. /\ g.step = 1 /\ g.localNonce = nr /\ g.remoteNonce = ni
        /\ g.initiatorIdentity = own /\ g.initiatorPassword = mine.hash
        /\ g.responderIdentity = server /\ g.responderPassword = r.password
    BY <2>4
  <2> HIDE DEF g
  <2>7. CASE B0(me) = FailedAndStop(self) \/ B0(me) = Failed(self)
    <3>1. B0(me).ruling = "Failed"
      BY <2>7, ResultsAre
    <3> QED BY <3>1
  <2>8. CASE mine # NoCredential /\ B0(me) = InProgress(g, <<g0.localNonce, self.responderIdentity, mine.salt>>)
    <3>1. B0(me).ruling = "InProgress" /\ g1 = g /\ B0(me).data = <<nr, server, mine.salt>>
      BY <2>1, <2>4, <2>8, ResultsAre
    <3> QED BY <2>6, <2>8, <3>1
  <2> QED BY <2>5, <2>7, <2>8
<1>4. ASSUME Challenged(me)
      PROVE  /\ A1(me).ruling \in {"Failed", "InProgress"}
             /\ A1(me).ruling = "InProgress" =>
                  /\ A1(me).data = proof /\ theirs # NoCredential
                  /\ h2.step = 2 /\ h2.localNonce = ni /\ h2.remoteNonce = nr
                  /\ h2.initiatorIdentity = own /\ h2.responderIdentity = server
                  /\ h2.initiatorPassword = i.password /\ h2.remoteSalt = mine.salt
                  /\ h2.responderPassword = theirs.hash
  <2> DEFINE known == [h1 EXCEPT !.remoteNonce = nr, !.responderIdentity = server,
                                 !.remoteSalt = mine.salt, !.responderPassword = theirs.hash]
             h == [known EXCEPT !.step = 2]
             challenge == <<nr, server, mine.salt>>
  <2>1. A1(me) = InitiatorDualIdentity(h1, challenge, i)
    BY <1>3, <1>4 DEF A1, Process, Challenged
  <2>2. Len(challenge) >= 3 /\ challenge[1] = nr /\ challenge[2] = server /\ challenge[3] = mine.salt
    OBVIOUS
  <2> HIDE DEF challenge
  <2>3. \/ A1(me) = FailedAndStop(known)
        \/ theirs # NoCredential /\ A1(me) = InProgress(h, <<theirs.salt, Sha3(<<h1.localNonce, Hashed(h1.initiatorPassword, mine.salt), theirs.hash, nr>>)>>)
    BY <1>1, <2>1, <2>2 DEF InitiatorDualIdentity
  <2> HIDE DEF h1
  <2>5. /\ h.step = 2 /\ h.localNonce = ni /\ h.remoteNonce = nr
        /\ h.initiatorIdentity = own /\ h.responderIdentity = server
        /\ h.initiatorPassword = i.password /\ h.remoteSalt = mine.salt
        /\ h.responderPassword = theirs.hash
    BY <1>1
  <2> HIDE DEF known, h
  <2>6. CASE A1(me) = FailedAndStop(known)
    <3>1. A1(me).ruling = "Failed"
      BY <2>6, ResultsAre
    <3> QED BY <3>1
  <2>7. CASE theirs # NoCredential /\ A1(me) = InProgress(h, <<theirs.salt, Sha3(<<h1.localNonce, Hashed(h1.initiatorPassword, mine.salt), theirs.hash, nr>>)>>)
    <3>1. A1(me).ruling = "InProgress" /\ h2 = h /\ A1(me).data = proof
      BY <1>1, <2>7, ResultsAre
    <3> QED BY <2>5, <2>7, <3>1
  <2> QED BY <2>3, <2>6, <2>7
<1>5. ASSUME Answered(me)
      PROVE  /\ B1(me).ruling \in {"Failed", "Succeeded"}
             /\ B1(me).ruling = "Succeeded" =>
                  /\ mine.hash = sent /\ theirs.hash = kept /\ B1(me).data = reply
                  /\ B1(me).key = Sha3(<<own, server, mine.hash, kept, ni, nr>>)
  <2>1. Challenged(me) /\ A1(me).ruling = "InProgress"
    BY <1>5 DEF Answered, Late
  <2>2. B1(me) = ResponderDualIdentity(g1, proof, r)
    BY <1>4, <2>1 DEF B1, Process
  <2>3. Len(proof) >= 2 /\ proof[1] = theirs.salt /\ proof[2] = Sha3(<<ni, sent, theirs.hash, nr>>)
    OBVIOUS
  <2>4. /\ g1.step = 1 /\ g1.localNonce = nr /\ g1.remoteNonce = ni
        /\ g1.initiatorIdentity = own /\ g1.initiatorPassword = mine.hash
        /\ g1.responderIdentity = server /\ g1.responderPassword = r.password
    BY <1>3, <2>1 DEF Challenged
  <2> HIDE DEF g1, proof
  <2>5. \/ /\ Sha3(<<ni, sent, theirs.hash, nr>>) = Sha3(<<ni, mine.hash, kept, nr>>)
           /\ B1(me) = Succeeded(g1, reply, own, server, <<own, server, mine.hash, kept, ni, nr>>)
        \/ B1(me) = FailedAndStop(g1)
    BY <2>2, <2>3, <2>4 DEF ResponderDualIdentity
  <2>6. Sha3(<<ni, sent, theirs.hash, nr>>) = Sha3(<<ni, mine.hash, kept, nr>>) => mine.hash = sent /\ theirs.hash = kept
    BY TermsDiffer
  <2> QED BY <2>5, <2>6, ResultsAre
<1>6. ASSUME Accepted(me)
      PROVE  /\ A2(me).ruling \in {"Failed", "Succeeded"}
             /\ A2(me).ruling = "Succeeded" =>
                  /\ A2(me).data = Nil /\ A2(me).local = own /\ A2(me).key = B1(me).key
  <2>1. Answered(me) /\ Challenged(me) /\ A1(me).ruling = "InProgress" /\ B1(me).ruling = "Succeeded"
    BY <1>6 DEF Accepted, Answered, Late
  <2>2. A2(me) = InitiatorDualIdentity(h2, reply, i)
    BY <1>5, <2>1 DEF A2, Process
  <2>3. Len(reply) >= 1
    OBVIOUS
  <2>4. /\ h2.step = 2 /\ h2.localNonce = ni /\ h2.remoteNonce = nr
        /\ h2.initiatorIdentity = own /\ h2.responderIdentity = server
        /\ h2.initiatorPassword = i.password /\ h2.remoteSalt = mine.salt
        /\ h2.responderPassword = theirs.hash
    BY <1>4, <2>1
  <2> HIDE DEF h2, reply
  <2>5. \/ A2(me) = Succeeded(h2, Nil, own, server, <<own, server, sent, theirs.hash, ni, nr>>)
        \/ A2(me) = FailedAndStop(h2)
    BY <2>2, <2>3, <2>4 DEF InitiatorDualIdentity
  <2> QED BY <1>5, <2>1, <2>5, ResultsAre
<1>7. ASSUME Accepted(me)
      PROVE  Demanded /\ B1(me).data # Nil
  <2>1. /\ mine # NoCredential /\ theirs # NoCredential /\ mine.hash = sent /\ theirs.hash = kept
        /\ B1(me).data = reply
    BY <1>3, <1>4, <1>5, <1>7 DEF Accepted, Answered, Challenged, Late
  <2>2. /\ setup.fault # "responderUnknown" /\ theirs = Credential(server)
        /\ setup.fault # "initiatorUnknown" /\ mine = Credential(own)
    BY <2>1, ProvidersAre
  <2>3. /\ theirs.hash = Hashed(Password(server), Salt(server)) /\ theirs.salt = Salt(server)
        /\ mine.hash = Hashed(Password(own), Salt(own)) /\ mine.salt = Salt(own)
    BY <2>2 DEF Credential
  <2>4. Password(server) = r.password /\ Password(own) = i.password
    BY <2>1, <2>3, TermsDiffer
  <2>5. setup.fault # "responderPassword" /\ setup.fault # "initiatorPassword"
    BY <2>4, ProvidersAre, TermsDiffer
  <2>6. reply # Nil
    BY DEF Nil
  <2> QED BY <2>1, <2>2, <2>5, <2>6 DEF Demanded
<1>8. own \in Identities
  BY DEF Identities
<1> QED BY <1>3, <1>4, <1>5, <1>6, <1>7, <1>8 DEF Finished, Accepted, Answered, Challenged, Late

-----------------------------------------------------------------------------
(***************************************************************************)
(* The inductive invariant. What each packet of a handshake says, and what *)
(* the side it reaches must be waiting for, is given by the transcript.    *)
(***************************************************************************)

(* The calls of process() in any mode with authentication.                 *)
LEMMA Transcript ==
    ASSUME setup \in Setup, NEW me \in Identities, M # "None"
    PROVE  /\ B0(me).ruling \in {"Failed", "InProgress"}
           /\ Challenged(me) => A1(me).ruling \in {"Failed", IF Late THEN "InProgress" ELSE "Succeeded"}
           /\ Answered(me) => B1(me).ruling \in {"Failed", "Succeeded"}
           /\ Accepted(me) /\ Late => B1(me).data # Nil /\ A2(me).ruling \in {"Failed", "Succeeded"}
           /\ Accepted(me) /\ ~Late => B1(me).data = Nil
           /\ Finished(me) => /\ Last(me).ruling = "Succeeded" /\ Last(me).local \in Identities
                              /\ Late => Last(me).data = Nil
           /\ Accepted(me) \/ Finished(me) => Demanded
           /\ Accepted(me) /\ Finished(me) => Last(me).key = B1(me).key
<1>1. M \in {"InitializerIdentity", "ResponderIdentity", "DualIdentity"}
  BY DEF M, Setup, AuthMode
<1>2. CASE M = "InitializerIdentity"
  <2>1. ~Late /\ Last(me) = A1(me)
    BY <1>2 DEF Late, Last
  <2>2. Finished(me) <=> Answered(me)
    BY <2>1 DEF Finished
  <2>3. Accepted(me) => Answered(me)
    BY DEF Accepted
  <2>4. Answered(me) => A1(me).ruling = "Succeeded"
    BY <2>1 DEF Answered
  <2> QED BY <1>2, <2>1, <2>2, <2>3, <2>4, InitializerTranscript
<1>3. CASE M # "InitializerIdentity"
  <2>1. Late /\ Last(me) = A2(me)
    BY <1>3 DEF Late, Last
  <2>2. Finished(me) => Accepted(me) /\ A2(me).ruling = "Succeeded"
    BY <2>1 DEF Finished
  <2> QED BY <1>1, <1>3, <2>1, <2>2, ResponderTranscript, DualTranscript
<1> QED BY <1>2, <1>3

(* When nothing is wrong with what the mode demands, the sides it asks for *)
(* have proved who they are.                                               *)
LEMMA DemandedIsProved ==
    ASSUME setup \in Setup, Demanded, setup.fault # "provider"
    PROVE  CASE M = "None" -> TRUE
             [] M = "InitializerIdentity" -> Proved("initiator")
             [] M = "ResponderIdentity" -> Proved("responder")
             [] OTHER -> Proved("initiator") /\ Proved("responder")
BY DEF Demanded, Proved, PasswordFault, UnknownFault

-----------------------------------------------------------------------------
(* What the two sides of a session tell each other.                        *)
HI == IF E = "None" THEN [NoHeaders EXCEPT !.protocol = (M # "None")]
      ELSE [NoHeaders EXCEPT !.protocol = (M # "None"), !.ciphers = Ciphers("initiator"),
                             !.nonce = <<"cipherNonce", "initiator", session>>]
HR == IF E = "None" THEN NoHeaders
      ELSE [NoHeaders EXCEPT !.ciphers = Ciphers("responder"),
                             !.cipher = CHOOSE x \in HI.ciphers : x \in Ciphers("responder"),
                             !.nonce = <<"cipherNonce", "responder", session>>]
Context(me) ==
    [key |-> B1(me).key, mode |-> E, authMode |-> M, cipher |-> HR.cipher,
     offered |-> HI.ciphers, initiatorNonce |-> HI.nonce, responderNonce |-> HR.nonce]

(* A side that still reads the handshake, in the clear.                    *)
Hears(s) == conn[s].open /\ ~conn[s].authenticated /\ ~conn[s].encryptionActive

(* The initiator still holds the cipher of an earlier session.             *)
Stale == conn["initiator"].encryptionActive /\ conn["initiator"].cipherSession # session

Types ==
    /\ setup \in Setup /\ session \in Nat
    /\ conn = [s \in Side |-> conn[s]] /\ wire = [s \in Side |-> wire[s]]
    /\ \A s \in Side : DOMAIN conn[s] = Fields /\ \E S : wire[s] \in Seq(S)
    /\ misread \in {"no", "stale", "early"}

Always ==
    /\ conn["initiator"].localIdentity \in Identities
    /\ \A s \in Side :
         /\ conn[s].encryptionActive <=> conn[s].cipher # Nil
         /\ conn[s].cipherSession \in 0 .. session
         /\ conn[s].cipher = Nil => conn[s].cipherSession = 0
         /\ session = 0 => /\ ~conn[s].open /\ wire[s] = <<>> /\ conn[s].deriving = <<>>
                           /\ conn[s].cipher = Nil
         /\ \A k \in DOMAIN wire[s] :
              wire[s][k].seal # Nil => conn[Peer(s)].encryptionActive
         /\ M = "None" => conn[s].sessionKey = Nil

StaleInv == Stale =>
    LET r == conn["responder"]
        c == conn["initiator"]
    IN  /\ r.cipher = Nil /\ r.deriving = <<>>
        /\ r.open => r.authMode = "None" /\ r.sessionKey = Nil
        /\ c.deriving = <<>>
        /\ c.open => ~c.authSessionEstablished /\ ~c.authenticated
        /\ \A k \in DOMAIN wire["responder"] : ~IsStep(wire["responder"][k])

Waits(s, h, est) ==
    /\ conn[s].handler = h /\ conn[s].authSessionEstablished = est /\ conn[s].deriving = <<>>
    /\ conn[s].authMode = M /\ conn[s].encMode = E

GoodForInitiator(me, p) ==
    \/ /\ p.method = "ProceedToHandshake"
       /\ Challenged(me) /\ setup.fault # "provider"
       /\ p.data = B0(me).data /\ p.headers = HR
       /\ Waits("initiator", A0(me).handler, FALSE)
       /\ Hears("responder") => Waits("responder", B0(me).handler, FALSE)
    \/ /\ p.method = "SessionEstablished"
       /\ M = "None" /\ E = "None" /\ Waits("initiator", Nil, FALSE)
    \/ /\ p.method = "FinalHandshake"
       /\ Late /\ Accepted(me) /\ p.data = B1(me).data
       /\ setup.fault # "provider" /\ conn["initiator"].remoteHeaders = HR
       /\ Waits("initiator", A1(me).handler, FALSE)
       /\ Hears("responder") => Waits("responder", B1(me).handler, TRUE)
    \/ /\ p.method = "Established"
       /\ ~Late /\ Accepted(me) /\ Waits("initiator", A1(me).handler, TRUE)
GoodForResponder(me, p) ==
    \/ /\ p.method = "Initialize"
       /\ p.authMode = M /\ p.encMode = E /\ p.headers = HI
       /\ p.data = IF M = "None" THEN Nil ELSE A0(me).data
       /\ conn["responder"].handler = Nil /\ ~conn["responder"].authSessionEstablished
       /\ conn["responder"].deriving = <<>> /\ conn["responder"].authMode = "None"
       /\ conn["responder"].sessionKey = Nil /\ conn["responder"].localHeaders = NoHeaders
       /\ Hears("initiator") =>
            Waits("initiator", IF M = "None" THEN Nil ELSE A0(me).handler, FALSE)
    \/ /\ p.method = "Handshake"
       /\ Late /\ Answered(me) /\ p.data = A1(me).data
       /\ Waits("responder", B0(me).handler, FALSE)
       /\ Hears("initiator") => /\ Waits("initiator", A1(me).handler, FALSE)
                                /\ conn["initiator"].remoteHeaders = HR
    \/ /\ p.method = "FinalHandshake"
       /\ ~Late /\ Answered(me) /\ p.data = A1(me).data
       /\ Waits("responder", B0(me).handler, FALSE)
       /\ Hears("initiator") => Waits("initiator", A1(me).handler, TRUE)
    \/ /\ p.method = "Established"
       /\ Late /\ Finished(me) /\ Waits("responder", B1(me).handler, TRUE)
Good(me, s, p) == IF s = "initiator" THEN GoodForInitiator(me, p) ELSE GoodForResponder(me, p)

WireInv(me) ==
    \A s \in Side : Hears(s) =>
        \A k \in DOMAIN wire[s] : IsStep(wire[s][k]) =>
            /\ Good(me, s, wire[s][k])
            /\ \A j \in DOMAIN wire[s] : IsStep(wire[s][j]) => j = k
            /\ Hears(Peer(s)) => \A j \in DOMAIN wire[Peer(s)] : ~IsStep(wire[Peer(s)][j])

InitiatorInv(me) == conn["initiator"].open =>
    LET c == conn["initiator"] IN
    \/ c.authMode = "None" /\ c.sessionKey = Nil /\ (misread # "no" \/ E = "None")
    \/ /\ M # "None" /\ c.authMode = M /\ c.encMode = E /\ c.localHeaders = HI
       /\ c.authSessionEstablished =>
            /\ c.sessionKey = Last(me).key /\ Finished(me)
            /\ c.remoteHeaders = HR /\ setup.fault # "provider"
ResponderInv(me) == conn["responder"].open =>
    LET c == conn["responder"] IN
    \/ c.authMode = "None" /\ c.sessionKey = Nil
    \/ /\ M # "None" /\ c.authMode = M /\ c.encMode = E
       /\ c.localHeaders = HR /\ c.remoteHeaders = HI /\ setup.fault # "provider"
       /\ c.authSessionEstablished => c.sessionKey = B1(me).key /\ Accepted(me)
CipherInv(me, s) ==
    LET c == conn[s] IN
    /\ c.deriving # <<>> => /\ c.deriving = <<Context(me)>> /\ c.cipher = Nil
                            /\ c.open => c.authSessionEstablished
    /\ (c.cipher # Nil /\ c.cipherSession = session) => c.cipher = NewCipher(Context(me))
    /\ c.open /\ c.authenticated =>
            /\ c.authSessionEstablished
            /\ c.encMode # "None" => c.encryptionActive
    /\ c.open /\ c.encryptionActive => c.authenticated

Fresh(me) ==
    /\ WireInv(me) /\ InitiatorInv(me) /\ ResponderInv(me)
    /\ \A s \in Side : CipherInv(me, s)

IInv == /\ Always /\ StaleInv /\ NothingInTheClear
        /\ (session > 0 /\ ~Stale) => \E me \in Identities : Fresh(me)

-----------------------------------------------------------------------------
(***************************************************************************)
(* Steps that take no part in a handshake.                                 *)
(***************************************************************************)

(* There are two sides, each the peer of the other.                        *)
LEMMA SidesAre ==
    /\ Side = {"initiator", "responder"}
    /\ Peer("initiator") = "responder" /\ Peer("responder") = "initiator"
    /\ \A s \in Side : Peer(s) \in Side /\ Peer(s) # s /\ Peer(Peer(s)) = s
    /\ \A s, t \in Side : t = s \/ t = Peer(s)
BY DEF Side, Peer

(* The transcript depends on the setup and the session alone.              *)
LEMMA SameTranscript ==
    ASSUME UNCHANGED <<setup, session>>
    PROVE  /\ M' = M /\ E' = E /\ (Late <=> Late')
           /\ HI' = HI /\ HR' = HR
           /\ \A me : /\ A0(me)' = A0(me) /\ B0(me)' = B0(me) /\ A1(me)' = A1(me)
                      /\ B1(me)' = B1(me) /\ A2(me)' = A2(me) /\ Last(me)' = Last(me)
                      /\ Context(me)' = Context(me)
                      /\ Challenged(me)' <=> Challenged(me)
                      /\ Answered(me)' <=> Answered(me)
                      /\ Accepted(me)' <=> Accepted(me)
                      /\ Finished(me)' <=> Finished(me)
<1>1. M' = M /\ E' = E /\ Late' = Late
  BY DEF M, E, Late
<1>2. HI' = HI
  BY <1>1 DEF HI, Ciphers, CipherFault
<1>3. HR' = HR
  BY <1>1, <1>2 DEF HR, Ciphers, CipherFault
<1>4. \A s : Provider(s)' = Provider(s)
  BY DEF Provider, PasswordFault, UnknownFault
<1>5. ASSUME NEW me
      PROVE  /\ A0(me)' = A0(me) /\ B0(me)' = B0(me) /\ A1(me)' = A1(me)
             /\ B1(me)' = B1(me) /\ A2(me)' = A2(me) /\ Last(me)' = Last(me)
             /\ Context(me)' = Context(me)
             /\ Challenged(me)' = Challenged(me)
             /\ Answered(me)' = Answered(me)
             /\ Accepted(me)' = Accepted(me)
             /\ Finished(me)' = Finished(me)
  <2>1. \A s : AuthNonce(s)' = AuthNonce(s)
    BY DEF AuthNonce
  <2>2. A0(me)' = A0(me)
    BY <1>1, <1>4, <2>1 DEF A0
  <2>3. B0(me)' = B0(me)
    BY <1>1, <1>4, <2>1, <2>2 DEF B0
  <2>4. A1(me)' = A1(me)
    BY <1>1, <1>4, <2>2, <2>3 DEF A1
  <2>5. B1(me)' = B1(me)
    BY <1>1, <1>4, <2>3, <2>4 DEF B1
  <2>6. A2(me)' = A2(me)
    BY <1>1, <1>4, <2>4, <2>5 DEF A2
  <2>7. Last(me)' = Last(me)
    BY <1>1, <2>4, <2>6 DEF Last
  <2>8. Context(me)' = Context(me)
    BY <1>1, <1>2, <1>3, <2>5 DEF Context
  <2>9. Challenged(me)' = Challenged(me)
    BY <1>1, <2>3 DEF Challenged
  <2>10. Answered(me)' = Answered(me)
    BY <1>1, <2>4, <2>9 DEF Answered
  <2>11. Accepted(me)' = Accepted(me)
    BY <2>5, <2>10 DEF Accepted
  <2>12. Finished(me)' = Finished(me)
    BY <1>1, <2>6, <2>10, <2>11 DEF Finished
  <2> QED BY <2>2, <2>3, <2>4, <2>5, <2>6, <2>7, <2>8, <2>9, <2>10, <2>11, <2>12
<1> QED BY <1>1, <1>2, <1>3, <1>5

(* No step is on the wire that was not, and those that are keep their order. *)
Carried(q, r) ==
    \E n \in {0, 1} : \A k \in DOMAIN r : IsStep(r[k]) => k + n \in DOMAIN q /\ q[k + n] = r[k]

QuietSide(s) ==
    \/ Alike(conn[s], conn'[s])
    \/ Shut(conn[s], conn'[s])
    \/ ~conn[s].encryptionActive /\ Misled(conn[s], conn'[s]) /\ misread' # "no"

(* A step that takes no part in a handshake.                               *)
Quiet ==
    /\ UNCHANGED <<setup, session>>
    /\ misread # "no" => misread' # "no"
    /\ \A s \in Side :
         /\ QuietSide(s)
         /\ Hears(s)' \/ (Stale /\ s = "responder") => Carried(wire[s], wire'[s])
         /\ \A k \in DOMAIN wire'[s] : wire'[s][k].seal # Nil => conn[Peer(s)].encryptionActive
    /\ session = 0 => \A s \in Side : wire'[s] = <<>>
    /\ NothingInTheClear'

(* A quiet step leaves what is on the wire as good as it was.              *)
LEMMA QuietWire ==
    ASSUME Types, Types', Quiet, NEW me, WireInv(me)
    PROVE  WireInv(me)'
<1> USE DEF Quiet
<1>1. ASSUME NEW s \in Side, Hears(s)'
      PROVE  /\ Hears(s) /\ Carried(wire[s], wire'[s])
             /\ conn'[s].handler = conn[s].handler
             /\ conn'[s].authSessionEstablished = conn[s].authSessionEstablished
             /\ conn'[s].deriving = conn[s].deriving /\ conn'[s].authMode = conn[s].authMode
             /\ conn'[s].encMode = conn[s].encMode /\ conn'[s].sessionKey = conn[s].sessionKey
             /\ conn'[s].localHeaders = conn[s].localHeaders
             /\ conn'[s].remoteHeaders = conn[s].remoteHeaders
  <2>1. Alike(conn[s], conn'[s])
    BY <1>1 DEF QuietSide, Hears, Shut, Misled
  <2> QED BY <1>1, <2>1 DEF Hears, Alike
<1>2. ASSUME NEW s \in Side, Hears(s)', NEW k \in DOMAIN wire'[s], IsStep(wire'[s][k])
      PROVE  /\ Good(me, s, wire[s][k])'
             /\ \A j \in DOMAIN wire'[s] : IsStep(wire'[s][j]) => j = k
             /\ Hears(Peer(s))' => \A j \in DOMAIN wire'[Peer(s)] : ~IsStep(wire'[Peer(s)][j])
  <2>1. PICK n \in {0, 1} : \A j \in DOMAIN wire'[s] : IsStep(wire'[s][j]) =>
                              j + n \in DOMAIN wire[s] /\ wire[s][j + n] = wire'[s][j]
    BY <1>1, <1>2 DEF Carried
  <2>2. Hears(s) /\ k + n \in DOMAIN wire[s] /\ wire[s][k + n] = wire'[s][k]
    BY <1>1, <1>2, <2>1
  <2>3. /\ Good(me, s, wire[s][k + n])
        /\ \A j \in DOMAIN wire[s] : IsStep(wire[s][j]) => j = k + n
        /\ Hears(Peer(s)) => \A j \in DOMAIN wire[Peer(s)] : ~IsStep(wire[Peer(s)][j])
    BY <1>2, <2>2 DEF WireInv
  <2>4. \A j \in DOMAIN wire'[s] : IsStep(wire'[s][j]) => j = k
    <3> SUFFICES ASSUME NEW j \in DOMAIN wire'[s], IsStep(wire'[s][j]) PROVE j = k
      OBVIOUS
    <3>1. j + n = k + n
      BY <2>1, <2>3
    <3>2. \A q, S : q \in Seq(S) => DOMAIN q \subseteq Int
      OBVIOUS
    <3>3. DOMAIN wire'[s] \subseteq Int
      BY <3>2 DEF Types
    <3> QED BY <3>1, <3>3
  <2>5. ASSUME Hears(Peer(s))' PROVE \A j \in DOMAIN wire'[Peer(s)] : ~IsStep(wire'[Peer(s)][j])
    <3>1. Hears(Peer(s)) /\ Carried(wire[Peer(s)], wire'[Peer(s)])
      BY <1>1, <2>5, SidesAre
    <3> QED BY <2>3, <3>1 DEF Carried
  <2>6. Good(me, s, wire[s][k])'
    <3>0. PICK p : p = wire[s][k + n]
      OBVIOUS
    <3>1. Good(me, s, p) /\ wire'[s][k] = p
      BY <2>2, <2>3, <3>0
    <3>2. ASSUME NEW t \in Side, NEW h, NEW b, Waits(t, h, b), Hears(t)'
          PROVE  Waits(t, h, b)'
      BY <1>1, <3>2, SameTranscript DEF Waits
    <3>3. CASE s = "initiator"
      <4>1. GoodForInitiator(me, p) /\ Peer(s) = "responder"
        BY <3>1, <3>3, SidesAre DEF Good
      <4>2. Hears("responder")' => Hears("responder")
        BY <1>1, SidesAre
      <4>3. conn'["initiator"].remoteHeaders = conn["initiator"].remoteHeaders
        BY <1>1, <1>2, <3>3
      <4>4. \A h, b : Waits("initiator", h, b) => Waits("initiator", h, b)'
        BY <1>2, <3>2, <3>3
      <4>5. \A h, b : (Hears("responder") => Waits("responder", h, b)) =>
                      (Hears("responder")' => Waits("responder", h, b)')
        BY <3>2, <4>2, SidesAre
      <4>6. GoodForInitiator(me, p)'
        BY <4>1, <4>3, <4>4, <4>5, SameTranscript DEF GoodForInitiator
      <4>7. GoodForInitiator(me, wire[s][k])'
        BY <3>1, <4>6 DEF GoodForInitiator
      <4> QED BY <3>3, <4>7 DEF Good
    <3>4. CASE s = "responder"
      <4>1. GoodForResponder(me, p) /\ Peer(s) = "initiator"
        BY <3>1, <3>4, SidesAre DEF Good
      <4>2. Hears("initiator")' => /\ Hears("initiator")
                                   /\ conn'["initiator"].remoteHeaders = conn["initiator"].remoteHeaders
        BY <1>1, SidesAre
      <4>3. LET c == conn["responder"]
                d == conn'["responder"]
            IN  /\ d.handler = c.handler /\ d.authSessionEstablished = c.authSessionEstablished
                /\ d.deriving = c.deriving /\ d.authMode = c.authMode
                /\ d.sessionKey = c.sessionKey /\ d.localHeaders = c.localHeaders
        BY <1>1, <1>2, <3>4
      <4>4. \A h, b : Waits("responder", h, b) => Waits("responder", h, b)'
        BY <1>2, <3>2, <3>4
      <4>5. \A h, b : (Hears("initiator") => Waits("initiator", h, b)) =>
                      (Hears("initiator")' => Waits("initiator", h, b)')
        BY <3>2, <4>2, SidesAre
      <4>6. GoodForResponder(me, p)'
        <5>1. CASE p.method = "Initialize"
          BY <4>1, <4>3, <4>5, <5>1, SameTranscript DEF GoodForResponder
        <5>2. CASE p.method = "Handshake"
          BY <4>1, <4>2, <4>4, <4>5, <5>2, SameTranscript DEF GoodForResponder
        <5>3. CASE p.method = "FinalHandshake"
          BY <4>1, <4>4, <4>5, <5>3, SameTranscript DEF GoodForResponder
        <5>4. CASE p.method = "Established"
          BY <4>1, <4>4, <5>4, SameTranscript DEF GoodForResponder
        <5> QED BY <4>1, <5>1, <5>2, <5>3, <5>4 DEF GoodForResponder
      <4>7. GoodForResponder(me, wire[s][k])'
        BY <3>1, <4>6 DEF GoodForResponder
      <4> QED BY <3>4, <4>7 DEF Good
    <3> QED BY <3>3, <3>4, SidesAre
  <2> QED BY <2>4, <2>5, <2>6
<1>3. ASSUME NEW s \in Side, Hears(s)'
      PROVE  \A k \in DOMAIN wire'[s] : IsStep(wire'[s][k]) =>
                /\ Good(me, s, wire[s][k])'
                /\ \A j \in DOMAIN wire'[s] : IsStep(wire'[s][j]) => j = k
                /\ Hears(Peer(s))' => \A j \in DOMAIN wire'[Peer(s)] : ~IsStep(wire'[Peer(s)][j])
  BY <1>2, <1>3
<1> HIDE DEF Quiet
<1>4. \A s : Peer(s)' = Peer(s)
  BY DEF Peer
<1> QED BY <1>3, <1>4 DEF WireInv

(* A quiet step keeps the invariant.                                       *)
LEMMA QuietStep ==
    ASSUME Types, Types', Quiet, IInv
    PROVE  IInv'
<1> DEFINE i == conn["initiator"]
           r == conn["responder"]
<1>0. setup' = setup /\ session' = session /\ M' = M /\ E' = E
  BY SameTranscript DEF Quiet
<1>s. Side = {"initiator", "responder"} /\ Peer("initiator") = "responder" /\ Peer("responder") = "initiator"
  BY SidesAre
<1>1. \A s \in Side : /\ conn'[s].deriving \in {conn[s].deriving, <<>>}
                      /\ conn'[s].cipher = conn[s].cipher
                      /\ conn'[s].cipherSession = conn[s].cipherSession
                      /\ conn'[s].encryptionActive = conn[s].encryptionActive
                      /\ conn'[s].open => conn[s].open
                      /\ \/ conn'[s].localIdentity = conn[s].localIdentity /\ conn'[s].sessionKey = conn[s].sessionKey
                         \/ conn'[s].localIdentity = Nil /\ conn'[s].sessionKey = Nil
  BY DEF Quiet, QuietSide, Alike, Shut, Misled
<1>2. Stale' <=> Stale
  BY <1>0, <1>1, <1>s DEF Stale
<1>3. Always'
  <2>1. conn'["initiator"].localIdentity \in Identities'
    BY <1>1, <1>s DEF Always, IInv, Identities
  <2>2. ASSUME NEW s \in Side
        PROVE  /\ conn'[s].encryptionActive <=> conn'[s].cipher # Nil
               /\ conn'[s].cipherSession \in 0 .. session'
               /\ conn'[s].cipher = Nil => conn'[s].cipherSession = 0
               /\ session' = 0 => /\ ~conn'[s].open /\ conn'[s].deriving = <<>>
                                  /\ conn'[s].cipher = Nil
               /\ M' = "None" => conn'[s].sessionKey = Nil
    BY <1>0, <1>1, <2>2 DEF Always, IInv
  <2>3. ASSUME NEW s \in Side
        PROVE  /\ session' = 0 => wire'[s] = <<>>
               /\ \A k \in DOMAIN wire'[s] :
                     wire'[s][k].seal # Nil => conn'[Peer(s)].encryptionActive
    BY <1>0, <1>1, <2>3, SidesAre DEF Quiet
  <2> QED BY <2>1, <2>2, <2>3, <1>s DEF Always, Peer
<1>4. StaleInv'
  <2> SUFFICES ASSUME Stale, Stale'
               PROVE  LET c == conn["initiator"]'
                          q == conn["responder"]'
                      IN  /\ q.cipher = Nil /\ q.deriving = <<>>
                          /\ q.open => q.authMode = "None" /\ q.sessionKey = Nil
                          /\ c.deriving = <<>>
                          /\ c.open => ~c.authSessionEstablished /\ ~c.authenticated
                          /\ \A k \in DOMAIN wire["responder"]' : ~IsStep(wire'["responder"][k])
    BY <1>2 DEF StaleInv
  <2>1. StaleInv /\ Always
    BY DEF IInv
  <2>2. /\ conn'["responder"].cipher = Nil /\ conn'["responder"].deriving = <<>>
        /\ conn'["initiator"].deriving = <<>>
    BY <1>1, <1>s, <2>1 DEF StaleInv
  <2>3. conn'["responder"].open => conn'["responder"].authMode = "None" /\ conn'["responder"].sessionKey = Nil
    <3>1. QuietSide("responder")
      BY <1>s DEF Quiet
    <3> QED BY <1>s, <2>1, <3>1 DEF QuietSide, StaleInv, Alike, Shut, Misled
  <2>4. conn'["initiator"].open => ~conn'["initiator"].authSessionEstablished /\ ~conn'["initiator"].authenticated
    <3>1. QuietSide("initiator")
      BY <1>s DEF Quiet
    <3>2. i.encryptionActive
      BY DEF Stale
    <3> QED BY <1>s, <2>1, <3>1, <3>2 DEF QuietSide, StaleInv, Alike, Shut, Misled
  <2>5. \A k \in DOMAIN wire["responder"]' : ~IsStep(wire'["responder"][k])
    <3>1. Carried(wire["responder"], wire'["responder"])
      BY <1>s DEF Quiet
    <3> QED BY <2>1, <3>1 DEF Carried, StaleInv
  <2> QED BY <2>2, <2>3, <2>4, <2>5
<1>5. ASSUME session' > 0, ~Stale'
      PROVE  \E me \in Identities' : Fresh(me)'
  <2>1. PICK me \in Identities : Fresh(me)
    BY <1>0, <1>2, <1>5 DEF IInv
  <2>2. WireInv(me)'
    BY <2>1, QuietWire DEF Fresh
  <2>3. InitiatorInv(me)'
    <3>1. QuietSide("initiator") /\ InitiatorInv(me) /\ (misread # "no" => misread' # "no")
      BY <1>s, <2>1 DEF Quiet, Fresh
    <3>2. CASE Alike(conn["initiator"], conn'["initiator"])
      BY <1>0, <3>1, <3>2, SameTranscript DEF InitiatorInv, Alike
    <3>3. CASE Shut(conn["initiator"], conn'["initiator"])
      BY <3>3 DEF InitiatorInv, Shut
    <3>4. CASE Misled(conn["initiator"], conn'["initiator"]) /\ misread' # "no"
      BY <3>4 DEF InitiatorInv, Misled
    <3> QED BY <3>1, <3>2, <3>3, <3>4 DEF QuietSide
  <2>4. ResponderInv(me)'
    <3>1. QuietSide("responder") /\ ResponderInv(me)
      BY <1>s, <2>1 DEF Quiet, Fresh
    <3>2. CASE Alike(conn["responder"], conn'["responder"])
      BY <1>0, <3>1, <3>2, SameTranscript DEF ResponderInv, Alike
    <3>3. CASE Shut(conn["responder"], conn'["responder"])
      BY <3>3 DEF ResponderInv, Shut
    <3>4. CASE Misled(conn["responder"], conn'["responder"])
      BY <3>4 DEF ResponderInv, Misled
    <3> QED BY <3>1, <3>2, <3>3, <3>4 DEF QuietSide
  <2>5. ASSUME NEW s \in Side PROVE CipherInv(me, s)'
    <3>1. CipherInv(me, s) /\ QuietSide(s)
      BY <2>1, <2>5 DEF Fresh, Quiet
    <3>2. Context(me)' = Context(me)
      BY <1>0, SameTranscript
    <3>3. CASE Alike(conn[s], conn'[s])
      BY <1>0, <3>1, <3>2, <3>3 DEF CipherInv, Alike
    <3>4. CASE Shut(conn[s], conn'[s])
      BY <1>0, <3>1, <3>2, <3>4 DEF CipherInv, Shut
    <3>5. CASE Misled(conn[s], conn'[s])
      BY <1>0, <3>1, <3>2, <3>5 DEF CipherInv, Misled
    <3> QED BY <3>1, <3>3, <3>4, <3>5 DEF QuietSide
  <2> QED BY <2>1, <2>2, <2>3, <2>4, <2>5 DEF Fresh, Identities
<1> QED BY <1>3, <1>4, <1>5 DEF IInv, Quiet

-----------------------------------------------------------------------------
(***************************************************************************)
(* What sending and receiving do to the wire.                              *)
(***************************************************************************)

(* Packets that are no steps may be added behind.                          *)
LEMMA CarriedByAppend ==
    ASSUME NEW S, NEW q \in Seq(S), NEW T, NEW out \in Seq(T),
           \A k \in DOMAIN out : ~IsStep(out[k])
    PROVE  Carried(q, q \o out)
<1>1. q \in Seq(S \cup T) /\ out \in Seq(S \cup T)
  OBVIOUS
<1>2. ASSUME NEW k \in DOMAIN (q \o out), IsStep((q \o out)[k])
      PROVE  k + 0 \in DOMAIN q /\ q[k + 0] = (q \o out)[k]
  <2>1. \/ k \in DOMAIN q /\ (q \o out)[k] = q[k]
        \/ k - Len(q) \in DOMAIN out /\ (q \o out)[k] = out[k - Len(q)]
    BY <1>1
  <2>2. k \in Int
    BY <1>1
  <2> QED BY <1>2, <2>1, <2>2
<1> QED BY <1>2 DEF Carried

(* A packet may be taken off the front.                                    *)
LEMMA CarriedByTail ==
    ASSUME NEW S, NEW q \in Seq(S), q # <<>>
    PROVE  Carried(q, Tail(q))
<1>1. \A k \in DOMAIN Tail(q) : k + 1 \in DOMAIN q /\ Tail(q)[k] = q[k + 1]
  OBVIOUS
<1> QED BY <1>1 DEF Carried

(* Where the packets of two sequences joined come from.                    *)
LEMMA Appended ==
    ASSUME NEW S, NEW q \in Seq(S), NEW T, NEW out \in Seq(T)
    PROVE  /\ \E U : q \o out \in Seq(U)
           /\ \A k \in DOMAIN (q \o out) :
                \/ k \in DOMAIN q /\ (q \o out)[k] = q[k]
                \/ k - Len(q) \in DOMAIN out /\ (q \o out)[k] = out[k - Len(q)]
<1>1. q \in Seq(S \cup T) /\ out \in Seq(S \cup T)
  OBVIOUS
<1>2. q \o out \in Seq(S \cup T)
  BY <1>1
<1> QED BY <1>1, <1>2

(* Where the packets of a sequence without its first come from.            *)
LEMMA Tailed ==
    ASSUME NEW S, NEW q \in Seq(S), q # <<>>
    PROVE  /\ \E U : Tail(q) \in Seq(U)
           /\ \A k \in DOMAIN Tail(q) : k + 1 \in DOMAIN q /\ Tail(q)[k] = q[k + 1]
           /\ Len(q) >= 1 /\ 1 \in DOMAIN q /\ Head(q) = q[1]
<1>1. Tail(q) \in Seq(S)
  OBVIOUS
<1> QED BY <1>1

(* What a step of side s leaves: its connection, the rest of its packets,  *)
(* and what it sent.                                                       *)
Took(s) == wire[s] # <<>> /\ wire'[s] = Tail(wire[s])
Delivered(s, d, out) ==
    /\ conn' = [conn EXCEPT ![s] = d]
    /\ \/ /\ wire[s] # <<>>
          /\ wire' = [wire EXCEPT ![s] = Tail(@), ![Peer(s)] = @ \o out]
       \/ wire' = [wire EXCEPT ![Peer(s)] = @ \o out]

(* What such a step leaves of each side.                                   *)
LEMMA DeliveredIs ==
    ASSUME Types, NEW s \in Side, NEW d, NEW out, DOMAIN d = Fields, \E S : out \in Seq(S),
           Delivered(s, d, out), UNCHANGED <<setup, session>>, misread' \in {"no", "stale", "early"}
    PROVE  /\ Types'
           /\ conn'[s] = d /\ conn'[Peer(s)] = conn[Peer(s)]
           /\ wire'[s] = wire[s] \/ Took(s)
           /\ wire'[Peer(s)] = wire[Peer(s)] \o out
<1>1. Peer(s) \in Side /\ Peer(s) # s /\ \A t \in Side : t = s \/ t = Peer(s)
  BY SidesAre
<1>2. /\ conn'[s] = d /\ conn'[Peer(s)] = conn[Peer(s)]
      /\ conn' = [t \in Side |-> conn'[t]] /\ wire' = [t \in Side |-> wire'[t]]
      /\ wire'[s] = wire[s] \/ Took(s)
      /\ wire'[Peer(s)] = wire[Peer(s)] \o out
  <2>1. conn = [t \in Side |-> conn[t]] /\ wire = [t \in Side |-> wire[t]]
    BY DEF Types
  <2>2. conn'[s] = d /\ conn'[Peer(s)] = conn[Peer(s)] /\ conn' = [t \in Side |-> conn'[t]]
    BY <1>1, <2>1 DEF Delivered
  <2>3. CASE wire[s] # <<>> /\ wire' = [wire EXCEPT ![s] = Tail(@), ![Peer(s)] = @ \o out]
    <3>1. wire' = [wire EXCEPT ![s] = Tail(wire[s]), ![Peer(s)] = wire[Peer(s)] \o out]
      BY <1>1, <2>3
    <3>2. DOMAIN wire = Side /\ DOMAIN wire' = Side
      BY <2>1, <3>1
    <3>3. wire'[s] = Tail(wire[s]) /\ wire'[Peer(s)] = wire[Peer(s)] \o out
      BY <1>1, <3>1, <3>2
    <3>4. wire' = [t \in Side |-> wire'[t]]
      BY <2>1, <3>1
    <3> QED BY <2>2, <2>3, <3>3, <3>4 DEF Took
  <2>4. CASE wire' = [wire EXCEPT ![Peer(s)] = @ \o out]
    <3>1. DOMAIN wire = Side /\ DOMAIN wire' = Side
      BY <2>1, <2>4
    <3>2. wire'[s] = wire[s] /\ wire'[Peer(s)] = wire[Peer(s)] \o out
      BY <1>1, <2>4, <3>1
    <3>3. wire' = [t \in Side |-> wire'[t]]
      BY <2>1, <2>4
    <3> QED BY <2>2, <3>2, <3>3
  <2> QED BY <2>2, <2>3, <2>4 DEF Delivered
<1>3. \E S : wire'[s] \in Seq(S)
  <2>1. PICK S : wire[s] \in Seq(S)
    BY DEF Types
  <2>2. Took(s) => \E U : Tail(wire[s]) \in Seq(U)
    BY <2>1, Tailed DEF Took
  <2> QED BY <1>2, <2>1, <2>2 DEF Took
<1>4. \E S : wire'[Peer(s)] \in Seq(S)
  BY <1>1, <1>2, Appended DEF Types
<1>5. \A t \in Side : DOMAIN conn'[t] = Fields
  BY <1>1, <1>2 DEF Types
<1> QED BY <1>1, <1>2, <1>3, <1>4, <1>5 DEF Types

(* Such a step seals only with an active cipher, and the initiator lets no *)
(* request out in the clear.                                               *)
LEMMA WireAfter ==
    ASSUME Types, IInv, NEW s \in Side, NEW d, NEW out, DOMAIN d = Fields, \E S : out \in Seq(S),
           Delivered(s, d, out), UNCHANGED <<setup, session>>,
           misread' \in {"no", "stale", "early"}, misread # "no" => misread' # "no",
           \A k \in DOMAIN out : out[k].seal # Nil => conn[s].encryptionActive,
           (s = "initiator" /\ E # "None" /\ misread' = "no")
                => \A k \in DOMAIN out : out[k].method = "request" => out[k].seal # Nil
    PROVE  /\ \A k \in DOMAIN wire'[s] : wire'[s][k].seal # Nil => conn[Peer(s)].encryptionActive
           /\ \A k \in DOMAIN wire'[Peer(s)] :
                wire'[Peer(s)][k].seal # Nil => conn[s].encryptionActive
           /\ NothingInTheClear'
<1>0. Peer(s) \in Side /\ Peer(s) # s /\ Peer(Peer(s)) = s /\ \A t \in Side : t = s \/ t = Peer(s)
  BY SidesAre
<1>2. /\ Types'
      /\ conn'[s] = d /\ conn'[Peer(s)] = conn[Peer(s)]
      /\ wire'[s] = wire[s] \/ Took(s)
      /\ wire'[Peer(s)] = wire[Peer(s)] \o out
  BY DeliveredIs
<1>3. PICK S : wire[s] \in Seq(S)
  BY DEF Types
<1>4. PICK T : wire[Peer(s)] \in Seq(T)
  BY <1>0 DEF Types
<1>5. PICK U : out \in Seq(U)
  OBVIOUS
<1>9. \A k \in DOMAIN wire'[s] : wire'[s][k].seal # Nil => conn[Peer(s)].encryptionActive
  <2>1. \A k \in DOMAIN wire[s] : wire[s][k].seal # Nil => conn[Peer(s)].encryptionActive
    BY DEF IInv, Always
  <2>2. Took(s) => \A k \in DOMAIN Tail(wire[s]) : k + 1 \in DOMAIN wire[s] /\ Tail(wire[s])[k] = wire[s][k + 1]
    BY <1>3, Tailed DEF Took
  <2>3. CASE Took(s)
    BY <2>1, <2>2, <2>3 DEF Took
  <2> QED BY <1>2, <2>1, <2>3
<1>10. \A k \in DOMAIN wire'[Peer(s)] : wire'[Peer(s)][k].seal # Nil => conn[s].encryptionActive
  <2>1. \A k \in DOMAIN wire[Peer(s)] : wire[Peer(s)][k].seal # Nil => conn[s].encryptionActive
    BY <1>0 DEF IInv, Always
  <2> QED BY <1>2, <1>4, <1>5, <2>1, Appended
<1>11. NothingInTheClear'
  <2> SUFFICES ASSUME setup'.encMode # "None", misread' = "no", NEW k \in DOMAIN wire'["responder"],
                      wire'["responder"][k].method = "request"
               PROVE  wire'["responder"][k].seal # Nil
    <3>1. \E V : wire'["responder"] \in Seq(V)
      BY <1>2, SidesAre DEF Types
    <3>2. DOMAIN wire'["responder"] = 1 .. Len(wire'["responder"])
      BY <3>1
    <3> QED BY <3>2 DEF NothingInTheClear
  <2>1. \A j \in DOMAIN wire["responder"] : wire["responder"][j].method = "request" => wire["responder"][j].seal # Nil
    <3>1. \E V : wire["responder"] \in Seq(V)
      BY SidesAre DEF Types
    <3>2. DOMAIN wire["responder"] = 1 .. Len(wire["responder"])
      BY <3>1
    <3> QED BY <3>2 DEF NothingInTheClear, IInv
  <2>2. CASE s = "responder"
    <3>1. Took(s) => \A j \in DOMAIN Tail(wire[s]) : j + 1 \in DOMAIN wire[s] /\ Tail(wire[s])[j] = wire[s][j + 1]
      BY <1>3, Tailed DEF Took
    <3>2. CASE Took(s)
      BY <2>1, <2>2, <3>1, <3>2 DEF Took
    <3> QED BY <1>2, <2>1, <2>2, <3>2
  <2>3. CASE s = "initiator"
    <3>1. Peer(s) = "responder" /\ E # "None"
      BY <2>3, SidesAre DEF E
    <3>2. wire'["responder"] = wire["responder"] \o out
      BY <1>2, <3>1
    <3>3. \/ k \in DOMAIN wire["responder"] /\ wire'["responder"][k] = wire["responder"][k]
          \/ k - Len(wire["responder"]) \in DOMAIN out
             /\ wire'["responder"][k] = out[k - Len(wire["responder"])]
      BY <1>4, <1>5, <3>1, <3>2, Appended
    <3> QED BY <2>1, <2>3, <3>1, <3>3
  <2> QED BY <2>2, <2>3, SidesAre
<1> QED BY <1>9, <1>10, <1>11

(* A step of one side that leaves its handshake alone, closes it, or lets  *)
(* a record mislead it, keeps the invariant.                               *)
LEMMA QuietDelivery ==
    ASSUME Types, IInv, session > 0, NEW s \in Side, NEW d, NEW out, Delivered(s, d, out),
           UNCHANGED <<setup, session>>,
           misread' \in {"no", "stale", "early"}, misread # "no" => misread' # "no",
           \/ Alike(conn[s], d) \/ Shut(conn[s], d)
           \/ ~conn[s].encryptionActive /\ Misled(conn[s], d) /\ misread' # "no",
           \E S : out \in Seq(S),
           \A k \in DOMAIN out : out[k].seal # Nil => conn[s].encryptionActive,
           Hears(Peer(s)) \/ (Stale /\ Peer(s) = "responder") => \A k \in DOMAIN out : ~IsStep(out[k]),
           (s = "initiator" /\ E # "None" /\ misread' = "no")
                => \A k \in DOMAIN out : out[k].method = "request" => out[k].seal # Nil
    PROVE  Types' /\ IInv'
<1>0. Peer(s) \in Side /\ Peer(s) # s /\ Peer(Peer(s)) = s /\ \A t \in Side : t = s \/ t = Peer(s)
  BY SidesAre
<1>1. DOMAIN d = Fields
  BY DEF Alike, Shut, Misled
<1>2. /\ Types'
      /\ conn'[s] = d /\ conn'[Peer(s)] = conn[Peer(s)]
      /\ wire'[s] = wire[s] \/ Took(s)
      /\ wire'[Peer(s)] = wire[Peer(s)] \o out
  BY <1>1, DeliveredIs
<1>3. PICK S : wire[s] \in Seq(S)
  BY DEF Types
<1>4. PICK T : wire[Peer(s)] \in Seq(T)
  BY <1>0 DEF Types
<1>5. PICK U : out \in Seq(U)
  OBVIOUS
<1>6. QuietSide(s) /\ QuietSide(Peer(s))
  <2>1. Alike(conn[Peer(s)], conn'[Peer(s)])
    BY <1>0, <1>2 DEF Alike, Types
  <2> QED BY <1>2, <2>1 DEF QuietSide
<1>7. Carried(wire[s], wire'[s])
  <2>1. Carried(wire[s], wire[s])
    <3>1. \A k \in DOMAIN wire[s] : k + 0 = k
      BY <1>3
    <3> QED BY <3>1 DEF Carried
  <2> QED BY <1>2, <1>3, <2>1, CarriedByTail DEF Took
<1>8. Hears(Peer(s))' \/ (Stale /\ Peer(s) = "responder") => Carried(wire[Peer(s)], wire'[Peer(s)])
  <2>0. \A t : Hears(t)' <=> (conn'[t].open /\ ~conn'[t].authenticated /\ ~conn'[t].encryptionActive)
    BY DEF Hears
  <2>1. (conn'[Peer(s)].open /\ ~conn'[Peer(s)].authenticated /\ ~conn'[Peer(s)].encryptionActive) <=> Hears(Peer(s))
    BY <1>2 DEF Hears
  <2>3. Peer(s)' = Peer(s)
    BY DEF Peer
  <2>4. Hears(Peer(s))' <=> Hears(Peer(s))
    BY <2>1, <2>3 DEF Hears
  <2> QED BY <1>2, <1>4, <1>5, <2>4, CarriedByAppend
<1>9. /\ \A k \in DOMAIN wire'[s] : wire'[s][k].seal # Nil => conn[Peer(s)].encryptionActive
      /\ \A k \in DOMAIN wire'[Peer(s)] :
           wire'[Peer(s)][k].seal # Nil => conn[s].encryptionActive
      /\ NothingInTheClear'
  BY <1>1, WireAfter
<1>12. Quiet
  <2>1. ASSUME NEW t \in Side
        PROVE  /\ QuietSide(t)
               /\ Hears(t)' \/ (Stale /\ t = "responder") => Carried(wire[t], wire'[t])
               /\ \A k \in DOMAIN wire'[t] : wire'[t][k].seal # Nil => conn[Peer(t)].encryptionActive
    <3>1. CASE t = s
      BY <1>6, <1>7, <1>9, <3>1
    <3>2. CASE t = Peer(s)
      <4>1. Peer(t) = s
        BY <1>0, <3>2
      <4>2. Hears(t)' => Hears(Peer(s))'
        BY <3>2 DEF Hears, Peer
      <4> QED BY <1>6, <1>8, <1>9, <3>2, <4>1, <4>2
    <3> QED BY <1>0, <3>1, <3>2
  <2>2. session # 0
    OBVIOUS
  <2> QED BY <1>9, <2>1, <2>2 DEF Quiet
<1> QED BY <1>2, <1>12, QuietStep

-----------------------------------------------------------------------------
(***************************************************************************)
(* The actions that only send, or close.                                   *)
(***************************************************************************)

(* A step of one side that at most closes it keeps the invariant.          *)
LEMMA ClosingStep ==
    ASSUME Types, IInv, session > 0, NEW s \in Side, NEW d, NEW out, Delivered(s, d, out),
           UNCHANGED <<setup, session>>,
           misread' \in {"no", "stale", "early"}, misread # "no" => misread' # "no",
           Alike(conn[s], d) \/ Shut(conn[s], d), Incidental(conn[s], out)
    PROVE  Types' /\ IInv'
<1>1. /\ \E S : out \in Seq(S)
      /\ \A k \in DOMAIN out : /\ out[k].seal # Nil => conn[s].encryptionActive
                               /\ ~IsStep(out[k]) /\ out[k].method # "request"
  BY DEF Incidental
<1> QED BY <1>1, QuietDelivery

(* A side that is open, derives or has packets waiting is in some session. *)
LEMMA OpenIsCounted ==
    ASSUME Types, IInv, NEW s \in Side, conn[s].open \/ conn[s].deriving # <<>> \/ wire[s] # <<>>
    PROVE  session > 0
BY DEF Types, IInv, Always

(* A record read as the packet it resembles closes the side or lets it in  *)
(* without authentication.                                                 *)
LEMMA MisreadIs ==
    ASSUME NEW s, NEW c, DOMAIN c = Fields, ~c.encryptionActive, ~c.authenticated
    PROVE  LET t == Misread(s, c) IN
           \/ Shut(c, t.c) /\ Incidental(c, t.out)
           \/ /\ Misled(c, t.c)
              /\ \E q : t.out = <<q>> /\ q.seal = Nil /\ q.method = "SessionEstablished"
<1> DEFINE p == Plain("Initialize", Nil)
           c1 == [c EXCEPT !.remoteHeaders = p.headers]
           n == Negotiate(s, c1, p)
           t == Misread(s, c)
           sent == Send(s, n, Packet("SessionEstablished", n.localHeaders, Nil))
           e == [sent.c EXCEPT !.authMode = "None"]
           f == StoreAuthenticationResult(e, Nil, Nil, Nil)
           g == CompleteAuthentication(s, f)
<1>1. t = HandleAuthInitialize(s, c, p)
  BY DEF Misread
<1>2. p.encMode = "None" /\ p.authMode = "None"
  BY DEF Plain, Packet
<1>3. n = [c1 EXCEPT !.encMode = "None"]
  BY <1>2 DEF Negotiate
<1>4. Negotiable(s, p)
  BY <1>2 DEF Negotiable
<1>5. t = IF ~setup.allowUnauthorized THEN FailAuthentication(s, n, FALSE) ELSE Step(g, sent.out)
  BY <1>1, <1>2, <1>4 DEF HandleAuthInitialize
<1>6. /\ DOMAIN n = Fields
      /\ n.open = c.open /\ n.localIdentity = c.localIdentity /\ n.sessionKey = c.sessionKey
      /\ n.deriving = c.deriving /\ n.cipher = c.cipher /\ n.encMode = "None"
      /\ n.cipherSession = c.cipherSession /\ n.encryptionActive = c.encryptionActive
  BY <1>3 DEF Fields
<1> HIDE DEF p, c1, n
<1>7. CASE ~setup.allowUnauthorized
  <2>1. Shut(n, t.c) /\ Incidental(n, t.out)
    BY <1>5, <1>6, <1>7, FailShuts
  <2>2. Shut(c, t.c)
    BY <1>6, <2>1 DEF Shut
  <2>3. Incidental(c, t.out)
    BY <1>6, <2>1 DEF Incidental
  <2> QED BY <2>2, <2>3
<1>8. CASE setup.allowUnauthorized
  <2>0. ~(n.encryptionActive /\ n.cipher # Nil)
    BY <1>6
  <2>1. /\ sent.c = n
        /\ sent.out = <<Packet("SessionEstablished", n.localHeaders, Nil)>>
    BY <1>6, <2>0, SendIs
  <2> HIDE DEF sent
  <2>2. /\ DOMAIN e = Fields
        /\ e.open = c.open
        /\ e.deriving = c.deriving /\ e.cipher = c.cipher /\ e.encMode = "None"
        /\ e.authMode = "None"
        /\ e.cipherSession = c.cipherSession /\ e.encryptionActive = c.encryptionActive
    BY <1>6, <2>1 DEF Fields
  <2> HIDE DEF e
  <2>3. /\ DOMAIN f = Fields
        /\ f.open = c.open /\ f.authSessionEstablished
        /\ f.localIdentity = Nil /\ f.sessionKey = Nil
        /\ f.deriving = c.deriving /\ f.cipher = c.cipher /\ f.encMode = "None"
        /\ f.authMode = "None"
        /\ f.cipherSession = c.cipherSession /\ f.encryptionActive = c.encryptionActive
    BY <2>2, StoreIs
  <2> HIDE DEF f
  <2>4. Misled(c, g)
    BY <2>3, CompleteIs DEF Misled
  <2> HIDE DEF g
  <2>5. t.c = g /\ t.out = sent.out
    BY <1>5, <1>8 DEF Step
  <2>6. /\ Packet("SessionEstablished", n.localHeaders, Nil).seal = Nil
        /\ Packet("SessionEstablished", n.localHeaders, Nil).method = "SessionEstablished"
    BY DEF Packet
  <2>7. \E q : sent.out = <<q>> /\ q.seal = Nil /\ q.method = "SessionEstablished"
    BY <2>1, <2>6
  <2>8. Misled(c, t.c) /\ \E q : t.out = <<q>> /\ q.seal = Nil /\ q.method = "SessionEstablished"
    BY <2>4, <2>5, <2>7
  <2> QED BY <2>8
<1> QED BY <1>7, <1>8

(* handleAuthPacket closes on a packet that starts or goes on with         *)
(* nothing.                                                                *)
LEMMA UnwantedCloses ==
    ASSUME NEW s, NEW c, DOMAIN c = Fields, NEW p, p.method \notin Steps
    PROVE  LET t == HandleAuthPacket(s, c, p) IN Shut(c, t.c) /\ Incidental(c, t.out)
<1>1. CASE p.method \in {"Denied", "NotSupported"}
  <2>1. HandleAuthPacket(s, c, p) = HandleAuthAcknowledge(s, c, p)
    BY <1>1 DEF HandleAuthPacket
  <2>2. HandleAuthAcknowledge(s, c, p) = FailAuthentication(s, c, TRUE)
    BY <1>1 DEF HandleAuthAcknowledge
  <2> QED BY <2>1, <2>2, FailShuts
<1>2. CASE p.method \notin {"Denied", "NotSupported"}
  <2>1. HandleAuthPacket(s, c, p) = HandleAuthEvent(s, c, p)
    BY <1>2 DEF HandleAuthPacket, Steps
  <2>2. HandleAuthEvent(s, c, p) = FailAuthentication(s, c, TRUE)
    BY DEF HandleAuthEvent, Steps
  <2> QED BY <2>1, <2>2, FailShuts
<1> QED BY <1>1, <1>2

(* A request keeps the invariant.                                          *)
LEMMA RequestStep ==
    ASSUME Types, IInv, NEW s \in Side, Request(s)
    PROVE  Types' /\ IInv'
<1> DEFINE c == [conn[s] EXCEPT !.sent = @ + 1]
           p == Packet("request", NoHeaders, c.sent)
           t == Send(s, c, p)
           q == Sealed(s, c, p)
<1>0. DOMAIN conn[s] = Fields
  BY DEF Types
<1>1. Alike(conn[s], c)
  BY <1>0 DEF Alike, Fields
<1>2. /\ conn[s].open /\ conn[s].authenticated
      /\ conn' = [conn EXCEPT ![s] = t.c]
      /\ wire' = [wire EXCEPT ![Peer(s)] = @ \o t.out]
      /\ UNCHANGED <<setup, session, drops, misread>>
  BY DEF Request, Plain
<1> HIDE DEF c
<1>3. /\ t.out = <<q>> /\ Alike(c, t.c) /\ q.method = "request"
      /\ q.seal # Nil <=> (c.encryptionActive /\ c.cipher # Nil)
  <2>1. DOMAIN c = Fields
    BY <1>1 DEF Alike
  <2> QED BY <2>1, SendIs
<1> HIDE DEF t, q
<1>4. Alike(conn[s], t.c) /\ (q.seal # Nil <=> (conn[s].encryptionActive /\ conn[s].cipher # Nil))
  BY <1>1, <1>3 DEF Alike
<1>5. session > 0
  BY <1>2, OpenIsCounted
<1>6. Delivered(s, t.c, t.out)
  BY <1>2 DEF Delivered
<1>7. t.out \in Seq({q}) /\ \A k \in DOMAIN t.out : t.out[k] = q
  BY <1>3
<1>8. ~IsStep(q)
  BY <1>3 DEF IsStep, Steps
<1>9. (s = "initiator" /\ E # "None" /\ misread' = "no") => q.seal # Nil
  <2> SUFFICES ASSUME s = "initiator", E # "None", misread = "no" PROVE conn[s].encryptionActive /\ conn[s].cipher # Nil
    BY <1>2, <1>4
  <2>1. ~Stale
    BY <1>2 DEF IInv, StaleInv
  <2>2. PICK me \in Identities : Fresh(me)
    BY <1>5, <2>1 DEF IInv
  <2>3. conn[s].encMode = E
    BY <1>2, <2>2 DEF Fresh, InitiatorInv
  <2>4. conn[s].encryptionActive
    BY <1>2, <2>2, <2>3 DEF Fresh, CipherInv
  <2> QED BY <2>4 DEF IInv, Always
<1>10. misread' \in {"no", "stale", "early"} /\ (misread # "no" => misread' # "no")
  BY <1>2 DEF Types
<1>11. \A k \in DOMAIN t.out : t.out[k].seal # Nil => conn[s].encryptionActive
  BY <1>4, <1>7
<1>12. /\ \A k \in DOMAIN t.out : ~IsStep(t.out[k])
       /\ (s = "initiator" /\ E # "None" /\ misread' = "no")
                => \A k \in DOMAIN t.out : t.out[k].method = "request" => t.out[k].seal # Nil
  BY <1>7, <1>8, <1>9
<1> QED BY <1>2, <1>4, <1>5, <1>6, <1>7, <1>10, <1>11, <1>12, QuietDelivery

(* The authentication timeout keeps the invariant.                         *)
LEMMA TimeoutStep ==
    ASSUME Types, IInv, NEW s \in Side, Timeout(s)
    PROVE  Types' /\ IInv'
<1> DEFINE t == FailAuthentication(s, conn[s], TRUE)
<1>1. /\ conn[s].open
      /\ conn' = [conn EXCEPT ![s] = t.c]
      /\ wire' = [wire EXCEPT ![Peer(s)] = @ \o t.out]
      /\ UNCHANGED <<setup, session, drops, misread>>
  BY DEF Timeout
<1>2. Shut(conn[s], t.c) /\ Incidental(conn[s], t.out)
  BY FailShuts DEF Types
<1> HIDE DEF t
<1>3. session > 0 /\ Delivered(s, t.c, t.out)
  BY <1>1, OpenIsCounted DEF Delivered
<1>4. misread' \in {"no", "stale", "early"} /\ (misread # "no" => misread' # "no")
  BY <1>1 DEF Types
<1> QED BY <1>1, <1>2, <1>3, <1>4, ClosingStep

(* Closing a connection keeps the invariant.                               *)
LEMMA CloseConnectionStep ==
    ASSUME Types, IInv, NEW s \in Side, CloseConnection(s)
    PROVE  Types' /\ IInv'
<1> DEFINE t == Close(Step(conn[s], <<>>))
<1>1. /\ conn[s].open
      /\ conn' = [conn EXCEPT ![s] = t.c]
      /\ wire' = [wire EXCEPT ![Peer(s)] = @ \o t.out]
      /\ UNCHANGED <<setup, session, drops, misread>>
  BY DEF CloseConnection
<1>2. Shut(conn[s], t.c) /\ Incidental(conn[s], t.out)
  <2>1. Step(conn[s], <<>>).c = conn[s] /\ Step(conn[s], <<>>).out = <<>>
    BY DEF Step
  <2>2. DOMAIN conn[s] = Fields
    BY DEF Types
  <2> QED BY <2>1, <2>2, CloseShuts, FinIsIncidental
<1> HIDE DEF t
<1>3. session > 0 /\ Delivered(s, t.c, t.out)
  BY <1>1, OpenIsCounted DEF Delivered
<1>4. misread' \in {"no", "stale", "early"} /\ (misread # "no" => misread' # "no")
  BY <1>1 DEF Types
<1> QED BY <1>1, <1>2, <1>3, <1>4, ClosingStep

(* Losing the socket keeps the invariant.                                  *)
LEMMA DropStep ==
    ASSUME Types, IInv, Drop
    PROVE  Types' /\ IInv'
<1>1. /\ conn' = [s \in Side |-> IF conn[s].open THEN Closed(conn[s]) ELSE conn[s]]
      /\ wire' = [s \in Side |-> <<>>]
      /\ UNCHANGED <<setup, session, misread>>
  BY DEF Drop
<1>2. ASSUME NEW s \in Side
      PROVE  QuietSide(s) /\ DOMAIN conn'[s] = Fields
  <2>1. DOMAIN conn[s] = Fields
    BY DEF Types
  <2>2. conn'[s] = IF conn[s].open THEN Closed(conn[s]) ELSE conn[s]
    BY <1>1
  <2>3. Alike(conn[s], conn[s])
    BY <2>1 DEF Alike
  <2>4. Shut(conn[s], Closed(conn[s]))
    BY <2>1, ClosedShuts
  <2> QED BY <2>1, <2>2, <2>3, <2>4 DEF QuietSide, Shut
<1>3. \A s \in Side : wire'[s] = <<>>
  BY <1>1
<1>4. <<>> \in Seq({}) /\ DOMAIN <<>> = {} /\ Len(<<>>) = 0
  OBVIOUS
<1>5. Types'
  <2>1. conn' = [s \in Side |-> conn'[s]] /\ wire' = [s \in Side |-> wire'[s]]
    BY <1>1
  <2> QED BY <1>1, <1>2, <1>3, <1>4, <2>1 DEF Types
<1>6. \A q : Carried(q, <<>>)
  BY <1>4 DEF Carried
<1>7. NothingInTheClear'
  BY <1>3, <1>4, SidesAre DEF NothingInTheClear
<1>8. Quiet
  BY <1>1, <1>2, <1>3, <1>4, <1>6, <1>7 DEF Quiet
<1> QED BY <1>5, <1>8, QuietStep

(* Taking a packet is a step of one side.                                  *)
LEMMA DeliverIs ==
    ASSUME NEW s \in Side, NEW step, Deliver(s, step), wire[s] # <<>>
    PROVE  Delivered(s, step.c, step.out)
BY DEF Deliver, Delivered

(* The reasons for which a record is read in the clear.                    *)
LEMMA ReasonIs ==
    ASSUME Types, NEW s \in Side
    PROVE  Reason(s) \in {"stale", "early"}
BY DEF Reason, Types

(* A packet of a handshake, read in the clear by a side that waits for it. *)
HandshakePacket(s) ==
    LET p == Head(wire[s]) IN
    /\ ~Stale /\ Hears(s) /\ IsStep(p)
    /\ Deliver(s, HandleAuthPacket(s, conn[s], p)) /\ misread' = misread

(* A side that is not authenticated, and is not misreading, reads in the   *)
(* clear; what it reads is no step when the initiator is stale.            *)
LEMMA ClearReceipt ==
    ASSUME Types, IInv, session > 0, NEW s \in Side, wire[s] # <<>>,
           conn[s].open, ~conn[s].authenticated,
           NEW p, p = Head(wire[s]), conn[s].encryptionActive => Opens(s, conn[s], p),
           ~conn[s].encryptionActive => p.seal = Nil
    PROVE  p.seal = Nil /\ Hears(s) /\ (IsStep(p) => ~Stale)
<1> DEFINE c == conn[s]
<1>0. 1 \in DOMAIN wire[s] /\ p = wire[s][1]
  <2>1. PICK S : wire[s] \in Seq(S)
    BY DEF Types
  <2> QED BY <2>1, Tailed
<1>1. ~c.encryptionActive
  <2> SUFFICES ASSUME c.encryptionActive PROVE FALSE
    OBVIOUS
  <2>1. Stale
    <3> SUFFICES ASSUME ~Stale PROVE FALSE
      OBVIOUS
    <3>1. PICK me \in Identities : Fresh(me)
      BY DEF IInv
    <3> QED BY <3>1 DEF Fresh, CipherInv
  <2>2. s = "initiator"
    <3>1. conn["responder"].cipher = Nil
      BY <2>1 DEF IInv, StaleInv
    <3> QED BY <3>1, SidesAre DEF IInv, Always
  <2>3. p.seal # Nil
    <3>1. p.seal = ReceiveKey(s, c)
      BY DEF Opens
    <3>2. ReceiveKey(s, c) # Nil
      BY DEF ReceiveKey, Nil
    <3> QED BY <3>1, <3>2
  <2>4. conn["responder"].encryptionActive
    BY <1>0, <2>2, <2>3, SidesAre DEF IInv, Always
  <2> QED BY <2>1, <2>4, SidesAre DEF IInv, StaleInv, Always
<1>2. p.seal = Nil /\ Hears(s)
  BY <1>1 DEF Hears
<1>3. ASSUME IsStep(p), Stale PROVE FALSE
  <2>1. s = "responder"
    BY <1>1, <1>3, SidesAre DEF Stale
  <2> QED BY <1>0, <1>3, <2>1 DEF IInv, StaleInv
<1> QED BY <1>2, <1>3

(* Receiving anything but a step of the handshake keeps the invariant:     *)
(* among it a packet of the handshake that meets a side with the cipher of *)
(* an earlier session.                                                     *)
LEMMA ReceiveStep ==
    ASSUME Types, IInv, NEW s \in Side, Receive(s), ~HandshakePacket(s)
    PROVE  Types' /\ IInv'
<1> DEFINE c == conn[s]
           p == Head(wire[s])
           opened == [c EXCEPT !.receiveSequence = @ + 1]
           d == IF p.seal = Nil THEN c ELSE opened
<1>1. c.open /\ wire[s] # <<>> /\ UNCHANGED <<setup, session, drops>>
  BY DEF Receive
<1>2. session > 0 /\ DOMAIN c = Fields
  BY <1>1, OpenIsCounted DEF Types
<1>3. \/ p.method = "fin" /\ Deliver(s, Step(Closed(c), <<>>)) /\ UNCHANGED misread
      \/ Deliver(s, Close(Step(c, <<>>))) /\ misread' = Reason(s)
      \/ /\ ~c.encryptionActive /\ p.seal # Nil
         /\ Deliver(s, Misread(s, c)) /\ misread' = Reason(s)
      \/ /\ ~(~c.encryptionActive /\ p.seal # Nil) /\ ~(c.encryptionActive /\ ~Opens(s, c, p))
         /\ IF ~c.authenticated THEN Deliver(s, HandleAuthPacket(s, d, p))
            ELSE Deliver(s, Step(d, <<>>))
         /\ UNCHANGED misread
  BY DEF Receive
<1>r. Reason(s) \in {"stale", "early"}
  BY ReasonIs
<1>m. misread \in {"no", "stale", "early"}
  BY DEF Types
<1>4. CASE Deliver(s, Step(Closed(c), <<>>)) /\ UNCHANGED misread
  <2>1. Shut(c, Closed(c)) /\ Incidental(c, <<>>)
    BY <1>2, ClosedShuts, FinIsIncidental
  <2>2. Delivered(s, Closed(c), <<>>)
    <3>1. Step(Closed(c), <<>>).c = Closed(c) /\ Step(Closed(c), <<>>).out = <<>>
      BY DEF Step
    <3> QED BY <1>1, <1>4, <3>1, DeliverIs
  <2> QED BY <1>1, <1>2, <1>4, <1>m, <2>1, <2>2, ClosingStep
<1>5. CASE Deliver(s, Close(Step(c, <<>>))) /\ misread' = Reason(s)
  <2> DEFINE t == Close(Step(c, <<>>))
  <2>1. Shut(c, t.c) /\ Incidental(c, t.out)
    <3>1. Step(c, <<>>).c = c /\ Step(c, <<>>).out = <<>>
      BY DEF Step
    <3> QED BY <1>2, <3>1, CloseShuts, FinIsIncidental
  <2>2. Delivered(s, t.c, t.out)
    BY <1>1, <1>5, DeliverIs
  <2> HIDE DEF t
  <2> QED BY <1>1, <1>2, <1>5, <1>r, <2>1, <2>2, ClosingStep
<1>6. CASE ~c.encryptionActive /\ p.seal # Nil /\ Deliver(s, Misread(s, c)) /\ misread' = Reason(s)
  <2> DEFINE t == Misread(s, c)
  <2>1. Delivered(s, t.c, t.out)
    BY <1>1, <1>6, DeliverIs
  <2>2. CASE c.authenticated
    <3>1. t.c = c /\ t.out = <<>>
      BY <2>2 DEF Misread, Step
    <3>2. Alike(c, c) /\ Incidental(c, <<>>)
      BY <1>2, FinIsIncidental DEF Alike
    <3> HIDE DEF t
    <3> QED BY <1>1, <1>2, <1>6, <1>r, <2>1, <3>1, <3>2, ClosingStep
  <2>3. CASE ~c.authenticated
    <3>1. \/ Shut(c, t.c) /\ Incidental(c, t.out)
          \/ /\ Misled(c, t.c)
             /\ \E q : t.out = <<q>> /\ q.seal = Nil /\ q.method = "SessionEstablished"
      BY <1>2, <1>6, <2>3, MisreadIs
    <3> HIDE DEF t
    <3>2. CASE Shut(c, t.c) /\ Incidental(c, t.out)
      BY <1>1, <1>2, <1>6, <1>r, <2>1, <3>2, ClosingStep
    <3>3. CASE /\ Misled(c, t.c)
               /\ \E q : t.out = <<q>> /\ q.seal = Nil /\ q.method = "SessionEstablished"
      <4>1. PICK q : t.out = <<q>> /\ q.seal = Nil /\ q.method = "SessionEstablished"
        BY <3>3
      <4>2. t.out \in Seq({q}) /\ \A k \in DOMAIN t.out : t.out[k] = q
        BY <4>1
      <4>3. conn[Peer(s)].encryptionActive
        <5>1. PICK S : wire[s] \in Seq(S)
          BY DEF Types
        <5>2. 1 \in DOMAIN wire[s] /\ p = wire[s][1]
          BY <1>1, <5>1, Tailed
        <5> QED BY <1>6, <5>2 DEF IInv, Always
      <4>4. ~Hears(Peer(s)) /\ ~(Stale /\ Peer(s) = "responder")
        <5>1. ~Hears(Peer(s))
          BY <4>3 DEF Hears
        <5>2. Stale /\ Peer(s) = "responder" => conn[Peer(s)].cipher = Nil
          BY DEF IInv, StaleInv
        <5>3. conn[Peer(s)].cipher # Nil
          BY <4>3, SidesAre DEF IInv, Always
        <5> QED BY <5>1, <5>2, <5>3
      <4>5. misread' \in {"no", "stale", "early"} /\ misread' # "no"
        BY <1>6, <1>r
      <4>6. \A k \in DOMAIN t.out : t.out[k].seal = Nil /\ t.out[k].method = "SessionEstablished"
        BY <4>1, <4>2
      <4>7. /\ \A k \in DOMAIN t.out : t.out[k].seal # Nil => conn[s].encryptionActive
            /\ Hears(Peer(s)) \/ (Stale /\ Peer(s) = "responder") => \A k \in DOMAIN t.out : ~IsStep(t.out[k])
            /\ (s = "initiator" /\ E # "None" /\ misread' = "no")
                    => \A k \in DOMAIN t.out : t.out[k].method = "request" => t.out[k].seal # Nil
            /\ \E S : t.out \in Seq(S)
        BY <4>2, <4>4, <4>5, <4>6
      <4>8. ~conn[s].encryptionActive /\ Misled(conn[s], t.c) /\ misread' # "no"
        BY <1>6, <3>3, <4>5
      <4>9. UNCHANGED <<setup, session>> /\ session > 0
        BY <1>1, <1>2
      <4> QED BY <2>1, <4>5, <4>7, <4>8, <4>9, QuietDelivery
    <3> QED BY <3>1, <3>2, <3>3
  <2> QED BY <2>2, <2>3
<1>7. CASE /\ ~(~c.encryptionActive /\ p.seal # Nil) /\ ~(c.encryptionActive /\ ~Opens(s, c, p))
           /\ IF ~c.authenticated THEN Deliver(s, HandleAuthPacket(s, d, p))
              ELSE Deliver(s, Step(d, <<>>))
           /\ UNCHANGED misread
  <2>1. CASE c.authenticated
    <3>1. Alike(c, d)
      BY <1>2 DEF Alike, Fields
    <3>2. Deliver(s, Step(d, <<>>))
      BY <1>7, <2>1
    <3> HIDE DEF d
    <3>3. Step(d, <<>>).c = d /\ Step(d, <<>>).out = <<>>
      BY DEF Step
    <3>4. Delivered(s, d, <<>>)
      BY <1>1, <3>2, <3>3, DeliverIs
    <3> QED BY <1>1, <1>2, <1>7, <1>m, <3>1, <3>4, FinIsIncidental, ClosingStep
  <2>2. CASE ~c.authenticated
    <3>1. p.seal = Nil /\ Hears(s) /\ (IsStep(p) => ~Stale)
      BY <1>1, <1>2, <1>7, <2>2, ClearReceipt
    <3>2. d = c
      BY <3>1
    <3> DEFINE t == HandleAuthPacket(s, c, p)
    <3>3. Deliver(s, t)
      BY <1>7, <2>2, <3>2
    <3>4. CASE IsStep(p)
      BY <1>7, <3>1, <3>3, <3>4 DEF HandshakePacket
    <3>5. CASE ~IsStep(p)
      <4>1. p.method \notin Steps
        BY <3>1, <3>5 DEF IsStep
      <4>2. Shut(c, t.c) /\ Incidental(c, t.out)
        BY <1>2, <4>1, UnwantedCloses
      <4>3. Delivered(s, t.c, t.out)
        BY <1>1, <3>3, DeliverIs
      <4> HIDE DEF t
      <4> QED BY <1>1, <1>2, <1>7, <1>m, <4>2, <4>3, ClosingStep
    <3> QED BY <3>4, <3>5
  <2> QED BY <2>1, <2>2
<1> QED BY <1>3, <1>4, <1>5, <1>6, <1>7

-----------------------------------------------------------------------------
(***************************************************************************)
(* Steps of a handshake: the side that takes one, and the peer that is to  *)
(* hear the answer.                                                        *)
(***************************************************************************)

(* A side that takes a step of the handshake and answers with at most one  *)
(* packet keeps the invariant, when its answer and its new state agree     *)
(* with the transcript.                                                    *)
LEMMA AnswerStep ==
    ASSUME Types, IInv, session > 0, ~Stale, NEW s \in Side, NEW me \in Identities, Fresh(me),
           Hears(s), wire[s] # <<>>, IsStep(Head(wire[s])), NEW d, NEW out,
           conn' = [conn EXCEPT ![s] = d],
           wire' = [wire EXCEPT ![s] = Tail(@), ![Peer(s)] = @ \o out],
           UNCHANGED <<setup, session, misread>>, DOMAIN d = Fields,
           d.cipher = conn[s].cipher, d.cipherSession = conn[s].cipherSession,
           d.encryptionActive = conn[s].encryptionActive,
           s = "initiator" => d.localIdentity \in Identities,
           M = "None" => d.sessionKey = Nil,
           out = <<>> \/ \E q : out = <<q>> /\ q.seal = Nil /\ q.method # "request",
           \A q : out = <<q>> /\ Hears(Peer(s)) => Good(me, Peer(s), q)',
           s = "initiator" => InitiatorInv(me)',
           s = "responder" => ResponderInv(me)',
           CipherInv(me, s)'
    PROVE  Types' /\ IInv'
<1>0. Peer(s) \in Side /\ Peer(s) # s /\ Peer(Peer(s)) = s /\ \A t \in Side : t = s \/ t = Peer(s)
  BY SidesAre
<1>1. Delivered(s, d, out)
  BY DEF Delivered
<1>2. \E S : out \in Seq(S)
  <2>1. <<>> \in Seq({}) /\ \A q : <<q>> \in Seq({q})
    OBVIOUS
  <2> QED BY <2>1
<1>3. \A k \in DOMAIN out : out[k].seal = Nil /\ out[k].method # "request" /\ k = 1
  <2>1. DOMAIN <<>> = {} /\ \A q : DOMAIN <<q>> = {1} /\ <<q>>[1] = q
    OBVIOUS
  <2> QED BY <2>1
<1>4. misread' \in {"no", "stale", "early"} /\ (misread # "no" => misread' # "no")
  BY DEF Types
<1>5. /\ Types'
      /\ conn'[s] = d /\ conn'[Peer(s)] = conn[Peer(s)]
      /\ wire'[Peer(s)] = wire[Peer(s)] \o out
  BY <1>1, <1>2, <1>4, DeliveredIs
<1>6. /\ \A k \in DOMAIN wire'[s] : wire'[s][k].seal # Nil => conn[Peer(s)].encryptionActive
      /\ \A k \in DOMAIN wire'[Peer(s)] : wire'[Peer(s)][k].seal # Nil => conn[s].encryptionActive
      /\ NothingInTheClear'
  BY <1>1, <1>2, <1>3, <1>4, WireAfter
<1>7. wire'[s] = Tail(wire[s])
  <2>1. wire = [t \in Side |-> wire[t]]
    BY DEF Types
  <2>2. wire' = [wire EXCEPT ![s] = Tail(wire[s]), ![Peer(s)] = wire[Peer(s)] \o out]
    BY <1>0, <2>1
  <2> QED BY <1>0, <2>1, <2>2
<1>8. PICK S : wire[s] \in Seq(S)
  BY DEF Types
<1>9. PICK T : wire[Peer(s)] \in Seq(T)
  BY <1>0 DEF Types
<1>10. setup' = setup /\ session' = session /\ M' = M /\ E' = E
  BY SameTranscript
<1>11. Always'
  <2>1. conn'["initiator"].localIdentity \in Identities'
    <3>1. CASE s = "initiator"
      BY <1>5, <3>1 DEF Identities
    <3>2. CASE s = "responder"
      BY <1>5, <3>2, SidesAre DEF Identities, IInv, Always
    <3> QED BY <3>1, <3>2, SidesAre
  <2>2. ASSUME NEW t \in Side
        PROVE  /\ conn'[t].encryptionActive <=> conn'[t].cipher # Nil
               /\ conn'[t].cipherSession \in 0 .. session'
               /\ conn'[t].cipher = Nil => conn'[t].cipherSession = 0
               /\ M' = "None" => conn'[t].sessionKey = Nil
               /\ \A k \in DOMAIN wire'[t] :
                     wire'[t][k].seal # Nil => conn'[Peer(t)].encryptionActive
    <3>1. CASE t = s
      BY <1>0, <1>5, <1>6, <1>10, <3>1 DEF IInv, Always
    <3>2. CASE t = Peer(s)
      BY <1>0, <1>5, <1>6, <1>10, <3>2 DEF IInv, Always
    <3> QED BY <1>0, <3>1, <3>2
  <2>3. session' # 0
    BY <1>10
  <2> QED BY <2>1, <2>2, <2>3 DEF Always, Peer
<1>12. ~Stale'
  <2>1. conn'["initiator"].encryptionActive = conn["initiator"].encryptionActive
        /\ conn'["initiator"].cipherSession = conn["initiator"].cipherSession
    BY <1>0, <1>5, SidesAre
  <2> QED BY <1>10, <2>1 DEF Stale
<1>13. 1 \in DOMAIN wire[s] /\ Head(wire[s]) = wire[s][1]
  BY <1>8, Tailed
<1>14. /\ \A j \in DOMAIN wire[s] : IsStep(wire[s][j]) => j = 1
       /\ Hears(Peer(s)) => \A j \in DOMAIN wire[Peer(s)] : ~IsStep(wire[Peer(s)][j])
  BY <1>13 DEF Fresh, WireInv
<1>15. \A j \in DOMAIN wire'[s] : ~IsStep(wire'[s][j])
  <2>1. \A j \in DOMAIN Tail(wire[s]) : j + 1 \in DOMAIN wire[s] /\ Tail(wire[s])[j] = wire[s][j + 1] /\ j + 1 # 1
    BY <1>8
  <2> QED BY <1>7, <1>14, <2>1
<1>16. WireInv(me)'
  <2>0. \A t : Peer(t)' = Peer(t)
    BY DEF Peer
  <2>1. Hears(Peer(s))' <=> Hears(Peer(s))
    BY <1>5, <2>0 DEF Hears
  <2>2. ASSUME Hears(Peer(s)), NEW k \in DOMAIN wire'[Peer(s)], IsStep(wire'[Peer(s)][k])
        PROVE  /\ Good(me, Peer(s), wire[Peer(s)][k])'
               /\ \A j \in DOMAIN wire'[Peer(s)] : IsStep(wire'[Peer(s)][j]) => j = k
    <3>1. PICK U : out \in Seq(U)
      BY <1>2
    <3>2. \A j \in DOMAIN wire'[Peer(s)] : IsStep(wire'[Peer(s)][j]) =>
            /\ j - Len(wire[Peer(s)]) \in DOMAIN out
            /\ wire'[Peer(s)][j] = out[j - Len(wire[Peer(s)])]
      <4> DEFINE w == wire[Peer(s)]
                 v == wire'[Peer(s)]
      <4>1. v = w \o out
        BY <1>5
      <4>2. \A j \in DOMAIN (w \o out) :
              \/ j \in DOMAIN w /\ (w \o out)[j] = w[j]
              \/ j - Len(w) \in DOMAIN out /\ (w \o out)[j] = out[j - Len(w)]
        BY <1>9, <3>1, Appended
      <4>3. \A j \in DOMAIN w : ~IsStep(w[j])
        BY <1>14, <2>2
      <4> HIDE DEF w, v
      <4>4. \A j \in DOMAIN v : IsStep(v[j]) => j - Len(w) \in DOMAIN out /\ v[j] = out[j - Len(w)]
        BY <4>1, <4>2, <4>3
      <4> QED BY <4>4 DEF w, v
    <3>3. \A j \in DOMAIN wire'[Peer(s)] : IsStep(wire'[Peer(s)][j]) =>
            j = Len(wire[Peer(s)]) + 1 /\ wire'[Peer(s)][j] = out[1]
      <4>1. \E V : wire'[Peer(s)] \in Seq(V)
        BY <1>0, <1>5 DEF Types
      <4>2. DOMAIN wire'[Peer(s)] \subseteq Int /\ Len(wire[Peer(s)]) \in Int
        BY <1>9, <4>1
      <4> DEFINE w == wire[Peer(s)]
                 v == wire'[Peer(s)]
      <4>3. DOMAIN v \subseteq Int /\ Len(w) \in Int
            /\ \A j \in DOMAIN v : IsStep(v[j]) => j - Len(w) \in DOMAIN out /\ v[j] = out[j - Len(w)]
        BY <3>2, <4>2
      <4>4. \A n \in DOMAIN out : n = 1
        BY <1>3
      <4> HIDE DEF w, v
      <4>5. ASSUME NEW j \in DOMAIN v, IsStep(v[j]) PROVE j = Len(w) + 1 /\ v[j] = out[1]
        <5>1. j - Len(w) = 1 /\ v[j] = out[j - Len(w)] /\ j \in Int
          BY <4>3, <4>4, <4>5
        <5> QED BY <4>3, <5>1
      <4>6. \A j \in DOMAIN v : IsStep(v[j]) => j = Len(w) + 1 /\ v[j] = out[1]
        BY <4>5
      <4> QED BY <4>6 DEF w, v
    <3>4. PICK q : out = <<q>> /\ wire'[Peer(s)][k] = q
      <4>1. out # <<>>
        <5>1. k - Len(wire[Peer(s)]) \in DOMAIN out
          BY <2>2, <3>2
        <5>2. DOMAIN <<>> = {}
          OBVIOUS
        <5> QED BY <5>1, <5>2
      <4>2. PICK q : out = <<q>>
        BY <4>1
      <4>3. wire'[Peer(s)][k] = out[1]
        BY <2>2, <3>3
      <4> QED BY <4>2, <4>3
    <3>5. Good(me, Peer(s), q)'
      BY <2>2, <3>4
    <3>6. Good(me, Peer(s), wire[Peer(s)][k])'
      <4>1. CASE Peer(s) = "initiator"
        <5>1. GoodForInitiator(me, q)'
          BY <3>5, <4>1, <2>0 DEF Good
        <5> QED BY <3>4, <4>1, <5>1, <2>0 DEF Good, GoodForInitiator
      <4>2. CASE Peer(s) # "initiator"
        <5>1. GoodForResponder(me, q)'
          BY <3>5, <4>2, <2>0 DEF Good
        <5> QED BY <3>4, <4>2, <5>1, <2>0 DEF Good, GoodForResponder
      <4> QED BY <4>1, <4>2
    <3> QED BY <2>2, <3>3, <3>6
  <2>3. ASSUME NEW t \in Side, Hears(t)', NEW k \in DOMAIN wire'[t], IsStep(wire'[t][k])
        PROVE  /\ Good(me, t, wire[t][k])'
               /\ \A j \in DOMAIN wire'[t] : IsStep(wire'[t][j]) => j = k
               /\ Hears(Peer(t))' => \A j \in DOMAIN wire'[Peer(t)] : ~IsStep(wire'[Peer(t)][j])
    <3>1. t = Peer(s)
      BY <1>0, <1>15, <2>3
    <3>2. Hears(Peer(s))
      BY <2>0, <2>1, <2>3, <3>1 DEF Hears
    <3>3. \A j \in DOMAIN wire'[Peer(t)] : ~IsStep(wire'[Peer(t)][j])
      BY <1>0, <1>15, <3>1
    <3>4. k \in DOMAIN wire'[Peer(s)] /\ IsStep(wire'[Peer(s)][k])
      BY <2>3, <3>1
    <3>5. /\ Good(me, Peer(s), wire[Peer(s)][k])'
          /\ \A j \in DOMAIN wire'[Peer(s)] : IsStep(wire'[Peer(s)][j]) => j = k
      BY <2>2, <3>2, <3>4
    <3>6. Good(me, t, wire[t][k])'
      BY <3>1, <3>5, <2>0 DEF Good
    <3> QED BY <3>1, <3>3, <3>5, <3>6
  <2>4. ASSUME NEW t \in Side, Hears(t)'
        PROVE  \A k \in DOMAIN wire'[t] : IsStep(wire'[t][k]) =>
                /\ Good(me, t, wire[t][k])'
                /\ \A j \in DOMAIN wire'[t] : IsStep(wire'[t][j]) => j = k
                /\ Hears(Peer(t))' => \A j \in DOMAIN wire'[Peer(t)] : ~IsStep(wire'[Peer(t)][j])
    BY <2>3, <2>4
  <2> QED BY <2>0, <2>4 DEF WireInv
<1>17. InitiatorInv(me)'
  <2>1. CASE s = "responder"
    <3>1. conn'["initiator"] = conn["initiator"] /\ InitiatorInv(me)
      BY <1>5, <2>1, SidesAre DEF Fresh
    <3> QED BY <1>10, <3>1, SameTranscript DEF InitiatorInv
  <2> QED BY <2>1, SidesAre
<1>18. ResponderInv(me)'
  <2>1. CASE s = "initiator"
    <3>1. conn'["responder"] = conn["responder"] /\ ResponderInv(me)
      BY <1>5, <2>1, SidesAre DEF Fresh
    <3> QED BY <1>10, <3>1, SameTranscript DEF ResponderInv
  <2> QED BY <2>1, SidesAre
<1>19. \A t \in Side : CipherInv(me, t)'
  <2>1. CipherInv(me, Peer(s)) /\ Context(me)' = Context(me)
    BY <1>0, <1>10, SameTranscript DEF Fresh
  <2>2. ASSUME NEW t \in Side, t = Peer(s) PROVE CipherInv(me, t)'
    BY <1>5, <1>10, <2>1, <2>2 DEF CipherInv
  <2> QED BY <1>0, <2>2
<1>20. Fresh(me)'
  BY <1>16, <1>17, <1>18, <1>19 DEF Fresh, Side
<1> QED BY <1>5, <1>6, <1>11, <1>12, <1>20 DEF IInv, StaleInv, Identities

(* A side with the key and the headers of the transcript has the           *)
(* transcript's context.                                                   *)
LEMMA ContextAgrees ==
    ASSUME NEW s \in Side, NEW c, NEW me, c.sessionKey = B1(me).key, c.encMode = E, c.authMode = M,
           s = "initiator" => c.localHeaders = HI /\ c.remoteHeaders = HR,
           s = "responder" => c.localHeaders = HR /\ c.remoteHeaders = HI
    PROVE  EncryptionContext(s, c) = Context(me)
<1>1. CASE s = "initiator"
  BY <1>1 DEF EncryptionContext, Context
<1>2. CASE s = "responder"
  BY <1>2 DEF EncryptionContext, Context
<1> QED BY <1>1, <1>2, SidesAre

(* Before its encryption is active a side sends in the clear.              *)
LEMMA PlainSend ==
    ASSUME NEW s, NEW c, DOMAIN c = Fields, ~c.encryptionActive, NEW m, NEW h, NEW x
    PROVE  /\ Send(s, c, Packet(m, h, x)).c = c
           /\ Send(s, c, Packet(m, h, x)).out = <<Packet(m, h, x)>>
BY DEF Send, Sealed, Step

(* The result of a step of the handshake: the side closes, or it goes on.  *)
Closing(c, t) == Shut(c, t.c) /\ Incidental(c, t.out)

(* What a step of the handshake never touches.                             *)
Bare(c, d) ==
    /\ DOMAIN d = Fields /\ d.open = c.open /\ d.cipher = c.cipher
    /\ d.cipherSession = c.cipherSession /\ d.encryptionActive = c.encryptionActive

(* The responder lets an anonymous initiator in.                           *)
Welcomes(c, t) ==
    /\ M = "None" /\ E = "None" /\ Bare(c, t.c)
    /\ t.c.authMode = "None" /\ t.c.encMode = "None" /\ t.c.sessionKey = Nil
    /\ t.c.authSessionEstablished /\ t.c.authenticated /\ t.c.deriving = <<>>
    /\ t.out = <<Packet("SessionEstablished", NoHeaders, Nil)>>

(* The responder answers the first packet of an authentication.            *)
Challenges(me, c, t) ==
    /\ Challenged(me) /\ setup.fault # "provider" /\ Bare(c, t.c)
    /\ t.c.authMode = M /\ t.c.encMode = E /\ t.c.sessionKey = Nil
    /\ t.c.handler = B0(me).handler /\ t.c.localHeaders = HR /\ t.c.remoteHeaders = HI
    /\ t.c.authSessionEstablished = FALSE /\ ~t.c.authenticated /\ t.c.deriving = <<>>
    /\ t.out = <<Packet("ProceedToHandshake", HR, B0(me).data)>>

(* The responder closes, lets an anonymous initiator in, or challenges it. *)
LEMMA ResponderStarts ==
    ASSUME setup \in Setup, NEW me \in Identities, NEW c, DOMAIN c = Fields,
           ~c.encryptionActive, c.localHeaders = NoHeaders, c.deriving = <<>>,
           ~c.authenticated, ~c.authSessionEstablished,
           c.sessionKey = Nil, NEW p, p.method = "Initialize", p.authMode = M, p.encMode = E,
           p.headers = HI, p.data = IF M = "None" THEN Nil ELSE A0(me).data
    PROVE  LET t == HandleAuthPacket("responder", c, p) IN
           Closing(c, t) \/ Welcomes(c, t) \/ Challenges(me, c, t)
<1> DEFINE s == "responder"
           c1 == [c EXCEPT !.remoteHeaders = p.headers]
           n == Negotiate(s, c1, p)
           result == Process(p.authMode, s, NewHandler(Nil, Nil, <<"authNonce", s, session>>), p.data, Provider(s))
           d == [n EXCEPT !.authMode = p.authMode, !.handler = result.handler]
           t == HandleAuthPacket(s, c, p)
           sent == Send(s, n, Packet("SessionEstablished", n.localHeaders, Nil))
<1>0. t = HandleAuthInitialize(s, c, p)
  BY DEF HandleAuthPacket
<1>1. /\ DOMAIN c1 = Fields /\ c1.remoteHeaders = HI
      /\ c1.open = c.open /\ c1.localIdentity = c.localIdentity /\ c1.sessionKey = c.sessionKey
      /\ c1.deriving = c.deriving /\ c1.cipher = c.cipher /\ c1.localHeaders = c.localHeaders
      /\ c1.authenticated = c.authenticated /\ c1.authSessionEstablished = c.authSessionEstablished
      /\ c1.cipherSession = c.cipherSession /\ c1.encryptionActive = c.encryptionActive
  BY DEF Fields
<1>2. /\ DOMAIN n = Fields /\ n.remoteHeaders = HI
      /\ n.open = c.open /\ n.localIdentity = c.localIdentity /\ n.sessionKey = c.sessionKey
      /\ n.deriving = c.deriving /\ n.cipher = c.cipher
      /\ n.authenticated = c.authenticated /\ n.authSessionEstablished = c.authSessionEstablished
      /\ n.cipherSession = c.cipherSession /\ n.encryptionActive = c.encryptionActive
      /\ n.encMode = E /\ n.localHeaders = HR
  <2> HIDE DEF c1
  <2>1. CASE E = "None"
    <3>1. n = [c1 EXCEPT !.encMode = "None"] /\ HR = NoHeaders
      BY <2>1 DEF Negotiate, HR
    <3> QED BY <1>1, <2>1, <3>1 DEF Fields
  <2>2. CASE E # "None"
    <3>1. n = [c1 EXCEPT !.encMode = p.encMode, !.provider = CHOOSE x \in HI.ciphers : x \in Ciphers("responder"),
                         !.localHeaders = HR]
      BY <2>2 DEF Negotiate, HR
    <3> QED BY <1>1, <3>1 DEF Fields
  <2> QED BY <2>1, <2>2
<1>3. CASE ~Negotiable(s, p)
  <2> DEFINE c2 == [c1 EXCEPT !.encMode = p.encMode]
  <2>1. t = Close(Send(s, c2, Packet("ErrorMustEncrypt", NoHeaders, Nil)))
    BY <1>0, <1>3 DEF HandleAuthInitialize, RejectEncryption, Plain
  <2>2. /\ DOMAIN c2 = Fields
        /\ c2.localIdentity = c.localIdentity /\ c2.sessionKey = c.sessionKey
        /\ c2.deriving = c.deriving /\ c2.cipher = c.cipher
        /\ c2.cipherSession = c.cipherSession /\ c2.encryptionActive = c.encryptionActive
    <3> HIDE DEF c1
    <3> QED BY <1>1 DEF Fields
  <2> HIDE DEF c1, c2, n, d
  <2>3. Shut(c2, t.c) /\ Incidental(c2, t.out)
    BY <2>1, <2>2, RejectShuts DEF Steps
  <2>4. Shut(c, t.c) /\ Incidental(c, t.out)
    BY <2>2, <2>3 DEF Shut, Incidental
  <2> QED BY <2>4 DEF Closing
<1>c. ASSUME NEW x, Shut(n, t.c), Incidental(n, t.out)
      PROVE  Closing(c, t)
  <2> HIDE DEF n, t
  <2> QED BY <1>2, <1>c DEF Shut, Incidental, Closing
<1>4. CASE Negotiable(s, p) /\ M = "None"
  <2>1. E = "None"
    BY <1>4 DEF Negotiable
  <2>2. CASE ~setup.allowUnauthorized
    <3>1. t = FailAuthentication(s, n, FALSE)
      BY <1>0, <1>4, <2>2 DEF HandleAuthInitialize
    <3> HIDE DEF n, t
    <3>2. Shut(n, t.c) /\ Incidental(n, t.out)
      BY <1>2, <3>1, FailShuts
    <3>3. Closing(c, t)
      BY <1>c, <3>2
    <3> QED BY <3>3 DEF t
  <2>3. CASE setup.allowUnauthorized
    <3> DEFINE e == [sent.c EXCEPT !.authMode = "None"]
               f == StoreAuthenticationResult(e, Nil, Nil, Nil)
               g == CompleteAuthentication(s, f)
    <3>1. t = Step(g, sent.out)
      BY <1>0, <1>4, <2>3 DEF HandleAuthInitialize
    <3> HIDE DEF n, t
    <3>2. sent.c = n /\ sent.out = <<Packet("SessionEstablished", n.localHeaders, Nil)>>
      <4>1. ~n.encryptionActive
        BY <1>2
      <4> QED BY <1>2, <4>1, PlainSend
    <3> HIDE DEF sent
    <3>3. /\ DOMAIN e = Fields /\ e.open = n.open /\ e.deriving = n.deriving /\ e.cipher = n.cipher
          /\ e.encMode = n.encMode /\ e.authMode = "None"
          /\ e.cipherSession = n.cipherSession /\ e.encryptionActive = n.encryptionActive
      BY <1>2, <3>2 DEF Fields
    <3> HIDE DEF e
    <3>4. /\ DOMAIN f = Fields /\ f.open = n.open /\ f.deriving = n.deriving /\ f.cipher = n.cipher
          /\ f.encMode = n.encMode /\ f.authMode = "None" /\ f.sessionKey = Nil
          /\ f.cipherSession = n.cipherSession /\ f.encryptionActive = n.encryptionActive
      BY <3>3, StoreIs
    <3> HIDE DEF f
    <3>5. /\ DOMAIN g = Fields /\ g.open = n.open /\ g.deriving = n.deriving /\ g.cipher = n.cipher
          /\ g.encMode = n.encMode /\ g.authMode = "None" /\ g.sessionKey = Nil
          /\ g.authSessionEstablished /\ g.authenticated
          /\ g.cipherSession = n.cipherSession /\ g.encryptionActive = n.encryptionActive
      BY <1>2, <2>1, <3>4, CompleteIs
    <3> HIDE DEF g
    <3>6. t.c = g /\ t.out = sent.out
      BY <3>1 DEF Step
    <3>7. HR = NoHeaders
      BY <2>1 DEF HR
    <3>8. Welcomes(c, t)
      BY <1>2, <1>4, <2>1, <3>2, <3>5, <3>6, <3>7 DEF Bare, Welcomes
    <3> QED BY <3>8 DEF t
  <2> QED BY <2>2, <2>3
<1>5. CASE Negotiable(s, p) /\ M # "None"
  <2>1. result = B0(me)
    BY <1>5 DEF B0, AuthNonce
  <2>d. /\ DOMAIN d = Fields /\ d.remoteHeaders = HI /\ d.authMode = M /\ d.handler = B0(me).handler
        /\ d.open = c.open /\ d.localIdentity = c.localIdentity /\ d.sessionKey = c.sessionKey
        /\ d.deriving = c.deriving /\ d.cipher = c.cipher
        /\ d.authenticated = c.authenticated /\ d.authSessionEstablished = c.authSessionEstablished
        /\ d.cipherSession = c.cipherSession /\ d.encryptionActive = c.encryptionActive
        /\ d.encMode = E /\ d.localHeaders = HR
    <3> HIDE DEF n
    <3> QED BY <1>2, <2>1 DEF Fields
  <2>2. CASE setup.fault = "provider" \/ ~p.headers.protocol
    <3>1. t = Close(Send(s, n, Packet("NotSupported", n.localHeaders, Nil)))
      BY <1>0, <1>5, <2>2 DEF HandleAuthInitialize
    <3> HIDE DEF n, t
    <3>2. Shut(n, t.c) /\ Incidental(n, t.out)
      BY <1>2, <3>1, RejectShuts DEF Steps
    <3>3. Closing(c, t)
      BY <1>c, <3>2
    <3> QED BY <3>3 DEF t
  <2>3. CASE ~(setup.fault = "provider" \/ ~p.headers.protocol) /\ B0(me).ruling = "Failed"
    <3>1. t = Close(Send(s, d, Packet("Denied", d.localHeaders, Nil)))
      BY <1>0, <1>5, <2>1, <2>3 DEF HandleAuthInitialize
    <3> HIDE DEF n, t, d
    <3>2. Shut(d, t.c) /\ Incidental(d, t.out)
      BY <2>d, <3>1, RejectShuts DEF Steps
    <3>3. Closing(c, t)
      BY <2>d, <3>2 DEF Closing, Shut, Incidental
    <3> QED BY <3>3 DEF t
  <2>4. CASE ~(setup.fault = "provider" \/ ~p.headers.protocol) /\ B0(me).ruling = "InProgress"
    <3>1. t = Send(s, d, Packet("ProceedToHandshake", d.localHeaders, B0(me).data))
      BY <1>0, <1>5, <2>1, <2>4 DEF HandleAuthInitialize
    <3> HIDE DEF n, t, d
    <3>2. t.c = d /\ t.out = <<Packet("ProceedToHandshake", d.localHeaders, B0(me).data)>>
      <4>1. ~d.encryptionActive
        BY <2>d
      <4>2. DOMAIN d = Fields
        BY <2>d
      <4>3. \A hh, xx : /\ Send(s, d, Packet("ProceedToHandshake", hh, xx)).c = d
                        /\ Send(s, d, Packet("ProceedToHandshake", hh, xx)).out
                             = <<Packet("ProceedToHandshake", hh, xx)>>
        <5> SUFFICES ASSUME NEW hh, NEW xx
                     PROVE  /\ Send(s, d, Packet("ProceedToHandshake", hh, xx)).c = d
                            /\ Send(s, d, Packet("ProceedToHandshake", hh, xx)).out
                                 = <<Packet("ProceedToHandshake", hh, xx)>>
          OBVIOUS
        <5> HIDE DEF s
        <5> QED BY <4>1, <4>2, PlainSend
      <4> QED BY <3>1, <4>3
    <3>3. Challenges(me, c, t)
      BY <1>5, <2>d, <2>4, <3>2 DEF Challenged, Bare, Challenges
    <3> QED BY <3>3 DEF t
  <2>5. B0(me).ruling \in {"Failed", "InProgress"}
    <3>1. /\ M = "InitializerIdentity" => B0(me).ruling \in {"Failed", "InProgress"}
          /\ M # "InitializerIdentity" => B0(me).ruling \in {"Failed", "InProgress"}
      BY <1>5, Transcript
    <3> QED BY <3>1
  <2> QED BY <2>2, <2>3, <2>4, <2>5
<1> QED BY <1>3, <1>4, <1>5

(* The initiator answers the responder's first packet.                     *)
Answers(me, c, t) ==
    /\ Answered(me) /\ Bare(c, t.c)
    /\ t.c.authMode = M /\ t.c.encMode = c.encMode /\ t.c.handler = A1(me).handler
    /\ t.c.localHeaders = c.localHeaders /\ t.c.remoteHeaders = HR
    /\ t.c.authenticated = c.authenticated /\ t.c.deriving = c.deriving
    /\ IF Late
       THEN /\ t.c.authSessionEstablished = c.authSessionEstablished
            /\ t.c.sessionKey = c.sessionKey /\ t.c.localIdentity = c.localIdentity
            /\ t.out = <<Packet("Handshake", NoHeaders, A1(me).data)>>
       ELSE /\ t.c.authSessionEstablished = TRUE
            /\ t.c.sessionKey = A1(me).key /\ t.c.localIdentity = A1(me).local
            /\ t.out = <<Packet("FinalHandshake", NoHeaders, A1(me).data)>>

(* The initiator is let in without authentication.                         *)
IsWelcome(c, t) ==
    /\ Bare(c, t.c) /\ t.out = <<>>
    /\ t.c.authMode = "None" /\ t.c.encMode = "None"
    /\ t.c.authSessionEstablished /\ t.c.authenticated
    /\ t.c.sessionKey = Nil /\ t.c.localIdentity = Nil
    /\ t.c.deriving = c.deriving

(* A side's handler has succeeded with the given result.                   *)
Succeeds(s, result, c, t) ==
    /\ result.ruling = "Succeeded" /\ Bare(c, t.c)
    /\ t.c.authMode = c.authMode /\ t.c.encMode = c.encMode
    /\ t.c.localHeaders = c.localHeaders /\ t.c.remoteHeaders = c.remoteHeaders
    /\ t.c.handler = result.handler /\ t.c.authSessionEstablished = TRUE
    /\ t.c.localIdentity = result.local /\ t.c.sessionKey = result.key
    /\ result.data # Nil =>
         /\ t.c.authenticated = c.authenticated /\ t.c.deriving = c.deriving
         /\ t.out = <<Packet("FinalHandshake", NoHeaders, result.data)>>
    /\ result.data = Nil =>
         /\ t.out = <<Packet("Established", NoHeaders, Nil)>>
         /\ c.encMode = "None" => t.c.authenticated /\ t.c.deriving = c.deriving
         /\ c.encMode # "None" =>
              /\ t.c.authenticated = c.authenticated
              /\ \E x : /\ x.sessionKey = result.key
                        /\ x.encMode = c.encMode /\ x.authMode = c.authMode
                        /\ x.localHeaders = c.localHeaders /\ x.remoteHeaders = c.remoteHeaders
                        /\ t.c.deriving = Append(c.deriving, EncryptionContext(s, x))

(* The initiator closes or answers the responder's challenge.              *)
LEMMA InitiatorContinues ==
    ASSUME setup \in Setup, NEW me \in Identities, NEW c, DOMAIN c = Fields,
           ~c.encryptionActive, c.authMode = M, M # "None", c.handler = A0(me).handler,
           NEW p, p.method = "ProceedToHandshake", p.data = B0(me).data, p.headers = HR,
           Challenged(me)
    PROVE  LET t == HandleAuthPacket("initiator", c, p) IN Closing(c, t) \/ Answers(me, c, t)
<1> DEFINE s == "initiator"
           d == [c EXCEPT !.remoteHeaders = p.headers]
           result == Process(c.authMode, s, c.handler, p.data, Provider(s))
           e == [d EXCEPT !.handler = result.handler]
           stored == StoreAuthenticationResult(e, result.local, result.remote, result.key)
           t == HandleAuthPacket(s, c, p)
<1>0. t = HandleAuthAcknowledge(s, c, p)
  BY DEF HandleAuthPacket
<1>1. result = A1(me)
  BY DEF A1
<1>2. /\ DOMAIN d = Fields /\ d.remoteHeaders = HR /\ d.authMode = M /\ d.handler = c.handler
      /\ d.open = c.open /\ d.localIdentity = c.localIdentity /\ d.sessionKey = c.sessionKey
      /\ d.deriving = c.deriving /\ d.cipher = c.cipher /\ d.localHeaders = c.localHeaders
      /\ d.authenticated = c.authenticated /\ d.authSessionEstablished = c.authSessionEstablished
      /\ d.cipherSession = c.cipherSession /\ d.encryptionActive = c.encryptionActive
      /\ d.encMode = c.encMode
  BY DEF Fields
<1>3. /\ DOMAIN e = Fields /\ e.remoteHeaders = HR /\ e.authMode = M /\ e.handler = A1(me).handler
      /\ e.open = c.open /\ e.localIdentity = c.localIdentity /\ e.sessionKey = c.sessionKey
      /\ e.deriving = c.deriving /\ e.cipher = c.cipher /\ e.localHeaders = c.localHeaders
      /\ e.authenticated = c.authenticated /\ e.authSessionEstablished = c.authSessionEstablished
      /\ e.cipherSession = c.cipherSession /\ e.encryptionActive = c.encryptionActive
      /\ e.encMode = c.encMode
  <2> HIDE DEF d
  <2> QED BY <1>1, <1>2 DEF Fields
<1>4. /\ DOMAIN stored = Fields /\ stored.remoteHeaders = HR /\ stored.authMode = M
      /\ stored.handler = A1(me).handler
      /\ stored.open = c.open /\ stored.localIdentity = A1(me).local /\ stored.sessionKey = A1(me).key
      /\ stored.deriving = c.deriving /\ stored.cipher = c.cipher
      /\ stored.localHeaders = c.localHeaders
      /\ stored.authenticated = c.authenticated /\ stored.authSessionEstablished = TRUE
      /\ stored.cipherSession = c.cipherSession
      /\ stored.encryptionActive = c.encryptionActive
      /\ stored.encMode = c.encMode
  <2>1. stored = StoreAuthenticationResult(e, A1(me).local, result.remote, A1(me).key)
    BY <1>1
  <2> HIDE DEF e, stored, result
  <2>2. DOMAIN e = Fields
    BY <1>3
  <2> QED BY <1>3, <2>1, <2>2 DEF StoreAuthenticationResult, Fields
<1>d. ASSUME Shut(d, t.c), Incidental(d, t.out) PROVE Closing(c, t)
  <2> HIDE DEF d, t
  <2> QED BY <1>2, <1>d DEF Closing, Shut, Incidental
<1>e. ASSUME Shut(e, t.c), Incidental(e, t.out) PROVE Closing(c, t)
  <2> HIDE DEF e, t
  <2> QED BY <1>3, <1>e DEF Closing, Shut, Incidental
<1>5. CASE ~Acceptable(s, d, p.headers)
  <2>1. t = Close(Send(s, d, Packet("ErrorMustEncrypt", NoHeaders, Nil)))
    BY <1>0, <1>5 DEF HandleAuthAcknowledge, RejectEncryption, Plain
  <2> HIDE DEF d, t
  <2>2. Shut(d, t.c) /\ Incidental(d, t.out)
    BY <1>2, <2>1, RejectShuts DEF Steps
  <2>3. Closing(c, t)
    BY <1>d, <2>2
  <2> QED BY <2>3 DEF t
<1>6. CASE Acceptable(s, d, p.headers) /\ c.handler = Nil
  <2>1. t = FailAuthentication(s, d, FALSE)
    BY <1>0, <1>6 DEF HandleAuthAcknowledge
  <2> HIDE DEF d, t
  <2>2. Shut(d, t.c) /\ Incidental(d, t.out)
    BY <1>2, <2>1, FailShuts
  <2>3. Closing(c, t)
    BY <1>d, <2>2
  <2> QED BY <2>3 DEF t
<1>7. CASE Acceptable(s, d, p.headers) /\ c.handler # Nil /\ A1(me).ruling = "Failed"
  <2>1. t = FailAuthentication(s, e, FALSE)
    BY <1>0, <1>1, <1>7 DEF HandleAuthAcknowledge
  <2> HIDE DEF e, t
  <2>2. Shut(e, t.c) /\ Incidental(e, t.out)
    BY <1>3, <2>1, FailShuts
  <2>3. Closing(c, t)
    BY <1>e, <2>2
  <2> QED BY <2>3 DEF t
<1>8. CASE Acceptable(s, d, p.headers) /\ c.handler # Nil /\ A1(me).ruling = "InProgress" /\ Late
  <2>1. t = Send(s, e, Packet("Handshake", NoHeaders, A1(me).data))
    BY <1>0, <1>1, <1>8 DEF HandleAuthAcknowledge, Plain
  <2> HIDE DEF e, t
  <2>2. ~e.encryptionActive /\ DOMAIN e = Fields
    BY <1>3
  <2>3. \A x : /\ Send(s, e, Packet("Handshake", NoHeaders, x)).c = e
               /\ Send(s, e, Packet("Handshake", NoHeaders, x)).out = <<Packet("Handshake", NoHeaders, x)>>
    BY <2>2, PlainSend
  <2>4. t.c = e /\ t.out = <<Packet("Handshake", NoHeaders, A1(me).data)>>
    BY <2>1, <2>3
  <2>5. Answered(me)
    BY <1>8 DEF Answered
  <2>6. Answers(me, c, t)
    BY <1>3, <1>8, <2>4, <2>5 DEF Bare, Answers
  <2> QED BY <2>6 DEF t
<1>9. CASE Acceptable(s, d, p.headers) /\ c.handler # Nil /\ A1(me).ruling = "Succeeded" /\ ~Late
  <2>1. t = Send(s, stored, Packet("FinalHandshake", NoHeaders, A1(me).data))
    BY <1>0, <1>1, <1>9 DEF HandleAuthAcknowledge, Plain
  <2> HIDE DEF stored, t
  <2>2. ~stored.encryptionActive /\ DOMAIN stored = Fields
    BY <1>4
  <2>3. \A x : /\ Send(s, stored, Packet("FinalHandshake", NoHeaders, x)).c = stored
               /\ Send(s, stored, Packet("FinalHandshake", NoHeaders, x)).out = <<Packet("FinalHandshake", NoHeaders, x)>>
    BY <2>2, PlainSend
  <2>4. t.c = stored /\ t.out = <<Packet("FinalHandshake", NoHeaders, A1(me).data)>>
    BY <2>1, <2>3
  <2>5. Answered(me)
    BY <1>9 DEF Answered
  <2>6. Answers(me, c, t)
    BY <1>4, <1>9, <2>4, <2>5 DEF Bare, Answers
  <2> QED BY <2>6 DEF t
<1>10. A1(me).ruling \in {"Failed", IF Late THEN "InProgress" ELSE "Succeeded"}
  BY Transcript
<1> QED BY <1>5, <1>6, <1>7, <1>8, <1>9, <1>10

(* SessionEstablished lets in the initiator that asked for no              *)
(* authentication.                                                         *)
LEMMA InitiatorIsLetIn ==
    ASSUME NEW c, DOMAIN c = Fields, c.authMode = "None", c.encMode = "None",
           NEW p, p.method = "SessionEstablished"
    PROVE  LET t == HandleAuthPacket("initiator", c, p) IN IsWelcome(c, t)
<1> DEFINE s == "initiator"
           d == [c EXCEPT !.remoteHeaders = p.headers]
           f == StoreAuthenticationResult(d, Nil, Nil, Nil)
           g == CompleteAuthentication(s, f)
           t == HandleAuthPacket(s, c, p)
<1>1. t = Step(g, <<>>)
  BY DEF HandleAuthPacket, HandleAuthAcknowledge
<1>2. t.c = g /\ t.out = <<>>
  BY <1>1 DEF Step
<1>3. /\ DOMAIN d = Fields /\ d.open = c.open /\ d.cipher = c.cipher
      /\ d.authMode = "None" /\ d.encMode = "None" /\ d.deriving = c.deriving
      /\ d.cipherSession = c.cipherSession /\ d.encryptionActive = c.encryptionActive
  BY DEF Fields
<1> HIDE DEF d
<1>4. /\ DOMAIN f = Fields /\ f.open = c.open /\ f.cipher = c.cipher
      /\ f.authMode = "None" /\ f.encMode = "None" /\ f.deriving = c.deriving
      /\ f.cipherSession = c.cipherSession /\ f.encryptionActive = c.encryptionActive
      /\ f.sessionKey = Nil /\ f.localIdentity = Nil
  BY <1>3, StoreIs
<1> HIDE DEF f
<1>5. /\ DOMAIN g = Fields /\ g.open = c.open /\ g.cipher = c.cipher
      /\ g.authMode = "None" /\ g.encMode = "None" /\ g.deriving = c.deriving
      /\ g.cipherSession = c.cipherSession /\ g.encryptionActive = c.encryptionActive
      /\ g.sessionKey = Nil /\ g.localIdentity = Nil /\ g.authSessionEstablished /\ g.authenticated
  BY <1>4, CompleteIs
<1> HIDE DEF g, t
<1>6. IsWelcome(c, t)
  BY <1>2, <1>5 DEF Bare, IsWelcome
<1> QED BY <1>6 DEF t

(* handleAuthAction closes, or stores what the handler has succeeded with  *)
(* and passes it on.                                                       *)
LEMMA ActionIs ==
    ASSUME NEW s \in Side, NEW c, DOMAIN c = Fields, ~c.encryptionActive, NEW p,
           p.method \in {"Handshake", "FinalHandshake"},
           NEW result, result = Process(c.authMode, s, c.handler, p.data, Provider(s)),
           result.ruling \in {"Failed", "Succeeded"},
           result.ruling = "Succeeded" => (result.data = Nil \/ p.method = "Handshake")
    PROVE  LET t == HandleAuthPacket(s, c, p) IN Closing(c, t) \/ Succeeds(s, result, c, t)
<1> DEFINE e == [c EXCEPT !.handler = result.handler]
           stored == StoreAuthenticationResult(e, result.local, result.remote, result.key)
           t == HandleAuthPacket(s, c, p)
<1>0. t = HandleAuthAction(s, c, p)
  BY DEF HandleAuthPacket
<1>3. /\ DOMAIN e = Fields /\ e.remoteHeaders = c.remoteHeaders /\ e.authMode = c.authMode
      /\ e.handler = result.handler
      /\ e.open = c.open /\ e.localIdentity = c.localIdentity /\ e.sessionKey = c.sessionKey
      /\ e.deriving = c.deriving /\ e.cipher = c.cipher /\ e.localHeaders = c.localHeaders
      /\ e.authenticated = c.authenticated /\ e.authSessionEstablished = c.authSessionEstablished
      /\ e.cipherSession = c.cipherSession /\ e.encryptionActive = c.encryptionActive
      /\ e.encMode = c.encMode
  BY DEF Fields
<1>4. /\ DOMAIN stored = Fields /\ stored.remoteHeaders = c.remoteHeaders /\ stored.authMode = c.authMode
      /\ stored.handler = result.handler
      /\ stored.open = c.open /\ stored.localIdentity = result.local /\ stored.sessionKey = result.key
      /\ stored.deriving = c.deriving /\ stored.cipher = c.cipher
      /\ stored.localHeaders = c.localHeaders
      /\ stored.authenticated = c.authenticated /\ stored.authSessionEstablished = TRUE
      /\ stored.cipherSession = c.cipherSession
      /\ stored.encryptionActive = c.encryptionActive
      /\ stored.encMode = c.encMode
  <2> HIDE DEF e
  <2> QED BY <1>3 DEF StoreAuthenticationResult, Fields
<1> DEFINE reply == IF result.data = Nil THEN Step(stored, <<>>)
                    ELSE Send(s, stored, Packet("FinalHandshake", NoHeaders, result.data))
           final == Establish(s, reply.c)
<1>1. t = IF c.handler = Nil THEN FailAuthentication(s, c, FALSE)
          ELSE IF result.ruling = "Failed" THEN FailAuthentication(s, e, FALSE)
          ELSE IF p.method = "FinalHandshake" \/ result.data = Nil
               THEN Step(final.c, reply.out \o final.out)
               ELSE reply
  BY <1>0 DEF HandleAuthAction, Plain
<1>5. CASE c.handler = Nil
  <2> HIDE DEF t
  <2>1. Closing(c, t)
    BY <1>1, <1>5, FailShuts DEF Closing
  <2> QED BY <2>1 DEF t
<1>6. CASE c.handler # Nil /\ result.ruling = "Failed"
  <2> HIDE DEF e, t
  <2>1. Shut(e, t.c) /\ Incidental(e, t.out)
    BY <1>1, <1>3, <1>6, FailShuts
  <2>2. Closing(c, t)
    BY <1>3, <2>1 DEF Closing, Shut, Incidental
  <2> QED BY <2>2 DEF t
<1>7. CASE c.handler # Nil /\ result.ruling = "Succeeded" /\ result.data # Nil
  <2>1. t = Send(s, stored, Packet("FinalHandshake", NoHeaders, result.data))
    BY <1>1, <1>7
  <2> HIDE DEF stored, t
  <2>2. t.c = stored /\ t.out = <<Packet("FinalHandshake", NoHeaders, result.data)>>
    BY <1>4, <2>1, PlainSend
  <2>3. Succeeds(s, result, c, t)
    BY <1>4, <1>7, <2>2 DEF Bare, Succeeds
  <2> QED BY <2>3 DEF t
<1>8. CASE c.handler # Nil /\ result.ruling = "Succeeded" /\ result.data = Nil
  <2> DEFINE g == CompleteAuthentication(s, stored)
             est == Packet("Established", NoHeaders, Nil)
  <2>1. t = Step(final.c, <<>> \o final.out) /\ final = Establish(s, stored)
    BY <1>1, <1>8 DEF Step
  <2> HIDE DEF stored, final, reply
  <2>2. Send(s, stored, est).c = stored /\ Send(s, stored, est).out = <<est>>
    BY <1>4, PlainSend
  <2> HIDE DEF est
  <2>3. final.c = g /\ final.out = <<est>>
    BY <2>1, <2>2 DEF Establish, Step, est, Plain
  <2>4. <<>> \o <<est>> = <<est>>
    OBVIOUS
  <2>5. t.c = g /\ t.out = <<est>>
    BY <2>1, <2>3, <2>4 DEF Step
  <2>6. /\ DOMAIN g = Fields /\ g.authSessionEstablished = TRUE
        /\ g.localIdentity = stored.localIdentity /\ g.sessionKey = stored.sessionKey
        /\ g.open = stored.open
        /\ g.authMode = stored.authMode /\ g.encMode = stored.encMode /\ g.handler = stored.handler
        /\ g.localHeaders = stored.localHeaders /\ g.remoteHeaders = stored.remoteHeaders
        /\ g.cipher = stored.cipher
        /\ g.cipherSession = stored.cipherSession /\ g.encryptionActive = stored.encryptionActive
        /\ stored.encMode = "None" => g.authenticated /\ g.deriving = stored.deriving
        /\ stored.encMode # "None" => /\ g.authenticated = stored.authenticated
                                      /\ g.deriving = Append(stored.deriving, EncryptionContext(s, stored))
    <3>1. DOMAIN stored = Fields
      BY <1>4
    <3> QED BY <3>1, CompleteIs
  <2> HIDE DEF g, t
  <2>7. c.encMode # "None" => \E x : /\ x.sessionKey = result.key
                                     /\ x.encMode = c.encMode /\ x.authMode = c.authMode
                                     /\ x.localHeaders = c.localHeaders
                                     /\ x.remoteHeaders = c.remoteHeaders
                                     /\ t.c.deriving = Append(c.deriving, EncryptionContext(s, x))
    BY <1>4, <2>5, <2>6
  <2>8. Succeeds(s, result, c, t)
    BY <1>4, <1>8, <2>5, <2>6, <2>7 DEF Bare, Succeeds, est
  <2> QED BY <2>8 DEF t
<1> QED BY <1>5, <1>6, <1>7, <1>8

-----------------------------------------------------------------------------
(***************************************************************************)
(* One turn for each packet of the handshake.                              *)
(***************************************************************************)

(* Side s takes the step t of the handshake that packet p calls for.       *)
Turn(s, me, p, t) ==
    /\ Types /\ IInv /\ session > 0 /\ ~Stale /\ Fresh(me)
    /\ Hears(s) /\ wire[s] # <<>> /\ p = Head(wire[s]) /\ IsStep(p) /\ Good(me, s, p)
    /\ t = HandleAuthPacket(s, conn[s], p)
    /\ conn' = [conn EXCEPT ![s] = t.c]
    /\ wire' = [wire EXCEPT ![s] = Tail(@), ![Peer(s)] = @ \o t.out]
    /\ UNCHANGED <<setup, session, misread>>

(* What is known of a side that takes a turn.                              *)
LEMMA TurnIs ==
    ASSUME NEW s \in Side, NEW me \in Identities, NEW p, NEW t, Turn(s, me, p, t)
    PROVE  /\ DOMAIN conn[s] = Fields /\ conn[s].open /\ ~conn[s].authenticated
           /\ ~conn[s].encryptionActive /\ conn[s].cipher = Nil
           /\ conn'[s] = t.c /\ conn'[Peer(s)] = conn[Peer(s)]
           /\ setup \in Setup /\ M' = M /\ E' = E
           /\ Hears(Peer(s))' <=> Hears(Peer(s))
           /\ M = "None" => conn[s].sessionKey = Nil
           /\ s = "initiator" => conn[s].localIdentity \in Identities
<1>1. conn = [u \in Side |-> conn[u]] /\ Peer(s) \in Side /\ Peer(s) # s
  BY SidesAre DEF Turn, Types
<1>2. conn'[s] = t.c /\ conn'[Peer(s)] = conn[Peer(s)]
  BY <1>1 DEF Turn
<1>3. DOMAIN conn[s] = Fields /\ setup \in Setup
  BY DEF Turn, Types
<1>4. /\ conn[s].encryptionActive <=> conn[s].cipher # Nil
      /\ M = "None" => conn[s].sessionKey = Nil
      /\ conn["initiator"].localIdentity \in Identities
  BY DEF Turn, IInv, Always
<1>5. conn[s].open /\ ~conn[s].authenticated /\ ~conn[s].encryptionActive
  BY DEF Turn, Hears
<1>6. M' = M /\ E' = E
  BY SameTranscript DEF Turn
<1>7. Peer(s)' = Peer(s)
  BY DEF Peer
<1>8. Hears(Peer(s))' <=> Hears(Peer(s))
  BY <1>2, <1>7 DEF Hears
<1> QED BY <1>2, <1>3, <1>4, <1>5, <1>6, <1>8

(* A turn that closes the side keeps the invariant.                        *)
LEMMA TurnCloses ==
    ASSUME NEW s \in Side, NEW me \in Identities, NEW p, NEW t, Turn(s, me, p, t),
           Closing(conn[s], t)
    PROVE  Types' /\ IInv'
<1>1. /\ Types /\ IInv /\ session > 0 /\ UNCHANGED <<setup, session, misread>>
      /\ Delivered(s, t.c, t.out)
  BY DEF Turn, Delivered
<1>2. misread' \in {"no", "stale", "early"} /\ (misread # "no" => misread' # "no")
  BY <1>1 DEF Types
<1>3. Shut(conn[s], t.c) /\ Incidental(conn[s], t.out)
  BY DEF Closing
<1> QED BY <1>1, <1>2, <1>3, ClosingStep

(* A turn that agrees with the transcript keeps the invariant.             *)
LEMMA TurnAnswers ==
    ASSUME NEW s \in Side, NEW me \in Identities, NEW p, NEW t, Turn(s, me, p, t),
           Bare(conn[s], t.c), s = "initiator" => t.c.localIdentity \in Identities,
           M = "None" => t.c.sessionKey = Nil,
           t.out = <<>> \/ \E m, h, x : /\ t.out = <<Packet(m, h, x)>> /\ m \in Steps
                                        /\ Hears(Peer(s)) => Good(me, Peer(s), Packet(m, h, x))',
           s = "initiator" => InitiatorInv(me)',
           s = "responder" => ResponderInv(me)',
           CipherInv(me, s)'
    PROVE  Types' /\ IInv'
<1>1. /\ Types /\ IInv /\ session > 0 /\ ~Stale /\ Fresh(me) /\ Hears(s) /\ wire[s] # <<>>
      /\ IsStep(Head(wire[s])) /\ UNCHANGED <<setup, session, misread>>
      /\ conn' = [conn EXCEPT ![s] = t.c]
      /\ wire' = [wire EXCEPT ![s] = Tail(@), ![Peer(s)] = @ \o t.out]
  BY DEF Turn
<1>2. /\ DOMAIN t.c = Fields /\ t.c.cipher = conn[s].cipher
      /\ t.c.cipherSession = conn[s].cipherSession
      /\ t.c.encryptionActive = conn[s].encryptionActive
  BY DEF Bare
<1>3. PICK out : out = t.out
  OBVIOUS
<1>4. CASE t.out = <<>>
  <2>1. out = <<>> /\ \A q : <<q>> # out
    BY <1>3, <1>4
  <2> QED BY <1>1, <1>2, <1>3, <2>1, AnswerStep
<1>5. ASSUME NEW m, NEW h, NEW x, t.out = <<Packet(m, h, x)>>, m \in Steps,
             Hears(Peer(s)) => Good(me, Peer(s), Packet(m, h, x))'
      PROVE  Types' /\ IInv'
  <2>1. PICK q : q = Packet(m, h, x)
    OBVIOUS
  <2>2. q.seal = Nil /\ q.method # "request"
    BY <1>5, <2>1 DEF Packet, Steps
  <2>3. out = <<q>>
    BY <1>3, <1>5, <2>1
  <2>4. Hears(Peer(s)) => Good(me, Peer(s), q)'
    BY <1>5, <2>1
  <2>5. ASSUME NEW r, out = <<r>>, Hears(Peer(s)) PROVE Good(me, Peer(s), r)'
    <3>1. r = q
      BY <2>3, <2>5
    <3> QED BY <2>4, <2>5, <3>1
  <2> QED BY <1>1, <1>2, <1>3, <2>2, <2>3, <2>5, AnswerStep
<1> QED BY <1>4, <1>5

(* The responder's first turn keeps the invariant.                         *)
LEMMA TurnOnInitialize ==
    ASSUME NEW me \in Identities, NEW p, NEW t, Turn("responder", me, p, t),
           p.method = "Initialize"
    PROVE  Types' /\ IInv'
<1> DEFINE s == "responder"
           c == conn[s]
<1>0. s \in Side /\ Peer(s) = "initiator"
  BY SidesAre
<1>1. /\ DOMAIN c = Fields /\ c.open /\ ~c.authenticated
      /\ ~c.encryptionActive /\ c.cipher = Nil
      /\ conn'[s] = t.c /\ conn'["initiator"] = conn["initiator"]
      /\ setup \in Setup /\ M' = M /\ E' = E
  BY <1>0, TurnIs
<1>2. GoodForResponder(me, p)
  BY DEF Turn, Good
<1>3. /\ p.authMode = M /\ p.encMode = E /\ p.headers = HI
      /\ p.data = IF M = "None" THEN Nil ELSE A0(me).data
      /\ c.handler = Nil /\ ~c.authSessionEstablished
      /\ c.deriving = <<>> /\ c.authMode = "None" /\ c.sessionKey = Nil
      /\ c.localHeaders = NoHeaders
      /\ Hears("initiator") => Waits("initiator", IF M = "None" THEN Nil ELSE A0(me).handler, FALSE)
  BY <1>2 DEF GoodForResponder
<1>4. t = HandleAuthPacket("responder", c, p)
  BY DEF Turn
<1>5. UNCHANGED <<setup, session>>
  BY DEF Turn
<1>6. Closing(c, t) \/ Welcomes(c, t) \/ Challenges(me, c, t)
  <2> HIDE DEF c, s
  <2> QED BY <1>1, <1>3, <1>4, ResponderStarts
<1>7. CASE Closing(c, t)
  BY <1>0, <1>7, TurnCloses
<1>8. CASE Welcomes(c, t)
  <2>0. /\ M = "None" /\ E = "None" /\ Bare(c, t.c)
        /\ t.c.authMode = "None" /\ t.c.encMode = "None" /\ t.c.sessionKey = Nil
        /\ t.c.authSessionEstablished /\ t.c.authenticated /\ t.c.deriving = <<>>
        /\ t.out = <<Packet("SessionEstablished", NoHeaders, Nil)>>
    BY <1>8 DEF Welcomes
  <2> DEFINE q == Packet("SessionEstablished", NoHeaders, Nil)
  <2>1. q.method = "SessionEstablished" /\ "SessionEstablished" \in Steps
    BY DEF Packet, Steps
  <2>2. Hears("initiator") => Good(me, "initiator", q)'
    <3>1. SUFFICES ASSUME Hears("initiator") PROVE GoodForInitiator(me, q)'
      BY DEF Good
    <3>2. Waits("initiator", Nil, FALSE)
      BY <1>3, <2>0, <3>1
    <3>3. Waits("initiator", Nil, FALSE)'
      BY <1>1, <3>2 DEF Waits
    <3>4. q'.method = "SessionEstablished"
      BY DEF Packet
    <3> HIDE DEF q
    <3> QED BY <1>1, <2>0, <3>3, <3>4 DEF GoodForInitiator
  <2>3. ResponderInv(me)'
    BY <1>1, <2>0 DEF ResponderInv
  <2>4. CipherInv(me, s)'
    BY <1>1, <2>0 DEF CipherInv, Bare
  <2> HIDE DEF q
  <2>5. \E m, h, x : /\ t.out = <<Packet(m, h, x)>> /\ m \in Steps
                     /\ Hears(Peer(s)) => Good(me, Peer(s), Packet(m, h, x))'
    BY <1>0, <2>0, <2>1, <2>2 DEF q
  <2> QED BY <1>0, <2>0, <2>3, <2>4, <2>5, TurnAnswers
<1>9. CASE Challenges(me, c, t)
  <2>0. /\ Challenged(me) /\ setup.fault # "provider" /\ Bare(c, t.c)
        /\ t.c.authMode = M /\ t.c.encMode = E /\ t.c.sessionKey = Nil
        /\ t.c.handler = B0(me).handler /\ t.c.localHeaders = HR /\ t.c.remoteHeaders = HI
        /\ t.c.authSessionEstablished = FALSE /\ ~t.c.authenticated /\ t.c.deriving = <<>>
        /\ t.out = <<Packet("ProceedToHandshake", HR, B0(me).data)>>
    BY <1>9 DEF Challenges
  <2>1. M # "None"
    BY <2>0 DEF Challenged
  <2>2. PICK m, h, x : m = "ProceedToHandshake" /\ h = HR /\ x = B0(me).data
    OBVIOUS
  <2>3. /\ Packet(m, h, x).method = m /\ Packet(m, h, x).headers = h
        /\ Packet(m, h, x).data = x /\ Packet(m, h, x)' = Packet(m, h, x)
    BY DEF Packet, NoHeaders
  <2>4. Hears("initiator") => Good(me, "initiator", Packet(m, h, x))'
    <3>1. SUFFICES ASSUME Hears("initiator") PROVE GoodForInitiator(me, Packet(m, h, x))'
      BY DEF Good
    <3>2. Waits("initiator", A0(me).handler, FALSE)
      BY <1>3, <2>1, <3>1
    <3>3. Waits("initiator", A0(me).handler, FALSE)'
      BY <1>1, <1>5, <3>2, SameTranscript DEF Waits
    <3>4. Waits("responder", B0(me).handler, FALSE)'
      BY <1>1, <1>5, <2>0, SameTranscript DEF Waits
    <3> QED BY <1>5, <2>0, <2>2, <2>3, <3>3, <3>4, SameTranscript DEF GoodForInitiator
  <2>5. ResponderInv(me)'
    BY <1>1, <1>5, <2>0, <2>1, SameTranscript DEF ResponderInv
  <2>6. CipherInv(me, s)'
    BY <1>1, <2>0 DEF CipherInv, Bare
  <2>7. \E k, g, y : /\ t.out = <<Packet(k, g, y)>> /\ k \in Steps
                     /\ Hears(Peer(s)) => Good(me, Peer(s), Packet(k, g, y))'
    BY <1>0, <2>0, <2>2, <2>4 DEF Steps
  <2> QED BY <1>0, <2>0, <2>1, <2>5, <2>6, <2>7, TurnAnswers
<1> QED BY <1>6, <1>7, <1>8, <1>9

(* The initiator's answer to the challenge keeps the invariant.            *)
LEMMA TurnOnProceed ==
    ASSUME NEW me \in Identities, NEW p, NEW t, Turn("initiator", me, p, t),
           p.method = "ProceedToHandshake"
    PROVE  Types' /\ IInv'
<1> DEFINE s == "initiator"
           c == conn[s]
<1>0. s \in Side /\ Peer(s) = "responder"
  BY SidesAre
<1>1. /\ DOMAIN c = Fields /\ c.open /\ ~c.authenticated
      /\ ~c.encryptionActive /\ c.cipher = Nil
      /\ conn'[s] = t.c /\ conn'["responder"] = conn["responder"]
      /\ setup \in Setup /\ M' = M /\ E' = E /\ c.localIdentity \in Identities
  BY <1>0, TurnIs
<1>2. GoodForInitiator(me, p)
  BY DEF Turn, Good
<1>3. /\ Challenged(me) /\ setup.fault # "provider" /\ p.data = B0(me).data /\ p.headers = HR
      /\ c.handler = A0(me).handler /\ c.authSessionEstablished = FALSE /\ c.deriving = <<>>
      /\ c.authMode = M /\ c.encMode = E
      /\ Hears("responder") => Waits("responder", B0(me).handler, FALSE)
  BY <1>2 DEF GoodForInitiator, Waits
<1>4. t = HandleAuthPacket("initiator", c, p)
  BY DEF Turn
<1>5. UNCHANGED <<setup, session>>
  BY DEF Turn
<1>6. M # "None"
  BY <1>3 DEF Challenged
<1>7. Closing(c, t) \/ Answers(me, c, t)
  <2> HIDE DEF c, s
  <2> QED BY <1>1, <1>3, <1>4, <1>6, InitiatorContinues
<1>8. CASE Closing(c, t)
  BY <1>0, <1>8, TurnCloses
<1>9. c.localHeaders = HI
  BY <1>1, <1>3, <1>6 DEF Turn, Fresh, InitiatorInv
<1>10. CASE Answers(me, c, t) /\ Late
  <2>1. /\ Answered(me) /\ Bare(c, t.c)
        /\ t.c.authMode = M /\ t.c.encMode = E /\ t.c.handler = A1(me).handler
        /\ t.c.localHeaders = HI /\ t.c.remoteHeaders = HR
        /\ ~t.c.authenticated /\ t.c.deriving = <<>> /\ t.c.authSessionEstablished = FALSE
        /\ t.c.localIdentity = c.localIdentity
        /\ t.out = <<Packet("Handshake", NoHeaders, A1(me).data)>>
    BY <1>1, <1>3, <1>9, <1>10 DEF Answers
  <2>2. PICK m, h, x : m = "Handshake" /\ h = NoHeaders /\ x = A1(me).data
    OBVIOUS
  <2>3. /\ Packet(m, h, x).method = m /\ Packet(m, h, x).data = x
        /\ Packet(m, h, x)' = Packet(m, h, x)
    BY DEF Packet
  <2>4. Hears("responder") => Good(me, "responder", Packet(m, h, x))'
    <3>1. SUFFICES ASSUME Hears("responder") PROVE GoodForResponder(me, Packet(m, h, x))'
      BY DEF Good
    <3>2. Waits("responder", B0(me).handler, FALSE)'
      BY <1>1, <1>3, <1>5, <3>1, SameTranscript DEF Waits
    <3>3. Waits("initiator", A1(me).handler, FALSE)' /\ conn'["initiator"].remoteHeaders = HR
      BY <1>1, <1>5, <2>1, SameTranscript DEF Waits
    <3> QED BY <1>5, <1>10, <2>1, <2>2, <2>3, <3>2, <3>3, SameTranscript DEF GoodForResponder
  <2>5. InitiatorInv(me)'
    BY <1>1, <1>5, <1>6, <2>1, SameTranscript DEF InitiatorInv
  <2>6. CipherInv(me, s)'
    BY <1>1, <2>1 DEF CipherInv, Bare
  <2>7. \E k, g, y : /\ t.out = <<Packet(k, g, y)>> /\ k \in Steps
                     /\ Hears(Peer(s)) => Good(me, Peer(s), Packet(k, g, y))'
    BY <1>0, <2>1, <2>2, <2>4 DEF Steps
  <2> QED BY <1>0, <1>1, <1>6, <2>1, <2>5, <2>6, <2>7, TurnAnswers
<1>11. CASE Answers(me, c, t) /\ ~Late
  <2>1. /\ Answered(me) /\ Bare(c, t.c)
        /\ t.c.authMode = M /\ t.c.encMode = E /\ t.c.handler = A1(me).handler
        /\ t.c.localHeaders = HI /\ t.c.remoteHeaders = HR
        /\ ~t.c.authenticated /\ t.c.deriving = <<>> /\ t.c.authSessionEstablished = TRUE
        /\ t.c.localIdentity = A1(me).local /\ t.c.sessionKey = A1(me).key
        /\ t.out = <<Packet("FinalHandshake", NoHeaders, A1(me).data)>>
    BY <1>1, <1>3, <1>9, <1>11 DEF Answers
  <2>2. PICK m, h, x : m = "FinalHandshake" /\ h = NoHeaders /\ x = A1(me).data
    OBVIOUS
  <2>3. /\ Packet(m, h, x).method = m /\ Packet(m, h, x).data = x
        /\ Packet(m, h, x)' = Packet(m, h, x)
    BY DEF Packet
  <2>4. Hears("responder") => Good(me, "responder", Packet(m, h, x))'
    <3>1. SUFFICES ASSUME Hears("responder") PROVE GoodForResponder(me, Packet(m, h, x))'
      BY DEF Good
    <3>2. Waits("responder", B0(me).handler, FALSE)'
      BY <1>1, <1>3, <1>5, <3>1, SameTranscript DEF Waits
    <3>3. Waits("initiator", A1(me).handler, TRUE)'
      BY <1>1, <1>5, <2>1, SameTranscript DEF Waits
    <3> QED BY <1>5, <1>11, <2>1, <2>2, <2>3, <3>2, <3>3, SameTranscript DEF GoodForResponder
  <2>5. Finished(me) /\ Last(me) = A1(me)
    BY <1>11, <2>1 DEF Finished, Last
  <2>6. A1(me).local \in Identities
    BY <1>1, <1>6, <2>5, Transcript
  <2>7. InitiatorInv(me)'
    BY <1>1, <1>3, <1>5, <1>6, <2>1, <2>5, SameTranscript DEF InitiatorInv
  <2>8. CipherInv(me, s)'
    BY <1>1, <2>1 DEF CipherInv, Bare
  <2>9. \E k, g, y : /\ t.out = <<Packet(k, g, y)>> /\ k \in Steps
                     /\ Hears(Peer(s)) => Good(me, Peer(s), Packet(k, g, y))'
    BY <1>0, <2>1, <2>2, <2>4 DEF Steps
  <2> QED BY <1>0, <1>6, <2>1, <2>6, <2>7, <2>8, <2>9, TurnAnswers
<1> QED BY <1>7, <1>8, <1>10, <1>11

(* The anonymous initiator's turn keeps the invariant.                     *)
LEMMA TurnOnSessionEstablished ==
    ASSUME NEW me \in Identities, NEW p, NEW t, Turn("initiator", me, p, t),
           p.method = "SessionEstablished"
    PROVE  Types' /\ IInv'
<1> DEFINE s == "initiator"
           c == conn[s]
<1>0. s \in Side
  BY SidesAre
<1>1. /\ DOMAIN c = Fields /\ c.open /\ ~c.authenticated
      /\ ~c.encryptionActive /\ c.cipher = Nil /\ conn'[s] = t.c /\ M' = M /\ E' = E
  BY <1>0, TurnIs
<1>2. GoodForInitiator(me, p)
  BY DEF Turn, Good
<1>3. M = "None" /\ E = "None" /\ c.deriving = <<>> /\ c.authMode = M /\ c.encMode = E
  BY <1>2 DEF GoodForInitiator, Waits
<1>4. t = HandleAuthPacket("initiator", c, p)
  BY DEF Turn
<1>5. IsWelcome(c, t)
  <2> HIDE DEF c, s
  <2> QED BY <1>1, <1>3, <1>4, InitiatorIsLetIn
<1>6. /\ Bare(c, t.c) /\ t.out = <<>> /\ t.c.authMode = "None" /\ t.c.encMode = "None"
      /\ t.c.authSessionEstablished /\ t.c.authenticated
      /\ t.c.sessionKey = Nil /\ t.c.localIdentity = Nil /\ t.c.deriving = <<>>
  BY <1>3, <1>5 DEF IsWelcome
<1>7. InitiatorInv(me)'
  BY <1>1, <1>3, <1>6 DEF InitiatorInv
<1>8. CipherInv(me, s)'
  BY <1>1, <1>6 DEF CipherInv, Bare
<1>9. t.c.localIdentity \in Identities
  BY <1>6 DEF Identities
<1> QED BY <1>0, <1>6, <1>7, <1>8, <1>9, TurnAnswers

(* A side that has accepted its peer hears that the peer accepted it.      *)
Completes(s, c, t) ==
    /\ Bare(c, t.c) /\ t.out = <<>> /\ t.c.authSessionEstablished
    /\ t.c.authMode = c.authMode /\ t.c.encMode = c.encMode
    /\ t.c.localHeaders = c.localHeaders /\ t.c.remoteHeaders = c.remoteHeaders
    /\ t.c.localIdentity = c.localIdentity /\ t.c.sessionKey = c.sessionKey
    /\ c.encMode = "None" => t.c.authenticated /\ t.c.deriving = c.deriving
    /\ c.encMode # "None" => /\ t.c.authenticated = c.authenticated
                             /\ t.c.deriving = Append(c.deriving, EncryptionContext(s, c))

(* Established completes the authentication of a side that has accepted.   *)
LEMMA EstablishedCompletes ==
    ASSUME NEW s, NEW c, DOMAIN c = Fields, c.authSessionEstablished,
           NEW p, p.method = "Established"
    PROVE  LET t == HandleAuthPacket(s, c, p) IN Completes(s, c, t)
<1> DEFINE t == HandleAuthPacket(s, c, p)
           d == CompleteAuthentication(s, c)
<1>1. t = Step(d, <<>>)
  BY DEF HandleAuthPacket, HandleAuthEvent
<1>2. t.c = d /\ t.out = <<>>
  BY <1>1 DEF Step
<1>3. /\ DOMAIN d = Fields
      /\ d.authSessionEstablished
      /\ d.localIdentity = c.localIdentity /\ d.sessionKey = c.sessionKey
      /\ d.open = c.open
      /\ d.authMode = c.authMode /\ d.encMode = c.encMode /\ d.handler = c.handler
      /\ d.localHeaders = c.localHeaders /\ d.remoteHeaders = c.remoteHeaders
      /\ d.cipher = c.cipher
      /\ d.cipherSession = c.cipherSession /\ d.encryptionActive = c.encryptionActive
      /\ c.encMode = "None" => d.authenticated /\ d.deriving = c.deriving
      /\ c.encMode # "None" => /\ d.authenticated = c.authenticated
                               /\ d.deriving = Append(c.deriving, EncryptionContext(s, c))
  BY CompleteIs
<1> HIDE DEF d, t
<1>4. Completes(s, c, t)
  BY <1>2, <1>3 DEF Completes, Bare
<1> QED BY <1>4 DEF t

(* A side that has accepted and is ready, or derives from the transcript's *)
(* context, has the keys the invariant speaks of.                          *)
LEMMA CipherInvOnceAccepted ==
    ASSUME NEW s \in Side, NEW me \in Identities, NEW p, NEW t, Turn(s, me, p, t), Bare(conn[s], t.c),
           t.c.authSessionEstablished, t.c.encMode = E,
           E = "None" => t.c.authenticated /\ t.c.deriving = <<>>,
           E # "None" => ~t.c.authenticated /\ t.c.deriving = <<Context(me)>>
    PROVE  CipherInv(me, s)'
<1>1. /\ conn[s].open /\ ~conn[s].encryptionActive /\ conn[s].cipher = Nil
      /\ conn'[s] = t.c /\ Context(me)' = Context(me)
  <2>1. UNCHANGED <<setup, session>>
    BY DEF Turn
  <2> QED BY <2>1, TurnIs, SameTranscript
<1>2. t.c.cipher = Nil /\ ~t.c.encryptionActive
  BY <1>1 DEF Bare
<1> QED BY <1>1, <1>2 DEF CipherInv

(* One element appended to none.                                           *)
LEMMA AppendToNone == \A x : Append(<<>>, x) = <<x>>
OBVIOUS

(* The initiator hears the responder's last word, and has the last itself. *)
(* The initiator's turn on the responder's last word keeps the invariant.  *)
LEMMA TurnOnLastWord ==
    ASSUME NEW me \in Identities, NEW p, NEW t, Turn("initiator", me, p, t),
           p.method = "FinalHandshake"
    PROVE  Types' /\ IInv'
<1> DEFINE s == "initiator"
           c == conn[s]
<1>0. s \in Side /\ Peer(s) = "responder"
  BY SidesAre
<1>1. /\ DOMAIN c = Fields /\ c.open /\ ~c.authenticated
      /\ ~c.encryptionActive /\ c.cipher = Nil
      /\ conn'[s] = t.c /\ conn'["responder"] = conn["responder"]
      /\ setup \in Setup /\ M' = M /\ E' = E
  BY <1>0, TurnIs
<1>2. GoodForInitiator(me, p)
  BY DEF Turn, Good
<1>3. /\ Late /\ Accepted(me) /\ p.data = B1(me).data /\ setup.fault # "provider"
      /\ c.remoteHeaders = HR
      /\ c.handler = A1(me).handler /\ c.authSessionEstablished = FALSE /\ c.deriving = <<>>
      /\ c.authMode = M /\ c.encMode = E
      /\ Hears("responder") => Waits("responder", B1(me).handler, TRUE)
  BY <1>2 DEF GoodForInitiator, Waits
<1>4. t = HandleAuthPacket("initiator", c, p) /\ UNCHANGED <<setup, session>>
  BY DEF Turn
<1>5. M # "None"
  BY <1>3 DEF Accepted, Answered, Challenged
<1>6. /\ A2(me).ruling \in {"Failed", "Succeeded"}
      /\ A2(me).ruling = "Succeeded" => /\ Finished(me) /\ Last(me) = A2(me) /\ A2(me).data = Nil
                                        /\ A2(me).key = B1(me).key /\ A2(me).local \in Identities
  <2>1. Last(me) = A2(me) /\ (A2(me).ruling = "Succeeded" => Finished(me))
    BY <1>3 DEF Last, Finished
  <2> QED BY <1>1, <1>3, <1>5, <2>1, Transcript
<1>7. PICK result : result = A2(me)
  OBVIOUS
<1>8. Closing(c, t) \/ Succeeds("initiator", result, c, t)
  <2>1. result = Process(c.authMode, "initiator", c.handler, p.data, Provider("initiator"))
    BY <1>3, <1>7 DEF A2
  <2>2. "initiator" \in Side
    BY SidesAre
  <2> HIDE DEF c, s
  <2> QED BY <1>1, <1>4, <1>6, <1>7, <2>1, <2>2, ActionIs
<1>9. CASE Closing(c, t)
  BY <1>0, <1>9, TurnCloses
<1>10. c.localHeaders = HI
  BY <1>1, <1>3, <1>5 DEF Turn, Fresh, InitiatorInv
<1>11. CASE Succeeds("initiator", result, c, t)
  <2>1. /\ Finished(me) /\ Last(me) = A2(me) /\ A2(me).data = Nil
        /\ A2(me).key = B1(me).key /\ A2(me).local \in Identities
    BY <1>6, <1>7, <1>11 DEF Succeeds
  <2>2. /\ Bare(c, t.c)
        /\ t.c.authMode = M /\ t.c.encMode = E /\ t.c.localHeaders = HI /\ t.c.remoteHeaders = HR
        /\ t.c.authSessionEstablished = TRUE
        /\ t.c.localIdentity = A2(me).local /\ t.c.sessionKey = A2(me).key
        /\ t.out = <<Packet("Established", NoHeaders, Nil)>>
        /\ E = "None" => t.c.authenticated /\ t.c.deriving = <<>>
        /\ E # "None" => t.c.authenticated = c.authenticated
    BY <1>3, <1>7, <1>10, <1>11, <2>1 DEF Succeeds
  <2>3. E # "None" => t.c.deriving = <<Context(me)>>
    <3>1. SUFFICES ASSUME E # "None" PROVE t.c.deriving = <<Context(me)>>
      OBVIOUS
    <3>2. PICK x : /\ x.sessionKey = A2(me).key
                   /\ x.encMode = E /\ x.authMode = M
                   /\ x.localHeaders = HI /\ x.remoteHeaders = HR
                   /\ t.c.deriving = Append(<<>>, EncryptionContext("initiator", x))
      BY <1>3, <1>7, <1>10, <1>11, <2>1, <3>1 DEF Succeeds
    <3>3. EncryptionContext("initiator", x) = Context(me)
      BY <2>1, <3>2, SidesAre, ContextAgrees
    <3> QED BY <3>2, <3>3, AppendToNone
  <2>4. PICK m, h, x : m = "Established" /\ h = NoHeaders /\ x = Nil
    OBVIOUS
  <2>5. Packet(m, h, x).method = m /\ Packet(m, h, x)' = Packet(m, h, x)
    BY DEF Packet
  <2>6. Hears("responder") => Good(me, "responder", Packet(m, h, x))'
    <3>1. SUFFICES ASSUME Hears("responder") PROVE GoodForResponder(me, Packet(m, h, x))'
      BY DEF Good
    <3>2. Waits("responder", B1(me).handler, TRUE)'
      BY <1>1, <1>3, <1>4, <3>1, SameTranscript DEF Waits
    <3> QED BY <1>3, <1>4, <2>1, <2>4, <2>5, <3>2, SameTranscript DEF GoodForResponder
  <2>7. InitiatorInv(me)'
    BY <1>1, <1>3, <1>4, <1>5, <2>1, <2>2, SameTranscript DEF InitiatorInv
  <2>8. CipherInv(me, s)'
    BY <1>0, <1>1, <2>2, <2>3, CipherInvOnceAccepted
  <2>9. \E k, g, y : /\ t.out = <<Packet(k, g, y)>> /\ k \in Steps
                     /\ Hears(Peer(s)) => Good(me, Peer(s), Packet(k, g, y))'
    BY <1>0, <2>2, <2>4, <2>6 DEF Steps
  <2> QED BY <1>0, <1>5, <2>1, <2>2, <2>7, <2>8, <2>9, TurnAnswers
<1> QED BY <1>8, <1>9, <1>11

(* The turn of a side that hears it was accepted keeps the invariant.      *)
LEMMA TurnOnEstablished ==
    ASSUME NEW s \in Side, NEW me \in Identities, NEW p, NEW t, Turn(s, me, p, t),
           p.method = "Established"
    PROVE  Types' /\ IInv'
<1> DEFINE c == conn[s]
<1>1. /\ DOMAIN c = Fields /\ c.open /\ ~c.authenticated
      /\ ~c.encryptionActive /\ c.cipher = Nil /\ conn'[s] = t.c
      /\ setup \in Setup /\ M' = M /\ E' = E
      /\ s = "initiator" => c.localIdentity \in Identities
  BY TurnIs
<1>2. t = HandleAuthPacket(s, c, p) /\ UNCHANGED <<setup, session>>
  BY DEF Turn
<1>3. /\ c.authSessionEstablished = TRUE /\ c.deriving = <<>> /\ c.authMode = M /\ c.encMode = E
      /\ s = "initiator" => ~Late /\ Accepted(me)
      /\ s = "responder" => Late /\ Finished(me)
  <2>1. CASE s = "initiator"
    <3>1. GoodForInitiator(me, p)
      BY <2>1 DEF Turn, Good
    <3> QED BY <2>1, <3>1 DEF GoodForInitiator, Waits
  <2>2. CASE s = "responder"
    <3>1. GoodForResponder(me, p)
      BY <2>2 DEF Turn, Good
    <3> QED BY <2>2, <3>1 DEF GoodForResponder, Waits
  <2> QED BY <2>1, <2>2, SidesAre
<1>4. Accepted(me) /\ Finished(me) /\ M # "None"
  BY <1>3, SidesAre DEF Accepted, Answered, Challenged, Finished
<1>5. Last(me).key = B1(me).key
  BY <1>1, <1>4, Transcript
<1>6. /\ c.sessionKey = B1(me).key
      /\ s = "initiator" => c.localHeaders = HI /\ c.remoteHeaders = HR /\ setup.fault # "provider"
      /\ s = "responder" => c.localHeaders = HR /\ c.remoteHeaders = HI /\ setup.fault # "provider"
  <2>1. InitiatorInv(me) /\ ResponderInv(me)
    BY DEF Turn, Fresh
  <2>2. CASE s = "initiator"
    BY <1>1, <1>3, <1>4, <1>5, <2>1, <2>2 DEF InitiatorInv
  <2>3. CASE s = "responder"
    BY <1>1, <1>3, <1>4, <2>1, <2>3 DEF ResponderInv
  <2> QED BY <2>2, <2>3, SidesAre
<1>7. EncryptionContext(s, c) = Context(me)
  <2> HIDE DEF c
  <2> QED BY <1>3, <1>6, ContextAgrees
<1>8. Completes(s, c, t)
  <2> HIDE DEF c
  <2> QED BY <1>1, <1>2, <1>3, EstablishedCompletes
<1>9. /\ Bare(c, t.c) /\ t.out = <<>> /\ t.c.authSessionEstablished
      /\ t.c.authMode = M /\ t.c.encMode = E
      /\ t.c.localHeaders = c.localHeaders /\ t.c.remoteHeaders = c.remoteHeaders
      /\ t.c.localIdentity = c.localIdentity /\ t.c.sessionKey = B1(me).key
      /\ E = "None" => t.c.authenticated /\ t.c.deriving = <<>>
      /\ E # "None" => ~t.c.authenticated /\ t.c.deriving = <<Context(me)>>
  <2>1. Append(c.deriving, EncryptionContext(s, c)) = <<Context(me)>>
    BY <1>3, <1>7, AppendToNone
  <2> HIDE DEF c
  <2> QED BY <1>1, <1>3, <1>6, <1>8, <2>1 DEF Completes
<1>10. CipherInv(me, s)'
  BY <1>9, CipherInvOnceAccepted
<1>11. s = "initiator" => InitiatorInv(me)'
  BY <1>1, <1>2, <1>4, <1>5, <1>6, <1>9, SameTranscript DEF InitiatorInv
<1>12. s = "responder" => ResponderInv(me)'
  BY <1>1, <1>2, <1>4, <1>6, <1>9, SameTranscript DEF ResponderInv
<1> QED BY <1>1, <1>4, <1>9, <1>10, <1>11, <1>12, TurnAnswers

(* The responder hears the initiator's answer.                             *)
(* The responder's turn on the initiator's answer keeps the invariant.     *)
LEMMA TurnOnAnswer ==
    ASSUME NEW me \in Identities, NEW p, NEW t, Turn("responder", me, p, t),
           p.method \in {"Handshake", "FinalHandshake"}
    PROVE  Types' /\ IInv'
<1> DEFINE s == "responder"
           c == conn[s]
<1>0. s \in Side /\ Peer(s) = "initiator"
  BY SidesAre
<1>1. /\ DOMAIN c = Fields /\ c.open /\ ~c.authenticated
      /\ ~c.encryptionActive /\ c.cipher = Nil
      /\ conn'[s] = t.c /\ conn'["initiator"] = conn["initiator"]
      /\ setup \in Setup /\ M' = M /\ E' = E
  BY <1>0, TurnIs
<1>2. GoodForResponder(me, p)
  BY DEF Turn, Good
<1>3. /\ Answered(me) /\ p.data = A1(me).data
      /\ c.handler = B0(me).handler /\ c.authSessionEstablished = FALSE /\ c.deriving = <<>>
      /\ c.authMode = M /\ c.encMode = E
      /\ p.method = IF Late THEN "Handshake" ELSE "FinalHandshake"
      /\ Hears("initiator") => /\ Waits("initiator", A1(me).handler, ~Late)
                               /\ Late => conn["initiator"].remoteHeaders = HR
  BY <1>2 DEF GoodForResponder, Waits, Late
<1>4. t = HandleAuthPacket("responder", c, p) /\ UNCHANGED <<setup, session>>
  BY DEF Turn
<1>5. M # "None"
  BY <1>3 DEF Answered, Challenged
<1>6. /\ B1(me).ruling \in {"Failed", "Succeeded"}
      /\ B1(me).ruling = "Succeeded" => /\ Accepted(me)
                                        /\ B1(me).data = Nil <=> ~Late
  <2>1. B1(me).ruling = "Succeeded" => Accepted(me)
    BY <1>3 DEF Accepted
  <2> QED BY <1>1, <1>3, <1>5, <2>1, Transcript
<1>7. PICK result : result = B1(me)
  OBVIOUS
<1>8. Closing(c, t) \/ Succeeds("responder", result, c, t)
  <2>1. result = Process(c.authMode, "responder", c.handler, p.data, Provider("responder"))
    BY <1>3, <1>7 DEF B1
  <2>2. "responder" \in Side
    BY SidesAre
  <2>3. result.ruling = "Succeeded" => (result.data = Nil \/ p.method = "Handshake")
    BY <1>3, <1>6, <1>7
  <2> HIDE DEF c, s
  <2> QED BY <1>1, <1>4, <1>6, <1>7, <2>1, <2>2, <2>3, ActionIs
<1>9. CASE Closing(c, t)
  BY <1>0, <1>9, TurnCloses
<1>10. c.localHeaders = HR /\ c.remoteHeaders = HI /\ setup.fault # "provider"
  BY <1>1, <1>3, <1>5 DEF Turn, Fresh, ResponderInv
<1>11. ASSUME Succeeds("responder", result, c, t)
       PROVE  /\ Accepted(me) /\ Bare(c, t.c)
              /\ t.c.authMode = M /\ t.c.encMode = E /\ t.c.handler = B1(me).handler
              /\ t.c.localHeaders = HR /\ t.c.remoteHeaders = HI
              /\ t.c.authSessionEstablished = TRUE /\ t.c.sessionKey = B1(me).key
              /\ ResponderInv(me)'
  <2>1. /\ Accepted(me) /\ Bare(c, t.c)
        /\ t.c.authMode = M /\ t.c.encMode = E /\ t.c.handler = B1(me).handler
        /\ t.c.localHeaders = HR /\ t.c.remoteHeaders = HI
        /\ t.c.authSessionEstablished = TRUE /\ t.c.sessionKey = B1(me).key
    BY <1>3, <1>6, <1>7, <1>10, <1>11 DEF Succeeds
  <2>2. ResponderInv(me)'
    BY <1>1, <1>4, <1>5, <1>10, <2>1, SameTranscript DEF ResponderInv
  <2> QED BY <2>1, <2>2
<1>12. CASE Succeeds("responder", result, c, t) /\ Late
  <2>1. /\ B1(me).data # Nil /\ ~t.c.authenticated /\ t.c.deriving = <<>>
        /\ t.out = <<Packet("FinalHandshake", NoHeaders, B1(me).data)>>
    BY <1>1, <1>3, <1>6, <1>7, <1>12 DEF Succeeds
  <2>2. PICK m, h, x : m = "FinalHandshake" /\ h = NoHeaders /\ x = B1(me).data
    OBVIOUS
  <2>3. /\ Packet(m, h, x).method = m /\ Packet(m, h, x).data = x
        /\ Packet(m, h, x)' = Packet(m, h, x)
    BY DEF Packet
  <2>4. Hears("initiator") => Good(me, "initiator", Packet(m, h, x))'
    <3>1. SUFFICES ASSUME Hears("initiator") PROVE GoodForInitiator(me, Packet(m, h, x))'
      BY DEF Good
    <3>2. Waits("initiator", A1(me).handler, FALSE)
      BY <1>3, <1>12, <3>1 DEF Waits
    <3>3. Waits("initiator", A1(me).handler, FALSE)' /\ conn'["initiator"].remoteHeaders = HR
      BY <1>1, <1>3, <1>4, <1>12, <3>1, <3>2, SameTranscript DEF Waits
    <3>4. Waits("responder", B1(me).handler, TRUE)'
      BY <1>1, <1>4, <1>11, <1>12, <2>1, SameTranscript DEF Waits
    <3> QED BY <1>4, <1>10, <1>11, <1>12, <2>2, <2>3, <3>3, <3>4, SameTranscript
            DEF GoodForInitiator
  <2>5. CipherInv(me, s)'
    BY <1>1, <1>11, <1>12, <2>1 DEF CipherInv, Bare
  <2>6. \E k, g, y : /\ t.out = <<Packet(k, g, y)>> /\ k \in Steps
                     /\ Hears(Peer(s)) => Good(me, Peer(s), Packet(k, g, y))'
    BY <1>0, <2>1, <2>2, <2>4 DEF Steps
  <2> QED BY <1>0, <1>5, <1>11, <1>12, <2>5, <2>6, TurnAnswers
<1>13. CASE Succeeds("responder", result, c, t) /\ ~Late
  <2>1. /\ B1(me).data = Nil
        /\ t.out = <<Packet("Established", NoHeaders, Nil)>>
        /\ E = "None" => t.c.authenticated /\ t.c.deriving = <<>>
        /\ E # "None" => t.c.authenticated = c.authenticated
    BY <1>3, <1>6, <1>7, <1>13 DEF Succeeds
  <2>2. E # "None" => t.c.deriving = <<Context(me)>>
    <3>1. SUFFICES ASSUME E # "None" PROVE t.c.deriving = <<Context(me)>>
      OBVIOUS
    <3>2. PICK x : /\ x.sessionKey = B1(me).key
                   /\ x.encMode = E /\ x.authMode = M
                   /\ x.localHeaders = HR /\ x.remoteHeaders = HI
                   /\ t.c.deriving = Append(<<>>, EncryptionContext("responder", x))
      BY <1>3, <1>7, <1>10, <1>13, <2>1, <3>1 DEF Succeeds
    <3>3. EncryptionContext("responder", x) = Context(me)
      BY <3>2, SidesAre, ContextAgrees
    <3> QED BY <3>2, <3>3, AppendToNone
  <2>3. PICK m, h, x : m = "Established" /\ h = NoHeaders /\ x = Nil
    OBVIOUS
  <2>4. Packet(m, h, x).method = m /\ Packet(m, h, x)' = Packet(m, h, x)
    BY DEF Packet
  <2>5. Hears("initiator") => Good(me, "initiator", Packet(m, h, x))'
    <3>1. SUFFICES ASSUME Hears("initiator") PROVE GoodForInitiator(me, Packet(m, h, x))'
      BY DEF Good
    <3>2. Waits("initiator", A1(me).handler, TRUE)
      BY <1>3, <1>13, <3>1 DEF Waits
    <3>3. Waits("initiator", A1(me).handler, TRUE)'
      BY <1>1, <1>4, <3>2, SameTranscript DEF Waits
    <3> QED BY <1>4, <1>11, <1>13, <2>3, <2>4, <3>3, SameTranscript DEF GoodForInitiator
  <2>6. CipherInv(me, s)'
    BY <1>0, <1>1, <1>11, <1>13, <2>1, <2>2, CipherInvOnceAccepted
  <2>7. \E k, g, y : /\ t.out = <<Packet(k, g, y)>> /\ k \in Steps
                     /\ Hears(Peer(s)) => Good(me, Peer(s), Packet(k, g, y))'
    BY <1>0, <2>1, <2>3, <2>5 DEF Steps
  <2> QED BY <1>0, <1>5, <1>11, <1>13, <2>6, <2>7, TurnAnswers
<1> QED BY <1>8, <1>9, <1>12, <1>13

(* Receiving a step of the handshake in the clear is a turn.               *)
LEMMA HandshakeTurn ==
    ASSUME Types, IInv, NEW s \in Side, Receive(s), HandshakePacket(s)
    PROVE  \E me \in Identities :
             Turn(s, me, Head(wire[s]), HandleAuthPacket(s, conn[s], Head(wire[s])))
<1>1. /\ wire[s] # <<>> /\ UNCHANGED <<setup, session, misread>>
      /\ ~Stale /\ Hears(s) /\ IsStep(Head(wire[s]))
      /\ Deliver(s, HandleAuthPacket(s, conn[s], Head(wire[s])))
  BY DEF Receive, HandshakePacket
<1>2. session > 0
  BY <1>1, OpenIsCounted
<1>3. PICK me \in Identities : Fresh(me)
  BY <1>1, <1>2 DEF IInv
<1>4. PICK p, t : p = Head(wire[s]) /\ t = HandleAuthPacket(s, conn[s], Head(wire[s]))
  OBVIOUS
<1>5. Good(me, s, p)
  <2>1. PICK S : wire[s] \in Seq(S)
    BY DEF Types
  <2>2. 1 \in DOMAIN wire[s] /\ wire[s][1] = p
    BY <1>1, <1>4, <2>1, Tailed
  <2> QED BY <1>1, <1>3, <1>4, <2>2 DEF Fresh, WireInv
<1>6. Turn(s, me, p, t)
  <2>1. /\ conn' = [conn EXCEPT ![s] = t.c]
        /\ wire' = [wire EXCEPT ![s] = Tail(@), ![Peer(s)] = @ \o t.out]
    BY <1>1, <1>4 DEF Deliver
  <2> QED BY <1>1, <1>2, <1>3, <1>4, <1>5, <2>1 DEF Turn
<1> QED BY <1>4, <1>6

(* Receiving a step of the handshake in the clear keeps the invariant.     *)
LEMMA HandshakeStep ==
    ASSUME Types, IInv, NEW s \in Side, Receive(s), HandshakePacket(s)
    PROVE  Types' /\ IInv'
<1>1. PICK me, p, t : me \in Identities /\ Turn(s, me, p, t)
  BY HandshakeTurn
<1>2. Good(me, s, p)
  BY <1>1 DEF Turn
<1>3. CASE s = "initiator"
  <2>1. p.method \in {"ProceedToHandshake", "SessionEstablished", "FinalHandshake", "Established"}
    BY <1>2, <1>3 DEF Good, GoodForInitiator
  <2> QED BY <1>1, <1>3, <2>1, TurnOnProceed, TurnOnSessionEstablished, TurnOnLastWord, TurnOnEstablished
<1>4. CASE s = "responder"
  <2>1. p.method \in {"Initialize", "Handshake", "FinalHandshake", "Established"}
    BY <1>2, <1>4 DEF Good, GoodForResponder
  <2> QED BY <1>1, <1>4, <2>1, TurnOnInitialize, TurnOnAnswer, TurnOnEstablished
<1> QED BY <1>3, <1>4, SidesAre

-----------------------------------------------------------------------------
(***************************************************************************)
(* Keys are derived.                                                       *)
(***************************************************************************)

(* A side derives in the session that is on, from the transcript's         *)
(* context, and has no cipher yet.                                         *)
LEMMA DerivingIs ==
    ASSUME Types, IInv, NEW s \in Side, conn[s].deriving # <<>>
    PROVE  /\ session > 0 /\ ~Stale
           /\ \E me \in Identities : Fresh(me) /\ conn[s].deriving = <<Context(me)>>
           /\ conn[s].cipher = Nil /\ ~conn[s].encryptionActive
           /\ conn[s].open => conn[s].authSessionEstablished
<1>1. session > 0
  BY OpenIsCounted
<1>2. ~Stale
  BY SidesAre DEF IInv, StaleInv
<1>3. PICK me \in Identities : Fresh(me)
  BY <1>1, <1>2 DEF IInv
<1>4. CipherInv(me, s)
  BY <1>3 DEF Fresh
<1>5. conn[s].encryptionActive <=> conn[s].cipher # Nil
  BY DEF IInv, Always
<1> QED BY <1>1, <1>2, <1>3, <1>4, <1>5 DEF CipherInv

(* A derivation that fails keeps the invariant: the side closes.           *)
LEMMA DeriveFails ==
    ASSUME Types, IInv, NEW s \in Side, Derive(s), ~ValidContext(Head(conn[s].deriving))
    PROVE  Types' /\ IInv'
<1> DEFINE c == conn[s]
           d == [c EXCEPT !.deriving = Tail(@)]
           t == FailAuthentication(s, d, FALSE)
<1>1. /\ c.deriving # <<>> /\ UNCHANGED <<setup, session, misread>>
  BY DEF Derive
<1>2. /\ session > 0 /\ c.cipher = Nil /\ ~c.encryptionActive
      /\ \E x : c.deriving = <<x>>
  BY <1>1, DerivingIs
<1>3. /\ conn' = [conn EXCEPT ![s] = t.c]
      /\ wire' = IF c.open THEN [wire EXCEPT ![Peer(s)] = @ \o t.out] ELSE wire
  BY <1>2 DEF Derive
<1>4. Tail(c.deriving) = <<>>
  BY <1>2
<1>5. DOMAIN c = Fields
  BY DEF Types
<1>6. /\ DOMAIN d = Fields /\ d.deriving = <<>> /\ d.cipher = c.cipher
      /\ d.localIdentity = c.localIdentity /\ d.sessionKey = c.sessionKey
      /\ d.cipherSession = c.cipherSession /\ d.encryptionActive = c.encryptionActive
  BY <1>4, <1>5 DEF Fields
<1> HIDE DEF c, d
<1>7. Shut(d, t.c) /\ Incidental(d, t.out)
  BY <1>6, FailShuts
<1> HIDE DEF t
<1>8. Shut(c, t.c) /\ Incidental(c, t.out) /\ Incidental(c, <<>>)
  BY <1>6, <1>7, FinIsIncidental DEF Shut, Incidental
<1>9. misread' \in {"no", "stale", "early"} /\ (misread # "no" => misread' # "no")
  BY <1>1 DEF Types
<1>10. CASE c.open
  <2>1. Delivered(s, t.c, t.out)
    BY <1>3, <1>10 DEF Delivered
  <2> QED BY <1>1, <1>2, <1>8, <1>9, <2>1, ClosingStep DEF c
<1>11. CASE ~c.open
  <2>1. wire[Peer(s)] \o <<>> = wire[Peer(s)]
    <3>1. PICK S : wire[Peer(s)] \in Seq(S)
      BY SidesAre DEF Types
    <3> QED BY <3>1
  <2>2. wire = [u \in Side |-> wire[u]]
    BY DEF Types
  <2>3. wire' = [wire EXCEPT ![Peer(s)] = @ \o <<>>]
    BY <1>3, <1>11, <2>1, <2>2
  <2>4. Delivered(s, t.c, <<>>)
    BY <1>3, <2>3 DEF Delivered
  <2> QED BY <1>1, <1>2, <1>8, <1>9, <2>4, ClosingStep DEF c
<1> QED BY <1>10, <1>11

(* A derivation that succeeds keeps the invariant: the side has the cipher *)
(* of the transcript's context.                                            *)
LEMMA DeriveSucceeds ==
    ASSUME Types, IInv, NEW s \in Side, Derive(s), ValidContext(Head(conn[s].deriving))
    PROVE  Types' /\ IInv'
<1> DEFINE c == conn[s]
           e == [[c EXCEPT !.deriving = Tail(@)] EXCEPT
                    !.cipher = NewCipher(Head(c.deriving)), !.encryptionActive = TRUE,
                    !.cipherSession = session]
           d == FinishAuthenticationReady(e)
<1>0. Peer(s) \in Side /\ Peer(s) # s /\ Peer(Peer(s)) = s /\ \A t \in Side : t = s \/ t = Peer(s)
  BY SidesAre
<1>1. c.deriving # <<>> /\ UNCHANGED <<setup, session, misread>>
  BY DEF Derive
<1>2. /\ session > 0 /\ ~Stale /\ c.cipher = Nil /\ ~c.encryptionActive
      /\ c.open => c.authSessionEstablished
  BY <1>1, DerivingIs
<1>3. PICK me \in Identities : Fresh(me) /\ c.deriving = <<Context(me)>>
  BY <1>1, DerivingIs
<1>4. conn' = [conn EXCEPT ![s] = d] /\ wire' = wire
  BY <1>2 DEF Derive
<1>5. Tail(c.deriving) = <<>> /\ Head(c.deriving) = Context(me)
  BY <1>3
<1>6. DOMAIN c = Fields /\ conn = [t \in Side |-> conn[t]]
  BY DEF Types
<1>7. /\ DOMAIN e = Fields
      /\ e.authSessionEstablished = c.authSessionEstablished
      /\ e.localIdentity = c.localIdentity /\ e.sessionKey = c.sessionKey
      /\ e.open = c.open
      /\ e.authMode = c.authMode /\ e.encMode = c.encMode /\ e.handler = c.handler
      /\ e.localHeaders = c.localHeaders /\ e.remoteHeaders = c.remoteHeaders
      /\ e.deriving = <<>> /\ e.cipher = NewCipher(Context(me))
      /\ e.cipherSession = session /\ e.encryptionActive = TRUE
  BY <1>5, <1>6 DEF Fields
<1> HIDE DEF e
<1>8. /\ DOMAIN d = Fields /\ d.authenticated
      /\ d.authSessionEstablished = c.authSessionEstablished
      /\ d.localIdentity = c.localIdentity /\ d.sessionKey = c.sessionKey
      /\ d.open = c.open
      /\ d.authMode = c.authMode /\ d.encMode = c.encMode /\ d.handler = c.handler
      /\ d.localHeaders = c.localHeaders /\ d.remoteHeaders = c.remoteHeaders
      /\ d.deriving = <<>> /\ d.cipher = NewCipher(Context(me))
      /\ d.cipherSession = session /\ d.encryptionActive = TRUE
  BY <1>7, FinishIs
<1> HIDE DEF d
<1>9. /\ conn'[s] = d /\ conn'[Peer(s)] = conn[Peer(s)]
      /\ conn' = [t \in Side |-> conn'[t]]
  BY <1>0, <1>4, <1>6
<1>10. Types'
  BY <1>0, <1>1, <1>4, <1>8, <1>9 DEF Types
<1>11. NewCipher(Context(me)) # Nil
  BY DEF NewCipher, Nil
<1>12. M' = M /\ E' = E
  BY <1>1, SameTranscript
<1>13. \A t : Peer(t)' = Peer(t)
  BY DEF Peer
<1>14. Always'
  <2>1. conn'["initiator"].localIdentity \in Identities'
    <3>1. conn["initiator"].localIdentity \in Identities
      BY DEF IInv, Always
    <3> QED BY <1>0, <1>8, <1>9, <3>1, SidesAre DEF Identities
  <2>2. ASSUME NEW t \in Side
        PROVE  /\ conn'[t].encryptionActive <=> conn'[t].cipher # Nil
               /\ conn'[t].cipherSession \in 0 .. session'
               /\ conn'[t].cipher = Nil => conn'[t].cipherSession = 0
               /\ M' = "None" => conn'[t].sessionKey = Nil
    <3>1. CASE t = s
      <4>1. session \in 0 .. session
        BY DEF Types
      <4>2. M = "None" => c.sessionKey = Nil
        BY DEF IInv, Always
      <4> QED BY <1>1, <1>8, <1>9, <1>11, <1>12, <3>1, <4>1, <4>2
    <3>2. CASE t = Peer(s)
      BY <1>1, <1>9, <1>12, <3>2 DEF IInv, Always
    <3> QED BY <1>0, <3>1, <3>2
  <2>3. ASSUME NEW t \in Side, NEW k \in DOMAIN wire'[t], wire'[t][k].seal # Nil
        PROVE  conn'[Peer(t)].encryptionActive
    <3>1. conn[Peer(t)].encryptionActive
      BY <1>4, <2>3 DEF IInv, Always
    <3> QED BY <1>0, <1>8, <1>9, <3>1
  <2>4. session' # 0
    BY <1>1, <1>2
  <2> QED BY <1>13, <2>1, <2>2, <2>3, <2>4 DEF Always
<1>15. ~Stale'
  <2>1. CASE s = "initiator"
    BY <1>1, <1>8, <1>9, <2>1 DEF Stale
  <2>2. CASE s # "initiator"
    BY <1>0, <1>1, <1>2, <1>9, <2>2, SidesAre DEF Stale
  <2> QED BY <2>1, <2>2
<1>16. NothingInTheClear'
  BY <1>1, <1>4 DEF IInv, NothingInTheClear
<1>17. ~Hears(s)' /\ (Hears(Peer(s))' <=> Hears(Peer(s)))
  BY <1>8, <1>9, <1>13 DEF Hears
<1>18. WireInv(me)'
  <2>1. ASSUME Hears(Peer(s)), NEW k \in DOMAIN wire[Peer(s)], IsStep(wire[Peer(s)][k])
        PROVE  /\ Good(me, Peer(s), wire[Peer(s)][k])'
               /\ \A j \in DOMAIN wire[Peer(s)] : IsStep(wire[Peer(s)][j]) => j = k
    <3>1. /\ Good(me, Peer(s), wire[Peer(s)][k])
          /\ \A j \in DOMAIN wire[Peer(s)] : IsStep(wire[Peer(s)][j]) => j = k
      BY <1>0, <1>3, <2>1 DEF Fresh, WireInv
    <3>2. PICK p : p = wire[Peer(s)][k]
      OBVIOUS
    <3>3. CASE s = "responder"
      <4>1. GoodForInitiator(me, p) /\ Peer(s) = "initiator"
        BY <3>1, <3>2, <3>3, SidesAre DEF Good
      <4>2. ~Hears("responder")'
        BY <1>17, <3>3 DEF Hears
      <4>3. \A h, b : Waits("initiator", h, b) => Waits("initiator", h, b)'
        BY <1>9, <1>12, <4>1 DEF Waits
      <4>4. conn'["initiator"] = conn["initiator"]
        BY <1>9, <4>1
      <4>5. GoodForInitiator(me, p)'
        BY <1>1, <4>1, <4>2, <4>3, <4>4, SameTranscript DEF GoodForInitiator
      <4>6. wire'["initiator"][k] = p
        BY <1>4, <3>2, <4>1
      <4>7. GoodForInitiator(me, wire[Peer(s)][k])'
        BY <1>13, <4>1, <4>5, <4>6 DEF GoodForInitiator
      <4> QED BY <1>13, <3>1, <4>1, <4>7 DEF Good
    <3>4. CASE s = "initiator"
      <4>1. GoodForResponder(me, p) /\ Peer(s) = "responder"
        BY <3>1, <3>2, <3>4, SidesAre DEF Good
      <4>2. ~Hears("initiator")'
        BY <1>17, <3>4 DEF Hears
      <4>3. \A h, b : Waits("responder", h, b) => Waits("responder", h, b)'
        BY <1>9, <1>12, <4>1 DEF Waits
      <4>4. conn'["responder"] = conn["responder"]
        BY <1>9, <4>1
      <4>5. GoodForResponder(me, p)'
        BY <1>1, <4>1, <4>2, <4>3, <4>4, SameTranscript DEF GoodForResponder
      <4>6. wire'["responder"][k] = p
        BY <1>4, <3>2, <4>1
      <4>7. GoodForResponder(me, wire[Peer(s)][k])'
        BY <1>13, <4>1, <4>5, <4>6 DEF GoodForResponder
      <4> QED BY <1>13, <3>1, <4>1, <4>7 DEF Good
    <3> QED BY <3>3, <3>4, SidesAre
  <2>2. ASSUME NEW t \in Side, Hears(t)', NEW k \in DOMAIN wire'[t], IsStep(wire'[t][k])
        PROVE  /\ Good(me, t, wire[t][k])'
               /\ \A j \in DOMAIN wire'[t] : IsStep(wire'[t][j]) => j = k
               /\ ~Hears(Peer(t))'
    <3>1. t = Peer(s)
      BY <1>0, <1>17, <2>2
    <3>2. Hears(Peer(s)) /\ ~Hears(Peer(t))'
      BY <1>0, <1>13, <1>17, <2>2, <3>1 DEF Hears
    <3>3. /\ Good(me, Peer(s), wire[Peer(s)][k])'
          /\ \A j \in DOMAIN wire[Peer(s)] : IsStep(wire[Peer(s)][j]) => j = k
      BY <1>4, <2>1, <2>2, <3>1, <3>2
    <3> QED BY <1>4, <1>13, <3>1, <3>2, <3>3 DEF Good
  <2>3. ASSUME NEW t \in Side, Hears(t)'
        PROVE  \A k \in DOMAIN wire'[t] : IsStep(wire'[t][k]) =>
                /\ Good(me, t, wire[t][k])'
                /\ \A j \in DOMAIN wire'[t] : IsStep(wire'[t][j]) => j = k
                /\ Hears(Peer(t))' => \A j \in DOMAIN wire'[Peer(t)] : ~IsStep(wire'[Peer(t)][j])
    BY <2>2, <2>3
  <2> QED BY <1>13, <2>3 DEF WireInv
<1>19. InitiatorInv(me)'
  <2>1. InitiatorInv(me)
    BY <1>3 DEF Fresh
  <2>2. CASE s = "initiator"
    BY <1>1, <1>8, <1>9, <2>1, <2>2, SameTranscript DEF InitiatorInv
  <2>3. CASE s = "responder"
    BY <1>1, <1>9, <2>1, <2>3, SidesAre, SameTranscript DEF InitiatorInv
  <2> QED BY <2>2, <2>3, SidesAre
<1>20. ResponderInv(me)'
  <2>1. ResponderInv(me)
    BY <1>3 DEF Fresh
  <2>2. CASE s = "responder"
    BY <1>1, <1>8, <1>9, <2>1, <2>2, SameTranscript DEF ResponderInv
  <2>3. CASE s = "initiator"
    BY <1>1, <1>9, <2>1, <2>3, SidesAre, SameTranscript DEF ResponderInv
  <2> QED BY <2>2, <2>3, SidesAre
<1>21. ASSUME NEW t \in Side PROVE CipherInv(me, t)'
  <2>1. CipherInv(me, t) /\ Context(me)' = Context(me)
    BY <1>1, <1>3, SameTranscript DEF Fresh
  <2>2. CASE t = s
    BY <1>1, <1>2, <1>8, <1>9, <2>1, <2>2 DEF CipherInv
  <2>3. CASE t = Peer(s)
    BY <1>1, <1>9, <2>1, <2>3 DEF CipherInv
  <2> QED BY <1>0, <2>2, <2>3
<1>22. Fresh(me)'
  BY <1>18, <1>19, <1>20, <1>21 DEF Fresh, Side
<1> QED BY <1>10, <1>14, <1>15, <1>16, <1>22 DEF IInv, StaleInv, Identities

-----------------------------------------------------------------------------
(***************************************************************************)
(* A session begins.                                                       *)
(***************************************************************************)

(* What the initiator's connection is when it opens its socket again: the  *)
(* cipher of the last session is still there.                              *)
LEMMA StartedIs ==
    ASSUME NEW c, DOMAIN c = Fields
    PROVE  LET d == StartInitiatorHandshake(c) IN
           /\ DOMAIN d = Fields /\ d.open /\ ~d.authenticated /\ d.authSessionEstablished = FALSE
           /\ d.authMode = M /\ d.encMode = E /\ d.handler = Nil
           /\ d.localIdentity = c.localIdentity /\ d.sessionKey = c.sessionKey
           /\ d.deriving = c.deriving /\ d.cipher = c.cipher
           /\ d.cipherSession = c.cipherSession /\ d.encryptionActive = c.encryptionActive
BY DEF StartInitiatorHandshake, Fields, M, E

(* What the responder's connection is: a new one for every socket.         *)
LEMMA AwaitedIs ==
    LET d == StartResponderHandshake IN
    /\ DOMAIN d = Fields /\ d.open /\ ~d.authenticated /\ d.authSessionEstablished = FALSE
    /\ d.authMode = "None" /\ d.handler = Nil /\ d.localHeaders = NoHeaders
    /\ d.sessionKey = Nil /\ d.deriving = <<>> /\ d.cipher = Nil
    /\ d.cipherSession = 0 /\ d.encryptionActive = FALSE
BY DEF StartResponderHandshake, NewConnection, Fields

(* The initiator sends its first packet, in the clear or sealed with the   *)
(* cipher of an earlier session.                                           *)
Declares(me, c, t) ==
    /\ DOMAIN t.c = Fields /\ t.c.authSessionEstablished = FALSE /\ ~t.c.authenticated
    /\ t.c.authMode = M /\ t.c.encMode = E
    /\ M = "None" => E = "None"
    /\ t.c.localIdentity = c.localIdentity /\ t.c.sessionKey = c.sessionKey
    /\ t.c.deriving = c.deriving /\ t.c.cipher = c.cipher
    /\ t.c.cipherSession = c.cipherSession /\ t.c.encryptionActive = c.encryptionActive
    /\ t.c.localHeaders = HI'
    /\ t.c.handler = IF M = "None" THEN Nil ELSE A0(me)'.handler
    /\ \E q : /\ t.out = <<q>> /\ q.method = "Initialize"
              /\ q.authMode = M /\ q.encMode = E /\ q.headers = HI'
              /\ q.data = IF M = "None" THEN Nil ELSE A0(me)'.data
              /\ q.seal # Nil <=> c.encryptionActive

(* declare() closes, or sends the first packet of the transcript the       *)
(* initiator opens with its identity.                                      *)
LEMMA DeclareIs ==
    ASSUME NEW c, DOMAIN c = Fields, ~c.authenticated, c.authSessionEstablished = FALSE,
           c.authMode = M, c.encMode = E, UNCHANGED setup,
           c.encryptionActive <=> c.cipher # Nil
    PROVE  LET t == Declare(c) IN Closing(c, t) \/ Declares(c.localIdentity, c, t)
<1> DEFINE s == "initiator"
           encrypts == c.encMode # "None"
           h == PrepareEncryptionOffer(c, [NoHeaders EXCEPT !.protocol = (c.authMode # "None")])
           first == Process(c.authMode, s, InitiatorAuthenticationHandler(c), Nil, Provider(s))
           d == [c EXCEPT !.localHeaders = h,
                          !.handler = IF c.authMode = "None" THEN Nil ELSE first.handler]
           q == [Packet("Initialize", h, IF c.authMode = "None" THEN Nil ELSE first.data)
                   EXCEPT !.authMode = c.authMode, !.encMode = c.encMode]
           fails == \/ encrypts /\ (c.authMode = "None" \/ Ciphers(s) = {})
                    \/ c.authMode # "None" /\ first.ruling = "Failed"
           t == Declare(c)
<1>0. M' = M /\ E' = E /\ Ciphers(s)' = Ciphers(s) /\ Provider(s)' = Provider(s)
  BY DEF M, E, Ciphers, CipherFault, Provider, PasswordFault, UnknownFault
<1>1. h = HI'
  <2>1. Nonce(s, "cipherNonce") = <<"cipherNonce", "initiator", session'>>
    BY DEF Nonce
  <2>2. CASE E = "None"
    BY <1>0, <2>2 DEF PrepareEncryptionOffer, HI, NoHeaders
  <2>3. CASE E # "None"
    BY <1>0, <2>1, <2>3 DEF PrepareEncryptionOffer, HI, NoHeaders
  <2> QED BY <2>2, <2>3
<1>2. first = A0(c.localIdentity)'
  <2>1. InitiatorAuthenticationHandler(c) = NewHandler(c.localIdentity, Nil, AuthNonce("initiator"))'
    BY DEF InitiatorAuthenticationHandler, Nonce, AuthNonce, NewHandler
  <2> QED BY <1>0, <2>1 DEF A0
<1>3. CASE fails
  <2>1. t = FailAuthentication(s, c, FALSE)
    BY <1>3 DEF Declare
  <2> HIDE DEF t
  <2>2. Closing(c, t)
    BY <2>1, FailShuts DEF Closing
  <2> QED BY <2>2 DEF t
<1>4. CASE ~fails
  <2>1. t = Send(s, d, q)
    BY <1>4 DEF Declare
  <2>2. M = "None" => E = "None"
    BY <1>4
  <2>3. /\ DOMAIN d = Fields /\ d.authSessionEstablished = FALSE /\ ~d.authenticated
        /\ d.authMode = M /\ d.encMode = E /\ d.localHeaders = HI'
        /\ d.localIdentity = c.localIdentity /\ d.sessionKey = c.sessionKey
        /\ d.deriving = c.deriving /\ d.cipher = c.cipher
        /\ d.cipherSession = c.cipherSession /\ d.encryptionActive = c.encryptionActive
        /\ d.handler = IF M = "None" THEN Nil ELSE A0(c.localIdentity)'.handler
    <3> HIDE DEF h, first
    <3> QED BY <1>1, <1>2 DEF Fields
  <2>4. /\ q.method = "Initialize" /\ q.seal = Nil
        /\ q.authMode = M /\ q.encMode = E /\ q.headers = HI'
        /\ q.data = IF M = "None" THEN Nil ELSE A0(c.localIdentity)'.data
        /\ DOMAIN q = {"method", "authMode", "encMode", "headers", "data", "seal", "sequence"}
    <3> HIDE DEF h, first
    <3> QED BY <1>1, <1>2 DEF Packet
  <2> HIDE DEF d, q, t
  <2>5. CASE c.encryptionActive
    <3> DEFINE e == [d EXCEPT !.sendSequence = @ + 1]
               r == [q EXCEPT !.seal = SendKey(s, d), !.sequence = d.sendSequence]
    <3>1. t.c = e /\ t.out = <<r>>
      BY <2>1, <2>3, <2>5 DEF Send, Sealed, Step
    <3>2. /\ DOMAIN e = Fields /\ e.authSessionEstablished = FALSE /\ ~e.authenticated
          /\ e.authMode = M /\ e.encMode = E /\ e.localHeaders = HI'
          /\ e.localIdentity = c.localIdentity /\ e.sessionKey = c.sessionKey
          /\ e.deriving = c.deriving /\ e.cipher = c.cipher
          /\ e.cipherSession = c.cipherSession /\ e.encryptionActive = c.encryptionActive
          /\ e.handler = IF M = "None" THEN Nil ELSE A0(c.localIdentity)'.handler
      BY <2>3 DEF Fields
    <3>3. SendKey(s, d) # Nil
      BY DEF SendKey, Nil
    <3>4. /\ r.method = "Initialize" /\ r.seal # Nil
          /\ r.authMode = M /\ r.encMode = E /\ r.headers = HI'
          /\ r.data = IF M = "None" THEN Nil ELSE A0(c.localIdentity)'.data
      BY <2>4, <3>3
    <3> HIDE DEF e, r
    <3>5. Declares(c.localIdentity, c, t)
      BY <2>2, <2>5, <3>1, <3>2, <3>4 DEF Declares
    <3> QED BY <3>5 DEF t
  <2>6. CASE ~c.encryptionActive
    <3>1. t.c = d /\ t.out = <<q>>
      BY <2>1, <2>3, <2>6 DEF Send, Sealed, Step
    <3>2. Declares(c.localIdentity, c, t)
      BY <2>2, <2>3, <2>4, <2>6, <3>1 DEF Declares
    <3> QED BY <3>2 DEF t
  <2> QED BY <2>5, <2>6
<1> QED BY <1>3, <1>4

(* Connecting keeps the invariant: either the initiator is fresh, and a    *)
(* transcript begins, or it seals its first packet with an old cipher, and *)
(* none does.                                                              *)
LEMMA ConnectStep ==
    ASSUME Types, IInv, Connect
    PROVE  Types' /\ IInv'
<1>1. PICK c : c = conn["initiator"]
  OBVIOUS
<1>2. PICK a : a = StartInitiatorHandshake(c)
  OBVIOUS
<1>3. PICK t : t = Declare(a)
  OBVIOUS
<1>4. PICK r : r = StartResponderHandshake
  OBVIOUS
<1>5. /\ conn' = [initiator |-> t.c, responder |-> r]
      /\ wire' = [initiator |-> <<>>, responder |-> t.out]
      /\ session' = session + 1 /\ UNCHANGED <<setup, misread>>
      /\ c.deriving = <<>>
  BY <1>1, <1>2, <1>3, <1>4 DEF Connect, Free, Idle
<1>6. /\ DOMAIN c = Fields /\ c.localIdentity \in Identities
      /\ c.encryptionActive <=> c.cipher # Nil
      /\ c.cipherSession \in 0 .. session /\ session \in Nat
      /\ c.cipher = Nil => c.cipherSession = 0
      /\ M = "None" => c.sessionKey = Nil
      /\ setup \in Setup /\ misread \in {"no", "stale", "early"}
  BY <1>1, SidesAre DEF Types, IInv, Always
<1>7. /\ DOMAIN a = Fields /\ ~a.authenticated /\ a.authSessionEstablished = FALSE
      /\ a.authMode = M /\ a.encMode = E
      /\ a.localIdentity = c.localIdentity /\ a.sessionKey = c.sessionKey
      /\ a.deriving = <<>> /\ a.cipher = c.cipher
      /\ a.cipherSession = c.cipherSession /\ a.encryptionActive = c.encryptionActive
  <2>1. DOMAIN c = Fields
    BY <1>6
  <2> QED BY <1>2, <1>5, <2>1, StartedIs
<1>8. /\ DOMAIN r = Fields /\ r.open /\ ~r.authenticated /\ r.authSessionEstablished = FALSE
      /\ r.authMode = "None" /\ r.handler = Nil /\ r.localHeaders = NoHeaders
      /\ r.sessionKey = Nil /\ r.deriving = <<>> /\ r.cipher = Nil
      /\ r.cipherSession = 0 /\ r.encryptionActive = FALSE
  BY <1>4, AwaitedIs
<1>9. Closing(a, t) \/ Declares(a.localIdentity, a, t)
  <2>1. /\ DOMAIN a = Fields /\ ~a.authenticated /\ a.authSessionEstablished = FALSE
        /\ a.authMode = M /\ a.encMode = E /\ UNCHANGED setup
        /\ a.encryptionActive <=> a.cipher # Nil
    BY <1>5, <1>6, <1>7
  <2> QED BY <1>3, <2>1, DeclareIs
<1>10. /\ DOMAIN t.c = Fields /\ t.c.deriving = <<>> /\ t.c.cipher = c.cipher
       /\ t.c.localIdentity = c.localIdentity /\ t.c.sessionKey = c.sessionKey
       /\ t.c.cipherSession = c.cipherSession /\ t.c.encryptionActive = c.encryptionActive
  BY <1>7, <1>9 DEF Closing, Shut, Declares
<1>11. /\ \E S : t.out \in Seq(S)
       /\ \A k \in DOMAIN t.out : /\ t.out[k].seal # Nil => c.encryptionActive
                                  /\ t.out[k].method # "request"
       /\ c.encryptionActive => \A k \in DOMAIN t.out : ~IsStep(t.out[k])
  <2>1. CASE Closing(a, t)
    BY <1>7, <2>1 DEF Closing, Incidental
  <2>2. CASE Declares(a.localIdentity, a, t)
    <3>1. PICK q : /\ t.out = <<q>> /\ q.method = "Initialize"
                   /\ q.seal # Nil <=> a.encryptionActive
      BY <2>2 DEF Declares
    <3>2. <<q>> \in Seq({q}) /\ DOMAIN <<q>> = {1} /\ <<q>>[1] = q
      OBVIOUS
    <3>3. a.encryptionActive => ~IsStep(q)
      BY <3>1 DEF IsStep
    <3> QED BY <1>7, <3>1, <3>2, <3>3
  <2> QED BY <1>9, <2>1, <2>2
<1>12. /\ conn'["initiator"] = t.c /\ conn'["responder"] = r
       /\ wire'["initiator"] = <<>> /\ wire'["responder"] = t.out
       /\ conn' = [s \in Side |-> conn'[s]] /\ wire' = [s \in Side |-> wire'[s]]
  BY <1>5, SidesAre
<1>13. <<>> \in Seq({}) /\ DOMAIN <<>> = {}
  OBVIOUS
<1>14. Types'
  BY <1>5, <1>6, <1>8, <1>10, <1>11, <1>12, <1>13, SidesAre DEF Types
<1>15. M' = M /\ E' = E
  BY <1>5 DEF M, E
<1>16. Always'
  <2>1. conn'["initiator"].localIdentity \in Identities'
    BY <1>6, <1>10, <1>12 DEF Identities
  <2>2. 0 \in 0 .. session' /\ c.cipherSession \in 0 .. session' /\ session' # 0
    BY <1>5, <1>6
  <2>3. ASSUME NEW s \in Side
        PROVE  /\ conn'[s].encryptionActive <=> conn'[s].cipher # Nil
               /\ conn'[s].cipherSession \in 0 .. session'
               /\ conn'[s].cipher = Nil => conn'[s].cipherSession = 0
               /\ M' = "None" => conn'[s].sessionKey = Nil
               /\ \A k \in DOMAIN wire'[s] :
                    wire'[s][k].seal # Nil => conn'[Peer(s)].encryptionActive
    <3>1. CASE s = "initiator"
      BY <1>6, <1>10, <1>12, <1>13, <1>15, <2>2, <3>1
    <3>2. CASE s = "responder"
      BY <1>8, <1>10, <1>11, <1>12, <1>15, <2>2, <3>2, SidesAre
    <3> QED BY <3>1, <3>2, SidesAre
  <2> QED BY <2>1, <2>2, <2>3 DEF Always, Peer
<1>17. NothingInTheClear'
  <2>1. PICK S : t.out \in Seq(S)
    BY <1>11
  <2>2. DOMAIN t.out = 1 .. Len(t.out)
    BY <2>1
  <2> QED BY <1>11, <1>12, <2>2 DEF NothingInTheClear
<1>18. CASE c.encryptionActive
  <2>0. c.cipherSession # session'
    BY <1>5, <1>6
  <2>1. Stale'
    BY <1>10, <1>12, <1>18, <2>0 DEF Stale
  <2>2. t.c.open => ~t.c.authSessionEstablished /\ ~t.c.authenticated
    BY <1>9 DEF Closing, Shut, Declares
  <2>3. \A k \in DOMAIN wire'["responder"] : ~IsStep(wire'["responder"][k])
    BY <1>11, <1>12, <1>18
  <2>4. StaleInv'
    BY <1>8, <1>10, <1>12, <2>2, <2>3 DEF StaleInv
  <2> QED BY <1>14, <1>16, <1>17, <2>1, <2>4 DEF IInv
<1>19. CASE ~c.encryptionActive
  <2> DEFINE me == c.localIdentity
  <2>1. ~Stale' /\ c.cipher = Nil
    BY <1>6, <1>10, <1>12, <1>19 DEF Stale
  <2>2. /\ CipherInv(me, "initiator")'
        /\ CipherInv(me, "responder")'
    <3>1. t.c.open => ~t.c.authenticated
      BY <1>9 DEF Closing, Shut, Declares
    <3>2. t.c.cipher = Nil /\ ~t.c.encryptionActive
      BY <1>10, <1>19, <2>1
    <3> HIDE DEF me
    <3>3. CipherInv(me, "initiator")'
      BY <1>10, <1>12, <3>1, <3>2 DEF CipherInv
    <3> QED BY <1>8, <1>12, <3>3 DEF CipherInv
  <2>3. ResponderInv(me)'
    BY <1>8, <1>12 DEF ResponderInv
  <2>4. PICK i : i = me
    OBVIOUS
  <2>5. InitiatorInv(i)'
    <3>1. CASE Closing(a, t)
      BY <1>12, <3>1 DEF InitiatorInv, Closing, Shut
    <3>2. CASE Declares(a.localIdentity, a, t) /\ M = "None"
      <4>1. t.c.authMode = M /\ t.c.sessionKey = a.sessionKey /\ E = "None"
        BY <3>2 DEF Declares
      <4>2. t.c.authMode = "None" /\ t.c.sessionKey = Nil /\ E' = "None"
        BY <1>6, <1>7, <1>15, <3>2, <4>1
      <4> QED BY <1>12, <4>2 DEF InitiatorInv
    <3>3. CASE Declares(a.localIdentity, a, t) /\ M # "None"
      <4>1. /\ t.c.authMode = M /\ t.c.encMode = E /\ t.c.localHeaders = HI'
            /\ t.c.authSessionEstablished = FALSE
        BY <3>3 DEF Declares
      <4>2. t.c.authMode = M' /\ t.c.encMode = E' /\ M' # "None"
        BY <1>15, <3>3, <4>1
      <4> QED BY <1>12, <4>1, <4>2 DEF InitiatorInv
    <3> QED BY <1>9, <3>1, <3>2, <3>3
  <2>6. WireInv(i)'
    <3>1. \A s : Peer(s)' = Peer(s)
      BY DEF Peer
    <3>2. ASSUME NEW k \in DOMAIN t.out, IsStep(t.out[k])
          PROVE  /\ Good(i, "responder", t.out[k])'
                 /\ \A j \in DOMAIN t.out : j = k
      <4>1. Declares(i, a, t)
        BY <1>7, <1>9, <2>4, <3>2 DEF Closing, Incidental
      <4>2. PICK q : /\ t.out = <<q>> /\ q.method = "Initialize"
                     /\ q.authMode = M /\ q.encMode = E /\ q.headers = HI'
                     /\ q.data = IF M = "None" THEN Nil ELSE A0(i)'.data
        BY <4>1 DEF Declares
      <4>3. DOMAIN <<q>> = {1} /\ <<q>>[1] = q
        OBVIOUS
      <4>4. t.out[k] = q /\ \A j \in DOMAIN t.out : j = k
        BY <3>2, <4>2, <4>3
      <4>5. Waits("initiator", IF M = "None" THEN Nil ELSE A0(i).handler, FALSE)'
        <5>1. /\ t.c.handler = IF M = "None" THEN Nil ELSE A0(i)'.handler
              /\ t.c.authSessionEstablished = FALSE /\ t.c.deriving = <<>>
              /\ t.c.authMode = M' /\ t.c.encMode = E'
          <6>1. /\ t.c.handler = IF M = "None" THEN Nil ELSE A0(i)'.handler
                /\ t.c.authSessionEstablished = FALSE
                /\ t.c.authMode = M /\ t.c.encMode = E
            BY <4>1 DEF Declares
          <6> QED BY <1>10, <1>15, <6>1
        <5> QED BY <1>12, <1>15, <5>1 DEF Waits
      <4>6. GoodForResponder(i, q)'
        BY <1>8, <1>12, <1>15, <4>2, <4>5 DEF GoodForResponder
      <4>7. Good(i, "responder", q)'
        BY <4>6 DEF Good
      <4>8. Good(i, "responder", t.out[k])'
        BY <4>4, <4>7
      <4> QED BY <4>4, <4>8
    <3>3. ASSUME NEW s \in Side, Hears(s)', NEW k \in DOMAIN wire'[s], IsStep(wire'[s][k])
          PROVE  /\ Good(i, s, wire[s][k])'
                 /\ \A j \in DOMAIN wire'[s] : IsStep(wire'[s][j]) => j = k
                 /\ \A j \in DOMAIN wire'[Peer(s)] : ~IsStep(wire'[Peer(s)][j])
      <4>1. s = "responder" /\ wire'[s] = t.out /\ wire'[Peer(s)] = <<>>
        BY <1>12, <1>13, <3>3, SidesAre
      <4>2. /\ Good(i, "responder", t.out[k])'
            /\ \A j \in DOMAIN t.out : j = k
        BY <3>2, <3>3, <4>1
      <4>3. PICK q : q = t.out[k]
        OBVIOUS
      <4>4. Good(i, "responder", q)'
        BY <4>2, <4>3
      <4>5. wire'["responder"][k] = q
        BY <4>1, <4>3
      <4>6. Good(i, s, wire[s][k])'
        BY <4>1, <4>4, <4>5 DEF Good, GoodForResponder
      <4> QED BY <1>13, <4>1, <4>2, <4>6
    <3>4. ASSUME NEW s \in Side, Hears(s)'
          PROVE  \A k \in DOMAIN wire'[s] : IsStep(wire'[s][k]) =>
                    /\ Good(i, s, wire[s][k])'
                    /\ \A j \in DOMAIN wire'[s] : IsStep(wire'[s][j]) => j = k
                    /\ Hears(Peer(s))' => \A j \in DOMAIN wire'[Peer(s)] : ~IsStep(wire'[Peer(s)][j])
      BY <3>3, <3>4
    <3> QED BY <3>1, <3>4 DEF WireInv
  <2>7. Fresh(i)'
    BY <2>2, <2>3, <2>4, <2>5, <2>6, SidesAre DEF Fresh
  <2>8. i \in Identities'
    BY <1>6, <2>4 DEF Identities
  <2> QED BY <1>14, <1>16, <1>17, <2>1, <2>7, <2>8 DEF IInv, StaleInv
<1> QED BY <1>18, <1>19

-----------------------------------------------------------------------------
(***************************************************************************)
(* The invariant and what follows from it.                                 *)
(***************************************************************************)

(* The invariant holds at the start.                                       *)
LEMMA SessionStarts ==
    ASSUME Init
    PROVE  Types /\ IInv
<1>1. /\ setup \in Setup /\ session = 0 /\ misread = "no"
      /\ conn = [s \in Side |-> IF s = "initiator" THEN [NewConnection EXCEPT !.localIdentity = Own(s)]
                                ELSE NewConnection]
      /\ wire = [s \in Side |-> <<>>]
  BY DEF Init
<1>2. ASSUME NEW s \in Side
      PROVE  /\ wire[s] = <<>>
             /\ DOMAIN conn[s] = Fields /\ ~conn[s].open /\ conn[s].deriving = <<>>
             /\ conn[s].cipher = Nil /\ conn[s].cipherSession = 0 /\ conn[s].sessionKey = Nil
             /\ conn[s].encryptionActive = FALSE
             /\ s = "initiator" => conn[s].localIdentity = Own("initiator")
  <2>1. /\ wire[s] = <<>>
        /\ conn[s] = IF s = "initiator" THEN [NewConnection EXCEPT !.localIdentity = Own(s)]
                     ELSE NewConnection
    BY <1>1
  <2> QED BY <2>1 DEF NewConnection, Fields
<1>3. <<>> \in Seq({}) /\ DOMAIN <<>> = {} /\ Len(<<>>) = 0
  OBVIOUS
<1>4. conn = [s \in Side |-> conn[s]] /\ wire = [s \in Side |-> wire[s]]
  BY <1>1
<1>5. Types
  BY <1>1, <1>2, <1>3, <1>4 DEF Types
<1>6. Always
  <2>1. conn["initiator"].localIdentity \in Identities
    BY <1>2, SidesAre DEF Identities
  <2>2. 0 \in 0 .. session
    BY <1>1
  <2>3. \A s \in Side : DOMAIN wire[s] = {}
    BY <1>2, <1>3
  <2> QED BY <1>1, <1>2, <2>1, <2>2, <2>3 DEF Always
<1>7. ~Stale
  BY <1>2, SidesAre DEF Stale
<1>8. NothingInTheClear
  BY <1>2, <1>3, SidesAre DEF NothingInTheClear
<1> QED BY <1>1, <1>5, <1>6, <1>7, <1>8 DEF IInv, StaleInv

(* Every step keeps the invariant.                                         *)
LEMMA NextStep ==
    ASSUME Types, IInv, [Next]_vars
    PROVE  Types' /\ IInv'
<1>1. CASE Connect
  BY <1>1, ConnectStep
<1>2. ASSUME NEW s \in Side, Receive(s) PROVE Types' /\ IInv'
  BY <1>2, ReceiveStep, HandshakeStep
<1>3. ASSUME NEW s \in Side, Derive(s) PROVE Types' /\ IInv'
  BY <1>3, DeriveFails, DeriveSucceeds
<1>4. ASSUME NEW s \in Side, Request(s) PROVE Types' /\ IInv'
  BY <1>4, RequestStep
<1>5. ASSUME NEW s \in Side, Timeout(s) PROVE Types' /\ IInv'
  BY <1>5, TimeoutStep
<1>6. ASSUME NEW s \in Side, CloseConnection(s) PROVE Types' /\ IInv'
  BY <1>6, CloseConnectionStep
<1>7. CASE Drop
  BY <1>7, DropStep
<1>8. CASE UNCHANGED vars
  <2>1. UNCHANGED <<setup, session, conn, wire, misread>>
    BY <1>8 DEF vars
  <2>2. Types'
    BY <2>1 DEF Types
  <2>3. ASSUME NEW s \in Side
        PROVE  /\ QuietSide(s) /\ Carried(wire[s], wire'[s])
               /\ \A k \in DOMAIN wire'[s] : wire'[s][k].seal # Nil => conn[Peer(s)].encryptionActive
    <3>1. Alike(conn[s], conn'[s])
      BY <2>1 DEF Alike, Types
    <3>2. \A k \in DOMAIN wire[s] : k + 0 = k
      <4>1. PICK S : wire[s] \in Seq(S)
        BY DEF Types
      <4> QED BY <4>1
    <3>3. Carried(wire[s], wire'[s])
      BY <2>1, <3>2 DEF Carried
    <3> QED BY <2>1, <3>1, <3>3 DEF QuietSide, IInv, Always
  <2>4. session = 0 => \A s \in Side : wire'[s] = <<>>
    BY <2>1 DEF IInv, Always
  <2>5. NothingInTheClear'
    BY <2>1 DEF IInv, NothingInTheClear
  <2>6. Quiet
    BY <2>1, <2>3, <2>4, <2>5 DEF Quiet
  <2> QED BY <2>2, <2>6, QuietStep
<1> QED BY <1>1, <1>2, <1>3, <1>4, <1>5, <1>6, <1>7, <1>8 DEF Next

(* The inductive invariant of the handshake: every packet of a handshake   *)
(* on the wire, every handler, header, key and cipher of either side is    *)
(* the one the transcript of process() calls of that session gives, unless *)
(* the initiator still encrypts with the cipher of an earlier session      *)
(* (handleAuthPacket and prepareSessionEncryption in EpConnection.ts). It  *)
(* holds for either value of Coalescing, any setup and any number of       *)
(* sessions.                                                               *)
THEOREM SessionInvariance == Spec => [](Types /\ IInv)
<1>1. Init => Types /\ IInv
  BY SessionStarts
<1>2. Types /\ IInv /\ [Next]_vars => Types' /\ IInv'
  BY NextStep
<1> QED BY <1>1, <1>2, PTL DEF Spec

(* Two sides with the cipher of one session have the transcript's, so they *)
(* agree.                                                                  *)
LEMMA KeysFollow ==
    ASSUME Types, IInv
    PROVE  KeysAgree
<1> DEFINE i == conn["initiator"]
           r == conn["responder"]
<1>1. Always /\ StaleInv /\ session \in Nat /\ setup \in Setup
  BY DEF IInv, Types
<1>2. ASSUME i.open, r.open, i.authSessionEstablished, r.authSessionEstablished,
             i.sessionKey # Nil, r.sessionKey # Nil
      PROVE  i.sessionKey = r.sessionKey
  <2>1. ~Stale
    BY <1>1, <1>2 DEF StaleInv
  <2>2. session > 0
    BY <1>1, <1>2, SidesAre DEF Always
  <2>3. PICK me \in Identities : Fresh(me)
    BY <2>1, <2>2 DEF IInv
  <2>4. M # "None" /\ i.sessionKey = Last(me).key /\ Finished(me)
    BY <1>2, <2>3 DEF Fresh, InitiatorInv
  <2>5. r.sessionKey = B1(me).key /\ Accepted(me)
    BY <1>2, <2>3 DEF Fresh, ResponderInv
  <2> QED BY <1>1, <2>3, <2>4, <2>5, Transcript
<1>3. ASSUME i.cipherSession = session, r.cipherSession = session, session > 0
      PROVE  i.cipher = r.cipher
  <2>1. i.cipher # Nil /\ r.cipher # Nil
    BY <1>1, <1>3, SidesAre DEF Always
  <2>2. ~Stale
    BY <1>3 DEF Stale
  <2>3. PICK me \in Identities : Fresh(me)
    BY <1>3, <2>2 DEF IInv
  <2> QED BY <1>3, <2>1, <2>3, SidesAre DEF Fresh, CipherInv
<1> QED BY <1>2, <1>3 DEF KeysAgree

(* A side that is ready in a mode has accepted, so the transcript has      *)
(* proved what that mode demands.                                          *)
LEMMA ProofFollows ==
    ASSUME Types, IInv
    PROVE  NobodyUnproved
<1>1. Always /\ StaleInv /\ session \in Nat /\ setup \in Setup
  BY DEF IInv, Types
<1>2. ASSUME NEW s \in Side, conn[s].open, conn[s].authenticated, conn[s].authMode # "None"
      PROVE  CASE M = "None" -> TRUE
               [] M = "InitializerIdentity" -> Proved("initiator")
               [] M = "ResponderIdentity" -> Proved("responder")
               [] OTHER -> Proved("initiator") /\ Proved("responder")
  <2>1. ~Stale
    BY <1>1, <1>2, SidesAre DEF StaleInv
  <2>2. session > 0
    BY <1>1, <1>2 DEF Always
  <2>3. PICK me \in Identities : Fresh(me)
    BY <2>1, <2>2 DEF IInv
  <2>4. conn[s].authSessionEstablished
    BY <1>2, <2>3 DEF Fresh, CipherInv
  <2>5. (Accepted(me) \/ Finished(me)) /\ M # "None" /\ setup.fault # "provider"
    <3>1. CASE s = "initiator"
      BY <1>2, <2>3, <2>4, <3>1 DEF Fresh, InitiatorInv
    <3>2. CASE s = "responder"
      BY <1>2, <2>3, <2>4, <3>2 DEF Fresh, ResponderInv
    <3> QED BY <3>1, <3>2, SidesAre
  <2>6. Demanded
    BY <1>1, <2>3, <2>5, Transcript
  <2> QED BY <1>1, <2>5, <2>6, DemandedIsProved
<1>3. ASSUME NEW s \in Side, conn[s].open, conn[s].authenticated, conn[s].authMode # "None"
      PROVE  conn[s].authMode = M
  <2>1. ~Stale
    BY <1>1, <1>3, SidesAre DEF StaleInv
  <2>2. session > 0
    BY <1>1, <1>3 DEF Always
  <2>3. PICK me \in Identities : Fresh(me)
    BY <2>1, <2>2 DEF IInv
  <2>4. CASE s = "initiator"
    BY <1>3, <2>3, <2>4 DEF Fresh, InitiatorInv
  <2>5. CASE s = "responder"
    BY <1>3, <2>3, <2>5 DEF Fresh, ResponderInv
  <2> QED BY <2>4, <2>5, SidesAre
<1>4. ASSUME NEW s \in Side, conn[s].open, conn[s].authenticated
      PROVE  CASE conn[s].authMode = "None" -> TRUE
               [] conn[s].authMode = "InitializerIdentity" -> Proved("initiator")
               [] conn[s].authMode = "ResponderIdentity" -> Proved("responder")
               [] OTHER -> Proved("initiator") /\ Proved("responder")
  BY <1>2, <1>3, <1>4
<1> QED BY <1>4 DEF NobodyUnproved

(* Two sides that encrypt in the same session seal with what the other     *)
(* opens: completeAuthentication and prepareSessionEncryption derive from  *)
(* the same key, headers and modes at both ends.                           *)
THEOREM KeysAgreeAlways == Spec => []KeysAgree
<1>1. Types /\ IInv => KeysAgree
  BY KeysFollow
<1> QED BY <1>1, SessionInvariance, PTL

(* A side that is ready in an authentication mode has had the identities   *)
(* of that mode proved with the right passwords                            *)
(* (PasswordAuthenticationHandler.ts, handleAuthAction in                  *)
(* EpConnection.ts), whatever the faults of the setup.                     *)
THEOREM NobodyUnprovedAlways == Spec => []NobodyUnproved
<1>1. Types /\ IInv => NobodyUnproved
  BY ProofFollows
<1> QED BY <1>1, SessionInvariance, PTL

(* Once encryption was asked for and nothing was misread, no request of    *)
(* the initiator is on the wire in the clear (completeAuthentication and   *)
(* send in EpConnection.ts).                                               *)
THEOREM NothingInTheClearAlways == Spec => []NothingInTheClear
<1>1. Types /\ IInv => NothingInTheClear
  BY DEF IInv
<1> QED BY <1>1, SessionInvariance, PTL

-----------------------------------------------------------------------------
(***************************************************************************)
(* Records, when a packet that completes the handshake ends its chunk: the *)
(* two sides change to records at the same place of each stream, and every *)
(* record arrives with the key and the number the receiver expects.        *)
(***************************************************************************)

(* What a handler that runs in the clear leaves of the counters.           *)
Counts(c, d) ==
    /\ DOMAIN d = Fields /\ d.encryptionActive = c.encryptionActive
    /\ d.sendSequence = c.sendSequence /\ d.receiveSequence = c.receiveSequence

(* Counters that are kept twice are kept.                                  *)
LEMMA CountsCompose ==
    \A c, d, e : Counts(c, d) /\ Counts(d, e) => Counts(c, e)
BY DEF Counts

(* The helpers of the handlers keep the counters.                          *)
LEMMA HelpersCount ==
    ASSUME NEW s, NEW c, DOMAIN c = Fields
    PROVE  /\ Counts(c, c) /\ Counts(c, Closed(c)) /\ Counts(c, FinishAuthenticationReady(c))
           /\ \A l, r, k : Counts(c, StoreAuthenticationResult(c, l, r, k))
           /\ \A p : ~c.encryptionActive => Send(s, c, p).c = c
           /\ \A t : t.c = c => Counts(c, Close(t).c)
           /\ \A p : Counts(c, Negotiate(s, c, p))
<1>1. Counts(c, c) /\ Counts(c, Closed(c)) /\ Counts(c, FinishAuthenticationReady(c))
  BY DEF Counts, Closed, FinishAuthenticationReady, Fields
<1>2. \A l, r, k : Counts(c, StoreAuthenticationResult(c, l, r, k))
  BY DEF Counts, StoreAuthenticationResult, Fields
<1>3. \A p : ~c.encryptionActive => Send(s, c, p).c = c
  BY DEF Send, Step
<1>4. \A t : t.c = c => Counts(c, Close(t).c)
  BY <1>1 DEF Close, Step
<1>5. \A p : Counts(c, Negotiate(s, c, p))
  BY DEF Negotiate, Counts, Fields
<1> QED BY <1>1, <1>2, <1>3, <1>4, <1>5

(* completeAuthentication keeps the counters.                              *)
LEMMA CompleteCounts ==
    ASSUME NEW s, NEW c, DOMAIN c = Fields
    PROVE  Counts(c, CompleteAuthentication(s, c))
<1> DEFINE e == [c EXCEPT !.authSessionEstablished = TRUE]
           x == EncryptionContext(s, e)
<1>1. Counts(c, e)
  BY DEF Counts, Fields
<1>2. \/ CompleteAuthentication(s, c) = FinishAuthenticationReady(e)
      \/ CompleteAuthentication(s, c) = [e EXCEPT !.deriving = Append(@, x)]
  BY DEF CompleteAuthentication
<1> HIDE DEF e, x
<1>3. Counts(e, FinishAuthenticationReady(e))
  BY <1>1, HelpersCount DEF Counts
<1>4. Counts(e, [e EXCEPT !.deriving = Append(@, x)])
  BY <1>1 DEF Counts, Fields
<1> QED BY <1>1, <1>2, <1>3, <1>4, CountsCompose

(* failAuthentication and the refusals keep the counters of a side in the  *)
(* clear.                                                                  *)
LEMMA RefusalsCount ==
    ASSUME NEW s, NEW c, DOMAIN c = Fields, ~c.encryptionActive
    PROVE  /\ \A b \in BOOLEAN : Counts(c, FailAuthentication(s, c, b).c)
           /\ \A p : Counts(c, Close(Send(s, c, p)).c)
<1>1. \A p : Counts(c, Close(Send(s, c, p)).c)
  BY HelpersCount
<1>2. ASSUME NEW b \in BOOLEAN PROVE Counts(c, FailAuthentication(s, c, b).c)
  <2>1. Step(c, <<>>).c = c
    BY DEF Step
  <2>2. Counts(c, Close(Step(c, <<>>)).c)
    BY <2>1, HelpersCount
  <2> QED BY <1>1, <2>2 DEF FailAuthentication
<1> QED BY <1>1, <1>2

(* The first packet keeps the counters.                                    *)
LEMMA InitializeCounts ==
    ASSUME NEW s, NEW c0, DOMAIN c0 = Fields, ~c0.encryptionActive, NEW p
    PROVE  Counts(c0, HandleAuthInitialize(s, c0, p).c)
<1> DEFINE c == [c0 EXCEPT !.remoteHeaders = p.headers]
           n == Negotiate(s, c, p)
           handler == NewHandler(Nil, Nil, <<"authNonce", s, session>>)
           result == Process(p.authMode, s, handler, p.data, Provider(s))
           d == [n EXCEPT !.authMode = p.authMode, !.handler = result.handler]
           t == HandleAuthInitialize(s, c0, p)
           rejected == [c EXCEPT !.encMode = p.encMode]
           anonymous == [n EXCEPT !.authMode = "None"]
           anon == StoreAuthenticationResult(anonymous, Nil, Nil, Nil)
           stored == StoreAuthenticationResult(d, result.local, result.remote, result.key)
<1>1. Counts(c0, c)
  BY DEF Counts, Fields
<1>2. Counts(c0, n)
  <2> HIDE DEF c
  <2>1. Counts(c, n)
    BY <1>1, HelpersCount DEF Counts
  <2> QED BY <1>1, <2>1, CountsCompose
<1>3. Counts(c0, rejected)
  <2> HIDE DEF c
  <2> QED BY <1>1 DEF Counts, Fields
<1>4. Counts(c0, d) /\ Counts(c0, anonymous)
  <2> HIDE DEF n, result
  <2> QED BY <1>2 DEF Counts, Fields
<1>5. Counts(c0, anon) /\ Counts(c0, stored)
  <2> HIDE DEF d, anonymous, result
  <2>1. DOMAIN d = Fields /\ DOMAIN anonymous = Fields
    BY <1>4 DEF Counts
  <2>2. Counts(anonymous, anon) /\ Counts(d, stored)
    BY <2>1, HelpersCount
  <2> QED BY <1>4, <2>2, CountsCompose
<1>6. Counts(c0, CompleteAuthentication(s, anon)) /\ Counts(c0, CompleteAuthentication(s, stored))
  <2> HIDE DEF anon, stored
  <2>1. DOMAIN anon = Fields /\ DOMAIN stored = Fields
    BY <1>5 DEF Counts
  <2> QED BY <1>5, <2>1, CompleteCounts, CountsCompose
<1>7. \/ t = Close(Send(s, rejected, Plain("ErrorMustEncrypt", Nil)))
      \/ t = FailAuthentication(s, n, FALSE)
      \/ \E m, x, out : t = Step(CompleteAuthentication(s,
                StoreAuthenticationResult([Send(s, n, Packet(m, x, Nil)).c EXCEPT !.authMode = "None"],
                                          Nil, Nil, Nil)), out)
      \/ \E m : t = Close(Send(s, n, Packet(m, n.localHeaders, Nil)))
      \/ \E m, y : \/ t = Close(Send(s, d, Packet(m, d.localHeaders, y)))
                   \/ t = Send(s, d, Packet(m, d.localHeaders, y))
                   \/ \E out : t = Step(CompleteAuthentication(s,
                        StoreAuthenticationResult(Send(s, d, Packet(m, d.localHeaders, y)).c,
                                result.local, result.remote, result.key)), out)
  <2> HIDE DEF c, n, d, handler, result, rejected
  <2> QED BY DEF HandleAuthInitialize, RejectEncryption, c, n, d, handler, result, rejected
<1>8. ~n.encryptionActive /\ ~d.encryptionActive /\ ~rejected.encryptionActive
  <2> HIDE DEF n, d, rejected
  <2> QED BY <1>2, <1>3, <1>4 DEF Counts
<1>9. \A p2 : Send(s, n, p2).c = n /\ Send(s, d, p2).c = d
  <2> HIDE DEF n, d
  <2> QED BY <1>2, <1>4, <1>8, HelpersCount DEF Counts
<1>10. /\ \A p2 : Counts(c0, Close(Send(s, n, p2)).c) /\ Counts(c0, Close(Send(s, d, p2)).c)
       /\ \A p2 : Counts(c0, Close(Send(s, rejected, p2)).c)
       /\ Counts(c0, FailAuthentication(s, n, FALSE).c)
  <2> HIDE DEF n, d, rejected
  <2>1. ASSUME NEW e, Counts(c0, e), ~e.encryptionActive
        PROVE  /\ \A p2 : Counts(c0, Close(Send(s, e, p2)).c)
               /\ Counts(c0, FailAuthentication(s, e, FALSE).c)
    <3>1. DOMAIN e = Fields
      BY <2>1 DEF Counts
    <3>2. FALSE \in BOOLEAN
      OBVIOUS
    <3>3. /\ \A p2 : Counts(e, Close(Send(s, e, p2)).c)
          /\ Counts(e, FailAuthentication(s, e, FALSE).c)
      BY <2>1, <3>1, <3>2, RefusalsCount
    <3> QED BY <2>1, <3>3, CountsCompose
  <2> QED BY <1>2, <1>3, <1>4, <1>8, <2>1
<1>11. \A x, out : Step(x, out).c = x
  BY DEF Step
<1> HIDE DEF c, n, d, handler, result, rejected, t, anon, stored
<1>12. ASSUME NEW m, NEW x, NEW out, t = Step(CompleteAuthentication(s,
                StoreAuthenticationResult([Send(s, n, Packet(m, x, Nil)).c EXCEPT !.authMode = "None"],
                                          Nil, Nil, Nil)), out)
       PROVE  Counts(c0, t.c)
  <2>1. Send(s, n, Packet(m, x, Nil)).c = n
    BY <1>9
  <2>2. t = Step(CompleteAuthentication(s, anon), out)
    BY <1>12, <2>1 DEF anon
  <2> QED BY <1>6, <1>11, <2>2
<1>13. ASSUME NEW m, NEW y, NEW out, t = Step(CompleteAuthentication(s,
                        StoreAuthenticationResult(Send(s, d, Packet(m, d.localHeaders, y)).c,
                                result.local, result.remote, result.key)), out)
       PROVE  Counts(c0, t.c)
  <2>1. Send(s, d, Packet(m, d.localHeaders, y)).c = d
    BY <1>9
  <2>2. t = Step(CompleteAuthentication(s, stored), out)
    BY <1>13, <2>1 DEF stored
  <2> QED BY <1>6, <1>11, <2>2
<1>14. Counts(c0, t.c)
  <2>1. \A m, y : Send(s, d, Packet(m, d.localHeaders, y)).c = d
    BY <1>9
  <2> QED BY <1>4, <1>7, <1>10, <1>12, <1>13, <2>1
<1> QED BY <1>14 DEF t

(* The answer to the first packet keeps the counters.                      *)
LEMMA AcknowledgeCounts ==
    ASSUME NEW s, NEW c, DOMAIN c = Fields, ~c.encryptionActive, NEW p
    PROVE  Counts(c, HandleAuthAcknowledge(s, c, p).c)
<1> DEFINE d == [c EXCEPT !.remoteHeaders = p.headers]
           result == Process(c.authMode, s, c.handler, p.data, Provider(s))
           e == [d EXCEPT !.handler = result.handler]
           stored == StoreAuthenticationResult(e, result.local, result.remote, result.key)
           anon == StoreAuthenticationResult(d, Nil, Nil, Nil)
           t == HandleAuthAcknowledge(s, c, p)
<1>1. Counts(c, d)
  BY DEF Counts, Fields
<1>2. Counts(c, e)
  <2> HIDE DEF d, result
  <2> QED BY <1>1 DEF Counts, Fields
<1>3. Counts(c, stored) /\ Counts(c, anon)
  <2> HIDE DEF d, e, result
  <2>1. DOMAIN d = Fields /\ DOMAIN e = Fields
    BY <1>1, <1>2 DEF Counts
  <2>2. Counts(d, anon) /\ Counts(e, stored)
    BY <2>1, HelpersCount
  <2> QED BY <1>1, <1>2, <2>2, CountsCompose
<1>4. Counts(c, CompleteAuthentication(s, anon)) /\ Counts(c, CompleteAuthentication(s, stored))
  <2> HIDE DEF anon, stored
  <2>1. DOMAIN anon = Fields /\ DOMAIN stored = Fields
    BY <1>3 DEF Counts
  <2> QED BY <1>3, <2>1, CompleteCounts, CountsCompose
<1>5. ASSUME NEW x, Counts(c, x)
      PROVE  /\ \A b \in BOOLEAN : Counts(c, FailAuthentication(s, x, b).c)
             /\ \A q : Counts(c, Close(Send(s, x, q)).c) /\ Counts(c, Send(s, x, q).c)
  <2>1. DOMAIN x = Fields /\ ~x.encryptionActive
    BY <1>5 DEF Counts
  <2>2. \A b \in BOOLEAN : Counts(x, FailAuthentication(s, x, b).c)
    BY <2>1, RefusalsCount
  <2>3. \A q : Counts(x, Close(Send(s, x, q)).c) /\ Counts(x, Send(s, x, q).c)
    BY <2>1, RefusalsCount, HelpersCount
  <2> QED BY <1>5, <2>2, <2>3, CountsCompose
<1>6. \A x : Step(x, <<>>).c = x
  BY DEF Step
<1> HIDE DEF d, e, result, stored, anon
<1>7. \/ t = Step(CompleteAuthentication(s, anon), <<>>)
      \/ \E b \in BOOLEAN : \/ t = FailAuthentication(s, c, b)
                            \/ t = FailAuthentication(s, d, b)
                            \/ t = FailAuthentication(s, e, b)
      \/ t = Close(Send(s, d, Plain("ErrorMustEncrypt", Nil)))
      \/ t = Send(s, e, Plain("Handshake", result.data))
      \/ t = Step(CompleteAuthentication(s, stored), <<>>)
      \/ t = Send(s, stored, Plain("FinalHandshake", result.data))
  BY DEF HandleAuthAcknowledge, RejectEncryption, d, e, result, stored, anon
<1>8. Counts(c, c)
  BY HelpersCount
<1>9. ASSUME NEW b \in BOOLEAN
      PROVE  /\ Counts(c, FailAuthentication(s, c, b).c) /\ Counts(c, FailAuthentication(s, d, b).c)
             /\ Counts(c, FailAuthentication(s, e, b).c)
  BY <1>1, <1>2, <1>5, <1>8
<1>10. /\ Counts(c, Close(Send(s, d, Plain("ErrorMustEncrypt", Nil))).c)
       /\ Counts(c, Send(s, e, Plain("Handshake", result.data)).c)
       /\ Counts(c, Send(s, stored, Plain("FinalHandshake", result.data)).c)
  BY <1>1, <1>2, <1>3, <1>5
<1> HIDE DEF t
<1>11. Counts(c, t.c)
  BY <1>4, <1>6, <1>7, <1>9, <1>10
<1> QED BY <1>11 DEF t

(* What follows in the handshake keeps the counters.                       *)
LEMMA ActionCounts ==
    ASSUME NEW s, NEW c, DOMAIN c = Fields, ~c.encryptionActive, NEW p
    PROVE  Counts(c, HandleAuthAction(s, c, p).c)
<1> DEFINE result == Process(c.authMode, s, c.handler, p.data, Provider(s))
           e == [c EXCEPT !.handler = result.handler]
           stored == StoreAuthenticationResult(e, result.local, result.remote, result.key)
           reply == IF result.data = Nil THEN Step(stored, <<>>)
                    ELSE Send(s, stored, Plain("FinalHandshake", result.data))
           final == Establish(s, reply.c)
           t == HandleAuthAction(s, c, p)
<1>1. Counts(c, e)
  <2> HIDE DEF result
  <2> QED BY DEF Counts, Fields
<1>2. Counts(c, stored)
  <2> HIDE DEF e, result
  <2>1. DOMAIN e = Fields
    BY <1>1 DEF Counts
  <2>2. Counts(e, stored)
    BY <2>1, HelpersCount
  <2> QED BY <1>1, <2>2, CountsCompose
<1>3. reply.c = stored
  <2> HIDE DEF stored, result
  <2>1. DOMAIN stored = Fields /\ ~stored.encryptionActive
    BY <1>2 DEF Counts
  <2>2. \A q : Send(s, stored, q).c = stored
    BY <2>1, HelpersCount
  <2> QED BY <2>2 DEF Step
<1>4. Counts(c, final.c)
  <2> HIDE DEF stored, reply
  <2>1. DOMAIN stored = Fields /\ ~stored.encryptionActive
    BY <1>2 DEF Counts
  <2>2. \A q : Send(s, stored, q).c = stored
    BY <2>1, HelpersCount
  <2>3. final.c = CompleteAuthentication(s, stored)
    BY <1>3, <2>2 DEF Establish, Step
  <2>4. Counts(stored, CompleteAuthentication(s, stored))
    BY <2>1, CompleteCounts
  <2> QED BY <1>2, <2>3, <2>4, CountsCompose
<1> HIDE DEF result, e, stored, reply, final
<1>5. \/ t = FailAuthentication(s, c, FALSE) \/ t = FailAuthentication(s, e, FALSE)
      \/ t = Send(s, e, Plain("Handshake", result.data))
      \/ t = Step(final.c, reply.out \o final.out)
      \/ t = reply
  BY DEF HandleAuthAction, result, e, stored, reply, final
<1>6. FALSE \in BOOLEAN /\ \A x, y : Step(x, y).c = x
  BY DEF Step
<1>7. Counts(c, FailAuthentication(s, c, FALSE).c)
  BY <1>6, RefusalsCount
<1>8. Counts(c, FailAuthentication(s, e, FALSE).c) /\ Counts(c, Send(s, e, Plain("Handshake", result.data)).c)
  <2>1. DOMAIN e = Fields /\ ~e.encryptionActive
    BY <1>1 DEF Counts
  <2>2. Counts(e, FailAuthentication(s, e, FALSE).c)
    BY <1>6, <2>1, RefusalsCount
  <2>3. Send(s, e, Plain("Handshake", result.data)).c = e
    BY <2>1, HelpersCount
  <2> QED BY <1>1, <2>2, <2>3, CountsCompose
<1> HIDE DEF t
<1>9. Counts(c, t.c)
  BY <1>2, <1>3, <1>4, <1>5, <1>6, <1>7, <1>8
<1> QED BY <1>9 DEF t

(* No handler counts a record that a side in the clear sends or receives.  *)
LEMMA HandlersCount ==
    ASSUME NEW s, NEW c, DOMAIN c = Fields, ~c.encryptionActive, NEW p
    PROVE  Counts(c, HandleAuthPacket(s, c, p).c) /\ Counts(c, Misread(s, c).c)
<1>1. Counts(c, HandleAuthEvent(s, c, p).c)
  <2>1. \A b \in BOOLEAN : Counts(c, FailAuthentication(s, c, b).c)
    BY RefusalsCount
  <2>2. Counts(c, Step(CompleteAuthentication(s, c), <<>>).c)
    BY CompleteCounts DEF Step
  <2>3. \/ \E b \in BOOLEAN : HandleAuthEvent(s, c, p) = FailAuthentication(s, c, b)
        \/ HandleAuthEvent(s, c, p) = Step(CompleteAuthentication(s, c), <<>>)
    BY DEF HandleAuthEvent
  <2> QED BY <2>1, <2>2, <2>3
<1>2. /\ Counts(c, HandleAuthInitialize(s, c, p).c) /\ Counts(c, HandleAuthAcknowledge(s, c, p).c)
      /\ Counts(c, HandleAuthAction(s, c, p).c)
  BY InitializeCounts, AcknowledgeCounts, ActionCounts
<1>3. \/ HandleAuthPacket(s, c, p) = HandleAuthInitialize(s, c, p)
      \/ HandleAuthPacket(s, c, p) = HandleAuthAcknowledge(s, c, p)
      \/ HandleAuthPacket(s, c, p) = HandleAuthAction(s, c, p)
      \/ HandleAuthPacket(s, c, p) = HandleAuthEvent(s, c, p)
  BY DEF HandleAuthPacket
<1>4. Counts(c, HandleAuthPacket(s, c, p).c)
  BY <1>1, <1>2, <1>3
<1>5. Counts(c, Misread(s, c).c)
  <2>1. Counts(c, HandleAuthInitialize(s, c, Plain("Initialize", Nil)).c)
    BY InitializeCounts
  <2>2. Counts(c, Step(c, <<>>).c)
    BY HelpersCount DEF Step
  <2> QED BY <2>1, <2>2 DEF Misread
<1> QED BY <1>4, <1>5

-----------------------------------------------------------------------------
(***************************************************************************)
(* The order of the stream to a side, and what each step leaves of it.     *)
(***************************************************************************)

(* A side that is past the handshake, or derives its keys.                 *)
Begun(c) == c.encryptionActive \/ c.deriving # <<>>
(* The packet in the clear after which a side's records come, and how many *)
(* of it a side has yet to read.                                           *)
LastWord == Packet("Established", NoHeaders, Nil)
Lead(c) == IF Begun(c) THEN 0 ELSE 1

(* The stream q to side s, whose connection is c, from its peer's d: once  *)
(* d seals, the last word and then records in order; while it derives, the *)
(* last word; before, steps of the handshake.                              *)
Sealing(s, c, d, q) ==
    /\ Len(q) >= Lead(c)
    /\ ~Begun(c) => q[1] = LastWord
    /\ \A k \in DOMAIN q : k > Lead(c) =>
         \/ q[k].method = "fin"
         \/ /\ q[k].seal = SendKey(Peer(s), d)
            /\ q[k].sequence = c.receiveSequence + k - 1 - Lead(c)
    /\ d.open => /\ \A k \in DOMAIN q : q[k].method # "fin"
                 /\ d.sendSequence = c.receiveSequence + Len(q) - Lead(c)
Handing(c, q) == c.receiveSequence = 0 /\ q = IF Begun(c) THEN <<>> ELSE <<LastWord>>
Greeting(c, q) ==
    /\ c.receiveSequence = 0
    /\ Begun(c) => q = <<>>
    /\ \A k \in DOMAIN q : IsStep(q[k]) /\ q[k].method # "Established"
InOrder(s, c, d, q) ==
    /\ c.authenticated => c.encryptionActive
    /\ d.encryptionActive => Sealing(s, c, d, q)
    /\ d.deriving # <<>> => Handing(c, q)
    /\ d.open /\ ~Begun(d) => Greeting(c, q)

(* What was said last is in the clear and ends no stream.                  *)
LEMMA LastWordIs ==
    /\ LastWord.method = "Established" /\ LastWord.seal = Nil /\ IsStep(LastWord)
    /\ Fin.method = "fin" /\ Fin.seal = Nil
    /\ \A s, c : SendKey(s, c) # Nil /\ ReceiveKey(s, c) # Nil
BY DEF LastWord, Packet, IsStep, Steps, Fin, Plain, SendKey, ReceiveKey, Nil

(* A record is opened: the rest of the stream is in order.                 *)
LEMMA OrderAfterRecord ==
    ASSUME NEW s, NEW c, NEW d, NEW c2, NEW S, NEW q \in Seq(S), q # <<>>, InOrder(s, c, d, q),
           c.encryptionActive, c.receiveSequence \in Nat,
           q[1].method # "fin", q[1].seal # Nil,
           c2.encryptionActive, c2.receiveSequence = c.receiveSequence + 1
    PROVE  InOrder(s, c2, d, Tail(q))
<1>1. Begun(c) /\ Begun(c2) /\ Lead(c) = 0 /\ Lead(c2) = 0
  BY DEF Begun, Lead
<1>2. /\ Len(q) \in Nat /\ Len(q) >= 1 /\ Len(Tail(q)) = Len(q) - 1
      /\ DOMAIN q = 1 .. Len(q) /\ DOMAIN Tail(q) = 1 .. Len(Tail(q))
      /\ \A k \in DOMAIN Tail(q) : k + 1 \in DOMAIN q /\ Tail(q)[k] = q[k + 1]
  OBVIOUS
<1>3. d.deriving = <<>> /\ ~(d.open /\ ~Begun(d))
  BY <1>1 DEF InOrder, Handing, Greeting
<1>4. d.encryptionActive => Sealing(s, c2, d, Tail(q))
  <2> SUFFICES ASSUME d.encryptionActive PROVE Sealing(s, c2, d, Tail(q))
    OBVIOUS
  <2>1. Sealing(s, c, d, q)
    BY DEF InOrder
  <2>2. ASSUME NEW k \in DOMAIN Tail(q)
        PROVE  \/ Tail(q)[k].method = "fin"
               \/ /\ Tail(q)[k].seal = SendKey(Peer(s), d)
                  /\ Tail(q)[k].sequence = c2.receiveSequence + k - 1 - Lead(c2)
    <3>1. k \in Nat /\ k + 1 \in DOMAIN q /\ Tail(q)[k] = q[k + 1] /\ k + 1 > Lead(c)
      BY <1>1, <1>2
    <3>2. \/ q[k + 1].method = "fin"
          \/ /\ q[k + 1].seal = SendKey(Peer(s), d)
             /\ q[k + 1].sequence = c.receiveSequence + (k + 1) - 1 - Lead(c)
      BY <2>1, <3>1 DEF Sealing
    <3>3. c.receiveSequence + (k + 1) - 1 - Lead(c) = c2.receiveSequence + k - 1 - Lead(c2)
      BY <1>1, <3>1
    <3> QED BY <3>1, <3>2, <3>3
  <2>3. d.open => /\ \A k \in DOMAIN Tail(q) : Tail(q)[k].method # "fin"
                  /\ d.sendSequence = c2.receiveSequence + Len(Tail(q)) - Lead(c2)
    <3>1. c.receiveSequence + Len(q) - Lead(c) = c2.receiveSequence + Len(Tail(q)) - Lead(c2)
      BY <1>1, <1>2
    <3>2. d.open => d.sendSequence = c.receiveSequence + Len(q) - Lead(c)
      BY <2>1 DEF Sealing
    <3>3. d.open => \A k \in DOMAIN q : q[k].method # "fin"
      BY <2>1 DEF Sealing
    <3> QED BY <1>2, <3>1, <3>2, <3>3
  <2>4. Len(Tail(q)) >= Lead(c2)
    BY <1>1, <1>2
  <2> QED BY <1>1, <2>2, <2>3, <2>4 DEF Sealing
<1> QED BY <1>3, <1>4 DEF InOrder

(* The last word is read, in the clear: the records follow.                *)
LEMMA OrderAfterLastWord ==
    ASSUME NEW s, NEW c, NEW d, NEW c2, NEW S, NEW q \in Seq(S), q # <<>>, InOrder(s, c, d, q),
           ~Begun(c), c.receiveSequence \in Nat, q[1].method = "Established",
           ~c2.authenticated, Begun(c2), c2.receiveSequence = c.receiveSequence
    PROVE  InOrder(s, c2, d, Tail(q))
<1>1. Lead(c) = 1 /\ Lead(c2) = 0
  BY DEF Lead
<1>2. /\ Len(q) \in Nat /\ Len(q) >= 1 /\ Len(Tail(q)) = Len(q) - 1
      /\ DOMAIN q = 1 .. Len(q) /\ DOMAIN Tail(q) = 1 .. Len(Tail(q)) /\ 1 \in DOMAIN q
      /\ \A k \in DOMAIN Tail(q) : k + 1 \in DOMAIN q /\ Tail(q)[k] = q[k + 1]
  OBVIOUS
<1>3. ~(d.open /\ ~Begun(d))
  BY <1>2 DEF InOrder, Greeting
<1>4. d.encryptionActive => Sealing(s, c2, d, Tail(q))
  <2> SUFFICES ASSUME d.encryptionActive PROVE Sealing(s, c2, d, Tail(q))
    OBVIOUS
  <2>1. Sealing(s, c, d, q)
    BY DEF InOrder
  <2>2. ASSUME NEW k \in DOMAIN Tail(q)
        PROVE  \/ Tail(q)[k].method = "fin"
               \/ /\ Tail(q)[k].seal = SendKey(Peer(s), d)
                  /\ Tail(q)[k].sequence = c2.receiveSequence + k - 1 - Lead(c2)
    <3>1. k \in Nat /\ k + 1 \in DOMAIN q /\ Tail(q)[k] = q[k + 1] /\ k + 1 > Lead(c)
      BY <1>1, <1>2
    <3>2. \/ q[k + 1].method = "fin"
          \/ /\ q[k + 1].seal = SendKey(Peer(s), d)
             /\ q[k + 1].sequence = c.receiveSequence + (k + 1) - 1 - Lead(c)
      BY <2>1, <3>1 DEF Sealing
    <3>3. c.receiveSequence + (k + 1) - 1 - Lead(c) = c2.receiveSequence + k - 1 - Lead(c2)
      BY <1>1, <3>1
    <3> QED BY <3>1, <3>2, <3>3
  <2>3. d.open => /\ \A k \in DOMAIN Tail(q) : Tail(q)[k].method # "fin"
                  /\ d.sendSequence = c2.receiveSequence + Len(Tail(q)) - Lead(c2)
    <3>1. c.receiveSequence + Len(q) - Lead(c) = c2.receiveSequence + Len(Tail(q)) - Lead(c2)
      BY <1>1, <1>2
    <3>2. d.open => d.sendSequence = c.receiveSequence + Len(q) - Lead(c)
      BY <2>1 DEF Sealing
    <3>3. d.open => \A k \in DOMAIN q : q[k].method # "fin"
      BY <2>1 DEF Sealing
    <3> QED BY <1>2, <3>1, <3>2, <3>3
  <2>4. Len(Tail(q)) >= Lead(c2)
    BY <1>1, <1>2
  <2> QED BY <2>2, <2>3, <2>4 DEF Sealing
<1>5. d.deriving # <<>> => Handing(c2, Tail(q))
  <2> SUFFICES ASSUME d.deriving # <<>> PROVE Handing(c2, Tail(q))
    OBVIOUS
  <2>1. c.receiveSequence = 0 /\ q = <<LastWord>>
    BY DEF InOrder, Handing
  <2>2. Tail(q) = <<>>
    BY <2>1
  <2> QED BY <2>1, <2>2 DEF Handing
<1> QED BY <1>3, <1>4, <1>5 DEF InOrder

(* Another step of the handshake is read: what is left is in order when    *)
(* the reader goes on in the clear, or derives and nothing is left.        *)
LEMMA OrderAfterStep ==
    ASSUME NEW s, NEW c, NEW d, NEW c2, NEW S, NEW q \in Seq(S), q # <<>>, InOrder(s, c, d, q),
           ~Begun(c), q[1].method # "Established",
           ~c2.authenticated, d.open /\ Begun(c2) => Tail(q) = <<>>,
           c2.receiveSequence = c.receiveSequence
    PROVE  InOrder(s, c2, d, Tail(q))
<1>1. ~d.encryptionActive /\ d.deriving = <<>>
  <2>1. q # <<LastWord>> /\ q[1] # LastWord
    BY LastWordIs
  <2> QED BY <2>1 DEF InOrder, Sealing, Handing
<1>2. \A k \in DOMAIN Tail(q) : k + 1 \in DOMAIN q /\ Tail(q)[k] = q[k + 1]
  OBVIOUS
<1>3. d.open /\ ~Begun(d) => Greeting(c2, Tail(q))
  BY <1>2 DEF InOrder, Greeting
<1> QED BY <1>1, <1>3 DEF InOrder

(* A record is sealed and sent: it is the next in order.                   *)
LEMMA OrderAfterSealing ==
    ASSUME NEW s, NEW c, NEW d, NEW d2, NEW S, NEW q \in Seq(S), InOrder(s, c, d, q),
           d.encryptionActive, d.open, c.receiveSequence \in Nat, d.sendSequence \in Nat, NEW p,
           p.seal = SendKey(Peer(s), d), p.sequence = d.sendSequence, p.method # "fin",
           d2.encryptionActive, d2.deriving = <<>>, d2.cipher = d.cipher,
           d2.sendSequence = d.sendSequence + 1
    PROVE  InOrder(s, c, d2, q \o <<p>>)
<1> DEFINE r == q \o <<p>>
<1>1. Sealing(s, c, d, q)
  BY DEF InOrder
<1>2. Lead(c) \in {0, 1}
  BY DEF Lead
<1>3. /\ Len(q) \in Nat /\ Len(r) = Len(q) + 1 /\ DOMAIN q = 1 .. Len(q) /\ DOMAIN r = 1 .. Len(r)
      /\ \A k \in DOMAIN q : r[k] = q[k]
      /\ r[Len(q) + 1] = p
  <2>1. q \in Seq(S \cup {p}) /\ <<p>> \in Seq(S \cup {p})
    OBVIOUS
  <2> QED BY <2>1
<1> HIDE DEF r
<1>4. SendKey(Peer(s), d2) = SendKey(Peer(s), d)
  BY DEF SendKey
<1>5. ASSUME NEW k \in DOMAIN r, k > Lead(c)
      PROVE  \/ r[k].method = "fin"
             \/ /\ r[k].seal = SendKey(Peer(s), d2)
                /\ r[k].sequence = c.receiveSequence + k - 1 - Lead(c)
  <2>1. CASE k \in DOMAIN q
    BY <1>1, <1>3, <1>4, <1>5, <2>1 DEF Sealing
  <2>2. CASE k = Len(q) + 1
    <3>1. p.sequence = c.receiveSequence + Len(q) - Lead(c)
      BY <1>1 DEF Sealing
    <3> QED BY <1>2, <1>3, <1>4, <2>2, <3>1
  <2> QED BY <1>3, <2>1, <2>2
<1>6. ASSUME NEW k \in DOMAIN r PROVE r[k].method # "fin"
  <2>1. CASE k \in DOMAIN q
    BY <1>1, <1>3, <2>1 DEF Sealing
  <2> QED BY <1>3, <2>1
<1>7. d2.sendSequence = c.receiveSequence + Len(r) - Lead(c) /\ Len(r) >= Lead(c)
  <2>1. d.sendSequence = c.receiveSequence + Len(q) - Lead(c) /\ Len(q) >= Lead(c)
    BY <1>1 DEF Sealing
  <2> QED BY <1>2, <1>3, <2>1
<1>8. ~Begun(c) => r[1] = LastWord
  <2> SUFFICES ASSUME ~Begun(c) PROVE r[1] = LastWord
    OBVIOUS
  <2>1. q[1] = LastWord /\ Len(q) >= 1
    BY <1>1 DEF Sealing, Lead
  <2> QED BY <1>3, <2>1
<1>9. Sealing(s, c, d2, r)
  BY <1>5, <1>6, <1>7, <1>8 DEF Sealing
<1>10. Begun(d2)
  BY DEF Begun
<1> QED BY <1>9, <1>10 DEF InOrder, r

(* A side closes: what it sealed stays in order, and the stream may end.   *)
LEMMA OrderAfterClosing ==
    ASSUME NEW s, NEW c, NEW d, NEW d2, NEW S, NEW q \in Seq(S), InOrder(s, c, d, q), NEW out,
           d.encryptionActive => out = <<>> \/ out = <<Fin>>, c.receiveSequence \in Nat,
           ~d2.open, d2.encryptionActive = d.encryptionActive, d2.deriving = <<>>, d2.cipher = d.cipher
    PROVE  InOrder(s, c, d2, q \o out)
<1> SUFFICES ASSUME d.encryptionActive PROVE Sealing(s, c, d2, q \o out)
  BY DEF InOrder
<1> DEFINE r == q \o out
<1>1. Sealing(s, c, d, q)
  BY DEF InOrder
<1>2. Lead(c) \in {0, 1}
  BY DEF Lead
<1>3. /\ Len(q) \in Nat /\ Len(r) \in Nat /\ Len(r) >= Len(q)
      /\ DOMAIN q = 1 .. Len(q) /\ DOMAIN r = 1 .. Len(r)
      /\ \A k \in DOMAIN q : r[k] = q[k]
      /\ \A k \in DOMAIN r : k \in DOMAIN q \/ r[k] = Fin
  <2>1. CASE out = <<>>
    BY <2>1
  <2>2. CASE out = <<Fin>>
    <3>1. q \in Seq(S \cup {Fin}) /\ <<Fin>> \in Seq(S \cup {Fin})
      OBVIOUS
    <3> QED BY <2>2, <3>1
  <2> QED BY <2>1, <2>2
<1> HIDE DEF r
<1>4. SendKey(Peer(s), d2) = SendKey(Peer(s), d)
  BY DEF SendKey
<1>5. ASSUME NEW k \in DOMAIN r, k > Lead(c)
      PROVE  \/ r[k].method = "fin"
             \/ /\ r[k].seal = SendKey(Peer(s), d2)
                /\ r[k].sequence = c.receiveSequence + k - 1 - Lead(c)
  <2>1. CASE k \in DOMAIN q
    BY <1>1, <1>3, <1>4, <1>5, <2>1 DEF Sealing
  <2> QED BY <1>3, <2>1, LastWordIs
<1>6. Len(r) >= Lead(c)
  BY <1>1, <1>2, <1>3 DEF Sealing
<1>7. ~Begun(c) => r[1] = LastWord
  <2> SUFFICES ASSUME ~Begun(c) PROVE r[1] = LastWord
    OBVIOUS
  <2>1. q[1] = LastWord /\ Len(q) >= 1
    BY <1>1 DEF Sealing, Lead
  <2> QED BY <1>3, <2>1
<1> QED BY <1>5, <1>6, <1>7 DEF Sealing, r

(* The sender goes on with the handshake, or says its last word.           *)
LEMMA OrderAfterAnswer ==
    ASSUME NEW s, NEW c, NEW d, NEW d2, NEW S, NEW q \in Seq(S), InOrder(s, c, d, q), NEW out,
           d.open, ~Begun(d), ~d2.encryptionActive,
           \/ /\ d2.deriving = <<>> /\ ~Begun(c)
              /\ \E p : out = <<p>> /\ IsStep(p) /\ p.method # "Established"
           \/ d2.deriving # <<>> /\ ~Begun(c) /\ q = <<>> /\ out = <<LastWord>>
           \/ d2.deriving # <<>> /\ Begun(c) /\ out = <<>>
    PROVE  InOrder(s, c, d2, q \o out)
<1>1. Greeting(c, q) /\ (c.authenticated => c.encryptionActive)
  BY DEF InOrder
<1>2. ASSUME d2.deriving = <<>>, ~Begun(c), NEW p, out = <<p>>, IsStep(p), p.method # "Established"
      PROVE  InOrder(s, c, d2, q \o out)
  <2>1. q \in Seq(S \cup {p}) /\ <<p>> \in Seq(S \cup {p})
    OBVIOUS
  <2>2. \A k \in DOMAIN (q \o out) :
          (k \in DOMAIN q /\ (q \o out)[k] = q[k]) \/ (q \o out)[k] = p
    BY <1>2, <2>1
  <2>3. Greeting(c, q \o out)
    BY <1>1, <1>2, <2>2 DEF Greeting
  <2> QED BY <1>1, <1>2, <2>3 DEF InOrder
<1>3. CASE d2.deriving # <<>> /\ ~Begun(c) /\ q = <<>> /\ out = <<LastWord>>
  <2>1. q \o out = <<LastWord>>
    BY <1>3
  <2>2. Handing(c, q \o out) /\ Begun(d2)
    BY <1>1, <1>3, <2>1 DEF Greeting, Handing, Begun
  <2> QED BY <1>1, <2>2 DEF InOrder
<1>4. CASE d2.deriving # <<>> /\ Begun(c) /\ out = <<>>
  <2>1. q \o out = <<>>
    BY <1>1, <1>4 DEF Greeting
  <2>2. Handing(c, q \o out) /\ Begun(d2)
    BY <1>1, <1>4, <2>1 DEF Greeting, Handing, Begun
  <2> QED BY <1>1, <2>2 DEF InOrder
<1> QED BY <1>2, <1>3, <1>4

(* The sender's keys are derived: its records are numbered from the start. *)
LEMMA OrderAfterDeriving ==
    ASSUME NEW s, NEW c, NEW d, NEW d2, NEW q, InOrder(s, c, d, q), d.deriving # <<>>,
           d2.deriving = <<>>, d2.encryptionActive, d2.sendSequence = 0
    PROVE  InOrder(s, c, d2, q)
<1>1. Handing(c, q) /\ (c.authenticated => c.encryptionActive)
  BY DEF InOrder
<1>2. Begun(d2)
  BY DEF Begun
<1>3. Sealing(s, c, d2, q)
  <2>1. CASE Begun(c)
    BY <1>1, <2>1 DEF Handing, Sealing, Lead
  <2>2. CASE ~Begun(c)
    <3>1. q = <<LastWord>> /\ c.receiveSequence = 0 /\ Lead(c) = 1
      BY <1>1, <2>2 DEF Handing, Lead
    <3>2. Len(q) = 1 /\ DOMAIN q = {1} /\ q[1] = LastWord
      BY <3>1
    <3> QED BY <3>1, <3>2, LastWordIs DEF Sealing
  <2> QED BY <2>1, <2>2
<1> QED BY <1>1, <1>2, <1>3 DEF InOrder

(* Nothing else of either side matters to the order.                       *)
LEMMA OrderKept ==
    ASSUME NEW s, NEW c, NEW d, NEW c2, NEW d2, NEW q, InOrder(s, c, d, q),
           c2.authenticated => c2.encryptionActive, Begun(c2) <=> Begun(c),
           c2.receiveSequence = c.receiveSequence,
           d2.encryptionActive = d.encryptionActive, d2.deriving = d.deriving,
           d2.cipher = d.cipher, d2.open = d.open, d2.sendSequence = d.sendSequence
    PROVE  InOrder(s, c2, d2, q)
<1>1. Lead(c2) = Lead(c) /\ (Begun(d2) <=> Begun(d)) /\ SendKey(Peer(s), d2) = SendKey(Peer(s), d)
  BY DEF Lead, Begun, SendKey
<1>2. d2.encryptionActive => Sealing(s, c2, d2, q)
  BY <1>1 DEF InOrder, Sealing
<1>3. d2.deriving # <<>> => Handing(c2, q)
  BY <1>1 DEF InOrder, Handing
<1>4. d2.open /\ ~Begun(d2) => Greeting(c2, q)
  BY <1>1 DEF InOrder, Greeting
<1> QED BY <1>2, <1>3, <1>4 DEF InOrder

-----------------------------------------------------------------------------
(***************************************************************************)
(* The inductive invariant of the records, and the steps that only send,   *)
(* or close.                                                               *)
(***************************************************************************)

(* A connection in the clear has counted no record, a closed one derives   *)
(* nothing, and only the mode with a session key has ciphers.              *)
Counted(c) ==
    /\ c.sendSequence \in Nat /\ c.receiveSequence \in Nat
    /\ ~c.encryptionActive => c.sendSequence = 0 /\ c.receiveSequence = 0
    /\ ~c.open => c.deriving = <<>>
    /\ c.cipher # Nil => E = "SessionKey"
(* A session that was set to encrypt, and in which both sides are new to   *)
(* encryption and have misread nothing.                                    *)
Encrypting == session > 0 /\ ~Stale /\ misread = "no" /\ E # "None"
Ordered(s) == InOrder(s, conn[s], conn[Peer(s)], wire[s])
RecordInv ==
    /\ \A s \in Side : Counted(conn[s])
    /\ conn["responder"].cipher # Nil => conn["responder"].cipherSession = session
    /\ RecordsAreRead
    /\ Encrypting => \A s \in Side : conn[s].open => Ordered(s)

(* What a step of one side has to leave for the invariant to hold.         *)
LEMMA RecordsAfter ==
    ASSUME Types, RecordInv, NEW s \in Side, NEW d, NEW out, DOMAIN d = Fields,
           \E S : out \in Seq(S), Delivered(s, d, out), UNCHANGED <<setup, session>>,
           misread' \in {"no", "stale"}, misread # "no" => misread' # "no",
           Counted(d), s = "responder" /\ d.cipher # Nil => d.cipherSession = session,
           Stale => Stale',
           (Encrypting /\ misread' = "no") =>
             /\ d.open => InOrder(s, d, conn[Peer(s)], wire'[s])
             /\ conn[Peer(s)].open => InOrder(Peer(s), conn[Peer(s)], d, wire[Peer(s)] \o out)
    PROVE  RecordInv'
<1>0. Peer(s) \in Side /\ Peer(s) # s /\ Peer(Peer(s)) = s /\ \A t \in Side : t = s \/ t = Peer(s)
  BY SidesAre
<1>1. /\ conn'[s] = d /\ conn'[Peer(s)] = conn[Peer(s)]
      /\ wire'[Peer(s)] = wire[Peer(s)] \o out
  <2>1. misread' \in {"no", "stale", "early"}
    OBVIOUS
  <2> QED BY <2>1, DeliveredIs
<1>2. E' = E /\ \A t : Peer(t)' = Peer(t)
  BY DEF E, Peer
<1>3. ASSUME NEW t \in Side PROVE Counted(conn[t])'
  <2>1. CASE t = s
    BY <1>1, <1>2, <2>1 DEF Counted
  <2>2. CASE t = Peer(s)
    <3>1. Counted(conn[t])
      BY DEF RecordInv
    <3> QED BY <1>1, <1>2, <2>2, <3>1 DEF Counted
  <2> QED BY <1>0, <2>1, <2>2
<1>4. conn'["responder"].cipher # Nil => conn'["responder"].cipherSession = session'
  <2>1. CASE s = "responder"
    BY <1>1, <2>1
  <2>2. CASE Peer(s) = "responder"
    BY <1>1, <2>2 DEF RecordInv
  <2> QED BY <1>0, <2>1, <2>2, SidesAre
<1>5. RecordsAreRead'
  BY DEF RecordsAreRead
<1>6. ASSUME Encrypting', NEW t \in Side, conn'[t].open
      PROVE  Ordered(t)'
  <2>1. Encrypting /\ misread' = "no"
    BY <1>2, <1>6 DEF Encrypting
  <2>2. CASE t = s
    <3>1. InOrder(s, d, conn[Peer(s)], wire'[s])
      BY <1>1, <1>6, <2>1, <2>2
    <3> QED BY <1>1, <1>2, <2>2, <3>1 DEF Ordered
  <2>3. CASE t = Peer(s)
    <3>1. InOrder(Peer(s), conn[Peer(s)], d, wire[Peer(s)] \o out)
      BY <1>1, <1>6, <2>1, <2>3
    <3> QED BY <1>0, <1>1, <1>2, <2>3, <3>1 DEF Ordered
  <2> QED BY <1>0, <2>2, <2>3
<1> QED BY <1>3, <1>4, <1>5, <1>6 DEF RecordInv

(* Closing a side keeps the records in order.                              *)
LEMMA ClosingRecords ==
    ASSUME Types, RecordInv, NEW s \in Side, NEW d, NEW out,
           \E S : out \in Seq(S), Delivered(s, d, out), UNCHANGED <<setup, session>>,
           misread' \in {"no", "stale"}, misread # "no" => misread' # "no",
           Shut(conn[s], d), d.deriving = <<>>, Counts(conn[s], d),
           conn[s].encryptionActive => out = <<>> \/ out = <<Fin>>
    PROVE  RecordInv'
<1>0. Peer(s) \in Side /\ Peer(s) # s /\ Peer(Peer(s)) = s
  BY SidesAre
<1>1. /\ DOMAIN d = Fields /\ ~d.open /\ d.cipher = conn[s].cipher
      /\ d.cipherSession = conn[s].cipherSession /\ d.encryptionActive = conn[s].encryptionActive
      /\ d.sendSequence = conn[s].sendSequence /\ d.receiveSequence = conn[s].receiveSequence
  BY DEF Shut, Counts
<1>2. Counted(d)
  <2>1. Counted(conn[s])
    BY DEF RecordInv
  <2> QED BY <1>1, <2>1 DEF Counted
<1>3. s = "responder" /\ d.cipher # Nil => d.cipherSession = session
  BY <1>1 DEF RecordInv
<1>4. Stale => Stale'
  <2>1. conn'[s] = d /\ conn'[Peer(s)] = conn[Peer(s)]
    <3>1. misread' \in {"no", "stale", "early"}
      OBVIOUS
    <3> QED BY <1>1, <3>1, DeliveredIs
  <2>2. "initiator" = s \/ "initiator" = Peer(s)
    BY SidesAre
  <2> QED BY <1>1, <2>1, <2>2 DEF Stale
<1>5. (Encrypting /\ conn[Peer(s)].open) => InOrder(Peer(s), conn[Peer(s)], d, wire[Peer(s)] \o out)
  <2> SUFFICES ASSUME Encrypting, conn[Peer(s)].open
               PROVE  InOrder(Peer(s), conn[Peer(s)], d, wire[Peer(s)] \o out)
    OBVIOUS
  <2>1. InOrder(Peer(s), conn[Peer(s)], conn[s], wire[Peer(s)])
    BY <1>0 DEF RecordInv, Ordered
  <2>2. PICK S : wire[Peer(s)] \in Seq(S)
    BY <1>0 DEF Types
  <2>3. conn[Peer(s)].receiveSequence \in Nat
    BY <1>0 DEF RecordInv, Counted
  <2> QED BY <1>1, <2>1, <2>2, <2>3, OrderAfterClosing
<1> QED BY <1>1, <1>2, <1>3, <1>4, <1>5, RecordsAfter

(* Closing without a word sends the end of the stream.                     *)
LEMMA CloseAlone ==
    \A c : LET t == Close(Step(c, <<>>)) IN t.c = Closed(c) /\ t.out = <<Fin>>
<1>1. <<>> \o <<Fin>> = <<Fin>>
  OBVIOUS
<1> QED BY <1>1 DEF Close, Step

(* The timeout of the authentication keeps the records in order.           *)
LEMMA TimeoutRecords ==
    ASSUME Types, IInv, RecordInv, NEW s \in Side, Timeout(s)
    PROVE  RecordInv'
<1> DEFINE t == FailAuthentication(s, conn[s], TRUE)
<1>1. /\ conn[s].deriving = <<>>
      /\ conn' = [conn EXCEPT ![s] = t.c]
      /\ wire' = [wire EXCEPT ![Peer(s)] = @ \o t.out]
      /\ UNCHANGED <<setup, session, misread>>
  BY DEF Timeout, Free, Idle
<1>2. t = Close(Step(conn[s], <<>>)) /\ DOMAIN conn[s] = Fields
  BY DEF FailAuthentication, Types
<1>3. t.c = Closed(conn[s]) /\ t.out = <<Fin>>
  BY <1>2, CloseAlone
<1>4. Shut(conn[s], t.c) /\ Counts(conn[s], t.c)
  BY <1>2, <1>3, ClosedShuts, HelpersCount
<1> HIDE DEF t
<1>5. Delivered(s, t.c, t.out) /\ t.c.deriving = <<>> /\ t.out \in Seq({Fin})
  BY <1>1, <1>3, <1>4 DEF Delivered, Shut
<1>6. misread' \in {"no", "stale"} /\ (misread # "no" => misread' # "no")
  BY <1>1 DEF Types, RecordInv, RecordsAreRead
<1> QED BY <1>1, <1>3, <1>4, <1>5, <1>6, ClosingRecords

(* Closing a connection keeps the records in order.                        *)
LEMMA CloseConnectionRecords ==
    ASSUME Types, IInv, RecordInv, NEW s \in Side, CloseConnection(s)
    PROVE  RecordInv'
<1> DEFINE t == Close(Step(conn[s], <<>>))
<1>1. /\ conn[s].deriving = <<>>
      /\ conn' = [conn EXCEPT ![s] = t.c]
      /\ wire' = [wire EXCEPT ![Peer(s)] = @ \o t.out]
      /\ UNCHANGED <<setup, session, misread>>
  BY DEF CloseConnection, Free, Idle
<1>2. DOMAIN conn[s] = Fields
  BY DEF Types
<1>3. t.c = Closed(conn[s]) /\ t.out = <<Fin>>
  BY CloseAlone
<1>4. Shut(conn[s], t.c) /\ Counts(conn[s], t.c)
  BY <1>2, <1>3, ClosedShuts, HelpersCount
<1> HIDE DEF t
<1>5. Delivered(s, t.c, t.out) /\ t.c.deriving = <<>> /\ t.out \in Seq({Fin})
  BY <1>1, <1>3, <1>4 DEF Delivered, Shut
<1>6. misread' \in {"no", "stale"} /\ (misread # "no" => misread' # "no")
  BY <1>1 DEF Types, RecordInv, RecordsAreRead
<1> QED BY <1>1, <1>3, <1>4, <1>5, <1>6, ClosingRecords

(* A request goes out as the next record.                                  *)
LEMMA RequestRecords ==
    ASSUME Types, IInv, RecordInv, NEW s \in Side, Request(s)
    PROVE  RecordInv'
<1> DEFINE c == [conn[s] EXCEPT !.sent = @ + 1]
           p == Plain("request", c.sent)
           t == Send(s, c, p)
           q == Sealed(s, c, p)
<1>0. DOMAIN conn[s] = Fields /\ Peer(s) \in Side /\ Peer(s) # s /\ Peer(Peer(s)) = s
  BY SidesAre DEF Types
<1>1. /\ conn[s].open /\ conn[s].authenticated /\ conn[s].deriving = <<>>
      /\ conn' = [conn EXCEPT ![s] = t.c]
      /\ wire' = [wire EXCEPT ![Peer(s)] = @ \o t.out]
      /\ UNCHANGED <<setup, session, misread>>
  BY DEF Request, Free, Idle
<1>2. /\ DOMAIN c = Fields /\ c.open = conn[s].open /\ c.authenticated = conn[s].authenticated
      /\ c.deriving = conn[s].deriving /\ c.cipher = conn[s].cipher
      /\ c.cipherSession = conn[s].cipherSession /\ c.encryptionActive = conn[s].encryptionActive
      /\ c.sendSequence = conn[s].sendSequence /\ c.receiveSequence = conn[s].receiveSequence
  BY <1>0 DEF Fields
<1>3. p.method = "request" /\ p.seal = Nil
  BY DEF Plain, Packet
<1>4. c.encryptionActive <=> c.cipher # Nil
  BY <1>2 DEF IInv, Always
<1>5. t.out = <<q>>
  BY DEF Send, Step
<1>6. /\ DOMAIN t.c = Fields /\ t.c.open = c.open /\ t.c.authenticated = c.authenticated
      /\ t.c.deriving = c.deriving /\ t.c.cipher = c.cipher
      /\ t.c.cipherSession = c.cipherSession /\ t.c.encryptionActive = c.encryptionActive
      /\ t.c.receiveSequence = c.receiveSequence
      /\ t.c.sendSequence = IF c.encryptionActive THEN c.sendSequence + 1 ELSE c.sendSequence
  <2> HIDE DEF c, p
  <2> QED BY <1>2, <1>4 DEF Send, Step, Fields
<1>7. c.encryptionActive => /\ q.seal = SendKey(s, conn[s]) /\ q.sequence = c.sendSequence
                            /\ q.method = "request"
  <2>1. SendKey(s, c) = SendKey(s, conn[s])
    BY <1>2 DEF SendKey
  <2> HIDE DEF c
  <2> QED BY <1>4, <2>1 DEF Sealed, Plain, Packet
<1> HIDE DEF c, p, t, q
<1>8. t.out \in Seq({q}) /\ Delivered(s, t.c, t.out) /\ wire'[s] = wire[s]
  <2>1. wire = [u \in Side |-> wire[u]]
    BY DEF Types
  <2>2. wire'[s] = wire[s]
    BY <1>0, <1>1, <2>1
  <2> QED BY <1>1, <1>5, <2>2 DEF Delivered
<1>9. misread' \in {"no", "stale"} /\ (misread # "no" => misread' # "no")
  BY <1>1 DEF Types, RecordInv, RecordsAreRead
<1>10. Counted(t.c)
  <2>1. Counted(conn[s])
    BY DEF RecordInv
  <2> QED BY <1>2, <1>6, <2>1 DEF Counted
<1>11. s = "responder" /\ t.c.cipher # Nil => t.c.cipherSession = session
  BY <1>2, <1>6 DEF RecordInv
<1>12. Stale => Stale'
  <2>1. conn'[s] = t.c /\ conn'[Peer(s)] = conn[Peer(s)]
    BY <1>0, <1>1 DEF Types
  <2>2. /\ conn'[s].encryptionActive = conn[s].encryptionActive
        /\ conn'[s].cipherSession = conn[s].cipherSession
    BY <1>2, <1>6, <2>1
  <2>3. "initiator" = s \/ "initiator" = Peer(s)
    BY SidesAre
  <2>4. /\ conn'["initiator"].encryptionActive = conn["initiator"].encryptionActive
        /\ conn'["initiator"].cipherSession = conn["initiator"].cipherSession
    BY <2>1, <2>2, <2>3
  <2> QED BY <1>1, <2>4 DEF Stale
<1>13. ASSUME Encrypting
       PROVE  /\ InOrder(s, t.c, conn[Peer(s)], wire'[s])
              /\ conn[Peer(s)].open => InOrder(Peer(s), conn[Peer(s)], t.c, wire[Peer(s)] \o t.out)
  <2>1. InOrder(s, conn[s], conn[Peer(s)], wire[s])
    BY <1>0, <1>1, <1>13 DEF RecordInv, Ordered
  <2>2. conn[s].encryptionActive
    BY <1>1, <2>1 DEF InOrder
  <2>3. InOrder(s, t.c, conn[Peer(s)], wire'[s])
    <3>1. Begun(t.c) <=> Begun(conn[s])
      BY <1>2, <1>6 DEF Begun
    <3> QED BY <1>2, <1>6, <1>8, <2>1, <2>2, <3>1, OrderKept
  <2>4. ASSUME conn[Peer(s)].open
        PROVE  InOrder(Peer(s), conn[Peer(s)], t.c, wire[Peer(s)] \o t.out)
    <3>1. InOrder(Peer(s), conn[Peer(s)], conn[s], wire[Peer(s)])
      BY <1>0, <1>13, <2>4 DEF RecordInv, Ordered
    <3>2. PICK S : wire[Peer(s)] \in Seq(S)
      BY <1>0 DEF Types
    <3>3. conn[Peer(s)].receiveSequence \in Nat /\ conn[s].sendSequence \in Nat
      BY <1>0 DEF RecordInv, Counted
    <3>4. q.seal = SendKey(Peer(Peer(s)), conn[s]) /\ q.sequence = conn[s].sendSequence /\ q.method # "fin"
      BY <1>0, <1>2, <1>7, <2>2
    <3>5. /\ conn[s].encryptionActive /\ conn[s].open /\ t.c.encryptionActive
          /\ t.c.deriving = <<>> /\ t.c.cipher = conn[s].cipher
          /\ t.c.sendSequence = conn[s].sendSequence + 1
      BY <1>1, <1>2, <1>6, <2>2
    <3>6. wire[Peer(s)] \in Seq(S)
      BY <3>2
    <3>7. InOrder(Peer(s), conn[Peer(s)], t.c, wire[Peer(s)] \o <<q>>)
      BY <3>1, <3>3, <3>4, <3>5, <3>6, OrderAfterSealing
    <3> QED BY <1>5, <3>7
  <2> QED BY <2>3, <2>4
<1> QED BY <1>1, <1>6, <1>8, <1>9, <1>10, <1>11, <1>12, <1>13, RecordsAfter

(* declare() counts the record it may send.                                *)
LEMMA DeclareCounts ==
    ASSUME NEW c, DOMAIN c = Fields
    PROVE  LET t == Declare(c) IN
           /\ t.c.receiveSequence = c.receiveSequence
           /\ \/ t.c.sendSequence = c.sendSequence
              \/ c.encryptionActive /\ t.c.sendSequence = c.sendSequence + 1
<1> DEFINE s == "initiator"
           t == Declare(c)
           Next1(d) == /\ d.receiveSequence = c.receiveSequence
                       /\ \/ d.sendSequence = c.sendSequence
                          \/ c.encryptionActive /\ d.sendSequence = c.sendSequence + 1
<1>1. ASSUME NEW d, Counts(c, d), NEW p
      PROVE  Next1(Send(s, d, p).c) /\ DOMAIN Send(s, d, p).c = Fields
  <2>1. CASE d.encryptionActive /\ d.cipher # Nil
    <3>1. Send(s, d, p).c = [d EXCEPT !.sendSequence = @ + 1]
      BY <2>1 DEF Send, Step
    <3> QED BY <1>1, <2>1, <3>1 DEF Counts, Fields
  <2>2. CASE ~(d.encryptionActive /\ d.cipher # Nil)
    <3>1. Send(s, d, p).c = d
      BY <2>2 DEF Send, Step
    <3> QED BY <1>1, <3>1 DEF Counts
  <2> QED BY <2>1, <2>2
<1>2. \E d, p : Counts(c, d) /\ (t = Close(Send(s, d, p)) \/ t = Send(s, d, p))
  <2>1. Counts(c, c)
    BY HelpersCount
  <2>2. \A h, g : Counts(c, [c EXCEPT !.localHeaders = h, !.handler = g])
    BY DEF Counts, Fields
  <2>3. \/ t = FailAuthentication(s, c, FALSE)
        \/ \E h, g, p : t = Send(s, [c EXCEPT !.localHeaders = h, !.handler = g], p)
    BY DEF Declare
  <2>4. FailAuthentication(s, c, FALSE) = Close(Send(s, c, Plain("ErrorTerminate", Nil)))
    BY DEF FailAuthentication
  <2> HIDE DEF t
  <2> QED BY <2>1, <2>2, <2>3, <2>4
<1>3. PICK d, p : Counts(c, d) /\ (t = Close(Send(s, d, p)) \/ t = Send(s, d, p))
  BY <1>2
<1>4. PICK x : x = Send(s, d, p)
  OBVIOUS
<1>5. Next1(x.c) /\ DOMAIN x.c = Fields
  BY <1>1, <1>3, <1>4
<1>6. Close(x).c = Closed(x.c) /\ Counts(x.c, Closed(x.c))
  BY <1>5, HelpersCount DEF Close, Step
<1> HIDE DEF t
<1>7. Next1(t.c)
  BY <1>3, <1>4, <1>5, <1>6 DEF Counts
<1> QED BY <1>7 DEF t

(* Losing the socket keeps the records in order: both sides are closed.    *)
LEMMA DropRecords ==
    ASSUME Types, IInv, RecordInv, Drop
    PROVE  RecordInv'
<1>1. /\ conn' = [s \in Side |-> IF conn[s].open THEN Closed(conn[s]) ELSE conn[s]]
      /\ UNCHANGED <<setup, session, misread>> /\ \A s \in Side : conn[s].deriving = <<>>
  BY DEF Drop, Idle
<1>2. E' = E
  BY <1>1 DEF E
<1>3. ASSUME NEW s \in Side
      PROVE  /\ ~conn'[s].open /\ Counted(conn'[s])
             /\ conn'[s].cipher = conn[s].cipher /\ conn'[s].cipherSession = conn[s].cipherSession
             /\ conn'[s].deriving = <<>>
  <2>1. DOMAIN conn[s] = Fields /\ Counted(conn[s]) /\ conn[s].deriving = <<>>
    BY <1>1 DEF Types, RecordInv
  <2>2. conn'[s] = IF conn[s].open THEN Closed(conn[s]) ELSE conn[s]
    BY <1>1
  <2>3. Shut(conn[s], Closed(conn[s])) /\ Counts(conn[s], Closed(conn[s]))
    BY <2>1, ClosedShuts, HelpersCount
  <2>4. CASE conn[s].open
    <3>1. /\ ~conn'[s].open /\ conn'[s].cipher = conn[s].cipher
          /\ conn'[s].cipherSession = conn[s].cipherSession
          /\ conn'[s].deriving \in {conn[s].deriving, <<>>}
          /\ conn'[s].encryptionActive = conn[s].encryptionActive
          /\ conn'[s].sendSequence = conn[s].sendSequence
          /\ conn'[s].receiveSequence = conn[s].receiveSequence
      BY <2>2, <2>3, <2>4 DEF Shut, Counts
    <3> QED BY <2>1, <3>1 DEF Counted
  <2>5. CASE ~conn[s].open
    <3>1. conn'[s] = conn[s]
      BY <2>2, <2>5
    <3> QED BY <2>1, <2>5, <3>1
  <2> QED BY <2>4, <2>5
<1>4. \A s \in Side : Counted(conn[s])'
  BY <1>2, <1>3 DEF Counted
<1>5. conn'["responder"].cipher # Nil => conn'["responder"].cipherSession = session'
  BY <1>1, <1>3, SidesAre DEF RecordInv
<1>6. RecordsAreRead'
  BY <1>1 DEF RecordInv, RecordsAreRead
<1> QED BY <1>3, <1>4, <1>5, <1>6 DEF RecordInv

(* Deriving the keys keeps the records in order: the first record of this  *)
(* side comes behind its last word, and is numbered zero.                  *)
LEMMA DeriveRecords ==
    ASSUME Types, IInv, RecordInv, NEW s \in Side, Derive(s)
    PROVE  RecordInv'
<1> DEFINE c == conn[s]
           d0 == [c EXCEPT !.deriving = Tail(@)]
           t == FailAuthentication(s, d0, FALSE)
           e == [d0 EXCEPT !.cipher = NewCipher(Head(c.deriving)), !.encryptionActive = TRUE,
                           !.cipherSession = session]
           d == FinishAuthenticationReady(e)
<1>0. /\ Peer(s) \in Side /\ Peer(s) # s /\ Peer(Peer(s)) = s
      /\ DOMAIN c = Fields /\ Counted(c)
  BY SidesAre DEF Types, RecordInv
<1>1. c.deriving # <<>> /\ UNCHANGED <<setup, session, misread>>
  BY DEF Derive
<1>2. /\ session > 0 /\ ~Stale /\ c.cipher = Nil /\ ~c.encryptionActive /\ c.open
      /\ \E me : c.deriving = <<Context(me)>>
  BY <1>0, <1>1, DerivingIs DEF Counted
<1>3. Tail(c.deriving) = <<>> /\ Head(c.deriving).mode = E
  <2>1. PICK me : c.deriving = <<Context(me)>>
    BY <1>2
  <2>2. Head(c.deriving) = Context(me) /\ Tail(c.deriving) = <<>>
    BY <2>1
  <2> QED BY <2>2 DEF Context
<1>4. misread' \in {"no", "stale"} /\ (misread # "no" => misread' # "no")
  BY <1>1 DEF Types, RecordInv, RecordsAreRead
<1>5. /\ DOMAIN d0 = Fields /\ d0.deriving = <<>> /\ d0.cipher = c.cipher /\ d0.open = c.open
      /\ d0.localIdentity = c.localIdentity /\ d0.sessionKey = c.sessionKey
      /\ d0.cipherSession = c.cipherSession /\ d0.encryptionActive = c.encryptionActive
      /\ Counts(c, d0)
  BY <1>0, <1>3 DEF Fields, Counts
<1>6. CASE ~ValidContext(Head(c.deriving))
  <2>1. /\ conn' = [conn EXCEPT ![s] = t.c]
        /\ wire' = [wire EXCEPT ![Peer(s)] = @ \o t.out]
    BY <1>2, <1>6 DEF Derive
  <2>2. Delivered(s, t.c, t.out)
    BY <2>1 DEF Delivered
  <2> HIDE DEF c, d0
  <2>3. Shut(d0, t.c) /\ Incidental(d0, t.out) /\ Counts(d0, t.c)
    BY <1>2, <1>5, FailShuts, RefusalsCount
  <2> HIDE DEF t
  <2>4. Shut(c, t.c) /\ Counts(c, t.c) /\ t.c.deriving = <<>>
    BY <1>5, <2>3, CountsCompose DEF Shut
  <2>5. \E S : t.out \in Seq(S)
    BY <2>3 DEF Incidental
  <2> QED BY <1>1, <1>2, <1>4, <2>2, <2>4, <2>5, ClosingRecords DEF c
<1>7. CASE ValidContext(Head(c.deriving))
  <2>1. conn' = [conn EXCEPT ![s] = d] /\ wire' = wire
    BY <1>2, <1>7 DEF Derive
  <2>2. /\ DOMAIN e = Fields /\ e.open = c.open /\ e.deriving = <<>>
        /\ e.cipher = NewCipher(Head(c.deriving)) /\ e.cipherSession = session
        /\ e.encryptionActive = TRUE
        /\ e.sendSequence = c.sendSequence /\ e.receiveSequence = c.receiveSequence
    BY <1>5 DEF Fields, Counts
  <2>3. E = "SessionKey"
    BY <1>3, <1>7 DEF ValidContext
  <2> HIDE DEF e
  <2>4. /\ DOMAIN d = Fields /\ d.open = c.open /\ d.deriving = <<>>
        /\ d.cipherSession = session /\ d.encryptionActive = TRUE
        /\ d.sendSequence = c.sendSequence /\ d.receiveSequence = c.receiveSequence
    <3>1. Counts(e, d)
      BY <2>2, HelpersCount
    <3> QED BY <2>2, <3>1, FinishIs DEF Counts
  <2> HIDE DEF d
  <2>5. /\ conn'[s] = d /\ conn'[Peer(s)] = conn[Peer(s)]
        /\ wire' = [wire EXCEPT ![Peer(s)] = @ \o <<>>]
    <3>1. PICK S : wire[Peer(s)] \in Seq(S)
      BY <1>0 DEF Types
    <3>2. wire[Peer(s)] \o <<>> = wire[Peer(s)]
      BY <3>1
    <3>3. wire = [u \in Side |-> wire[u]] /\ conn = [u \in Side |-> conn[u]]
      BY DEF Types
    <3> QED BY <1>0, <2>1, <3>2, <3>3
  <2>6. Delivered(s, d, <<>>)
    BY <2>1, <2>5 DEF Delivered
  <2>e. <<>> \in Seq({})
    OBVIOUS
  <2>7. Counted(d)
    BY <1>0, <1>2, <2>3, <2>4 DEF Counted
  <2>8. ASSUME Encrypting
        PROVE  /\ InOrder(s, d, conn[Peer(s)], wire'[s])
               /\ conn[Peer(s)].open => InOrder(Peer(s), conn[Peer(s)], d, wire[Peer(s)] \o <<>>)
    <3>1. InOrder(s, d, conn[Peer(s)], wire'[s])
      <4>1. InOrder(s, c, conn[Peer(s)], wire[s])
        BY <1>0, <1>2, <2>8 DEF RecordInv, Ordered
      <4>2. Begun(c) /\ Begun(d)
        BY <1>1, <2>4 DEF Begun
      <4> HIDE DEF c
      <4> QED BY <2>1, <2>4, <4>1, <4>2, OrderKept
    <3>2. ASSUME conn[Peer(s)].open
          PROVE  InOrder(Peer(s), conn[Peer(s)], d, wire[Peer(s)])
      <4>1. InOrder(Peer(s), conn[Peer(s)], c, wire[Peer(s)])
        BY <1>0, <2>8, <3>2 DEF RecordInv, Ordered
      <4>2. d.sendSequence = 0
        BY <1>0, <1>2, <2>4 DEF Counted
      <4> HIDE DEF c
      <4> QED BY <1>1, <2>4, <4>1, <4>2, OrderAfterDeriving
    <3>3. PICK S : wire[Peer(s)] \in Seq(S)
      BY <1>0 DEF Types
    <3>4. wire[Peer(s)] \o <<>> = wire[Peer(s)]
      BY <3>3
    <3> QED BY <3>1, <3>2, <3>4
  <2> HIDE DEF c
  <2> QED BY <1>1, <1>2, <1>4, <2>4, <2>6, <2>e, <2>7, <2>8, RecordsAfter
<1> QED BY <1>6, <1>7

(* A session begins in the clear, with no record counted, unless the       *)
(* initiator still has the cipher of an earlier one.                       *)
LEMMA ConnectRecords ==
    ASSUME Types, IInv, RecordInv, Connect
    PROVE  RecordInv'
<1>1. PICK c : c = conn["initiator"]
  OBVIOUS
<1>2. PICK a : a = StartInitiatorHandshake(c)
  OBVIOUS
<1>3. PICK t : t = Declare(a)
  OBVIOUS
<1>4. PICK r : r = StartResponderHandshake
  OBVIOUS
<1>5. /\ conn' = [initiator |-> t.c, responder |-> r]
      /\ wire' = [initiator |-> <<>>, responder |-> t.out]
      /\ session' = session + 1 /\ UNCHANGED <<setup, misread>>
      /\ c.deriving = <<>>
  BY <1>1, <1>2, <1>3, <1>4 DEF Connect, Free, Idle
<1>6. /\ DOMAIN c = Fields /\ Counted(c)
      /\ c.encryptionActive <=> c.cipher # Nil
      /\ c.cipherSession \in 0 .. session /\ session \in Nat
  BY <1>1, SidesAre DEF Types, IInv, Always, RecordInv
<1>7. /\ DOMAIN a = Fields /\ ~a.authenticated /\ a.authSessionEstablished = FALSE
      /\ a.authMode = M /\ a.encMode = E /\ a.deriving = <<>> /\ a.cipher = c.cipher
      /\ a.cipherSession = c.cipherSession /\ a.encryptionActive = c.encryptionActive
      /\ a.sendSequence = c.sendSequence /\ a.receiveSequence = c.receiveSequence
  <2>1. a.sendSequence = c.sendSequence /\ a.receiveSequence = c.receiveSequence
    BY <1>2, <1>6 DEF StartInitiatorHandshake, Fields
  <2> QED BY <1>2, <1>5, <1>6, <2>1, StartedIs
<1>8. /\ r.open /\ ~r.authenticated /\ r.deriving = <<>> /\ r.cipher = Nil
      /\ r.encryptionActive = FALSE /\ r.sendSequence = 0 /\ r.receiveSequence = 0
  BY <1>4 DEF StartResponderHandshake, NewConnection
<1>9. Closing(a, t) \/ Declares(a.localIdentity, a, t)
  <2>1. /\ DOMAIN a = Fields /\ ~a.authenticated /\ a.authSessionEstablished = FALSE
        /\ a.authMode = M /\ a.encMode = E /\ UNCHANGED setup
        /\ a.encryptionActive <=> a.cipher # Nil
    BY <1>5, <1>6, <1>7
  <2> QED BY <1>3, <2>1, DeclareIs
<1>10. /\ t.c.deriving = <<>> /\ t.c.cipher = c.cipher
       /\ t.c.cipherSession = c.cipherSession /\ t.c.encryptionActive = c.encryptionActive
       /\ t.c.open => ~t.c.authenticated
  BY <1>7, <1>9 DEF Closing, Shut, Declares
<1>11. /\ t.c.sendSequence \in Nat /\ t.c.receiveSequence \in Nat
       /\ ~c.encryptionActive => t.c.sendSequence = 0 /\ t.c.receiveSequence = 0
  <2>1. a.sendSequence \in Nat /\ a.receiveSequence \in Nat
        /\ (~c.encryptionActive => a.sendSequence = 0 /\ a.receiveSequence = 0)
    BY <1>6, <1>7 DEF Counted
  <2>2. /\ t.c.receiveSequence = a.receiveSequence
        /\ \/ t.c.sendSequence = a.sendSequence
           \/ a.encryptionActive /\ t.c.sendSequence = a.sendSequence + 1
    BY <1>3, <1>7, DeclareCounts
  <2> QED BY <1>7, <2>1, <2>2
<1>12. /\ conn'["initiator"] = t.c /\ conn'["responder"] = r
       /\ wire'["initiator"] = <<>> /\ wire'["responder"] = t.out
  BY <1>5
<1>13. E' = E /\ \A s : Peer(s)' = Peer(s)
  BY <1>5 DEF E, Peer
<1>14. \A s \in Side : Counted(conn[s])'
  <2>1. 0 \in Nat
    OBVIOUS
  <2>2. Counted(conn["responder"])'
    BY <1>8, <1>12, <2>1 DEF Counted
  <2>3. Counted(conn["initiator"])'
    BY <1>6, <1>10, <1>11, <1>12, <1>13 DEF Counted
  <2> QED BY <2>2, <2>3, SidesAre
<1>15. RecordsAreRead'
  BY <1>5 DEF RecordInv, RecordsAreRead
<1>16. ASSUME Encrypting', NEW s \in Side, conn'[s].open
       PROVE  Ordered(s)'
  <2>1. ~c.encryptionActive
    <3>1. c.cipherSession # session'
      BY <1>5, <1>6
    <3> QED BY <1>10, <1>12, <1>16, <3>1 DEF Encrypting, Stale
  <2>2. DOMAIN <<>> = {}
    OBVIOUS
  <2>3. InOrder("initiator", t.c, r, <<>>) \/ ~t.c.open
    BY <1>8, <1>10, <1>11, <2>1, <2>2 DEF InOrder, Greeting
  <2>4. InOrder("responder", r, t.c, t.out)
    <3>1. t.c.open => \A k \in DOMAIN t.out : IsStep(t.out[k]) /\ t.out[k].method # "Established"
      <4> SUFFICES ASSUME t.c.open
                   PROVE  \A k \in DOMAIN t.out : IsStep(t.out[k]) /\ t.out[k].method # "Established"
        OBVIOUS
      <4>1. Declares(a.localIdentity, a, t)
        BY <1>9 DEF Closing, Shut
      <4>2. PICK q : /\ t.out = <<q>> /\ q.method = "Initialize"
                     /\ (q.seal # Nil <=> a.encryptionActive)
        BY <4>1 DEF Declares
      <4>3. IsStep(q) /\ q.method # "Established"
        BY <1>7, <2>1, <4>2 DEF IsStep, Steps
      <4> QED BY <4>2, <4>3
    <3>2. ~Begun(r)
      BY <1>8 DEF Begun
    <3>3. t.c.open => Greeting(r, t.out)
      BY <1>8, <3>1, <3>2 DEF Greeting
    <3> QED BY <1>8, <1>10, <2>1, <3>3 DEF InOrder
  <2>5. CASE s = "initiator"
    <3>1. InOrder("initiator", conn'["initiator"], conn'["responder"], wire'["initiator"])
      BY <1>12, <1>16, <2>3, <2>5
    <3> QED BY <1>13, <2>5, <3>1, SidesAre DEF Ordered
  <2>6. CASE s = "responder"
    <3>1. InOrder("responder", conn'["responder"], conn'["initiator"], wire'["responder"])
      BY <1>12, <2>4
    <3> QED BY <1>13, <2>6, <3>1, SidesAre DEF Ordered
  <2> QED BY <2>5, <2>6, SidesAre
<1>17. conn'["responder"].cipher # Nil => conn'["responder"].cipherSession = session'
  BY <1>8, <1>12
<1> QED BY <1>14, <1>15, <1>16, <1>17 DEF RecordInv

(* No record is counted before the first session.                          *)
LEMMA RecordsStart ==
    ASSUME Init
    PROVE  RecordInv
<1>1. /\ session = 0 /\ misread = "no"
      /\ conn = [s \in Side |-> IF s = "initiator" THEN [NewConnection EXCEPT !.localIdentity = Own(s)]
                                ELSE NewConnection]
  BY DEF Init
<1>2. ASSUME NEW s \in Side
      PROVE  /\ Counted(conn[s]) /\ conn[s].cipher = Nil
  <2>1. conn[s] = IF s = "initiator" THEN [NewConnection EXCEPT !.localIdentity = Own(s)]
                  ELSE NewConnection
    BY <1>1
  <2>2. /\ conn[s].sendSequence = 0 /\ conn[s].receiveSequence = 0 /\ conn[s].deriving = <<>>
        /\ conn[s].cipher = Nil
    BY <2>1 DEF NewConnection
  <2> QED BY <2>2 DEF Counted
<1>3. ~Encrypting
  BY <1>1 DEF Encrypting
<1>4. conn["responder"].cipher = Nil
  BY <1>2, SidesAre
<1> QED BY <1>1, <1>2, <1>3, <1>4 DEF RecordInv, RecordsAreRead

-----------------------------------------------------------------------------
(***************************************************************************)
(* How a turn of the handshake leaves the stream of its answers.           *)
(***************************************************************************)

(* A turn that does not close the side. When the session encrypts, the     *)
(* side goes on with a step, says its last word and derives, or has heard  *)
(* the last word and derives.                                              *)
GoesOn(c, p, t) ==
    /\ Bare(c, t.c) /\ \E S : t.out \in Seq(S)
    /\ E # "None" =>
         /\ ~t.c.authenticated
         /\ \/ /\ p.method # "Established" /\ t.c.deriving = <<>>
               /\ \E q : t.out = <<q>> /\ IsStep(q) /\ q.method # "Established"
            \/ p.method # "Established" /\ t.c.deriving # <<>> /\ t.out = <<LastWord>>
            \/ p.method = "Established" /\ t.c.deriving # <<>> /\ t.out = <<>>

(* A packet in the clear of the methods of a handshake is a step of it.    *)
LEMMA PacketIsStep ==
    \A m \in Steps : \A h, x : IsStep(Packet(m, h, x)) /\ Packet(m, h, x).method = m
BY DEF IsStep, Packet

(* What is appended to nothing is something.                               *)
LEMMA AppendedIsSome == \A x : Append(<<>>, x) # <<>>
OBVIOUS

(* What a turn sends is a sequence.                                        *)
LEMMA SentIsSequence == (\A x : \E S : <<x>> \in Seq(S)) /\ \E S : <<>> \in Seq(S)
<1>1. ASSUME NEW x PROVE \E S : <<x>> \in Seq(S)
  <2>1. <<x>> \in Seq({x})
    OBVIOUS
  <2> QED BY <2>1
<1>2. <<>> \in Seq({})
  OBVIOUS
<1> QED BY <1>1, <1>2

(* The responder's first turn goes on, or closes.                          *)
LEMMA InitializeGoesOn ==
    ASSUME NEW me \in Identities, NEW p, NEW t, Turn("responder", me, p, t),
           p.method = "Initialize"
    PROVE  Closing(conn["responder"], t) \/ GoesOn(conn["responder"], p, t)
<1> DEFINE s == "responder"
           c == conn[s]
<1>0. s \in Side /\ Peer(s) = "initiator"
  BY SidesAre
<1>1. DOMAIN c = Fields /\ ~c.authenticated /\ ~c.encryptionActive /\ setup \in Setup
  BY <1>0, TurnIs
<1>2. GoodForResponder(me, p)
  BY DEF Turn, Good
<1>3. /\ p.authMode = M /\ p.encMode = E /\ p.headers = HI
      /\ p.data = IF M = "None" THEN Nil ELSE A0(me).data
      /\ ~c.authSessionEstablished /\ c.deriving = <<>> /\ c.sessionKey = Nil
      /\ c.localHeaders = NoHeaders
  BY <1>2 DEF GoodForResponder
<1>4. t = HandleAuthPacket("responder", c, p)
  BY DEF Turn
<1>5. Closing(c, t) \/ Welcomes(c, t) \/ Challenges(me, c, t)
  <2> HIDE DEF c, s
  <2> QED BY <1>1, <1>3, <1>4, ResponderStarts
<1>6. Welcomes(c, t) => GoesOn(c, p, t)
  BY SentIsSequence DEF Welcomes, GoesOn
<1>7. ASSUME Challenges(me, c, t) PROVE GoesOn(c, p, t)
  <2>1. /\ Bare(c, t.c) /\ ~t.c.authenticated /\ t.c.deriving = <<>>
        /\ t.out = <<Packet("ProceedToHandshake", HR, B0(me).data)>>
    BY <1>7 DEF Challenges
  <2>2. "ProceedToHandshake" \in Steps
    BY DEF Steps
  <2>3. \E q : t.out = <<q>> /\ IsStep(q) /\ q.method # "Established"
    BY <2>1, <2>2, PacketIsStep
  <2> QED BY <2>1, <2>3, SentIsSequence DEF GoesOn
<1> QED BY <1>5, <1>6, <1>7

(* The initiator's answer to the challenge goes on, or closes.             *)
LEMMA ProceedGoesOn ==
    ASSUME NEW me \in Identities, NEW p, NEW t, Turn("initiator", me, p, t),
           p.method = "ProceedToHandshake"
    PROVE  Closing(conn["initiator"], t) \/ GoesOn(conn["initiator"], p, t)
<1> DEFINE s == "initiator"
           c == conn[s]
<1>0. s \in Side /\ Peer(s) = "responder"
  BY SidesAre
<1>1. DOMAIN c = Fields /\ ~c.authenticated /\ ~c.encryptionActive /\ setup \in Setup
  BY <1>0, TurnIs
<1>2. GoodForInitiator(me, p)
  BY DEF Turn, Good
<1>3. /\ Challenged(me) /\ p.data = B0(me).data /\ p.headers = HR
      /\ c.handler = A0(me).handler /\ c.deriving = <<>> /\ c.authMode = M
  BY <1>2 DEF GoodForInitiator, Waits
<1>4. t = HandleAuthPacket("initiator", c, p)
  BY DEF Turn
<1>5. M # "None"
  BY <1>3 DEF Challenged
<1>6. Closing(c, t) \/ Answers(me, c, t)
  <2> HIDE DEF c, s
  <2> QED BY <1>1, <1>3, <1>4, <1>5, InitiatorContinues
<1>7. ASSUME Answers(me, c, t) PROVE GoesOn(c, p, t)
  <2>1. /\ Bare(c, t.c) /\ t.c.authenticated = c.authenticated /\ t.c.deriving = c.deriving
        /\ \E m \in {"Handshake", "FinalHandshake"} : t.out = <<Packet(m, NoHeaders, A1(me).data)>>
    BY <1>7 DEF Answers
  <2>2. {"Handshake", "FinalHandshake"} \subseteq Steps
    BY DEF Steps
  <2>3. \E q : t.out = <<q>> /\ IsStep(q) /\ q.method # "Established"
    BY <2>1, <2>2, PacketIsStep
  <2> QED BY <1>1, <1>3, <2>1, <2>3, SentIsSequence DEF GoesOn
<1> QED BY <1>6, <1>7

(* The anonymous initiator's turn goes on: it is let in.                   *)
LEMMA WelcomeGoesOn ==
    ASSUME NEW me \in Identities, NEW p, NEW t, Turn("initiator", me, p, t),
           p.method = "SessionEstablished"
    PROVE  GoesOn(conn["initiator"], p, t)
<1> DEFINE c == conn["initiator"]
<1>1. DOMAIN c = Fields
  BY SidesAre, TurnIs
<1>2. GoodForInitiator(me, p)
  BY DEF Turn, Good
<1>3. M = "None" /\ E = "None" /\ c.authMode = "None" /\ c.encMode = "None"
  BY <1>2 DEF GoodForInitiator, Waits
<1>4. t = HandleAuthPacket("initiator", c, p)
  BY DEF Turn
<1>5. IsWelcome(c, t)
  <2> HIDE DEF c
  <2> QED BY <1>1, <1>3, <1>4, InitiatorIsLetIn
<1> QED BY <1>3, <1>5, SentIsSequence DEF IsWelcome, GoesOn

(* The initiator's turn on the responder's last word goes on, or closes.   *)
LEMMA LastWordGoesOn ==
    ASSUME NEW me \in Identities, NEW p, NEW t, Turn("initiator", me, p, t),
           p.method = "FinalHandshake"
    PROVE  Closing(conn["initiator"], t) \/ GoesOn(conn["initiator"], p, t)
<1> DEFINE s == "initiator"
           c == conn[s]
<1>0. s \in Side /\ Peer(s) = "responder"
  BY SidesAre
<1>1. DOMAIN c = Fields /\ ~c.authenticated /\ ~c.encryptionActive /\ setup \in Setup
  BY <1>0, TurnIs
<1>2. GoodForInitiator(me, p)
  BY DEF Turn, Good
<1>3. /\ Late /\ Accepted(me) /\ p.data = B1(me).data
      /\ c.handler = A1(me).handler /\ c.deriving = <<>> /\ c.authMode = M /\ c.encMode = E
  BY <1>2 DEF GoodForInitiator, Waits
<1>4. t = HandleAuthPacket("initiator", c, p)
  BY DEF Turn
<1>5. M # "None"
  BY <1>3 DEF Accepted, Answered, Challenged
<1>6. /\ A2(me).ruling \in {"Failed", "Succeeded"}
      /\ A2(me).ruling = "Succeeded" => A2(me).data = Nil
  <2>1. Last(me) = A2(me) /\ (A2(me).ruling = "Succeeded" => Finished(me))
    BY <1>3 DEF Last, Finished
  <2> QED BY <1>1, <1>3, <1>5, <2>1, Transcript
<1>7. PICK result : result = A2(me)
  OBVIOUS
<1>8. Closing(c, t) \/ Succeeds("initiator", result, c, t)
  <2>1. result = Process(c.authMode, "initiator", c.handler, p.data, Provider("initiator"))
    BY <1>3, <1>7 DEF A2
  <2>2. "initiator" \in Side
    BY SidesAre
  <2> HIDE DEF c, s
  <2> QED BY <1>1, <1>4, <1>6, <1>7, <2>1, <2>2, ActionIs
<1>9. ASSUME Succeeds("initiator", result, c, t) PROVE GoesOn(c, p, t)
  <2>1. Bare(c, t.c) /\ t.out = <<Packet("Established", NoHeaders, Nil)>>
    BY <1>3, <1>6, <1>7, <1>9 DEF Succeeds
  <2>2. E # "None" => /\ t.c.authenticated = c.authenticated
                      /\ \E x : t.c.deriving = Append(<<>>, x)
    BY <1>3, <1>6, <1>7, <1>9 DEF Succeeds
  <2> QED BY <1>1, <2>1, <2>2, AppendedIsSome, SentIsSequence DEF GoesOn, LastWord
<1> QED BY <1>8, <1>9

(* The turn of a side that hears the last word goes on.                    *)
LEMMA EstablishedGoesOn ==
    ASSUME NEW s \in Side, NEW me \in Identities, NEW p, NEW t, Turn(s, me, p, t),
           p.method = "Established"
    PROVE  GoesOn(conn[s], p, t)
<1> DEFINE c == conn[s]
<1>1. DOMAIN c = Fields /\ ~c.authenticated
  BY TurnIs
<1>2. t = HandleAuthPacket(s, c, p)
  BY DEF Turn
<1>3. c.authSessionEstablished = TRUE /\ c.deriving = <<>> /\ c.encMode = E
  <2>1. CASE s = "initiator"
    <3>1. GoodForInitiator(me, p)
      BY <2>1 DEF Turn, Good
    <3> QED BY <2>1, <3>1 DEF GoodForInitiator, Waits
  <2>2. CASE s = "responder"
    <3>1. GoodForResponder(me, p)
      BY <2>2 DEF Turn, Good
    <3> QED BY <2>2, <3>1 DEF GoodForResponder, Waits
  <2> QED BY <2>1, <2>2, SidesAre
<1>4. Completes(s, c, t)
  <2> HIDE DEF c
  <2> QED BY <1>1, <1>2, <1>3, EstablishedCompletes
<1>5. /\ Bare(c, t.c) /\ t.out = <<>>
      /\ E # "None" => /\ t.c.authenticated = c.authenticated
                       /\ \E x : t.c.deriving = Append(<<>>, x)
  <2> HIDE DEF c
  <2> QED BY <1>3, <1>4 DEF Completes
<1> QED BY <1>1, <1>5, AppendedIsSome, SentIsSequence DEF GoesOn

(* The responder's turn on the initiator's answer goes on, or closes.      *)
LEMMA AnswerGoesOn ==
    ASSUME NEW me \in Identities, NEW p, NEW t, Turn("responder", me, p, t),
           p.method \in {"Handshake", "FinalHandshake"}
    PROVE  Closing(conn["responder"], t) \/ GoesOn(conn["responder"], p, t)
<1> DEFINE s == "responder"
           c == conn[s]
<1>0. s \in Side /\ Peer(s) = "initiator"
  BY SidesAre
<1>1. DOMAIN c = Fields /\ ~c.authenticated /\ ~c.encryptionActive /\ setup \in Setup
  BY <1>0, TurnIs
<1>2. GoodForResponder(me, p)
  BY DEF Turn, Good
<1>3. /\ Answered(me) /\ p.data = A1(me).data
      /\ c.handler = B0(me).handler /\ c.deriving = <<>> /\ c.authMode = M /\ c.encMode = E
      /\ p.method = IF Late THEN "Handshake" ELSE "FinalHandshake"
  BY <1>2 DEF GoodForResponder, Waits, Late
<1>4. t = HandleAuthPacket("responder", c, p)
  BY DEF Turn
<1>5. M # "None"
  BY <1>3 DEF Answered, Challenged
<1>6. /\ B1(me).ruling \in {"Failed", "Succeeded"}
      /\ B1(me).ruling = "Succeeded" => (B1(me).data = Nil <=> ~Late)
  <2>1. B1(me).ruling = "Succeeded" => Accepted(me)
    BY <1>3 DEF Accepted
  <2> QED BY <1>1, <1>3, <1>5, <2>1, Transcript
<1>7. PICK result : result = B1(me)
  OBVIOUS
<1>8. Closing(c, t) \/ Succeeds("responder", result, c, t)
  <2>1. result = Process(c.authMode, "responder", c.handler, p.data, Provider("responder"))
    BY <1>3, <1>7 DEF B1
  <2>2. "responder" \in Side
    BY SidesAre
  <2>3. result.ruling = "Succeeded" => (result.data = Nil \/ p.method = "Handshake")
    BY <1>3, <1>6, <1>7
  <2> HIDE DEF c, s
  <2> QED BY <1>1, <1>4, <1>6, <1>7, <2>1, <2>2, <2>3, ActionIs
<1>9. ASSUME Succeeds("responder", result, c, t) PROVE GoesOn(c, p, t)
  <2>0. Bare(c, t.c) /\ p.method # "Established"
    BY <1>9 DEF Succeeds
  <2>1. CASE result.data = Nil
    <3>1. /\ t.out = <<Packet("Established", NoHeaders, Nil)>>
          /\ E # "None" => /\ t.c.authenticated = c.authenticated
                           /\ \E x : t.c.deriving = Append(<<>>, x)
      BY <1>3, <1>9, <2>1 DEF Succeeds
    <3> QED BY <1>1, <2>0, <3>1, AppendedIsSome, SentIsSequence DEF GoesOn, LastWord
  <2>2. CASE result.data # Nil
    <3>1. /\ t.c.authenticated = c.authenticated /\ t.c.deriving = <<>>
          /\ t.out = <<Packet("FinalHandshake", NoHeaders, result.data)>>
      BY <1>3, <1>9, <2>2 DEF Succeeds
    <3>2. "FinalHandshake" \in Steps
      BY DEF Steps
    <3>3. \E q : t.out = <<q>> /\ IsStep(q) /\ q.method # "Established"
      BY <3>1, <3>2, PacketIsStep
    <3> QED BY <1>1, <2>0, <3>1, <3>3, SentIsSequence DEF GoesOn
  <2> QED BY <2>1, <2>2
<1> QED BY <1>8, <1>9

(* Every turn goes on, or closes.                                          *)
LEMMA TurnGoesOn ==
    ASSUME NEW s \in Side, NEW me \in Identities, NEW p, NEW t, Turn(s, me, p, t)
    PROVE  Closing(conn[s], t) \/ GoesOn(conn[s], p, t)
<1>1. CASE s = "initiator"
  <2>1. GoodForInitiator(me, p)
    BY <1>1 DEF Turn, Good
  <2>2. p.method \in {"ProceedToHandshake", "SessionEstablished", "FinalHandshake", "Established"}
    BY <2>1 DEF GoodForInitiator
  <2> QED BY <1>1, <2>2, ProceedGoesOn, WelcomeGoesOn, LastWordGoesOn, EstablishedGoesOn
<1>2. CASE s = "responder"
  <2>1. GoodForResponder(me, p)
    BY <1>2 DEF Turn, Good
  <2>2. p.method \in {"Initialize", "Handshake", "FinalHandshake", "Established"}
    BY <2>1 DEF GoodForResponder
  <2> QED BY <1>2, <2>2, InitializeGoesOn, AnswerGoesOn, EstablishedGoesOn
<1> QED BY <1>1, <1>2, SidesAre

-----------------------------------------------------------------------------
(***************************************************************************)
(* Receiving.                                                              *)
(***************************************************************************)

(* A record that does not open, or that a side in the clear reads, was     *)
(* sealed with the cipher of an earlier session.                           *)
LEMMA ReasonIsStale ==
    ASSUME Types, IInv, RecordInv, NEW s \in Side, conn[s].open, conn[s].deriving = <<>>,
           wire[s] # <<>>, NEW p, p = Head(wire[s]), p.method # "fin",
           \/ conn[s].encryptionActive /\ ~Opens(s, conn[s], p)
           \/ ~conn[s].encryptionActive /\ p.seal # Nil
    PROVE  Reason(s) = "stale"
<1> DEFINE c == conn[s]
           d == conn[Peer(s)]
           q == wire[s]
<1>0. session > 0 /\ session \in Nat /\ Peer(s) \in Side
  BY OpenIsCounted, SidesAre DEF Types
<1>1. CASE misread # "no"
  BY <1>1 DEF Reason, Types, RecordInv, RecordsAreRead
<1>2. CASE misread = "no" /\ d.cipherSession < session
  BY <1>2 DEF Reason
<1>3. CASE misread = "no" /\ ~(d.cipherSession < session)
  <2>1. /\ d.cipherSession = session /\ d.cipher # Nil /\ d.encryptionActive
        /\ E # "None"
    <3>1. d.cipherSession \in 0 .. session /\ (d.cipher = Nil => d.cipherSession = 0)
          /\ (d.encryptionActive <=> d.cipher # Nil)
      BY <1>0 DEF IInv, Always
    <3>2. d.cipherSession = session
      BY <1>0, <1>3, <3>1
    <3>3. d.cipher # Nil => E = "SessionKey"
      BY <1>0 DEF RecordInv, Counted
    <3> QED BY <1>0, <3>1, <3>2, <3>3
  <2>2. ~Stale
    <3>1. CASE s = "responder"
      BY <2>1, <3>1, SidesAre DEF Stale
    <3>2. CASE s = "initiator"
      BY <2>1, <3>2, SidesAre DEF IInv, StaleInv
    <3> QED BY <3>1, <3>2, SidesAre
  <2>3. Sealing(s, c, d, q)
    <3>1. Encrypting
      BY <1>0, <1>3, <2>1, <2>2 DEF Encrypting
    <3>2. InOrder(s, c, d, q)
      BY <3>1 DEF RecordInv, Ordered
    <3> QED BY <2>1, <3>2 DEF InOrder
  <2>4. 1 \in DOMAIN q /\ p = q[1]
    <3>1. PICK S : q \in Seq(S)
      BY DEF Types
    <3> QED BY <3>1, Tailed
  <2>5. CASE ~c.encryptionActive
    <3>1. ~Begun(c)
      BY <2>5 DEF Begun
    <3> QED BY <2>3, <2>4, <2>5, <3>1, LastWordIs DEF Sealing
  <2>6. CASE c.encryptionActive
    <3>1. Lead(c) = 0
      BY <2>6 DEF Lead, Begun
    <3>2. p.seal = SendKey(Peer(s), d) /\ p.sequence = c.receiveSequence
      <4>1. c.receiveSequence \in Nat
        BY DEF RecordInv, Counted
      <4> HIDE DEF c, d, q
      <4>2. 1 > Lead(c)
        BY <3>1
      <4>3. \/ q[1].method = "fin"
            \/ /\ q[1].seal = SendKey(Peer(s), d)
               /\ q[1].sequence = c.receiveSequence + 1 - 1 - Lead(c)
        BY <2>3, <2>4, <4>2 DEF Sealing
      <4>4. c.receiveSequence + 1 - 1 - Lead(c) = c.receiveSequence
        BY <3>1, <4>1
      <4> QED BY <2>4, <4>3, <4>4
    <3>3. c.cipher = d.cipher
      <4>1. c.cipherSession = session
        <5>1. CASE s = "responder"
          BY <2>6, <5>1 DEF RecordInv, IInv, Always
        <5>2. CASE s = "initiator"
          BY <2>2, <2>6, <5>2 DEF Stale
        <5> QED BY <5>1, <5>2, SidesAre
      <4>2. KeysAgree
        BY KeysFollow
      <4> QED BY <1>0, <2>1, <4>1, <4>2, SidesAre DEF KeysAgree
    <3>4. SendKey(Peer(s), d) = ReceiveKey(s, c)
      <4>1. Label(Peer(s)) = Label(Peer(s))
        OBVIOUS
      <4> QED BY <3>3 DEF SendKey, ReceiveKey
    <3> QED BY <2>6, <3>2, <3>4 DEF Opens
  <2> QED BY <2>5, <2>6
<1> QED BY <1>1, <1>2, <1>3

(* Of a sequence with one place nothing is left, and without any it is     *)
(* empty.                                                                  *)
LEMMA NothingIsLeft ==
    ASSUME NEW S, NEW q \in Seq(S)
    PROVE  /\ q # <<>> /\ (\A k \in DOMAIN q : k = 1) => Tail(q) = <<>>
           /\ (\A k \in DOMAIN q : FALSE) => q = <<>>
<1>1. Len(q) \in Nat /\ DOMAIN q = 1 .. Len(q)
  OBVIOUS
<1>2. ASSUME \A k \in DOMAIN q : FALSE PROVE q = <<>>
  <2>1. Len(q) = 0
    <3> SUFFICES ASSUME Len(q) # 0 PROVE FALSE
      OBVIOUS
    <3>1. 1 \in 1 .. Len(q)
      BY <1>1
    <3> QED BY <1>1, <1>2, <3>1
  <2> QED BY <2>1
<1>3. ASSUME q # <<>>, \A k \in DOMAIN q : k = 1 PROVE Tail(q) = <<>>
  <2>1. Len(q) <= 1
    <3> SUFFICES ASSUME Len(q) > 1 PROVE FALSE
      BY <1>1
    <3>1. 2 \in 1 .. Len(q)
      BY <1>1
    <3> QED BY <1>1, <1>3, <3>1
  <2>2. Len(q) = 1
    BY <1>1, <1>3, <2>1
  <2>3. PICK u : u = Tail(q)
    OBVIOUS
  <2>4. u \in Seq(S) /\ Len(u) = 0
    BY <1>3, <2>2, <2>3
  <2>5. u = <<>>
    BY <2>4
  <2> QED BY <2>3, <2>5
<1> QED BY <1>2, <1>3

(* A turn of the handshake keeps the records in order: the first of a side *)
(* comes behind its last word, and the other reads that before it derives. *)
LEMMA TurnRecords ==
    ASSUME RecordInv, NEW s \in Side, NEW me \in Identities, NEW p, NEW t,
           Turn(s, me, p, t), conn[s].deriving = <<>>
    PROVE  RecordInv'
<1> DEFINE c == conn[s]
           d == conn[Peer(s)]
           q == wire[s]
           r == wire[Peer(s)]
<1>0. Peer(s) \in Side /\ Peer(s) # s /\ Peer(Peer(s)) = s
  BY SidesAre
<1>1. /\ Types /\ IInv /\ ~Stale /\ WireInv(me) /\ q # <<>> /\ p = Head(q) /\ IsStep(p)
      /\ t = HandleAuthPacket(s, c, p) /\ UNCHANGED <<setup, session, misread>>
      /\ Hears(s)
  BY DEF Turn, Fresh
<1>2. DOMAIN c = Fields /\ c.open /\ ~c.encryptionActive /\ c.cipher = Nil
  BY TurnIs
<1>3. Counts(c, t.c)
  BY <1>1, <1>2, HandlersCount
<1>4. Delivered(s, t.c, t.out) /\ wire'[s] = Tail(q)
  <2>1. wire' = [wire EXCEPT ![s] = Tail(@), ![Peer(s)] = @ \o t.out]
        /\ conn' = [conn EXCEPT ![s] = t.c]
    BY DEF Turn
  <2>2. wire = [u \in Side |-> wire[u]]
    BY <1>1 DEF Types
  <2>3. wire'[s] = Tail(q)
    BY <1>0, <2>1, <2>2
  <2> QED BY <1>1, <2>1, <2>3 DEF Delivered
<1>5. misread' \in {"no", "stale"} /\ (misread # "no" => misread' # "no")
  BY <1>1 DEF Types, RecordInv, RecordsAreRead
<1>6. CASE Closing(c, t)
  <2>1. Shut(c, t.c) /\ \E S : t.out \in Seq(S)
    BY <1>6 DEF Closing, Incidental
  <2>2. t.c.deriving = <<>>
    BY <2>1 DEF Shut
  <2> QED BY <1>1, <1>2, <1>3, <1>4, <1>5, <2>1, <2>2, ClosingRecords
<1>7. CASE GoesOn(c, p, t)
  <2>1. /\ DOMAIN t.c = Fields /\ t.c.open = c.open /\ t.c.cipher = Nil
        /\ ~t.c.encryptionActive /\ t.c.sendSequence = c.sendSequence
        /\ t.c.receiveSequence = c.receiveSequence /\ \E S : t.out \in Seq(S)
    BY <1>2, <1>3, <1>7 DEF GoesOn, Bare, Counts
  <2>2. Counted(c) /\ Counted(d)
    BY <1>0 DEF RecordInv
  <2>3. Counted(t.c)
    BY <1>2, <2>1, <2>2 DEF Counted
  <2>4. ~Begun(c)
    BY <1>2 DEF Begun
  <2>5. 1 \in DOMAIN q /\ p = q[1] /\ DOMAIN q = 1 .. Len(q)
    <3>1. PICK S : q \in Seq(S)
      BY <1>1 DEF Types
    <3> QED BY <1>1, <3>1, Tailed
  <2>6. ASSUME Encrypting
        PROVE  /\ InOrder(s, t.c, d, Tail(q))
               /\ d.open => InOrder(Peer(s), d, t.c, r \o t.out)
    <3>1. InOrder(s, c, d, q)
      BY <1>2, <2>6 DEF RecordInv, Ordered
    <3>2. PICK S : q \in Seq(S)
      BY <1>1 DEF Types
    <3>3. PICK U : r \in Seq(U)
      BY <1>0, <1>1 DEF Types
    <3>4. c.receiveSequence \in Nat
      BY <2>2 DEF Counted
    <3>5. E # "None"
      BY <2>6 DEF Encrypting
    <3>6. /\ ~t.c.authenticated
          /\ \/ /\ p.method # "Established" /\ t.c.deriving = <<>>
                /\ \E x : t.out = <<x>> /\ IsStep(x) /\ x.method # "Established"
             \/ p.method # "Established" /\ t.c.deriving # <<>> /\ t.out = <<LastWord>>
             \/ p.method = "Established" /\ t.c.deriving # <<>> /\ t.out = <<>>
      BY <1>7, <3>5 DEF GoesOn
    <3>7. ASSUME d.open, p.method # "Established"
          PROVE  ~Begun(d) /\ Tail(q) = <<>>
      <4>1. q # <<LastWord>> /\ q[1] # LastWord
        BY <2>5, <3>7, LastWordIs
      <4>2. ~Begun(d)
        BY <2>4, <3>1, <4>1 DEF InOrder, Sealing, Handing, Begun
      <4>3. \A k \in DOMAIN q : IsStep(q[k])
        BY <3>1, <3>7, <4>2 DEF InOrder, Greeting
      <4>4. \A k \in DOMAIN q : k = 1
        BY <1>1, <2>5, <4>3 DEF WireInv
      <4>5. Tail(q) = <<>>
        BY <1>1, <3>2, <4>4, NothingIsLeft
      <4> QED BY <4>2, <4>5
    <3>8. InOrder(s, t.c, d, Tail(q))
      <4>1. CASE p.method = "Established"
        <5>1. Begun(t.c)
          BY <3>6, <4>1 DEF Begun
        <5> HIDE DEF c, d, q
        <5> QED BY <1>1, <2>1, <2>4, <2>5, <3>1, <3>2, <3>4, <3>6, <4>1, <5>1, OrderAfterLastWord
      <4>2. CASE p.method # "Established"
        <5>1. d.open /\ Begun(t.c) => Tail(q) = <<>>
          BY <3>7, <4>2
        <5> HIDE DEF c, d, q
        <5> QED BY <1>1, <2>1, <2>4, <2>5, <3>1, <3>2, <3>6, <4>2, <5>1, OrderAfterStep
      <4> QED BY <4>1, <4>2
    <3>9. ASSUME d.open PROVE InOrder(Peer(s), d, t.c, r \o t.out)
      <4>1. InOrder(Peer(s), d, c, r)
        BY <1>0, <2>6, <3>9 DEF RecordInv, Ordered
      <4>2. CASE p.method # "Established"
        <5>1. ~Begun(d)
          BY <3>7, <3>9, <4>2
        <5>2. r = <<>>
          <6>1. \A k \in DOMAIN r : IsStep(r[k])
            BY <1>2, <2>4, <4>1 DEF InOrder, Greeting
          <6>2. Hears(Peer(s))
            BY <3>9, <4>1, <5>1 DEF Hears, InOrder, Begun
          <6>3. \A k \in DOMAIN r : ~IsStep(r[k])
            BY <1>1, <2>5, <6>2 DEF WireInv
          <6>4. \A k \in DOMAIN r : FALSE
            BY <6>1, <6>3
          <6> QED BY <3>3, <6>4, NothingIsLeft
        <5>3. \/ /\ t.c.deriving = <<>> /\ ~Begun(d)
                 /\ \E x : t.out = <<x>> /\ IsStep(x) /\ x.method # "Established"
              \/ t.c.deriving # <<>> /\ ~Begun(d) /\ r = <<>> /\ t.out = <<LastWord>>
              \/ t.c.deriving # <<>> /\ Begun(d) /\ t.out = <<>>
          BY <3>6, <4>2, <5>1, <5>2
        <5> HIDE DEF c, d, r
        <5> QED BY <1>2, <2>1, <2>4, <3>3, <4>1, <5>3, OrderAfterAnswer
      <4>3. CASE p.method = "Established"
        <5>1. Begun(d)
          BY <2>5, <3>1, <3>9, <4>3 DEF InOrder, Greeting
        <5>2. \/ /\ t.c.deriving = <<>> /\ ~Begun(d)
                 /\ \E x : t.out = <<x>> /\ IsStep(x) /\ x.method # "Established"
              \/ t.c.deriving # <<>> /\ ~Begun(d) /\ r = <<>> /\ t.out = <<LastWord>>
              \/ t.c.deriving # <<>> /\ Begun(d) /\ t.out = <<>>
          BY <3>6, <4>3, <5>1
        <5> HIDE DEF c, d, r
        <5> QED BY <1>2, <2>1, <2>4, <3>3, <4>1, <5>2, OrderAfterAnswer
      <4> QED BY <4>2, <4>3
    <3> QED BY <3>8, <3>9
  <2>7. (Encrypting /\ misread' = "no") =>
          /\ t.c.open => InOrder(s, t.c, conn[Peer(s)], wire'[s])
          /\ conn[Peer(s)].open => InOrder(Peer(s), conn[Peer(s)], t.c, wire[Peer(s)] \o t.out)
    BY <1>4, <2>6
  <2>8. (s = "responder" /\ t.c.cipher # Nil) => t.c.cipherSession = session
    BY <2>1
  <2> HIDE DEF c, d, q, r
  <2> QED BY <1>1, <1>4, <1>5, <2>1, <2>3, <2>7, <2>8, RecordsAfter
<1> QED BY <1>6, <1>7, TurnGoesOn

(* Reading a record, or a packet in the clear when it is no step of a      *)
(* handshake, keeps the records in order.                                  *)
LEMMA ReadRecords ==
    ASSUME Types, IInv, RecordInv, NEW s \in Side, NEW d,
           conn[s].open, conn[s].deriving = <<>>, wire[s] # <<>>, conn[s].authenticated,
           NEW p, p = Head(wire[s]), p.method # "fin",
           conn[s].encryptionActive => Opens(s, conn[s], p),
           ~conn[s].encryptionActive => p.seal = Nil,
           d = IF p.seal = Nil THEN conn[s] ELSE [conn[s] EXCEPT !.receiveSequence = @ + 1],
           Deliver(s, Step(d, <<>>)), UNCHANGED <<setup, session, misread>>
    PROVE  RecordInv'
<1> DEFINE c == conn[s]
           e == conn[Peer(s)]
           q == wire[s]
           r == wire[Peer(s)]
<1>0. Peer(s) \in Side /\ Peer(s) # s /\ Peer(Peer(s)) = s
  BY SidesAre
<1>1. DOMAIN c = Fields /\ Counted(c) /\ (c.encryptionActive => p.seal # Nil)
  BY LastWordIs DEF Types, RecordInv, Opens
<1>2. /\ DOMAIN d = Fields /\ d.open = c.open /\ d.authenticated = c.authenticated
      /\ d.deriving = c.deriving /\ d.cipher = c.cipher /\ d.cipherSession = c.cipherSession
      /\ d.encryptionActive = c.encryptionActive /\ d.sendSequence = c.sendSequence
      /\ d.receiveSequence = IF c.encryptionActive THEN c.receiveSequence + 1
                             ELSE c.receiveSequence
  BY <1>1 DEF Fields
<1>3. Counted(d)
  BY <1>1, <1>2 DEF Counted
<1>4. Delivered(s, d, <<>>) /\ wire'[s] = Tail(q) /\ conn'[s] = d
      /\ conn'[Peer(s)] = conn[Peer(s)] /\ r \o <<>> = r
  <2>1. Step(d, <<>>).c = d /\ Step(d, <<>>).out = <<>>
    BY DEF Step
  <2>2. Delivered(s, d, <<>>)
    BY <2>1, DeliverIs
  <2>3. conn' = [conn EXCEPT ![s] = d]
        /\ wire' = [wire EXCEPT ![s] = Tail(@), ![Peer(s)] = @ \o <<>>]
    BY <2>1 DEF Deliver
  <2>4. wire = [u \in Side |-> wire[u]] /\ conn = [u \in Side |-> conn[u]]
    BY DEF Types
  <2>5. wire'[s] = Tail(q) /\ conn'[s] = d /\ conn'[Peer(s)] = conn[Peer(s)]
    BY <1>0, <2>3, <2>4
  <2>6. PICK U : r \in Seq(U)
    BY <1>0 DEF Types
  <2>7. r \o <<>> = r
    BY <2>6
  <2> QED BY <2>2, <2>5, <2>7
<1>5. misread' \in {"no", "stale"} /\ (misread # "no" => misread' # "no")
  BY DEF Types, RecordInv, RecordsAreRead
<1>6. (s = "responder" /\ d.cipher # Nil) => d.cipherSession = session
  BY <1>2 DEF RecordInv
<1>7. Stale => Stale'
  <2>1. "initiator" = s \/ "initiator" = Peer(s)
    BY <1>0, SidesAre
  <2>2. /\ conn'["initiator"].encryptionActive = conn["initiator"].encryptionActive
        /\ conn'["initiator"].cipherSession = conn["initiator"].cipherSession
    BY <1>2, <1>4, <2>1
  <2> QED BY <2>2 DEF Stale
<1>8. ASSUME Encrypting
      PROVE  /\ InOrder(s, d, e, Tail(q))
             /\ e.open => InOrder(Peer(s), e, d, r)
  <2>1. InOrder(s, c, e, q)
    BY <1>8 DEF RecordInv, Ordered
  <2>2. PICK S : q \in Seq(S)
    BY DEF Types
  <2>3. c.encryptionActive
    BY <2>1 DEF InOrder
  <2>4. c.receiveSequence \in Nat
    BY <1>1 DEF Counted
  <2>5. p = q[1]
    BY <2>2, Tailed
  <2>6. InOrder(s, d, e, Tail(q))
    <3>1. q[1].method # "fin" /\ q[1].seal # Nil /\ q # <<>>
      BY <1>1, <2>3, <2>5
    <3> HIDE DEF c, e, q
    <3> QED BY <1>2, <2>1, <2>2, <2>3, <2>4, <3>1, OrderAfterRecord
  <2>7. ASSUME e.open PROVE InOrder(Peer(s), e, d, r)
    <3>1. InOrder(Peer(s), e, c, r) /\ (e.authenticated => e.encryptionActive)
      BY <1>0, <1>8, <2>7 DEF RecordInv, Ordered, InOrder
    <3>2. /\ d.encryptionActive = c.encryptionActive /\ d.deriving = c.deriving
          /\ d.cipher = c.cipher /\ d.open = c.open /\ d.sendSequence = c.sendSequence
      BY <1>2
    <3> HIDE DEF c, e, r
    <3> QED BY <3>1, <3>2, OrderKept
  <2> QED BY <2>6, <2>7
<1>9. (Encrypting /\ misread' = "no") =>
        /\ d.open => InOrder(s, d, conn[Peer(s)], wire'[s])
        /\ conn[Peer(s)].open => InOrder(Peer(s), conn[Peer(s)], d, wire[Peer(s)] \o <<>>)
  BY <1>4, <1>8
<1>10. \E S : <<>> \in Seq(S)
  BY SentIsSequence
<1> HIDE DEF c, e, q, r
<1> QED BY <1>2, <1>3, <1>4, <1>5, <1>6, <1>7, <1>9, <1>10, RecordsAfter

(* Taking a record for a packet of the handshake keeps the invariant of    *)
(* the records: it was sealed with the cipher of an earlier session.       *)
LEMMA MisreadRecords ==
    ASSUME Types, IInv, RecordInv, NEW s \in Side, conn[s].open, conn[s].deriving = <<>>,
           wire[s] # <<>>, Head(wire[s]).method # "fin",
           ~conn[s].encryptionActive, Head(wire[s]).seal # Nil,
           Deliver(s, Misread(s, conn[s])), misread' = Reason(s), UNCHANGED <<setup, session>>
    PROVE  RecordInv'
<1> DEFINE c == conn[s]
           t == Misread(s, c)
<1>1. DOMAIN c = Fields /\ Counted(c)
  BY DEF Types, RecordInv
<1>2. misread' = "stale"
  BY ReasonIsStale
<1>3. Delivered(s, t.c, t.out)
  BY DeliverIs
<1>4. /\ Counts(c, t.c) /\ t.c.deriving = <<>> /\ t.c.cipher = c.cipher
      /\ t.c.cipherSession = c.cipherSession /\ \E S : t.out \in Seq(S)
  <2>1. CASE c.authenticated
    <3>1. t.c = c /\ t.out = <<>>
      BY <2>1 DEF Misread, Step
    <3>2. Counts(c, c)
      BY <1>1, HelpersCount
    <3> QED BY <3>1, <3>2, SentIsSequence
  <2>2. CASE ~c.authenticated
    <3>1. \/ Shut(c, t.c) /\ Incidental(c, t.out)
          \/ /\ Misled(c, t.c)
             /\ \E q : t.out = <<q>> /\ q.seal = Nil /\ q.method = "SessionEstablished"
      BY <1>1, <2>2, MisreadIs
    <3>2. Counts(c, t.c)
      BY <1>1, HandlersCount
    <3> HIDE DEF t
    <3>3. CASE Shut(c, t.c) /\ Incidental(c, t.out)
      BY <3>2, <3>3 DEF Shut, Incidental
    <3>4. CASE /\ Misled(c, t.c)
               /\ \E q : t.out = <<q>> /\ q.seal = Nil /\ q.method = "SessionEstablished"
      BY <3>2, <3>4, SentIsSequence DEF Misled
    <3> QED BY <3>1, <3>3, <3>4
  <2> QED BY <2>1, <2>2
<1> HIDE DEF t
<1>5. Counted(t.c) /\ DOMAIN t.c = Fields
  BY <1>1, <1>4 DEF Counted, Counts
<1>6. s = "responder" /\ t.c.cipher # Nil => t.c.cipherSession = session
  BY <1>4 DEF RecordInv
<1>7. Stale => Stale'
  <2>1. conn'[s] = t.c /\ conn'[Peer(s)] = conn[Peer(s)]
    BY <1>2, <1>3, <1>4, <1>5, DeliveredIs
  <2>2. "initiator" = s \/ "initiator" = Peer(s)
    BY SidesAre
  <2> QED BY <1>4, <2>1, <2>2 DEF Stale, Counts
<1> QED BY <1>2, <1>3, <1>4, <1>5, <1>6, <1>7, RecordsAfter

(* Receiving keeps the invariant of the records.                           *)
LEMMA ReceiveRecords ==
    ASSUME ~Coalescing, Types, IInv, RecordInv, NEW s \in Side, Receive(s)
    PROVE  RecordInv'
<1> DEFINE c == conn[s]
           p == Head(wire[s])
           opened == [c EXCEPT !.receiveSequence = @ + 1]
           d == IF p.seal = Nil THEN c ELSE opened
<1>1. /\ c.open /\ c.deriving = <<>> /\ wire[s] # <<>> /\ UNCHANGED <<setup, session>>
  BY DEF Receive, Free, InChunk, Idle
<1>2. session > 0 /\ DOMAIN c = Fields
  BY <1>1, OpenIsCounted DEF Types
<1>3. \/ p.method = "fin" /\ Deliver(s, Step(Closed(c), <<>>)) /\ UNCHANGED misread
      \/ /\ p.method # "fin" /\ c.encryptionActive /\ ~Opens(s, c, p)
         /\ Deliver(s, Close(Step(c, <<>>))) /\ misread' = Reason(s)
      \/ /\ p.method # "fin" /\ ~c.encryptionActive /\ p.seal # Nil
         /\ Deliver(s, Misread(s, c)) /\ misread' = Reason(s)
      \/ /\ p.method # "fin" /\ (~c.encryptionActive => p.seal = Nil)
         /\ c.encryptionActive => Opens(s, c, p)
         /\ IF ~c.authenticated THEN Deliver(s, HandleAuthPacket(s, d, p))
            ELSE Deliver(s, Step(d, <<>>))
         /\ UNCHANGED misread
  <2>1. CASE p.method = "fin"
    BY <2>1 DEF Receive
  <2>2. CASE p.method # "fin" /\ c.encryptionActive /\ ~Opens(s, c, p)
    BY <2>2 DEF Receive
  <2>3. CASE p.method # "fin" /\ ~c.encryptionActive /\ p.seal # Nil
    BY <2>3 DEF Receive
  <2>4. CASE /\ p.method # "fin" /\ (~c.encryptionActive => p.seal = Nil)
             /\ c.encryptionActive => Opens(s, c, p)
    BY <2>4 DEF Receive
  <2> QED BY <2>1, <2>2, <2>3, <2>4
<1>m. misread \in {"no", "stale"}
  BY DEF Types, RecordInv, RecordsAreRead
<1>n. \A x : Step(x, <<>>).c = x /\ Step(x, <<>>).out = <<>>
  BY DEF Step
<1>4. CASE p.method = "fin" /\ Deliver(s, Step(Closed(c), <<>>)) /\ UNCHANGED misread
  <2>1. Shut(c, Closed(c)) /\ Counts(c, Closed(c))
    BY <1>2, ClosedShuts, HelpersCount
  <2>2. Delivered(s, Closed(c), <<>>)
    BY <1>1, <1>4, <1>n, DeliverIs
  <2>3. Closed(c).deriving = <<>>
    BY <1>1, <2>1 DEF Shut
  <2> QED BY <1>1, <1>4, <1>m, <2>1, <2>2, <2>3, SentIsSequence, ClosingRecords
<1>5. CASE /\ p.method # "fin" /\ c.encryptionActive /\ ~Opens(s, c, p)
           /\ Deliver(s, Close(Step(c, <<>>))) /\ misread' = Reason(s)
  <2> DEFINE t == Close(Step(c, <<>>))
  <2>1. t.c = Closed(c) /\ t.out = <<Fin>>
    BY CloseAlone
  <2>2. Delivered(s, t.c, t.out)
    BY <1>1, <1>5, DeliverIs
  <2> HIDE DEF t
  <2>3. Shut(c, t.c) /\ Counts(c, t.c)
    BY <1>2, <2>1, ClosedShuts, HelpersCount
  <2>4. t.c.deriving = <<>>
    BY <1>1, <2>3 DEF Shut
  <2>5. misread' = "stale"
    BY <1>1, <1>5, ReasonIsStale
  <2>6. \E S : t.out \in Seq(S)
    BY <2>1, SentIsSequence
  <2> QED BY <1>1, <2>1, <2>2, <2>3, <2>4, <2>5, <2>6, ClosingRecords
<1>6. CASE /\ p.method # "fin" /\ ~c.encryptionActive /\ p.seal # Nil
           /\ Deliver(s, Misread(s, c)) /\ misread' = Reason(s)
  BY <1>1, <1>6, MisreadRecords
<1>7. CASE /\ p.method # "fin" /\ (~c.encryptionActive => p.seal = Nil)
           /\ c.encryptionActive => Opens(s, c, p)
           /\ IF ~c.authenticated THEN Deliver(s, HandleAuthPacket(s, d, p))
              ELSE Deliver(s, Step(d, <<>>))
           /\ UNCHANGED misread
  <2>1. CASE c.authenticated
    <3>1. Deliver(s, Step(d, <<>>))
      BY <1>7, <2>1
    <3>2. UNCHANGED <<setup, session, misread>>
      BY <1>1, <1>7
    <3> QED BY <1>1, <1>7, <2>1, <3>1, <3>2, ReadRecords
  <2>2. CASE ~c.authenticated
    <3>1. p.seal = Nil /\ Hears(s) /\ (IsStep(p) => ~Stale)
      BY <1>1, <1>2, <1>7, <2>2, ClearReceipt
    <3>2. Deliver(s, HandleAuthPacket(s, c, p))
      BY <1>7, <2>2, <3>1
    <3>3. CASE IsStep(p)
      <4>1. HandshakePacket(s)
        BY <1>7, <3>1, <3>2, <3>3 DEF HandshakePacket
      <4>2. PICK me \in Identities : Turn(s, me, p, HandleAuthPacket(s, c, p))
        BY <4>1, HandshakeTurn
      <4> QED BY <1>1, <4>2, TurnRecords
    <3>4. CASE ~IsStep(p)
      <4> DEFINE t == HandleAuthPacket(s, c, p)
      <4>1. Shut(c, t.c) /\ Incidental(c, t.out)
        BY <1>2, <3>1, <3>4, UnwantedCloses DEF IsStep
      <4>2. ~c.encryptionActive
        BY <3>1 DEF Hears
      <4>3. Counts(c, t.c)
        BY <1>2, <4>2, HandlersCount
      <4>4. Delivered(s, t.c, t.out)
        BY <1>1, <3>2, DeliverIs
      <4> HIDE DEF t
      <4>5. t.c.deriving = <<>> /\ \E S : t.out \in Seq(S)
        BY <1>1, <4>1 DEF Shut, Incidental
      <4> QED BY <1>1, <1>7, <1>m, <4>1, <4>2, <4>3, <4>4, <4>5, ClosingRecords
    <3> QED BY <3>3, <3>4
  <2> QED BY <2>1, <2>2
<1> QED BY <1>3, <1>4, <1>5, <1>6, <1>7

(* Every step keeps the invariant of the records.                          *)
LEMMA NextRecords ==
    ASSUME ~Coalescing, Types, IInv, RecordInv, [Next]_vars
    PROVE  RecordInv'
<1>1. CASE Connect
  BY <1>1, ConnectRecords
<1>2. ASSUME NEW s \in Side, Receive(s) PROVE RecordInv'
  BY <1>2, ReceiveRecords
<1>3. ASSUME NEW s \in Side, Derive(s) PROVE RecordInv'
  BY <1>3, DeriveRecords
<1>4. ASSUME NEW s \in Side, Request(s) PROVE RecordInv'
  BY <1>4, RequestRecords
<1>5. ASSUME NEW s \in Side, Timeout(s) PROVE RecordInv'
  BY <1>5, TimeoutRecords
<1>6. ASSUME NEW s \in Side, CloseConnection(s) PROVE RecordInv'
  BY <1>6, CloseConnectionRecords
<1>7. CASE Drop
  BY <1>7, DropRecords
<1>8. CASE UNCHANGED vars
  <2>1. UNCHANGED <<setup, session, conn, wire, misread>>
    BY <1>8 DEF vars
  <2>2. E' = E
    BY <2>1 DEF E
  <2>3. \A s \in Side : Counted(conn[s])'
    BY <2>1, <2>2 DEF RecordInv, Counted
  <2>4. Encrypting' <=> Encrypting
    BY <2>1, <2>2 DEF Encrypting, Stale
  <2>5. \A s \in Side : Peer(s)' = Peer(s) /\ (Ordered(s) => Ordered(s)')
    BY <2>1 DEF Ordered, Peer
  <2> QED BY <2>1, <2>3, <2>4, <2>5 DEF RecordInv, RecordsAreRead
<1> QED BY <1>1, <1>2, <1>3, <1>4, <1>5, <1>6, <1>7, <1>8 DEF Next

(* The inductive invariant of the records, where the packet that completes *)
(* a handshake ends its chunk (Coalescing is FALSE): until something is    *)
(* misread, the stream to a side is steps of the handshake, then the last  *)
(* word in the clear, then records with the sender's key, numbered from    *)
(* what the side has counted (completeAuthentication, dataReceived and     *)
(* encrypt in EpConnection.ts).                                            *)
THEOREM RecordInvariance ==
    ASSUME ~Coalescing
    PROVE  Spec => [](Types /\ IInv /\ RecordInv)
<1>1. Init => Types /\ IInv /\ RecordInv
  BY SessionStarts, RecordsStart
<1>2. Types /\ IInv /\ RecordInv /\ [Next]_vars => Types' /\ IInv' /\ RecordInv'
  BY NextStep, NextRecords
<1> QED BY <1>1, <1>2, PTL DEF Spec

(* Where the packet that completes a handshake ends its chunk, no record   *)
(* of a session reaches a side that does not decrypt yet, and none is      *)
(* refused: both sides change to records at the same place of the stream,  *)
(* as the comments of completeAuthentication and dataReceived say. Only    *)
(* the records of an object that holds the cipher of an earlier session    *)
(* are misread.                                                            *)
THEOREM RecordsAreReadAlways ==
    ASSUME ~Coalescing
    PROVE  Spec => []RecordsAreRead
<1>1. RecordInv => RecordsAreRead
  BY DEF RecordInv
<1> QED BY <1>1, RecordInvariance, PTL
=============================================================================
