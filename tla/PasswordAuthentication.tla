----------------------- MODULE PasswordAuthentication -----------------------
(***************************************************************************)
(* The challenge and response protocol of PasswordAuthenticationHandler.ts *)
(* as operators: what one call of process() answers and leaves behind.     *)
(*                                                                         *)
(* Abstraction.  The hash has no collision: sha3 of a concatenation is the *)
(* tuple of what was concatenated, in that order.  A nonce, a salt and a   *)
(* password are terms that differ from every other term.                   *)
(***************************************************************************)
EXTENDS Integers, Sequences

Nil == <<>>
Sha3(parts) == parts
Hashed_SaltOnly(password, salt) == Sha3(<<salt, salt>>)
Hashed(password, salt) == Sha3(<<password, salt>>)

(* What a side knows: its own identity and password, and the accounts it   *)
(* hosts, each with the salt and the salted hash of its password.          *)
Salt(identity) == <<"salt", identity>>
Password(identity) == <<"password", identity>>
NoCredential == [salt |-> Nil, hash |-> Nil]
Credential(identity) ==
    [salt |-> Salt(identity), hash |-> Hashed(Password(identity), Salt(identity))]
GetHostedAccountCredential(provider, identity) ==
    IF identity \in provider.hosted THEN Credential(identity) ELSE NoCredential

(* The constructor.                                                        *)
NewHandler(initiator, responder, nonce) ==
    [step |-> 0, localNonce |-> nonce, remoteNonce |-> Nil, remoteSalt |-> Nil,
     initiatorIdentity |-> initiator, responderIdentity |-> responder,
     initiatorPassword |-> Nil, responderPassword |-> Nil]

-----------------------------------------------------------------------------
(* The results of a step.                                                  *)

Failed(h) ==
    [handler |-> h, ruling |-> "Failed", data |-> Nil, local |-> Nil, remote |-> Nil,
     key |-> Nil]
FailedAndStop(h) == Failed([h EXCEPT !.step = -1])

InProgress(h, data) ==
    [handler |-> h, ruling |-> "InProgress", data |-> data, local |-> Nil,
     remote |-> Nil, key |-> Nil]

Succeeded(h, data, local, remote, key) ==
    [handler |-> [h EXCEPT !.step = -1], ruling |-> "Succeeded", data |-> data,
     local |-> local, remote |-> remote, key |-> Sha3(key)]

(* loadInitiatorSelfPassword and loadResponderSelfPassword.                *)
LoadInitiator(h, provider) ==
    [h EXCEPT !.initiatorIdentity = IF @ = Nil THEN provider.identity ELSE @,
              !.initiatorPassword = provider.password]
LoadResponder(h, provider) ==
    [h EXCEPT !.responderIdentity = IF @ = Nil THEN provider.identity ELSE @,
              !.responderPassword = provider.password]

ValidRemoteNonce(h, nonce) == nonce # Nil /\ nonce # h.localNonce

-----------------------------------------------------------------------------
(* The initiator proves who it is, the responder that it hosts the account. *)

InitiatorInitializerIdentity(h, remote, provider) ==
    CASE h.step = 0 ->
            LET self == LoadInitiator(h, provider)
            IN  IF self.initiatorPassword = Nil THEN Failed(self)
                ELSE InProgress([self EXCEPT !.step = 1],
                                <<self.localNonce, self.initiatorIdentity>>)
      [] h.step = 1 /\ Len(remote) >= 3 ->
            LET nonce == remote[1]
                hashed == Hashed(h.initiatorPassword, remote[2])
            IN  IF /\ ValidRemoteNonce(h, nonce)
                   /\ remote[3] = Sha3(<<nonce, hashed, h.localNonce>>)
                THEN Succeeded(h, <<Sha3(<<h.localNonce, hashed, nonce>>)>>,
                               h.initiatorIdentity, Nil,
                               <<h.initiatorIdentity, hashed, h.localNonce, nonce>>)
                ELSE FailedAndStop(h)
      [] OTHER -> Failed(h)

ResponderInitializerIdentity(h, remote, provider) ==
    CASE h.step = 0 /\ Len(remote) >= 2 ->
            LET account == GetHostedAccountCredential(provider, remote[2])
                known == [h EXCEPT !.remoteNonce = remote[1],
                                   !.initiatorIdentity = remote[2],
                                   !.initiatorPassword = account.hash]
            IN  IF ~ValidRemoteNonce(h, remote[1]) THEN FailedAndStop(known)
                ELSE IF account = NoCredential THEN Failed(known)
                ELSE InProgress([known EXCEPT !.step = 1],
                                <<h.localNonce, account.salt,
                                  Sha3(<<h.localNonce, account.hash, remote[1]>>)>>)
      [] h.step = 1 /\ Len(remote) >= 1 ->
            IF remote[1] = Sha3(<<h.remoteNonce, h.initiatorPassword, h.localNonce>>)
            THEN Succeeded(h, Nil, h.initiatorIdentity, h.responderIdentity,
                           <<h.initiatorIdentity, h.initiatorPassword, h.remoteNonce,
                             h.localNonce>>)
            ELSE FailedAndStop(h)
      [] OTHER -> Failed(h)

-----------------------------------------------------------------------------
(* The responder proves who it is.                                         *)

InitiatorResponderIdentity(h, remote, provider) ==
    CASE h.step = 0 -> InProgress([h EXCEPT !.step = 1], <<h.localNonce>>)
      [] h.step = 1 /\ Len(remote) >= 2 ->
            LET account == GetHostedAccountCredential(provider, remote[2])
                known == [h EXCEPT !.remoteNonce = remote[1],
                                   !.responderIdentity = remote[2],
                                   !.responderPassword = account.hash]
            IN  IF ~ValidRemoteNonce(h, remote[1]) \/ account = NoCredential
                THEN FailedAndStop(known)
                ELSE InProgress([known EXCEPT !.step = 2],
                                <<account.salt,
                                  Sha3(<<h.localNonce, account.hash, remote[1]>>)>>)
      [] h.step = 2 /\ Len(remote) >= 1 ->
            IF remote[1] = Sha3(<<h.remoteNonce, h.responderPassword, h.localNonce>>)
            THEN Succeeded(h, Nil, h.initiatorIdentity, h.responderIdentity,
                           <<h.responderIdentity, h.responderPassword, h.localNonce,
                             h.remoteNonce>>)
            ELSE FailedAndStop(h)
      [] OTHER -> Failed(h)

ResponderResponderIdentity(h, remote, provider) ==
    CASE h.step = 0 /\ Len(remote) >= 1 ->
            LET self == LoadResponder([h EXCEPT !.remoteNonce = remote[1]], provider)
            IN  IF ~ValidRemoteNonce(h, remote[1]) THEN FailedAndStop(self)
                ELSE IF self.responderPassword = Nil THEN Failed(self)
                ELSE InProgress([self EXCEPT !.step = 1],
                                <<h.localNonce, self.responderIdentity>>)
      [] h.step = 1 /\ Len(remote) >= 2 ->
            LET hashed == Hashed(h.responderPassword, remote[1])
            IN  IF remote[2] = Sha3(<<h.remoteNonce, hashed, h.localNonce>>)
                THEN Succeeded(h, <<Sha3(<<h.localNonce, hashed, h.remoteNonce>>)>>,
                               h.responderIdentity, Nil,
                               <<h.responderIdentity, hashed, h.remoteNonce,
                                 h.localNonce>>)
                ELSE FailedAndStop(h)
      [] OTHER -> Failed(h)

-----------------------------------------------------------------------------
(* Both prove who they are.                                                *)

InitiatorDualIdentity(h, remote, provider) ==
    CASE h.step = 0 ->
            LET self == LoadInitiator(h, provider)
            IN  IF self.initiatorPassword = Nil THEN Failed(self)
                ELSE InProgress([self EXCEPT !.step = 1],
                                <<self.localNonce, self.initiatorIdentity>>)
      [] h.step = 1 /\ Len(remote) >= 3 ->
            LET account == GetHostedAccountCredential(provider, remote[2])
                hashed == Hashed(h.initiatorPassword, remote[3])
                known == [h EXCEPT !.remoteNonce = remote[1],
                                   !.responderIdentity = remote[2],
                                   !.remoteSalt = remote[3],
                                   !.responderPassword = account.hash]
            IN  IF ~ValidRemoteNonce(h, remote[1]) \/ account = NoCredential
                THEN FailedAndStop(known)
                ELSE InProgress([known EXCEPT !.step = 2],
                                <<account.salt,
                                  Sha3(<<h.localNonce, hashed, account.hash,
                                         remote[1]>>)>>)
      [] h.step = 2 /\ Len(remote) >= 1 ->
            LET hashed == Hashed(h.initiatorPassword, h.remoteSalt)
            IN  IF remote[1] = Sha3(<<h.remoteNonce, h.responderPassword, hashed,
                                      h.localNonce>>)
                THEN Succeeded(h, Nil, h.initiatorIdentity, h.responderIdentity,
                               <<h.initiatorIdentity, h.responderIdentity, hashed,
                                 h.responderPassword, h.localNonce, h.remoteNonce>>)
                ELSE FailedAndStop(h)
      [] OTHER -> Failed(h)

ResponderDualIdentity(h, remote, provider) ==
    CASE h.step = 0 /\ Len(remote) >= 2 ->
            LET account == GetHostedAccountCredential(provider, remote[2])
                self == LoadResponder([h EXCEPT !.remoteNonce = remote[1],
                                                !.initiatorIdentity = remote[2]],
                                      provider)
            IN  IF ~ValidRemoteNonce(h, remote[1]) THEN FailedAndStop(self)
                ELSE IF self.responderPassword = Nil \/ account = NoCredential
                THEN Failed(self)
                ELSE InProgress([self EXCEPT !.step = 1,
                                             !.initiatorPassword = account.hash],
                                <<h.localNonce, self.responderIdentity, account.salt>>)
      [] h.step = 1 /\ Len(remote) >= 2 ->
            LET hashed == Hashed(h.responderPassword, remote[1])
            IN  IF remote[2] = Sha3(<<h.remoteNonce, h.initiatorPassword, hashed,
                                      h.localNonce>>)
                THEN Succeeded(h, <<Sha3(<<h.localNonce, hashed, h.initiatorPassword,
                                           h.remoteNonce>>)>>,
                               h.initiatorIdentity, h.responderIdentity,
                               <<h.initiatorIdentity, h.responderIdentity,
                                 h.initiatorPassword, hashed, h.remoteNonce,
                                 h.localNonce>>)
                ELSE FailedAndStop(h)
      [] OTHER -> Failed(h)

-----------------------------------------------------------------------------
(* process().                                                              *)
Process(mode, side, h, remote, provider) ==
    CASE mode = "InitializerIdentity" /\ side = "initiator" ->
            InitiatorInitializerIdentity(h, remote, provider)
      [] mode = "InitializerIdentity" /\ side = "responder" ->
            ResponderInitializerIdentity(h, remote, provider)
      [] mode = "ResponderIdentity" /\ side = "initiator" ->
            InitiatorResponderIdentity(h, remote, provider)
      [] mode = "ResponderIdentity" /\ side = "responder" ->
            ResponderResponderIdentity(h, remote, provider)
      [] mode = "DualIdentity" /\ side = "initiator" ->
            InitiatorDualIdentity(h, remote, provider)
      [] mode = "DualIdentity" /\ side = "responder" ->
            ResponderDualIdentity(h, remote, provider)
      [] OTHER -> FailedAndStop(h)
=============================================================================
