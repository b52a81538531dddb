------------------------------ MODULE PacketCodec ------------------------------
(***************************************************************************)
(* The messages of the access authentication as bytes: PacketUtil of either  *)
(* side and what the processors put together and take apart.  Client and     *)
(* server have code of their own for the same layouts.                       *)
(*                                                                           *)
(* A byte is <<"byte", n>> when the code computes with it; the bytes of an   *)
(* ID, a nonce or a proof are named <<name, i>>.  CRC and ciphertext are     *)
(* functions of what they are computed over.                                 *)
(***************************************************************************)
EXTENDS Integers, Sequences

ACCESS_AUTH_REQUEST == 81
ACCESS_AUTH_RESPONSE == 82
ACCESS_AUTH_CLIENT_PROOF == 83
ACCESS_AUTH_SERVER_PROOF == 84

ENCRYPTION_ALGORITHM_DEFAULT == 0
ENCRYPTION_ALGORITHM_AES == 1
Algorithms == {ENCRYPTION_ALGORITHM_DEFAULT, ENCRYPTION_ALGORITHM_AES}

SUCCESS == 0
RequestID == 120
NONCE_LENGTH == 32

\* Faulty variant: the limit is that of the database.
DatabaseDeviceIDLengths == 5..32

\* The lengths generateStartAuthRequest does not refuse.
DeviceIDLengths == 5..25

--------------------------------------------------------------------------------
\* A byte is signed.
Byte(n) == <<"byte", ((n + 128) % 256) - 128>>
Bytes(name, n) == [i \in 1..n |-> <<name, i>>]

\* The byte at place i; any of those that a frame lacks is like no other.
At(s, i) == IF i \in DOMAIN s THEN s[i] ELSE <<"none">>

WriteShort(n) == <<Byte(n \div 256), Byte(n)>>

bigEndianAddShortToBytes(n) ==
    IF n < 255 THEN <<Byte(0), Byte(n)>> ELSE <<Byte(n \div 256), Byte(n)>>

littleEndianToBytes(n) ==
    IF n < 255 THEN <<Byte(n), Byte(0)>> ELSE <<Byte(n), Byte(n \div 256)>>

toLittleEndianBytes(n) == <<Byte(n), Byte(n \div 256)>>

parseBigEndianBytes(b) == (b[1][2] % 256) * 256 + (b[2][2] % 256)

getCRC32(data) == [i \in 1..4 |-> <<"crc", i, data>>]

\* AES in blocks of 16 bytes, the last of which has the padding.
Encrypt(data, key) ==
    [i \in 1..16 * (Len(data) \div 16 + 1) |-> <<"aes", i, data, key>>]

\* What it decrypts to, if to anything.
Decrypt(s, key) ==
    IF s # <<>> /\ s[1][1] = "aes" /\ s[1][4] = key /\ s = Encrypt(s[1][3], key)
    THEN {s[1][3]} ELSE {}

KeyID == Bytes("keyID", 16)
RootKey(id) == <<"root key", id>>

\* A frame is type, request, status and length, data of that length, and CRC.
WithCRC(f) == f \o getCRC32(f)
DataOf(f) == SubSeq(f, 6, Len(f) - 4)
CRCRight(f) == SubSeq(f, Len(f) - 3, Len(f)) = getCRC32(SubSeq(f, 1, Len(f) - 4))

--------------------------------------------------------------------------------
(* The client. *)

wrapMessageHeader(alg, len) ==
    <<Byte(1), Byte(alg)>> \o WriteShort(len)
        \o IF alg = ENCRYPTION_ALGORITHM_AES THEN KeyID ELSE <<>>

wrapAuthMessage(type, alg, deviceID, field) ==
    LET messageBody == <<Byte(Len(deviceID))>> \o deviceID \o SubSeq(field, 1, NONCE_LENGTH)
        sent == IF alg = ENCRYPTION_ALGORITHM_AES
                THEN Encrypt(messageBody, RootKey(KeyID)) ELSE messageBody
        dataLength == 4 + (IF alg = ENCRYPTION_ALGORITHM_AES THEN 16 ELSE 0) + Len(sent)
    IN WithCRC(<<Byte(type)>> \o WriteShort(RequestID) \o <<Byte(SUCCESS), Byte(dataLength)>>
               \o wrapMessageHeader(alg, Len(sent)) \o sent)

\* Faulty variant: the CRC is not looked at.
checkMessageLength(f) ==
    /\ At(f, 1) \in {Byte(ACCESS_AUTH_RESPONSE), Byte(ACCESS_AUTH_SERVER_PROOF)}
    /\ At(f, 4) = Byte(SUCCESS)
    /\ At(f, 5) = <<"byte", Len(f) - 9>>

checkMessage(f) ==
    /\ At(f, 1) \in {Byte(ACCESS_AUTH_RESPONSE), Byte(ACCESS_AUTH_SERVER_PROOF)}
    /\ At(f, 4) = Byte(SUCCESS)
    /\ At(f, 5) = <<"byte", Len(f) - 9>>
    /\ CRCRight(f)

\* What follows the header.  Without encryption the CRC is taken for a part of it.
FixedBodies(f) ==
    CASE At(f, 7) = Byte(ENCRYPTION_ALGORITHM_DEFAULT) -> {SubSeq(f, 10, Len(f))}
      [] At(f, 7) = Byte(ENCRYPTION_ALGORITHM_AES) ->
            Decrypt(SubSeq(f, 26, Len(f) - 4), RootKey(SubSeq(f, 10, 25)))
      [] OTHER -> {}

\* The message the frame is taken for, if it is not refused.
unwrapBinaryToAuthMessage(f) ==
    IF ~checkMessage(f) \/ At(f, 6) # Byte(1) THEN {}
    ELSE {LET n == 1 + body[1][2]
              deviceID == SubSeq(body, 2, n)
          IN IF f[1] = Byte(ACCESS_AUTH_RESPONSE)
             THEN [deviceID |-> deviceID, salt |-> SubSeq(body, n + 1, n + 32),
                   iterationCount |-> parseBigEndianBytes(SubSeq(body, n + 33, n + 34)),
                   serverNonce |-> SubSeq(body, n + 37, Len(body))]
             ELSE [deviceID |-> deviceID, serverProof |-> SubSeq(body, n + 1, n + 32)]
          : body \in FixedBodies(f)}

\* What the proof and the session key are computed over, and the session's ID.
ClientAuthInfo(clientNonce, m) ==
    m.deviceID \o clientNonce \o m.salt \o toLittleEndianBytes(m.iterationCount)
        \o SubSeq(m.serverNonce, 1, 32)

Xor(a, b) == [i \in 1..16 |-> <<"xor", a[i], b[i]>>]
ClientSessionID(clientNonce, m) == Xor(clientNonce, m.serverNonce)

\* With a Q-shield: the token's data as they are.
QShieldFrame(type, data) ==
    WithCRC(<<Byte(type)>> \o WriteShort(RequestID) \o <<Byte(SUCCESS), Byte(Len(data))>> \o data)

QShieldData(f) == IF checkMessage(f) THEN {DataOf(f)} ELSE {}

--------------------------------------------------------------------------------
(* The server, which knows some of the root keys. *)

ResponseBody(deviceID, salt, iterationCount, serverNonce) ==
    <<Byte(Len(deviceID))>> \o deviceID \o salt \o bigEndianAddShortToBytes(iterationCount)
        \o <<Byte(0), Byte(0)>> \o serverNonce

ServerProofBody(deviceID, serverProof) == <<Byte(Len(deviceID))>> \o deviceID \o serverProof

wrapMessageStatus(type, status) ==
    <<Byte(type)>> \o bigEndianAddShortToBytes(RequestID) \o <<Byte(status)>>

\* If there is no root key, a failure of the next type.
wrapReply(type, alg, messageBody, known) ==
    LET fixedBody == Encrypt(messageBody, RootKey(KeyID))
        authData == <<Byte(1), Byte(alg)>>
                        \o IF alg = ENCRYPTION_ALGORITHM_AES
                           THEN WriteShort(Len(fixedBody)) \o KeyID \o fixedBody
                           ELSE WriteShort(Len(messageBody)) \o messageBody
    IN IF alg = ENCRYPTION_ALGORITHM_AES /\ KeyID \notin known
       THEN wrapMessageStatus(type + 1, 1)
       ELSE WithCRC(wrapMessageStatus(type, SUCCESS) \o <<Byte(Len(authData))>> \o authData)

unwrapAuthMessage(f, known) ==
    LET aes == At(f, 7) = Byte(ENCRYPTION_ALGORITHM_AES)
        actualLength == Len(f) - 13 - IF aes THEN 16 ELSE 0
        keyID == SubSeq(f, 10, 25)
        fixedBodies == IF ~aes THEN {SubSeq(f, 10, Len(f) - 4)}
                       ELSE IF keyID \in known THEN Decrypt(SubSeq(f, 26, Len(f) - 4), RootKey(keyID))
                       ELSE {}
    IN IF \/ At(f, 1) \notin {Byte(ACCESS_AUTH_REQUEST), Byte(ACCESS_AUTH_CLIENT_PROOF)}
          \/ At(f, 4) # Byte(SUCCESS)
          \/ At(f, 5) # <<"byte", Len(f) - 9>>
          \/ ~CRCRight(f)
          \/ At(f, 6) # Byte(1)
          \/ parseBigEndianBytes(SubSeq(f, 8, 9)) # actualLength
       THEN {}
       ELSE {LET n == 1 + body[1][2]
             IN [type |-> f[1], deviceID |-> SubSeq(body, 2, n), field |-> SubSeq(body, n + 1, Len(body))]
             : body \in fixedBodies}

ServerAuthInfo(deviceID, clientNonce, salt, iterationCount, serverNonce) ==
    deviceID \o clientNonce \o salt \o littleEndianToBytes(iterationCount) \o serverNonce

ServerSessionID(authInfo, deviceIDLength) ==
    Xor(SubSeq(authInfo, deviceIDLength + 1, deviceIDLength + 32),
        SubSeq(authInfo, Len(authInfo) - 31, Len(authInfo)))

--------------------------------------------------------------------------------
DeviceID(n) == Bytes("device", n)
ClientNonce == Bytes("client nonce", 32)
ServerNonce == Bytes("server nonce", 32)
Salt == Bytes("salt", 32)
Proof == Bytes("proof", 32)

\* Either side of where a byte changes its sign or is full.
IterationCounts == {0, 127, 128, 254, 255, 256, 32767, 32768, 65535}

MessageTypes == {ACCESS_AUTH_REQUEST, ACCESS_AUTH_RESPONSE, ACCESS_AUTH_CLIENT_PROOF, ACCESS_AUTH_SERVER_PROOF}

(* What the client wraps the server unwraps, and a Q-shield's data go the same way. *)
ClientUnderstood(type, alg, n) ==
    LET f == wrapAuthMessage(type, alg, DeviceID(n), ClientNonce) IN
    /\ unwrapAuthMessage(f, {KeyID}) =
           {[type |-> Byte(type), deviceID |-> DeviceID(n), field |-> ClientNonce]}
    /\ QShieldFrame(type, DataOf(f)) = f

(* The client unwraps the response, and both sides compute proof, session key   *)
(* and session ID over the same bytes.                                          *)
ResponseUnderstood(alg, n) ==
    \A count \in IterationCounts :
        LET body == ResponseBody(DeviceID(n), Salt, count, ServerNonce)
            f == wrapReply(ACCESS_AUTH_RESPONSE, alg, body, {KeyID})
            authInfo == ServerAuthInfo(DeviceID(n), ClientNonce, Salt, count, ServerNonce)
        IN /\ QShieldData(f) = {DataOf(f)}
           /\ \E m \in unwrapBinaryToAuthMessage(f) :
                /\ ClientAuthInfo(ClientNonce, m) = authInfo
                /\ ClientSessionID(ClientNonce, m) = ServerSessionID(authInfo, n)

ServerProofFrame(alg, n) ==
    wrapReply(ACCESS_AUTH_SERVER_PROOF, alg, ServerProofBody(DeviceID(n), Proof), {KeyID})

ServerProofUnderstood(alg, n) ==
    unwrapBinaryToAuthMessage(ServerProofFrame(alg, n)) = {[deviceID |-> DeviceID(n), serverProof |-> Proof]}

\* The receiver understands every frame of a type, whatever the device and the encryption.
Understood ==
    [type \in MessageTypes |-> \A n \in DeviceIDLengths, alg \in Algorithms :
        CASE type = ACCESS_AUTH_RESPONSE -> ResponseUnderstood(alg, n)
          [] type = ACCESS_AUTH_SERVER_PROOF -> ServerProofUnderstood(alg, n)
          [] OTHER -> ClientUnderstood(type, alg, n)]

Frames(type, lengths) ==
    {CASE type = ACCESS_AUTH_RESPONSE ->
            wrapReply(type, alg, ResponseBody(DeviceID(n), Salt, 1000, ServerNonce), {KeyID})
       [] type = ACCESS_AUTH_SERVER_PROOF -> ServerProofFrame(alg, n)
       [] OTHER -> wrapAuthMessage(type, alg, DeviceID(n), ClientNonce)
     : alg \in Algorithms, n \in lengths}

\* A frame with one byte altered, lost or repeated, or cut short.
Broken(f) ==
    LET n == Len(f) IN
    (UNION {{[f EXCEPT ![i] = <<"other">>],
             SubSeq(f, 1, i - 1) \o SubSeq(f, i + 1, n),
             SubSeq(f, 1, i) \o SubSeq(f, i, n),
             SubSeq(f, 1, i - 1)} : i \in 1..n}) \ {f}

\* Nobody takes the frame for a message.
IsRefused(f) ==
    unwrapAuthMessage(f, {KeyID}) = {} /\ unwrapBinaryToAuthMessage(f) = {} /\ QShieldData(f) = {}

\* Nobody takes a damaged frame of a type for a message.
DamageNoticed ==
    [type \in MessageTypes |-> \A f \in Frames(type, {5, 25}) : \A g \in Broken(f) : IsRefused(g)]

\* Nobody takes a failure for a message: neither the server's answer to a message it
\* refuses, nor that in place of a reply it cannot wrap.
FailureNoticed ==
    \A type \in {ACCESS_AUTH_RESPONSE, ACCESS_AUTH_SERVER_PROOF} :
        /\ IsRefused(wrapMessageStatus(type, 1))
        /\ IsRefused(wrapReply(type, ENCRYPTION_ALGORITHM_AES, <<>>, {}))
================================================================================
