------------------------------ MODULE MCAccessAuth -----------------------------
(* Small instances of AccessAuth for TLC. *)
EXTENDS AccessAuth, PacketCodec, TLC

CONSTANTS a1, a2, a3, d1, d2, k1, k2, good, bad

\* One device, one client that retries.
RetryDevice == [a \in Attempt |-> d1]
RetryClient == [a \in Attempt |-> k1]

\* Two devices, each with a client of its own.
OwnDevice == (a1 :> d1 @@ a2 :> d2)
OwnClient == (a1 :> k1 @@ a2 :> k2)

\* A device that authenticates twice beside another that does so once.
MixedDevice == (a1 :> d1 @@ a2 :> d1 @@ a3 :> d2)
MixedClient == (a1 :> k1 @@ a2 :> k1 @@ a3 :> k2)

AllGood     == [a \in Attempt |-> good]
BadThenGood == [a \in Attempt |-> IF a = a1 THEN bad ELSE good]
KnownDevice == [d \in Device |-> good]
OneUnknown  == [d \in Device |-> IF d = d1 THEN good ELSE None]

--------------------------------------------------------------------------------
\* The messages that are sent, as bytes.
PacketType ==
    [REQUEST |-> ACCESS_AUTH_REQUEST, RESPONSE |-> ACCESS_AUTH_RESPONSE,
     CLIENT_PROOF |-> ACCESS_AUTH_CLIENT_PROOF, SERVER_PROOF |-> ACCESS_AUTH_SERVER_PROOF]

OnItsWay == {PacketType[m.type] : m \in {n \in wire : n.type # "FAILURE"}}

(* What is on its way will be understood, for every device ID that is allowed,  *)
(* encrypted or not: the length of the data, a signed byte, never overflows,    *)
(* and both sides compute proof, session key and session ID over the same       *)
(* bytes, although byte orders differ, fields are found by counting, and the    *)
(* client takes the CRC for a part of the server's nonce (both PacketUtil).     *)
FramesUnderstood == \A type \in OnItsWay : Understood[type]

(* What is on its way cannot be damaged and still be taken for a message, and   *)
(* a failure is taken for none, whatever type the server gives it (checkMessage *)
(* and unwrapAuthMessage).                                                      *)
BrokenFramesRefused ==
    /\ \A type \in OnItsWay : DamageNoticed[type]
    /\ (\E m \in wire : m.type = "FAILURE") => FailureNoticed
================================================================================
