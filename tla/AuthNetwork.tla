------------------------------ MODULE AuthNetwork ------------------------------
(***************************************************************************)
(* The vocabulary of the access-authentication protocol and the transport  *)
(* between AuthenticationClient and AuthenticationServer.                  *)
(*                                                                         *)
(* One ATTEMPT is one call of AuthenticationClient.startAccessAuth.  It    *)
(* draws one client nonce and opens at most one channel; both are named by *)
(* the attempt.  The server draws a fresh nonce for each request; as an    *)
(* attempt sends one request, that nonce is named by the attempt whose     *)
(* request it answers.                                                     *)
(*                                                                         *)
(* Cryptography is symbolic.  A client proof, a server proof and a session *)
(* key are all functions of (key, deviceID, clientNonce, serverNonce); two *)
(* of them are equal exactly when those four are, so each is written as    *)
(* the TRANSCRIPT of the four.  Salt and iteration count come from the     *)
(* device's database row and are part of what makes a key the right one.   *)
(***************************************************************************)
CONSTANTS
    Attempt,    \* calls of startAccessAuth
    Device,     \* device IDs
    Client,     \* AuthenticationClient instances
    Key,        \* quantum keys
    DeviceOf,   \* the device an attempt authenticates
    ClientOf,   \* the AuthenticationClient instance an attempt is called on
    KeyOf,      \* the quantum key the application passes to an attempt
    Password,   \* the key the server's database holds for a device, or None
    None,       \* null
    Faults      \* what the environment may do wrong

FaultKind == {"timeout", "interrupt", "connect", "send", "lose",
              "restart", "frame", "wrap", "argument", "encrypt", "token", "swap"}

ASSUME NoneAssumption ==
    None \notin Attempt /\ None \notin Device /\ None \notin Key

ASSUME ParameterAssumption ==
    /\ DeviceOf \in [Attempt -> Device]
    /\ ClientOf \in [Attempt -> Client]
    /\ KeyOf \in [Attempt -> Key]
    /\ Password \in [Device -> Key \cup {None}]
    /\ Faults \subseteq FaultKind

Transcript == [dev : Device, cn : Attempt, sn : Attempt, key : Key]

ASSUME NoneIsNoTranscript == None \notin Transcript

--------------------------------------------------------------------------------
(* Messages.  ch is the channel, named by the attempt that opened it. *)

Request(c, d, a)   == [type |-> "REQUEST", ch |-> c, dev |-> d, cn |-> a]
Response(c, d, sn) == [type |-> "RESPONSE", ch |-> c, dev |-> d, sn |-> sn]
ClientProof(c, t)  == [type |-> "CLIENT_PROOF", ch |-> c, proof |-> t]
ServerProof(c, t)  == [type |-> "SERVER_PROOF", ch |-> c, proof |-> t]
Failure(c)         == [type |-> "FAILURE", ch |-> c]

ToServer ==
    [type : {"REQUEST"}, ch : Attempt, dev : Device, cn : Attempt]
        \cup [type : {"CLIENT_PROOF"}, ch : Attempt, proof : Transcript]

ToClient ==
    [type : {"RESPONSE"}, ch : Attempt, dev : Device, sn : Attempt]
        \cup [type : {"SERVER_PROOF"}, ch : Attempt, proof : Transcript]
        \cup [type : {"FAILURE"}, ch : Attempt]

ASSUME NoneIsNoMessage == None \notin ToClient

VARIABLES
    wire,       \* messages in flight
    cliOpen,    \* the client's end of a channel is open
    srvOpen     \* the server's end of a channel is open

netVars == <<wire, cliOpen, srvOpen>>

NetTypeOK ==
    /\ wire \subseteq ToServer \cup ToClient
    /\ cliOpen \in [Attempt -> BOOLEAN]
    /\ srvOpen \in [Attempt -> BOOLEAN]

NetInit ==
    /\ wire = {}
    /\ cliOpen = [c \in Attempt |-> FALSE]
    /\ srvOpen = [c \in Attempt |-> FALSE]

\* What a close of one end of channel c leaves in flight: what that end had
\* not read yet is gone, what it had written may still arrive.
ClosedByClient(c) == {m \in wire : ~(m \in ToClient /\ m.ch = c)}
ClosedByServer(c) == {m \in wire : ~(m \in ToServer /\ m.ch = c)}
================================================================================
