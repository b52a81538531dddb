---------------------------- MODULE AuthServerProofs ---------------------------
(* What the proofs about both clients of the server need of it: the types of   *)
(* its messages and of its state, and what a step of it can do to the wire.    *)
EXTENDS AuthServer, TLAPS

USE NoneAssumption, ParameterAssumption, NoneIsNoTranscript, NoneIsNoMessage

--------------------------------------------------------------------------------
(* Messages and transcripts. *)

LEMMA RequestType ==
    ASSUME NEW c \in Attempt, NEW d \in Device, NEW a \in Attempt
    PROVE  Request(c, d, a) \in ToServer
BY DEF Request, ToServer

LEMMA ResponseType ==
    ASSUME NEW c \in Attempt, NEW d \in Device, NEW a \in Attempt
    PROVE  Response(c, d, a) \in ToClient
BY DEF Response, ToClient

LEMMA ProofType ==
    ASSUME NEW c \in Attempt, NEW t \in Transcript
    PROVE  ClientProof(c, t) \in ToServer /\ ServerProof(c, t) \in ToClient
BY DEF ClientProof, ServerProof, ToServer, ToClient

LEMMA FailureType ==
    ASSUME NEW c \in Attempt
    PROVE  Failure(c) \in ToClient
BY DEF Failure, ToClient

LEMMA MessageType ==
    ASSUME NEW m \in ToServer \cup ToClient
    PROVE  /\ m.ch \in Attempt
           /\ m.type = "REQUEST" => m \in ToServer /\ m.dev \in Device /\ m.cn \in Attempt
           /\ m.type = "CLIENT_PROOF" => m \in ToServer /\ m.proof \in Transcript
           /\ m.type = "RESPONSE" => m \in ToClient /\ m.dev \in Device /\ m.sn \in Attempt
           /\ m.type = "SERVER_PROOF" => m \in ToClient /\ m.proof \in Transcript
BY DEF ToServer, ToClient

LEMMA TranscriptType ==
    ASSUME NEW t \in Transcript
    PROVE  t.dev \in Device /\ t.cn \in Attempt /\ t.sn \in Attempt /\ t.key \in Key
BY DEF Transcript

LEMMA WrittenType ==
    ASSUME NEW c, NEW r \in ToClient, NEW open
    PROVE  Written(c, r, open) \subseteq ToClient
BY DEF Written

LEMMA WrappedType ==
    ASSUME NEW c \in Attempt, NEW r \in ToClient
    PROVE  Wrapped(c, r) \subseteq ToClient
BY FailureType DEF Wrapped

LEMMA AfterCloseType ==
    ASSUME NetTypeOK, ServerTypeOK, NEW d \in Device
    PROVE  AfterClose(d) \in [Attempt -> BOOLEAN] /\ LeftAfterClose(d) \subseteq wire
BY DEF AfterClose, LeftAfterClose, ClosedByServer, NetTypeOK, ServerTypeOK

--------------------------------------------------------------------------------
(* Type correctness. *)

LEMMA ServerNextType ==
    ASSUME NetTypeOK, ServerTypeOK, ServerNext
    PROVE  NetTypeOK' /\ ServerTypeOK'
<1> USE DEF NetTypeOK, ServerTypeOK
<1>1. ASSUME NEW m \in wire, UnknownDevice(m)
      PROVE  NetTypeOK' /\ ServerTypeOK'
  <2>1. m.ch \in Attempt /\ m.dev \in Device
    BY <1>1, MessageType DEF UnknownDevice
  <2>2. wire' \subseteq ToServer \cup ToClient
    BY <1>1, <2>1, FailureType, WrittenType, AfterCloseType DEF UnknownDevice
  <2> QED
    BY <1>1, <2>1, <2>2, AfterCloseType DEF UnknownDevice, IsExistSession
<1>2. ASSUME NEW m \in wire, GenerateAuthResponse(m)
      PROVE  NetTypeOK' /\ ServerTypeOK'
  <2>1. m.ch \in Attempt /\ m.dev \in Device /\ m.cn \in Attempt
    BY <1>2, MessageType DEF GenerateAuthResponse
  <2>2. wire' \subseteq ToServer \cup ToClient
    <3>1. PICK r \in Wrapped(m.ch, Response(m.ch, m.dev, m.cn)) :
              wire' = (LeftAfterClose(m.dev) \ {m})
                          \cup Written(m.ch, r, AfterClose(m.dev))
      BY <1>2 DEF GenerateAuthResponse
    <3>2. r \in ToClient
      BY <2>1, ResponseType, WrappedType
    <3> QED
      BY <2>1, <3>1, <3>2, WrittenType, AfterCloseType
  <2>3. authAssist' \in [Device -> AuthInfo \cup {None}]
    BY <1>2, <2>1 DEF GenerateAuthResponse, AuthInfo
  <2> QED
    BY <1>2, <2>1, <2>2, <2>3, AfterCloseType
    DEF GenerateAuthResponse, IsExistSession
<1>3. ASSUME NEW m \in wire, AcceptClientProof(m)
      PROVE  NetTypeOK' /\ ServerTypeOK'
  <2>1. m.ch \in Attempt /\ m.proof \in Transcript /\ m.proof.dev \in Device
    BY <1>3, MessageType, TranscriptType DEF AcceptClientProof
  <2>2. wire' \subseteq ToServer \cup ToClient
    <3>1. PICK r \in Wrapped(m.ch, ServerProof(m.ch, m.proof)) :
              wire' = (wire \ {m}) \cup Written(m.ch, r, srvOpen)
      BY <1>3 DEF AcceptClientProof
    <3>2. r \in ToClient
      BY <2>1, ProofType, WrappedType
    <3> QED
      BY <3>1, <3>2, WrittenType
  <2> QED
    BY <1>3, <2>1, <2>2 DEF AcceptClientProof
<1>4. ASSUME NEW m \in wire, RefuseClientProof(m)
      PROVE  NetTypeOK' /\ ServerTypeOK'
  <2>1. m.ch \in Attempt /\ m.proof.dev \in Device
    BY <1>4, MessageType, TranscriptType DEF RefuseClientProof
  <2> QED
    BY <1>4, <2>1, FailureType, WrittenType DEF RefuseClientProof
<1>5. ASSUME NEW m \in wire, RejectFrame(m)
      PROVE  NetTypeOK' /\ ServerTypeOK'
  BY <1>5, MessageType, FailureType, WrittenType DEF RejectFrame, serverVars
<1>6. ASSUME NEW r \in toRegister, RegisterConnection(r)
      PROVE  NetTypeOK' /\ ServerTypeOK'
  BY <1>6 DEF RegisterConnection, netVars
<1>7. ASSUME NEW c \in Attempt, Disconnect(c)
      PROVE  NetTypeOK' /\ ServerTypeOK'
  BY <1>7 DEF Disconnect
<1>8. ASSUME NEW c \in Attempt, LoseConnection(c)
      PROVE  NetTypeOK' /\ ServerTypeOK'
  BY <1>8 DEF LoseConnection, serverVars
<1>9. ASSUME ServerRestart
      PROVE  NetTypeOK' /\ ServerTypeOK'
  BY <1>9 DEF ServerRestart
<1> QED
  BY <1>1, <1>2, <1>3, <1>4, <1>5, <1>6, <1>7, <1>8, <1>9
  DEF ServerNext, ProcessAuthencaition, ServerFrame

--------------------------------------------------------------------------------
(* What the server writes. *)

LEMMA ServerWrites ==
    ASSUME NEW c, NEW r, NEW open, NEW n \in Written(c, r, open)
    PROVE  n = r
BY DEF Written

LEMMA WrappedReply ==
    ASSUME NEW c, NEW r, NEW w \in Wrapped(c, r)
    PROVE  w = r \/ w = Failure(c)
BY DEF Wrapped

LEMMA ServerOpensNothing ==
    ASSUME NetTypeOK, ServerNext, NEW c \in Attempt, cliOpen'[c]
    PROVE  cliOpen[c]
BY DEF ServerNext, ProcessAuthencaition, ServerFrame, UnknownDevice, GenerateAuthResponse,
   AcceptClientProof, RefuseClientProof, RejectFrame, RegisterConnection, Disconnect,
   LoseConnection, ServerRestart, netVars, NetTypeOK

\* Message r is what the server may put in the place of message m: its own proof
\* only if it establishes the session.
Answers(m, r) ==
    \/ r = Failure(m.ch)
    \/ m.type = "REQUEST" /\ r = Response(m.ch, m.dev, m.cn)
    \/ /\ m.type = "CLIENT_PROOF" /\ r = ServerProof(m.ch, m.proof)
       /\ CheckClientAuthentication(m.proof) /\ m.proof \in established'

\* A step of the server takes messages away, or one of them and answers it.
LEMMA ServerAnswers ==
    ASSUME NetTypeOK, ServerTypeOK, ServerNext
    PROVE  \/ wire' \subseteq wire
           \/ \E m \in wire : \E r : Answers(m, r) /\ wire' \subseteq (wire \ {m}) \cup {r}
<1> USE DEF NetTypeOK, ServerTypeOK
<1> DEFINE Taken == wire' \subseteq wire
           Answered == \E m \in wire : \E r : /\ Answers(m, r)
                                            /\ wire' \subseteq (wire \ {m}) \cup {r}
<1>0. ASSUME NEW m \in wire, NEW r, Answers(m, r), wire' \subseteq (wire \ {m}) \cup {r}
      PROVE  Answered
  BY <1>0
<1>1. ASSUME NEW m \in wire, UnknownDevice(m) \/ RefuseClientProof(m) \/ RejectFrame(m)
      PROVE  Answered
  <2>1. ASSUME UnknownDevice(m)
        PROVE  wire' \subseteq (wire \ {m}) \cup {Failure(m.ch)}
    BY <2>1, ServerWrites, MessageType, AfterCloseType DEF UnknownDevice
  <2>2. ASSUME RefuseClientProof(m) \/ RejectFrame(m)
        PROVE  wire' \subseteq (wire \ {m}) \cup {Failure(m.ch)}
    BY <2>2, ServerWrites DEF RefuseClientProof, RejectFrame
  <2>3. wire' \subseteq (wire \ {m}) \cup {Failure(m.ch)}
    BY <1>1, <2>1, <2>2
  <2> QED
    BY <1>0, <2>3 DEF Answers
<1>2. ASSUME NEW m \in wire, GenerateAuthResponse(m)
      PROVE  Answered
  <2>1. m.type = "REQUEST" /\ m.dev \in Device
    BY <1>2, MessageType DEF GenerateAuthResponse
  <2>2. PICK r \in Wrapped(m.ch, Response(m.ch, m.dev, m.cn)) :
            wire' = (LeftAfterClose(m.dev) \ {m}) \cup Written(m.ch, r, AfterClose(m.dev))
    BY <1>2 DEF GenerateAuthResponse
  <2>3. wire' \subseteq (wire \ {m}) \cup {r}
    BY <2>1, <2>2, ServerWrites, AfterCloseType
  <2>4. Answers(m, r)
    BY <2>1, WrappedReply DEF Answers
  <2> QED
    BY <1>0, <2>3, <2>4
<1>3. ASSUME NEW m \in wire, AcceptClientProof(m)
      PROVE  Answered
  <2>1. PICK r \in Wrapped(m.ch, ServerProof(m.ch, m.proof)) :
            wire' = (wire \ {m}) \cup Written(m.ch, r, srvOpen)
    BY <1>3 DEF AcceptClientProof
  <2>2. wire' \subseteq (wire \ {m}) \cup {r}
    BY <2>1, ServerWrites
  <2> QED
    BY <1>0, <1>3, <2>1, <2>2, WrappedReply DEF AcceptClientProof, Answers
<1>4. ASSUME NEW r \in toRegister, RegisterConnection(r)
      PROVE  Taken
  BY <1>4 DEF RegisterConnection, netVars
<1>5. ASSUME NEW c \in Attempt, Disconnect(c) \/ LoseConnection(c)
      PROVE  Taken
  BY <1>5 DEF Disconnect, LoseConnection
<1>6. ASSUME ServerRestart
      PROVE  Taken
  BY <1>6 DEF ServerRestart
<1> HIDE DEF Taken, Answered
<1>7. Taken \/ Answered
  BY <1>1, <1>2, <1>3, <1>4, <1>5, <1>6 DEF ServerNext, ProcessAuthencaition, ServerFrame
<1> QED
  BY <1>7 DEF Taken, Answered

\* A step of the server begins at most the exchange of a request that is there, and
\* establishes at most the session of a proof that checks.
LEMMA ServerMaps ==
    ASSUME NetTypeOK, ServerTypeOK, ServerNext
    PROVE  /\ \A d \in Device : authAssist'[d] # None =>
                 \/ authAssist'[d] = authAssist[d]
                 \/ \E m \in wire : /\ m.type = "REQUEST" /\ m.dev = d
                                    /\ authAssist'[d] = [cn |-> m.cn, sn |-> m.cn]
           /\ \/ established' = established
              \/ \E m \in wire : /\ m.type = "CLIENT_PROOF"
                                 /\ CheckClientAuthentication(m.proof)
                                 /\ AcceptClientProof(m)
                                 /\ established' = established \cup {m.proof}
<1> USE DEF NetTypeOK, ServerTypeOK
<1>1. ASSUME NEW m \in wire, GenerateAuthResponse(m)
      PROVE  established' = established /\ \A d \in Device : authAssist'[d] # None =>
                 \/ authAssist'[d] = authAssist[d]
                 \/ /\ m.type = "REQUEST" /\ m.dev = d
                    /\ authAssist'[d] = [cn |-> m.cn, sn |-> m.cn]
  BY <1>1 DEF GenerateAuthResponse
<1>2. ASSUME NEW m \in wire, AcceptClientProof(m) \/ RefuseClientProof(m)
      PROVE  \A d \in Device : authAssist'[d] # None => authAssist'[d] = authAssist[d]
  BY <1>2 DEF AcceptClientProof, RefuseClientProof
<1>3. \A d \in Device : authAssist'[d] # None =>
          \/ authAssist'[d] = authAssist[d]
          \/ \E m \in wire : /\ m.type = "REQUEST" /\ m.dev = d
                             /\ authAssist'[d] = [cn |-> m.cn, sn |-> m.cn]
  <2>1. CASE \E m \in wire : GenerateAuthResponse(m)
    BY <1>1, <2>1
  <2>2. CASE \E m \in wire : AcceptClientProof(m) \/ RefuseClientProof(m)
    BY <1>2, <2>2
  <2>3. CASE authAssist' = authAssist \/ ServerRestart
    BY <2>3 DEF ServerRestart
  <2> QED
    BY <2>1, <2>2, <2>3 DEF ServerNext, ProcessAuthencaition, ServerFrame, UnknownDevice,
        RejectFrame, RegisterConnection, Disconnect, LoseConnection, serverVars
<1>4. \/ established' = established
      \/ \E m \in wire : AcceptClientProof(m)
  BY <1>1 DEF ServerNext, ProcessAuthencaition, ServerFrame, UnknownDevice,
      RefuseClientProof, RejectFrame, RegisterConnection, Disconnect,
      LoseConnection, ServerRestart, serverVars
<1> QED
  BY <1>3, <1>4 DEF AcceptClientProof
================================================================================
