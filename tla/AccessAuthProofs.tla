---------------------------- MODULE AccessAuthProofs ---------------------------
(* Proofs about AccessAuth, for every set of attempts, devices and clients:     *)
(* its types; AgreementInv, which is inductive, and what follows from it: the   *)
(* server agrees with its clients whether or not clients share a device, and    *)
(* whatever faults occur; then what callers get, and the frames on their way.   *)
EXTENDS MCAccessAuth, AuthServerProofs, PacketCodecProofs

USE NoneAssumption, ParameterAssumption, NoneIsNoTranscript, NoneIsNoMessage

--------------------------------------------------------------------------------
(* Type correctness. *)

LEMMA InitTypeOK == Init => TypeOK
BY DEF Init, NetInit, ServerInit, ClientInit, TypeOK, NetTypeOK, ServerTypeOK,
       ClientTypeOK, LocalsOK, CallerPC, HandlerPC

LEMMA ServerTypeStep ==
    ASSUME TypeOK, ServerNext, UNCHANGED clientVars
    PROVE  TypeOK'
<1>1. ClientTypeOK'
  BY DEF TypeOK, ClientTypeOK, LocalsOK, clientVars, assistVars, callerVars, handlerVars
<1> QED
  BY <1>1, ServerNextType DEF TypeOK

LEMMA CallerTypeStep ==
    ASSUME TypeOK, NEW a \in Attempt,
           StartAccessAuth(a) \/ CallerStep(a) \/ CallerFault(a),
           UNCHANGED serverVars
    PROVE  TypeOK'
<1> USE DEF TypeOK, NetTypeOK, ClientTypeOK, LocalsOK, CallerPC, MoveCaller,
            netVars, assistVars, handlerVars
<1>0. ServerTypeOK'
  BY DEF ServerTypeOK, serverVars
<1>1. DeviceOf[a] \in Device /\ ClientOf[a] \in Client
  OBVIOUS
<1>2. CASE StartAccessAuth(a)
  BY <1>0, <1>2 DEF StartAccessAuth
<1>3. CASE Reset(a)
  BY <1>0, <1>1, <1>3 DEF Reset
<1>4. CASE CreateChannel(a)
  BY <1>0, <1>1, <1>4 DEF CreateChannel
<1>5. CASE SendRequest(a)
  <2>1. ChannelOf(a) \in Attempt
    BY <1>1, <1>5 DEF SendRequest, ChannelOf
  <2> QED
    BY <1>0, <1>1, <1>5, <2>1, RequestType DEF SendRequest
<1>6. CASE GetEntry(a)
  BY <1>0, <1>1, <1>6 DEF GetEntry
<1>7. CASE Awake(a) \/ Timeout(a)
  BY <1>0, <1>7 DEF Awake, Timeout, Advance
<1>8. CASE Interrupted(a) \/ SendFails(a) \/ RefuseArgument(a) \/ RequestFails(a)
  BY <1>0, <1>8 DEF Interrupted, SendFails, RefuseArgument, RequestFails, Advance
<1>9. CASE CreateChannelFails(a)
  BY <1>0, <1>9 DEF CreateChannelFails, Advance, ChannelOf
<1>10. CASE RemoveEntry(a)
  BY <1>0, <1>1, <1>10 DEF RemoveEntry
<1>11. CASE ReturnSession(a)
  BY <1>0, <1>11 DEF ReturnSession, Return
<1>12. CASE Close(a)
  BY <1>0, <1>1, <1>12 DEF Close, CloseChannel, ClosedByClient, ChannelOf
<1> QED
  BY <1>2, <1>3, <1>4, <1>5, <1>6, <1>7, <1>8, <1>9, <1>10, <1>11, <1>12
  DEF CallerStep, CallerFault

\* A handler step that only changes the locals of its thread.
LEMMA FinishType ==
    ASSUME TypeOK, NEW c \in Attempt, Finish(c), UNCHANGED serverVars,
           UNCHANGED <<netVars, registered, assistVars, channels, callerVars, delivered>>
    PROVE  TypeOK'
BY DEF Finish, TypeOK, NetTypeOK, ServerTypeOK, ClientTypeOK, LocalsOK, HandlerPC,
       serverVars, netVars, assistVars, callerVars

LEMMA ContinueType ==
    ASSUME TypeOK, NEW c \in Attempt, NEW to \in HandlerPC \ {"queued"},
           NEW e \in Attempt \cup {None}, NEW t \in Transcript \cup {None},
           Continue(c, to, e, t), UNCHANGED serverVars,
           task[c] # "idle",
           to \in {"nonce", "entry", "session"} => msg[c].type = "RESPONSE",
           to \in {"proof", "verified"} => msg[c].type = "SERVER_PROOF",
           to \in {"nonce", "entry", "session", "verified"} => t # None,
           to \in {"entry", "session", "proof", "verified"} => e # None,
           UNCHANGED <<netVars, registered, assistVars, channels, callerVars, delivered>>
    PROVE  TypeOK'
BY DEF Continue, TypeOK, NetTypeOK, ServerTypeOK, ClientTypeOK, LocalsOK, HandlerPC,
       serverVars, netVars, assistVars, callerVars

LEMMA HandlerTypeStep ==
    ASSUME TypeOK, NEW c \in Attempt, HandlerStep(c), UNCHANGED serverVars
    PROVE  TypeOK'
<1> USE DEF TypeOK, NetTypeOK, ClientTypeOK, LocalsOK, HandlerPC, Finish, Continue,
            Enter, netVars, assistVars, callerVars
<1>0. ServerTypeOK'
  BY DEF ServerTypeOK, serverVars
<1>1. ASSUME NEW m \in wire, Receive(c, m)
      PROVE  TypeOK'
  BY <1>0, <1>1 DEF Receive
<1>2. CASE IgnoreFailure(c)
  BY <1>0, <1>2 DEF IgnoreFailure
<1>3. CASE ReadNonceAndKey(c)
  <2> DEFINE e == assistMap[msg[c].dev]
             t == [dev |-> msg[c].dev, cn |-> e, sn |-> msg[c].sn, key |-> KeyOf[e]]
  <2>1. msg[c] \in ToClient /\ msg[c].dev \in Device /\ msg[c].sn \in Attempt
    BY <1>3, MessageType DEF ReadNonceAndKey
  <2>2. CASE e = None
    BY <1>3, <2>2, FinishType DEF ReadNonceAndKey
  <2>3. CASE e # None
    <3>1. t \in Transcript
      BY <2>1, <2>3 DEF Transcript
    <3>2. Continue(c, "nonce", None, t)
      BY <1>3, <2>3 DEF ReadNonceAndKey
    <3> QED
      BY <1>3, <3>1, <3>2, ContinueType DEF ReadNonceAndKey
  <2> QED
    BY <2>2, <2>3
<1>4. CASE LookUpEntry(c)
  <2> DEFINE e == assistMap[computed[c].dev]
  <2>1. computed[c] \in Transcript /\ computed[c].dev \in Device
    BY <1>4, TranscriptType DEF LookUpEntry
  <2>2. CASE e = None
    BY <1>4, <2>2, FinishType DEF LookUpEntry
  <2>3. CASE e # None
    BY <1>4, <2>1, <2>3, ContinueType DEF LookUpEntry
  <2> QED
    BY <2>2, <2>3
<1>5. CASE SetSessionInfo(c)
  BY <1>0, <1>5 DEF SetSessionInfo
<1>6. CASE PutEntryAndSendProof(c)
  <2>1. computed[c] \in Transcript /\ computed[c].dev \in Device
    BY <1>6, TranscriptType DEF PutEntryAndSendProof
  <2> QED
    BY <1>0, <1>6, <2>1, ProofType DEF PutEntryAndSendProof
<1>7. CASE LookUpForProof(c)
  <2> DEFINE e == assistMap[msg[c].proof.dev]
  <2>1. msg[c] \in ToClient /\ msg[c].proof \in Transcript /\ msg[c].proof.dev \in Device
    BY <1>7, MessageType, TranscriptType DEF LookUpForProof
  <2>2. CASE e = None
    BY <1>7, <2>2, FinishType DEF LookUpForProof
  <2>3. CASE e # None
    BY <1>7, <2>1, <2>3, ContinueType DEF LookUpForProof
  <2> QED
    BY <2>2, <2>3
<1>8. CASE CheckServerProof(c)
  <2> DEFINE t == session[found[c]]
  <2>1. found[c] \in Attempt /\ t \in Transcript \cup {None}
    BY <1>8 DEF CheckServerProof
  <2>2. msg[c] \in ToClient /\ msg[c].proof \in Transcript
    BY <1>8, MessageType DEF CheckServerProof
  <2>3. CASE t = msg[c].proof
    BY <1>8, <2>1, <2>2, <2>3, ContinueType DEF CheckServerProof
  <2>4. CASE t # msg[c].proof
    BY <1>8, <2>4, FinishType DEF CheckServerProof
  <2> QED
    BY <2>3, <2>4
<1>9. CASE Succeed(c)
  BY <1>0, <1>9 DEF Succeed
<1> QED
  BY <1>1, <1>2, <1>3, <1>4, <1>5, <1>6, <1>7, <1>8, <1>9 DEF HandlerStep

(* Every variable keeps its type, and the locals of a thread are set where the *)
(* thread uses them: no step of any thread reads a null entry or session.      *)
THEOREM TypeCorrect == Spec => []TypeOK
<1>1. TypeOK /\ [Next]_vars => TypeOK'
  <2> SUFFICES ASSUME TypeOK, [Next]_vars PROVE TypeOK'
    OBVIOUS
  <2>1. CASE UNCHANGED vars
    BY <2>1 DEF vars, netVars, serverVars, clientVars, assistVars, callerVars, handlerVars,
        TypeOK, NetTypeOK, ServerTypeOK, ClientTypeOK, LocalsOK
  <2>2. CASE ClientNext /\ UNCHANGED serverVars
    BY <2>2, CallerTypeStep, HandlerTypeStep DEF ClientNext
  <2>3. CASE ServerNext /\ UNCHANGED clientVars
    BY <2>3, ServerTypeStep
  <2> QED
    BY <2>1, <2>2, <2>3 DEF Next
<1> QED
  BY <1>1, InitTypeOK, PTL DEF Spec

--------------------------------------------------------------------------------
(* What keeps each part of AgreementInv.  An attempt that has sent stays so;   *)
(* a step that puts no message of the part's type on the wire and adds nothing *)
(* to the maps cannot break it.                                                *)

SentStays == \A a \in Attempt : Sent(a) => Sent(a)'

LEMMA EntriesStable ==
    ASSUME EntriesFiledByDevice, UNCHANGED <<assistMap, handlerVars>>,
           \A m \in wire' : m.type = "CLIENT_PROOF" => m \in wire
    PROVE  EntriesFiledByDevice'
BY DEF EntriesFiledByDevice, handlerVars, Bound

LEMMA RequestsStable ==
    ASSUME TypeOK, RequestsFresh, SentStays,
           \A m \in wire' : m.type = "REQUEST" => m \in wire,
           \A d \in Device : authAssist'[d] # None => authAssist'[d] = authAssist[d],
           established' = established
    PROVE  RequestsFresh'
<1> SUFFICES ASSUME NEW m \in wire', m.type = "REQUEST"
             PROVE  /\ m.dev = DeviceOf[m.cn]
                    /\ Sent(m.cn)'
                    /\ \A n \in wire' : n.type = "REQUEST" /\ n.cn = m.cn => n = m
                    /\ \A d \in Device : authAssist'[d] # None => authAssist'[d].sn # m.cn
                    /\ \A t \in established' : t.sn # m.cn
  BY DEF RequestsFresh
<1>1. m \in wire /\ m.cn \in Attempt
  BY MessageType DEF TypeOK, NetTypeOK
<1> QED
  BY <1>1 DEF RequestsFresh, SentStays

LEMMA ExchangesStable ==
    ASSUME TypeOK, ExchangesFresh, SentStays,
           \A d \in Device : authAssist'[d] # None => authAssist'[d] = authAssist[d],
           established' = established
    PROVE  ExchangesFresh'
<1> SUFFICES ASSUME NEW d \in Device, authAssist'[d] # None
             PROVE  /\ authAssist'[d].cn = authAssist'[d].sn
                    /\ DeviceOf[authAssist'[d].sn] = d
                    /\ pc'[authAssist'[d].sn] \notin {"idle", "init", "reset", "ready"}
                    /\ \A t \in established' : t.sn # authAssist'[d].sn
  BY DEF ExchangesFresh, Sent
<1>1. authAssist'[d] = authAssist[d] /\ authAssist[d].sn \in Attempt
  BY DEF TypeOK, ServerTypeOK, AuthInfo
<1> QED
  BY <1>1 DEF ExchangesFresh, SentStays, Sent

LEMMA SessionsStable ==
    ASSUME TypeOK, SessionsGenuine, SentStays, established' = established
    PROVE  SessionsGenuine'
BY TranscriptType DEF SessionsGenuine, SentStays, Bound, Genuine, TypeOK, ServerTypeOK

LEMMA ProofsStable ==
    ASSUME ProofsEstablished, UNCHANGED <<handlerVars, delivered>>,
           established \subseteq established',
           \A m \in wire' : m.type = "SERVER_PROOF" => m \in wire
    PROVE  ProofsEstablished'
BY DEF ProofsEstablished, DeliveredIsEstablished, handlerVars

LEMMA InitAgreement == Init => AgreementInv
BY DEF Init, NetInit, ServerInit, ClientInit, AgreementInv, EntriesFiledByDevice,
       RequestsFresh, ExchangesFresh, SessionsGenuine, ProofsEstablished,
       DeliveredIsEstablished

--------------------------------------------------------------------------------
(* The application threads. *)

LEMMA CallerKeepsSent ==
    ASSUME TypeOK, NEW a \in Attempt,
           StartAccessAuth(a) \/ CallerStep(a) \/ CallerFault(a)
    PROVE  SentStays
<1> USE DEF SentStays, Sent, TypeOK, ClientTypeOK, MoveCaller, Advance
<1>1. CASE StartAccessAuth(a) \/ CallerFault(a)
  BY <1>1 DEF StartAccessAuth, CallerFault, CreateChannelFails, SendFails, Interrupted,
      RefuseArgument, RequestFails
<1>2. CASE CallerStep(a)
  BY <1>2 DEF CallerStep, Reset, CreateChannel, SendRequest, GetEntry, Awake, Timeout,
      RemoveEntry, ReturnSession, Return, Close, CloseChannel
<1> QED
  BY <1>1, <1>2

LEMMA CallerAgreementStep ==
    ASSUME TypeOK, AgreementInv, NEW a \in Attempt,
           StartAccessAuth(a) \/ CallerStep(a) \/ CallerFault(a),
           UNCHANGED serverVars
    PROVE  AgreementInv'
<1> USE DEF serverVars
<1>0. SentStays
  BY CallerKeepsSent
<1>1. DeviceOf[a] \in Device /\ UNCHANGED <<handlerVars, delivered>>
  <2>1. CASE StartAccessAuth(a) \/ CallerFault(a)
    BY <2>1 DEF StartAccessAuth, CallerFault, CreateChannelFails, SendFails, Interrupted,
        RefuseArgument, RequestFails, Advance
  <2>2. CASE CallerStep(a)
    BY <2>2 DEF CallerStep, Reset, CreateChannel, SendRequest, GetEntry, Awake, Timeout,
        Advance, RemoveEntry, ReturnSession, Return, Close, CloseChannel
  <2> QED
    BY <2>1, <2>2
<1>2. ExchangesFresh' /\ SessionsGenuine'
  BY <1>0, ExchangesStable, SessionsStable DEF AgreementInv
<1>3. CASE SendRequest(a)
  <2> DEFINE r == Request(ChannelOf(a), DeviceOf[a], a)
  <2>1. \A m \in wire' : m \in wire \/ m = r
    BY <1>3 DEF SendRequest
  <2>2. r.type = "REQUEST" /\ r.dev = DeviceOf[a] /\ r.cn = a
    BY DEF Request
  <2>3. ~Sent(a) /\ Sent(a)'
    BY <1>3 DEF SendRequest, MoveCaller, Sent, TypeOK, ClientTypeOK
  <2>4. EntriesFiledByDevice' /\ ProofsEstablished'
    BY <1>1, <1>3, <2>1, <2>2, EntriesStable, ProofsStable DEF AgreementInv, SendRequest, assistVars
  <2>5. RequestsFresh'
    <3> SUFFICES ASSUME NEW m \in wire', m.type = "REQUEST"
                 PROVE  /\ m.dev = DeviceOf[m.cn]
                        /\ Sent(m.cn)'
                        /\ \A n \in wire' : n.type = "REQUEST" /\ n.cn = m.cn => n = m
                        /\ \A d \in Device : authAssist[d] # None => authAssist[d].sn # m.cn
                        /\ \A t \in established : t.sn # m.cn
      BY DEF RequestsFresh
    <3>1. \A n \in wire : n.type = "REQUEST" => n.cn \in Attempt /\ n.cn # a
      BY <2>3, MessageType DEF AgreementInv, RequestsFresh, TypeOK, NetTypeOK
    <3>2. CASE m = r
      BY <2>1, <2>2, <2>3, <3>1, <3>2
      DEF AgreementInv, ExchangesFresh, SessionsGenuine
    <3>3. CASE m \in wire
      BY <1>0, <2>1, <2>2, <3>1, <3>3 DEF AgreementInv, RequestsFresh, SentStays
    <3> QED
      BY <2>1, <3>2, <3>3
  <2> QED
    BY <1>2, <2>4, <2>5 DEF AgreementInv
<1>4. CASE ~SendRequest(a)
  <2>1. wire' \subseteq wire
    BY <1>4 DEF CallerStep, CallerFault, StartAccessAuth, CreateChannelFails, SendFails,
        Interrupted, RefuseArgument, RequestFails, Advance, Reset, CreateChannel, GetEntry, Awake, Timeout, netVars,
        RemoveEntry, ReturnSession, Return, Close, CloseChannel, ClosedByClient
  <2>2. RequestsFresh' /\ ProofsEstablished'
    BY <1>0, <1>1, <2>1, RequestsStable, ProofsStable DEF AgreementInv
  <2>3. EntriesFiledByDevice'
    <3>1. CASE Reset(a) \/ RemoveEntry(a)
      <4>1. \A d \in Device : assistMap'[d] # None => DeviceOf[assistMap'[d]] = d
        BY <1>1, <3>1 DEF Reset, RemoveEntry, AgreementInv, EntriesFiledByDevice, TypeOK,
            ClientTypeOK
      <4> QED
        BY <1>1, <2>1, <4>1 DEF AgreementInv, EntriesFiledByDevice, Bound, handlerVars
    <3>2. CASE ~Reset(a) /\ ~RemoveEntry(a)
      <4>1. assistMap' = assistMap
        BY <1>4, <3>2 DEF CallerStep, CallerFault, StartAccessAuth, CreateChannelFails,
            SendFails, Interrupted, RefuseArgument, RequestFails, Advance, CreateChannel, GetEntry, Awake, Timeout,
            ReturnSession, Return, Close, CloseChannel, assistVars
      <4> QED
        BY <1>1, <2>1, <4>1, EntriesStable DEF AgreementInv
    <3> QED
      BY <3>1, <3>2
  <2> QED
    BY <1>2, <2>2, <2>3 DEF AgreementInv
<1> QED
  BY <1>3, <1>4

--------------------------------------------------------------------------------
(* The channel threads. *)

\* A channel thread changes no other thread's locals.
LEMMA HandlerOwnLocals ==
    ASSUME TypeOK, NEW c \in Attempt, HandlerStep(c), NEW b \in Attempt, b # c
    PROVE  /\ task'[b] = task[b] /\ msg'[b] = msg[b]
           /\ found'[b] = found[b] /\ computed'[b] = computed[b]
<1> USE DEF HandlerStep, Finish, Continue, TypeOK, ClientTypeOK
<1>1. CASE ReadNonceAndKey(c) \/ LookUpEntry(c)
  BY <1>1 DEF ReadNonceAndKey, LookUpEntry
<1>2. CASE LookUpForProof(c) \/ CheckServerProof(c)
  BY <1>2 DEF LookUpForProof, CheckServerProof
<1>3. CASE ~(ReadNonceAndKey(c) \/ LookUpEntry(c) \/ LookUpForProof(c) \/ CheckServerProof(c))
  BY <1>3 DEF Receive, IgnoreFailure, SetSessionInfo, PutEntryAndSendProof, Succeed
<1> QED
  BY <1>1, <1>2, <1>3

\* The locals with which a channel thread leaves each of its steps.
LeavesLocals(c) ==
    /\ task'[c] = "nonce" =>
          ReadNonceAndKey(c) /\ assistMap[msg[c].dev] # None
          /\ computed'[c] = [dev |-> msg[c].dev, cn |-> assistMap[msg[c].dev],
                             sn |-> msg[c].sn, key |-> KeyOf[assistMap[msg[c].dev]]]
    /\ task'[c] = "entry" =>
          task[c] = "nonce" /\ assistMap[computed[c].dev] # None
          /\ computed'[c] = computed[c] /\ found'[c] = assistMap[computed[c].dev]
    /\ task'[c] = "session" =>
          task[c] = "entry" /\ computed'[c] = computed[c] /\ found'[c] = found[c]
    /\ task'[c] = "verified" =>
          task[c] = "proof" /\ computed'[c] = msg[c].proof
    /\ msg'[c] # None => msg'[c] = msg[c] \/ msg'[c] \in wire

LEMMA HandlerLocals ==
    ASSUME TypeOK, NEW c \in Attempt, HandlerStep(c)
    PROVE  LeavesLocals(c)
<1> USE DEF LeavesLocals, Finish, Continue, TypeOK, ClientTypeOK
<1>1. ASSUME NEW m \in wire, Receive(c, m)
      PROVE  task'[c] = "queued" /\ msg'[c] \in wire
  BY <1>1 DEF Receive
<1>2. CASE IgnoreFailure(c) \/ PutEntryAndSendProof(c) \/ Succeed(c)
  BY <1>2 DEF IgnoreFailure, PutEntryAndSendProof, Succeed
<1>3. CASE ReadNonceAndKey(c)
  BY <1>3 DEF ReadNonceAndKey
<1>4. CASE LookUpEntry(c)
  BY <1>4 DEF LookUpEntry
<1>5. CASE SetSessionInfo(c)
  BY <1>5 DEF SetSessionInfo
<1>6. CASE LookUpForProof(c)
  BY <1>6 DEF LookUpForProof
<1>7. CASE CheckServerProof(c)
  BY <1>7 DEF CheckServerProof
<1> QED
  BY <1>1, <1>2, <1>3, <1>4, <1>5, <1>6, <1>7 DEF HandlerStep

LEMMA HandlerAgreementStep ==
    ASSUME TypeOK, AgreementInv, NEW c \in Attempt, HandlerStep(c), UNCHANGED serverVars
    PROVE  AgreementInv'
<1> USE DEF serverVars, callerVars, assistVars, netVars
<1>0. SentStays
  BY DEF SentStays, Sent, HandlerStep, Receive, IgnoreFailure, ReadNonceAndKey, LookUpEntry,
      SetSessionInfo, PutEntryAndSendProof, LookUpForProof, CheckServerProof, Succeed
<1>a. LeavesLocals(c)
  BY HandlerLocals
<1>b. \A b \in Attempt \ {c} : /\ task'[b] = task[b] /\ msg'[b] = msg[b]
                               /\ found'[b] = found[b] /\ computed'[b] = computed[b]
  BY HandlerOwnLocals
<1>1. \A m \in wire' : m \in wire \/ (task[c] = "session" /\ m = ClientProof(c, computed[c]))
  BY DEF HandlerStep, Receive, IgnoreFailure, ReadNonceAndKey, LookUpEntry,
      SetSessionInfo, PutEntryAndSendProof, LookUpForProof, CheckServerProof, Succeed
<1>2. /\ \A m \in wire' : m.type = "REQUEST" => m \in wire
      /\ \A m \in wire' : m.type = "SERVER_PROOF" => m \in wire
  BY <1>1 DEF ClientProof
<1>3. RequestsFresh' /\ ExchangesFresh' /\ SessionsGenuine'
  BY <1>0, <1>2, RequestsStable, ExchangesStable, SessionsStable DEF AgreementInv
<1>4. EntriesFiledByDevice'
  <2>1. \A d \in Device : assistMap'[d] # None => DeviceOf[assistMap'[d]] = d
    <3>1. CASE PutEntryAndSendProof(c)
      <4>1. computed[c].dev \in Device /\ DeviceOf[found[c]] = computed[c].dev
        BY <3>1, TranscriptType DEF PutEntryAndSendProof, AgreementInv, EntriesFiledByDevice,
            TypeOK, ClientTypeOK, LocalsOK
      <4> QED
        BY <3>1, <4>1 DEF PutEntryAndSendProof, AgreementInv, EntriesFiledByDevice, TypeOK,
            ClientTypeOK
    <3>2. CASE ~PutEntryAndSendProof(c)
      <4>1. assistMap' = assistMap
        BY <3>2 DEF HandlerStep, Receive, IgnoreFailure, ReadNonceAndKey, LookUpEntry,
            SetSessionInfo, LookUpForProof, CheckServerProof, Succeed
      <4> QED
        BY <4>1 DEF AgreementInv, EntriesFiledByDevice
    <3> QED
      BY <3>1, <3>2
  <2>2. \A b \in Attempt : task'[b] \in {"nonce", "entry", "session"} => Bound(computed'[b])
    <3>1. CASE task'[c] = "nonce"
      <4>1. msg[c] \in ToClient /\ msg[c].dev \in Device
        BY <3>1, <1>a, MessageType DEF LeavesLocals, ReadNonceAndKey, Enter, TypeOK, ClientTypeOK,
            LocalsOK
      <4>2. DeviceOf[assistMap[msg[c].dev]] = msg[c].dev
        BY <3>1, <4>1, <1>a DEF LeavesLocals, AgreementInv, EntriesFiledByDevice
      <4>3. Bound(computed'[c])
        BY <3>1, <4>2, <1>a DEF LeavesLocals, Bound
      <4> QED
        BY <4>3, <1>b DEF AgreementInv, EntriesFiledByDevice
    <3>2. CASE task'[c] # "nonce"
      BY <3>2, <1>a, <1>b DEF LeavesLocals, AgreementInv, EntriesFiledByDevice
    <3> QED
      BY <3>1, <3>2
  <2>3. \A b \in Attempt :
            task'[b] \in {"entry", "session"} => DeviceOf[found'[b]] = computed'[b].dev
    <3>1. CASE task'[c] = "entry"
      <4>1. computed[c].dev \in Device
        BY <3>1, <1>a, TranscriptType DEF LeavesLocals, TypeOK, ClientTypeOK, LocalsOK
      <4>2. DeviceOf[found'[c]] = computed'[c].dev
        BY <3>1, <4>1, <1>a DEF LeavesLocals, AgreementInv, EntriesFiledByDevice
      <4> QED
        BY <3>1, <4>2, <1>b DEF AgreementInv, EntriesFiledByDevice
    <3>2. CASE task'[c] # "entry"
      BY <3>2, <1>a, <1>b DEF LeavesLocals, AgreementInv, EntriesFiledByDevice
    <3> QED
      BY <3>1, <3>2
  <2>4. \A m \in wire' : m.type = "CLIENT_PROOF" => Bound(m.proof)
    BY <1>1 DEF AgreementInv, EntriesFiledByDevice, ClientProof
  <2> QED
    BY <2>1, <2>2, <2>3, <2>4 DEF EntriesFiledByDevice, Bound
<1>5. ProofsEstablished'
  <2>1. \A m \in wire' : m.type = "SERVER_PROOF" => m.proof \in established
    BY <1>2 DEF AgreementInv, ProofsEstablished
  <2>2. \A b \in Attempt : msg'[b] # None /\ msg'[b].type = "SERVER_PROOF"
                               => msg'[b].proof \in established
    BY <1>a, <1>b DEF LeavesLocals, AgreementInv, ProofsEstablished
  <2>3. \A b \in Attempt : task'[b] = "verified" => computed'[b] \in established
    <3>1. task'[c] = "verified" => msg[c] # None /\ msg[c].type = "SERVER_PROOF"
      BY <1>a DEF LeavesLocals, TypeOK, ClientTypeOK, LocalsOK
    <3> QED
      BY <3>1, <1>a, <1>b DEF LeavesLocals, AgreementInv, ProofsEstablished
  <2>4. \A r \in delivered' : r.sess \in established
    <3>1. delivered' = delivered \/ (task[c] = "verified"
              /\ delivered' = delivered \cup {[ch |-> c, sess |-> computed[c]]})
      BY DEF HandlerStep, Receive, IgnoreFailure, ReadNonceAndKey, LookUpEntry,
          SetSessionInfo, PutEntryAndSendProof, LookUpForProof, CheckServerProof, Succeed
    <3> QED
      BY <3>1 DEF AgreementInv, ProofsEstablished, DeliveredIsEstablished
  <2> QED
    BY <2>1, <2>2, <2>3, <2>4 DEF ProofsEstablished, DeliveredIsEstablished
<1> QED
  BY <1>3, <1>4, <1>5 DEF AgreementInv
--------------------------------------------------------------------------------
(* The server. *)

\* A step that adds only responses and failures to the wire and begins no
\* exchange keeps every part of the invariant.
LEMMA QuietServerStep ==
    ASSUME TypeOK, AgreementInv, UNCHANGED clientVars, established' = established,
           \A n \in wire' : n \in wire \/ n.type \in {"RESPONSE", "FAILURE"},
           \A d \in Device : authAssist'[d] # None => authAssist'[d] = authAssist[d]
    PROVE  AgreementInv'
<1>1. SentStays /\ UNCHANGED <<assistMap, handlerVars, delivered>>
  BY DEF SentStays, Sent, clientVars, callerVars, assistVars
<1>2. /\ \A n \in wire' : n.type = "REQUEST" => n \in wire
      /\ \A n \in wire' : n.type = "CLIENT_PROOF" => n \in wire
      /\ \A n \in wire' : n.type = "SERVER_PROOF" => n \in wire
  OBVIOUS
<1> QED
  BY <1>1, <1>2, EntriesStable, RequestsStable, ExchangesStable, SessionsStable, ProofsStable
  DEF AgreementInv

LEMMA ResponseAgreementStep ==
    ASSUME TypeOK, AgreementInv, NEW m \in wire, GenerateAuthResponse(m),
           UNCHANGED clientVars
    PROVE  AgreementInv'
<1>1. SentStays /\ UNCHANGED <<assistMap, handlerVars, delivered>>
  BY DEF SentStays, Sent, clientVars, callerVars, assistVars
<1>2. m.type = "REQUEST" /\ m.ch \in Attempt /\ m.dev \in Device /\ m.cn \in Attempt
  BY MessageType DEF GenerateAuthResponse, TypeOK, NetTypeOK
<1>3. \A n \in wire' : n # m /\ (n \in wire \/ n.type \in {"RESPONSE", "FAILURE"})
  <2>1. PICK r \in Wrapped(m.ch, Response(m.ch, m.dev, m.cn)) :
            wire' = (LeftAfterClose(m.dev) \ {m}) \cup Written(m.ch, r, AfterClose(m.dev))
    BY DEF GenerateAuthResponse
  <2>2. r.type \in {"RESPONSE", "FAILURE"}
    BY WrappedReply DEF Response, Failure
  <2> QED
    BY <1>2, <2>1, <2>2, ServerWrites, AfterCloseType DEF TypeOK
<1>4. /\ authAssist' = [authAssist EXCEPT ![m.dev] = [cn |-> m.cn, sn |-> m.cn]]
      /\ established' = established
  BY DEF GenerateAuthResponse
<1>5. EntriesFiledByDevice' /\ SessionsGenuine' /\ ProofsEstablished'
  BY <1>1, <1>3, <1>4, EntriesStable, SessionsStable, ProofsStable DEF AgreementInv
<1>6. ExchangesFresh'
  <2> SUFFICES ASSUME NEW d \in Device, authAssist'[d] # None
               PROVE  /\ authAssist'[d].cn = authAssist'[d].sn
                      /\ DeviceOf[authAssist'[d].sn] = d
                      /\ pc'[authAssist'[d].sn] \notin {"idle", "init", "reset", "ready"}
                      /\ \A t \in established' : t.sn # authAssist'[d].sn
    BY DEF ExchangesFresh, Sent
  <2>1. CASE d = m.dev
    <3>1. authAssist'[d] = [cn |-> m.cn, sn |-> m.cn]
      BY <1>4, <2>1 DEF TypeOK, ServerTypeOK
    <3> QED
      BY <1>1, <1>2, <1>4, <2>1, <3>1 DEF AgreementInv, RequestsFresh, SentStays, Sent
  <2>2. CASE d # m.dev
    <3>1. authAssist'[d] = authAssist[d] /\ authAssist[d].sn \in Attempt
      BY <1>4, <2>2 DEF TypeOK, ServerTypeOK, AuthInfo
    <3> QED
      BY <1>1, <1>4, <3>1 DEF AgreementInv, ExchangesFresh, SentStays, Sent
  <2> QED
    BY <2>1, <2>2
<1>7. RequestsFresh'
  <2> SUFFICES ASSUME NEW n \in wire', n.type = "REQUEST"
               PROVE  /\ n.dev = DeviceOf[n.cn]
                      /\ Sent(n.cn)'
                      /\ \A l \in wire' : l.type = "REQUEST" /\ l.cn = n.cn => l = n
                      /\ \A d \in Device : authAssist'[d] # None => authAssist'[d].sn # n.cn
                      /\ \A t \in established' : t.sn # n.cn
    BY DEF RequestsFresh
  <2>1. n \in wire /\ n.cn \in Attempt /\ n.cn # m.cn
    BY <1>2, <1>3, MessageType DEF AgreementInv, RequestsFresh, TypeOK, NetTypeOK
  <2>2. ASSUME NEW d \in Device, authAssist'[d] # None
        PROVE  authAssist'[d].sn # n.cn
    BY <1>4, <2>1, <2>2 DEF AgreementInv, RequestsFresh, TypeOK, ServerTypeOK
  <2> QED
    BY <1>1, <1>3, <1>4, <2>1, <2>2 DEF AgreementInv, RequestsFresh, SentStays
<1> QED
  BY <1>5, <1>6, <1>7 DEF AgreementInv

LEMMA AcceptAgreementStep ==
    ASSUME TypeOK, AgreementInv, NEW m \in wire, AcceptClientProof(m),
           UNCHANGED clientVars
    PROVE  AgreementInv'
<1> DEFINE p == m.proof
<1>1. SentStays /\ UNCHANGED <<assistMap, handlerVars, delivered>>
  BY DEF SentStays, Sent, clientVars, callerVars, assistVars
<1>2. m.type = "CLIENT_PROOF" /\ m.ch \in Attempt /\ p \in Transcript
      /\ p.dev \in Device /\ p.cn \in Attempt
  BY MessageType, TranscriptType DEF AcceptClientProof, TypeOK, NetTypeOK
<1>3. \A n \in wire' : n \in wire \/ n.type = "FAILURE" \/ n = ServerProof(m.ch, p)
  <2>1. PICK r \in Wrapped(m.ch, ServerProof(m.ch, p)) :
            wire' = (wire \ {m}) \cup Written(m.ch, r, srvOpen)
    BY DEF AcceptClientProof
  <2> QED
    BY <2>1, ServerWrites, WrappedReply DEF Failure
<1>4. /\ authAssist' = [authAssist EXCEPT ![p.dev] = None]
      /\ established' = established \cup {p}
      /\ CheckClientAuthentication(p)
  BY DEF AcceptClientProof
<1>5. \A d \in Device : authAssist'[d] # None => authAssist'[d] = authAssist[d] /\ d # p.dev
  BY <1>2, <1>4 DEF TypeOK, ServerTypeOK
<1>6. p.cn = p.sn /\ Bound(p) /\ Sent(p.cn) /\ p.cn \in Genuine
  BY <1>2, <1>4 DEF CheckClientAuthentication, AgreementInv, EntriesFiledByDevice,
      ExchangesFresh, Bound, Genuine
<1>7. EntriesFiledByDevice'
  BY <1>1, <1>3, EntriesStable DEF AgreementInv, ServerProof
<1>8. RequestsFresh'
  <2> SUFFICES ASSUME NEW n \in wire', n.type = "REQUEST"
               PROVE  /\ n.dev = DeviceOf[n.cn]
                      /\ Sent(n.cn)'
                      /\ \A l \in wire' : l.type = "REQUEST" /\ l.cn = n.cn => l = n
                      /\ \A d \in Device : authAssist'[d] # None => authAssist'[d].sn # n.cn
                      /\ \A t \in established' : t.sn # n.cn
    BY DEF RequestsFresh
  <2>1. \A l \in wire' : l.type = "REQUEST" => l \in wire
    BY <1>3 DEF ServerProof
  <2>2. n \in wire /\ n.cn \in Attempt
    BY <2>1, MessageType DEF TypeOK, NetTypeOK
  <2>3. p.sn # n.cn
    BY <1>2, <1>4, <2>2 DEF CheckClientAuthentication, AgreementInv, RequestsFresh
  <2> QED
    BY <1>1, <1>4, <1>5, <2>1, <2>2, <2>3 DEF AgreementInv, RequestsFresh, SentStays
<1>9. ExchangesFresh'
  <2> SUFFICES ASSUME NEW d \in Device, authAssist'[d] # None
               PROVE  /\ authAssist'[d].cn = authAssist'[d].sn
                      /\ DeviceOf[authAssist'[d].sn] = d
                      /\ pc'[authAssist'[d].sn] \notin {"idle", "init", "reset", "ready"}
                      /\ \A t \in established' : t.sn # authAssist'[d].sn
    BY DEF ExchangesFresh, Sent
  <2>1. authAssist'[d] = authAssist[d] /\ d # p.dev /\ authAssist[d].sn \in Attempt
    BY <1>5 DEF TypeOK, ServerTypeOK, AuthInfo
  <2>2. p.sn # authAssist[d].sn
    BY <1>2, <1>6, <2>1 DEF Bound, AgreementInv, ExchangesFresh
  <2> QED
    BY <1>1, <1>4, <2>1, <2>2 DEF AgreementInv, ExchangesFresh, SentStays, Sent
<1>10. SessionsGenuine'
  <2>1. \A t \in established : t.cn \in Attempt
    BY TranscriptType DEF TypeOK, ServerTypeOK
  <2> QED
    BY <1>1, <1>2, <1>4, <1>6, <2>1 DEF AgreementInv, SessionsGenuine, SentStays, Bound, Genuine
<1>11. ProofsEstablished'
  BY <1>1, <1>3, <1>4
  DEF AgreementInv, ProofsEstablished, DeliveredIsEstablished, ServerProof, handlerVars
<1> QED
  BY <1>7, <1>8, <1>9, <1>10, <1>11 DEF AgreementInv

LEMMA ServerAgreementStep ==
    ASSUME TypeOK, AgreementInv, ServerNext, UNCHANGED clientVars
    PROVE  AgreementInv'
<1> USE DEF TypeOK, NetTypeOK, ServerTypeOK
<1>1. ASSUME NEW m \in wire, UnknownDevice(m)
      PROVE  AgreementInv'
  <2>1. m.dev \in Device
    BY <1>1, MessageType DEF UnknownDevice
  <2> QED
    BY <1>1, <2>1, QuietServerStep, ServerWrites, AfterCloseType DEF UnknownDevice, Failure
<1>2. ASSUME NEW m \in wire, RefuseClientProof(m)
      PROVE  AgreementInv'
  <2>1. m.proof.dev \in Device
    BY <1>2, MessageType, TranscriptType DEF RefuseClientProof
  <2> QED
    BY <1>2, <2>1, QuietServerStep, ServerWrites DEF RefuseClientProof, Failure
<1>3. ASSUME NEW m \in wire, RejectFrame(m)
      PROVE  AgreementInv'
  BY <1>3, QuietServerStep, ServerWrites DEF RejectFrame, Failure, serverVars
<1>4. ASSUME NEW r \in toRegister, RegisterConnection(r)
      PROVE  AgreementInv'
  BY <1>4, QuietServerStep DEF RegisterConnection, netVars
<1>5. ASSUME NEW c \in Attempt, Disconnect(c) \/ LoseConnection(c)
      PROVE  AgreementInv'
  BY <1>5, QuietServerStep DEF Disconnect, LoseConnection, serverVars
<1>6. ASSUME ServerRestart
      PROVE  AgreementInv'
  BY <1>6, QuietServerStep DEF ServerRestart
<1> QED
  BY <1>1, <1>2, <1>3, <1>4, <1>5, <1>6, ResponseAgreementStep, AcceptAgreementStep
  DEF ServerNext, ProcessAuthencaition, ServerFrame

--------------------------------------------------------------------------------
(* The inductive invariant. *)
THEOREM AgreementCorrect == Spec => []AgreementInv
<1>1. TypeOK /\ AgreementInv /\ [Next]_vars => AgreementInv'
  <2> SUFFICES ASSUME TypeOK, AgreementInv, [Next]_vars PROVE AgreementInv'
    OBVIOUS
  <2>1. CASE UNCHANGED vars
    BY <2>1, QuietServerStep DEF vars, netVars, serverVars
  <2>2. CASE ClientNext /\ UNCHANGED serverVars
    BY <2>2, CallerAgreementStep, HandlerAgreementStep DEF ClientNext
  <2>3. CASE ServerNext /\ UNCHANGED clientVars
    BY <2>3, ServerAgreementStep
  <2> QED
    BY <2>1, <2>2, <2>3 DEF Next
<1> QED
  BY <1>1, InitAgreement, TypeCorrect, PTL DEF Spec

(* The server establishes sessions with genuine attempts only, on their own    *)
(* device and with the key they hold (AuthenticationProcessor).                *)
THEOREM ServerAgrees == Spec => []ServerAgreement
<1>1. AgreementInv => ServerAgreement
  BY DEF AgreementInv, SessionsGenuine, ServerAgreement, Bound, Sent
<1> QED
  BY <1>1, AgreementCorrect, PTL

(* A nonce pair is used for one session only.                                  *)
THEOREM NoncesSpentOnce == Spec => []OneSessionPerNonce
<1>1. TypeOK /\ AgreementInv => OneSessionPerNonce
  <2> SUFFICES ASSUME TypeOK, AgreementInv, NEW t \in established, NEW u \in established,
                      t.cn = u.cn \/ t.sn = u.sn
               PROVE  t = u
    BY DEF OneSessionPerNonce
  <2>1. t.cn = u.cn /\ t.sn = u.sn /\ t.dev = u.dev /\ t.key = u.key
    BY DEF AgreementInv, SessionsGenuine, Bound
  <2> QED
    BY <2>1 DEF TypeOK, ServerTypeOK, Transcript
<1> QED
  BY <1>1, TypeCorrect, AgreementCorrect, PTL

(* No exchange the server still remembers has been used.                       *)
THEOREM SpentForgotten == Spec => []SpentNoncesForgotten
<1>1. AgreementInv => SpentNoncesForgotten
  BY DEF AgreementInv, ExchangesFresh, SpentNoncesForgotten
<1> QED
  BY <1>1, AgreementCorrect, PTL

(* A session given to the client's transport is one the server established.    *)
THEOREM DeliveredEstablished == Spec => []DeliveredIsEstablished
<1>1. AgreementInv => DeliveredIsEstablished
  BY DEF AgreementInv, ProofsEstablished
<1> QED
  BY <1>1, AgreementCorrect, PTL

--------------------------------------------------------------------------------
(* What callers get: ChannelInv is inductive as it stands; ExchangeInv is, and *)
(* the authentication implements MutualAuth, as long as the attempts on one    *)
(* device are all made on one client.                                          *)

(* What the steps of a thread leave alone. *)

LEMMA CallerMovesOnlyItself ==
    ASSUME TypeOK, NEW a \in Attempt,
           StartAccessAuth(a) \/ CallerStep(a) \/ CallerFault(a),
           NEW b \in Attempt, b # a
    PROVE  pc'[b] = pc[b] /\ entry'[b] = entry[b] /\ result'[b] = result[b]
<1> USE DEF TypeOK, ClientTypeOK, MoveCaller, Advance
<1>1. CASE StartAccessAuth(a)
  BY <1>1 DEF StartAccessAuth
<1>2. CASE CallerFault(a)
  BY <1>2 DEF CallerFault, RefuseArgument, RequestFails, CreateChannelFails, SendFails,
      Interrupted
<1>3. CASE CallerStep(a)
  BY <1>3 DEF CallerStep, Reset, CreateChannel, SendRequest, GetEntry, Awake, Timeout,
      RemoveEntry, ReturnSession, Return, Close, CloseChannel
<1> QED
  BY <1>1, <1>2, <1>3

LEMMA HandlerLeavesCallers ==
    ASSUME NEW c \in Attempt, HandlerStep(c)
    PROVE  UNCHANGED <<callerVars, channels, cliOpen, srvOpen, registered>>
BY DEF HandlerStep, Receive, IgnoreFailure, ReadNonceAndKey, LookUpEntry, SetSessionInfo,
   PutEntryAndSendProof, LookUpForProof, CheckServerProof, Succeed, netVars

--------------------------------------------------------------------------------
(* Channels. *)

LEMMA InitChannels == Init => ChannelInv
BY DEF Init, NetInit, ClientInit, ChannelInv, TakesTurns, ChannelsOwn, ChannelsOpen, Active

\* A step that opens no channel and moves no attempt keeps ChannelInv.
LEMMA ChannelsStable ==
    ASSUME ChannelInv, UNCHANGED <<pc, channels, result>>,
           \A c \in Attempt : cliOpen'[c] => cliOpen[c]
    PROVE  ChannelInv'
BY DEF ChannelInv, TakesTurns, ChannelsOwn, ChannelsOpen, Active, Connected, ChannelOf

\* Attempt a moves on within a call, with the channels as they are, and returns
\* only with its channel never opened or with a session.
LEMMA MovesKeepChannels ==
    ASSUME TypeOK, ChannelInv, NEW a \in Attempt,
           \A b \in Attempt \ {a} : pc'[b] = pc[b] /\ result'[b] = result[b],
           Active(a), UNCHANGED <<channels, cliOpen>>,
           Connected(a) => Connected(a)',
           pc'[a] = "done" => ~cliOpen[a] \/ result'[a] # None
    PROVE  ChannelInv'
BY DEF ChannelInv, TakesTurns, ChannelsOwn, ChannelsOpen, Active, Connected, ChannelOf,
   TypeOK, ClientTypeOK, NetTypeOK

LEMMA CallerChannelStep ==
    ASSUME TypeOK, ChannelInv, NEW a \in Attempt,
           StartAccessAuth(a) \/ CallerStep(a) \/ CallerFault(a)
    PROVE  ChannelInv'
<1> USE DEF TypeOK, ClientTypeOK, NetTypeOK, MoveCaller, Advance, netVars
<1>0. \A b \in Attempt \ {a} : pc'[b] = pc[b] /\ result'[b] = result[b]
  BY CallerMovesOnlyItself
<1>1. CASE StartAccessAuth(a)
  BY <1>0, <1>1 DEF StartAccessAuth, ChannelInv, TakesTurns, ChannelsOwn, ChannelsOpen,
      Active, Connected, ChannelOf
<1>2. CASE RefuseArgument(a) \/ RequestFails(a) \/ CreateChannelFails(a)
  <2>1. ~cliOpen[a] /\ Active(a) /\ ~Connected(a)
    BY <1>2 DEF RefuseArgument, RequestFails, CreateChannelFails, ChannelInv, ChannelsOpen,
        Active, Connected
  <2> QED
    BY <1>0, <1>2, <2>1, MovesKeepChannels DEF RefuseArgument, RequestFails, CreateChannelFails
<1>3. CASE CreateChannel(a)
  <2>1. channels' = [channels EXCEPT ![ClientOf[a]] = a] /\ ClientOf[a] \in Client
        /\ cliOpen' = [cliOpen EXCEPT ![a] = TRUE] /\ pc[a] = "reset" /\ pc'[a] = "ready"
    BY <1>3 DEF CreateChannel
  <2>2. TakesTurns'
    BY <1>0, <2>1 DEF ChannelInv, TakesTurns, Active
  <2>3. ChannelsOwn'
    BY <1>0, <2>1 DEF ChannelInv, ChannelsOwn, Connected
  <2>4. ChannelsOpen'
    BY <1>0, <2>1 DEF ChannelInv, TakesTurns, ChannelsOpen, Active, Connected, ChannelOf
  <2> QED
    BY <2>2, <2>3, <2>4 DEF ChannelInv
<1>4. CASE Reset(a) \/ SendRequest(a) \/ SendFails(a) \/ GetEntry(a) \/ Awake(a) \/ Timeout(a)
           \/ Interrupted(a) \/ RemoveEntry(a)
  <2>1. /\ Active(a) /\ UNCHANGED <<channels, cliOpen>>
        /\ Connected(a) => Connected(a)'
        /\ pc'[a] # "done"
    BY <1>4 DEF Reset, SendRequest, SendFails, GetEntry, Awake, Timeout, Interrupted,
        RemoveEntry, Active, Connected
  <2> QED
    BY <1>0, <2>1, MovesKeepChannels
<1>5. CASE ReturnSession(a)
  BY <1>0, <1>5, MovesKeepChannels DEF ReturnSession, Return, Active, Connected
<1>6. CASE Close(a)
  <2>1. /\ pc[a] = "closing" /\ pc'[a] = "done" /\ UNCHANGED <<channels, result>>
        /\ cliOpen' = [cliOpen EXCEPT ![ChannelOf(a)] = FALSE] /\ ChannelOf(a) \in Attempt
    BY <1>6 DEF Close, CloseChannel, ChannelOf, LocalsOK
  <2>2. ~cliOpen'[a]
    BY <2>1 DEF ChannelInv, ChannelsOpen, Active
  <2> QED
    BY <1>0, <2>1, <2>2 DEF ChannelInv, TakesTurns, ChannelsOwn, ChannelsOpen, Active, Connected,
        ChannelOf
<1> QED
  BY <1>1, <1>2, <1>3, <1>4, <1>5, <1>6 DEF CallerStep, CallerFault

(* The attempts of a client take turns, a channel is used only by the attempts *)
(* of its client, and one is left open only by an attempt that returned a      *)
(* session (AuthenticationClient.startAccessAuth and close).                   *)
THEOREM ChannelsCorrect == Spec => []ChannelInv
<1>1. TypeOK /\ ChannelInv /\ [Next]_vars => ChannelInv'
  <2> SUFFICES ASSUME TypeOK, ChannelInv, [Next]_vars PROVE ChannelInv'
    OBVIOUS
  <2>1. CASE UNCHANGED vars
    BY <2>1, ChannelsStable DEF vars, netVars, clientVars, callerVars
  <2>2. ASSUME NEW a \in Attempt, StartAccessAuth(a) \/ CallerStep(a) \/ CallerFault(a)
        PROVE  ChannelInv'
    BY <2>2, CallerChannelStep
  <2>3. ASSUME NEW c \in Attempt, HandlerStep(c)
        PROVE  ChannelInv'
    BY <2>3, HandlerLeavesCallers, ChannelsStable DEF callerVars
  <2>4. CASE ServerNext /\ UNCHANGED clientVars
    BY <2>4, ServerOpensNothing, ChannelsStable DEF clientVars, callerVars, TypeOK
  <2> QED
    BY <2>1, <2>2, <2>3, <2>4 DEF Next, ClientNext
<1> QED
  BY <1>1, InitChannels, TypeCorrect, PTL DEF Spec

(* An attempt that gives up leaves no client channel open, so that the request *)
(* and any late answer to it die with the channel.                             *)
THEOREM FailureCloses == Spec => []FailureClosesChannel
<1>1. ChannelInv => FailureClosesChannel
  BY DEF ChannelInv, ChannelsOpen, FailureClosesChannel
<1> QED
  BY <1>1, ChannelsCorrect, PTL

--------------------------------------------------------------------------------
(* Exchanges.  First what holds of them however devices are shared. *)

LEMMA OwnType ==
    ASSUME NEW a \in Attempt
    PROVE  Own(a) \in Transcript /\ Own(a) # None
BY DEF Own, Transcript

\* A channel has one attempt at most that exchanges anything on it.
LEMMA OneOwner ==
    ASSUME ChannelInv, NEW a \in Attempt, NEW b \in Attempt, Active(b),
           ClientOf[a] = ClientOf[b], NEW c \in Attempt, Exchanges(a, c)
    PROVE  a = b
BY DEF ChannelInv, TakesTurns, Exchanges, Active

\* A step that sends nothing keeps every item in its place, as long as an attempt
\* that stops exchanging leaves nothing behind on its channel.
LEMMA ItemsStable ==
    ASSUME TypeOK, MessagesOwned, HandlersOwned, UNCHANGED handlerVars, wire' \subseteq wire,
           \A c \in Attempt : cliOpen'[c] => cliOpen[c] \/ \A m \in wire : m.ch # c,
           \A c \in Attempt : Connected(c) => Connected(c)',
           \A a, c \in Attempt : Exchanges(a, c) =>
               \/ Exchanges(a, c)' /\ session'[a] = session[a]
               \/ task[c] = "idle" /\ ~cliOpen'[c]
    PROVE  MessagesOwned' /\ HandlersOwned'
<1>1. HandlersOwned'
  <2> SUFFICES ASSUME NEW c \in Attempt, task[c] # "idle"
               PROVE  \E a \in Attempt : Handles(a, c)'
    BY DEF HandlersOwned, handlerVars
  <2>1. PICK a \in Attempt : Handles(a, c)
    BY DEF HandlersOwned
  <2>2. Exchanges(a, c)' /\ session'[a] = session[a]
    BY <2>1 DEF Handles
  <2> QED
    BY <2>1, <2>2 DEF Handles, handlerVars
<1>2. MessagesOwned'
  <2> SUFFICES ASSUME NEW m \in wire'
               PROVE  /\ Connected(m.ch)'
                      /\ cliOpen'[m.ch] =>
                           /\ task'[m.ch] = "idle"
                           /\ \A n \in wire' : n.ch = m.ch => n = m
                           /\ \E a \in Attempt : Exchanges(a, m.ch)' /\ OfExchange(m, a)
    BY DEF MessagesOwned
  <2>1. m \in wire /\ m.ch \in Attempt
    BY MessageType DEF TypeOK, NetTypeOK
  <2>2. Connected(m.ch)'
    BY <2>1 DEF MessagesOwned
  <2>3. ASSUME cliOpen'[m.ch]
        PROVE  /\ task'[m.ch] = "idle"
               /\ \A n \in wire' : n.ch = m.ch => n = m
               /\ \E a \in Attempt : Exchanges(a, m.ch)' /\ OfExchange(m, a)
    <3>1. cliOpen[m.ch]
      BY <2>1, <2>3
    <3>2. PICK a \in Attempt : Exchanges(a, m.ch) /\ OfExchange(m, a)
      BY <2>1, <3>1 DEF MessagesOwned
    <3>3. Exchanges(a, m.ch)'
      BY <2>1, <2>3, <3>2
    <3> QED
      BY <2>1, <3>1, <3>2, <3>3 DEF MessagesOwned, handlerVars
  <2> QED
    BY <2>2, <2>3
<1> QED
  BY <1>1, <1>2

\* A message of an exchange may be replaced by another of the same exchange on the
\* same channel: the server's answer.
LEMMA AnswerOwned ==
    ASSUME TypeOK, MessagesOwned, NEW m \in wire, NEW r, r.ch = m.ch,
           wire' \subseteq (wire \ {m}) \cup {r}, UNCHANGED clientVars,
           \A c \in Attempt : cliOpen'[c] => cliOpen[c],
           \A a \in Attempt : OfExchange(m, a) => OfExchange(r, a)
    PROVE  MessagesOwned'
<1> USE DEF clientVars, callerVars, assistVars, handlerVars
<1> SUFFICES ASSUME NEW n \in wire'
             PROVE  /\ Connected(n.ch)'
                    /\ cliOpen'[n.ch] =>
                         /\ task'[n.ch] = "idle"
                         /\ \A l \in wire' : l.ch = n.ch => l = n
                         /\ \E a \in Attempt : Exchanges(a, n.ch)' /\ OfExchange(n, a)
  BY DEF MessagesOwned
<1>1. PICK o \in wire : o.ch = n.ch /\ (o = m \/ o = n) /\ (n = r \/ (n = o /\ o # m))
  OBVIOUS
<1>2. o.ch \in Attempt
  BY <1>1, MessageType DEF TypeOK, NetTypeOK
<1>3. \A a \in Attempt : OfExchange(o, a) => OfExchange(n, a)
  BY <1>1
<1> QED
  BY <1>1, <1>2, <1>3 DEF MessagesOwned, Connected, Exchanges, ChannelOf

\* The entries and the sessions of attempts, in steps that leave them alone.
LEMMA EntriesOwnStable ==
    ASSUME EntriesOwn,
           \A a \in Attempt :
               /\ Active(a)' /\ pc'[a] # "init" =>
                     \/ Active(a) /\ pc[a] # "init" /\ assistMap'[DeviceOf[a]] = assistMap[DeviceOf[a]]
                     \/ assistMap'[DeviceOf[a]] \in {a, None}
               /\ pc'[a] \in {"waiting", "awake", "removed"} =>
                     \/ pc[a] \in {"waiting", "awake", "removed"} /\ entry'[a] = entry[a]
                     \/ entry'[a] = a
    PROVE  EntriesOwn'
BY DEF EntriesOwn

LEMMA SessionsOwnStable ==
    ASSUME SessionsOwn, UNCHANGED <<session, success>>,
           established \subseteq established', delivered \subseteq delivered',
           \A a \in Attempt : /\ Sent(a) => Sent(a)'
                              /\ result'[a] = result[a]
                              /\ pc[a] = "done" => pc'[a] = "done"
    PROVE  SessionsOwn'
BY DEF SessionsOwn

LEMMA InitExchange == Init => ExchangeInv
BY DEF Init, NetInit, ServerInit, ClientInit, ExchangeInv, MessagesOwned, HandlersOwned,
       EntriesOwn, SessionsOwn, Active

LEMMA ServerExchangeStep ==
    ASSUME TypeOK, AgreementInv, ExchangeInv, ServerNext, UNCHANGED clientVars
    PROVE  ExchangeInv'
<1> USE DEF clientVars, callerVars, assistVars
<1>1. EntriesOwn'
  BY DEF ExchangeInv, EntriesOwn, Active
<1>2. established \subseteq established'
  BY ServerMaps DEF TypeOK
<1>3. SessionsOwn'
  BY <1>2, SessionsOwnStable DEF ExchangeInv, Sent
<1>4. \A c \in Attempt : cliOpen'[c] => cliOpen[c]
  BY ServerOpensNothing DEF TypeOK
<1>5. ASSUME wire' \subseteq wire
      PROVE  MessagesOwned' /\ HandlersOwned'
  BY <1>4, <1>5, ItemsStable DEF ExchangeInv, Connected, Exchanges, ChannelOf
<1>6. HandlersOwned'
  BY DEF ExchangeInv, HandlersOwned, Handles, Exchanges, ChannelOf, handlerVars
<1>7. ASSUME NEW m \in wire, NEW r, Answers(m, r), wire' \subseteq (wire \ {m}) \cup {r}
      PROVE  MessagesOwned'
  <2>1. m.type = "REQUEST" => m.dev = DeviceOf[m.cn]
    BY DEF AgreementInv, RequestsFresh
  <2>2. r.ch = m.ch /\ \A a \in Attempt : OfExchange(m, a) => OfExchange(r, a)
    BY <1>7, <2>1 DEF Answers, Failure, Response, ServerProof, OfExchange
  <2> QED
    BY <1>4, <1>7, <2>2, AnswerOwned DEF ExchangeInv
<1>8. MessagesOwned'
  BY <1>5, <1>7, ServerAnswers DEF TypeOK
<1> QED
  BY <1>1, <1>3, <1>6, <1>8 DEF ExchangeInv

--------------------------------------------------------------------------------
(* The threads of the channels. *)

\* The entry a thread finds for its attempt's device is the attempt's, or none.
LEMMA FindsOwnEntry ==
    ASSUME EntriesOwn, NEW a \in Attempt, NEW c \in Attempt, Exchanges(a, c)
    PROVE  assistMap[DeviceOf[a]] \in {a, None}
BY DEF EntriesOwn, Exchanges, Active

\* A step that takes a thread on with its attempt, or makes it idle, and touches
\* neither the wire nor the attempts keeps every item in its place.
LEMMA ThreadGoesOn ==
    ASSUME TypeOK, MessagesOwned, HandlersOwned, NEW c \in Attempt, task[c] # "idle",
           UNCHANGED <<wire, cliOpen, callerVars, channels, success>>,
           \A b \in Attempt \ {c} : /\ task'[b] = task[b] /\ msg'[b] = msg[b]
                                    /\ found'[b] = found[b] /\ computed'[b] = computed[b],
           \A a \in Attempt : session'[a] = session[a] \/ session'[a] = Own(a),
           task'[c] # "idle" => \E a \in Attempt : Handles(a, c)'
    PROVE  MessagesOwned' /\ HandlersOwned'
<1> USE DEF callerVars
<1>1. \A a, b \in Attempt : Exchanges(a, b)' = Exchanges(a, b)
  BY DEF Exchanges, ChannelOf
<1>2. HandlersOwned'
  <2> SUFFICES ASSUME NEW b \in Attempt \ {c}, task'[b] # "idle"
               PROVE  \E a \in Attempt : Handles(a, b)'
    BY DEF HandlersOwned
  <2>1. PICK a \in Attempt : Handles(a, b)
    BY DEF HandlersOwned
  <2> QED
    BY <1>1, <2>1 DEF Handles
<1>3. MessagesOwned'
  <2> SUFFICES ASSUME NEW m \in wire
               PROVE  /\ Connected(m.ch)
                      /\ cliOpen[m.ch] =>
                           /\ task'[m.ch] = "idle"
                           /\ \A n \in wire : n.ch = m.ch => n = m
                           /\ \E a \in Attempt : Exchanges(a, m.ch)' /\ OfExchange(m, a)
    BY DEF MessagesOwned, Connected
  <2>1. m.ch \in Attempt
    BY MessageType DEF TypeOK, NetTypeOK
  <2> QED
    BY <1>1, <2>1 DEF MessagesOwned
<1> QED
  BY <1>2, <1>3

LEMMA ReceiveExchange ==
    ASSUME TypeOK, ExchangeInv, NEW c \in Attempt, NEW m \in wire, Receive(c, m),
           UNCHANGED serverVars
    PROVE  ExchangeInv'
<1> USE DEF Receive, serverVars, callerVars, assistVars, TypeOK, ClientTypeOK, NetTypeOK
<1>1. PICK a \in Attempt : Exchanges(a, c) /\ OfExchange(m, a)
  BY DEF ExchangeInv, MessagesOwned
<1>2. \A d, b \in Attempt : Exchanges(d, b)' = Exchanges(d, b)
  BY DEF Exchanges, ChannelOf
<1>3. HandlersOwned'
  <2>1. Handles(a, c)'
    BY <1>1, <1>2 DEF Handles
  <2>2. ASSUME NEW b \in Attempt \ {c}, task'[b] # "idle"
        PROVE  \E d \in Attempt : Handles(d, b)'
    <3>1. PICK d \in Attempt : Handles(d, b)
      BY <2>2 DEF ExchangeInv, HandlersOwned
    <3> QED
      BY <1>2, <3>1 DEF Handles
  <2> QED
    BY <2>1, <2>2 DEF HandlersOwned
<1>4. MessagesOwned'
  <2> SUFFICES ASSUME NEW n \in wire'
               PROVE  /\ Connected(n.ch)
                      /\ cliOpen[n.ch] =>
                           /\ task'[n.ch] = "idle"
                           /\ \A l \in wire' : l.ch = n.ch => l = n
                           /\ \E d \in Attempt : Exchanges(d, n.ch)' /\ OfExchange(n, d)
    BY DEF MessagesOwned, Connected
  <2>1. n \in wire /\ n # m /\ n.ch \in Attempt
    BY MessageType
  <2>2. n.ch # c
    BY <2>1 DEF ExchangeInv, MessagesOwned
  <2> QED
    BY <1>2, <2>1, <2>2 DEF ExchangeInv, MessagesOwned
<1>5. EntriesOwn' /\ SessionsOwn'
  BY EntriesOwnStable, SessionsOwnStable DEF ExchangeInv, Active, Sent
<1> QED
  BY <1>3, <1>4, <1>5 DEF ExchangeInv

LEMMA ResponseExchange ==
    ASSUME TypeOK, ExchangeInv, NEW c \in Attempt,
           ReadNonceAndKey(c) \/ LookUpEntry(c) \/ SetSessionInfo(c), UNCHANGED serverVars
    PROVE  ExchangeInv'
<1> USE DEF serverVars, callerVars, assistVars, netVars, Enter
<1>1. HandlerStep(c) /\ UNCHANGED <<wire, cliOpen, callerVars, channels, success, assistMap,
                                    delivered, established>>
  BY DEF HandlerStep, ReadNonceAndKey, LookUpEntry, SetSessionInfo
<1>2. task[c] # "idle"
  BY DEF ReadNonceAndKey, LookUpEntry, SetSessionInfo
<1>3. PICK a \in Attempt : Handles(a, c)
  BY <1>2 DEF ExchangeInv, HandlersOwned
<1>4. assistMap[DeviceOf[a]] \in {a, None}
  BY <1>3, FindsOwnEntry DEF ExchangeInv, Handles
<1>5. Exchanges(a, c)'
  BY <1>1, <1>3 DEF Handles, Exchanges, ChannelOf
<1>6. task'[c] # "idle" => Handles(a, c)'
  <2>1. CASE ReadNonceAndKey(c)
    <3>1. msg[c].dev = DeviceOf[a] /\ msg[c].sn = a
      BY <1>3, <2>1 DEF ReadNonceAndKey, Handles, OfExchange
    <3> QED
      BY <1>3, <1>4, <1>5, <2>1, <3>1
      DEF ReadNonceAndKey, Finish, Continue, Handles, Own, TypeOK, ClientTypeOK
  <2>2. CASE LookUpEntry(c)
    <3>1. computed[c] = Own(a) /\ computed[c].dev = DeviceOf[a]
      BY <1>3, <2>2 DEF LookUpEntry, Handles, Own
    <3> QED
      BY <1>3, <1>4, <1>5, <2>2, <3>1 DEF LookUpEntry, Finish, Continue, Handles, TypeOK,
          ClientTypeOK
  <2>3. CASE SetSessionInfo(c)
    BY <1>3, <1>5, <2>3 DEF SetSessionInfo, Continue, Handles, TypeOK, ClientTypeOK
  <2> QED
    BY <2>1, <2>2, <2>3
<1>7. \A b \in Attempt : session'[b] = session[b] \/ session'[b] = Own(b)
  BY <1>3 DEF ReadNonceAndKey, LookUpEntry, SetSessionInfo, Handles, TypeOK, ClientTypeOK
<1>8. MessagesOwned' /\ HandlersOwned'
  BY <1>1, <1>2, <1>6, <1>7, HandlerOwnLocals, ThreadGoesOn DEF ExchangeInv
<1>9. EntriesOwn'
  BY <1>1, EntriesOwnStable DEF ExchangeInv, Active
<1>10. SessionsOwn'
  BY <1>1, <1>7 DEF ExchangeInv, SessionsOwn, Sent
<1> QED
  BY <1>8, <1>9, <1>10 DEF ExchangeInv

LEMMA ProofExchange ==
    ASSUME TypeOK, ExchangeInv, NEW c \in Attempt,
           IgnoreFailure(c) \/ LookUpForProof(c) \/ CheckServerProof(c), UNCHANGED serverVars
    PROVE  ExchangeInv'
<1> USE DEF serverVars, callerVars, assistVars, netVars, Enter
<1>1. HandlerStep(c) /\ UNCHANGED <<wire, cliOpen, callerVars, channels, session, success,
                                    assistMap, delivered, established>>
  BY DEF HandlerStep, IgnoreFailure, LookUpForProof, CheckServerProof
<1>2. task[c] # "idle"
  BY DEF IgnoreFailure, LookUpForProof, CheckServerProof
<1>3. PICK a \in Attempt : Handles(a, c)
  BY <1>2 DEF ExchangeInv, HandlersOwned
<1>4. assistMap[DeviceOf[a]] \in {a, None}
  BY <1>3, FindsOwnEntry DEF ExchangeInv, Handles
<1>5. Exchanges(a, c)'
  BY <1>1, <1>3 DEF Handles, Exchanges, ChannelOf
<1>6. task'[c] # "idle" => Handles(a, c)'
  <2>1. CASE IgnoreFailure(c)
    BY <2>1 DEF IgnoreFailure, Finish, TypeOK, ClientTypeOK
  <2>2. CASE LookUpForProof(c)
    <3>1. msg[c].proof = Own(a) /\ msg[c].proof.dev = DeviceOf[a]
      BY <1>3, <2>2 DEF LookUpForProof, Handles, OfExchange, Own
    <3> QED
      BY <1>3, <1>4, <1>5, <2>2, <3>1 DEF LookUpForProof, Finish, Continue, Handles, TypeOK,
          ClientTypeOK
  <2>3. CASE CheckServerProof(c)
    <3>1. msg[c].proof = Own(a) /\ found[c] = a
      BY <1>3, <2>3 DEF CheckServerProof, Handles, OfExchange, TypeOK, ClientTypeOK, LocalsOK
    <3> QED
      BY <1>1, <1>3, <1>5, <2>3, <3>1 DEF CheckServerProof, Finish, Continue, Handles, TypeOK,
          ClientTypeOK
  <2> QED
    BY <2>1, <2>2, <2>3
<1>7. MessagesOwned' /\ HandlersOwned'
  BY <1>1, <1>2, <1>6, HandlerOwnLocals, ThreadGoesOn DEF ExchangeInv
<1>8. EntriesOwn' /\ SessionsOwn'
  BY <1>1, EntriesOwnStable, SessionsOwnStable DEF ExchangeInv, Active, Sent
<1> QED
  BY <1>7, <1>8 DEF ExchangeInv

\* The thread's owner and another active attempt on its device are the same.
LEMMA OneActivePerDevice ==
    ASSUME OneClientPerDevice, ChannelInv, NEW a \in Attempt, NEW b \in Attempt,
           Active(a), Active(b), DeviceOf[a] = DeviceOf[b]
    PROVE  a = b
BY DEF OneClientPerDevice, ChannelInv, TakesTurns

LEMMA SendProofExchange ==
    ASSUME OneClientPerDevice, TypeOK, ChannelInv, ExchangeInv, NEW c \in Attempt,
           PutEntryAndSendProof(c), UNCHANGED serverVars
    PROVE  ExchangeInv'
<1> USE DEF PutEntryAndSendProof, Finish, serverVars, callerVars, TypeOK, ClientTypeOK, NetTypeOK
<1>1. PICK a \in Attempt : Handles(a, c)
  BY DEF ExchangeInv, HandlersOwned
<1>2. computed[c] = Own(a) /\ found[c] = a /\ computed[c].dev = DeviceOf[a] /\ Exchanges(a, c)
  BY <1>1 DEF Handles, Own
<1>3. \A d, b \in Attempt : Exchanges(d, b)' = Exchanges(d, b)
  BY DEF Exchanges, ChannelOf
<1>4. HandlersOwned'
  <2> SUFFICES ASSUME NEW b \in Attempt \ {c}, task'[b] # "idle"
               PROVE  \E d \in Attempt : Handles(d, b)'
    BY DEF HandlersOwned
  <2>1. PICK d \in Attempt : Handles(d, b)
    BY DEF ExchangeInv, HandlersOwned
  <2> QED
    BY <1>3, <2>1 DEF Handles
<1>5. MessagesOwned'
  <2> DEFINE p == ClientProof(c, computed[c])
  <2> SUFFICES ASSUME NEW n \in wire'
               PROVE  /\ Connected(n.ch)
                      /\ cliOpen[n.ch] =>
                           /\ task'[n.ch] = "idle"
                           /\ \A l \in wire' : l.ch = n.ch => l = n
                           /\ \E d \in Attempt : Exchanges(d, n.ch)' /\ OfExchange(n, d)
    BY DEF MessagesOwned, Connected
  <2>1. p.ch = c /\ p.type = "CLIENT_PROOF" /\ p.proof = Own(a)
    BY <1>2 DEF ClientProof
  <2>2. \A m \in wire : m.ch \in Attempt /\ (cliOpen[m.ch] => m.ch # c)
    BY MessageType DEF ExchangeInv, MessagesOwned
  <2>3. CASE n \in wire
    BY <1>3, <2>1, <2>2, <2>3 DEF ExchangeInv, MessagesOwned
  <2>4. CASE n = p /\ cliOpen[c]
    <3>1. Connected(c)
      BY <2>4 DEF ChannelInv, ChannelsOpen
    <3>2. \A l \in wire' : l.ch = c => l = p
      BY <2>2, <2>4
    <3>3. Exchanges(a, c)' /\ OfExchange(p, a)
      BY <1>2, <1>3, <2>1 DEF OfExchange
    <3> QED
      BY <2>1, <2>4, <3>1, <3>2, <3>3
  <2> QED
    BY <2>3, <2>4
<1>6. EntriesOwn'
  <2>1. \A b \in Attempt : Active(b) => assistMap'[DeviceOf[b]] = assistMap[DeviceOf[b]]
                                          \/ assistMap'[DeviceOf[b]] = b
    BY <1>2, OneActivePerDevice DEF Exchanges, Active
  <2> QED
    BY <2>1, EntriesOwnStable DEF ExchangeInv, Active
<1>7. SessionsOwn'
  BY SessionsOwnStable DEF ExchangeInv, Sent
<1> QED
  BY <1>4, <1>5, <1>6, <1>7 DEF ExchangeInv

LEMMA SucceedExchange ==
    ASSUME TypeOK, AgreementInv, ExchangeInv, NEW c \in Attempt, Succeed(c),
           UNCHANGED serverVars
    PROVE  ExchangeInv'
<1> USE DEF Succeed, Finish, serverVars, callerVars, netVars, TypeOK, ClientTypeOK, NetTypeOK
<1>1. PICK a \in Attempt : Handles(a, c)
  BY DEF ExchangeInv, HandlersOwned
<1>2. computed[c] = Own(a) /\ found[c] = a /\ session[a] = Own(a) /\ Exchanges(a, c)
      /\ Own(a) \in established
  BY <1>1 DEF Handles, AgreementInv, ProofsEstablished
<1>3. \A d \in Attempt, b \in Attempt \ {c} : Exchanges(d, b) => d # a /\ Exchanges(d, b)'
  BY <1>2 DEF Exchanges, ChannelOf
<1>4. HandlersOwned'
  <2> SUFFICES ASSUME NEW b \in Attempt \ {c}, task'[b] # "idle"
               PROVE  \E d \in Attempt : Handles(d, b)'
    BY DEF HandlersOwned
  <2>1. PICK d \in Attempt : Handles(d, b)
    BY DEF ExchangeInv, HandlersOwned
  <2> QED
    BY <1>3, <2>1 DEF Handles
<1>5. MessagesOwned'
  <2> SUFFICES ASSUME NEW m \in wire
               PROVE  /\ Connected(m.ch)
                      /\ cliOpen[m.ch] =>
                           /\ task'[m.ch] = "idle"
                           /\ \A n \in wire : n.ch = m.ch => n = m
                           /\ \E d \in Attempt : Exchanges(d, m.ch)' /\ OfExchange(m, d)
    BY DEF MessagesOwned, Connected
  <2>1. m.ch \in Attempt /\ (cliOpen[m.ch] => m.ch # c)
    BY MessageType DEF ExchangeInv, MessagesOwned
  <2> QED
    BY <1>3, <2>1 DEF ExchangeInv, MessagesOwned
<1>6. EntriesOwn'
  BY EntriesOwnStable DEF ExchangeInv, Active
<1>7. SessionsOwn'
  <2> DEFINE d == [ch |-> c, sess |-> computed[c]]
  <2>1. Sent(a) /\ d \in delivered' /\ d.sess = Own(a)
    BY <1>2 DEF Exchanges, Sent
  <2>2. \A b \in Attempt \ {a} : success'[b] = success[b]
    BY <1>2
  <2>3. ASSUME NEW b \in Attempt, success'[b]
        PROVE  /\ Sent(b) /\ session[b] = Own(b) /\ Own(b) \in established
               /\ \E r \in delivered' : r.sess = Own(b)
    BY <1>2, <2>1, <2>2, <2>3 DEF ExchangeInv, SessionsOwn
  <2>4. \A b \in Attempt : success[b] => success'[b]
    OBVIOUS
  <2> QED
    BY <2>3, <2>4 DEF ExchangeInv, SessionsOwn, Sent
<1> QED
  BY <1>4, <1>5, <1>6, <1>7 DEF ExchangeInv

LEMMA HandlerExchangeStep ==
    ASSUME OneClientPerDevice, TypeOK, AgreementInv, ChannelInv, ExchangeInv,
           NEW c \in Attempt, HandlerStep(c), UNCHANGED serverVars
    PROVE  ExchangeInv'
BY ReceiveExchange, ResponseExchange, ProofExchange, SendProofExchange, SucceedExchange
   DEF HandlerStep

--------------------------------------------------------------------------------
(* The threads of the callers. *)

\* A caller's step keeps the entry of every other active attempt on the device.
LEMMA CallerEntries ==
    ASSUME OneClientPerDevice, TypeOK, ChannelInv, EntriesOwn, NEW a \in Attempt,
           StartAccessAuth(a) \/ CallerStep(a) \/ CallerFault(a)
    PROVE  EntriesOwn'
<1> USE DEF TypeOK, ClientTypeOK, MoveCaller, Advance, assistVars
<1>0. \A b \in Attempt \ {a} : pc'[b] = pc[b] /\ entry'[b] = entry[b]
  BY CallerMovesOnlyItself
<1>1. CASE Reset(a) \/ RemoveEntry(a)
  <2>1. Active(a) /\ entry' = entry /\ assistMap'[DeviceOf[a]] \in {a, None}
        /\ \A d \in Device \ {DeviceOf[a]} : assistMap'[d] = assistMap[d]
    BY <1>1 DEF Reset, RemoveEntry, Active
  <2>2. \A b \in Attempt \ {a} : Active(b) => DeviceOf[b] # DeviceOf[a]
    BY <2>1, OneActivePerDevice
  <2>3. pc'[a] \in {"waiting", "awake", "removed"} => pc[a] \in {"waiting", "awake", "removed"}
    BY <1>1 DEF Reset, RemoveEntry
  <2> QED
    BY <1>0, <2>1, <2>2, <2>3, EntriesOwnStable DEF Active
<1>2. CASE GetEntry(a)
  <2>1. /\ assistMap[DeviceOf[a]] \in {a, None} /\ Active(a) /\ pc[a] # "init"
        /\ assistMap' = assistMap
        /\ pc'[a] = "waiting" => entry'[a] = a
        /\ pc'[a] \in {"closing", "waiting"}
    BY <1>2 DEF GetEntry, EntriesOwn, Active
  <2> QED
    BY <1>0, <2>1, EntriesOwnStable DEF Active
<1>3. CASE StartAccessAuth(a)
  BY <1>0, <1>3, EntriesOwnStable DEF StartAccessAuth, Active
<1>4. CASE CreateChannel(a) \/ SendRequest(a) \/ CallerFault(a)
  <2>1. assistMap' = assistMap /\ pc'[a] \in {"ready", "sent", "closing", "done"}
        /\ (pc'[a] # "done" => Active(a) /\ pc[a] # "init")
    BY <1>4 DEF CreateChannel, SendRequest, CallerFault, RefuseArgument, RequestFails,
        CreateChannelFails, SendFails, Interrupted, Active
  <2> QED
    BY <1>0, <2>1, EntriesOwnStable DEF Active
<1>5. CASE Awake(a) \/ Timeout(a) \/ ReturnSession(a) \/ Close(a)
  <2>1. /\ assistMap' = assistMap /\ entry' = entry /\ Active(a) /\ pc[a] # "init"
        /\ pc'[a] \in {"waiting", "awake", "removed"}
              => pc[a] \in {"waiting", "awake", "removed"}
    BY <1>5 DEF Awake, Timeout, ReturnSession, Return, Close, CloseChannel, Active
  <2> QED
    BY <1>0, <2>1, EntriesOwnStable DEF Active
<1> QED
  BY <1>1, <1>2, <1>3, <1>4, <1>5 DEF CallerStep

\* A caller's step changes no session but its own, and returns its own.
LEMMA CallerSessions ==
    ASSUME TypeOK, SessionsOwn, EntriesOwn, NEW a \in Attempt, UNCHANGED serverVars,
           StartAccessAuth(a) \/ CallerStep(a) \/ CallerFault(a)
    PROVE  SessionsOwn'
<1> USE DEF TypeOK, ClientTypeOK, MoveCaller, Advance, assistVars, serverVars
<1>0. \A b \in Attempt \ {a} : pc'[b] = pc[b] /\ result'[b] = result[b]
  BY CallerMovesOnlyItself
<1>1. CASE Reset(a)
  <2>1. /\ session'[a] = None /\ ~success'[a] /\ pc[a] = "init" /\ pc'[a] = "reset"
        /\ result' = result /\ delivered' = delivered
        /\ \A b \in Attempt \ {a} : session'[b] = session[b] /\ success'[b] = success[b]
    BY <1>1 DEF Reset
  <2> QED
    BY <1>0, <2>1 DEF SessionsOwn, Sent
<1>2. CASE ReturnSession(a)
  <2>1. entry[a] = a /\ pc[a] = "removed"
    BY <1>2 DEF ReturnSession, EntriesOwn
  <2>2. /\ UNCHANGED <<session, success, delivered>>
        /\ result'[a] = (IF success[a] THEN session[a] ELSE None)
        /\ pc'[a] = (IF result'[a] # None THEN "done" ELSE "closing")
    BY <1>2, <2>1 DEF ReturnSession, Return
  <2>3. result'[a] # None => pc'[a] = "done" /\ success[a] /\ result'[a] = Own(a)
    BY <2>2 DEF SessionsOwn
  <2>4. Sent(a) /\ Sent(a)'
    BY <2>1, <2>2 DEF Sent
  <2> QED
    BY <1>0, <2>2, <2>3, <2>4 DEF SessionsOwn, Sent
<1>3. CASE ~Reset(a) /\ ~ReturnSession(a)
  <2>1. /\ UNCHANGED <<session, success, result, delivered>>
        /\ pc[a] # "done"
    BY <1>3 DEF CallerStep, CallerFault, StartAccessAuth, CreateChannel, SendRequest,
        GetEntry, Awake, Timeout, RemoveEntry, Close, CloseChannel, RefuseArgument, RequestFails,
        CreateChannelFails, SendFails, Interrupted
  <2>2. Sent(a) => Sent(a)'
    BY CallerKeepsSent DEF SentStays
  <2> QED
    BY <1>0, <2>1, <2>2, SessionsOwnStable DEF Sent
<1> QED
  BY <1>1, <1>2, <1>3

LEMMA SendExchange ==
    ASSUME TypeOK, ChannelInv, ExchangeInv, NEW a \in Attempt, SendRequest(a)
    PROVE  MessagesOwned' /\ HandlersOwned'
<1> USE DEF SendRequest, MoveCaller, assistVars, handlerVars, TypeOK, ClientTypeOK, NetTypeOK
<1>a. PICK c \in Attempt : c = ChannelOf(a)
  BY DEF ChannelOf, LocalsOK
<1> DEFINE r == Request(c, DeviceOf[a], a)
<1>1. ClientOf[c] = ClientOf[a] /\ Connected(c)
  BY <1>a DEF ChannelInv, ChannelsOwn, ChannelOf, LocalsOK
<1>2. Active(a) /\ pc[a] = "ready" /\ pc'[a] = "sent" /\ \A b \in Attempt \ {a} : pc'[b] = pc[b]
  BY DEF Active
<1>3. \A b, d \in Attempt : Exchanges(b, d) => Exchanges(b, d)'
  BY <1>2 DEF Exchanges, ChannelOf
<1>4. \A b \in Attempt : ~Exchanges(b, c)
  <2> SUFFICES ASSUME NEW b \in Attempt, Exchanges(b, c) PROVE FALSE
    OBVIOUS
  <2>1. ClientOf[b] = ClientOf[a]
    BY <1>1 DEF Exchanges
  <2>2. a = b
    BY <1>1, <1>2, <2>1, OneOwner
  <2> QED
    BY <1>2, <2>2 DEF Exchanges
<1>5. task[c] = "idle" /\ \A m \in wire : m.ch = c => ~cliOpen[c]
  BY <1>1, <1>4 DEF ExchangeInv, MessagesOwned, HandlersOwned, Handles
<1>6. Exchanges(a, c)'
  BY <1>a, <1>1, <1>2 DEF Exchanges, ChannelOf, ExchangeInv, SessionsOwn, Sent
<1>7. r.ch = c /\ OfExchange(r, a)
  BY DEF Request, OfExchange
<1>8. HandlersOwned'
  BY <1>3 DEF ExchangeInv, HandlersOwned, Handles
<1>9. MessagesOwned'
  <2> SUFFICES ASSUME NEW n \in wire'
               PROVE  /\ Connected(n.ch)'
                      /\ cliOpen[n.ch] =>
                           /\ task[n.ch] = "idle"
                           /\ \A l \in wire' : l.ch = n.ch => l = n
                           /\ \E d \in Attempt : Exchanges(d, n.ch)' /\ OfExchange(n, d)
    BY DEF MessagesOwned
  <2>0. wire' = wire \cup IF cliOpen[c] /\ srvOpen[c] THEN {r} ELSE {}
    BY <1>a
  <2>1. \A m \in wire : m.ch \in Attempt
    BY MessageType
  <2>2. \A b \in Attempt : Connected(b) => Connected(b)'
    BY <1>2 DEF Connected
  <2>3. CASE n \in wire
    <3>1. cliOpen[n.ch] => n.ch # c
      BY <1>5, <2>3
    <3> QED
      BY <1>3, <1>7, <2>0, <2>1, <2>2, <2>3, <3>1 DEF ExchangeInv, MessagesOwned
  <2>4. CASE n = r /\ cliOpen[c]
    <3>1. n.ch = c /\ Connected(c)' /\ task[c] = "idle"
      BY <1>1, <1>5, <1>7, <2>2, <2>4
    <3>2. \A l \in wire' : l.ch = c => l = n
      BY <1>5, <2>0, <2>4
    <3>3. Exchanges(a, c)' /\ OfExchange(n, a)
      BY <1>6, <1>7, <2>4
    <3> QED
      BY <3>1, <3>2, <3>3
  <2> QED
    BY <2>0, <2>3, <2>4
<1> QED
  BY <1>8, <1>9

LEMMA CallerItems ==
    ASSUME TypeOK, ChannelInv, ExchangeInv, NEW a \in Attempt,
           StartAccessAuth(a) \/ CallerStep(a) \/ CallerFault(a)
    PROVE  MessagesOwned' /\ HandlersOwned'
<1> USE DEF TypeOK, ClientTypeOK, NetTypeOK, MoveCaller, Advance, assistVars, netVars
<1>0. \A b \in Attempt \ {a} : pc'[b] = pc[b]
  BY CallerMovesOnlyItself
<1>1. UNCHANGED handlerVars
  BY DEF StartAccessAuth, CallerFault, CreateChannelFails, SendFails, Interrupted,
      RefuseArgument, RequestFails, CallerStep, Reset, CreateChannel, SendRequest, GetEntry,
      Awake, Timeout, RemoveEntry, ReturnSession, Return, Close, CloseChannel
<1>2. CASE SendRequest(a)
  BY <1>2, SendExchange
<1>3. CASE CreateChannel(a)
  <2>1. /\ wire' = wire /\ channels' = [channels EXCEPT ![ClientOf[a]] = a]
        /\ cliOpen' = [cliOpen EXCEPT ![a] = TRUE] /\ session' = session /\ success' = success
        /\ pc[a] = "reset" /\ pc'[a] = "ready"
    BY <1>3 DEF CreateChannel
  <2>2. \A b \in Attempt : Connected(b) => Connected(b)'
    BY <1>0, <2>1 DEF Connected
  <2>3. \A m \in wire : m.ch # a
    BY <2>1 DEF ExchangeInv, MessagesOwned, Connected
  <2>4. ASSUME NEW b \in Attempt, NEW c \in Attempt, Exchanges(b, c)
        PROVE  Exchanges(b, c)'
    <3>1. b # a /\ ClientOf[b] # ClientOf[a]
      BY <2>1, <2>4 DEF Exchanges, ChannelInv, TakesTurns, Active
    <3> QED
      BY <1>0, <2>1, <2>4, <3>1 DEF Exchanges, ChannelOf
  <2> QED
    BY <1>1, <2>1, <2>2, <2>3, <2>4, ItemsStable DEF ExchangeInv
<1>4. CASE Close(a)
  <2>1. /\ wire' \subseteq wire /\ channels' = channels /\ session' = session
        /\ success' = success /\ pc[a] = "closing" /\ pc'[a] = "done"
        /\ ChannelOf(a) \in Attempt /\ task[ChannelOf(a)] = "idle"
        /\ cliOpen' = [cliOpen EXCEPT ![ChannelOf(a)] = FALSE]
    BY <1>4 DEF Close, CloseChannel, ClosedByClient, ChannelOf, LocalsOK
  <2>2. \A b \in Attempt : Connected(b) => Connected(b)'
    BY <1>0, <2>1 DEF Connected
  <2>3. \A b, c \in Attempt : Exchanges(b, c) => Exchanges(b, c)' \/ c = ChannelOf(a)
    BY <1>0, <2>1 DEF Exchanges, ChannelOf
  <2> QED
    BY <1>1, <2>1, <2>2, <2>3, ItemsStable DEF ExchangeInv
<1>5. CASE ReturnSession(a)
  <2>1. /\ entry[a] = a /\ pc[a] = "removed" /\ UNCHANGED <<wire, cliOpen, channels, session, success>>
        /\ ~success[a] => pc'[a] = "closing"
        /\ pc'[a] \in {"closing", "done"}
    BY <1>5 DEF ReturnSession, Return, ExchangeInv, EntriesOwn
  <2>2. \A b \in Attempt : Connected(b) => Connected(b)'
    BY <1>0, <2>1 DEF Connected
  <2>3. \A b, c \in Attempt : Exchanges(b, c) => Exchanges(b, c)'
    BY <1>0, <2>1 DEF Exchanges, ChannelOf
  <2> QED
    BY <1>1, <2>1, <2>2, <2>3, ItemsStable DEF ExchangeInv
<1>6. CASE StartAccessAuth(a) \/ Reset(a) \/ RefuseArgument(a) \/ RequestFails(a)
           \/ CreateChannelFails(a) \/ SendFails(a)
  <2>1. /\ UNCHANGED <<wire, cliOpen, channels>>
        /\ pc[a] \in {"idle", "init", "reset", "ready"} /\ (Connected(a) => pc'[a] = "closing")
        /\ \A b \in Attempt \ {a} : session'[b] = session[b] /\ success'[b] = success[b]
    BY <1>6 DEF StartAccessAuth, Reset, RefuseArgument, RequestFails, CreateChannelFails,
        SendFails, Connected
  <2>2. \A b \in Attempt : Connected(b) => Connected(b)'
    BY <1>0, <2>1 DEF Connected
  <2>3. \A b, c \in Attempt : Exchanges(b, c) => b # a /\ Exchanges(b, c)'
    BY <1>0, <2>1 DEF Exchanges, ChannelOf
  <2> QED
    BY <1>1, <2>1, <2>2, <2>3, ItemsStable DEF ExchangeInv
<1>7. CASE GetEntry(a) \/ Awake(a) \/ Timeout(a) \/ Interrupted(a) \/ RemoveEntry(a)
  <2>1. /\ UNCHANGED <<wire, cliOpen, channels, session, success>>
        /\ pc'[a] \in {"waiting", "awake", "removed", "closing"}
    BY <1>7 DEF GetEntry, Awake, Timeout, Interrupted, RemoveEntry
  <2>2. \A b \in Attempt : Connected(b) => Connected(b)'
    BY <1>0, <2>1 DEF Connected
  <2>3. \A b, c \in Attempt : Exchanges(b, c) => Exchanges(b, c)'
    BY <1>0, <2>1 DEF Exchanges, ChannelOf
  <2> QED
    BY <1>1, <2>1, <2>2, <2>3, ItemsStable DEF ExchangeInv
<1> QED
  BY <1>2, <1>3, <1>4, <1>5, <1>6, <1>7 DEF CallerStep, CallerFault

--------------------------------------------------------------------------------
(* The inductive invariant. *)

LEMMA ExchangeStep ==
    ASSUME OneClientPerDevice, TypeOK, AgreementInv, ChannelInv, ExchangeInv, [Next]_vars
    PROVE  ExchangeInv'
<1>1. CASE UNCHANGED vars
  BY <1>1 DEF vars, netVars, serverVars, clientVars, assistVars, callerVars, handlerVars,
      ExchangeInv, MessagesOwned, HandlersOwned, Handles, EntriesOwn, SessionsOwn, Exchanges,
      ChannelOf, Connected, Active, Sent
<1>2. ASSUME NEW a \in Attempt, StartAccessAuth(a) \/ CallerStep(a) \/ CallerFault(a),
             UNCHANGED serverVars
      PROVE  ExchangeInv'
  BY <1>2, CallerItems, CallerEntries, CallerSessions DEF ExchangeInv
<1>3. ASSUME NEW c \in Attempt, HandlerStep(c), UNCHANGED serverVars
      PROVE  ExchangeInv'
  BY <1>3, HandlerExchangeStep
<1>4. CASE ServerNext /\ UNCHANGED clientVars
  BY <1>4, ServerExchangeStep
<1> QED
  BY <1>1, <1>2, <1>3, <1>4 DEF Next, ClientNext

(* Every message and every thread of a channel works for one attempt that is   *)
(* still waiting or giving up, on that attempt's own values.                   *)
THEOREM ExchangesCorrect ==
    ASSUME OneClientPerDevice
    PROVE  Spec => []ExchangeInv
<1>1. TypeOK /\ AgreementInv /\ ChannelInv /\ ExchangeInv /\ [Next]_vars => ExchangeInv'
  BY ExchangeStep
<1> QED
  BY <1>1, InitExchange, TypeCorrect, AgreementCorrect, ChannelsCorrect, PTL DEF Spec

(* What startAccessAuth returns is the session the server established for this *)
(* attempt's own nonce, device and key, and the transport was given it too     *)
(* (AuthenticationClient.getSessionInfo).                                      *)
THEOREM CallersAgree ==
    ASSUME OneClientPerDevice
    PROVE  Spec => []CallerAgreement
<1>1. ExchangeInv => CallerAgreement
  <2> SUFFICES ASSUME ExchangeInv, NEW a \in Attempt, result[a] # None
               PROVE  /\ result[a] \in established
                      /\ result[a].cn = a
                      /\ result[a].dev = DeviceOf[a]
                      /\ \E r \in delivered : r.sess = result[a]
    BY DEF CallerAgreement
  <2>1. result[a] = Own(a) /\ success[a]
    BY DEF ExchangeInv, SessionsOwn
  <2>2. Own(a) \in established /\ \E r \in delivered : r.sess = Own(a)
    BY <2>1 DEF ExchangeInv, SessionsOwn
  <2>3. Own(a).cn = a /\ Own(a).dev = DeviceOf[a]
    BY DEF Own
  <2> QED
    BY <2>1, <2>2, <2>3
<1> QED
  BY <1>1, ExchangesCorrect, PTL

(* getSessionInfo removes the entry of its own attempt, or nothing.            *)
THEOREM OwnEntryRemoved ==
    ASSUME OneClientPerDevice
    PROVE  Spec => RemovesOwnEntry
<1>1. ExchangeInv => (\A a \in Attempt : RemoveEntry(a) => assistMap[DeviceOf[a]] \in {a, None})
  BY DEF ExchangeInv, EntriesOwn, RemoveEntry, MoveCaller, Active
<1> QED
  BY <1>1, ExchangesCorrect, PTL DEF RemovesOwnEntry

--------------------------------------------------------------------------------
(* The refinement of MutualAuth, step by step. *)

LEMMA InitPromise == Init => Promise!Init
BY DEF Init, ServerInit, ClientInit, Promise!Init, PhaseOf

\* How the phase of the one attempt that moves decides the step of the promise.
LEMMA PhaseMoves ==
    ASSUME NEW a \in Attempt, established' = established,
           \A b \in Attempt \ {a} : pc'[b] = pc[b] /\ result'[b] = result[b],
           \/ PhaseOf(a)' = PhaseOf(a)
           \/ PhaseOf(a) = "idle" /\ PhaseOf(a)' = "running"
           \/ PhaseOf(a) = "running" /\ PhaseOf(a)' = "failure"
           \/ /\ PhaseOf(a) = "running" /\ PhaseOf(a)' = "success"
              /\ \E t \in established : t.cn = a
    PROVE  [Promise!Next]_(Promise!vars)
<1> DEFINE P == [b \in Attempt |-> PhaseOf(b)]
           G == {t.cn : t \in established}
<1>1. P \in [Attempt -> {"idle", "running", "success", "failure"}]
  BY DEF PhaseOf
<1>2. \A b \in Attempt \ {a} : PhaseOf(b)' = PhaseOf(b)
  BY DEF PhaseOf
<1>3. P' = [P EXCEPT ![a] = PhaseOf(a)'] /\ G' = G
  BY <1>2
<1>4. CASE PhaseOf(a)' = PhaseOf(a)
  BY <1>3, <1>4 DEF Promise!vars
<1>5. CASE PhaseOf(a) = "idle" /\ PhaseOf(a)' = "running"
  BY <1>3, <1>5 DEF Promise!Next, Promise!Begin
<1>6. CASE PhaseOf(a) = "running" /\ PhaseOf(a)' = "failure"
  BY <1>3, <1>6 DEF Promise!Next, Promise!Fail
<1>7. CASE /\ PhaseOf(a) = "running" /\ PhaseOf(a)' = "success"
           /\ \E t \in established : t.cn = a
  <2>1. a \in G /\ P[a] = "running" /\ P' = [P EXCEPT ![a] = "success"]
    BY <1>3, <1>7
  <2> QED
    BY <1>3, <2>1 DEF Promise!Next, Promise!Succeed
<1> QED
  BY <1>4, <1>5, <1>6, <1>7

LEMMA CallerPromise ==
    ASSUME TypeOK, ExchangeInv, NEW a \in Attempt,
           StartAccessAuth(a) \/ CallerStep(a) \/ CallerFault(a), UNCHANGED serverVars
    PROVE  [Promise!Next]_(Promise!vars)
<1> USE DEF TypeOK, ClientTypeOK, MoveCaller, Advance, serverVars
<1>0. \A b \in Attempt \ {a} : pc'[b] = pc[b] /\ result'[b] = result[b]
  BY CallerMovesOnlyItself
<1>1. CASE StartAccessAuth(a)
  <2>1. pc[a] = "idle" /\ pc'[a] = "init" /\ result'[a] = None /\ result[a] = None
    BY <1>1 DEF StartAccessAuth, ExchangeInv, SessionsOwn
  <2>2. PhaseOf(a) = "idle"
    BY <2>1 DEF PhaseOf
  <2>3. PhaseOf(a)' = "running"
    BY <2>1 DEF PhaseOf
  <2> QED
    BY <1>0, <2>2, <2>3, PhaseMoves
<1>2. CASE ReturnSession(a)
  <2>1. pc[a] = "removed" /\ entry[a] = a /\ result[a] = None
    BY <1>2 DEF ReturnSession, ExchangeInv, EntriesOwn, SessionsOwn
  <2>2. CASE success[a]
    <3>1. result'[a] = Own(a) /\ pc'[a] = "done"
      BY <1>2, <2>1, <2>2, OwnType DEF ReturnSession, Return, ExchangeInv, SessionsOwn
    <3>2. Own(a) \in established /\ Own(a).cn = a
      BY <2>2 DEF ExchangeInv, SessionsOwn, Own
    <3>3. PhaseOf(a) = "running"
      BY <2>1 DEF PhaseOf
    <3>4. PhaseOf(a)' = "success"
      BY <3>1, OwnType DEF PhaseOf
    <3> QED
      BY <1>0, <3>2, <3>3, <3>4, PhaseMoves
  <2>3. CASE ~success[a]
    <3>1. result'[a] = None /\ pc'[a] = "closing"
      BY <1>2, <2>1, <2>3 DEF ReturnSession, Return
    <3>2. PhaseOf(a) = "running" /\ PhaseOf(a)' = "failure"
      BY <2>1, <3>1 DEF PhaseOf
    <3> QED
      BY <1>0, <3>2, PhaseMoves
  <2> QED
    BY <2>2, <2>3
<1>3. CASE ~StartAccessAuth(a) /\ ~ReturnSession(a)
  <2>1. /\ result'[a] = result[a] /\ pc[a] \notin {"idle", "done"}
        /\ pc'[a] # "idle"
        /\ pc[a] = "closing" => pc'[a] = "done"
    BY <1>3 DEF CallerStep, CallerFault, Reset, CreateChannel, SendRequest, GetEntry, Awake,
        Timeout, RemoveEntry, Close, CloseChannel, RefuseArgument, RequestFails,
        CreateChannelFails, SendFails, Interrupted
  <2>2. result[a] = None
    BY <2>1 DEF ExchangeInv, SessionsOwn
  <2>3. PhaseOf(a)' = PhaseOf(a) \/ (PhaseOf(a) = "running" /\ PhaseOf(a)' = "failure")
    BY <2>1, <2>2 DEF PhaseOf
  <2> QED
    BY <1>0, <2>3, PhaseMoves
<1> QED
  BY <1>1, <1>2, <1>3

LEMMA ServerPromise ==
    ASSUME TypeOK, AgreementInv, ExchangeInv, ServerNext, UNCHANGED clientVars
    PROVE  [Promise!Next]_(Promise!vars)
<1> USE DEF clientVars, callerVars
<1>1. [b \in Attempt |-> PhaseOf(b)]' = [b \in Attempt |-> PhaseOf(b)]
  BY DEF PhaseOf
<1>2. CASE established' = established
  BY <1>1, <1>2 DEF Promise!vars
<1>3. ASSUME NEW m \in wire, AcceptClientProof(m)
      PROVE  [Promise!Next]_(Promise!vars)
  <2> DEFINE p == m.proof
             a == p.cn
  <2>1. p \in Transcript /\ a \in Attempt /\ p.dev \in Device
    BY <1>3, MessageType, TranscriptType DEF AcceptClientProof, TypeOK, NetTypeOK
  <2>2. established' = established \cup {p} /\ CheckClientAuthentication(p)
    BY <1>3 DEF AcceptClientProof
  <2>3. p.cn = p.sn /\ a \in Genuine /\ Sent(a)
    BY <1>3, <2>1, <2>2 DEF CheckClientAuthentication, AcceptClientProof, AgreementInv,
        ExchangesFresh, EntriesFiledByDevice, Bound, Genuine
  <2>4. \A t \in established : t.cn # a
    BY <2>1, <2>2, <2>3 DEF CheckClientAuthentication, AgreementInv, ExchangesFresh,
        SessionsGenuine
  <2>5. result[a] = None
    BY <2>1, <2>4 DEF ExchangeInv, SessionsOwn, Own
  <2>6. PhaseOf(a) \in {"running", "failure"}
    BY <2>3, <2>5 DEF PhaseOf, Sent
  <2>7. {t.cn : t \in established}' = {t.cn : t \in established} \cup {a}
    BY <2>2
  <2> QED
    <3>1. a \in Genuine \ {t.cn : t \in established}
      BY <2>3, <2>4
    <3>2. [b \in Attempt |-> PhaseOf(b)][a] \in {"running", "failure"}
      BY <2>1, <2>6
    <3> HIDE DEF a
    <3> QED
      BY <1>1, <2>1, <2>7, <3>1, <3>2 DEF Promise!Next, Promise!Grant
<1> QED
  BY <1>2, <1>3, ServerMaps DEF TypeOK

LEMMA PromiseStep ==
    ASSUME TypeOK, AgreementInv, ExchangeInv, [Next]_vars
    PROVE  [Promise!Next]_(Promise!vars)
<1>1. CASE UNCHANGED vars
  BY <1>1 DEF vars, serverVars, clientVars, callerVars, Promise!vars, PhaseOf
<1>2. ASSUME NEW a \in Attempt, StartAccessAuth(a) \/ CallerStep(a) \/ CallerFault(a),
             UNCHANGED serverVars
      PROVE  [Promise!Next]_(Promise!vars)
  BY <1>2, CallerPromise
<1>3. ASSUME NEW c \in Attempt, HandlerStep(c), UNCHANGED serverVars
      PROVE  [Promise!Next]_(Promise!vars)
  BY <1>3, HandlerLeavesCallers DEF serverVars, callerVars, Promise!vars, PhaseOf
<1>4. CASE ServerNext /\ UNCHANGED clientVars
  BY <1>4, ServerPromise
<1> QED
  BY <1>1, <1>2, <1>3, <1>4 DEF Next, ClientNext

(* The authentication keeps the promise of MutualAuth: the server grants each  *)
(* genuine attempt that has begun at most once, and an attempt succeeds only   *)
(* with the session granted to it.                                             *)
THEOREM Implementation ==
    ASSUME OneClientPerDevice
    PROVE  Spec => ImplementsMutualAuth
<1>1. TypeOK /\ AgreementInv /\ ExchangeInv /\ [Next]_vars => [Promise!Next]_(Promise!vars)
  BY PromiseStep
<1> QED
  BY <1>1, InitPromise, TypeCorrect, AgreementCorrect, ExchangesCorrect, PTL
  DEF Spec, ImplementsMutualAuth, Promise!Spec

--------------------------------------------------------------------------------
(* The bytes under the messages. *)

\* Every message but a failure has a type of packet.
LEMMA TypesOnTheirWay ==
    ASSUME TypeOK
    PROVE  OnItsWay \subseteq MessageTypes
<1>1. wire \subseteq ToServer \cup ToClient
  BY DEF TypeOK, NetTypeOK
<1>2. ASSUME NEW m \in ToServer \cup ToClient, m.type # "FAILURE"
      PROVE  m.type \in {"REQUEST", "RESPONSE", "CLIENT_PROOF", "SERVER_PROOF"}
  BY <1>2 DEF ToServer, ToClient
<1>3. ASSUME NEW t \in {"REQUEST", "RESPONSE", "CLIENT_PROOF", "SERVER_PROOF"}
      PROVE  PacketType[t] \in MessageTypes
  BY DEF PacketType, MessageTypes
<1> QED
  BY <1>1, <1>2, <1>3 DEF OnItsWay

(* Whatever is on its way will be understood, in every state of every instance  *)
(* and with faults of every kind: what one side wraps the other unwraps, and    *)
(* both compute over the same bytes.                                            *)
THEOREM FramesCorrect == Spec => []FramesUnderstood
<1>1. TypeOK => FramesUnderstood
  BY TypesOnTheirWay, AllUnderstood DEF FramesUnderstood
<1> QED
  BY <1>1, TypeCorrect, PTL

(* Whatever is on its way is refused when it is damaged, and a failure is taken *)
(* for no message.                                                              *)
THEOREM DamageCorrect == Spec => []BrokenFramesRefused
<1>1. TypeOK => BrokenFramesRefused
  BY TypesOnTheirWay, AllDamageNoticed DEF BrokenFramesRefused
<1> QED
  BY <1>1, TypeCorrect, PTL
================================================================================
