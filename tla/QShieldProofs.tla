----------------------------- MODULE QShieldProofs -----------------------------
(* Proofs about QShieldAuth, for every number of attempts, nonces, tokens and  *)
(* clients, every backlog and every fault.                                     *)
EXTENDS QShieldAuth, AuthServerProofs

USE NoneAssumption, ParameterAssumption, NoneIsNoTranscript, NoneIsNoMessage, QShieldAssumption

--------------------------------------------------------------------------------
(* Answers of the token. *)

TokenState == [exchange : Attempt \cup {None}, proof : Transcript \cup {None}]

LEMMA AnswerType ==
    ASSUME NEW q \in Answer
    PROVE  /\ q.fun \in {"start", "auth", "check"}
           /\ q.fun = "start" => q.said \in StartInfo /\ q.said # None
           /\ q.fun # "start" => q.said \in Transcript \cup {None}
           /\ q.said # None => q.said.cn \in Attempt /\ q.said.cn \in Nat
BY DEF Answer, StartInfo, Transcript

\* What is left of a queue is the end of it.
LEMMA LeftIsEnd ==
    ASSUME NEW q \in Seq(Answer), NEW rest \in Left(q)
    PROVE  /\ rest \in Seq(Answer) /\ Len(rest) <= Backlog
           /\ \E n \in Nat : /\ Len(rest) + n = Len(q)
                             /\ \A i \in 1..Len(rest) : rest[i] = q[i + n]
<1>1. PICK n \in 1..Len(q) + 1 : rest = SubSeq(q, n, Len(q)) /\ Len(rest) <= Backlog
  BY DEF Left
<1>2. rest \in Seq(Answer) /\ Len(rest) = Len(q) - n + 1
  BY <1>1
<1>3. \A i \in 1..Len(rest) : rest[i] = q[i + (n - 1)]
  BY <1>1
<1>4. n - 1 \in Nat /\ Len(rest) + (n - 1) = Len(q)
  BY <1>2
<1> QED
  BY <1>1, <1>2, <1>3, <1>4

\* A call returns null or the first answer that was left, and leaves answers that
\* came after it.
LEMMA TakesFirst ==
    ASSUME NEW fun, NEW q \in Seq(Answer), NEW value, Takes(fun, q, value)
    PROVE  /\ late' \in Seq(Answer) /\ Len(late') <= Backlog
           /\ \/ value = None
              \/ q # <<>> /\ q[1].fun = fun /\ value = q[1].said
           /\ \E n \in Nat :
                 /\ Len(late') + n = Len(q)
                 /\ value # None => n > 0
                 /\ \A i \in 1..Len(late') : late'[i] = q[i + n]
<1>1. CASE /\ q # <<>>
           /\ value = IF Head(q).fun = fun THEN Head(q).said ELSE None
           /\ late' \in Left(Tail(q))
  <2>a. Tail(q) \in Seq(Answer)
    BY <1>1
  <2>1. PICK p \in Seq(Answer) : p = Tail(q)
    BY <2>a, Zenon
  <2>2. /\ Len(p) + 1 = Len(q) /\ Head(q) = q[1]
        /\ \A i \in 1..Len(p) : p[i] = q[i + 1]
    BY <1>1, <2>1
  <2>3. PICK rest \in Left(p) : late' = rest
    BY <1>1, <2>1
  <2>4. rest \in Seq(Answer) /\ Len(rest) <= Backlog
    BY LeftIsEnd
  <2>5. PICK n \in Nat : /\ Len(rest) + n = Len(p)
                         /\ \A i \in 1..Len(rest) : rest[i] = p[i + n]
    BY LeftIsEnd
  <2>6. n + 1 \in Nat /\ n + 1 > 0 /\ Len(rest) + (n + 1) = Len(q)
    BY <2>2, <2>4, <2>5
  <2>7. ASSUME NEW i \in 1..Len(rest) PROVE rest[i] = q[i + (n + 1)]
    <3>1. i + n \in 1..Len(p) /\ (i + n) + 1 = i + (n + 1)
      BY <2>4, <2>5
    <3> QED
      BY <2>2, <2>5, <3>1
  <2> QED
    BY <1>1, <2>2, <2>3, <2>4, <2>6, <2>7
<1>2. CASE value = None /\ late' \in Left(q)
  BY <1>2, LeftIsEnd
<1> QED
  BY <1>1, <1>2 DEF Takes

\* The same of a call that says said, whether or not the token executes it.
LEMMA CallType ==
    ASSUME TypeOK, NEW fun, NEW said, [fun |-> fun, said |-> said] \in Answer,
           NEW new \in TokenState, NEW value, Calls(fun, new, said, value)
    PROVE  /\ late' \in Seq(Answer) /\ Len(late') <= Backlog
           /\ token' \in [Device -> TokenState] /\ place' = place
           /\ token' = token \/ token' = [token EXCEPT ![place] = new]
           /\ value # None => \E q \in Answer : q.fun = fun /\ q.said = value
<1> USE DEF TypeOK, Calls
<1> DEFINE r == [fun |-> fun, said |-> said]
           q == Append(late, r)
<1>1. q \in Seq(Answer) /\ late \in Seq(Answer)
  OBVIOUS
<1>2. Takes(fun, q, value) \/ Takes(fun, late, value)
  OBVIOUS
<1>3. token' \in [Device -> TokenState]
  BY SMTT(30) DEF TokenState
<1>4. ASSUME NEW p \in Seq(Answer), Takes(fun, p, value)
      PROVE  /\ late' \in Seq(Answer) /\ Len(late') <= Backlog
             /\ value # None => \E x \in Answer : x.fun = fun /\ x.said = value
  <2>1. p # <<>> => p[1] \in Answer
    OBVIOUS
  <2>2. /\ late' \in Seq(Answer) /\ Len(late') <= Backlog
        /\ \/ value = None
           \/ p # <<>> /\ p[1].fun = fun /\ value = p[1].said
    BY <1>4, TakesFirst
  <2> QED
    BY <2>1, <2>2
<1> HIDE DEF q
<1> QED
  BY <1>1, <1>2, <1>3, <1>4

LEMMA StartType ==
    ASSUME TypeOK, NEW value, genStartInfo(value)
    PROVE  /\ late' \in Seq(Answer) /\ Len(late') <= Backlog /\ place' = place
           /\ token' \in [Device -> TokenState] /\ drawn' \in Attempt \cup {0}
           /\ value \in StartInfo \cup {None}
<1> DEFINE new == [exchange |-> drawn + 1, proof |-> None]
           said == [dev |-> place, cn |-> drawn + 1]
<1>1. drawn + 1 \in Attempt /\ Calls("start", new, said, value)
  BY DEF genStartInfo
<1>2. new \in TokenState /\ [fun |-> "start", said |-> said] \in Answer
  BY <1>1 DEF TokenState, Answer, StartInfo, TypeOK
<1>3. drawn' \in Attempt \cup {0}
  BY <1>1 DEF genStartInfo, TypeOK
<1> HIDE DEF new, said
<1> QED
  BY <1>1, <1>2, <1>3, CallType, AnswerType

LEMMA ProofIsTranscript ==
    ASSUME TypeOK, NEW sn \in Attempt
    PROVE  Proof(sn) \in Transcript \cup {None}
BY DEF Proof, Transcript, TypeOK

LEMMA AuthType ==
    ASSUME TypeOK, NEW sn \in Attempt, NEW value, genAuthInfo(sn, value)
    PROVE  /\ late' \in Seq(Answer) /\ Len(late') <= Backlog /\ place' = place
           /\ token' \in [Device -> TokenState] /\ drawn' = drawn
           /\ value \in Transcript \cup {None}
<1> DEFINE new == [token[place] EXCEPT !.proof = Proof(sn)]
<1>1. Calls("auth", new, Proof(sn), value) /\ drawn' = drawn
  BY DEF genAuthInfo
<1>2. token[place] \in TokenState /\ Proof(sn) \in Transcript \cup {None}
  BY ProofIsTranscript DEF TokenState, TypeOK
<1>3. new \in TokenState
  BY <1>2 DEF TokenState
<1>4. [fun |-> "auth", said |-> Proof(sn)] \in Answer
  BY <1>2 DEF Answer
<1> HIDE DEF new
<1> QED
  BY <1>1, <1>3, <1>4, CallType, AnswerType

LEMMA CheckType ==
    ASSUME TypeOK, NEW t \in Transcript, NEW value, checkAuthInfo(t, value)
    PROVE  /\ late' \in Seq(Answer) /\ Len(late') <= Backlog /\ place' = place
           /\ token' \in [Device -> TokenState] /\ drawn' = drawn
           /\ value \in Transcript \cup {None}
<1>1. Calls("check", token[place], Checked(t), value) /\ drawn' = drawn
  BY DEF checkAuthInfo
<1>2. token[place] \in TokenState /\ [fun |-> "check", said |-> Checked(t)] \in Answer
  BY DEF TokenState, Answer, TypeOK, Checked
<1> QED
  BY <1>1, <1>2, CallType, AnswerType

--------------------------------------------------------------------------------
(* Type correctness. *)

LEMMA InitTypeOK == Init => TypeOK
BY DEF Init, NetInit, ServerInit, TypeOK, NetTypeOK, ServerTypeOK, LocalsOK, Blank, Nothing

LEMMA ServerTypeStep ==
    ASSUME TypeOK, ServerNext, UNCHANGED <<tokenVars, mapVars, callerVars, handlerVars>>
    PROVE  TypeOK'
BY ServerNextType DEF TypeOK, LocalsOK, tokenVars, mapVars, callerVars, handlerVars

LEMMA AdvanceType ==
    ASSUME TypeOK, NEW a \in Caller, NEW from, NEW to, Advance(a, from, to),
           UNCHANGED serverVars,
           \/ to \in {"init", "done"}
           \/ from = "latched" /\ to = "ready" /\ ChannelOf(a) # None
           \/ from \in {"ready", "waiting"} /\ to \in {"awake", "closing"}
    PROVE  TypeOK'
<1>1. /\ pc[a] = from /\ pc' = [pc EXCEPT ![a] = to]
      /\ UNCHANGED <<netVars, serverVars, tokenVars, mapVars, handlerVars>>
      /\ UNCHANGED <<channels, started, latch, result>>
  BY DEF Advance, Move
<1>2. NetTypeOK' /\ ServerTypeOK'
  BY <1>1 DEF TypeOK, NetTypeOK, ServerTypeOK, netVars, serverVars
<1>3. LocalsOK'
  BY <1>1 DEF TypeOK, LocalsOK, ChannelOf, handlerVars
<1>4. pc' \in [Caller -> {"idle", "init", "info", "reset", "latched", "ready", "sent",
                          "waiting", "awake", "closing", "done"}]
  BY <1>1 DEF TypeOK
<1> QED
  BY <1>1, <1>2, <1>3, <1>4 DEF TypeOK, tokenVars, mapVars, handlerVars

LEMMA CallerTypeStep ==
    ASSUME TypeOK, NEW a \in Caller,
           StartAccessAuth(a) \/ CallerStep(a) \/ CallerFault(a), UNCHANGED serverVars
    PROVE  TypeOK'
<1>0. ServerTypeOK'
  BY DEF TypeOK, ServerTypeOK, serverVars
<1>1. a \in Attempt /\ ClientOf[a] \in Client
  OBVIOUS
<1>2. pc[a] \notin {"idle", "init", "done"} =>
        started[a] \in StartInfo /\ DeviceOfCall(a) \in Device /\ started[a].cn \in Attempt
  BY DEF TypeOK, LocalsOK, DeviceOfCall, StartInfo
<1>3. CASE StartAccessAuth(a)
  BY <1>3, AdvanceType DEF StartAccessAuth
<1>4. CASE GetStartInfo(a)
  <2>1. PICK value : /\ genStartInfo(value)
                     /\ Move(a, "init", IF value = None THEN "done" ELSE "info")
                     /\ started' = [started EXCEPT ![a] = value]
                     /\ UNCHANGED <<netVars, mapVars, channels, latch, result, handlerVars>>
    BY <1>4 DEF GetStartInfo
  <2> QED
    BY <1>0, <1>1, <2>1, StartType
    DEF TokenState, TypeOK, NetTypeOK, LocalsOK, Move, netVars, mapVars, handlerVars
<1> USE DEF TypeOK, NetTypeOK, LocalsOK, Move, netVars, mapVars, handlerVars, tokenVars
<1>5. CASE ResetSession(a)
  BY <1>0, <1>2, <1>5 DEF ResetSession
<1>6. CASE ResetLatch(a)
  BY <1>0, <1>2, <1>6 DEF ResetLatch
<1>7. CASE CreateChannel(a)
  BY <1>0, <1>1, <1>7 DEF CreateChannel
<1>8. CASE SendRequest(a)
  <2>1. ChannelOf(a) \in Attempt /\ wire \subseteq ToServer \cup ToClient
    BY <1>1, <1>8 DEF SendRequest, ChannelOf
  <2>2. Request(ChannelOf(a), DeviceOfCall(a), started[a].cn) \in ToServer
    BY <1>2, <1>8, <2>1, RequestType DEF SendRequest
  <2>3. wire' \subseteq ToServer \cup ToClient
    BY <1>8, <2>1, <2>2 DEF SendRequest
  <2>4. NetTypeOK'
    BY <1>8, <2>3 DEF SendRequest
  <2>5. LocalsOK'
    BY <1>2, <1>8 DEF SendRequest
  <2> HIDE DEF NetTypeOK, LocalsOK
  <2> QED
    BY <1>0, <1>8, <2>4, <2>5 DEF SendRequest
<1>9. CASE GetLatch(a)
  BY <1>0, <1>2, <1>9 DEF GetLatch
<1>10. CASE GetSession(a)
  BY <1>0, <1>2, <1>10 DEF GetSession
<1>11. CASE Close(a)
  BY <1>0, <1>11 DEF Close, ClosedByClient
<1>12. CASE Awake(a) \/ Timeout(a) \/ Interrupted(a)
  BY <1>12, AdvanceType DEF Awake, Timeout, Interrupted
<1>13. CASE SendFails(a) \/ CreateChannelFails(a)
  BY <1>13, AdvanceType DEF SendFails, CreateChannelFails
<1> QED
  BY <1>3, <1>4, <1>5, <1>6, <1>7, <1>8, <1>9, <1>10, <1>11, <1>12, <1>13
  DEF CallerStep, CallerFault

LEMMA GoesType ==
    ASSUME TypeOK, NEW c \in Caller, NEW to, NEW sess, NEW dev, Goes(c, to, sess, dev),
           \/ to = "idle" /\ sess = None /\ dev = None
           \/ to = "checked" /\ sess \in Transcript /\ dev = None
           \/ to \in {"named", "filed"} /\ sess \in Transcript /\ dev \in Device
    PROVE  /\ task' \in [Caller -> {"idle", "checked", "named", "filed"}]
           /\ got' \in [Caller -> [sess : Transcript \cup {None}, dev : Device \cup {None}]]
           /\ \A b \in Caller : /\ task'[b] # "idle" => got'[b].sess # None
                                /\ task'[b] \in {"named", "filed"} => got'[b].dev # None
<1> DEFINE new == [sess |-> sess, dev |-> dev]
<1>1. task' = [task EXCEPT ![c] = to] /\ got' = [got EXCEPT ![c] = new]
  BY DEF Goes
<1>2. /\ new \in [sess : Transcript \cup {None}, dev : Device \cup {None}]
      /\ new.sess = sess /\ new.dev = dev
  OBVIOUS
<1> HIDE DEF new
<1>3. /\ task \in [Caller -> {"idle", "checked", "named", "filed"}]
      /\ got \in [Caller -> [sess : Transcript \cup {None}, dev : Device \cup {None}]]
      /\ \A b \in Caller : /\ task[b] # "idle" => got[b].sess # None
                           /\ task[b] \in {"named", "filed"} => got[b].dev # None
  BY DEF TypeOK, LocalsOK
<1> QED
  BY <1>1, <1>2, <1>3

LEMMA GotType ==
    ASSUME TypeOK, NEW c \in Caller
    PROVE  /\ task[c] # "idle" => got[c].sess \in Transcript
           /\ task[c] \in {"named", "filed"} => got[c].dev \in Device
BY DEF TypeOK, LocalsOK

LEMMA HandlerTypeStep ==
    ASSUME TypeOK, NEW c \in Caller, HandlerStep(c), UNCHANGED serverVars
    PROVE  TypeOK'
<1>0. ServerTypeOK' /\ c \in Attempt /\ wire \subseteq ToServer \cup ToClient
  BY DEF TypeOK, NetTypeOK, ServerTypeOK, serverVars
<1> DEFINE GotTyped ==
             /\ task \in [Caller -> {"idle", "checked", "named", "filed"}]
             /\ got \in [Caller -> [sess : Transcript \cup {None}, dev : Device \cup {None}]]
             /\ \A b \in Caller : /\ task[b] # "idle" => got[b].sess # None
                                  /\ task[b] \in {"named", "filed"} => got[b].dev # None
           TokenTyped ==
             /\ late \in Seq(Answer) /\ Len(late) <= Backlog /\ place \in Device
             /\ token \in [Device -> TokenState] /\ drawn \in Attempt \cup {0}
           MapsTyped ==
             /\ sessionMap \in [Device -> Transcript \cup {None}]
             /\ latchMap \in [Device -> Caller \cup {None}]
             /\ counted \subseteq Caller
<1>g. GotTyped /\ TokenTyped /\ MapsTyped /\ NetTypeOK
  BY DEF TypeOK, LocalsOK, TokenState
<1>f. ASSUME GotTyped', TokenTyped', MapsTyped', NetTypeOK', UNCHANGED callerVars
      PROVE  TypeOK'
  <2>a. channels' = channels /\ pc' = pc /\ started' = started
    BY <1>f DEF callerVars
  <2>b. \A b \in Caller : /\ task'[b] # "idle" => got'[b].sess # None
                          /\ task'[b] \in {"named", "filed"} => got'[b].dev # None
    BY <1>f
  <2>c. LocalsOK
    BY DEF TypeOK
  <2>1. LocalsOK'
    BY <2>a, <2>b, <2>c DEF LocalsOK
  <2>2. /\ channels' \in [Client -> Caller \cup {None}]
        /\ pc' \in [Caller -> {"idle", "init", "info", "reset", "latched", "ready", "sent",
                              "waiting", "awake", "closing", "done"}]
        /\ started' \in [Caller -> StartInfo \cup {None}]
        /\ latch' \in [Caller -> Caller \cup {None}]
        /\ result' \in [Caller -> Transcript \cup {None}]
    BY <1>f DEF TypeOK, callerVars
  <2> QED
    BY <1>0, <1>f, <2>1, <2>2 DEF TypeOK, TokenState
<1>t. UNCHANGED tokenVars => TokenTyped'
  BY <1>g DEF tokenVars
<1>h. UNCHANGED handlerVars => GotTyped'
  BY <1>g DEF handlerVars
<1>m. UNCHANGED mapVars => MapsTyped'
  BY <1>g DEF mapVars
<1>n. UNCHANGED <<cliOpen, srvOpen>> /\ wire' \subseteq ToServer \cup ToClient => NetTypeOK'
  BY <1>g DEF NetTypeOK
<1>s. ASSUME NEW value, genStartInfo(value) \/ (\E sn \in Attempt : genAuthInfo(sn, value))
                          \/ (\E t \in Transcript : checkAuthInfo(t, value))
      PROVE  TokenTyped'
  BY <1>g, <1>s, StartType, AuthType, CheckType
<1> HIDE DEF GotTyped, TokenTyped, MapsTyped
<1>1. ASSUME NEW m \in wire, IgnoreFailure(c, m)
      PROVE  TypeOK'
  BY <1>0, <1>f, <1>t, <1>h, <1>m, <1>n, <1>1 DEF IgnoreFailure
<1>2. ASSUME NEW m \in wire, SendProof(c, m)
      PROVE  TypeOK'
  <2>1. m.sn \in Attempt
    BY <1>2, MessageType DEF SendProof, Receives, TypeOK
  <2>2. PICK value : /\ genAuthInfo(m.sn, value)
                     /\ wire' = (wire \ {m}) \cup IF value # None /\ srvOpen[c]
                                                  THEN {ClientProof(c, value)} ELSE {}
    BY <1>2 DEF SendProof
  <2>3. value # None => ClientProof(c, value) \in ToServer
    BY <1>0, <2>1, <2>2, AuthType, ProofType
  <2>4. wire' \subseteq ToServer \cup ToClient
    BY <1>0, <2>2, <2>3
  <2> QED
    BY <1>f, <1>h, <1>m, <1>n, <1>s, <1>2, <2>1, <2>2, <2>4 DEF SendProof
<1>3. ASSUME NEW m \in wire, CheckServerProof(c, m)
      PROVE  TypeOK'
  <2>1. m.proof \in Transcript
    BY <1>3, MessageType DEF CheckServerProof, Receives, TypeOK
  <2>2. PICK value : /\ checkAuthInfo(m.proof, value)
                     /\ IF value = None THEN UNCHANGED handlerVars
                        ELSE Goes(c, "checked", value, None)
    BY <1>3 DEF CheckServerProof
  <2>3. GotTyped'
    BY <1>h, <2>1, <2>2, CheckType, GoesType DEF GotTyped
  <2> QED
    BY <1>0, <1>f, <1>m, <1>n, <1>s, <1>3, <2>1, <2>2, <2>3 DEF CheckServerProof
<1>4. CASE GetDeviceID(c)
  <2>1. PICK value : /\ genStartInfo(value)
                     /\ IF value = None THEN Goes(c, "idle", None, None)
                        ELSE Goes(c, "named", got[c].sess, value.dev)
    BY <1>4 DEF GetDeviceID
  <2>2. value # None => value.dev \in Device
    BY <2>1, StartType DEF StartInfo
  <2>3. GotTyped'
    BY <1>4, <2>1, <2>2, GotType, GoesType DEF GotTyped, GetDeviceID
  <2> QED
    BY <1>0, <1>f, <1>m, <1>n, <1>s, <1>4, <2>1, <2>3 DEF GetDeviceID, netVars
<1>5. CASE PutSession(c)
  <2>1. GotTyped'
    BY <1>5, GotType, GoesType DEF GotTyped, PutSession
  <2>2. MapsTyped'
    BY <1>5, <1>g, GotType DEF MapsTyped, PutSession
  <2> QED
    BY <1>0, <1>f, <1>t, <1>n, <1>5, <2>1, <2>2 DEF PutSession, netVars
<1>6. CASE CountDown(c)
  <2>1. GotTyped'
    BY <1>6, GoesType DEF GotTyped, CountDown
  <2>2. MapsTyped'
    BY <1>6, <1>g, GotType DEF MapsTyped, CountDown
  <2> QED
    BY <1>0, <1>f, <1>t, <1>n, <1>6, <2>1, <2>2 DEF CountDown, netVars
<1> QED
  BY <1>1, <1>2, <1>3, <1>4, <1>5, <1>6 DEF HandlerStep

(* Every variable keeps its type; no thread takes a null for a device, a       *)
(* channel or a latch, whatever the token answers.                             *)
THEOREM TypeCorrect == Spec => []TypeOK
<1>1. TypeOK /\ [Next]_vars => TypeOK'
  <2> SUFFICES ASSUME TypeOK, [Next]_vars PROVE TypeOK'
    OBVIOUS
  <2>1. CASE UNCHANGED vars
    BY <2>1 DEF vars, netVars, serverVars, tokenVars, mapVars, callerVars, handlerVars,
        TypeOK, NetTypeOK, ServerTypeOK, LocalsOK
  <2>2. CASE ClientNext /\ UNCHANGED serverVars
    BY <2>2, CallerTypeStep, HandlerTypeStep DEF ClientNext
  <2>3. CASE ServerNext /\ UNCHANGED <<tokenVars, mapVars, callerVars, handlerVars>>
    BY <2>3, ServerTypeStep
  <2>4. CASE Exchange
    BY <2>4 DEF Exchange, netVars, serverVars, mapVars, callerVars, handlerVars,
        TypeOK, NetTypeOK, ServerTypeOK, LocalsOK, Blank
  <2> QED
    BY <2>1, <2>2, <2>3, <2>4 DEF Next
<1> QED
  BY <1>1, InitTypeOK, PTL DEF Spec

--------------------------------------------------------------------------------
(* What the calls of the token keep.  Answers are fresh up to a nonce n: in the  *)
(* order of their nonces, none later than n, none older than one that an attempt *)
(* has gone on with.                                                             *)

FreshTo(q, n) ==
    /\ Ordered(q)
    /\ \A i \in 1..Len(q) :
          /\ q[i].said # None => q[i].said.cn <= n
          /\ \A a \in Caller : started[a] # None => Since(started[a].cn, q[i])

LEMMA StartedType ==
    ASSUME TypeOK, NEW a \in Caller, started[a] # None
    PROVE  /\ started[a] \in StartInfo /\ started[a].dev \in Device
           /\ started[a].cn \in Attempt /\ started[a].cn \in Nat
BY DEF TypeOK, StartInfo

LEMMA DrawnNat == TypeOK => drawn \in Nat
BY DEF TypeOK

\* An answer of which the nonce is the last one comes after all others.
LEMMA FreshAppend ==
    ASSUME TypeOK, StartsFresh, NEW q \in Seq(Answer), FreshTo(q, drawn),
           NEW r \in Answer, NEW n \in Nat, drawn <= n,
           r.said # None => Since(drawn, r) /\ r.said.cn <= n
    PROVE  Append(q, r) \in Seq(Answer) /\ FreshTo(Append(q, r), n)
<1>1. drawn \in Nat
  BY DrawnNat
<1>a. Append(q, r) \in Seq(Answer)
  OBVIOUS
<1>2. PICK p \in Seq(Answer) : p = Append(q, r)
  BY <1>a, Zenon
<1>3. /\ Len(p) = Len(q) + 1 /\ p[Len(q) + 1] = r
      /\ \A i \in 1..Len(q) : p[i] = q[i]
      /\ Len(q) \in Nat
  BY <1>2
<1>4. \A i \in 1..Len(q) : q[i] \in Answer
  OBVIOUS
<1>5. ASSUME NEW i \in 1..Len(p), NEW j \in 1..Len(p), i < j, p[i].said # None
      PROVE  Since(p[i].said.cn, p[j])
  <2>1. i \in 1..Len(q)
    BY <1>3, <1>5
  <2>2. CASE j \in 1..Len(q)
    BY <1>3, <1>5, <2>1, <2>2 DEF FreshTo, Ordered
  <2>3. CASE j = Len(q) + 1
    <3>1. q[i].said # None /\ q[i].said.cn \in Nat /\ q[i].said.cn <= drawn
      BY <1>3, <1>4, <1>5, <2>1, AnswerType DEF FreshTo
    <3> QED
      BY SMTT(30), <1>1, <1>3, <2>1, <2>3, <3>1, AnswerType DEF Since
  <2> QED
    BY <1>3, <2>2, <2>3
<1>6. ASSUME NEW i \in 1..Len(p)
      PROVE  /\ p[i].said # None => p[i].said.cn <= n
             /\ \A a \in Caller : started[a] # None => Since(started[a].cn, p[i])
  <2>1. CASE i \in 1..Len(q)
    BY <1>1, <1>3, <1>4, <2>1, AnswerType DEF FreshTo
  <2>2. CASE i = Len(q) + 1
    <3>1. \A a \in Caller : started[a] # None =>
            started[a].cn \in Nat /\ started[a].cn <= drawn
      BY StartedType DEF StartsFresh
    <3> QED
      BY <1>1, <1>3, <2>2, <3>1, AnswerType DEF Since
  <2> QED
    BY <1>3, <2>1, <2>2
<1>7. FreshTo(p, n)
  BY <1>5, <1>6 DEF FreshTo, Ordered
<1> QED
  BY <1>2, <1>7

\* What is taken off fresh answers is older than what is left.
LEMMA FreshTakes ==
    ASSUME TypeOK, NEW q \in Seq(Answer), NEW n \in Nat, FreshTo(q, n), NEW fun, NEW value,
           Takes(fun, q, value)
    PROVE  /\ FreshTo(late', n)
           /\ \A i \in 1..Len(late') : \E j \in 1..Len(q) : late'[i] = q[j]
           /\ value # None =>
                 /\ \E j \in 1..Len(q) : q[j].fun = fun /\ q[j].said = value
                 /\ value.cn <= n
                 /\ \A i \in 1..Len(late') : Since(value.cn, late'[i])
                 /\ \A a \in Caller : started[a] # None =>
                       /\ started[a].cn <= value.cn
                       /\ fun = "start" => started[a].cn < value.cn
<1>1. PICK p \in Seq(Answer) : p = late'
  BY TakesFirst
<1>2. \/ value = None
      \/ q # <<>> /\ q[1].fun = fun /\ value = q[1].said
  BY TakesFirst
<1>3. PICK k \in Nat : /\ Len(p) + k = Len(q)
                       /\ value # None => k > 0
                       /\ \A i \in 1..Len(p) : p[i] = q[i + k]
  BY <1>1, TakesFirst
<1>a. Len(p) \in Nat /\ Len(q) \in Nat
  OBVIOUS
<1>b. \A i \in 1..Len(p) : i + k \in 1..Len(q)
  BY <1>3, <1>a
<1>4. \A i \in 1..Len(p) : i + k \in 1..Len(q) /\ p[i] = q[i + k]
  BY <1>3, <1>b
<1>5. ASSUME NEW i \in 1..Len(p), NEW j \in 1..Len(p), i < j, p[i].said # None
      PROVE  Since(p[i].said.cn, p[j])
  <2>1. i + k \in 1..Len(q) /\ j + k \in 1..Len(q) /\ i + k < j + k
    BY <1>3, <1>5
  <2> QED
    BY <1>4, <1>5, <2>1 DEF FreshTo, Ordered
<1>6. FreshTo(p, n)
  BY <1>4, <1>5 DEF FreshTo, Ordered
<1>7. ASSUME value # None
      PROVE  /\ \E j \in 1..Len(q) : q[j].fun = fun /\ q[j].said = value
             /\ value.cn <= n
             /\ \A i \in 1..Len(p) : Since(value.cn, p[i])
             /\ \A a \in Caller : started[a] # None =>
                   /\ started[a].cn <= value.cn
                   /\ fun = "start" => started[a].cn < value.cn
  <2>1. 1 \in 1..Len(q) /\ q[1].fun = fun /\ q[1].said = value
    BY <1>2, <1>7
  <2>2. \A i \in 1..Len(p) : 1 < i + k /\ i + k \in 1..Len(q) /\ p[i] = q[i + k]
    BY <1>3, <1>4, <1>7
  <2>3. \A i \in 1..Len(p) : Since(value.cn, p[i])
    BY <1>7, <2>1, <2>2 DEF FreshTo, Ordered
  <2> QED
    BY <1>7, <2>1, <2>3 DEF FreshTo, Since
<1> QED
  BY <1>1, <1>4, <1>6, <1>7

\* Value, of a call of fun, is newer than what attempts have gone on with, and
\* older than what is left.
IsNext(fun, value) ==
    /\ value.cn <= drawn'
    /\ \A i \in 1..Len(late') : Since(value.cn, late'[i])
    /\ \A a \in Caller : started[a] # None =>
          /\ started[a].cn <= value.cn
          /\ fun = "start" => started[a].cn < value.cn

\* A call that says nothing or something over the last nonce.
LEMMA CallFresh ==
    ASSUME TypeOK, AnswersFresh, StartsFresh, NEW fun, NEW said, NEW new, NEW value,
           [fun |-> fun, said |-> said] \in Answer, Calls(fun, new, said, value),
           drawn' \in Nat, drawn <= drawn',
           token' = [token EXCEPT ![place] = new] /\ said # None =>
               Since(drawn, [fun |-> fun, said |-> said]) /\ said.cn <= drawn'
    PROVE  /\ FreshTo(late', drawn')
           /\ value # None => IsNext(fun, value)
           /\ \A i \in 1..Len(late') : \/ late'[i] = [fun |-> fun, said |-> said]
                                       \/ \E j \in 1..Len(late) : late'[i] = late[j]
           /\ value # None =>
                 value = said \/ \E j \in 1..Len(late) : late[j].fun = fun /\ late[j].said = value
<1>1. PICK n \in Nat : n = drawn'
  OBVIOUS
<1>2. PICK r \in Answer : r = [fun |-> fun, said |-> said]
  OBVIOUS
<1>3. late \in Seq(Answer) /\ drawn \in Nat /\ FreshTo(late, drawn)
  BY DEF TypeOK, AnswersFresh, FreshTo
<1>4. FreshTo(late, n)
  <2>1. \A i \in 1..Len(late) : late[i] \in Answer
    BY <1>3
  <2> QED
    BY <1>1, <1>3, <2>1, AnswerType DEF FreshTo
<1>5. \/ token' = [token EXCEPT ![place] = new] /\ Takes(fun, Append(late, r), value)
      \/ Takes(fun, late, value)
  BY <1>2 DEF Calls
<1>6. ASSUME NEW q \in Seq(Answer), FreshTo(q, n), Takes(fun, q, value),
             \A j \in 1..Len(q) : q[j] = r \/ \E i \in 1..Len(late) : q[j] = late[i]
      PROVE  /\ FreshTo(late', n)
             /\ value # None => IsNext(fun, value)
             /\ \A i \in 1..Len(late') : \/ late'[i] = r
                                         \/ \E j \in 1..Len(late) : late'[i] = late[j]
             /\ value # None =>
                   \/ value = r.said
                   \/ \E j \in 1..Len(late) : late[j].fun = fun /\ late[j].said = value
  <2>1. /\ FreshTo(late', n)
        /\ \A i \in 1..Len(late') : \E j \in 1..Len(q) : late'[i] = q[j]
    BY <1>6, FreshTakes
  <2>2. value # None => IsNext(fun, value)
    BY <1>1, <1>6, FreshTakes DEF IsNext
  <2>3. value # None => \E j \in 1..Len(q) : q[j].fun = fun /\ q[j].said = value
    BY <1>6, FreshTakes
  <2>4. \A i \in 1..Len(late') : \/ late'[i] = r
                                \/ \E j \in 1..Len(late) : late'[i] = late[j]
    BY <1>6, <2>1
  <2>5. value # None =>
          \/ value = r.said
          \/ \E j \in 1..Len(late) : late[j].fun = fun /\ late[j].said = value
    BY <1>6, <2>3
  <2> QED
    BY <2>1, <2>2, <2>4, <2>5
<1>7. CASE token' = [token EXCEPT ![place] = new] /\ Takes(fun, Append(late, r), value)
  <2>1. r.said # None => Since(drawn, r) /\ r.said.cn <= n
    BY <1>1, <1>2, <1>7
  <2>2. Append(late, r) \in Seq(Answer) /\ FreshTo(Append(late, r), n)
    BY <1>1, <1>3, <2>1, FreshAppend
  <2>3. \A j \in 1..Len(Append(late, r)) :
            Append(late, r)[j] = r \/ \E i \in 1..Len(late) : Append(late, r)[j] = late[i]
    BY <1>3
  <2> QED
    BY <1>1, <1>2, <1>6, <1>7, <2>2, <2>3
<1>8. CASE Takes(fun, late, value)
  BY <1>1, <1>2, <1>3, <1>4, <1>6, <1>8
<1> QED
  BY <1>5, <1>7, <1>8

LEMMA StartFresh ==
    ASSUME TypeOK, TokenFresh, AnswersFresh, StartsFresh, NEW value, genStartInfo(value)
    PROVE  /\ TokenFresh' /\ FreshTo(late', drawn') /\ drawn' \in Nat /\ drawn <= drawn'
           /\ value # None => IsNext("start", value)
           /\ \A i \in 1..Len(late') : \/ late'[i].fun # "check"
                                       \/ \E j \in 1..Len(late) : late'[i] = late[j]
<1> DEFINE new == [exchange |-> drawn + 1, proof |-> None]
           said == [dev |-> place, cn |-> drawn + 1]
<1>1. drawn \in Nat /\ drawn + 1 \in Attempt /\ Calls("start", new, said, value)
  BY DrawnNat DEF genStartInfo
<1>2. [fun |-> "start", said |-> said] \in Answer
  BY <1>1 DEF Answer, StartInfo, TypeOK
<1>3. place' = place /\ (token' = token \/ token' = [token EXCEPT ![place] = new])
  BY <1>1 DEF Calls
<1>4. [token EXCEPT ![place] = new] # token
  <2>1. token[place].exchange # drawn + 1
    BY <1>1 DEF TokenFresh
  <2> QED
    BY <2>1 DEF TypeOK
<1>5. \/ token' = token /\ drawn' = drawn
      \/ token' = [token EXCEPT ![place] = new] /\ drawn' = drawn + 1
  BY <1>3, <1>4 DEF genStartInfo
<1>6. TokenFresh'
  <2>1. CASE token' = token /\ drawn' = drawn
    BY <1>3, <2>1 DEF TokenFresh
  <2>2. CASE token' = [token EXCEPT ![place] = new] /\ drawn' = drawn + 1
    BY <1>3, <2>2 DEF TokenFresh, TypeOK
  <2> QED
    BY <1>5, <2>1, <2>2
<1>7. drawn' \in Nat /\ drawn <= drawn'
  BY <1>1, <1>5
<1>8. token' = [token EXCEPT ![place] = new] /\ said # None =>
          Since(drawn, [fun |-> "start", said |-> said]) /\ said.cn <= drawn'
  BY <1>1, <1>4, <1>5 DEF Since
<1> HIDE DEF new, said
<1> QED
  BY <1>1, <1>2, <1>6, <1>7, <1>8, CallFresh

LEMMA AuthFresh ==
    ASSUME TypeOK, TokenFresh, AnswersFresh, StartsFresh, NEW sn \in Attempt, NEW value,
           genAuthInfo(sn, value)
    PROVE  /\ TokenFresh' /\ FreshTo(late', drawn') /\ drawn' = drawn
           /\ value # None => IsNext("auth", value)
           /\ \A i \in 1..Len(late') : \/ late'[i].fun # "check"
                                       \/ \E j \in 1..Len(late) : late'[i] = late[j]
<1> DEFINE new == [token[place] EXCEPT !.proof = Proof(sn)]
<1>1. drawn \in Nat /\ drawn' = drawn /\ Calls("auth", new, Proof(sn), value)
  BY DrawnNat DEF genAuthInfo
<1>2. Proof(sn) \in Transcript \cup {None} /\ [fun |-> "auth", said |-> Proof(sn)] \in Answer
  BY ProofIsTranscript DEF Answer
<1>3. Proof(sn) # None => Proof(sn).cn = drawn
  BY DEF Proof, TokenFresh
<1>4. place' = place /\ (token' = token \/ token' = [token EXCEPT ![place] = new])
  BY <1>1 DEF Calls
<1>5. TokenFresh'
  <2>1. CASE token' = token
    BY <1>1, <1>4, <2>1 DEF TokenFresh
  <2>2. CASE token' = [token EXCEPT ![place] = new]
    <3>1. new.exchange = token[place].exchange /\ new.proof = Proof(sn)
      BY DEF TypeOK
    <3> HIDE DEF new
    <3> QED
      BY <1>1, <1>3, <1>4, <2>2, <3>1 DEF TokenFresh, TypeOK
  <2> QED
    BY <1>4, <2>1, <2>2
<1>6. Proof(sn) # None =>
          Since(drawn, [fun |-> "auth", said |-> Proof(sn)]) /\ Proof(sn).cn <= drawn'
  BY <1>1, <1>3 DEF Since
<1> HIDE DEF new
<1> QED
  BY <1>1, <1>2, <1>5, <1>6, CallFresh

LEMMA CheckFresh ==
    ASSUME TypeOK, TokenFresh, AnswersFresh, StartsFresh, NEW t \in Transcript, NEW value,
           checkAuthInfo(t, value)
    PROVE  /\ TokenFresh' /\ FreshTo(late', drawn') /\ drawn' = drawn
           /\ value # None => /\ IsNext("check", value)
                             /\ \/ value = t
                                \/ \E j \in 1..Len(late) :
                                      late[j].fun = "check" /\ late[j].said = value
           /\ \A i \in 1..Len(late') : \/ late'[i].said \in {t, None}
                                       \/ \E j \in 1..Len(late) : late'[i] = late[j]
<1>1. drawn \in Nat /\ drawn' = drawn /\ Calls("check", token[place], Checked(t), value)
  BY DrawnNat DEF checkAuthInfo
<1>2. Checked(t) \in {t, None} /\ (Checked(t) # None => Checked(t).cn = drawn)
  BY DEF Checked, TokenFresh
<1>3. [fun |-> "check", said |-> Checked(t)] \in Answer
  BY <1>2 DEF Answer
<1>4. place' = place /\ token' = token
  BY <1>1 DEF Calls, TypeOK
<1>5. TokenFresh'
  BY <1>1, <1>4 DEF TokenFresh
<1>6. Checked(t) # None =>
          Since(drawn, [fun |-> "check", said |-> Checked(t)]) /\ Checked(t).cn <= drawn'
  BY <1>1, <1>2 DEF Since
<1>7. /\ FreshTo(late', drawn')
      /\ value # None => IsNext("check", value)
      /\ \A i \in 1..Len(late') : \/ late'[i] = [fun |-> "check", said |-> Checked(t)]
                                  \/ \E j \in 1..Len(late) : late'[i] = late[j]
      /\ value # None =>
            \/ value = Checked(t)
            \/ \E j \in 1..Len(late) : late[j].fun = "check" /\ late[j].said = value
  BY <1>1, <1>3, <1>6, CallFresh
<1> QED
  BY <1>1, <1>2, <1>5, <1>7

--------------------------------------------------------------------------------
(* What steps keep of the parts of FreshInv. *)

LEMMA WireType ==
    ASSUME TypeOK, NEW m \in wire
    PROVE  /\ m.ch \in Attempt
           /\ m.type \in {"CLIENT_PROOF", "SERVER_PROOF"} =>
                 m.proof \in Transcript /\ m.proof.cn \in Nat
           /\ m.type = "RESPONSE" => m.sn \in Attempt
BY MessageType, TranscriptType DEF TypeOK, NetTypeOK

\* An attempt that exchanges anything is the only one that is active.
LEMMA OwnerActive ==
    ASSUME StartsFresh, NEW a \in Caller, NEW c, Exchanges(a, c), NEW b \in Caller, Active(b)
    PROVE  a = b
BY DEF StartsFresh, Exchanges, Active

ThreadPlace == {"idle", "init", "info", "reset", "latched", "ready", "sent",
                "waiting", "awake", "closing", "done"}

LEMMA ThreadPlaces == TypeOK => pc \in [Caller -> ThreadPlace]
BY DEF TypeOK, ThreadPlace

LEMMA MessagesStable ==
    ASSUME TypeOK, MessagesOwned, wire' \subseteq wire,
           \A c \in Caller : Connected(c) => Connected(c)',
           \A c \in Caller : (\E m \in wire' : m.ch = c) /\ cliOpen'[c] =>
               /\ cliOpen[c]
               /\ task[c] \in {"idle", "filed"} => task'[c] \in {"idle", "filed"}
               /\ \A a \in Caller : Exchanges(a, c) =>
                     Exchanges(a, c)' /\ started'[a] = started[a]
    PROVE  MessagesOwned'
<1> SUFFICES ASSUME NEW m \in wire'
             PROVE  /\ m.ch \in Caller /\ Connected(m.ch)'
                    /\ cliOpen'[m.ch] =>
                         /\ task'[m.ch] \in {"idle", "filed"}
                         /\ \A n \in wire' : n.ch = m.ch => n = m
                         /\ \E a \in Caller :
                               /\ Exchanges(a, m.ch)'
                               /\ m.type \in {"CLIENT_PROOF", "SERVER_PROOF"} =>
                                     started'[a].cn <= m.proof.cn
  BY DEF MessagesOwned
<1>1. m \in wire /\ m.ch \in Caller /\ Connected(m.ch)
  BY DEF MessagesOwned
<1>2. CASE cliOpen'[m.ch]
  <2>1. /\ cliOpen[m.ch]
        /\ task[m.ch] \in {"idle", "filed"} => task'[m.ch] \in {"idle", "filed"}
        /\ \A a \in Caller : Exchanges(a, m.ch) =>
              Exchanges(a, m.ch)' /\ started'[a] = started[a]
    BY <1>1, <1>2
  <2>2. PICK a \in Caller :
            /\ Exchanges(a, m.ch)
            /\ m.type \in {"CLIENT_PROOF", "SERVER_PROOF"} => started[a].cn <= m.proof.cn
    BY <1>1, <2>1 DEF MessagesOwned
  <2> QED
    BY <1>1, <2>1, <2>2 DEF MessagesOwned
<1> QED
  BY <1>1, <1>2

LEMMA HandlersStable ==
    ASSUME HandlersOwned, established \subseteq established',
           \A c \in Caller : task'[c] \in {"checked", "named"} =>
               /\ task[c] \in {"checked", "named"} /\ got'[c].sess = got[c].sess
               /\ \A a \in Caller : Exchanges(a, c) =>
                     Exchanges(a, c)' /\ started'[a] = started[a]
    PROVE  HandlersOwned'
<1> SUFFICES ASSUME NEW c \in Caller, task'[c] \in {"checked", "named"}
             PROVE  \E a \in Caller : /\ Exchanges(a, c)'
                                      /\ got'[c].sess \in established'
                                      /\ started'[a].cn <= got'[c].sess.cn
  BY DEF HandlersOwned
<1>1. PICK a \in Caller : /\ Exchanges(a, c)
                          /\ got[c].sess \in established
                          /\ started[a].cn <= got[c].sess.cn
  BY DEF HandlersOwned
<1> QED
  BY <1>1

\* A step of an active attempt that moves it on.
LEMMA StartsMove ==
    ASSUME TypeOK, StartsFresh, NEW a \in Caller, NEW to, Active(a), pc[a] # "init",
           pc' = [pc EXCEPT ![a] = to], to \notin {"idle", "init"},
           UNCHANGED <<drawn, started>>
    PROVE  StartsFresh'
<1>1. \A b \in Caller : Active(b)' => Active(b)
  BY DEF TypeOK, Active
<1>2. \A b \in Caller : pc'[b] \in {"idle", "init"} => pc[b] = pc'[b]
  BY DEF TypeOK
<1> QED
  BY <1>1, <1>2 DEF StartsFresh

LEMMA StartsStable ==
    ASSUME TypeOK, StartsFresh, UNCHANGED <<pc, started>>, drawn' \in Nat, drawn <= drawn'
    PROVE  StartsFresh'
<1>1. \A a \in Caller : started[a] # None => started[a].cn <= drawn'
  BY DrawnNat, StartedType DEF StartsFresh
<1> QED
  BY <1>1 DEF StartsFresh, Active

\* Steps that neither draw nor send nor establish anything.
LEMMA QuietStep ==
    ASSUME TokenFresh, AnswersFresh, ServerFresh, ProofsEstablished,
           UNCHANGED <<tokenVars, started, serverVars>>, wire' \subseteq wire
    PROVE  TokenFresh' /\ AnswersFresh' /\ ServerFresh' /\ ProofsEstablished'
<1>1. TokenFresh' /\ AnswersFresh'
  BY DEF TokenFresh, AnswersFresh, Ordered, Since, tokenVars
<1>2. ServerFresh'
  BY DEF ServerFresh, Begun, serverVars
<1>3. ProofsEstablished'
  BY DEF ProofsEstablished, serverVars, tokenVars
<1> QED
  BY <1>1, <1>2, <1>3

LEMMA SessionsStable ==
    ASSUME SessionsOwn, established \subseteq established',
           \A a \in Caller :
               /\ started[a] # None => started'[a] = started[a]
               /\ pc'[a] \in {"reset", "latched", "ready", "sent", "waiting", "awake", "closing"} =>
                     /\ started[a] # None
                     /\ \/ sessionMap'[started[a].dev] = None
                        \/ sessionMap'[started[a].dev] = sessionMap[started[a].dev]
               /\ pc'[a] \in {"reset", "latched", "ready"} =>
                     \/ pc[a] \in {"reset", "latched", "ready"}
                     \/ sessionMap'[started[a].dev] = None
               /\ pc'[a] \in {"sent", "waiting", "awake", "closing"} =>
                     pc[a] \in {"ready", "sent", "waiting", "awake", "closing"}
               /\ result[a] # None => pc'[a] = "done"
               /\ result'[a] # result[a] =>
                     \/ result'[a] = None
                     \/ /\ pc'[a] = "done" /\ started[a] # None
                        /\ IsOwn(result'[a], a)
    PROVE  SessionsOwn'
<1> SUFFICES ASSUME NEW a \in Caller
             PROVE  /\ pc'[a] \in {"reset", "latched", "ready"} =>
                          sessionMap'[started'[a].dev] = None
                    /\ pc'[a] \in {"sent", "waiting", "awake", "closing"} =>
                          \/ sessionMap'[started'[a].dev] = None
                          \/ IsOwn(sessionMap[started[a].dev], a)'
                    /\ result'[a] # None =>
                          pc'[a] = "done" /\ started'[a] # None /\ IsOwn(result[a], a)'
  BY DEF SessionsOwn
<1>1. \A s : started[a] # None /\ IsOwn(s, a) =>
        s \in established' /\ s.cn = started'[a].cn /\ s.dev = started'[a].dev
  BY DEF IsOwn
<1>2. pc'[a] \in {"reset", "latched", "ready"} => sessionMap'[started'[a].dev] = None
  BY DEF SessionsOwn
<1>3. pc'[a] \in {"sent", "waiting", "awake", "closing"} =>
        \/ sessionMap'[started'[a].dev] = None
        \/ IsOwn(sessionMap[started[a].dev], a)'
  BY <1>1 DEF SessionsOwn, IsOwn
<1>4. result'[a] # None => pc'[a] = "done" /\ started'[a] # None /\ IsOwn(result[a], a)'
  BY <1>1 DEF SessionsOwn, IsOwn
<1> QED
  BY <1>2, <1>3, <1>4

LEMMA InitFresh == Init => FreshInv
BY DEF Init, NetInit, ServerInit, Blank, Nothing, FreshInv, TokenFresh, AnswersFresh, Ordered,
       StartsFresh, ServerFresh, ProofsEstablished, ChannelsOwn, MessagesOwned, HandlersOwned,
       SessionsOwn, Active, Connected

--------------------------------------------------------------------------------
(* The server, and the exchange of a token. *)

LEMMA ServerFreshStep ==
    ASSUME TypeOK, FreshInv, ServerNext,
           UNCHANGED <<tokenVars, mapVars, callerVars, handlerVars>>
    PROVE  FreshInv'
<1> USE DEF FreshInv
<1>0. NetTypeOK /\ ServerTypeOK /\ NetTypeOK'
  BY ServerNextType DEF TypeOK
<1>1. UNCHANGED <<place, token, drawn, late, sessionMap, channels, pc, started, result, task, got>>
  BY DEF tokenVars, mapVars, callerVars, handlerVars
<1>2. TokenFresh' /\ AnswersFresh' /\ StartsFresh'
  BY <1>1 DEF TokenFresh, AnswersFresh, Ordered, Since, StartsFresh, Active
<1>3. /\ established \subseteq established'
      /\ \A t \in established' : t \in established \/ \E m \in wire : CheckClientAuthentication(t)
                                                          /\ m.type = "CLIENT_PROOF" /\ m.proof = t
  BY <1>0, ServerMaps
<1>4. \A c \in Attempt : cliOpen'[c] => cliOpen[c]
  BY <1>0, ServerOpensNothing
<1>5. \A d \in Device : authAssist'[d] # None => Begun(d, authAssist'[d].cn)
  <2> SUFFICES ASSUME NEW d \in Device, authAssist'[d] # None
               PROVE  Begun(d, authAssist'[d].cn)
    OBVIOUS
  <2>1. CASE authAssist'[d] = authAssist[d]
    BY <2>1 DEF ServerFresh
  <2>2. ASSUME NEW m \in wire, m.type = "REQUEST", m.dev = d,
               authAssist'[d] = [cn |-> m.cn, sn |-> m.cn]
        PROVE  Begun(d, authAssist'[d].cn)
    BY <2>2 DEF ServerFresh
  <2> QED
    BY <1>0, <2>1, <2>2, ServerMaps
<1>6. \A t \in established' : Begun(t.dev, t.cn)
  <2> SUFFICES ASSUME NEW t \in established' PROVE Begun(t.dev, t.cn)
    OBVIOUS
  <2>1. CASE t \in established
    BY <2>1 DEF ServerFresh
  <2>2. ASSUME NEW m \in wire, CheckClientAuthentication(t), m.type = "CLIENT_PROOF", m.proof = t
        PROVE  Begun(t.dev, t.cn)
    <3>1. t \in Transcript /\ t.dev \in Device
      BY <2>2, WireType, TranscriptType
    <3> QED
      BY <2>2, <3>1 DEF CheckClientAuthentication, ServerFresh
  <2> QED
    BY <1>3, <2>1, <2>2
<1>7. ASSUME wire' \subseteq wire
      PROVE  ServerFresh' /\ ProofsEstablished' /\ MessagesOwned'
  <2>1. ServerFresh'
    BY <1>1, <1>5, <1>6, <1>7 DEF ServerFresh, Begun
  <2>2. ProofsEstablished'
    BY <1>1, <1>3, <1>7 DEF ProofsEstablished
  <2>3. MessagesOwned'
    BY <1>1, <1>4, <1>7, MessagesStable DEF Connected, Exchanges, ChannelOf, DeviceOfCall
  <2> QED
    BY <2>1, <2>2, <2>3
<1>8. ASSUME NEW m \in wire, NEW r, Answers(m, r), wire' \subseteq (wire \ {m}) \cup {r}
      PROVE  ServerFresh' /\ ProofsEstablished' /\ MessagesOwned'
  <2>1. /\ r.ch = m.ch /\ r.type \in {"FAILURE", "RESPONSE", "SERVER_PROOF"}
        /\ r.type = "SERVER_PROOF" =>
              m.type = "CLIENT_PROOF" /\ r.proof = m.proof /\ r.proof \in established'
    BY <1>8 DEF Answers, Failure, Response, ServerProof
  <2>2. ServerFresh'
    BY <1>1, <1>5, <1>6, <1>8, <2>1 DEF ServerFresh, Begun
  <2>3. ProofsEstablished'
    BY <1>1, <1>3, <1>8, <2>1 DEF ProofsEstablished
  <2>4. MessagesOwned'
    <3> SUFFICES ASSUME NEW n \in wire'
                 PROVE  /\ n.ch \in Caller /\ Connected(n.ch)
                        /\ cliOpen'[n.ch] =>
                             /\ task[n.ch] \in {"idle", "filed"}
                             /\ \A l \in wire' : l.ch = n.ch => l = n
                             /\ \E a \in Caller :
                                   /\ Exchanges(a, n.ch)
                                   /\ n.type \in {"CLIENT_PROOF", "SERVER_PROOF"} =>
                                         started[a].cn <= n.proof.cn
      BY <1>1 DEF MessagesOwned, Connected, Exchanges, ChannelOf, DeviceOfCall
    <3>1. PICK o \in wire : o.ch = n.ch /\ (o = m \/ o = n) /\ (n = r \/ (n = o /\ o # m))
      BY <1>8, <2>1
    <3>2. n.type \in {"CLIENT_PROOF", "SERVER_PROOF"} =>
            o.type \in {"CLIENT_PROOF", "SERVER_PROOF"} /\ n.proof = o.proof
      BY <2>1, <3>1
    <3>3. o.ch \in Caller /\ Connected(o.ch) /\ o.ch \in Attempt
      BY <3>1 DEF MessagesOwned
    <3>4. ASSUME cliOpen'[n.ch]
          PROVE  /\ task[n.ch] \in {"idle", "filed"}
                 /\ \A l \in wire' : l.ch = n.ch => l = n
                 /\ \E a \in Caller :
                       /\ Exchanges(a, n.ch)
                       /\ n.type \in {"CLIENT_PROOF", "SERVER_PROOF"} =>
                             started[a].cn <= n.proof.cn
      <4>1. cliOpen[o.ch]
        BY <1>4, <3>1, <3>3, <3>4
      <4>2. \A l \in wire : l.ch = o.ch => l = o
        BY <4>1 DEF MessagesOwned
      <4>3. ASSUME NEW l \in wire', l.ch = n.ch PROVE l = n
        BY <1>8, <2>1, <3>1, <4>2, <4>3
      <4> QED
        BY <3>1, <3>2, <4>1, <4>3 DEF MessagesOwned
    <3> QED
      BY <3>1, <3>3, <3>4
  <2> QED
    BY <2>2, <2>3, <2>4
<1>9. ServerFresh' /\ ProofsEstablished' /\ MessagesOwned'
  BY <1>0, <1>7, <1>8, ServerAnswers
<1>10. ChannelsOwn'
  BY <1>1, <1>4 DEF ChannelsOwn, Connected
<1>11. HandlersOwned'
  BY <1>1, <1>3, HandlersStable DEF Exchanges, ChannelOf, DeviceOfCall
<1>12. SessionsOwn'
  BY <1>1, <1>3 DEF SessionsOwn, IsOwn
<1> QED
  BY <1>2, <1>9, <1>10, <1>11, <1>12

LEMMA ExchangeFresh ==
    ASSUME TypeOK, FreshInv, Exchange
    PROVE  FreshInv'
<1> USE DEF FreshInv, Exchange, netVars, serverVars, mapVars, callerVars, handlerVars
<1>1. TokenFresh'
  BY DEF TokenFresh, TypeOK, Blank
<1>2. AnswersFresh' /\ ProofsEstablished'
  BY DEF AnswersFresh, Ordered, ProofsEstablished
<1>3. StartsFresh' /\ ServerFresh'
  BY DEF StartsFresh, ServerFresh, Begun, Active
<1>4. ChannelsOwn' /\ SessionsOwn'
  BY DEF ChannelsOwn, SessionsOwn, IsOwn, Connected
<1>5. MessagesOwned' /\ HandlersOwned'
  BY MessagesStable, HandlersStable DEF Connected, Exchanges, ChannelOf, DeviceOfCall
<1> QED
  BY <1>1, <1>2, <1>3, <1>4, <1>5

--------------------------------------------------------------------------------
(* The application threads. *)

\* An attempt that is active and exchanges nothing has nothing in flight.
LEMMA NothingInFlight ==
    ASSUME FreshInv, NEW a \in Caller, Active(a),
           pc[a] \notin {"sent", "waiting", "awake", "closing"}
    PROVE  /\ \A m \in wire : ~cliOpen[m.ch]
           /\ \A c \in Caller : task[c] \notin {"checked", "named"}
<1>0. \A b, c \in Caller : Exchanges(b, c) => b = a
  BY OwnerActive DEF FreshInv
<1>1. \A b, c \in Caller : ~Exchanges(b, c)
  BY <1>0 DEF Exchanges
<1>2. \A m \in wire : ~cliOpen[m.ch]
  BY <1>1 DEF FreshInv, MessagesOwned
<1>3. \A c \in Caller : task[c] \notin {"checked", "named"}
  BY <1>1 DEF FreshInv, HandlersOwned
<1> QED
  BY <1>2, <1>3

\* A thread is at most moved on by an attempt, which goes on exchanging.
LEMMA AdvanceFresh ==
    ASSUME TypeOK, FreshInv, NEW a \in Caller, NEW from, NEW to, Advance(a, from, to),
           UNCHANGED serverVars,
           \/ from = "latched" /\ to \in {"ready", "done"}
           \/ from = "ready" /\ to = "closing"
           \/ from = "waiting" /\ to \in {"awake", "closing"}
    PROVE  FreshInv'
<1> USE DEF FreshInv
<1>1. /\ pc[a] = from /\ pc' = [pc EXCEPT ![a] = to]
      /\ UNCHANGED <<netVars, serverVars, tokenVars, channels, started, result>>
      /\ UNCHANGED <<sessionMap, task, got, established, drawn, cliOpen>>
  BY DEF Advance, Move, serverVars, tokenVars, mapVars, handlerVars, netVars
<1>t. pc \in [Caller -> ThreadPlace]
  BY ThreadPlaces
<1>2. TokenFresh' /\ AnswersFresh' /\ ServerFresh' /\ ProofsEstablished'
  BY <1>1, QuietStep DEF netVars
<1>3. StartsFresh'
  BY <1>1, <1>t, StartsMove DEF Active
<1>4. \A c \in Caller : Connected(c) => Connected(c)'
  BY <1>1, <1>t DEF Connected
<1>5. ChannelsOwn'
  BY <1>1, <1>4 DEF ChannelsOwn, TypeOK
<1>6. \A b, c \in Caller : Exchanges(b, c) => Exchanges(b, c)'
  BY <1>1, <1>t DEF Exchanges, ChannelOf, DeviceOfCall
<1>7. MessagesOwned' /\ HandlersOwned'
  BY <1>1, <1>4, <1>6, MessagesStable, HandlersStable DEF netVars
<1>8. SessionsOwn'
  BY SMTT(30), <1>1, SessionsStable DEF SessionsOwn, TypeOK, LocalsOK
<1> QED
  BY <1>2, <1>3, <1>5, <1>7, <1>8

LEMMA StartAccessAuthFresh ==
    ASSUME OnlyOneClient, TypeOK, FreshInv, NEW a \in Caller, StartAccessAuth(a),
           UNCHANGED serverVars
    PROVE  FreshInv'
<1> USE DEF FreshInv
<1>1. /\ pc[a] = "idle" /\ pc' = [pc EXCEPT ![a] = "init"]
      /\ UNCHANGED <<netVars, serverVars, tokenVars, channels, started, result>>
      /\ UNCHANGED <<sessionMap, task, got, established, drawn, cliOpen>>
  BY DEF StartAccessAuth, Advance, Move, serverVars, tokenVars, mapVars, handlerVars, netVars
<1>t. pc \in [Caller -> ThreadPlace]
  BY ThreadPlaces
<1>2. TokenFresh' /\ AnswersFresh' /\ ServerFresh' /\ ProofsEstablished'
  BY <1>1, QuietStep DEF netVars
<1>3. \A b \in Caller : ~Active(b)
  BY DEF StartAccessAuth, OnlyOneClient
<1>4. StartsFresh'
  BY <1>1, <1>t, <1>3 DEF StartsFresh, Active
<1>5. \A c \in Caller : Connected(c) => Connected(c)'
  BY <1>1, <1>t DEF Connected
<1>6. ChannelsOwn'
  BY <1>1, <1>5 DEF ChannelsOwn, TypeOK
<1>7. \A b, c \in Caller : Exchanges(b, c) => Exchanges(b, c)'
  BY <1>1, <1>t DEF Exchanges, ChannelOf, DeviceOfCall
<1>8. MessagesOwned' /\ HandlersOwned'
  BY <1>1, <1>5, <1>7, MessagesStable, HandlersStable DEF netVars
<1>9. SessionsOwn'
  BY <1>1, SessionsStable DEF SessionsOwn, TypeOK, LocalsOK
<1> QED
  BY <1>2, <1>4, <1>6, <1>8, <1>9

LEMMA GetStartInfoFresh ==
    ASSUME TypeOK, FreshInv, NEW a \in Caller, GetStartInfo(a), UNCHANGED serverVars
    PROVE  FreshInv'
<1> USE DEF FreshInv
<1>1. PICK value : /\ genStartInfo(value)
                   /\ Move(a, "init", IF value = None THEN "done" ELSE "info")
                   /\ started' = [started EXCEPT ![a] = value]
                   /\ UNCHANGED <<netVars, mapVars, channels, latch, result, handlerVars>>
  BY DEF GetStartInfo
<1>2. /\ pc[a] = "init" /\ started[a] = None /\ Active(a) /\ result[a] = None
      /\ pc' = [pc EXCEPT ![a] = IF value = None THEN "done" ELSE "info"]
      /\ pc \in [Caller -> ThreadPlace]
      /\ started \in [Caller -> StartInfo \cup {None}]
  <2>1. pc \in [Caller -> ThreadPlace] /\ started \in [Caller -> StartInfo \cup {None}]
    BY ThreadPlaces DEF TypeOK
  <2> QED
    BY <1>1, <2>1 DEF Move, StartsFresh, Active, SessionsOwn
<1>3. UNCHANGED <<wire, cliOpen, sessionMap, channels, result, task, got, established, authAssist>>
  BY <1>1 DEF netVars, mapVars, handlerVars, serverVars
<1>4. /\ TokenFresh' /\ FreshTo(late', drawn') /\ drawn' \in Nat /\ drawn <= drawn'
      /\ value # None => IsNext("start", value)
      /\ \A i \in 1..Len(late') : \/ late'[i].fun # "check"
                                  \/ \E j \in 1..Len(late) : late'[i] = late[j]
  BY <1>1, StartFresh
<1>5. value \in StartInfo \cup {None} /\ (value # None => value.cn \in Nat)
  BY <1>1, StartType DEF StartInfo
<1>6. /\ \A b \in Caller \ {a} : started'[b] = started[b] /\ pc'[b] = pc[b] /\ ~Active(b)
      /\ started'[a] = value
      /\ pc'[a] = IF value = None THEN "done" ELSE "info"
  BY <1>1, <1>2 DEF StartsFresh
<1>7. AnswersFresh'
  BY <1>4, <1>6 DEF AnswersFresh, FreshTo, IsNext, Ordered, Since
<1>8. StartsFresh'
  <2>1. \A b \in Caller : pc'[b] \in {"idle", "init"} => started'[b] = None
    BY <1>6 DEF StartsFresh
  <2>2. \A b \in Caller : started'[b] # None => started'[b].cn <= drawn'
    BY <1>4, <1>5, <1>6, DrawnNat, StartedType DEF StartsFresh, IsNext
  <2>3. \A b, c \in Caller : Active(b)' /\ Active(c)' => b = c
    BY <1>6 DEF Active
  <2>4. ASSUME NEW b \in Caller \ {a}, started[b] # None, value # None
        PROVE  started[b].cn # value.cn /\ started[b].cn < value.cn
    BY <1>4, <1>5, <2>4, StartedType DEF IsNext
  <2>5. \A b, c \in Caller : b # c /\ started'[b] # None /\ started'[c] # None =>
          /\ started'[b].cn # started'[c].cn
          /\ Active(b)' => started'[c].cn < started'[b].cn
    BY <1>6, <2>4 DEF StartsFresh, Active
  <2> QED
    BY <2>1, <2>2, <2>3, <2>5 DEF StartsFresh
<1>9. \A d, n : Begun(d, n) => Begun(d, n)'
  BY <1>2, <1>6 DEF Begun
<1>10. ServerFresh'
  BY <1>3, <1>9 DEF ServerFresh
<1>11. ProofsEstablished'
  BY <1>3, <1>4 DEF ProofsEstablished
<1>12. \A c \in Caller : Connected(c) => Connected(c)'
  BY <1>2 DEF Connected
<1>13. ChannelsOwn'
  BY <1>3, <1>12 DEF ChannelsOwn, TypeOK
<1>14. \A b, c \in Caller : Exchanges(b, c) => Exchanges(b, c)' /\ started'[b] = started[b]
  BY <1>2, <1>3, <1>6 DEF Exchanges, ChannelOf, DeviceOfCall
<1>15. MessagesOwned' /\ HandlersOwned'
  BY <1>3, <1>12, <1>14, MessagesStable, HandlersStable
<1>16. SessionsOwn'
  BY <1>2, <1>3, <1>6 DEF SessionsOwn, IsOwn, Active
<1> QED
  BY <1>4, <1>7, <1>8, <1>10, <1>11, <1>13, <1>15, <1>16

\* A step that moves an attempt on, with what it does to the maps, its channel and
\* its result.
LEMMA MoveFresh ==
    ASSUME TypeOK, FreshInv, NEW a \in Caller, NEW from, NEW to, Move(a, from, to),
           from \notin {"idle", "init", "done"}, to \notin {"idle", "init"},
           UNCHANGED <<tokenVars, started, serverVars>>, wire' \subseteq wire
    PROVE  /\ pc[a] = from /\ pc' = [pc EXCEPT ![a] = to] /\ pc'[a] = to
           /\ pc \in [Caller -> ThreadPlace] /\ Active(a) /\ result[a] = None
           /\ TokenFresh' /\ AnswersFresh' /\ ServerFresh' /\ ProofsEstablished' /\ StartsFresh'
           /\ \A b \in Caller \ {a} : ~Active(b) /\ pc'[b] = pc[b]
           /\ started[a] # None /\ started[a] \in StartInfo /\ DeviceOfCall(a) \in Device
           /\ established' = established
<1>1. pc[a] = from /\ pc' = [pc EXCEPT ![a] = to] /\ pc \in [Caller -> ThreadPlace]
  BY ThreadPlaces DEF Move
<1>2. Active(a) /\ started[a] # None
  BY <1>1 DEF Active, TypeOK, LocalsOK
<1>3. started[a] \in StartInfo /\ DeviceOfCall(a) \in Device
  BY <1>2, StartedType DEF DeviceOfCall
<1>4. result[a] = None
  BY <1>1 DEF FreshInv, SessionsOwn
<1>5. TokenFresh' /\ AnswersFresh' /\ ServerFresh' /\ ProofsEstablished'
  BY QuietStep DEF FreshInv
<1>6. StartsFresh'
  BY <1>1, <1>2, StartsMove DEF FreshInv, tokenVars
<1>7. \A b \in Caller \ {a} : ~Active(b) /\ pc'[b] = pc[b]
  BY <1>1, <1>2 DEF FreshInv, StartsFresh
<1> QED
  BY <1>1, <1>2, <1>3, <1>4, <1>5, <1>6, <1>7 DEF serverVars

LEMMA ResetSessionFresh ==
    ASSUME TypeOK, FreshInv, NEW a \in Caller, ResetSession(a), UNCHANGED serverVars
    PROVE  FreshInv'
<1>1. /\ Move(a, "info", "reset")
      /\ sessionMap' = [sessionMap EXCEPT ![DeviceOfCall(a)] = None]
      /\ UNCHANGED <<tokenVars, started, serverVars, wire, cliOpen, channels, result, task, got>>
  BY DEF ResetSession, netVars, handlerVars
<1>2. /\ pc[a] = "info" /\ pc' = [pc EXCEPT ![a] = "reset"] /\ pc'[a] = "reset"
      /\ pc \in [Caller -> ThreadPlace] /\ Active(a) /\ result[a] = None
      /\ TokenFresh' /\ AnswersFresh' /\ ServerFresh' /\ ProofsEstablished' /\ StartsFresh'
      /\ \A b \in Caller \ {a} : ~Active(b) /\ pc'[b] = pc[b]
      /\ started[a] # None /\ started[a] \in StartInfo /\ DeviceOfCall(a) \in Device
      /\ established' = established
  BY <1>1, MoveFresh
<1>3. \A c \in Caller : Connected(c) => Connected(c)'
  BY <1>2 DEF Connected
<1>4. ChannelsOwn'
  BY <1>1, <1>3 DEF ChannelsOwn, TypeOK, FreshInv
<1>5. sessionMap'[started[a].dev] = None
  BY <1>1, <1>2 DEF DeviceOfCall, TypeOK
<1>6. (\A m \in wire : ~cliOpen[m.ch]) /\ \A c \in Caller : task[c] \notin {"checked", "named"}
  BY <1>2, NothingInFlight
<1>7. MessagesOwned' /\ HandlersOwned'
  BY <1>1, <1>2, <1>3, <1>6, MessagesStable, HandlersStable DEF FreshInv
<1>8. SessionsOwn'
  BY <1>1, <1>2, <1>5 DEF FreshInv, SessionsOwn, Active, IsOwn
<1> QED
  BY <1>2, <1>4, <1>7, <1>8 DEF FreshInv

LEMMA ResetLatchFresh ==
    ASSUME TypeOK, FreshInv, NEW a \in Caller, ResetLatch(a), UNCHANGED serverVars
    PROVE  FreshInv'
<1>1. /\ Move(a, "reset", "latched")
      /\ UNCHANGED <<tokenVars, started, serverVars, wire, cliOpen, channels, result, task, got>>
      /\ UNCHANGED sessionMap
  BY DEF ResetLatch, netVars, handlerVars
<1>2. /\ pc[a] = "reset" /\ pc' = [pc EXCEPT ![a] = "latched"] /\ pc'[a] = "latched"
      /\ pc \in [Caller -> ThreadPlace] /\ Active(a) /\ result[a] = None
      /\ TokenFresh' /\ AnswersFresh' /\ ServerFresh' /\ ProofsEstablished' /\ StartsFresh'
      /\ \A b \in Caller \ {a} : ~Active(b) /\ pc'[b] = pc[b]
      /\ started[a] # None /\ established' = established
  BY <1>1, MoveFresh
<1>3. \A c \in Caller : Connected(c) => Connected(c)'
  BY <1>2 DEF Connected
<1>4. ChannelsOwn'
  BY <1>1, <1>3 DEF ChannelsOwn, TypeOK, FreshInv
<1>5. (\A m \in wire : ~cliOpen[m.ch]) /\ \A c \in Caller : task[c] \notin {"checked", "named"}
  BY <1>2, NothingInFlight
<1>6. MessagesOwned' /\ HandlersOwned'
  BY <1>1, <1>2, <1>3, <1>5, MessagesStable, HandlersStable DEF FreshInv
<1>7. SessionsOwn'
  BY <1>1, <1>2 DEF FreshInv, SessionsOwn, Active, IsOwn
<1> QED
  BY <1>2, <1>4, <1>6, <1>7 DEF FreshInv

LEMMA CreateChannelFresh ==
    ASSUME TypeOK, FreshInv, NEW a \in Caller, CreateChannel(a), UNCHANGED serverVars
    PROVE  FreshInv'
<1>1. /\ Move(a, "latched", "ready")
      /\ channels' = [channels EXCEPT ![ClientOf[a]] = a]
      /\ cliOpen' = [cliOpen EXCEPT ![a] = TRUE]
      /\ UNCHANGED <<tokenVars, started, serverVars, wire, sessionMap, result, task, got>>
  BY DEF CreateChannel, mapVars, handlerVars
<1>2. /\ pc[a] = "latched" /\ pc' = [pc EXCEPT ![a] = "ready"] /\ pc'[a] = "ready"
      /\ pc \in [Caller -> ThreadPlace] /\ Active(a) /\ result[a] = None
      /\ TokenFresh' /\ AnswersFresh' /\ ServerFresh' /\ ProofsEstablished' /\ StartsFresh'
      /\ \A b \in Caller \ {a} : ~Active(b) /\ pc'[b] = pc[b]
      /\ started[a] # None /\ established' = established
  BY <1>1, MoveFresh
<1>3. \A c \in Caller : Connected(c) => Connected(c)'
  BY <1>2 DEF Connected
<1>4. Connected(a)' /\ ~Connected(a)
  BY <1>2 DEF Connected
<1>5. ChannelsOwn'
  BY <1>1, <1>3, <1>4 DEF ChannelsOwn, TypeOK, NetTypeOK, FreshInv
<1>6. (\A m \in wire : ~cliOpen[m.ch]) /\ \A c \in Caller : task[c] \notin {"checked", "named"}
  BY <1>2, NothingInFlight
<1>7. \A m \in wire : ~cliOpen'[m.ch]
  BY <1>1, <1>4, <1>6, WireType DEF FreshInv, MessagesOwned, TypeOK, NetTypeOK
<1>8. MessagesOwned' /\ HandlersOwned'
  BY <1>1, <1>2, <1>3, <1>6, <1>7, MessagesStable, HandlersStable DEF FreshInv
<1>9. SessionsOwn'
  BY <1>1, <1>2 DEF FreshInv, SessionsOwn, Active, IsOwn
<1> QED
  BY <1>2, <1>5, <1>8, <1>9 DEF FreshInv

\* The request is alone on its channel, and of an attempt that is under way.
LEMMA SendRequestFresh ==
    ASSUME TypeOK, FreshInv, NEW a \in Caller, SendRequest(a), UNCHANGED serverVars
    PROVE  FreshInv'
<1> DEFINE c == ChannelOf(a)
           r == Request(c, DeviceOfCall(a), started[a].cn)
<1>1. /\ Move(a, "ready", "sent")
      /\ \/ wire' = wire
         \/ wire' = wire \cup {r} /\ cliOpen[c]
      /\ UNCHANGED <<tokenVars, started, serverVars, cliOpen, channels, sessionMap, result>>
      /\ UNCHANGED <<task, got, authAssist, established, drawn, late, place, token>>
  BY DEF SendRequest, mapVars, handlerVars, serverVars, tokenVars
<1>2. /\ pc[a] = "ready" /\ pc' = [pc EXCEPT ![a] = "sent"] /\ pc'[a] = "sent"
      /\ pc \in [Caller -> ThreadPlace] /\ Active(a) /\ result[a] = None
      /\ \A b \in Caller \ {a} : ~Active(b) /\ pc'[b] = pc[b]
      /\ started[a] # None
  <2>1. pc[a] = "ready" /\ pc' = [pc EXCEPT ![a] = "sent"] /\ pc \in [Caller -> ThreadPlace]
    BY <1>1, ThreadPlaces DEF Move
  <2>2. Active(a) /\ started[a] # None
    BY <2>1 DEF Active, TypeOK, LocalsOK
  <2>3. result[a] = None
    BY <2>1 DEF FreshInv, SessionsOwn
  <2>4. \A b \in Caller \ {a} : ~Active(b) /\ pc'[b] = pc[b]
    BY <2>1, <2>2 DEF FreshInv, StartsFresh
  <2> QED
    BY <2>1, <2>2, <2>3, <2>4
<1>3. /\ c \in Caller /\ Connected(c)
      /\ r.type = "REQUEST" /\ r.ch = c /\ r.dev = started[a].dev /\ r.cn = started[a].cn
  BY <1>2 DEF ChannelOf, FreshInv, ChannelsOwn, TypeOK, LocalsOK, Request, DeviceOfCall
<1>4. sessionMap[DeviceOfCall(a)] = None
  BY <1>2 DEF FreshInv, SessionsOwn, DeviceOfCall
<1>5. \A b : b = c => Exchanges(a, b)'
  BY <1>1, <1>2, <1>4 DEF Exchanges, ChannelOf, DeviceOfCall
<1>6. \A b \in Caller : Connected(b) => Connected(b)'
  BY <1>2 DEF Connected
<1>7. (\A m \in wire : ~cliOpen[m.ch]) /\ \A b \in Caller : task[b] \notin {"checked", "named"}
  BY <1>2, NothingInFlight
<1> HIDE DEF c, r
<1>8. TokenFresh' /\ AnswersFresh'
  BY <1>1 DEF FreshInv, TokenFresh, AnswersFresh, Ordered, Since
<1>9. StartsFresh'
  BY <1>1, <1>2, StartsMove DEF FreshInv
<1>10. ServerFresh'
  BY <1>1, <1>2, <1>3 DEF FreshInv, ServerFresh, Begun
<1>11. ProofsEstablished'
  BY <1>1, <1>3 DEF FreshInv, ProofsEstablished
<1>12. ChannelsOwn'
  BY <1>1, <1>6 DEF FreshInv, ChannelsOwn, TypeOK
<1>13. HandlersOwned'
  BY <1>1, <1>7 DEF HandlersOwned
<1>14. MessagesOwned'
  <2> SUFFICES ASSUME NEW m \in wire'
               PROVE  /\ m.ch \in Caller /\ Connected(m.ch)'
                      /\ cliOpen[m.ch] =>
                           /\ task[m.ch] \in {"idle", "filed"}
                           /\ \A n \in wire' : n.ch = m.ch => n = m
                           /\ \E b \in Caller :
                                 /\ Exchanges(b, m.ch)'
                                 /\ m.type \in {"CLIENT_PROOF", "SERVER_PROOF"} =>
                                       started[b].cn <= m.proof.cn
    BY <1>1 DEF MessagesOwned
  <2>1. CASE m \in wire
    BY <1>6, <1>7, <2>1 DEF FreshInv, MessagesOwned
  <2>2. CASE m = r
    <3>1. \A n \in wire' : n.ch = r.ch /\ cliOpen[r.ch] => n = r
      BY <1>1, <1>7
    <3>2. task[c] \in {"idle", "filed"}
      <4>1. task[c] \in {"idle", "checked", "named", "filed"}
        BY <1>3 DEF TypeOK
      <4> QED
        BY <1>3, <1>7, <4>1
    <3> QED
      BY <1>3, <1>5, <1>6, <2>2, <3>1, <3>2
  <2> QED
    BY <1>1, <2>1, <2>2
<1>15. SessionsOwn'
  BY <1>1, <1>2, <1>4 DEF FreshInv, SessionsOwn, Active, IsOwn, DeviceOfCall
<1> QED
  BY <1>8, <1>9, <1>10, <1>11, <1>12, <1>13, <1>14, <1>15 DEF FreshInv

LEMMA GetLatchFresh ==
    ASSUME TypeOK, FreshInv, NEW a \in Caller, GetLatch(a), UNCHANGED serverVars
    PROVE  FreshInv'
<1>1. /\ Move(a, "sent", "waiting")
      /\ UNCHANGED <<tokenVars, started, serverVars, wire, cliOpen, channels, result, task, got>>
      /\ UNCHANGED sessionMap
  BY DEF GetLatch, netVars, mapVars, handlerVars
<1>2. /\ pc[a] = "sent" /\ pc' = [pc EXCEPT ![a] = "waiting"] /\ pc'[a] = "waiting"
      /\ pc \in [Caller -> ThreadPlace] /\ Active(a) /\ result[a] = None
      /\ TokenFresh' /\ AnswersFresh' /\ ServerFresh' /\ ProofsEstablished' /\ StartsFresh'
      /\ \A b \in Caller \ {a} : ~Active(b) /\ pc'[b] = pc[b]
      /\ started[a] # None /\ established' = established
  BY <1>1, MoveFresh
<1>3. \A c \in Caller : Connected(c) => Connected(c)'
  BY <1>2 DEF Connected
<1>4. ChannelsOwn'
  BY <1>1, <1>3 DEF ChannelsOwn, TypeOK, FreshInv
<1>5. \A b, c \in Caller : Exchanges(b, c) => Exchanges(b, c)'
  BY <1>1, <1>2 DEF Exchanges, ChannelOf, DeviceOfCall
<1>6. MessagesOwned' /\ HandlersOwned'
  BY <1>1, <1>2, <1>3, <1>5, MessagesStable, HandlersStable DEF FreshInv
<1>7. SessionsOwn'
  BY <1>1, <1>2 DEF FreshInv, SessionsOwn, Active, IsOwn
<1> QED
  BY <1>2, <1>4, <1>6, <1>7 DEF FreshInv

\* A session is found only if it is the attempt's own, and then nothing is in
\* flight any more.
LEMMA GetSessionFresh ==
    ASSUME TypeOK, FreshInv, NEW a \in Caller, GetSession(a), UNCHANGED serverVars
    PROVE  FreshInv'
<1> DEFINE sess == sessionMap[DeviceOfCall(a)]
           to == IF sess # None THEN "done" ELSE "closing"
<1>1. /\ Move(a, "awake", to)
      /\ result' = [result EXCEPT ![a] = sess]
      /\ UNCHANGED <<tokenVars, started, serverVars, wire, cliOpen, channels, task, got>>
      /\ UNCHANGED sessionMap
  BY DEF GetSession, netVars, mapVars, handlerVars
<1>2. /\ pc[a] = "awake" /\ pc' = [pc EXCEPT ![a] = to] /\ pc'[a] = to
      /\ pc \in [Caller -> ThreadPlace] /\ Active(a) /\ result[a] = None
      /\ TokenFresh' /\ AnswersFresh' /\ ServerFresh' /\ ProofsEstablished' /\ StartsFresh'
      /\ \A b \in Caller \ {a} : ~Active(b) /\ pc'[b] = pc[b]
      /\ started[a] # None /\ established' = established
  BY <1>1, MoveFresh
<1>3. \A c \in Caller : Connected(c) => Connected(c)'
  BY <1>2 DEF Connected
<1>4. ChannelsOwn'
  BY <1>1, <1>3 DEF ChannelsOwn, TypeOK, FreshInv
<1>5. \A b, c \in Caller : Exchanges(b, c) => b = a
  BY <1>2, OwnerActive DEF FreshInv
<1>6. \A b, c \in Caller : Exchanges(b, c) => Exchanges(b, c)'
  <2>1. \A c \in Caller : Exchanges(a, c) => to = "closing"
    BY DEF Exchanges
  <2> QED
    BY <1>1, <1>2, <1>5, <2>1 DEF Exchanges, ChannelOf, DeviceOfCall
<1>7. MessagesOwned' /\ HandlersOwned'
  BY <1>1, <1>2, <1>3, <1>6, MessagesStable, HandlersStable DEF FreshInv
<1>8. sess = None \/ IsOwn(sess, a)
  BY <1>2 DEF FreshInv, SessionsOwn, DeviceOfCall
<1>9. SessionsOwn'
  <2>1. result'[a] = sess /\ \A b \in Caller \ {a} : result'[b] = result[b]
    BY <1>1 DEF TypeOK
  <2> QED
    BY <1>1, <1>2, <1>8, <2>1 DEF FreshInv, SessionsOwn, Active, IsOwn, DeviceOfCall
<1> QED
  BY <1>2, <1>4, <1>7, <1>9 DEF FreshInv

LEMMA CloseFresh ==
    ASSUME TypeOK, FreshInv, NEW a \in Caller, Close(a), UNCHANGED serverVars
    PROVE  FreshInv'
<1> DEFINE c == ChannelOf(a)
<1>1. /\ Move(a, "closing", "done")
      /\ task[c] = "idle"
      /\ cliOpen' = [cliOpen EXCEPT ![c] = FALSE]
      /\ wire' \subseteq wire
      /\ UNCHANGED <<tokenVars, started, serverVars, sessionMap, channels, result, task, got>>
  BY DEF Close, ClosedByClient, mapVars, handlerVars
<1>2. /\ pc[a] = "closing" /\ pc' = [pc EXCEPT ![a] = "done"] /\ pc'[a] = "done"
      /\ pc \in [Caller -> ThreadPlace] /\ Active(a) /\ result[a] = None
      /\ TokenFresh' /\ AnswersFresh' /\ ServerFresh' /\ ProofsEstablished' /\ StartsFresh'
      /\ \A b \in Caller \ {a} : ~Active(b) /\ pc'[b] = pc[b]
      /\ started[a] # None /\ established' = established
  BY <1>1, MoveFresh
<1>3. \A b \in Caller : Connected(b) => Connected(b)'
  BY <1>2 DEF Connected
<1>4. /\ ~cliOpen'[c] /\ c \in Caller
      /\ \A b \in Attempt : cliOpen'[b] => cliOpen[b] /\ b # c
  <2>1. c \in Caller
    BY <1>2 DEF TypeOK, LocalsOK, ChannelOf
  <2>2. cliOpen \in [Attempt -> BOOLEAN]
    BY DEF TypeOK, NetTypeOK
  <2> HIDE DEF c
  <2> QED
    BY <1>1, <2>1, <2>2
<1>5. ChannelsOwn'
  BY <1>1, <1>3, <1>4 DEF ChannelsOwn, TypeOK, FreshInv
<1>6. \A b, d \in Caller : Exchanges(b, d) => d = c
  <2>1. \A b, d \in Caller : Exchanges(b, d) => b = a
    BY <1>2, OwnerActive DEF FreshInv
  <2> QED
    BY <2>1 DEF Exchanges
<1>7. MessagesOwned'
  BY <1>1, <1>3, <1>4, <1>6, MessagesStable DEF FreshInv
<1>8. HandlersOwned'
  BY <1>1, <1>2, <1>6, HandlersStable DEF FreshInv
<1>9. SessionsOwn'
  BY <1>1, <1>2 DEF FreshInv, SessionsOwn, Active, IsOwn
<1> QED
  BY <1>2, <1>5, <1>7, <1>8, <1>9 DEF FreshInv

LEMMA CallerFreshStep ==
    ASSUME OnlyOneClient, TypeOK, FreshInv, NEW a \in Caller,
           StartAccessAuth(a) \/ CallerStep(a) \/ CallerFault(a), UNCHANGED serverVars
    PROVE  FreshInv'
<1>1. CASE Awake(a) \/ Timeout(a) \/ Interrupted(a)
  BY <1>1, AdvanceFresh DEF Awake, Timeout, Interrupted
<1>2. CASE SendFails(a)
  BY <1>2, AdvanceFresh DEF SendFails
<1>3. CASE CreateChannelFails(a)
  BY <1>3, AdvanceFresh DEF CreateChannelFails
<1> QED
  BY <1>1, <1>2, <1>3, StartAccessAuthFresh, GetStartInfoFresh, ResetSessionFresh,
     ResetLatchFresh, CreateChannelFresh, SendRequestFresh, GetLatchFresh, GetSessionFresh,
     CloseFresh
  DEF CallerStep, CallerFault

--------------------------------------------------------------------------------
(* The threads of the channels. *)

\* The parts that only speak of the attempts stay; the exchanges stay.
LEMMA HandlerLeaves ==
    ASSUME TypeOK, FreshInv, UNCHANGED <<callerVars, serverVars, cliOpen>>,
           drawn' \in Nat, drawn <= drawn', FreshTo(late', drawn'),
           wire' \subseteq ToServer \cup ToClient,
           \A m \in wire' : m.type = "REQUEST" => m \in wire
    PROVE  AnswersFresh' /\ StartsFresh' /\ ServerFresh' /\ ChannelsOwn'
<1>1. AnswersFresh'
  BY DEF AnswersFresh, FreshTo, Ordered, Since, callerVars
<1>2. StartsFresh'
  BY StartsStable DEF FreshInv, callerVars
<1>3. ServerFresh'
  BY DEF FreshInv, ServerFresh, Begun, callerVars, serverVars
<1>4. ChannelsOwn'
  BY DEF FreshInv, ChannelsOwn, Connected, callerVars
<1> QED
  BY <1>1, <1>2, <1>3, <1>4

LEMMA SameExchanges ==
    ASSUME UNCHANGED <<callerVars, sessionMap>>
    PROVE  /\ \A a, c : Exchanges(a, c)' = Exchanges(a, c)
           /\ \A c : Connected(c)' = Connected(c)
           /\ started' = started
BY DEF Exchanges, Connected, ChannelOf, DeviceOfCall, callerVars

\* The message a thread receives is the only one on its channel.
LEMMA Received ==
    ASSUME TypeOK, FreshInv, NEW c \in Caller, NEW m \in wire, NEW type, Receives(c, m, type)
    PROVE  /\ m.ch = c /\ m.type = type /\ cliOpen[c] /\ task[c] = "idle" /\ Connected(c)
           /\ \A n \in wire : n.ch = c => n = m
           /\ \E a \in Caller :
                 /\ Exchanges(a, c) /\ started[a] # None
                 /\ m.type \in {"CLIENT_PROOF", "SERVER_PROOF"} => started[a].cn <= m.proof.cn
<1>1. m.ch = c /\ m.type = type /\ cliOpen[c] /\ task[c] = "idle"
  BY DEF Receives
<1>2. PICK a \in Caller :
          /\ Exchanges(a, c)
          /\ m.type \in {"CLIENT_PROOF", "SERVER_PROOF"} => started[a].cn <= m.proof.cn
  BY <1>1 DEF FreshInv, MessagesOwned
<1>3. started[a] # None
  BY <1>2 DEF Exchanges, TypeOK, LocalsOK
<1> QED
  BY <1>1, <1>2, <1>3 DEF FreshInv, MessagesOwned

LEMMA IgnoreFailureFresh ==
    ASSUME TypeOK, FreshInv, NEW c \in Caller, NEW m \in wire, IgnoreFailure(c, m),
           UNCHANGED serverVars
    PROVE  FreshInv'
<1>1. /\ wire' = wire \ {m}
      /\ UNCHANGED <<cliOpen, tokenVars, sessionMap, callerVars, task, got, established>>
  BY DEF IgnoreFailure, mapVars, handlerVars, serverVars
<1>2. UNCHANGED <<pc, started, drawn, channels, result>>
  BY <1>1 DEF callerVars, tokenVars
<1>3. TokenFresh' /\ AnswersFresh' /\ ServerFresh' /\ ProofsEstablished'
  BY <1>1, <1>2, QuietStep DEF FreshInv
<1>4. StartsFresh' /\ ChannelsOwn'
  BY <1>1, <1>2 DEF FreshInv, StartsFresh, ChannelsOwn, Active, Connected
<1>5. MessagesOwned' /\ HandlersOwned'
  BY <1>1, SameExchanges, MessagesStable, HandlersStable DEF FreshInv
<1>6. SessionsOwn'
  BY <1>1, <1>2 DEF FreshInv, SessionsOwn, IsOwn
<1> QED
  BY <1>3, <1>4, <1>5, <1>6 DEF FreshInv

\* The proof is over a nonce that is not older than the attempt's.
LEMMA SendProofFresh ==
    ASSUME TypeOK, FreshInv, NEW c \in Caller, NEW m \in wire, SendProof(c, m),
           UNCHANGED serverVars
    PROVE  FreshInv'
<1>1. Receives(c, m, "RESPONSE") /\ m.sn \in Attempt
  BY WireType DEF SendProof, Receives
<1>2. PICK value : /\ genAuthInfo(m.sn, value)
                   /\ wire' = (wire \ {m}) \cup IF value # None /\ srvOpen[c]
                                                THEN {ClientProof(c, value)} ELSE {}
  BY DEF SendProof
<1>3. UNCHANGED <<cliOpen, callerVars, sessionMap, task, got, started, result, established>>
  BY DEF SendProof, mapVars, handlerVars, serverVars, callerVars
<1>4. /\ TokenFresh' /\ FreshTo(late', drawn') /\ drawn' = drawn
      /\ value # None => IsNext("auth", value)
      /\ \A i \in 1..Len(late') : \/ late'[i].fun # "check"
                                  \/ \E j \in 1..Len(late) : late'[i] = late[j]
  BY <1>1, <1>2, AuthFresh DEF FreshInv
<1>5. value \in Transcript \cup {None}
  BY <1>1, <1>2, AuthType
<1>6. PICK r : r = ClientProof(c, value)
  OBVIOUS
<1>7. r.type = "CLIENT_PROOF" /\ r.ch = c /\ r.proof = value
  BY <1>6 DEF ClientProof
<1>8. \/ wire' = wire \ {m}
      \/ wire' = (wire \ {m}) \cup {r} /\ value # None
  BY <1>2, <1>6
<1>9. wire' \subseteq ToServer \cup ToClient
  BY <1>5, <1>6, <1>8, ProofType DEF TypeOK, NetTypeOK
<1>10. AnswersFresh' /\ StartsFresh' /\ ServerFresh' /\ ChannelsOwn'
  BY <1>3, <1>4, <1>7, <1>8, <1>9, DrawnNat, HandlerLeaves
<1>11. ProofsEstablished'
  BY <1>3, <1>4, <1>7, <1>8 DEF FreshInv, ProofsEstablished
<1>12. HandlersOwned'
  BY <1>3, SameExchanges, HandlersStable DEF FreshInv
<1>13. PICK a \in Caller : Exchanges(a, c) /\ started[a] # None
  BY <1>1, Received
<1>14. MessagesOwned'
  <2> SUFFICES ASSUME NEW n \in wire'
               PROVE  /\ n.ch \in Caller /\ Connected(n.ch)
                      /\ cliOpen[n.ch] =>
                           /\ task[n.ch] \in {"idle", "filed"}
                           /\ \A l \in wire' : l.ch = n.ch => l = n
                           /\ \E b \in Caller :
                                 /\ Exchanges(b, n.ch)
                                 /\ n.type \in {"CLIENT_PROOF", "SERVER_PROOF"} =>
                                       started[b].cn <= n.proof.cn
    BY <1>3, SameExchanges DEF MessagesOwned
  <2>1. CASE n \in wire /\ n # m
    <3>1. cliOpen[n.ch] => n.ch # c
      BY <1>1, <2>1, Received
    <3>2. cliOpen[n.ch] => \A l \in wire' : l.ch = n.ch => l = n
      BY <1>7, <1>8, <2>1, <3>1 DEF FreshInv, MessagesOwned
    <3> QED
      BY <2>1, <3>2 DEF FreshInv, MessagesOwned
  <2>2. CASE n = r /\ value # None
    <3>1. started[a].cn <= value.cn
      BY <1>4, <1>13, <2>2 DEF IsNext
    <3>2. \A l \in wire' : l.ch = c => l = r
      BY <1>1, <1>8, Received
    <3> QED
      BY <1>1, <1>7, <1>13, <2>2, <3>1, <3>2, Received
  <2> QED
    BY <1>8, <2>1, <2>2
<1>15. SessionsOwn'
  BY <1>3 DEF FreshInv, SessionsOwn, IsOwn, callerVars
<1> QED
  BY <1>4, <1>10, <1>11, <1>12, <1>14, <1>15 DEF FreshInv

\* The session the token gives is one the server has established, and not older
\* than the attempt.
LEMMA CheckServerProofFresh ==
    ASSUME TypeOK, FreshInv, NEW c \in Caller, NEW m \in wire, CheckServerProof(c, m),
           UNCHANGED serverVars
    PROVE  FreshInv'
<1>1. Receives(c, m, "SERVER_PROOF") /\ m.proof \in Transcript /\ m.proof \in established
  BY WireType DEF CheckServerProof, Receives, FreshInv, ProofsEstablished
<1>2. PICK value : /\ checkAuthInfo(m.proof, value)
                   /\ IF value = None THEN UNCHANGED handlerVars
                      ELSE Goes(c, "checked", value, None)
  BY DEF CheckServerProof
<1>3. /\ UNCHANGED <<cliOpen, callerVars, sessionMap, started, result, established>>
      /\ wire' = wire \ {m}
  BY DEF CheckServerProof, mapVars, serverVars, callerVars
<1>4. /\ TokenFresh' /\ FreshTo(late', drawn') /\ drawn' = drawn
      /\ value # None => /\ IsNext("check", value)
                         /\ \/ value = m.proof
                            \/ \E j \in 1..Len(late) :
                                  late[j].fun = "check" /\ late[j].said = value
      /\ \A i \in 1..Len(late') : \/ late'[i].said \in {m.proof, None}
                                  \/ \E j \in 1..Len(late) : late'[i] = late[j]
  BY <1>1, <1>2, CheckFresh DEF FreshInv
<1>5. AnswersFresh' /\ StartsFresh' /\ ServerFresh' /\ ChannelsOwn'
  BY SMTT(30), <1>3, <1>4, DrawnNat, HandlerLeaves DEF TypeOK, NetTypeOK
<1>6. ProofsEstablished'
  BY <1>1, <1>3, <1>4 DEF FreshInv, ProofsEstablished
<1>7. value # None => value \in established
  BY <1>1, <1>4 DEF FreshInv, ProofsEstablished
<1>8. PICK a \in Caller : Exchanges(a, c) /\ started[a] # None
  BY <1>1, Received
<1>9. /\ \A b \in Caller \ {c} : task'[b] = task[b] /\ got'[b].sess = got[b].sess
      /\ \/ task'[c] = "idle"
         \/ value # None /\ task'[c] = "checked" /\ got'[c].sess = value
  BY SMTT(30), <1>1, <1>2, Received DEF Goes, handlerVars, TypeOK
<1>10. HandlersOwned'
  <2> SUFFICES ASSUME NEW b \in Caller, task'[b] \in {"checked", "named"}
               PROVE  \E d \in Caller : /\ Exchanges(d, b)
                                        /\ got'[b].sess \in established
                                        /\ started[d].cn <= got'[b].sess.cn
    BY <1>3, SameExchanges DEF HandlersOwned
  <2>1. CASE b # c
    BY <1>9, <2>1 DEF FreshInv, HandlersOwned
  <2>2. CASE b = c
    <3>1. value # None /\ got'[c].sess = value
      BY <1>9, <2>2
    <3>2. started[a].cn <= value.cn
      BY <1>4, <1>8, <3>1 DEF IsNext
    <3> QED
      BY <1>7, <1>8, <2>2, <3>1, <3>2
  <2> QED
    BY <2>1, <2>2
<1>11. MessagesOwned'
  <2>1. \A b \in Caller : (\E n \in wire' : n.ch = b) /\ cliOpen[b] => b # c
    BY <1>1, <1>3, Received
  <2> QED
    BY <1>3, <1>9, <2>1, SameExchanges, MessagesStable DEF FreshInv
<1>12. SessionsOwn'
  BY <1>3 DEF FreshInv, SessionsOwn, IsOwn, callerVars
<1> QED
  BY <1>4, <1>5, <1>6, <1>10, <1>11, <1>12 DEF FreshInv

\* While a thread has a session in hand, nothing else is on its channel.
LEMMA NothingReceived ==
    ASSUME FreshInv, NEW c \in Caller, task[c] \in {"checked", "named"}
    PROVE  /\ \A m \in wire : m.ch = c => ~cliOpen[c]
           /\ \E a \in Caller : /\ Exchanges(a, c)
                                /\ got[c].sess \in established
                                /\ started[a].cn <= got[c].sess.cn
BY DEF FreshInv, MessagesOwned, HandlersOwned

LEMMA GetDeviceIDFresh ==
    ASSUME TypeOK, FreshInv, NEW c \in Caller, GetDeviceID(c), UNCHANGED serverVars
    PROVE  FreshInv'
<1>1. PICK value : /\ genStartInfo(value)
                   /\ IF value = None THEN Goes(c, "idle", None, None)
                      ELSE Goes(c, "named", got[c].sess, value.dev)
  BY DEF GetDeviceID
<1>2. UNCHANGED <<wire, cliOpen, callerVars, sessionMap, started, result, established>>
  BY DEF GetDeviceID, netVars, mapVars, serverVars, callerVars
<1>3. /\ TokenFresh' /\ FreshTo(late', drawn') /\ drawn' \in Nat /\ drawn <= drawn'
      /\ \A i \in 1..Len(late') : \/ late'[i].fun # "check"
                                  \/ \E j \in 1..Len(late) : late'[i] = late[j]
  BY <1>1, StartFresh DEF FreshInv
<1>4. AnswersFresh' /\ StartsFresh' /\ ServerFresh' /\ ChannelsOwn'
  BY <1>2, <1>3, HandlerLeaves DEF TypeOK, NetTypeOK
<1>5. ProofsEstablished'
  BY <1>2, <1>3 DEF FreshInv, ProofsEstablished
<1>6. /\ task[c] = "checked"
      /\ \A b \in Caller \ {c} : task'[b] = task[b] /\ got'[b].sess = got[b].sess
      /\ \/ task'[c] = "idle"
         \/ task'[c] = "named" /\ got'[c].sess = got[c].sess
  BY <1>1 DEF GetDeviceID, Goes, TypeOK
<1>7. HandlersOwned'
  BY <1>2, <1>6, SameExchanges, HandlersStable DEF FreshInv
<1>8. MessagesOwned'
  BY <1>2, <1>6, SameExchanges, NothingReceived, MessagesStable DEF FreshInv
<1>9. SessionsOwn'
  BY <1>2 DEF FreshInv, SessionsOwn, IsOwn, callerVars
<1> QED
  BY <1>3, <1>4, <1>5, <1>7, <1>8, <1>9 DEF FreshInv

\* The session that is put is the one of the attempt that is under way: it is of
\* an exchange an attempt has begun, and of none before this one.
LEMMA PutSessionFresh ==
    ASSUME TypeOK, FreshInv, NEW c \in Caller, PutSession(c), UNCHANGED serverVars
    PROVE  FreshInv'
<1>1. /\ task[c] = "named"
      /\ sessionMap' = [sessionMap EXCEPT ![got[c].dev] = got[c].sess]
      /\ task'[c] = "filed"
      /\ \A b \in Caller \ {c} : task'[b] = task[b] /\ got'[b] = got[b]
      /\ UNCHANGED <<netVars, tokenVars, callerVars>>
  BY DEF PutSession, Goes, TypeOK
<1>2. PICK a \in Caller : /\ Exchanges(a, c)
                          /\ got[c].sess \in established
                          /\ started[a].cn <= got[c].sess.cn
  BY <1>1, NothingReceived
<1>3. IsOwn(got[c].sess, a)
  <2>1. PICK b \in Caller : /\ started[b] # None /\ started[b].dev = got[c].sess.dev
                            /\ started[b].cn = got[c].sess.cn
    BY <1>2 DEF FreshInv, ServerFresh, Begun
  <2>2. Active(a) /\ started[a] # None
    BY <1>2 DEF Exchanges, Active, TypeOK, LocalsOK
  <2>3. a = b
    BY <1>2, <2>1, <2>2, StartedType DEF FreshInv, StartsFresh
  <2> QED
    BY <1>2, <2>1, <2>3 DEF IsOwn
<1>4. UNCHANGED <<wire, cliOpen, pc, started, channels, result, drawn, established>>
  BY <1>1 DEF netVars, tokenVars, callerVars, serverVars
<1>5. TokenFresh' /\ AnswersFresh' /\ ServerFresh' /\ ProofsEstablished'
  BY <1>1, <1>4, QuietStep DEF FreshInv
<1>6. StartsFresh' /\ ChannelsOwn'
  BY <1>4 DEF FreshInv, StartsFresh, ChannelsOwn, Active, Connected
<1>7. \A b, d \in Caller : Exchanges(b, d) => b = a /\ d = c
  <2>1. \A b, d \in Caller : Exchanges(b, d) => b = a
    BY <1>2, OwnerActive DEF FreshInv, Exchanges, Active
  <2> QED
    BY <1>2, <2>1 DEF Exchanges
<1>8. /\ \A m \in wire : ~cliOpen[m.ch]
      /\ \A b \in Caller \ {c} : task[b] \notin {"checked", "named"}
  <2>1. \A m \in wire : ~cliOpen[m.ch]
    BY <1>1, <1>7, NothingReceived DEF FreshInv, MessagesOwned
  <2>2. \A b \in Caller \ {c} : task[b] \notin {"checked", "named"}
    BY <1>7 DEF FreshInv, HandlersOwned
  <2> QED
    BY <2>1, <2>2
<1>9. MessagesOwned' /\ HandlersOwned'
  BY <1>1, <1>4, <1>8 DEF FreshInv, MessagesOwned, HandlersOwned, Connected
<1>10. SessionsOwn'
  <2>1. \A b \in Caller : b # a => ~Active(b)
    BY <1>2, OwnerActive DEF FreshInv
  <2>2. pc[a] \in {"sent", "waiting", "awake", "closing"} /\ started[a] # None
    BY <1>2 DEF Exchanges, TypeOK, LocalsOK
  <2>3. sessionMap'[started[a].dev] \in {None, got[c].sess}
    <3>1. sessionMap[started[a].dev] = None
      BY <1>2 DEF Exchanges, DeviceOfCall
    <3> QED
      BY <1>1, <2>2, <3>1, StartedType DEF TypeOK
  <2> QED
    BY <1>3, <1>4, <2>1, <2>2, <2>3 DEF FreshInv, SessionsOwn, IsOwn, Active
<1> QED
  BY <1>5, <1>6, <1>9, <1>10 DEF FreshInv

LEMMA CountDownFresh ==
    ASSUME TypeOK, FreshInv, NEW c \in Caller, CountDown(c), UNCHANGED serverVars
    PROVE  FreshInv'
<1>1. /\ task[c] = "filed" /\ task'[c] = "idle"
      /\ \A b \in Caller \ {c} : task'[b] = task[b] /\ got'[b] = got[b]
      /\ UNCHANGED <<netVars, tokenVars, sessionMap, callerVars>>
  BY DEF CountDown, Goes, TypeOK
<1>2. UNCHANGED <<wire, cliOpen, pc, started, channels, result, drawn, established>>
  BY <1>1 DEF netVars, tokenVars, callerVars, serverVars
<1>3. TokenFresh' /\ AnswersFresh' /\ ServerFresh' /\ ProofsEstablished'
  BY <1>1, <1>2, QuietStep DEF FreshInv
<1>4. StartsFresh' /\ ChannelsOwn'
  BY <1>2 DEF FreshInv, StartsFresh, ChannelsOwn, Active, Connected
<1>5. MessagesOwned' /\ HandlersOwned'
  BY <1>1, <1>2, SameExchanges, MessagesStable, HandlersStable DEF FreshInv
<1>6. SessionsOwn'
  BY <1>1, <1>2 DEF FreshInv, SessionsOwn, IsOwn
<1> QED
  BY <1>3, <1>4, <1>5, <1>6 DEF FreshInv

LEMMA HandlerFreshStep ==
    ASSUME TypeOK, FreshInv, NEW c \in Caller, HandlerStep(c), UNCHANGED serverVars
    PROVE  FreshInv'
BY IgnoreFailureFresh, SendProofFresh, CheckServerProofFresh, GetDeviceIDFresh,
   PutSessionFresh, CountDownFresh DEF HandlerStep

--------------------------------------------------------------------------------
(* The parts of FreshInv together are inductive: no answer that the token gave  *)
(* too late, no session of an earlier attempt and no nonce drawn for a device   *)
(* ID only gets between an attempt and its session, if one client uses the      *)
(* tokens (startAccessAuth is synchronized for a client).                       *)
THEOREM FreshCorrect ==
    ASSUME OnlyOneClient
    PROVE  Spec => []FreshInv
<1>1. TypeOK /\ FreshInv /\ [Next]_vars => FreshInv'
  <2> SUFFICES ASSUME TypeOK, FreshInv, [Next]_vars PROVE FreshInv'
    OBVIOUS
  <2>1. CASE UNCHANGED vars
    <3>1. UNCHANGED <<tokenVars, started, serverVars, wire, cliOpen, pc, channels, result,
                      drawn, sessionMap, task, got, established, callerVars>>
      BY <2>1 DEF vars, netVars, serverVars, tokenVars, mapVars, callerVars, handlerVars
    <3>2. TokenFresh' /\ AnswersFresh' /\ ServerFresh' /\ ProofsEstablished'
      BY <3>1, QuietStep DEF FreshInv
    <3>3. StartsFresh' /\ ChannelsOwn'
      BY <3>1 DEF FreshInv, StartsFresh, ChannelsOwn, Active, Connected
    <3>4. MessagesOwned' /\ HandlersOwned'
      BY <3>1, SameExchanges, MessagesStable, HandlersStable DEF FreshInv
    <3>5. SessionsOwn'
      BY <3>1 DEF FreshInv, SessionsOwn, IsOwn
    <3> QED
      BY <3>2, <3>3, <3>4, <3>5 DEF FreshInv
  <2>2. CASE ClientNext /\ UNCHANGED serverVars
    BY <2>2, CallerFreshStep, HandlerFreshStep DEF ClientNext
  <2>3. CASE ServerNext /\ UNCHANGED <<tokenVars, mapVars, callerVars, handlerVars>>
    BY <2>3, ServerFreshStep
  <2>4. CASE Exchange
    BY <2>4, ExchangeFresh
  <2> QED
    BY <2>1, <2>2, <2>3, <2>4 DEF Next
<1> QED
  BY <1>1, InitFresh, TypeCorrect, PTL DEF Spec

(* What startAccessAuth returns in the mode Q_SHIELD is the session the server  *)
(* established for the nonce and the token of that very call                    *)
(* (AuthenticationClient.getSessionInfo).                                       *)
THEOREM SessionsAreOwn ==
    ASSUME OnlyOneClient
    PROVE  Spec => []OwnSession
<1>1. FreshInv => OwnSession
  BY DEF FreshInv, SessionsOwn, OwnSession, IsOwn
<1> QED
  BY <1>1, FreshCorrect, PTL

--------------------------------------------------------------------------------
(* The refinement of MutualAuth, step by step. *)

Granted == {a \in Caller : started[a] # None /\ \E t \in established : t.cn = started[a].cn}

Phase == [a \in Caller |-> PhaseOf(a)]

LEMMA InitPromise == Init => Promise!Init
BY DEF Init, ServerInit, Promise!Init, PhaseOf

\* How the phase of the one attempt that moves decides the step of the promise.
LEMMA PhaseMoves ==
    ASSUME NEW a \in Caller, Granted' = Granted,
           \A b \in Caller \ {a} : pc'[b] = pc[b] /\ result'[b] = result[b],
           \/ PhaseOf(a)' = PhaseOf(a)
           \/ PhaseOf(a) = "idle" /\ PhaseOf(a)' = "running"
           \/ PhaseOf(a) = "running" /\ PhaseOf(a)' = "failure"
           \/ PhaseOf(a) = "running" /\ PhaseOf(a)' = "success" /\ a \in Granted
    PROVE  [Promise!Next]_(Promise!vars)
<1>1. \A b \in Caller \ {a} : PhaseOf(b)' = PhaseOf(b)
  BY DEF PhaseOf
<1>2. Phase' = [Phase EXCEPT ![a] = PhaseOf(a)'] /\ Phase[a] = PhaseOf(a)
  BY <1>1 DEF Phase
<1>3. CASE PhaseOf(a)' = PhaseOf(a)
  <2>1. Phase' = Phase
    BY <1>1, <1>3 DEF Phase
  <2> QED
    BY <2>1 DEF Promise!vars, Phase, Granted
<1>4. CASE PhaseOf(a) = "idle" /\ PhaseOf(a)' = "running"
  BY <1>2, <1>4 DEF Promise!Next, Promise!Begin, Phase, Granted
<1>5. CASE PhaseOf(a) = "running" /\ PhaseOf(a)' = "failure"
  BY <1>2, <1>5 DEF Promise!Next, Promise!Fail, Phase, Granted
<1>6. CASE PhaseOf(a) = "running" /\ PhaseOf(a)' = "success" /\ a \in Granted
  BY <1>2, <1>6 DEF Promise!Next, Promise!Succeed, Phase, Granted
<1> QED
  BY <1>3, <1>4, <1>5, <1>6

LEMMA CallerPromise ==
    ASSUME TypeOK, FreshInv, NEW a \in Caller,
           StartAccessAuth(a) \/ CallerStep(a) \/ CallerFault(a), UNCHANGED serverVars
    PROVE  [Promise!Next]_(Promise!vars)
<1> USE DEF Move, Advance
<1>0. pc \in [Caller -> ThreadPlace] /\ result \in [Caller -> Transcript \cup {None}]
  BY ThreadPlaces DEF TypeOK
<1>1. \A b \in Caller \ {a} : pc'[b] = pc[b] /\ result'[b] = result[b]
  BY <1>0 DEF CallerStep, CallerFault, StartAccessAuth, GetStartInfo, ResetSession, ResetLatch,
      CreateChannel, CreateChannelFails, SendRequest, SendFails, GetLatch, Awake, Timeout,
      Interrupted, GetSession, Close
<1>2. established' = established
  BY DEF serverVars
<1>3. CASE StartAccessAuth(a)
  <2>1. pc[a] = "idle" /\ pc'[a] = "init" /\ UNCHANGED <<result, started>> /\ result[a] = None
    BY <1>0, <1>3 DEF StartAccessAuth, FreshInv, SessionsOwn
  <2>2. PhaseOf(a) = "idle"
    BY <2>1 DEF PhaseOf
  <2>3. PhaseOf(a)' = "running"
    BY <2>1 DEF PhaseOf
  <2>4. Granted' = Granted
    BY <1>2, <2>1 DEF Granted
  <2> QED
    BY <1>1, <2>2, <2>3, <2>4, PhaseMoves
<1>4. CASE GetStartInfo(a)
  <2>1. PICK value : /\ genStartInfo(value)
                     /\ Move(a, "init", IF value = None THEN "done" ELSE "info")
                     /\ started' = [started EXCEPT ![a] = value]
                     /\ UNCHANGED <<netVars, mapVars, channels, latch, result, handlerVars>>
    BY <1>4 DEF GetStartInfo
  <2>2. /\ pc[a] = "init" /\ started[a] = None /\ result[a] = None /\ result' = result
        /\ pc'[a] = IF value = None THEN "done" ELSE "info"
    BY <1>0, <2>1 DEF FreshInv, StartsFresh, SessionsOwn
  <2>3. PhaseOf(a) = "running"
    BY <2>2 DEF PhaseOf
  <2>4. PhaseOf(a)' \in {"running", "failure"}
    BY <2>2 DEF PhaseOf
  <2>5. value # None => IsNext("start", value) /\ value.cn \in Nat
    BY <2>1, StartFresh, StartType DEF FreshInv, StartInfo
  <2>6. value # None => \A t \in established : t.cn # value.cn
    <3>1. ASSUME value # None, NEW t \in established PROVE t.cn # value.cn
      <4>1. PICK b \in Caller : started[b] # None /\ started[b].cn = t.cn
        BY DEF FreshInv, ServerFresh, Begun
      <4>2. started[b].cn < value.cn /\ started[b].cn \in Nat
        BY <2>5, <3>1, <4>1, StartedType DEF IsNext
      <4> QED
        BY <2>5, <3>1, <4>1, <4>2
    <3> QED
      BY <3>1
  <2>7. /\ started'[a] = value
        /\ \A b \in Caller \ {a} : started'[b] = started[b]
    BY <2>1 DEF TypeOK
  <2>8. \A b \in Caller : b \in Granted' <=> b \in Granted
    BY <1>2, <2>2, <2>6, <2>7 DEF Granted
  <2>9. Granted' = Granted
    BY <2>8 DEF Granted
  <2> QED
    BY <1>1, <2>3, <2>4, <2>9, PhaseMoves
<1>5. CASE GetSession(a)
  <2> DEFINE sess == sessionMap[DeviceOfCall(a)]
  <2>1. /\ pc[a] = "awake" /\ result[a] = None /\ result'[a] = sess /\ started' = started
        /\ pc'[a] = IF sess # None THEN "done" ELSE "closing"
    BY <1>0, <1>5 DEF GetSession, FreshInv, SessionsOwn
  <2>2. PhaseOf(a) = "running"
    BY <2>1 DEF PhaseOf
  <2>3. Granted' = Granted
    BY <1>2, <2>1 DEF Granted
  <2>4. CASE sess = None
    <3>1. PhaseOf(a)' = "failure"
      BY <2>1, <2>4 DEF PhaseOf
    <3> QED
      BY <1>1, <2>2, <2>3, <3>1, PhaseMoves
  <2>5. CASE sess # None
    <3>1. IsOwn(sess, a) /\ started[a] # None
      BY <2>1, <2>5 DEF FreshInv, SessionsOwn, DeviceOfCall, TypeOK, LocalsOK
    <3>2. a \in Granted
      BY <3>1 DEF Granted, IsOwn
    <3>3. PhaseOf(a)' = "success"
      BY <2>1, <2>5 DEF PhaseOf
    <3> QED
      BY <1>1, <2>2, <2>3, <3>2, <3>3, PhaseMoves
  <2> QED
    BY <2>4, <2>5
<1>6. CASE ~StartAccessAuth(a) /\ ~GetStartInfo(a) /\ ~GetSession(a)
  <2>1. /\ UNCHANGED <<result, started>> /\ pc[a] \notin {"idle", "done"}
        /\ pc'[a] # "idle"
        /\ pc[a] = "closing" => pc'[a] = "done"
    BY <1>0, <1>6 DEF CallerStep, CallerFault, ResetSession, ResetLatch, CreateChannel,
        CreateChannelFails, SendRequest, SendFails, GetLatch, Awake, Timeout, Interrupted, Close
  <2>2. result[a] = None
    BY <2>1 DEF FreshInv, SessionsOwn
  <2>3. PhaseOf(a)' = PhaseOf(a) \/ (PhaseOf(a) = "running" /\ PhaseOf(a)' = "failure")
    BY <2>1, <2>2 DEF PhaseOf
  <2>4. Granted' = Granted
    BY <1>2, <2>1 DEF Granted
  <2> QED
    BY <1>1, <2>3, <2>4, PhaseMoves
<1> QED
  BY <1>3, <1>4, <1>5, <1>6

LEMMA ServerPromise ==
    ASSUME TypeOK, FreshInv, ServerNext, UNCHANGED callerVars
    PROVE  [Promise!Next]_(Promise!vars)
<1>1. Phase' = Phase /\ started' = started
  BY DEF callerVars, Phase, PhaseOf
<1>2. ASSUME Granted' = Granted
      PROVE  [Promise!Next]_(Promise!vars)
  BY <1>1, <1>2 DEF Promise!vars, Phase, Granted
<1>3. CASE established' = established
  BY <1>1, <1>2, <1>3 DEF Granted
<1>4. ASSUME NEW m \in wire, AcceptClientProof(m)
      PROVE  [Promise!Next]_(Promise!vars)
  <2>1. m.proof \in Transcript /\ m.proof.dev \in Device
    BY <1>4, WireType, TranscriptType DEF AcceptClientProof
  <2>2. established' = established \cup {m.proof} /\ CheckClientAuthentication(m.proof)
    BY <1>4 DEF AcceptClientProof
  <2>3. PICK x \in Caller : started[x] # None /\ started[x].cn = m.proof.cn
    <3>1. PICK d \in Device : d = m.proof.dev
      BY <2>1
    <3>2. authAssist[d] # None /\ authAssist[d].cn = m.proof.cn
      BY <2>2, <3>1 DEF CheckClientAuthentication
    <3>3. Begun(d, m.proof.cn)
      BY <3>2 DEF FreshInv, ServerFresh
    <3> QED
      BY <3>3 DEF Begun
  <2>4. \A b \in Caller : b \in Granted' <=> b \in Granted \/ b = x
    BY <1>1, <2>2, <2>3 DEF Granted, FreshInv, StartsFresh
  <2>5. Granted' = Granted \cup {x}
    BY <2>4 DEF Granted
  <2>6. CASE x \in Granted
    BY <1>2, <2>5, <2>6
  <2>7. CASE x \notin Granted
    <3>1. result[x] = None /\ pc[x] # "idle"
      BY <2>3, <2>7 DEF Granted, FreshInv, SessionsOwn, IsOwn, StartsFresh
    <3>2. PhaseOf(x) \in {"running", "failure"}
      BY <3>1 DEF PhaseOf
    <3>3. Phase[x] \in {"running", "failure"}
      BY <3>2 DEF Phase
    <3> QED
      BY <1>1, <2>5, <2>7, <3>3 DEF Promise!Next, Promise!Grant, Phase, Granted
  <2> QED
    BY <2>6, <2>7
<1> QED
  BY <1>3, <1>4, ServerMaps DEF TypeOK

LEMMA PromiseStep ==
    ASSUME TypeOK, FreshInv, [Next]_vars
    PROVE  [Promise!Next]_(Promise!vars)
<1>1. ASSUME UNCHANGED <<pc, started, result, established>>
      PROVE  [Promise!Next]_(Promise!vars)
  BY <1>1 DEF Promise!vars, PhaseOf
<1>2. CASE UNCHANGED vars
  BY <1>1, <1>2 DEF vars, serverVars, callerVars
<1>3. ASSUME NEW a \in Caller, StartAccessAuth(a) \/ CallerStep(a) \/ CallerFault(a),
             UNCHANGED serverVars
      PROVE  [Promise!Next]_(Promise!vars)
  BY <1>3, CallerPromise
<1>4. ASSUME NEW c \in Caller, HandlerStep(c), UNCHANGED serverVars
      PROVE  [Promise!Next]_(Promise!vars)
  <2>1. UNCHANGED callerVars
    BY <1>4 DEF HandlerStep, IgnoreFailure, SendProof, CheckServerProof, GetDeviceID, PutSession,
        CountDown
  <2> QED
    BY <1>1, <1>4, <2>1 DEF callerVars, serverVars
<1>5. CASE ServerNext /\ UNCHANGED <<tokenVars, mapVars, callerVars, handlerVars>>
  BY <1>5, ServerPromise
<1>6. CASE Exchange
  BY <1>1, <1>6 DEF Exchange, callerVars, serverVars
<1> QED
  BY <1>2, <1>3, <1>4, <1>5, <1>6 DEF Next, ClientNext

(* With a token the authentication keeps the promise of MutualAuth: an attempt  *)
(* succeeds only with a session the server has established for its own nonce,   *)
(* and the server establishes none for a nonce nobody has gone on with.         *)
THEOREM Implementation ==
    ASSUME OnlyOneClient
    PROVE  Spec => ImplementsMutualAuth
<1>1. TypeOK /\ FreshInv /\ [Next]_vars => [Promise!Next]_(Promise!vars)
  BY PromiseStep
<1> QED
  BY <1>1, InitPromise, TypeCorrect, FreshCorrect, PTL
  DEF Spec, ImplementsMutualAuth, Promise!Spec

================================================================================
