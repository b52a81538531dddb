----------------------------- MODULE HidTransProofs ----------------------------
(***************************************************************************)
(* Type correctness of HidTrans, that no path of HidTransSendRec leaves a   *)
(* token open, that what it returns is an answer to its request, and that   *)
(* the transport implements TokenLink, for any number of calls, threads and *)
(* tokens and for any lengths.                                              *)
(***************************************************************************)
EXTENDS HidTrans, SequenceTheorems, FiniteSetTheorems, TLAPS

\* A multiple of a length grows with its factor.
LEMMA Monotone ==
    ASSUME NEW i \in Int, NEW j \in Int, i <= j, NEW p \in Nat
    PROVE  i * p <= j * p
<1>1. (j - i) * p >= 0
  OBVIOUS
<1>2. (j - i) * p = j * p - i * p
  OBVIOUS
<1>. QED  BY <1>1, <1>2

\* An answer is handed over from its beginning to its end, without a hole.
LEMMA AnswerRight ==
    ASSUME NEW c \in Call, NEW ok \in BOOLEAN, NEW a, a = Answer(c, ok)
    PROVE  /\ a \in Seq(Packet) /\ a # <<>>
           /\ \A i \in 1..Len(a) : a[i].of = c /\ a[i].ok = ok /\ (a[i].at = 0 <=> i = 1)
           /\ Linked(a)
           /\ EndsAnswer(a[Len(a)])
<1>. DEFINE t == Total(c)
            p == PacketLen
            n == (t + p - 1) \div p
<1>1. t \in Nat /\ t > 0 /\ p \in Nat /\ p > 0
  BY LengthAssumption, CallAssumption DEF ArgType, Total
<1>2. a = [i \in 1..n |-> [of |-> c, at |-> (i - 1) * p, len |-> Least(p, t - (i - 1) * p),
                           ok |-> ok]]
  BY DEF Answer
<1>. HIDE DEF t, p
<1>3. n \in Nat /\ n * p <= t + p - 1 /\ t + p - 1 < n * p + p
  BY <1>1
<1>. HIDE DEF n
<1>4. n > 0 /\ (n - 1) * p < t /\ t <= (n - 1) * p + p
  <2>1. n # 0
    BY <1>1, <1>3
  <2>2. (n - 1) * p = n * p - p
    BY <1>1, <1>3
  <2>. QED  BY <1>1, <1>3, <2>1, <2>2
<1>5. ASSUME NEW i \in 1..n
      PROVE  /\ i - 1 \in Nat /\ (i - 1) * p \in Nat /\ t - (i - 1) * p \in Nat
             /\ (i - 1) * p = 0 <=> i = 1
             /\ i < n => (i - 1) * p + p = i * p /\ p < t - (i - 1) * p
  <2>1. i - 1 \in Nat /\ i \in Nat /\ n \in Nat
    BY <1>3
  <2>2. (i - 1) * p \in Nat /\ i * p \in Nat /\ (n - 1) * p \in Nat
    BY <1>1, <1>4, <2>1
  <2>3. (i - 1) * p <= (n - 1) * p
    BY <1>1, <1>3, <2>1, Monotone
  <2>4. i # 1 => 1 * p <= (i - 1) * p
    <3>1. i # 1 => 1 <= i - 1
      BY <2>1
    <3>. QED  BY <1>1, <2>1, <3>1, Monotone
  <2>5. (i - 1) * p + p = i * p
    BY <1>1, <2>1
  <2>6. i < n => i * p <= (n - 1) * p
    <3>1. i < n => i <= n - 1
      BY <2>1
    <3>. QED  BY <1>1, <2>1, <3>1, Monotone
  <2>7. i = 1 => (i - 1) * p = 0
    BY <1>1
  <2>. QED  BY <1>1, <1>4, <2>1, <2>2, <2>3, <2>4, <2>5, <2>6, <2>7
<1>6. ASSUME NEW i \in 1..n
      PROVE  /\ a[i] \in Packet /\ a[i].of = c /\ a[i].ok = ok
             /\ a[i].at = (i - 1) * p /\ a[i].len = Least(p, t - (i - 1) * p)
  <2>1. Least(p, t - (i - 1) * p) \in Nat
    BY <1>1, <1>5 DEF Least
  <2>. QED  BY <1>2, <1>5, <2>1 DEF Packet
<1>7. a \in [1..n -> Packet]
  BY <1>2, <1>6
<1>8. a \in Seq(Packet) /\ a # <<>> /\ Len(a) = n
  BY <1>3, <1>4, <1>7
<1>9. \A i \in 1..Len(a) : a[i].of = c /\ a[i].ok = ok /\ (a[i].at = 0 <=> i = 1)
  BY <1>5, <1>6, <1>8
<1>10. Linked(a)
  <2>. SUFFICES ASSUME NEW i \in 1..(Len(a) - 1) PROVE Continues(a[i], a[i + 1])
    BY DEF Linked, Follows
  <2>1. i \in 1..n /\ i + 1 \in 1..n /\ i < n /\ (i + 1) - 1 = i
    BY <1>3, <1>8
  <2>2. a[i].at + a[i].len = (i - 1) * p + p
    BY <1>1, <1>5, <1>6, <2>1 DEF Least
  <2>3. a[i + 1].at = i * p
    BY <1>6, <2>1
  <2>. QED  BY <1>5, <1>8, <1>9, <2>1, <2>2, <2>3 DEF Continues
<1>11. EndsAnswer(a[Len(a)])
  <2>1. n \in 1..n
    BY <1>3, <1>4
  <2>2. a[n].at = (n - 1) * p /\ a[n].len = Least(p, t - (n - 1) * p) /\ a[n].of = c
    BY <1>6, <2>1
  <2>3. Least(p, t - (n - 1) * p) = t - (n - 1) * p
    BY <1>1, <1>4, <1>5, <2>1 DEF Least
  <2>. QED  BY <1>1, <1>5, <1>8, <2>1, <2>2, <2>3 DEF EndsAnswer, t
<1>. QED  BY <1>8, <1>9, <1>10, <1>11

LEMMA AnswerType ==
    ASSUME NEW c \in Call, NEW ok \in BOOLEAN
    PROVE  Answer(c, ok) \in Seq(Packet)
  BY AnswerRight

--------------------------------------------------------------------------------
\* Taking a packet off a sequence, and putting one on it.
LEMMA PacketTaken ==
    ASSUME NEW q \in Seq(Packet), q # <<>>
    PROVE  Head(q) \in Packet /\ Tail(q) \in Seq(Packet)
  BY HeadTailProperties

LEMMA PacketAdded ==
    ASSUME NEW q \in Seq(Packet), NEW p \in Packet
    PROVE  Append(q, p) \in Seq(Packet) /\ Append(q, p) # <<>>
  BY AppendProperties

LEMMA AttachType ==
    ASSUME NEW q \in Seq(Packet), NEW p \in Packet
    PROVE  Attach(q, p) \in Seq(Packet)
  BY PacketAdded, PacketTaken DEF Attach

LEMMA TypeInit == Init => TypeOK
<1>. SUFFICES ASSUME Init PROVE TypeOK
  OBVIOUS
<1>1. <<>> \in Seq(Packet) /\ <<>> \in Seq(Call)
  OBVIOUS
<1>2. HidTypeOK
  BY <1>1 DEF Init, HidInit, HidTypeOK
<1>3. CallTypeOK
  BY <1>1 DEF Init, CallTypeOK, Stage, Result, NoDevice
<1>4. \A c \in Call : LocalOK(c)
  BY LengthAssumption DEF Init, LocalOK, HandleOpen
<1>. QED  BY <1>2, <1>3, <1>4 DEF TypeOK

\* The tokens and the read threads.
LEMMA TypeHid ==
    ASSUME TypeOK, NEW d \in Device, HidStep(d), UNCHANGED callVars
    PROVE  TypeOK'
<1>1. HidTypeOK'
  <2>0. HidTypeOK
    BY DEF TypeOK
  <2>. USE <2>0 DEF HidTypeOK
  <2>1. CASE ReadCallback(d)
    <3>1. Head(fifo[d]) \in Packet /\ Tail(fifo[d]) \in Seq(Packet)
      BY <2>1 DEF ReadCallback
    <3>. QED  BY <2>1, <3>1, AttachType DEF ReadCallback
  <2>2. CASE Disconnected(d)
    BY <2>2 DEF Disconnected
  <2>3. CASE Execute(d)
    <3>1. Head(pending[d]) \in Call /\ Tail(pending[d]) \in Seq(Call)
      BY <2>3 DEF Execute
    <3>2. PICK ok \in BOOLEAN :
            /\ executed' = [executed EXCEPT ![Head(pending[d])] = IF ok THEN "ok" ELSE "refused"]
            /\ fifo' = [fifo EXCEPT ![d] = @ \o Answer(Head(pending[d]), ok)]
      BY <2>3 DEF Execute
    <3>3. Answer(Head(pending[d]), ok) \in Seq(Packet)
      BY <3>1, AnswerType
    <3>4. fifo[d] \o Answer(Head(pending[d]), ok) \in Seq(Packet)
      BY <3>3
    <3>5. /\ fifo' \in [Device -> Seq(Packet)]
          /\ executed' \in [Call -> {"no", "ok", "refused"}]
      BY <3>1, <3>2, <3>4
    <3>6. pending' \in [Device -> Seq(Call)]
      BY <2>3, <3>1 DEF Execute
    <3>7. UNCHANGED <<context, orphans, claim, queue, shutdown, plugged>>
      BY <2>3 DEF Execute
    <3>. QED  BY <3>5, <3>6, <3>7
  <2>4. CASE Unplug(d)
    BY <2>4 DEF Unplug
  <2>5. CASE Plug(d)
    BY <2>5 DEF Plug
  <2>. QED  BY <2>1, <2>2, <2>3, <2>4, <2>5 DEF HidStep, ReadThread
<1>. QED  BY <1>1 DEF TypeOK, CallTypeOK, LocalOK, callVars

\* A step that leaves hidapi and the tokens alone.
LEMMA HidSame == HidTypeOK /\ UNCHANGED hidVars => HidTypeOK'
  BY DEF HidTypeOK, hidVars

\* A call that changes none of its own variables but pc and result.
LEMMA TypeGo ==
    ASSUME TypeOK, NEW c \in Call, NEW from \in Stage, NEW to \in Stage,
           NEW r \in Result, Go(c, from, to, r), UNCHANGED <<opened, buf, nRecvCount>>,
           HidTypeOK',
           to \in HandleOpen => from \in HandleOpen,
           to = "check" => buf[c] # <<>>
    PROVE  TypeOK'
<1>1. CallTypeOK'
  BY DEF Go, TypeOK, CallTypeOK
<1>2. ASSUME NEW b \in Call PROVE LocalOK(b)'
  BY DEF Go, TypeOK, CallTypeOK, LocalOK
<1>. QED  BY <1>1, <1>2 DEF TypeOK

\* The calls.
LEMMA TypeCall ==
    ASSUME TypeOK, NEW c \in Call, Start(c) \/ CallStep(c)
    PROVE  TypeOK'
<1>0. /\ HidTypeOK /\ CallTypeOK /\ LocalOK(c)
      /\ pc[c] \in Stage /\ result[c] \in Result
  BY DEF TypeOK, CallTypeOK
<1>. USE DEF Stage, Result, HandleOpen
<1>1. CASE Start(c)
  <2>1. HidTypeOK' /\ UNCHANGED <<opened, buf, nRecvCount>>
    BY <1>0, <1>1, HidSame DEF Start, CallTypeOK
  <2>2. Go(c, "idle", "done", "ARG") \/ Go(c, "idle", "open", "SUCCESS")
    BY <1>1 DEF Start
  <2>. QED  BY <2>1, <2>2, TypeGo
<1>2. CASE OpenDevice(c)
  <2>1. PICK d \in At(Arg[c].index) : OpenPath(c, d) /\ opened' = [opened EXCEPT ![c] = d]
    BY <1>2 DEF OpenDevice
  <2>2. d \in Device
    BY <1>0, <2>1 DEF At, HidTypeOK
  <2>3. HidTypeOK'
    <3>1. <<>> \in Seq(Packet)
      OBVIOUS
    <3>. QED  BY <1>0, <2>1, <2>2, <3>1 DEF OpenPath, HidTypeOK
  <2>4. CallTypeOK'
    BY <1>0, <1>2, <2>1, <2>2 DEF OpenDevice, Go, CallTypeOK
  <2>5. ASSUME NEW b \in Call PROVE LocalOK(b)'
    BY <1>2, <2>1, <2>2 DEF OpenDevice, Go, TypeOK, CallTypeOK, LocalOK
  <2>. QED  BY <2>3, <2>4, <2>5 DEF TypeOK
<1>3. CASE DeviceNotFound(c) \/ InitFails(c) \/ OpenFails(c)
  <2>1. HidTypeOK'
    BY <1>0, <1>3 DEF DeviceNotFound, InitFails, OpenFails, InitOnly, hidVars, HidTypeOK
  <2>. QED  BY <1>0, <1>3, <2>1, TypeGo DEF DeviceNotFound, InitFails, OpenFails, CallTypeOK
<1>4. CASE SendPDU(c)
  <2>0. pc[c] = "send"
    BY <1>4 DEF SendPDU, Go
  <2>1. opened[c] \in Device
    BY <1>0, <2>0 DEF LocalOK
  <2>2. Append(pending[opened[c]], c) \in Seq(Call)
    BY <1>0, <2>1, AppendProperties DEF HidTypeOK
  <2>3. HidTypeOK'
    BY <1>0, <1>4, <2>1, <2>2 DEF SendPDU, Write, HidTypeOK
  <2>4. UNCHANGED <<opened, buf, nRecvCount>>
    BY <1>0, <1>4 DEF SendPDU, CallTypeOK
  <2>5. Go(c, "send", "recv", "SUCCESS")
    BY <1>4 DEF SendPDU
  <2>. QED  BY <2>3, <2>4, <2>5, TypeGo
<1>5. CASE SendFails(c) \/ SendCutShort(c)
  <2>1. HidTypeOK' /\ UNCHANGED <<opened, buf, nRecvCount>>
    BY <1>0, <1>5, HidSame DEF SendFails, SendCutShort, CallTypeOK
  <2>2. Go(c, "send", "recv", "SUCCESS") \/ Go(c, "send", "close", "TRANSFER")
    BY <1>5 DEF SendFails, SendCutShort
  <2>. QED  BY <2>1, <2>2, TypeGo
<1>6. CASE ReadReport(c)
  <2>1. opened[c] \in Device /\ queue[opened[c]] \in Seq(Packet) /\ queue[opened[c]] # <<>>
    BY <1>0, <1>6 DEF ReadReport, HidTypeOK, LocalOK
  <2>2. Head(queue[opened[c]]) \in Packet /\ Tail(queue[opened[c]]) \in Seq(Packet)
    BY <2>1, PacketTaken
  <2>3. nRecvCount[c] + Head(queue[opened[c]]).len \in 0..TransLen
    <3>1. Head(queue[opened[c]]).len \in Nat /\ nRecvCount[c] \in Nat
      BY <1>0, <2>2 DEF Packet, CallTypeOK
    <3>2. nRecvCount[c] + Head(queue[opened[c]]).len <= TransLen
      BY <1>6 DEF ReadReport
    <3>. QED  BY <3>1, <3>2
  <2>4. buf[c] \in Seq(Packet)
    BY <1>0 DEF CallTypeOK
  <2>5. /\ Append(buf[c], Head(queue[opened[c]])) \in Seq(Packet)
        /\ Append(buf[c], Head(queue[opened[c]])) # <<>>
    BY <2>2, <2>4, PacketAdded
  <2>6. HidTypeOK'
    BY <1>0, <1>6, <2>1, <2>2 DEF ReadReport, ReturnData, HidTypeOK
  <2>7. CallTypeOK'
    BY <1>0, <1>6, <2>3, <2>5 DEF ReadReport, Go, CallTypeOK
  <2>8. ASSUME NEW b \in Call PROVE LocalOK(b)'
    BY <1>0, <1>6, <2>1, <2>3, <2>5 DEF ReadReport, Go, TypeOK, CallTypeOK, LocalOK
  <2>. QED  BY <2>6, <2>7, <2>8 DEF TypeOK
<1>7. CASE ReadTooMuch(c)
  <2>0. opened[c] \in Device /\ queue[opened[c]] \in Seq(Packet) /\ queue[opened[c]] # <<>>
    BY <1>0, <1>7 DEF ReadTooMuch, Go, HidTypeOK, LocalOK
  <2>1. Tail(queue[opened[c]]) \in Seq(Packet)
    BY <2>0, HeadTailProperties
  <2>2. HidTypeOK'
    BY <1>0, <1>7, <2>1 DEF ReadTooMuch, ReturnData, HidTypeOK
  <2>. QED  BY <1>0, <1>7, <2>2, TypeGo DEF ReadTooMuch, CallTypeOK
<1>8. CASE ReadTimesOut(c)
  <2>1. nRecvCount[c] \in Nat /\ HeadLen \in Nat /\ HeadLen > 0
    BY <1>0, LengthAssumption DEF CallTypeOK
  <2>2. nRecvCount[c] >= HeadLen => buf[c] # <<>>
    BY <1>0, <2>1 DEF LocalOK
  <2>3. HidTypeOK' /\ UNCHANGED <<opened, buf, nRecvCount>>
    BY <1>0, <1>8 DEF ReadTimesOut, hidVars, HidTypeOK, CallTypeOK
  <2>4. CASE nRecvCount[c] < HeadLen
    BY <1>8, <2>3, <2>4, TypeGo DEF ReadTimesOut
  <2>5. CASE ~(nRecvCount[c] < HeadLen)
    BY <1>8, <2>1, <2>2, <2>3, <2>5, TypeGo DEF ReadTimesOut
  <2>. QED  BY <2>4, <2>5
<1>9. CASE ReadFails(c)
  <2>1. HidTypeOK' /\ UNCHANGED <<opened, buf, nRecvCount>>
    BY <1>0, <1>9 DEF ReadFails, hidVars, HidTypeOK, CallTypeOK
  <2>. QED  BY <1>9, <2>1, TypeGo DEF ReadFails
<1>10. CASE CheckAnswer(c) \/ CheckGarbage(c)
  <2>1. HidTypeOK' /\ UNCHANGED <<opened, buf, nRecvCount>>
    BY <1>0, <1>10 DEF CheckAnswer, CheckGarbage, hidVars, HidTypeOK, CallTypeOK
  <2>2. PICK r \in Result : Go(c, "check", "close", r)
    BY <1>10 DEF CheckAnswer, CheckGarbage, Verdict
  <2>. QED  BY <2>1, <2>2, TypeGo
<1>11. CASE CloseDevice(c)
  <2>0. opened[c] \in Device /\ <<>> \in Seq(Packet)
    BY <1>0, <1>11 DEF CloseDevice, Go, LocalOK
  <2>1. HidTypeOK'
    BY <1>0, <1>11, <2>0 DEF CloseDevice, Close, HidTypeOK
  <2>. QED  BY <1>0, <1>11, <2>1, TypeGo DEF CloseDevice, CallTypeOK
<1>12. CASE ExitHid(c)
  <2>1. HidTypeOK'
    <3>1. {claim[d] : d \in {e \in Device : claim[e] # None}} \subseteq Call
      BY <1>0 DEF HidTypeOK
    <3>. QED  BY <1>0, <1>12, <3>1 DEF ExitHid, Exit, HidTypeOK
  <2>. QED  BY <1>0, <1>12, <2>1, TypeGo DEF ExitHid, CallTypeOK
<1>13. CASE UseAfterExit(c)
  <2>1. HidTypeOK' /\ UNCHANGED <<opened, buf, nRecvCount>>
    BY <1>0, <1>13 DEF UseAfterExit, hidVars, HidTypeOK, CallTypeOK
  <2>. QED  BY <1>0, <1>13, <2>1, TypeGo DEF UseAfterExit
<1>. QED  BY <1>1, <1>2, <1>3, <1>4, <1>5, <1>6, <1>7, <1>8, <1>9, <1>10, <1>11, <1>12,
             <1>13 DEF CallStep

(* TypeOK is an invariant: lengths stay within the buffer, and no call checks   *)
(* an empty one or uses a token it has not opened (HidTrans.c).                 *)
THEOREM HidTypeCorrect == Spec => []TypeOK
<1>1. Init => TypeOK
  BY TypeInit
<1>2. TypeOK /\ [Next]_vars => TypeOK'
  <2>. SUFFICES ASSUME TypeOK, [Next]_vars
                PROVE  TypeOK'
    OBVIOUS
  <2>1. CASE Next
    <3>1. CASE GetCount
      BY <3>1 DEF GetCount, InitOnly, TypeOK, HidTypeOK, CallTypeOK, LocalOK, callVars
    <3>. QED  BY <2>1, <3>1, TypeHid, TypeCall DEF Next
  <2>2. CASE UNCHANGED vars
    BY <2>2 DEF TypeOK, HidTypeOK, CallTypeOK, LocalOK, vars, hidVars, callVars
  <2>. QED  BY <2>1, <2>2
<1>. QED  BY <1>1, <1>2, PTL DEF Spec

--------------------------------------------------------------------------------
\* One call moves; those that have claimed a token stay where they are, and if it
\* has one itself, it keeps the handle or goes on to close it.
LEMMA ReleasedAlong ==
    ASSUME TypeOK, HandleReleased, NEW c \in Call, NEW from \in Stage, NEW to \in Stage,
           NEW r, Go(c, from, to, r), UNCHANGED <<claim, opened>>,
           from \in HandleOpen \cup {"crashed"} => to \in HandleOpen \cup {"crashed"}
    PROVE  HandleReleased'
  BY DEF HandleReleased, Go, TypeOK, CallTypeOK, HidTypeOK

LEMMA ReleasedCall ==
    ASSUME TypeOK, HandleReleased, NEW c \in Call, Start(c) \/ CallStep(c)
    PROVE  HandleReleased'
<1>0. pc \in [Call -> Stage] /\ claim \in [Device -> Call \cup {None}]
  BY DEF TypeOK, CallTypeOK, HidTypeOK
<1>. USE DEF Stage, HandleOpen
<1>1. CASE Start(c)
  BY <1>1, ReleasedAlong DEF Start, hidVars
<1>2. CASE OpenDevice(c)
  <2>1. PICK d \in At(Arg[c].index) : OpenPath(c, d) /\ opened' = [opened EXCEPT ![c] = d]
    BY <1>2 DEF OpenDevice
  <2>2. d \in Device /\ opened \in [Call -> Device \cup {NoDevice}]
    BY <2>1 DEF At, TypeOK, HidTypeOK, CallTypeOK
  <2>3. pc[c] = "open" /\ pc' = [pc EXCEPT ![c] = "send"]
    BY <1>2 DEF OpenDevice, Go
  <2>. QED  BY <1>0, <2>1, <2>2, <2>3 DEF OpenPath, HandleReleased
<1>3. CASE DeviceNotFound(c) \/ InitFails(c) \/ OpenFails(c)
  <2>1. PICK r : Go(c, "open", "done", r)
    BY <1>3 DEF DeviceNotFound, InitFails, OpenFails
  <2>2. UNCHANGED <<claim, opened>>
    BY <1>3 DEF DeviceNotFound, InitFails, OpenFails, InitOnly, hidVars
  <2>. QED  BY <2>1, <2>2, ReleasedAlong
<1>4. CASE SendPDU(c) \/ SendFails(c) \/ SendCutShort(c)
  <2>1. PICK to \in {"recv", "close"}, r \in {"SUCCESS", "TRANSFER"} : Go(c, "send", to, r)
    BY <1>4 DEF SendPDU, SendFails, SendCutShort
  <2>2. UNCHANGED <<claim, opened>>
    BY <1>4 DEF SendPDU, SendFails, SendCutShort, Write, hidVars
  <2>. QED  BY <2>1, <2>2, ReleasedAlong
<1>5. CASE ReadReport(c) \/ ReadTooMuch(c) \/ ReadTimesOut(c) \/ ReadFails(c)
  <2>1. PICK to \in {"recv", "check", "close", "crashed"},
            r \in {"SUCCESS", "ARG", "TRANSFER"} : Go(c, "recv", to, r)
    BY <1>5 DEF ReadReport, ReadTooMuch, ReadTimesOut, ReadFails
  <2>2. UNCHANGED <<claim, opened>>
    BY <1>5 DEF ReadReport, ReadTooMuch, ReadTimesOut, ReadFails, ReturnData, hidVars
  <2>. QED  BY <2>1, <2>2, ReleasedAlong
<1>6. CASE CheckAnswer(c) \/ CheckGarbage(c)
  <2>1. PICK r : Go(c, "check", "close", r)
    BY <1>6 DEF CheckAnswer, CheckGarbage
  <2>2. UNCHANGED <<claim, opened>>
    BY <1>6 DEF CheckAnswer, CheckGarbage, hidVars
  <2>. QED  BY <2>1, <2>2, ReleasedAlong
<1>7. CASE CloseDevice(c)
  <2>1. pc' = [pc EXCEPT ![c] = "exit"] /\ UNCHANGED opened
    BY <1>7 DEF CloseDevice, Go
  <2>2. claim' = [claim EXCEPT ![opened[c]] = None]
    BY <1>7 DEF CloseDevice, Close
  <2>3. ASSUME NEW d \in Device, claim'[d] # None
        PROVE  pc'[claim'[d]] \in HandleOpen \cup {"crashed"} /\ opened'[claim'[d]] = d
    <3>1. d # opened[c] /\ claim'[d] = claim[d] /\ claim[d] \in Call
      BY <1>0, <2>2, <2>3
    <3>2. pc[claim[d]] \in HandleOpen \cup {"crashed"} /\ opened[claim[d]] = d
      BY <2>3, <3>1 DEF HandleReleased
    <3>3. claim[d] # c /\ pc'[claim[d]] = pc[claim[d]]
      BY <1>0, <2>1, <3>1, <3>2
    <3>. QED  BY <2>1, <3>1, <3>2, <3>3
  <2>. QED  BY <2>3 DEF HandleReleased
<1>8. CASE ExitHid(c)
  BY <1>8, ReleasedAlong DEF ExitHid, Exit
<1>9. CASE UseAfterExit(c)
  BY <1>0, <1>9, ReleasedAlong DEF UseAfterExit, hidVars
<1>. QED  BY <1>1, <1>2, <1>3, <1>4, <1>5, <1>6, <1>7, <1>8, <1>9 DEF CallStep

(* Only a call in progress holds a token, and only the one it has opened: every *)
(* path of HidTransSendRec closes what HidTransOpenDevide has opened.           *)
THEOREM NoHandleLeaks == Spec => []HandleReleased
<1>1. Init => HandleReleased
  BY DEF Init, HidInit, HandleReleased
<1>2. TypeOK /\ HandleReleased /\ [Next]_vars => HandleReleased'
  <2>. SUFFICES ASSUME TypeOK, HandleReleased, [Next]_vars
                PROVE  HandleReleased'
    OBVIOUS
  <2>1. CASE \E c \in Call : Start(c) \/ CallStep(c)
    BY <2>1, ReleasedCall
  <2>2. CASE \E d \in Device : HidStep(d) /\ UNCHANGED callVars
    <3>1. UNCHANGED <<claim, pc, opened>>
      BY <2>2 DEF HidStep, ReadThread, ReadCallback, Disconnected, Execute, Unplug, Plug,
                  callVars
    <3>. QED  BY <3>1 DEF HandleReleased
  <2>3. CASE UNCHANGED vars
    BY <2>3 DEF HandleReleased, vars, hidVars, callVars
  <2>4. CASE GetCount
    BY <2>4 DEF GetCount, InitOnly, HandleReleased, callVars
  <2>. QED  BY <2>1, <2>2, <2>3, <2>4 DEF Next
<1>. QED  BY <1>1, <1>2, HidTypeCorrect, PTL DEF Spec

--------------------------------------------------------------------------------
(* What lies between a token and the call that reads from it, as a sequence.   *)

\* Moving the first packet to the end of what lies before leaves all in place.
LEMMA Moved ==
    ASSUME NEW s \in Seq(Packet), NEW t \in Seq(Packet), t # <<>>
    PROVE  Append(s, Head(t)) \o Tail(t) = s \o t
<1>1. Head(t) \in Packet /\ Tail(t) \in Seq(Packet) /\ <<Head(t)>> \in Seq(Packet)
  BY HeadTailProperties
<1>2. t = <<Head(t)>> \o Tail(t)
  <2>1. Len(t) # 0 /\ Len(Tail(t)) = Len(t) - 1
    BY HeadTailProperties
  <2>2. \A i \in 1..Len(Tail(t)) : Tail(t)[i] = t[i + 1]
    BY HeadTailProperties
  <2>. QED  BY <1>1, <2>1, <2>2
<1>3. Append(s, Head(t)) = s \o <<Head(t)>>
  BY <1>1, AppendIsConcat
<1>4. (s \o <<Head(t)>>) \o Tail(t) = s \o (<<Head(t)>> \o Tail(t))
  BY <1>1, ConcatAssociative
<1>. QED  BY <1>2, <1>3, <1>4

\* Three sequences in a row, whichever two are joined first.
LEMMA ThreeInARow ==
    ASSUME NEW s \in Seq(Packet), NEW t \in Seq(Packet), NEW u \in Seq(Packet)
    PROVE  /\ (s \o t) \o u = s \o (t \o u)
           /\ s \o t \in Seq(Packet) /\ t \o u \in Seq(Packet)
<1>1. (s \o t) \o u = s \o (t \o u)
  BY SMTT(30), ConcatAssociative
<1>2. s \o t \in Seq(Packet) /\ t \o u \in Seq(Packet)
  BY ConcatProperties
<1>. QED  BY <1>1, <1>2

\* The same, with the equation under a name that the provers instantiate.
Flat(s, t, u) == (s \o t) \o u = s \o (t \o u)
LEMMA InARow == \A s, t, u \in Seq(Packet) : Flat(s, t, u)
BY ThreeInARow DEF Flat

\* The first of two sequences in a row.
LEMMA HeadOfConcat ==
    ASSUME NEW s \in Seq(Packet), NEW t \in Seq(Packet), s # <<>>
    PROVE  /\ s \o t \in Seq(Packet) /\ s \o t # <<>>
           /\ Head(s \o t) = Head(s) /\ Tail(s \o t) = Tail(s) \o t
<1>1. /\ s \o t \in Seq(Packet) /\ Len(s \o t) = Len(s) + Len(t)
      /\ \A i \in 1..Len(s) + Len(t) :
            (s \o t)[i] = IF i <= Len(s) THEN s[i] ELSE t[i - Len(s)]
  BY ConcatProperties
<1>2. Len(s) \in Nat /\ Len(s) > 0 /\ Len(t) \in Nat
  OBVIOUS
<1>3. s \o t # <<>> /\ Head(s \o t) = Head(s)
  BY <1>1, <1>2
<1>4. Tail(s \o t) = Tail(s) \o t
  <2>1. /\ Tail(s) \in Seq(Packet) /\ Len(Tail(s)) = Len(s) - 1
        /\ \A i \in 1..Len(s) - 1 : Tail(s)[i] = s[i + 1]
    BY HeadTailProperties
  <2>2. /\ Tail(s \o t) \in Seq(Packet) /\ Len(Tail(s \o t)) = Len(s) + Len(t) - 1
        /\ \A i \in 1..Len(s) + Len(t) - 1 : Tail(s \o t)[i] = (s \o t)[i + 1]
    BY <1>1, <1>3, HeadTailProperties
  <2>3. /\ Tail(s) \o t \in Seq(Packet) /\ Len(Tail(s) \o t) = Len(s) - 1 + Len(t)
        /\ \A i \in 1..Len(s) - 1 + Len(t) :
              (Tail(s) \o t)[i] = IF i <= Len(s) - 1 THEN Tail(s)[i] ELSE t[i - (Len(s) - 1)]
    BY <2>1, ConcatProperties
  <2>4. ASSUME NEW i \in 1..Len(s) + Len(t) - 1
        PROVE  Tail(s \o t)[i] = (Tail(s) \o t)[i]
    <3>1. i + 1 \in 1..Len(s) + Len(t) /\ i \in 1..Len(s) - 1 + Len(t)
      BY <1>2
    <3>2. CASE i <= Len(s) - 1
      BY <1>1, <1>2, <2>1, <2>2, <2>3, <3>1, <3>2
    <3>3. CASE ~(i <= Len(s) - 1)
      <4>1. i - (Len(s) - 1) = (i + 1) - Len(s) /\ ~(i + 1 <= Len(s))
        BY <1>2, <3>3
      <4>. QED  BY <1>1, <1>2, <2>2, <2>3, <3>1, <3>3, <4>1
    <3>. QED  BY <3>2, <3>3
  <2>. QED  BY <1>2, <2>2, <2>3, <2>4, SeqEqual
<1>. QED  BY <1>1, <1>3, <1>4

\* Packets stay linked when those before are gone, ...
LEMMA LinkedRest ==
    ASSUME NEW s \in Seq(Packet), NEW t \in Seq(Packet), Linked(s \o t)
    PROVE  /\ Linked(t)
           /\ t # <<>> => s \o t # <<>> /\ t[Len(t)] = (s \o t)[Len(s \o t)]
<1>1. /\ Len(s) \in Nat /\ Len(t) \in Nat /\ Len(s \o t) = Len(s) + Len(t)
      /\ \A i \in 1..Len(t) : i + Len(s) \in 1..Len(s \o t) /\ (s \o t)[i + Len(s)] = t[i]
  BY ConcatProperties
<1>2. ASSUME NEW i \in 1..(Len(t) - 1) PROVE Follows(t[i], t[i + 1])
  <2>1. i \in 1..Len(t) /\ i + 1 \in 1..Len(t) /\ i + Len(s) \in 1..(Len(s \o t) - 1)
    BY <1>1
  <2>2. (i + 1) + Len(s) = (i + Len(s)) + 1
    BY <1>1
  <2>3. Follows((s \o t)[i + Len(s)], (s \o t)[(i + Len(s)) + 1])
    BY <2>1 DEF Linked
  <2>. QED  BY <1>1, <2>1, <2>2, <2>3
<1>. QED  BY <1>1, <1>2 DEF Linked

\* ... or those after, ...
LEMMA LinkedFirst ==
    ASSUME NEW s \in Seq(Packet), NEW t \in Seq(Packet), Linked(s \o t)
    PROVE  Linked(s)
  BY ConcatProperties DEF Linked

\* ... and when others follow that begin an answer after the end of one.
LEMMA LinkedMore ==
    ASSUME NEW s \in Seq(Packet), NEW t \in Seq(Packet), Linked(s), Linked(t), t # <<>>,
           s # <<>> => EndsAnswer(s[Len(s)]), t[1].at = 0
    PROVE  /\ Linked(s \o t)
           /\ (s \o t)[Len(s \o t)] = t[Len(t)]
<1>1. /\ Len(s) \in Nat /\ Len(t) \in Nat /\ Len(t) > 0 /\ Len(s \o t) = Len(s) + Len(t)
      /\ \A i \in 1..Len(s) + Len(t) :
            (s \o t)[i] = IF i <= Len(s) THEN s[i] ELSE t[i - Len(s)]
  BY ConcatProperties
<1>2. ASSUME NEW i \in 1..(Len(s \o t) - 1)
      PROVE  Follows((s \o t)[i], (s \o t)[i + 1])
  <2>0. i \in 1..Len(s) + Len(t) /\ i + 1 \in 1..Len(s) + Len(t)
    BY <1>1
  <2>1. CASE i < Len(s)
    BY <1>1, <2>0, <2>1 DEF Linked
  <2>2. CASE i = Len(s)
    BY <1>1, <2>0, <2>2 DEF Follows
  <2>3. CASE i > Len(s)
    <3>1. i - Len(s) \in 1..(Len(t) - 1) /\ (i + 1) - Len(s) = (i - Len(s)) + 1
      BY <1>1, <2>3
    <3>2. Follows(t[i - Len(s)], t[(i - Len(s)) + 1])
      BY <3>1 DEF Linked
    <3>. QED  BY <1>1, <2>0, <2>3, <3>1, <3>2
  <2>. QED  BY <1>1, <2>1, <2>2, <2>3
<1>. QED  BY <1>1, <1>2 DEF Linked

\* s is a piece of t.
Within(s, t) == \E k \in Nat : \A i \in 1..Len(s) : i + k \in 1..Len(t) /\ s[i] = t[i + k]

LEMMA WithinItself ==
    ASSUME NEW t \in Seq(Packet)
    PROVE  Within(t, t)
<1>1. \A i \in 1..Len(t) : i + 0 \in 1..Len(t) /\ t[i] = t[i + 0]
  OBVIOUS
<1>. QED  BY <1>1 DEF Within

LEMMA WithinTail ==
    ASSUME NEW t \in Seq(Packet), t # <<>>
    PROVE  Within(Tail(t), t)
<1>1. \A i \in 1..Len(Tail(t)) : i + 1 \in 1..Len(t) /\ Tail(t)[i] = t[i + 1]
  BY HeadTailProperties
<1>. QED  BY <1>1 DEF Within

LEMMA WithinConcat ==
    ASSUME NEW s \in Seq(Packet), NEW t \in Seq(Packet)
    PROVE  Within(s, s \o t) /\ Within(t, s \o t)
<1>1. /\ Len(s) \in Nat /\ Len(t) \in Nat /\ Len(s \o t) = Len(s) + Len(t)
      /\ \A i \in 1..Len(s) + Len(t) :
            (s \o t)[i] = IF i <= Len(s) THEN s[i] ELSE t[i - Len(s)]
  BY ConcatProperties
<1>2. \A i \in 1..Len(s) : i + 0 \in 1..Len(s \o t) /\ s[i] = (s \o t)[i + 0]
  BY <1>1
<1>3. ASSUME NEW i \in 1..Len(t)
      PROVE  i + Len(s) \in 1..Len(s \o t) /\ t[i] = (s \o t)[i + Len(s)]
  <2>1. i + Len(s) \in 1..Len(s) + Len(t) /\ ~(i + Len(s) <= Len(s)) /\ (i + Len(s)) - Len(s) = i
    BY <1>1
  <2>. QED  BY <1>1, <2>1
<1>. QED  BY <1>1, <1>2, <1>3 DEF Within

\* The packets of a token are packets.
LEMMA StreamType ==
    ASSUME TypeOK, NEW d \in Device
    PROVE  /\ queue[d] \in Seq(Packet) /\ fifo[d] \in Seq(Packet)
           /\ Held(d) \in Seq(Packet) /\ Left(d) \in Seq(Packet) /\ Stream(d) \in Seq(Packet)
<1>1. queue[d] \in Seq(Packet) /\ fifo[d] \in Seq(Packet) /\ claim[d] \in Call \cup {None}
  BY DEF TypeOK, HidTypeOK
<1>2. Held(d) \in Seq(Packet)
  BY <1>1 DEF Held, TypeOK, CallTypeOK
<1>3. Left(d) \in Seq(Packet)
  BY <1>1, ConcatProperties DEF Left
<1>. QED  BY <1>1, <1>2, <1>3, ConcatProperties DEF Stream

\* Nobody who has asked is back before that, and what a token did stays done.
AskedStays ==
    \A b \in Call, d \in Device \cup {NoDevice} : Asked(b, d) => Asked(b, d)'

ExecutedStays == \A b \in Call : executed[b] # "no" => executed'[b] = executed[b]

LEMMA OwnedStays ==
    ASSUME AskedStays, ExecutedStays, NEW p \in Packet, NEW d \in Device \cup {NoDevice},
           Owned(p, d)
    PROVE  Owned(p, d)'
  BY DEF Owned, AskedStays, ExecutedStays, Packet

\* One call moves on, and does not go back.
LEMMA AskedGo ==
    ASSUME TypeOK, NEW c \in Call, NEW from, NEW to \in Stage, NEW r, Go(c, from, to, r),
           UNCHANGED opened, to \in {"idle", "open", "send"} => from \in {"idle", "open"}
    PROVE  AskedStays
  BY DEF AskedStays, Asked, Go, TypeOK, CallTypeOK

LEMMA RequestsKept ==
    ASSUME RequestsOnce, AskedStays, UNCHANGED <<pending, executed>>, TypeOK,
           \A b \in Call : pc'[b] \in {"idle", "open", "send"} =>
                              pc[b] \in {"idle", "open", "send"}
    PROVE  RequestsOnce'
<1>1. ASSUME NEW d \in Device, NEW i \in 1..Len(pending[d])
      PROVE  /\ Asked(pending[d][i], d)'
             /\ executed[pending[d][i]] = "no"
             /\ \A j \in 1..Len(pending[d]) : pending[d][j] = pending[d][i] => j = i
  <2>1. pending[d][i] \in Call
    BY DEF TypeOK, HidTypeOK
  <2>. QED  BY <2>1 DEF RequestsOnce, AskedStays, Asked
<1>2. \A b \in Call : pc'[b] \in {"idle", "open", "send"} => executed[b] = "no"
  BY DEF RequestsOnce
<1>. QED  BY <1>1, <1>2 DEF RequestsOnce, Asked

LEMMA PacketsKept ==
    ASSUME TypeOK, TypeOK', PacketsOwned, AskedStays, ExecutedStays,
           \A d \in Device : Within(Left(d)', Left(d)),
           UNCHANGED buf,
           \A c \in Call : buf[c] # <<>> => opened'[c] = opened[c]
    PROVE  PacketsOwned'
<1>1. ASSUME NEW d \in Device, NEW i \in 1..Len(Left(d)') PROVE Owned(Left(d)[i], d)'
  <2>1. PICK k \in Nat : i + k \in 1..Len(Left(d)) /\ Left(d)'[i] = Left(d)[i + k]
    BY DEF Within
  <2>2. PICK p \in Packet : p = Left(d)[i + k]
    BY <2>1, StreamType
  <2>3. Owned(p, d)
    BY <2>1, <2>2 DEF PacketsOwned
  <2>4. Owned(p, d)'
    BY <2>3, OwnedStays
  <2>5. p = Left(d)'[i]
    BY <2>1, <2>2
  <2>. QED  BY <2>4, <2>5
<1>2. ASSUME NEW c \in Call, NEW i \in 1..Len(buf[c]) PROVE Owned(buf[c][i], opened[c])'
  <2>1. buf[c] \in Seq(Packet) /\ opened[c] \in Device \cup {NoDevice}
    BY DEF TypeOK, CallTypeOK
  <2>2. buf[c] # <<>> /\ opened'[c] = opened[c] /\ buf'[c] = buf[c]
    BY <2>1
  <2>3. PICK p \in Packet, d \in Device \cup {NoDevice} : p = buf[c][i] /\ d = opened[c]
    BY <2>1
  <2>4. Owned(p, d)
    BY <2>3 DEF PacketsOwned
  <2>5. Owned(p, d)'
    BY <2>4, OwnedStays
  <2>6. p = buf'[c][i] /\ d = opened'[c]
    BY <2>2, <2>3
  <2>. QED  BY <2>5, <2>6
<1>3. UNCHANGED buf
  OBVIOUS
<1>. QED  BY <1>1, <1>2, <1>3 DEF PacketsOwned

LEMMA FirstsKept ==
    ASSUME TypeOK, FirstsOnce,
           \A d \in Device : Within(Left(d)', Left(d)),
           UNCHANGED buf,
           \A c \in Call : buf[c] # <<>> => opened[c] \in Device /\ opened'[c] = opened[c]
    PROVE  FirstsOnce'
<1>1. ASSUME NEW d \in Device, NEW i \in 1..Len(Left(d)'), NEW j \in 1..Len(Left(d)'),
             Left(d)'[i].at = 0, Left(d)'[j].at = 0, Left(d)'[i].of = Left(d)'[j].of
      PROVE  i = j
  <2>1. PICK k \in Nat : \A n \in 1..Len(Left(d)') :
            n + k \in 1..Len(Left(d)) /\ Left(d)'[n] = Left(d)[n + k]
    BY DEF Within
  <2>2. i + k = j + k
    BY <1>1, <2>1 DEF FirstsOnce
  <2>. QED  BY <2>2
<1>2. ASSUME NEW c \in Call, Begins(c)', NEW i \in 1..Len(Left(opened[c])'),
             Left(opened[c])'[i].at = 0
      PROVE  Left(opened[c])'[i].of # Head(buf'[c]).of
  <2>1. PICK d \in Device : Begins(c) /\ d = opened[c] /\ d = opened'[c]
    BY <1>2 DEF Begins
  <2>2. Left(opened[c])' = Left(d)' /\ Left(opened[c]) = Left(d)
    BY <2>1 DEF Left
  <2>3. Within(Left(d)', Left(d))
    OBVIOUS
  <2>4. PICK k \in Nat : i + k \in 1..Len(Left(d)) /\ Left(d)'[i] = Left(d)[i + k]
    BY <1>2, <2>2, <2>3 DEF Within
  <2>5. Left(d)[i + k].at = 0 => Left(d)[i + k].of # Head(buf[c]).of
    BY <2>1, <2>2, <2>4 DEF FirstsOnce
  <2>. QED  BY <1>2, <2>2, <2>4, <2>5
<1>. QED  BY <1>1, <1>2 DEF FirstsOnce, Begins

LEMMA StreamTypeNext ==
    ASSUME TypeOK', NEW d \in Device
    PROVE  Held(d)' \in Seq(Packet) /\ Left(d)' \in Seq(Packet) /\ Stream(d)' \in Seq(Packet)
<1>1. /\ queue'[d] \in Seq(Packet) /\ fifo'[d] \in Seq(Packet)
      /\ claim'[d] \in Call \cup {None} /\ buf' \in [Call -> Seq(Packet)]
  BY DEF TypeOK, HidTypeOK, CallTypeOK
<1>2. Held(d)' \in Seq(Packet)
  BY <1>1 DEF Held
<1>3. Left(d)' \in Seq(Packet)
  BY <1>1, ConcatProperties DEF Left
<1>. QED  BY <1>2, <1>3, ConcatProperties DEF Stream

LEMMA OrderKept ==
    ASSUME TypeOK, TypeOK', AnswersInOrder, UNCHANGED plugged,
           \A d \in Device : \E s \in Seq(Packet) : Stream(d) = s \o Stream(d)'
    PROVE  AnswersInOrder'
<1>. SUFFICES ASSUME NEW d \in Device
              PROVE  /\ Linked(Stream(d)')
                     /\ d \in plugged /\ Stream(d)' # <<>> =>
                            EndsAnswer(Stream(d)'[Len(Stream(d)')])
  BY DEF AnswersInOrder
<1>1. PICK s \in Seq(Packet) : Stream(d) = s \o Stream(d)'
  BY Zenon
<1>2. PICK t \in Seq(Packet) : t = Stream(d)'
  BY StreamTypeNext
<1>3. Linked(s \o t) /\ (d \in plugged /\ s \o t # <<>> => EndsAnswer((s \o t)[Len(s \o t)]))
  BY <1>1, <1>2 DEF AnswersInOrder
<1>4. /\ Linked(t)
      /\ t # <<>> => s \o t # <<>> /\ t[Len(t)] = (s \o t)[Len(s \o t)]
  BY <1>3, LinkedRest
<1>. QED  BY <1>2, <1>3, <1>4

\* A call that has failed stays so.
FailedStays == \A e \in Call : Failed(e) => Failed(e)' /\ opened'[e] = opened[e]

LEMMA FailureKept ==
    ASSUME TypeOK, FailureFirst, FailedStays,
           \A c \in Call : buf[c] # <<>> => opened'[c] = opened[c],
           \A c \in Call : Begins(c)' => Begins(c) /\ Head(buf'[c]) = Head(buf[c])
    PROVE  FailureFirst'
<1>. SUFFICES ASSUME NEW c \in Call, Begins(c)', Head(buf'[c]).of # c
              PROVE  \E e \in Call : opened'[e] = opened'[c] /\ Failed(e)'
  BY DEF FailureFirst
<1>1. Begins(c) /\ Head(buf[c]).of # c /\ opened'[c] = opened[c]
  BY DEF Begins
<1>2. PICK e \in Call : opened[e] = opened[c] /\ Failed(e)
  BY <1>1 DEF FailureFirst
<1>. QED  BY <1>1, <1>2 DEF FailedStays

\* A token that nobody reads from has nothing in hand.
LEMMA HeldNone ==
    ASSUME NEW d \in Device, claim[d] = None \/ pc[claim[d]] # "recv"
    PROVE  Held(d) = <<>>
  BY DEF Held

LEMMA NoneHeld ==
    ASSUME TypeOK, NEW d \in Device, Held(d) = <<>>
    PROVE  Stream(d) = Left(d)
  BY StreamType, ConcatEmptySeq DEF Stream

\* One call moves on and touches no packet.
LEMMA QuietGo ==
    ASSUME TypeOK, TypeOK', HandleReleased, AnswerInv,
           NEW c \in Call, NEW from \in Stage, NEW to \in Stage, NEW r \in Result,
           Go(c, from, to, r),
           UNCHANGED <<claim, queue, plugged, pending, fifo, executed, opened, buf, nRecvCount>>,
           \A b \in orphans' : \E d \in Device : claim[d] = b,
           to \in HandleOpen \cup {"crashed"} => from \in HandleOpen \cup {"crashed"},
           to \in {"idle", "open", "send"} => from \in {"idle", "open"},
           to = "recv" => from = "send",
           from \in {"exit", "done"} => to \in {"exit", "done"} /\ r = result[c],
           to \in {"close", "exit", "done"} /\ r = "SUCCESS" =>
               /\ Begins(c) /\ Whole(buf[c])
               /\ Arg[Head(buf[c]).of].fun = Arg[c].fun
    PROVE  AnswerInv'
<1>0. /\ pc[c] = from /\ pc' = [pc EXCEPT ![c] = to] /\ result' = [result EXCEPT ![c] = r]
      /\ pc \in [Call -> Stage] /\ result \in [Call -> Result]
      /\ claim \in [Device -> Call \cup {None}]
      /\ opened \in [Call -> Device \cup {NoDevice}]
  BY DEF Go, TypeOK, CallTypeOK, HidTypeOK
<1>1. HandlesHeld'
  <2>1. \A b \in Call : pc'[b] \in HandleOpen \cup {"crashed"} => pc[b] \in HandleOpen \cup {"crashed"}
    BY <1>0
  <2>. QED  BY <2>1 DEF AnswerInv, HandlesHeld
<1>2. AskedStays /\ ExecutedStays
  BY AskedGo DEF ExecutedStays
<1>3. RequestsOnce'
  <2>1. \A b \in Call : pc'[b] \in {"idle", "open", "send"} => pc[b] \in {"idle", "open", "send"}
    BY <1>0
  <2>. QED  BY <1>2, <2>1, RequestsKept DEF AnswerInv
<1>4. \A d \in Device : Left(d)' = Left(d) /\ Within(Left(d)', Left(d))
  BY StreamType, WithinItself DEF Left
<1>5. PacketsOwned'
  BY <1>2, <1>4, PacketsKept DEF AnswerInv
<1>6. FirstsOnce'
  <2>1. \A b \in Call : buf[b] # <<>> => opened[b] \in Device /\ opened'[b] = opened[b]
    BY DEF AnswerInv, GatheredInOrder
  <2>. QED  BY <1>4, <2>1, FirstsKept DEF AnswerInv
<1>7. AnswersInOrder'
  <2>1. ASSUME NEW d \in Device
        PROVE  \E s \in Seq(Packet) : Stream(d) = s \o Stream(d)'
    <3>1. CASE claim[d] = c
      <4>1. Held(d)' = <<>>
        <5>1. CASE to = "recv"
          <6>1. buf[c] = <<>>
            BY <1>0, <5>1 DEF AnswerInv, GatheredInOrder
          <6>. QED  BY <3>1, <6>1 DEF Held
        <5>2. CASE to # "recv"
          BY <1>0, <3>1, <5>2 DEF Held
        <5>. QED  BY <5>1, <5>2
      <4>2. Stream(d)' = Left(d)
        BY <1>4, <4>1, StreamType, ConcatEmptySeq DEF Stream
      <4>. QED  BY <4>2, StreamType DEF Stream
    <3>2. CASE claim[d] # c
      <4>1. Held(d)' = Held(d)
        BY <1>0, <3>2 DEF Held
      <4>2. Stream(d)' = Stream(d)
        BY <1>4, <4>1 DEF Stream
      <4>3. <<>> \in Seq(Packet) /\ Stream(d) = <<>> \o Stream(d)'
        BY <4>2, StreamType, ConcatEmptySeq
      <4>. QED  BY <4>3
    <3>. QED  BY <3>1, <3>2
  <2>. QED  BY <2>1, OrderKept DEF AnswerInv
<1>8. GatheredInOrder'
  <2>1. \A b \in Call : pc'[b] \in {"idle", "open", "send"} => pc[b] \in {"idle", "open", "send"}
    BY <1>0
  <2>. QED  BY <2>1 DEF AnswerInv, GatheredInOrder, Begins
<1>9. SuccessRight'
  <2>. SUFFICES ASSUME NEW b \in Call, pc'[b] \in {"close", "exit", "done"}, result'[b] = "SUCCESS"
                PROVE  /\ Begins(b) /\ Whole(buf[b])
                       /\ Arg[Head(buf[b]).of].fun = Arg[b].fun
    BY DEF SuccessRight, Begins
  <2>1. CASE b = c
    BY <1>0, <2>1
  <2>2. CASE b # c
    BY <1>0, <2>2 DEF AnswerInv, SuccessRight
  <2>. QED  BY <2>1, <2>2
<1>10. FailureFirst'
  <2>1. FailedStays
    BY <1>0 DEF FailedStays, Failed
  <2>2. \A b \in Call : Begins(b)' => Begins(b) /\ Head(buf'[b]) = Head(buf[b])
    BY DEF Begins
  <2>. QED  BY <2>1, <2>2, FailureKept DEF AnswerInv
<1>. QED  BY <1>1, <1>3, <1>5, <1>6, <1>7, <1>8, <1>9, <1>10 DEF AnswerInv

\* What has been gathered, as long as its header says, is a whole answer.
LEMMA GatheredWhole ==
    ASSUME TypeOK, AnswerInv, NEW c \in Call, Begins(c), Head(buf[c]).ok,
           nRecvCount[c] >= Arg[Head(buf[c]).of].pdu
    PROVE  Whole(buf[c])
<1>1. buf[c] \in Seq(Packet) /\ Len(buf[c]) \in 1..Len(buf[c])
  BY DEF TypeOK, CallTypeOK, Begins
<1>2. PICK n \in 1..Len(buf[c]) :
        OfOne(buf[c], n) /\ buf[c][n].at + buf[c][n].len >= Arg[Head(buf[c]).of].pdu
  BY <1>1 DEF AnswerInv, GatheredInOrder, Complete
<1>. QED  BY <1>2 DEF Begins, Whole, OfOne

\* The moves that touch no packet.
LEMMA QuietCall ==
    ASSUME TypeOK, TypeOK', HandleReleased, AnswerInv, "alias" \notin Faults, NEW c \in Call,
           \/ Start(c) \/ DeviceNotFound(c) \/ InitFails(c) \/ OpenFails(c)
           \/ SendFails(c) \/ SendCutShort(c)
           \/ ReadTimesOut(c) \/ ReadFails(c) \/ CheckAnswer(c) \/ CheckGarbage(c)
           \/ ExitHid(c) \/ UseAfterExit(c)
    PROVE  AnswerInv'
<1>0. /\ pc[c] \in Stage /\ result[c] \in Result
      /\ \A b \in orphans : \E d \in Device : claim[d] = b
  BY DEF TypeOK, CallTypeOK, AnswerInv, HandlesHeld
<1>. DEFINE Same == UNCHANGED <<claim, queue, plugged, pending, fifo, executed, opened, buf,
                                nRecvCount>>
<1>1. CASE \/ Start(c) \/ DeviceNotFound(c) \/ InitFails(c) \/ OpenFails(c)
           \/ SendFails(c) \/ SendCutShort(c)
  <2>1. Same /\ UNCHANGED orphans
    BY <1>1 DEF Start, DeviceNotFound, InitFails, OpenFails, InitOnly, SendFails,
                SendCutShort, hidVars
  <2>2. PICK from \in {"idle", "open", "send"}, to \in {"done", "open", "recv", "close"},
             r \in Result : Go(c, from, to, r) /\ (to \in {"done", "close"} => r # "SUCCESS")
                            /\ (to = "recv" => from = "send") /\ (to = "close" => from = "send")
                            /\ (to = "open" => from = "idle")
    BY <1>1 DEF Start, DeviceNotFound, InitFails, OpenFails, SendFails, SendCutShort, Result
  <2>. QED  BY <1>0, <2>1, <2>2, QuietGo DEF Stage, HandleOpen
<1>2. CASE ReadTimesOut(c) \/ ReadFails(c)
  <2>1. Same /\ UNCHANGED orphans
    BY <1>2 DEF ReadTimesOut, ReadFails, hidVars
  <2>2. PICK to \in {"close", "check", "crashed"}, r \in Result :
            Go(c, "recv", to, r) /\ (to = "close" => r # "SUCCESS")
    BY <1>2 DEF ReadTimesOut, ReadFails, Result
  <2>. QED  BY <1>0, <2>1, <2>2, QuietGo DEF Stage, HandleOpen
<1>3. CASE CheckAnswer(c)
  <2>1. Same /\ UNCHANGED orphans
    BY <1>3 DEF CheckAnswer, hidVars
  <2>2. buf[c] # <<>> /\ Head(buf[c]) \in Packet /\ nRecvCount[c] \in Nat
    BY <1>3, PacketTaken DEF CheckAnswer, Go, TypeOK, CallTypeOK, LocalOK
  <2>3. PICK r \in Result :
            /\ Go(c, "check", "close", r)
            /\ r = IF Head(buf[c]).at = 0
                   THEN Verdict(c, Head(buf[c]).of, Head(buf[c]).ok) ELSE "CHECK"
    BY <1>3 DEF CheckAnswer, Verdict, Result
  <2>4. ASSUME r = "SUCCESS"
        PROVE  /\ Begins(c) /\ Whole(buf[c])
               /\ Arg[Head(buf[c]).of].fun = Arg[c].fun
    <3>1. PICK b \in Call : b = Head(buf[c]).of
      BY <2>2 DEF Packet
    <3>2. /\ Begins(c) /\ Verdict(c, b, Head(buf[c]).ok) = "SUCCESS"
      BY <2>2, <2>3, <2>4, <3>1 DEF Begins
    <3>3. /\ Arg[b].fun = Arg[c].fun /\ Head(buf[c]).ok
          /\ ~(nRecvCount[c] < HeaderLength(b) + HeadLen - StateLen)
      BY <3>2 DEF Verdict
    <3>4. Arg[b].pdu \in Nat /\ HeadLen \in Nat /\ StateLen \in Nat
      BY LengthAssumption, CallAssumption DEF ArgType
    <3>5. HeaderLength(b) + HeadLen - StateLen = Arg[b].pdu
      BY <3>4 DEF HeaderLength
    <3>. QED  BY <2>2, <3>1, <3>2, <3>3, <3>4, <3>5, GatheredWhole
  <2>. QED  BY <1>0, <2>1, <2>3, <2>4, QuietGo DEF Stage, HandleOpen
<1>4. CASE CheckGarbage(c)
  BY <1>4 DEF CheckGarbage
<1>5. CASE ExitHid(c)
  <2>1. Same /\ orphans' = orphans \cup {claim[d] : d \in {e \in Device : claim[e] # None}}
    BY <1>5 DEF ExitHid, Exit
  <2>2. \A b \in orphans' : \E d \in Device : claim[d] = b
    BY <1>0, <2>1
  <2>3. Go(c, "exit", "done", result[c])
    BY <1>5 DEF ExitHid
  <2>4. result[c] = "SUCCESS" =>
            /\ Begins(c) /\ Whole(buf[c])
            /\ Arg[Head(buf[c]).of].fun = Arg[c].fun
    BY <2>3 DEF Go, AnswerInv, SuccessRight
  <2>. QED  BY <1>0, <2>1, <2>2, <2>3, <2>4, QuietGo DEF Stage, HandleOpen
<1>6. CASE UseAfterExit(c)
  <2>1. Same /\ UNCHANGED orphans
    BY <1>6 DEF UseAfterExit, hidVars
  <2>2. PICK d \in Device : claim[d] = c
    BY <1>0, <1>6 DEF UseAfterExit
  <2>3. pc[c] \in HandleOpen \cup {"crashed"}
    BY <2>2, CallAssumption DEF HandleReleased
  <2>4. Go(c, pc[c], "crashed", result[c])
    BY <1>6 DEF UseAfterExit
  <2>. QED  BY <1>0, <2>1, <2>3, <2>4, QuietGo DEF Stage, HandleOpen
<1>. QED  BY <1>1, <1>2, <1>3, <1>4, <1>5, <1>6

\* Who meets the beginning of another's answer can name a call that failed.
LEMMA FailedBefore ==
    ASSUME TypeOK, HandleReleased, AnswerInv, NEW c \in Call, NEW d \in Device, claim[d] = c,
           NEW p \in Packet, Left(d) # <<>>, p = Left(d)[1], p.at = 0, p.of # c
    PROVE  \E e \in Call : opened[e] = d /\ Failed(e)
<1>1. PICK b \in Call : b = p.of
  BY DEF Packet
<1>2. 1 \in 1..Len(Left(d))
  BY StreamType
<1>3. opened[b] = d /\ pc[b] \notin {"idle", "open", "send"}
  BY <1>1, <1>2 DEF AnswerInv, PacketsOwned, Owned, Asked
<1>4. pc[b] \notin HandleOpen \cup {"crashed"}
  BY <1>1, <1>3 DEF AnswerInv, HandlesHeld
<1>5. pc[b] \in {"exit", "done"}
  BY <1>3, <1>4 DEF TypeOK, CallTypeOK, Stage, HandleOpen
<1>6. CASE result[b] # "SUCCESS"
  BY <1>3, <1>5, <1>6 DEF Failed
<1>7. CASE result[b] = "SUCCESS"
  <2>1. Begins(b)
    BY <1>5, <1>7 DEF AnswerInv, SuccessRight
  <2>2. p.of # Head(buf[b]).of
    BY <1>2, <1>3, <2>1 DEF AnswerInv, FirstsOnce
  <2>. QED  BY <1>1, <1>3, <2>1, <2>2 DEF AnswerInv, FailureFirst
<1>. QED  BY <1>6, <1>7

--------------------------------------------------------------------------------
(* The steps of a call that move packets. *)

\* The token a call reads from is its own, and what it takes is what lies first.
LEMMA ReadsOwn ==
    ASSUME TypeOK, HandleReleased, AnswerInv, NEW c \in Call, pc[c] = "recv",
           queue[opened[c]] # <<>>, ReturnData(opened[c]), UNCHANGED opened
    PROVE  /\ opened[c] \in Device /\ claim[opened[c]] = c
           /\ Left(opened[c]) # <<>> /\ Head(Left(opened[c])) = Head(queue[opened[c]])
           /\ Left(opened[c])' = Tail(Left(opened[c]))
           /\ \A d \in Device \ {opened[c]} : Left(d)' = Left(d)
           /\ \A d \in Device : Within(Left(d)', Left(d))
           /\ \A d \in Device \ {opened[c]} : claim[d] # c
<1>1. opened[c] \in Device /\ claim[opened[c]] = c
  BY DEF AnswerInv, HandlesHeld, HandleOpen
<1>2. PICK d \in Device : d = opened[c]
  BY <1>1
<1>3. queue[d] \in Seq(Packet) /\ fifo[d] \in Seq(Packet) /\ queue[d] # <<>>
  BY <1>2, StreamType
<1>4. queue' = [queue EXCEPT ![d] = Tail(@)] /\ fifo' = fifo /\ queue \in [Device -> Seq(Packet)]
  BY <1>2 DEF ReturnData, TypeOK, HidTypeOK
<1>5. Left(d) # <<>> /\ Head(Left(d)) = Head(queue[d]) /\ Left(d)' = Tail(Left(d))
  BY <1>3, <1>4, HeadOfConcat DEF Left
<1>6. \A e \in Device \ {d} : Left(e)' = Left(e)
  BY <1>4 DEF Left
<1>7. \A e \in Device : Within(Left(e)', Left(e))
  <2>1. Within(Left(d)', Left(d))
    BY <1>5, StreamType, WithinTail
  <2>. QED  BY <1>6, <2>1, StreamType, WithinItself
<1>8. \A e \in Device \ {d} : claim[e] # c
  BY <1>2, CallAssumption DEF HandleReleased
<1>9. Left(opened[c]) = Left(d) /\ Left(opened[c])' = Left(d)'
  BY <1>2 DEF Left
<1>. QED  BY <1>1, <1>2, <1>5, <1>6, <1>7, <1>8, <1>9

\* A report that would run over the buffer is dropped, and the call fails.
LEMMA ReadTooMuchInv ==
    ASSUME TypeOK, TypeOK', HandleReleased, AnswerInv, NEW c \in Call, ReadTooMuch(c)
    PROVE  AnswerInv'
<1>0. /\ pc[c] = "recv" /\ pc' = [pc EXCEPT ![c] = "close"]
      /\ result' = [result EXCEPT ![c] = "ARG"]
      /\ ReturnData(opened[c]) /\ queue[opened[c]] # <<>>
      /\ UNCHANGED <<opened, buf, nRecvCount>>
      /\ UNCHANGED <<orphans, claim, plugged, pending, fifo, executed>>
      /\ pc \in [Call -> Stage] /\ result \in [Call -> Result]
      /\ claim \in [Device -> Call \cup {None}]
      /\ queue \in [Device -> Seq(Packet)]
  BY DEF ReadTooMuch, Go, ReturnData, TypeOK, CallTypeOK, HidTypeOK
<1>1. PICK d \in Device :
        /\ d = opened[c] /\ claim[d] = c /\ Left(d)' = Tail(Left(d)) /\ Left(d) # <<>>
        /\ \A e \in Device \ {d} : Left(e)' = Left(e) /\ claim[e] # c
        /\ \A e \in Device : Within(Left(e)', Left(e))
  BY <1>0, ReadsOwn
<1>2. HandlesHeld'
  <2>1. \A b \in Call : pc'[b] \in HandleOpen \cup {"crashed"} => pc[b] \in HandleOpen \cup {"crashed"}
    BY <1>0 DEF HandleOpen
  <2>2. \A e \in Device : claim[e] = None => queue'[e] = queue[e]
    BY <1>0, <1>1, CallAssumption DEF ReturnData
  <2>. QED  BY <1>0, <2>1, <2>2 DEF AnswerInv, HandlesHeld
<1>3. AskedStays /\ ExecutedStays
  <2>1. Go(c, "recv", "close", "ARG")
    BY DEF ReadTooMuch
  <2>. QED  BY <1>0, <2>1, AskedGo DEF ExecutedStays, Stage
<1>4. RequestsOnce'
  <2>1. \A b \in Call : pc'[b] \in {"idle", "open", "send"} => pc[b] \in {"idle", "open", "send"}
    BY <1>0
  <2>. QED  BY <1>0, <1>3, <2>1, RequestsKept DEF AnswerInv
<1>5. PacketsOwned'
  BY <1>0, <1>1, <1>3, PacketsKept DEF AnswerInv
<1>6. FirstsOnce'
  <2>1. \A b \in Call : buf[b] # <<>> => opened[b] \in Device /\ opened'[b] = opened[b]
    BY <1>0 DEF AnswerInv, GatheredInOrder
  <2>. QED  BY <1>0, <1>1, <2>1, FirstsKept DEF AnswerInv
<1>7. AnswersInOrder'
  <2>1. ASSUME NEW e \in Device
        PROVE  \E s \in Seq(Packet) : Stream(e) = s \o Stream(e)'
    <3>1. CASE e = d
      <4>1. Held(d)' = <<>>
        BY <1>0, <1>1 DEF Held
      <4>2. Stream(d)' = Tail(Left(d))
        BY <1>1, <4>1, StreamTypeNext, ConcatEmptySeq DEF Stream
      <4>3. /\ Held(d) \in Seq(Packet) /\ Left(d) \in Seq(Packet)
            /\ Head(Left(d)) \in Packet
        BY <1>1, StreamType, PacketTaken
      <4>4. Append(Held(d), Head(Left(d))) \in Seq(Packet)
        BY <4>3, PacketAdded
      <4>5. Stream(d) = Append(Held(d), Head(Left(d))) \o Tail(Left(d))
        BY <1>1, <4>3, Moved DEF Stream
      <4>. QED  BY <3>1, <4>2, <4>4, <4>5
    <3>2. CASE e # d
      <4>1. Held(e)' = Held(e)
        BY <1>0, <1>1, <3>2 DEF Held
      <4>2. Stream(e)' = Stream(e)
        BY <1>1, <3>2, <4>1 DEF Stream
      <4>3. <<>> \in Seq(Packet) /\ Stream(e) = <<>> \o Stream(e)'
        BY <4>2, StreamType, ConcatEmptySeq
      <4>. QED  BY <4>3
    <3>. QED  BY <3>1, <3>2
  <2>. QED  BY <1>0, <2>1, OrderKept DEF AnswerInv
<1>8. GatheredInOrder'
  <2>1. \A b \in Call : pc'[b] \in {"idle", "open", "send"} => pc[b] \in {"idle", "open", "send"}
    BY <1>0
  <2>. QED  BY <1>0, <2>1 DEF AnswerInv, GatheredInOrder, Begins
<1>9. SuccessRight'
  BY <1>0 DEF AnswerInv, SuccessRight, Begins
<1>10. FailureFirst'
  <2>1. FailedStays
    BY <1>0 DEF FailedStays, Failed
  <2>2. \A b \in Call : Begins(b)' => Begins(b) /\ Head(buf'[b]) = Head(buf[b])
    BY <1>0 DEF Begins
  <2>. QED  BY <1>0, <2>1, <2>2, FailureKept DEF AnswerInv
<1>. QED  BY <1>2, <1>4, <1>5, <1>6, <1>7, <1>8, <1>9, <1>10 DEF AnswerInv

\* hid_close forgets what the read thread has gathered.
LEMMA CloseDeviceInv ==
    ASSUME TypeOK, TypeOK', HandleReleased, AnswerInv, NEW c \in Call, CloseDevice(c)
    PROVE  AnswerInv'
<1>0. /\ pc[c] = "close" /\ pc' = [pc EXCEPT ![c] = "exit"] /\ result' = result
      /\ opened[c] \in Device /\ claim[opened[c]] = c
      /\ claim' = [claim EXCEPT ![opened[c]] = None]
      /\ queue' = [queue EXCEPT ![opened[c]] = <<>>]
      /\ orphans' = orphans \ {c}
      /\ UNCHANGED <<opened, buf, nRecvCount>>
      /\ UNCHANGED <<plugged, pending, fifo, executed>>
      /\ pc \in [Call -> Stage] /\ result \in [Call -> Result]
      /\ claim \in [Device -> Call \cup {None}]
      /\ queue \in [Device -> Seq(Packet)]
  BY DEF CloseDevice, Go, Close, TypeOK, CallTypeOK, HidTypeOK, AnswerInv, HandlesHeld,
         HandleOpen
<1>1. PICK d \in Device : d = opened[c]
  BY <1>0
<1>2. \A e \in Device \ {d} : claim[e] # c
  BY <1>1, CallAssumption DEF HandleReleased
<1>3. HandlesHeld'
  <2>1. ASSUME NEW b \in Call, pc'[b] \in HandleOpen \cup {"crashed"}
        PROVE  opened'[b] \in Device /\ claim'[opened'[b]] = b
    <3>1. b # c /\ pc[b] \in HandleOpen \cup {"crashed"}
      BY <1>0, <2>1 DEF HandleOpen
    <3>2. opened[b] \in Device /\ claim[opened[b]] = b
      BY <3>1 DEF AnswerInv, HandlesHeld
    <3>. QED  BY <1>0, <3>1, <3>2
  <2>2. ASSUME NEW b \in orphans' PROVE \E e \in Device : claim'[e] = b
    <3>1. PICK e \in Device : claim[e] = b /\ b # c
      BY <1>0 DEF AnswerInv, HandlesHeld
    <3>. QED  BY <1>0, <3>1
  <2>. QED  BY <1>0, <2>1, <2>2 DEF AnswerInv, HandlesHeld
<1>4. AskedStays /\ ExecutedStays
  <2>1. Go(c, "close", "exit", result[c])
    BY DEF CloseDevice
  <2>. QED  BY <1>0, <2>1, AskedGo DEF ExecutedStays, Stage
<1>5. RequestsOnce'
  <2>1. \A b \in Call : pc'[b] \in {"idle", "open", "send"} => pc[b] \in {"idle", "open", "send"}
    BY <1>0
  <2>. QED  BY <1>0, <1>4, <2>1, RequestsKept DEF AnswerInv
<1>6. Left(d)' = fifo[d] /\ \A e \in Device \ {d} : Left(e)' = Left(e)
  BY <1>0, <1>1, StreamType, ConcatEmptySeq DEF Left
<1>7. \A e \in Device : Within(Left(e)', Left(e))
  <2>1. Within(fifo[d], Left(d))
    BY StreamType, WithinConcat DEF Left
  <2>. QED  BY <1>6, <2>1, StreamType, WithinItself
<1>8. PacketsOwned'
  BY <1>0, <1>4, <1>7, PacketsKept DEF AnswerInv
<1>9. FirstsOnce'
  <2>1. \A b \in Call : buf[b] # <<>> => opened[b] \in Device /\ opened'[b] = opened[b]
    BY <1>0 DEF AnswerInv, GatheredInOrder
  <2>. QED  BY <1>0, <1>7, <2>1, FirstsKept DEF AnswerInv
<1>10. AnswersInOrder'
  <2>1. ASSUME NEW e \in Device
        PROVE  \E s \in Seq(Packet) : Stream(e) = s \o Stream(e)'
    <3>1. CASE e = d
      <4>1. Held(d)' = <<>> /\ Held(d) = <<>>
        BY <1>0, <1>1 DEF Held
      <4>2. Stream(d)' = fifo[d] /\ Stream(d) = Left(d)
        BY <1>6, <4>1, StreamType, ConcatEmptySeq DEF Stream
      <4>. QED  BY <3>1, <4>2, StreamType DEF Left
    <3>2. CASE e # d
      <4>1. Held(e)' = Held(e)
        BY <1>0, <1>1, <1>2, <3>2 DEF Held
      <4>2. Stream(e)' = Stream(e)
        BY <1>6, <3>2, <4>1 DEF Stream
      <4>3. <<>> \in Seq(Packet) /\ Stream(e) = <<>> \o Stream(e)'
        BY <4>2, StreamType, ConcatEmptySeq
      <4>. QED  BY <4>3
    <3>. QED  BY <3>1, <3>2
  <2>. QED  BY <1>0, <2>1, OrderKept DEF AnswerInv
<1>11. GatheredInOrder'
  <2>1. \A b \in Call : pc'[b] \in {"idle", "open", "send"} => pc[b] \in {"idle", "open", "send"}
    BY <1>0
  <2>. QED  BY <1>0, <2>1 DEF AnswerInv, GatheredInOrder, Begins
<1>12. SuccessRight'
  BY <1>0 DEF AnswerInv, SuccessRight, Begins
<1>13. FailureFirst'
  <2>1. FailedStays
    BY <1>0 DEF FailedStays, Failed
  <2>2. \A b \in Call : Begins(b)' => Begins(b) /\ Head(buf'[b]) = Head(buf[b])
    BY <1>0 DEF Begins
  <2>. QED  BY <1>0, <2>1, <2>2, FailureKept DEF AnswerInv
<1>. QED  BY <1>3, <1>5, <1>8, <1>9, <1>10, <1>11, <1>12, <1>13 DEF AnswerInv

\* A packet at the end.
LEMMA Appended ==
    ASSUME NEW b \in Seq(Packet), NEW p \in Packet, NEW t, t = Append(b, p)
    PROVE  /\ Len(b) \in Nat /\ Len(t) = Len(b) + 1 /\ t[Len(t)] = p /\ t[Len(b) + 1] = p
           /\ t # <<>>
           /\ \A i \in 1..Len(b) : t[i] = b[i] /\ b[i] \in Packet
           /\ b # <<>> => Len(b) > 0 /\ Head(t) = Head(b) /\ Head(b) = b[1]
           /\ b = <<>> => Head(t) = p /\ Len(t) = 1
<1>1. Len(t) = Len(b) + 1 /\ t[Len(b) + 1] = p /\ \A i \in 1..Len(b) : t[i] = b[i]
  BY AppendProperties
<1>2. /\ Len(b) \in Nat /\ \A i \in 1..Len(b) : b[i] \in Packet
      /\ b # <<>> => Len(b) > 0 /\ Head(b) = b[1]
  OBVIOUS
<1>3. t \in Seq(Packet) /\ t # <<>> /\ Head(t) = t[1]
  BY AppendProperties
<1>. QED  BY <1>1, <1>2, <1>3

\* One report more.  If it does not complete the answer that was begun, the next
\* one continues it.
LEMMA Lengthened ==
    ASSUME NEW b \in Seq(Packet), NEW p \in Packet, NEW t, NEW n \in Nat,
           Len(b) \in Nat, Len(b) > 0, Len(t) = Len(b) + 1, t[Len(t)] = p,
           \A i \in 1..Len(b) : t[i] = b[i] /\ b[i] \in Packet,
           Head(t) = Head(b), Head(b) = b[1], Head(b).at = 0, Head(b).of \in Call,
           Follows(b[Len(b)], p),
           \/ Complete(b)
           \/ OfOne(b, Len(b)) /\ n = b[Len(b)].at + b[Len(b)].len
    PROVE  \/ Complete(t)
           \/ OfOne(t, Len(t)) /\ n + p.len = t[Len(t)].at + t[Len(t)].len
<1>1. /\ Len(b) \in Nat /\ Len(b) > 0 /\ Len(t) = Len(b) + 1 /\ t[Len(t)] = p
      /\ \A i \in 1..Len(b) : t[i] = b[i] /\ b[i] \in Packet
      /\ Head(t) = Head(b) /\ Head(b) = b[1]
  OBVIOUS
<1>2. CASE Complete(b)
  <2>1. PICK n0 \in 1..Len(b) :
            OfOne(b, n0) /\ b[n0].at + b[n0].len >= Arg[Head(b).of].pdu
    BY <1>2 DEF Complete
  <2>2. n0 \in 1..Len(t) /\ \A i \in 1..n0 : i \in 1..Len(b)
    BY <1>1
  <2>3. \A i \in 1..n0 : t[i].of = Head(t).of /\ t[i].ok = Head(t).ok
    BY <1>1, <2>1, <2>2 DEF OfOne
  <2>4. \A i \in 1..(n0 - 1) : i \in 1..n0 /\ i + 1 \in 1..n0
    OBVIOUS
  <2>5. \A i \in 1..(n0 - 1) : t[i + 1].at = t[i].at + t[i].len
    BY <1>1, <2>1, <2>2, <2>4 DEF OfOne
  <2>6. OfOne(t, n0)
    BY <2>3, <2>5 DEF OfOne
  <2>. QED  BY <1>1, <2>1, <2>2, <2>6 DEF Complete
<1>3. CASE ~Complete(b)
  <2>1. OfOne(b, Len(b)) /\ n = b[Len(b)].at + b[Len(b)].len
    BY <1>3
  <2>2. Len(b) \in 1..Len(b) /\ b[Len(b)].of = Head(b).of /\ b[Len(b)].ok = Head(b).ok
    BY <1>1, <2>1 DEF OfOne
  <2>3. ~EndsAnswer(b[Len(b)])
    <3>1. PICK c \in Call : c = Head(b).of
      OBVIOUS
    <3>2. Total(c) >= Arg[c].pdu
      BY SMTT(30), CallAssumption, LengthAssumption DEF Total, ArgType
    <3>3. ~(b[Len(b)].at + b[Len(b)].len >= Arg[c].pdu)
      BY <1>3, <2>1, <2>2, <3>1 DEF Complete
    <3>4. b[Len(b)].at \in Nat /\ b[Len(b)].len \in Nat /\ Arg[c].pdu \in Nat /\ Total(c) \in Nat
      BY <1>1, <2>2, CallAssumption, LengthAssumption DEF Packet, ArgType, Total
    <3>. QED  BY <2>2, <3>1, <3>2, <3>3, <3>4 DEF EndsAnswer
  <2>4. Continues(b[Len(b)], p)
    BY <2>3 DEF Follows
  <2>5. \A i \in 1..Len(t) : t[i].of = Head(t).of /\ t[i].ok = Head(t).ok
    BY <1>1, <2>1, <2>2, <2>4 DEF OfOne, Continues
  <2>6. \A i \in 1..(Len(t) - 1) : t[i + 1].at = t[i].at + t[i].len
    <3>. SUFFICES ASSUME NEW i \in 1..Len(b) PROVE t[i + 1].at = t[i].at + t[i].len
      BY <1>1
    <3>1. CASE i = Len(b)
      BY <1>1, <2>4, <3>1 DEF Continues
    <3>2. CASE i # Len(b)
      <4>1. i \in 1..(Len(b) - 1) /\ i + 1 \in 1..Len(b)
        BY <1>1, <3>2
      <4>. QED  BY <1>1, <2>1, <4>1 DEF OfOne
    <3>. QED  BY <3>1, <3>2
  <2>7. n + p.len = p.at + p.len
    BY <2>1, <2>4 DEF Continues
  <2>. QED  BY <1>1, <2>5, <2>6, <2>7 DEF OfOne
<1>. QED  BY <1>2, <1>3

LEMMA GatheredMore ==
    ASSUME NEW b \in Seq(Packet), NEW p \in Packet, NEW t, t = Append(b, p), NEW n \in Nat,
           b # <<>>, Head(b).at = 0, Head(b).of \in Call, Follows(b[Len(b)], p),
           \/ Complete(b)
           \/ OfOne(b, Len(b)) /\ n = b[Len(b)].at + b[Len(b)].len
    PROVE  \/ Complete(t)
           \/ OfOne(t, Len(t)) /\ n + p.len = t[Len(t)].at + t[Len(t)].len
<1>1. /\ Len(b) \in Nat /\ Len(b) > 0 /\ Len(t) = Len(b) + 1 /\ t[Len(t)] = p
      /\ \A i \in 1..Len(b) : t[i] = b[i] /\ b[i] \in Packet
      /\ Head(t) = Head(b) /\ Head(b) = b[1]
  BY Appended
<1>. QED  BY ONLY b \in Seq(Packet), p \in Packet, n \in Nat, <1>1, Lengthened,
                  Head(b).at = 0, Head(b).of \in Call, Follows(b[Len(b)], p),
                  \/ Complete(b)
                  \/ OfOne(b, Len(b)) /\ n = b[Len(b)].at + b[Len(b)].len

\* Two packets in a row: the last of one sequence, the first of the next.
LEMMA LinkedAcross ==
    ASSUME NEW s \in Seq(Packet), NEW t \in Seq(Packet), s # <<>>, t # <<>>, Linked(s \o t)
    PROVE  Follows(s[Len(s)], Head(t))
<1>1. /\ Len(s) \in Nat /\ Len(s) > 0 /\ Len(t) > 0 /\ Len(t) \in Nat
      /\ Len(s \o t) = Len(s) + Len(t)
      /\ (s \o t)[Len(s)] = s[Len(s)] /\ (s \o t)[Len(s) + 1] = t[1]
  BY ConcatProperties
<1>2. Len(s) \in 1..(Len(s \o t) - 1)
  BY <1>1
<1>. QED  BY <1>1, <1>2 DEF Linked

\* A report is taken for the next of the answer.
LEMMA ReadReportInv ==
    ASSUME TypeOK, TypeOK', HandleReleased, AnswerInv, NEW c \in Call, ReadReport(c)
    PROVE  AnswerInv'
<1>0. /\ pc[c] = "recv" /\ ReturnData(opened[c]) /\ queue[opened[c]] # <<>>
      /\ buf' = [buf EXCEPT ![c] = Append(@, Head(queue[opened[c]]))]
      /\ nRecvCount' = [nRecvCount EXCEPT ![c] = nRecvCount[c] + Head(queue[opened[c]]).len]
      /\ UNCHANGED opened
      /\ UNCHANGED <<orphans, claim, plugged, pending, fifo, executed>>
      /\ pc \in [Call -> Stage] /\ result \in [Call -> Result]
      /\ buf \in [Call -> Seq(Packet)] /\ nRecvCount \in [Call -> Nat]
      /\ claim \in [Device -> Call \cup {None}]
      /\ queue \in [Device -> Seq(Packet)]
  BY DEF ReadReport, ReturnData, TypeOK, CallTypeOK, HidTypeOK
<1>1. PICK to \in {"recv", "check"} : Go(c, "recv", to, "SUCCESS")
  BY DEF ReadReport
<1>2. pc' = [pc EXCEPT ![c] = to] /\ result' = [result EXCEPT ![c] = "SUCCESS"]
  BY <1>1 DEF Go
<1>3. PICK d \in Device :
        /\ d = opened[c] /\ claim[d] = c /\ Left(d)' = Tail(Left(d)) /\ Left(d) # <<>>
        /\ Head(Left(d)) = Head(queue[opened[c]])
        /\ \A e \in Device \ {d} : Left(e)' = Left(e) /\ claim[e] # c
        /\ \A e \in Device : Within(Left(e)', Left(e))
  BY <1>0, ReadsOwn
<1>4. PICK p \in Packet : p = Head(Left(d)) /\ p = Left(d)[1]
  BY <1>3, StreamType, PacketTaken
<1>5. 1 \in 1..Len(Left(d)) /\ Left(d) \in Seq(Packet)
  BY <1>3, StreamType
<1>6. /\ buf' = [buf EXCEPT ![c] = Append(buf[c], p)]
      /\ nRecvCount' = [nRecvCount EXCEPT ![c] = nRecvCount[c] + p.len]
  BY <1>0, <1>3, <1>4
<1>7. PICK t \in Seq(Packet) : t = Append(buf[c], p) /\ t = buf'[c]
  BY <1>0, <1>6, PacketAdded
<1>8. /\ t # <<>> /\ Len(t) = Len(buf[c]) + 1 /\ Len(buf[c]) \in Nat
      /\ \A i \in 1..Len(buf[c]) : t[i] = buf[c][i]
      /\ t[Len(buf[c]) + 1] = p
      /\ buf[c] # <<>> => Head(t) = Head(buf[c])
      /\ buf[c] = <<>> => Head(t) = p /\ Len(t) = 1
  <2>1. buf[c] \in Seq(Packet)
    BY <1>0
  <2>2. t = Append(buf[c], p)
    BY <1>7
  <2>. QED  BY ONLY <2>1, <2>2, Appended, p \in Packet
<1>9. HandlesHeld'
  <2>1. \A b \in Call : pc'[b] \in HandleOpen \cup {"crashed"} => pc[b] \in HandleOpen \cup {"crashed"}
    BY <1>0, <1>2 DEF HandleOpen
  <2>2. \A e \in Device : claim[e] = None => queue'[e] = queue[e]
    BY <1>0, <1>3, CallAssumption DEF ReturnData
  <2>. QED  BY <1>0, <2>1, <2>2 DEF AnswerInv, HandlesHeld
<1>10. AskedStays /\ ExecutedStays
  BY <1>0, <1>1, AskedGo DEF ExecutedStays, Stage
<1>11. RequestsOnce'
  <2>1. \A b \in Call : pc'[b] \in {"idle", "open", "send"} => pc[b] \in {"idle", "open", "send"}
    BY <1>0, <1>2
  <2>. QED  BY <1>0, <1>10, <2>1, RequestsKept DEF AnswerInv
<1>12. PacketsOwned'
  <2>1. ASSUME NEW e \in Device, NEW i \in 1..Len(Left(e)') PROVE Owned(Left(e)[i], e)'
    <3>1. PICK k \in Nat : i + k \in 1..Len(Left(e)) /\ Left(e)'[i] = Left(e)[i + k]
      BY <1>3 DEF Within
    <3>2. PICK q \in Packet : q = Left(e)[i + k]
      BY <3>1, StreamType
    <3>3. Owned(q, e)
      BY <3>1, <3>2 DEF AnswerInv, PacketsOwned
    <3>4. Owned(q, e)'
      BY <1>10, <3>3, OwnedStays
    <3>5. q = Left(e)'[i]
      BY <3>1, <3>2
    <3>. QED  BY <3>4, <3>5
  <2>2. ASSUME NEW b \in Call, NEW i \in 1..Len(buf'[b]) PROVE Owned(buf[b][i], opened[b])'
    <3>1. PICK q \in Packet, f \in Device \cup {NoDevice} :
              q = buf'[b][i] /\ f = opened[b] /\ Owned(q, f)
      <4>1. opened[b] \in Device \cup {NoDevice}
        BY DEF TypeOK, CallTypeOK
      <4>2. CASE b = c /\ i = Len(buf[c]) + 1
        <5>1. p = buf'[b][i] /\ d = opened[b] /\ Owned(p, d)
          BY <1>3, <1>4, <1>5, <1>7, <1>8, <4>2 DEF AnswerInv, PacketsOwned
        <5>. QED  BY <5>1
      <4>3. CASE ~(b = c /\ i = Len(buf[c]) + 1)
        <5>1. i \in 1..Len(buf[b]) /\ buf'[b][i] = buf[b][i]
          BY <1>0, <1>6, <1>7, <1>8, <4>3
        <5>2. buf[b][i] \in Packet
          BY <1>0, <5>1
        <5>. QED  BY <4>1, <5>1, <5>2 DEF AnswerInv, PacketsOwned
      <4>. QED  BY <4>2, <4>3
    <3>2. Owned(q, f)'
      BY <1>10, <3>1, OwnedStays
    <3>3. f = opened'[b]
      BY <1>0, <3>1
    <3>. QED  BY <3>1, <3>2, <3>3
  <2>. QED  BY <2>1, <2>2 DEF PacketsOwned
<1>13. FirstsOnce'
  <2>1. ASSUME NEW e \in Device, NEW i \in 1..Len(Left(e)'), NEW j \in 1..Len(Left(e)'),
               Left(e)'[i].at = 0, Left(e)'[j].at = 0, Left(e)'[i].of = Left(e)'[j].of
        PROVE  i = j
    <3>1. PICK k \in Nat : \A n \in 1..Len(Left(e)') :
              n + k \in 1..Len(Left(e)) /\ Left(e)'[n] = Left(e)[n + k]
      BY <1>3 DEF Within
    <3>2. i + k = j + k
      BY <2>1, <3>1 DEF AnswerInv, FirstsOnce
    <3>. QED  BY <3>2
  <2>2. ASSUME NEW b \in Call, Begins(b)', NEW i \in 1..Len(Left(opened[b])'),
               Left(opened[b])'[i].at = 0
        PROVE  Left(opened[b])'[i].of # Head(buf'[b]).of
    <3>1. CASE b = c /\ buf[c] = <<>>
      <4>1. Left(opened[b])' = Tail(Left(d)) /\ Head(buf'[b]) = p /\ p.at = 0
        BY <1>0, <1>3, <1>7, <1>8, <2>2, <3>1 DEF Begins, Left
      <4>2. i + 1 \in 1..Len(Left(d)) /\ Tail(Left(d))[i] = Left(d)[i + 1]
        BY <1>3, <1>5, <2>2, <4>1, HeadTailProperties
      <4>3. Left(d)[i + 1].of = Left(d)[1].of => i + 1 = 1
        BY <1>4, <1>5, <2>2, <4>1, <4>2 DEF AnswerInv, FirstsOnce
      <4>. QED  BY <1>4, <4>1, <4>2, <4>3
    <3>2. CASE ~(b = c /\ buf[c] = <<>>)
      <4>1. Begins(b) /\ Head(buf'[b]) = Head(buf[b])
        BY <1>6, <1>7, <1>8, <2>2, <3>2 DEF Begins
      <4>2. PICK e \in Device : e = opened[b] /\ e = opened'[b]
        BY <1>0, <4>1 DEF AnswerInv, GatheredInOrder, Begins
      <4>3. Left(opened[b])' = Left(e)' /\ Left(opened[b]) = Left(e)
        BY <4>2 DEF Left
      <4>4. PICK k \in Nat : i + k \in 1..Len(Left(e)) /\ Left(e)'[i] = Left(e)[i + k]
        <5>1. i \in 1..Len(Left(e)')
          BY <2>2, <4>3
        <5>2. \E k \in Nat : \A n \in 1..Len(Left(e)') :
                  n + k \in 1..Len(Left(e)) /\ Left(e)'[n] = Left(e)[n + k]
          BY <1>3 DEF Within
        <5>. QED  BY <5>1, <5>2
      <4>5. Left(e)[i + k].at = 0 => Left(e)[i + k].of # Head(buf[b]).of
        BY <4>1, <4>3, <4>4 DEF AnswerInv, FirstsOnce
      <4>. QED  BY <2>2, <4>1, <4>3, <4>4, <4>5
    <3>. QED  BY <3>1, <3>2
  <2>. QED  BY <2>1, <2>2 DEF FirstsOnce
<1>14. AnswersInOrder'
  <2>1. ASSUME NEW e \in Device
        PROVE  \E s \in Seq(Packet) : Stream(e) = s \o Stream(e)'
    <3>1. CASE e = d
      <4>1. Held(d) = buf[c] /\ buf[c] \in Seq(Packet)
        BY <1>0, <1>3, CallAssumption DEF Held
      <4>2. Stream(d) = t \o Tail(Left(d))
        <5>1. Append(buf[c], Head(Left(d))) \o Tail(Left(d)) = buf[c] \o Left(d)
          BY <1>3, <1>5, <4>1, Moved
        <5>2. t = Append(buf[c], Head(Left(d)))
          BY <1>4, <1>7
        <5>3. Stream(d) = buf[c] \o Left(d)
          BY <4>1 DEF Stream
        <5>. QED  BY <5>1, <5>2, <5>3
      <4>3. CASE to = "recv"
        <5>1. Held(d)' = t
          BY <1>0, <1>2, <1>3, <1>7, <4>3, CallAssumption DEF Held
        <5>2. Stream(d)' = t \o Tail(Left(d))
          BY <1>3, <5>1 DEF Stream
        <5>3. <<>> \in Seq(Packet) /\ Stream(d) = <<>> \o Stream(d)'
          BY <4>2, <5>2, StreamType, ConcatEmptySeq
        <5>. QED  BY <3>1, <5>3
      <4>4. CASE to = "check"
        <5>1. Held(d)' = <<>>
          BY <1>0, <1>2, <1>3, <4>4 DEF Held
        <5>2. Stream(d)' = Tail(Left(d))
          BY <1>3, <5>1, StreamTypeNext, ConcatEmptySeq DEF Stream
        <5>. QED  BY <3>1, <4>2, <5>2
      <4>. QED  BY <4>3, <4>4
    <3>2. CASE e # d
      <4>1. Held(e)' = Held(e)
        BY <1>0, <1>2, <1>3, <1>6, <3>2 DEF Held
      <4>2. Stream(e)' = Stream(e)
        BY <1>3, <3>2, <4>1 DEF Stream
      <4>3. <<>> \in Seq(Packet) /\ Stream(e) = <<>> \o Stream(e)'
        BY <4>2, StreamType, ConcatEmptySeq
      <4>. QED  BY <4>3
    <3>. QED  BY <3>1, <3>2
  <2>. QED  BY <1>0, <2>1, OrderKept DEF AnswerInv
<1>15. GatheredInOrder'
  <2>. SUFFICES ASSUME NEW b \in Call
                PROVE  /\ buf'[b] = <<>> => nRecvCount'[b] = 0
                       /\ buf'[b] # <<>> => opened'[b] \in Device
                       /\ pc'[b] \in {"idle", "open", "send"} => buf'[b] = <<>>
                       /\ Begins(b)' =>
                             \/ Complete(buf'[b])
                             \/ /\ OfOne(buf'[b], Len(buf'[b]))
                                /\ nRecvCount'[b] = buf'[b][Len(buf'[b])].at
                                                      + buf'[b][Len(buf'[b])].len
    BY DEF GatheredInOrder
  <2>1. CASE b # c
    <3>1. /\ buf'[b] = buf[b] /\ nRecvCount'[b] = nRecvCount[b] /\ pc'[b] = pc[b]
          /\ opened'[b] = opened[b]
      BY <1>0, <1>2, <1>6, <2>1
    <3>. QED  BY <3>1 DEF AnswerInv, GatheredInOrder, Begins
  <2>2. CASE b = c
    <3>1. buf'[c] = t /\ t # <<>> /\ nRecvCount'[c] = nRecvCount[c] + p.len /\ p.len \in Nat
          /\ p.at \in Nat /\ nRecvCount[c] \in Nat
      BY <1>0, <1>6, <1>7, <1>8 DEF Packet
    <3>2. opened'[c] \in Device /\ pc'[c] \notin {"idle", "open", "send"}
      BY <1>0, <1>2, <1>3
    <3>3. ASSUME Head(t).at = 0
          PROVE  \/ Complete(t)
                 \/ OfOne(t, Len(t)) /\ nRecvCount[c] + p.len = t[Len(t)].at + t[Len(t)].len
      <4>1. CASE buf[c] = <<>>
        <5>1. nRecvCount[c] = 0 /\ Len(t) = 1 /\ Head(t) = p /\ t[1] = p /\ p.at = 0
          BY <1>8, <3>3, <4>1 DEF AnswerInv, GatheredInOrder
        <5>2. OfOne(t, Len(t))
          BY <5>1 DEF OfOne
        <5>. QED  BY <3>1, <5>1, <5>2
      <4>2. CASE buf[c] # <<>>
        <5>1. Begins(c) /\ Head(t) = Head(buf[c]) /\ buf[c] \in Seq(Packet)
          BY <1>0, <1>8, <3>3, <4>2 DEF Begins
        <5>2. \/ Complete(buf[c])
              \/ /\ OfOne(buf[c], Len(buf[c]))
                 /\ nRecvCount[c] = buf[c][Len(buf[c])].at + buf[c][Len(buf[c])].len
          BY <5>1 DEF AnswerInv, GatheredInOrder
        <5>3. Follows(buf[c][Len(buf[c])], p)
          <6>1. Held(d) = buf[c]
            BY <1>0, <1>3, CallAssumption DEF Held
          <6>2. Linked(buf[c] \o Left(d))
            BY <6>1 DEF AnswerInv, AnswersInOrder, Stream
          <6>. QED  BY <1>3, <1>4, <1>5, <4>2, <5>1, <6>2, LinkedAcross
        <5>4. Head(buf[c]).of \in Call /\ Head(buf[c]).at = 0
          BY <4>2, <5>1, PacketTaken DEF Packet, Begins
        <5>. QED  BY <1>7, <3>1, <4>2, <5>1, <5>2, <5>3, <5>4, GatheredMore
      <4>. QED  BY <4>1, <4>2
    <3>4. Begins(c)' => Head(t).at = 0
      BY <3>1 DEF Begins
    <3>. QED  BY <2>2, <3>1, <3>2, <3>3, <3>4
  <2>. QED  BY <2>1, <2>2
<1>16. SuccessRight'
  <2>. SUFFICES ASSUME NEW b \in Call, pc'[b] \in {"close", "exit", "done"}, result'[b] = "SUCCESS"
                PROVE  /\ Begins(b)' /\ Whole(buf'[b])
                       /\ Arg[Head(buf'[b]).of].fun = Arg[b].fun
    BY DEF SuccessRight
  <2>1. b # c
    BY <1>0, <1>2
  <2>2. buf'[b] = buf[b] /\ pc'[b] = pc[b] /\ result'[b] = result[b]
    BY <1>0, <1>2, <1>6, <2>1
  <2>. QED  BY <2>2 DEF AnswerInv, SuccessRight, Begins
<1>17. FailureFirst'
  <2>1. FailedStays
    BY <1>0, <1>2 DEF FailedStays, Failed
  <2>. SUFFICES ASSUME NEW b \in Call, Begins(b)', Head(buf'[b]).of # b
                PROVE  \E e \in Call : opened'[e] = opened'[b] /\ Failed(e)'
    BY DEF FailureFirst
  <2>2. \E e \in Call : opened[e] = opened[b] /\ Failed(e)
    <3>1. CASE b = c /\ buf[c] = <<>>
      <4>1. p.at = 0 /\ p.of # c
        BY <1>7, <1>8, <3>1 DEF Begins
      <4>. QED  BY <1>3, <1>4, <3>1, <4>1, FailedBefore
    <3>2. CASE ~(b = c /\ buf[c] = <<>>)
      <4>1. Begins(b) /\ Head(buf'[b]) = Head(buf[b])
        BY <1>6, <1>7, <1>8, <3>2 DEF Begins
      <4>. QED  BY <4>1 DEF AnswerInv, FailureFirst
    <3>. QED  BY <3>1, <3>2
  <2>. QED  BY <1>0, <2>1, <2>2 DEF FailedStays
<1>. QED  BY <1>9, <1>11, <1>12, <1>13, <1>14, <1>15, <1>16, <1>17 DEF AnswerInv

\* A token that is opened has been left without a queue by who had it before.
LEMMA OpenDeviceInv ==
    ASSUME TypeOK, TypeOK', HandleReleased, AnswerInv, NEW c \in Call, OpenDevice(c)
    PROVE  AnswerInv'
<1>1. PICK d \in Device :
        claim[d] = None /\ OpenPath(c, d) /\ opened' = [opened EXCEPT ![c] = d] /\ d \in plugged
  BY DEF OpenDevice, OpenPath, At, TypeOK, HidTypeOK
<1>2. /\ pc[c] = "open" /\ pc' = [pc EXCEPT ![c] = "send"]
      /\ result' = [result EXCEPT ![c] = "SUCCESS"]
      /\ claim' = [claim EXCEPT ![d] = c] /\ queue' = [queue EXCEPT ![d] = <<>>]
      /\ UNCHANGED <<buf, nRecvCount>>
      /\ UNCHANGED <<orphans, plugged, pending, fifo, executed>>
      /\ pc \in [Call -> Stage] /\ result \in [Call -> Result]
      /\ opened \in [Call -> Device \cup {NoDevice}]
      /\ claim \in [Device -> Call \cup {None}] /\ queue \in [Device -> Seq(Packet)]
  BY <1>1 DEF OpenDevice, Go, OpenPath, TypeOK, CallTypeOK, HidTypeOK
<1>3. queue[d] = <<>> /\ queue' = queue
  <2>1. queue[d] = <<>>
    BY <1>1 DEF AnswerInv, HandlesHeld
  <2>. QED  BY <1>2, <2>1
<1>4. buf[c] = <<>>
  BY <1>2 DEF AnswerInv, GatheredInOrder
<1>5. \A e \in Device : claim[e] # c
  BY <1>2, CallAssumption DEF HandleReleased, HandleOpen
<1>6. HandlesHeld'
  <2>1. ASSUME NEW b \in Call, pc'[b] \in HandleOpen \cup {"crashed"}
        PROVE  opened'[b] \in Device /\ claim'[opened'[b]] = b
    <3>1. CASE b = c
      BY <1>2, <1>1, <3>1
    <3>2. CASE b # c
      <4>1. pc[b] \in HandleOpen \cup {"crashed"}
        BY <1>2, <2>1, <3>2
      <4>2. opened[b] \in Device /\ claim[opened[b]] = b
        BY <4>1 DEF AnswerInv, HandlesHeld
      <4>. QED  BY <1>1, <1>2, <3>2, <4>2, CallAssumption
    <3>. QED  BY <3>1, <3>2
  <2>2. ASSUME NEW b \in orphans PROVE \E e \in Device : claim'[e] = b
    <3>1. PICK e \in Device : claim[e] = b
      BY DEF AnswerInv, HandlesHeld
    <3>2. b # None
      BY CallAssumption DEF TypeOK, HidTypeOK
    <3>. QED  BY <1>1, <1>2, <3>1, <3>2
  <2>3. \A e \in Device : claim'[e] = None => queue'[e] = <<>>
    BY <1>2, <1>3, CallAssumption DEF AnswerInv, HandlesHeld
  <2>. QED  BY <1>2, <2>1, <2>2, <2>3 DEF AnswerInv, HandlesHeld
<1>7. AskedStays /\ ExecutedStays
  <2>1. ASSUME NEW b \in Call, NEW e \in Device \cup {NoDevice}, Asked(b, e) PROVE Asked(b, e)'
    BY <1>1, <1>2, <2>1 DEF Asked
  <2>. QED  BY <1>2, <2>1 DEF AskedStays, ExecutedStays
<1>8. RequestsOnce'
  <2>1. \A b \in Call : pc'[b] \in {"idle", "open", "send"} => pc[b] \in {"idle", "open", "send"}
    BY <1>2
  <2>. QED  BY <1>2, <1>7, <2>1, RequestsKept DEF AnswerInv
<1>9. \A e \in Device : Left(e)' = Left(e) /\ Within(Left(e)', Left(e))
  BY <1>2, <1>3, StreamType, WithinItself DEF Left
<1>10. \A b \in Call : buf[b] # <<>> => opened[b] \in Device /\ opened'[b] = opened[b]
  BY <1>1, <1>2, <1>4 DEF AnswerInv, GatheredInOrder
<1>11. PacketsOwned'
  BY <1>2, <1>7, <1>9, <1>10, PacketsKept DEF AnswerInv
<1>12. FirstsOnce'
  BY <1>2, <1>9, <1>10, FirstsKept DEF AnswerInv
<1>13. AnswersInOrder'
  <2>1. ASSUME NEW e \in Device
        PROVE  \E s \in Seq(Packet) : Stream(e) = s \o Stream(e)'
    <3>1. Held(e)' = Held(e)
      <4>1. CASE e = d
        BY <1>1, <1>2, <4>1 DEF Held
      <4>2. CASE e # d
        BY <1>2, <1>5, <4>2 DEF Held
      <4>. QED  BY <4>1, <4>2
    <3>2. Stream(e)' = Stream(e)
      BY <1>9, <3>1 DEF Stream
    <3>3. <<>> \in Seq(Packet) /\ Stream(e) = <<>> \o Stream(e)'
      BY <3>2, StreamType, ConcatEmptySeq
    <3>. QED  BY <3>3
  <2>. QED  BY <1>2, <2>1, OrderKept DEF AnswerInv
<1>14. GatheredInOrder'
  <2>1. \A b \in Call : pc'[b] \in {"idle", "open", "send"} => pc[b] \in {"idle", "open", "send"}
    BY <1>2
  <2>. QED  BY <1>2, <1>10, <2>1 DEF AnswerInv, GatheredInOrder, Begins
<1>15. SuccessRight'
  BY <1>2 DEF AnswerInv, SuccessRight, Begins
<1>16. FailureFirst'
  <2>1. FailedStays
    BY <1>1, <1>2 DEF FailedStays, Failed
  <2>2. \A b \in Call : Begins(b)' => Begins(b) /\ Head(buf'[b]) = Head(buf[b])
    BY <1>2 DEF Begins
  <2>. QED  BY <1>10, <2>1, <2>2, FailureKept DEF AnswerInv
<1>. QED  BY <1>6, <1>8, <1>11, <1>12, <1>13, <1>14, <1>15, <1>16 DEF AnswerInv

\* A request is sent once.
LEMMA SendPDUInv ==
    ASSUME TypeOK, TypeOK', HandleReleased, AnswerInv, NEW c \in Call, SendPDU(c)
    PROVE  AnswerInv'
<1>0. /\ pc[c] = "send" /\ Go(c, "send", "recv", "SUCCESS")
      /\ pc' = [pc EXCEPT ![c] = "recv"] /\ result' = [result EXCEPT ![c] = "SUCCESS"]
      /\ pending' = [pending EXCEPT ![opened[c]] = Append(@, c)]
      /\ opened[c] \in plugged
      /\ UNCHANGED <<opened, buf, nRecvCount>>
      /\ UNCHANGED <<orphans, claim, queue, plugged, fifo, executed>>
      /\ pc \in [Call -> Stage] /\ result \in [Call -> Result]
      /\ claim \in [Device -> Call \cup {None}] /\ pending \in [Device -> Seq(Call)]
  BY DEF SendPDU, Go, Write, TypeOK, CallTypeOK, HidTypeOK
<1>1. PICK d \in Device : d = opened[c] /\ claim[d] = c /\ d \in plugged
  BY <1>0 DEF AnswerInv, HandlesHeld, HandleOpen
<1>2. buf[c] = <<>>
  BY <1>0 DEF AnswerInv, GatheredInOrder
<1>3. \A b \in Call : pc'[b] \in {"idle", "open", "send"} => pc[b] \in {"idle", "open", "send"}
  BY <1>0
<1>4. HandlesHeld'
  <2>1. \A b \in Call : pc'[b] \in HandleOpen \cup {"crashed"} => pc[b] \in HandleOpen \cup {"crashed"}
    BY <1>0 DEF HandleOpen
  <2>. QED  BY <1>0, <1>1, <2>1 DEF AnswerInv, HandlesHeld
<1>5. AskedStays /\ ExecutedStays
  BY <1>0, AskedGo DEF ExecutedStays, Stage
<1>6. RequestsOnce'
  <2>1. \A b \in Call : pc'[b] \in {"idle", "open", "send"} => executed'[b] = "no"
    BY <1>0, <1>3 DEF AnswerInv, RequestsOnce
  <2>2. ASSUME NEW e \in Device, NEW i \in 1..Len(pending'[e])
        PROVE  /\ Asked(pending[e][i], e)'
               /\ executed'[pending'[e][i]] = "no"
               /\ \A j \in 1..Len(pending'[e]) : pending'[e][j] = pending'[e][i] => j = i
    <3>1. CASE e # d
      <4>1. pending'[e] = pending[e] /\ pending[e][i] \in Call
        BY <1>0, <1>1, <2>2, <3>1
      <4>. QED  BY <1>0, <1>5, <2>2, <4>1 DEF AnswerInv, RequestsOnce, AskedStays, Asked
    <3>2. CASE e = d
      <4>1. PICK q \in Seq(Call) : q = pending[d]
        BY <1>0
      <4>2. /\ Len(q) \in Nat /\ Len(pending'[d]) = Len(q) + 1
            /\ pending'[d][Len(q) + 1] = c
            /\ \A j \in 1..Len(q) : pending'[d][j] = q[j] /\ q[j] \in Call
        BY <1>0, <1>1, <4>1, AppendProperties
      <4>3. \A j \in 1..Len(q) :
                /\ Asked(q[j], d) /\ executed[q[j]] = "no" /\ q[j] # c
                /\ \A k \in 1..Len(q) : q[k] = q[j] => k = j
        BY <1>0, <4>1 DEF AnswerInv, RequestsOnce, Asked
      <4>4. executed[c] = "no"
        BY <1>0 DEF AnswerInv, RequestsOnce
      <4>5. CASE i = Len(q) + 1
        <5>1. Asked(c, d)'
          BY <1>0, <1>1 DEF Asked
        <5>2. \A j \in 1..Len(pending'[d]) : pending'[d][j] = c => j = i
          BY <4>2, <4>3, <4>5
        <5>. QED  BY <1>0, <3>2, <4>2, <4>4, <4>5, <5>1, <5>2 DEF Asked
      <4>6. CASE i # Len(q) + 1
        <5>1. i \in 1..Len(q) /\ pending'[d][i] = q[i]
          BY <2>2, <3>2, <4>2, <4>6
        <5>2. opened'[q[i]] = d /\ pc'[q[i]] \notin {"idle", "open", "send"}
          BY <1>0, <1>5, <4>2, <4>3, <5>1 DEF AskedStays, Asked
        <5>3. \A j \in 1..Len(pending'[d]) : pending'[d][j] = q[i] => j = i
          BY <4>2, <4>3, <5>1
        <5>. QED  BY <1>0, <3>2, <4>3, <5>1, <5>2, <5>3 DEF Asked
      <4>. QED  BY <4>5, <4>6
    <3>. QED  BY <3>1, <3>2
  <2>. QED  BY <2>1, <2>2 DEF RequestsOnce
<1>7. \A e \in Device : Left(e)' = Left(e) /\ Within(Left(e)', Left(e))
  BY <1>0, StreamType, WithinItself DEF Left
<1>8. PacketsOwned'
  BY <1>0, <1>5, <1>7, PacketsKept DEF AnswerInv
<1>9. FirstsOnce'
  <2>1. \A b \in Call : buf[b] # <<>> => opened[b] \in Device /\ opened'[b] = opened[b]
    BY <1>0 DEF AnswerInv, GatheredInOrder
  <2>. QED  BY <1>0, <1>7, <2>1, FirstsKept DEF AnswerInv
<1>10. AnswersInOrder'
  <2>1. ASSUME NEW e \in Device
        PROVE  \E s \in Seq(Packet) : Stream(e) = s \o Stream(e)'
    <3>1. Held(e)' = Held(e)
      BY <1>0, <1>2 DEF Held
    <3>2. Stream(e)' = Stream(e)
      BY <1>7, <3>1 DEF Stream
    <3>3. <<>> \in Seq(Packet) /\ Stream(e) = <<>> \o Stream(e)'
      BY <3>2, StreamType, ConcatEmptySeq
    <3>. QED  BY <3>3
  <2>. QED  BY <1>0, <2>1, OrderKept DEF AnswerInv
<1>11. GatheredInOrder'
  BY <1>0, <1>3 DEF AnswerInv, GatheredInOrder, Begins
<1>12. SuccessRight'
  BY <1>0 DEF AnswerInv, SuccessRight, Begins
<1>13. FailureFirst'
  <2>1. FailedStays
    BY <1>0 DEF FailedStays, Failed
  <2>2. \A b \in Call : Begins(b)' => Begins(b) /\ Head(buf'[b]) = Head(buf[b])
    BY <1>0 DEF Begins
  <2>. QED  BY <1>0, <2>1, <2>2, FailureKept DEF AnswerInv
<1>. QED  BY <1>4, <1>6, <1>8, <1>9, <1>10, <1>11, <1>12, <1>13 DEF AnswerInv

--------------------------------------------------------------------------------
(* The steps of the tokens and of the read threads. *)

\* What stands as it is while no call moves.
LEMMA CallsRest ==
    ASSUME TypeOK, AnswerInv, UNCHANGED callVars
    PROVE  AskedStays /\ FailedStays /\ GatheredInOrder' /\ SuccessRight' /\ FailureFirst'
<1>1. UNCHANGED <<pc, result, opened, buf, nRecvCount>>
  BY DEF callVars
<1>2. AskedStays
  BY <1>1 DEF AskedStays, Asked
<1>3. FailedStays
  BY <1>1 DEF FailedStays, Failed
<1>4. GatheredInOrder'
  BY <1>1 DEF AnswerInv, GatheredInOrder, Begins
<1>5. SuccessRight'
  BY <1>1 DEF AnswerInv, SuccessRight, Begins
<1>6. FailureFirst'
  BY <1>1, <1>3, FailureKept DEF AnswerInv, Begins
<1>. QED  BY <1>2, <1>3, <1>4, <1>5, <1>6

\* A queue that is not full takes a packet from the token as it is.
LEMMA ReadCallbackInv ==
    ASSUME TypeOK, TypeOK', AnswerInv, NoOverflow, NEW d \in Device, ReadCallback(d),
           UNCHANGED callVars
    PROVE  AnswerInv'
<1>0. /\ claim[d] # None /\ fifo[d] # <<>>
      /\ queue' = [queue EXCEPT ![d] = Attach(@, Head(fifo[d]))]
      /\ fifo' = [fifo EXCEPT ![d] = Tail(@)]
      /\ UNCHANGED <<orphans, claim, plugged, pending, executed>>
      /\ UNCHANGED <<pc, result, opened, buf, nRecvCount>>
      /\ queue \in [Device -> Seq(Packet)] /\ fifo \in [Device -> Seq(Packet)]
  BY DEF ReadCallback, TypeOK, HidTypeOK, callVars
<1>1. Attach(queue[d], Head(fifo[d])) = Append(queue[d], Head(fifo[d]))
  <2>1. Len(queue[d]) \in Nat /\ QueueLimit \in Nat /\ Len(queue[d]) <= QueueLimit + 1
    BY <1>0, LengthAssumption DEF NoOverflow
  <2>. QED  BY <2>1 DEF Attach
<1>2. \A e \in Device : Left(e)' = Left(e)
  <2>1. Append(queue[d], Head(fifo[d])) \o Tail(fifo[d]) = queue[d] \o fifo[d]
    BY <1>0, Moved
  <2>2. queue'[d] = Append(queue[d], Head(fifo[d])) /\ fifo'[d] = Tail(fifo[d])
    BY <1>0, <1>1
  <2>3. \A e \in Device \ {d} : queue'[e] = queue[e] /\ fifo'[e] = fifo[e]
    BY <1>0
  <2>. QED  BY <2>1, <2>2, <2>3 DEF Left
<1>3. \A e \in Device : Within(Left(e)', Left(e))
  BY <1>2, StreamType, WithinItself
<1>4. HandlesHeld'
  <2>1. \A e \in Device : claim[e] = None => queue'[e] = queue[e]
    BY <1>0
  <2>2. d \in plugged
    BY <1>0 DEF AnswerInv, HandlesHeld
  <2>3. \A e \in Device : e \notin plugged => fifo'[e] = fifo[e]
    BY <1>0, <2>2
  <2>. QED  BY <1>0, <2>1, <2>3 DEF AnswerInv, HandlesHeld
<1>5. AskedStays /\ ExecutedStays
  BY <1>0, CallsRest DEF ExecutedStays
<1>6. RequestsOnce'
  BY <1>0, <1>5, RequestsKept DEF AnswerInv
<1>7. PacketsOwned'
  BY <1>0, <1>3, <1>5, PacketsKept DEF AnswerInv
<1>8. FirstsOnce'
  <2>1. \A b \in Call : buf[b] # <<>> => opened[b] \in Device /\ opened'[b] = opened[b]
    BY <1>0 DEF AnswerInv, GatheredInOrder
  <2>. QED  BY <1>0, <1>3, <2>1, FirstsKept DEF AnswerInv
<1>9. AnswersInOrder'
  <2>1. ASSUME NEW e \in Device
        PROVE  \E s \in Seq(Packet) : Stream(e) = s \o Stream(e)'
    <3>1. Held(e)' = Held(e)
      BY <1>0 DEF Held
    <3>2. Stream(e)' = Stream(e)
      BY <1>2, <3>1 DEF Stream
    <3>3. <<>> \in Seq(Packet) /\ Stream(e) = <<>> \o Stream(e)'
      BY <3>2, StreamType, ConcatEmptySeq
    <3>. QED  BY <3>3
  <2>. QED  BY <1>0, <2>1, OrderKept DEF AnswerInv
<1>. QED  BY <1>4, <1>6, <1>7, <1>8, <1>9, CallsRest DEF AnswerInv

\* A token that is unplugged keeps nothing but what has been read from it.
LEMMA UnplugInv ==
    ASSUME TypeOK, TypeOK', AnswerInv, NEW d \in Device, Unplug(d), UNCHANGED callVars
    PROVE  AnswerInv'
<1>0. /\ plugged' = plugged \ {d}
      /\ pending' = [pending EXCEPT ![d] = <<>>] /\ fifo' = [fifo EXCEPT ![d] = <<>>]
      /\ UNCHANGED <<orphans, claim, queue, executed>>
      /\ UNCHANGED <<pc, result, opened, buf, nRecvCount>>
      /\ pending \in [Device -> Seq(Call)]
      /\ queue \in [Device -> Seq(Packet)] /\ fifo \in [Device -> Seq(Packet)]
  BY DEF Unplug, TypeOK, HidTypeOK, callVars
<1>1. Left(d)' = queue[d] /\ \A e \in Device \ {d} : Left(e)' = Left(e)
  BY <1>0, StreamType, ConcatEmptySeq DEF Left
<1>2. \A e \in Device : Within(Left(e)', Left(e))
  <2>1. Within(queue[d], Left(d))
    BY StreamType, WithinConcat DEF Left
  <2>. QED  BY <1>1, <2>1, StreamType, WithinItself
<1>3. HandlesHeld'
  BY <1>0 DEF AnswerInv, HandlesHeld
<1>4. AskedStays /\ ExecutedStays
  BY <1>0, CallsRest DEF ExecutedStays
<1>5. RequestsOnce'
  <2>1. \A b \in Call : pc'[b] \in {"idle", "open", "send"} => executed'[b] = "no"
    BY <1>0 DEF AnswerInv, RequestsOnce
  <2>2. ASSUME NEW e \in Device, NEW i \in 1..Len(pending'[e])
        PROVE  e # d /\ pending'[e] = pending[e]
    <3>1. e = d => pending'[e] = <<>> /\ Len(pending'[e]) = 0
      BY <1>0
    <3>2. e # d
      BY <2>2, <3>1
    <3>. QED  BY <1>0, <3>2
  <2>3. ASSUME NEW e \in Device, NEW i \in 1..Len(pending'[e])
        PROVE  /\ Asked(pending[e][i], e)'
               /\ executed'[pending'[e][i]] = "no"
               /\ \A j \in 1..Len(pending'[e]) : pending'[e][j] = pending'[e][i] => j = i
    <3>1. pending'[e] = pending[e]
      BY <2>2, <2>3
    <3>2. /\ Asked(pending[e][i], e) /\ executed[pending[e][i]] = "no"
          /\ \A j \in 1..Len(pending[e]) : pending[e][j] = pending[e][i] => j = i
      BY <2>3, <3>1 DEF AnswerInv, RequestsOnce
    <3>. QED  BY <1>0, <3>1, <3>2 DEF Asked
  <2>. QED  BY <2>1, <2>3 DEF RequestsOnce
<1>6. PacketsOwned'
  BY <1>0, <1>2, <1>4, PacketsKept DEF AnswerInv
<1>7. FirstsOnce'
  <2>1. \A b \in Call : buf[b] # <<>> => opened[b] \in Device /\ opened'[b] = opened[b]
    BY <1>0 DEF AnswerInv, GatheredInOrder
  <2>. QED  BY <1>0, <1>2, <2>1, FirstsKept DEF AnswerInv
<1>8. AnswersInOrder'
  <2>1. \A e \in Device : Held(e)' = Held(e)
    BY <1>0 DEF Held
  <2>2. Linked(Stream(d)') /\ d \notin plugged'
    <3>1. Stream(d) = (Held(d) \o queue[d]) \o fifo[d] /\ Held(d) \o queue[d] \in Seq(Packet)
      <4>1. PICK h \in Seq(Packet), q \in Seq(Packet), f \in Seq(Packet) :
                h = Held(d) /\ q = queue[d] /\ f = fifo[d]
        BY StreamType
      <4>2. (h \o q) \o f = h \o (q \o f) /\ h \o q \in Seq(Packet)
        <5>1. Flat(h, q, f)
          BY InARow
        <5>2. h \o q \in Seq(Packet)
          BY ConcatProperties
        <5>. QED  BY <5>1, <5>2 DEF Flat
      <4>. QED  BY <4>1, <4>2 DEF Stream, Left
    <3>2. Linked(Held(d) \o queue[d])
      BY <3>1, StreamType, LinkedFirst DEF AnswerInv, AnswersInOrder
    <3>3. Stream(d)' = Held(d) \o queue[d]
      BY <1>1, <2>1 DEF Stream
    <3>. QED  BY <1>0, <3>2, <3>3
  <2>3. \A e \in Device \ {d} : Stream(e)' = Stream(e) /\ (e \in plugged' <=> e \in plugged)
    BY <1>0, <1>1, <2>1 DEF Stream
  <2>. QED  BY <2>2, <2>3 DEF AnswerInv, AnswersInOrder
<1>. QED  BY <1>3, <1>5, <1>6, <1>7, <1>8, CallsRest DEF AnswerInv

\* A token comes back with nothing left in it.
LEMMA PlugInv ==
    ASSUME TypeOK, TypeOK', AnswerInv, NEW d \in Device, Plug(d), UNCHANGED callVars
    PROVE  AnswerInv'
<1>0. /\ d \notin plugged /\ claim[d] = None /\ plugged' = plugged \cup {d}
      /\ UNCHANGED <<orphans, claim, queue, pending, fifo, executed>>
      /\ UNCHANGED <<pc, result, opened, buf, nRecvCount>>
  BY DEF Plug, callVars
<1>1. \A e \in Device : Left(e)' = Left(e) /\ Within(Left(e)', Left(e))
  BY <1>0, StreamType, WithinItself DEF Left
<1>2. HandlesHeld'
  BY <1>0 DEF AnswerInv, HandlesHeld
<1>3. AskedStays /\ ExecutedStays
  BY <1>0, CallsRest DEF ExecutedStays
<1>4. RequestsOnce'
  BY <1>0, <1>3, RequestsKept DEF AnswerInv
<1>5. PacketsOwned'
  BY <1>0, <1>1, <1>3, PacketsKept DEF AnswerInv
<1>6. FirstsOnce'
  <2>1. \A b \in Call : buf[b] # <<>> => opened[b] \in Device /\ opened'[b] = opened[b]
    BY <1>0 DEF AnswerInv, GatheredInOrder
  <2>. QED  BY <1>0, <1>1, <2>1, FirstsKept DEF AnswerInv
<1>7. AnswersInOrder'
  <2>1. \A e \in Device : Stream(e)' = Stream(e)
    BY <1>0, <1>1 DEF Stream, Held
  <2>2. Stream(d) = <<>>
    <3>1. queue[d] = <<>> /\ fifo[d] = <<>>
      BY <1>0 DEF AnswerInv, HandlesHeld
    <3>2. Held(d) = <<>>
      BY <1>0 DEF Held
    <3>. QED  BY <3>1, <3>2, ConcatEmptySeq, EmptySeq DEF Stream, Left
  <2>. QED  BY <1>0, <2>1, <2>2 DEF AnswerInv, AnswersInOrder
<1>. QED  BY <1>2, <1>4, <1>5, <1>6, <1>7, CallsRest DEF AnswerInv

\* An answer lies behind all that is left, and is the first to its request.
LEMMA ExecuteInv ==
    ASSUME TypeOK, TypeOK', AnswerInv, NEW d \in Device, Execute(d), UNCHANGED callVars
    PROVE  AnswerInv'
<1>1. PICK ok \in BOOLEAN :
        /\ executed' = [executed EXCEPT ![Head(pending[d])] = IF ok THEN "ok" ELSE "refused"]
        /\ fifo' = [fifo EXCEPT ![d] = @ \o Answer(Head(pending[d]), ok)]
  BY DEF Execute
<1>2. /\ d \in plugged /\ pending[d] # <<>> /\ pending' = [pending EXCEPT ![d] = Tail(@)]
      /\ UNCHANGED <<orphans, claim, queue, plugged>>
      /\ UNCHANGED <<pc, result, opened, buf, nRecvCount>>
      /\ pending \in [Device -> Seq(Call)] /\ executed \in [Call -> {"no", "ok", "refused"}]
      /\ queue \in [Device -> Seq(Packet)] /\ fifo \in [Device -> Seq(Packet)]
  BY DEF Execute, TypeOK, HidTypeOK, callVars
<1>3. PICK b \in Call : b = Head(pending[d]) /\ b = pending[d][1] /\ 1 \in 1..Len(pending[d])
  BY <1>2
<1>4. PICK a \in Seq(Packet) :
        /\ a = Answer(b, ok) /\ a # <<>>
        /\ \A i \in 1..Len(a) : a[i].of = b /\ a[i].ok = ok /\ (a[i].at = 0 <=> i = 1)
        /\ Linked(a) /\ EndsAnswer(a[Len(a)])
  BY AnswerRight
<1>. HIDE DEF Answer
<1>5. Asked(b, d) /\ executed[b] = "no"
  BY <1>3 DEF AnswerInv, RequestsOnce
<1>6. /\ fifo' = [fifo EXCEPT ![d] = fifo[d] \o a]
      /\ executed' = [executed EXCEPT ![b] = IF ok THEN "ok" ELSE "refused"]
  BY <1>1, <1>3, <1>4
<1>7. PICK s \in Seq(Packet) : s = Left(d) /\ Left(d)' = s \o a
  <2>1. PICK q \in Seq(Packet), f \in Seq(Packet) : q = queue[d] /\ f = fifo[d]
    BY StreamType
  <2>2. (q \o f) \o a = q \o (f \o a) /\ q \o f \in Seq(Packet)
    BY ThreeInARow, Zenon
  <2>3. fifo'[d] = f \o a /\ queue'[d] = q
    BY <1>2, <1>6, <2>1
  <2>. QED  BY <2>1, <2>2, <2>3 DEF Left
<1>8. /\ Len(s) \in Nat /\ Len(a) \in Nat /\ Len(a) > 0 /\ Len(Left(d)') = Len(s) + Len(a)
      /\ \A i \in 1..Len(s) : Left(d)'[i] = s[i] /\ s[i] \in Packet /\ Owned(s[i], d)
      /\ \A i \in 1..Len(s) + Len(a) :
            i \notin 1..Len(s) => /\ i - Len(s) \in 1..Len(a)
                                  /\ Left(d)'[i] = a[i - Len(s)]
  <2>1. \A i \in 1..Len(s) : Owned(s[i], d)
    BY <1>7 DEF AnswerInv, PacketsOwned
  <2>2. /\ Len(s) \in Nat /\ Len(a) \in Nat /\ Len(a) > 0 /\ Len(s \o a) = Len(s) + Len(a)
        /\ \A i \in 1..Len(s) + Len(a) :
              (s \o a)[i] = IF i <= Len(s) THEN s[i] ELSE a[i - Len(s)]
    BY <1>4, ConcatProperties
  <2>3. \A i \in 1..Len(s) : s[i] \in Packet
    OBVIOUS
  <2>. QED  BY <1>7, <2>1, <2>2, <2>3
<1>9. \A e \in Device \ {d} : Left(e)' = Left(e)
  BY <1>2, <1>6 DEF Left
<1>10. AskedStays /\ ExecutedStays
  BY <1>2, <1>5, <1>6, CallsRest DEF ExecutedStays
\* A packet that was there before does not answer this request.
<1>11. \A p \in Packet, e \in Device \cup {NoDevice} : Owned(p, e) => p.of # b
  BY <1>5 DEF Owned
<1>12. HandlesHeld'
  <2>1. \A e \in Device : e \notin plugged =>
            e # d /\ fifo'[e] = fifo[e] /\ pending'[e] = pending[e]
    BY <1>2, <1>6
  <2>. QED  BY <1>2, <2>1 DEF AnswerInv, HandlesHeld
<1>13. RequestsOnce'
  <2>1. \A c \in Call : pc'[c] \in {"idle", "open", "send"} => executed'[c] = "no"
    BY <1>2, <1>5, <1>6 DEF AnswerInv, RequestsOnce, Asked
  <2>2. ASSUME NEW e \in Device, NEW i \in 1..Len(pending'[e])
        PROVE  /\ Asked(pending[e][i], e)'
               /\ executed'[pending'[e][i]] = "no"
               /\ \A j \in 1..Len(pending'[e]) : pending'[e][j] = pending'[e][i] => j = i
    <3>1. CASE e # d
      <4>1. pending'[e] = pending[e] /\ pending[e][i] \in Call
        BY <1>2, <2>2, <3>1
      <4>2. pending[e][i] # b
        BY <1>5, <2>2, <3>1, <4>1 DEF AnswerInv, RequestsOnce, Asked
      <4>. QED  BY <1>2, <1>6, <2>2, <4>1, <4>2 DEF AnswerInv, RequestsOnce, Asked
    <3>2. CASE e = d
      <4>1. PICK q \in Seq(Call) : q = pending[d]
        BY <1>2
      <4>2. /\ Len(q) \in Nat /\ Len(pending'[d]) = Len(q) - 1 /\ 1 \in 1..Len(q) /\ q[1] = b
            /\ \A j \in 1..Len(q) - 1 : pending'[d][j] = q[j + 1]
        <5>1. q # <<>> /\ pending'[d] = Tail(q)
          BY <1>2, <4>1
        <5>. QED  BY <1>3, <4>1, <5>1, HeadTailProperties
      <4>3. \A j \in 1..Len(q) :
                /\ Asked(q[j], d) /\ executed[q[j]] = "no" /\ q[j] \in Call
                /\ \A k \in 1..Len(q) : q[k] = q[j] => k = j
        BY <4>1 DEF AnswerInv, RequestsOnce
      <4>4. i + 1 \in 1..Len(q) /\ pending'[d][i] = q[i + 1]
        BY <2>2, <3>2, <4>2
      <4>5. q[i + 1] # b
        BY <4>2, <4>3, <4>4
      <4>6. \A j \in 1..Len(pending'[d]) : pending'[d][j] = q[i + 1] => j = i
        BY <4>2, <4>3, <4>4
      <4>7. Asked(q[i + 1], d) /\ executed'[q[i + 1]] = "no"
        BY <1>2, <1>6, <4>3, <4>4, <4>5
      <4>. QED  BY <1>2, <3>2, <4>4, <4>6, <4>7 DEF Asked
    <3>. QED  BY <3>1, <3>2
  <2>. QED  BY <2>1, <2>2 DEF RequestsOnce
<1>14. PacketsOwned'
  <2>1. ASSUME NEW e \in Device, NEW i \in 1..Len(Left(e)') PROVE Owned(Left(e)[i], e)'
    <3>1. CASE e = d /\ i \notin 1..Len(s)
      <4>3. i \in 1..Len(s) + Len(a) /\ Left(e)' = Left(d)'
        BY <1>8, <2>1, <3>1
      <4>4. PICK j \in 1..Len(a) : Left(d)'[i] = a[j]
        BY <1>8, <3>1, <4>3
      <4>5. a[j] \in Packet /\ a[j].of = b /\ a[j].ok = ok
        BY <1>4, <4>4
      <4>1. PICK p \in Packet : p = Left(d)'[i] /\ p.of = b /\ p.ok = ok
        BY <4>4, <4>5
      <4>2. Owned(p, d)'
        BY <1>2, <1>5, <1>6, <4>1 DEF Owned, Asked
      <4>. QED  BY <3>1, <4>1, <4>2
    <3>2. CASE ~(e = d /\ i \notin 1..Len(s))
      <4>1. PICK p \in Packet : p = Left(e)'[i] /\ Owned(p, e)
        <5>1. CASE e = d
          BY <1>8, <3>2, <5>1
        <5>2. CASE e # d
          BY <1>9, <2>1, <5>2, StreamType DEF AnswerInv, PacketsOwned
        <5>. QED  BY <5>1, <5>2
      <4>2. Owned(p, e)'
        BY <1>10, <4>1, OwnedStays
      <4>. QED  BY <4>1, <4>2
    <3>. QED  BY <3>1, <3>2
  <2>2. ASSUME NEW c \in Call, NEW i \in 1..Len(buf'[c]) PROVE Owned(buf[c][i], opened[c])'
    <3>1. PICK p \in Packet, f \in Device \cup {NoDevice} :
              p = buf'[c][i] /\ f = opened'[c] /\ Owned(p, f)
      <4>1. opened[c] \in Device \cup {NoDevice} /\ buf[c] \in Seq(Packet)
        BY DEF TypeOK, CallTypeOK
      <4>. QED  BY <1>2, <2>2, <4>1 DEF AnswerInv, PacketsOwned
    <3>2. Owned(p, f)'
      BY <1>10, <3>1, OwnedStays
    <3>. QED  BY <3>1, <3>2
  <2>. QED  BY <2>1, <2>2 DEF PacketsOwned
<1>15. FirstsOnce'
  <2>1. ASSUME NEW e \in Device, NEW i \in 1..Len(Left(e)'), NEW j \in 1..Len(Left(e)'),
               Left(e)'[i].at = 0, Left(e)'[j].at = 0, Left(e)'[i].of = Left(e)'[j].of
        PROVE  i = j
    <3>1. CASE e # d
      BY <1>9, <2>1, <3>1 DEF AnswerInv, FirstsOnce
    <3>2. CASE e = d
      <4>1. \A n \in 1..Len(s) : s[n].of # b
        BY <1>8, <1>11
      <4>2. CASE i \in 1..Len(s) /\ j \in 1..Len(s)
        BY SMTT(30), <1>7, <1>8, <2>1, <3>2, <4>2 DEF AnswerInv, FirstsOnce
      <4>3. CASE i \notin 1..Len(s) /\ j \notin 1..Len(s)
        BY SMTT(30), <1>4, <1>8, <2>1, <3>2, <4>3
      <4>4. CASE i \in 1..Len(s) /\ j \notin 1..Len(s)
        BY <1>4, <1>8, <2>1, <3>2, <4>1, <4>4
      <4>5. CASE i \notin 1..Len(s) /\ j \in 1..Len(s)
        BY <1>4, <1>8, <2>1, <3>2, <4>1, <4>5
      <4>. QED  BY <4>2, <4>3, <4>4, <4>5
    <3>. QED  BY <3>1, <3>2
  <2>2. ASSUME NEW c \in Call, Begins(c)', NEW i \in 1..Len(Left(opened[c])'),
               Left(opened[c])'[i].at = 0
        PROVE  Left(opened[c])'[i].of # Head(buf'[c]).of
    <3>1. PICK e \in Device : Begins(c) /\ e = opened[c] /\ e = opened'[c]
      BY <1>2, <2>2 DEF AnswerInv, GatheredInOrder, Begins
    <3>2. Left(opened[c])' = Left(e)' /\ Left(opened[c]) = Left(e)
      BY <3>1 DEF Left
    <3>3. \A n \in 1..Len(Left(e)) : Left(e)[n].at = 0 => Left(e)[n].of # Head(buf[c]).of
      BY <3>1, <3>2 DEF AnswerInv, FirstsOnce
    <3>4. CASE e = d /\ i \notin 1..Len(s)
      <4>5. i \in 1..Len(s) + Len(a) /\ Left(opened[c])' = Left(d)'
        BY <1>8, <2>2, <3>2, <3>4
      <4>6. PICK j \in 1..Len(a) : Left(d)'[i] = a[j]
        BY <1>8, <3>4, <4>5
      <4>1. Left(d)'[i].of = b
        BY <1>4, <4>6
      <4>2. 1 \in 1..Len(buf[c]) /\ buf[c][1] = Head(buf[c]) /\ buf[c][1] \in Packet
        BY <3>1 DEF TypeOK, CallTypeOK, Begins
      <4>3. Owned(buf[c][1], e)
        BY <3>1, <4>2 DEF AnswerInv, PacketsOwned
      <4>. QED  BY <1>2, <1>11, <3>2, <3>4, <4>1, <4>2, <4>3
    <3>5. CASE ~(e = d /\ i \notin 1..Len(s))
      <4>1. i \in 1..Len(Left(e)) /\ Left(e)'[i] = Left(e)[i]
        <5>1. CASE e = d
          BY <1>7, <1>8, <3>5, <5>1
        <5>2. CASE e # d
          BY <1>9, <2>2, <3>2, <5>2
        <5>. QED  BY <5>1, <5>2
      <4>. QED  BY <1>2, <2>2, <3>2, <3>3, <4>1
    <3>. QED  BY <3>4, <3>5
  <2>. QED  BY <2>1, <2>2 DEF FirstsOnce
<1>16. AnswersInOrder'
  <2>1. \A e \in Device : Held(e)' = Held(e)
    BY <1>2 DEF Held
  <2>2. PICK h \in Seq(Packet) : h = Held(d)
    BY StreamType
  <2>3. PICK t \in Seq(Packet) : t = h \o s /\ t = Stream(d) /\ Stream(d)' = t \o a
    <3>1. (h \o s) \o a = h \o (s \o a) /\ h \o s \in Seq(Packet)
      BY ThreeInARow, Zenon
    <3>2. Stream(d) = h \o s /\ Stream(d)' = h \o (s \o a)
      BY <1>7, <2>1, <2>2 DEF Stream
    <3>. QED  BY <3>1, <3>2
  <2>4. Linked(t) /\ (t # <<>> => EndsAnswer(t[Len(t)]))
    BY <1>2, <2>3 DEF AnswerInv, AnswersInOrder
  <2>5. a[1].at = 0
    BY <1>4, <1>8
  <2>6. Linked(t \o a) /\ (t \o a)[Len(t \o a)] = a[Len(a)]
    BY <1>4, <2>4, <2>5, LinkedMore
  <2>7. \A e \in Device \ {d} : Stream(e)' = Stream(e)
    BY <1>9, <2>1 DEF Stream
  <2>. QED  BY <1>2, <1>4, <2>3, <2>6, <2>7 DEF AnswerInv, AnswersInOrder
<1>. QED  BY <1>12, <1>13, <1>14, <1>15, <1>16, CallsRest DEF AnswerInv

LEMMA AnswerInit == Init => AnswerInv
<1>. SUFFICES ASSUME Init PROVE AnswerInv
  OBVIOUS
<1>1. \A d \in Device : Left(d) = <<>> /\ Stream(d) = <<>>
  <2>1. \A d \in Device : queue[d] = <<>> /\ fifo[d] = <<>> /\ Held(d) = <<>>
    BY DEF Init, HidInit, Held
  <2>. QED  BY <2>1, ConcatEmptySeq, EmptySeq DEF Left, Stream
<1>2. \A c \in Call : buf[c] = <<>> /\ ~Begins(c) /\ pc[c] = "idle" /\ nRecvCount[c] = 0
  BY DEF Init, Begins
<1>3. Len(<<>>) = 0 /\ \A d \in Device : pending[d] = <<>> /\ d \in plugged
  BY DEF Init, HidInit
<1>4. HandlesHeld
  BY <1>2, <1>3 DEF HandlesHeld, HandleOpen, Init, HidInit
<1>5. RequestsOnce
  BY <1>3 DEF RequestsOnce, Init, HidInit
<1>6. PacketsOwned /\ FirstsOnce
  BY <1>1, <1>2, <1>3 DEF PacketsOwned, FirstsOnce
<1>7. AnswersInOrder
  BY <1>1, <1>3 DEF AnswersInOrder, Linked
<1>8. GatheredInOrder /\ SuccessRight /\ FailureFirst
  BY <1>2 DEF GatheredInOrder, SuccessRight, FailureFirst
<1>. QED  BY <1>4, <1>5, <1>6, <1>7, <1>8 DEF AnswerInv

LEMMA AnswerStep ==
    ASSUME TypeOK, TypeOK', HandleReleased, AnswerInv, NoOverflow, "alias" \notin Faults,
           [Next]_vars
    PROVE  AnswerInv'
<1>1. ASSUME UNCHANGED <<orphans, claim, queue, plugged, pending, fifo, executed, callVars>>
      PROVE  AnswerInv'
  <2>1. UNCHANGED <<pc, result, opened, buf, nRecvCount>>
    BY <1>1 DEF callVars
  <2>2. /\ \A d \in Device : Left(d)' = Left(d) /\ Stream(d)' = Stream(d)
        /\ \A c \in Call : /\ Begins(c)' = Begins(c) /\ Failed(c)' = Failed(c)
                          /\ Left(opened[c])' = Left(opened[c])
    BY <1>1, <2>1 DEF Left, Held, Stream, Begins, Failed
  <2>3. HandlesHeld'
    BY <1>1, <2>1 DEF AnswerInv, HandlesHeld
  <2>4. RequestsOnce'
    BY <1>1, <2>1 DEF AnswerInv, RequestsOnce, Asked
  <2>5. PacketsOwned'
    <3>1. \A p, d : Owned(p, d)' = Owned(p, d)
      BY <1>1, <2>1 DEF Owned, Asked
    <3>. QED  BY <2>1, <2>2, <3>1 DEF AnswerInv, PacketsOwned
  <2>6. FirstsOnce'
    BY <2>1, <2>2 DEF AnswerInv, FirstsOnce
  <2>7. AnswersInOrder'
    BY <1>1, <2>2 DEF AnswerInv, AnswersInOrder
  <2>8. GatheredInOrder' /\ SuccessRight' /\ FailureFirst'
    BY <2>1, <2>2 DEF AnswerInv, GatheredInOrder, SuccessRight, FailureFirst
  <2>. QED  BY <2>3, <2>4, <2>5, <2>6, <2>7, <2>8 DEF AnswerInv
<1>2. CASE \E c \in Call : Start(c) \/ CallStep(c)
  BY <1>2, QuietCall, OpenDeviceInv, SendPDUInv, ReadReportInv, ReadTooMuchInv, CloseDeviceInv
  DEF CallStep
<1>3. CASE \E d \in Device : HidStep(d) /\ UNCHANGED callVars
  <2>1. PICK d \in Device : HidStep(d) /\ UNCHANGED callVars
    BY <1>3
  <2>2. CASE Disconnected(d)
    BY <1>1, <2>1, <2>2 DEF Disconnected
  <2>. QED  BY <2>1, <2>2, ReadCallbackInv, ExecuteInv, UnplugInv, PlugInv
            DEF HidStep, ReadThread
<1>4. CASE GetCount
  BY <1>1, <1>4 DEF GetCount, InitOnly
<1>5. CASE UNCHANGED vars
  BY <1>1, <1>5 DEF vars, hidVars
<1>. QED  BY <1>2, <1>3, <1>4, <1>5 DEF Next

(* Every answer of a token is handed over once, in order and without a hole,    *)
(* and who reads the beginning of another call's answer comes after a call that *)
(* failed (HidTransReadData), as long as no queue drops a report and no data    *)
(* reads as a header.                                                           *)
THEOREM AnswersCorrect ==
    ASSUME "alias" \notin Faults
    PROVE  Spec /\ []NoOverflow => []AnswerInv
<1>1. TypeOK /\ TypeOK' /\ HandleReleased /\ AnswerInv /\ NoOverflow /\ [Next]_vars => AnswerInv'
  BY AnswerStep
<1>. QED  BY <1>1, AnswerInit, HidTypeCorrect, NoHandleLeaks, PTL DEF Spec

(* What HidTransSendRec returns as an answer is a whole one, agreed to by the   *)
(* token, to a request for the same function, and the answer to this very       *)
(* request unless an earlier call on the token has failed.                      *)
THEOREM AnswersAreRequested ==
    ASSUME "alias" \notin Faults
    PROVE  Spec /\ []NoOverflow => []AnswersRequest
<1>1. TypeOK /\ AnswerInv => AnswersRequest
  <2>. SUFFICES ASSUME TypeOK, AnswerInv, NEW c \in Call, Succeeded(c)
                PROVE  /\ Whole(buf[c])
                       /\ Arg[Head(buf[c]).of].fun = Arg[c].fun
                       /\ executed[Head(buf[c]).of] = "ok"
                       /\ Head(buf[c]).of # c =>
                            \E e \in Call : opened[e] = opened[c] /\ Failed(e)
    BY DEF AnswersRequest
  <2>1. Begins(c) /\ Whole(buf[c]) /\ Arg[Head(buf[c]).of].fun = Arg[c].fun
    BY DEF Succeeded, AnswerInv, SuccessRight
  <2>2. 1 \in 1..Len(buf[c]) /\ buf[c][1] = Head(buf[c])
    BY <2>1 DEF Begins, TypeOK, CallTypeOK
  <2>3. buf[c][1].ok
    BY <2>1, <2>2 DEF Whole
  <2>4. executed[Head(buf[c]).of] = "ok"
    BY <2>2, <2>3 DEF AnswerInv, PacketsOwned, Owned
  <2>. QED  BY <2>1, <2>4 DEF AnswerInv, FailureFirst
<1>. QED  BY <1>1, AnswersCorrect, HidTypeCorrect, PTL

--------------------------------------------------------------------------------
(* The replies that begin in a sequence of packets. *)

\* How many members of S are not above i.
Rank(S, i) == Cardinality({j \in S : j <= i})

LEMMA RankGrows ==
    ASSUME NEW S \in SUBSET Nat, IsFiniteSet(S), NEW i \in S
    PROVE  /\ Rank(S, i) \in 1..Cardinality(S)
           /\ \A j \in S : i < j => Rank(S, i) < Rank(S, j)
<1>. DEFINE Below(j) == {e \in S : e <= j}
<1>1. \A j \in S : /\ Below(j) \in SUBSET S /\ IsFiniteSet(Below(j)) /\ Cardinality(Below(j)) \in Nat
                   /\ Cardinality(Below(j)) <= Cardinality(S)
  BY FS_Subset, FS_CardinalityType
<1>2. Cardinality(S) \in Nat
  BY FS_CardinalityType
<1>3. Cardinality(Below(i)) # 0
  <2>1. i \in Below(i)
    OBVIOUS
  <2>. QED  BY <1>1, <2>1, FS_EmptySet
<1>4. ASSUME NEW j \in S, i < j
      PROVE  Cardinality(Below(i)) < Cardinality(Below(j))
  <2>0. \A e \in S : e \in Int
    OBVIOUS
  <2>1. Below(i) \in SUBSET Below(j)
    <3>1. \A e \in S : e <= i => e <= j
      BY <1>4, <2>0
    <3>. QED  BY <3>1
  <2>2. j \in Below(j) /\ j \notin Below(i)
    <3>1. j <= j /\ ~(j <= i)
      BY <1>4, <2>0
    <3>. QED  BY <3>1
  <2>3. Below(i) # Below(j)
    BY <2>2
  <2>. HIDE DEF Below
  <2>4. /\ Cardinality(Below(i)) <= Cardinality(Below(j))
        /\ Cardinality(Below(j)) = Cardinality(Below(i)) => Below(j) = Below(i)
    BY <1>1, <2>1, FS_Subset
  <2>. QED  BY <1>1, <2>3, <2>4
<1>. QED  BY <1>1, <1>2, <1>3, <1>4 DEF Rank

\* The member of rank k is the k-th.
LEMMA PlaceOfRank ==
    ASSUME NEW S \in SUBSET Nat, IsFiniteSet(S), NEW i \in S
    PROVE  Place(S, Rank(S, i)) = i
<1>1. \A j \in S : Rank(S, j) = Rank(S, i) => j = i
  <2>1. ASSUME NEW j \in S, Rank(S, j) = Rank(S, i), j # i
        PROVE  FALSE
    <3>1. i < j \/ j < i
      BY <2>1
    <3>2. Rank(S, i) < Rank(S, j) \/ Rank(S, j) < Rank(S, i)
      BY <3>1, RankGrows
    <3>3. Rank(S, i) \in Nat
      BY RankGrows, FS_CardinalityType
    <3>. QED  BY <2>1, <3>2, <3>3
  <2>. QED  BY <2>1
<1>. QED  BY <1>1 DEF Place, Rank

\* There is a k-th for every k.
LEMMA PlaceRight ==
    ASSUME NEW S \in SUBSET Nat, IsFiniteSet(S), NEW k \in 1..Cardinality(S)
    PROVE  Place(S, k) \in S /\ Rank(S, Place(S, k)) = k
<1>. DEFINE rank == [i \in S |-> Rank(S, i)]
            n == Cardinality(S)
<1>1. n \in Nat /\ IsFiniteSet(1..n) /\ Cardinality(1..n) = n
  BY FS_CardinalityType, FS_Interval
<1>2. rank \in [S -> 1..n]
  BY RankGrows
<1>3. \A i, j \in S : rank[i] = rank[j] => i = j
  BY PlaceOfRank
<1>4. rank \in Injection(S, 1..n)
  BY <1>2, <1>3 DEF Injection, IsInjective
<1>5. rank \in Surjection(S, 1..n)
  BY <1>1, <1>4, FS_Injection
<1>6. PICK i \in S : rank[i] = k
  BY <1>5 DEF Surjection
<1>7. Rank(S, i) = k
  BY <1>6
<1>. QED  BY <1>7, PlaceOfRank

LEMMA FirstsFinite ==
    ASSUME NEW s \in Seq(Packet)
    PROVE  /\ Firsts(s) \in SUBSET Nat /\ IsFiniteSet(Firsts(s))
           /\ Cardinality(Firsts(s)) \in Nat
<1>1. Len(s) \in Nat
  OBVIOUS
<1>2. IsFiniteSet(1..Len(s)) /\ Firsts(s) \in SUBSET (1..Len(s))
  BY <1>1, FS_Interval DEF Firsts
<1>3. IsFiniteSet(Firsts(s))
  BY <1>2, FS_Subset
<1>. QED  BY <1>1, <1>2, <1>3, FS_CardinalityType

\* One reply for each packet that begins an answer.
LEMMA RepliesRight ==
    ASSUME NEW s \in Seq(Packet)
    PROVE  /\ Replies[s] = [k \in 1..Cardinality(Firsts(s)) |-> ReplyOf(s[Place(Firsts(s), k)])]
           /\ \A k \in 1..Cardinality(Firsts(s)) : Place(Firsts(s), k) \in Firsts(s)
<1>1. Replies[s] = [k \in 1..Cardinality(Firsts(s)) |-> ReplyOf(s[Place(Firsts(s), k)])]
  BY DEF Replies
<1>. QED  BY <1>1, FirstsFinite, PlaceRight

Replied == {ReplyOf(p) : p \in Packet}

LEMMA RepliesType ==
    ASSUME NEW s \in Seq(Packet)
    PROVE  /\ Replies[s] \in Seq(Replied)
           /\ Len(Replies[s]) = Cardinality(Firsts(s))
<1>1. \A k \in 1..Cardinality(Firsts(s)) : s[Place(Firsts(s), k)] \in Packet
  <2>1. \A i \in Firsts(s) : s[i] \in Packet
    BY DEF Firsts
  <2>. QED  BY <2>1, RepliesRight
<1>2. Replies[s] \in [1..Cardinality(Firsts(s)) -> Replied]
  <2>1. \A k \in 1..Cardinality(Firsts(s)) : ReplyOf(s[Place(Firsts(s), k)]) \in Replied
    BY <1>1 DEF Replied
  <2>. QED  BY <2>1, RepliesRight
<1>3. Cardinality(Firsts(s)) \in Nat
  BY FirstsFinite
<1>4. ASSUME NEW r, NEW n \in Nat, r \in [1..n -> Replied]
      PROVE  r \in Seq(Replied) /\ Len(r) = n
  BY <1>4
<1>. QED  BY <1>2, <1>3, <1>4

\* The k-th packet that begins an answer is known by its rank.
LEMMA ReplyAt ==
    ASSUME NEW s \in Seq(Packet), NEW i \in Firsts(s), NEW k, k = Rank(Firsts(s), i)
    PROVE  k \in 1..Cardinality(Firsts(s)) /\ Replies[s][k] = ReplyOf(s[i])
<1>1. k \in 1..Cardinality(Firsts(s)) /\ Place(Firsts(s), k) = i
  BY FirstsFinite, RankGrows, PlaceOfRank
<1>2. Replies[s][k] = ReplyOf(s[Place(Firsts(s), k)])
  BY <1>1, RepliesRight
<1>. QED  BY <1>1, <1>2

\* As many numbers as there are numbers n above them.
LEMMA Shifted ==
    ASSUME NEW S \in SUBSET Nat, IsFiniteSet(S), NEW n \in Nat
    PROVE  /\ IsFiniteSet({n + i : i \in S})
           /\ Cardinality({n + i : i \in S}) = Cardinality(S)
<1>. DEFINE f == [i \in S |-> n + i]
            T == {n + i : i \in S}
<1>1. f \in [S -> T] /\ \A i, j \in S : f[i] = f[j] => i = j
  <2>1. \A i, j \in S : n + i = n + j => i = j
    OBVIOUS
  <2>. QED  BY <2>1
<1>2. \A t \in T : \E i \in S : f[i] = t
  OBVIOUS
<1>3. f \in Bijection(S, T)
  BY <1>1, <1>2 DEF Bijection, Injection, IsInjective, Surjection
<1>4. ExistsBijection(S, T)
  BY <1>3 DEF ExistsBijection
<1>. QED  BY <1>4, FS_Bijection

\* Of two sequences in a row, the answers of the first begin, then those of the second.
LEMMA FirstsConcat ==
    ASSUME NEW s \in Seq(Packet), NEW t \in Seq(Packet)
    PROVE  /\ s \o t \in Seq(Packet)
           /\ Firsts(s \o t) = Firsts(s) \cup {Len(s) + i : i \in Firsts(t)}
           /\ Cardinality(Firsts(s \o t)) = Cardinality(Firsts(s)) + Cardinality(Firsts(t))
           /\ \A i \in Firsts(s) : Rank(Firsts(s \o t), i) = Rank(Firsts(s), i)
           /\ \A i \in Firsts(t) : Rank(Firsts(s \o t), Len(s) + i)
                                     = Cardinality(Firsts(s)) + Rank(Firsts(t), i)
<1>. DEFINE F == Firsts(s)
            G == Firsts(t)
            H == Firsts(s \o t)
            n == Len(s)
<1>1. /\ n \in Nat /\ Len(t) \in Nat /\ s \o t \in Seq(Packet) /\ Len(s \o t) = n + Len(t)
      /\ \A i \in 1..n + Len(t) : (s \o t)[i] = IF i <= n THEN s[i] ELSE t[i - n]
  BY ConcatProperties
<1>2. /\ F \in SUBSET Nat /\ IsFiniteSet(F) /\ \A i \in F : i \in 1..n
      /\ G \in SUBSET Nat /\ IsFiniteSet(G) /\ \A i \in G : i \in 1..Len(t)
  BY FirstsFinite DEF Firsts
<1>3. H = F \cup {n + i : i \in G}
  <2>1. ASSUME NEW i \in H PROVE i \in F \cup {n + g : g \in G}
    <3>1. i \in 1..n + Len(t) /\ (s \o t)[i].at = 0
      BY <1>1, <2>1 DEF Firsts
    <3>2. CASE i <= n
      BY <1>1, <3>1, <3>2 DEF Firsts
    <3>3. CASE i > n
      <4>1. i - n \in 1..Len(t) /\ i = n + (i - n) /\ t[i - n].at = 0
        BY <1>1, <3>1, <3>3
      <4>2. i - n \in G
        BY <4>1 DEF Firsts
      <4>. QED  BY <4>1, <4>2
    <3>. QED  BY <1>1, <3>1, <3>2, <3>3
  <2>2. ASSUME NEW i \in F PROVE i \in H
    BY <1>1, <2>2 DEF Firsts
  <2>3. ASSUME NEW i \in G PROVE n + i \in H
    <3>1. i \in 1..Len(t) /\ t[i].at = 0
      BY <2>3 DEF Firsts
    <3>2. n + i \in 1..n + Len(t) /\ ~(n + i <= n) /\ (n + i) - n = i
      BY <1>1, <3>1
    <3>. QED  BY <1>1, <3>1, <3>2 DEF Firsts
  <2>. QED  BY <2>1, <2>2, <2>3
<1>. HIDE DEF F, G, H, n
<1>4. ASSUME NEW T \in SUBSET G
      PROVE  /\ IsFiniteSet({n + i : i \in T})
             /\ Cardinality(F \cup {n + i : i \in T}) = Cardinality(F) + Cardinality(T)
  <2>1. T \in SUBSET Nat /\ IsFiniteSet(T)
    BY <1>2, FS_Subset
  <2>2. IsFiniteSet({n + i : i \in T}) /\ Cardinality({n + i : i \in T}) = Cardinality(T)
    BY <1>1, <2>1, Shifted
  <2>3. F \cap {n + i : i \in T} = {}
    BY <1>1, <1>2
  <2>4. PICK U : U = {n + i : i \in T}
    OBVIOUS
  <2>5. /\ Cardinality(F \cap U) = 0
        /\ Cardinality(F) \in Nat /\ Cardinality(T) \in Nat
    BY <1>2, <2>1, <2>3, <2>4, FS_EmptySet, FS_CardinalityType
  <2>6. Cardinality(F \cup U) = Cardinality(F) + Cardinality(U) - Cardinality(F \cap U)
    BY <1>2, <2>2, <2>4, FS_Union
  <2>7. Cardinality(F \cup U) = Cardinality(F) + Cardinality(T)
    BY <2>2, <2>4, <2>5, <2>6
  <2>. QED  BY <2>2, <2>4, <2>7
<1>5. Cardinality(H) = Cardinality(F) + Cardinality(G)
  BY <1>3, <1>4
<1>6. ASSUME NEW i \in F PROVE Rank(H, i) = Rank(F, i)
  <2>1. {j \in H : j <= i} = {j \in F : j <= i}
    BY <1>1, <1>2, <1>3
  <2>. QED  BY <2>1 DEF Rank
<1>7. ASSUME NEW i \in G PROVE Rank(H, n + i) = Cardinality(F) + Rank(G, i)
  <2>1. {j \in H : j <= n + i} = F \cup {n + j : j \in {g \in G : g <= i}}
    <3>1. \A j \in F : j <= n + i
      BY <1>1, <1>2
    <3>2. \A g \in G : n + g <= n + i <=> g <= i
      BY <1>1, <1>2
    <3>. QED  BY <1>3, <3>1, <3>2
  <2>. QED  BY <1>4, <2>1 DEF Rank
<1>. QED  BY <1>1, <1>3, <1>5, <1>6, <1>7 DEF F, G, H, n

LEMMA RepliesConcat ==
    ASSUME NEW s \in Seq(Packet), NEW t \in Seq(Packet)
    PROVE  /\ s \o t \in Seq(Packet)
           /\ Replies[s \o t] = Replies[s] \o Replies[t]
<1>. DEFINE m == Cardinality(Firsts(s))
            n == Cardinality(Firsts(t))
<1>1. s \o t \in Seq(Packet) /\ m \in Nat /\ n \in Nat
  BY FirstsConcat, FirstsFinite
<1>2. /\ Replies[s] \in Seq(Replied) /\ Len(Replies[s]) = m
      /\ Replies[t] \in Seq(Replied) /\ Len(Replies[t]) = n
      /\ Replies[s \o t] \in Seq(Replied) /\ Len(Replies[s \o t]) = m + n
  BY <1>1, RepliesType, FirstsConcat
<1>. HIDE DEF m, n
<1>3. /\ Replies[s] \o Replies[t] \in Seq(Replied) /\ Len(Replies[s] \o Replies[t]) = m + n
      /\ \A k \in 1..m + n :
            (Replies[s] \o Replies[t])[k] = IF k <= m THEN Replies[s][k] ELSE Replies[t][k - m]
  BY <1>2, ConcatProperties
<1>4. /\ Len(s) \in Nat /\ Len(t) \in Nat
      /\ \A i \in 1..Len(s) : (s \o t)[i] = s[i]
      /\ \A i \in 1..Len(t) : (s \o t)[Len(s) + i] = t[i]
  BY ConcatProperties
<1>5. ASSUME NEW k \in 1..m PROVE Replies[s \o t][k] = Replies[s][k]
  <2>1. PICK i \in Firsts(s) : Rank(Firsts(s), i) = k
    BY FirstsFinite, PlaceRight DEF m
  <2>2. k = Rank(Firsts(s \o t), i) /\ i \in Firsts(s \o t)
    BY <2>1, FirstsConcat
  <2>3. i \in 1..Len(s)
    BY DEF Firsts
  <2>4. Replies[s \o t][k] = ReplyOf((s \o t)[i])
    BY <1>1, <2>2, ReplyAt
  <2>5. Replies[s][k] = ReplyOf(s[i])
    BY <2>1, ReplyAt
  <2>. QED  BY <1>4, <2>3, <2>4, <2>5
<1>6. ASSUME NEW k \in 1..n PROVE Replies[s \o t][m + k] = Replies[t][k]
  <2>1. PICK i \in Firsts(t) : Rank(Firsts(t), i) = k
    BY FirstsFinite, PlaceRight DEF n
  <2>2. m + k = Rank(Firsts(s \o t), Len(s) + i) /\ Len(s) + i \in Firsts(s \o t)
    BY <2>1, FirstsConcat DEF m
  <2>3. i \in 1..Len(t)
    BY DEF Firsts
  <2>4. Replies[s \o t][m + k] = ReplyOf((s \o t)[Len(s) + i])
    BY <1>1, <2>2, ReplyAt
  <2>5. Replies[t][k] = ReplyOf(t[i])
    BY <2>1, ReplyAt
  <2>. QED  BY <1>4, <2>3, <2>4, <2>5
<1>7. ASSUME NEW k \in 1..m + n PROVE Replies[s \o t][k] = (Replies[s] \o Replies[t])[k]
  <2>1. CASE k <= m
    <3>1. k \in 1..m
      BY <1>1, <2>1
    <3>2. Replies[s \o t][k] = Replies[s][k]
      BY <1>5, <3>1
    <3>. QED  BY <1>3, <2>1, <3>2
  <2>2. CASE k > m
    <3>1. k - m \in 1..n /\ k = m + (k - m) /\ ~(k <= m)
      BY <1>1, <2>2
    <3>2. PICK j \in 1..n : j = k - m /\ k = m + j
      BY <3>1
    <3>3. Replies[s \o t][k] = Replies[t][j]
      BY <1>6, <3>2
    <3>4. (Replies[s] \o Replies[t])[k] = Replies[t][j]
      BY <1>3, <3>1, <3>2
    <3>. QED  BY <3>3, <3>4
  <2>3. k <= m \/ k > m
    BY <1>1
  <2>. QED  BY <2>1, <2>2, <2>3
<1>8. Replies[s \o t] = Replies[s] \o Replies[t]
  <2>1. PICK x \in Seq(Replied), y \in Seq(Replied) :
            x = Replies[s \o t] /\ y = Replies[s] \o Replies[t] /\ Len(x) = m + n /\ Len(y) = m + n
    BY <1>2, <1>3
  <2>2. \A k \in 1..Len(x) : x[k] = y[k]
    BY <1>7, <2>1
  <2>. QED  BY <2>1, <2>2, SeqEqual
<1>. QED  BY <1>1, <1>8

\* Packets that begin no answer hold no reply.
LEMMA NoReplies ==
    ASSUME NEW s \in Seq(Packet), \A i \in 1..Len(s) : s[i].at # 0
    PROVE  Replies[s] = <<>>
<1>1. Firsts(s) = {}
  BY DEF Firsts
<1>2. Cardinality(Firsts(s)) = 0
  BY <1>1, FS_EmptySet
<1>3. Replies[s] \in Seq(Replied) /\ Len(Replies[s]) = 0
  BY <1>2, RepliesType
<1>. QED  BY <1>3, EmptySeq

\* An answer of a token is one reply.
LEMMA OneReply ==
    ASSUME NEW s \in Seq(Packet), s # <<>>, \A i \in 1..Len(s) : s[i].at = 0 <=> i = 1
    PROVE  Replies[s] = <<ReplyOf(s[1])>>
<1>1. Len(s) \in Nat /\ Len(s) > 0
  OBVIOUS
<1>2. Firsts(s) = {1}
  BY <1>1 DEF Firsts
<1>3. Cardinality({1}) = 1
  BY FS_Singleton
<1>4. {j \in {1} : j <= 1} = {1}
  OBVIOUS
<1>5. Rank(Firsts(s), 1) = 1 /\ Cardinality(Firsts(s)) = 1
  BY <1>2, <1>3, <1>4 DEF Rank
<1>6. Replies[s][1] = ReplyOf(s[1])
  <2>1. 1 \in Firsts(s) /\ 1 = Rank(Firsts(s), 1)
    BY <1>2, <1>5
  <2>. QED  BY <2>1, ReplyAt
<1>7. Replies[s] \in Seq(Replied) /\ Len(Replies[s]) = 1
  BY <1>5, RepliesType
<1>8. ASSUME NEW r \in Seq(Replied), NEW p, Len(r) = 1, r[1] = p
      PROVE  r = <<p>>
  BY <1>8
<1>. QED  BY <1>6, <1>7, <1>8

\* What is left when the beginning, or the end, of a sequence is gone.
LEMMA SubSeqOfConcat ==
    ASSUME NEW R, NEW x \in Seq(R), NEW y \in Seq(R)
    PROVE  /\ x \o y \in Seq(R)
           /\ Len(x) + 1 \in 1..Len(x \o y) + 1 /\ SubSeq(x \o y, Len(x) + 1, Len(x \o y)) = y
           /\ Len(x) \in 0..Len(x \o y) /\ SubSeq(x \o y, 1, Len(x)) = x
<1>1. /\ Len(x) \in Nat /\ Len(y) \in Nat /\ x \o y \in Seq(R) /\ Len(x \o y) = Len(x) + Len(y)
      /\ \A i \in 1..Len(x) + Len(y) : (x \o y)[i] = IF i <= Len(x) THEN x[i] ELSE y[i - Len(x)]
  BY ConcatProperties
<1>2. PICK z \in Seq(R), m \in Nat, n \in Nat :
          /\ z = x \o y /\ m = Len(x) /\ n = Len(y) /\ Len(z) = m + n
          /\ \A i \in 1..m + n : z[i] = IF i <= m THEN x[i] ELSE y[i - m]
  BY <1>1
<1>3. SubSeq(z, m + 1, m + n) = y
  <2>1. SubSeq(z, m + 1, m + n) = [i \in 1..n |-> z[i + m]]
    <3>1. (m + n) - (m + 1) + 1 = n /\ \A i \in 1..n : i + (m + 1) - 1 = i + m
      BY <1>2
    <3>2. SubSeq(z, m + 1, m + n) = [i \in 1..((m + n) - (m + 1) + 1) |-> z[i + (m + 1) - 1]]
      BY <1>2
    <3>. QED  BY <3>1, <3>2
  <2>2. \A i \in 1..n : z[i + m] = y[i]
    <3>1. ASSUME NEW i \in 1..n PROVE z[i + m] = y[i]
      <4>1. i + m \in 1..m + n /\ ~(i + m <= m) /\ (i + m) - m = i
        BY <1>2
      <4>. QED  BY <1>2, <4>1
    <3>. QED  BY <3>1
  <2>3. y = [i \in 1..n |-> y[i]]
    BY <1>2
  <2>. QED  BY <2>1, <2>2, <2>3
<1>4. SubSeq(z, 1, m) = x
  <2>1. SubSeq(z, 1, m) = [i \in 1..m |-> z[i]]
    <3>1. (m - 1) + 1 = m /\ \A i \in 1..m : i + 1 - 1 = i
      BY <1>2
    <3>2. SubSeq(z, 1, m) = [i \in 1..(m - 1 + 1) |-> z[i + 1 - 1]]
      BY <1>2
    <3>. QED  BY <3>1, <3>2
  <2>2. \A i \in 1..m : z[i] = x[i]
    BY <1>2
  <2>3. x = [i \in 1..m |-> x[i]]
    BY <1>2
  <2>. QED  BY <2>1, <2>2, <2>3
<1>5. m + 1 \in 1..(m + n) + 1 /\ m \in 0..(m + n)
  BY <1>2
<1>. QED  BY <1>1, <1>2, <1>3, <1>4, <1>5

\* s is the end of t, or its beginning.
Suffix(s, t) == \E n \in 1..Len(t) + 1 : s = SubSeq(t, n, Len(t))
Prefix(s, t) == \E n \in 0..Len(t) : s = SubSeq(t, 1, n)

LEMMA RepliesLeft ==
    ASSUME NEW s \in Seq(Packet), NEW t \in Seq(Packet)
    PROVE  /\ s \o t \in Seq(Packet)
           /\ Suffix(Replies[t], Replies[s \o t]) /\ Prefix(Replies[s], Replies[s \o t])
           /\ Suffix(Replies[t], Replies[t])
<1>1. Replies[s \o t] = Replies[s] \o Replies[t] /\ s \o t \in Seq(Packet)
  BY RepliesConcat
<1>2. Replies[s] \in Seq(Replied) /\ Replies[t] \in Seq(Replied)
  BY RepliesType
<1>3. ASSUME NEW x \in Seq(Replied), NEW y \in Seq(Replied)
      PROVE  Suffix(y, x \o y) /\ Prefix(x, x \o y)
  <2>1. PICK z \in Seq(Replied) :
            /\ z = x \o y
            /\ Len(x) + 1 \in 1..Len(z) + 1 /\ SubSeq(z, Len(x) + 1, Len(z)) = y
            /\ Len(x) \in 0..Len(z) /\ SubSeq(z, 1, Len(x)) = x
    BY SubSeqOfConcat
  <2>2. Suffix(y, z)
    BY <2>1, Zenon DEF Suffix
  <2>3. Prefix(x, z)
    BY <2>1, Zenon DEF Prefix
  <2>. QED  BY <2>1, <2>2, <2>3
<1>4. Suffix(Replies[t], Replies[s] \o Replies[t]) /\ Prefix(Replies[s], Replies[s] \o Replies[t])
  BY <1>2, <1>3
<1>5. <<>> \o Replies[t] = Replies[t] /\ <<>> \in Seq(Replied)
  BY <1>2, ConcatEmptySeq
<1>6. Suffix(Replies[t], <<>> \o Replies[t])
  BY <1>2, <1>3, <1>5
<1>. QED  BY <1>1, <1>4, <1>5, <1>6

--------------------------------------------------------------------------------
(* Every step of a call, of a read thread or of a token is one of TokenLink's,  *)
(* or none.                                                                     *)

\* What a call that is at p with result r tells its caller ...
Says(p, r) ==
    CASE p = "send" -> "begun"
      [] p \in {"recv", "check"} -> "sent"
      [] p = "close" /\ r \in {"SUCCESS", "STATE"} -> r
      [] OTHER -> "failed"

\* ... as TokenLink sees it, ...
Told(c, p, r, b) ==
    [fun |-> Arg[c].fun, ask |-> c, state |-> Says(p, r),
     said |-> IF Says(p, r) \in {"SUCCESS", "STATE"} THEN Head(b).of ELSE None]

\* ... and what it has read and not used.
Has(p, b) == IF p \in {"recv", "check"} THEN b ELSE <<>>

LEMMA SaysWhat ==
    ASSUME NEW r
    PROVE  /\ Says("send", r) = "begun"
           /\ Says("recv", r) = "sent" /\ Says("check", r) = "sent"
           /\ Says("close", r) = IF r \in {"SUCCESS", "STATE"} THEN r ELSE "failed"
  BY DEF Says

\* The view TokenLink has of a token that a call has open, before a step ...
LEMMA View ==
    ASSUME NEW d, NEW c, c # None, claim[d] = c, pc[c] # "crashed"
    PROVE  /\ LinkCall(d) = Told(c, pc[c], result[c], buf[c])
           /\ Unused(d) = Has(pc[c], buf[c])
<1>1. Open(c) /\ Standing(c) = Says(pc[c], result[c])
  BY DEF Open, Standing, Says
<1>2. LinkCall(d) = Told(c, pc[c], result[c], buf[c])
  BY <1>1 DEF LinkCall, Told
<1>3. Unused(d) = Has(pc[c], buf[c])
  BY <1>1 DEF Unused, Has
<1>. QED  BY <1>2, <1>3

\* ... and after it.
LEMMA ViewNext ==
    ASSUME NEW d, NEW c, c # None, claim'[d] = c, pc'[c] # "crashed"
    PROVE  /\ LinkCall(d)' = Told(c, pc'[c], result'[c], buf'[c])
           /\ Unused(d)' = Has(pc'[c], buf'[c])
<1>1. Open(c)' /\ Standing(c)' = Says(pc'[c], result'[c])
  BY DEF Open, Standing, Says
<1>2. LinkCall(d)' = Told(c, pc'[c], result'[c], buf'[c])
  BY <1>1 DEF LinkCall, Told
<1>3. Unused(d)' = Has(pc'[c], buf'[c])
  BY <1>1 DEF Unused, Has
<1>. QED  BY <1>2, <1>3

\* A token that nobody has open.
LEMMA ViewNone ==
    ASSUME NEW d, claim[d] = None
    PROVE  LinkCall(d) = None /\ Unused(d) = <<>>
  BY DEF LinkCall, Unused, Open

LEMMA ViewNoneNext ==
    ASSUME NEW d, claim'[d] = None \/ pc'[claim'[d]] = "crashed"
    PROVE  LinkCall(d)' = None /\ Unused(d)' = <<>>
<1>1. ~Open(claim[d])'
  BY DEF Open
<1>. QED  BY <1>1 DEF LinkCall, Unused

LEMMA LinkStutters ==
    ASSUME NEW d, LinkCall(d)' = LinkCall(d), LinkRequests(d)' = LinkRequests(d),
           LinkAnswers(d)' = LinkAnswers(d)
    PROVE  UNCHANGED Link(d)!linkVars
  BY DEF Link!linkVars

LEMMA Leaves ==
    ASSUME NEW d, NEW rest, Suffix(LinkAnswers(d)', rest),
           LinkRequests(d)' \in {LinkRequests(d), <<>>}
    PROVE  Link(d)!Leave(rest)
  BY DEF Link!Leave, Suffix

\* What the call that has a token open relies on.
LEMMA Holder ==
    ASSUME TypeOK, HandleReleased, AnswerInv, Alive, NEW d \in Device, claim[d] # None
    PROVE  /\ claim[d] \in Call /\ opened[claim[d]] = d
           /\ pc[claim[d]] \in HandleOpen /\ buf[claim[d]] \in Seq(Packet)
<1>1. claim[d] \in Call
  BY DEF TypeOK, HidTypeOK
<1>. QED  BY <1>1 DEF HandleReleased, Alive, TypeOK, CallTypeOK

LEMMA LinkTypes ==
    ASSUME TypeOK, NEW d \in Device
    PROVE  /\ Unused(d) \in Seq(Packet) /\ Left(d) \in Seq(Packet)
           /\ LinkAnswers(d) = Replies[Unused(d)] \o Replies[Left(d)]
           /\ LinkAnswers(d) \in Seq(Replied)
<1>1. Unused(d) \in Seq(Packet)
  <2>1. claim[d] # None => buf[claim[d]] \in Seq(Packet)
    BY DEF TypeOK, HidTypeOK, CallTypeOK
  <2>. QED  BY <2>1 DEF Unused, Open
<1>2. Left(d) \in Seq(Packet)
  BY StreamType
<1>. QED  BY <1>1, <1>2, RepliesConcat, RepliesType DEF LinkAnswers

\* A call forgets what it has read; s is what has gone from the token's packets.
LEMMA Dropped ==
    ASSUME TypeOK', NEW d \in Device, Unused(d)' = <<>>, NEW s \in Seq(Packet),
           Unused(d) \o Left(d) = s \o Left(d)'
    PROVE  Suffix(LinkAnswers(d)', LinkAnswers(d))
<1>1. PICK t \in Seq(Packet) : t = Left(d)'
  BY StreamTypeNext
<1>2. LinkAnswers(d) = Replies[s \o t]
  BY <1>1 DEF LinkAnswers
<1>3. LinkAnswers(d)' = Replies[t]
  <2>1. Unused(d)' \o Left(d)' = t
    BY <1>1, ConcatEmptySeq
  <2>. QED  BY <2>1 DEF LinkAnswers
<1>. QED  BY <1>2, <1>3, RepliesLeft

LEMMA Forgotten ==
    ASSUME TypeOK, TypeOK', NEW d \in Device, Unused(d)' = <<>>, Left(d)' = Left(d)
    PROVE  Suffix(LinkAnswers(d)', LinkAnswers(d))
  BY LinkTypes, Dropped

\* Requests are seen one by one.
Seen(c) == [fun |-> Arg[c].fun, ask |-> c]
SeenAll(s) == [i \in 1..Len(s) |-> Seen(s[i])]

LEMMA RequestsSeen ==
    ASSUME NEW d
    PROVE  LinkRequests(d) = SeenAll(pending[d]) /\ LinkRequests(d)' = SeenAll(pending'[d])
  BY DEF LinkRequests, SeenAll, Seen

LEMMA SeenType ==
    ASSUME NEW s \in Seq(Call)
    PROVE  /\ SeenAll(s) \in Seq({Seen(b) : b \in Call}) /\ Len(SeenAll(s)) = Len(s)
           /\ \A i \in 1..Len(s) : SeenAll(s)[i] = Seen(s[i])
<1>1. Len(s) \in Nat
  OBVIOUS
<1>. QED  BY <1>1 DEF SeenAll

LEMMA SeenAdded ==
    ASSUME NEW s \in Seq(Call), NEW c \in Call
    PROVE  SeenAll(Append(s, c)) = Append(SeenAll(s), Seen(c))
<1>. DEFINE R == {Seen(b) : b \in Call}
<1>1. /\ Len(s) \in Nat /\ Append(s, c) \in Seq(Call) /\ Len(Append(s, c)) = Len(s) + 1
      /\ \A i \in 1..Len(s) : Append(s, c)[i] = s[i]
      /\ Append(s, c)[Len(s) + 1] = c
  BY AppendProperties
<1>2. PICK t \in Seq(Call) :
          /\ t = Append(s, c) /\ Len(t) = Len(s) + 1
          /\ \A i \in 1..Len(s) : t[i] = s[i]
          /\ t[Len(s) + 1] = c
  BY <1>1
<1>3. Seen(c) \in R
  OBVIOUS
<1>. HIDE DEF R
<1>4. PICK y \in Seq(R) :
          y = SeenAll(s) /\ Len(y) = Len(s) /\ \A i \in 1..Len(s) : y[i] = Seen(s[i])
  BY SeenType DEF R
<1>5. PICK z \in Seq(R) :
          z = SeenAll(t) /\ Len(z) = Len(t) /\ \A i \in 1..Len(t) : z[i] = Seen(t[i])
  BY SeenType DEF R
<1>6. /\ Append(y, Seen(c)) \in Seq(R) /\ Len(Append(y, Seen(c))) = Len(s) + 1
      /\ \A i \in 1..Len(s) : Append(y, Seen(c))[i] = y[i]
      /\ Append(y, Seen(c))[Len(s) + 1] = Seen(c)
  BY <1>3, <1>4, AppendProperties
<1>7. \A i \in 1..Len(s) + 1 : z[i] = Append(y, Seen(c))[i]
  <2>1. \A i \in 1..Len(s) : i \in 1..Len(t)
    BY <1>1, <1>2
  <2>2. Len(s) + 1 \in 1..Len(t)
    BY <1>1, <1>2
  <2>3. \A i \in 1..Len(s) : z[i] = Append(y, Seen(c))[i]
    BY <1>2, <1>4, <1>5, <1>6, <2>1
  <2>4. z[Len(s) + 1] = Append(y, Seen(c))[Len(s) + 1]
    BY <1>2, <1>5, <1>6, <2>2
  <2>5. \A i \in 1..Len(s) + 1 : i \in 1..Len(s) \/ i = Len(s) + 1
    BY <1>1
  <2>. QED  BY <2>3, <2>4, <2>5
<1>8. z = Append(y, Seen(c))
  BY <1>2, <1>5, <1>6, <1>7, SeqEqual
<1>. QED  BY <1>2, <1>4, <1>5, <1>8

LEMMA SeenRest ==
    ASSUME NEW s \in Seq(Call), s # <<>>
    PROVE  /\ SeenAll(s) # <<>> /\ Head(SeenAll(s)) = Seen(Head(s))
           /\ SeenAll(Tail(s)) = Tail(SeenAll(s))
<1>. DEFINE R == {Seen(b) : b \in Call}
<1>1. /\ Len(s) \in Nat /\ Len(s) > 0 /\ Head(s) = s[1]
      /\ Tail(s) \in Seq(Call) /\ Len(Tail(s)) = Len(s) - 1
      /\ \A i \in 1..Len(s) - 1 : Tail(s)[i] = s[i + 1]
  BY HeadTailProperties
<1>2. PICK t \in Seq(Call) :
          t = Tail(s) /\ Len(t) = Len(s) - 1 /\ \A i \in 1..Len(s) - 1 : t[i] = s[i + 1]
  BY <1>1
<1>. HIDE DEF R
<1>3. PICK y \in Seq(R) :
          y = SeenAll(s) /\ Len(y) = Len(s) /\ \A i \in 1..Len(s) : y[i] = Seen(s[i])
  BY SeenType DEF R
<1>4. PICK z \in Seq(R) :
          z = SeenAll(t) /\ Len(z) = Len(t) /\ \A i \in 1..Len(t) : z[i] = Seen(t[i])
  BY SeenType DEF R
<1>5. y # <<>> /\ Head(y) = Seen(Head(s))
  BY <1>1, <1>3
<1>6. /\ Tail(y) \in Seq(R) /\ Len(Tail(y)) = Len(s) - 1
      /\ \A i \in 1..Len(s) - 1 : Tail(y)[i] = y[i + 1]
  BY <1>3, <1>5, HeadTailProperties
<1>7. ASSUME NEW i \in 1..Len(s) - 1 PROVE z[i] = Tail(y)[i]
  <2>1. i + 1 \in 1..Len(s) /\ i \in 1..Len(t)
    BY <1>1, <1>2
  <2>. QED  BY <1>2, <1>3, <1>4, <1>6, <2>1
<1>8. z = Tail(y)
  BY <1>2, <1>4, <1>6, <1>7, SeqEqual
<1>. QED  BY <1>2, <1>3, <1>4, <1>5, <1>8

\* A token that a step of another call does not touch.
LEMMA LinkOther ==
    ASSUME NEW d \in Device, NEW c \in Call,
           claim'[d] = claim[d], queue'[d] = queue[d], fifo'[d] = fifo[d],
           pending'[d] = pending[d],
           claim[d] # None =>
              /\ pc'[claim[d]] = pc[claim[d]] /\ result'[claim[d]] = result[claim[d]]
              /\ buf'[claim[d]] = buf[claim[d]]
    PROVE  UNCHANGED Link(d)!linkVars
<1>1. LinkRequests(d)' = LinkRequests(d)
  BY DEF LinkRequests
<1>2. LinkCall(d)' = LinkCall(d) /\ Unused(d)' = Unused(d)
  <2>1. CASE claim[d] = None
    BY <2>1, ViewNone, ViewNoneNext
  <2>2. CASE claim[d] # None /\ pc[claim[d]] = "crashed"
    <3>1. LinkCall(d) = None /\ Unused(d) = <<>>
      BY <2>2 DEF LinkCall, Unused, Open
    <3>. QED  BY <2>2, <3>1, ViewNoneNext
  <2>3. CASE claim[d] # None /\ pc[claim[d]] # "crashed"
    BY <2>3, View, ViewNext
  <2>. QED  BY <2>1, <2>2, <2>3
<1>3. LinkAnswers(d)' = LinkAnswers(d)
  BY <1>2 DEF LinkAnswers, Left
<1>. QED  BY <1>1, <1>2, <1>3, LinkStutters

\* A step of a call that does not have the token open, and does not open it.
LEMMA OtherStep ==
    ASSUME TypeOK, HandleReleased, AnswerInv, Alive, "alias" \notin Faults,
           NEW d \in Device, NEW c \in Call, Start(c) \/ CallStep(c),
           claim[d] # c, claim'[d] # c
    PROVE  UNCHANGED Link(d)!linkVars
<1>1. /\ pc \in [Call -> Stage] /\ result \in [Call -> Result] /\ buf \in [Call -> Seq(Packet)]
      /\ opened \in [Call -> Device \cup {NoDevice}]
      /\ claim \in [Device -> Call \cup {None}] /\ queue \in [Device -> Seq(Packet)]
      /\ pending \in [Device -> Seq(Call)]
  BY DEF TypeOK, HidTypeOK, CallTypeOK
<1>2. pc[c] \in HandleOpen => opened[c] \in Device /\ opened[c] # d
  BY DEF AnswerInv, HandlesHeld
<1>3. PICK p, r : pc' = [pc EXCEPT ![c] = p] /\ result' = [result EXCEPT ![c] = r]
  <2>1. \E from, to, r : Go(c, from, to, r)
    BY DEF CallStep, Start, OpenDevice, DeviceNotFound, InitFails, OpenFails, SendPDU, SendFails,
           SendCutShort, ReadReport, ReadTooMuch, ReadTimesOut, ReadFails, CheckAnswer,
           CheckGarbage, CloseDevice, ExitHid, UseAfterExit
  <2>. QED  BY <2>1 DEF Go
<1>4. claim[d] # None =>
         claim[d] \in Call /\ pc'[claim[d]] = pc[claim[d]] /\ result'[claim[d]] = result[claim[d]]
  BY <1>1, <1>3
<1>5. /\ claim'[d] = claim[d] /\ queue'[d] = queue[d] /\ fifo'[d] = fifo[d]
      /\ pending'[d] = pending[d]
      /\ \A b \in Call : b # c => buf'[b] = buf[b]
  <2>1. CASE UNCHANGED <<claim, queue, fifo, pending, buf>>
    BY <2>1
  <2>2. CASE OpenDevice(c)
    <3>1. PICK e \in Device : OpenPath(c, e)
      BY <2>2 DEF OpenDevice, At, TypeOK, HidTypeOK
    <3>2. e # d
      BY <1>1, <3>1 DEF OpenPath
    <3>. QED  BY <1>1, <2>2, <3>1, <3>2 DEF OpenDevice, OpenPath
  <2>3. CASE SendPDU(c)
    BY <1>1, <1>2, <2>3 DEF SendPDU, Go, Write, HandleOpen
  <2>4. CASE ReadReport(c)
    BY <1>1, <1>2, <2>4 DEF ReadReport, ReturnData, HandleOpen
  <2>5. CASE ReadTooMuch(c)
    BY <1>1, <1>2, <2>5 DEF ReadTooMuch, ReturnData, HandleOpen
  <2>6. CASE CloseDevice(c)
    BY <1>1, <1>2, <2>6 DEF CloseDevice, Go, Close, HandleOpen
  <2>7. CASE Start(c) \/ DeviceNotFound(c) \/ InitFails(c) \/ OpenFails(c) \/ SendFails(c)
    <3>1. UNCHANGED <<claim, queue, fifo, pending, buf>>
      BY <2>7 DEF Start, DeviceNotFound, InitFails, OpenFails, SendFails, InitOnly, hidVars
    <3>. QED  BY <2>1, <3>1
  <2>8. CASE SendCutShort(c) \/ ReadTimesOut(c) \/ ReadFails(c) \/ CheckAnswer(c)
             \/ CheckGarbage(c) \/ ExitHid(c) \/ UseAfterExit(c)
    <3>1. UNCHANGED <<claim, queue, fifo, pending, buf>>
      BY <2>8 DEF SendCutShort, ReadTimesOut, ReadFails, CheckAnswer, CheckGarbage, ExitHid, Exit,
                  UseAfterExit, hidVars
    <3>. QED  BY <2>1, <3>1
  <2>. QED  BY <2>2, <2>3, <2>4, <2>5, <2>6, <2>7, <2>8 DEF CallStep
<1>. QED  BY <1>4, <1>5, LinkOther

\* What the step that opens the token is to TokenLink.
LEMMA OpenStep ==
    ASSUME TypeOK, HandleReleased, AnswerInv, Alive, NEW d \in Device, NEW c \in Call,
           Start(c) \/ CallStep(c), claim[d] # c, claim'[d] = c
    PROVE  Link(d)!Begin(Arg[c].fun, c)
<1>1. /\ claim \in [Device -> Call \cup {None}] /\ queue \in [Device -> Seq(Packet)]
      /\ fifo \in [Device -> Seq(Packet)]
      /\ pc \in [Call -> Stage] /\ buf \in [Call -> Seq(Packet)] /\ c # None
  BY CallAssumption DEF TypeOK, HidTypeOK, CallTypeOK
<1>2. OpenDevice(c)
  <2>1. CASE UNCHANGED claim
    BY <2>1
  <2>2. CASE CloseDevice(c)
    BY <1>1, <2>2 DEF CloseDevice, Close
  <2>3. Start(c) \/ DeviceNotFound(c) \/ InitFails(c) \/ OpenFails(c) \/ SendPDU(c)
        \/ SendFails(c) \/ SendCutShort(c) => UNCHANGED claim
    BY DEF Start, DeviceNotFound, InitFails, OpenFails, SendPDU, Write, SendFails, SendCutShort,
           InitOnly, hidVars
  <2>4. ReadReport(c) \/ ReadTooMuch(c) \/ ReadTimesOut(c) \/ ReadFails(c) \/ CheckAnswer(c)
        \/ CheckGarbage(c) \/ ExitHid(c) \/ UseAfterExit(c) => UNCHANGED claim
    BY DEF ReadReport, ReadTooMuch, ReturnData, ReadTimesOut, ReadFails, CheckAnswer, CheckGarbage,
           ExitHid, Exit, UseAfterExit, hidVars
  <2>. QED  BY <2>1, <2>2, <2>3, <2>4 DEF CallStep
<1>3. PICK e \in Device : OpenPath(c, e)
  BY <1>2 DEF OpenDevice, At, TypeOK, HidTypeOK
<1>4. e = d /\ claim[d] = None /\ queue[d] = <<>>
  BY <1>1, <1>3 DEF OpenPath, AnswerInv, HandlesHeld
<1>5. queue'[d] = <<>> /\ fifo'[d] = fifo[d] /\ pending'[d] = pending[d]
  BY <1>1, <1>3, <1>4 DEF OpenPath
<1>6. pc'[c] = "send"
  BY <1>1, <1>2 DEF OpenDevice, Go
<1>7. LinkCall(d) = None /\ Unused(d) = <<>>
  BY <1>4, ViewNone
<1>8. LinkCall(d)' = Told(c, "send", result'[c], buf'[c]) /\ Unused(d)' = <<>>
  BY <1>1, <1>6, ViewNext DEF Has
<1>9. LinkCall(d)' = [fun |-> Arg[c].fun, ask |-> c, said |-> None, state |-> "begun"]
  BY <1>8, SaysWhat DEF Told
<1>10. LinkRequests(d)' = LinkRequests(d) /\ LinkAnswers(d)' = LinkAnswers(d)
  BY <1>4, <1>5, <1>7, <1>8 DEF LinkRequests, LinkAnswers, Left
<1>. QED  BY <1>7, <1>9, <1>10 DEF Link!Begin

\* A call that is seen is not none.
LEMMA ToldNotNone ==
    ASSUME NEW d \in Device, NEW c \in Call, NEW f, f = Arg[c].fun, NEW p, NEW r, NEW b,
           Says(p, r) \notin {"SUCCESS", "STATE"} \/ Head(b).of \in Call
    PROVE  Told(c, p, r, b) # None
<1>1. Says(p, r) \in {"begun", "sent", "SUCCESS", "STATE", "failed"}
  BY DEF Says
<1>2. Told(c, p, r, b) \in Link(d)!OpenCall
  BY <1>1 DEF Told, Link!OpenCall
<1>. QED  BY <1>2, NoneIsNoCall

\* The call that has the token open fails and forgets what it has read.
LEMMA FailStep ==
    ASSUME TypeOK, TypeOK', NEW d \in Device, NEW c \in Call, c # None,
           claim[d] = c, claim'[d] = c, pc[c] \in {"send", "recv", "check"},
           pc'[c] = "close", result'[c] \notin {"SUCCESS", "STATE"},
           LinkRequests(d)' = LinkRequests(d), Suffix(LinkAnswers(d)', LinkAnswers(d))
    PROVE  Link(d)!Fail
<1>1. LinkCall(d) = Told(c, pc[c], result[c], buf[c])
  BY View
<1>2. LinkCall(d)' = Told(c, "close", result'[c], buf'[c])
  BY ViewNext
<1>3. Says(pc[c], result[c]) \in {"begun", "sent"} /\ Says("close", result'[c]) = "failed"
  BY SaysWhat
<1>4. /\ LinkCall(d) = [fun |-> Arg[c].fun, ask |-> c, state |-> Says(pc[c], result[c]), said |-> None]
      /\ LinkCall(d)' = [fun |-> Arg[c].fun, ask |-> c, state |-> "failed", said |-> None]
  BY <1>1, <1>2, <1>3 DEF Told
<1>5. LinkCall(d) # None /\ LinkCall(d).state \in {"begun", "sent"}
  <2>1. LinkCall(d) # None
    BY <1>1, <1>3, ToldNotNone
  <2>. QED  BY <1>3, <1>4, <2>1
<1>6. LinkCall(d)' = [LinkCall(d) EXCEPT !.state = "failed"]
  BY <1>4
<1>7. Link(d)!Leave(LinkAnswers(d))
  BY Leaves
<1>. QED  BY <1>5, <1>6, <1>7 DEF Link!Fail

LEMMA HeadTailOfConcat ==
    ASSUME NEW x, x \in Replied, NEW r \in Seq(Replied)
    PROVE  <<x>> \o r # <<>> /\ Head(<<x>> \o r) = x /\ Tail(<<x>> \o r) = r
<1>1. PICK y \in Seq(Replied) : y = <<x>> /\ Len(y) = 1 /\ y[1] = x
  <2>1. <<x>> \in Seq(Replied) /\ Len(<<x>>) = 1 /\ <<x>>[1] = x
    OBVIOUS
  <2>. QED  BY <2>1
<1>2. PICK z \in Seq(Replied) :
          /\ z = <<x>> \o r /\ Len(z) = 1 + Len(r) /\ z[1] = x
          /\ \A i \in 1..Len(r) : z[1 + i] = r[i]
  <2>1. /\ y \o r \in Seq(Replied) /\ Len(y \o r) = Len(y) + Len(r)
        /\ \A i \in 1..Len(y) + Len(r) :
              (y \o r)[i] = IF i <= Len(y) THEN y[i] ELSE r[i - Len(y)]
    BY ConcatProperties
  <2>2. PICK z \in Seq(Replied) :
            /\ z = y \o r /\ Len(z) = 1 + Len(r)
            /\ \A i \in 1..1 + Len(r) : z[i] = IF i <= 1 THEN y[i] ELSE r[i - 1]
    BY <1>1, <2>1
  <2>3. z[1] = x /\ \A i \in 1..Len(r) : z[1 + i] = r[i]
    <3>1. Len(r) \in Nat
      OBVIOUS
    <3>2. \A i \in 1..Len(r) : 1 + i \in 1..1 + Len(r) /\ ~(1 + i <= 1) /\ (1 + i) - 1 = i
      BY <3>1
    <3>. QED  BY <1>1, <2>2, <3>1, <3>2
  <2>. QED  BY <1>1, <2>2, <2>3
<1>3. z # <<>> /\ Head(z) = x
  BY <1>2
<1>4. /\ Tail(z) \in Seq(Replied) /\ Len(Tail(z)) = Len(z) - 1
      /\ \A i \in 1..Len(Tail(z)) : Tail(z)[i] = z[i + 1]
  BY <1>3, HeadTailProperties
<1>5. Len(Tail(z)) = Len(r) /\ \A i \in 1..Len(r) : Tail(z)[i] = r[i]
  BY <1>2, <1>4
<1>6. Tail(z) = r
  BY <1>4, <1>5, SeqEqual
<1>. QED  BY <1>2, <1>3, <1>6

\* Of the answers left, the call takes the first, for a request like its own.
LEMMA TakeStep ==
    ASSUME TypeOK, TypeOK', NEW d \in Device, NEW c \in Call, c # None,
           claim[d] = c, claim'[d] = c, pc[c] = "check", pc'[c] = "close",
           NEW p \in Packet, NEW b \in Seq(Packet), b # <<>>, p = Head(b),
           buf[c] = b, buf'[c] = b, p.at = 0, Arg[p.of].fun = Arg[c].fun,
           result'[c] = IF p.ok THEN "SUCCESS" ELSE "STATE",
           LinkRequests(d)' = LinkRequests(d), Left(d)' = Left(d)
    PROVE  Link(d)!Take
<1>1. LinkCall(d) = Told(c, "check", result[c], b) /\ Unused(d) = b
  BY View DEF Has
<1>2. LinkCall(d)' = Told(c, "close", result'[c], b) /\ Unused(d)' = <<>>
  BY ViewNext DEF Has
<1>3. LinkCall(d) = [fun |-> Arg[c].fun, ask |-> c, state |-> "sent", said |-> None]
  BY <1>1, SaysWhat DEF Told
<1>4. LinkCall(d)' = [fun |-> Arg[c].fun, ask |-> c, state |-> result'[c], said |-> p.of]
  <2>1. Says("close", result'[c]) = result'[c] /\ result'[c] \in {"SUCCESS", "STATE"}
    BY SaysWhat
  <2>. QED  BY <1>2, <2>1 DEF Told
<1>5. LinkCall(d) # None /\ LinkCall(d).state = "sent"
  <2>1. LinkCall(d) # None
    BY <1>1, SaysWhat, ToldNotNone
  <2>. QED  BY <1>3, <2>1
<1>6. PICK u \in Seq(Packet) : u = Left(d)
  BY LinkTypes
<1>7. PICK t \in Seq(Packet) : t = Tail(b) /\ b = <<p>> \o t /\ <<p>> \in Seq(Packet)
  <2>1. Tail(b) \in Seq(Packet) /\ <<p>> \in Seq(Packet)
    BY HeadTailProperties
  <2>2. Append(<<>>, p) \o Tail(b) = <<>> \o b
    BY Moved
  <2>3. Append(<<>>, p) = <<p>> /\ <<>> \o b = b
    BY ConcatEmptySeq
  <2>. QED  BY <2>1, <2>2, <2>3
<1>8. PICK o \in Seq(Packet) : o = <<p>> /\ o # <<>> /\ Len(o) = 1 /\ o[1] = p
  BY <1>7
<1>9. PICK s \in Seq(Packet) : s = t \o u /\ b \o u = o \o s
  <2>1. (o \o t) \o u = o \o (t \o u) /\ t \o u \in Seq(Packet)
    BY ThreeInARow
  <2>. QED  BY <1>7, <1>8, <2>1
<1>10. LinkAnswers(d) = <<ReplyOf(p)>> \o Replies[s]
  <2>1. \A i \in 1..Len(o) : o[i].at = 0 <=> i = 1
    BY <1>8
  <2>2. Replies[o] = <<ReplyOf(o[1])>>
    BY <1>8, <2>1, OneReply
  <2>3. Replies[o \o s] = Replies[o] \o Replies[s]
    BY RepliesConcat
  <2>4. LinkAnswers(d) = Replies[o \o s]
    BY <1>1, <1>6, <1>9 DEF LinkAnswers
  <2>. QED  BY <1>8, <2>2, <2>3, <2>4
<1>11. PICK r \in Seq(Replied) : r = Replies[s]
  BY RepliesType
<1>12. /\ LinkAnswers(d) # <<>> /\ Head(LinkAnswers(d)) = ReplyOf(p)
       /\ Tail(LinkAnswers(d)) = r
  <2>1. ReplyOf(p) \in Replied
    BY DEF Replied
  <2>2. <<ReplyOf(p)>> \o r # <<>> /\ Head(<<ReplyOf(p)>> \o r) = ReplyOf(p)
        /\ Tail(<<ReplyOf(p)>> \o r) = r
    BY <2>1, HeadTailOfConcat
  <2>. QED  BY <1>10, <1>11, <2>2
<1>13. Suffix(LinkAnswers(d)', r)
  <2>1. LinkAnswers(d)' = Replies[u]
    BY <1>2, <1>6, ConcatEmptySeq DEF LinkAnswers
  <2>2. Suffix(Replies[u], Replies[t \o u])
    BY RepliesLeft
  <2>. QED  BY <1>9, <1>11, <2>1, <2>2
<1>14. Link(d)!Leave(Tail(LinkAnswers(d)))
  BY <1>12, <1>13, Leaves
<1>15. ReplyOf(p).fun = Arg[c].fun /\ ReplyOf(p).said = p.of /\ ReplyOf(p).ok = p.ok
  BY DEF ReplyOf
<1>16. LinkCall(d)' = [LinkCall(d) EXCEPT !.state = result'[c], !.said = p.of]
  <2>. DEFINE sent == [fun |-> Arg[c].fun, ask |-> c, state |-> "sent", said |-> None]
  <2>1. DOMAIN sent = {"fun", "ask", "state", "said"}
    OBVIOUS
  <2>2. LinkCall(d)' = [f \in DOMAIN sent |-> IF f = "said" THEN p.of
                                              ELSE IF f = "state" THEN result'[c] ELSE sent[f]]
    BY <1>4, <2>1
  <2>3. [sent EXCEPT !.state = result'[c], !.said = p.of]
          = [f \in DOMAIN sent |-> IF f = "said" THEN p.of
                                    ELSE IF f = "state" THEN result'[c] ELSE sent[f]]
    OBVIOUS
  <2>. QED  BY <1>3, <2>2, <2>3
<1>17. LinkCall(d).fun = Arg[c].fun
  BY <1>3
<1>. QED  BY <1>5, <1>12, <1>14, <1>15, <1>16, <1>17 DEF Link!Take

\* A report that is read is still before those that are not.
LEMMA MovedAcross ==
    ASSUME NEW b \in Seq(Packet), NEW q \in Seq(Packet), NEW f \in Seq(Packet), q # <<>>
    PROVE  /\ Append(b, Head(q)) \in Seq(Packet)
           /\ Append(b, Head(q)) \o (Tail(q) \o f) = b \o (q \o f)
<1>1. PICK o \in Seq(Packet), t \in Seq(Packet) : o = Append(b, Head(q)) /\ t = Tail(q)
  <2>1. Tail(q) \in Seq(Packet) /\ Append(b, Head(q)) \in Seq(Packet)
    BY HeadTailProperties, AppendProperties
  <2>. QED  BY <2>1
<1>2. o \o t = b \o q
  BY <1>1, Moved
<1>3. (o \o t) \o f = o \o (t \o f)
  <2>1. Flat(o, t, f)
    BY InARow
  <2>. QED  BY <2>1 DEF Flat
<1>4. (b \o q) \o f = b \o (q \o f)
  <2>1. Flat(b, q, f)
    BY InARow
  <2>. QED  BY <2>1 DEF Flat
<1>. QED  BY <1>1, <1>2, <1>3, <1>4

(* A call that tells its caller the token refused its request has read that.    *)
RefusalRead == \A c \in Call : pc[c] = "close" /\ result[c] = "STATE" => buf[c] # <<>>

LEMMA RefusalKept ==
    ASSUME TypeOK, RefusalRead, [Next]_vars
    PROVE  RefusalRead'
<1>1. /\ pc \in [Call -> Stage] /\ result \in [Call -> Result] /\ buf \in [Call -> Seq(Packet)]
      /\ queue \in [Device -> Seq(Packet)] /\ opened \in [Call -> Device \cup {NoDevice}]
  BY DEF TypeOK, HidTypeOK, CallTypeOK
<1>2. CASE UNCHANGED callVars
  BY <1>2 DEF callVars, RefusalRead
<1>3. ASSUME NEW c \in Call, Start(c) \/ CallStep(c)
      PROVE  RefusalRead'
  <2>1. PICK p, r : pc' = [pc EXCEPT ![c] = p] /\ result' = [result EXCEPT ![c] = r]
    <3>1. \E from, to, r : Go(c, from, to, r)
      BY <1>3 DEF CallStep, Start, OpenDevice, DeviceNotFound, InitFails, OpenFails, SendPDU,
             SendFails, SendCutShort, ReadReport, ReadTooMuch, ReadTimesOut, ReadFails,
             CheckAnswer, CheckGarbage, CloseDevice, ExitHid, UseAfterExit
    <3>. QED  BY <3>1 DEF Go
  <2>2. \A b \in Call : b # c => pc'[b] = pc[b] /\ result'[b] = result[b]
    BY <1>1, <2>1
  <2>3. CASE ReadReport(c)
    <3>1. pc'[c] # "close" /\ \A b \in Call : b # c => buf'[b] = buf[b]
      BY <1>1, <2>3 DEF ReadReport, Go
    <3>. QED  BY <2>2, <3>1 DEF RefusalRead
  <2>4. CASE CheckAnswer(c) \/ CheckGarbage(c)
    <3>1. UNCHANGED buf /\ buf[c] # <<>>
      BY <2>4 DEF CheckAnswer, CheckGarbage, Go, TypeOK, LocalOK
    <3>. QED  BY <2>2, <3>1 DEF RefusalRead
  <2>5. CASE Start(c) \/ OpenDevice(c) \/ DeviceNotFound(c) \/ InitFails(c) \/ OpenFails(c)
             \/ SendPDU(c) \/ SendFails(c) \/ SendCutShort(c)
    <3>1. UNCHANGED buf /\ (pc'[c] # "close" \/ result'[c] # "STATE")
      BY <1>1, <2>5 DEF Start, OpenDevice, DeviceNotFound, InitFails, OpenFails, SendPDU, SendFails,
                        SendCutShort, Go
    <3>. QED  BY <2>2, <3>1 DEF RefusalRead
  <2>6. CASE ReadTooMuch(c) \/ ReadTimesOut(c) \/ ReadFails(c) \/ CloseDevice(c) \/ ExitHid(c)
             \/ UseAfterExit(c)
    <3>1. UNCHANGED buf /\ (pc'[c] # "close" \/ result'[c] # "STATE")
      BY <1>1, <2>6 DEF ReadTooMuch, ReadTimesOut, ReadFails, CloseDevice, ExitHid, UseAfterExit, Go
    <3>. QED  BY <2>2, <3>1 DEF RefusalRead
  <2>. QED  BY <1>3, <2>3, <2>4, <2>5, <2>6 DEF CallStep
<1>. QED  BY <1>2, <1>3 DEF Next, GetCount, vars

LEMMA RefusalsRead == Spec => []RefusalRead
<1>1. Init => RefusalRead
  BY DEF Init, RefusalRead
<1>. QED  BY <1>1, RefusalKept, HidTypeCorrect, PTL DEF Spec

\* A step of the call that has the token open.
LEMMA HolderStep ==
    ASSUME TypeOK, TypeOK', HandleReleased, AnswerInv, RefusalRead, Alive, "alias" \notin Faults,
           NEW d \in Device, NEW c \in Call, Start(c) \/ CallStep(c), claim[d] = c
    PROVE  UNCHANGED Link(d)!linkVars \/ Link(d)!LinkNext
<1>1. /\ pc \in [Call -> Stage] /\ result \in [Call -> Result] /\ buf \in [Call -> Seq(Packet)]
      /\ claim \in [Device -> Call \cup {None}] /\ queue \in [Device -> Seq(Packet)]
      /\ fifo \in [Device -> Seq(Packet)] /\ pending \in [Device -> Seq(Call)]
  BY DEF TypeOK, HidTypeOK, CallTypeOK
<1>2. /\ c # None /\ opened[c] = d /\ pc[c] \in {"send", "recv", "check", "close"}
      /\ pc[c] # "crashed"
  BY CallAssumption, Holder DEF HandleOpen
<1>3. LinkCall(d) = Told(c, pc[c], result[c], buf[c]) /\ Unused(d) = Has(pc[c], buf[c])
  BY <1>2, View
<1>4. /\ Unused(d) \in Seq(Packet) /\ Left(d) \in Seq(Packet)
      /\ buf[c] \in Seq(Packet) /\ queue[d] \in Seq(Packet) /\ fifo[d] \in Seq(Packet)
  BY <1>1, LinkTypes
<1>5. CASE SendPDU(c) \/ SendFails(c)
  <2>1. /\ pc[c] = "send" /\ pc'[c] = "recv" /\ UNCHANGED <<claim, queue, fifo, buf>>
        /\ pending'[d] \in {pending[d], Append(pending[d], c)}
    BY <1>1, <1>2, <1>5 DEF SendPDU, SendFails, Go, Write, hidVars
  <2>2. buf[c] = <<>>
    BY <2>1 DEF AnswerInv, GatheredInOrder
  <2>3. LinkCall(d)' = Told(c, "recv", result'[c], buf[c]) /\ Unused(d)' = Has("recv", buf[c])
    BY <1>2, <2>1, ViewNext
  <2>4. LinkAnswers(d)' = LinkAnswers(d)
    BY <1>3, <2>1, <2>2, <2>3 DEF LinkAnswers, Left, Has
  <2>5. /\ LinkCall(d) = [fun |-> Arg[c].fun, ask |-> c, state |-> "begun", said |-> None]
        /\ LinkCall(d)' = [fun |-> Arg[c].fun, ask |-> c, state |-> "sent", said |-> None]
    BY <1>3, <2>1, <2>3, SaysWhat DEF Told
  <2>6. LinkCall(d) # None
    BY <1>3, <2>1, SaysWhat, ToldNotNone
  <2>7. LinkRequests(d)' \in {LinkRequests(d), Append(LinkRequests(d), Seen(c))}
    <3>1. PICK s \in Seq(Call) : s = pending[d]
      BY <1>1
    <3>2. SeenAll(pending'[d]) \in {SeenAll(s), Append(SeenAll(s), Seen(c))}
      BY <2>1, <3>1, SeenAdded
    <3>. QED  BY <3>1, <3>2, RequestsSeen
  <2>8. Seen(c) = [fun |-> LinkCall(d).fun, ask |-> LinkCall(d).ask]
    BY <2>5 DEF Seen
  <2>9. LinkCall(d)' = [LinkCall(d) EXCEPT !.state = "sent"] /\ LinkCall(d).state = "begun"
    BY <2>5
  <2>10. Link(d)!Send
    BY <2>4, <2>6, <2>7, <2>8, <2>9 DEF Link!Send
  <2>. QED  BY <2>10 DEF Link!LinkNext
<1>6. CASE SendCutShort(c)
  <2>1. /\ pc[c] = "send" /\ pc'[c] = "close" /\ result'[c] = "TRANSFER"
        /\ UNCHANGED <<claim, queue, fifo, buf, pending>>
    BY <1>1, <1>6 DEF SendCutShort, Go, hidVars
  <2>2. LinkRequests(d)' = LinkRequests(d) /\ Left(d)' = Left(d)
    BY <2>1 DEF LinkRequests, Left
  <2>3. Unused(d)' = <<>>
    BY <1>2, <2>1, ViewNext DEF Has
  <2>4. Link(d)!Fail
    BY <1>2, <2>1, <2>2, <2>3, Forgotten, FailStep
  <2>. QED  BY <2>4 DEF Link!LinkNext
<1>7. CASE ReadReport(c)
  <2>1. /\ pc[c] = "recv" /\ pc'[c] \in {"recv", "check"} /\ UNCHANGED <<claim, pending>>
        /\ buf'[c] = Append(buf[c], Head(queue[d])) /\ queue[d] # <<>>
        /\ queue'[d] = Tail(queue[d]) /\ fifo'[d] = fifo[d]
    BY <1>1, <1>2, <1>7 DEF ReadReport, Go, ReturnData
  <2>2. Unused(d)' = Append(buf[c], Head(queue[d])) /\ Unused(d) = buf[c]
    BY <1>2, <1>3, <2>1, ViewNext DEF Has
  <2>3. Unused(d)' \o Left(d)' = Unused(d) \o Left(d)
    <3>1. /\ Append(buf[c], Head(queue[d])) \in Seq(Packet)
          /\ Append(buf[c], Head(queue[d])) \o (Tail(queue[d]) \o fifo[d])
               = buf[c] \o (queue[d] \o fifo[d])
      <4>1. PICK b \in Seq(Packet), q \in Seq(Packet), f \in Seq(Packet) :
                b = buf[c] /\ q = queue[d] /\ f = fifo[d]
        BY <1>4
      <4>2. q # <<>>
        BY <2>1, <4>1
      <4>3. /\ Append(b, Head(q)) \in Seq(Packet)
            /\ Append(b, Head(q)) \o (Tail(q) \o f) = b \o (q \o f)
        BY <4>2, MovedAcross, Zenon
      <4>. QED  BY ONLY <4>1, <4>3
    <3>2. Left(d)' = Tail(queue[d]) \o fifo[d] /\ Left(d) = queue[d] \o fifo[d]
      BY <2>1 DEF Left
    <3>. QED  BY <2>2, <3>1, <3>2
  <2>4. LinkCall(d)' = LinkCall(d)
    <3>1. LinkCall(d)' = Told(c, pc'[c], result'[c], buf'[c])
      BY <1>2, <2>1, ViewNext
    <3>. QED  BY <1>3, <2>1, <3>1, SaysWhat DEF Told
  <2>5. LinkRequests(d)' = LinkRequests(d) /\ LinkAnswers(d)' = LinkAnswers(d)
    BY <2>1, <2>3 DEF LinkRequests, LinkAnswers
  <2>. QED  BY <2>4, <2>5, LinkStutters
<1>8. CASE ReadTooMuch(c)
  <2>1. /\ pc[c] = "recv" /\ pc'[c] = "close" /\ result'[c] = "ARG" /\ UNCHANGED <<claim, pending>>
        /\ queue[d] # <<>> /\ queue'[d] = Tail(queue[d]) /\ fifo'[d] = fifo[d]
    BY <1>1, <1>2, <1>8 DEF ReadTooMuch, Go, ReturnData
  <2>2. Unused(d)' = <<>> /\ Unused(d) = buf[c]
    BY <1>2, <1>3, <2>1, ViewNext DEF Has
  <2>3. \E s \in Seq(Packet) : Unused(d) \o Left(d) = s \o Left(d)'
    <3>1. /\ Append(buf[c], Head(queue[d])) \in Seq(Packet)
          /\ Append(buf[c], Head(queue[d])) \o (Tail(queue[d]) \o fifo[d])
               = buf[c] \o (queue[d] \o fifo[d])
      <4>1. PICK b \in Seq(Packet), q \in Seq(Packet), f \in Seq(Packet) :
                b = buf[c] /\ q = queue[d] /\ f = fifo[d]
        BY <1>4
      <4>2. q # <<>>
        BY <2>1, <4>1
      <4>3. /\ Append(b, Head(q)) \in Seq(Packet)
            /\ Append(b, Head(q)) \o (Tail(q) \o f) = b \o (q \o f)
        BY <4>2, MovedAcross, Zenon
      <4>. QED  BY ONLY <4>1, <4>3
    <3>2. Left(d)' = Tail(queue[d]) \o fifo[d] /\ Left(d) = queue[d] \o fifo[d]
      BY <2>1 DEF Left
    <3>. QED  BY <2>2, <3>1, <3>2
  <2>4. Suffix(LinkAnswers(d)', LinkAnswers(d))
    BY <2>2, <2>3, Dropped
  <2>5. LinkRequests(d)' = LinkRequests(d)
    BY <2>1 DEF LinkRequests
  <2>6. Link(d)!Fail
    BY <1>2, <2>1, <2>4, <2>5, FailStep
  <2>. QED  BY <2>6 DEF Link!LinkNext
<1>9. CASE ReadTimesOut(c) \/ ReadFails(c) \/ UseAfterExit(c)
  <2>1. UNCHANGED <<claim, queue, fifo, buf, pending>>
    BY <1>9 DEF ReadTimesOut, ReadFails, UseAfterExit, hidVars
  <2>2. LinkRequests(d)' = LinkRequests(d) /\ Left(d)' = Left(d)
    BY <2>1 DEF LinkRequests, Left
  <2>3. CASE pc[c] = "recv" /\ pc'[c] = "close" /\ result'[c] \in {"ARG", "TRANSFER"}
    <3>1. Unused(d)' = <<>>
      BY <1>2, <2>1, <2>3, ViewNext DEF Has
    <3>2. Link(d)!Fail
      BY <1>2, <2>1, <2>2, <2>3, <3>1, Forgotten, FailStep
    <3>. QED  BY <3>2 DEF Link!LinkNext
  <2>4. CASE pc[c] = "recv" /\ pc'[c] = "check"
    <3>1. LinkCall(d)' = LinkCall(d) /\ Unused(d)' = Unused(d)
      <4>1. LinkCall(d)' = Told(c, "check", result'[c], buf[c]) /\ Unused(d)' = Has("check", buf[c])
        BY <1>2, <2>1, <2>4, ViewNext
      <4>. QED  BY <1>3, <2>4, <4>1, SaysWhat DEF Told, Has
    <3>2. LinkAnswers(d)' = LinkAnswers(d)
      BY <2>2, <3>1 DEF LinkAnswers
    <3>. QED  BY <2>2, <3>1, <3>2, LinkStutters
  <2>5. CASE pc'[c] = "crashed"
    <3>1. LinkCall(d)' = None /\ Unused(d)' = <<>>
      BY <2>1, <2>5, ViewNoneNext
    <3>2. Link(d)!Leave(LinkAnswers(d))
      BY <2>2, <3>1, Forgotten, Leaves
    <3>3. Link(d)!Crash
      BY <3>1, <3>2 DEF Link!Crash
    <3>. QED  BY <3>3 DEF Link!LinkNext
  <2>6. \/ pc[c] = "recv" /\ pc'[c] = "close" /\ result'[c] \in {"ARG", "TRANSFER"}
        \/ pc[c] = "recv" /\ pc'[c] = "check"
        \/ pc'[c] = "crashed"
    BY <1>1, <1>9 DEF ReadTimesOut, ReadFails, UseAfterExit, Go
  <2>. QED  BY <2>3, <2>4, <2>5, <2>6
<1>10. CASE CheckAnswer(c)
  <2>1. /\ pc[c] = "check" /\ pc'[c] = "close" /\ UNCHANGED <<claim, queue, fifo, buf, pending>>
        /\ result'[c] = IF Head(buf[c]).at = 0
                        THEN Verdict(c, Head(buf[c]).of, Head(buf[c]).ok) ELSE "CHECK"
    BY <1>1, <1>10 DEF CheckAnswer, Go, hidVars
  <2>2. LinkRequests(d)' = LinkRequests(d) /\ Left(d)' = Left(d)
    BY <2>1 DEF LinkRequests, Left
  <2>3. CASE result'[c] \notin {"SUCCESS", "STATE"}
    <3>1. Unused(d)' = <<>>
      BY <1>2, <2>1, ViewNext DEF Has
    <3>2. Link(d)!Fail
      BY <1>2, <2>1, <2>2, <2>3, <3>1, Forgotten, FailStep
    <3>. QED  BY <3>2 DEF Link!LinkNext
  <2>4. CASE result'[c] \in {"SUCCESS", "STATE"}
    <3>1. buf[c] # <<>>
      BY <2>1 DEF TypeOK, LocalOK
    <3>2. PICK p \in Packet : p = Head(buf[c])
      BY <1>4, <3>1, HeadTailProperties
    <3>3. /\ p.at = 0 /\ Arg[p.of].fun = Arg[c].fun
          /\ result'[c] = IF p.ok THEN "SUCCESS" ELSE "STATE"
      BY <2>1, <2>4, <3>2 DEF Verdict
    <3>4. Link(d)!Take
      BY <1>2, <1>4, <2>1, <2>2, <3>1, <3>2, <3>3, TakeStep
    <3>. QED  BY <3>4 DEF Link!LinkNext
  <2>. QED  BY <2>3, <2>4
<1>11. CASE CloseDevice(c)
  <2>1. /\ pc[c] = "close" /\ claim'[d] = None /\ queue'[d] = <<>> /\ UNCHANGED <<fifo, buf, pending>>
    BY <1>1, <1>2, <1>11 DEF CloseDevice, Go, Close
  <2>2. LinkCall(d)' = None /\ Unused(d)' = <<>>
    BY <2>1, ViewNoneNext
  <2>3. Unused(d) \o Left(d) = queue[d] \o Left(d)'
    <3>1. Left(d)' = fifo[d] /\ Left(d) = queue[d] \o fifo[d]
      BY <1>4, <2>1, ConcatEmptySeq DEF Left
    <3>2. Unused(d) = <<>>
      BY <1>3, <2>1 DEF Has
    <3>. QED  BY <1>4, <3>1, <3>2, ConcatEmptySeq
  <2>4. Suffix(LinkAnswers(d)', LinkAnswers(d))
    BY <1>4, <2>2, <2>3, Dropped
  <2>5. LinkRequests(d)' = LinkRequests(d)
    BY <2>1 DEF LinkRequests
  <2>6. Says("close", result[c]) \in {"SUCCESS", "STATE", "failed"}
    BY SaysWhat
  <2>7. LinkCall(d) # None /\ LinkCall(d).state \in {"SUCCESS", "STATE", "failed"}
    <3>1. LinkCall(d).state = Says("close", result[c])
      BY <1>3, <2>1 DEF Told
    <3>2. result[c] \in {"SUCCESS", "STATE"} => Head(buf[c]).of \in Call
      <4>1. result[c] \in {"SUCCESS", "STATE"} => buf[c] # <<>>
        BY <2>1 DEF AnswerInv, SuccessRight, Begins, RefusalRead
      <4>2. buf[c] # <<>> => Head(buf[c]) \in Packet
        BY <1>4, HeadTailProperties
      <4>. QED  BY <4>1, <4>2 DEF Packet
    <3>3. LinkCall(d) # None
      BY <1>3, <2>1, <2>6, <3>2, SaysWhat, ToldNotNone
    <3>. QED  BY <2>6, <3>1, <3>3
  <2>8. Link(d)!Return
    BY <2>2, <2>4, <2>5, <2>7, Leaves DEF Link!Return, Link!Ended
  <2>. QED  BY <2>8 DEF Link!LinkNext
<1>12. ~(Start(c) \/ OpenDevice(c) \/ DeviceNotFound(c) \/ InitFails(c) \/ OpenFails(c)
         \/ CheckGarbage(c) \/ ExitHid(c))
  BY <1>2 DEF Start, OpenDevice, DeviceNotFound, InitFails, OpenFails, CheckGarbage, ExitHid, Go
<1>. QED  BY <1>5, <1>6, <1>7, <1>8, <1>9, <1>10, <1>11, <1>12 DEF CallStep

\* A read thread moves a report, or ends: TokenLink sees nothing of it.
LEMMA ReadThreadStep ==
    ASSUME TypeOK, NoOverflow, NEW d \in Device, ReadThread(d), UNCHANGED callVars
    PROVE  UNCHANGED Link(d)!linkVars
<1>1. /\ UNCHANGED <<claim, pending>> /\ UNCHANGED <<pc, result, buf>>
      /\ queue \in [Device -> Seq(Packet)] /\ fifo \in [Device -> Seq(Packet)]
  BY DEF ReadThread, ReadCallback, Disconnected, callVars, TypeOK, HidTypeOK
<1>2. Left(d)' = Left(d)
  <2>1. CASE Disconnected(d)
    BY <2>1 DEF Disconnected, Left
  <2>2. CASE ReadCallback(d)
    <3>1. fifo[d] # <<>> /\ queue'[d] = Attach(queue[d], Head(fifo[d])) /\ fifo'[d] = Tail(fifo[d])
      BY <1>1, <2>2 DEF ReadCallback
    <3>2. Attach(queue[d], Head(fifo[d])) = Append(queue[d], Head(fifo[d]))
      <4>1. Len(queue[d]) \in Nat /\ QueueLimit \in Nat /\ Len(queue[d]) <= QueueLimit + 1
        BY <1>1, LengthAssumption DEF NoOverflow
      <4>. QED  BY <4>1 DEF Attach
    <3>3. Append(queue[d], Head(fifo[d])) \o Tail(fifo[d]) = queue[d] \o fifo[d]
      BY <1>1, <3>1, Moved
    <3>. QED  BY <3>1, <3>2, <3>3 DEF Left
  <2>. QED  BY <2>1, <2>2 DEF ReadThread
<1>3. LinkCall(d)' = LinkCall(d) /\ Unused(d)' = Unused(d) /\ LinkRequests(d)' = LinkRequests(d)
  BY <1>1 DEF LinkCall, Standing, Unused, Open, LinkRequests
<1>. QED  BY <1>2, <1>3, LinkStutters DEF LinkAnswers

\* The token executes the request that came first and answers it.
LEMMA ExecuteStep ==
    ASSUME TypeOK, NEW d \in Device, Execute(d), UNCHANGED callVars
    PROVE  \E ok \in BOOLEAN, said \in Call : Link(d)!Execute(ok, said)
<1>1. /\ UNCHANGED <<claim, queue>> /\ UNCHANGED <<pc, result, buf>>
      /\ queue[d] \in Seq(Packet) /\ fifo \in [Device -> Seq(Packet)] /\ pending \in [Device -> Seq(Call)]
      /\ pending[d] # <<>> /\ pending' = [pending EXCEPT ![d] = Tail(@)]
      /\ \E ok \in BOOLEAN : fifo' = [fifo EXCEPT ![d] = @ \o Answer(Head(pending[d]), ok)]
  BY DEF Execute, callVars, TypeOK, HidTypeOK
<1>2. PICK ok \in BOOLEAN : fifo'[d] = fifo[d] \o Answer(Head(pending[d]), ok)
  BY <1>1
<1>3. PICK asked \in Seq(Call) : asked = pending[d] /\ asked # <<>> /\ pending'[d] = Tail(asked)
  BY <1>1
<1>4. PICK b \in Call : b = Head(asked)
  BY <1>3, HeadTailProperties
<1>5. PICK a \in Seq(Packet) : a = Answer(b, ok)
  BY <1>4, AnswerRight
<1>6. a \in Seq(Packet) /\ a # <<>> /\ \A i \in 1..Len(a) : a[i].of = b /\ a[i].ok = ok /\ (a[i].at = 0 <=> i = 1)
  BY <1>5, AnswerRight
<1>7. Replies[a] = <<[fun |-> Arg[b].fun, said |-> b, ok |-> ok]>>
  <2>1. Replies[a] = <<ReplyOf(a[1])>>
    BY <1>6, OneReply
  <2>2. 1 \in 1..Len(a)
    BY <1>6
  <2>3. ReplyOf(a[1]) = [fun |-> Arg[b].fun, said |-> b, ok |-> ok]
    BY <1>6, <2>2 DEF ReplyOf
  <2>. QED  BY <2>1, <2>3
<1>8. LinkCall(d)' = LinkCall(d) /\ Unused(d)' = Unused(d)
  BY <1>1 DEF LinkCall, Standing, Unused, Open
<1>9. PICK w \in Seq(Packet), l \in Seq(Packet), q \in Seq(Packet), f \in Seq(Packet) :
          w = Unused(d) /\ l = Left(d) /\ q = queue[d] /\ f = fifo[d] /\ l = q \o f
  BY <1>1, LinkTypes DEF Left
<1>10. Left(d)' = l \o a
  <2>1. Flat(q, f, a)
    BY InARow
  <2>2. Left(d)' = q \o (f \o a)
    BY <1>1, <1>2, <1>3, <1>4, <1>5, <1>9 DEF Left
  <2>. QED  BY <1>9, <2>1, <2>2 DEF Flat
<1>11. PICK v \in Seq(Packet) : v = w \o l
  BY ThreeInARow
<1>12. LinkAnswers(d) = Replies[v] /\ LinkAnswers(d)' = Replies[v] \o Replies[a]
  <2>1. Flat(w, l, a)
    BY InARow
  <2>2. LinkAnswers(d)' = Replies[v \o a]
    BY <1>8, <1>9, <1>10, <1>11, <2>1 DEF LinkAnswers, Flat
  <2>3. Replies[v \o a] = Replies[v] \o Replies[a]
    BY <1>6, RepliesConcat
  <2>4. LinkAnswers(d) = Replies[v]
    BY <1>9, <1>11 DEF LinkAnswers
  <2>. QED  BY <2>2, <2>3, <2>4
<1>13. LinkAnswers(d)' = Append(LinkAnswers(d), [fun |-> Arg[b].fun, said |-> b, ok |-> ok])
  <2>1. PICK r \in Seq(Replied) : r = Replies[v]
    BY RepliesType
  <2>2. \A x : Append(r, x) = r \o <<x>>
    BY AppendIsConcat
  <2>. QED  BY <1>7, <1>12, <2>1, <2>2
<1>14. /\ LinkRequests(d) # <<>> /\ LinkRequests(d)' = Tail(LinkRequests(d))
       /\ Head(LinkRequests(d)).fun = Arg[b].fun
  <2>1. LinkRequests(d) = SeenAll(asked) /\ LinkRequests(d)' = SeenAll(Tail(asked))
    BY <1>3, RequestsSeen
  <2>2. SeenAll(asked) # <<>> /\ Head(SeenAll(asked)) = Seen(b) /\ SeenAll(Tail(asked)) = Tail(SeenAll(asked))
    BY <1>3, <1>4, SeenRest
  <2>3. Seen(b).fun = Arg[b].fun
    BY DEF Seen
  <2>. QED  BY <2>1, <2>2, <2>3
<1>15. Link(d)!Execute(ok, b)
  BY <1>8, <1>13, <1>14 DEF Link!Execute
<1>. QED  BY <1>15

\* A token that is unplugged loses the requests and what it has not handed over.
LEMMA UnplugStep ==
    ASSUME TypeOK, NEW d \in Device, Unplug(d), UNCHANGED callVars
    PROVE  Link(d)!Lose
<1>1. /\ UNCHANGED <<claim, queue>> /\ UNCHANGED <<pc, result, buf>>
      /\ queue[d] \in Seq(Packet) /\ fifo[d] \in Seq(Packet)
      /\ fifo'[d] = <<>> /\ pending'[d] = <<>>
  BY DEF Unplug, callVars, TypeOK, HidTypeOK
<1>2. LinkCall(d)' = LinkCall(d) /\ Unused(d)' = Unused(d)
  BY <1>1 DEF LinkCall, Standing, Unused, Open
<1>3. PICK u \in Seq(Packet), q \in Seq(Packet), f \in Seq(Packet), v \in Seq(Packet) :
          u = Unused(d) /\ q = queue[d] /\ f = fifo[d] /\ v = u \o q
  <2>1. Unused(d) \in Seq(Packet) /\ Unused(d) \o queue[d] \in Seq(Packet)
    BY <1>1, LinkTypes, ConcatProperties
  <2>. QED  BY <1>1, <2>1
<1>4. LinkAnswers(d) = Replies[v \o f]
  <2>1. (u \o q) \o f = u \o (q \o f)
    BY ThreeInARow
  <2>. QED  BY <1>3, <2>1 DEF LinkAnswers, Left
<1>5. LinkAnswers(d)' = Replies[v]
  <2>1. q \o <<>> = q
    BY ConcatEmptySeq
  <2>2. Left(d)' = q
    BY <1>1, <1>3, <2>1 DEF Left
  <2>. QED  BY <1>2, <1>3, <2>2 DEF LinkAnswers
<1>6. Prefix(Replies[v], Replies[v \o f])
  BY RepliesLeft
<1>7. PICK n \in 0..Len(LinkAnswers(d)) : LinkAnswers(d)' = SubSeq(LinkAnswers(d), 1, n)
  BY <1>4, <1>5, <1>6 DEF Prefix
<1>8. 1 \in 1..Len(LinkAnswers(d)) + 1
  <2>1. Len(LinkAnswers(d)) \in Nat
    BY LinkTypes
  <2>. QED  BY <2>1
<1>9. LinkRequests(d)' = <<>>
  <2>1. LinkRequests(d)' = SeenAll(<<>>)
    BY <1>1, RequestsSeen
  <2>2. SeenAll(<<>>) = <<>>
    BY SeenType, EmptySeq
  <2>. QED  BY <2>1, <2>2
<1>. QED  BY <1>2, <1>7, <1>8, <1>9 DEF Link!Lose

LEMMA LinkStep ==
    ASSUME TypeOK, TypeOK', HandleReleased, AnswerInv, RefusalRead, NoOverflow,
           "alias" \notin Faults, [Next]_vars, NEW d \in Device
    PROVE  UNCHANGED Link(d)!linkVars \/ Link(d)!LinkNext
<1>1. CASE UNCHANGED <<claim, queue, pending, fifo, callVars>>
  <2>1. UNCHANGED <<pc, result, buf, claim, queue, pending, fifo>>
    BY <1>1 DEF callVars
  <2>2. LinkCall(d)' = LinkCall(d) /\ Unused(d)' = Unused(d) /\ LinkRequests(d)' = LinkRequests(d)
        /\ Left(d)' = Left(d)
    BY <2>1 DEF LinkCall, Standing, Unused, Open, LinkRequests, Left
  <2>. QED  BY <2>2, LinkStutters DEF LinkAnswers
<1>2. CASE Alive /\ \E c \in Call : Start(c) \/ CallStep(c)
  <2>1. PICK c \in Call : Start(c) \/ CallStep(c)
    BY <1>2
  <2>2. CASE claim[d] = c
    BY <1>2, <2>1, <2>2, HolderStep
  <2>3. CASE claim[d] # c /\ claim'[d] # c
    BY <1>2, <2>1, <2>3, OtherStep
  <2>4. CASE claim[d] # c /\ claim'[d] = c
    <3>1. Link(d)!Begin(Arg[c].fun, c)
      BY <1>2, <2>1, <2>4, OpenStep
    <3>2. Arg[c].fun \in {Arg[b].fun : b \in Call}
      OBVIOUS
    <3>. QED  BY <3>1, <3>2 DEF Link!LinkNext
  <2>. QED  BY <2>2, <2>3, <2>4
<1>3. CASE \E e \in Device : HidStep(e) /\ UNCHANGED callVars
  <2>1. PICK e \in Device : HidStep(e) /\ UNCHANGED callVars
    BY <1>3
  <2>2. CASE e = d
    <3>1. CASE ReadThread(d)
      BY <2>1, <3>1, ReadThreadStep
    <3>2. CASE Execute(d)
      <4>1. \E ok \in BOOLEAN, said \in Call : Link(d)!Execute(ok, said)
        BY <2>1, <3>2, ExecuteStep
      <4>. QED  BY <4>1 DEF Link!LinkNext
    <3>3. CASE Unplug(d)
      BY <2>1, <3>3, UnplugStep DEF Link!LinkNext
    <3>4. CASE Plug(d)
      BY <1>1, <2>1, <3>4 DEF Plug
    <3>. QED  BY <2>1, <2>2, <3>1, <3>2, <3>3, <3>4 DEF HidStep
  <2>3. CASE e # d
    <3>1. /\ claim'[d] = claim[d] /\ queue'[d] = queue[d] /\ fifo'[d] = fifo[d]
          /\ pending'[d] = pending[d]
      BY <2>1, <2>3 DEF HidStep, ReadThread, ReadCallback, Disconnected, Execute, Unplug, Plug,
                        TypeOK, HidTypeOK
    <3>2. UNCHANGED <<pc, result, buf>>
      BY <2>1 DEF callVars
    <3>3. LinkCall(d)' = LinkCall(d) /\ Unused(d)' = Unused(d) /\ LinkRequests(d)' = LinkRequests(d)
          /\ Left(d)' = Left(d)
      BY <3>1, <3>2 DEF LinkCall, Standing, Unused, Open, LinkRequests, Left
    <3>. QED  BY <3>3, LinkStutters DEF LinkAnswers
  <2>. QED  BY <2>2, <2>3
<1>4. CASE GetCount
  BY <1>1, <1>4 DEF GetCount, InitOnly
<1>5. CASE UNCHANGED vars
  BY <1>1, <1>5 DEF vars, hidVars
<1>. QED  BY <1>2, <1>3, <1>4, <1>5 DEF Next

LEMMA LinkStart ==
    ASSUME Init, NEW d \in Device
    PROVE  Link(d)!LinkInit
<1>1. claim[d] = None /\ queue[d] = <<>> /\ fifo[d] = <<>> /\ pending[d] = <<>>
  BY DEF Init, HidInit
<1>2. LinkCall(d) = None /\ Unused(d) = <<>>
  BY <1>1, ViewNone
<1>3. LinkRequests(d) = <<>>
  <2>1. LinkRequests(d) = SeenAll(<<>>)
    BY <1>1, RequestsSeen
  <2>2. SeenAll(<<>>) = <<>>
    BY SeenType, EmptySeq
  <2>. QED  BY <2>1, <2>2
<1>4. LinkAnswers(d) = <<>>
  <2>1. <<>> \o <<>> = <<>>
    BY EmptySeq, ConcatEmptySeq, Zenon
  <2>2. Left(d) = <<>>
    BY <1>1, <2>1 DEF Left
  <2>3. PICK e \in Seq(Packet) : e = <<>>
    BY EmptySeq
  <2>4. \A i \in 1..Len(e) : e[i].at # 0
    BY <2>3
  <2>5. Replies[e] = <<>>
    BY <2>4, NoReplies
  <2>. QED  BY <1>2, <2>1, <2>2, <2>3, <2>5 DEF LinkAnswers
<1>. QED  BY <1>2, <1>3, <1>4 DEF Link!LinkInit

(* HidTransSendRec is to each token what TokenLink promises, for any number of  *)
(* calls, threads and tokens, whatever the calls that fail leave behind, as     *)
(* long as no queue drops a report and no data reads as a header.               *)
THEOREM EachTokenIsALink ==
    ASSUME "alias" \notin Faults, NEW d \in Device
    PROVE  Spec /\ []NoOverflow => Link(d)!LinkSpec
<1>1. Init => Link(d)!LinkInit
  BY LinkStart
<1>2. TypeOK /\ TypeOK' /\ HandleReleased /\ AnswerInv /\ RefusalRead /\ NoOverflow /\ [Next]_vars
         => [Link(d)!LinkNext]_(Link(d)!linkVars)
  BY LinkStep
<1>. QED  BY <1>1, <1>2, HidTypeCorrect, NoHandleLeaks, AnswersCorrect, RefusalsRead, PTL
          DEF Spec, Link!LinkSpec

(* The same for all tokens at once, the property TLC checks of HidTrans.        *)
THEOREM TokenLinkImplemented ==
    ASSUME "alias" \notin Faults
    PROVE  Spec /\ []NoOverflow => ImplementsTokenLink
<1>1. Init => \A d \in Device : Link(d)!LinkInit
  BY LinkStart
<1>2. TypeOK /\ TypeOK' /\ HandleReleased /\ AnswerInv /\ RefusalRead /\ NoOverflow /\ [Next]_vars
         => [\A d \in Device : UNCHANGED Link(d)!linkVars \/ Link(d)!LinkNext]_vars
  BY LinkStep
<1>. QED  BY <1>1, <1>2, HidTypeCorrect, NoHandleLeaks, AnswersCorrect, RefusalsRead, PTL
          DEF Spec, ImplementsTokenLink

================================================================================
