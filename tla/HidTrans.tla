-------------------------------- MODULE HidTrans -------------------------------
(***************************************************************************)
(* CSRC/HidTrans.c: HidTransSendRec opens a token, sends a request, gathers *)
(* the reports of the answer, checks the header and closes the token.       *)
(***************************************************************************)
EXTENDS HidApi

VARIABLES
    pc,         \* where a call is in HidTransSendRec
    result,     \* what it returns; SUCCESS until something fails
    opened,     \* the token its handle is open on
    buf,        \* the reports it has gathered
    nRecvCount  \* their length

callVars == <<pc, result, opened, buf, nRecvCount>>
vars == <<hidVars, callVars>>

NoDevice == -1

Result == {"SUCCESS", "ARG", "FOUND", "INITIALIZED", "TRANSFER", "CHECK", "STATE"}
Stage == {"idle", "open", "send", "recv", "check", "close", "exit", "done", "crashed"}
HandleOpen == {"send", "recv", "check", "close"}

CallTypeOK ==
    /\ pc \in [Call -> Stage]
    /\ result \in [Call -> Result]
    /\ opened \in [Call -> Device \cup {NoDevice}]
    /\ buf \in [Call -> Seq(Packet)]
    /\ nRecvCount \in [Call -> Nat]

\* What a call in the middle of an exchange relies on.
LocalOK(c) ==
    /\ pc[c] \in HandleOpen => opened[c] \in Device
    /\ nRecvCount[c] > 0 \/ pc[c] = "check" => buf[c] # <<>>
    /\ nRecvCount[c] <= TransLen

TypeOK == HidTypeOK /\ CallTypeOK /\ \A c \in Call : LocalOK(c)

Init ==
    /\ HidInit
    /\ pc = [c \in Call |-> "idle"]
    /\ result = [c \in Call |-> "SUCCESS"]
    /\ opened = [c \in Call |-> NoDevice]
    /\ buf = [c \in Call |-> <<>>]
    /\ nRecvCount = [c \in Call |-> 0]

--------------------------------------------------------------------------------
Active(c) == pc[c] \notin {"idle", "done"}

\* A call moves on, with r as its result.
Go(c, from, to, r) ==
    /\ pc[c] = from
    /\ pc' = [pc EXCEPT ![c] = to]
    /\ result' = [result EXCEPT ![c] = r]

\* A thread makes one call after the other.
Start(c) ==
    /\ \A b \in Call : Arg[b].thread = Arg[c].thread => ~Active(b)
    /\ IF Arg[c].send > TransLen - HeadLen - IdLen
       THEN Go(c, "idle", "done", "ARG")
       ELSE Go(c, "idle", "open", "SUCCESS")
    /\ UNCHANGED <<hidVars, opened, buf, nRecvCount>>

\* HidTransOpenDevide, the path that succeeds.
OpenDevice(c) ==
    /\ Go(c, "open", "send", "SUCCESS")
    /\ \E d \in At(Arg[c].index) :
        /\ OpenPath(c, d)
        /\ opened' = [opened EXCEPT ![c] = d]
    /\ UNCHANGED <<buf, nRecvCount>>

\* No token at that index; a negative index is refused before hid_init.
DeviceNotFound(c) ==
    /\ Go(c, "open", "done", "FOUND")
    /\ At(Arg[c].index) = {}
    /\ IF Arg[c].index < 0 THEN UNCHANGED hidVars ELSE InitOnly
    /\ UNCHANGED <<opened, buf, nRecvCount>>

InitFails(c) ==
    /\ "init" \in Faults
    /\ Go(c, "open", "done", "INITIALIZED")
    /\ Arg[c].index >= 0
    /\ UNCHANGED <<hidVars, opened, buf, nRecvCount>>

\* The token is there but cannot be opened, as when another handle has it.
OpenFails(c) ==
    /\ Go(c, "open", "done", "INITIALIZED")
    /\ \E d \in At(Arg[c].index) : claim[d] # None \/ "open" \in Faults
    /\ InitOnly
    /\ UNCHANGED <<opened, buf, nRecvCount>>

SendPDU(c) ==
    /\ Go(c, "send", "recv", "SUCCESS")
    /\ Write(c, opened[c])
    /\ UNCHANGED <<opened, buf, nRecvCount>>

\* hid_write returns -1, which HidTransWriteData compares as an unsigned number:
\* it is not less than the length, so that the call goes on.
SendFails(c) ==
    /\ "write" \in Faults \/ opened[c] \notin plugged
    /\ Go(c, "send", "recv", "SUCCESS")
    /\ UNCHANGED <<hidVars, opened, buf, nRecvCount>>

\* hid_write sends less than it was given; the token makes nothing of it.
SendCutShort(c) ==
    /\ "short" \in Faults
    /\ Go(c, "send", "close", "TRANSFER")
    /\ UNCHANGED <<hidVars, opened, buf, nRecvCount>>

--------------------------------------------------------------------------------
(* HidTransReadData *)

\* Faulty variant: the size of the buffer is not checked.
ReadUnbounded(c) ==
    LET d == opened[c]
        count == nRecvCount[c] + Head(queue[d]).len
    IN  /\ pc[c] = "recv" /\ queue[d] # <<>>
        /\ Go(c, "recv", IF count < TransLen THEN "recv" ELSE "check", "SUCCESS")
        /\ buf' = [buf EXCEPT ![c] = Append(@, Head(queue[d]))]
        /\ nRecvCount' = [nRecvCount EXCEPT ![c] = count]
        /\ ReturnData(d)
        /\ UNCHANGED opened

\* One more report; a PDU that is complete is not waited for any longer.
ReadReport(c) ==
    LET d == opened[c]
        count == nRecvCount[c] + Head(queue[d]).len
    IN  /\ pc[c] = "recv" /\ queue[d] # <<>>
        /\ count <= TransLen
        /\ Go(c, "recv", IF count = TransLen THEN "check" ELSE "recv", "SUCCESS")
        /\ buf' = [buf EXCEPT ![c] = Append(@, Head(queue[d]))]
        /\ nRecvCount' = [nRecvCount EXCEPT ![c] = count]
        /\ ReturnData(d)
        /\ UNCHANGED opened

\* The report would run over the end of the buffer.
ReadTooMuch(c) ==
    LET d == opened[c] IN
    /\ pc[c] = "recv" /\ queue[d] # <<>>
    /\ nRecvCount[c] + Head(queue[d]).len > TransLen
    /\ Go(c, "recv", "close", "ARG")
    /\ ReturnData(d)
    /\ UNCHANGED <<opened, buf, nRecvCount>>

\* The token neither works on a request nor has anything to hand over.
Silent(d) == pending[d] = <<>> /\ fifo[d] = <<>>

\* Faulty variant: only the first read has a timeout.
ReadTimesOutAtFirst(c) ==
    LET d == opened[c] IN
    /\ pc[c] = "recv" /\ queue[d] = <<>> /\ ~shutdown[d]
    /\ "late" \in Faults \/ Silent(d)
    /\ nRecvCount[c] = 0
    /\ Go(c, "recv", "close", "TRANSFER")
    /\ UNCHANGED <<hidVars, opened, buf, nRecvCount>>

\* hid_read_timeout returns 0: what has come must be the answer.
ReadTimesOut(c) ==
    LET d == opened[c] IN
    /\ pc[c] = "recv" /\ queue[d] = <<>> /\ ~shutdown[d]
    /\ "late" \in Faults \/ Silent(d)
    /\ IF nRecvCount[c] < HeadLen
       THEN Go(c, "recv", "close", "TRANSFER")
       ELSE Go(c, "recv", "check", "SUCCESS")
    /\ UNCHANGED <<hidVars, opened, buf, nRecvCount>>

\* hid_read_timeout returns -1.  Before any report the sum with nRecvCount is
\* an unsigned number larger than the buffer; after one it is not, and memcpy
\* is called with the length -1.
ReadFails(c) ==
    LET d == opened[c] IN
    /\ pc[c] = "recv" /\ queue[d] = <<>> /\ shutdown[d]
    /\ IF nRecvCount[c] = 0
       THEN Go(c, "recv", "close", "ARG")
       ELSE Go(c, "recv", "crashed", "SUCCESS")
    /\ UNCHANGED <<hidVars, opened, buf, nRecvCount>>

--------------------------------------------------------------------------------
\* The length a header states counts the payload and the state.
HeaderLength(b) == Arg[b].pdu - HeadLen + StateLen

\* Faulty variant: the length in the header is not compared with what came.
VerdictOnAnyLength(c, b, ok) ==
    IF Arg[b].fun # Arg[c].fun THEN "CHECK"
    ELSE IF ~ok THEN "STATE"
    ELSE IF Arg[c].room > HeaderLength(b) \/ Arg[c].room = 0 THEN "SUCCESS"
    ELSE "ARG"

\* Faulty variant: the state in the header is ignored.
VerdictOnAnyState(c, b, ok) ==
    IF Arg[b].fun # Arg[c].fun THEN "CHECK"
    ELSE IF nRecvCount[c] < HeaderLength(b) + HeadLen - StateLen THEN "CHECK"
    ELSE IF Arg[c].room > HeaderLength(b) \/ Arg[c].room = 0 THEN "SUCCESS"
    ELSE "ARG"

\* HidTransDataDelHeader and the rest of HidTransRecvPDU, on a first report that
\* begins the answer to call b.  No room asked for: the data is not wanted.
Verdict(c, b, ok) ==
    LET wLen == HeaderLength(b) IN
    IF Arg[b].fun # Arg[c].fun THEN "CHECK"
    ELSE IF nRecvCount[c] < wLen + HeadLen - StateLen THEN "CHECK"
    ELSE IF ~ok THEN "STATE"
    ELSE IF Arg[c].room > wLen \/ Arg[c].room = 0 THEN "SUCCESS"
    ELSE "ARG"

\* Faulty variant: a refused answer leaves the token open.
CheckLeavesOpen(c) ==
    LET first == Head(buf[c])
        verdict == IF first.at = 0 THEN Verdict(c, first.of, first.ok) ELSE "CHECK"
    IN  /\ pc[c] = "check"
        /\ Go(c, "check", IF verdict = "SUCCESS" THEN "close" ELSE "done", verdict)
        /\ UNCHANGED <<hidVars, opened, buf, nRecvCount>>

CheckAnswer(c) ==
    LET first == Head(buf[c]) IN
    /\ pc[c] = "check"
    /\ Go(c, "check", "close",
          IF first.at = 0 THEN Verdict(c, first.of, first.ok) ELSE "CHECK")
    /\ UNCHANGED <<hidVars, opened, buf, nRecvCount>>

\* Data from the middle of an answer happens to read as a header.
CheckGarbage(c) ==
    /\ "alias" \in Faults
    /\ pc[c] = "check" /\ Head(buf[c]).at # 0
    /\ \E r \in {"SUCCESS", "STATE", "ARG"} : Go(c, "check", "close", r)
    /\ UNCHANGED <<hidVars, opened, buf, nRecvCount>>

\* HidTransCloseDevice: hid_close ...
CloseDevice(c) ==
    /\ Go(c, "close", "exit", result[c])
    /\ Close(c, opened[c])
    /\ UNCHANGED <<opened, buf, nRecvCount>>

\* ... and hid_exit, whatever else the process has open.
ExitHid(c) ==
    /\ Go(c, "exit", "done", result[c])
    /\ Exit
    /\ UNCHANGED <<opened, buf, nRecvCount>>

\* A handle is used whose context is gone.
UseAfterExit(c) ==
    /\ c \in orphans
    /\ Go(c, pc[c], "crashed", result[c])
    /\ UNCHANGED <<hidVars, opened, buf, nRecvCount>>

\* HidTransGetCount, by any thread: hid_init without hid_exit.
GetCount == InitOnly /\ UNCHANGED callVars

CallStep(c) ==
    \/ OpenDevice(c)
    \/ DeviceNotFound(c)
    \/ InitFails(c)
    \/ OpenFails(c)
    \/ SendPDU(c)
    \/ SendFails(c)
    \/ SendCutShort(c)
    \/ ReadReport(c)
    \/ ReadTooMuch(c)
    \/ ReadTimesOut(c)
    \/ ReadFails(c)
    \/ CheckAnswer(c)
    \/ CheckGarbage(c)
    \/ CloseDevice(c)
    \/ ExitHid(c)
    \/ UseAfterExit(c)

\* A crash of one thread ends the process.
Alive == \A c \in Call : pc[c] # "crashed"

Next ==
    /\ Alive
    /\ \/ \E c \in Call : Start(c) \/ CallStep(c)
       \/ \E d \in Device : HidStep(d) /\ UNCHANGED callVars
       \/ GetCount

Spec == Init /\ [][Next]_vars

(* Threads run, hid_read_timeout times out, tokens answer what they received.  *)
(* Whether a call is started, and every fault, is left to the environment.     *)
Fairness ==
    /\ \A c \in Call : WF_vars(Alive /\ CallStep(c))
    /\ \A d \in Device : WF_vars(Alive /\ (ReadThread(d) \/ Execute(d)) /\ UNCHANGED callVars)

FairSpec == Spec /\ Fairness

--------------------------------------------------------------------------------
\* A call that has given its token back and will return, or has returned, an error.
Failed(c) == pc[c] \in {"exit", "done"} /\ result[c] # "SUCCESS"

Succeeded(c) == pc[c] = "done" /\ result[c] = "SUCCESS"

\* The first reports of b are all of an answer: they follow one another from its
\* beginning to the length its header states.
Whole(b) ==
    LET first == Head(b) IN
        /\ first.at = 0
        /\ \E n \in 1..Len(b) :
            /\ \A i \in 1..n : b[i].of = first.of /\ b[i].ok
            /\ \A i \in 1..(n - 1) : b[i + 1].at = b[i].at + b[i].len
            /\ b[n].at + b[n].len >= Arg[first.of].pdu

(* What HidTransSendRec returns as an answer is one: whole, agreed to by the    *)
(* token, to a request for the same function.  It is the answer to this very    *)
(* request unless an earlier call on the token failed, after which the answers  *)
(* that call left behind may be taken for those of its successors.              *)
AnswersRequest ==
    \A c \in Call : Succeeded(c) =>
        /\ Whole(buf[c])
        /\ LET b == Head(buf[c]).of IN
            /\ Arg[b].fun = Arg[c].fun
            /\ executed[b] = "ok"
            /\ b # c => \E e \in Call : opened[e] = opened[c] /\ Failed(e)

(* Every path of HidTransSendRec that opened the token closes it: a call that   *)
(* has returned holds no handle, and nothing but a call in progress does.       *)
HandleReleased ==
    \A d \in Device : claim[d] # None =>
        pc[claim[d]] \in HandleOpen \cup {"crashed"} /\ opened[claim[d]] = d

(* Every call returns while the process lives, whatever is lost and whatever    *)
(* other threads do: hid_read_timeout is called with a timeout, and each report *)
(* brings the loop nearer to its end.                                           *)
CallsReturn == \A c \in Call : Active(c) ~> ~Active(c) \/ ~Alive

(* The context is in use while a handle is open: hidapi.h says that hid_exit    *)
(* "should be called at the end of execution".                                  *)
ContextOutlivesHandles == orphans = {}

(* hid_read_timeout returns "-1 on error" (hidapi.h): such a call returns.      *)
ReadErrorsReported == Alive

--------------------------------------------------------------------------------
(* The inductive invariant behind AnswersRequest, as named parts.  It takes     *)
(* queues that never drop a report, and no data that reads as a header.         *)
NoOverflow == \A d \in Device : Len(queue[d]) <= QueueLimit + 1

\* Who holds a token, and what is left where nobody does.
HandlesHeld ==
    /\ \A c \in Call : pc[c] \in HandleOpen \cup {"crashed"} =>
          opened[c] \in Device /\ claim[opened[c]] = c
    /\ \A c \in orphans : \E d \in Device : claim[d] = c
    /\ \A d \in Device : claim[d] = None => queue[d] = <<>>
    /\ \A d \in Device : d \notin plugged => pending[d] = <<>> /\ fifo[d] = <<>>

Asked(b, d) == opened[b] = d /\ pc[b] \notin {"idle", "open", "send"}

\* A request waits in one place, and only until it is executed.
RequestsOnce ==
    /\ \A c \in Call : pc[c] \in {"idle", "open", "send"} => executed[c] = "no"
    /\ \A d \in Device : \A i \in 1..Len(pending[d]) :
          /\ Asked(pending[d][i], d)
          /\ executed[pending[d][i]] = "no"
          /\ \A j \in 1..Len(pending[d]) : pending[d][j] = pending[d][i] => j = i

\* What nobody has taken from a token yet.
Left(d) == queue[d] \o fifo[d]

Begins(c) == buf[c] # <<>> /\ Head(buf[c]).at = 0

\* Packet p belongs to a call on token d and says what the token did with it.
Owned(p, d) == Asked(p.of, d) /\ executed[p.of] = IF p.ok THEN "ok" ELSE "refused"

PacketsOwned ==
    /\ \A d \in Device : \A i \in 1..Len(Left(d)) : Owned(Left(d)[i], d)
    /\ \A c \in Call : \A i \in 1..Len(buf[c]) : Owned(buf[c][i], opened[c])

\* The beginning of an answer is handed over once.
FirstsOnce ==
    /\ \A d \in Device : LET s == Left(d) IN \A i, j \in 1..Len(s) :
          s[i].at = 0 /\ s[j].at = 0 /\ s[i].of = s[j].of => i = j
    /\ \A c \in Call : Begins(c) =>
          LET s == Left(opened[c]) IN
              \A i \in 1..Len(s) : s[i].at = 0 => s[i].of # Head(buf[c]).of

\* Answers follow one another whole, except that the first may have lost its beginning.
Continues(p, q) == q.of = p.of /\ q.ok = p.ok /\ q.at = p.at + p.len
EndsAnswer(p) == p.at + p.len = Total(p.of)

Follows(p, q) ==
    \/ Continues(p, q)
    \/ EndsAnswer(p) /\ q.at = 0

Linked(s) == \A i \in 1..(Len(s) - 1) : Follows(s[i], s[i + 1])

\* What the call that reads from a token has gathered.
Held(d) == IF claim[d] # None /\ pc[claim[d]] = "recv" THEN buf[claim[d]] ELSE <<>>

Stream(d) == Held(d) \o Left(d)

AnswersInOrder ==
    \A d \in Device :
        /\ Linked(Stream(d))
        /\ d \in plugged /\ Stream(d) # <<>> => EndsAnswer(Stream(d)[Len(Stream(d))])

\* The first n reports of b are of one answer, without a hole.
OfOne(b, n) ==
    /\ \A i \in 1..n : b[i].of = Head(b).of /\ b[i].ok = Head(b).ok
    /\ \A i \in 1..(n - 1) : b[i + 1].at = b[i].at + b[i].len

Complete(b) ==
    \E n \in 1..Len(b) : OfOne(b, n) /\ b[n].at + b[n].len >= Arg[Head(b).of].pdu

GatheredInOrder ==
    \A c \in Call :
        /\ IF buf[c] = <<>> THEN nRecvCount[c] = 0 ELSE opened[c] \in Device
        /\ pc[c] \in {"idle", "open", "send"} => buf[c] = <<>>
        /\ Begins(c) =>
              \/ Complete(buf[c])
              \/ /\ OfOne(buf[c], Len(buf[c]))
                 /\ nRecvCount[c] = buf[c][Len(buf[c])].at + buf[c][Len(buf[c])].len

SuccessRight ==
    \A c \in Call : pc[c] \in {"close", "exit", "done"} /\ result[c] = "SUCCESS" =>
        /\ Begins(c) /\ Whole(buf[c])
        /\ Arg[Head(buf[c]).of].fun = Arg[c].fun

\* Who reads the beginning of another's answer has a call that failed before it.
FailureFirst ==
    \A c \in Call : Begins(c) /\ Head(buf[c]).of # c =>
        \E e \in Call : opened[e] = opened[c] /\ Failed(e)

(* Whatever is between a token and its callers, and whatever calls that failed  *)
(* have left there: every answer is handed over once, in order and without a    *)
(* hole, and nobody reads the beginning of another call's answer unless a call  *)
(* failed before.                                                               *)
AnswerInv ==
    /\ HandlesHeld
    /\ RequestsOnce
    /\ PacketsOwned
    /\ FirstsOnce
    /\ AnswersInOrder
    /\ GatheredInOrder
    /\ SuccessRight
    /\ FailureFirst

--------------------------------------------------------------------------------
\* The call that has a token open, while the process lives.
Open(c) == c # None /\ pc[c] # "crashed"

\* What the call that has a token open will tell its caller, once decided.
Standing(c) ==
    CASE pc[c] = "send" -> "begun"
      [] pc[c] \in {"recv", "check"} -> "sent"
      [] pc[c] = "close" /\ result[c] \in {"SUCCESS", "STATE"} -> result[c]
      [] OTHER -> "failed"

\* The call that has token d open, as TokenLink sees it.
LinkCall(d) ==
    LET c == claim[d]
        decided == Standing(c) \in {"SUCCESS", "STATE"}
    IN  IF ~Open(c) THEN None
        ELSE [fun |-> Arg[c].fun, ask |-> c, state |-> Standing(c),
              said |-> IF decided THEN Head(buf[c]).of ELSE None]

LinkRequests(d) ==
    [i \in 1..Len(pending[d]) |-> [fun |-> Arg[pending[d][i]].fun, ask |-> pending[d][i]]]

\* The k-th of a set of numbers.
Place(S, k) == CHOOSE i \in S : Cardinality({j \in S : j <= i}) = k

\* The answers that begin among the packets; each says whose request it answers.
ReplyOf(p) == [fun |-> Arg[p.of].fun, said |-> p.of, ok |-> p.ok]
Firsts(packets) == {i \in 1..Len(packets) : packets[i].at = 0}
Replies[packets \in Seq(Packet)] ==
    LET firsts == Firsts(packets)
    IN  [k \in 1..Cardinality(firsts) |-> ReplyOf(packets[Place(firsts, k)])]

\* What the call that has token d open has read and not used.
Unused(d) ==
    LET c == claim[d] IN
    IF Open(c) /\ pc[c] \in {"recv", "check"} THEN buf[c] ELSE <<>>

LinkAnswers(d) == Replies[Unused(d) \o Left(d)]

Link(d) == INSTANCE TokenLink WITH
    Fun <- {Arg[c].fun : c \in Call}, Ask <- Call, Said <- Call,
    call <- LinkCall(d), requests <- LinkRequests(d), answers <- LinkAnswers(d)

\* No call is taken for none.
ASSUME NoneIsNoCall == \A d \in Device : None \notin Link(d)!OpenCall

(* The transport does what TokenLink promises: the token executes a request at  *)
(* most once and in order, a call is given an answer that it alone is given, in *)
(* the order of execution and for its own function, and tells its caller what   *)
(* the token made of it or that it failed; for every token at once, whichever   *)
(* threads the calls are of.                                                    *)
ImplementsTokenLink ==
    /\ \A d \in Device : Link(d)!LinkInit
    /\ [][\A d \in Device : UNCHANGED Link(d)!linkVars \/ Link(d)!LinkNext]_vars
================================================================================
