------------------------------- MODULE TokenLink -------------------------------
(***************************************************************************)
(* What the driver of the Q-shield may rely on when it calls                *)
(* HidTransSendRec for a token: one call at a time has the token open; the  *)
(* token executes a request at most once, in the order in which they were   *)
(* sent; a call takes for its own the first answer that is left, provided   *)
(* it is one for the same function.  Of a call that fails nobody knows what *)
(* became of its request, and its answer may wait for those that follow.    *)
(***************************************************************************)
EXTENDS Naturals, Sequences

CONSTANTS
    Fun,        \* function codes
    Ask, Said,  \* what requests ask for, what answers say
    None        \* no call; nothing asked for or said

VARIABLES
    call,       \* the call that has the token open
    requests,   \* requests the token has received
    answers     \* answers nobody has read

linkVars == <<call, requests, answers>>

OpenCall == [fun : Fun, ask : Ask, said : Said \cup {None},
             state : {"begun", "sent", "SUCCESS", "STATE", "failed"}]
Request == [fun : Fun, ask : Ask]
Reply == [fun : Fun, said : Said, ok : BOOLEAN]

LinkTypeOK ==
    /\ call \in OpenCall \cup {None}
    /\ requests \in Seq(Request)
    /\ answers \in Seq(Reply)

LinkInit == call = None /\ requests = <<>> /\ answers = <<>>

--------------------------------------------------------------------------------
\* What is left behind, of the given answers, by a call that ends.
Leave(rest) ==
    /\ \E n \in 1..Len(rest) + 1 : answers' = SubSeq(rest, n, Len(rest))
    /\ requests' \in {requests, <<>>}

Begin(fun, ask) ==
    /\ call = None
    /\ call' = [fun |-> fun, ask |-> ask, said |-> None, state |-> "begun"]
    /\ UNCHANGED <<requests, answers>>

\* The request may be lost.
Send ==
    /\ call # None /\ call.state = "begun"
    /\ call' = [call EXCEPT !.state = "sent"]
    /\ requests' \in {requests, Append(requests, [fun |-> call.fun, ask |-> call.ask])}
    /\ UNCHANGED answers

Execute(ok, said) ==
    /\ requests # <<>>
    /\ requests' = Tail(requests)
    /\ answers' = Append(answers, [fun |-> Head(requests).fun, said |-> said, ok |-> ok])
    /\ UNCHANGED call

\* The token is unplugged, or a handle that is closed forgets what it has read.
Lose ==
    /\ \E m \in 1..Len(answers) + 1, n \in 0..Len(answers) : answers' = SubSeq(answers, m, n)
    /\ requests' \in {requests, <<>>}
    /\ UNCHANGED call

\* Faulty variant: the answer that came last is taken first.
TakeNewest ==
    LET a == answers[Len(answers)] IN
    /\ call # None /\ call.state = "sent"
    /\ answers # <<>> /\ a.fun = call.fun
    /\ call' = [call EXCEPT !.state = IF a.ok THEN "SUCCESS" ELSE "STATE", !.said = a.said]
    /\ Leave(SubSeq(answers, 1, Len(answers) - 1))

Take ==
    /\ call # None /\ call.state = "sent"
    /\ answers # <<>> /\ Head(answers).fun = call.fun
    /\ call' = [call EXCEPT !.state = IF Head(answers).ok THEN "SUCCESS" ELSE "STATE",
                            !.said = Head(answers).said]
    /\ Leave(Tail(answers))

Fail ==
    /\ call # None /\ call.state \in {"begun", "sent"}
    /\ call' = [call EXCEPT !.state = "failed"]
    /\ Leave(answers)

Ended == call # None /\ call.state \in {"SUCCESS", "STATE", "failed"}

\* The token is closed.  What its handle had read and not used is forgotten.
Return ==
    /\ Ended
    /\ call' = None
    /\ Leave(answers)

\* The process ends; the operating system closes the token.
Crash ==
    /\ call' = None
    /\ Leave(answers)

LinkNext ==
    \/ \E fun \in Fun, ask \in Ask : Begin(fun, ask)
    \/ Send
    \/ \E ok \in BOOLEAN, said \in Said : Execute(ok, said)
    \/ Take
    \/ Fail
    \/ Return
    \/ Crash
    \/ Lose

LinkSpec == LinkInit /\ [][LinkNext]_linkVars
================================================================================
