------------------------------- MODULE MCHidTrans ------------------------------
(* Small instances of HidTrans for TLC.  A PDU of 5 units comes in reports of  *)
(* 2, 2 and 1, as one of 255 bytes comes in reports of 64, 64, 64 and 63; the  *)
(* header is 2 units, of which 1 is the state.                                 *)
EXTENDS HidTrans, TLC

CONSTANTS c1, c2, c3

Args(thread, index, fun, send, pdu, room) ==
    [thread |-> thread, index |-> index, fun |-> fun, send |-> send, pdu |-> pdu, room |-> room]

\* The calls of an instance, of those described.
Made(args) == [c \in Call |-> args[c]]

\* One thread calls a function with answers of different lengths, another thread
\* one whose answer has no data.  The buffer of c1 does not hold the answer to c2.
Mixed == Made(
    c1 :> Args("main", 0, "encrypt", 2, 4, 4)
 @@ c2 :> Args("main", 0, "encrypt", 0, 5, 9)
 @@ c3 :> Args("channel", 0, "confirm", 2, 2, 0))

\* Two threads of the application and one token.
SameToken == Made(
    c1 :> Args("app", 0, "start", 0, 4, 9)
 @@ c2 :> Args("channel", 0, "auth", 2, 3, 9))
================================================================================
