--------------------------------- MODULE HidApi --------------------------------
(***************************************************************************)
(* The Q-shield token and hidapi (CSRC/hid.c), through which HidTrans.c     *)
(* talks to it: one libusb context for the process, and for each open       *)
(* handle a read thread that moves input reports into a queue.              *)
(*                                                                          *)
(* One CALL is one call of HidTransSendRec, made by a thread of the         *)
(* application.  Lengths count units of data: a PDU is TransLen units on    *)
(* the wire (255 bytes in the code), its header HeadLen of them (6), the    *)
(* state at the header's end StateLen (2), the report ID in front of what   *)
(* is sent IdLen (1), an input report at most PacketLen.                    *)
(***************************************************************************)
EXTENDS Integers, Sequences, FiniteSets

CONSTANTS
    Call,       \* calls of HidTransSendRec
    Device,     \* Q-shield tokens, numbered in the order of enumeration
    Arg,        \* what a call is made with, and how long its answer is
    TransLen, HeadLen, StateLen, IdLen, PacketLen,
    QueueLimit, \* num_queued at which the read thread drops a report (30)
    Padded,     \* the token pads its answers to TransLen
    None,       \* no call
    Faults      \* what the environment may do wrong

FaultKind == {"late", "init", "open", "write", "short", "unplug", "alias"}

ArgType == [thread : STRING, index : Int, fun : STRING, send : Nat, pdu : Nat, room : Nat]

ASSUME LengthAssumption ==
    /\ {TransLen, HeadLen, StateLen, IdLen, PacketLen, QueueLimit} \subseteq Nat
    /\ StateLen \in 1..HeadLen
    /\ HeadLen <= PacketLen

ASSUME CallAssumption ==
    /\ Arg \in [Call -> ArgType]
    /\ \A c \in Call : Arg[c].pdu \in HeadLen..TransLen
    /\ None \notin Call
    /\ Device \subseteq Nat
    /\ Padded \in BOOLEAN
    /\ Faults \subseteq FaultKind

\* A packet of the answer to a call: its place in the answer, its length, and
\* whether the token did what it was asked.
Packet == [of : Call, at : Nat, len : Nat, ok : BOOLEAN]

VARIABLES
    context,    \* the libusb context exists
    orphans,    \* calls whose handle is open and whose context has been freed
    claim,      \* the call whose handle has claimed a token, or None
    queue,      \* input_reports of that handle
    shutdown,   \* shutdown_thread of that handle
    plugged,    \* tokens that are plugged in
    pending,    \* requests a token has received
    fifo,       \* packets a token has still to hand over
    executed    \* what became of a call: "no", "ok" or "refused" by the token

hidVars == <<context, orphans, claim, queue, shutdown, plugged, pending, fifo, executed>>

HidTypeOK ==
    /\ context \in BOOLEAN
    /\ orphans \subseteq Call
    /\ claim \in [Device -> Call \cup {None}]
    /\ queue \in [Device -> Seq(Packet)]
    /\ shutdown \in [Device -> BOOLEAN]
    /\ plugged \subseteq Device
    /\ pending \in [Device -> Seq(Call)]
    /\ fifo \in [Device -> Seq(Packet)]
    /\ executed \in [Call -> {"no", "ok", "refused"}]

HidInit ==
    /\ context = FALSE
    /\ orphans = {}
    /\ claim = [d \in Device |-> None]
    /\ queue = [d \in Device |-> <<>>]
    /\ shutdown = [d \in Device |-> FALSE]
    /\ plugged = Device
    /\ pending = [d \in Device |-> <<>>]
    /\ fifo = [d \in Device |-> <<>>]
    /\ executed = [c \in Call |-> "no"]

\* The token hid_enumerate lists at an index, in a set of at most one.
At(index) == {d \in plugged : Cardinality({e \in plugged : e < d}) = index}

\* hid_open_path opens the token, claims its interface and starts a read thread.
OpenPath(c, d) ==
    /\ claim[d] = None
    /\ claim' = [claim EXCEPT ![d] = c]
    /\ queue' = [queue EXCEPT ![d] = <<>>]
    /\ shutdown' = [shutdown EXCEPT ![d] = FALSE]
    /\ context' = TRUE
    /\ UNCHANGED <<orphans, plugged, pending, fifo, executed>>

\* hid_init makes the context if there is none; the token is not opened.
InitOnly ==
    /\ context' = TRUE
    /\ UNCHANGED <<orphans, claim, queue, shutdown, plugged, pending, fifo, executed>>

\* hid_write of a whole request.
Write(c, d) ==
    /\ d \in plugged /\ ~shutdown[d]
    /\ pending' = [pending EXCEPT ![d] = Append(@, c)]
    /\ UNCHANGED <<context, orphans, claim, queue, shutdown, plugged, fifo, executed>>

\* hid_read_timeout returns the first report of the queue.
ReturnData(d) ==
    /\ queue[d] # <<>>
    /\ queue' = [queue EXCEPT ![d] = Tail(@)]
    /\ UNCHANGED <<context, orphans, claim, shutdown, plugged, pending, fifo, executed>>

\* hid_close stops and joins the read thread, releases the interface and
\* forgets the queue; what the token still holds stays there.
Close(c, d) ==
    /\ claim' = [claim EXCEPT ![d] = None]
    /\ queue' = [queue EXCEPT ![d] = <<>>]
    /\ shutdown' = [shutdown EXCEPT ![d] = FALSE]
    /\ orphans' = orphans \ {c}
    /\ UNCHANGED <<context, plugged, pending, fifo, executed>>

\* hid_exit frees the context of the whole process.
Exit ==
    /\ context' = FALSE
    /\ orphans' = orphans \cup {claim[d] : d \in {e \in Device : claim[e] # None}}
    /\ UNCHANGED <<claim, queue, shutdown, plugged, pending, fifo, executed>>

--------------------------------------------------------------------------------
(* The read thread of the handle that is open on a token. *)

\* The list num_queued is counted over ends before the new report.
Attach(q, p) == IF Len(q) > QueueLimit + 1 THEN Tail(Append(q, p)) ELSE Append(q, p)

ReadCallback(d) ==
    /\ claim[d] # None /\ ~shutdown[d]
    /\ fifo[d] # <<>>
    /\ queue' = [queue EXCEPT ![d] = Attach(@, Head(fifo[d]))]
    /\ fifo' = [fifo EXCEPT ![d] = Tail(@)]
    /\ UNCHANGED <<context, orphans, claim, shutdown, plugged, pending, executed>>

\* LIBUSB_TRANSFER_NO_DEVICE ends the thread.
Disconnected(d) ==
    /\ claim[d] # None /\ ~shutdown[d]
    /\ d \notin plugged
    /\ shutdown' = [shutdown EXCEPT ![d] = TRUE]
    /\ UNCHANGED <<context, orphans, claim, queue, plugged, pending, fifo, executed>>

--------------------------------------------------------------------------------
(* The token, as the code uses it: it executes requests in order and answers  *)
(* each; it keeps an answer until it is read.                                  *)

Least(m, n) == IF m < n THEN m ELSE n

\* The length of the answer to a call, as the token sends it.
Total(c) == IF Padded THEN TransLen ELSE Arg[c].pdu

Answer(c, ok) ==
    [i \in 1..(Total(c) + PacketLen - 1) \div PacketLen |->
        [of |-> c, at |-> (i - 1) * PacketLen,
         len |-> Least(PacketLen, Total(c) - (i - 1) * PacketLen), ok |-> ok]]

Execute(d) ==
    /\ d \in plugged /\ pending[d] # <<>>
    /\ \E ok \in BOOLEAN :
        /\ executed' = [executed EXCEPT ![Head(pending[d])] = IF ok THEN "ok" ELSE "refused"]
        /\ fifo' = [fifo EXCEPT ![d] = @ \o Answer(Head(pending[d]), ok)]
    /\ pending' = [pending EXCEPT ![d] = Tail(@)]
    /\ UNCHANGED <<context, orphans, claim, queue, shutdown, plugged>>

Unplug(d) ==
    /\ "unplug" \in Faults
    /\ d \in plugged
    /\ plugged' = plugged \ {d}
    /\ pending' = [pending EXCEPT ![d] = <<>>]
    /\ fifo' = [fifo EXCEPT ![d] = <<>>]
    /\ UNCHANGED <<context, orphans, claim, queue, shutdown, executed>>

\* A token comes back after the handle that was open on it has been closed.
Plug(d) ==
    /\ d \notin plugged /\ claim[d] = None
    /\ plugged' = plugged \cup {d}
    /\ UNCHANGED <<context, orphans, claim, queue, shutdown, pending, fifo, executed>>

ReadThread(d) == ReadCallback(d) \/ Disconnected(d)

HidStep(d) == ReadThread(d) \/ Execute(d) \/ Unplug(d) \/ Plug(d)
================================================================================
