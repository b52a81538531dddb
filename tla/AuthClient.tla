------------------------------- MODULE AuthClient ------------------------------
(***************************************************************************)
(* The client side of a LOCAL access authentication: the application       *)
(* threads inside AuthenticationClient.startAccessAuth, the channel        *)
(* threads inside LocalAuthProcessor.processAuthencaition, and the static  *)
(* AUTH_ASSIST_INFO_MAP they share.                                        *)
(*                                                                         *)
(* Every attempt makes a LocalAuthProcessor of its own, which registers    *)
(* itself as the one that receives all messages; the processor's           *)
(* synchronized methods therefore exclude each other only while the same   *)
(* processor is registered, and getSessionInfo takes no lock at all.  So   *)
(* each access to the map or to an AuthAssistInfo object in it is a step.  *)
(* A step taken while entering a synchronized method also takes its lock.  *)
(* The entry object an attempt puts in the map is named by the attempt:    *)
(* it holds the attempt's nonce and key.                                   *)
(***************************************************************************)
EXTENDS AuthNetwork

VARIABLES
    registered, \* the processor instance that receives messages
    assistMap,  \* AUTH_ASSIST_INFO_MAP: the entry of a device
    session,    \* AuthAssistInfo.sessionInfo of each entry
    success,    \* AuthAssistInfo.isSuccess of each entry
    channels,   \* AuthenticationClient.channels of each client
    pc,         \* where the application thread of an attempt is
    entry,      \* the entry it waits on (assistInfo in getSessionInfo)
    result,     \* what it has returned
    task,       \* where the thread of a channel is
    proc,       \* the processor it is in
    msg,        \* the message it handles
    found,      \* the entry it has looked up
    computed,   \* the session it has computed or verified
    delivered   \* the sessions handed to the transport, by channel (history)

assistVars  == <<assistMap, session, success>>
callerVars  == <<pc, entry, result>>
handlerVars == <<task, proc, msg, found, computed>>
clientVars  == <<registered, assistVars, channels, callerVars, handlerVars, delivered>>

CallerPC  == {"idle", "init", "reset", "ready", "sent", "waiting", "awake",
              "removed", "closing", "done"}
HandlerPC == {"idle", "queued", "nonce", "entry", "session", "proof", "verified"}

\* What the local variables of a thread hold where it uses them.
LocalsOK ==
    /\ \A a \in Attempt :
          /\ pc[a] \in {"waiting", "awake", "removed"} => entry[a] # None
          /\ pc[a] \in {"ready", "sent", "waiting", "awake", "removed", "closing"}
                => channels[ClientOf[a]] # None
    /\ \A c \in Attempt :
          /\ task[c] # "idle" => proc[c] # None /\ msg[c] # None
          /\ task[c] \in {"nonce", "entry", "session"} => msg[c].type = "RESPONSE"
          /\ task[c] \in {"proof", "verified"} => msg[c].type = "SERVER_PROOF"
          /\ task[c] \in {"nonce", "entry", "session", "verified"} => computed[c] # None
          /\ task[c] \in {"entry", "session", "proof", "verified"} => found[c] # None

ClientTypeOK ==
    /\ registered \in Attempt \cup {None}
    /\ assistMap \in [Device -> Attempt \cup {None}]
    /\ session \in [Attempt -> Transcript \cup {None}]
    /\ success \in [Attempt -> BOOLEAN]
    /\ channels \in [Client -> Attempt \cup {None}]
    /\ pc \in [Attempt -> CallerPC]
    /\ entry \in [Attempt -> Attempt \cup {None}]
    /\ result \in [Attempt -> Transcript \cup {None}]
    /\ task \in [Attempt -> HandlerPC]
    /\ proc \in [Attempt -> Attempt \cup {None}]
    /\ msg \in [Attempt -> ToClient \cup {None}]
    /\ found \in [Attempt -> Attempt \cup {None}]
    /\ computed \in [Attempt -> Transcript \cup {None}]
    /\ delivered \subseteq [ch : Attempt, sess : Transcript]
    /\ LocalsOK

ClientInit ==
    /\ registered = None
    /\ assistMap = [d \in Device |-> None]
    /\ session = [a \in Attempt |-> None]
    /\ success = [a \in Attempt |-> FALSE]
    /\ channels = [k \in Client |-> None]
    /\ pc = [a \in Attempt |-> "idle"]
    /\ entry = [a \in Attempt |-> None]
    /\ result = [a \in Attempt |-> None]
    /\ task = [c \in Attempt |-> "idle"]
    /\ proc = [c \in Attempt |-> None]
    /\ msg = [c \in Attempt |-> None]
    /\ found = [c \in Attempt |-> None]
    /\ computed = [c \in Attempt |-> None]
    /\ delivered = {}

Active(a) == pc[a] \notin {"idle", "done"}

\* The processor's monitor is held by a channel thread inside it.
Locked(p) == \E c \in Attempt : proc[c] = p /\ task[c] \notin {"idle", "queued"}

ChannelOf(a) == channels[ClientOf[a]]

--------------------------------------------------------------------------------
(* The application thread. *)

MoveCaller(a, from, to) ==
    /\ pc[a] = from
    /\ pc' = [pc EXCEPT ![a] = to]

\* A step of the application thread that only moves it on.
Advance(a, from, to) ==
    /\ MoveCaller(a, from, to)
    /\ UNCHANGED <<netVars, registered, assistVars, channels, entry, result,
                   handlerVars, delivered>>

\* Faulty variant: startAccessAuth is not synchronized.
StartUnsynchronized(a) ==
    /\ MoveCaller(a, "idle", "init")
    /\ registered' = a
    /\ UNCHANGED <<netVars, assistVars, channels, entry, result, handlerVars, delivered>>

\* startAccessAuth is synchronized on its client; init makes a new processor,
\* whose constructor registers it for every message type.
StartAccessAuth(a) ==
    /\ \A b \in Attempt : ClientOf[b] = ClientOf[a] => ~Active(b)
    /\ MoveCaller(a, "idle", "init")
    /\ registered' = a
    /\ UNCHANGED <<netVars, assistVars, channels, entry, result, handlerVars, delivered>>

\* generateStartAuthRequest resets the device: a new entry object replaces the
\* one in the map.
Reset(a) ==
    /\ ~Locked(a)
    /\ MoveCaller(a, "init", "reset")
    /\ assistMap' = [assistMap EXCEPT ![DeviceOf[a]] = a]
    /\ session' = [session EXCEPT ![a] = None]
    /\ success' = [success EXCEPT ![a] = FALSE]
    /\ UNCHANGED <<netVars, registered, channels, entry, result, handlerVars, delivered>>

\* An argument is refused: the exception reaches the application before an entry
\* is made ...
RefuseArgument(a) ==
    /\ "argument" \in Faults
    /\ Advance(a, "init", "done")

\* ... or after, when the request cannot be encrypted or the address is missing:
\* the entry stays in the map.
RequestFails(a) ==
    /\ "encrypt" \in Faults
    /\ Advance(a, "reset", "done")

\* createChannel succeeds, at the first or the second try.
CreateChannel(a) ==
    /\ MoveCaller(a, "reset", "ready")
    /\ channels' = [channels EXCEPT ![ClientOf[a]] = a]
    /\ cliOpen' = [cliOpen EXCEPT ![a] = TRUE]
    /\ srvOpen' = [srvOpen EXCEPT ![a] = TRUE]
    /\ UNCHANGED <<wire, registered, assistVars, entry, result, handlerVars, delivered>>

\* createChannel fails twice: startAccessAuth goes on with the channels an
\* earlier attempt left in the field, or gives up at once if there are none.
CreateChannelFails(a) ==
    /\ "connect" \in Faults
    /\ Advance(a, "reset", IF ChannelOf(a) = None THEN "done" ELSE "ready")

\* sendMessageByChannel; what is written to a closed channel is lost.
SendRequest(a) ==
    LET c == ChannelOf(a) IN
    /\ MoveCaller(a, "ready", "sent")
    /\ wire' = wire \cup IF cliOpen[c] /\ srvOpen[c]
                         THEN {Request(c, DeviceOf[a], a)} ELSE {}
    /\ UNCHANGED <<cliOpen, srvOpen, registered, assistVars, channels, entry, result,
                   handlerVars, delivered>>

\* sendMessageByChannel throws: caught, and the attempt closes its channel.
SendFails(a) ==
    /\ "send" \in Faults
    /\ Advance(a, "ready", "closing")

\* getSessionInfo reads the device's entry; if there is none the null pointer
\* exception is caught like any other.
GetEntry(a) ==
    LET e == assistMap[DeviceOf[a]] IN
    /\ MoveCaller(a, "sent", IF e = None THEN "closing" ELSE "waiting")
    /\ entry' = [entry EXCEPT ![a] = e]
    /\ UNCHANGED <<netVars, registered, assistVars, channels, result, handlerVars,
                   delivered>>

\* latch.await returns because the latch was counted down ...
Awake(a) ==
    /\ pc[a] = "waiting" /\ success[entry[a]]
    /\ Advance(a, "waiting", "awake")

\* Faulty variant: await without a timeout.
NoTimeout(a) == FALSE /\ Advance(a, "waiting", "awake")

\* ... or because 5 seconds have passed; the code does not ask which.
Timeout(a) ==
    /\ "timeout" \in Faults
    /\ Advance(a, "waiting", "awake")

\* Faulty variant: an interrupt returns without closing the channel.
InterruptedLeavesChannel(a) ==
    /\ "interrupt" \in Faults
    /\ Advance(a, "waiting", "done")

\* The waiting thread is interrupted: the entry stays in the map.
Interrupted(a) ==
    /\ "interrupt" \in Faults
    /\ Advance(a, "waiting", "closing")

\* getSessionInfo removes whatever entry the device has now.
RemoveEntry(a) ==
    /\ MoveCaller(a, "awake", "removed")
    /\ assistMap' = [assistMap EXCEPT ![DeviceOf[a]] = None]
    /\ UNCHANGED <<netVars, registered, session, success, channels, entry, result,
                   handlerVars, delivered>>

Return(a, sess) ==
    /\ MoveCaller(a, "removed", IF sess # None THEN "done" ELSE "closing")
    /\ result' = [result EXCEPT ![a] = sess]
    /\ UNCHANGED <<netVars, registered, assistVars, channels, entry, handlerVars,
                   delivered>>

\* Faulty variant: the session is returned without asking whether the server's
\* proof has been checked.
ReturnUnverified(a) == pc[a] = "removed" /\ Return(a, session[entry[a]])

\* getSessionInfo reads the entry it fetched before waiting; startAccessAuth
\* returns its session, or closes the channel if it has not succeeded.
ReturnSession(a) ==
    /\ pc[a] = "removed"
    /\ Return(a, IF success[entry[a]] THEN session[entry[a]] ELSE None)

CloseChannel(a) ==
    LET c == ChannelOf(a) IN
    /\ MoveCaller(a, "closing", "done")
    /\ cliOpen' = [cliOpen EXCEPT ![c] = FALSE]
    /\ wire' = ClosedByClient(c)
    /\ UNCHANGED <<srvOpen, registered, assistVars, channels, entry, result,
                   handlerVars, delivered>>

\* Faulty variant: the shutdown is not waited for.
CloseWithoutSync(a) == CloseChannel(a)

\* close: shutdownGracefully(...).syncUninterruptibly() returns once the
\* channel's thread has finished what it was doing.
Close(a) == CloseChannel(a) /\ task[ChannelOf(a)] = "idle"

--------------------------------------------------------------------------------
(* The thread of a channel: the transport hands each message to the        *)
(* registered processor.                                                   *)

\* The thread leaves the processor and forgets the message.
Finish(c) ==
    /\ task' = [task EXCEPT ![c] = "idle"]
    /\ proc' = [proc EXCEPT ![c] = None]
    /\ msg' = [msg EXCEPT ![c] = None]
    /\ found' = [found EXCEPT ![c] = None]
    /\ computed' = [computed EXCEPT ![c] = None]

\* It goes on with entry e and session t.
Continue(c, to, e, t) ==
    /\ task' = [task EXCEPT ![c] = to]
    /\ found' = [found EXCEPT ![c] = e]
    /\ computed' = [computed EXCEPT ![c] = t]
    /\ UNCHANGED <<proc, msg>>

\* A message is read and the registered processor looked up.
Receive(c, m) ==
    /\ m \in wire \cap ToClient /\ m.ch = c
    /\ cliOpen[c]
    /\ task[c] = "idle"
    /\ registered # None
    /\ wire' = wire \ {m}
    /\ task' = [task EXCEPT ![c] = "queued"]
    /\ proc' = [proc EXCEPT ![c] = registered]
    /\ msg' = [msg EXCEPT ![c] = m]
    /\ UNCHANGED <<cliOpen, srvOpen, registered, assistVars, channels, callerVars,
                   found, computed, delivered>>

\* The processor's lock is free and the message is of the given type.
Enter(c, type) ==
    /\ task[c] = "queued"
    /\ msg[c].type = type
    /\ ~Locked(proc[c])

\* unwrapBinaryToAuthMessage gives null for a failure status: nobody is told.
IgnoreFailure(c) ==
    /\ Enter(c, "FAILURE")
    /\ Finish(c)
    /\ UNCHANGED <<netVars, registered, assistVars, channels, callerVars, delivered>>

\* Faulty variant: the key is the one of the processor that has the message, not
\* that of the device's entry.
ReadKeyOfProcessor(c) ==
    /\ Enter(c, "RESPONSE")
    /\ LET e == assistMap[msg[c].dev] IN
          IF e = None THEN Finish(c)
          ELSE Continue(c, "nonce", None, [dev |-> msg[c].dev, cn |-> e,
                                           sn |-> msg[c].sn, key |-> KeyOf[proc[c]]])
    /\ UNCHANGED <<netVars, registered, assistVars, channels, callerVars, delivered>>

\* calculateClientProof reads the nonce and key of the device's entry (a null
\* pointer exception ends the handling if there is none) and computes the proof
\* and the session over them and the server nonce of this response.
ReadNonceAndKey(c) ==
    /\ Enter(c, "RESPONSE")
    /\ LET e == assistMap[msg[c].dev] IN
          IF e = None THEN Finish(c)
          ELSE Continue(c, "nonce", None, [dev |-> msg[c].dev, cn |-> e,
                                           sn |-> msg[c].sn, key |-> KeyOf[e]])
    /\ UNCHANGED <<netVars, registered, assistVars, channels, callerVars, delivered>>

\* updateSessionInfo looks the entry up again ...
LookUpEntry(c) ==
    /\ task[c] = "nonce"
    /\ LET e == assistMap[computed[c].dev] IN
          IF e = None THEN Finish(c) ELSE Continue(c, "entry", e, computed[c])
    /\ UNCHANGED <<netVars, registered, assistVars, channels, callerVars, delivered>>

\* ... sets its session ...
SetSessionInfo(c) ==
    /\ task[c] = "entry"
    /\ session' = [session EXCEPT ![found[c]] = computed[c]]
    /\ Continue(c, "session", found[c], computed[c])
    /\ UNCHANGED <<netVars, registered, assistMap, success, channels, callerVars,
                   delivered>>

\* ... and puts it back, whatever the map holds by then; the proof goes out.
PutEntryAndSendProof(c) ==
    /\ task[c] = "session"
    /\ assistMap' = [assistMap EXCEPT ![computed[c].dev] = found[c]]
    /\ wire' = wire \cup IF cliOpen[c] /\ srvOpen[c]
                         THEN {ClientProof(c, computed[c])} ELSE {}
    /\ Finish(c)
    /\ UNCHANGED <<cliOpen, srvOpen, registered, session, success, channels,
                   callerVars, delivered>>

\* checkServerProof looks up the device's entry ...
LookUpForProof(c) ==
    /\ Enter(c, "SERVER_PROOF")
    /\ LET e == assistMap[msg[c].proof.dev] IN
          IF e = None THEN Finish(c) ELSE Continue(c, "proof", e, None)
    /\ UNCHANGED <<netVars, registered, assistVars, channels, callerVars, delivered>>

\* Faulty variant: any server proof will do once a session has been computed.
AcceptAnyServerProof(c) ==
    /\ task[c] = "proof"
    /\ LET t == session[found[c]] IN
          IF t # None THEN Continue(c, "verified", found[c], t) ELSE Finish(c)
    /\ UNCHANGED <<netVars, registered, assistVars, channels, callerVars, delivered>>

\* ... compares its session key with the proof ...
CheckServerProof(c) ==
    /\ task[c] = "proof"
    /\ LET t == session[found[c]] IN
          IF t = msg[c].proof THEN Continue(c, "verified", found[c], t) ELSE Finish(c)
    /\ UNCHANGED <<netVars, registered, assistVars, channels, callerVars, delivered>>

\* Faulty variant: the latch is not counted down.
SucceedSilently(c) ==
    /\ task[c] = "verified"
    /\ delivered' = delivered \cup {[ch |-> c, sess |-> computed[c]]}
    /\ Finish(c)
    /\ UNCHANGED <<netVars, registered, assistVars, channels, callerVars>>

\* ... and, if they are equal, marks the entry successful, counts its latch down
\* (nothing tells the two apart) and returns the session to the transport.
Succeed(c) ==
    /\ task[c] = "verified"
    /\ success' = [success EXCEPT ![found[c]] = TRUE]
    /\ delivered' = delivered \cup {[ch |-> c, sess |-> computed[c]]}
    /\ Finish(c)
    /\ UNCHANGED <<netVars, registered, assistMap, session, channels, callerVars>>

--------------------------------------------------------------------------------
CallerStep(a) ==
    \/ Reset(a)
    \/ CreateChannel(a)
    \/ SendRequest(a)
    \/ GetEntry(a)
    \/ Awake(a)
    \/ Timeout(a)
    \/ RemoveEntry(a)
    \/ ReturnSession(a)
    \/ Close(a)

CallerFault(a) ==
    \/ RefuseArgument(a)
    \/ RequestFails(a)
    \/ CreateChannelFails(a)
    \/ SendFails(a)
    \/ Interrupted(a)

HandlerStep(c) ==
    \/ \E m \in wire : Receive(c, m)
    \/ IgnoreFailure(c)
    \/ ReadNonceAndKey(c)
    \/ LookUpEntry(c)
    \/ SetSessionInfo(c)
    \/ PutEntryAndSendProof(c)
    \/ LookUpForProof(c)
    \/ CheckServerProof(c)
    \/ Succeed(c)

ClientNext ==
    \/ \E a \in Attempt : StartAccessAuth(a) \/ CallerStep(a) \/ CallerFault(a)
    \/ \E c \in Attempt : HandlerStep(c)
================================================================================
