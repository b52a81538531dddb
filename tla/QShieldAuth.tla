------------------------------- MODULE QShieldAuth ------------------------------
(***************************************************************************)
(* An access authentication in the mode Q_SHIELD: AuthenticationClient over  *)
(* QShieldAuthProcessor, with the server of AuthServer.  Nonce, proof and    *)
(* check are the token's; what TokenLink promises of a call to it is one     *)
(* step here.  Nothing is synchronized but startAccessAuth, so each access   *)
(* to the two static maps is a step.                                         *)
(*                                                                           *)
(* Tokens draw more nonces than there are attempts; a nonce is named by a    *)
(* member of Attempt in the order of drawing, whichever attempt it serves.   *)
(***************************************************************************)
EXTENDS AuthServer, Naturals, Sequences

CONSTANTS
    Caller,     \* the attempts that are made; they name channels and latches
    KeyIn,      \* the key in each token
    Backlog     \* bound: answers of the token that may wait for a later call

VARIABLES
    place,      \* the token that is plugged in
    token,      \* what each token remembers of its exchange
    drawn,      \* nonces drawn so far
    late,       \* answers of the token that nobody has read
    sessionMap, \* SESSION_INFO_MAP: the session of a device, None if it has no ID
    latchMap,   \* COUNT_DOWN_LATCH_MAP: the latch of a device
    counted,    \* the latches that have been counted down
    channels,   \* AuthenticationClient.channels of each client
    pc,         \* where the application thread of an attempt is
    started,    \* the device and nonce it got from the token
    latch,      \* the latch it waits on
    result,     \* what it has returned
    task,       \* where the thread of a channel is
    got         \* the session it has got from the token, and the device

tokenVars == <<place, token, drawn, late>>
mapVars == <<sessionMap, latchMap, counted>>
callerVars == <<channels, pc, started, latch, result>>
handlerVars == <<task, got>>
vars == <<netVars, serverVars, tokenVars, mapVars, callerVars, handlerVars>>

StartInfo == [dev : Device, cn : Attempt]
Answer == [fun : {"start"}, said : StartInfo]
            \cup [fun : {"auth", "check"}, said : Transcript \cup {None}]

ASSUME QShieldAssumption ==
    /\ Attempt \subseteq Nat
    /\ Caller \subseteq Attempt
    /\ KeyIn \in [Device -> Key]
    /\ Backlog \in Nat
    /\ None \notin StartInfo

\* What the local variables of a thread hold where it uses them.
LocalsOK ==
    /\ \A a \in Caller :
          /\ pc[a] \notin {"idle", "init", "done"} => started[a] # None
          /\ pc[a] \in {"ready", "sent", "waiting", "awake", "closing"}
                => channels[ClientOf[a]] # None
    /\ \A c \in Caller :
          /\ task[c] # "idle" => got[c].sess # None
          /\ task[c] \in {"named", "filed"} => got[c].dev # None

TypeOK ==
    /\ NetTypeOK
    /\ ServerTypeOK
    /\ place \in Device
    /\ token \in [Device -> [exchange : Attempt \cup {None}, proof : Transcript \cup {None}]]
    /\ drawn \in Attempt \cup {0}
    /\ late \in Seq(Answer) /\ Len(late) <= Backlog
    /\ sessionMap \in [Device -> Transcript \cup {None}]
    /\ latchMap \in [Device -> Caller \cup {None}]
    /\ counted \subseteq Caller
    /\ channels \in [Client -> Caller \cup {None}]
    /\ pc \in [Caller -> {"idle", "init", "info", "reset", "latched", "ready", "sent",
                          "waiting", "awake", "closing", "done"}]
    /\ started \in [Caller -> StartInfo \cup {None}]
    /\ latch \in [Caller -> Caller \cup {None}]
    /\ result \in [Caller -> Transcript \cup {None}]
    /\ task \in [Caller -> {"idle", "checked", "named", "filed"}]
    /\ got \in [Caller -> [sess : Transcript \cup {None}, dev : Device \cup {None}]]
    /\ LocalsOK

Blank == [exchange |-> None, proof |-> None]
Nothing == [sess |-> None, dev |-> None]

Init ==
    /\ NetInit
    /\ ServerInit
    /\ place \in Device
    /\ token = [d \in Device |-> Blank]
    /\ drawn = 0
    /\ late = <<>>
    /\ sessionMap = [d \in Device |-> None]
    /\ latchMap = [d \in Device |-> None]
    /\ counted = {}
    /\ channels = [k \in Client |-> None]
    /\ pc = [a \in Caller |-> "idle"]
    /\ started = [a \in Caller |-> None]
    /\ latch = [a \in Caller |-> None]
    /\ result = [a \in Caller |-> None]
    /\ task = [c \in Caller |-> "idle"]
    /\ got = [c \in Caller |-> Nothing]

--------------------------------------------------------------------------------
(* A call of the token.  It answers in the order of the requests; the call takes *)
(* the first answer that is left, if it is one to the same function, or gives    *)
(* up.  What is returned for anything else is null.                              *)

Left(q) == {rest \in {SubSeq(q, n, Len(q)) : n \in 1..Len(q) + 1} : Len(rest) <= Backlog}

Takes(fun, q, value) ==
    \/ /\ q # <<>>
       /\ value = IF Head(q).fun = fun THEN Head(q).said ELSE None
       /\ late' \in Left(Tail(q))
    \/ /\ "token" \in Faults
       /\ value = None
       /\ late' \in Left(q)

\* The token executes the call, becomes new and says said; or the call fails
\* before that: the token is gone, has been opened by another call, is not told.
Calls(fun, new, said, value) ==
    /\ \/ /\ token' = [token EXCEPT ![place] = new]
          /\ Takes(fun, Append(late, [fun |-> fun, said |-> said]), value)
       \/ /\ "token" \in Faults
          /\ UNCHANGED token
          /\ Takes(fun, late, value)
    /\ UNCHANGED place

\* What a call of which said is the answer may return.
Values(said) == {None, said} \cup {late[i].said : i \in 1..Len(late)}

\* Every call begins an exchange, with a nonce that is new.
genStartInfo(value) ==
    /\ drawn + 1 \in Attempt
    /\ Calls("start", [exchange |-> drawn + 1, proof |-> None],
             [dev |-> place, cn |-> drawn + 1], value)
    /\ drawn' = IF token' = token THEN drawn ELSE drawn + 1

StartInfos == Values([dev |-> place, cn |-> drawn + 1])

\* The proof and the session over the nonce of the exchange and the server's.
Proof(sn) ==
    IF token[place].exchange = None THEN None
    ELSE [dev |-> place, cn |-> token[place].exchange, sn |-> sn, key |-> KeyIn[place]]

genAuthInfo(sn, value) ==
    /\ Calls("auth", [token[place] EXCEPT !.proof = Proof(sn)], Proof(sn), value)
    /\ UNCHANGED drawn

\* The session, if the server's proof is that of the exchange.
Checked(t) == IF token[place].proof = t THEN t ELSE None

checkAuthInfo(t, value) ==
    /\ Calls("check", token[place], Checked(t), value)
    /\ UNCHANGED drawn

\* The token is unplugged and this or another one plugged in.
Exchange ==
    /\ "swap" \in Faults
    /\ place' \in Device
    /\ token' = [token EXCEPT ![place] = Blank]
    /\ late' = <<>>
    /\ UNCHANGED <<netVars, serverVars, drawn, mapVars, callerVars, handlerVars>>

--------------------------------------------------------------------------------
(* The application thread: startAccessAuth. *)

Active(a) == pc[a] \notin {"idle", "done"}
ChannelOf(a) == channels[ClientOf[a]]
DeviceOfCall(a) == started[a].dev

Move(a, from, to) == pc[a] = from /\ pc' = [pc EXCEPT ![a] = to]

\* A step of the thread that only moves it on.
Advance(a, from, to) ==
    /\ Move(a, from, to)
    /\ UNCHANGED <<netVars, tokenVars, mapVars, channels, started, latch, result, handlerVars>>

\* Faulty variant: startAccessAuth is not synchronized.
StartUnsynchronized(a) == Advance(a, "idle", "init")

StartAccessAuth(a) ==
    /\ \A b \in Caller : ClientOf[b] = ClientOf[a] => ~Active(b)
    /\ Advance(a, "idle", "init")

\* Faulty variant: the null is not looked at.
GetAnyStartInfo(a) ==
    \E value \in StartInfos :
        /\ genStartInfo(value)
        /\ Move(a, "init", "info")
        /\ started' = [started EXCEPT ![a] = value]
        /\ UNCHANGED <<netVars, mapVars, channels, latch, result, handlerVars>>

\* generateStartAuthRequest: an exception reaches the application if the token
\* gives null.
GetStartInfo(a) ==
    \E value \in StartInfos :
        /\ genStartInfo(value)
        /\ Move(a, "init", IF value = None THEN "done" ELSE "info")
        /\ started' = [started EXCEPT ![a] = value]
        /\ UNCHANGED <<netVars, mapVars, channels, latch, result, handlerVars>>

\* Faulty variant: the session of the device is left as it is.
ResetNoSession(a) == Advance(a, "info", "reset")

\* reset: a session without ID ...
ResetSession(a) ==
    /\ Move(a, "info", "reset")
    /\ sessionMap' = [sessionMap EXCEPT ![DeviceOfCall(a)] = None]
    /\ UNCHANGED <<netVars, tokenVars, latchMap, counted, channels, started, latch, result,
                   handlerVars>>

\* ... and a latch of its own.
ResetLatch(a) ==
    /\ Move(a, "reset", "latched")
    /\ latchMap' = [latchMap EXCEPT ![DeviceOfCall(a)] = a]
    /\ UNCHANGED <<netVars, tokenVars, sessionMap, counted, channels, started, latch, result,
                   handlerVars>>

\* createChannel succeeds, at the first or the second try, ...
CreateChannel(a) ==
    /\ Move(a, "latched", "ready")
    /\ channels' = [channels EXCEPT ![ClientOf[a]] = a]
    /\ cliOpen' = [cliOpen EXCEPT ![a] = TRUE]
    /\ srvOpen' = [srvOpen EXCEPT ![a] = TRUE]
    /\ UNCHANGED <<wire, tokenVars, mapVars, started, latch, result, handlerVars>>

\* ... or fails twice: the channels of an earlier attempt are used, if there are any.
CreateChannelFails(a) ==
    /\ "connect" \in Faults
    /\ Advance(a, "latched", IF ChannelOf(a) = None THEN "done" ELSE "ready")

\* What is written to a closed channel is lost.
SendRequest(a) ==
    LET c == ChannelOf(a) IN
    /\ Move(a, "ready", "sent")
    /\ wire' = wire \cup IF cliOpen[c] /\ srvOpen[c]
                         THEN {Request(c, DeviceOfCall(a), started[a].cn)} ELSE {}
    /\ UNCHANGED <<cliOpen, srvOpen, tokenVars, mapVars, channels, started, latch, result,
                   handlerVars>>

SendFails(a) == "send" \in Faults /\ Advance(a, "ready", "closing")

\* getSessionInfo waits on the latch the device has now, ...
GetLatch(a) ==
    /\ Move(a, "sent", "waiting")
    /\ latch' = [latch EXCEPT ![a] = latchMap[DeviceOfCall(a)]]
    /\ UNCHANGED <<netVars, tokenVars, mapVars, channels, started, result, handlerVars>>

Awake(a) == latch[a] \in counted /\ Advance(a, "waiting", "awake")

\* Faulty variant: await without a timeout.
NoTimeout(a) == FALSE /\ Advance(a, "waiting", "awake")

Timeout(a) == "timeout" \in Faults /\ Advance(a, "waiting", "awake")

Interrupted(a) == "interrupt" \in Faults /\ Advance(a, "waiting", "closing")

\* ... and returns the session the device has then, if that has an ID.
GetSession(a) ==
    LET sess == sessionMap[DeviceOfCall(a)] IN
    /\ Move(a, "awake", IF sess # None THEN "done" ELSE "closing")
    /\ result' = [result EXCEPT ![a] = sess]
    /\ UNCHANGED <<netVars, tokenVars, mapVars, channels, started, latch, handlerVars>>

\* close waits for the thread of the channel.
Close(a) ==
    LET c == ChannelOf(a) IN
    /\ Move(a, "closing", "done")
    /\ task[c] = "idle"
    /\ cliOpen' = [cliOpen EXCEPT ![c] = FALSE]
    /\ wire' = ClosedByClient(c)
    /\ UNCHANGED <<srvOpen, tokenVars, mapVars, channels, started, latch, result, handlerVars>>

--------------------------------------------------------------------------------
(* The thread of a channel: processAuthencaition. *)

Receives(c, m, type) ==
    /\ m \in wire \cap ToClient /\ m.ch = c /\ m.type = type
    /\ cliOpen[c]
    /\ task[c] = "idle"

Goes(c, to, sess, dev) ==
    /\ task' = [task EXCEPT ![c] = to]
    /\ got' = [got EXCEPT ![c] = [sess |-> sess, dev |-> dev]]

\* checkMessage refuses a failure status: nobody is told.
IgnoreFailure(c, m) ==
    /\ Receives(c, m, "FAILURE")
    /\ wire' = wire \ {m}
    /\ UNCHANGED <<cliOpen, srvOpen, tokenVars, mapVars, callerVars, handlerVars>>

\* The proof goes out, if the token gives one.
SendProof(c, m) ==
    /\ Receives(c, m, "RESPONSE")
    /\ \E value \in Values(Proof(m.sn)) :
         /\ genAuthInfo(m.sn, value)
         /\ wire' = (wire \ {m}) \cup IF value # None /\ srvOpen[c]
                                      THEN {ClientProof(c, value)} ELSE {}
    /\ UNCHANGED <<cliOpen, srvOpen, mapVars, callerVars, handlerVars>>

\* The session comes from the token, ...
CheckServerProof(c, m) ==
    /\ Receives(c, m, "SERVER_PROOF")
    /\ \E value \in Values(Checked(m.proof)) :
         /\ checkAuthInfo(m.proof, value)
         /\ IF value = None THEN UNCHANGED handlerVars ELSE Goes(c, "checked", value, None)
    /\ wire' = wire \ {m}
    /\ UNCHANGED <<cliOpen, srvOpen, mapVars, callerVars>>

\* ... the device from the beginning of another exchange, which nobody goes on
\* with.  A null ends the handling: the session is lost, and the caller not told.
GetDeviceID(c) ==
    /\ task[c] = "checked"
    /\ \E value \in StartInfos :
         /\ genStartInfo(value)
         /\ IF value = None THEN Goes(c, "idle", None, None)
            ELSE Goes(c, "named", got[c].sess, value.dev)
    /\ UNCHANGED <<netVars, mapVars, callerVars>>

PutSession(c) ==
    /\ task[c] = "named"
    /\ sessionMap' = [sessionMap EXCEPT ![got[c].dev] = got[c].sess]
    /\ Goes(c, "filed", got[c].sess, got[c].dev)
    /\ UNCHANGED <<netVars, tokenVars, latchMap, counted, callerVars>>

\* The latch is whatever the device has by now; if it has none, a null pointer
\* exception ends the handling.
CountDown(c) ==
    /\ task[c] = "filed"
    /\ counted' = counted \cup ({latchMap[got[c].dev]} \ {None})
    /\ Goes(c, "idle", None, None)
    /\ UNCHANGED <<netVars, tokenVars, sessionMap, latchMap, callerVars>>

--------------------------------------------------------------------------------
CallerStep(a) ==
    \/ GetStartInfo(a)
    \/ ResetSession(a)
    \/ ResetLatch(a)
    \/ CreateChannel(a)
    \/ SendRequest(a)
    \/ GetLatch(a)
    \/ Awake(a)
    \/ Timeout(a)
    \/ GetSession(a)
    \/ Close(a)

CallerFault(a) ==
    \/ CreateChannelFails(a)
    \/ SendFails(a)
    \/ Interrupted(a)

HandlerStep(c) ==
    \/ \E m \in wire : IgnoreFailure(c, m) \/ SendProof(c, m) \/ CheckServerProof(c, m)
    \/ GetDeviceID(c)
    \/ PutSession(c)
    \/ CountDown(c)

ClientNext ==
    \/ \E a \in Caller : StartAccessAuth(a) \/ CallerStep(a) \/ CallerFault(a)
    \/ \E c \in Caller : HandlerStep(c)

Next ==
    \/ ClientNext /\ UNCHANGED serverVars
    \/ ServerNext /\ UNCHANGED <<tokenVars, mapVars, callerVars, handlerVars>>
    \/ Exchange

\* A call of the token returns, for it has a timeout of its own; the rest is that
\* of AccessAuth.
Fairness ==
    /\ \A a \in Caller : WF_vars(CallerStep(a) /\ UNCHANGED serverVars)
    /\ \A c \in Caller : WF_vars(HandlerStep(c) /\ UNCHANGED serverVars)

Spec == Init /\ [][Next]_vars

FairSpec == Spec /\ Fairness

--------------------------------------------------------------------------------
(* What startAccessAuth returns is the session the server established for the  *)
(* nonce of this very attempt and the device it began with: not one that an    *)
(* earlier attempt left in the maps, nor one a late proof has put there, that  *)
(* another token was asked for its ID, or that an answer the token gave too    *)
(* late belongs to.                                                            *)
OwnSession ==
    \A a \in Caller : result[a] # None =>
        /\ result[a] \in established
        /\ result[a].cn = started[a].cn
        /\ result[a].dev = started[a].dev

(* startAccessAuth returns, whatever the token, the server and the network do. *)
AttemptsReturn == \A a \in Caller : pc[a] # "idle" ~> pc[a] = "done"

--------------------------------------------------------------------------------
(* The inductive invariant behind the sessions that callers get, as named      *)
(* parts: nonces are compared by when they were drawn.                         *)

\* There is one client, whose attempts take turns on the one token.
OnlyOneClient == \A a, b \in Caller : ClientOf[a] = ClientOf[b]

\* Only the token that is plugged in has an exchange, the last that was begun.
TokenFresh ==
    /\ \A d \in Device \ {place} : token[d] = Blank
    /\ token[place].exchange \in {None, drawn}
    /\ token[place].proof # None => token[place].proof.cn = drawn

\* Answer q is not older than nonce n, and newer if it begins an exchange.
Since(n, q) ==
    q.said # None => n <= q.said.cn /\ (q.fun = "start" => n < q.said.cn)

\* Unread answers lie in the order of their nonces ...
Ordered(q) ==
    \A i, j \in 1..Len(q) : i < j /\ q[i].said # None => Since(q[i].said.cn, q[j])

\* ... and none is older than an exchange an attempt has gone on with.
AnswersFresh ==
    /\ Ordered(late)
    /\ \A i \in 1..Len(late) :
          /\ late[i].said # None => late[i].said.cn <= drawn
          /\ \A a \in Caller : started[a] # None => Since(started[a].cn, late[i])

\* The attempts take turns, and the nonce of the later one is the newer one.
StartsFresh ==
    /\ \A a \in Caller : pc[a] \in {"idle", "init"} => started[a] = None
    /\ \A a \in Caller : started[a] # None => started[a].cn <= drawn
    /\ \A a, b \in Caller : Active(a) /\ Active(b) => a = b
    /\ \A a, b \in Caller : a # b /\ started[a] # None /\ started[b] # None =>
          /\ started[a].cn # started[b].cn
          /\ Active(a) => started[b].cn < started[a].cn

Begun(d, n) ==
    \E a \in Caller : started[a] # None /\ started[a].dev = d /\ started[a].cn = n

\* The server meets no nonce but those of attempts, ...
ServerFresh ==
    /\ \A m \in wire : m.type = "REQUEST" => Begun(m.dev, m.cn)
    /\ \A d \in Device : authAssist[d] # None => Begun(d, authAssist[d].cn)
    /\ \A t \in established : Begun(t.dev, t.cn)

\* ... and the token checks no proof but the server's.
ProofsEstablished ==
    /\ \A m \in wire : m.type = "SERVER_PROOF" => m.proof \in established
    /\ \A i \in 1..Len(late) :
          late[i].fun = "check" /\ late[i].said # None => late[i].said \in established

Connected(c) == pc[c] \notin {"idle", "init", "info", "reset", "latched"}

ChannelsOwn ==
    /\ \A k \in Client : channels[k] # None => Connected(channels[k])
    /\ \A c \in Caller : cliOpen[c] => Connected(c)

\* Attempt a has sent its request on channel c, and has neither got a session nor
\* returned.
Exchanges(a, c) ==
    /\ pc[a] \in {"sent", "waiting", "awake", "closing"}
    /\ ChannelOf(a) = c
    /\ sessionMap[DeviceOfCall(a)] = None

\* An exchange is in one place at a time, and its attempt has not ended.
MessagesOwned ==
    \A m \in wire :
        /\ m.ch \in Caller /\ Connected(m.ch)
        /\ cliOpen[m.ch] =>
             /\ task[m.ch] \in {"idle", "filed"}
             /\ \A n \in wire : n.ch = m.ch => n = m
             /\ \E a \in Caller :
                   /\ Exchanges(a, m.ch)
                   /\ m.type \in {"CLIENT_PROOF", "SERVER_PROOF"} =>
                         started[a].cn <= m.proof.cn

HandlersOwned ==
    \A c \in Caller : task[c] \in {"checked", "named"} =>
        \E a \in Caller :
            /\ Exchanges(a, c)
            /\ got[c].sess \in established
            /\ started[a].cn <= got[c].sess.cn

IsOwn(sess, a) ==
    sess \in established /\ sess.cn = started[a].cn /\ sess.dev = started[a].dev

SessionsOwn ==
    \A a \in Caller :
        /\ pc[a] \in {"reset", "latched", "ready"} => sessionMap[started[a].dev] = None
        /\ pc[a] \in {"sent", "waiting", "awake", "closing"} =>
              \/ sessionMap[started[a].dev] = None
              \/ IsOwn(sessionMap[started[a].dev], a)
        /\ result[a] # None => pc[a] = "done" /\ started[a] # None /\ IsOwn(result[a], a)

(* An answer the token gave too late, or a nonce it drew for a device ID only,  *)
(* is never of the exchange that is under way: what a session is made of is of  *)
(* the last attempt, and no other attempt waits.                                *)
FreshInv ==
    /\ TokenFresh
    /\ AnswersFresh
    /\ StartsFresh
    /\ ServerFresh
    /\ ProofsEstablished
    /\ ChannelsOwn
    /\ MessagesOwned
    /\ HandlersOwned
    /\ SessionsOwn

--------------------------------------------------------------------------------
PhaseOf(a) ==
    CASE pc[a] = "idle" -> "idle"
      [] result[a] # None -> "success"
      [] pc[a] \in {"closing", "done"} /\ result[a] = None -> "failure"
      [] OTHER -> "running"

Promise == INSTANCE MutualAuth WITH
    Attempt <- Caller,
    Genuine <- Caller,
    phase <- [a \in Caller |-> PhaseOf(a)],
    granted <- {a \in Caller : started[a] # None /\ \E t \in established : t.cn = started[a].cn}

(* With a token an authentication promises the same as without.                *)
ImplementsMutualAuth == Promise!Spec
================================================================================
