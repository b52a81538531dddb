------------------------------- MODULE AccessAuth ------------------------------
(***************************************************************************)
(* The access authentication as a whole: the client's threads, the server  *)
(* and the channels between them.                                          *)
(***************************************************************************)
EXTENDS AuthServer, AuthClient

vars == <<netVars, serverVars, clientVars>>

TypeOK == NetTypeOK /\ ServerTypeOK /\ ClientTypeOK

Init == NetInit /\ ServerInit /\ ClientInit

Next ==
    \/ ClientNext /\ UNCHANGED serverVars
    \/ ServerNext /\ UNCHANGED clientVars

(* Application threads, channel threads and the server's threads run on; the *)
(* timeout of await expires; the network and the framework deliver what they *)
(* hold.  Starting an attempt and every fault is left to the environment.    *)
Fairness ==
    /\ \A a \in Attempt : WF_vars(CallerStep(a) /\ UNCHANGED serverVars)
    /\ \A c \in Attempt : WF_vars(HandlerStep(c) /\ UNCHANGED serverVars)
    /\ WF_vars(ProcessAuthencaition /\ UNCHANGED clientVars)
    /\ WF_vars((\E r \in toRegister : RegisterConnection(r)) /\ UNCHANGED clientVars)
    /\ \A c \in Attempt : WF_vars(Disconnect(c) /\ UNCHANGED clientVars)

Spec == Init /\ [][Next]_vars

FairSpec == Spec /\ Fairness

--------------------------------------------------------------------------------
(* Attempts on one device are all made on one AuthenticationClient, whose      *)
(* synchronized startAccessAuth makes them take turns.                         *)
OneClientPerDevice ==
    \A a, b \in Attempt : DeviceOf[a] = DeviceOf[b] => ClientOf[a] = ClientOf[b]

Genuine == {a \in Attempt : KeyOf[a] = Password[DeviceOf[a]]}

(* The server establishes a session only for a client nonce that was drawn by  *)
(* a genuine attempt on that device, over a server nonce it issued itself      *)
(* (AuthenticationProcessor.checkClientAuthentication), however the entries of *)
(* AUTH_ASSIST_MAP and AUTH_ASSIST_INFO_MAP were overwritten in between.       *)
ServerAgreement ==
    \A t \in established :
        /\ t.cn \in Genuine
        /\ t.dev = DeviceOf[t.cn]
        /\ t.key = KeyOf[t.cn]
        /\ pc[t.cn] \notin {"idle", "init", "reset", "ready"}

(* The exchange remembered for a device is one no session exists for yet: a    *)
(* nonce pair is spent by the session made from it.                            *)
SpentNoncesForgotten ==
    \A d \in Device : authAssist[d] # None =>
        ~\E t \in established : t.dev = d /\ t.sn = authAssist[d].sn

(* No two sessions share a client nonce or a server nonce: an exchange never   *)
(* yields a second session, and sessions of different attempts never mix.      *)
OneSessionPerNonce ==
    \A t, u \in established : t.cn = u.cn \/ t.sn = u.sn => t = u

(* A session the client's processor hands to the transport is one the server   *)
(* established (LocalAuthProcessor.checkServerProof), though the entry it is   *)
(* checked against can change between any two of its steps.                    *)
DeliveredIsEstablished ==
    \A r \in delivered : r.sess \in established

(* What startAccessAuth returns is the session the server established for this *)
(* attempt's own nonce, device and key, and the transport was given it too.    *)
CallerAgreement ==
    \A a \in Attempt : result[a] # None =>
        /\ result[a] \in established
        /\ result[a].cn = a
        /\ result[a].dev = DeviceOf[a]
        /\ \E r \in delivered : r.sess = result[a]

(* An attempt that gives up after sending leaves no client channel open: the   *)
(* request and any late answer to it die with the channel.                     *)
FailureClosesChannel ==
    \A a \in Attempt :
        pc[a] = "done" /\ result[a] = None => ~cliOpen[a]

(* getSessionInfo removes the entry of its own attempt, or nothing: never the  *)
(* entry another attempt on the device is waiting on.                          *)
RemovesOwnEntry ==
    [][\A a \in Attempt : RemoveEntry(a) =>
           assistMap[DeviceOf[a]] \in {a, None}]_vars

(* startAccessAuth always returns, with a session or without: no lock, no      *)
(* latch and no close waits for ever, whatever is lost.                        *)
AttemptsReturn ==
    \A a \in Attempt : pc[a] # "idle" ~> pc[a] = "done"

(* When nothing goes wrong, a genuine attempt ends with a session.             *)
GenuineAttemptsSucceed ==
    \A a \in Genuine : pc[a] # "idle" ~> result[a] # None

--------------------------------------------------------------------------------
(* The inductive invariant behind the server's agreement, as named parts.  It  *)
(* assumes nothing of how attempts share clients and devices.                  *)

\* A transcript names the device and the key of the attempt whose nonce it has.
Bound(t) == t.dev = DeviceOf[t.cn] /\ t.key = KeyOf[t.cn]

Sent(a) == pc[a] \notin {"idle", "init", "reset", "ready"}

\* An entry is only ever filed under its own device, so that whatever entries a
\* handler meets, the transcript it computes is bound.
EntriesFiledByDevice ==
    /\ \A d \in Device : assistMap[d] # None => DeviceOf[assistMap[d]] = d
    /\ \A c \in Attempt :
          /\ task[c] \in {"nonce", "entry", "session"} => Bound(computed[c])
          /\ task[c] \in {"entry", "session"} => DeviceOf[found[c]] = computed[c].dev
    /\ \A m \in wire : m.type = "CLIENT_PROOF" => Bound(m.proof)

\* A nonce is in one place at a time: in a request, then in a remembered
\* exchange, then in a session.
RequestsFresh ==
    \A m \in wire : m.type = "REQUEST" =>
        /\ m.dev = DeviceOf[m.cn]
        /\ Sent(m.cn)
        /\ \A n \in wire : n.type = "REQUEST" /\ n.cn = m.cn => n = m
        /\ \A d \in Device : authAssist[d] # None => authAssist[d].sn # m.cn
        /\ \A t \in established : t.sn # m.cn

ExchangesFresh ==
    \A d \in Device : authAssist[d] # None =>
        /\ authAssist[d].cn = authAssist[d].sn
        /\ DeviceOf[authAssist[d].sn] = d
        /\ Sent(authAssist[d].sn)
        /\ \A t \in established : t.sn # authAssist[d].sn

SessionsGenuine ==
    \A t \in established : t.cn = t.sn /\ Bound(t) /\ Sent(t.cn) /\ t.cn \in Genuine

\* A server proof exists only for an established session.
ProofsEstablished ==
    /\ \A m \in wire : m.type = "SERVER_PROOF" => m.proof \in established
    /\ \A c \in Attempt :
          /\ msg[c] # None /\ msg[c].type = "SERVER_PROOF" => msg[c].proof \in established
          /\ task[c] = "verified" => computed[c] \in established
    /\ DeliveredIsEstablished

(* Every session, remembered exchange, request and proof traces back to one    *)
(* attempt's nonce, however the two maps were overwritten in between.          *)
AgreementInv ==
    /\ EntriesFiledByDevice
    /\ RequestsFresh
    /\ ExchangesFresh
    /\ SessionsGenuine
    /\ ProofsEstablished

--------------------------------------------------------------------------------
(* The inductive invariant behind what callers get, as named parts.  Only the  *)
(* last one needs OneClientPerDevice.                                          *)

\* The attempts of a client take turns.
TakesTurns ==
    \A a, b \in Attempt : Active(a) /\ Active(b) /\ ClientOf[a] = ClientOf[b] => a = b

Connected(c) == pc[c] \notin {"idle", "init", "reset"}

\* A client's channel was opened by one of its attempts, ...
ChannelsOwn ==
    \A k \in Client : channels[k] # None => ClientOf[channels[k]] = k /\ Connected(channels[k])

\* ... which uses no other, and leaves it open only to return a session.
ChannelsOpen ==
    \A c \in Attempt : cliOpen[c] =>
        /\ Connected(c)
        /\ Active(c) => ChannelOf(c) = c
        /\ pc[c] = "done" => result[c] # None

ChannelInv == TakesTurns /\ ChannelsOwn /\ ChannelsOpen

\* The transcript of an exchange in which everyone used the attempt's own values.
Own(a) == [dev |-> DeviceOf[a], cn |-> a, sn |-> a, key |-> KeyOf[a]]

\* Attempt a has sent its request on channel c and waits for, or has given up on,
\* an answer.
Exchanges(a, c) ==
    /\ pc[a] \in {"sent", "waiting", "awake", "removed", "closing"}
    /\ ~success[a]
    /\ ClientOf[a] = ClientOf[c]
    /\ ChannelOf(a) = c

OfExchange(m, a) ==
    /\ m.type = "REQUEST" => m.cn = a
    /\ m.type = "RESPONSE" => m.dev = DeviceOf[a] /\ m.sn = a
    /\ m.type \in {"CLIENT_PROOF", "SERVER_PROOF"} => m.proof = Own(a)

\* An exchange is in one place at a time, a message or the thread of its channel,
\* and its attempt has not ended.
MessagesOwned ==
    \A m \in wire :
        /\ Connected(m.ch)
        /\ cliOpen[m.ch] =>
             /\ task[m.ch] = "idle"
             /\ \A n \in wire : n.ch = m.ch => n = m
             /\ \E a \in Attempt : Exchanges(a, m.ch) /\ OfExchange(m, a)

\* The thread of channel c works for attempt a, on a's own values.
Handles(a, c) ==
    /\ Exchanges(a, c) /\ OfExchange(msg[c], a)
    /\ task[c] \in {"nonce", "entry", "session", "verified"} => computed[c] = Own(a)
    /\ task[c] \in {"entry", "session", "proof", "verified"} => found[c] = a
    /\ task[c] = "verified" => session[a] = Own(a)

HandlersOwned ==
    \A c \in Attempt : task[c] # "idle" => \E a \in Attempt : Handles(a, c)

\* The map has an attempt's own entry, if any, from reset to the end.
EntriesOwn ==
    \A a \in Attempt :
        /\ Active(a) /\ pc[a] # "init" => assistMap[DeviceOf[a]] \in {a, None}
        /\ pc[a] \in {"waiting", "awake", "removed"} => entry[a] = a

SessionsOwn ==
    \A a \in Attempt :
        /\ session[a] \in {None, Own(a)}
        /\ success[a] => /\ Sent(a) /\ session[a] = Own(a)
                         /\ Own(a) \in established
                         /\ \E r \in delivered : r.sess = Own(a)
        /\ result[a] # None => pc[a] = "done" /\ success[a] /\ result[a] = Own(a)

(* Whatever a late message or a late thread still does, it does for the attempt *)
(* that is waiting for it, and none is left when an attempt succeeds.           *)
ExchangeInv == MessagesOwned /\ HandlersOwned /\ EntriesOwn /\ SessionsOwn

--------------------------------------------------------------------------------
(* The authentication implements MutualAuth as long as OneClientPerDevice. *)
PhaseOf(a) ==
    CASE pc[a] = "idle" -> "idle"
      [] result[a] # None -> "success"
      [] pc[a] \in {"closing", "done"} /\ result[a] = None -> "failure"
      [] OTHER -> "running"

Promise == INSTANCE MutualAuth WITH
    phase <- [a \in Attempt |-> PhaseOf(a)],
    granted <- {t.cn : t \in established}

(* Every step of the threads, maps and messages is a step of the promise.      *)
ImplementsMutualAuth == Promise!Spec
================================================================================
