------------------------------- MODULE AuthServer ------------------------------
(***************************************************************************)
(* AuthenticationProcessor, the server side of the access authentication.  *)
(*                                                                         *)
(* processAuthencaition is synchronized on the one Spring singleton, so    *)
(* each message is handled in one step.  The transport framework (the      *)
(* CacheData map from a device to its live connection, its registration of *)
(* an authenticated connection and its reaction to a disconnect) is not in *)
(* the repository; it is modelled from how the processor uses it.          *)
(***************************************************************************)
EXTENDS AuthNetwork

VARIABLES
    authAssist,  \* AUTH_ASSIST_MAP: the nonces of the exchange begun for a device
    connection,  \* CacheData: the registered connection of a device
    toRegister,  \* authenticated connections the framework has yet to register
    established  \* every session the processor has established (history)

serverVars == <<authAssist, connection, toRegister, established>>

AuthInfo == [cn : Attempt, sn : Attempt]

ServerTypeOK ==
    /\ authAssist \in [Device -> AuthInfo \cup {None}]
    /\ connection \in [Device -> Attempt \cup {None}]
    /\ toRegister \subseteq [ch : Attempt, dev : Device]
    /\ established \subseteq Transcript

ServerInit ==
    /\ authAssist = [d \in Device |-> None]
    /\ connection = [d \in Device |-> None]
    /\ toRegister = {}
    /\ established = {}

\* The server writes reply r on channel c; on a closed channel it is lost.
Written(c, r, open) == IF open[c] /\ cliOpen[c] THEN {r} ELSE {}

\* wrapAuthMessage answers with a bare failure status when the root key cannot
\* be read or the body not be encrypted, whatever the processor decided.
Wrapped(c, r) == {r} \cup IF "wrap" \in Faults THEN {Failure(c)} ELSE {}

\* isExistSession: an authentication request closes the connection the device
\* already has and forgets it.
AfterClose(d) ==
    IF connection[d] = None THEN srvOpen
    ELSE [srvOpen EXCEPT ![connection[d]] = FALSE]

LeftAfterClose(d) ==
    IF connection[d] = None THEN wire ELSE ClosedByServer(connection[d])

IsExistSession(d) ==
    /\ connection' = [connection EXCEPT ![d] = None]
    /\ srvOpen' = AfterClose(d)

--------------------------------------------------------------------------------
\* unwrapAuthMessage rejects the message (root key unknown, CRC, version,
\* length...): a failure status goes back and nothing else changes.
RejectFrame(m) ==
    /\ "frame" \in Faults
    /\ m \in wire \cap ToServer
    /\ srvOpen[m.ch]
    /\ wire' = (wire \ {m}) \cup Written(m.ch, Failure(m.ch), srvOpen)
    /\ UNCHANGED <<cliOpen, srvOpen, serverVars>>

\* A request of a device the database does not know.  The connection of the
\* device has been closed by then.
UnknownDevice(m) ==
    /\ m \in wire /\ m.type = "REQUEST"
    /\ srvOpen[m.ch]
    /\ Password[m.dev] = None
    /\ IsExistSession(m.dev)
    /\ wire' = (LeftAfterClose(m.dev) \ {m})
                  \cup Written(m.ch, Failure(m.ch), AfterClose(m.dev))
    /\ UNCHANGED <<cliOpen, authAssist, toRegister, established>>

\* Faulty variant: the server nonce is left out of the remembered exchange.
GenerateAuthResponseWithoutNonce(m) ==
    /\ m \in wire /\ m.type = "REQUEST"
    /\ srvOpen[m.ch]
    /\ Password[m.dev] # None
    /\ IsExistSession(m.dev)
    /\ authAssist' = [authAssist EXCEPT ![m.dev] = [cn |-> m.cn]]
    /\ wire' = (LeftAfterClose(m.dev) \ {m})
                   \cup Written(m.ch, Response(m.ch, m.dev, m.cn), AfterClose(m.dev))
    /\ UNCHANGED <<cliOpen, toRegister, established>>

\* A request of a known device: close its old connection, draw a server nonce,
\* remember both nonces (over those of an exchange already begun) and answer.
GenerateAuthResponse(m) ==
    /\ m \in wire /\ m.type = "REQUEST"
    /\ srvOpen[m.ch]
    /\ Password[m.dev] # None
    /\ IsExistSession(m.dev)
    /\ authAssist' = [authAssist EXCEPT ![m.dev] = [cn |-> m.cn, sn |-> m.cn]]
    /\ \E r \in Wrapped(m.ch, Response(m.ch, m.dev, m.cn)) :
          wire' = (LeftAfterClose(m.dev) \ {m})
                      \cup Written(m.ch, r, AfterClose(m.dev))
    /\ UNCHANGED <<cliOpen, toRegister, established>>

\* Faulty variants: the recovered key is not compared with the password; the
\* client nonce is left out of the transcript.
CheckWithoutPassword(t) ==
    /\ authAssist[t.dev] # None
    /\ t.cn = authAssist[t.dev].cn
    /\ t.sn = authAssist[t.dev].sn

CheckWithoutClientNonce(t) ==
    /\ authAssist[t.dev] # None
    /\ t.key = Password[t.dev]
    /\ t.sn = authAssist[t.dev].sn

\* checkClientAuthentication: the key recovered from the proof hashes to the
\* stored password only if the proof was made with that key over the very
\* nonces the server remembers for the device.
CheckClientAuthentication(t) ==
    /\ authAssist[t.dev] # None
    /\ t.key = Password[t.dev]
    /\ t.cn = authAssist[t.dev].cn
    /\ t.sn = authAssist[t.dev].sn

\* Faulty variant: the exchange is not removed from AUTH_ASSIST_MAP.
AcceptAndRemember(m) ==
    /\ m \in wire /\ m.type = "CLIENT_PROOF"
    /\ srvOpen[m.ch]
    /\ CheckClientAuthentication(m.proof)
    /\ established' = established \cup {m.proof}
    /\ toRegister' = toRegister \cup {[ch |-> m.ch, dev |-> m.proof.dev]}
    /\ wire' = (wire \ {m}) \cup Written(m.ch, ServerProof(m.ch, m.proof), srvOpen)
    /\ UNCHANGED <<cliOpen, srvOpen, connection, authAssist>>

\* A proof that checks: the session is established and handed to the framework
\* even when wrapping the answer fails; the exchange is forgotten.
AcceptClientProof(m) ==
    /\ m \in wire /\ m.type = "CLIENT_PROOF"
    /\ srvOpen[m.ch]
    /\ CheckClientAuthentication(m.proof)
    /\ authAssist' = [authAssist EXCEPT ![m.proof.dev] = None]
    /\ established' = established \cup {m.proof}
    /\ toRegister' = toRegister \cup {[ch |-> m.ch, dev |-> m.proof.dev]}
    /\ \E r \in Wrapped(m.ch, ServerProof(m.ch, m.proof)) :
          wire' = (wire \ {m}) \cup Written(m.ch, r, srvOpen)
    /\ UNCHANGED <<cliOpen, srvOpen, connection>>

\* A proof that does not check: a failure status, and the exchange is forgotten
\* all the same.
RefuseClientProof(m) ==
    /\ m \in wire /\ m.type = "CLIENT_PROOF"
    /\ srvOpen[m.ch]
    /\ ~CheckClientAuthentication(m.proof)
    /\ authAssist' = [authAssist EXCEPT ![m.proof.dev] = None]
    /\ wire' = (wire \ {m}) \cup Written(m.ch, Failure(m.ch), srvOpen)
    /\ UNCHANGED <<cliOpen, srvOpen, connection, toRegister, established>>

--------------------------------------------------------------------------------
\* The framework registers the connection of a session the processor returned,
\* unless it has gone in the meantime.
RegisterConnection(r) ==
    /\ r \in toRegister
    /\ toRegister' = toRegister \ {r}
    /\ connection' = IF srvOpen[r.ch] THEN [connection EXCEPT ![r.dev] = r.ch]
                     ELSE connection
    /\ UNCHANGED <<netVars, authAssist, established>>

\* The server reads the end of a channel the client closed, or learns that a
\* channel broke: after the data sent before, it closes its end and forgets
\* the connection.
Disconnect(c) ==
    /\ ~(cliOpen[c] /\ srvOpen[c])
    /\ srvOpen[c] \/ \E d \in Device : connection[d] = c
    /\ ~\E m \in wire : m \in ToServer /\ m.ch = c
    /\ srvOpen' = [srvOpen EXCEPT ![c] = FALSE]
    /\ connection' = [d \in Device |->
                         IF connection[d] = c THEN None ELSE connection[d]]
    /\ UNCHANGED <<wire, cliOpen, authAssist, toRegister, established>>

\* The network drops a connection and everything in flight on it.
LoseConnection(c) ==
    /\ "lose" \in Faults
    /\ cliOpen[c] \/ srvOpen[c]
    /\ wire' = {m \in wire : m.ch # c}
    /\ cliOpen' = [cliOpen EXCEPT ![c] = FALSE]
    /\ srvOpen' = [srvOpen EXCEPT ![c] = FALSE]
    /\ UNCHANGED serverVars

\* The server process restarts: every map it holds is in memory.
ServerRestart ==
    /\ "restart" \in Faults
    /\ authAssist' = [d \in Device |-> None]
    /\ connection' = [d \in Device |-> None]
    /\ toRegister' = {}
    /\ srvOpen' = [c \in Attempt |-> FALSE]
    /\ wire' = wire \ ToServer
    /\ UNCHANGED <<cliOpen, established>>

\* What the server's threads do with a message, and what is outside them.
ProcessAuthencaition ==
    \E m \in wire :
        \/ UnknownDevice(m)
        \/ GenerateAuthResponse(m)
        \/ AcceptClientProof(m)
        \/ RefuseClientProof(m)

ServerFrame ==
    \/ \E m \in wire : RejectFrame(m)
    \/ \E r \in toRegister : RegisterConnection(r)
    \/ \E c \in Attempt : Disconnect(c) \/ LoseConnection(c)
    \/ ServerRestart

ServerNext == ProcessAuthencaition \/ ServerFrame
================================================================================
