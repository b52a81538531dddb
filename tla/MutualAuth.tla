------------------------------- MODULE MutualAuth ------------------------------
(***************************************************************************)
(* What an access authentication promises, without threads, maps or        *)
(* messages: an attempt that begins either fails or succeeds; the server   *)
(* may grant each attempt that has begun and that holds the device's key,  *)
(* once; an attempt succeeds only with the session the server granted it.  *)
(***************************************************************************)
CONSTANTS
    Attempt,    \* calls of startAccessAuth
    Genuine     \* the attempts made with the key the server knows

VARIABLES
    phase,      \* what the caller of an attempt has seen
    granted     \* the attempts the server has established a session for

vars == <<phase, granted>>

TypeOK ==
    /\ phase \in [Attempt -> {"idle", "running", "success", "failure"}]
    /\ granted \subseteq Genuine

Init ==
    /\ phase = [a \in Attempt |-> "idle"]
    /\ granted = {}

Begin(a) ==
    /\ phase[a] = "idle"
    /\ phase' = [phase EXCEPT ![a] = "running"]
    /\ UNCHANGED granted

\* The server may grant an attempt whose caller has already given up.
Grant(a) ==
    /\ phase[a] \in {"running", "failure"}
    /\ a \in Genuine \ granted
    /\ granted' = granted \cup {a}
    /\ UNCHANGED phase

Succeed(a) ==
    /\ phase[a] = "running"
    /\ a \in granted
    /\ phase' = [phase EXCEPT ![a] = "success"]
    /\ UNCHANGED granted

Fail(a) ==
    /\ phase[a] = "running"
    /\ phase' = [phase EXCEPT ![a] = "failure"]
    /\ UNCHANGED granted

Next == \E a \in Attempt : Begin(a) \/ Grant(a) \/ Succeed(a) \/ Fail(a)

Spec == Init /\ [][Next]_vars
================================================================================
