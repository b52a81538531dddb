---------------------------------- MODULE QKey ---------------------------------
(***************************************************************************)
(* CSRC/Qkey.c and CSRC/jni_QKeyService.c: what the native methods of        *)
(* QKeyService make of a call from Java and of the answer of the token.      *)
(* HidTransSendRec is what TokenLink promises of it; the token is external.  *)
(***************************************************************************)
EXTENDS Integers, Sequences

CONSTANTS
    Thread,                     \* threads of the process
    Keeper,                     \* the one that maintains the root key
    MaxKeys,                    \* bound: root keys the token makes
    Text,                       \* whatever else is asked and answered
    Length,                     \* lengths of the arrays Java passes
    Stated,                     \* lengths the fields of an answer state
    TransLen, HeadLen, IdLen,   \* of HidTrans
    Backlog,                    \* bound: what may be left behind when a thread calls
    None, NoData, Garbage, Refused

VARIABLES
    call, requests, answers,    \* of TokenLink
    token,      \* what the token remembers
    owner,      \* the thread whose call has it open
    result,     \* what the keeper's last native call has returned
    held,       \* the root key the keeper got last, 0 before the first
    trusted     \* the root keys the keeper takes the token to have one of

Fun == {"init", "start", "auth", "check", "encrypt", "decrypt", "update", "confirm",
        "resetpin", "restart", "info", "resetload"}
\* Root keys are numbered as the token makes them; it is issued with one.
Key == Nat
FactoryKey == 0

Ask == Key \cup Text \cup {NoData, Garbage}
Said == Key \cup Text \cup {NoData}

Link == INSTANCE TokenLink

linkVars == <<call, requests, answers>>
keeperVars == <<held, trusted>>
vars == <<linkVars, token, owner, result, keeperVars>>

Outcome == [fun : Fun, ok : BOOLEAN, said : Said \cup {None}]

ASSUME QKeyAssumption ==
    /\ Keeper \in Thread
    /\ None \notin Thread \cup Outcome \cup Link!OpenCall
    /\ {Garbage, Refused} \cap Nat = {} /\ Garbage # Refused

TypeOK ==
    /\ Link!LinkTypeOK
    /\ token \in [root : Key, candidate : Key, made : Key]
    /\ owner \in Thread \cup {None} /\ (call = None) = (owner = None)
    /\ result \in Outcome \cup {None}
    /\ held \in Key
    /\ trusted \subseteq Key
    /\ result # None /\ result.ok /\ result.fun = "update" => result.said \in Key

Init ==
    /\ Link!LinkInit
    /\ token = [root |-> FactoryKey, candidate |-> 0, made |-> 0]
    /\ owner = None
    /\ result = None
    /\ held = 0
    /\ trusted = {FactoryKey}

--------------------------------------------------------------------------------
(* Qkey.c, up to HidTransSendRec. *)

Free(t) == owner # t /\ (t = Keeper => result = None)

\* Thread t is told; what others than the keeper make of it is not followed.
Tell(t, fun, ok, said) ==
    result' = IF t # Keeper THEN result
              ELSE [fun |-> fun, ok |-> ok, said |-> IF ok THEN said ELSE None]

\* HidTransSendRec refuses a request it has no room for.
Fits(len) == len <= TransLen - HeadLen - IdLen

\* HidTransSendRec opens the token, or fails: another call has it, it is gone.
SendRec(t, fun, ask) ==
    /\ Free(t)
    /\ Len(requests) + Len(answers) < Backlog[t]
    /\ \/ Tell(t, fun, FALSE, None) /\ UNCHANGED <<linkVars, token, owner>>
       \/ /\ ask # Refused
          /\ Link!Begin(fun, ask)
          /\ owner' = t
          /\ UNCHANGED <<token, result>>

\* The request ProcessTwoInTwoOut makes of len bytes of data, after their length.
ProcessTwoInTwoOut(data, len) == IF Fits(2 + len) THEN data ELSE Refused

GenAuthInfo(challenge, len) ==
    IF len = 0 THEN Refused ELSE ProcessTwoInTwoOut(challenge, len)

CheckAuthInfo(info, len) ==
    IF len = 0 \/ ~Fits(2 + len) THEN Refused ELSE info

EncryptQuantumKeys(data, len) ==
    IF len = 0 THEN Refused ELSE ProcessTwoInTwoOut(data, len)

DecryptQuantumKeysByIndex(data, len) ==
    IF len = 0 THEN Refused ELSE ProcessTwoInTwoOut(data, len)

ConfirmRootKey(key, len) ==
    IF len = 0 \/ ~Fits(2 + len) THEN Refused ELSE key

InitQuantumKeysByIndex(t) == SendRec(t, "init", FactoryKey)
GenStartInfo(t) == SendRec(t, "start", NoData)
UpdateRootKey(t) == SendRec(t, "update", NoData)
ResetLoad(t) == SendRec(t, "resetload", NoData)
GetDeviceInfo(t) == SendRec(t, "info", NoData)
RestartByIndex(t) == SendRec(t, "restart", NoData)
ResetPINByIndex(t) == SendRec(t, "resetpin", NoData)

--------------------------------------------------------------------------------
(* jni_QKeyService.c *)

\* The length of an array as the jbyte, taken for an unsigned char, keeps it.
Byte(len) == len % 256

\* What is read of an array whose length has been cut to a byte ...
Prefix(data, len) == IF len < 256 THEN data ELSE Garbage

\* ... and through a pointer that has been released.
Released(data) == {data, Garbage}

genAuthInfo(t, challenge, len) ==
    SendRec(t, "auth", GenAuthInfo(Prefix(challenge, len), Byte(len)))

checkAuthInfo(t, info, len) ==
    SendRec(t, "check", CheckAuthInfo(Prefix(info, len), Byte(len)))

encryptQuantumKeys(t, data, len) ==
    \E d \in Released(data) : SendRec(t, "encrypt", EncryptQuantumKeys(d, len))

decryptQuantumKeys(t, data, len) ==
    \E d \in Released(data) : SendRec(t, "decrypt", DecryptQuantumKeysByIndex(d, len))

confirmRootKey(t, key, len) ==
    \E k \in Released(Prefix(key, len)) : SendRec(t, "confirm", ConfirmRootKey(k, Byte(len)))

--------------------------------------------------------------------------------
(* The end of a call.  The lengths an answer states must be within the room the *)
(* native method has for them.                                                  *)
JNI_DEVICE_ID_LENGTH == 8
JNI_Q_SHIELD_INFO_LENGTH == 68
JNI_SESSION_KEY_LENGTH == 32
JNI_ROOTKEY_LENGTH == 48
JNI_ENCRYPTED_DATA_LENGTH == 16384

StartInfoFits(id, info) == id <= JNI_DEVICE_ID_LENGTH /\ info <= JNI_Q_SHIELD_INFO_LENGTH
DataFits(len, room) == len <= room
SessionFits(key) == key <= JNI_SESSION_KEY_LENGTH
RootKeyFits(key) == key <= JNI_ROOTKEY_LENGTH

\* HidTransSendRec has closed the token; Java gets what was said, or null.
Returns(ok) ==
    /\ Link!Return
    /\ owner' = None
    /\ Tell(owner, call.fun, ok, call.said)
    /\ UNCHANGED token

Worked == call.state = "SUCCESS"

GotStartInfo ==
    /\ call # None /\ call.fun = "start"
    /\ \E id, info \in Stated : Returns(Worked /\ StartInfoFits(id, info))

GotAuthInfo ==
    /\ call # None /\ call.fun = "auth"
    /\ \E info \in Stated : Returns(Worked /\ DataFits(info, JNI_Q_SHIELD_INFO_LENGTH))

GotSession ==
    /\ call # None /\ call.fun = "check"
    /\ \E key \in Stated : Returns(Worked /\ SessionFits(key))

GotText ==
    /\ call # None /\ call.fun \in {"encrypt", "decrypt"}
    /\ \E text \in Stated : Returns(Worked /\ DataFits(text, JNI_ENCRYPTED_DATA_LENGTH))

\* Faulty variant: the key is returned although the call has failed.
GotAnyRootKey ==
    /\ call # None /\ call.fun = "update"
    /\ Returns(TRUE)

GotRootKey ==
    /\ call # None /\ call.fun = "update"
    /\ \E key \in Stated : Returns(Worked /\ RootKeyFits(key))

GotDeviceInfo(room) ==
    /\ call # None /\ call.fun = "info"
    /\ \E id \in Stated : Returns(Worked /\ id <= room)

\* Faulty variant: the result of ConfirmRootKey is not looked at.
GotAnyReply ==
    /\ call # None /\ call.fun \in {"init", "confirm", "resetpin", "restart", "resetload"}
    /\ Returns(TRUE)

\* These want no data.
GotReply ==
    /\ call # None /\ call.fun \in {"init", "confirm", "resetpin", "restart", "resetload"}
    /\ Returns(Worked)

DriverReturns ==
    \/ GotStartInfo
    \/ GotAuthInfo
    \/ GotSession
    \/ GotText
    \/ GotRootKey
    \/ \E room \in Stated : GotDeviceInfo(room)
    \/ GotReply

--------------------------------------------------------------------------------
(* The token, as the comments of QKeyService.java describe it: a root key it    *)
(* has made is used only once it is confirmed.                                  *)

Candidates == {token.candidate, 0}

MakesRootKey ==
    LET k == token.made + 1 IN
    /\ requests # <<>> /\ Head(requests).fun = "update"
    /\ k <= MaxKeys
    /\ Link!Execute(TRUE, k)
    /\ token' = [token EXCEPT !.candidate = k, !.made = k]

InstallsRootKey ==
    /\ requests # <<>> /\ Head(requests).fun = "confirm"
    /\ Head(requests).ask = token.candidate /\ token.candidate # 0
    /\ Link!Execute(TRUE, NoData)
    /\ \E k \in Candidates : token' = [token EXCEPT !.root = token.candidate, !.candidate = k]

IsIssued ==
    /\ requests # <<>> /\ Head(requests).fun = "init"
    /\ Link!Execute(TRUE, NoData)
    /\ token' = [token EXCEPT !.root = Head(requests).ask]

Restarts ==
    /\ requests # <<>> /\ Head(requests).fun \in {"restart", "resetload", "resetpin"}
    /\ Link!Execute(TRUE, NoData)
    /\ \E k \in Candidates : token' = [token EXCEPT !.candidate = k]

Replies ==
    /\ requests # <<>> /\ Head(requests).fun \in {"start", "auth", "check", "encrypt", "decrypt", "info"}
    /\ \E x \in Text : Link!Execute(TRUE, x)
    /\ UNCHANGED token

Refuses == Link!Execute(FALSE, NoData) /\ UNCHANGED token

TokenStep ==
    /\ MakesRootKey \/ InstallsRootKey \/ IsIssued \/ Restarts \/ Replies \/ Refuses
    /\ UNCHANGED <<owner, result>>

\* The token is unplugged, and plugged in again.
Unplugged ==
    /\ Link!Lose
    /\ \E k \in Candidates : token' = [token EXCEPT !.candidate = k]
    /\ UNCHANGED <<owner, result>>

\* What HidTransSendRec does while it has the token open.
LinkStep ==
    /\ Link!Send \/ Link!Take \/ Link!Fail
    /\ UNCHANGED <<token, owner, result>>

Crash ==
    /\ Link!Crash
    /\ owner' = None
    /\ result' = None
    /\ UNCHANGED token

DriverStep == DriverReturns \/ TokenStep \/ Unplugged \/ LinkStep \/ Crash

--------------------------------------------------------------------------------
(* Who calls.  The keeper confirms the key it got last, and writes down that it *)
(* is about to; the token is issued before it is asked for its first key.       *)

Issue == held = 0 /\ InitQuantumKeysByIndex(Keeper) /\ UNCHANGED keeperVars

Obtain == UpdateRootKey(Keeper) /\ UNCHANGED keeperVars

Confirm ==
    /\ held # 0
    /\ trusted' = trusted \cup {held}
    /\ \E len \in Length : confirmRootKey(Keeper, held, len)
    /\ UNCHANGED held

\* The keeper makes use of what its call has returned.
Learn ==
    /\ result # None
    /\ result' = None
    /\ held' = IF result.fun = "update" /\ result.ok THEN result.said ELSE held
    /\ trusted' = IF result.fun = "confirm" /\ result.ok THEN {held} ELSE trusted
    /\ UNCHANGED <<linkVars, token, owner>>

\* Any other thread calls anything else.
CallAny(t) ==
    /\ \/ GenStartInfo(t)
       \/ ResetLoad(t)
       \/ GetDeviceInfo(t)
       \/ RestartByIndex(t)
       \/ ResetPINByIndex(t)
       \/ \E x \in Text, len \in Length :
            \/ genAuthInfo(t, x, len)
            \/ checkAuthInfo(t, x, len)
            \/ encryptQuantumKeys(t, x, len)
            \/ decryptQuantumKeys(t, x, len)
    /\ UNCHANGED keeperVars

Next ==
    \/ Issue
    \/ Obtain
    \/ Confirm
    \/ Learn
    \/ \E t \in Thread \ {Keeper} : CallAny(t)
    \/ DriverStep /\ UNCHANGED keeperVars

Spec == Init /\ [][Next]_vars

--------------------------------------------------------------------------------
(* The keeper never loses the token: its root key is one of those the keeper    *)
(* takes it to have, and the very one after a confirmation that returned true,  *)
(* however many calls have failed, been answered late or been cut off, and      *)
(* although what a call takes for its answer may be that to an earlier one.     *)
RootKnown == token.root \in trusted

(* updateRootKey never returns an old key again: the key the keeper holds is    *)
(* replaced by none but one that the token made later.                          *)
KeysAdvance == [][held' # held => held' > held]_vars
================================================================================
