-------------------------------- MODULE FileKeys -------------------------------
(***************************************************************************)
(* CSRC/QkeyFile.c: logging in to a Q-shield and fetching the keys for files *)
(* from it.  Every call names the device it is meant for, but reaches the    *)
(* one that has its place in the enumeration: a token is unplugged and       *)
(* another plugged in between any two calls.  HidTransSendRec is what        *)
(* TokenLink promises of it; the tokens and their user are external.         *)
(***************************************************************************)
EXTENDS Naturals, Sequences, FiniteSets

CONSTANTS
    Device,
    Count,          \* numbers of keys the user asks to be stored or deleted
    MaxLogins,      \* bound: logins the tokens begin
    MaxKeys,        \* bound: keys the user has had stored when it supplies more
    Backlog,        \* bound: what may be left behind when a call begins
    None, Malformed

VARIABLES
    call, requests, answers,    \* of TokenLink
    place,      \* the token that has the place the calls go to
    token,      \* what each token remembers
    made,       \* logins the tokens have begun
    supplied,   \* per device, the keys it has been asked to store
    shock,      \* per device, what LoginShock gave last, 0 before
    login,      \* per device, the login token LoginResponse gave last, 0 before
    key,        \* per device, the key GetFileKeys gave last, 0 before
    had,        \* per device, all the keys it gave
    acked       \* per device, the keys GetFileKeysAck has reported as acknowledged

Fun == {"shock", "response", "modifypin", "setname", "getname", "update", "get", "ack",
        "number", "decrypt", "delete"}

\* Logins and keys are numbered in the order of their making; 0 is none.
Login == Nat
Key == Nat

\* A body: keys, a login or a count.  Names, PINs and numbers are left out.
Data == Seq(Nat)
NoData == <<>>

\* A message: the ID of its device, the login it is encrypted under, 0 for CRYPTO_NULL.
Ask == [device : Device, login : Login, data : Data]
Said == Ask \cup {None, Malformed}

Link == INSTANCE TokenLink

linkVars == <<call, requests, answers>>
tokenVars == <<place, token, made>>
userVars == <<supplied, shock, login, key, had, acked>>
vars == <<linkVars, tokenVars, userVars>>

ASSUME FileKeysAssumption ==
    /\ Count \subseteq Nat
    /\ None \notin Device \cup Link!OpenCall
    /\ {None, Malformed} \cap Ask = {}

TypeOK ==
    /\ Link!LinkTypeOK
    /\ \A i \in 1..Len(requests) :
         requests[i].fun = "update" => Len(requests[i].ask.data) \in 1..2
    /\ place \in Device \cup {None}
    /\ token \in [Device -> [shock : Login, login : Login, keys : Seq(Key)]]
    /\ made \in Nat
    /\ supplied \in [Device -> SUBSET Key]
    /\ shock \in [Device -> Login] /\ login \in [Device -> Login]
    /\ key \in [Device -> Key]
    /\ had \in [Device -> SUBSET Key] /\ acked \in [Device -> SUBSET Key]

Init ==
    /\ Link!LinkInit
    /\ place \in Device
    /\ token = [d \in Device |-> [shock |-> 0, login |-> 0, keys |-> <<>>]]
    /\ made = 0
    /\ supplied = [d \in Device |-> {}]
    /\ shock = [d \in Device |-> 0] /\ login = [d \in Device |-> 0]
    /\ key = [d \in Device |-> 0]
    /\ had = [d \in Device |-> {}] /\ acked = [d \in Device |-> {}]

--------------------------------------------------------------------------------
(* Up to HidTransSendRec, which opens the token that is there.  A call that does *)
(* not get that far changes nothing.                                             *)

InitHead(d, under, data) == [device |-> d, login |-> under, data |-> data]

SendRec(fun, ask) ==
    /\ Len(requests) + Len(answers) < Backlog
    /\ Link!Begin(fun, ask)
    /\ UNCHANGED tokenVars

\* The same, of a body that Encrypt has encrypted with the key of the login.
SendRecEncrypted(d, fun, data) ==
    /\ login[d] # 0
    /\ SendRec(fun, InitHead(d, login[d], data))

LoginShock(d) == SendRec("shock", InitHead(d, 0, NoData)) /\ UNCHANGED userVars

LoginResponse(d) ==
    /\ shock[d] # 0
    /\ SendRec("response", InitHead(d, 0, <<shock[d]>>))
    /\ UNCHANGED userVars

ModifyPinCode(d) == SendRecEncrypted(d, "modifypin", NoData) /\ UNCHANGED userVars

SetUserName(d) == SendRecEncrypted(d, "setname", NoData) /\ UNCHANGED userVars

GetUserName(d) == SendRec("getname", InitHead(d, 0, NoData)) /\ UNCHANGED userVars

\* The next n keys the user has.
Used == Cardinality(UNION {supplied[d] : d \in Device})
Fresh(n) == [i \in 1..n |-> Used + i]

Supplies(d, keys) ==
    /\ supplied' = [supplied EXCEPT ![d] = @ \cup {keys[i] : i \in 1..Len(keys)}]
    /\ UNCHANGED <<shock, login, key, had, acked>>

\* Faulty variant: the number of keys is not checked.
UpdateAnyFileKeys(d, keys) == SendRecEncrypted(d, "update", keys) /\ Supplies(d, keys)

UpdateFileKeys(d, keys) ==
    /\ 0 < Len(keys) /\ Len(keys) <= 2
    /\ SendRecEncrypted(d, "update", keys)
    /\ Supplies(d, keys)

GetFileKeys(d) == SendRecEncrypted(d, "get", NoData) /\ UNCHANGED userVars

GetFileKeysAck(d) == SendRecEncrypted(d, "ack", <<key[d]>>) /\ UNCHANGED userVars

GetFileKeysNumber(d) == SendRecEncrypted(d, "number", NoData) /\ UNCHANGED userVars

DecryptFileKey(d) == SendRecEncrypted(d, "decrypt", <<key[d]>>) /\ UNCHANGED userVars

DeleteFileKey(d, n) == SendRecEncrypted(d, "delete", <<n>>) /\ UNCHANGED userVars

--------------------------------------------------------------------------------
(* The end of a call. *)

Returns == Link!Return /\ UNCHANGED <<tokenVars, supplied>>

\* Version and lengths are as they should be.
CheckHead(a) == a \in Ask

\* Faulty variant: an answer of any device will do.
CheckNoDevId(a) == TRUE

CheckDevId(a) == a.device = call.ask.device

\* Of an answer that is not encrypted.
Accepts(a) == CheckHead(a) /\ CheckDevId(a)

\* Decrypt with the key of another login gives nothing of that length and device.
Decrypts(a) == CheckHead(a) /\ a.login = call.ask.login /\ CheckDevId(a)

Worked == call.state = "SUCCESS"

GotShock ==
    /\ call # None /\ call.fun = "shock"
    /\ Returns
    /\ shock' = IF Worked /\ Accepts(call.said)
                THEN [shock EXCEPT ![call.ask.device] = Head(call.said.data)] ELSE shock
    /\ UNCHANGED <<login, key, had, acked>>

GotLogin ==
    /\ call # None /\ call.fun = "response"
    /\ Returns
    /\ login' = IF Worked /\ Accepts(call.said)
                THEN [login EXCEPT ![call.ask.device] = Head(call.said.data)] ELSE login
    /\ UNCHANGED <<shock, key, had, acked>>

GotFileKey ==
    /\ call # None /\ call.fun = "get"
    /\ Returns
    /\ IF Worked /\ Decrypts(call.said)
       THEN /\ key' = [key EXCEPT ![call.ask.device] = Head(call.said.data)]
            /\ had' = [had EXCEPT ![call.ask.device] = @ \cup {Head(call.said.data)}]
       ELSE UNCHANGED <<key, had>>
    /\ UNCHANGED <<shock, login, acked>>

Acknowledged == acked' = [acked EXCEPT ![call.ask.device] = @ \cup {Head(call.ask.data)}]

\* Faulty variant: the result of HidTransSendRec is not looked at.
GotAnyAck ==
    /\ call # None /\ call.fun = "ack"
    /\ Returns
    /\ Acknowledged
    /\ UNCHANGED <<shock, login, key, had>>

\* An acknowledgement has its result from the transport: nothing in an answer says
\* which device has dropped which key.
GotAck ==
    /\ call # None /\ call.fun = "ack"
    /\ Returns
    /\ IF Worked THEN Acknowledged ELSE UNCHANGED acked
    /\ UNCHANGED <<shock, login, key, had>>

\* What these give if they accept the answer is not followed, ...
Gives(fun) ==
    /\ call # None /\ call.fun = fun
    /\ Returns
    /\ UNCHANGED <<shock, login, key, had, acked>>

GotUserName == Gives("getname")
GotFileKeysNumber == Gives("number")
GotDecryptedKey == Gives("decrypt")

\* ... and these give nothing but a result.
GotReply == \E fun \in {"modifypin", "setname", "update", "delete"} : Gives(fun)

--------------------------------------------------------------------------------
(* The tokens.  A token obeys requests that are encrypted under its own login,  *)
(* gives its keys in the order in which they came, each until it is             *)
(* acknowledged by its ID, and forgets logins when it is unplugged.             *)

Self == token[place]
Becomes(new) == token' = [token EXCEPT ![place] = new]
Answers(under, data) == Link!Execute(TRUE, InitHead(place, under, data))

Asked(fun) == requests # <<>> /\ Head(requests).fun = fun
Obeys(fun) ==
    /\ Asked(fun)
    /\ Head(requests).ask.device = place
    /\ Head(requests).ask.login = Self.login /\ Self.login # 0

GivesShock ==
    /\ Asked("shock")
    /\ made < MaxLogins
    /\ made' = made + 1
    /\ Becomes([Self EXCEPT !.shock = made + 1])
    /\ Answers(0, <<made + 1>>)

GivesLogin ==
    /\ Asked("response")
    /\ Head(requests).ask.data = <<Self.shock>>
    /\ Becomes([Self EXCEPT !.login = Self.shock])
    /\ Answers(0, <<Self.shock>>)
    /\ UNCHANGED made

StoresKeys ==
    /\ Obeys("update")
    /\ Becomes([Self EXCEPT !.keys = @ \o Head(requests).ask.data])
    /\ Link!Execute(TRUE, None)
    /\ UNCHANGED made

GivesKey ==
    /\ Obeys("get") /\ Self.keys # <<>>
    /\ Answers(Self.login, <<Head(Self.keys)>>)
    /\ UNCHANGED <<token, made>>

DropsKey ==
    /\ Obeys("ack") /\ Self.keys # <<>>
    /\ Head(requests).ask.data = <<Head(Self.keys)>>
    /\ Becomes([Self EXCEPT !.keys = Tail(@)])
    /\ Link!Execute(TRUE, None)
    /\ UNCHANGED made

DeletesKeys ==
    /\ Obeys("delete")
    /\ Becomes([Self EXCEPT !.keys = SubSeq(@, Head(Head(requests).ask.data) + 1, Len(@))])
    /\ Link!Execute(TRUE, None)
    /\ UNCHANGED made

Obliges ==
    /\ \/ Obeys("modifypin") /\ Link!Execute(TRUE, None)
       \/ Obeys("setname") /\ Link!Execute(TRUE, None)
       \/ Obeys("number") /\ Answers(Self.login, NoData)
       \/ Obeys("decrypt") /\ Answers(Self.login, Head(requests).ask.data)
       \/ Asked("getname") /\ Answers(0, NoData)
    /\ UNCHANGED <<token, made>>

\* It may also be of another version, but it says of no key that it has dropped it.
Refuses ==
    /\ requests # <<>>
    /\ \/ Link!Execute(FALSE, None)
       \/ ~ Asked("ack") /\ Link!Execute(TRUE, Malformed)
    /\ UNCHANGED <<token, made>>

TokenStep ==
    /\ place # None
    /\ \/ GivesShock \/ GivesLogin \/ StoresKeys \/ GivesKey \/ DropsKey \/ DeletesKeys
       \/ Obliges \/ Refuses
    /\ UNCHANGED <<place, userVars>>

\* With the token goes what it has been sent and what nobody has read of it.
Unplugged ==
    /\ place # None
    /\ place' = None
    /\ Link!Lose /\ requests' = <<>> /\ answers' = <<>>
    /\ token' = [token EXCEPT ![place].shock = 0, ![place].login = 0]
    /\ UNCHANGED <<made, userVars>>

\* A call whose token is gone has no part in the next one.
Plugged ==
    /\ place = None /\ call = None
    /\ place' \in Device
    /\ UNCHANGED <<linkVars, token, made, userVars>>

LinkStep ==
    /\ \/ place # None /\ (Link!Send \/ Link!Take)
       \/ Link!Fail
    /\ UNCHANGED <<tokenVars, userVars>>

Calls(d) ==
    \/ LoginShock(d)
    \/ LoginResponse(d)
    \/ GetUserName(d)
    \/ GetFileKeys(d)
    \/ key[d] # 0 /\ (GetFileKeysAck(d) \/ DecryptFileKey(d))
    \/ GetFileKeysNumber(d)
    \/ ModifyPinCode(d) \/ SetUserName(d)
    \/ \E n \in Count :
         \/ Used < MaxKeys /\ UpdateFileKeys(d, Fresh(n))
         \/ DeleteFileKey(d, n)

Next ==
    \/ \E d \in Device : Calls(d)
    \/ GotShock
    \/ GotLogin
    \/ GotFileKey
    \/ GotAck
    \/ GotUserName
    \/ GotFileKeysNumber
    \/ GotDecryptedKey
    \/ GotReply
    \/ TokenStep
    \/ Unplugged
    \/ Plugged
    \/ LinkStep

Spec == Init /\ [][Next]_vars

--------------------------------------------------------------------------------
(* However tokens are exchanged, the keys GetFileKeys gives for a device are    *)
(* keys that this very device was asked to store, and the login kept for it was *)
(* begun by no other.                                                           *)
OfItsDevice == \A d, e \in Device :
    /\ had[d] \subseteq supplied[d]
    /\ d # e /\ token[e].login # 0 => login[d] # token[e].login

(* GetFileKeys never goes back to a key before the one it gave last, however    *)
(* many of its answers came too late.                                           *)
KeysInOrder == [][\A d \in Device : key[d] <= key'[d]]_vars

\* All the keys the user has been given are of this device.
Alone(d) == \A e \in Device : e # d => had[e] = {}

(* A key that GetFileKeysAck has reported as acknowledged is not stored any more, *)
(* so that the token will not give it again.  Nothing in the answer says so, only *)
(* its place among the others: it is read after the keys that were given before.  *)
(* This is enough while the user has had the keys of one token only; afterwards   *)
(* the answer may be that of the other to an acknowledgement that was given up.   *)
AckedIsDropped == \A d \in Device :
    Alone(d) => \A i \in 1..Len(token[d].keys) : token[d].keys[i] \notin acked[d]
================================================================================
