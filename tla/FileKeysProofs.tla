----------------------------- MODULE FileKeysProofs ----------------------------
(***************************************************************************)
(* What FileKeys promises, for every number of tokens, calls, keys and      *)
(* logins: types, OfItsDevice, KeysInOrder and AckedIsDropped.  The inductive *)
(* invariant follows a login and a key of a device through the queues: no    *)
(* number is met as the login of two devices; and the key the user has got   *)
(* last, the one a call brings, those in answers, those the token stores,    *)
(* those on their way to it and those of a call that has not been sent come  *)
(* in this order, each tier before the next.                                 *)
(***************************************************************************)
EXTENDS FileKeys, FiniteSetTheorems, SequenceTheorems, TLAPS

IsLogin(r, d) == r.fun \in {"shock", "response"} /\ r.said \in Ask /\ r.said.device = d
IsKey(r, d) == r.fun = "get" /\ r.said \in Ask /\ r.said.device = d
IsUpdate(r, d) == r.fun = "update" /\ r.ask.device = d

Elements(s) == {s[i] : i \in 1..Len(s)}

\* What there is for device d in one message.
LoginIn(r, d) == IF IsLogin(r, d) THEN {r.said.data[1]} ELSE {}
KeyIn(r, d) == IF IsKey(r, d) THEN {r.said.data[1]} ELSE {}
UpdateIn(r, d) == IF IsUpdate(r, d) THEN Elements(r.ask.data) ELSE {}

\* Bodies have the data that those who read them take for granted.
Said1(r) == r.fun \in {"shock", "response", "get"} /\ r.said \in Ask => Len(r.said.data) = 1

Asks(r, h) ==
    /\ r.fun \in {"ack", "delete"} => Len(r.ask.data) = 1
    /\ r.fun = "update" => Len(r.ask.data) \in 1..2
    /\ r.fun = "ack" => r.ask.data[1] \in h[r.ask.device]

SaidIn(s) == \A i \in 1..Len(s) : Said1(s[i])
AskedIn(s, h) == \A i \in 1..Len(s) : Asks(s[i], h)

BodiesInv ==
    /\ SaidIn(answers)
    /\ AskedIn(requests, had)
    /\ call # None => Said1(call) /\ Asks(call, had)

\* All that is taken, or may be taken, for a login of device d.
LoginsIn(s, d) == {s[i].said.data[1] : i \in {j \in 1..Len(s) : IsLogin(s[j], d)}}

LoginsOf(d) ==
    {token[d].shock, token[d].login, shock[d], login[d]}
        \cup LoginsIn(answers, d)
        \cup IF call # None THEN LoginIn(call, d) ELSE {}

LoginsInv ==
    /\ \A d \in Device : LoginsOf(d) \subseteq 0..made
    /\ \A d, e \in Device : d # e => LoginsOf(d) \cap LoginsOf(e) \subseteq {0}

\* The keys of device d: brought by the call, answered, stored by the token,
\* requested to be stored, and of a call that has not been sent.
Brought(d) == IF call # None THEN KeyIn(call, d) ELSE {}
KeysIn(s, d) == {s[i].said.data[1] : i \in {j \in 1..Len(s) : IsKey(s[j], d)}}
Stored(d) == Elements(token[d].keys)
SentIn(s, d) == UNION {Elements(s[i].ask.data) : i \in {j \in 1..Len(s) : IsUpdate(s[j], d)}}
Begun(d) ==
    IF call # None /\ call.state = "begun" THEN UpdateIn(call, d) ELSE {}

Known(d) ==
    /\ had[d] \subseteq supplied[d]
    /\ key[d] \in had[d] \cup {0}
    /\ Brought(d) \subseteq supplied[d]
    /\ KeysIn(answers, d) \subseteq supplied[d]
    /\ Stored(d) \subseteq supplied[d]
    /\ SentIn(requests, d) \subseteq supplied[d]
    /\ Begun(d) \subseteq supplied[d]

Below(A, B) == \A x \in A, y \in B : x <= y
Before(A, B) == \A x \in A, y \in B : x < y

\* Each tier comes before the next, and no key is in two of the last three.
InTiers(k, B, A, S, R, C) ==
    /\ Below({k}, B \cup A \cup S \cup R \cup C)
    /\ Below(B, A \cup S \cup R \cup C)
    /\ Below(A, S \cup R \cup C)
    /\ Before(S, R \cup C)
    /\ Before(R, C)

Tiers(d) ==
    InTiers(key[d], Brought(d), KeysIn(answers, d), Stored(d), SentIn(requests, d), Begun(d))

\* The order within a tier.
Ascending(s) == \A i, j \in 1..Len(s) : i < j => s[i] < s[j]

KeysAscend(s, d) ==
    \A i, j \in 1..Len(s) :
        i < j /\ IsKey(s[i], d) /\ IsKey(s[j], d) => s[i].said.data[1] <= s[j].said.data[1]

SentAscend(s, d) ==
    \A j \in 1..Len(s) : IsUpdate(s[j], d) =>
        /\ Ascending(s[j].ask.data)
        /\ \A i \in 1..Len(s) : i < j /\ IsUpdate(s[i], d) =>
              Before(Elements(s[i].ask.data), Elements(s[j].ask.data))

InOrder(d) ==
    /\ KeysAscend(answers, d)
    /\ Ascending(token[d].keys)
    /\ SentAscend(requests, d)
    /\ call # None /\ IsUpdate(call, d) => Ascending(call.ask.data)

KeysInv == \A d \in Device : Known(d) /\ Tiers(d) /\ InOrder(d)

\* The user numbers its keys from 1.
SuppliedInv == \E n \in Nat : UNION {supplied[d] : d \in Device} = 1..n

IInv == TypeOK /\ BodiesInv /\ LoginsInv /\ KeysInv /\ SuppliedInv

--------------------------------------------------------------------------------
(* Queues that lose or gain elements. *)

Shift(s, t) ==
    \E k \in Nat : Len(t) + k <= Len(s) /\ \A i \in 1..Len(t) : t[i] = s[i + k]

LEMMA ShiftSubSeq ==
    ASSUME NEW S, NEW s \in Seq(S), NEW m \in 1..Len(s) + 1, NEW n \in 0..Len(s)
    PROVE  SubSeq(s, m, n) \in Seq(S) /\ Shift(s, SubSeq(s, m, n))
<1>1. \A i \in m..n : s[i] \in S
  OBVIOUS
<1>2. /\ SubSeq(s, m, n) \in Seq(S)
      /\ Len(SubSeq(s, m, n)) = IF m <= n THEN n - m + 1 ELSE 0
      /\ \A i \in 1..n - m + 1 : SubSeq(s, m, n)[i] = s[m + i - 1]
  BY <1>1, SubSeqProperties
<1>3. CASE m <= n
  <2>1. Len(SubSeq(s, m, n)) + (m - 1) <= Len(s)
    BY <1>2, <1>3
  <2>2. \A i \in 1..Len(SubSeq(s, m, n)) : SubSeq(s, m, n)[i] = s[i + (m - 1)]
    BY <1>2, <1>3
  <2>. QED  BY <1>2, <2>1, <2>2 DEF Shift
<1>4. CASE ~(m <= n)
  BY <1>2, <1>4 DEF Shift
<1>. QED  BY <1>3, <1>4

LEMMA ShiftNot ==
    ASSUME NEW S, NEW s \in Seq(S)
    PROVE  Shift(s, s) /\ Shift(s, <<>>) /\ <<>> \in Seq(S)
<1>1. SubSeq(s, 1, Len(s)) = s /\ SubSeq(s, 1, 0) = <<>>
  BY SubSeqFull, SubSeqEmpty
<1>2. 1 \in 1..Len(s) + 1 /\ Len(s) \in 0..Len(s) /\ 0 \in 0..Len(s)
  BY LenProperties
<1>3. Shift(s, SubSeq(s, 1, Len(s)))
  BY <1>2, ShiftSubSeq
<1>4. Shift(s, SubSeq(s, 1, 0))
  BY <1>2, ShiftSubSeq
<1>. QED  BY <1>1, <1>3, <1>4, EmptySeq

LEMMA ShiftOne ==
    ASSUME NEW S, NEW s \in Seq(S), s # <<>>
    PROVE  Head(s) \in S /\ Tail(s) \in Seq(S) /\ Shift(s, Tail(s))
<1>1. Tail(s) = SubSeq(s, 2, Len(s)) /\ Len(s) \in Nat \ {0} /\ Head(s) \in S
  BY TailIsSubSeq, EmptySeq, HeadTailProperties
<1>2. 2 \in 1..Len(s) + 1 /\ Len(s) \in 0..Len(s)
  BY <1>1
<1>. QED  BY <1>1, <1>2, ShiftSubSeq

LEMMA ShiftTwice ==
    ASSUME NEW S, NEW s \in Seq(S), NEW t \in Seq(S), NEW u \in Seq(S), Shift(s, t), Shift(t, u)
    PROVE  Shift(s, u)
<1>1. PICK k \in Nat : Len(t) + k <= Len(s) /\ \A i \in 1..Len(t) : t[i] = s[i + k]
  BY DEF Shift
<1>2. PICK n \in Nat : Len(u) + n <= Len(t) /\ \A i \in 1..Len(u) : u[i] = t[i + n]
  BY DEF Shift
<1>3. k + n \in Nat /\ Len(u) + (k + n) <= Len(s)
  BY <1>1, <1>2
<1>4. \A i \in 1..Len(u) : u[i] = s[i + (k + n)]
  BY <1>1, <1>2
<1>. QED  BY <1>3, <1>4 DEF Shift

LEMMA ShiftAnswers ==
    ASSUME NEW s \in Seq(Link!Reply), NEW t \in Seq(Link!Reply), Shift(s, t), NEW d
    PROVE  /\ LoginsIn(t, d) \subseteq LoginsIn(s, d)
           /\ KeysIn(t, d) \subseteq KeysIn(s, d)
           /\ KeysAscend(s, d) => KeysAscend(t, d)
           /\ SaidIn(s) => SaidIn(t)
<1>1. PICK k \in Nat : Len(t) + k <= Len(s) /\ \A i \in 1..Len(t) : t[i] = s[i + k]
  BY DEF Shift
<1>2. \A i \in 1..Len(t) : i + k \in 1..Len(s)
  BY <1>1
<1>3. LoginsIn(t, d) \subseteq LoginsIn(s, d)
  BY SMTT(30), <1>1, <1>2 DEF LoginsIn
<1>4. KeysIn(t, d) \subseteq KeysIn(s, d)
  BY SMTT(30), <1>1, <1>2 DEF KeysIn
<1>5. KeysAscend(s, d) => KeysAscend(t, d)
  BY SMTT(30), <1>1, <1>2 DEF KeysAscend
<1>6. SaidIn(s) => SaidIn(t)
  BY <1>1, <1>2 DEF SaidIn
<1>. QED  BY <1>3, <1>4, <1>5, <1>6

LEMMA ShiftRequests ==
    ASSUME NEW s \in Seq(Link!Request), NEW t \in Seq(Link!Request), Shift(s, t), NEW d, NEW h
    PROVE  /\ SentIn(t, d) \subseteq SentIn(s, d)
           /\ SentAscend(s, d) => SentAscend(t, d)
           /\ AskedIn(s, h) => AskedIn(t, h)
<1>1. PICK k \in Nat : Len(t) + k <= Len(s) /\ \A i \in 1..Len(t) : t[i] = s[i + k]
  BY DEF Shift
<1>2. \A i \in 1..Len(t) : i + k \in 1..Len(s)
  BY <1>1
<1>3. SentIn(t, d) \subseteq SentIn(s, d)
  BY <1>1, <1>2 DEF SentIn
<1>4. ASSUME SentAscend(s, d) PROVE SentAscend(t, d)
  <2>. SUFFICES ASSUME NEW j \in 1..Len(t), IsUpdate(t[j], d)
                PROVE  /\ Ascending(t[j].ask.data)
                       /\ \A i \in 1..Len(t) : i < j /\ IsUpdate(t[i], d) =>
                             Before(Elements(t[i].ask.data), Elements(t[j].ask.data))
    BY DEF SentAscend
  <2>1. t[j] = s[j + k] /\ j + k \in 1..Len(s)
    BY <1>1, <1>2
  <2>2. \A i \in 1..Len(t) : i < j => t[i] = s[i + k] /\ i + k \in 1..Len(s) /\ i + k < j + k
    BY <1>1, <1>2
  <2>. QED  BY <1>4, <2>1, <2>2 DEF SentAscend
<1>5. AskedIn(s, h) => AskedIn(t, h)
  BY <1>1, <1>2 DEF AskedIn
<1>. QED  BY <1>3, <1>4, <1>5

LEMMA AddAnswer ==
    ASSUME NEW s \in Seq(Link!Reply), NEW r \in Link!Reply, NEW d,
           NEW t, t = Append(s, r)
    PROVE  /\ t \in Seq(Link!Reply)
           /\ LoginsIn(t, d) \subseteq
                 LoginsIn(s, d) \cup LoginIn(r, d)
           /\ KeysIn(t, d) \subseteq
                 KeysIn(s, d) \cup KeyIn(r, d)
           /\ KeysAscend(s, d) /\ (IsKey(r, d) => Below(KeysIn(s, d), {r.said.data[1]}))
                 => KeysAscend(t, d)
           /\ SaidIn(s) /\ Said1(r) => SaidIn(t)
<1>1. /\ t \in Seq(Link!Reply) /\ Len(t) = Len(s) + 1 /\ Len(s) \in Nat
      /\ \A i \in 1..Len(s) : t[i] = s[i]
      /\ t[Len(s) + 1] = r
  BY AppendProperties, LenProperties
<1>2. \A i \in 1..Len(t) : \/ i \in 1..Len(s) /\ t[i] = s[i]
                           \/ i = Len(s) + 1 /\ t[i] = r
  BY <1>1
<1>3. LoginsIn(t, d) \subseteq LoginsIn(s, d) \cup LoginIn(r, d)
  BY <1>2 DEF LoginsIn, LoginIn
<1>4. KeysIn(t, d) \subseteq KeysIn(s, d) \cup KeyIn(r, d)
  BY <1>2 DEF KeysIn, KeyIn
<1>5. ASSUME KeysAscend(s, d), IsKey(r, d) => Below(KeysIn(s, d), {r.said.data[1]})
      PROVE  KeysAscend(t, d)
  <2>. SUFFICES ASSUME NEW i \in 1..Len(t), NEW j \in 1..Len(t), i < j, IsKey(t[i], d),
                       IsKey(t[j], d)
                PROVE  t[i].said.data[1] <= t[j].said.data[1]
    BY DEF KeysAscend
  <2>1. i \in 1..Len(s) /\ t[i] = s[i] /\ s[i].said.data[1] \in KeysIn(s, d)
    BY <1>1, <1>2 DEF KeysIn
  <2>2. CASE j \in 1..Len(s) /\ t[j] = s[j]
    BY <1>5, <2>1, <2>2 DEF KeysAscend
  <2>3. CASE t[j] = r
    BY <1>5, <2>1, <2>3 DEF Below
  <2>. QED  BY <1>2, <2>2, <2>3
<1>6. SaidIn(s) /\ Said1(r) => SaidIn(t)
  BY <1>2 DEF SaidIn
<1>. QED  BY <1>1, <1>3, <1>4, <1>5, <1>6

LEMMA AddRequest ==
    ASSUME NEW s \in Seq(Link!Request), NEW r \in Link!Request, NEW d, NEW h,
           NEW t, t = Append(s, r)
    PROVE  /\ t \in Seq(Link!Request)
           /\ SentIn(t, d) \subseteq
                 SentIn(s, d) \cup UpdateIn(r, d)
           /\ SentAscend(s, d)
              /\ (IsUpdate(r, d) => /\ Ascending(r.ask.data)
                                     /\ Before(SentIn(s, d), Elements(r.ask.data)))
                 => SentAscend(t, d)
           /\ AskedIn(s, h) /\ Asks(r, h) => AskedIn(t, h)
<1>1. /\ t \in Seq(Link!Request) /\ Len(t) = Len(s) + 1 /\ Len(s) \in Nat
      /\ \A i \in 1..Len(s) : t[i] = s[i]
      /\ t[Len(s) + 1] = r
  BY AppendProperties, LenProperties
<1>2. \A i \in 1..Len(t) : \/ i \in 1..Len(s) /\ t[i] = s[i]
                           \/ i = Len(s) + 1 /\ t[i] = r
  BY <1>1
<1>3. SentIn(t, d) \subseteq
        SentIn(s, d) \cup UpdateIn(r, d)
  BY <1>2 DEF SentIn, UpdateIn
<1>4. ASSUME SentAscend(s, d),
             IsUpdate(r, d) => /\ Ascending(r.ask.data)
                               /\ Before(SentIn(s, d), Elements(r.ask.data))
      PROVE  SentAscend(t, d)
  <2>. SUFFICES ASSUME NEW j \in 1..Len(t), IsUpdate(t[j], d)
                PROVE  /\ Ascending(t[j].ask.data)
                       /\ \A i \in 1..Len(t) : i < j /\ IsUpdate(t[i], d) =>
                             Before(Elements(t[i].ask.data), Elements(t[j].ask.data))
    BY DEF SentAscend
  <2>1. \A i \in 1..Len(t) : i < j => i \in 1..Len(s) /\ t[i] = s[i]
    BY <1>1, <1>2
  <2>2. \A i \in 1..Len(s) : IsUpdate(s[i], d) => Elements(s[i].ask.data) \subseteq SentIn(s, d)
    BY DEF SentIn
  <2>3. CASE j \in 1..Len(s) /\ t[j] = s[j]
    BY <1>4, <2>1, <2>3 DEF SentAscend
  <2>4. CASE t[j] = r
    BY <1>4, <2>1, <2>2, <2>4 DEF Before
  <2>. QED  BY <1>2, <2>3, <2>4
<1>5. AskedIn(s, h) /\ Asks(r, h) => AskedIn(t, h)
  BY <1>2 DEF AskedIn
<1>. QED  BY <1>1, <1>3, <1>4, <1>5

\* The first answer, and the first request, before the others.
LEMMA FirstAnswer ==
    ASSUME NEW s \in Seq(Link!Reply), s # <<>>, NEW d
    PROVE  /\ SaidIn(s) => Said1(Head(s))
           /\ IsLogin(Head(s), d) => Head(s).said.data[1] \in LoginsIn(s, d)
           /\ IsKey(Head(s), d) => Head(s).said.data[1] \in KeysIn(s, d)
           /\ IsKey(Head(s), d) /\ KeysAscend(s, d)
                 => Below({Head(s).said.data[1]}, KeysIn(Tail(s), d))
<1>1. /\ Head(s) = s[1] /\ Len(s) \in Nat \ {0} /\ 1 \in 1..Len(s)
      /\ Len(Tail(s)) = Len(s) - 1
      /\ \A i \in 1..Len(Tail(s)) : Tail(s)[i] = s[i + 1]
  BY HeadTailProperties, EmptySeq
<1>2. \A i \in 1..Len(Tail(s)) : i + 1 \in 1..Len(s) /\ 1 < i + 1
  BY <1>1
<1>3. IsKey(Head(s), d) /\ KeysAscend(s, d) => Below({Head(s).said.data[1]}, KeysIn(Tail(s), d))
  BY <1>1, <1>2 DEF Below, KeysIn, KeysAscend
<1>. QED  BY <1>1, <1>3 DEF SaidIn, LoginsIn, KeysIn

LEMMA FirstRequest ==
    ASSUME NEW s \in Seq(Link!Request), s # <<>>, NEW d, NEW h
    PROVE  /\ AskedIn(s, h) => Asks(Head(s), h)
           /\ IsUpdate(Head(s), d) => Elements(Head(s).ask.data) \subseteq SentIn(s, d)
           /\ IsUpdate(Head(s), d) /\ SentAscend(s, d)
                 => /\ Ascending(Head(s).ask.data)
                    /\ Before(Elements(Head(s).ask.data), SentIn(Tail(s), d))
<1>1. /\ Head(s) = s[1] /\ Len(s) \in Nat \ {0} /\ 1 \in 1..Len(s)
      /\ Len(Tail(s)) = Len(s) - 1
      /\ \A i \in 1..Len(Tail(s)) : Tail(s)[i] = s[i + 1]
  BY HeadTailProperties, EmptySeq
<1>2. \A i \in 1..Len(Tail(s)) : i + 1 \in 1..Len(s) /\ 1 < i + 1
  BY <1>1
<1>3. ASSUME IsUpdate(Head(s), d), SentAscend(s, d)
      PROVE  Before(Elements(Head(s).ask.data), SentIn(Tail(s), d))
  <2>1. \A i \in 1..Len(Tail(s)) : IsUpdate(Tail(s)[i], d) =>
            Before(Elements(Head(s).ask.data), Elements(Tail(s)[i].ask.data))
    BY <1>1, <1>2, <1>3 DEF SentAscend
  <2>. QED  BY <2>1 DEF Before, SentIn
<1>. QED  BY <1>1, <1>3 DEF AskedIn, SentIn, SentAscend

--------------------------------------------------------------------------------
(* The tiers.  What is returned is a lower bound of all that is left. *)

LEMMA TiersReturn ==
    ASSUME NEW k, NEW B, NEW A, NEW S, NEW R, NEW C, InTiers(k, B, A, S, R, C),
           NEW kk \in B \cup {k}, NEW AA \in SUBSET A, NEW RR \in SUBSET R
    PROVE  InTiers(kk, {}, AA, S, RR, {})
  BY DEF InTiers, Below, Before

--------------------------------------------------------------------------------
(* What all steps have in common. *)

LEMMA Types ==
    ASSUME TypeOK
    PROVE  /\ answers \in Seq(Link!Reply) /\ requests \in Seq(Link!Request)
           /\ call # None => call \in Link!OpenCall
           /\ made \in Nat
           /\ token \in [Device -> [shock : Nat, login : Nat, keys : Seq(Nat)]]
           /\ supplied \in [Device -> SUBSET Nat] /\ had \in [Device -> SUBSET Nat]
           /\ acked \in [Device -> SUBSET Nat]
           /\ shock \in [Device -> Nat] /\ login \in [Device -> Nat] /\ key \in [Device -> Nat]
           /\ place \in Device \cup {None}
  BY DEF TypeOK, Link!LinkTypeOK, Login, Key

LEMMA Records ==
    /\ None \notin Ask /\ Malformed \notin Ask
    /\ \A c \in Link!OpenCall : c # None /\ c.fun \in Fun /\ c.ask \in Ask
    /\ \A r \in Link!Request : r.fun \in Fun /\ r.ask \in Ask
    /\ \A r \in Link!Reply : r.fun \in Fun /\ r.said \in Said /\ r.ok \in BOOLEAN
    /\ \A a \in Ask : a.device \in Device /\ a.login \in Nat /\ a.data \in Seq(Nat)
  BY FileKeysAssumption DEF Link!OpenCall, Link!Request, Link!Reply, Ask, Login, Data

LEMMA LoginsKept ==
    ASSUME TypeOK, LoginsInv, made' = made,
           \A d \in Device : LoginsOf(d)' \subseteq LoginsOf(d) \cup {0}
    PROVE  LoginsInv'
<1>0. 0 \in 0..made
  BY Types
<1>1. \A d \in Device : LoginsOf(d)' \subseteq 0..made'
  BY <1>0 DEF LoginsInv
<1>2. \A d, e \in Device : d # e => LoginsOf(d)' \cap LoginsOf(e)' \subseteq {0}
  BY DEF LoginsInv
<1>. QED  BY <1>1, <1>2 DEF LoginsInv

LEMMA LoginsNew ==
    ASSUME TypeOK, LoginsInv, made' = made + 1, NEW p \in Device,
           \A d \in Device :
               LoginsOf(d)' \subseteq LoginsOf(d) \cup IF d = p THEN {made + 1} ELSE {}
    PROVE  LoginsInv'
<1>0. made \in Nat
  BY Types
<1>1. made + 1 \in 0..made' /\ \A x \in 0..made : x \in 0..made' /\ x # made + 1
  BY <1>0
<1>2. \A d \in Device : LoginsOf(d)' \subseteq 0..made'
  BY <1>1 DEF LoginsInv
<1>3. ASSUME NEW d \in Device, NEW e \in Device, d # e
      PROVE  LoginsOf(d)' \cap LoginsOf(e)' \subseteq {0}
  <2>1. LoginsOf(d) \subseteq 0..made /\ LoginsOf(e) \subseteq 0..made
        /\ LoginsOf(d) \cap LoginsOf(e) \subseteq {0}
    BY <1>3 DEF LoginsInv
  <2>2. made + 1 \notin LoginsOf(d) /\ made + 1 \notin LoginsOf(e)
    BY <1>1, <2>1
  <2>. QED  BY <1>3, <2>1, <2>2
<1>. QED  BY <1>2, <1>3 DEF LoginsInv

\* Keys are numbers.
LEMMA TierTypes ==
    ASSUME IInv, NEW d \in Device
    PROVE  /\ key[d] \in Nat /\ supplied[d] \subseteq Nat /\ had[d] \subseteq Nat
           /\ Brought(d) \subseteq Nat /\ KeysIn(answers, d) \subseteq Nat
           /\ Stored(d) \subseteq Nat /\ SentIn(requests, d) \subseteq Nat
           /\ Begun(d) \subseteq Nat
<1>1. key[d] \in Nat /\ supplied[d] \in SUBSET Nat
  BY Types DEF IInv
<1>2. Known(d)
  BY DEF IInv, KeysInv
<1>. QED  BY <1>1, <1>2 DEF Known

LEMMA SuppliedKept ==
    ASSUME SuppliedInv, supplied' = supplied
    PROVE  SuppliedInv'
  BY DEF SuppliedInv

\* The queues lose something at most.
Shrunk ==
    /\ answers' \in Seq(Link!Reply) /\ Shift(answers, answers')
    /\ requests' \in Seq(Link!Request) /\ Shift(requests, requests')

LEMMA ShrunkQueues ==
    ASSUME IInv, Shrunk
    PROVE  /\ SaidIn(answers') /\ AskedIn(requests', had)
           /\ \A d \in Device :
                /\ LoginsIn(answers', d) \subseteq LoginsIn(answers, d)
                /\ KeysIn(answers', d) \subseteq KeysIn(answers, d)
                /\ KeysAscend(answers', d)
                /\ SentIn(requests', d) \subseteq SentIn(requests, d)
                /\ SentAscend(requests', d)
<1>1. answers \in Seq(Link!Reply) /\ requests \in Seq(Link!Request)
  BY Types DEF IInv
<1>2. SaidIn(answers) /\ AskedIn(requests, had)
      /\ \A d \in Device : KeysAscend(answers, d) /\ SentAscend(requests, d)
  BY DEF IInv, BodiesInv, KeysInv, InOrder
<1>3. SaidIn(answers')
  BY <1>1, <1>2, ShiftAnswers DEF Shrunk
<1>4. AskedIn(requests', had)
  BY <1>1, <1>2, ShiftRequests DEF Shrunk
<1>5. ASSUME NEW d \in Device
      PROVE  /\ LoginsIn(answers', d) \subseteq LoginsIn(answers, d)
             /\ KeysIn(answers', d) \subseteq KeysIn(answers, d)
             /\ KeysAscend(answers', d)
  BY <1>1, <1>2, ShiftAnswers DEF Shrunk
<1>6. ASSUME NEW d \in Device
      PROVE  SentIn(requests', d) \subseteq SentIn(requests, d) /\ SentAscend(requests', d)
  BY <1>1, <1>2, ShiftRequests DEF Shrunk
<1>. QED  BY <1>3, <1>4, <1>5, <1>6

LEMMA LeaveShrinks ==
    ASSUME IInv, NEW rest \in Seq(Link!Reply), Shift(answers, rest), Link!Leave(rest)
    PROVE  Shrunk
<1>1. answers \in Seq(Link!Reply) /\ requests \in Seq(Link!Request)
  BY Types DEF IInv
<1>2. PICK n \in 1..Len(rest) + 1 : answers' = SubSeq(rest, n, Len(rest))
  BY DEF Link!Leave
<1>3. Len(rest) \in 0..Len(rest)
  OBVIOUS
<1>4. answers' \in Seq(Link!Reply) /\ Shift(rest, answers')
  BY <1>2, <1>3, ShiftSubSeq
<1>5. Shift(answers, answers')
  BY <1>1, <1>4, ShiftTwice
<1>6. requests' = requests \/ requests' = <<>>
  BY DEF Link!Leave
<1>7. requests' \in Seq(Link!Request) /\ Shift(requests, requests')
  BY <1>1, <1>6, ShiftNot
<1>. QED  BY <1>4, <1>5, <1>7 DEF Shrunk

\* The lengths of keys that are to be stored.
LEMMA UpdateLengths ==
    ASSUME NEW s \in Seq(Link!Request), NEW h, AskedIn(s, h)
    PROVE  \A i \in 1..Len(s) : s[i].fun = "update" => Len(s[i].ask.data) \in 1..2
  BY DEF AskedIn, Asks

--------------------------------------------------------------------------------
(* The beginning and the end of a call. *)

LEMMA BeginInv ==
    ASSUME IInv, NEW fun \in Fun, NEW ask \in Ask, SendRec(fun, ask),
           Asks([fun |-> fun, ask |-> ask], had),
           UNCHANGED <<shock, login, key, had, acked>>,
           supplied' \in [Device -> SUBSET Nat], SuppliedInv',
           \A d \in Device : supplied[d] \subseteq supplied'[d],
           fun = "update" =>
               /\ Elements(ask.data) \subseteq supplied'[ask.device]
               /\ Ascending(ask.data)
               /\ \A x \in Elements(ask.data) :
                    0 < x /\ \A d \in Device : \A y \in supplied[d] : y < x
    PROVE  IInv'
<1>1. /\ call' = [fun |-> fun, ask |-> ask, said |-> None, state |-> "begun"]
      /\ call = None /\ requests' = requests /\ answers' = answers
      /\ place' = place /\ token' = token /\ made' = made
      /\ shock' = shock /\ login' = login /\ key' = key /\ had' = had /\ acked' = acked
  BY DEF SendRec, Link!Begin, tokenVars
<1>2. call' \in Link!OpenCall /\ call' # None
  BY <1>1, Records DEF Link!OpenCall
<1>3. call'.fun = fun /\ call'.ask = ask /\ call'.said = None /\ call'.state = "begun"
  BY <1>1
<1>4. TypeOK'
  BY <1>1, <1>2 DEF IInv, TypeOK, Link!LinkTypeOK, Key
<1>5. BodiesInv'
  BY <1>1, <1>3, Records DEF IInv, BodiesInv, SaidIn, AskedIn, Said1, Asks
<1>6. LoginsInv'
  <2>1. \A d \in Device : LoginsOf(d)' \subseteq LoginsOf(d)
    BY <1>1, <1>3, Records DEF LoginsOf, LoginIn, IsLogin
  <2>. QED  BY <1>1, <2>1, LoginsKept DEF IInv
<1>7. KeysInv'
  <2>. SUFFICES ASSUME NEW d \in Device PROVE (Known(d) /\ Tiers(d) /\ InOrder(d))'
    BY DEF KeysInv
  <2>1. Known(d) /\ Tiers(d) /\ InOrder(d)
    BY DEF IInv, KeysInv
  <2>2. /\ Brought(d) = {} /\ Brought(d)' = {} /\ Stored(d)' = Stored(d)
        /\ Begun(d)' = IF fun = "update" /\ ask.device = d THEN Elements(ask.data) ELSE {}
    BY <1>1, <1>2, <1>3, Records DEF Brought, Stored, Begun, KeyIn, UpdateIn, IsKey, IsUpdate
  <2>3. Begun(d)' \subseteq supplied'[d]
    BY <2>2
  <2>4. Known(d)'
    BY <1>1, <2>1, <2>2, <2>3 DEF Known
  <2>5. \A x \in Begun(d)' : 0 < x /\ \A y \in supplied[d] : y < x
    BY <2>2
  <2>6. Tiers(d)'
    <3>1. \A x \in Begun(d)' : x \in Nat /\ \A y \in supplied[d] \cup {key[d]} : y \in Nat /\ y < x
      <4>1. key[d] \in supplied[d] \cup {0}
        BY <2>1 DEF Known
      <4>2. Begun(d)' \subseteq Nat
        BY <2>3
      <4>. QED  BY <2>5, <4>1, <4>2, TierTypes
    <3>2. \A x \in Begun(d)' : \A y \in supplied[d] \cup {key[d]} : y <= x
      BY <3>1
    <3>. QED  BY <1>1, <2>1, <2>2, <3>1, <3>2 DEF Tiers, InTiers, Below, Before, Known
  <2>7. InOrder(d)'
    BY <1>1, <1>3, <2>1 DEF InOrder, IsUpdate
  <2>. QED  BY <2>4, <2>6, <2>7
<1>. QED  BY <1>4, <1>5, <1>6, <1>7 DEF IInv

\* What a call gives its user: nothing, or what it has brought.
LEMMA ReturnsInv ==
    ASSUME IInv, Returns,
           shock' \in [Device -> Nat], login' \in [Device -> Nat],
           \A d \in Device : shock'[d] \in LoginsOf(d) /\ login'[d] \in LoginsOf(d),
           key' \in [Device -> Nat], had' \in [Device -> SUBSET Nat],
           acked' \in [Device -> SUBSET Nat],
           \A d \in Device : \/ key'[d] = key[d] /\ had'[d] = had[d]
                             \/ key'[d] \in Brought(d) /\ had'[d] = had[d] \cup {key'[d]}
    PROVE  IInv' /\ \A d \in Device : key[d] <= key'[d]
<1>1. /\ call' = None /\ Link!Leave(answers) /\ place' = place /\ token' = token /\ made' = made
      /\ supplied' = supplied
  BY DEF Returns, Link!Return, tokenVars
<1>2. answers \in Seq(Link!Reply)
  BY Types DEF IInv
<1>3. Shrunk
  BY <1>1, <1>2, LeaveShrinks, ShiftNot
<1>4. AskedIn(requests', had')
  <2>1. AskedIn(requests', had) /\ requests' \in Seq(Link!Request)
    BY <1>3, ShrunkQueues DEF Shrunk
  <2>2. \A d \in Device : had[d] \subseteq had'[d]
    OBVIOUS
  <2>3. \A i \in 1..Len(requests') : requests'[i].ask.device \in Device
    BY <2>1, Records, ElementOfSeq
  <2>. QED  BY <2>1, <2>2, <2>3 DEF AskedIn, Asks
<1>5. TypeOK'
  <2>1. requests' \in Seq(Link!Request)
    BY <1>3 DEF Shrunk
  <2>2. \A i \in 1..Len(requests') :
          requests'[i].fun = "update" => Len(requests'[i].ask.data) \in 1..2
    BY <1>4, <2>1, UpdateLengths
  <2>. QED  BY <1>1, <1>3, <2>2 DEF Shrunk, IInv, TypeOK, Link!LinkTypeOK, Key, Login
<1>6. BodiesInv'
  BY <1>1, <1>3, <1>4, ShrunkQueues DEF BodiesInv
<1>7. LoginsInv'
  <2>1. \A d \in Device : LoginsOf(d)' \subseteq LoginsOf(d)
    BY <1>1, <1>3, ShrunkQueues DEF LoginsOf
  <2>. QED  BY <1>1, <2>1, LoginsKept DEF IInv
<1>8. ASSUME NEW d \in Device PROVE (Known(d) /\ Tiers(d) /\ InOrder(d))' /\ key[d] <= key'[d]
  <2>1. Known(d) /\ Tiers(d) /\ InOrder(d)
    BY DEF IInv, KeysInv
  <2>2. Brought(d)' = {} /\ Stored(d)' = Stored(d) /\ Begun(d)' = {}
    BY <1>1 DEF Brought, Stored, Begun
  <2>3. /\ KeysIn(answers', d) \subseteq KeysIn(answers, d) /\ KeysAscend(answers', d)
        /\ SentIn(requests', d) \subseteq SentIn(requests, d) /\ SentAscend(requests', d)
    BY <1>3, ShrunkQueues
  <2>4. key'[d] \in Brought(d) \cup {key[d]}
    OBVIOUS
  <2>5. Known(d)'
    BY <1>1, <2>1, <2>2, <2>3 DEF Known
  <2>6. Tiers(d)'
    BY <2>1, <2>2, <2>3, <2>4, TiersReturn DEF Tiers
  <2>7. InOrder(d)'
    BY <1>1, <2>1, <2>3 DEF InOrder
  <2>8. key[d] <= key'[d]
    BY <2>1, <2>4, Types DEF IInv, Tiers, InTiers, Below
  <2>. QED  BY <2>5, <2>6, <2>7, <2>8
<1>9. SuppliedInv'
  BY <1>1, SuppliedKept DEF IInv
<1>. QED  BY <1>5, <1>6, <1>7, <1>8, <1>9 DEF IInv, KeysInv

--------------------------------------------------------------------------------
(* Steps of the tokens. *)

\* A token executes the first request: if that is to store keys it may store
\* them, and if it gives a key then the first it stores.
LEMMA ExecuteInv ==
    ASSUME IInv, requests # <<>>, NEW ok \in BOOLEAN, NEW said \in Said, Link!Execute(ok, said),
           NEW r, r = [fun |-> Head(requests).fun, said |-> said, ok |-> ok], Said1(r),
           UNCHANGED <<place, userVars>>,
           made' \in Nat,
           token' \in [Device -> [shock : Nat, login : Nat, keys : Seq(Nat)]],
           LoginsInv',
           \A d \in Device :
               /\ Ascending(token'[d].keys)
               /\ Elements(token'[d].keys) \subseteq
                    Stored(d) \cup UpdateIn(Head(requests), d)
               /\ IsKey(r, d) => /\ said.data[1] \in Stored(d)
                                 /\ Below({said.data[1]}, Elements(token'[d].keys))
    PROVE  IInv'
<1>1. /\ call' = call /\ place' = place /\ supplied' = supplied
      /\ shock' = shock /\ login' = login /\ key' = key /\ had' = had /\ acked' = acked
      /\ requests' = Tail(requests) /\ answers' = Append(answers, r)
  BY DEF Link!Execute, userVars
<1>2. answers \in Seq(Link!Reply) /\ requests \in Seq(Link!Request)
  BY Types DEF IInv
<1>3. Head(requests) \in Link!Request /\ requests' \in Seq(Link!Request)
      /\ Shift(requests, requests')
  BY <1>1, <1>2, ShiftOne
<1>4. r \in Link!Reply /\ r.said = said
  BY <1>3, Records DEF Link!Reply
<1>5. answers' \in Seq(Link!Reply)
  BY <1>1, <1>2, <1>4, AddAnswer
<1>6. SaidIn(answers')
  BY <1>1, <1>2, <1>4, AddAnswer DEF IInv, BodiesInv
<1>7. AskedIn(requests', had)
  BY <1>2, <1>3, ShiftRequests DEF IInv, BodiesInv
<1>8. BodiesInv'
  BY <1>1, <1>6, <1>7 DEF IInv, BodiesInv
<1>9. TypeOK'
  <2>1. \A i \in 1..Len(requests') :
          requests'[i].fun = "update" => Len(requests'[i].ask.data) \in 1..2
    BY <1>3, <1>7, UpdateLengths
  <2>. QED  BY <1>1, <1>3, <1>5, <2>1 DEF IInv, TypeOK, Link!LinkTypeOK, Key, Login
<1>10. ASSUME NEW d \in Device PROVE (Known(d) /\ Tiers(d) /\ InOrder(d))'
  <2>1. Known(d) /\ Tiers(d) /\ InOrder(d)
    BY DEF IInv, KeysInv
  <2>2. Brought(d)' = Brought(d) /\ Stored(d)' = Elements(token'[d].keys) /\ Begun(d)' = Begun(d)
    BY <1>1 DEF Brought, Stored, Begun
  <2>. DEFINE X == KeyIn(r, d)
              U == UpdateIn(Head(requests), d)
  <2>3. KeysIn(answers', d) \subseteq KeysIn(answers, d) \cup X
    BY <1>1, <1>2, <1>4, AddAnswer
  <2>4. X \subseteq Stored(d) /\ Below(X, Stored(d)')
    BY <1>4, <2>2 DEF Below, KeyIn
  <2>5. SentIn(requests', d) \subseteq SentIn(requests, d) /\ SentAscend(requests', d)
    BY <1>2, <1>3, <2>1, ShiftRequests DEF InOrder
  <2>6. U \subseteq SentIn(requests, d) /\ Before(U, SentIn(requests', d))
    <3>1. IsUpdate(Head(requests), d) =>
            /\ Elements(Head(requests).ask.data) \subseteq SentIn(requests, d)
            /\ Before(Elements(Head(requests).ask.data), SentIn(requests', d))
      BY <1>1, <1>2, <2>1, FirstRequest DEF InOrder
    <3>. QED  BY <3>1 DEF Before, UpdateIn
  <2>7. Stored(d)' \subseteq Stored(d) \cup U
    BY <2>2
  <2>. HIDE DEF X, U
  <2>8. Known(d)'
    BY <1>1, <2>1, <2>2, <2>3, <2>4, <2>5, <2>6, <2>7 DEF Known
  <2>9. Tiers(d)'
    <3>1. /\ U \in SUBSET SentIn(requests, d) /\ SentIn(requests', d) \in SUBSET SentIn(requests, d)
          /\ Stored(d)' \in SUBSET (Stored(d) \cup U) /\ X \in SUBSET Stored(d)
          /\ KeysIn(answers', d) \in SUBSET (KeysIn(answers, d) \cup X)
      BY <2>3, <2>4, <2>5, <2>6, <2>7
    <3>2. InTiers(key[d], Brought(d), KeysIn(answers', d), Stored(d)', SentIn(requests', d), Begun(d))
      <4>1. Below(Stored(d), SentIn(requests, d) \cup Begun(d))
        BY <2>1, TierTypes DEF Tiers, InTiers, Below, Before
      <4>. QED  BY <2>1, <2>4, <2>6, <3>1, <4>1 DEF Tiers, InTiers, Below, Before
    <3>. QED  BY <1>1, <2>2, <3>2 DEF Tiers
  <2>10. KeysAscend(answers', d)
    <3>1. IsKey(r, d) => Below(KeysIn(answers, d), {said.data[1]})
      BY <1>4, <2>1, <2>4 DEF Tiers, InTiers, Below, KeyIn, X
    <3>. QED  BY <1>1, <1>2, <1>4, <2>1, <3>1, AddAnswer DEF InOrder
  <2>11. InOrder(d)'
    BY <1>1, <2>1, <2>5, <2>10 DEF InOrder
  <2>. QED  BY <2>8, <2>9, <2>11
<1>11. SuppliedInv'
  BY <1>1, SuppliedKept DEF IInv
<1>. QED  BY <1>8, <1>9, <1>10, <1>11 DEF IInv, KeysInv

\* What an executed request does to the logins.
LEMMA ExecuteLogins ==
    ASSUME IInv, requests # <<>>, NEW ok \in BOOLEAN, NEW said \in Said, Link!Execute(ok, said),
           NEW r, r = [fun |-> Head(requests).fun, said |-> said, ok |-> ok],
           UNCHANGED userVars, NEW d \in Device
    PROVE  LoginsOf(d)' \subseteq
             LoginsOf(d) \cup {token'[d].shock, token'[d].login}
               \cup LoginIn(r, d)
<1>1. /\ call' = call /\ shock' = shock /\ login' = login
      /\ requests' = Tail(requests) /\ answers' = Append(answers, r)
  BY DEF Link!Execute, userVars
<1>2. answers \in Seq(Link!Reply) /\ Head(requests) \in Link!Request
  BY Types, ShiftOne DEF IInv
<1>3. r \in Link!Reply /\ r.said = said
  BY <1>2, Records DEF Link!Reply
<1>4. LoginsIn(answers', d) \subseteq
        LoginsIn(answers, d) \cup LoginIn(r, d)
  BY <1>1, <1>2, <1>3, AddAnswer
<1>. QED  BY <1>1, <1>3, <1>4 DEF LoginsOf

\* Sequences of keys that lose their first, or get more at the end.
LEMMA LaterKeys ==
    ASSUME NEW s \in Seq(Nat), NEW m \in Nat \ {0}
    PROVE  /\ SubSeq(s, m, Len(s)) \in Seq(Nat)
           /\ Elements(SubSeq(s, m, Len(s))) \subseteq Elements(s)
           /\ Ascending(s) => Ascending(SubSeq(s, m, Len(s)))
<1>1. Len(s) \in Nat /\ \A i \in m..Len(s) : s[i] \in Nat
  OBVIOUS
<1>2. PICK t : t = SubSeq(s, m, Len(s))
  OBVIOUS
<1>3. /\ t \in Seq(Nat) /\ Len(t) = IF m <= Len(s) THEN Len(s) - m + 1 ELSE 0
      /\ \A i \in 1..Len(s) - m + 1 : t[i] = s[m + i - 1]
  BY <1>1, <1>2, SubSeqProperties
<1>4. \A i \in 1..Len(t) : m + i - 1 \in 1..Len(s) /\ t[i] = s[m + i - 1]
  BY <1>1, <1>3
<1>5. t \in Seq(Nat)
  BY <1>3
<1>6. Elements(t) \subseteq Elements(s)
  BY <1>4 DEF Elements
<1>7. ASSUME Ascending(s) PROVE Ascending(t)
  <2>. SUFFICES ASSUME NEW i \in 1..Len(t), NEW j \in 1..Len(t), i < j PROVE t[i] < t[j]
    BY DEF Ascending
  <2>1. /\ m + i - 1 \in 1..Len(s) /\ m + j - 1 \in 1..Len(s) /\ m + i - 1 < m + j - 1
        /\ t[i] = s[m + i - 1] /\ t[j] = s[m + j - 1]
    BY <1>3, <1>4
  <2>. QED  BY <1>7, <2>1 DEF Ascending
<1>. QED  BY <1>2, <1>5, <1>6, <1>7, Zenon

LEMMA MoreKeys ==
    ASSUME NEW s \in Seq(Nat), NEW u \in Seq(Nat)
    PROVE  /\ s \o u \in Seq(Nat) /\ Elements(s \o u) \subseteq Elements(s) \cup Elements(u)
           /\ Ascending(s) /\ Ascending(u) /\ Before(Elements(s), Elements(u))
                => Ascending(s \o u)
<1>0. PICK t : t = s \o u
  OBVIOUS
<1>1. /\ t \in Seq(Nat) /\ Len(t) = Len(s) + Len(u) /\ Len(s) \in Nat /\ Len(u) \in Nat
      /\ \A i \in 1..Len(s) + Len(u) : t[i] = IF i <= Len(s) THEN s[i] ELSE u[i - Len(s)]
  BY <1>0, ConcatProperties, LenProperties
<1>2. \A i \in 1..Len(t) : \/ i \in 1..Len(s) /\ t[i] = s[i]
                           \/ i > Len(s) /\ i - Len(s) \in 1..Len(u) /\ t[i] = u[i - Len(s)]
  BY <1>0, <1>1
<1>3. Elements(t) \subseteq Elements(s) \cup Elements(u)
  BY <1>0, <1>2 DEF Elements
<1>4. ASSUME Ascending(s), Ascending(u), Before(Elements(s), Elements(u))
      PROVE  Ascending(t)
  <2>. SUFFICES ASSUME NEW i \in 1..Len(t), NEW j \in 1..Len(t), i < j PROVE t[i] < t[j]
    BY DEF Ascending
  <2>1. CASE j \in 1..Len(s) /\ t[j] = s[j]
    BY <1>0, <1>1, <1>2, <1>4, <2>1 DEF Ascending
  <2>2. CASE i > Len(s)
    <3>1. /\ i - Len(s) \in 1..Len(u) /\ j - Len(s) \in 1..Len(u) /\ i - Len(s) < j - Len(s)
          /\ t[i] = u[i - Len(s)] /\ t[j] = u[j - Len(s)]
      BY <1>0, <1>1, <1>2, <2>2
    <3>. QED  BY <1>4, <3>1 DEF Ascending
  <2>3. CASE i <= Len(s) /\ j > Len(s)
    <3>1. i \in 1..Len(s) /\ t[i] = s[i]
      BY <1>1, <1>2, <2>3
    <3>2. t[j] = u[j - Len(s)]
      BY <1>1, <2>3
    <3>3. j - Len(s) \in 1..Len(u)
      BY <1>1, <2>3
    <3>4. t[i] \in Elements(s) /\ t[j] \in Elements(u)
      BY <3>1, <3>2, <3>3 DEF Elements
    <3>. QED  BY <1>4, <3>4 DEF Before
  <2>. QED  BY <1>0, <1>1, <1>2, <2>1, <2>2, <2>3
<1>5. t \in Seq(Nat)
  BY <1>0, <1>1
<1>. QED  BY <1>0, <1>3, <1>4, <1>5, Zenon

\* What the steps of the token that is there rest on.
LEMMA Plugs ==
    ASSUME IInv, place # None
    PROVE  /\ place \in Device /\ Self \in [shock : Nat, login : Nat, keys : Seq(Nat)]
           /\ \A d \in Device : Ascending(token[d].keys) /\ Stored(d) = Elements(token[d].keys)
           /\ \A new \in [shock : Nat, login : Nat, keys : Seq(Nat)] :
                Becomes(new) =>
                    /\ token' \in [Device -> [shock : Nat, login : Nat, keys : Seq(Nat)]]
                    /\ token'[place] = new
                    /\ \A d \in Device : d # place => token'[d] = token[d]
<1>1. place \in Device
  BY Types DEF IInv
<1>. QED  BY <1>1, Types DEF IInv, Self, Becomes, KeysInv, Known, InOrder, Stored

LEMMA Firsts ==
    ASSUME IInv, requests # <<>>
    PROVE  /\ Head(requests) \in Link!Request /\ Head(requests).fun \in Fun
           /\ Head(requests).ask \in Ask /\ Asks(Head(requests), had)
           /\ Head(requests).ask.data \in Seq(Nat)
<1>1. Head(requests) \in Link!Request
  BY Types, ShiftOne DEF IInv
<1>2. Asks(Head(requests), had)
  BY Types, FirstRequest DEF IInv, BodiesInv
<1>. QED  BY <1>1, <1>2, Records

\* A step that gives no key and leaves those that are stored as they are.
LEMMA SameKeysInv ==
    ASSUME IInv, requests # <<>>, place # None, NEW ok \in BOOLEAN, NEW said \in Said,
           Link!Execute(ok, said),
           NEW r, r = [fun |-> Head(requests).fun, said |-> said, ok |-> ok], Said1(r),
           r.fun # "get" \/ said \notin Ask,
           UNCHANGED <<place, userVars>>,
           made' \in Nat, LoginsInv',
           token' \in [Device -> [shock : Nat, login : Nat, keys : Seq(Nat)]],
           \A d \in Device : token'[d].keys = token[d].keys
    PROVE  IInv'
<1>1. r.said = said
  OBVIOUS
<1>2. \A d \in Device : ~IsKey(r, d)
  BY <1>1 DEF IsKey
<1>3. \A d \in Device :
        /\ Ascending(token'[d].keys)
        /\ Elements(token'[d].keys) \subseteq Stored(d) \cup UpdateIn(Head(requests), d)
        /\ IsKey(r, d) => /\ said.data[1] \in Stored(d)
                          /\ Below({said.data[1]}, Elements(token'[d].keys))
  BY ZenonT(30), <1>2, Plugs
<1>. QED  BY <1>3, ExecuteInv

LEMMA GivesShockInv ==
    ASSUME IInv, place # None, GivesShock, UNCHANGED <<place, userVars>>
    PROVE  IInv'
<1>. DEFINE said == InitHead(place, 0, <<made + 1>>)
            r == [fun |-> Head(requests).fun, said |-> said, ok |-> TRUE]
            new == [Self EXCEPT !.shock = made + 1]
<1>1. /\ requests # <<>> /\ Head(requests).fun = "shock" /\ made' = made + 1
      /\ Becomes(new) /\ Link!Execute(TRUE, said)
  BY DEF GivesShock, Asked, Answers
<1>2. made \in Nat /\ place \in Device /\ made + 1 \in Nat
  BY Types, Plugs DEF IInv
<1>3. /\ said \in Ask /\ said \in Said /\ Len(said.data) = 1 /\ said.data[1] = made + 1
      /\ said.device = place
  BY <1>2 DEF InitHead, Ask, Said, Login, Data
<1>4. /\ r = [fun |-> Head(requests).fun, said |-> said, ok |-> TRUE]
      /\ r.fun = "shock" /\ r.said = said
  BY <1>1
<1>5. Said1(r)
  BY <1>3, <1>4 DEF Said1
<1>6. new \in [shock : Nat, login : Nat, keys : Seq(Nat)]
      /\ new.keys = Self.keys /\ new.shock = made + 1
      /\ new.login = Self.login
  BY <1>2, Plugs
<1>. HIDE DEF said, r, new
<1>7. /\ token' \in [Device -> [shock : Nat, login : Nat, keys : Seq(Nat)]]
      /\ token'[place] = new /\ \A d \in Device : d # place => token'[d] = token[d]
  BY <1>1, <1>6, Plugs
<1>8. LoginsInv'
  <2>1. ASSUME NEW d \in Device
        PROVE  LoginsOf(d)' \subseteq LoginsOf(d) \cup IF d = place THEN {made + 1} ELSE {}
    <3>1. LoginsOf(d)' \subseteq
            LoginsOf(d) \cup {token'[d].shock, token'[d].login} \cup LoginIn(r, d)
      BY <1>1, <1>3, <1>4, ExecuteLogins
    <3>2. \A x \in LoginIn(r, d) : d = place /\ x = made + 1
      BY <1>3, <1>4 DEF LoginIn, IsLogin
    <3>3. {token[d].shock, token[d].login} \subseteq LoginsOf(d)
      BY DEF LoginsOf
    <3>4. token'[d].shock \in LoginsOf(d) \/ (d = place /\ token'[d].shock = made + 1)
      BY <1>6, <1>7, <3>3 DEF Self
    <3>5. token'[d].login \in LoginsOf(d)
      BY <1>6, <1>7, <3>3 DEF Self
    <3>. QED  BY <3>1, <3>2, <3>4, <3>5
  <2>. QED  BY <1>1, <1>2, <2>1, LoginsNew DEF IInv
<1>9. \A d \in Device : token'[d].keys = token[d].keys
  BY <1>6, <1>7 DEF Self
<1>. QED  BY <1>1, <1>2, <1>3, <1>4, <1>5, <1>7, <1>8, <1>9, SameKeysInv

\* The logins stay what they are if the token's do and the answer brings none,
\* or one that the token has.
LEMMA SameLogins ==
    ASSUME IInv, requests # <<>>, NEW ok \in BOOLEAN, NEW said \in Said, Link!Execute(ok, said),
           NEW r, r = [fun |-> Head(requests).fun, said |-> said, ok |-> ok],
           UNCHANGED userVars, made' = made,
           \A d \in Device : /\ token'[d].shock \in {token[d].shock, token[d].login}
                             /\ token'[d].login \in {token[d].shock, token[d].login}
                             /\ LoginIn(r, d) \subseteq {token[d].shock, token[d].login}
    PROVE  LoginsInv'
<1>1. ASSUME NEW d \in Device PROVE LoginsOf(d)' \subseteq LoginsOf(d)
  <2>1. LoginsOf(d)' \subseteq
          LoginsOf(d) \cup {token'[d].shock, token'[d].login} \cup LoginIn(r, d)
    BY ExecuteLogins
  <2>2. {token[d].shock, token[d].login} \subseteq LoginsOf(d)
    BY DEF LoginsOf
  <2>. QED  BY <2>1, <2>2
<1>. QED  BY <1>1, LoginsKept DEF IInv

LEMMA GivesLoginInv ==
    ASSUME IInv, place # None, GivesLogin, UNCHANGED <<place, userVars>>
    PROVE  IInv'
<1>. DEFINE said == InitHead(place, 0, <<Self.shock>>)
            r == [fun |-> Head(requests).fun, said |-> said, ok |-> TRUE]
            new == [Self EXCEPT !.login = Self.shock]
<1>1. /\ requests # <<>> /\ Head(requests).fun = "response" /\ made' = made
      /\ Becomes(new) /\ Link!Execute(TRUE, said)
  BY DEF GivesLogin, Asked, Answers
<1>2. made \in Nat /\ place \in Device /\ Self.shock \in Nat
  BY Types, Plugs DEF IInv
<1>3. /\ said \in Ask /\ said \in Said /\ Len(said.data) = 1 /\ said.data[1] = Self.shock
      /\ said.device = place
  BY <1>2 DEF InitHead, Ask, Said, Login, Data
<1>4. /\ r = [fun |-> Head(requests).fun, said |-> said, ok |-> TRUE]
      /\ r.fun = "response" /\ r.said = said
  BY <1>1
<1>5. Said1(r)
  BY <1>3, <1>4 DEF Said1
<1>6. new \in [shock : Nat, login : Nat, keys : Seq(Nat)]
      /\ new.keys = Self.keys /\ new.shock = Self.shock
      /\ new.login = Self.shock
  BY <1>2, Plugs
<1>. HIDE DEF said, r, new
<1>7. /\ token' \in [Device -> [shock : Nat, login : Nat, keys : Seq(Nat)]]
      /\ token'[place] = new /\ \A d \in Device : d # place => token'[d] = token[d]
  BY <1>1, <1>6, Plugs
<1>8. LoginsInv'
  <2>1. \A d \in Device : \A x \in LoginIn(r, d) : d = place /\ x = Self.shock
    BY <1>3, <1>4 DEF LoginIn, IsLogin
  <2>2. \A d \in Device : /\ token'[d].shock \in {token[d].shock, token[d].login}
                          /\ token'[d].login \in {token[d].shock, token[d].login}
                          /\ LoginIn(r, d) \subseteq {token[d].shock, token[d].login}
    BY <1>6, <1>7, <2>1 DEF Self
  <2>. QED  BY <1>1, <1>3, <1>4, <2>2, SameLogins
<1>9. \A d \in Device : token'[d].keys = token[d].keys
  BY <1>6, <1>7 DEF Self
<1>. QED  BY <1>1, <1>2, <1>3, <1>4, <1>5, <1>7, <1>8, <1>9, SameKeysInv

\* A token that stays as it is and says what is neither a login nor a key.
LEMMA SameTokenInv ==
    ASSUME IInv, requests # <<>>, place # None, NEW ok \in BOOLEAN, NEW said \in Said,
           Link!Execute(ok, said),
           said \in Ask => Head(requests).fun \notin {"shock", "response", "get"},
           UNCHANGED <<place, token, made, userVars>>
    PROVE  IInv'
<1>1. PICK r : r = [fun |-> Head(requests).fun, said |-> said, ok |-> ok]
  OBVIOUS
<1>2. r.fun = Head(requests).fun /\ r.said = said
  BY <1>1
<1>3. Said1(r) /\ (r.fun # "get" \/ said \notin Ask) /\ \A d \in Device : LoginIn(r, d) = {}
  BY <1>2 DEF Said1, LoginIn, IsLogin
<1>4. LoginsInv'
  BY <1>1, <1>3, SameLogins
<1>5. /\ made' \in Nat
      /\ token' \in [Device -> [shock : Nat, login : Nat, keys : Seq(Nat)]]
      /\ \A d \in Device : token'[d].keys = token[d].keys
  BY Types DEF IInv
<1>. QED  BY <1>1, <1>3, <1>4, <1>5, SameKeysInv

LEMMA ObligesInv ==
    ASSUME IInv, place # None, Obliges, UNCHANGED <<place, userVars>>
    PROVE  IInv'
<1>1. place \in Device /\ Self.login \in Nat /\ None \in Said
  BY Plugs DEF Said
<1>2. requests # <<>> /\ token' = token /\ made' = made
  BY DEF Obliges, Obeys, Asked
<1>3. Head(requests).ask.data \in Seq(Nat)
  BY <1>2, Firsts
<1>4. \A data \in Seq(Nat), under \in Nat : InitHead(place, under, data) \in Said
  BY <1>1 DEF InitHead, Said, Ask, Login, Data
<1>5. \/ Link!Execute(TRUE, None)
      \/ \E data \in Seq(Nat), under \in Nat :
           /\ Head(requests).fun \in {"number", "decrypt", "getname"}
           /\ Link!Execute(TRUE, InitHead(place, under, data))
  <2>1. NoData \in Seq(Nat)
    BY DEF NoData
  <2>. QED  BY <1>1, <1>3, <2>1 DEF Obliges, Obeys, Asked, Answers
<1>6. CASE Link!Execute(TRUE, None)
  BY <1>1, <1>2, <1>6, Records, SameTokenInv
<1>7. ASSUME NEW data \in Seq(Nat), NEW under \in Nat,
             Head(requests).fun \in {"number", "decrypt", "getname"},
             Link!Execute(TRUE, InitHead(place, under, data))
      PROVE  IInv'
  BY <1>2, <1>4, <1>7, SameTokenInv
<1>. QED  BY <1>5, <1>6, <1>7

LEMMA RefusesInv ==
    ASSUME IInv, place # None, Refuses, UNCHANGED <<place, userVars>>
    PROVE  IInv'
<1>1. None \in Said /\ Malformed \in Said /\ requests # <<>> /\ token' = token /\ made' = made
  BY DEF Said, Refuses
<1>2. PICK ok \in BOOLEAN, said \in {None, Malformed} : Link!Execute(ok, said)
  BY DEF Refuses
<1>. QED  BY <1>1, <1>2, Records, SameTokenInv

LEMMA GivesKeyInv ==
    ASSUME IInv, place # None, GivesKey, UNCHANGED <<place, userVars>>
    PROVE  IInv'
<1>1. PICK said : said = InitHead(place, Self.login, <<Head(Self.keys)>>)
  OBVIOUS
<1>2. PICK r : r = [fun |-> Head(requests).fun, said |-> said, ok |-> TRUE]
  OBVIOUS
<1>3. /\ requests # <<>> /\ Head(requests).fun = "get" /\ Self.keys # <<>>
      /\ token' = token /\ made' = made /\ Link!Execute(TRUE, said)
  BY <1>1 DEF GivesKey, Obeys, Asked, Answers
<1>4. /\ place \in Device /\ Self.login \in Nat /\ Self.keys \in Seq(Nat)
      /\ Ascending(Self.keys)
  BY Plugs DEF Self
<1>5. /\ Head(Self.keys) = Self.keys[1] /\ Self.keys[1] \in Nat /\ 1 \in 1..Len(Self.keys)
      /\ \A i \in 1..Len(Self.keys) : Self.keys[i] \in Nat /\ (i = 1 \/ 1 < i)
  BY <1>3, <1>4, EmptySeq
<1>6. /\ said \in Ask /\ said \in Said /\ Len(said.data) = 1 /\ said.data[1] = Self.keys[1]
      /\ said.device = place
  BY <1>1, <1>4, <1>5 DEF InitHead, Ask, Said, Login, Data
<1>7. r.fun = "get" /\ r.said = said
  BY <1>2, <1>3
<1>8. Said1(r)
  BY <1>6, <1>7 DEF Said1
<1>9. LoginsInv'
  <2>1. \A d \in Device : LoginIn(r, d) = {}
    BY <1>7 DEF LoginIn, IsLogin
  <2>. QED  BY <1>2, <1>3, <1>6, <2>1, SameLogins
<1>10. \A d \in Device :
        /\ Ascending(token'[d].keys)
        /\ Elements(token'[d].keys) \subseteq Stored(d) \cup UpdateIn(Head(requests), d)
  BY <1>3, Plugs
<1>11. ASSUME NEW d \in Device, IsKey(r, d)
       PROVE  said.data[1] \in Stored(d) /\ Below({said.data[1]}, Elements(token'[d].keys))
  <2>1. d = place
    BY <1>6, <1>7, <1>11 DEF IsKey
  <2>2. Stored(d) = Elements(Self.keys) /\ Elements(token'[d].keys) = Elements(Self.keys)
    BY <1>3, <2>1 DEF Stored, Self
  <2>3. Self.keys[1] \in Elements(Self.keys)
        /\ \A i \in 1..Len(Self.keys) : Self.keys[1] <= Self.keys[i]
    BY <1>4, <1>5 DEF Elements, Ascending
  <2>4. Below({Self.keys[1]}, Elements(Self.keys))
    BY <2>3 DEF Below, Elements
  <2>. QED  BY <1>6, <2>2, <2>3, <2>4
<1>12. /\ made' \in Nat
       /\ token' \in [Device -> [shock : Nat, login : Nat, keys : Seq(Nat)]]
  BY <1>3, Types DEF IInv
<1>. QED  BY <1>2, <1>3, <1>6, <1>8, <1>9, <1>10, <1>11, <1>12, ExecuteInv

\* A token that gets or drops keys and says nothing.
LEMMA ChangedKeysInv ==
    ASSUME IInv, place # None, requests # <<>>, Link!Execute(TRUE, None),
           UNCHANGED <<place, made, userVars>>,
           NEW new \in [shock : Nat, login : Nat, keys : Seq(Nat)],
           Becomes(new), new.shock = Self.shock, new.login = Self.login,
           Ascending(new.keys),
           Elements(new.keys) \subseteq Elements(Self.keys) \cup UpdateIn(Head(requests), place)
    PROVE  IInv'
<1>1. PICK r : r = [fun |-> Head(requests).fun, said |-> None, ok |-> TRUE]
  OBVIOUS
<1>2. r.said = None /\ None \notin Ask /\ None \in Said
  BY <1>1, Records DEF Said
<1>3. Said1(r) /\ \A d \in Device : ~IsKey(r, d) /\ LoginIn(r, d) = {}
  BY <1>2 DEF Said1, IsKey, LoginIn, IsLogin
<1>4. /\ place \in Device /\ made' \in Nat /\ made' = made
      /\ token' \in [Device -> [shock : Nat, login : Nat, keys : Seq(Nat)]]
      /\ token'[place] = new /\ \A d \in Device : d # place => token'[d] = token[d]
  BY Plugs, Types DEF IInv
<1>5. LoginsInv'
  <2>1. \A d \in Device : token'[d].shock = token[d].shock /\ token'[d].login = token[d].login
    BY <1>4 DEF Self
  <2>. QED  BY <1>1, <1>2, <1>3, <1>4, <2>1, SameLogins
<1>6. ASSUME NEW d \in Device
      PROVE  /\ Ascending(token'[d].keys)
             /\ Elements(token'[d].keys) \subseteq Stored(d) \cup UpdateIn(Head(requests), d)
  <2>1. CASE d = place
    BY <1>4, <2>1 DEF Stored, Self
  <2>2. CASE d # place
    BY <1>4, <2>2, Plugs
  <2>. QED  BY <2>1, <2>2
<1>. QED  BY <1>1, <1>2, <1>3, <1>4, <1>5, <1>6, ExecuteInv

LEMMA StoresKeysInv ==
    ASSUME IInv, place # None, StoresKeys, UNCHANGED <<place, userVars>>
    PROVE  IInv'
<1>. DEFINE data == Head(requests).ask.data
            new == [Self EXCEPT !.keys = @ \o data]
<1>1. /\ requests # <<>> /\ Head(requests).fun = "update" /\ Head(requests).ask.device = place
      /\ made' = made /\ Becomes(new) /\ Link!Execute(TRUE, None)
  BY DEF StoresKeys, Obeys, Asked
<1>2. /\ place \in Device /\ Self \in [shock : Nat, login : Nat, keys : Seq(Nat)]
      /\ data \in Seq(Nat) /\ Ascending(Self.keys)
      /\ Elements(Self.keys) = Stored(place)
  BY <1>1, Plugs, Firsts DEF Self
<1>3. IsUpdate(Head(requests), place)
  BY <1>1 DEF IsUpdate
<1>4. requests \in Seq(Link!Request) /\ SentAscend(requests, place) /\ Tiers(place)
  BY <1>2, Types DEF IInv, KeysInv, InOrder
<1>5. Ascending(data) /\ Elements(data) \subseteq SentIn(requests, place)
  BY <1>1, <1>3, <1>4, FirstRequest
<1>6. Before(Elements(Self.keys), Elements(data))
  BY <1>2, <1>4, <1>5 DEF Tiers, InTiers, Before
<1>7. PICK s \in Seq(Nat), u \in Seq(Nat) : s = Self.keys /\ u = data
  BY <1>2
<1>8. PICK t \in Seq(Nat) : /\ t = Self.keys \o data /\ Ascending(t)
                            /\ Elements(t) \subseteq Elements(Self.keys) \cup Elements(data)
  <2>1. Ascending(s) /\ Ascending(u) /\ Before(Elements(s), Elements(u))
    BY <1>2, <1>5, <1>6, <1>7
  <2>2. /\ s \o u \in Seq(Nat) /\ Elements(s \o u) \subseteq Elements(s) \cup Elements(u)
        /\ Ascending(s \o u)
    BY <2>1, MoreKeys
  <2>. QED  BY <1>7, <2>2
<1>9. new \in [shock : Nat, login : Nat, keys : Seq(Nat)]
      /\ new.keys = t
      /\ new.shock = Self.shock /\ new.login = Self.login
  BY <1>2, <1>8
<1>10. UpdateIn(Head(requests), place) = Elements(data)
  BY <1>3 DEF UpdateIn
<1>. QED  BY <1>1, <1>2, <1>8, <1>9, <1>10, ChangedKeysInv, Plugs

LEMMA DropsKeyInv ==
    ASSUME IInv, place # None, DropsKey, UNCHANGED <<place, userVars>>
    PROVE  IInv'
<1>. DEFINE new == [Self EXCEPT !.keys = Tail(@)]
<1>1. /\ requests # <<>> /\ Head(requests).fun = "ack" /\ Head(requests).ask.device = place
      /\ Self.keys # <<>> /\ Head(requests).ask.data = <<Head(Self.keys)>>
      /\ made' = made /\ Becomes(new) /\ Link!Execute(TRUE, None)
  BY DEF DropsKey, Obeys, Asked
<1>2. /\ place \in Device /\ Self \in [shock : Nat, login : Nat, keys : Seq(Nat)]
      /\ Ascending(Self.keys)
  BY Plugs DEF Self
<1>3. Head(Self.keys) \in had[place]
  BY <1>1, Firsts DEF Asks
<1>4. Self.keys \in Seq(Nat)
  BY <1>2
<1>5. Tail(Self.keys) = SubSeq(Self.keys, 2, Len(Self.keys)) /\ Head(Self.keys) \in Nat
  BY <1>1, <1>4, TailIsSubSeq, HeadTailProperties
<1>6. /\ Tail(Self.keys) \in Seq(Nat) /\ Elements(Tail(Self.keys)) \subseteq Elements(Self.keys)
      /\ Ascending(Tail(Self.keys))
  <2>1. PICK s \in Seq(Nat) : s = Self.keys
    BY <1>4
  <2>2. /\ SubSeq(s, 2, Len(s)) \in Seq(Nat) /\ Elements(SubSeq(s, 2, Len(s))) \subseteq Elements(s)
        /\ Ascending(s) => Ascending(SubSeq(s, 2, Len(s)))
    BY LaterKeys
  <2>. QED  BY <1>2, <1>5, <2>1, <2>2
<1>7. new \in [shock : Nat, login : Nat, keys : Seq(Nat)]
      /\ new.keys = Tail(Self.keys)
      /\ new.shock = Self.shock /\ new.login = Self.login
  BY <1>2, <1>5, <1>6
<1>. QED  BY <1>1, <1>2, <1>3, <1>6, <1>7, ChangedKeysInv

LEMMA DeletesKeysInv ==
    ASSUME IInv, place # None, DeletesKeys, UNCHANGED <<place, userVars>>
    PROVE  IInv'
<1>1. PICK m : m = Head(Head(requests).ask.data) + 1
  OBVIOUS
<1>2. PICK t : t = SubSeq(Self.keys, m, Len(Self.keys))
  OBVIOUS
<1>. DEFINE new == [Self EXCEPT !.keys = t]
<1>3. /\ requests # <<>> /\ Head(requests).fun = "delete"
      /\ made' = made /\ Becomes(new) /\ Link!Execute(TRUE, None)
  BY <1>1, <1>2 DEF DeletesKeys, Obeys, Asked
<1>4. /\ place \in Device /\ Self \in [shock : Nat, login : Nat, keys : Seq(Nat)]
      /\ Ascending(Self.keys)
  BY Plugs DEF Self
<1>5. m \in Nat \ {0}
  BY <1>1, <1>3, Firsts DEF Asks
<1>6. PICK s \in Seq(Nat) : s = Self.keys
  BY <1>4
<1>7. t \in Seq(Nat) /\ Elements(t) \subseteq Elements(Self.keys) /\ Ascending(t)
  <2>1. t = SubSeq(s, m, Len(s)) /\ Ascending(s)
    BY <1>2, <1>4, <1>6
  <2>2. /\ SubSeq(s, m, Len(s)) \in Seq(Nat) /\ Ascending(SubSeq(s, m, Len(s)))
        /\ Elements(SubSeq(s, m, Len(s))) \subseteq Elements(s)
    BY <1>5, <2>1, LaterKeys
  <2>. QED  BY <1>6, <2>1, <2>2
<1>8. new \in [shock : Nat, login : Nat, keys : Seq(Nat)]
      /\ new.keys = t
      /\ new.shock = Self.shock /\ new.login = Self.login
  BY <1>4, <1>7
<1>. QED  BY <1>3, <1>4, <1>7, <1>8, ChangedKeysInv

LEMMA TokenStepInv ==
    ASSUME IInv, TokenStep
    PROVE  IInv'
<1>1. place # None /\ UNCHANGED <<place, userVars>>
  BY DEF TokenStep
<1>. QED  BY <1>1, GivesShockInv, GivesLoginInv, StoresKeysInv, GivesKeyInv, DropsKeyInv,
             DeletesKeysInv, ObligesInv, RefusesInv DEF TokenStep

--------------------------------------------------------------------------------
(* Steps of the link, and tokens that come and go. *)

LEMMA SameCall ==
    ASSUME IInv, call # None, NEW st \in {"sent", "SUCCESS", "STATE", "failed"},
           NEW said \in Said \cup {None},
           call' = [call EXCEPT !.state = st, !.said = said]
    PROVE  /\ call \in Link!OpenCall /\ call' \in Link!OpenCall /\ call' # None
           /\ call'.fun = call.fun /\ call'.ask = call.ask
           /\ call'.said = said /\ call'.state = st
           /\ \A d \in Device : /\ Begun(d)' = {}
                                /\ IsUpdate(call', d) <=> IsUpdate(call, d)
           /\ Asks(call', had)
<1>1. call \in Link!OpenCall
  BY Types DEF IInv
<1>2. /\ call' \in Link!OpenCall /\ call'.fun = call.fun /\ call'.ask = call.ask
      /\ call'.said = said /\ call'.state = st
  BY <1>1 DEF Link!OpenCall
<1>3. call' # None
  BY <1>2, Records
<1>4. Asks(call', had)
  BY <1>2 DEF IInv, BodiesInv, Asks
<1>5. \A d \in Device : Begun(d)' = {}
  BY <1>2 DEF Begun
<1>. QED  BY <1>1, <1>2, <1>3, <1>4, <1>5 DEF IsUpdate

\* Queues may be cut, the call may fail, and tokens may forget logins.
LEMMA ShrunkInv ==
    ASSUME IInv, Shrunk, UNCHANGED <<made, userVars>>,
           place' \in Device \cup {None},
           call' = call \/ (call # None /\ call' = [call EXCEPT !.state = "failed"]),
           token' \in [Device -> [shock : Nat, login : Nat, keys : Seq(Nat)]],
           \A d \in Device : /\ token'[d].shock \in {token[d].shock, 0}
                             /\ token'[d].login \in {token[d].login, 0}
                             /\ token'[d].keys = token[d].keys
    PROVE  IInv'
<1>1. /\ made' = made /\ supplied' = supplied /\ shock' = shock /\ login' = login /\ key' = key
      /\ had' = had /\ acked' = acked
  BY DEF userVars
<1>2. /\ call' # None => /\ call # None /\ call' \in Link!OpenCall
                         /\ call'.fun = call.fun /\ call'.ask = call.ask /\ call'.said = call.said
      /\ \A d \in Device : Begun(d)' \subseteq Begun(d)
  <2>1. CASE call' = call
    BY <2>1, Types DEF IInv, Begun
  <2>2. CASE call # None /\ call' = [call EXCEPT !.state = "failed"]
    <3>1. call \in Link!OpenCall
      BY <2>2, Types DEF IInv
    <3>2. call.said \in Said \cup {None}
          /\ call' = [call EXCEPT !.state = "failed", !.said = call.said]
      BY <2>2, <3>1 DEF Link!OpenCall
    <3>. QED  BY <2>2, <3>2, SameCall
  <2>. QED  BY <2>1, <2>2
<1>3. AskedIn(requests', had) /\ SaidIn(answers')
  BY ShrunkQueues
<1>4. TypeOK'
  <2>1. requests' \in Seq(Link!Request) /\ answers' \in Seq(Link!Reply)
    BY DEF Shrunk
  <2>2. \A i \in 1..Len(requests') :
          requests'[i].fun = "update" => Len(requests'[i].ask.data) \in 1..2
    BY <1>3, <2>1, UpdateLengths
  <2>3. call' \in Link!OpenCall \cup {None}
    BY <1>2
  <2>. QED  BY <1>1, <2>1, <2>2, <2>3 DEF IInv, TypeOK, Link!LinkTypeOK, Key, Login
<1>5. BodiesInv'
  BY <1>1, <1>2, <1>3 DEF IInv, BodiesInv, Said1, Asks
<1>6. LoginsInv'
  <2>1. ASSUME NEW d \in Device PROVE LoginsOf(d)' \subseteq LoginsOf(d) \cup {0}
    <3>1. LoginsIn(answers', d) \subseteq LoginsIn(answers, d)
      BY ShrunkQueues
    <3>2. (IF call # None THEN LoginIn(call, d) ELSE {})'
            \subseteq IF call # None THEN LoginIn(call, d) ELSE {}
      BY <1>2 DEF LoginIn, IsLogin
    <3>3. /\ token'[d].shock \in {token[d].shock, 0} /\ token'[d].login \in {token[d].login, 0}
          /\ shock'[d] = shock[d] /\ login'[d] = login[d]
      BY <1>1
    <3>. QED  BY <3>1, <3>2, <3>3 DEF LoginsOf
  <2>. QED  BY <1>1, <2>1, LoginsKept DEF IInv
<1>7. ASSUME NEW d \in Device PROVE (Known(d) /\ Tiers(d) /\ InOrder(d))'
  <2>1. Known(d) /\ Tiers(d) /\ InOrder(d)
    BY DEF IInv, KeysInv
  <2>2. Brought(d)' \subseteq Brought(d) /\ Begun(d)' \subseteq Begun(d)
    BY <1>2 DEF Brought, KeyIn, IsKey
  <2>3. Stored(d)' = Stored(d)
    BY DEF Stored
  <2>4. /\ KeysIn(answers', d) \subseteq KeysIn(answers, d) /\ KeysAscend(answers', d)
        /\ SentIn(requests', d) \subseteq SentIn(requests, d) /\ SentAscend(requests', d)
    BY ShrunkQueues
  <2>5. Known(d)'
    BY <1>1, <2>1, <2>2, <2>3, <2>4 DEF Known
  <2>6. Tiers(d)'
    BY <1>1, <2>1, <2>2, <2>3, <2>4 DEF Tiers, InTiers, Below, Before
  <2>7. InOrder(d)'
    BY <1>1, <1>2, <2>1, <2>4 DEF InOrder, IsUpdate
  <2>. QED  BY <2>5, <2>6, <2>7
<1>8. SuppliedInv'
  BY <1>1, SuppliedKept DEF IInv
<1>. QED  BY <1>4, <1>5, <1>6, <1>7, <1>8 DEF IInv, KeysInv

LEMMA UnpluggedInv ==
    ASSUME IInv, Unplugged
    PROVE  IInv'
<1>1. /\ place \in Device /\ place' = None /\ requests' = <<>> /\ answers' = <<>> /\ call' = call
      /\ token' = [token EXCEPT ![place].shock = 0, ![place].login = 0]
      /\ UNCHANGED <<made, userVars>>
  BY Types DEF Unplugged, IInv, Link!Lose
<1>2. Shrunk
  BY <1>1, Types, ShiftNot DEF IInv, Shrunk
<1>3. /\ token' \in [Device -> [shock : Nat, login : Nat, keys : Seq(Nat)]]
      /\ \A d \in Device : /\ token'[d].shock \in {token[d].shock, 0}
                           /\ token'[d].login \in {token[d].login, 0}
                           /\ token'[d].keys = token[d].keys
  BY <1>1, Types DEF IInv
<1>. QED  BY <1>1, <1>2, <1>3, ShrunkInv

LEMMA PluggedInv ==
    ASSUME IInv, Plugged
    PROVE  IInv'
<1>1. /\ place' \in Device /\ requests' = requests /\ answers' = answers /\ call' = call
      /\ token' = token /\ UNCHANGED <<made, userVars>>
  BY DEF Plugged, linkVars
<1>2. Shrunk
  BY <1>1, Types, ShiftNot DEF IInv, Shrunk
<1>. QED  BY <1>1, <1>2, Types, ShrunkInv DEF IInv

LEMMA FailInv ==
    ASSUME IInv, Link!Fail, UNCHANGED <<tokenVars, userVars>>
    PROVE  IInv'
<1>1. /\ call # None /\ call' = [call EXCEPT !.state = "failed"] /\ Link!Leave(answers)
      /\ place' = place /\ token' = token /\ UNCHANGED <<made, userVars>>
  BY DEF Link!Fail, tokenVars
<1>2. answers \in Seq(Link!Reply)
  BY Types DEF IInv
<1>3. Shrunk
  BY <1>1, <1>2, ShiftNot, LeaveShrinks
<1>. QED  BY <1>1, <1>3, Types, ShrunkInv DEF IInv

LEMMA SendInv ==
    ASSUME IInv, Link!Send, UNCHANGED <<tokenVars, userVars>>
    PROVE  IInv'
<1>1. /\ call # None /\ call.state = "begun" /\ call' = [call EXCEPT !.state = "sent"]
      /\ answers' = answers
      /\ place' = place /\ token' = token /\ made' = made /\ supplied' = supplied
      /\ shock' = shock /\ login' = login /\ key' = key /\ had' = had /\ acked' = acked
  BY DEF Link!Send, tokenVars, userVars
<1>2. call \in Link!OpenCall /\ call.said \in Said \cup {None}
      /\ call' = [call EXCEPT !.state = "sent", !.said = call.said]
  <2>1. call \in Link!OpenCall
    BY <1>1, Types DEF IInv
  <2>. QED  BY <1>1, <2>1 DEF Link!OpenCall
<1>3. /\ call' \in Link!OpenCall /\ call' # None
      /\ call'.fun = call.fun /\ call'.ask = call.ask /\ call'.said = call.said
      /\ \A d \in Device : Begun(d)' = {} /\ (IsUpdate(call', d) <=> IsUpdate(call, d))
      /\ Asks(call', had)
  BY <1>1, <1>2, SameCall
<1>4. PICK r : r = [fun |-> call.fun, ask |-> call.ask]
  OBVIOUS
<1>5. r \in Link!Request /\ r.fun = call.fun /\ r.ask = call.ask
  BY <1>2, <1>4, Records DEF Link!Request
<1>6. requests' = requests \/ requests' = Append(requests, r)
  BY <1>4 DEF Link!Send
<1>7. requests \in Seq(Link!Request)
  BY Types DEF IInv
<1>8. Asks(r, had) /\ AskedIn(requests, had)
  BY <1>1, <1>5 DEF IInv, BodiesInv, Asks
<1>9. requests' \in Seq(Link!Request) /\ AskedIn(requests', had)
  BY <1>5, <1>6, <1>7, <1>8, AddRequest
<1>10. TypeOK'
  <2>1. \A i \in 1..Len(requests') :
          requests'[i].fun = "update" => Len(requests'[i].ask.data) \in 1..2
    BY <1>9, UpdateLengths
  <2>. QED  BY <1>1, <1>3, <1>9, <2>1 DEF IInv, TypeOK, Link!LinkTypeOK
<1>11. BodiesInv'
  BY <1>1, <1>3, <1>9 DEF IInv, BodiesInv, Said1
<1>12. LoginsInv'
  <2>1. \A d \in Device : LoginsOf(d)' \subseteq LoginsOf(d)
    BY <1>1, <1>3 DEF LoginsOf, LoginIn, IsLogin
  <2>. QED  BY <1>1, <2>1, LoginsKept DEF IInv
<1>13. ASSUME NEW d \in Device PROVE (Known(d) /\ Tiers(d) /\ InOrder(d))'
  <2>1. Known(d) /\ Tiers(d) /\ InOrder(d)
    BY DEF IInv, KeysInv
  <2>2. Brought(d)' = Brought(d) /\ Begun(d)' = {} /\ Stored(d)' = Stored(d)
        /\ Begun(d) = UpdateIn(call, d)
    BY <1>1, <1>3 DEF Brought, KeyIn, IsKey, Stored, Begun
  <2>3. UpdateIn(r, d) = Begun(d) /\ (IsUpdate(r, d) <=> IsUpdate(call, d))
    BY <1>5, <2>2 DEF UpdateIn, IsUpdate
  <2>4. SentIn(requests', d) \subseteq SentIn(requests, d) \cup Begun(d)
    <3>1. CASE requests' = requests
      BY <3>1
    <3>2. CASE requests' = Append(requests, r)
      BY <1>5, <1>7, <2>3, <3>2, AddRequest
    <3>. QED  BY <1>6, <3>1, <3>2
  <2>5. SentAscend(requests', d)
    <3>1. CASE requests' = requests
      BY <2>1, <3>1 DEF InOrder
    <3>2. CASE requests' = Append(requests, r)
      <4>1. IsUpdate(r, d) => Ascending(r.ask.data)
        BY <1>1, <1>5, <2>1, <2>3 DEF InOrder
      <4>2. IsUpdate(r, d) => Before(SentIn(requests, d), Elements(r.ask.data))
        BY <1>5, <2>1, <2>2, <2>3 DEF Tiers, InTiers, UpdateIn
      <4>. QED  BY <1>5, <1>7, <2>1, <3>2, <4>1, <4>2, AddRequest DEF InOrder
    <3>. QED  BY <1>6, <3>1, <3>2
  <2>6. Known(d)'
    BY <1>1, <2>1, <2>2, <2>4 DEF Known
  <2>7. Tiers(d)'
    BY <1>1, <2>1, <2>2, <2>4 DEF Tiers, InTiers, Below, Before
  <2>8. InOrder(d)'
    BY <1>1, <1>3, <2>1, <2>5 DEF InOrder
  <2>. QED  BY <2>6, <2>7, <2>8
<1>14. SuppliedInv'
  BY <1>1, SuppliedKept DEF IInv
<1>. QED  BY <1>10, <1>11, <1>12, <1>13, <1>14 DEF IInv, KeysInv

LEMMA TakeInv ==
    ASSUME IInv, Link!Take, UNCHANGED <<tokenVars, userVars>>
    PROVE  IInv'
<1>1. PICK a : a = Head(answers)
  OBVIOUS
<1>2. PICK st \in {"SUCCESS", "STATE"} : call' = [call EXCEPT !.state = st, !.said = a.said]
  BY <1>1 DEF Link!Take
<1>3. /\ call # None /\ answers # <<>> /\ a.fun = call.fun /\ Link!Leave(Tail(answers))
      /\ place' = place /\ token' = token /\ made' = made /\ supplied' = supplied
      /\ shock' = shock /\ login' = login /\ key' = key /\ had' = had /\ acked' = acked
  BY <1>1 DEF Link!Take, tokenVars, userVars
<1>4. answers \in Seq(Link!Reply)
  BY Types DEF IInv
<1>5. a \in Link!Reply /\ Tail(answers) \in Seq(Link!Reply) /\ Shift(answers, Tail(answers))
  BY <1>1, <1>3, <1>4, ShiftOne
<1>6. Shrunk
  BY <1>3, <1>5, LeaveShrinks
<1>7. PICK n \in 1..Len(Tail(answers)) + 1 :
        answers' = SubSeq(Tail(answers), n, Len(Tail(answers)))
  BY <1>3 DEF Link!Leave
<1>8. Shift(Tail(answers), answers')
  <2>1. PICK rest \in Seq(Link!Reply) : rest = Tail(answers)
    BY <1>5
  <2>2. n \in 1..Len(rest) + 1 /\ Len(rest) \in 0..Len(rest) /\ answers' = SubSeq(rest, n, Len(rest))
    BY <1>7, <2>1
  <2>. QED  BY <2>1, <2>2, ShiftSubSeq
<1>9. a.said \in Said \cup {None}
  BY <1>5, Records
<1>10. /\ call' \in Link!OpenCall /\ call' # None
       /\ call'.fun = a.fun /\ call'.ask = call.ask /\ call'.said = a.said
       /\ \A d \in Device : Begun(d)' = {} /\ (IsUpdate(call', d) <=> IsUpdate(call, d))
       /\ Asks(call', had)
  BY <1>2, <1>3, <1>9, SameCall
<1>11. SaidIn(answers) /\ Said1(a)
  BY <1>1, <1>3, <1>4, FirstAnswer DEF IInv, BodiesInv
<1>12. AskedIn(requests', had) /\ SaidIn(answers')
  BY <1>6, ShrunkQueues
<1>13. TypeOK'
  <2>1. requests' \in Seq(Link!Request) /\ answers' \in Seq(Link!Reply)
    BY <1>6 DEF Shrunk
  <2>2. \A i \in 1..Len(requests') :
          requests'[i].fun = "update" => Len(requests'[i].ask.data) \in 1..2
    BY <1>12, <2>1, UpdateLengths
  <2>. QED  BY <1>3, <1>10, <2>1, <2>2 DEF IInv, TypeOK, Link!LinkTypeOK
<1>14. BodiesInv'
  BY <1>3, <1>10, <1>11, <1>12 DEF BodiesInv, Said1
<1>15. LoginsInv'
  <2>1. ASSUME NEW d \in Device PROVE LoginsOf(d)' \subseteq LoginsOf(d)
    <3>1. LoginsIn(answers', d) \subseteq LoginsIn(answers, d)
      BY <1>6, ShrunkQueues
    <3>2. LoginIn(call', d) \subseteq LoginsIn(answers, d)
      BY <1>1, <1>3, <1>4, <1>10, FirstAnswer DEF LoginIn, IsLogin
    <3>. QED  BY <1>3, <1>10, <3>1, <3>2 DEF LoginsOf
  <2>. QED  BY <1>3, <2>1, LoginsKept DEF IInv
<1>16. ASSUME NEW d \in Device PROVE (Known(d) /\ Tiers(d) /\ InOrder(d))'
  <2>1. Known(d) /\ Tiers(d) /\ InOrder(d)
    BY DEF IInv, KeysInv
  <2>2. Brought(d)' = KeyIn(a, d) /\ Begun(d)' = {} /\ Stored(d)' = Stored(d)
    BY <1>3, <1>10 DEF Brought, KeyIn, IsKey, Stored
  <2>3. /\ KeysIn(answers', d) \subseteq KeysIn(answers, d) /\ KeysAscend(answers', d)
        /\ SentIn(requests', d) \subseteq SentIn(requests, d) /\ SentAscend(requests', d)
    BY <1>6, ShrunkQueues
  <2>4. KeysIn(answers', d) \subseteq KeysIn(Tail(answers), d)
    BY <1>5, <1>6, <1>8, ShiftAnswers DEF Shrunk
  <2>5. KeyIn(a, d) \subseteq KeysIn(answers, d) /\ Below(KeyIn(a, d), KeysIn(answers', d))
    <3>1. IsKey(a, d) => /\ a.said.data[1] \in KeysIn(answers, d)
                         /\ Below({a.said.data[1]}, KeysIn(Tail(answers), d))
      BY <1>1, <1>3, <1>4, <2>1, FirstAnswer DEF InOrder
    <3>. QED  BY <2>4, <3>1 DEF KeyIn, Below
  <2>6. Known(d)'
    BY <1>3, <2>1, <2>2, <2>3, <2>5 DEF Known
  <2>7. Tiers(d)'
    BY <1>3, <2>1, <2>2, <2>3, <2>5 DEF Tiers, InTiers, Below, Before
  <2>8. InOrder(d)'
    BY <1>3, <1>10, <2>1, <2>3 DEF InOrder
  <2>. QED  BY <2>6, <2>7, <2>8
<1>17. SuppliedInv'
  BY <1>3, SuppliedKept DEF IInv
<1>. QED  BY <1>13, <1>14, <1>15, <1>16, <1>17 DEF IInv, KeysInv

LEMMA LinkStepInv ==
    ASSUME IInv, LinkStep
    PROVE  IInv'
<1>1. UNCHANGED <<tokenVars, userVars>>
  BY DEF LinkStep
<1>. QED  BY <1>1, SendInv, TakeInv, FailInv DEF LinkStep

--------------------------------------------------------------------------------
(* The calls of the user. *)

\* A call that supplies no keys.
LEMMA AsksNothingInv ==
    ASSUME IInv, NEW fun \in Fun, NEW ask \in Ask, SendRec(fun, ask), UNCHANGED userVars,
           fun # "update", Asks([fun |-> fun, ask |-> ask], had)
    PROVE  IInv'
<1>1. /\ UNCHANGED <<shock, login, key, had, acked>> /\ supplied' = supplied
      /\ supplied' \in [Device -> SUBSET Nat] /\ SuppliedInv'
  BY Types, SuppliedKept DEF userVars, IInv
<1>. QED  BY <1>1, BeginInv

LEMMA InitHeads ==
    ASSUME TypeOK, NEW d \in Device, NEW under \in Nat, NEW data \in Seq(Nat)
    PROVE  /\ InitHead(d, under, data) \in Ask
           /\ InitHead(d, under, data).device = d /\ InitHead(d, under, data).data = data
  BY DEF InitHead, Ask, Login, Data

\* A call whose message carries nothing, or nothing of importance.
LEMMA AsksPlainInv ==
    ASSUME IInv, NEW d \in Device, NEW under \in Nat, NEW data \in Seq(Nat),
           NEW fun \in Fun \ {"ack", "delete", "update"},
           SendRec(fun, InitHead(d, under, data)), UNCHANGED userVars
    PROVE  IInv'
<1>1. InitHead(d, under, data) \in Ask /\ fun \in Fun /\ fun # "update"
  BY InitHeads DEF IInv
<1>2. Asks([fun |-> fun, ask |-> InitHead(d, under, data)], had)
  BY DEF Asks
<1>. QED  BY <1>1, <1>2, AsksNothingInv

LEMMA PlainCallsInv ==
    ASSUME IInv, NEW d \in Device,
           \/ LoginShock(d) \/ LoginResponse(d) \/ GetUserName(d) \/ GetFileKeys(d)
           \/ DecryptFileKey(d) \/ GetFileKeysNumber(d) \/ ModifyPinCode(d) \/ SetUserName(d)
    PROVE  IInv'
<1>1. login[d] \in Nat /\ shock[d] \in Nat /\ key[d] \in Nat
  BY Types DEF IInv
<1>2. NoData \in Seq(Nat) /\ <<shock[d]>> \in Seq(Nat) /\ <<key[d]>> \in Seq(Nat)
  BY <1>1 DEF NoData
<1>3. {"shock", "response", "getname", "get", "decrypt", "number", "modifypin", "setname"}
        \subseteq Fun \ {"ack", "delete", "update"}
  BY DEF Fun
<1>4. CASE LoginShock(d)
  BY <1>2, <1>3, <1>4, AsksPlainInv DEF LoginShock
<1>5. CASE LoginResponse(d)
  BY <1>2, <1>3, <1>5, AsksPlainInv DEF LoginResponse
<1>6. CASE GetUserName(d)
  BY <1>2, <1>3, <1>6, AsksPlainInv DEF GetUserName
<1>7. CASE GetFileKeys(d)
  BY <1>1, <1>2, <1>3, <1>7, AsksPlainInv DEF GetFileKeys, SendRecEncrypted
<1>8. CASE DecryptFileKey(d)
  BY <1>1, <1>2, <1>3, <1>8, AsksPlainInv DEF DecryptFileKey, SendRecEncrypted
<1>9. CASE GetFileKeysNumber(d)
  BY <1>1, <1>2, <1>3, <1>9, AsksPlainInv DEF GetFileKeysNumber, SendRecEncrypted
<1>10. CASE ModifyPinCode(d)
  BY <1>1, <1>2, <1>3, <1>10, AsksPlainInv DEF ModifyPinCode, SendRecEncrypted
<1>11. CASE SetUserName(d)
  BY <1>1, <1>2, <1>3, <1>11, AsksPlainInv DEF SetUserName, SendRecEncrypted
<1>. QED  BY <1>4, <1>5, <1>6, <1>7, <1>8, <1>9, <1>10, <1>11

LEMMA AckInv ==
    ASSUME IInv, NEW d \in Device, key[d] # 0, GetFileKeysAck(d)
    PROVE  IInv'
<1>1. PICK ask : ask = InitHead(d, login[d], <<key[d]>>)
  OBVIOUS
<1>2. login[d] \in Nat /\ key[d] \in Nat /\ key[d] \in had[d]
  BY Types DEF IInv, KeysInv, Known
<1>3. <<key[d]>> \in Seq(Nat) /\ Len(<<key[d]>>) = 1 /\ <<key[d]>>[1] = key[d]
  BY <1>2
<1>4. ask \in Ask /\ ask.device = d /\ ask.data = <<key[d]>>
  BY ZenonT(30), <1>1, <1>2, <1>3, InitHeads DEF IInv
<1>5. Asks([fun |-> "ack", ask |-> ask], had)
  BY <1>2, <1>3, <1>4 DEF Asks
<1>6. SendRec("ack", ask) /\ UNCHANGED userVars
  BY <1>1 DEF GetFileKeysAck, SendRecEncrypted
<1>7. "ack" \in Fun
  BY DEF Fun
<1>. QED  BY <1>4, <1>5, <1>6, <1>7, AsksNothingInv

LEMMA DeleteInv ==
    ASSUME IInv, NEW d \in Device, NEW n \in Count, DeleteFileKey(d, n)
    PROVE  IInv'
<1>1. PICK ask : ask = InitHead(d, login[d], <<n>>)
  OBVIOUS
<1>2. login[d] \in Nat /\ n \in Nat
  BY Types, FileKeysAssumption DEF IInv
<1>3. <<n>> \in Seq(Nat) /\ Len(<<n>>) = 1
  BY <1>2
<1>4. ask \in Ask /\ ask.data = <<n>>
  BY ZenonT(30), <1>1, <1>2, <1>3, InitHeads DEF IInv
<1>5. Asks([fun |-> "delete", ask |-> ask], had)
  BY <1>3, <1>4 DEF Asks
<1>6. SendRec("delete", ask) /\ UNCHANGED userVars
  BY <1>1 DEF DeleteFileKey, SendRecEncrypted
<1>7. "delete" \in Fun
  BY DEF Fun
<1>. QED  BY <1>4, <1>5, <1>6, <1>7, AsksNothingInv

\* The next keys come after all that have been supplied.
LEMMA FreshKeys ==
    ASSUME IInv, NEW n \in Nat
    PROVE  /\ Used \in Nat /\ UNION {supplied[d] : d \in Device} = 1..Used
           /\ Fresh(n) \in Seq(Nat) /\ Len(Fresh(n)) = n
           /\ \A i \in 1..n : Fresh(n)[i] = Used + i
<1>1. PICK m \in Nat : UNION {supplied[d] : d \in Device} = 1..m
  BY DEF IInv, SuppliedInv
<1>2. Used = m
  <2>1. 1 \in Int /\ m \in Int
    BY <1>1
  <2>2. Cardinality(1..m) = IF 1 > m THEN 0 ELSE m - 1 + 1
    BY <2>1, FS_Interval
  <2>3. Cardinality(1..m) = m
    BY <2>2
  <2>. QED  BY <1>1, <2>3 DEF Used
<1>3. Fresh(n) \in [1..n -> Nat] /\ \A i \in 1..n : Fresh(n)[i] = Used + i
  BY <1>2 DEF Fresh
<1>. HIDE DEF Fresh
<1>4. Fresh(n) \in Seq(Nat) /\ Len(Fresh(n)) = n
  BY <1>3
<1>. QED  BY <1>1, <1>2, <1>3, <1>4

LEMMA UpdateInv ==
    ASSUME IInv, NEW d \in Device, NEW n \in Nat, UpdateFileKeys(d, Fresh(n))
    PROVE  IInv'
<1>1. PICK keys : keys = Fresh(n)
  OBVIOUS
<1>2. PICK used \in Nat : /\ used = Used /\ UNION {supplied[e] : e \in Device} = 1..used
                          /\ keys \in Seq(Nat) /\ Len(keys) = n
                          /\ \A i \in 1..n : keys[i] = used + i
  BY <1>1, FreshKeys
<1>3. PICK ask : ask = InitHead(d, login[d], keys)
  OBVIOUS
<1>4. /\ 0 < Len(keys) /\ Len(keys) <= 2 /\ SendRec("update", ask)
      /\ supplied' = [supplied EXCEPT ![d] = @ \cup Elements(keys)]
      /\ UNCHANGED <<shock, login, key, had, acked>>
  BY <1>1, <1>3 DEF UpdateFileKeys, SendRecEncrypted, Supplies, Elements
<1>5. ask \in Ask /\ ask.device = d /\ ask.data = keys
  BY SMTT(30), <1>2, <1>3, InitHeads, Types DEF IInv
<1>6. Asks([fun |-> "update", ask |-> ask], had)
  <2>1. Len(ask.data) \in 1..2
    BY <1>2, <1>4, <1>5
  <2>. QED  BY <2>1 DEF Asks
<1>7. Elements(keys) = (used + 1)..(used + n) /\ Ascending(keys)
  BY <1>2 DEF Elements, Ascending
<1>8. supplied \in [Device -> SUBSET Nat]
  BY Types DEF IInv
<1>9. /\ supplied' \in [Device -> SUBSET Nat]
      /\ \A e \in Device : supplied[e] \subseteq supplied'[e]
      /\ Elements(keys) \subseteq supplied'[d]
      /\ \A e \in Device : supplied'[e] \subseteq supplied[e] \cup Elements(keys)
  BY <1>2, <1>4, <1>7, <1>8
<1>10. SuppliedInv'
  <2>1. UNION {supplied'[e] : e \in Device} = 1..used \cup Elements(keys)
    BY <1>2, <1>9
  <2>2. 1..used \cup Elements(keys) = 1..(used + n)
    BY <1>2, <1>7
  <2>. QED  BY <1>2, <2>1, <2>2 DEF SuppliedInv
<1>11. \A x \in Elements(keys) : 0 < x /\ \A e \in Device : \A y \in supplied[e] : y < x
  <2>1. \A e \in Device : \A y \in supplied[e] : y \in 1..used
    BY <1>2
  <2>. QED  BY <1>2, <1>7, <2>1
<1>12. "update" \in Fun
  BY DEF Fun
<1>. QED  BY <1>4, <1>5, <1>6, <1>7, <1>9, <1>10, <1>11, <1>12, BeginInv

LEMMA CallsInv ==
    ASSUME IInv, NEW d \in Device, Calls(d)
    PROVE  IInv' /\ key' = key
<1>1. key' = key
  BY DEF Calls, LoginShock, LoginResponse, GetUserName, GetFileKeys, GetFileKeysAck,
         DecryptFileKey, GetFileKeysNumber, ModifyPinCode, SetUserName, UpdateFileKeys,
         DeleteFileKey, Supplies, userVars
<1>2. Count \subseteq Nat
  BY FileKeysAssumption
<1>. QED  BY <1>1, <1>2, PlainCallsInv, AckInv, DeleteInv, UpdateInv DEF Calls

--------------------------------------------------------------------------------
(* What the calls give their user. *)

\* The call that ends with an answer its user accepts has brought what that says.
LEMMA Brings ==
    ASSUME IInv, call # None, call.fun \in {"shock", "response", "get"},
           Accepts(call.said) \/ Decrypts(call.said)
    PROVE  /\ call.ask.device \in Device /\ Head(call.said.data) \in Nat
           /\ call.fun # "get" => Head(call.said.data) \in LoginsOf(call.ask.device)
           /\ call.fun = "get" => Head(call.said.data) \in Brought(call.ask.device)
<1>1. call \in Link!OpenCall /\ call.ask.device \in Device
  BY Types, Records DEF IInv
<1>2. call.said \in Ask /\ call.said.device = call.ask.device
  BY DEF Accepts, Decrypts, CheckHead, CheckDevId
<1>3. Len(call.said.data) = 1 /\ call.said.data \in Seq(Nat)
  BY <1>2, Records DEF IInv, BodiesInv, Said1
<1>4. Head(call.said.data) = call.said.data[1] /\ call.said.data[1] \in Nat
  BY <1>3
<1>5. call.fun # "get" => call.said.data[1] \in LoginIn(call, call.ask.device)
  BY <1>2 DEF LoginIn, IsLogin
<1>6. call.fun = "get" => call.said.data[1] \in KeyIn(call, call.ask.device)
  BY <1>2 DEF KeyIn, IsKey
<1>. QED  BY <1>1, <1>4, <1>5, <1>6 DEF LoginsOf, Brought

LEMMA GotShockInv ==
    ASSUME IInv, GotShock
    PROVE  IInv' /\ \A d \in Device : key[d] <= key'[d]
<1>1. call # None /\ call.fun = "shock" /\ Returns /\ UNCHANGED <<login, key, had, acked>>
  BY DEF GotShock
<1>2. shock' = shock \/ (/\ Accepts(call.said)
                         /\ shock' = [shock EXCEPT ![call.ask.device] = Head(call.said.data)])
  BY DEF GotShock
<1>3. shock' \in [Device -> Nat] /\ \A d \in Device : shock'[d] \in LoginsOf(d)
  BY <1>1, <1>2, Brings, Types DEF IInv, LoginsOf
<1>4. /\ login' \in [Device -> Nat] /\ key' \in [Device -> Nat]
      /\ acked' \in [Device -> SUBSET Nat]
      /\ had' \in [Device -> SUBSET Nat] /\ key' = key /\ had' = had
      /\ \A d \in Device : login'[d] \in LoginsOf(d)
  BY <1>1, Types DEF IInv, LoginsOf
<1>. QED  BY <1>1, <1>3, <1>4, ReturnsInv

LEMMA GotLoginInv ==
    ASSUME IInv, GotLogin
    PROVE  IInv' /\ \A d \in Device : key[d] <= key'[d]
<1>1. call # None /\ call.fun = "response" /\ Returns /\ UNCHANGED <<shock, key, had, acked>>
  BY DEF GotLogin
<1>2. login' = login \/ (/\ Accepts(call.said)
                         /\ login' = [login EXCEPT ![call.ask.device] = Head(call.said.data)])
  BY DEF GotLogin
<1>3. login' \in [Device -> Nat] /\ \A d \in Device : login'[d] \in LoginsOf(d)
  BY <1>1, <1>2, Brings, Types DEF IInv, LoginsOf
<1>4. /\ shock' \in [Device -> Nat] /\ key' \in [Device -> Nat]
      /\ acked' \in [Device -> SUBSET Nat]
      /\ had' \in [Device -> SUBSET Nat] /\ key' = key /\ had' = had
      /\ \A d \in Device : shock'[d] \in LoginsOf(d)
  BY <1>1, Types DEF IInv, LoginsOf
<1>. QED  BY <1>1, <1>3, <1>4, ReturnsInv

LEMMA GotFileKeyInv ==
    ASSUME IInv, GotFileKey
    PROVE  IInv' /\ \A d \in Device : key[d] <= key'[d]
<1>1. call # None /\ call.fun = "get" /\ Returns /\ UNCHANGED <<shock, login, acked>>
  BY DEF GotFileKey
<1>2. PICK k : k = Head(call.said.data)
  OBVIOUS
<1>3. PICK e : e = call.ask.device
  OBVIOUS
<1>4. \/ key' = key /\ had' = had
      \/ /\ Decrypts(call.said)
         /\ key' = [key EXCEPT ![e] = k] /\ had' = [had EXCEPT ![e] = @ \cup {k}]
  BY <1>2, <1>3 DEF GotFileKey
<1>5. Decrypts(call.said) => e \in Device /\ k \in Nat /\ k \in Brought(e)
  BY <1>1, <1>2, <1>3, Brings
<1>6. key \in [Device -> Nat] /\ had \in [Device -> SUBSET Nat]
  BY Types DEF IInv
<1>7. key' \in [Device -> Nat] /\ had' \in [Device -> SUBSET Nat]
  BY <1>4, <1>5, <1>6
<1>8. \A d \in Device : \/ key'[d] = key[d] /\ had'[d] = had[d]
                        \/ key'[d] \in Brought(d) /\ had'[d] = had[d] \cup {key'[d]}
  BY <1>4, <1>5, <1>6
<1>9. /\ shock' \in [Device -> Nat] /\ login' \in [Device -> Nat]
      /\ acked' \in [Device -> SUBSET Nat]
      /\ \A d \in Device : shock'[d] \in LoginsOf(d) /\ login'[d] \in LoginsOf(d)
  BY <1>1, Types DEF IInv, LoginsOf
<1>. QED  BY <1>1, <1>7, <1>8, <1>9, ReturnsInv

LEMMA GivesInv ==
    ASSUME IInv, NEW fun, Gives(fun)
    PROVE  IInv' /\ \A d \in Device : key[d] <= key'[d]
<1>1. Returns /\ shock' = shock /\ login' = login /\ key' = key /\ had' = had
      /\ acked' = acked
  BY DEF Gives
<1>2. /\ shock' \in [Device -> Nat] /\ login' \in [Device -> Nat]
      /\ acked' \in [Device -> SUBSET Nat]
      /\ key' \in [Device -> Nat] /\ had' \in [Device -> SUBSET Nat]
      /\ \A d \in Device : shock'[d] \in LoginsOf(d) /\ login'[d] \in LoginsOf(d)
  BY <1>1, Types DEF IInv, LoginsOf
<1>. QED  BY <1>1, <1>2, ReturnsInv

LEMMA GotAckInv ==
    ASSUME IInv, GotAck
    PROVE  IInv' /\ \A d \in Device : key[d] <= key'[d]
<1>1. /\ call # None /\ call.fun = "ack" /\ Returns
      /\ shock' = shock /\ login' = login /\ key' = key /\ had' = had
  BY DEF GotAck
<1>2. acked' \in [Device -> SUBSET Nat]
  <2>1. call.ask.device \in Device /\ call.ask.data \in Seq(Nat) /\ Len(call.ask.data) = 1
    BY <1>1, Types, Records DEF IInv, BodiesInv, Asks
  <2>2. Head(call.ask.data) \in Nat
    BY <2>1
  <2>3. PICK e \in Device, k \in Nat : e = call.ask.device /\ k = Head(call.ask.data)
    BY <2>1, <2>2
  <2>4. acked' = acked \/ acked' = [acked EXCEPT ![e] = @ \cup {k}]
    BY <2>3 DEF GotAck, Acknowledged
  <2>. QED  BY <2>4, Types DEF IInv
<1>3. /\ shock' \in [Device -> Nat] /\ login' \in [Device -> Nat]
      /\ key' \in [Device -> Nat] /\ had' \in [Device -> SUBSET Nat]
      /\ \A d \in Device : shock'[d] \in LoginsOf(d) /\ login'[d] \in LoginsOf(d)
  BY <1>1, Types DEF IInv, LoginsOf
<1>. QED  BY <1>1, <1>2, <1>3, ReturnsInv

LEMMA InitInv == Init => IInv
<1>. SUFFICES ASSUME Init PROVE IInv
  OBVIOUS
<1>1. /\ call = None /\ requests = <<>> /\ answers = <<>> /\ place \in Device /\ made = 0
      /\ token = [d \in Device |-> [shock |-> 0, login |-> 0, keys |-> <<>>]]
      /\ supplied = [d \in Device |-> {}] /\ shock = [d \in Device |-> 0]
      /\ login = [d \in Device |-> 0] /\ key = [d \in Device |-> 0]
      /\ had = [d \in Device |-> {}] /\ acked = [d \in Device |-> {}]
  BY DEF Init, Link!LinkInit
<1>2. TypeOK
  BY <1>1 DEF TypeOK, Link!LinkTypeOK, Login, Key
<1>3. BodiesInv
  BY <1>1 DEF BodiesInv, SaidIn, AskedIn
<1>4. LoginsInv
  <2>1. \A d \in Device : LoginsOf(d) \subseteq {0}
    BY <1>1 DEF LoginsOf, LoginsIn
  <2>. QED  BY <1>1, <2>1 DEF LoginsInv
<1>5. ASSUME NEW d \in Device PROVE Known(d) /\ Tiers(d) /\ InOrder(d)
  <2>1. /\ Brought(d) = {} /\ KeysIn(answers, d) = {} /\ Stored(d) = {}
        /\ SentIn(requests, d) = {} /\ Begun(d) = {}
    BY <1>1 DEF Brought, KeysIn, Stored, Elements, SentIn, Begun
  <2>2. Known(d)
    BY <1>1, <2>1 DEF Known
  <2>3. Tiers(d)
    BY <2>1 DEF Tiers, InTiers, Below, Before
  <2>4. InOrder(d)
    BY <1>1 DEF InOrder, KeysAscend, Ascending, SentAscend
  <2>. QED  BY <2>2, <2>3, <2>4
<1>6. SuppliedInv
  <2>1. UNION {supplied[d] : d \in Device} = 1..0
    BY <1>1
  <2>. QED  BY <2>1 DEF SuppliedInv
<1>. QED  BY <1>2, <1>3, <1>4, <1>5, <1>6 DEF IInv, KeysInv

LEMMA NextInv == IInv /\ [Next]_vars => IInv' /\ \A d \in Device : key[d] <= key'[d]
<1>. SUFFICES ASSUME IInv, [Next]_vars PROVE IInv' /\ \A d \in Device : key[d] <= key'[d]
  OBVIOUS
<1>1. key' = key => \A d \in Device : key[d] <= key'[d]
  BY Types DEF IInv
<1>2. CASE \E d \in Device : Calls(d)
  BY <1>1, <1>2, CallsInv
<1>3. CASE GotShock
  BY <1>3, GotShockInv
<1>4. CASE GotLogin
  BY <1>4, GotLoginInv
<1>5. CASE GotFileKey
  BY <1>5, GotFileKeyInv
<1>5a. CASE GotAck
  BY <1>5a, GotAckInv
<1>6. CASE GotUserName \/ GotFileKeysNumber \/ GotDecryptedKey \/ GotReply
  BY <1>6, GivesInv DEF GotUserName, GotFileKeysNumber, GotDecryptedKey, GotReply
<1>7. CASE TokenStep
  BY <1>1, <1>7, TokenStepInv DEF TokenStep, userVars
<1>8. CASE Unplugged
  BY <1>1, <1>8, UnpluggedInv DEF Unplugged, userVars
<1>9. CASE Plugged
  BY <1>1, <1>9, PluggedInv DEF Plugged, userVars
<1>10. CASE LinkStep
  BY <1>1, <1>10, LinkStepInv DEF LinkStep, userVars
<1>11. CASE UNCHANGED vars
  <2>1. /\ call' = call /\ requests' = requests /\ answers' = answers /\ place' = place
        /\ token' = token /\ UNCHANGED <<made, userVars>> /\ key' = key
    BY <1>11 DEF vars, linkVars, tokenVars, userVars
  <2>2. Shrunk
    BY <2>1, Types, ShiftNot DEF IInv, Shrunk
  <2>. QED  BY <1>1, <2>1, <2>2, Types, ShrunkInv DEF IInv
<1>. QED  BY <1>2, <1>3, <1>4, <1>5, <1>5a, <1>6, <1>7, <1>8, <1>9, <1>10, <1>11 DEF Next

LEMMA Inductive == Spec => []IInv
<1>1. IInv /\ [Next]_vars => IInv'
  BY NextInv
<1>. QED  BY <1>1, InitInv, PTL DEF Spec

--------------------------------------------------------------------------------
(* The keys of one token, while it is the only one whose keys its user has had. *)
(* What is acknowledged is no longer anywhere on its way to a user: when the    *)
(* token drops a key, that is the key its user has, or will have when it has    *)
(* read the answers that come before; so it is when the acknowledgement is read. *)

\* Keys that are stored or may still be.
Live(d) == Stored(d) \cup SentIn(requests, d) \cup Begun(d)

IsAck(r) == r.fun = "ack" /\ r.ok

KeysBefore(s, n, d) == {s[i].said.data[1] : i \in {j \in 1..n - 1 : IsKey(s[j], d)}}

\* Acknowledgements that wait come after keys that are not live.
AcksAfter(s, X, L, d) ==
    \A n \in 1..Len(s) : IsAck(s[n]) => (X \cup KeysBefore(s, n, d)) \cap L = {}

Settled(d) ==
    /\ acked[d] \subseteq had[d]
    /\ Below(had[d], {key[d]})
    /\ acked[d] \cap Live(d) = {}
    /\ call # None /\ call.fun = "ack" =>
          /\ call.ask.data = <<key[call.ask.device]>>
          /\ call.state = "SUCCESS" => key[d] \notin Live(d)
    /\ AcksAfter(answers, {key[d]} \cup Brought(d), Live(d), d)

LEMMA ShiftAcks ==
    ASSUME NEW s \in Seq(Link!Reply), NEW t \in Seq(Link!Reply), Shift(s, t),
           NEW X, NEW Y \in SUBSET X, NEW L, NEW d, AcksAfter(s, X, L, d)
    PROVE  AcksAfter(t, Y, L, d)
<1>1. PICK k \in Nat : Len(t) + k <= Len(s) /\ \A i \in 1..Len(t) : t[i] = s[i + k]
  BY DEF Shift
<1>. SUFFICES ASSUME NEW n \in 1..Len(t), IsAck(t[n])
              PROVE  (Y \cup KeysBefore(t, n, d)) \cap L = {}
  BY DEF AcksAfter
<1>2. n + k \in 1..Len(s) /\ t[n] = s[n + k]
  BY <1>1
<1>3. KeysBefore(t, n, d) \subseteq KeysBefore(s, n + k, d)
  <2>1. \A i \in 1..n - 1 : i + k \in 1..(n + k) - 1 /\ t[i] = s[i + k]
    BY <1>1
  <2>. QED  BY <2>1 DEF KeysBefore
<1>4. (X \cup KeysBefore(s, n + k, d)) \cap L = {}
  BY <1>2 DEF AcksAfter
<1>. QED  BY <1>3, <1>4

\* The first answer is taken.
LEMMA TailAcks ==
    ASSUME NEW s \in Seq(Link!Reply), s # <<>>, NEW X, NEW L, NEW d, AcksAfter(s, X, L, d),
           NEW Y \in SUBSET (X \cup KeyIn(Head(s), d))
    PROVE  /\ AcksAfter(Tail(s), Y, L, d)
           /\ IsAck(Head(s)) => X \cap L = {}
<1>1. /\ Head(s) = s[1] /\ Len(s) \in Nat \ {0} /\ 1 \in 1..Len(s)
      /\ Len(Tail(s)) = Len(s) - 1
      /\ \A i \in 1..Len(Tail(s)) : Tail(s)[i] = s[i + 1]
  BY HeadTailProperties, EmptySeq
<1>2. IsAck(Head(s)) => X \cap L = {}
  BY <1>1 DEF AcksAfter
<1>3. ASSUME NEW n \in 1..Len(Tail(s)), IsAck(Tail(s)[n])
      PROVE  (Y \cup KeysBefore(Tail(s), n, d)) \cap L = {}
  <2>1. n + 1 \in 1..Len(s) /\ Tail(s)[n] = s[n + 1] /\ 1 \in 1..(n + 1) - 1
    BY <1>1
  <2>2. KeysBefore(Tail(s), n, d) \subseteq KeysBefore(s, n + 1, d)
    <3>1. \A i \in 1..n - 1 : i + 1 \in 1..(n + 1) - 1 /\ Tail(s)[i] = s[i + 1]
      BY <1>1
    <3>. QED  BY <3>1 DEF KeysBefore
  <2>3. KeyIn(Head(s), d) \subseteq KeysBefore(s, n + 1, d)
    BY <1>1, <2>1 DEF KeyIn, KeysBefore
  <2>4. (X \cup KeysBefore(s, n + 1, d)) \cap L = {}
    BY <1>3, <2>1 DEF AcksAfter
  <2>. QED  BY <2>2, <2>3, <2>4
<1>. QED  BY <1>2, <1>3 DEF AcksAfter

LEMMA AddAck ==
    ASSUME NEW s \in Seq(Link!Reply), NEW r \in Link!Reply, NEW X, NEW L, NEW d,
           AcksAfter(s, X, L, d), IsAck(r) => (X \cup KeysIn(s, d)) \cap L = {}
    PROVE  AcksAfter(Append(s, r), X, L, d)
<1>. DEFINE t == Append(s, r)
<1>1. /\ Len(t) = Len(s) + 1 /\ Len(s) \in Nat
      /\ \A i \in 1..Len(s) : t[i] = s[i]
      /\ t[Len(s) + 1] = r
  BY AppendProperties, LenProperties
<1>. HIDE DEF t
<1>. SUFFICES ASSUME NEW n \in 1..Len(t), IsAck(t[n])
              PROVE  (X \cup KeysBefore(t, n, d)) \cap L = {}
  BY DEF AcksAfter, t
<1>2. \A i \in 1..n - 1 : i \in 1..Len(s) /\ t[i] = s[i]
  BY <1>1
<1>3. KeysBefore(t, n, d) \subseteq KeysBefore(s, n, d) /\ KeysBefore(t, n, d) \subseteq KeysIn(s, d)
  BY <1>2 DEF KeysBefore, KeysIn
<1>4. CASE n \in 1..Len(s) /\ t[n] = s[n]
  <2>1. (X \cup KeysBefore(s, n, d)) \cap L = {}
    BY <1>4 DEF AcksAfter
  <2>. QED  BY <1>3, <2>1
<1>5. CASE t[n] = r
  BY <1>3, <1>5
<1>. QED  BY <1>1, <1>4, <1>5

\* Keys that become live are none of those before.
LEMMA FreshAcks ==
    ASSUME NEW s \in Seq(Link!Reply), NEW X, NEW L, NEW M, NEW d, AcksAfter(s, X, L, d),
           M \cap (X \cup KeysIn(s, d)) \subseteq L
    PROVE  AcksAfter(s, X, M, d)
<1>. SUFFICES ASSUME NEW n \in 1..Len(s), IsAck(s[n])
              PROVE  (X \cup KeysBefore(s, n, d)) \cap M = {}
  BY DEF AcksAfter
<1>1. \A i \in 1..n - 1 : i \in 1..Len(s)
  OBVIOUS
<1>2. KeysBefore(s, n, d) \subseteq KeysIn(s, d)
  BY <1>1 DEF KeysBefore, KeysIn
<1>3. (X \cup KeysBefore(s, n, d)) \cap L = {}
  BY DEF AcksAfter
<1>. QED  BY <1>2, <1>3

\* A step that takes nothing from the queues but lets keys become live that are
\* new, or cease to be.
LEMMA Settles ==
    ASSUME IInv, NEW d \in Device, Settled(d),
           key' = key, had' = had, acked' = acked,
           Live(d)' \cap (supplied[d] \cup {0}) \subseteq Live(d),
           answers' \in Seq(Link!Reply), KeysIn(answers', d) \subseteq supplied[d],
           Brought(d)' \subseteq supplied[d],
           AcksAfter(answers', {key[d]} \cup Brought(d)', Live(d), d),
           call' # None /\ call'.fun = "ack" =>
               /\ call'.ask.data = <<key[call'.ask.device]>>
               /\ call'.state = "SUCCESS" => key[d] \notin Live(d)
    PROVE  Settled(d)'
<1>1. had[d] \subseteq supplied[d] /\ key[d] \in supplied[d] \cup {0}
  BY DEF IInv, KeysInv, Known
<1>2. acked[d] \cap Live(d)' = {}
  BY <1>1 DEF Settled
<1>3. key[d] \in Live(d)' => key[d] \in Live(d)
  BY <1>1
<1>4. AcksAfter(answers', {key[d]} \cup Brought(d)', Live(d)', d)
  <2>1. Live(d)' \cap (({key[d]} \cup Brought(d)') \cup KeysIn(answers', d)) \subseteq Live(d)
    BY <1>1
  <2>. QED  BY <2>1, FreshAcks
<1>5. call' # None /\ call'.fun = "ack" =>
          /\ call'.ask.data = <<key'[call'.ask.device]>>
          /\ call'.state = "SUCCESS" => key'[d] \notin Live(d)'
  BY <1>3
<1>. QED  BY <1>2, <1>4, <1>5 DEF Settled

\* What the calls ask for.
LEMMA CallsAsk ==
    ASSUME NEW e \in Device, Calls(e)
    PROVE  /\ key' = key /\ had' = had /\ acked' = acked
           /\ \E fun, ask :
                /\ SendRec(fun, ask)
                /\ fun = "ack" => ask = InitHead(e, login[e], <<key[e]>>)
                /\ fun = "update" => \E n \in Nat : ask = InitHead(e, login[e], Fresh(n))
<1>1. Count \subseteq Nat
  BY FileKeysAssumption
<1>2. key' = key /\ had' = had /\ acked' = acked
  BY DEF Calls, LoginShock, LoginResponse, GetUserName, GetFileKeys, GetFileKeysAck,
         DecryptFileKey, GetFileKeysNumber, ModifyPinCode, SetUserName, UpdateFileKeys,
         DeleteFileKey, Supplies, userVars
<1>3. \/ \E fun \in {"shock", "response", "getname", "get", "decrypt", "number", "modifypin",
                     "setname", "delete"} : \E ask : SendRec(fun, ask)
      \/ SendRec("ack", InitHead(e, login[e], <<key[e]>>))
      \/ \E n \in Nat : SendRec("update", InitHead(e, login[e], Fresh(n)))
  BY <1>1 DEF Calls, LoginShock, LoginResponse, GetUserName, GetFileKeys, GetFileKeysAck,
              DecryptFileKey, GetFileKeysNumber, ModifyPinCode, SetUserName,
              UpdateFileKeys, DeleteFileKey, SendRecEncrypted
<1>. QED  BY <1>2, <1>3

\* A call begins; the keys it is to supply are new.
LEMMA CallsSettled ==
    ASSUME IInv, NEW d \in Device, Settled(d), NEW e \in Device, Calls(e)
    PROVE  Settled(d)'
<1>1. PICK fun, ask :
        /\ SendRec(fun, ask)
        /\ fun = "ack" => ask = InitHead(e, login[e], <<key[e]>>)
        /\ fun = "update" => \E n \in Nat : ask = InitHead(e, login[e], Fresh(n))
  BY CallsAsk
<1>2. /\ call = None /\ requests' = requests /\ answers' = answers /\ token' = token
      /\ call' = [fun |-> fun, ask |-> ask, said |-> None, state |-> "begun"]
      /\ key' = key /\ had' = had /\ acked' = acked
  BY <1>1, CallsAsk DEF SendRec, Link!Begin, tokenVars
<1>3. /\ call'.fun = fun /\ call'.ask = ask /\ call'.said = None /\ call'.state = "begun"
      /\ Brought(d) = {} /\ Brought(d)' = {} /\ Begun(d) = {}
  BY <1>2, Records DEF Brought, KeyIn, IsKey, Begun
<1>4. Begun(d)' \cap (supplied[d] \cup {0}) = {}
  <2>1. CASE fun # "update"
    BY <1>3, <2>1 DEF Begun, UpdateIn, IsUpdate
  <2>2. CASE fun = "update"
    <3>1. PICK n \in Nat : ask = InitHead(e, login[e], Fresh(n))
      BY <1>1, <2>2
    <3>2. /\ Used \in Nat /\ supplied[d] \subseteq 1..Used
          /\ Len(Fresh(n)) = n /\ \A i \in 1..n : Fresh(n)[i] = Used + i
      BY FreshKeys
    <3>3. ask.data = Fresh(n)
      BY <3>1 DEF InitHead
    <3>4. \A x \in Elements(ask.data) : x \in Nat /\ x > Used
      BY <3>2, <3>3 DEF Elements
    <3>5. Begun(d)' \subseteq Elements(ask.data)
      BY <1>3 DEF Begun, UpdateIn
    <3>. QED  BY <3>2, <3>4, <3>5
  <2>. QED  BY <2>1, <2>2
<1>5. Live(d)' \cap (supplied[d] \cup {0}) \subseteq Live(d)
  BY <1>2, <1>4 DEF Live, Stored
<1>6. answers' \in Seq(Link!Reply) /\ KeysIn(answers', d) \subseteq supplied[d]
  BY <1>2, Types DEF IInv, KeysInv, Known
<1>7. AcksAfter(answers', {key[d]} \cup Brought(d)', Live(d), d)
  BY <1>2, <1>3 DEF Settled
<1>8. fun = "ack" => ask.data = <<key[ask.device]>>
  BY <1>1 DEF InitHead
<1>. QED  BY <1>2, <1>3, <1>5, <1>6, <1>7, <1>8, Settles

\* Queues may be cut, the call may fail, and the token may forget logins.
LEMMA ShrunkSettled ==
    ASSUME IInv, NEW d \in Device, Settled(d), Shrunk,
           key' = key, had' = had, acked' = acked,
           call' = call \/ (call # None /\ call' = [call EXCEPT !.state = "failed"]),
           token'[d].keys = token[d].keys
    PROVE  Settled(d)'
<1>1. /\ call' # None => /\ call # None /\ call'.fun = call.fun /\ call'.ask = call.ask
                         /\ call'.said = call.said
                         /\ call'.state = call.state \/ call'.state = "failed"
      /\ Begun(d)' \subseteq Begun(d)
  <2>1. CASE call' = call
    BY <2>1 DEF Begun
  <2>2. CASE call # None /\ call' = [call EXCEPT !.state = "failed"]
    <3>1. call \in Link!OpenCall
      BY <2>2, Types DEF IInv
    <3>2. call'.fun = call.fun /\ call'.ask = call.ask /\ call'.said = call.said
          /\ call'.state = "failed"
      BY <2>2, <3>1 DEF Link!OpenCall
    <3>. QED  BY <2>2, <3>2 DEF Begun
  <2>. QED  BY <2>1, <2>2
<1>2. Brought(d)' \subseteq Brought(d)
  BY <1>1 DEF Brought, KeyIn, IsKey
<1>3. /\ KeysIn(answers', d) \subseteq KeysIn(answers, d)
      /\ SentIn(requests', d) \subseteq SentIn(requests, d)
  BY ShrunkQueues
<1>4. Live(d)' \cap (supplied[d] \cup {0}) \subseteq Live(d)
  BY <1>1, <1>3 DEF Live, Stored
<1>5. Known(d)
  BY DEF IInv, KeysInv
<1>6. /\ answers' \in Seq(Link!Reply) /\ KeysIn(answers', d) \subseteq supplied[d]
      /\ Brought(d)' \subseteq supplied[d]
  BY <1>2, <1>3, <1>5 DEF Known, Shrunk
<1>7. AcksAfter(answers', {key[d]} \cup Brought(d)', Live(d), d)
  <2>1. {key[d]} \cup Brought(d)' \in SUBSET ({key[d]} \cup Brought(d))
    BY <1>2
  <2>. QED  BY <2>1, ShiftAcks, Types DEF Settled, Shrunk, IInv
<1>8. call' # None /\ call'.fun = "ack" =>
          /\ call'.ask.data = <<key[call'.ask.device]>>
          /\ call'.state = "SUCCESS" => key[d] \notin Live(d)
  BY <1>1 DEF Settled
<1>. QED  BY <1>4, <1>6, <1>7, <1>8, Settles

LEMMA LinkSettled ==
    ASSUME IInv, NEW d \in Device, Settled(d), LinkStep
    PROVE  Settled(d)'
<1>1. token' = token /\ key' = key /\ had' = had /\ acked' = acked
  BY DEF LinkStep, tokenVars, userVars
<1>2. answers \in Seq(Link!Reply) /\ requests \in Seq(Link!Request) /\ Known(d)
  BY Types DEF IInv, KeysInv
<1>3. ASSUME Link!Fail PROVE Settled(d)'
  <2>1. Shrunk
    BY <1>2, <1>3, ShiftNot, LeaveShrinks DEF Link!Fail
  <2>. QED  BY <1>1, <1>3, <2>1, ShrunkSettled DEF Link!Fail
<1>4. ASSUME Link!Send PROVE Settled(d)'
  <2>1. /\ call # None /\ call.state = "begun" /\ call' = [call EXCEPT !.state = "sent"]
        /\ answers' = answers /\ call \in Link!OpenCall
    BY <1>4, Types DEF Link!Send, IInv
  <2>2. /\ call'.fun = call.fun /\ call'.ask = call.ask /\ call'.said = call.said
        /\ call'.state = "sent"
    BY <2>1 DEF Link!OpenCall
  <2>3. Brought(d)' \subseteq Brought(d) /\ Begun(d)' = {} /\ Begun(d) = UpdateIn(call, d)
    BY <2>1, <2>2 DEF Brought, KeyIn, IsKey, Begun
  <2>4. PICK r : r = [fun |-> call.fun, ask |-> call.ask]
    OBVIOUS
  <2>5. r \in Link!Request /\ UpdateIn(r, d) = Begun(d)
    <3>1. r.fun = call.fun /\ r.ask = call.ask
      BY <2>4
    <3>. QED  BY <2>1, <2>3, <2>4, <3>1, Records DEF Link!Request, UpdateIn, IsUpdate
  <2>6. SentIn(requests', d) \subseteq SentIn(requests, d) \cup Begun(d)
    <3>1. requests' = requests \/ requests' = Append(requests, r)
      BY <1>4, <2>4 DEF Link!Send
    <3>2. CASE requests' = Append(requests, r)
      BY <1>2, <2>5, <3>2, AddRequest
    <3>. QED  BY <3>1, <3>2
  <2>7. Live(d)' \cap (supplied[d] \cup {0}) \subseteq Live(d)
    BY <1>1, <2>3, <2>6 DEF Live, Stored
  <2>8. /\ answers' \in Seq(Link!Reply) /\ KeysIn(answers', d) \subseteq supplied[d]
        /\ Brought(d)' \subseteq supplied[d]
    BY <1>2, <2>1, <2>3 DEF Known
  <2>9. AcksAfter(answers', {key[d]} \cup Brought(d)', Live(d), d)
    <3>1. {key[d]} \cup Brought(d)' \in SUBSET ({key[d]} \cup Brought(d)) /\ Shift(answers, answers)
      BY <1>2, <2>3, ShiftNot
    <3>. QED  BY <1>2, <2>1, <3>1, ShiftAcks DEF Settled
  <2>10. call'.fun = "ack" => call'.ask.data = <<key[call'.ask.device]>>
    BY <2>1, <2>2 DEF Settled
  <2>. QED  BY <1>1, <2>2, <2>7, <2>8, <2>9, <2>10, Settles
<1>5. ASSUME Link!Take PROVE Settled(d)'
  <2>1. PICK a : a = Head(answers)
    OBVIOUS
  <2>2. PICK rest : rest = Tail(answers)
    OBVIOUS
  <2>3. /\ call # None /\ answers # <<>> /\ a.fun = call.fun /\ Link!Leave(rest)
        /\ call' = [call EXCEPT !.state = IF a.ok THEN "SUCCESS" ELSE "STATE", !.said = a.said]
        /\ call \in Link!OpenCall
    BY <1>5, <2>1, <2>2, Types DEF Link!Take, IInv
  <2>4. a \in Link!Reply /\ rest \in Seq(Link!Reply) /\ Shift(answers, rest)
    BY <1>2, <2>1, <2>2, <2>3, ShiftOne
  <2>5. /\ call'.fun = a.fun /\ call'.ask = call.ask /\ call'.said = a.said
        /\ call'.fun = call.fun /\ call'.state = "SUCCESS" => a.ok
        /\ call'.state # "begun"
    BY <2>3 DEF Link!OpenCall
  <2>6. Shrunk
    BY <2>3, <2>4, LeaveShrinks
  <2>7. Shift(rest, answers')
    <3>1. PICK n \in 1..Len(rest) + 1 : answers' = SubSeq(rest, n, Len(rest))
      BY <2>3 DEF Link!Leave
    <3>. QED  BY <2>4, <3>1, ShiftSubSeq
  <2>8. Brought(d)' \subseteq KeyIn(a, d) /\ KeyIn(a, d) \subseteq KeysIn(answers, d) /\ Begun(d)' = {}
    <3>1. IsKey(a, d) => a.said.data[1] \in KeysIn(answers, d)
      BY <1>2, <2>1, <2>3, FirstAnswer
    <3>2. Brought(d)' \subseteq KeyIn(a, d)
      BY <2>5 DEF Brought, KeyIn, IsKey
    <3>3. Begun(d)' = {}
      BY <2>5 DEF Begun
    <3>. QED  BY <3>1, <3>2, <3>3 DEF KeyIn
  <2>9. /\ KeysIn(answers', d) \subseteq KeysIn(answers, d)
        /\ SentIn(requests', d) \subseteq SentIn(requests, d)
    BY <2>6, ShrunkQueues
  <2>10. Live(d)' \cap (supplied[d] \cup {0}) \subseteq Live(d)
    BY <1>1, <2>8, <2>9 DEF Live, Stored
  <2>11. /\ answers' \in Seq(Link!Reply) /\ KeysIn(answers', d) \subseteq supplied[d]
         /\ Brought(d)' \subseteq supplied[d]
    BY <1>2, <2>6, <2>8, <2>9 DEF Known, Shrunk
  <2>12. /\ AcksAfter(rest, {key[d]} \cup Brought(d)', Live(d), d)
         /\ IsAck(a) => ({key[d]} \cup Brought(d)) \cap Live(d) = {}
    <3>1. AcksAfter(answers, {key[d]} \cup Brought(d), Live(d), d)
      BY DEF Settled
    <3>2. {key[d]} \cup Brought(d)' \in SUBSET (({key[d]} \cup Brought(d)) \cup KeyIn(a, d))
      BY <2>8
    <3>. QED  BY <1>2, <2>1, <2>2, <2>3, <3>1, <3>2, TailAcks
  <2>13. AcksAfter(answers', {key[d]} \cup Brought(d)', Live(d), d)
    BY <2>4, <2>7, <2>11, <2>12, ShiftAcks
  <2>14. call'.fun = "ack" =>
            /\ call'.ask.data = <<key[call'.ask.device]>>
            /\ call'.state = "SUCCESS" => key[d] \notin Live(d)
    BY <2>3, <2>5, <2>12 DEF Settled, IsAck
  <2>. QED  BY <1>1, <2>10, <2>11, <2>13, <2>14, Settles
<1>. QED  BY <1>3, <1>4, <1>5 DEF LinkStep

\* What a call gives its user: a key it has brought, or that one is acknowledged.
LEMMA ReturnsSettled ==
    ASSUME IInv, IInv', NEW d \in Device, Settled(d), Returns,
           \/ key'[d] = key[d] /\ had'[d] = had[d] /\ acked'[d] = acked[d]
           \/ /\ key'[d] \in Brought(d) /\ had'[d] = had[d] \cup {key'[d]}
              /\ acked'[d] = acked[d]
           \/ /\ key[d] \in had[d] /\ key[d] \notin Live(d)
              /\ key'[d] = key[d] /\ had'[d] = had[d] /\ acked'[d] = acked[d] \cup {key[d]}
    PROVE  Settled(d)'
<1>1. /\ call' = None /\ Link!Leave(answers) /\ token' = token /\ supplied' = supplied
  BY DEF Returns, Link!Return, tokenVars
<1>2. answers \in Seq(Link!Reply) /\ requests \in Seq(Link!Request)
  BY Types DEF IInv
<1>3. Shrunk
  BY <1>1, <1>2, LeaveShrinks, ShiftNot
<1>4. Brought(d)' = {} /\ Begun(d)' = {} /\ Stored(d)' = Stored(d)
  BY <1>1 DEF Brought, Begun, Stored
<1>5. SentIn(requests', d) \subseteq SentIn(requests, d)
  BY <1>3, ShrunkQueues
<1>6. Live(d)' \subseteq Live(d)
  BY <1>4, <1>5 DEF Live
<1>7. acked'[d] \subseteq had'[d]
  BY DEF Settled
<1>8. Below(had'[d], {key'[d]})
  <2>1. key'[d] \in Brought(d) \cup {key[d]}
    OBVIOUS
  <2>2. Tiers(d)
    BY DEF IInv, KeysInv
  <2>3. key[d] <= key'[d]
    BY <2>1, <2>2, TierTypes DEF Tiers, InTiers, Below
  <2>4. /\ had'[d] \subseteq had[d] \cup {key'[d]} /\ had[d] \subseteq Nat
        /\ key[d] \in Nat /\ key'[d] \in Nat
    BY <2>1, TierTypes
  <2>5. \A x \in had[d] : x <= key[d]
    BY DEF Settled, Below
  <2>. QED  BY <2>3, <2>4, <2>5 DEF Below
<1>9. acked'[d] \cap Live(d)' = {}
  BY <1>6 DEF Settled
<1>10. AcksAfter(answers', {key'[d]} \cup Brought(d)', Live(d)', d)
  <2>1. PICK Y : Y = {key'[d]} \cup Brought(d)'
    OBVIOUS
  <2>2. Y \in SUBSET ({key[d]} \cup Brought(d))
    BY <1>4, <2>1
  <2>3. AcksAfter(answers', Y, Live(d), d)
    BY <1>2, <1>3, <2>2, ShiftAcks DEF Settled, Shrunk
  <2>4. Live(d)' \cap (Y \cup KeysIn(answers', d)) \subseteq Live(d)
    BY <1>6
  <2>5. AcksAfter(answers', Y, Live(d)', d)
    BY <1>3, <2>3, <2>4, FreshAcks DEF Shrunk
  <2>. QED  BY <2>1, <2>5
<1>. QED  BY <1>1, <1>7, <1>8, <1>9, <1>10 DEF Settled

LEMMA GotSettled ==
    ASSUME IInv, IInv', NEW d \in Device, Alone(d), Settled(d),
           GotShock \/ GotLogin \/ GotFileKey \/ GotAck
             \/ GotUserName \/ GotFileKeysNumber \/ GotDecryptedKey \/ GotReply
    PROVE  Settled(d)'
<1>1. /\ key \in [Device -> Nat] /\ had \in [Device -> SUBSET Nat]
      /\ acked \in [Device -> SUBSET Nat]
  BY Types DEF IInv
<1>2. CASE GotShock \/ GotLogin \/ GotUserName \/ GotFileKeysNumber \/ GotDecryptedKey \/ GotReply
  <2>1. Returns /\ key' = key /\ had' = had /\ acked' = acked
    BY <1>2 DEF GotShock, GotLogin, GotUserName, GotFileKeysNumber, GotDecryptedKey, GotReply,
                Gives
  <2>. QED  BY <2>1, ReturnsSettled
<1>3. CASE GotFileKey
  <2>1. call # None /\ call.fun = "get" /\ Returns /\ acked' = acked
    BY <1>3 DEF GotFileKey
  <2>2. PICK k : k = Head(call.said.data)
    OBVIOUS
  <2>3. PICK e : e = call.ask.device
    OBVIOUS
  <2>4. \/ key' = key /\ had' = had
        \/ /\ Decrypts(call.said)
           /\ key' = [key EXCEPT ![e] = k] /\ had' = [had EXCEPT ![e] = @ \cup {k}]
    BY <1>3, <2>2, <2>3 DEF GotFileKey
  <2>5. Decrypts(call.said) => e \in Device /\ k \in Brought(e)
    BY <2>1, <2>2, <2>3, Brings
  <2>6. \/ key'[d] = key[d] /\ had'[d] = had[d]
        \/ key'[d] \in Brought(d) /\ had'[d] = had[d] \cup {key'[d]}
    BY <1>1, <2>4, <2>5
  <2>. QED  BY <2>1, <2>6, ReturnsSettled
<1>4. CASE GotAck
  <2>1. /\ call # None /\ call.fun = "ack" /\ Returns /\ key' = key /\ had' = had
    BY <1>4 DEF GotAck
  <2>2. /\ call.ask.data = <<key[call.ask.device]>>
        /\ call.state = "SUCCESS" => key[d] \notin Live(d)
    BY <2>1 DEF Settled
  <2>3. call.ask.device = d /\ call.ask.data[1] \in had[call.ask.device]
    <3>1. call.ask.device \in Device /\ call.ask.data[1] \in had[call.ask.device]
      BY <2>1, Types, Records DEF IInv, BodiesInv, Asks
    <3>. QED  BY <3>1 DEF Alone
  <2>4. PICK k : k = key[d]
    OBVIOUS
  <2>5. k \in had[d] /\ Head(call.ask.data) = k
    BY <2>2, <2>3, <2>4
  <2>6. \/ acked' = acked
        \/ call.state = "SUCCESS" /\ acked' = [acked EXCEPT ![d] = @ \cup {k}]
    BY <1>4, <2>3, <2>5 DEF GotAck, Acknowledged, Worked
  <2>7. \/ acked'[d] = acked[d]
        \/ call.state = "SUCCESS" /\ acked'[d] = acked[d] \cup {k}
    BY <1>1, <2>6
  <2>. QED  BY <2>1, <2>2, <2>4, <2>5, <2>7, ReturnsSettled
<1>. QED  BY <1>2, <1>3, <1>4

--------------------------------------------------------------------------------
(* One token: what it executes. *)

LEMMA ExecuteSettled ==
    ASSUME IInv, NEW d \in Device, Settled(d), requests # <<>>,
           NEW ok \in BOOLEAN, NEW said \in Said, Link!Execute(ok, said), UNCHANGED userVars,
           Stored(d)' \subseteq Stored(d) \cup UpdateIn(Head(requests), d),
           Head(requests).fun = "ack" /\ ok =>
               (({key[d]} \cup Brought(d)) \cup KeysIn(answers, d)) \cap Live(d)' = {}
    PROVE  Settled(d)'
<1>1. PICK r : r = [fun |-> Head(requests).fun, said |-> said, ok |-> ok]
  OBVIOUS
<1>2. /\ call' = call /\ requests' = Tail(requests) /\ answers' = Append(answers, r)
      /\ key' = key /\ had' = had /\ acked' = acked
  BY <1>1 DEF Link!Execute, userVars
<1>3. answers \in Seq(Link!Reply) /\ requests \in Seq(Link!Request)
  BY Types DEF IInv
<1>4. /\ Head(requests) \in Link!Request /\ requests' \in Seq(Link!Request)
      /\ Shift(requests, requests')
  BY <1>2, <1>3, ShiftOne
<1>5. r \in Link!Reply /\ r.fun = Head(requests).fun /\ r.ok = ok
  BY <1>1, <1>4, Records DEF Link!Reply
<1>6. SentIn(requests', d) \subseteq SentIn(requests, d)
      /\ UpdateIn(Head(requests), d) \subseteq SentIn(requests, d)
  BY <1>3, <1>4, ShiftRequests, FirstRequest DEF UpdateIn
<1>7. Brought(d)' = Brought(d) /\ Begun(d)' = Begun(d)
  BY <1>2 DEF Brought, Begun
<1>8. Live(d)' \subseteq Live(d)
  BY <1>6, <1>7 DEF Live
<1>9. AcksAfter(answers', {key[d]} \cup Brought(d), Live(d)', d)
  <2>1. AcksAfter(answers, {key[d]} \cup Brought(d), Live(d)', d)
    <3>1. Live(d)' \cap (({key[d]} \cup Brought(d)) \cup KeysIn(answers, d)) \subseteq Live(d)
      BY <1>8
    <3>. QED  BY <1>3, <3>1, FreshAcks DEF Settled
  <2>2. IsAck(r) => (({key[d]} \cup Brought(d)) \cup KeysIn(answers, d)) \cap Live(d)' = {}
    BY <1>5 DEF IsAck
  <2>. QED  BY <1>2, <1>3, <1>5, <2>1, <2>2, AddAck
<1>. QED  BY <1>2, <1>7, <1>8, <1>9 DEF Settled

\* A request that is not an acknowledgement, or is refused, leaves the keys.
LEMMA SameKeysSettled ==
    ASSUME IInv, NEW d \in Device, Settled(d), requests # <<>>,
           NEW ok \in BOOLEAN, NEW said \in Said, Link!Execute(ok, said), UNCHANGED userVars,
           token'[d].keys = token[d].keys, ~(Head(requests).fun = "ack" /\ ok)
    PROVE  Settled(d)'
<1>1. Stored(d)' = Stored(d)
  BY DEF Stored
<1>. QED  BY <1>1, ExecuteSettled

\* The key the token drops is the only one its user has or may still read of, and
\* it is stored only once.
LEMMA DropsKeySettled ==
    ASSUME IInv, NEW d \in Device, Alone(d), Settled(d), place # None, DropsKey,
           UNCHANGED userVars
    PROVE  Settled(d)'
<1>1. /\ requests # <<>> /\ Head(requests).fun = "ack" /\ Head(requests).ask.device = place
      /\ Self.keys # <<>> /\ Head(requests).ask.data = <<Head(Self.keys)>>
      /\ Becomes([Self EXCEPT !.keys = Tail(@)]) /\ Link!Execute(TRUE, None)
  BY DEF DropsKey, Obeys, Asked
<1>2. place = d /\ Self = token[d]
  <2>1. place \in Device /\ Head(requests).ask.data[1] \in had[place]
    BY <1>1, Plugs, Firsts DEF Asks
  <2>. QED  BY <2>1 DEF Alone, Self
<1>3. PICK s : s = Self.keys
  OBVIOUS
<1>4. s \in Seq(Nat) /\ Ascending(s) /\ Stored(d) = Elements(s) /\ s # <<>>
  BY <1>1, <1>2, <1>3, Plugs
<1>5. PICK k : k = Head(s)
  OBVIOUS
<1>6. Stored(d)' = Elements(Tail(s))
  <2>1. token' = [token EXCEPT ![d] = [token[d] EXCEPT !.keys = Tail(@)]]
    BY <1>1, <1>2 DEF Becomes
  <2>2. token'[d].keys = Tail(s)
    BY <1>2, <1>3, <2>1, Types DEF IInv
  <2>. QED  BY <2>2 DEF Stored
<1>7. /\ k \in Nat /\ k \in Elements(s) /\ k \notin Elements(Tail(s))
      /\ Elements(Tail(s)) \subseteq Elements(s)
  <2>1. /\ k = s[1] /\ Len(s) \in Nat \ {0} /\ 1 \in 1..Len(s) /\ k \in Nat
        /\ Len(Tail(s)) = Len(s) - 1
        /\ \A i \in 1..Len(Tail(s)) : Tail(s)[i] = s[i + 1]
    BY <1>4, <1>5, HeadTailProperties, EmptySeq
  <2>2. \A i \in 1..Len(Tail(s)) : /\ i + 1 \in 1..Len(s) /\ Tail(s)[i] = s[i + 1]
                                   /\ s[1] < s[i + 1]
    BY <1>4, <2>1 DEF Ascending
  <2>3. \A i \in 1..Len(Tail(s)) : Tail(s)[i] # k
    BY <1>4, <2>1, <2>2
  <2>. QED  BY <2>1, <2>2, <2>3 DEF Elements
<1>8. k \in had[d]
  BY <1>1, <1>2, <1>3, <1>5, Firsts DEF Asks
<1>9. Tiers(d)
  BY DEF IInv, KeysInv
<1>10. \A x \in ({key[d]} \cup Brought(d)) \cup KeysIn(answers, d) : x = k
  <2>1. \A x \in ({key[d]} \cup Brought(d)) \cup KeysIn(answers, d) :
          x \in Nat /\ key[d] <= x /\ x <= k
    BY <1>4, <1>7, <1>9, TierTypes DEF Tiers, InTiers, Below
  <2>2. k <= key[d] /\ key[d] \in Nat
    BY <1>8, TierTypes DEF Settled, Below
  <2>. QED  BY <1>7, <2>1, <2>2
<1>11. k \notin Live(d)'
  <2>1. \A x \in SentIn(requests, d) \cup Begun(d) : x # k
    BY <1>4, <1>7, <1>9, TierTypes DEF Tiers, InTiers, Before
  <2>2. SentIn(requests', d) \subseteq SentIn(requests, d) /\ Begun(d)' = Begun(d)
    <3>1. requests \in Seq(Link!Request) /\ requests' = Tail(requests) /\ call' = call
      BY <1>1, Types DEF Link!Execute, IInv
    <3>2. Shift(requests, requests') /\ requests' \in Seq(Link!Request)
      BY <1>1, <3>1, ShiftOne
    <3>. QED  BY <3>1, <3>2, ShiftRequests DEF Begun
  <2>. QED  BY <1>6, <1>7, <2>1, <2>2 DEF Live
<1>12. Stored(d)' \subseteq Stored(d) \cup UpdateIn(Head(requests), d) /\ None \in Said
  BY <1>4, <1>6, <1>7 DEF Said
<1>. QED  BY <1>1, <1>10, <1>11, <1>12, ExecuteSettled

LEMMA StoresKeysSettled ==
    ASSUME IInv, NEW d \in Device, place = d, Settled(d), place # None, StoresKeys,
           UNCHANGED userVars
    PROVE  Settled(d)'
<1>1. /\ requests # <<>> /\ Head(requests).fun = "update" /\ Head(requests).ask.device = place
      /\ Becomes([Self EXCEPT !.keys = @ \o Head(requests).ask.data])
      /\ Link!Execute(TRUE, None)
  BY DEF StoresKeys, Obeys, Asked
<1>2. place = d /\ Self = token[d]
  BY DEF Self
<1>3. PICK s, u : s = Self.keys /\ u = Head(requests).ask.data
  OBVIOUS
<1>4. s \in Seq(Nat) /\ u \in Seq(Nat) /\ Stored(d) = Elements(s)
  BY <1>1, <1>2, <1>3, Plugs, Firsts
<1>5. Stored(d)' = Elements(s \o u)
  <2>1. token' = [token EXCEPT ![d] = [token[d] EXCEPT !.keys = @ \o u]]
    BY <1>1, <1>2, <1>3 DEF Becomes
  <2>2. token'[d].keys = s \o u
    BY <1>2, <1>3, <2>1, Types DEF IInv
  <2>. QED  BY <2>2 DEF Stored
<1>6. UpdateIn(Head(requests), d) = Elements(u)
  BY <1>1, <1>2, <1>3 DEF UpdateIn, IsUpdate
<1>7. Stored(d)' \subseteq Stored(d) \cup UpdateIn(Head(requests), d)
  BY <1>4, <1>5, <1>6, MoreKeys
<1>. QED  BY <1>1, <1>7, ExecuteSettled DEF Said

LEMMA DeletesKeysSettled ==
    ASSUME IInv, NEW d \in Device, place = d, Settled(d), place # None, DeletesKeys,
           UNCHANGED userVars
    PROVE  Settled(d)'
<1>1. PICK m, s : m = Head(Head(requests).ask.data) + 1 /\ s = Self.keys
  OBVIOUS
<1>2. PICK t : t = SubSeq(s, m, Len(s))
  OBVIOUS
<1>3. /\ requests # <<>> /\ Head(requests).fun = "delete"
      /\ Becomes([Self EXCEPT !.keys = t]) /\ Link!Execute(TRUE, None)
  BY <1>1, <1>2 DEF DeletesKeys, Obeys, Asked
<1>4. place = d /\ Self = token[d]
  BY DEF Self
<1>5. s \in Seq(Nat) /\ Stored(d) = Elements(s) /\ m \in Nat \ {0}
  BY <1>1, <1>3, <1>4, Plugs, Firsts DEF Asks
<1>6. Stored(d)' = Elements(t)
  <2>1. token' = [token EXCEPT ![d] = [token[d] EXCEPT !.keys = t]]
    BY <1>3, <1>4 DEF Becomes
  <2>2. token'[d].keys = t
    BY <2>1, Types DEF IInv
  <2>. QED  BY <2>2 DEF Stored
<1>7. Stored(d)' \subseteq Stored(d)
  BY <1>2, <1>5, <1>6, LaterKeys
<1>. QED  BY <1>3, <1>7, ExecuteSettled DEF Said

LEMMA TokenSettled ==
    ASSUME IInv, NEW d \in Device, Alone(d), Settled(d), TokenStep
    PROVE  Settled(d)'
<1>1. place # None /\ place \in Device /\ UNCHANGED userVars
  BY Plugs DEF TokenStep
<1>2. Self = token[place] /\ token \in [Device -> [shock : Nat, login : Nat, keys : Seq(Nat)]]
  BY <1>1, Types DEF Self, IInv
<1>3. None \in Said /\ Malformed \in Said
  BY DEF Said
<1>4. \A data \in Seq(Nat), under \in Nat : InitHead(place, under, data) \in Said
  BY <1>1 DEF InitHead, Said, Ask, Login, Data
<1>5. made \in Nat /\ Self.shock \in Nat /\ Self.login \in Nat /\ Self.keys \in Seq(Nat)
  BY <1>1, <1>2, Types DEF IInv
<1>6. CASE GivesShock
  <2>1. PICK said : said = InitHead(place, 0, <<made + 1>>)
    OBVIOUS
  <2>2. said \in Said
    <3>1. <<made + 1>> \in Seq(Nat) /\ 0 \in Nat
      BY <1>5
    <3>. QED  BY Zenon, <1>4, <2>1, <3>1
  <2>3. /\ requests # <<>> /\ Head(requests).fun = "shock" /\ Link!Execute(TRUE, said)
        /\ token' = [token EXCEPT ![place] = [token[place] EXCEPT !.shock = made + 1]]
    BY <1>2, <1>6, <2>1 DEF GivesShock, Asked, Answers, Becomes
  <2>4. token'[d].keys = token[d].keys
    BY <1>1, <1>2, <2>3
  <2>. QED  BY <1>1, <2>2, <2>3, <2>4, SameKeysSettled
<1>7. CASE GivesLogin
  <2>1. PICK said : said = InitHead(place, 0, <<Self.shock>>)
    OBVIOUS
  <2>2. said \in Said
    <3>1. <<Self.shock>> \in Seq(Nat) /\ 0 \in Nat
      BY <1>5
    <3>. QED  BY Zenon, <1>4, <2>1, <3>1
  <2>3. /\ requests # <<>> /\ Head(requests).fun = "response" /\ Link!Execute(TRUE, said)
        /\ token' = [token EXCEPT ![place] = [token[place] EXCEPT !.login = token[place].shock]]
    BY <1>2, <1>7, <2>1 DEF GivesLogin, Asked, Answers, Becomes
  <2>4. token'[d].keys = token[d].keys
    BY <1>1, <1>2, <2>3
  <2>. QED  BY <1>1, <2>2, <2>3, <2>4, SameKeysSettled
<1>8. CASE GivesKey
  <2>1. PICK said : said = InitHead(place, Self.login, <<Head(Self.keys)>>)
    OBVIOUS
  <2>2. /\ requests # <<>> /\ Head(requests).fun = "get" /\ Link!Execute(TRUE, said)
        /\ token' = token /\ Self.keys # <<>>
    BY <1>8, <2>1 DEF GivesKey, Obeys, Asked, Answers
  <2>3. Head(Self.keys) \in Nat
    BY <1>5, <2>2
  <2>4. said \in Said
    <3>1. <<Head(Self.keys)>> \in Seq(Nat)
      BY <2>3
    <3>. QED  BY Zenon, <1>4, <1>5, <2>1, <3>1
  <2>. QED  BY <1>1, <2>2, <2>4, SameKeysSettled
<1>9. CASE Obliges
  <2>1. requests # <<>> /\ token' = token /\ Head(requests).ask.data \in Seq(Nat)
    BY <1>9, Firsts DEF Obliges, Obeys, Asked
  <2>2. /\ Head(requests).fun # "ack"
        /\ \/ Link!Execute(TRUE, None)
           \/ \E data \in Seq(Nat), under \in Nat : Link!Execute(TRUE, InitHead(place, under, data))
    <3>1. NoData \in Seq(Nat)
      BY DEF NoData
    <3>. QED  BY <1>5, <1>9, <2>1, <3>1 DEF Obliges, Obeys, Asked, Answers
  <2>3. PICK said \in Said : Link!Execute(TRUE, said)
    BY <1>3, <1>4, <2>2
  <2>. QED  BY <1>1, <2>1, <2>2, <2>3, SameKeysSettled
<1>10. CASE Refuses
  <2>1. requests # <<>> /\ token' = token
    BY <1>10 DEF Refuses
  <2>2. \/ Link!Execute(FALSE, None)
        \/ Head(requests).fun # "ack" /\ Link!Execute(TRUE, Malformed)
    BY <1>10, <2>1 DEF Refuses, Asked
  <2>. QED  BY <1>1, <1>3, <2>1, <2>2, SameKeysSettled
<1>11. CASE StoresKeys \/ DeletesKeys
  <2>1. CASE place = d
    BY <1>1, <1>11, <2>1, StoresKeysSettled, DeletesKeysSettled
  <2>2. CASE place # d
    <3>1. /\ requests # <<>> /\ Head(requests).fun # "ack" /\ Link!Execute(TRUE, None)
          /\ \E new : token' = [token EXCEPT ![place] = new]
      BY <1>11 DEF StoresKeys, DeletesKeys, Obeys, Asked, Becomes
    <3>2. token'[d].keys = token[d].keys
      BY <1>1, <1>2, <2>2, <3>1
    <3>. QED  BY <1>1, <1>3, <3>1, <3>2, SameKeysSettled
  <2>. QED  BY <2>1, <2>2
<1>. QED  BY <1>1, <1>6, <1>7, <1>8, <1>9, <1>10, <1>11, DropsKeySettled DEF TokenStep

LEMMA InitSettled ==
    ASSUME Init, NEW d \in Device
    PROVE  Settled(d)
<1>1. /\ call = None /\ requests = <<>> /\ answers = <<>>
      /\ token = [e \in Device |-> [shock |-> 0, login |-> 0, keys |-> <<>>]]
      /\ had = [e \in Device |-> {}] /\ acked = [e \in Device |-> {}]
  BY DEF Init, Link!LinkInit
<1>. QED  BY <1>1 DEF Settled, Below, AcksAfter

\* Keys that have been given stay so: a user that has had those of one token only
\* had those of one token only before.
LEMMA AloneBefore ==
    ASSUME IInv, [Next]_vars, NEW d \in Device, Alone(d)'
    PROVE  Alone(d)
<1>1. had \in [Device -> SUBSET Nat]
  BY Types DEF IInv
<1>2. had' = had \/ \E e \in Device : \E k : had' = [had EXCEPT ![e] = @ \cup {k}]
  <2>1. CASE GotFileKey
    <3>1. call.ask.device \in Device \/ had' = had
      BY <2>1, Types, Records DEF IInv, GotFileKey
    <3>. QED  BY <2>1, <3>1 DEF GotFileKey
  <2>2. CASE GotShock \/ GotLogin \/ GotAck
               \/ GotUserName \/ GotFileKeysNumber \/ GotDecryptedKey \/ GotReply
    BY <2>2 DEF GotShock, GotLogin, GotAck, GotUserName, GotFileKeysNumber, GotDecryptedKey,
                GotReply, Gives
  <2>3. CASE TokenStep \/ LinkStep \/ Unplugged \/ Plugged \/ UNCHANGED vars
    BY <2>3 DEF TokenStep, LinkStep, Unplugged, Plugged, userVars, vars
  <2>4. CASE \E e \in Device : Calls(e)
    BY <2>4, CallsAsk
  <2>. QED  BY <2>1, <2>2, <2>3, <2>4 DEF Next
<1>3. \A e \in Device : had[e] \subseteq had'[e]
  BY <1>1, <1>2
<1>. QED  BY <1>3 DEF Alone

LEMMA NextSettled ==
    ASSUME IInv, IInv', NEW d \in Device, Alone(d), Settled(d), [Next]_vars
    PROVE  Settled(d)'
<1>1. CASE \E e \in Device : Calls(e)
  BY <1>1, CallsSettled
<1>2. CASE GotShock \/ GotLogin \/ GotFileKey \/ GotAck
             \/ GotUserName \/ GotFileKeysNumber \/ GotDecryptedKey \/ GotReply
  BY <1>2, GotSettled
<1>3. CASE TokenStep
  BY <1>3, TokenSettled
<1>4. CASE LinkStep
  BY <1>4, LinkSettled
<1>5. CASE Unplugged
  <2>1. /\ place \in Device /\ requests' = <<>> /\ answers' = <<>> /\ call' = call
        /\ token' = [token EXCEPT ![place].shock = 0, ![place].login = 0]
        /\ key' = key /\ had' = had /\ acked' = acked
    BY <1>5, Types DEF Unplugged, IInv, Link!Lose, userVars
  <2>2. Shrunk
    BY <2>1, Types, ShiftNot DEF IInv, Shrunk
  <2>3. token'[d].keys = token[d].keys
    BY <2>1, Types DEF IInv
  <2>. QED  BY <2>1, <2>2, <2>3, ShrunkSettled
<1>6. CASE Plugged \/ UNCHANGED vars
  <2>1. /\ requests' = requests /\ answers' = answers /\ call' = call /\ token' = token
        /\ key' = key /\ had' = had /\ acked' = acked
    BY <1>6 DEF Plugged, vars, linkVars, tokenVars, userVars
  <2>2. Shrunk
    BY <2>1, Types, ShiftNot DEF IInv, Shrunk
  <2>. QED  BY <2>1, <2>2, ShrunkSettled
<1>. QED  BY <1>1, <1>2, <1>3, <1>4, <1>5, <1>6 DEF Next

--------------------------------------------------------------------------------
(* Calls, queues, tokens and what their user has got keep their types. *)
THEOREM TypeCorrect == Spec => []TypeOK
<1>1. IInv => TypeOK
  BY DEF IInv
<1>. QED  BY <1>1, Inductive, PTL

(* However tokens are exchanged between two calls, GetFileKeys gives for a device *)
(* only keys that this device was asked to store, and the login kept for it is    *)
(* one that no other token has begun.                                             *)
THEOREM KeysAndLoginsOfTheirDevice == Spec => []OfItsDevice
<1>1. IInv => OfItsDevice
  <2>. SUFFICES ASSUME IInv, NEW d \in Device, NEW e \in Device
                PROVE  /\ had[d] \subseteq supplied[d]
                       /\ d # e /\ token[e].login # 0 => login[d] # token[e].login
    BY DEF OfItsDevice
  <2>1. had[d] \subseteq supplied[d]
    BY DEF IInv, KeysInv, Known
  <2>2. login[d] \in LoginsOf(d) /\ token[e].login \in LoginsOf(e)
    BY DEF LoginsOf
  <2>3. d # e => LoginsOf(d) \cap LoginsOf(e) \subseteq {0}
    BY DEF IInv, LoginsInv
  <2>. QED  BY <2>1, <2>2, <2>3
<1>. QED  BY <1>1, Inductive, PTL

(* The key GetFileKeys gives for a device never comes before the one it gave last. *)
THEOREM KeysComeInOrder == Spec => KeysInOrder
<1>1. IInv /\ [Next]_vars => [\A d \in Device : key[d] <= key'[d]]_vars
  BY NextInv
<1>. QED  BY <1>1, Inductive, PTL DEF Spec, KeysInOrder

(* While a user has had the keys of one token only: what GetFileKeysAck has        *)
(* reported as acknowledged that token does not store any more, whatever answers   *)
(* were late or lost, and however often tokens were unplugged and exchanged.       *)
THEOREM AcknowledgedIsDropped == Spec => []AckedIsDropped
<1>. DEFINE J == IInv /\ \A d \in Device : Alone(d) => Settled(d)
<1>1. Init => J
  BY InitInv, InitSettled
<1>2. J /\ [Next]_vars => J'
  <2>. SUFFICES ASSUME J, [Next]_vars PROVE J'
    OBVIOUS
  <2>1. IInv'
    BY NextInv
  <2>2. ASSUME NEW d \in Device, Alone(d)' PROVE Settled(d)'
    <3>1. Alone(d) /\ Settled(d)
      BY <2>2, AloneBefore
    <3>. QED  BY <2>1, <3>1, NextSettled
  <2>. QED  BY <2>1, <2>2
<1>3. J => AckedIsDropped
  <2>. SUFFICES ASSUME J, NEW d \in Device, Alone(d), NEW i \in 1..Len(token[d].keys)
                PROVE  token[d].keys[i] \notin acked[d]
    BY DEF AckedIsDropped
  <2>1. token[d].keys[i] \in Live(d)
    BY DEF Live, Stored, Elements
  <2>. QED  BY <2>1 DEF Settled
<1>. QED  BY <1>1, <1>2, <1>3, PTL DEF Spec

================================================================================
