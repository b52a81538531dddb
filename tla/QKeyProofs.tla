------------------------------- MODULE QKeyProofs ------------------------------
(***************************************************************************)
(* What QKey promises, for every number of threads, keys and calls: types,  *)
(* RootKnown and KeysAdvance.  The inductive invariant says how what waits  *)
(* in the queues relates to the keeper: root keys come in the order the     *)
(* token made them, all newer than the one the keeper holds, and none comes *)
(* before a confirmation; once a confirmation has been given, the token has *)
(* the key the keeper holds and nothing that waits can change it.           *)
(***************************************************************************)
EXTENDS QKey, SequenceTheorems, TLAPS

IsKey(a) == a.fun = "update" /\ a.ok
IsConfirmed(a) == a.fun = "confirm" /\ a.ok

\* Every key in s is newer than the key k, and made.
Newer(s, k, made) ==
    \A i \in 1..Len(s) : IsKey(s[i]) => s[i].said \in Nat /\ k < s[i].said /\ s[i].said <= made

NoneConfirmed(s) == \A i \in 1..Len(s) : ~IsConfirmed(s[i])

\* Keys in the order of their making, and none before a confirmation.
Chain(s) ==
    \A i, j \in 1..Len(s) : i < j /\ IsKey(s[i]) =>
        ~IsConfirmed(s[j]) /\ (IsKey(s[j]) => s[i].said < s[j].said)

AnswersInv ==
    /\ held <= token.made /\ token.candidate \in {0, token.made}
    /\ Newer(answers, held, token.made)
    /\ Chain(answers)

\* A key on its way to the keeper.
KeyOnItsWay(k) ==
    /\ k \in Nat /\ held < k /\ k <= token.made
    /\ Newer(answers, k, token.made)
    /\ NoneConfirmed(answers)

OwnerInv ==
    /\ call # None /\ call.fun \in {"update", "confirm", "init"} => owner = Keeper
    /\ owner = Keeper => result = None

OnTheWayInv ==
    /\ call # None /\ call.fun = "update" /\ call.state = "SUCCESS" => KeyOnItsWay(call.said)
    /\ result # None /\ result.fun = "update" /\ result.ok => KeyOnItsWay(result.said)

\* What a request may ask for, of those that concern the root key.
Asked(fun, ask) ==
    /\ fun = "confirm" =>
        ask = Garbage \/ (ask \in trusted /\ ask \in Nat /\ 0 < ask /\ ask <= held)
    /\ fun = "init" => ask = FactoryKey /\ FactoryKey \in trusted

RequestsInv == \A i \in 1..Len(requests) : Asked(requests[i].fun, requests[i].ask)

CallInv ==
    /\ held = 0 => FactoryKey \in trusted
    /\ call # None => Asked(call.fun, call.ask)
    /\ call # None /\ call.fun = "confirm" => held # 0 /\ call.ask \in {held, Garbage}
    /\ call # None /\ call.fun = "init" => held = 0

\* The token will still have the key the keeper holds after this request.
Quiet(r) == r.fun # "init" /\ (r.fun = "confirm" => r.ask \in {held, Garbage})

QuietInv ==
    \A i, j \in 1..Len(requests) :
        i < j /\ requests[i].fun = "confirm" /\ requests[i].ask = held => Quiet(requests[j])

Settled ==
    /\ held # 0 /\ token.root = held
    /\ \A i \in 1..Len(requests) : Quiet(requests[i])

SettledInv ==
    /\ ~NoneConfirmed(answers) => Settled
    /\ call # None /\ call.fun = "confirm" /\ call.state = "SUCCESS" => Settled
    /\ result # None /\ result.fun = "confirm" /\ result.ok => Settled

KeeperInv ==
    /\ RootKnown
    /\ AnswersInv
    /\ OwnerInv
    /\ OnTheWayInv
    /\ RequestsInv
    /\ CallInv
    /\ QuietInv
    /\ SettledInv

IInv == TypeOK /\ KeeperInv

--------------------------------------------------------------------------------
(* Sequences that have lost elements at their ends. *)

Shift(s, t) ==
    \E k \in Nat : Len(t) + k <= Len(s) /\ \A i \in 1..Len(t) : t[i] = s[i + k]

LEMMA ShiftSubSeq ==
    ASSUME NEW S, NEW s \in Seq(S), NEW m \in 1..Len(s) + 1, NEW n \in 0..Len(s)
    PROVE  SubSeq(s, m, n) \in Seq(S) /\ Shift(s, SubSeq(s, m, n))
<1>1. \A i \in m..n : s[i] \in S
  OBVIOUS
<1>2. /\ SubSeq(s, m, n) \in Seq(S)
      /\ Len(SubSeq(s, m, n)) = IF m <= n THEN n - m + 1 ELSE 0
      /\ \A i \in 1..n - m + 1 : SubSeq(s, m, n)[i] = s[m + i - 1]
  BY <1>1, SubSeqProperties
<1>3. CASE m <= n
  <2>1. Len(SubSeq(s, m, n)) + (m - 1) <= Len(s)
    BY <1>2, <1>3
  <2>2. \A i \in 1..Len(SubSeq(s, m, n)) : SubSeq(s, m, n)[i] = s[i + (m - 1)]
    BY <1>2, <1>3
  <2>. QED  BY <1>2, <2>1, <2>2 DEF Shift
<1>4. CASE ~(m <= n)
  BY <1>2, <1>4 DEF Shift
<1>. QED  BY <1>3, <1>4

LEMMA ShiftSame ==
    ASSUME NEW S, NEW s \in Seq(S)
    PROVE  Shift(s, s) /\ Shift(s, <<>>) /\ <<>> \in Seq(S)
<1>1. Len(s) + 0 <= Len(s) /\ \A i \in 1..Len(s) : s[i] = s[i + 0]
  OBVIOUS
<1>2. Len(<<>>) + 0 <= Len(s) /\ \A i \in 1..Len(<<>>) : <<>>[i] = s[i + 0]
  OBVIOUS
<1>3. Shift(s, s)
  <2>. SUFFICES \E k \in Nat : Len(s) + k <= Len(s) /\ \A i \in 1..Len(s) : s[i] = s[i + k]
    BY DEF Shift
  <2>. WITNESS 0 \in Nat
  <2>. QED  BY <1>1
<1>4. Shift(s, <<>>)
  <2>. SUFFICES \E k \in Nat : Len(<<>>) + k <= Len(s)
                    /\ \A i \in 1..Len(<<>>) : <<>>[i] = s[i + k]
    BY DEF Shift
  <2>. WITNESS 0 \in Nat
  <2>. QED  BY <1>2
<1>. QED  BY <1>3, <1>4

LEMMA ShiftTail ==
    ASSUME NEW S, NEW s \in Seq(S), s # <<>>, NEW t \in Seq(S), Shift(Tail(s), t)
    PROVE  Shift(s, t)
<1>1. PICK k \in Nat : Len(t) + k <= Len(Tail(s)) /\ \A i \in 1..Len(t) : t[i] = Tail(s)[i + k]
  BY DEF Shift
<1>2. Len(Tail(s)) = Len(s) - 1 /\ \A i \in 1..Len(Tail(s)) : Tail(s)[i] = s[i + 1]
  BY HeadTailProperties
<1>4. \A i \in 1..Len(t) : t[i] = s[i + (k + 1)]
  BY <1>1, <1>2
<1>5. Len(t) + (k + 1) <= Len(s)
  BY <1>1, <1>2
<1>6. k + 1 \in Nat
  OBVIOUS
<1>7. \E n \in Nat : Len(t) + n <= Len(s) /\ \A i \in 1..Len(t) : t[i] = s[i + n]
  BY <1>4, <1>5, <1>6
<1>. QED  BY <1>7 DEF Shift

LEMMA AnswersShift ==
    ASSUME NEW s \in Seq(Link!Reply), NEW t \in Seq(Link!Reply), Shift(s, t),
           NEW k \in Nat, NEW made \in Nat
    PROVE  /\ Newer(s, k, made) => Newer(t, k, made)
           /\ Chain(s) => Chain(t)
           /\ NoneConfirmed(s) => NoneConfirmed(t)
<1>1. PICK n \in Nat : Len(t) + n <= Len(s) /\ \A i \in 1..Len(t) : t[i] = s[i + n]
  BY DEF Shift
<1>2. \A i \in 1..Len(t) : i + n \in 1..Len(s)
  BY <1>1
<1>3. Newer(s, k, made) => Newer(t, k, made)
  BY <1>1, <1>2 DEF Newer
<1>4. NoneConfirmed(s) => NoneConfirmed(t)
  BY <1>1, <1>2 DEF NoneConfirmed
<1>5. ASSUME Chain(s) PROVE Chain(t)
  <2>. SUFFICES ASSUME NEW i \in 1..Len(t), NEW j \in 1..Len(t), i < j, IsKey(t[i])
                PROVE  ~IsConfirmed(t[j]) /\ (IsKey(t[j]) => t[i].said < t[j].said)
    BY DEF Chain
  <2>1. i + n \in 1..Len(s) /\ j + n \in 1..Len(s) /\ i + n < j + n
    BY <1>2
  <2>2. t[i] = s[i + n] /\ t[j] = s[j + n]
    BY <1>1
  <2>. QED  BY <1>5, <2>1, <2>2 DEF Chain
<1>. QED  BY <1>3, <1>4, <1>5

\* What becomes of the queues when a call or a connection ends.
LEMMA LeaveQueues ==
    ASSUME NEW rest \in Seq(Link!Reply), Link!Leave(rest), requests \in Seq(Link!Request)
    PROVE  /\ answers' \in Seq(Link!Reply) /\ Shift(rest, answers')
           /\ requests' \in Seq(Link!Request) /\ Shift(requests, requests')
<1>1. PICK n \in 1..Len(rest) + 1 : answers' = SubSeq(rest, n, Len(rest))
  BY DEF Link!Leave
<1>2. answers' \in Seq(Link!Reply) /\ Shift(rest, answers')
  BY <1>1, ShiftSubSeq
<1>3. requests' = requests \/ requests' = <<>>
  BY DEF Link!Leave
<1>. QED  BY <1>2, <1>3, ShiftSame

--------------------------------------------------------------------------------
(* A step that takes from the queues, and leaves the keys as they are. *)

Shrunk ==
    /\ answers' \in Seq(Link!Reply) /\ Shift(answers, answers')
    /\ requests' \in Seq(Link!Request) /\ Shift(requests, requests')
    /\ UNCHANGED keeperVars
    /\ \E k \in Candidates : token' = [token EXCEPT !.candidate = k]

LEMMA ShrunkToken ==
    ASSUME IInv, Shrunk
    PROVE  /\ token' \in [root : Key, candidate : Key, made : Key]
           /\ token'.root = token.root /\ token'.made = token.made
           /\ token'.candidate \in {0, token.made}
           /\ held \in Nat /\ token.made \in Nat
  BY DEF IInv, TypeOK, KeeperInv, AnswersInv, Shrunk, Candidates, Key

LEMMA ShrunkAnswers ==
    ASSUME IInv, Shrunk
    PROVE  /\ AnswersInv'
           /\ NoneConfirmed(answers) => NoneConfirmed(answers)'
           /\ \A k \in Nat : KeyOnItsWay(k) => KeyOnItsWay(k)'
<1>1. /\ answers \in Seq(Link!Reply) /\ answers' \in Seq(Link!Reply)
      /\ Shift(answers, answers') /\ held' = held
  BY DEF IInv, TypeOK, Link!LinkTypeOK, Shrunk, keeperVars
<1>2. \A k \in Nat : Newer(answers, k, token.made) => Newer(answers', k, token.made)
  BY <1>1, ShrunkToken, AnswersShift
<1>3. /\ Chain(answers) => Chain(answers')
      /\ NoneConfirmed(answers) => NoneConfirmed(answers')
  BY <1>1, ShrunkToken, AnswersShift
<1>4. AnswersInv'
  BY <1>1, <1>2, <1>3, ShrunkToken DEF IInv, KeeperInv, AnswersInv
<1>5. \A k \in Nat : KeyOnItsWay(k) => KeyOnItsWay(k)'
  BY <1>1, <1>2, <1>3, ShrunkToken DEF KeyOnItsWay
<1>. QED  BY <1>3, <1>4, <1>5

LEMMA ShrunkRequests ==
    ASSUME IInv, requests' \in Seq(Link!Request), Shift(requests, requests'),
           UNCHANGED keeperVars
    PROVE  RequestsInv' /\ QuietInv' /\ (Settled /\ token'.root = token.root => Settled')
<1>1. held' = held /\ trusted' = trusted
  BY DEF keeperVars
<1>2. PICK k \in Nat : /\ Len(requests') + k <= Len(requests)
                        /\ \A i \in 1..Len(requests') : requests'[i] = requests[i + k]
  BY DEF Shift
<1>3. /\ requests \in Seq(Link!Request) /\ requests' \in Seq(Link!Request)
      /\ \A i \in 1..Len(requests') : i + k \in 1..Len(requests)
  BY <1>2 DEF IInv, TypeOK, Link!LinkTypeOK
<1>4. RequestsInv'
  BY <1>1, <1>2, <1>3 DEF IInv, KeeperInv, RequestsInv, Asked
<1>5. QuietInv'
  <2>. SUFFICES ASSUME NEW i \in 1..Len(requests'), NEW j \in 1..Len(requests'), i < j,
                       requests'[i].fun = "confirm", requests'[i].ask = held
                PROVE  Quiet(requests[j + k])
    BY <1>1, <1>2 DEF QuietInv, Quiet
  <2>1. i + k \in 1..Len(requests) /\ j + k \in 1..Len(requests) /\ i + k < j + k
    BY <1>3
  <2>2. requests'[i] = requests[i + k]
    BY <1>2
  <2>. QED  BY <2>1, <2>2 DEF IInv, KeeperInv, QuietInv
<1>6. ASSUME Settled, token'.root = token.root PROVE Settled'
  <2>1. \A i \in 1..Len(requests') : Quiet(requests[i + k])
    BY <1>3, <1>6 DEF Settled
  <2>. QED  BY <1>1, <1>2, <1>6, <2>1 DEF Settled, Quiet
<1>. QED  BY <1>4, <1>5, <1>6

\* What holds of the queues after such a step.
LEMMA ShrunkInv ==
    ASSUME IInv, Shrunk
    PROVE  /\ AnswersInv' /\ RequestsInv' /\ QuietInv' /\ RootKnown'
           /\ Settled => Settled'
           /\ \A k \in Nat : KeyOnItsWay(k) => KeyOnItsWay(k)'
           /\ ~NoneConfirmed(answers)' => Settled'
<1>1. RootKnown'
  BY ShrunkToken DEF IInv, KeeperInv, RootKnown, Shrunk, keeperVars
<1>2. RequestsInv' /\ QuietInv' /\ (Settled => Settled')
  BY ShrunkToken, ShrunkRequests DEF Shrunk
<1>3. ~NoneConfirmed(answers)' => Settled'
  BY <1>2, ShrunkAnswers DEF IInv, KeeperInv, SettledInv
<1>. QED  BY <1>1, <1>2, <1>3, ShrunkAnswers

--------------------------------------------------------------------------------
(* The end of a call, and steps of the link. *)

\* None is no record.
LEMMA NoneIsNoRecord ==
    /\ \A c \in Link!OpenCall : c # None
    /\ \A r \in Outcome : r # None
    /\ \A t \in Thread : t # None
  BY QKeyAssumption

LEMMA LeaveShrinks ==
    ASSUME IInv, Link!Leave(answers), UNCHANGED <<token, keeperVars>>
    PROVE  Shrunk
<1>1. answers \in Seq(Link!Reply) /\ requests \in Seq(Link!Request)
  BY DEF IInv, TypeOK, Link!LinkTypeOK
<1>2. token.candidate \in Candidates /\ token' = [token EXCEPT !.candidate = token.candidate]
  BY DEF IInv, TypeOK, Candidates
<1>. QED  BY <1>1, <1>2, LeaveQueues DEF Shrunk

LEMMA ReturnsInv ==
    ASSUME IInv, NEW ok \in BOOLEAN, call # None, ok => Worked, Returns(ok),
           UNCHANGED keeperVars
    PROVE  IInv'
<1>1. /\ Link!Leave(answers) /\ call' = None /\ owner' = None
      /\ held' = held /\ trusted' = trusted /\ token' = token
      /\ result' = IF owner # Keeper THEN result
                   ELSE [fun |-> call.fun, ok |-> ok, said |-> IF ok THEN call.said ELSE None]
  BY DEF Returns, Link!Return, Tell, keeperVars
<1>2. Shrunk
  BY <1>1, LeaveShrinks DEF keeperVars
<1>3. call \in Link!OpenCall /\ owner \in Thread
  BY DEF IInv, TypeOK, Link!LinkTypeOK
<1>4. ok => call.state = "SUCCESS"
  BY DEF Worked
<1>5. result' \in Outcome \cup {None}
  BY <1>1, <1>3 DEF IInv, TypeOK, Outcome, Link!OpenCall
<1>6. result' # None /\ result'.ok /\ result'.fun = "update" =>
        result'.said \in Nat /\ KeyOnItsWay(result'.said)
  <2>1. CASE owner # Keeper
    BY <1>1, <2>1 DEF IInv, KeeperInv, OnTheWayInv, KeyOnItsWay
  <2>2. CASE owner = Keeper
    BY <1>1, <1>4, <2>2 DEF IInv, KeeperInv, OnTheWayInv, KeyOnItsWay
  <2>. QED  BY <2>1, <2>2
<1>7. TypeOK'
  BY <1>1, <1>2, <1>5, <1>6 DEF IInv, TypeOK, Link!LinkTypeOK, Shrunk, Key
<1>8. OwnerInv'
  BY <1>1, NoneIsNoRecord, QKeyAssumption DEF OwnerInv
<1>9. OnTheWayInv'
  BY <1>1, <1>2, <1>6, ShrunkInv DEF OnTheWayInv
<1>10. CallInv'
  BY <1>1 DEF IInv, KeeperInv, CallInv
<1>11. SettledInv'
  <2>1. result' # None /\ result'.fun = "confirm" /\ result'.ok => Settled
    BY <1>1, <1>4 DEF IInv, KeeperInv, SettledInv
  <2>. QED  BY <1>1, <1>2, <2>1, ShrunkInv DEF SettledInv
<1>. QED  BY <1>2, <1>7, <1>8, <1>9, <1>10, <1>11, ShrunkInv DEF IInv, KeeperInv

\* The call itself ends or fails, and so does whatever it knew.
LEMMA EndsInv ==
    ASSUME IInv, Shrunk,
           \/ call' = None /\ owner' = None
           \/ UNCHANGED <<call, owner>>
           \/ call # None /\ call' = [call EXCEPT !.state = "failed"] /\ UNCHANGED owner,
           result' \in {result, None}
    PROVE  IInv'
<1>1. held' = held /\ trusted' = trusted
  BY DEF Shrunk, keeperVars
<1>2. call # None => call \in Link!OpenCall /\ owner \in Thread
  BY DEF IInv, TypeOK, Link!LinkTypeOK
<1>3. call' \in Link!OpenCall \cup {None} /\ (call' = None) = (owner' = None)
  BY <1>2, NoneIsNoRecord DEF IInv, TypeOK, Link!LinkTypeOK, Link!OpenCall
<1>4. call' # None =>
        /\ call # None /\ call'.fun = call.fun /\ call'.ask = call.ask /\ owner' = owner
        /\ call'.said = call.said /\ (call'.state = call.state \/ call'.state = "failed")
  BY <1>2 DEF Link!OpenCall
<1>5. TypeOK'
  BY <1>1, <1>2, <1>3, ShrunkToken DEF IInv, TypeOK, Link!LinkTypeOK, Shrunk
<1>6. OwnerInv'
  BY <1>2, <1>4, QKeyAssumption DEF IInv, KeeperInv, OwnerInv
<1>7. OnTheWayInv'
  <2>1. call' # None /\ call'.fun = "update" /\ call'.state = "SUCCESS"
            => KeyOnItsWay(call'.said) /\ call'.said \in Nat
    BY <1>4 DEF IInv, KeeperInv, OnTheWayInv, KeyOnItsWay
  <2>2. result' # None /\ result'.fun = "update" /\ result'.ok
            => KeyOnItsWay(result'.said) /\ result'.said \in Nat
    BY DEF IInv, KeeperInv, OnTheWayInv, KeyOnItsWay
  <2>. QED  BY <2>1, <2>2, ShrunkInv DEF OnTheWayInv
<1>8. CallInv'
  BY <1>1, <1>4 DEF IInv, KeeperInv, CallInv, Asked
<1>9. SettledInv'
  BY <1>4, ShrunkInv DEF IInv, KeeperInv, SettledInv
<1>. QED  BY <1>5, <1>6, <1>7, <1>8, <1>9, ShrunkInv DEF IInv, KeeperInv

LEMMA TakeInv ==
    ASSUME IInv, Link!Take, UNCHANGED <<token, owner, result, keeperVars>>
    PROVE  IInv'
<1>. DEFINE a == Head(answers)
<1>1. /\ call # None /\ answers # <<>> /\ a.fun = call.fun
      /\ call' = [call EXCEPT !.state = IF a.ok THEN "SUCCESS" ELSE "STATE", !.said = a.said]
      /\ Link!Leave(Tail(answers))
  BY DEF Link!Take
<1>2. /\ answers \in Seq(Link!Reply) /\ requests \in Seq(Link!Request)
      /\ call \in Link!OpenCall /\ owner \in Thread
  BY <1>1 DEF IInv, TypeOK, Link!LinkTypeOK
<1>3. /\ a \in Link!Reply /\ Tail(answers) \in Seq(Link!Reply)
      /\ a = answers[1] /\ 1 \in 1..Len(answers)
      /\ Len(Tail(answers)) = Len(answers) - 1
      /\ \A i \in 1..Len(Tail(answers)) : Tail(answers)[i] = answers[i + 1]
  BY <1>1, <1>2, HeadTailProperties
<1>4. /\ answers' \in Seq(Link!Reply) /\ Shift(Tail(answers), answers')
      /\ requests' \in Seq(Link!Request) /\ Shift(requests, requests')
  BY <1>1, <1>2, <1>3, LeaveQueues
<1>5. Shift(answers, answers')
  BY <1>1, <1>2, <1>4, ShiftTail
<1>6. token.candidate \in Candidates /\ token' = [token EXCEPT !.candidate = token.candidate]
  BY DEF IInv, TypeOK, Candidates
<1>7. Shrunk
  BY <1>4, <1>5, <1>6 DEF Shrunk
<1>8. call' \in Link!OpenCall /\ call' # None /\ call'.fun = call.fun /\ call'.ask = call.ask
  BY <1>1, <1>2, <1>3, NoneIsNoRecord DEF Link!OpenCall, Link!Reply
<1>9. held' = held /\ trusted' = trusted /\ token' = token /\ owner' = owner /\ result' = result
  BY DEF keeperVars
<1>10. TypeOK'
  BY <1>2, <1>4, <1>8, <1>9, NoneIsNoRecord DEF IInv, TypeOK, Link!LinkTypeOK
<1>11. OwnerInv'
  BY <1>1, <1>8, <1>9 DEF IInv, KeeperInv, OwnerInv
<1>12. ASSUME call'.fun = "update", call'.state = "SUCCESS"
       PROVE  KeyOnItsWay(call.said)'
  <2>1. IsKey(a) /\ call'.said = a.said
    BY <1>1, <1>2, <1>3, <1>8, <1>12 DEF IsKey, Link!OpenCall, Link!Reply
  <2>2. a.said \in Nat /\ held < a.said /\ a.said <= token.made
    BY <1>3, <2>1 DEF IInv, KeeperInv, AnswersInv, Newer
  <2>3. Newer(Tail(answers), a.said, token.made) /\ NoneConfirmed(Tail(answers))
    <3>. SUFFICES ASSUME NEW i \in 1..Len(Tail(answers))
                  PROVE  /\ IsKey(Tail(answers)[i]) =>
                              /\ Tail(answers)[i].said \in Nat
                              /\ a.said < Tail(answers)[i].said
                              /\ Tail(answers)[i].said <= token.made
                         /\ ~IsConfirmed(Tail(answers)[i])
      BY DEF Newer, NoneConfirmed
    <3>1. i + 1 \in 1..Len(answers) /\ 1 < i + 1 /\ Tail(answers)[i] = answers[i + 1]
      BY <1>3
    <3>2. Chain(answers) /\ Newer(answers, held, token.made)
      BY DEF IInv, KeeperInv, AnswersInv
    <3>. QED  BY <1>3, <2>1, <3>1, <3>2 DEF Chain, Newer
  <2>4. token.made \in Nat
    BY <1>7, ShrunkToken
  <2>5. Newer(answers', a.said, token.made) /\ NoneConfirmed(answers')
    BY <1>3, <1>4, <2>2, <2>3, <2>4, AnswersShift
  <2>. QED  BY <1>9, <2>1, <2>2, <2>5 DEF KeyOnItsWay
<1>13. OnTheWayInv'
  <2>1. result' # None /\ result'.fun = "update" /\ result'.ok
            => KeyOnItsWay(result'.said) /\ result'.said \in Nat
    BY <1>9 DEF IInv, KeeperInv, OnTheWayInv, KeyOnItsWay
  <2>. QED  BY <1>7, <1>12, <2>1, ShrunkInv DEF OnTheWayInv
<1>14. CallInv'
  BY <1>1, <1>8, <1>9 DEF IInv, KeeperInv, CallInv, Asked
<1>15. SettledInv'
  <2>1. call'.fun = "confirm" /\ call'.state = "SUCCESS" => Settled
    <3>. SUFFICES ASSUME call'.fun = "confirm", call'.state = "SUCCESS" PROVE Settled
      OBVIOUS
    <3>1. IsConfirmed(a)
      BY <1>1, <1>2, <1>3, <1>8 DEF IsConfirmed, Link!OpenCall, Link!Reply
    <3>2. ~NoneConfirmed(answers)
      BY <1>3, <3>1 DEF NoneConfirmed
    <3>. QED  BY <3>2 DEF IInv, KeeperInv, SettledInv
  <2>2. result' # None /\ result'.fun = "confirm" /\ result'.ok => Settled
    BY <1>9 DEF IInv, KeeperInv, SettledInv
  <2>. QED  BY <1>7, <2>1, <2>2, ShrunkInv DEF SettledInv
<1>. QED  BY <1>7, <1>10, <1>11, <1>13, <1>14, <1>15, ShrunkInv DEF IInv, KeeperInv

LEMMA SendInv ==
    ASSUME IInv, Link!Send, UNCHANGED <<token, owner, result, keeperVars>>
    PROVE  IInv'
<1>. DEFINE r == [fun |-> call.fun, ask |-> call.ask]
<1>1. /\ call # None /\ call' = [call EXCEPT !.state = "sent"] /\ answers' = answers
      /\ requests' = requests \/ requests' = Append(requests, r)
  BY DEF Link!Send
<1>2. call \in Link!OpenCall /\ requests \in Seq(Link!Request) /\ owner \in Thread
  BY <1>1 DEF IInv, TypeOK, Link!LinkTypeOK
<1>3. r \in Link!Request
  BY <1>2 DEF Link!OpenCall, Link!Request
<1>4. held' = held /\ trusted' = trusted /\ token' = token /\ owner' = owner /\ result' = result
  BY DEF keeperVars
<1>5. /\ call' \in Link!OpenCall /\ call' # None
      /\ call'.fun = call.fun /\ call'.ask = call.ask /\ call'.state = "sent"
  BY <1>1, <1>2, NoneIsNoRecord DEF Link!OpenCall
<1>6. /\ Len(requests') \in Nat /\ requests' \in Seq(Link!Request)
      /\ \A i \in 1..Len(requests') :
            \/ i \in 1..Len(requests) /\ requests'[i] = requests[i]
            \/ i = Len(requests) + 1 /\ requests'[i] = r
  <2>1. CASE requests' = requests
    BY <1>2, <2>1
  <2>2. CASE requests' = Append(requests, r)
    BY <1>2, <1>3, <2>2, AppendProperties
  <2>. QED  BY <1>1, <2>1, <2>2
<1>7. TypeOK'
  BY <1>1, <1>2, <1>4, <1>5, <1>6, NoneIsNoRecord DEF IInv, TypeOK, Link!LinkTypeOK
<1>8. OwnerInv' /\ AnswersInv' /\ RootKnown'
  BY <1>1, <1>4, <1>5 DEF IInv, KeeperInv, OwnerInv, AnswersInv, RootKnown
<1>9. OnTheWayInv'
  BY <1>1, <1>4, <1>5 DEF IInv, KeeperInv, OnTheWayInv, KeyOnItsWay
<1>10. CallInv'
  BY <1>1, <1>4, <1>5 DEF IInv, KeeperInv, CallInv, Asked
<1>11. RequestsInv'
  <2>1. Asked(r.fun, r.ask)
    BY <1>1 DEF IInv, KeeperInv, CallInv
  <2>. QED  BY <1>4, <1>6, <2>1 DEF IInv, KeeperInv, RequestsInv, Asked
<1>12. held # 0 => Quiet(r)
  BY <1>1 DEF IInv, KeeperInv, CallInv, Quiet
<1>13. QuietInv'
  <2>. SUFFICES ASSUME NEW i \in 1..Len(requests'), NEW j \in 1..Len(requests'), i < j,
                       requests'[i].fun = "confirm", requests'[i].ask = held
                PROVE  Quiet(requests'[j])
    BY <1>4 DEF QuietInv, Quiet
  <2>1. i \in 1..Len(requests) /\ requests'[i] = requests[i]
    BY <1>2, <1>6
  <2>2. Asked("confirm", held)
    BY <2>1 DEF IInv, KeeperInv, RequestsInv
  <2>3. held # Garbage
    BY QKeyAssumption DEF IInv, TypeOK, Key
  <2>4. held # 0
    BY <2>2, <2>3 DEF Asked
  <2>. QED  BY <1>6, <1>12, <2>1, <2>4 DEF IInv, KeeperInv, QuietInv
<1>14. Settled => Settled'
  BY <1>4, <1>6, <1>12 DEF Settled, Quiet
<1>15. SettledInv'
  BY <1>1, <1>4, <1>5, <1>14 DEF IInv, KeeperInv, SettledInv
<1>. QED  BY <1>7, <1>8, <1>9, <1>10, <1>11, <1>13, <1>15 DEF IInv, KeeperInv

--------------------------------------------------------------------------------
(* The beginning of a call, and what the keeper makes of its end. *)

LEMMA SendRecInv ==
    ASSUME IInv, NEW t \in Thread, NEW fun \in Fun, NEW ask \in Ask \cup {Refused},
           SendRec(t, fun, ask), held' = held, trusted' \in SUBSET Key, trusted \subseteq trusted',
           fun \in {"update", "confirm", "init"} => t = Keeper,
           fun = "confirm" =>
               held # 0 /\ held \in trusted' /\ ask \in {held, Garbage, Refused},
           fun = "init" => held = 0 /\ ask = FactoryKey
    PROVE  IInv'
<1>1. IInv
  OBVIOUS
<1>2. CASE Tell(t, fun, FALSE, None) /\ UNCHANGED <<linkVars, token, owner>>
  <2>1. UNCHANGED <<call, requests, answers, token, owner>> /\ owner # t
    BY <1>2 DEF linkVars, SendRec, Free
  <2>2. result' \in Outcome \cup {None} /\ (result' # None /\ result'.ok => result' = result)
    BY <1>2, NoneIsNoRecord DEF Tell, IInv, TypeOK, Outcome
  <2>3. TypeOK'
    BY <2>1, <2>2 DEF IInv, TypeOK, Link!LinkTypeOK
  <2>4. OwnerInv'
    BY <1>2, <2>1 DEF IInv, KeeperInv, OwnerInv, Tell
  <2>5. AnswersInv' /\ RootKnown' /\ QuietInv' /\ (Settled => Settled')
    BY <2>1 DEF IInv, KeeperInv, AnswersInv, RootKnown, QuietInv, Quiet, Settled
  <2>6. OnTheWayInv'
    BY <2>1, <2>2 DEF IInv, KeeperInv, OnTheWayInv, KeyOnItsWay
  <2>7. RequestsInv' /\ CallInv'
    BY <2>1 DEF IInv, KeeperInv, RequestsInv, CallInv, Asked
  <2>8. SettledInv'
    BY <2>1, <2>2, <2>5 DEF IInv, KeeperInv, SettledInv
  <2>. QED  BY <2>3, <2>4, <2>5, <2>6, <2>7, <2>8 DEF IInv, KeeperInv
<1>3. CASE ask # Refused /\ Link!Begin(fun, ask) /\ owner' = t /\ UNCHANGED <<token, result>>
  <2>1. /\ call' = [fun |-> fun, ask |-> ask, said |-> None, state |-> "begun"]
        /\ call = None /\ requests' = requests /\ answers' = answers
        /\ owner' = t /\ token' = token /\ result' = result
    BY <1>3 DEF Link!Begin
  <2>2. call' \in Link!OpenCall /\ call'.fun = fun /\ call'.ask = ask /\ call'.state = "begun"
    BY <1>3, <2>1 DEF Link!OpenCall
  <2>3. TypeOK'
    BY <2>1, <2>2, NoneIsNoRecord DEF IInv, TypeOK, Link!LinkTypeOK
  <2>4. OwnerInv'
    BY <2>1, <2>2 DEF OwnerInv, SendRec, Free
  <2>5. AnswersInv' /\ RootKnown' /\ QuietInv' /\ (Settled => Settled')
    BY <2>1 DEF IInv, KeeperInv, AnswersInv, RootKnown, QuietInv, Quiet, Settled
  <2>6. OnTheWayInv'
    BY <2>1, <2>2 DEF IInv, KeeperInv, OnTheWayInv, KeyOnItsWay
  <2>7. RequestsInv'
    BY <2>1 DEF IInv, KeeperInv, RequestsInv, Asked
  <2>8. CallInv'
    <3>1. held \in Nat
      BY DEF IInv, TypeOK, Key
    <3>2. held = 0 => FactoryKey \in trusted'
      BY DEF IInv, KeeperInv, CallInv
    <3>3. Asked(call.fun, call.ask)'
      BY <1>3, <2>2, <3>1, <3>2 DEF Asked
    <3>. QED  BY <1>3, <2>2, <3>2, <3>3 DEF CallInv
  <2>9. SettledInv'
    BY <2>1, <2>2, <2>5 DEF IInv, KeeperInv, SettledInv
  <2>. QED  BY <2>3, <2>4, <2>5, <2>6, <2>7, <2>8, <2>9 DEF IInv, KeeperInv
<1>. QED  BY <1>2, <1>3 DEF SendRec

LEMMA LearnInv ==
    ASSUME IInv, Learn
    PROVE  IInv' /\ (held' # held => held' > held)
<1>1. /\ result # None /\ result' = None
      /\ UNCHANGED <<call, requests, answers, token, owner>>
      /\ held' = IF result.fun = "update" /\ result.ok THEN result.said ELSE held
      /\ trusted' = IF result.fun = "confirm" /\ result.ok THEN {held} ELSE trusted
  BY DEF Learn, linkVars
<1>2. owner # Keeper /\ (call # None => call.fun \notin {"update", "confirm", "init"})
  BY <1>1 DEF IInv, KeeperInv, OwnerInv
<1>3. held \in Nat /\ trusted \subseteq Nat /\ token.made \in Nat
  BY DEF IInv, TypeOK, Key
<1>4. OwnerInv' /\ OnTheWayInv'
  BY <1>1, <1>2 DEF OwnerInv, OnTheWayInv
<1>5. CASE result.fun = "update" /\ result.ok
  <2>1. held' = result.said /\ KeyOnItsWay(result.said) /\ trusted' = trusted
    BY <1>1, <1>5 DEF IInv, KeeperInv, OnTheWayInv
  <2>2. /\ held' \in Nat /\ held < held' /\ held' <= token.made
        /\ Newer(answers, held', token.made) /\ NoneConfirmed(answers)
    BY <2>1 DEF KeyOnItsWay
  <2>3. TypeOK'
    BY <1>1, <2>1, <2>2 DEF IInv, TypeOK, Link!LinkTypeOK, Key
  <2>4. AnswersInv' /\ RootKnown'
    BY <1>1, <2>1, <2>2 DEF IInv, KeeperInv, AnswersInv, RootKnown
  <2>5. RequestsInv'
    BY <1>1, <1>3, <2>1, <2>2 DEF IInv, KeeperInv, RequestsInv, Asked
  <2>6. CallInv'
    BY <1>1, <1>2, <1>3, <2>1, <2>2 DEF CallInv, Asked
  <2>7. QuietInv'
    <3>. SUFFICES ASSUME NEW i \in 1..Len(requests), requests[i].fun = "confirm",
                         requests[i].ask = held'
                  PROVE  FALSE
      BY <1>1 DEF QuietInv
    <3>. QED  BY <1>3, <2>2, QKeyAssumption DEF IInv, KeeperInv, RequestsInv, Asked
  <2>8. SettledInv'
    BY <1>1, <1>2, <2>2 DEF SettledInv
  <2>. QED  BY <1>4, <2>2, <2>3, <2>4, <2>5, <2>6, <2>7, <2>8 DEF IInv, KeeperInv
<1>6. CASE result.fun = "confirm" /\ result.ok
  <2>1. held' = held /\ trusted' = {held} /\ Settled
    BY <1>1, <1>6 DEF IInv, KeeperInv, SettledInv
  <2>2. TypeOK'
    BY <1>1, <2>1 DEF IInv, TypeOK, Link!LinkTypeOK, Key
  <2>3. AnswersInv' /\ RootKnown' /\ QuietInv' /\ (Settled => Settled')
    BY <1>1, <2>1 DEF IInv, KeeperInv, AnswersInv, RootKnown, QuietInv, Quiet, Settled
  <2>4. RequestsInv'
    BY <1>1, <2>1 DEF IInv, KeeperInv, RequestsInv, Asked, Settled, Quiet
  <2>5. CallInv'
    BY <1>1, <1>2, <2>1 DEF CallInv, Asked, Settled
  <2>6. SettledInv'
    BY <1>1, <2>1, <2>3 DEF SettledInv
  <2>. QED  BY <1>4, <2>1, <2>2, <2>3, <2>4, <2>5, <2>6 DEF IInv, KeeperInv
<1>7. CASE ~(result.fun \in {"update", "confirm"} /\ result.ok)
  <2>1. held' = held /\ trusted' = trusted
    BY <1>1, <1>7
  <2>2. TypeOK'
    BY <1>1, <2>1 DEF IInv, TypeOK, Link!LinkTypeOK
  <2>3. AnswersInv' /\ RootKnown' /\ QuietInv' /\ RequestsInv' /\ CallInv' /\ (Settled => Settled')
    BY <1>1, <2>1 DEF IInv, KeeperInv, AnswersInv, RootKnown, QuietInv, Quiet, Settled,
                      RequestsInv, CallInv, Asked
  <2>4. SettledInv'
    BY <1>1, <2>1, <2>3 DEF IInv, KeeperInv, SettledInv
  <2>. QED  BY <1>4, <2>1, <2>2, <2>3, <2>4 DEF IInv, KeeperInv
<1>. QED  BY <1>5, <1>6, <1>7

--------------------------------------------------------------------------------
(* The token. *)

LEMMA AnswerAdded ==
    ASSUME IInv, NEW a \in Link!Reply, answers' = Append(answers, a), held' = held,
           token'.made \in Nat, token.made <= token'.made,
           token'.candidate \in {0, token'.made},
           IsKey(a) => a.said \in Nat /\ token.made < a.said /\ a.said <= token'.made,
           IsConfirmed(a) => token.made = held
    PROVE  /\ AnswersInv'
           /\ \A k \in Nat : KeyOnItsWay(k) => KeyOnItsWay(k)'
           /\ NoneConfirmed(answers) /\ ~IsConfirmed(a) => NoneConfirmed(answers)'
<1>1. /\ answers \in Seq(Link!Reply) /\ held \in Nat /\ token.made \in Nat
      /\ held <= token.made /\ Newer(answers, held, token.made) /\ Chain(answers)
  BY DEF IInv, TypeOK, Link!LinkTypeOK, KeeperInv, AnswersInv, Key
<1>2. /\ Len(answers') = Len(answers) + 1 /\ answers'[Len(answers) + 1] = a
      /\ \A i \in 1..Len(answers) : answers'[i] = answers[i]
      /\ \A i \in 1..Len(answers') : i \in 1..Len(answers) \/ i = Len(answers) + 1
  BY <1>1, AppendProperties
<1>3. ASSUME NEW k \in Nat, k <= token.made, Newer(answers, k, token.made)
      PROVE  Newer(answers', k, token'.made)
  <2>. SUFFICES ASSUME NEW i \in 1..Len(answers'), IsKey(answers'[i])
                PROVE  /\ answers'[i].said \in Nat
                       /\ k < answers'[i].said /\ answers'[i].said <= token'.made
    BY DEF Newer
  <2>1. CASE i \in 1..Len(answers)
    BY <1>1, <1>2, <1>3, <2>1 DEF Newer
  <2>2. CASE i = Len(answers) + 1
    BY <1>1, <1>2, <1>3, <2>2
  <2>. QED  BY <1>2, <2>1, <2>2
<1>4. Chain(answers')
  <2>. SUFFICES ASSUME NEW i \in 1..Len(answers'), NEW j \in 1..Len(answers'), i < j,
                       IsKey(answers'[i])
                PROVE  /\ ~IsConfirmed(answers'[j])
                       /\ IsKey(answers'[j]) => answers'[i].said < answers'[j].said
    BY DEF Chain
  <2>1. i \in 1..Len(answers) /\ answers'[i] = answers[i]
    BY <1>1, <1>2
  <2>2. answers[i].said \in Nat /\ held < answers[i].said /\ answers[i].said <= token.made
    BY <1>1, <2>1 DEF Newer
  <2>3. CASE j \in 1..Len(answers)
    BY <1>1, <1>2, <2>1, <2>3 DEF Chain
  <2>4. CASE j = Len(answers) + 1
    BY <1>1, <1>2, <2>1, <2>2, <2>4
  <2>. QED  BY <1>2, <2>3, <2>4
<1>5. AnswersInv'
  BY <1>1, <1>3, <1>4 DEF AnswersInv
<1>6. NoneConfirmed(answers) /\ ~IsConfirmed(a) => NoneConfirmed(answers')
  BY <1>2 DEF NoneConfirmed
<1>7. ASSUME NEW k \in Nat, KeyOnItsWay(k) PROVE KeyOnItsWay(k)'
  <2>1. held < k /\ k <= token.made /\ Newer(answers, k, token.made) /\ NoneConfirmed(answers)
    BY <1>7 DEF KeyOnItsWay
  <2>2. ~IsConfirmed(a) /\ k <= token'.made
    BY <1>1, <2>1
  <2>. QED  BY <1>3, <1>6, <2>1, <2>2 DEF KeyOnItsWay
<1>. QED  BY <1>5, <1>6, <1>7

\* The token executes a request: only those of the keeper concern the root key.
LEMMA ExecuteInv ==
    ASSUME IInv, NEW ok \in BOOLEAN, NEW said \in Said, Link!Execute(ok, said),
           UNCHANGED <<owner, result, keeperVars>>,
           token' \in [root : Key, candidate : Key, made : Key],
           token.made <= token'.made, token'.candidate \in {0, token'.made},
           Head(requests).fun = "update" /\ ok =>
               said \in Nat /\ token.made < said /\ said <= token'.made,
           Head(requests).fun = "confirm" /\ ok =>
               /\ Head(requests).ask = held /\ held = token.made /\ held # 0
               /\ token'.root = held,
           Head(requests).fun = "init" /\ ok => token'.root = Head(requests).ask,
           ~(Head(requests).fun \in {"confirm", "init"} /\ ok) => token'.root = token.root
    PROVE  IInv'
<1>. DEFINE r == Head(requests)
             a == [fun |-> r.fun, said |-> said, ok |-> ok]
<1>1. requests # <<>> /\ requests' = Tail(requests) /\ answers' = Append(answers, a) /\ call' = call
  BY DEF Link!Execute
<1>2. /\ requests \in Seq(Link!Request) /\ answers \in Seq(Link!Reply) /\ held \in Nat
      /\ held' = held /\ trusted' = trusted /\ owner' = owner /\ result' = result
  BY DEF IInv, TypeOK, Link!LinkTypeOK, keeperVars, Key
<1>3. /\ r \in Link!Request /\ Tail(requests) \in Seq(Link!Request)
      /\ r = requests[1] /\ 1 \in 1..Len(requests)
      /\ Len(requests') = Len(requests) - 1
      /\ \A i \in 1..Len(requests') : requests'[i] = requests[i + 1] /\ i + 1 \in 1..Len(requests)
  BY <1>1, <1>2, HeadTailProperties
<1>4. Shift(Tail(requests), Tail(requests))
  BY <1>3, ShiftSame
<1>5. Shift(requests, requests')
  BY <1>1, <1>2, <1>3, <1>4, ShiftTail
<1>6. RequestsInv' /\ QuietInv' /\ (Settled /\ token'.root = token.root => Settled')
  BY <1>1, <1>3, <1>5, ShrunkRequests
<1>7. a \in Link!Reply
  BY <1>3 DEF Link!Reply, Link!Request
<1>8. /\ IsKey(a) => a.said \in Nat /\ token.made < a.said /\ a.said <= token'.made
      /\ IsConfirmed(a) => token.made = held
  BY DEF IsKey, IsConfirmed
<1>9. /\ AnswersInv'
      /\ \A k \in Nat : KeyOnItsWay(k) => KeyOnItsWay(k)'
      /\ NoneConfirmed(answers) /\ ~IsConfirmed(a) => NoneConfirmed(answers)'
  BY <1>1, <1>2, <1>7, <1>8, AnswerAdded DEF Key
<1>10. answers' \in Seq(Link!Reply)
  BY <1>1, <1>2, <1>7, AppendProperties
<1>11. TypeOK'
  BY <1>1, <1>2, <1>3, <1>10 DEF IInv, TypeOK, Link!LinkTypeOK
<1>12. Asked(r.fun, r.ask)
  BY <1>3 DEF IInv, KeeperInv, RequestsInv
<1>13. RootKnown'
  BY <1>2, <1>12, QKeyAssumption DEF IInv, KeeperInv, RootKnown, Asked
<1>14. OwnerInv' /\ CallInv'
  BY <1>1, <1>2 DEF IInv, KeeperInv, OwnerInv, CallInv, Asked
<1>15. OnTheWayInv'
  BY <1>1, <1>2, <1>9 DEF IInv, KeeperInv, OnTheWayInv, KeyOnItsWay
<1>16. IsConfirmed(a) => Settled'
  <2>. SUFFICES ASSUME IsConfirmed(a) PROVE Settled'
    OBVIOUS
  <2>1. requests[1].fun = "confirm" /\ requests[1].ask = held /\ held # 0 /\ token'.root = held
    BY <1>3 DEF IsConfirmed
  <2>2. \A i \in 1..Len(requests') : Quiet(requests[i + 1])
    BY <1>3, <2>1 DEF IInv, KeeperInv, QuietInv
  <2>. QED  BY <1>2, <1>3, <2>1, <2>2 DEF Settled, Quiet
<1>17. Settled => Settled'
  <2>. SUFFICES ASSUME Settled PROVE Settled'
    OBVIOUS
  <2>1. r.fun # "init" /\ (token'.root = token.root \/ IsConfirmed(a))
    BY <1>3 DEF Settled, Quiet, IsConfirmed
  <2>. QED  BY <1>6, <1>16, <2>1
<1>18. SettledInv'
  BY <1>1, <1>2, <1>9, <1>16, <1>17 DEF IInv, KeeperInv, SettledInv
<1>. QED  BY <1>6, <1>9, <1>11, <1>13, <1>14, <1>15, <1>18 DEF IInv, KeeperInv

\* The same, of a request that leaves the root key alone.
LEMMA ExecuteSameRoot ==
    ASSUME IInv, NEW ok \in BOOLEAN, NEW said \in Said, Link!Execute(ok, said),
           UNCHANGED <<owner, result, keeperVars>>,
           \E k \in Candidates : token' = [token EXCEPT !.candidate = k],
           Head(requests).fun \notin {"update", "confirm", "init"} \/ ~ok
    PROVE  IInv'
<1>1. /\ token \in [root : Key, candidate : Key, made : Key]
      /\ token.made \in Nat /\ token.candidate \in {0, token.made}
  BY DEF IInv, TypeOK, KeeperInv, AnswersInv, Key
<1>2. PICK k \in {token.candidate, 0} : token' = [token EXCEPT !.candidate = k]
  BY DEF Candidates
<1>3. /\ token' \in [root : Key, candidate : Key, made : Key]
      /\ token'.root = token.root /\ token'.made = token.made /\ token'.candidate = k
  BY <1>1, <1>2 DEF Key
<1>4. token.made <= token'.made /\ token'.candidate \in {0, token'.made}
  BY <1>1, <1>2, <1>3
<1>. QED  BY <1>3, <1>4, ExecuteInv

LEMMA TokenStepInv ==
    ASSUME IInv, TokenStep, UNCHANGED keeperVars
    PROVE  IInv'
<1>1. UNCHANGED <<owner, result, keeperVars>>
  BY DEF TokenStep
<1>2. /\ token \in [root : Key, candidate : Key, made : Key] /\ token.made \in Nat
      /\ held \in Nat /\ held <= token.made /\ token.candidate \in {0, token.made}
  BY DEF IInv, TypeOK, KeeperInv, AnswersInv, Key
<1>3. requests # <<>> => Asked(Head(requests).fun, Head(requests).ask)
  BY HeadTailProperties DEF IInv, TypeOK, Link!LinkTypeOK, KeeperInv, RequestsInv
<1>4. NoData \in Said /\ (\A x \in Text : x \in Said) /\ (\A n \in Nat : n \in Said)
  BY DEF Said, Key
<1>5. token' = token => \E k \in Candidates : token' = [token EXCEPT !.candidate = k]
  BY <1>2 DEF Candidates
<1>6. CASE MakesRootKey
  <2>1. PICK k : /\ k = token.made + 1
                 /\ Head(requests).fun = "update" /\ Link!Execute(TRUE, k)
                 /\ token' = [token EXCEPT !.candidate = k, !.made = k]
    BY <1>6 DEF MakesRootKey
  <2>2. k \in Nat /\ token.made < k /\ k \in Key
    BY <1>2, <2>1 DEF Key
  <2>3. /\ token' \in [root : Key, candidate : Key, made : Key]
        /\ token'.root = token.root /\ token'.candidate = k /\ token'.made = k
    BY <1>2, <2>1, <2>2
  <2>4. /\ token.made <= token'.made /\ token'.candidate \in {0, token'.made}
        /\ k <= token'.made /\ k \in Said
    BY <1>2, <1>4, <2>2, <2>3
  <2>. QED  BY <1>1, <2>1, <2>2, <2>3, <2>4, ExecuteInv
<1>7. CASE InstallsRootKey
  <2>1. /\ requests # <<>> /\ Head(requests).fun = "confirm"
        /\ Head(requests).ask = token.candidate
        /\ token.candidate # 0 /\ Link!Execute(TRUE, NoData)
    BY <1>7 DEF InstallsRootKey
  <2>2. PICK k \in {token.candidate, 0} :
          token' = [token EXCEPT !.root = token.candidate, !.candidate = k]
    BY <1>7 DEF InstallsRootKey, Candidates
  <2>3. Head(requests).ask = held /\ held = token.made /\ held # 0
    BY <1>2, <1>3, <2>1, QKeyAssumption DEF Asked
  <2>4. /\ token' \in [root : Key, candidate : Key, made : Key] /\ token'.made = token.made
        /\ token'.root = token.candidate /\ token'.candidate = k
    <3>1. token.candidate \in Key /\ k \in Key
      BY <1>2, <2>2 DEF Key
    <3>. QED  BY <1>2, <2>2, <3>1
  <2>5. /\ token.made <= token'.made /\ token'.candidate \in {0, token'.made}
        /\ token'.root = held
    BY <1>2, <2>1, <2>2, <2>3, <2>4
  <2>. QED  BY <1>1, <1>4, <2>1, <2>3, <2>4, <2>5, ExecuteInv
<1>8. CASE IsIssued
  <2>1. /\ requests # <<>> /\ Head(requests).fun = "init" /\ Link!Execute(TRUE, NoData)
        /\ token' = [token EXCEPT !.root = Head(requests).ask]
    BY <1>8 DEF IsIssued
  <2>2. Head(requests).ask \in Key
    BY <1>3, <2>1 DEF Asked, FactoryKey, Key
  <2>3. /\ token' \in [root : Key, candidate : Key, made : Key] /\ token'.made = token.made
        /\ token'.root = Head(requests).ask /\ token'.candidate = token.candidate
    BY <1>2, <2>1, <2>2
  <2>4. token.made <= token'.made /\ token'.candidate \in {0, token'.made}
    BY <1>2, <2>3
  <2>. QED  BY <1>1, <1>4, <2>1, <2>3, <2>4, ExecuteInv
<1>9. CASE Restarts
  BY <1>1, <1>4, <1>9, ExecuteSameRoot DEF Restarts
<1>10. CASE Replies
  <2>1. /\ Head(requests).fun \in {"start", "auth", "check", "encrypt", "decrypt", "info"}
        /\ token' = token
    BY <1>10 DEF Replies
  <2>2. PICK x \in Text : Link!Execute(TRUE, x)
    BY <1>10 DEF Replies
  <2>. QED  BY <1>1, <1>4, <1>5, <2>1, <2>2, ExecuteSameRoot
<1>11. CASE Refuses
  BY <1>1, <1>4, <1>5, <1>11, ExecuteSameRoot DEF Refuses
<1>. QED  BY <1>6, <1>7, <1>8, <1>9, <1>10, <1>11 DEF TokenStep

--------------------------------------------------------------------------------
(* All steps, and the theorems. *)

LEMMA DriverStepInv ==
    ASSUME IInv, DriverStep, UNCHANGED keeperVars
    PROVE  IInv'
<1>1. CASE DriverReturns
  <2>1. PICK ok \in BOOLEAN : call # None /\ Returns(ok) /\ (ok => Worked)
    BY <1>1, Zenon DEF DriverReturns, GotStartInfo, GotAuthInfo, GotSession, GotText, GotRootKey,
                GotDeviceInfo, GotReply, Worked
  <2>. QED  BY <2>1, ReturnsInv
<1>2. CASE TokenStep
  BY <1>2, TokenStepInv
<1>3. CASE Unplugged
  <2>1. /\ answers \in Seq(Link!Reply) /\ requests \in Seq(Link!Request)
        /\ requests' = requests \/ requests' = <<>>
    BY <1>3 DEF IInv, TypeOK, Link!LinkTypeOK, Unplugged, Link!Lose
  <2>2. answers' \in Seq(Link!Reply) /\ Shift(answers, answers')
    <3>1. PICK m \in 1..Len(answers) + 1, n \in 0..Len(answers) : answers' = SubSeq(answers, m, n)
      BY <1>3 DEF Unplugged, Link!Lose
    <3>. QED  BY <2>1, <3>1, ShiftSubSeq
  <2>3. Shrunk
    BY <1>3, <2>1, <2>2, ShiftSame DEF Shrunk, Unplugged
  <2>. QED  BY <1>3, <2>3, EndsInv DEF Unplugged, Link!Lose
<1>4. CASE LinkStep
  <2>1. UNCHANGED <<token, owner, result, keeperVars>>
    BY <1>4 DEF LinkStep
  <2>2. CASE Link!Fail
    <3>1. Shrunk
      BY <2>1, <2>2, LeaveShrinks DEF Link!Fail
    <3>. QED  BY <2>1, <2>2, <3>1, EndsInv DEF Link!Fail
  <2>. QED  BY <1>4, <2>1, <2>2, SendInv, TakeInv DEF LinkStep
<1>5. CASE Crash
  <2>1. Shrunk
    BY <1>5, LeaveShrinks DEF Crash, Link!Crash
  <2>. QED  BY <1>5, <2>1, EndsInv DEF Crash, Link!Crash
<1>. QED  BY <1>1, <1>2, <1>3, <1>4, <1>5 DEF DriverStep

\* What the driver makes of a request that asks for d, or nothing.
LEMMA PassesOn ==
    ASSUME NEW d, NEW len
    PROVE  /\ ConfirmRootKey(d, len) \in {d, Refused}
           /\ GenAuthInfo(d, len) \in {d, Refused}
           /\ CheckAuthInfo(d, len) \in {d, Refused}
           /\ EncryptQuantumKeys(d, len) \in {d, Refused}
           /\ DecryptQuantumKeysByIndex(d, len) \in {d, Refused}
           /\ Prefix(d, len) \in {d, Garbage}
  BY DEF ConfirmRootKey, GenAuthInfo, CheckAuthInfo, EncryptQuantumKeys,
         DecryptQuantumKeysByIndex, ProcessTwoInTwoOut, Prefix

LEMMA CallAnyInv ==
    ASSUME IInv, NEW t \in Thread \ {Keeper}, CallAny(t)
    PROVE  IInv'
<1>1. \E fun \in Fun \ {"update", "confirm", "init"}, ask \in Ask \cup {Refused} :
        SendRec(t, fun, ask)
  <2>1. CASE GenStartInfo(t)
    BY <2>1 DEF GenStartInfo, Fun, Ask
  <2>2. CASE ResetLoad(t)
    BY <2>2 DEF ResetLoad, Fun, Ask
  <2>3. CASE GetDeviceInfo(t)
    BY <2>3 DEF GetDeviceInfo, Fun, Ask
  <2>4. CASE RestartByIndex(t)
    BY <2>4 DEF RestartByIndex, Fun, Ask
  <2>5. CASE ResetPINByIndex(t)
    BY <2>5 DEF ResetPINByIndex, Fun, Ask
  <2>6. ASSUME NEW x \in Text, NEW len \in Length,
               \/ genAuthInfo(t, x, len)
               \/ checkAuthInfo(t, x, len)
               \/ encryptQuantumKeys(t, x, len)
               \/ decryptQuantumKeys(t, x, len)
        PROVE  \E fun \in Fun \ {"update", "confirm", "init"}, ask \in Ask \cup {Refused} :
                   SendRec(t, fun, ask)
    <3>1. /\ \A d \in {x, Garbage} : d \in Ask
          /\ {"auth", "check", "encrypt", "decrypt"} \subseteq Fun \ {"update", "confirm", "init"}
          /\ Prefix(x, len) \in {x, Garbage} /\ Released(x) = {x, Garbage}
      BY PassesOn DEF Ask, Fun, Released
    <3>2. CASE genAuthInfo(t, x, len)
      BY <3>1, <3>2, PassesOn DEF genAuthInfo
    <3>3. CASE checkAuthInfo(t, x, len)
      BY <3>1, <3>3, PassesOn DEF checkAuthInfo
    <3>4. CASE encryptQuantumKeys(t, x, len)
      BY <3>1, <3>4, PassesOn DEF encryptQuantumKeys
    <3>5. CASE decryptQuantumKeys(t, x, len)
      BY <3>1, <3>5, PassesOn DEF decryptQuantumKeys
    <3>. QED  BY <2>6, <3>2, <3>3, <3>4, <3>5
  <2>. QED  BY <2>1, <2>2, <2>3, <2>4, <2>5, <2>6 DEF CallAny
<1>2. PICK fun \in Fun \ {"update", "confirm", "init"} :
        \E ask \in Ask \cup {Refused} : SendRec(t, fun, ask)
  BY <1>1
<1>3. PICK ask \in Ask \cup {Refused} : SendRec(t, fun, ask)
  BY <1>2
<1>4. held' = held /\ trusted' = trusted /\ trusted \subseteq Key
  BY DEF CallAny, keeperVars, IInv, TypeOK
<1>. QED  BY <1>2, <1>3, <1>4, SendRecInv

LEMMA KeeperCallsInv ==
    ASSUME IInv, Issue \/ Obtain \/ Confirm
    PROVE  IInv' /\ held' = held
<1>1. Keeper \in Thread /\ {"update", "confirm", "init"} \subseteq Fun
  BY QKeyAssumption DEF Fun
<1>2. trusted \subseteq Key /\ held \in Key
  BY DEF IInv, TypeOK
<1>3. CASE Issue
  <2>1. /\ SendRec(Keeper, "init", FactoryKey) /\ held = 0 /\ FactoryKey \in Ask
        /\ held' = held /\ trusted' = trusted
    BY <1>3 DEF Issue, InitQuantumKeysByIndex, keeperVars, Ask, Key, FactoryKey
  <2>. QED  BY <1>1, <1>2, <2>1, SendRecInv
<1>4. CASE Obtain
  <2>1. /\ SendRec(Keeper, "update", NoData) /\ NoData \in Ask
        /\ held' = held /\ trusted' = trusted
    BY <1>4 DEF Obtain, UpdateRootKey, keeperVars, Ask
  <2>. QED  BY <1>1, <1>2, <2>1, SendRecInv
<1>5. CASE Confirm
  <2>1. held # 0 /\ trusted' = trusted \cup {held} /\ held' = held
    BY <1>5 DEF Confirm
  <2>2. PICK len \in Length : confirmRootKey(Keeper, held, len)
    BY <1>5 DEF Confirm
  <2>3. PICK k \in Released(Prefix(held, len)) :
          SendRec(Keeper, "confirm", ConfirmRootKey(k, Byte(len)))
    BY <2>2 DEF confirmRootKey
  <2>4. /\ ConfirmRootKey(k, Byte(len)) \in {held, Garbage, Refused}
        /\ held \in Ask /\ Garbage \in Ask
    BY <1>2, PassesOn DEF Released, Ask
  <2>. QED  BY <1>1, <1>2, <2>1, <2>3, <2>4, SendRecInv
<1>. QED  BY <1>3, <1>4, <1>5

LEMMA InitInv == Init => IInv
<1>. SUFFICES ASSUME Init PROVE IInv
  OBVIOUS
<1>1. /\ call = None /\ requests = <<>> /\ answers = <<>> /\ owner = None /\ result = None
      /\ token = [root |-> 0, candidate |-> 0, made |-> 0] /\ held = 0 /\ trusted = {0}
  BY DEF Init, Link!LinkInit, FactoryKey
<1>2. TypeOK
  BY <1>1 DEF TypeOK, Link!LinkTypeOK, Key
<1>3. Len(answers) = 0 /\ Len(requests) = 0
  BY <1>1
<1>4. KeeperInv
  BY <1>1, <1>3, QKeyAssumption
     DEF KeeperInv, RootKnown, AnswersInv, Newer, Chain, OwnerInv, OnTheWayInv, RequestsInv,
         CallInv, QuietInv, SettledInv, NoneConfirmed, FactoryKey
<1>. QED  BY <1>2, <1>4 DEF IInv

LEMMA NextInv == IInv /\ [Next]_vars => IInv' /\ (held' # held => held' > held)
<1>. SUFFICES ASSUME IInv, [Next]_vars PROVE IInv' /\ (held' # held => held' > held)
  OBVIOUS
<1>1. CASE Issue \/ Obtain \/ Confirm
  BY <1>1, KeeperCallsInv
<1>2. CASE Learn
  BY <1>2, LearnInv
<1>3. CASE \E t \in Thread \ {Keeper} : CallAny(t)
  <2>1. PICK t \in Thread \ {Keeper} : CallAny(t)
    BY <1>3
  <2>2. held' = held
    BY <2>1 DEF CallAny, keeperVars
  <2>. QED  BY <2>1, <2>2, CallAnyInv
<1>4. CASE DriverStep /\ UNCHANGED keeperVars
  BY <1>4, DriverStepInv DEF keeperVars
<1>5. CASE UNCHANGED vars
  <2>1. UNCHANGED <<call, requests, answers, token, owner, result, held, trusted>>
    BY <1>5 DEF vars, linkVars, keeperVars
  <2>2. TypeOK'
    BY <2>1 DEF IInv, TypeOK, Link!LinkTypeOK
  <2>3. AnswersInv' /\ RootKnown' /\ QuietInv' /\ OwnerInv' /\ CallInv' /\ RequestsInv'
    BY <2>1 DEF IInv, KeeperInv, AnswersInv, RootKnown, QuietInv, Quiet, OwnerInv, CallInv,
                RequestsInv, Asked
  <2>4. OnTheWayInv' /\ SettledInv'
    BY <2>1 DEF IInv, KeeperInv, OnTheWayInv, SettledInv, KeyOnItsWay, Settled, Quiet
  <2>. QED  BY <2>1, <2>2, <2>3, <2>4 DEF IInv, KeeperInv
<1>. QED  BY <1>1, <1>2, <1>3, <1>4, <1>5 DEF Next

LEMMA Inductive == Spec => []IInv
<1>1. Init => IInv
  BY InitInv
<1>2. IInv /\ [Next]_vars => IInv'
  BY NextInv
<1>. QED  BY <1>1, <1>2, PTL DEF Spec

(* The calls, the token and what the keeper knows have the values that the code *)
(* of Qkey.c and jni_QKeyService.c can give them.                               *)
THEOREM Typed == Spec => []TypeOK
<1>1. IInv => TypeOK
  BY DEF IInv
<1>. QED  BY <1>1, Inductive, PTL

(* The keeper never loses the token, however many threads call, keys are made   *)
(* and calls fail: what confirmRootKey returned decides which root keys it may  *)
(* have.                                                                        *)
THEOREM RootIsKnown == Spec => []RootKnown
<1>1. IInv => RootKnown
  BY DEF IInv, KeeperInv
<1>. QED  BY <1>1, Inductive, PTL

(* updateRootKey, which may return what an earlier call asked for, never goes   *)
(* back to a root key that the keeper has replaced.                             *)
THEOREM KeysOnlyAdvance == Spec => KeysAdvance
<1>1. IInv /\ [Next]_vars => [held' # held => held' > held]_vars
  BY NextInv
<1>. QED  BY <1>1, Inductive, PTL DEF Spec, KeysAdvance
================================================================================
