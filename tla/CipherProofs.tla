------------------------------ MODULE CipherProofs -----------------------------
(***************************************************************************)
(* What Encrypt and Decrypt compute is the standard's AES in CBC mode, for    *)
(* every text, every key and however many threads generate the tables at the  *)
(* same time.                                                                 *)
(*                                                                            *)
(* From the bottom up: steps that are repeated (Steps), by induction; the     *)
(* exclusive or, bit by bit; columns, and the columns that take them back;    *)
(* the rounds by the generated tables, which are the standard's forth and     *)
(* take them back; the key schedules; a block; chains of blocks; the padding; *)
(* and then the threads.  Of the 256 bytes the proofs use what Aes assumes of *)
(* constants that have no parameter, which TLC computes: the tables of the    *)
(* ROM, the inverse substitution, and the multiplication by four factors.     *)
(***************************************************************************)
EXTENDS Cipher, WellFoundedInduction, SequenceTheorems, TLAPS

(* Induction over the naturals, with a set for the predicate.                  *)
LEMMA SetInduction ==
    ASSUME NEW S, 0 \in S, \A n \in Nat : n \in S => n + 1 \in S
    PROVE  \A n \in Nat : n \in S
<1> DEFINE R == OpToRel(<, Nat)
           T == {n \in Nat : n \notin S}
<1>1. IsWellFoundedOn(R, Nat)
  BY NatLessThanWellFounded
<1>2. SUFFICES ASSUME T # {} PROVE FALSE
  OBVIOUS
<1>3. T \subseteq Nat
  OBVIOUS
<1>. HIDE DEF R
<1>4. PICK m \in T : \A k \in T : <<k, m>> \notin R
  BY <1>1, <1>2, <1>3, WFMin
<1>5. m # 0 /\ m - 1 \in Nat /\ m - 1 \in T
  OBVIOUS
<1>6. <<m - 1, m>> \in R
  BY <1>5 DEF R, OpToRel
<1>. QED  BY <1>4, <1>5, <1>6

--------------------------------------------------------------------------------
(* Steps is defined: what it takes is there for the first n steps, and is the   *)
(* same whatever n.                                                             *)

StepsTo(G, x, n, g) == g = [i \in 0..n |-> IF i = 0 THEN x ELSE G[i][g[i - 1]]]

\* What takes m steps and what takes n agree as far as both go.
LEMMA StepsSame ==
    ASSUME NEW G, NEW x, NEW m \in Nat, NEW n \in Nat, NEW g, NEW h,
           StepsTo(G, x, m, g), StepsTo(G, x, n, h)
    PROVE  \A i \in Nat : i <= m /\ i <= n => g[i] = h[i]
<1> DEFINE S == {i \in Nat : i <= m /\ i <= n => g[i] = h[i]}
<1>1. 0 \in S
  BY DEF StepsTo
<1>2. \A i \in Nat : i \in S => i + 1 \in S
  <2>1. SUFFICES ASSUME NEW i \in Nat, i \in S, i + 1 <= m, i + 1 <= n PROVE g[i + 1] = h[i + 1]
    OBVIOUS
  <2>2. g[i] = h[i] /\ i + 1 \in 0..m /\ i + 1 \in 0..n /\ i + 1 # 0 /\ (i + 1) - 1 = i
    BY <2>1
  <2>3. g[i + 1] = G[i + 1][g[i]] /\ h[i + 1] = G[i + 1][h[i]]
    BY <2>2 DEF StepsTo
  <2>. QED  BY <2>2, <2>3
<1>. HIDE DEF S
<1>3. \A i \in Nat : i \in S
  BY <1>1, <1>2, SetInduction
<1>. QED  BY <1>3 DEF S

LEMMA StepsThere ==
    ASSUME NEW G, NEW x
    PROVE  \A n \in Nat : \E g : StepsTo(G, x, n, g)
<1> DEFINE S == {n \in Nat : \E g : StepsTo(G, x, n, g)}
<1>1. 0 \in S
  <2>1. StepsTo(G, x, 0, [i \in 0..0 |-> x])
    BY DEF StepsTo
  <2>. QED  BY <2>1
<1>2. \A n \in Nat : n \in S => n + 1 \in S
  <2>1. SUFFICES ASSUME NEW n \in Nat, NEW g, StepsTo(G, x, n, g)
                 PROVE  \E h : StepsTo(G, x, n + 1, h)
    OBVIOUS
  <2> DEFINE h == [i \in 0..n + 1 |-> IF i = n + 1 THEN G[n + 1][g[n]] ELSE g[i]]
  <2>2. \A i \in 0..n + 1 : h[i] = IF i = 0 THEN x ELSE G[i][h[i - 1]]
    <3>1. SUFFICES ASSUME NEW i \in 0..n + 1 PROVE h[i] = IF i = 0 THEN x ELSE G[i][h[i - 1]]
      OBVIOUS
    <3>2. CASE i = 0
      BY <2>1, <3>2 DEF StepsTo
    <3>3. CASE i # 0 /\ i = n + 1
      BY <2>1, <3>3 DEF StepsTo
    <3>4. CASE i # 0 /\ i # n + 1
      <4>1. i \in 0..n /\ i - 1 \in 0..n /\ i - 1 # n + 1 /\ i - 1 \in 0..n + 1
        BY <3>4
      <4>2. h[i] = g[i] /\ h[i - 1] = g[i - 1]
        BY <3>4, <4>1
      <4>3. g[i] = G[i][g[i - 1]]
        BY <2>1, <3>4, <4>1 DEF StepsTo
      <4>. QED  BY <3>4, <4>2, <4>3
    <3>. QED  BY <3>2, <3>3, <3>4
  <2>3. h = [i \in 0..n + 1 |-> IF i = 0 THEN x ELSE G[i][h[i - 1]]]
    <3>1. h = [i \in 0..n + 1 |-> h[i]]
      OBVIOUS
    <3>. HIDE DEF h
    <3>. QED  BY <2>2, <3>1
  <2>. HIDE DEF h
  <2>. QED  BY <2>3 DEF StepsTo
<1>. HIDE DEF S
<1>3. \A n \in Nat : n \in S
  BY <1>1, <1>2, SetInduction
<1>. QED  BY <1>3 DEF S

(* Nothing is done in no steps, and n steps are one more than n - 1.            *)
LEMMA StepsRight ==
    ASSUME NEW G, NEW x
    PROVE  /\ Steps(G, x)[0] = x
           /\ \A n \in Nat : n # 0 => Steps(G, x)[n] = G[n][Steps(G, x)[n - 1]]
<1> DEFINE A(n) == CHOOSE g : StepsTo(G, x, n, g)
           f == [n \in Nat |-> A(n)[n]]
<1>1. \A n \in Nat : StepsTo(G, x, n, A(n))
  BY StepsThere
<1>. HIDE DEF A
<1>2. \A n \in Nat : f[n] = IF n = 0 THEN x ELSE G[n][f[n - 1]]
  <2>1. SUFFICES ASSUME NEW n \in Nat PROVE f[n] = IF n = 0 THEN x ELSE G[n][f[n - 1]]
    OBVIOUS
  <2>2. A(n)[n] = IF n = 0 THEN x ELSE G[n][A(n)[n - 1]]
    BY <1>1 DEF StepsTo
  <2>3. ASSUME n # 0 PROVE A(n)[n - 1] = A(n - 1)[n - 1]
    <3>1. n - 1 \in Nat /\ n - 1 <= n /\ n - 1 <= n - 1
      BY <2>3
    <3>2. StepsTo(G, x, n, A(n)) /\ StepsTo(G, x, n - 1, A(n - 1))
      BY <1>1, <3>1
    <3>. QED  BY <3>1, <3>2, StepsSame
  <2>4. n # 0 => f[n - 1] = A(n - 1)[n - 1]
    OBVIOUS
  <2>. QED  BY <2>2, <2>3, <2>4
<1>3. f = [n \in Nat |-> IF n = 0 THEN x ELSE G[n][f[n - 1]]]
  <2>1. f = [n \in Nat |-> f[n]]
    OBVIOUS
  <2>. HIDE DEF f
  <2>. QED  BY <1>2, <2>1
<1>. HIDE DEF f
<1>4. Steps(G, x) = [n \in Nat |-> IF n = 0 THEN x ELSE G[n][Steps(G, x)[n - 1]]]
  BY <1>3 DEF Steps
<1>. QED  BY <1>4

\* What is in S[n] after n steps is in S[n + 1] after the next, for m steps.
Keeps(G, m, S) == \A n \in Nat : n < m => \A v \in S[n] : G[n + 1][v] \in S[n + 1]
\* There, H does in each step what G does.
Copies(H, G, m, S) == \A n \in Nat : n < m => \A v \in S[n] : H[n + 1][v] = G[n + 1][v]

(* What each step keeps is kept by all.                                         *)
LEMMA StepsKeep ==
    ASSUME NEW G, NEW x, NEW m \in Nat, NEW S, x \in S[0], Keeps(G, m, S)
    PROVE  \A n \in Nat : n <= m => Steps(G, x)[n] \in S[n]
<1> DEFINE U == {n \in Nat : n <= m => Steps(G, x)[n] \in S[n]}
<1>1. 0 \in U
  BY StepsRight
<1>2. \A n \in Nat : n \in U => n + 1 \in U
  <2>1. SUFFICES ASSUME NEW n \in Nat, n + 1 <= m, Steps(G, x)[n] \in S[n]
                 PROVE  Steps(G, x)[n + 1] \in S[n + 1]
    OBVIOUS
  <2>2. n + 1 \in Nat /\ n + 1 # 0 /\ (n + 1) - 1 = n /\ n < m
    BY <2>1
  <2>3. Steps(G, x)[n + 1] = G[n + 1][Steps(G, x)[n]]
    BY <2>2, StepsRight
  <2>. QED  BY <2>1, <2>2, <2>3 DEF Keeps
<1>. HIDE DEF U
<1>3. \A n \in Nat : n \in U
  BY <1>1, <1>2, SetInduction
<1>. QED  BY <1>3 DEF U

(* Two that do the same in each step do the same in all.                        *)
LEMMA StepsAgree ==
    ASSUME NEW G, NEW H, NEW x, NEW m \in Nat, NEW S, x \in S[0],
           Keeps(G, m, S), Copies(H, G, m, S)
    PROVE  \A n \in Nat : n <= m => Steps(H, x)[n] = Steps(G, x)[n]
<1>2. \A n \in Nat : n <= m => Steps(G, x)[n] \in S[n]
  BY StepsKeep
<1> DEFINE U == {n \in Nat : n <= m => Steps(H, x)[n] = Steps(G, x)[n]}
<1>3. 0 \in U
  BY StepsRight
<1>4. \A n \in Nat : n \in U => n + 1 \in U
  <2>1. SUFFICES ASSUME NEW n \in Nat, n \in U, n + 1 <= m
                 PROVE  Steps(H, x)[n + 1] = Steps(G, x)[n + 1]
    OBVIOUS
  <2>2. n + 1 \in Nat /\ n + 1 # 0 /\ (n + 1) - 1 = n /\ n < m
    BY <2>1
  <2>3. Steps(G, x)[n + 1] = G[n + 1][Steps(G, x)[n]]
    BY <2>2, StepsRight
  <2>4. Steps(H, x)[n + 1] = H[n + 1][Steps(H, x)[n]]
    BY <2>2, StepsRight
  <2>5. Steps(G, x)[n] \in S[n] /\ Steps(H, x)[n] = Steps(G, x)[n]
    BY <1>2, <2>1, <2>2
  <2>6. \A v \in S[n] : H[n + 1][v] = G[n + 1][v]
    BY <2>2 DEF Copies
  <2>. QED  BY <2>3, <2>4, <2>5, <2>6
<1>. HIDE DEF U
<1>5. \A n \in Nat : n \in U
  BY <1>3, <1>4, SetInduction
<1>. QED  BY <1>5 DEF U

--------------------------------------------------------------------------------
(* The exclusive or of bytes is a commutative group in which each byte is its   *)
(* own inverse.                                                                 *)

\* The number that has these bits.
OfBits(p, q, r, s, t, u, v, w) ==
    p + 2 * q + 4 * r + 8 * s + 16 * t + 32 * u + 64 * v + 128 * w

\* Such a number is a byte, and has those bits.
LEMMA BitsOfSum ==
    ASSUME NEW p \in 0..1, NEW q \in 0..1, NEW r \in 0..1, NEW s \in 0..1,
           NEW t \in 0..1, NEW u \in 0..1, NEW v \in 0..1, NEW w \in 0..1,
           NEW a, a = OfBits(p, q, r, s, t, u, v, w)
    PROVE  /\ a \in Byte
           /\ Bit(a, 1) = p /\ Bit(a, 2) = q /\ Bit(a, 4) = r /\ Bit(a, 8) = s
           /\ Bit(a, 16) = t /\ Bit(a, 32) = u /\ Bit(a, 64) = v /\ Bit(a, 128) = w
BY DEF Bit, OfBits, Byte

\* A byte is the sum of its bits.
LEMMA SumOfBits ==
    ASSUME NEW a \in Byte
    PROVE  /\ a = OfBits(Bit(a, 1), Bit(a, 2), Bit(a, 4), Bit(a, 8),
                         Bit(a, 16), Bit(a, 32), Bit(a, 64), Bit(a, 128))
           /\ Bit(a, 1) \in 0..1 /\ Bit(a, 2) \in 0..1 /\ Bit(a, 4) \in 0..1
           /\ Bit(a, 8) \in 0..1 /\ Bit(a, 16) \in 0..1 /\ Bit(a, 32) \in 0..1
           /\ Bit(a, 64) \in 0..1 /\ Bit(a, 128) \in 0..1
BY DEF Byte, Bit, OfBits

\* The exclusive or, written out.
LEMMA XorSum ==
    ASSUME NEW a \in Byte, NEW b \in Byte
    PROVE  Xor[a][b] = XorBit(a, b, 1) + XorBit(a, b, 2) + XorBit(a, b, 4) + XorBit(a, b, 8)
                         + XorBit(a, b, 16) + XorBit(a, b, 32) + XorBit(a, b, 64) + XorBit(a, b, 128)
<1> DEFINE G == [n \in Nat |-> [s \in Nat |-> s + XorBit(a, b, Weight[n])]]
           S(n) == Steps(G, 0)[n]
<1>1. Xor[a][b] = S(8)
  BY DEF Xor
<1>2. \A w \in Nat : XorBit(a, b, w) \in Nat
  BY DEF XorBit
<1>. HIDE DEF G
<1>3. S(0) = 0 /\ \A n \in Nat : n # 0 => S(n) = G[n][S(n - 1)]
  BY StepsRight
<1>4. \A n \in 1..8 : Weight[n] \in Nat
  BY DEF Weight
<1>. HIDE DEF S
<1>5. ASSUME NEW n \in Nat, n + 1 \in 1..8, S(n) \in Nat
      PROVE  S(n + 1) = S(n) + XorBit(a, b, Weight[n + 1]) /\ S(n + 1) \in Nat
  <2>1. n + 1 \in Nat /\ n + 1 # 0 /\ (n + 1) - 1 = n
    OBVIOUS
  <2>2. S(n + 1) = G[n + 1][S(n)]
    BY <1>3, <2>1
  <2>3. G[n + 1] = [s \in Nat |-> s + XorBit(a, b, Weight[n + 1])]
    BY <2>1 DEF G
  <2>4. S(n + 1) = S(n) + XorBit(a, b, Weight[n + 1])
    BY <1>5, <2>2, <2>3
  <2>5. PICK w \in Nat : w = Weight[n + 1]
    BY <1>4, <1>5
  <2>6. XorBit(a, b, w) \in Nat
    BY <1>2
  <2>7. S(n) + XorBit(a, b, w) \in Nat
    BY <1>5, <2>6
  <2>. QED  BY <2>4, <2>5, <2>7
<1>6. S(1) = XorBit(a, b, 1) /\ S(1) \in Nat
  <2>1. S(0 + 1) = S(0) + XorBit(a, b, Weight[0 + 1])
    BY <1>3, <1>5
  <2>2. XorBit(a, b, 1) \in Nat
    BY <1>2
  <2>. QED  BY <1>3, <2>1, <2>2 DEF Weight
<1>7. S(2) = S(1) + XorBit(a, b, 2) /\ S(2) \in Nat
  <2>1. S(1 + 1) = S(1) + XorBit(a, b, Weight[1 + 1]) /\ S(1 + 1) \in Nat
    BY <1>5, <1>6
  <2>. QED  BY <2>1 DEF Weight
<1>8. S(3) = S(2) + XorBit(a, b, 4) /\ S(3) \in Nat
  <2>1. S(2 + 1) = S(2) + XorBit(a, b, Weight[2 + 1]) /\ S(2 + 1) \in Nat
    BY <1>5, <1>7
  <2>. QED  BY <2>1 DEF Weight
<1>9. S(4) = S(3) + XorBit(a, b, 8) /\ S(4) \in Nat
  <2>1. S(3 + 1) = S(3) + XorBit(a, b, Weight[3 + 1]) /\ S(3 + 1) \in Nat
    BY <1>5, <1>8
  <2>. QED  BY <2>1 DEF Weight
<1>10. S(5) = S(4) + XorBit(a, b, 16) /\ S(5) \in Nat
  <2>1. S(4 + 1) = S(4) + XorBit(a, b, Weight[4 + 1]) /\ S(4 + 1) \in Nat
    BY <1>5, <1>9
  <2>. QED  BY <2>1 DEF Weight
<1>11. S(6) = S(5) + XorBit(a, b, 32) /\ S(6) \in Nat
  <2>1. S(5 + 1) = S(5) + XorBit(a, b, Weight[5 + 1]) /\ S(5 + 1) \in Nat
    BY <1>5, <1>10
  <2>. QED  BY <2>1 DEF Weight
<1>12. S(7) = S(6) + XorBit(a, b, 64) /\ S(7) \in Nat
  <2>1. S(6 + 1) = S(6) + XorBit(a, b, Weight[6 + 1]) /\ S(6 + 1) \in Nat
    BY <1>5, <1>11
  <2>. QED  BY <2>1 DEF Weight
<1>13. S(8) = S(7) + XorBit(a, b, 128) /\ S(8) \in Nat
  <2>1. S(7 + 1) = S(7) + XorBit(a, b, Weight[7 + 1]) /\ S(7 + 1) \in Nat
    BY <1>5, <1>12
  <2>. QED  BY <2>1 DEF Weight
<1>. QED  BY <1>1, <1>6, <1>7, <1>8, <1>9, <1>10, <1>11, <1>12, <1>13

OneOf(p, q) == IF p = q THEN 0 ELSE 1

\* The bits of an exclusive or.
LEMMA XorOfBits ==
    ASSUME NEW a \in Byte, NEW b \in Byte
    PROVE  /\ Xor[a][b] \in Byte
           /\ Bit(Xor[a][b], 1) = OneOf(Bit(a, 1), Bit(b, 1))
           /\ Bit(Xor[a][b], 2) = OneOf(Bit(a, 2), Bit(b, 2))
           /\ Bit(Xor[a][b], 4) = OneOf(Bit(a, 4), Bit(b, 4))
           /\ Bit(Xor[a][b], 8) = OneOf(Bit(a, 8), Bit(b, 8))
           /\ Bit(Xor[a][b], 16) = OneOf(Bit(a, 16), Bit(b, 16))
           /\ Bit(Xor[a][b], 32) = OneOf(Bit(a, 32), Bit(b, 32))
           /\ Bit(Xor[a][b], 64) = OneOf(Bit(a, 64), Bit(b, 64))
           /\ Bit(Xor[a][b], 128) = OneOf(Bit(a, 128), Bit(b, 128))
<1> DEFINE X(w) == OneOf(Bit(a, w), Bit(b, w))
<1>1. \A w \in Nat : XorBit(a, b, w) = w * X(w) /\ X(w) \in 0..1
  BY DEF XorBit, OneOf
<1>2. Xor[a][b] = XorBit(a, b, 1) + XorBit(a, b, 2) + XorBit(a, b, 4) + XorBit(a, b, 8)
          + XorBit(a, b, 16) + XorBit(a, b, 32) + XorBit(a, b, 64) + XorBit(a, b, 128)
  BY XorSum
<1>. HIDE DEF X
<1>3. /\ XorBit(a, b, 1) = X(1) /\ XorBit(a, b, 2) = 2 * X(2) /\ XorBit(a, b, 4) = 4 * X(4)
      /\ XorBit(a, b, 8) = 8 * X(8) /\ XorBit(a, b, 16) = 16 * X(16)
      /\ XorBit(a, b, 32) = 32 * X(32) /\ XorBit(a, b, 64) = 64 * X(64)
      /\ XorBit(a, b, 128) = 128 * X(128)
      /\ X(1) \in 0..1 /\ X(2) \in 0..1 /\ X(4) \in 0..1 /\ X(8) \in 0..1
      /\ X(16) \in 0..1 /\ X(32) \in 0..1 /\ X(64) \in 0..1 /\ X(128) \in 0..1
  BY <1>1
<1>4. Xor[a][b] = OfBits(X(1), X(2), X(4), X(8), X(16), X(32), X(64), X(128))
  BY <1>2, <1>3 DEF OfBits
<1>. QED  BY <1>3, <1>4, BitsOfSum DEF X

LEMMA XorType == \A a, b \in Byte : Xor[a][b] \in Byte
BY XorOfBits

Weights == {1, 2, 4, 8, 16, 32, 64, 128}

LEMMA XorBits ==
    \A a, b \in Byte : \A w \in Weights :
        /\ Bit(a, w) \in 0..1 /\ Bit(b, w) \in 0..1
        /\ Bit(Xor[a][b], w) = OneOf(Bit(a, w), Bit(b, w))
<1>1. ASSUME NEW a \in Byte, NEW b \in Byte, NEW w \in Weights
      PROVE  Bit(Xor[a][b], w) = OneOf(Bit(a, w), Bit(b, w))
  BY XorOfBits DEF Weights
<1>2. ASSUME NEW a \in Byte, NEW w \in Weights
      PROVE  Bit(a, w) \in 0..1
  BY SumOfBits DEF Weights
<1>. QED  BY <1>1, <1>2

\* A byte is known by its bits.
LEMMA SameBits ==
    ASSUME NEW a \in Byte, NEW b \in Byte, \A w \in Weights : Bit(a, w) = Bit(b, w)
    PROVE  a = b
<1>1. a = OfBits(Bit(a, 1), Bit(a, 2), Bit(a, 4), Bit(a, 8),
                 Bit(a, 16), Bit(a, 32), Bit(a, 64), Bit(a, 128))
  BY SumOfBits
<1>2. b = OfBits(Bit(b, 1), Bit(b, 2), Bit(b, 4), Bit(b, 8),
                 Bit(b, 16), Bit(b, 32), Bit(b, 64), Bit(b, 128))
  BY SumOfBits
<1>3. /\ Bit(a, 1) = Bit(b, 1) /\ Bit(a, 2) = Bit(b, 2) /\ Bit(a, 4) = Bit(b, 4)
      /\ Bit(a, 8) = Bit(b, 8) /\ Bit(a, 16) = Bit(b, 16) /\ Bit(a, 32) = Bit(b, 32)
      /\ Bit(a, 64) = Bit(b, 64) /\ Bit(a, 128) = Bit(b, 128)
  BY DEF Weights
<1>. QED  BY <1>1, <1>2, <1>3

LEMMA XorCommutes == \A a, b \in Byte : Xor[a][b] = Xor[b][a]
<1>1. \A a, b \in Byte : \A w \in Nat : XorBit(a, b, w) = XorBit(b, a, w)
  BY DEF XorBit
<1>. QED  BY <1>1, XorSum

\* The exclusive or associates, bit by bit.
LEMMA XorAssociates == \A a, b, c \in Byte : Xor[Xor[a][b]][c] = Xor[a][Xor[b][c]]
<1>. SUFFICES ASSUME NEW a \in Byte, NEW b \in Byte, NEW c \in Byte
              PROVE  Xor[Xor[a][b]][c] = Xor[a][Xor[b][c]]
  OBVIOUS
<1>1. PICK p \in Byte, q \in Byte : p = Xor[a][b] /\ q = Xor[b][c]
  BY XorType
<1>2. Xor[p][c] \in Byte /\ Xor[a][q] \in Byte
  BY XorType
<1>3. ASSUME NEW w \in Weights PROVE Bit(Xor[p][c], w) = Bit(Xor[a][q], w)
  <2>1. Bit(p, w) = OneOf(Bit(a, w), Bit(b, w)) /\ Bit(q, w) = OneOf(Bit(b, w), Bit(c, w))
    BY <1>1, XorBits
  <2>2. Bit(Xor[p][c], w) = OneOf(Bit(p, w), Bit(c, w))
        /\ Bit(Xor[a][q], w) = OneOf(Bit(a, w), Bit(q, w))
    BY XorBits
  <2>3. Bit(a, w) \in 0..1 /\ Bit(b, w) \in 0..1 /\ Bit(c, w) \in 0..1
    BY XorBits
  <2>. QED  BY <2>1, <2>2, <2>3 DEF OneOf
<1>. QED  BY <1>1, <1>2, <1>3, SameBits

LEMMA XorZero == \A a \in Byte : Xor[a][0] = a /\ Xor[a][a] = 0
<1>1. SUFFICES ASSUME NEW a \in Byte PROVE Xor[a][0] = a /\ Xor[a][a] = 0
  OBVIOUS
<1>2. 0 \in Byte /\ \A w \in Weights : Bit(0, w) = 0
  BY DEF Byte, Bit, Weights
<1>3. Xor[a][a] = 0
  <2>1. \A w \in Nat : XorBit(a, a, w) = 0
    BY DEF XorBit
  <2>. QED  BY <2>1, XorSum
<1>4. \A w \in Weights : Bit(Xor[a][0], w) = Bit(a, w)
  BY <1>2, XorBits DEF OneOf
<1>5. Xor[a][0] \in Byte
  BY <1>2, XorType
<1>. QED  BY <1>3, <1>4, <1>5, SameBits

--------------------------------------------------------------------------------
(* Four bytes together, and their columns.                                      *)

LEMMA FourType == \A p, q, r, s \in Byte : Four(p, q, r, s) \in Byte
BY XorType DEF Four

LEMMA TimesType == \A x \in Byte : XTIME(x) \in Byte /\ Times3(x) \in Byte
<1>1. SUFFICES ASSUME NEW x \in Byte PROVE XTIME(x) \in Byte /\ Times3(x) \in Byte
  OBVIOUS
<1>2. x < 128 => 2 * x \in Byte
  BY DEF Byte
<1>3. ~(x < 128) => 2 * x - 256 \in Byte
  BY DEF Byte
<1>4. 27 \in Byte
  BY DEF Byte
<1>5. XTIME(x) \in Byte
  BY <1>2, <1>3, <1>4, XorType DEF XTIME
<1>. QED  BY <1>5, XorType DEF Times3

\* Exclusive ors in any order.
LEMMA XorSwap ==
    \A a, b, c, d \in Byte : Xor[Xor[a][b]][Xor[c][d]] = Xor[Xor[a][c]][Xor[b][d]]
<1>. SUFFICES ASSUME NEW a \in Byte, NEW b \in Byte, NEW c \in Byte, NEW d \in Byte
              PROVE  Xor[Xor[a][b]][Xor[c][d]] = Xor[Xor[a][c]][Xor[b][d]]
  OBVIOUS
<1>1. PICK e \in Byte, f \in Byte : e = Xor[c][d] /\ f = Xor[b][d]
  BY XorType
<1>2. Xor[Xor[a][b]][e] = Xor[a][Xor[b][e]] /\ Xor[Xor[a][c]][f] = Xor[a][Xor[c][f]]
  BY XorAssociates
<1>3. Xor[b][e] = Xor[Xor[b][c]][d] /\ Xor[c][f] = Xor[Xor[c][b]][d]
  BY <1>1, XorAssociates
<1>4. Xor[b][c] = Xor[c][b]
  BY XorCommutes
<1>. QED  BY <1>1, <1>2, <1>3, <1>4

\* The equations by name, for the provers to instantiate.
Associates(a, b, c) == Xor[Xor[a][b]][c] = Xor[a][Xor[b][c]]
Swaps(a, b, c, d) == Xor[Xor[a][b]][Xor[c][d]] = Xor[Xor[a][c]][Xor[b][d]]
PairsUp(p, q, r, s, a, b, c, d) ==
    Four(Xor[p][a], Xor[q][b], Xor[r][c], Xor[s][d]) = Xor[Four(p, q, r, s)][Four(a, b, c, d)]

LEMMA EachAssociates == \A a, b, c \in Byte : Associates(a, b, c)
BY XorAssociates DEF Associates
LEMMA EachSwaps == \A a, b, c, d \in Byte : Swaps(a, b, c, d)
BY XorSwap DEF Swaps

Turns(p, q, r, s) == Four(p, q, r, s) = Four(s, p, q, r)
LEMMA FourTurns == \A p, q, r, s \in Byte : Turns(p, q, r, s)
<1>. SUFFICES ASSUME NEW p \in Byte, NEW q \in Byte, NEW r \in Byte, NEW s \in Byte
              PROVE  Turns(p, q, r, s)
  OBVIOUS
<1>1. Xor[Xor[q][p]][Xor[r][s]] = Xor[Xor[q][r]][Xor[p][s]]
  BY XorSwap
<1>2. Xor[p][q] = Xor[q][p] /\ Xor[p][s] = Xor[s][p]
  BY XorCommutes
<1>3. Xor[q][r] \in Byte /\ Xor[s][p] \in Byte
  BY XorType
<1>. QED  BY <1>1, <1>2, <1>3, XorCommutes DEF Four, Turns

LEMMA FourOfPairs == \A p, q, r, s, a, b, c, d \in Byte : PairsUp(p, q, r, s, a, b, c, d)
<1>. SUFFICES ASSUME NEW p \in Byte, NEW q \in Byte, NEW r \in Byte, NEW s \in Byte,
                     NEW a \in Byte, NEW b \in Byte, NEW c \in Byte, NEW d \in Byte
              PROVE  PairsUp(p, q, r, s, a, b, c, d)
  OBVIOUS
<1>1. PICK e \in Byte, f \in Byte, g \in Byte, h \in Byte :
          e = Xor[p][q] /\ f = Xor[r][s] /\ g = Xor[a][b] /\ h = Xor[c][d]
  BY XorType
<1>2. Swaps(p, a, q, b) /\ Swaps(r, c, s, d) /\ Swaps(e, g, f, h)
  BY EachSwaps
<1>3. Xor[Xor[p][a]][Xor[q][b]] = Xor[e][g] /\ Xor[Xor[r][c]][Xor[s][d]] = Xor[f][h]
  BY <1>1, <1>2 DEF Swaps
<1>4. Xor[Xor[e][g]][Xor[f][h]] = Xor[Xor[e][f]][Xor[g][h]]
  BY <1>2 DEF Swaps
<1>. QED  BY <1>1, <1>3, <1>4 DEF Four, PairsUp

\* Sixteen bytes, by rows or by columns.
LEMMA FourOfFours ==
    ASSUME NEW a \in [1..4 -> Byte], NEW b \in [1..4 -> Byte],
           NEW c \in [1..4 -> Byte], NEW d \in [1..4 -> Byte]
    PROVE  Four(Four(a[1], a[2], a[3], a[4]), Four(b[1], b[2], b[3], b[4]),
                Four(c[1], c[2], c[3], c[4]), Four(d[1], d[2], d[3], d[4]))
         = Four(Four(a[1], b[1], c[1], d[1]), Four(a[2], b[2], c[2], d[2]),
                Four(a[3], b[3], c[3], d[3]), Four(a[4], b[4], c[4], d[4]))
<1> DEFINE ab(i) == Xor[a[i]][b[i]]
           cd(i) == Xor[c[i]][d[i]]
<1>1. \A i \in 1..4 : a[i] \in Byte /\ b[i] \in Byte /\ c[i] \in Byte /\ d[i] \in Byte
                      /\ ab(i) \in Byte /\ cd(i) \in Byte
  BY XorType
<1>2. 1 \in 1..4 /\ 2 \in 1..4 /\ 3 \in 1..4 /\ 4 \in 1..4
  OBVIOUS
<1>. HIDE DEF ab, cd
<1>3. /\ PairsUp(a[1], a[2], a[3], a[4], b[1], b[2], b[3], b[4])
      /\ PairsUp(c[1], c[2], c[3], c[4], d[1], d[2], d[3], d[4])
      /\ PairsUp(ab(1), ab(2), ab(3), ab(4), cd(1), cd(2), cd(3), cd(4))
  BY <1>1, <1>2, FourOfPairs
<1>4. Xor[Four(a[1], a[2], a[3], a[4])][Four(b[1], b[2], b[3], b[4])]
          = Four(ab(1), ab(2), ab(3), ab(4))
  BY <1>3 DEF PairsUp, ab
<1>5. Xor[Four(c[1], c[2], c[3], c[4])][Four(d[1], d[2], d[3], d[4])]
          = Four(cd(1), cd(2), cd(3), cd(4))
  BY <1>3 DEF PairsUp, cd
<1>6. Xor[Four(ab(1), ab(2), ab(3), ab(4))][Four(cd(1), cd(2), cd(3), cd(4))]
          = Four(Xor[ab(1)][cd(1)], Xor[ab(2)][cd(2)], Xor[ab(3)][cd(3)], Xor[ab(4)][cd(4)])
  BY <1>3 DEF PairsUp
<1>7. \A i \in 1..4 : Xor[ab(i)][cd(i)] = Four(a[i], b[i], c[i], d[i])
  BY DEF ab, cd, Four
<1>8. Four(Four(a[1], a[2], a[3], a[4]), Four(b[1], b[2], b[3], b[4]),
           Four(c[1], c[2], c[3], c[4]), Four(d[1], d[2], d[3], d[4]))
      = Xor[Four(ab(1), ab(2), ab(3), ab(4))][Four(cd(1), cd(2), cd(3), cd(4))]
  <2>1. \A w, x, y, z : Four(w, x, y, z) = Xor[Xor[w][x]][Xor[y][z]]
    BY DEF Four
  <2>. QED  BY <1>4, <1>5, <2>1
<1>. QED  BY <1>2, <1>6, <1>7, <1>8

\* To a key, one after the other or together.
InTurn(k, p, q, r, s) == Xor[Xor[Xor[Xor[k][p]][q]][r]][s] = Xor[k][Four(p, q, r, s)]
LEMMA FourInTurn == \A k, p, q, r, s \in Byte : InTurn(k, p, q, r, s)
<1>. SUFFICES ASSUME NEW k \in Byte, NEW p \in Byte, NEW q \in Byte, NEW r \in Byte, NEW s \in Byte
              PROVE  InTurn(k, p, q, r, s)
  OBVIOUS
<1>1. PICK e \in Byte, f \in Byte, g \in Byte :
          e = Xor[p][q] /\ f = Xor[r][s] /\ g = Xor[k][e]
  BY XorType
<1>2. /\ Associates(k, p, q) /\ Associates(g, r, s) /\ Associates(k, e, f)
  BY EachAssociates
<1>3. Xor[Xor[k][p]][q] = g /\ Xor[Xor[g][r]][s] = Xor[g][f] /\ Xor[g][f] = Xor[k][Xor[e][f]]
  BY <1>1, <1>2 DEF Associates
<1>. QED  BY <1>1, <1>3 DEF Four, InTurn

\* Each of the four factors multiplies a sum term by term.
LEMMA MulOfFour ==
    \A c \in Factors : \A p, q, r, s \in Byte :
        MUL(c, Four(p, q, r, s)) = Four(MUL(c, p), MUL(c, q), MUL(c, r), MUL(c, s))
<1>. SUFFICES ASSUME NEW c \in Factors,
                     NEW p \in Byte, NEW q \in Byte, NEW r \in Byte, NEW s \in Byte
              PROVE  MUL(c, Four(p, q, r, s)) = Four(MUL(c, p), MUL(c, q), MUL(c, r), MUL(c, s))
  OBVIOUS
<1>1. PICK e \in Byte, f \in Byte : e = Xor[p][q] /\ f = Xor[r][s]
  BY XorType
<1>2. MUL(c, e) = Xor[MUL(c, p)][MUL(c, q)] /\ MUL(c, f) = Xor[MUL(c, r)][MUL(c, s)]
  BY <1>1, MulLinear
<1>3. MUL(c, Xor[e][f]) = Xor[MUL(c, e)][MUL(c, f)]
  BY MulLinear
<1>. QED  BY <1>1, <1>2, <1>3 DEF Four

--------------------------------------------------------------------------------
(* What aes_setkey_dec and the rounds back do to a column takes back what the   *)
(* rounds forth do.                                                             *)

Mixed(a, b, c, d) == Four(XTIME(a), Times3(b), c, d)

LEMMA MulType == \A c \in Factors, x \in Byte : MUL(c, x) \in Byte
BY MulLinear

\* The inverse column takes back what a column has mixed, byte by byte ...
LEMMA UnmixedMixed ==
    ASSUME NEW a \in Byte, NEW b \in Byte, NEW c \in Byte, NEW d \in Byte
    PROVE  Unmixed(Mixed(a, b, c, d), Mixed(b, c, d, a), Mixed(c, d, a, b), Mixed(d, a, b, c)) = a
<1> DEFINE M(k, x) == MUL(k, x)
<1>1. \A x \in Byte : XTIME(x) \in Byte /\ Times3(x) \in Byte
  BY TimesType
<1>2. \A k \in Factors : \A x \in Byte :
          M(k, x) \in Byte /\ M(k, XTIME(x)) \in Byte /\ M(k, Times3(x)) \in Byte
  BY <1>1, MulType
<1>3. 9 \in Factors /\ 11 \in Factors /\ 13 \in Factors /\ 14 \in Factors
  BY DEF Factors
<1>4. \A k \in Factors : \A w, x, y, z \in Byte :
          MUL(k, Mixed(w, x, y, z)) = Four(M(k, XTIME(w)), M(k, Times3(x)), M(k, y), M(k, z))
  BY <1>1, MulOfFour DEF Mixed
<1> DEFINE r1 == <<M(14, XTIME(a)), M(14, Times3(b)), M(14, c), M(14, d)>>
           r2 == <<M(11, a), M(11, XTIME(b)), M(11, Times3(c)), M(11, d)>>
           r3 == <<M(13, a), M(13, b), M(13, XTIME(c)), M(13, Times3(d))>>
           r4 == <<M(9, Times3(a)), M(9, b), M(9, c), M(9, XTIME(d))>>
<1>5. MUL(14, Mixed(a, b, c, d)) = Four(r1[1], r1[2], r1[3], r1[4])
  BY <1>3, <1>4
<1>6. MUL(11, Mixed(b, c, d, a)) = Four(r2[1], r2[2], r2[3], r2[4])
  <2>1. MUL(11, Mixed(b, c, d, a)) = Four(M(11, XTIME(b)), M(11, Times3(c)), M(11, d), M(11, a))
    BY <1>3, <1>4
  <2>2. Turns(M(11, XTIME(b)), M(11, Times3(c)), M(11, d), M(11, a))
    BY <1>2, <1>3, FourTurns
  <2>. QED  BY <2>1, <2>2 DEF Turns
<1>7. MUL(13, Mixed(c, d, a, b)) = Four(r3[1], r3[2], r3[3], r3[4])
  <2>1. MUL(13, Mixed(c, d, a, b)) = Four(M(13, XTIME(c)), M(13, Times3(d)), M(13, a), M(13, b))
    BY <1>3, <1>4
  <2>2. /\ Turns(M(13, XTIME(c)), M(13, Times3(d)), M(13, a), M(13, b))
        /\ Turns(M(13, b), M(13, XTIME(c)), M(13, Times3(d)), M(13, a))
    BY <1>2, <1>3, FourTurns
  <2>. QED  BY <2>1, <2>2 DEF Turns
<1>8. MUL(9, Mixed(d, a, b, c)) = Four(r4[1], r4[2], r4[3], r4[4])
  <2>1. MUL(9, Mixed(d, a, b, c)) = Four(M(9, XTIME(d)), M(9, Times3(a)), M(9, b), M(9, c))
    BY <1>3, <1>4
  <2>2. Turns(M(9, Times3(a)), M(9, b), M(9, c), M(9, XTIME(d)))
    BY <1>2, <1>3, FourTurns
  <2>. QED  BY <2>1, <2>2 DEF Turns
<1>9. r1 \in [1..4 -> Byte] /\ r2 \in [1..4 -> Byte] /\ r3 \in [1..4 -> Byte] /\ r4 \in [1..4 -> Byte]
  BY <1>2, <1>3
<1>10. /\ Four(r1[1], r2[1], r3[1], r4[1]) = a
       /\ Four(r1[2], r2[2], r3[2], r4[2]) = 0
       /\ Four(r1[3], r2[3], r3[3], r4[3]) = 0
       /\ Four(r1[4], r2[4], r3[4], r4[4]) = 0
  BY ColumnsInverse
<1>. HIDE DEF r1, r2, r3, r4
<1>11. Unmixed(Mixed(a, b, c, d), Mixed(b, c, d, a), Mixed(c, d, a, b), Mixed(d, a, b, c))
         = Four(Four(r1[1], r1[2], r1[3], r1[4]), Four(r2[1], r2[2], r2[3], r2[4]),
                Four(r3[1], r3[2], r3[3], r3[4]), Four(r4[1], r4[2], r4[3], r4[4]))
  BY <1>5, <1>6, <1>7, <1>8 DEF Unmixed
<1>12. Unmixed(Mixed(a, b, c, d), Mixed(b, c, d, a), Mixed(c, d, a, b), Mixed(d, a, b, c))
         = Four(a, 0, 0, 0)
  BY <1>9, <1>10, <1>11, FourOfFours
<1>13. Four(a, 0, 0, 0) = a
  <2>1. 0 \in Byte
    BY DEF Byte
  <2>. QED  BY <2>1, XorZero DEF Four
<1>. QED  BY <1>12, <1>13

\* ... and is linear.
LinearAt(v, w, i, j, k, l) ==
    LET x == v (+) w
    IN Unmixed(x[i], x[j], x[k], x[l])
         = Xor[Unmixed(v[i], v[j], v[k], v[l])][Unmixed(w[i], w[j], w[k], w[l])]
LEMMA UnmixedOfXor ==
    ASSUME NEW v \in Word, NEW w \in Word, NEW i \in 1..4, NEW j \in 1..4, NEW k \in 1..4, NEW l \in 1..4
    PROVE  LinearAt(v, w, i, j, k, l)
<1>1. \A m \in 1..4 : v[m] \in Byte /\ w[m] \in Byte /\ (v (+) w)[m] = Xor[v[m]][w[m]]
  BY DEF Word, (+)
<1>2. 9 \in Factors /\ 11 \in Factors /\ 13 \in Factors /\ 14 \in Factors
  BY DEF Factors
<1>3. \A c \in Factors : \A m \in 1..4 :
        MUL(c, v[m]) \in Byte /\ MUL(c, w[m]) \in Byte
          /\ MUL(c, (v (+) w)[m]) = Xor[MUL(c, v[m])][MUL(c, w[m])]
  <2>1. ASSUME NEW c \in Factors, NEW m \in 1..4
        PROVE  /\ MUL(c, v[m]) \in Byte /\ MUL(c, w[m]) \in Byte
               /\ MUL(c, (v (+) w)[m]) = Xor[MUL(c, v[m])][MUL(c, w[m])]
    <3>1. PICK x \in Byte, y \in Byte : x = v[m] /\ y = w[m] /\ (v (+) w)[m] = Xor[x][y]
      BY <1>1
    <3>. QED  BY <3>1, MulLinear
  <2>. QED  BY <2>1
<1>4. PairsUp(MUL(14, v[i]), MUL(11, v[j]), MUL(13, v[k]), MUL(9, v[l]),
              MUL(14, w[i]), MUL(11, w[j]), MUL(13, w[k]), MUL(9, w[l]))
  BY <1>2, <1>3, FourOfPairs
<1>. QED  BY <1>2, <1>3, <1>4 DEF PairsUp, Unmixed, LinearAt

--------------------------------------------------------------------------------
(* Words. *)

LEMMA SameWord ==
    ASSUME NEW v \in Word, NEW w \in Word,
           v[1] = w[1], v[2] = w[2], v[3] = w[3], v[4] = w[4]
    PROVE  v = w
BY DEF Word

LEMMA WordOf == \A a, b, c, d \in Byte : <<a, b, c, d>> \in Word
BY DEF Word

LEMMA WordXorType ==
    \A u, v \in Word : u (+) v \in Word /\ \A r \in 1..4 : (u (+) v)[r] = Xor[u[r]][v[r]]
BY XorType DEF Word, (+)

LEMMA WordCommutes == \A u, v \in Word : u (+) v = v (+) u
BY XorCommutes DEF Word, (+)

\* What is added twice to a word, or to a block, is not there.
LEMMA WordTwice ==
    ASSUME NEW u \in Word, NEW v \in Word
    PROVE  /\ (u (+) v) (+) v = u
           /\ v (+) (u (+) v) = u
<1>1. \A a, b \in Byte : Xor[Xor[a][b]][b] = a
  <2>1. SUFFICES ASSUME NEW a \in Byte, NEW b \in Byte PROVE Xor[Xor[a][b]][b] = a
    OBVIOUS
  <2>2. Associates(a, b, b)
    BY EachAssociates
  <2>. QED  BY <2>2, XorZero DEF Associates
<1>2. (u (+) v) (+) v \in Word
  BY WordXorType
<1>3. \A r \in 1..4 : ((u (+) v) (+) v)[r] = u[r]
  <2>1. SUFFICES ASSUME NEW r \in 1..4 PROVE ((u (+) v) (+) v)[r] = u[r]
    OBVIOUS
  <2>2. PICK w \in Word : w = u (+) v
    BY WordXorType
  <2>3. (w (+) v)[r] = Xor[w[r]][v[r]] /\ w[r] = Xor[u[r]][v[r]]
    BY <2>2, WordXorType
  <2>4. u[r] \in Byte /\ v[r] \in Byte
    BY DEF Word
  <2>. QED  BY <1>1, <2>2, <2>3, <2>4
<1>4. (u (+) v) (+) v = u
  BY <1>2, <1>3, SameWord
<1>5. u (+) v \in Word
  BY WordXorType
<1>. QED  BY <1>4, <1>5, WordCommutes

LEMMA UnmixWordType == \A w \in Word : UnmixWord(w) \in Word
<1>1. 9 \in Factors /\ 11 \in Factors /\ 13 \in Factors /\ 14 \in Factors
  BY DEF Factors
<1>2. \A a, b, c, d \in Byte : Unmixed(a, b, c, d) \in Byte
  BY <1>1, MulType, FourType DEF Unmixed
<1>3. \A w \in Word : w[1] \in Byte /\ w[2] \in Byte /\ w[3] \in Byte /\ w[4] \in Byte
  BY DEF Word
<1>. QED  BY <1>2, <1>3, WordOf DEF UnmixWord

LEMMA MixColumnType ==
    ASSUME NEW w \in Word
    PROVE  /\ MixColumn(w) \in Word
           /\ MixColumn(w)[1] = Mixed(w[1], w[2], w[3], w[4])
           /\ MixColumn(w)[2] = Mixed(w[2], w[3], w[4], w[1])
           /\ MixColumn(w)[3] = Mixed(w[3], w[4], w[1], w[2])
           /\ MixColumn(w)[4] = Mixed(w[4], w[1], w[2], w[3])
<1>1. w[1] \in Byte /\ w[2] \in Byte /\ w[3] \in Byte /\ w[4] \in Byte
  BY DEF Word
<1>2. \A a, b, c, d \in Byte : Mixed(a, b, c, d) \in Byte
  BY TimesType, FourType DEF Mixed
<1>3. /\ MixColumn(w)[1] = Mixed(w[1], w[2], w[3], w[4])
      /\ MixColumn(w)[2] = Mixed(w[2], w[3], w[4], w[1])
      /\ MixColumn(w)[3] = Mixed(w[3], w[4], w[1], w[2])
      /\ MixColumn(w)[4] = Mixed(w[4], w[1], w[2], w[3])
  BY DEF MixColumn, Mixed, Next4
<1>4. \A r \in 1..4 : MixColumn(w)[r] \in Byte
  <2>1. /\ MixColumn(w)[1] \in Byte /\ MixColumn(w)[2] \in Byte
        /\ MixColumn(w)[3] \in Byte /\ MixColumn(w)[4] \in Byte
    <3>1. /\ Mixed(w[1], w[2], w[3], w[4]) \in Byte /\ Mixed(w[2], w[3], w[4], w[1]) \in Byte
          /\ Mixed(w[3], w[4], w[1], w[2]) \in Byte /\ Mixed(w[4], w[1], w[2], w[3]) \in Byte
      BY <1>1, <1>2
    <3>. QED  BY <1>3, <3>1
  <2>. QED  BY <2>1
<1>5. MixColumn(w) = [r \in 1..4 |-> MixColumn(w)[r]]
  BY DEF MixColumn
<1>. QED  BY <1>3, <1>4, <1>5 DEF Word

\* The same of whole columns.
LEMMA UnmixMixColumn ==
    ASSUME NEW w \in Word
    PROVE  UnmixWord(MixColumn(w)) = w
<1>1. w[1] \in Byte /\ w[2] \in Byte /\ w[3] \in Byte /\ w[4] \in Byte
  BY DEF Word
<1>2. PICK m \in Word : m = MixColumn(w)
  BY MixColumnType
<1>3. /\ m[1] = Mixed(w[1], w[2], w[3], w[4]) /\ m[2] = Mixed(w[2], w[3], w[4], w[1])
      /\ m[3] = Mixed(w[3], w[4], w[1], w[2]) /\ m[4] = Mixed(w[4], w[1], w[2], w[3])
  BY <1>2, MixColumnType
<1>4. /\ Unmixed(m[1], m[2], m[3], m[4]) = w[1] /\ Unmixed(m[2], m[3], m[4], m[1]) = w[2]
      /\ Unmixed(m[3], m[4], m[1], m[2]) = w[3] /\ Unmixed(m[4], m[1], m[2], m[3]) = w[4]
  BY <1>1, <1>3, UnmixedMixed
<1>5. UnmixWord(m) = <<w[1], w[2], w[3], w[4]>>
  BY <1>4 DEF UnmixWord
<1>. QED  BY <1>2, <1>5 DEF Word

LEMMA UnmixOfXor ==
    ASSUME NEW v \in Word, NEW w \in Word
    PROVE  UnmixWord(v (+) w) = UnmixWord(v) (+) UnmixWord(w)
<1>1. 1 \in 1..4 /\ 2 \in 1..4 /\ 3 \in 1..4 /\ 4 \in 1..4
  OBVIOUS
<1> DEFINE U(x, i, j, k, l) == Unmixed(x[i], x[j], x[k], x[l])
<1>2. PICK x : x = v (+) w
  OBVIOUS
<1>3. /\ U(x, 1, 2, 3, 4) = Xor[U(v, 1, 2, 3, 4)][U(w, 1, 2, 3, 4)]
      /\ U(x, 2, 3, 4, 1) = Xor[U(v, 2, 3, 4, 1)][U(w, 2, 3, 4, 1)]
      /\ U(x, 3, 4, 1, 2) = Xor[U(v, 3, 4, 1, 2)][U(w, 3, 4, 1, 2)]
      /\ U(x, 4, 1, 2, 3) = Xor[U(v, 4, 1, 2, 3)][U(w, 4, 1, 2, 3)]
  <2>1. LinearAt(v, w, 1, 2, 3, 4)
    BY <1>1, UnmixedOfXor
  <2>2. LinearAt(v, w, 2, 3, 4, 1)
    BY <1>1, UnmixedOfXor
  <2>3. LinearAt(v, w, 3, 4, 1, 2)
    BY <1>1, UnmixedOfXor
  <2>4. LinearAt(v, w, 4, 1, 2, 3)
    BY <1>1, UnmixedOfXor
  <2>. QED  BY <1>2, <2>1, <2>2, <2>3, <2>4 DEF LinearAt
<1>4. \A y : UnmixWord(y) = <<U(y, 1, 2, 3, 4), U(y, 2, 3, 4, 1), U(y, 3, 4, 1, 2), U(y, 4, 1, 2, 3)>>
  BY DEF UnmixWord
<1>. HIDE DEF U
<1>5. UnmixWord(v) (+) UnmixWord(w)
        = <<Xor[U(v, 1, 2, 3, 4)][U(w, 1, 2, 3, 4)], Xor[U(v, 2, 3, 4, 1)][U(w, 2, 3, 4, 1)],
            Xor[U(v, 3, 4, 1, 2)][U(w, 3, 4, 1, 2)], Xor[U(v, 4, 1, 2, 3)][U(w, 4, 1, 2, 3)]>>
  BY <1>4 DEF (+)
<1>. QED  BY <1>2, <1>3, <1>4, <1>5

--------------------------------------------------------------------------------
(* The tables, when all of them have been generated. *)

Full == Tables(Groups)

LEMMA FullTables ==
    /\ Full.RCON = GenRCON /\ Full.FSb = GenFSb /\ Full.RSb = GenRSb
    /\ Full.FT = GenFT /\ Full.RT = GenRT
BY DEF Full, Tables, Groups

\* The generated substitution is the standard's, and the other its inverse.
LEMMA SubstitutionsRight ==
    /\ GenRCON = RomRCON
    /\ SBox = GenFSb
    /\ \A x \in Byte : GenFSb[x] \in Byte /\ GenRSb[x] \in Byte /\ GenRSb[GenFSb[x]] = x
<1>1. GenFSb = [x \in Byte |-> GenFSb[x]]
  BY ZenonT(30) DEF GenFSb
<1>2. \A x \in Byte : GenFSb[x] = RomFSb[x + 1]
  BY TablesOfRom
<1>3. SBox = GenFSb
  BY <1>1, <1>2 DEF SBox
<1>. QED  BY <1>3, TablesOfRom, SubstitutionInverse

LEMMA SubWordType ==
    \A w \in Word : SubWord(w) \in Word /\ \A r \in 1..4 : SubWord(w)[r] = GenFSb[w[r]]
<1>1. SUFFICES ASSUME NEW w \in Word
               PROVE  SubWord(w) \in Word /\ \A r \in 1..4 : SubWord(w)[r] = GenFSb[w[r]]
  OBVIOUS
<1>2. \A r \in 1..4 : w[r] \in Byte /\ SubWord(w)[r] = GenFSb[w[r]]
  BY SubstitutionsRight DEF SubWord, Word
<1>3. \A r \in 1..4 : SubWord(w)[r] \in Byte
  BY <1>2, SubstitutionsRight
<1>4. SubWord(w) = [r \in 1..4 |-> SubWord(w)[r]]
  BY DEF SubWord
<1>. QED  BY <1>2, <1>3, <1>4 DEF Word

LEMMA RotatedWord ==
    ASSUME NEW a, NEW b, NEW c, NEW d
    PROVE  LET w == <<a, b, c, d>>
           IN /\ ROTL8(w, 0)[1] = a /\ ROTL8(w, 0)[2] = b /\ ROTL8(w, 0)[3] = c /\ ROTL8(w, 0)[4] = d
              /\ ROTL8(w, 1)[1] = d /\ ROTL8(w, 1)[2] = a /\ ROTL8(w, 1)[3] = b /\ ROTL8(w, 1)[4] = c
              /\ ROTL8(w, 2)[1] = c /\ ROTL8(w, 2)[2] = d /\ ROTL8(w, 2)[3] = a /\ ROTL8(w, 2)[4] = b
              /\ ROTL8(w, 3)[1] = b /\ ROTL8(w, 3)[2] = c /\ ROTL8(w, 3)[3] = d /\ ROTL8(w, 3)[4] = a
BY DEF ROTL8

\* What the words of the four tables FT are made of.
LEMMA FTables ==
    ASSUME NEW x \in Byte
    PROVE  LET s == GenFSb[x]
               t == Full.FT
           IN /\ t[1][x][1] = XTIME(s) /\ t[1][x][2] = s /\ t[1][x][3] = s /\ t[1][x][4] = Times3(s)
              /\ t[2][x][1] = Times3(s) /\ t[2][x][2] = XTIME(s) /\ t[2][x][3] = s /\ t[2][x][4] = s
              /\ t[3][x][1] = s /\ t[3][x][2] = Times3(s) /\ t[3][x][3] = XTIME(s) /\ t[3][x][4] = s
              /\ t[4][x][1] = s /\ t[4][x][2] = s /\ t[4][x][3] = Times3(s) /\ t[4][x][4] = XTIME(s)
<1>1. PICK s \in Byte : s = GenFSb[x]
  BY SubstitutionsRight
<1>2. XTIME(s) \in Byte /\ Xor[XTIME(s)][s] = Times3(s)
  BY TimesType, XorCommutes DEF Times3
<1>3. \A k \in 1..4 : GenFT[k][x] = ROTL8(<<XTIME(s), s, s, Times3(s)>>, k - 1)
  BY <1>1, <1>2 DEF GenFT, Rotations
<1>4. /\ GenFT[1][x] = ROTL8(<<XTIME(s), s, s, Times3(s)>>, 0)
      /\ GenFT[2][x] = ROTL8(<<XTIME(s), s, s, Times3(s)>>, 1)
      /\ GenFT[3][x] = ROTL8(<<XTIME(s), s, s, Times3(s)>>, 2)
      /\ GenFT[4][x] = ROTL8(<<XTIME(s), s, s, Times3(s)>>, 3)
  BY <1>3
<1>. QED  BY <1>1, <1>4, FullTables, RotatedWord

\* What the words of the four tables RT are made of.
LEMMA RTables ==
    ASSUME NEW x \in Byte
    PROVE  LET s == GenRSb[x]
               t == Full.RT
           IN /\ t[1][x][1] = MUL(14, s) /\ t[1][x][2] = MUL(9, s)
              /\ t[1][x][3] = MUL(13, s) /\ t[1][x][4] = MUL(11, s)
              /\ t[2][x][1] = MUL(11, s) /\ t[2][x][2] = MUL(14, s)
              /\ t[2][x][3] = MUL(9, s) /\ t[2][x][4] = MUL(13, s)
              /\ t[3][x][1] = MUL(13, s) /\ t[3][x][2] = MUL(11, s)
              /\ t[3][x][3] = MUL(14, s) /\ t[3][x][4] = MUL(9, s)
              /\ t[4][x][1] = MUL(9, s) /\ t[4][x][2] = MUL(13, s)
              /\ t[4][x][3] = MUL(11, s) /\ t[4][x][4] = MUL(14, s)
<1>1. PICK s \in Byte : s = GenRSb[x]
  BY SubstitutionsRight
<1>3. \A k \in 1..4 : GenRT[k][x] = ROTL8(<<MUL(14, s), MUL(9, s), MUL(13, s), MUL(11, s)>>, k - 1)
  BY <1>1 DEF GenRT, Rotations
<1>4. /\ GenRT[1][x] = ROTL8(<<MUL(14, s), MUL(9, s), MUL(13, s), MUL(11, s)>>, 0)
      /\ GenRT[2][x] = ROTL8(<<MUL(14, s), MUL(9, s), MUL(13, s), MUL(11, s)>>, 1)
      /\ GenRT[3][x] = ROTL8(<<MUL(14, s), MUL(9, s), MUL(13, s), MUL(11, s)>>, 2)
      /\ GenRT[4][x] = ROTL8(<<MUL(14, s), MUL(9, s), MUL(13, s), MUL(11, s)>>, 3)
  BY <1>3
<1>. QED  BY <1>1, <1>4, FullTables, RotatedWord

\* A column forth by the tables is one by the standard ...
LEMMA FWord ==
    ASSUME NEW k \in Word, NEW y \in Word
    PROVE  k (+) Full.FT[1][y[1]] (+) Full.FT[2][y[2]] (+) Full.FT[3][y[3]] (+) Full.FT[4][y[4]]
             = k (+) MixColumn(SubWord(y))
<1>1. y[1] \in Byte /\ y[2] \in Byte /\ y[3] \in Byte /\ y[4] \in Byte
  BY DEF Word
<1>2. PICK s \in Word : s = SubWord(y) /\ s[1] = GenFSb[y[1]] /\ s[2] = GenFSb[y[2]]
                        /\ s[3] = GenFSb[y[3]] /\ s[4] = GenFSb[y[4]]
  BY <1>1, SubWordType
<1>3. s[1] \in Byte /\ s[2] \in Byte /\ s[3] \in Byte /\ s[4] \in Byte
      /\ k[1] \in Byte /\ k[2] \in Byte /\ k[3] \in Byte /\ k[4] \in Byte
  BY DEF Word
<1> DEFINE X(u, v) == Xor[u][v]
           a == Full.FT[1][y[1]]
           b == Full.FT[2][y[2]]
           c == Full.FT[3][y[3]]
           d == Full.FT[4][y[4]]
<1>4. /\ a[1] = XTIME(s[1]) /\ a[2] = s[1] /\ a[3] = s[1] /\ a[4] = Times3(s[1])
      /\ b[1] = Times3(s[2]) /\ b[2] = XTIME(s[2]) /\ b[3] = s[2] /\ b[4] = s[2]
      /\ c[1] = s[3] /\ c[2] = Times3(s[3]) /\ c[3] = XTIME(s[3]) /\ c[4] = s[3]
      /\ d[1] = s[4] /\ d[2] = s[4] /\ d[3] = Times3(s[4]) /\ d[4] = XTIME(s[4])
  BY <1>1, <1>2, FTables
<1>. HIDE DEF a, b, c, d
<1>5. \A x \in Byte : XTIME(x) \in Byte /\ Times3(x) \in Byte
  BY TimesType
<1>6. k (+) a (+) b (+) c (+) d
        = <<Xor[Xor[Xor[Xor[k[1]][a[1]]][b[1]]][c[1]]][d[1]],
            Xor[Xor[Xor[Xor[k[2]][a[2]]][b[2]]][c[2]]][d[2]],
            Xor[Xor[Xor[Xor[k[3]][a[3]]][b[3]]][c[3]]][d[3]], Xor[Xor[Xor[Xor[k[4]][a[4]]][b[4]]][c[4]]][d[4]]>>
  BY DEF (+)
<1>7. /\ Xor[Xor[Xor[Xor[k[1]][a[1]]][b[1]]][c[1]]][d[1]] = Xor[k[1]][Four(a[1], b[1], c[1], d[1])]
      /\ Xor[Xor[Xor[Xor[k[2]][a[2]]][b[2]]][c[2]]][d[2]] = Xor[k[2]][Four(a[2], b[2], c[2], d[2])]
      /\ Xor[Xor[Xor[Xor[k[3]][a[3]]][b[3]]][c[3]]][d[3]] = Xor[k[3]][Four(a[3], b[3], c[3], d[3])]
      /\ Xor[Xor[Xor[Xor[k[4]][a[4]]][b[4]]][c[4]]][d[4]] = Xor[k[4]][Four(a[4], b[4], c[4], d[4])]
  <2>1. /\ a[1] \in Byte /\ a[2] \in Byte /\ a[3] \in Byte /\ a[4] \in Byte
        /\ b[1] \in Byte /\ b[2] \in Byte /\ b[3] \in Byte /\ b[4] \in Byte
        /\ c[1] \in Byte /\ c[2] \in Byte /\ c[3] \in Byte /\ c[4] \in Byte
        /\ d[1] \in Byte /\ d[2] \in Byte /\ d[3] \in Byte /\ d[4] \in Byte
    BY <1>3, <1>4, <1>5
  <2>2. InTurn(k[1], a[1], b[1], c[1], d[1])
    BY <1>3, <2>1, FourInTurn
  <2>3. InTurn(k[2], a[2], b[2], c[2], d[2])
    BY <1>3, <2>1, FourInTurn
  <2>4. InTurn(k[3], a[3], b[3], c[3], d[3])
    BY <1>3, <2>1, FourInTurn
  <2>5. InTurn(k[4], a[4], b[4], c[4], d[4])
    BY <1>3, <2>1, FourInTurn
  <2>. QED  BY <2>2, <2>3, <2>4, <2>5 DEF InTurn
<1>8. /\ Four(a[1], b[1], c[1], d[1]) = Mixed(s[1], s[2], s[3], s[4])
      /\ Four(a[2], b[2], c[2], d[2]) = Mixed(s[2], s[3], s[4], s[1])
      /\ Four(a[3], b[3], c[3], d[3]) = Mixed(s[3], s[4], s[1], s[2])
      /\ Four(a[4], b[4], c[4], d[4]) = Mixed(s[4], s[1], s[2], s[3])
  <2>1. /\ Turns(XTIME(s[2]), Times3(s[3]), s[4], s[1])
        /\ Turns(XTIME(s[3]), Times3(s[4]), s[1], s[2]) /\ Turns(s[2], XTIME(s[3]), Times3(s[4]), s[1])
        /\ Turns(Times3(s[1]), s[2], s[3], XTIME(s[4]))
    BY <1>3, <1>5, FourTurns
  <2>. QED  BY <1>4, <2>1 DEF Mixed, Turns
<1>9. k (+) a (+) b (+) c (+) d
        = <<Xor[k[1]][Mixed(s[1], s[2], s[3], s[4])], Xor[k[2]][Mixed(s[2], s[3], s[4], s[1])],
            Xor[k[3]][Mixed(s[3], s[4], s[1], s[2])], Xor[k[4]][Mixed(s[4], s[1], s[2], s[3])]>>
  BY <1>6, <1>7, <1>8
<1>10. k (+) a (+) b (+) c (+) d = k (+) MixColumn(s)
  BY <1>9, MixColumnType DEF (+)
<1>. QED  BY <1>2, <1>10 DEF a, b, c, d

\* ... and one back takes the columns back.
InvSubWord(w) == [r \in 1..4 |-> GenRSb[w[r]]]

LEMMA InvSubWordType ==
    \A w \in Word : InvSubWord(w) \in Word /\ \A r \in 1..4 : InvSubWord(w)[r] = GenRSb[w[r]]
<1>1. SUFFICES ASSUME NEW w \in Word
               PROVE  InvSubWord(w) \in Word /\ \A r \in 1..4 : InvSubWord(w)[r] = GenRSb[w[r]]
  OBVIOUS
<1>2. \A r \in 1..4 : w[r] \in Byte /\ InvSubWord(w)[r] = GenRSb[w[r]]
  BY DEF InvSubWord, Word
<1>3. \A r \in 1..4 : InvSubWord(w)[r] \in Byte
  BY <1>2, SubstitutionsRight
<1>4. InvSubWord(w) = [r \in 1..4 |-> InvSubWord(w)[r]]
  BY DEF InvSubWord
<1>. QED  BY <1>2, <1>3, <1>4 DEF Word

LEMMA InvSubOfSub == \A w \in Word : InvSubWord(SubWord(w)) = w
<1>1. SUFFICES ASSUME NEW w \in Word PROVE InvSubWord(SubWord(w)) = w
  OBVIOUS
<1>2. \A r \in 1..4 : SubWord(w)[r] = GenFSb[w[r]] /\ w[r] \in Byte
  BY SubWordType DEF Word
<1>3. InvSubWord(SubWord(w)) = [r \in 1..4 |-> w[r]]
  BY <1>2, SubstitutionsRight DEF InvSubWord
<1>. QED  BY <1>3 DEF Word

\* What a column of a round back is.
LEMMA RWord ==
    ASSUME NEW k \in Word, NEW y \in Word
    PROVE  k (+) Full.RT[1][y[1]] (+) Full.RT[2][y[2]] (+) Full.RT[3][y[3]] (+) Full.RT[4][y[4]]
             = k (+) UnmixWord(InvSubWord(y))
<1>1. y[1] \in Byte /\ y[2] \in Byte /\ y[3] \in Byte /\ y[4] \in Byte
  BY DEF Word
<1>2. PICK s \in Word : s = InvSubWord(y) /\ s[1] = GenRSb[y[1]] /\ s[2] = GenRSb[y[2]]
                        /\ s[3] = GenRSb[y[3]] /\ s[4] = GenRSb[y[4]]
  BY <1>1, InvSubWordType
<1>3. s[1] \in Byte /\ s[2] \in Byte /\ s[3] \in Byte /\ s[4] \in Byte
      /\ k[1] \in Byte /\ k[2] \in Byte /\ k[3] \in Byte /\ k[4] \in Byte
  BY DEF Word
<1> DEFINE a == Full.RT[1][y[1]]
           b == Full.RT[2][y[2]]
           c == Full.RT[3][y[3]]
           d == Full.RT[4][y[4]]
<1>4. /\ a[1] = MUL(14, s[1]) /\ a[2] = MUL(9, s[1]) /\ a[3] = MUL(13, s[1]) /\ a[4] = MUL(11, s[1])
      /\ b[1] = MUL(11, s[2]) /\ b[2] = MUL(14, s[2]) /\ b[3] = MUL(9, s[2]) /\ b[4] = MUL(13, s[2])
      /\ c[1] = MUL(13, s[3]) /\ c[2] = MUL(11, s[3]) /\ c[3] = MUL(14, s[3]) /\ c[4] = MUL(9, s[3])
      /\ d[1] = MUL(9, s[4]) /\ d[2] = MUL(13, s[4]) /\ d[3] = MUL(11, s[4]) /\ d[4] = MUL(14, s[4])
  BY <1>1, <1>2, RTables
<1>. HIDE DEF a, b, c, d
<1>5. \A x \in Byte : MUL(9, x) \in Byte /\ MUL(11, x) \in Byte /\ MUL(13, x) \in Byte
                      /\ MUL(14, x) \in Byte
  BY MulType DEF Factors
<1>6. k (+) a (+) b (+) c (+) d
        = <<Xor[Xor[Xor[Xor[k[1]][a[1]]][b[1]]][c[1]]][d[1]],
            Xor[Xor[Xor[Xor[k[2]][a[2]]][b[2]]][c[2]]][d[2]],
            Xor[Xor[Xor[Xor[k[3]][a[3]]][b[3]]][c[3]]][d[3]], Xor[Xor[Xor[Xor[k[4]][a[4]]][b[4]]][c[4]]][d[4]]>>
  BY DEF (+)
<1>7. /\ Xor[Xor[Xor[Xor[k[1]][a[1]]][b[1]]][c[1]]][d[1]] = Xor[k[1]][Four(a[1], b[1], c[1], d[1])]
      /\ Xor[Xor[Xor[Xor[k[2]][a[2]]][b[2]]][c[2]]][d[2]] = Xor[k[2]][Four(a[2], b[2], c[2], d[2])]
      /\ Xor[Xor[Xor[Xor[k[3]][a[3]]][b[3]]][c[3]]][d[3]] = Xor[k[3]][Four(a[3], b[3], c[3], d[3])]
      /\ Xor[Xor[Xor[Xor[k[4]][a[4]]][b[4]]][c[4]]][d[4]] = Xor[k[4]][Four(a[4], b[4], c[4], d[4])]
  <2>1. /\ InTurn(k[1], a[1], b[1], c[1], d[1]) /\ InTurn(k[2], a[2], b[2], c[2], d[2])
        /\ InTurn(k[3], a[3], b[3], c[3], d[3]) /\ InTurn(k[4], a[4], b[4], c[4], d[4])
    <3>1. /\ a[1] \in Byte /\ a[2] \in Byte /\ a[3] \in Byte /\ a[4] \in Byte
          /\ b[1] \in Byte /\ b[2] \in Byte /\ b[3] \in Byte /\ b[4] \in Byte
          /\ c[1] \in Byte /\ c[2] \in Byte /\ c[3] \in Byte /\ c[4] \in Byte
          /\ d[1] \in Byte /\ d[2] \in Byte /\ d[3] \in Byte /\ d[4] \in Byte
      BY <1>3, <1>4, <1>5
    <3>. QED  BY <1>3, <3>1, FourInTurn
  <2>. QED  BY <2>1 DEF InTurn
<1>8. /\ Four(a[1], b[1], c[1], d[1]) = Unmixed(s[1], s[2], s[3], s[4])
      /\ Four(a[2], b[2], c[2], d[2]) = Unmixed(s[2], s[3], s[4], s[1])
      /\ Four(a[3], b[3], c[3], d[3]) = Unmixed(s[3], s[4], s[1], s[2])
      /\ Four(a[4], b[4], c[4], d[4]) = Unmixed(s[4], s[1], s[2], s[3])
  <2>1. /\ Turns(MUL(14, s[2]), MUL(11, s[3]), MUL(13, s[4]), MUL(9, s[1]))
        /\ Turns(MUL(14, s[3]), MUL(11, s[4]), MUL(13, s[1]), MUL(9, s[2]))
        /\ Turns(MUL(9, s[2]), MUL(14, s[3]), MUL(11, s[4]), MUL(13, s[1]))
        /\ Turns(MUL(11, s[1]), MUL(13, s[2]), MUL(9, s[3]), MUL(14, s[4]))
    BY <1>3, <1>5, FourTurns
  <2>. QED  BY <1>4, <2>1 DEF Unmixed, Turns
<1>9. k (+) a (+) b (+) c (+) d
        = <<Xor[k[1]][Unmixed(s[1], s[2], s[3], s[4])], Xor[k[2]][Unmixed(s[2], s[3], s[4], s[1])],
            Xor[k[3]][Unmixed(s[3], s[4], s[1], s[2])], Xor[k[4]][Unmixed(s[4], s[1], s[2], s[3])]>>
  BY <1>6, <1>7, <1>8
<1>10. k (+) a (+) b (+) c (+) d = k (+) UnmixWord(s)
  BY <1>9 DEF (+), UnmixWord
<1>. QED  BY <1>2, <1>10 DEF a, b, c, d

--------------------------------------------------------------------------------
(* Rounds. *)

\* The bytes of the columns from which a round takes column i, forth and back.
Cycled(Y, i) == <<Y[i][1], Y[Next4(i, 1)][2], Y[Next4(i, 2)][3], Y[Next4(i, 3)][4]>>
CycledBack(Y, i) == <<Y[i][1], Y[Next4(i, 3)][2], Y[Next4(i, 2)][3], Y[Next4(i, 1)][4]>>

Shifted(Y) == ShiftRows(SubBytes(Y))

\* From each column the next, and back.
LEMMA Next4Type ==
    \A i \in 1..4 :
        /\ Next4(i, 0) = i
        /\ Next4(i, 1) \in 1..4 /\ Next4(i, 2) \in 1..4 /\ Next4(i, 3) \in 1..4
        /\ Next4(Next4(i, 3), 1) = i /\ Next4(Next4(i, 2), 2) = i /\ Next4(Next4(i, 1), 3) = i
BY DEF Next4

LEMMA CycledType ==
    \A Y \in Block, i \in 1..4 : Cycled(Y, i) \in Word /\ CycledBack(Y, i) \in Word
<1>1. SUFFICES ASSUME NEW Y \in Block, NEW i \in 1..4
               PROVE  Cycled(Y, i) \in Word /\ CycledBack(Y, i) \in Word
  OBVIOUS
<1>2. \A j, r \in 1..4 : Y[j][r] \in Byte
  BY DEF Block, Word
<1>3. Next4(i, 1) \in 1..4 /\ Next4(i, 2) \in 1..4 /\ Next4(i, 3) \in 1..4
  BY Next4Type
<1>4. 1 \in 1..4 /\ 2 \in 1..4 /\ 3 \in 1..4 /\ 4 \in 1..4
  OBVIOUS
<1>. QED  BY <1>2, <1>3, <1>4, WordOf DEF Cycled, CycledBack

LEMMA SameBlock ==
    ASSUME NEW x \in Block, NEW y \in Block, \A i \in 1..4 : x[i] = y[i]
    PROVE  x = y
BY DEF Block

LEMMA BlockOfWords == \A a, b, c, d \in Word : <<a, b, c, d>> \in Block
BY DEF Block

LEMMA BlockXorType ==
    \A x, y \in Block : XorBlock(x, y) \in Block /\ \A i \in 1..4 : XorBlock(x, y)[i] = x[i] (+) y[i]
<1>1. SUFFICES ASSUME NEW x \in Block, NEW y \in Block
               PROVE  XorBlock(x, y) \in Block /\ \A i \in 1..4 : XorBlock(x, y)[i] = x[i] (+) y[i]
  OBVIOUS
<1>2. \A i \in 1..4 : XorBlock(x, y)[i] = x[i] (+) y[i]
  BY DEF XorBlock
<1>3. x[1] \in Word /\ x[2] \in Word /\ x[3] \in Word /\ x[4] \in Word
      /\ y[1] \in Word /\ y[2] \in Word /\ y[3] \in Word /\ y[4] \in Word
  BY DEF Block
<1>4. XorBlock(x, y) \in Block
  <2>1. \A u, v \in Word : u (+) v \in Word
    BY WordXorType
  <2>. QED  BY <1>3, <2>1, BlockOfWords DEF XorBlock
<1>. QED  BY <1>2, <1>4

LEMMA BlockTwice ==
    ASSUME NEW x \in Block, NEW y \in Block
    PROVE  /\ XorBlock(XorBlock(x, y), y) = x
           /\ XorBlock(y, XorBlock(x, y)) = x
<1>1. PICK z \in Block : z = XorBlock(x, y) /\ \A i \in 1..4 : z[i] = x[i] (+) y[i]
  BY BlockXorType
<1>2. \A i \in 1..4 : x[i] \in Word /\ y[i] \in Word
  BY DEF Block
<1>3. \A i \in 1..4 : z[i] (+) y[i] = x[i] /\ y[i] (+) z[i] = x[i]
  BY <1>1, <1>2, WordTwice
<1>4. XorBlock(z, y) \in Block /\ XorBlock(y, z) \in Block
      /\ \A i \in 1..4 : XorBlock(z, y)[i] = z[i] (+) y[i] /\ XorBlock(y, z)[i] = y[i] (+) z[i]
  BY BlockXorType
<1>. QED  BY <1>1, <1>3, <1>4, SameBlock

\* A column of the shifted and substituted block, and what is taken back from it.
LEMMA ShiftedRight ==
    ASSUME NEW Y \in Block
    PROVE  /\ Shifted(Y) \in Block
           /\ \A i \in 1..4 : Shifted(Y)[i] = SubWord(Cycled(Y, i))
           /\ \A i \in 1..4 : CycledBack(Shifted(Y), i) = SubWord(Y[i])
<1>1. \A c \in 1..4, r \in 1..4 : SubBytes(Y)[c][r] = GenFSb[Y[c][r]] /\ Y[c][r] \in Byte
  BY SubstitutionsRight DEF SubBytes, SubWord, Block, Word
<1>2. \A i \in 1..4, r \in 1..4 : Shifted(Y)[i][r] = SubBytes(Y)[Next4(i, r - 1)][r]
  BY DEF Shifted, ShiftRows
<1>3. \A i \in 1..4 : /\ Shifted(Y)[i][1] = GenFSb[Y[i][1]]
                      /\ Shifted(Y)[i][2] = GenFSb[Y[Next4(i, 1)][2]]
                      /\ Shifted(Y)[i][3] = GenFSb[Y[Next4(i, 2)][3]]
                      /\ Shifted(Y)[i][4] = GenFSb[Y[Next4(i, 3)][4]]
  <2>1. SUFFICES ASSUME NEW i \in 1..4
                 PROVE  /\ Shifted(Y)[i][1] = GenFSb[Y[i][1]]
                        /\ Shifted(Y)[i][2] = GenFSb[Y[Next4(i, 1)][2]]
                        /\ Shifted(Y)[i][3] = GenFSb[Y[Next4(i, 2)][3]]
                        /\ Shifted(Y)[i][4] = GenFSb[Y[Next4(i, 3)][4]]
    OBVIOUS
  <2>2. /\ Shifted(Y)[i][1] = SubBytes(Y)[Next4(i, 0)][1]
        /\ Shifted(Y)[i][2] = SubBytes(Y)[Next4(i, 1)][2]
        /\ Shifted(Y)[i][3] = SubBytes(Y)[Next4(i, 2)][3]
        /\ Shifted(Y)[i][4] = SubBytes(Y)[Next4(i, 3)][4]
    BY <1>2
  <2>3. Next4(i, 0) = i /\ Next4(i, 1) \in 1..4 /\ Next4(i, 2) \in 1..4 /\ Next4(i, 3) \in 1..4
    BY Next4Type
  <2>. QED  BY <1>1, <2>2, <2>3
<1>4. ASSUME NEW i \in 1..4
      PROVE  Shifted(Y)[i] \in Word /\ Shifted(Y)[i] = SubWord(Cycled(Y, i))
  <2>1. Shifted(Y)[i] = [r \in 1..4 |-> Shifted(Y)[i][r]]
    BY DEF Shifted, ShiftRows
  <2>2. PICK w \in Word : w = Cycled(Y, i)
    BY CycledType
  <2>3. SubWord(w) \in Word /\ \A r \in 1..4 : SubWord(w)[r] = GenFSb[w[r]]
    BY SubWordType
  <2>4. \A r \in 1..4 : Shifted(Y)[i][r] = SubWord(w)[r]
    <3>1. w[1] = Y[i][1] /\ w[2] = Y[Next4(i, 1)][2] /\ w[3] = Y[Next4(i, 2)][3]
          /\ w[4] = Y[Next4(i, 3)][4]
      BY <2>2 DEF Cycled
    <3>2. /\ Shifted(Y)[i][1] = SubWord(w)[1] /\ Shifted(Y)[i][2] = SubWord(w)[2]
          /\ Shifted(Y)[i][3] = SubWord(w)[3] /\ Shifted(Y)[i][4] = SubWord(w)[4]
      BY <1>3, <2>3, <3>1
    <3>. QED  BY <3>2
  <2>5. SubWord(w) = [r \in 1..4 |-> SubWord(w)[r]]
    BY <2>3 DEF Word
  <2>6. Shifted(Y)[i] = SubWord(w)
    BY <2>1, <2>4, <2>5
  <2>. QED  BY <2>2, <2>3, <2>6
<1>5. Shifted(Y) \in Block
  <2>1. Shifted(Y) = [i \in 1..4 |-> Shifted(Y)[i]]
    BY DEF Shifted, ShiftRows
  <2>. QED  BY <1>4, <2>1 DEF Block
<1>6. ASSUME NEW i \in 1..4 PROVE CycledBack(Shifted(Y), i) = SubWord(Y[i])
  <2>1. Y[i] \in Word
    BY DEF Block
  <2>2. SubWord(Y[i]) \in Word /\ \A r \in 1..4 : SubWord(Y[i])[r] = GenFSb[Y[i][r]]
    BY <2>1, SubWordType
  <2>3. CycledBack(Shifted(Y), i) \in Word
    BY <1>5, CycledType
  <2>4. /\ CycledBack(Shifted(Y), i)[1] = GenFSb[Y[i][1]]
        /\ CycledBack(Shifted(Y), i)[2] = GenFSb[Y[i][2]]
        /\ CycledBack(Shifted(Y), i)[3] = GenFSb[Y[i][3]]
        /\ CycledBack(Shifted(Y), i)[4] = GenFSb[Y[i][4]]
    BY <1>3, Next4Type DEF CycledBack
  <2>. QED  BY <2>2, <2>3, <2>4, SameWord
<1>. QED  BY <1>4, <1>5, <1>6

LEMMA UnmixBlockType ==
    \A x \in Block : UnmixBlock(x) \in Block /\ \A i \in 1..4 : UnmixBlock(x)[i] = UnmixWord(x[i])
BY UnmixWordType DEF UnmixBlock, Block

LEMMA MixColumnsType ==
    \A x \in Block : MixColumns(x) \in Block /\ \A i \in 1..4 : MixColumns(x)[i] = MixColumn(x[i])
BY MixColumnType DEF MixColumns, Block

LEMMA FourWords ==
    ASSUME NEW x \in Block
    PROVE  <<x[1], x[2], x[3], x[4]>> = x
BY DEF Block

\* The rounds forth are those of the standard ...
LEMMA FRoundRight ==
    ASSUME NEW K \in Block, NEW Y \in Block
    PROVE  AES_FROUND(Full, K, Y) = XorBlock(MixColumns(Shifted(Y)), K)
<1>1. ASSUME NEW i \in 1..4
      PROVE  FColumn(Full, K, Y, i) = MixColumns(Shifted(Y))[i] (+) K[i]
  <2>1. PICK w \in Word : w = Cycled(Y, i)
    BY CycledType
  <2>2. PICK k \in Word : k = K[i]
    BY DEF Block
  <2>3. w[1] = Y[i][1] /\ w[2] = Y[Next4(i, 1)][2] /\ w[3] = Y[Next4(i, 2)][3]
        /\ w[4] = Y[Next4(i, 3)][4]
    BY <2>1 DEF Cycled
  <2>4. FColumn(Full, K, Y, i) = k (+) MixColumn(SubWord(w))
    BY <2>2, <2>3, FWord DEF FColumn
  <2>5. Shifted(Y) \in Block /\ Shifted(Y)[i] = SubWord(w)
    BY <2>1, ShiftedRight
  <2>6. MixColumns(Shifted(Y))[i] = MixColumn(SubWord(w))
    BY <2>5, MixColumnsType
  <2>7. MixColumn(SubWord(w)) \in Word
    BY SubWordType, MixColumnType
  <2>. QED  BY <2>2, <2>4, <2>6, <2>7, WordCommutes
<1>2. AES_FROUND(Full, K, Y)
        = <<MixColumns(Shifted(Y))[1] (+) K[1], MixColumns(Shifted(Y))[2] (+) K[2],
            MixColumns(Shifted(Y))[3] (+) K[3], MixColumns(Shifted(Y))[4] (+) K[4]>>
  BY <1>1 DEF AES_FROUND
<1>. QED  BY <1>2 DEF XorBlock

\* The last round has no mixing.
LEMMA LastFRoundRight ==
    ASSUME NEW K \in Block, NEW Y \in Block
    PROVE  LastFRound(Full, K, Y) = XorBlock(Shifted(Y), K)
<1>1. ASSUME NEW i \in 1..4
      PROVE  LastFColumn(Full, K, Y, i) = Shifted(Y)[i] (+) K[i]
  <2>1. PICK w \in Word : w = Cycled(Y, i)
    BY CycledType
  <2>2. PICK k \in Word : k = K[i]
    BY DEF Block
  <2>3. LastFColumn(Full, K, Y, i) = k (+) Sub(Full.FSb, w)
    BY <2>1, <2>2 DEF LastFColumn, Cycled
  <2>4. SubWord(w) \in Word /\ \A r \in 1..4 : SubWord(w)[r] = GenFSb[w[r]]
    BY SubWordType
  <2>5. Sub(Full.FSb, w) = SubWord(w)
    BY <2>4, FullTables DEF Sub, Word
  <2>6. Shifted(Y)[i] = SubWord(w)
    BY <2>1, ShiftedRight
  <2>. QED  BY <2>2, <2>3, <2>4, <2>5, <2>6, WordCommutes
<1>2. LastFRound(Full, K, Y)
        = <<Shifted(Y)[1] (+) K[1], Shifted(Y)[2] (+) K[2],
            Shifted(Y)[3] (+) K[3], Shifted(Y)[4] (+) K[4]>>
  BY <1>1 DEF LastFRound
<1>. QED  BY <1>2 DEF XorBlock

\* ... and those back take them back, with the columns of the key taken back.
LEMMA RRoundRight ==
    ASSUME NEW K \in Block, NEW X \in Block
    PROVE  AES_RROUND(Full, UnmixBlock(K), Shifted(X)) = UnmixBlock(XorBlock(X, K))
<1>1. ASSUME NEW i \in 1..4
      PROVE  RColumn(Full, UnmixBlock(K), Shifted(X), i) = UnmixBlock(XorBlock(X, K))[i]
  <2>1. PICK Y \in Block : Y = Shifted(X) /\ CycledBack(Y, i) = SubWord(X[i])
    BY ShiftedRight
  <2>2. PICK x \in Word, k \in Word : x = X[i] /\ k = K[i]
    BY DEF Block
  <2>3. PICK w \in Word : w = SubWord(x)
    BY SubWordType
  <2>4. UnmixBlock(K)[i] = UnmixWord(k) /\ UnmixWord(k) \in Word /\ UnmixWord(x) \in Word
    BY <2>2, UnmixBlockType, UnmixWordType
  <2>5. w[1] = Y[i][1] /\ w[2] = Y[Next4(i, 3)][2] /\ w[3] = Y[Next4(i, 2)][3]
        /\ w[4] = Y[Next4(i, 1)][4]
    BY <2>1, <2>2, <2>3 DEF CycledBack
  <2>6. RColumn(Full, UnmixBlock(K), Y, i) = UnmixWord(k) (+) UnmixWord(InvSubWord(w))
    BY <2>4, <2>5, RWord DEF RColumn
  <2>7. InvSubWord(w) = x
    BY <2>3, InvSubOfSub
  <2>8. UnmixWord(k) (+) UnmixWord(x) = UnmixWord(x (+) k)
    BY <2>4, UnmixOfXor, WordCommutes
  <2>9. XorBlock(X, K) \in Block /\ XorBlock(X, K)[i] = x (+) k
    BY <2>2, BlockXorType
  <2>10. UnmixBlock(XorBlock(X, K))[i] = UnmixWord(x (+) k)
    BY <2>9, UnmixBlockType
  <2>. QED  BY <2>1, <2>6, <2>7, <2>8, <2>10
<1>2. UnmixBlock(XorBlock(X, K)) \in Block
  BY BlockXorType, UnmixBlockType
<1>3. PICK z \in Block : z = UnmixBlock(XorBlock(X, K))
  BY <1>2
<1>4. AES_RROUND(Full, UnmixBlock(K), Shifted(X)) = <<z[1], z[2], z[3], z[4]>>
  BY <1>1, <1>3 DEF AES_RROUND
<1>. QED  BY <1>3, <1>4, FourWords

\* The last round back.
LEMMA LastRRoundRight ==
    ASSUME NEW K \in Block, NEW X \in Block
    PROVE  LastRRound(Full, K, Shifted(X)) = XorBlock(K, X)
<1>1. ASSUME NEW i \in 1..4
      PROVE  LastRColumn(Full, K, Shifted(X), i) = K[i] (+) X[i]
  <2>1. PICK Y \in Block : Y = Shifted(X) /\ CycledBack(Y, i) = SubWord(X[i])
    BY ShiftedRight
  <2>2. PICK x \in Word, k \in Word : x = X[i] /\ k = K[i]
    BY DEF Block
  <2>3. PICK w \in Word : w = SubWord(x)
    BY SubWordType
  <2>4. LastRColumn(Full, K, Y, i) = k (+) Sub(Full.RSb, w)
    BY <2>1, <2>2, <2>3 DEF LastRColumn, CycledBack
  <2>5. InvSubWord(w) \in Word /\ \A r \in 1..4 : InvSubWord(w)[r] = GenRSb[w[r]]
    BY InvSubWordType
  <2>6. Sub(Full.RSb, w) = InvSubWord(w)
    BY <2>5, FullTables DEF Sub, Word
  <2>7. InvSubWord(w) = x
    BY <2>3, InvSubOfSub
  <2>. QED  BY <2>1, <2>2, <2>4, <2>6, <2>7
<1>2. LastRRound(Full, K, Shifted(X))
        = <<K[1] (+) X[1], K[2] (+) X[2], K[3] (+) X[3], K[4] (+) X[4]>>
  BY <1>1 DEF LastRRound
<1>. QED  BY <1>2 DEF XorBlock

\* A block mixed and taken back.
LEMMA UnmixOfMix ==
    ASSUME NEW x \in Block
    PROVE  UnmixBlock(MixColumns(x)) = x
<1>1. MixColumns(x) \in Block /\ \A i \in 1..4 : MixColumns(x)[i] = MixColumn(x[i])
  BY MixColumnsType
<1>2. UnmixBlock(MixColumns(x)) \in Block
      /\ \A i \in 1..4 : UnmixBlock(MixColumns(x))[i] = UnmixWord(MixColumns(x)[i])
  BY <1>1, UnmixBlockType
<1>3. \A i \in 1..4 : x[i] \in Word
  BY DEF Block
<1>4. \A i \in 1..4 : UnmixBlock(MixColumns(x))[i] = x[i]
  BY <1>1, <1>2, <1>3, UnmixMixColumn
<1>. QED  BY <1>2, <1>4, SameBlock

--------------------------------------------------------------------------------
(* Key schedules. *)

\* The substitution of a word by the table.
LEMMA SubRight == \A w \in Word : Sub(Full.FSb, w) = SubWord(w)
<1>1. SUFFICES ASSUME NEW w \in Word PROVE Sub(Full.FSb, w) = SubWord(w)
  OBVIOUS
<1>2. SubWord(w) \in Word /\ \A r \in 1..4 : SubWord(w)[r] = GenFSb[w[r]]
  BY SubWordType
<1>. QED  BY <1>2, FullTables DEF Sub, Word

\* The standard's next word of a schedule, for keys of k words.
NextWord(w, k) ==
    w[Len(w) - k + 1]
        (+) (IF Len(w) % k = 0 THEN <<RomRCON[Len(w) \div k], 0, 0, 0>> (+) SubWord(RotWord(w[Len(w)]))
             ELSE IF k > 6 /\ Len(w) % k = 4 THEN SubWord(w[Len(w)]) ELSE w[Len(w)])
Grow(k) == [n \in Nat |-> [w \in Seq(Word) |-> Append(w, NextWord(w, k))]]
GrowRK(k) == [n \in Nat |-> [w \in Seq(Word) |-> NextRK(Full, w, k)]]
FirstWords(key, k) == [i \in 1..k |-> SubSeq(key, 4 * i - 3, 4 * i)]

\* What there can be of a schedule after n steps.
Grown(k) == [n \in Nat |-> {w \in Seq(Word) : Len(w) = k + n}]

\* RCON has a constant for every word that asks for one.
LEMMA IndexOfRCON ==
    ASSUME NEW k \in {4, 6, 8}, NEW n \in Nat, n < 3 * k + 28, (k + n) % k = 0
    PROVE  (k + n) \div k \in 1..10
<1>1. CASE k = 4
  BY <1>1
<1>2. CASE k = 6
  BY <1>2
<1>3. CASE k = 8
  BY <1>3
<1>. QED  BY <1>1, <1>2, <1>3

LEMMA RotWordType == \A w \in Word : RotWord(w) \in Word
BY WordOf DEF RotWord, Word

\* The next word of the code is the next word of the standard.
LEMMA NextWordRight ==
    ASSUME NEW k \in {4, 6, 8}, NEW n \in Nat, n < 3 * k + 28, NEW w \in Seq(Word), Len(w) = k + n
    PROVE  /\ NextWord(w, k) \in Word
           /\ NextRK(Full, w, k) = Append(w, NextWord(w, k))
<1> DEFINE last == w[Len(w)]
           temp == IF Len(w) % k = 0 THEN <<RomRCON[Len(w) \div k], 0, 0, 0>> (+) SubWord(RotWord(last))
                   ELSE IF k > 6 /\ Len(w) % k = 4 THEN SubWord(last) ELSE last
           temp2 == IF Len(w) % k = 0
                    THEN <<Full.RCON[Len(w) \div k], 0, 0, 0>>
                            (+) Sub(Full.FSb, <<last[2], last[3], last[4], last[1]>>)
                    ELSE IF k = 8 /\ Len(w) % k = 4 THEN Sub(Full.FSb, last) ELSE last
<1>1. last \in Word /\ w[Len(w) - k + 1] \in Word
  <2>1. Len(w) \in 1..Len(w) /\ Len(w) - k + 1 \in 1..Len(w)
    OBVIOUS
  <2>. QED  BY <2>1, ElementOfSeq
<1>2. Len(w) % k = 0 => /\ Full.RCON[Len(w) \div k] = RomRCON[Len(w) \div k]
                        /\ RomRCON[Len(w) \div k] \in Byte
  <2>1. /\ RomRCON[1] = 1 /\ RomRCON[2] = 2 /\ RomRCON[3] = 4 /\ RomRCON[4] = 8 /\ RomRCON[5] = 16
        /\ RomRCON[6] = 32 /\ RomRCON[7] = 64 /\ RomRCON[8] = 128 /\ RomRCON[9] = 27
        /\ RomRCON[10] = 54
    BY DEF RomRCON
  <2>2. \A i \in 1..10 : RomRCON[i] \in Byte
    <3>1. /\ 1 \in Byte /\ 2 \in Byte /\ 4 \in Byte /\ 8 \in Byte /\ 16 \in Byte /\ 32 \in Byte
          /\ 64 \in Byte /\ 128 \in Byte /\ 27 \in Byte /\ 54 \in Byte
      BY DEF Byte
    <3>2. PICK r : r = RomRCON
      OBVIOUS
    <3>3. /\ r[1] \in Byte /\ r[2] \in Byte /\ r[3] \in Byte /\ r[4] \in Byte /\ r[5] \in Byte
          /\ r[6] \in Byte /\ r[7] \in Byte /\ r[8] \in Byte /\ r[9] \in Byte /\ r[10] \in Byte
      BY <2>1, <3>1, <3>2
    <3>4. \A i \in 1..10 : r[i] \in Byte
      BY <3>3
    <3>. QED  BY <3>2, <3>4
  <2>3. Len(w) % k = 0 => Len(w) \div k \in 1..10
    BY IndexOfRCON
  <2>. QED  BY <2>2, <2>3, FullTables, SubstitutionsRight
<1>. HIDE DEF last
<1>3. temp2 = temp /\ temp \in Word
  <2>1. CASE Len(w) % k = 0
    <3>1. PICK v \in Word : v = RotWord(last)
      BY <1>1, RotWordType
    <3>2. <<RomRCON[Len(w) \div k], 0, 0, 0>> \in Word
      <4>1. 0 \in Byte
        BY DEF Byte
      <4>. QED  BY <1>2, <2>1, <4>1, WordOf
    <3>3. Sub(Full.FSb, v) = SubWord(v) /\ SubWord(v) \in Word
      BY SubRight, SubWordType
    <3>4. <<RomRCON[Len(w) \div k], 0, 0, 0>> (+) SubWord(v) \in Word
      BY <3>2, <3>3, WordXorType
    <3>. QED  BY <1>2, <2>1, <3>1, <3>3, <3>4 DEF RotWord
  <2>2. CASE Len(w) % k # 0
    <3>1. Sub(Full.FSb, last) = SubWord(last) /\ SubWord(last) \in Word
      BY <1>1, SubRight, SubWordType
    <3>. QED  BY <1>1, <2>2, <3>1
  <2>. QED  BY <2>1, <2>2
<1>4. NextWord(w, k) = w[Len(w) - k + 1] (+) temp
  BY DEF NextWord, last
<1>5. NextRK(Full, w, k) = Append(w, w[Len(w) - k + 1] (+) temp2)
  BY DEF NextRK, last
<1>. QED  BY <1>1, <1>3, <1>4, <1>5, WordXorType

\* Four elements in a row.
LEMMA FourOfSeq ==
    ASSUME NEW S, NEW s \in Seq(S), NEW a \in 1..Len(s), a + 3 <= Len(s)
    PROVE  /\ SubSeq(s, a, a + 3) = <<s[a], s[a + 1], s[a + 2], s[a + 3]>>
           /\ s[a] \in S /\ s[a + 1] \in S /\ s[a + 2] \in S /\ s[a + 3] \in S
<1>1. \A j \in a..a + 3 : s[j] \in S
  BY ElementOfSeq
<1>2. /\ SubSeq(s, a, a + 3) \in Seq(S) /\ Len(SubSeq(s, a, a + 3)) = 4
      /\ \A j \in 1..4 : SubSeq(s, a, a + 3)[j] = s[a + j - 1]
  <2>1. a \in Int /\ a + 3 \in Int /\ (a + 3) - a + 1 = 4 /\ a <= a + 3
        /\ (IF a <= a + 3 THEN (a + 3) - a + 1 ELSE 0) = 4
    OBVIOUS
  <2>2. /\ SubSeq(s, a, a + 3) \in Seq(S)
        /\ Len(SubSeq(s, a, a + 3)) = IF a <= a + 3 THEN (a + 3) - a + 1 ELSE 0
        /\ \A j \in 1..(a + 3) - a + 1 : SubSeq(s, a, a + 3)[j] = s[a + j - 1]
    BY <1>1, <2>1, SubSeqProperties
  <2>. QED  BY <2>1, <2>2
<1>3. /\ SubSeq(s, a, a + 3)[1] = s[a] /\ SubSeq(s, a, a + 3)[2] = s[a + 1]
      /\ SubSeq(s, a, a + 3)[3] = s[a + 2] /\ SubSeq(s, a, a + 3)[4] = s[a + 3]
  <2>1. a + 1 - 1 = a /\ a + 2 - 1 = a + 1 /\ a + 3 - 1 = a + 2 /\ a + 4 - 1 = a + 3
    OBVIOUS
  <2>. QED  BY <1>2, <2>1
<1>4. PICK q \in Seq(S) : q = SubSeq(s, a, a + 3)
  BY <1>2
<1>5. Len(q) = 4 /\ q[1] = s[a] /\ q[2] = s[a + 1] /\ q[3] = s[a + 2] /\ q[4] = s[a + 3]
  BY <1>2, <1>3, <1>4
<1>6. \A t \in Seq(S) : Len(t) = 4 => t = <<t[1], t[2], t[3], t[4]>>
  OBVIOUS
<1>7. q = <<q[1], q[2], q[3], q[4]>>
  BY <1>5, <1>6
<1>8. a \in a..a + 3 /\ a + 1 \in a..a + 3 /\ a + 2 \in a..a + 3 /\ a + 3 \in a..a + 3
  OBVIOUS
<1>9. s[a] \in S /\ s[a + 1] \in S /\ s[a + 2] \in S /\ s[a + 3] \in S
  BY <1>1, <1>8
<1>. QED  BY <1>4, <1>5, <1>7, <1>9

\* Both schedules begin with the words of the key, and take as many steps.
LEMMA ScheduleOf ==
    ASSUME NEW key \in Seq(Byte), Len(key) \in KeyLengths
    PROVE  LET k == Len(key) \div 4
           IN /\ k \in {4, 6, 8} /\ Len(key) = 4 * k
              /\ KeyExpansion(key) = Steps(Grow(k), FirstWords(key, k))[3 * k + 28]
              /\ aes_setkey_enc(Full, key)
                    = [nr |-> k + 6, rk |-> Steps(GrowRK(k), FirstWords(key, k))[3 * k + 28]]
              /\ FirstWords(key, k) \in Grown(k)[0]
<1> DEFINE k == Len(key) \div 4
<1>1. k \in {4, 6, 8} /\ Len(key) = 4 * k
  <2>1. Len(key) = 16 \/ Len(key) = 24 \/ Len(key) = 32
    BY DEF KeyLengths
  <2>2. 16 \div 4 = 4 /\ 24 \div 4 = 6 /\ 32 \div 4 = 8
    OBVIOUS
  <2>3. PICK j : j = Len(key) \div 4
    OBVIOUS
  <2>4. (j = 4 /\ Len(key) = 16) \/ (j = 6 /\ Len(key) = 24) \/ (j = 8 /\ Len(key) = 32)
    BY <2>1, <2>2, <2>3
  <2>5. j \in {4, 6, 8} /\ Len(key) = 4 * j
    <3>1. 16 = 4 * 4 /\ 24 = 4 * 6 /\ 32 = 4 * 8
      OBVIOUS
    <3>2. CASE j = 4 /\ Len(key) = 16
      BY <3>1, <3>2, Zenon
    <3>3. CASE j = 6 /\ Len(key) = 24
      BY <3>1, <3>3, Zenon
    <3>4. CASE j = 8 /\ Len(key) = 32
      BY <3>1, <3>4, Zenon
    <3>. QED  BY <2>4, <3>2, <3>3, <3>4
  <2>. QED  BY <2>3, <2>5
<1>2. KeyExpansion(key) = Steps(Grow(k), FirstWords(key, k))[3 * k + 28]
  BY DEF KeyExpansion, Grow, FirstWords, NextWord
<1>3. ASSUME NEW i \in 1..k
      PROVE  /\ GET_ULONG_LE(key, 4 * (i - 1)) = SubSeq(key, 4 * i - 3, 4 * i)
             /\ SubSeq(key, 4 * i - 3, 4 * i) \in Word
  <2>1. 4 * i - 3 \in 1..Len(key) /\ 4 * i <= Len(key)
    BY <1>1
  <2>. HIDE DEF k
  <2>2. PICK a \in 1..Len(key) : a = 4 * i - 3 /\ a + 3 <= Len(key)
    BY <2>1
  <2>3. /\ SubSeq(key, a, a + 3) = <<key[a], key[a + 1], key[a + 2], key[a + 3]>>
        /\ key[a] \in Byte /\ key[a + 1] \in Byte /\ key[a + 2] \in Byte /\ key[a + 3] \in Byte
    BY <2>2, FourOfSeq
  <2>4. /\ 4 * (i - 1) + 1 = a /\ 4 * (i - 1) + 2 = a + 1 /\ 4 * (i - 1) + 3 = a + 2
        /\ 4 * (i - 1) + 4 = a + 3 /\ 4 * i = a + 3
    BY <1>1, <2>2 DEF k
  <2>5. GET_ULONG_LE(key, 4 * (i - 1)) = <<key[a], key[a + 1], key[a + 2], key[a + 3]>>
    BY <2>4 DEF GET_ULONG_LE
  <2>. QED  BY <2>2, <2>3, <2>4, <2>5, WordOf
<1>4. [i \in 1..k |-> GET_ULONG_LE(key, 4 * (i - 1))] = FirstWords(key, k)
  BY <1>3 DEF FirstWords
<1>5. aes_setkey_enc(Full, key)
        = [nr |-> k + 6, rk |-> Steps(GrowRK(k), FirstWords(key, k))[3 * k + 28]]
  BY <1>4 DEF aes_setkey_enc, GrowRK
<1>6. FirstWords(key, k) \in [1..k -> Word]
  BY <1>3 DEF FirstWords
<1>7. FirstWords(key, k) \in Seq(Word) /\ Len(FirstWords(key, k)) = k
  BY <1>1, <1>6
<1>8. FirstWords(key, k) \in Grown(k)[0]
  BY <1>1, <1>7 DEF Grown
<1>. QED  BY <1>1, <1>2, <1>5, <1>8

(* The schedule that aes.c computes is the standard's key expansion.            *)
LEMMA ScheduleRight ==
    ASSUME NEW key \in Seq(Byte), Len(key) \in KeyLengths
    PROVE  LET k == Len(key) \div 4
           IN /\ k \in {4, 6, 8}
              /\ aes_setkey_enc(Full, key) = [nr |-> k + 6, rk |-> KeyExpansion(key)]
              /\ KeyExpansion(key) \in Seq(Word) /\ Len(KeyExpansion(key)) = 4 * (k + 7)
<1>1. PICK k \in {4, 6, 8} : k = Len(key) \div 4
  BY ScheduleOf
<1>2. PICK m \in Nat : m = 3 * k + 28
  BY <1>1
<1>3. PICK x : x = FirstWords(key, k) /\ x \in Grown(k)[0]
  BY <1>1, ScheduleOf
<1>4. Keeps(Grow(k), m, Grown(k)) /\ Copies(GrowRK(k), Grow(k), m, Grown(k))
  <2>1. SUFFICES ASSUME NEW n \in Nat, n < m, NEW v \in Seq(Word), Len(v) = k + n
                 PROVE  Grow(k)[n + 1][v] \in Grown(k)[n + 1] /\ GrowRK(k)[n + 1][v] = Grow(k)[n + 1][v]
    BY DEF Grown, Keeps, Copies
  <2>2. NextWord(v, k) \in Word /\ NextRK(Full, v, k) = Append(v, NextWord(v, k))
    BY <1>2, <2>1, NextWordRight
  <2>3. n + 1 \in Nat /\ k \in Nat
    OBVIOUS
  <2>4. Grow(k)[n + 1][v] = Append(v, NextWord(v, k)) /\ GrowRK(k)[n + 1][v] = NextRK(Full, v, k)
    BY <2>3 DEF Grow, GrowRK
  <2>5. Append(v, NextWord(v, k)) \in Seq(Word) /\ Len(Append(v, NextWord(v, k))) = k + (n + 1)
    BY <2>1, <2>2
  <2>6. Grown(k)[n + 1] = {w \in Seq(Word) : Len(w) = k + (n + 1)}
    BY <2>3 DEF Grown
  <2>. QED  BY <2>2, <2>4, <2>5, <2>6
<1>5. \A n \in Nat : n <= m => Steps(GrowRK(k), x)[n] = Steps(Grow(k), x)[n]
  BY <1>3, <1>4, StepsAgree
<1>6. \A n \in Nat : n <= m => Steps(Grow(k), x)[n] \in Grown(k)[n]
  BY <1>3, <1>4, StepsKeep
<1>7. Steps(GrowRK(k), x)[m] = Steps(Grow(k), x)[m] /\ Steps(Grow(k), x)[m] \in Grown(k)[m]
  BY <1>5, <1>6
<1>8. /\ KeyExpansion(key) = Steps(Grow(k), x)[m]
      /\ aes_setkey_enc(Full, key) = [nr |-> k + 6, rk |-> Steps(GrowRK(k), x)[m]]
  BY <1>1, <1>2, <1>3, ScheduleOf
<1>9. k + m = 4 * (k + 7)
  BY <1>2
<1>. QED  BY <1>1, <1>7, <1>8, <1>9 DEF Grown

--------------------------------------------------------------------------------
(* A block forth and back.  w is a schedule for nr rounds, X what the rounds of *)
(* the standard make of a block.                                                *)


\* The round keys of a schedule are blocks.
LEMMA RKRight ==
    ASSUME NEW w \in Seq(Word), NEW nr \in Nat, Len(w) = 4 * (nr + 1), NEW r \in 0..nr
    PROVE  SubSeq(w, 4 * r + 1, 4 * r + 4) = RK(w, r) /\ RK(w, r) \in Block
<1>1. PICK a \in 1..Len(w) : a = 4 * r + 1 /\ a + 3 <= Len(w)
  OBVIOUS
<1>2. 4 * r + 2 = a + 1 /\ 4 * r + 3 = a + 2 /\ 4 * r + 4 = a + 3
  BY <1>1
<1>3. /\ SubSeq(w, a, a + 3) = <<w[a], w[a + 1], w[a + 2], w[a + 3]>>
      /\ w[a] \in Word /\ w[a + 1] \in Word /\ w[a + 2] \in Word /\ w[a + 3] \in Word
  BY <1>1, FourOfSeq
<1>. QED  BY <1>1, <1>2, <1>3, BlockOfWords DEF RK

EcbRound(ctx, mode) == [r \in Nat |-> [X \in Block |->
    IF mode = "decrypt" THEN AES_RROUND(Full, RoundKey(ctx, r), X)
                        ELSE AES_FROUND(Full, RoundKey(ctx, r), X)]]
StandardRound(w) == [r \in Nat |-> [s \in Block |->
    XorBlock(MixColumns(ShiftRows(SubBytes(s))), SubSeq(w, 4 * r + 1, 4 * r + 4))]]
Forth(w, block) == Steps(StandardRound(w), XorBlock(block, SubSeq(w, 1, 4)))
AnyBlock == [n \in Nat |-> Block]

\* One round of the code is one of the standard.
LEMMA RoundKeysSteps ==
    ASSUME NEW w \in Seq(Word), NEW nr \in Nat \ {0}, Len(w) = 4 * (nr + 1), NEW r \in Nat, r <= nr,
           NEW X \in Block
    PROVE  /\ XorBlock(MixColumns(Shifted(X)), RK(w, r)) \in Block
           /\ StandardRound(w)[r][X] = XorBlock(MixColumns(Shifted(X)), RK(w, r))
           /\ EcbRound([nr |-> nr, rk |-> w], "encrypt")[r][X]
                = XorBlock(MixColumns(Shifted(X)), RK(w, r))
<1>1. SubSeq(w, 4 * r + 1, 4 * r + 4) = RK(w, r) /\ RK(w, r) \in Block
  <2>1. r \in 0..nr /\ nr \in Nat
    OBVIOUS
  <2>. QED  BY <2>1, RKRight
<1>2. Shifted(X) \in Block /\ MixColumns(Shifted(X)) \in Block
  BY ShiftedRight, MixColumnsType
<1>3. XorBlock(MixColumns(Shifted(X)), RK(w, r)) \in Block
  BY <1>1, <1>2, BlockXorType
<1>4. StandardRound(w)[r][X] = XorBlock(MixColumns(Shifted(X)), RK(w, r))
  BY <1>1 DEF StandardRound, Shifted
<1>5. RoundKey([nr |-> nr, rk |-> w], r) = RK(w, r)
  BY DEF RoundKey, RK
<1>6. EcbRound([nr |-> nr, rk |-> w], "encrypt")[r][X] = AES_FROUND(Full, RK(w, r), X)
  BY <1>5 DEF EcbRound
<1>. QED  BY <1>1, <1>3, <1>4, <1>6, FRoundRight

\* The rounds of the standard go from block to block.
LEMMA ForthType ==
    ASSUME NEW w \in Seq(Word), NEW nr \in Nat \ {0}, Len(w) = 4 * (nr + 1), NEW block \in Block
    PROVE  /\ XorBlock(block, RK(w, 0)) \in Block /\ SubSeq(w, 1, 4) = RK(w, 0)
           /\ Keeps(StandardRound(w), nr - 1, AnyBlock)
           /\ \A n \in Nat : n <= nr - 1 => Forth(w, block)[n] \in Block
<1>1. SubSeq(w, 1, 4) = RK(w, 0) /\ RK(w, 0) \in Block
  <2>1. 0 \in 0..nr /\ 4 * 0 + 1 = 1 /\ 4 * 0 + 4 = 4 /\ nr \in Nat
    OBVIOUS
  <2>. QED  BY <2>1, RKRight
<1>2. XorBlock(block, RK(w, 0)) \in Block
  BY <1>1, BlockXorType
<1>3. Keeps(StandardRound(w), nr - 1, AnyBlock)
  <2>1. SUFFICES ASSUME NEW n \in Nat, n < nr - 1, NEW v \in Block
                 PROVE  StandardRound(w)[n + 1][v] \in Block
    BY DEF Keeps, AnyBlock
  <2>2. n + 1 \in Nat /\ n + 1 <= nr
    BY <2>1
  <2>. QED  BY <2>2, RoundKeysSteps
<1>4. \A n \in Nat : n <= nr - 1 => Forth(w, block)[n] \in AnyBlock[n]
  <2>1. nr - 1 \in Nat
    OBVIOUS
  <2>2. XorBlock(block, SubSeq(w, 1, 4)) \in AnyBlock[0]
    BY <1>1, <1>2 DEF AnyBlock
  <2>. QED  BY <1>3, <2>1, <2>2, StepsKeep DEF Forth
<1>. QED  BY <1>1, <1>2, <1>3, <1>4 DEF AnyBlock

\* Encryption by the tables is what the rounds of the standard make.
LEMMA EcbForth ==
    ASSUME NEW w \in Seq(Word), NEW nr \in Nat \ {0}, Len(w) = 4 * (nr + 1), NEW block \in Block
    PROVE  /\ aes_crypt_ecb(Full, [nr |-> nr, rk |-> w], "encrypt", block)
                = XorBlock(Shifted(Forth(w, block)[nr - 1]), RK(w, nr))
           /\ XorBlock(Shifted(Forth(w, block)[nr - 1]), RK(w, nr)) \in Block
<1> DEFINE ctx == [nr |-> nr, rk |-> w]
<1>1. nr - 1 \in Nat /\ nr \in Nat /\ nr \in 0..nr
  OBVIOUS
<1>2. PICK x : x = XorBlock(block, RK(w, 0))
  OBVIOUS
<1>3. x \in Block /\ Forth(w, block) = Steps(StandardRound(w), x)
  BY <1>2, ForthType DEF Forth
<1>4. Keeps(StandardRound(w), nr - 1, AnyBlock)
  BY ForthType
<1>5. Copies(EcbRound(ctx, "encrypt"), StandardRound(w), nr - 1, AnyBlock)
  <2>1. SUFFICES ASSUME NEW n \in Nat, n < nr - 1, NEW v \in Block
                 PROVE  EcbRound(ctx, "encrypt")[n + 1][v] = StandardRound(w)[n + 1][v]
    BY DEF Copies, AnyBlock
  <2>2. n + 1 \in Nat /\ n + 1 <= nr
    BY <2>1
  <2>. QED  BY <2>2, RoundKeysSteps
<1>6. Steps(EcbRound(ctx, "encrypt"), x)[nr - 1] = Forth(w, block)[nr - 1]
  <2>1. x \in AnyBlock[0]
    BY <1>3 DEF AnyBlock
  <2>2. \A n \in Nat : n <= nr - 1 =>
            Steps(EcbRound(ctx, "encrypt"), x)[n] = Steps(StandardRound(w), x)[n]
    BY <1>1, <1>4, <1>5, <2>1, StepsAgree
  <2>. QED  BY <1>1, <1>3, <2>2
<1>7. PICK X \in Block : X = Forth(w, block)[nr - 1]
  BY <1>1, ForthType
<1>8. RoundKey(ctx, 0) = RK(w, 0) /\ RoundKey(ctx, nr) = RK(w, nr) /\ ctx.nr = nr
  BY DEF RoundKey, RK
<1>9. aes_crypt_ecb(Full, ctx, "encrypt", block)
        = LastFRound(Full, RoundKey(ctx, nr),
              Steps(EcbRound(ctx, "encrypt"), XorBlock(block, RoundKey(ctx, 0)))[nr - 1])
  BY DEF aes_crypt_ecb, EcbRound
<1>10. aes_crypt_ecb(Full, ctx, "encrypt", block) = LastFRound(Full, RK(w, nr), X)
  BY <1>2, <1>6, <1>7, <1>8, <1>9
<1>11. RK(w, nr) \in Block /\ Shifted(X) \in Block
  BY <1>1, RKRight, ShiftedRight
<1>. QED  BY <1>7, <1>10, <1>11, LastFRoundRight, BlockXorType

\* The schedule of ctx is w in reverse order, its inner round keys unmixed.
Reverses(ctx, w, nr) ==
    /\ ctx.nr = nr
    /\ RoundKey(ctx, 0) = RK(w, nr) /\ RoundKey(ctx, nr) = RK(w, 0)
    /\ \A r \in 1..nr - 1 : RoundKey(ctx, r) = UnmixBlock(RK(w, nr - r))

\* Round by round backwards, decryption finds what the rounds forth began with.
LEMMA EcbBack ==
    ASSUME NEW w \in Seq(Word), NEW nr \in Nat \ {0}, Len(w) = 4 * (nr + 1), NEW block \in Block,
           NEW ctx, Reverses(ctx, w, nr)
    PROVE  aes_crypt_ecb(Full, ctx, "decrypt", XorBlock(Shifted(Forth(w, block)[nr - 1]), RK(w, nr)))
             = block
<1> DEFINE X(n) == Forth(w, block)[n]
           S == [n \in Nat |-> {Shifted(X(nr - 1 - n))}]
<1>1. nr - 1 \in Nat /\ nr \in Nat /\ nr \in 0..nr /\ 0 \in 0..nr /\ 0 \in Nat /\ nr - 1 - 0 = nr - 1
      /\ nr - 1 - (nr - 1) = 0
  OBVIOUS
<1>2. \A n \in Nat : n <= nr - 1 => X(n) \in Block
  BY ForthType
<1>3. X(0) = XorBlock(block, RK(w, 0))
  BY StepsRight, ForthType DEF Forth
<1>4. ASSUME NEW n \in Nat, n + 1 <= nr - 1
      PROVE  X(n + 1) = XorBlock(MixColumns(Shifted(X(n))), RK(w, n + 1))
  <2>1. n + 1 \in Nat /\ n + 1 # 0 /\ (n + 1) - 1 = n /\ n + 1 <= nr /\ n <= nr - 1
    BY <1>4
  <2>2. X(n + 1) = StandardRound(w)[n + 1][X(n)]
    BY <2>1, StepsRight DEF Forth
  <2>3. X(n) \in Block
    BY <1>2, <2>1
  <2>. QED  BY <2>1, <2>2, <2>3, RoundKeysSteps
<1>. HIDE DEF X
<1>5. \A r \in 0..nr : RK(w, r) \in Block
  BY <1>1, RKRight
<1>6. Keeps(EcbRound(ctx, "decrypt"), nr - 1, S)
  <2>1. SUFFICES ASSUME NEW n \in Nat, n < nr - 1
                 PROVE  EcbRound(ctx, "decrypt")[n + 1][Shifted(X(nr - 1 - n))]
                          = Shifted(X(nr - 1 - (n + 1)))
    BY DEF Keeps
  <2>2. PICK p \in Nat : p = nr - 1 - (n + 1) /\ p + 1 = nr - 1 - n /\ p + 1 <= nr - 1
                         /\ p + 1 = nr - (n + 1) /\ p + 1 \in 0..nr /\ p <= nr - 1
    BY <2>1
  <2>3. n + 1 \in Nat /\ n + 1 \in 1..nr - 1 /\ p + 1 \in Nat
    BY <2>1
  <2>4. X(p) \in Block /\ X(p + 1) \in Block
    BY <1>2, <2>2, <2>3
  <2>5. Shifted(X(p)) \in Block /\ Shifted(X(p + 1)) \in Block /\ RK(w, p + 1) \in Block
    BY <1>5, <2>2, <2>4, ShiftedRight
  <2>6. RoundKey(ctx, n + 1) = UnmixBlock(RK(w, p + 1))
    BY <2>2, <2>3 DEF Reverses
  <2>7. EcbRound(ctx, "decrypt")[n + 1][Shifted(X(p + 1))]
          = AES_RROUND(Full, UnmixBlock(RK(w, p + 1)), Shifted(X(p + 1)))
    BY <2>3, <2>5, <2>6 DEF EcbRound
  <2>8. AES_RROUND(Full, UnmixBlock(RK(w, p + 1)), Shifted(X(p + 1)))
          = UnmixBlock(XorBlock(X(p + 1), RK(w, p + 1)))
    BY <2>4, <2>5, RRoundRight
  <2>9. PICK m \in Block : m = MixColumns(Shifted(X(p)))
    BY <2>5, MixColumnsType
  <2>10. XorBlock(X(p + 1), RK(w, p + 1)) = m
    BY <1>4, <2>2, <2>5, <2>9, BlockTwice
  <2>11. UnmixBlock(m) = Shifted(X(p))
    BY <2>5, <2>9, UnmixOfMix
  <2>. QED  BY <2>2, <2>7, <2>8, <2>10, <2>11
<1>7. PICK c : c = Shifted(X(nr - 1))
  OBVIOUS
<1>8. c \in Block /\ XorBlock(XorBlock(c, RK(w, nr)), RK(w, nr)) = c
  <2>1. X(nr - 1) \in Block
    BY <1>1, <1>2
  <2>2. RK(w, nr) \in Block
    BY <1>1, <1>5
  <2>. QED  BY <1>7, <2>1, <2>2, ShiftedRight, BlockTwice
<1>9. Steps(EcbRound(ctx, "decrypt"), c)[nr - 1] = Shifted(X(0))
  <2>1. c \in S[0]
    BY <1>1, <1>7
  <2>2. S[nr - 1] = {Shifted(X(0))}
    BY <1>1
  <2>. HIDE DEF S
  <2>3. \A n \in Nat : n <= nr - 1 => Steps(EcbRound(ctx, "decrypt"), c)[n] \in S[n]
    BY <1>1, <1>6, <2>1, StepsKeep
  <2>. QED  BY <1>1, <2>2, <2>3
<1>10. PICK e : e = XorBlock(c, RK(w, nr))
  OBVIOUS
<1>11. aes_crypt_ecb(Full, ctx, "decrypt", e)
        = LastRRound(Full, RoundKey(ctx, ctx.nr),
              Steps(EcbRound(ctx, "decrypt"), XorBlock(e, RoundKey(ctx, 0)))[ctx.nr - 1])
  BY DEF aes_crypt_ecb, EcbRound
<1>12. aes_crypt_ecb(Full, ctx, "decrypt", e) = LastRRound(Full, RK(w, 0), Shifted(X(0)))
  BY <1>8, <1>9, <1>10, <1>11 DEF Reverses
<1>13. RK(w, 0) \in Block /\ X(0) \in Block
  BY <1>1, <1>2, <1>5
<1>14. LastRRound(Full, RK(w, 0), Shifted(X(0))) = XorBlock(RK(w, 0), XorBlock(block, RK(w, 0)))
  BY <1>3, <1>13, LastRRoundRight
<1>15. XorBlock(RK(w, 0), XorBlock(block, RK(w, 0))) = block
  BY <1>13, BlockTwice
<1>. QED  BY <1>7, <1>10, <1>12, <1>14, <1>15 DEF X

--------------------------------------------------------------------------------
(* The schedule of aes_setkey_dec. *)

Zero == <<0, 0, 0, 0>>

LEMMA ZeroWord ==
    /\ Zero \in Word
    /\ \A w \in Word : Zero (+) w = w
<1>1. 0 \in Byte
  BY DEF Byte
<1>2. Zero \in Word
  BY <1>1, WordOf DEF Zero
<1>3. ASSUME NEW w \in Word PROVE Zero (+) w = w
  <2>1. w[1] \in Byte /\ w[2] \in Byte /\ w[3] \in Byte /\ w[4] \in Byte
    BY DEF Word
  <2>2. Xor[0][w[1]] = w[1] /\ Xor[0][w[2]] = w[2] /\ Xor[0][w[3]] = w[3] /\ Xor[0][w[4]] = w[4]
    BY <1>1, <2>1, XorZero, XorCommutes
  <2>3. Zero (+) w = <<w[1], w[2], w[3], w[4]>>
    BY <2>2 DEF Zero, (+)
  <2>. QED  BY <2>3 DEF Word
<1>. QED  BY <1>2, <1>3

\* The tables hold words.
LEMMA RTWord == \A k \in 1..4, x \in Byte : Full.RT[k][x] \in Word
<1>1. SUFFICES ASSUME NEW k \in 1..4, NEW x \in Byte PROVE Full.RT[k][x] \in Word
  OBVIOUS
<1>2. PICK s \in Byte : s = GenRSb[x]
  BY SubstitutionsRight
<1>3. GenRT[k][x] = ROTL8(<<MUL(14, s), MUL(9, s), MUL(13, s), MUL(11, s)>>, k - 1)
  BY <1>2 DEF GenRT, Rotations
<1>4. MUL(9, s) \in Byte /\ MUL(11, s) \in Byte /\ MUL(13, s) \in Byte /\ MUL(14, s) \in Byte
  BY MulType DEF Factors
<1>5. \A i \in 1..4 : ((i + 3 - (k - 1)) % 4) + 1 \in 1..4
  OBVIOUS
<1>6. PICK t : t = <<MUL(14, s), MUL(9, s), MUL(13, s), MUL(11, s)>>
  OBVIOUS
<1>7. t[1] \in Byte /\ t[2] \in Byte /\ t[3] \in Byte /\ t[4] \in Byte
  BY <1>4, <1>6
<1>8. \A i \in 1..4 : t[i] \in Byte
  BY <1>7
<1>9. ROTL8(t, k - 1) \in Word
  BY <1>5, <1>8 DEF ROTL8, Word
<1>. QED  BY <1>3, <1>6, <1>9, FullTables

\* What aes_setkey_dec does to a word of an inner round key.
Inverted(w) == Full.RT[1][Full.FSb[w[1]]] (+) Full.RT[2][Full.FSb[w[2]]]
               (+) Full.RT[3][Full.FSb[w[3]]] (+) Full.RT[4][Full.FSb[w[4]]]

LEMMA InvertedRight == \A w \in Word : Inverted(w) = UnmixWord(w)
<1>1. SUFFICES ASSUME NEW w \in Word PROVE Inverted(w) = UnmixWord(w)
  OBVIOUS
<1>2. PICK y \in Word : y = SubWord(w) /\ \A r \in 1..4 : y[r] = GenFSb[w[r]]
  BY SubWordType
<1>3. y[1] = Full.FSb[w[1]] /\ y[2] = Full.FSb[w[2]] /\ y[3] = Full.FSb[w[3]] /\ y[4] = Full.FSb[w[4]]
  BY <1>2, FullTables
<1>4. y[1] \in Byte /\ y[2] \in Byte /\ y[3] \in Byte /\ y[4] \in Byte
  BY DEF Word
<1>5. PICK a \in Word : a = Full.RT[1][y[1]]
  BY <1>4, RTWord
<1>6. Zero (+) a (+) Full.RT[2][y[2]] (+) Full.RT[3][y[3]] (+) Full.RT[4][y[4]]
        = Zero (+) UnmixWord(InvSubWord(y))
  BY <1>5, ZeroWord, RWord
<1>7. InvSubWord(y) = w
  BY <1>2, InvSubOfSub
<1>8. Zero (+) a = a /\ Zero (+) UnmixWord(w) = UnmixWord(w)
  BY <1>5, ZeroWord, UnmixWordType
<1>9. a (+) Full.RT[2][y[2]] (+) Full.RT[3][y[3]] (+) Full.RT[4][y[4]] = UnmixWord(w)
  BY <1>6, <1>7, <1>8
<1>. QED  BY <1>3, <1>5, <1>9 DEF Inverted

\* The schedule for decryption reverses that for encryption.
LEMMA DecRight ==
    ASSUME NEW key \in Seq(Byte), Len(key) \in KeyLengths
    PROVE  Reverses(aes_setkey_dec(Full, key), KeyExpansion(key), Len(key) \div 4 + 6)
<1>1. PICK w \in Seq(Word), nr \in {10, 12, 14} :
          /\ w = KeyExpansion(key) /\ nr = Len(key) \div 4 + 6 /\ Len(w) = 4 * (nr + 1)
          /\ aes_setkey_enc(Full, key) = [nr |-> nr, rk |-> w]
  <2>1. PICK k \in {4, 6, 8} : k = Len(key) \div 4
    BY ScheduleRight
  <2>2. k + 6 \in {10, 12, 14} /\ (k + 6) + 1 = k + 7
    OBVIOUS
  <2>. QED  BY <2>1, <2>2, ScheduleRight
<1> DEFINE SK(i) == w[4 * (nr - (i - 1) \div 4) + ((i - 1) % 4) + 1]
           rk == [i \in 1..Len(w) |-> IF 4 < i /\ i <= 4 * nr THEN Inverted(SK(i)) ELSE SK(i)]
<1>2. aes_setkey_dec(Full, key) = [nr |-> nr, rk |-> rk]
  <2>1. PICK c : c = aes_setkey_enc(Full, key)
    OBVIOUS
  <2> DEFINE CK(i) == c.rk[4 * (c.nr - (i - 1) \div 4) + ((i - 1) % 4) + 1]
             crk == [i \in 1..Len(c.rk) |-> IF 4 < i /\ i <= 4 * c.nr THEN Inverted(CK(i)) ELSE CK(i)]
  <2>2. aes_setkey_dec(Full, key) = [nr |-> c.nr, rk |-> crk]
    BY <2>1 DEF aes_setkey_dec, Inverted
  <2>3. c.nr = nr /\ c.rk = w
    BY <1>1, <2>1
  <2>4. crk = rk
    BY <2>3
  <2>. QED  BY <2>2, <2>3, <2>4
<1>3. ASSUME NEW r \in 0..nr, NEW j \in 1..4
      PROVE  /\ 4 * r + j \in 1..Len(w) /\ SK(4 * r + j) = w[4 * (nr - r) + j]
             /\ (4 < 4 * r + j /\ 4 * r + j <= 4 * nr) = (r \in 1..nr - 1)
  <2>1. (4 * r + j - 1) \div 4 = r /\ (4 * r + j - 1) % 4 = j - 1
    OBVIOUS
  <2>2. 4 * (nr - r) + (j - 1) + 1 = 4 * (nr - r) + j
    OBVIOUS
  <2>3. SK(4 * r + j) = w[4 * (nr - r) + j]
    BY <2>1, <2>2
  <2>4. 4 * r + j \in 1..Len(w)
    BY <1>1
  <2>5. (4 < 4 * r + j /\ 4 * r + j <= 4 * nr) = (r \in 1..nr - 1)
    OBVIOUS
  <2>. QED  BY <2>3, <2>4, <2>5
<1>. HIDE DEF SK
<1>4. ASSUME NEW r \in 0..nr, NEW j \in 1..4
      PROVE  /\ r \in 1..nr - 1 => rk[4 * r + j] = Inverted(w[4 * (nr - r) + j])
             /\ r \notin 1..nr - 1 => rk[4 * r + j] = w[4 * (nr - r) + j]
  BY <1>3
<1>. HIDE DEF rk
<1>5. PICK ctx : ctx = aes_setkey_dec(Full, key) /\ ctx.nr = nr /\ ctx.rk = rk
  BY <1>2
<1>6. 1 \in 1..4 /\ 2 \in 1..4 /\ 3 \in 1..4 /\ 4 \in 1..4
  OBVIOUS
<1>7. \A r \in 0..nr : r \notin 1..nr - 1 => RoundKey(ctx, r) = RK(w, nr - r)
  BY <1>4, <1>5, <1>6 DEF RoundKey, RK
<1>8. ASSUME NEW r \in 1..nr - 1 PROVE RoundKey(ctx, r) = UnmixBlock(RK(w, nr - r))
  <2>1. r \in 0..nr /\ nr - r \in 0..nr /\ nr \in Nat
    OBVIOUS
  <2>2. PICK K \in Block : K = RK(w, nr - r)
    BY <1>1, <2>1, RKRight
  <2>3. /\ K[1] = w[4 * (nr - r) + 1] /\ K[2] = w[4 * (nr - r) + 2]
        /\ K[3] = w[4 * (nr - r) + 3] /\ K[4] = w[4 * (nr - r) + 4]
    BY <2>2 DEF RK
  <2>4. K[1] \in Word /\ K[2] \in Word /\ K[3] \in Word /\ K[4] \in Word
    BY DEF Block
  <2>5. /\ ctx.rk[4 * r + 1] = UnmixWord(K[1]) /\ ctx.rk[4 * r + 2] = UnmixWord(K[2])
        /\ ctx.rk[4 * r + 3] = UnmixWord(K[3]) /\ ctx.rk[4 * r + 4] = UnmixWord(K[4])
    <3>1. \A j \in 1..4 : ctx.rk[4 * r + j] = Inverted(w[4 * (nr - r) + j])
      BY <1>4, <1>5, <2>1
    <3>2. \A j \in 1..4 : w[4 * (nr - r) + j] = K[j] /\ K[j] \in Word
      BY <2>3, <2>4
    <3>3. \A j \in 1..4 : ctx.rk[4 * r + j] = UnmixWord(K[j])
      BY <3>1, <3>2, InvertedRight
    <3>. QED  BY <1>6, <3>3
  <2>6. RoundKey(ctx, r) = <<UnmixWord(K[1]), UnmixWord(K[2]), UnmixWord(K[3]), UnmixWord(K[4])>>
    BY <2>5 DEF RoundKey
  <2>7. PICK U \in Block : U = UnmixBlock(K) /\ \A i \in 1..4 : U[i] = UnmixWord(K[i])
    BY UnmixBlockType
  <2>8. <<U[1], U[2], U[3], U[4]>> = U
    BY FourWords
  <2>. QED  BY <1>6, <2>2, <2>6, <2>7, <2>8
<1>9. 0 \in 0..nr /\ nr \in 0..nr /\ 0 \notin 1..nr - 1 /\ nr \notin 1..nr - 1 /\ nr - 0 = nr
      /\ nr - nr = 0
  OBVIOUS
<1>10. RoundKey(ctx, 0) = RK(w, nr) /\ RoundKey(ctx, nr) = RK(w, 0)
  BY <1>7, <1>9
<1>. QED  BY <1>1, <1>5, <1>8, <1>10 DEF Reverses

(* For keys of every length that aes.c has and for every block, the tables       *)
(* compute the standard's cipher, and take it back.                              *)
THEOREM BlockRight ==
    ASSUME NEW key \in Seq(Byte), Len(key) \in KeyLengths, NEW block \in Block
    PROVE  /\ StandardBlock(key, block) \in Block
           /\ aes_crypt_ecb(Full, aes_setkey_enc(Full, key), "encrypt", block)
                = StandardBlock(key, block)
           /\ aes_crypt_ecb(Full, aes_setkey_dec(Full, key), "decrypt", StandardBlock(key, block))
                = block
<1>1. PICK w \in Seq(Word), nr \in Nat \ {0} :
          /\ w = KeyExpansion(key) /\ nr = Len(key) \div 4 + 6 /\ Len(w) = 4 * (nr + 1)
          /\ aes_setkey_enc(Full, key) = [nr |-> nr, rk |-> w]
  <2>1. PICK k \in {4, 6, 8} : k = Len(key) \div 4
    BY ScheduleRight
  <2>2. k + 6 \in Nat \ {0} /\ (k + 6) + 1 = k + 7
    OBVIOUS
  <2>. QED  BY <2>1, <2>2, ScheduleRight
<1>2. PICK X \in Block : X = Forth(w, block)[nr - 1]
  <2>1. nr - 1 \in Nat /\ nr - 1 <= nr - 1
    OBVIOUS
  <2>. QED  BY <1>1, <2>1, ForthType
<1>3. SubSeq(w, 4 * nr + 1, 4 * nr + 4) = RK(w, nr)
  <2>1. nr \in 0..nr /\ nr \in Nat
    OBVIOUS
  <2>. QED  BY <1>1, <2>1, RKRight
<1>4. StandardBlock(key, block)
        = XorBlock(ShiftRows(SubBytes(Forth(w, block)[nr - 1])), SubSeq(w, 4 * nr + 1, 4 * nr + 4))
  <2>1. 4 * 0 + 1 = 1 /\ 4 * 0 + 4 = 4
    OBVIOUS
  <2>. QED  BY <1>1, <2>1 DEF StandardBlock, Forth, StandardRound
<1>5. StandardBlock(key, block) = XorBlock(Shifted(X), RK(w, nr))
  BY <1>2, <1>3, <1>4 DEF Shifted
<1>6. XorBlock(Shifted(X), RK(w, nr)) \in Block
      /\ aes_crypt_ecb(Full, [nr |-> nr, rk |-> w], "encrypt", block) = XorBlock(Shifted(X), RK(w, nr))
  BY <1>1, <1>2, EcbForth
<1>7. Reverses(aes_setkey_dec(Full, key), w, nr)
  BY <1>1, DecRight
<1>8. aes_crypt_ecb(Full, aes_setkey_dec(Full, key), "decrypt", XorBlock(Shifted(X), RK(w, nr))) = block
  BY <1>1, <1>2, <1>7, EcbBack
<1>. QED  BY <1>1, <1>5, <1>6, <1>8

--------------------------------------------------------------------------------
(* What is decrypted is a block, whatever the key and the block. *)

LEMMA RTSum ==
    \A k, y \in Word :
        k (+) Full.RT[1][y[1]] (+) Full.RT[2][y[2]] (+) Full.RT[3][y[3]] (+) Full.RT[4][y[4]] \in Word
<1>1. SUFFICES ASSUME NEW k \in Word, NEW y \in Word
               PROVE  k (+) Full.RT[1][y[1]] (+) Full.RT[2][y[2]] (+) Full.RT[3][y[3]]
                        (+) Full.RT[4][y[4]] \in Word
  OBVIOUS
<1>2. InvSubWord(y) \in Word
  BY InvSubWordType
<1>3. UnmixWord(InvSubWord(y)) \in Word
  BY <1>2, UnmixWordType
<1>. QED  BY <1>3, RWord, WordXorType

LEMMA RRoundType ==
    ASSUME NEW K \in Block, NEW Y \in Block
    PROVE  AES_RROUND(Full, K, Y) \in Block /\ LastRRound(Full, K, Y) \in Block
<1>1. ASSUME NEW i \in 1..4
      PROVE  RColumn(Full, K, Y, i) \in Word /\ LastRColumn(Full, K, Y, i) \in Word
  <2>1. PICK w \in Word : w = CycledBack(Y, i)
    BY CycledType
  <2>2. PICK k \in Word : k = K[i]
    BY DEF Block
  <2>3. w[1] = Y[i][1] /\ w[2] = Y[Next4(i, 3)][2] /\ w[3] = Y[Next4(i, 2)][3]
        /\ w[4] = Y[Next4(i, 1)][4]
    BY <2>1 DEF CycledBack
  <2>4. RColumn(Full, K, Y, i)
          = k (+) Full.RT[1][w[1]] (+) Full.RT[2][w[2]] (+) Full.RT[3][w[3]] (+) Full.RT[4][w[4]]
    BY <2>2, <2>3 DEF RColumn
  <2>5. LastRColumn(Full, K, Y, i) = k (+) Sub(Full.RSb, w)
    BY <2>1, <2>2 DEF LastRColumn, CycledBack
  <2>6. InvSubWord(w) \in Word /\ \A r \in 1..4 : InvSubWord(w)[r] = GenRSb[w[r]]
    BY InvSubWordType
  <2>7. Sub(Full.RSb, w) = InvSubWord(w)
    BY <2>6, FullTables DEF Sub, Word
  <2>8. k (+) InvSubWord(w) \in Word
    BY <2>6, WordXorType
  <2>. QED  BY <2>4, <2>5, <2>7, <2>8, RTSum
<1>2. 1 \in 1..4 /\ 2 \in 1..4 /\ 3 \in 1..4 /\ 4 \in 1..4
  OBVIOUS
<1>. QED  BY <1>1, <1>2, BlockOfWords DEF AES_RROUND, LastRRound

\* From block to block, too.
LEMMA EcbBackType ==
    ASSUME NEW w \in Seq(Word), NEW nr \in Nat \ {0}, Len(w) = 4 * (nr + 1), NEW block \in Block,
           NEW ctx, Reverses(ctx, w, nr)
    PROVE  aes_crypt_ecb(Full, ctx, "decrypt", block) \in Block
<1>1. nr - 1 \in Nat /\ nr \in Nat /\ nr \in 0..nr /\ 0 \in 0..nr
  OBVIOUS
<1>2. \A r \in 0..nr : RK(w, r) \in Block
  BY <1>1, RKRight
<1>3. \A r \in 1..nr - 1 : RoundKey(ctx, r) \in Block
  <2>1. \A r \in 1..nr - 1 : nr - r \in 0..nr
    OBVIOUS
  <2>. QED  BY <1>2, <2>1, UnmixBlockType DEF Reverses
<1>4. RoundKey(ctx, 0) \in Block /\ RoundKey(ctx, nr) \in Block
  BY <1>1, <1>2 DEF Reverses
<1>5. Keeps(EcbRound(ctx, "decrypt"), nr - 1, AnyBlock)
  <2>1. SUFFICES ASSUME NEW n \in Nat, n < nr - 1, NEW v \in Block
                 PROVE  EcbRound(ctx, "decrypt")[n + 1][v] \in Block
    BY DEF Keeps, AnyBlock
  <2>2. n + 1 \in Nat /\ n + 1 \in 1..nr - 1
    BY <2>1
  <2>3. EcbRound(ctx, "decrypt")[n + 1][v] = AES_RROUND(Full, RoundKey(ctx, n + 1), v)
    BY <2>2 DEF EcbRound
  <2>. QED  BY <1>3, <2>2, <2>3, RRoundType
<1>6. PICK x : x = XorBlock(block, RoundKey(ctx, 0))
  OBVIOUS
<1>7. x \in AnyBlock[0]
  BY <1>4, <1>6, BlockXorType DEF AnyBlock
<1>8. \A n \in Nat : n <= nr - 1 => Steps(EcbRound(ctx, "decrypt"), x)[n] \in AnyBlock[n]
  BY <1>1, <1>5, <1>7, StepsKeep
<1>9. PICK X \in Block : X = Steps(EcbRound(ctx, "decrypt"), x)[nr - 1]
  BY <1>1, <1>8 DEF AnyBlock
<1>10. aes_crypt_ecb(Full, ctx, "decrypt", block)
        = LastRRound(Full, RoundKey(ctx, ctx.nr),
              Steps(EcbRound(ctx, "decrypt"), XorBlock(block, RoundKey(ctx, 0)))[ctx.nr - 1])
  BY DEF aes_crypt_ecb, EcbRound
<1>11. aes_crypt_ecb(Full, ctx, "decrypt", block) = LastRRound(Full, RoundKey(ctx, nr), X)
  BY <1>6, <1>9, <1>10 DEF Reverses
<1>. QED  BY <1>4, <1>11, RRoundType

LEMMA DecryptType ==
    ASSUME NEW key \in Seq(Byte), Len(key) \in KeyLengths, NEW block \in Block
    PROVE  aes_crypt_ecb(Full, aes_setkey_dec(Full, key), "decrypt", block) \in Block
<1>1. PICK w \in Seq(Word), nr \in Nat \ {0} :
          w = KeyExpansion(key) /\ nr = Len(key) \div 4 + 6 /\ Len(w) = 4 * (nr + 1)
  <2>1. PICK k \in {4, 6, 8} : k = Len(key) \div 4
    BY ScheduleRight
  <2>2. k + 6 \in Nat \ {0} /\ (k + 6) + 1 = k + 7
    OBVIOUS
  <2>. QED  BY <2>1, <2>2, ScheduleRight
<1>. QED  BY <1>1, DecRight, EcbBackType

--------------------------------------------------------------------------------
(* Blocks and their bytes. *)

\* Byte r of word c of block b.
LEMMA BlockOfRight ==
    ASSUME NEW s \in Seq(Byte), NEW b \in Nat \ {0}, 16 * b <= Len(s)
    PROVE  /\ BlockOf(s, b) \in Block
           /\ \A c \in 1..4, r \in 1..4 : BlockOf(s, b)[c][r] = s[16 * (b - 1) + 4 * (c - 1) + r]
<1>1. \A i \in 0..15 : 16 * b - 16 + i + 1 \in 1..Len(s)
  OBVIOUS
<1>2. PICK a \in Nat : a = 16 * b - 16
  OBVIOUS
<1>3. \A i \in 1..16 : s[a + i] \in Byte
  BY <1>1, <1>2, ElementOfSeq
<1>4. ASSUME NEW i \in {0, 4, 8, 12}
      PROVE  /\ GET_ULONG_LE(s, a + i) \in Word
             /\ \A r \in 1..4 : GET_ULONG_LE(s, a + i)[r] = s[a + i + r]
  <2>1. i + 1 \in 1..16 /\ i + 2 \in 1..16 /\ i + 3 \in 1..16 /\ i + 4 \in 1..16
    OBVIOUS
  <2>2. a + (i + 1) = a + i + 1 /\ a + (i + 2) = a + i + 2 /\ a + (i + 3) = a + i + 3
        /\ a + (i + 4) = a + i + 4
    OBVIOUS
  <2>3. s[a + i + 1] \in Byte /\ s[a + i + 2] \in Byte /\ s[a + i + 3] \in Byte /\ s[a + i + 4] \in Byte
    BY <1>3, <2>1, <2>2
  <2>4. GET_ULONG_LE(s, a + i) = <<s[a + i + 1], s[a + i + 2], s[a + i + 3], s[a + i + 4]>>
    BY DEF GET_ULONG_LE
  <2>. QED  BY <2>3, <2>4, WordOf
<1>5. 16 * b - 16 = a + 0 /\ 16 * b - 12 = a + 4 /\ 16 * b - 8 = a + 8 /\ 16 * b - 4 = a + 12
  BY <1>2
<1>6. BlockOf(s, b) = <<GET_ULONG_LE(s, a + 0), GET_ULONG_LE(s, a + 4),
                        GET_ULONG_LE(s, a + 8), GET_ULONG_LE(s, a + 12)>>
  BY <1>5 DEF BlockOf
<1>7. BlockOf(s, b) \in Block
  <2>1. /\ GET_ULONG_LE(s, a + 0) \in Word /\ GET_ULONG_LE(s, a + 4) \in Word
        /\ GET_ULONG_LE(s, a + 8) \in Word /\ GET_ULONG_LE(s, a + 12) \in Word
    BY <1>4
  <2>. QED  BY <1>6, <2>1, BlockOfWords
<1>8. ASSUME NEW c \in 1..4, NEW r \in 1..4
      PROVE  BlockOf(s, b)[c][r] = s[16 * (b - 1) + 4 * (c - 1) + r]
  <2>1. PICK i \in {0, 4, 8, 12} : i = 4 * (c - 1) /\ BlockOf(s, b)[c] = GET_ULONG_LE(s, a + i)
    <3>1. c = 1 \/ c = 2 \/ c = 3 \/ c = 4
      OBVIOUS
    <3>2. 0 = 4 * (1 - 1) /\ 4 = 4 * (2 - 1) /\ 8 = 4 * (3 - 1) /\ 12 = 4 * (4 - 1)
      OBVIOUS
    <3>3. /\ BlockOf(s, b)[1] = GET_ULONG_LE(s, a + 0) /\ BlockOf(s, b)[2] = GET_ULONG_LE(s, a + 4)
          /\ BlockOf(s, b)[3] = GET_ULONG_LE(s, a + 8) /\ BlockOf(s, b)[4] = GET_ULONG_LE(s, a + 12)
      BY <1>6
    <3>. QED  BY <3>1, <3>2, <3>3
  <2>2. a + i + r = 16 * (b - 1) + 4 * (c - 1) + r
    BY <1>2, <2>1
  <2>3. GET_ULONG_LE(s, a + i)[r] = s[a + i + r]
    BY <1>4
  <2>. QED  BY <2>1, <2>2, <2>3
<1>. QED  BY <1>7, <1>8

\* The bytes of some blocks, and where each is.
LEMMA BytesOfBlocks ==
    ASSUME NEW out \in Seq(Block)
    PROVE  /\ PUT_ULONG_LE(out) \in Seq(Byte)
           /\ Len(PUT_ULONG_LE(out)) = 16 * Len(out)
           /\ \A b \in 1..Len(out), c \in 1..4, r \in 1..4 :
                  PUT_ULONG_LE(out)[16 * (b - 1) + 4 * (c - 1) + r] = out[b][c][r]
<1>1. ASSUME NEW i \in 1..16 * Len(out)
      PROVE  /\ ((i - 1) \div 16) + 1 \in 1..Len(out)
             /\ (((i - 1) % 16) \div 4) + 1 \in 1..4 /\ ((i - 1) % 4) + 1 \in 1..4
  <2>1. PICK n \in Nat : n = Len(out)
    OBVIOUS
  <2>2. i \in 1..16 * n
    BY <2>1
  <2>3. ((i - 1) \div 16) + 1 \in 1..n
    BY <2>2
  <2>4. (((i - 1) % 16) \div 4) + 1 \in 1..4 /\ ((i - 1) % 4) + 1 \in 1..4
    BY <2>2
  <2>. QED  BY <2>1, <2>3, <2>4
<1>2. \A b \in 1..Len(out), c \in 1..4, r \in 1..4 : out[b][c][r] \in Byte
  <2>1. \A b \in 1..Len(out) : out[b] \in Block
    BY ElementOfSeq
  <2>. QED  BY <2>1 DEF Block, Word
<1>3. PUT_ULONG_LE(out) \in [1..16 * Len(out) -> Byte]
  BY <1>1, <1>2 DEF PUT_ULONG_LE
<1>4. 16 * Len(out) \in Nat
  OBVIOUS
<1>5. PUT_ULONG_LE(out) \in Seq(Byte) /\ Len(PUT_ULONG_LE(out)) = 16 * Len(out)
  BY <1>3, <1>4
<1>6. ASSUME NEW b \in 1..Len(out), NEW c \in 1..4, NEW r \in 1..4
      PROVE  PUT_ULONG_LE(out)[16 * (b - 1) + 4 * (c - 1) + r] = out[b][c][r]
  <2>1. PICK i \in 1..16 * Len(out) : i = 16 * (b - 1) + 4 * (c - 1) + r
    OBVIOUS
  <2>2. (i - 1) \div 16 = b - 1 /\ (i - 1) % 16 = 4 * (c - 1) + (r - 1) /\ (i - 1) % 4 = r - 1
    BY <2>1
  <2>3. ((i - 1) % 16) \div 4 = c - 1
    BY <2>2
  <2>4. ((i - 1) \div 16) + 1 = b /\ (((i - 1) % 16) \div 4) + 1 = c /\ ((i - 1) % 4) + 1 = r
    BY <2>2, <2>3
  <2>5. PUT_ULONG_LE(out)[i]
          = out[((i - 1) \div 16) + 1][(((i - 1) % 16) \div 4) + 1][((i - 1) % 4) + 1]
    BY DEF PUT_ULONG_LE
  <2>. QED  BY <2>1, <2>4, <2>5
<1>. QED  BY <1>5, <1>6

\* A block of the bytes of blocks is the block.
LEMMA BlockOfBytes ==
    ASSUME NEW out \in Seq(Block), NEW b \in 1..Len(out)
    PROVE  BlockOf(PUT_ULONG_LE(out), b) = out[b]
<1>1. PICK s \in Seq(Byte) : s = PUT_ULONG_LE(out) /\ Len(s) = 16 * Len(out)
  BY BytesOfBlocks
<1>2. b \in Nat \ {0} /\ 16 * b <= Len(s)
  BY <1>1
<1>3. PICK x \in Block : x = BlockOf(s, b)
          /\ \A c \in 1..4, r \in 1..4 : x[c][r] = s[16 * (b - 1) + 4 * (c - 1) + r]
  BY <1>2, BlockOfRight
<1>4. ASSUME NEW c \in 1..4, NEW r \in 1..4 PROVE x[c][r] = out[b][c][r]
  <2>1. PICK i : i = 16 * (b - 1) + 4 * (c - 1) + r
    OBVIOUS
  <2>2. x[c][r] = s[i]
    BY <1>3, <2>1
  <2>3. s[i] = out[b][c][r]
    BY <1>1, <2>1, BytesOfBlocks
  <2>. QED  BY <2>2, <2>3
<1>5. PICK y \in Block : y = out[b]
  BY ElementOfSeq
<1>6. ASSUME NEW c \in 1..4 PROVE x[c] = y[c]
  <2>1. x[c] \in Word /\ y[c] \in Word
    BY DEF Block
  <2>2. x[c][1] = y[c][1] /\ x[c][2] = y[c][2] /\ x[c][3] = y[c][3] /\ x[c][4] = y[c][4]
    BY <1>4, <1>5
  <2>. QED  BY <2>1, <2>2, SameWord
<1>. QED  BY <1>1, <1>3, <1>5, <1>6, SameBlock

\* The bytes of the blocks of a text are the text.
LEMMA BytesOfText ==
    ASSUME NEW s \in Seq(Byte), NEW out \in Seq(Block), Len(s) = 16 * Len(out),
           \A b \in 1..Len(out) : out[b] = BlockOf(s, b)
    PROVE  PUT_ULONG_LE(out) = s
<1>1. PICK p \in Seq(Byte) : p = PUT_ULONG_LE(out) /\ Len(p) = 16 * Len(out)
  BY BytesOfBlocks
<1>2. ASSUME NEW i \in 1..Len(s) PROVE p[i] = s[i]
  <2>1. PICK b \in 1..Len(out), c \in 1..4, r \in 1..4 : i = 16 * (b - 1) + 4 * (c - 1) + r
    <3>1. PICK n \in Nat : n = Len(out)
      OBVIOUS
    <3>2. i \in 1..16 * n
      BY <3>1
    <3>3. PICK b \in 1..n, k \in 0..15 : i - 1 = 16 * (b - 1) + k
      <4>1. PICK m \in Nat : m = i - 1 /\ m < 16 * n
        BY <3>2
      <4>2. PICK q \in Int, k \in Int : q = m \div 16 /\ k = m % 16
        OBVIOUS
      <4>3. k \in 0..15 /\ m = 16 * q + k
        BY <4>2
      <4>4. q + 1 \in 1..n /\ m = 16 * ((q + 1) - 1) + k
        BY <4>1, <4>3
      <4>. QED  BY <4>1, <4>3, <4>4
    <3>4. PICK c \in 1..4, r \in 1..4 : k = 4 * (c - 1) + (r - 1)
      <4>1. PICK q \in Int, j \in Int : q = k \div 4 /\ j = k % 4
        OBVIOUS
      <4>2. q \in 0..3 /\ j \in 0..3 /\ k = 4 * q + j
        BY <4>1
      <4>3. q + 1 \in 1..4 /\ j + 1 \in 1..4 /\ k = 4 * ((q + 1) - 1) + ((j + 1) - 1)
        BY <4>2
      <4>. QED  BY <4>3
    <3>5. i = 16 * (b - 1) + 4 * (c - 1) + r
      BY <3>3, <3>4
    <3>. QED  BY <3>1, <3>5
  <2>2. p[i] = out[b][c][r]
    BY <1>1, <2>1, BytesOfBlocks
  <2>3. b \in Nat \ {0} /\ 16 * b <= Len(s)
    OBVIOUS
  <2>4. BlockOf(s, b)[c][r] = s[i]
    BY <2>1, <2>3, BlockOfRight
  <2>. QED  BY <2>2, <2>4
<1>. QED  BY <1>1, <1>2, SeqEqual

--------------------------------------------------------------------------------
(* Chains of blocks. *)

LEMMA IvType == Iv \in Block
<1> DEFINE z == [i \in 1..16 |-> 0]
<1>1. 0 \in Byte
  BY DEF Byte
<1>2. z \in Seq(Byte) /\ Len(z) = 16
  BY <1>1
<1>. HIDE DEF z
<1>3. BlockOf(z, 1) \in Block
  <2>1. 1 \in Nat \ {0} /\ 16 * 1 <= Len(z)
    BY <1>2
  <2>. QED  BY <1>2, <2>1, BlockOfRight
<1>. QED  BY <1>3 DEF Iv, z

\* One more element, and what the others are.
LEMMA OneMore ==
    ASSUME NEW S, NEW s \in Seq(S), NEW x \in S, NEW n \in Nat, Len(s) = n
    PROVE  /\ Append(s, x) \in Seq(S) /\ Len(Append(s, x)) = n + 1 /\ Append(s, x)[n + 1] = x
           /\ \A b \in 1..n : Append(s, x)[b] = s[b]
OBVIOUS

CbcRound(ctx, mode, iv, input) == [b \in Nat |-> [out \in Seq(Block) |->
    Append(out, NextBlock(Full, ctx, mode, iv, input, out, b))]]
ChainRound(key, iv, text) == [b \in Nat |-> [out \in Seq(Block) |->
    Append(out, Chained(key, iv, text, out, b))]]

\* What there can be after n steps, of a text that is encrypted ...
ChainOf(key, iv, text) == [n \in Nat |->
    {out \in Seq(Block) : Len(out) = n /\ \A b \in 1..n : out[b] = Chained(key, iv, text, out, b)}]
\* ... and of one that is decrypted.
TextOf(text) == [n \in Nat |->
    {out \in Seq(Block) : Len(out) = n /\ \A b \in 1..n : out[b] = BlockOf(text, b)}]

\* aes_crypt_cbc by its steps.
LEMMA CbcOf ==
    ASSUME NEW ctx, NEW mode, NEW iv, NEW input, Len(input) % 16 = 0
    PROVE  aes_crypt_cbc(Full, ctx, mode, iv, input)
             = PUT_ULONG_LE(Steps(CbcRound(ctx, mode, iv, input), <<>>)[Len(input) \div 16])
BY DEF aes_crypt_cbc, CbcRound

\* ... and the standard's chain by its.
LEMMA StandardOf ==
    ASSUME NEW key, NEW iv, NEW text
    PROVE  StandardCBC(key, iv, text) = PUT_ULONG_LE(Steps(ChainRound(key, iv, text), <<>>)[Blocks(text)])
BY DEF StandardCBC, ChainRound

\* What is chained to a block is a block.
LEMMA ChainedType ==
    ASSUME NEW key \in Seq(Byte), Len(key) \in KeyLengths, NEW iv \in Block,
           NEW text \in Seq(Byte), NEW out \in Seq(Block), NEW b \in 1..Len(out) + 1, 16 * b <= Len(text)
    PROVE  /\ BlockOf(text, b) \in Block /\ Before(iv, out, b) \in Block
           /\ XorBlock(BlockOf(text, b), Before(iv, out, b)) \in Block
           /\ Chained(key, iv, text, out, b) \in Block
<1>1. BlockOf(text, b) \in Block
  BY BlockOfRight
<1>2. Before(iv, out, b) \in Block
  <2>1. CASE b = 1
    BY <2>1 DEF Before
  <2>2. CASE b # 1
    <3>1. b - 1 \in 1..Len(out)
      BY <2>2
    <3>2. out[b - 1] \in Block
      BY <3>1, ElementOfSeq
    <3>. QED  BY <2>2, <3>2 DEF Before
  <2>. QED  BY <2>1, <2>2
<1>3. XorBlock(BlockOf(text, b), Before(iv, out, b)) \in Block
  BY <1>1, <1>2, BlockXorType
<1>. QED  BY <1>1, <1>2, <1>3, BlockRight DEF Chained

\* Each step of AesEncrypt is one of the standard's chain.
LEMMA EncryptSteps ==
    ASSUME NEW key \in Seq(Byte), Len(key) \in KeyLengths, NEW iv \in Block,
           NEW text \in Seq(Byte), NEW m \in Nat, Len(text) = 16 * m
    PROVE  /\ Keeps(ChainRound(key, iv, text), m, ChainOf(key, iv, text))
           /\ Copies(CbcRound(aes_setkey_enc(Full, key), "encrypt", iv, text), ChainRound(key, iv, text), m,
                     ChainOf(key, iv, text))
<1>1. SUFFICES ASSUME NEW n \in Nat, n < m, NEW v \in ChainOf(key, iv, text)[n]
               PROVE  /\ ChainRound(key, iv, text)[n + 1][v] \in ChainOf(key, iv, text)[n + 1]
                      /\ CbcRound(aes_setkey_enc(Full, key), "encrypt", iv, text)[n + 1][v]
                           = ChainRound(key, iv, text)[n + 1][v]
  BY DEF Keeps, Copies
<1>2. v \in Seq(Block) /\ Len(v) = n /\ \A b \in 1..n : v[b] = Chained(key, iv, text, v, b)
  BY DEF ChainOf
<1>3. PICK b \in Nat \ {0} : b = n + 1 /\ b \in 1..Len(v) + 1 /\ 16 * b <= Len(text) /\ b - 1 = n
  BY <1>1, <1>2
<1>4. PICK x \in Block : x = Chained(key, iv, text, v, b)
  BY <1>2, <1>3, ChainedType
<1>5. ChainRound(key, iv, text)[b][v] = Append(v, x)
  BY <1>2, <1>3, <1>4 DEF ChainRound
<1>6. CbcRound(aes_setkey_enc(Full, key), "encrypt", iv, text)[b][v] = Append(v, x)
  <2>1. XorBlock(BlockOf(text, b), Before(iv, v, b)) \in Block
    BY <1>2, <1>3, ChainedType
  <2>2. NextBlock(Full, aes_setkey_enc(Full, key), "encrypt", iv, text, v, b)
          = aes_crypt_ecb(Full, aes_setkey_enc(Full, key), "encrypt",
                          XorBlock(BlockOf(text, b), Before(iv, v, b)))
    BY DEF NextBlock, Before
  <2>3. NextBlock(Full, aes_setkey_enc(Full, key), "encrypt", iv, text, v, b) = x
    BY <1>4, <2>1, <2>2, BlockRight DEF Chained
  <2>. QED  BY <1>2, <1>3, <2>3 DEF CbcRound
<1>7. PICK o \in Seq(Block) : /\ o = Append(v, x) /\ Len(o) = n + 1 /\ o[n + 1] = x
                              /\ \A c \in 1..n : o[c] = v[c]
  <2>1. /\ Append(v, x) \in Seq(Block) /\ Len(Append(v, x)) = n + 1 /\ Append(v, x)[n + 1] = x
        /\ \A c \in 1..n : Append(v, x)[c] = v[c]
    BY <1>2, OneMore
  <2>2. PICK o \in Seq(Block) : o = Append(v, x)
    BY <2>1
  <2>. QED  BY <2>1, <2>2
<1>8. \A c \in 1..n + 1 : o[c] = Chained(key, iv, text, o, c)
  <2>1. SUFFICES ASSUME NEW c \in 1..n + 1 PROVE o[c] = Chained(key, iv, text, o, c)
    OBVIOUS
  <2>2. Before(iv, o, c) = Before(iv, v, c)
    <3>1. CASE c = 1
      BY <3>1 DEF Before
    <3>2. CASE c # 1
      <4>1. c - 1 \in 1..n
        BY <3>2
      <4>. QED  BY <1>7, <3>2, <4>1 DEF Before
    <3>. QED  BY <3>1, <3>2
  <2>3. Chained(key, iv, text, o, c) = Chained(key, iv, text, v, c)
    BY <2>2 DEF Chained
  <2>4. CASE c \in 1..n
    BY <1>2, <1>7, <2>3, <2>4
  <2>5. CASE c = n + 1
    BY <1>3, <1>4, <1>7, <2>3, <2>5
  <2>. QED  BY <2>4, <2>5
<1>9. o \in ChainOf(key, iv, text)[n + 1]
  <2>1. n + 1 \in Nat
    OBVIOUS
  <2>. QED  BY <1>7, <1>8, <2>1 DEF ChainOf
<1>. QED  BY <1>3, <1>5, <1>6, <1>7, <1>9

(* What aes_crypt_cbc makes of a text of whole blocks, under any key and with any *)
(* initial vector, is the standard's chain of as many blocks.                   *)
THEOREM EncryptRight ==
    ASSUME NEW key \in Seq(Byte), Len(key) \in KeyLengths, NEW iv \in Block,
           NEW text \in Seq(Byte), NEW m \in Nat, Len(text) = 16 * m
    PROVE  /\ aes_crypt_cbc(Full, aes_setkey_enc(Full, key), "encrypt", iv, text)
                = StandardCBC(key, iv, text)
           /\ \E out \in ChainOf(key, iv, text)[m] : StandardCBC(key, iv, text) = PUT_ULONG_LE(out)
<1> DEFINE G == ChainRound(key, iv, text)
           H == CbcRound(aes_setkey_enc(Full, key), "encrypt", iv, text)
<1>1. Len(text) % 16 = 0 /\ Len(text) \div 16 = m
  OBVIOUS
<1>2. <<>> \in ChainOf(key, iv, text)[0]
  BY DEF ChainOf
<1>3. Keeps(G, m, ChainOf(key, iv, text)) /\ Copies(H, G, m, ChainOf(key, iv, text))
  BY EncryptSteps
<1>4. StandardCBC(key, iv, text) = PUT_ULONG_LE(Steps(G, <<>>)[m])
  <2>1. StandardCBC(key, iv, text) = PUT_ULONG_LE(Steps(G, <<>>)[Blocks(text)])
    BY StandardOf
  <2>2. Blocks(text) = m
    BY <1>1 DEF Blocks
  <2>. QED  BY <2>1, <2>2
<1>5. aes_crypt_cbc(Full, aes_setkey_enc(Full, key), "encrypt", iv, text)
        = PUT_ULONG_LE(Steps(H, <<>>)[m])
  BY <1>1, CbcOf
<1>. HIDE DEF G, H
<1>6. \A n \in Nat : n <= m => Steps(H, <<>>)[n] = Steps(G, <<>>)[n]
  BY <1>2, <1>3, StepsAgree
<1>7. \A n \in Nat : n <= m => Steps(G, <<>>)[n] \in ChainOf(key, iv, text)[n]
  BY <1>2, <1>3, StepsKeep
<1>8. Steps(H, <<>>)[m] = Steps(G, <<>>)[m] /\ Steps(G, <<>>)[m] \in ChainOf(key, iv, text)[m]
  BY <1>6, <1>7
<1>. QED  BY <1>4, <1>5, <1>8

\* Each step of AesDecrypt gives the next block of the text.
LEMMA DecryptSteps ==
    ASSUME NEW key \in Seq(Byte), Len(key) \in KeyLengths, NEW iv \in Block,
           NEW text \in Seq(Byte), NEW m \in Nat, Len(text) = 16 * m,
           NEW chain \in ChainOf(key, iv, text)[m]
    PROVE  Keeps(CbcRound(aes_setkey_dec(Full, key), "decrypt", iv, PUT_ULONG_LE(chain)), m, TextOf(text))
<1>1. SUFFICES ASSUME NEW n \in Nat, n < m, NEW v \in TextOf(text)[n]
               PROVE  CbcRound(aes_setkey_dec(Full, key), "decrypt", iv, PUT_ULONG_LE(chain))[n + 1][v]
                        \in TextOf(text)[n + 1]
  BY DEF Keeps
<1>2. v \in Seq(Block) /\ Len(v) = n /\ \A b \in 1..n : v[b] = BlockOf(text, b)
  BY DEF TextOf
<1>3. chain \in Seq(Block) /\ Len(chain) = m /\ \A b \in 1..m : chain[b] = Chained(key, iv, text, chain, b)
  BY DEF ChainOf
<1>4. PICK b \in Nat \ {0} : b = n + 1 /\ b \in 1..Len(chain) /\ b \in 1..Len(chain) + 1
                             /\ 16 * b <= Len(text)
  BY <1>1, <1>3
<1>5. PICK x \in Block, y \in Block : x = BlockOf(text, b) /\ y = Before(iv, chain, b)
  BY <1>3, <1>4, ChainedType
<1>6. BlockOf(PUT_ULONG_LE(chain), b) = StandardBlock(key, XorBlock(x, y))
  BY <1>3, <1>4, <1>5, BlockOfBytes DEF Chained
<1>7. y = IF b = 1 THEN iv ELSE BlockOf(PUT_ULONG_LE(chain), b - 1)
  <2>1. b # 1 => b - 1 \in 1..Len(chain)
    BY <1>4
  <2>. QED  BY <1>3, <1>5, <2>1, BlockOfBytes DEF Before
<1>8. XorBlock(x, y) \in Block /\ XorBlock(XorBlock(x, y), y) = x
  BY BlockXorType, BlockTwice
<1>9. NextBlock(Full, aes_setkey_dec(Full, key), "decrypt", iv, PUT_ULONG_LE(chain), v, b)
        = XorBlock(aes_crypt_ecb(Full, aes_setkey_dec(Full, key), "decrypt",
                                 BlockOf(PUT_ULONG_LE(chain), b)),
                   IF b = 1 THEN iv ELSE BlockOf(PUT_ULONG_LE(chain), b - 1))
  BY DEF NextBlock
<1>10. NextBlock(Full, aes_setkey_dec(Full, key), "decrypt", iv, PUT_ULONG_LE(chain), v, b) = x
  BY <1>6, <1>7, <1>8, <1>9, BlockRight
<1>11. CbcRound(aes_setkey_dec(Full, key), "decrypt", iv, PUT_ULONG_LE(chain))[b][v] = Append(v, x)
  BY <1>2, <1>10 DEF CbcRound
<1>12. PICK o \in Seq(Block) : /\ o = Append(v, x) /\ Len(o) = n + 1 /\ o[n + 1] = x
                               /\ \A c \in 1..n : o[c] = v[c]
  <2>1. /\ Append(v, x) \in Seq(Block) /\ Len(Append(v, x)) = n + 1 /\ Append(v, x)[n + 1] = x
        /\ \A c \in 1..n : Append(v, x)[c] = v[c]
    BY <1>2, OneMore
  <2>2. PICK o \in Seq(Block) : o = Append(v, x)
    BY <2>1
  <2>. QED  BY <2>1, <2>2
<1>13. \A c \in 1..n + 1 : o[c] = BlockOf(text, c)
  BY <1>2, <1>4, <1>5, <1>12
<1>14. n + 1 \in Nat
  OBVIOUS
<1>15. o \in TextOf(text)[n + 1]
  BY <1>12, <1>13, <1>14 DEF TextOf
<1>. QED  BY <1>4, <1>11, <1>12, <1>15

(* ... and with the schedule for decryption, under the same key and with the same *)
(* initial vector, aes_crypt_cbc takes the chain back.                          *)
THEOREM DecryptRight ==
    ASSUME NEW key \in Seq(Byte), Len(key) \in KeyLengths, NEW iv \in Block,
           NEW text \in Seq(Byte), NEW m \in Nat, Len(text) = 16 * m
    PROVE  aes_crypt_cbc(Full, aes_setkey_dec(Full, key), "decrypt", iv, StandardCBC(key, iv, text)) = text
<1>1. PICK chain \in ChainOf(key, iv, text)[m] : StandardCBC(key, iv, text) = PUT_ULONG_LE(chain)
  BY EncryptRight
<1>2. chain \in Seq(Block) /\ Len(chain) = m
  BY DEF ChainOf
<1>3. Len(PUT_ULONG_LE(chain)) = 16 * m
  BY <1>2, BytesOfBlocks
<1>4. Len(PUT_ULONG_LE(chain)) % 16 = 0 /\ Len(PUT_ULONG_LE(chain)) \div 16 = m
  BY <1>3
<1> DEFINE G == CbcRound(aes_setkey_dec(Full, key), "decrypt", iv, PUT_ULONG_LE(chain))
<1>5. aes_crypt_cbc(Full, aes_setkey_dec(Full, key), "decrypt", iv, PUT_ULONG_LE(chain))
        = PUT_ULONG_LE(Steps(G, <<>>)[m])
  BY <1>4, CbcOf
<1>6. <<>> \in TextOf(text)[0]
  BY DEF TextOf
<1>7. Keeps(G, m, TextOf(text))
  BY DecryptSteps
<1>. HIDE DEF G
<1>8. \A n \in Nat : n <= m => Steps(G, <<>>)[n] \in TextOf(text)[n]
  BY <1>6, <1>7, StepsKeep
<1>9. PICK o \in TextOf(text)[m] : o = Steps(G, <<>>)[m]
  BY <1>8
<1>10. o \in Seq(Block) /\ Len(o) = m /\ \A b \in 1..m : o[b] = BlockOf(text, b)
  BY DEF TextOf
<1>11. PUT_ULONG_LE(o) = text
  BY <1>10, BytesOfText
<1>. QED  BY <1>1, <1>5, <1>9, <1>11

(* Under any key, what is decrypted has as many bytes as what came.             *)
LEMMA DecryptedType ==
    ASSUME NEW key \in Seq(Byte), Len(key) \in KeyLengths, NEW iv \in Block,
           NEW input \in Seq(Byte), NEW m \in Nat, Len(input) = 16 * m
    PROVE  LET out == aes_crypt_cbc(Full, aes_setkey_dec(Full, key), "decrypt", iv, input)
           IN out \in Seq(Byte) /\ Len(out) = Len(input)
<1> DEFINE G == CbcRound(aes_setkey_dec(Full, key), "decrypt", iv, input)
           S == [n \in Nat |-> {out \in Seq(Block) : Len(out) = n}]
<1>1. Len(input) % 16 = 0 /\ Len(input) \div 16 = m
  OBVIOUS
<1>2. aes_crypt_cbc(Full, aes_setkey_dec(Full, key), "decrypt", iv, input)
        = PUT_ULONG_LE(Steps(G, <<>>)[m])
  BY <1>1, CbcOf
<1>3. Keeps(G, m, S)
  <2>1. SUFFICES ASSUME NEW n \in Nat, n < m, NEW v \in Seq(Block), Len(v) = n
                 PROVE  G[n + 1][v] \in S[n + 1]
    BY DEF Keeps
  <2>2. PICK b \in Nat \ {0} : b = n + 1 /\ 16 * b <= Len(input)
    BY <2>1
  <2>3. BlockOf(input, b) \in Block
    BY <2>2, BlockOfRight
  <2>4. (IF b = 1 THEN iv ELSE BlockOf(input, b - 1)) \in Block
    <3>1. b # 1 => b - 1 \in Nat \ {0} /\ 16 * (b - 1) <= Len(input)
      BY <2>2
    <3>. QED  BY <3>1, BlockOfRight
  <2>5. NextBlock(Full, aes_setkey_dec(Full, key), "decrypt", iv, input, v, b)
          = XorBlock(aes_crypt_ecb(Full, aes_setkey_dec(Full, key), "decrypt", BlockOf(input, b)),
                     IF b = 1 THEN iv ELSE BlockOf(input, b - 1))
    BY DEF NextBlock
  <2>6. PICK x \in Block : x = NextBlock(Full, aes_setkey_dec(Full, key), "decrypt", iv, input, v, b)
    <3>1. aes_crypt_ecb(Full, aes_setkey_dec(Full, key), "decrypt", BlockOf(input, b)) \in Block
      BY <2>3, DecryptType
    <3>. QED  BY <2>4, <2>5, <3>1, BlockXorType
  <2>7. G[b][v] = Append(v, x)
    BY <2>1, <2>6 DEF CbcRound
  <2>8. Append(v, x) \in Seq(Block) /\ Len(Append(v, x)) = n + 1 /\ n + 1 \in Nat
    BY <2>1, OneMore
  <2>9. Append(v, x) \in S[n + 1]
    BY <2>8
  <2>. QED  BY <2>2, <2>7, <2>9
<1>4. <<>> \in S[0]
  OBVIOUS
<1>5. S[m] = {out \in Seq(Block) : Len(out) = m}
  OBVIOUS
<1>. HIDE DEF G, S
<1>6. \A n \in Nat : n <= m => Steps(G, <<>>)[n] \in S[n]
  BY <1>3, <1>4, StepsKeep
<1>7. PICK o \in Seq(Block) : o = Steps(G, <<>>)[m] /\ Len(o) = m
  BY <1>5, <1>6
<1>. QED  BY <1>2, <1>7, BytesOfBlocks

--------------------------------------------------------------------------------
(* The padding. *)

\* A text is padded to one block more than it has, and the last byte says with how much.
LEMMA PaddingRight ==
    ASSUME NEW text \in Seq(Byte)
    PROVE  /\ PaddingData(text) = Padded(text)
           /\ Padded(text) \in Seq(Byte)
           /\ Len(Padded(text)) = 16 * (Blocks(text) + 1) /\ Blocks(text) \in Nat
           /\ Padded(text)[Len(Padded(text))] = Len(Padded(text)) - Len(text)
           /\ SubSeq(Padded(text), 1, Len(text)) = text
<1>1. PICK p \in 1..16 : p = 16 - (Len(text) % 16) /\ Len(text) + p = 16 * (Len(text) \div 16 + 1)
  <2>1. PICK n \in Nat : n = Len(text)
    OBVIOUS
  <2>2. 16 - (n % 16) \in 1..16 /\ n + (16 - (n % 16)) = 16 * (n \div 16 + 1)
    <3>1. PICK q \in Int, r \in Int : q = n \div 16 /\ r = n % 16
      OBVIOUS
    <3>2. r \in 0..15 /\ n = 16 * q + r
      BY <3>1
    <3>. QED  BY <3>1, <3>2
  <2>. QED  BY <2>1, <2>2
<1>2. PICK z : z = [i \in 1..p |-> p]
  OBVIOUS
<1>3. z \in Seq(Byte) /\ Len(z) = p /\ z[p] = p
  <2>1. p \in Byte /\ p \in Nat
    BY DEF Byte
  <2>. QED  BY <1>2, <2>1
<1>4. PaddingData(text) = text \o z /\ Padded(text) = text \o z
  BY <1>1, <1>2 DEF PaddingData, Padded
<1>5. PICK w \in Seq(Byte) : /\ w = text \o z /\ Len(w) = Len(text) + p
                             /\ \A i \in 1..Len(w) :
                                    w[i] = IF i <= Len(text) THEN text[i] ELSE z[i - Len(text)]
  <2>1. /\ text \o z \in Seq(Byte) /\ Len(text \o z) = Len(text) + p
        /\ \A i \in 1..Len(text) + p :
               (text \o z)[i] = IF i <= Len(text) THEN text[i] ELSE z[i - Len(text)]
    BY <1>3, ConcatProperties
  <2>2. PICK w \in Seq(Byte) : w = text \o z
    BY <2>1
  <2>. QED  BY <2>1, <2>2
<1>6. w[Len(w)] = p
  <2>1. PICK l \in Nat : l = Len(text)
    OBVIOUS
  <2>2. Len(w) = l + p /\ l + p \in 1..l + p /\ ~(l + p <= l) /\ (l + p) - l = p
    BY <1>5, <2>1
  <2>3. w[l + p] = z[(l + p) - l]
    BY <1>5, <2>1, <2>2
  <2>. QED  BY <1>3, <2>2, <2>3
<1>7. SubSeq(w, 1, Len(text)) = text
  <2>1. \A i \in 1..Len(text) : w[i] = text[i] /\ text[i] \in Byte
    <3>1. \A i \in 1..Len(text) : i \in 1..Len(w) /\ i <= Len(text)
      BY <1>5
    <3>. QED  BY <1>5, <3>1, ElementOfSeq
  <2>2. PICK u \in Seq(Byte) : u = SubSeq(w, 1, Len(text)) /\ Len(u) = Len(text)
                               /\ \A i \in 1..Len(text) : u[i] = w[i]
    <3>1. \A i \in 1..Len(text) : w[i] \in Byte
      BY <2>1
    <3>2. 1 \in Int /\ Len(text) \in Int /\ Len(text) - 1 + 1 = Len(text)
          /\ (IF 1 <= Len(text) THEN Len(text) - 1 + 1 ELSE 0) = Len(text)
      OBVIOUS
    <3>3. /\ SubSeq(w, 1, Len(text)) \in Seq(Byte)
          /\ Len(SubSeq(w, 1, Len(text))) = IF 1 <= Len(text) THEN Len(text) - 1 + 1 ELSE 0
          /\ \A i \in 1..Len(text) - 1 + 1 : SubSeq(w, 1, Len(text))[i] = w[1 + i - 1]
      BY <3>1, <3>2, SubSeqProperties
    <3>4. ASSUME NEW i \in 1..Len(text) PROVE SubSeq(w, 1, Len(text))[i] = w[i]
      <4>1. i \in 1..Len(text) - 1 + 1 /\ 1 + i - 1 = i
        OBVIOUS
      <4>. QED  BY <3>3, <4>1
    <3>. QED  BY <3>2, <3>3, <3>4
  <2>. QED  BY <2>1, <2>2, SeqEqual
<1>8. Blocks(text) = Len(text) \div 16 /\ Blocks(text) \in Nat
  BY DEF Blocks
<1>. QED  BY <1>1, <1>4, <1>5, <1>6, <1>7, <1>8

--------------------------------------------------------------------------------
(* The threads.  The inductive invariant says what each thread knows of the     *)
(* tables from where it is, and what a call has computed so far.                *)

Schedule(fun, key) == IF fun = "encrypt" THEN aes_setkey_enc(Full, key) ELSE aes_setkey_dec(Full, key)
Contexts == {NoContext} \cup {Schedule(fun, key) : fun \in Fun, key \in Keys32}
Decrypted(key, text) == aes_crypt_cbc(Full, aes_setkey_dec(Full, key), "decrypt", Iv, text)

Frame == [at : At \ {"idle"}, fun : Fun, text : Seq(Byte), key : Keys, ctx : Contexts,
          ret : {0, -1}, out : Seq(Byte), len : Int]

\* A call that is not refused is, until it returns, one under a key of 32 bytes ...
Working(c) ==
    /\ c.key \in Keys32 /\ c.ret = 0 /\ c.out = <<>> /\ c.len = 0
    /\ c.fun = "encrypt" => c.text \in Text
    /\ c.at = "crypt" => c.ctx = Schedule(c.fun, c.key)

\* ... and what has returned was refused, or gives what was computed.
Returned(c) ==
    \/ c.ret = -1 /\ c.out = <<>> /\ c.len = 0
    \/ c.fun = "encrypt" /\ c.ret = 0 /\ c.len = Len(c.out)
    \/ /\ c.fun = "decrypt" /\ c.ret = 0 /\ c.key \in Keys32
       /\ c.out = Decrypted(c.key, c.text) /\ c.out # <<>>
       /\ c.len = Len(c.out) - GetPaddingDataLen(c.out)

FrameOK(c) == IF c.at = "returned" THEN Returned(c) ELSE Working(c)

\* Who is past a group of tables has filled it, or has found aes_init_done set.
Seen(at, g) ==
    /\ at = "Sb" => {"RCON"} \subseteq g
    /\ at = "T" => {"RCON", "Sb"} \subseteq g
    /\ at \in {"flag", "schedule", "crypt"} => Groups \subseteq g

TablesInv ==
    /\ aes_init_done \in BOOLEAN /\ generated \subseteq Groups
    /\ aes_init_done => Groups \subseteq generated
CallInv ==
    /\ call \in [Thread -> {Idle} \cup Frame]
    /\ \A t \in Thread : call[t] # Idle => FrameOK(call[t]) /\ Seen(call[t].at, generated)
SealedInv ==
    /\ sealed \subseteq [key : Keys32, text : Text, out : Seq(Byte)]
    /\ \A s \in sealed : s.out = StandardCBC(s.key, Iv, Padded(s.text))
CipherInv == TablesInv /\ CallInv /\ SealedInv

\* Keys and texts are made of bytes.
LEMMA KeyTypes ==
    /\ \A key \in Keys32 : key \in Seq(Byte) /\ Len(key) \in KeyLengths
    /\ Text \subseteq Seq(Byte) /\ Keys \subseteq Seq(Byte) /\ Sample \subseteq Seq(Byte)
BY CipherAssumption DEF Keys32, KeyLengths

\* What is encrypted, and what it is decrypted to.
LEMMA SealedType ==
    ASSUME NEW key \in Keys32, NEW text \in Text
    PROVE  LET out == StandardCBC(key, Iv, Padded(text))
           IN /\ out \in Seq(Byte) /\ Len(out) = 16 * (Blocks(text) + 1)
              /\ aes_crypt_cbc(Full, aes_setkey_enc(Full, key), "encrypt", Iv, PaddingData(text)) = out
              /\ Decrypted(key, out) = Padded(text)
<1>1. PICK p \in Seq(Byte), m \in Nat : p = Padded(text) /\ m = Blocks(text) + 1 /\ Len(p) = 16 * m
                                       /\ p = PaddingData(text)
  <2>1. text \in Seq(Byte)
    BY KeyTypes
  <2>2. /\ PaddingData(text) = Padded(text) /\ Padded(text) \in Seq(Byte) /\ Blocks(text) \in Nat
        /\ Len(Padded(text)) = 16 * (Blocks(text) + 1)
    BY <2>1, PaddingRight
  <2>3. Blocks(text) + 1 \in Nat
    BY <2>2
  <2>. QED  BY <2>2, <2>3
<1>2. key \in Seq(Byte) /\ Len(key) \in KeyLengths
  BY KeyTypes
<1>3. aes_crypt_cbc(Full, aes_setkey_enc(Full, key), "encrypt", Iv, p) = StandardCBC(key, Iv, p)
  BY <1>1, <1>2, IvType, EncryptRight
<1>4. PICK chain \in ChainOf(key, Iv, p)[m] : StandardCBC(key, Iv, p) = PUT_ULONG_LE(chain)
  BY <1>1, <1>2, IvType, EncryptRight
<1>5. chain \in Seq(Block) /\ Len(chain) = m
  BY DEF ChainOf
<1>6. StandardCBC(key, Iv, p) \in Seq(Byte) /\ Len(StandardCBC(key, Iv, p)) = 16 * m
  BY <1>4, <1>5, BytesOfBlocks
<1>7. Decrypted(key, StandardCBC(key, Iv, p)) = p
  BY <1>1, <1>2, IvType, DecryptRight DEF Decrypted
<1>. QED  BY <1>1, <1>3, <1>6, <1>7

\* A step that leaves one thread in a sound state leaves all of them so.
LEMMA OneMoves ==
    ASSUME CallInv, NEW t \in Thread, NEW new, Goes(t, new), generated \subseteq generated',
           new = Idle \/ (new \in Frame /\ FrameOK(new) /\ Seen(new.at, generated'))
    PROVE  CallInv'
<1>1. call' \in [Thread -> {Idle} \cup Frame] /\ call'[t] = new
      /\ \A u \in Thread : u # t => call'[u] = call[u]
  BY DEF CallInv, Goes
<1>2. \A at : Seen(at, generated) => Seen(at, generated')
  BY DEF Seen
<1>3. ASSUME NEW u \in Thread, call'[u] # Idle
      PROVE  FrameOK(call'[u]) /\ Seen(call'[u].at, generated')
  <2>1. CASE u = t
    BY <1>1, <1>3, <2>1
  <2>2. CASE u # t
    BY <1>1, <1>2, <1>3, <2>2 DEF CallInv
  <2>. QED  BY <2>1, <2>2
<1>. QED  BY <1>1, <1>3 DEF CallInv

\* A thread that is in a call has the frame of one.
LEMMA InFrame ==
    ASSUME CallInv, NEW t \in Thread, call[t].at # "idle"
    PROVE  call[t] \in Frame /\ FrameOK(call[t]) /\ Seen(call[t].at, generated)
<1>1. call[t] # Idle
  BY DEF Idle
<1>. QED  BY <1>1 DEF CallInv

\* The invariant holds at the beginning.
LEMMA InitCipher == Init => CipherInv
<1>1. SUFFICES ASSUME Init PROVE CipherInv
  OBVIOUS
<1>2. TablesInv
  BY <1>1 DEF Init, TablesInv
<1>3. CallInv
  BY <1>1 DEF Init, CallInv
<1>4. SealedInv
  BY <1>1 DEF Init, SealedInv
<1>. QED  BY <1>2, <1>3, <1>4 DEF CipherInv

LEMMA BeginsKeeps ==
    ASSUME CipherInv, NEW t \in Thread, NEW type, NEW fun \in Fun, NEW key \in Keys,
           NEW text \in Seq(Byte), fun = "encrypt" => text \in Text,
           Begins(t, type, fun, text, key)
    PROVE  CipherInv'
<1> DEFINE refused == type = "CRYPTO_NULL" \/ Len(key) # 32 \/ text = <<>>
           new == [at |-> IF refused THEN "returned" ELSE "check", fun |-> fun, text |-> text,
                   key |-> key, ctx |-> NoContext,
                   ret |-> IF refused THEN -1 ELSE 0, out |-> <<>>, len |-> 0]
<1>1. Goes(t, new) /\ UNCHANGED <<aes_init_done, generated, sealed>>
  BY DEF Begins
<1>2. new \in Frame
  BY DEF Frame, At, Contexts
<1>3. FrameOK(new)
  BY DEF FrameOK, Returned, Working, Keys32
<1>4. Seen(new.at, generated')
  BY DEF Seen
<1>. HIDE DEF new
<1>5. CallInv'
  BY <1>1, <1>2, <1>3, <1>4, OneMoves DEF CipherInv
<1>. QED  BY <1>1, <1>5 DEF CipherInv, TablesInv, SealedInv

\* What comes to be decrypted is made of bytes.
LEMMA ArrivingType ==
    ASSUME SealedInv
    PROVE  Arriving \subseteq Seq(Byte)
<1>1. SUFFICES ASSUME NEW s \in sealed
               PROVE  s.out \in Seq(Byte) /\ SubSeq(s.out, 1, Len(s.out) - 1) \in Seq(Byte)
  BY DEF Arriving
<1>2. s.out \in Seq(Byte)
  BY DEF SealedInv
<1>3. \A i \in 1..Len(s.out) - 1 : s.out[i] \in Byte
  <2>1. \A i \in 1..Len(s.out) - 1 : i \in 1..Len(s.out)
    BY <1>2
  <2>. QED  BY <1>2, <2>1, ElementOfSeq
<1>4. 1 \in Int /\ Len(s.out) - 1 \in Int
  BY <1>2
<1>. QED  BY <1>2, <1>3, <1>4, SubSeqProperties

LEMMA ChecksKeeps ==
    ASSUME CipherInv, NEW t \in Thread, Checks(t)
    PROVE  CipherInv'
<1> DEFINE new == [call[t] EXCEPT !.at = IF aes_init_done THEN "schedule" ELSE "RCON"]
<1>1. Goes(t, new) /\ UNCHANGED <<aes_init_done, generated, sealed>> /\ call[t].at = "check"
  BY DEF Checks
<1>2. call[t] \in Frame /\ FrameOK(call[t])
  BY <1>1, InFrame DEF CipherInv
<1>3. new \in Frame
  BY <1>2 DEF Frame, At
<1>4. FrameOK(new)
  BY <1>1, <1>2 DEF Frame, FrameOK, Working
<1>5. Seen(new.at, generated')
  BY <1>1, <1>2 DEF Seen, CipherInv, TablesInv, Frame
<1>. HIDE DEF new
<1>6. CallInv'
  BY <1>1, <1>3, <1>4, <1>5, OneMoves DEF CipherInv
<1>. QED  BY <1>1, <1>6 DEF CipherInv, TablesInv, SealedInv

LEMMA GenTablesKeeps ==
    ASSUME CipherInv, NEW t \in Thread, aes_gen_tables(t)
    PROVE  CipherInv'
<1> DEFINE new == [call[t] EXCEPT !.at =
                       CASE @ = "RCON" -> "Sb" [] @ = "Sb" -> "T" [] @ = "T" -> "flag"]
<1>1. /\ Goes(t, new) /\ UNCHANGED <<aes_init_done, sealed>> /\ call[t].at \in Groups
      /\ generated' = generated \cup {call[t].at}
  BY DEF aes_gen_tables
<1>2. call[t] \in Frame /\ FrameOK(call[t]) /\ Seen(call[t].at, generated)
  <2>1. call[t].at # "idle"
    BY <1>1 DEF Groups
  <2>. QED  BY <2>1, InFrame DEF CipherInv
<1>3. new \in Frame
  BY <1>1, <1>2 DEF Frame, At, Groups
<1>4. FrameOK(new)
  BY <1>1, <1>2 DEF Frame, FrameOK, Working, Groups
<1>5. Seen(new.at, generated')
  BY <1>1, <1>2 DEF Seen, Frame, Groups
<1>. HIDE DEF new
<1>6. CallInv'
  BY <1>1, <1>3, <1>4, <1>5, OneMoves DEF CipherInv
<1>. QED  BY <1>1, <1>6 DEF CipherInv, TablesInv, SealedInv

LEMMA SetsKeeps ==
    ASSUME CipherInv, NEW t \in Thread, Sets(t)
    PROVE  CipherInv'
<1> DEFINE new == [call[t] EXCEPT !.at = "schedule"]
<1>1. Goes(t, new) /\ UNCHANGED <<generated, sealed>> /\ call[t].at = "flag" /\ aes_init_done' = TRUE
  BY DEF Sets
<1>2. call[t] \in Frame /\ FrameOK(call[t]) /\ Seen(call[t].at, generated)
  BY <1>1, InFrame DEF CipherInv
<1>3. new \in Frame
  BY <1>2 DEF Frame, At
<1>4. FrameOK(new)
  BY <1>1, <1>2 DEF Frame, FrameOK, Working
<1>5. Groups \subseteq generated' /\ Seen(new.at, generated')
  BY <1>1, <1>2 DEF Seen, Frame
<1>. HIDE DEF new
<1>6. CallInv'
  BY <1>1, <1>3, <1>4, <1>5, OneMoves DEF CipherInv
<1>. QED  BY <1>1, <1>5, <1>6 DEF CipherInv, TablesInv, SealedInv

\* The tables, for a thread that has seen all groups.
LEMMA AllGenerated ==
    ASSUME TablesInv, Groups \subseteq generated
    PROVE  Tables(generated) = Full
<1>1. generated = Groups
  BY DEF TablesInv
<1>. QED  BY <1>1 DEF Full

LEMMA SchedulesKeeps ==
    ASSUME CipherInv, NEW t \in Thread, Schedules(t)
    PROVE  CipherInv'
<1> DEFINE new == [call[t] EXCEPT !.at = "crypt", !.ctx = Schedule(call[t].fun, call[t].key)]
<1>1. call[t].at = "schedule" /\ UNCHANGED <<aes_init_done, generated, sealed>>
  BY DEF Schedules
<1>2. call[t] \in Frame /\ FrameOK(call[t]) /\ Seen(call[t].at, generated)
  BY <1>1, InFrame DEF CipherInv
<1>3. Tables(generated) = Full
  BY <1>1, <1>2, AllGenerated DEF Seen, CipherInv
<1>4. Goes(t, new)
  BY <1>3 DEF Schedules, Schedule
<1>5. Schedule(call[t].fun, call[t].key) \in Contexts
  BY <1>1, <1>2 DEF Contexts, FrameOK, Working, Frame
<1>6. new \in Frame
  BY <1>2, <1>5 DEF Frame, At
<1>7. FrameOK(new)
  BY <1>1, <1>2 DEF Frame, FrameOK, Working
<1>8. Seen(new.at, generated')
  BY <1>1, <1>2 DEF Seen, Frame
<1>. HIDE DEF new
<1>9. CallInv'
  BY <1>1, <1>4, <1>6, <1>7, <1>8, OneMoves DEF CipherInv
<1>. QED  BY <1>1, <1>9 DEF CipherInv, TablesInv, SealedInv

LEMMA AesEncryptKeeps ==
    ASSUME CipherInv, NEW t \in Thread, AesEncrypt(t)
    PROVE  CipherInv'
<1> DEFINE key == call[t].key
           text == call[t].text
           out == StandardCBC(key, Iv, Padded(text))
           new == [call[t] EXCEPT !.at = "returned", !.out = out, !.len = Len(out)]
<1>1. call[t].at = "crypt" /\ call[t].fun = "encrypt" /\ UNCHANGED <<aes_init_done, generated>>
  BY DEF AesEncrypt
<1>2. call[t] \in Frame /\ FrameOK(call[t]) /\ Seen(call[t].at, generated)
  BY <1>1, InFrame DEF CipherInv
<1>3. Tables(generated) = Full
  BY <1>1, <1>2, AllGenerated DEF Seen, CipherInv
<1>4. key \in Keys32 /\ text \in Text /\ call[t].ctx = aes_setkey_enc(Full, key)
  BY <1>1, <1>2 DEF FrameOK, Working, Schedule
<1>5. /\ out \in Seq(Byte)
      /\ aes_crypt_cbc(Full, aes_setkey_enc(Full, key), "encrypt", Iv, PaddingData(text)) = out
  BY <1>4, SealedType
<1>6. Goes(t, new) /\ sealed' = sealed \cup {[key |-> key, text |-> text, out |-> out]}
  BY <1>3, <1>4, <1>5 DEF AesEncrypt
<1>7. Len(out) \in Int
  BY <1>5
<1>8. new \in Frame
  BY <1>2, <1>5, <1>7 DEF Frame, At
<1>9. FrameOK(new)
  BY <1>1, <1>2, <1>8 DEF Frame, FrameOK, Working, Returned
<1>10. Seen(new.at, generated')
  BY <1>1, <1>2 DEF Seen, Frame
<1>11. SealedInv'
  BY <1>4, <1>5, <1>6 DEF CipherInv, SealedInv
<1>. HIDE DEF new
<1>12. CallInv'
  BY <1>1, <1>6, <1>8, <1>9, <1>10, OneMoves DEF CipherInv
<1>. QED  BY <1>1, <1>11, <1>12 DEF CipherInv, TablesInv

\* Whatever the last byte says, the length is not below -239.
LEMMA DecryptedBytes ==
    ASSUME NEW key \in Keys32, NEW text \in Seq(Byte)
    PROVE  LET out == Decrypted(key, text)
           IN /\ out \in Seq(Byte)
              /\ out # <<>> => /\ GetPaddingDataLen(out) \in Byte
                               /\ Len(out) - GetPaddingDataLen(out) \in -239..Len(out)
<1>1. CASE Len(text) % 16 # 0
  <2>1. Decrypted(key, text) = <<>>
    BY <1>1 DEF Decrypted, aes_crypt_cbc
  <2>. QED  BY <2>1
<1>2. CASE Len(text) % 16 = 0
  <2>1. PICK m \in Nat : Len(text) = 16 * m
    <3>1. Len(text) \div 16 \in Nat /\ Len(text) = 16 * (Len(text) \div 16)
      BY <1>2
    <3>. QED  BY <3>1
  <2>2. key \in Seq(Byte) /\ Len(key) \in KeyLengths
    BY KeyTypes
  <2>3. PICK out \in Seq(Byte) : out = Decrypted(key, text) /\ Len(out) = 16 * m
    BY <2>1, <2>2, IvType, DecryptedType DEF Decrypted
  <2>4. ASSUME out # <<>>
        PROVE  out[Len(out)] \in Byte /\ Len(out) - out[Len(out)] \in -239..Len(out)
    <3>1. Len(out) \in 1..Len(out) /\ Len(out) >= 16
      BY <2>3, <2>4
    <3>2. PICK l \in Nat, p \in Byte : l = Len(out) /\ p = out[Len(out)]
      BY <3>1, ElementOfSeq
    <3>3. l - p \in -239..l
      <4>1. l \in Nat /\ 16 <= l /\ p \in Int /\ 0 <= p /\ p <= 255
        <5>1. l \in Nat /\ 16 <= l
          BY <3>1, <3>2
        <5>2. p \in Int /\ 0 <= p /\ p <= 255
          BY DEF Byte
        <5>. QED  BY <5>1, <5>2
      <4>. QED  BY <4>1
    <3>. QED  BY <3>2, <3>3
  <2>. QED  BY <2>3, <2>4 DEF GetPaddingDataLen
<1>. QED  BY <1>1, <1>2

LEMMA AesDecryptKeeps ==
    ASSUME CipherInv, NEW t \in Thread, AesDecrypt(t)
    PROVE  CipherInv'
<1> DEFINE out == Decrypted(call[t].key, call[t].text)
           failed == [call[t] EXCEPT !.at = "returned", !.ret = -1]
           given == [call[t] EXCEPT !.at = "returned", !.out = out,
                                    !.len = Len(out) - GetPaddingDataLen(out)]
<1>1. call[t].at = "crypt" /\ call[t].fun = "decrypt" /\ UNCHANGED <<aes_init_done, generated, sealed>>
  BY DEF AesDecrypt
<1>2. call[t] \in Frame /\ FrameOK(call[t]) /\ Seen(call[t].at, generated)
  BY <1>1, InFrame DEF CipherInv
<1>3. Tables(generated) = Full
  BY <1>1, <1>2, AllGenerated DEF Seen, CipherInv
<1>4. call[t].key \in Keys32 /\ call[t].ctx = aes_setkey_dec(Full, call[t].key)
  BY <1>1, <1>2 DEF FrameOK, Working, Schedule
<1>5. out = aes_crypt_cbc(Tables(generated), call[t].ctx, "decrypt", Iv, call[t].text)
  BY <1>3, <1>4 DEF Decrypted
<1>6. out \in Seq(Byte) /\ (out # <<>> => Len(out) - GetPaddingDataLen(out) \in Int)
  <2>1. call[t].text \in Seq(Byte)
    BY <1>2 DEF Frame
  <2>2. out \in Seq(Byte) /\ (out # <<>> => Len(out) - GetPaddingDataLen(out) \in -239..Len(out))
    BY <1>4, <2>1, DecryptedBytes
  <2>. QED  BY <2>2
<1>7. Goes(t, IF out = <<>> THEN failed ELSE given)
  BY <1>5 DEF AesDecrypt
<1>. HIDE DEF out
<1>8. /\ failed \in Frame /\ failed.at = "returned" /\ FrameOK(failed)
  BY <1>1, <1>2 DEF Frame, At, FrameOK, Working, Returned
<1>9. out # <<>> => given \in Frame /\ given.at = "returned" /\ FrameOK(given)
  <2>1. SUFFICES ASSUME out # <<>> PROVE given \in Frame /\ given.at = "returned" /\ FrameOK(given)
    OBVIOUS
  <2>2. given \in Frame
    BY <1>2, <1>6, <2>1 DEF Frame, At
  <2>3. /\ given.at = "returned" /\ given.fun = "decrypt" /\ given.ret = 0 /\ given.key = call[t].key
        /\ given.text = call[t].text /\ given.out = out
        /\ given.len = Len(out) - GetPaddingDataLen(out)
    BY <1>1, <1>2 DEF Frame, FrameOK, Working
  <2>. HIDE DEF given
  <2>4. Returned(given)
    BY <1>4, <2>1, <2>3 DEF Returned, out
  <2>. QED  BY <2>2, <2>3, <2>4 DEF FrameOK
<1>10. Seen("returned", generated')
  BY DEF Seen
<1>. HIDE DEF failed, given
<1>11. CallInv'
  BY <1>1, <1>7, <1>8, <1>9, <1>10, OneMoves DEF CipherInv
<1>. QED  BY <1>1, <1>11 DEF CipherInv, TablesInv, SealedInv

LEMMA ReturnsKeeps ==
    ASSUME CipherInv, NEW t \in Thread, Returns(t)
    PROVE  CipherInv'
<1>1. Goes(t, Idle) /\ UNCHANGED <<aes_init_done, generated, sealed>>
  BY DEF Returns
<1>2. CallInv'
  BY <1>1, OneMoves DEF CipherInv
<1>. QED  BY <1>1, <1>2 DEF CipherInv, TablesInv, SealedInv

\* Every step keeps the invariant.
LEMMA StepCipher == CipherInv /\ [Next]_vars => CipherInv'
<1>1. SUFFICES ASSUME CipherInv, [Next]_vars PROVE CipherInv'
  OBVIOUS
<1>2. CASE UNCHANGED vars
  BY <1>1, <1>2 DEF vars, CipherInv, TablesInv, CallInv, SealedInv
<1>3. ASSUME NEW t \in Thread, Step(t) PROVE CipherInv'
  <2>1. ASSUME NEW type \in CryptType, NEW key \in Keys, NEW text \in Text, Encrypt(t, type, text, key)
        PROVE  CipherInv'
    BY <1>1, <2>1, BeginsKeeps, KeyTypes DEF Encrypt, Fun
  <2>2. ASSUME NEW type \in CryptType, NEW key \in Keys, NEW text \in Arriving,
               Decrypt(t, type, text, key)
        PROVE  CipherInv'
    <3>1. text \in Seq(Byte)
      BY <1>1, ArrivingType DEF CipherInv
    <3>. QED  BY <1>1, <2>2, <3>1, BeginsKeeps DEF Decrypt, Fun
  <2>3. CASE Checks(t)
    BY <1>1, <2>3, ChecksKeeps
  <2>4. CASE aes_gen_tables(t)
    BY <1>1, <2>4, GenTablesKeeps
  <2>5. CASE Sets(t)
    BY <1>1, <2>5, SetsKeeps
  <2>6. CASE Schedules(t)
    BY <1>1, <2>6, SchedulesKeeps
  <2>7. CASE AesEncrypt(t)
    BY <1>1, <2>7, AesEncryptKeeps
  <2>8. CASE AesDecrypt(t)
    BY <1>1, <2>8, AesDecryptKeeps
  <2>9. CASE Returns(t)
    BY <1>1, <2>9, ReturnsKeeps
  <2>. QED  BY <1>3, <2>1, <2>2, <2>3, <2>4, <2>5, <2>6, <2>7, <2>8, <2>9 DEF Step
<1>. QED  BY <1>1, <1>2, <1>3 DEF Next

(* The inductive invariant of the threads holds of the specification.           *)
THEOREM CipherInvariant == Spec => []CipherInv
<1>. QED  BY InitCipher, StepCipher, PTL DEF Spec

(* What a call holds, and how much it gives, is what TypeOK says.               *)
THEOREM CipherTypeCorrect == Spec => []TypeOK
<1>1. CipherInv => TypeOK
  <2>1. SUFFICES ASSUME CipherInv PROVE TypeOK
    OBVIOUS
  <2>2. ASSUME NEW t \in Thread, call[t] # Idle
        PROVE  /\ call[t].at \in At /\ call[t].fun \in Fun
               /\ call[t].key \in Keys /\ call[t].ctx.nr \in {0, 14}
               /\ call[t].ret \in {0, -1}
               /\ call[t].len \in -239..Len(call[t].out)
    <3>1. PICK c \in Frame : c = call[t] /\ FrameOK(c)
      BY <2>1, <2>2 DEF CipherInv, CallInv
    <3>2. c.ctx.nr \in {0, 14}
      <4>1. c.ctx \in Contexts
        BY DEF Frame
      <4>2. NoContext.nr = 0
        BY DEF NoContext
      <4>3. ASSUME NEW fun \in Fun, NEW key \in Keys32 PROVE Schedule(fun, key).nr = 14
        <5>1. key \in Seq(Byte) /\ Len(key) \in KeyLengths /\ Len(key) = 32
          BY KeyTypes DEF Keys32
        <5>2. Len(key) \div 4 + 6 = 14
          BY <5>1
        <5>3. aes_setkey_enc(Full, key).nr = 14
          <6>1. aes_setkey_enc(Full, key) = [nr |-> Len(key) \div 4 + 6, rk |-> KeyExpansion(key)]
            BY <5>1, ScheduleRight
          <6>. QED  BY <5>2, <6>1
        <5>4. aes_setkey_dec(Full, key).nr = 14
          BY <5>1, <5>2, DecRight DEF Reverses
        <5>. QED  BY <5>3, <5>4 DEF Schedule
      <4>. QED  BY <4>1, <4>2, <4>3 DEF Contexts
    <3>3. c.len \in -239..Len(c.out)
      <4>1. Len(<<>>) = 0 /\ 0 \in -239..0
        OBVIOUS
      <4>2. c.out \in Seq(Byte) /\ Len(c.out) \in Nat /\ c.text \in Seq(Byte)
        BY DEF Frame
      <4>3. Len(c.out) \in -239..Len(c.out)
        BY <4>2
      <4>4. CASE c.at # "returned"
        BY <3>1, <4>1, <4>4 DEF FrameOK, Working
      <4>5. CASE c.at = "returned" /\ c.out = <<>> /\ c.len = 0
        BY <4>1, <4>5
      <4>6. CASE c.at = "returned" /\ c.len = Len(c.out)
        BY <4>3, <4>6
      <4>7. CASE /\ c.key \in Keys32 /\ c.out = Decrypted(c.key, c.text) /\ c.out # <<>>
                 /\ c.len = Len(c.out) - GetPaddingDataLen(c.out)
        BY <4>2, <4>7, DecryptedBytes
      <4>. QED  BY <3>1, <4>4, <4>5, <4>6, <4>7 DEF FrameOK, Returned
    <3>. QED  BY <3>1, <3>2, <3>3 DEF Frame
  <2>3. ASSUME NEW s \in sealed
        PROVE  Blocks(s.out) = Blocks(s.text) + 1 /\ Len(s.out) % 16 = 0
    <3>1. s.key \in Keys32 /\ s.text \in Text /\ s.out = StandardCBC(s.key, Iv, Padded(s.text))
      BY <2>1 DEF CipherInv, SealedInv
    <3>2. s.text \in Seq(Byte) /\ Blocks(s.text) \in Nat
      BY <3>1, KeyTypes, PaddingRight
    <3>3. Len(s.out) = 16 * (Blocks(s.text) + 1)
      BY <3>1, SealedType
    <3>4. PICK m \in Nat : m = Blocks(s.text)
      BY <3>2
    <3>5. (16 * (m + 1)) % 16 = 0 /\ (16 * (m + 1)) \div 16 = m + 1
      OBVIOUS
    <3>. QED  BY <3>3, <3>4, <3>5 DEF Blocks
  <2>4. aes_init_done \in BOOLEAN /\ generated \subseteq Groups
    BY <2>1 DEF CipherInv, TablesInv
  <2>. QED  BY <2>2, <2>3, <2>4 DEF TypeOK
<1>. QED  BY <1>1, CipherInvariant, PTL

(* Whatever the threads do at the same time, what Encrypt gives is the standard's *)
(* cipher text.                                                                 *)
THEOREM CipherIsStandard == Spec => []CipherRight
<1>1. CipherInv => CipherRight
  <2>1. SUFFICES ASSUME CipherInv, NEW s \in sealed PROVE s.out = Standard[s.key][s.text]
    BY DEF CipherRight
  <2>2. s.key \in Keys32 /\ s.text \in Text /\ s.out = StandardCBC(s.key, Iv, Padded(s.text))
    BY <2>1 DEF CipherInv, SealedInv
  <2>. QED  BY <2>2 DEF Standard, Keys32
<1>. QED  BY <1>1, CipherInvariant, PTL

(* Decrypt, under the key of the encryption, gives the text and its length.      *)
THEOREM DecryptTakesBack == Spec => []RoundTrip
<1>1. CipherInv => RoundTrip
  <2>1. SUFFICES ASSUME CipherInv, NEW t \in Thread, NEW s \in sealed,
                        call[t].at = "returned", call[t].fun = "decrypt", call[t].ret = 0,
                        call[t].text = s.out, call[t].key = s.key
                 PROVE  call[t].len = Len(s.text) /\ SubSeq(call[t].out, 1, call[t].len) = s.text
    BY DEF RoundTrip
  <2>2. s.key \in Keys32 /\ s.text \in Text /\ s.out = StandardCBC(s.key, Iv, Padded(s.text))
    BY <2>1 DEF CipherInv, SealedInv
  <2>3. PICK c \in Frame : c = call[t] /\ FrameOK(c)
    BY <2>1, InFrame DEF CipherInv
  <2>4. c.out = Decrypted(s.key, s.out) /\ c.len = Len(c.out) - GetPaddingDataLen(c.out)
    BY <2>1, <2>3 DEF FrameOK, Returned
  <2>5. c.out = Padded(s.text)
    BY <2>2, <2>4, SealedType
  <2>6. s.text \in Seq(Byte)
    BY <2>2, KeyTypes
  <2>7. /\ Len(Padded(s.text)) = 16 * (Blocks(s.text) + 1) /\ Blocks(s.text) \in Nat
        /\ Padded(s.text)[Len(Padded(s.text))] = Len(Padded(s.text)) - Len(s.text)
        /\ SubSeq(Padded(s.text), 1, Len(s.text)) = s.text
    BY <2>6, PaddingRight
  <2>8. PICK a \in Nat, b \in Nat : a = Len(Padded(s.text)) /\ b = Len(s.text)
    BY <2>6, <2>7
  <2>9. c.len = a - (a - b)
    BY <2>4, <2>5, <2>7, <2>8 DEF GetPaddingDataLen
  <2>10. c.len = b
    BY <2>9
  <2>. QED  BY <2>3, <2>5, <2>7, <2>8, <2>10
<1>. QED  BY <1>1, CipherInvariant, PTL

\* The round keys of a schedule are the standard's, for encryption and for decryption.
LEMMA RoundsRight ==
    ASSUME NEW key \in Keys32, NEW fun \in Fun
    PROVE  /\ Schedule(fun, key).nr = 14
           /\ \A r \in 0..14 : RoundKey(Schedule(fun, key), r) = StandardRounds[key][fun][r]
<1>1. key \in Seq(Byte) /\ Len(key) \in KeyLengths /\ Len(key) = 32
  BY KeyTypes DEF Keys32
<1>2. Len(key) \div 4 + 6 = 14
  BY <1>1
<1>3. PICK w : w = KeyExpansion(key)
  OBVIOUS
<1>4. \A r \in 0..14 : StandardRounds[key][fun][r]
          = IF fun = "encrypt" THEN RK(w, r)
            ELSE IF r \in 1..14 - 1 THEN UnmixBlock(RK(w, 14 - r)) ELSE RK(w, 14 - r)
  <2>1. StandardRounds[key][fun] = StandardKeys(fun, key)
    BY DEF StandardRounds
  <2>. QED  BY <1>2, <1>3, <2>1 DEF StandardKeys
<1>5. CASE fun = "encrypt"
  <2>1. Schedule(fun, key) = [nr |-> 14, rk |-> w]
    <3>1. aes_setkey_enc(Full, key) = [nr |-> Len(key) \div 4 + 6, rk |-> KeyExpansion(key)]
      BY <1>1, ScheduleRight
    <3>. QED  BY <1>2, <1>3, <1>5, <3>1 DEF Schedule
  <2>2. \A r : RoundKey([nr |-> 14, rk |-> w], r) = RK(w, r)
    BY DEF RoundKey, RK
  <2>. QED  BY <1>4, <1>5, <2>1, <2>2
<1>6. CASE fun # "encrypt"
  <2>1. PICK ctx : ctx = Schedule(fun, key) /\ Reverses(ctx, w, 14)
    <3>1. Reverses(aes_setkey_dec(Full, key), KeyExpansion(key), Len(key) \div 4 + 6)
      BY <1>1, DecRight
    <3>. QED  BY <1>2, <1>3, <1>6, <3>1 DEF Schedule
  <2>2. /\ ctx.nr = 14 /\ RoundKey(ctx, 0) = RK(w, 14) /\ RoundKey(ctx, 14) = RK(w, 0)
        /\ \A r \in 1..14 - 1 : RoundKey(ctx, r) = UnmixBlock(RK(w, 14 - r))
    BY <2>1 DEF Reverses
  <2>3. ASSUME NEW r \in 0..14, r \notin 1..14 - 1 PROVE RoundKey(ctx, r) = RK(w, 14 - r)
    <3>1. (r = 0 /\ 14 - r = 14) \/ (r = 14 /\ 14 - r = 0)
      BY <2>3
    <3>. QED  BY <2>2, <3>1
  <2>. QED  BY <1>4, <1>6, <2>1, <2>2, <2>3
<1>. QED  BY <1>5, <1>6

(* No thread schedules a key or goes through the rounds by a table that is not   *)
(* generated, and in the rounds it has the standard's round keys for its key;    *)
(* once aes_init_done is set the tables are those of the ROM, and a block under  *)
(* each key of Sample becomes what it should, and comes back.                    *)
THEOREM TablesAreRight == Spec => []TablesRight
<1>1. CipherInv => TablesRight
  <2>1. SUFFICES ASSUME CipherInv PROVE TablesRight
    OBVIOUS
  <2>2. ASSUME NEW t \in Thread, call[t].at \in {"schedule", "crypt"}
        PROVE  generated = Groups
    <3>1. Seen(call[t].at, generated)
      BY <2>1, <2>2, InFrame DEF CipherInv
    <3>. QED  BY <2>1, <2>2, <3>1 DEF Seen, CipherInv, TablesInv
  <2>3. ASSUME NEW t \in Thread, call[t].at = "crypt"
        PROVE  /\ call[t].ctx.nr = 14
               /\ \A r \in 0..14 :
                      RoundKey(call[t].ctx, r) = StandardRounds[call[t].key][call[t].fun][r]
    <3>1. PICK c \in Frame : c = call[t] /\ FrameOK(c)
      BY <2>1, <2>3, InFrame DEF CipherInv
    <3>2. c.fun \in Fun /\ c.key \in Keys32 /\ c.ctx = Schedule(c.fun, c.key)
      BY <2>3, <3>1 DEF Frame, FrameOK, Working
    <3>. QED  BY <3>1, <3>2, RoundsRight
  <2>4. aes_init_done => Tables(generated) = Full
    BY <2>1, AllGenerated DEF CipherInv, TablesInv
  <2>5. /\ Full.RCON = RomRCON
        /\ \A i \in Byte : Full.FSb[i] = RomFSb[i + 1] /\ Full.RSb[i] = RomRSb[i + 1]
    BY FullTables, TablesOfRom
  <2>6. ASSUME NEW key \in DOMAIN StandardSample
        PROVE  LET block == BlockOf(key, 1)
                   out == aes_crypt_ecb(Full, aes_setkey_enc(Full, key), "encrypt", block)
               IN /\ out = StandardSample[key]
                  /\ aes_crypt_ecb(Full, aes_setkey_dec(Full, key), "decrypt", out) = block
    <3>1. key \in Sample /\ Len(key) \in KeyLengths
      BY <2>6 DEF StandardSample
    <3>2. key \in Seq(Byte)
      BY <3>1, KeyTypes
    <3>3. StandardSample[key] = StandardBlock(key, BlockOf(key, 1))
      BY <3>1 DEF StandardSample
    <3>4. BlockOf(key, 1) \in Block
      <4>1. 1 \in Nat \ {0} /\ 16 * 1 <= Len(key)
        <5>1. Len(key) = 16 \/ Len(key) = 24 \/ Len(key) = 32
          BY <3>1 DEF KeyLengths
        <5>2. PICK l \in Nat : l = Len(key)
          BY <3>2
        <5>3. 16 <= l
          BY <5>1, <5>2
        <5>. QED  BY <5>2, <5>3
      <4>. QED  BY <3>2, <4>1, BlockOfRight
    <3>. QED  BY <3>1, <3>2, <3>3, <3>4, BlockRight
  <2>7. WholeTables
    BY <2>2 DEF WholeTables
  <2>8. RightRounds
    BY <2>3 DEF RightRounds
  <2>9. RomTables
    BY <2>4, <2>5 DEF RomTables
  <2>10. SampleRight
    BY <2>4, <2>6 DEF SampleRight
  <2>. QED  BY <2>7, <2>8, <2>9, <2>10 DEF TablesRight
<1>. QED  BY <1>1, CipherInvariant, PTL
================================================================================
