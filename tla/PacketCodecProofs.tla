---------------------------- MODULE PacketCodecProofs --------------------------
(* What one side of the access authentication puts together the other takes     *)
(* apart, for every device ID, nonce, salt and proof and every iteration count   *)
(* that has two bytes; and a frame that was damaged is taken for none.           *)
EXTENDS PacketCodec, SequenceTheorems, TLAPS

--------------------------------------------------------------------------------
(* Sequences, of whatever elements. *)

IsSeq(s) == \E S : s \in Seq(S)

LEMMA FunctionIsSeq ==
    ASSUME NEW n \in Nat, NEW S, NEW s \in [1..n -> S]
    PROVE  IsSeq(s) /\ Len(s) = n
<1>1. s \in Seq(S)
  OBVIOUS
<1> QED
  BY <1>1, LenProperties DEF IsSeq

LEMMA SeqLength ==
    ASSUME NEW s, IsSeq(s)
    PROVE  Len(s) \in Nat /\ DOMAIN s = 1..Len(s)
BY LenProperties DEF IsSeq

\* Two sequences are over one set of elements.
LEMMA SeqUnion ==
    ASSUME NEW s, NEW t, IsSeq(s), IsSeq(t)
    PROVE  \E S : s \in Seq(S) /\ t \in Seq(S)
<1> PICK S : s \in Seq(S)
  BY DEF IsSeq
<1> PICK T : t \in Seq(T)
  BY DEF IsSeq
<1>1. s \in Seq(S \cup T) /\ t \in Seq(S \cup T)
  BY SeqMonotonic, S \subseteq S \cup T, T \subseteq S \cup T
<1> QED
  BY <1>1

LEMMA Equal ==
    ASSUME NEW s, NEW t, IsSeq(s), IsSeq(t), Len(s) = Len(t),
           \A i \in 1..Len(s) : s[i] = t[i]
    PROVE  s = t
<1> PICK S : s \in Seq(S) /\ t \in Seq(S)
  BY SeqUnion
<1> QED
  BY SeqEqual

LEMMA Concat ==
    ASSUME NEW s, NEW t, IsSeq(s), IsSeq(t)
    PROVE  /\ IsSeq(s \o t)
           /\ Len(s \o t) = Len(s) + Len(t)
           /\ \A i \in 1..Len(s) : (s \o t)[i] = s[i]
           /\ \A i \in 1..Len(t) : (s \o t)[Len(s) + i] = t[i]
<1> PICK S : s \in Seq(S) /\ t \in Seq(S)
  BY SeqUnion
<1>1. IsSeq(s \o t) /\ Len(s \o t) = Len(s) + Len(t)
  BY ConcatProperties DEF IsSeq
<1>2. \A i \in 1..Len(s) + Len(t) :
          (s \o t)[i] = IF i <= Len(s) THEN s[i] ELSE t[i - Len(s)]
  BY ConcatProperties
<1>3. Len(s) \in Nat /\ Len(t) \in Nat
  BY SeqLength
<1>4. ASSUME NEW i \in 1..Len(t)
      PROVE  (s \o t)[Len(s) + i] = t[i]
  <2>1. Len(s) + i \in 1..Len(s) + Len(t) /\ ~(Len(s) + i <= Len(s)) /\ Len(s) + i - Len(s) = i
    BY <1>3
  <2> QED
    BY <1>2, <2>1
<1>5. \A i \in 1..Len(s) : (s \o t)[i] = s[i]
  BY <1>2, <1>3
<1> QED
  BY <1>1, <1>4, <1>5

LEMMA ConcatSeq ==
    ASSUME NEW s, NEW t, IsSeq(s), IsSeq(t)
    PROVE  IsSeq(s \o t)
BY Concat

LEMMA ConcatFirst ==
    ASSUME NEW s, NEW t, IsSeq(s), IsSeq(t), NEW n, Len(s) = n, NEW i \in 1..n
    PROVE  (s \o t)[i] = s[i]
BY Concat

LEMMA ConcatIs ==
    ASSUME NEW s, NEW t, NEW u, IsSeq(s), IsSeq(t), IsSeq(u), Len(u) = Len(s) + Len(t),
           \A i \in 1..Len(s) : u[i] = s[i],
           \A i \in 1..Len(t) : u[Len(s) + i] = t[i]
    PROVE  s \o t = u
<1>1. /\ IsSeq(s \o t)
      /\ Len(s \o t) = Len(s) + Len(t)
      /\ \A i \in 1..Len(s) : (s \o t)[i] = s[i]
      /\ \A i \in 1..Len(t) : (s \o t)[Len(s) + i] = t[i]
  BY Concat
<1>2. Len(s) \in Nat /\ Len(t) \in Nat
  BY SeqLength
<1>3. ASSUME NEW i \in 1..Len(u)
      PROVE  (s \o t)[i] = u[i]
  <2>1. CASE i \in 1..Len(s)
    BY <1>1, <2>1
  <2>2. CASE ~(i \in 1..Len(s))
    <3>1. i - Len(s) \in 1..Len(t) /\ Len(s) + (i - Len(s)) = i
      BY <1>2, <2>2
    <3>2. /\ (s \o t)[Len(s) + (i - Len(s))] = t[i - Len(s)]
          /\ u[Len(s) + (i - Len(s))] = t[i - Len(s)]
      BY <1>1, <3>1
    <3> QED
      BY <3>1, <3>2
  <2> QED
    BY <2>1, <2>2
<1> QED
  BY <1>1, <1>3, Equal

LEMMA Cut ==
    ASSUME NEW s, IsSeq(s), NEW m \in Nat \ {0}, NEW n \in Nat, n <= Len(s), m <= n + 1
    PROVE  /\ IsSeq(SubSeq(s, m, n))
           /\ Len(SubSeq(s, m, n)) = n - m + 1
           /\ \A i \in 1..n - m + 1 : SubSeq(s, m, n)[i] = s[m + i - 1]
<1> PICK S : s \in Seq(S)
  BY DEF IsSeq
<1>1. \A i \in m..n : s[i] \in S
  BY ElementOfSeq, SeqLength
<1>2. /\ SubSeq(s, m, n) \in Seq(S)
      /\ Len(SubSeq(s, m, n)) = IF m <= n THEN n - m + 1 ELSE 0
      /\ \A i \in 1..n - m + 1 : SubSeq(s, m, n)[i] = s[m + i - 1]
  <2>1. m \in Int /\ n \in Int
    OBVIOUS
  <2>2. SubSeq(s, m, n) \in Seq(S)
    BY <1>1, <2>1, SubSeqProperties
  <2>3. Len(SubSeq(s, m, n)) = IF m <= n THEN n - m + 1 ELSE 0
    BY <1>1, <2>1, SubSeqProperties
  <2>4. \A i \in 1..n - m + 1 : SubSeq(s, m, n)[i] = s[m + i - 1]
    BY <1>1, <2>1, SubSeqProperties
  <2> QED
    BY <2>2, <2>3, <2>4
<1>3. IsSeq(SubSeq(s, m, n))
  BY <1>2 DEF IsSeq
<1>4. Len(SubSeq(s, m, n)) = n - m + 1
  BY <1>2
<1> QED
  BY <1>2, <1>3, <1>4

\* The equations have names, under which the provers take them as they are.
Regroups(s, t, u) == (s \o t) \o u = s \o (t \o u)

LEMMA Associative ==
    ASSUME NEW s, NEW t, NEW u, IsSeq(s), IsSeq(t), IsSeq(u)
    PROVE  Regroups(s, t, u)
<1> PICK S : s \in Seq(S)
  BY DEF IsSeq
<1> PICK T : t \in Seq(T)
  BY DEF IsSeq
<1> PICK U : u \in Seq(U)
  BY DEF IsSeq
<1> DEFINE V == S \cup T \cup U
<1>1. s \in Seq(V) /\ t \in Seq(V) /\ u \in Seq(V)
  BY SeqMonotonic, S \subseteq V, T \subseteq V, U \subseteq V
<1> QED
  BY <1>1, ConcatAssociative DEF Regroups

\* What is concatenated can be cut apart again.
LEMMA CutFirst ==
    ASSUME NEW s, NEW t, IsSeq(s), IsSeq(t)
    PROVE  SubSeq(s \o t, 1, Len(s)) = s
<1> DEFINE c == SubSeq(s \o t, 1, Len(s))
<1>1. /\ Len(s) \in Nat /\ Len(t) \in Nat
      /\ IsSeq(s \o t) /\ Len(s \o t) = Len(s) + Len(t)
  BY SeqLength, Concat
<1>2. 1 \in Nat \ {0} /\ Len(s) <= Len(s \o t) /\ 1 <= Len(s) + 1
  BY <1>1
<1>3. /\ IsSeq(c)
      /\ Len(c) = Len(s) - 1 + 1
      /\ \A i \in 1..Len(s) - 1 + 1 : c[i] = (s \o t)[1 + i - 1]
  BY <1>1, <1>2, Cut
<1>4. ASSUME NEW i \in 1..Len(s)
      PROVE  c[i] = s[i]
  <2>1. i \in 1..Len(s) - 1 + 1 /\ 1 + i - 1 = i
    BY <1>1
  <2> QED
    BY <1>3, <2>1, Concat
<1>5. Len(c) = Len(s)
  BY <1>1, <1>3
<1> QED
  BY <1>3, <1>4, <1>5, Equal

LEMMA CutLast ==
    ASSUME NEW s, NEW t, IsSeq(s), IsSeq(t)
    PROVE  SubSeq(s \o t, Len(s) + 1, Len(s) + Len(t)) = t
<1> DEFINE c == SubSeq(s \o t, Len(s) + 1, Len(s) + Len(t))
<1>1. /\ Len(s) \in Nat /\ Len(t) \in Nat
      /\ IsSeq(s \o t) /\ Len(s \o t) = Len(s) + Len(t)
  BY SeqLength, Concat
<1>2. /\ Len(s) + 1 \in Nat \ {0} /\ Len(s) + Len(t) \in Nat
      /\ Len(s) + Len(t) <= Len(s \o t) /\ Len(s) + 1 <= Len(s) + Len(t) + 1
  BY <1>1
<1>3. /\ IsSeq(c)
      /\ Len(c) = (Len(s) + Len(t)) - (Len(s) + 1) + 1
      /\ \A i \in 1..(Len(s) + Len(t)) - (Len(s) + 1) + 1 : c[i] = (s \o t)[(Len(s) + 1) + i - 1]
  BY <1>1, <1>2, Cut
<1>4. ASSUME NEW i \in 1..Len(t)
      PROVE  c[i] = t[i]
  <2>1. i \in 1..(Len(s) + Len(t)) - (Len(s) + 1) + 1 /\ (Len(s) + 1) + i - 1 = Len(s) + i
    BY <1>1
  <2> QED
    BY <1>3, <2>1, Concat
<1>5. Len(c) = Len(t)
  BY <1>1, <1>3
<1> QED
  BY <1>3, <1>4, <1>5, Equal

LEMMA CutMiddle ==
    ASSUME NEW s, NEW t, NEW u, IsSeq(s), IsSeq(t), IsSeq(u)
    PROVE  SubSeq((s \o t) \o u, Len(s) + 1, Len(s) + Len(t)) = t
<1> DEFINE f == (s \o t) \o u
           c == SubSeq(f, Len(s) + 1, Len(s) + Len(t))
<1>1. /\ Len(s) \in Nat /\ Len(t) \in Nat /\ Len(u) \in Nat
      /\ IsSeq(s \o t) /\ Len(s \o t) = Len(s) + Len(t)
  BY SeqLength, Concat
<1>2. /\ IsSeq(f) /\ Len(f) = Len(s) + Len(t) + Len(u)
      /\ \A i \in 1..Len(s) + Len(t) : f[i] = (s \o t)[i]
  BY <1>1, Concat
<1>3. /\ Len(s) + 1 \in Nat \ {0} /\ Len(s) + Len(t) \in Nat
      /\ Len(s) + Len(t) <= Len(f) /\ Len(s) + 1 <= Len(s) + Len(t) + 1
  BY <1>1, <1>2
<1>4. /\ IsSeq(c)
      /\ Len(c) = (Len(s) + Len(t)) - (Len(s) + 1) + 1
      /\ \A i \in 1..(Len(s) + Len(t)) - (Len(s) + 1) + 1 : c[i] = f[(Len(s) + 1) + i - 1]
  <2> HIDE DEF f
  <2> QED
    BY <1>2, <1>3, Cut
<1>5. ASSUME NEW i \in 1..Len(t)
      PROVE  c[i] = t[i]
  <2>1. /\ i \in 1..(Len(s) + Len(t)) - (Len(s) + 1) + 1 /\ (Len(s) + 1) + i - 1 = Len(s) + i
        /\ Len(s) + i \in 1..Len(s) + Len(t)
    BY <1>1
  <2>2. c[i] = f[Len(s) + i]
    <3> HIDE DEF c
    <3> QED
      BY <1>4, <2>1
  <2>3. f[Len(s) + i] = (s \o t)[Len(s) + i]
    <3> HIDE DEF f
    <3> QED
      BY <1>2, <2>1
  <2> QED
    BY <2>2, <2>3, Concat
<1>6. Len(c) = Len(t)
  BY <1>1, <1>4
<1> QED
  BY <1>4, <1>5, <1>6, Equal

LEMMA EmptyRight ==
    ASSUME NEW s, IsSeq(s)
    PROVE  IsSeq(<<>>) /\ 0 = Len(<<>>) /\ s \o <<>> = s
<1> PICK S : s \in Seq(S)
  BY DEF IsSeq
<1> QED
  BY ConcatEmptySeq, EmptySeq DEF IsSeq

LEMMA Single ==
    ASSUME NEW x
    PROVE  IsSeq(<<x>>) /\ 1 = Len(<<x>>) /\ <<x>>[1] = x
<1>1. <<x>> \in Seq({x})
  OBVIOUS
<1> QED
  BY <1>1 DEF IsSeq

LEMMA Pair ==
    ASSUME NEW x, NEW y
    PROVE  /\ IsSeq(<<x, y>>) /\ 2 = Len(<<x, y>>)
           /\ <<x, y>>[1] = x /\ <<x, y>>[2] = y
<1>1. <<x, y>> \in Seq({x, y})
  OBVIOUS
<1> QED
  BY <1>1 DEF IsSeq

\* Lengths have a predicate, since the provers make sets of numbers of them.
LenIs(s, n) == IsSeq(s) /\ Len(s) = n

LEMMA JoinedLen ==
    ASSUME NEW s, NEW t, NEW m, NEW n, LenIs(s, m), LenIs(t, n)
    PROVE  LenIs(s \o t, m + n)
BY Concat DEF LenIs

Begins(f, s, n) == \A i \in 1..n : f[i] = s[i]

LEMMA FirstOfJoined ==
    ASSUME NEW s, NEW t, NEW m, NEW n, LenIs(s, m), LenIs(t, n)
    PROVE  Begins(s \o t, s, m)
BY Concat DEF LenIs, Begins

\* s from m to n is t.
IsCut(s, m, n, t) == SubSeq(s, m, n) = t

LEMMA CutFrom ==
    ASSUME NEW s, NEW t, NEW m, NEW n, LenIs(s, m), LenIs(t, n)
    PROVE  IsCut(s \o t, m + 1, m + n, t)
BY CutLast DEF LenIs, IsCut

LEMMA CutBetween ==
    ASSUME NEW s, NEW t, NEW u, NEW m, NEW n, LenIs(s, m), LenIs(t, n), IsSeq(u)
    PROVE  IsCut((s \o t) \o u, m + 1, m + n, t)
BY CutMiddle DEF LenIs, IsCut

--------------------------------------------------------------------------------
(* Bytes and numbers. *)

LEMMA SmallByte ==
    ASSUME NEW n \in 0..127
    PROVE  Byte(n) = <<"byte", n>>
BY DEF Byte

High(n) == n \div 256
Low(n) == n % 256

LEMMA AnyByte ==
    ASSUME NEW n \in Int
    PROVE  Low(Byte(n)[2]) = Low(n)
<1>1. Byte(n)[2] = ((n + 128) % 256) - 128
  BY DEF Byte
<1>2. (((n + 128) % 256) - 128) % 256 = n % 256
  OBVIOUS
<1> QED
  BY <1>1, <1>2 DEF Low

\* A number of two bytes.
IsShort(n) == n \in Int /\ 0 <= n /\ n <= 65535

LEMMA HighLow ==
    ASSUME NEW n, IsShort(n)
    PROVE  /\ High(n) \in 0..255 /\ Low(n) \in Int /\ High(n) * 256 + Low(n) = n
           /\ n < 255 => High(n) = 0
<1>1. n \in Int /\ 0 <= n /\ n <= 65535
  BY DEF IsShort
<1>2. High(n) \in Int /\ Low(n) \in Int
  BY <1>1 DEF High, Low
<1>3. 0 <= High(n)
  BY <1>1 DEF High
<1>4. High(n) <= 255
  BY <1>1 DEF High
<1>5. Low(n) = n - 256 * High(n)
  BY <1>1 DEF High, Low
<1>6. n < 255 => High(n) = 0
  BY <1>1 DEF High
<1>7. High(n) \in 0..255
  BY <1>2, <1>3, <1>4
<1>8. High(n) * 256 + Low(n) = n
  BY <1>1, <1>2, <1>5
<1> QED
  BY <1>2, <1>6, <1>7, <1>8

\* All four ways to write a number of two bytes agree, up to their order.
LEMMA Shorts ==
    ASSUME NEW n, IsShort(n)
    PROVE  /\ bigEndianAddShortToBytes(n) = WriteShort(n)
           /\ littleEndianToBytes(n) = toLittleEndianBytes(n)
           /\ parseBigEndianBytes(WriteShort(n)) = n
<1>1. WriteShort(n) = <<Byte(High(n)), Byte(n)>>
  BY DEF WriteShort, High
<1>2. bigEndianAddShortToBytes(n) = WriteShort(n)
  <2>1. bigEndianAddShortToBytes(n) =
            IF n < 255 THEN <<Byte(0), Byte(n)>> ELSE <<Byte(High(n)), Byte(n)>>
    BY DEF bigEndianAddShortToBytes, High
  <2> QED
    BY <1>1, <2>1, HighLow
<1>3. littleEndianToBytes(n) = toLittleEndianBytes(n)
  <2>1. /\ toLittleEndianBytes(n) = <<Byte(n), Byte(High(n))>>
        /\ littleEndianToBytes(n) = IF n < 255 THEN <<Byte(n), Byte(0)>> ELSE <<Byte(n), Byte(High(n))>>
    BY DEF littleEndianToBytes, toLittleEndianBytes, High
  <2> QED
    BY <2>1, HighLow
<1>4. parseBigEndianBytes(WriteShort(n)) = High(n) * 256 + Low(n)
  <2>1. parseBigEndianBytes(WriteShort(n)) =
            Low(WriteShort(n)[1][2]) * 256 + Low(WriteShort(n)[2][2])
    BY DEF parseBigEndianBytes, Low
  <2>2. WriteShort(n)[1] = Byte(High(n)) /\ WriteShort(n)[2] = Byte(n)
    BY <1>1
  <2>3. High(n) \in 0..255 /\ n \in Int
    BY HighLow DEF IsShort
  <2>4. Low(Byte(High(n))[2]) = Low(High(n)) /\ Low(Byte(n)[2]) = Low(n)
    <3>1. High(n) \in Int
      BY <2>3
    <3> QED
      BY <2>3, <3>1, AnyByte
  <2>5. Low(High(n)) = High(n)
    <3>1. ASSUME NEW q \in 0..255
          PROVE  Low(q) = q
      <4>1. q % 256 = q
        OBVIOUS
      <4> QED
        BY <4>1 DEF Low
    <3> QED
      BY <2>3, <3>1
  <2> QED
    BY <2>1, <2>2, <2>4, <2>5
<1> QED
  BY <1>2, <1>3, <1>4, HighLow

LEMMA CRCSeq ==
    ASSUME NEW d
    PROVE  IsSeq(getCRC32(d)) /\ 4 = Len(getCRC32(d))
<1>1. getCRC32(d) \in [1..4 -> {<<"crc", i, d>> : i \in 1..4}] /\ 4 \in Nat
  BY DEF getCRC32
<1> QED
  BY <1>1, FunctionIsSeq

\* What is encrypted is decrypted again, and the length of it.
LEMMA Encrypted ==
    ASSUME NEW d, IsSeq(d), NEW k
    PROVE  /\ IsSeq(Encrypt(d, k)) /\ Len(Encrypt(d, k)) = 16 * (Len(d) \div 16 + 1)
           /\ Decrypt(Encrypt(d, k), k) = {d}
<1> DEFINE n == 16 * (Len(d) \div 16 + 1)
           e == Encrypt(d, k)
<1>1. Len(d) \in Nat /\ n \in Nat /\ n >= 16
  BY SeqLength
<1>2. e \in [1..n -> {<<"aes", i, d, k>> : i \in 1..n}]
  BY DEF Encrypt
<1>3. IsSeq(e) /\ Len(e) = n
  BY <1>1, <1>2, FunctionIsSeq
<1>4. e[1] = <<"aes", 1, d, k>> /\ 1 \in DOMAIN e
  BY <1>1 DEF Encrypt
<1>5. e # <<>>
  BY <1>4
<1>6. Decrypt(e, k) = {d}
  <2>1. e[1][1] = "aes" /\ e[1][3] = d /\ e[1][4] = k
    BY <1>4
  <2> QED
    BY <1>5, <2>1 DEF Decrypt
<1> QED
  BY <1>3, <1>6
--------------------------------------------------------------------------------
(* The frame both sides write: nine bytes, the ID of the key if there is one,   *)
(* the message or what it is encrypted to, and the CRC.                         *)

Header(type, alg, dataLength, len) ==
    <<Byte(type), Byte(0), Byte(120), Byte(0), Byte(dataLength), Byte(1), Byte(alg),
      Byte(High(len)), Byte(len)>>

KeyField(alg) == IF alg = ENCRYPTION_ALGORITHM_AES THEN KeyID ELSE <<>>

Carried(alg, body) ==
    IF alg = ENCRYPTION_ALGORITHM_AES THEN Encrypt(body, RootKey(KeyID)) ELSE body

\* All of it but the CRC.
Frame(type, alg, body) ==
    (Header(type, alg, 4 + Len(KeyField(alg)) + Len(Carried(alg, body)), Len(Carried(alg, body)))
        \o KeyField(alg)) \o Carried(alg, body)

LEMMA HeaderSeq ==
    ASSUME NEW type, NEW alg, NEW n, NEW len
    PROVE  LET h == Header(type, alg, n, len) IN
           /\ IsSeq(h) /\ 9 = Len(h)
           /\ h[1] = Byte(type) /\ h[2] = Byte(0) /\ h[3] = Byte(120) /\ h[4] = Byte(0)
           /\ h[5] = Byte(n) /\ h[6] = Byte(1) /\ h[7] = Byte(alg)
           /\ h[8] = Byte(High(len)) /\ h[9] = Byte(len)
<1>1. Header(type, alg, n, len) \in
          Seq({Byte(type), Byte(0), Byte(120), Byte(n), Byte(1), Byte(alg), Byte(High(len)), Byte(len)})
  BY DEF Header
<1>2. IsSeq(Header(type, alg, n, len))
  BY <1>1 DEF IsSeq
<1> QED
  BY <1>2 DEF Header

LEMMA KeyFieldSeq ==
    ASSUME NEW alg \in Algorithms
    PROVE  /\ IsSeq(KeyField(alg))
           /\ alg = ENCRYPTION_ALGORITHM_AES => KeyField(alg) = KeyID /\ 16 = Len(KeyField(alg))
           /\ alg = ENCRYPTION_ALGORITHM_DEFAULT => KeyField(alg) = <<>> /\ 0 = Len(KeyField(alg))
<1>1. KeyID \in [1..16 -> {<<"keyID", i>> : i \in 1..16}] /\ 16 \in Nat
  BY DEF KeyID, Bytes
<1>2. IsSeq(KeyID) /\ 16 = Len(KeyID)
  BY <1>1, FunctionIsSeq
<1>3. IsSeq(<<>>) /\ 0 = Len(<<>>)
  BY <1>2, EmptyRight
<1>4. ENCRYPTION_ALGORITHM_AES # ENCRYPTION_ALGORITHM_DEFAULT
  BY DEF ENCRYPTION_ALGORITHM_AES, ENCRYPTION_ALGORITHM_DEFAULT
<1> QED
  BY <1>2, <1>3, <1>4 DEF KeyField, Algorithms

\* A message that is not too long for a signed byte to hold the length of the data.
LEMMA CarriedSeq ==
    ASSUME NEW alg \in Algorithms, NEW body, IsSeq(body), Len(body) \in 1..95
    PROVE  /\ IsSeq(Carried(alg, body))
           /\ Len(Carried(alg, body)) \in 1..96
           /\ Len(KeyField(alg)) \in {0, 16}
<1>1. CASE alg = ENCRYPTION_ALGORITHM_AES
  <2>1. IsSeq(Carried(alg, body)) /\ Len(Carried(alg, body)) = 16 * (Len(body) \div 16 + 1)
    BY <1>1, Encrypted DEF Carried
  <2>2. ASSUME NEW n \in 1..95
        PROVE  16 * (n \div 16 + 1) \in 1..96
    OBVIOUS
  <2> QED
    BY <1>1, <2>1, <2>2, KeyFieldSeq
<1>2. CASE alg = ENCRYPTION_ALGORITHM_DEFAULT
  BY <1>2, KeyFieldSeq DEF Carried, ENCRYPTION_ALGORITHM_AES, ENCRYPTION_ALGORITHM_DEFAULT
<1> QED
  BY <1>1, <1>2 DEF Algorithms

LEMMA Two ==
    ASSUME NEW a, NEW b
    PROVE  <<a>> \o <<b>> = <<a, b>>
<1> DEFINE s == <<a>>
           t == <<b>>
           u == <<a, b>>
<1>1. s \in Seq({a}) /\ t \in Seq({b}) /\ u \in Seq({a, b})
  OBVIOUS
<1>2. IsSeq(s) /\ IsSeq(t) /\ IsSeq(u)
  BY <1>1 DEF IsSeq
<1>3. Len(s) = 1 /\ Len(t) = 1 /\ Len(u) = 2
  OBVIOUS
<1>4. (\A i \in 1..1 : u[i] = s[i]) /\ (\A i \in 1..1 : u[1 + i] = t[i])
  OBVIOUS
<1> HIDE DEF s, t, u
<1>5. /\ Len(u) = Len(s) + Len(t)
      /\ \A i \in 1..Len(s) : u[i] = s[i]
      /\ \A i \in 1..Len(t) : u[Len(s) + i] = t[i]
  BY <1>3, <1>4
<1>6. s \o t = u
  BY <1>2, <1>5, ConcatIs
<1> QED
  BY <1>6 DEF s, t, u

LEMMA Three ==
    ASSUME NEW a, NEW b, NEW c
    PROVE  <<a>> \o <<b, c>> = <<a, b, c>>
<1> DEFINE s == <<a>>
           t == <<b, c>>
           u == <<a, b, c>>
<1>1. s \in Seq({a}) /\ t \in Seq({b, c}) /\ u \in Seq({a, b, c})
  OBVIOUS
<1>2. IsSeq(s) /\ IsSeq(t) /\ IsSeq(u)
  BY <1>1 DEF IsSeq
<1>3. Len(s) = 1 /\ Len(t) = 2 /\ Len(u) = 3
  OBVIOUS
<1>4. (\A i \in 1..1 : u[i] = s[i]) /\ (\A i \in 1..2 : u[1 + i] = t[i])
  OBVIOUS
<1> HIDE DEF s, t, u
<1>5. /\ Len(u) = Len(s) + Len(t)
      /\ \A i \in 1..Len(s) : u[i] = s[i]
      /\ \A i \in 1..Len(t) : u[Len(s) + i] = t[i]
  BY <1>3, <1>4
<1>6. s \o t = u
  BY <1>2, <1>5, ConcatIs
<1> QED
  BY <1>6 DEF s, t, u

LEMMA Four ==
    ASSUME NEW a, NEW b, NEW c, NEW d
    PROVE  <<a, b>> \o <<c, d>> = <<a, b, c, d>>
<1> DEFINE s == <<a, b>>
           t == <<c, d>>
           u == <<a, b, c, d>>
<1>1. s \in Seq({a, b}) /\ t \in Seq({c, d}) /\ u \in Seq({a, b, c, d})
  OBVIOUS
<1>2. IsSeq(s) /\ IsSeq(t) /\ IsSeq(u)
  BY <1>1 DEF IsSeq
<1>3. Len(s) = 2 /\ Len(t) = 2 /\ Len(u) = 4
  OBVIOUS
<1>4. (\A i \in 1..2 : u[i] = s[i]) /\ (\A i \in 1..2 : u[2 + i] = t[i])
  OBVIOUS
<1> HIDE DEF s, t, u
<1>5. /\ Len(u) = Len(s) + Len(t)
      /\ \A i \in 1..Len(s) : u[i] = s[i]
      /\ \A i \in 1..Len(t) : u[Len(s) + i] = t[i]
  BY <1>3, <1>4
<1>6. s \o t = u
  BY <1>2, <1>5, ConcatIs
<1> QED
  BY <1>6 DEF s, t, u

LEMMA Five ==
    ASSUME NEW a, NEW b, NEW c, NEW d, NEW e
    PROVE  <<a, b, c>> \o <<d, e>> = <<a, b, c, d, e>>
<1> DEFINE s == <<a, b, c>>
           t == <<d, e>>
           u == <<a, b, c, d, e>>
<1>1. s \in Seq({a, b, c}) /\ t \in Seq({d, e}) /\ u \in Seq({a, b, c, d, e})
  OBVIOUS
<1>2. IsSeq(s) /\ IsSeq(t) /\ IsSeq(u)
  BY <1>1 DEF IsSeq
<1>3. Len(s) = 3 /\ Len(t) = 2 /\ Len(u) = 5
  OBVIOUS
<1>4. (\A i \in 1..3 : u[i] = s[i]) /\ (\A i \in 1..2 : u[3 + i] = t[i])
  OBVIOUS
<1> HIDE DEF s, t, u
<1>5. /\ Len(u) = Len(s) + Len(t)
      /\ \A i \in 1..Len(s) : u[i] = s[i]
      /\ \A i \in 1..Len(t) : u[Len(s) + i] = t[i]
  BY <1>3, <1>4
<1>6. s \o t = u
  BY <1>2, <1>5, ConcatIs
<1> QED
  BY <1>6 DEF s, t, u

LEMMA Nine ==
    ASSUME NEW a, NEW b, NEW c, NEW d, NEW e, NEW f, NEW g, NEW h, NEW k
    PROVE  <<a, b, c, d, e>> \o <<f, g, h, k>> = <<a, b, c, d, e, f, g, h, k>>
<1> DEFINE s == <<a, b, c, d, e>>
           t == <<f, g, h, k>>
           u == <<a, b, c, d, e, f, g, h, k>>
<1>1. s \in Seq({a, b, c, d, e}) /\ t \in Seq({f, g, h, k}) /\ u \in Seq({a, b, c, d, e, f, g, h, k})
  OBVIOUS
<1>2. IsSeq(s) /\ IsSeq(t) /\ IsSeq(u)
  BY <1>1 DEF IsSeq
<1>3. Len(s) = 5 /\ Len(t) = 4 /\ Len(u) = 9
  OBVIOUS
<1>4. (\A i \in 1..5 : u[i] = s[i]) /\ (\A i \in 1..4 : u[5 + i] = t[i])
  OBVIOUS
<1> HIDE DEF s, t, u
<1>5. /\ Len(u) = Len(s) + Len(t)
      /\ \A i \in 1..Len(s) : u[i] = s[i]
      /\ \A i \in 1..Len(t) : u[Len(s) + i] = t[i]
  BY <1>3, <1>4
<1>6. s \o t = u
  BY <1>2, <1>5, ConcatIs
<1> QED
  BY <1>6 DEF s, t, u

\* The five bytes before the data, as either side writes them, and with the four at
\* the beginning of the data.
LEMMA ClientPrefix ==
    ASSUME NEW type, NEW n
    PROVE  (<<Byte(type)>> \o WriteShort(RequestID)) \o <<Byte(SUCCESS), Byte(n)>> =
               <<Byte(type), Byte(0), Byte(120), Byte(0), Byte(n)>>
<1>1. WriteShort(RequestID) = <<Byte(0), Byte(120)>>
  BY DEF WriteShort, RequestID
<1>2. (<<Byte(type)>> \o <<Byte(0), Byte(120)>>) \o <<Byte(0), Byte(n)>> =
          <<Byte(type), Byte(0), Byte(120), Byte(0), Byte(n)>>
  <2>1. <<Byte(type)>> \o <<Byte(0), Byte(120)>> = <<Byte(type), Byte(0), Byte(120)>>
    BY Three
  <2>2. <<Byte(type), Byte(0), Byte(120)>> \o <<Byte(0), Byte(n)>> =
            <<Byte(type), Byte(0), Byte(120), Byte(0), Byte(n)>>
    BY Five
  <2> QED
    BY <2>1, <2>2
<1> QED
  BY <1>1, <1>2 DEF SUCCESS

LEMMA ServerPrefix ==
    ASSUME NEW type, NEW n
    PROVE  ((<<Byte(type)>> \o bigEndianAddShortToBytes(RequestID)) \o <<Byte(SUCCESS)>>) \o <<Byte(n)>> =
               <<Byte(type), Byte(0), Byte(120), Byte(0), Byte(n)>>
<1>1. bigEndianAddShortToBytes(RequestID) = <<Byte(0), Byte(120)>>
  BY DEF bigEndianAddShortToBytes, RequestID
<1>2. (<<Byte(type)>> \o <<Byte(0), Byte(120)>>) \o <<Byte(0), Byte(n)>> =
          <<Byte(type), Byte(0), Byte(120), Byte(0), Byte(n)>>
  <2>1. <<Byte(type)>> \o <<Byte(0), Byte(120)>> = <<Byte(type), Byte(0), Byte(120)>>
    BY Three
  <2>2. <<Byte(type), Byte(0), Byte(120)>> \o <<Byte(0), Byte(n)>> =
            <<Byte(type), Byte(0), Byte(120), Byte(0), Byte(n)>>
    BY Five
  <2> QED
    BY <2>1, <2>2
<1>3. ((<<Byte(type)>> \o <<Byte(0), Byte(120)>>) \o <<Byte(0)>>) \o <<Byte(n)>> =
          (<<Byte(type)>> \o <<Byte(0), Byte(120)>>) \o <<Byte(0), Byte(n)>>
  <2>1. IsSeq(<<Byte(type)>>) /\ IsSeq(<<Byte(0), Byte(120)>>) /\ IsSeq(<<Byte(0)>>) /\ IsSeq(<<Byte(n)>>)
    BY Single, Pair, Zenon
  <2>2. IsSeq(<<Byte(type)>> \o <<Byte(0), Byte(120)>>)
    BY <2>1, Concat, Zenon
  <2>3. <<Byte(0)>> \o <<Byte(n)>> = <<Byte(0), Byte(n)>>
    BY Two
  <2>4. PICK x : x = <<Byte(type)>> \o <<Byte(0), Byte(120)>>
    OBVIOUS
  <2>5. Regroups(x, <<Byte(0)>>, <<Byte(n)>>)
    BY <2>1, <2>2, <2>4, Associative
  <2> QED
    BY <2>3, <2>4, <2>5 DEF Regroups
<1> QED
  BY <1>1, <1>2, <1>3 DEF SUCCESS

LEMMA HeaderParts ==
    ASSUME NEW type, NEW alg, NEW n, NEW len
    PROVE  <<Byte(type), Byte(0), Byte(120), Byte(0), Byte(n)>>
               \o (<<Byte(1), Byte(alg)>> \o WriteShort(len)) = Header(type, alg, n, len)
<1>1. WriteShort(len) = <<Byte(High(len)), Byte(len)>>
  BY DEF WriteShort, High
<1>2. <<Byte(1), Byte(alg)>> \o <<Byte(High(len)), Byte(len)>> =
          <<Byte(1), Byte(alg), Byte(High(len)), Byte(len)>>
  BY Four, Zenon
<1>3. <<Byte(type), Byte(0), Byte(120), Byte(0), Byte(n)>>
          \o <<Byte(1), Byte(alg), Byte(High(len)), Byte(len)>> = Header(type, alg, n, len)
  BY Nine DEF Header
<1> QED
  BY <1>1, <1>2, <1>3

\* The device's ID, with its length, and what follows.
Body(deviceID, rest) == (<<Byte(Len(deviceID))>> \o deviceID) \o rest

LEMMA Whole ==
    ASSUME NEW s, IsSeq(s)
    PROVE  SubSeq(s, 1, Len(s)) = s
<1> PICK S : s \in Seq(S)
  BY DEF IsSeq
<1> QED
  BY SubSeqFull

LEMMA ClientWraps ==
    ASSUME NEW type, NEW alg \in Algorithms,
           NEW deviceID, IsSeq(deviceID), Len(deviceID) \in 5..25,
           NEW field, IsSeq(field), 32 = Len(field)
    PROVE  wrapAuthMessage(type, alg, deviceID, field) =
               WithCRC(Frame(type, alg, Body(deviceID, field)))
<1> DEFINE body == Body(deviceID, field)
           sent == Carried(alg, body)
           n == 4 + Len(KeyField(alg)) + Len(sent)
           p == (<<Byte(type)>> \o WriteShort(RequestID)) \o <<Byte(SUCCESS), Byte(n)>>
           q == <<Byte(1), Byte(alg)>> \o WriteShort(Len(sent))
<1>1. SubSeq(field, 1, NONCE_LENGTH) = field
  BY Whole DEF NONCE_LENGTH
<1>2. wrapMessageHeader(alg, Len(sent)) = q \o KeyField(alg)
  BY DEF wrapMessageHeader, KeyField
<1>3. 4 + (IF alg = ENCRYPTION_ALGORITHM_AES THEN 16 ELSE 0) + Len(sent) = n
  <2>1. Len(KeyField(alg)) = IF alg = ENCRYPTION_ALGORITHM_AES THEN 16 ELSE 0
    BY KeyFieldSeq DEF Algorithms
  <2> QED
    BY <2>1
<1>4. wrapAuthMessage(type, alg, deviceID, field) = WithCRC((p \o (q \o KeyField(alg))) \o sent)
  <2>1. <<Byte(Len(deviceID))>> \o deviceID \o SubSeq(field, 1, NONCE_LENGTH) = body
    BY <1>1 DEF Body
  <2>2. (IF alg = ENCRYPTION_ALGORITHM_AES THEN Encrypt(body, RootKey(KeyID)) ELSE body) = sent
    BY DEF Carried
  <2> HIDE DEF body, sent, n, q
  <2> QED
    BY <1>2, <1>3, <2>1, <2>2, Zenon DEF wrapAuthMessage
<1>5. p \o (q \o KeyField(alg)) = (p \o q) \o KeyField(alg)
  <2>1. IsSeq(p) /\ IsSeq(q)
    <3>1. WriteShort(RequestID) = <<Byte(0), Byte(120)>>
      BY DEF WriteShort, RequestID
    <3>2. WriteShort(Len(sent)) = <<Byte(High(Len(sent))), Byte(Len(sent))>>
      BY DEF WriteShort, High
    <3>3. /\ IsSeq(<<Byte(type)>>) /\ IsSeq(WriteShort(RequestID)) /\ IsSeq(WriteShort(Len(sent)))
          /\ IsSeq(<<Byte(SUCCESS), Byte(n)>>) /\ IsSeq(<<Byte(1), Byte(alg)>>)
      <4> HIDE DEF n, sent
      <4>1. IsSeq(<<Byte(type)>>)
        BY Single
      <4>2. IsSeq(<<Byte(0), Byte(120)>>)
        BY Pair
      <4>3. IsSeq(<<Byte(High(Len(sent))), Byte(Len(sent))>>)
        BY Pair
      <4>4. IsSeq(<<Byte(SUCCESS), Byte(n)>>)
        BY Pair
      <4>5. IsSeq(<<Byte(1), Byte(alg)>>)
        BY Pair
      <4> QED
        BY <3>1, <3>2, <4>1, <4>2, <4>3, <4>4, <4>5
    <3>4. IsSeq(<<Byte(type)>> \o WriteShort(RequestID))
      BY <3>3, Concat, Zenon
    <3> QED
      BY <3>3, <3>4, Concat, Zenon
  <2>2. IsSeq(KeyField(alg))
    BY KeyFieldSeq
  <2> HIDE DEF p, q
  <2>3. Regroups(p, q, KeyField(alg))
    BY <2>1, <2>2, Associative
  <2> QED
    BY <2>3 DEF Regroups
<1>6. p \o q = Header(type, alg, n, Len(sent))
  <2>1. p = <<Byte(type), Byte(0), Byte(120), Byte(0), Byte(n)>>
    <3> HIDE DEF n
    <3> QED
      BY ClientPrefix
  <2> HIDE DEF p, n, sent
  <2> QED
    BY <2>1, HeaderParts
<1> HIDE DEF p, q
<1> QED
  BY <1>4, <1>5, <1>6 DEF Frame

LEMMA JoinedLength ==
    ASSUME NEW q, NEW w, NEW k, NEW c, IsSeq(q), IsSeq(w), IsSeq(k), IsSeq(c)
    PROVE  /\ IsSeq(q \o w) /\ IsSeq((q \o w) \o k) /\ IsSeq(((q \o w) \o k) \o c)
           /\ Len(((q \o w) \o k) \o c) = Len(q) + Len(w) + Len(k) + Len(c)
<1>1. PICK x : x = q \o w
  OBVIOUS
<1>2. IsSeq(x) /\ Len(x) = Len(q) + Len(w)
  BY <1>1, Concat
<1>3. PICK y : y = x \o k
  OBVIOUS
<1>4. IsSeq(y) /\ Len(y) = Len(q) + Len(w) + Len(k)
  BY <1>2, <1>3, Concat
<1>5. IsSeq(y \o c) /\ Len(y \o c) = Len(q) + Len(w) + Len(k) + Len(c)
  BY <1>4, Concat
<1> QED
  BY <1>1, <1>2, <1>3, <1>4, <1>5

RegroupsFour(p, x, k, c) == p \o ((x \o k) \o c) = ((p \o x) \o k) \o c

LEMMA AssociativeFour ==
    ASSUME NEW p, NEW x, NEW k, NEW c, IsSeq(p), IsSeq(x), IsSeq(k), IsSeq(c)
    PROVE  RegroupsFour(p, x, k, c)
<1>1. IsSeq(x \o k)
  BY ConcatSeq
<1>2. PICK y : y = x \o k
  OBVIOUS
<1>3. Regroups(p, y, c)
  BY <1>1, <1>2, Associative
<1>4. Regroups(p, x, k)
  BY Associative
<1>5. p \o (y \o c) = (p \o y) \o c
  BY <1>3 DEF Regroups
<1>6. p \o y = (p \o x) \o k
  BY <1>2, <1>4 DEF Regroups
<1> QED
  BY <1>2, <1>5, <1>6 DEF RegroupsFour

\* What wrapReply joins from behind.
ServerJoins(alg, q, w, c) ==
    q \o (IF alg = ENCRYPTION_ALGORITHM_AES THEN (w \o KeyID) \o c ELSE w \o c) =
        ((q \o w) \o KeyField(alg)) \o c

LEMMA ServerData ==
    ASSUME NEW alg \in Algorithms, NEW q, NEW w, NEW c, IsSeq(q), IsSeq(w), IsSeq(c)
    PROVE  ServerJoins(alg, q, w, c)
<1>1. CASE alg = ENCRYPTION_ALGORITHM_AES
  <2>1. KeyField(alg) = KeyID /\ IsSeq(KeyID)
    BY <1>1, KeyFieldSeq
  <2>2. RegroupsFour(q, w, KeyID, c)
    BY <2>1, AssociativeFour
  <2> QED
    BY <1>1, <2>1, <2>2 DEF RegroupsFour, ServerJoins
<1>2. CASE alg # ENCRYPTION_ALGORITHM_AES
  <2>1. KeyField(alg) = <<>>
    BY <1>2 DEF KeyField
  <2>2. IsSeq(q \o w)
    BY Concat
  <2>3. (q \o w) \o <<>> = q \o w
    BY <2>2, EmptyRight
  <2>4. Regroups(q, w, c)
    BY Associative
  <2> QED
    BY <1>2, <2>1, <2>3, <2>4 DEF Regroups, ServerJoins
<1> QED
  BY <1>1, <1>2

LEMMA ServerWraps ==
    ASSUME NEW type, NEW alg \in Algorithms,
           NEW body, IsSeq(body), Len(body) \in 1..95, NEW known, KeyID \in known
    PROVE  wrapReply(type, alg, body, known) = WithCRC(Frame(type, alg, body))
<1>1. PICK c : c = Carried(alg, body)
  OBVIOUS
<1>2. PICK n : n = 4 + Len(KeyField(alg)) + Len(c)
  OBVIOUS
<1>3. PICK q : q = <<Byte(1), Byte(alg)>>
  OBVIOUS
<1>4. PICK w : w = WriteShort(Len(c))
  OBVIOUS
<1>5. PICK p : p = <<Byte(type), Byte(0), Byte(120), Byte(0), Byte(n)>>
  OBVIOUS
<1>6. PICK k : k = KeyField(alg)
  OBVIOUS
<1>7. PICK authData : authData = ((q \o w) \o k) \o c
  OBVIOUS
<1>8. wrapReply(type, alg, body, known) =
          WithCRC((wrapMessageStatus(type, SUCCESS) \o <<Byte(Len(authData))>>) \o authData)
  <2>1. IsSeq(q) /\ IsSeq(w) /\ IsSeq(c)
    <3>1. w = <<Byte(High(Len(c))), Byte(Len(c))>>
      BY <1>4 DEF WriteShort, High
    <3>2. IsSeq(w)
      BY <3>1, Pair
    <3> QED
      BY <1>1, <1>3, <3>2, Pair, CarriedSeq
  <2>2. ServerJoins(alg, q, w, c)
    BY <2>1, ServerData
  <2>3. authData = <<Byte(1), Byte(alg)>> \o
                       IF alg = ENCRYPTION_ALGORITHM_AES
                       THEN WriteShort(Len(Encrypt(body, RootKey(KeyID)))) \o KeyID
                                \o Encrypt(body, RootKey(KeyID))
                       ELSE WriteShort(Len(body)) \o body
    <3>1. CASE alg = ENCRYPTION_ALGORITHM_AES
      BY <1>1, <1>3, <1>4, <1>6, <1>7, <2>2, <3>1 DEF Carried, ServerJoins
    <3>2. CASE alg # ENCRYPTION_ALGORITHM_AES
      BY <1>1, <1>3, <1>4, <1>6, <1>7, <2>2, <3>2 DEF Carried, ServerJoins
    <3> QED
      BY <3>1, <3>2
  <2> QED
    BY <2>3, Zenon DEF wrapReply
<1>9. IsSeq(q) /\ 2 = Len(q) /\ IsSeq(w) /\ 2 = Len(w) /\ IsSeq(c) /\ IsSeq(k) /\ IsSeq(p)
  <2>1. w = <<Byte(High(Len(c))), Byte(Len(c))>>
    BY <1>4 DEF WriteShort, High
  <2>2. p \in Seq({Byte(type), Byte(0), Byte(120), Byte(n)})
    BY <1>5
  <2>3. IsSeq(p)
    BY <2>2 DEF IsSeq
  <2>4. IsSeq(w) /\ 2 = Len(w)
    BY <2>1, Pair
  <2>5. IsSeq(q) /\ 2 = Len(q)
    BY <1>3, Pair
  <2> QED
    BY <1>1, <1>6, <2>3, <2>4, <2>5, KeyFieldSeq, CarriedSeq
<1>10. IsSeq(q \o w) /\ Len(authData) = n
  <2>1. Len(authData) = Len(q) + Len(w) + Len(k) + Len(c)
    BY <1>7, <1>9, JoinedLength
  <2>2. IsSeq(q \o w)
    BY <1>9, Concat
  <2>3. Len(authData) = 2 + 2 + Len(k) + Len(c)
    BY <1>9, <2>1
  <2>4. 2 + 2 + Len(k) + Len(c) = n
    BY <1>2, <1>6
  <2> QED
    BY <2>2, <2>3, <2>4
<1>11. wrapMessageStatus(type, SUCCESS) \o <<Byte(n)>> = p
  BY <1>5, ServerPrefix DEF wrapMessageStatus
<1>12. p \o (q \o w) = Header(type, alg, n, Len(c))
  BY <1>3, <1>4, <1>5, HeaderParts
<1>13. p \o authData = ((p \o (q \o w)) \o k) \o c
  <2>1. PICK x : x = q \o w
    OBVIOUS
  <2>2. IsSeq(p) /\ IsSeq(x) /\ IsSeq(k) /\ IsSeq(c)
    BY <1>9, <1>10, <2>1
  <2>3. RegroupsFour(p, x, k, c)
    BY <2>2, AssociativeFour
  <2> QED
    BY <1>7, <2>1, <2>3 DEF RegroupsFour
<1>14. wrapReply(type, alg, body, known) = WithCRC((Header(type, alg, n, Len(c)) \o k) \o c)
  BY <1>8, <1>10, <1>11, <1>12, <1>13
<1> QED
  BY <1>1, <1>2, <1>6, <1>14 DEF Frame

\* A frame in its parts, the last two of which have the lengths l and m.
FrameIs(g, type, alg, body, h, k, c, l, m) ==
    /\ k = KeyField(alg) /\ c = Carried(alg, body) /\ h = Header(type, alg, 4 + l + m, m)
    /\ IsSeq(g) /\ IsSeq(h) /\ IsSeq(k) /\ IsSeq(c) /\ g = (h \o k) \o c
    /\ LenIs(h, 9) /\ LenIs(k, l) /\ LenIs(c, m) /\ LenIs(g, (9 + l) + m)
    /\ l \in {0, 16} /\ m \in 1..96
    /\ \A i \in 1..9 : g[i] = h[i]

LEMMA FrameParts ==
    ASSUME NEW type, NEW alg \in Algorithms, NEW body, IsSeq(body), Len(body) \in 1..95
    PROVE  \E h, k, c, l, m : FrameIs(Frame(type, alg, body), type, alg, body, h, k, c, l, m)
<1>1. PICK g : g = Frame(type, alg, body)
  OBVIOUS
<1>2. PICK k : k = KeyField(alg)
  OBVIOUS
<1>3. PICK c : c = Carried(alg, body)
  OBVIOUS
<1>4. PICK l \in {0, 16} : l = Len(k)
  BY <1>2, CarriedSeq
<1>5. PICK m \in 1..96 : m = Len(c)
  BY <1>3, CarriedSeq
<1>6. PICK h : h = Header(type, alg, 4 + l + m, m)
  OBVIOUS
<1>7. IsSeq(h) /\ LenIs(h, 9)
  BY <1>6, HeaderSeq DEF LenIs
<1>8. IsSeq(k) /\ IsSeq(c) /\ LenIs(k, l) /\ LenIs(c, m)
  BY <1>2, <1>3, <1>4, <1>5, KeyFieldSeq, CarriedSeq DEF LenIs
<1>9. g = (h \o k) \o c
  BY <1>1, <1>2, <1>3, <1>4, <1>5, <1>6 DEF Frame
<1>10. PICK x : x = h \o k
  OBVIOUS
<1>11. LenIs(x, 9 + l)
  BY <1>7, <1>8, <1>10, JoinedLen
<1>12. LenIs(g, (9 + l) + m)
  BY <1>8, <1>9, <1>10, <1>11, JoinedLen
<1>13. IsSeq(g)
  BY <1>12 DEF LenIs
<1>14. \A i \in 1..9 : g[i] = h[i]
  <2>1. Begins(x \o c, x, 9 + l)
    BY <1>8, <1>11, FirstOfJoined
  <2>2. Begins(h \o k, h, 9)
    BY <1>7, <1>8, FirstOfJoined
  <2>3. g = x \o c
    BY <1>9, <1>10
  <2>4. Begins(g, x, 9 + l) /\ Begins(x, h, 9)
    BY <1>10, <2>1, <2>2, <2>3
  <2>5. \A i \in 1..9 : i \in 1..9 + l
    BY <1>4
  <2> QED
    BY <2>4, <2>5 DEF Begins
<1>15. FrameIs(g, type, alg, body, h, k, c, l, m)
  BY <1>2, <1>3, <1>4, <1>5, <1>6, <1>7, <1>8, <1>9, <1>12, <1>13, <1>14 DEF FrameIs
<1> QED
  BY <1>1, <1>15

--------------------------------------------------------------------------------
(* What a receiver finds in a frame. *)

LEMMA CRCParts ==
    ASSUME NEW g, IsSeq(g), NEW f, f = WithCRC(g)
    PROVE  /\ IsSeq(f) /\ Len(f) = Len(g) + 4
           /\ \A i \in 1..Len(g) : f[i] = g[i] /\ At(f, i) = g[i]
           /\ SubSeq(f, 1, Len(f) - 4) = g
           /\ CRCRight(f)
<1>1. PICK c : c = getCRC32(g)
  OBVIOUS
<1>2. IsSeq(c) /\ 4 = Len(c)
  BY <1>1, CRCSeq
<1>3. f = g \o c
  BY <1>1 DEF WithCRC
<1>4. IsSeq(f) /\ Len(f) = Len(g) + 4
  <2>1. IsSeq(g \o c) /\ Len(g \o c) = Len(g) + Len(c)
    BY <1>2, Concat
  <2> QED
    BY <1>2, <1>3, <2>1
<1>5. Len(g) \in Nat /\ Len(f) - 4 = Len(g)
  BY <1>4, SeqLength
<1>6. SubSeq(f, 1, Len(f) - 4) = g
  <2>1. SubSeq(f, 1, Len(g)) = g
    BY <1>2, <1>3, CutFirst
  <2> QED
    BY <1>5, <2>1
<1>7. SubSeq(f, Len(f) - 3, Len(f)) = c
  <2>1. PICK n \in Nat : n = Len(g)
    BY <1>5
  <2>2. LenIs(g, n) /\ LenIs(c, 4)
    BY <1>2, <2>1 DEF LenIs
  <2>3. IsCut(f, n + 1, n + 4, c)
    BY <1>3, <2>2, CutFrom
  <2>4. Len(f) - 3 = n + 1 /\ Len(f) = n + 4
    BY <1>4, <2>1
  <2> QED
    BY <2>3, <2>4 DEF IsCut
<1>8. \A i \in 1..Len(g) : f[i] = g[i] /\ At(f, i) = g[i]
  <2> SUFFICES ASSUME NEW i \in 1..Len(g)
               PROVE  f[i] = g[i] /\ At(f, i) = g[i]
    OBVIOUS
  <2>1. f[i] = g[i]
    BY <1>2, <1>3, ConcatFirst
  <2>2. i \in DOMAIN f
    <3>1. DOMAIN f = 1..Len(f)
      BY <1>4, SeqLength
    <3> QED
      BY <1>4, <1>5, <3>1
  <2> QED
    BY <2>1, <2>2 DEF At
<1> QED
  BY <1>1, <1>4, <1>6, <1>7, <1>8 DEF CRCRight

\* f is the frame of a message of the given type.
IsFrameOf(f, type, alg, body) ==
    /\ At(f, 1) = Byte(type) /\ f[1] = Byte(type) /\ At(f, 4) = Byte(0)
    /\ At(f, 5) = <<"byte", Len(f) - 9>>
    /\ At(f, 6) = Byte(1) /\ At(f, 7) = Byte(alg)
    /\ CRCRight(f)
    /\ parseBigEndianBytes(SubSeq(f, 8, 9)) =
           Len(f) - 13 - (IF alg = ENCRYPTION_ALGORITHM_AES THEN 16 ELSE 0)
    /\ alg = ENCRYPTION_ALGORITHM_AES =>
           /\ SubSeq(f, 10, 25) = KeyID
           /\ SubSeq(f, 26, Len(f) - 4) = Encrypt(body, RootKey(KeyID))
    /\ alg # ENCRYPTION_ALGORITHM_AES =>
           /\ SubSeq(f, 10, Len(f) - 4) = body
           /\ SubSeq(f, 10, Len(f)) = body \o getCRC32(SubSeq(f, 1, Len(f) - 4))

LEMMA FrameRight ==
    ASSUME NEW type, NEW alg \in Algorithms, NEW body, IsSeq(body), Len(body) \in 1..95,
           NEW f, f = WithCRC(Frame(type, alg, body))
    PROVE  IsFrameOf(f, type, alg, body)
<1>1. PICK g : g = Frame(type, alg, body)
  OBVIOUS
<1>2. PICK h, k, c, l, m : FrameIs(g, type, alg, body, h, k, c, l, m)
  BY <1>1, FrameParts
<1>3. /\ k = KeyField(alg) /\ c = Carried(alg, body) /\ h = Header(type, alg, 4 + l + m, m)
      /\ IsSeq(g) /\ IsSeq(h) /\ IsSeq(k) /\ IsSeq(c) /\ g = (h \o k) \o c
  BY <1>2 DEF FrameIs
<1>4. LenIs(h, 9) /\ LenIs(k, l) /\ LenIs(c, m) /\ LenIs(g, (9 + l) + m)
  BY <1>2 DEF FrameIs
<1>5. l \in {0, 16} /\ m \in 1..96
  BY <1>2 DEF FrameIs
<1>6. /\ IsSeq(f) /\ CRCRight(f) /\ SubSeq(f, 1, Len(f) - 4) = g
      /\ \A i \in 1..9 : f[i] = h[i] /\ At(f, i) = h[i]
  <2>1. \A i \in 1..9 : i \in 1..Len(g)
    <3>1. Len(g) = (9 + l) + m
      BY <1>4 DEF LenIs
    <3> QED
      BY <1>5, <3>1
  <2>2. \A i \in 1..9 : g[i] = h[i]
    BY <1>2 DEF FrameIs
  <2>3. \A i \in 1..Len(g) : f[i] = g[i] /\ At(f, i) = g[i]
    BY <1>1, <1>3, CRCParts
  <2>4. IsSeq(f) /\ CRCRight(f) /\ SubSeq(f, 1, Len(f) - 4) = g
    BY <1>1, <1>3, CRCParts
  <2> QED
    BY <2>1, <2>2, <2>3, <2>4
<1>7. PICK n \in 14..125 : n = Len(f) /\ n = 13 + l + m
  <2>1. Len(f) = Len(g) + 4
    BY <1>1, <1>3, CRCParts
  <2>2. Len(g) = (9 + l) + m
    BY <1>4 DEF LenIs
  <2>3. Len(f) = 13 + l + m
    BY <1>5, <2>1, <2>2
  <2>4. 13 + l + m \in 14..125
    BY <1>5
  <2> QED
    BY <2>3, <2>4
<1>8. /\ h[1] = Byte(type) /\ h[4] = Byte(0) /\ h[5] = Byte(4 + l + m) /\ h[6] = Byte(1)
      /\ h[7] = Byte(alg) /\ h[8] = Byte(High(m)) /\ h[9] = Byte(m)
  BY <1>3, HeaderSeq
<1>9. /\ At(f, 1) = Byte(type) /\ f[1] = Byte(type) /\ At(f, 4) = Byte(0)
      /\ At(f, 5) = Byte(4 + l + m) /\ At(f, 6) = Byte(1) /\ At(f, 7) = Byte(alg)
      /\ f[8] = Byte(High(m)) /\ f[9] = Byte(m)
  BY <1>6, <1>8
<1>10. At(f, 5) = <<"byte", n - 9>>
  <2>1. n - 9 \in 0..127 /\ 4 + l + m = n - 9
    BY <1>5, <1>7
  <2>2. Byte(n - 9) = <<"byte", n - 9>>
    BY <2>1, SmallByte
  <2> QED
    BY <1>9, <2>1, <2>2
<1>11. parseBigEndianBytes(SubSeq(f, 8, 9)) = m
  <2>1. PICK s : s = SubSeq(f, 8, 9)
    OBVIOUS
  <2>2. s[1] = Byte(High(m)) /\ s[2] = Byte(m)
    <3>1. 8 \in Nat \ {0} /\ 9 \in Nat /\ 9 <= Len(f) /\ 8 <= 9 + 1
      BY <1>7
    <3>2. \A i \in 1..9 - 8 + 1 : SubSeq(f, 8, 9)[i] = f[8 + i - 1]
      BY <1>6, <3>1, Cut
    <3>3. SubSeq(f, 8, 9)[1] = f[8] /\ SubSeq(f, 8, 9)[2] = f[9]
      BY <3>2
    <3> QED
      BY <1>9, <2>1, <3>3
  <2>3. parseBigEndianBytes(s) = parseBigEndianBytes(WriteShort(m))
    <3>1. WriteShort(m)[1] = Byte(High(m)) /\ WriteShort(m)[2] = Byte(m)
      BY DEF WriteShort, High
    <3> QED
      BY <2>2, <3>1, Zenon DEF parseBigEndianBytes
  <2>4. IsShort(m)
    BY <1>5 DEF IsShort
  <2>5. parseBigEndianBytes(WriteShort(m)) = m
    BY <2>4, Shorts
  <2> QED
    BY <2>1, <2>3, <2>5
<1>12. PICK r : r = getCRC32(g)
  OBVIOUS
<1>13. IsSeq(r) /\ LenIs(r, 4)
  BY <1>12, CRCSeq DEF LenIs
<1>14. f = ((h \o k) \o c) \o r
  BY <1>1, <1>3, <1>12 DEF WithCRC
<1>15. SubSeq(f, 10 + l, n - 4) = c
  <2>1. PICK x : x = h \o k
    OBVIOUS
  <2>2. LenIs(x, 9 + l)
    BY <1>4, <2>1, JoinedLen
  <2>4. IsCut((x \o c) \o r, (9 + l) + 1, (9 + l) + m, c)
    BY <1>4, <1>13, <2>2, CutBetween
  <2>5. (9 + l) + 1 = 10 + l /\ (9 + l) + m = n - 4
    BY <1>5, <1>7
  <2> QED
    BY <1>14, <2>1, <2>4, <2>5 DEF IsCut
<1>16. CASE alg = ENCRYPTION_ALGORITHM_AES
  <2>1. k = KeyID /\ l = 16 /\ c = Encrypt(body, RootKey(KeyID))
    BY <1>3, <1>4, <1>16, KeyFieldSeq DEF Carried, LenIs
  <2>2. SubSeq(f, 10, 25) = k
    <3>1. PICK y : y = c \o r
      OBVIOUS
    <3>2. IsSeq(y)
      BY <1>3, <1>13, <3>1, ConcatSeq
    <3>3. f = (h \o k) \o y
      <4>1. PICK x : x = h \o k
        OBVIOUS
      <4>2. IsSeq(x)
        BY <1>3, <4>1, ConcatSeq
      <4>3. Regroups(x, c, r)
        BY <1>3, <1>13, <4>2, Associative
      <4> QED
        BY <1>14, <3>1, <4>1, <4>3 DEF Regroups
    <3>4. IsCut((h \o k) \o y, 9 + 1, 9 + l, k)
      BY <1>4, <3>2, CutBetween
    <3>5. 9 + 1 = 10 /\ 9 + l = 25
      BY <2>1
    <3> QED
      BY <3>3, <3>4, <3>5 DEF IsCut
  <2>3. 10 + l = 26 /\ m = n - 13 - 16
    BY <1>5, <1>7, <2>1
  <2>4. SubSeq(f, 26, n - 4) = c
    BY <1>15, <2>3
  <2> QED
    BY <1>6, <1>7, <1>9, <1>10, <1>11, <1>16, <2>1, <2>2, <2>3, <2>4 DEF IsFrameOf
<1>17. CASE alg # ENCRYPTION_ALGORITHM_AES
  <2>1. k = <<>> /\ l = 0 /\ c = body
    BY <1>3, <1>4, <1>17, KeyFieldSeq DEF Carried, Algorithms, LenIs
  <2>2. SubSeq(f, 10, n) = c \o r
    <3>1. PICK y : y = c \o r
      OBVIOUS
    <3>3. LenIs(y, m + 4)
      BY <1>4, <1>13, <3>1, JoinedLen
    <3>4. f = h \o y
      <4>1. h \o k = h
        BY <1>3, <2>1, EmptyRight
      <4>2. Regroups(h, c, r)
        BY <1>3, <1>13, Associative
      <4> QED
        BY <1>14, <3>1, <4>1, <4>2 DEF Regroups
    <3>5. IsCut(h \o y, 9 + 1, 9 + (m + 4), y)
      BY <1>4, <3>3, CutFrom
    <3>6. 9 + 1 = 10 /\ 9 + (m + 4) = n
      BY <1>5, <1>7, <2>1
    <3> QED
      BY <3>1, <3>4, <3>5, <3>6 DEF IsCut
  <2>3. 10 + l = 10 /\ m = n - 13 - 0
    BY <1>5, <1>7, <2>1
  <2>4. SubSeq(f, 10, n - 4) = c
    BY <1>15, <2>3
  <2> QED
    BY <1>6, <1>7, <1>9, <1>10, <1>11, <1>12, <1>17, <2>1, <2>2, <2>3, <2>4 DEF IsFrameOf
<1> QED
  BY <1>16, <1>17

--------------------------------------------------------------------------------
(* What the client sends and the server takes apart. *)

LEMMA AlgorithmBytes ==
    ASSUME NEW alg \in Algorithms
    PROVE  /\ Byte(alg) = Byte(ENCRYPTION_ALGORITHM_AES) <=> alg = ENCRYPTION_ALGORITHM_AES
           /\ Byte(alg) = Byte(ENCRYPTION_ALGORITHM_DEFAULT) <=> alg # ENCRYPTION_ALGORITHM_AES
<1>1. Byte(0) = <<"byte", 0>> /\ Byte(1) = <<"byte", 1>>
  BY SmallByte
<1>2. <<"byte", 0>>[2] = 0 /\ <<"byte", 1>>[2] = 1
  OBVIOUS
<1>3. Byte(0) # Byte(1)
  BY <1>1, <1>2
<1> QED
  BY <1>3 DEF Algorithms, ENCRYPTION_ALGORITHM_DEFAULT, ENCRYPTION_ALGORITHM_AES

\* A device's ID of n bytes.
IsDeviceID(deviceID, n) == n \in DeviceIDLengths /\ LenIs(deviceID, n)

LEMMA BodyParts ==
    ASSUME NEW deviceID, NEW n, IsDeviceID(deviceID, n), NEW rest, NEW m, LenIs(rest, m),
           NEW body, body = Body(deviceID, rest)
    PROVE  /\ LenIs(body, (1 + n) + m)
           /\ body[1][2] = n
           /\ IsCut(body, 2, 1 + n, deviceID)
           /\ IsCut(body, (1 + n) + 1, (1 + n) + m, rest)
<1>1. PICK e : e = <<Byte(n)>>
  OBVIOUS
<1>2. LenIs(e, 1) /\ e[1] = Byte(n) /\ IsSeq(rest) /\ Len(deviceID) = n
  BY <1>1, Single DEF LenIs, IsDeviceID
<1>3. body = (e \o deviceID) \o rest
  BY <1>1, <1>2 DEF Body
<1>4. PICK a : a = e \o deviceID
  OBVIOUS
<1>5. LenIs(a, 1 + n) /\ Begins(a, e, 1)
  BY <1>2, <1>4, JoinedLen, FirstOfJoined DEF IsDeviceID
<1>6. LenIs(body, (1 + n) + m) /\ Begins(body, a, 1 + n)
  BY <1>3, <1>4, <1>5, JoinedLen, FirstOfJoined
<1>7. body[1][2] = n
  <2>1. n \in 0..127 /\ 1 \in 1..1 + n /\ 1 \in 1..1
    BY DEF IsDeviceID, DeviceIDLengths
  <2>2. body[1] = Byte(n)
    BY <1>2, <1>5, <1>6, <2>1 DEF Begins
  <2>3. Byte(n) = <<"byte", n>>
    BY <2>1, SmallByte
  <2> QED
    BY <2>2, <2>3
<1>8. IsCut(body, 1 + 1, 1 + n, deviceID)
  BY <1>2, <1>3, CutBetween DEF IsDeviceID
<1>9. IsCut(body, (1 + n) + 1, (1 + n) + m, rest)
  BY <1>3, <1>4, <1>5, CutFrom
<1> QED
  BY <1>6, <1>7, <1>8, <1>9

\* A message the server opens to.
RequestOf(f, body) ==
    [type |-> f[1], deviceID |-> SubSeq(body, 2, 1 + body[1][2]),
     field |-> SubSeq(body, (1 + body[1][2]) + 1, Len(body))]

LEMMA Opened ==
    ASSUME NEW type \in {ACCESS_AUTH_REQUEST, ACCESS_AUTH_CLIENT_PROOF}, NEW alg \in Algorithms,
           NEW body, IsSeq(body), NEW f, IsFrameOf(f, type, alg, body),
           NEW known, KeyID \in known
    PROVE  unwrapAuthMessage(f, known) = {RequestOf(f, body)}
<1> DEFINE aes == At(f, 7) = Byte(ENCRYPTION_ALGORITHM_AES)
           fixedBodies ==
               IF ~aes THEN {SubSeq(f, 10, Len(f) - 4)}
               ELSE IF SubSeq(f, 10, 25) \in known
               THEN Decrypt(SubSeq(f, 26, Len(f) - 4), RootKey(SubSeq(f, 10, 25)))
               ELSE {}
<1>1. aes <=> alg = ENCRYPTION_ALGORITHM_AES
  BY AlgorithmBytes DEF IsFrameOf
<1>2. fixedBodies = {body}
  <2>1. CASE alg = ENCRYPTION_ALGORITHM_AES
    <3>1. SubSeq(f, 10, 25) = KeyID /\ SubSeq(f, 26, Len(f) - 4) = Encrypt(body, RootKey(KeyID))
      BY <2>1 DEF IsFrameOf
    <3>2. Decrypt(Encrypt(body, RootKey(KeyID)), RootKey(KeyID)) = {body}
      BY Encrypted
    <3> QED
      BY <1>1, <2>1, <3>1, <3>2
  <2>2. CASE alg # ENCRYPTION_ALGORITHM_AES
    BY <1>1, <2>2 DEF IsFrameOf
  <2> QED
    BY <2>1, <2>2
<1>3. /\ At(f, 1) \in {Byte(ACCESS_AUTH_REQUEST), Byte(ACCESS_AUTH_CLIENT_PROOF)}
      /\ At(f, 4) = Byte(SUCCESS) /\ At(f, 5) = <<"byte", Len(f) - 9>> /\ CRCRight(f)
      /\ At(f, 6) = Byte(1)
  BY DEF IsFrameOf, SUCCESS
<1>4. parseBigEndianBytes(SubSeq(f, 8, 9)) = Len(f) - 13 - IF aes THEN 16 ELSE 0
  <2> HIDE DEF aes
  <2> QED
    BY <1>1 DEF IsFrameOf
<1>5. unwrapAuthMessage(f, known) = {RequestOf(f, b) : b \in fixedBodies}
  BY <1>3, <1>4 DEF unwrapAuthMessage, RequestOf
<1> HIDE DEF fixedBodies
<1> QED
  BY <1>2, <1>5

(* The server understands what a client wraps: type, device ID and field, the    *)
(* field being a nonce or a proof, encrypted or not, with whatever key it knows  *)
(* (wrapAuthMessage of the client, unwrapAuthMessage of the server).             *)
THEOREM RequestsUnderstood ==
    ASSUME NEW type \in {ACCESS_AUTH_REQUEST, ACCESS_AUTH_CLIENT_PROOF}, NEW alg \in Algorithms,
           NEW deviceID, NEW n, IsDeviceID(deviceID, n), NEW field, LenIs(field, 32),
           NEW known, KeyID \in known
    PROVE  unwrapAuthMessage(wrapAuthMessage(type, alg, deviceID, field), known) =
               {[type |-> Byte(type), deviceID |-> deviceID, field |-> field]}
<1>1. PICK f : f = wrapAuthMessage(type, alg, deviceID, field)
  OBVIOUS
<1>2. PICK body : body = Body(deviceID, field)
  OBVIOUS
<1>3. /\ LenIs(body, (1 + n) + 32) /\ body[1][2] = n
      /\ IsCut(body, 2, 1 + n, deviceID) /\ IsCut(body, (1 + n) + 1, (1 + n) + 32, field)
  BY <1>2, BodyParts
<1>4. IsSeq(body) /\ Len(body) = (1 + n) + 32
  BY <1>3 DEF LenIs
<1>5. f = WithCRC(Frame(type, alg, body))
  <2>1. /\ IsSeq(deviceID) /\ Len(deviceID) \in 5..25
        /\ IsSeq(field) /\ 32 = Len(field)
    BY DEF IsDeviceID, LenIs, DeviceIDLengths
  <2> QED
    BY <1>1, <1>2, <2>1, ClientWraps
<1>6. IsFrameOf(f, type, alg, body)
  <2>1. (1 + n) + 32 \in 1..95
    BY DEF IsDeviceID, DeviceIDLengths
  <2> QED
    BY <1>4, <1>5, <2>1, FrameRight
<1>7. unwrapAuthMessage(f, known) = {RequestOf(f, body)}
  BY <1>4, <1>6, Opened
<1>8. RequestOf(f, body) = [type |-> Byte(type), deviceID |-> deviceID, field |-> field]
  <2>1. f[1] = Byte(type)
    BY <1>6 DEF IsFrameOf
  <2> QED
    BY <1>3, <1>4, <2>1, Zenon DEF RequestOf, IsCut
<1> QED
  BY <1>1, <1>7, <1>8

--------------------------------------------------------------------------------
(* What the server answers and the client takes apart. *)

\* What the client takes for the message: without encryption the CRC is a part of it.
LEMMA TakenFor ==
    ASSUME NEW type \in {ACCESS_AUTH_RESPONSE, ACCESS_AUTH_SERVER_PROOF}, NEW alg \in Algorithms,
           NEW body, IsSeq(body), NEW f, IsFrameOf(f, type, alg, body)
    PROVE  /\ checkMessage(f) /\ At(f, 6) = Byte(1) /\ f[1] = Byte(type)
           /\ \E t, n : n \in {0, 4} /\ LenIs(t, n) /\ FixedBodies(f) = {body \o t}
<1>1. checkMessage(f) /\ At(f, 6) = Byte(1) /\ f[1] = Byte(type)
  BY DEF IsFrameOf, checkMessage, SUCCESS
<1>2. CASE alg = ENCRYPTION_ALGORITHM_AES
  <2>1. SubSeq(f, 10, 25) = KeyID /\ SubSeq(f, 26, Len(f) - 4) = Encrypt(body, RootKey(KeyID))
    BY <1>2 DEF IsFrameOf
  <2>2. At(f, 7) = Byte(ENCRYPTION_ALGORITHM_AES) /\ At(f, 7) # Byte(ENCRYPTION_ALGORITHM_DEFAULT)
    BY <1>2, AlgorithmBytes DEF IsFrameOf
  <2>3. FixedBodies(f) = Decrypt(Encrypt(body, RootKey(KeyID)), RootKey(KeyID))
    BY <2>1, <2>2, Zenon DEF FixedBodies
  <2>4. FixedBodies(f) = {body}
    BY <2>3, Encrypted
  <2>5. LenIs(<<>>, 0) /\ body \o <<>> = body
    BY EmptyRight DEF LenIs
  <2> QED
    BY <1>1, <2>4, <2>5
<1>3. CASE alg # ENCRYPTION_ALGORITHM_AES
  <2>1. PICK t : t = getCRC32(SubSeq(f, 1, Len(f) - 4))
    OBVIOUS
  <2>2. LenIs(t, 4)
    BY <2>1, CRCSeq DEF LenIs
  <2>3. SubSeq(f, 10, Len(f)) = body \o t
    BY <1>3, <2>1 DEF IsFrameOf
  <2>4. At(f, 7) = Byte(ENCRYPTION_ALGORITHM_DEFAULT) /\ At(f, 7) # Byte(ENCRYPTION_ALGORITHM_AES)
    BY <1>3, AlgorithmBytes DEF IsFrameOf
  <2>5. FixedBodies(f) = {body \o t}
    BY <2>3, <2>4, Zenon DEF FixedBodies
  <2> QED
    BY <1>1, <2>2, <2>5
<1> QED
  BY <1>2, <1>3

\* The messages of the client, from what it takes for one.
ServerProofOf(b) ==
    [deviceID |-> SubSeq(b, 2, 1 + b[1][2]),
     serverProof |-> SubSeq(b, (1 + b[1][2]) + 1, (1 + b[1][2]) + 32)]

ResponseOf(b) ==
    [deviceID |-> SubSeq(b, 2, 1 + b[1][2]),
     salt |-> SubSeq(b, (1 + b[1][2]) + 1, (1 + b[1][2]) + 32),
     iterationCount |-> parseBigEndianBytes(SubSeq(b, (1 + b[1][2]) + 33, (1 + b[1][2]) + 34)),
     serverNonce |-> SubSeq(b, (1 + b[1][2]) + 37, Len(b))]

LEMMA Taken ==
    ASSUME NEW f, checkMessage(f), At(f, 6) = Byte(1), NEW b, FixedBodies(f) = {b}
    PROVE  /\ f[1] = Byte(ACCESS_AUTH_RESPONSE) => unwrapBinaryToAuthMessage(f) = {ResponseOf(b)}
           /\ f[1] # Byte(ACCESS_AUTH_RESPONSE) => unwrapBinaryToAuthMessage(f) = {ServerProofOf(b)}
<1>1. unwrapBinaryToAuthMessage(f) =
          {IF f[1] = Byte(ACCESS_AUTH_RESPONSE) THEN ResponseOf(x) ELSE ServerProofOf(x)
           : x \in FixedBodies(f)}
  BY Zenon DEF unwrapBinaryToAuthMessage, ResponseOf, ServerProofOf
<1> QED
  BY <1>1

LEMMA AnswerTypes ==
    Byte(ACCESS_AUTH_SERVER_PROOF) # Byte(ACCESS_AUTH_RESPONSE)
<1>1. Byte(82) = <<"byte", 82>> /\ Byte(84) = <<"byte", 84>>
  BY SmallByte
<1>2. <<"byte", 82>>[2] = 82 /\ <<"byte", 84>>[2] = 84
  OBVIOUS
<1> QED
  BY <1>1, <1>2 DEF ACCESS_AUTH_SERVER_PROOF, ACCESS_AUTH_RESPONSE

\* What follows the message becomes a part of its last field.
LEMMA BodyAnd ==
    ASSUME NEW deviceID, NEW n, IsDeviceID(deviceID, n), NEW rest, IsSeq(rest),
           NEW t, IsSeq(t), NEW r, r = rest \o t
    PROVE  Body(deviceID, rest) \o t = Body(deviceID, r)
<1>1. PICK a : a = <<Byte(Len(deviceID))>> \o deviceID
  OBVIOUS
<1>2. IsSeq(a)
  <2>1. PICK e : e = <<Byte(Len(deviceID))>>
    OBVIOUS
  <2>2. IsSeq(e)
    BY <2>1, Single
  <2>3. IsSeq(deviceID)
    BY DEF IsDeviceID, LenIs
  <2> QED
    BY <1>1, <2>1, <2>2, <2>3, ConcatSeq
<1>3. Regroups(a, rest, t)
  BY <1>2, Associative
<1> QED
  BY <1>1, <1>3 DEF Regroups, Body

(* The client understands the server's proof, encrypted or not: the device ID    *)
(* and the 32 bytes (AuthServerProofMessage of the server, unwrapping of the     *)
(* client).                                                                      *)
THEOREM ServerProofsUnderstood ==
    ASSUME NEW alg \in Algorithms, NEW deviceID, NEW n, IsDeviceID(deviceID, n),
           NEW serverProof, LenIs(serverProof, 32), NEW known, KeyID \in known
    PROVE  unwrapBinaryToAuthMessage(
               wrapReply(ACCESS_AUTH_SERVER_PROOF, alg, ServerProofBody(deviceID, serverProof), known)) =
               {[deviceID |-> deviceID, serverProof |-> serverProof]}
<1>1. PICK body : body = Body(deviceID, serverProof)
  OBVIOUS
<1>2. ServerProofBody(deviceID, serverProof) = body
  BY <1>1 DEF ServerProofBody, Body
<1>3. PICK f : f = wrapReply(ACCESS_AUTH_SERVER_PROOF, alg, body, known)
  OBVIOUS
<1>4. IsSeq(body) /\ Len(body) \in 1..95
  <2>1. LenIs(body, (1 + n) + 32)
    BY <1>1, BodyParts
  <2>2. (1 + n) + 32 \in 1..95
    BY DEF IsDeviceID, DeviceIDLengths
  <2> QED
    BY <2>1, <2>2 DEF LenIs
<1>5. IsFrameOf(f, ACCESS_AUTH_SERVER_PROOF, alg, body)
  <2>1. f = WithCRC(Frame(ACCESS_AUTH_SERVER_PROOF, alg, body))
    BY <1>3, <1>4, ServerWraps
  <2> QED
    BY <1>4, <2>1, FrameRight
<1>6. PICK t, k : k \in {0, 4} /\ LenIs(t, k) /\ FixedBodies(f) = {body \o t}
  BY <1>4, <1>5, TakenFor
<1>7. checkMessage(f) /\ At(f, 6) = Byte(1) /\ f[1] = Byte(ACCESS_AUTH_SERVER_PROOF)
  BY <1>4, <1>5, TakenFor
<1>8. PICK b : b = body \o t
  OBVIOUS
<1>9. unwrapBinaryToAuthMessage(f) = {ServerProofOf(b)}
  <2>1. FixedBodies(f) = {b}
    BY <1>6, <1>8
  <2> QED
    BY <1>7, <2>1, Taken, AnswerTypes
<1>10. PICK r : r = serverProof \o t
  OBVIOUS
<1>11. LenIs(r, 32 + k)
  BY <1>6, <1>10, JoinedLen
<1>12. b = Body(deviceID, r)
  <2>1. IsSeq(serverProof) /\ IsSeq(t)
    BY <1>6 DEF LenIs
  <2> QED
    BY <1>1, <1>8, <1>10, <2>1, BodyAnd
<1>13. b[1][2] = n /\ IsCut(b, 2, 1 + n, deviceID)
  BY <1>11, <1>12, BodyParts
<1>14. IsCut(b, (1 + n) + 1, (1 + n) + 32, serverProof)
  <2>1. PICK a : a = <<Byte(Len(deviceID))>> \o deviceID
    OBVIOUS
  <2>2. LenIs(a, 1 + n)
    <3>1. PICK e : e = <<Byte(Len(deviceID))>>
      OBVIOUS
    <3>2. LenIs(e, 1)
      BY <3>1, Single DEF LenIs
    <3> QED
      BY <2>1, <3>1, <3>2, JoinedLen DEF IsDeviceID
  <2>3. b = (a \o serverProof) \o t
    BY <1>1, <1>8, <2>1 DEF Body
  <2>4. IsSeq(t)
    BY <1>6 DEF LenIs
  <2> QED
    BY <2>2, <2>3, <2>4, CutBetween
<1>15. ServerProofOf(b) = [deviceID |-> deviceID, serverProof |-> serverProof]
  BY <1>13, <1>14, Zenon DEF ServerProofOf, IsCut
<1> QED
  BY <1>2, <1>3, <1>9, <1>15

\* Six sequences in a row, of which the last are n, 32, 2, 2, 32 and k long.
Six(a, s, c, z, v, t) == ((((a \o s) \o c) \o z) \o v) \o t

\* w is s and then t.
Joined(w, s, t) == w = s \o t

LEMMA SixParts ==
    ASSUME NEW n \in Nat, NEW k \in Nat, NEW a, NEW s, NEW c, NEW z, NEW v, NEW t,
           LenIs(a, n), LenIs(s, 32), LenIs(c, 2), LenIs(z, 2), LenIs(v, 32), LenIs(t, k),
           NEW y, y = Six(a, s, c, z, v, t), NEW w3, Joined(w3, v, t)
    PROVE  /\ LenIs(y, n + 68 + k)
           /\ IsCut(y, n + 1, n + 32, s)
           /\ IsCut(y, n + 33, n + 34, c)
           /\ IsCut(y, n + 37, n + 68 + k, w3)
           /\ \E w : IsSeq(w) /\ Joined(y, a, w)
<1>1. PICK x1 : x1 = a \o s
  OBVIOUS
<1>2. PICK x2 : x2 = x1 \o c
  OBVIOUS
<1>3. PICK x3 : x3 = x2 \o z
  OBVIOUS
<1>4. w3 = v \o t
  BY DEF Joined
<1>5. PICK w2 : w2 = z \o w3
  OBVIOUS
<1>6. PICK w1 : w1 = c \o w2
  OBVIOUS
<1>7. PICK w0 : w0 = s \o w1
  OBVIOUS
<1>8. LenIs(x1, n + 32)
  BY <1>1, JoinedLen
<1>9. LenIs(x2, (n + 32) + 2)
  BY <1>2, <1>8, JoinedLen
<1>10. LenIs(x3, ((n + 32) + 2) + 2)
  BY <1>3, <1>9, JoinedLen
<1>11. LenIs(w3, 32 + k)
  BY <1>4, JoinedLen
<1>12. IsSeq(w3) /\ IsSeq(x1) /\ IsSeq(x2) /\ IsSeq(x3)
  BY <1>8, <1>9, <1>10, <1>11 DEF LenIs
<1>13. IsSeq(a) /\ IsSeq(s) /\ IsSeq(c) /\ IsSeq(z) /\ IsSeq(v) /\ IsSeq(t)
  BY DEF LenIs
<1>14. IsSeq(w2)
  BY <1>5, <1>12, <1>13, ConcatSeq
<1>15. IsSeq(w1)
  BY <1>6, <1>13, <1>14, ConcatSeq
<1>16. IsSeq(w0)
  BY <1>7, <1>13, <1>15, ConcatSeq
<1>17. y = x3 \o w3
  <2>1. Regroups(x3, v, t)
    BY <1>12, <1>13, Associative
  <2> QED
    BY <1>1, <1>2, <1>3, <1>4, <2>1, Zenon DEF Regroups, Six
<1>18. y = (x1 \o c) \o w2
  <2>1. Regroups(x2, z, w3)
    BY <1>12, <1>13, Associative
  <2> QED
    BY <1>2, <1>3, <1>5, <1>17, <2>1 DEF Regroups
<1>19. y = (a \o s) \o w1
  <2>1. Regroups(x1, c, w2)
    BY <1>12, <1>13, <1>14, Associative
  <2> QED
    BY <1>1, <1>6, <1>18, <2>1 DEF Regroups
<1>20. y = a \o w0
  <2>1. Regroups(a, s, w1)
    BY <1>13, <1>15, Associative
  <2> QED
    BY <1>7, <1>19, <2>1 DEF Regroups
<1>21. LenIs(y, n + 68 + k)
  <2>1. LenIs(y, (((n + 32) + 2) + 2) + (32 + k))
    BY <1>10, <1>11, <1>17, JoinedLen
  <2>2. (((n + 32) + 2) + 2) + (32 + k) = n + 68 + k
    OBVIOUS
  <2> QED
    BY <2>1, <2>2
<1>22. IsCut(y, n + 1, n + 32, s)
  BY <1>15, <1>19, CutBetween
<1>23. IsCut(y, n + 33, n + 34, c)
  <2>1. IsCut(y, (n + 32) + 1, (n + 32) + 2, c)
    BY <1>8, <1>14, <1>18, CutBetween
  <2>2. (n + 32) + 1 = n + 33 /\ (n + 32) + 2 = n + 34
    OBVIOUS
  <2> QED
    BY <2>1, <2>2
<1>24. IsCut(y, n + 37, n + 68 + k, w3)
  <2>1. IsCut(y, (((n + 32) + 2) + 2) + 1, (((n + 32) + 2) + 2) + (32 + k), w3)
    BY <1>10, <1>11, <1>17, CutFrom
  <2>2. (((n + 32) + 2) + 2) + 1 = n + 37 /\ (((n + 32) + 2) + 2) + (32 + k) = n + 68 + k
    OBVIOUS
  <2> QED
    BY <2>1, <2>2
<1> QED
  BY <1>16, <1>20, <1>21, <1>22, <1>23, <1>24, Zenon DEF Joined

\* What the proof, the session key and the session's ID are computed over.
LEMMA AuthInfoParts ==
    ASSUME NEW d, NEW n \in Nat, LenIs(d, n), NEW p, LenIs(p, 32), NEW s, LenIs(s, 32),
           NEW c, LenIs(c, 2), NEW v, LenIs(v, 32), NEW y, y = (((d \o p) \o s) \o c) \o v
    PROVE  /\ LenIs(y, n + 98)
           /\ IsCut(y, n + 1, n + 32, p)
           /\ IsCut(y, n + 67, n + 98, v)
<1>1. PICK x1 : x1 = d \o p
  OBVIOUS
<1>2. PICK x2 : x2 = x1 \o s
  OBVIOUS
<1>3. PICK x3 : x3 = x2 \o c
  OBVIOUS
<1>4. LenIs(x1, n + 32)
  BY <1>1, JoinedLen
<1>5. LenIs(x2, (n + 32) + 32)
  BY <1>2, <1>4, JoinedLen
<1>6. LenIs(x3, ((n + 32) + 32) + 2)
  BY <1>3, <1>5, JoinedLen
<1>7. y = x3 \o v
  BY <1>1, <1>2, <1>3
<1>8. LenIs(y, (((n + 32) + 32) + 2) + 32) /\ IsCut(y, (((n + 32) + 32) + 2) + 1, (((n + 32) + 32) + 2) + 32, v)
  BY <1>6, <1>7, JoinedLen, CutFrom
<1>9. (((n + 32) + 32) + 2) + 32 = n + 98 /\ (((n + 32) + 32) + 2) + 1 = n + 67
  OBVIOUS
<1>10. IsSeq(x1) /\ IsSeq(x2) /\ IsSeq(s) /\ IsSeq(c) /\ IsSeq(v)
  BY <1>4, <1>5 DEF LenIs
<1>11. PICK w3 : w3 = c \o v
  OBVIOUS
<1>12. PICK w2 : w2 = s \o w3
  OBVIOUS
<1>13. IsSeq(w3)
  BY <1>10, <1>11, ConcatSeq
<1>14. IsSeq(w2)
  BY <1>10, <1>12, <1>13, ConcatSeq
<1>15. y = x2 \o w3
  <2>1. Regroups(x2, c, v)
    BY <1>10, Associative
  <2> QED
    BY <1>3, <1>7, <1>11, <2>1 DEF Regroups
<1>16. y = (d \o p) \o w2
  <2>1. Regroups(x1, s, w3)
    BY <1>10, <1>13, Associative
  <2> QED
    BY <1>1, <1>2, <1>12, <1>15, <2>1 DEF Regroups
<1>17. IsCut(y, n + 1, n + 32, p)
  BY <1>14, <1>16, CutBetween
<1> QED
  BY <1>8, <1>9, <1>17

\* The ID of a session has only the first bytes of what it is computed from.
LEMMA SameID ==
    ASSUME NEW p, NEW v, LenIs(v, 32), NEW t, NEW k, LenIs(t, k), NEW w, w = v \o t
    PROVE  Xor(p, w) = Xor(p, v)
<1>1. Begins(w, v, 32)
  BY FirstOfJoined
<1>2. \A i \in 1..16 : i \in 1..32
  OBVIOUS
<1>3. \A i \in 1..16 : w[i] = v[i]
  BY <1>1, <1>2 DEF Begins
<1>4. \A i \in 1..16 : <<"xor", p[i], w[i]>> = <<"xor", p[i], v[i]>>
  BY <1>3, Zenon
<1> QED
  BY <1>4 DEF Xor

LEMMA ShortLen ==
    ASSUME NEW n \in Int
    PROVE  LenIs(WriteShort(n), 2) /\ LenIs(toLittleEndianBytes(n), 2)
<1>1. WriteShort(n) = <<Byte(High(n)), Byte(n)>> /\ toLittleEndianBytes(n) = <<Byte(n), Byte(High(n))>>
  BY DEF WriteShort, toLittleEndianBytes, High
<1>2. /\ IsSeq(<<Byte(High(n)), Byte(n)>>) /\ 2 = Len(<<Byte(High(n)), Byte(n)>>)
      /\ IsSeq(<<Byte(n), Byte(High(n))>>) /\ 2 = Len(<<Byte(n), Byte(High(n))>>)
  BY Pair
<1> QED
  BY <1>1, <1>2 DEF LenIs

LEMMA IDWithLength ==
    ASSUME NEW deviceID, NEW n, IsDeviceID(deviceID, n)
    PROVE  LenIs(<<Byte(Len(deviceID))>> \o deviceID, 1 + n)
<1>1. PICK e : e = <<Byte(Len(deviceID))>>
  OBVIOUS
<1>2. LenIs(e, 1)
  BY <1>1, Single DEF LenIs
<1> QED
  BY <1>1, <1>2, JoinedLen DEF IsDeviceID

\* The response as the client takes it apart: the CRC may be a part of the nonce.
LEMMA ResponseTaken ==
    ASSUME NEW deviceID, NEW n, IsDeviceID(deviceID, n), NEW salt, LenIs(salt, 32),
           NEW count, IsShort(count), NEW serverNonce, LenIs(serverNonce, 32),
           NEW t, NEW k \in Nat, LenIs(t, k), NEW w, Joined(w, serverNonce, t)
    PROVE  /\ LenIs(ResponseBody(deviceID, salt, count, serverNonce), n + 69)
           /\ ResponseOf(ResponseBody(deviceID, salt, count, serverNonce) \o t) =
                  [deviceID |-> deviceID, salt |-> salt, iterationCount |-> count, serverNonce |-> w]
<1>1. PICK a : a = <<Byte(Len(deviceID))>> \o deviceID
  OBVIOUS
<1>2. PICK c : c = bigEndianAddShortToBytes(count)
  OBVIOUS
<1>3. PICK z : z = <<Byte(0), Byte(0)>>
  OBVIOUS
<1>4. c = WriteShort(count) /\ parseBigEndianBytes(c) = count /\ LenIs(c, 2)
  <2>1. count \in Int
    BY DEF IsShort
  <2>2. /\ bigEndianAddShortToBytes(count) = WriteShort(count)
        /\ parseBigEndianBytes(WriteShort(count)) = count
    BY Shorts
  <2>3. LenIs(WriteShort(count), 2)
    BY <2>1, ShortLen
  <2> QED
    BY <1>2, <2>2, <2>3
<1>5. LenIs(z, 2)
  BY <1>3, Pair DEF LenIs
<1>6. n \in Nat /\ n + 1 \in Nat /\ 1 + n = n + 1
  BY DEF IsDeviceID, DeviceIDLengths
<1>7. LenIs(a, n + 1)
  BY <1>1, <1>6, IDWithLength
<1>8. PICK body : body = ResponseBody(deviceID, salt, count, serverNonce)
  OBVIOUS
<1>9. body = (((a \o salt) \o c) \o z) \o serverNonce
  BY <1>1, <1>2, <1>3, <1>8, Zenon DEF ResponseBody
<1>10. PICK y : y = body \o t
  OBVIOUS
<1>11. y = Six(a, salt, c, z, serverNonce, t)
  BY <1>9, <1>10, Zenon DEF Six
<1>12. /\ LenIs(y, (n + 1) + 68 + k)
       /\ IsCut(y, (n + 1) + 1, (n + 1) + 32, salt)
       /\ IsCut(y, (n + 1) + 33, (n + 1) + 34, c)
  BY <1>4, <1>5, <1>6, <1>7, <1>11, SixParts
<1>13. IsCut(y, (n + 1) + 37, (n + 1) + 68 + k, w)
  BY <1>4, <1>5, <1>6, <1>7, <1>11, SixParts
<1>14. PICK r : IsSeq(r) /\ Joined(y, a, r)
  BY <1>4, <1>5, <1>6, <1>7, <1>11, SixParts
<1>15. y[1][2] = n /\ IsCut(y, 2, 1 + n, deviceID)
  <2>1. y = Body(deviceID, r)
    BY <1>1, <1>14, Zenon DEF Body, Joined
  <2>2. PICK m : LenIs(r, m)
    BY <1>14 DEF LenIs
  <2> QED
    BY <2>1, <2>2, BodyParts
<1>16. ResponseOf(y) = [deviceID |-> deviceID, salt |-> salt, iterationCount |-> count, serverNonce |-> w]
  <2>1. Len(y) = (n + 1) + 68 + k
    BY <1>12 DEF LenIs
  <2>2. 1 + y[1][2] = n + 1 /\ 1 + n = n + 1
    BY <1>6, <1>15
  <2>3. /\ SubSeq(y, 2, n + 1) = deviceID
        /\ SubSeq(y, (n + 1) + 1, (n + 1) + 32) = salt
        /\ SubSeq(y, (n + 1) + 33, (n + 1) + 34) = c
        /\ SubSeq(y, (n + 1) + 37, Len(y)) = w
    BY <1>12, <1>13, <1>15, <2>1, <2>2, Zenon DEF IsCut
  <2> QED
    BY <1>4, <2>2, <2>3, Zenon DEF ResponseOf
<1>17. LenIs(body, n + 69)
  <2>1. PICK x1 : x1 = a \o salt
    OBVIOUS
  <2>2. PICK x2 : x2 = x1 \o c
    OBVIOUS
  <2>3. PICK x3 : x3 = x2 \o z
    OBVIOUS
  <2>4. LenIs(x1, (n + 1) + 32)
    BY <1>7, <2>1, JoinedLen
  <2>5. LenIs(x2, ((n + 1) + 32) + 2)
    BY <1>4, <2>2, <2>4, JoinedLen
  <2>6. LenIs(x3, (((n + 1) + 32) + 2) + 2)
    BY <1>5, <2>3, <2>5, JoinedLen
  <2>7. LenIs(body, ((((n + 1) + 32) + 2) + 2) + 32)
    BY <1>9, <2>1, <2>2, <2>3, <2>6, JoinedLen
  <2>8. ((((n + 1) + 32) + 2) + 2) + 32 = n + 69
    BY <1>6
  <2> QED
    BY <2>7, <2>8
<1> QED
  BY <1>8, <1>10, <1>16, <1>17

\* Both sides compute over the same bytes.
LEMMA SameAuthInfo ==
    ASSUME NEW deviceID, NEW n, IsDeviceID(deviceID, n), NEW salt, LenIs(salt, 32),
           NEW count, IsShort(count), NEW clientNonce, LenIs(clientNonce, 32),
           NEW serverNonce, LenIs(serverNonce, 32), NEW t, NEW k \in Nat, LenIs(t, k),
           NEW w, Joined(w, serverNonce, t), NEW m,
           m = [deviceID |-> deviceID, salt |-> salt, iterationCount |-> count, serverNonce |-> w],
           NEW authInfo, authInfo = ServerAuthInfo(deviceID, clientNonce, salt, count, serverNonce)
    PROVE  /\ ClientAuthInfo(clientNonce, m) = authInfo
           /\ ClientSessionID(clientNonce, m) = ServerSessionID(authInfo, n)
<1>1. SubSeq(w, 1, 32) = serverNonce
  <2>1. w = serverNonce \o t
    BY DEF Joined
  <2>2. IsSeq(serverNonce) /\ IsSeq(t) /\ Len(serverNonce) = 32
    BY DEF LenIs
  <2>3. SubSeq(serverNonce \o t, 1, Len(serverNonce)) = serverNonce
    BY <2>2, CutFirst
  <2> QED
    BY <2>1, <2>2, <2>3, Zenon
<1>2. PICK c : c = toLittleEndianBytes(count)
  OBVIOUS
<1>3. littleEndianToBytes(count) = c /\ LenIs(c, 2)
  <2>1. count \in Int
    BY DEF IsShort
  <2>2. littleEndianToBytes(count) = toLittleEndianBytes(count)
    BY Shorts
  <2>3. LenIs(toLittleEndianBytes(count), 2)
    BY <2>1, ShortLen
  <2> QED
    BY <1>2, <2>2, <2>3
<1>4. authInfo = (((deviceID \o clientNonce) \o salt) \o c) \o serverNonce
  BY <1>3, Zenon DEF ServerAuthInfo
<1>5. ClientAuthInfo(clientNonce, m) = authInfo
  <2>1. m.deviceID = deviceID /\ m.salt = salt /\ m.iterationCount = count /\ m.serverNonce = w
    OBVIOUS
  <2> QED
    BY <1>1, <1>2, <1>4, <2>1, Zenon DEF ClientAuthInfo
<1>6. n \in Nat /\ LenIs(deviceID, n)
  BY DEF IsDeviceID, DeviceIDLengths
<1>7. /\ LenIs(authInfo, n + 98)
      /\ IsCut(authInfo, n + 1, n + 32, clientNonce)
      /\ IsCut(authInfo, n + 67, n + 98, serverNonce)
  BY <1>3, <1>4, <1>6, AuthInfoParts
<1>8. ServerSessionID(authInfo, n) = Xor(clientNonce, serverNonce)
  <2>1. Len(authInfo) = n + 98 /\ Len(authInfo) - 31 = n + 67
    BY <1>6, <1>7 DEF LenIs
  <2>2. SubSeq(authInfo, n + 1, n + 32) = clientNonce /\ SubSeq(authInfo, n + 67, n + 98) = serverNonce
    BY <1>7 DEF IsCut
  <2> QED
    BY <2>1, <2>2, Zenon DEF ServerSessionID
<1>9. ClientSessionID(clientNonce, m) = Xor(clientNonce, serverNonce)
  <2>1. m.serverNonce = w
    OBVIOUS
  <2>2. w = serverNonce \o t
    BY DEF Joined
  <2>3. Xor(clientNonce, w) = Xor(clientNonce, serverNonce)
    BY <2>2, SameID
  <2> QED
    BY <2>1, <2>3, Zenon DEF ClientSessionID
<1> QED
  BY <1>5, <1>8, <1>9

\* What both sides agree on, from a message the client takes for the response.
Agreed(m, clientNonce, authInfo, n) ==
    /\ ClientAuthInfo(clientNonce, m) = authInfo
    /\ ClientSessionID(clientNonce, m) = ServerSessionID(authInfo, n)

(* The client understands the response, whatever the iteration count of two      *)
(* bytes, encrypted or not: client and server compute proof and session key over *)
(* the same bytes and give the session the same ID (AuthResponseMessage and      *)
(* AuthSession of the server, unwrapping and LinkAccessAuth of the client).      *)
THEOREM ResponsesUnderstood ==
    ASSUME NEW alg \in Algorithms, NEW deviceID, NEW n, IsDeviceID(deviceID, n),
           NEW salt, LenIs(salt, 32), NEW count, IsShort(count),
           NEW clientNonce, LenIs(clientNonce, 32), NEW serverNonce, LenIs(serverNonce, 32),
           NEW known, KeyID \in known
    PROVE  \E m \in unwrapBinaryToAuthMessage(
                       wrapReply(ACCESS_AUTH_RESPONSE, alg,
                                 ResponseBody(deviceID, salt, count, serverNonce), known)) :
               Agreed(m, clientNonce,
                      ServerAuthInfo(deviceID, clientNonce, salt, count, serverNonce), n)
<1>1. PICK body : body = ResponseBody(deviceID, salt, count, serverNonce)
  OBVIOUS
<1>2. IsSeq(body) /\ Len(body) \in 1..95
  <2>1. LenIs(<<>>, 0)
    BY EmptyRight DEF LenIs
  <2>2. PICK x : x = serverNonce \o <<>>
    OBVIOUS
  <2>3. Joined(x, serverNonce, <<>>)
    BY <2>2 DEF Joined
  <2>4. LenIs(body, n + 69)
    BY <1>1, <2>1, <2>3, 0 \in Nat, ResponseTaken
  <2>5. n + 69 \in 1..95
    BY DEF IsDeviceID, DeviceIDLengths
  <2> QED
    BY <2>4, <2>5 DEF LenIs
<1>3. PICK f : f = wrapReply(ACCESS_AUTH_RESPONSE, alg, body, known)
  OBVIOUS
<1>4. IsFrameOf(f, ACCESS_AUTH_RESPONSE, alg, body)
  <2>1. f = WithCRC(Frame(ACCESS_AUTH_RESPONSE, alg, body))
    BY <1>2, <1>3, ServerWraps
  <2> QED
    BY <1>2, <2>1, FrameRight
<1>5. checkMessage(f) /\ At(f, 6) = Byte(1) /\ f[1] = Byte(ACCESS_AUTH_RESPONSE)
  BY <1>2, <1>4, TakenFor
<1>6. PICK t, k : k \in {0, 4} /\ LenIs(t, k) /\ FixedBodies(f) = {body \o t}
  BY <1>2, <1>4, TakenFor
<1>7. PICK b : b = body \o t
  OBVIOUS
<1>8. unwrapBinaryToAuthMessage(f) = {ResponseOf(b)}
  <2>1. FixedBodies(f) = {b}
    BY <1>6, <1>7
  <2> QED
    BY <1>5, <2>1, Taken
<1>9. PICK w : Joined(w, serverNonce, t)
  BY Zenon DEF Joined
<1>10. PICK m : m = [deviceID |-> deviceID, salt |-> salt, iterationCount |-> count, serverNonce |-> w]
  OBVIOUS
<1>11. k \in Nat
  BY <1>6
<1>12. ResponseOf(b) = m
  BY <1>1, <1>6, <1>7, <1>9, <1>10, <1>11, ResponseTaken
<1>13. PICK authInfo : authInfo = ServerAuthInfo(deviceID, clientNonce, salt, count, serverNonce)
  OBVIOUS
<1>14. Agreed(m, clientNonce, authInfo, n)
  BY <1>6, <1>9, <1>10, <1>11, <1>13, SameAuthInfo DEF Agreed
<1>15. m \in unwrapBinaryToAuthMessage(f)
  BY <1>8, <1>12
<1> QED
  BY <1>1, <1>3, <1>13, <1>14, <1>15

--------------------------------------------------------------------------------
(* A Q-shield takes and gives the data of a frame, and the application puts the  *)
(* rest around them.                                                             *)

\* Five bytes, and data of the length that the fifth has.
IsFiveAnd(g, type, p, d, n) ==
    /\ n \in 5..116 /\ LenIs(d, n) /\ LenIs(p, 5) /\ Joined(g, p, d)
    /\ p = <<Byte(type), Byte(0), Byte(120), Byte(0), Byte(n)>>

LEMMA FiveThenData ==
    ASSUME NEW type, NEW alg \in Algorithms, NEW body, IsSeq(body), Len(body) \in 1..95,
           NEW g, g = Frame(type, alg, body)
    PROVE  \E p, d, n : IsFiveAnd(g, type, p, d, n)
<1>1. PICK h, k, c, l, m : FrameIs(g, type, alg, body, h, k, c, l, m)
  BY FrameParts
<1>2. /\ h = Header(type, alg, 4 + l + m, m) /\ IsSeq(k) /\ IsSeq(c) /\ g = (h \o k) \o c
      /\ LenIs(k, l) /\ LenIs(c, m) /\ l \in {0, 16} /\ m \in 1..96
  BY <1>1, Zenon DEF FrameIs
<1>3. PICK n \in 5..116 : n = 4 + l + m
  BY <1>2
<1>4. PICK p : p = <<Byte(type), Byte(0), Byte(120), Byte(0), Byte(n)>>
  OBVIOUS
<1>5. PICK u : u = <<Byte(1), Byte(alg)>>
  OBVIOUS
<1>6. PICK v : v = WriteShort(m)
  OBVIOUS
<1>7. LenIs(p, 5)
  <2>1. p \in Seq({Byte(type), Byte(0), Byte(120), Byte(n)}) /\ 5 = Len(p)
    BY <1>4
  <2> QED
    BY <2>1 DEF LenIs, IsSeq
<1>8. LenIs(u, 2) /\ LenIs(v, 2)
  <2>1. m \in Int
    BY <1>2
  <2> QED
    BY <1>5, <1>6, <2>1, Pair, ShortLen DEF LenIs
<1>9. PICK q : q = u \o v
  OBVIOUS
<1>10. LenIs(q, 2 + 2)
  BY <1>8, <1>9, JoinedLen
<1>11. h = p \o q
  <2>1. <<Byte(type), Byte(0), Byte(120), Byte(0), Byte(n)>>
            \o (<<Byte(1), Byte(alg)>> \o WriteShort(m)) = Header(type, alg, n, m)
    BY HeaderParts
  <2> QED
    BY <1>2, <1>3, <1>4, <1>5, <1>6, <1>9, <2>1
<1>12. PICK x : x = q \o k
  OBVIOUS
<1>13. PICK d : d = x \o c
  OBVIOUS
<1>14. LenIs(x, (2 + 2) + l)
  BY <1>2, <1>10, <1>12, JoinedLen
<1>15. LenIs(d, n)
  <2>1. LenIs(d, ((2 + 2) + l) + m)
    BY <1>2, <1>13, <1>14, JoinedLen
  <2>2. ((2 + 2) + l) + m = n
    BY <1>2, <1>3
  <2> QED
    BY <2>1, <2>2
<1>16. g = p \o d
  <2>1. IsSeq(p) /\ IsSeq(q)
    BY <1>7, <1>10 DEF LenIs
  <2>2. RegroupsFour(p, q, k, c)
    BY <1>2, <2>1, AssociativeFour
  <2> QED
    BY <1>2, <1>11, <1>12, <1>13, <2>2 DEF RegroupsFour
<1> QED
  BY <1>4, <1>7, <1>15, <1>16, Zenon DEF Joined, IsFiveAnd

LEMMA DataGoRound ==
    ASSUME NEW type, NEW alg \in Algorithms, NEW body, IsSeq(body), Len(body) \in 1..95,
           NEW f, f = WithCRC(Frame(type, alg, body))
    PROVE  QShieldFrame(type, DataOf(f)) = f
<1>1. PICK g : g = Frame(type, alg, body)
  OBVIOUS
<1>2. PICK p, d, n : IsFiveAnd(g, type, p, d, n)
  BY <1>1, FiveThenData
<1>3. /\ n \in 5..116 /\ LenIs(d, n) /\ LenIs(p, 5) /\ Joined(g, p, d)
      /\ p = <<Byte(type), Byte(0), Byte(120), Byte(0), Byte(n)>>
  BY <1>2 DEF IsFiveAnd
<1>4. PICK r : r = getCRC32(g)
  OBVIOUS
<1>5. LenIs(r, 4)
  BY <1>4, CRCSeq DEF LenIs
<1>6. f = (p \o d) \o r
  BY <1>1, <1>3, <1>4, Zenon DEF WithCRC, Joined
<1>7. DataOf(f) = d
  <2>1. PICK x : x = p \o d
    OBVIOUS
  <2>2. LenIs(x, 5 + n)
    BY <1>3, <2>1, JoinedLen
  <2>3. LenIs(f, (5 + n) + 4)
    BY <1>5, <1>6, <2>1, <2>2, JoinedLen
  <2>4. IsSeq(r)
    BY <1>5 DEF LenIs
  <2>5. IsCut(f, 5 + 1, 5 + n, d)
    BY <1>3, <1>6, <2>4, CutBetween
  <2>6. Len(f) - 4 = 5 + n /\ 5 + 1 = 6
    BY <1>3, <2>3 DEF LenIs
  <2> QED
    BY <2>5, <2>6 DEF IsCut, DataOf
<1>8. QShieldFrame(type, d) = f
  <2>1. Len(d) = n
    BY <1>3 DEF LenIs
  <2>2. (<<Byte(type)>> \o WriteShort(RequestID)) \o <<Byte(SUCCESS), Byte(n)>> = p
    BY <1>3, ClientPrefix
  <2>3. QShieldFrame(type, d) = WithCRC(p \o d)
    BY <2>1, <2>2, Zenon DEF QShieldFrame
  <2> QED
    BY <1>1, <1>3, <2>3, Zenon DEF Joined
<1> QED
  BY <1>7, <1>8

--------------------------------------------------------------------------------
(* All of it for the messages the runs look at. *)

LEMMA BytesSeq ==
    ASSUME NEW name, NEW n \in Nat
    PROVE  LenIs(Bytes(name, n), n)
<1>1. Bytes(name, n) \in [1..n -> {<<name, i>> : i \in 1..n}]
  BY DEF Bytes
<1> QED
  BY <1>1, FunctionIsSeq DEF LenIs

LEMMA Fields ==
    /\ \A n \in DeviceIDLengths : IsDeviceID(DeviceID(n), n)
    /\ LenIs(ClientNonce, 32) /\ LenIs(ServerNonce, 32) /\ LenIs(Salt, 32) /\ LenIs(Proof, 32)
    /\ \A count \in IterationCounts : IsShort(count)
<1>1. ASSUME NEW n \in DeviceIDLengths
      PROVE  IsDeviceID(DeviceID(n), n)
  <2>1. n \in Nat
    BY DEF DeviceIDLengths
  <2> QED
    BY <2>1, BytesSeq DEF IsDeviceID, DeviceID
<1>2. LenIs(ClientNonce, 32) /\ LenIs(ServerNonce, 32) /\ LenIs(Salt, 32) /\ LenIs(Proof, 32)
  BY BytesSeq, 32 \in Nat, Zenon DEF ClientNonce, ServerNonce, Salt, Proof
<1>3. \A count \in IterationCounts : IsShort(count)
  BY DEF IterationCounts, IsShort
<1> QED
  BY <1>1, <1>2, <1>3

LEMMA NothingLen ==
    LenIs(<<>>, 0)
<1>1. <<>> \in Seq({})
  OBVIOUS
<1>2. IsSeq(<<>>)
  BY <1>1 DEF IsSeq
<1> QED
  BY <1>2 DEF LenIs

\* The bodies of the messages.
LEMMA Bodies ==
    ASSUME NEW n \in DeviceIDLengths
    PROVE  /\ LenIs(Body(DeviceID(n), ClientNonce), n + 33)
           /\ LenIs(ServerProofBody(DeviceID(n), Proof), n + 33)
           /\ \A count : IsShort(count) => LenIs(ResponseBody(DeviceID(n), Salt, count, ServerNonce), n + 69)
<1>1. IsDeviceID(DeviceID(n), n)
  BY Fields
<1>2. (1 + n) + 32 = n + 33
  BY DEF DeviceIDLengths
<1>3. LenIs(Body(DeviceID(n), ClientNonce), (1 + n) + 32)
  BY <1>1, Fields, BodyParts
<1>4. LenIs(ServerProofBody(DeviceID(n), Proof), (1 + n) + 32)
  <2>1. ServerProofBody(DeviceID(n), Proof) = Body(DeviceID(n), Proof)
    BY Zenon DEF ServerProofBody, Body
  <2>2. LenIs(Body(DeviceID(n), Proof), (1 + n) + 32)
    BY <1>1, Fields, BodyParts
  <2> QED
    BY <2>1, <2>2
<1>5. ASSUME NEW count, IsShort(count)
      PROVE  LenIs(ResponseBody(DeviceID(n), Salt, count, ServerNonce), n + 69)
  <2>1. LenIs(<<>>, 0)
    BY NothingLen
  <2>2. PICK x : Joined(x, ServerNonce, <<>>)
    BY Zenon DEF Joined
  <2> QED
    BY <1>1, <1>5, <2>1, <2>2, 0 \in Nat, Fields, ResponseTaken
<1> QED
  BY <1>2, <1>3, <1>4, <1>5

LEMMA RequestGoesRound ==
    ASSUME NEW type \in {ACCESS_AUTH_REQUEST, ACCESS_AUTH_CLIENT_PROOF}, NEW alg \in Algorithms,
           NEW n \in DeviceIDLengths
    PROVE  ClientUnderstood(type, alg, n)
<1>1. PICK f : f = wrapAuthMessage(type, alg, DeviceID(n), ClientNonce)
  OBVIOUS
<1>2. IsDeviceID(DeviceID(n), n) /\ LenIs(ClientNonce, 32)
  BY Fields
<1>3. unwrapAuthMessage(f, {KeyID}) =
          {[type |-> Byte(type), deviceID |-> DeviceID(n), field |-> ClientNonce]}
  BY <1>1, <1>2, KeyID \in {KeyID}, RequestsUnderstood
<1>4. QShieldFrame(type, DataOf(f)) = f
  <2>1. PICK body : body = Body(DeviceID(n), ClientNonce)
    OBVIOUS
  <2>2. /\ IsSeq(DeviceID(n)) /\ Len(DeviceID(n)) \in 5..25
        /\ IsSeq(ClientNonce) /\ 32 = Len(ClientNonce)
    BY <1>2 DEF IsDeviceID, LenIs, DeviceIDLengths
  <2>3. f = WithCRC(Frame(type, alg, body))
    BY <1>1, <2>1, <2>2, ClientWraps
  <2>4. LenIs(body, n + 33)
    BY <2>1, Bodies
  <2>5. IsSeq(body) /\ Len(body) \in 1..95
    <3>1. n + 33 \in 1..95
      BY DEF DeviceIDLengths
    <3> QED
      BY <2>4, <3>1 DEF LenIs
  <2> QED
    BY <2>3, <2>5, DataGoRound
<1> QED
  BY <1>1, <1>3, <1>4, Zenon DEF ClientUnderstood

LEMMA ResponseGoesRound ==
    ASSUME NEW alg \in Algorithms, NEW n \in DeviceIDLengths
    PROVE  ResponseUnderstood(alg, n)
<1>1. ASSUME NEW count \in IterationCounts,
             NEW body, body = ResponseBody(DeviceID(n), Salt, count, ServerNonce),
             NEW f, f = wrapReply(ACCESS_AUTH_RESPONSE, alg, body, {KeyID}),
             NEW authInfo, authInfo = ServerAuthInfo(DeviceID(n), ClientNonce, Salt, count, ServerNonce)
      PROVE  /\ QShieldData(f) = {DataOf(f)}
             /\ \E m \in unwrapBinaryToAuthMessage(f) : Agreed(m, ClientNonce, authInfo, n)
  <2>1. IsShort(count)
    BY Fields
  <2>2. IsSeq(body) /\ Len(body) \in 1..95
    <3>1. n + 69 \in 1..95
      BY DEF DeviceIDLengths
    <3>2. LenIs(body, n + 69)
      BY <1>1, <2>1, Bodies
    <3> QED
      BY <3>1, <3>2 DEF LenIs
  <2>3. f = WithCRC(Frame(ACCESS_AUTH_RESPONSE, alg, body))
    BY <1>1, <2>2, KeyID \in {KeyID}, ServerWraps
  <2>4. checkMessage(f)
    BY <2>2, <2>3, FrameRight, TakenFor
  <2>5. QShieldData(f) = {DataOf(f)}
    BY <2>4 DEF QShieldData
  <2>6. \E m \in unwrapBinaryToAuthMessage(f) : Agreed(m, ClientNonce, authInfo, n)
    <3>1. /\ IsDeviceID(DeviceID(n), n)
          /\ LenIs(Salt, 32) /\ LenIs(ClientNonce, 32) /\ LenIs(ServerNonce, 32)
      BY Fields
    <3> QED
      BY <1>1, <2>1, <3>1, KeyID \in {KeyID}, ResponsesUnderstood
  <2> QED
    BY <2>5, <2>6
<1> QED
  BY <1>1, Zenon DEF ResponseUnderstood, Agreed

LEMMA ServerProofGoesRound ==
    ASSUME NEW alg \in Algorithms, NEW n \in DeviceIDLengths
    PROVE  ServerProofUnderstood(alg, n)
<1>1. IsDeviceID(DeviceID(n), n) /\ LenIs(Proof, 32) /\ KeyID \in {KeyID}
  BY Fields
<1>2. unwrapBinaryToAuthMessage(
          wrapReply(ACCESS_AUTH_SERVER_PROOF, alg, ServerProofBody(DeviceID(n), Proof), {KeyID})) =
          {[deviceID |-> DeviceID(n), serverProof |-> Proof]}
  BY <1>1, ServerProofsUnderstood
<1> QED
  BY <1>2, Zenon DEF ServerProofUnderstood, ServerProofFrame

(* The receiver understands every frame of each type, with the device IDs of all *)
(* the lengths the client does not refuse, encrypted or not, and a Q-shield's    *)
(* data go the same way.                                                         *)
THEOREM AllUnderstood ==
    \A type \in MessageTypes : Understood[type]
<1> SUFFICES ASSUME NEW type \in MessageTypes
             PROVE  \A n \in DeviceIDLengths, alg \in Algorithms :
                        CASE type = ACCESS_AUTH_RESPONSE -> ResponseUnderstood(alg, n)
                          [] type = ACCESS_AUTH_SERVER_PROOF -> ServerProofUnderstood(alg, n)
                          [] OTHER -> ClientUnderstood(type, alg, n)
  BY Zenon DEF Understood
<1> SUFFICES ASSUME NEW n \in DeviceIDLengths, NEW alg \in Algorithms
             PROVE  CASE type = ACCESS_AUTH_RESPONSE -> ResponseUnderstood(alg, n)
                      [] type = ACCESS_AUTH_SERVER_PROOF -> ServerProofUnderstood(alg, n)
                      [] OTHER -> ClientUnderstood(type, alg, n)
  OBVIOUS
<1>1. ResponseUnderstood(alg, n) /\ ServerProofUnderstood(alg, n)
  BY ResponseGoesRound, ServerProofGoesRound
<1>2. type \in {ACCESS_AUTH_REQUEST, ACCESS_AUTH_CLIENT_PROOF}
          \/ type = ACCESS_AUTH_RESPONSE \/ type = ACCESS_AUTH_SERVER_PROOF
  BY Zenon DEF MessageTypes
<1>3. ACCESS_AUTH_RESPONSE # ACCESS_AUTH_SERVER_PROOF
  BY DEF ACCESS_AUTH_RESPONSE, ACCESS_AUTH_SERVER_PROOF
<1>4. CASE type = ACCESS_AUTH_RESPONSE
  BY <1>1, <1>3, <1>4, Zenon
<1>5. CASE type = ACCESS_AUTH_SERVER_PROOF
  BY <1>1, <1>3, <1>5, Zenon
<1>6. CASE type \in {ACCESS_AUTH_REQUEST, ACCESS_AUTH_CLIENT_PROOF}
  <2>1. type # ACCESS_AUTH_RESPONSE /\ type # ACCESS_AUTH_SERVER_PROOF
    BY <1>6 DEF ACCESS_AUTH_REQUEST, ACCESS_AUTH_RESPONSE, ACCESS_AUTH_CLIENT_PROOF, ACCESS_AUTH_SERVER_PROOF
  <2>2. ClientUnderstood(type, alg, n)
    BY <1>6, RequestGoesRound
  <2> QED
    BY <2>1, <2>2, Zenon
<1> QED
  BY <1>2, <1>4, <1>5, <1>6

--------------------------------------------------------------------------------
(* Damage. *)

\* What every receiver looks at.
LEMMA Refused ==
    ASSUME NEW g, At(g, 5) # <<"byte", Len(g) - 9>> \/ ~CRCRight(g)
    PROVE  IsRefused(g)
<1>1. unwrapAuthMessage(g, {KeyID}) = {}
  BY Zenon DEF unwrapAuthMessage
<1>2. ~checkMessage(g)
  BY DEF checkMessage
<1>3. unwrapBinaryToAuthMessage(g) = {} /\ QShieldData(g) = {}
  BY <1>2, Zenon DEF unwrapBinaryToAuthMessage, QShieldData
<1> QED
  BY <1>1, <1>3 DEF IsRefused

LEMMA OtherLength ==
    ASSUME NEW g, NEW k \in Nat, LenIs(g, k), NEW v \in Int,
           k < 5 \/ (g[5] = <<"byte", v>> /\ v # k - 9)
    PROVE  IsRefused(g)
<1>1. DOMAIN g = 1..k /\ Len(g) = k
  BY SeqLength DEF LenIs
<1>2. CASE k < 5
  <2>1. At(g, 5) = <<"none">>
    BY <1>1, <1>2 DEF At
  <2>2. <<"none">> # <<"byte", k - 9>>
    OBVIOUS
  <2> QED
    BY <1>1, <2>1, <2>2, Refused
<1>3. CASE ~(k < 5)
  <2>1. At(g, 5) = <<"byte", v>>
    BY <1>1, <1>3 DEF At
  <2>2. <<"byte", v>> # <<"byte", k - 9>>
    BY <1>3
  <2> QED
    BY <1>1, <2>1, <2>2, Refused
<1> QED
  BY <1>2, <1>3

\* A frame of n bytes, and those of its bytes that damage cannot hide behind.
IsFrameOfLength(f, n) ==
    /\ n \in 14..125 /\ LenIs(f, n) /\ CRCRight(f)
    /\ f[4] = <<"byte", 0>> /\ f[5] = <<"byte", n - 9>> /\ f[6] = <<"byte", 1>>

LEMMA ByteLost ==
    ASSUME NEW f, NEW n, IsFrameOfLength(f, n), NEW i \in 1..n
    PROVE  IsRefused(SubSeq(f, 1, i - 1) \o SubSeq(f, i + 1, n))
<1>1. /\ n \in 14..125 /\ IsSeq(f) /\ Len(f) = n
      /\ f[5] = <<"byte", n - 9>> /\ f[6] = <<"byte", 1>>
  BY DEF IsFrameOfLength, LenIs
<1>2. PICK a : a = SubSeq(f, 1, i - 1)
  OBVIOUS
<1>3. PICK b : b = SubSeq(f, i + 1, n)
  OBVIOUS
<1>4. IsSeq(a) /\ Len(a) = i - 1 /\ \A j \in 1..i - 1 : a[j] = f[j]
  <2>1. 1 \in Nat \ {0} /\ i - 1 \in Nat /\ i - 1 <= Len(f) /\ 1 <= (i - 1) + 1
    BY <1>1
  <2>2. /\ IsSeq(a) /\ Len(a) = (i - 1) - 1 + 1
        /\ \A j \in 1..(i - 1) - 1 + 1 : a[j] = f[1 + j - 1]
    BY <1>1, <1>2, <2>1, Cut
  <2>3. (i - 1) - 1 + 1 = i - 1 /\ \A j \in 1..i - 1 : 1 + j - 1 = j
    OBVIOUS
  <2> QED
    BY <2>2, <2>3
<1>5. IsSeq(b) /\ Len(b) = n - i /\ \A j \in 1..n - i : b[j] = f[i + j]
  <2>1. i + 1 \in Nat \ {0} /\ n \in Nat /\ n <= Len(f) /\ i + 1 <= n + 1
    BY <1>1
  <2>2. /\ IsSeq(b) /\ Len(b) = n - (i + 1) + 1
        /\ \A j \in 1..n - (i + 1) + 1 : b[j] = f[(i + 1) + j - 1]
    BY <1>1, <1>3, <2>1, Cut
  <2>3. n - (i + 1) + 1 = n - i /\ \A j \in 1..n - i : (i + 1) + j - 1 = i + j
    BY <1>1
  <2> QED
    BY <2>2, <2>3
<1>6. PICK g : g = a \o b
  OBVIOUS
<1>7. /\ IsSeq(g) /\ Len(g) = Len(a) + Len(b)
      /\ \A j \in 1..Len(a) : g[j] = a[j]
      /\ \A j \in 1..Len(b) : g[Len(a) + j] = b[j]
  <2>1. IsSeq(a) /\ IsSeq(b)
    BY <1>4, <1>5
  <2> QED
    BY <1>6, <2>1, Concat
<1>8. n - 1 \in Nat /\ LenIs(g, n - 1)
  BY <1>1, <1>4, <1>5, <1>7 DEF LenIs
<1>9. CASE i > 5
  <2>1. 5 \in 1..i - 1
    BY <1>9
  <2>2. g[5] = a[5] /\ a[5] = f[5]
    BY <1>4, <1>7, <2>1
  <2>3. n - 9 \in Int /\ n - 9 # (n - 1) - 9
    BY <1>1
  <2>4. g[5] = <<"byte", n - 9>>
    BY <1>1, <2>2
  <2>5. IsRefused(g)
    BY <1>8, <2>3, <2>4, OtherLength
  <2> QED
    BY <1>2, <1>3, <1>6, <2>5
<1>10. CASE ~(i > 5)
  <2>1. 6 - i \in 1..n - i /\ (i - 1) + (6 - i) = 5 /\ i + (6 - i) = 6
    BY <1>1, <1>10
  <2>2. g[(i - 1) + (6 - i)] = b[6 - i] /\ b[6 - i] = f[i + (6 - i)]
    BY <1>4, <1>5, <1>7, <2>1
  <2>3. g[5] = <<"byte", 1>>
    BY <1>1, <2>1, <2>2
  <2>4. 1 \in Int /\ 1 # (n - 1) - 9
    BY <1>1
  <2>5. IsRefused(g)
    BY <1>8, <2>3, <2>4, OtherLength
  <2> QED
    BY <1>2, <1>3, <1>6, <2>5
<1> QED
  BY <1>9, <1>10

LEMMA ByteRepeated ==
    ASSUME NEW f, NEW n, IsFrameOfLength(f, n), NEW i \in 1..n
    PROVE  IsRefused(SubSeq(f, 1, i) \o SubSeq(f, i, n))
<1>1. /\ n \in 14..125 /\ IsSeq(f) /\ Len(f) = n
      /\ f[4] = <<"byte", 0>> /\ f[5] = <<"byte", n - 9>>
  BY DEF IsFrameOfLength, LenIs
<1>2. PICK a : a = SubSeq(f, 1, i)
  OBVIOUS
<1>3. PICK b : b = SubSeq(f, i, n)
  OBVIOUS
<1>4. IsSeq(a) /\ Len(a) = i /\ \A j \in 1..i : a[j] = f[j]
  <2>1. 1 \in Nat \ {0} /\ i \in Nat /\ i <= Len(f) /\ 1 <= i + 1
    BY <1>1
  <2>2. IsSeq(a) /\ Len(a) = i - 1 + 1 /\ \A j \in 1..i - 1 + 1 : a[j] = f[1 + j - 1]
    BY <1>1, <1>2, <2>1, Cut
  <2>3. i - 1 + 1 = i /\ \A j \in 1..i : 1 + j - 1 = j
    OBVIOUS
  <2> QED
    BY <2>2, <2>3
<1>5. IsSeq(b) /\ Len(b) = n - i + 1 /\ \A j \in 1..n - i + 1 : b[j] = f[i + j - 1]
  <2>1. i \in Nat \ {0} /\ n \in Nat /\ n <= Len(f) /\ i <= n + 1
    BY <1>1
  <2> QED
    BY <1>1, <1>3, <2>1, Cut
<1>6. PICK g : g = a \o b
  OBVIOUS
<1>7. /\ IsSeq(g) /\ Len(g) = Len(a) + Len(b)
      /\ \A j \in 1..Len(a) : g[j] = a[j]
      /\ \A j \in 1..Len(b) : g[Len(a) + j] = b[j]
  <2>1. IsSeq(a) /\ IsSeq(b)
    BY <1>4, <1>5
  <2> QED
    BY <1>6, <2>1, Concat
<1>8. n + 1 \in Nat /\ LenIs(g, n + 1)
  BY <1>1, <1>4, <1>5, <1>7 DEF LenIs
<1>9. CASE i >= 5
  <2>1. 5 \in 1..i
    BY <1>9
  <2>2. g[5] = a[5] /\ a[5] = f[5]
    BY <1>4, <1>7, <2>1
  <2>3. n - 9 \in Int /\ n - 9 # (n + 1) - 9
    BY <1>1
  <2>4. g[5] = <<"byte", n - 9>>
    BY <1>1, <2>2
  <2>5. IsRefused(g)
    BY <1>8, <2>3, <2>4, OtherLength
  <2> QED
    BY <1>2, <1>3, <1>6, <2>5
<1>10. CASE ~(i >= 5)
  <2>1. 5 - i \in 1..n - i + 1 /\ i + (5 - i) = 5 /\ i + (5 - i) - 1 = 4
    BY <1>1, <1>10
  <2>2. g[i + (5 - i)] = b[5 - i] /\ b[5 - i] = f[i + (5 - i) - 1]
    BY <1>4, <1>5, <1>7, <2>1
  <2>3. g[5] = <<"byte", 0>>
    BY <1>1, <2>1, <2>2
  <2>4. 0 \in Int /\ 0 # (n + 1) - 9
    BY <1>1
  <2>5. IsRefused(g)
    BY <1>8, <2>3, <2>4, OtherLength
  <2> QED
    BY <1>2, <1>3, <1>6, <2>5
<1> QED
  BY <1>9, <1>10

LEMMA CutShort ==
    ASSUME NEW f, NEW n, IsFrameOfLength(f, n), NEW i \in 1..n
    PROVE  IsRefused(SubSeq(f, 1, i - 1))
<1>1. n \in 14..125 /\ IsSeq(f) /\ Len(f) = n /\ f[5] = <<"byte", n - 9>>
  BY DEF IsFrameOfLength, LenIs
<1>2. PICK g : g = SubSeq(f, 1, i - 1)
  OBVIOUS
<1>3. IsSeq(g) /\ Len(g) = i - 1 /\ \A j \in 1..i - 1 : g[j] = f[j]
  <2>1. 1 \in Nat \ {0} /\ i - 1 \in Nat /\ i - 1 <= Len(f) /\ 1 <= (i - 1) + 1
    BY <1>1
  <2>2. /\ IsSeq(g) /\ Len(g) = (i - 1) - 1 + 1
        /\ \A j \in 1..(i - 1) - 1 + 1 : g[j] = f[1 + j - 1]
    BY <1>1, <1>2, <2>1, Cut
  <2>3. (i - 1) - 1 + 1 = i - 1 /\ \A j \in 1..i - 1 : 1 + j - 1 = j
    OBVIOUS
  <2> QED
    BY <2>2, <2>3
<1>4. i - 1 \in Nat /\ LenIs(g, i - 1) /\ n - 9 \in Int /\ n - 9 # (i - 1) - 9
  BY <1>1, <1>3 DEF LenIs
<1>5. i - 1 < 5 \/ g[5] = <<"byte", n - 9>>
  BY <1>1, <1>3
<1>6. IsRefused(g)
  BY <1>4, <1>5, OtherLength
<1> QED
  BY <1>2, <1>6

LEMMA LastFour ==
    ASSUME NEW f, NEW n \in 14..125, IsSeq(f), Len(f) = n, NEW r, r = SubSeq(f, n - 3, n)
    PROVE  \A j \in 1..4 : r[j] = f[n - 4 + j]
<1>1. n - 3 \in Nat \ {0} /\ n \in Nat /\ n <= Len(f) /\ n - 3 <= n + 1
  OBVIOUS
<1>2. \A j \in 1..n - (n - 3) + 1 : SubSeq(f, n - 3, n)[j] = f[(n - 3) + j - 1]
  BY <1>1, Cut
<1>3. n - (n - 3) + 1 = 4 /\ \A j \in 1..4 : (n - 3) + j - 1 = n - 4 + j
  OBVIOUS
<1> QED
  BY <1>2, <1>3

IsAltered(g, f, i) == g = [f EXCEPT ![i] = <<"other">>]

LEMMA ByteAltered ==
    ASSUME NEW f, NEW n, IsFrameOfLength(f, n), NEW i \in 1..n,
           NEW g, IsAltered(g, f, i), g # f
    PROVE  IsRefused(g)
<1>1. n \in 14..125 /\ IsSeq(f) /\ Len(f) = n /\ CRCRight(f)
  BY DEF IsFrameOfLength, LenIs
<1>2. IsSeq(g) /\ Len(g) = n
  <2>1. PICK S : f \in Seq(S)
    BY <1>1 DEF IsSeq
  <2>2. PICK T : T = S \cup {<<"other">>}
    OBVIOUS
  <2>3. f \in Seq(T) /\ <<"other">> \in T
    BY <2>1, <2>2, SeqMonotonic
  <2>4. g \in Seq(T) /\ Len(g) = Len(f)
    <3>1. PICK x : x = <<"other">>
      OBVIOUS
    <3>2. g = [f EXCEPT ![i] = x] /\ x \in T
      BY <2>3, <3>1 DEF IsAltered
    <3>3. i \in 1..Len(f)
      BY <1>1
    <3> QED
      BY <2>3, <3>2, <3>3, ExceptSeq
  <2> QED
    BY <1>1, <2>4 DEF IsSeq
<1>3. DOMAIN f = 1..n /\ DOMAIN g = 1..n
  BY <1>1, <1>2, SeqLength
<1>4. g[i] = <<"other">> /\ \A j \in 1..n : j # i => g[j] = f[j]
  BY <1>3 DEF IsAltered
<1>5. 1 \in Nat \ {0} /\ n - 4 \in Nat /\ n - 4 <= n /\ 1 <= (n - 4) + 1
  BY <1>1
<1>6. PICK d : d = SubSeq(f, 1, n - 4)
  OBVIOUS
<1>7. PICK e : e = SubSeq(g, 1, n - 4)
  OBVIOUS
<1>8. \A j \in 1..n - 4 : d[j] = f[j] /\ e[j] = g[j]
  <2>1. \A j \in 1..(n - 4) - 1 + 1 : d[j] = f[1 + j - 1]
    BY <1>1, <1>5, <1>6, Cut
  <2>2. \A j \in 1..(n - 4) - 1 + 1 : e[j] = g[1 + j - 1]
    BY <1>2, <1>5, <1>7, Cut
  <2>3. (n - 4) - 1 + 1 = n - 4 /\ \A j \in 1..n - 4 : 1 + j - 1 = j
    BY <1>1
  <2> QED
    BY <2>1, <2>2, <2>3
<1>9. \A j \in 1..4 : f[n - 4 + j] = <<"crc", j, d>>
  <2>1. PICK r : r = SubSeq(f, n - 3, n)
    OBVIOUS
  <2>2. r = getCRC32(d)
    BY <1>1, <1>6, <2>1, Zenon DEF CRCRight
  <2>3. \A j \in 1..4 : r[j] = <<"crc", j, d>>
    BY <2>2 DEF getCRC32
  <2>4. \A j \in 1..4 : r[j] = f[n - 4 + j]
    BY <1>1, <2>1, LastFour
  <2> QED
    BY <2>3, <2>4
<1>10. ASSUME CRCRight(g)
       PROVE  \A j \in 1..4 : g[n - 4 + j] = <<"crc", j, e>>
  <2>1. PICK r : r = SubSeq(g, n - 3, n)
    OBVIOUS
  <2>2. r = getCRC32(e)
    BY <1>2, <1>7, <1>10, <2>1, Zenon DEF CRCRight
  <2>3. \A j \in 1..4 : r[j] = <<"crc", j, e>>
    BY <2>2 DEF getCRC32
  <2>4. \A j \in 1..4 : r[j] = g[n - 4 + j]
    BY <1>1, <1>2, <2>1, LastFour
  <2> QED
    BY <2>3, <2>4
<1>11. ~CRCRight(g)
  <2> SUFFICES ASSUME CRCRight(g)
               PROVE  FALSE
    OBVIOUS
  <2>1. \A j \in 1..4 : g[n - 4 + j] = <<"crc", j, e>>
    BY <1>10
  <2>2. CASE i > n - 4
    <3>1. i - (n - 4) \in 1..4 /\ n - 4 + (i - (n - 4)) = i
      BY <1>1, <2>2
    <3>2. g[i] = <<"crc", i - (n - 4), e>>
      BY <2>1, <3>1
    <3>3. <<"other">> # <<"crc", i - (n - 4), e>>
      OBVIOUS
    <3> QED
      BY <1>4, <3>2, <3>3
  <2>3. CASE ~(i > n - 4)
    <3>1. i \in 1..n - 4 /\ n - 4 + 4 = n /\ n \in 1..n /\ n # i /\ 4 \in 1..4
      BY <1>1, <2>3
    <3>2. <<"crc", 4, e>> = <<"crc", 4, d>>
      BY <1>4, <1>9, <2>1, <3>1
    <3>3. <<"crc", 4, e>>[3] = e /\ <<"crc", 4, d>>[3] = d
      OBVIOUS
    <3>4. e = d
      BY <3>2, <3>3
    <3>5. g[i] = f[i]
      BY <1>8, <3>1, <3>4
    <3>6. \A j \in 1..n : g[j] = f[j]
      BY <1>4, <3>5
    <3>7. g = f
      BY <1>1, <1>2, <3>6, Equal
    <3> QED
      BY <3>7
  <2> QED
    BY <2>2, <2>3
<1> QED
  BY <1>11, Refused

LEMMA LengthOfFrame ==
    ASSUME NEW type, NEW alg \in Algorithms, NEW body, IsSeq(body), Len(body) \in 1..95,
           NEW f, f = WithCRC(Frame(type, alg, body))
    PROVE  \E n : IsFrameOfLength(f, n)
<1>1. PICK g : g = Frame(type, alg, body)
  OBVIOUS
<1>2. PICK h, k, c, l, m : FrameIs(g, type, alg, body, h, k, c, l, m)
  BY <1>1, FrameParts
<1>3. /\ h = Header(type, alg, 4 + l + m, m) /\ IsSeq(g) /\ LenIs(g, (9 + l) + m)
      /\ l \in {0, 16} /\ m \in 1..96 /\ \A i \in 1..9 : g[i] = h[i]
  BY <1>2, Zenon DEF FrameIs
<1>4. PICK n \in 14..125 : n = 13 + l + m
  BY <1>3
<1>5. /\ IsSeq(f) /\ Len(f) = Len(g) + 4 /\ CRCRight(f)
      /\ \A i \in 1..Len(g) : f[i] = g[i]
  BY <1>1, <1>3, CRCParts
<1>6. Len(g) = (9 + l) + m
  BY <1>3 DEF LenIs
<1>7. LenIs(f, n)
  BY <1>3, <1>4, <1>5, <1>6 DEF LenIs
<1>8. \A i \in 1..9 : f[i] = h[i]
  BY <1>3, <1>5, <1>6
<1>9. h[4] = Byte(0) /\ h[5] = Byte(4 + l + m) /\ h[6] = Byte(1)
  BY <1>3, HeaderSeq
<1>10. 4 + l + m = n - 9 /\ n - 9 \in 0..127 /\ 0 \in 0..127 /\ 1 \in 0..127
  BY <1>3, <1>4
<1>11. Byte(0) = <<"byte", 0>> /\ Byte(1) = <<"byte", 1>> /\ Byte(n - 9) = <<"byte", n - 9>>
  BY <1>10, SmallByte
<1>12. f[4] = <<"byte", 0>> /\ f[5] = <<"byte", n - 9>> /\ f[6] = <<"byte", 1>>
  BY <1>8, <1>9, <1>10, <1>11
<1> QED
  BY <1>5, <1>7, <1>12 DEF IsFrameOfLength

(* Nobody takes a frame for a message of which one byte was altered, lost or     *)
(* repeated, or that was cut short, whatever message it carries: of the checks   *)
(* of the receivers, those of length and CRC are enough (checkMessage of the     *)
(* client, unwrapAuthMessage of the server).                                     *)
THEOREM DamageRefused ==
    ASSUME NEW type, NEW alg \in Algorithms, NEW body, IsSeq(body), Len(body) \in 1..95,
           NEW g \in Broken(WithCRC(Frame(type, alg, body)))
    PROVE  IsRefused(g)
<1>1. PICK f : f = WithCRC(Frame(type, alg, body))
  OBVIOUS
<1>2. PICK n : IsFrameOfLength(f, n)
  BY <1>1, LengthOfFrame
<1>3. Len(f) = n
  BY <1>2 DEF IsFrameOfLength, LenIs
<1>4. g \in Broken(f)
  BY <1>1
<1>5. g # f /\ \E i \in 1..n : \/ g = [f EXCEPT ![i] = <<"other">>]
                               \/ g = SubSeq(f, 1, i - 1) \o SubSeq(f, i + 1, n)
                               \/ g = SubSeq(f, 1, i) \o SubSeq(f, i, n)
                               \/ g = SubSeq(f, 1, i - 1)
  BY <1>3, <1>4, Zenon DEF Broken
<1>6. PICK i \in 1..n : \/ g = [f EXCEPT ![i] = <<"other">>]
                        \/ g = SubSeq(f, 1, i - 1) \o SubSeq(f, i + 1, n)
                        \/ g = SubSeq(f, 1, i) \o SubSeq(f, i, n)
                        \/ g = SubSeq(f, 1, i - 1)
  BY <1>5, Zenon
<1>7. CASE g = [f EXCEPT ![i] = <<"other">>]
  BY <1>2, <1>5, <1>7, ByteAltered, Zenon DEF IsAltered
<1>8. CASE g = SubSeq(f, 1, i - 1) \o SubSeq(f, i + 1, n)
  BY <1>2, <1>8, ByteLost, Zenon
<1>9. CASE g = SubSeq(f, 1, i) \o SubSeq(f, i, n)
  BY <1>2, <1>9, ByteRepeated, Zenon
<1>10. CASE g = SubSeq(f, 1, i - 1)
  BY <1>2, <1>10, CutShort, Zenon
<1> QED
  BY <1>6, <1>7, <1>8, <1>9, <1>10, Zenon

\* Each of the frames the runs damage is one of those.
FrameOf(type, alg, n) ==
    CASE type = ACCESS_AUTH_RESPONSE ->
            wrapReply(type, alg, ResponseBody(DeviceID(n), Salt, 1000, ServerNonce), {KeyID})
      [] type = ACCESS_AUTH_SERVER_PROOF -> ServerProofFrame(alg, n)
      [] OTHER -> wrapAuthMessage(type, alg, DeviceID(n), ClientNonce)

LEMMA FramesCarry ==
    ASSUME NEW type, NEW f \in Frames(type, {5, 25})
    PROVE  \E alg, body : /\ alg \in Algorithms /\ IsSeq(body) /\ Len(body) \in 1..95
                          /\ f = WithCRC(Frame(type, alg, body))
<1>1. PICK alg \in Algorithms, n \in {5, 25} : f = FrameOf(type, alg, n)
  <2>1. Frames(type, {5, 25}) = {FrameOf(type, alg, n) : alg \in Algorithms, n \in {5, 25}}
    BY DEF Frames, FrameOf
  <2> QED
    BY <2>1
<1>2. n \in DeviceIDLengths /\ n + 33 \in 1..95 /\ n + 69 \in 1..95
  BY DEF DeviceIDLengths
<1>3. CASE type = ACCESS_AUTH_RESPONSE
  <2>1. PICK body : body = ResponseBody(DeviceID(n), Salt, 1000, ServerNonce)
    OBVIOUS
  <2>2. LenIs(body, n + 69)
    <3>1. IsShort(1000)
      BY DEF IsShort
    <3> QED
      BY <1>2, <2>1, <3>1, Bodies
  <2>3. IsSeq(body) /\ Len(body) \in 1..95
    BY <1>2, <2>2 DEF LenIs
  <2>4. ACCESS_AUTH_RESPONSE # ACCESS_AUTH_SERVER_PROOF
    BY DEF ACCESS_AUTH_RESPONSE, ACCESS_AUTH_SERVER_PROOF
  <2>5. f = wrapReply(type, alg, body, {KeyID})
    <3>1. type # ACCESS_AUTH_SERVER_PROOF
      BY <1>3, <2>4
    <3>2. FrameOf(type, alg, n) =
              wrapReply(type, alg, ResponseBody(DeviceID(n), Salt, 1000, ServerNonce), {KeyID})
      BY <1>3, <3>1, Zenon DEF FrameOf
    <3> QED
      BY <1>1, <2>1, <3>2, Zenon
  <2> QED
    BY <2>3, <2>5, KeyID \in {KeyID}, ServerWraps
<1>4. CASE type = ACCESS_AUTH_SERVER_PROOF
  <2>1. PICK body : body = ServerProofBody(DeviceID(n), Proof)
    OBVIOUS
  <2>2. LenIs(body, n + 33)
    BY <1>2, <2>1, Bodies
  <2>3. IsSeq(body) /\ Len(body) \in 1..95
    BY <1>2, <2>2 DEF LenIs
  <2>4. ACCESS_AUTH_RESPONSE # ACCESS_AUTH_SERVER_PROOF
    BY DEF ACCESS_AUTH_RESPONSE, ACCESS_AUTH_SERVER_PROOF
  <2>5. f = wrapReply(type, alg, body, {KeyID})
    <3>1. type # ACCESS_AUTH_RESPONSE
      BY <1>4, <2>4
    <3>2. FrameOf(type, alg, n) = ServerProofFrame(alg, n)
      BY <1>4, <3>1, Zenon DEF FrameOf
    <3> QED
      BY <1>1, <1>4, <2>1, <3>2, Zenon DEF ServerProofFrame
  <2> QED
    BY <2>3, <2>5, KeyID \in {KeyID}, ServerWraps
<1>5. CASE type # ACCESS_AUTH_RESPONSE /\ type # ACCESS_AUTH_SERVER_PROOF
  <2>1. PICK body : body = Body(DeviceID(n), ClientNonce)
    OBVIOUS
  <2>2. LenIs(body, n + 33)
    BY <1>2, <2>1, Bodies
  <2>3. IsSeq(body) /\ Len(body) \in 1..95
    BY <1>2, <2>2 DEF LenIs
  <2>4. f = wrapAuthMessage(type, alg, DeviceID(n), ClientNonce)
    BY <1>1, <1>5, Zenon DEF FrameOf
  <2>5. /\ IsSeq(DeviceID(n)) /\ Len(DeviceID(n)) \in 5..25
        /\ IsSeq(ClientNonce) /\ 32 = Len(ClientNonce)
    BY <1>2, Fields DEF IsDeviceID, LenIs, DeviceIDLengths
  <2>6. f = WithCRC(Frame(type, alg, body))
    BY <2>1, <2>4, <2>5, ClientWraps
  <2> QED
    BY <2>3, <2>6
<1> QED
  BY <1>3, <1>4, <1>5

LEMMA StatusIsShort ==
    ASSUME NEW type, NEW status
    PROVE  IsRefused(wrapMessageStatus(type, status))
<1>1. PICK b : b = <<Byte(0), Byte(120)>>
  OBVIOUS
<1>2. bigEndianAddShortToBytes(RequestID) = b
  BY <1>1 DEF bigEndianAddShortToBytes, RequestID
<1>3. PICK a : a = <<Byte(type)>>
  OBVIOUS
<1>4. PICK c : c = <<Byte(status)>>
  OBVIOUS
<1>5. PICK x : x = a \o b
  OBVIOUS
<1>6. PICK g : g = x \o c
  OBVIOUS
<1>7. LenIs(a, 1) /\ LenIs(b, 2) /\ LenIs(c, 1)
  BY <1>1, <1>3, <1>4, Single, Pair DEF LenIs
<1>8. LenIs(x, 1 + 2)
  BY <1>5, <1>7, JoinedLen
<1>9. LenIs(g, (1 + 2) + 1)
  BY <1>6, <1>7, <1>8, JoinedLen
<1>10. (1 + 2) + 1 \in Nat /\ (1 + 2) + 1 < 5 /\ 0 \in Int
  OBVIOUS
<1>11. IsRefused(g)
  BY <1>9, <1>10, OtherLength
<1>12. wrapMessageStatus(type, status) = g
  BY <1>2, <1>3, <1>4, <1>5, <1>6, Zenon DEF wrapMessageStatus
<1> QED
  BY <1>11, <1>12

(* Nobody takes a damaged frame of any type for a message, and nobody takes a    *)
(* failure for one (the checks of checkMessage and unwrapAuthMessage; sendFailed *)
(* and wrapReply of the server).                                                 *)
THEOREM AllDamageNoticed ==
    (\A type \in MessageTypes : DamageNoticed[type]) /\ FailureNoticed
<1>1. ASSUME NEW type \in MessageTypes
      PROVE  DamageNoticed[type]
  <2>1. ASSUME NEW f \in Frames(type, {5, 25}), NEW g \in Broken(f)
        PROVE  IsRefused(g)
    <3>1. PICK alg, body : /\ alg \in Algorithms /\ IsSeq(body) /\ Len(body) \in 1..95
                           /\ f = WithCRC(Frame(type, alg, body))
      BY FramesCarry
    <3>2. g \in Broken(WithCRC(Frame(type, alg, body)))
      BY <3>1
    <3> QED
      BY <3>1, <3>2, DamageRefused
  <2> QED
    BY <2>1, Zenon DEF DamageNoticed
<1>2. FailureNoticed
  <2> SUFFICES ASSUME NEW type \in {ACCESS_AUTH_RESPONSE, ACCESS_AUTH_SERVER_PROOF}
               PROVE  /\ IsRefused(wrapMessageStatus(type, 1))
                      /\ IsRefused(wrapReply(type, ENCRYPTION_ALGORITHM_AES, <<>>, {}))
    BY Zenon DEF FailureNoticed
  <2>1. IsRefused(wrapMessageStatus(type, 1)) /\ IsRefused(wrapMessageStatus(type + 1, 1))
    BY StatusIsShort
  <2>2. KeyID \notin {}
    OBVIOUS
  <2>3. wrapReply(type, ENCRYPTION_ALGORITHM_AES, <<>>, {}) = wrapMessageStatus(type + 1, 1)
    BY <2>2, Zenon DEF wrapReply
  <2> QED
    BY <2>1, <2>3
<1> QED
  BY <1>1, <1>2
================================================================================
