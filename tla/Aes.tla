---------------------------------- MODULE Aes ----------------------------------
(***************************************************************************)
(* CSRC/aes.c, as it is built: AES by tables that are generated at the first *)
(* use.  A byte is a number, a word of 32 bits the tuple of its bytes, the   *)
(* lowest first, so that the macros that shift and mask are indices; T holds *)
(* what the tables contain when they are read.                               *)
(***************************************************************************)
EXTENDS Naturals, Sequences

Byte == 0..255
Word == [1..4 -> Byte]
Block == [1..4 -> Word]

\* What x has become after any number of steps; G is given the number of each.
Steps(G, x) ==
    LET after[n \in Nat] == IF n = 0 THEN x ELSE G[n][after[n - 1]]
    IN after

\* The exclusive or of two bytes, the sum of its bits; of two words ...
Bit(a, w) == (a \div w) % 2
Weight == <<1, 2, 4, 8, 16, 32, 64, 128>>
XorBit(a, b, w) == IF Bit(a, w) = Bit(b, w) THEN 0 ELSE w

Xor == [a \in Byte |-> [b \in Byte |->
    Steps([n \in Nat |-> [s \in Nat |-> s + XorBit(a, b, Weight[n])]], 0)[8]]]

u (+) v == <<Xor[u[1]][v[1]], Xor[u[2]][v[2]], Xor[u[3]][v[3]], Xor[u[4]][v[4]]>>

\* ... and of two blocks.
XorBlock(a, b) == <<a[1] (+) b[1], a[2] (+) b[2], a[3] (+) b[3], a[4] (+) b[4]>>

XTIME(x) == IF x < 128 THEN 2 * x ELSE Xor[2 * x - 256][27]

\* w rotated k times by a byte.
ROTL8(w, k) == [i \in 1..4 |-> w[((i + 3 - k) % 4) + 1]]

--------------------------------------------------------------------------------
(* aes_gen_tables *)

\* pow[i] is Pow[i + 1]; of the two entries that are 1, log has the last.
Times3(x) == Xor[x][XTIME(x)]
Pow == Steps([n \in Nat |-> [s \in Seq(Byte) |-> Append(s, Times3(s[n]))]], <<1>>)[255]
Log == [x \in 1..255 |-> CHOOSE i \in 1..255 : Pow[i + 1] = x]

MUL(x, y) == IF x = 0 \/ y = 0 THEN 0 ELSE Pow[((Log[x] + Log[y]) % 255) + 1]

GenRCON == Steps([n \in Nat |-> [s \in Seq(Byte) |-> Append(s, XTIME(s[n]))]], <<1>>)[9]

\* y rotated by k bits.
Rotl(y, k) == ((y * 2^k) % 256) + (y * 2^k) \div 256

GenFSb == [i \in Byte |->
    IF i = 0 THEN 99
    ELSE LET x == Pow[255 - Log[i] + 1]
         IN Xor[Xor[Xor[x][Rotl(x, 1)]][Xor[Rotl(x, 2)][Rotl(x, 3)]]][Xor[Rotl(x, 4)][99]]]

GenRSb == [x \in Byte |-> CHOOSE i \in Byte : GenFSb[i] = x]

\* Table k of four is table 0 with its words rotated k times.
Rotations(t0) == [k \in 1..4 |-> [i \in Byte |-> ROTL8(t0[i], k - 1)]]

GenFT == Rotations([i \in Byte |->
    LET x == GenFSb[i]
        y == XTIME(x)
    IN <<y, x, x, Xor[y][x]>>])

GenRT == Rotations([i \in Byte |->
    LET x == GenRSb[i] IN <<MUL(14, x), MUL(9, x), MUL(13, x), MUL(11, x)>>])

Groups == {"RCON", "Sb", "T"}

Zeros == [i \in Byte |-> 0]
ZeroWords == [i \in Byte |-> <<0, 0, 0, 0>>]

\* The tables when those of the groups g have been generated.
Tables(g) ==
    [RCON |-> IF "RCON" \in g THEN GenRCON ELSE <<0, 0, 0, 0, 0, 0, 0, 0, 0, 0>>,
     FSb |-> IF "Sb" \in g THEN GenFSb ELSE Zeros,
     RSb |-> IF "Sb" \in g THEN GenRSb ELSE Zeros,
     FT |-> IF "T" \in g THEN GenFT ELSE <<ZeroWords, ZeroWords, ZeroWords, ZeroWords>>,
     RT |-> IF "T" \in g THEN GenRT ELSE <<ZeroWords, ZeroWords, ZeroWords, ZeroWords>>]

--------------------------------------------------------------------------------
(* Key schedules.  A context is the number of rounds and the round keys. *)

GET_ULONG_LE(b, i) == <<b[i + 1], b[i + 2], b[i + 3], b[i + 4]>>

KeyLengths == {16, 24, 32}

Sub(sb, w) == <<sb[w[1]], sb[w[2]], sb[w[3]], sb[w[4]]>>

\* Faulty variant: the middle word is substituted for keys of six words, too.
NextRKOfLong(T, RK, k) ==
    LET i == Len(RK)
        last == RK[i]
        w == IF i % k = 0
             THEN <<T.RCON[i \div k], 0, 0, 0>>
                      (+) Sub(T.FSb, <<last[2], last[3], last[4], last[1]>>)
             ELSE IF k >= 6 /\ i % k = 4 THEN Sub(T.FSb, last)
             ELSE last
    IN Append(RK, RK[i - k + 1] (+) w)

\* RK with its next word, for keys of k words.
NextRK(T, RK, k) ==
    LET i == Len(RK)
        last == RK[i]
        w == IF i % k = 0
             THEN <<T.RCON[i \div k], 0, 0, 0>>
                      (+) Sub(T.FSb, <<last[2], last[3], last[4], last[1]>>)
             ELSE IF k = 8 /\ i % k = 4 THEN Sub(T.FSb, last)
             ELSE last
    IN Append(RK, RK[i - k + 1] (+) w)

aes_setkey_enc(T, key) ==
    LET k == Len(key) \div 4
        Next == [n \in Nat |-> [RK \in Seq(Word) |-> NextRK(T, RK, k)]]
    IN [nr |-> k + 6, rk |-> Steps(Next, [i \in 1..k |-> GET_ULONG_LE(key, 4 * (i - 1))])[3 * k + 28]]

\* The round keys in reverse order, all but the outermost through the tables.
aes_setkey_dec(T, key) ==
    LET cty == aes_setkey_enc(T, key)
        SK(i) == cty.rk[4 * (cty.nr - (i - 1) \div 4) + ((i - 1) % 4) + 1]
        RT(w) == T.RT[1][T.FSb[w[1]]] (+) T.RT[2][T.FSb[w[2]]]
                 (+) T.RT[3][T.FSb[w[3]]] (+) T.RT[4][T.FSb[w[4]]]
    IN [nr |-> cty.nr,
        rk |-> [i \in 1..Len(cty.rk) |-> IF 4 < i /\ i <= 4 * cty.nr THEN RT(SK(i)) ELSE SK(i)]]

--------------------------------------------------------------------------------
(* Blocks, as four words. *)

Next4(i, n) == ((i + n - 1) % 4) + 1

\* Column i takes its second byte from the next column, and so on ...
FColumn(T, K, Y, i) ==
    K[i] (+) T.FT[1][Y[i][1]] (+) T.FT[2][Y[Next4(i, 1)][2]]
         (+) T.FT[3][Y[Next4(i, 2)][3]] (+) T.FT[4][Y[Next4(i, 3)][4]]

LastFColumn(T, K, Y, i) ==
    K[i] (+) Sub(T.FSb, <<Y[i][1], Y[Next4(i, 1)][2], Y[Next4(i, 2)][3], Y[Next4(i, 3)][4]>>)

\* ... and back, from the one before.
RColumn(T, K, Y, i) ==
    K[i] (+) T.RT[1][Y[i][1]] (+) T.RT[2][Y[Next4(i, 3)][2]]
         (+) T.RT[3][Y[Next4(i, 2)][3]] (+) T.RT[4][Y[Next4(i, 1)][4]]

LastRColumn(T, K, Y, i) ==
    K[i] (+) Sub(T.RSb, <<Y[i][1], Y[Next4(i, 3)][2], Y[Next4(i, 2)][3], Y[Next4(i, 1)][4]>>)

AES_FROUND(T, K, Y) == <<FColumn(T, K, Y, 1), FColumn(T, K, Y, 2),
                         FColumn(T, K, Y, 3), FColumn(T, K, Y, 4)>>
AES_RROUND(T, K, Y) == <<RColumn(T, K, Y, 1), RColumn(T, K, Y, 2),
                         RColumn(T, K, Y, 3), RColumn(T, K, Y, 4)>>
LastFRound(T, K, Y) == <<LastFColumn(T, K, Y, 1), LastFColumn(T, K, Y, 2),
                         LastFColumn(T, K, Y, 3), LastFColumn(T, K, Y, 4)>>
LastRRound(T, K, Y) == <<LastRColumn(T, K, Y, 1), LastRColumn(T, K, Y, 2),
                         LastRColumn(T, K, Y, 3), LastRColumn(T, K, Y, 4)>>

RoundKey(ctx, r) ==
    <<ctx.rk[4 * r + 1], ctx.rk[4 * r + 2], ctx.rk[4 * r + 3], ctx.rk[4 * r + 4]>>

aes_crypt_ecb(T, ctx, mode, input) ==
    LET Round == [r \in Nat |-> [X \in Block |->
            IF mode = "decrypt" THEN AES_RROUND(T, RoundKey(ctx, r), X)
                                ELSE AES_FROUND(T, RoundKey(ctx, r), X)]]
        X == Steps(Round, XorBlock(input, RoundKey(ctx, 0)))[ctx.nr - 1]
    IN IF mode = "decrypt" THEN LastRRound(T, RoundKey(ctx, ctx.nr), X)
                           ELSE LastFRound(T, RoundKey(ctx, ctx.nr), X)

\* Block b of the bytes of s, and the bytes of some blocks.
BlockOf(s, b) ==
    <<GET_ULONG_LE(s, 16 * b - 16), GET_ULONG_LE(s, 16 * b - 12),
      GET_ULONG_LE(s, 16 * b - 8), GET_ULONG_LE(s, 16 * b - 4)>>

PUT_ULONG_LE(out) == [i \in 1..16 * Len(out) |->
    out[((i - 1) \div 16) + 1][(((i - 1) % 16) \div 4) + 1][((i - 1) % 4) + 1]]

\* The next block of output: what is chained to it is a block of input or of output.
NextBlock(T, ctx, mode, iv, input, out, b) ==
    LET temp == BlockOf(input, b)
        before(s) == IF b = 1 THEN iv ELSE s
    IN IF mode = "decrypt"
       THEN XorBlock(aes_crypt_ecb(T, ctx, mode, temp), before(BlockOf(input, b - 1)))
       ELSE aes_crypt_ecb(T, ctx, mode, XorBlock(temp, before(out[b - 1])))

\* <<>> for POLARSSL_ERR_AES_INVALID_INPUT_LENGTH, which an empty input never is.
aes_crypt_cbc(T, ctx, mode, iv, input) ==
    LET Next == [b \in Nat |-> [out \in Seq(Block) |->
                    Append(out, NextBlock(T, ctx, mode, iv, input, out, b))]]
    IN IF Len(input) % 16 # 0 THEN <<>>
       ELSE PUT_ULONG_LE(Steps(Next, <<>>)[Len(input) \div 16])

--------------------------------------------------------------------------------
(* The tables that POLARSSL_AES_ROM_TABLES would put in place of the generated. *)

RomFSb == <<
    99, 124, 119, 123, 242, 107, 111, 197, 48, 1, 103, 43, 254, 215, 171, 118, 202, 130, 201, 125,
    250, 89, 71, 240, 173, 212, 162, 175, 156, 164, 114, 192, 183, 253, 147, 38, 54, 63, 247, 204,
    52, 165, 229, 241, 113, 216, 49, 21, 4, 199, 35, 195, 24, 150, 5, 154, 7, 18, 128, 226,
    235, 39, 178, 117, 9, 131, 44, 26, 27, 110, 90, 160, 82, 59, 214, 179, 41, 227, 47, 132,
    83, 209, 0, 237, 32, 252, 177, 91, 106, 203, 190, 57, 74, 76, 88, 207, 208, 239, 170, 251,
    67, 77, 51, 133, 69, 249, 2, 127, 80, 60, 159, 168, 81, 163, 64, 143, 146, 157, 56, 245,
    188, 182, 218, 33, 16, 255, 243, 210, 205, 12, 19, 236, 95, 151, 68, 23, 196, 167, 126, 61,
    100, 93, 25, 115, 96, 129, 79, 220, 34, 42, 144, 136, 70, 238, 184, 20, 222, 94, 11, 219,
    224, 50, 58, 10, 73, 6, 36, 92, 194, 211, 172, 98, 145, 149, 228, 121, 231, 200, 55, 109,
    141, 213, 78, 169, 108, 86, 244, 234, 101, 122, 174, 8, 186, 120, 37, 46, 28, 166, 180, 198,
    232, 221, 116, 31, 75, 189, 139, 138, 112, 62, 181, 102, 72, 3, 246, 14, 97, 53, 87, 185,
    134, 193, 29, 158, 225, 248, 152, 17, 105, 217, 142, 148, 155, 30, 135, 233, 206, 85, 40, 223,
    140, 161, 137, 13, 191, 230, 66, 104, 65, 153, 45, 15, 176, 84, 187, 22>>

RomRSb == <<
    82, 9, 106, 213, 48, 54, 165, 56, 191, 64, 163, 158, 129, 243, 215, 251, 124, 227, 57, 130,
    155, 47, 255, 135, 52, 142, 67, 68, 196, 222, 233, 203, 84, 123, 148, 50, 166, 194, 35, 61,
    238, 76, 149, 11, 66, 250, 195, 78, 8, 46, 161, 102, 40, 217, 36, 178, 118, 91, 162, 73,
    109, 139, 209, 37, 114, 248, 246, 100, 134, 104, 152, 22, 212, 164, 92, 204, 93, 101, 182, 146,
    108, 112, 72, 80, 253, 237, 185, 218, 94, 21, 70, 87, 167, 141, 157, 132, 144, 216, 171, 0,
    140, 188, 211, 10, 247, 228, 88, 5, 184, 179, 69, 6, 208, 44, 30, 143, 202, 63, 15, 2,
    193, 175, 189, 3, 1, 19, 138, 107, 58, 145, 17, 65, 79, 103, 220, 234, 151, 242, 207, 206,
    240, 180, 230, 115, 150, 172, 116, 34, 231, 173, 53, 133, 226, 249, 55, 232, 28, 117, 223, 110,
    71, 241, 26, 113, 29, 41, 197, 137, 111, 183, 98, 14, 170, 24, 190, 27, 252, 86, 62, 75,
    198, 210, 121, 32, 154, 219, 192, 254, 120, 205, 90, 244, 31, 221, 168, 51, 136, 7, 199, 49,
    177, 18, 16, 89, 39, 128, 236, 95, 96, 81, 127, 169, 25, 181, 74, 13, 45, 229, 122, 159,
    147, 201, 156, 239, 160, 224, 59, 77, 174, 42, 245, 176, 200, 235, 187, 60, 131, 83, 153, 97,
    23, 43, 4, 126, 186, 119, 214, 38, 225, 105, 20, 99, 85, 33, 12, 125>>

RomRCON == <<1, 2, 4, 8, 16, 32, 64, 128, 27, 54>>

--------------------------------------------------------------------------------
(* What there is to know of the 256 bytes; it has no parameter, and TLC computes it. *)

\* The tables that are generated are those that aes.c has for its ROM.
ASSUME TablesOfRom ==
    /\ GenRCON = RomRCON
    /\ \A i \in Byte : GenFSb[i] = RomFSb[i + 1] /\ GenRSb[i] = RomRSb[i + 1]

\* The second is the inverse of the first.
ASSUME SubstitutionInverse ==
    \A i \in Byte : GenFSb[i] \in Byte /\ GenRSb[i] \in Byte /\ GenRSb[GenFSb[i]] = i

Four(p, q, r, s) == Xor[Xor[p][q]][Xor[r][s]]

\* Multiplication by the four factors of the inverse columns is linear ...
Factors == {9, 11, 13, 14}
ASSUME MulLinear ==
    \A c \in Factors, x \in Byte :
        /\ MUL(c, x) \in Byte
        /\ \A y \in Byte : MUL(c, Xor[x][y]) = Xor[MUL(c, x)][MUL(c, y)]

\* ... and takes back what the factors 2, 3, 1 and 1 have done.
ASSUME ColumnsInverse ==
    \A x \in Byte :
        LET y == XTIME(x)
            z == Times3(x)
        IN /\ Four(MUL(14, y), MUL(11, x), MUL(13, x), MUL(9, z)) = x
           /\ Four(MUL(14, z), MUL(11, y), MUL(13, x), MUL(9, x)) = 0
           /\ Four(MUL(14, x), MUL(11, z), MUL(13, y), MUL(9, x)) = 0
           /\ Four(MUL(14, x), MUL(11, x), MUL(13, z), MUL(9, y)) = 0
================================================================================
