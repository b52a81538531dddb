--------------------------------- MODULE Cipher --------------------------------
(***************************************************************************)
(* CSRC/crypto.c over aes.c: what the calls of QkeyFile.c encrypt and decrypt *)
(* with, by threads of one process.  The tables are shared by the threads and *)
(* are generated by whoever finds that aes_init_done is not set; everything   *)
(* else is on the stack of the call.                                          *)
(***************************************************************************)
EXTENDS Aes, Integers, FiniteSets

CONSTANTS
    Thread,
    Text, Keys,     \* byte strings that are encrypted, and under which
    Sample,         \* keys of all lengths that aes.c has, and one that it has not
    MaxSealed       \* bound: different ciphertexts when another Encrypt begins

VARIABLES
    aes_init_done,
    generated,      \* the groups of tables that are filled
    call,           \* per thread: where it is, in which call, and what it has
    sealed          \* what Encrypt has given: key, text and ciphertext

vars == <<aes_init_done, generated, call, sealed>>

CryptType == {"CRYPTO_NULL", "CRYPTO_AES_CBC"}
Fun == {"encrypt", "decrypt"}
At == {"idle", "check", "RCON", "Sb", "T", "flag", "schedule", "crypt", "returned"}
NoContext == [nr |-> 0, rk |-> <<>>]
Idle == [at |-> "idle"]

ASSUME CipherAssumption ==
    /\ Text \cup Keys \cup Sample \subseteq Seq(Byte)
    /\ MaxSealed \in Nat \ {0}

Blocks(s) == Len(s) \div 16

TypeOK ==
    /\ aes_init_done \in BOOLEAN
    /\ generated \subseteq Groups
    /\ \A t \in Thread : call[t] # Idle =>
         /\ call[t].at \in At /\ call[t].fun \in Fun
         /\ call[t].key \in Keys /\ call[t].ctx.nr \in {0, 14}
         /\ call[t].ret \in {0, -1}
         /\ call[t].len \in -239..Len(call[t].out)
    /\ \A s \in sealed : Blocks(s.out) = Blocks(s.text) + 1 /\ Len(s.out) % 16 = 0

Init ==
    /\ aes_init_done = FALSE /\ generated = {}
    /\ call = [t \in Thread |-> Idle]
    /\ sealed = {}

--------------------------------------------------------------------------------
(* Encrypt and Decrypt *)

\* Faulty variant: a text of whole blocks is left as it is.
PadsPartBlock(text) ==
    LET paddingLen == (16 - (Len(text) % 16)) % 16
    IN text \o [i \in 1..paddingLen |-> paddingLen]

\* PKCS#7: a text of whole blocks gets one more.
PaddingData(text) ==
    LET paddingLen == 16 - (Len(text) % 16)
    IN text \o [i \in 1..paddingLen |-> paddingLen]

GetPaddingDataLen(out) == out[Len(out)]

Iv == BlockOf([i \in 1..16 |-> 0], 1)

Goes(t, new) == call' = [call EXCEPT ![t] = new]

\* The arguments are checked; what is refused has its result at once.
Begins(t, type, fun, text, key) ==
    LET refused == type = "CRYPTO_NULL" \/ Len(key) # 32 \/ text = <<>>
    IN /\ call[t].at = "idle"
       /\ Goes(t, [at |-> IF refused THEN "returned" ELSE "check", fun |-> fun, text |-> text,
                   key |-> key, ctx |-> NoContext,
                   ret |-> IF refused THEN -1 ELSE 0, out |-> <<>>, len |-> 0])
       /\ UNCHANGED <<aes_init_done, generated, sealed>>

Encrypt(t, type, text, key) ==
    /\ Cardinality(sealed) < MaxSealed
    /\ Begins(t, type, "encrypt", text, key)

Decrypt(t, type, text, key) == Begins(t, type, "decrypt", text, key)

--------------------------------------------------------------------------------
(* aes_setkey_enc, which aes_setkey_dec calls first, begins with the tables. *)

\* Faulty variant: it is noted that the tables are there before they are.
ChecksAndSets(t) ==
    /\ call[t].at = "check"
    /\ Goes(t, [call[t] EXCEPT !.at = IF aes_init_done THEN "schedule" ELSE "RCON"])
    /\ aes_init_done' = TRUE
    /\ UNCHANGED <<generated, sealed>>

Checks(t) ==
    /\ call[t].at = "check"
    /\ Goes(t, [call[t] EXCEPT !.at = IF aes_init_done THEN "schedule" ELSE "RCON"])
    /\ UNCHANGED <<aes_init_done, generated, sealed>>

\* The values written are the same whoever writes them, and however often.
aes_gen_tables(t) ==
    /\ call[t].at \in Groups
    /\ generated' = generated \cup {call[t].at}
    /\ Goes(t, [call[t] EXCEPT !.at =
                    CASE @ = "RCON" -> "Sb" [] @ = "Sb" -> "T" [] @ = "T" -> "flag"])
    /\ UNCHANGED <<aes_init_done, sealed>>

Sets(t) ==
    /\ call[t].at = "flag"
    /\ aes_init_done' = TRUE
    /\ Goes(t, [call[t] EXCEPT !.at = "schedule"])
    /\ UNCHANGED <<generated, sealed>>

\* Faulty variant: the schedule for decryption is that for encryption.
SchedulesEnc(t) ==
    /\ call[t].at = "schedule"
    /\ Goes(t, [call[t] EXCEPT !.at = "crypt",
                               !.ctx = aes_setkey_enc(Tables(generated), call[t].key)])
    /\ UNCHANGED <<aes_init_done, generated, sealed>>

Schedules(t) ==
    LET T == Tables(generated)
    IN /\ call[t].at = "schedule"
       /\ Goes(t, [call[t] EXCEPT !.at = "crypt",
                                  !.ctx = IF call[t].fun = "encrypt"
                                          THEN aes_setkey_enc(T, call[t].key)
                                          ELSE aes_setkey_dec(T, call[t].key)])
       /\ UNCHANGED <<aes_init_done, generated, sealed>>

\* The end of AesEncrypt ...
AesEncrypt(t) ==
    LET out == aes_crypt_cbc(Tables(generated), call[t].ctx, "encrypt", Iv,
                             PaddingData(call[t].text))
    IN /\ call[t].at = "crypt" /\ call[t].fun = "encrypt"
       /\ Goes(t, [call[t] EXCEPT !.at = "returned", !.out = out, !.len = Len(out)])
       /\ sealed' = sealed \cup {[key |-> call[t].key, text |-> call[t].text, out |-> out]}
       /\ UNCHANGED <<aes_init_done, generated>>

\* ... and of AesDecrypt, which does not ask whether the padding can be one.
AesDecrypt(t) ==
    LET out == aes_crypt_cbc(Tables(generated), call[t].ctx, "decrypt", Iv, call[t].text)
    IN /\ call[t].at = "crypt" /\ call[t].fun = "decrypt"
       /\ Goes(t, IF out = <<>>
                  THEN [call[t] EXCEPT !.at = "returned", !.ret = -1]
                  ELSE [call[t] EXCEPT !.at = "returned", !.out = out,
                                       !.len = Len(out) - GetPaddingDataLen(out)])
       /\ UNCHANGED <<aes_init_done, generated, sealed>>

Returns(t) ==
    /\ call[t].at = "returned"
    /\ Goes(t, Idle)
    /\ UNCHANGED <<aes_init_done, generated, sealed>>

\* What comes to be decrypted: what was encrypted, all of it or the part that arrived.
Arriving == UNION {{s.out, SubSeq(s.out, 1, Len(s.out) - 1)} : s \in sealed}

Step(t) ==
    \/ \E type \in CryptType, key \in Keys :
         \/ \E text \in Text : Encrypt(t, type, text, key)
         \/ \E text \in Arriving : Decrypt(t, type, text, key)
    \/ Checks(t)
    \/ aes_gen_tables(t)
    \/ Sets(t)
    \/ Schedules(t)
    \/ AesEncrypt(t)
    \/ AesDecrypt(t)
    \/ Returns(t)

Next == \E t \in Thread : Step(t)

Spec == Init /\ [][Next]_vars

--------------------------------------------------------------------------------
(* The standard's cipher, on the columns of its state, with the constants that  *)
(* aes.c has for its ROM.                                                       *)

SBox == [x \in Byte |-> RomFSb[x + 1]]
SubWord(w) == [r \in 1..4 |-> SBox[w[r]]]
RotWord(w) == <<w[2], w[3], w[4], w[1]>>

SubBytes(s) == [c \in 1..4 |-> SubWord(s[c])]
ShiftRows(s) == [c \in 1..4 |-> [r \in 1..4 |-> s[Next4(c, r - 1)][r]]]
MixColumn(w) == [r \in 1..4 |->
    Four(XTIME(w[r]), Times3(w[Next4(r, 1)]), w[Next4(r, 2)], w[Next4(r, 3)])]
MixColumns(s) == [c \in 1..4 |-> MixColumn(s[c])]

KeyExpansion(key) ==
    LET Nk == Len(key) \div 4
        temp(w, i) == IF i % Nk = 0 THEN <<RomRCON[i \div Nk], 0, 0, 0>> (+) SubWord(RotWord(w[i]))
                      ELSE IF Nk > 6 /\ i % Nk = 4 THEN SubWord(w[i]) ELSE w[i]
        Grow == [n \in Nat |-> [w \in Seq(Word) |->
                    LET i == Len(w) IN Append(w, w[i - Nk + 1] (+) temp(w, i))]]
    IN Steps(Grow, [i \in 1..Nk |-> SubSeq(key, 4 * i - 3, 4 * i)])[3 * Nk + 28]

StandardBlock(key, block) ==
    LET Nr == Len(key) \div 4 + 6
        w == KeyExpansion(key)
        AddRoundKey(s, r) == XorBlock(s, SubSeq(w, 4 * r + 1, 4 * r + 4))
        Round == [r \in Nat |-> [s \in Block |->
                    AddRoundKey(MixColumns(ShiftRows(SubBytes(s))), r)]]
        last == Steps(Round, AddRoundKey(block, 0))[Nr - 1]
    IN AddRoundKey(ShiftRows(SubBytes(last)), Nr)

\* What block b of the text is chained to, and what becomes of it.
Before(iv, out, b) == IF b = 1 THEN iv ELSE out[b - 1]
Chained(key, iv, text, out, b) == StandardBlock(key, XorBlock(BlockOf(text, b), Before(iv, out, b)))

StandardCBC(key, iv, text) ==
    LET Chain == [b \in Nat |-> [out \in Seq(Block) |->
            Append(out, Chained(key, iv, text, out, b))]]
    IN PUT_ULONG_LE(Steps(Chain, <<>>)[Blocks(text)])

Padded(text) ==
    LET missing == 16 - (Len(text) % 16) IN text \o [i \in 1..missing |-> missing]

\* Columns by the factors 14, 11, 13 and 9, which take MixColumns back.
Unmixed(a, b, c, d) == Four(MUL(14, a), MUL(11, b), MUL(13, c), MUL(9, d))
UnmixWord(w) == <<Unmixed(w[1], w[2], w[3], w[4]), Unmixed(w[2], w[3], w[4], w[1]),
                  Unmixed(w[3], w[4], w[1], w[2]), Unmixed(w[4], w[1], w[2], w[3])>>
UnmixBlock(x) == [i \in 1..4 |-> UnmixWord(x[i])]

\* The keys of the rounds; for the inverse cipher in reverse, the inner ones unmixed.
RK(w, r) == <<w[4 * r + 1], w[4 * r + 2], w[4 * r + 3], w[4 * r + 4]>>
StandardKeys(fun, key) ==
    LET Nr == Len(key) \div 4 + 6
        w == KeyExpansion(key)
    IN [r \in 0..Nr |-> IF fun = "encrypt" THEN RK(w, r)
                        ELSE IF r \in 1..Nr - 1 THEN UnmixBlock(RK(w, Nr - r))
                        ELSE RK(w, Nr - r)]

\* What each text should become, and the keys of the rounds; computed once.
Keys32 == {key \in Keys : Len(key) = 32}
StandardRounds == [key \in Keys32 |-> [fun \in Fun |-> StandardKeys(fun, key)]]
Standard == [key \in Keys32 |->
                [text \in Text |-> StandardCBC(key, Iv, Padded(text))]]
StandardSample == [key \in {k \in Sample : Len(k) \in KeyLengths} |->
                      StandardBlock(key, BlockOf(key, 1))]

--------------------------------------------------------------------------------
(* Whatever the threads do at the same time, what Encrypt gives is AES-256 in   *)
(* CBC mode of the padded text: no schedule and no round saw a table that was   *)
(* not yet there.                                                               *)
CipherRight == \A s \in sealed : s.out = Standard[s.key][s.text]

(* Decrypt under the key of the encryption gives the text, and its length.      *)
RoundTrip == \A t \in Thread, s \in sealed :
    (/\ call[t].at = "returned" /\ call[t].fun = "decrypt" /\ call[t].ret = 0
     /\ call[t].text = s.out /\ call[t].key = s.key)
        => call[t].len = Len(s.text) /\ SubSeq(call[t].out, 1, call[t].len) = s.text

\* Who schedules a key or goes through the rounds finds every table generated, ...
WholeTables == \A t \in Thread : call[t].at \in {"schedule", "crypt"} => generated = Groups

\* ... and who goes through the rounds has the round keys of its key.
RightRounds == \A t \in Thread : call[t].at = "crypt" =>
    /\ call[t].ctx.nr = 14
    /\ \A r \in 0..14 : RoundKey(call[t].ctx, r) = StandardRounds[call[t].key][call[t].fun][r]

\* When aes_init_done is set, the tables are those of the ROM.
RomTables == aes_init_done =>
    LET T == Tables(generated) IN
    /\ T.RCON = RomRCON
    /\ \A i \in Byte : T.FSb[i] = RomFSb[i + 1] /\ T.RSb[i] = RomRSb[i + 1]

\* The lengths of keys that no caller uses; evaluated when no call is under way.
SampleRight == aes_init_done /\ (\A t \in Thread : call[t].at = "idle") =>
    LET T == Tables(generated) IN
    \A key \in DOMAIN StandardSample :
        LET block == BlockOf(key, 1)
            out == aes_crypt_ecb(T, aes_setkey_enc(T, key), "encrypt", block)
        IN /\ out = StandardSample[key]
           /\ aes_crypt_ecb(T, aes_setkey_dec(T, key), "decrypt", out) = block

(* A thread that is about to schedule a key, or to go through the rounds, finds  *)
(* every table generated, its own doing or another's, and its round keys are the *)
(* standard's for its key and direction.  Once aes_init_done is set the tables   *)
(* are those that aes.c has for its ROM, and with them a block under each key of *)
(* Sample, of 16, 24 or 32 bytes, becomes the standard's and comes back.         *)
TablesRight == WholeTables /\ RightRounds /\ RomTables /\ SampleRight
================================================================================
