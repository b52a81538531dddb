-------------------------------- MODULE MCCipher -------------------------------
(* A small instance of Cipher for TLC: two threads, texts that are empty, one   *)
(* byte short of a block, a block and more, and a key that is too short.        *)
EXTENDS Cipher, TLC

CONSTANTS th1, th2

Threads == Permutations(Thread)

Count(from, n) == [i \in 1..n |-> (from + 37 * i) % 256]

Texts == {<<>>, Count(7, 15), Count(90, 16), Count(200, 17)}
TheKeys == {Count(1, 32), Count(2, 32), Count(3, 16)}
Samples == {Count(11, 16), Count(12, 24), Count(13, 32), Count(14, 20)}
================================================================================
