----------------------------- MODULE BitStrings -----------------------------
(***************************************************************************)
(* Numbers as bits, little-endian, and sequences in chunks, as the         *)
(* libraries the code calls have them: to_bits_le, from_bits_le and the    *)
(* chunks of a slice.                                                      *)
(***************************************************************************)
EXTENDS Integers, Sequences, SequencesExt

InChunks(s, n) ==
  [i \in 1 .. ((Len(s) + n - 1) \div n) |->
     SubSeq(s, (i - 1) * n + 1, IF i * n < Len(s) THEN i * n ELSE Len(s))]

(* x >> n.                                                                 *)
ShiftRight(x, n) ==
  LET rest[i \in 0 .. n] == IF i = 0 THEN x ELSE rest[i - 1] \div 2
  IN rest[n]

(* x << n, or x doubled n times, without an end to the word.               *)
ShiftLeft(x, n) ==
  LET moved[i \in 0 .. n] == IF i = 0 THEN x ELSE 2 * moved[i - 1]
  IN moved[n]

BitsLE(x, n) == [i \in 1 .. n |-> ShiftRight(x, i - 1) % 2]
FromBitsLE(bits) ==
  LET value[n \in 0 .. Len(bits)] ==
        IF n = 0 THEN 0 ELSE bits[Len(bits) + 1 - n] + 2 * value[n - 1]
  IN value[Len(bits)]

(* bits.resize(n, false): a shorter one is filled with zeros.              *)
Resized(s, n) == [i \in 1 .. n |-> IF i <= Len(s) THEN s[i] ELSE 0]

(* The number of bits of m > 0.                                            *)
BitSize(m) == CHOOSE n \in 1 .. m : ShiftRight(m, n - 1) = 1
=============================================================================
