----------------------------- MODULE GroupBytes -----------------------------
(***************************************************************************)
(* The two orders in which the schemes over a curve group spell a byte as  *)
(* bits, and a scalar as bytes.                                            *)
(***************************************************************************)
EXTENDS BitStrings, FiniteSetsExt

ByteBits == 8

(* bytes_to_bits of signature/schnorr/mod.rs: >> (8 - i - 1).              *)
BitsMSBFirst(bytes) == FlattenSeq([i \in DOMAIN bytes |-> Reverse(BitsLE(bytes[i], ByteBits))])

(* bytes_to_bits of crh/pedersen/mod.rs, and to_bits_le of each UInt8.     *)
BitsLSBFirst(bytes) == FlattenSeq([i \in DOMAIN bytes |-> BitsLE(bytes[i], ByteBits)])

(* The bytes of a scalar, serialize_(un)compressed: little-endian.         *)
ScalarBytes(x, order) ==
  [i \in 1 .. ((BitSize(order) + ByteBits - 1) \div ByteBits) |->
     ShiftRight(x, ByteBits * (i - 1)) % 256]
=============================================================================
