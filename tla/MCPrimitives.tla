---------------------------- MODULE MCPrimitives ----------------------------
(***************************************************************************)
(* Primitives with values around every boundary of their code.             *)
(*                                                                         *)
(* Absorbed values: a field of 25 bits, which takes three bytes to an      *)
(* element; numbers at the ends of their types; empty, nested and zero     *)
(* slices.                                                                 *)
(*                                                                         *)
(* Permutations: the field of 17 elements, where the fifth power is a      *)
(* bijection whose inverse is the thirteenth.  The gadget starts with the  *)
(* native values or with values that differ in one cell, and with each     *)
(* cell a constant or a variable.  Poseidon has an odd number of full      *)
(* rounds.                                                                 *)
(*                                                                         *)
(* Digests: bytes that are all distinct, lengths around a block and its    *)
(* padding.  Hashes: 11 windows of 3 bits (33 bits, four bytes) in a group *)
(* in which three Bowe-Hopwood chunks just fit; inputs of zeros at their   *)
(* end, of every scalar's sign, and too long.                              *)
(***************************************************************************)
EXTENDS Primitives

SliceOf(T) == [kind |-> "slice", of |-> T]
SizedOf(T) == [kind |-> "sized", of |-> T]
OptionOf(T) == [kind |-> "option", of |-> T]
Signed(width) == [kind |-> "signed", width |-> width]
Kind(name) == [kind |-> name]
Of(T, values) == [type |-> T, values |-> values]

MCStrings == {<<>>, <<0>>, <<1>>, <<0, 0>>, <<1, 0, 0, 0>>}
MCItems ==
  <<Of(U8, {0, 255}), Of(Kind("bool"), BOOLEAN), Of(Usize, {0, 1, 257}),
   Of([kind |-> "unsigned", width |-> 2], {1, 256}),
   Of(Signed(2), {-32768, -32767, -1, 0, 1, 32767}), Of(Signed(8), {-1, 1}),
   Of(Kind("fp"), {0, 1, Characteristic - 1}), Of(Kind("foreign"), {1}),
   Of(SliceOf(Kind("foreign")), {<<>>}),
   Of(Kind("te"), {[x |-> 0, y |-> 1], [x |-> 1, y |-> 0]}),
   Of(Kind("sw"), [x : {0}, y : {0, 1}, infinity : BOOLEAN]),
   Of(Kind("string"), MCStrings), Of(Kind("fork"), MCStrings), Of(SliceOf(U8), MCStrings),
   Of(SizedOf(U8), {<<>>, <<0>>, <<0, 0>>}), Of(SizedOf(Kind("fp")), {<<>>, <<0>>, <<0, 0>>}),
   Of(SliceOf(Kind("fp")), {<<>>, <<0>>, <<0, 0>>}),
   Of(SliceOf(SliceOf(U8)), {<<>>, <<<<>>, <<0>>>>, <<<<0>>, <<>>>>}),
   Of(OptionOf(U8), {<<>>, <<0>>, <<1>>}),
   Of(SliceOf(OptionOf(Kind("fp"))), {<<>>, <<<<>>>>, <<<<0>>>>, <<<<>>, <<>>>>}),
   Of([kind |-> "struct", fields |-> <<SliceOf(U8), Signed(2)>>],
      {<<<<>>, 0>>, <<<<0>>, 0>>, <<<<>>, -1>>})>>

(* Elements at the ends of their field and in its middle.                  *)
MCSamples == [m \in Moduli |-> {0, 1, m \div 2, m - 2, m - 1}]

Row(a, b) == 0 :> a @@ 1 :> b

MCArk == <<Row(1, 2), Row(14, 0), Row(0, 13), Row(2, 12), Row(3, 11)>>
MCArc == <<Row(3, 11), Row(16, 5), Row(0, 7)>>
MCMds == 0 :> Row(2, 5) @@ 1 :> Row(9, 4)

Near(n) == {n} \cup {[n EXCEPT ![i] = (@ + 1) % P] : i \in Cells}

Pairs == UNION {{<<n, g>> : g \in Near(n)} : n \in Vectors}

MCStarts ==
  {[native |-> pair[1], gadget |-> [i \in Cells |-> [variable |-> v[i], value |-> pair[2][i]]]] :
     pair \in Pairs, v \in [Cells -> BOOLEAN]}

MCLengths == {0, 1, 7, 55, 56, 57, 63, 64, 65, 128, 129}
MCMessage(p) == <<"byte", p>>
MCLengthByte(bits, k) == <<"bitlen", bits, k>>
MCBlakeLengths == {0, 1, 3, 4, 5, 31, 32, 33, 63, 64, 65, 96, 97, 127, 128, 129}
MCInputByte(name, p) == <<name, p>>

MCBytes == {0, 1, 128, 255}
UpTo(n) == UNION {[1 .. k -> MCBytes] : k \in 0 .. n}
Same(b, n) == [i \in 1 .. n |-> b]
MCHalves == UpTo(1) \cup {<<1, 0>>, <<0, 1>>, <<255, 1>>, Same(1, 3)}
MCHashInputs ==
  [s \in SchemesOfHashes |->
     CASE s = "pedersen" -> UpTo(2) \cup [1 .. 4 -> {0, 129}] \cup {Same(1, 5)}
       [] s = "bowe_hopwood" -> UpTo(2) \cup [1 .. 5 -> {0, 132}]
                                  \cup {Same(b, n) : b \in {0, 27, 255}, n \in {1, 11, 12, 13}}
       [] s = "commitment" -> (UpTo(1) \cup {<<1, 0>>, <<1, 2, 3, 4>>, Same(1, 5), Same(1, 34)})
                                \X {0, 1, 2, HashOrder - 1}
       [] OTHER -> MCHalves \X MCHalves]

MCChallenge(p, m) == IF p = 3 /\ m = 1 THEN Rejected ELSE (p * p + 3 * m + 2 * p) % Order
MCRandomness == {<<1>>, <<2>>, <<3, 1>>}
=============================================================================
