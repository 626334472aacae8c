----------------------------- MODULE SqueezeCuts -----------------------------
(***************************************************************************)
(* How a sponge over a prime field answers requests for bytes, bits and    *)
(* sized elements: it squeezes native elements and cuts them.              *)
(* squeeze_bytes, squeeze_bits and the dispatch of the sized squeeze are   *)
(* the same in sponge/poseidon/mod.rs and sponge/rescue/mod.rs; the        *)
(* windows of a sized squeeze are those of sponge/mod.rs.                  *)
(*                                                                         *)
(* A request is a record of a kind and what is asked for: "sizes" asks for *)
(* elements of another field, "native" for elements of a field of the      *)
(* sponge's own characteristic.  The bits of an element are abstract: bit  *)
(* i of x is the pair of them.                                             *)
(***************************************************************************)
EXTENDS Naturals, Sequences, SequencesExt

CONSTANTS
  ModulusBits,      \* F::MODULUS_BIT_SIZE of the sponge's field
  EmulatedBits,     \* F2::MODULUS_BIT_SIZE of another field
  Requests          \* what a caller may ask for

ASSUME ModulusBitsAssumption == ModulusBits \in Nat /\ ModulusBits > 8

ASSUME EmulatedBitsAssumption == EmulatedBits \in Nat \ {0}

(* FieldElementSize.  A full size carries the modulus of its field.        *)
Full(modulus) == [full |-> TRUE, modulus |-> modulus]
Truncated(n) == [full |-> FALSE, bits |-> n]
SizesOf(modulus) == {Full(modulus)} \cup {Truncated(n) : n \in 0 .. modulus}
Sizes == SizesOf(EmulatedBits) \cup SizesOf(ModulusBits)

ASSUME RequestsAssumption ==
  \A r \in Requests :
    \/ r \in [kind : {"elements", "bytes", "bits"}, n : Nat]
    \/ r \in [kind : {"sizes"}, sizes : Seq(SizesOf(EmulatedBits))]
    \/ r \in [kind : {"native"}, sizes : Seq(SizesOf(ModulusBits))]

Bit(x, i) == <<"bit", x, i>>
Byte(x, i) == <<"byte", x, i>>

UsableBytes == (ModulusBits - 1) \div 8
UsableBits == ModulusBits - 1

CeilDiv(a, b) == (a + b - 1) \div b

(* FieldElementSize::num_bits.  A truncated size above the modulus panics; *)
(* nobody asks for one here.                                               *)
NumBits(size) == IF size.full THEN size.modulus - 1 ELSE size.bits

(* The bits before the window of the k-th size, and of all sizes.          *)
Before(sizes, k) ==
  LET before[j \in 1 .. k] ==
        IF j = 1 THEN 0 ELSE before[j - 1] + NumBits(sizes[j - 1])
  IN  before[k]

TotalBits(sizes) == Before(sizes, Len(sizes) + 1)

(* squeeze_native_field_elements_with_sizes: full sizes of the sponge's    *)
(* own field, no size at all among them, get whole elements; with one      *)
(* truncated size all of them are windows, as for another field.           *)
Whole(r) == r.kind = "native" /\ \A k \in DOMAIN r.sizes : r.sizes[k].full
Windowed(r) == r.kind = "sizes" \/ (r.kind = "native" /\ ~ Whole(r))

(* The native elements a request squeezes.  A sized squeeze of nothing     *)
(* from another field returns before it reaches the sponge.                *)
TouchesSponge(r) == r.kind = "sizes" => r.sizes # <<>>
NumElements(r) ==
  CASE r.kind = "elements" -> r.n
    [] r.kind = "bytes"    -> CeilDiv(r.n, UsableBytes)
    [] r.kind = "bits"     -> CeilDiv(r.n, UsableBits)
    [] Whole(r)            -> Len(r.sizes)
    [] Windowed(r)         -> CeilDiv(TotalBits(r.sizes), UsableBits)

-----------------------------------------------------------------------------
(* squeeze_bytes: the low usable bytes of each element, cut to length.     *)
SqueezeBytes(elems, n) ==
  SubSeq(FlattenSeq([k \in DOMAIN elems |->
                       [i \in 1 .. UsableBytes |-> Byte(elems[k], i - 1)]]), 1, n)

(* Mutant of SqueezeBits: the top bit of an element is used too.           *)
SqueezeBitsAll(elems, n) ==
  SubSeq(FlattenSeq([k \in DOMAIN elems |->
                       [i \in 1 .. ModulusBits |-> Bit(elems[k], i - 1)]]), 1, n)

(* squeeze_bits: the same with bits.                                       *)
SqueezeBits(elems, n) ==
  SubSeq(FlattenSeq([k \in DOMAIN elems |->
                       [i \in 1 .. UsableBits |-> Bit(elems[k], i - 1)]]), 1, n)

(* Mutant of SqueezeSizes: bits_window is not advanced.                    *)
SqueezeSizesFromStart(bits, sizes) ==
  [k \in DOMAIN sizes |->
     {<<w, bits[w + 1]>> : w \in 0 .. (NumBits(sizes[k]) - 1)}]

(* squeeze_field_elements_with_sizes_default_impl: consecutive windows,    *)
(* each packed into bytes of eight bits, least significant first, and read *)
(* as a number.  An element is the set of its bits with their weights.     *)
SqueezeSizes(bits, sizes) ==
  [k \in DOMAIN sizes |->
     LET window == SubSeq(bits, Before(sizes, k) + 1, Before(sizes, k) + NumBits(sizes[k]))
         Chunk(c) == SubSeq(window, 8 * c + 1, IF 8 * c + 8 < Len(window) THEN 8 * c + 8 ELSE Len(window))
     IN UNION {{<<8 * c + i, Chunk(c)[i + 1]>> : i \in 0 .. (Len(Chunk(c)) - 1)} :
                 c \in 0 .. CeilDiv(Len(window), 8)}]

(* What a request gets from the elements that were squeezed for it.        *)
Answer(r, elems) ==
  CASE r.kind = "elements" -> elems
    [] r.kind = "bytes"    -> SqueezeBytes(elems, r.n)
    [] r.kind = "bits"     -> SqueezeBits(elems, r.n)
    [] Whole(r)            -> elems
    [] Windowed(r)         -> SqueezeSizes(SqueezeBits(elems, TotalBits(r.sizes)), r.sizes)
=============================================================================
