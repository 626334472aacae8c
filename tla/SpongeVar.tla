------------------------------ MODULE SpongeVar ------------------------------
(***************************************************************************)
(* PoseidonSpongeVar and RescueSpongeVar of sponge/poseidon/constraints.rs *)
(* and sponge/rescue/constraints.rs: the sponges as circuits.  A circuit   *)
(* is laid out in one go, so a call is one step here and its loops are     *)
(* recursive functions: a sponge is a record of its state and its mode,    *)
(* and a call maps it to the sponge it leaves and what it gives.           *)
(*                                                                         *)
(* The two gadgets differ where the native sponges do; Rescue tells which  *)
(* one is meant.                                                           *)
(***************************************************************************)
EXTENDS DuplexState, SqueezeCuts

CONSTANT Rescue   \* TRUE for RescueSpongeVar

VarNew == [state |-> [c \in Cells |-> Zero], mode |-> Absorbing(0)]

(* absorb_internal: a turn of its loop takes what fits, and there is no    *)
(* more than one turn for each element.                                    *)
AbsorbTurn(t) ==
  IF t.from + Len(t.rest) <= Rate THEN t
  ELSE LET n == Rate - t.from IN
       [state |-> Permuted(AddRange(t.state, t.from, n, t.rest)),
        from  |-> 0,
        rest  |-> SubSeq(t.rest, n + 1, Len(t.rest))]

AbsorbTurns(t) ==
  LET turn[k \in 0 .. Len(t.rest)] == IF k = 0 THEN t ELSE AbsorbTurn(turn[k - 1])
  IN  turn[Len(t.rest)]

VarAbsorbInternal(s, from, elems) ==
  LET last == AbsorbTurns([state |-> s, from |-> from, rest |-> elems])
  IN  [state |-> AddRange(last.state, last.from, Len(last.rest), last.rest),
       mode  |-> Absorbing(last.from + Len(last.rest))]

(* squeeze_internal.  Both decide whether to permute when they have given  *)
(* the rest of the block, PoseidonSpongeVar by what is left to give then,  *)
(* RescueSpongeVar by what was left before.                                *)
SqueezeTurn(t) ==
  IF t.from + t.n <= Rate THEN t
  ELSE LET given == Rate - t.from
           more  == IF Rescue THEN t.n # Rate ELSE t.n - given # 0
       IN [state |-> IF more THEN Permuted(t.state) ELSE t.state,
           from  |-> 0,
           n     |-> t.n - given,
           out   |-> t.out \o ReadRange(t.state, t.from, given)]

SqueezeTurns(t) ==
  LET turn[k \in 0 .. t.n] == IF k = 0 THEN t ELSE SqueezeTurn(turn[k - 1])
  IN  turn[t.n]

VarSqueezeInternal(s, from, n) ==
  LET last == SqueezeTurns([state |-> s, from |-> from, n |-> n, out |-> <<>>])
  IN  [sponge |-> [state |-> last.state, mode |-> Squeezing(last.from + last.n)],
       out    |-> last.out \o ReadRange(last.state, last.from, last.n)]

(* absorb                                                                  *)
VarAbsorb(v, elems) ==
  CASE elems = <<>> -> v
    [] elems # <<>> /\ v.mode.kind = "Absorbing" ->
         IF v.mode.index = Rate
         THEN VarAbsorbInternal(Permuted(v.state), 0, elems)
         ELSE VarAbsorbInternal(v.state, v.mode.index, elems)
    [] elems # <<>> /\ v.mode.kind = "Squeezing" ->
         VarAbsorbInternal(IF Rescue THEN Permuted(v.state) ELSE v.state, 0, elems)

(* Mutant of VarSqueeze: a full block is left to squeeze_internal.         *)
VarSqueezeNoFullBlock(v, n) ==
  IF v.mode.kind = "Absorbing"
  THEN VarSqueezeInternal(Permuted(v.state), 0, n)
  ELSE VarSqueezeInternal(v.state, v.mode.index, n)

(* squeeze_field_elements                                                  *)
VarSqueeze(v, n) ==
  IF v.mode.kind = "Absorbing"
  THEN VarSqueezeInternal(Permuted(v.state), 0, n)
  ELSE IF v.mode.index = Rate
       THEN VarSqueezeInternal(Permuted(v.state), 0, n)
       ELSE VarSqueezeInternal(v.state, v.mode.index, n)

-----------------------------------------------------------------------------
(* squeeze_bytes and squeeze_bits: the low bytes or bits of each element,  *)
(* with usable sizes and numbers of elements computed once more.           *)
VarUsableBytes == (ModulusBits - 1) \div 8

(* Mutant of VarUsableBits: all bits of the modulus are used.              *)
VarUsableBitsAll == ModulusBits

VarUsableBits == ModulusBits - 1

VarBytes(elems, n) ==
  LET u == VarUsableBytes
  IN  SubSeq([k \in 1 .. (u * Len(elems)) |-> Byte(elems[(k - 1) \div u + 1], (k - 1) % u)], 1, n)

VarBits(elems, n) ==
  LET u == VarUsableBits
  IN  SubSeq([k \in 1 .. (u * Len(elems)) |-> Bit(elems[(k - 1) \div u + 1], (k - 1) % u)], 1, n)

(* squeeze_emulated_field_elements_with_sizes: the windows, and            *)
(* bits_le_to_emulated, where bit j counts the j-th power of two, taken    *)
(* from a table made by doubling.                                          *)
VarSizes(bits, sizes) ==
  [k \in DOMAIN sizes |->
     {<<j, bits[Before(sizes, k) + j + 1]>> : j \in 0 .. (NumBits(sizes[k]) - 1)}]

(* The circuit of a caller has no dispatch on fields: for full sizes of    *)
(* the sponge's own field it calls squeeze_field_elements, for other sizes *)
(* squeeze_emulated_field_elements_with_sizes, which returns before it     *)
(* reaches the sponge if there are none.                                   *)
VarNumElements(r) ==
  CASE r.kind = "elements" -> r.n
    [] r.kind = "bytes"    -> (r.n + VarUsableBytes - 1) \div VarUsableBytes
    [] r.kind = "bits"     -> (r.n + VarUsableBits - 1) \div VarUsableBits
    [] Whole(r)            -> Len(r.sizes)
    [] Windowed(r)         -> (TotalBits(r.sizes) + VarUsableBits - 1) \div VarUsableBits

(* What a request gets from the elements that were squeezed for it.        *)
VarAnswer(r, elems) ==
  CASE r.kind = "elements" -> elems
    [] r.kind = "bytes"    -> VarBytes(elems, r.n)
    [] r.kind = "bits"     -> VarBits(elems, r.n)
    [] Whole(r)            -> elems
    [] Windowed(r)         -> VarSizes(VarBits(elems, TotalBits(r.sizes)), r.sizes)

(* A request to the gadget: the sponge it leaves, and the answer.          *)
VarRequest(v, r) ==
  IF Windowed(r) /\ Len(r.sizes) = 0
  THEN [sponge |-> v, answer |-> <<>>]
  ELSE LET squeezed == VarSqueeze(v, VarNumElements(r)) IN
       [sponge |-> squeezed.sponge, answer |-> VarAnswer(r, squeezed.out)]
=============================================================================
