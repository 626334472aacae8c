-------------------------- MODULE SpongeReference --------------------------
(***************************************************************************)
(* What a duplex sponge promises: the struct Reference of                  *)
(* run_cross_test in sponge/poseidon/tests.rs, the specification the       *)
(* repository fuzzes PoseidonSponge against.  Inputs are only collected on *)
(* an absorbing line; the line is absorbed block by block when somebody    *)
(* squeezes, and output is counted one element at a time.                  *)
(*                                                                         *)
(* A reference sponge is a record: its state vector, its absorbing line    *)
(* and its squeeze count (None while absorbing).                           *)
(***************************************************************************)
EXTENDS DuplexState

CONSTANT None   \* Option::None of squeeze_count
ASSUME NoneAssumption == None \notin Nat

RefNew == [state |-> [c \in Cells |-> Zero], absorbing |-> <<>>, squeezed |-> None]

RefAbsorb(ref, elems) ==
  IF elems = <<>> THEN ref
  ELSE [ref EXCEPT !.absorbing = @ \o elems, !.squeezed = None]

(* absorbing.chunks(rate)                                                  *)
Chunks(line) ==
  [k \in 1 .. (Len(line) + Rate - 1) \div Rate |->
     SubSeq(line, (k - 1) * Rate + 1,
            IF k * Rate < Len(line) THEN k * Rate ELSE Len(line))]

(* _absorb: add each chunk and permute; an empty line permutes once.       *)
RefFlush(ref) ==
  LET line == ref.absorbing
      chunks == Chunks(line)
      block[k \in 0 .. Len(chunks)] ==
        IF k = 0 THEN ref.state
        ELSE Permuted(AddRange(block[k - 1], 0, Len(chunks[k]), chunks[k]))
  IN  [state |-> IF line = <<>> THEN Permuted(ref.state) ELSE block[Len(chunks)],
       absorbing |-> <<>>,
       squeezed |-> 0]

(* Asking for nothing at a block boundary costs a permutation.             *)
RefSqueezeNothing(ref) ==
  IF ref.squeezed # 0 /\ ref.squeezed % Rate = 0
  THEN [ref EXCEPT !.state = Permuted(@), !.squeezed = 0]
  ELSE ref

(* One turn of the output loop: permute at every block boundary but the    *)
(* first, then give the next rate cell.                                    *)
RefSqueezeOne(acc) ==
  LET ref == acc.ref
      s   == IF ref.squeezed # 0 /\ ref.squeezed % Rate = 0
             THEN Permuted(ref.state) ELSE ref.state
  IN  [ref |-> [ref EXCEPT !.state = s, !.squeezed = @ + 1],
       out |-> Append(acc.out, s[Capacity + (ref.squeezed % Rate)])]

(* squeeze(n): the sponge it leaves and what it gives.                     *)
RefSqueeze(ref, n) ==
  LET ready == IF ref.squeezed = None THEN RefFlush(ref)
               ELSE IF n = 0 THEN RefSqueezeNothing(ref) ELSE ref
      turn[k \in 0 .. n] == IF k = 0 THEN [ref |-> ready, out |-> <<>>]
                            ELSE RefSqueezeOne(turn[k - 1])
  IN  turn[n]
=============================================================================
