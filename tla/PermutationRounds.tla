-------------------------- MODULE PermutationRounds --------------------------
(***************************************************************************)
(* permute of the two sponges and of their gadgets (sponge/poseidon and    *)
(* sponge/rescue, mod.rs and constraints.rs), round by round and side by   *)
(* side: native runs on one vector, gadget on another one.  When both have *)
(* finished, the next permutation starts from what they left, as in a      *)
(* sponge that squeezes.                                                   *)
(*                                                                         *)
(* In the Rescue circuit an inverse S-box is not computed: the prover      *)
(* supplies its result, and a constraint says that its power is the input. *)
(* Here the prover is free: a step may take any witness the constraints    *)
(* admit.                                                                  *)
(***************************************************************************)
EXTENDS FieldVectors

CONSTANTS
  Alpha, AlphaInv,
  FullRounds, PartialRounds, Ark,   \* Poseidon, with a row for each round
  Rounds, Arc,                      \* Rescue: 2 * Rounds + 1 round keys
  Mds,
  Starts,       \* the pairs of vectors the two may start from
  MaxPermutations  \* bound: how often permute is called

(* What makes permute a permutation: alpha_inv inverts alpha, and the      *)
(* matrix is invertible.                                                   *)
ASSUME RoundsAssumption ==
  /\ {FullRounds, PartialRounds, Rounds, Alpha, AlphaInv, MaxPermutations} \subseteq Nat
  /\ \A x \in Field : Pow(Pow(x, Alpha), AlphaInv) = x /\ Pow(Pow(x, AlphaInv), Alpha) = x
  /\ Mds \in [Cells -> Vectors]
  /\ \A s, t \in Vectors : MulMatrix(s, Mds) = MulMatrix(t, Mds) => s = t
  /\ \A i \in 1 .. (FullRounds + PartialRounds) : Ark[i] \in Vectors
  /\ \A i \in 1 .. (2 * Rounds + 1) : Arc[i] \in Vectors
  /\ \A start \in Starts : start.native \in Vectors /\ start.gadget \in [Cells -> FpVars]

VARIABLES
  kind,       \* the sponge: "poseidon" or "rescue"
  native,     \* state in permute of the sponge
  gadget,     \* state in permute of its gadget
  round,      \* the index of the loop, the same in both; for Rescue the
              \* round key that is added next
  predicate,  \* cs.has_predicate(RESCUE_PREDICATE)
  calls,      \* the permutations made
  same        \* history: whether the two started from the same values

roundsVars == <<kind, native, gadget, round, predicate, calls, same>>
constant == <<kind, predicate, same>>

-----------------------------------------------------------------------------
(* Poseidon: half of the full rounds, the partial ones, the other half.    *)
Half == FullRounds \div 2
Full(i) == i \in 0 .. (Half - 1) \cup (Half + PartialRounds) .. (PartialRounds + FullRounds - 1)
Partial(i) == i \in Half .. (Half + PartialRounds - 1)

(* The gadget has ranges of its own for its three loops.  (VarHalfUp, a    *)
(* mutant, rounds the other way.)                                          *)
VarHalfUp == (FullRounds + 1) \div 2
VarHalf == FullRounds \div 2
VarFull(i) ==
  \/ i \in 0 .. (VarHalf - 1)
  \/ i \in (VarHalf + PartialRounds) .. (PartialRounds + FullRounds - 1)
VarPartial(i) == i \in VarHalf .. (VarHalf + PartialRounds - 1)

SBox(s, full) ==
  [i \in Cells |-> IF full \/ i = 0 THEN Pow(s[i], Alpha) ELSE s[i]]

VarSBox(v, full) ==
  [i \in Cells |-> IF full \/ i = 0 THEN VarPow(v[i], Alpha) ELSE v[i]]

-----------------------------------------------------------------------------
(* Rescue.  RESCUE_PREDICATE, "Deg5-Mul", on two variables.                *)
Deg5Mul(x, y) == Pow(x, 5) = y

Forward(i) == i % 2 = 1
VarForward(i) == ~ (i % 2 = 0)   \* the gadget's own test

RescueSBox(s, i) ==
  [c \in Cells |-> Pow(s[c], IF Forward(i) THEN Alpha ELSE AlphaInv)]

(* The cells a forward S-box may turn cell c into.                         *)
ForwardCells(c) ==
  IF Alpha = 5 /\ predicate /\ c.variable
  THEN {w \in Witnesses : Deg5Mul(c.value, w.value)}
  ELSE {VarPow(c, Alpha)}

(* Mutant of InverseCells: the predicate is given its arguments as in the  *)
(* forward pass.                                                           *)
InverseCellsSwapped(c) ==
  IF Alpha = 5 /\ predicate
  THEN IF c.variable THEN {w \in Witnesses : Deg5Mul(c.value, w.value)}
                     ELSE {VarPow(c, AlphaInv)}
  ELSE {w \in Witnesses : Pow(w.value, Alpha) = c.value}

(* The cells an inverse S-box may turn cell c into.  Without the predicate *)
(* a constant becomes a witness too.                                       *)
InverseCells(c) ==
  IF Alpha = 5 /\ predicate
  THEN IF c.variable THEN {w \in Witnesses : Deg5Mul(w.value, c.value)}
                     ELSE {VarPow(c, AlphaInv)}
  ELSE {w \in Witnesses : Pow(w.value, Alpha) = c.value}

SBoxCells(c, i) == IF VarForward(i) THEN ForwardCells(c) ELSE InverseCells(c)

(* Mutant of HonestWitness: the inverse pass raises to alpha.              *)
HonestWitnessForward(c, i) == [variable |-> TRUE, value |-> Pow(c.value, Alpha)]

(* What the closure given to new_witness computes (in a forward pass       *)
(* without the predicate, what pow_by_constant does).                      *)
HonestWitness(c, i) ==
  [variable |-> TRUE, value |-> Pow(c.value, IF VarForward(i) THEN Alpha ELSE AlphaInv)]

RescueVarSBox(v, i) ==
  {u \in [Cells -> UNION {SBoxCells(v[c], i) : c \in Cells}] :
     \A c \in Cells : u[c] \in SBoxCells(v[c], i)}

-----------------------------------------------------------------------------
(* A turn of a loop of permute, and one of the gadget's: each chooses its  *)
(* kind of round by its own ranges.                                        *)
NativeRound(full) ==
  native' = MulMatrix(SBox(AddRow(native, Ark[round + 1]), full), Mds)
VarRound(full) ==
  gadget' = VarMulMatrix(VarSBox(VarAddRow(gadget, Ark[round + 1]), full), Mds)

PoseidonRound ==
  /\ kind = "poseidon"
  /\ \/ Full(round) /\ NativeRound(TRUE)
     \/ Partial(round) /\ NativeRound(FALSE)
  /\ \/ VarFull(round) /\ VarRound(TRUE)
     \/ VarPartial(round) /\ VarRound(FALSE)
  /\ round' = round + 1
  /\ UNCHANGED <<constant, calls>>

(* arc[0] is added before the first round of Rescue.                       *)
FirstKey ==
  /\ kind = "rescue"
  /\ round = 0
  /\ native' = AddRow(native, Arc[1])
  /\ gadget' = VarAddRow(gadget, Arc[1])
  /\ round' = 1
  /\ UNCHANGED <<constant, calls>>

(* A turn of its loop over arc[1..]; round - 1 is its own index.           *)
RescueRound ==
  /\ kind = "rescue"
  /\ round \in 1 .. (2 * Rounds)
  /\ native' = AddRow(MulMatrix(RescueSBox(native, round - 1), Mds), Arc[round + 1])
  /\ \E boxed \in RescueVarSBox(gadget, round - 1) :
       gadget' = VarAddRow(VarMulMatrix(boxed, Mds), Arc[round + 1])
  /\ round' = round + 1
  /\ UNCHANGED <<constant, calls>>

(* Both have returned, and both are called again.                          *)
Again ==
  /\ round = IF kind = "poseidon" THEN FullRounds + PartialRounds ELSE 2 * Rounds + 1
  /\ calls < MaxPermutations
  /\ round' = 0
  /\ calls' = calls + 1
  /\ UNCHANGED <<constant, native, gadget>>

RoundsInit ==
  /\ kind \in {"poseidon", "rescue"}
  /\ \E start \in Starts : native = start.native /\ gadget = start.gadget
  /\ round = 0
  /\ predicate \in BOOLEAN
  /\ calls = 1
  /\ same = (native = Values(gadget))

RoundsNext == PoseidonRound \/ FirstKey \/ RescueRound \/ Again

RoundsSpec == RoundsInit /\ [][RoundsNext]_roundsVars

-----------------------------------------------------------------------------
(* The circuit computes permute: whatever witnesses the prover picks, if   *)
(* they satisfy the constraints the gadget has the native value after      *)
(* every round if it started from it, and another one if it did not, for   *)
(* permute is a permutation, round by round.                               *)
AgreeIffSameStart == (native = Values(gadget)) <=> same

(* Completeness: the witness the code computes satisfies the constraint    *)
(* the code enforces, in every S-box of every permutation.                 *)
HonestProofAccepted ==
  kind = "rescue" /\ round \in 1 .. (2 * Rounds) =>
    \A c \in Cells : gadget[c].variable =>
      HonestWitness(gadget[c], round - 1) \in SBoxCells(gadget[c], round - 1)
=============================================================================
