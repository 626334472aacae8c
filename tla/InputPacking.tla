---------------------------- MODULE InputPacking ----------------------------
(***************************************************************************)
(* snark/constraints.rs: elements of one field carried as elements of      *)
(* another, through their bits.  A proof over the field Into has public    *)
(* inputs that stand for elements of the field From.  Three pieces of code *)
(* pack them, each with a copy of the rule for how many bits an element    *)
(* takes, and must agree: repack_input, which the verifier runs; new_input *)
(* in the circuit that is proved; from_field_elements in a circuit over    *)
(* From that verifies the proof.  Two wrappers hold the result: Booleans,  *)
(* and the limbs of emulated elements.                                     *)
(*                                                                         *)
(* Fields are known by their modulus, Booleans are 0 and 1.                *)
(***************************************************************************)
EXTENDS BitStrings, FiniteSetsExt

CONSTANTS
  Moduli,     \* the fields
  WordBits,   \* the bits of a word of a BigInt: 64
  LimbBits,   \* get_params(..).bits_per_limb, a choice of the library's
  MaxInputs,  \* bound: the elements packed
  Samples     \* of each field, the elements that are packed

ASSUME PackingAssumption ==
  /\ Moduli \subseteq {m \in Nat \ {0, 1} : m % 2 = 1}   \* the library's arithmetic needs odd ones
  /\ {WordBits, LimbBits} \subseteq Nat \ {0} /\ MaxInputs \in Nat
  /\ \A m \in Moduli : Samples[m] \subseteq 0 .. (m - 1)

VARIABLES
  from, into,  \* the two fields
  src,         \* the elements of From
  repacked,    \* what repack_input gave, or Unset
  proved,      \* what new_input allocated, or Unset
  verified,    \* what from_field_elements gave, or Unset
  squeezed     \* bits and the emulated element made of them, or Unset

packVars == <<from, into, src, repacked, proved, verified, squeezed>>

Unset == [done |-> FALSE]

-----------------------------------------------------------------------------
NumWords(m) == (BitSize(m) + WordBits - 1) \div WordBits
Word(m, i) == ShiftRight(m, WordBits * (i - 1)) % ShiftLeft(1, WordBits)

(* The loops over the words of two moduli, from the most significant: the  *)
(* first difference decides.                                               *)
NotSmaller(m, n) ==
  LET differ == {i \in 1 .. NumWords(n) : Word(m, i) # Word(n, i)}
  IN differ # {} => Word(m, Max(differ)) > Word(n, Max(differ))

(* How many bits of elements of f an element of g holds: all of its own if *)
(* the fields have the same size and g is not smaller.  There are three    *)
(* copies of this rule: in new_input and in repack_input F is f and CF is  *)
(* g; in from_field_elements they have changed places, and so has the      *)
(* comparison.  (FromElementsCapacityUnswapped, a mutant, left it as it    *)
(* was.)                                                                   *)
NewInputCapacity(f, g) ==
  IF BitSize(g) = BitSize(f)
  THEN IF NotSmaller(g, f) THEN BitSize(g) ELSE BitSize(g) - 1
  ELSE BitSize(g) - 1

RepackCapacity(f, g) ==
  IF BitSize(g) = BitSize(f) /\ NotSmaller(g, f) THEN BitSize(g) ELSE BitSize(g) - 1

FromElementsCapacityUnswapped(f, g) ==
  IF BitSize(f) = BitSize(g) /\ NotSmaller(f, g) THEN BitSize(g) ELSE BitSize(g) - 1
FromElementsCapacity(f, g) ==
  IF BitSize(f) # BitSize(g) \/ ~ NotSmaller(g, f) THEN BitSize(g) - 1 ELSE BitSize(g)

(* The bits of the elements of f, one after the other, most significant    *)
(* first.                                                                  *)
BitsBE(f, elems) ==
  FlattenSeq([i \in DOMAIN elems |-> Reverse(BitsLE(elems[i], BitSize(f)))])
FromBitsBE(bits) == FromBitsLE(Reverse(bits))

(* repack_input of either wrapper.                                         *)
RepackInput(f, g, elems) ==
  LET chunks == InChunks(BitsBE(f, elems), RepackCapacity(f, g))
  IN [i \in DOMAIN chunks |-> FromBitsBE(chunks[i])]

(* BooleanInputVar::new_input: the chunks become inputs, whose bits, of    *)
(* the length of their chunks, are cut into elements again.  (new_variable *)
(* in another mode is the bits of each element.)                           *)
BooleanNewInput(f, g, elems) ==
  LET chunks == InChunks(BitsBE(f, elems), NewInputCapacity(f, g))
      inputs == [i \in DOMAIN chunks |-> FromBitsBE(chunks[i])]
      booleans == FlattenSeq([i \in DOMAIN chunks |->
                    Reverse(SubSeq(BitsLE(inputs[i], BitSize(g)), 1, Len(chunks[i])))])
      cut == InChunks(booleans, BitSize(f))
  IN [done |-> TRUE, inputs |-> inputs, val |-> [i \in DOMAIN cut |-> Reverse(cut[i])]]

BooleanNewVariable(f, elems) ==
  [i \in DOMAIN elems |-> BitsLE(elems[i], BitSize(f))]

(* BooleanInputVar<g, f>::from_field_elements, in a circuit over f.        *)
BooleanFromFieldElements(f, g, elems) ==
  LET chunks == InChunks(BitsBE(f, elems), FromElementsCapacity(f, g))
  IN [i \in DOMAIN chunks |-> Reverse(chunks[i])]

(* The limbs the two emulated versions compute from the bits of an element *)
(* of f, the top limb first and shorter.                                   *)
NumLimbs(f) == (BitSize(f) + LimbBits - 1) \div LimbBits
Limbs(f, bits) ==
  LET bigEndian == Reverse(Resized(bits, BitSize(f)))
      top == BitSize(f) - (NumLimbs(f) - 1) * LimbBits
      slice(j) == IF j = 0 THEN SubSeq(bigEndian, 1, top)
                  ELSE SubSeq(bigEndian, top + (j - 1) * LimbBits + 1, top + j * LimbBits)
  IN [j \in 1 .. NumLimbs(f) |-> FromBitsBE(slice(j - 1))]

(* The library's decomposition of an element: what a witness is given.     *)
Decomposition(f, x) ==
  [j \in 1 .. NumLimbs(f) |-> ShiftRight(x, LimbBits * (NumLimbs(f) - j)) % ShiftLeft(1, LimbBits)]

(* EmulatedFieldInputVar::new_input: witnesses whose limbs are constrained *)
(* to the bits of the Boolean allocation.                                  *)
EmulatedNewInput(f, g, elems) ==
  LET booleans == BooleanNewInput(f, g, elems)
  IN [witness  |-> [i \in DOMAIN elems |-> Decomposition(f, elems[i])],
      enforced |-> [i \in DOMAIN booleans.val |-> Limbs(f, booleans.val[i])]]

(* EmulatedFieldInputVar::from_field_elements on variables.                *)
EmulatedFromFieldElements(f, g, elems) ==
  LET booleans == BooleanFromFieldElements(f, g, elems)
  IN [i \in DOMAIN booleans |-> Limbs(g, booleans[i])]

(* The same on constants: the loop over the bits runs from the last.       *)
EmulatedFromConstants(f, g, elems) ==
  LET booleans == BooleanFromFieldElements(f, g, elems)
  IN [i \in DOMAIN booleans |->
        FromBitsLE(Reverse(Resized(booleans[i], BitSize(g)))) % g]

(* bits_le_to_emulated of sponge/constraints/mod.rs: bit by bit, the limbs *)
(* of the power of two it stands for are added.                            *)
BitsLEToEmulated(f, bits) ==
  LET lookup_table(j) == Decomposition(f, ShiftLeft(1, j - 1) % f)
      val[j \in 0 .. Len(bits)] ==
        IF j = 0 THEN [k \in 1 .. NumLimbs(f) |-> 0]
        ELSE [k \in 1 .. NumLimbs(f) |-> val[j - 1][k] + bits[j] * lookup_table(j)[k]]
  IN val[Len(bits)]

-----------------------------------------------------------------------------
PackInit ==
  /\ from \in Moduli /\ into \in Moduli
  /\ src \in UNION {[1 .. n -> Samples[from]] : n \in 0 .. MaxInputs}
  /\ repacked = Unset /\ proved = Unset /\ verified = Unset /\ squeezed = Unset

Repack ==
  /\ repacked = Unset
  /\ repacked' = [done |-> TRUE, elems |-> RepackInput(from, into, src)]
  /\ UNCHANGED <<from, into, src, proved, verified, squeezed>>

AllocateInputs ==
  /\ proved = Unset
  /\ proved' = [done |-> TRUE, booleans |-> BooleanNewInput(from, into, src),
                emulated |-> EmulatedNewInput(from, into, src)]
  /\ UNCHANGED <<from, into, src, repacked, verified, squeezed>>

(* The circuit that verifies holds the elements as variables or as         *)
(* constants.                                                              *)
VerifyInCircuit ==
  /\ verified = Unset
  /\ verified' = [done |-> TRUE,
                  booleans  |-> BooleanFromFieldElements(from, into, src),
                  emulated  |-> EmulatedFromFieldElements(from, into, src),
                  constants |-> EmulatedFromConstants(from, into, src)]
  /\ UNCHANGED <<from, into, src, repacked, proved, squeezed>>

(* A sponge has squeezed bits for an emulated element: at most as many as  *)
(* the modulus has.                                                        *)
Emulate(bits) ==
  /\ src = <<>> /\ squeezed = Unset
  /\ squeezed' = [done |-> TRUE, bits |-> bits, limbs |-> BitsLEToEmulated(into, bits)]
  /\ UNCHANGED <<from, into, src, repacked, proved, verified>>

PackNext ==
  \/ Repack \/ AllocateInputs \/ VerifyInCircuit
  \/ \E n \in 0 .. BitSize(into) : \E bits \in [1 .. n -> {0, 1}] : Emulate(bits)

PackSpec == PackInit /\ [][PackNext]_packVars

-----------------------------------------------------------------------------
LimbsValue(limbs) ==
  LET value[j \in 0 .. Len(limbs)] ==
        IF j = 0 THEN 0 ELSE limbs[j] + ShiftLeft(1, LimbBits) * value[j - 1]
  IN value[Len(limbs)]

(* The verifier, the circuit proved and the circuit that verifies it speak *)
(* of the same public inputs.                                              *)
InputsAgree ==
  /\ repacked.done /\ proved.done => proved.booleans.inputs = repacked.elems
  /\ repacked.done /\ verified.done =>
       /\ [i \in DOMAIN verified.booleans |-> FromBitsLE(verified.booleans[i])] = repacked.elems
       /\ [i \in DOMAIN verified.emulated |-> LimbsValue(verified.emulated[i])] = repacked.elems

(* No element is given more bits than it holds: from_bigint(..).unwrap()   *)
(* does not fail.                                                          *)
InputsFit == repacked.done => \A i \in DOMAIN repacked.elems : repacked.elems[i] < into

(* What the circuit proved reads back is what was packed, with nothing     *)
(* left over; the constraints on the emulated elements can be met.         *)
InputsReadBack ==
  proved.done =>
    /\ proved.booleans.val = BooleanNewVariable(from, src)
    /\ proved.emulated.enforced = proved.emulated.witness

(* Squeezed bits are an emulated element in the normal form that           *)
(* bits_le_to_emulated declares: no limb carries.                          *)
SqueezedBitsNormal ==
  squeezed.done =>
    /\ \A k \in DOMAIN squeezed.limbs : squeezed.limbs[k] < ShiftLeft(1, LimbBits)
    /\ LimbsValue(squeezed.limbs) = FromBitsLE(squeezed.bits)

(* Elements packed for a proof over another field are the same wherever    *)
(* they are packed, and can be read back.                                  *)
PackingsAgree == InputsAgree /\ InputsFit /\ InputsReadBack /\ SqueezedBitsNormal

(* "reconstruct the field elements and check consistency": constants give  *)
(* the elements that repack_input gives.                                   *)
ConstantsReconstructed ==
  repacked.done /\ verified.done => verified.constants = repacked.elems
=============================================================================
