--------------------------- MODULE AbsorbEncoding ---------------------------
(***************************************************************************)
(* How a value becomes what a sponge absorbs: the Absorb implementations   *)
(* of sponge/absorb.rs, the AbsorbGadget ones of sponge/constraints/       *)
(* absorb.rs, the derive macro, and fork, which is such an absorption.     *)
(*                                                                         *)
(* Two callers run the same code on values of their own ("left" and        *)
(* "right"), and a circuit repeats the left one.  A sponge never sees a    *)
(* value, only its encoding: whatever two encodings have in common, their  *)
(* transcripts have.                                                       *)
(*                                                                         *)
(* A type is a record of its kind: "u8", "bool", "unsigned" and "signed"   *)
(* (with a width in bytes; usize and isize have eight), "fp", "foreign" (a *)
(* field of another characteristic), "te" and "sw" (points), "string", and *)
(* "slice", "sized" (a slice absorbed with its length), "option" and       *)
(* "struct" of other types; "fork" is the domain of a fork.                *)
(***************************************************************************)
EXTENDS BitStrings

CONSTANTS
  Characteristic,  \* of the sponge's field
  ElemBytes,       \* the bytes that fit an element: (MODULUS_BIT_SIZE - 1) / 8
  FpBytes,         \* the bytes an element is written in
  Items,           \* sequence of [type, values]: what a call may absorb
  MaxItems         \* bound: the items of a transcript

(* Fields whose words are no wider than their bytes, so that into_bigint   *)
(* and serialize_compressed write the same bytes: those of the curves the  *)
(* tests use.                                                              *)
ASSUME FieldAssumption ==
  /\ {Characteristic, ElemBytes, FpBytes, MaxItems} \subseteq Nat
  /\ Characteristic \div 256 ^ ElemBytes \in 1 .. 255 /\ FpBytes = ElemBytes + 1

VARIABLES
  schema,          \* the types absorbed so far
  transcript,      \* the values, by caller
  encoded,         \* what their sponges were given, by form and caller
  circuit,         \* what the circuit's sponge was given, by form
  overflowChecks,  \* the build: does arithmetic overflow panic?
  panicked         \* a caller has panicked

absorbVars == <<schema, transcript, encoded, circuit, overflowChecks, panicked>>

Forms == {"bytes", "elems"}
Callers == {"left", "right"}

-----------------------------------------------------------------------------
RECURSIVE LittleEndian(_, _), FromLittleEndian(_)
LittleEndian(n, width) ==
  IF width = 0 THEN <<>>
  ELSE <<n % 256>> \o LittleEndian(n \div 256, width - 1)

FromLittleEndian(bytes) ==
  IF bytes = <<>> THEN 0 ELSE bytes[1] + 256 * FromLittleEndian(Tail(bytes))

(* to_field_elements of a byte slice (ark_ff): as many bytes to an element *)
(* as always fit.                                                          *)
Packed(bytes) ==
  LET chunks == InChunks(bytes, ElemBytes)
  IN [i \in DOMAIN chunks |-> FromLittleEndian(chunks[i])]

Usize == [kind |-> "unsigned", width |-> 8]
U8 == [kind |-> "u8"]
Flag(b) == IF b THEN 1 ELSE 0

(* self.abs() as $unsigned: abs of the smallest number of a type overflows *)
(* to that number, which the cast reads as unsigned.                       *)
Smallest(T, x) == x < 0 /\ T.width < 8 /\ x = -(2 ^ (8 * T.width - 1))

(* Mutant of Magnitude: abs stops at the largest number of the type.       *)
MagnitudeSaturates(T, x) ==
  CASE x >= 0                    -> x
    [] x < 0 /\ ~ Smallest(T, x) -> -x
    [] Smallest(T, x)            -> -(x + 1)

Magnitude(T, x) ==
  CASE x >= 0                    -> x
    [] x < 0 /\ ~ Smallest(T, x) -> -x
    [] Smallest(T, x)            -> x + 2 ^ (8 * T.width)

(* A number: F::from of it, or its to_le_bytes; a negative one is the      *)
(* negation of F::from of its magnitude and the two's complement.          *)
Number(form, T, x) ==
  IF form = "bytes" THEN LittleEndian(x, T.width)
  ELSE LET magnitude == Magnitude(T, x) % Characteristic
       IN <<IF x < 0 THEN (Characteristic - magnitude) % Characteristic ELSE magnitude>>

(* An element of the sponge's own field: field_cast finds the same         *)
(* characteristic and copies it.                                           *)
Element(form, x) == IF form = "bytes" THEN LittleEndian(x, FpBytes) ELSE <<x>>

(* An affine point: its coordinates and, on a short Weierstrass curve,     *)
(* whether it is the point at infinity.                                    *)
Point(form, T, p) ==
  Element(form, p.x) \o Element(form, p.y)
    \o (IF T.kind = "sw" THEN <<Flag(p.infinity)>> ELSE <<>>)

(* batch_to_sponge_*: one after the other, with u8's own version for       *)
(* elements, which packs the length and the bytes.  (BatchNoLength, a      *)
(* mutant, packs the bytes alone.)                                         *)
BatchNoLength(form, T, xs, each) ==
  IF T.kind = "u8" /\ form = "elems" THEN Packed(xs) ELSE FlattenSeq(each)
Batch(form, T, xs, each) ==
  IF T.kind = "u8" /\ form = "elems"
  THEN Packed(LittleEndian(Len(xs), 8) \o xs)
  ELSE FlattenSeq(each)

(* AbsorbWithLength: the length, a usize, comes first.                     *)
WithLength(form, n, rest) == Number(form, Usize, n) \o rest

(* derive(Absorb): the fields of a struct in their order.                  *)
Derived(each) == FlattenSeq(each)

(* What fork absorbs, as a Vec<u8>: the length of the domain and the       *)
(* domain.                                                                 *)
ForkInput(domain) == LittleEndian(Len(domain), 8) \o domain

(* to_sponge_bytes and to_sponge_field_elements.  A string is its length   *)
(* and bytes as bytes, its byte slice as elements; an option says whether  *)
(* it is there; derive(Absorb) absorbs the fields in their order.          *)
RECURSIVE Encode(_, _, _), Each(_, _, _)
Each(form, T, xs) == [i \in DOMAIN xs |-> Encode(form, T, xs[i])]
Encode(form, T, x) ==
  CASE T.kind = "u8"                   -> <<x>>
    [] T.kind = "bool"                 -> <<Flag(x)>>
    [] T.kind \in {"unsigned", "signed"} -> Number(form, T, x)
    [] T.kind \in {"fp", "foreign"}    -> Element(form, x)
    [] T.kind \in {"te", "sw"}         -> Point(form, T, x)
    [] T.kind = "string" ->
         LET bytes == Batch(form, U8, x, Each(form, U8, x))
         IN IF form = "bytes" THEN WithLength(form, Len(x), bytes) ELSE bytes
    [] T.kind = "fork"   -> Batch(form, U8, ForkInput(x), Each(form, U8, ForkInput(x)))
    [] T.kind = "slice"  -> Batch(form, T.of, x, Each(form, T.of, x))
    [] T.kind = "sized"  -> WithLength(form, Len(x), Batch(form, T.of, x, Each(form, T.of, x)))
    [] T.kind = "option" -> <<Flag(x # <<>>)>> \o FlattenSeq(Each(form, T.of, x))
    [] T.kind = "struct" -> Derived([i \in DOMAIN x |-> Encode(form, T.fields[i], x[i])])

(* Encoding as elements panics: field_cast of a foreign element, or of a   *)
(* slice of them that may be empty, gives None, which is unwrapped; abs of *)
(* the smallest number of its type overflows.                              *)
RECURSIVE Panics(_, _)
Panics(T, x) ==
  CASE T.kind = "foreign" -> TRUE
    [] T.kind = "signed"  -> overflowChecks /\ Smallest(T, x)
    [] T.kind \in {"slice", "sized"} ->
         T.of.kind = "foreign" \/ \E i \in DOMAIN x : Panics(T.of, x[i])
    [] T.kind = "option"  -> \E i \in DOMAIN x : Panics(T.of, x[i])
    [] T.kind = "struct"  -> \E i \in DOMAIN x : Panics(T.fields[i], x[i])
    [] OTHER -> FALSE

-----------------------------------------------------------------------------
(* AbsorbGadget: there are gadgets for bytes, Booleans, elements, points,  *)
(* slices and options, and fork encodes its constants natively.  A UInt8   *)
(* alone goes through to_constraint_field, a point through that and        *)
(* to_bytes_le of each coordinate.                                         *)
RECURSIVE HasGadget(_)
HasGadget(T) ==
  \/ T.kind \in {"u8", "bool", "fp", "te", "sw", "fork"}
  \/ T.kind \in {"slice", "option"} /\ HasGadget(T.of)

(* batch_to_sponge_field_elements of UInt8, with the length as constants.  *)
(* (GadgetBatchNoLength is a mutant of it.)                                *)
GadgetBatchNoLength(form, T, xs, each) ==
  IF T.kind = "u8" /\ form = "elems" THEN Packed(xs) ELSE FlattenSeq(each)
GadgetBatch(form, T, xs, each) ==
  IF T.kind = "u8" /\ form = "elems"
  THEN Packed(LittleEndian(Len(xs), 8) \o xs)
  ELSE FlattenSeq(each)

(* An FpVar: to_bytes_le, or itself.                                       *)
GadgetElement(form, x) == IF form = "bytes" THEN LittleEndian(x, FpBytes) ELSE <<x>>

GadgetPoint(form, T, p) ==
  LET constraintField == <<p.x, p.y>> \o (IF T.kind = "sw" THEN <<Flag(p.infinity)>> ELSE <<>>)
      bytesOf(xs) == FlattenSeq([i \in DOMAIN xs |-> LittleEndian(xs[i], FpBytes)])
  IN IF form = "elems" THEN constraintField
     ELSE IF T.kind = "te" THEN bytesOf(constraintField)
     ELSE bytesOf(<<p.x>>) \o bytesOf(<<p.y>>) \o <<Flag(p.infinity)>>

(* fork of a gadget: its input is encoded natively, as constants.          *)
GadgetFork(form, domain) ==
  LET input == WithLength("bytes", Len(domain), domain)
  IN IF form = "elems" THEN Packed(WithLength("bytes", Len(input), input)) ELSE input

RECURSIVE GadgetEncode(_, _, _), GadgetEach(_, _, _)
GadgetEach(form, T, xs) == [i \in DOMAIN xs |-> GadgetEncode(form, T, xs[i])]
GadgetEncode(form, T, x) ==
  CASE T.kind = "u8"   -> IF form = "bytes" THEN <<x>> ELSE Packed(<<x>>)
    [] T.kind = "bool" -> <<Flag(x)>>
    [] T.kind = "fp"   -> GadgetElement(form, x)
    [] T.kind \in {"te", "sw"} -> GadgetPoint(form, T, x)
    [] T.kind = "slice"  -> GadgetBatch(form, T.of, x, GadgetEach(form, T.of, x))
    [] T.kind = "option" -> <<Flag(x # <<>>)>> \o FlattenSeq(GadgetEach(form, T.of, x))
    [] T.kind = "fork"   -> GadgetFork(form, x)

-----------------------------------------------------------------------------
AbsorbInit ==
  /\ schema = <<>>
  /\ transcript = [c \in Callers |-> <<>>]
  /\ encoded = [f \in Forms |-> [c \in Callers |-> <<>>]]
  /\ circuit = [f \in Forms |-> <<>>]
  /\ overflowChecks \in BOOLEAN
  /\ panicked = FALSE

(* Both callers absorb a value of the same type, or fork: absorb!(sponge,  *)
(* x), collect_sponge_bytes!(.., x).                                       *)
AbsorbItem(T, x, y) ==
  /\ ~panicked
  /\ Len(schema) < MaxItems
  /\ panicked' = (Panics(T, x) \/ Panics(T, y))
  /\ IF panicked' THEN UNCHANGED <<schema, transcript, encoded, circuit>>
     ELSE /\ schema' = Append(schema, T)
          /\ transcript' = [left  |-> Append(transcript.left, x),
                            right |-> Append(transcript.right, y)]
          /\ encoded' = [f \in Forms |->
                           [left  |-> encoded[f].left \o Encode(f, T, x),
                            right |-> encoded[f].right \o Encode(f, T, y)]]
          /\ circuit' = [f \in Forms |->
                           circuit[f] \o (IF HasGadget(T) THEN GadgetEncode(f, T, x) ELSE <<>>)]
  /\ UNCHANGED overflowChecks

AbsorbNext ==
  \E i \in DOMAIN Items : \E x, y \in Items[i].values : AbsorbItem(Items[i].type, x, y)

AbsorbSpec == AbsorbInit /\ [][AbsorbNext]_absorbVars

-----------------------------------------------------------------------------
(* The types that say where they end, so that something may follow them:   *)
(* bytes are counted as elements only, and other slices never are, unless  *)
(* they are absorbed with their length.                                    *)
RECURSIVE Delimited(_, _), Decodable(_, _)
Delimited(form, T) ==
  CASE T.kind = "slice"  -> form = "elems" /\ T.of.kind = "u8"
    [] T.kind = "fork"   -> TRUE
    [] T.kind \in {"sized", "option"} -> Delimited(form, T.of)
    [] T.kind = "struct" -> \A i \in DOMAIN T.fields : Delimited(form, T.fields[i])
    [] OTHER -> TRUE

(* The types whose values are told apart if nothing follows them.          *)
Decodable(form, T) ==
  CASE T.kind \in {"slice", "sized"} -> Delimited(form, T.of)
    [] T.kind = "option" -> Decodable(form, T.of)
    [] T.kind = "struct" ->
         \A i \in DOMAIN T.fields : IF i = Len(T.fields) THEN Decodable(form, T.fields[i])
                                    ELSE Delimited(form, T.fields[i])
    [] OTHER -> TRUE

(* Two transcripts of one schema give a sponge the same input only if they *)
(* are the same values, item by item: no item can be cut elsewhere, no     *)
(* sign, flag, length or zero is lost, in either form.                     *)
TranscriptsToldApart ==
  \A f \in Forms :
    Decodable(f, [kind |-> "struct", fields |-> schema]) =>
      (encoded[f].left = encoded[f].right <=> transcript.left = transcript.right)

(* The circuit's sponge is given what the native sponge is given, for      *)
(* every value both have an encoding of.                                   *)
CircuitEncodesAlike ==
  (\A i \in DOMAIN schema : HasGadget(schema[i])) =>
    \A f \in Forms : circuit[f] = encoded[f].left
=============================================================================
