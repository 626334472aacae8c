--------------------------- MODULE WindowedHashes ---------------------------
(***************************************************************************)
(* The hashes that multiply windows of the input's bits with a generator   *)
(* of their own: crh/pedersen, crh/bowe_hopwood and commitment/pedersen,   *)
(* natively and as gadgets, on one input and on two.                       *)
(*                                                                         *)
(* The generators are random, so nobody knows a relation between them: a   *)
(* group element is the list of its coefficients, one for each generator,  *)
(* modulo the order of the group, and the coordinate x a caller keeps of   *)
(* a point of that group tells it from all others (crh/injective_map).     *)
(* A call that panics gives <<>>, one that returns gives <<its digest>>.   *)
(***************************************************************************)
EXTENDS GroupBytes

CONSTANTS
  HashOrder,               \* the order of the group, C::ScalarField::MODULUS
  WindowSize, NumWindows,  \* W::WINDOW_SIZE, W::NUM_WINDOWS
  HashInputs               \* by scheme, what the callers hash

ByteValues == 0 .. 255

(* What the types of the callers say: byte slices, pairs of them, and for  *)
(* a commitment a scalar.                                                  *)
ASSUME WindowAssumption ==
  /\ HashOrder \in Nat \ {0, 1}
  /\ WindowSize \in Nat \ {0} /\ NumWindows \in Nat \ {0}
  /\ ShiftLeft(1, WindowSize) <= HashOrder
  /\ \A s \in {"pedersen", "bowe_hopwood"} : HashInputs[s] \subseteq Seq(ByteValues)
  /\ \A s \in {"pedersen2", "bowe_hopwood2"} : HashInputs[s] \subseteq Seq(ByteValues) \X Seq(ByteValues)
  /\ HashInputs["commitment"] \subseteq Seq(ByteValues) \X (0 .. (HashOrder - 1))

ChunkSize == 3
InputSizeBits == WindowSize * NumWindows
HalfInputSizeBits == InputSizeBits \div 2
InputBytes == InputSizeBits \div ByteBits

SchemesOfHashes == {"pedersen", "pedersen2", "bowe_hopwood", "bowe_hopwood2", "commitment"}

VARIABLES
  hashScheme,  \* which of them
  debug,       \* is debug_assert! compiled in?
  left, right, \* two inputs, or Unhashed
  digests,     \* what the native code gave for each
  circuits     \* and the gadgets

hashVars == <<hashScheme, debug, left, right, digests, circuits>>

-----------------------------------------------------------------------------
Panic == <<>>

(* The coefficient each window of bits gives its generator, whose powers   *)
(* are each twice the one before: create_generators and evaluate.          *)
WindowScalar(bits) == FromBitsLE(bits) % HashOrder

(* The sum: windows and generators are zipped, one to one.                 *)
Windows(scalars) ==
  [w \in 1 .. NumWindows |-> IF w \in DOMAIN scalars THEN scalars[w] ELSE 0]
PedersenSum(bits) ==
  LET chunks == InChunks(bits, WindowSize)
  IN Windows([w \in DOMAIN chunks |-> WindowScalar(chunks[w])])

(* CRH::evaluate: the bytes are filled up before they become bits.         *)
PedersenEvaluate(input) ==
  IF Len(input) * ByteBits > InputSizeBits THEN Panic
  ELSE LET padded == IF Len(input) * ByteBits < InputSizeBits
                     THEN Resized(input, InputBytes) ELSE input
       IN <<PedersenSum(BitsLSBFirst(padded))>>

(* CRHGadget::evaluate: the bits are.                                      *)
PedersenVar(input) ==
  IF Len(input) * ByteBits > InputSizeBits THEN Panic
  ELSE <<PedersenSum(Resized(BitsLSBFirst(input), InputSizeBits))>>

(* TwoToOneCRH::evaluate, with the zip that drops what does not fit the    *)
(* buffer of n bytes, and the gadgets' chain.  (BufferAtHalf, a mutant,    *)
(* starts the right input in the middle of the buffer.)                    *)
BufferAtHalf(l, r, n) == Resized(Resized(l, n \div 2) \o r, n)
Buffer(l, r, n) == Resized(l \o r, n)
Pedersen2(l, r) ==
  IF Len(l) # Len(r) \/ (debug /\ Len(l) * ByteBits > HalfInputSizeBits) THEN Panic
  ELSE PedersenEvaluate(Buffer(l, r, (2 * HalfInputSizeBits) \div ByteBits))
Pedersen2Var(l, r) == IF Len(l) # Len(r) THEN Panic ELSE PedersenVar(l \o r)

(* Commitment::commit and CommGadget::commit: the hash, and the randomness *)
(* on a generator of its own, with as many powers as the order has bits.   *)
Blinded(digest, scalarBits) ==
  Append(digest, FromBitsLE(SubSeq(scalarBits, 1, BitSize(HashOrder))) % HashOrder)
PedersenCommit(input, r) ==
  IF Len(input) > InputSizeBits THEN Panic
  ELSE LET padded == IF Len(input) * ByteBits < InputSizeBits
                     THEN Resized(input, InputBytes) ELSE input
           digest == PedersenEvaluate(padded)
       IN IF digest = Panic THEN Panic ELSE <<Blinded(digest[1], BitsLE(r, BitSize(HashOrder)))>>
PedersenCommitVar(input, r) ==
  IF Len(input) * ByteBits > InputSizeBits THEN Panic
  ELSE LET bits == Resized(BitsLSBFirst(input), InputSizeBits)
       IN <<Blinded(PedersenSum(bits), BitsLSBFirst(ScalarBytes(r, HashOrder)))>>

(* Bowe-Hopwood's setup refuses windows whose scalars would be too large.  *)
MaximumNumChunks ==
  CHOOSE c \in 0 .. HashOrder :
    /\ ShiftLeft(2, 4 * c) >= (HashOrder - 1) \div 2
    /\ \A b \in 0 .. (c - 1) : ShiftLeft(2, 4 * b) < (HashOrder - 1) \div 2
BoweHopwoodSetup == WindowSize <= MaximumNumChunks

(* The scalar of a segment: a digit of 1 to 4 with a sign for each chunk   *)
(* of three bits, sixteen times the one before.                            *)
(* (DigitNoSign is a mutant.)                                              *)
DigitNoSign(c) == 1 + c[1] + 2 * c[2]
Digit(c) == (1 + c[1] + 2 * c[2]) * (IF c[3] = 1 THEN -1 ELSE 1)
SegmentScalar(bits) ==
  LET chunks == InChunks(bits, ChunkSize)
      sum[n \in 0 .. Len(chunks)] ==
        IF n = 0 THEN 0 ELSE Digit(chunks[Len(chunks) + 1 - n]) + 16 * sum[n - 1]
  IN sum[Len(chunks)]

(* The input is filled up to whole chunks only.                            *)
WholeChunks(bits) == Resized(bits, ChunkSize * ((Len(bits) + ChunkSize - 1) \div ChunkSize))

(* CRH::evaluate.                                                          *)
BoweHopwoodSum(bits) ==
  LET segments == InChunks(bits, WindowSize * ChunkSize)
  IN Windows([w \in DOMAIN segments |-> SegmentScalar(segments[w]) % HashOrder])
BoweHopwoodEvaluate(input) ==
  IF Len(input) * ByteBits > InputSizeBits * ChunkSize THEN Panic
  ELSE <<BoweHopwoodSum(WholeChunks(BitsLSBFirst(input)))>>

(* CRHGadget::evaluate pushes the zeros itself, and the library looks a    *)
(* digit up by its first two bits and negates it by the third.  (Mutant:   *)
(* VarDigitSwapped has the bits of the index in the other order.)          *)
VarWholeChunks(bits) ==
  IF Len(bits) % ChunkSize = 0 THEN bits
  ELSE bits \o [i \in 1 .. (ChunkSize - (Len(bits) % ChunkSize)) |-> 0]
VarDigitSwapped(c) ==
  LET multiple == <<1, 2, 3, 4>>[1 + c[2] + 2 * c[1]]
  IN IF c[3] = 1 THEN -multiple ELSE multiple
VarDigit(c) ==
  LET multiple == <<1, 2, 3, 4>>[1 + c[1] + 2 * c[2]]
  IN IF c[3] = 1 THEN -multiple ELSE multiple
VarSegmentScalar(bits) ==
  LET chunks == InChunks(bits, ChunkSize)
      sum[n \in 0 .. Len(chunks)] ==
        IF n = 0 THEN 0 ELSE VarDigit(chunks[Len(chunks) + 1 - n]) + 16 * sum[n - 1]
  IN sum[Len(chunks)]
BoweHopwoodVarSum(bits) ==
  LET segments == InChunks(bits, WindowSize * ChunkSize)
  IN Windows([w \in DOMAIN segments |-> VarSegmentScalar(segments[w]) % HashOrder])
BoweHopwoodVar(input) ==
  IF Len(input) * ByteBits > InputSizeBits * ChunkSize THEN Panic
  ELSE <<BoweHopwoodVarSum(VarWholeChunks(BitsLSBFirst(input)))>>

BoweHopwood2(l, r) ==
  IF \/ Len(l) # Len(r)
     \/ debug /\ Len(l) * ByteBits > HalfInputSizeBits
  THEN Panic
  ELSE BoweHopwoodEvaluate(Buffer(l, r, InputBytes))
BoweHopwood2Var(l, r) ==
  IF Len(l) # Len(r) \/ Len(l) + Len(r) > InputBytes THEN Panic
  ELSE BoweHopwoodVar(l \o r \o [i \in 1 .. (InputBytes - Len(l) - Len(r)) |-> 0])

Digest(s, x) ==
  CASE s = "pedersen"      -> PedersenEvaluate(x)
    [] s = "pedersen2"     -> Pedersen2(x[1], x[2])
    [] s = "bowe_hopwood"  -> BoweHopwoodEvaluate(x)
    [] s = "bowe_hopwood2" -> BoweHopwood2(x[1], x[2])
    [] s = "commitment"    -> PedersenCommit(x[1], x[2])
DigestVar(s, x) ==
  CASE s = "pedersen"      -> PedersenVar(x)
    [] s = "pedersen2"     -> Pedersen2Var(x[1], x[2])
    [] s = "bowe_hopwood"  -> BoweHopwoodVar(x)
    [] s = "bowe_hopwood2" -> BoweHopwood2Var(x[1], x[2])
    [] s = "commitment"    -> PedersenCommitVar(x[1], x[2])

-----------------------------------------------------------------------------
Unhashed == "unhashed"

HashInit ==
  /\ hashScheme \in {s \in SchemesOfHashes :
                       s \in {"bowe_hopwood", "bowe_hopwood2"} => BoweHopwoodSetup}
  /\ debug \in BOOLEAN
  /\ left = <<>> /\ right = <<>>
  /\ digests = <<>> /\ circuits = <<>>

(* Two callers hash, each natively and in a circuit.                       *)
HashBoth(x, y) ==
  /\ digests = <<>>
  /\ left' = x /\ right' = y
  /\ digests' = <<Digest(hashScheme, x), Digest(hashScheme, y)>>
  /\ circuits' = <<DigestVar(hashScheme, x), DigestVar(hashScheme, y)>>
  /\ UNCHANGED <<hashScheme, debug>>

HashNext == \E x, y \in HashInputs[hashScheme] : HashBoth(x, y)

HashSpec == HashInit /\ [][HashNext]_hashVars

-----------------------------------------------------------------------------
(* What a scheme tells apart: Pedersen inputs up to zeros at their end,    *)
(* Bowe-Hopwood inputs with their length; a commitment's randomness too.   *)
Committed(s, x) ==
  CASE s = "pedersen"   -> Resized(x, InputBytes)
    [] s \in {"pedersen2", "bowe_hopwood2"} -> Resized(x[1] \o x[2], InputBytes)
    [] s = "commitment" -> <<Resized(x[1], InputBytes), x[2]>>
    [] OTHER -> x

(* Two calls that return give the same digest exactly if they stand for    *)
(* the same input: no two windows, digits or halves make up for each       *)
(* other.  What a pair stands for is what fits the buffer: two inputs cut  *)
(* elsewhere can be the same, and without debug assertions so can two that *)
(* are too long.                                                           *)
DigestsBind ==
  digests # <<>> /\ Panic \notin {digests[1], digests[2]} =>
    (digests[1] = digests[2] <=> Committed(hashScheme, left) = Committed(hashScheme, right))

(* Where the circuit can be built the native code returns, with the same   *)
(* digest; with debug assertions neither takes what the other refuses.     *)
CircuitHashesAlike ==
  \A i \in DOMAIN digests :
    IF debug THEN circuits[i] = digests[i]
    ELSE circuits[i] # Panic => circuits[i] = digests[i]

(* "must have a window size resulting in scalars < (p-1)/2": what setup    *)
(* accepts multiplies a generator by no more than half of the order.       *)
ScalarsStayBelowHalf ==
  hashScheme = "bowe_hopwood" /\ digests # <<>> /\ digests[1] # Panic =>
    \A segment \in {InChunks(WholeChunks(BitsLSBFirst(left)), WindowSize * ChunkSize)[i] :
                      i \in 1 .. ((Len(left) * ByteBits + WindowSize * ChunkSize - 1)
                                    \div (WindowSize * ChunkSize))} :
      LET scalar == SegmentScalar(segment)
      IN scalar \in (-((HashOrder - 1) \div 2)) .. ((HashOrder - 1) \div 2)
=============================================================================
