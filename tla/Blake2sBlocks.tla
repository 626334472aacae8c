--------------------------- MODULE Blake2sBlocks ---------------------------
(***************************************************************************)
(* evaluate_blake2s_with_parameters of prf/blake2s/constraints.rs: an      *)
(* input cut into blocks, each compressed with a counter and a flag; and   *)
(* the three ways the crate calls it, the PRF, the commitment and bare.    *)
(* The compression is not computed: compressed is what it was called with, *)
(* of which the digest is a function.  Input lengths are asserted to be    *)
(* whole bytes, so a byte is the unit here, and a word four of them.       *)
(***************************************************************************)
EXTENDS BitStrings

CONSTANTS
  BlakeLengths,        \* the lengths of an input
  InputByte(_, _),     \* byte p of "seed", "input" or "r"
  BlakeZero            \* Boolean::constant(false), eight of them

ASSUME BlakeLengthsAssumption == BlakeLengths \subseteq Nat

VARIABLES
  hashed,      \* the input of the call
  waiting,     \* blocks[i..], not yet compressed
  compressed,  \* [block, t, f] of each call of blake2s_compression
  blakePc      \* "idle", "blocks", "done"

blakeVars == <<hashed, waiting, compressed, blakePc>>

Bytes(name, n) == [p \in 1 .. n |-> InputByte(name, p)]

(* s filled with zeros to n.                                               *)
Filled(s, n) == s \o [i \in 1 .. (n - Len(s)) |-> BlakeZero]

(* The sixteen words of each chunk of 512 bits, the last word and then the *)
(* last block filled with zeros; an empty input is a block of zeros.       *)
WordsOf(chunk) ==
  LET words == InChunks(chunk, 4)
  IN [w \in 1 .. 16 |-> IF w <= Len(words) THEN Filled(words[w], 4) ELSE Filled(<<>>, 4)]
Blocks(input) ==
  IF input = <<>> THEN <<WordsOf(<<>>)>>
  ELSE LET chunks == InChunks(input, 64) IN [b \in DOMAIN chunks |-> WordsOf(chunks[b])]

Compress(block, t, f) ==
  compressed' = Append(compressed, [block |-> block, t |-> t, f |-> f])

-----------------------------------------------------------------------------
BlakeInit ==
  /\ hashed = <<>> /\ waiting = <<>> /\ compressed = <<>>
  /\ blakePc = "idle"

Evaluate(input) ==
  /\ blakePc = "idle"
  /\ hashed' = input
  /\ waiting' = Blocks(input)
  /\ blakePc' = "blocks"
  /\ UNCHANGED compressed

(* Blake2sGadget::evaluate, and the native PRF that updates with the one   *)
(* and then the other.                                                     *)
EvaluatePrf(n) == Evaluate(Bytes("seed", 32) \o Bytes("input", n))

(* CommGadget::commit.                                                     *)
Commit(n) == Evaluate(Bytes("input", n) \o Bytes("r", 32))

(* Mutant of InnerBlock: the counter is that of the blocks before.         *)
InnerBlockCountsFromZero ==
  /\ blakePc = "blocks"
  /\ Len(waiting) > 1
  /\ Compress(Head(waiting), Len(compressed) * 64, FALSE)
  /\ waiting' = Tail(waiting)
  /\ UNCHANGED <<hashed, blakePc>>

(* A block that is not the last: the bytes up to its end, no flag.         *)
InnerBlock ==
  /\ blakePc = "blocks"
  /\ Len(waiting) > 1
  /\ Compress(Head(waiting), (Len(compressed) + 1) * 64, FALSE)
  /\ waiting' = Tail(waiting)
  /\ UNCHANGED <<hashed, blakePc>>

(* The last: the length of the input, without the zeros.                   *)
FinalBlock ==
  /\ blakePc = "blocks"
  /\ Len(waiting) = 1
  /\ Compress(Head(waiting), Len(hashed), TRUE)
  /\ waiting' = <<>>
  /\ blakePc' = "done"
  /\ UNCHANGED hashed

BlakeNext ==
  \/ \E n \in BlakeLengths : Evaluate(Bytes("input", n)) \/ EvaluatePrf(n) \/ Commit(n)
  \/ InnerBlock
  \/ FinalBlock

BlakeSpec == BlakeInit /\ [][BlakeNext]_blakeVars

-----------------------------------------------------------------------------
(* What was compressed is what RFC 7693 compresses for the bytes hashed,   *)
(* as the native Blake2s256 does: dd blocks, at least one; the counter     *)
(* counts message bytes, never padding; only the last block is flagged.    *)
CompressesAsRFC7693 ==
  blakePc = "done" =>
    LET ll == Len(hashed)
        dd == IF ll = 0 THEN 1 ELSE (ll + 63) \div 64
        byteAt(p) == IF p <= ll THEN hashed[p] ELSE BlakeZero
    IN /\ Len(compressed) = dd
       /\ \A b \in 1 .. dd :
            /\ compressed[b].t = (IF b < dd THEN b * 64 ELSE ll)
            /\ compressed[b].f = (b = dd)
            /\ \A w \in 1 .. 16 : \A k \in 1 .. 4 :
                 compressed[b].block[w][k] = byteAt(64 * (b - 1) + 4 * (w - 1) + k)
=============================================================================
