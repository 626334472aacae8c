# A TLA+ model of crypto-primitives

This directory holds a verification project for the crate in
`src/crypto-primitives`: TLA+ modules translated from its Rust code, TLC runs
that check them on small instances, and proofs of the most important invariants
for every value of the parameters. The crate is a library of cryptographic
building blocks: hashes, sponges, Merkle trees, commitments, signatures and
encryption, most of them twice, once as native code and once as a *gadget* that
builds the same computation as constraints of a proof system.

No function is checked for being hard to invert. What is modelled is the
*machinery* around the mathematics: buffers, positions, modes, padding, trees,
orders and error paths, with the permutation, the hashes and the field left as
parameters. What holds here holds of every permutation and every hash.

## 1. Inventory

The library is synchronous: an operation borrows its object for the whole call,
so two calls on one object never overlap. The exceptions are the parallel
iterators (feature `parallel`) and objects that outlive the state they were
made from, such as a Merkle proof. The hard behaviours are loops whose turns
hand indices to each other, call sequences that reach a boundary, hashes that
fail in the middle of a call, and two pieces of code that must agree on an order.

| component | state | operations | hard behaviour | what makes it correct |
|---|---|---|---|---|
| Poseidon sponge `sponge/poseidon/mod.rs` | state vector, duplex mode with an index | `new`, `absorb`, `squeeze_*` | full blocks (index = rate), inputs and outputs over several blocks, empty calls, changes of mode | no rate cell is used twice between permutations; output depends on what is absorbed and how much is squeezed, not on how it is cut into calls |
| Rescue sponge `sponge/rescue/mod.rs` | the same | the same | the same, in slightly different code | the same |
| `Reference` of `sponge/poseidon/tests.rs` | state vector, absorbing line, squeeze count | `absorb`, `squeeze` | none: it is the specification | |
| Sized squeezes, `fork` `sponge/mod.rs` | none | bit windows, domain separation | windows of unequal sizes | the windows tile the bits squeezed |
| `Absorb` encodings `sponge/absorb.rs`, `sponge/constraints/absorb.rs`, derive in `src/macros` | none | bytes and field elements of a value | smallest signed integers, byte batches, lengths | transcripts of one schema are told apart wherever each item says where it ends; the circuit encodes as the native code does |
| Grain LFSR, `find_poseidon_ark_and_mds` | 80-bit register, head | `new`, `get_bits`, rejection sampling | circular index, unbounded loops | the register is the shift register of the paper |
| Sponge gadgets `sponge/*/constraints.rs` | as the native sponges | as the native sponges | the same loops in other code | native and gadget are in the same state after the same calls |
| Merkle tree `merkle_tree/mod.rs` | two vectors of digests, height | `blank`, `new`, `new_with_leaf_digest`, `update`, `check_update` | level-by-level, possibly parallel, building; a hash failing half-way; write-back of a reversed path | every inner node is the hash of its children; a failed or refused call changes nothing |
| Merkle proofs `Path`, `CoPath` | a proof, held by somebody else | `generate_proof`, `verify`, `generate_multi_proof`, `CoPath::verify` | proofs older than the tree; two enumerations that must agree; leaves given by position | accepted exactly when what it claims is true of the tree with that root |
| Path gadget `merkle_tree/constraints.rs` | path, position bits | `set_leaf_position`, `calculate_root`, `update_leaf`, `update_and_check` | bits in reversed order | the same root as `Path::verify` |
| SHA-256 gadget `crh/sha256/constraints.rs` | state words, 64-byte buffer, counters | `default`, `update`, `finalize`, `digest` | boundaries at 0, 55, 56, 63, 64 bytes; updates cut anywhere | the blocks hashed are those of the padded message |
| Blake2s PRF `prf/blake2s/` | hash words | `evaluate_blake2s` | block counter, last block, empty input | the block loop of the RFC |
| Pedersen, Bowe-Hopwood `crh/`, Pedersen commitment `commitment/` | generators | `setup`, `evaluate`, `commit` | padding, windows, chunks of three bits with a sign, two halves in one buffer | equal digests mean equal inputs, up to zeros; circuit and native code refuse and give the same |
| Poseidon and Rescue CRH, injective maps, Blake2s commitment | none | one hash call each | none | as their parts |
| Schnorr, ElGamal | keys | keygen, sign, verify, randomize; encrypt, decrypt | rejected hash-to-scalar values; a key and a signature randomized by different parties in different code | a signature randomized as its key verifies, no other does; decryption inverts encryption |
| SNARK input packing `snark/constraints.rs` | none | `new_input`, `repack_input`, `from_field_elements` | how many bits of one field fit another, bits reversed at each change of field | all cut and turn alike, and nothing is lost |

**How components interact.** Merkle trees and commitments call CRHs through
traits that may return errors. The sponge CRHs and the Merlin sponge are clients
of the sponges. Every gadget shadows a native component and has to reach the
same result. Only the native and gadget sponges, the Merkle tree and the SHA-256
gadget keep state across calls; these carry the core logic and have modules
whose actions are the turns of their loops. The others are functions of their
inputs, and a property relates several calls of them (two callers, native and
circuit, prover and verifier). `PROJECT.json` lists every component with its status and every hazard at
its line.

## 2. Modules

```
DuplexState ──> PoseidonSponge ──┐
     ├────────> SpongeReference ─┼─> SpongeCross ──> PoseidonSpongeProofs
     ├──┐                        │                        │
     │  ├─────> SpongeVar ───────┤     SpongeVarProofs <──┤
     │ SqueezeCuts               │     (of SpongeVar)     │
     └────────> RescueSponge ────┴─> RescueCross ──> RescueSpongeProofs

FieldVectors ─> PermutationRounds ─────────────┐
Sha256Stream ──────────────────────────────────┤
     └────────> PrimitivesProofs               │ (of six of these)
BitStrings ──┬> AbsorbEncoding ────────────────┼─> Primitives
             ├> InputPacking ──────────────────┤
             ├> Blake2sBlocks ─────────────────┤
             └> GroupBytes ─┬> WindowedHashes ─┤
                            └> GroupSchemes ───┘

ShiftRegister   GrainLFSR ───────> GrainLFSRProofs
                (implements ShiftRegister)

MerkleHeap ─┬─> MerkleVector ────> MerkleMembership ──> MerklePathVar
            │                                                │
            │                          MerkleMembershipProofs
            ├─> MerkleHeapProofs ────> (both rest on it)
            │                          MerkleTreeProofs
            │                                │
            └────────────────────────> MerkleTree
                                       (implements MerkleVector)
```

(A module of proofs extends the modules it is about and the lemmas it uses:
`PoseidonSpongeProofs` extends `SpongeCross` and `SpongeVarProofs`,
`RescueSpongeProofs` extends `RescueCross` and `SpongeVarProofs`, `PrimitivesProofs`
extends `Sha256Stream`, `Blake2sBlocks`, `PermutationRounds`, `GroupSchemes` and
`WindowedHashes`, `MerkleTreeProofs` extends `MerkleTree` and `MerkleHeapProofs`, and
`MerkleMembershipProofs` extends `MerklePathVar` and `MerkleHeapProofs`.)

Each `MCxyz` module gives the parameters of `xyz` values for TLC;
`MCMerkleMembership` does so for `MerklePathVar` and all it extends, and
`MCPrimitives` for `Primitives`, which puts the parts that do not call one
another side by side: a behaviour is about one of them, its `subject`, and the
others rest. An operator
whose comment begins with "Mutant of" stands beside the definition it is a
plausible mistake of; nothing uses it, and it exists to show that the property
it is paired with in `PROJECT.json` can fail. ("Mutant" in the comment of the
definition it belongs to says the same.)

### Sponges

`DuplexState` is what the two native sponges share word for word: `self.state`
as a function on cells, `self.mode` as a record of a kind and an index,
`absorb_internal`, and the finishing turn of `squeeze_internal`. A call is
several steps: entering it (with or without the permutation that the match on
the mode makes first), then one step per turn of its loop, with `start`,
`remaining`, `want` and `out` for the loop's locals.

| code | action |
|---|---|
| `absorb`, empty input | `AbsorbNothing` |
| `absorb`, mode absorbing / squeezing | `AbsorbMore` / `AbsorbAfterSqueeze` |
| `squeeze_native_field_elements`, mode absorbing / squeezing | `SqueezeAfterAbsorb` / `SqueezeMore` |
| turn of `absorb_internal` | `AbsorbChunk`, `AbsorbLast` |
| turn of `squeeze_internal` | `SqueezeChunk`, `SqueezeLast` |

`use` is a history variable: what happened to each rate cell since a
permutation. The discipline of a duplex sponge is stated with it.

`SpongeReference` is the `Reference` struct the repository's own cross test
fuzzes `PoseidonSponge` against. It is lazy (it collects inputs and absorbs them
block by block when somebody squeezes), and the sponge is eager.

`SqueezeCuts` is what a sponge makes of a request for bytes, bits or sized elements:
how many native elements it squeezes and how it cuts them. Bit *i* of an element is
a pair, so a bit used twice or in the wrong place is seen. Sized elements of another
field (`"sizes"`) are always windows of bits. Of a field of the sponge's own
characteristic (`"native"`) they are whole elements if every size is full, and
windows as soon as one is truncated (`Whole`, `Windowed`). An empty list is "every
size is full": it permutes a sponge that was absorbing, where the same list for
another field returns before it reaches the sponge.

`SpongeVar` is the two gadgets, `PoseidonSpongeVar` and `RescueSpongeVar`. A
circuit is laid out in one go, so a call is one step, and the loops of the
gadgets, which are other code than the native ones, are recursive functions; so are
their usable bytes and bits and numbers of elements (`VarUsableBits`,
`VarNumElements`), which a slip in one copy would set apart. The gadgets do not look
at the field: `squeeze_emulated_field_elements_with_sizes` always cuts windows. So
the circuit that answers a `"native"` request is the one its caller has to write:
`squeeze_field_elements` if every size is full, the emulated call otherwise. With full
sizes of the sponge's own field the emulated call gives the low bits of the elements
where the native sponge gives all of them, and for an empty list it leaves alone a
sponge that the native call permutes.

`SpongeCross` gives the same calls to the Poseidon sponge, its reference and its
gadget; `RescueCross` does so for the Rescue sponge and its gadget. The others
answer at once, the native sponge runs its loops, and they are compared when it
has returned.

### Permutations

`PermutationRounds` opens what the sponge modules leave a parameter: `permute`
of both sponges and of both gadgets, round by round over a small field
(`FieldVectors`). An inverse S-box of the Rescue circuit is not computed: the
prover supplies a witness that a constraint ties to the input. In the model the
prover may take any witness that satisfies the constraint. A cell is a constant
or a variable of the circuit, since the code enforces different equations for
the two, with or without the predicate. Native code and gadget each choose between
full and partial rounds, and between forward and inverse S-boxes, by ranges of their
own (`Full` and `VarFull`, `Forward` and `VarForward`).

### Poseidon parameters

`GrainLFSR` is the register that never moves its bits but its head, the filter
of `get_bits`, both samplings, and `find_poseidon_ark_and_mds` with the choice
of the table entry on top of them. `ShiftRegister` is the register of the paper;
`GrainLFSR` implements it, read from its head on. `stream`, the history of the
bits since the warm-up, says what the numbers have to be.

### Merkle tree

`MerkleHeap` is the shape of the tree without state (the index helpers at the
end of `merkle_tree/mod.rs`). `MerkleTree` has one step per node computed while
building (any order inside a level), per level of `updated_path`, and per node
of the write-back loop; hashes may fail at every one of the points where the
code has a `?`. A check of a constructor or of `update` that panics (leaf counts
that are no power of two, indices out of range) is a precondition here: the
model's caller respects it. `update` and `check_update` are one machine,
distinguished by `asserted`.

`MerkleVector` is the abstract promise: a vector of leaf digests and inner
digests that are a function of it, created at once and changed by replacing one
leaf. `MerkleTree` is shown to implement it (`ImplementsVector`); while a call
is storing its path, the abstract tree is still the old one.

`MerkleMembership` works over `MerkleVector`: a verifier holds a proof, the
tree goes on changing, and at any moment the proof is checked against the
current root. A position is a depth and an index in the level. `CopathAt` and
`InnerSlots` are the enumeration of the prover; the verifier counts out what it needs
for itself (`NeededLeaves`, `NeededAt`, `NeededInner`) and matches the lists of the
proof with its own order, as the code does, so that a difference between the two can
be told. `Levels` is the verifier's reconstruction. `Found` says which queries
get a proof: those whose siblings can all be looked up, also when their indices
are not in the tree.

`MerklePathVar` puts the path that is held into a circuit. Its position is not
an index but bits, split into the one of the leaf and the rest, and the verifier
may set it; the tree still goes on changing underneath. `asked` remembers the
index the bits stand for.

### SHA-256

`Sha256Stream` has real 64-byte blocks. The compression function is not
computed: `blocks` is the sequence of blocks given to `update_state`, of which
the state words are a function. The message is one endless sequence of
distinguishable bytes from which the caller passes the next `n`.

### Blake2s

`Blake2sBlocks` is the block loop of `evaluate_blake2s_with_parameters`, a step
for each call of the compression function, which is remembered with its block,
counter and flag instead of computed. Its input is what the PRF, the commitment
or a bare call hand to it.

### Encodings

`AbsorbEncoding` gives two callers a sponge each and lets them absorb values of
the same types, or fork, in both forms (bytes and field elements); a circuit
repeats the left caller. `Encode` has one case for each implementation of
`Absorb`, `GadgetEncode` for each of `AbsorbGadget`; the operators of the leaves
(`Number`, `Element`, `Point`, `Batch`, `WithLength`, `Derived`) are named for
what they encode. `Delimited` says which types carry their end: a slice of bytes
does as elements (`u8` counts its batch) and does not as bytes, other slices
never do unless absorbed with their length. `overflowChecks` is the build, for
`abs` of the smallest number: with overflow checks it panics, without them it wraps
to itself and is cast to the unsigned type (`Magnitude`).

`InputPacking` packs elements of one field into another in the three places that
do so, with two wrappers: Booleans, and the limbs of emulated elements. Each of the
three computes its capacity for itself (`NewInputCapacity`, `RepackCapacity`,
`FromElementsCapacity`). The
library's field parameters (bits per word, bits per limb) are constants, so that
moduli of a few bits have several words and limbs. Moduli are odd
(`PackingAssumption`): the library represents elements in Montgomery form, which has
no even modulus. `Samples` are the elements of each field that are packed.

### Hashes of windows

`WindowedHashes` writes a group element as its coefficients by generator. The
generators are random, so nobody knows a relation between them; equality of the
lists is equality of digests as far as anyone can tell. Powers of one generator
do relate: that is what makes windows and digits overlap, and the coefficient of
a window is computed modulo the order of the group. A panic is a result of its
own. `debug` is the build, for `debug_assert!`. The gadget of Bowe-Hopwood has its own
windows, digits and scalars (`VarWholeChunks`, `VarDigit`, `VarSegmentScalar`).

### Schemes over a group

`GroupSchemes` is Schnorr and ElGamal over a group of prime order, which is the
integers modulo it. Keys, signatures, shifts of either by randomness, and
ciphertexts are made in any order the interfaces allow; `Challenge`, the digest
as a scalar, is a parameter and may reject. `keyShifts` and `sigShifts` remember
who was shifted by what.

## 3. Runs

| run | question | instance |
|---|---|---|
| `poseidon_sponge` | duplex discipline, meaning of the index, termination of the loops | rate 3, capacity 1, all lengths 0..7, any number of calls |
| `sponge_cross` | equality of sponge, reference and gadget for every permutation; no bit given twice | rate 2, capacity 1, up to 5 elements, requests for elements, bytes, bits and sized elements, four calls |
| `rescue_cross` | what Rescue guarantees for the same calls, and that its gadget follows it | the same |
| `rescue_reemits` | a violation: see section 5 | as `rescue_cross`, two calls |
| `grain_lfsr` | refinement of the shift register, numbers against the stream, qualifying matrices, termination | the register of 80 bits and 160 warm-up turns, primes 257 and 11, several tables |
| `merkle_tree` | consistency, all-or-nothing, refinement, termination | eight leaves, two values, any number of calls |
| `membership` | proofs and their circuits against a changing tree, counts, positions | eight leaves, queries of one to three leaves, of four, seven and eight, of none, and seven that go beyond the tree, positions of 1 to 4 bits, one replacement |
| `membership_doc` | a violation: see section 5 | as `membership` |
| `primitives` | one question for each part of `Primitives`, see below | 270 000 states in all |
| `emulated_constants`, `schnorr_gadget`, `bowe_hopwood_bound` | violations: see section 5 | as `primitives`; a group of order 101 for the last |

The parts of `primitives`:

| part | properties | instance |
|---|---|---|
| SHA-256 | `StreamKept`, `HashesPaddedMessage` | messages up to 200 bytes, updates of 0, 1, 7, 55, 56, 57, 63, 64, 65, 128, 129 bytes |
| Blake2s | `CompressesAsRFC7693` | inputs of 0 to 129 bytes round each multiple of a word and of a block, as PRF, commitment and bare |
| encodings | `TranscriptsToldApart`, `CircuitEncodesAlike` | 21 types, every pair of values, two items to a transcript |
| packings | `PackingsAgree` | all pairs of the fields of 5, 11, 13, 23 and 29 elements, words and limbs of two bits, up to three elements, each 0, 1, the middle or one of the last two of its field |
| permutations | `AgreeIffSameStart`, `HonestProofAccepted` | field of 17 elements, width 2, two permutations, every start |
| windowed hashes | `DigestsBind`, `CircuitHashesAlike` | eleven windows of three in a group of order 2203, every pair of inputs, with and without debug assertions |
| schemes | `SignatureFollowsKey`, `DecryptionInverts` | order 5, every key, two messages, three randomizers, two shifts of either |

**Why these bounds are enough.**

*Sponges.* The lengths go up to two blocks plus one, so a call can begin and end
at every offset, cross no, one or two block boundaries and end exactly on one;
`run_cross_test` draws its lengths from the same range. With a one-point field
the state space is finite without a bound on the calls. In the cross runs the
field is free terms (a permuted cell is the pair of its index and the whole
state vector), so that equal terms are equal for every permutation; there terms
grow and calls are bounded by `MaxCalls`. Four calls reach absorb, squeeze,
absorb, squeeze, with each length at each place. The field has 18 bits, so an
element gives two usable bytes or 17 usable bits, and the requests end inside an
element, on its edge (17 bits) and one past it (18 bits). The other field has 11
bits; the sized requests have windows that cross elements, are empty, and are
full. Of the sponge's own field are asked nothing, two full elements, and a full one
beside a window of all 18 bits.

*Permutations.* In the field of 17 elements the fifth power is a bijection, as
the S-boxes need; the starts are all native vectors, each with the same vector
and with one that differs in one cell by one, with every choice of constant and
variable. A second permutation starts from what the first left.

*Grain.* The register has its real size, so head wraps round it more than once.
Of nine-bit numbers half are not below 257, so numbers are rejected, and they have two
bytes; with 11, duplicates among the points of the matrix and sums that are zero
do occur. The generator is deterministic: the state space is the union of the
runs for each entry.

*Merkle.* Eight leaves have a bottom level, a level between and a root, which is
where the barrier between levels, the order of inner digests and an index halved
twice first matter. Digests are free terms, so no two collide; equality of
digests then means equality of what was hashed. In `merkle_tree` the default
leaf digest is that of leaf "b", which keeps the trees few and lets an update
undo another. In `membership`, `MaxReplaces` bounds how often the tree changes;
one replacement makes a proof stale in each of its digests. Of the queries beyond
the tree three find no sibling, two lie outside it altogether, and two lie beside
leaves of the tree.

*Encodings.* The field of 25 bits takes three bytes to an element, so the eight
bytes of a length end inside one. Values lie at the ends of their types, and
zeros, empty slices and nested ones are among them, since those are what
concatenation confuses. Two items are what one item can be mistaken for.

*Packings.* The moduli have three to five bits; 11 and 13 have the same size and
so do 23 and 29, and differ in their low word or not, which is what the
comparison word by word decides. Three elements straddle every cut.

*Windowed hashes.* 33 bits are four bytes and a bit, so whole bytes do not fill
the windows. Order 2203 is just large enough for segments of three chunks: twice
the largest scalar is 2184 (`SegmentsFit`, which the proof of `DigestsBind` asks
for). The
inputs have zeros at their end, digits of either sign, and lengths that are one
too many.

*Schemes.* With every scalar as key and nonce, what holds is not due to one of
them. Two shifts of each side, with repetition, come in every order. One
commitment has no challenge, so `sign` goes round its loop.

*SHA-256.* The lengths reach every pending count that matters for the padding
(55, 56, 63 and 0 among them) and both branches of `update` from several offsets.

**Fairness.** Three properties need it, `CallsReturn` of the sponge and of the
tree and `Returns` of the generator. Weak fairness is assumed of the steps of a
call that is running, never of a caller: these are loops in one thread, and a
parallel iterator ends only when every element was visited. In `MerkleTree` a
hash may fail instead of a step, which also ends the call. That rejection
sampling ends is a fact about the bits the register gives, and holds of the
entries checked.

**Deadlock** is checked in `poseidon_sponge`, `merkle_tree` and `membership`. It
is not checked in `sponge_cross` and `rescue_cross`, where a bound ends the
behaviour, in `grain_lfsr`, where the function returns, and in `primitives`,
whose parts return their results and have nothing left to do.

## 4. What is proved

TLAPS checks these for every value of the constants that satisfies the named
assumptions (`RateAssumption`, `HeightAssumption` and so on), each of which TLC
evaluates in a run.

**Sponges**, for every rate of at least one, capacity, field, permutation and
addition, any inputs and any requests. `PoseidonTypeOK`,
`PoseidonDuplexDiscipline`, `PoseidonIndexSeparates`, `RescueAbsorbDiscipline`,
and, if nobody asks for exactly `Rate` elements, `RescueNeverReemitted`. These
speak of the use of cells between calls and are not inductive: in the middle of
a call the mode is still that of the last one. The inductive invariant says what
each rate cell is at each place of the program: while a loop runs, the cells
below `start` are used and those from `start` on are not, and the loop's index
takes over the part the mode's index plays between calls.
`RescueOnlyWholeBlocksReemit` adds the history of what was asked.

`PoseidonGadgetFollows` and `RescueGadgetFollows` say that a gadget that is
given the same calls is in the same state and has given the same elements, bytes,
bits and emulated elements. The gadget lays out its loop in one go and the native
sponge takes its turns, so the invariant (`Paired`) compares in the middle of a
call: what the gadget has reached is what its own loop would reach from the
values the native loop has *now*. Each native turn is then one turn of the
gadget's recursive function (`AbsorbTurns`, `SqueezeTurns` in `SpongeVarProofs`).
That they cut bits and bytes alike is a fact about lengths (`SqueezeCuts`): a
request is never cut beyond what was squeezed for it. That both squeeze as much is
`VarRequestIs`.

`PoseidonOutputsAgree` and `PoseidonStatesMeet` are the cross test for all
inputs: the sponge gives what `Reference` gives, for any cut of input and output
into calls. The two never are in the same state while both are at work. The
reference keeps a line of inputs and absorbs it when somebody squeezes; the sponge
absorbs at once, but permutes a full block only when something follows it. The
invariant (`RefInv`) has a case for each place of the program: how much of the
line has been laid into the sponge (`MetAbsorbing` between calls, `MetAbsorb` in
the loop), and which turn of the reference's output loop the sponge has reached
(`MetSqueezing`, `MetSqueeze`).

`PoseidonNoBitTwice` is about values, and so needs something of the permutation:
`Ranked` says that values have a rank, and that the outputs of a permutation are
above its inputs and differ from each other. Free terms are so, with the depth of
nesting as rank; that is what TLC takes. Of a permutation of a finite field it is an
idealisation, as `NoCollisions` is for hashes: sooner or later values repeat, only
nobody can make them. Under it what a call has given lies below the block that is
being read (`Under`), so a permutation brings up nothing that was given before. How
a request is cut then has to be followed down to the bit: pieces of one element do
not overlap (`PieceOnce`), and the window of a size ends before the next one begins
(`WindowsApart`).

**Merkle tree** (`MerkleTreeProofs`), for every height of at least two, all
hashes, every order in which a level is built and every place where a hash
fails: `MerkleTypeOK`, `MerkleConsistent`, `MerkleStoreFollowsClimb`,
`MerkleAllOrNothing`, `MerkleCheckUpdateDecides` and the refinement
`MerkleImplementsVector`. `Consistent` alone says nothing while a call runs. The
inductive invariant adds three things: while building, all levels below the
current one and the nodes already visited in it are hashes of their children;
while climbing, the tree is consistent and each digest of the path is the hash
its node will have once the leaf and the digests below are stored; while storing,
the nodes that are not on the rest of the path are consistent with respect to the
pending digests. A second invariant ties the tree to the one the call began with:
nothing is stored before the climb has ended, and while storing only nodes above
the leaf differ. With it a consistent tree is the reference `Digests` of its
leaves (there is only one, by induction from the leaves), so the end of a
write-back is one step of `MerkleVector` and every other step is a stutter.

The proofs use `WidthAssumption`, which states how `2 ^ depth` doubles: the
provers do not compute with exponents. TLC evaluates it in every run.

**Merkle proofs and their circuits** (`MerkleMembershipProofs`), for every height,
vector, history of replacements, and position a verifier sets:
`PathsSpeakTruth` (a path is accepted with a leaf under the current root exactly
if that leaf in its place makes the vector the current one), `PositionsBind`,
`UpdatesSpeakTruth`, `GadgetsFollowVerify`, and, for multi-proofs of any finite set
of indices, `CoPathsSpeakTruth`, `CountsDecide` and `CoPathsPartition`. The first
three and `CoPathsSpeakTruth` assume `NoCollisions`: hashes are injective. Real hashes are not, their collisions are
only infeasible to find; a path to a wrong leaf *is* a collision, so nothing can
be said without such an idealisation. It is satisfiable: free terms, which TLC
uses, are injective. `GadgetsFollowVerify` compares two computations and needs no
such assumption. The argument is in three lemmas: a climb with the siblings of a
tree goes through the digests of the tree with the leaf replaced; without
collisions a climb that ends at a root began at its leaf and had its siblings; and
the bits a circuit turns round are those of the index. `MembershipInv` says that
what is held is the path of the snapshot and what is allocated has its siblings.

For a multi-proof the invariant (`CoHeldInv`) is that what is held is what
`CoPathFrom` makes of the snapshot for one of the queries whose digests were found.
Three steps lead from there to `CoPathsSpeakTruth`. Every list of a proof is a list
of its set (`Lists`: each member once), so looking a digest up by its place finds
the digest of that node, and the order in which the verifier counts out what it needs
is the order the prover gave it in (`NeededIsGiven`). A node of a path has its two children among the nodes
computed and the digests given (`ChildrenKnown`), so by induction from the leaves
every node the verifier computes inside the tree is the digest of the vector with
the opened leaves in their places (`LevelsAreTree`). Indices beyond the tree lead to
nodes beside it. At the root, two vectors with one root are equal (`RootBinds`).
`CoPathsPartition` follows a leaf upwards: the first level at which its node is the
sibling of one on a path is where its digest is given, and there is one such level.
`CountsDecide` is about the lengths compared before anything is hashed. The last
two need no assumption about hashes.

**SHA-256** (`PrimitivesProofs`), for messages of any length cut in any way:
`Sha256TypeOK`, `Sha256LoopKeepsOrder`, `Sha256StreamKept`,
`Sha256HashesPaddedMessage`. The inductive invariant describes the *stream*: the
blocks hashed, then the pending bytes, then the bytes of the call that are not
yet consumed, are together a prefix of the message, or, in `finalize`, the whole
padded message. Each action moves a boundary between those three parts.

**Blake2s** (`PrimitivesProofs`), for inputs of any length, to the PRF, the
commitment or bare: `Blake2sCompressesAsRFC7693`. `BlakeInv` says that what is
compressed and what waits are together the blocks cut from the input, in order, each
compressed one with the counter and the flag of its place. The code cuts an input
into chunks, a chunk into words, and fills up the last of each; the RFC speaks of
byte `p` of a padded input. `BlocksRead` is what joins them: byte by byte, a block
is the input with zeros behind its end. The empty input is a block of its own.

**Schnorr and ElGamal** (`PrimitivesProofs`), for every order in which each scalar
other than zero has an inverse (`SchemesAssumption`, which is what a prime field of
scalars is), every digest function, any byte strings to shift by and any number of
shifts: `SchnorrSignatureFollowsKey` and `ElGamalDecryptionInverts`. `SchemesInv`
says, modulo the order (`Alike`), that a public key is the generator times its
secret and the sum of the shifts it got, and that a signature commits (`Commits`)
to what its maker committed to, for a key with the shifts the *signature* got; the
two sums meet in `verify`, and what it recomputes differs from the commitment by the
challenge times their difference (`ClaimedFollows`). Two things need more than
that arithmetic. The key is shifted by doubling and adding from the last bit
(`DoubleAndAdd`) and the signature by the powers of two from the first
(`PowersSum`): in `SumIsMultiple` the power reached from one end always multiplies
what the other loop has still to double. And shifts by the same byte strings in
another order have the same sum (`SumsAlike`), by taking the last element of one
sequence out of the other. That no other key decrypts is `NoZeroDivisors` again.
The gadget of ElGamal gets its randomness as bytes. A bit of a byte is a bit of the
scalar (`ByteBit`, `ShiftFurther`), the bytes hold as many bits as the order has
(`SmallerShiftedAway`), and bits that are all there is of a number have its value
(`BitsMakeNumber`), so the gadget multiplies by the scalar itself (`ScalarBits`).

**Windowed hashes** (`PrimitivesProofs`), for every order, window and set of inputs of
the types the callers have: `WindowedCircuitHashesAlike` and `WindowedDigestsBind`.
`HashedInv` only keeps who hashed what; the rest is about the functions. A hash is of
the bits *and the zeros behind them*: two sequences are `SameFilled` if they agree at
every place, a place behind the end counting as zero. The native code fills up bytes,
the gadget bits, each chunk of a window may be short or missing, and the two-to-one
hashes fill up a buffer; all of that leaves `SameFilled` alone (`ChunkFillsWindow`,
`SameFilledBytes`, `BufferIs`), and a sum is a function of the windows (`PedersenSumIs`),
so both sides hash the same. The digits and scalars of the gadget of Bowe-Hopwood are
those of the native code (`VarDigitIs`, `VarScalarIs`). The other way round, a window's number is below its power
of two (`BitsBelow`), which `WindowAssumption` says is at most the order, so the number
and its bits can be told from the rest modulo the order (`BitsTold`), then the bytes
from the bits (`ByteIsItsBits`). In a Bowe-Hopwood segment the digits, from -4 to 4 and
never zero, can be told from the scalar one by one, and so can how many there are
(`SameDigits`): a segment is not mistaken for a shorter one. The scalar can be told
modulo the order if twice the largest one is below it: that is `SegmentsFit`, a
hypothesis of the theorem for these two hashes. `setup` does not see to it for the
longest windows it takes (the finding `bowe_hopwood_bound`), but for all shorter ones:
`ShorterWindowsFit`.

**Permutations** (`PrimitivesProofs`), for every prime field, width, number of rounds
and table of round keys, and however often `permute` is called: `PermutationsAgree`
and `HonestProofsAccepted`. `RoundsAssumption` says what the parameters of the sponges
have to be for `permute` to be a permutation at all: `alpha_inv` inverts `alpha`, and
the matrix is invertible. Each step of a round `Meets`: it maps equal values of native
state and gadget to equal ones and different values to different ones. Addition of a
round key does by arithmetic modulo `P`, the S-boxes because a power can be undone, the
matrix by assumption; that both choose the same kind of round in each turn is
`SameTurn`; and `WitnessIs` says that a witness which satisfies either form
of the constraint has just the value the native S-box computes.

**Grain LFSR** (`GrainLFSRProofs`): `GrainIsShiftRegister`, the refinement, for
every size, every set of taps with position 0 and all parameters. Every step is
one `Update` or leaves the ring alone; an update of the ring is a shift of what
is read from the head on, by arithmetic modulo the size.

`NumbersComeFromStream` and `MatrixQualifiesIffDistinct` are about the client, for
every prime field, table and request. `FieldsAssumption` says what a prime field is
here: every element other than zero has an inverse. `NumbersInv` has three parts.
`StreamOK` is the place in `get_bits` (the parity of the stream, and the first bit
of a pair that is open); `CallsOK` how far the calls have come and how many elements
each has returned; and there is a sequence of numbers which the selected bits are cut
into, with the pending bits behind them (`CutOK`), and of which those drawn are the
first ones below the modulus and then all, reduced (`DrawnOK`). A completed number
extends that sequence; that its bytes, read from the other end, have the value of its
bits is `LeBytesValue`, by Horner's rule in base 2 and in base 256. For the matrix,
`MatrixInv` adds that what is drawn are elements and that at the end the entries are
the inverses of the sums of points. A minor of two rows and two columns then is zero
exactly if `(x_i - x_k) * (y_j - y_l)` is, and modulo a number for which inverses
exist there are no zero divisors (`NoZeroDivisors`).

**Input packing** (`PrimitivesProofs`), for every set of odd moduli, any width of words
and of limbs, any number of elements and any elements: `PackingsAlwaysAgree`. `PackInv`
says that what is packed is what the code made of the elements, and that a sponge gave
at most as many bits as the modulus has; the rest is about the functions. Bits in
chunks, laid end to end, are the bits there were (`FlatChunks`), and elements of
`BitSize` bits each, laid end to end, come out of the chunks of that length again
(`ChunksOfFlat`): so the circuit reads back what was packed (`BooleansReadBack`). That
a chunk fits the field that gets it (`ChunkFits`) is clear while it has fewer bits than
the modulus; if it has as many, it holds one element of the other field, and that one
is smaller because the words, compared from the top, say so (`NotSmallerIs`), which
each of the three places finds out for itself (`CapacitiesAgree`). Limbs
are cut from turned bits, the top one shorter, or made of an element by shifts and
remainders; they are the same (`LimbsAre`) and have its value (`LimbsValueIs`). Squeezed
bits add up limbs of powers of two: each power has its one bit above all those added
so far, so no limb carries (`LimbGrows`), and the powers are not reduced, since an odd
modulus is larger than the power of its top bit (`PowerBelow`).

Recursive functions (the loops of the gadgets, `Digests`, the climbs, the values of
bits and bytes, `FlattenSeq`) are reasoned about with `InductionOnSet`: a set of natural numbers that has zero and
every successor is all of them, derived from the fact that `<` is well-founded.
Stated for a set, it needs no predicate as a parameter.

`RescueNeverReemitted`, `MerkleStoreFollowsClimb`, `Sha256LoopKeepsOrder` and
`Sha256TypeOK` are proved and not among the invariants of a run. The first is
the unconditional form, for callers who never ask for exactly `Rate`, of
`OnlyWholeBlocksReemit`; the others are parts of the inductive invariants that
say something of their own. What is proved of `Sha256Stream`, `Blake2sBlocks`,
`PermutationRounds`, `GroupSchemes`, `WindowedHashes` and `InputPacking` holds of their
parts of `Primitives`, which take their steps and no others.

Only model-checked:

- liveness (`CallsReturn`, `Returns`), which the prover does not reach;
- the properties of `AbsorbEncoding`: what a value encodes to follows its type,
  which nests, so the operators are `RECURSIVE` and what they compute for every
  type is an induction over data.

## 5. Findings

**`squeeze_internal` of Rescue gives cells twice.**
`RescueSponge::squeeze_internal` decides whether to permute by comparing
`output_remaining.len()` with the rate *before* it cuts the output
(`sponge/rescue/mod.rs:153`), under the comment "Unless we are done with
squeezing in this call, permute." In the middle of a block the two are not the
same thing: after `squeeze(1)`, a `squeeze(rate)` gives the rest of the block
and then, with no permutation, the first cell again. The run `rescue_reemits`
shows it. The Poseidon code, whose test `demo_bug` describes the same fault,
makes the test after the cut. `OnlyWholeBlocksReemit` and `RescueNeverReemitted`
show that this one length is the only trouble. The gadget makes the same
comparison (`GadgetFollows` holds), so a repair has to change both.

**A multi-proof may open leaves that are not in the tree.** `CoPath::verify` is
documented to "verify that leaves are at `self.leaf_indexes` of the merkle tree"
(`merkle_tree/mod.rs:349`), but it does not compare the indices with the height.
Indices of a whole subtree beyond the tree climb to a second node at depth 0,
which is computed and not compared, so any leaves are accepted for them as long
as the proof opens some leaf of the tree too (`membership_doc`);
`generate_multi_proof` makes such proofs. For the indices in the tree the proof
still says what it should: that is `CoPathSpeaksTruth`, which covers these
queries. Either side can reject an index from `2^(tree_height - 1)` on.

**Emulated constants are read backwards.** On constants,
`EmulatedFieldInputVar::from_field_elements` (`snark/constraints.rs:562`) walks
little-endian bits from the last and gives that one the weight one. Under the
same comment, "reconstruct the field elements and check consistency" (lines 554
and 590), the branch for variables reverses the bits first (line 594). The run
`emulated_constants` shows elements that are not those `repack_input` packed.

**The gadget that randomizes a Schnorr key gives another key.**
`signature/schnorr/constraints.rs:69` spells the bytes of the randomness least
significant bit first, `randomize_public_key` most significant bit first
(`signature/schnorr/mod.rs:205`). With randomness 1 the scheme adds 128 times
the generator and the circuit once (`schnorr_gadget`). The scheme's two native
randomizations do agree (`SignatureFollowsKey`), so it is the gadget, which the
repository's README announces as "R1CS constraints for these", that stands apart.

**The bound on a Bowe-Hopwood segment is too lax.** `setup`
(`crh/bowe_hopwood/mod.rs:86`) counts chunks while `2 * 16^c < (r-1)/2`, but
`c` chunks reach `4 * (1 + 16 + .. + 16^(c-1))`, which may exceed half of the
order although the message at line 97 says that scalars stay below it. Then two
segments can stand for the same multiple of their generator. Whether it happens
depends on the leading bits of the order: by this arithmetic the scalar fields
of `ed_on_bls12_377` and `ed_on_bn254` are affected, those of JubJub and
Bandersnatch are not; the run `bowe_hopwood_bound` has an order of 101.

A comment of the path gadget is the wrong way round, with no run of its own:
`merkle_tree/constraints.rs:153` says that left children have odd positions and
right children even ones, and the code below it takes a least significant bit of
one for a right child, as the native tree does (`PositionBinds` would not hold
otherwise).

Three things that contradict no line of the repository, and that a caller should
know. `batch_to_sponge_field_elements_as_vec` (`sponge/absorb.rs:71`) goes
element by element and not through `batch_to_sponge_field_elements`, so for
bytes it gives another encoding, without the length. The two-to-one hashes check
natively that the halves fit by `debug_assert!` only (`crh/pedersen/mod.rs:172`,
`crh/bowe_hopwood/mod.rs:216`): a release build cuts what the circuit refuses,
and pairs of short halves that are cut elsewhere meet (`DigestsBind` says for
which). Pedersen's `setup` does not check that a window fits the order, which is
`WindowAssumption` here.

## 6. Plan

The order is by how much state and how many boundaries a component has.

1. *Done:* the duplex sponges, their reference, gadgets, cut squeezes and
   permutations; the Grain LFSR and parameter generation; the Merkle tree with
   its abstract vector, membership proofs and path gadget; the SHA-256 stream
   and the Blake2s block loop; the encodings, `fork` and the SNARK packings; the
   windowed hashes and commitments; Schnorr and ElGamal.
2. *Proofs, done:* the invariants and comparisons of the sponges, the Merkle tree
   with its refinement, paths, multi-proofs and path circuits, the SHA-256 stream,
   the Blake2s block loop, the rounds of the permutations, the Grain LFSR with its
   numbers and matrix, Schnorr and ElGamal, the windowed hashes and the packings.
   *Next:* the encodings, for which their types would have to be numbered by depth.
3. *Models:* the sponge CRHs as clients of the sponges (one absorb and one
   squeeze from a zero state, where trailing zeros of the last block are not
   seen).

## 7. Not modelled

The encodings leave out `SWProjectiveVar`, whose gadget normalizes a point, and
types wider than TLC's integers; both forms of an encoding are computed at once,
so a value that panics as elements ends a transcript also as bytes.
`Blake2sWithParameterBlock` and the native Blake2s commitment are calls into
another crate. `compress` of the windowed hashes serializes two points and calls
`evaluate`. The allocation of keys, parameters and ciphertexts in circuits, and
their comparison, is left out.

Field and curve arithmetic, constraint generation, serialization and parameter
tables come from other crates or are data. The compression functions of SHA-256
and Blake2s, being fixed arithmetic on words, are left abstract. Trait
declarations and the error type have no behaviour. Merlin only forwards to a
transcript. Rates of zero and trees of one leaf, which the code refuses or hangs
on, are left out, and so is `generate_proof` of an index outside the tree, which
panics. Concurrency inside hashing
of leaves (`new`) is independent per leaf and is one step. `set_leaf_position`
with an empty position panics and is a precondition; `get_leaf_position`, which
reads the same bits back, is left out.
