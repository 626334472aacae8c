---------------------------- MODULE MerklePathVar ----------------------------
(***************************************************************************)
(* PathVar of merkle_tree/constraints.rs: a membership path inside a       *)
(* circuit.  Its position is not an index but bits, which the verifier may *)
(* set; the native Path::verify halves an index instead.  The path is the  *)
(* one a verifier of MerkleMembership holds, and the tree goes on changing *)
(* after it was made.                                                      *)
(***************************************************************************)
EXTENDS MerkleMembership

CONSTANT Positions   \* the positions somebody may set: little-endian bits

(* set_leaf_position removes the first bit: an empty one panics.           *)
ASSUME PositionsAssumption == Positions \subseteq Seq(BOOLEAN) \ {<<>>}

VARIABLES
  pathVar,  \* the PathVar made from the proof that is held
  asked     \* history: the index last asked for

gadgetVars == <<memberVars, pathVar, asked>>

NoPathVar == [auth_path |-> <<>>]

(* The number some little-endian bits stand for.                           *)
Number(bits) ==
  LET n == Len(bits)
      top[k \in 0 .. n] ==   \* of the last k bits
        IF k = 0 THEN 0 ELSE 2 * top[k - 1] + (IF bits[n - k + 1] THEN 1 ELSE 0)
  IN  top[n]

(* Path::position_list: the bits of the index, from the root down.         *)
PositionList(proof) ==
  Reverse([i \in 1 .. (Len(proof.auth_path) + 1) |->
             (proof.leaf_index \div 2 ^ (i - 1)) % 2 = 1])

(* PathVar::new_variable: the last bit of the list is kept apart.          *)
NewVariable(proof) ==
  [path |-> Front(PositionList(proof)),
   auth_path |-> proof.auth_path,
   leaf_sibling |-> proof.leaf_sibling_hash,
   leaf_is_right_child |-> proof.leaf_index % 2 = 1]

(* Mutant of WithPosition: a short position is padded after the reversal.  *)
WithPositionPaddedLast(v, bits) ==
  LET n == Len(v.auth_path)
      rest == Tail(bits)
      cut == Reverse(SubSeq(rest, 1, IF Len(rest) < n THEN Len(rest) ELSE n))
  IN [v EXCEPT !.path = cut \o [i \in 1 .. (n - Len(cut)) |-> FALSE],
               !.leaf_is_right_child = bits[1]]

(* set_leaf_position: pads with zeros, truncates, and turns the bits round *)
(* to start at the root.                                                   *)
WithPosition(v, bits) ==
  LET n == Len(v.auth_path)
      rest == Tail(bits)
      padded == rest \o [i \in 1 .. n |-> FALSE]
  IN [v EXCEPT !.path = Reverse(SubSeq(padded, 1, n)),
               !.leaf_is_right_child = bits[1]]

-----------------------------------------------------------------------------
(* Mutant of CalculateRoot: bits and siblings are walked from the root.    *)
CalculateRootFromTop(v, leaf) ==
  LET bottom == IF v.leaf_is_right_child
                THEN Evaluate(Convert(v.leaf_sibling), Convert(LeafHash(leaf)))
                ELSE Evaluate(Convert(LeafHash(leaf)), Convert(v.leaf_sibling))
  IN FoldLeft(LAMBDA curr, k : IF v.path[k] THEN Compress(v.auth_path[k], curr)
                                            ELSE Compress(curr, v.auth_path[k]),
              bottom, [k \in 1 .. Len(v.auth_path) |-> k])

(* calculate_root: each bit selects which of two hashes comes first.  Path *)
(* and auth_path are zipped from their ends, the bottom of the tree.       *)
CalculateRoot(v, leaf) ==
  LET n == Len(v.auth_path)
      curr[k \in 0 .. n] ==
        IF k = 0
        THEN IF v.leaf_is_right_child
             THEN Evaluate(Convert(v.leaf_sibling), Convert(LeafHash(leaf)))
             ELSE Evaluate(Convert(LeafHash(leaf)), Convert(v.leaf_sibling))
        ELSE IF v.path[n - k + 1]
             THEN Compress(v.auth_path[n - k + 1], curr[k - 1])
             ELSE Compress(curr[k - 1], v.auth_path[n - k + 1])
  IN  curr[n]

VerifyMembership(v, root, leaf) == CalculateRoot(v, leaf) = root

(* Mutant of UpdateLeaf: the new leaf is not put through the path.         *)
UpdateLeafOld(v, oldRoot, oldLeaf, newLeaf) ==
  [satisfied |-> VerifyMembership(v, oldRoot, oldLeaf),
   root |-> CalculateRoot(v, oldLeaf)]

(* update_leaf: a circuit that is satisfied only by the old leaf, and its  *)
(* output.                                                                 *)
UpdateLeaf(v, oldRoot, oldLeaf, newLeaf) ==
  [satisfied |-> VerifyMembership(v, oldRoot, oldLeaf),
   root |-> CalculateRoot(v, newLeaf)]

(* update_and_check: the same circuit, its output compared.                *)
UpdateAndCheck(v, oldRoot, newRoot, oldLeaf, newLeaf) ==
  [satisfied |-> UpdateLeaf(v, oldRoot, oldLeaf, newLeaf).satisfied,
   answer |-> UpdateLeaf(v, oldRoot, oldLeaf, newLeaf).root = newRoot]

-----------------------------------------------------------------------------
GadgetInit == MemberInit /\ pathVar = NoPathVar /\ asked = 0

(* The path that is held is allocated in a circuit.                        *)
Allocate ==
  /\ held.kind = "path"
  /\ pathVar = NoPathVar
  /\ pathVar' = NewVariable(held)
  /\ asked' = held.leaf_index
  /\ UNCHANGED memberVars

SetLeafPosition(bits) ==
  /\ pathVar # NoPathVar
  /\ pathVar' = WithPosition(pathVar, bits)
  /\ asked' = Number(bits) % NumLeaves
  /\ UNCHANGED memberVars

(* A behaviour follows one proof at a time, and its circuit with it.       *)
NewProof ==
  /\ \/ \E i \in LeafIndices : HoldPath(i)
     \/ \E S \in Queries : HoldCoPath(S)
  /\ pathVar' = NoPathVar
  /\ asked' = 0

GadgetNext ==
  \/ Work /\ UNCHANGED <<pathVar, asked>>
  \/ NewProof
  \/ Allocate
  \/ \E bits \in Positions : SetLeafPosition(bits)

GadgetSpec == GadgetInit /\ [][GadgetNext]_gadgetVars

-----------------------------------------------------------------------------
IsAllocated == pathVar # NoPathVar

(* The circuit computes the root Path::verify compares with, for the index *)
(* that was asked for, whatever the path was made for.                     *)
GadgetFollowsVerify ==
  IsAllocated =>
    \A leaf \in Leaves :
      VerifyPath([held EXCEPT !.leaf_index = asked], CalculateRoot(pathVar, leaf), leaf)

(* A verifier who sets the position learns about that position: a circuit  *)
(* that accepts a leaf under the current root says that the leaf stands at *)
(* the index asked for, also if the path was made for another index or     *)
(* before the tree changed.                                                *)
PositionBinds ==
  IsAllocated =>
    \A leaf \in Leaves :
      VerifyMembership(pathVar, nodes[0], leaf) => leaves[asked] = LeafHash(leaf)

(* If the circuit of an update is satisfied by the current root, its       *)
(* output is the root of the tree with just that leaf replaced, and        *)
(* update_and_check answers true for that root only.                       *)
UpdateSpeaksTruth ==
  IsAllocated =>
    \A old, new \in Leaves :
      LET after == Digests([leaves EXCEPT ![asked] = LeafHash(new)])
          update == UpdateLeaf(pathVar, nodes[0], old, new)
      IN update.satisfied =>
           /\ update.root = after[0]
           /\ \A n \in Inner :
                UpdateAndCheck(pathVar, nodes[0], nodes[n], old, new).answer
                  <=> nodes[n] = after[0]
=============================================================================
