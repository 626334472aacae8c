-------------------------- MODULE MerkleMembership --------------------------
(***************************************************************************)
(* Membership proofs of merkle_tree/mod.rs: Path for one leaf, CoPath for  *)
(* a set of leaves, made from a tree and checked against a root, while the *)
(* tree goes on changing.  The tree is a MerkleVector, which MerkleTree    *)
(* implements.                                                             *)
(*                                                                         *)
(* Positions are pairs of a depth and an index in the level: the root is   *)
(* at depth 0, the leaves at LeafDepth.                                    *)
(***************************************************************************)
EXTENDS MerkleVector, SequencesExt

CONSTANT
  Queries,      \* the sets of indices asked for in a multi-proof
  MaxReplaces   \* bound: replaced leaves of a behaviour

ASSUME QueriesAssumption == \A S \in Queries : S \subseteq Nat /\ IsFiniteSet(S)

VARIABLES
  held,       \* the proof a verifier holds
  snapshot,   \* history: the leaves of the tree when it was made
  replaced    \* the number of replaced leaves

memberVars == <<vectorVars, held, snapshot, replaced>>

LeafDepth == Height - 1
NoProof == [kind |-> "none"]

(* A BTreeSet turned into a vector.                                        *)
Ascending(S) ==
  [k \in 1 .. Cardinality(S) |->
     CHOOSE i \in S : Cardinality({j \in S : j <= i}) = k]

(* select_left_right_child                                                 *)
SelectEvaluate(index, computed, sibling) ==
  IF index % 2 = 0 THEN Evaluate(Convert(computed), Convert(sibling))
                   ELSE Evaluate(Convert(sibling), Convert(computed))

(* Mutant of SelectCompress: the side is forgotten.                        *)
SelectCompressLeft(index, computed, sibling) == Compress(computed, sibling)

SelectCompress(index, computed, sibling) ==
  IF index % 2 = 0 THEN Compress(computed, sibling) ELSE Compress(sibling, computed)

LevelIndex(depth, pos) == Width(depth) - 1 + pos

-----------------------------------------------------------------------------
(* compute_auth_path: climb from above the leaf, collecting the siblings   *)
(* below the root, then turn the path around.                              *)
AuthPath(i) ==
  LET up[d \in 0 .. (Height - 2)] ==   \* the on-path node d levels up
        IF d = 0 THEN Parent(LastLevel(i)) ELSE Parent(up[d - 1])
  IN  Reverse([d \in 1 .. (Height - 2) |-> nodes[Sibling(up[d - 1])]])

(* generate_proof                                                          *)
PathOf(i) ==
  [kind |-> "path", leaf_index |-> i, auth_path |-> AuthPath(i),
   leaf_sibling_hash |-> leaves[LeafSibling(i)]]

(* Path::verify: climbs auth_path from its end, halving the index.         *)
VerifyPath(proof, root, leaf) ==
  LET n == Len(proof.auth_path)
      node[k \in 0 .. n] ==
        IF k = 0
        THEN SelectEvaluate(proof.leaf_index, LeafHash(leaf), proof.leaf_sibling_hash)
        ELSE SelectCompress(proof.leaf_index \div 2 ^ k, node[k - 1],
                            proof.auth_path[n - k + 1])
  IN  node[n] = root

-----------------------------------------------------------------------------
(* compute_on_path: the positions of a depth above some leaf of S.         *)
OnPathAt(S, depth) == {i \div 2 ^ (LeafDepth - depth) : i \in S}

(* Mutant of CopathAt: also siblings the verifier computes itself.         *)
CopathAtAllSiblings(S, depth) ==
  Ascending({LeafSibling(p) : p \in OnPathAt(S, depth)})

(* The positions whose digest generate_multi_proof gives: siblings that    *)
(* are not themselves on a path, in ascending order.                       *)
CopathAt(S, depth) ==
  Ascending({LeafSibling(p) : p \in OnPathAt(S, depth)} \ OnPathAt(S, depth))

(* The inner ones in its canonical order: depth 1 ascending, depth 2, ...  *)
InnerSlots(S) ==
  FlattenSeq([d \in 1 .. (LeafDepth - 1) |->
                [k \in DOMAIN CopathAt(S, d) |-> <<d, CopathAt(S, d)[k]>>]])

(* Every digest is there that generate_multi_proof looks up.  The leaf     *)
(* siblings are looked up in the leaves, the inner ones in the heap, where *)
(* a position beyond its level is a node of a deeper one.                *)
Found(S) ==
  /\ \A i \in ToSet(CopathAt(S, LeafDepth)) : i \in LeafIndices
  /\ \A s \in ToSet(InnerSlots(S)) : LevelIndex(s[1], s[2]) \in Inner

(* generate_multi_proof, for a set of indices, not all in the tree; no     *)
(* index at all gives a proof without digests.                             *)
CoPathOf(S) ==
  [kind |-> "copath",
   tree_height |-> Height,
   leaf_copath |-> [k \in DOMAIN CopathAt(S, LeafDepth) |->
                      leaves[CopathAt(S, LeafDepth)[k]]],
   inner_copath |-> [k \in DOMAIN InnerSlots(S) |->
                       nodes[LevelIndex(InnerSlots(S)[k][1], InnerSlots(S)[k][2])]],
   leaf_indexes |-> Ascending(S)]

-----------------------------------------------------------------------------
(* CoPath::verify works out by itself which digests it was sent.  It walks *)
(* the on-path positions of a depth and stops where the sibling is not one *)
(* of them; the leaf siblings are sorted afterwards, the inner ones not.   *)
Beside(S, depth) == {p \in OnPathAt(S, depth) : LeafSibling(p) \notin OnPathAt(S, depth)}
NeededLeaves(S) == Ascending({LeafSibling(p) : p \in Beside(S, LeafDepth)})
NeededAt(S, depth) ==
  LET walk == Ascending(Beside(S, depth))
  IN  [k \in DOMAIN walk |-> <<depth, LeafSibling(walk[k])>>]

(* Mutant of NeededInner: inner_copath is consumed from the leaves up.     *)
NeededInnerUpwards(S) ==
  FlattenSeq([n \in 1 .. (LeafDepth - 1) |-> NeededAt(S, LeafDepth - n)])
NeededInner(S) == FlattenSeq([d \in 1 .. (LeafDepth - 1) |-> NeededAt(S, d)])

(* Mutant of LeafLevel: a given sibling is taken for the leaf beside it.   *)
LeafLevelShifted(proof, opened, slots) ==
  [i \in ToSet(proof.leaf_indexes) \cup ToSet(slots) |->
     IF i \in ToSet(proof.leaf_indexes)
     THEN LeafHash(opened[CHOOSE k \in DOMAIN opened : proof.leaf_indexes[k] = i])
     ELSE LeafHash(opened[1])]

(* ingest_leaves and absorb_leaf_copath: the digests of the leaf level.    *)
LeafLevel(proof, opened, slots) ==
  [i \in ToSet(proof.leaf_indexes) \cup ToSet(slots) |->
     IF i \in ToSet(proof.leaf_indexes)
     THEN LeafHash(opened[CHOOSE k \in DOMAIN opened : proof.leaf_indexes[k] = i])
     ELSE proof.leaf_copath[CHOOSE k \in DOMAIN slots : slots[k] = i]]

(* verify_and_hash_bottom_layer and verify_and_hash_inner_chain: the       *)
(* digests of the on-path nodes of each depth, from the depth below and    *)
(* the given siblings.                                                     *)
Levels(proof, S, leafLevel) ==
  LET slots == NeededInner(S)
      Given(d) == {s[2] : s \in {t \in ToSet(slots) : t[1] = d}}
      lv[d \in 0 .. (LeafDepth - 1)] ==
        [p \in OnPathAt(S, d) \cup Given(d) |->
           IF p \in Given(d)
           THEN proof.inner_copath[CHOOSE k \in DOMAIN slots : slots[k] = <<d, p>>]
           ELSE IF d = LeafDepth - 1
           THEN Evaluate(Convert(leafLevel[2 * p]), Convert(leafLevel[2 * p + 1]))
           ELSE Compress(lv[d + 1][2 * p], lv[d + 1][2 * p + 1])]
  IN  lv

(* Mutant of VerifyCoPath: digests left over at the end do not matter.     *)
VerifyCoPathLeftover(proof, root, expectedHeight, opened) ==
  LET S == ToSet(proof.leaf_indexes)
      slots == NeededLeaves(S)
  IN  /\ S # {}
      /\ proof.tree_height = expectedHeight
      /\ Len(opened) = Len(proof.leaf_indexes)
      /\ Len(proof.leaf_copath) = Len(slots)
      /\ Len(proof.inner_copath) >= Len(NeededInner(S))
      /\ 0 \in OnPathAt(S, 0)
      /\ Levels(proof, S, LeafLevel(proof, opened, slots))[0][0] = root

(* CoPath::verify answers true: every count is checked, in this order,     *)
(* before an inner hash (a proof of no leaf is refused by a panic).  The   *)
(* root is the node computed at position 0 of depth 0: indices beyond the  *)
(* tree lead to other positions there, which are computed and not read.    *)
VerifyCoPath(proof, root, expectedHeight, opened) ==
  LET S == ToSet(proof.leaf_indexes)
      slots == NeededLeaves(S)
  IN  /\ S # {}
      /\ proof.tree_height = expectedHeight
      /\ Len(opened) = Len(proof.leaf_indexes)
      /\ Len(proof.leaf_copath) = Len(slots)
      /\ Len(proof.inner_copath) = Len(NeededInner(S))
      /\ 0 \in OnPathAt(S, 0)
      /\ Levels(proof, S, LeafLevel(proof, opened, slots))[0][0] = root

-----------------------------------------------------------------------------
MemberInit == Init /\ held = NoProof /\ snapshot = <<>> /\ replaced = 0

(* The owner of the tree works on it; a proof already made stays as it is. *)
Work ==
  /\ IF created THEN replaced < MaxReplaces /\ replaced' = replaced + 1
                ELSE replaced' = replaced
  /\ Next
  /\ UNCHANGED <<held, snapshot>>

(* generate_proof; it panics when the index is not in the tree.            *)
HoldPath(i) ==
  /\ created
  /\ held' = PathOf(i)
  /\ snapshot' = leaves
  /\ UNCHANGED <<vectorVars, replaced>>

(* generate_multi_proof; otherwise it returns an error and changes nothing. *)
HoldCoPath(S) ==
  /\ created
  /\ Found(S)
  /\ held' = CoPathOf(S)
  /\ snapshot' = leaves
  /\ UNCHANGED <<vectorVars, replaced>>

MemberNext ==
  \/ Work
  \/ \E i \in LeafIndices : HoldPath(i)
  \/ \E S \in Queries : HoldCoPath(S)

MemberSpec == MemberInit /\ [][MemberNext]_memberVars

-----------------------------------------------------------------------------
(* The leaf vector a proof speaks of: the one it was made from, with the   *)
(* leaves it is checked with put in their places.                          *)
Claimed(opened) ==
  [i \in LeafIndices |->
     IF held.kind = "path"
     THEN IF i = held.leaf_index THEN LeafHash(opened[1]) ELSE snapshot[i]
     ELSE IF \E k \in DOMAIN opened : held.leaf_indexes[k] = i
     THEN LeafHash(opened[CHOOSE k \in DOMAIN opened : held.leaf_indexes[k] = i])
     ELSE snapshot[i]]

(* A path, made whenever, is accepted with a leaf and the current root     *)
(* exactly when the vector it speaks of is the current one: it is complete *)
(* and it proves nothing stale and nothing false (for hashes without       *)
(* collisions).                                                            *)
PathSpeaksTruth ==
  held.kind = "path" =>
    \A leaf \in Leaves :
      VerifyPath(held, nodes[0], leaf) <=> Claimed(<<leaf>>) = leaves

(* The same of a multi-proof, with every sequence of leaves in the order   *)
(* of leaf_indexes: also leaves supplied in another order are refused      *)
(* unless they are equal.  An index beyond the tree adds nothing to what   *)
(* the proof says: such a proof is accepted on the strength of its other   *)
(* indices, and refused when it has none.                                  *)
CoPathSpeaksTruth ==
  held.kind = "copath" =>
    \A opened \in [1 .. Len(held.leaf_indexes) -> Leaves] :
      VerifyCoPath(held, nodes[0], Height, opened)
        <=> /\ ToSet(held.leaf_indexes) \cap LeafIndices # {}
            /\ Claimed(opened) = leaves

(* What the documentation of CoPath::verify says it verifies: that the     *)
(* leaves are at leaf_indexes of the tree.                                 *)
OpenedLeavesAreThere ==
  held.kind = "copath" =>
    \A opened \in [1 .. Len(held.leaf_indexes) -> Leaves] :
      VerifyCoPath(held, nodes[0], Height, opened)
        => \A k \in DOMAIN opened :
             /\ held.leaf_indexes[k] \in LeafIndices
             /\ leaves[held.leaf_indexes[k]] = LeafHash(opened[k])

(* A multi-proof that opens some leaf of the tree gives each leaf it does  *)
(* not open under exactly one digest, and no digest stands above a leaf it *)
(* opens: nothing is missing and nothing is sent twice.                    *)
CoPathPartitions ==
  held.kind = "copath" =>
    LET S == ToSet(held.leaf_indexes)
        Given == ToSet(InnerSlots(S))
                   \cup {<<LeafDepth, i>> : i \in ToSet(CopathAt(S, LeafDepth))}
        Above(i) == {g \in Given : g[2] = i \div 2 ^ (LeafDepth - g[1])}
    IN  /\ Len(held.leaf_copath) + Len(held.inner_copath) = Cardinality(Given)
        /\ S \cap LeafIndices # {} =>
             \A i \in LeafIndices : Cardinality(Above(i)) = IF i \in S THEN 0 ELSE 1

(* A proof with a digest lost or added on the way, a leaf too many or too  *)
(* few, or another height is refused, whatever the root.                   *)
CountsMatter ==
  held.kind = "copath" =>
    LET some == CHOOSE l \in Leaves : TRUE
        opened == [k \in DOMAIN held.leaf_indexes |-> some]
        Refused(p, h, o) == \A n \in ToSet(leaves) \cup {nodes[k] : k \in Inner} :
                              ~VerifyCoPath(p, n, h, o)
    IN  /\ Refused(held, Height + 1, opened)
        /\ Refused(held, Height, Append(opened, some))
        /\ opened # <<>> => Refused(held, Height, Tail(opened))
        /\ Refused([held EXCEPT !.inner_copath = Append(@, nodes[0])], Height, opened)
        /\ Refused([held EXCEPT !.leaf_copath = Append(@, leaves[0])], Height, opened)
        /\ held.inner_copath # <<>> =>
             Refused([held EXCEPT !.inner_copath = Front(@)], Height, opened)
        /\ held.leaf_copath # <<>> =>
             Refused([held EXCEPT !.leaf_copath = Front(@)], Height, opened)
=============================================================================
