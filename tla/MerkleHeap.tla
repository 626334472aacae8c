----------------------------- MODULE MerkleHeap -----------------------------
(***************************************************************************)
(* The shape of the tree of merkle_tree/mod.rs, without state: the inner   *)
(* nodes are a heap in level order, the children of node k are 2k+1 and    *)
(* 2k+2, and the children of the bottom level are the leaves.  The index   *)
(* helpers stand at the end of that file.                                  *)
(***************************************************************************)
EXTENDS Integers, Sequences

CONSTANTS
  Height,          \* self.height
  Leaves,          \* the leaf values a caller may store
  DefaultLeaf,     \* P::LeafDigest::default()
  LeafHash(_),     \* P::LeafHash::evaluate
  Convert(_),      \* P::LeafInnerDigestConverter::convert
  Evaluate(_, _),  \* P::TwoToOneHash::evaluate
  Compress(_, _)   \* P::TwoToOneHash::compress

(* new_with_leaf_digest asserts a power of two of at least two leaves.     *)
ASSUME HeightAssumption == Height \in Nat /\ Height >= 2

Width(depth) == 2 ^ depth      \* 1 << depth, the nodes of a level
NumLeaves == Width(Height - 1)
LeafIndices == 0 .. (NumLeaves - 1)
Inner == 0 .. (NumLeaves - 2)

(* What shifting a one does, for the levels of the tree.                   *)
ASSUME WidthAssumption ==
  /\ Width(0) = 1
  /\ \A depth \in 0 .. (Height - 1) : Width(depth) \in Nat \ {0}
  /\ \A depth \in 0 .. (Height - 2) : Width(depth + 1) = 2 * Width(depth)

-----------------------------------------------------------------------------
LeftChild(k) == 2 * k + 1
RightChild(k) == 2 * k + 2
IsRoot(k) == k = 0
IsLeftChild(k) == k % 2 = 1
ParentOneBased(k) == k \div 2   \* mutant of Parent: indices from one
Parent(k) == (k - 1) \div 2
Sibling(k) == IF IsLeftChild(k) THEN k + 1 ELSE k - 1
LastLevel(i) == i + NumLeaves - 1
LevelNodes(depth) == (Width(depth) - 1) .. (2 * Width(depth) - 2)

IsBottom(k) == LeftChild(k) >= NumLeaves - 1

(* The digest a node should have, from the digests of its children.        *)
NodeHash(leaves, nodes, k) ==
  IF IsBottom(k)
  THEN Evaluate(Convert(leaves[LeftChild(k) - (NumLeaves - 1)]),
                Convert(leaves[RightChild(k) - (NumLeaves - 1)]))
  ELSE Compress(nodes[LeftChild(k)], nodes[RightChild(k)])

(* The nodes above leaf i, one per level.                                  *)
OnPath(i) ==
  {Width(d) - 1 + (i \div Width(Height - 1 - d)) : d \in 0 .. (Height - 2)}

(* The other position under the same parent, at any depth: index ^ 1, or   *)
(* the choice by index & 1 of get_leaf_sibling_hash and updated_path.      *)
LeafSibling(i) == IF i % 2 = 0 THEN i + 1 ELSE i - 1

(* The reference: all inner digests of a tree over given leaf digests.     *)
Digests(leaves) ==
  LET d[k \in Inner] ==
        IF IsBottom(k) THEN NodeHash(leaves, <<>>, k)
        ELSE Compress(d[LeftChild(k)], d[RightChild(k)])
  IN  d
=============================================================================
