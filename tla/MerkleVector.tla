---------------------------- MODULE MerkleVector ----------------------------
(***************************************************************************)
(* What MerkleTree promises its callers: a vector of leaf digests under    *)
(* inner nodes that are a function of it.  A tree is built once, then a    *)
(* leaf at a time is replaced; there are no loops and no half-done calls.  *)
(***************************************************************************)
EXTENDS MerkleHeap

CONSTANT Initials   \* the sequences of leaves a caller builds a tree from

VARIABLES
  created,   \* a constructor has returned a tree
  leaves,    \* the leaf digests
  nodes      \* the inner digests

vectorVars == <<created, leaves, nodes>>

Init == created = FALSE /\ leaves = <<>> /\ nodes = <<>>

(* new and blank.                                                          *)
Create(digests) ==
  /\ ~created
  /\ created' = TRUE
  /\ leaves' = digests
  /\ nodes' = Digests(digests)

(* update, and check_update when it answers true.                          *)
Replace(i, leaf) ==
  /\ created
  /\ leaves' = [leaves EXCEPT ![i] = LeafHash(leaf)]
  /\ nodes' = Digests(leaves')
  /\ UNCHANGED created

Blanks == [i \in LeafIndices |-> DefaultLeaf]

Next ==
  \/ \E ls \in Initials : Create([i \in LeafIndices |-> LeafHash(ls[i])])
  \/ Create(Blanks)
  \/ \E i \in LeafIndices, leaf \in Leaves : Replace(i, leaf)

Spec == Init /\ [][Next]_vectorVars
=============================================================================
