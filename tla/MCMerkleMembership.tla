------------------------- MODULE MCMerkleMembership -------------------------
(***************************************************************************)
(* Proofs and their circuits over free hashes (no two terms collide), in a *)
(* tree of eight leaves: a path has two bits beside the one of the leaf,   *)
(* so their order matters, and a multi-proof has inner digests at two      *)
(* depths.  Positions are too short, long enough, and too long.  Some      *)
(* queries go beyond the tree: alone, beside leaves of the tree, and with  *)
(* siblings that are looked up at the wrong level or not found.            *)
(***************************************************************************)
EXTENDS MerklePathVar

MCLeaves == {"a", "b"}
MCInitials == {[i \in LeafIndices |-> IF i % 2 = 0 THEN "a" ELSE "b"]}
MCQueries ==
  {S \in SUBSET LeafIndices : Cardinality(S) \in 1 .. 3}
    \cup {{1, 4, 5, 7}, LeafIndices, LeafIndices \ {5}}
    \cup {{}, {9}, {1, 9}, {1, 8, 9}, 8 .. 11, 8 .. 15, {6} \cup 8 .. 11,
          {1, 2} \cup 12 .. 15}
MCPositions == UNION {[1 .. n -> BOOLEAN] : n \in 1 .. 4}
MCLeafHash(leaf) == <<"leaf", leaf>>
MCConvert(digest) == <<"conv", digest>>
MCEvaluate(l, r) == <<"eval", l, r>>
MCCompress(l, r) == <<"comp", l, r>>
MCDefaultLeaf == <<"leaf default">>
=============================================================================
