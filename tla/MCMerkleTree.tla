---------------------------- MODULE MCMerkleTree ----------------------------
(***************************************************************************)
(* MerkleTree over free hashes: a digest is the term that made it, so two  *)
(* equal digests are equal for every hash function.  The default leaf      *)
(* digest is that of a leaf, which keeps the trees of eight leaves few and *)
(* lets updates undo each other.                                           *)
(***************************************************************************)
EXTENDS MerkleTree

MCLeaves == {"a", "b"}
MCInitials == {[i \in LeafIndices |-> "a"]}
MCLeafHash(leaf) == <<"leaf", leaf>>
MCConvert(digest) == <<"conv", digest>>
MCEvaluate(l, r) == <<"eval", l, r>>
MCCompress(l, r) == <<"comp", l, r>>
MCDefaultLeaf == MCLeafHash("b")
MCDefaultInner == <<"inner default">>
=============================================================================
