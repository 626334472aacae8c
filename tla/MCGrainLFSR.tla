----------------------------- MODULE MCGrainLFSR -----------------------------
(***************************************************************************)
(* The register of the code, all 80 bits and 160 updates of warm-up.  One  *)
(* prime has nine bits and is little more than half of 2^9, so that every  *)
(* second number is rejected and a number has two bytes.  The other is so  *)
(* small that duplicates and zero sums do occur.                           *)
(***************************************************************************)
EXTENDS GrainLFSR

MCTaps == {0, 13, 23, 38, 51, 62}

Entry(rate, full, partial, skip) ==
  [rate |-> rate, full_rounds |-> full, partial_rounds |-> partial, skip_matrices |-> skip]

(* Two entries of a table may have the same rate: the first one is taken.  *)
MCFields ==
  {[bits |-> 9, modulus |-> 257, tables |->
      {<<Entry(1, 2, 0, 0), Entry(2, 1, 0, 0), Entry(1, 4, 0, 2)>>,
       <<Entry(2, 0, 1, 0), Entry(3, 1, 0, 0)>>}],
   [bits |-> 4, modulus |-> 11, tables |->
      {<<Entry(1, 2, k, k % 3), Entry(2, 2, k, k % 2)>> : k \in 0 .. 4}]}
=============================================================================
