-------------------------- MODULE MCPoseidonSponge --------------------------
(***************************************************************************)
(* PoseidonSponge with a one-point field: the properties checked here are  *)
(* about indices and the use of cells, so the data can be forgotten and    *)
(* the number of calls needs no bound.                                     *)
(***************************************************************************)
EXTENDS PoseidonSponge

MCElements == 1 .. (2 * Rate + 1)
MCInputs == {[k \in 1 .. n |-> k] : n \in 0 .. (2 * Rate + 1)}
MCCounts == 0 .. (2 * Rate + 1)
MCAdd(x, y) == x
MCPermCell(s, i) == 0
=============================================================================
