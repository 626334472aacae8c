--------------------------- MODULE MCRescueCross ---------------------------
(***************************************************************************)
(* RescueCross over free terms: a sum is the pair of its operands, a       *)
(* permuted cell the pair of its index and the whole vector.  Two equal    *)
(* terms are equal for every addition and every permutation.  The field    *)
(* has 18 bits, two usable bytes and 17 usable bits, and stands beside one *)
(* of 11 bits.                                                             *)
(***************************************************************************)
EXTENDS RescueCross

MCElements == 1 .. (2 * Rate + 1)
MCInputs == {[k \in 1 .. n |-> k] : n \in {0, 1, 2, 3, 5}}
MCAdd(x, y) == <<"+", x, y>>
MCPermCell(s, i) == <<"perm", i, s>>
MCZero == <<"zero">>

MCRequests ==
       [kind : {"elements"}, n : 0 .. (2 * Rate + 1)]
  \cup [kind : {"bytes"}, n : {0, 5}]
  \cup [kind : {"bits"}, n : {17, 18}]
  \cup [kind : {"sizes"}, sizes : {<<>>, <<Full(EmulatedBits), Truncated(9), Full(EmulatedBits)>>,
                                  <<Truncated(11), Truncated(0), Truncated(6)>>}]
  \cup [kind : {"native"}, sizes : {<<>>, <<Full(ModulusBits), Full(ModulusBits)>>,
                                   <<Full(ModulusBits), Truncated(18)>>}]
=============================================================================
