----------------------------- MODULE FieldVectors -----------------------------
(***************************************************************************)
(* State vectors over a prime field, twice: as the native permutations     *)
(* compute with them, and as the gadgets do.  A gadget's cell is an FpVar: *)
(* a constant of the circuit, or a variable, whose value the prover may    *)
(* choose as long as the constraints on it hold.                           *)
(***************************************************************************)
EXTENDS Naturals

CONSTANTS
  P,      \* the modulus
  Width   \* rate + capacity

ASSUME PAssumption == P \in Nat \ {0, 1}
ASSUME WidthAssumption == Width \in Nat \ {0}

Field == 0 .. (P - 1)
Cells == 0 .. (Width - 1)
Vectors == [Cells -> Field]
FpVars == [variable : BOOLEAN, value : Field]

(* pow                                                                     *)
Pow(x, e) ==
  LET power[k \in 0 .. e] == IF k = 0 THEN 1 ELSE (x * power[k - 1]) % P
  IN power[e]

(* apply_ark and apply_mds of the native permutations.                     *)
AddRow(s, row) == [i \in Cells |-> (s[i] + row[i]) % P]
Dot(s, row) ==
  LET cur[j \in 0 .. Width] ==
        IF j = 0 THEN 0 ELSE (cur[j - 1] + s[j - 1] * row[j - 1]) % P
  IN cur[Width]
MulMatrix(s, m) == [i \in Cells |-> Dot(s, m[i])]

-----------------------------------------------------------------------------
Values(v) == [i \in Cells |-> v[i].value]

(* apply_ark and apply_mds of the gadgets: a sum is a constant only if all *)
(* its terms are.                                                          *)
VarAddRow(v, row) ==
  [i \in Cells |-> [v[i] EXCEPT !.value = (@ + row[i]) % P]]
VarMulMatrix(v, m) ==
  [i \in Cells |->
     [variable |-> \E j \in Cells : v[j].variable,
      value |-> Dot(Values(v), m[i])]]

(* pow_by_constant: its products are constrained, so it has one value.     *)
VarPow(c, e) == [c EXCEPT !.value = Pow(@, e)]

(* new_witness: a variable with any value; constraints come after it.      *)
Witnesses == [variable : {TRUE}, value : Field]
=============================================================================
