---------------------------- MODULE ShiftRegister ----------------------------
(***************************************************************************)
(* A shift register, as the Poseidon paper draws it: each step drops the   *)
(* oldest bit, moves the others, and enters one that Feedback computes     *)
(* from the bits that were there.  PoseidonGrainLFSR never moves a bit;    *)
(* that it behaves like this is a refinement.                              *)
(***************************************************************************)
EXTENDS Naturals

CONSTANTS
  Size,        \* the length of the register
  Feedback(_)  \* the bit that enters

VARIABLE register

Positions == 0 .. (Size - 1)

Shifted(r) ==
  [i \in Positions |-> IF i = Size - 1 THEN Feedback(r) ELSE r[i + 1]]

ShiftInit == DOMAIN register = Positions
Shift == register' = Shifted(register)
ShiftSpec == ShiftInit /\ [][Shift]_register
=============================================================================
