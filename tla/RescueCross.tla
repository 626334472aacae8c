---------------------------- MODULE RescueCross ----------------------------
(***************************************************************************)
(* RescueSponge and RescueSpongeVar given the same calls, as SpongeCross   *)
(* does for Poseidon; the repository has no reference for Rescue.          *)
(***************************************************************************)
EXTENDS RescueSponge, SpongeVar

CONSTANT MaxCalls   \* bound: the number of calls of a behaviour
ASSUME MaxCallsAssumption == MaxCalls \in Nat
ASSUME GadgetAssumption == Rescue = TRUE

VARIABLES
  var,        \* the gadget
  varAnswer,  \* what its last call gave
  request,    \* the request of the last call
  calls,      \* the calls made so far
  whole       \* history: some call has asked for exactly a block

others == <<var, varAnswer, request, calls, whole>>
crossVars == <<vars, others>>

NoRequest == [kind |-> "elements", n |-> 0]

CrossInit ==
  /\ Init
  /\ var = VarNew /\ varAnswer = <<>>
  /\ request = NoRequest
  /\ calls = 0
  /\ whole = FALSE

CrossAbsorb(elems) ==
  /\ calls < MaxCalls
  /\ IF elems = <<>> THEN AbsorbNothing ELSE Absorb(elems)
  /\ var' = VarAbsorb(var, elems) /\ varAnswer' = <<>>
  /\ request' = NoRequest
  /\ calls' = calls + 1
  /\ UNCHANGED whole

CrossRequest(r) ==
  LET fromVar == VarRequest(var, r)
  IN /\ calls < MaxCalls
     /\ IF TouchesSponge(r)
        THEN Squeeze(NumElements(r))
        ELSE pc = "idle" /\ out' = <<>> /\ UNCHANGED <<state, mode, pc, start, remaining, want, use>>
     /\ var' = fromVar.sponge /\ varAnswer' = fromVar.answer
     /\ request' = r
     /\ calls' = calls + 1
     /\ whole' = (whole \/ NumElements(r) = Rate)

CrossNext ==
  \/ \E elems \in Inputs : CrossAbsorb(elems)
  \/ \E r \in Requests : CrossRequest(r)
  \/ Loop /\ UNCHANGED others

CrossSpec == CrossInit /\ [][CrossNext]_crossVars

-----------------------------------------------------------------------------
(* As long as no call asks for exactly a block, RescueSponge never gives a *)
(* cell twice between two permutations: that one length is all the trouble *)
(* its squeeze_internal makes.                                             *)
OnlyWholeBlocksReemit == ~whole => NeverReemitted

(* Prover and verifier stay together: after the same calls the circuit     *)
(* holds the native state at the native position, and has given the same   *)
(* elements, bytes, bits or emulated elements.  That includes the cells    *)
(* that are given twice.                                                   *)
GadgetFollows ==
  pc = "idle" =>
    /\ var.state = state
    /\ var.mode = mode
    /\ varAnswer = Answer(request, out)
=============================================================================
