---------------------------- MODULE SpongeCross ----------------------------
(***************************************************************************)
(* PoseidonSponge given the same calls as two others: SpongeReference, as  *)
(* run_cross_test of sponge/poseidon/tests.rs does at random, and the      *)
(* gadget PoseidonSpongeVar, as a prover and the circuit of the proof      *)
(* must.  Those two answer in one step when the call is made, the sponge   *)
(* runs its loops, and they are compared when it has returned.             *)
(***************************************************************************)
EXTENDS PoseidonSponge, SpongeReference, SpongeVar

CONSTANTS MaxCalls   \* bound: the number of calls of a behaviour
ASSUME MaxCallsAssumption == MaxCalls \in Nat
ASSUME GadgetAssumption == Rescue = FALSE

VARIABLES
  ref,        \* the reference sponge
  refOut,     \* the elements its last call gave
  var,        \* the gadget
  varAnswer,  \* what its last call gave
  request,    \* the request of the last call
  calls       \* the calls made so far

others == <<ref, refOut, var, varAnswer, request, calls>>
crossVars == <<vars, others>>

NoRequest == [kind |-> "elements", n |-> 0]

CrossInit ==
  /\ Init
  /\ ref = RefNew /\ refOut = <<>>
  /\ var = VarNew /\ varAnswer = <<>>
  /\ request = NoRequest
  /\ calls = 0

CrossAbsorb(elems) ==
  /\ calls < MaxCalls
  /\ IF elems = <<>> THEN AbsorbNothing ELSE Absorb(elems)
  /\ ref' = RefAbsorb(ref, elems) /\ refOut' = <<>>
  /\ var' = VarAbsorb(var, elems) /\ varAnswer' = <<>>
  /\ request' = NoRequest
  /\ calls' = calls + 1

(* The reference knows elements only and is asked for as many as the       *)
(* request needs.                                                          *)
CrossRequest(r) ==
  LET fromRef == IF TouchesSponge(r) THEN RefSqueeze(ref, NumElements(r))
                                     ELSE [ref |-> ref, out |-> <<>>]
      fromVar == VarRequest(var, r)
  IN /\ calls < MaxCalls
     /\ IF TouchesSponge(r)
        THEN Squeeze(NumElements(r))
        ELSE pc = "idle" /\ out' = <<>> /\ UNCHANGED <<state, mode, pc, start, remaining, want, use>>
     /\ ref' = fromRef.ref /\ refOut' = fromRef.out
     /\ var' = fromVar.sponge /\ varAnswer' = fromVar.answer
     /\ request' = r
     /\ calls' = calls + 1

CrossNext ==
  \/ \E elems \in Inputs : CrossAbsorb(elems)
  \/ \E r \in Requests : CrossRequest(r)
  \/ Loop /\ UNCHANGED others

CrossSpec == CrossInit /\ [][CrossNext]_crossVars

-----------------------------------------------------------------------------
(* Every squeeze gives what the reference gives: assert_eq!(out0, out1).   *)
(* Since the reference only concatenates inputs and counts outputs, this   *)
(* says that how a caller cuts its input and its output into calls does    *)
(* not matter.                                                             *)
OutputsAgree == pc = "idle" => out = refOut

(* Between calls the sponge has done a prefix of the work of the           *)
(* reference: in squeezing mode both states and positions are equal; in    *)
(* absorbing mode the sponge is where absorbing the reference's line       *)
(* eagerly leads, so that flushing the line and permuting once meet.       *)
StatesMeet ==
  pc = "idle" =>
    IF mode.kind = "Squeezing"
    THEN /\ ref.squeezed # None
         /\ state = ref.state
         /\ mode.index = IF ref.squeezed = 0 THEN 0
                         ELSE ((ref.squeezed - 1) % Rate) + 1
    ELSE /\ ref.squeezed = None
         /\ Permuted(state) = RefFlush(ref).state

(* Prover and verifier stay together: after the same calls the circuit     *)
(* holds the native state at the native position, and has given the same   *)
(* elements, bytes, bits or emulated elements.                             *)
GadgetFollows ==
  pc = "idle" =>
    /\ var.state = state
    /\ var.mode = mode
    /\ varAnswer = Answer(request, out)

(* A request never gets the same bit twice: windows do not overlap, and    *)
(* the elements they are cut from are different outputs of the             *)
(* permutation.                                                            *)
NoBitTwice ==
  pc = "idle" =>
    LET answer == Answer(request, out)
    IN IF Windowed(request)
       THEN \A j, k \in DOMAIN answer : j # k =>
              {pair[2] : pair \in answer[j]} \cap {pair[2] : pair \in answer[k]} = {}
       ELSE \A j, k \in DOMAIN answer : answer[j] = answer[k] => j = k
=============================================================================
