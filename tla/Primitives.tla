----------------------------- MODULE Primitives -----------------------------
(***************************************************************************)
(* The parts of the crate that keep nothing between calls and do not call  *)
(* one another, side by side: the encodings of absorbed values, the        *)
(* packing of public inputs, the rounds of the permutations, the SHA-256   *)
(* and Blake2s gadgets, the windowed hashes and the schemes over a group.  *)
(* A behaviour is about one of them, the others rest.                      *)
(***************************************************************************)
EXTENDS AbsorbEncoding, InputPacking, PermutationRounds, Sha256Stream,
        Blake2sBlocks, WindowedHashes, GroupSchemes

VARIABLE subject   \* the part this behaviour is about

Subjects == {"absorb", "packing", "permutation", "sha256", "blake2s", "hashes", "schemes"}

primitivesVars ==
  <<subject, absorbVars, packVars, roundsVars, vars, blakeVars, hashVars, schemesVars>>

(* A part at rest: a state of its own in which it does nothing.            *)
AbsorbAtRest == AbsorbInit /\ overflowChecks = FALSE
PackAtRest ==
  /\ from = 3 /\ into = 3 /\ src = <<>>
  /\ repacked = Unset /\ proved = Unset /\ verified = Unset /\ squeezed = Unset
RoundsAtRest ==
  /\ kind = "poseidon" /\ predicate = FALSE /\ same = TRUE
  /\ native = [i \in Cells |-> 0]
  /\ gadget = [i \in Cells |-> [variable |-> FALSE, value |-> 0]]
  /\ round = 0 /\ calls = 1
HashesAtRest ==
  /\ hashScheme = "pedersen" /\ debug = FALSE
  /\ left = <<>> /\ right = <<>> /\ digests = <<>> /\ circuits = <<>>
SchemesAtRest == SchemesInit /\ scheme = "schnorr"

PrimitivesInit ==
  /\ subject \in Subjects
  /\ IF subject = "absorb" THEN AbsorbInit ELSE AbsorbAtRest
  /\ IF subject = "packing" THEN PackInit ELSE PackAtRest
  /\ IF subject = "permutation" THEN RoundsInit ELSE RoundsAtRest
  /\ Init
  /\ BlakeInit
  /\ IF subject = "hashes" THEN HashInit ELSE HashesAtRest
  /\ IF subject = "schemes" THEN SchemesInit ELSE SchemesAtRest

PrimitivesNext ==
  /\ UNCHANGED subject
  /\ \/ /\ subject = "absorb" /\ AbsorbNext
        /\ UNCHANGED <<packVars, roundsVars, vars, blakeVars, hashVars, schemesVars>>
     \/ /\ subject = "packing" /\ PackNext
        /\ UNCHANGED <<absorbVars, roundsVars, vars, blakeVars, hashVars, schemesVars>>
     \/ /\ subject = "permutation" /\ RoundsNext
        /\ UNCHANGED <<absorbVars, packVars, vars, blakeVars, hashVars, schemesVars>>
     \/ /\ subject = "sha256" /\ Next
        /\ UNCHANGED <<absorbVars, packVars, roundsVars, blakeVars, hashVars, schemesVars>>
     \/ /\ subject = "blake2s" /\ BlakeNext
        /\ UNCHANGED <<absorbVars, packVars, roundsVars, vars, hashVars, schemesVars>>
     \/ /\ subject = "hashes" /\ HashNext
        /\ UNCHANGED <<absorbVars, packVars, roundsVars, vars, blakeVars, schemesVars>>
     \/ /\ subject = "schemes" /\ SchemesNext
        /\ UNCHANGED <<absorbVars, packVars, roundsVars, vars, blakeVars, hashVars>>

PrimitivesSpec == PrimitivesInit /\ [][PrimitivesNext]_primitivesVars
=============================================================================
