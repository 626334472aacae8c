--------------------------- MODULE PoseidonSponge ---------------------------
(***************************************************************************)
(* PoseidonSponge<F> of sponge/poseidon/mod.rs: absorb and                 *)
(* squeeze_native_field_elements over the loops of DuplexState.            *)
(***************************************************************************)
EXTENDS DuplexState

(* absorb of an empty input returns at once.                               *)
AbsorbNothing ==
  /\ pc = "idle"
  /\ <<>> \in Inputs
  /\ out' = <<>>
  /\ UNCHANGED <<state, mode, pc, start, remaining, want, use>>

(* absorb while absorbing: a full block is permuted first.                 *)
AbsorbMore(elems) ==
  /\ pc = "idle"
  /\ elems # <<>>
  /\ mode.kind = "Absorbing"
  /\ IF mode.index = Rate
     THEN EnterAbsorb(0, elems, TRUE)
     ELSE EnterAbsorb(mode.index, elems, FALSE)

(* Mutant of AbsorbAfterSqueeze: permutes first, as RescueSponge does.     *)
AbsorbAfterSqueezePermutes(elems) ==
  /\ pc = "idle"
  /\ elems # <<>>
  /\ mode.kind = "Squeezing"
  /\ EnterAbsorb(0, elems, TRUE)

(* absorb while squeezing: from the first rate cell, with no permutation.  *)
AbsorbAfterSqueeze(elems) ==
  /\ pc = "idle"
  /\ elems # <<>>
  /\ mode.kind = "Squeezing"
  /\ EnterAbsorb(0, elems, FALSE)

(* Mutant of SqueezeAfterAbsorb: goes on from the absorbing index.         *)
SqueezeAfterAbsorbKeepsIndex(n) ==
  /\ pc = "idle"
  /\ mode.kind = "Absorbing"
  /\ EnterSqueeze(mode.index, n, TRUE)

(* squeeze_native_field_elements while absorbing: always permutes, also    *)
(* when nothing was absorbed or nothing is asked for.                      *)
SqueezeAfterAbsorb(n) ==
  /\ pc = "idle"
  /\ mode.kind = "Absorbing"
  /\ EnterSqueeze(0, n, TRUE)

(* Mutant of SqueezeMore: the test for a finished block is left to the     *)
(* loop.                                                                   *)
SqueezeMoreNoFullBlock(n) ==
  /\ pc = "idle"
  /\ mode.kind = "Squeezing"
  /\ EnterSqueeze(mode.index, n, FALSE)

(* squeeze_native_field_elements while squeezing.                          *)
SqueezeMore(n) ==
  /\ pc = "idle"
  /\ mode.kind = "Squeezing"
  /\ IF mode.index = Rate
     THEN EnterSqueeze(0, n, TRUE)
     ELSE EnterSqueeze(mode.index, n, FALSE)

(* Mutant of SqueezeChunk: whether to permute is decided before the output *)
(* is cut, as RescueSponge does.                                           *)
SqueezeChunkDecidesEarly ==
  LET n == Rate - start IN
  /\ pc = "squeeze"
  /\ start + want > Rate
  /\ out' = out \o ReadRange(state, start, n)
  /\ want' = want - n
  /\ IF want # Rate
     THEN state' = Permuted(state) /\ use' = AllFresh
     ELSE state' = state /\ use' = MarkEmitted(start, n)
  /\ start' = 0
  /\ UNCHANGED <<mode, pc, remaining>>

(* A turn of squeeze_internal that cannot finish: hand out the rest of the *)
(* block and, unless the call is done, permute.                            *)
SqueezeChunk ==
  LET n == Rate - start IN
  /\ pc = "squeeze"
  /\ start + want > Rate
  /\ out' = out \o ReadRange(state, start, n)
  /\ want' = want - n
  /\ IF want - n # 0
     THEN state' = Permuted(state) /\ use' = AllFresh
     ELSE state' = state /\ use' = MarkEmitted(start, n)
  /\ start' = 0
  /\ UNCHANGED <<mode, pc, remaining>>

Loop == AbsorbChunk \/ AbsorbLast \/ SqueezeChunk \/ SqueezeLast

Absorb(elems) == AbsorbMore(elems) \/ AbsorbAfterSqueeze(elems)
Squeeze(n) == SqueezeAfterAbsorb(n) \/ SqueezeMore(n)

Next ==
  \/ AbsorbNothing
  \/ \E elems \in Inputs : Absorb(elems)
  \/ \E n \in Counts : Squeeze(n)
  \/ Loop

(* A call that has been made runs to its end: the loops are straight code. *)
Spec == Init /\ [][Next]_vars /\ WF_vars(Loop)

-----------------------------------------------------------------------------
(* The duplex discipline: between two permutations each rate cell takes at *)
(* most one input and gives at most one output, and what it gives is       *)
(* permutation output.                                                     *)
DuplexDiscipline == NeverReemitted /\ NeverReabsorbed /\ NeverLeaked

(* The index separates used cells from unused ones, whatever calls led     *)
(* there.  Squeezing: exactly the cells below it have been handed out.     *)
(* Absorbing: exactly the cells below it hold an input not yet permuted.   *)
IndexSeparates ==
  pc = "idle" =>
    \A i \in RateCells :
      IF mode.kind = "Squeezing"
      THEN use[i] = IF i < mode.index THEN "emitted" ELSE "fresh"
      ELSE use[i] = "absorbed" <=> i < mode.index

(* Every call returns.                                                     *)
CallsReturn == pc # "idle" ~> pc = "idle"
=============================================================================
