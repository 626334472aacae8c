---------------------------- MODULE RescueSponge ----------------------------
(***************************************************************************)
(* RescueSponge<F> of sponge/rescue/mod.rs.  It differs from               *)
(* PoseidonSponge in two places: absorb after squeeze permutes first, and  *)
(* squeeze_internal decides to permute before it has cut its output.       *)
(***************************************************************************)
EXTENDS DuplexState

(* absorb of an empty input returns at once.                               *)
AbsorbNothing ==
  /\ pc = "idle"
  /\ <<>> \in Inputs
  /\ out' = <<>>
  /\ UNCHANGED <<state, mode, pc, start, remaining, want, use>>

(* absorb while absorbing: a full block is permuted first.                 *)
AbsorbMore(elems) ==
  /\ pc = "idle"
  /\ elems # <<>>
  /\ mode.kind = "Absorbing"
  /\ IF mode.index = Rate
     THEN EnterAbsorb(0, elems, TRUE)
     ELSE EnterAbsorb(mode.index, elems, FALSE)

(* Mutant of AbsorbAfterSqueeze: no permutation, as in PoseidonSponge.     *)
AbsorbAfterSqueezeInPlace(elems) ==
  /\ pc = "idle"
  /\ elems # <<>>
  /\ mode.kind = "Squeezing"
  /\ EnterAbsorb(0, elems, FALSE)

(* absorb while squeezing: permutes, then absorbs from the first cell.     *)
AbsorbAfterSqueeze(elems) ==
  /\ pc = "idle"
  /\ elems # <<>>
  /\ mode.kind = "Squeezing"
  /\ EnterAbsorb(0, elems, TRUE)

(* squeeze_native_field_elements while absorbing: always permutes.         *)
SqueezeAfterAbsorb(n) ==
  /\ pc = "idle"
  /\ mode.kind = "Absorbing"
  /\ EnterSqueeze(0, n, TRUE)

(* Mutant of SqueezeMore: every call starts at the first cell.             *)
SqueezeMoreRestarts(n) ==
  /\ pc = "idle"
  /\ mode.kind = "Squeezing"
  /\ EnterSqueeze(0, n, FALSE)

(* squeeze_native_field_elements while squeezing.                          *)
SqueezeMore(n) ==
  /\ pc = "idle"
  /\ mode.kind = "Squeezing"
  /\ IF mode.index = Rate
     THEN EnterSqueeze(0, n, TRUE)
     ELSE EnterSqueeze(mode.index, n, FALSE)

(* A turn of squeeze_internal that cannot finish.  Whether to permute is   *)
(* decided by output_remaining.len() before the output is cut: a call that *)
(* asks for exactly a block in the middle of one is taken to be done.      *)
SqueezeChunk ==
  LET n == Rate - start IN
  /\ pc = "squeeze"
  /\ start + want > Rate
  /\ out' = out \o ReadRange(state, start, n)
  /\ want' = want - n
  /\ IF want # Rate
     THEN state' = Permuted(state) /\ use' = AllFresh
     ELSE state' = state /\ use' = MarkEmitted(start, n)
  /\ start' = 0
  /\ UNCHANGED <<mode, pc, remaining>>

Loop == AbsorbChunk \/ AbsorbLast \/ SqueezeChunk \/ SqueezeLast

Absorb(elems) == AbsorbMore(elems) \/ AbsorbAfterSqueeze(elems)
Squeeze(n) == SqueezeAfterAbsorb(n) \/ SqueezeMore(n)

Next ==
  \/ AbsorbNothing
  \/ \E elems \in Inputs : Absorb(elems)
  \/ \E n \in Counts : Squeeze(n)
  \/ Loop

(* A call that has been made runs to its end: the loops are straight code. *)
Spec == Init /\ [][Next]_vars /\ WF_vars(Loop)

-----------------------------------------------------------------------------
(* What holds of RescueSponge: no cell takes two inputs or leaks what it   *)
(* absorbed, and no input is added to a cell that has been handed out (the *)
(* permutation Poseidon does not make).                                    *)
AbsorbDiscipline ==
  /\ NeverReabsorbed
  /\ NeverLeaked
  /\ pc = "absorb" => \A i \in RateCells : use[i] \notin {"emitted", "reemitted"}

(* "Unless we are done with squeezing in this call, permute."              *)
(* (sponge/rescue/mod.rs:152.)  When a turn of squeeze_internal leaves     *)
(* something to give, it leaves cells that have not been given.            *)
PermutesUnlessDone ==
  pc = "squeeze" => \A i \in RateCells : i >= start => use[i] = "fresh"
=============================================================================
