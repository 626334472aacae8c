---------------------------- MODULE DuplexState ----------------------------
(***************************************************************************)
(* The part that sponge/poseidon/mod.rs and sponge/rescue/mod.rs share: a  *)
(* state vector, the duplex mode, and absorb_internal, whose text is the   *)
(* same in both files.                                                     *)
(*                                                                         *)
(* A call to the sponge is not one step here.  absorb_internal and         *)
(* squeeze_internal are loops, and each turn of a loop is a step: pc says  *)
(* which loop is running, start is its rate_start_index.  (The sponge      *)
(* borrows itself mutably for the whole call, so no other operation can    *)
(* start in between: the operations of the extending modules need          *)
(* pc = "idle".)                                                           *)
(*                                                                         *)
(* The permutation and the addition of the field are parameters, so what   *)
(* holds here holds of any permutation.                                    *)
(***************************************************************************)
EXTENDS Naturals, Sequences

CONSTANTS
  Rate,           \* parameters.rate
  Capacity,       \* parameters.capacity
  Elements,       \* the field elements a caller may absorb
  Inputs,         \* the sequences of them it may absorb in one call
  Counts,         \* the numbers of elements a caller may ask for
  Zero,           \* F::zero()
  Add(_, _),      \* the addition of the field
  PermCell(_, _)  \* cell i of the permutation of a state vector

(* PoseidonConfig and RescueConfig take any usize; a rate of zero makes    *)
(* absorb_internal loop for ever on its first element, so nobody builds    *)
(* one (the default parameters use rates 2 to 8).                          *)
ASSUME RateAssumption == Rate \in Nat \ {0}
ASSUME CapacityAssumption == Capacity \in Nat
ASSUME CountsAssumption == Counts \subseteq Nat
ASSUME InputsAssumption == Inputs \subseteq Seq(Elements)

VARIABLES
  state,      \* self.state
  mode,       \* self.mode: DuplexSpongeMode with its next index
  pc,         \* the loop that is running: "idle", "absorb", "squeeze"
  start,      \* rate_start_index of that loop
  remaining,  \* remaining_elements of absorb_internal
  want,       \* output_remaining.len() of squeeze_internal
  out,        \* what the squeeze of this call has written so far
  use         \* history: what happened to each rate cell since a permutation

vars == <<state, mode, pc, start, remaining, want, out, use>>

Cells == 0 .. (Rate + Capacity - 1)
RateCells == 0 .. (Rate - 1)

Absorbing(i) == [kind |-> "Absorbing", index |-> i]
Squeezing(i) == [kind |-> "Squeezing", index |-> i]

Modes == [kind : {"Absorbing", "Squeezing"}, index : 0 .. Rate]

(* The history of a rate cell.  "zero" is a cell of the initial state,     *)
(* "fresh" one the last permutation wrote, the last three are misuses.     *)
Uses == {"zero", "fresh", "emitted", "absorbed",
         "reemitted", "reabsorbed", "leaked"}

AfterEmit(u) ==
  CASE u = "fresh"                     -> "emitted"
    [] u \in {"emitted", "reemitted"} -> "reemitted"
    [] OTHER                           -> "leaked"

AfterAbsorb(u) ==
  CASE u \in {"zero", "fresh", "emitted"} -> "absorbed"
    [] OTHER                              -> "reabsorbed"

-----------------------------------------------------------------------------
(* permute, as the callers see it: every cell is written again.            *)
Permuted(s) == [i \in Cells |-> PermCell(s, i)]
AllFresh == [i \in RateCells |-> "fresh"]

(* state[capacity + from + i] += elems[i] for the first n elements.        *)
AddRange(s, from, n, elems) ==
  [c \in Cells |->
     IF c \in (Capacity + from) .. (Capacity + from + n - 1)
     THEN Add(s[c], elems[c - Capacity - from + 1])
     ELSE s[c]]

(* state[capacity + from .. capacity + from + n]                           *)
ReadRange(s, from, n) == [i \in 1 .. n |-> s[Capacity + from + i - 1]]

MarkAbsorbed(from, n) ==
  [i \in RateCells |->
     IF i \in from .. (from + n - 1) THEN AfterAbsorb(use[i]) ELSE use[i]]

MarkEmitted(from, n) ==
  [i \in RateCells |->
     IF i \in from .. (from + n - 1) THEN AfterEmit(use[i]) ELSE use[i]]

-----------------------------------------------------------------------------
(* new: all cells zero, absorbing at the first rate cell.                  *)
Init ==
  /\ state = [c \in Cells |-> Zero]
  /\ mode = Absorbing(0)
  /\ pc = "idle"
  /\ start = 0
  /\ remaining = <<>>
  /\ want = 0
  /\ out = <<>>
  /\ use = [i \in RateCells |-> "zero"]

(* Enter absorb_internal(from, elems), on a permuted state or not.         *)
EnterAbsorb(from, elems, permuteFirst) ==
  /\ pc' = "absorb"
  /\ start' = from
  /\ remaining' = elems
  /\ out' = <<>>
  /\ state' = IF permuteFirst THEN Permuted(state) ELSE state
  /\ use' = IF permuteFirst THEN AllFresh ELSE use
  /\ UNCHANGED <<mode, want>>

(* Enter squeeze_internal(from, &mut [..; n]), on a permuted state or not. *)
EnterSqueeze(from, n, permuteFirst) ==
  /\ pc' = "squeeze"
  /\ start' = from
  /\ want' = n
  /\ out' = <<>>
  /\ state' = IF permuteFirst THEN Permuted(state) ELSE state
  /\ use' = IF permuteFirst THEN AllFresh ELSE use
  /\ UNCHANGED <<mode, remaining>>

(* Mutant of AbsorbChunk: the input is not cut.                            *)
AbsorbChunkKeepsInput ==
  LET n == Rate - start IN
  /\ pc = "absorb"
  /\ start + Len(remaining) > Rate
  /\ state' = Permuted(AddRange(state, start, n, remaining))
  /\ use' = AllFresh
  /\ start' = 0
  /\ UNCHANGED <<mode, pc, remaining, want, out>>

(* A turn of absorb_internal that fills the block and permutes.            *)
AbsorbChunk ==
  LET n == Rate - start IN
  /\ pc = "absorb"
  /\ start + Len(remaining) > Rate
  /\ state' = Permuted(AddRange(state, start, n, remaining))
  /\ use' = AllFresh
  /\ remaining' = SubSeq(remaining, n + 1, Len(remaining))
  /\ start' = 0
  /\ UNCHANGED <<mode, pc, want, out>>

(* Mutant of AbsorbLast: one element too many is taken for the last block. *)
AbsorbLastOffByOne ==
  LET n == Len(remaining) IN
  /\ pc = "absorb"
  /\ start + n <= Rate + 1
  /\ state' = AddRange(state, start, n, remaining)
  /\ use' = MarkAbsorbed(start, n)
  /\ mode' = Absorbing(start + n)
  /\ pc' = "idle"
  /\ remaining' = <<>>
  /\ start' = 0
  /\ UNCHANGED <<want, out>>

(* The turn of absorb_internal that can finish: no permutation follows.    *)
AbsorbLast ==
  LET n == Len(remaining) IN
  /\ pc = "absorb"
  /\ start + n <= Rate
  /\ state' = AddRange(state, start, n, remaining)
  /\ use' = MarkAbsorbed(start, n)
  /\ mode' = Absorbing(start + n)
  /\ pc' = "idle"
  /\ remaining' = <<>>
  /\ start' = 0
  /\ UNCHANGED <<want, out>>

(* The turn of squeeze_internal that can finish.                           *)
SqueezeLast ==
  /\ pc = "squeeze"
  /\ start + want <= Rate
  /\ out' = out \o ReadRange(state, start, want)
  /\ use' = MarkEmitted(start, want)
  /\ mode' = Squeezing(start + want)
  /\ pc' = "idle"
  /\ want' = 0
  /\ start' = 0
  /\ UNCHANGED <<state, remaining>>

-----------------------------------------------------------------------------
(* Every index stays inside the rate and every vector keeps its length.    *)
TypeOK ==
  /\ DOMAIN state = Cells
  /\ mode \in Modes
  /\ pc \in {"idle", "absorb", "squeeze"}
  /\ start \in 0 .. Rate
  /\ remaining \in Seq(Elements)
  /\ want \in Nat
  /\ use \in [RateCells -> Uses]

(* Between two permutations no rate cell is handed out twice.              *)
NeverReemitted == \A i \in RateCells : use[i] # "reemitted"

(* Between two permutations no rate cell takes two inputs.                 *)
NeverReabsorbed == \A i \in RateCells : use[i] # "reabsorbed"

(* No cell is handed out in the form absorption left it, nor the initial   *)
(* zeros: output is always the permutation's.                              *)
NeverLeaked == \A i \in RateCells : use[i] # "leaked"
=============================================================================
