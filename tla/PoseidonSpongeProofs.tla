------------------------ MODULE PoseidonSpongeProofs ------------------------
(***************************************************************************)
(* Proofs about PoseidonSponge for every rate, capacity, set of inputs and *)
(* set of counts, and for every permutation and addition.                  *)
(*                                                                         *)
(* DuplexDiscipline alone is not inductive: that the next output is        *)
(* permutation output depends on where the index stands.  The inductive    *)
(* invariant says, for the idle sponge and for each loop, which cells have *)
(* been used: those below the current position.                            *)
(*                                                                         *)
(* That the gadget and the reference give the same follows from two more   *)
(* invariants, which say what each of them has become by the time the      *)
(* sponge is in the middle of its loop: the gadget what its own loop makes *)
(* of the values the sponge has reached, the reference a state its line or *)
(* its output loop passes through.                                         *)
(***************************************************************************)
EXTENDS SpongeCross, SpongeVarProofs

Sound == {"zero", "fresh", "emitted", "absorbed"}
Open == {"zero", "fresh", "emitted"}   \* uses a cell may have and still absorb

(* The position of a running loop separates like the index does.           *)
LoopSeparates ==
  /\ pc = "absorb" =>
       \A i \in RateCells : use[i] = "absorbed" <=> i < start
  /\ pc = "squeeze" =>
       \A i \in RateCells : use[i] = IF i < start THEN "emitted" ELSE "fresh"

IInv ==
  /\ TypeOK
  /\ \A i \in RateCells : use[i] \in Sound
  /\ IndexSeparates
  /\ LoopSeparates

USE DEF RateCells, Cells, Modes, Absorbing, Squeezing

(* The helpers keep the shape of what they change.                         *)
LEMMA Shapes ==
  ASSUME TypeOK
  PROVE  /\ \A s : DOMAIN Permuted(s) = Cells
         /\ \A s, f, n, e : DOMAIN AddRange(s, f, n, e) = Cells
         /\ AllFresh \in [RateCells -> Uses]
         /\ \A f, n : MarkAbsorbed(f, n) \in [RateCells -> Uses]
         /\ \A f, n : MarkEmitted(f, n) \in [RateCells -> Uses]
BY DEF TypeOK, Permuted, AddRange, AllFresh, MarkAbsorbed, MarkEmitted,
       AfterEmit, AfterAbsorb, Uses

(* The invariant holds of a new sponge.                                    *)
LEMMA InitIInv == Init => IInv
BY RateAssumption, CapacityAssumption
   DEF Init, IInv, TypeOK, IndexSeparates, LoopSeparates, Sound, Open, Uses

(* Entering absorb_internal at a position from which no cell is absorbed.  *)
LEMMA EnterAbsorbIInv ==
  ASSUME IInv, pc = "idle", NEW from \in 0 .. Rate, NEW elems \in Inputs,
         NEW b \in BOOLEAN, EnterAbsorb(from, elems, b),
         IF b THEN from = 0
         ELSE \A i \in RateCells : use[i] = "absorbed" <=> i < from
  PROVE  IInv'
<1>1. TypeOK'
  BY Shapes, InputsAssumption, RateAssumption, CapacityAssumption
     DEF IInv, TypeOK, EnterAbsorb
<1>2. \A i \in RateCells : use'[i] \in Sound
  BY DEF IInv, EnterAbsorb, AllFresh, Sound
<1>3. IndexSeparates'
  BY DEF EnterAbsorb, IndexSeparates
<1>4. LoopSeparates'
  BY DEF EnterAbsorb, LoopSeparates, AllFresh, Open
<1>5. QED
  BY <1>1, <1>2, <1>3, <1>4 DEF IInv

(* Entering squeeze_internal at a position from which all cells are fresh. *)
LEMMA EnterSqueezeIInv ==
  ASSUME IInv, pc = "idle", NEW from \in 0 .. Rate, NEW n \in Nat,
         NEW b \in BOOLEAN, EnterSqueeze(from, n, b),
         IF b THEN from = 0
         ELSE \A i \in RateCells : use[i] = IF i < from THEN "emitted" ELSE "fresh"
  PROVE  IInv'
<1>1. TypeOK'
  BY Shapes, RateAssumption, CapacityAssumption
     DEF IInv, TypeOK, EnterSqueeze
<1>2. \A i \in RateCells : use'[i] \in Sound
  BY DEF IInv, EnterSqueeze, AllFresh, Sound
<1>3. IndexSeparates'
  BY DEF EnterSqueeze, IndexSeparates
<1>4. LoopSeparates'
  BY DEF EnterSqueeze, LoopSeparates, AllFresh
<1>5. QED
  BY <1>1, <1>2, <1>3, <1>4 DEF IInv

(* A block absorbed and permuted leaves only fresh cells.                  *)
LEMMA AbsorbChunkIInv ==
  ASSUME IInv, AbsorbChunk
  PROVE  IInv'
<1>1. TypeOK'
  BY Shapes, RateAssumption DEF IInv, TypeOK, AbsorbChunk
<1>2. \A i \in RateCells : use'[i] \in Sound
  BY DEF IInv, AbsorbChunk, AllFresh, Sound
<1>3. IndexSeparates' /\ LoopSeparates'
  BY DEF AbsorbChunk, IndexSeparates, LoopSeparates, AllFresh, Open
<1>4. QED
  BY <1>1, <1>2, <1>3 DEF IInv

(* The last part of an input goes to cells that have taken none.           *)
LEMMA AbsorbLastIInv ==
  ASSUME IInv, AbsorbLast
  PROVE  IInv'
<1>1. Len(remaining) \in Nat /\ start \in 0 .. Rate /\ pc = "absorb"
  BY DEF IInv, TypeOK, AbsorbLast
<1>2. TypeOK'
  BY <1>1, Shapes, RateAssumption DEF IInv, TypeOK, AbsorbLast
<1>3. \A i \in RateCells : i >= start => use[i] \in Open
  BY <1>1 DEF IInv, LoopSeparates, Sound, Open
<1>4. \A i \in RateCells :
        use'[i] = IF i \in start .. (start + Len(remaining) - 1)
                  THEN "absorbed" ELSE use[i]
  BY <1>1, <1>3, RateAssumption
     DEF AbsorbLast, MarkAbsorbed, AfterAbsorb, Open
<1>5. \A i \in RateCells : use'[i] \in Sound
  BY <1>4 DEF IInv, Sound
<1>6. IndexSeparates'
  BY <1>1, <1>3, <1>4, RateAssumption 
     DEF IInv, LoopSeparates, IndexSeparates, AbsorbLast, Absorbing
<1>7. LoopSeparates'
  BY DEF AbsorbLast, LoopSeparates
<1>8. QED
  BY <1>2, <1>5, <1>6, <1>7 DEF IInv

(* The turn that cannot finish always permutes: something is left to give. *)
LEMMA SqueezeChunkIInv ==
  ASSUME IInv, SqueezeChunk
  PROVE  IInv'
<1>1. want \in Nat /\ start \in 0 .. Rate /\ want - (Rate - start) # 0
  BY RateAssumption DEF IInv, TypeOK, SqueezeChunk
<1>2. use' = AllFresh /\ state' = Permuted(state)
  BY <1>1 DEF SqueezeChunk
<1>3. TypeOK'
  BY <1>1, <1>2, Shapes, RateAssumption DEF IInv, TypeOK, SqueezeChunk
<1>4. \A i \in RateCells : use'[i] \in Sound
  BY <1>2 DEF AllFresh, Sound
<1>5. IndexSeparates' /\ LoopSeparates'
  BY <1>2 DEF SqueezeChunk, IndexSeparates, LoopSeparates, AllFresh
<1>6. QED
  BY <1>3, <1>4, <1>5 DEF IInv

(* The last part of an output comes from fresh cells.                      *)
LEMMA SqueezeLastIInv ==
  ASSUME IInv, SqueezeLast
  PROVE  IInv'
<1>1. want \in Nat /\ start \in 0 .. Rate /\ pc = "squeeze"
  BY DEF IInv, TypeOK, SqueezeLast
<1>2. TypeOK'
  BY <1>1, Shapes, RateAssumption DEF IInv, TypeOK, SqueezeLast
<1>3. \A i \in RateCells : i >= start => use[i] = "fresh"
  BY <1>1 DEF IInv, LoopSeparates
<1>4. \A i \in RateCells :
        use'[i] = IF i \in start .. (start + want - 1)
                  THEN "emitted" ELSE use[i]
  BY <1>1, <1>3, RateAssumption DEF SqueezeLast, MarkEmitted, AfterEmit
<1>5. \A i \in RateCells : use'[i] \in Sound
  BY <1>4 DEF IInv, Sound
<1>6. IndexSeparates'
  BY <1>1, <1>3, <1>4, RateAssumption 
     DEF IInv, LoopSeparates, IndexSeparates, SqueezeLast
<1>7. LoopSeparates'
  BY DEF SqueezeLast, LoopSeparates
<1>8. QED
  BY <1>2, <1>5, <1>6, <1>7 DEF IInv

(* So do the operations, whatever is asked for.                            *)
LEMMA AbsorbIInv ==
  ASSUME IInv, NEW elems \in Inputs, Absorb(elems)
  PROVE  IInv'
<1>1. CASE AbsorbMore(elems)
  <2>1. pc = "idle" /\ mode.index \in 0 .. Rate /\ 0 \in 0 .. Rate
    BY <1>1, RateAssumption DEF AbsorbMore, IInv, TypeOK
  <2>2. \A i \in RateCells : use[i] = "absorbed" <=> i < mode.index
    BY <1>1 DEF AbsorbMore, IInv, IndexSeparates
  <2>3. QED
    BY <1>1, <2>1, <2>2, EnterAbsorbIInv DEF AbsorbMore
<1>2. CASE AbsorbAfterSqueeze(elems)
  <2>1. \A i \in RateCells : use[i] = "absorbed" <=> i < 0
    BY <1>2 DEF AbsorbAfterSqueeze, IInv, IndexSeparates
  <2>2. pc = "idle" /\ EnterAbsorb(0, elems, FALSE)
    BY <1>2 DEF AbsorbAfterSqueeze
  <2>3. 0 \in 0 .. Rate
    BY RateAssumption
  <2>4. QED
    BY <2>1, <2>2, <2>3, EnterAbsorbIInv
<1>3. QED
  BY <1>1, <1>2 DEF Absorb

LEMMA SqueezeIInv ==
  ASSUME IInv, NEW n \in Nat, Squeeze(n)
  PROVE  IInv'
<1>1. CASE SqueezeAfterAbsorb(n)
  <2>1. pc = "idle" /\ EnterSqueeze(0, n, TRUE)
    BY <1>1 DEF SqueezeAfterAbsorb
  <2>2. 0 \in 0 .. Rate
    BY RateAssumption
  <2>3. QED
    BY <2>1, <2>2, EnterSqueezeIInv
<1>2. CASE SqueezeMore(n)
  <2>1. pc = "idle" /\ mode.index \in 0 .. Rate /\ 0 \in 0 .. Rate
    BY <1>2, RateAssumption DEF SqueezeMore, IInv, TypeOK
  <2>2. \A i \in RateCells :
          use[i] = IF i < mode.index THEN "emitted" ELSE "fresh"
    BY <1>2 DEF SqueezeMore, IInv, IndexSeparates
  <2>3. QED
    BY <1>2, <2>1, <2>2, EnterSqueezeIInv DEF SqueezeMore
<1>3. QED
  BY <1>1, <1>2 DEF Squeeze

LEMMA LoopIInv ==
  ASSUME IInv, Loop
  PROVE  IInv'
BY AbsorbChunkIInv, AbsorbLastIInv, SqueezeChunkIInv, SqueezeLastIInv DEF Loop

(* The output of the last call plays no part in it.                        *)
LEMMA QuietIInv ==
  ASSUME IInv, UNCHANGED <<state, mode, pc, start, remaining, want, use>>
  PROVE  IInv'
BY DEF IInv, TypeOK, IndexSeparates, LoopSeparates

(* Every step preserves the invariant.                                     *)
LEMMA NextIInv == IInv /\ [Next]_vars => IInv'
<1> SUFFICES ASSUME IInv, [Next]_vars PROVE IInv'
  OBVIOUS
<1>1. CASE AbsorbNothing
  BY <1>1, QuietIInv DEF AbsorbNothing
<1>2. ASSUME NEW elems \in Inputs, Absorb(elems) PROVE IInv'
  BY <1>2, AbsorbIInv
<1>3. ASSUME NEW n \in Counts, Squeeze(n) PROVE IInv'
  <2>1. n \in Nat
    BY CountsAssumption
  <2>2. QED
    BY <1>3, <2>1, SqueezeIInv
<1>4. CASE Loop
  BY <1>4, LoopIInv
<1>5. CASE UNCHANGED vars
  BY <1>5, QuietIInv DEF vars
<1>6. QED
  BY <1>1, <1>2, <1>3, <1>4, <1>5 DEF Next

(* Spec => []TypeOK: every index stays inside the rate, so no slice of     *)
(* absorb_internal or squeeze_internal is out of range, and the state      *)
(* keeps its length.                                                       *)
THEOREM PoseidonTypeOK == Spec => []TypeOK
<1>1. IInv => TypeOK
  BY DEF IInv
<1>2. QED
  BY InitIInv, NextIInv, <1>1, PTL DEF Spec

(* Whatever calls are made, between two permutations a rate cell takes at  *)
(* most one input and gives at most one output, and what it gives is       *)
(* permutation output.                                                     *)
THEOREM PoseidonDuplexDiscipline == Spec => []DuplexDiscipline
<1>1. IInv => DuplexDiscipline
  BY DEF IInv, Sound, DuplexDiscipline,
         NeverReemitted, NeverReabsorbed, NeverLeaked
<1>2. QED
  BY InitIInv, NextIInv, <1>1, PTL DEF Spec

(* The index of an idle sponge separates used cells from unused ones.      *)
THEOREM PoseidonIndexSeparates == Spec => []IndexSeparates
<1>1. IInv => IndexSeparates
  BY DEF IInv
<1>2. QED
  BY InitIInv, NextIInv, <1>1, PTL DEF Spec

-----------------------------------------------------------------------------
(* The sponge and its gadget given the same calls.                         *)
PairInv == IInv /\ Paired(var, varAnswer, request)

LEMMA CrossInitPair == CrossInit => PairInv
<1> SUFFICES ASSUME CrossInit PROVE PairInv
  OBVIOUS
<1>1. IInv
  BY InitIInv DEF CrossInit
<1>2. var.state = state /\ var.mode = mode
  BY DEF CrossInit, Init, VarNew
<1>3. pc = "idle" /\ out = <<>> /\ request.kind = "elements" /\ varAnswer = <<>>
  BY DEF CrossInit, Init, NoRequest
<1>4. varAnswer = Answer(request, out)
  BY <1>3 DEF Answer, Whole, Windowed
<1>5. QED
  BY <1>1, <1>2, <1>3, <1>4, NothingGiven DEF PairInv, Paired

(* An absorb: the gadget has laid out the loop the sponge enters.          *)
LEMMA CrossAbsorbPaired ==
  ASSUME PairInv, NEW elems \in Inputs, CrossAbsorb(elems)
  PROVE  Paired(var, varAnswer, request)'
<1>1. TypeOK /\ Paired(var, varAnswer, request)
  BY DEF PairInv, IInv
<1>2. var' = VarAbsorb(var, elems) /\ varAnswer' = <<>> /\ request' = NoRequest
  BY DEF CrossAbsorb
<1>3. PICK r, v : r = NoRequest /\ v = VarAbsorb(var, elems)
  OBVIOUS
<1>4. r.kind = "elements"
  BY <1>3 DEF NoRequest
<1>5. CASE elems = <<>>
  <2>1. AbsorbNothing /\ v = var
    BY <1>3, <1>5 DEF CrossAbsorb, VarAbsorb
  <2>2. v.state = state /\ v.mode = mode /\ pc = "idle" /\ out' = <<>>
    BY <1>1, <2>1 DEF AbsorbNothing, Paired
  <2>3. Answer(r, <<>>) = <<>>
    BY <1>4 DEF Answer, Whole, Windowed
  <2>4. UNCHANGED <<state, mode, pc, start, remaining, want>>
    BY <2>1 DEF AbsorbNothing
  <2>5. Paired(v, <<>>, r)'
    BY <1>4, <2>2, <2>3, <2>4, QuietPaired
  <2>6. QED
    BY <1>2, <1>3, <2>5 DEF Paired
<1>6. CASE elems # <<>>
  <2>1. Absorb(elems) /\ pc = "idle" /\ mode.index \in 0 .. Rate
    BY <1>1, <1>6 DEF CrossAbsorb, Absorb, AbsorbMore, AbsorbAfterSqueeze, TypeOK
  <2>2. PICK s, i : s = state /\ i = mode.index
    OBVIOUS
  <2>3. var.state = s /\ var.mode = mode
    BY <1>1, <2>1, <2>2 DEF Paired
  <2>4. ASSUME NEW from \in 0 .. (Rate - 1), NEW b \in BOOLEAN,
               EnterAbsorb(from, elems, b),
               v = VarAbsorbInternal(IF b THEN Permuted(state) ELSE state, from, elems)
        PROVE  Paired(v, <<>>, r)'
    BY <1>4, <2>4, EnterAbsorbPaired
  <2>5. 0 \in 0 .. (Rate - 1) /\ (i # Rate => i \in 0 .. (Rate - 1))
    BY <2>1, <2>2, RateAssumption
  <2>6. Paired(v, <<>>, r)'
    <3>1. CASE AbsorbMore(elems) /\ i = Rate
      <4>1. EnterAbsorb(0, elems, TRUE)
        BY <2>2, <3>1 DEF AbsorbMore
      <4>2. v = VarAbsorbInternal(Permuted(s), 0, elems)
        BY <1>3, <1>6, <2>2, <2>3, <3>1 DEF VarAbsorb, AbsorbMore
      <4>3. QED
        BY <2>2, <2>4, <2>5, <4>1, <4>2
    <3>2. CASE AbsorbMore(elems) /\ i # Rate
      <4>1. EnterAbsorb(i, elems, FALSE)
        BY <2>2, <3>2 DEF AbsorbMore
      <4>2. v = VarAbsorbInternal(s, i, elems)
        BY <1>3, <1>6, <2>2, <2>3, <3>2 DEF VarAbsorb, AbsorbMore
      <4>3. QED
        BY <2>2, <2>4, <2>5, <3>2, <4>1, <4>2
    <3>3. CASE AbsorbAfterSqueeze(elems)
      <4>1. EnterAbsorb(0, elems, FALSE) /\ mode.kind = "Squeezing"
        BY <3>3 DEF AbsorbAfterSqueeze
      <4>2. v = VarAbsorbInternal(s, 0, elems)
        BY <1>3, <1>6, <2>3, <4>1, GadgetAssumption DEF VarAbsorb
      <4>3. QED
        BY <2>2, <2>4, <2>5, <4>1, <4>2
    <3>4. QED
      BY <2>1, <3>1, <3>2, <3>3 DEF Absorb
  <2>7. QED
    BY <1>2, <1>3, <2>6 DEF Paired
<1>7. QED
  BY <1>5, <1>6

(* A request: the same, or nothing at all.                                 *)
LEMMA CrossRequestPaired ==
  ASSUME PairInv, NEW r \in Requests, CrossRequest(r)
  PROVE  Paired(var, varAnswer, request)'
<1>1. TypeOK /\ Paired(var, varAnswer, request)
  BY DEF PairInv, IInv
<1>2. /\ var' = VarRequest(var, r).sponge /\ varAnswer' = VarRequest(var, r).answer
      /\ request' = r
  BY DEF CrossRequest
<1>3. CASE ~ TouchesSponge(r)
  <2>1. PICK v : v = var
    OBVIOUS
  <2>2. var' = v /\ varAnswer' = <<>>
    BY <1>2, <1>3, <2>1, VarRequestIs
  <2>3. pc = "idle" /\ out' = <<>> /\ UNCHANGED <<state, mode, pc, start, remaining, want>>
    BY <1>3 DEF CrossRequest
  <2>4. v.state = state /\ v.mode = mode
    BY <1>1, <2>1, <2>3 DEF Paired
  <2>5. Answer(r, <<>>) = <<>>
    BY <1>3, NothingAnswered
  <2>6. Paired(v, <<>>, r)'
    BY <2>3, <2>4, <2>5, QuietPaired
  <2>7. QED
    BY <1>2, <2>2, <2>6 DEF Paired
<1>4. CASE TouchesSponge(r)
  <2>1. PICK n : n = NumElements(r)
    OBVIOUS
  <2>2. Squeeze(n) /\ pc = "idle" /\ mode.index \in 0 .. Rate
    BY <1>1, <1>4, <2>1 DEF CrossRequest, Squeeze, SqueezeAfterAbsorb, SqueezeMore, TypeOK
  <2>3. PICK s, i, g : s = state /\ i = mode.index /\ g = VarSqueeze(var, n)
    OBVIOUS
  <2>4. var.state = s /\ var.mode = mode
    BY <1>1, <2>2, <2>3 DEF Paired
  <2>5. ASSUME NEW from \in 0 .. (Rate - 1), NEW b \in BOOLEAN,
               EnterSqueeze(from, n, b),
               g = VarGive(IF b THEN Permuted(state) ELSE state, from, n, <<>>)
        PROVE  Paired(g.sponge, VarAnswer(r, g.out), r)'
    BY <2>5, EnterSqueezePaired
  <2>6. 0 \in 0 .. (Rate - 1) /\ (i # Rate => i \in 0 .. (Rate - 1))
    BY <2>2, <2>3, RateAssumption
  <2>7. \A t, from : VarSqueezeInternal(t, from, n) = VarGive(t, from, n, <<>>)
    BY DEF VarSqueezeInternal, VarGive
  <2>8. Paired(g.sponge, VarAnswer(r, g.out), r)'
    <3>1. CASE SqueezeAfterAbsorb(n)
      <4>1. EnterSqueeze(0, n, TRUE) /\ mode.kind = "Absorbing"
        BY <3>1 DEF SqueezeAfterAbsorb
      <4>2. g = VarGive(Permuted(s), 0, n, <<>>)
        BY <2>3, <2>4, <2>7, <4>1 DEF VarSqueeze
      <4>3. QED
        BY <2>3, <2>5, <2>6, <4>1, <4>2
    <3>2. CASE SqueezeMore(n) /\ i = Rate
      <4>1. EnterSqueeze(0, n, TRUE) /\ mode.kind = "Squeezing"
        BY <2>3, <3>2 DEF SqueezeMore
      <4>2. g = VarGive(Permuted(s), 0, n, <<>>)
        BY <2>3, <2>4, <2>7, <3>2, <4>1 DEF VarSqueeze
      <4>3. QED
        BY <2>3, <2>5, <2>6, <4>1, <4>2
    <3>3. CASE SqueezeMore(n) /\ i # Rate
      <4>1. EnterSqueeze(i, n, FALSE) /\ mode.kind = "Squeezing"
        BY <2>3, <3>3 DEF SqueezeMore
      <4>2. g = VarGive(s, i, n, <<>>)
        BY <2>3, <2>4, <2>7, <3>3, <4>1 DEF VarSqueeze
      <4>3. QED
        BY <2>3, <2>5, <2>6, <3>3, <4>1, <4>2
    <3>4. QED
      BY <2>2, <3>1, <3>2, <3>3 DEF Squeeze
  <2>9. var' = g.sponge /\ varAnswer' = VarAnswer(r, g.out)
    BY <1>2, <1>4, <2>1, <2>3, VarRequestIs
  <2>10. QED
    BY <1>2, <2>8, <2>9 DEF Paired
<1>5. QED
  BY <1>3, <1>4

(* A turn of a loop.                                                       *)
LEMMA CrossLoopPaired ==
  ASSUME PairInv, Loop, UNCHANGED others
  PROVE  Paired(var, varAnswer, request)'
<1>1. PICK v, a, r : v = var /\ a = varAnswer /\ r = request
  OBVIOUS
<1>2. TypeOK /\ Paired(v, a, r)
  BY <1>1 DEF PairInv, IInv
<1>3. Paired(v, a, r)'
  <2>1. CASE AbsorbChunk
    BY <1>2, <2>1, AbsorbChunkPaired
  <2>2. CASE AbsorbLast
    BY <1>2, <2>2, AbsorbLastPaired
  <2>3. CASE SqueezeLast
    BY <1>2, <2>3, SqueezeLastPaired
  <2>4. CASE SqueezeChunk
    <3>1. /\ pc = "squeeze" /\ start + want > Rate
          /\ out' = out \o ReadRange(state, start, Rate - start)
          /\ want' = want - (Rate - start)
          /\ state' = IF (IF Rescue THEN want # Rate ELSE want - (Rate - start) # 0)
                      THEN Permuted(state) ELSE state
          /\ start' = 0 /\ pc' = pc
      BY <2>4, GadgetAssumption DEF SqueezeChunk
    <3>2. QED
      BY <1>2, <3>1, SqueezeChunkPaired
  <2>5. QED
    BY <2>1, <2>2, <2>3, <2>4 DEF Loop
<1>4. var' = v /\ varAnswer' = a /\ request' = r
  BY <1>1 DEF others
<1>5. QED
  BY <1>3, <1>4 DEF Paired

LEMMA CrossNextPair == PairInv /\ [CrossNext]_crossVars => PairInv'
<1> SUFFICES ASSUME PairInv, [CrossNext]_crossVars PROVE PairInv'
  OBVIOUS
<1>1. IInv
  BY DEF PairInv
<1>2. ASSUME NEW elems \in Inputs, CrossAbsorb(elems) PROVE PairInv'
  <2>1. IInv'
    <3>1. CASE elems = <<>>
      BY <1>1, <1>2, <3>1, QuietIInv DEF CrossAbsorb, AbsorbNothing
    <3>2. CASE elems # <<>>
      BY <1>1, <1>2, <3>2, AbsorbIInv DEF CrossAbsorb
    <3>3. QED
      BY <3>1, <3>2
  <2>2. Paired(var, varAnswer, request)'
    BY <1>2, CrossAbsorbPaired
  <2>3. QED
    BY <2>1, <2>2 DEF PairInv
<1>3. ASSUME NEW r \in Requests, CrossRequest(r) PROVE PairInv'
  <2>1. IInv'
    <3>1. CASE TouchesSponge(r)
      <4>1. PICK n : n = NumElements(r) /\ n \in Nat
        BY NumElementsNat
      <4>2. Squeeze(n)
        BY <1>3, <3>1, <4>1 DEF CrossRequest
      <4>3. QED
        BY <1>1, <4>1, <4>2, SqueezeIInv
    <3>2. CASE ~ TouchesSponge(r)
      BY <1>1, <1>3, <3>2, QuietIInv DEF CrossRequest
    <3>3. QED
      BY <3>1, <3>2
  <2>2. Paired(var, varAnswer, request)'
    BY <1>3, CrossRequestPaired
  <2>3. QED
    BY <2>1, <2>2 DEF PairInv
<1>4. CASE Loop /\ UNCHANGED others
  BY <1>1, <1>4, LoopIInv, CrossLoopPaired DEF PairInv
<1>5. CASE UNCHANGED crossVars
  <2>1. UNCHANGED vars /\ UNCHANGED others
    BY <1>5 DEF crossVars
  <2>2. IInv'
    BY <1>1, <2>1, QuietIInv DEF vars
  <2>3. Paired(var, varAnswer, request)'
    BY <2>1 DEF vars, others, PairInv, Paired
  <2>4. QED
    BY <2>2, <2>3 DEF PairInv
<1>6. QED
  BY <1>2, <1>3, <1>4, <1>5 DEF CrossNext

(* After the same calls PoseidonSpongeVar has the state and the position   *)
(* of PoseidonSponge and has given the same elements, bytes, bits or       *)
(* emulated elements, for every sequence of calls.                         *)
THEOREM PoseidonGadgetFollows == CrossSpec => []GadgetFollows
<1>1. PairInv => GadgetFollows
  BY DEF PairInv, Paired, GadgetFollows
<1>2. QED
  BY CrossInitPair, CrossNextPair, <1>1, PTL DEF CrossSpec

-----------------------------------------------------------------------------
(* The absorbing line of the reference, a block from position a of it      *)
(* added to a state as far as n elements.                                  *)
AddLine(s, line, a, n) ==
  [c \in Cells |->
     IF c \in Capacity .. (Capacity + n - 1)
     THEN Add(s[c], line[a + (c - Capacity) + 1])
     ELSE s[c]]

(* The first n elements of e are those of the line from position d on.     *)
Lies(e, n, line, d) == \A j \in 1 .. n : e[j] = line[d + j]

IsState(s) == s = [c \in Cells |-> s[c]]

LEMMA States ==
  /\ \A s : IsState(Permuted(s))
  /\ \A s, from, n, e : IsState(AddRange(s, from, n, e))
BY DEF IsState, Permuted, AddRange

LEMMA AddNothing ==
  ASSUME NEW s, IsState(s), NEW line, NEW a
  PROVE  AddLine(s, line, a, 0) = s
<1>1. \A c \in Cells : ~ (c \in Capacity .. (Capacity + 0 - 1))
  BY CapacityAssumption, RateAssumption
<1>2. AddLine(s, line, a, 0) = [c \in Cells |-> s[c]]
  BY <1>1 DEF AddLine
<1>3. QED
  BY <1>2 DEF IsState

(* A block filled a little further.                                        *)
LEMMA AddMore ==
  ASSUME NEW s, NEW line, NEW a \in Nat, NEW i \in Nat, NEW n \in Nat,
         NEW e, Lies(e, n, line, a + i)
  PROVE  AddRange(AddLine(s, line, a, i), i, n, e) = AddLine(s, line, a, i + n)
<1>1. PICK t : t = AddLine(s, line, a, i)
  OBVIOUS
<1>2. ASSUME NEW c \in Cells
      PROVE  (IF c \in (Capacity + i) .. (Capacity + i + n - 1)
              THEN Add(t[c], e[c - Capacity - i + 1])
              ELSE t[c])
             = (IF c \in Capacity .. (Capacity + (i + n) - 1)
                THEN Add(s[c], line[a + (c - Capacity) + 1])
                ELSE s[c])
  <2>1. c \in Nat
    BY CapacityAssumption, RateAssumption
  <2>2. t[c] = IF c \in Capacity .. (Capacity + i - 1)
               THEN Add(s[c], line[a + (c - Capacity) + 1])
               ELSE s[c]
    BY <1>1 DEF AddLine
  <2>3. CASE c \in (Capacity + i) .. (Capacity + i + n - 1)
    <3>1. PICK j : j = c - Capacity - i + 1 /\ j \in 1 .. n
      BY <2>1, <2>3, CapacityAssumption
    <3>2. a + i + j = a + (c - Capacity) + 1
      BY <2>1, <3>1, CapacityAssumption
    <3>3. e[j] = line[a + (c - Capacity) + 1]
      BY <3>1, <3>2 DEF Lies
    <3>4. /\ ~ (c \in Capacity .. (Capacity + i - 1))
          /\ c \in Capacity .. (Capacity + (i + n) - 1)
      BY <2>1, <2>3, CapacityAssumption
    <3>5. QED
      BY <2>2, <2>3, <3>1, <3>3, <3>4
  <2>4. CASE ~ (c \in (Capacity + i) .. (Capacity + i + n - 1))
    <3>1. c \in Capacity .. (Capacity + (i + n) - 1) <=> c \in Capacity .. (Capacity + i - 1)
      BY <2>1, <2>4, CapacityAssumption
    <3>2. QED
      BY <2>2, <2>4, <3>1
  <2>5. QED
    BY <2>3, <2>4
<1>3. AddRange(t, i, n, e) = AddLine(s, line, a, i + n)
  BY <1>2 DEF AddRange, AddLine
<1>4. QED
  BY <1>1, <1>3

(* Only the elements that are added matter.                                *)
LEMMA AddSame ==
  ASSUME NEW s, NEW line, NEW other, NEW a \in Nat, NEW n \in Nat,
         Lies(line, a + n, other, 0)
  PROVE  AddLine(s, other, a, n) = AddLine(s, line, a, n)
<1>1. ASSUME NEW c \in Cells, c \in Capacity .. (Capacity + n - 1)
      PROVE  other[a + (c - Capacity) + 1] = line[a + (c - Capacity) + 1]
  <2>1. a + (c - Capacity) + 1 \in 1 .. (a + n)
    BY <1>1, CapacityAssumption
  <2>2. \A j \in 1 .. (a + n) : other[j] = line[j]
    BY DEF Lies
  <2>3. QED
    BY <2>1, <2>2
<1>2. QED
  BY <1>1 DEF AddLine

(* Whole blocks of the line absorbed from a state: b[k] is the state after *)
(* k of them.                                                              *)
Eaten(b, q, s, line) ==
  /\ b[0] = s
  /\ \A k \in 1 .. q : b[k] = Permuted(AddLine(b[k - 1], line, End(Rate, k - 1), Rate))

(* A sponge has state t and stands at index i, with rest to come: it has   *)
(* absorbed the line up to there.                                          *)
Laid(s, line, t, i, rest) ==
  \E b : \E q \in Nat :
    /\ Eaten(b, q, s, line)
    /\ t = AddLine(b[q], line, End(Rate, q), i)
    /\ Len(line) = End(Rate, q) + i + Len(rest)
    /\ \A j \in 1 .. Len(rest) : rest[j] = line[End(Rate, q) + i + j]

(* Where the elements of a longer line are.                                *)
IsJoined(w, s, t, l) ==
  /\ Len(w) = l + Len(t)
  /\ Lies(s, l, w, 0)
  /\ Lies(t, Len(t), w, l)

LEMMA Joined ==
  ASSUME NEW s \in Seq(Elements), NEW t \in Seq(Elements), NEW m \in Nat, NEW n \in Nat,
         Len(s) = m + n
  PROVE  IsJoined(s \o t, s, t, m + n)
<1>1. PICK l, k : l = Len(s) /\ k = Len(t) /\ l \in Nat /\ k \in Nat /\ l = m + n
  OBVIOUS
<1>2. /\ Len(s \o t) = l + k
      /\ \A j \in 1 .. (l + k) : (s \o t)[j] = IF j <= l THEN s[j] ELSE t[j - l]
  <2>1. /\ Len(s \o t) = Len(s) + Len(t)
        /\ \A j \in 1 .. (Len(s) + Len(t)) :
             (s \o t)[j] = IF j <= Len(s) THEN s[j] ELSE t[j - Len(s)]
    BY ConcatProperties
  <2>2. QED
    BY <1>1, <2>1
<1>3. PICK w : w = s \o t
  OBVIOUS
<1>4. \A j \in 1 .. (l + k) : w[j] = IF j <= l THEN s[j] ELSE t[j - l]
  BY <1>2, <1>3
<1>5. ASSUME NEW j \in 1 .. k PROVE t[j] = w[l + j]
  <2>1. PICK i : i = l + j
    OBVIOUS
  <2>2. i \in 1 .. (l + k) /\ ~ (i <= l) /\ i - l = j
    BY <1>1, <2>1
  <2>3. QED
    BY <1>4, <2>1, <2>2
<1>6. ASSUME NEW j \in 1 .. l PROVE s[j] = w[0 + j]
  <2>1. j \in 1 .. (l + k) /\ j <= l /\ 0 + j = j
    BY <1>1
  <2>2. QED
    BY <1>4, <2>1
<1>7. Lies(s, l, w, 0) /\ Lies(t, k, w, l)
  BY <1>5, <1>6 DEF Lies
<1>8. QED
  BY <1>1, <1>2, <1>3, <1>7 DEF IsJoined

(* A line that nothing of was absorbed.                                    *)
LEMMA LaidNone ==
  ASSUME NEW s, IsState(s), NEW line \in Seq(Elements)
  PROVE  Laid(s, line, s, 0, line)
<1> DEFINE b == [k \in 0 .. 0 |-> s]
<1>1. Eaten(b, 0, s, line)
  BY DEF Eaten
<1>2. PICK a : a = End(Rate, 0) /\ a = 0
  BY Ends, RateAssumption
<1>3. b[0] = s
  OBVIOUS
<1> HIDE DEF b
<1>4. s = AddLine(b[0], line, a, 0)
  BY <1>3, AddNothing
<1>5. /\ Len(line) = a + 0 + Len(line)
      /\ \A j \in 1 .. Len(line) : line[j] = line[a + 0 + j]
  BY <1>2
<1>6. QED
  BY <1>1, <1>2, <1>4, <1>5 DEF Laid

(* More of the line comes.                                                 *)
LEMMA LaidLonger ==
  ASSUME NEW s, NEW line \in Seq(Elements), NEW t, NEW i \in Nat,
         Laid(s, line, t, i, <<>>), NEW elems \in Seq(Elements)
  PROVE  Laid(s, line \o elems, t, i, elems)
<1>1. PICK b, q : /\ q \in Nat /\ Eaten(b, q, s, line)
                  /\ t = AddLine(b[q], line, End(Rate, q), i)
                  /\ Len(line) = End(Rate, q) + i + Len(<<>>)
  BY DEF Laid
<1>2. PICK a : a = End(Rate, q) /\ a \in Nat /\ Len(line) = a + i
  <2>1. End(Rate, q) \in Nat /\ Len(<<>>) = 0
    BY <1>1, Ends, RateAssumption
  <2>2. QED
    BY <1>1, <2>1
<1>3. PICK w : w = line \o elems
  OBVIOUS
<1>4. Len(w) = a + i + Len(elems) /\ Lies(line, a + i, w, 0) /\ Lies(elems, Len(elems), w, a + i)
  <2>1. IsJoined(line \o elems, line, elems, a + i)
    BY <1>2, Joined
  <2>2. QED
    BY <1>3, <2>1 DEF IsJoined
<1>5. t = AddLine(b[q], w, a, i)
  <2>1. PICK u : u = b[q]
    OBVIOUS
  <2>2. AddLine(u, w, a, i) = AddLine(u, line, a, i)
    BY <1>2, <1>4, AddSame
  <2>3. QED
    BY <1>1, <1>2, <2>1, <2>2
<1>6. ASSUME NEW k \in 1 .. q
      PROVE  b[k] = Permuted(AddLine(b[k - 1], w, End(Rate, k - 1), Rate))
  <2>1. PICK m, d : /\ m = k - 1 /\ m \in Nat /\ m < q /\ d = End(Rate, m) /\ d \in Nat
    <3>1. k - 1 \in Nat /\ k - 1 < q
      BY <1>1
    <3>2. End(Rate, k - 1) \in Nat
      BY <3>1, Ends, RateAssumption
    <3>3. QED
      BY <3>1, <3>2
  <2>2. d + Rate <= a
    BY <1>1, <1>2, <2>1, EndsApart, RateAssumption
  <2>3. Lies(line, d + Rate, w, 0)
    <3>1. \A j \in 1 .. (a + i) : line[j] = w[0 + j]
      BY <1>4 DEF Lies
    <3>2. 1 .. (d + Rate) \subseteq 1 .. (a + i)
      <4>1. d \in Nat /\ a \in Nat /\ i \in Nat /\ d + Rate <= a
        BY <1>2, <2>1, <2>2
      <4>2. QED
        BY <4>1, RateAssumption
    <3>3. QED
      BY <3>1, <3>2 DEF Lies
  <2>4. AddLine(b[m], w, d, Rate) = AddLine(b[m], line, d, Rate)
    BY <2>1, <2>3, AddSame, RateAssumption
  <2>5. b[k] = Permuted(AddLine(b[m], line, d, Rate))
    BY <1>1, <2>1 DEF Eaten
  <2>6. QED
    BY <2>1, <2>4, <2>5
<1>7. Eaten(b, q, s, w)
  BY <1>1, <1>6 DEF Eaten
<1>8. QED
  BY <1>1, <1>2, <1>3, <1>4, <1>5, <1>7 DEF Laid, Lies

(* A block is filled a little further.                                     *)
LEMMA LaidMore ==
  ASSUME NEW s, NEW line, NEW t, NEW i \in Nat, NEW rest \in Seq(Elements),
         Laid(s, line, t, i, rest), NEW n \in 0 .. Len(rest)
  PROVE  Laid(s, line, AddRange(t, i, n, rest), i + n, SubSeq(rest, n + 1, Len(rest)))
<1>1. PICK b, q : /\ q \in Nat /\ Eaten(b, q, s, line)
                  /\ t = AddLine(b[q], line, End(Rate, q), i)
                  /\ Len(line) = End(Rate, q) + i + Len(rest)
                  /\ \A j \in 1 .. Len(rest) : rest[j] = line[End(Rate, q) + i + j]
  BY DEF Laid
<1>2. PICK a, l : a = End(Rate, q) /\ a \in Nat /\ l = Len(rest) /\ l \in Nat /\ n \in 0 .. l
  <2>1. End(Rate, q) \in Nat
    BY <1>1, Ends, RateAssumption
  <2>2. QED
    BY <2>1
<1>3. PICK e : e = SubSeq(rest, n + 1, l)
  OBVIOUS
<1>4. Len(e) = l - n /\ \A j \in 1 .. (l - n) : e[j] = rest[n + j]
  <2>1. PICK m : m = n + 1 /\ m \in Int /\ l \in Int
    BY <1>2
  <2>2. /\ Len(SubSeq(rest, m, l)) = IF m <= l THEN l - m + 1 ELSE 0
        /\ \A j \in 1 .. (l - m + 1) : SubSeq(rest, m, l)[j] = rest[m + j - 1]
    BY <2>1, Cut
  <2>3. l - m + 1 = l - n /\ (IF m <= l THEN l - m + 1 ELSE 0) = l - n
    BY <1>2, <2>1
  <2>4. ASSUME NEW j \in 1 .. (l - n) PROVE m + j - 1 = n + j
    BY <1>2, <2>1
  <2>5. QED
    BY <1>3, <2>1, <2>2, <2>3, <2>4
<1>5. AddRange(t, i, n, rest) = AddLine(b[q], line, a, i + n)
  <2>1. n \in Nat /\ Lies(rest, n, line, a + i)
    BY <1>1, <1>2 DEF Lies
  <2>2. PICK u : u = b[q]
    OBVIOUS
  <2>3. AddRange(AddLine(u, line, a, i), i, n, rest) = AddLine(u, line, a, i + n)
    BY <1>2, <2>1, AddMore
  <2>4. QED
    BY <1>1, <1>2, <2>2, <2>3
<1>6. Len(line) = a + (i + n) + Len(e)
  <2>1. PICK k, m : k = Len(line) /\ m = Len(e)
    OBVIOUS
  <2>2. k = a + i + l /\ m = l - n
    <3>1. Len(line) = a + i + l
      BY <1>1, <1>2
    <3>2. Len(e) = l - n
      BY <1>4
    <3>3. QED
      BY <2>1, <3>1, <3>2
  <2>3. k = a + (i + n) + m
    <3>1. a \in Int /\ i \in Int /\ l \in Int /\ n \in Int
      BY <1>2
    <3>2. a + i + l = a + (i + n) + (l - n)
      BY <3>1
    <3>3. QED
      BY <2>2, <3>2
  <2>4. QED
    BY <2>1, <2>3
<1>7. ASSUME NEW j \in 1 .. Len(e) PROVE e[j] = line[a + (i + n) + j]
  <2>1. j \in 1 .. (l - n)
    BY <1>4
  <2>2. PICK k : k = n + j /\ k \in 1 .. l
    BY <1>2, <2>1
  <2>3. e[j] = rest[k] /\ rest[k] = line[a + i + k]
    BY <1>1, <1>2, <1>4, <2>1, <2>2
  <2>4. a + i + k = a + (i + n) + j
    BY <1>2, <2>1, <2>2
  <2>5. QED
    BY <2>3, <2>4
<1>8. QED
  BY <1>1, <1>2, <1>3, <1>5, <1>6, <1>7 DEF Laid

(* A full block is permuted.                                               *)
LEMMA LaidPermuted ==
  ASSUME NEW s, NEW line, NEW t, NEW rest \in Seq(Elements),
         Laid(s, line, t, Rate, rest)
  PROVE  Laid(s, line, Permuted(t), 0, rest)
<1>1. PICK b, q : /\ q \in Nat /\ Eaten(b, q, s, line)
                  /\ t = AddLine(b[q], line, End(Rate, q), Rate)
                  /\ Len(line) = End(Rate, q) + Rate + Len(rest)
                  /\ \A j \in 1 .. Len(rest) : rest[j] = line[End(Rate, q) + Rate + j]
  BY DEF Laid
<1>2. PICK a, p, z : /\ a = End(Rate, q) /\ a \in Nat /\ p = q + 1 /\ p \in Nat
                     /\ z = End(Rate, p) /\ z \in Nat /\ z = a + Rate
  <2>1. End(Rate, q) \in Nat /\ End(Rate, q + 1) = End(Rate, q) + Rate
    BY <1>1, Ends, RateAssumption
  <2>2. q + 1 \in Nat /\ End(Rate, q) + Rate \in Nat
    BY <1>1, <2>1, RateAssumption
  <2>3. QED
    BY <2>1, <2>2
<1> DEFINE e == [k \in 0 .. p |-> IF k = p THEN Permuted(t) ELSE b[k]]
<1>3. e[p] = Permuted(t) /\ \A k \in 0 .. q : e[k] = b[k]
  <2>1. p \in 0 .. p /\ \A k \in 0 .. q : k \in 0 .. p /\ k # p
    <3>1. q \in Nat /\ p = q + 1
      BY <1>1, <1>2
    <3>2. QED
      BY <3>1
  <2>2. QED
    BY <2>1
<1> HIDE DEF e
<1>4. Eaten(e, p, s, line)
  <2>1. e[0] = s
    BY <1>1, <1>3 DEF Eaten
  <2>2. ASSUME NEW k \in 1 .. p
        PROVE  e[k] = Permuted(AddLine(e[k - 1], line, End(Rate, k - 1), Rate))
    <3>1. CASE k = p
      <4>1. k - 1 = q /\ q \in 0 .. q
        BY <1>1, <1>2, <3>1
      <4>2. QED
        BY <1>1, <1>3, <3>1, <4>1
    <3>2. CASE k # p
      <4>1. k \in 1 .. q /\ k \in 0 .. q /\ k - 1 \in 0 .. q
        BY <1>1, <1>2, <3>2
      <4>2. b[k] = Permuted(AddLine(b[k - 1], line, End(Rate, k - 1), Rate))
        BY <1>1, <4>1 DEF Eaten
      <4>3. QED
        BY <1>3, <4>1, <4>2
    <3>3. QED
      BY <3>1, <3>2
  <2>3. QED
    BY <2>1, <2>2 DEF Eaten
<1>5. Permuted(t) = AddLine(e[p], line, z, 0)
  BY <1>3, States, AddNothing
<1>6. Len(line) = z + 0 + Len(rest)
  BY <1>1, <1>2
<1>7. ASSUME NEW j \in 1 .. Len(rest) PROVE rest[j] = line[z + 0 + j]
  <2>1. z + 0 + j = a + Rate + j
    BY <1>2, RateAssumption
  <2>2. QED
    BY <1>1, <1>2, <2>1
<1>8. QED
  BY <1>2, <1>4, <1>5, <1>6, <1>7 DEF Laid

-----------------------------------------------------------------------------
(* The chunks the reference absorbs.                                       *)
LEMMA ChunkFacts ==
  ASSUME NEW line \in Seq(Elements), NEW q \in Nat, NEW i \in 1 .. Rate,
         Len(line) = End(Rate, q) + i
  PROVE  /\ Len(Chunks(line)) = q + 1
         /\ \A k \in 1 .. q :
              /\ Len(Chunks(line)[k]) = Rate
              /\ \A j \in 1 .. Rate : Chunks(line)[k][j] = line[End(Rate, k - 1) + j]
         /\ Len(Chunks(line)[q + 1]) = i
         /\ \A j \in 1 .. i : Chunks(line)[q + 1][j] = line[End(Rate, q) + j]
<1>1. PICK a : a = End(Rate, q) /\ a \in Nat /\ Len(line) = a + i
  BY Ends, RateAssumption
<1>2. (Len(line) + Rate - 1) \div Rate = q + 1
  <2>1. PICK x : x = Len(line) + Rate - 1 /\ x \in Nat
    <3>1. Len(line) + Rate - 1 \in Nat
      BY <1>1, RateAssumption
    <3>2. QED
      BY <3>1
  <2>2. a = q * Rate /\ (q + 1) * Rate = q * Rate + Rate
        /\ (q + 1 + 1) * Rate = q * Rate + Rate + Rate
    BY <1>1, RateAssumption DEF End
  <2>3. (q + 1) * Rate <= x /\ x < (q + 1 + 1) * Rate
    BY <1>1, <2>1, <2>2, RateAssumption
  <2>4. q + 1 \in Nat /\ Rate \in Nat /\ Rate >= 1
    BY RateAssumption
  <2>5. x \div Rate = q + 1
    BY <2>1, <2>3, <2>4, DivUnique
  <2>6. QED
    BY <2>1, <2>5
<1>3. ASSUME NEW k \in 1 .. (q + 1), NEW d, d = End(Rate, k - 1)
      PROVE  /\ d \in Nat
             /\ Chunks(line)[k] = SubSeq(line, d + 1, IF k = q + 1 THEN d + i ELSE d + Rate)
             /\ k = q + 1 => d = a
  <2>1. PICK m : m = k - 1 /\ m \in Nat /\ m <= q /\ k = m + 1 /\ d = End(Rate, m)
    <3>1. k - 1 \in Nat /\ k - 1 <= q /\ k = k - 1 + 1
      OBVIOUS
    <3>2. QED
      BY <1>3, <3>1
  <2>2. d \in Nat /\ End(Rate, m + 1) = d + Rate
    BY <2>1, Ends, RateAssumption
  <2>3. (k - 1) * Rate = d /\ k * Rate = d + Rate
    <3>1. m * Rate = d
      BY <2>1, RateAssumption DEF End
    <3>2. (m + 1) * Rate = m * Rate + Rate
      BY <2>1, RateAssumption
    <3>3. QED
      BY <2>1, <3>1, <3>2
  <2>4. (IF d + Rate < Len(line) THEN d + Rate ELSE Len(line))
          = (IF k = q + 1 THEN d + i ELSE d + Rate)
    <3>1. CASE k = q + 1
      <4>1. m = q /\ d = a
        BY <1>1, <2>1, <3>1
      <4>2. QED
        BY <1>1, <2>2, <3>1, <4>1, RateAssumption
    <3>2. CASE k # q + 1
      <4>1. m < q
        BY <2>1, <3>2
      <4>2. d + Rate <= a
        BY <1>1, <2>1, <4>1, EndsApart, RateAssumption
      <4>3. QED
        BY <1>1, <2>2, <3>2, <4>2, RateAssumption
    <3>3. QED
      BY <3>1, <3>2
  <2>5. Chunks(line)[k] = SubSeq(line, d + 1, IF d + Rate < Len(line) THEN d + Rate ELSE Len(line))
    BY <1>2, <2>3 DEF Chunks
  <2>6. k = q + 1 => d = a
    BY <1>1, <2>1
  <2>7. QED
    BY <2>2, <2>4, <2>5, <2>6
<1>4. ASSUME NEW d \in Nat, NEW n \in Nat
      PROVE  /\ Len(SubSeq(line, d + 1, d + n)) = n
             /\ \A j \in 1 .. n : SubSeq(line, d + 1, d + n)[j] = line[d + j]
  <2>1. PICK m, h : m = d + 1 /\ h = d + n /\ m \in Int /\ h \in Int
    OBVIOUS
  <2>2. /\ Len(SubSeq(line, m, h)) = IF m <= h THEN h - m + 1 ELSE 0
        /\ \A j \in 1 .. (h - m + 1) : SubSeq(line, m, h)[j] = line[m + j - 1]
    BY <2>1, Cut
  <2>3. h - m + 1 = n /\ (IF m <= h THEN h - m + 1 ELSE 0) = n
    BY <2>1
  <2>4. ASSUME NEW j \in 1 .. n PROVE m + j - 1 = d + j
    BY <2>1
  <2>5. QED
    BY <2>1, <2>2, <2>3, <2>4
<1>5. Len(Chunks(line)) = q + 1
  <2>1. Chunks(line) = [k \in 1 .. (q + 1) |-> Chunks(line)[k]]
    BY <1>2 DEF Chunks
  <2>2. QED
    BY <2>1
<1>6. ASSUME NEW k \in 1 .. q
      PROVE  /\ Len(Chunks(line)[k]) = Rate
             /\ \A j \in 1 .. Rate : Chunks(line)[k][j] = line[End(Rate, k - 1) + j]
  <2>1. PICK d : d = End(Rate, k - 1)
    OBVIOUS
  <2>2. k \in 1 .. (q + 1) /\ k # q + 1
    OBVIOUS
  <2>3. d \in Nat /\ Chunks(line)[k] = SubSeq(line, d + 1, d + Rate) /\ Rate \in Nat
    BY <1>3, <2>1, <2>2, RateAssumption
  <2>4. /\ Len(SubSeq(line, d + 1, d + Rate)) = Rate
        /\ \A j \in 1 .. Rate : SubSeq(line, d + 1, d + Rate)[j] = line[d + j]
    BY <1>4, <2>3
  <2>5. QED
    BY <2>1, <2>3, <2>4
<1>7. /\ Len(Chunks(line)[q + 1]) = i
      /\ \A j \in 1 .. i : Chunks(line)[q + 1][j] = line[a + j]
  <2>1. PICK k, d : k = q + 1 /\ d = End(Rate, k - 1)
    OBVIOUS
  <2>2. k \in 1 .. (q + 1) /\ i \in Nat
    BY <2>1, RateAssumption
  <2>3. d = a /\ Chunks(line)[k] = SubSeq(line, d + 1, d + i) /\ d \in Nat
    BY <1>3, <2>1, <2>2
  <2>4. /\ Len(SubSeq(line, d + 1, d + i)) = i
        /\ \A j \in 1 .. i : SubSeq(line, d + 1, d + i)[j] = line[d + j]
    BY <1>4, <2>2, <2>3
  <2>5. QED
    BY <2>1, <2>3, <2>4
<1>8. QED
  BY <1>1, <1>5, <1>6, <1>7

(* The blocks of a flush, one after the other.                             *)
EatsChunks(e, chunks, n) ==
  \A k \in 1 .. n : e[k] = Permuted(AddRange(e[k - 1], 0, Len(chunks[k]), chunks[k]))

LEMMA FlushBlocks ==
  ASSUME NEW ref0, ref0.absorbing # <<>>,
         NEW chunks, chunks = Chunks(ref0.absorbing),
         NEW n \in Nat, n = Len(chunks)
  PROVE  \E e : /\ e[0] = ref0.state /\ RefFlush(ref0).state = e[n]
                /\ EatsChunks(e, chunks, n)
<1> DEFINE Step(t, k) == Permuted(AddRange(t, 0, Len(chunks[k]), chunks[k]))
           Is(m, e) == e = [k \in 0 .. m |-> IF k = 0 THEN ref0.state ELSE Step(e[k - 1], k)]
           F(e) == [k \in 0 .. n |-> IF k = 0 THEN ref0.state ELSE Step(e[k - 1], k)]
           block == CHOOSE e : e = F(e)
           S == {m \in Nat : \E e : Is(m, e)}
<1>5. RefFlush(ref0).state = block[n]
  BY DEF RefFlush
<1> HIDE DEF Step
<1>1. 0 \in S
  <2>1. Is(0, [k \in 0 .. 0 |-> ref0.state])
    OBVIOUS
  <2> HIDE DEF Is
  <2>2. QED
    BY <2>1
<1>2. ASSUME NEW m \in Nat, m \in S PROVE m + 1 \in S
  <2>1. PICK a : Is(m, a)
    BY <1>2
  <2> DEFINE e == [k \in 0 .. (m + 1) |-> IF k = m + 1 THEN Step(a[m], m + 1) ELSE a[k]]
  <2>2. \A k \in 0 .. m : e[k] = a[k]
    OBVIOUS
  <2>3. e[m + 1] = Step(e[m + 1 - 1], m + 1) /\ e = [k \in 0 .. (m + 1) |-> e[k]]
    OBVIOUS
  <2> HIDE DEF e
  <2>4. ASSUME NEW k \in 0 .. (m + 1)
        PROVE  e[k] = IF k = 0 THEN ref0.state ELSE Step(e[k - 1], k)
    <3>1. CASE k = m + 1
      BY <2>3, <3>1
    <3>2. CASE k # m + 1
      <4>1. k \in 0 .. m /\ (k # 0 => k - 1 \in 0 .. m)
        BY <3>2
      <4>2. a[k] = IF k = 0 THEN ref0.state ELSE Step(a[k - 1], k)
        BY <2>1, <4>1
      <4>3. QED
        BY <2>2, <4>1, <4>2
    <3>3. QED
      BY <3>1, <3>2
  <2>5. Is(m + 1, e)
    BY <2>3, <2>4
  <2> HIDE DEF Is
  <2>6. QED
    BY <2>5
<1>3. n \in S
  <2> HIDE DEF S
  <2>1. QED
    BY <1>1, <1>2, InductionOnSet
<1>4. block = F(block)
  <2>1. \E a : a = F(a)
    BY <1>3
  <2> HIDE DEF F
  <2>2. QED
    BY <2>1
<1> HIDE DEF block
<1>6. block[0] = ref0.state /\ \A k \in 1 .. n : block[k] = Step(block[k - 1], k)
  BY <1>4
<1>7. EatsChunks(block, chunks, n)
  BY <1>6 DEF Step, EatsChunks
<1>8. QED
  BY <1>5, <1>6, <1>7

(* Flushing a line leads where absorbing it eagerly and permuting leads.   *)
LEMMA FlushMeets ==
  ASSUME NEW s, IsState(s), NEW line \in Seq(Elements), NEW t, NEW i \in 0 .. Rate,
         Laid(s, line, t, i, <<>>), i = 0 <=> line = <<>>,
         NEW ref0, ref0.state = s, ref0.absorbing = line
  PROVE  RefFlush(ref0) = [state |-> Permuted(t), absorbing |-> <<>>, squeezed |-> 0]
<1>1. PICK b, q : /\ q \in Nat /\ Eaten(b, q, s, line)
                  /\ t = AddLine(b[q], line, End(Rate, q), i)
                  /\ Len(line) = End(Rate, q) + i + Len(<<>>)
  BY DEF Laid
<1>2. PICK a : a = End(Rate, q) /\ a \in Nat /\ Len(line) = a + i
  <2>1. End(Rate, q) \in Nat /\ Len(<<>>) = 0
    BY <1>1, Ends, RateAssumption
  <2>2. End(Rate, q) + i + 0 = End(Rate, q) + i
    BY <2>1, RateAssumption
  <2>3. QED
    BY <1>1, <2>1, <2>2
<1>3. RefFlush(ref0) = [state |-> RefFlush(ref0).state, absorbing |-> <<>>, squeezed |-> 0]
  <2>1. PICK x : RefFlush(ref0) = [state |-> x, absorbing |-> <<>>, squeezed |-> 0]
    BY DEF RefFlush
  <2>2. QED
    BY <2>1
<1>4. RefFlush(ref0).state = Permuted(t)
  <2>1. CASE line = <<>>
    <3>1. a = 0 /\ i = 0
      BY <1>2, <2>1
    <3>2. q = 0
      <4>1. SUFFICES ASSUME 0 < q PROVE FALSE
        BY <1>1
      <4>2. 0 \in Nat /\ End(Rate, 0) + Rate <= End(Rate, q) /\ End(Rate, 0) = 0
        BY <1>1, <4>1, EndsApart, Ends, RateAssumption
      <4>3. QED
        BY <1>2, <3>1, <4>2, RateAssumption
    <3>3. b[q] = s
      BY <1>1, <3>2 DEF Eaten
    <3>4. t = s
      BY <1>1, <1>2, <3>1, <3>3, AddNothing
    <3>5. QED
      BY <2>1, <3>4 DEF RefFlush
  <2>2. CASE line # <<>>
    <3>1. i \in 1 .. Rate /\ i \in Nat
      BY <2>2, RateAssumption
    <3>2. PICK chunks, p : chunks = Chunks(line) /\ p = q + 1 /\ p \in Nat
      BY <1>1
    <3>3. /\ Len(chunks) = p
          /\ \A k \in 1 .. q :
               /\ Len(chunks[k]) = Rate
               /\ \A j \in 1 .. Rate : chunks[k][j] = line[End(Rate, k - 1) + j]
          /\ Len(chunks[p]) = i
          /\ \A j \in 1 .. i : chunks[p][j] = line[a + j]
      <4>1. Len(line) = End(Rate, q) + i /\ q \in Nat
        BY <1>1, <1>2
      <4>2. /\ Len(Chunks(line)) = q + 1
            /\ \A k \in 1 .. q :
                 /\ Len(Chunks(line)[k]) = Rate
                 /\ \A j \in 1 .. Rate : Chunks(line)[k][j] = line[End(Rate, k - 1) + j]
            /\ Len(Chunks(line)[q + 1]) = i
            /\ \A j \in 1 .. i : Chunks(line)[q + 1][j] = line[End(Rate, q) + j]
        BY <3>1, <4>1, ChunkFacts
      <4>3. QED
        BY <1>2, <3>2, <4>2
    <3>4. PICK e : /\ e[0] = s
                   /\ EatsChunks(e, chunks, p)
                   /\ RefFlush(ref0).state = e[p]
      <4>1. /\ chunks = Chunks(ref0.absorbing) /\ p = Len(chunks) /\ p \in Nat
            /\ ref0.absorbing # <<>>
        BY <2>2, <3>2, <3>3
      <4>2. QED
        BY <4>1, FlushBlocks
    <3>5. ASSUME NEW u, IsState(u), NEW d \in Nat, NEW n \in Nat, NEW c,
                 Lies(c, n, line, d)
          PROVE  AddRange(u, 0, n, c) = AddLine(u, line, d, n)
      <4>1. d + 0 = d /\ 0 \in Nat /\ Lies(c, n, line, d + 0)
        BY <3>5
      <4>2. AddRange(AddLine(u, line, d, 0), 0, n, c) = AddLine(u, line, d, 0 + n)
        BY <4>1, AddMore
      <4>3. AddLine(u, line, d, 0) = u /\ 0 + n = n
        BY <3>5, AddNothing
      <4>4. QED
        BY <4>2, <4>3
    <3> DEFINE S == {k \in Nat : k <= q => e[k] = b[k] /\ IsState(e[k])}
    <3>6. 0 \in S
      BY <1>1, <3>4 DEF Eaten
    <3>7. ASSUME NEW m \in Nat, m \in S PROVE m + 1 \in S
      <4> SUFFICES ASSUME m + 1 <= q PROVE e[m + 1] = b[m + 1] /\ IsState(e[m + 1])
        OBVIOUS
      <4>1. PICK k, d, c : k = m + 1 /\ d = End(Rate, m) /\ c = chunks[k]
        OBVIOUS
      <4>2. k \in 1 .. q /\ k \in 1 .. p /\ k - 1 = m /\ d \in Nat /\ m <= q
        <5>1. End(Rate, m) \in Nat
          BY Ends, RateAssumption
        <5>2. QED
          BY <1>1, <3>2, <4>1, <5>1
      <4>3. PICK u : u = e[m] /\ u = b[m] /\ IsState(u)
        BY <3>7, <4>2
      <4>4. e[k] = Permuted(AddRange(u, 0, Rate, c))
        <5>1. e[k] = Permuted(AddRange(e[k - 1], 0, Len(chunks[k]), chunks[k]))
          BY <3>4, <4>2 DEF EatsChunks
        <5>2. Len(chunks[k]) = Rate
          BY <3>3, <4>2
        <5>3. QED
          BY <4>1, <4>2, <4>3, <5>1, <5>2
      <4>5. Lies(c, Rate, line, d)
        BY <3>3, <4>1, <4>2 DEF Lies
      <4>6. AddRange(u, 0, Rate, c) = AddLine(u, line, d, Rate)
        <5>1. d \in Nat /\ Rate \in Nat /\ IsState(u)
          BY <4>2, <4>3, RateAssumption
        <5>2. QED
          BY <3>5, <4>5, <5>1
      <4>7. b[k] = Permuted(AddLine(u, line, d, Rate))
        BY <1>1, <4>1, <4>2, <4>3 DEF Eaten
      <4>8. QED
        BY <4>1, <4>4, <4>6, <4>7, States
    <3>8. q \in S
      <4> HIDE DEF S
      <4>1. QED
        BY <1>1, <3>6, <3>7, InductionOnSet
    <3>9. PICK u, c : u = e[q] /\ u = b[q] /\ IsState(u) /\ c = chunks[p]
      BY <1>1, <3>8
    <3>10. e[p] = Permuted(AddRange(u, 0, i, c))
      <4>1. p \in 1 .. p /\ p - 1 = q
        BY <1>1, <3>2
      <4>2. QED
        BY <3>3, <3>4, <3>9, <4>1 DEF EatsChunks
    <3>11. AddRange(u, 0, i, c) = AddLine(u, line, a, i)
      <4>1. Lies(c, i, line, a)
        BY <3>3, <3>9 DEF Lies
      <4>2. a \in Nat /\ i \in Nat /\ IsState(u)
        BY <1>2, <3>1, <3>9
      <4>3. QED
        BY <3>5, <4>1, <4>2
    <3>12. QED
      BY <1>1, <1>2, <3>4, <3>9, <3>10, <3>11
  <2>3. QED
    BY <2>1, <2>2
<1>5. QED
  BY <1>3, <1>4

-----------------------------------------------------------------------------
(* The turns of the reference's output loop.                               *)
Turns(t, n) == \A k \in 1 .. n : t[k] = RefSqueezeOne(t[k - 1])

LEMMA TurnsExist ==
  ASSUME NEW ref0, NEW n \in Nat,
         NEW ready, ready = IF ref0.squeezed = None THEN RefFlush(ref0)
                            ELSE IF n = 0 THEN RefSqueezeNothing(ref0) ELSE ref0
  PROVE  \E t : /\ t[0] = [ref |-> ready, out |-> <<>>]
                /\ Turns(t, n)
                /\ RefSqueeze(ref0, n) = t[n]
<1> DEFINE first == [ref |-> ready, out |-> <<>>]
           Is(m, t) == t = [k \in 0 .. m |-> IF k = 0 THEN first ELSE RefSqueezeOne(t[k - 1])]
           F(t) == [k \in 0 .. n |-> IF k = 0 THEN first ELSE RefSqueezeOne(t[k - 1])]
           turn == CHOOSE t : t = F(t)
           S == {m \in Nat : \E t : Is(m, t)}
<1>5. RefSqueeze(ref0, n) = turn[n]
  BY Zenon DEF RefSqueeze
<1> HIDE DEF first
<1>1. 0 \in S
  <2>1. Is(0, [k \in 0 .. 0 |-> first])
    OBVIOUS
  <2> HIDE DEF Is
  <2>2. QED
    BY <2>1
<1>2. ASSUME NEW m \in Nat, m \in S PROVE m + 1 \in S
  <2>1. PICK a : Is(m, a)
    BY <1>2
  <2> DEFINE e == [k \in 0 .. (m + 1) |-> IF k = m + 1 THEN RefSqueezeOne(a[m]) ELSE a[k]]
  <2>2. \A k \in 0 .. m : e[k] = a[k]
    OBVIOUS
  <2>3. e[m + 1] = RefSqueezeOne(e[m + 1 - 1]) /\ e = [k \in 0 .. (m + 1) |-> e[k]]
    OBVIOUS
  <2> HIDE DEF e
  <2>4. ASSUME NEW k \in 0 .. (m + 1)
        PROVE  e[k] = IF k = 0 THEN first ELSE RefSqueezeOne(e[k - 1])
    <3>1. CASE k = m + 1
      BY <2>3, <3>1
    <3>2. CASE k # m + 1
      <4>1. k \in 0 .. m /\ (k # 0 => k - 1 \in 0 .. m)
        BY <3>2
      <4>2. a[k] = IF k = 0 THEN first ELSE RefSqueezeOne(a[k - 1])
        BY <2>1, <4>1
      <4>3. QED
        BY <2>2, <4>1, <4>2
    <3>3. QED
      BY <3>1, <3>2
  <2>5. Is(m + 1, e)
    BY <2>3, <2>4
  <2> HIDE DEF Is
  <2>6. QED
    BY <2>5
<1>3. n \in S
  <2> HIDE DEF S
  <2>1. QED
    BY <1>1, <1>2, InductionOnSet
<1>4. turn = F(turn)
  <2>1. \E a : a = F(a)
    BY <1>3
  <2> HIDE DEF F
  <2>2. QED
    BY <2>1
<1> HIDE DEF turn
<1>6. turn[0] = first /\ \A k \in 1 .. n : turn[k] = RefSqueezeOne(turn[k - 1])
  BY <1>4
<1>7. QED
  BY <1>5, <1>6 DEF first, Turns

(* One more cell of a block.                                               *)
IsNext(i, n, m, l) == n \in Nat /\ m = n + 1 /\ l = Capacity + i + m - 1

Longer(o, c) == Append(o, c)
Given(o, s, i, n) == o \o ReadRange(s, i, n)

LEMMA ReadNext ==
  ASSUME NEW o, IsSeq(o), NEW s, NEW i, NEW n, NEW m, NEW l, IsNext(i, n, m, l)
  PROVE  Longer(Given(o, s, i, n), s[l]) = Given(o, s, i, m)
<1> n \in Nat /\ m = n + 1 /\ l = Capacity + i + m - 1
  BY DEF IsNext
<1>1. PICK Z : o \in Seq(Z)
  BY DEF IsSeq
<1>2. PICK c, r, u : c = s[l] /\ r = ReadRange(s, i, n) /\ u = ReadRange(s, i, m)
  OBVIOUS
<1> DEFINE Y == Z \cup {u[j] : j \in 1 .. m}
<1>3. m \in Nat /\ \A j \in 1 .. n : j \in 1 .. m
  OBVIOUS
<1>4. \A j \in 1 .. m : u[j] = s[Capacity + i + j - 1] /\ u[j] \in Y
  BY <1>2 DEF ReadRange
<1>5. r = [j \in 1 .. n |-> u[j]] /\ u = [j \in 1 .. m |-> u[j]]
  BY <1>2, <1>3 DEF ReadRange
<1>6. c = u[m]
  <2>1. m \in 1 .. m
    BY <1>3
  <2>2. u[m] = s[Capacity + i + m - 1]
    BY <1>4, <2>1
  <2>3. QED
    BY <1>2, <2>2
<1>7. o \in Seq(Y)
  BY <1>1
<1> HIDE DEF Y
<1>8. r \in Seq(Y) /\ Len(r) = n /\ u \in Seq(Y) /\ Len(u) = m /\ c \in Y
  <2>1. u \in [1 .. m -> Y] /\ r \in [1 .. n -> Y]
    BY <1>3, <1>4, <1>5
  <2>2. u \in Seq(Y) /\ Len(u) = m
    BY <1>3, <1>5, <2>1
  <2>3. r \in Seq(Y) /\ Len(r) = n
    BY <1>5, <2>1
  <2>4. m \in 1 .. m
    BY <1>3
  <2>5. QED
    BY <1>4, <1>6, <2>2, <2>3, <2>4
<1>9. Append(r, c) = u
  <2>1. /\ Append(r, c) \in Seq(Y) /\ Len(Append(r, c)) = n + 1
        /\ \A j \in 1 .. n : Append(r, c)[j] = r[j]
        /\ Append(r, c)[n + 1] = c
    BY <1>8, AppendProperties
  <2>2. Len(Append(r, c)) = Len(u)
    BY <1>8, <2>1
  <2>3. ASSUME NEW j \in 1 .. m PROVE Append(r, c)[j] = u[j]
    <3>1. CASE j = m
      BY <1>6, <2>1, <3>1
    <3>2. CASE j # m
      <4>1. j \in 1 .. n
        BY <1>3, <3>2
      <4>2. r[j] = u[j]
        BY <1>5, <4>1
      <4>3. QED
        BY <2>1, <4>1, <4>2
    <3>3. QED
      BY <3>1, <3>2
  <2>4. \A j \in 1 .. Len(Append(r, c)) : Append(r, c)[j] = u[j]
    BY <1>8, <2>2, <2>3
  <2>5. QED
    BY <1>8, <2>1, <2>2, <2>4, SeqEqual
<1>10. Append(o \o r, c) = o \o Append(r, c)
  <2>1. Append(r, c) = r \o <<c>>
    BY <1>8, AppendIsConcat
  <2>2. o \o r \in Seq(Y)
    BY <1>7, <1>8
  <2>3. Append(o \o r, c) = (o \o r) \o <<c>>
    BY <1>8, <2>2, AppendIsConcat
  <2>4. (o \o r) \o <<c>> = o \o (r \o <<c>>)
    <3>1. o \in Seq(Y) /\ r \in Seq(Y) /\ <<c>> \in Seq(Y)
      BY <1>7, <1>8
    <3>2. QED
      BY <3>1, ConcatAssociative
  <2>5. QED
    BY <2>1, <2>3, <2>4
<1>11. QED
  BY <1>2, <1>9, <1>10 DEF Longer, Given

LEMMA ReadNone ==
  ASSUME NEW o, IsSeq(o), NEW s, NEW i
  PROVE  o \o ReadRange(s, i, 0) = o
<1>1. PICK Z : o \in Seq(Z)
  BY DEF IsSeq
<1>2. PICK r : r = ReadRange(s, i, 0)
  OBVIOUS
<1>3. r = [j \in 1 .. 0 |-> r[j]]
  BY <1>2 DEF ReadRange
<1>4. r \in Seq({}) /\ Len(r) = 0
  BY <1>3
<1>5. r = <<>>
  BY <1>4, EmptySeq
<1>6. QED
  BY <1>1, <1>2, <1>5, ConcatEmptySeq

-----------------------------------------------------------------------------
(* A reference that has given x elements.                                  *)
Counting(a, x) == [state |-> a, absorbing |-> <<>>, squeezed |-> x]

(* It has state a, the sponge state s, of which it will give cell i next:  *)
(* the sponge has permuted if it saw that it would have to.                *)
Standing(a, x, s, i) ==
  \E p \in Nat :
    \/ x = End(Rate, p) + i /\ a = s /\ (i = 0 => p = 0)
    \/ x = End(Rate, p) + Rate /\ i = 0 /\ s = Permuted(a)

Due(a, x, s, i) ==
  /\ x \in Nat /\ i \in 0 .. (Rate - 1) /\ x % Rate = i
  /\ s = IF x # 0 /\ i = 0 THEN Permuted(a) ELSE a

Turned(c, o) == [ref |-> c, out |-> o]

LEMMA OneGiven ==
  ASSUME NEW a, NEW x, NEW o, NEW s, NEW i, Due(a, x, s, i)
  PROVE  RefSqueezeOne(Turned(Counting(a, x), o))
           = Turned(Counting(s, x + 1), Longer(o, s[Capacity + i]))
<1> SUFFICES ASSUME x \in Nat, i \in 0 .. (Rate - 1), x % Rate = i,
                    s = IF x # 0 /\ i = 0 THEN Permuted(a) ELSE a
             PROVE  RefSqueezeOne([ref |-> Counting(a, x), out |-> o])
                      = [ref |-> Counting(s, x + 1), out |-> Append(o, s[Capacity + i])]
  BY DEF Due, Turned, Longer
<1>1. PICK acc, c : acc = [ref |-> c, out |-> o] /\ c = Counting(a, x)
  OBVIOUS
<1>2. acc.ref = c /\ acc.out = o /\ c.squeezed = x /\ c.state = a
  BY <1>1 DEF Counting
<1>3. (IF c.squeezed # 0 /\ c.squeezed % Rate = 0 THEN Permuted(c.state) ELSE c.state) = s
  BY <1>2
<1>4. RefSqueezeOne(acc) = [ref |-> [c EXCEPT !.state = s, !.squeezed = @ + 1],
                            out |-> Append(o, s[Capacity + (x % Rate)])]
  BY <1>2, <1>3 DEF RefSqueezeOne
<1>5. [c EXCEPT !.state = s, !.squeezed = @ + 1] = Counting(s, x + 1)
  <2>1. PICK y : y = x + 1
    OBVIOUS
  <2>2. [c EXCEPT !.state = s, !.squeezed = @ + 1] = [c EXCEPT !.state = s, !.squeezed = y]
    BY <1>2, <2>1
  <2>3. c = [state |-> a, absorbing |-> <<>>, squeezed |-> x]
    BY <1>1 DEF Counting
  <2>4. [c EXCEPT !.state = s, !.squeezed = y] = [state |-> s, absorbing |-> <<>>, squeezed |-> y]
    <3>1. PICK b : b = [c EXCEPT !.state = s, !.squeezed = y]
      OBVIOUS
    <3>2. DOMAIN c = {"state", "absorbing", "squeezed"}
      BY <2>3
    <3>3. /\ b = [f \in {"state", "absorbing", "squeezed"} |-> b[f]]
          /\ b.state = s /\ b.squeezed = y /\ b.absorbing = c.absorbing
      BY <3>1, <3>2
    <3>4. c.absorbing = <<>>
      BY <2>3
    <3>5. b = [state |-> b.state, absorbing |-> b.absorbing, squeezed |-> b.squeezed]
      BY <3>3
    <3>6. QED
      BY <3>1, <3>3, <3>4, <3>5
  <2>5. QED
    BY <2>1, <2>2, <2>4 DEF Counting
<1>6. RefSqueezeOne(acc) = [ref |-> Counting(s, x + 1), out |-> Append(o, s[Capacity + i])]
  BY <1>4, <1>5
<1>7. acc = [ref |-> Counting(a, x), out |-> o]
  BY <1>1
<1>8. QED
  BY <1>6, <1>7

LEMMA PlaceOf ==
  ASSUME NEW r \in Nat, NEW i \in 0 .. (Rate - 1), NEW x \in Nat, x = End(Rate, r) + i
  PROVE  x % Rate = i
<1>1. Rate \in Nat /\ Rate >= 1 /\ i \in Nat /\ i < Rate
  BY RateAssumption
<1>2. Place(Rate, x) = i
  BY <1>1, PlaceFound
<1>3. QED
  BY <1>2 DEF Place

LEMMA StandingFacts ==
  ASSUME NEW a, NEW x, NEW s, NEW i \in 0 .. (Rate - 1), Standing(a, x, s, i)
  PROVE  /\ x \in Nat
         /\ \E r \in Nat : x = End(Rate, r) + i
         /\ s = IF x # 0 /\ i = 0 THEN Permuted(a) ELSE a
<1>1. PICK p \in Nat :
        \/ x = End(Rate, p) + i /\ a = s /\ (i = 0 => p = 0)
        \/ x = End(Rate, p) + Rate /\ i = 0 /\ s = Permuted(a)
  BY DEF Standing
<1>2. /\ End(Rate, p) \in Nat /\ End(Rate, p + 1) = End(Rate, p) + Rate
      /\ End(Rate, 0) = 0 /\ p + 1 \in Nat
  <2>1. Rate \in Nat /\ Rate >= 1 /\ p \in Nat /\ 0 \in Nat /\ p + 1 \in Nat
    BY RateAssumption
  <2>2. QED
    BY <2>1, Ends
<1>3. CASE x = End(Rate, p) + i /\ a = s /\ (i = 0 => p = 0)
  BY <1>2, <1>3, RateAssumption
<1>4. CASE x = End(Rate, p) + Rate /\ i = 0 /\ s = Permuted(a)
  <2>1. x = End(Rate, p + 1) + i /\ x # 0 /\ x \in Nat
    BY <1>2, <1>4, RateAssumption
  <2>2. QED
    BY <1>2, <1>4, <2>1
<1>5. QED
  BY <1>1, <1>3, <1>4

(* A turn of the sponge's loop gives what so many turns of the reference   *)
(* give.                                                                   *)
IsTurn(t, k, c, o) == t[k] = Turned(c, o)

Ahead(t, m, k, n, h) ==
  m \in Nat /\ Turns(t, m) /\ k \in Nat /\ n \in Nat /\ n >= 1 /\ h = k + n /\ h <= m

Fits(i, n) == i \in 0 .. (Rate - 1) /\ i + n <= Rate

LEMMA BlockGiven ==
  ASSUME NEW t, NEW m, NEW k, NEW n, NEW h, Ahead(t, m, k, n, h),
         NEW a, NEW x, NEW s, NEW i, Fits(i, n), Standing(a, x, s, i),
         NEW o, IsSeq(o), IsTurn(t, k, Counting(a, x), o)
  PROVE  IsTurn(t, h, Counting(s, x + n), Given(o, s, i, n))
<1> SUFFICES ASSUME m \in Nat, Turns(t, m), k \in Nat, n \in Nat, n >= 1, k + n <= m,
                    h = k + n, i \in 0 .. (Rate - 1), i + n <= Rate,
                    t[k] = [ref |-> Counting(a, x), out |-> o]
             PROVE  t[k + n] = [ref |-> Counting(s, x + n), out |-> o \o ReadRange(s, i, n)]
  BY DEF Ahead, Fits, IsTurn, Turned, Given
<1>1. /\ x \in Nat /\ \E r \in Nat : x = End(Rate, r) + i
      /\ s = IF x # 0 /\ i = 0 THEN Permuted(a) ELSE a
  BY StandingFacts
<1>2. PICK r \in Nat : x = End(Rate, r) + i
  BY <1>1
<1>3. Rate \in Nat /\ Rate >= 1 /\ i \in Nat /\ End(Rate, r) \in Nat
  <2>1. Rate \in Nat /\ Rate >= 1 /\ r \in Nat /\ i \in Nat
    BY <1>2, RateAssumption
  <2>2. QED
    BY <2>1, Ends
<1>9. ASSUME NEW z, NEW e, NEW l, IsNext(i, z, e, l)
       PROVE  Longer(Given(o, s, i, z), s[l]) = Given(o, s, i, e)
  BY <1>9, ReadNext
<1> DEFINE Then(j) == t[k + (j + 1)] = [ref |-> Counting(s, x + (j + 1)),
                                        out |-> o \o ReadRange(s, i, j + 1)]
           S == {j \in Nat : j + 1 <= n => Then(j)}
<1>4. 0 \in S
  <2>1. t[k + 1] = RefSqueezeOne(t[k])
    <3>1. k + 1 \in 1 .. m /\ k + 1 - 1 = k
      OBVIOUS
    <3>2. QED
      BY <3>1 DEF Turns
  <2>2. x % Rate = i
    BY <1>1, <1>2, PlaceOf
  <2>3. t[k + 1] = [ref |-> Counting(s, x + 1), out |-> Append(o, s[Capacity + i])]
    <3>1. Due(a, x, s, i)
      BY <1>1, <2>2 DEF Due
    <3>2. RefSqueezeOne(Turned(Counting(a, x), o))
            = Turned(Counting(s, x + 1), Longer(o, s[Capacity + i]))
      BY <3>1, OneGiven
    <3>3. t[k] = Turned(Counting(a, x), o)
      BY DEF Turned
    <3>4. t[k + 1] = Turned(Counting(s, x + 1), Longer(o, s[Capacity + i]))
      BY <2>1, <3>2, <3>3
    <3>5. QED
      BY <3>4 DEF Turned, Longer
  <2>4. Append(o, s[Capacity + i]) = o \o ReadRange(s, i, 1)
    <3>2. PICK z, e, l : z = 0 /\ e = 1 /\ l = Capacity + i
      OBVIOUS
    <3>3. IsNext(i, z, e, l)
      BY <1>3, <3>2, CapacityAssumption DEF IsNext
    <3>4. Longer(Given(o, s, i, z), s[l]) = Given(o, s, i, e)
      BY <1>9, <3>3
    <3>5. Given(o, s, i, 0) = o
      BY ReadNone DEF Given
    <3>6. Longer(o, s[l]) = Given(o, s, i, e)
      BY <3>2, <3>4, <3>5
    <3>7. QED
      BY <3>2, <3>6 DEF Longer, Given
  <2>5. k + (0 + 1) = k + 1 /\ x + (0 + 1) = x + 1 /\ 0 + 1 = 1
    BY <1>1
  <2>6. QED
    BY <2>3, <2>4, <2>5
<1>5. ASSUME NEW j \in Nat, j \in S PROVE j + 1 \in S
  <2> SUFFICES ASSUME j + 1 + 1 <= n PROVE Then(j + 1)
    OBVIOUS
  <2>1. PICK d, y, l, u : /\ d = j + 1 /\ y = x + d /\ l = i + d /\ u = k + d
                          /\ d \in Nat /\ y \in Nat /\ l \in 0 .. (Rate - 1)
                          /\ u + 1 \in 1 .. m /\ u + 1 - 1 = u
    <3>1. PICK d : d = j + 1 /\ d \in Nat /\ d + 1 <= n
      OBVIOUS
    <3>2. /\ x + d \in Nat /\ i + d \in 0 .. (Rate - 1) /\ k + d + 1 \in 1 .. m
          /\ k + d + 1 - 1 = k + d
      BY <1>1, <1>3, <3>1
    <3>3. QED
      BY <3>1, <3>2
  <2>2. t[u] = [ref |-> Counting(s, y), out |-> o \o ReadRange(s, i, d)]
    BY <1>5, <2>1
  <2>3. y = End(Rate, r) + l
    BY <1>1, <1>2, <1>3, <2>1
  <2>4. y % Rate = l
    BY <2>1, <2>3, PlaceOf
  <2>5. l # 0
    BY <1>3, <2>1
  <2>6. PICK e : e = o \o ReadRange(s, i, d)
    OBVIOUS
  <2>7. RefSqueezeOne([ref |-> Counting(s, y), out |-> e])
          = [ref |-> Counting(s, y + 1), out |-> Append(e, s[Capacity + l])]
    <3>1. Due(s, y, s, l)
      BY <2>1, <2>4, <2>5 DEF Due
    <3>2. RefSqueezeOne(Turned(Counting(s, y), e))
            = Turned(Counting(s, y + 1), Longer(e, s[Capacity + l]))
      BY <3>1, OneGiven
    <3>3. QED
      BY <3>2 DEF Turned, Longer
  <2>8. t[u + 1] = RefSqueezeOne(t[u])
    BY <2>1 DEF Turns
  <2>9. Append(e, s[Capacity + l]) = o \o ReadRange(s, i, d + 1)
    <3>1. PICK f, c : f = d + 1 /\ c = Capacity + l
      OBVIOUS
    <3>2. IsNext(i, d, f, c)
      BY <1>3, <2>1, <3>1, CapacityAssumption DEF IsNext
    <3>3. Longer(Given(o, s, i, d), s[c]) = Given(o, s, i, f)
      BY <1>9, <3>2
    <3>4. QED
      BY <2>6, <3>1, <3>3 DEF Longer, Given
  <2>10. u + 1 = k + (d + 1) /\ y + 1 = x + (d + 1)
    BY <1>1, <2>1
  <2>11. QED
    BY <2>1, <2>2, <2>6, <2>7, <2>8, <2>9, <2>10
<1>6. PICK j : j = n - 1 /\ j \in Nat /\ j + 1 = n
  <2>1. n - 1 \in Nat /\ n - 1 + 1 = n
    OBVIOUS
  <2>2. QED
    BY <2>1
<1>7. j \in S
  <2> HIDE DEF S
  <2>1. QED
    BY <1>4, <1>5, <1>6, InductionOnSet
<1>8. Then(j)
  BY <1>6, <1>7
<1>10. QED
  BY <1>6, <1>8

-----------------------------------------------------------------------------
(* How a reference r and a sponge with state s at index i stand to each    *)
(* other: between calls in either mode, while the sponge still absorbs     *)
(* rest, and while it still has to give n elements and has given o.  The   *)
(* reference is ahead then: it has answered with refOut already.           *)
Shape(r) ==
  /\ r = [state |-> r.state, absorbing |-> r.absorbing, squeezed |-> r.squeezed]
  /\ IsState(r.state)
  /\ r.absorbing \in Seq(Elements)

Resting(a, x, s, i) ==
  \E p \in Nat : x = End(Rate, p) + i /\ a = s /\ (i = 0 => p = 0)

MetAbsorbing(r, s, i) ==
  /\ Shape(r) /\ r.squeezed = None
  /\ Laid(r.state, r.absorbing, s, i, <<>>)
  /\ i = 0 <=> r.absorbing = <<>>

MetAbsorb(r, s, i, rest) ==
  /\ Shape(r) /\ r.squeezed = None
  /\ r.absorbing # <<>> /\ rest # <<>>
  /\ Laid(r.state, r.absorbing, s, i, rest)

MetSqueezing(r, s, i) ==
  \E x \in Nat : r = Counting(s, x) /\ Resting(s, x, s, i)

MetSqueeze(r, ro, s, i, n, o) ==
  /\ i \in 0 .. (Rate - 1)
  /\ IsSeq(o)
  /\ \E t, a, x : \E k \in Nat :
       /\ Turns(t, k + n)
       /\ t[k] = [ref |-> Counting(a, x), out |-> o]
       /\ t[k + n].ref = r /\ t[k + n].out = ro
       /\ Standing(a, x, s, i)
       /\ n = 0 => Resting(a, x, s, i)

LEMMA RefAbsorbs ==
  ASSUME NEW r, Shape(r), NEW elems \in Seq(Elements), elems # <<>>
  PROVE  /\ Shape(RefAbsorb(r, elems))
         /\ RefAbsorb(r, elems).state = r.state
         /\ RefAbsorb(r, elems).absorbing = r.absorbing \o elems
         /\ RefAbsorb(r, elems).squeezed = None
         /\ r.absorbing \o elems # <<>>
<1>1. PICK a, b, c : r = [state |-> a, absorbing |-> b, squeezed |-> c]
  BY DEF Shape
<1>2. r.state = a /\ r.absorbing = b /\ r.squeezed = c /\ IsState(a) /\ b \in Seq(Elements)
  BY <1>1 DEF Shape
<1>3. PICK w : w = b \o elems
  OBVIOUS
<1>4. w \in Seq(Elements) /\ w # <<>>
  <2>1. Len(b) \in Nat /\ Len(elems) \in Nat /\ Len(elems) # 0
    BY <1>2, EmptySeq
  <2>2. Len(b \o elems) = Len(b) + Len(elems)
    BY <1>2, ConcatProperties
  <2>3. Len(w) # 0 /\ w \in Seq(Elements)
    BY <1>2, <1>3, <2>1, <2>2
  <2>4. QED
    BY <2>3, EmptySeq
<1>5. PICK f : f = [r EXCEPT !.absorbing = w, !.squeezed = None]
  OBVIOUS
<1>6. RefAbsorb(r, elems) = f
  BY <1>2, <1>3, <1>5 DEF RefAbsorb
<1>7. DOMAIN r = {"state", "absorbing", "squeezed"}
  BY <1>1
<1>8. /\ f = [g \in {"state", "absorbing", "squeezed"} |-> f[g]]
      /\ f.state = r.state /\ f.squeezed = None /\ f.absorbing = w
  BY <1>5, <1>7
<1>9. f = [state |-> f.state, absorbing |-> f.absorbing, squeezed |-> f.squeezed]
  BY <1>8
<1>10. QED
  BY <1>2, <1>3, <1>4, <1>6, <1>8, <1>9 DEF Shape

(* absorb on top of what was absorbed.                                     *)
LEMMA MetEnterMore ==
  ASSUME NEW r, NEW s, NEW i \in 0 .. Rate, MetAbsorbing(r, s, i),
         NEW elems \in Seq(Elements), elems # <<>>
  PROVE  /\ i # Rate => MetAbsorb(RefAbsorb(r, elems), s, i, elems)
         /\ i = Rate => MetAbsorb(RefAbsorb(r, elems), Permuted(s), 0, elems)
<1>1. Shape(r) /\ Laid(r.state, r.absorbing, s, i, <<>>)
  BY DEF MetAbsorbing
<1>2. PICK a, line, q : a = r.state /\ line = r.absorbing /\ q = RefAbsorb(r, elems)
  OBVIOUS
<1>3. /\ Shape(q) /\ q.state = a /\ q.absorbing = line \o elems /\ q.squeezed = None
      /\ line \o elems # <<>> /\ line \in Seq(Elements)
  <2>1. /\ Shape(RefAbsorb(r, elems))
        /\ RefAbsorb(r, elems).state = r.state
        /\ RefAbsorb(r, elems).absorbing = r.absorbing \o elems
        /\ RefAbsorb(r, elems).squeezed = None
        /\ r.absorbing \o elems # <<>>
    BY <1>1, RefAbsorbs
  <2>2. QED
    BY <1>1, <1>2, <2>1 DEF Shape
<1>4. Laid(a, line \o elems, s, i, elems)
  <2>1. i \in Nat /\ Laid(a, line, s, i, <<>>)
    BY <1>1, <1>2, RateAssumption
  <2>2. QED
    BY <1>3, <2>1, LaidLonger
<1>5. ASSUME i # Rate PROVE MetAbsorb(q, s, i, elems)
  BY <1>3, <1>4 DEF MetAbsorb
<1>6. ASSUME i = Rate PROVE MetAbsorb(q, Permuted(s), 0, elems)
  <2>1. Laid(a, line \o elems, s, Rate, elems)
    BY <1>4, <1>6
  <2>2. Laid(a, line \o elems, Permuted(s), 0, elems)
    BY <2>1, LaidPermuted
  <2>3. QED
    BY <1>3, <2>2 DEF MetAbsorb
<1>7. QED
  BY <1>2, <1>5, <1>6

(* absorb after a squeeze.                                                 *)
LEMMA MetEnterAfter ==
  ASSUME NEW r, NEW s, IsState(s), NEW i, MetSqueezing(r, s, i),
         NEW elems \in Seq(Elements), elems # <<>>
  PROVE  MetAbsorb(RefAbsorb(r, elems), s, 0, elems)
<1>1. PICK x : r = [state |-> s, absorbing |-> <<>>, squeezed |-> x]
  BY DEF MetSqueezing, Counting
<1>2. r.state = s /\ r.absorbing = <<>> /\ r.squeezed = x /\ <<>> \in Seq(Elements)
  BY <1>1
<1>3. Shape(r)
  BY <1>1, <1>2 DEF Shape
<1>4. PICK q : q = RefAbsorb(r, elems)
  OBVIOUS
<1>5. Shape(q) /\ q.state = s /\ q.absorbing = elems /\ q.squeezed = None
  <2>1. /\ Shape(RefAbsorb(r, elems))
        /\ RefAbsorb(r, elems).state = r.state
        /\ RefAbsorb(r, elems).absorbing = r.absorbing \o elems
        /\ RefAbsorb(r, elems).squeezed = None
    BY <1>3, RefAbsorbs
  <2>2. <<>> \o elems = elems
    BY ConcatEmptySeq
  <2>3. QED
    BY <1>2, <1>4, <2>1, <2>2
<1>6. Laid(s, elems, s, 0, elems)
  BY LaidNone
<1>7. QED
  BY <1>4, <1>5, <1>6 DEF MetAbsorb

(* The turns of absorb_internal.                                           *)
LEMMA MetAbsorbTurn ==
  ASSUME NEW r, NEW s, NEW i \in 0 .. Rate, NEW rest \in Seq(Elements),
         MetAbsorb(r, s, i, rest), i + Len(rest) > Rate
  PROVE  MetAbsorb(r, Permuted(AddRange(s, i, Rate - i, rest)), 0,
                   SubSeq(rest, Rate - i + 1, Len(rest)))
<1>1. PICK n, e, u : /\ n = Rate - i /\ e = SubSeq(rest, n + 1, Len(rest))
                     /\ u = AddRange(s, i, n, rest)
  OBVIOUS
<1>2. i \in Nat /\ n \in 0 .. Len(rest) /\ i + n = Rate /\ n < Len(rest)
  BY <1>1, RateAssumption
<1>3. PICK a, line : a = r.state /\ line = r.absorbing /\ Laid(a, line, s, i, rest)
  BY DEF MetAbsorb
<1>4. Laid(a, line, u, Rate, e)
  <2>1. Laid(a, line, AddRange(s, i, n, rest), i + n, SubSeq(rest, n + 1, Len(rest)))
    BY <1>2, <1>3, LaidMore
  <2>2. QED
    BY <1>1, <1>2, <2>1
<1>5. e \in Seq(Elements) /\ e # <<>>
  <2>1. PICK l, m : l = Len(rest) /\ m = n + 1 /\ m \in 1 .. l /\ l \in Nat
    BY <1>2
  <2>2. m \in 1 .. (l + 1) /\ l \in m - 1 .. l
    BY <2>1
  <2>3. e \in Seq(Elements) /\ Len(e) = l - m + 1
    <3>1. /\ SubSeq(rest, m, l) \in Seq(Elements)
          /\ Len(SubSeq(rest, m, l)) = IF m <= l THEN l - m + 1 ELSE 0
      BY <2>1, <2>2, SubSeqProperties
    <3>2. QED
      BY <1>1, <2>1, <3>1
  <2>4. Len(e) # 0
    BY <2>1, <2>3
  <2>5. QED
    BY <2>3, <2>4, EmptySeq
<1>6. Laid(a, line, Permuted(u), 0, e)
  BY <1>4, <1>5, LaidPermuted
<1>7. MetAbsorb(r, Permuted(u), 0, e)
  BY <1>3, <1>5, <1>6 DEF MetAbsorb
<1>8. QED
  BY <1>1, <1>7

LEMMA MetAbsorbEnd ==
  ASSUME NEW r, NEW s, NEW i \in 0 .. Rate, NEW rest \in Seq(Elements),
         MetAbsorb(r, s, i, rest), i + Len(rest) <= Rate
  PROVE  MetAbsorbing(r, AddRange(s, i, Len(rest), rest), i + Len(rest))
<1>1. PICK n, u : n = Len(rest) /\ n \in Nat /\ u = AddRange(s, i, n, rest)
  OBVIOUS
<1>2. i \in Nat /\ n \in 0 .. Len(rest)
  BY <1>1, RateAssumption
<1>3. PICK a, line : a = r.state /\ line = r.absorbing /\ Laid(a, line, s, i, rest)
  BY DEF MetAbsorb
<1>4. Laid(a, line, u, i + n, SubSeq(rest, n + 1, n))
  <2>1. Laid(a, line, AddRange(s, i, n, rest), i + n, SubSeq(rest, n + 1, Len(rest)))
    BY <1>2, <1>3, LaidMore
  <2>2. QED
    BY <1>1, <2>1
<1>5. SubSeq(rest, n + 1, n) = <<>>
  <2>1. n + 1 \in Int /\ n \in Int /\ n < n + 1
    BY <1>1
  <2>2. QED
    BY <2>1, SubSeqEmpty
<1>6. i + n # 0
  <2>1. Len(rest) # 0
    BY EmptySeq DEF MetAbsorb
  <2>2. QED
    BY <1>1, <1>2, <2>1
<1>7. MetAbsorbing(r, u, i + n)
  BY <1>3, <1>4, <1>5, <1>6 DEF MetAbsorb, MetAbsorbing
<1>8. QED
  BY <1>1, <1>7

(* A squeeze that starts on a block the reference has come to.             *)
LEMMA MetGive ==
  ASSUME NEW q, NEW n \in Nat, NEW a, NEW x, NEW s, NEW i \in 0 .. (Rate - 1),
         Counting(a, x) = IF q.squeezed = None THEN RefFlush(q)
                          ELSE IF n = 0 THEN RefSqueezeNothing(q) ELSE q,
         Standing(a, x, s, i), n = 0 => Resting(a, x, s, i)
  PROVE  MetSqueeze(RefSqueeze(q, n).ref, RefSqueeze(q, n).out, s, i, n, <<>>)
<1>1. PICK c : c = Counting(a, x)
  OBVIOUS
<1>2. PICK t : /\ t[0] = [ref |-> c, out |-> <<>>]
               /\ Turns(t, n)
               /\ RefSqueeze(q, n) = t[n]
  BY <1>1, TurnsExist
<1>3. PICK k : k = 0 /\ k \in Nat /\ k + n = n
  OBVIOUS
<1>4. PICK g : g = RefSqueeze(q, n)
  OBVIOUS
<1>5. /\ Turns(t, k + n) /\ t[k] = [ref |-> Counting(a, x), out |-> <<>>]
      /\ t[k + n].ref = g.ref /\ t[k + n].out = g.out
  BY <1>1, <1>2, <1>3, <1>4
<1>6. MetSqueeze(g.ref, g.out, s, i, n, <<>>)
  BY <1>3, <1>5, NothingGiven DEF MetSqueeze
<1>7. QED
  BY <1>4, <1>6

(* squeeze_native_field_elements while absorbing.                          *)
LEMMA MetFlush ==
  ASSUME NEW r, NEW s, NEW i \in 0 .. Rate, MetAbsorbing(r, s, i), NEW n \in Nat
  PROVE  MetSqueeze(RefSqueeze(r, n).ref, RefSqueeze(r, n).out, Permuted(s), 0, n, <<>>)
<1>1. PICK a, line : a = r.state /\ line = r.absorbing
  OBVIOUS
<1>2. /\ IsState(a) /\ line \in Seq(Elements) /\ r.squeezed = None
      /\ Laid(a, line, s, i, <<>>) /\ (i = 0 <=> line = <<>>)
  BY <1>1 DEF MetAbsorbing, Shape
<1>3. RefFlush(r) = Counting(Permuted(s), 0)
  BY <1>1, <1>2, FlushMeets DEF Counting
<1>4. PICK z, p : z = 0 /\ p = Permuted(s)
  OBVIOUS
<1>5. Resting(p, z, p, 0)
  <2>1. 0 \in Nat /\ Rate \in Nat
    BY RateAssumption
  <2>2. End(Rate, 0) = 0
    BY <2>1, Ends
  <2>3. z = End(Rate, 0) + 0
    BY <1>4, <2>2
  <2>4. QED
    BY <2>1, <2>3 DEF Resting
<1>6. Standing(p, z, p, 0)
  BY <1>5 DEF Resting, Standing
<1>7. 0 \in 0 .. (Rate - 1)
  BY RateAssumption
<1>8. Counting(p, z) = IF r.squeezed = None THEN RefFlush(r)
                       ELSE IF n = 0 THEN RefSqueezeNothing(r) ELSE r
  BY <1>2, <1>3, <1>4
<1>9. MetSqueeze(RefSqueeze(r, n).ref, RefSqueeze(r, n).out, p, 0, n, <<>>)
  BY <1>5, <1>6, <1>7, <1>8, MetGive
<1>10. QED
  BY <1>4, <1>9

(* squeeze_native_field_elements while squeezing.                          *)
LEMMA MetGoOn ==
  ASSUME NEW r, NEW s, NEW i \in 0 .. Rate, MetSqueezing(r, s, i), NEW n \in Nat
  PROVE  /\ i # Rate =>
              MetSqueeze(RefSqueeze(r, n).ref, RefSqueeze(r, n).out, s, i, n, <<>>)
         /\ i = Rate =>
              MetSqueeze(RefSqueeze(r, n).ref, RefSqueeze(r, n).out, Permuted(s), 0, n, <<>>)
<1>1. PICK x \in Nat : r = Counting(s, x) /\ Resting(s, x, s, i)
  BY DEF MetSqueezing
<1>2. PICK p \in Nat : x = End(Rate, p) + i /\ (i = 0 => p = 0)
  BY <1>1 DEF Resting
<1>3. r.state = s /\ r.squeezed = x /\ r.squeezed # None
  BY <1>1, NoneAssumption DEF Counting
<1>4. /\ End(Rate, p) \in Nat /\ End(Rate, p + 1) = End(Rate, p) + Rate
      /\ End(Rate, 0) = 0 /\ p + 1 \in Nat /\ Rate \in Nat /\ Rate >= 1
  <2>1. Rate \in Nat /\ Rate >= 1 /\ p \in Nat /\ 0 \in Nat /\ p + 1 \in Nat
    BY RateAssumption
  <2>2. QED
    BY <2>1, Ends
<1>5. ASSUME NEW q, q = IF n = 0 THEN RefSqueezeNothing(r) ELSE r
      PROVE  q = IF r.squeezed = None THEN RefFlush(r)
                 ELSE IF n = 0 THEN RefSqueezeNothing(r) ELSE r
  BY <1>3, <1>5
<1>6. ASSUME i # Rate
      PROVE  MetSqueeze(RefSqueeze(r, n).ref, RefSqueeze(r, n).out, s, i, n, <<>>)
  <2>1. i \in 0 .. (Rate - 1)
    BY <1>4, <1>6
  <2>2. x % Rate = i
    BY <1>2, <2>1, PlaceOf
  <2>3. ~ (x # 0 /\ i = 0)
    BY <1>2, <1>4
  <2>4. RefSqueezeNothing(r) = r
    BY <1>3, <2>2, <2>3 DEF RefSqueezeNothing
  <2>5. Counting(s, x) = IF n = 0 THEN RefSqueezeNothing(r) ELSE r
    BY <1>1, <2>4
  <2>6. Counting(s, x) = IF r.squeezed = None THEN RefFlush(r)
                         ELSE IF n = 0 THEN RefSqueezeNothing(r) ELSE r
    BY <1>5, <2>5
  <2>7. Standing(s, x, s, i)
    BY <1>2 DEF Standing
  <2>8. QED
    BY <1>1, <2>1, <2>6, <2>7, MetGive
<1>7. ASSUME i = Rate
      PROVE  MetSqueeze(RefSqueeze(r, n).ref, RefSqueeze(r, n).out, Permuted(s), 0, n, <<>>)
  <2>1. x = End(Rate, p) + Rate /\ x = End(Rate, p + 1) + 0 /\ x # 0 /\ 0 \in 0 .. (Rate - 1)
    BY <1>2, <1>4, <1>7
  <2>2. PICK e : e = Permuted(s)
    OBVIOUS
  <2>3. CASE n = 0
    <3>1. x % Rate = 0
      BY <1>4, <2>1, PlaceOf
    <3>2. PICK f : f = [r EXCEPT !.state = e, !.squeezed = 0]
      OBVIOUS
    <3>3. RefSqueezeNothing(r) = f
      BY <1>3, <2>1, <2>2, <3>1, <3>2 DEF RefSqueezeNothing
    <3>4. r = [state |-> s, absorbing |-> <<>>, squeezed |-> x]
      BY <1>1 DEF Counting
    <3>5. DOMAIN r = {"state", "absorbing", "squeezed"} /\ r.absorbing = <<>>
      BY <3>4
    <3>6. /\ f = [g \in {"state", "absorbing", "squeezed"} |-> f[g]]
          /\ f.state = e /\ f.squeezed = 0 /\ f.absorbing = <<>>
      BY <3>2, <3>5
    <3>7. f = [state |-> f.state, absorbing |-> f.absorbing, squeezed |-> f.squeezed]
      BY <3>6
    <3>8. f = Counting(e, 0)
      BY <3>6, <3>7 DEF Counting
    <3>9. PICK z : z = 0
      OBVIOUS
    <3>10. Counting(e, z) = IF r.squeezed = None THEN RefFlush(r)
                            ELSE IF n = 0 THEN RefSqueezeNothing(r) ELSE r
      BY <1>3, <2>3, <3>3, <3>8, <3>9
    <3>11. Resting(e, z, e, 0)
      <4>1. z = End(Rate, 0) + 0 /\ 0 \in Nat
        BY <1>4, <3>9
      <4>2. QED
        BY <4>1 DEF Resting
    <3>12. Standing(e, z, e, 0)
      BY <3>11 DEF Resting, Standing
    <3>13. MetSqueeze(RefSqueeze(r, n).ref, RefSqueeze(r, n).out, e, 0, n, <<>>)
      BY <2>1, <3>10, <3>11, <3>12, MetGive
    <3>14. QED
      BY <2>2, <3>13
  <2>4. CASE n # 0
    <3>1. Standing(s, x, e, 0)
      BY <2>1, <2>2 DEF Standing
    <3>2. Counting(s, x) = IF r.squeezed = None THEN RefFlush(r)
                           ELSE IF n = 0 THEN RefSqueezeNothing(r) ELSE r
      BY <1>1, <1>3, <2>4
    <3>3. n = 0 => Resting(s, x, e, 0)
      BY <2>4
    <3>4. MetSqueeze(RefSqueeze(r, n).ref, RefSqueeze(r, n).out, e, 0, n, <<>>)
      BY <2>1, <3>1, <3>2, <3>3, MetGive
    <3>5. QED
      BY <2>2, <3>4
  <2>5. QED
    BY <2>3, <2>4
<1>8. QED
  BY <1>6, <1>7

(* The turns of squeeze_internal.                                          *)
LEMMA MetSqueezeTurn ==
  ASSUME NEW r, NEW ro, NEW s, NEW i, NEW n \in Nat, NEW o,
         MetSqueeze(r, ro, s, i, n, o), i + n > Rate
  PROVE  MetSqueeze(r, ro, Permuted(s), 0, n - (Rate - i), o \o ReadRange(s, i, Rate - i))
<1>1. PICK t, a, x : \E k \in Nat :
        /\ Turns(t, k + n) /\ t[k] = [ref |-> Counting(a, x), out |-> o]
        /\ t[k + n].ref = r /\ t[k + n].out = ro /\ Standing(a, x, s, i)
  BY DEF MetSqueeze
<1>2. PICK k \in Nat :
        /\ Turns(t, k + n) /\ t[k] = [ref |-> Counting(a, x), out |-> o]
        /\ t[k + n].ref = r /\ t[k + n].out = ro /\ Standing(a, x, s, i)
  BY <1>1
<1>3. i \in 0 .. (Rate - 1) /\ IsSeq(o) /\ Rate \in Nat /\ Rate >= 1
  BY RateAssumption DEF MetSqueeze
<1>4. PICK d, l, m, e : /\ d = Rate - i /\ l = k + d /\ m = n - d
                        /\ e = o \o ReadRange(s, i, d)
  OBVIOUS
<1>5. /\ d \in Nat /\ d >= 1 /\ l \in Nat /\ m \in Nat /\ m # 0
      /\ l + m = k + n /\ l <= k + n /\ i + d = Rate /\ i + d <= Rate
  BY <1>3, <1>4
<1>6. x \in Nat /\ \E q \in Nat : x = End(Rate, q) + i
  BY <1>2, <1>3, StandingFacts
<1>7. PICK q \in Nat : x = End(Rate, q) + i
  BY <1>6
<1>8. t[l] = [ref |-> Counting(s, x + d), out |-> e]
  <2>1. PICK h : h = k + n /\ h \in Nat /\ Turns(t, h)
    BY <1>2
  <2>2. Ahead(t, h, k, d, l)
    BY <1>4, <1>5, <2>1 DEF Ahead
  <2>3. Fits(i, d) /\ Standing(a, x, s, i) /\ IsSeq(o) /\ IsTurn(t, k, Counting(a, x), o)
    BY <1>2, <1>3, <1>5 DEF Fits, IsTurn, Turned
  <2>4. IsTurn(t, l, Counting(s, x + d), Given(o, s, i, d))
    BY <2>2, <2>3, BlockGiven
  <2>5. QED
    BY <1>4, <2>4 DEF IsTurn, Turned, Given
<1>9. PICK y : y = x + d
  OBVIOUS
<1>10. Standing(s, y, Permuted(s), 0)
  <2>1. End(Rate, q) \in Nat
    BY <1>3, Ends
  <2>2. y = End(Rate, q) + Rate
    BY <1>3, <1>5, <1>7, <1>9, <2>1
  <2>3. QED
    BY <2>2 DEF Standing
<1>11. IsSeq(e)
  BY <1>3, <1>4, <1>5, ReadMore
<1>12. 0 \in 0 .. (Rate - 1)
  BY <1>3
<1>13. Turns(t, l + m) /\ t[l + m].ref = r /\ t[l + m].out = ro
  BY <1>2, <1>5
<1>14. t[l] = [ref |-> Counting(s, y), out |-> e]
  BY <1>8, <1>9
<1>15. MetSqueeze(r, ro, Permuted(s), 0, m, e)
  BY <1>5, <1>10, <1>11, <1>12, <1>13, <1>14 DEF MetSqueeze
<1>16. QED
  BY <1>4, <1>15

LEMMA MetSqueezeEnd ==
  ASSUME NEW r, NEW ro, NEW s, NEW i, NEW n \in Nat, NEW o,
         MetSqueeze(r, ro, s, i, n, o), NEW d, d = i + n, d <= Rate
  PROVE  MetSqueezing(r, s, d) /\ Given(o, s, i, n) = ro
<1> SUFFICES MetSqueezing(r, s, i + n) /\ o \o ReadRange(s, i, n) = ro
  BY DEF Given
<1>1. PICK t, a, x : \E k \in Nat :
        /\ Turns(t, k + n) /\ t[k] = [ref |-> Counting(a, x), out |-> o]
        /\ t[k + n].ref = r /\ t[k + n].out = ro /\ Standing(a, x, s, i)
        /\ (n = 0 => Resting(a, x, s, i))
  BY DEF MetSqueeze
<1>2. PICK k \in Nat :
        /\ Turns(t, k + n) /\ t[k] = [ref |-> Counting(a, x), out |-> o]
        /\ t[k + n].ref = r /\ t[k + n].out = ro /\ Standing(a, x, s, i)
        /\ (n = 0 => Resting(a, x, s, i))
  BY <1>1
<1>3. i \in 0 .. (Rate - 1) /\ i \in Nat /\ IsSeq(o) /\ Rate \in Nat /\ Rate >= 1
  BY RateAssumption DEF MetSqueeze
<1>4. x \in Nat /\ \E q \in Nat : x = End(Rate, q) + i
  BY <1>2, <1>3, StandingFacts
<1>5. CASE n = 0
  <2>1. PICK p \in Nat : x = End(Rate, p) + i /\ a = s /\ (i = 0 => p = 0)
    BY <1>2, <1>5 DEF Resting
  <2>2. k + n = k /\ i + n = i
    BY <1>3, <1>5
  <2>3. r = Counting(s, x) /\ ro = o
    BY <1>2, <2>1, <2>2
  <2>4. Resting(s, x, s, i)
    BY <2>1 DEF Resting
  <2>5. o \o ReadRange(s, i, 0) = o
    BY <1>3, ReadNone
  <2>6. MetSqueezing(r, s, i)
    BY <1>4, <2>3, <2>4 DEF MetSqueezing
  <2>7. QED
    BY <1>5, <2>2, <2>3, <2>5, <2>6
<1>6. CASE n # 0
  <2>1. n >= 1
    BY <1>6
  <2>2. PICK h : h = k + n
    OBVIOUS
  <2>3. t[k + n] = [ref |-> Counting(s, x + n), out |-> o \o ReadRange(s, i, n)]
    <3>1. Ahead(t, h, k, n, h)
      BY <1>2, <2>1, <2>2 DEF Ahead
    <3>2. Fits(i, n) /\ Standing(a, x, s, i) /\ IsSeq(o) /\ IsTurn(t, k, Counting(a, x), o)
      BY <1>2, <1>3 DEF Fits, IsTurn, Turned
    <3>3. IsTurn(t, h, Counting(s, x + n), Given(o, s, i, n))
      BY <3>1, <3>2, BlockGiven
    <3>4. QED
      BY <2>2, <3>3 DEF IsTurn, Turned, Given
  <2>4. r = Counting(s, x + n) /\ ro = o \o ReadRange(s, i, n)
    BY <1>2, <2>3
  <2>5. PICK q \in Nat : x = End(Rate, q) + i
    BY <1>4
  <2>6. PICK y, j : y = x + n /\ j = i + n /\ y \in Nat /\ j # 0
    BY <1>3, <1>4, <2>1
  <2>7. End(Rate, q) \in Nat
    BY <1>3, Ends
  <2>8. y = End(Rate, q) + j
    BY <1>3, <2>5, <2>6, <2>7
  <2>9. Resting(s, y, s, j)
    BY <2>6, <2>8 DEF Resting
  <2>10. MetSqueezing(r, s, j)
    BY <2>4, <2>6, <2>9 DEF MetSqueezing
  <2>11. QED
    BY <2>4, <2>6, <2>10
<1>7. QED
  BY <1>5, <1>6

-----------------------------------------------------------------------------
(* The sponge and the reference given the same calls.                      *)
RefInv ==
  /\ IsState(state)
  /\ pc = "idle" =>
       /\ out = refOut
       /\ mode.kind = "Absorbing" => MetAbsorbing(ref, state, mode.index)
       /\ mode.kind = "Squeezing" => MetSqueezing(ref, state, mode.index)
  /\ pc = "absorb" =>
       /\ out = <<>> /\ refOut = <<>>
       /\ MetAbsorb(ref, state, start, remaining)
  /\ pc = "squeeze" => MetSqueeze(ref, refOut, state, start, want, out)

LEMMA CrossInitRef == CrossInit => RefInv
<1> SUFFICES ASSUME CrossInit PROVE RefInv
  OBVIOUS
<1>1. PICK s : s = [c \in Cells |-> Zero]
  OBVIOUS
<1>2. /\ state = s /\ mode.kind = "Absorbing" /\ mode.index = 0 /\ pc = "idle" /\ out = <<>>
      /\ ref = [state |-> s, absorbing |-> <<>>, squeezed |-> None] /\ refOut = <<>>
  BY <1>1 DEF CrossInit, Init, RefNew
<1>3. IsState(s) /\ <<>> \in Seq(Elements)
  BY <1>1 DEF IsState
<1>4. Laid(s, <<>>, s, 0, <<>>)
  BY <1>3, LaidNone
<1>5. ref.state = s /\ ref.absorbing = <<>> /\ ref.squeezed = None
  BY <1>2
<1>6. Shape(ref)
  BY <1>2, <1>3, <1>5 DEF Shape
<1>7. MetAbsorbing(ref, state, 0)
  BY <1>2, <1>4, <1>5, <1>6 DEF MetAbsorbing
<1>8. QED
  BY <1>2, <1>3, <1>7 DEF RefInv

(* Calls that do nothing.                                                  *)
LEMMA QuietRef ==
  ASSUME RefInv, pc = "idle", out' = <<>>, refOut' = <<>>,
         UNCHANGED <<state, mode, pc, start, remaining, want, ref>>
  PROVE  RefInv'
BY DEF RefInv

LEMMA CrossAbsorbRef ==
  ASSUME TypeOK, RefInv, NEW elems \in Inputs, CrossAbsorb(elems)
  PROVE  RefInv'
<1>1. elems \in Seq(Elements) /\ mode \in Modes
  BY InputsAssumption DEF TypeOK
<1>2. ref' = RefAbsorb(ref, elems) /\ refOut' = <<>>
  BY DEF CrossAbsorb
<1>3. CASE elems = <<>>
  BY <1>2, <1>3, QuietRef DEF CrossAbsorb, AbsorbNothing, RefAbsorb
<1>4. CASE elems # <<>>
  <2>1. PICK s, i, q : s = state /\ i = mode.index /\ q = RefAbsorb(ref, elems) /\ i \in 0 .. Rate
    BY <1>1
  <2>2. Absorb(elems) /\ pc = "idle" /\ IsState(s)
    BY <1>4, <2>1 DEF CrossAbsorb, Absorb, AbsorbMore, AbsorbAfterSqueeze, RefInv
  <2>3. ASSUME NEW from, NEW b \in BOOLEAN, EnterAbsorb(from, elems, b),
               MetAbsorb(q, IF b THEN Permuted(s) ELSE s, from, elems)
        PROVE  RefInv'
    <3>1. /\ pc' = "absorb" /\ start' = from /\ remaining' = elems /\ out' = <<>>
          /\ state' = IF b THEN Permuted(s) ELSE s
      BY <2>1, <2>3 DEF EnterAbsorb
    <3>2. IsState(state')
      BY <2>2, <3>1, States
    <3>3. MetAbsorb(ref', state', start', remaining')
      BY <1>2, <2>1, <2>3, <3>1
    <3>4. QED
      BY <1>2, <3>1, <3>2, <3>3 DEF RefInv
  <2>4. CASE AbsorbMore(elems)
    <3>1. MetAbsorbing(ref, s, i)
      BY <2>1, <2>2, <2>4 DEF AbsorbMore, RefInv
    <3>2. /\ i # Rate => MetAbsorb(q, s, i, elems)
          /\ i = Rate => MetAbsorb(q, Permuted(s), 0, elems)
      BY <1>1, <1>4, <2>1, <3>1, MetEnterMore
    <3>3. CASE i = Rate
      <4>1. EnterAbsorb(0, elems, TRUE)
        BY <2>1, <2>4, <3>3 DEF AbsorbMore
      <4>2. QED
        BY <2>3, <3>2, <3>3, <4>1
    <3>4. CASE i # Rate
      <4>1. EnterAbsorb(i, elems, FALSE)
        BY <2>1, <2>4, <3>4 DEF AbsorbMore
      <4>2. QED
        BY <2>3, <3>2, <3>4, <4>1
    <3>5. QED
      BY <3>3, <3>4
  <2>5. CASE AbsorbAfterSqueeze(elems)
    <3>1. MetSqueezing(ref, s, i) /\ EnterAbsorb(0, elems, FALSE)
      BY <2>1, <2>2, <2>5 DEF AbsorbAfterSqueeze, RefInv
    <3>2. MetAbsorb(q, s, 0, elems)
      BY <1>1, <1>4, <2>1, <2>2, <3>1, MetEnterAfter
    <3>3. QED
      BY <2>3, <3>1, <3>2
  <2>6. QED
    BY <2>2, <2>4, <2>5 DEF Absorb
<1>5. QED
  BY <1>3, <1>4

LEMMA CrossRequestRef ==
  ASSUME TypeOK, RefInv, NEW r \in Requests, CrossRequest(r)
  PROVE  RefInv'
<1>1. CASE ~ TouchesSponge(r)
  BY <1>1, QuietRef DEF CrossRequest
<1>2. CASE TouchesSponge(r)
  <2>1. PICK n : n = NumElements(r) /\ n \in Nat
    BY NumElementsNat
  <2>2. PICK s, i, g : s = state /\ i = mode.index /\ g = RefSqueeze(ref, n) /\ i \in 0 .. Rate
    BY DEF TypeOK
  <2>3. Squeeze(n) /\ ref' = g.ref /\ refOut' = g.out
    BY <1>2, <2>1, <2>2 DEF CrossRequest
  <2>4. pc = "idle" /\ IsState(s)
    BY <2>2, <2>3 DEF Squeeze, SqueezeAfterAbsorb, SqueezeMore, RefInv
  <2>5. ASSUME NEW from, NEW b \in BOOLEAN, EnterSqueeze(from, n, b),
               MetSqueeze(g.ref, g.out, IF b THEN Permuted(s) ELSE s, from, n, <<>>)
        PROVE  RefInv'
    <3>1. /\ pc' = "squeeze" /\ start' = from /\ want' = n /\ out' = <<>>
          /\ state' = IF b THEN Permuted(s) ELSE s
      BY <2>2, <2>5 DEF EnterSqueeze
    <3>2. IsState(state')
      BY <2>4, <3>1, States
    <3>3. MetSqueeze(ref', refOut', state', start', want', out')
      BY <2>3, <2>5, <3>1
    <3>4. QED
      BY <3>1, <3>2, <3>3 DEF RefInv
  <2>6. CASE SqueezeAfterAbsorb(n)
    <3>1. MetAbsorbing(ref, s, i) /\ EnterSqueeze(0, n, TRUE)
      BY <2>2, <2>4, <2>6 DEF SqueezeAfterAbsorb, RefInv
    <3>2. MetSqueeze(g.ref, g.out, Permuted(s), 0, n, <<>>)
      BY <2>1, <2>2, <3>1, MetFlush
    <3>3. QED
      BY <2>5, <3>1, <3>2
  <2>7. CASE SqueezeMore(n)
    <3>1. MetSqueezing(ref, s, i)
      BY <2>2, <2>4, <2>7 DEF SqueezeMore, RefInv
    <3>2. /\ i # Rate => MetSqueeze(g.ref, g.out, s, i, n, <<>>)
          /\ i = Rate => MetSqueeze(g.ref, g.out, Permuted(s), 0, n, <<>>)
      BY <2>1, <2>2, <3>1, MetGoOn
    <3>3. CASE i = Rate
      <4>1. EnterSqueeze(0, n, TRUE)
        BY <2>2, <2>7, <3>3 DEF SqueezeMore
      <4>2. QED
        BY <2>5, <3>2, <3>3, <4>1
    <3>4. CASE i # Rate
      <4>1. EnterSqueeze(i, n, FALSE)
        BY <2>2, <2>7, <3>4 DEF SqueezeMore
      <4>2. QED
        BY <2>5, <3>2, <3>4, <4>1
    <3>5. QED
      BY <3>3, <3>4
  <2>8. QED
    BY <2>3, <2>6, <2>7 DEF Squeeze
<1>3. QED
  BY <1>1, <1>2

LEMMA CrossLoopRef ==
  ASSUME TypeOK, RefInv, Loop, UNCHANGED others
  PROVE  RefInv'
<1>1. PICK r, ro, s, i, n, e, o : /\ r = ref /\ ro = refOut /\ s = state /\ i = start
                                  /\ n = want /\ e = remaining /\ o = out
  OBVIOUS
<1>2. /\ i \in 0 .. Rate /\ e \in Seq(Elements) /\ n \in Nat /\ IsState(s)
      /\ ref' = r /\ refOut' = ro
  BY <1>1 DEF TypeOK, RefInv, others
<1>3. CASE AbsorbChunk
  <2>1. /\ MetAbsorb(r, s, i, e) /\ i + Len(e) > Rate /\ ro = <<>> /\ o = <<>>
    BY <1>1, <1>3 DEF AbsorbChunk, RefInv
  <2>2. PICK u, d : u = Permuted(AddRange(s, i, Rate - i, e)) /\ d = SubSeq(e, Rate - i + 1, Len(e))
    OBVIOUS
  <2>3. MetAbsorb(r, u, 0, d)
    BY <1>2, <2>1, <2>2, MetAbsorbTurn
  <2>4. state' = u /\ start' = 0 /\ remaining' = d /\ pc' = "absorb" /\ out' = o
    BY <1>1, <1>3, <2>2 DEF AbsorbChunk
  <2>5. IsState(u)
    BY <2>2, States
  <2>6. QED
    BY <1>2, <2>1, <2>3, <2>4, <2>5 DEF RefInv
<1>4. CASE AbsorbLast
  <2>1. /\ MetAbsorb(r, s, i, e) /\ i + Len(e) <= Rate /\ ro = <<>> /\ o = <<>>
    BY <1>1, <1>4 DEF AbsorbLast, RefInv
  <2>2. PICK u, d : u = AddRange(s, i, Len(e), e) /\ d = i + Len(e)
    OBVIOUS
  <2>3. MetAbsorbing(r, u, d)
    BY <1>2, <2>1, <2>2, MetAbsorbEnd
  <2>4. /\ state' = u /\ mode'.kind = "Absorbing" /\ mode'.index = d
        /\ pc' = "idle" /\ out' = o
    BY <1>1, <1>4, <2>2 DEF AbsorbLast
  <2>5. IsState(u)
    BY <2>2, States
  <2>6. QED
    BY <1>2, <2>1, <2>3, <2>4, <2>5 DEF RefInv
<1>5. CASE SqueezeChunk
  <2>1. MetSqueeze(r, ro, s, i, n, o) /\ i + n > Rate
    BY <1>1, <1>5 DEF SqueezeChunk, RefInv
  <2>2. PICK u, d, w : /\ u = Permuted(s) /\ d = n - (Rate - i)
                       /\ w = o \o ReadRange(s, i, Rate - i)
    OBVIOUS
  <2>3. MetSqueeze(r, ro, u, 0, d, w)
    BY <1>2, <2>1, <2>2, MetSqueezeTurn
  <2>4. d # 0
    BY <1>2, <2>1, <2>2, RateAssumption
  <2>5. state' = u /\ start' = 0 /\ want' = d /\ pc' = "squeeze" /\ out' = w
    BY <1>1, <1>5, <2>2, <2>4 DEF SqueezeChunk
  <2>6. IsState(u)
    BY <2>2, States
  <2>7. QED
    BY <1>2, <2>3, <2>5, <2>6 DEF RefInv
<1>6. CASE SqueezeLast
  <2>1. MetSqueeze(r, ro, s, i, n, o) /\ i + n <= Rate
    BY <1>1, <1>6 DEF SqueezeLast, RefInv
  <2>2. PICK d, w : d = i + n /\ w = o \o ReadRange(s, i, n)
    OBVIOUS
  <2>3. MetSqueezing(r, s, d) /\ w = ro
    <3>1. n \in Nat /\ MetSqueeze(r, ro, s, i, n, o) /\ d = i + n /\ d <= Rate
      BY <1>2, <2>1, <2>2
    <3>2. MetSqueezing(r, s, d) /\ Given(o, s, i, n) = ro
      BY <3>1, MetSqueezeEnd
    <3>3. QED
      BY <2>2, <3>2 DEF Given
  <2>4. /\ state' = s /\ mode'.kind = "Squeezing" /\ mode'.index = d
        /\ pc' = "idle" /\ out' = w
    BY <1>1, <1>6, <2>2 DEF SqueezeLast
  <2>5. QED
    BY <1>2, <2>3, <2>4 DEF RefInv
<1>7. QED
  BY <1>3, <1>4, <1>5, <1>6 DEF Loop

LEMMA CrossNextRef == PairInv /\ RefInv /\ [CrossNext]_crossVars => RefInv'
<1> SUFFICES ASSUME PairInv, RefInv, [CrossNext]_crossVars PROVE RefInv'
  OBVIOUS
<1>1. TypeOK
  BY DEF PairInv, IInv
<1>2. ASSUME NEW elems \in Inputs, CrossAbsorb(elems) PROVE RefInv'
  BY <1>1, <1>2, CrossAbsorbRef
<1>3. ASSUME NEW r \in Requests, CrossRequest(r) PROVE RefInv'
  BY <1>1, <1>3, CrossRequestRef
<1>4. CASE Loop /\ UNCHANGED others
  BY <1>1, <1>4, CrossLoopRef
<1>5. CASE UNCHANGED crossVars
  BY <1>5 DEF crossVars, vars, others, RefInv
<1>6. QED
  BY <1>2, <1>3, <1>4, <1>5 DEF CrossNext

(* Every squeeze gives what the reference of the cross test gives, for     *)
(* every rate, permutation and sequence of calls: how input and output are *)
(* cut into calls does not matter.                                         *)
THEOREM PoseidonOutputsAgree == CrossSpec => []OutputsAgree
<1>1. RefInv => OutputsAgree
  BY DEF RefInv, OutputsAgree
<1>2. QED
  BY CrossInitPair, CrossNextPair, CrossInitRef, CrossNextRef, <1>1, PTL DEF CrossSpec

(* Between calls the sponge stands where the reference stands, or where    *)
(* absorbing the reference's line leads.                                   *)
THEOREM PoseidonStatesMeet == CrossSpec => []StatesMeet
<1>1. ASSUME TypeOK, RefInv PROVE StatesMeet
  <2> SUFFICES ASSUME pc = "idle"
               PROVE  IF mode.kind = "Squeezing"
                      THEN /\ ref.squeezed # None
                           /\ state = ref.state
                           /\ mode.index = IF ref.squeezed = 0 THEN 0
                                           ELSE ((ref.squeezed - 1) % Rate) + 1
                      ELSE /\ ref.squeezed = None
                           /\ Permuted(state) = RefFlush(ref).state
    BY DEF StatesMeet
  <2>1. PICK s, i, r : s = state /\ i = mode.index /\ r = ref
    OBVIOUS
  <2>2. i \in 0 .. Rate /\ IsState(s) /\ mode.kind \in {"Absorbing", "Squeezing"}
    BY <1>1, <2>1 DEF TypeOK, RefInv
  <2>3. CASE mode.kind = "Squeezing"
    <3>1. MetSqueezing(r, s, i)
      BY <1>1, <2>1, <2>3 DEF RefInv
    <3>2. PICK x \in Nat, p \in Nat :
            r = Counting(s, x) /\ x = End(Rate, p) + i /\ (i = 0 => p = 0)
      BY <3>1 DEF MetSqueezing, Resting
    <3>3. r.squeezed = x /\ r.state = s /\ x # None
      BY <3>2, NoneAssumption DEF Counting
    <3>4. End(Rate, p) \in Nat /\ End(Rate, 0) = 0 /\ Rate \in Nat
      <4>1. Rate \in Nat
        BY RateAssumption
      <4>2. QED
        BY <4>1, Ends
    <3>5. CASE x = 0
      <4>1. i = 0
        BY <2>2, <3>2, <3>4, <3>5
      <4>2. QED
        BY <2>1, <2>3, <3>3, <3>5, <4>1
    <3>6. CASE x # 0
      <4>1. i # 0
        BY <3>2, <3>4, <3>6
      <4>2. PICK y, j : y = x - 1 /\ j = i - 1 /\ y \in Nat /\ j \in 0 .. (Rate - 1)
        BY <2>2, <3>4, <3>6, <4>1
      <4>3. y = End(Rate, p) + j
        BY <2>2, <3>2, <3>4, <4>2
      <4>4. y % Rate = j
        BY <4>2, <4>3, PlaceOf
      <4>5. i = ((x - 1) % Rate) + 1
        BY <2>2, <4>2, <4>4
      <4>6. QED
        BY <2>1, <2>3, <3>3, <3>6, <4>5
    <3>7. QED
      BY <3>5, <3>6
  <2>4. CASE mode.kind = "Absorbing"
    <3>1. MetAbsorbing(r, s, i)
      BY <1>1, <2>1, <2>4 DEF RefInv
    <3>2. PICK a, line : a = r.state /\ line = r.absorbing
      OBVIOUS
    <3>3. /\ IsState(a) /\ line \in Seq(Elements) /\ r.squeezed = None
          /\ Laid(a, line, s, i, <<>>) /\ (i = 0 <=> line = <<>>)
      BY <3>1, <3>2 DEF MetAbsorbing, Shape
    <3>4. RefFlush(r) = [state |-> Permuted(s), absorbing |-> <<>>, squeezed |-> 0]
      BY <2>2, <3>2, <3>3, FlushMeets
    <3>5. RefFlush(r).state = Permuted(s)
      BY <3>4
    <3>6. QED
      BY <2>1, <2>4, <3>3, <3>5
  <2>5. QED
    BY <2>2, <2>3, <2>4
<1>2. PairInv /\ RefInv => StatesMeet
  BY <1>1 DEF PairInv, IInv
<1>3. QED
  BY CrossInitPair, CrossNextPair, CrossInitRef, CrossNextRef, <1>2, PTL DEF CrossSpec

-----------------------------------------------------------------------------
(* Values among which a permutation never comes back to one it was given   *)
(* or gives one in two cells: they have a rank, and its outputs are above  *)
(* its inputs.  Terms are so, with the depth of nesting as rank.  Of a     *)
(* permutation of a finite field it can only be said of the outputs that   *)
(* are in use, like freedom from collisions of a hash.                     *)
Ranked(V, rank) ==
  /\ Zero \in V /\ Elements \subseteq V /\ \A x, y \in V : Add(x, y) \in V
  /\ rank \in [V -> Nat]
  /\ \A s \in [Cells -> V] : \A c \in Cells :
       /\ PermCell(s, c) \in V
       /\ \A d \in Cells : rank[s[d]] < rank[PermCell(s, c)]
       /\ \A d \in Cells : PermCell(s, c) = PermCell(s, d) => c = d

Spread(s) == \A c, d \in Cells : s[c] = s[d] => c = d
Under(given, s, rank) == \A k \in DOMAIN given : \A c \in Cells : rank[given[k]] < rank[s[c]]

(* What a call has given are different values, none of which is in the     *)
(* block that is being given now or can be in a later one.                 *)
ValuesInv(V, rank) ==
  /\ state \in [Cells -> V] /\ out \in Seq(V) /\ Distinct(out)
  /\ request \in Requests \cup {NoRequest}
  /\ pc = "absorb" => out = <<>> /\ request = NoRequest
  /\ pc = "squeeze" =>
       /\ TouchesSponge(request) /\ Len(out) + want = NumElements(request)
       /\ Spread(state) /\ Under(out, state, rank)
  /\ pc = "idle" =>
       /\ IF TouchesSponge(request) THEN Len(out) = NumElements(request) ELSE out = <<>>
       /\ mode.kind = "Squeezing" => Spread(state)

LEMMA PermutedAbove ==
  ASSUME NEW V, NEW rank, Ranked(V, rank), NEW s \in [Cells -> V]
  PROVE  /\ Permuted(s) \in [Cells -> V] /\ Spread(Permuted(s))
         /\ \A c, d \in Cells : rank[s[c]] < rank[Permuted(s)[d]]
<1>1. \A c \in Cells : /\ PermCell(s, c) \in V
                       /\ \A d \in Cells : rank[s[d]] < rank[PermCell(s, c)]
                       /\ \A d \in Cells : PermCell(s, c) = PermCell(s, d) => c = d
  BY Zenon DEF Ranked
<1>2. \A c \in Cells : Permuted(s)[c] = PermCell(s, c)
  BY DEF Permuted
<1>3. Permuted(s) \in [Cells -> V]
  BY <1>1 DEF Permuted
<1>4. Spread(Permuted(s))
  BY Zenon, <1>1, <1>2 DEF Spread
<1>5. QED
  BY Zenon, <1>1, <1>2, <1>3, <1>4

(* A part of a block joins what was given of earlier ones.                 *)
LEMMA GivenApart ==
  ASSUME NEW V, NEW rank, Ranked(V, rank), NEW s \in [Cells -> V], Spread(s),
         NEW given \in Seq(V), Distinct(given), Under(given, s, rank),
         NEW from \in 0 .. Rate, NEW n \in 0 .. (Rate - from)
  PROVE  /\ given \o ReadRange(s, from, n) \in Seq(V)
         /\ Len(given \o ReadRange(s, from, n)) = Len(given) + n
         /\ Distinct(given \o ReadRange(s, from, n))
         /\ Under(given \o ReadRange(s, from, n), Permuted(s), rank)
<1> DEFINE r == ReadRange(s, from, n)
           e == given \o r
           L == Len(given)
           P == Permuted(s)
<1>0. Rate \in Nat /\ Capacity \in Nat /\ n \in Nat /\ from \in Nat
  BY RateAssumption, CapacityAssumption
<1>1. ASSUME NEW i \in 1 .. n
      PROVE  /\ r[i] = s[Capacity + from + i - 1] /\ Capacity + from + i - 1 \in Cells
             /\ r[i] \in V
  <2>1. Capacity + from + i - 1 \in Cells
    BY <1>0
  <2>2. r[i] = s[Capacity + from + i - 1]
    BY DEF ReadRange
  <2>3. QED
    BY <2>1, <2>2
<1>2. r \in Seq(V) /\ Len(r) = n
  <2>1. r = [i \in 1 .. n |-> r[i]]
    BY DEF ReadRange
  <2> HIDE DEF r
  <2>2. r \in [1 .. n -> V]
    BY <1>1, <2>1
  <2>3. QED
    BY Zenon, <1>0, <2>2, FunctionIsSeq
<1>3. L \in Nat /\ DOMAIN given = 1 .. L
  OBVIOUS
<1> HIDE DEF r
<1>4. /\ e \in Seq(V) /\ Len(e) = L + n /\ DOMAIN e = 1 .. (L + n)
      /\ \A k \in 1 .. (L + n) : e[k] = IF k <= L THEN given[k] ELSE r[k - L]
  <2>1. /\ given \o r \in Seq(V) /\ Len(given \o r) = Len(given) + Len(r)
        /\ \A k \in 1 .. (Len(given) + Len(r)) :
             (given \o r)[k] = IF k <= Len(given) THEN given[k] ELSE r[k - Len(given)]
    BY Zenon, <1>2, ConcatProperties
  <2>2. Len(e) = L + n /\ e \in Seq(V)
    BY <1>2, <2>1
  <2>3. DOMAIN e = 1 .. (L + n)
    BY <2>2, LenProperties
  <2>4. QED
    BY <1>2, <2>1, <2>2, <2>3
<1> HIDE DEF e
<1>5. \A k \in 1 .. L : e[k] = given[k] /\ given[k] \in V /\ \A c \in Cells : rank[e[k]] < rank[s[c]]
  <2>1. ASSUME NEW k \in 1 .. L
        PROVE  given[k] \in V /\ \A c \in Cells : rank[given[k]] < rank[s[c]]
    BY <1>0, <1>3 DEF Under
  <2>2. ASSUME NEW k \in 1 .. L PROVE e[k] = given[k]
    <3>1. k \in 1 .. (L + n) /\ k <= L
      BY <1>0, <1>3
    <3>2. QED
      BY Zenon, <1>4, <3>1
  <2>3. QED
    BY Zenon, <2>1, <2>2
<1>6. ASSUME NEW k \in 1 .. (L + n), ~ (k <= L)
      PROVE  \E c \in Cells : e[k] = s[c] /\ c = Capacity + from + (k - L) - 1
  <2>1. k - L \in 1 .. n
    BY <1>0, <1>3, <1>6
  <2>2. QED
    BY <1>1, <1>4, <1>6, <2>1
<1>7. \A c \in Cells : rank[s[c]] \in Nat
  BY DEF Ranked
<1>8. ASSUME NEW j \in 1 .. (L + n), NEW k \in 1 .. (L + n), e[j] = e[k], j <= L, ~ (k <= L)
      PROVE  FALSE
  <2>1. PICK c \in Cells : e[k] = s[c]
    BY <1>6, <1>8
  <2>2. j \in 1 .. L
    BY <1>3, <1>8
  <2>3. rank[e[j]] < rank[s[c]]
    BY <1>5, <2>2
  <2>4. rank[s[c]] < rank[s[c]]
    BY <1>8, <2>1, <2>3
  <2>5. QED
    BY <1>7, <2>4
<1>9. Distinct(e)
  <2> SUFFICES ASSUME NEW j \in 1 .. (L + n), NEW k \in 1 .. (L + n), e[j] = e[k]
               PROVE  j = k
    BY <1>4 DEF Distinct
  <2>1. CASE j <= L /\ k <= L
    <3>1. j \in 1 .. L /\ k \in 1 .. L
      BY <1>3, <2>1
    <3>2. given[j] = given[k]
      BY <1>5, <3>1
    <3>3. QED
      BY <1>3, <3>1, <3>2 DEF Distinct
  <2>2. CASE ~ (j <= L) /\ ~ (k <= L)
    <3>1. PICK c \in Cells : e[j] = s[c] /\ c = Capacity + from + (j - L) - 1
      BY <1>6, <2>2
    <3>2. PICK d \in Cells : e[k] = s[d] /\ d = Capacity + from + (k - L) - 1
      BY <1>6, <2>2
    <3>3. c = d
      BY <3>1, <3>2 DEF Spread
    <3>4. QED
      BY <1>0, <1>3, <3>1, <3>2, <3>3
  <2>3. QED
    BY <1>8, <2>1, <2>2
<1>10. Under(e, P, rank)
  <2> SUFFICES ASSUME NEW k \in 1 .. (L + n), NEW d \in Cells PROVE rank[e[k]] < rank[P[d]]
    BY <1>4 DEF Under
  <2>1. \A c \in Cells : rank[s[c]] < rank[P[d]]
    BY Zenon, PermutedAbove
  <2>2. P[d] \in V
    BY Zenon, PermutedAbove
  <2>3. rank[P[d]] \in Nat
    BY <2>2 DEF Ranked
  <2> HIDE DEF P
  <2>4. CASE k <= L
    <3>1. k \in 1 .. L
      BY <1>3, <2>4
    <3>2. rank[e[k]] < rank[s[d]] /\ rank[e[k]] \in Nat
      BY <1>5, <3>1 DEF Ranked
    <3>3. QED
      BY <1>7, <2>1, <2>3, <3>2
  <2>5. CASE ~ (k <= L)
    BY <1>6, <2>1, <2>5
  <2>6. QED
    BY <2>4, <2>5
<1>11. QED
  BY <1>4, <1>9, <1>10 DEF e, r

(* Absorbing adds values.                                                  *)
LEMMA AddedValues ==
  ASSUME NEW V, NEW rank, Ranked(V, rank), NEW s \in [Cells -> V],
         NEW from \in 0 .. Rate, NEW elems \in Seq(Elements), NEW n \in 0 .. Len(elems)
  PROVE  AddRange(s, from, n, elems) \in [Cells -> V]
<1> DEFINE a == AddRange(s, from, n, elems)
<1>1. ASSUME NEW c \in Cells PROVE a[c] \in V
  <2>1. a[c] = IF c \in (Capacity + from) .. (Capacity + from + n - 1)
               THEN Add(s[c], elems[c - Capacity - from + 1])
               ELSE s[c]
    BY DEF AddRange
  <2>2. CASE c \in (Capacity + from) .. (Capacity + from + n - 1)
    <3>1. c - Capacity - from + 1 \in 1 .. Len(elems)
      BY <2>2, CapacityAssumption
    <3>2. elems[c - Capacity - from + 1] \in V
      <4>1. elems[c - Capacity - from + 1] \in Elements
        BY <3>1
      <4>2. QED
        BY <4>1 DEF Ranked
    <3>3. QED
      BY <2>1, <2>2, <3>2 DEF Ranked
  <2>3. CASE ~ (c \in (Capacity + from) .. (Capacity + from + n - 1))
    BY <2>1, <2>3
  <2>4. QED
    BY <2>2, <2>3
<1>2. QED
  BY <1>1 DEF AddRange

LEMMA NoneDistinct ==
  ASSUME NEW V PROVE <<>> \in Seq(V) /\ Distinct(<<>>) /\ Len(<<>>) = 0
         /\ \A s, rank : Under(<<>>, s, rank)
BY DEF Distinct, Under

LEMMA NoRequestFacts ==
  TouchesSponge(NoRequest) /\ NumElements(NoRequest) = 0 /\ NoRequest.kind = "elements"
BY DEF TouchesSponge, NumElements, NoRequest, Whole, Windowed

LEMMA InitValues ==
  ASSUME NEW V, NEW rank, Ranked(V, rank), CrossInit
  PROVE  ValuesInv(V, rank)
<1>1. /\ state = [c \in Cells |-> Zero] /\ out = <<>> /\ pc = "idle" /\ request = NoRequest
      /\ mode.kind = "Absorbing"
  BY DEF CrossInit, Init
<1>2. state \in [Cells -> V]
  BY <1>1 DEF Ranked
<1>3. QED
  BY <1>1, <1>2, NoneDistinct, NoRequestFacts DEF ValuesInv

LEMMA AbsorbValues ==
  ASSUME NEW V, NEW rank, Ranked(V, rank), ValuesInv(V, rank),
         NEW elems \in Inputs, CrossAbsorb(elems)
  PROVE  ValuesInv(V, rank)'
<1>1. request' = NoRequest /\ state \in [Cells -> V] /\ pc = "idle"
  BY DEF CrossAbsorb, ValuesInv, AbsorbNothing, Absorb, AbsorbMore, AbsorbAfterSqueeze
<1>2. CASE elems = <<>>
  <2>1. AbsorbNothing
    BY <1>2 DEF CrossAbsorb
  <2>2. out' = <<>> /\ state' = state /\ mode' = mode /\ pc' = "idle"
    BY <1>1, <2>1 DEF AbsorbNothing
  <2>3. mode'.kind = "Squeezing" => Spread(state')
    BY <1>1, <2>2 DEF ValuesInv
  <2>4. QED
    BY <1>1, <2>2, <2>3, NoneDistinct, NoRequestFacts DEF ValuesInv
<1>3. CASE elems # <<>>
  <2>1. /\ pc' = "absorb" /\ out' = <<>>
        /\ state' = state \/ state' = Permuted(state)
    BY <1>3 DEF CrossAbsorb, Absorb, AbsorbMore, AbsorbAfterSqueeze, EnterAbsorb
  <2>2. Permuted(state) \in [Cells -> V]
    BY Zenon, <1>1, PermutedAbove
  <2>3. state' \in [Cells -> V]
    BY <1>1, <2>1, <2>2
  <2>4. QED
    BY <1>1, <2>1, <2>3, NoneDistinct, NoRequestFacts DEF ValuesInv
<1>4. QED
  BY <1>2, <1>3

LEMMA RequestValues ==
  ASSUME NEW V, NEW rank, Ranked(V, rank), ValuesInv(V, rank),
         NEW r \in Requests, CrossRequest(r)
  PROVE  ValuesInv(V, rank)'
<1>1. request' = r /\ state \in [Cells -> V] /\ pc = "idle"
  BY DEF CrossRequest, ValuesInv, Squeeze, SqueezeAfterAbsorb, SqueezeMore
<1>2. CASE ~ TouchesSponge(r)
  <2>1. out' = <<>> /\ state' = state /\ mode' = mode /\ pc' = "idle"
    BY <1>1, <1>2 DEF CrossRequest
  <2>2. mode'.kind = "Squeezing" => Spread(state')
    BY <1>1, <2>1 DEF ValuesInv
  <2>3. QED
    BY <1>1, <1>2, <2>1, <2>2, NoneDistinct DEF ValuesInv
<1>3. CASE TouchesSponge(r)
  <2>1. PICK n : n = NumElements(r) /\ n \in Nat
    BY NumElementsNat
  <2>2. Squeeze(n)
    BY <1>3, <2>1 DEF CrossRequest
  <2>3. /\ pc' = "squeeze" /\ out' = <<>> /\ want' = n
        /\ state' = Permuted(state) \/ (state' = state /\ mode.kind = "Squeezing")
    BY <2>2 DEF Squeeze, SqueezeAfterAbsorb, SqueezeMore, EnterSqueeze
  <2>4. Permuted(state) \in [Cells -> V] /\ Spread(Permuted(state))
    BY Zenon, <1>1, PermutedAbove
  <2>5. mode.kind = "Squeezing" => Spread(state)
    BY <1>1 DEF ValuesInv
  <2>6. state' \in [Cells -> V] /\ Spread(state')
    BY <1>1, <2>3, <2>4, <2>5
  <2>7. Len(out') + want' = NumElements(r)
    BY <2>1, <2>3
  <2>8. Under(out', state', rank)
    BY <2>3, NoneDistinct
  <2>9. QED
    BY <1>1, <1>3, <2>3, <2>6, <2>7, <2>8, NoneDistinct DEF ValuesInv
<1>4. QED
  BY <1>2, <1>3

LEMMA LoopValues ==
  ASSUME NEW V, NEW rank, Ranked(V, rank), ValuesInv(V, rank), TypeOK,
         Loop, request' = request
  PROVE  ValuesInv(V, rank)'
<1>1. /\ state \in [Cells -> V] /\ out \in Seq(V) /\ Distinct(out)
      /\ request \in Requests \cup {NoRequest}
      /\ start \in 0 .. Rate /\ remaining \in Seq(Elements) /\ want \in Nat
      /\ Rate \in Nat /\ Len(out) \in Nat /\ Len(remaining) \in Nat
  BY RateAssumption DEF ValuesInv, TypeOK
<1>2. CASE AbsorbChunk
  <2>1. /\ Rate - start \in 0 .. Len(remaining) /\ pc = "absorb"
        /\ state' = Permuted(AddRange(state, start, Rate - start, remaining))
        /\ out' = out /\ pc' = pc
    BY <1>1, <1>2 DEF AbsorbChunk
  <2>2. AddRange(state, start, Rate - start, remaining) \in [Cells -> V]
    BY <1>1, <2>1, AddedValues
  <2>3. state' \in [Cells -> V]
    BY Zenon, <2>1, <2>2, PermutedAbove
  <2>4. out = <<>> /\ request = NoRequest
    BY <2>1 DEF ValuesInv
  <2>5. QED
    BY <1>1, <2>1, <2>3, <2>4, NoneDistinct DEF ValuesInv
<1>3. CASE AbsorbLast
  <2>1. /\ Len(remaining) \in 0 .. Len(remaining) /\ pc = "absorb"
        /\ state' = AddRange(state, start, Len(remaining), remaining)
        /\ out' = out /\ pc' = "idle" /\ mode'.kind = "Absorbing"
    BY <1>1, <1>3 DEF AbsorbLast
  <2>2. state' \in [Cells -> V]
    BY <1>1, <2>1, AddedValues
  <2>3. out = <<>> /\ request = NoRequest
    BY <2>1 DEF ValuesInv
  <2>4. QED
    BY <1>1, <2>1, <2>2, <2>3, NoneDistinct, NoRequestFacts DEF ValuesInv
<1>4. CASE SqueezeChunk
  <2>1. PICK n : n = Rate - start /\ n \in 0 .. (Rate - start) /\ n \in Nat
    BY <1>1
  <2>2. /\ pc = "squeeze" /\ start + want > Rate /\ pc' = "squeeze"
        /\ out' = out \o ReadRange(state, start, n) /\ want' = want - n
        /\ want - n # 0 => state' = Permuted(state)
    BY <1>4, <2>1 DEF SqueezeChunk
  <2>3. want - n # 0
    BY <1>1, <2>1, <2>2
  <2>4. /\ TouchesSponge(request) /\ Len(out) + want = NumElements(request)
        /\ Spread(state) /\ Under(out, state, rank)
    BY <2>2 DEF ValuesInv
  <2>5. /\ out' \in Seq(V) /\ Len(out') = Len(out) + n /\ Distinct(out')
        /\ Under(out', Permuted(state), rank)
    <3>1. PICK g : g = out \o ReadRange(state, start, n)
      OBVIOUS
    <3>2. /\ g \in Seq(V) /\ Len(g) = Len(out) + n /\ Distinct(g)
          /\ Under(g, Permuted(state), rank)
      <4>1. n \in 0 .. (Rate - start)
        BY <2>1
      <4>2. /\ out \o ReadRange(state, start, n) \in Seq(V)
            /\ Len(out \o ReadRange(state, start, n)) = Len(out) + n
            /\ Distinct(out \o ReadRange(state, start, n))
            /\ Under(out \o ReadRange(state, start, n), Permuted(state), rank)
        BY Zenon, <1>1, <2>4, <4>1, GivenApart
      <4>3. QED
        BY Zenon, <3>1, <4>2
    <3>3. out' = g
      BY <2>2, <3>1
    <3>4. QED
      BY <3>2, <3>3 DEF Distinct, Under
  <2>6. Permuted(state) \in [Cells -> V] /\ Spread(Permuted(state))
    BY Zenon, <1>1, PermutedAbove
  <2>7. Len(out') + want' = NumElements(request)
    <3>1. PICK l, m : l = Len(out') /\ m = want' /\ l = Len(out) + n /\ m = want - n
      BY <2>2, <2>5
    <3>2. l + m = Len(out) + want
      BY <1>1, <2>1, <3>1
    <3>3. QED
      BY Zenon, <2>4, <3>1, <3>2
  <2>8. QED
    BY <1>1, <2>2, <2>3, <2>4, <2>5, <2>6, <2>7 DEF ValuesInv
<1>5. CASE SqueezeLast
  <2>1. /\ pc = "squeeze" /\ start + want <= Rate /\ pc' = "idle"
        /\ out' = out \o ReadRange(state, start, want) /\ state' = state
    BY <1>5 DEF SqueezeLast
  <2>2. want \in 0 .. (Rate - start)
    BY <1>1, <2>1
  <2>3. /\ TouchesSponge(request) /\ Len(out) + want = NumElements(request)
        /\ Spread(state) /\ Under(out, state, rank)
    BY <2>1 DEF ValuesInv
  <2>4. out' \in Seq(V) /\ Len(out') = Len(out) + want /\ Distinct(out')
    <3>1. PICK g : g = out \o ReadRange(state, start, want)
      OBVIOUS
    <3>2. g \in Seq(V) /\ Len(g) = Len(out) + want /\ Distinct(g)
      BY <1>1, <2>2, <2>3, <3>1, GivenApart
    <3>3. out' = g
      BY <2>1, <3>1
    <3>4. QED
      BY <3>2, <3>3 DEF Distinct
  <2>5. QED
    BY <1>1, <2>1, <2>3, <2>4 DEF ValuesInv
<1>6. QED
  BY <1>2, <1>3, <1>4, <1>5 DEF Loop

LEMMA NextValues ==
  ASSUME NEW V, NEW rank, Ranked(V, rank)
  PROVE  PairInv /\ ValuesInv(V, rank) /\ [CrossNext]_crossVars => ValuesInv(V, rank)'
<1> SUFFICES ASSUME PairInv, ValuesInv(V, rank), [CrossNext]_crossVars
             PROVE  ValuesInv(V, rank)'
  OBVIOUS
<1>1. ASSUME NEW elems \in Inputs, CrossAbsorb(elems) PROVE ValuesInv(V, rank)'
  BY Zenon, <1>1, AbsorbValues
<1>2. ASSUME NEW r \in Requests, CrossRequest(r) PROVE ValuesInv(V, rank)'
  BY Zenon, <1>2, RequestValues
<1>3. CASE Loop /\ UNCHANGED others
  <2>1. TypeOK /\ request' = request
    BY <1>3 DEF PairInv, IInv, others
  <2>2. QED
    BY Zenon, <1>3, <2>1, LoopValues
<1>4. CASE UNCHANGED crossVars
  <2>1. UNCHANGED <<state, out, request, pc, want, mode>>
    BY <1>4 DEF crossVars, vars, others
  <2>2. QED
    BY <2>1 DEF ValuesInv, Spread, Under, Distinct
<1>5. QED
  BY Zenon, <1>1, <1>2, <1>3, <1>4 DEF CrossNext

LEMMA ValuesApart ==
  ASSUME NEW V, NEW rank, ValuesInv(V, rank)
  PROVE  NoBitTwice
<1> SUFFICES ASSUME pc = "idle" PROVE Apart(request, Answer(request, out))
  BY Zenon DEF NoBitTwice, Apart, Distinct
<1>1. /\ out \in Seq(V) /\ Distinct(out) /\ request \in Requests \cup {NoRequest}
      /\ IF TouchesSponge(request) THEN Len(out) = NumElements(request) ELSE out = <<>>
  BY DEF ValuesInv
<1>2. request \in Requests \/ request.kind = "elements"
  BY <1>1, NoRequestFacts
<1>3. CASE TouchesSponge(request)
  BY Zenon, <1>1, <1>2, <1>3, AnswerApart
<1>4. CASE ~ TouchesSponge(request)
  <2>1. request \in Requests /\ out = <<>>
    BY <1>1, <1>4, NoRequestFacts
  <2>2. Answer(request, out) = <<>>
    BY Zenon, <1>4, <2>1, NothingAnswered
  <2>3. QED
    BY <2>2 DEF Apart, Distinct
<1>5. QED
  BY <1>3, <1>4

(* No request gets a bit twice, however it is cut and whatever calls came  *)
(* before, as long as the permutation repeats no value.                    *)
THEOREM PoseidonNoBitTwice ==
  ASSUME NEW V, NEW rank, Ranked(V, rank)
  PROVE  CrossSpec => []NoBitTwice
<1>1. CrossInit => ValuesInv(V, rank)
  BY Zenon, InitValues
<1>2. PairInv /\ ValuesInv(V, rank) /\ [CrossNext]_crossVars => ValuesInv(V, rank)'
  BY Zenon, NextValues
<1>3. ValuesInv(V, rank) => NoBitTwice
  BY Zenon, ValuesApart
<1>4. QED
  BY <1>1, <1>2, <1>3, CrossInitPair, CrossNextPair, PTL DEF CrossSpec
=============================================================================
