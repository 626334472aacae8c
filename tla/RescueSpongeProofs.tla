------------------------- MODULE RescueSpongeProofs -------------------------
(***************************************************************************)
(* Proofs about RescueSponge for every rate, capacity, set of inputs and   *)
(* set of counts, and for every permutation and addition: what absorption  *)
(* keeps in any case, and what squeezing keeps as long as no call asks for *)
(* exactly one block.                                                      *)
(***************************************************************************)
EXTENDS RescueCross, SpongeVarProofs

Given == {"fresh", "emitted", "reemitted"}

(* Which cells are used below a position: for absorption always, for       *)
(* squeezing only if no call has asked for exactly a block.                *)
AbsorbedBelow(k) ==
  \A i \in RateCells :
    IF i < k THEN use[i] = "absorbed" ELSE use[i] \in {"zero", "fresh"}

EmittedBelow(k, spared) ==
  /\ \A i \in RateCells : use[i] \in Given
  /\ spared => \A i \in RateCells : use[i] = IF i < k THEN "emitted" ELSE "fresh"

(* The invariant, of a sponge that has been spared such calls or not.      *)
IInv(spared) ==
  /\ TypeOK
  /\ pc = "idle" /\ mode.kind = "Absorbing" => AbsorbedBelow(mode.index)
  /\ pc = "idle" /\ mode.kind = "Squeezing" => EmittedBelow(mode.index, spared)
  /\ pc = "absorb" => AbsorbedBelow(start)
  /\ pc = "squeeze" => EmittedBelow(start, spared)
  /\ pc = "squeeze" /\ want = Rate /\ spared => start = 0

USE DEF RateCells, Cells, Modes, Absorbing, Squeezing

(* The helpers keep the shape of what they change.                         *)
LEMMA Shapes ==
  ASSUME TypeOK
  PROVE  /\ \A s : DOMAIN Permuted(s) = Cells
         /\ \A s, f, n, e : DOMAIN AddRange(s, f, n, e) = Cells
         /\ AllFresh \in [RateCells -> Uses]
         /\ \A f, n : MarkAbsorbed(f, n) \in [RateCells -> Uses]
         /\ \A f, n : MarkEmitted(f, n) \in [RateCells -> Uses]
BY DEF TypeOK, Permuted, AddRange, AllFresh, MarkAbsorbed, MarkEmitted,
       AfterEmit, AfterAbsorb, Uses

(* A permuted state can be absorbed into or handed out from the start.     *)
LEMMA FreshBelow ==
  ASSUME use' = AllFresh
  PROVE  AbsorbedBelow(0)' /\ \A c \in BOOLEAN : EmittedBelow(0, c)'
BY DEF AllFresh, AbsorbedBelow, EmittedBelow, Given

(* The invariant holds of a new sponge.                                    *)
LEMMA InitIInv == \A c \in BOOLEAN : Init => IInv(c)
BY RateAssumption, CapacityAssumption
   DEF Init, IInv, TypeOK, AbsorbedBelow, Uses

(* Entering absorb_internal at a position below which all is absorbed.     *)
LEMMA EnterAbsorbIInv ==
  ASSUME NEW c \in BOOLEAN, IInv(c), pc = "idle", NEW from \in 0 .. Rate, NEW elems \in Inputs,
         NEW b \in BOOLEAN, EnterAbsorb(from, elems, b),
         IF b THEN from = 0 ELSE AbsorbedBelow(from)
  PROVE  IInv(c)'
<1>1. TypeOK'
  BY Shapes, InputsAssumption, RateAssumption DEF IInv, TypeOK, EnterAbsorb
<1>2. AbsorbedBelow(from)'
  <2>1. CASE b
    BY <2>1, FreshBelow DEF EnterAbsorb
  <2>2. CASE ~b
    BY <2>2 DEF EnterAbsorb, AbsorbedBelow
  <2>3. QED
    BY <2>1, <2>2
<1>3. pc' = "absorb" /\ start' = from
  BY DEF EnterAbsorb
<1>4. QED
  BY <1>1, <1>2, <1>3 DEF IInv, AbsorbedBelow

(* Entering squeeze_internal at a position below which all is handed out.  *)
LEMMA EnterSqueezeIInv ==
  ASSUME NEW c \in BOOLEAN, IInv(c), pc = "idle", NEW from \in 0 .. Rate, NEW n \in Nat,
         NEW b \in BOOLEAN, EnterSqueeze(from, n, b),
         IF b THEN from = 0 ELSE EmittedBelow(from, c),
         NEW d \in BOOLEAN, d => c /\ n # Rate
  PROVE  IInv(d)'
<1>1. TypeOK'
  BY Shapes, RateAssumption DEF IInv, TypeOK, EnterSqueeze
<1>2. EmittedBelow(from, d)'
  <2>1. CASE b
    BY <2>1, FreshBelow DEF EnterSqueeze
  <2>2. CASE ~b
    BY <2>2 DEF EnterSqueeze, EmittedBelow
  <2>3. QED
    BY <2>1, <2>2
<1>3. pc' = "squeeze" /\ start' = from /\ want' = n
  BY DEF EnterSqueeze
<1>4. QED
  BY <1>1, <1>2, <1>3 DEF IInv, EmittedBelow

(* A block absorbed and permuted can be absorbed into again.               *)
LEMMA AbsorbChunkIInv ==
  ASSUME NEW c \in BOOLEAN, IInv(c), AbsorbChunk
  PROVE  IInv(c)'
<1>1. TypeOK'
  BY Shapes, RateAssumption DEF IInv, TypeOK, AbsorbChunk
<1>2. pc' = "absorb" /\ start' = 0 /\ AbsorbedBelow(0)'
  BY FreshBelow DEF AbsorbChunk
<1>3. QED
  BY <1>1, <1>2 DEF IInv, AbsorbedBelow

(* The last part of an input goes to cells that have taken none.           *)
LEMMA AbsorbLastIInv ==
  ASSUME NEW c \in BOOLEAN, IInv(c), AbsorbLast
  PROVE  IInv(c)'
<1>1. Len(remaining) \in Nat /\ start \in 0 .. Rate /\ AbsorbedBelow(start)
  BY DEF IInv, TypeOK, AbsorbLast
<1>2. TypeOK'
  BY <1>1, Shapes, RateAssumption DEF IInv, TypeOK, AbsorbLast
<1>3. \A i \in RateCells :
        use'[i] = IF i \in start .. (start + Len(remaining) - 1)
                  THEN "absorbed" ELSE use[i]
  BY <1>1, RateAssumption
     DEF AbsorbLast, AbsorbedBelow, MarkAbsorbed, AfterAbsorb
<1>4. pc' = "idle" /\ mode' = Absorbing(start + Len(remaining))
  BY DEF AbsorbLast
<1>5. AbsorbedBelow(mode.index)'
  BY <1>1, <1>3, <1>4 DEF AbsorbedBelow
<1>6. QED
  BY <1>2, <1>4, <1>5 DEF IInv

(* A block handed out: permuted unless the call asked for a whole block in *)
(* the middle of one.                                                      *)
LEMMA SqueezeChunkIInv ==
  ASSUME NEW c \in BOOLEAN, IInv(c), SqueezeChunk
  PROVE  IInv(c)'
<1>1. /\ want \in Nat /\ start \in 0 .. Rate /\ EmittedBelow(start, c)
      /\ want = Rate /\ c => start = 0
  BY DEF IInv, TypeOK, SqueezeChunk
<1>2. TypeOK'
  BY <1>1, Shapes, RateAssumption DEF IInv, TypeOK, SqueezeChunk
<1>3. EmittedBelow(0, c)'
  <2>1. CASE want # Rate
    BY <2>1, FreshBelow DEF SqueezeChunk
  <2>2. CASE want = Rate
    <3>1. ~ c
      BY <1>1, <2>2, RateAssumption DEF SqueezeChunk
    <3>2. use' = MarkEmitted(start, Rate - start)
      BY <2>2 DEF SqueezeChunk
    <3>3. QED
      BY <1>1, <3>1, <3>2 DEF EmittedBelow, MarkEmitted, AfterEmit, Given
  <2>3. QED
    BY <2>1, <2>2
<1>4. pc' = "squeeze" /\ start' = 0
  BY DEF SqueezeChunk
<1>5. QED
  BY <1>2, <1>3, <1>4 DEF IInv, EmittedBelow

(* The last part of an output.                                             *)
LEMMA SqueezeLastIInv ==
  ASSUME NEW c \in BOOLEAN, IInv(c), SqueezeLast
  PROVE  IInv(c)'
<1>1. want \in Nat /\ start \in 0 .. Rate /\ EmittedBelow(start, c)
  BY DEF IInv, TypeOK, SqueezeLast
<1>2. TypeOK'
  BY <1>1, Shapes, RateAssumption DEF IInv, TypeOK, SqueezeLast
<1>3. \A i \in RateCells :
        use'[i] = IF i \in start .. (start + want - 1)
                  THEN AfterEmit(use[i]) ELSE use[i]
  BY DEF SqueezeLast, MarkEmitted
<1>4. pc' = "idle" /\ mode' = Squeezing(start + want)
  BY DEF SqueezeLast
<1>5. \A i \in RateCells : use'[i] \in Given
  BY <1>1, <1>3 DEF EmittedBelow, AfterEmit, Given
<1>6. ASSUME c
      PROVE  \A i \in RateCells :
               use'[i] = IF i < start + want THEN "emitted" ELSE "fresh"
  BY <1>1, <1>3, <1>6 DEF EmittedBelow, AfterEmit
<1>7. EmittedBelow(mode.index, c)'
  BY <1>4, <1>5, <1>6 DEF EmittedBelow
<1>8. QED
  BY <1>2, <1>4, <1>7 DEF IInv

(* So do the operations, whatever is asked for.                            *)
LEMMA AbsorbIInv ==
  ASSUME NEW c \in BOOLEAN, IInv(c), NEW elems \in Inputs, Absorb(elems)
  PROVE  IInv(c)'
<1>1. 0 \in 0 .. Rate /\ mode.index \in 0 .. Rate
  BY RateAssumption DEF IInv, TypeOK
<1>2. CASE AbsorbMore(elems)
  <2>1. pc = "idle" /\ AbsorbedBelow(mode.index)
    BY <1>2 DEF AbsorbMore, IInv
  <2>2. QED
    BY <1>1, <1>2, <2>1, EnterAbsorbIInv DEF AbsorbMore
<1>3. CASE AbsorbAfterSqueeze(elems)
  <2>1. pc = "idle" /\ EnterAbsorb(0, elems, TRUE)
    BY <1>3 DEF AbsorbAfterSqueeze
  <2>2. QED
    BY <1>1, <2>1, EnterAbsorbIInv
<1>4. QED
  BY <1>2, <1>3 DEF Absorb

LEMMA SqueezeIInv ==
  ASSUME NEW c \in BOOLEAN, IInv(c), NEW n \in Nat, Squeeze(n),
         NEW d \in BOOLEAN, d => c /\ n # Rate
  PROVE  IInv(d)'
<1>1. 0 \in 0 .. Rate /\ mode.index \in 0 .. Rate
  BY RateAssumption DEF IInv, TypeOK
<1>2. CASE SqueezeAfterAbsorb(n)
  <2>1. pc = "idle" /\ EnterSqueeze(0, n, TRUE)
    BY <1>2 DEF SqueezeAfterAbsorb
  <2>2. QED
    BY <1>1, <2>1, EnterSqueezeIInv
<1>3. CASE SqueezeMore(n)
  <2>1. pc = "idle" /\ EmittedBelow(mode.index, c)
    BY <1>3 DEF SqueezeMore, IInv
  <2>2. QED
    BY <1>1, <1>3, <2>1, EnterSqueezeIInv DEF SqueezeMore
<1>4. QED
  BY <1>2, <1>3 DEF Squeeze

LEMMA LoopIInv ==
  ASSUME NEW c \in BOOLEAN, IInv(c), Loop
  PROVE  IInv(c)'
BY AbsorbChunkIInv, AbsorbLastIInv, SqueezeChunkIInv, SqueezeLastIInv DEF Loop

(* Nor does it depend on the output of the last call.                      *)
LEMMA QuietIInv ==
  ASSUME NEW c \in BOOLEAN, IInv(c), NEW d \in BOOLEAN, d => c,
         UNCHANGED <<state, mode, pc, start, remaining, want, use>>
  PROVE  IInv(d)'
BY DEF IInv, TypeOK, AbsorbedBelow, EmittedBelow

(* Every step preserves the invariant.                                     *)
LEMMA NextIInv ==
  ASSUME NEW c \in BOOLEAN, IInv(c), c => Rate \notin Counts, [Next]_vars
  PROVE  IInv(c)'
<1>1. CASE AbsorbNothing
  BY <1>1, QuietIInv DEF AbsorbNothing
<1>2. ASSUME NEW elems \in Inputs, Absorb(elems) PROVE IInv(c)'
  BY <1>2, AbsorbIInv
<1>3. ASSUME NEW n \in Counts, Squeeze(n) PROVE IInv(c)'
  <2>1. n \in Nat /\ (c => c /\ n # Rate)
    BY CountsAssumption
  <2>2. QED
    BY <1>3, <2>1, SqueezeIInv
<1>4. CASE Loop
  BY <1>4, LoopIInv
<1>5. CASE UNCHANGED vars
  BY <1>5, QuietIInv DEF vars
<1>6. QED
  BY <1>1, <1>2, <1>3, <1>4, <1>5 DEF Next

(* What an idle or running sponge has done to its cells.                   *)
LEMMA UsesOfIInv ==
  ASSUME NEW c \in BOOLEAN, IInv(c)
  PROVE  \/ \A i \in RateCells : use[i] \in {"zero", "fresh", "absorbed"}
         \/ pc # "absorb" /\ \A i \in RateCells : use[i] \in Given
BY DEF IInv, TypeOK, AbsorbedBelow, EmittedBelow

LEMMA SparedIInv ==
  ASSUME IInv(TRUE)
  PROVE  NeverReemitted
BY DEF IInv, TypeOK, AbsorbedBelow, EmittedBelow, NeverReemitted

(* Whatever calls are made, no cell takes two inputs between two           *)
(* permutations, none is handed out as absorption left it, and no input is *)
(* added to a cell that has been handed out.                               *)
THEOREM RescueAbsorbDiscipline == Spec => []AbsorbDiscipline
<1>1. Init => IInv(FALSE)
  BY InitIInv
<1>2. IInv(FALSE) /\ [Next]_vars => IInv(FALSE)'
  BY NextIInv
<1>3. IInv(FALSE) => AbsorbDiscipline
  BY UsesOfIInv DEF AbsorbDiscipline, NeverReabsorbed, NeverLeaked, Given
<1>4. QED
  BY <1>1, <1>2, <1>3, PTL DEF Spec

(* As long as no call asks for exactly Rate elements, no cell is handed    *)
(* out twice between two permutations.                                     *)
THEOREM RescueNeverReemitted ==
  ASSUME Rate \notin Counts
  PROVE  Spec => []NeverReemitted
<1>1. Init => IInv(TRUE)
  BY InitIInv
<1>2. IInv(TRUE) /\ [Next]_vars => IInv(TRUE)'
  BY NextIInv
<1>3. IInv(TRUE) => NeverReemitted
  BY SparedIInv
<1>4. QED
  BY <1>1, <1>2, <1>3, PTL DEF Spec

-----------------------------------------------------------------------------
(* The sponge and its gadget given the same calls.                         *)
CrossInv ==
  /\ whole \in BOOLEAN
  /\ IInv(~ whole)
  /\ Paired(var, varAnswer, request)

LEMMA CrossInitInv == CrossInit => CrossInv
<1> SUFFICES ASSUME CrossInit PROVE CrossInv
  OBVIOUS
<1>1. whole \in BOOLEAN /\ IInv(~ whole)
  BY InitIInv DEF CrossInit
<1>2. var.state = state /\ var.mode = mode
  BY DEF CrossInit, Init, VarNew
<1>3. pc = "idle" /\ out = <<>> /\ request.kind = "elements" /\ varAnswer = <<>>
  BY DEF CrossInit, Init, NoRequest
<1>4. varAnswer = Answer(request, out)
  BY <1>3 DEF Answer, Whole, Windowed
<1>5. QED
  BY <1>1, <1>2, <1>3, <1>4, NothingGiven DEF CrossInv, Paired

(* An absorb: the gadget has laid out the loop the sponge enters.          *)
LEMMA CrossAbsorbPaired ==
  ASSUME CrossInv, NEW elems \in Inputs, CrossAbsorb(elems)
  PROVE  Paired(var, varAnswer, request)'
<1>1. TypeOK /\ Paired(var, varAnswer, request)
  BY DEF CrossInv, IInv
<1>2. var' = VarAbsorb(var, elems) /\ varAnswer' = <<>> /\ request' = NoRequest
  BY DEF CrossAbsorb
<1>3. PICK r, v : r = NoRequest /\ v = VarAbsorb(var, elems)
  OBVIOUS
<1>4. r.kind = "elements"
  BY <1>3 DEF NoRequest
<1>5. CASE elems = <<>>
  <2>1. AbsorbNothing /\ v = var
    BY <1>3, <1>5 DEF CrossAbsorb, VarAbsorb
  <2>2. v.state = state /\ v.mode = mode /\ pc = "idle" /\ out' = <<>>
    BY <1>1, <2>1 DEF AbsorbNothing, Paired
  <2>3. Answer(r, <<>>) = <<>>
    BY <1>4 DEF Answer, Whole, Windowed
  <2>4. UNCHANGED <<state, mode, pc, start, remaining, want>>
    BY <2>1 DEF AbsorbNothing
  <2>5. Paired(v, <<>>, r)'
    BY <1>4, <2>2, <2>3, <2>4, QuietPaired
  <2>6. QED
    BY <1>2, <1>3, <2>5 DEF Paired
<1>6. CASE elems # <<>>
  <2>1. Absorb(elems) /\ pc = "idle" /\ mode.index \in 0 .. Rate
    BY <1>1, <1>6 DEF CrossAbsorb, Absorb, AbsorbMore, AbsorbAfterSqueeze, TypeOK
  <2>2. PICK s, i : s = state /\ i = mode.index
    OBVIOUS
  <2>3. var.state = s /\ var.mode = mode
    BY <1>1, <2>1, <2>2 DEF Paired
  <2>4. ASSUME NEW from \in 0 .. (Rate - 1), NEW b \in BOOLEAN,
               EnterAbsorb(from, elems, b),
               v = VarAbsorbInternal(IF b THEN Permuted(state) ELSE state, from, elems)
        PROVE  Paired(v, <<>>, r)'
    BY <1>4, <2>4, EnterAbsorbPaired
  <2>5. 0 \in 0 .. (Rate - 1) /\ (i # Rate => i \in 0 .. (Rate - 1))
    BY <2>1, <2>2, RateAssumption
  <2>6. Paired(v, <<>>, r)'
    <3>1. CASE AbsorbMore(elems) /\ i = Rate
      <4>1. EnterAbsorb(0, elems, TRUE)
        BY <2>2, <3>1 DEF AbsorbMore
      <4>2. v = VarAbsorbInternal(Permuted(s), 0, elems)
        BY <1>3, <1>6, <2>2, <2>3, <3>1 DEF VarAbsorb, AbsorbMore
      <4>3. QED
        BY <2>2, <2>4, <2>5, <4>1, <4>2
    <3>2. CASE AbsorbMore(elems) /\ i # Rate
      <4>1. EnterAbsorb(i, elems, FALSE)
        BY <2>2, <3>2 DEF AbsorbMore
      <4>2. v = VarAbsorbInternal(s, i, elems)
        BY <1>3, <1>6, <2>2, <2>3, <3>2 DEF VarAbsorb, AbsorbMore
      <4>3. QED
        BY <2>2, <2>4, <2>5, <3>2, <4>1, <4>2
    <3>3. CASE AbsorbAfterSqueeze(elems)
      <4>1. EnterAbsorb(0, elems, TRUE) /\ mode.kind = "Squeezing"
        BY <3>3 DEF AbsorbAfterSqueeze
      <4>2. v = VarAbsorbInternal(Permuted(s), 0, elems)
        BY <1>3, <1>6, <2>3, <4>1, GadgetAssumption DEF VarAbsorb
      <4>3. QED
        BY <2>2, <2>4, <2>5, <4>1, <4>2
    <3>4. QED
      BY <2>1, <3>1, <3>2, <3>3 DEF Absorb
  <2>7. QED
    BY <1>2, <1>3, <2>6 DEF Paired
<1>7. QED
  BY <1>5, <1>6

(* A request: the same, or nothing at all.                                 *)
LEMMA CrossRequestPaired ==
  ASSUME CrossInv, NEW r \in Requests, CrossRequest(r)
  PROVE  Paired(var, varAnswer, request)'
<1>1. TypeOK /\ Paired(var, varAnswer, request)
  BY DEF CrossInv, IInv
<1>2. /\ var' = VarRequest(var, r).sponge /\ varAnswer' = VarRequest(var, r).answer
      /\ request' = r
  BY DEF CrossRequest
<1>3. CASE ~ TouchesSponge(r)
  <2>1. PICK v : v = var
    OBVIOUS
  <2>2. var' = v /\ varAnswer' = <<>>
    BY <1>2, <1>3, <2>1, VarRequestIs
  <2>3. pc = "idle" /\ out' = <<>> /\ UNCHANGED <<state, mode, pc, start, remaining, want>>
    BY <1>3 DEF CrossRequest
  <2>4. v.state = state /\ v.mode = mode
    BY <1>1, <2>1, <2>3 DEF Paired
  <2>5. Answer(r, <<>>) = <<>>
    BY <1>3, NothingAnswered
  <2>6. Paired(v, <<>>, r)'
    BY <2>3, <2>4, <2>5, QuietPaired
  <2>7. QED
    BY <1>2, <2>2, <2>6 DEF Paired
<1>4. CASE TouchesSponge(r)
  <2>1. PICK n : n = NumElements(r)
    OBVIOUS
  <2>2. Squeeze(n) /\ pc = "idle" /\ mode.index \in 0 .. Rate
    BY <1>1, <1>4, <2>1 DEF CrossRequest, Squeeze, SqueezeAfterAbsorb, SqueezeMore, TypeOK
  <2>3. PICK s, i, g : s = state /\ i = mode.index /\ g = VarSqueeze(var, n)
    OBVIOUS
  <2>4. var.state = s /\ var.mode = mode
    BY <1>1, <2>2, <2>3 DEF Paired
  <2>5. ASSUME NEW from \in 0 .. (Rate - 1), NEW b \in BOOLEAN,
               EnterSqueeze(from, n, b),
               g = VarGive(IF b THEN Permuted(state) ELSE state, from, n, <<>>)
        PROVE  Paired(g.sponge, VarAnswer(r, g.out), r)'
    BY <2>5, EnterSqueezePaired
  <2>6. 0 \in 0 .. (Rate - 1) /\ (i # Rate => i \in 0 .. (Rate - 1))
    BY <2>2, <2>3, RateAssumption
  <2>7. \A t, from : VarSqueezeInternal(t, from, n) = VarGive(t, from, n, <<>>)
    BY DEF VarSqueezeInternal, VarGive
  <2>8. Paired(g.sponge, VarAnswer(r, g.out), r)'
    <3>1. CASE SqueezeAfterAbsorb(n)
      <4>1. EnterSqueeze(0, n, TRUE) /\ mode.kind = "Absorbing"
        BY <3>1 DEF SqueezeAfterAbsorb
      <4>2. g = VarGive(Permuted(s), 0, n, <<>>)
        BY <2>3, <2>4, <2>7, <4>1 DEF VarSqueeze
      <4>3. QED
        BY <2>3, <2>5, <2>6, <4>1, <4>2
    <3>2. CASE SqueezeMore(n) /\ i = Rate
      <4>1. EnterSqueeze(0, n, TRUE) /\ mode.kind = "Squeezing"
        BY <2>3, <3>2 DEF SqueezeMore
      <4>2. g = VarGive(Permuted(s), 0, n, <<>>)
        BY <2>3, <2>4, <2>7, <3>2, <4>1 DEF VarSqueeze
      <4>3. QED
        BY <2>3, <2>5, <2>6, <4>1, <4>2
    <3>3. CASE SqueezeMore(n) /\ i # Rate
      <4>1. EnterSqueeze(i, n, FALSE) /\ mode.kind = "Squeezing"
        BY <2>3, <3>3 DEF SqueezeMore
      <4>2. g = VarGive(s, i, n, <<>>)
        BY <2>3, <2>4, <2>7, <3>3, <4>1 DEF VarSqueeze
      <4>3. QED
        BY <2>3, <2>5, <2>6, <3>3, <4>1, <4>2
    <3>4. QED
      BY <2>2, <3>1, <3>2, <3>3 DEF Squeeze
  <2>9. var' = g.sponge /\ varAnswer' = VarAnswer(r, g.out)
    BY <1>2, <1>4, <2>1, <2>3, VarRequestIs
  <2>10. QED
    BY <1>2, <2>8, <2>9 DEF Paired
<1>5. QED
  BY <1>3, <1>4

(* A turn of a loop.                                                       *)
LEMMA CrossLoopPaired ==
  ASSUME CrossInv, Loop, UNCHANGED others
  PROVE  Paired(var, varAnswer, request)'
<1>1. PICK v, a, r : v = var /\ a = varAnswer /\ r = request
  OBVIOUS
<1>2. TypeOK /\ Paired(v, a, r)
  BY <1>1 DEF CrossInv, IInv
<1>3. Paired(v, a, r)'
  <2>1. CASE AbsorbChunk
    BY <1>2, <2>1, AbsorbChunkPaired
  <2>2. CASE AbsorbLast
    BY <1>2, <2>2, AbsorbLastPaired
  <2>3. CASE SqueezeLast
    BY <1>2, <2>3, SqueezeLastPaired
  <2>4. CASE SqueezeChunk
    <3>1. /\ pc = "squeeze" /\ start + want > Rate
          /\ out' = out \o ReadRange(state, start, Rate - start)
          /\ want' = want - (Rate - start)
          /\ state' = IF (IF Rescue THEN want # Rate ELSE want - (Rate - start) # 0)
                      THEN Permuted(state) ELSE state
          /\ start' = 0 /\ pc' = pc
      BY <2>4, GadgetAssumption DEF SqueezeChunk
    <3>2. QED
      BY <1>2, <3>1, SqueezeChunkPaired
  <2>5. QED
    BY <2>1, <2>2, <2>3, <2>4 DEF Loop
<1>4. var' = v /\ varAnswer' = a /\ request' = r
  BY <1>1 DEF others
<1>5. QED
  BY <1>3, <1>4 DEF Paired

LEMMA CrossNextInv == CrossInv /\ [CrossNext]_crossVars => CrossInv'
<1> SUFFICES ASSUME CrossInv, [CrossNext]_crossVars PROVE CrossInv'
  OBVIOUS
<1>1. PICK c, d : c = (~ whole) /\ d = (~ whole')
  OBVIOUS
<1>2. whole \in BOOLEAN /\ c \in BOOLEAN /\ IInv(c)
  BY <1>1 DEF CrossInv
<1>3. ASSUME NEW elems \in Inputs, CrossAbsorb(elems) PROVE CrossInv'
  <2>1. whole' = whole /\ d = c
    BY <1>1, <1>3 DEF CrossAbsorb
  <2>2. IInv(c)'
    <3>1. CASE elems = <<>>
      BY <1>2, <1>3, <3>1, QuietIInv DEF CrossAbsorb, AbsorbNothing
    <3>2. CASE elems # <<>>
      BY <1>2, <1>3, <3>2, AbsorbIInv DEF CrossAbsorb
    <3>3. QED
      BY <3>1, <3>2
  <2>3. Paired(var, varAnswer, request)'
    BY <1>3, CrossAbsorbPaired
  <2>4. QED
    BY <1>1, <1>2, <2>1, <2>2, <2>3 DEF CrossInv
<1>4. ASSUME NEW r \in Requests, CrossRequest(r) PROVE CrossInv'
  <2>1. PICK n : n = NumElements(r) /\ n \in Nat
    BY NumElementsNat
  <2>2. whole' = (whole \/ n = Rate)
    BY <1>4, <2>1 DEF CrossRequest
  <2>3. whole' \in BOOLEAN /\ d \in BOOLEAN /\ (d => c /\ n # Rate)
    BY <1>1, <1>2, <2>2
  <2>4. IInv(d)'
    <3>1. CASE TouchesSponge(r)
      <4>1. Squeeze(n)
        BY <1>4, <2>1, <3>1 DEF CrossRequest
      <4>2. QED
        BY <1>2, <2>1, <2>3, <4>1, SqueezeIInv
    <3>2. CASE ~ TouchesSponge(r)
      <4>1. UNCHANGED <<state, mode, pc, start, remaining, want, use>>
        BY <1>4, <3>2 DEF CrossRequest
      <4>2. QED
        BY <1>2, <2>3, <4>1, QuietIInv
    <3>3. QED
      BY <3>1, <3>2
  <2>5. Paired(var, varAnswer, request)'
    BY <1>4, CrossRequestPaired
  <2>6. QED
    BY <1>1, <2>3, <2>4, <2>5 DEF CrossInv
<1>5. CASE Loop /\ UNCHANGED others
  <2>1. whole' = whole /\ d = c
    BY <1>1, <1>5 DEF others
  <2>2. IInv(c)'
    BY <1>2, <1>5, LoopIInv
  <2>3. Paired(var, varAnswer, request)'
    BY <1>5, CrossLoopPaired
  <2>4. QED
    BY <1>1, <1>2, <2>1, <2>2, <2>3 DEF CrossInv
<1>6. CASE UNCHANGED crossVars
  <2>1. UNCHANGED vars /\ UNCHANGED others
    BY <1>6 DEF crossVars
  <2>2. IInv(c)'
    BY <1>2, <2>1, QuietIInv DEF vars
  <2>3. Paired(var, varAnswer, request)'
    BY <2>1 DEF vars, others, CrossInv, Paired
  <2>4. whole' = whole /\ d = c
    BY <1>1, <2>1 DEF others
  <2>5. QED
    BY <1>1, <1>2, <2>2, <2>3, <2>4 DEF CrossInv
<1>7. QED
  BY <1>3, <1>4, <1>5, <1>6 DEF CrossNext

(* Whatever a caller has absorbed and squeezed, in any order, no cell is   *)
(* handed out twice between two permutations unless some call asked for    *)
(* exactly one block.                                                      *)
THEOREM RescueOnlyWholeBlocksReemit == CrossSpec => []OnlyWholeBlocksReemit
<1>1. CrossInv => OnlyWholeBlocksReemit
  <2> SUFFICES ASSUME CrossInv, ~ whole PROVE NeverReemitted
    BY DEF OnlyWholeBlocksReemit
  <2>1. IInv(TRUE)
    BY DEF CrossInv
  <2>2. QED
    BY <2>1, SparedIInv
<1>2. QED
  BY CrossInitInv, CrossNextInv, <1>1, PTL DEF CrossSpec

(* After the same calls RescueSpongeVar has the state and the position of  *)
(* RescueSponge and has given the same elements, bytes, bits or emulated   *)
(* elements, for every sequence of calls.                                  *)
THEOREM RescueGadgetFollows == CrossSpec => []GadgetFollows
<1>1. CrossInv => GadgetFollows
  BY DEF CrossInv, Paired, GadgetFollows
<1>2. QED
  BY CrossInitInv, CrossNextInv, <1>1, PTL DEF CrossSpec
=============================================================================
