--------------------------- MODULE GrainLFSRProofs ---------------------------
(***************************************************************************)
(* For every size of the register, every set of taps, every field and      *)
(* every entry of its tables: the ring of GrainLFSR implements the         *)
(* register that shifts, the numbers the generator hands out are those the *)
(* stream of that register defines, and the matrix made from the last ones *)
(* qualifies exactly if they have no duplicates.                           *)
(***************************************************************************)
EXTENDS GrainLFSR, Integers, WellFoundedInduction, TLAPS

(* The ring holds bits, and head is a position in it.                      *)
RegisterOK == state \in [Positions -> BOOLEAN] /\ head \in Positions

(* A position counted from another one wraps around at most once.          *)
LEMMA WrapAround ==
  ASSUME NEW h \in 0 .. (Size - 1), NEW k \in 0 .. Size
  PROVE  (h + k) % Size = IF h + k < Size THEN h + k ELSE h + k - Size
BY SizeAssumption

(* The register seeded by new is a register.                               *)
LEMMA SeedIsRegister ==
  ASSUME NEW inverse \in BOOLEAN, NEW n, NEW full, NEW partial
  PROVE  Seed(inverse, n, full, partial) \in [Positions -> BOOLEAN]
BY DEF Seed, BitOf, Positions

(* update writes a bit and stays in the ring.                              *)
LEMMA UpdateKeepsRegister ==
  ASSUME RegisterOK, Update
  PROVE  RegisterOK'
BY SizeAssumption DEF RegisterOK, Update, NewBit, Positions

(* update is a shift of the unrolled register.                             *)
LEMMA UpdateShifts ==
  ASSUME RegisterOK, Update
  PROVE  Unrolled' = Shifting!Shifted(Unrolled)
<1>1. NewBit = TapXor(Unrolled)
  <2>1. {t \in Taps : state[(head + t) % Size]} = {t \in Taps : Unrolled[t]}
    BY TapsAssumption DEF Unrolled, Positions
  <2> QED BY <2>1 DEF NewBit, TapXor
<1>2. head' = (head + 1) % Size /\ state' = [state EXCEPT ![head] = NewBit]
  BY DEF Update
<1>3. head' = IF head + 1 < Size THEN head + 1 ELSE 0
  <2>1. head \in 0 .. (Size - 1) /\ 1 \in 0 .. Size
    BY SizeAssumption DEF RegisterOK, Positions
  <2>2. (head + 1) % Size = IF head + 1 < Size THEN head + 1 ELSE head + 1 - Size
    BY <2>1, WrapAround
  <2> QED BY <2>1, <2>2, <1>2, SizeAssumption DEF RegisterOK, Positions
<1>4. ASSUME NEW i \in Positions
      PROVE  state'[(head' + i) % Size]
               = IF i = Size - 1 THEN NewBit ELSE Unrolled[i + 1]
  <2>0. /\ i \in 0 .. (Size - 1) /\ head \in 0 .. (Size - 1) /\ Size \in Nat
        /\ head' \in 0 .. (Size - 1)
    BY <1>3, SizeAssumption DEF RegisterOK, Positions
  <2>1. (head' + i) % Size = IF head' + i < Size THEN head' + i ELSE head' + i - Size
    <3>1. i \in 0 .. Size BY <2>0
    <3> QED BY <2>0, <3>1, WrapAround
  <2>2. CASE i = Size - 1
    <3>1. (head' + i) % Size = head
      BY <2>0, <2>1, <2>2, <1>3
    <3> QED BY <3>1, <2>2, <1>2 DEF RegisterOK
  <2>3. CASE i # Size - 1
    <3>1. (head + (i + 1)) % Size
            = IF head + (i + 1) < Size THEN head + (i + 1) ELSE head + (i + 1) - Size
      <4>1. i + 1 \in 0 .. Size BY <2>0
      <4> QED BY <2>0, <4>1, WrapAround
    <3>2. (head' + i) % Size = (head + (i + 1)) % Size
      BY <2>0, <2>1, <2>3, <3>1, <1>3
    <3>3. (head + (i + 1)) % Size \in 0 .. (Size - 1) /\ (head + (i + 1)) % Size # head
      BY <2>0, <2>3, <3>1
    <3>4. i + 1 \in Positions
      BY <2>0, <2>3 DEF Positions
    <3> QED BY <3>2, <3>3, <3>4, <2>3, <1>2 DEF RegisterOK, Unrolled, Positions
  <2> QED BY <2>2, <2>3
<1>5. Positions = Shifting!Positions
  BY DEF Positions, Shifting!Positions
<1> QED BY <1>1, <1>4, <1>5 DEF Unrolled, Shifting!Shifted

-----------------------------------------------------------------------------
(* A step of the generator updates the register once or leaves it alone.   *)
LEMMA OneUpdate ==
  ASSUME [Next]_vars
  PROVE  Update \/ UNCHANGED <<state, head>>
<1>1. CASE WarmUp BY <1>1 DEF WarmUp
<1>2. CASE FirstBit BY <1>2 DEF FirstBit
<1>3. CASE DiscardBit BY <1>3 DEF DiscardBit
<1>4. CASE SecondBit BY <1>4 DEF SecondBit
<1>5. CASE Accept BY <1>5 DEF Accept, Push
<1>6. CASE RejectNumber BY <1>6 DEF RejectNumber
<1>7. CASE Reduce BY <1>7 DEF Reduce, Push
<1>8. CASE FillMatrix BY <1>8 DEF FillMatrix
<1>9. CASE UNCHANGED vars BY <1>9 DEF vars
<1> QED BY <1>1, <1>2, <1>3, <1>4, <1>5, <1>6, <1>7, <1>8, <1>9 DEF Next

LEMMA InitRegister == Init => RegisterOK
<1> SUFFICES ASSUME Init PROVE RegisterOK
  OBVIOUS
<1>1. state = Seed(FALSE, entry.rate + 1, entry.full_rounds, entry.partial_rounds)
  BY DEF Init
<1>2. state \in [Positions -> BOOLEAN]
  BY <1>1, SeedIsRegister
<1>3. head \in Positions
  BY SizeAssumption DEF Init, Positions
<1> QED BY <1>2, <1>3 DEF RegisterOK

LEMMA RegisterStep == RegisterOK /\ [Next]_vars => RegisterOK'
<1> SUFFICES ASSUME RegisterOK, [Next]_vars PROVE RegisterOK'
  OBVIOUS
<1>1. CASE Update BY <1>1, UpdateKeepsRegister
<1>2. CASE UNCHANGED <<state, head>> BY <1>2 DEF RegisterOK, Positions
<1> QED BY <1>1, <1>2, OneUpdate

(* The generator's ring is the shift register of the paper, whatever its   *)
(* size, its taps and the parameters it is asked for.                      *)
THEOREM GrainIsShiftRegister == Spec => ImplementsShiftRegister
<1>1. Init => Shifting!ShiftInit
  <2> SUFFICES ASSUME Init PROVE DOMAIN Unrolled = Shifting!Positions
    BY DEF Shifting!ShiftInit
  <2> QED BY DEF Unrolled, Positions, Shifting!Positions
<1>2. RegisterOK /\ [Next]_vars => [Shifting!Shift]_Unrolled
  <2> SUFFICES ASSUME RegisterOK, [Next]_vars
               PROVE  Shifting!Shift \/ Unrolled' = Unrolled
    OBVIOUS
  <2>1. CASE Update BY <2>1, UpdateShifts DEF Shifting!Shift
  <2>2. CASE UNCHANGED <<state, head>> BY <2>2 DEF Unrolled
  <2> QED BY <2>1, <2>2, OneUpdate
<1> QED BY <1>1, <1>2, InitRegister, RegisterStep, PTL
     DEF Spec, ImplementsShiftRegister, Shifting!ShiftSpec

-----------------------------------------------------------------------------
(* Induction is stated for a set of numbers instead of a predicate, so     *)
(* that first-order provers can use it: the recursive functions of the     *)
(* models are reasoned about with it.  First: a set of natural numbers     *)
(* that is not empty has a least element.                                  *)
LEMMA LeastNumber ==
  ASSUME NEW S, S \subseteq Nat, S # {}
  PROVE  \E m \in S : \A n \in S : m <= n
<1>1. /\ IsWellFoundedOn(OpToRel(<, Nat), Nat)
      /\ \A n, m \in Nat : n < m => <<n, m>> \in OpToRel(<, Nat)
  <2>1. \A n, m \in Nat : n < m => <<n, m>> \in OpToRel(<, Nat)
    BY DEF OpToRel
  <2>2. QED
    BY <2>1, NatLessThanWellFounded
<1>2. \E R : /\ IsWellFoundedOn(R, Nat)
             /\ \A n, m \in Nat : n < m => <<n, m>> \in R
  BY <1>1
<1>3. PICK R : /\ IsWellFoundedOn(R, Nat)
               /\ \A n, m \in Nat : n < m => <<n, m>> \in R
  BY <1>2
<1>4. PICK m \in S : \A n \in S : ~ (<<n, m>> \in R)
  <2>1. IsWellFoundedOn(R, Nat)
    BY <1>3
  <2>2. QED
    BY <2>1, WFMin, ZenonT(30)
<1>5. \A n \in S : ~ (n < m)
  <2>1. \A n \in S : n \in Nat
    OBVIOUS
  <2>2. \A n, k \in Nat : n < k => <<n, k>> \in R
    BY <1>3
  <2>3. QED
    BY <1>4, <2>1, <2>2, Zenon
<1>6. QED
  BY <1>5

(* A set that has 0, and n + 1 with every n, has every natural number.     *)
LEMMA InductionOnSet ==
  ASSUME NEW S, 0 \in S, \A n \in Nat : n \in S => n + 1 \in S
  PROVE  Nat \subseteq S
<1> DEFINE T == Nat \ S
<1>1. SUFFICES ASSUME T # {} PROVE FALSE
  OBVIOUS
<1>2. PICK m \in T : \A n \in T : m <= n
  <2>1. T \subseteq Nat
    OBVIOUS
  <2> HIDE DEF T
  <2>2. QED
    BY <1>1, <2>1, LeastNumber
<1>3. m # 0 /\ m - 1 \in Nat /\ m - 1 + 1 = m
  OBVIOUS
<1>4. m - 1 \notin T
  BY <1>2, <1>3
<1>5. QED
  BY <1>3, <1>4

(* FlattenSeq joins its sequences one after the other.                     *)
IsFlat(n, seqs, f) ==
  f = [i \in 1 .. n |-> IF i = 1 THEN seqs[i] ELSE f[i - 1] \o seqs[i]]

LEMMA FlatExists ==
  ASSUME NEW n \in Nat, NEW seqs
  PROVE  \E f : IsFlat(n, seqs, f)
<1> DEFINE S == {m \in Nat : \E f : IsFlat(m, seqs, f)}
<1>1. 0 \in S
  <2>1. IsFlat(0, seqs, [i \in 1 .. 0 |-> 0])
    BY DEF IsFlat
  <2>2. QED
    BY <2>1
<1>2. ASSUME NEW m \in Nat, m \in S PROVE m + 1 \in S
  <2>1. PICK f : IsFlat(m, seqs, f)
    BY <1>2
  <2> DEFINE last == IF m + 1 = 1 THEN seqs[m + 1] ELSE f[m] \o seqs[m + 1]
             g == [i \in 1 .. (m + 1) |-> IF i = m + 1 THEN last ELSE f[i]]
  <2>2. ASSUME NEW i \in 1 .. (m + 1)
        PROVE  g[i] = IF i = 1 THEN seqs[i] ELSE g[i - 1] \o seqs[i]
    <3>1. CASE i = m + 1
      <4>1. i # 1 => i - 1 \in 1 .. (m + 1) /\ i - 1 # m + 1 /\ i - 1 = m
        BY <3>1
      <4>2. i # 1 => g[i - 1] = f[m]
        BY <4>1
      <4>3. g[i] = last
        BY <3>1
      <4>4. QED
        BY <3>1, <4>2, <4>3
    <3>2. CASE i # m + 1
      <4>1. i \in 1 .. m /\ (i # 1 => i - 1 \in 1 .. (m + 1) /\ i - 1 # m + 1)
        BY <3>2
      <4>2. f[i] = IF i = 1 THEN seqs[i] ELSE f[i - 1] \o seqs[i]
        <5>1. \A h : h = [j \in 1 .. m |-> IF j = 1 THEN seqs[j] ELSE f[j - 1] \o seqs[j]]
                => h[i] = IF i = 1 THEN seqs[i] ELSE f[i - 1] \o seqs[i]
          BY <4>1
        <5>2. QED
          BY <2>1, <5>1 DEF IsFlat
      <4>3. g[i] = f[i] /\ (i # 1 => g[i - 1] = f[i - 1])
        BY <3>2, <4>1
      <4>4. QED
        BY <4>2, <4>3
    <3>3. QED
      BY <3>1, <3>2
  <2>3. g = [i \in 1 .. (m + 1) |-> IF i = 1 THEN seqs[i] ELSE g[i - 1] \o seqs[i]]
    <3>1. g = [i \in 1 .. (m + 1) |-> g[i]]
      OBVIOUS
    <3> HIDE DEF g
    <3>2. QED
      BY <2>2, <3>1
  <2>4. IsFlat(m + 1, seqs, g)
    BY <2>3 DEF IsFlat
  <2> HIDE DEF g
  <2>5. QED
    BY <2>4
<1>3. QED
  <2> HIDE DEF S
  <2>1. n \in S
    BY <1>1, <1>2, InductionOnSet
  <2>2. QED
    BY <2>1 DEF S


(* What FlattenSeq gives for a sequence with one more at its end.          *)
LEMMA FlatValues ==
  ASSUME NEW S, NEW seqs \in Seq(Seq(S))
  PROVE  \E f : /\ IsFlat(Len(seqs), seqs, f)
                /\ FlattenSeq(seqs) = IF Len(seqs) = 0 THEN <<>> ELSE f[Len(seqs)]
<1> DEFINE n == Len(seqs)
           F(f) == [i \in 1 .. n |-> IF i = 1 THEN seqs[i] ELSE f[i - 1] \o seqs[i]]
           flat == CHOOSE f : f = F(f)
<1>1. n \in Nat /\ (n = 0 => seqs = <<>>)
  OBVIOUS
<1>2. FlattenSeq(seqs) = IF n = 0 THEN seqs ELSE flat[n]
  BY <1>1 DEF FlattenSeq
<1>3. flat = F(flat)
  <2>1. PICK f : f = F(f)
    BY Zenon, <1>1, FlatExists DEF IsFlat
  <2> HIDE DEF F
  <2>2. QED
    BY <2>1
<1>4. IsFlat(n, seqs, flat)
  BY Zenon, <1>3 DEF IsFlat
<1> HIDE DEF flat
<1>5. QED
  BY <1>1, <1>2, <1>4

LEMMA FlatSteps ==
  ASSUME NEW n \in Nat, NEW seqs, NEW f, IsFlat(n, seqs, f)
  PROVE  /\ n >= 1 => f[1] = seqs[1]
         /\ \A i \in 1 .. (n - 1) : f[i + 1] = f[i] \o seqs[i + 1]
<1>1. \A i \in 1 .. n : f[i] = IF i = 1 THEN seqs[i] ELSE f[i - 1] \o seqs[i]
  BY DEF IsFlat
<1>2. ASSUME NEW i \in 1 .. (n - 1) PROVE f[i + 1] = f[i] \o seqs[i + 1]
  <2>1. PICK j : j = i + 1
    OBVIOUS
  <2>2. j \in 1 .. n /\ j # 1 /\ j - 1 = i
    BY <2>1
  <2>3. f[j] = f[j - 1] \o seqs[j]
    BY <1>1, <2>2
  <2>4. QED
    BY <2>1, <2>2, <2>3
<1>3. ASSUME n >= 1 PROVE f[1] = seqs[1]
  <2>1. 1 \in 1 .. n
    BY <1>3
  <2>2. QED
    BY <1>1, <2>1
<1>4. QED
  BY <1>2, <1>3

LEMMA FlatAppend ==
  ASSUME NEW S, NEW seqs \in Seq(Seq(S)), NEW e \in Seq(S)
  PROVE  /\ FlattenSeq(seqs) \in Seq(S)
         /\ FlattenSeq(Append(seqs, e)) = FlattenSeq(seqs) \o e
<1> DEFINE n == Len(seqs)
           both == Append(seqs, e)
<1>1. /\ n \in Nat /\ both \in Seq(Seq(S)) /\ Len(both) = n + 1
      /\ both[n + 1] = e /\ \A i \in 1 .. n : both[i] = seqs[i] /\ seqs[i] \in Seq(S)
  OBVIOUS
<1>2. PICK f : /\ IsFlat(n, seqs, f)
               /\ FlattenSeq(seqs) = IF n = 0 THEN <<>> ELSE f[n]
  BY FlatValues
<1>3. PICK g : /\ IsFlat(n + 1, both, g)
               /\ FlattenSeq(both) = IF n + 1 = 0 THEN <<>> ELSE g[n + 1]
  BY <1>1, FlatValues
<1> HIDE DEF both
<1>4. /\ n >= 1 => f[1] = seqs[1]
      /\ \A i \in 1 .. (n - 1) : f[i + 1] = f[i] \o seqs[i + 1]
  BY ZenonT(60), <1>1, <1>2, FlatSteps
<1>5. /\ g[1] = both[1]
      /\ \A i \in 1 .. n : g[i + 1] = g[i] \o both[i + 1]
  <2>1. PICK m : m = n + 1
    OBVIOUS
  <2>2. m \in Nat /\ m >= 1 /\ m - 1 = n
    BY <1>1, <2>1
  <2>3. IsFlat(m, both, g)
    BY <1>3, <2>1
  <2>4. /\ m >= 1 => g[1] = both[1]
        /\ \A i \in 1 .. (m - 1) : g[i + 1] = g[i] \o both[i + 1]
    <3> HIDE DEF n
    <3>1. QED
      BY <2>2, <2>3, FlatSteps
  <2>5. QED
    BY <2>2, <2>4
<1> DEFINE T == {i \in Nat : i + 1 <= n => f[i + 1] \in Seq(S) /\ g[i + 1] = f[i + 1]}
<1>6. 0 \in T
  BY <1>1, <1>4, <1>5
<1>7. ASSUME NEW i \in Nat, i \in T PROVE i + 1 \in T
  <2> SUFFICES ASSUME i + 1 + 1 <= n
               PROVE  f[i + 1 + 1] \in Seq(S) /\ g[i + 1 + 1] = f[i + 1 + 1]
    OBVIOUS
  <2>1. PICK k : k = i + 1
    OBVIOUS
  <2>2. k \in 1 .. (n - 1) /\ k \in 1 .. n /\ k + 1 \in 1 .. n
    BY <1>1, <2>1
  <2>3. f[k] \in Seq(S) /\ g[k] = f[k]
    BY <1>7, <2>1, <2>2
  <2>4. f[k + 1] = f[k] \o seqs[k + 1] /\ g[k + 1] = g[k] \o both[k + 1]
    BY <1>4, <1>5, <2>2
  <2>5. both[k + 1] = seqs[k + 1] /\ seqs[k + 1] \in Seq(S)
    BY <1>1, <2>2
  <2>6. f[k + 1] \in Seq(S)
    BY <2>3, <2>4, <2>5
  <2>7. QED
    BY <2>1, <2>3, <2>4, <2>5, <2>6
<1>8. n >= 1 => f[n] \in Seq(S) /\ g[n] = f[n]
  <2> HIDE DEF T
  <2>1. Nat \subseteq T
    BY <1>6, <1>7, InductionOnSet
  <2> SUFFICES ASSUME n >= 1 PROVE f[n] \in Seq(S) /\ g[n] = f[n]
    OBVIOUS
  <2>2. PICK k : k = n - 1
    OBVIOUS
  <2>3. k \in Nat /\ k + 1 = n
    BY <1>1, <2>2
  <2>4. k \in T
    BY <2>1, <2>3
  <2>5. k + 1 <= n => f[k + 1] \in Seq(S) /\ g[k + 1] = f[k + 1]
    BY <2>4 DEF T
  <2>6. QED
    BY <1>1, <2>3, <2>5
<1>9. CASE n = 0
  <2>1. FlattenSeq(seqs) = <<>> /\ FlattenSeq(both) = e
    BY <1>1, <1>2, <1>3, <1>5, <1>9
  <2>2. QED
    BY <2>1 DEF both
<1>10. CASE n # 0
  <2>1. n >= 1 /\ n \in 1 .. n
    BY <1>1, <1>10
  <2>2. FlattenSeq(seqs) = f[n] /\ FlattenSeq(both) = g[n + 1]
    BY <1>1, <1>2, <1>3, <1>10
  <2>3. g[n + 1] = g[n] \o both[n + 1]
    BY <1>5, <2>1
  <2>4. QED
    BY <1>1, <1>8, <2>1, <2>2, <2>3 DEF both
<1>11. QED
  BY <1>9, <1>10

-----------------------------------------------------------------------------
(* Numbers of digits, the most significant one first.                      *)
IsHorner(base, n, digits, f) ==
  f = [k \in 0 .. n |-> IF k = 0 THEN 0 ELSE base * f[k - 1] + digits[k]]

LEMMA HornerExists ==
  ASSUME NEW base, NEW n \in Nat, NEW digits
  PROVE  \E f : IsHorner(base, n, digits, f)
<1> DEFINE S == {m \in Nat : \E f : IsHorner(base, m, digits, f)}
<1>1. 0 \in S
  <2>1. IsHorner(base, 0, digits, [k \in 0 .. 0 |-> 0])
    BY DEF IsHorner
  <2>2. QED
    BY <2>1
<1>2. ASSUME NEW m \in Nat, m \in S PROVE m + 1 \in S
  <2>1. PICK f : IsHorner(base, m, digits, f)
    BY <1>2
  <2> DEFINE last == base * f[m] + digits[m + 1]
             g == [k \in 0 .. (m + 1) |-> IF k = m + 1 THEN last ELSE f[k]]
  <2>2. ASSUME NEW k \in 0 .. (m + 1)
        PROVE  g[k] = IF k = 0 THEN 0 ELSE base * g[k - 1] + digits[k]
    <3>1. CASE k = m + 1
      <4>1. k # 0 /\ k - 1 \in 0 .. (m + 1) /\ k - 1 # m + 1 /\ k - 1 = m
        BY <3>1
      <4>2. g[k - 1] = f[m]
        BY <4>1
      <4>3. g[k] = last
        BY <3>1
      <4>4. QED
        BY <3>1, <4>1, <4>2, <4>3
    <3>2. CASE k # m + 1
      <4>1. k \in 0 .. m /\ (k # 0 => k - 1 \in 0 .. (m + 1) /\ k - 1 # m + 1)
        BY <3>2
      <4>2. f[k] = IF k = 0 THEN 0 ELSE base * f[k - 1] + digits[k]
        <5>1. \A h : h = [j \in 0 .. m |-> IF j = 0 THEN 0 ELSE base * f[j - 1] + digits[j]]
                => h[k] = IF k = 0 THEN 0 ELSE base * f[k - 1] + digits[k]
          BY <4>1
        <5>2. QED
          BY <2>1, <5>1 DEF IsHorner
      <4>3. g[k] = f[k] /\ (k # 0 => g[k - 1] = f[k - 1])
        BY <3>2, <4>1
      <4>4. QED
        BY <4>2, <4>3
    <3>3. QED
      BY <3>1, <3>2
  <2>3. g = [k \in 0 .. (m + 1) |-> IF k = 0 THEN 0 ELSE base * g[k - 1] + digits[k]]
    <3>1. g = [k \in 0 .. (m + 1) |-> g[k]]
      OBVIOUS
    <3> HIDE DEF g
    <3>2. QED
      BY <2>2, <3>1
  <2>4. IsHorner(base, m + 1, digits, g)
    BY <2>3 DEF IsHorner
  <2> HIDE DEF g
  <2>5. QED
    BY <2>4
<1>3. QED
  <2> HIDE DEF S
  <2>1. n \in S
    BY <1>1, <1>2, InductionOnSet
  <2>2. QED
    BY <2>1 DEF S

LEMMA HornerSteps ==
  ASSUME NEW base \in Nat, NEW n \in Nat, NEW digits, NEW f,
         IsHorner(base, n, digits, f), \A k \in 1 .. n : digits[k] \in Nat
  PROVE  /\ f[0] = 0
         /\ \A k \in 0 .. n : f[k] \in Nat
         /\ \A k \in 0 .. (n - 1) : f[k + 1] = base * f[k] + digits[k + 1]
<1>1. \A k \in 0 .. n : f[k] = IF k = 0 THEN 0 ELSE base * f[k - 1] + digits[k]
  <2>1. \A h : h = [j \in 0 .. n |-> IF j = 0 THEN 0 ELSE base * f[j - 1] + digits[j]]
          => \A k \in 0 .. n : h[k] = IF k = 0 THEN 0 ELSE base * f[k - 1] + digits[k]
    OBVIOUS
  <2>2. QED
    BY <2>1 DEF IsHorner
<1>2. f[0] = 0
  <2>1. 0 \in 0 .. n
    OBVIOUS
  <2>2. QED
    BY <1>1, <2>1
<1>3. ASSUME NEW k \in 0 .. (n - 1) PROVE f[k + 1] = base * f[k] + digits[k + 1]
  <2>1. PICK j : j = k + 1
    OBVIOUS
  <2>2. j \in 0 .. n /\ j # 0 /\ j - 1 = k
    BY <2>1
  <2>3. f[j] = base * f[j - 1] + digits[j]
    BY <1>1, <2>2
  <2>4. QED
    BY <2>1, <2>2, <2>3
<1> DEFINE T == {k \in Nat : k <= n => f[k] \in Nat}
<1>4. 0 \in T
  BY <1>2
<1>5. ASSUME NEW k \in Nat, k \in T PROVE k + 1 \in T
  <2> SUFFICES ASSUME k + 1 <= n PROVE f[k + 1] \in Nat
    OBVIOUS
  <2>1. k \in 0 .. (n - 1) /\ k + 1 \in 1 .. n /\ k <= n
    OBVIOUS
  <2>2. f[k] \in Nat /\ digits[k + 1] \in Nat
    BY <1>5, <2>1
  <2>3. base * f[k] \in Nat
    BY <2>2
  <2>4. f[k + 1] = base * f[k] + digits[k + 1]
    BY <1>3, <2>1
  <2>5. QED
    BY <2>2, <2>3, <2>4
<1>6. Nat \subseteq T
  <2> HIDE DEF T
  <2>1. QED
    BY <1>4, <1>5, InductionOnSet
<1>7. QED
  BY <1>2, <1>3, <1>6

(* The value of some bits, by the prefixes of which they are made.         *)
BitDigits(bs) == [k \in 1 .. Len(bs) |-> IF bs[k] THEN 1 ELSE 0]
IsValue(bs, f) == IsHorner(2, Len(bs), BitDigits(bs), f)

LEMMA BigIntValue ==
  ASSUME NEW bs \in Seq(BOOLEAN)
  PROVE  /\ BigInt(bs) \in Nat
         /\ \E f : IsValue(bs, f) /\ BigInt(bs) = f[Len(bs)]
<1> DEFINE n == Len(bs)
           F(f) == [k \in 0 .. n |->
                      IF k = 0 THEN 0 ELSE 2 * f[k - 1] + (IF bs[k] THEN 1 ELSE 0)]
           value == CHOOSE f : f = F(f)
<1>1. n \in Nat
  OBVIOUS
<1>2. BigInt(bs) = value[n]
  BY DEF BigInt
<1>3. \A f : F(f) = [k \in 0 .. n |-> IF k = 0 THEN 0 ELSE 2 * f[k - 1] + BitDigits(bs)[k]]
  <2>1. \A k \in 0 .. n : k # 0 => BitDigits(bs)[k] = IF bs[k] THEN 1 ELSE 0
    BY <1>1 DEF BitDigits
  <2>2. QED
    BY <2>1
<1>4. PICK f : IsHorner(2, n, BitDigits(bs), f)
  BY <1>1, HornerExists
<1>5. f = F(f)
  BY <1>3, <1>4 DEF IsHorner
<1>6. value = F(value)
  <2> HIDE DEF F
  <2>1. QED
    BY <1>5
<1>7. IsValue(bs, value)
  <2> HIDE DEF value
  <2>1. QED
    BY <1>3, <1>6 DEF IsValue, IsHorner
<1> HIDE DEF value
<1>8. \A k \in 1 .. n : BitDigits(bs)[k] \in Nat
  BY DEF BitDigits
<1>9. value[n] \in Nat
  <2>1. IsHorner(2, n, BitDigits(bs), value)
    BY <1>7 DEF IsValue
  <2>2. n \in 0 .. n
    BY <1>1
  <2>3. QED
    BY <1>1, <1>8, <2>1, <2>2, HornerSteps
<1>10. QED
  BY <1>2, <1>7, <1>9

LEMMA ValueSteps ==
  ASSUME NEW bs \in Seq(BOOLEAN), NEW f, IsValue(bs, f)
  PROVE  /\ f[0] = 0
         /\ \A k \in 0 .. Len(bs) : f[k] \in Nat
         /\ \A k \in 0 .. (Len(bs) - 1) :
              f[k + 1] = 2 * f[k] + (IF bs[k + 1] THEN 1 ELSE 0)
<1> DEFINE n == Len(bs)
<1>1. n \in Nat /\ \A k \in 1 .. n : BitDigits(bs)[k] = IF bs[k] THEN 1 ELSE 0
  BY DEF BitDigits
<1>2. IsHorner(2, n, BitDigits(bs), f)
  BY DEF IsValue
<1>3. \A k \in 1 .. n : BitDigits(bs)[k] \in Nat
  BY <1>1
<1>4. /\ f[0] = 0
      /\ \A k \in 0 .. n : f[k] \in Nat
      /\ \A k \in 0 .. (n - 1) : f[k + 1] = 2 * f[k] + BitDigits(bs)[k + 1]
  BY <1>1, <1>2, <1>3, HornerSteps
<1>5. \A k \in 0 .. (n - 1) : k + 1 \in 1 .. n
  BY <1>1
<1>6. QED
  BY <1>1, <1>4, <1>5

-----------------------------------------------------------------------------
(* Some bits of others: their value is that of the others up to the last   *)
(* of them, without what comes before.  A byte has eight bits, the first   *)
(* one perhaps less.                                                       *)
LEMMA PrefixValue ==
  ASSUME NEW bs \in Seq(BOOLEAN), NEW f, IsValue(bs, f),
         NEW t \in Seq(BOOLEAN), Len(t) <= Len(bs),
         \A j \in 1 .. Len(t) : t[j] = bs[j]
  PROVE  BigInt(t) = f[Len(t)]
<1>1. PICK g : IsValue(t, g) /\ BigInt(t) = g[Len(t)]
  BY BigIntValue
<1> DEFINE m == Len(t)
           n == Len(bs)
<1>2. m \in Nat /\ n \in Nat /\ m <= n
  OBVIOUS
<1>3. /\ f[0] = 0
      /\ \A k \in 0 .. (n - 1) : f[k + 1] = 2 * f[k] + (IF bs[k + 1] THEN 1 ELSE 0)
  BY ValueSteps
<1>4. /\ g[0] = 0
      /\ \A k \in 0 .. (m - 1) : g[k + 1] = 2 * g[k] + (IF t[k + 1] THEN 1 ELSE 0)
  BY <1>1, ValueSteps
<1> DEFINE T == {k \in Nat : k <= m => g[k] = f[k]}
<1>5. 0 \in T
  BY <1>3, <1>4
<1>6. ASSUME NEW k \in Nat, k \in T PROVE k + 1 \in T
  <2> SUFFICES ASSUME k + 1 <= m PROVE g[k + 1] = f[k + 1]
    OBVIOUS
  <2>1. k \in 0 .. (m - 1) /\ k \in 0 .. (n - 1) /\ k + 1 \in 1 .. m /\ k <= m
    BY <1>2
  <2>2. g[k] = f[k] /\ t[k + 1] = bs[k + 1]
    BY <1>6, <2>1
  <2>3. QED
    BY <1>3, <1>4, <2>1, <2>2
<1>7. m \in T
  <2> HIDE DEF T
  <2>1. QED
    BY <1>2, <1>5, <1>6, InductionOnSet
<1>8. QED
  BY <1>1, <1>2, <1>7

LEMMA TwiceProduct ==
  ASSUME NEW c \in Nat, NEW x \in Nat
  PROVE  c * x \in Nat /\ (2 * c) * x = 2 * (c * x)
OBVIOUS

IsByteAt(bs, a, t) ==
  Len(t) = 8 /\ a + 8 <= Len(bs) /\ \A j \in 1 .. 8 : t[j] = bs[a + j]

LEMMA ByteValue ==
  ASSUME NEW bs \in Seq(BOOLEAN), NEW f, IsValue(bs, f), NEW a \in Nat,
         NEW t \in Seq(BOOLEAN), IsByteAt(bs, a, t)
  PROVE  f[a + 8] = 256 * f[a] + BigInt(t)
<1>0. Len(t) = 8 /\ a + 8 <= Len(bs) /\ \A j \in 1 .. 8 : t[j] = bs[a + j]
  BY DEF IsByteAt
<1>1. PICK g : IsValue(t, g) /\ BigInt(t) = g[8]
  BY <1>0, BigIntValue
<1> DEFINE B(b) == IF b THEN 1 ELSE 0
<1>2. /\ \A k \in 0 .. Len(bs) : f[k] \in Nat
      /\ \A k \in 0 .. (Len(bs) - 1) : f[k + 1] = 2 * f[k] + B(bs[k + 1])
  BY ValueSteps
<1>3. /\ g[0] = 0
      /\ \A k \in 0 .. 8 : g[k] \in Nat
      /\ \A k \in 0 .. 7 : g[k + 1] = 2 * g[k] + B(t[k + 1])
  <2>1. /\ g[0] = 0
        /\ \A k \in 0 .. Len(t) : g[k] \in Nat
        /\ \A k \in 0 .. (Len(t) - 1) : g[k + 1] = 2 * g[k] + B(t[k + 1])
    BY <1>1, ValueSteps
  <2>2. 8 - 1 = 7
    OBVIOUS
  <2>3. QED
    BY <1>0, <2>1, <2>2
<1>4. ASSUME NEW k \in 0 .. 7
      PROVE  /\ f[a + k] \in Nat /\ B(t[k + 1]) \in {0, 1}
             /\ f[a + k + 1] = 2 * f[a + k] + B(t[k + 1])
  <2>1. a + k \in 0 .. (Len(bs) - 1) /\ a + k \in 0 .. Len(bs) /\ k + 1 \in 1 .. 8
    BY SMTT(30), <1>0
  <2>2. t[k + 1] = bs[a + (k + 1)] /\ a + (k + 1) = a + k + 1
    <3>1. PICK j : j = k + 1
      OBVIOUS
    <3>2. t[j] = bs[a + j]
      BY <1>0, <2>1, <3>1
    <3>3. a + (k + 1) = a + k + 1
      OBVIOUS
    <3>4. QED
      BY <3>1, <3>2, <3>3
  <2>3. B(t[k + 1]) \in {0, 1}
    OBVIOUS
  <2> HIDE DEF B
  <2>4. QED
    BY <1>2, <2>1, <2>2, <2>3
<1> HIDE DEF B
<1>5. ASSUME NEW k \in 0 .. 7, NEW c \in Nat, f[a + k] = c * f[a] + g[k]
      PROVE  f[a + (k + 1)] = (2 * c) * f[a] + g[k + 1]
  <2>1. PICK x, y, z, w : x = f[a] /\ y = f[a + k] /\ z = g[k] /\ w = c * f[a]
    OBVIOUS
  <2>2. x \in Nat /\ y \in Nat /\ z \in Nat /\ w \in Nat /\ y = w + z
    <3>1. 0 \in 0 .. 7 /\ a + 0 = a /\ k \in 0 .. 8
      OBVIOUS
    <3>2. x \in Nat /\ y \in Nat /\ z \in Nat
      BY <1>3, <1>4, <2>1, <3>1
    <3>3. w \in Nat
      <4>1. w = c * x
        BY <2>1
      <4>2. c * x \in Nat
        BY <3>2, TwiceProduct
      <4>3. QED
        BY <4>1, <4>2
    <3>4. QED
      BY <1>5, <2>1, <3>2, <3>3
  <2>3. (2 * c) * x = 2 * w
    <3>1. w = c * x
      BY <2>1
    <3>2. (2 * c) * x = 2 * (c * x)
      BY <2>2, TwiceProduct
    <3>3. QED
      BY <3>1, <3>2
  <2>4. PICK v \in {0, 1} : v = B(t[k + 1])
    BY <1>4
  <2>5. f[a + k + 1] = 2 * y + v /\ g[k + 1] = 2 * z + v
    BY <1>3, <1>4, <2>1, <2>4
  <2>6. a + (k + 1) = a + k + 1
    OBVIOUS
  <2>7. (2 * c) * f[a] = 2 * w
    BY <2>1, <2>3
  <2>8. PICK u : u = (2 * c) * f[a]
    OBVIOUS
  <2>9. u = 2 * w
    BY <2>7, <2>8
  <2>10. f[a + (k + 1)] = u + g[k + 1]
    BY <2>2, <2>5, <2>6, <2>9
  <2>11. QED
    BY <2>8, <2>10
<1>6. /\ f[a] \in Nat /\ a + 0 = a
      /\ 0 \in 0 .. 7 /\ 1 \in 0 .. 7 /\ 2 \in 0 .. 7 /\ 3 \in 0 .. 7
      /\ 4 \in 0 .. 7 /\ 5 \in 0 .. 7 /\ 6 \in 0 .. 7 /\ 7 \in 0 .. 7
  <2>1. 0 \in 0 .. 7 /\ a + 0 = a
    OBVIOUS
  <2>2. QED
    BY <1>4, <2>1
<1>7. f[a + 0] = 1 * f[a] + g[0]
  BY <1>3, <1>6
<1>8. f[a + 1] = 2 * f[a] + g[1]
  <2>1. f[a + (0 + 1)] = (2 * 1) * f[a] + g[0 + 1]
    BY <1>5, <1>6, <1>7
  <2>2. QED
    BY <2>1
<1>9. f[a + 2] = 4 * f[a] + g[2]
  <2>1. f[a + (1 + 1)] = (2 * 2) * f[a] + g[1 + 1]
    BY <1>5, <1>6, <1>8
  <2>2. QED
    BY <2>1
<1>10. f[a + 3] = 8 * f[a] + g[3]
  <2>1. f[a + (2 + 1)] = (2 * 4) * f[a] + g[2 + 1]
    BY <1>5, <1>6, <1>9
  <2>2. QED
    BY <2>1
<1>11. f[a + 4] = 16 * f[a] + g[4]
  <2>1. f[a + (3 + 1)] = (2 * 8) * f[a] + g[3 + 1]
    BY <1>5, <1>6, <1>10
  <2>2. QED
    BY <2>1
<1>12. f[a + 5] = 32 * f[a] + g[5]
  <2>1. f[a + (4 + 1)] = (2 * 16) * f[a] + g[4 + 1]
    BY <1>5, <1>6, <1>11
  <2>2. QED
    BY <2>1
<1>13. f[a + 6] = 64 * f[a] + g[6]
  <2>1. f[a + (5 + 1)] = (2 * 32) * f[a] + g[5 + 1]
    BY <1>5, <1>6, <1>12
  <2>2. QED
    BY <2>1
<1>14. f[a + 7] = 128 * f[a] + g[7]
  <2>1. f[a + (6 + 1)] = (2 * 64) * f[a] + g[6 + 1]
    BY <1>5, <1>6, <1>13
  <2>2. QED
    BY <2>1
<1>15. f[a + 8] = 256 * f[a] + g[8]
  <2>1. f[a + (7 + 1)] = (2 * 128) * f[a] + g[7 + 1]
    BY <1>5, <1>6, <1>14
  <2>2. QED
    BY <2>1
<1>16. QED
  BY <1>1, <1>15

(* A byte of get_field_elements_mod_p: the bits are read from the end.     *)
LEMMA ReadFromEnd ==
  ASSUME NEW bs \in Seq(BOOLEAN), NEW lo \in 1 .. Len(bs), NEW hi \in lo .. Len(bs)
  PROVE  /\ Reverse(SubSeq(Reverse(bs), lo, hi)) \in Seq(BOOLEAN)
         /\ Len(Reverse(SubSeq(Reverse(bs), lo, hi))) = hi - lo + 1
         /\ \A j \in 1 .. (hi - lo + 1) :
              Reverse(SubSeq(Reverse(bs), lo, hi))[j] = bs[Len(bs) - hi + j]
<1> DEFINE n == Len(bs)
           r == Reverse(bs)
           s == SubSeq(r, lo, hi)
           m == hi - lo + 1
<1>1. n \in Nat /\ m \in Nat /\ lo \in Nat /\ hi \in Nat
  OBVIOUS
<1>2. /\ r \in Seq(BOOLEAN) /\ Len(r) = n
      /\ \A i \in 1 .. n : r[i] = bs[(n - i) + 1]
  BY DEF Reverse
<1> HIDE DEF r
<1>3. /\ s \in Seq(BOOLEAN) /\ Len(s) = m
      /\ \A i \in 1 .. m : s[i] = r[lo + i - 1]
  BY <1>1, <1>2
<1> HIDE DEF s
<1>4. /\ Reverse(s) \in Seq(BOOLEAN) /\ Len(Reverse(s)) = m
      /\ \A j \in 1 .. m : Reverse(s)[j] = s[(m - j) + 1]
  BY <1>3 DEF Reverse
<1>5. ASSUME NEW j \in 1 .. m PROVE Reverse(s)[j] = bs[n - hi + j]
  <2>1. PICK i : i = (m - j) + 1
    OBVIOUS
  <2>2. i \in 1 .. m /\ lo + i - 1 \in 1 .. n
    BY <1>1, <2>1
  <2>3. Reverse(s)[j] = r[lo + i - 1]
    BY <1>3, <1>4, <2>1, <2>2
  <2>4. r[lo + i - 1] = bs[(n - (lo + i - 1)) + 1]
    BY <1>2, <2>2
  <2>5. (n - (lo + i - 1)) + 1 = n - hi + j
    BY <1>1, <2>1
  <2>6. QED
    BY <2>3, <2>4, <2>5
<1>6. QED
  BY <1>4, <1>5 DEF s, r

-----------------------------------------------------------------------------
(* The byte of get_field_elements_mod_p at some place.                     *)
ByteCount(n) == (n + 7) \div 8
LastBit(n, k) == IF 8 * k < n THEN 8 * k ELSE n
ByteOf(bs, k) == Reverse(SubSeq(Reverse(bs), 8 * k - 7, LastBit(Len(bs), k)))

LEMMA ByteBounds ==
  ASSUME NEW n \in Nat, n >= 1
  PROVE  /\ ByteCount(n) \in Nat /\ ByteCount(n) >= 1
         /\ 8 * ByteCount(n) >= n /\ n > 8 * (ByteCount(n) - 1)
BY DEF ByteCount

LEMMA ByteBits ==
  ASSUME NEW bs \in Seq(BOOLEAN), NEW k \in 1 .. ByteCount(Len(bs)), Len(bs) >= 1
  PROVE  /\ ByteOf(bs, k) \in Seq(BOOLEAN)
         /\ k < ByteCount(Len(bs)) =>
              /\ 8 * k < Len(bs) /\ Len(ByteOf(bs, k)) = 8
              /\ \A j \in 1 .. 8 : ByteOf(bs, k)[j] = bs[(Len(bs) - 8 * k) + j]
         /\ k = ByteCount(Len(bs)) =>
              /\ Len(ByteOf(bs, k)) = Len(bs) - 8 * (k - 1)
              /\ \A j \in 1 .. Len(ByteOf(bs, k)) : ByteOf(bs, k)[j] = bs[j]
<1> DEFINE n == Len(bs)
           lo == 8 * k - 7
           hi == LastBit(n, k)
<1>1. n \in Nat /\ n >= 1
  OBVIOUS
<1>2. PICK N : N = ByteCount(n)
  OBVIOUS
<1>3. N \in Nat /\ 8 * N >= n /\ n > 8 * (N - 1) /\ k \in 1 .. N
  BY <1>1, <1>2, ByteBounds
<1>4. k < N => 8 * k < n /\ hi = 8 * k
  BY <1>1, <1>3 DEF LastBit
<1>5. k = N => hi = n
  BY <1>1, <1>3 DEF LastBit
<1>6. lo \in 1 .. n /\ hi \in lo .. n
  BY <1>1, <1>3, <1>4, <1>5
<1>7. /\ ByteOf(bs, k) \in Seq(BOOLEAN)
      /\ Len(ByteOf(bs, k)) = hi - lo + 1
      /\ \A j \in 1 .. (hi - lo + 1) : ByteOf(bs, k)[j] = bs[n - hi + j]
  <2>1. PICK l, h : l = lo /\ h = hi
    OBVIOUS
  <2>2. l \in 1 .. Len(bs) /\ h \in l .. Len(bs)
    BY <1>6, <2>1
  <2>3. /\ Reverse(SubSeq(Reverse(bs), l, h)) \in Seq(BOOLEAN)
        /\ Len(Reverse(SubSeq(Reverse(bs), l, h))) = h - l + 1
        /\ \A j \in 1 .. (h - l + 1) :
             Reverse(SubSeq(Reverse(bs), l, h))[j] = bs[Len(bs) - h + j]
    BY <2>2, ReadFromEnd
  <2>4. ByteOf(bs, k) = Reverse(SubSeq(Reverse(bs), l, h))
    BY <2>1 DEF ByteOf
  <2> HIDE DEF lo, hi
  <2>5. QED
    BY <2>1, <2>3, <2>4
<1>8. ASSUME k < N
      PROVE  /\ 8 * k < n /\ Len(ByteOf(bs, k)) = 8
             /\ \A j \in 1 .. 8 : ByteOf(bs, k)[j] = bs[(n - 8 * k) + j]
  <2>1. hi = 8 * k /\ hi - lo + 1 = 8 /\ 8 * k < n
    BY <1>3, <1>4, <1>8
  <2> HIDE DEF hi, lo
  <2>2. QED
    BY <1>7, <2>1
<1>9. ASSUME k = N
      PROVE  /\ Len(ByteOf(bs, k)) = n - 8 * (k - 1)
             /\ \A j \in 1 .. Len(ByteOf(bs, k)) : ByteOf(bs, k)[j] = bs[j]
  <2>1. hi = n /\ hi - lo + 1 = n - 8 * (k - 1) /\ n - hi = 0
    BY <1>1, <1>3, <1>5, <1>9
  <2>2. \A j \in 1 .. (hi - lo + 1) : n - hi + j = j
    BY <1>1, <2>1
  <2> HIDE DEF hi, lo
  <2>3. QED
    BY <1>7, <2>1, <2>2
<1>10. QED
  BY <1>2, <1>7, <1>8, <1>9

LEMMA BytesAre ==
  ASSUME NEW bs \in Seq(BOOLEAN), Len(bs) >= 1
  PROVE  /\ Len(Bytes(bs)) = ByteCount(Len(bs))
         /\ Bytes(bs) \in Seq(Nat)
         /\ \A k \in 1 .. ByteCount(Len(bs)) : Bytes(bs)[k] = BigInt(ByteOf(bs, k))
<1>1. PICK N : N = ByteCount(Len(bs)) /\ N \in Nat
  BY ByteBounds
<1>2. Bytes(bs) = [k \in 1 .. N |-> BigInt(ByteOf(bs, k))]
  BY <1>1 DEF Bytes, ByteCount, ByteOf, LastBit
<1>3. \A k \in 1 .. N : BigInt(ByteOf(bs, k)) \in Nat
  BY <1>1, ByteBits, BigIntValue
<1>4. QED
  BY <1>1, <1>2, <1>3

LEMMA FromTheEnd ==
  ASSUME NEW n \in Nat, NEW N \in Nat, NEW j \in Nat, j + 1 + 1 <= N
  PROVE  /\ N - (j + 1) \in 1 .. N /\ N - (j + 1) < N
         /\ j + 1 \in 0 .. (N - 1) /\ (j + 1) + 1 \in 1 .. N
         /\ (N - (j + 1 + 1)) + 1 = N - (j + 1)
         /\ (n - 8 * (N - (j + 1))) + 8 = n - 8 * (N - (j + 1 + 1))
         /\ (n - 8 * (N - (j + 1))) + 8 <= n
OBVIOUS

(* The bytes, from the most significant one, make the number of the bits.  *)
LEMMA LeBytesValue ==
  ASSUME NEW bs \in Seq(BOOLEAN), Len(bs) >= 1
  PROVE  FromLeBytes(Bytes(bs)) = BigInt(bs) % Modulus
<1> DEFINE n == Len(bs)
           bytes == Bytes(bs)
<1>1. PICK f : IsValue(bs, f) /\ BigInt(bs) = f[n]
  BY BigIntValue
<1>2. PICK N : N = ByteCount(n) /\ N \in Nat /\ N >= 1 /\ 8 * N >= n /\ n > 8 * (N - 1)
  <2>1. n \in Nat /\ n >= 1
    OBVIOUS
  <2>2. QED
    BY <2>1, ByteBounds
<1>3. /\ Len(bytes) = N /\ bytes \in Seq(Nat)
      /\ \A k \in 1 .. N : bytes[k] = BigInt(ByteOf(bs, k)) /\ bytes[k] \in Nat
  <2>1. Len(bytes) = N /\ bytes \in Seq(Nat) /\ \A k \in 1 .. N : bytes[k] = BigInt(ByteOf(bs, k))
    BY <1>2, BytesAre
  <2> HIDE DEF bytes
  <2>2. QED
    BY <2>1
<1> HIDE DEF bytes
<1>4. \A k \in 1 .. N : Reverse(bytes)[k] = bytes[(N - k) + 1] /\ Reverse(bytes)[k] \in Nat
  <2>1. \A k \in 1 .. N : Reverse(bytes)[k] = bytes[(N - k) + 1]
    BY <1>3 DEF Reverse
  <2>2. \A k \in 1 .. N : (N - k) + 1 \in 1 .. N
    BY <1>2
  <2>3. QED
    BY <1>3, <2>1, <2>2
<1> DEFINE F(h) == [k \in 0 .. N |-> IF k = 0 THEN 0 ELSE 256 * h[k - 1] + Reverse(bytes)[k]]
           value == CHOOSE h : h = F(h)
<1>5. FromLeBytes(bytes) = value[N] % Modulus
  BY <1>3 DEF FromLeBytes
<1>6. value = F(value)
  <2>1. \E h : IsHorner(256, N, Reverse(bytes), h)
    BY ZenonT(30), <1>2, HornerExists
  <2>2. \E h : h = F(h)
    BY <2>1 DEF IsHorner
  <2> HIDE DEF F
  <2>3. QED
    BY <2>2
<1> HIDE DEF value
<1>7. /\ value[0] = 0
      /\ \A k \in 0 .. (N - 1) : value[k + 1] = 256 * value[k] + Reverse(bytes)[k + 1]
  <2>1. IsHorner(256, N, Reverse(bytes), value)
    BY <1>6 DEF IsHorner
  <2>2. QED
    BY <1>2, <1>4, <2>1, HornerSteps
<1> HIDE DEF F
<1> DEFINE T == {j \in Nat : j + 1 <= N => value[j + 1] = f[n - 8 * (N - (j + 1))]}
<1>8. 0 \in T
  <2>1. N \in 1 .. N /\ n \in Nat
    BY <1>2
  <2>2. PICK t : t = ByteOf(bs, N)
    OBVIOUS
  <2>3. /\ t \in Seq(BOOLEAN) /\ Len(t) = n - 8 * (N - 1)
        /\ \A j \in 1 .. Len(t) : t[j] = bs[j]
    BY <1>2, <2>1, <2>2, ByteBits
  <2>4. Len(t) <= Len(bs)
    BY <1>2, <2>1, <2>3
  <2>5. BigInt(t) = f[n - 8 * (N - 1)]
    <3>1. BigInt(t) = f[Len(t)]
      BY <1>1, <2>3, <2>4, PrefixValue
    <3>2. QED
      BY <2>3, <3>1
  <2>6. Reverse(bytes)[1] = bytes[N]
    <3>1. 1 \in 1 .. N /\ (N - 1) + 1 = N
      BY <1>2
    <3>2. QED
      BY <1>4, <3>1
  <2>7. value[0 + 1] = 256 * value[0] + Reverse(bytes)[0 + 1]
    <3>1. 0 \in 0 .. (N - 1)
      BY <1>2
    <3>2. QED
      BY <1>7, <3>1
  <2>8. bytes[N] = BigInt(t) /\ bytes[N] \in Nat
    BY <1>3, <2>1, <2>2
  <2>9. value[1] = f[n - 8 * (N - 1)]
    BY <1>7, <2>5, <2>6, <2>7, <2>8
  <2>10. QED
    BY <2>9
<1>9. ASSUME NEW j \in Nat, j \in T PROVE j + 1 \in T
  <2> SUFFICES ASSUME j + 1 + 1 <= N
               PROVE  value[j + 1 + 1] = f[n - 8 * (N - (j + 1 + 1))]
    OBVIOUS
  <2>1. PICK k, i, a : k = N - (j + 1) /\ i = j + 1 /\ a = n - 8 * k
    OBVIOUS
  <2>2. n \in Nat
    OBVIOUS
  <2>3. /\ k \in 1 .. N /\ k < N /\ i \in 0 .. (N - 1) /\ i + 1 \in 1 .. N
        /\ (N - (i + 1)) + 1 = k
        /\ a + 8 = n - 8 * (N - (i + 1)) /\ a + 8 <= n
    <3> HIDE DEF n, T
    <3>1. N \in Nat
      BY <1>2
    <3>2. QED
      BY <2>1, <2>2, <3>1, FromTheEnd
  <2>4. PICK t : t = ByteOf(bs, k)
    OBVIOUS
  <2>5. /\ t \in Seq(BOOLEAN) /\ 8 * k < n /\ Len(t) = 8
        /\ \A q \in 1 .. 8 : t[q] = bs[a + q]
    BY <1>2, <2>1, <2>3, <2>4, ByteBits
  <2>6. a \in Nat /\ a + 8 <= n
    <3>1. k \in Nat /\ 8 * k < n /\ a = n - 8 * k
      BY <2>1, <2>3, <2>5
    <3> HIDE DEF n, T
    <3>2. QED
      BY <2>2, <2>3, <3>1
  <2>7. f[a + 8] = 256 * f[a] + BigInt(t)
    <3>1. IsValue(bs, f) /\ a \in Nat /\ t \in Seq(BOOLEAN) /\ Len(t) = 8
      BY <1>1, <2>5, <2>6
    <3>2. IsByteAt(bs, a, t)
      BY <2>5, <2>6 DEF IsByteAt
    <3> HIDE DEF n, T
    <3>3. QED
      BY <3>1, <3>2, ByteValue
  <2>8. Reverse(bytes)[i + 1] = BigInt(t)
    <3>1. Reverse(bytes)[i + 1] = bytes[(N - (i + 1)) + 1]
      BY <1>4, <2>3
    <3>2. bytes[k] = BigInt(t)
      BY <1>3, <2>3, <2>4
    <3>3. QED
      BY <2>3, <3>1, <3>2
  <2>9. value[i] = f[a]
    <3>1. j + 1 <= N => value[j + 1] = f[n - 8 * (N - (j + 1))]
      BY <1>9
    <3>2. j + 1 <= N
      BY <1>2
    <3>3. QED
      BY <2>1, <3>1, <3>2
  <2>10. value[i + 1] = 256 * value[i] + Reverse(bytes)[i + 1]
    BY <1>7, <2>3
  <2>11. QED
    BY <2>1, <2>3, <2>7, <2>8, <2>9, <2>10
<1>10. value[N] = f[n]
  <2>1. PICK j : j = N - 1
    OBVIOUS
  <2>2. j \in Nat /\ j + 1 = N /\ n - 8 * (N - (j + 1)) = n
    <3>1. n \in Nat
      OBVIOUS
    <3>2. j \in Nat /\ j + 1 = N
      BY <1>2, <2>1
    <3>3. N - (j + 1) = 0
      BY <1>2, <3>2
    <3>4. QED
      BY <3>1, <3>2, <3>3
  <2>3. j \in T
    <3> HIDE DEF T
    <3>1. QED
      BY <1>8, <1>9, <2>2, InductionOnSet
  <2>4. j + 1 <= N => value[j + 1] = f[n - 8 * (N - (j + 1))]
    BY <2>3
  <2>5. N <= N
    BY <1>2
  <2> HIDE DEF n, T
  <2>6. QED
    BY <2>2, <2>4, <2>5
<1>11. QED
  BY <1>1, <1>5, <1>10 DEF bytes

-----------------------------------------------------------------------------
(* The bits of a stream that count, and what one more bit adds to them.    *)
PairBits(st, k) == IF st[2 * k - 1] THEN <<st[2 * k]>> ELSE <<>>
Kept(st) == [k \in 1 .. (Len(st) \div 2) |-> PairBits(st, k)]
SelectedOf(st) == FlattenSeq(Kept(st))

LEMMA PairsOf ==
  ASSUME NEW n \in Nat
  PROVE  /\ n \div 2 \in Nat /\ \A k \in 1 .. (n \div 2) : 2 * k - 1 \in 1 .. n /\ 2 * k \in 1 .. n
         /\ n % 2 = 0 => (n + 1) \div 2 = n \div 2 /\ (n + 1) % 2 = 1
         /\ n % 2 # 0 => /\ n % 2 = 1 /\ (n + 1) % 2 = 0
                         /\ (n + 1) \div 2 = n \div 2 + 1
                         /\ 2 * (n \div 2 + 1) = n + 1
OBVIOUS

LEMMA KeptIs ==
  ASSUME NEW st \in Seq(BOOLEAN)
  PROVE  /\ Kept(st) \in Seq(Seq(BOOLEAN)) /\ Len(Kept(st)) = Len(st) \div 2
         /\ \A k \in 1 .. (Len(st) \div 2) : Kept(st)[k] = PairBits(st, k)
<1>1. PICK m : m = Len(st) \div 2 /\ m \in Nat
  BY PairsOf
<1>2. ASSUME NEW k \in 1 .. m PROVE PairBits(st, k) \in Seq(BOOLEAN)
  <2>1. 2 * k - 1 \in 1 .. Len(st) /\ 2 * k \in 1 .. Len(st)
    BY <1>1, PairsOf
  <2>2. PICK i : i = 2 * k
    OBVIOUS
  <2>3. st[i] \in BOOLEAN
    BY <2>1, <2>2
  <2>4. <<st[i]>> \in Seq(BOOLEAN) /\ <<>> \in Seq(BOOLEAN)
    BY <2>3
  <2>5. QED
    BY <2>2, <2>4 DEF PairBits
<1>3. Kept(st) = [k \in 1 .. m |-> PairBits(st, k)]
  BY <1>1 DEF Kept
<1>4. QED
  BY <1>1, <1>2, <1>3

LEMMA SelectedBits ==
  ASSUME NEW st \in Seq(BOOLEAN)
  PROVE  SelectedOf(st) \in Seq(BOOLEAN)
<1>1. Kept(st) \in Seq(Seq(BOOLEAN)) /\ <<>> \in Seq(BOOLEAN)
  BY KeptIs
<1>2. QED
  BY <1>1, FlatAppend DEF SelectedOf

LEMMA NothingSelected == SelectedOf(<<>>) = <<>>
<1>1. 1 .. (Len(<<>>) \div 2) = {}
  OBVIOUS
<1>2. Kept(<<>>) = <<>>
  BY <1>1 DEF Kept
<1>3. QED
  BY <1>2 DEF SelectedOf, FlattenSeq

LEMMA FirstOfPair ==
  ASSUME NEW st \in Seq(BOOLEAN), NEW b \in BOOLEAN, Len(st) % 2 = 0
  PROVE  SelectedOf(Append(st, b)) = SelectedOf(st) /\ Len(Append(st, b)) % 2 = 1
<1>1. PICK t : t = Append(st, b)
  OBVIOUS
<1>2. t \in Seq(BOOLEAN) /\ Len(t) = Len(st) + 1 /\ \A i \in 1 .. Len(st) : t[i] = st[i]
  BY <1>1
<1>3. Len(t) \div 2 = Len(st) \div 2 /\ Len(t) % 2 = 1
  BY <1>2, PairsOf
<1>4. \A k \in 1 .. (Len(st) \div 2) : PairBits(t, k) = PairBits(st, k)
  <2>1. PICK n : n = Len(st) /\ n \in Nat
    OBVIOUS
  <2>2. \A k \in 1 .. (n \div 2) : 2 * k - 1 \in 1 .. n /\ 2 * k \in 1 .. n
    BY <2>1, PairsOf
  <2>3. QED
    BY <1>2, <2>1, <2>2 DEF PairBits
<1>5. Kept(t) = Kept(st)
  BY <1>3, <1>4 DEF Kept
<1>6. QED
  BY <1>1, <1>3, <1>5 DEF SelectedOf

LEMMA SecondOfPair ==
  ASSUME NEW st \in Seq(BOOLEAN), NEW b \in BOOLEAN, Len(st) % 2 = 1
  PROVE  /\ Len(Append(st, b)) % 2 = 0
         /\ SelectedOf(Append(st, b))
              = IF st[Len(st)] THEN Append(SelectedOf(st), b) ELSE SelectedOf(st)
<1>1. PICK t, m : t = Append(st, b) /\ m = Len(st) \div 2
  OBVIOUS
<1>2. /\ t \in Seq(BOOLEAN) /\ Len(t) = Len(st) + 1 /\ \A i \in 1 .. Len(st) : t[i] = st[i]
      /\ t[Len(st) + 1] = b
  BY <1>1
<1>3. /\ m \in Nat /\ Len(t) % 2 = 0 /\ Len(t) \div 2 = m + 1 /\ 2 * (m + 1) = Len(st) + 1
      /\ \A k \in 1 .. m : 2 * k - 1 \in 1 .. Len(st) /\ 2 * k \in 1 .. Len(st)
  <2>1. Len(st) \in Nat /\ Len(st) % 2 # 0
    OBVIOUS
  <2>2. QED
    BY <1>1, <1>2, <2>1, PairsOf
<1>4. \A k \in 1 .. m : PairBits(t, k) = PairBits(st, k)
  BY <1>2, <1>3 DEF PairBits
<1>5. PICK last : last = PairBits(t, m + 1)
  OBVIOUS
<1>6. last = IF st[Len(st)] THEN <<b>> ELSE <<>>
  <2>1. PICK i : i = Len(st) + 1 /\ i - 1 = Len(st)
    OBVIOUS
  <2>2. Len(st) \in 1 .. Len(st)
    <3>1. Len(st) # 0
      OBVIOUS
    <3>2. QED
      BY <3>1
  <2>3. last = IF t[i - 1] THEN <<t[i]>> ELSE <<>>
    BY <1>3, <1>5, <2>1 DEF PairBits
  <2>4. QED
    BY <1>2, <2>1, <2>2, <2>3
<1>6a. last \in Seq(BOOLEAN)
  <2>1. <<b>> \in Seq(BOOLEAN) /\ <<>> \in Seq(BOOLEAN)
    OBVIOUS
  <2>2. last = <<b>> \/ last = <<>>
    BY <1>6, Zenon
  <2>3. QED
    BY <2>1, <2>2
<1>7. Kept(t) = Append(Kept(st), last)
  <2>1. /\ Kept(st) \in Seq(Seq(BOOLEAN)) /\ Len(Kept(st)) = m
        /\ \A k \in 1 .. m : Kept(st)[k] = PairBits(st, k)
    BY <1>1, KeptIs
  <2>2. /\ Kept(t) \in Seq(Seq(BOOLEAN)) /\ Len(Kept(t)) = m + 1
        /\ \A k \in 1 .. (m + 1) : Kept(t)[k] = PairBits(t, k)
    BY <1>2, <1>3, KeptIs
  <2>3. last \in Seq(BOOLEAN)
    BY <1>6a
  <2>4. PICK s : s = Append(Kept(st), last)
    OBVIOUS
  <2>5. s \in Seq(Seq(BOOLEAN)) /\ Len(s) = m + 1 /\ s[m + 1] = last
        /\ \A k \in 1 .. m : s[k] = Kept(st)[k]
    BY <1>3, <2>1, <2>3, <2>4
  <2>6. \A k \in 1 .. (m + 1) : s[k] = Kept(t)[k]
    <3>1. \A k \in 1 .. (m + 1) : k \in 1 .. m \/ k = m + 1
      BY <1>3
    <3>2. QED
      BY <1>4, <1>5, <2>1, <2>2, <2>5, <3>1
  <2>7. s = Kept(t)
    BY <2>2, <2>5, <2>6
  <2>8. QED
    BY <2>4, <2>7
<1>8. SelectedOf(t) = SelectedOf(st) \o last
  <2>1. Kept(st) \in Seq(Seq(BOOLEAN)) /\ last \in Seq(BOOLEAN)
    BY <1>6a, KeptIs
  <2>2. QED
    BY <1>7, <2>1, FlatAppend DEF SelectedOf
<1>9. SelectedOf(st) \in Seq(BOOLEAN)
  BY SelectedBits
<1>10. SelectedOf(t) = IF st[Len(st)] THEN Append(SelectedOf(st), b) ELSE SelectedOf(st)
  BY <1>6, <1>8, <1>9
<1>11. QED
  BY <1>1, <1>3, <1>10

-----------------------------------------------------------------------------
(* Of the first c of some numbers, those below m, and what one more adds.  *)
Element(m, v) == IF v < m THEN <<v>> ELSE <<>>
Elements(m, w, c) == FlattenSeq([k \in 1 .. c |-> Element(m, w[k])])

LEMMA ElementsGrow ==
  ASSUME NEW m \in Nat, NEW w \in Seq(Nat), NEW v \in Nat
  PROVE  /\ \A c \in 0 .. Len(w) : /\ Elements(m, w, c) \in Seq(Nat)
                                   /\ Elements(m, Append(w, v), c) = Elements(m, w, c)
         /\ Elements(m, Append(w, v), Len(w) + 1) = Elements(m, w, Len(w)) \o Element(m, v)
<1> DEFINE of(s, c) == [k \in 1 .. c |-> Element(m, s[k])]
<1>1. PICK n, t : n = Len(w) /\ t = Append(w, v)
  OBVIOUS
<1>2. /\ n \in Nat /\ t \in Seq(Nat) /\ Len(t) = n + 1 /\ t[n + 1] = v
      /\ \A k \in 1 .. n : t[k] = w[k] /\ w[k] \in Nat
  BY <1>1
<1>3. \A x \in Nat : Element(m, x) \in Seq(Nat)
  <2> TAKE x \in Nat
  <2>1. <<x>> \in Seq(Nat) /\ <<>> \in Seq(Nat)
    OBVIOUS
  <2>2. Element(m, x) = <<x>> \/ Element(m, x) = <<>>
    BY Zenon DEF Element
  <2>3. QED
    BY <2>1, <2>2
<1>4. ASSUME NEW c \in 0 .. n PROVE of(t, c) = of(w, c) /\ of(w, c) \in Seq(Seq(Nat))
  <2>1. \A k \in 1 .. c : t[k] = w[k] /\ w[k] \in Nat
    BY <1>2
  <2>2. of(t, c) = of(w, c)
    BY <2>1
  <2>3. \A k \in 1 .. c : Element(m, w[k]) \in Seq(Nat)
    BY <1>3, <2>1
  <2>4. of(w, c) \in Seq(Seq(Nat))
    BY <1>2, <2>3
  <2>5. QED
    BY <2>2, <2>4
<1>5. of(t, n + 1) = Append(of(w, n), Element(m, v))
  <2>1. PICK e, s : e = Element(m, v) /\ s = of(w, n)
    OBVIOUS
  <2>2. /\ s \in Seq(Seq(Nat)) /\ Len(s) = n /\ e \in Seq(Nat)
        /\ \A k \in 1 .. n : s[k] = Element(m, w[k])
    <3>1. n \in 0 .. n
      BY <1>2
    <3>2. s \in Seq(Seq(Nat)) /\ e \in Seq(Nat)
      BY <1>3, <1>4, <2>1, <3>1
    <3>3. QED
      BY <1>2, <2>1, <3>2
  <2>3. PICK a : a = Append(s, e)
    OBVIOUS
  <2>4. a = [k \in 1 .. (n + 1) |-> a[k]] /\ a[n + 1] = e /\ \A k \in 1 .. n : a[k] = s[k]
    <3>1. a \in Seq(Seq(Nat)) /\ Len(a) = n + 1
      BY <1>2, <2>2, <2>3
    <3>2. a = [k \in 1 .. Len(a) |-> a[k]]
      BY <3>1
    <3>3. a[n + 1] = e /\ \A k \in 1 .. n : a[k] = s[k]
      BY <1>2, <2>2, <2>3
    <3>4. QED
      BY <3>1, <3>2, <3>3
  <2>5. \A k \in 1 .. (n + 1) : a[k] = Element(m, t[k])
    <3>1. \A k \in 1 .. (n + 1) : k \in 1 .. n \/ k = n + 1
      BY <1>2
    <3>2. QED
      BY <1>2, <2>1, <2>2, <2>4, <3>1
  <2>6. a = of(t, n + 1)
    BY <2>4, <2>5
  <2>7. QED
    BY <2>1, <2>3, <2>6
<1>6. ASSUME NEW c \in 0 .. n
      PROVE  Elements(m, w, c) \in Seq(Nat) /\ Elements(m, t, c) = Elements(m, w, c)
  <2>1. of(t, c) = of(w, c) /\ of(w, c) \in Seq(Seq(Nat)) /\ <<>> \in Seq(Nat)
    BY <1>4
  <2>2. FlattenSeq(of(w, c)) \in Seq(Nat)
    <3> HIDE DEF of
    <3>1. QED
      BY <2>1, FlatAppend
  <2>3. QED
    BY <2>1, <2>2 DEF Elements
<1>7. Elements(m, t, n + 1) = Elements(m, w, n) \o Element(m, v)
  <2>1. of(w, n) \in Seq(Seq(Nat)) /\ Element(m, v) \in Seq(Nat)
    <3>1. n \in 0 .. n
      BY <1>2
    <3>2. QED
      BY <1>3, <1>4, <3>1
  <2>2. FlattenSeq(Append(of(w, n), Element(m, v))) = FlattenSeq(of(w, n)) \o Element(m, v)
    <3> HIDE DEF of
    <3>1. QED
      BY <2>1, FlatAppend
  <2>3. QED
    BY <1>5, <2>2 DEF Elements
<1>8. QED
  BY <1>1, <1>6, <1>7

-----------------------------------------------------------------------------
(* Selected bits cut into numbers of some size, and bits left over.        *)
Cut(sel, rest, size, w) ==
  /\ sel \in Seq(BOOLEAN) /\ w \in Seq(Nat)
  /\ Len(sel) = size * Len(w) + Len(rest)
  /\ rest = SubSeq(sel, size * Len(w) + 1, Len(sel))
  /\ \A k \in 1 .. Len(w) : w[k] = BigInt(SubSeq(sel, size * (k - 1) + 1, size * k))

LEMMA Multiples ==
  ASSUME NEW size \in Nat, NEW k \in Nat, NEW n \in Nat, k >= 1, k <= n
  PROVE  /\ size * k \in Nat /\ size * (k - 1) \in Nat /\ size * n \in Nat
         /\ size * k = size * (k - 1) + size
         /\ size * k <= size * n
<1>1. size * k \in Nat /\ size * (k - 1) \in Nat /\ size * n \in Nat /\ size * (n - k) \in Nat
  OBVIOUS
<1>2. size * k = size * (k - 1) + size
  OBVIOUS
<1>3. size * n = size * k + size * (n - k)
  OBVIOUS
<1>4. QED
  BY <1>1, <1>2, <1>3

(* The end of some bits, and of one more bit.                              *)
LEMMA EndGrows ==
  ASSUME NEW s \in Seq(BOOLEAN), NEW b \in BOOLEAN, NEW p \in Nat
  PROVE  /\ Append(s, b) \in Seq(BOOLEAN) /\ Len(Append(s, b)) = Len(s) + 1
         /\ Len(s) \in Nat
         /\ SubSeq(s, p + 1, Len(s)) \in Seq(BOOLEAN)
         /\ Len(SubSeq(s, p + 1, Len(s))) \in Nat
         /\ p <= Len(s) =>
              SubSeq(Append(s, b), p + 1, Len(s) + 1) = Append(SubSeq(s, p + 1, Len(s)), b)
         /\ \A i \in Nat, j \in Nat :
              j <= Len(s) => SubSeq(Append(s, b), i + 1, j) = SubSeq(s, i + 1, j)
<1>1. PICK n, t : n = Len(s) /\ t = Append(s, b)
  OBVIOUS
<1>2. /\ t \in Seq(BOOLEAN) /\ n \in Nat /\ Len(t) = n + 1 /\ t[n + 1] = b
      /\ \A i \in 1 .. n : t[i] = s[i]
  BY <1>1
<1>3. PICK r : r = SubSeq(s, p + 1, n)
  OBVIOUS
<1>4. r \in Seq(BOOLEAN) /\ Len(r) \in Nat /\ (p <= n => Len(r) = n - p)
  BY <1>1, <1>2, <1>3
<1>5. ASSUME p <= n PROVE SubSeq(t, p + 1, n + 1) = Append(r, b)
  <2>1. PICK u, v : u = SubSeq(t, p + 1, n + 1) /\ v = Append(r, b)
    OBVIOUS
  <2>2. u \in Seq(BOOLEAN) /\ Len(u) = n + 1 - p /\ \A i \in 1 .. (n + 1 - p) : u[i] = t[p + i]
    BY <1>2, <1>5, <2>1
  <2>3. v \in Seq(BOOLEAN) /\ Len(v) = n - p + 1 /\ v[n - p + 1] = b
        /\ \A i \in 1 .. (n - p) : v[i] = r[i]
    BY <1>4, <1>5, <2>1
  <2>4. \A i \in 1 .. (n - p) : r[i] = s[p + i]
    BY <1>1, <1>2, <1>3, <1>5
  <2>5. ASSUME NEW i \in 1 .. (n + 1 - p) PROVE u[i] = v[i]
    <3>1. CASE i = n + 1 - p
      BY <1>2, <1>5, <2>2, <2>3, <3>1
    <3>2. CASE i # n + 1 - p
      <4>1. i \in 1 .. (n - p) /\ p + i \in 1 .. n
        BY <1>2, <1>5, <3>2
      <4>2. QED
        BY <1>2, <2>2, <2>3, <2>4, <4>1
    <3>3. QED
      BY <3>1, <3>2
  <2>6. u = [i \in 1 .. Len(u) |-> u[i]] /\ v = [i \in 1 .. Len(v) |-> v[i]] /\ Len(u) = Len(v)
    BY <1>2, <1>5, <2>2, <2>3
  <2>7. QED
    BY <2>1, <2>2, <2>5, <2>6
<1>6. ASSUME NEW i \in Nat, NEW j \in Nat, j <= n PROVE SubSeq(t, i + 1, j) = SubSeq(s, i + 1, j)
  BY <1>1, <1>2, <1>6
<1>7. QED
  BY <1>1, <1>2, <1>3, <1>4, <1>5, <1>6

LEMMA CutMore ==
  ASSUME NEW size \in Nat, NEW sel, NEW rest, NEW w, Cut(sel, rest, size, w),
         NEW b \in BOOLEAN
  PROVE  /\ rest \in Seq(BOOLEAN)
         /\ Cut(Append(sel, b), Append(rest, b), size, w)
<1>1. PICK n, p, t : n = Len(w) /\ p = size * n /\ t = Append(sel, b)
  OBVIOUS
<1>2. /\ sel \in Seq(BOOLEAN) /\ w \in Seq(Nat) /\ n \in Nat
      /\ Len(sel) = p + Len(rest) /\ rest = SubSeq(sel, p + 1, Len(sel))
      /\ \A k \in 1 .. n : w[k] = BigInt(SubSeq(sel, size * (k - 1) + 1, size * k))
  <2>1. /\ sel \in Seq(BOOLEAN) /\ w \in Seq(Nat)
        /\ Len(sel) = size * Len(w) + Len(rest)
        /\ rest = SubSeq(sel, size * Len(w) + 1, Len(sel))
        /\ \A k \in 1 .. Len(w) : w[k] = BigInt(SubSeq(sel, size * (k - 1) + 1, size * k))
    BY Zenon DEF Cut
  <2>2. Len(w) \in Nat
    BY <2>1
  <2>3. QED
    BY Zenon, <1>1, <2>1, <2>2
<1>3. p \in Nat
  BY <1>1, <1>2
<1>4. /\ t \in Seq(BOOLEAN) /\ Len(t) = Len(sel) + 1 /\ Len(sel) \in Nat
      /\ rest \in Seq(BOOLEAN) /\ Len(rest) \in Nat
      /\ p <= Len(sel) => SubSeq(t, p + 1, Len(sel) + 1) = Append(rest, b)
  <2>1. sel \in Seq(BOOLEAN) /\ p \in Nat /\ rest = SubSeq(sel, p + 1, Len(sel)) /\ t = Append(sel, b)
    BY <1>1, <1>2, <1>3
  <2>2. QED
    BY <2>1, EndGrows
<1>5. p <= Len(sel)
  <2>1. Len(sel) = p + Len(rest)
    BY <1>2
  <2>2. QED
    BY <1>3, <1>4, <2>1
<1>6. SubSeq(t, p + 1, Len(t)) = Append(rest, b)
  BY Zenon, <1>4, <1>5
<1>7. Len(t) = p + Len(Append(rest, b))
  <2>1. Len(Append(rest, b)) = Len(rest) + 1 /\ Len(sel) = p + Len(rest)
    BY <1>2, <1>4
  <2>2. QED
    BY <1>3, <1>4, <2>1
<1>8. ASSUME NEW k \in 1 .. n
      PROVE  SubSeq(t, size * (k - 1) + 1, size * k) = SubSeq(sel, size * (k - 1) + 1, size * k)
  <2>1. PICK i, j : i = size * (k - 1) /\ j = size * k
    OBVIOUS
  <2>2. i \in Nat /\ j \in Nat /\ j <= p
    <3>1. k \in Nat /\ n \in Nat /\ k >= 1 /\ k <= n
      BY <1>2
    <3>2. size * k \in Nat /\ size * (k - 1) \in Nat /\ size * k <= size * n
      BY <3>1, Multiples
    <3>3. QED
      BY Zenon, <1>1, <2>1, <3>2
  <2>3. j <= Len(sel)
    BY <1>3, <1>4, <1>5, <2>2
  <2>4. SubSeq(t, i + 1, j) = SubSeq(sel, i + 1, j)
    <3>1. sel \in Seq(BOOLEAN) /\ t = Append(sel, b)
      BY <1>1, <1>2
    <3>2. QED
      BY <3>1, <1>3, <2>2, <2>3, EndGrows
  <2>5. QED
    BY Zenon, <2>1, <2>4
<1>9. Cut(t, Append(rest, b), size, w)
  <2>1. \A k \in 1 .. n : w[k] = BigInt(SubSeq(t, size * (k - 1) + 1, size * k))
    BY Zenon, <1>2, <1>8
  <2>2. QED
    BY Zenon, <1>1, <1>2, <1>4, <1>6, <1>7, <2>1 DEF Cut
<1>10. QED
  BY <1>1, <1>4, <1>9

LEMMA CutNumber ==
  ASSUME NEW size \in Nat, NEW sel, NEW rest, NEW w, Cut(sel, rest, size, w),
         Len(rest) = size
  PROVE  Cut(sel, <<>>, size, Append(w, BigInt(rest))) /\ BigInt(rest) \in Nat
<1>1. PICK n, p, v, q : n = Len(w) /\ p = size * n /\ v = Append(w, BigInt(rest)) /\ q = n + 1
  OBVIOUS
<1>2. /\ sel \in Seq(BOOLEAN) /\ w \in Seq(Nat) /\ n \in Nat
      /\ Len(sel) = p + size /\ rest = SubSeq(sel, p + 1, Len(sel))
      /\ \A k \in 1 .. n : w[k] = BigInt(SubSeq(sel, size * (k - 1) + 1, size * k))
  <2>1. /\ sel \in Seq(BOOLEAN) /\ w \in Seq(Nat)
        /\ Len(sel) = size * Len(w) + Len(rest)
        /\ rest = SubSeq(sel, size * Len(w) + 1, Len(sel))
        /\ \A k \in 1 .. Len(w) : w[k] = BigInt(SubSeq(sel, size * (k - 1) + 1, size * k))
    BY Zenon DEF Cut
  <2>2. Len(w) \in Nat
    BY <2>1
  <2>3. QED
    BY Zenon, <1>1, <2>1, <2>2
<1>3. p \in Nat /\ size * q = p + size /\ size * (q - 1) = p /\ q \in Nat
  <2>1. q \in Nat /\ q >= 1 /\ q <= q /\ q - 1 = n
    BY <1>1, <1>2
  <2>2. size * q = size * (q - 1) + size /\ size * (q - 1) \in Nat
    BY <2>1, Multiples
  <2>3. QED
    BY <1>1, <2>1, <2>2
<1>4. rest \in Seq(BOOLEAN)
  BY <1>2, <1>3
<1>5. BigInt(rest) \in Nat
  BY <1>4, BigIntValue
<1>6. /\ v \in Seq(Nat) /\ Len(v) = q /\ v[q] = BigInt(rest)
      /\ \A k \in 1 .. n : v[k] = w[k]
  BY <1>1, <1>2, <1>5
<1>7. ASSUME NEW k \in 1 .. q
      PROVE  v[k] = BigInt(SubSeq(sel, size * (k - 1) + 1, size * k))
  <2>1. CASE k \in 1 .. n
    BY <1>2, <1>6, <2>1
  <2>2. CASE k = q
    <3>1. size * (k - 1) + 1 = p + 1 /\ size * k = Len(sel)
      BY <1>2, <1>3, <2>2
    <3>2. QED
      BY <1>2, <1>6, <2>2, <3>1
  <2>3. k \in 1 .. n \/ k = q
    BY <1>1, <1>2
  <2>4. QED
    BY <2>1, <2>2, <2>3
<1>8. Len(sel) = size * Len(v) + Len(<<>>)
  BY <1>2, <1>3, <1>6
<1>9. SubSeq(sel, size * Len(v) + 1, Len(sel)) = <<>>
  <2>1. PICK l : l = Len(sel) /\ l \in Nat
    BY <1>2
  <2>2. size * Len(v) + 1 = l + 1
    BY <1>2, <1>3, <1>6, <2>1
  <2>3. SubSeq(sel, l + 1, l) = <<>>
    BY <1>2, <2>1
  <2>4. QED
    BY <2>1, <2>2, <2>3
<1>10. QED
  BY <1>1, <1>2, <1>5, <1>6, <1>7, <1>8, <1>9 DEF Cut

-----------------------------------------------------------------------------
(* What connects the numbers to the stream between the steps.  The bits    *)
(* come in pairs, and an odd one is the first of a pair.                   *)
StreamOK ==
  /\ stream \in Seq(BOOLEAN)
  /\ Len(stream) % 2 = IF pc \in {"second", "discard"} THEN 1 ELSE 0
  /\ pc = "second" => stream[Len(stream)]
  /\ pc = "discard" => ~ stream[Len(stream)]

(* The calls come in the order of Calls, and the running one is not full.  *)
Rounds == entry.full_rounds + entry.partial_rounds
Width == entry.rate + 1

CallsOK ==
  /\ field \in Fields /\ IsEntry(entry)
  /\ answers \in Seq(Seq(Nat)) /\ res \in Seq(Nat)
  /\ pc \in {"init", "first", "discard", "second", "number", "matrix", "done", "panicked"}
  /\ IF pc \in {"matrix", "done", "panicked"}
     THEN Len(answers) = Len(Calls(entry)) /\ res = <<>>
     ELSE Len(answers) < Len(Calls(entry)) /\ Len(res) < Call.count
  /\ Len(answers) <= Rounds => Len(FlattenSeq(answers)) = Width * Len(answers)

(* The bits that count are cut into numbers, and bits has the rest.        *)
CutOK(w) ==
  /\ Cut(SelectedOf(stream), bits, PrimeBits, w)
  /\ IF pc = "number" THEN Len(bits) = PrimeBits ELSE Len(bits) < PrimeBits

(* While constants are drawn the numbers below the modulus are; from the   *)
(* last of them on every number is, reduced.                               *)
Reduced(m, w, c) == [i \in 1 .. (Len(w) - c) |-> w[c + i] % m]

DrawnOK(w) ==
  \E c \in 0 .. Len(w) :
    /\ Drawn = Elements(Modulus, w, c) \o Reduced(Modulus, w, c)
    /\ IF Len(answers) < Rounds THEN c = Len(w)
                                ELSE Len(Elements(Modulus, w, c)) = NumConstants

NumbersInv == StreamOK /\ CallsOK /\ \E w \in Seq(Nat) : CutOK(w) /\ DrawnOK(w)

-----------------------------------------------------------------------------
(* The calls of an entry: those for the constants are the first ones, and  *)
(* each of them asks for a row.                                            *)
LEMMA CallsAre ==
  ASSUME NEW e, IsEntry(e)
  PROVE  /\ e.rate \in Nat /\ e.full_rounds + e.partial_rounds \in Nat
         /\ Len(Calls(e)) \in Nat
         /\ Len(Calls(e)) >= e.full_rounds + e.partial_rounds + 2
         /\ \A k \in 1 .. Len(Calls(e)) :
              /\ Calls(e)[k].count \in Nat \ {0}
              /\ Calls(e)[k].sampling <=> k <= e.full_rounds + e.partial_rounds
              /\ k <= e.full_rounds + e.partial_rounds => Calls(e)[k].count = e.rate + 1
<1> DEFINE rounds == e.full_rounds + e.partial_rounds
           total == rounds + e.skip_matrices + 2
<1>1. e.rate \in Nat /\ rounds \in Nat /\ e.skip_matrices \in Nat
  BY DEF IsEntry
<1>2. Calls(e) = [k \in 1 .. total |->
        IF k <= rounds THEN [sampling |-> TRUE, count |-> e.rate + 1]
        ELSE IF k <= rounds + e.skip_matrices
             THEN [sampling |-> FALSE, count |-> 2 * (e.rate + 1)]
             ELSE [sampling |-> FALSE, count |-> e.rate + 1]]
  BY DEF Calls
<1>3. total \in Nat /\ total >= rounds + 2
  BY <1>1
<1>4. Len(Calls(e)) = total
  <2> HIDE DEF total
  <2>1. QED
    BY <1>2, <1>3
<1>5. ASSUME NEW k \in 1 .. total
      PROVE  /\ Calls(e)[k].count \in Nat \ {0}
             /\ Calls(e)[k].sampling <=> k <= rounds
             /\ k <= rounds => Calls(e)[k].count = e.rate + 1
  <2> HIDE DEF total
  <2>1. CASE k <= rounds
    BY <1>1, <1>2, <2>1
  <2>2. CASE ~ (k <= rounds) /\ k <= rounds + e.skip_matrices
    BY <1>1, <1>2, <2>2
  <2>3. CASE ~ (k <= rounds) /\ ~ (k <= rounds + e.skip_matrices)
    BY <1>1, <1>2, <2>3
  <2>4. QED
    BY <2>1, <2>2, <2>3
<1>6. QED
  BY <1>1, <1>3, <1>4, <1>5

(* One element more at the end of what was drawn.                          *)
LEMMA AppendToBoth ==
  ASSUME NEW f \in Seq(Nat), NEW r \in Seq(Nat), NEW v \in Nat
  PROVE  /\ f \o Append(r, v) = Append(f \o r, v)
         /\ (f \o Append(r, v)) \o <<>> = Append(f \o r, v)
         /\ f \o <<>> = f /\ f \o <<v>> = Append(f, v)
         /\ Len(f \o r) = Len(f) + Len(r) /\ Len(Append(r, v)) = Len(r) + 1
         /\ f \o r \in Seq(Nat) /\ Append(r, v) \in Seq(Nat) /\ <<>> \in Seq(Nat)
         /\ Len(f) \in Nat /\ Len(r) \in Nat
BY SMTT(30)

(* Push adds its number to what was drawn, and a call that is complete is  *)
(* as long as it should be.                                                *)
LEMMA PushDraws ==
  ASSUME CallsOK, pc = "number", NEW v \in Nat, Push(v)
  PROVE  /\ CallsOK' /\ Drawn \in Seq(Nat) /\ Drawn' = Append(Drawn, v)
         /\ field' = field /\ entry' = entry /\ stream' = stream /\ bits' = <<>>
         /\ pc' \in {"first", "matrix"}
         /\ Len(answers) \in Nat /\ Rounds \in Nat
         /\ Call.sampling <=> Len(answers) < Rounds
         /\ Len(answers') \in {Len(answers), Len(answers) + 1}
         /\ Len(answers) < Rounds /\ ~ (Len(answers') < Rounds) => Len(Drawn') = NumConstants
<1>1. /\ answers \in Seq(Seq(Nat)) /\ res \in Seq(Nat) /\ IsEntry(entry) /\ field \in Fields
      /\ Len(answers) < Len(Calls(entry)) /\ Len(res) < Call.count
      /\ Len(answers) <= Rounds => Len(FlattenSeq(answers)) = Width * Len(answers)
  BY DEF CallsOK
<1>2. PICK n, r, f, row, k : /\ n = Len(answers) /\ r = Rounds /\ f = FlattenSeq(answers)
                            /\ row = Append(res, v) /\ k = n + 1
  OBVIOUS
<1>3. /\ n \in Nat /\ f \in Seq(Nat) /\ row \in Seq(Nat) /\ Len(row) = Len(res) + 1
      /\ FlattenSeq(Append(answers, row)) = f \o row
      /\ Append(answers, row) \in Seq(Seq(Nat)) /\ Len(Append(answers, row)) = n + 1
  <2>1. n \in Nat /\ row \in Seq(Nat) /\ Len(row) = Len(res) + 1
    BY <1>1, <1>2
  <2>2. f \in Seq(Nat) /\ FlattenSeq(Append(answers, row)) = f \o row
    BY <1>1, <1>2, <2>1, FlatAppend
  <2>3. Append(answers, row) \in Seq(Seq(Nat)) /\ Len(Append(answers, row)) = n + 1
    BY <1>1, <1>2, <2>1
  <2>4. QED
    BY <2>1, <2>2, <2>3
<1>4. PICK total : total = Len(Calls(entry))
  OBVIOUS
<1>5. /\ total \in Nat /\ total >= r + 2 /\ r \in Nat /\ entry.rate \in Nat
      /\ \A i \in 1 .. total : /\ Calls(entry)[i].count \in Nat \ {0}
                               /\ Calls(entry)[i].sampling <=> i <= r
                               /\ i <= r => Calls(entry)[i].count = Width
  BY <1>1, <1>2, <1>4, CallsAre DEF Rounds, Width
<1>6. k \in 1 .. total /\ Call = Calls(entry)[k]
  BY SMTT(30), <1>1, <1>2, <1>3, <1>4, <1>5 DEF Call
<1>7. /\ Call.count \in Nat \ {0}
      /\ Call.sampling <=> k <= r
      /\ k <= r => Call.count = Width
  BY <1>5, <1>6
<1>8. k <= r <=> n < r
  BY <1>2, <1>3, <1>5
<1>9. /\ field' = field /\ entry' = entry /\ stream' = stream /\ bits' = <<>>
      /\ Calls(entry)' = Calls(entry) /\ Rounds' = Rounds /\ Width' = Width
      /\ NumConstants' = NumConstants
  BY DEF Push, Calls, Rounds, Width, NumConstants
<1>10. Width \in Nat /\ Width * n \in Nat /\ Width * (n + 1) = Width * n + Width
  <2>1. Width \in Nat
    BY <1>5 DEF Width
  <2>2. QED
    BY <1>3, <2>1
<1>10a. /\ f \o row = Append(f \o res, v) /\ (f \o row) \o <<>> = Append(f \o res, v)
        /\ f \o res \in Seq(Nat) /\ Len(res) \in Nat /\ <<>> \in Seq(Nat)
        /\ Len(f \o row) = Len(f) + Len(row) /\ Len(f) \in Nat
  <2>1. f \in Seq(Nat) /\ res \in Seq(Nat) /\ row \in Seq(Nat) /\ row = Append(res, v)
    BY <1>1, <1>2, <1>3
  <2>2. Len(f \o row) = Len(f) + Len(row) /\ Len(f) \in Nat /\ <<>> \in Seq(Nat)
    BY <2>1, AppendToBoth
  <2>3. /\ f \o Append(res, v) = Append(f \o res, v)
        /\ (f \o Append(res, v)) \o <<>> = Append(f \o res, v)
        /\ f \o res \in Seq(Nat) /\ Len(res) \in Nat
    BY SMTT(30), <2>1, AppendToBoth
  <2>4. QED
    BY Zenon, <2>1, <2>2, <2>3
<1>11. CASE Len(res) + 1 = Call.count
  <2>1. /\ answers' = Append(answers, row) /\ res' = <<>>
        /\ pc' = IF n + 1 = total THEN "matrix" ELSE "first"
    BY <1>2, <1>4, <1>11 DEF Push
  <2>2. Drawn' = (f \o row) \o <<>>
    BY <1>3, <2>1 DEF Drawn
  <2>3. Drawn = f \o res
    BY <1>2 DEF Drawn
  <2>4. Drawn' = Append(Drawn, v) /\ Drawn \in Seq(Nat) /\ Drawn' = f \o row
    BY Zenon, <1>10a, <2>2, <2>3
  <2>5. Len(answers') = n + 1 /\ answers' \in Seq(Seq(Nat)) /\ res' \in Seq(Nat)
    BY <1>3, <2>1
  <2>6. n + 1 <= r => Len(FlattenSeq(answers')) = Width * (n + 1)
    <3>1. HAVE n + 1 <= r
    <3>2. Len(f) = Width * n
      BY <1>1, <1>2, <1>3, <1>5, <3>1
    <3>3. Len(row) = Width
      BY <1>2, <1>3, <1>7, <1>11, <3>1
    <3>4. Len(f \o row) = Width * n + Width
      BY <1>10a, <3>2, <3>3
    <3>5. QED
      BY Zenon, <1>3, <1>10, <2>1, <3>4
  <2>7. IF pc' \in {"matrix", "done", "panicked"}
        THEN Len(answers') = total /\ res' = <<>>
        ELSE Len(answers') < total /\ Len(res') < Call'.count
    <3>1. CASE n + 1 = total
      BY <2>1, <2>5, <3>1
    <3>2. CASE n + 1 # total
      <4>1. n + 1 < total /\ pc' = "first"
        BY <1>1, <1>2, <1>3, <1>4, <1>5, <2>1, <3>2
      <4>2. Call' = Calls(entry)[Len(answers') + 1]
        BY <1>9 DEF Call
      <4>3. Len(answers') + 1 \in 1 .. total
        BY <1>3, <1>5, <2>5, <4>1
      <4>4. Call'.count \in Nat \ {0} /\ Len(res') = 0
        BY <1>5, <2>1, <4>2, <4>3
      <4>5. QED
        BY <2>5, <4>1, <4>4
    <3>3. QED
      BY <3>1, <3>2
  <2>8. CallsOK'
    <3>1. IF pc' \in {"matrix", "done", "panicked"}
          THEN Len(answers') = Len(Calls(entry)') /\ res' = <<>>
          ELSE Len(answers') < Len(Calls(entry)') /\ Len(res') < Call'.count
      BY Zenon, <1>4, <1>9, <2>7
    <3>2. Len(answers') <= Rounds' => Len(FlattenSeq(answers')) = Width' * Len(answers')
      BY <1>2, <1>9, <2>5, <2>6
    <3>3. IsEntry(entry') /\ field' \in Fields
      BY <1>1, <1>9
    <3>4. pc' \in {"init", "first", "discard", "second", "number", "matrix", "done", "panicked"}
      BY <2>1
    <3>5. QED
      BY Zenon, <2>5, <3>1, <3>2, <3>3, <3>4 DEF CallsOK
  <2>9. n < r /\ ~ (n + 1 < r) => Len(Drawn') = NumConstants
    <3>1. HAVE n < r /\ ~ (n + 1 < r)
    <3>2. n + 1 = r
      BY <1>3, <1>5, <3>1
    <3>3. Len(Drawn') = Width * r
      <4>1. n + 1 <= r
        BY <1>5, <3>2
      <4>2. Len(FlattenSeq(answers')) = Width * (n + 1) /\ FlattenSeq(answers') = f \o row
        BY Zenon, <1>3, <2>1, <2>6, <4>1
      <4>3. QED
        BY Zenon, <2>4, <3>2, <4>2
    <3>4. NumConstants = r * Width
      BY <1>2 DEF NumConstants, Rounds, Width
    <3>5. QED
      BY <1>5, <1>10, <3>3, <3>4
  <2>10. pc' \in {"first", "matrix"}
    BY <2>1
  <2>11. QED
    <3>1. Call.sampling <=> Len(answers) < Rounds
      BY Zenon, <1>2, <1>7, <1>8
    <3>2. Len(answers') \in {Len(answers), Len(answers) + 1}
      BY Zenon, <1>2, <2>5
    <3>3. Len(answers) < Rounds /\ ~ (Len(answers') < Rounds) => Len(Drawn') = NumConstants
      BY Zenon, <1>2, <2>5, <2>9
    <3>4. Len(answers) \in Nat /\ Rounds \in Nat
      BY Zenon, <1>2, <1>3, <1>5
    <3>5. QED
      BY Zenon, <1>9, <2>4, <2>8, <2>10, <3>1, <3>2, <3>3, <3>4
<1>12. CASE Len(res) + 1 # Call.count
  <2>1. answers' = answers /\ res' = row /\ pc' = "first"
    BY <1>2, <1>12 DEF Push
  <2>2. Drawn' = f \o row /\ Drawn = f \o res
    BY <1>2, <2>1 DEF Drawn
  <2>3. Drawn' = Append(Drawn, v) /\ Drawn \in Seq(Nat)
    BY Zenon, <1>10a, <2>2
  <2>4. Call' = Call
    BY <1>9, <2>1 DEF Call
  <2>5. Len(res') < Call.count
    <3>1. Len(res') = Len(res) + 1
      BY Zenon, <1>3, <2>1
    <3>2. QED
      BY <1>1, <1>7, <1>10a, <1>12, <3>1
  <2>6. CallsOK'
    <3>1. IF pc' \in {"matrix", "done", "panicked"}
          THEN Len(answers') = Len(Calls(entry)') /\ res' = <<>>
          ELSE Len(answers') < Len(Calls(entry)') /\ Len(res') < Call'.count
      BY <1>1, <1>9, <2>1, <2>4, <2>5
    <3>2. Len(answers') <= Rounds' => Len(FlattenSeq(answers')) = Width' * Len(answers')
      BY <1>1, <1>9, <2>1
    <3>3. IsEntry(entry') /\ field' \in Fields /\ answers' \in Seq(Seq(Nat)) /\ res' \in Seq(Nat)
      BY <1>1, <1>3, <1>9, <2>1
    <3>4. pc' \in {"init", "first", "discard", "second", "number", "matrix", "done", "panicked"}
      BY <2>1
    <3>5. QED
      BY Zenon, <3>1, <3>2, <3>3, <3>4 DEF CallsOK
  <2>7. QED
    <3>1. Call.sampling <=> Len(answers) < Rounds
      BY Zenon, <1>2, <1>7, <1>8
    <3>2. Len(answers) \in Nat /\ Rounds \in Nat
      BY Zenon, <1>2, <1>3, <1>5
    <3>3. pc' \in {"first", "matrix"} /\ Len(answers') \in {Len(answers), Len(answers) + 1}
      BY Zenon, <2>1
    <3>4. QED
      BY Zenon, <1>9, <2>1, <2>3, <2>6, <3>1, <3>2, <3>3
<1>13. QED
  BY <1>11, <1>12

-----------------------------------------------------------------------------
(* One number more at the end of those that are reduced.                   *)
LEMMA ReducedGrows ==
  ASSUME NEW m \in Nat \ {0}, NEW w \in Seq(Nat), NEW v \in Nat, NEW c \in 0 .. Len(w)
  PROVE  /\ Reduced(m, w, c) \in Seq(Nat) /\ v % m \in Nat
         /\ Reduced(m, Append(w, v), c) = Append(Reduced(m, w, c), v % m)
<1>1. PICK n, t, x : n = Len(w) /\ t = Append(w, v) /\ x = v % m
  OBVIOUS
<1>2. /\ n \in Nat /\ c \in 0 .. n /\ Len(t) = n + 1 /\ t[n + 1] = v /\ x \in Nat
      /\ \A i \in 1 .. n : t[i] = w[i] /\ w[i] \in Nat
  BY <1>1
<1>3. \A y \in Nat : y % m \in Nat
  OBVIOUS
<1>4. PICK r : r = Reduced(m, w, c)
  OBVIOUS
<1>5. /\ r \in Seq(Nat) /\ Len(r) = n - c
      /\ \A i \in 1 .. (n - c) : r[i] = w[c + i] % m
  <2>1. \A i \in 1 .. (n - c) : c + i \in 1 .. n
    BY <1>2
  <2>2. r = [i \in 1 .. (n - c) |-> w[c + i] % m]
    BY <1>1, <1>4 DEF Reduced
  <2>3. \A i \in 1 .. (n - c) : w[c + i] % m \in Nat
    BY <1>2, <1>3, <2>1
  <2>4. n - c \in Nat
    BY <1>2
  <2>5. QED
    BY SMTT(30), <2>2, <2>3, <2>4
<1>6. PICK a : a = Append(r, x)
  OBVIOUS
<1>7. /\ a \in Seq(Nat) /\ Len(a) = (n + 1) - c /\ a[(n + 1) - c] = x
      /\ \A i \in 1 .. (n - c) : a[i] = r[i]
  <2>1. PICK d : d = n - c
    OBVIOUS
  <2>2. d \in Nat /\ d + 1 = (n + 1) - c
    BY <1>2, <2>1
  <2>3. r \in Seq(Nat) /\ Len(r) = d
    BY <1>5, <2>1
  <2>4. a \in Seq(Nat) /\ Len(a) = d + 1 /\ a[d + 1] = x /\ \A i \in 1 .. d : a[i] = r[i]
    BY <1>2, <1>6, <2>2, <2>3
  <2>5. QED
    BY <2>1, <2>2, <2>4
<1>8. ASSUME NEW i \in 1 .. ((n + 1) - c) PROVE a[i] = t[c + i] % m
  <2>1. CASE i = (n + 1) - c
    <3>1. c + i = n + 1
      BY <1>2, <2>1
    <3>2. QED
      BY <1>1, <1>2, <1>7, <2>1, <3>1
  <2>2. CASE i # (n + 1) - c
    <3>1. i \in 1 .. (n - c) /\ c + i \in 1 .. n
      BY <1>2, <2>2
    <3>2. QED
      BY <1>2, <1>5, <1>7, <3>1
  <2>3. QED
    BY <2>1, <2>2
<1>9. a = [i \in 1 .. ((n + 1) - c) |-> t[c + i] % m]
  <2>1. a = [i \in 1 .. Len(a) |-> a[i]]
    BY <1>7
  <2>2. QED
    BY <1>7, <1>8, <2>1
<1>10. Reduced(m, t, c) = a
  <2>1. Len(t) - c = (n + 1) - c
    BY <1>2
  <2>2. QED
    BY <1>9, <2>1 DEF Reduced
<1>11. QED
  BY <1>1, <1>2, <1>4, <1>5, <1>6, <1>10

LEMMA NoneReduced ==
  ASSUME NEW m, NEW w \in Seq(Nat)
  PROVE  Reduced(m, w, Len(w)) = <<>>
<1>1. 1 .. (Len(w) - Len(w)) = {}
  OBVIOUS
<1>2. QED
  BY <1>1 DEF Reduced

LEMMA FieldFacts ==
  ASSUME CallsOK
  PROVE  PrimeBits \in Nat \ {0} /\ Modulus \in Nat \ {0}
BY FieldsAssumption DEF CallsOK, PrimeBits, Modulus

(* What a step that draws nothing leaves alone.                            *)
LEMMA DrawnStays ==
  ASSUME NEW w, DrawnOK(w), UNCHANGED <<answers, res, field, entry>>
  PROVE  DrawnOK(w)'
<1>1. /\ Drawn' = Drawn /\ Modulus' = Modulus /\ Rounds' = Rounds
      /\ NumConstants' = NumConstants /\ answers' = answers
  BY DEF Drawn, Modulus, Rounds, NumConstants
<1>2. QED
  BY Zenon, <1>1 DEF DrawnOK

LEMMA CallsStay ==
  ASSUME CallsOK, UNCHANGED <<answers, res, field, entry>>,
         pc' \in {"init", "first", "discard", "second", "number", "matrix", "done", "panicked"},
         pc \in {"matrix", "done", "panicked"} <=> pc' \in {"matrix", "done", "panicked"}
  PROVE  CallsOK'
<1>1. Call' = Call /\ Rounds' = Rounds /\ Width' = Width
  BY DEF Call, Rounds, Width
<1>2. IF pc' \in {"matrix", "done", "panicked"}
      THEN Len(answers) = Len(Calls(entry)) /\ res = <<>>
      ELSE Len(answers) < Len(Calls(entry)) /\ Len(res) < Call.count
  BY DEF CallsOK
<1>3. QED
  BY <1>1, <1>2 DEF CallsOK

-----------------------------------------------------------------------------
(* The bits: what the three calls of update in get_bits do.                *)
LEMMA BitIsBoolean == NewBit \in BOOLEAN
BY DEF NewBit

LEMMA FirstBitStep ==
  ASSUME NumbersInv, FirstBit
  PROVE  NumbersInv'
<1>1. /\ stream \in Seq(BOOLEAN) /\ Len(stream) % 2 = 0 /\ pc = "first"
      /\ stream' = Append(stream, NewBit) /\ pc' = IF NewBit THEN "second" ELSE "discard"
      /\ bits' = bits /\ UNCHANGED <<answers, res, field, entry>> /\ NewBit \in BOOLEAN
  BY BitIsBoolean DEF NumbersInv, StreamOK, FirstBit
<1>2. PICK b : b = NewBit
  OBVIOUS
<1>3. (pc' = "second" /\ b) \/ (pc' = "discard" /\ ~ b)
  BY <1>1, <1>2
<1>4. SelectedOf(stream') = SelectedOf(stream) /\ Len(stream') % 2 = 1
  BY <1>1, FirstOfPair
<1>5. StreamOK'
  <2>1. stream' \in Seq(BOOLEAN) /\ stream'[Len(stream')] = b
    BY <1>1, <1>2
  <2>2. QED
    BY <1>3, <1>4, <2>1 DEF StreamOK
<1>6. CallsOK'
  BY <1>1, <1>3, CallsStay DEF NumbersInv
<1>7. PICK w \in Seq(Nat) : CutOK(w) /\ DrawnOK(w)
  BY DEF NumbersInv
<1>8. DrawnOK(w)'
  BY <1>1, <1>7, DrawnStays
<1>9. CutOK(w)'
  <2>1. PrimeBits' = PrimeBits /\ pc' # "number" /\ pc # "number"
    BY <1>1, <1>3 DEF PrimeBits
  <2>2. QED
    BY Zenon, <1>1, <1>4, <1>7, <2>1 DEF CutOK
<1>10. QED
  BY <1>5, <1>6, <1>8, <1>9 DEF NumbersInv

LEMMA DiscardBitStep ==
  ASSUME NumbersInv, DiscardBit
  PROVE  NumbersInv'
<1>1. /\ stream \in Seq(BOOLEAN) /\ Len(stream) % 2 = 1 /\ ~ stream[Len(stream)]
      /\ stream' = Append(stream, NewBit) /\ pc = "discard" /\ pc' = "first"
      /\ bits' = bits /\ UNCHANGED <<answers, res, field, entry>> /\ NewBit \in BOOLEAN
  BY BitIsBoolean DEF NumbersInv, StreamOK, DiscardBit
<1>2. SelectedOf(stream') = SelectedOf(stream) /\ Len(stream') % 2 = 0
  <2>1. /\ Len(Append(stream, NewBit)) % 2 = 0
        /\ SelectedOf(Append(stream, NewBit))
             = IF stream[Len(stream)] THEN Append(SelectedOf(stream), NewBit) ELSE SelectedOf(stream)
    BY <1>1, SecondOfPair
  <2>2. QED
    BY Zenon, <1>1, <2>1
<1>3. StreamOK'
  <2>1. stream' \in Seq(BOOLEAN)
    BY <1>1
  <2>2. QED
    BY <1>1, <1>2, <2>1 DEF StreamOK
<1>4. CallsOK'
  BY <1>1, CallsStay DEF NumbersInv
<1>5. PICK w \in Seq(Nat) : CutOK(w) /\ DrawnOK(w)
  BY DEF NumbersInv
<1>6. DrawnOK(w)'
  BY <1>1, <1>5, DrawnStays
<1>7. CutOK(w)'
  <2>1. PrimeBits' = PrimeBits /\ pc' # "number" /\ pc # "number"
    BY <1>1 DEF PrimeBits
  <2>2. QED
    BY Zenon, <1>1, <1>2, <1>5, <2>1 DEF CutOK
<1>8. QED
  BY <1>3, <1>4, <1>6, <1>7 DEF NumbersInv

LEMMA SecondBitStep ==
  ASSUME NumbersInv, SecondBit
  PROVE  NumbersInv'
<1>1. /\ stream \in Seq(BOOLEAN) /\ Len(stream) % 2 = 1 /\ stream[Len(stream)]
      /\ stream' = Append(stream, NewBit) /\ pc = "second"
      /\ pc' = IF Len(bits) + 1 = PrimeBits THEN "number" ELSE "first"
      /\ bits' = Append(bits, NewBit) /\ UNCHANGED <<answers, res, field, entry>>
      /\ NewBit \in BOOLEAN
  BY BitIsBoolean DEF NumbersInv, StreamOK, SecondBit
<1>2. SelectedOf(stream') = Append(SelectedOf(stream), NewBit) /\ Len(stream') % 2 = 0
  <2>1. /\ Len(Append(stream, NewBit)) % 2 = 0
        /\ SelectedOf(Append(stream, NewBit))
             = IF stream[Len(stream)] THEN Append(SelectedOf(stream), NewBit) ELSE SelectedOf(stream)
    BY <1>1, SecondOfPair
  <2>2. QED
    BY Zenon, <1>1, <2>1
<1>3. StreamOK'
  <2>1. stream' \in Seq(BOOLEAN) /\ pc' \in {"number", "first"}
    BY <1>1
  <2>2. QED
    BY <1>1, <1>2, <2>1 DEF StreamOK
<1>4. CallsOK'
  <2>1. pc' \in {"number", "first"}
    BY <1>1
  <2>2. QED
    BY <1>1, <2>1, CallsStay DEF NumbersInv
<1>5. PICK w \in Seq(Nat) : CutOK(w) /\ DrawnOK(w)
  BY DEF NumbersInv
<1>6. DrawnOK(w)'
  BY <1>1, <1>5, DrawnStays
<1>7. CutOK(w)'
  <2>1. PrimeBits \in Nat /\ PrimeBits' = PrimeBits
    BY <1>1, FieldFacts DEF NumbersInv, PrimeBits
  <2>2. Cut(SelectedOf(stream), bits, PrimeBits, w) /\ Len(bits) < PrimeBits
    BY <1>1, <1>5 DEF CutOK
  <2>3. bits \in Seq(BOOLEAN) /\ Cut(SelectedOf(stream'), bits', PrimeBits, w)
    <3>1. /\ bits \in Seq(BOOLEAN)
          /\ Cut(Append(SelectedOf(stream), NewBit), Append(bits, NewBit), PrimeBits, w)
      BY <1>1, <2>1, <2>2, CutMore
    <3>2. QED
      BY Zenon, <1>1, <1>2, <3>1
  <2>4. Len(bits') = Len(bits) + 1 /\ Len(bits) \in Nat
    BY <1>1, <2>3
  <2>5. IF pc' = "number" THEN Len(bits') = PrimeBits ELSE Len(bits') < PrimeBits
    <3>1. CASE Len(bits) + 1 = PrimeBits
      BY <1>1, <2>4, <3>1
    <3>2. CASE Len(bits) + 1 # PrimeBits
      BY <1>1, <2>1, <2>2, <2>4, <3>2
    <3>3. QED
      BY <3>1, <3>2
  <2>6. QED
    BY Zenon, <2>1, <2>3, <2>5 DEF CutOK
<1>8. QED
  BY <1>3, <1>4, <1>6, <1>7 DEF NumbersInv

-----------------------------------------------------------------------------
(* The numbers: what a complete one does to the cut and to what is drawn.  *)
LEMMA NumberCut ==
  ASSUME NumbersInv, pc = "number", bits' = <<>>, pc' # "number",
         UNCHANGED <<field, stream>>, NEW w \in Seq(Nat), CutOK(w),
         NEW CONSTANT v, v = BigInt(bits)
  PROVE  /\ v \in Nat /\ Append(w, v) \in Seq(Nat)
         /\ FromLeBytes(Bytes(bits)) = v % Modulus
         /\ CutOK(Append(w, v))'
<1>1. PrimeBits \in Nat \ {0} /\ PrimeBits' = PrimeBits
  BY FieldFacts DEF NumbersInv, PrimeBits
<1>2. Cut(SelectedOf(stream), bits, PrimeBits, w) /\ Len(bits) = PrimeBits
  BY DEF CutOK
<1>3. v \in Nat /\ Cut(SelectedOf(stream), <<>>, PrimeBits, Append(w, v))
  <2>1. /\ BigInt(bits) \in Nat
        /\ Cut(SelectedOf(stream), <<>>, PrimeBits, Append(w, BigInt(bits)))
    BY <1>1, <1>2, CutNumber
  <2>2. QED
    BY Zenon, <2>1
<1>4. Append(w, v) \in Seq(Nat)
  BY <1>3
<1>5. bits \in Seq(BOOLEAN)
  <2>1. PrimeBits \in Nat /\ TRUE \in BOOLEAN
    BY <1>1
  <2>2. QED
    BY <1>2, <2>1, CutMore
<1>6. FromLeBytes(Bytes(bits)) = v % Modulus
  <2>1. Len(bits) >= 1
    BY <1>1, <1>2
  <2>2. FromLeBytes(Bytes(bits)) = BigInt(bits) % Modulus
    BY <1>5, <2>1, LeBytesValue
  <2>3. QED
    BY Zenon, <2>2
<1>7. Len(<<>>) < PrimeBits
  BY <1>1
<1>8. CutOK(Append(w, v))'
  BY Zenon, <1>1, <1>3, <1>7 DEF CutOK
<1>9. QED
  BY <1>3, <1>4, <1>6, <1>8

LEMMA AcceptStep ==
  ASSUME NumbersInv, Accept
  PROVE  NumbersInv'
<1>1. /\ pc = "number" /\ Call.sampling /\ BigInt(bits) < Modulus /\ Push(BigInt(bits))
      /\ CallsOK /\ Modulus \in Nat \ {0}
  BY FieldFacts DEF Accept, NumbersInv
<1>2. PICK w \in Seq(Nat) : CutOK(w) /\ DrawnOK(w)
  BY DEF NumbersInv
<1>3. PICK v : v = BigInt(bits)
  OBVIOUS
<1>4. /\ field' = field /\ stream' = stream /\ bits' = <<>> /\ pc' # "number"
      /\ pc' \in {"first", "matrix"}
  BY <1>1 DEF Push
<1>5. v \in Nat /\ Append(w, v) \in Seq(Nat) /\ CutOK(Append(w, v))'
  BY <1>1, <1>2, <1>3, <1>4, NumberCut
<1>6. /\ CallsOK' /\ Drawn \in Seq(Nat) /\ Drawn' = Append(Drawn, v)
      /\ field' = field /\ entry' = entry
      /\ Len(answers) \in Nat /\ Rounds \in Nat
      /\ Len(answers) < Rounds
      /\ Len(answers') < Rounds \/ Len(Drawn') = NumConstants
  BY <1>1, <1>3, <1>5, PushDraws
<1>7. StreamOK'
  <2>1. StreamOK
    BY DEF NumbersInv
  <2>2. QED
    BY <1>1, <1>4, <2>1 DEF StreamOK
<1>8. PICK m, n, t : m = Modulus /\ n = Len(w) /\ t = Append(w, v)
  OBVIOUS
<1>9. m \in Nat \ {0} /\ n \in Nat /\ Len(t) = n + 1 /\ t \in Seq(Nat)
  BY <1>1, <1>5, <1>8
<1>10. Drawn = Elements(m, w, n)
  <2>1. Drawn = Elements(m, w, n) \o Reduced(m, w, n)
    BY <1>2, <1>6, <1>8 DEF DrawnOK
  <2>2. Reduced(m, w, n) = <<>>
    BY <1>8, NoneReduced
  <2>3. Elements(m, w, n) \in Seq(Nat)
    <3>1. n \in 0 .. Len(w) /\ m \in Nat
      BY <1>8, <1>9
    <3>2. QED
      BY <1>5, <3>1, ElementsGrow
  <2>4. Elements(m, w, n) \o <<>> = Elements(m, w, n)
    BY <2>3
  <2>5. QED
    BY Zenon, <2>1, <2>2, <2>4
<1>11. Drawn' = Elements(m, t, n + 1)
  <2>1. m \in Nat
    BY <1>9
  <2>2. Elements(m, Append(w, v), Len(w) + 1) = Elements(m, w, Len(w)) \o Element(m, v)
    BY <1>5, <2>1, ElementsGrow
  <2>3. Element(m, v) = <<v>>
    BY <1>1, <1>3, <1>8 DEF Element
  <2>4. Drawn \o <<v>> = Append(Drawn, v)
    BY <1>5, <1>6
  <2>5. QED
    BY Zenon, <1>6, <1>8, <1>10, <2>2, <2>3, <2>4
<1>12. DrawnOK(t)'
  <2>1. Modulus' = m /\ Rounds' = Rounds /\ NumConstants' = NumConstants
    BY <1>6, <1>8 DEF Modulus, Rounds, NumConstants
  <2>2. Drawn' = Elements(m, t, Len(t)) \o Reduced(m, t, Len(t))
    <3>1. Reduced(m, t, Len(t)) = <<>>
      BY <1>9, NoneReduced
    <3>2. Drawn' \in Seq(Nat)
      BY <1>5, <1>6
    <3>3. Drawn' \o <<>> = Drawn'
      BY <3>2
    <3>4. QED
      BY Zenon, <1>9, <1>11, <3>1, <3>3
  <2>3. IF Len(answers') < Rounds THEN Len(t) = Len(t)
                                  ELSE Len(Elements(m, t, Len(t))) = NumConstants
    BY <1>6, <1>9, <1>11
  <2>4. Len(t) \in 0 .. Len(t)
    BY <1>9
  <2>5. QED
    BY Zenon, <2>1, <2>2, <2>3, <2>4 DEF DrawnOK
<1>13. QED
  BY <1>5, <1>6, <1>7, <1>8, <1>12 DEF NumbersInv

LEMMA RejectStep ==
  ASSUME NumbersInv, RejectNumber
  PROVE  NumbersInv'
<1>1. /\ pc = "number" /\ Call.sampling /\ BigInt(bits) >= Modulus
      /\ bits' = <<>> /\ pc' = "first" /\ UNCHANGED <<res, answers, field, entry, stream>>
      /\ CallsOK /\ Modulus \in Nat \ {0}
  BY FieldFacts DEF RejectNumber, NumbersInv
<1>2. PICK w \in Seq(Nat) : CutOK(w) /\ DrawnOK(w)
  BY DEF NumbersInv
<1>3. PICK v : v = BigInt(bits)
  OBVIOUS
<1>4. v \in Nat /\ Append(w, v) \in Seq(Nat) /\ CutOK(Append(w, v))'
  <2>1. pc' # "number"
    BY <1>1
  <2>2. QED
    BY <1>1, <1>2, <1>3, <2>1, NumberCut
<1>5. StreamOK' /\ CallsOK'
  <2>1. StreamOK
    BY DEF NumbersInv
  <2>2. StreamOK'
    BY <1>1, <2>1 DEF StreamOK
  <2>3. QED
    BY <1>1, <2>2, CallsStay
<1>6. PICK m, n, t : m = Modulus /\ n = Len(w) /\ t = Append(w, v)
  OBVIOUS
<1>7. m \in Nat \ {0} /\ n \in Nat /\ Len(t) = n + 1 /\ t \in Seq(Nat)
  BY <1>1, <1>4, <1>6
<1>8. Len(answers) < Rounds
  <2>1. /\ IsEntry(entry) /\ Len(answers) \in Nat /\ Len(answers) < Len(Calls(entry))
    BY <1>1 DEF CallsOK
  <2>2. /\ Len(Calls(entry)) \in Nat /\ Rounds \in Nat
        /\ \A k \in 1 .. Len(Calls(entry)) : Calls(entry)[k].sampling <=> k <= Rounds
    BY <2>1, CallsAre DEF Rounds
  <2>3. Len(answers) + 1 \in 1 .. Len(Calls(entry))
    BY <2>1, <2>2
  <2>4. Len(answers) + 1 <= Rounds
    BY <1>1, <2>2, <2>3 DEF Call
  <2>5. QED
    BY <2>1, <2>2, <2>4
<1>9. Drawn = Elements(m, t, n + 1) \o <<>>
  <2>1. Drawn = Elements(m, w, n) \o Reduced(m, w, n)
    BY <1>2, <1>6, <1>8 DEF DrawnOK
  <2>2. Reduced(m, w, n) = <<>>
    BY <1>6, NoneReduced
  <2>3. m \in Nat /\ n \in 0 .. Len(w)
    BY <1>6, <1>7
  <2>4. /\ Elements(m, w, n) \in Seq(Nat)
        /\ Elements(m, Append(w, v), Len(w) + 1) = Elements(m, w, Len(w)) \o Element(m, v)
    BY <1>4, <2>3, ElementsGrow
  <2>5. Element(m, v) = <<>>
    BY <1>1, <1>3, <1>4, <1>6, <1>7 DEF Element
  <2>6. Elements(m, w, n) \o <<>> = Elements(m, w, n)
    BY <2>4
  <2>7. QED
    BY Zenon, <1>6, <2>1, <2>2, <2>4, <2>5, <2>6
<1>10. DrawnOK(t)'
  <2>1. /\ Modulus' = m /\ Rounds' = Rounds /\ NumConstants' = NumConstants
        /\ Drawn' = Drawn /\ answers' = answers
    BY <1>1, <1>6 DEF Modulus, Rounds, NumConstants, Drawn
  <2>2. Reduced(m, t, Len(t)) = <<>>
    BY <1>7, NoneReduced
  <2>3. Drawn' = Elements(m, t, Len(t)) \o Reduced(m, t, Len(t))
    BY Zenon, <1>7, <1>9, <2>1, <2>2
  <2>4. Len(t) \in 0 .. Len(t)
    BY <1>7
  <2>5. QED
    BY Zenon, <1>8, <2>1, <2>3, <2>4 DEF DrawnOK
<1>11. QED
  BY <1>4, <1>5, <1>6, <1>10 DEF NumbersInv

LEMMA ReduceStep ==
  ASSUME NumbersInv, Reduce
  PROVE  NumbersInv'
<1>1. /\ pc = "number" /\ ~ Call.sampling /\ Push(FromLeBytes(Bytes(bits)))
      /\ CallsOK /\ Modulus \in Nat \ {0}
  BY FieldFacts DEF Reduce, NumbersInv
<1>2. PICK w \in Seq(Nat) : CutOK(w) /\ DrawnOK(w)
  BY DEF NumbersInv
<1>3. PICK v, m : v = BigInt(bits) /\ m = Modulus
  OBVIOUS
<1>4. /\ field' = field /\ stream' = stream /\ bits' = <<>> /\ pc' # "number"
      /\ pc' \in {"first", "matrix"}
  BY <1>1 DEF Push
<1>5. /\ v \in Nat /\ Append(w, v) \in Seq(Nat) /\ CutOK(Append(w, v))'
      /\ FromLeBytes(Bytes(bits)) = v % m
  <2>1. /\ v \in Nat /\ Append(w, v) \in Seq(Nat) /\ CutOK(Append(w, v))'
        /\ FromLeBytes(Bytes(bits)) = v % Modulus
    BY <1>1, <1>2, <1>3, <1>4, NumberCut
  <2>2. QED
    BY Zenon, <1>3, <2>1
<1>6. m \in Nat \ {0} /\ v % m \in Nat
  <2>1. m \in Nat \ {0}
    BY <1>1, <1>3
  <2>2. QED
    BY <1>5, <2>1
<1>7. /\ CallsOK' /\ Drawn \in Seq(Nat) /\ Drawn' = Append(Drawn, v % m)
      /\ field' = field /\ entry' = entry
      /\ ~ (Len(answers) < Rounds) /\ ~ (Len(answers') < Rounds)
  <2>1. /\ CallsOK' /\ Drawn \in Seq(Nat) /\ Drawn' = Append(Drawn, v % m)
        /\ field' = field /\ entry' = entry
        /\ Len(answers) \in Nat /\ Rounds \in Nat
        /\ ~ (Len(answers) < Rounds)
        /\ Len(answers') \in {Len(answers), Len(answers) + 1}
    BY <1>1, <1>5, <1>6, PushDraws
  <2>2. QED
    BY <2>1
<1>8. StreamOK'
  <2>1. StreamOK
    BY DEF NumbersInv
  <2>2. QED
    BY <1>1, <1>4, <2>1 DEF StreamOK
<1>9. PICK c \in 0 .. Len(w) : /\ Drawn = Elements(m, w, c) \o Reduced(m, w, c)
                              /\ Len(Elements(m, w, c)) = NumConstants
  BY <1>2, <1>3, <1>7 DEF DrawnOK
<1>10. PICK t : t = Append(w, v)
  OBVIOUS
<1>11. t \in Seq(Nat) /\ c \in 0 .. Len(t)
  BY <1>5, <1>10
<1>12. Elements(m, t, c) = Elements(m, w, c) /\ Elements(m, w, c) \in Seq(Nat)
  <2>1. m \in Nat
    BY <1>6
  <2>2. QED
    BY <1>5, <1>10, <2>1, ElementsGrow
<1>13. Reduced(m, t, c) = Append(Reduced(m, w, c), v % m) /\ Reduced(m, w, c) \in Seq(Nat)
  BY <1>5, <1>6, <1>10, ReducedGrows
<1>14. Drawn' = Elements(m, t, c) \o Reduced(m, t, c)
  <2>1. PICK f, r, x : f = Elements(m, w, c) /\ r = Reduced(m, w, c) /\ x = v % m
    OBVIOUS
  <2>2. f \in Seq(Nat) /\ r \in Seq(Nat) /\ x \in Nat
    BY <1>6, <1>12, <1>13, <2>1
  <2>3. f \o Append(r, x) = Append(f \o r, x)
    BY <2>2, AppendToBoth
  <2>4. QED
    BY Zenon, <1>7, <1>9, <1>12, <1>13, <2>1, <2>3
<1>15. DrawnOK(t)'
  <2>1. Modulus' = m /\ Rounds' = Rounds /\ NumConstants' = NumConstants
    BY <1>3, <1>7 DEF Modulus, Rounds, NumConstants
  <2>2. QED
    BY Zenon, <1>7, <1>9, <1>11, <1>12, <1>14, <2>1 DEF DrawnOK
<1>16. QED
  BY <1>5, <1>7, <1>8, <1>10, <1>15 DEF NumbersInv

-----------------------------------------------------------------------------
LEMMA WarmUpStep ==
  ASSUME NumbersInv, WarmUp
  PROVE  NumbersInv'
<1>1. /\ pc = "init" /\ pc' \in {"init", "first"} /\ stream' = stream /\ bits' = bits
      /\ UNCHANGED <<answers, res, field, entry>>
  BY DEF WarmUp
<1>2. StreamOK'
  <2>1. StreamOK
    BY DEF NumbersInv
  <2>2. QED
    BY <1>1, <2>1 DEF StreamOK
<1>3. CallsOK'
  BY <1>1, CallsStay DEF NumbersInv
<1>4. PICK w \in Seq(Nat) : CutOK(w) /\ DrawnOK(w)
  BY DEF NumbersInv
<1>5. DrawnOK(w)'
  BY <1>1, <1>4, DrawnStays
<1>6. CutOK(w)'
  <2>1. PrimeBits' = PrimeBits /\ pc' # "number" /\ pc # "number"
    BY <1>1 DEF PrimeBits
  <2>2. QED
    BY Zenon, <1>1, <1>4, <2>1 DEF CutOK
<1>7. QED
  BY <1>2, <1>3, <1>5, <1>6 DEF NumbersInv

LEMMA FillMatrixStep ==
  ASSUME NumbersInv, FillMatrix
  PROVE  NumbersInv'
<1>1. /\ pc = "matrix" /\ pc' \in {"done", "panicked"} /\ stream' = stream /\ bits' = bits
      /\ UNCHANGED <<answers, res, field, entry>>
  BY DEF FillMatrix
<1>2. StreamOK'
  <2>1. StreamOK
    BY DEF NumbersInv
  <2>2. QED
    BY <1>1, <2>1 DEF StreamOK
<1>3. CallsOK'
  BY <1>1, CallsStay DEF NumbersInv
<1>4. PICK w \in Seq(Nat) : CutOK(w) /\ DrawnOK(w)
  BY DEF NumbersInv
<1>5. DrawnOK(w)'
  BY <1>1, <1>4, DrawnStays
<1>6. CutOK(w)'
  <2>1. PrimeBits' = PrimeBits /\ pc' # "number" /\ pc # "number"
    BY <1>1 DEF PrimeBits
  <2>2. QED
    BY Zenon, <1>1, <1>4, <2>1 DEF CutOK
<1>7. QED
  BY <1>2, <1>3, <1>5, <1>6 DEF NumbersInv

LEMMA NumbersStutter ==
  ASSUME NumbersInv, UNCHANGED vars
  PROVE  NumbersInv'
<1>1. /\ pc' = pc /\ stream' = stream /\ bits' = bits
      /\ UNCHANGED <<answers, res, field, entry>>
  BY DEF vars
<1>2. StreamOK'
  <2>1. StreamOK
    BY DEF NumbersInv
  <2>2. QED
    BY <1>1, <2>1 DEF StreamOK
<1>3. CallsOK'
  <2>1. pc' \in {"init", "first", "discard", "second", "number", "matrix", "done", "panicked"}
    BY <1>1 DEF NumbersInv, CallsOK
  <2>2. QED
    BY <1>1, <2>1, CallsStay DEF NumbersInv
<1>4. PICK w \in Seq(Nat) : CutOK(w) /\ DrawnOK(w)
  BY DEF NumbersInv
<1>5. DrawnOK(w)'
  BY <1>1, <1>4, DrawnStays
<1>6. CutOK(w)'
  <2>1. PrimeBits' = PrimeBits
    BY <1>1 DEF PrimeBits
  <2>2. QED
    BY Zenon, <1>1, <1>4, <2>1 DEF CutOK
<1>7. QED
  BY <1>2, <1>3, <1>5, <1>6 DEF NumbersInv

LEMMA NumbersStep == NumbersInv /\ [Next]_vars => NumbersInv'
<1> SUFFICES ASSUME NumbersInv, [Next]_vars PROVE NumbersInv'
  OBVIOUS
<1>1. CASE WarmUp BY <1>1, WarmUpStep
<1>2. CASE FirstBit BY <1>2, FirstBitStep
<1>3. CASE DiscardBit BY <1>3, DiscardBitStep
<1>4. CASE SecondBit BY <1>4, SecondBitStep
<1>5. CASE Accept BY <1>5, AcceptStep
<1>6. CASE RejectNumber BY <1>6, RejectStep
<1>7. CASE Reduce BY <1>7, ReduceStep
<1>8. CASE FillMatrix BY <1>8, FillMatrixStep
<1>9. CASE UNCHANGED vars BY <1>9, NumbersStutter
<1> QED BY <1>1, <1>2, <1>3, <1>4, <1>5, <1>6, <1>7, <1>8, <1>9 DEF Next

LEMMA NumbersInit == Init => NumbersInv
<1> SUFFICES ASSUME Init PROVE NumbersInv
  OBVIOUS
<1>1. /\ pc = "init" /\ stream = <<>> /\ bits = <<>> /\ answers = <<>> /\ res = <<>>
      /\ field \in Fields
  BY DEF Init
<1>2. IsEntry(entry)
  <2>1. PICK table \in field.tables, rate \in Rates :
          \E i \in DOMAIN table : FirstOfRate(table, rate, i) /\ entry = table[i]
    BY DEF Init
  <2>2. \A i \in DOMAIN table : IsEntry(table[i])
    BY <1>1, FieldsAssumption
  <2>3. QED
    BY <2>1, <2>2
<1>3. /\ Len(Calls(entry)) \in Nat /\ Len(Calls(entry)) >= Rounds + 2 /\ Rounds \in Nat
      /\ entry.rate \in Nat
      /\ \A k \in 1 .. Len(Calls(entry)) : Calls(entry)[k].count \in Nat \ {0}
  BY <1>2, CallsAre DEF Rounds
<1>4. FlattenSeq(<<>>) = <<>> /\ Len(<<>>) = 0 /\ <<>> \o <<>> = <<>>
  BY DEF FlattenSeq
<1>5. StreamOK
  BY <1>1 DEF StreamOK
<1>6. CallsOK
  <2>1. Len(answers) = 0 /\ Len(res) = 0 /\ answers \in Seq(Seq(Nat)) /\ res \in Seq(Nat)
    BY <1>1
  <2>2. Call = Calls(entry)[1] /\ 1 \in 1 .. Len(Calls(entry))
    BY <1>3, <2>1 DEF Call
  <2>3. Len(answers) < Len(Calls(entry)) /\ Len(res) < Call.count
    BY <1>3, <2>1, <2>2
  <2>4. Width * 0 = 0 /\ Width * Len(answers) = 0
    <3>1. Width \in Nat
      BY <1>3 DEF Width
    <3>2. QED
      BY <2>1, <3>1
  <2>5. Len(FlattenSeq(answers)) = Width * Len(answers)
    BY <1>1, <1>4, <2>4
  <2>6. QED
    BY <1>1, <1>2, <2>1, <2>3, <2>5 DEF CallsOK
<1>7. PrimeBits \in Nat \ {0}
  BY <1>6, FieldFacts
<1>8. CutOK(<<>>)
  <2>1. SelectedOf(stream) = <<>>
    BY <1>1, NothingSelected
  <2>2. <<>> \in Seq(BOOLEAN) /\ <<>> \in Seq(Nat) /\ Len(<<>>) = 0
    OBVIOUS
  <2>3. PrimeBits * Len(<<>>) = 0
    BY <1>7, <2>2
  <2>4. Len(<<>>) = PrimeBits * Len(<<>>) + Len(<<>>)
    BY <2>2, <2>3
  <2>5. SubSeq(<<>>, PrimeBits * Len(<<>>) + 1, Len(<<>>)) = <<>>
    <3>1. SubSeq(<<>>, 0 + 1, 0) = <<>>
      OBVIOUS
    <3>2. QED
      BY Zenon, <2>2, <2>3, <3>1
  <2>6. \A k \in 1 .. Len(<<>>) :
          <<>>[k] = BigInt(SubSeq(<<>>, PrimeBits * (k - 1) + 1, PrimeBits * k))
    <3>1. 1 .. Len(<<>>) = {}
      BY <2>2
    <3>2. QED
      BY Zenon, <3>1
  <2>7. Cut(<<>>, <<>>, PrimeBits, <<>>)
    BY Zenon, <2>2, <2>4, <2>5, <2>6 DEF Cut
  <2>8. Len(bits) < PrimeBits /\ pc # "number"
    BY <1>1, <1>7
  <2>9. QED
    BY Zenon, <1>1, <2>1, <2>7, <2>8 DEF CutOK
<1>9. DrawnOK(<<>>)
  <2>1. PICK m : m = Modulus
    OBVIOUS
  <2>2. Elements(m, <<>>, 0) = <<>>
    <3>1. [k \in 1 .. 0 |-> Element(m, <<>>[k])] = <<>>
      OBVIOUS
    <3>2. QED
      BY Zenon, <1>4, <3>1 DEF Elements
  <2>3. Reduced(m, <<>>, 0) = <<>>
    BY <1>4 DEF Reduced
  <2>4. Drawn = <<>>
    BY Zenon, <1>1, <1>4 DEF Drawn
  <2>5. Drawn = Elements(m, <<>>, 0) \o Reduced(m, <<>>, 0)
    BY Zenon, <1>4, <2>2, <2>3, <2>4
  <2>6. IF Len(answers) < Rounds THEN 0 = Len(<<>>)
                                 ELSE Len(Elements(m, <<>>, 0)) = NumConstants
    <3>1. CASE Len(answers) < Rounds
      BY <1>4, <3>1
    <3>2. CASE ~ (Len(answers) < Rounds)
      <4>1. Rounds = 0
        BY <1>1, <1>3, <1>4, <3>2
      <4>2. NumConstants = 0
        <5>1. NumConstants = 0 * (entry.rate + 1)
          BY <4>1 DEF NumConstants, Rounds
        <5>2. QED
          BY <1>3, <5>1
      <4>3. QED
        BY <1>4, <2>2, <3>2, <4>2
    <3>3. QED
      BY <3>1, <3>2
  <2>7. 0 \in 0 .. Len(<<>>)
    BY <1>4
  <2>8. QED
    BY Zenon, <2>1, <2>5, <2>6, <2>7 DEF DrawnOK
<1>10. <<>> \in Seq(Nat)
  OBVIOUS
<1>11. QED
  BY Zenon, <1>5, <1>6, <1>8, <1>9, <1>10 DEF NumbersInv

-----------------------------------------------------------------------------
(* Division of the number of bits: all of a number's are there or not.     *)
LEMMA CutQuotient ==
  ASSUME NEW size \in Nat \ {0}, NEW n \in Nat, NEW r \in Nat
  PROVE  /\ r < size => (size * n + r) \div size = n
         /\ r = size => (size * n + r) \div size = n + 1
<1>1. PICK p : p = size * n
  OBVIOUS
<1>2. p \in Nat
  BY <1>1
<1>3. \A q \in Nat, x \in Nat : size * q <= x /\ x < size * q + size => x \div size = q
  OBVIOUS
<1>4. QED
  BY <1>1, <1>2, <1>3

(* The windows of the property are the numbers the invariant speaks of.    *)
LEMMA WindowsAre ==
  ASSUME CallsOK, NEW w \in Seq(Nat), CutOK(w)
  PROVE  Windows = w
<1>1. PICK sel, size, n : sel = Selected /\ size = PrimeBits /\ n = Len(w)
  OBVIOUS
<1>2. sel = SelectedOf(stream)
  BY Zenon, <1>1 DEF Selected, SelectedOf, Kept, PairBits
<1>3. size \in Nat \ {0}
  BY <1>1, FieldFacts
<1>4. /\ Cut(sel, bits, size, w)
      /\ IF pc = "number" THEN Len(bits) = size ELSE Len(bits) < size
  BY Zenon, <1>1, <1>2 DEF CutOK
<1>5. n \in Nat /\ Len(bits) \in Nat
  <2>1. bits \in Seq(BOOLEAN)
    <3>1. size \in Nat /\ TRUE \in BOOLEAN
      BY <1>3
    <3>2. QED
      BY <1>4, <3>1, CutMore
  <2>2. QED
    BY <1>1, <2>1
<1>6. /\ Len(sel) = size * n + Len(bits)
      /\ \A k \in 1 .. n : w[k] = BigInt(SubSeq(sel, size * (k - 1) + 1, size * k))
  BY Zenon, <1>1, <1>4 DEF Cut
<1>7. (IF pc = "number" THEN Len(sel) \div size - 1 ELSE Len(sel) \div size) = n
  <2>1. CASE pc = "number"
    <3>1. Len(sel) \div size = n + 1
      BY ZenonT(60), <1>3, <1>4, <1>5, <1>6, <2>1, CutQuotient
    <3>2. QED
      BY <1>5, <2>1, <3>1
  <2>2. CASE pc # "number"
    <3>1. Len(sel) \div size = n
      BY <1>3, <1>4, <1>5, <1>6, <2>2, CutQuotient
    <3>2. QED
      BY <2>2, <3>1
  <2>3. QED
    BY <2>1, <2>2
<1>8. Windows = [k \in 1 .. n |-> BigInt(SubSeq(sel, size * (k - 1) + 1, size * k))]
  BY Zenon, <1>1, <1>7 DEF Windows
<1>9. Windows = [k \in 1 .. n |-> w[k]]
  BY Zenon, <1>6, <1>8
<1>10. w = [k \in 1 .. n |-> w[k]]
  BY <1>1
<1>11. QED
  BY Zenon, <1>9, <1>10

(* While constants are drawn there are not too many of them.               *)
LEMMA FewDrawn ==
  ASSUME CallsOK, Len(answers) < Rounds
  PROVE  Len(Drawn) <= NumConstants
<1>1. /\ answers \in Seq(Seq(Nat)) /\ res \in Seq(Nat) /\ IsEntry(entry)
      /\ Len(answers) <= Rounds => Len(FlattenSeq(answers)) = Width * Len(answers)
  BY DEF CallsOK
<1>2. PICK n, r, f : n = Len(answers) /\ r = Rounds /\ f = FlattenSeq(answers)
  OBVIOUS
<1>3. /\ r \in Nat /\ Len(Calls(entry)) \in Nat /\ Len(Calls(entry)) >= r + 2
      /\ entry.rate \in Nat
      /\ \A k \in 1 .. Len(Calls(entry)) : k <= r => Calls(entry)[k].count = Width
  BY <1>1, <1>2, CallsAre DEF Rounds, Width
<1>4. n \in Nat /\ n < r /\ Width \in Nat
  BY <1>1, <1>2, <1>3 DEF Width
<1>5. Len(res) < Width /\ Len(res) \in Nat
  <2>1. Len(answers) + 1 \in 1 .. Len(Calls(entry)) /\ Len(answers) + 1 <= r
    BY <1>2, <1>3, <1>4
  <2>2. Call.count = Width
    BY <1>3, <2>1 DEF Call
  <2>3. Len(answers) < Len(Calls(entry)) /\ Len(answers) # Len(Calls(entry))
    BY <1>2, <1>3, <1>4
  <2>4. Len(res) < Call.count
    BY <2>3 DEF CallsOK
  <2>5. QED
    BY <1>1, <2>2, <2>4
<1>6. f \in Seq(Nat) /\ Len(f) = Width * n
  <2>1. <<>> \in Seq(Nat)
    OBVIOUS
  <2>2. f \in Seq(Nat)
    BY <1>1, <1>2, <2>1, FlatAppend
  <2>3. QED
    BY <1>1, <1>2, <1>3, <1>4, <2>2
<1>7. Len(Drawn) = Width * n + Len(res)
  <2>1. Len(f \o res) = Len(f) + Len(res)
    <3>1. f \in Seq(Nat) /\ res \in Seq(Nat) /\ 0 \in Nat
      BY <1>1, <1>6
    <3>2. QED
      BY <3>1, AppendToBoth
  <2>2. QED
    BY Zenon, <1>2, <1>6, <2>1 DEF Drawn
<1>8. Width * n + Width <= Width * r /\ Width * n \in Nat
  <2>1. PICK d : d \in Nat /\ r = n + 1 + d
    <3>1. r - n - 1 \in Nat /\ r = n + 1 + (r - n - 1)
      BY <1>3, <1>4
    <3>2. QED
      BY <3>1
  <2>2. Width * r = Width * n + Width + Width * d /\ Width * d \in Nat /\ Width * n \in Nat
    BY <1>4, <2>1
  <2>3. QED
    BY <1>4, <2>2
<1>9. NumConstants = Width * r
  <2>1. NumConstants = r * Width
    BY <1>2 DEF NumConstants, Rounds, Width
  <2>2. QED
    BY <1>3, <1>4, <2>1
<1>10. Len(Drawn) <= Width * r
  <2>1. PICK p, q, l : p = Width * n /\ q = Width * r /\ l = Len(res)
    OBVIOUS
  <2>2. p + Width <= q /\ p \in Nat /\ l < Width /\ l \in Nat /\ q \in Nat
    <3>1. q \in Nat
      BY <1>3, <1>4, <2>1
    <3>2. QED
      BY Zenon, <1>5, <1>8, <2>1, <3>1
  <2>3. p + l <= q
    BY <1>4, <2>2
  <2>4. QED
    BY Zenon, <1>7, <2>1, <2>3
<1>11. QED
  BY Zenon, <1>9, <1>10

LEMMA NumbersFollow == NumbersInv => NumbersFromStream
<1> SUFFICES ASSUME NumbersInv PROVE NumbersFromStream
  OBVIOUS
<1>1. CallsOK
  BY DEF NumbersInv
<1>2. PICK w \in Seq(Nat) : CutOK(w) /\ DrawnOK(w)
  BY DEF NumbersInv
<1>3. Windows = w
  BY <1>1, <1>2, WindowsAre
<1>4. PICK sel : sel = Selected
  OBVIOUS
<1>5. sel = SelectedOf(stream)
  BY Zenon, <1>4 DEF Selected, SelectedOf, Kept, PairBits
<1>6. bits = SubSeq(sel, PrimeBits * Len(w) + 1, Len(sel))
  BY Zenon, <1>2, <1>5 DEF CutOK, Cut
<1>7. PICK c \in 0 .. Len(w) :
        /\ Drawn = Elements(Modulus, w, c) \o Reduced(Modulus, w, c)
        /\ IF Len(answers) < Rounds THEN c = Len(w)
                                    ELSE Len(Elements(Modulus, w, c)) = NumConstants
  BY <1>2 DEF DrawnOK
<1>8. Below(w, c) = Elements(Modulus, w, c)
  BY Zenon DEF Below, Elements, Element
<1>9. Modulus \in Nat /\ Elements(Modulus, w, c) \in Seq(Nat)
  <2>1. Modulus \in Nat /\ 0 \in Nat
    BY <1>1, FieldFacts
  <2>2. QED
    BY <2>1, ElementsGrow
<1>10. Len(Below(w, c)) <= NumConstants /\ (c < Len(w) => Len(Below(w, c)) = NumConstants)
  <2>1. CASE Len(answers) < Rounds
    <3>1. c = Len(w) /\ Drawn = Elements(Modulus, w, c) \o <<>>
      <4>1. c = Len(w)
        BY <1>7, <2>1
      <4>2. Reduced(Modulus, w, Len(w)) = <<>>
        BY NoneReduced
      <4>3. QED
        BY Zenon, <1>7, <4>1, <4>2
    <3>2. Drawn = Elements(Modulus, w, c)
      <4>1. Elements(Modulus, w, c) \o <<>> = Elements(Modulus, w, c)
        BY <1>9
      <4>2. QED
        BY Zenon, <3>1, <4>1
    <3>3. Len(Drawn) <= NumConstants
      BY <1>1, <2>1, FewDrawn
    <3>4. Len(Below(w, c)) <= NumConstants
      BY Zenon, <1>8, <3>2, <3>3
    <3>5. ~ (c < Len(w))
      BY <3>1
    <3>6. QED
      BY Zenon, <3>4, <3>5
  <2>2. CASE ~ (Len(answers) < Rounds)
    <3>1. Len(Below(w, c)) = NumConstants
      BY Zenon, <1>7, <1>8, <2>2
    <3>2. Len(Below(w, c)) \in Nat
      BY <1>8, <1>9
    <3>3. QED
      BY <3>1, <3>2
  <2>3. QED
    BY <2>1, <2>2
<1>11. Drawn = Below(w, c) \o [i \in 1 .. (Len(w) - c) |-> w[c + i] % Modulus]
  BY Zenon, <1>7, <1>8 DEF Reduced
<1>12. QED
  BY Zenon, <1>3, <1>4, <1>6, <1>10, <1>11 DEF NumbersFromStream

(* The numbers the generator hands out are those the stream of its         *)
(* register defines, whatever the register, the field and the entry: the   *)
(* second bits of the pairs that start with a one, PrimeBits to a number,  *)
(* those below the modulus until the constants are there and every one,    *)
(* reduced, after that; no bit is lost or used twice between two calls.    *)
THEOREM NumbersComeFromStream == Spec => []NumbersFromStream
<1>1. Spec => []NumbersInv
  BY NumbersInit, NumbersStep, PTL DEF Spec
<1>2. QED
  BY <1>1, NumbersFollow, PTL

-----------------------------------------------------------------------------
(* Numbers modulo p: those that differ by a multiple of p are the same.    *)
Divides(p, z) == \E q \in Int : z = q * p

LEMMA DividesSums ==
  ASSUME NEW p \in Nat, NEW u \in Int, NEW v \in Int, Divides(p, u)
  PROVE  /\ Divides(p, u * v)
         /\ Divides(p, v) => Divides(p, u + v) /\ Divides(p, u - v)
<1>1. PICK q \in Int : u = q * p
  BY DEF Divides
<1>2. Divides(p, u * v)
  <2>1. u * v = (q * v) * p /\ q * v \in Int
    BY <1>1
  <2>2. QED
    BY <2>1 DEF Divides
<1>3. ASSUME Divides(p, v) PROVE Divides(p, u + v) /\ Divides(p, u - v)
  <2>1. PICK r \in Int : v = r * p
    BY <1>3 DEF Divides
  <2>2. u + v = (q + r) * p /\ u - v = (q - r) * p /\ q + r \in Int /\ q - r \in Int
    BY <1>1, <2>1
  <2>3. QED
    BY <2>2 DEF Divides
<1>4. QED
  BY <1>2, <1>3

LEMMA RestOf ==
  ASSUME NEW p \in Nat \ {0}, NEW x \in Int
  PROVE  x % p \in 0 .. (p - 1) /\ Divides(p, x - (x % p))
<1>1. x % p \in 0 .. (p - 1) /\ x = p * (x \div p) + (x % p) /\ x \div p \in Int
  OBVIOUS
<1>2. PICK q, r : q = x \div p /\ r = x % p
  OBVIOUS
<1>3. q \in Int /\ r \in Int /\ x - r = q * p
  BY <1>1, <1>2
<1>4. QED
  BY <1>1, <1>2, <1>3 DEF Divides

LEMMA SmallMultiple ==
  ASSUME NEW p \in Nat \ {0}, NEW z \in Int, Divides(p, z), z < p, -p < z
  PROVE  z = 0
<1>1. PICK q \in Int : z = q * p
  BY DEF Divides
<1>2. q >= 1 => q * p >= p
  BY <1>1
<1>3. q <= -1 => q * p <= -p
  BY <1>1
<1>4. q = 0
  BY <1>1, <1>2, <1>3
<1>5. QED
  BY <1>1, <1>4

(* Two rests are equal exactly if p divides the difference.                *)
LEMMA SameRest ==
  ASSUME NEW p \in Nat \ {0}, NEW x \in Int, NEW y \in Int
  PROVE  x % p = y % p <=> Divides(p, x - y)
<1>1. PICK r, s : r = x % p /\ s = y % p
  OBVIOUS
<1>2. /\ r \in 0 .. (p - 1) /\ s \in 0 .. (p - 1)
      /\ Divides(p, x - r) /\ Divides(p, y - s)
  BY <1>1, RestOf
<1>3. x - r \in Int /\ y - s \in Int /\ p \in Nat /\ x - y \in Int /\ r - s \in Int
  BY <1>2
<1>4. Divides(p, (x - r) - (y - s))
  BY <1>2, <1>3, DividesSums
<1>5. ASSUME r = s PROVE Divides(p, x - y)
  <2>1. (x - r) - (y - s) = x - y
    BY <1>2, <1>5
  <2>2. QED
    BY Zenon, <1>4, <2>1
<1>6. ASSUME Divides(p, x - y) PROVE r = s
  <2>1. PICK a, b : a = x - y /\ b = (x - r) - (y - s)
    OBVIOUS
  <2>2. a \in Int /\ b \in Int /\ Divides(p, a) /\ Divides(p, b) /\ a - b = r - s
    BY <1>2, <1>4, <1>6, <2>1
  <2>3. Divides(p, a - b)
    BY <1>3, <2>2, DividesSums
  <2>4. Divides(p, r - s) /\ r - s < p /\ -p < r - s
    BY <1>2, <2>2, <2>3
  <2>5. r - s = 0
    BY <1>3, <2>4, SmallMultiple
  <2>6. QED
    BY <1>2, <2>5
<1>7. QED
  BY Zenon, <1>1, <1>5, <1>6

(* A field: what p does not divide has an inverse.                         *)
HasInverses(p) ==
  /\ p \in Nat \ {0, 1}
  /\ \A x \in 1 .. (p - 1) : \E y \in 0 .. (p - 1) : (x * y) % p = 1

LEMMA RestOne ==
  ASSUME NEW p \in Nat \ {0, 1}, NEW x \in Int
  PROVE  x % p = 1 <=> Divides(p, x - 1)
<1>1. 1 % p = 1 /\ 1 \in Int /\ p \in Nat \ {0}
  OBVIOUS
<1>2. x % p = 1 % p <=> Divides(p, x - 1)
  BY <1>1, SameRest
<1>3. QED
  BY Zenon, <1>1, <1>2

LEMMA RestZero ==
  ASSUME NEW p \in Nat \ {0}, NEW x \in Int
  PROVE  x % p = 0 <=> Divides(p, x)
<1>1. 0 % p = 0 /\ x - 0 = x /\ 0 \in Int
  OBVIOUS
<1>2. x % p = 0 % p <=> Divides(p, x - 0)
  BY <1>1, SameRest
<1>3. QED
  BY Zenon, <1>1, <1>2

LEMMA Algebra ==
  ASSUME NEW s \in Int, NEW r \in Int, NEW y \in Int, NEW t \in Int
  PROVE  /\ s * y - 1 = (s - r) * y + (r * y - 1)
         /\ t = (s * t) * y - (s * y - 1) * t
         /\ s * y \in Int /\ s * t \in Int /\ (s - r) * y \in Int /\ r * y \in Int
         /\ (s * t) * y \in Int /\ (s * y - 1) * t \in Int
OBVIOUS

LEMMA InverseExists ==
  ASSUME NEW p, HasInverses(p), NEW s \in Int, ~ Divides(p, s)
  PROVE  \E y \in 0 .. (p - 1) : Divides(p, s * y - 1)
<1>1. p \in Nat \ {0, 1} /\ p \in Nat
  BY DEF HasInverses
<1>2. PICK r : r = s % p
  OBVIOUS
<1>3. r \in 0 .. (p - 1) /\ Divides(p, s - r)
  BY <1>1, <1>2, RestOf
<1>4. r # 0
  <2>1. s - 0 = s
    OBVIOUS
  <2>2. QED
    BY <1>3, <2>1
<1>5. r \in 1 .. (p - 1)
  BY <1>1, <1>3, <1>4
<1>6. PICK y \in 0 .. (p - 1) : (r * y) % p = 1
  BY <1>5 DEF HasInverses
<1>7. r \in Int /\ y \in Int /\ r * y \in Int
  BY <1>1, <1>3, <1>6
<1>8. Divides(p, r * y - 1)
  BY <1>1, <1>6, <1>7, RestOne
<1>9. Divides(p, (s - r) * y)
  <2>1. s - r \in Int
    BY <1>7
  <2>2. QED
    BY <1>1, <1>3, <1>7, <2>1, DividesSums
<1>10. Divides(p, (s - r) * y + (r * y - 1))
  <2>1. (s - r) * y \in Int /\ r * y - 1 \in Int
    BY <1>7
  <2>2. QED
    BY <1>1, <1>8, <1>9, <2>1, DividesSums
<1>11. s * y - 1 = (s - r) * y + (r * y - 1)
  BY <1>7, Algebra
<1>12. QED
  BY Zenon, <1>10, <1>11

LEMMA NoZeroDivisors ==
  ASSUME NEW p, HasInverses(p), NEW s \in Int, NEW t \in Int, Divides(p, s * t)
  PROVE  Divides(p, s) \/ Divides(p, t)
<1> SUFFICES ASSUME ~ Divides(p, s) PROVE Divides(p, t)
  OBVIOUS
<1>1. p \in Nat
  BY DEF HasInverses
<1>2. PICK y \in 0 .. (p - 1) : Divides(p, s * y - 1)
  BY InverseExists
<1>3. y \in Int
  BY <1>1, <1>2
<1>4. /\ t = (s * t) * y - (s * y - 1) * t
      /\ s * t \in Int /\ s * y - 1 \in Int /\ (s * t) * y \in Int /\ (s * y - 1) * t \in Int
  BY <1>3, Algebra
<1>5. Divides(p, (s * t) * y) /\ Divides(p, (s * y - 1) * t)
  BY <1>1, <1>2, <1>3, <1>4, DividesSums
<1>6. Divides(p, (s * t) * y - (s * y - 1) * t)
  BY <1>1, <1>4, <1>5, DividesSums
<1>7. QED
  BY Zenon, <1>4, <1>6

-----------------------------------------------------------------------------
(* A product of two numbers that are one is one.                           *)
LEMMA ProductOfOnes ==
  ASSUME NEW p \in Nat, NEW u \in Int, NEW v \in Int, Divides(p, u - 1), Divides(p, v - 1)
  PROVE  Divides(p, u * v - 1)
<1>1. /\ u - 1 \in Int /\ v - 1 \in Int /\ (u - 1) * v \in Int
      /\ u * v - 1 = (u - 1) * v + (v - 1)
  OBVIOUS
<1>2. Divides(p, (u - 1) * v)
  BY <1>1, DividesSums
<1>3. Divides(p, (u - 1) * v + (v - 1))
  BY <1>1, <1>2, DividesSums
<1>4. QED
  BY Zenon, <1>1, <1>3

(* The difference of two inverses is the difference of what they invert,   *)
(* times something that has an inverse itself.                             *)
LEMMA DifferenceIdentity ==
  ASSUME NEW e \in Int, NEW f \in Int, NEW g \in Int, NEW h \in Int
  PROVE  /\ (e * f) * (h - g) - (e - f) = e * (f * h - 1) - f * (e * g - 1)
         /\ e * (f * h - 1) \in Int /\ f * (e * g - 1) \in Int /\ (e * f) * (h - g) \in Int
         /\ e * f \in Int /\ e * g \in Int /\ f * h \in Int /\ g * h \in Int
         /\ h - g \in Int /\ e - f \in Int
OBVIOUS

LEMMA CancelIdentity ==
  ASSUME NEW d \in Int, NEW n \in Int, NEW g \in Int, NEW k \in Int, k = n * g
  PROVE  /\ d = (n * d) * g - (k - 1) * d
         /\ (n * d) * g \in Int /\ (k - 1) * d \in Int /\ n * d \in Int /\ k - 1 \in Int
OBVIOUS

LEMMA Regroup ==
  ASSUME NEW e \in Int, NEW f \in Int, NEW g \in Int, NEW h \in Int
  PROVE  (e * g) * (f * h) = (e * f) * (g * h)
<1>1. (e * g) * (f * h) = e * (g * (f * h))
  OBVIOUS
<1>2. g * (f * h) = f * (g * h)
  OBVIOUS
<1>3. (e * f) * (g * h) = e * (f * (g * h))
  OBVIOUS
<1>4. QED
  BY Zenon, <1>1, <1>2, <1>3

LEMMA InversesDiffer ==
  ASSUME NEW p \in Nat, NEW e \in Int, NEW f \in Int, NEW g \in Int, NEW h \in Int,
         Divides(p, e * g - 1), Divides(p, f * h - 1)
  PROVE  Divides(p, e - f) <=> Divides(p, h - g)
<1>1. PICK d, n, b : d = h - g /\ n = e * f /\ b = e - f
  OBVIOUS
<1>2. PICK s, t : s = e * (f * h - 1) /\ t = f * (e * g - 1)
  OBVIOUS
<1>3. /\ d \in Int /\ n \in Int /\ b \in Int /\ s \in Int /\ t \in Int
      /\ n * d \in Int /\ n * d - b = s - t
      /\ e * g \in Int /\ f * h \in Int /\ g * h \in Int
  <2>1. /\ (e * f) * (h - g) - (e - f) = e * (f * h - 1) - f * (e * g - 1)
        /\ e * (f * h - 1) \in Int /\ f * (e * g - 1) \in Int /\ (e * f) * (h - g) \in Int
        /\ e * f \in Int /\ e * g \in Int /\ f * h \in Int /\ g * h \in Int
        /\ h - g \in Int /\ e - f \in Int
    BY DifferenceIdentity
  <2>2. QED
    BY Zenon, <1>1, <1>2, <2>1
<1>4. Divides(p, s) /\ Divides(p, t)
  <2>1. PICK u, v : u = f * h - 1 /\ v = e * g - 1
    OBVIOUS
  <2>2. u \in Int /\ v \in Int /\ Divides(p, u) /\ Divides(p, v)
    BY <1>3, <2>1
  <2>3. u * e = s /\ v * f = t
    BY <1>2, <2>1, <2>2
  <2>4. Divides(p, u * e) /\ Divides(p, v * f)
    BY <2>2, DividesSums
  <2>5. QED
    BY Zenon, <2>3, <2>4
<1>5. Divides(p, n * d - b)
  <2>1. Divides(p, s - t)
    BY <1>3, <1>4, DividesSums
  <2>2. QED
    BY Zenon, <1>3, <2>1
<1>6. ASSUME Divides(p, d) PROVE Divides(p, b)
  <2>1. PICK x, y : x = n * d /\ y = n * d - b
    OBVIOUS
  <2>2. x \in Int /\ y \in Int /\ x - y = b /\ d * n = x
    BY <1>3, <2>1
  <2>3. Divides(p, d * n)
    BY <1>3, <1>6, DividesSums
  <2>4. Divides(p, x) /\ Divides(p, y)
    BY Zenon, <1>5, <2>1, <2>2, <2>3
  <2>5. Divides(p, x - y)
    BY <2>2, <2>4, DividesSums
  <2>6. QED
    BY Zenon, <2>2, <2>5
<1>7. ASSUME Divides(p, b) PROVE Divides(p, d)
  <2>1. Divides(p, n * d)
    <3>1. PICK x, y : x = n * d /\ y = n * d - b
      OBVIOUS
    <3>2. x \in Int /\ y \in Int /\ y + b = x
      BY <1>3, <3>1
    <3>3. Divides(p, y)
      BY Zenon, <1>5, <3>1
    <3>4. Divides(p, y + b)
      BY <1>3, <1>7, <3>2, <3>3, DividesSums
    <3>5. QED
      BY Zenon, <3>1, <3>2, <3>4
  <2>2. PICK k, m : k = (e * g) * (f * h) /\ m = g * h
    OBVIOUS
  <2>3. k \in Int /\ m \in Int /\ k = n * m
    <3>1. (e * g) * (f * h) = (e * f) * (g * h)
      BY Regroup
    <3>2. m \in Int /\ k = n * m
      BY Zenon, <1>1, <1>3, <2>2, <3>1
    <3>3. QED
      BY <1>3, <3>2
  <2>4. Divides(p, k - 1)
    <3>1. Divides(p, (e * g) * (f * h) - 1)
      BY <1>3, ProductOfOnes
    <3>2. QED
      BY Zenon, <2>2, <3>1
  <2>5. /\ d = (n * d) * m - (k - 1) * d
        /\ (n * d) * m \in Int /\ (k - 1) * d \in Int /\ k - 1 \in Int
    BY <1>3, <2>3, CancelIdentity
  <2>6. Divides(p, (n * d) * m) /\ Divides(p, (k - 1) * d)
    BY <1>3, <2>1, <2>3, <2>4, <2>5, DividesSums
  <2>7. Divides(p, (n * d) * m - (k - 1) * d)
    BY <2>5, <2>6, DividesSums
  <2>8. QED
    BY Zenon, <2>5, <2>7
<1>8. QED
  BY Zenon, <1>1, <1>6, <1>7

-----------------------------------------------------------------------------
(* A minor of order two of a Cauchy matrix is zero exactly if two of the   *)
(* numbers it is made from are the same.                                   *)
LEMMA CauchyIdentity ==
  ASSUME NEW x \in Int, NEW z \in Int, NEW y \in Int, NEW w \in Int
  PROVE  (x + w) * (z + y) - (x + y) * (z + w) = (x - z) * (y - w)
OBVIOUS

LEMMA MinorVanishes ==
  ASSUME NEW p, HasInverses(p),
         NEW x \in Int, NEW z \in Int, NEW y \in Int, NEW w \in Int,
         NEW a \in Int, NEW b \in Int, NEW c \in Int, NEW d \in Int,
         Divides(p, (x + y) * a - 1), Divides(p, (z + w) * b - 1),
         Divides(p, (x + w) * c - 1), Divides(p, (z + y) * d - 1)
  PROVE  Divides(p, a * b - c * d) <=> Divides(p, x - z) \/ Divides(p, y - w)
<1>1. p \in Nat
  BY DEF HasInverses
<1>2. PICK e, f, g, h : /\ e = a * b /\ f = c * d
                        /\ g = (x + y) * (z + w) /\ h = (x + w) * (z + y)
  OBVIOUS
<1>3. e \in Int /\ f \in Int /\ g \in Int /\ h \in Int
  BY <1>2
<1>4. ASSUME NEW r \in Int, NEW s \in Int, NEW u \in Int, NEW v \in Int,
             Divides(p, r * u - 1), Divides(p, s * v - 1)
      PROVE  Divides(p, (u * v) * (r * s) - 1)
  <2>1. r * u \in Int /\ s * v \in Int
    OBVIOUS
  <2>2. Divides(p, (r * u) * (s * v) - 1)
    BY <1>1, <1>4, <2>1, ProductOfOnes
  <2>3. (r * u) * (s * v) = (r * s) * (u * v)
    BY Regroup
  <2>4. (r * s) * (u * v) = (u * v) * (r * s)
    <3>1. \A i, j \in Int : i * j = j * i
      OBVIOUS
    <3>2. r * s \in Int /\ u * v \in Int
      OBVIOUS
    <3>3. QED
      BY Zenon, <3>1, <3>2
  <2>5. QED
    BY Zenon, <2>2, <2>3, <2>4
<1>5. Divides(p, e * g - 1) /\ Divides(p, f * h - 1)
  <2>1. PICK x1, x2, x3, x4 : x1 = x + y /\ x2 = z + w /\ x3 = x + w /\ x4 = z + y
    OBVIOUS
  <2>2. /\ x1 \in Int /\ x2 \in Int /\ x3 \in Int /\ x4 \in Int
        /\ Divides(p, x1 * a - 1) /\ Divides(p, x2 * b - 1)
        /\ Divides(p, x3 * c - 1) /\ Divides(p, x4 * d - 1)
    BY <2>1
  <2>3. Divides(p, (a * b) * (x1 * x2) - 1)
    BY <1>4, <2>2
  <2>4. Divides(p, (c * d) * (x3 * x4) - 1)
    BY <1>4, <2>2
  <2>5. QED
    BY Zenon, <1>2, <2>1, <2>3, <2>4
<1>6. Divides(p, e - f) <=> Divides(p, h - g)
  BY <1>1, <1>3, <1>5, InversesDiffer
<1>7. PICK s, t : s = x - z /\ t = y - w
  OBVIOUS
<1>8. s \in Int /\ t \in Int /\ h - g = s * t /\ t * s = s * t
  <2>1. (x + w) * (z + y) - (x + y) * (z + w) = (x - z) * (y - w)
    BY CauchyIdentity
  <2>2. s \in Int /\ t \in Int
    BY <1>7
  <2>3. t * s = s * t
    BY <2>2
  <2>4. QED
    BY Zenon, <1>2, <1>7, <2>1, <2>2, <2>3
<1>9. Divides(p, s * t) <=> Divides(p, s) \/ Divides(p, t)
  <2>1. Divides(p, s * t) => Divides(p, s) \/ Divides(p, t)
    BY <1>8, NoZeroDivisors
  <2>2. Divides(p, s) => Divides(p, s * t)
    BY <1>1, <1>8, DividesSums
  <2>3. Divides(p, t) => Divides(p, t * s)
    BY <1>1, <1>8, DividesSums
  <2>4. QED
    BY Zenon, <1>8, <2>1, <2>2, <2>3
<1>10. QED
  BY Zenon, <1>2, <1>6, <1>7, <1>8, <1>9

-----------------------------------------------------------------------------
(* What the calls answered are elements, as many as each was asked for,    *)
(* and the matrix has the inverses of the sums.                            *)
ElementsOK ==
  /\ \A k \in 1 .. Len(answers) : /\ answers[k] \in Seq(0 .. (Modulus - 1))
                                  /\ Len(answers[k]) = Calls(entry)[k].count
  /\ res \in Seq(0 .. (Modulus - 1))

InverseOf(p, x) == CHOOSE y \in 0 .. (p - 1) : (x * y) % p = 1

IsCauchy(matrix, p, v, w) ==
  /\ \A i \in DOMAIN v, j \in DOMAIN w : (v[i] + w[j]) % p # 0
  /\ matrix = [i \in DOMAIN v |-> [j \in DOMAIN w |-> InverseOf(p, v[i] + w[j])]]

MatrixOK == pc = "done" => IsCauchy(mds, Modulus, xs, ys)

MatrixInv == NumbersInv /\ ElementsOK /\ MatrixOK

LEMMA BitsOfNumber ==
  ASSUME NumbersInv
  PROVE  BigInt(bits) \in Nat /\ (pc = "number" => FromLeBytes(Bytes(bits)) = BigInt(bits) % Modulus)
<1>1. PrimeBits \in Nat \ {0} /\ PrimeBits \in Nat /\ TRUE \in BOOLEAN
  BY FieldFacts DEF NumbersInv
<1>2. PICK w \in Seq(Nat) : CutOK(w)
  BY DEF NumbersInv
<1>3. /\ Cut(SelectedOf(stream), bits, PrimeBits, w)
      /\ pc = "number" => Len(bits) = PrimeBits
  BY <1>2 DEF CutOK
<1>4. bits \in Seq(BOOLEAN)
  BY <1>1, <1>3, CutMore
<1>5. BigInt(bits) \in Nat
  BY <1>4, BigIntValue
<1>6. ASSUME pc = "number" PROVE FromLeBytes(Bytes(bits)) = BigInt(bits) % Modulus
  <2>1. Len(bits) >= 1
    BY <1>1, <1>3, <1>6
  <2>2. QED
    BY <1>4, <2>1, LeBytesValue
<1>7. QED
  BY <1>5, <1>6

LEMMA PushElement ==
  ASSUME CallsOK, ElementsOK, pc = "number", NEW v \in 0 .. (Modulus - 1), Push(v)
  PROVE  ElementsOK'
<1>1. Modulus' = Modulus /\ Calls(entry)' = Calls(entry)
  BY DEF Push, Modulus, Calls
<1>2. PICK S, n, row : S = 0 .. (Modulus - 1) /\ n = Len(answers) /\ row = Append(res, v)
  OBVIOUS
<1>3. /\ res \in Seq(S) /\ v \in S /\ answers \in Seq(Seq(Nat))
      /\ \A k \in 1 .. n : answers[k] \in Seq(S) /\ Len(answers[k]) = Calls(entry)[k].count
  BY <1>2 DEF ElementsOK, CallsOK
<1>4. row \in Seq(S) /\ Len(row) = Len(res) + 1 /\ n \in Nat /\ <<>> \in Seq(S)
  BY <1>2, <1>3
<1>5. CASE Len(res) + 1 = Call.count
  <2>1. answers' = Append(answers, row) /\ res' = <<>>
    BY <1>2, <1>5 DEF Push
  <2>2. /\ Len(answers') = n + 1 /\ answers'[n + 1] = row
        /\ \A k \in 1 .. n : answers'[k] = answers[k]
    <3>1. row \in Seq(Nat)
      <4>1. v \in Nat /\ res \in Seq(Nat)
        BY FieldFacts DEF CallsOK
      <4>2. QED
        BY <1>2, <4>1
    <3>2. QED
      BY <1>2, <1>3, <2>1, <3>1
  <2>3. Len(row) = Calls(entry)[n + 1].count
    BY <1>2, <1>4, <1>5 DEF Call
  <2>4. ASSUME NEW k \in 1 .. (n + 1)
        PROVE  answers'[k] \in Seq(S) /\ Len(answers'[k]) = Calls(entry)[k].count
    <3>1. CASE k = n + 1
      BY <1>4, <2>2, <2>3, <3>1
    <3>2. CASE k # n + 1
      <4>1. k \in 1 .. n
        BY <1>4, <3>2
      <4>2. QED
        BY Zenon, <1>3, <2>2, <4>1
    <3>3. QED
      BY <3>1, <3>2
  <2>5. QED
    BY Zenon, <1>1, <1>2, <1>4, <2>1, <2>2, <2>4 DEF ElementsOK
<1>6. CASE Len(res) + 1 # Call.count
  <2>1. answers' = answers /\ res' = row
    BY <1>2, <1>6 DEF Push
  <2>2. QED
    BY Zenon, <1>1, <1>2, <1>3, <1>4, <2>1 DEF ElementsOK
<1>7. QED
  BY <1>5, <1>6

LEMMA MatrixStep == MatrixInv /\ [Next]_vars => MatrixInv'
<1> SUFFICES ASSUME MatrixInv, [Next]_vars PROVE MatrixInv'
  OBVIOUS
<1>1. NumbersInv /\ CallsOK /\ ElementsOK /\ MatrixOK
  BY DEF MatrixInv, NumbersInv
<1>2. NumbersInv'
  BY <1>1, NumbersStep
<1>3. Modulus \in Nat \ {0}
  BY <1>1, FieldFacts
<1>4. ASSUME UNCHANGED <<answers, res, field, entry>> PROVE ElementsOK'
  <2>1. Modulus' = Modulus /\ Calls(entry)' = Calls(entry)
    BY <1>4 DEF Modulus, Calls
  <2>2. QED
    BY Zenon, <1>1, <1>4, <2>1 DEF ElementsOK
<1>5. ASSUME pc' # "done" PROVE MatrixOK'
  BY <1>5 DEF MatrixOK
<1>6. CASE WarmUp
  BY <1>2, <1>4, <1>5, <1>6 DEF WarmUp, MatrixInv
<1>7. CASE FirstBit
  BY <1>2, <1>4, <1>5, <1>7 DEF FirstBit, MatrixInv
<1>8. CASE DiscardBit
  BY <1>2, <1>4, <1>5, <1>8 DEF DiscardBit, MatrixInv
<1>9. CASE SecondBit
  BY <1>2, <1>4, <1>5, <1>9 DEF SecondBit, MatrixInv
<1>10. CASE RejectNumber
  BY <1>2, <1>4, <1>5, <1>10 DEF RejectNumber, MatrixInv
<1>11. CASE Accept
  <2>1. PICK v : v = BigInt(bits)
    OBVIOUS
  <2>2. pc = "number" /\ Push(v) /\ v < Modulus
    BY <1>11, <2>1 DEF Accept
  <2>3. v \in Nat
    BY <1>1, <2>1, BitsOfNumber
  <2>4. v \in 0 .. (Modulus - 1)
    BY <1>3, <2>2, <2>3
  <2>5. ElementsOK'
    BY <1>1, <2>2, <2>4, PushElement
  <2>6. pc' # "done"
    BY <2>2 DEF Push
  <2>7. QED
    BY <1>2, <1>5, <2>5, <2>6 DEF MatrixInv
<1>12. CASE Reduce
  <2>1. PICK v : v = FromLeBytes(Bytes(bits))
    OBVIOUS
  <2>2. pc = "number" /\ Push(v)
    BY <1>12, <2>1 DEF Reduce
  <2>3. v = BigInt(bits) % Modulus /\ BigInt(bits) \in Nat
    BY <1>1, <2>1, <2>2, BitsOfNumber
  <2>4. v \in 0 .. (Modulus - 1)
    BY <1>3, <2>3
  <2>5. ElementsOK'
    BY <1>1, <2>2, <2>4, PushElement
  <2>6. pc' # "done"
    BY <2>2 DEF Push
  <2>7. QED
    BY <1>2, <1>5, <2>5, <2>6 DEF MatrixInv
<1>13. CASE FillMatrix
  <2>1. UNCHANGED <<answers, res, field, entry>>
    BY <1>13 DEF FillMatrix
  <2>2. xs' = xs /\ ys' = ys /\ Modulus' = Modulus
    BY <2>1 DEF xs, ys, Modulus
  <2>3. pc' = "done" => IsCauchy(mds', Modulus, xs, ys)
    <3>1. \A x : Inverse_p(x) = InverseOf(Modulus, x)
      BY DEF Inverse_p, InverseOf
    <3>2. pc' = "done" =>
            /\ \A i \in DOMAIN xs, j \in DOMAIN ys : (xs[i] + ys[j]) % Modulus # 0
            /\ mds' = [i \in DOMAIN xs |-> [j \in DOMAIN ys |-> Inverse_p(xs[i] + ys[j])]]
      BY <1>13 DEF FillMatrix
    <3>3. QED
      BY Zenon, <3>1, <3>2 DEF IsCauchy
  <2>5. MatrixOK'
    BY Zenon, <2>2, <2>3 DEF MatrixOK
  <2>6. QED
    BY <1>2, <1>4, <2>1, <2>5 DEF MatrixInv
<1>14. CASE UNCHANGED vars
  <2>1. UNCHANGED <<answers, res, field, entry, pc, mds>>
    BY <1>14 DEF vars
  <2>2. xs' = xs /\ ys' = ys /\ Modulus' = Modulus
    BY <2>1 DEF xs, ys, Modulus
  <2>3. MatrixOK'
    BY Zenon, <1>1, <2>1, <2>2 DEF MatrixOK
  <2>4. QED
    BY <1>2, <1>4, <2>1, <2>3 DEF MatrixInv
<1>15. QED
  BY <1>6, <1>7, <1>8, <1>9, <1>10, <1>11, <1>12, <1>13, <1>14 DEF Next

LEMMA MatrixInit == Init => MatrixInv
<1> SUFFICES ASSUME Init PROVE MatrixInv
  OBVIOUS
<1>1. NumbersInv
  BY NumbersInit
<1>2. answers = <<>> /\ res = <<>> /\ pc = "init"
  BY DEF Init
<1>3. ElementsOK
  <2>1. 1 .. Len(answers) = {} /\ <<>> \in Seq(0 .. (Modulus - 1))
    BY <1>2
  <2>2. QED
    BY Zenon, <1>2, <2>1 DEF ElementsOK
<1>4. MatrixOK
  BY <1>2 DEF MatrixOK
<1>5. QED
  BY <1>1, <1>3, <1>4 DEF MatrixInv

-----------------------------------------------------------------------------
(* xs and ys are rows.                                                     *)
LEMMA LastCalls ==
  ASSUME NEW e, IsEntry(e)
  PROVE  /\ Calls(e)[Len(Calls(e)) - 1].count = e.rate + 1
         /\ Calls(e)[Len(Calls(e))].count = e.rate + 1
<1> DEFINE rounds == e.full_rounds + e.partial_rounds
           total == rounds + e.skip_matrices + 2
<1>1. e.rate \in Nat /\ rounds \in Nat /\ e.skip_matrices \in Nat
  BY DEF IsEntry
<1>2. Calls(e) = [k \in 1 .. total |->
        IF k <= rounds THEN [sampling |-> TRUE, count |-> e.rate + 1]
        ELSE IF k <= rounds + e.skip_matrices
             THEN [sampling |-> FALSE, count |-> 2 * (e.rate + 1)]
             ELSE [sampling |-> FALSE, count |-> e.rate + 1]]
  BY DEF Calls
<1>3. /\ total \in Nat /\ total \in 1 .. total /\ total - 1 \in 1 .. total
      /\ ~ (total <= rounds) /\ ~ (total <= rounds + e.skip_matrices)
      /\ ~ (total - 1 <= rounds) /\ ~ (total - 1 <= rounds + e.skip_matrices)
  BY <1>1
<1>4. Len(Calls(e)) = total
  <2> HIDE DEF total
  <2>1. QED
    BY <1>2, <1>3
<1>5. Calls(e)[total] = [sampling |-> FALSE, count |-> e.rate + 1]
  <2> HIDE DEF total
  <2>1. QED
    BY <1>2, <1>3
<1>6. Calls(e)[total - 1] = [sampling |-> FALSE, count |-> e.rate + 1]
  <2> HIDE DEF total
  <2>1. QED
    BY <1>2, <1>3
<1>7. QED
  BY <1>4, <1>5, <1>6

LEMMA RowsAtEnd ==
  ASSUME MatrixInv, pc = "done"
  PROVE  /\ HasInverses(Modulus) /\ Width \in Nat
         /\ xs \in Seq(0 .. (Modulus - 1)) /\ Len(xs) = Width
         /\ ys \in Seq(0 .. (Modulus - 1)) /\ Len(ys) = Width
<1>1. CallsOK /\ ElementsOK
  BY DEF MatrixInv, NumbersInv
<1>2. /\ field \in Fields /\ IsEntry(entry) /\ Len(answers) = Len(Calls(entry))
      /\ answers \in Seq(Seq(Nat))
  BY <1>1 DEF CallsOK
<1>3. HasInverses(Modulus)
  BY <1>2, FieldsAssumption DEF HasInverses, Modulus
<1>4. PICK n, S : n = Len(answers) /\ S = 0 .. (Modulus - 1)
  OBVIOUS
<1>5. /\ n \in Nat /\ n >= Rounds + 2 /\ Rounds \in Nat /\ entry.rate \in Nat
  BY <1>2, <1>4, CallsAre DEF Rounds
<1>6. n - 1 \in 1 .. n /\ n \in 1 .. n
  BY <1>5
<1>7. \A k \in 1 .. n : answers[k] \in Seq(S) /\ Len(answers[k]) = Calls(entry)[k].count
  BY <1>1, <1>4 DEF ElementsOK
<1>8. Calls(entry)[n - 1].count = Width /\ Calls(entry)[n].count = Width
  BY Zenon, <1>2, <1>4, LastCalls DEF Width
<1>9. xs = answers[n - 1] /\ ys = answers[n]
  BY <1>4 DEF xs, ys
<1>10. Width \in Nat
  BY <1>5 DEF Width
<1>11. QED
  BY Zenon, <1>3, <1>4, <1>6, <1>7, <1>8, <1>9, <1>10

-----------------------------------------------------------------------------
LEMMA InverseIs ==
  ASSUME NEW p, HasInverses(p), NEW z \in Nat, z % p # 0
  PROVE  /\ InverseOf(p, z) \in 0 .. (p - 1)
         /\ Divides(p, z * InverseOf(p, z) - 1)
         /\ InverseOf(p, z) % p # 0
<1>1. p \in Nat \ {0, 1} /\ p \in Nat \ {0} /\ p \in Nat /\ z \in Int
  BY DEF HasInverses
<1>2. ~ Divides(p, z)
  BY <1>1, RestZero
<1>3. PICK y \in 0 .. (p - 1) : Divides(p, z * y - 1)
  BY <1>1, <1>2, InverseExists
<1>4. (z * y) % p = 1
  <2>1. z * y \in Int
    BY <1>1, <1>3
  <2>2. QED
    BY <1>1, <1>3, <2>1, RestOne
<1>5. PICK m : m = InverseOf(p, z)
  OBVIOUS
<1>6. m \in 0 .. (p - 1) /\ (z * m) % p = 1
  BY <1>4, <1>5 DEF InverseOf
<1>7. m \in Int /\ z * m \in Int
  BY <1>1, <1>6
<1>8. Divides(p, z * m - 1)
  BY <1>1, <1>6, <1>7, RestOne
<1>9. ~ Divides(p, m)
  <2>1. SUFFICES ASSUME Divides(p, m) PROVE FALSE
    OBVIOUS
  <2>2. PICK a, b : a = m * z /\ b = z * m - 1
    OBVIOUS
  <2>3. a \in Int /\ b \in Int /\ a - b = 1
    BY <1>1, <1>7, <2>2
  <2>4. Divides(p, a)
    <3>1. Divides(p, m * z)
      BY <1>1, <1>7, <2>1, DividesSums
    <3>2. QED
      BY Zenon, <2>2, <3>1
  <2>5. Divides(p, b)
    BY Zenon, <1>8, <2>2
  <2>6. Divides(p, a - b)
    BY <1>1, <2>3, <2>4, <2>5, DividesSums
  <2>7. Divides(p, 1) /\ 1 < p /\ -p < 1 /\ 1 \in Int
    BY <1>1, <2>3, <2>6
  <2>8. 1 = 0
    BY <1>1, <2>7, SmallMultiple
  <2>9. QED
    BY <2>8
<1>10. m % p # 0
  BY <1>1, <1>7, <1>9, RestZero
<1>11. QED
  BY Zenon, <1>5, <1>6, <1>8, <1>10

LEMMA SameElement ==
  ASSUME NEW p \in Nat \ {0}, NEW x \in 0 .. (p - 1), NEW y \in 0 .. (p - 1)
  PROVE  Divides(p, x - y) <=> x = y
<1>1. x % p = x /\ y % p = y /\ x \in Int /\ y \in Int
  OBVIOUS
<1>2. x % p = y % p <=> Divides(p, x - y)
  BY <1>1, SameRest
<1>3. QED
  BY Zenon, <1>1, <1>2

Rows(p, n, v, u) ==
  /\ HasInverses(p) /\ n \in Nat
  /\ v \in Seq(0 .. (p - 1)) /\ Len(v) = n
  /\ u \in Seq(0 .. (p - 1)) /\ Len(u) = n

(* The entries and the minors of a Cauchy matrix, in terms of the numbers  *)
(* it is made from.                                                        *)
LEMMA CauchyEntries ==
  ASSUME NEW p, NEW n, NEW v, NEW u, Rows(p, n, v, u),
         NEW matrix, IsCauchy(matrix, p, v, u),
         NEW i \in 1 .. n, NEW j \in 1 .. n
  PROVE  /\ v[i] \in 0 .. (p - 1) /\ u[j] \in 0 .. (p - 1)
         /\ matrix[i][j] \in 0 .. (p - 1) /\ matrix[i][j] % p # 0
         /\ Divides(p, (v[i] + u[j]) * matrix[i][j] - 1)
<1>1. DOMAIN v = 1 .. n /\ DOMAIN u = 1 .. n
  BY DEF Rows
<1>2. p \in Nat /\ HasInverses(p)
  BY DEF HasInverses, Rows
<1>3. v[i] \in 0 .. (p - 1) /\ u[j] \in 0 .. (p - 1)
  <2>1. \A S : \A s \in Seq(S) : \A k \in 1 .. Len(s) : s[k] \in S
    OBVIOUS
  <2>2. i \in 1 .. Len(v) /\ j \in 1 .. Len(u)
    BY DEF Rows
  <2>3. QED
    BY Zenon, <2>1, <2>2 DEF Rows
<1>4. v[i] + u[j] \in Nat
  BY <1>2, <1>3
<1>5. (v[i] + u[j]) % p # 0 /\ matrix[i][j] = InverseOf(p, v[i] + u[j])
  BY Zenon, <1>1 DEF IsCauchy
<1>6. PICK z : z = v[i] + u[j]
  OBVIOUS
<1>7. z \in Nat /\ z % p # 0 /\ matrix[i][j] = InverseOf(p, z)
  BY Zenon, <1>4, <1>5, <1>6
<1>8. /\ InverseOf(p, z) \in 0 .. (p - 1)
      /\ Divides(p, z * InverseOf(p, z) - 1)
      /\ InverseOf(p, z) % p # 0
  BY <1>2, <1>7, InverseIs
<1>9. QED
  BY Zenon, <1>3, <1>6, <1>7, <1>8

Vanishes(matrix, p, i, k, j, l) ==
  (matrix[i][j] * matrix[k][l]) % p = (matrix[i][l] * matrix[k][j]) % p
SameOf(v, i, k) == v[i] = v[k]

LEMMA CauchyMinors ==
  ASSUME NEW p, NEW n, NEW v, NEW u, Rows(p, n, v, u),
         NEW matrix, IsCauchy(matrix, p, v, u),
         NEW i \in 1 .. n, NEW k \in 1 .. n, NEW j \in 1 .. n, NEW l \in 1 .. n
  PROVE  Vanishes(matrix, p, i, k, j, l) <=> SameOf(v, i, k) \/ SameOf(u, j, l)
<1>1. p \in Nat \ {0} /\ p \in Nat /\ HasInverses(p)
  BY DEF HasInverses, Rows
<1>2. PICK x, z, y, w : x = v[i] /\ z = v[k] /\ y = u[j] /\ w = u[l]
  OBVIOUS
<1>3. PICK a, b, c, d : /\ a = matrix[i][j] /\ b = matrix[k][l]
                        /\ c = matrix[i][l] /\ d = matrix[k][j]
  OBVIOUS
<1>4. x \in 0 .. (p - 1) /\ y \in 0 .. (p - 1) /\ a \in 0 .. (p - 1) /\ Divides(p, (x + y) * a - 1)
  BY <1>2, <1>3, CauchyEntries
<1>5. z \in 0 .. (p - 1) /\ w \in 0 .. (p - 1) /\ b \in 0 .. (p - 1) /\ Divides(p, (z + w) * b - 1)
  BY <1>2, <1>3, CauchyEntries
<1>6. c \in 0 .. (p - 1) /\ Divides(p, (x + w) * c - 1)
  BY <1>2, <1>3, CauchyEntries
<1>7. d \in 0 .. (p - 1) /\ Divides(p, (z + y) * d - 1)
  BY <1>2, <1>3, CauchyEntries
<1>8. /\ x \in Int /\ z \in Int /\ y \in Int /\ w \in Int
      /\ a \in Int /\ b \in Int /\ c \in Int /\ d \in Int /\ a * b \in Int /\ c * d \in Int
  BY <1>1, <1>4, <1>5, <1>6, <1>7
<1>9. Divides(p, a * b - c * d) <=> Divides(p, x - z) \/ Divides(p, y - w)
  BY ZenonT(60), <1>1, <1>4, <1>5, <1>6, <1>7, <1>8, MinorVanishes
<1>10. (a * b) % p = (c * d) % p <=> Divides(p, a * b - c * d)
  BY <1>1, <1>8, SameRest
<1>11. (Divides(p, x - z) <=> x = z) /\ (Divides(p, y - w) <=> y = w)
  BY <1>1, <1>4, <1>5, SameElement
<1>12. (a * b) % p = (c * d) % p <=> x = z \/ y = w
  BY Zenon, <1>9, <1>10, <1>11
<1>13. QED
  BY Zenon, <1>2, <1>3, <1>12 DEF Vanishes, SameOf

LEMMA MatrixQualifies == MatrixInv => QualifiesIffDistinct
<1> SUFFICES ASSUME MatrixInv, pc = "done" PROVE QualifiesIffDistinct
  BY DEF QualifiesIffDistinct
<1>1. PICK n : n = Width
  OBVIOUS
<1>2. Rows(Modulus, n, xs, ys)
  BY Zenon, <1>1, RowsAtEnd DEF Rows
<1>3. IsCauchy(mds, Modulus, xs, ys)
  BY Zenon DEF MatrixInv, MatrixOK
<1>4. DOMAIN xs = 1 .. n /\ n \in Nat
  BY <1>2 DEF Rows
<1> DEFINE Minor(i, k, j, l) ==
             (mds[i][j] * mds[k][l]) % Modulus # (mds[i][l] * mds[k][j]) % Modulus
           NoDuplicates(v) == \A i, j \in DOMAIN xs : v[i] = v[j] => i = j
<1>5. \A i, j \in DOMAIN xs : mds[i][j] % Modulus # 0
  <2>1. \A i, j \in 1 .. n : mds[i][j] % Modulus # 0
    BY Zenon, <1>2, <1>3, CauchyEntries
  <2>2. QED
    BY Zenon, <1>4, <2>1
<1>6. \A i, k, j, l \in DOMAIN xs :
        Vanishes(mds, Modulus, i, k, j, l) <=> SameOf(xs, i, k) \/ SameOf(ys, j, l)
  BY ZenonT(60), <1>2, <1>3, <1>4, CauchyMinors
<1>6a. \A i, k, j, l : Minor(i, k, j, l) <=> ~ Vanishes(mds, Modulus, i, k, j, l)
  BY Zenon DEF Vanishes
<1>6b. \A v, i, k : SameOf(v, i, k) <=> v[i] = v[k]
  BY Zenon DEF SameOf
<1>7. \A i, j \in DOMAIN xs : i # j => 1 \in DOMAIN xs /\ 2 \in DOMAIN xs
  <2>1. \A i, j \in 1 .. n : i # j => 1 \in 1 .. n /\ 2 \in 1 .. n
    BY <1>4
  <2>2. QED
    BY Zenon, <1>4, <2>1
<1>8. (NoDuplicates(xs) /\ NoDuplicates(ys))
        <=> \A i, k, j, l \in DOMAIN xs : i # k /\ j # l => Minor(i, k, j, l)
  <2> HIDE DEF Minor
  <2>1. ASSUME NoDuplicates(xs), NoDuplicates(ys),
               NEW i \in DOMAIN xs, NEW k \in DOMAIN xs,
               NEW j \in DOMAIN xs, NEW l \in DOMAIN xs, i # k, j # l
        PROVE  Minor(i, k, j, l)
    <3>1. ~ SameOf(xs, i, k) /\ ~ SameOf(ys, j, l)
      BY Zenon, <1>6b, <2>1
    <3>2. QED
      BY Zenon, <1>6, <1>6a, <3>1
  <2>2. ASSUME \A i, k, j, l \in DOMAIN xs : i # k /\ j # l => Minor(i, k, j, l)
        PROVE  NoDuplicates(xs) /\ NoDuplicates(ys)
    <3>1. 1 # 2
      OBVIOUS
    <3>2. ASSUME NEW i \in DOMAIN xs, NEW k \in DOMAIN xs, i # k
          PROVE  ~ SameOf(xs, i, k) /\ ~ SameOf(ys, i, k)
      <4>1. 1 \in DOMAIN xs /\ 2 \in DOMAIN xs
        BY Zenon, <1>7, <3>2
      <4>2. Minor(i, k, 1, 2) /\ Minor(1, 2, i, k)
        BY Zenon, <2>2, <3>1, <3>2, <4>1
      <4>3. ~ SameOf(xs, i, k)
        BY Zenon, <1>6, <1>6a, <4>1, <4>2
      <4>4. ~ SameOf(ys, i, k)
        <5>1. ~ Vanishes(mds, Modulus, 1, 2, i, k)
          BY Zenon, <1>6a, <4>2
        <5>2. QED
          BY Zenon, <1>6, <4>1, <5>1
      <4>5. QED
        BY Zenon, <4>3, <4>4
    <3>3. QED
      BY Zenon, <1>6b, <3>2
  <2>3. QED
    BY Zenon, <2>1, <2>2
<1>9. QED
  BY Zenon, <1>5, <1>8 DEF QualifiesIffDistinct

(* The matrix of xs and ys has no minor of order one or two that is zero   *)
(* exactly if neither of them has a duplicate, in every field and for      *)
(* every entry of its tables.                                              *)
THEOREM MatrixQualifiesIffDistinct == Spec => []QualifiesIffDistinct
<1>1. Spec => []MatrixInv
  BY MatrixInit, MatrixStep, PTL DEF Spec
<1>2. QED
  BY <1>1, MatrixQualifies, PTL
=============================================================================
