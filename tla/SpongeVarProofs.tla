--------------------------- MODULE SpongeVarProofs ---------------------------
(***************************************************************************)
(* Lemmas about the gadget sponges, for both of them and for every sponge  *)
(* field, rate and request: their loops take the turns of the native ones, *)
(* and they cut what they squeeze alike.                                   *)
(***************************************************************************)
EXTENDS SpongeVar, SequenceTheorems, WellFoundedInduction, TLAPS

(* Induction is stated for a set of numbers instead of a predicate, so     *)
(* that first-order provers can use it: the recursive functions of the     *)
(* models are reasoned about with it.  First: a set of natural numbers     *)
(* that is not empty has a least element.                                  *)
LEMMA LeastNumber ==
  ASSUME NEW S, S \subseteq Nat, S # {}
  PROVE  \E m \in S : \A n \in S : m <= n
<1>1. /\ IsWellFoundedOn(OpToRel(<, Nat), Nat)
      /\ \A n, m \in Nat : n < m => <<n, m>> \in OpToRel(<, Nat)
  <2>1. \A n, m \in Nat : n < m => <<n, m>> \in OpToRel(<, Nat)
    BY DEF OpToRel
  <2>2. QED
    BY <2>1, NatLessThanWellFounded
<1>2. \E R : /\ IsWellFoundedOn(R, Nat)
             /\ \A n, m \in Nat : n < m => <<n, m>> \in R
  BY <1>1
<1>3. PICK R : /\ IsWellFoundedOn(R, Nat)
               /\ \A n, m \in Nat : n < m => <<n, m>> \in R
  BY <1>2
<1>4. PICK m \in S : \A n \in S : ~ (<<n, m>> \in R)
  <2>1. IsWellFoundedOn(R, Nat)
    BY <1>3
  <2>2. QED
    BY <2>1, WFMin, ZenonT(30)
<1>5. \A n \in S : ~ (n < m)
  <2>1. \A n \in S : n \in Nat
    OBVIOUS
  <2>2. \A n, k \in Nat : n < k => <<n, k>> \in R
    BY <1>3
  <2>3. QED
    BY <1>4, <2>1, <2>2, Zenon
<1>6. QED
  BY <1>5

(* A set that has 0, and n + 1 with every n, has every natural number.     *)
LEMMA InductionOnSet ==
  ASSUME NEW S, 0 \in S, \A n \in Nat : n \in S => n + 1 \in S
  PROVE  Nat \subseteq S
<1> DEFINE T == Nat \ S
<1>1. SUFFICES ASSUME T # {} PROVE FALSE
  OBVIOUS
<1>2. PICK m \in T : \A n \in T : m <= n
  <2>1. T \subseteq Nat
    OBVIOUS
  <2> HIDE DEF T
  <2>2. QED
    BY <1>1, <2>1, LeastNumber
<1>3. m # 0 /\ m - 1 \in Nat /\ m - 1 + 1 = m
  OBVIOUS
<1>4. m - 1 \notin T
  BY <1>2, <1>3
<1>5. QED
  BY <1>3, <1>4

(* Division, for provers that do not see it through.                       *)
LEMMA DivBounds ==
  ASSUME NEW a \in Nat, NEW v \in Nat, v >= 1
  PROVE  /\ a \div v \in Nat
         /\ (a \div v) * v <= a
         /\ a < (a \div v + 1) * v
OBVIOUS

LEMMA DivUnique ==
  ASSUME NEW a \in Nat, NEW v \in Nat, v >= 1, NEW q \in Nat,
         q * v <= a, a < (q + 1) * v
  PROVE  a \div v = q
OBVIOUS

LEMMA ModFacts ==
  ASSUME NEW a \in Nat, NEW v \in Nat, v >= 1
  PROVE  /\ a % v \in Nat /\ a % v < v
         /\ a = (a \div v) * v + (a % v)
OBVIOUS

LEMMA ModUnique ==
  ASSUME NEW v \in Nat, v >= 1, NEW q \in Nat, NEW r \in Nat, r < v
  PROVE  (q * v + r) % v = r
<1> DEFINE a == q * v + r
<1>1. a \in Nat /\ q * v <= a /\ a < (q + 1) * v
  <2>1. q * v \in Nat /\ (q + 1) * v = q * v + v
    OBVIOUS
  <2>2. QED
    BY <2>1
<1> HIDE DEF a
<1>2. a \div v = q
  BY <1>1, DivUnique
<1>3. a = (a \div v) * v + (a % v) /\ a % v \in Nat
  BY <1>1, ModFacts
<1>4. a = q * v + (a % v)
  BY <1>2, <1>3
<1>5. q * v \in Nat
  OBVIOUS
<1>6. a % v = r
  BY <1>3, <1>4, <1>5 DEF a
<1>7. QED
  BY <1>6 DEF a

-----------------------------------------------------------------------------
(* The last turn of a loop leaves nothing for another.                     *)
LastAbsorb(t) == t.from + Len(t.rest) <= Rate
LastSqueeze(t) == t.from + t.n <= Rate

(* The turns of absorb_internal, one after the other.                      *)
LEMMA AbsorbTurnsExist ==
  ASSUME NEW t, Len(t.rest) \in Nat
  PROVE  \E a : /\ a[0] = t
                /\ \A k \in 1 .. Len(t.rest) : a[k] = AbsorbTurn(a[k - 1])
                /\ AbsorbTurns(t) = a[Len(t.rest)]
<1> DEFINE n == Len(t.rest)
           IsTurn(m, a) == a = [k \in 0 .. m |-> IF k = 0 THEN t ELSE AbsorbTurn(a[k - 1])]
           F(a) == [k \in 0 .. n |-> IF k = 0 THEN t ELSE AbsorbTurn(a[k - 1])]
           turn == CHOOSE a : a = F(a)
           S == {m \in Nat : \E a : IsTurn(m, a)}
<1>1. 0 \in S
  <2>1. IsTurn(0, [k \in 0 .. 0 |-> t])
    OBVIOUS
  <2> HIDE DEF IsTurn
  <2>2. QED
    BY <2>1
<1>2. ASSUME NEW m \in Nat, m \in S PROVE m + 1 \in S
  <2>1. PICK a : IsTurn(m, a)
    BY <1>2
  <2> DEFINE e == [k \in 0 .. (m + 1) |-> IF k = m + 1 THEN AbsorbTurn(a[m]) ELSE a[k]]
  <2>2. \A k \in 0 .. m : e[k] = a[k]
    OBVIOUS
  <2>3. e[m + 1] = AbsorbTurn(e[m + 1 - 1]) /\ e = [k \in 0 .. (m + 1) |-> e[k]]
    OBVIOUS
  <2> HIDE DEF e
  <2>4. ASSUME NEW k \in 0 .. (m + 1)
        PROVE  e[k] = IF k = 0 THEN t ELSE AbsorbTurn(e[k - 1])
    <3>1. CASE k = m + 1
      BY <2>3, <3>1
    <3>2. CASE k # m + 1
      <4>1. k \in 0 .. m /\ (k # 0 => k - 1 \in 0 .. m)
        BY <3>2
      <4>2. a[k] = IF k = 0 THEN t ELSE AbsorbTurn(a[k - 1])
        BY <2>1, <4>1
      <4>3. QED
        BY <2>2, <4>1, <4>2
    <3>3. QED
      BY <3>1, <3>2
  <2>5. IsTurn(m + 1, e)
    BY <2>3, <2>4
  <2> HIDE DEF IsTurn
  <2>6. QED
    BY <2>5
<1>3. n \in S
  <2> HIDE DEF S
  <2>1. QED
    BY <1>1, <1>2, InductionOnSet
<1>4. turn = F(turn)
  <2>1. \E a : a = F(a)
    BY <1>3
  <2> HIDE DEF F
  <2>2. QED
    BY <2>1
<1>5. AbsorbTurns(t) = turn[n]
  BY DEF AbsorbTurns
<1> HIDE DEF turn
<1>6. turn[0] = t /\ \A k \in 1 .. n : turn[k] = AbsorbTurn(turn[k - 1])
  BY <1>4
<1>7. QED
  BY <1>5, <1>6

(* What a turn does.                                                       *)
LEMMA AbsorbTurnCases ==
  ASSUME NEW t
  PROVE  /\ LastAbsorb(t) => AbsorbTurn(t) = t
         /\ ~ LastAbsorb(t) => /\ AbsorbTurn(t).from = 0
                          /\ AbsorbTurn(t).rest
                               = SubSeq(t.rest, Rate - t.from + 1, Len(t.rest))
BY DEF AbsorbTurn, LastAbsorb

(* Once nothing is left the turns change nothing.                          *)
LEMMA AbsorbTurnsStay ==
  ASSUME NEW a, NEW L \in Nat, NEW m \in 0 .. L, LastAbsorb(a[m]),
         \A k \in 1 .. L : a[k] = AbsorbTurn(a[k - 1])
  PROVE  a[L] = a[m]
<1> DEFINE S == {k \in Nat : m + k <= L => a[m + k] = a[m]}
<1>1. 0 \in S
  <2>1. m + 0 = m
    OBVIOUS
  <2>2. QED
    BY <2>1
<1>2. ASSUME NEW k \in Nat, k \in S PROVE k + 1 \in S
  <2> SUFFICES ASSUME m + (k + 1) <= L PROVE a[m + (k + 1)] = a[m]
    OBVIOUS
  <2>1. PICK j : j = m + (k + 1)
    OBVIOUS
  <2>2. j \in 1 .. L /\ j - 1 = m + k /\ m + k <= L
    BY <2>1
  <2>3. a[j] = AbsorbTurn(a[j - 1])
    BY <2>2
  <2>4. a[m + k] = a[m]
    BY <1>2, <2>2
  <2>5. a[j] = a[m]
    BY <2>2, <2>3, <2>4, AbsorbTurnCases
  <2>6. QED
    BY <2>1, <2>5
<1>3. L - m \in Nat /\ m + (L - m) = L
  OBVIOUS
<1>4. L - m \in S
  <2> HIDE DEF S
  <2>1. QED
    BY <1>1, <1>2, <1>3, InductionOnSet
<1>5. QED
  BY <1>3, <1>4

(* A loop that has a turn to take takes it and goes on.                    *)
LEMMA AbsorbTurnsUnfold ==
  ASSUME NEW t, t.from \in 0 .. (Rate - 1), t.rest \in Seq(Elements)
  PROVE  AbsorbTurns(t) = IF LastAbsorb(t) THEN t ELSE AbsorbTurns(AbsorbTurn(t))
<1>1. PICK L : L = Len(t.rest) /\ L \in Nat
  OBVIOUS
<1>2. PICK a : /\ a[0] = t /\ \A k \in 1 .. L : a[k] = AbsorbTurn(a[k - 1])
               /\ AbsorbTurns(t) = a[L]
  BY <1>1, AbsorbTurnsExist
<1>3. CASE LastAbsorb(t)
  <2>1. LastAbsorb(a[0]) /\ 0 \in 0 .. L
    BY <1>1, <1>2, <1>3
  <2>2. a[L] = a[0]
    BY <1>1, <1>2, <2>1, AbsorbTurnsStay
  <2>3. QED
    BY <1>2, <1>3, <2>2
<1>4. CASE ~ LastAbsorb(t)
  <2>1. PICK u : u = AbsorbTurn(t)
    OBVIOUS
  <2>2. u.from = 0 /\ u.rest = SubSeq(t.rest, Rate - t.from + 1, Len(t.rest))
    BY <1>4, <2>1, AbsorbTurnCases
  <2>3. PICK n : n = Rate - t.from /\ n \in 1 .. (L - 1)
    BY <1>1, <1>4, RateAssumption DEF LastAbsorb
  <2>4. PICK M : M = Len(u.rest) /\ M \in Nat /\ M + 1 <= L /\ u.rest \in Seq(Elements)
    <3>1. u.rest = SubSeq(t.rest, n + 1, L)
      <4>1. Rate - t.from + 1 = n + 1 /\ Len(t.rest) = L
        BY <1>1, <2>3
      <4>2. QED
        BY <2>2, <4>1
    <3>2. PICK r : r = t.rest /\ r \in Seq(Elements) /\ Len(r) = L
      BY <1>1
    <3>a. SubSeq(r, n + 1, L) \in Seq(Elements) /\ Len(SubSeq(r, n + 1, L)) = L - n
      BY <1>1, <2>3, <3>2
    <3>b. u.rest \in Seq(Elements) /\ Len(u.rest) = L - n
      BY <3>1, <3>2, <3>a
    <3>3. QED
      BY <1>1, <2>3, <3>b
  <2>5. PICK b : /\ b[0] = u /\ \A k \in 1 .. M : b[k] = AbsorbTurn(b[k - 1])
                 /\ AbsorbTurns(u) = b[M]
    BY <2>4, AbsorbTurnsExist
  <2> DEFINE S == {k \in Nat : k <= M =>
                     /\ a[k + 1] = b[k] /\ b[k].from = 0 /\ b[k].rest \in Seq(Elements)
                     /\ LastAbsorb(b[k]) \/ Len(b[k].rest) <= M - k}
  <2>6. 0 \in S
    <3>1. 1 \in 1 .. L /\ 1 - 1 = 0
      BY <1>1, <2>4
    <3>2. a[1] = AbsorbTurn(a[0])
      BY <1>2, <3>1
    <3>3. a[0 + 1] = b[0]
      BY <1>2, <2>1, <2>5, <3>2
    <3>a. b[0].from = 0 /\ b[0].rest \in Seq(Elements)
      BY <2>2, <2>4, <2>5
    <3>4. Len(b[0].rest) <= M - 0
      BY <2>4, <2>5
    <3>5. QED
      BY <3>3, <3>a, <3>4
  <2>7. ASSUME NEW k \in Nat, k \in S PROVE k + 1 \in S
    <3> SUFFICES ASSUME k + 1 <= M
                 PROVE  /\ a[k + 1 + 1] = b[k + 1] /\ b[k + 1].from = 0
                        /\ b[k + 1].rest \in Seq(Elements)
                        /\ LastAbsorb(b[k + 1]) \/ Len(b[k + 1].rest) <= M - (k + 1)
      OBVIOUS
    <3>1. PICK j : j = k + 1
      OBVIOUS
    <3>2. /\ a[j] = b[k] /\ b[k].from = 0 /\ b[k].rest \in Seq(Elements)
          /\ LastAbsorb(b[k]) \/ Len(b[k].rest) <= M - k
      BY <2>4, <2>7, <3>1
    <3>3. j \in 1 .. M /\ j - 1 = k /\ j + 1 \in 1 .. L /\ j + 1 - 1 = j
      BY <1>1, <2>4, <3>1
    <3>4. b[j] = AbsorbTurn(b[k])
      BY <2>5, <3>3
    <3>5. a[j + 1] = AbsorbTurn(a[j])
      BY <1>2, <3>3
    <3>6. PICK v : v = b[k]
      OBVIOUS
    <3>7. v.from = 0 /\ v.rest \in Seq(Elements) /\ (LastAbsorb(v) \/ Len(v.rest) <= M - k)
      BY <3>2, <3>6
    <3>8. b[j].from = 0 /\ b[j].rest \in Seq(Elements) /\ (LastAbsorb(b[j]) \/ Len(b[j].rest) <= M - j)
      <4>1. CASE LastAbsorb(v)
        BY <3>4, <3>6, <3>7, <4>1, AbsorbTurnCases
      <4>2. CASE ~ LastAbsorb(v)
        <5>1. b[j].from = 0 /\ b[j].rest = SubSeq(v.rest, Rate - v.from + 1, Len(v.rest))
          BY <3>4, <3>6, <4>2, AbsorbTurnCases
        <5>2. Rate \in 1 .. Len(v.rest) /\ Rate - v.from + 1 = Rate + 1
          BY <3>7, <4>2, RateAssumption DEF LastAbsorb
        <5>3. b[j].rest \in Seq(Elements) /\ Len(b[j].rest) = Len(v.rest) - Rate
          BY <3>7, <5>1, <5>2
        <5>4. Len(v.rest) <= M - k /\ Len(v.rest) \in Nat
          BY <3>7, <4>2
        <5>5. Len(b[j].rest) <= M - j
          BY <2>4, <3>3, <5>2, <5>3, <5>4
        <5>6. QED
          BY <5>1, <5>3, <5>5
      <4>3. QED
        BY <4>1, <4>2
    <3>9. a[j + 1] = b[j]
      BY <3>2, <3>4, <3>5
    <3>10. QED
      BY <3>1, <3>8, <3>9
  <2>8. M \in S
    <3> HIDE DEF S
    <3>1. QED
      BY <2>4, <2>6, <2>7, InductionOnSet
  <2>9. a[M + 1] = b[M] /\ LastAbsorb(b[M])
    <3>1. /\ a[M + 1] = b[M] /\ b[M].from = 0 /\ b[M].rest \in Seq(Elements)
          /\ LastAbsorb(b[M]) \/ Len(b[M].rest) <= M - M
      BY <2>4, <2>8
    <3>2. QED
      BY <2>4, <3>1, RateAssumption DEF LastAbsorb
  <2>10. M + 1 \in 0 .. L /\ LastAbsorb(a[M + 1])
    BY <1>1, <2>4, <2>9
  <2>11. a[L] = a[M + 1]
    BY <1>1, <1>2, <2>10, AbsorbTurnsStay
  <2>12. QED
    BY <1>2, <1>4, <2>1, <2>5, <2>9, <2>11
<1>5. QED
  BY <1>3, <1>4

-----------------------------------------------------------------------------
(* The turns of squeeze_internal, one after the other.                     *)
LEMMA SqueezeTurnsExist ==
  ASSUME NEW t, t.n \in Nat
  PROVE  \E a : /\ a[0] = t
                /\ \A k \in 1 .. t.n : a[k] = SqueezeTurn(a[k - 1])
                /\ SqueezeTurns(t) = a[t.n]
<1> DEFINE n == t.n
           IsTurn(m, a) == a = [k \in 0 .. m |-> IF k = 0 THEN t ELSE SqueezeTurn(a[k - 1])]
           F(a) == [k \in 0 .. n |-> IF k = 0 THEN t ELSE SqueezeTurn(a[k - 1])]
           turn == CHOOSE a : a = F(a)
           S == {m \in Nat : \E a : IsTurn(m, a)}
<1>1. 0 \in S
  <2>1. IsTurn(0, [k \in 0 .. 0 |-> t])
    OBVIOUS
  <2> HIDE DEF IsTurn
  <2>2. QED
    BY <2>1
<1>2. ASSUME NEW m \in Nat, m \in S PROVE m + 1 \in S
  <2>1. PICK a : IsTurn(m, a)
    BY <1>2
  <2> DEFINE e == [k \in 0 .. (m + 1) |-> IF k = m + 1 THEN SqueezeTurn(a[m]) ELSE a[k]]
  <2>2. \A k \in 0 .. m : e[k] = a[k]
    OBVIOUS
  <2>3. e[m + 1] = SqueezeTurn(e[m + 1 - 1]) /\ e = [k \in 0 .. (m + 1) |-> e[k]]
    OBVIOUS
  <2> HIDE DEF e
  <2>4. ASSUME NEW k \in 0 .. (m + 1)
        PROVE  e[k] = IF k = 0 THEN t ELSE SqueezeTurn(e[k - 1])
    <3>1. CASE k = m + 1
      BY <2>3, <3>1
    <3>2. CASE k # m + 1
      <4>1. k \in 0 .. m /\ (k # 0 => k - 1 \in 0 .. m)
        BY <3>2
      <4>2. a[k] = IF k = 0 THEN t ELSE SqueezeTurn(a[k - 1])
        BY <2>1, <4>1
      <4>3. QED
        BY <2>2, <4>1, <4>2
    <3>3. QED
      BY <3>1, <3>2
  <2>5. IsTurn(m + 1, e)
    BY <2>3, <2>4
  <2> HIDE DEF IsTurn
  <2>6. QED
    BY <2>5
<1>3. n \in S
  <2> HIDE DEF S
  <2>1. QED
    BY <1>1, <1>2, InductionOnSet
<1>4. turn = F(turn)
  <2>1. \E a : a = F(a)
    BY <1>3
  <2> HIDE DEF F
  <2>2. QED
    BY <2>1
<1>5. SqueezeTurns(t) = turn[n]
  BY DEF SqueezeTurns
<1> HIDE DEF turn
<1>6. turn[0] = t /\ \A k \in 1 .. n : turn[k] = SqueezeTurn(turn[k - 1])
  BY <1>4
<1>7. QED
  BY <1>5, <1>6

LEMMA SqueezeTurnCases ==
  ASSUME NEW t
  PROVE  /\ LastSqueeze(t) => SqueezeTurn(t) = t
         /\ ~ LastSqueeze(t) => /\ SqueezeTurn(t).from = 0
                          /\ SqueezeTurn(t).n = t.n - (Rate - t.from)
BY DEF SqueezeTurn, LastSqueeze

LEMMA SqueezeTurnsStay ==
  ASSUME NEW a, NEW L \in Nat, NEW m \in 0 .. L, LastSqueeze(a[m]),
         \A k \in 1 .. L : a[k] = SqueezeTurn(a[k - 1])
  PROVE  a[L] = a[m]
<1> DEFINE S == {k \in Nat : m + k <= L => a[m + k] = a[m]}
<1>1. 0 \in S
  <2>1. m + 0 = m
    OBVIOUS
  <2>2. QED
    BY <2>1
<1>2. ASSUME NEW k \in Nat, k \in S PROVE k + 1 \in S
  <2> SUFFICES ASSUME m + (k + 1) <= L PROVE a[m + (k + 1)] = a[m]
    OBVIOUS
  <2>1. PICK j : j = m + (k + 1)
    OBVIOUS
  <2>2. j \in 1 .. L /\ j - 1 = m + k /\ m + k <= L
    BY <2>1
  <2>3. a[j] = SqueezeTurn(a[j - 1])
    BY <2>2
  <2>4. a[m + k] = a[m]
    BY <1>2, <2>2
  <2>5. a[j] = a[m]
    BY <2>2, <2>3, <2>4, SqueezeTurnCases
  <2>6. QED
    BY <2>1, <2>5
<1>3. L - m \in Nat /\ m + (L - m) = L
  OBVIOUS
<1>4. L - m \in S
  <2> HIDE DEF S
  <2>1. QED
    BY <1>1, <1>2, <1>3, InductionOnSet
<1>5. QED
  BY <1>3, <1>4

LEMMA SqueezeTurnsUnfold ==
  ASSUME NEW t, t.from \in 0 .. (Rate - 1), t.n \in Nat
  PROVE  SqueezeTurns(t) = IF LastSqueeze(t) THEN t ELSE SqueezeTurns(SqueezeTurn(t))
<1>1. PICK L : L = t.n /\ L \in Nat
  OBVIOUS
<1>2. PICK a : /\ a[0] = t /\ \A k \in 1 .. L : a[k] = SqueezeTurn(a[k - 1])
               /\ SqueezeTurns(t) = a[L]
  BY <1>1, SqueezeTurnsExist
<1>3. CASE LastSqueeze(t)
  <2>1. LastSqueeze(a[0]) /\ 0 \in 0 .. L
    BY <1>1, <1>2, <1>3
  <2>2. a[L] = a[0]
    BY <1>1, <1>2, <2>1, SqueezeTurnsStay
  <2>3. QED
    BY <1>2, <1>3, <2>2
<1>4. CASE ~ LastSqueeze(t)
  <2>1. PICK u : u = SqueezeTurn(t)
    OBVIOUS
  <2>2. u.from = 0 /\ u.n = t.n - (Rate - t.from)
    BY <1>4, <2>1, SqueezeTurnCases
  <2>3. Rate - t.from \in 1 .. (L - 1)
    BY <1>1, <1>4, RateAssumption DEF LastSqueeze
  <2>4. PICK M : M = u.n /\ M \in Nat /\ M + 1 <= L
    BY <1>1, <2>2, <2>3
  <2>5. PICK b : /\ b[0] = u /\ \A k \in 1 .. M : b[k] = SqueezeTurn(b[k - 1])
                 /\ SqueezeTurns(u) = b[M]
    BY <2>4, SqueezeTurnsExist
  <2> DEFINE S == {k \in Nat : k <= M =>
                     /\ a[k + 1] = b[k] /\ b[k].from = 0 /\ b[k].n \in Nat
                     /\ LastSqueeze(b[k]) \/ b[k].n <= M - k}
  <2>6. 0 \in S
    <3>1. 1 \in 1 .. L /\ 1 - 1 = 0
      BY <1>1, <2>4
    <3>2. a[1] = SqueezeTurn(a[0])
      BY <1>2, <3>1
    <3>3. a[0 + 1] = b[0]
      BY <1>2, <2>1, <2>5, <3>2
    <3>4. b[0].from = 0 /\ b[0].n \in Nat /\ b[0].n <= M - 0
      BY <2>2, <2>4, <2>5
    <3>5. QED
      BY <3>3, <3>4
  <2>7. ASSUME NEW k \in Nat, k \in S PROVE k + 1 \in S
    <3> SUFFICES ASSUME k + 1 <= M
                 PROVE  /\ a[k + 1 + 1] = b[k + 1] /\ b[k + 1].from = 0
                        /\ b[k + 1].n \in Nat
                        /\ LastSqueeze(b[k + 1]) \/ b[k + 1].n <= M - (k + 1)
      OBVIOUS
    <3>1. PICK j : j = k + 1
      OBVIOUS
    <3>2. PICK v : v = b[k]
      OBVIOUS
    <3>3. /\ a[j] = v /\ v.from = 0 /\ v.n \in Nat
          /\ LastSqueeze(v) \/ v.n <= M - k
      BY <2>4, <2>7, <3>1, <3>2
    <3>4. j \in 1 .. M /\ j - 1 = k /\ j + 1 \in 1 .. L /\ j + 1 - 1 = j
      BY <1>1, <2>4, <3>1
    <3>5. b[j] = SqueezeTurn(v)
      BY <2>5, <3>2, <3>4
    <3>6. a[j + 1] = b[j]
      BY <1>2, <3>3, <3>4, <3>5
    <3>7. b[j].from = 0 /\ b[j].n \in Nat /\ (LastSqueeze(b[j]) \/ b[j].n <= M - j)
      <4>1. CASE LastSqueeze(v)
        BY <3>3, <3>5, <4>1, SqueezeTurnCases
      <4>2. CASE ~ LastSqueeze(v)
        <5>1. b[j].from = 0 /\ b[j].n = v.n - (Rate - v.from)
          BY <3>5, <4>2, SqueezeTurnCases
        <5>2. Rate \in 1 .. v.n
          BY <3>3, <4>2, RateAssumption DEF LastSqueeze
        <5>3. QED
          BY <2>4, <3>3, <3>4, <4>2, <5>1, <5>2
      <4>3. QED
        BY <4>1, <4>2
    <3>8. QED
      BY <3>1, <3>6, <3>7
  <2>8. M \in S
    <3> HIDE DEF S
    <3>1. QED
      BY <2>4, <2>6, <2>7, InductionOnSet
  <2>9. a[M + 1] = b[M] /\ LastSqueeze(b[M])
    <3>1. /\ a[M + 1] = b[M] /\ b[M].from = 0 /\ b[M].n \in Nat
          /\ LastSqueeze(b[M]) \/ b[M].n <= M - M
      BY <2>4, <2>8
    <3>2. QED
      BY <2>4, <3>1, RateAssumption DEF LastSqueeze
  <2>10. M + 1 \in 0 .. L /\ LastSqueeze(a[M + 1])
    BY <1>1, <2>4, <2>9
  <2>11. a[L] = a[M + 1]
    BY <1>1, <1>2, <2>10, SqueezeTurnsStay
  <2>12. QED
    BY <1>2, <1>4, <2>1, <2>5, <2>9, <2>11
<1>5. QED
  BY <1>3, <1>4

-----------------------------------------------------------------------------
(* Blocks of u elements, laid end to end: where the i-th ends, and, for an *)
(* element counted from zero, its block and its place in it.               *)
End(u, i) == u * i
Block(u, a) == a \div u
Place(u, a) == a % u

LEMMA Ends ==
  ASSUME NEW u \in Nat, NEW i \in Nat
  PROVE  End(u, 0) = 0 /\ End(u, i) \in Nat /\ End(u, i + 1) = End(u, i) + u
BY DEF End

LEMMA EndsApart ==
  ASSUME NEW u \in Nat, NEW i \in Nat, NEW j \in Nat, i < j
  PROVE  End(u, i) + u <= End(u, j)
<1>1. PICK d : d \in Nat /\ j = i + 1 + d
  <2>1. j - i - 1 \in Nat /\ j = i + 1 + (j - i - 1)
    OBVIOUS
  <2>2. QED
    BY <2>1
<1>2. u * j = u * i + u + u * d /\ u * i \in Nat /\ u * d \in Nat
  BY <1>1
<1>3. QED
  BY <1>2 DEF End

LEMMA Places ==
  ASSUME NEW u \in Nat, u >= 1, NEW a \in Nat, NEW i \in Nat, a < End(u, i)
  PROVE  /\ Block(u, a) \in Nat /\ Block(u, a) < i
         /\ Place(u, a) \in Nat /\ Place(u, a) < u
<1>1. PICK q : q = a \div u /\ q \in Nat /\ q * u <= a
  BY DivBounds
<1>2. q < i
  <2>1. SUFFICES ASSUME q >= i PROVE FALSE
    BY <1>1
  <2>2. PICK d : d \in Nat /\ q = i + d
    <3>1. q - i \in Nat /\ q = i + (q - i)
      BY <1>1, <2>1
    <3>2. QED
      BY <3>1
  <2>3. q * u = u * i + d * u /\ d * u \in Nat /\ u * i \in Nat
    BY <2>2
  <2>4. a < u * i
    BY DEF End
  <2>5. QED
    BY <1>1, <2>3, <2>4
<1>3. a % u \in Nat /\ a % u < u
  BY ModFacts
<1>4. QED
  BY <1>1, <1>2, <1>3 DEF Block, Place

LEMMA PlaceFound ==
  ASSUME NEW u \in Nat, u >= 1, NEW i \in Nat, NEW r \in Nat, r < u,
         NEW a \in Nat, a = End(u, i) + r
  PROVE  Block(u, a) = i /\ Place(u, a) = r
<1>1. a = i * u + r
  <2>1. u * i = i * u
    OBVIOUS
  <2>2. QED
    BY <2>1 DEF End
<1>2. i * u <= a /\ a < (i + 1) * u
  <2>1. (i + 1) * u = i * u + u /\ i * u \in Nat
    OBVIOUS
  <2>2. QED
    BY <1>1, <2>1
<1>3. a \div u = i
  BY <1>2, DivUnique
<1>4. a % u = r
  BY <1>1, ModUnique
<1>5. QED
  BY <1>3, <1>4 DEF Block, Place

(* A function on 1 .. e is a sequence of e elements.                       *)
LEMMA FunctionIsSeq ==
  ASSUME NEW X, NEW e \in Nat, NEW f \in [1 .. e -> X]
  PROVE  f \in Seq(X) /\ Len(f) = e
  OBVIOUS

(* Their elements, in one sequence.                                        *)
LEMMA Flattened ==
  ASSUME NEW X, NEW blocks \in Seq(Seq(X)), NEW u \in Nat, u >= 1,
         \A k \in 1 .. Len(blocks) : Len(blocks[k]) = u
  PROVE  /\ FlattenSeq(blocks) \in Seq(X)
         /\ Len(FlattenSeq(blocks)) = End(u, Len(blocks))
         /\ \A j \in 1 .. End(u, Len(blocks)) :
              FlattenSeq(blocks)[j] = blocks[Block(u, j - 1) + 1][Place(u, j - 1) + 1]
<1> DEFINE m == Len(blocks)
           flat == FlattenSeq(blocks)
           G(i) == [j \in 1 .. End(u, i) |-> blocks[Block(u, j - 1) + 1][Place(u, j - 1) + 1]]
           F(f) == [i \in 1 .. m |-> IF i = 1 THEN blocks[1] ELSE f[i - 1] \o blocks[i]]
           g == [i \in 1 .. m |-> G(i)]
<1>1. m \in Nat
  OBVIOUS
<1>2. ASSUME NEW i \in 0 .. m
      PROVE  /\ G(i) \in Seq(X) /\ Len(G(i)) = End(u, i)
             /\ \A j \in 1 .. End(u, i) :
                  G(i)[j] = blocks[Block(u, j - 1) + 1][Place(u, j - 1) + 1]
  <2>0. i \in Nat
    BY <1>1
  <2>1. i \in Nat /\ End(u, i) \in Nat
    BY <2>0, Ends
  <2>2. ASSUME NEW j \in 1 .. End(u, i)
        PROVE  blocks[Block(u, j - 1) + 1][Place(u, j - 1) + 1] \in X
    <3>1. j - 1 \in Nat /\ j - 1 < End(u, i)
      BY <2>1
    <3>2. /\ Block(u, j - 1) \in Nat /\ Block(u, j - 1) < i
          /\ Place(u, j - 1) \in Nat /\ Place(u, j - 1) < u
      BY <2>1, <3>1, Places
    <3>3. Block(u, j - 1) + 1 \in 1 .. m /\ Place(u, j - 1) + 1 \in 1 .. u
      BY <1>1, <3>2
    <3>4. blocks[Block(u, j - 1) + 1] \in Seq(X) /\ Len(blocks[Block(u, j - 1) + 1]) = u
      BY <3>3
    <3>5. QED
      BY <3>3, <3>4
  <2>3. G(i) \in [1 .. End(u, i) -> X]
    BY <2>2
  <2>4. \A j \in 1 .. End(u, i) :
          G(i)[j] = blocks[Block(u, j - 1) + 1][Place(u, j - 1) + 1]
    OBVIOUS
  <2> HIDE DEF G
  <2>5. PICK e : e = End(u, i) /\ e \in Nat /\ G(i) \in [1 .. e -> X]
    BY <2>1, <2>3
  <2>6. G(i) \in Seq(X) /\ Len(G(i)) = e
    BY <2>5, FunctionIsSeq
  <2>7. QED
    BY <2>4, <2>5, <2>6
<1>3. ASSUME NEW i \in 1 .. m
      PROVE  G(i - 1) \o blocks[i] = G(i)
  <2>1. i - 1 \in 0 .. m /\ i \in 0 .. m /\ i - 1 \in Nat /\ i - 1 + 1 = i
    BY <1>1
  <2>2. PICK v : v = End(u, i - 1) /\ v \in Nat /\ End(u, i) = v + u
    <3>1. PICK p : p = i - 1 /\ p \in Nat /\ i = p + 1
      BY <2>1
    <3>2. End(u, p) \in Nat /\ End(u, p + 1) = End(u, p) + u
      BY <3>1, Ends
    <3>3. QED
      BY <3>1, <3>2
  <2>3. G(i - 1) \in Seq(X) /\ Len(G(i - 1)) = v /\ G(i) \in Seq(X) /\ Len(G(i)) = v + u
    BY <1>2, <2>1, <2>2
  <2>4. blocks[i] \in Seq(X) /\ Len(blocks[i]) = u
    OBVIOUS
  <2>5. /\ \A j \in 1 .. v : G(i - 1)[j] = blocks[Block(u, j - 1) + 1][Place(u, j - 1) + 1]
        /\ \A j \in 1 .. (v + u) : G(i)[j] = blocks[Block(u, j - 1) + 1][Place(u, j - 1) + 1]
    BY <1>2, <2>1, <2>2
  <2> HIDE DEF G
  <2>6. PICK s, t, w : s = G(i - 1) /\ t = blocks[i] /\ w = G(i)
    OBVIOUS
  <2>7. s \in Seq(X) /\ t \in Seq(X) /\ w \in Seq(X)
    BY <2>3, <2>4, <2>6
  <2>8. Len(s) = v /\ Len(t) = u /\ Len(w) = v + u
    BY <2>3, <2>4, <2>6
  <2>9. /\ s \o t \in Seq(X) /\ Len(s \o t) = Len(s) + Len(t)
        /\ \A j \in 1 .. Len(s) + Len(t) :
             (s \o t)[j] = IF j <= Len(s) THEN s[j] ELSE t[j - Len(s)]
    BY <2>7, ConcatProperties
  <2>10. ASSUME NEW j \in 1 .. (v + u) PROVE (s \o t)[j] = w[j]
    <3>1. CASE j <= v
      <4>1. j \in 1 .. v
        BY <2>2, <3>1
      <4>2. (s \o t)[j] = s[j]
        BY <2>8, <2>9, <3>1
      <4>3. QED
        BY <2>5, <2>6, <4>1, <4>2
    <3>2. CASE ~ (j <= v)
      <4>1. PICK r : r = j - 1 - v /\ r \in Nat /\ r < u /\ r + 1 = j - v
        BY <2>2, <3>2
      <4>2. PICK a : a = j - 1 /\ a \in Nat /\ a = v + r
        <5>1. j - 1 \in Nat /\ j - 1 = v + r
          BY <2>2, <4>1
        <5>2. QED
          BY <5>1
      <4>3. PICK p : p = i - 1 /\ p \in Nat /\ v = End(u, p) /\ p + 1 = i
        BY <2>1, <2>2
      <4>4. p \in Nat /\ r \in Nat /\ r < u /\ a \in Nat /\ a = End(u, p) + r
        BY <4>1, <4>2, <4>3
      <4>5. Block(u, a) = p /\ Place(u, a) = r
        BY <4>4, PlaceFound
      <4>6. w[j] = blocks[Block(u, a) + 1][Place(u, a) + 1]
        BY <2>5, <2>6, <4>2
      <4>7. w[j] = t[j - v]
        BY <2>6, <4>1, <4>3, <4>5, <4>6
      <4>8. QED
        BY <2>2, <2>8, <2>9, <3>2, <4>7
    <3>3. QED
      BY <3>1, <3>2
  <2>11. Len(s \o t) = Len(w) /\ \A j \in 1 .. Len(s \o t) : (s \o t)[j] = w[j]
    BY <2>8, <2>9, <2>10
  <2>12. s \o t = w
    BY <2>7, <2>9, <2>11, SeqEqual
  <2>13. QED
    BY <2>6, <2>12
<1>4. CASE m = 0
  <2>1. blocks = <<>> /\ flat = blocks
    BY <1>4 DEF FlattenSeq
  <2>2. End(u, m) = 0
    BY <1>4, Ends
  <2>3. flat \in Seq(X) /\ Len(flat) = 0
    BY <2>1, EmptySeq
  <2>4. QED
    BY <2>2, <2>3
<1>5. CASE m # 0
  <2>1. G(1) = blocks[1]
    <3>1. 1 \in 1 .. m /\ 0 \in 0 .. m /\ 1 - 1 = 0 /\ End(u, 0) = 0
      <4>1. End(u, 0) = 0
        BY <1>1, Ends
      <4>2. QED
        BY <1>1, <1>5, <4>1
    <3>2. G(0) \in Seq(X) /\ Len(G(0)) = 0
      BY <1>2, <3>1
    <3>3. G(0) = <<>>
      BY <3>2, EmptySeq
    <3>4. <<>> \o blocks[1] = blocks[1]
      BY <3>1, ConcatEmptySeq
    <3> HIDE DEF G
    <3>5. QED
      BY <1>3, <3>1, <3>3, <3>4
  <2>2. g = F(g)
    <3>1. ASSUME NEW i \in 1 .. m
          PROVE  g[i] = IF i = 1 THEN blocks[1] ELSE g[i - 1] \o blocks[i]
      <4> HIDE DEF G
      <4>1. g[i] = G(i) /\ (i # 1 => g[i - 1] = G(i - 1))
        BY <1>1
      <4>2. QED
        BY <1>3, <2>1, <4>1
    <3>2. g = [i \in 1 .. m |-> g[i]]
      OBVIOUS
    <3> HIDE DEF g
    <3>3. QED
      BY <3>1, <3>2
  <2> DEFINE f == CHOOSE f : f = F(f)
  <2>3. f = F(f)
    <3> HIDE DEF F, g
    <3>1. QED
      BY <2>2
  <2>4. flat = f[m]
    BY <1>5 DEF FlattenSeq
  <2> HIDE DEF f
  <2>5. /\ f[1] = blocks[1]
        /\ \A i \in 1 .. m : i # 1 => f[i] = f[i - 1] \o blocks[i]
    <3>1. \A i \in 1 .. m : f[i] = IF i = 1 THEN blocks[1] ELSE f[i - 1] \o blocks[i]
      BY <2>3
    <3>2. 1 \in 1 .. m
      BY <1>1, <1>5
    <3>3. QED
      BY <3>1, <3>2
  <2> DEFINE S == {i \in Nat : i + 1 <= m => f[i + 1] = G(i + 1)}
  <2> HIDE DEF G, F, g
  <2>6. 0 \in S
    <3>1. 0 + 1 = 1
      OBVIOUS
    <3>2. QED
      BY <2>1, <2>5, <3>1
  <2>7. ASSUME NEW i \in Nat, i \in S PROVE i + 1 \in S
    <3> SUFFICES ASSUME i + 1 + 1 <= m PROVE f[i + 1 + 1] = G(i + 1 + 1)
      OBVIOUS
    <3>1. PICK k : k = i + 1 + 1
      OBVIOUS
    <3>2. k \in 1 .. m /\ k # 1 /\ k - 1 = i + 1 /\ i + 1 <= m
      BY <1>1, <3>1
    <3>3. f[k] = f[k - 1] \o blocks[k] /\ f[i + 1] = G(i + 1)
      BY <2>5, <2>7, <3>2
    <3>4. QED
      BY <1>3, <3>1, <3>2, <3>3
  <2>8. m - 1 \in Nat /\ m - 1 + 1 = m
    BY <1>1, <1>5
  <2>9. m - 1 \in S
    <3> HIDE DEF S
    <3>1. QED
      BY <2>6, <2>7, <2>8, InductionOnSet
  <2>10. flat = G(m) /\ m \in 0 .. m
    BY <1>1, <2>4, <2>8, <2>9
  <2>11. QED
    BY <1>2, <2>10
<1>6. QED
  BY <1>4, <1>5

(* Sponge and gadget take the same bytes and bits of an element.            *)
LEMMA UsableAlike == VarUsableBytes = UsableBytes /\ VarUsableBits = UsableBits
BY DEF VarUsableBytes, UsableBytes, VarUsableBits, UsableBits

(* The gadgets number the bytes and bits that the sponges lay end to end.   *)
LEMMA BytesAlike ==
  ASSUME NEW X, NEW elems \in Seq(X), NEW n
  PROVE  VarBytes(elems, n) = SqueezeBytes(elems, n)
<1> DEFINE u == UsableBytes
           m == Len(elems)
           blocks == [k \in DOMAIN elems |-> [i \in 1 .. u |-> Byte(elems[k], i - 1)]]
           Y == {Byte(elems[k], i - 1) : k \in 1 .. m, i \in 1 .. u}
           line == [k \in 1 .. (u * m) |-> Byte(elems[(k - 1) \div u + 1], (k - 1) % u)]
<1>1. u \in Nat /\ u >= 1 /\ m \in Nat /\ DOMAIN elems = 1 .. m
  BY ModulusBitsAssumption DEF UsableBytes
<1> HIDE DEF u
<1>2. ASSUME NEW k \in 1 .. m
      PROVE  /\ blocks[k] \in Seq(Y) /\ Len(blocks[k]) = u
             /\ \A i \in 1 .. u : blocks[k][i] = Byte(elems[k], i - 1)
  <2>1. blocks[k] = [i \in 1 .. u |-> Byte(elems[k], i - 1)]
    BY <1>1
  <2>2. \A i \in 1 .. u : Byte(elems[k], i - 1) \in Y
    OBVIOUS
  <2>3. blocks[k] \in [1 .. u -> Y]
    <3> HIDE DEF Y, blocks
    <3>1. QED
      BY <2>1, <2>2
  <2> HIDE DEF Y, blocks
  <2>4. QED
    BY <1>1, <2>1, <2>3
<1>3. blocks \in Seq(Seq(Y)) /\ Len(blocks) = m
  <2>1. blocks = [k \in 1 .. m |-> blocks[k]]
    BY <1>1
  <2> HIDE DEF Y, blocks
  <2>2. QED
    BY <1>1, <1>2, <2>1
<1> HIDE DEF Y, m
<1>4. /\ FlattenSeq(blocks) \in Seq(Y) /\ Len(FlattenSeq(blocks)) = End(u, m)
      /\ \A j \in 1 .. End(u, m) :
           FlattenSeq(blocks)[j] = blocks[Block(u, j - 1) + 1][Place(u, j - 1) + 1]
  <2>1. \A k \in 1 .. Len(blocks) : Len(blocks[k]) = u
    <3> HIDE DEF blocks
    <3>1. QED
      BY <1>2, <1>3
  <2> HIDE DEF blocks
  <2>2. QED
    BY <1>1, <1>3, <2>1, Flattened
<1>5. End(u, m) \in Nat
  BY <1>1, Ends
<1>6. ASSUME NEW j \in 1 .. End(u, m)
      PROVE  FlattenSeq(blocks)[j] = Byte(elems[Block(u, j - 1) + 1], Place(u, j - 1))
  <2>1. PICK a : a = j - 1 /\ a \in Nat /\ a < End(u, m)
    <3>1. j - 1 \in Nat /\ j - 1 < End(u, m)
      BY <1>5
    <3>2. QED
      BY <3>1
  <2>2. /\ Block(u, a) \in Nat /\ Block(u, a) < m
        /\ Place(u, a) \in Nat /\ Place(u, a) < u
    BY <1>1, <2>1, Places
  <2>3. PICK q, r : q = Block(u, a) /\ r = Place(u, a)
    OBVIOUS
  <2>4. q + 1 \in 1 .. m /\ r + 1 \in 1 .. u /\ r + 1 - 1 = r
    BY <1>1, <2>2, <2>3
  <2> HIDE DEF blocks
  <2>5. FlattenSeq(blocks)[j] = blocks[q + 1][r + 1]
    BY <1>4, <2>1, <2>3
  <2>6. blocks[q + 1][r + 1] = Byte(elems[q + 1], r)
    <3>1. PICK k, i : k = q + 1 /\ i = r + 1
      OBVIOUS
    <3>2. k \in 1 .. m /\ i \in 1 .. u /\ r \in Nat
      BY <2>2, <2>3, <2>4, <3>1
    <3>9. i - 1 = r
      BY <3>1, <3>2
    <3>3. blocks[k][i] = Byte(elems[k], i - 1)
      BY <1>2, <3>2
    <3>4. QED
      BY <3>1, <3>9, <3>3
  <2>7. QED
    BY <2>1, <2>3, <2>5, <2>6
<1> HIDE DEF blocks
<1>7. FlattenSeq(blocks)
        = [j \in 1 .. End(u, m) |-> Byte(elems[Block(u, j - 1) + 1], Place(u, j - 1))]
  <2>1. FlattenSeq(blocks) = [j \in 1 .. End(u, m) |-> FlattenSeq(blocks)[j]]
    BY <1>4, <1>5
  <2>2. QED
    BY <1>6, <2>1
<1>8. line = FlattenSeq(blocks)
  BY <1>7 DEF End, Block, Place
<1>9. VarBytes(elems, n) = SubSeq(line, 1, n)
  BY UsableAlike DEF VarBytes, u, m
<1>10. SqueezeBytes(elems, n) = SubSeq(FlattenSeq(blocks), 1, n)
  BY DEF SqueezeBytes, blocks, u
<1>11. QED
  BY <1>8, <1>9, <1>10

LEMMA BitsAlike ==
  ASSUME NEW X, NEW elems \in Seq(X), NEW n
  PROVE  VarBits(elems, n) = SqueezeBits(elems, n)
<1> DEFINE u == UsableBits
           m == Len(elems)
           blocks == [k \in DOMAIN elems |-> [i \in 1 .. u |-> Bit(elems[k], i - 1)]]
           Y == {Bit(elems[k], i - 1) : k \in 1 .. m, i \in 1 .. u}
           line == [k \in 1 .. (u * m) |-> Bit(elems[(k - 1) \div u + 1], (k - 1) % u)]
<1>1. u \in Nat /\ u >= 1 /\ m \in Nat /\ DOMAIN elems = 1 .. m
  BY ModulusBitsAssumption DEF UsableBits
<1> HIDE DEF u
<1>2. ASSUME NEW k \in 1 .. m
      PROVE  /\ blocks[k] \in Seq(Y) /\ Len(blocks[k]) = u
             /\ \A i \in 1 .. u : blocks[k][i] = Bit(elems[k], i - 1)
  <2>1. blocks[k] = [i \in 1 .. u |-> Bit(elems[k], i - 1)]
    BY <1>1
  <2>2. \A i \in 1 .. u : Bit(elems[k], i - 1) \in Y
    OBVIOUS
  <2>3. blocks[k] \in [1 .. u -> Y]
    <3> HIDE DEF Y, blocks
    <3>1. QED
      BY <2>1, <2>2
  <2> HIDE DEF Y, blocks
  <2>4. QED
    BY <1>1, <2>1, <2>3
<1>3. blocks \in Seq(Seq(Y)) /\ Len(blocks) = m
  <2>1. blocks = [k \in 1 .. m |-> blocks[k]]
    BY <1>1
  <2> HIDE DEF Y, blocks
  <2>2. QED
    BY <1>1, <1>2, <2>1
<1> HIDE DEF Y, m
<1>4. /\ FlattenSeq(blocks) \in Seq(Y) /\ Len(FlattenSeq(blocks)) = End(u, m)
      /\ \A j \in 1 .. End(u, m) :
           FlattenSeq(blocks)[j] = blocks[Block(u, j - 1) + 1][Place(u, j - 1) + 1]
  <2>1. \A k \in 1 .. Len(blocks) : Len(blocks[k]) = u
    <3> HIDE DEF blocks
    <3>1. QED
      BY <1>2, <1>3
  <2> HIDE DEF blocks
  <2>2. QED
    BY <1>1, <1>3, <2>1, Flattened
<1>5. End(u, m) \in Nat
  BY <1>1, Ends
<1>6. ASSUME NEW j \in 1 .. End(u, m)
      PROVE  FlattenSeq(blocks)[j] = Bit(elems[Block(u, j - 1) + 1], Place(u, j - 1))
  <2>1. PICK a : a = j - 1 /\ a \in Nat /\ a < End(u, m)
    <3>1. j - 1 \in Nat /\ j - 1 < End(u, m)
      BY <1>5
    <3>2. QED
      BY <3>1
  <2>2. /\ Block(u, a) \in Nat /\ Block(u, a) < m
        /\ Place(u, a) \in Nat /\ Place(u, a) < u
    BY <1>1, <2>1, Places
  <2>3. PICK q, r : q = Block(u, a) /\ r = Place(u, a)
    OBVIOUS
  <2>4. q + 1 \in 1 .. m /\ r + 1 \in 1 .. u /\ r + 1 - 1 = r
    BY <1>1, <2>2, <2>3
  <2> HIDE DEF blocks
  <2>5. FlattenSeq(blocks)[j] = blocks[q + 1][r + 1]
    BY <1>4, <2>1, <2>3
  <2>6. blocks[q + 1][r + 1] = Bit(elems[q + 1], r)
    <3>1. PICK k, i : k = q + 1 /\ i = r + 1
      OBVIOUS
    <3>2. k \in 1 .. m /\ i \in 1 .. u /\ r \in Nat
      BY <2>2, <2>3, <2>4, <3>1
    <3>9. i - 1 = r
      BY <3>1, <3>2
    <3>3. blocks[k][i] = Bit(elems[k], i - 1)
      BY <1>2, <3>2
    <3>4. QED
      BY <3>1, <3>9, <3>3
  <2>7. QED
    BY <2>1, <2>3, <2>5, <2>6
<1> HIDE DEF blocks
<1>7. FlattenSeq(blocks)
        = [j \in 1 .. End(u, m) |-> Bit(elems[Block(u, j - 1) + 1], Place(u, j - 1))]
  <2>1. FlattenSeq(blocks) = [j \in 1 .. End(u, m) |-> FlattenSeq(blocks)[j]]
    BY <1>4, <1>5
  <2>2. QED
    BY <1>6, <2>1
<1>8. line = FlattenSeq(blocks)
  BY <1>7 DEF End, Block, Place
<1>9. VarBits(elems, n) = SubSeq(line, 1, n)
  BY UsableAlike DEF VarBits, u, m
<1>10. SqueezeBits(elems, n) = SubSeq(FlattenSeq(blocks), 1, n)
  BY DEF SqueezeBits, blocks, u
<1>11. QED
  BY <1>8, <1>9, <1>10

-----------------------------------------------------------------------------
(* Sizes ask for a number of bits, and so many bits lie before a window.    *)
LEMMA NumBitsNat ==
  ASSUME NEW size \in Sizes
  PROVE  NumBits(size) \in Nat
<1>0. PICK m \in Nat \ {0} : size \in SizesOf(m)
  BY EmulatedBitsAssumption, ModulusBitsAssumption DEF Sizes
<1>1. CASE size = Full(m)
  BY <1>1 DEF NumBits, Full
<1>2. CASE \E n \in 0 .. m : size = Truncated(n)
  BY <1>2 DEF NumBits, Truncated
<1>3. QED
  BY <1>0, <1>1, <1>2 DEF SizesOf

(* The bits before each window: the sums of the sizes.                     *)
Sums(sizes, k) ==
  CHOOSE b : b = [j \in 1 .. k |-> IF j = 1 THEN 0 ELSE b[j - 1] + NumBits(sizes[j - 1])]

LEMMA SumsExist ==
  ASSUME NEW sizes, NEW k \in Nat
  PROVE  \A j \in 1 .. k :
           Sums(sizes, k)[j]
             = IF j = 1 THEN 0 ELSE Sums(sizes, k)[j - 1] + NumBits(sizes[j - 1])
<1> DEFINE IsSum(m, b) == b = [j \in 1 .. m |->
                                 IF j = 1 THEN 0 ELSE b[j - 1] + NumBits(sizes[j - 1])]
           S == {m \in Nat : \E b : IsSum(m, b)}
<1>1. 0 \in S
  <2>1. IsSum(0, [j \in 1 .. 0 |-> 0])
    OBVIOUS
  <2> HIDE DEF IsSum
  <2>2. QED
    BY <2>1
<1>2. ASSUME NEW m \in Nat, m \in S PROVE m + 1 \in S
  <2>1. PICK b : IsSum(m, b)
    BY <1>2
  <2> DEFINE last == IF m = 0 THEN 0 ELSE b[m] + NumBits(sizes[m])
             e == [j \in 1 .. (m + 1) |-> IF j = m + 1 THEN last ELSE b[j]]
  <2>2. \A j \in 1 .. m : e[j] = b[j]
    OBVIOUS
  <2>3. e[m + 1] = last /\ e = [j \in 1 .. (m + 1) |-> e[j]] /\ m + 1 - 1 = m
    OBVIOUS
  <2> HIDE DEF e
  <2>4. ASSUME NEW j \in 1 .. (m + 1)
        PROVE  e[j] = IF j = 1 THEN 0 ELSE e[j - 1] + NumBits(sizes[j - 1])
    <3>1. CASE j = m + 1
      <4>1. CASE m = 0
        BY <2>3, <3>1, <4>1
      <4>2. CASE m # 0
        <5>1. m \in 1 .. m /\ j # 1 /\ j - 1 = m
          BY <3>1, <4>2
        <5>2. QED
          BY <2>2, <2>3, <3>1, <4>2, <5>1
      <4>3. QED
        BY <4>1, <4>2
    <3>2. CASE j # m + 1
      <4>1. j \in 1 .. m /\ (j # 1 => j - 1 \in 1 .. m)
        BY <3>2
      <4>2. b[j] = IF j = 1 THEN 0 ELSE b[j - 1] + NumBits(sizes[j - 1])
        BY <2>1, <4>1
      <4>3. QED
        BY <2>2, <4>1, <4>2
    <3>3. QED
      BY <3>1, <3>2
  <2>5. IsSum(m + 1, e)
    BY <2>3, <2>4
  <2> HIDE DEF IsSum
  <2>6. QED
    BY <2>5
<1>3. k \in S
  <2> HIDE DEF S
  <2>1. QED
    BY <1>1, <1>2, InductionOnSet
<1>4. IsSum(k, Sums(sizes, k))
  <2>1. \E b : IsSum(k, b)
    BY <1>3
  <2>2. QED
    BY <2>1 DEF Sums
<1> DEFINE sums == Sums(sizes, k)
<1>5. sums = [j \in 1 .. k |-> IF j = 1 THEN 0 ELSE sums[j - 1] + NumBits(sizes[j - 1])]
  BY <1>4
<1> HIDE DEF sums
<1>6. \A j \in 1 .. k : sums[j] = IF j = 1 THEN 0 ELSE sums[j - 1] + NumBits(sizes[j - 1])
  BY <1>5
<1>7. QED
  BY <1>6 DEF sums

LEMMA BeforeIsSum ==
  ASSUME NEW sizes, NEW k
  PROVE  Before(sizes, k) = Sums(sizes, k)[k]
BY DEF Before, Sums

(* The sums for more windows begin with those for fewer.                   *)
LEMMA SumsAgree ==
  ASSUME NEW sizes, NEW k \in Nat, NEW i \in 1 .. k
  PROVE  Sums(sizes, k)[i] = Before(sizes, i)
<1> DEFINE a == Sums(sizes, k)
           b == Sums(sizes, i)
           S == {m \in Nat : m + 1 <= i => a[m + 1] = b[m + 1]}
<1>0. i \in Nat /\ i <= k /\ i >= 1
  OBVIOUS
<1>1. /\ \A j \in 1 .. k : a[j] = IF j = 1 THEN 0 ELSE a[j - 1] + NumBits(sizes[j - 1])
      /\ \A j \in 1 .. i : b[j] = IF j = 1 THEN 0 ELSE b[j - 1] + NumBits(sizes[j - 1])
  BY <1>0, SumsExist
<1> HIDE DEF a, b
<1>2. 0 \in S
  <2>1. 1 \in 1 .. k /\ 1 \in 1 .. i /\ 0 + 1 = 1
    BY <1>0
  <2>2. QED
    BY <1>1, <2>1
<1>3. ASSUME NEW m \in Nat, m \in S PROVE m + 1 \in S
  <2> SUFFICES ASSUME m + 1 + 1 <= i PROVE a[m + 1 + 1] = b[m + 1 + 1]
    OBVIOUS
  <2>1. PICK j : j = m + 1 + 1
    OBVIOUS
  <2>2. j \in 1 .. k /\ j \in 1 .. i /\ j # 1 /\ j - 1 = m + 1 /\ m + 1 <= i
    BY <1>0, <2>1
  <2>3. a[m + 1] = b[m + 1]
    BY <1>3, <2>2
  <2>4. a[j] = a[j - 1] + NumBits(sizes[j - 1]) /\ b[j] = b[j - 1] + NumBits(sizes[j - 1])
    BY <1>1, <2>2
  <2>5. QED
    BY <2>1, <2>2, <2>3, <2>4
<1>4. i - 1 \in S /\ i - 1 + 1 = i
  <2>1. i - 1 \in Nat
    BY <1>0
  <2> HIDE DEF S
  <2>2. QED
    BY <1>0, <1>2, <1>3, <2>1, InductionOnSet
<1>5. a[i] = b[i]
  BY <1>0, <1>4
<1>6. QED
  BY <1>5, BeforeIsSum DEF a, b

LEMMA BeforeSteps ==
  ASSUME NEW sizes, NEW k \in Nat \ {0}
  PROVE  Before(sizes, 1) = 0 /\ Before(sizes, k + 1) = Before(sizes, k) + NumBits(sizes[k])
<1>1. Sums(sizes, 1)[1] = 0
  BY SumsExist
<1>2. PICK m : m = k + 1
  OBVIOUS
<1>3. m \in Nat /\ m \in 1 .. m /\ m # 1 /\ m - 1 = k /\ k \in 1 .. m
  BY <1>2
<1>4. Sums(sizes, m)[m] = Sums(sizes, m)[k] + NumBits(sizes[k])
  BY <1>3, SumsExist
<1>5. Sums(sizes, m)[m] = Before(sizes, m) /\ Sums(sizes, m)[k] = Before(sizes, k)
  BY <1>3, SumsAgree
<1>6. QED
  BY <1>1, <1>2, <1>4, <1>5, BeforeIsSum

LEMMA BeforeNat ==
  ASSUME NEW sizes \in Seq(Sizes), NEW k \in 1 .. (Len(sizes) + 1)
  PROVE  Before(sizes, k) \in Nat
<1> DEFINE S == {m \in Nat : m <= Len(sizes) => Before(sizes, m + 1) \in Nat}
<1>1. 0 \in S
  BY BeforeSteps
<1>2. ASSUME NEW m \in Nat, m \in S PROVE m + 1 \in S
  <2> SUFFICES ASSUME m + 1 <= Len(sizes) PROVE Before(sizes, m + 1 + 1) \in Nat
    OBVIOUS
  <2>1. m + 1 \in Nat \ {0} /\ m + 1 \in 1 .. Len(sizes)
    OBVIOUS
  <2>2. Before(sizes, m + 1) \in Nat
    BY <1>2
  <2>3. sizes[m + 1] \in Sizes
    BY <2>1
  <2>4. NumBits(sizes[m + 1]) \in Nat
    BY <2>3, NumBitsNat
  <2>5. Before(sizes, m + 1 + 1) = Before(sizes, m + 1) + NumBits(sizes[m + 1])
    BY <2>1, BeforeSteps
  <2>6. QED
    BY <2>2, <2>4, <2>5
<1>3. k - 1 \in Nat /\ k - 1 + 1 = k /\ k - 1 <= Len(sizes)
  OBVIOUS
<1>4. k - 1 \in S
  <2> HIDE DEF S
  <2>1. QED
    BY <1>1, <1>2, <1>3, InductionOnSet
<1>5. QED
  BY <1>3, <1>4

(* A window ends before a later one begins.                                *)
LEMMA WindowsApart ==
  ASSUME NEW sizes \in Seq(Sizes), NEW i \in 1 .. Len(sizes), NEW k \in 1 .. (Len(sizes) + 1), i < k
  PROVE  Before(sizes, i) + NumBits(sizes[i]) <= Before(sizes, k)
<1> DEFINE S == {d \in Nat : i + 1 + d <= Len(sizes) + 1 =>
                     Before(sizes, i) + NumBits(sizes[i]) <= Before(sizes, i + 1 + d)}
<1>0. i \in Nat \ {0} /\ i \in 1 .. (Len(sizes) + 1) /\ sizes[i] \in Sizes
  OBVIOUS
<1>1. Before(sizes, i) \in Nat /\ NumBits(sizes[i]) \in Nat
  BY <1>0, BeforeNat, NumBitsNat
<1>2. 0 \in S
  <2>1. Before(sizes, i + 1) = Before(sizes, i) + NumBits(sizes[i]) /\ i + 1 + 0 = i + 1
    BY <1>0, BeforeSteps
  <2>2. QED
    BY <1>1, <2>1
<1>3. ASSUME NEW d \in Nat, d \in S PROVE d + 1 \in S
  <2> SUFFICES ASSUME i + 1 + (d + 1) <= Len(sizes) + 1
               PROVE  Before(sizes, i) + NumBits(sizes[i]) <= Before(sizes, i + 1 + (d + 1))
    OBVIOUS
  <2>1. PICK m : m = i + 1 + d
    OBVIOUS
  <2>2. /\ m \in Nat \ {0} /\ m \in 1 .. Len(sizes) /\ m \in 1 .. (Len(sizes) + 1)
        /\ i + 1 + (d + 1) = m + 1
    BY <2>1
  <2>3. sizes[m] \in Sizes
    BY <2>2
  <2>4. Before(sizes, m) \in Nat /\ NumBits(sizes[m]) \in Nat
    BY <2>2, <2>3, BeforeNat, NumBitsNat
  <2>5. Before(sizes, m + 1) = Before(sizes, m) + NumBits(sizes[m])
    BY <2>2, BeforeSteps
  <2>6. Before(sizes, i) + NumBits(sizes[i]) <= Before(sizes, m)
    BY <1>3, <2>1, <2>2
  <2>7. QED
    BY <1>1, <2>2, <2>4, <2>5, <2>6
<1>4. PICK d : d \in Nat /\ i + 1 + d = k
  <2>1. k - i - 1 \in Nat /\ i + 1 + (k - i - 1) = k
    OBVIOUS
  <2>2. QED
    BY <2>1
<1>5. d \in S
  <2> HIDE DEF S
  <2>1. QED
    BY <1>2, <1>3, <1>4, InductionOnSet
<1>6. QED
  BY <1>4, <1>5

(* A request has a kind, and what its kind asks for.                        *)
LEMMA RequestKinds ==
  ASSUME NEW r \in Requests
  PROVE  \/ r.kind \in {"elements", "bytes", "bits"} /\ r.n \in Nat /\ ~ Whole(r) /\ ~ Windowed(r)
         \/ Whole(r) /\ ~ Windowed(r) /\ r.kind = "native" /\ r.sizes \in Seq(Sizes)
         \/ Windowed(r) /\ ~ Whole(r) /\ r.kind \in {"sizes", "native"} /\ r.sizes \in Seq(Sizes)
<1>1. CASE r \in [kind : {"elements", "bytes", "bits"}, n : Nat]
  BY <1>1 DEF Whole, Windowed
<1>2. CASE r \in [kind : {"sizes"}, sizes : Seq(SizesOf(EmulatedBits))]
  <2>1. r.kind = "sizes" /\ r.sizes \in Seq(SizesOf(EmulatedBits))
    BY <1>2
  <2>2. r.sizes \in Seq(Sizes)
    BY <2>1 DEF Sizes
  <2>3. QED
    BY <2>1, <2>2 DEF Whole, Windowed
<1>3. CASE r \in [kind : {"native"}, sizes : Seq(SizesOf(ModulusBits))]
  <2>1. r.kind = "native" /\ r.sizes \in Seq(SizesOf(ModulusBits))
    BY <1>3
  <2>2. r.sizes \in Seq(Sizes)
    BY <2>1 DEF Sizes
  <2>3. Windowed(r) <=> ~ Whole(r)
    BY <2>1 DEF Windowed, Whole
  <2>4. QED
    BY <2>1, <2>2, <2>3
<1>4. QED
  BY <1>1, <1>2, <1>3, RequestsAssumption

(* What a request needs from the sponge is a number.                        *)
LEMMA NumElementsNat ==
  ASSUME NEW r \in Requests
  PROVE  NumElements(r) \in Nat
<1>1. ASSUME NEW a \in Nat, NEW b \in Nat, b >= 1 PROVE CeilDiv(a, b) \in Nat
  <2>1. PICK c : c = a + b - 1 /\ c \in Nat
    <3>1. a + b - 1 \in Nat
      BY <1>1
    <3>2. QED
      BY <3>1
  <2>2. c \div b \in Nat
    BY <1>1, <2>1, DivBounds
  <2>3. QED
    BY <2>1, <2>2 DEF CeilDiv
<1>2. UsableBytes \in Nat /\ UsableBytes >= 1 /\ UsableBits \in Nat /\ UsableBits >= 1
  BY ModulusBitsAssumption DEF UsableBytes, UsableBits
<1>3. CASE r.kind \in {"elements", "bytes", "bits"} /\ r.n \in Nat /\ ~ Whole(r) /\ ~ Windowed(r)
  <2>1. r.n \in Nat /\ r.kind \in {"elements", "bytes", "bits"}
    BY <1>3
  <2>2. CeilDiv(r.n, UsableBytes) \in Nat /\ CeilDiv(r.n, UsableBits) \in Nat
    BY <1>1, <1>2, <2>1
  <2>3. QED
    BY <1>3, <2>1, <2>2 DEF NumElements
<1>4. CASE /\ Windowed(r) /\ ~ Whole(r)
           /\ r.kind \in {"sizes", "native"} /\ r.sizes \in Seq(Sizes)
  <2>1. r.sizes \in Seq(Sizes)
    BY <1>4
  <2>2. Len(r.sizes) + 1 \in 1 .. (Len(r.sizes) + 1)
    BY <2>1
  <2>3. TotalBits(r.sizes) \in Nat
    BY <2>1, <2>2, BeforeNat DEF TotalBits
  <2>4. CeilDiv(TotalBits(r.sizes), UsableBits) \in Nat
    BY <1>1, <1>2, <2>3
  <2>5. QED
    BY <1>4, <2>4 DEF NumElements
<1>5. CASE Whole(r) /\ ~ Windowed(r) /\ r.kind = "native" /\ r.sizes \in Seq(Sizes)
  BY <1>5 DEF NumElements
<1>6. QED
  BY <1>3, <1>4, <1>5, RequestKinds

(* Sponge and gadget squeeze as much, and neither does for no size.         *)
LEMMA VarRequestIs ==
  ASSUME NEW v, NEW r \in Requests
  PROVE  /\ ~ TouchesSponge(r) => VarRequest(v, r) = [sponge |-> v, answer |-> <<>>]
         /\ TouchesSponge(r) =>
              VarRequest(v, r)
                = [sponge |-> VarSqueeze(v, NumElements(r)).sponge,
                   answer |-> VarAnswer(r, VarSqueeze(v, NumElements(r)).out)]
<1>1. VarNumElements(r) = NumElements(r)
  BY UsableAlike DEF VarNumElements, NumElements, CeilDiv
<1>2. Windowed(r) /\ Len(r.sizes) = 0 <=> ~ TouchesSponge(r)
  <2>1. CASE r.kind \in {"elements", "bytes", "bits"} /\ ~ Windowed(r)
    BY <2>1 DEF TouchesSponge
  <2>2. CASE r.kind = "sizes" /\ r.sizes \in Seq(Sizes)
    <3>1. Len(r.sizes) = 0 <=> r.sizes = <<>>
      BY <2>2, EmptySeq
    <3>2. QED
      BY <2>2, <3>1 DEF TouchesSponge, Windowed
  <2>3. CASE r.kind = "native" /\ r.sizes \in Seq(Sizes)
    <3>1. Len(r.sizes) = 0 => Whole(r)
      BY <2>3 DEF Whole
    <3>2. QED
      BY <2>3, <3>1 DEF TouchesSponge, Windowed
  <2>4. QED
    BY <2>1, <2>2, <2>3, RequestKinds
<1>3. QED
  BY <1>1, <1>2 DEF VarRequest

(* A window cut into chunks of eight is the same window.                    *)
LEMMA Cut ==
  ASSUME NEW s, NEW m \in Int, NEW n \in Int
  PROVE  /\ Len(SubSeq(s, m, n)) = IF m <= n THEN n - m + 1 ELSE 0
         /\ \A i \in 1 .. (n - m + 1) : SubSeq(s, m, n)[i] = s[m + i - 1]
<1> DEFINE S == {s[i] : i \in m .. n}
<1>1. \A i \in m .. n : s[i] \in S
  OBVIOUS
<1> HIDE DEF S
<1>2. QED
  BY <1>1, SubSeqProperties

LEMMA SizesAlike ==
  ASSUME NEW sizes \in Seq(Sizes), NEW bits
  PROVE  VarSizes(bits, sizes) = SqueezeSizes(bits, sizes)
<1>1. SUFFICES ASSUME NEW k \in DOMAIN sizes
               PROVE  VarSizes(bits, sizes)[k] = SqueezeSizes(bits, sizes)[k]
  BY DEF VarSizes, SqueezeSizes
<1> DEFINE b == Before(sizes, k)
           n == NumBits(sizes[k])
           window == SubSeq(bits, b + 1, b + n)
           EndOf(c) == IF 8 * c + 8 < Len(window) THEN 8 * c + 8 ELSE Len(window)
           Chunk(c) == SubSeq(window, 8 * c + 1, EndOf(c))
           Pairs(c) == {<<8 * c + i, Chunk(c)[i + 1]>> : i \in 0 .. (Len(Chunk(c)) - 1)}
           whole == {<<j, bits[b + j + 1]>> : j \in 0 .. (n - 1)}
<1>2. b \in Nat /\ n \in Nat
  <2>1. k \in 1 .. (Len(sizes) + 1) /\ sizes[k] \in Sizes
    OBVIOUS
  <2>2. QED
    BY <2>1, BeforeNat, NumBitsNat
<1>3. VarSizes(bits, sizes)[k] = whole
  BY DEF VarSizes
<1>4. SqueezeSizes(bits, sizes)[k] = UNION {Pairs(c) : c \in 0 .. CeilDiv(Len(window), 8)}
  BY DEF SqueezeSizes
<1> HIDE DEF b, n
<1>5. Len(window) = n /\ \A i \in 1 .. n : window[i] = bits[b + i]
  <2>1. PICK l, h : l = b + 1 /\ h = b + n
    OBVIOUS
  <2>2. l \in Int /\ h \in Int
    BY <1>2, <2>1
  <2>3. /\ Len(SubSeq(bits, l, h)) = IF l <= h THEN h - l + 1 ELSE 0
        /\ \A i \in 1 .. (h - l + 1) : SubSeq(bits, l, h)[i] = bits[l + i - 1]
    BY <2>2, Cut
  <2>4. h - l + 1 = n
    BY <1>2, <2>1
  <2>5. ASSUME NEW i \in 1 .. n PROVE l + i - 1 = b + i
    BY <1>2, <2>1
  <2>6. window = SubSeq(bits, l, h)
    BY <2>1
  <2> HIDE DEF window
  <2>7. Len(window) = n
    BY <1>2, <2>1, <2>3, <2>6
  <2>8. QED
    BY <2>3, <2>4, <2>5, <2>6, <2>7
<1> HIDE DEF window
<1>6. ASSUME NEW c \in Nat
      PROVE  /\ Len(Chunk(c)) = IF 8 * c + 8 < n THEN 8 ELSE IF 8 * c < n THEN n - 8 * c ELSE 0
             /\ \A i \in 0 .. (Len(Chunk(c)) - 1) : Chunk(c)[i + 1] = bits[b + (8 * c + i) + 1]
  <2>0. PICK d : d = 8 * c /\ d \in Nat
    <3>1. 8 * c \in Nat
      OBVIOUS
    <3>2. QED
      BY <3>1
  <2>1. PICK l, h : l = d + 1 /\ h = (IF d + 8 < n THEN d + 8 ELSE n)
    OBVIOUS
  <2>2. Chunk(c) = SubSeq(window, l, h)
    BY <1>5, <2>0, <2>1
  <2>3. l \in Int /\ h \in Int
    BY <1>2, <2>0, <2>1
  <2>4. /\ Len(SubSeq(window, l, h)) = IF l <= h THEN h - l + 1 ELSE 0
        /\ \A i \in 1 .. (h - l + 1) : SubSeq(window, l, h)[i] = window[l + i - 1]
    BY <2>3, Cut
  <2> HIDE DEF Chunk
  <2>5. Len(Chunk(c)) = IF d + 8 < n THEN 8 ELSE IF d < n THEN n - d ELSE 0
    <3>1. Len(Chunk(c)) = IF l <= h THEN h - l + 1 ELSE 0
      BY <2>2, <2>4
    <3>2. QED
      BY <1>2, <2>0, <2>1, <3>1
  <2>6. ASSUME NEW i \in 0 .. (Len(Chunk(c)) - 1)
        PROVE  Chunk(c)[i + 1] = bits[b + (d + i) + 1]
    <3>1. PICK p, q : p = i + 1 /\ q = d + p
      OBVIOUS
    <3>2. p \in 1 .. (h - l + 1) /\ l + p - 1 = q /\ q \in 1 .. n
      BY <1>2, <2>0, <2>1, <2>5, <3>1
    <3>3. Chunk(c)[p] = window[q]
      BY <2>2, <2>4, <3>2
    <3>4. window[q] = bits[b + q]
      BY <1>5, <3>2
    <3>5. b + q = b + (d + i) + 1
      BY <1>2, <2>0, <3>1
    <3>6. QED
      BY <3>1, <3>3, <3>4, <3>5
  <2>7. QED
    BY <2>0, <2>5, <2>6
<1>7. \A c \in Nat : Pairs(c) \subseteq whole
  <2> SUFFICES ASSUME NEW c \in Nat, NEW i \in 0 .. (Len(Chunk(c)) - 1)
               PROVE  <<8 * c + i, Chunk(c)[i + 1]>> \in whole
    OBVIOUS
  <2> HIDE DEF Chunk
  <2>1. PICK j : j = 8 * c + i
    OBVIOUS
  <2>2. j \in 0 .. (n - 1)
    <3>1. PICK d, m : d = 8 * c /\ d \in Nat /\ m = Len(Chunk(c))
      <4>1. 8 * c \in Nat
        OBVIOUS
      <4>2. QED
        BY <4>1
    <3>2. m = IF d + 8 < n THEN 8 ELSE IF d < n THEN n - d ELSE 0
      BY <1>6, <3>1
    <3>3. i \in 0 .. (m - 1) /\ j = d + i
      BY <2>1, <3>1
    <3>4. QED
      BY <1>2, <3>1, <3>2, <3>3
  <2>3. Chunk(c)[i + 1] = bits[b + j + 1]
    BY <1>6, <2>1
  <2>4. QED
    BY <2>1, <2>2, <2>3
<1>8. ASSUME NEW j \in 0 .. (n - 1)
      PROVE  \E c \in 0 .. CeilDiv(n, 8) : <<j, bits[b + j + 1]>> \in Pairs(c)
  <2>1. PICK c, i : /\ c \in Nat /\ i \in 0 .. 7 /\ j = 8 * c + i
                    /\ c <= CeilDiv(n, 8)
    <3>1. j \div 8 \in Nat /\ j % 8 \in 0 .. 7 /\ j = 8 * (j \div 8) + (j % 8)
      BY <1>2
    <3>2. j \div 8 <= (n + 8 - 1) \div 8
      BY <1>2
    <3>3. QED
      BY <3>1, <3>2 DEF CeilDiv
  <2> HIDE DEF Chunk
  <2>2. i \in 0 .. (Len(Chunk(c)) - 1)
    <3>1. PICK d, m : d = 8 * c /\ d \in Nat /\ m = Len(Chunk(c))
      <4>1. 8 * c \in Nat
        BY <2>1
      <4>2. QED
        BY <4>1
    <3>2. m = IF d + 8 < n THEN 8 ELSE IF d < n THEN n - d ELSE 0
      BY <1>6, <2>1, <3>1
    <3>3. i \in 0 .. 7 /\ j = d + i
      BY <2>1, <3>1
    <3>4. i \in 0 .. (m - 1)
      BY <1>2, <3>1, <3>2, <3>3
    <3>5. QED
      BY <3>1, <3>4
  <2>3. Chunk(c)[i + 1] = bits[b + j + 1]
    BY <1>6, <2>1, <2>2
  <2>4. <<j, bits[b + j + 1]>> \in Pairs(c)
    BY <2>1, <2>2, <2>3
  <2>5. c \in 0 .. CeilDiv(n, 8)
    <3>1. CeilDiv(n, 8) \in Int
      BY <1>2 DEF CeilDiv
    <3>2. QED
      BY <2>1, <3>1
  <2> HIDE DEF Pairs
  <2>6. QED
    BY <2>4, <2>5
<1>9. whole \subseteq UNION {Pairs(c) : c \in 0 .. CeilDiv(Len(window), 8)}
  <2> SUFFICES ASSUME NEW j \in 0 .. (n - 1)
               PROVE  \E c \in 0 .. CeilDiv(Len(window), 8) : <<j, bits[b + j + 1]>> \in Pairs(c)
    <3> HIDE DEF Pairs
    <3>1. QED
      OBVIOUS
  <2> HIDE DEF Pairs
  <2>1. QED
    BY <1>5, <1>8
<1>10. UNION {Pairs(c) : c \in 0 .. CeilDiv(Len(window), 8)} \subseteq whole
  <2>1. \A c \in 0 .. CeilDiv(Len(window), 8) : c \in Nat
    <3>1. CeilDiv(n, 8) \in Int
      BY <1>2 DEF CeilDiv
    <3>2. QED
      BY <1>5, <3>1
  <2> HIDE DEF Pairs, whole
  <2>2. QED
    BY <1>7, <2>1
<1> HIDE DEF Pairs, whole
<1>11. QED
  BY <1>3, <1>4, <1>9, <1>10

(* What a gadget answers with the elements it squeezed is what a sponge     *)
(* answers with them.                                                       *)
LEMMA AnswersAlike ==
  ASSUME NEW r, r \in Requests \/ r.kind = "elements",
         NEW X, NEW elems \in Seq(X)
  PROVE  VarAnswer(r, elems) = Answer(r, elems)
<1>1. CASE r.kind = "elements"
  BY <1>1 DEF VarAnswer, Answer
<1>2. CASE r.kind = "bytes"
  BY <1>2, BytesAlike DEF VarAnswer, Answer
<1>3. CASE r.kind = "bits"
  BY <1>3, BitsAlike DEF VarAnswer, Answer
<1>4. CASE Windowed(r) /\ r \in Requests
  <2>1. r.sizes \in Seq(Sizes) /\ ~ Whole(r) /\ r.kind \in {"sizes", "native"}
    BY <1>4, RequestKinds DEF Whole
  <2>2. VarBits(elems, TotalBits(r.sizes)) = SqueezeBits(elems, TotalBits(r.sizes))
    BY BitsAlike
  <2>3. PICK bits : bits = SqueezeBits(elems, TotalBits(r.sizes))
    OBVIOUS
  <2>4. VarSizes(bits, r.sizes) = SqueezeSizes(bits, r.sizes)
    BY <2>1, SizesAlike
  <2>5. QED
    BY <1>4, <2>1, <2>2, <2>3, <2>4 DEF VarAnswer, Answer
<1>5. CASE Whole(r) /\ r \in Requests
  <2>1. ~ Windowed(r) /\ r.kind = "native"
    BY <1>5 DEF Whole, Windowed
  <2>2. QED
    BY <1>5, <2>1 DEF VarAnswer, Answer
<1>6. QED
  BY <1>1, <1>2, <1>3, <1>4, <1>5, RequestKinds

(* A request that does not reach the sponge gets nothing.                   *)
LEMMA NothingAnswered ==
  ASSUME NEW r \in Requests, ~ TouchesSponge(r)
  PROVE  Answer(r, <<>>) = <<>>
<1>1. r.kind = "sizes" /\ r.sizes = <<>>
  BY DEF TouchesSponge
<1>2. PICK a : a = Answer(r, <<>>)
  OBVIOUS
<1>3. a = [k \in DOMAIN r.sizes |-> a[k]]
  <2>1. Windowed(r) /\ ~ Whole(r)
    BY <1>1 DEF Windowed, Whole
  <2>2. QED
    BY <1>1, <1>2, <2>1 DEF Answer, SqueezeSizes
<1>4. DOMAIN r.sizes = 1 .. 0
  BY <1>1
<1>5. a = [k \in 1 .. 0 |-> a[k]]
  BY <1>3, <1>4
<1>6. a \in Seq({}) /\ Len(a) = 0
  BY <1>5
<1>7. a = <<>>
  BY <1>6, EmptySeq
<1>8. QED
  BY <1>2, <1>7

-----------------------------------------------------------------------------
(* No element is given twice, and no bit of an answer.                     *)
Distinct(s) == \A j, k \in DOMAIN s : s[j] = s[k] => j = k

Apart(r, answer) ==
  IF Windowed(r)
  THEN \A j, k \in DOMAIN answer : j # k =>
         {pair[2] : pair \in answer[j]} \cap {pair[2] : pair \in answer[k]} = {}
  ELSE Distinct(answer)

(* Two pieces of the same place in the same element are one piece.         *)
LEMMA PieceOnce ==
  ASSUME NEW u \in Nat, u >= 1, NEW X, NEW elems \in Seq(X), Distinct(elems),
         NEW j \in 1 .. (u * Len(elems)), NEW k \in 1 .. (u * Len(elems)),
         elems[(j - 1) \div u + 1] = elems[(k - 1) \div u + 1], (j - 1) % u = (k - 1) % u
  PROVE  j = k
<1>1. Len(elems) \in Nat /\ DOMAIN elems = 1 .. Len(elems)
  OBVIOUS
<1>2. PICK m : m = Len(elems) /\ m \in Nat
  BY <1>1
<1>3. u * m \in Nat
  BY <1>2
<1>4. j - 1 \in Nat /\ k - 1 \in Nat /\ j - 1 < End(u, m) /\ k - 1 < End(u, m)
  BY <1>2, <1>3 DEF End
<1>5. PICK a, b : a = j - 1 /\ b = k - 1 /\ a \in Nat /\ b \in Nat
  BY <1>4
<1>6. Block(u, a) \in Nat /\ Block(u, a) < m /\ Block(u, b) \in Nat /\ Block(u, b) < m
  BY <1>2, <1>4, <1>5, Places
<1>7. PICK p, q : p = Block(u, a) /\ q = Block(u, b)
  OBVIOUS
<1>8. p + 1 \in 1 .. m /\ q + 1 \in 1 .. m /\ p \in Nat /\ q \in Nat
  BY <1>2, <1>6, <1>7
<1>9. elems[p + 1] = elems[q + 1]
  BY <1>5, <1>7 DEF Block
<1>10. p + 1 = q + 1
  BY <1>1, <1>2, <1>8, <1>9 DEF Distinct
<1>11. p = q
  BY <1>8, <1>10
<1>12. a \div u = b \div u /\ a % u = b % u
  BY <1>5, <1>7, <1>11 DEF Block
<1>13. a = (a \div u) * u + (a % u) /\ b = (b \div u) * u + (b % u)
  BY <1>5, ModFacts
<1>14. a = b
  BY Zenon, <1>12, <1>13
<1>15. QED
  BY <1>5, <1>14

LEMMA BytesApart ==
  ASSUME NEW X, NEW elems \in Seq(X), Distinct(elems),
         NEW n \in Nat, n <= UsableBytes * Len(elems)
  PROVE  Distinct(VarBytes(elems, n))
<1> DEFINE u == UsableBytes
           m == Len(elems)
           line == [k \in 1 .. (u * m) |-> Byte(elems[(k - 1) \div u + 1], (k - 1) % u)]
<1>1. u \in Nat /\ u >= 1 /\ m \in Nat
  BY ModulusBitsAssumption DEF UsableBytes
<1>2. n <= u * m /\ VarBytes(elems, n) = SubSeq(line, 1, n)
  BY UsableAlike DEF VarBytes
<1> HIDE DEF u
<1>3. u * m \in Nat
  BY <1>1
<1>4. ASSUME NEW j \in 1 .. n, NEW k \in 1 .. n, line[j] = line[k] PROVE j = k
  <2>1. j \in 1 .. (u * m) /\ k \in 1 .. (u * m)
    BY <1>2, <1>3
  <2>2. Byte(elems[(j - 1) \div u + 1], (j - 1) % u) = Byte(elems[(k - 1) \div u + 1], (k - 1) % u)
    BY <1>4, <2>1
  <2>3. elems[(j - 1) \div u + 1] = elems[(k - 1) \div u + 1] /\ (j - 1) % u = (k - 1) % u
    BY <2>2 DEF Byte
  <2>4. QED
    BY Zenon, <1>1, <2>1, <2>3, PieceOnce
<1> HIDE DEF line
<1>5. /\ Len(SubSeq(line, 1, n)) = n
      /\ \A i \in 1 .. n : SubSeq(line, 1, n)[i] = line[i]
  <2>1. /\ Len(SubSeq(line, 1, n)) = IF 1 <= n THEN n - 1 + 1 ELSE 0
        /\ \A i \in 1 .. (n - 1 + 1) : SubSeq(line, 1, n)[i] = line[1 + i - 1]
    BY Cut
  <2>2. QED
    BY <2>1
<1>6. DOMAIN SubSeq(line, 1, n) = 1 .. n
  BY DEF SubSeq
<1>7. QED
  BY <1>2, <1>4, <1>5, <1>6 DEF Distinct
LEMMA BitsApart ==
  ASSUME NEW X, NEW elems \in Seq(X), Distinct(elems),
         NEW n \in Nat, n <= UsableBits * Len(elems)
  PROVE  Distinct(VarBits(elems, n)) /\ DOMAIN VarBits(elems, n) = 1 .. n
<1> DEFINE u == UsableBits
           m == Len(elems)
           line == [k \in 1 .. (u * m) |-> Bit(elems[(k - 1) \div u + 1], (k - 1) % u)]
<1>1. u \in Nat /\ u >= 1 /\ m \in Nat
  BY ModulusBitsAssumption DEF UsableBits
<1>2. n <= u * m /\ VarBits(elems, n) = SubSeq(line, 1, n)
  BY UsableAlike DEF VarBits
<1> HIDE DEF u
<1>3. u * m \in Nat
  BY <1>1
<1>4. ASSUME NEW j \in 1 .. n, NEW k \in 1 .. n, line[j] = line[k] PROVE j = k
  <2>1. j \in 1 .. (u * m) /\ k \in 1 .. (u * m)
    BY <1>2, <1>3
  <2>2. Bit(elems[(j - 1) \div u + 1], (j - 1) % u) = Bit(elems[(k - 1) \div u + 1], (k - 1) % u)
    BY <1>4, <2>1
  <2>3. elems[(j - 1) \div u + 1] = elems[(k - 1) \div u + 1] /\ (j - 1) % u = (k - 1) % u
    BY <2>2 DEF Bit
  <2>4. QED
    BY Zenon, <1>1, <2>1, <2>3, PieceOnce
<1> HIDE DEF line
<1>5. /\ Len(SubSeq(line, 1, n)) = n
      /\ \A i \in 1 .. n : SubSeq(line, 1, n)[i] = line[i]
  <2>1. /\ Len(SubSeq(line, 1, n)) = IF 1 <= n THEN n - 1 + 1 ELSE 0
        /\ \A i \in 1 .. (n - 1 + 1) : SubSeq(line, 1, n)[i] = line[1 + i - 1]
    BY Cut
  <2>2. QED
    BY <2>1
<1>6. DOMAIN SubSeq(line, 1, n) = 1 .. n
  BY DEF SubSeq
<1>7. QED
  BY <1>2, <1>4, <1>5, <1>6 DEF Distinct

(* Windows of bits that are all different have none in common.             *)
LEMMA SizesApart ==
  ASSUME NEW sizes \in Seq(Sizes), NEW bits, Distinct(bits),
         DOMAIN bits = 1 .. TotalBits(sizes)
  PROVE  \A j, k \in DOMAIN VarSizes(bits, sizes) : j # k =>
           {pair[2] : pair \in VarSizes(bits, sizes)[j]}
             \cap {pair[2] : pair \in VarSizes(bits, sizes)[k]} = {}
<1> DEFINE At(k) == Before(sizes, k)
           Of(k) == NumBits(sizes[k])
           V == VarSizes(bits, sizes)
<1>1. DOMAIN V = 1 .. Len(sizes) /\ Len(sizes) \in Nat
  BY DEF VarSizes
<1>2. ASSUME NEW k \in 1 .. Len(sizes)
      PROVE  /\ At(k) \in Nat /\ Of(k) \in Nat /\ TotalBits(sizes) \in Nat
             /\ At(k) + Of(k) <= TotalBits(sizes)
  <2>1. sizes[k] \in Sizes /\ k \in 1 .. (Len(sizes) + 1) /\ k < Len(sizes) + 1
        /\ Len(sizes) + 1 \in 1 .. (Len(sizes) + 1)
    BY <1>1
  <2>2. At(k) \in Nat /\ TotalBits(sizes) \in Nat
    BY <2>1, BeforeNat DEF TotalBits
  <2>3. Of(k) \in Nat
    BY <2>1, NumBitsNat
  <2>4. At(k) + Of(k) <= TotalBits(sizes)
    BY <2>1, WindowsApart DEF TotalBits
  <2>5. QED
    BY <2>2, <2>3, <2>4
<1>3. ASSUME NEW k \in 1 .. Len(sizes), NEW x, x \in {pair[2] : pair \in V[k]}
      PROVE  \E p \in 1 .. TotalBits(sizes) : x = bits[p] /\ At(k) < p /\ p <= At(k) + Of(k)
  <2>1. V[k] = {<<i, bits[At(k) + i + 1]>> : i \in 0 .. (Of(k) - 1)}
    BY DEF VarSizes
  <2>2. PICK i \in 0 .. (Of(k) - 1) : x = bits[At(k) + i + 1]
    BY <1>3, <2>1
  <2> HIDE DEF At, Of
  <2>3. PICK p : p = At(k) + i + 1
    OBVIOUS
  <2>4. p \in 1 .. TotalBits(sizes) /\ At(k) < p /\ p <= At(k) + Of(k)
    BY <1>2, <2>3
  <2>5. QED
    BY <2>2, <2>3, <2>4
<1> HIDE DEF V
<1>4. ASSUME NEW j \in 1 .. Len(sizes), NEW k \in 1 .. Len(sizes), j < k,
             NEW x, x \in {pair[2] : pair \in V[j]}, x \in {pair[2] : pair \in V[k]}
      PROVE  FALSE
  <2>1. PICK p \in 1 .. TotalBits(sizes) : x = bits[p] /\ At(j) < p /\ p <= At(j) + Of(j)
    BY <1>3, <1>4
  <2>2. PICK q \in 1 .. TotalBits(sizes) : x = bits[q] /\ At(k) < q /\ q <= At(k) + Of(k)
    BY <1>3, <1>4
  <2>3. k \in 1 .. (Len(sizes) + 1)
    BY <1>1
  <2>4. At(j) + Of(j) <= At(k)
    BY Zenon, <1>4, <2>3, WindowsApart
  <2>5. p = q
    BY <2>1, <2>2 DEF Distinct
  <2> HIDE DEF At, Of
  <2>6. At(j) \in Nat /\ Of(j) \in Nat /\ At(k) \in Nat
    BY <1>2
  <2>7. QED
    BY <2>1, <2>2, <2>4, <2>5, <2>6
<1>5. ASSUME NEW j \in 1 .. Len(sizes), NEW k \in 1 .. Len(sizes), j # k
      PROVE  {pair[2] : pair \in V[j]} \cap {pair[2] : pair \in V[k]} = {}
  <2>1. j < k \/ k < j
    BY <1>5
  <2>2. QED
    BY <1>4, <2>1
<1>6. QED
  BY <1>1, <1>5 DEF V

(* As many elements as a request needs are enough.                         *)
LEMMA EnoughPieces ==
  ASSUME NEW n \in Nat, NEW u \in Nat, u >= 1
  PROVE  n <= u * CeilDiv(n, u)
<1>1. PICK a : a = n + u - 1 /\ a \in Nat
  <2>1. n + u - 1 \in Nat
    OBVIOUS
  <2>2. QED
    BY <2>1
<1>2. PICK q : q = a \div u /\ q \in Nat /\ a < (q + 1) * u
  BY <1>1, DivBounds
<1>3. (q + 1) * u = u * q + u /\ u * q \in Nat
  BY <1>2
<1>4. n <= u * q
  BY <1>1, <1>2, <1>3
<1>5. QED
  BY <1>1, <1>2, <1>4 DEF CeilDiv

(* What a request is given from different elements has no bit twice.       *)
LEMMA AnswerApart ==
  ASSUME NEW r, r \in Requests \/ r.kind = "elements",
         NEW X, NEW elems \in Seq(X), Distinct(elems), Len(elems) = NumElements(r)
  PROVE  Apart(r, Answer(r, elems))
<1> SUFFICES Apart(r, VarAnswer(r, elems))
  BY AnswersAlike
<1>1. UsableBytes \in Nat /\ UsableBytes >= 1 /\ UsableBits \in Nat /\ UsableBits >= 1
  BY ModulusBitsAssumption DEF UsableBytes, UsableBits
<1>0. r.kind \in {"elements", "bytes", "bits"} => ~ Windowed(r)
  BY DEF Windowed
<1>2. CASE r.kind = "elements"
  BY <1>0, <1>2 DEF VarAnswer, Apart
<1>3. CASE r.kind = "bytes" /\ r \in Requests
  <2>1. r.n \in Nat
    BY <1>3, RequestKinds DEF Whole
  <2>2. Len(elems) = CeilDiv(r.n, UsableBytes)
    BY <1>0, <1>3 DEF NumElements, Whole
  <2>3. r.n <= UsableBytes * Len(elems)
    BY <1>1, <2>1, <2>2, EnoughPieces
  <2>4. Distinct(VarBytes(elems, r.n))
    BY <2>1, <2>3, BytesApart
  <2>5. QED
    BY <1>0, <1>3, <2>4 DEF VarAnswer, Apart
<1>4. CASE r.kind = "bits" /\ r \in Requests
  <2>1. r.n \in Nat
    BY <1>4, RequestKinds DEF Whole
  <2>2. Len(elems) = CeilDiv(r.n, UsableBits)
    BY <1>0, <1>4 DEF NumElements, Whole
  <2>3. r.n <= UsableBits * Len(elems)
    BY <1>1, <2>1, <2>2, EnoughPieces
  <2>4. Distinct(VarBits(elems, r.n))
    BY <2>1, <2>3, BitsApart
  <2>5. QED
    BY <1>0, <1>4, <2>4 DEF VarAnswer, Apart
<1>5. CASE Windowed(r) /\ r \in Requests
  <2>1. r.sizes \in Seq(Sizes) /\ ~ Whole(r) /\ r.kind \in {"sizes", "native"}
    BY <1>5, RequestKinds DEF Whole
  <2>2. PICK n : n = TotalBits(r.sizes) /\ n \in Nat
    <3>1. Len(r.sizes) + 1 \in 1 .. (Len(r.sizes) + 1)
      BY <2>1
    <3>2. QED
      BY <2>1, <3>1, BeforeNat DEF TotalBits
  <2>3. Len(elems) = CeilDiv(n, UsableBits)
    BY <1>5, <2>1, <2>2 DEF NumElements
  <2>4. n <= UsableBits * Len(elems)
    BY <1>1, <2>2, <2>3, EnoughPieces
  <2>5. PICK bits : bits = VarBits(elems, n)
    OBVIOUS
  <2>6. Distinct(bits) /\ DOMAIN bits = 1 .. TotalBits(r.sizes)
    BY <2>2, <2>4, <2>5, BitsApart
  <2>7. \A j, k \in DOMAIN VarSizes(bits, r.sizes) : j # k =>
          {pair[2] : pair \in VarSizes(bits, r.sizes)[j]}
            \cap {pair[2] : pair \in VarSizes(bits, r.sizes)[k]} = {}
    BY <2>1, <2>6, SizesApart
  <2>8. VarAnswer(r, elems) = VarSizes(bits, r.sizes)
    BY <1>5, <2>1, <2>2, <2>5 DEF VarAnswer
  <2>9. QED
    BY <1>5, <2>7, <2>8 DEF Apart
<1>6. CASE Whole(r) /\ r \in Requests
  <2>1. ~ Windowed(r) /\ r.kind = "native"
    BY <1>6 DEF Whole, Windowed
  <2>2. QED
    BY <1>6, <2>1 DEF VarAnswer, Apart
<1>7. QED
  BY <1>2, <1>3, <1>4, <1>5, <1>6, RequestKinds

-----------------------------------------------------------------------------
(* A run of a loop of the gadget, from a turn of the native loop on: the   *)
(* last turn, or one turn and the run from there.                          *)
VarGive(s, from, n, given) ==
  LET last == SqueezeTurns([state |-> s, from |-> from, n |-> n, out |-> given])
  IN  [sponge |-> [state |-> last.state, mode |-> Squeezing(last.from + last.n)],
       out    |-> last.out \o ReadRange(last.state, last.from, last.n)]

LEMMA VarAbsorbLast ==
  ASSUME NEW s, NEW from \in 0 .. (Rate - 1), NEW elems \in Seq(Elements),
         from + Len(elems) <= Rate
  PROVE  VarAbsorbInternal(s, from, elems)
           = [state |-> AddRange(s, from, Len(elems), elems),
              mode  |-> Absorbing(from + Len(elems))]
<1>1. PICK t : t = [state |-> s, from |-> from, rest |-> elems]
  OBVIOUS
<1>2. t.from \in 0 .. (Rate - 1) /\ t.rest \in Seq(Elements) /\ LastAbsorb(t)
  BY <1>1 DEF LastAbsorb
<1>3. AbsorbTurns(t) = t
  BY <1>2, AbsorbTurnsUnfold
<1>4. QED
  BY <1>1, <1>3 DEF VarAbsorbInternal

LEMMA VarAbsorbChunk ==
  ASSUME NEW s, NEW from \in 0 .. (Rate - 1), NEW elems \in Seq(Elements),
         from + Len(elems) > Rate
  PROVE  VarAbsorbInternal(s, from, elems)
           = VarAbsorbInternal(Permuted(AddRange(s, from, Rate - from, elems)), 0,
                               SubSeq(elems, Rate - from + 1, Len(elems)))
<1>1. PICK t : t = [state |-> s, from |-> from, rest |-> elems]
  OBVIOUS
<1>2. /\ t.from \in 0 .. (Rate - 1) /\ t.rest \in Seq(Elements)
      /\ ~ (t.from + Len(t.rest) <= Rate)
  BY <1>1, RateAssumption
<1>3. AbsorbTurns(t) = AbsorbTurns(AbsorbTurn(t))
  BY <1>2, AbsorbTurnsUnfold DEF LastAbsorb
<1>4. AbsorbTurn(t) = [state |-> Permuted(AddRange(s, from, Rate - from, elems)),
                       from  |-> 0,
                       rest  |-> SubSeq(elems, Rate - from + 1, Len(elems))]
  BY <1>1, <1>2 DEF AbsorbTurn
<1>5. QED
  BY <1>1, <1>3, <1>4 DEF VarAbsorbInternal

LEMMA VarGiveLast ==
  ASSUME NEW s, NEW from \in 0 .. (Rate - 1), NEW n \in Nat, NEW given,
         from + n <= Rate
  PROVE  VarGive(s, from, n, given)
           = [sponge |-> [state |-> s, mode |-> Squeezing(from + n)],
              out    |-> given \o ReadRange(s, from, n)]
<1>1. PICK t : t = [state |-> s, from |-> from, n |-> n, out |-> given]
  OBVIOUS
<1>2. t.from \in 0 .. (Rate - 1) /\ t.n \in Nat /\ LastSqueeze(t)
  BY <1>1 DEF LastSqueeze
<1>3. SqueezeTurns(t) = t
  BY <1>2, SqueezeTurnsUnfold
<1>4. VarGive(s, from, n, given)
        = [sponge |-> [state |-> t.state, mode |-> Squeezing(t.from + t.n)],
           out    |-> t.out \o ReadRange(t.state, t.from, t.n)]
  BY <1>1, <1>3, Zenon DEF VarGive
<1>5. t.state = s /\ t.from = from /\ t.n = n /\ t.out = given
  BY <1>1
<1>6. QED
  BY <1>4, <1>5

LEMMA VarGiveChunk ==
  ASSUME NEW s, NEW from \in 0 .. (Rate - 1), NEW n \in Nat, NEW given,
         from + n > Rate
  PROVE  VarGive(s, from, n, given)
           = VarGive(IF (IF Rescue THEN n # Rate ELSE n - (Rate - from) # 0)
                     THEN Permuted(s) ELSE s,
                     0, n - (Rate - from), given \o ReadRange(s, from, Rate - from))
<1>1. PICK t : t = [state |-> s, from |-> from, n |-> n, out |-> given]
  OBVIOUS
<1>2. t.from \in 0 .. (Rate - 1) /\ t.n \in Nat /\ ~ (t.from + t.n <= Rate)
  BY <1>1, RateAssumption
<1>3. SqueezeTurns(t) = SqueezeTurns(SqueezeTurn(t))
  BY <1>2, SqueezeTurnsUnfold DEF LastSqueeze
<1>4. SqueezeTurn(t) = [state |-> IF (IF Rescue THEN n # Rate ELSE n - (Rate - from) # 0)
                                  THEN Permuted(s) ELSE s,
                        from  |-> 0,
                        n     |-> n - (Rate - from),
                        out   |-> given \o ReadRange(s, from, Rate - from)]
  BY <1>1, <1>2 DEF SqueezeTurn
<1>5. QED
  BY <1>1, <1>3, <1>4 DEF VarGive

(* What is given is a sequence.                                            *)
IsSeq(s) == \E X : s \in Seq(X)

LEMMA ReadMore ==
  ASSUME NEW given, IsSeq(given), NEW s, NEW from, NEW n \in Nat
  PROVE  IsSeq(given \o ReadRange(s, from, n))
<1>1. PICK X : given \in Seq(X)
  BY DEF IsSeq
<1>2. PICK r : r = ReadRange(s, from, n)
  OBVIOUS
<1> DEFINE Y == X \cup {r[i] : i \in 1 .. n}
<1>3. r \in [1 .. n -> Y]
  BY <1>2 DEF ReadRange
<1>4. given \in Seq(Y)
  BY <1>1
<1> HIDE DEF Y
<1>5. r \in Seq(Y)
  BY <1>3
<1>6. given \o r \in Seq(Y)
  BY <1>4, <1>5
<1>7. QED
  BY <1>2, <1>6 DEF IsSeq

-----------------------------------------------------------------------------
(* The sponge that runs its loops, and the gadget that has answered: how   *)
(* gadget v and its answer to r relate to the sponge between calls and     *)
(* before each turn of a loop.                                             *)
Paired(v, answer, r) ==
  /\ IsSeq(out)
  /\ r \in Requests \/ r.kind = "elements"
  /\ pc = "idle" =>
       /\ v.state = state /\ v.mode = mode
       /\ answer = Answer(r, out)
  /\ pc = "absorb" =>
       /\ start \in 0 .. (Rate - 1)
       /\ v = VarAbsorbInternal(state, start, remaining)
       /\ r.kind = "elements" /\ answer = <<>> /\ out = <<>>
  /\ pc = "squeeze" =>
       /\ start \in 0 .. (Rate - 1)
       /\ v = VarGive(state, start, want, out).sponge
       /\ answer = VarAnswer(r, VarGive(state, start, want, out).out)

LEMMA NothingGiven == IsSeq(<<>>)
<1>1. <<>> \in Seq({})
  OBVIOUS
<1>2. QED
  BY <1>1 DEF IsSeq

(* A call that does nothing.                                               *)
LEMMA QuietPaired ==
  ASSUME NEW v, v.state = state, v.mode = mode, pc = "idle",
         NEW r, r \in Requests \/ r.kind = "elements", Answer(r, <<>>) = <<>>,
         out' = <<>>, UNCHANGED <<state, mode, pc, start, remaining, want>>
  PROVE  Paired(v, <<>>, r)'
BY NothingGiven DEF Paired

(* Entering a loop.                                                        *)
LEMMA EnterAbsorbPaired ==
  ASSUME NEW from \in 0 .. (Rate - 1), NEW elems, NEW b \in BOOLEAN,
         EnterAbsorb(from, elems, b), NEW r, r.kind = "elements",
         NEW v, v = VarAbsorbInternal(IF b THEN Permuted(state) ELSE state, from, elems)
  PROVE  Paired(v, <<>>, r)'
<1>1. /\ pc' = "absorb" /\ start' = from /\ remaining' = elems /\ out' = <<>>
      /\ state' = IF b THEN Permuted(state) ELSE state
  BY DEF EnterAbsorb
<1>2. v = VarAbsorbInternal(state', start', remaining')
  BY <1>1
<1>3. QED
  BY <1>1, <1>2, NothingGiven DEF Paired

LEMMA EnterSqueezePaired ==
  ASSUME NEW from \in 0 .. (Rate - 1), NEW n, NEW b \in BOOLEAN,
         EnterSqueeze(from, n, b), NEW r \in Requests,
         NEW g, g = VarGive(IF b THEN Permuted(state) ELSE state, from, n, <<>>)
  PROVE  Paired(g.sponge, VarAnswer(r, g.out), r)'
<1>1. /\ pc' = "squeeze" /\ start' = from /\ want' = n /\ out' = <<>>
      /\ state' = IF b THEN Permuted(state) ELSE state
  BY DEF EnterSqueeze
<1>2. g = VarGive(state', start', want', out')
  BY <1>1
<1>3. QED
  BY <1>1, <1>2, NothingGiven DEF Paired

(* The turns of the loops; the condition to permute is what tells the two  *)
(* squeeze_internal apart.                                                 *)
LEMMA AbsorbChunkPaired ==
  ASSUME TypeOK, NEW v, NEW a, NEW r, Paired(v, a, r), AbsorbChunk
  PROVE  Paired(v, a, r)'
<1>1. /\ start \in 0 .. (Rate - 1) /\ remaining \in Seq(Elements)
      /\ start + Len(remaining) > Rate /\ v = VarAbsorbInternal(state, start, remaining)
  BY DEF TypeOK, Paired, AbsorbChunk
<1>2. PICK s : s = Permuted(AddRange(state, start, Rate - start, remaining))
  OBVIOUS
<1>3. PICK e : e = SubSeq(remaining, Rate - start + 1, Len(remaining))
  OBVIOUS
<1>4. v = VarAbsorbInternal(s, 0, e)
  BY <1>1, <1>2, <1>3, VarAbsorbChunk
<1>5. state' = s /\ start' = 0 /\ remaining' = e /\ pc' = "absorb" /\ out' = out
  BY <1>2, <1>3 DEF AbsorbChunk
<1>6. 0 \in 0 .. (Rate - 1) /\ v = VarAbsorbInternal(state', start', remaining')
  BY <1>4, <1>5, RateAssumption
<1>7. /\ IsSeq(out) /\ (r \in Requests \/ r.kind = "elements")
      /\ r.kind = "elements" /\ a = <<>> /\ out = <<>>
  BY DEF Paired, AbsorbChunk
<1>8. QED
  BY <1>5, <1>6, <1>7 DEF Paired

LEMMA AbsorbLastPaired ==
  ASSUME TypeOK, NEW v, NEW a, NEW r, Paired(v, a, r), AbsorbLast
  PROVE  Paired(v, a, r)'
<1>1. /\ start \in 0 .. (Rate - 1) /\ remaining \in Seq(Elements)
      /\ start + Len(remaining) <= Rate /\ v = VarAbsorbInternal(state, start, remaining)
  BY DEF TypeOK, Paired, AbsorbLast
<1>2. PICK s : s = AddRange(state, start, Len(remaining), remaining)
  OBVIOUS
<1>3. PICK m : m = Absorbing(start + Len(remaining))
  OBVIOUS
<1>4. v = [state |-> s, mode |-> m]
  BY <1>1, <1>2, <1>3, VarAbsorbLast
<1>5. state' = s /\ mode' = m /\ pc' = "idle" /\ out' = out
  BY <1>2, <1>3 DEF AbsorbLast
<1>6. v.state = state' /\ v.mode = mode'
  BY <1>4, <1>5
<1>7. /\ IsSeq(out) /\ (r \in Requests \/ r.kind = "elements")
      /\ r.kind = "elements" /\ a = <<>> /\ out = <<>>
  BY DEF Paired, AbsorbLast
<1>8. a = Answer(r, out')
  BY <1>5, <1>7 DEF Answer, Whole, Windowed
<1>9. QED
  BY <1>5, <1>6, <1>7, <1>8 DEF Paired

LEMMA SqueezeChunkPaired ==
  ASSUME TypeOK, NEW v, NEW a, NEW r, Paired(v, a, r),
         pc = "squeeze", start + want > Rate,
         out' = out \o ReadRange(state, start, Rate - start),
         want' = want - (Rate - start),
         state' = IF (IF Rescue THEN want # Rate ELSE want - (Rate - start) # 0)
                  THEN Permuted(state) ELSE state,
         start' = 0, pc' = pc
  PROVE  Paired(v, a, r)'
<1>1. PICK g : g = VarGive(state, start, want, out)
  OBVIOUS
<1>2. /\ start \in 0 .. (Rate - 1) /\ want \in Nat
      /\ v = g.sponge /\ a = VarAnswer(r, g.out)
      /\ IsSeq(out) /\ (r \in Requests \/ r.kind = "elements")
  BY <1>1 DEF TypeOK, Paired
<1>3. g = VarGive(state', 0, want', out')
  BY <1>1, <1>2, VarGiveChunk
<1>4. g = VarGive(state', start', want', out') /\ 0 \in 0 .. (Rate - 1)
  BY <1>3, RateAssumption
<1>5. IsSeq(out')
  <2>1. Rate - start \in Nat
    BY <1>2, RateAssumption
  <2>2. IsSeq(out \o ReadRange(state, start, Rate - start))
    BY <1>2, <2>1, ReadMore
  <2>3. QED
    BY <2>2
<1>6. QED
  BY <1>2, <1>4, <1>5 DEF Paired

LEMMA SqueezeLastPaired ==
  ASSUME TypeOK, NEW v, NEW a, NEW r, Paired(v, a, r), SqueezeLast
  PROVE  Paired(v, a, r)'
<1>1. PICK g : g = VarGive(state, start, want, out)
  OBVIOUS
<1>2. /\ start \in 0 .. (Rate - 1) /\ want \in Nat /\ start + want <= Rate
      /\ v = g.sponge /\ a = VarAnswer(r, g.out)
      /\ IsSeq(out) /\ (r \in Requests \/ r.kind = "elements")
  BY <1>1 DEF TypeOK, Paired, SqueezeLast
<1>3. PICK m, o : m = Squeezing(start + want) /\ o = out \o ReadRange(state, start, want)
  OBVIOUS
<1>4. g = [sponge |-> [state |-> state, mode |-> m], out |-> o]
  BY <1>1, <1>2, <1>3, VarGiveLast
<1>5. state' = state /\ mode' = m /\ pc' = "idle" /\ out' = o
  BY <1>3 DEF SqueezeLast
<1>6. IsSeq(o)
  BY <1>2, <1>3, ReadMore
<1>7. v.state = state' /\ v.mode = mode' /\ a = VarAnswer(r, out')
  BY <1>2, <1>4, <1>5
<1>8. a = Answer(r, out')
  <2>1. PICK X : o \in Seq(X)
    BY <1>6 DEF IsSeq
  <2>2. VarAnswer(r, o) = Answer(r, o)
    BY <1>2, <2>1, AnswersAlike
  <2>3. QED
    BY <1>5, <1>7, <2>2
<1>9. QED
  BY <1>2, <1>5, <1>6, <1>7, <1>8 DEF Paired
=============================================================================
