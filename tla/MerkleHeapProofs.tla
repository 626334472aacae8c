--------------------------- MODULE MerkleHeapProofs ---------------------------
(***************************************************************************)
(* Facts about the shape of the tree and about its reference Digests, for  *)
(* every height and every hash: the proofs about MerkleTree and about the  *)
(* membership proofs rest on them.                                         *)
(***************************************************************************)
EXTENDS MerkleHeap, Integers, WellFoundedInduction, TLAPS

(* Induction is stated for a set of numbers instead of a predicate, so     *)
(* that first-order provers can use it: the recursive functions of the     *)
(* models are reasoned about with it.  First: a set of natural numbers     *)
(* that is not empty has a least element.                                  *)
LEMMA LeastNumber ==
  ASSUME NEW S, S \subseteq Nat, S # {}
  PROVE  \E m \in S : \A n \in S : m <= n
<1>1. /\ IsWellFoundedOn(OpToRel(<, Nat), Nat)
      /\ \A n, m \in Nat : n < m => <<n, m>> \in OpToRel(<, Nat)
  <2>1. \A n, m \in Nat : n < m => <<n, m>> \in OpToRel(<, Nat)
    BY DEF OpToRel
  <2>2. QED
    BY <2>1, NatLessThanWellFounded
<1>2. \E R : /\ IsWellFoundedOn(R, Nat)
             /\ \A n, m \in Nat : n < m => <<n, m>> \in R
  BY <1>1
<1>3. PICK R : /\ IsWellFoundedOn(R, Nat)
               /\ \A n, m \in Nat : n < m => <<n, m>> \in R
  BY <1>2
<1>4. PICK m \in S : \A n \in S : ~ (<<n, m>> \in R)
  <2>1. IsWellFoundedOn(R, Nat)
    BY <1>3
  <2>2. QED
    BY <2>1, WFMin, ZenonT(30)
<1>5. \A n \in S : ~ (n < m)
  <2>1. \A n \in S : n \in Nat
    OBVIOUS
  <2>2. \A n, k \in Nat : n < k => <<n, k>> \in R
    BY <1>3
  <2>3. QED
    BY <1>4, <2>1, <2>2, Zenon
<1>6. QED
  BY <1>5

(* A set that has 0, and n + 1 with every n, has every natural number.     *)
LEMMA InductionOnSet ==
  ASSUME NEW S, 0 \in S, \A n \in Nat : n \in S => n + 1 \in S
  PROVE  Nat \subseteq S
<1> DEFINE T == Nat \ S
<1>1. SUFFICES ASSUME T # {} PROVE FALSE
  OBVIOUS
<1>2. PICK m \in T : \A n \in T : m <= n
  <2>1. T \subseteq Nat
    OBVIOUS
  <2> HIDE DEF T
  <2>2. QED
    BY <1>1, <2>1, LeastNumber
<1>3. m # 0 /\ m - 1 \in Nat /\ m - 1 + 1 = m
  OBVIOUS
<1>4. m - 1 \notin T
  BY <1>2, <1>3
<1>5. QED
  BY <1>3, <1>4

-----------------------------------------------------------------------------
(* Division, for provers that do not see it through.                       *)
LEMMA DivBounds ==
  ASSUME NEW a \in Nat, NEW v \in Nat, v >= 1
  PROVE  /\ a \div v \in Nat
         /\ (a \div v) * v <= a
         /\ a < (a \div v + 1) * v
OBVIOUS

LEMMA DivUnique ==
  ASSUME NEW a \in Nat, NEW v \in Nat, v >= 1, NEW q \in Nat,
         q * v <= a, a < (q + 1) * v
  PROVE  a \div v = q
OBVIOUS

LEMMA Halves ==
  ASSUME NEW q \in Nat
  PROVE  /\ q \div 2 \in Nat
         /\ q = 2 * (q \div 2) \/ q = 2 * (q \div 2) + 1
OBVIOUS

(* Halving a quotient doubles its divisor: what an index shifted once more *)
(* is.                                                                     *)
LEMMA HalfOfQuotient ==
  ASSUME NEW a \in Nat, NEW v \in Nat, v >= 1
  PROVE  (a \div v) \div 2 = a \div (2 * v)
<1> DEFINE q == a \div v
           h == q \div 2
<1>1. q \in Nat /\ q * v <= a /\ a < (q + 1) * v
  BY DivBounds
<1> HIDE DEF q
<1>2. h \in Nat /\ (q = 2 * h \/ q = 2 * h + 1)
  BY <1>1, Halves
<1> HIDE DEF h
<1>3. (2 * h) * v <= q * v /\ (q + 1) * v <= (2 * h + 2) * v
  <2>1. CASE q = 2 * h
    BY <1>2, <2>1
  <2>2. CASE q = 2 * h + 1
    BY <1>2, <2>2
  <2>3. QED
    BY <1>2, <2>1, <2>2
<1>4. (2 * h) * v = h * (2 * v) /\ (2 * h + 2) * v = (h + 1) * (2 * v)
  BY <1>2
<1>5. /\ 2 * v \in Nat /\ 2 * v >= 1
      /\ h * (2 * v) \in Nat /\ (h + 1) * (2 * v) \in Nat
      /\ q * v \in Nat /\ (q + 1) * v \in Nat
  BY <1>1, <1>2
<1>6. h * (2 * v) <= a /\ a < (h + 1) * (2 * v)
  BY <1>1, <1>3, <1>4, <1>5
<1>7. a \div (2 * v) = h
  BY <1>2, <1>5, <1>6, DivUnique
<1>8. QED
  BY <1>7 DEF q, h

LEMMA ModFacts ==
  ASSUME NEW a \in Nat, NEW v \in Nat, v >= 1
  PROVE  /\ a % v \in Nat /\ a % v < v
         /\ a = (a \div v) * v + (a % v)
OBVIOUS

LEMMA ModUnique ==
  ASSUME NEW v \in Nat, v >= 1, NEW q \in Nat, NEW r \in Nat, r < v
  PROVE  (q * v + r) % v = r
<1> DEFINE a == q * v + r
<1>1. a \in Nat /\ q * v <= a /\ a < (q + 1) * v
  <2>1. q * v \in Nat /\ (q + 1) * v = q * v + v
    OBVIOUS
  <2>2. QED
    BY <2>1
<1> HIDE DEF a
<1>2. a \div v = q
  BY <1>1, DivUnique
<1>3. a = (a \div v) * v + (a % v) /\ a % v \in Nat
  BY <1>1, ModFacts
<1>4. a = q * v + (a % v)
  BY <1>2, <1>3
<1>5. q * v \in Nat
  OBVIOUS
<1>6. a % v = r
  BY <1>3, <1>4, <1>5 DEF a
<1>7. QED
  BY <1>6 DEF a

(* The remainder by an even number has the same last bit, and half of it   *)
(* is the remainder of the half.                                           *)
LEMMA HalfOfRemainder ==
  ASSUME NEW q \in Nat, NEW u \in Nat, u >= 1
  PROVE  /\ (q % (2 * u)) \div 2 = (q \div 2) % u
         /\ (q % (2 * u)) % 2 = q % 2
<1> DEFINE t == q \div (2 * u)
           x == q % (2 * u)
           h == x \div 2
           p == t * u
<1>1. 2 * u \in Nat /\ 2 * u >= 1
  OBVIOUS
<1>2. t \in Nat /\ x \in Nat /\ x < 2 * u /\ q = t * (2 * u) + x
  BY <1>1, ModFacts, DivBounds
<1> HIDE DEF t, x
<1>3. p \in Nat /\ t * (2 * u) = 2 * p
  BY <1>2
<1>4. h \in Nat /\ h < u /\ (x = 2 * h \/ x = 2 * h + 1)
  BY <1>2
<1> HIDE DEF h
<1>5. q = 2 * (p + h) \/ q = 2 * (p + h) + 1
  <2> HIDE DEF p
  <2>1. QED
    BY <1>2, <1>3, <1>4
<1>6. q \div 2 = p + h /\ q % 2 = x % 2
  <2> HIDE DEF p
  <2>1. p + h \in Nat
    BY <1>3, <1>4
  <2>2. q = 2 * p + x
    BY <1>2, <1>3
  <2>3. QED
    BY <1>2, <1>3, <1>4, <1>5, <2>1, <2>2
<1>7. (p + h) % u = h
  BY <1>2, <1>4, ModUnique
<1>8. QED
  BY <1>6, <1>7 DEF x, h

-----------------------------------------------------------------------------
(* The arithmetic of the heap.                                             *)
LEMMA WidthFacts ==
  /\ NumLeaves \in Nat /\ NumLeaves >= 2
  /\ NumLeaves = 2 * Width(Height - 2)
  /\ NumLeaves = Width(Height - 1)
  /\ Width(0) = 1
  /\ \A d \in 0 .. (Height - 1) : Width(d) \in Nat /\ Width(d) >= 1
  /\ \A d \in 1 .. (Height - 1) : Width(d) = 2 * Width(d - 1)
<1>1. \A d \in 1 .. (Height - 1) : Width(d) = 2 * Width(d - 1)
  <2> SUFFICES ASSUME NEW d \in 1 .. (Height - 1)
               PROVE  Width(d) = 2 * Width(d - 1)
    OBVIOUS
  <2>1. d - 1 \in 0 .. (Height - 2) /\ (d - 1) + 1 = d
    BY HeightAssumption
  <2>2. Width((d - 1) + 1) = 2 * Width(d - 1)
    BY <2>1, WidthAssumption
  <2>3. QED
    BY <2>1, <2>2
<1>2. /\ Height - 1 \in 1 .. (Height - 1) /\ (Height - 1) - 1 = Height - 2
      /\ Height - 2 \in 0 .. (Height - 1)
  BY HeightAssumption
<1>3. Width(Height - 1) = 2 * Width(Height - 2)
  BY <1>1, <1>2
<1>4. QED
  BY <1>1, <1>2, <1>3, HeightAssumption, WidthAssumption DEF NumLeaves

(* The node above an inner node, and the pair of its children.             *)
LEMMA InnerFacts ==
  ASSUME NEW k \in Inner, k > 0
  PROVE  /\ Parent(k) \in Inner /\ Parent(k) < k /\ 2 * Parent(k) + 1 <= k
         /\ Sibling(k) \in Inner /\ Sibling(k) # k /\ Sibling(k) <= k + 1
         /\ ~IsBottom(Parent(k))
         /\ IsLeftChild(k) => /\ LeftChild(Parent(k)) = k
                              /\ RightChild(Parent(k)) = Sibling(k)
         /\ ~IsLeftChild(k) => /\ LeftChild(Parent(k)) = Sibling(k)
                               /\ RightChild(Parent(k)) = k
<1>1. PICK w \in Nat : w >= 1 /\ NumLeaves = 2 * w
  BY WidthFacts, HeightAssumption
<1>2. k \in Nat /\ k >= 1 /\ k <= 2 * w - 2
  BY <1>1 DEF Inner
<1>3. CASE IsLeftChild(k)
  <2>1. PICK p \in Nat : k = 2 * p + 1
    BY <1>2, <1>3 DEF IsLeftChild
  <2>2. Parent(k) = p
    BY <2>1 DEF Parent
  <2>3. Sibling(k) = k + 1
    BY <1>3 DEF Sibling
  <2>4. QED
    BY <1>1, <1>2, <1>3, <2>1, <2>2, <2>3 DEF Inner, IsBottom, LeftChild, RightChild
<1>4. CASE ~IsLeftChild(k)
  <2>1. PICK p \in Nat : k = 2 * p + 2
    <3>1. k % 2 = 0 /\ k >= 2
      BY <1>2, <1>4 DEF IsLeftChild
    <3>2. k = 2 * ((k - 2) \div 2) + 2 /\ (k - 2) \div 2 \in Nat
      BY <1>2, <3>1
    <3>3. QED
      BY <3>2
  <2>2. Parent(k) = p
    BY <2>1 DEF Parent
  <2>3. Sibling(k) = k - 1
    BY <1>4 DEF Sibling
  <2>4. QED
    BY <1>1, <1>2, <1>4, <2>1, <2>2, <2>3 DEF Inner, IsBottom, LeftChild, RightChild
<1>5. QED
  BY <1>3, <1>4

(* The children of a node above the bottom level.                          *)
LEMMA ChildrenOf ==
  ASSUME NEW k \in Inner, ~IsBottom(k)
  PROVE  /\ LeftChild(k) \in Inner /\ LeftChild(k) > 0 /\ Parent(LeftChild(k)) = k
         /\ RightChild(k) \in Inner /\ RightChild(k) > 0 /\ Parent(RightChild(k)) = k
<1>1. PICK u \in Nat : u >= 1 /\ NumLeaves = 2 * u
  BY WidthFacts, HeightAssumption
<1>2. QED
  BY <1>1 DEF IsBottom, LeftChild, RightChild, Inner, Parent

(* The node above a leaf, and the pair of its leaves.                      *)
LEMMA LeafFacts ==
  ASSUME NEW i \in LeafIndices
  PROVE  LET p == Parent(LastLevel(i)) IN
         /\ p \in Inner /\ IsBottom(p)
         /\ LeafSibling(i) \in LeafIndices /\ LeafSibling(i) # i
         /\ i % 2 = 0 => /\ LeftChild(p) - (NumLeaves - 1) = i
                         /\ RightChild(p) - (NumLeaves - 1) = LeafSibling(i)
         /\ i % 2 # 0 => /\ LeftChild(p) - (NumLeaves - 1) = LeafSibling(i)
                         /\ RightChild(p) - (NumLeaves - 1) = i
<1>1. PICK w \in Nat : w >= 1 /\ NumLeaves = 2 * w
  BY WidthFacts, HeightAssumption
<1>2. i \in Nat /\ i <= 2 * w - 1
  BY <1>1 DEF LeafIndices
<1>3. QED
  BY <1>1, <1>2
     DEF LeafIndices, Inner, Parent, LastLevel, LeafSibling, IsBottom, LeftChild,
         RightChild

(* The leaves of a bottom node that is not above leaf i are others.        *)
LEMMA OtherLeaves ==
  ASSUME NEW i \in LeafIndices, NEW k \in Inner, IsBottom(k),
         k # Parent(LastLevel(i))
  PROVE  /\ LeftChild(k) - (NumLeaves - 1) \in LeafIndices \ {i}
         /\ RightChild(k) - (NumLeaves - 1) \in LeafIndices \ {i}
<1>1. PICK w \in Nat : w >= 1 /\ NumLeaves = 2 * w
  BY WidthFacts, HeightAssumption
<1>2. k \in Nat /\ k >= w - 1 /\ k <= 2 * w - 2
  BY <1>1 DEF IsBottom, LeftChild, Inner
<1>3. i \in Nat /\ i <= 2 * w - 1
  BY <1>1 DEF LeafIndices
<1>4. k # (i + 2 * w - 1 - 1) \div 2
  BY <1>1, <1>3 DEF Parent, LastLevel
<1>5. 2 * k + 1 - (2 * w - 1) # i /\ 2 * k + 2 - (2 * w - 1) # i
  BY <1>1, <1>2, <1>3, <1>4
<1>6. QED
  BY <1>1, <1>2, <1>5 DEF LeftChild, RightChild, LeafIndices

(* Going up from a level leads to the level above.                         *)
LEMMA LevelUp ==
  ASSUME NEW d \in 1 .. (Height - 1), NEW k \in LevelNodes(d)
  PROVE  k > 0 /\ Parent(k) \in LevelNodes(d - 1)
<1>1. PICK w \in Nat : w >= 1 /\ Width(d - 1) = w /\ Width(d) = 2 * w
  BY WidthFacts, HeightAssumption
<1>2. k \in (2 * w - 1) .. (4 * w - 2)
  BY <1>1 DEF LevelNodes
<1>3. (k - 1) \div 2 \in (w - 1) .. (2 * w - 2)
  BY <1>1, <1>2
<1>4. QED
  BY <1>1, <1>2, <1>3 DEF LevelNodes, Parent

(* Only the root is on the level of width one.                             *)
LEMMA LevelRoot ==
  ASSUME NEW d \in 0 .. (Height - 1), NEW k \in LevelNodes(d)
  PROVE  IsRoot(k) <=> d = 0
<1>1. CASE d = 0
  BY <1>1, WidthFacts DEF LevelNodes, IsRoot
<1>2. CASE d # 0
  BY <1>2, LevelUp, HeightAssumption DEF IsRoot
<1>3. QED
  BY <1>1, <1>2

(* A node's digest depends on its own children only.                       *)
LEMMA NodeHashInner ==
  ASSUME NEW leaves, NEW f, NEW g, NEW k \in Inner,
         ~IsBottom(k) => /\ f[LeftChild(k)] = g[LeftChild(k)]
                         /\ f[RightChild(k)] = g[RightChild(k)]
  PROVE  NodeHash(leaves, f, k) = NodeHash(leaves, g, k)
BY DEF NodeHash

-----------------------------------------------------------------------------
(* The node over leaf i at a depth.                                        *)
OverLeaf(i, depth) == Width(depth) - 1 + (i \div Width(Height - 1 - depth))

(* The nodes above a leaf, from the leaf up.                               *)
LEMMA OverLeafFacts ==
  ASSUME NEW i \in LeafIndices
  PROVE  /\ OverLeaf(i, Height - 1) = LastLevel(i)
         /\ \A d \in 1 .. (Height - 1) :
              /\ Parent(OverLeaf(i, d)) = OverLeaf(i, d - 1)
              /\ OverLeaf(i, d - 1) \in OnPath(i)
<1>1. OverLeaf(i, Height - 1) = LastLevel(i)
  <2>1. Height - 1 - (Height - 1) = 0 /\ i \in Nat /\ i \div 1 = i
    BY HeightAssumption, WidthFacts DEF LeafIndices
  <2>2. QED
    BY <2>1, WidthFacts DEF OverLeaf, LastLevel
<1>2. ASSUME NEW d \in 1 .. (Height - 1)
      PROVE  /\ Parent(OverLeaf(i, d)) = OverLeaf(i, d - 1)
             /\ OverLeaf(i, d - 1) \in OnPath(i)
  <2>1. PICK w \in Nat : w >= 1 /\ Width(d - 1) = w /\ Width(d) = 2 * w
    BY WidthFacts, HeightAssumption
  <2>2. PICK v \in Nat : v >= 1 /\ Width(Height - 1 - d) = v
    BY WidthFacts, HeightAssumption
  <2>3. Width(Height - 1 - (d - 1)) = 2 * v
    <3>1. /\ Height - 1 - (d - 1) \in 1 .. (Height - 1)
          /\ Height - 1 - (d - 1) - 1 = Height - 1 - d
      BY HeightAssumption
    <3>2. QED
      BY <2>2, <3>1, WidthFacts
  <2>4. i \in Nat
    BY WidthFacts DEF LeafIndices
  <2> DEFINE q == i \div v
  <2>5. q \in Nat /\ q \div 2 = i \div (2 * v)
    BY <2>2, <2>4, DivBounds, HalfOfQuotient
  <2>6. OverLeaf(i, d) = 2 * w - 1 + q /\ OverLeaf(i, d - 1) = w - 1 + (i \div (2 * v))
    BY <2>1, <2>2, <2>3 DEF OverLeaf
  <2> HIDE DEF q
  <2>7. Parent(OverLeaf(i, d)) = OverLeaf(i, d - 1)
    <3>1. (2 * w - 1 + q - 1) \div 2 = w - 1 + (q \div 2)
      BY <2>1, <2>5
    <3>2. QED
      BY <2>5, <2>6, <3>1 DEF Parent
  <2>8. d - 1 \in 0 .. (Height - 2)
    BY HeightAssumption
  <2>9. QED
    BY <2>7, <2>8 DEF OverLeaf, OnPath
<1>3. QED
  BY <1>1, <1>2

-----------------------------------------------------------------------------
(* The reference Digests is a recursive function: from the last node to    *)
(* the root it exists and is unique.  d is a tree over ls as far as the    *)
(* nodes in S go.                                                          *)
IsTree(ls, S, d) ==
  d = [k \in S |-> IF IsBottom(k) THEN NodeHash(ls, <<>>, k)
                   ELSE Compress(d[LeftChild(k)], d[RightChild(k)])]

LastNodes(n) == {k \in Inner : k + n >= NumLeaves - 1}

LEMMA LastNodesFacts ==
  /\ LastNodes(0) = {}
  /\ LastNodes(NumLeaves - 1) = Inner
  /\ \A n \in Nat : LastNodes(n) \subseteq LastNodes(n + 1)
BY WidthFacts DEF LastNodes, Inner

(* The children of a node come after it.                                   *)
LEMMA ChildrenLater ==
  ASSUME NEW n \in Nat, NEW k \in LastNodes(n + 1), ~IsBottom(k)
  PROVE  LeftChild(k) \in LastNodes(n) /\ RightChild(k) \in LastNodes(n)
<1>1. PICK u \in Nat : u >= 1 /\ NumLeaves = 2 * u
  BY WidthFacts, HeightAssumption
<1>2. QED
  BY <1>1 DEF LastNodes, IsBottom, LeftChild, RightChild, Inner

LEMMA TreeExists ==
  ASSUME NEW ls
  PROVE  \E d : IsTree(ls, Inner, d)
<1> DEFINE S == {n \in Nat : \E d : IsTree(ls, LastNodes(n), d)}
<1>1. 0 \in S
  <2>1. IsTree(ls, {}, [k \in {} |-> 0])
    BY DEF IsTree
  <2>2. QED
    BY <2>1, LastNodesFacts
<1>2. ASSUME NEW n \in Nat, n \in S PROVE n + 1 \in S
  <2>1. PICK d : IsTree(ls, LastNodes(n), d)
    BY <1>2
  <2> DEFINE e == [k \in LastNodes(n + 1) |->
                     IF IsBottom(k) THEN NodeHash(ls, <<>>, k)
                     ELSE Compress(d[LeftChild(k)], d[RightChild(k)])]
  <2>2. \A k \in LastNodes(n) : e[k] = d[k]
    BY <2>1, LastNodesFacts DEF IsTree
  <2>3. IsTree(ls, LastNodes(n + 1), e)
    <3> HIDE DEF e
    <3>1. \A k \in LastNodes(n + 1) : ~IsBottom(k) =>
            /\ e[LeftChild(k)] = d[LeftChild(k)]
            /\ e[RightChild(k)] = d[RightChild(k)]
      BY <2>2, ChildrenLater
    <3>2. QED
      BY <3>1 DEF IsTree, e
  <2>4. QED
    BY <2>3
<1>3. NumLeaves - 1 \in S
  <2> HIDE DEF S
  <2>1. Nat \subseteq S
    BY <1>1, <1>2, InductionOnSet
  <2>2. QED
    BY <2>1, WidthFacts
<1>4. QED
  BY <1>3, LastNodesFacts

LEMMA DigestsIsTree ==
  ASSUME NEW ls
  PROVE  IsTree(ls, Inner, Digests(ls))
BY TreeExists DEF IsTree, Digests

LEMMA DigestsUnique ==
  ASSUME NEW ls, NEW d, IsTree(ls, Inner, d)
  PROVE  d = Digests(ls)
<1> DEFINE D == Digests(ls)
           S == {n \in Nat : \A k \in LastNodes(n) : d[k] = D[k]}
<1>1. IsTree(ls, Inner, D)
  BY DigestsIsTree
<1> HIDE DEF D
<1>2. 0 \in S
  BY LastNodesFacts
<1>3. ASSUME NEW n \in Nat, n \in S PROVE n + 1 \in S
  <2> SUFFICES ASSUME NEW k \in LastNodes(n + 1) PROVE d[k] = D[k]
    OBVIOUS
  <2>1. k \in Inner
    BY DEF LastNodes
  <2>2. CASE IsBottom(k)
    BY <1>1, <2>1, <2>2 DEF IsTree
  <2>3. CASE ~IsBottom(k)
    <3>1. /\ d[LeftChild(k)] = D[LeftChild(k)]
          /\ d[RightChild(k)] = D[RightChild(k)]
      BY <1>3, <2>3, ChildrenLater
    <3>2. QED
      BY <1>1, <2>1, <2>3, <3>1 DEF IsTree
  <2>4. QED
    BY <2>2, <2>3
<1>4. NumLeaves - 1 \in S
  <2> HIDE DEF S
  <2>1. Nat \subseteq S
    BY <1>2, <1>3, InductionOnSet
  <2>2. QED
    BY <2>1, WidthFacts
<1>5. \A k \in Inner : d[k] = D[k]
  BY <1>4, LastNodesFacts
<1>6. QED
  BY <1>1, <1>5 DEF IsTree, D

(* A vector of inner digests in which every node is the hash of its        *)
(* children is the reference.                                              *)
LEMMA AgreeingIsDigests ==
  ASSUME NEW ls, NEW d, d = [k \in Inner |-> d[k]],
         \A k \in Inner : d[k] = NodeHash(ls, d, k)
  PROVE  d = Digests(ls)
<1>1. IsTree(ls, Inner, d)
  BY DEF IsTree, NodeHash
<1>2. QED
  BY <1>1, DigestsUnique

(* What each node of the reference is made of.                             *)
LEMMA DigestsAgree ==
  ASSUME NEW ls, NEW k \in Inner
  PROVE  Digests(ls)[k] = NodeHash(ls, Digests(ls), k)
BY DigestsIsTree DEF IsTree, NodeHash

-----------------------------------------------------------------------------
(* The levels: each is at least twice as wide as any above it.             *)
LEMMA WidthGrows ==
  ASSUME NEW d \in 0 .. (Height - 1), NEW e \in 0 .. (Height - 1), d < e
  PROVE  2 * Width(d) <= Width(e)
<1> DEFINE S == {n \in Nat : d + 1 + n <= Height - 1 => 2 * Width(d) <= Width(d + 1 + n)}
<1>1. d \in Nat /\ d <= Height - 1 /\ Height \in Nat
  BY HeightAssumption
<1>2. 0 \in S
  <2>1. d + 1 + 0 <= Height - 1 =>
          d + 1 + 0 \in 1 .. (Height - 1) /\ d + 1 + 0 - 1 = d
    BY <1>1
  <2>2. d + 1 + 0 <= Height - 1 =>
          Width(d + 1 + 0) = 2 * Width(d) /\ Width(d) \in Nat
    BY <2>1, WidthFacts
  <2>3. QED
    BY <2>2
<1>3. ASSUME NEW n \in Nat, n \in S PROVE n + 1 \in S
  <2> SUFFICES ASSUME d + 1 + (n + 1) <= Height - 1
               PROVE  2 * Width(d) <= Width(d + 1 + (n + 1))
    OBVIOUS
  <2>1. /\ d + 1 + (n + 1) \in 1 .. (Height - 1)
        /\ d + 1 + (n + 1) - 1 = d + 1 + n
        /\ d + 1 + n \in 0 .. (Height - 1)
    BY <1>1
  <2>2. /\ Width(d + 1 + (n + 1)) = 2 * Width(d + 1 + n)
        /\ Width(d) \in Nat /\ Width(d + 1 + n) \in Nat
    BY <2>1, WidthFacts
  <2>3. 2 * Width(d) <= Width(d + 1 + n)
    BY <1>1, <1>3, <2>1
  <2>4. QED
    BY <2>2, <2>3
<1>4. e - d - 1 \in Nat /\ d + 1 + (e - d - 1) = e
  BY <1>1
<1>5. e - d - 1 \in S
  <2> HIDE DEF S
  <2>1. QED
    BY <1>2, <1>3, <1>4, InductionOnSet
<1>6. QED
  BY <1>1, <1>4, <1>5

LEMMA LevelsApart ==
  ASSUME NEW d \in 0 .. (Height - 1), NEW e \in 0 .. (Height - 1),
         NEW k \in LevelNodes(d), k \in LevelNodes(e)
  PROVE  d = e
<1>1. Width(d) \in Nat /\ Width(e) \in Nat /\ d \in Nat /\ e \in Nat
  BY WidthFacts, HeightAssumption
<1>2. ~ (d < e) /\ ~ (e < d)
  BY <1>1, WidthGrows DEF LevelNodes
<1>3. QED
  BY <1>1, <1>2

LEMMA LevelInner ==
  ASSUME NEW d \in 0 .. (Height - 2), NEW k \in LevelNodes(d)
  PROVE  k \in Inner
<1>1. /\ d \in 0 .. (Height - 1) /\ d < Height - 1
      /\ Height - 1 \in 0 .. (Height - 1)
  BY HeightAssumption
<1>2. 2 * Width(d) <= NumLeaves /\ Width(d) \in Nat /\ Width(d) >= 1
  BY <1>1, WidthFacts, WidthGrows
<1>3. QED
  BY <1>2, WidthFacts DEF LevelNodes, Inner

(* The nodes over a leaf: one per level, on the side of the parent that    *)
(* the bits of the index say.                                              *)
LEMMA OverLeafLevel ==
  ASSUME NEW i \in LeafIndices, NEW d \in 0 .. (Height - 1)
  PROVE  OverLeaf(i, d) \in LevelNodes(d)
<1> DEFINE S == {n \in Nat : n <= Height - 1 =>
                   OverLeaf(i, Height - 1 - n) \in LevelNodes(Height - 1 - n)}
<1>1. 0 \in S
  <2>1. LastLevel(i) \in LevelNodes(Height - 1)
    BY WidthFacts DEF LastLevel, LevelNodes, LeafIndices
  <2>2. Height - 1 - 0 = Height - 1
    BY HeightAssumption
  <2>3. QED
    BY <2>1, <2>2, OverLeafFacts
<1>2. ASSUME NEW n \in Nat, n \in S PROVE n + 1 \in S
  <2> SUFFICES ASSUME n + 1 <= Height - 1
               PROVE  OverLeaf(i, Height - 1 - (n + 1)) \in LevelNodes(Height - 1 - (n + 1))
    OBVIOUS
  <2>1. /\ Height - 1 - n \in 1 .. (Height - 1) /\ n <= Height - 1
        /\ Height - 1 - (n + 1) = Height - 1 - n - 1
    BY HeightAssumption
  <2>2. OverLeaf(i, Height - 1 - n) \in LevelNodes(Height - 1 - n)
    BY <1>2, <2>1
  <2>3. QED
    BY <2>1, <2>2, LevelUp, OverLeafFacts
<1>3. Height - 1 - d \in Nat /\ Height - 1 - (Height - 1 - d) = d
      /\ Height - 1 - d <= Height - 1
  BY HeightAssumption
<1>4. Height - 1 - d \in S
  <2> HIDE DEF S
  <2>1. QED
    BY <1>1, <1>2, <1>3, InductionOnSet
<1>5. QED
  BY <1>3, <1>4

LEMMA OverLeafSides ==
  ASSUME NEW i \in LeafIndices, NEW d \in 1 .. (Height - 2)
  PROVE  /\ OverLeaf(i, d) \in Inner /\ OverLeaf(i, d) > 0
         /\ IsLeftChild(OverLeaf(i, d)) <=> (i \div Width(Height - 1 - d)) % 2 = 0
         /\ Sibling(OverLeaf(i, d)) \in Inner \ OnPath(i)
         /\ Parent(OverLeaf(i, d)) = OverLeaf(i, d - 1)
<1> DEFINE k == OverLeaf(i, d)
<1>1. /\ d \in 1 .. (Height - 1) /\ d \in 0 .. (Height - 2) /\ d \in 0 .. (Height - 1)
      /\ Height - 1 - d \in 0 .. (Height - 1) /\ d - 1 \in 0 .. (Height - 1)
  BY HeightAssumption
<1>2. k \in LevelNodes(d)
  BY <1>1, OverLeafLevel
<1>3. k \in Inner /\ k > 0 /\ Parent(k) = OverLeaf(i, d - 1)
  BY <1>1, <1>2, LevelUp, LevelInner, OverLeafFacts
<1>4. PICK w \in Nat : w >= 1 /\ Width(d - 1) = w /\ Width(d) = 2 * w
  BY <1>1, WidthFacts, HeightAssumption
<1>5. PICK v \in Nat : v >= 1 /\ Width(Height - 1 - d) = v
  BY <1>1, WidthFacts
<1>6. i \in Nat
  BY WidthFacts DEF LeafIndices
<1>7. IsLeftChild(k) <=> (i \div Width(Height - 1 - d)) % 2 = 0
  <2> DEFINE q == i \div v
  <2>1. q \in Nat
    BY <1>5, <1>6, DivBounds
  <2>2. k = 2 * w - 1 + q
    BY <1>4, <1>5 DEF OverLeaf
  <2> HIDE DEF q
  <2>3. (2 * w - 1 + q) % 2 = 1 <=> q % 2 = 0
    BY <1>4, <2>1
  <2>4. QED
    BY <1>5, <2>2, <2>3 DEF IsLeftChild, q
<1> HIDE DEF k
<1>8. Sibling(k) \in Inner /\ Sibling(k) # k
  BY <1>3, InnerFacts
<1>9. Sibling(k) \in LevelNodes(d)
  <2>1. k \in (2 * w - 1) .. (4 * w - 2)
    BY <1>2, <1>4 DEF LevelNodes
  <2>2. (k % 2 = 1 => k + 1 \in (2 * w - 1) .. (4 * w - 2))
        /\ (k % 2 # 1 => k - 1 \in (2 * w - 1) .. (4 * w - 2))
    BY <1>4, <2>1
  <2>3. QED
    BY <1>4, <2>2 DEF LevelNodes, Sibling, IsLeftChild
<1>10. ASSUME Sibling(k) \in OnPath(i) PROVE FALSE
  <2>1. PICK e \in 0 .. (Height - 2) : Sibling(k) = OverLeaf(i, e)
    BY <1>10 DEF OnPath, OverLeaf
  <2>2. e \in 0 .. (Height - 1)
    BY <2>1, HeightAssumption
  <2>3. e = d
    BY <1>1, <1>9, <2>1, <2>2, OverLeafLevel, LevelsApart
  <2>4. QED
    BY <1>8, <2>1, <2>3 DEF k
<1>11. QED
  BY <1>3, <1>7, <1>8, <1>10 DEF k

LEMMA OverLeafEnds ==
  ASSUME NEW i \in LeafIndices
  PROVE  /\ OverLeaf(i, 0) = 0
         /\ OverLeaf(i, Height - 2) = Parent(LastLevel(i))
<1>1. /\ 0 \in 0 .. (Height - 1) /\ Height - 1 \in 1 .. (Height - 1)
      /\ Height - 1 - 1 = Height - 2
  BY HeightAssumption
<1>2. OverLeaf(i, 0) \in LevelNodes(0)
  BY <1>1, OverLeafLevel
<1>3. OverLeaf(i, 0) = 0
  BY <1>1, <1>2, LevelRoot DEF IsRoot
<1>4. QED
  BY <1>1, <1>3, OverLeafFacts

(* Another digest for leaf i changes no digest that is not over it.        *)
LEMMA DigestsOffPath ==
  ASSUME NEW ls, DOMAIN ls = LeafIndices, NEW i \in LeafIndices, NEW h,
         NEW k \in Inner \ OnPath(i)
  PROVE  Digests([ls EXCEPT ![i] = h])[k] = Digests(ls)[k]
<1> DEFINE D == Digests(ls)
           E == Digests([ls EXCEPT ![i] = h])
           up == [ls EXCEPT ![i] = h]
           S == {n \in Nat : \A m \in LastNodes(n) \ OnPath(i) : E[m] = D[m]}
<1>1. 0 \in S
  BY LastNodesFacts
<1>2. \A j \in LeafIndices \ {i} : up[j] = ls[j]
  OBVIOUS
<1>3. \A m \in Inner : /\ E[m] = NodeHash(up, E, m) /\ D[m] = NodeHash(ls, D, m)
  BY DigestsAgree
<1> HIDE DEF D, E, up
<1>4. ASSUME NEW n \in Nat, n \in S PROVE n + 1 \in S
  <2> SUFFICES ASSUME NEW m \in LastNodes(n + 1), m \notin OnPath(i)
               PROVE  E[m] = D[m]
    OBVIOUS
  <2>1. m \in Inner
    BY DEF LastNodes
  <2>2. CASE IsBottom(m)
    <3>1. Parent(LastLevel(i)) \in OnPath(i)
      <4>1. Height - 2 \in 0 .. (Height - 2)
        BY HeightAssumption
      <4>2. OverLeaf(i, Height - 2) \in OnPath(i)
        BY <4>1 DEF OnPath, OverLeaf
      <4>3. QED
        BY <4>2, OverLeafEnds
    <3>2. m # Parent(LastLevel(i))
      BY <3>1
    <3>3. QED
      BY <1>2, <1>3, <2>1, <2>2, <3>2, OtherLeaves DEF NodeHash
  <2>3. CASE ~IsBottom(m)
    <3>1. ASSUME NEW c \in Inner, c > 0, Parent(c) = m PROVE c \notin OnPath(i)
      <4> SUFFICES ASSUME c \in OnPath(i) PROVE FALSE
        OBVIOUS
      <4>1. PICK d \in 0 .. (Height - 2) : c = OverLeaf(i, d)
        BY DEF OnPath, OverLeaf
      <4>2. d # 0
        BY <3>1, <4>1, OverLeafEnds
      <4>3. d \in 1 .. (Height - 1)
        BY <4>1, <4>2, HeightAssumption
      <4>4. QED
        BY <3>1, <4>1, <4>3, OverLeafFacts
    <3>2. /\ LeftChild(m) \in Inner /\ LeftChild(m) > 0 /\ Parent(LeftChild(m)) = m
          /\ RightChild(m) \in Inner /\ RightChild(m) > 0 /\ Parent(RightChild(m)) = m
      BY <2>1, <2>3, ChildrenOf
    <3>3. /\ E[LeftChild(m)] = D[LeftChild(m)]
          /\ E[RightChild(m)] = D[RightChild(m)]
      BY <1>4, <2>3, <3>1, <3>2, ChildrenLater
    <3>4. QED
      BY <1>3, <2>1, <2>3, <3>3 DEF NodeHash
  <2>4. QED
    BY <2>2, <2>3
<1>5. NumLeaves - 1 \in S
  <2> HIDE DEF S
  <2>1. QED
    BY <1>1, <1>4, InductionOnSet, WidthFacts
<1>6. QED
  BY <1>5, LastNodesFacts DEF D, E

-----------------------------------------------------------------------------
(* Hashes without collisions, and the conversion of leaf digests.          *)
NoCollisions ==
  /\ \A a, b : Convert(a) = Convert(b) => a = b
  /\ \A a, b, c, d : Evaluate(a, b) = Evaluate(c, d) => a = c /\ b = d
  /\ \A a, b, c, d : Compress(a, b) = Compress(c, d) => a = c /\ b = d

LEMMA CompressBinds ==
  ASSUME NoCollisions, NEW a, NEW b, NEW c, NEW d, Compress(a, b) = Compress(c, d)
  PROVE  a = c /\ b = d
BY DEF NoCollisions

LEMMA EvaluateBinds ==
  ASSUME NoCollisions, NEW a, NEW b, NEW c, NEW d,
         Evaluate(Convert(a), Convert(b)) = Evaluate(Convert(c), Convert(d))
  PROVE  a = c /\ b = d
<1>1. Convert(a) = Convert(c) /\ Convert(b) = Convert(d)
  BY DEF NoCollisions
<1>2. QED
  BY <1>1 DEF NoCollisions

(* Then a root has only one vector of leaf digests under it.               *)
LEMMA RootBinds ==
  ASSUME NoCollisions, NEW a, NEW b, Digests(a)[0] = Digests(b)[0]
  PROVE  \A i \in LeafIndices : a[i] = b[i]
<1> DEFINE D == Digests(a)
           E == Digests(b)
           S == {n \in Nat : \A k \in Inner : k <= n => D[k] = E[k]}
<1>1. \A m \in Inner : D[m] = NodeHash(a, D, m) /\ E[m] = NodeHash(b, E, m)
  BY DigestsAgree
<1>2. 0 \in S
  BY WidthFacts DEF Inner
<1> HIDE DEF D, E
<1>3. ASSUME NEW n \in Nat, n \in S PROVE n + 1 \in S
  <2> SUFFICES ASSUME NEW k \in Inner, k = n + 1 PROVE D[k] = E[k]
    BY <1>3, WidthFacts DEF Inner
  <2>1. k > 0
    OBVIOUS
  <2>2. Parent(k) \in Inner /\ Parent(k) < k /\ ~IsBottom(Parent(k))
        /\ (k = LeftChild(Parent(k)) \/ k = RightChild(Parent(k)))
    BY <2>1, InnerFacts
  <2>3. D[Parent(k)] = E[Parent(k)]
    BY <1>3, <2>2, WidthFacts DEF Inner
  <2>4. /\ D[LeftChild(Parent(k))] = E[LeftChild(Parent(k))]
        /\ D[RightChild(Parent(k))] = E[RightChild(Parent(k))]
    <3>1. Compress(D[LeftChild(Parent(k))], D[RightChild(Parent(k))])
            = Compress(E[LeftChild(Parent(k))], E[RightChild(Parent(k))])
      BY <1>1, <2>2, <2>3 DEF NodeHash
    <3>2. QED
      BY <3>1, CompressBinds
  <2>5. QED
    BY <2>2, <2>4
<1>4. Nat \subseteq S
  <2> HIDE DEF S
  <2>1. QED
    BY <1>2, <1>3, InductionOnSet
<1>5. \A k \in Inner : D[k] = E[k]
  <2>1. \A k \in Inner : k \in Nat /\ k <= k
    BY WidthFacts DEF Inner
  <2>2. QED
    BY <1>4, <2>1
<1>6. ASSUME NEW i \in LeafIndices PROVE a[i] = b[i]
  <2> DEFINE p == Parent(LastLevel(i))
  <2>1. p \in Inner /\ IsBottom(p)
    BY LeafFacts
  <2>2. i = LeftChild(p) - (NumLeaves - 1) \/ i = RightChild(p) - (NumLeaves - 1)
    BY LeafFacts
  <2> HIDE DEF p
  <2>3. Evaluate(Convert(a[LeftChild(p) - (NumLeaves - 1)]),
                 Convert(a[RightChild(p) - (NumLeaves - 1)]))
          = Evaluate(Convert(b[LeftChild(p) - (NumLeaves - 1)]),
                     Convert(b[RightChild(p) - (NumLeaves - 1)]))
    BY <1>1, <1>5, <2>1 DEF NodeHash
  <2>4. /\ a[LeftChild(p) - (NumLeaves - 1)] = b[LeftChild(p) - (NumLeaves - 1)]
        /\ a[RightChild(p) - (NumLeaves - 1)] = b[RightChild(p) - (NumLeaves - 1)]
    BY <2>3, EvaluateBinds
  <2>5. QED
    BY <2>2, <2>4
<1>7. QED
  BY <1>6
=============================================================================
