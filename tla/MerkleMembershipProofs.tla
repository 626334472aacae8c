------------------------ MODULE MerkleMembershipProofs ------------------------
(***************************************************************************)
(* Proofs about membership proofs, native and in a circuit, for every      *)
(* height and every index: what climbing a path computes, and, for hashes  *)
(* without collisions, what an accepted path says about the tree; then the *)
(* same of multi-proofs, for every finite set of indices.                  *)
(***************************************************************************)
EXTENDS MerklePathVar, MerkleHeapProofs, FiniteSetTheorems

(* One level of a climb: the running digest joined with a sibling.         *)
Join(right, sibling, digest) ==
  IF right THEN Compress(sibling, digest) ELSE Compress(digest, sibling)

IsClimb(n, base, right, siblings, c) ==
  c = [k \in 0 .. n |-> IF k = 0 THEN base
                        ELSE Join(right[k], siblings[k], c[k - 1])]

(* Such a climb exists: VerifyPath and CalculateRoot define something.     *)
LEMMA ClimbExists ==
  ASSUME NEW n \in Nat, NEW base, NEW right, NEW siblings
  PROVE  \E c : IsClimb(n, base, right, siblings, c)
<1> DEFINE S == {m \in Nat : \E c : IsClimb(m, base, right, siblings, c)}
<1>1. 0 \in S
  <2>1. IsClimb(0, base, right, siblings, [k \in 0 .. 0 |-> base])
    BY DEF IsClimb
  <2>2. QED
    BY <2>1
<1>2. ASSUME NEW m \in Nat, m \in S PROVE m + 1 \in S
  <2>1. PICK c : IsClimb(m, base, right, siblings, c)
    BY <1>2
  <2> DEFINE e == [k \in 0 .. (m + 1) |->
                     IF k = m + 1 THEN Join(right[k], siblings[k], c[m]) ELSE c[k]]
  <2>2. \A k \in 0 .. m : e[k] = c[k]
    OBVIOUS
  <2>3. e[m + 1] = Join(right[m + 1], siblings[m + 1], e[m + 1 - 1])
    OBVIOUS
  <2>4. e = [k \in 0 .. (m + 1) |-> e[k]]
    OBVIOUS
  <2> HIDE DEF e
  <2>5. ASSUME NEW k \in 0 .. (m + 1)
        PROVE  e[k] = IF k = 0 THEN base ELSE Join(right[k], siblings[k], e[k - 1])
    <3>1. CASE k = m + 1
      BY <2>3, <3>1
    <3>2. CASE k # m + 1
      <4>1. k \in 0 .. m /\ (k # 0 => k - 1 \in 0 .. m)
        BY <3>2
      <4>2. c[k] = IF k = 0 THEN base ELSE Join(right[k], siblings[k], c[k - 1])
        BY <2>1, <4>1 DEF IsClimb
      <4>3. QED
        BY <2>2, <4>1, <4>2
    <3>3. QED
      BY <3>1, <3>2
  <2>6. IsClimb(m + 1, base, right, siblings, e)
    BY <2>4, <2>5 DEF IsClimb
  <2>7. QED
    BY <2>6
<1>3. QED
  <2> HIDE DEF S
  <2>1. n \in S
    BY <1>1, <1>2, InductionOnSet
  <2>2. QED
    BY <2>1 DEF S

(* The digests VerifyPath goes through.                                    *)
LEMMA VerifyPathClimbs ==
  ASSUME NEW proof, NEW leaf, Len(proof.auth_path) \in Nat
  PROVE  \E c :
           /\ c[0] = SelectEvaluate(proof.leaf_index, LeafHash(leaf),
                                    proof.leaf_sibling_hash)
           /\ \A k \in 1 .. Len(proof.auth_path) :
                c[k] = SelectCompress(proof.leaf_index \div 2 ^ k, c[k - 1],
                                      proof.auth_path[Len(proof.auth_path) - k + 1])
           /\ \A root : VerifyPath(proof, root, leaf)
                          <=> c[Len(proof.auth_path)] = root
<1> DEFINE n == Len(proof.auth_path)
           base == SelectEvaluate(proof.leaf_index, LeafHash(leaf),
                                  proof.leaf_sibling_hash)
           right == [k \in 1 .. n |-> ~((proof.leaf_index \div 2 ^ k) % 2 = 0)]
           siblings == [k \in 1 .. n |-> proof.auth_path[n - k + 1]]
           F(c) == [k \in 0 .. n |->
                      IF k = 0 THEN base
                      ELSE SelectCompress(proof.leaf_index \div 2 ^ k, c[k - 1],
                                          proof.auth_path[n - k + 1])]
           node == CHOOSE c : c = F(c)
<1>1. PICK c : IsClimb(n, base, right, siblings, c)
  BY ClimbExists
<1>2. \A k \in 1 .. n : Join(right[k], siblings[k], c[k - 1])
         = SelectCompress(proof.leaf_index \div 2 ^ k, c[k - 1], proof.auth_path[n - k + 1])
  BY DEF Join, SelectCompress
<1>3. c = F(c)
  <2> HIDE DEF right, siblings, base, n
  <2>1. \A k \in 0 .. n : k = 0 \/ k \in 1 .. n
    BY DEF n
  <2>2. QED
    BY <1>1, <1>2, <2>1 DEF IsClimb
<1>4. node = F(node)
  <2> HIDE DEF F
  <2>1. QED
    BY <1>3
<1>5. \A root : VerifyPath(proof, root, leaf) <=> node[n] = root
  BY DEF VerifyPath
<1> HIDE DEF node
<1>6. /\ node[0] = base
      /\ \A k \in 1 .. n : node[k] = SelectCompress(proof.leaf_index \div 2 ^ k,
                                       node[k - 1], proof.auth_path[n - k + 1])
  <2> HIDE DEF base
  <2>1. 0 \in 0 .. n /\ \A k \in 1 .. n : k \in 0 .. n /\ k # 0
    OBVIOUS
  <2>2. QED
    BY <1>4, <2>1
<1>7. QED
  BY <1>5, <1>6

(* The digests CalculateRoot goes through.                                 *)
LEMMA CalculateRootClimbs ==
  ASSUME NEW v, NEW leaf, Len(v.auth_path) \in Nat
  PROVE  \E c :
           /\ c[0] = IF v.leaf_is_right_child
                     THEN Evaluate(Convert(v.leaf_sibling), Convert(LeafHash(leaf)))
                     ELSE Evaluate(Convert(LeafHash(leaf)), Convert(v.leaf_sibling))
           /\ \A k \in 1 .. Len(v.auth_path) :
                c[k] = Join(v.path[Len(v.auth_path) - k + 1],
                            v.auth_path[Len(v.auth_path) - k + 1], c[k - 1])
           /\ CalculateRoot(v, leaf) = c[Len(v.auth_path)]
<1> DEFINE n == Len(v.auth_path)
           base == IF v.leaf_is_right_child
                   THEN Evaluate(Convert(v.leaf_sibling), Convert(LeafHash(leaf)))
                   ELSE Evaluate(Convert(LeafHash(leaf)), Convert(v.leaf_sibling))
           right == [k \in 1 .. n |-> v.path[n - k + 1]]
           siblings == [k \in 1 .. n |-> v.auth_path[n - k + 1]]
           F(c) == [k \in 0 .. n |->
                      IF k = 0 THEN base
                      ELSE IF v.path[n - k + 1]
                           THEN Compress(v.auth_path[n - k + 1], c[k - 1])
                           ELSE Compress(c[k - 1], v.auth_path[n - k + 1])]
           curr == CHOOSE c : c = F(c)
<1>1. PICK c : IsClimb(n, base, right, siblings, c)
  BY ClimbExists
<1>2. \A k \in 1 .. n : Join(right[k], siblings[k], c[k - 1])
         = IF v.path[n - k + 1] THEN Compress(v.auth_path[n - k + 1], c[k - 1])
                                ELSE Compress(c[k - 1], v.auth_path[n - k + 1])
  BY DEF Join
<1>3. c = F(c)
  <2> HIDE DEF right, siblings, base, n
  <2>1. \A k \in 0 .. n : k = 0 \/ k \in 1 .. n
    BY DEF n
  <2>2. QED
    BY <1>1, <1>2, <2>1 DEF IsClimb
<1>4. curr = F(curr)
  <2> HIDE DEF F
  <2>1. QED
    BY <1>3
<1>5. CalculateRoot(v, leaf) = curr[n]
  BY DEF CalculateRoot
<1> HIDE DEF curr
<1>6. /\ curr[0] = base
      /\ \A k \in 1 .. n :
           curr[k] = Join(v.path[n - k + 1], v.auth_path[n - k + 1], curr[k - 1])
  <2> HIDE DEF base
  <2>1. 0 \in 0 .. n /\ \A k \in 1 .. n : k \in 0 .. n /\ k # 0
    OBVIOUS
  <2>2. QED
    BY <1>4, <2>1 DEF Join
<1>7. QED
  BY <1>5, <1>6

(* compute_auth_path collects the siblings of the nodes over the leaf,     *)
(* those nearest the root first.                                           *)
LEMMA AuthPathFacts ==
  ASSUME NEW i \in LeafIndices
  PROVE  /\ Len(AuthPath(i)) = Height - 2
         /\ \A d \in 1 .. (Height - 2) : AuthPath(i)[d] = nodes[Sibling(OverLeaf(i, d))]
<1> DEFINE F(u) == [d \in 0 .. (Height - 2) |->
                      IF d = 0 THEN Parent(LastLevel(i)) ELSE Parent(u[d - 1])]
           up == CHOOSE u : u = F(u)
           over == [d \in 0 .. (Height - 2) |-> OverLeaf(i, Height - 2 - d)]
           S == {d \in Nat : d <= Height - 2 => up[d] = over[d]}
<1>1. over = F(over)
  <2>1. ASSUME NEW d \in 1 .. (Height - 2)
        PROVE  Parent(OverLeaf(i, Height - 2 - (d - 1))) = OverLeaf(i, Height - 2 - d)
    <3>1. /\ Height - 2 - (d - 1) \in 1 .. (Height - 1)
          /\ Height - 2 - (d - 1) - 1 = Height - 2 - d
      BY HeightAssumption
    <3>2. QED
      BY <3>1, OverLeafFacts
  <2>2. Parent(LastLevel(i)) = OverLeaf(i, Height - 2 - 0)
    <3>1. Height - 2 - 0 = Height - 2
      BY HeightAssumption
    <3>2. QED
      BY <3>1, OverLeafEnds
  <2>3. \A d \in 0 .. (Height - 2) :
          d = 0 \/ (d \in 1 .. (Height - 2) /\ d - 1 \in 0 .. (Height - 2))
    BY HeightAssumption
  <2>4. QED
    BY <2>1, <2>2, <2>3
<1>2. up = F(up)
  <2> HIDE DEF F
  <2>1. QED
    BY <1>1
<1>3. AuthPath(i) = Reverse([d \in 1 .. (Height - 2) |-> nodes[Sibling(up[d - 1])]])
  BY DEF AuthPath
<1> HIDE DEF up
<1>4. 0 \in S
  <2> HIDE DEF over
  <2>1. 0 \in 0 .. (Height - 2)
    BY HeightAssumption
  <2>2. up[0] = Parent(LastLevel(i))
    <3> HIDE DEF up
    <3>1. F(up)[0] = Parent(LastLevel(i))
      BY <2>1
    <3> HIDE DEF F
    <3>2. QED
      BY <1>2, <3>1
  <2>3. over[0] = Parent(LastLevel(i))
    <3>1. F(over)[0] = Parent(LastLevel(i))
      BY <2>1
    <3> HIDE DEF F
    <3>2. QED
      BY <1>1, <3>1
  <2>4. QED
    BY <2>2, <2>3
<1>5. ASSUME NEW d \in Nat, d \in S PROVE d + 1 \in S
  <2> SUFFICES ASSUME d + 1 <= Height - 2 PROVE up[d + 1] = over[d + 1]
    OBVIOUS
  <2>1. d + 1 \in 0 .. (Height - 2) /\ d + 1 # 0 /\ d + 1 - 1 = d /\ up[d] = over[d]
    BY <1>5, HeightAssumption
  <2> HIDE DEF over
  <2>2. F(up)[d + 1] = Parent(up[d]) /\ F(over)[d + 1] = Parent(over[d])
    BY <2>1
  <2> HIDE DEF F
  <2>3. QED
    BY <1>1, <1>2, <2>1, <2>2
<1>6. \A d \in 0 .. (Height - 2) : up[d] = OverLeaf(i, Height - 2 - d)
  <2>1. ASSUME NEW d \in 0 .. (Height - 2) PROVE d \in S
    <3> HIDE DEF S
    <3>1. Nat \subseteq S
      BY <1>4, <1>5, InductionOnSet
    <3>2. QED
      BY <3>1, HeightAssumption
  <2>2. QED
    BY <2>1, HeightAssumption
<1> DEFINE s == [d \in 1 .. (Height - 2) |-> nodes[Sibling(up[d - 1])]]
<1>7. Len(s) = Height - 2
  BY HeightAssumption
<1>8. AuthPath(i) = [d \in 1 .. (Height - 2) |-> s[Height - 2 - d + 1]]
  BY <1>3, <1>7 DEF Reverse
<1>9. ASSUME NEW d \in 1 .. (Height - 2)
      PROVE  AuthPath(i)[d] = nodes[Sibling(OverLeaf(i, d))]
  <2>1. PICK e \in 1 .. (Height - 2) :
          /\ e = Height - 2 - d + 1
          /\ e - 1 \in 0 .. (Height - 2) /\ Height - 2 - (e - 1) = d
    <3>1. \A e \in Int : e = Height - 2 - d + 1 =>
            /\ e \in 1 .. (Height - 2) /\ e - 1 \in 0 .. (Height - 2)
            /\ Height - 2 - (e - 1) = d
      BY HeightAssumption
    <3>2. Height - 2 - d + 1 \in Int
      BY HeightAssumption
    <3>3. QED
      BY <3>1, <3>2
  <2>2. up[e - 1] = OverLeaf(i, d)
    BY <1>6, <2>1
  <2>3. s[e] = nodes[Sibling(OverLeaf(i, d))]
    BY <2>2
  <2> HIDE DEF s
  <2>4. QED
    BY <1>8, <2>1, <2>3
<1>10. Len(AuthPath(i)) = Height - 2
  BY <1>8, HeightAssumption
<1>11. QED
  BY <1>9, <1>10

-----------------------------------------------------------------------------
(* A climb over leaf i of a tree, from a digest h of the leaf and a digest *)
(* and siblings for it that need not be the tree's.  Siblings are counted  *)
(* from the root.                                                          *)
ClimbsOver(i, h, leafSibling, siblings, c) ==
  /\ c[0] = SelectEvaluate(i, h, leafSibling)
  /\ \A k \in 1 .. (Height - 2) :
       c[k] = SelectCompress(i \div Width(k), c[k - 1], siblings[Height - 2 - k + 1])

(* The siblings a path carries are digests of the tree over ls. *)
SiblingsIn(ls, i, siblings) ==
  \A d \in 1 .. (Height - 2) : siblings[d] = Digests(ls)[Sibling(OverLeaf(i, d))]

(* The root of the tree over ls with the digest of leaf i replaced. *)
RootReplacing(ls, i, h) == Digests([ls EXCEPT ![i] = h])[0]

(* The heap around a node that a climb joins at turn k.                    *)
LEMMA TurnFacts ==
  ASSUME NEW i \in LeafIndices, NEW k \in 1 .. (Height - 2), NEW ls
  PROVE  LET node == OverLeaf(i, Height - 2 - (k - 1))
             D == Digests(ls) IN
         /\ Height - 2 - k + 1 \in 1 .. (Height - 2)
         /\ Height - 2 - (k - 1) = Height - 2 - k + 1
         /\ node \in Inner
         /\ Sibling(node) \in Inner \ OnPath(i)
         /\ OverLeaf(i, Height - 2 - k) \in Inner
         /\ D[OverLeaf(i, Height - 2 - k)]
              = SelectCompress(i \div Width(k), D[node], D[Sibling(node)])
<1> DEFINE d == Height - 2 - k + 1
           node == OverLeaf(i, d)
           up == OverLeaf(i, Height - 2 - k)
           D == Digests(ls)
<1>1. /\ d \in 1 .. (Height - 2) /\ Height - 2 - (k - 1) = d
      /\ d - 1 = Height - 2 - k /\ Height - 1 - d = k
  BY HeightAssumption
<1>2. /\ node \in Inner /\ node > 0 /\ Parent(node) = up
      /\ Sibling(node) \in Inner \ OnPath(i)
      /\ IsLeftChild(node) <=> (i \div Width(k)) % 2 = 0
  BY <1>1, OverLeafSides
<1> HIDE DEF node, up, D
<1>3. /\ up \in Inner /\ ~IsBottom(up)
      /\ IsLeftChild(node) => LeftChild(up) = node /\ RightChild(up) = Sibling(node)
      /\ ~IsLeftChild(node) => LeftChild(up) = Sibling(node) /\ RightChild(up) = node
  BY <1>2, InnerFacts
<1>4. D[up] = Compress(D[LeftChild(up)], D[RightChild(up)])
  BY <1>3, DigestsAgree DEF NodeHash, D
<1>5. D[up] = SelectCompress(i \div Width(k), D[node], D[Sibling(node)])
  BY <1>2, <1>3, <1>4 DEF SelectCompress
<1>6. QED
  BY <1>1, <1>2, <1>3, <1>5 DEF node, up, D

(* And the bottom: the node above the leaf.                                *)
LEMMA BottomFacts ==
  ASSUME NEW i \in LeafIndices, NEW ls
  PROVE  Digests(ls)[OverLeaf(i, Height - 2)]
           = SelectEvaluate(i, ls[i], ls[LeafSibling(i)])
<1> DEFINE p == OverLeaf(i, Height - 2)
<1>1. p = Parent(LastLevel(i))
  BY OverLeafEnds
<1>2. Digests(ls)[p] = NodeHash(ls, <<>>, p)
  BY <1>1, LeafFacts, DigestsAgree DEF NodeHash
<1>3. QED
  BY <1>1, <1>2, LeafFacts DEF NodeHash, SelectEvaluate

(* With the siblings of a tree a climb goes through the digests of the     *)
(* tree with the leaf replaced.                                            *)
LEMMA ClimbGivesRoot ==
  ASSUME NEW ls, DOMAIN ls = LeafIndices, NEW i \in LeafIndices, NEW h,
         NEW siblings, NEW c, ClimbsOver(i, h, ls[LeafSibling(i)], siblings, c),
         SiblingsIn(ls, i, siblings)
  PROVE  c[Height - 2] = RootReplacing(ls, i, h)
<1> DEFINE up == [ls EXCEPT ![i] = h]
           E == Digests([ls EXCEPT ![i] = h])
           S == {k \in Nat : k <= Height - 2 => c[k] = E[OverLeaf(i, Height - 2 - k)]}
<1>0. \A k \in Inner \ OnPath(i) : E[k] = Digests(ls)[k]
  BY DigestsOffPath
<1>1. 0 \in S
  <2>1. up[i] = h /\ up[LeafSibling(i)] = ls[LeafSibling(i)]
    BY LeafFacts
  <2> HIDE DEF up
  <2>2. E[OverLeaf(i, Height - 2)] = SelectEvaluate(i, up[i], up[LeafSibling(i)])
    BY BottomFacts DEF up
  <2> HIDE DEF E
  <2>3. Height - 2 - 0 = Height - 2
    BY HeightAssumption
  <2>4. QED
    BY <2>1, <2>2, <2>3 DEF ClimbsOver
<1>2. ASSUME NEW k \in Nat, k \in S PROVE k + 1 \in S
  <2> SUFFICES ASSUME k + 1 <= Height - 2
               PROVE  c[k + 1] = E[OverLeaf(i, Height - 2 - (k + 1))]
    OBVIOUS
  <2> DEFINE m == k + 1
             node == OverLeaf(i, Height - 2 - (m - 1))
  <2>1. m \in 1 .. (Height - 2) /\ m - 1 = k /\ c[k] = E[OverLeaf(i, Height - 2 - k)]
    BY <1>2, HeightAssumption
  <2>2. /\ Height - 2 - m + 1 \in 1 .. (Height - 2)
        /\ Height - 2 - (m - 1) = Height - 2 - m + 1
        /\ Sibling(node) \in Inner \ OnPath(i)
        /\ E[OverLeaf(i, Height - 2 - m)]
             = SelectCompress(i \div Width(m), E[node], E[Sibling(node)])
    BY <2>1, TurnFacts
  <2> HIDE DEF E
  <2>3. E[Sibling(node)] = Digests(ls)[Sibling(node)]
    BY <1>0, <2>2
  <2>4. siblings[Height - 2 - m + 1] = E[Sibling(node)]
    BY <2>2, <2>3 DEF SiblingsIn
  <2>5. c[m] = SelectCompress(i \div Width(m), c[m - 1], siblings[Height - 2 - m + 1])
    BY <2>1 DEF ClimbsOver
  <2>6. QED
    BY <2>1, <2>2, <2>4, <2>5
<1>3. Height - 2 \in S
  <2> HIDE DEF S
  <2>1. QED
    BY <1>1, <1>2, InductionOnSet, HeightAssumption
<1>4. Height - 2 - (Height - 2) = 0 /\ Height - 2 <= Height - 2
  BY HeightAssumption
<1>5. QED
  BY <1>3, <1>4, OverLeafEnds DEF RootReplacing

LEMMA SelectBinds ==
  ASSUME NoCollisions, NEW p, NEW a, NEW b, NEW c, NEW d
  PROVE  /\ SelectCompress(p, a, b) = SelectCompress(p, c, d) => a = c /\ b = d
         /\ SelectEvaluate(p, a, b) = SelectEvaluate(p, c, d) => a = c /\ b = d
<1>1. SelectCompress(p, a, b) = SelectCompress(p, c, d) => a = c /\ b = d
  BY CompressBinds DEF SelectCompress
<1>2. SelectEvaluate(p, a, b) = SelectEvaluate(p, c, d) => a = c /\ b = d
  BY EvaluateBinds DEF SelectEvaluate
<1>3. QED
  BY <1>1, <1>2

(* Without collisions, a climb that ends at the root of a tree began at    *)
(* its leaf and was given its siblings.                                    *)
LEMMA RootGivesClimb ==
  ASSUME NoCollisions, NEW ls, NEW i \in LeafIndices, NEW h, NEW leafSibling,
         NEW siblings, NEW c, ClimbsOver(i, h, leafSibling, siblings, c),
         c[Height - 2] = Digests(ls)[0]
  PROVE  /\ h = ls[i] /\ leafSibling = ls[LeafSibling(i)]
         /\ SiblingsIn(ls, i, siblings)
<1> DEFINE D == Digests(ls)
           S == {n \in Nat : n <= Height - 2 => c[Height - 2 - n] = D[OverLeaf(i, n)]}
<1>1. ASSUME NEW k \in 1 .. (Height - 2), c[k] = D[OverLeaf(i, Height - 2 - k)]
      PROVE  /\ c[k - 1] = D[OverLeaf(i, Height - 2 - (k - 1))]
             /\ siblings[Height - 2 - k + 1]
                  = D[Sibling(OverLeaf(i, Height - 2 - k + 1))]
  <2> DEFINE node == OverLeaf(i, Height - 2 - (k - 1))
  <2>1. /\ Height - 2 - (k - 1) = Height - 2 - k + 1
        /\ D[OverLeaf(i, Height - 2 - k)]
             = SelectCompress(i \div Width(k), D[node], D[Sibling(node)])
    BY TurnFacts
  <2>2. c[k] = SelectCompress(i \div Width(k), c[k - 1], siblings[Height - 2 - k + 1])
    BY DEF ClimbsOver
  <2> HIDE DEF D
  <2>3. c[k - 1] = D[node] /\ siblings[Height - 2 - k + 1] = D[Sibling(node)]
    BY <1>1, <2>1, <2>2, SelectBinds
  <2>4. QED
    BY <2>1, <2>3
<1>2. 0 \in S
  <2>1. Height - 2 - 0 = Height - 2
    BY HeightAssumption
  <2>2. QED
    BY <2>1, OverLeafEnds
<1> HIDE DEF D
<1>3. ASSUME NEW n \in Nat, n \in S PROVE n + 1 \in S
  <2> SUFFICES ASSUME n + 1 <= Height - 2
               PROVE  c[Height - 2 - (n + 1)] = D[OverLeaf(i, n + 1)]
    OBVIOUS
  <2> DEFINE k == Height - 2 - n
  <2>1. /\ k \in 1 .. (Height - 2) /\ Height - 2 - k = n
        /\ k - 1 = Height - 2 - (n + 1) /\ Height - 2 - (k - 1) = n + 1
        /\ n <= Height - 2
    BY HeightAssumption
  <2>2. c[Height - 2 - n] = D[OverLeaf(i, n)]
    BY <1>3, <2>1
  <2> HIDE DEF S
  <2>3. c[k - 1] = D[OverLeaf(i, Height - 2 - (k - 1))]
    BY <1>1, <2>1, <2>2
  <2>4. QED
    BY <2>1, <2>3
<1>4. \A k \in 0 .. (Height - 2) : c[k] = D[OverLeaf(i, Height - 2 - k)]
  <2>1. ASSUME NEW k \in 0 .. (Height - 2) PROVE Height - 2 - k \in S
    <3> HIDE DEF S
    <3>1. Nat \subseteq S
      BY <1>2, <1>3, InductionOnSet
    <3>2. QED
      BY <3>1, HeightAssumption
  <2>2. \A k \in 0 .. (Height - 2) :
          Height - 2 - (Height - 2 - k) = k /\ Height - 2 - k <= Height - 2
    BY HeightAssumption
  <2>3. QED
    BY <2>1, <2>2
<1>5. ASSUME NEW d \in 1 .. (Height - 2)
      PROVE  siblings[d] = D[Sibling(OverLeaf(i, d))]
  <2> DEFINE k == Height - 2 - d + 1
  <2>1. k \in 1 .. (Height - 2) /\ k \in 0 .. (Height - 2) /\ Height - 2 - k + 1 = d
    BY HeightAssumption
  <2> HIDE DEF k
  <2>2. QED
    BY <1>1, <1>4, <2>1
<1>6. h = ls[i] /\ leafSibling = ls[LeafSibling(i)]
  <2>1. 0 \in 0 .. (Height - 2) /\ Height - 2 - 0 = Height - 2
    BY HeightAssumption
  <2>2. c[0] = D[OverLeaf(i, Height - 2)]
    BY <1>4, <2>1
  <2>3. SelectEvaluate(i, h, leafSibling) = SelectEvaluate(i, ls[i], ls[LeafSibling(i)])
    BY <2>2, BottomFacts DEF ClimbsOver, D
  <2>4. QED
    BY <2>3, SelectBinds
<1>7. QED
  BY <1>5, <1>6 DEF D, SiblingsIn

-----------------------------------------------------------------------------
(* The number of some bits: its bits are those bits, and zero beyond them. *)
LEMMA NumberTops ==
  ASSUME NEW bits \in Seq(BOOLEAN)
  PROVE  \E top : /\ top[0] = 0 /\ top[Len(bits)] = Number(bits)
                  /\ \A k \in 1 .. Len(bits) :
                       top[k] = 2 * top[k - 1] + (IF bits[Len(bits) - k + 1] THEN 1 ELSE 0)
<1> DEFINE n == Len(bits)
           bit == [k \in 1 .. n |-> IF bits[n - k + 1] THEN 1 ELSE 0]
           IsTop(m, t) == t = [k \in 0 .. m |-> IF k = 0 THEN 0 ELSE 2 * t[k - 1] + bit[k]]
           F(t) == [k \in 0 .. n |-> IF k = 0 THEN 0
                      ELSE 2 * t[k - 1] + (IF bits[n - k + 1] THEN 1 ELSE 0)]
           top == CHOOSE t : t = F(t)
           S == {m \in Nat : \E t : IsTop(m, t)}
<1>1. n \in Nat
  OBVIOUS
<1>2. 0 \in S
  <2>1. IsTop(0, [k \in 0 .. 0 |-> 0])
    OBVIOUS
  <2> HIDE DEF IsTop
  <2>2. QED
    BY <2>1
<1> HIDE DEF bit
<1>3. ASSUME NEW m \in Nat, m \in S PROVE m + 1 \in S
  <2>1. PICK t : IsTop(m, t)
    BY <1>3
  <2> DEFINE e == [k \in 0 .. (m + 1) |-> IF k = m + 1 THEN 2 * t[m] + bit[k] ELSE t[k]]
  <2>2. \A k \in 0 .. m : e[k] = t[k]
    OBVIOUS
  <2>3. e[m + 1] = 2 * e[m + 1 - 1] + bit[m + 1]
    OBVIOUS
  <2>4. e = [k \in 0 .. (m + 1) |-> e[k]]
    OBVIOUS
  <2> HIDE DEF e
  <2>5. ASSUME NEW k \in 0 .. (m + 1)
        PROVE  e[k] = IF k = 0 THEN 0 ELSE 2 * e[k - 1] + bit[k]
    <3>1. CASE k = m + 1
      BY <2>3, <3>1
    <3>2. CASE k # m + 1
      <4>1. k \in 0 .. m /\ (k # 0 => k - 1 \in 0 .. m)
        BY <3>2
      <4>2. t[k] = IF k = 0 THEN 0 ELSE 2 * t[k - 1] + bit[k]
        BY <2>1, <4>1
      <4>3. QED
        BY <2>2, <4>1, <4>2
    <3>3. QED
      BY <3>1, <3>2
  <2>6. IsTop(m + 1, e)
    BY <2>4, <2>5
  <2> HIDE DEF IsTop
  <2>7. QED
    BY <2>6
<1>4. PICK t : IsTop(n, t)
  <2>1. n \in S
    <3> HIDE DEF S
    <3>1. QED
      BY <1>1, <1>2, <1>3, InductionOnSet
  <2> HIDE DEF IsTop
  <2>2. QED
    BY <2>1
<1>5. t = F(t)
  <2>1. \A k \in 0 .. n : k = 0 \/ k \in 1 .. n
    BY <1>1
  <2>2. \A k \in 1 .. n : bit[k] = IF bits[n - k + 1] THEN 1 ELSE 0
    BY DEF bit
  <2> HIDE DEF n
  <2>3. QED
    BY <1>4, <2>1, <2>2
<1>6. top = F(top)
  <2> HIDE DEF F
  <2>1. QED
    BY <1>5
<1>7. top[n] = Number(bits)
  BY DEF Number
<1> HIDE DEF top
<1>8. /\ top[0] = 0
      /\ \A k \in 1 .. n : top[k] = 2 * top[k - 1] + (IF bits[n - k + 1] THEN 1 ELSE 0)
  <2>1. 0 \in 0 .. n /\ \A k \in 1 .. n : k \in 0 .. n /\ k # 0
    BY <1>1
  <2>2. F(top)[0] = 0
    BY <2>1
  <2>3. \A k \in 1 .. n :
          F(top)[k] = 2 * top[k - 1] + (IF bits[n - k + 1] THEN 1 ELSE 0)
    BY <2>1
  <2> HIDE DEF F
  <2>4. QED
    BY <1>6, <2>2, <2>3
<1>9. QED
  BY <1>7, <1>8

(* Reducing a number to an index of the tree keeps the bits it uses.       *)
LEMMA IndexBits ==
  ASSUME NEW a \in Nat, NEW k \in 0 .. (Height - 2)
  PROVE  ((a % NumLeaves) \div Width(k)) % 2 = (a \div Width(k)) % 2
<1> DEFINE S == {j \in Nat : j <= Height - 2 =>
                   (a % NumLeaves) \div Width(j) = (a \div Width(j)) % Width(Height - 1 - j)}
<1>1. NumLeaves \in Nat /\ NumLeaves >= 1 /\ a % NumLeaves \in Nat
  BY WidthFacts, ModFacts
<1>2. 0 \in S
  <2>1. Height - 1 - 0 = Height - 1 /\ a \div 1 = a
        /\ (a % NumLeaves) \div 1 = a % NumLeaves
    BY <1>1, HeightAssumption
  <2>2. QED
    BY <2>1, WidthFacts
<1>3. ASSUME NEW j \in Nat, j <= Height - 2
      PROVE  \E u \in Nat : /\ u >= 1 /\ Width(Height - 1 - j) = 2 * u
                            /\ Width(Height - 1 - (j + 1)) = u
                            /\ Width(j) \in Nat /\ Width(j) >= 1
                            /\ a \div Width(j) \in Nat
  <2>1. /\ Height - 1 - j \in 1 .. (Height - 1) /\ j \in 0 .. (Height - 1)
        /\ Height - 1 - j - 1 = Height - 1 - (j + 1)
        /\ Height - 1 - (j + 1) \in 0 .. (Height - 1)
    BY <1>3, HeightAssumption
  <2>2. Width(j) \in Nat /\ Width(j) >= 1
    BY <2>1, WidthFacts
  <2>3. /\ Width(Height - 1 - j) = 2 * Width(Height - 1 - (j + 1))
        /\ Width(Height - 1 - (j + 1)) \in Nat /\ Width(Height - 1 - (j + 1)) >= 1
    BY <2>1, WidthFacts
  <2>4. a \div Width(j) \in Nat
    BY <2>2, DivBounds
  <2>5. QED
    BY <2>2, <2>3, <2>4
<1>4. ASSUME NEW j \in Nat, j \in S PROVE j + 1 \in S
  <2> SUFFICES ASSUME j + 1 <= Height - 2
               PROVE  (a % NumLeaves) \div Width(j + 1)
                        = (a \div Width(j + 1)) % Width(Height - 1 - (j + 1))
    OBVIOUS
  <2>1. PICK u \in Nat : /\ u >= 1 /\ Width(Height - 1 - j) = 2 * u
                         /\ Width(Height - 1 - (j + 1)) = u
                         /\ Width(j) \in Nat /\ Width(j) >= 1
                         /\ a \div Width(j) \in Nat
    BY <1>3, HeightAssumption
  <2>2. Width(j + 1) = 2 * Width(j)
    <3>1. j + 1 \in 1 .. (Height - 1) /\ j + 1 - 1 = j
      BY HeightAssumption
    <3>2. QED
      BY <3>1, WidthFacts
  <2>3. (a % NumLeaves) \div Width(j) = (a \div Width(j)) % (2 * u)
    BY <1>4, <2>1, HeightAssumption
  <2>4. (a % NumLeaves) \div Width(j + 1) = ((a \div Width(j)) % (2 * u)) \div 2
    BY <1>1, <2>1, <2>2, <2>3, HalfOfQuotient
  <2>5. a \div Width(j + 1) = (a \div Width(j)) \div 2
    BY <2>1, <2>2, HalfOfQuotient
  <2>6. QED
    BY <2>1, <2>4, <2>5, HalfOfRemainder
<1>5. k \in S /\ k \in Nat /\ k <= Height - 2
  <2> HIDE DEF S
  <2>1. QED
    BY <1>2, <1>4, InductionOnSet, HeightAssumption
<1>6. QED
  BY <1>3, <1>5, HalfOfRemainder

(* Half of a number, and its last bit.                                     *)
LEMMA DoubleFacts ==
  ASSUME NEW a \in Nat
  PROVE  /\ 2 * a \in Nat /\ (2 * a) \div 2 = a /\ (2 * a) % 2 = 0
         /\ 2 * a + 1 \in Nat /\ (2 * a + 1) \div 2 = a /\ (2 * a + 1) % 2 = 1
  OBVIOUS

(* The position a query's bits spell, read back a bit at a time: bit k of  *)
(* the leaf's index is the query's bit, false past its length.             *)
LEMMA NumberBits ==
  ASSUME NEW bits \in Seq(BOOLEAN)
  PROVE  /\ Number(bits) \in Nat
         /\ Number(bits) % NumLeaves \in LeafIndices
         /\ \A k \in 0 .. (Height - 2) :
              ((Number(bits) % NumLeaves) \div Width(k)) % 2 = 1
                <=> k + 1 <= Len(bits) /\ bits[k + 1]
<1> DEFINE n == Len(bits)
<1>1. n \in Nat
  OBVIOUS
<1>2. PICK top : /\ top[0] = 0 /\ top[n] = Number(bits)
                 /\ \A k \in 1 .. n :
                      top[k] = 2 * top[k - 1] + (IF bits[n - k + 1] THEN 1 ELSE 0)
  BY NumberTops
<1> DEFINE T == {k \in Nat : k <= n => top[k] \in Nat}
<1>3. \A k \in 0 .. n : top[k] \in Nat
  <2>1. 0 \in T
    BY <1>2
  <2>2. ASSUME NEW k \in Nat, k \in T PROVE k + 1 \in T
    <3> SUFFICES ASSUME k + 1 <= n PROVE top[k + 1] \in Nat
      OBVIOUS
    <3> HIDE DEF n
    <3>1. k + 1 \in 1 .. n /\ k + 1 - 1 = k /\ k <= n
      BY <1>1
    <3>2. top[k + 1] = 2 * top[k] + (IF bits[n - (k + 1) + 1] THEN 1 ELSE 0)
      BY <1>2, <3>1
    <3>3. top[k] \in Nat
      BY <2>2, <3>1
    <3>4. QED
      BY <3>2, <3>3
  <2>3. Nat \subseteq T
    <3> HIDE DEF T
    <3>1. QED
      BY <2>1, <2>2, InductionOnSet
  <2>4. QED
    BY <1>1, <2>3
<1> DEFINE w == [j \in Nat |-> IF j <= n THEN top[n - j] ELSE 0]
           S == {j \in Nat : j <= Height - 1 => Number(bits) \div Width(j) = w[j]}
<1>4. \A j \in Nat : /\ w[j] \in Nat /\ w[j + 1] = w[j] \div 2
                     /\ w[j] % 2 = 1 <=> j + 1 <= n /\ bits[j + 1]
  <2> TAKE j \in Nat
  <2> HIDE DEF n
  <2>1. CASE j + 1 <= n
    <3>1. PICK k \in 1 .. n : k = n - j
      BY <1>1, <2>1
    <3>2. /\ k - 1 = n - (j + 1) /\ n - k + 1 = j + 1
          /\ k \in 0 .. n /\ k - 1 \in 0 .. n
      BY <1>1, <3>1
    <3>3. top[k] = 2 * top[k - 1] + (IF bits[j + 1] THEN 1 ELSE 0)
      BY <1>2, <3>2
    <3>4. top[k] \in Nat /\ top[k - 1] \in Nat
      BY <1>3, <3>2
    <3>5. w[j] = top[k] /\ w[j + 1] = top[k - 1]
      BY <1>1, <2>1, <3>1, <3>2
    <3> HIDE DEF w
    <3>6. PICK a, b : a = w[j + 1] /\ b = w[j] /\ a \in Nat
                      /\ b = 2 * a + (IF bits[j + 1] THEN 1 ELSE 0)
      BY <3>3, <3>4, <3>5
    <3>7. b \in Nat /\ a = b \div 2 /\ (b % 2 = 1 <=> bits[j + 1])
      <4>1. CASE bits[j + 1]
        <5>1. b = 2 * a + 1 /\ a \in Nat
          BY <3>6, <4>1
        <5>2. QED
          BY <4>1, <5>1, DoubleFacts
      <4>2. CASE ~ bits[j + 1]
        <5>1. b = 2 * a /\ a \in Nat
          BY <3>6, <4>2
        <5>2. QED
          BY <4>2, <5>1, DoubleFacts
      <4>3. QED
        BY <4>1, <4>2
    <3>8. QED
      BY <2>1, <3>6, <3>7
  <2>2. CASE j = n
    <3>1. w[j] = top[n - n] /\ n - n = 0 /\ w[j + 1] = 0
      BY <1>1, <2>2
    <3> HIDE DEF w
    <3>2. QED
      BY <1>1, <1>2, <2>2, <3>1
  <2>3. CASE j > n
    BY <1>1, <2>3
  <2>4. QED
    BY <1>1, <2>1, <2>2, <2>3
<1>5. Number(bits) \in Nat
  BY <1>1, <1>2, <1>3
<1>6. 0 \in S
  <2>1. w[0] = top[n - 0] /\ n - 0 = n
    BY <1>1
  <2>2. Number(bits) \div 1 = Number(bits)
    BY <1>5
  <2> HIDE DEF w, n
  <2>3. QED
    BY <1>2, <2>1, <2>2, WidthFacts
<1> HIDE DEF w, n
<1>7. ASSUME NEW j \in Nat, j \in S PROVE j + 1 \in S
  <2> SUFFICES ASSUME j + 1 <= Height - 1
               PROVE  Number(bits) \div Width(j + 1) = w[j + 1]
    OBVIOUS
  <2>1. /\ j + 1 \in 1 .. (Height - 1) /\ j + 1 - 1 = j /\ j \in 0 .. (Height - 1)
    BY HeightAssumption
  <2>2. Width(j + 1) = 2 * Width(j) /\ Width(j) \in Nat /\ Width(j) >= 1
    BY <2>1, WidthFacts
  <2>3. Number(bits) \div Width(j) = w[j]
    BY <1>7, <2>1
  <2>4. (Number(bits) \div Width(j)) \div 2 = Number(bits) \div (2 * Width(j))
    BY <1>5, <2>2, HalfOfQuotient
  <2>5. w[j + 1] = w[j] \div 2
    BY <1>4
  <2>6. QED
    BY <2>2, <2>3, <2>4, <2>5
<1>8. \A k \in 0 .. (Height - 2) : Number(bits) \div Width(k) = w[k]
  <2>1. Nat \subseteq S
    <3> HIDE DEF S
    <3>1. QED
      BY <1>6, <1>7, InductionOnSet
  <2>2. QED
    BY <2>1, HeightAssumption
<1>9. Number(bits) % NumLeaves \in LeafIndices
  <2>1. NumLeaves \in Nat /\ NumLeaves >= 1
    BY WidthFacts
  <2>2. Number(bits) % NumLeaves \in Nat /\ Number(bits) % NumLeaves < NumLeaves
    BY <1>5, <2>1, ModFacts
  <2>3. QED
    BY <2>1, <2>2 DEF LeafIndices
<1>10. ASSUME NEW k \in 0 .. (Height - 2)
       PROVE  ((Number(bits) % NumLeaves) \div Width(k)) % 2 = 1
                <=> k + 1 <= Len(bits) /\ bits[k + 1]
  <2>1. ((Number(bits) % NumLeaves) \div Width(k)) % 2 = (Number(bits) \div Width(k)) % 2
    BY <1>5, IndexBits
  <2>2. Number(bits) \div Width(k) = w[k]
    BY <1>8
  <2>3. w[k] % 2 = 1 <=> k + 1 <= n /\ bits[k + 1]
    <3>1. k \in Nat
      OBVIOUS
    <3>2. QED
      BY <1>4, <3>1, Zenon
  <2>4. QED
    BY <2>1, <2>2, <2>3 DEF n
<1>11. QED
  BY <1>5, <1>9, <1>10

-----------------------------------------------------------------------------
(* The invariant.  A path that is held is the one of the snapshot, whatever *)
(* became of the tree; a circuit has its siblings and the position asked   *)
(* for.                                                                    *)
TreeInv ==
  created => /\ leaves = [i \in LeafIndices |-> leaves[i]]
             /\ nodes = Digests(leaves)

HeldInv ==
  held.kind = "path" =>
    /\ created
    /\ held = [kind |-> "path", leaf_index |-> held.leaf_index,
               auth_path |-> held.auth_path,
               leaf_sibling_hash |-> held.leaf_sibling_hash]
    /\ held.leaf_index \in LeafIndices
    /\ snapshot = [i \in LeafIndices |-> snapshot[i]]
    /\ held.leaf_sibling_hash = snapshot[LeafSibling(held.leaf_index)]
    /\ Len(held.auth_path) = Height - 2
    /\ \A d \in 1 .. (Height - 2) :
         held.auth_path[d] = Digests(snapshot)[Sibling(OverLeaf(held.leaf_index, d))]

AtPosition(v, i) ==
  /\ v.leaf_is_right_child <=> i % 2 = 1
  /\ \A k \in 1 .. (Height - 2) :
       v.path[Height - 2 - k + 1] <=> (i \div Width(k)) % 2 = 1

CircuitInv ==
  pathVar # NoPathVar =>
    /\ held.kind = "path"
    /\ asked \in LeafIndices
    /\ DOMAIN pathVar = {"path", "auth_path", "leaf_sibling", "leaf_is_right_child"}
    /\ pathVar.auth_path = held.auth_path
    /\ pathVar.leaf_sibling = held.leaf_sibling_hash
    /\ AtPosition(pathVar, asked)

MembershipInv == TreeInv /\ HeldInv /\ CircuitInv

(* Sequences turned round, written as functions and joined.                *)
LEMMA FunctionSeq ==
  ASSUME NEW n \in Nat, NEW S, NEW s, s = [j \in 1 .. n |-> s[j]],
         \A j \in 1 .. n : s[j] \in S
  PROVE  s \in Seq(S) /\ Len(s) = n
<1>1. s \in [1 .. n -> S]
  BY Zenon
<1>2. QED
  BY <1>1

LEMMA ReverseSeq ==
  ASSUME NEW n \in Nat, NEW s, Len(s) = n
  PROVE  /\ Reverse(s) = [j \in 1 .. n |-> s[n - j + 1]]
         /\ Len(Reverse(s)) = n
         /\ \A k \in 1 .. n : Reverse(s)[n - k + 1] = s[k]
<1>1. Reverse(s) = [j \in 1 .. n |-> s[n - j + 1]]
  BY DEF Reverse
<1> DEFINE r == [j \in 1 .. n |-> s[n - j + 1]]
<1>2. \A k \in 1 .. n : n - k + 1 \in 1 .. n /\ n - (n - k + 1) + 1 = k
  OBVIOUS
<1>3. \A j \in 1 .. n : r[j] = s[n - j + 1]
  OBVIOUS
<1>4. Len(r) = n
  <2>1. r = [j \in 1 .. n |-> r[j]]
    OBVIOUS
  <2> HIDE DEF r
  <2>2. QED
    BY <2>1, FunctionSeq
<1> HIDE DEF r
<1>5. \A k \in 1 .. n : r[n - k + 1] = s[k]
  BY <1>2, <1>3
<1>6. QED
  BY <1>1, <1>4, <1>5 DEF r

LEMMA PaddedSeq ==
  ASSUME NEW s \in Seq(BOOLEAN), NEW n \in Nat, NEW t \in Seq(BOOLEAN), Len(t) = n
  PROVE  /\ s \o t \in Seq(BOOLEAN) /\ Len(s \o t) = Len(s) + n
         /\ \A k \in 1 .. (Len(s) + n) :
              (s \o t)[k] = IF k <= Len(s) THEN s[k] ELSE t[k - Len(s)]
OBVIOUS

LEMMA FrontSeq ==
  ASSUME NEW n \in Nat, NEW s \in Seq(BOOLEAN), Len(s) = n + 1
  PROVE  \A j \in 1 .. n : Front(s)[j] = s[j]
<1>1. Front(s) = SubSeq(s, 1, n)
  BY DEF Front
<1>2. \A j \in 1 .. n : SubSeq(s, 1, n)[j] = s[j]
  OBVIOUS
<1>3. QED
  BY <1>1, <1>2

LEMMA InitMembership == GadgetInit => MembershipInv
BY DEF GadgetInit, MemberInit, Init, NoProof, MembershipInv, TreeInv, HeldInv,
       CircuitInv

LEMMA WorkMembership ==
  ASSUME MembershipInv, Work, UNCHANGED <<pathVar, asked>>
  PROVE  MembershipInv'
<1>1. ASSUME NEW digests, digests = [i \in LeafIndices |-> digests[i]], Create(digests)
      PROVE  TreeInv' /\ (created => created')
  BY <1>1 DEF Create, TreeInv
<1>2. ASSUME NEW i \in LeafIndices, NEW leaf \in Leaves, Replace(i, leaf)
      PROVE  TreeInv' /\ (created => created')
  BY <1>2 DEF Replace, TreeInv, MembershipInv
<1>3. TreeInv' /\ (created => created')
  <2>1. Next
    BY DEF Work
  <2>2. CASE \E ls \in Initials : Create([i \in LeafIndices |-> LeafHash(ls[i])])
    <3>1. PICK ls \in Initials : Create([i \in LeafIndices |-> LeafHash(ls[i])])
      BY <2>2
    <3> DEFINE digests == [i \in LeafIndices |-> LeafHash(ls[i])]
    <3>2. digests = [i \in LeafIndices |-> digests[i]]
      OBVIOUS
    <3>3. Create(digests)
      BY <3>1
    <3> HIDE DEF digests
    <3>4. QED
      BY <1>1, <3>2, <3>3
  <2>3. CASE Create(Blanks)
    <3>1. Blanks = [i \in LeafIndices |-> Blanks[i]]
      BY DEF Blanks
    <3>2. QED
      BY <1>1, <2>3, <3>1
  <2>4. QED
    BY <1>2, <2>1, <2>2, <2>3 DEF Next
<1>4. UNCHANGED <<held, snapshot, pathVar, asked>>
  BY DEF Work
<1>5. QED
  BY <1>3, <1>4 DEF MembershipInv, HeldInv, CircuitInv, AtPosition

LEMMA NewProofMembership ==
  ASSUME MembershipInv, NewProof
  PROVE  MembershipInv'
<1>1. pathVar' = NoPathVar /\ UNCHANGED vectorVars
  BY DEF NewProof, HoldPath, HoldCoPath
<1>2. TreeInv' /\ CircuitInv'
  BY <1>1 DEF MembershipInv, TreeInv, CircuitInv, vectorVars
<1>3. ASSUME NEW i \in LeafIndices, HoldPath(i) PROVE HeldInv'
  <2>1. /\ created /\ created' /\ held' = PathOf(i) /\ snapshot' = leaves
        /\ leaves = [j \in LeafIndices |-> leaves[j]] /\ nodes = Digests(leaves)
    BY <1>1, <1>3 DEF HoldPath, MembershipInv, TreeInv, vectorVars
  <2>2. /\ Len(AuthPath(i)) = Height - 2
        /\ \A d \in 1 .. (Height - 2) : AuthPath(i)[d] = Digests(leaves)[Sibling(OverLeaf(i, d))]
    BY <2>1, AuthPathFacts
  <2>3. /\ held'.leaf_index = i /\ held'.auth_path = AuthPath(i)
        /\ held'.leaf_sibling_hash = leaves[LeafSibling(i)]
        /\ held' = [kind |-> "path", leaf_index |-> held'.leaf_index,
                    auth_path |-> held'.auth_path,
                    leaf_sibling_hash |-> held'.leaf_sibling_hash]
    BY <2>1 DEF PathOf
  <2>4. QED
    BY <2>1, <2>2, <2>3 DEF HeldInv
<1>4. ASSUME NEW S \in Queries, HoldCoPath(S) PROVE HeldInv'
  BY <1>4 DEF HoldCoPath, CoPathOf, HeldInv
<1>5. QED
  BY <1>2, <1>3, <1>4 DEF NewProof, MembershipInv

(* The bits of the index the path was made for.                            *)
LEMMA AllocateMembership ==
  ASSUME MembershipInv, Allocate
  PROVE  MembershipInv'
<1> DEFINE i == held.leaf_index
           bits == [j \in 1 .. (Height - 1) |-> (i \div 2 ^ (j - 1)) % 2 = 1]
<1>1. /\ held.kind = "path" /\ UNCHANGED memberVars
      /\ pathVar' = NewVariable(held) /\ asked' = i
      /\ i \in LeafIndices /\ Len(held.auth_path) = Height - 2
  BY DEF Allocate, MembershipInv, HeldInv
<1>2. PositionList(held) = Reverse(bits)
  <2>1. Len(held.auth_path) + 1 = Height - 1
    BY <1>1, HeightAssumption
  <2>2. QED
    BY <2>1 DEF PositionList
<1>3. Len(bits) = Height - 1
  BY HeightAssumption
<1>4. /\ Reverse(bits) = [j \in 1 .. (Height - 1) |-> bits[Height - 1 - j + 1]]
      /\ Len(Reverse(bits)) = Height - 1
  <2>1. Height - 1 \in Nat
    BY HeightAssumption
  <2> HIDE DEF bits
  <2>2. QED
    BY <1>3, <2>1, ReverseSeq
<1>5. ASSUME NEW k \in 1 .. (Height - 2)
      PROVE  Front(PositionList(held))[Height - 2 - k + 1]
               <=> (i \div Width(k)) % 2 = 1
  <2>2. PICK e \in 1 .. (Height - 2) : e = Height - 2 - k + 1 /\ Height - 1 - e + 1 = k + 1
    <3>1. Height - 2 - k + 1 \in 1 .. (Height - 2)
          /\ Height - 1 - (Height - 2 - k + 1) + 1 = k + 1
      BY HeightAssumption
    <3>2. QED
      BY <3>1
  <2> HIDE DEF bits
  <2>3. Front(Reverse(bits))[e] = Reverse(bits)[e]
    <3>1. \A j \in 1 .. (Height - 2) : Front(Reverse(bits))[j] = Reverse(bits)[j]
      <4>1. Reverse(bits) \in Seq(BOOLEAN)
        <5>1. Height - 1 \in Nat
          BY HeightAssumption
        <5>2. \A j \in 1 .. (Height - 1) : Height - 1 - j + 1 \in 1 .. (Height - 1)
          BY HeightAssumption
        <5>3. \A j \in 1 .. (Height - 1) : Reverse(bits)[j] \in BOOLEAN
          BY <1>4, <5>2 DEF bits
        <5>4. Reverse(bits) = [j \in 1 .. (Height - 1) |-> Reverse(bits)[j]]
          BY <1>4
        <5>5. QED
          BY <5>1, <5>3, <5>4, FunctionSeq
      <4>2. QED
        <5>1. Height - 2 \in Nat /\ Height - 1 = Height - 2 + 1
          BY HeightAssumption
        <5>2. QED
          BY <1>4, <4>1, <5>1, FrontSeq
    <3>2. QED
      BY <3>1
  <2>4. Reverse(bits)[e] = bits[k + 1]
    <3>1. e \in 1 .. (Height - 1)
      BY <2>2, HeightAssumption
    <3>2. QED
      BY <1>4, <2>2, <3>1
  <2>5. bits[k + 1] = ((i \div Width(k)) % 2 = 1)
    <3>1. k + 1 \in 1 .. (Height - 1) /\ k + 1 - 1 = k
      BY HeightAssumption
    <3>2. QED
      BY <3>1 DEF bits, Width
  <2>6. QED
    BY <1>2, <2>2, <2>3, <2>4, <2>5
<1>6. AtPosition(pathVar', i)
  BY <1>1, <1>5 DEF NewVariable, AtPosition
<1>7. TreeInv' /\ HeldInv'
  BY <1>1 DEF memberVars, vectorVars, MembershipInv, TreeInv, HeldInv
<1>8. CircuitInv'
  <2>1. held' = held
    BY <1>1 DEF memberVars
  <2>2. /\ DOMAIN pathVar' = {"path", "auth_path", "leaf_sibling", "leaf_is_right_child"}
        /\ pathVar'.auth_path = held.auth_path
        /\ pathVar'.leaf_sibling = held.leaf_sibling_hash
    BY <1>1 DEF NewVariable
  <2> HIDE DEF i
  <2>3. QED
    BY <1>1, <1>6, <2>1, <2>2 DEF CircuitInv, AtPosition
<1>9. QED
  BY <1>7, <1>8 DEF MembershipInv

(* The bits somebody sets, padded, cut and turned round.                   *)
LEMMA SetLeafPositionMembership ==
  ASSUME MembershipInv, NEW bits \in Positions, SetLeafPosition(bits)
  PROVE  MembershipInv'
<1> DEFINE n == Height - 2
           i == Number(bits) % NumLeaves
           padded == Tail(bits) \o [j \in 1 .. n |-> FALSE]
<1>1. /\ held.kind = "path" /\ UNCHANGED memberVars
      /\ pathVar' = WithPosition(pathVar, bits) /\ asked' = i
      /\ DOMAIN pathVar = {"path", "auth_path", "leaf_sibling", "leaf_is_right_child"}
      /\ pathVar.auth_path = held.auth_path
      /\ pathVar.leaf_sibling = held.leaf_sibling_hash
      /\ Len(pathVar.auth_path) = n
  BY DEF SetLeafPosition, MembershipInv, HeldInv, CircuitInv
<1>2. bits \in Seq(BOOLEAN) /\ bits # <<>> /\ Len(bits) \in Nat /\ Len(bits) >= 1
  BY PositionsAssumption
<1>3. n \in Nat
  BY HeightAssumption
<1>4. /\ i \in LeafIndices
      /\ \A k \in 0 .. n : (i \div Width(k)) % 2 = 1 <=> k + 1 <= Len(bits) /\ bits[k + 1]
  BY <1>2, NumberBits
<1> HIDE DEF i, n
<1>5. /\ padded \in Seq(BOOLEAN) /\ Len(padded) = Len(bits) - 1 + n
      /\ \A k \in 1 .. n : padded[k] <=> k + 1 <= Len(bits) /\ bits[k + 1]
  <2> DEFINE rest == Tail(bits)
             zeros == [j \in 1 .. n |-> FALSE]
  <2>1. /\ rest \in Seq(BOOLEAN) /\ Len(rest) = Len(bits) - 1
        /\ \A k \in 1 .. (Len(bits) - 1) : rest[k] = bits[k + 1]
    BY <1>2
  <2>2. zeros \in Seq(BOOLEAN) /\ Len(zeros) = n /\ \A j \in 1 .. n : zeros[j] = FALSE
    BY <1>3
  <2> HIDE DEF rest, zeros
  <2>3. /\ rest \o zeros \in Seq(BOOLEAN) /\ Len(rest \o zeros) = Len(rest) + n
        /\ \A k \in 1 .. (Len(rest) + n) :
             (rest \o zeros)[k] = IF k <= Len(rest) THEN rest[k] ELSE zeros[k - Len(rest)]
    BY <1>3, <2>1, <2>2, PaddedSeq
  <2>4. ASSUME NEW k \in 1 .. n
        PROVE  (rest \o zeros)[k] <=> k + 1 <= Len(bits) /\ bits[k + 1]
    <3>1. k \in 1 .. (Len(rest) + n)
      BY <1>2, <1>3, <2>1
    <3>2. CASE k <= Len(rest)
      <4>1. k \in 1 .. (Len(bits) - 1) /\ k + 1 <= Len(bits)
        BY <1>2, <2>1, <3>2
      <4>2. (rest \o zeros)[k] = bits[k + 1]
        BY <2>1, <2>3, <3>1, <3>2, <4>1
      <4>3. QED
        BY <4>1, <4>2
    <3>3. CASE ~(k <= Len(rest))
      <4>1. k - Len(rest) \in 1 .. n /\ ~(k + 1 <= Len(bits))
        BY <1>2, <1>3, <2>1, <3>3
      <4>2. QED
        BY <2>2, <2>3, <3>1, <3>3, <4>1
    <3>4. QED
      BY <3>2, <3>3
  <2>5. QED
    BY <2>1, <2>3, <2>4 DEF rest, zeros
<1>6. /\ DOMAIN pathVar' = {"path", "auth_path", "leaf_sibling", "leaf_is_right_child"}
      /\ pathVar'.auth_path = held.auth_path
      /\ pathVar'.leaf_sibling = held.leaf_sibling_hash
      /\ pathVar'.path = Reverse(SubSeq(padded, 1, n))
      /\ pathVar'.leaf_is_right_child = bits[1]
  <2>1. WithPosition(pathVar, bits) =
          [pathVar EXCEPT !.path = Reverse(SubSeq(padded, 1, n)),
                          !.leaf_is_right_child = bits[1]]
    BY <1>1 DEF WithPosition
  <2> HIDE DEF padded
  <2>2. QED
    BY <1>1, <2>1
<1> HIDE DEF padded
<1>7. SubSeq(padded, 1, n) = [j \in 1 .. n |-> padded[j]] /\ Len(SubSeq(padded, 1, n)) = n
  BY <1>2, <1>3, <1>5
<1>9. \A k \in 1 .. n : Reverse(SubSeq(padded, 1, n))[n - k + 1] = padded[k]
  <2>1. \A k \in 1 .. n : SubSeq(padded, 1, n)[k] = padded[k]
    BY <1>7
  <2>2. QED
    BY <1>3, <1>7, <2>1, ReverseSeq
<1>10. AtPosition(pathVar', i)
  <2>1. ASSUME NEW k \in 1 .. n
        PROVE  pathVar'.path[n - k + 1] <=> (i \div Width(k)) % 2 = 1
    <3>1. k \in 0 .. n
      BY <1>3
    <3>2. pathVar'.path[n - k + 1] = padded[k]
      BY <1>6, <1>9
    <3>3. QED
      BY <1>4, <1>5, <3>1, <3>2
  <2>2. pathVar'.leaf_is_right_child <=> i % 2 = 1
    <3>1. 0 \in 0 .. n /\ i \in Nat
      BY <1>3, <1>4, WidthFacts DEF LeafIndices
    <3>2. (i \div Width(0)) % 2 = 1 <=> 0 + 1 <= Len(bits) /\ bits[0 + 1]
      BY <1>4, <3>1
    <3>3. i \div Width(0) = i
      BY <3>1, WidthFacts
    <3>4. QED
      BY <1>2, <1>6, <3>2, <3>3
  <2>3. QED
    BY <2>1, <2>2 DEF AtPosition, n
<1>11. TreeInv' /\ HeldInv'
  BY <1>1 DEF memberVars, vectorVars, MembershipInv, TreeInv, HeldInv
<1>12. CircuitInv'
  <2>1. held' = held
    BY <1>1 DEF memberVars
  <2>2. QED
    BY <1>1, <1>4, <1>6, <1>10, <2>1 DEF CircuitInv, AtPosition
<1>13. QED
  BY <1>11, <1>12 DEF MembershipInv

LEMMA NextMembership == MembershipInv /\ [GadgetNext]_gadgetVars => MembershipInv'
<1> SUFFICES ASSUME MembershipInv, [GadgetNext]_gadgetVars PROVE MembershipInv'
  OBVIOUS
<1>1. CASE UNCHANGED gadgetVars
  BY <1>1 DEF gadgetVars, memberVars, vectorVars, MembershipInv, TreeInv, HeldInv,
              CircuitInv, AtPosition
<1>2. QED
  BY <1>1, WorkMembership, NewProofMembership, AllocateMembership,
     SetLeafPositionMembership DEF GadgetNext

-----------------------------------------------------------------------------
(* Both verifiers climb over the index, with the digests they are given.   *)
LEMMA VerifyPathOver ==
  ASSUME NEW proof, NEW leaf, Len(proof.auth_path) = Height - 2
  PROVE  \E c : /\ ClimbsOver(proof.leaf_index, LeafHash(leaf),
                              proof.leaf_sibling_hash, proof.auth_path, c)
                /\ \A root : VerifyPath(proof, root, leaf) <=> c[Height - 2] = root
<1>1. Len(proof.auth_path) \in Nat
  BY HeightAssumption
<1>2. PICK c :
        /\ c[0] = SelectEvaluate(proof.leaf_index, LeafHash(leaf), proof.leaf_sibling_hash)
        /\ \A k \in 1 .. Len(proof.auth_path) :
             c[k] = SelectCompress(proof.leaf_index \div 2 ^ k, c[k - 1],
                                   proof.auth_path[Len(proof.auth_path) - k + 1])
        /\ \A root : VerifyPath(proof, root, leaf) <=> c[Len(proof.auth_path)] = root
  BY <1>1, VerifyPathClimbs
<1>3. ClimbsOver(proof.leaf_index, LeafHash(leaf), proof.leaf_sibling_hash,
                 proof.auth_path, c)
  BY <1>2 DEF ClimbsOver, Width
<1>4. QED
  BY <1>2, <1>3

LEMMA CalculateRootOver ==
  ASSUME NEW v, NEW leaf, Len(v.auth_path) = Height - 2, NEW i \in LeafIndices,
         AtPosition(v, i)
  PROVE  \E c : /\ ClimbsOver(i, LeafHash(leaf), v.leaf_sibling, v.auth_path, c)
                /\ CalculateRoot(v, leaf) = c[Height - 2]
<1>1. Len(v.auth_path) \in Nat
  BY HeightAssumption
<1>2. PICK c :
        /\ c[0] = IF v.leaf_is_right_child
                  THEN Evaluate(Convert(v.leaf_sibling), Convert(LeafHash(leaf)))
                  ELSE Evaluate(Convert(LeafHash(leaf)), Convert(v.leaf_sibling))
        /\ \A k \in 1 .. Len(v.auth_path) :
             c[k] = Join(v.path[Len(v.auth_path) - k + 1],
                         v.auth_path[Len(v.auth_path) - k + 1], c[k - 1])
        /\ CalculateRoot(v, leaf) = c[Len(v.auth_path)]
  BY <1>1, CalculateRootClimbs
<1>3. i \in Nat
  BY WidthFacts DEF LeafIndices
<1>4. ASSUME NEW k \in 1 .. (Height - 2)
      PROVE  c[k] = SelectCompress(i \div Width(k), c[k - 1], v.auth_path[Height - 2 - k + 1])
  <2>1. k \in 0 .. (Height - 1)
    BY HeightAssumption
  <2>2. i \div Width(k) \in Nat
    BY <1>3, <2>1, WidthFacts, DivBounds
  <2>3. (i \div Width(k)) % 2 = 1 <=> ~((i \div Width(k)) % 2 = 0)
    BY <2>2
  <2>4. c[k] = Join(v.path[Height - 2 - k + 1], v.auth_path[Height - 2 - k + 1], c[k - 1])
    BY <1>2
  <2>5. v.path[Height - 2 - k + 1] <=> (i \div Width(k)) % 2 = 1
    BY DEF AtPosition
  <2>6. QED
    BY <2>3, <2>4, <2>5 DEF Join, SelectCompress
<1>5. c[0] = SelectEvaluate(i, LeafHash(leaf), v.leaf_sibling)
  BY <1>2, <1>3 DEF AtPosition, SelectEvaluate
<1>6. QED
  BY <1>2, <1>4, <1>5 DEF ClimbsOver

LEMMA ClimbsMeet ==
  ASSUME NEW i, NEW h, NEW leafSibling, NEW siblings, NEW c, NEW e,
         ClimbsOver(i, h, leafSibling, siblings, c),
         ClimbsOver(i, h, leafSibling, siblings, e)
  PROVE  c[Height - 2] = e[Height - 2]
<1> DEFINE S == {k \in Nat : k <= Height - 2 => c[k] = e[k]}
<1>1. 0 \in S
  BY DEF ClimbsOver
<1>2. ASSUME NEW k \in Nat, k \in S PROVE k + 1 \in S
  <2> SUFFICES ASSUME k + 1 <= Height - 2 PROVE c[k + 1] = e[k + 1]
    OBVIOUS
  <2>1. k + 1 \in 1 .. (Height - 2) /\ k + 1 - 1 = k /\ k <= Height - 2
    BY HeightAssumption
  <2>2. c[k] = e[k]
    BY <1>2, <2>1
  <2>3. QED
    BY <2>1, <2>2 DEF ClimbsOver
<1>3. QED
  <2>1. Nat \subseteq S
    <3> HIDE DEF S
    <3>1. QED
      BY <1>1, <1>2, InductionOnSet
  <2>2. QED
    BY <2>1, HeightAssumption

-----------------------------------------------------------------------------
(* A path is accepted with a leaf and the current root exactly when the    *)
(* vector it was made from, with the leaf in its place, is the current     *)
(* one: for every height, every history of the tree, and every path made   *)
(* at any time of it.                                                      *)
THEOREM PathsSpeakTruth ==
  ASSUME NoCollisions
  PROVE  GadgetSpec => []PathSpeaksTruth
<1>1. MembershipInv => PathSpeaksTruth
  <2> SUFFICES ASSUME MembershipInv, held.kind = "path", NEW leaf \in Leaves
               PROVE  VerifyPath(held, nodes[0], leaf) <=> Claimed(<<leaf>>) = leaves
    BY DEF PathSpeaksTruth
  <2> DEFINE i == held.leaf_index
             h == LeafHash(leaf)
             replacing == [snapshot EXCEPT ![i] = h]
  <2>1. /\ i \in LeafIndices /\ nodes = Digests(leaves)
        /\ leaves = [j \in LeafIndices |-> leaves[j]]
        /\ snapshot = [j \in LeafIndices |-> snapshot[j]]
        /\ held.leaf_sibling_hash = snapshot[LeafSibling(i)]
        /\ Len(held.auth_path) = Height - 2
        /\ \A d \in 1 .. (Height - 2) :
             held.auth_path[d] = Digests(snapshot)[Sibling(OverLeaf(i, d))]
    BY DEF MembershipInv, HeldInv, TreeInv
  <2>2. PICK c : /\ ClimbsOver(i, h, held.leaf_sibling_hash, held.auth_path, c)
                 /\ \A root : VerifyPath(held, root, leaf) <=> c[Height - 2] = root
    BY <2>1, VerifyPathOver
  <2>3. DOMAIN snapshot = LeafIndices
    <3>1. \E f : snapshot = [j \in LeafIndices |-> f[j]]
      BY <2>1
    <3>2. QED
      BY <3>1
  <2>4. c[Height - 2] = Digests(replacing)[0]
    <3>1. ClimbsOver(i, h, snapshot[LeafSibling(i)], held.auth_path, c)
      BY <2>1, <2>2
    <3>2. SiblingsIn(snapshot, i, held.auth_path)
      BY <2>1 DEF SiblingsIn
    <3>3. i \in LeafIndices
      BY <2>1
    <3>4. c[Height - 2] = RootReplacing(snapshot, i, h)
      <4> HIDE DEF i, h
      <4>1. QED
        BY <2>3, <3>1, <3>2, <3>3, ClimbGivesRoot
    <3>5. QED
      BY <3>4 DEF RootReplacing
  <2>5. VerifyPath(held, nodes[0], leaf) <=> Digests(replacing)[0] = Digests(leaves)[0]
    BY <2>1, <2>2, <2>4
  <2>6. Claimed(<<leaf>>) = [j \in LeafIndices |-> IF j = i THEN h ELSE snapshot[j]]
    BY DEF Claimed
  <2>7. \A j \in LeafIndices : replacing[j] = IF j = i THEN h ELSE snapshot[j]
    BY <2>1, <2>3
  <2> HIDE DEF replacing, h, i
  <2>8. Claimed(<<leaf>>) = leaves <=> \A j \in LeafIndices : replacing[j] = leaves[j]
    BY <2>1, <2>6, <2>7
  <2>9. Digests(replacing)[0] = Digests(leaves)[0]
          => \A j \in LeafIndices : replacing[j] = leaves[j]
    BY RootBinds
  <2>10. ASSUME \A j \in LeafIndices : replacing[j] = leaves[j]
         PROVE  replacing = leaves
    <3>1. replacing = [j \in LeafIndices |-> replacing[j]]
      BY <2>3 DEF replacing
    <3>2. QED
      BY <2>1, <2>10, <3>1
  <2>11. QED
    BY <2>5, <2>8, <2>9, <2>10
<1>2. QED
  BY InitMembership, NextMembership, <1>1, PTL DEF GadgetSpec

(* The circuit computes the root Path::verify compares with at the index   *)
(* that was asked for, for every hash function.                            *)
THEOREM GadgetsFollowVerify == GadgetSpec => []GadgetFollowsVerify
<1>1. MembershipInv => GadgetFollowsVerify
  <2> SUFFICES ASSUME MembershipInv, pathVar # NoPathVar, NEW leaf \in Leaves
               PROVE  VerifyPath([held EXCEPT !.leaf_index = asked],
                                 CalculateRoot(pathVar, leaf), leaf)
    BY DEF GadgetFollowsVerify, IsAllocated
  <2> DEFINE proof == [held EXCEPT !.leaf_index = asked]
  <2>1. /\ held.kind = "path" /\ asked \in LeafIndices
        /\ pathVar.auth_path = held.auth_path
        /\ pathVar.leaf_sibling = held.leaf_sibling_hash
        /\ AtPosition(pathVar, asked)
        /\ Len(held.auth_path) = Height - 2
    BY DEF MembershipInv, CircuitInv, HeldInv
  <2>2. /\ proof.leaf_index = asked /\ proof.auth_path = held.auth_path
        /\ proof.leaf_sibling_hash = held.leaf_sibling_hash
    <3>1. \E x, y, z : held = [kind |-> "path", leaf_index |-> x, auth_path |-> y,
                               leaf_sibling_hash |-> z]
      BY <2>1 DEF MembershipInv, HeldInv
    <3>2. QED
      BY <3>1
  <2> HIDE DEF proof
  <2>3. PICK c : /\ ClimbsOver(asked, LeafHash(leaf), held.leaf_sibling_hash,
                               held.auth_path, c)
                 /\ \A root : VerifyPath(proof, root, leaf) <=> c[Height - 2] = root
    BY <2>1, <2>2, VerifyPathOver
  <2>4. PICK e : /\ ClimbsOver(asked, LeafHash(leaf), held.leaf_sibling_hash,
                               held.auth_path, e)
                 /\ CalculateRoot(pathVar, leaf) = e[Height - 2]
    BY <2>1, CalculateRootOver
  <2>5. c[Height - 2] = e[Height - 2]
    BY <2>3, <2>4, ClimbsMeet
  <2>6. QED
    BY <2>3, <2>4, <2>5 DEF proof
<1>2. QED
  BY InitMembership, NextMembership, <1>1, PTL DEF GadgetSpec

(* What a circuit that accepts a leaf under the current root says.         *)
LEMMA CircuitSays ==
  ASSUME NoCollisions, MembershipInv, pathVar # NoPathVar, NEW leaf,
         VerifyMembership(pathVar, nodes[0], leaf)
  PROVE  /\ asked \in LeafIndices /\ nodes = Digests(leaves)
         /\ DOMAIN leaves = LeafIndices
         /\ AtPosition(pathVar, asked) /\ Len(pathVar.auth_path) = Height - 2
         /\ leaves[asked] = LeafHash(leaf)
         /\ pathVar.leaf_sibling = leaves[LeafSibling(asked)]
         /\ SiblingsIn(leaves, asked, pathVar.auth_path)
<1>1. /\ asked \in LeafIndices /\ nodes = Digests(leaves)
      /\ leaves = [j \in LeafIndices |-> leaves[j]]
      /\ AtPosition(pathVar, asked) /\ Len(pathVar.auth_path) = Height - 2
  BY DEF MembershipInv, CircuitInv, HeldInv, TreeInv
<1>2. PICK c : /\ ClimbsOver(asked, LeafHash(leaf), pathVar.leaf_sibling,
                             pathVar.auth_path, c)
               /\ CalculateRoot(pathVar, leaf) = c[Height - 2]
  BY <1>1, CalculateRootOver
<1>3. c[Height - 2] = Digests(leaves)[0]
  BY <1>1, <1>2 DEF VerifyMembership
<1>4. /\ LeafHash(leaf) = leaves[asked]
      /\ pathVar.leaf_sibling = leaves[LeafSibling(asked)]
      /\ SiblingsIn(leaves, asked, pathVar.auth_path)
  BY <1>1, <1>2, <1>3, RootGivesClimb
<1>5. DOMAIN leaves = LeafIndices
  <2>1. \E f : leaves = [j \in LeafIndices |-> f[j]]
    BY <1>1
  <2>2. QED
    BY <2>1
<1>6. QED
  BY <1>1, <1>4, <1>5

(* A verifier who sets the position learns about that position, whatever   *)
(* index the path was made for and whenever.                               *)
THEOREM PositionsBind ==
  ASSUME NoCollisions
  PROVE  GadgetSpec => []PositionBinds
<1>1. MembershipInv => PositionBinds
  BY CircuitSays DEF PositionBinds, IsAllocated
<1>2. QED
  BY InitMembership, NextMembership, <1>1, PTL DEF GadgetSpec

(* A satisfied update circuit gives the root of the current tree with just *)
(* the leaf at the position asked for replaced.                            *)
THEOREM UpdatesSpeakTruth ==
  ASSUME NoCollisions
  PROVE  GadgetSpec => []UpdateSpeaksTruth
<1>1. MembershipInv => UpdateSpeaksTruth
  <2> SUFFICES ASSUME MembershipInv, pathVar # NoPathVar,
                      NEW old \in Leaves, NEW new \in Leaves,
                      UpdateLeaf(pathVar, nodes[0], old, new).satisfied
               PROVE  UpdateLeaf(pathVar, nodes[0], old, new).root
                        = Digests([leaves EXCEPT ![asked] = LeafHash(new)])[0]
    BY DEF UpdateSpeaksTruth, IsAllocated, UpdateAndCheck
  <2>1. VerifyMembership(pathVar, nodes[0], old)
    BY DEF UpdateLeaf
  <2>2. /\ asked \in LeafIndices /\ DOMAIN leaves = LeafIndices
        /\ AtPosition(pathVar, asked) /\ Len(pathVar.auth_path) = Height - 2
        /\ pathVar.leaf_sibling = leaves[LeafSibling(asked)]
        /\ SiblingsIn(leaves, asked, pathVar.auth_path)
    BY <2>1, CircuitSays
  <2>3. PICK c : /\ ClimbsOver(asked, LeafHash(new), pathVar.leaf_sibling,
                               pathVar.auth_path, c)
                 /\ CalculateRoot(pathVar, new) = c[Height - 2]
    BY <2>2, CalculateRootOver
  <2>4. c[Height - 2] = Digests([leaves EXCEPT ![asked] = LeafHash(new)])[0]
    <3>1. ClimbsOver(asked, LeafHash(new), leaves[LeafSibling(asked)],
                     pathVar.auth_path, c)
      BY <2>2, <2>3
    <3>2. c[Height - 2] = RootReplacing(leaves, asked, LeafHash(new))
      BY <2>2, <3>1, ClimbGivesRoot
    <3>3. QED
      BY <3>2 DEF RootReplacing
  <2>5. QED
    BY <2>3, <2>4 DEF UpdateLeaf
<1>2. QED
  BY InitMembership, NextMembership, <1>1, PTL DEF GadgetSpec

-----------------------------------------------------------------------------
(* The order of a BTreeSet.  The elements of a finite set of numbers have  *)
(* the ranks from one to their number, each once.                          *)
Rank(S, i) == Cardinality({j \in S : j <= i})

LEMMA RankFacts ==
  ASSUME NEW S, S \subseteq Nat, IsFiniteSet(S)
  PROVE  /\ Cardinality(S) \in Nat
         /\ \A i \in S : Rank(S, i) \in 1 .. Cardinality(S)
         /\ \A i, j \in S : Rank(S, i) = Rank(S, j) => i = j
<1>1. Cardinality(S) \in Nat
  BY FS_CardinalityType
<1>2. ASSUME NEW i \in S PROVE Rank(S, i) \in 1 .. Cardinality(S)
  <2> DEFINE T == {j \in S : j <= i}
  <2>1. T \in SUBSET S /\ i \in T
    OBVIOUS
  <2>2. IsFiniteSet(T) /\ Cardinality(T) <= Cardinality(S) /\ Cardinality(T) \in Nat
    BY <2>1, FS_Subset, FS_CardinalityType
  <2>3. Cardinality(T) # 0
    BY <2>1, <2>2, FS_EmptySet
  <2>4. QED
    BY <1>1, <2>2, <2>3 DEF Rank
<1>3. ASSUME NEW i \in S, NEW j \in S, i < j PROVE Rank(S, i) # Rank(S, j)
  <2> DEFINE T == {k \in S : k <= i}
             U == {k \in S : k <= j}
  <2>1. U \in SUBSET S /\ T \in SUBSET U /\ j \in U /\ j \notin T
    <3>1. i \in Nat /\ j \in Nat /\ \A k \in S : k \in Nat
      OBVIOUS
    <3>2. \A k \in S : k <= i => k <= j
      BY <1>3, <3>1
    <3>3. j <= j /\ ~(j <= i)
      BY <1>3, <3>1
    <3>4. QED
      BY <3>2, <3>3
  <2>2. IsFiniteSet(U)
    BY <2>1, FS_Subset
  <2>3. Cardinality(U) = Cardinality(T) => U = T
    BY <2>1, <2>2, FS_Subset
  <2>4. QED
    BY <2>1, <2>3 DEF Rank
<1>4. ASSUME NEW i \in S, NEW j \in S, Rank(S, i) = Rank(S, j) PROVE i = j
  BY <1>3, <1>4
<1>5. QED
  BY <1>1, <1>2, <1>4

(* A sequence that has each element of a set once.                         *)
Lists(s, T) ==
  /\ s \in Seq(T)
  /\ ToSet(s) = T
  /\ \A a, b \in 1 .. Len(s) : s[a] = s[b] => a = b

(* The k-th of it has rank k.                                              *)
Ranked(s, S) ==
  /\ s = [k \in 1 .. Cardinality(S) |-> s[k]]
  /\ \A k \in 1 .. Cardinality(S) : s[k] \in S /\ Rank(S, s[k]) = k

LEMMA AscendingLists ==
  ASSUME NEW S, S \subseteq Nat, IsFiniteSet(S)
  PROVE  /\ Lists(Ascending(S), S) /\ Len(Ascending(S)) = Cardinality(S)
         /\ Ranked(Ascending(S), S)
<1> DEFINE n == Cardinality(S)
           rank == [i \in S |-> Rank(S, i)]
           A == Ascending(S)
<1>1. /\ n \in Nat
      /\ \A i \in S : rank[i] \in 1 .. n
      /\ \A i, j \in S : rank[i] = rank[j] => i = j
  BY RankFacts
<1>2. \A k \in 1 .. n : \E i \in S : Rank(S, i) = k
  <2>1. rank \in [S -> 1 .. n]
    BY <1>1
  <2>2. rank \in Injection(S, 1 .. n)
    BY <1>1, <2>1 DEF Injection, IsInjective
  <2>3. IsFiniteSet(1 .. n) /\ Cardinality(1 .. n) = n
    BY <1>1, FS_Interval
  <2>4. rank \in Surjection(S, 1 .. n)
    <3> HIDE DEF rank
    <3>1. QED
      BY <2>2, <2>3, FS_Injection
  <2>5. \A k \in 1 .. n : \E i \in S : rank[i] = k
    <3> HIDE DEF rank
    <3>1. QED
      BY <2>4 DEF Surjection
  <2>6. QED
    BY <2>5
<1>3. A = [k \in 1 .. n |-> CHOOSE i \in S : Rank(S, i) = k]
  BY DEF Ascending, Rank
<1> HIDE DEF A, n
<1>4. \A k \in 1 .. n : A[k] \in S /\ Rank(S, A[k]) = k
  BY <1>2, <1>3
<1>5. A \in Seq(S) /\ Len(A) = n
  <2>1. A \in [1 .. n -> S]
    BY <1>3, <1>4
  <2>2. QED
    BY <1>1, <2>1
<1>6. ASSUME NEW i \in S PROVE \E k \in 1 .. n : A[k] = i
  <2>1. Rank(S, i) \in 1 .. n
    BY <1>1
  <2>2. A[Rank(S, i)] = i
    BY <1>4, <2>1, RankFacts
  <2>3. QED
    BY <2>1, <2>2
<1>7. \A a, b \in 1 .. Len(A) : A[a] = A[b] => a = b
  BY <1>4, <1>5
<1>8. ToSet(A) = S
  <2>1. DOMAIN A = 1 .. n
    BY <1>3
  <2>2. QED
    BY <1>4, <1>6, <2>1 DEF ToSet
<1>9. A = [k \in 1 .. n |-> A[k]]
  BY <1>3
<1>10. Ranked(Ascending(S), S)
  BY <1>4, <1>9 DEF A, n, Ranked
<1>11. QED
  BY <1>5, <1>7, <1>8, <1>10 DEF A, Lists, n

LEMMA ListsEmpty == Lists(<<>>, {})
BY DEF Lists, ToSet

LEMMA ListsJoin ==
  ASSUME NEW s, NEW S, NEW t, NEW T, Lists(s, S), Lists(t, T), S \cap T = {}
  PROVE  Lists(s \o t, S \cup T) /\ Len(s \o t) = Len(s) + Len(t)
<1> DEFINE both == s \o t
           m == Len(s)
           n == Len(t)
<1>1. /\ s \in Seq(S \cup T) /\ t \in Seq(S \cup T) /\ m \in Nat /\ n \in Nat
      /\ DOMAIN s = 1 .. m /\ DOMAIN t = 1 .. n
  <2>1. s \in Seq(S) /\ t \in Seq(T)
    BY DEF Lists
  <2>2. QED
    BY <2>1
<1>2. /\ both \in Seq(S \cup T) /\ Len(both) = m + n
      /\ \A a \in 1 .. (m + n) : both[a] = IF a <= m THEN s[a] ELSE t[a - m]
  BY <1>1
<1>3. /\ \A a \in 1 .. m : s[a] \in S
      /\ \A a \in 1 .. n : t[a] \in T
      /\ \A x \in S : \E a \in 1 .. m : s[a] = x
      /\ \A x \in T : \E a \in 1 .. n : t[a] = x
      /\ \A a, b \in 1 .. m : s[a] = s[b] => a = b
      /\ \A a, b \in 1 .. n : t[a] = t[b] => a = b
  BY <1>1 DEF Lists, ToSet
<1> HIDE DEF both, m, n
<1>4. ASSUME NEW a \in 1 .. (m + n), NEW b \in 1 .. (m + n), both[a] = both[b]
      PROVE  a = b
  <2>1. \A k \in 1 .. (m + n) : k <= m => k \in 1 .. m /\ both[k] = s[k] /\ s[k] \in S
    BY <1>1, <1>2, <1>3
  <2>2. \A k \in 1 .. (m + n) :
          ~(k <= m) => k - m \in 1 .. n /\ both[k] = t[k - m] /\ t[k - m] \in T
    BY <1>1, <1>2, <1>3
  <2>3. a <= m <=> b <= m
    BY <1>4, <2>1, <2>2
  <2>4. CASE a <= m
    BY <1>3, <1>4, <2>1, <2>3, <2>4
  <2>5. CASE ~(a <= m)
    <3>1. a - m = b - m
      BY <1>3, <1>4, <2>2, <2>3, <2>5
    <3>2. QED
      BY <1>1, <3>1
  <2>6. QED
    BY <2>4, <2>5
<1>5. ToSet(both) = S \cup T
  <2>1. DOMAIN both = 1 .. (m + n)
    BY <1>2
  <2>2. \A k \in 1 .. (m + n) : both[k] \in S \cup T
    <3>1. ASSUME NEW k \in 1 .. (m + n) PROVE both[k] \in S \cup T
      <4>1. CASE k <= m
        BY <1>1, <1>2, <1>3, <4>1
      <4>2. CASE ~(k <= m)
        <5>1. k - m \in 1 .. n
          BY <1>1, <4>2
        <5>2. QED
          BY <1>2, <1>3, <4>2, <5>1
      <4>3. QED
        BY <4>1, <4>2
    <3>2. QED
      BY <3>1
  <2>3. ASSUME NEW x \in S PROVE \E k \in 1 .. (m + n) : both[k] = x
    <3>1. PICK a \in 1 .. m : s[a] = x
      BY <1>3
    <3>2. a \in 1 .. (m + n) /\ a <= m
      BY <1>1
    <3>3. QED
      BY <1>2, <3>1, <3>2
  <2>4. ASSUME NEW x \in T PROVE \E k \in 1 .. (m + n) : both[k] = x
    <3>1. PICK a \in 1 .. n : t[a] = x
      BY <1>3
    <3>2. PICK k : k = a + m
      OBVIOUS
    <3>3. k \in 1 .. (m + n) /\ ~(k <= m) /\ k - m = a
      BY <1>1, <3>2
    <3>4. both[k] = t[k - m]
      BY <1>2, <3>3
    <3>5. QED
      BY <3>1, <3>3, <3>4
  <2>5. QED
    BY <2>1, <2>2, <2>3, <2>4 DEF ToSet
<1>6. QED
  BY <1>2, <1>4, <1>5 DEF Lists, both, m, n

(* FlattenSeq joins its sequences one after the other.                     *)
IsFlat(n, seqs, f) ==
  f = [i \in 1 .. n |-> IF i = 1 THEN seqs[i] ELSE f[i - 1] \o seqs[i]]

LEMMA FlatExists ==
  ASSUME NEW n \in Nat, NEW seqs
  PROVE  \E f : IsFlat(n, seqs, f)
<1> DEFINE S == {m \in Nat : \E f : IsFlat(m, seqs, f)}
<1>1. 0 \in S
  <2>1. IsFlat(0, seqs, [i \in 1 .. 0 |-> 0])
    BY DEF IsFlat
  <2>2. QED
    BY <2>1
<1>2. ASSUME NEW m \in Nat, m \in S PROVE m + 1 \in S
  <2>1. PICK f : IsFlat(m, seqs, f)
    BY <1>2
  <2> DEFINE last == IF m + 1 = 1 THEN seqs[m + 1] ELSE f[m] \o seqs[m + 1]
             g == [i \in 1 .. (m + 1) |-> IF i = m + 1 THEN last ELSE f[i]]
  <2>2. ASSUME NEW i \in 1 .. (m + 1)
        PROVE  g[i] = IF i = 1 THEN seqs[i] ELSE g[i - 1] \o seqs[i]
    <3>1. CASE i = m + 1
      <4>1. i # 1 => i - 1 \in 1 .. (m + 1) /\ i - 1 # m + 1 /\ i - 1 = m
        BY <3>1
      <4>2. i # 1 => g[i - 1] = f[m]
        BY <4>1
      <4>3. g[i] = last
        BY <3>1
      <4>4. QED
        BY <3>1, <4>2, <4>3
    <3>2. CASE i # m + 1
      <4>1. i \in 1 .. m /\ (i # 1 => i - 1 \in 1 .. (m + 1) /\ i - 1 # m + 1)
        BY <3>2
      <4>2. f[i] = IF i = 1 THEN seqs[i] ELSE f[i - 1] \o seqs[i]
        <5>1. \A h : h = [j \in 1 .. m |-> IF j = 1 THEN seqs[j] ELSE f[j - 1] \o seqs[j]]
                => h[i] = IF i = 1 THEN seqs[i] ELSE f[i - 1] \o seqs[i]
          BY <4>1
        <5>2. QED
          BY <2>1, <5>1 DEF IsFlat
      <4>3. g[i] = f[i] /\ (i # 1 => g[i - 1] = f[i - 1])
        BY <3>2, <4>1
      <4>4. QED
        BY <4>2, <4>3
    <3>3. QED
      BY <3>1, <3>2
  <2>3. g = [i \in 1 .. (m + 1) |-> IF i = 1 THEN seqs[i] ELSE g[i - 1] \o seqs[i]]
    <3>1. g = [i \in 1 .. (m + 1) |-> g[i]]
      OBVIOUS
    <3> HIDE DEF g
    <3>2. QED
      BY <2>2, <3>1
  <2>4. IsFlat(m + 1, seqs, g)
    BY <2>3 DEF IsFlat
  <2> HIDE DEF g
  <2>5. QED
    BY <2>4
<1>3. QED
  <2> HIDE DEF S
  <2>1. n \in S
    BY <1>1, <1>2, InductionOnSet
  <2>2. QED
    BY <2>1 DEF S

LEMMA FlattenLists ==
  ASSUME NEW n \in Nat, NEW seqs, seqs = [d \in 1 .. n |-> seqs[d]], NEW sets,
         \A d \in 1 .. n : Lists(seqs[d], sets[d]),
         \A d, e \in 1 .. n : d # e => sets[d] \cap sets[e] = {}
  PROVE  Lists(FlattenSeq(seqs), UNION {sets[d] : d \in 1 .. n})
<1> DEFINE F(f) == [i \in 1 .. n |-> IF i = 1 THEN seqs[i] ELSE f[i - 1] \o seqs[i]]
           flat == CHOOSE f : f = F(f)
           Upto(d) == UNION {sets[e] : e \in 1 .. d}
<1>1. Len(seqs) = n
  OBVIOUS
<1>2. CASE n = 0
  <2>1. FlattenSeq(seqs) = <<>>
    BY <1>1, <1>2 DEF FlattenSeq
  <2>2. UNION {sets[d] : d \in 1 .. n} = {}
    BY <1>2
  <2>3. QED
    BY <2>1, <2>2, ListsEmpty
<1>3. CASE n # 0
  <2>1. FlattenSeq(seqs) = flat[n]
    BY <1>1, <1>3 DEF FlattenSeq
  <2>2. flat = F(flat)
    <3>1. PICK f : f = F(f)
      BY FlatExists DEF IsFlat
    <3> HIDE DEF F
    <3>2. QED
      BY <3>1
  <2> HIDE DEF flat
  <2>3. \A i \in 1 .. n : flat[i] = IF i = 1 THEN seqs[i] ELSE flat[i - 1] \o seqs[i]
    BY <2>2
  <2> DEFINE S == {d \in Nat : d + 1 <= n => Lists(flat[d + 1], Upto(d + 1))}
  <2>4. 0 \in S
    <3>1. flat[1] = seqs[1] /\ 1 \in 1 .. n
      BY <1>3, <2>3
    <3>2. Upto(1) = sets[1]
      <4>1. \A e \in 1 .. 1 : e = 1
        OBVIOUS
      <4>2. 1 \in 1 .. 1
        OBVIOUS
      <4>3. QED
        BY <4>1, <4>2
    <3>3. Lists(flat[1], Upto(1))
      <4> HIDE DEF Upto
      <4>1. QED
        BY <3>1, <3>2
    <3> HIDE DEF Upto
    <3>4. QED
      BY <3>3
  <2>5. ASSUME NEW d \in Nat, d \in S PROVE d + 1 \in S
    <3> SUFFICES ASSUME d + 2 <= n PROVE Lists(flat[d + 2], Upto(d + 2))
      <4> HIDE DEF Upto
      <4>1. d + 1 + 1 = d + 2 /\ d + 1 \in Nat
        OBVIOUS
      <4>2. QED
        BY <4>1
    <3>1. d + 2 \in 1 .. n /\ d + 1 <= n
      OBVIOUS
    <3>2. flat[d + 2] = flat[d + 1] \o seqs[d + 2]
      <4>1. PICK k, l : k = d + 2 /\ l = d + 1
        OBVIOUS
      <4>2. k \in 1 .. n /\ k # 1 /\ k - 1 = l
        BY <3>1, <4>1
      <4>3. flat[k] = flat[k - 1] \o seqs[k]
        <5> HIDE DEF Upto
        <5>1. QED
          BY <2>3, <4>2
      <4>4. QED
        BY <4>1, <4>2, <4>3
    <3>3. Lists(flat[d + 1], Upto(d + 1))
      <4> HIDE DEF Upto
      <4>1. QED
        BY <2>5, <3>1
    <3>4. Upto(d + 1) \cap sets[d + 2] = {}
      <4>1. \A e \in 1 .. (d + 1) : e \in 1 .. n /\ e # d + 2
        BY <3>1
      <4>2. \A e \in 1 .. (d + 1) : sets[e] \cap sets[d + 2] = {}
        BY <3>1, <4>1
      <4>3. QED
        BY <4>2
    <3>5. Upto(d + 2) = Upto(d + 1) \cup sets[d + 2]
      <4>1. 1 .. (d + 2) = (1 .. (d + 1)) \cup {d + 2}
        OBVIOUS
      <4>2. QED
        BY <4>1
    <3> HIDE DEF Upto
    <3>6. Lists(flat[d + 1] \o seqs[d + 2], Upto(d + 1) \cup sets[d + 2])
      BY <3>1, <3>3, <3>4, ListsJoin
    <3>7. QED
      BY <3>2, <3>5, <3>6
  <2>6. n - 1 \in S
    <3> HIDE DEF S
    <3>1. QED
      BY <1>3, <2>4, <2>5, InductionOnSet
  <2>7. Lists(flat[n], Upto(n))
    <3> HIDE DEF Upto
    <3>1. n - 1 + 1 = n
      OBVIOUS
    <3>2. QED
      BY <2>6, <3>1
  <2>8. QED
    BY <2>1, <2>7
<1>4. QED
  BY <1>2, <1>3

-----------------------------------------------------------------------------
(* The positions of a level above some indices, and those beside them that *)
(* are not above any.                                                      *)
CopathSet(S, d) == {LeafSibling(p) : p \in OnPathAt(S, d)} \ OnPathAt(S, d)

LEMMA SiblingFacts ==
  ASSUME NEW p \in Nat
  PROVE  /\ LeafSibling(p) \in Nat /\ LeafSibling(p) # p
         /\ LeafSibling(p) \div 2 = p \div 2
         /\ {p, LeafSibling(p)} = {2 * (p \div 2), 2 * (p \div 2) + 1}
         /\ LeafSibling(LeafSibling(p)) = p
<1>1. CASE p % 2 = 0
  <2>1. PICK q \in Nat : p = 2 * q
    BY <1>1
  <2>2. LeafSibling(p) = 2 * q + 1 /\ p \div 2 = q /\ (2 * q + 1) \div 2 = q
    BY <1>1, <2>1 DEF LeafSibling
  <2>3. LeafSibling(2 * q + 1) = 2 * q
    BY DEF LeafSibling
  <2>4. QED
    BY <2>1, <2>2, <2>3
<1>2. CASE p % 2 # 0
  <2>1. PICK q \in Nat : p = 2 * q + 1
    BY <1>2
  <2>2. LeafSibling(p) = 2 * q /\ p \div 2 = q /\ (2 * q) \div 2 = q
    BY <1>2, <2>1 DEF LeafSibling
  <2>3. LeafSibling(2 * q) = 2 * q + 1
    BY DEF LeafSibling
  <2>4. QED
    BY <2>1, <2>2, <2>3
<1>3. QED
  BY <1>1, <1>2

LEMMA OnPathAtFacts ==
  ASSUME NEW S, S \subseteq Nat, IsFiniteSet(S), NEW d \in 0 .. LeafDepth
  PROVE  /\ OnPathAt(S, d) \subseteq Nat /\ IsFiniteSet(OnPathAt(S, d))
         /\ CopathSet(S, d) \subseteq Nat /\ IsFiniteSet(CopathSet(S, d))
         /\ d = LeafDepth => OnPathAt(S, d) = S
         /\ d > 0 => OnPathAt(S, d - 1) = {p \div 2 : p \in OnPathAt(S, d)}
<1> DEFINE w == Width(LeafDepth - d)
           up == [i \in S |-> i \div w]
           O == OnPathAt(S, d)
           beside == [p \in O |-> LeafSibling(p)]
<1>1. LeafDepth - d \in 0 .. (Height - 1) /\ w \in Nat /\ w >= 1
  <2>1. LeafDepth - d \in 0 .. (Height - 1)
    BY HeightAssumption DEF LeafDepth
  <2>2. QED
    BY <2>1, WidthFacts
<1>2. O = {i \div w : i \in S}
  BY DEF OnPathAt, Width
<1> HIDE DEF w, O
<1>3. O \subseteq Nat
  BY <1>1, <1>2, DivBounds
<1>4. IsFiniteSet(O)
  <2>1. up \in Surjection(S, O)
    BY <1>2 DEF Surjection
  <2> HIDE DEF up
  <2>2. QED
    BY <2>1, FS_Surjection
<1>5. IsFiniteSet({LeafSibling(p) : p \in O})
  <2>1. beside \in Surjection(O, {LeafSibling(p) : p \in O})
    BY DEF Surjection
  <2> HIDE DEF beside
  <2>2. QED
    BY <1>4, <2>1, FS_Surjection
<1>6. CopathSet(S, d) \in SUBSET {LeafSibling(p) : p \in O}
  BY DEF CopathSet, O
<1>7. CopathSet(S, d) \subseteq Nat /\ IsFiniteSet(CopathSet(S, d))
  <2>1. IsFiniteSet(CopathSet(S, d))
    BY <1>5, <1>6, FS_Subset
  <2>2. QED
    BY <1>3, <1>6, <2>1, SiblingFacts
<1>8. ASSUME d = LeafDepth PROVE O = S
  <2>1. w = 1
    <3>1. LeafDepth - d = 0
      BY <1>8, HeightAssumption DEF LeafDepth
    <3>2. QED
      BY <3>1, WidthFacts DEF w
  <2>2. \A i \in S : i \div w = i
    BY <2>1
  <2>3. QED
    BY <1>2, <2>2
<1>9. ASSUME d > 0 PROVE OnPathAt(S, d - 1) = {p \div 2 : p \in O}
  <2>1. LeafDepth - (d - 1) = LeafDepth - d + 1 /\ LeafDepth - d + 1 \in 1 .. (Height - 1)
    BY <1>9, HeightAssumption DEF LeafDepth
  <2>2. Width(LeafDepth - (d - 1)) = 2 * w
    <3>1. PICK m : m = LeafDepth - d + 1
      OBVIOUS
    <3>2. m \in 1 .. (Height - 1) /\ m - 1 = LeafDepth - d /\ LeafDepth - (d - 1) = m
      BY <2>1, <3>1, HeightAssumption DEF LeafDepth
    <3>3. Width(m) = 2 * Width(m - 1)
      BY <3>2, WidthFacts
    <3>4. QED
      BY <3>2, <3>3 DEF w
  <2>3. OnPathAt(S, d - 1) = {i \div (2 * w) : i \in S}
    BY <2>2 DEF OnPathAt, Width
  <2>4. \A i \in S : (i \div w) \div 2 = i \div (2 * w)
    BY <1>1, HalfOfQuotient
  <2>5. QED
    BY <1>2, <2>3, <2>4
<1>10. QED
  BY <1>3, <1>4, <1>7, <1>8, <1>9 DEF O

LEMMA CopathLists ==
  ASSUME NEW S, S \subseteq Nat, IsFiniteSet(S), NEW d \in 0 .. LeafDepth
  PROVE  Lists(CopathAt(S, d), CopathSet(S, d))
<1>1. CopathAt(S, d) = Ascending(CopathSet(S, d))
  BY DEF CopathAt, CopathSet
<1>2. QED
  BY <1>1, OnPathAtFacts, AscendingLists

(* The canonical order of the inner siblings has each of them once.        *)
SlotsAt(S, d) == {<<d, p>> : p \in CopathSet(S, d)}

LEMMA SlotsList ==
  ASSUME NEW S, S \subseteq Nat, IsFiniteSet(S), NEW d \in 0 .. LeafDepth
  PROVE  Lists([k \in DOMAIN CopathAt(S, d) |-> <<d, CopathAt(S, d)[k]>>], SlotsAt(S, d))
<1> DEFINE c == CopathAt(S, d)
           C == CopathSet(S, d)
           s == [k \in DOMAIN c |-> <<d, c[k]>>]
           T == SlotsAt(S, d)
<1>2. Lists(c, C)
  BY CopathLists
<1>3. T = {<<d, p>> : p \in C}
  BY DEF SlotsAt
<1> HIDE DEF c, C, T
<1>5. /\ Len(c) \in Nat /\ DOMAIN c = 1 .. Len(c)
      /\ \A k \in 1 .. Len(c) : c[k] \in C
      /\ \A p \in C : \E k \in 1 .. Len(c) : c[k] = p
      /\ \A a, b \in 1 .. Len(c) : c[a] = c[b] => a = b
  BY <1>2 DEF Lists, ToSet
<1>6. s \in Seq(T) /\ Len(s) = Len(c) /\ DOMAIN s = 1 .. Len(c)
  <2>1. s = [k \in 1 .. Len(c) |-> s[k]] /\ \A k \in 1 .. Len(c) : s[k] \in T
    BY <1>3, <1>5
  <2> HIDE DEF s
  <2>2. QED
    BY <1>5, <2>1, FunctionSeq
<1>7. \A k \in 1 .. Len(c) : s[k] = <<d, c[k]>>
  BY <1>5
<1> HIDE DEF s
<1>8. ToSet(s) = T
  <2>1. ASSUME NEW k \in 1 .. Len(c) PROVE s[k] \in T
    BY <1>3, <1>5, <1>7
  <2>2. ASSUME NEW t \in T PROVE \E k \in 1 .. Len(c) : s[k] = t
    <3>1. PICK p \in C : t = <<d, p>>
      BY <1>3
    <3>2. PICK k \in 1 .. Len(c) : c[k] = p
      BY <1>5
    <3>3. QED
      BY <1>7, <3>1, <3>2
  <2>3. ToSet(s) = {s[k] : k \in 1 .. Len(c)}
    BY <1>6 DEF ToSet
  <2>4. QED
    BY <2>1, <2>2, <2>3
<1>9. \A a, b \in 1 .. Len(s) : s[a] = s[b] => a = b
  BY <1>5, <1>6, <1>7
<1>10. Lists(s, T)
  BY <1>6, <1>8, <1>9 DEF Lists
<1>11. QED
  BY <1>10 DEF s, c, T

LEMMA InnerSlotsList ==
  ASSUME NEW S, S \subseteq Nat, IsFiniteSet(S)
  PROVE  Lists(InnerSlots(S), UNION {SlotsAt(S, d) : d \in 1 .. (LeafDepth - 1)})
<1> DEFINE n == LeafDepth - 1
           seqs == [d \in 1 .. n |-> [k \in DOMAIN CopathAt(S, d) |-> <<d, CopathAt(S, d)[k]>>]]
           sets == [d \in 1 .. n |-> SlotsAt(S, d)]
<1>1. n \in Nat /\ 1 .. n \subseteq 0 .. LeafDepth
  BY HeightAssumption DEF LeafDepth
<1>2. ASSUME NEW d \in 1 .. n PROVE Lists(seqs[d], sets[d])
  <2>1. d \in 0 .. LeafDepth
    BY <1>1
  <2>2. Lists([k \in DOMAIN CopathAt(S, d) |-> <<d, CopathAt(S, d)[k]>>], SlotsAt(S, d))
    BY <2>1, SlotsList
  <2>3. QED
    BY <2>2
<1>3. ASSUME NEW d \in 1 .. n, NEW e \in 1 .. n, d # e PROVE sets[d] \cap sets[e] = {}
  BY <1>3 DEF SlotsAt
<1>4. InnerSlots(S) = FlattenSeq(seqs)
  BY DEF InnerSlots
<1>5. seqs = [d \in 1 .. n |-> seqs[d]]
  OBVIOUS
<1>6. {sets[d] : d \in 1 .. n} = {SlotsAt(S, d) : d \in 1 .. n}
  OBVIOUS
<1> HIDE DEF seqs, sets, n
<1>7. Lists(FlattenSeq(seqs), UNION {sets[d] : d \in 1 .. n})
  BY <1>1, <1>2, <1>3, <1>5, FlattenLists
<1>8. QED
  BY <1>4, <1>6, <1>7 DEF n

-----------------------------------------------------------------------------
(* The verifier's walk along a level meets the siblings in their order: it *)
(* needs the digests that were given, in the order in which they were.     *)
LEMMA SiblingsCount ==
  ASSUME NEW U, U \subseteq Nat, IsFiniteSet(U)
  PROVE  Cardinality({LeafSibling(p) : p \in U}) = Cardinality(U)
<1> DEFINE f == [p \in U |-> LeafSibling(p)]
           T == {LeafSibling(p) : p \in U}
<1>1. \A p, q \in U : LeafSibling(p) = LeafSibling(q) => p = q
  <2> SUFFICES ASSUME NEW p \in U, NEW q \in U, LeafSibling(p) = LeafSibling(q) PROVE p = q
    OBVIOUS
  <2>1. LeafSibling(LeafSibling(p)) = p /\ LeafSibling(LeafSibling(q)) = q
    BY SiblingFacts
  <2>2. QED
    BY <2>1
<1>2. f \in Bijection(U, T)
  BY <1>1 DEF Bijection, Injection, Surjection, IsInjective
<1> HIDE DEF f, T
<1>3. ExistsBijection(U, T)
  BY <1>2 DEF ExistsBijection
<1>4. Cardinality(T) = Cardinality(U)
  BY <1>3, FS_Bijection
<1>5. QED
  BY <1>4 DEF T

Rising(B) == \A p, q \in B : p < q => LeafSibling(p) < LeafSibling(q)

LEMMA SiblingRank ==
  ASSUME NEW B, B \subseteq Nat, IsFiniteSet(B), Rising(B), NEW p \in B
  PROVE  Rank({LeafSibling(q) : q \in B}, LeafSibling(p)) = Rank(B, p)
<1> DEFINE U == {q \in B : q <= p}
           T == {LeafSibling(q) : q \in B}
<1>1. ASSUME NEW q \in B PROVE LeafSibling(q) <= LeafSibling(p) <=> q <= p
  <2>1. LeafSibling(q) \in Nat /\ LeafSibling(p) \in Nat /\ q \in Nat /\ p \in Nat
    BY SiblingFacts
  <2>2. CASE q = p
    BY <2>1, <2>2
  <2>3. CASE q < p
    BY <2>1, <2>3 DEF Rising
  <2>4. CASE p < q
    BY <2>1, <2>4 DEF Rising
  <2>5. QED
    BY <2>1, <2>2, <2>3, <2>4
<1>2. {j \in T : j <= LeafSibling(p)} = {LeafSibling(q) : q \in U}
  <2>1. ASSUME NEW j \in T, j <= LeafSibling(p) PROVE j \in {LeafSibling(q) : q \in U}
    <3>1. PICK q \in B : j = LeafSibling(q)
      OBVIOUS
    <3>2. q \in U
      BY <1>1, <2>1, <3>1
    <3>3. QED
      BY <3>1, <3>2
  <2>2. ASSUME NEW q \in U PROVE LeafSibling(q) \in T /\ LeafSibling(q) <= LeafSibling(p)
    BY <1>1
  <2>3. QED
    BY <2>1, <2>2
<1>3. U \in SUBSET B /\ U \subseteq Nat
  OBVIOUS
<1> HIDE DEF U, T
<1>4. IsFiniteSet(U)
  BY <1>3, FS_Subset
<1>5. Cardinality({LeafSibling(q) : q \in U}) = Cardinality(U)
  BY <1>3, <1>4, SiblingsCount
<1>6. QED
  BY <1>2, <1>5 DEF Rank, U, T

LEMMA WalkAscends ==
  ASSUME NEW B, B \subseteq Nat, IsFiniteSet(B), Rising(B),
         NEW T, T = {LeafSibling(p) : p \in B}, T \subseteq Nat, IsFiniteSet(T)
  PROVE  /\ DOMAIN Ascending(B) = DOMAIN Ascending(T)
         /\ \A k \in DOMAIN Ascending(B) : LeafSibling(Ascending(B)[k]) = Ascending(T)[k]
<1>1. PICK n, a, b : n = Cardinality(B) /\ a = Ascending(B) /\ b = Ascending(T)
  OBVIOUS
<1>2. Cardinality(T) = n
  BY <1>1, SiblingsCount
<1>3. Ranked(a, B) /\ Ranked(b, T)
  BY <1>1, AscendingLists
<1>4. DOMAIN a = 1 .. n /\ DOMAIN b = 1 .. n
  <2>1. a = [k \in 1 .. n |-> a[k]] /\ b = [k \in 1 .. n |-> b[k]]
    BY <1>1, <1>2, <1>3 DEF Ranked
  <2>2. QED
    BY <2>1
<1>5. ASSUME NEW k \in 1 .. n PROVE LeafSibling(a[k]) = b[k]
  <2>1. a[k] \in B /\ Rank(B, a[k]) = k /\ b[k] \in T /\ Rank(T, b[k]) = k
    BY <1>1, <1>2, <1>3 DEF Ranked
  <2>2. Rank(T, LeafSibling(a[k])) = k
    BY <2>1, SiblingRank
  <2>3. LeafSibling(a[k]) \in T
    BY <2>1
  <2>4. QED
    BY <2>1, <2>2, <2>3, RankFacts
<1>6. QED
  BY <1>1, <1>4, <1>5

LEMMA BesideFacts ==
  ASSUME NEW S, S \subseteq Nat, IsFiniteSet(S), NEW d \in 0 .. LeafDepth
  PROVE  /\ Beside(S, d) \subseteq Nat /\ IsFiniteSet(Beside(S, d)) /\ Rising(Beside(S, d))
         /\ {LeafSibling(p) : p \in Beside(S, d)} = CopathSet(S, d)
<1>1. PICK O, B : O = OnPathAt(S, d) /\ B = Beside(S, d)
  OBVIOUS
<1>2. O \subseteq Nat /\ IsFiniteSet(O)
  BY <1>1, OnPathAtFacts
<1>3. B = {p \in O : LeafSibling(p) \notin O}
  BY <1>1 DEF Beside
<1>4. B \subseteq Nat /\ IsFiniteSet(B)
  <2>1. B \in SUBSET O
    BY <1>3
  <2>2. QED
    BY <1>2, <2>1, FS_Subset
<1>5. {LeafSibling(p) : p \in B} = CopathSet(S, d)
  <2>1. CopathSet(S, d) = {LeafSibling(p) : p \in O} \ O
    BY <1>1 DEF CopathSet
  <2>2. QED
    BY <1>3, <2>1
<1>6. ASSUME NEW p \in B, NEW q \in B, p < q PROVE LeafSibling(p) < LeafSibling(q)
  <2>1. p \in Nat /\ q \in Nat /\ q \in O /\ LeafSibling(p) \notin O
    BY <1>3, <1>4
  <2>2. PICK u, v, x, y : /\ u = p \div 2 /\ v = q \div 2
                          /\ x = LeafSibling(p) /\ y = LeafSibling(q)
    OBVIOUS
  <2>3. /\ u \in Nat /\ v \in Nat /\ u <= v
        /\ p \in 2 * u .. 2 * u + 1 /\ q \in 2 * v .. 2 * v + 1
    BY <1>6, <2>1, <2>2
  <2>4. {p, x} = {2 * u, 2 * u + 1} /\ {q, y} = {2 * v, 2 * v + 1}
    BY <2>1, <2>2, SiblingFacts
  <2>5. x # q
    BY <2>1, <2>2
  <2>6. x \in 2 * u .. 2 * u + 1 /\ y \in 2 * v .. 2 * v + 1
    <3>1. (x = 2 * u \/ x = 2 * u + 1) /\ (y = 2 * v \/ y = 2 * v + 1)
      BY <2>4
    <3>2. QED
      BY <2>3, <3>1
  <2>7. u # v
    <3>1. u = v => q \in {p, x}
      BY <2>4
    <3>2. QED
      BY <1>6, <2>1, <2>5, <3>1
  <2>8. QED
    BY <2>2, <2>3, <2>6, <2>7
<1>7. QED
  BY <1>1, <1>4, <1>5, <1>6 DEF Rising

LEMMA NeededIsGiven ==
  ASSUME NEW S, S \subseteq Nat, IsFiniteSet(S)
  PROVE  NeededLeaves(S) = CopathAt(S, LeafDepth) /\ NeededInner(S) = InnerSlots(S)
<1>0. LeafDepth \in 0 .. LeafDepth /\ 1 .. (LeafDepth - 1) \subseteq 0 .. LeafDepth
  BY HeightAssumption DEF LeafDepth
<1>1. ASSUME NEW d \in 0 .. LeafDepth PROVE CopathAt(S, d) = Ascending(CopathSet(S, d))
  BY DEF CopathAt, CopathSet
<1>2. NeededLeaves(S) = CopathAt(S, LeafDepth)
  <2>1. {LeafSibling(p) : p \in Beside(S, LeafDepth)} = CopathSet(S, LeafDepth)
    BY <1>0, BesideFacts
  <2>2. QED
    BY <1>0, <1>1, <2>1 DEF NeededLeaves
<1>3. ASSUME NEW d \in 1 .. (LeafDepth - 1)
      PROVE  NeededAt(S, d) = [k \in DOMAIN CopathAt(S, d) |-> <<d, CopathAt(S, d)[k]>>]
  <2>1. d \in 0 .. LeafDepth
    BY <1>0
  <2>2. PICK B, T, a, b : /\ B = Beside(S, d) /\ T = CopathSet(S, d)
                          /\ a = Ascending(B) /\ b = Ascending(T)
    OBVIOUS
  <2>3. /\ B \subseteq Nat /\ IsFiniteSet(B) /\ Rising(B)
        /\ T = {LeafSibling(p) : p \in B} /\ T \subseteq Nat /\ IsFiniteSet(T)
    BY <2>1, <2>2, BesideFacts, OnPathAtFacts
  <2>4. DOMAIN a = DOMAIN b /\ \A k \in DOMAIN a : LeafSibling(a[k]) = b[k]
    BY <2>2, <2>3, WalkAscends
  <2>5. CopathAt(S, d) = b
    BY <1>1, <2>1, <2>2
  <2>6. NeededAt(S, d) = [k \in DOMAIN a |-> <<d, LeafSibling(a[k])>>]
    BY <2>2 DEF NeededAt
  <2>7. QED
    BY <2>4, <2>5, <2>6
<1>4. NeededInner(S) = InnerSlots(S)
  <2>1. [d \in 1 .. (LeafDepth - 1) |-> NeededAt(S, d)]
          = [d \in 1 .. (LeafDepth - 1) |->
               [k \in DOMAIN CopathAt(S, d) |-> <<d, CopathAt(S, d)[k]>>]]
    BY <1>3
  <2>2. QED
    BY <2>1 DEF NeededInner, InnerSlots
<1>5. QED
  BY <1>2, <1>4

(* The digests a multi-proof gives at a depth.                             *)
GivenAt(S, d) == {s[2] : s \in {t \in ToSet(InnerSlots(S)) : t[1] = d}}

LEMMA GivenFacts ==
  ASSUME NEW S, S \subseteq Nat, IsFiniteSet(S), NEW d \in 0 .. (LeafDepth - 1)
  PROVE  /\ GivenAt(S, d) = IF d = 0 THEN {} ELSE CopathSet(S, d)
         /\ \A p \in GivenAt(S, d) :
              \E k \in DOMAIN InnerSlots(S) : InnerSlots(S)[k] = <<d, p>>
<1> DEFINE n == LeafDepth - 1
           all == UNION {SlotsAt(S, e) : e \in 1 .. n}
<1>1. ToSet(InnerSlots(S)) = all
  BY InnerSlotsList DEF Lists
<1>2. n \in Nat /\ (d # 0 => d \in 1 .. n) /\ ~(0 \in 1 .. n)
  BY HeightAssumption DEF LeafDepth
<1>3. \A t \in all : \E e \in 1 .. n : \E p \in CopathSet(S, e) : t = <<e, p>>
  BY DEF SlotsAt
<1>4. \A e \in 1 .. n : \A p \in CopathSet(S, e) : <<e, p>> \in all
  BY DEF SlotsAt
<1> HIDE DEF all, n
<1>5. GivenAt(S, d) = IF d = 0 THEN {} ELSE CopathSet(S, d)
  <2>1. ASSUME NEW p \in GivenAt(S, d) PROVE d # 0 /\ p \in CopathSet(S, d)
    <3>1. PICK t \in all : t[1] = d /\ t[2] = p
      BY <1>1 DEF GivenAt
    <3>2. PICK e \in 1 .. n : \E q \in CopathSet(S, e) : t = <<e, q>>
      BY <1>3
    <3>3. QED
      BY <1>2, <3>1, <3>2
  <2>2. ASSUME d # 0, NEW p \in CopathSet(S, d) PROVE p \in GivenAt(S, d)
    <3>1. <<d, p>> \in all
      BY <1>2, <1>4, <2>2
    <3>2. <<d, p>>[1] = d /\ <<d, p>>[2] = p
      OBVIOUS
    <3>3. QED
      BY <1>1, <3>1, <3>2 DEF GivenAt
  <2>3. QED
    BY <2>1, <2>2
<1>6. ASSUME NEW p \in GivenAt(S, d)
      PROVE  \E k \in DOMAIN InnerSlots(S) : InnerSlots(S)[k] = <<d, p>>
  <2>1. d \in 1 .. n /\ p \in CopathSet(S, d)
    BY <1>2, <1>5
  <2>2. <<d, p>> \in ToSet(InnerSlots(S))
    BY <1>1, <1>4, <2>1
  <2>3. QED
    BY <2>2 DEF ToSet
<1>7. QED
  BY <1>5, <1>6

(* The two nodes under a node of a path are on a path or given.            *)
LEMMA ChildrenKnown ==
  ASSUME NEW S, S \subseteq Nat, IsFiniteSet(S), NEW d \in 1 .. LeafDepth,
         NEW p \in OnPathAt(S, d - 1)
  PROVE  /\ p \in Nat
         /\ 2 * p \in OnPathAt(S, d) \cup CopathSet(S, d)
         /\ 2 * p + 1 \in OnPathAt(S, d) \cup CopathSet(S, d)
<1>1. d \in 0 .. LeafDepth /\ d > 0
  OBVIOUS
<1>2. /\ OnPathAt(S, d) \subseteq Nat
      /\ OnPathAt(S, d - 1) = {q \div 2 : q \in OnPathAt(S, d)}
  BY <1>1, OnPathAtFacts
<1>3. PICK q \in OnPathAt(S, d) : p = q \div 2
  BY <1>2
<1>4. q \in Nat
  BY <1>2
<1>5. {q, LeafSibling(q)} = {2 * p, 2 * p + 1} /\ p \in Nat
  <2>1. {q, LeafSibling(q)} = {2 * (q \div 2), 2 * (q \div 2) + 1}
    BY <1>4, SiblingFacts
  <2>2. q \div 2 \in Nat
    BY <1>4
  <2>3. QED
    BY <1>3, <2>1, <2>2
<1>6. LeafSibling(q) \in OnPathAt(S, d) \cup CopathSet(S, d)
  BY DEF CopathSet
<1>7. PICK a, b : a = 2 * p /\ b = 2 * p + 1
  OBVIOUS
<1>8. a \in {q, LeafSibling(q)} /\ b \in {q, LeafSibling(q)}
  BY <1>5, <1>7
<1>9. \A x \in {q, LeafSibling(q)} : x \in OnPathAt(S, d) \cup CopathSet(S, d)
  BY <1>6
<1>10. QED
  BY <1>5, <1>7, <1>8, <1>9

-----------------------------------------------------------------------------
(* The digests of a tree, level by level.                                  *)
TreeAt(ls, d, p) == Digests(ls)[LevelIndex(d, p)]

Level(d) == 0 .. (Width(d) - 1)

LEMMA LevelChildren ==
  ASSUME NEW d \in 0 .. (LeafDepth - 1), NEW p \in Level(d)
  PROVE  /\ p \in Nat /\ d + 1 \in 0 .. LeafDepth
         /\ 2 * p \in Level(d + 1) /\ 2 * p + 1 \in Level(d + 1)
         /\ LevelIndex(d, p) \in LevelNodes(d)
         /\ LeftChild(LevelIndex(d, p)) = LevelIndex(d + 1, 2 * p)
         /\ RightChild(LevelIndex(d, p)) = LevelIndex(d + 1, 2 * p + 1)
<1>1. d \in 0 .. (Height - 1) /\ d + 1 \in 1 .. (Height - 1) /\ d + 1 - 1 = d
      /\ d + 1 \in 0 .. LeafDepth
  BY HeightAssumption DEF LeafDepth
<1>2. PICK w, v : w = Width(d) /\ w \in Nat /\ w >= 1 /\ v = Width(d + 1) /\ v = 2 * w
  <2>1. Width(d) \in Nat /\ Width(d) >= 1 /\ Width(d + 1) = 2 * Width(d)
    BY <1>1, WidthFacts
  <2>2. QED
    BY <2>1
<1>3. p \in Nat /\ p <= w - 1
  BY <1>2 DEF Level
<1>4. 2 * p \in 0 .. (v - 1) /\ 2 * p + 1 \in 0 .. (v - 1)
  BY <1>2, <1>3
<1>5. LevelIndex(d, p) = w - 1 + p /\ w - 1 + p \in (w - 1) .. (2 * w - 2)
  BY <1>2, <1>3 DEF LevelIndex
<1>6. /\ LeftChild(LevelIndex(d, p)) = v - 1 + 2 * p
      /\ RightChild(LevelIndex(d, p)) = v - 1 + (2 * p + 1)
  BY <1>2, <1>3, <1>5 DEF LeftChild, RightChild
<1>7. QED
  BY <1>1, <1>2, <1>3, <1>4, <1>5, <1>6 DEF Level, LevelNodes, LevelIndex

LEMMA TreeAtChildren ==
  ASSUME NEW ls, NEW d \in 0 .. (LeafDepth - 1), NEW p \in Level(d)
  PROVE  /\ d = LeafDepth - 1 =>
              TreeAt(ls, d, p) = Evaluate(Convert(ls[2 * p]), Convert(ls[2 * p + 1]))
         /\ d # LeafDepth - 1 =>
              TreeAt(ls, d, p)
                = Compress(TreeAt(ls, d + 1, 2 * p), TreeAt(ls, d + 1, 2 * p + 1))
<1> DEFINE k == LevelIndex(d, p)
<1>1. /\ p \in Nat /\ k \in LevelNodes(d)
      /\ 2 * p \in Level(d + 1) /\ 2 * p + 1 \in Level(d + 1)
      /\ LeftChild(k) = LevelIndex(d + 1, 2 * p)
      /\ RightChild(k) = LevelIndex(d + 1, 2 * p + 1)
  BY LevelChildren
<1>2. k \in Inner
  <2>1. d \in 0 .. (Height - 2)
    BY HeightAssumption DEF LeafDepth
  <2>2. QED
    BY <1>1, <2>1, LevelInner
<1>3. Digests(ls)[k] = NodeHash(ls, Digests(ls), k)
  BY <1>2, DigestsAgree
<1> HIDE DEF k
<1>4. CASE d = LeafDepth - 1
  <2>1. d + 1 = Height - 1
    BY <1>4, HeightAssumption DEF LeafDepth
  <2>2. /\ LeftChild(k) = NumLeaves - 1 + 2 * p
        /\ RightChild(k) = NumLeaves - 1 + (2 * p + 1)
    BY <1>1, <2>1, WidthFacts DEF LevelIndex
  <2>3. IsBottom(k) /\ LeftChild(k) - (NumLeaves - 1) = 2 * p
        /\ RightChild(k) - (NumLeaves - 1) = 2 * p + 1
    BY <1>1, <2>2, WidthFacts DEF IsBottom
  <2>4. QED
    BY <1>3, <1>4, <2>3 DEF NodeHash, TreeAt, k
<1>5. CASE d # LeafDepth - 1
  <2>1. d + 1 \in 0 .. (LeafDepth - 1) /\ d + 1 \in 0 .. (Height - 2)
    BY <1>5, HeightAssumption DEF LeafDepth
  <2>2. LeftChild(k) \in LevelNodes(d + 1)
    BY <1>1, <2>1, LevelChildren
  <2>3. LeftChild(k) \in Inner
    BY <2>1, <2>2, LevelInner
  <2>4. ~IsBottom(k)
    BY <2>3, WidthFacts DEF IsBottom, Inner
  <2>5. QED
    BY <1>1, <1>3, <1>5, <2>4 DEF NodeHash, TreeAt, k
<1>6. QED
  BY <1>4, <1>5

(* The positions of the leaf level are the leaves, the one of the root     *)
(* level is the root.                                                      *)
LEMMA LevelEnds ==
  /\ Level(LeafDepth) = LeafIndices
  /\ Level(0) = {0} /\ LevelIndex(0, 0) = 0
  /\ LeafDepth \in Nat /\ LeafDepth >= 1
<1>1. Level(LeafDepth) = LeafIndices
  BY WidthFacts DEF Level, LeafIndices, LeafDepth
<1>2. Level(0) = {0} /\ LevelIndex(0, 0) = 0
  BY WidthFacts DEF Level, LevelIndex
<1>3. QED
  BY <1>1, <1>2, HeightAssumption DEF LeafDepth

(* Downwards through the levels above the leaves.                          *)
LEMMA InductionOnLevels ==
  ASSUME NEW T, LeafDepth - 1 \in T,
         \A d \in 0 .. (LeafDepth - 2) : d + 1 \in T => d \in T
  PROVE  0 .. (LeafDepth - 1) \subseteq T
<1> DEFINE S == {m \in Nat : m <= LeafDepth - 1 => LeafDepth - 1 - m \in T}
<1>0. PICK n : n = LeafDepth - 1 /\ n \in Nat
  BY LevelEnds
<1>1. 0 \in S
  BY <1>0
<1>2. ASSUME NEW m \in Nat, m \in S PROVE m + 1 \in S
  <2> SUFFICES ASSUME m + 1 <= n PROVE n - (m + 1) \in T
    BY <1>0
  <2>1. n - m \in T
    BY <1>0, <1>2
  <2>2. PICK d : d = n - (m + 1)
    OBVIOUS
  <2>3. d \in 0 .. (LeafDepth - 2) /\ d + 1 = n - m
    BY <1>0, <2>2, LevelEnds
  <2>4. QED
    BY <2>1, <2>2, <2>3
<1>3. Nat \subseteq S
  <2> HIDE DEF S
  <2>1. QED
    BY <1>1, <1>2, InductionOnSet
<1>4. ASSUME NEW d \in 0 .. n PROVE d \in T
  <2>1. PICK m : m = n - d
    OBVIOUS
  <2>2. m \in Nat /\ m <= n /\ n - m = d
    BY <1>0, <2>1
  <2>3. QED
    BY <1>0, <1>3, <2>2
<1>5. QED
  BY <1>0, <1>4

(* A node that is on no path has the same digest in trees that differ only *)
(* in the opened leaves.                                                   *)
SameOff(a, b, S) == \A i \in LeafIndices : i \notin S => a[i] = b[i]

SameOffPath(a, b, S) ==
  \A d \in 0 .. (LeafDepth - 1) : \A p \in Level(d) :
    p \notin OnPathAt(S, d) => TreeAt(a, d, p) = TreeAt(b, d, p)

LEMMA OffPathSame ==
  ASSUME NEW S, S \subseteq Nat, IsFiniteSet(S), NEW a, NEW b, SameOff(a, b, S)
  PROVE  SameOffPath(a, b, S)
<1> DEFINE T == {e \in 0 .. (LeafDepth - 1) :
                   \A q \in Level(e) : q \notin OnPathAt(S, e)
                                         => TreeAt(a, e, q) = TreeAt(b, e, q)}
<1>0. LeafDepth \in Nat /\ LeafDepth >= 1
  BY LevelEnds
<1>1. ASSUME NEW e \in 0 .. (LeafDepth - 1), NEW q \in Level(e), q \notin OnPathAt(S, e)
      PROVE  /\ 2 * q \in Level(e + 1) /\ 2 * q + 1 \in Level(e + 1)
             /\ 2 * q \notin OnPathAt(S, e + 1) /\ 2 * q + 1 \notin OnPathAt(S, e + 1)
  <2>1. q \in Nat /\ 2 * q \in Level(e + 1) /\ 2 * q + 1 \in Level(e + 1)
        /\ e + 1 \in 0 .. LeafDepth
    BY LevelChildren
  <2>2. (2 * q) \div 2 = q /\ (2 * q + 1) \div 2 = q
    BY <2>1
  <2>3. e + 1 > 0 /\ e + 1 - 1 = e
    OBVIOUS
  <2>4. OnPathAt(S, e) = {r \div 2 : r \in OnPathAt(S, e + 1)}
    <3>1. PICK f : f = e + 1
      OBVIOUS
    <3>2. f \in 0 .. LeafDepth /\ f > 0 /\ f - 1 = e
      BY <2>1, <3>1
    <3>3. OnPathAt(S, f - 1) = {r \div 2 : r \in OnPathAt(S, f)}
      BY <3>2, OnPathAtFacts
    <3>4. QED
      BY <3>1, <3>2, <3>3
  <2>5. \A r \in OnPathAt(S, e + 1) : r \div 2 # q
    BY <1>1, <2>4
  <2>6. QED
    BY <2>1, <2>2, <2>5
<1>2. LeafDepth - 1 \in T
  <2> SUFFICES ASSUME NEW q \in Level(LeafDepth - 1), q \notin OnPathAt(S, LeafDepth - 1)
               PROVE  TreeAt(a, LeafDepth - 1, q) = TreeAt(b, LeafDepth - 1, q)
    BY <1>0
  <2>1. PICK e : e = LeafDepth - 1 /\ e \in 0 .. (LeafDepth - 1) /\ e + 1 = LeafDepth
    BY <1>0
  <2>2. /\ 2 * q \in LeafIndices /\ 2 * q + 1 \in LeafIndices
        /\ 2 * q \notin OnPathAt(S, LeafDepth) /\ 2 * q + 1 \notin OnPathAt(S, LeafDepth)
    BY <1>1, <2>1, LevelEnds
  <2>3. OnPathAt(S, LeafDepth) = S
    <3>1. LeafDepth \in 0 .. LeafDepth
      BY <1>0
    <3>2. QED
      BY <3>1, OnPathAtFacts
  <2>4. a[2 * q] = b[2 * q] /\ a[2 * q + 1] = b[2 * q + 1]
    BY <2>2, <2>3 DEF SameOff
  <2>5. /\ TreeAt(a, e, q) = Evaluate(Convert(a[2 * q]), Convert(a[2 * q + 1]))
        /\ TreeAt(b, e, q) = Evaluate(Convert(b[2 * q]), Convert(b[2 * q + 1]))
    BY <2>1, TreeAtChildren
  <2>6. QED
    BY <2>1, <2>4, <2>5
<1>3. ASSUME NEW e \in 0 .. (LeafDepth - 2), e + 1 \in T PROVE e \in T
  <2>0. e \in 0 .. (LeafDepth - 1) /\ e # LeafDepth - 1
    BY <1>0
  <2> SUFFICES ASSUME NEW q \in Level(e), q \notin OnPathAt(S, e)
               PROVE  TreeAt(a, e, q) = TreeAt(b, e, q)
    BY <2>0
  <2>1. /\ TreeAt(a, e + 1, 2 * q) = TreeAt(b, e + 1, 2 * q)
        /\ TreeAt(a, e + 1, 2 * q + 1) = TreeAt(b, e + 1, 2 * q + 1)
    BY <1>1, <1>3, <2>0
  <2>2. /\ TreeAt(a, e, q) = Compress(TreeAt(a, e + 1, 2 * q), TreeAt(a, e + 1, 2 * q + 1))
        /\ TreeAt(b, e, q) = Compress(TreeAt(b, e + 1, 2 * q), TreeAt(b, e + 1, 2 * q + 1))
    BY <2>0, TreeAtChildren
  <2>3. QED
    BY <2>1, <2>2
<1>4. 0 .. (LeafDepth - 1) \subseteq T
  <2> HIDE DEF T
  <2>1. QED
    BY <1>2, <1>3, InductionOnLevels
<1>5. QED
  BY <1>4 DEF SameOffPath

-----------------------------------------------------------------------------
(* Levels is a recursive function from the level above the leaves to the   *)
(* root: it exists.  A row of it, over the row below.                      *)
LevelRow(proof, S, leafLevel, d, below) ==
  [p \in OnPathAt(S, d) \cup GivenAt(S, d) |->
     IF p \in GivenAt(S, d)
     THEN proof.inner_copath[CHOOSE k \in DOMAIN InnerSlots(S) : InnerSlots(S)[k] = <<d, p>>]
     ELSE IF d = LeafDepth - 1
     THEN Evaluate(Convert(leafLevel[2 * p]), Convert(leafLevel[2 * p + 1]))
     ELSE Compress(below[2 * p], below[2 * p + 1])]

IsLevels(proof, S, leafLevel, lo, f) ==
  f = [d \in lo .. (LeafDepth - 1) |-> LevelRow(proof, S, leafLevel, d, f[d + 1])]

LEMMA BottomRow ==
  ASSUME NEW proof, NEW S, NEW leafLevel, NEW x, NEW y
  PROVE  LevelRow(proof, S, leafLevel, LeafDepth - 1, x)
           = LevelRow(proof, S, leafLevel, LeafDepth - 1, y)
<1>1. PICK d : d = LeafDepth - 1
  OBVIOUS
<1>2. LevelRow(proof, S, leafLevel, d, x) = LevelRow(proof, S, leafLevel, d, y)
  BY <1>1 DEF LevelRow
<1>3. QED
  BY <1>1, <1>2

LEMMA LevelsExist ==
  ASSUME NEW proof, NEW S, NEW leafLevel
  PROVE  \E f : IsLevels(proof, S, leafLevel, 0, f)
<1> DEFINE Row(d, below) == LevelRow(proof, S, leafLevel, d, below)
           T == {d \in 0 .. (LeafDepth - 1) : \E f : IsLevels(proof, S, leafLevel, d, f)}
<1>0. PICK n : n = LeafDepth - 1 /\ n \in Nat
  BY LevelEnds
<1>1. \A x, y : Row(n, x) = Row(n, y)
  BY <1>0, BottomRow
<1>2. \A lo, f : IsLevels(proof, S, leafLevel, lo, f)
                   <=> f = [d \in lo .. n |-> Row(d, f[d + 1])]
  BY <1>0 DEF IsLevels
<1> HIDE DEF Row
<1>3. LeafDepth - 1 \in T
  <2> DEFINE f == [d \in n .. n |-> Row(n, 0)]
  <2>1. ASSUME NEW d \in n .. n PROVE f[d] = Row(d, f[d + 1])
    <3>1. d = n
      BY <1>0
    <3>2. f[d] = Row(n, 0)
      OBVIOUS
    <3> HIDE DEF f
    <3>3. QED
      BY <1>1, <3>1, <3>2
  <2>2. f = [d \in n .. n |-> f[d]]
    OBVIOUS
  <2> HIDE DEF f
  <2>3. f = [d \in n .. n |-> Row(d, f[d + 1])]
    BY <2>1, <2>2
  <2>4. IsLevels(proof, S, leafLevel, n, f)
    BY <1>2, <2>3
  <2>5. n \in 0 .. (LeafDepth - 1)
    BY <1>0
  <2>6. QED
    BY <1>0, <2>4, <2>5
<1>4. ASSUME NEW d \in 0 .. (LeafDepth - 2), d + 1 \in T PROVE d \in T
  <2>1. PICK f : f = [e \in (d + 1) .. n |-> Row(e, f[e + 1])]
    BY <1>2, <1>4
  <2> DEFINE g == [e \in d .. n |-> IF e = d THEN Row(d, f[d + 1]) ELSE f[e]]
  <2>0. d \in Nat /\ d + 1 <= n /\ d \in 0 .. (LeafDepth - 1)
    BY <1>0, LevelEnds
  <2>2. ASSUME NEW e \in d .. n PROVE g[e] = Row(e, g[e + 1])
    <3>1. CASE e = d
      <4>1. e + 1 \in d .. n /\ e + 1 # d
        BY <1>0, <2>0, <3>1
      <4>2. g[e + 1] = f[e + 1] /\ g[e] = Row(d, f[d + 1])
        BY <3>1, <4>1
      <4> HIDE DEF g
      <4>3. QED
        BY <3>1, <4>2
    <3>2. CASE e # d
      <4>1. e \in (d + 1) .. n
        BY <1>0, <2>0, <3>2
      <4>2. f[e] = Row(e, f[e + 1])
        <5>1. \A h : h = [c \in (d + 1) .. n |-> Row(c, f[c + 1])] => h[e] = Row(e, f[e + 1])
          BY <4>1
        <5>2. QED
          BY <2>1, <5>1
      <4>3. g[e] = f[e]
        BY <3>2
      <4>4. CASE e = n
        <5> HIDE DEF g
        <5>1. QED
          BY <1>1, <4>2, <4>3, <4>4
      <4>5. CASE e # n
        <5>1. e + 1 \in d .. n /\ e + 1 # d
          BY <1>0, <2>0, <4>1, <4>5
        <5>2. g[e + 1] = f[e + 1]
          BY <5>1
        <5> HIDE DEF g
        <5>3. QED
          BY <4>2, <4>3, <5>2
      <4>6. QED
        BY <4>4, <4>5
    <3>3. QED
      BY <3>1, <3>2
  <2>3. g = [e \in d .. n |-> g[e]]
    OBVIOUS
  <2> HIDE DEF g
  <2>4. g = [e \in d .. n |-> Row(e, g[e + 1])]
    BY <2>2, <2>3
  <2>5. QED
    BY <1>2, <2>0, <2>4
<1>5. 0 \in T
  <2>1. 0 \in 0 .. (LeafDepth - 1)
    BY <1>0
  <2> HIDE DEF T
  <2>2. QED
    BY <1>3, <1>4, <2>1, InductionOnLevels
<1>6. QED
  BY <1>5

LEMMA LevelsRows ==
  ASSUME NEW proof, NEW S, S \subseteq Nat, IsFiniteSet(S), NEW leafLevel,
         NEW d \in 0 .. (LeafDepth - 1)
  PROVE  Levels(proof, S, leafLevel)[d]
           = LevelRow(proof, S, leafLevel, d, Levels(proof, S, leafLevel)[d + 1])
<1> DEFINE F(f) == [e \in 0 .. (LeafDepth - 1) |->
                      LevelRow(proof, S, leafLevel, e, f[e + 1])]
           lv == CHOOSE f : f = F(f)
<1>0. PICK f : IsLevels(proof, S, leafLevel, 0, f)
  BY LevelsExist
<1>1. f = F(f)
  BY <1>0 DEF IsLevels
<1>2. Levels(proof, S, leafLevel) = lv
  <2>1. NeededInner(S) = InnerSlots(S)
    BY NeededIsGiven
  <2>2. QED
    BY <2>1 DEF Levels, LevelRow, GivenAt
<1>3. lv = F(lv)
  <2> HIDE DEF F
  <2>1. QED
    BY <1>1
<1> HIDE DEF lv
<1>4. lv[d] = LevelRow(proof, S, leafLevel, d, lv[d + 1])
  BY <1>3
<1>5. QED
  BY <1>2, <1>4

-----------------------------------------------------------------------------
(* The multi-proof generate_multi_proof makes of leaves and inner digests. *)
CoPathFrom(S, ls, ns) ==
  [kind |-> "copath",
   tree_height |-> Height,
   leaf_copath |-> [k \in DOMAIN CopathAt(S, LeafDepth) |->
                      ls[CopathAt(S, LeafDepth)[k]]],
   inner_copath |-> [k \in DOMAIN InnerSlots(S) |->
                       ns[LevelIndex(InnerSlots(S)[k][1], InnerSlots(S)[k][2])]],
   leaf_indexes |-> Ascending(S)]

(* The vector it speaks of when it is checked with some leaves.            *)
ClaimedOver(S, ls, opened) ==
  [i \in LeafIndices |->
     IF i \in S THEN LeafHash(opened[CHOOSE k \in DOMAIN opened : Ascending(S)[k] = i])
                ELSE ls[i]]

FiniteQuery(S) == S \subseteq Nat /\ IsFiniteSet(S)

LEMMA CoPathFields ==
  ASSUME NEW S, FiniteQuery(S), NEW ls, NEW ns, NEW c, c = CoPathFrom(S, ls, ns)
  PROVE  /\ c.kind = "copath" /\ c.tree_height = Height
         /\ c.leaf_indexes = Ascending(S)
         /\ ToSet(c.leaf_indexes) = S
         /\ Len(c.leaf_indexes) \in Nat /\ DOMAIN Ascending(S) = 1 .. Len(c.leaf_indexes)
         /\ Len(c.leaf_copath) = Len(CopathAt(S, LeafDepth))
         /\ Len(c.inner_copath) = Len(InnerSlots(S))
         /\ \A k \in DOMAIN CopathAt(S, LeafDepth) :
              c.leaf_copath[k] = ls[CopathAt(S, LeafDepth)[k]]
         /\ \A k \in DOMAIN InnerSlots(S) :
              c.inner_copath[k]
                = ns[LevelIndex(InnerSlots(S)[k][1], InnerSlots(S)[k][2])]
<1>1. /\ c.kind = "copath" /\ c.tree_height = Height
      /\ c.leaf_indexes = Ascending(S)
      /\ c.leaf_copath = [k \in DOMAIN CopathAt(S, LeafDepth) |->
                            ls[CopathAt(S, LeafDepth)[k]]]
      /\ c.inner_copath = [k \in DOMAIN InnerSlots(S) |->
                             ns[LevelIndex(InnerSlots(S)[k][1], InnerSlots(S)[k][2])]]
  BY DEF CoPathFrom
<1>2. Lists(Ascending(S), S)
  BY AscendingLists DEF FiniteQuery
<1>3. Lists(CopathAt(S, LeafDepth), CopathSet(S, LeafDepth))
  <2>1. LeafDepth \in 0 .. LeafDepth
    BY LevelEnds
  <2>2. QED
    BY <2>1, CopathLists DEF FiniteQuery
<1>4. Lists(InnerSlots(S), UNION {SlotsAt(S, d) : d \in 1 .. (LeafDepth - 1)})
  BY InnerSlotsList DEF FiniteQuery
<1>5. \A s, T : Lists(s, T) => Len(s) \in Nat /\ DOMAIN s = 1 .. Len(s)
  BY DEF Lists
<1>6. ASSUME NEW f, NEW s, Len(s) \in Nat, DOMAIN s = 1 .. Len(s),
             f = [k \in DOMAIN s |-> f[k]]
      PROVE  Len(f) = Len(s)
  <2>1. f = [k \in 1 .. Len(s) |-> f[k]]
    BY <1>6
  <2>2. \A k \in 1 .. Len(s) : f[k] \in {f[j] : j \in 1 .. Len(s)}
    OBVIOUS
  <2>3. QED
    BY <1>6, <2>1, <2>2, FunctionSeq
<1>7. Len(c.leaf_copath) = Len(CopathAt(S, LeafDepth))
  <2>1. c.leaf_copath = [k \in DOMAIN CopathAt(S, LeafDepth) |-> c.leaf_copath[k]]
    BY <1>1
  <2>2. QED
    BY <1>3, <1>5, <1>6, <2>1
<1>8. Len(c.inner_copath) = Len(InnerSlots(S))
  <2>1. c.inner_copath = [k \in DOMAIN InnerSlots(S) |-> c.inner_copath[k]]
    BY <1>1
  <2>2. QED
    BY <1>4, <1>5, <1>6, <2>1
<1>9. ToSet(c.leaf_indexes) = S /\ Len(c.leaf_indexes) \in Nat
      /\ DOMAIN Ascending(S) = 1 .. Len(c.leaf_indexes)
  BY <1>1, <1>2, <1>5 DEF Lists
<1>10. QED
  BY <1>1, <1>7, <1>8, <1>9

(* The leaf level of the verifier is the one of the vector.                *)
LEMMA LeafLevelIs ==
  ASSUME NEW S, FiniteQuery(S), NEW ls, NEW ns, NEW c, c = CoPathFrom(S, ls, ns),
         NEW opened, DOMAIN opened = 1 .. Len(c.leaf_indexes),
         NEW i \in LeafIndices, i \in S \cup CopathSet(S, LeafDepth)
  PROVE  LeafLevel(c, opened, CopathAt(S, LeafDepth))[i] = ClaimedOver(S, ls, opened)[i]
<1> DEFINE slots == CopathAt(S, LeafDepth)
           there(k) == k \in DOMAIN opened /\ c.leaf_indexes[k] = i
<1>1. /\ c.leaf_indexes = Ascending(S) /\ ToSet(c.leaf_indexes) = S
      /\ \A k \in DOMAIN slots : c.leaf_copath[k] = ls[slots[k]]
  BY CoPathFields
<1>2. ToSet(slots) = CopathSet(S, LeafDepth)
  <2>1. LeafDepth \in 0 .. LeafDepth
    BY LevelEnds
  <2>2. QED
    BY <2>1, CopathLists DEF FiniteQuery, Lists
<1>3. LeafLevel(c, opened, slots)[i]
        = IF i \in S
          THEN LeafHash(opened[CHOOSE k \in DOMAIN opened : c.leaf_indexes[k] = i])
          ELSE c.leaf_copath[CHOOSE k \in DOMAIN slots : slots[k] = i]
  <2> HIDE DEF slots
  <2>1. QED
    BY <1>1, <1>2 DEF LeafLevel
<1>4. CASE i \in S
  BY <1>1, <1>3, <1>4 DEF ClaimedOver
<1>5. CASE i \notin S
  <2>1. i \in ToSet(slots)
    BY <1>2, <1>5
  <2>2. PICK k : k = CHOOSE j \in DOMAIN slots : slots[j] = i
    OBVIOUS
  <2> HIDE DEF slots
  <2>3. k \in DOMAIN slots /\ slots[k] = i
    BY <2>1, <2>2 DEF ToSet
  <2>4. c.leaf_copath[k] = ls[i]
    BY <1>1, <2>3
  <2>5. QED
    BY <1>3, <1>5, <2>2, <2>4 DEF ClaimedOver, slots
<1>6. QED
  BY <1>4, <1>5

(* And so is every digest it computes or is given, as far as the position  *)
(* is one of the tree.                                                     *)
LEMMA LevelsAreTree ==
  ASSUME NEW S, FiniteQuery(S), NEW ls, NEW c, c = CoPathFrom(S, ls, Digests(ls)),
         NEW opened, DOMAIN opened = 1 .. Len(c.leaf_indexes),
         NEW d \in 0 .. (LeafDepth - 1), NEW p \in Level(d),
         p \in OnPathAt(S, d) \cup GivenAt(S, d)
  PROVE  Levels(c, S, LeafLevel(c, opened, CopathAt(S, LeafDepth)))[d][p]
           = TreeAt(ClaimedOver(S, ls, opened), d, p)
<1> DEFINE low == LeafLevel(c, opened, CopathAt(S, LeafDepth))
           lv == Levels(c, S, low)
           claim == ClaimedOver(S, ls, opened)
           T == {e \in 0 .. (LeafDepth - 1) :
                   \A q \in Level(e) : q \in OnPathAt(S, e) \cup GivenAt(S, e)
                                         => lv[e][q] = TreeAt(claim, e, q)}
<1>0. LeafDepth \in Nat /\ LeafDepth >= 1 /\ S \subseteq Nat /\ IsFiniteSet(S)
  BY LevelEnds DEF FiniteQuery
<1>1. \A i \in LeafIndices : i \in S \cup CopathSet(S, LeafDepth) => low[i] = claim[i]
  BY LeafLevelIs
<1>2. SameOff(ls, claim, S)
  BY DEF SameOff, ClaimedOver
<1>3. \A k \in DOMAIN InnerSlots(S) :
        c.inner_copath[k]
          = Digests(ls)[LevelIndex(InnerSlots(S)[k][1], InnerSlots(S)[k][2])]
  BY CoPathFields
<1> HIDE DEF low, claim
<1>4. ASSUME NEW e \in 0 .. (LeafDepth - 1), NEW q \in OnPathAt(S, e) \cup GivenAt(S, e)
      PROVE  lv[e][q] =
               IF q \in GivenAt(S, e)
               THEN c.inner_copath[CHOOSE k \in DOMAIN InnerSlots(S) :
                                     InnerSlots(S)[k] = <<e, q>>]
               ELSE IF e = LeafDepth - 1
               THEN Evaluate(Convert(low[2 * q]), Convert(low[2 * q + 1]))
               ELSE Compress(lv[e + 1][2 * q], lv[e + 1][2 * q + 1])
  <2>1. lv[e] = LevelRow(c, S, low, e, lv[e + 1])
    BY <1>0, LevelsRows
  <2> HIDE DEF lv
  <2>2. QED
    BY <2>1 DEF LevelRow
<1> HIDE DEF lv
<1>5. ASSUME NEW e \in 0 .. (LeafDepth - 1), NEW q \in Level(e), q \in GivenAt(S, e)
      PROVE  lv[e][q] = TreeAt(claim, e, q)
  <2>1. PICK k : k = CHOOSE j \in DOMAIN InnerSlots(S) : InnerSlots(S)[j] = <<e, q>>
    OBVIOUS
  <2>2. k \in DOMAIN InnerSlots(S) /\ InnerSlots(S)[k] = <<e, q>>
    <3>1. \E j \in DOMAIN InnerSlots(S) : InnerSlots(S)[j] = <<e, q>>
      BY <1>0, <1>5, GivenFacts
    <3>2. QED
      BY <2>1, <3>1
  <2>3. lv[e][q] = c.inner_copath[k]
    BY <1>4, <1>5, <2>1
  <2>4. c.inner_copath[k] = TreeAt(ls, e, q)
    BY <1>3, <2>2 DEF TreeAt
  <2>5. q \notin OnPathAt(S, e)
    <3>1. q \in CopathSet(S, e)
      BY <1>0, <1>5, GivenFacts
    <3>2. QED
      BY <3>1 DEF CopathSet
  <2>6. TreeAt(ls, e, q) = TreeAt(claim, e, q)
    <3>1. SameOffPath(ls, claim, S)
      BY <1>0, <1>2, OffPathSame
    <3>2. QED
      BY <2>5, <3>1 DEF SameOffPath
  <2>7. QED
    BY <2>3, <2>4, <2>6
<1>6. ASSUME NEW e \in 0 .. (LeafDepth - 1), NEW q \in Level(e), q \in OnPathAt(S, e)
      PROVE  /\ 2 * q \in Level(e + 1) /\ 2 * q + 1 \in Level(e + 1)
             /\ 2 * q \in OnPathAt(S, e + 1) \cup CopathSet(S, e + 1)
             /\ 2 * q + 1 \in OnPathAt(S, e + 1) \cup CopathSet(S, e + 1)
  <2>1. PICK f : f = e + 1
    OBVIOUS
  <2>2. f \in 1 .. LeafDepth /\ f - 1 = e
    BY <1>0, <2>1
  <2>3. /\ 2 * q \in OnPathAt(S, f) \cup CopathSet(S, f)
        /\ 2 * q + 1 \in OnPathAt(S, f) \cup CopathSet(S, f)
    BY <1>0, <1>6, <2>2, ChildrenKnown
  <2>4. QED
    BY <2>1, <2>3, LevelChildren
<1>7. LeafDepth - 1 \in T
  <2>1. PICK e : e = LeafDepth - 1 /\ e \in 0 .. (LeafDepth - 1) /\ e + 1 = LeafDepth
    BY <1>0
  <2> SUFFICES ASSUME NEW q \in Level(e), q \in OnPathAt(S, e) \cup GivenAt(S, e),
                      q \notin GivenAt(S, e)
               PROVE  lv[e][q] = TreeAt(claim, e, q)
    BY <1>5, <2>1
  <2>2. /\ 2 * q \in LeafIndices /\ 2 * q + 1 \in LeafIndices
        /\ 2 * q \in OnPathAt(S, LeafDepth) \cup CopathSet(S, LeafDepth)
        /\ 2 * q + 1 \in OnPathAt(S, LeafDepth) \cup CopathSet(S, LeafDepth)
    BY <1>6, <2>1, LevelEnds
  <2>3. OnPathAt(S, LeafDepth) = S
    <3>1. LeafDepth \in 0 .. LeafDepth
      BY <1>0
    <3>2. QED
      BY <1>0, <3>1, OnPathAtFacts
  <2>4. low[2 * q] = claim[2 * q] /\ low[2 * q + 1] = claim[2 * q + 1]
    BY <1>1, <2>2, <2>3
  <2>5. lv[e][q] = Evaluate(Convert(low[2 * q]), Convert(low[2 * q + 1]))
    BY <1>4, <2>1
  <2>6. TreeAt(claim, e, q) = Evaluate(Convert(claim[2 * q]), Convert(claim[2 * q + 1]))
    BY <2>1, TreeAtChildren
  <2>7. QED
    BY <2>4, <2>5, <2>6
<1>8. ASSUME NEW e \in 0 .. (LeafDepth - 2), e + 1 \in T PROVE e \in T
  <2>0. /\ e \in 0 .. (LeafDepth - 1) /\ e # LeafDepth - 1
        /\ e + 1 \in 0 .. (LeafDepth - 1) /\ e + 1 # 0
    BY <1>0
  <2> SUFFICES ASSUME NEW q \in Level(e), q \in OnPathAt(S, e) \cup GivenAt(S, e),
                      q \notin GivenAt(S, e)
               PROVE  lv[e][q] = TreeAt(claim, e, q)
    BY <1>5, <2>0
  <2>1. PICK f : f = e + 1
    OBVIOUS
  <2>2. GivenAt(S, f) = CopathSet(S, f)
    BY <1>0, <2>0, <2>1, GivenFacts
  <2>3. PICK l, r : l = 2 * q /\ r = 2 * q + 1
    OBVIOUS
  <2>4. /\ l \in Level(f) /\ r \in Level(f)
        /\ l \in OnPathAt(S, f) \cup GivenAt(S, f)
        /\ r \in OnPathAt(S, f) \cup GivenAt(S, f)
    BY <1>6, <2>0, <2>1, <2>2, <2>3
  <2>5. lv[f][l] = TreeAt(claim, f, l) /\ lv[f][r] = TreeAt(claim, f, r)
    BY <1>8, <2>1, <2>4
  <2>6. lv[e][q] = Compress(lv[f][l], lv[f][r])
    BY <1>4, <2>0, <2>1, <2>3
  <2>7. TreeAt(claim, e, q) = Compress(TreeAt(claim, f, l), TreeAt(claim, f, r))
    BY <2>0, <2>1, <2>3, TreeAtChildren
  <2>8. QED
    BY <2>5, <2>6, <2>7
<1>9. d \in T
  <2> HIDE DEF T
  <2>1. QED
    BY <1>7, <1>8, InductionOnLevels
<1>10. QED
  BY <1>9 DEF lv, low, claim

-----------------------------------------------------------------------------
(* Position 0 of the root's depth is computed for a proof that opens a     *)
(* leaf of the tree.                                                       *)
LEMMA RootComputed ==
  ASSUME NEW S, FiniteQuery(S)
  PROVE  0 \in OnPathAt(S, 0) <=> S \cap LeafIndices # {}
<1>1. OnPathAt(S, 0) = {i \div NumLeaves : i \in S}
  <2>1. LeafDepth - 0 = Height - 1
    BY HeightAssumption DEF LeafDepth
  <2>2. QED
    BY <2>1 DEF OnPathAt, NumLeaves, Width
<1>2. PICK n : n = NumLeaves /\ n \in Nat /\ n >= 1
  BY WidthFacts
<1>3. ASSUME NEW i \in S PROVE i \div n = 0 <=> i \in LeafIndices
  <2>1. i \in Nat
    BY DEF FiniteQuery
  <2>2. i \in LeafIndices <=> i < n
    BY <1>2, <2>1 DEF LeafIndices
  <2>3. i < n => i \div n = 0
    <3>1. 0 * n = 0 /\ (0 + 1) * n = n
      BY <1>2
    <3>2. QED
      BY <1>2, <2>1, <3>1, DivUnique
  <2>4. i \div n = 0 => i < n
    <3>1. (0 + 1) * n = n
      BY <1>2
    <3>2. i < (i \div n + 1) * n
      BY <1>2, <2>1, DivBounds
    <3>3. QED
      BY <3>1, <3>2
  <2>5. QED
    BY <2>2, <2>3, <2>4
<1>4. QED
  BY <1>1, <1>2, <1>3

(* What CoPath::verify answers for a proof that was made from a tree: the  *)
(* given root is the one of the vector the proof speaks of.                *)
LEMMA CoPathAccepts ==
  ASSUME NEW S, FiniteQuery(S), NEW ls, NEW c, c = CoPathFrom(S, ls, Digests(ls)),
         NEW opened, DOMAIN opened = 1 .. Len(c.leaf_indexes),
         Len(opened) = Len(c.leaf_indexes), NEW root
  PROVE  VerifyCoPath(c, root, Height, opened)
           <=> /\ S \cap LeafIndices # {}
               /\ Digests(ClaimedOver(S, ls, opened))[0] = root
<1> DEFINE low == LeafLevel(c, opened, CopathAt(S, LeafDepth))
           claim == ClaimedOver(S, ls, opened)
<1>1. /\ c.tree_height = Height /\ ToSet(c.leaf_indexes) = S
      /\ Len(c.leaf_copath) = Len(CopathAt(S, LeafDepth))
      /\ Len(c.inner_copath) = Len(InnerSlots(S))
  BY CoPathFields
<1>2. VerifyCoPath(c, root, Height, opened)
        <=> /\ S # {}
            /\ 0 \in OnPathAt(S, 0)
            /\ Levels(c, S, low)[0][0] = root
  <2>1. NeededLeaves(S) = CopathAt(S, LeafDepth) /\ NeededInner(S) = InnerSlots(S)
    BY NeededIsGiven DEF FiniteQuery
  <2>2. QED
    BY <1>1, <2>1 DEF VerifyCoPath
<1>3. ASSUME 0 \in OnPathAt(S, 0)
      PROVE  Levels(c, S, low)[0][0] = Digests(claim)[0]
  <2>1. 0 \in 0 .. (LeafDepth - 1) /\ 0 \in Level(0)
    BY LevelEnds
  <2>2. Levels(c, S, low)[0][0] = TreeAt(claim, 0, 0)
    BY <1>3, <2>1, LevelsAreTree
  <2>3. QED
    BY <2>2, LevelEnds DEF TreeAt
<1> HIDE DEF low, claim
<1>4. QED
  BY <1>2, <1>3, RootComputed DEF claim

-----------------------------------------------------------------------------
(* A multi-proof that is held is the one of the snapshot.                  *)
CoHeldInv ==
  held.kind = "copath" =>
    /\ created
    /\ snapshot = [i \in LeafIndices |-> snapshot[i]]
    /\ \E S \in Queries :
         Found(S) /\ held = CoPathFrom(S, snapshot, Digests(snapshot))

LEMMA InitCoHeld == GadgetInit => CoHeldInv
BY DEF GadgetInit, MemberInit, NoProof, CoHeldInv

LEMMA NextCoHeld == MembershipInv /\ CoHeldInv /\ [GadgetNext]_gadgetVars => CoHeldInv'
<1> SUFFICES ASSUME MembershipInv, CoHeldInv, [GadgetNext]_gadgetVars PROVE CoHeldInv'
  OBVIOUS
<1>1. ASSUME UNCHANGED <<held, snapshot>>, created => created' PROVE CoHeldInv'
  BY <1>1 DEF CoHeldInv
<1>2. CASE Work /\ UNCHANGED <<pathVar, asked>>
  <2>1. UNCHANGED <<held, snapshot>> /\ Next
    BY <1>2 DEF Work
  <2>2. \A digests : Create(digests) => created'
    BY DEF Create
  <2>3. \A i \in LeafIndices, leaf \in Leaves : Replace(i, leaf) => created' = created
    BY DEF Replace
  <2>4. created => created'
    BY <2>1, <2>2, <2>3 DEF Next
  <2>5. QED
    BY <1>1, <2>1, <2>4
<1>3. CASE NewProof
  <2>1. ASSUME NEW i \in LeafIndices, HoldPath(i) PROVE CoHeldInv'
    BY <2>1 DEF HoldPath, PathOf, CoHeldInv
  <2>2. ASSUME NEW S \in Queries, HoldCoPath(S) PROVE CoHeldInv'
    <3>1. /\ created /\ created' = created /\ snapshot' = leaves
          /\ Found(S) /\ held' = CoPathOf(S)
          /\ leaves = [i \in LeafIndices |-> leaves[i]] /\ nodes = Digests(leaves)
      BY <2>2 DEF HoldCoPath, vectorVars, MembershipInv, TreeInv
    <3>2. CoPathOf(S) = CoPathFrom(S, leaves, nodes)
      BY DEF CoPathOf, CoPathFrom
    <3>3. held' = CoPathFrom(S, snapshot', Digests(snapshot'))
      BY <3>1, <3>2
    <3>4. snapshot' = [i \in LeafIndices |-> snapshot'[i]]
      BY <3>1
    <3>5. \E q \in Queries :
            Found(q) /\ held' = CoPathFrom(q, snapshot', Digests(snapshot'))
      BY <3>1, <3>3
    <3>6. QED
      BY <3>1, <3>4, <3>5 DEF CoHeldInv
  <2>3. QED
    BY <1>3, <2>1, <2>2 DEF NewProof
<1>4. CASE Allocate
  BY <1>1, <1>4 DEF Allocate, memberVars, vectorVars
<1>5. CASE \E bits \in Positions : SetLeafPosition(bits)
  BY <1>1, <1>5 DEF SetLeafPosition, memberVars, vectorVars
<1>6. CASE UNCHANGED gadgetVars
  BY <1>1, <1>6 DEF gadgetVars, memberVars, vectorVars
<1>7. QED
  BY <1>2, <1>3, <1>4, <1>5, <1>6 DEF GadgetNext

LEMMA CoHeldFacts ==
  ASSUME MembershipInv, CoHeldInv, held.kind = "copath"
  PROVE  /\ nodes = Digests(leaves)
         /\ leaves = [i \in LeafIndices |-> leaves[i]]
         /\ snapshot = [i \in LeafIndices |-> snapshot[i]]
         /\ \E S \in Queries : FiniteQuery(S) /\ held = CoPathFrom(S, snapshot, Digests(snapshot))
<1>1. \A S \in Queries : FiniteQuery(S)
  BY QueriesAssumption DEF FiniteQuery
<1>2. QED
  BY <1>1 DEF MembershipInv, TreeInv, CoHeldInv

(* A multi-proof is accepted with some leaves and the current root exactly *)
(* when it opens a leaf of the tree and the vector it was made from, with  *)
(* those leaves in their places, is the current one: for every height,     *)
(* every set of indices, and every history of the tree.                    *)
THEOREM CoPathsSpeakTruth ==
  ASSUME NoCollisions
  PROVE  GadgetSpec => []CoPathSpeaksTruth
<1>1. MembershipInv /\ CoHeldInv => CoPathSpeaksTruth
  <2> SUFFICES ASSUME MembershipInv, CoHeldInv, held.kind = "copath",
                      NEW opened \in [1 .. Len(held.leaf_indexes) -> Leaves]
               PROVE  VerifyCoPath(held, nodes[0], Height, opened)
                        <=> /\ ToSet(held.leaf_indexes) \cap LeafIndices # {}
                            /\ Claimed(opened) = leaves
    BY DEF CoPathSpeaksTruth
  <2>1. PICK S : FiniteQuery(S) /\ held = CoPathFrom(S, snapshot, Digests(snapshot))
    BY CoHeldFacts
  <2>2. /\ nodes = Digests(leaves)
        /\ leaves = [i \in LeafIndices |-> leaves[i]]
    BY CoHeldFacts
  <2> DEFINE claim == ClaimedOver(S, snapshot, opened)
  <2>3. /\ ToSet(held.leaf_indexes) = S /\ held.leaf_indexes = Ascending(S)
        /\ Len(held.leaf_indexes) \in Nat
        /\ DOMAIN Ascending(S) = 1 .. Len(held.leaf_indexes)
    BY <2>1, CoPathFields
  <2>4. DOMAIN opened = 1 .. Len(held.leaf_indexes) /\ Len(opened) = Len(held.leaf_indexes)
    <3>1. PICK n : n = Len(held.leaf_indexes) /\ n \in Nat
      BY <2>3
    <3>2. opened \in [1 .. n -> Leaves]
      BY <3>1
    <3>3. DOMAIN opened = 1 .. n /\ Len(opened) = n
      BY <3>1, <3>2
    <3>4. QED
      BY <3>1, <3>3
  <2>5. VerifyCoPath(held, nodes[0], Height, opened)
          <=> /\ S \cap LeafIndices # {}
              /\ Digests(claim)[0] = Digests(leaves)[0]
    BY <2>1, <2>2, <2>4, CoPathAccepts
  <2>6. Claimed(opened) = claim
    <3>1. \A i : i \in S <=> \E k \in DOMAIN opened : held.leaf_indexes[k] = i
      BY <2>3, <2>4 DEF ToSet
    <3>2. QED
      BY <2>3, <3>1 DEF Claimed, ClaimedOver
  <2>7. claim = [i \in LeafIndices |-> claim[i]]
    BY DEF ClaimedOver
  <2> HIDE DEF claim
  <2>8. Digests(claim)[0] = Digests(leaves)[0] => \A i \in LeafIndices : claim[i] = leaves[i]
    BY RootBinds
  <2>9. (\A i \in LeafIndices : claim[i] = leaves[i]) => claim = leaves
    BY <2>2, <2>7
  <2>10. QED
    BY <2>3, <2>5, <2>6, <2>8, <2>9
<1>2. QED
  BY InitMembership, NextMembership, InitCoHeld, NextCoHeld, <1>1, PTL DEF GadgetSpec

-----------------------------------------------------------------------------
(* What CoPath::verify counts before it hashes.                            *)
LEMMA CountsChecked ==
  ASSUME NEW p, NEW root, NEW h, NEW o, VerifyCoPath(p, root, h, o),
         NEW S, S = ToSet(p.leaf_indexes), FiniteQuery(S)
  PROVE  /\ p.tree_height = h /\ Len(o) = Len(p.leaf_indexes)
         /\ Len(p.leaf_copath) = Len(CopathAt(S, LeafDepth))
         /\ Len(p.inner_copath) = Len(InnerSlots(S))
<1>1. NeededLeaves(S) = CopathAt(S, LeafDepth) /\ NeededInner(S) = InnerSlots(S)
  BY NeededIsGiven DEF FiniteQuery
<1>2. QED
  BY <1>1 DEF VerifyCoPath

(* A sequence with an element lost or added has another length.            *)
LEMMA OtherLengths ==
  ASSUME NEW X, NEW s \in Seq(X), NEW x
  PROVE  /\ Len(Append(s, x)) # Len(s)
         /\ s # <<>> => Len(Tail(s)) # Len(s) /\ Len(Front(s)) # Len(s)
<1>1. s \in Seq(X \cup {x}) /\ x \in X \cup {x}
  OBVIOUS
<1>2. Len(s) \in Nat /\ Len(Append(s, x)) = Len(s) + 1
  BY <1>1
<1>3. ASSUME s # <<>> PROVE Len(Tail(s)) # Len(s) /\ Len(Front(s)) # Len(s)
  <2>1. Len(s) >= 1
    BY <1>3
  <2>2. Len(Tail(s)) = Len(s) - 1
    BY <1>3
  <2>3. PICK n : n = Len(s) - 1 /\ n \in Nat /\ n + 1 = Len(s)
    BY <1>2, <2>1
  <2>4. Front(s) = SubSeq(s, 1, n) /\ Len(SubSeq(s, 1, n)) = n
    <3>1. Front(s) = SubSeq(s, 1, n)
      BY <2>3 DEF Front
    <3>2. 1 .. n \subseteq DOMAIN s
      BY <2>3
    <3>3. QED
      BY <2>3, <3>1
  <2>5. QED
    BY <1>2, <2>2, <2>3, <2>4
<1>4. QED
  BY <1>2, <1>3

(* A proof that was made from a tree, with other digests in it.            *)
LEMMA OtherDigests ==
  ASSUME NEW S, NEW ls, NEW ns, NEW c, c = CoPathFrom(S, ls, ns), NEW x
  PROVE  /\ [c EXCEPT !.inner_copath = x].inner_copath = x
         /\ [c EXCEPT !.inner_copath = x].leaf_indexes = c.leaf_indexes
         /\ [c EXCEPT !.leaf_copath = x].leaf_copath = x
         /\ [c EXCEPT !.leaf_copath = x].leaf_indexes = c.leaf_indexes
BY DEF CoPathFrom

(* A function over the places of a sequence is one.                        *)
LEMMA MappedSeq ==
  ASSUME NEW s, NEW X, s \in Seq(X), NEW f, f = [k \in DOMAIN s |-> f[k]]
  PROVE  f \in Seq({f[k] : k \in DOMAIN s}) /\ Len(f) = Len(s)
<1>1. PICK n : n = Len(s) /\ n \in Nat /\ DOMAIN s = 1 .. n
  OBVIOUS
<1>2. f = [k \in 1 .. n |-> f[k]] /\ \A k \in 1 .. n : f[k] \in {f[j] : j \in 1 .. n}
  BY <1>1
<1>3. f \in Seq({f[k] : k \in 1 .. n}) /\ Len(f) = n
  BY <1>1, <1>2, FunctionSeq
<1>4. QED
  BY <1>1, <1>3

LEMMA CoPathSeqs ==
  ASSUME NEW S, FiniteQuery(S), NEW ls, NEW ns, NEW c, c = CoPathFrom(S, ls, ns)
  PROVE  /\ \E X : c.inner_copath \in Seq(X)
         /\ \E X : c.leaf_copath \in Seq(X)
<1>1. \E X : CopathAt(S, LeafDepth) \in Seq(X)
  <2>1. LeafDepth \in 0 .. LeafDepth
    BY LevelEnds
  <2>2. QED
    BY <2>1, CopathLists DEF FiniteQuery, Lists
<1>2. \E X : InnerSlots(S) \in Seq(X)
  BY InnerSlotsList DEF FiniteQuery, Lists
<1>3. /\ c.leaf_copath = [k \in DOMAIN CopathAt(S, LeafDepth) |-> c.leaf_copath[k]]
      /\ c.inner_copath = [k \in DOMAIN InnerSlots(S) |-> c.inner_copath[k]]
  BY DEF CoPathFrom
<1>4. QED
  BY <1>1, <1>2, <1>3, MappedSeq

(* A proof with a digest lost or added, a leaf too many or too few, or     *)
(* another height is refused: whatever the hash functions.                 *)
THEOREM CountsDecide == GadgetSpec => []CountsMatter
<1>1. MembershipInv /\ CoHeldInv => CountsMatter
  <2> SUFFICES ASSUME MembershipInv, CoHeldInv, held.kind = "copath"
               PROVE  CountsMatter
    BY DEF CountsMatter
  <2> DEFINE some == CHOOSE l \in Leaves : TRUE
             opened == [k \in DOMAIN held.leaf_indexes |-> some]
             Refused(p, h, o) == \A n \in ToSet(leaves) \cup {nodes[k] : k \in Inner} :
                                   ~VerifyCoPath(p, n, h, o)
  <2>1. PICK S : FiniteQuery(S) /\ held = CoPathFrom(S, snapshot, Digests(snapshot))
    BY CoHeldFacts
  <2>2. /\ held.tree_height = Height /\ ToSet(held.leaf_indexes) = S
        /\ held.leaf_indexes = Ascending(S)
        /\ Len(held.leaf_copath) = Len(CopathAt(S, LeafDepth))
        /\ Len(held.inner_copath) = Len(InnerSlots(S))
        /\ \E X : held.inner_copath \in Seq(X)
        /\ \E X : held.leaf_copath \in Seq(X)
    BY <2>1, CoPathFields, CoPathSeqs
  <2>3. Len(opened) = Len(held.leaf_indexes) /\ \E X : opened \in Seq(X)
    <3>1. \E X : held.leaf_indexes \in Seq(X)
      BY <2>1, <2>2, AscendingLists DEF FiniteQuery, Lists
    <3>2. opened = [k \in DOMAIN held.leaf_indexes |-> opened[k]]
      OBVIOUS
    <3> HIDE DEF opened
    <3>3. QED
      BY <3>1, <3>2, MappedSeq
  <2> HIDE DEF opened, some
  <2>4. Refused(held, Height + 1, opened)
    <3>1. Height # Height + 1
      BY HeightAssumption
    <3>2. QED
      BY <2>1, <2>2, <3>1, CountsChecked
  <2>a. ASSUME NEW o, Len(o) # Len(opened) PROVE Refused(held, Height, o)
    BY <2>1, <2>2, <2>3, <2>a, CountsChecked
  <2>b. /\ Len(Append(opened, some)) # Len(opened)
        /\ opened # <<>> => Len(Tail(opened)) # Len(opened)
    BY <2>3, OtherLengths
  <2>5. /\ Refused(held, Height, Append(opened, some))
        /\ opened # <<>> => Refused(held, Height, Tail(opened))
    <3> HIDE DEF Refused
    <3>1. QED
      BY <2>a, <2>b
  <2>7. ASSUME NEW x, Len(x) # Len(held.inner_copath)
        PROVE  Refused([held EXCEPT !.inner_copath = x], Height, opened)
    <3>1. PICK p : p = [held EXCEPT !.inner_copath = x]
      OBVIOUS
    <3>2. p.inner_copath = x /\ ToSet(p.leaf_indexes) = S
      BY <2>1, <2>2, <3>1, OtherDigests
    <3>3. FiniteQuery(S) /\ Len(p.inner_copath) # Len(InnerSlots(S))
      BY <2>1, <2>2, <2>7, <3>2
    <3>4. ASSUME NEW n PROVE ~ VerifyCoPath(p, n, Height, opened)
      BY <3>2, <3>3, CountsChecked
    <3>5. QED
      BY <3>1, <3>4
  <2>8. ASSUME NEW x, Len(x) # Len(held.leaf_copath)
        PROVE  Refused([held EXCEPT !.leaf_copath = x], Height, opened)
    <3>1. PICK p : p = [held EXCEPT !.leaf_copath = x]
      OBVIOUS
    <3>2. p.leaf_copath = x /\ ToSet(p.leaf_indexes) = S
      BY <2>1, <2>2, <3>1, OtherDigests
    <3>3. FiniteQuery(S) /\ Len(p.leaf_copath) # Len(CopathAt(S, LeafDepth))
      BY <2>1, <2>2, <2>8, <3>2
    <3>4. ASSUME NEW n PROVE ~ VerifyCoPath(p, n, Height, opened)
      BY <3>2, <3>3, CountsChecked
    <3>5. QED
      BY <3>1, <3>4
  <2>9. /\ Len(Append(held.inner_copath, nodes[0])) # Len(held.inner_copath)
        /\ Len(Append(held.leaf_copath, leaves[0])) # Len(held.leaf_copath)
        /\ held.inner_copath # <<>> => Len(Front(held.inner_copath)) # Len(held.inner_copath)
        /\ held.leaf_copath # <<>> => Len(Front(held.leaf_copath)) # Len(held.leaf_copath)
    BY <2>2, OtherLengths
  <2> HIDE DEF Refused
  <2>10. /\ Refused([held EXCEPT !.inner_copath = Append(@, nodes[0])], Height, opened)
         /\ Refused([held EXCEPT !.leaf_copath = Append(@, leaves[0])], Height, opened)
         /\ held.inner_copath # <<>> =>
              Refused([held EXCEPT !.inner_copath = Front(@)], Height, opened)
         /\ held.leaf_copath # <<>> =>
              Refused([held EXCEPT !.leaf_copath = Front(@)], Height, opened)
    BY <2>7, <2>8, <2>9
  <2>11. QED
    BY <2>4, <2>5, <2>10 DEF CountsMatter, Refused, opened, some
<1>2. QED
  BY InitMembership, NextMembership, InitCoHeld, NextCoHeld, <1>1, PTL DEF GadgetSpec

-----------------------------------------------------------------------------
(* A set that is listed has as many elements as its list.                  *)
LEMMA ListsCount ==
  ASSUME NEW s, NEW T, Lists(s, T)
  PROVE  IsFiniteSet(T) /\ Cardinality(T) = Len(s)
<1>1. PICK n : n = Len(s) /\ n \in Nat /\ DOMAIN s = 1 .. n /\ s \in [1 .. n -> T]
  BY DEF Lists
<1>2. s \in Injection(1 .. n, T)
  BY <1>1 DEF Lists, Injection, IsInjective
<1>3. s \in Surjection(1 .. n, T)
  BY <1>1 DEF Lists, ToSet, Surjection
<1>4. ExistsBijection(1 .. n, T)
  BY <1>2, <1>3 DEF ExistsBijection, Bijection
<1>5. IsFiniteSet(1 .. n) /\ Cardinality(1 .. n) = n
  <2>1. 1 \in Int /\ n \in Int /\ (IF 1 > n THEN 0 ELSE n - 1 + 1) = n
    <3>1. n \in Nat
      BY <1>1
    <3>2. QED
      BY <3>1
  <2>2. QED
    BY <2>1, FS_Interval
<1>6. QED
  BY <1>1, <1>4, <1>5, FS_Bijection

(* The positions a multi-proof gives a digest for.                         *)
GivenSlots(S) == ToSet(InnerSlots(S))
                   \cup {<<LeafDepth, i>> : i \in ToSet(CopathAt(S, LeafDepth))}

LEMMA GivenSlotsFacts ==
  ASSUME NEW S, FiniteQuery(S)
  PROVE  /\ \A g : g \in GivenSlots(S)
                     <=> \E d \in 1 .. LeafDepth : \E p \in CopathSet(S, d) : g = <<d, p>>
         /\ Cardinality(GivenSlots(S))
              = Len(CopathAt(S, LeafDepth)) + Len(InnerSlots(S))
<1> DEFINE inner == UNION {SlotsAt(S, d) : d \in 1 .. (LeafDepth - 1)}
           last == SlotsAt(S, LeafDepth)
           lastList == [k \in DOMAIN CopathAt(S, LeafDepth) |->
                          <<LeafDepth, CopathAt(S, LeafDepth)[k]>>]
<1>0. /\ LeafDepth \in Nat /\ LeafDepth >= 1 /\ LeafDepth \in 0 .. LeafDepth
      /\ S \subseteq Nat /\ IsFiniteSet(S)
  BY LevelEnds DEF FiniteQuery
<1>1. Lists(InnerSlots(S), inner) /\ ToSet(InnerSlots(S)) = inner
  BY <1>0, InnerSlotsList DEF Lists
<1>2. Lists(lastList, last)
  BY <1>0, SlotsList
<1>3. /\ ToSet(CopathAt(S, LeafDepth)) = CopathSet(S, LeafDepth)
      /\ \E X : CopathAt(S, LeafDepth) \in Seq(X)
  BY <1>0, CopathLists DEF Lists
<1>4. GivenSlots(S) = inner \cup last
  BY <1>1, <1>3 DEF GivenSlots, SlotsAt
<1>5. inner \cap last = {}
  <2>1. \A d \in 1 .. (LeafDepth - 1) : d # LeafDepth
    BY <1>0
  <2>2. QED
    BY <2>1 DEF SlotsAt
<1>6. Len(lastList) = Len(CopathAt(S, LeafDepth))
  <2>1. lastList = [k \in DOMAIN CopathAt(S, LeafDepth) |-> lastList[k]]
    OBVIOUS
  <2> HIDE DEF lastList
  <2>2. QED
    BY <1>3, <2>1, MappedSeq
<1>7. Cardinality(GivenSlots(S)) = Len(CopathAt(S, LeafDepth)) + Len(InnerSlots(S))
  <2> HIDE DEF inner, last, lastList
  <2>1. /\ IsFiniteSet(inner) /\ Cardinality(inner) = Len(InnerSlots(S))
        /\ IsFiniteSet(last) /\ Cardinality(last) = Len(lastList)
    BY <1>1, <1>2, ListsCount
  <2>2. Cardinality(inner \cup last)
          = Cardinality(inner) + Cardinality(last) - Cardinality(inner \cap last)
    BY <2>1, FS_Union
  <2>3. Cardinality(inner \cap last) = 0
    BY <1>5, FS_EmptySet
  <2>4. Cardinality(inner) \in Nat /\ Cardinality(last) \in Nat
    BY <2>1, FS_CardinalityType
  <2>5. QED
    BY <1>4, <1>6, <2>1, <2>2, <2>3, <2>4
<1>8. ASSUME NEW g
      PROVE  g \in GivenSlots(S)
               <=> \E d \in 1 .. LeafDepth : \E p \in CopathSet(S, d) : g = <<d, p>>
  <2>1. g \in inner <=> \E d \in 1 .. (LeafDepth - 1) : \E p \in CopathSet(S, d) : g = <<d, p>>
    BY DEF SlotsAt
  <2>2. g \in last <=> \E p \in CopathSet(S, LeafDepth) : g = <<LeafDepth, p>>
    BY DEF SlotsAt
  <2>3. \A d : d \in 1 .. LeafDepth <=> d \in 1 .. (LeafDepth - 1) \/ d = LeafDepth
    BY <1>0
  <2> HIDE DEF inner, last
  <2>4. QED
    BY <1>4, <2>1, <2>2, <2>3
<1>9. QED
  BY <1>7, <1>8

-----------------------------------------------------------------------------
(* The positions over a leaf, by depth.                                    *)
PositionOver(i, d) == i \div Width(LeafDepth - d)

LEMMA PositionOverFacts ==
  ASSUME NEW i \in LeafIndices
  PROVE  /\ PositionOver(i, LeafDepth) = i /\ PositionOver(i, 0) = 0
         /\ \A d \in 0 .. LeafDepth : PositionOver(i, d) \in Nat
         /\ \A d \in 1 .. LeafDepth :
              PositionOver(i, d - 1) = PositionOver(i, d) \div 2
<1>1. PICK n : n = LeafDepth /\ n \in Nat /\ n >= 1 /\ n = Height - 1
  BY LevelEnds DEF LeafDepth
<1>2. i \in Nat /\ i < NumLeaves /\ NumLeaves \in Nat /\ NumLeaves >= 1
  BY WidthFacts DEF LeafIndices
<1>3. PositionOver(i, LeafDepth) = i
  <2>1. LeafDepth - LeafDepth = 0 /\ i \div 1 = i
    BY <1>1, <1>2
  <2>2. QED
    BY <2>1, WidthFacts DEF PositionOver
<1>4. PositionOver(i, 0) = 0
  <2>1. LeafDepth - 0 = Height - 1
    BY <1>1
  <2>2. Width(LeafDepth - 0) = NumLeaves
    BY <2>1, WidthFacts
  <2>3. 0 * NumLeaves = 0 /\ (0 + 1) * NumLeaves = NumLeaves
    BY <1>2
  <2>4. i \div NumLeaves = 0
    BY <1>2, <2>3, DivUnique
  <2>5. QED
    BY <2>2, <2>4 DEF PositionOver
<1>5. ASSUME NEW d \in 0 .. LeafDepth
      PROVE  Width(LeafDepth - d) \in Nat /\ Width(LeafDepth - d) >= 1
  <2>1. LeafDepth - d \in 0 .. (Height - 1)
    BY <1>1
  <2>2. QED
    BY <2>1, WidthFacts
<1>6. \A d \in 0 .. LeafDepth : PositionOver(i, d) \in Nat
  BY <1>2, <1>5, DivBounds DEF PositionOver
<1>7. ASSUME NEW d \in 1 .. LeafDepth
      PROVE  PositionOver(i, d - 1) = PositionOver(i, d) \div 2
  <2>1. PICK m, w : m = LeafDepth - d + 1 /\ w = Width(LeafDepth - d)
    OBVIOUS
  <2>a. d \in 1 .. n /\ m = n - d + 1
    BY <1>1, <2>1
  <2>b. m \in 1 .. n /\ m - 1 = n - d /\ n - (d - 1) = m
    BY <1>1, <2>a
  <2>2. m \in 1 .. (Height - 1) /\ m - 1 = LeafDepth - d /\ LeafDepth - (d - 1) = m
    BY <1>1, <2>b
  <2>3. Width(m) = 2 * w
    BY <2>1, <2>2, WidthFacts
  <2>4. d \in 0 .. LeafDepth
    OBVIOUS
  <2>5. w \in Nat /\ w >= 1
    BY <1>5, <2>1, <2>4
  <2>6. (i \div w) \div 2 = i \div (2 * w)
    BY <1>2, <2>5, HalfOfQuotient
  <2>7. QED
    BY <2>1, <2>2, <2>3, <2>6 DEF PositionOver
<1>8. QED
  BY <1>3, <1>4, <1>6, <1>7

(* A digest is given for a position over a leaf where a path passes beside *)
(* it: above it there is a node of a path, and it is on none.              *)
LEMMA GivenWhereLeft ==
  ASSUME NEW S, S \subseteq Nat, IsFiniteSet(S), NEW i \in LeafIndices,
         NEW d \in 1 .. LeafDepth
  PROVE  /\ PositionOver(i, d) \in OnPathAt(S, d)
              => PositionOver(i, d - 1) \in OnPathAt(S, d - 1)
         /\ PositionOver(i, d) \in CopathSet(S, d)
              <=> /\ PositionOver(i, d) \notin OnPathAt(S, d)
                  /\ PositionOver(i, d - 1) \in OnPathAt(S, d - 1)
<1>1. PICK p, u : p = PositionOver(i, d) /\ u = PositionOver(i, d - 1)
  OBVIOUS
<1>2. d \in 0 .. LeafDepth /\ d > 0
  OBVIOUS
<1>3. p \in Nat /\ u = p \div 2
  BY <1>1, <1>2, PositionOverFacts
<1>4. /\ OnPathAt(S, d) \subseteq Nat
      /\ OnPathAt(S, d - 1) = {q \div 2 : q \in OnPathAt(S, d)}
  BY <1>2, OnPathAtFacts
<1>5. p \in OnPathAt(S, d) => u \in OnPathAt(S, d - 1)
  BY <1>3, <1>4
<1>6. p \in CopathSet(S, d) => p \notin OnPathAt(S, d) /\ u \in OnPathAt(S, d - 1)
  <2> SUFFICES ASSUME p \in CopathSet(S, d)
               PROVE  p \notin OnPathAt(S, d) /\ u \in OnPathAt(S, d - 1)
    OBVIOUS
  <2>1. PICK q \in OnPathAt(S, d) : p = LeafSibling(q) /\ p \notin OnPathAt(S, d)
    BY DEF CopathSet
  <2>2. p \div 2 = q \div 2
    BY <1>4, <2>1, SiblingFacts
  <2>3. QED
    BY <1>3, <1>4, <2>1, <2>2
<1>7. p \notin OnPathAt(S, d) /\ u \in OnPathAt(S, d - 1) => p \in CopathSet(S, d)
  <2> SUFFICES ASSUME p \notin OnPathAt(S, d), u \in OnPathAt(S, d - 1)
               PROVE  p \in CopathSet(S, d)
    OBVIOUS
  <2>1. /\ 2 * u \in OnPathAt(S, d) \cup CopathSet(S, d)
        /\ 2 * u + 1 \in OnPathAt(S, d) \cup CopathSet(S, d)
    BY ChildrenKnown
  <2>2. p = 2 * u \/ p = 2 * u + 1
    BY <1>3
  <2>3. QED
    BY <2>1, <2>2
<1>8. QED
  BY <1>1, <1>5, <1>6, <1>7

(* An opened leaf has no given digest above it, and another leaf has the   *)
(* one where the paths leave it.                                           *)
LEMMA OneGivenAbove ==
  ASSUME NEW S, S \subseteq Nat, IsFiniteSet(S), S \cap LeafIndices # {},
         NEW i \in LeafIndices
  PROVE  /\ i \in S => \A d \in 1 .. LeafDepth : PositionOver(i, d) \notin CopathSet(S, d)
         /\ i \notin S => \E m \in 1 .. LeafDepth : \A d \in 1 .. LeafDepth :
                            PositionOver(i, d) \in CopathSet(S, d) <=> d = m
<1> DEFINE on(d) == PositionOver(i, d) \in OnPathAt(S, d)
           off == {d \in 0 .. LeafDepth : ~on(d)}
<1>0. LeafDepth \in Nat /\ LeafDepth >= 1
  BY LevelEnds
<1>1. \A d \in 1 .. LeafDepth : /\ on(d) => on(d - 1)
                                /\ PositionOver(i, d) \in CopathSet(S, d)
                                     <=> ~on(d) /\ on(d - 1)
  BY GivenWhereLeft
<1>2. on(LeafDepth) <=> i \in S
  <2>1. LeafDepth \in 0 .. LeafDepth
    BY <1>0
  <2>2. OnPathAt(S, LeafDepth) = S
    BY <2>1, OnPathAtFacts
  <2>3. QED
    BY <2>2, PositionOverFacts
<1>3. on(0)
  <2>1. 0 \in OnPathAt(S, 0)
    BY RootComputed DEF FiniteQuery
  <2>2. QED
    BY <2>1, PositionOverFacts
<1> HIDE DEF on
<1>4. ASSUME NEW m \in 1 .. LeafDepth, ~on(m), NEW d \in m .. LeafDepth PROVE ~on(d)
  <2> DEFINE T == {k \in Nat : m + k <= LeafDepth => ~on(m + k)}
  <2>1. 0 \in T
    BY <1>4
  <2>2. ASSUME NEW k \in Nat, k \in T PROVE k + 1 \in T
    <3> SUFFICES ASSUME m + (k + 1) <= LeafDepth PROVE ~on(m + (k + 1))
      OBVIOUS
    <3>1. PICK e : e = m + (k + 1)
      OBVIOUS
    <3>2. e \in 1 .. LeafDepth /\ e - 1 = m + k /\ m + k <= LeafDepth
      BY <1>0, <3>1
    <3>3. ~on(m + k)
      BY <2>2, <3>2
    <3>4. QED
      BY <1>1, <3>1, <3>2, <3>3
  <2>3. Nat \subseteq T
    <3> HIDE DEF T
    <3>1. QED
      BY <2>1, <2>2, InductionOnSet
  <2>4. d - m \in Nat /\ m + (d - m) = d /\ d <= LeafDepth
    BY <1>0
  <2>5. QED
    BY <2>3, <2>4
<1>5. ASSUME i \in S, NEW d \in 1 .. LeafDepth PROVE on(d)
  <2>1. on(LeafDepth)
    BY <1>2, <1>5
  <2>2. LeafDepth \in d .. LeafDepth
    BY <1>0
  <2>3. QED
    BY <1>4, <2>1, <2>2
<1>6. ASSUME i \notin S
      PROVE  \E m \in 1 .. LeafDepth : \A d \in 1 .. LeafDepth :
               PositionOver(i, d) \in CopathSet(S, d) <=> d = m
  <2>1. LeafDepth \in off
    BY <1>0, <1>2, <1>6
  <2>2. off \subseteq Nat /\ off # {}
    BY <2>1
  <2>3. PICK m \in off : \A e \in off : m <= e
    <3> HIDE DEF off
    <3>1. QED
      BY <2>2, LeastNumber
  <2>4. m \in 1 .. LeafDepth /\ ~on(m)
    <3>1. m \in 0 .. LeafDepth /\ ~on(m)
      OBVIOUS
    <3>2. m # 0
      BY <1>3, <3>1
    <3>3. QED
      BY <1>0, <3>1, <3>2
  <2>5. ASSUME NEW e \in 0 .. (m - 1) PROVE on(e)
    BY <1>0, <2>3, <2>4
  <2>6. ASSUME NEW d \in 1 .. LeafDepth
        PROVE  PositionOver(i, d) \in CopathSet(S, d) <=> d = m
    <3>1. CASE d < m
      <4>1. d \in 0 .. (m - 1) /\ d # m
        BY <2>4, <3>1
      <4>2. on(d)
        BY <2>5, <4>1
      <4>3. QED
        BY <1>1, <4>1, <4>2
    <3>2. CASE d = m
      <4>1. m - 1 \in 0 .. (m - 1)
        BY <2>4
      <4>2. on(m - 1)
        BY <2>5, <4>1
      <4>3. QED
        BY <1>1, <2>4, <3>2, <4>2
    <3>3. CASE d > m
      <4>1. d - 1 \in m .. LeafDepth /\ d # m
        BY <1>0, <2>4, <3>3
      <4>2. ~on(d - 1)
        BY <1>4, <2>4, <4>1
      <4>3. QED
        BY <1>1, <4>1, <4>2
    <3>4. QED
      BY <2>4, <3>1, <3>2, <3>3
  <2>7. QED
    BY <2>4, <2>6
<1>7. QED
  BY <1>1, <1>5, <1>6

(* A multi-proof sends nothing twice, and one that opens a leaf of the     *)
(* tree leaves nothing out.                                                *)
THEOREM CoPathsPartition == GadgetSpec => []CoPathPartitions
<1>1. MembershipInv /\ CoHeldInv => CoPathPartitions
  <2> SUFFICES ASSUME MembershipInv, CoHeldInv, held.kind = "copath"
               PROVE  CoPathPartitions
    BY DEF CoPathPartitions
  <2> DEFINE T == ToSet(held.leaf_indexes)
             Given == ToSet(InnerSlots(T))
                        \cup {<<LeafDepth, i>> : i \in ToSet(CopathAt(T, LeafDepth))}
             Above(i) == {g \in Given : g[2] = i \div 2 ^ (LeafDepth - g[1])}
  <2>1. PICK S : FiniteQuery(S) /\ held = CoPathFrom(S, snapshot, Digests(snapshot))
    BY CoHeldFacts
  <2>a. /\ ToSet(held.leaf_indexes) = S
        /\ Len(held.leaf_copath) = Len(CopathAt(S, LeafDepth))
        /\ Len(held.inner_copath) = Len(InnerSlots(S))
    BY <2>1, CoPathFields
  <2>b. S \subseteq Nat /\ IsFiniteSet(S)
    BY <2>1 DEF FiniteQuery
  <2>2. /\ T = S
        /\ Len(held.leaf_copath) = Len(CopathAt(S, LeafDepth))
        /\ Len(held.inner_copath) = Len(InnerSlots(S))
        /\ S \subseteq Nat /\ IsFiniteSet(S)
    BY <2>a, <2>b
  <2>3. Given = GivenSlots(S)
    BY <2>2 DEF GivenSlots
  <2>4. Len(held.leaf_copath) + Len(held.inner_copath) = Cardinality(Given)
    BY <2>1, <2>2, <2>3, GivenSlotsFacts
  <2>5. ASSUME S \cap LeafIndices # {}, NEW i \in LeafIndices
        PROVE  Cardinality(Above(i)) = IF i \in S THEN 0 ELSE 1
    <3>1. \A g : g \in Above(i)
            <=> \E d \in 1 .. LeafDepth :
                  PositionOver(i, d) \in CopathSet(S, d) /\ g = <<d, PositionOver(i, d)>>
      <4>1. \A g : g \in Given
              <=> \E d \in 1 .. LeafDepth : \E p \in CopathSet(S, d) : g = <<d, p>>
        <5>1. \A g : g \in GivenSlots(S)
                <=> \E d \in 1 .. LeafDepth : \E p \in CopathSet(S, d) : g = <<d, p>>
          BY <2>1, GivenSlotsFacts, Zenon
        <5> HIDE DEF Given
        <5>2. QED
          BY <2>3, <5>1, Zenon
      <4>2. \A g : g \in Above(i) <=> g \in Given /\ g[2] = i \div 2 ^ (LeafDepth - g[1])
        OBVIOUS
      <4> HIDE DEF Given, Above
      <4>3. \A d, p : <<d, p>> \in Above(i) <=> <<d, p>> \in Given /\ p = PositionOver(i, d)
        BY <4>2 DEF PositionOver, Width
      <4>4. QED
        BY <4>1, <4>2, <4>3
    <3> HIDE DEF Above
    <3>2. CASE i \in S
      <4>1. Above(i) = {}
        BY <2>2, <2>5, <3>1, <3>2, OneGivenAbove
      <4>2. QED
        BY <3>2, <4>1, FS_EmptySet
    <3>3. CASE i \notin S
      <4>1. PICK m \in 1 .. LeafDepth : \A d \in 1 .. LeafDepth :
              PositionOver(i, d) \in CopathSet(S, d) <=> d = m
        BY <2>2, <2>5, <3>3, OneGivenAbove
      <4>2. Above(i) = {<<m, PositionOver(i, m)>>}
        BY <3>1, <4>1
      <4>3. QED
        BY <3>3, <4>2, FS_Singleton
    <3>4. QED
      BY <3>2, <3>3
  <2> HIDE DEF Above, Given
  <2>6. QED
    BY <2>2, <2>4, <2>5 DEF CoPathPartitions, Above, Given
<1>2. QED
  BY InitMembership, NextMembership, InitCoHeld, NextCoHeld, <1>1, PTL DEF GadgetSpec
=============================================================================
