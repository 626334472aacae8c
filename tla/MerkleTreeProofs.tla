-------------------------- MODULE MerkleTreeProofs --------------------------
(***************************************************************************)
(* Proofs about MerkleTree for every height and every hash function.       *)
(*                                                                         *)
(* Consistent speaks of the idle tree only.  While a call stores its path, *)
(* exactly one node may disagree with its children: the parent of the node *)
(* just stored, because the nodes further up still hold the hash of        *)
(* children that are not yet replaced.  The invariant says so, and says    *)
(* what the digests of the path still to be stored are.                    *)
(***************************************************************************)
EXTENDS MerkleTree, MerkleHeapProofs

Agrees(k) == non_leaf_nodes[k] = NodeHash(leaf_nodes, non_leaf_nodes, k)

IsSeq(s) == s \in Seq({s[j] : j \in DOMAIN s})

(* The path and the nodes it was made for, both bottom to top.             *)
PathOK ==
  /\ IsSeq(path) /\ chain \in Seq(Inner) /\ Len(chain) = Len(path)
  /\ \A j \in 1 .. (Len(chain) - 1) :
       /\ chain[j] > 0
       /\ chain[j + 1] = Parent(chain[j])
       /\ path[j + 1] = JoinHash(chain[j], path[j])
  /\ \A i, j \in 1 .. Len(chain) : i < j => 2 * chain[j] + 1 <= chain[i]

IdleInv == \A k \in Inner : Agrees(k)

BuildInv ==
  /\ 2 * Width(level) <= NumLeaves
  /\ built \subseteq LevelNodes(level)
  /\ \A k \in Inner : k >= 2 * Width(level) - 1 \/ k \in built => Agrees(k)

ClimbInv ==
  /\ \A k \in Inner : Agrees(k)
  /\ PathOK
  /\ Len(path) \in 1 .. (Height - 1)
  /\ chain[1] = Parent(LastLevel(index))
  /\ path[1] = BottomHash(index, new_leaf_hash)
  /\ cur = chain[Len(chain)]
  /\ cur \in LevelNodes(Height - 1 - Len(path))

StoreInv ==
  /\ \A k \in Inner : (left > 0 /\ k = Parent(cur)) \/ Agrees(k)
  /\ PathOK
  /\ Len(path) = left
  /\ cur \in LevelNodes(left)
  /\ left > 0 =>
       /\ chain[1] = Parent(cur)
       /\ path[1] = NodeHash(leaf_nodes, non_leaf_nodes, chain[1])

IInv ==
  /\ TypeOK
  /\ pc = "idle" => IdleInv
  /\ pc = "build" => BuildInv
  /\ pc = "climb" => ClimbInv
  /\ pc = "store" => StoreInv

-----------------------------------------------------------------------------
(* The digest of a parent is the join of a child with its sibling.         *)
LEMMA JoinIsNodeHash ==
  ASSUME NEW k \in Inner, k > 0
  PROVE  NodeHash(leaf_nodes, non_leaf_nodes, Parent(k)) = JoinHash(k, non_leaf_nodes[k])
BY InnerFacts DEF NodeHash, JoinHash

(* Sequences of anything: what Append and Tail make of them.               *)
LEMMA SeqFacts ==
  ASSUME NEW s, IsSeq(s)
  PROVE  /\ Len(s) \in Nat
         /\ \A x : /\ IsSeq(Append(s, x)) /\ Len(Append(s, x)) = Len(s) + 1
                   /\ \A j \in 1 .. Len(s) : Append(s, x)[j] = s[j]
                   /\ Append(s, x)[Len(s) + 1] = x
         /\ Len(s) > 0 => /\ IsSeq(Tail(s)) /\ Len(Tail(s)) = Len(s) - 1
                          /\ \A j \in 1 .. (Len(s) - 1) : Tail(s)[j] = s[j + 1]
                          /\ Head(s) = s[1]
<1>1. ASSUME NEW S, NEW t \in Seq(S) PROVE IsSeq(t)
  BY <1>1 DEF IsSeq
<1> DEFINE S == {s[j] : j \in DOMAIN s}
<1>2. s \in Seq(S)
  BY DEF IsSeq
<1> HIDE DEF S
<1>3. ASSUME NEW x
      PROVE  /\ IsSeq(Append(s, x)) /\ Len(Append(s, x)) = Len(s) + 1
             /\ \A j \in 1 .. Len(s) : Append(s, x)[j] = s[j]
             /\ Append(s, x)[Len(s) + 1] = x
  <2>1. s \in Seq(S \cup {x})
    BY <1>2
  <2>2. Append(s, x) \in Seq(S \cup {x})
    BY <2>1
  <2>3. IsSeq(Append(s, x))
    BY <2>2, <1>1
  <2>4. QED
    BY <2>1, <2>3
<1>4. ASSUME Len(s) > 0
      PROVE  /\ IsSeq(Tail(s)) /\ Len(Tail(s)) = Len(s) - 1
             /\ \A j \in 1 .. (Len(s) - 1) : Tail(s)[j] = s[j + 1]
             /\ Head(s) = s[1]
  <2>1. s # <<>>
    BY <1>2, <1>4
  <2>2. Tail(s) \in Seq(S)
    BY <1>2, <2>1
  <2>3. IsSeq(Tail(s))
    BY <2>2, <1>1
  <2>4. QED
    BY <1>2, <1>4, <2>1, <2>3
<1>5. QED
  BY <1>2, <1>3, <1>4

-----------------------------------------------------------------------------
(* The steps.  Each lemma takes one action.                                *)
LEMMA InitIInv == Init => IInv
<1>1. /\ 0 \in LeafIndices /\ 0 \in Inner
      /\ 0 \in 0 .. (Height - 2) /\ 0 \in 0 .. (Height - 1)
  BY WidthFacts, HeightAssumption DEF LeafIndices, Inner
<1>2. QED
  BY <1>1 DEF Init, IInv, TypeOK

(* A call that returns to an agreeing tree.                                *)
LEMMA ReturnIInv ==
  ASSUME IInv, NEW how \in {"ok", "false", "err"}, Return(how),
         UNCHANGED <<tree, building>>, IdleInv
  PROVE  IInv'
<1>1. 0 \in LeafIndices /\ 0 \in Inner /\ 0 \in 0 .. (Height - 1)
  BY WidthFacts, HeightAssumption DEF LeafIndices, Inner
<1>2. TypeOK'
  BY <1>1 DEF IInv, TypeOK, Return, tree, building
<1>3. IdleInv'
  BY DEF IdleInv, Agrees, tree
<1>4. QED
  BY <1>2, <1>3 DEF IInv, Return

(* A heap of defaults has nothing built.                                   *)
LEMMA StartBuildIInv ==
  ASSUME IInv, NEW digests, DOMAIN digests = LeafIndices, StartBuild(digests)
  PROVE  IInv'
<1>1. TypeOK'
  BY HeightAssumption DEF IInv, TypeOK, StartBuild, updating
<1>2. pc' = "build" /\ level' = Height - 2 /\ built' = {}
  BY DEF StartBuild
<1>3. \A k \in Inner : ~(k >= 2 * Width(Height - 2) - 1)
  BY WidthFacts DEF Inner
<1>4. BuildInv'
  BY <1>2, <1>3, WidthFacts DEF BuildInv
<1>5. QED
  BY <1>1, <1>2, <1>4 DEF IInv

(* A node computed from finished children agrees, and no finished node has *)
(* it for a child.                                                         *)
LEMMA BuildNodeIInv ==
  ASSUME IInv, NEW k \in Inner, BuildNode(k)
  PROVE  IInv'
<1>1. /\ pc = "build" /\ BuildInv /\ TypeOK
      /\ k \in LevelNodes(level) /\ leaf_nodes' = leaf_nodes
      /\ non_leaf_nodes' =
           [non_leaf_nodes EXCEPT ![k] = NodeHash(leaf_nodes, non_leaf_nodes, k)]
  BY DEF IInv, BuildNode
<1>2. PICK w \in Nat : w >= 1 /\ Width(level) = w
  BY <1>1, WidthFacts, HeightAssumption DEF TypeOK
<1>3. k \in (w - 1) .. (2 * w - 2)
  BY <1>1, <1>2 DEF LevelNodes
<1>4. ASSUME NEW m \in Inner, m >= w - 1
      PROVE  NodeHash(leaf_nodes, non_leaf_nodes', m) =
               NodeHash(leaf_nodes, non_leaf_nodes, m)
  <2>1. LeftChild(m) # k /\ RightChild(m) # k
    BY <1>2, <1>3, <1>4 DEF LeftChild, RightChild, Inner
  <2>2. /\ non_leaf_nodes'[LeftChild(m)] = non_leaf_nodes[LeftChild(m)]
        /\ non_leaf_nodes'[RightChild(m)] = non_leaf_nodes[RightChild(m)]
        \/ IsBottom(m)
    <3>1. ASSUME ~IsBottom(m)
          PROVE  LeftChild(m) \in Inner /\ RightChild(m) \in Inner
      <4>1. PICK u \in Nat : u >= 1 /\ NumLeaves = 2 * u
        BY WidthFacts, HeightAssumption
      <4>2. QED
        BY <3>1, <4>1 DEF IsBottom, LeftChild, RightChild, Inner
    <3>2. QED
      BY <1>1, <2>1, <3>1 DEF TypeOK
  <2>3. QED
    BY <2>2 DEF NodeHash
<1>5. ASSUME NEW m \in Inner, m >= w - 1,
             m >= 2 * w - 1 \/ m \in built \/ m = k
      PROVE  Agrees(m)'
  <2>1. NodeHash(leaf_nodes, non_leaf_nodes', m) =
          NodeHash(leaf_nodes, non_leaf_nodes, m)
    BY <1>4, <1>5
  <2>2. CASE m = k
    BY <1>1, <2>1, <2>2 DEF Agrees, TypeOK
  <2>3. CASE m # k
    <3>1. Agrees(m)
      BY <1>1, <1>2, <1>5, <2>3 DEF BuildInv
    <3>2. QED
      BY <1>1, <2>1, <2>3, <3>1 DEF Agrees, TypeOK
  <2>4. QED
    BY <2>2, <2>3
<1>6. CASE built \cup {k} # LevelNodes(level)
  <2>1. pc' = "build" /\ level' = level /\ built' = built \cup {k}
    BY <1>1, <1>6 DEF BuildNode
  <2>2. TypeOK'
    BY <1>1, <2>1 DEF BuildNode, TypeOK, updating
  <2>3. \A m \in built \cup {k} : m >= w - 1
    BY <1>1, <1>2, <1>3 DEF BuildInv, LevelNodes
  <2>4. ASSUME NEW m \in Inner, m >= 2 * w - 1 \/ m \in built \cup {k}
        PROVE  Agrees(m)'
    <3>1. m >= w - 1
      BY <1>2, <2>3, <2>4 DEF Inner
    <3>2. QED
      BY <1>5, <2>4, <3>1
  <2>5. BuildInv'
    BY <1>1, <1>2, <2>1, <2>4 DEF BuildInv
  <2>6. QED
    BY <2>1, <2>2, <2>5 DEF IInv
<1>7. CASE built \cup {k} = LevelNodes(level)
  <2>1. \A m \in Inner : m >= w - 1 => Agrees(m)'
    <3> SUFFICES ASSUME NEW m \in Inner, m >= w - 1 PROVE Agrees(m)'
      OBVIOUS
    <3>1. m >= 2 * w - 1 \/ m \in (w - 1) .. (2 * w - 2)
      BY <1>2 DEF Inner
    <3>2. QED
      BY <1>2, <1>5, <1>7, <3>1 DEF LevelNodes
  <2>2. CASE level > 0
    <3>1. pc' = "build" /\ level' = level - 1 /\ built' = {}
      BY <1>1, <1>7, <2>2 DEF BuildNode
    <3>2. level \in 1 .. (Height - 2)
      BY <1>1, <2>2, HeightAssumption DEF TypeOK
    <3>3. TypeOK'
      BY <1>1, <3>1, <3>2, HeightAssumption DEF BuildNode, TypeOK, updating
    <3>4. Width(level) = 2 * Width(level - 1) /\ Width(level - 1) \in Nat
      BY <3>2, WidthFacts, HeightAssumption
    <3>5. BuildInv'
      BY <1>1, <1>2, <2>1, <3>1, <3>4, WidthFacts DEF BuildInv, Inner
    <3>6. QED
      BY <3>1, <3>3, <3>5 DEF IInv
  <2>3. CASE ~(level > 0)
    <3>1. pc' = "idle" /\ level' = level /\ built' = {} /\ level = 0
      BY <1>1, <1>7, <2>3, HeightAssumption DEF BuildNode, TypeOK
    <3>2. TypeOK'
      BY <1>1, <3>1 DEF BuildNode, TypeOK, updating
    <3>3. IdleInv'
      BY <1>2, <2>1, <3>1, WidthFacts DEF IdleInv, Inner
    <3>4. QED
      BY <3>1, <3>2, <3>3 DEF IInv
  <2>4. QED
    BY <2>2, <2>3
<1>8. QED
  BY <1>6, <1>7

(* updated_path begins with the node above the leaf.                       *)
LEMMA StartUpdateIInv ==
  ASSUME IInv, NEW i \in LeafIndices, NEW leaf, NEW root,
         StartUpdate(i, leaf, root)
  PROVE  IInv'
<1> DEFINE p == Parent(LastLevel(i))
           b == BottomHash(i, LeafHash(leaf))
<1>1. /\ pc = "idle" /\ IdleInv /\ TypeOK
      /\ index' = i /\ new_leaf_hash' = LeafHash(leaf) /\ path' = <<b>>
      /\ cur' = p /\ chain' = <<p>> /\ left' = 0 /\ pc' = "climb"
      /\ leaf_nodes' = leaf_nodes /\ non_leaf_nodes' = non_leaf_nodes
      /\ level' = level /\ built' = built /\ result' = result
  BY DEF IInv, StartUpdate, tree, building
<1>2. p \in Inner
  BY LeafFacts
<1>3. p \in LevelNodes(Height - 2)
  <2>1. LastLevel(i) \in LevelNodes(Height - 1)
    BY WidthFacts DEF LastLevel, LevelNodes, LeafIndices
  <2>2. Height - 1 \in 1 .. (Height - 1) /\ (Height - 1) - 1 = Height - 2
    BY HeightAssumption
  <2>3. QED
    BY <2>1, <2>2, LevelUp
<1> HIDE DEF p
<1>4. TypeOK'
  BY <1>1, <1>2, HeightAssumption DEF TypeOK
<1>5. \A k \in Inner : Agrees(k)'
  BY <1>1 DEF IdleInv, Agrees
<1>6. PathOK'
  BY <1>1, <1>2 DEF PathOK, IsSeq
<1>7. path'[1] = BottomHash(i, LeafHash(leaf))'
  BY <1>1 DEF BottomHash
<1>8. ClimbInv'
  <2>1. Len(path') = 1 /\ Len(chain') = 1 /\ chain'[1] = p
    BY <1>1
  <2>2. chain'[1] = Parent(LastLevel(index'))
    BY <1>1 DEF p
  <2>3. cur' \in LevelNodes(Height - 1 - Len(path'))
    BY <1>1, <1>3, <2>1, HeightAssumption DEF LevelNodes
  <2>4. path'[1] = BottomHash(index, new_leaf_hash)'
    BY <1>1 DEF BottomHash
  <2>5. QED
    BY <1>1, <1>5, <1>6, <2>1, <2>2, <2>3, <2>4, HeightAssumption DEF ClimbInv
<1>9. QED
  BY <1>1, <1>4, <1>8 DEF IInv

(* One more digest, for the node above.                                    *)
LEMMA ClimbIInv ==
  ASSUME IInv, Climb
  PROVE  IInv'
<1>1. /\ pc = "climb" /\ ClimbInv /\ TypeOK /\ PathOK /\ ~IsRoot(cur)
      /\ path' = Append(path, JoinHash(cur, path[Len(path)]))
      /\ cur' = Parent(cur) /\ chain' = Append(chain, Parent(cur))
      /\ leaf_nodes' = leaf_nodes /\ non_leaf_nodes' = non_leaf_nodes
      /\ UNCHANGED <<pc, level, built, index, new_leaf_hash, left, result>>
  BY DEF IInv, ClimbInv, Climb, tree, building
<1> DEFINE n == Len(path)
<1>2. n \in 1 .. (Height - 1) /\ Len(chain) = n /\ chain \in Seq(Inner)
  BY <1>1 DEF ClimbInv, PathOK
<1>3. cur = chain[n] /\ cur \in LevelNodes(Height - 1 - n) /\ cur \in Inner
  BY <1>1, <1>2 DEF ClimbInv
<1>4. Height - 1 - n \in 1 .. (Height - 1)
  <2>1. Height - 1 - n \in 0 .. (Height - 1)
    BY <1>2, HeightAssumption
  <2>2. Height - 1 - n # 0
    BY <1>1, <1>3, <2>1, LevelRoot
  <2>3. QED
    BY <2>1, <2>2, HeightAssumption
<1>5. cur > 0 /\ Parent(cur) \in LevelNodes(Height - 1 - n - 1)
  BY <1>3, <1>4, LevelUp
<1>6. Parent(cur) \in Inner /\ 2 * Parent(cur) + 1 <= cur
  BY <1>3, <1>5, InnerFacts
<1>7. /\ IsSeq(path') /\ Len(path') = n + 1
      /\ \A j \in 1 .. n : path'[j] = path[j]
      /\ path'[n + 1] = JoinHash(cur, path[n])
  BY <1>1, SeqFacts DEF PathOK
<1>8. /\ chain' \in Seq(Inner) /\ Len(chain') = n + 1
      /\ \A j \in 1 .. n : chain'[j] = chain[j]
      /\ chain'[n + 1] = Parent(cur)
  BY <1>1, <1>2, <1>6
<1> HIDE DEF n
<1>9. PathOK'
  <2>1. ASSUME NEW j \in 1 .. n
        PROVE  /\ chain'[j] > 0
               /\ chain'[j + 1] = Parent(chain'[j])
               /\ path'[j + 1] = JoinHash(chain[j], path'[j])
    <3>1. CASE j = n
      BY <1>2, <1>3, <1>5, <1>7, <1>8, <3>1
    <3>2. CASE j # n
      <4>1. j \in 1 .. (n - 1) /\ j + 1 \in 1 .. n
        BY <1>2, <3>2
      <4>2. /\ chain[j] > 0 /\ chain[j + 1] = Parent(chain[j])
            /\ path[j + 1] = JoinHash(chain[j], path[j])
        BY <1>1, <1>2, <4>1 DEF PathOK
      <4>3. QED
        BY <1>7, <1>8, <4>1, <4>2
    <3>3. QED
      BY <3>1, <3>2
  <2>2. \A j \in 1 .. n :
          JoinHash(chain[j], path'[j]) = JoinHash(chain[j], path[j])'
    BY <1>1, <1>8 DEF JoinHash
  <2>3. ASSUME NEW i \in 1 .. (n + 1), NEW j \in 1 .. (n + 1), i < j
        PROVE  2 * chain'[j] + 1 <= chain'[i]
    <3>1. i \in 1 .. n /\ chain[i] \in Nat
      <4>1. i \in 1 .. n
        BY <1>2, <2>3
      <4>2. chain[i] \in Inner
        BY <1>2, <4>1
      <4>3. QED
        BY <4>1, <4>2, WidthFacts DEF Inner
    <3>2. CASE j = n + 1
      <4>1. cur <= chain[i]
        <5>1. CASE i = n
          BY <1>3, <5>1, <3>1
        <5>2. CASE i # n
          <6>1. 2 * chain[n] + 1 <= chain[i]
            BY <1>1, <1>2, <3>1, <5>2 DEF PathOK
          <6>2. QED
            BY <1>3, <3>1, <6>1 DEF Inner
        <5>3. QED
          BY <5>1, <5>2
      <4>2. QED
        BY <1>3, <1>6, <1>8, <3>1, <3>2, <4>1 DEF Inner
    <3>3. CASE j # n + 1
      BY <1>1, <1>2, <1>8, <2>3, <3>1, <3>3 DEF PathOK
    <3>4. QED
      BY <3>2, <3>3
  <2>4. QED
    BY <1>2, <1>7, <1>8, <2>1, <2>2, <2>3 DEF PathOK
<1>10. TypeOK'
  BY <1>1, <1>6 DEF TypeOK
<1>11. ClimbInv'
  <2>1. \A k \in Inner : Agrees(k)'
    BY <1>1 DEF ClimbInv, Agrees
  <2>2. n + 1 \in 1 .. (Height - 1)
    BY <1>2, <1>4, HeightAssumption
  <2>3. chain'[1] = Parent(LastLevel(index)')
    BY <1>1, <1>2, <1>8 DEF ClimbInv, LastLevel
  <2>4. path'[1] = BottomHash(index, new_leaf_hash)'
    BY <1>1, <1>2, <1>7 DEF ClimbInv, BottomHash
  <2>5. Height - 1 - n - 1 = Height - 1 - (n + 1)
    BY <1>2, HeightAssumption
  <2>6. QED
    BY <1>1, <1>5, <1>7, <1>8, <1>9, <2>1, <2>2, <2>3, <2>4, <2>5 DEF ClimbInv
<1>12. QED
  BY <1>1, <1>10, <1>11 DEF IInv

(* Storing the leaf makes the node above it the only one that disagrees.   *)
LEMMA StoreLeafIInv ==
  ASSUME IInv, StoreLeaf
  PROVE  IInv'
<1> DEFINE p == Parent(LastLevel(index))
<1>1. /\ pc = "climb" /\ ClimbInv /\ PathOK /\ TypeOK /\ IsRoot(cur)
      /\ leaf_nodes' = [leaf_nodes EXCEPT ![index] = new_leaf_hash]
      /\ cur' = LastLevel(index) /\ left' = Height - 1 /\ pc' = "store"
      /\ UNCHANGED <<non_leaf_nodes, level, built, index, new_leaf_hash, path,
                     result, chain>>
  BY DEF IInv, ClimbInv, StoreLeaf, building
<1>2. index \in LeafIndices /\ DOMAIN leaf_nodes = LeafIndices
  BY <1>1 DEF TypeOK
<1>3. Len(path) = Height - 1
  <2>1. Len(path) \in 1 .. (Height - 1) /\ cur \in LevelNodes(Height - 1 - Len(path))
    BY <1>1 DEF ClimbInv
  <2>2. Height - 1 - Len(path) \in 0 .. (Height - 1)
    BY <2>1, HeightAssumption
  <2>3. Height - 1 - Len(path) = 0
    BY <1>1, <2>1, <2>2, LevelRoot
  <2>4. QED
    BY <2>1, <2>3, HeightAssumption
<1>4. TypeOK'
  BY <1>1, <1>2, HeightAssumption DEF TypeOK, LastLevel
<1>5. PathOK'
  BY <1>1 DEF PathOK, JoinHash
<1>6. ASSUME NEW k \in Inner, k # p
      PROVE  Agrees(k)'
  <2>1. Agrees(k)
    BY <1>1 DEF ClimbInv
  <2>2. NodeHash(leaf_nodes', non_leaf_nodes, k) = NodeHash(leaf_nodes, non_leaf_nodes, k)
    BY <1>1, <1>2, <1>6, OtherLeaves DEF NodeHash
  <2>3. QED
    BY <1>1, <2>1, <2>2 DEF Agrees
<1>7. path[1] = NodeHash(leaf_nodes', non_leaf_nodes, p)
  <2>1. path[1] = BottomHash(index, new_leaf_hash)
    BY <1>1 DEF ClimbInv
  <2>2. /\ leaf_nodes'[index] = new_leaf_hash
        /\ leaf_nodes'[LeafSibling(index)] = leaf_nodes[LeafSibling(index)]
    BY <1>1, <1>2, LeafFacts
  <2>3. QED
    BY <1>2, <2>1, <2>2, LeafFacts DEF BottomHash, NodeHash
<1>8. cur' \in LevelNodes(Height - 1)
  BY <1>1, <1>2, WidthFacts DEF LastLevel, LevelNodes, LeafIndices
<1>9. chain[1] = p
  BY <1>1 DEF ClimbInv
<1> HIDE DEF p
<1>10. StoreInv'
  <2>1. Parent(cur') = p /\ Len(path') = left' /\ left' > 0
    BY <1>1, <1>3, HeightAssumption DEF p
  <2>2. \A k \in Inner : k = Parent(cur') \/ Agrees(k)'
    BY <1>6, <2>1
  <2>3. cur' \in LevelNodes(left')
    BY <1>1, <1>8
  <2>4. path'[1] = NodeHash(leaf_nodes', non_leaf_nodes', chain'[1])
    BY <1>1, <1>7, <1>9
  <2>5. chain'[1] = Parent(cur')
    BY <1>1, <1>9, <2>1
  <2>6. QED
    BY <1>5, <2>1, <2>2, <2>3, <2>4, <2>5 DEF StoreInv, LevelNodes
<1>11. QED
  BY <1>1, <1>4, <1>10 DEF IInv

(* Storing a node mends it and passes the disagreement to its parent.      *)
LEMMA StoreNodeIInv ==
  ASSUME IInv, StoreNode
  PROVE  IInv'
<1> DEFINE c == Parent(cur)
<1>1. /\ pc = "store" /\ StoreInv /\ PathOK /\ TypeOK /\ left > 0
      /\ cur' = c
      /\ non_leaf_nodes' = [non_leaf_nodes EXCEPT ![c] = Head(path)]
      /\ path' = Tail(path) /\ chain' = Tail(chain) /\ left' = left - 1
      /\ UNCHANGED <<leaf_nodes, pc, level, built, index, new_leaf_hash, result>>
  BY DEF IInv, StoreInv, StoreNode, building
<1>2. /\ left \in 1 .. (Height - 1) /\ Len(path) = left /\ Len(chain) = left
      /\ cur \in LevelNodes(left) /\ chain[1] = c /\ chain \in Seq(Inner)
      /\ path[1] = NodeHash(leaf_nodes, non_leaf_nodes, c)
      /\ DOMAIN non_leaf_nodes = Inner
  BY <1>1, HeightAssumption DEF StoreInv, PathOK, TypeOK
<1>3. c \in LevelNodes(left - 1)
  BY <1>2, LevelUp
<1>4. c \in Inner
  BY <1>2
<1> HIDE DEF c
<1>5. /\ IsSeq(path') /\ Len(path') = left - 1 /\ Head(path) = path[1]
      /\ \A j \in 1 .. (left - 1) : path'[j] = path[j + 1]
  BY <1>1, <1>2, SeqFacts DEF PathOK
<1>6. /\ chain' \in Seq(Inner) /\ Len(chain') = left - 1
      /\ \A j \in 1 .. (left - 1) : chain'[j] = chain[j + 1]
  BY <1>1, <1>2
<1>7. ASSUME NEW j \in 1 .. (left - 1)
      PROVE  /\ chain[j] > 0 /\ chain[j] \in Inner
             /\ chain[j + 1] = Parent(chain[j])
             /\ path[j + 1] = JoinHash(chain[j], path[j])
  BY <1>1, <1>2 DEF PathOK
<1>8. TypeOK'
  BY <1>1, <1>2, <1>4, HeightAssumption DEF TypeOK
<1>9. ASSUME NEW k \in Inner, k > 0, Sibling(k) # c, NEW d
      PROVE  JoinHash(k, d)' = JoinHash(k, d)
  BY <1>1, <1>2, <1>9, InnerFacts DEF JoinHash
<1>10. ASSUME NEW j \in 2 .. (left - 1)
       PROVE  Sibling(chain[j]) # c
  <2>1. j \in 1 .. (left - 1) /\ j \in 1 .. Len(chain) /\ 1 \in 1 .. Len(chain)
    BY <1>2, <1>10
  <2>2. 2 * chain[j] + 1 <= c
    BY <1>1, <1>2, <1>10, <2>1 DEF PathOK
  <2>3. chain[j] > 0 /\ chain[j] \in Inner
    BY <1>7, <2>1
  <2>4. chain[j] \in Nat /\ c \in Nat
    BY <1>4, <2>3, WidthFacts DEF Inner
  <2>5. Sibling(chain[j]) <= chain[j] + 1
    BY <2>3, InnerFacts
  <2>6. QED
    BY <2>2, <2>3, <2>4, <2>5
<1>11. PathOK'
  <2>1. ASSUME NEW j \in 1 .. (left - 2)
        PROVE  /\ chain'[j] > 0
               /\ chain'[j + 1] = Parent(chain'[j])
               /\ path'[j + 1] = JoinHash(chain[j], path[j])'
    <3>1. /\ j + 1 \in 2 .. (left - 1) /\ j \in 1 .. (left - 1)
          /\ j + 1 \in 1 .. (left - 1)
      BY <1>2
    <3>2. /\ chain'[j] = chain[j + 1] /\ chain'[j + 1] = chain[j + 1 + 1]
          /\ path'[j] = path[j + 1] /\ path'[j + 1] = path[j + 1 + 1]
      BY <1>5, <1>6, <3>1
    <3>3. /\ chain[j + 1] > 0 /\ chain[j + 1] \in Inner
          /\ chain[j + 1 + 1] = Parent(chain[j + 1])
          /\ path[j + 1 + 1] = JoinHash(chain[j + 1], path[j + 1])
      BY <1>7, <3>1
    <3>4. Sibling(chain[j + 1]) # c
      BY <1>10, <3>1
    <3>5. JoinHash(chain[j], path[j])' = JoinHash(chain[j + 1], path[j + 1])
      <4>1. chain'[j] \in Inner /\ chain'[j] > 0 /\ Sibling(chain'[j]) # c
        BY <3>2, <3>3, <3>4
      <4>2. JoinHash(chain[j], path[j])' =
              IF IsLeftChild(chain'[j])
              THEN Compress(path'[j], non_leaf_nodes'[Sibling(chain'[j])])
              ELSE Compress(non_leaf_nodes'[Sibling(chain'[j])], path'[j])
        BY DEF JoinHash
      <4>3. non_leaf_nodes'[Sibling(chain'[j])] = non_leaf_nodes[Sibling(chain'[j])]
        BY <1>1, <1>2, <4>1, InnerFacts
      <4>4. QED
        BY <3>2, <4>2, <4>3 DEF JoinHash
    <3>6. QED
      BY <3>2, <3>3, <3>5
  <2>2. ASSUME NEW i \in 1 .. (left - 1), NEW j \in 1 .. (left - 1), i < j
        PROVE  2 * chain'[j] + 1 <= chain'[i]
    <3>1. i + 1 \in 1 .. Len(chain) /\ j + 1 \in 1 .. Len(chain) /\ i + 1 < j + 1
      BY <1>2, <2>2
    <3>2. 2 * chain[j + 1] + 1 <= chain[i + 1]
      BY <1>1, <3>1 DEF PathOK
    <3>3. QED
      BY <1>6, <3>2
  <2>3. Len(chain') - 1 = left - 2
    BY <1>2, <1>6
  <2>4. QED
    BY <1>5, <1>6, <2>1, <2>2, <2>3 DEF PathOK
<1>12. ASSUME NEW k \in Inner, ~(c > 0 /\ k = Parent(c))
       PROVE  Agrees(k)'
  <2>1. ASSUME ~IsBottom(k)
        PROVE  /\ LeftChild(k) \in Inner /\ RightChild(k) \in Inner
               /\ LeftChild(k) # c /\ RightChild(k) # c
    <3>1. PICK u \in Nat : u >= 1 /\ NumLeaves = 2 * u
      BY WidthFacts, HeightAssumption
    <3>2. k \in Nat /\ c \in Nat
      BY <1>4, WidthFacts DEF Inner
    <3>3. LeftChild(k) \in Inner /\ RightChild(k) \in Inner
      BY <2>1, <3>1 DEF IsBottom, LeftChild, RightChild, Inner
    <3>4. c > 0 => k # (c - 1) \div 2
      BY <1>12 DEF Parent
    <3>5. 2 * k + 1 # c /\ 2 * k + 2 # c
      BY <3>2, <3>4
    <3>6. QED
      BY <3>3, <3>5 DEF LeftChild, RightChild
  <2>2. NodeHash(leaf_nodes, non_leaf_nodes', k) = NodeHash(leaf_nodes, non_leaf_nodes, k)
    BY <1>1, <1>2, <2>1 DEF NodeHash
  <2>3. CASE k = c
    BY <1>1, <1>2, <1>5, <2>2, <2>3 DEF Agrees
  <2>4. CASE k # c
    <3>1. Agrees(k)
      BY <1>1, <2>4 DEF StoreInv, c
    <3>2. QED
      BY <1>1, <1>2, <2>2, <2>4, <3>1 DEF Agrees
  <2>5. QED
    BY <2>3, <2>4
<1>13. left - 1 > 0 => c > 0
  BY <1>2, <1>3, LevelUp, HeightAssumption
<1>14. left - 1 = 0 => ~(c > 0)
  <2>1. left - 1 \in 0 .. (Height - 1)
    BY <1>2, HeightAssumption
  <2>2. left - 1 = 0 => IsRoot(c)
    BY <1>3, <2>1, LevelRoot
  <2>3. QED
    BY <2>2 DEF IsRoot
<1>15. ASSUME left - 1 > 0
       PROVE  /\ chain'[1] = Parent(c)
              /\ path'[1] = NodeHash(leaf_nodes', non_leaf_nodes', chain'[1])
  <2>1. 1 \in 1 .. (left - 1)
    BY <1>2, <1>15
  <2>2. chain'[1] = Parent(c) /\ path'[1] = JoinHash(c, path[1])
    <3>1. chain'[1] = chain[1 + 1] /\ path'[1] = path[1 + 1]
      BY <1>5, <1>6, <2>1
    <3>2. chain[1 + 1] = Parent(chain[1]) /\ path[1 + 1] = JoinHash(chain[1], path[1])
      BY <1>7, <2>1
    <3>3. QED
      BY <1>2, <3>1, <3>2
  <2>3. non_leaf_nodes'[c] = path[1]
    BY <1>1, <1>2, <1>4, <1>5
  <2>4. non_leaf_nodes'[Sibling(c)] = non_leaf_nodes[Sibling(c)]
    BY <1>1, <1>2, <1>4, <1>13, <1>15, InnerFacts
  <2>5. NodeHash(leaf_nodes', non_leaf_nodes', Parent(c)) = JoinHash(c, path[1])
    BY <1>4, <1>13, <1>15, <2>3, <2>4, InnerFacts DEF NodeHash, JoinHash
  <2>6. QED
    BY <2>2, <2>5
<1>16. StoreInv'
  <2>1. \A k \in Inner : (left' > 0 /\ k = Parent(cur')) \/ Agrees(k)'
    <3> SUFFICES ASSUME NEW k \in Inner, ~(left' > 0 /\ k = Parent(cur'))
                 PROVE  Agrees(k)'
      OBVIOUS
    <3>1. ~(c > 0 /\ k = Parent(c))
      BY <1>1, <1>2, <1>14
    <3>2. QED
      BY <1>12, <3>1
  <2>2. cur' \in LevelNodes(left')
    BY <1>1, <1>3
  <2>3. Len(path') = left'
    BY <1>1, <1>5
  <2>4. left' > 0 =>
          /\ chain'[1] = Parent(cur')
          /\ path'[1] = NodeHash(leaf_nodes', non_leaf_nodes', chain'[1])
    BY <1>1, <1>15
  <2>5. QED
    BY <1>11, <2>1, <2>2, <2>3, <2>4 DEF StoreInv, LevelNodes
<1>17. QED
  BY <1>1, <1>8, <1>16 DEF IInv

-----------------------------------------------------------------------------
(* Every step preserves the invariant.                                     *)
LEMMA NextIInv == IInv /\ [Next]_vars => IInv'
<1> SUFFICES ASSUME IInv, [Next]_vars PROVE IInv'
  OBVIOUS
<1>1. ASSUME NEW leaves \in Initials, New(leaves) PROVE IInv'
  BY <1>1, StartBuildIInv DEF New
<1>2. CASE Blank
  BY <1>2, StartBuildIInv DEF Blank
<1>3. ASSUME NEW i \in LeafIndices, NEW leaf \in Leaves,
             Update(i, leaf) \/ CheckUpdate(i, leaf)
      PROVE  IInv'
  BY <1>3, StartUpdateIInv DEF Update, CheckUpdate
<1>4. CASE UpdateFails
  BY <1>4, ReturnIInv DEF UpdateFails, IInv
<1>5. CASE Build
  <2>1. CASE BuildFails
    BY <2>1 DEF BuildFails, IInv, TypeOK, tree, building, updating
  <2>2. QED
    BY <1>5, <2>1, BuildNodeIInv DEF Build
<1>6. CASE Run
  <2>1. CASE HashFails
    BY <2>1, ReturnIInv DEF HashFails, IInv, ClimbInv, IdleInv
  <2>2. CASE Refuse
    BY <2>2, ReturnIInv DEF Refuse, IInv, ClimbInv, IdleInv
  <2>3. CASE StoreDone
    BY <2>3, ReturnIInv DEF StoreDone, IInv, StoreInv, IdleInv
  <2>4. QED
    BY <1>6, <2>1, <2>2, <2>3, ClimbIInv, StoreLeafIInv, StoreNodeIInv DEF Run
<1>7. CASE UNCHANGED vars
  BY <1>7 DEF vars, tree, building, updating, IInv, TypeOK, IdleInv, BuildInv,
              ClimbInv, StoreInv, PathOK, Agrees, JoinHash, BottomHash
<1>8. QED
  BY <1>1, <1>2, <1>3, <1>4, <1>5, <1>6, <1>7 DEF Next

(* Every index the tree uses is inside its vectors.                        *)
THEOREM MerkleTypeOK == Spec => []TypeOK
<1>1. IInv => TypeOK
  BY DEF IInv
<1>2. QED
  BY InitIInv, NextIInv, <1>1, PTL DEF Spec

(* Between calls every inner node is the hash of its children: for every   *)
(* height, every hash function, every sequence of updates and checked      *)
(* updates, wherever they fail, and every order of a parallel build.       *)
THEOREM MerkleConsistent == Spec => []Consistent
<1>1. IInv => Consistent
  BY DEF IInv, IdleInv, Agrees, Consistent
<1>2. QED
  BY InitIInv, NextIInv, <1>1, PTL DEF Spec

(* The two loops of an update walk the same nodes: the path has height - 1 *)
(* digests when the write-back begins, each pop finds one, and the last    *)
(* one is the root's.                                                      *)
THEOREM MerkleStoreFollowsClimb == Spec => []StoreFollowsClimb
<1>1. IInv => StoreFollowsClimb
  <2> SUFFICES ASSUME IInv PROVE StoreFollowsClimb
    OBVIOUS
  <2>1. ASSUME pc = "climb", IsRoot(cur) PROVE Len(path) = Height - 1
    <3>1. Len(path) \in 1 .. (Height - 1) /\ cur \in LevelNodes(Height - 1 - Len(path))
      BY <2>1 DEF IInv, ClimbInv
    <3>2. Height - 1 - Len(path) \in 0 .. (Height - 1)
      BY <3>1, HeightAssumption
    <3>3. Height - 1 - Len(path) = 0
      BY <2>1, <3>1, <3>2, LevelRoot
    <3>4. QED
      BY <3>1, <3>3, HeightAssumption
  <2>2. ASSUME pc = "store"
        PROVE  /\ Len(path) = left
               /\ left > 0 => Head(chain) = Parent(cur)
               /\ left = 0 => IsRoot(cur)
    <3>1. StoreInv /\ PathOK /\ left \in 0 .. (Height - 1)
      BY <2>2 DEF IInv, StoreInv, TypeOK
    <3>2. Len(path) = left /\ Len(chain) = left /\ chain \in Seq(Inner)
      BY <3>1 DEF StoreInv, PathOK
    <3>3. left > 0 => Head(chain) = Parent(cur)
      BY <3>1, <3>2 DEF StoreInv
    <3>4. left = 0 => IsRoot(cur)
      BY <3>1, LevelRoot, HeightAssumption DEF StoreInv
    <3>5. QED
      BY <3>2, <3>3, <3>4
  <2>3. QED
    BY <2>1, <2>2 DEF StoreFollowsClimb
<1>2. QED
  BY InitIInv, NextIInv, <1>1, PTL DEF Spec

-----------------------------------------------------------------------------
(* What a call remembers of the tree it began with, beside IInv.           *)
Stored ==
  /\ leaf_nodes = [before.leaves EXCEPT ![index] = new_leaf_hash]
  /\ \A k \in Inner \ OnPath(index) : non_leaf_nodes[k] = before.nodes[k]
  /\ before.nodes = Digests(before.leaves)
  /\ cur = OverLeaf(index, left)

FromLeaves ==
  \/ leaf_nodes = [i \in LeafIndices |-> DefaultLeaf]
  \/ \E ls \in Initials : leaf_nodes = [i \in LeafIndices |-> LeafHash(ls[i])]

History ==
  /\ non_leaf_nodes = [k \in Inner |-> non_leaf_nodes[k]]
  /\ pc = "build" => FromLeaves
  /\ pc = "climb" => before = [leaves |-> leaf_nodes, nodes |-> non_leaf_nodes]
  /\ pc = "store" => Stored
  /\ pc \in {"climb", "store"} => \E leaf \in Leaves : new_leaf_hash = LeafHash(leaf)

(* Storing a node keeps the digests not above the leaf.                    *)
LEMMA StoreNodeHistory ==
  ASSUME IInv, History, StoreNode
  PROVE  History'
<1>1. /\ pc = "store" /\ pc' = "store" /\ TypeOK /\ Stored /\ left > 0
      /\ cur' = Parent(cur) /\ left' = left - 1
      /\ non_leaf_nodes' = [non_leaf_nodes EXCEPT ![Parent(cur)] = Head(path)]
      /\ UNCHANGED <<leaf_nodes, index, new_leaf_hash, before>>
  BY DEF IInv, History, StoreNode
<1>2. left \in 1 .. (Height - 1) /\ index \in LeafIndices
  BY <1>1, HeightAssumption DEF TypeOK
<1>3. Parent(cur) = OverLeaf(index, left - 1) /\ Parent(cur) \in OnPath(index)
  BY <1>1, <1>2, OverLeafFacts DEF Stored
<1>4. Stored'
  BY <1>1, <1>3, <1>2 DEF Stored, OverLeaf, TypeOK, OnPath
<1>5. QED
  BY <1>1, <1>4 DEF History

(* Storing the leaf begins with the tree the call began with, which is the *)
(* one built from its leaves.                                              *)
LEMMA StoreLeafHistory ==
  ASSUME IInv, History, StoreLeaf
  PROVE  History'
<1>1. /\ pc = "climb" /\ pc' = "store" /\ TypeOK /\ ClimbInv
      /\ before = [leaves |-> leaf_nodes, nodes |-> non_leaf_nodes]
      /\ leaf_nodes' = [leaf_nodes EXCEPT ![index] = new_leaf_hash]
      /\ cur' = LastLevel(index) /\ left' = Height - 1
      /\ UNCHANGED <<non_leaf_nodes, index, new_leaf_hash, before>>
  BY DEF IInv, History, StoreLeaf
<1>2. non_leaf_nodes = Digests(leaf_nodes)
  BY <1>1, AgreeingIsDigests DEF History, ClimbInv, Agrees
<1>3. index \in LeafIndices
  BY <1>1 DEF TypeOK
<1>4. cur' = OverLeaf(index, left)'
  BY <1>1, <1>3, OverLeafFacts DEF OverLeaf
<1>5. Stored'
  BY <1>1, <1>2, <1>4 DEF Stored, OnPath
<1>6. QED
  BY <1>1, <1>5 DEF History

(* The history is right in every state.                                    *)
LEMMA InitHistory == Init => History
BY DEF Init, History

LEMMA NextHistory == IInv /\ History /\ [Next]_vars => History'
<1> SUFFICES ASSUME IInv, History, [Next]_vars PROVE History'
  OBVIOUS
<1>1. ASSUME NEW digests, StartBuild(digests),
             \/ digests = [i \in LeafIndices |-> DefaultLeaf]
             \/ \E ls \in Initials : digests = [i \in LeafIndices |-> LeafHash(ls[i])]
      PROVE  History'
  BY <1>1 DEF StartBuild, History, FromLeaves
<1>2. ASSUME NEW leaves \in Initials, New(leaves) PROVE History'
  BY <1>1, <1>2 DEF New
<1>3. CASE Blank
  BY <1>1, <1>3 DEF Blank
<1>4. ASSUME NEW i \in LeafIndices, NEW leaf \in Leaves,
             Update(i, leaf) \/ CheckUpdate(i, leaf)
      PROVE  History'
  BY <1>4 DEF Update, CheckUpdate, StartUpdate, History, tree
<1>5. ASSUME NEW how, Return(how), UNCHANGED tree PROVE History'
  BY <1>5 DEF Return, History, tree
<1>6. CASE UpdateFails
  BY <1>5, <1>6 DEF UpdateFails, tree
<1>7. CASE BuildFails
  BY <1>7 DEF BuildFails, History, tree
<1>8. ASSUME NEW k \in Inner, BuildNode(k) PROVE History'
  BY <1>8 DEF BuildNode, History, FromLeaves
<1>9. CASE Climb
  BY <1>9 DEF Climb, History, tree
<1>10. CASE HashFails \/ Refuse \/ StoreDone
  BY <1>5, <1>10 DEF HashFails, Refuse, StoreDone, tree
<1>11. CASE UNCHANGED vars
  BY <1>11 DEF vars, tree, building, updating, History, FromLeaves, Stored,
               OverLeaf, OnPath
<1>12. QED
  BY <1>2, <1>3, <1>4, <1>6, <1>7, <1>8, <1>9, <1>10, <1>11,
     StoreLeafHistory, StoreNodeHistory DEF Next, Build, Run

(* A call that fails or is refused leaves the tree as it found it; one     *)
(* that succeeds changes its leaf and nothing that is not above it.        *)
THEOREM MerkleAllOrNothing == Spec => AllOrNothing
<1> DEFINE Kept ==
      /\ pc = "climb" /\ pc' = "idle" =>
           leaf_nodes' = before.leaves /\ non_leaf_nodes' = before.nodes
      /\ pc = "store" /\ pc' = "idle" =>
           /\ leaf_nodes' = [before.leaves EXCEPT ![index] = new_leaf_hash]
           /\ \A k \in Inner \ OnPath(index) :
                non_leaf_nodes'[k] = before.nodes[k]
<1>1. ASSUME IInv, History, [Next]_vars PROVE Kept
  <2>1. CASE Run
    BY <1>1, <2>1 DEF Run, Climb, HashFails, Refuse, StoreLeaf, StoreNode,
                      StoreDone, Return, History, Stored, tree
  <2>2. CASE ~Run
    <3>1. pc \in {"climb", "store"} => pc' = pc
      BY <1>1, <2>2 DEF Next, New, Blank, StartBuild, Update, CheckUpdate,
         StartUpdate, UpdateFails, Build, BuildNode, BuildFails, vars
    <3>2. QED
      BY <3>1
  <2>3. QED
    BY <2>1, <2>2
<1>2. IInv /\ History /\ [Next]_vars => [Kept]_vars
  BY <1>1
<1> HIDE DEF Kept
<1>3. Spec => [][Kept]_vars
  BY InitIInv, NextIInv, InitHistory, NextHistory, <1>2, PTL DEF Spec
<1>4. QED
  BY <1>3 DEF Kept, AllOrNothing

-----------------------------------------------------------------------------
(* MerkleVector speaks of the same reference.                              *)
LEMMA SameDigests ==
  ASSUME NEW ls
  PROVE  Vector!Digests(ls) = Digests(ls)
BY DEF Vector!Digests, Digests, Vector!NodeHash, NodeHash, Vector!IsBottom,
       IsBottom, Vector!LeftChild, LeftChild, Vector!RightChild, RightChild,
       Vector!Inner, Inner, Vector!NumLeaves, NumLeaves, Vector!Width, Width

LEMMA SameLeafIndices == Vector!LeafIndices = LeafIndices
BY DEF Vector!LeafIndices, LeafIndices, Vector!NumLeaves, NumLeaves,
       Vector!Width, Width

(* The last node of the last level creates the tree, for the caller.       *)
LEMMA BuildNodeVector ==
  ASSUME IInv, History, NEW k \in Inner, BuildNode(k), IInv', History',
         pc' = "idle"
  PROVE  Vector!Next
<1>1. pc = "build" /\ FromLeaves /\ leaf_nodes' = leaf_nodes
  BY DEF BuildNode, History
<1>2. non_leaf_nodes' = Digests(leaf_nodes')
  BY AgreeingIsDigests DEF IInv, IdleInv, Agrees, History
<1>3. Vector!Create(leaf_nodes)
  BY <1>1, <1>2, SameDigests DEF Vector!Create
<1>4. QED
  BY <1>1, <1>3, SameLeafIndices DEF FromLeaves, Vector!Next, Vector!Blanks

(* The end of a write-back replaces the leaf, for the caller.              *)
LEMMA StoreDoneVector ==
  ASSUME IInv, History, StoreDone, IInv', History'
  PROVE  Vector!Next
<1>1. /\ pc = "store" /\ pc' = "idle" /\ TypeOK /\ Stored
      /\ leaf_nodes' = leaf_nodes /\ non_leaf_nodes' = non_leaf_nodes
      /\ \E leaf \in Leaves : new_leaf_hash = LeafHash(leaf)
  BY DEF StoreDone, Return, IInv, History, tree
<1>2. non_leaf_nodes' = Digests(leaf_nodes')
  BY <1>1, AgreeingIsDigests DEF IInv, IdleInv, Agrees, History
<1>3. PICK leaf \in Leaves : new_leaf_hash = LeafHash(leaf)
  BY <1>1
<1>4. Vector!Replace(index, leaf)
  BY <1>1, <1>2, <1>3, SameDigests DEF Vector!Replace, Stored
<1>5. index \in LeafIndices
  BY <1>1 DEF TypeOK
<1>6. QED
  BY <1>3, <1>4, <1>5, SameLeafIndices DEF Vector!Next

(* Every other step is one the caller does not see.                        *)
LEMMA NextVector ==
  IInv /\ History /\ [Next]_vars /\ IInv' /\ History'
    => [Vector!Next]_(Vector!vectorVars)
<1> SUFFICES ASSUME IInv, History, [Next]_vars, IInv', History'
             PROVE  [Vector!Next]_(Vector!vectorVars)
  OBVIOUS
<1>1. ASSUME pc \in {"none", "build"}, pc' \in {"none", "build"}
      PROVE  UNCHANGED Vector!vectorVars
  BY <1>1 DEF Vector!vectorVars
<1>2. ASSUME pc \in {"idle", "climb"}, pc' \in {"idle", "climb"}, UNCHANGED tree
      PROVE  UNCHANGED Vector!vectorVars
  BY <1>2 DEF Vector!vectorVars, tree
<1>3. CASE (\E leaves \in Initials : New(leaves)) \/ Blank \/ BuildFails
  BY <1>1, <1>3 DEF New, Blank, StartBuild, BuildFails
<1>4. ASSUME NEW i \in LeafIndices, NEW leaf \in Leaves,
             Update(i, leaf) \/ CheckUpdate(i, leaf)
      PROVE  UNCHANGED Vector!vectorVars
  BY <1>2, <1>4 DEF Update, CheckUpdate, StartUpdate, tree
<1>5. CASE UpdateFails \/ Climb \/ HashFails \/ Refuse
  BY <1>2, <1>5 DEF UpdateFails, Climb, HashFails, Refuse, Return, tree
<1>6. ASSUME NEW k \in Inner, BuildNode(k)
      PROVE  [Vector!Next]_(Vector!vectorVars)
  <2>1. pc = "build" /\ pc' \in {"build", "idle"}
    BY <1>6 DEF BuildNode
  <2>2. QED
    BY <1>1, <1>6, <2>1, BuildNodeVector
<1>7. CASE StoreLeaf
  BY <1>7 DEF StoreLeaf, History, Vector!vectorVars
<1>8. CASE StoreNode
  BY <1>8 DEF StoreNode, Vector!vectorVars
<1>9. CASE UNCHANGED vars
  BY <1>9 DEF vars, tree, Vector!vectorVars
<1>10. QED
  BY <1>3, <1>4, <1>5, <1>6, <1>7, <1>8, <1>9, StoreDoneVector DEF Next, Build, Run

(* MerkleTree implements MerkleVector, for every height and every hash:    *)
(* however a call is cut into steps and wherever it fails, its caller sees *)
(* a leaf replaced in a tree built anew from its leaves, or nothing.       *)
THEOREM MerkleImplementsVector == Spec => ImplementsVector
<1>1. Init => Vector!Init
  BY DEF Init, Vector!Init
<1>2. QED
  BY <1>1, InitIInv, NextIInv, InitHistory, NextHistory, NextVector, PTL
     DEF Spec, ImplementsVector, Vector!Spec

-----------------------------------------------------------------------------
(* At the top of a path: the tree the write-back would leave, which is the *)
(* one rebuilt with the new leaf.                                          *)
OnChain(k) == \E j \in 1 .. Len(chain) : chain[j] = k

(* No node of the path is the sibling of another.                          *)
LEMMA SiblingOffChain ==
  ASSUME PathOK, NEW j \in 1 .. (Len(chain) - 1)
  PROVE  Sibling(chain[j]) \in Inner /\ ~OnChain(Sibling(chain[j]))
<1> DEFINE k == chain[j]
           s == Sibling(chain[j])
<1>1. chain \in Seq(Inner) /\ j \in 1 .. Len(chain) /\ k \in Inner /\ k > 0
  BY DEF PathOK
<1>2. s \in Inner /\ s # k /\ s <= k + 1 /\ s >= 1 /\ k <= s + 1
  <2>a. k \in Nat
    BY <1>1, WidthFacts DEF Inner
  <2>b. Parent(k) \in Inner
    BY <1>1, InnerFacts
  <2>1. Parent(k) \in Nat /\ k \in Nat
    BY <2>a, <2>b, WidthFacts DEF Inner
  <2>2. s >= 1
    BY <1>1, <2>1, InnerFacts DEF LeftChild, RightChild
  <2>3. QED
    BY <1>1, <2>1, <2>2, InnerFacts DEF Sibling
<1>3. ASSUME NEW i \in 1 .. Len(chain), chain[i] = s PROVE FALSE
  <2>1. s \in Nat /\ k \in Nat
    BY <1>1, <1>2, WidthFacts DEF Inner
  <2>2. CASE i < j
    <3>1. 2 * k + 1 <= s
      BY <1>1, <1>3, <2>2 DEF PathOK
    <3>2. QED
      BY <1>1, <1>2, <2>1, <3>1
  <2>3. CASE i = j
    BY <1>2, <1>3, <2>3
  <2>4. CASE i > j
    <3>1. 2 * s + 1 <= k
      BY <1>1, <1>3, <2>4 DEF PathOK
    <3>2. QED
      BY <1>2, <2>1, <3>1
  <2>5. QED
    BY <1>1, <2>2, <2>3, <2>4
<1>4. QED
  BY <1>2, <1>3 DEF OnChain

(* The digest on top of a finished path is the root of the rebuilt tree.   *)
LEMMA TopOfPath ==
  ASSUME IInv, History, pc = "climb", IsRoot(cur)
  PROVE  path[Len(path)] = Digests([leaf_nodes EXCEPT ![index] = new_leaf_hash])[0]
<1> DEFINE n == Len(path)
           updated == [leaf_nodes EXCEPT ![index] = new_leaf_hash]
           At(k) == CHOOSE j \in 1 .. Len(chain) : chain[j] = k
           g == [k \in Inner |-> IF OnChain(k) THEN path[At(k)] ELSE non_leaf_nodes[k]]
<1>1. /\ ClimbInv /\ PathOK /\ index \in LeafIndices
      /\ DOMAIN leaf_nodes = LeafIndices
  BY DEF IInv, ClimbInv, TypeOK
<1>2. /\ n \in Nat /\ n >= 1 /\ Len(chain) = n /\ chain \in Seq(Inner)
      /\ chain[n] = 0 /\ chain[1] = Parent(LastLevel(index))
      /\ path[1] = BottomHash(index, new_leaf_hash)
  BY <1>1, HeightAssumption DEF ClimbInv, PathOK, IsRoot
<1> HIDE DEF n
<1>3. \A j \in 1 .. n : chain[j] \in Inner /\ chain[j] \in Nat
  <2>1. \A j \in 1 .. n : chain[j] \in Inner
    BY <1>2
  <2>2. QED
    BY <2>1, WidthFacts DEF Inner
<1>4. ASSUME NEW j \in 1 .. n PROVE g[chain[j]] = path[j]
  <2>1. At(chain[j]) \in 1 .. n /\ chain[At(chain[j])] = chain[j]
    BY <1>2
  <2>2. At(chain[j]) = j
    <3> DEFINE i == At(chain[j])
    <3>1. i \in 1 .. n /\ chain[i] = chain[j]
      BY <2>1
    <3> HIDE DEF i
    <3>2. chain[j] \in Nat
      BY <1>3
    <3>3. ~ (i < j) /\ ~ (j < i)
      BY <1>1, <1>2, <3>1, <3>2 DEF PathOK
    <3>4. i = j
      BY <1>2, <3>1, <3>3
    <3>5. QED
      BY <3>4 DEF i
  <2>3. OnChain(chain[j])
    BY <1>2 DEF OnChain
  <2>4. QED
    BY <1>3, <2>2, <2>3
<1>5. \A k \in Inner : ~OnChain(k) => g[k] = non_leaf_nodes[k]
  OBVIOUS
<1>6. g = [k \in Inner |-> g[k]]
  OBVIOUS
<1> HIDE DEF g
<1>7. g[chain[1]] = NodeHash(updated, g, chain[1])
  <2>1. g[chain[1]] = BottomHash(index, new_leaf_hash)
    BY <1>2, <1>4
  <2>2. /\ updated[index] = new_leaf_hash
        /\ updated[LeafSibling(index)] = leaf_nodes[LeafSibling(index)]
    BY <1>1, LeafFacts
  <2> HIDE DEF updated
  <2>3. QED
    BY <1>1, <1>2, <2>1, <2>2, LeafFacts DEF BottomHash, NodeHash
<1>8. ASSUME NEW j \in 1 .. (n - 1)
      PROVE  g[chain[j + 1]] = NodeHash(updated, g, chain[j + 1])
  <2>1. /\ j \in 1 .. n /\ j + 1 \in 1 .. n /\ j \in 1 .. (Len(chain) - 1)
    BY <1>2
  <2>2. /\ chain[j] > 0 /\ chain[j] \in Inner /\ chain[j + 1] = Parent(chain[j])
        /\ path[j + 1] = JoinHash(chain[j], path[j])
    BY <1>1, <1>3, <2>1 DEF PathOK
  <2>3. g[chain[j]] = path[j] /\ g[chain[j + 1]] = path[j + 1]
    BY <1>4, <2>1
  <2>4. g[Sibling(chain[j])] = non_leaf_nodes[Sibling(chain[j])]
    BY <1>1, <1>5, <2>1, SiblingOffChain
  <2>5. QED
    BY <2>2, <2>3, <2>4, InnerFacts DEF NodeHash, JoinHash
<1>9. ASSUME NEW k \in Inner, ~OnChain(k)
      PROVE  g[k] = NodeHash(updated, g, k)
  <2>1. g[k] = NodeHash(leaf_nodes, non_leaf_nodes, k)
    BY <1>1, <1>5, <1>9 DEF ClimbInv, Agrees
  <2>2. CASE IsBottom(k)
    <3>1. k # Parent(LastLevel(index))
      BY <1>2, <1>9 DEF OnChain
    <3>2. QED
      BY <1>1, <2>1, <2>2, <3>1, OtherLeaves DEF NodeHash
  <2>3. CASE ~IsBottom(k)
    <3>1. ASSUME NEW c \in Inner, c > 0, Parent(c) = k PROVE ~OnChain(c)
      <4> SUFFICES ASSUME NEW j \in 1 .. n, chain[j] = c PROVE FALSE
        BY <1>2 DEF OnChain
      <4>1. j # n
        BY <1>2, <3>1
      <4>2. j \in 1 .. (Len(chain) - 1) /\ j + 1 \in 1 .. Len(chain)
        BY <1>2, <4>1
      <4>3. chain[j + 1] = k
        BY <1>1, <3>1, <4>2 DEF PathOK
      <4>4. QED
        BY <1>9, <4>2, <4>3 DEF OnChain
    <3>2. /\ LeftChild(k) \in Inner /\ LeftChild(k) > 0 /\ Parent(LeftChild(k)) = k
          /\ RightChild(k) \in Inner /\ RightChild(k) > 0 /\ Parent(RightChild(k)) = k
      BY <2>3, ChildrenOf
    <3>3. QED
      BY <1>5, <2>1, <2>3, <3>1, <3>2 DEF NodeHash
  <2>4. QED
    BY <2>2, <2>3
<1>10. \A k \in Inner : g[k] = NodeHash(updated, g, k)
  <2> SUFFICES ASSUME NEW k \in Inner, OnChain(k) PROVE g[k] = NodeHash(updated, g, k)
    BY <1>9
  <2>1. PICK j \in 1 .. n : chain[j] = k
    BY <1>2 DEF OnChain
  <2>2. CASE j = 1
    BY <1>7, <2>1, <2>2
  <2>3. CASE j # 1
    <3>1. j - 1 \in 1 .. (n - 1) /\ (j - 1) + 1 = j
      BY <1>2, <2>3
    <3>2. QED
      BY <1>8, <2>1, <3>1
  <2>4. QED
    BY <2>2, <2>3
<1>11. g = Digests(updated)
  <2> HIDE DEF updated
  <2>1. QED
    BY <1>6, <1>10, AgreeingIsDigests
<1>12. g[0] = path[n]
  BY <1>2, <1>4
<1>13. QED
  BY <1>11, <1>12 DEF n

(* check_update goes on to store exactly when the asserted root is the one *)
(* of the tree rebuilt with the new leaf.                                  *)
THEOREM MerkleCheckUpdateDecides == Spec => CheckUpdateDecides
<1> DEFINE Decides ==
      pc = "climb" /\ IsRoot(cur) /\ asserted # None =>
        LET updated == [leaf_nodes EXCEPT ![index] = new_leaf_hash]
        IN  pc' = "store" <=> asserted = Digests(updated)[0]
<1>1. ASSUME IInv, History, [Next]_vars PROVE [Decides]_vars
  <2> SUFFICES ASSUME pc = "climb", IsRoot(cur), asserted # None,
                      ~(UNCHANGED vars)
               PROVE  pc' = "store" <=> path[Len(path)] = asserted
    BY <1>1, TopOfPath
  <2>1. Refuse \/ StoreLeaf
    BY <1>1 DEF Next, New, Blank, StartBuild, Update, CheckUpdate, StartUpdate,
       UpdateFails, Build, BuildNode, BuildFails, Run, Climb, HashFails,
       StoreNode, StoreDone
  <2>2. QED
    BY <2>1 DEF Refuse, StoreLeaf, Return
<1>2. IInv /\ History /\ [Next]_vars => [Decides]_vars
  BY <1>1
<1> HIDE DEF Decides
<1>3. Spec => [][Decides]_vars
  BY InitIInv, NextIInv, InitHistory, NextHistory, <1>2, PTL DEF Spec
<1>4. QED
  BY <1>3 DEF Decides, CheckUpdateDecides
=============================================================================
