----------------------------- MODULE MerkleTree -----------------------------
(***************************************************************************)
(* MerkleTree<P> of merkle_tree/mod.rs: the two vectors of digests, their  *)
(* construction level by level, update and check_update.                   *)
(*                                                                         *)
(* A call runs in steps: building visits the nodes of a level in any order *)
(* (cfg_iter_mut! is a parallel iterator under the feature "parallel"),    *)
(* updated_path hashes one level per step and may fail at each, and the    *)
(* write-back stores one node per step.                                    *)
(*                                                                         *)
(* The hashes are parameters, so what holds here holds of every Config.    *)
(***************************************************************************)
EXTENDS MerkleHeap

CONSTANTS
  Initials,        \* the sequences of leaves a caller builds a tree from
  DefaultInner,    \* P::InnerDigest::default()
  None             \* no root is asserted: the call is update

ASSUME InitialsAssumption == \A leaves \in Initials : DOMAIN leaves = LeafIndices

NoTree == [leaves |-> <<>>, nodes |-> <<>>]   \* no call is running

VARIABLES
  leaf_nodes,      \* self.leaf_nodes
  non_leaf_nodes,  \* self.non_leaf_nodes
  pc,              \* "none" (no tree), "build", "idle", "climb", "store"
  level,           \* the level new_with_leaf_digest is computing
  built,           \* the nodes of that level already computed
  index,           \* the leaf being updated
  new_leaf_hash,   \* its new digest
  asserted,        \* asserted_new_root of check_update, or None
  cur,             \* prev_index of updated_path, then curr_index of update
  path,            \* the updated path, bottom to top
  left,            \* turns left of the write-back loop
  result,          \* how the last call ended: "ok", "false", "err"
  chain,           \* history: the nodes the digests of path were made for
  before           \* history: the tree when the last call began

tree == <<leaf_nodes, non_leaf_nodes>>
building == <<level, built>>
updating == <<index, new_leaf_hash, asserted, cur, path, left, chain>>
vars == <<tree, pc, building, updating, result, before>>

-----------------------------------------------------------------------------
(* The bottom digest of the updated path.                                  *)
BottomHash(i, digest) ==
  IF i % 2 = 0
  THEN Evaluate(Convert(digest), Convert(leaf_nodes[LeafSibling(i)]))
  ELSE Evaluate(Convert(leaf_nodes[LeafSibling(i)]), Convert(digest))

(* Mutant of JoinHash: the same mistake above the bottom.                  *)
JoinHashLeft(k, digest) == Compress(digest, non_leaf_nodes[Sibling(k)])

(* The next one, from the digest of node k and the sibling of k.           *)
JoinHash(k, digest) ==
  IF IsLeftChild(k)
  THEN Compress(digest, non_leaf_nodes[Sibling(k)])
  ELSE Compress(non_leaf_nodes[Sibling(k)], digest)

(* The root of a tree rebuilt with the new leaf.                           *)
RootWith(i, leaf) == Digests([leaf_nodes EXCEPT ![i] = LeafHash(leaf)])[0]

-----------------------------------------------------------------------------
Init ==
  /\ pc = "none"
  /\ leaf_nodes = [i \in LeafIndices |-> DefaultLeaf]
  /\ non_leaf_nodes = [k \in Inner |-> DefaultInner]
  /\ level = 0 /\ built = {}
  /\ index = 0 /\ new_leaf_hash = DefaultLeaf /\ asserted = None
  /\ cur = 0 /\ path = <<>> /\ left = 0 /\ chain = <<>>
  /\ result = "ok"
  /\ before = NoTree

(* new_with_leaf_digest starts at the bottom level of a heap of defaults.  *)
StartBuild(digests) ==
  /\ pc = "none"
  /\ leaf_nodes' = digests
  /\ non_leaf_nodes' = [k \in Inner |-> DefaultInner]
  /\ level' = Height - 2
  /\ built' = {}
  /\ pc' = "build"
  /\ UNCHANGED <<updating, result, before>>

(* new: the digests of the leaves.                                         *)
New(leaves) == StartBuild([i \in LeafIndices |-> LeafHash(leaves[i])])

(* blank: default digests, which are not digests of any leaf.              *)
Blank == StartBuild([i \in LeafIndices |-> DefaultLeaf])

(* Mutant of BuildNode: a level is left when one of its nodes is there.    *)
BuildNodeNoBarrier(k) ==
  /\ pc = "build"
  /\ k \in LevelNodes(level) \ built
  /\ non_leaf_nodes' =
       [non_leaf_nodes EXCEPT ![k] = NodeHash(leaf_nodes, non_leaf_nodes, k)]
  /\ built' = {}
  /\ IF level > 0 THEN level' = level - 1 /\ pc' = pc
                  ELSE level' = level /\ pc' = "idle"
  /\ result' = "ok"
  /\ UNCHANGED <<leaf_nodes, updating, before>>

(* Mutant of BuildNode: a level is begun again when it is done.            *)
BuildNodeRepeats(k) ==
  /\ pc = "build"
  /\ k \in LevelNodes(level) \ built
  /\ non_leaf_nodes' =
       [non_leaf_nodes EXCEPT ![k] = NodeHash(leaf_nodes, non_leaf_nodes, k)]
  /\ built' = IF built \cup {k} # LevelNodes(level) THEN built \cup {k} ELSE {}
  /\ result' = "ok"
  /\ UNCHANGED <<leaf_nodes, level, pc, updating, before>>

(* One node of the level is computed; the next level waits for all.        *)
BuildNode(k) ==
  /\ pc = "build"
  /\ k \in LevelNodes(level) \ built
  /\ non_leaf_nodes' =
       [non_leaf_nodes EXCEPT ![k] = NodeHash(leaf_nodes, non_leaf_nodes, k)]
  /\ IF built \cup {k} # LevelNodes(level)
     THEN built' = built \cup {k} /\ UNCHANGED <<level, pc>>
     ELSE /\ built' = {}
          /\ IF level > 0
             THEN level' = level - 1 /\ pc' = pc
             ELSE level' = level /\ pc' = "idle"
  /\ result' = "ok"
  /\ UNCHANGED <<leaf_nodes, updating, before>>

(* A hash fails while the tree is being built: there is no tree.           *)
BuildFails ==
  /\ pc = "build"
  /\ pc' = "none"
  /\ result' = "err"
  /\ UNCHANGED <<tree, building, updating, before>>

(* A call returns: its locals are gone.                                    *)
Return(how) ==
  /\ pc' = "idle"
  /\ result' = how
  /\ index' = 0 /\ new_leaf_hash' = DefaultLeaf /\ asserted' = None
  /\ cur' = 0 /\ path' = <<>> /\ left' = 0 /\ chain' = <<>>
  /\ before' = NoTree

(* updated_path up to the bottom digest, for update (root = None) and for  *)
(* check_update.  Both assert index < leaf_nodes.len().                    *)
StartUpdate(i, leaf, root) ==
  /\ pc = "idle"
  /\ index' = i
  /\ asserted' = root
  /\ new_leaf_hash' = LeafHash(leaf)
  /\ path' = <<BottomHash(i, LeafHash(leaf))>>
  /\ cur' = Parent(LastLevel(i))
  /\ chain' = <<Parent(LastLevel(i))>>
  /\ left' = 0
  /\ pc' = "climb"
  /\ before' = [leaves |-> leaf_nodes, nodes |-> non_leaf_nodes]
  /\ UNCHANGED <<tree, building, result>>

(* The roots a caller of check_update asserts: the one the update gives,   *)
(* or a stale one.                                                         *)
Claims(i, leaf) == {RootWith(i, leaf), non_leaf_nodes[0]}

Update(i, leaf) == StartUpdate(i, leaf, None)
CheckUpdate(i, leaf) == \E root \in Claims(i, leaf) : StartUpdate(i, leaf, root)

(* Mutant of Climb: the digest of a node is stored as soon as it is known. *)
ClimbStores ==
  /\ pc = "climb"
  /\ ~IsRoot(cur)
  /\ path' = Append(path, JoinHash(cur, path[Len(path)]))
  /\ non_leaf_nodes' = [non_leaf_nodes EXCEPT ![cur] = path[Len(path)]]
  /\ cur' = Parent(cur)
  /\ chain' = Append(chain, Parent(cur))
  /\ UNCHANGED <<leaf_nodes, pc, building, index, new_leaf_hash, asserted, left,
                 result, before>>

(* A turn of the loop of updated_path.                                     *)
Climb ==
  /\ pc = "climb"
  /\ ~IsRoot(cur)
  /\ path' = Append(path, JoinHash(cur, path[Len(path)]))
  /\ cur' = Parent(cur)
  /\ chain' = Append(chain, Parent(cur))
  /\ UNCHANGED <<tree, pc, building, index, new_leaf_hash, asserted, left,
                 result, before>>

(* A hash returns an error, which `?` hands on before anything is stored:  *)
(* the hashes of the leaf and of the bottom node, or one of the loop.      *)
UpdateFails ==
  /\ pc = "idle"
  /\ Return("err")
  /\ UNCHANGED <<tree, building>>

HashFails ==
  /\ pc = "climb"
  /\ ~IsRoot(cur)
  /\ Return("err")
  /\ UNCHANGED <<tree, building>>

(* check_update compares the top of the path and gives up.                 *)
Refuse ==
  /\ pc = "climb"
  /\ IsRoot(cur)
  /\ asserted # None
  /\ path[Len(path)] # asserted
  /\ Return("false")
  /\ UNCHANGED <<tree, building>>

(* Mutant of StoreLeaf: whatever root was asserted.                        *)
StoreLeafUnchecked ==
  /\ pc = "climb"
  /\ IsRoot(cur)
  /\ leaf_nodes' = [leaf_nodes EXCEPT ![index] = new_leaf_hash]
  /\ cur' = LastLevel(index)
  /\ left' = Height - 1
  /\ pc' = "store"
  /\ UNCHANGED <<non_leaf_nodes, building, index, new_leaf_hash, asserted,
                 path, result, chain, before>>

(* The new leaf digest is stored; height - 1 nodes are to follow.          *)
StoreLeaf ==
  /\ pc = "climb"
  /\ IsRoot(cur)
  /\ asserted = None \/ path[Len(path)] = asserted
  /\ leaf_nodes' = [leaf_nodes EXCEPT ![index] = new_leaf_hash]
  /\ cur' = LastLevel(index)
  /\ left' = Height - 1
  /\ pc' = "store"
  /\ UNCHANGED <<non_leaf_nodes, building, index, new_leaf_hash, asserted,
                 path, result, chain, before>>

(* A turn of the write-back loop: step up, pop, store.                     *)
StoreNode ==
  /\ pc = "store"
  /\ left > 0
  /\ cur' = Parent(cur)
  /\ non_leaf_nodes' = [non_leaf_nodes EXCEPT ![Parent(cur)] = Head(path)]
  /\ path' = Tail(path)
  /\ chain' = Tail(chain)
  /\ left' = left - 1
  /\ UNCHANGED <<leaf_nodes, pc, building, index, new_leaf_hash, asserted,
                 result, before>>

StoreDone ==
  /\ pc = "store"
  /\ left = 0
  /\ Return("ok")
  /\ UNCHANGED <<tree, building>>

Build == (\E k \in Inner : BuildNode(k)) \/ BuildFails
Run == Climb \/ HashFails \/ Refuse \/ StoreLeaf \/ StoreNode \/ StoreDone

Next ==
  \/ \E leaves \in Initials : New(leaves)
  \/ Blank
  \/ \E i \in LeafIndices, leaf \in Leaves : Update(i, leaf) \/ CheckUpdate(i, leaf)
  \/ UpdateFails
  \/ Build
  \/ Run

(* A call that has begun runs to its end: there is no waiting in it.       *)
Spec == Init /\ [][Next]_vars /\ WF_vars(Build) /\ WF_vars(Run)

-----------------------------------------------------------------------------
(* Both vectors keep their length and every index is inside them.          *)
TypeOK ==
  /\ DOMAIN leaf_nodes = LeafIndices
  /\ DOMAIN non_leaf_nodes = Inner
  /\ pc \in {"none", "build", "idle", "climb", "store"}
  /\ level \in 0 .. (Height - 2)
  /\ built \subseteq Inner
  /\ index \in LeafIndices
  /\ cur \in Inner \cup {LastLevel(index)}
  /\ left \in 0 .. (Height - 1)
  /\ result \in {"ok", "false", "err"}

(* Between calls every inner node is the hash of its children, whatever    *)
(* calls were made and wherever they failed.                               *)
Consistent ==
  pc = "idle" =>
    \A k \in Inner : non_leaf_nodes[k] = NodeHash(leaf_nodes, non_leaf_nodes, k)

(* debug_assert_eq!(path_bottom_to_top.len(), self.height - 1), and the    *)
(* write-back walks the nodes the path was computed for, so that no pop    *)
(* finds the path empty and none is left over.                             *)
StoreFollowsClimb ==
  /\ pc = "climb" /\ IsRoot(cur) => Len(path) = Height - 1
  /\ pc = "store" =>
       /\ Len(path) = left
       /\ left > 0 => Head(chain) = Parent(cur)
       /\ left = 0 => IsRoot(cur)

(* A call that fails or is refused leaves the tree as it found it ("Does   *)
(* not modify the tree if verification fails"); one that succeeds changes  *)
(* its leaf and nothing that is not above it.                              *)
AllOrNothing ==
  [][ /\ pc = "climb" /\ pc' = "idle" =>
           leaf_nodes' = before.leaves /\ non_leaf_nodes' = before.nodes
      /\ pc = "store" /\ pc' = "idle" =>
           /\ leaf_nodes' = [before.leaves EXCEPT ![index] = new_leaf_hash]
           /\ \A k \in Inner \ OnPath(index) :
                non_leaf_nodes'[k] = before.nodes[k]
    ]_vars

(* check_update goes on to store exactly when the asserted root is the one *)
(* a tree rebuilt with the new leaf would have.                            *)
CheckUpdateDecides ==
  [][ pc = "climb" /\ IsRoot(cur) /\ asserted # None =>
        LET updated == [leaf_nodes EXCEPT ![index] = new_leaf_hash]
        IN  pc' = "store" <=> asserted = Digests(updated)[0]
    ]_vars

(* Every call returns.                                                     *)
CallsReturn == pc \in {"build", "climb", "store"} ~> pc \in {"none", "idle"}

-----------------------------------------------------------------------------
(* What a caller sees between the steps of a call: a tree that is there or *)
(* not, and while a call stores its path the tree it began with.           *)
Vector ==
  INSTANCE MerkleVector WITH
    created <- pc \notin {"none", "build"},
    leaves  <- IF pc \in {"none", "build"} THEN <<>>
               ELSE IF pc = "store" THEN before.leaves ELSE leaf_nodes,
    nodes   <- IF pc \in {"none", "build"} THEN <<>>
               ELSE IF pc = "store" THEN before.nodes ELSE non_leaf_nodes

(* MerkleTree implements MerkleVector: every call is one replacement of a  *)
(* leaf in a tree that is always the one built from its leaves, or nothing *)
(* at all.                                                                 *)
ImplementsVector == Vector!Spec
=============================================================================
