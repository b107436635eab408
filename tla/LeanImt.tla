------------------------------- MODULE LeanImt -------------------------------
(***************************************************************************)
(* The incremental Merkle tree noterail builds its witnesses with          *)
(* (contracts/libs/lean-imt/src/lib.rs).  It keeps two caches: one node    *)
(* for every level of the empty tree, and the nodes on the paths of the    *)
(* leaves inserted since.  A tree that is loaded from storage starts with  *)
(* neither, and computes the nodes it needs.                               *)
(*                                                                         *)
(* It must be the tree of CommitmentTree, which has the hash and the       *)
(* reference definitions.                                                  *)
(***************************************************************************)
EXTENDS Integers, Sequences, FiniteSets

CONSTANTS Depth, Commitments, Zero, None    \* see CommitmentTree; nothing cached

VARIABLES
  leaves,
  root,
  subtrees,   \* subtree_cache: the empty subtree of each level, or nothing
  sparse      \* sparse_cache: nodes by level and index

vars == <<leaves, root, subtrees, sparse>>

Tree == INSTANCE CommitmentTree WITH filled <- << >>, nextidx <- Len(leaves)

LeanImtAssumption == Tree!TreeParameters

Capacity == Tree!Capacity

Indices(level) == 0 .. Tree!pow2[Depth - level] - 1

Leaf(tree, index) == IF index < Len(tree) THEN tree[index + 1] ELSE Zero

\* get_cached_node: the node itself, or that of the empty tree.
CachedNode(cache, level, index) ==
  IF <<level, index>> \in DOMAIN cache THEN cache[<<level, index>>]
  ELSE IF subtrees = << >> THEN None ELSE subtrees[level]

\* compute_node_at_level: what is cached is not computed.
ComputeNode(tree, cache) ==
  LET node[level \in 0 .. Depth] ==
        [index \in Indices(level) |->
           IF CachedNode(cache, level, index) # None
           THEN CachedNode(cache, level, index)
           ELSE IF level = 0 THEN Leaf(tree, index)
           ELSE Tree!Hash2(node[level - 1][2 * index],
                           node[level - 1][2 * index + 1])]
  IN  node

\* The sibling at a level: at the bottom a leaf, above it a node.
SiblingOf(tree, cache, index, level) ==
  LET sibling == Tree!Sibling(index)
  IN  IF level = 0 THEN Leaf(tree, sibling)
      ELSE ComputeNode(tree, cache)[level][sibling]

\* recompute_path_to_root_with_cache_update: the nodes above the leaf.
Path(tree, cache, leafIndex) ==
  LET cur[level \in 0 .. Depth] ==
        IF level = 0 THEN tree[leafIndex + 1]
        ELSE LET index == leafIndex \div Tree!pow2[level - 1]
                 sibling == SiblingOf(tree, cache, index, level - 1)
             IN  IF index % 2 = 0 THEN Tree!Hash2(cur[level - 1], sibling)
                 ELSE Tree!Hash2(sibling, cur[level - 1])
  IN  cur

\* recompute_tree: the caches and the root of the empty tree.
Init ==
  /\ leaves = << >>
  /\ subtrees = Tree!zeros
  /\ sparse = << >>
  /\ root = Tree!zeros[Depth]

\* cache_sparse_node, at every level of the path.
CachePath(path, leafIndex) ==
  LET onPath == {<<level, leafIndex \div Tree!pow2[level]>> : level \in 0 .. Depth}
  IN  [at \in DOMAIN sparse \cup onPath |->
         IF at \in onPath THEN path[at[1]] ELSE sparse[at]]

\* insert; a full tree refuses.
Insert(leaf) ==
  /\ Len(leaves) < Capacity
  /\ leaves' = Append(leaves, leaf)
  /\ LET path == Path(leaves', sparse, Len(leaves))
     IN  root' = path[Depth] /\ sparse' = CachePath(path, Len(leaves))
  /\ UNCHANGED subtrees

\* Fault: only the cache of nodes is cleared.
ReloadKeepingSubtrees ==
  /\ sparse' = << >>
  /\ UNCHANGED <<leaves, root, subtrees>>

\* from_storage of to_storage: the caches of a tree with leaves are cleared,
\* those of the empty one computed.
Reload ==
  /\ sparse' = << >>
  /\ subtrees' = IF leaves = << >> THEN Tree!zeros ELSE << >>
  /\ UNCHANGED <<leaves, root>>

Next == (\E leaf \in Commitments : Insert(leaf)) \/ Reload

Spec == Init /\ [][Next]_vars

\* generate_proof: with two leaves at depth 1, just the other one.
GenerateProof(leafIndex) ==
  [level \in 0 .. Depth - 1 |->
     IF Depth = 1 /\ Len(leaves) = 2 THEN Leaf(leaves, 1 - leafIndex)
     ELSE SiblingOf(leaves, sparse, leafIndex \div Tree!pow2[level], level)]

-----------------------------------------------------------------------------

\* Every variable has its type, and the tree its bound.
TypeOK ==
  /\ leaves \in Seq(Commitments) /\ Len(leaves) <= Capacity
  /\ DOMAIN subtrees \in {{}, 0 .. Depth}
  /\ \A at \in DOMAIN sparse : at[1] \in 0 .. Depth /\ at[2] \in Indices(at[1])

(***************************************************************************)
(* Whatever was inserted before and after the tree was last loaded, the    *)
(* root is that of the whole padded tree, and so the contract's, and the   *)
(* path of every leaf folds to it in the circuit, with the nodes taken     *)
(* from either cache, from leaves, or computed: a node cached for an       *)
(* earlier tree, or for the empty one, is never served for this one.       *)
(***************************************************************************)
TreeFollowsReloads ==
  /\ root = Tree!FullTree(leaves)
  /\ \A i \in 0 .. Len(leaves) - 1 :
       Tree!MerkleProof(leaves[i + 1], i, GenerateProof(i)) = root
=============================================================================
