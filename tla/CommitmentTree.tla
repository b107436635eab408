--------------------------- MODULE CommitmentTree ---------------------------
(***************************************************************************)
(* The pool's Merkle tree of commitments, computed in three places that    *)
(* must agree: the contract appends to it with a frontier of one stored    *)
(* node per level (merkle_insert in contracts/shielded-pool/src/lib.rs),   *)
(* the browser rebuilds it from the leaves to make inclusion paths         *)
(* (packages/sdk/src/merkle.ts), and the circuits fold a path back to a    *)
(* root (circuits/src/lib/merkleProof.circom).                             *)
(*                                                                         *)
(* Poseidon is collision free: the hash of two nodes is the pair of them,  *)
(* so a root is a term and two roots are equal only if every node below    *)
(* them is.  A leaf is never the zero that pads the tree, since the        *)
(* circuits and deposit insert hashes only.                                *)
(***************************************************************************)
EXTENDS Integers, Sequences, Functions

CONSTANTS
  Depth,        \* TREE_DEPTH
  Commitments,  \* the leaves that may be inserted
  Zero          \* the leaf that stands for a missing one

TreeParameters == Depth \in Nat \ {0} /\ Zero \notin Commitments

ASSUME TreeAssumption == TreeParameters

VARIABLES
  leaves,   \* LEAVES_KEY
  filled,   \* FILLED_KEY: the frontier, the last left node of every level
  nextidx,  \* NEXTIDX_KEY: the index of the next leaf
  root      \* ROOT_KEY

vars == <<leaves, filled, nextidx, root>>

Levels == 0 .. Depth - 1

\* 2^level, the number of leaves below a node of the level.
pow2[level \in 0 .. Depth] == IF level = 0 THEN 1 ELSE 2 * pow2[level - 1]

Capacity == pow2[Depth]

Hash2(left, right) == <<left, right>>

\* zeros[l] is the root of an empty subtree of height l (ZEROS_KEY).
zeros[level \in 0 .. Depth] ==
  IF level = 0 THEN Zero ELSE Hash2(zeros[level - 1], zeros[level - 1])

\* Bit number level of an index: 1 if the node there is a right child.
PathBit(index, level) == (index \div pow2[level]) % 2

-----------------------------------------------------------------------------
(* The contract.                                                           *)

Init ==
  /\ leaves = << >>
  /\ filled = [level \in Levels |-> zeros[level]]
  /\ nextidx = 0
  /\ root = zeros[Depth]

\* Fault: the children of a right node are hashed in the wrong order.
ClimbSwapped(leaf) ==
  LET cur[level \in 0 .. Depth] ==
        IF level = 0 THEN leaf
        ELSE IF PathBit(nextidx, level - 1) = 0
             THEN Hash2(cur[level - 1], zeros[level - 1])
             ELSE Hash2(cur[level - 1], filled[level - 1])
  IN  cur

\* The nodes from the new leaf up to the root.
Climb(leaf) ==
  LET cur[level \in 0 .. Depth] ==
        IF level = 0 THEN leaf
        ELSE IF PathBit(nextidx, level - 1) = 0
             THEN Hash2(cur[level - 1], zeros[level - 1])
             ELSE Hash2(filled[level - 1], cur[level - 1])
  IN  cur

\* Fault: the capacity is not checked.
MerkleInsertUnbounded(leaf) ==
  /\ leaves' = Append(leaves, leaf)
  /\ filled' = [level \in Levels |->
                  IF PathBit(nextidx, level) = 0
                  THEN Climb(leaf)[level] ELSE filled[level]]
  /\ nextidx' = nextidx + 1
  /\ root' = Climb(leaf)[Depth]

\* Fault: the frontier keeps the first left node of a level, not the last.
MerkleInsertKeepsFirst(leaf) ==
  /\ nextidx < Capacity
  /\ leaves' = Append(leaves, leaf)
  /\ filled' = [level \in Levels |->
                  IF nextidx = 0 THEN Climb(leaf)[level] ELSE filled[level]]
  /\ nextidx' = nextidx + 1
  /\ root' = Climb(leaf)[Depth]

\* Fault: the next index is not stored.
MerkleInsertInPlace(leaf) ==
  /\ nextidx < Capacity /\ Len(leaves) < Capacity
  /\ leaves' = Append(leaves, leaf)
  /\ filled' = [level \in Levels |->
                  IF PathBit(nextidx, level) = 0
                  THEN Climb(leaf)[level] ELSE filled[level]]
  /\ root' = Climb(leaf)[Depth]
  /\ UNCHANGED nextidx

MerkleInsert(leaf) ==
  /\ nextidx < Capacity
  /\ leaves' = Append(leaves, leaf)
  /\ filled' = [level \in Levels |->
                  IF PathBit(nextidx, level) = 0
                  THEN Climb(leaf)[level] ELSE filled[level]]
  /\ nextidx' = nextidx + 1
  /\ root' = Climb(leaf)[Depth]

Next == \E leaf \in Commitments : MerkleInsert(leaf)

Spec == Init /\ [][Next]_vars

-----------------------------------------------------------------------------
(* The browser's tree, built from the leaves it read.                      *)

\* Nodes by level; a subtree with no leaf in it is not descended into.
Nodes(tree) ==
  LET node[level \in 0 .. Depth] ==
        [index \in 0 .. pow2[Depth - level] - 1 |->
           IF level = 0
           THEN IF index < Len(tree) THEN tree[index + 1] ELSE Zero
           ELSE IF index * pow2[level] >= Len(tree) THEN zeros[level]
           ELSE Hash2(node[level - 1][2 * index], node[level - 1][2 * index + 1])]
  IN  node

TreeRoot(tree) == Nodes(tree)[Depth][0]

\* The first leaf equal to the commitment.
IndexOf(tree, leaf) ==
  CHOOSE i \in 0 .. Len(tree) - 1 :
    /\ tree[i + 1] = leaf
    /\ \A j \in 0 .. i - 1 : tree[j + 1] # leaf

\* Fault: the sibling of a right node is taken to be on its right too.
SiblingOnRight(index) == index + 1

Sibling(index) == IF index % 2 = 0 THEN index + 1 ELSE index - 1

Siblings(tree, leafIndex) ==
  [level \in Levels |->
     LET index == Sibling(leafIndex \div pow2[level])
     IN  Nodes(tree)[level][index]]

-----------------------------------------------------------------------------
(* The circuits.                                                           *)

\* The root that a leaf, its index and its siblings fold to.
MerkleProof(leaf, leafIndex, siblings) ==
  LET nodes[level \in 0 .. Depth] ==
        IF level = 0 THEN leaf
        ELSE IF PathBit(leafIndex, level - 1) = 0
             THEN Hash2(nodes[level - 1], siblings[level - 1])
             ELSE Hash2(siblings[level - 1], nodes[level - 1])
  IN  nodes[Depth]

-----------------------------------------------------------------------------

\* Every variable has its type, and the tree its bound.
TypeOK ==
  /\ leaves \in Seq(Commitments) /\ Len(leaves) <= Capacity
  /\ DOMAIN filled = Levels
  /\ nextidx \in 0 .. Capacity

\* The tree by definition: all leaves, padded, hashed in pairs level by level.
FullTree(tree) ==
  LET level[l \in 0 .. Depth] ==
        IF l = 0
        THEN [i \in 1 .. Capacity |-> IF i <= Len(tree) THEN tree[i] ELSE Zero]
        ELSE [i \in 1 .. pow2[Depth - l] |->
                Hash2(level[l - 1][2 * i - 1], level[l - 1][2 * i])]
  IN  level[Depth][1]

(***************************************************************************)
(* The frontier stores one node per level and no more, yet the root it     *)
(* yields is that of the whole padded tree, after any number of inserts;   *)
(* and the browser, which skips empty subtrees, computes the same root.    *)
(***************************************************************************)
RootOfTheWholeTree ==
  /\ root = FullTree(leaves)
  /\ root = TreeRoot(leaves)

(***************************************************************************)
(* Any leaf can be proved: the path that the browser builds from the       *)
(* contract's leaves folds, in the circuit, to the root the contract holds *)
(* (for a commitment that was inserted twice, by way of its first index).  *)
(***************************************************************************)
PathsVerify ==
  /\ \A i \in 0 .. Len(leaves) - 1 :
       MerkleProof(leaves[i + 1], i, Siblings(leaves, i)) = root
  /\ \A leaf \in Range(leaves) :
       LET i == IndexOf(leaves, leaf)
       IN  MerkleProof(leaf, i, Siblings(leaves, i)) = root

(***************************************************************************)
(* A root names one tree: none of the trees this one grew out of had it.   *)
(* So looking a root up among the recent ones finds the tree a proof was   *)
(* made on, which is what lets ShieldedPool write a root as its leaves.    *)
(***************************************************************************)
RootsNameTrees ==
  \A n \in 0 .. Len(leaves) - 1 : FullTree(SubSeq(leaves, 1, n)) # root

=============================================================================
