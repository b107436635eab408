---------------------------- MODULE LeanImtProofs ----------------------------
EXTENDS LeanImt, TLAPS

\* The theorems on the plain tree.
TreeProofs == INSTANCE CommitmentTreeProofs WITH
  filled <- << >>, nextidx <- Len(leaves)

-----------------------------------------------------------------------------
(* What is known of the plain tree, by the names it has in LeanImt.        *)

\* The definitions of the two instances are the same.
LEMMA SameTree ==
  /\ TreeProofs!TreeParameters = Tree!TreeParameters
  /\ TreeProofs!pow2 = Tree!pow2
  /\ TreeProofs!zeros = Tree!zeros
  /\ TreeProofs!Levels = Tree!Levels
  /\ TreeProofs!Capacity = Tree!Capacity
  /\ \A x, y : TreeProofs!Hash2(x, y) = Tree!Hash2(x, y)
  /\ \A n, l : TreeProofs!PathBit(n, l) = Tree!PathBit(n, l)
  /\ \A tree : TreeProofs!Nodes(tree) = Tree!Nodes(tree)
  /\ \A tree : TreeProofs!TreeRoot(tree) = Tree!TreeRoot(tree)
  /\ \A tree : TreeProofs!FullTree(tree) = Tree!FullTree(tree)
  /\ \A leaf, i, path :
       TreeProofs!MerkleProof(leaf, i, path) = Tree!MerkleProof(leaf, i, path)
  /\ \A tree, i : TreeProofs!Siblings(tree, i) = Tree!Siblings(tree, i)
<1>1. TreeProofs!TreeParameters = Tree!TreeParameters
  BY Zenon DEF TreeProofs!TreeParameters, Tree!TreeParameters
<1>2. TreeProofs!pow2 = Tree!pow2
  BY Zenon DEF TreeProofs!pow2, Tree!pow2
<1>3. \A x, y : TreeProofs!Hash2(x, y) = Tree!Hash2(x, y)
  BY DEF TreeProofs!Hash2, Tree!Hash2
<1>4. TreeProofs!zeros = Tree!zeros
  BY Zenon DEF TreeProofs!zeros, Tree!zeros, TreeProofs!Hash2, Tree!Hash2
<1>5. TreeProofs!Levels = Tree!Levels
  BY DEF TreeProofs!Levels, Tree!Levels
<1>6. TreeProofs!Capacity = Tree!Capacity
  BY <1>2 DEF TreeProofs!Capacity, Tree!Capacity
<1>7. ASSUME NEW tree PROVE TreeProofs!Nodes(tree) = Tree!Nodes(tree)
  BY Zenon DEF TreeProofs!Nodes, Tree!Nodes, TreeProofs!pow2, Tree!pow2,
    TreeProofs!zeros, Tree!zeros, TreeProofs!Hash2, Tree!Hash2
<1>8. ASSUME NEW tree PROVE TreeProofs!TreeRoot(tree) = Tree!TreeRoot(tree)
  BY <1>7 DEF TreeProofs!TreeRoot, Tree!TreeRoot
<1>9. ASSUME NEW tree PROVE TreeProofs!FullTree(tree) = Tree!FullTree(tree)
  BY Zenon DEF TreeProofs!FullTree, Tree!FullTree, TreeProofs!pow2, Tree!pow2,
    TreeProofs!Capacity, Tree!Capacity, TreeProofs!Hash2, Tree!Hash2
<1>10. ASSUME NEW n, NEW l PROVE TreeProofs!PathBit(n, l) = Tree!PathBit(n, l)
  BY <1>2 DEF TreeProofs!PathBit, Tree!PathBit
<1>11. ASSUME NEW leaf, NEW i, NEW path
       PROVE  TreeProofs!MerkleProof(leaf, i, path) = Tree!MerkleProof(leaf, i, path)
  BY Zenon DEF TreeProofs!MerkleProof, Tree!MerkleProof, TreeProofs!PathBit,
    Tree!PathBit, TreeProofs!pow2, Tree!pow2, TreeProofs!Hash2, Tree!Hash2
<1>12. ASSUME NEW tree, NEW i
       PROVE  TreeProofs!Siblings(tree, i) = Tree!Siblings(tree, i)
  BY <1>2, <1>5, <1>7 DEF TreeProofs!Siblings, Tree!Siblings, TreeProofs!Sibling,
    Tree!Sibling
<1>13. QED
  BY <1>1, <1>2, <1>3, <1>4, <1>5, <1>6, <1>7, <1>8, <1>9, <1>10, <1>11, <1>12

\* Levels and powers of two.
LEMMA Powers ==
  ASSUME LeanImtAssumption
  PROVE  /\ Depth \in Nat /\ Depth > 0 /\ DOMAIN Tree!zeros = 0 .. Depth
         /\ Tree!pow2[0] = 1
         /\ \A l \in 0 .. Depth :
              Tree!pow2[l] \in Nat \ {0} /\ Tree!pow2[Depth - l] \in Nat \ {0}
         /\ \A l \in 0 .. Depth - 1 :
              /\ Tree!pow2[l + 1] = 2 * Tree!pow2[l]
              /\ Tree!pow2[Depth - l] = 2 * Tree!pow2[Depth - (l + 1)]
         /\ Tree!Capacity = Tree!pow2[Depth]
<1>1. TreeProofs!TreeParameters
  BY SameTree DEF LeanImtAssumption
<1>2. Depth \in Nat /\ Depth > 0
  BY DEF LeanImtAssumption, Tree!TreeParameters
<1>3. /\ Tree!pow2[0] = 1 /\ \A l \in 0 .. Depth : Tree!pow2[l] \in Nat \ {0}
      /\ \A l \in 0 .. Depth - 1 : Tree!pow2[l + 1] = 2 * Tree!pow2[l]
  BY <1>1, SameTree, TreeProofs!PowersOfTwo
<1>4. ASSUME NEW l \in 0 .. Depth - 1
      PROVE  Tree!pow2[Depth - l] = 2 * Tree!pow2[Depth - (l + 1)]
  BY <1>1, SameTree, TreeProofs!Halves
<1>5. DOMAIN Tree!zeros = 0 .. Depth
  BY <1>1, SameTree, TreeProofs!ZerosAre
<1>6. ASSUME NEW l \in 0 .. Depth PROVE Tree!pow2[Depth - l] \in Nat \ {0}
  <2>1. Depth - l \in 0 .. Depth
    BY <1>2
  <2>2. QED
    BY <1>3, <2>1
<1>7. QED
  BY <1>2, <1>3, <1>4, <1>5, <1>6 DEF Tree!Capacity

\* The nodes of a tree: leaves, hashes of two nodes, empty subtrees.
LEMMA TreeNodes ==
  ASSUME LeanImtAssumption, NEW tree, Len(tree) \in Nat
  PROVE  /\ \A i \in Indices(0) : Tree!Nodes(tree)[0][i] = Leaf(tree, i)
         /\ \A l \in 0 .. Depth - 1 : \A i \in Indices(l + 1) :
              /\ 2 * i \in Indices(l) /\ 2 * i + 1 \in Indices(l)
              /\ Tree!Nodes(tree)[l + 1][i] =
                   Tree!Hash2(Tree!Nodes(tree)[l][2 * i],
                              Tree!Nodes(tree)[l][2 * i + 1])
         /\ \A l \in 0 .. Depth : \A i \in Indices(l) :
              i * Tree!pow2[l] >= Len(tree) =>
                Tree!Nodes(tree)[l][i] = Tree!zeros[l]
<1>1. TreeProofs!TreeParameters
  BY SameTree DEF LeanImtAssumption
<1>2. ASSUME NEW i \in Indices(0) PROVE Tree!Nodes(tree)[0][i] = Leaf(tree, i)
  <2>1. i \in 0 .. TreeProofs!pow2[Depth] - 1
    BY Powers, SameTree DEF Indices
  <2>2. TreeProofs!Nodes(tree)[0][i] = TreeProofs!Bottom(tree, i)
    BY <1>1, <2>1, TreeProofs!NodesAre
  <2>3. QED
    BY <2>2, SameTree DEF TreeProofs!Bottom, Leaf
<1>3. ASSUME NEW l \in 0 .. Depth - 1, NEW i \in Indices(l + 1)
      PROVE  /\ 2 * i \in Indices(l) /\ 2 * i + 1 \in Indices(l)
             /\ Tree!Nodes(tree)[l + 1][i] =
                  Tree!Hash2(Tree!Nodes(tree)[l][2 * i],
                             Tree!Nodes(tree)[l][2 * i + 1])
  <2>1. i \in 0 .. TreeProofs!pow2[Depth - (l + 1)] - 1
    BY SameTree DEF Indices
  <2>2. /\ 2 * i \in 0 .. TreeProofs!pow2[Depth - l] - 1
        /\ 2 * i + 1 \in 0 .. TreeProofs!pow2[Depth - l] - 1
        /\ TreeProofs!Nodes(tree)[l + 1][i] =
             TreeProofs!Hash2(TreeProofs!Nodes(tree)[l][2 * i],
                              TreeProofs!Nodes(tree)[l][2 * i + 1])
    BY <1>1, <2>1, TreeProofs!NodesHash
  <2>3. QED
    BY <2>2, SameTree DEF Indices
<1>4. ASSUME NEW l \in 0 .. Depth, NEW i \in Indices(l),
             i * Tree!pow2[l] >= Len(tree)
      PROVE  Tree!Nodes(tree)[l][i] = Tree!zeros[l]
  <2>1. /\ i \in 0 .. TreeProofs!pow2[Depth - l] - 1
        /\ i * TreeProofs!pow2[l] >= Len(tree)
    BY <1>4, SameTree DEF Indices
  <2>2. TreeProofs!Nodes(tree)[l][i] = TreeProofs!zeros[l]
    BY <1>1, <2>1, TreeProofs!EmptyNodes
  <2>3. QED
    BY <2>2, SameTree
<1>5. QED
  BY <1>2, <1>3, <1>4

\* The position above a leaf at every level.
Above(n, level) == n \div Tree!pow2[level]

\* The positions above one leaf.
LEMMA PathPositions ==
  ASSUME LeanImtAssumption, NEW n \in 0 .. Tree!pow2[Depth] - 1
  PROVE  /\ Above(n, 0) = n /\ Above(n, Depth) = 0
         /\ \A l \in 0 .. Depth : Above(n, l) \in Indices(l)
         /\ \A l \in 0 .. Depth - 1 : Above(n, l + 1) = Above(n, l) \div 2
         /\ \A l \in 0 .. Depth - 1 :
              Tree!Sibling(Above(n, l)) \in Indices(l) \ {Above(n, l)}
<1>1. TreeProofs!TreeParameters
  BY SameTree DEF LeanImtAssumption
<1>2. n \in 0 .. TreeProofs!pow2[Depth] - 1
  BY SameTree
<1>3. /\ Above(n, 0) = n /\ Above(n, Depth) = 0
      /\ \A l \in 0 .. Depth : Above(n, l) \in Indices(l)
      /\ \A l \in 0 .. Depth - 1 : Above(n, l + 1) = Above(n, l) \div 2
  BY <1>1, <1>2, SameTree, TreeProofs!Positions DEF Above, Indices
<1>4. ASSUME NEW l \in 0 .. Depth - 1
      PROVE  Tree!Sibling(Above(n, l)) \in Indices(l) \ {Above(n, l)}
  <2> DEFINE k == Above(n, l)
             q == Tree!pow2[Depth - (l + 1)]
  <2>1. k \in 0 .. 2 * q - 1 /\ q \in Nat
    <3>1. l \in 0 .. Depth /\ l + 1 \in 0 .. Depth
      BY Powers
    <3>2. QED
      BY <1>3, <3>1, Powers DEF Indices
  <2>2. Indices(l) = 0 .. 2 * q - 1
    BY Powers DEF Indices
  <2> HIDE DEF k, q
  <2>3. IF k % 2 = 0 THEN k + 1 \in 0 .. 2 * q - 1 ELSE k - 1 \in 0 .. 2 * q - 1
    BY <2>1
  <2>4. QED
    BY <2>1, <2>2, <2>3 DEF Tree!Sibling, k
<1>5. QED
  BY <1>3, <1>4

Trees == {tree \in Seq(Commitments) : Len(tree) <= Capacity}

\* A leaf that is appended changes the nodes above it and no others.
LEMMA Appended ==
  ASSUME LeanImtAssumption, NEW tree \in Trees, NEW leaf \in Commitments,
         Len(tree) < Capacity
  PROVE  /\ Len(tree) \in 0 .. Tree!pow2[Depth] - 1 /\ Len(tree) \in Nat
         /\ Append(tree, leaf) \in Trees
         /\ Len(Append(tree, leaf)) = Len(tree) + 1
         /\ Append(tree, leaf)[Len(tree) + 1] = leaf
         /\ \A l \in 0 .. Depth : \A i \in Indices(l) :
              i # Above(Len(tree), l) =>
                Tree!Nodes(Append(tree, leaf))[l][i] = Tree!Nodes(tree)[l][i]
<1>1. TreeProofs!TreeParameters
  BY SameTree DEF LeanImtAssumption
<1>2. tree \in TreeProofs!Trees /\ TreeProofs!HasRoom(tree)
  BY SameTree DEF Trees, Capacity, TreeProofs!Trees, TreeProofs!HasRoom
<1>3. /\ Len(tree) \in 0 .. TreeProofs!pow2[Depth] - 1 /\ Len(tree) \in Nat
      /\ Append(tree, leaf) \in TreeProofs!Trees
      /\ Len(Append(tree, leaf)) = Len(tree) + 1
  BY <1>1, <1>2, TreeProofs!NextPlace
<1>4. ASSUME NEW l \in 0 .. Depth, NEW i \in Indices(l), i # Above(Len(tree), l)
      PROVE  Tree!Nodes(Append(tree, leaf))[l][i] = Tree!Nodes(tree)[l][i]
  <2>1. /\ i \in 0 .. TreeProofs!pow2[Depth - l] - 1
        /\ i # Len(tree) \div TreeProofs!pow2[l]
    BY <1>4, SameTree DEF Indices, Above
  <2>2. TreeProofs!Nodes(Append(tree, leaf))[l][i] = TreeProofs!Nodes(tree)[l][i]
    BY <1>1, <1>2, <2>1, TreeProofs!AppendChangesItsPath
  <2>3. QED
    BY <2>2, SameTree
<1>5. Append(tree, leaf)[Len(tree) + 1] = leaf
  BY DEF Trees
<1>6. QED
  BY <1>3, <1>4, <1>5, SameTree DEF Trees, Capacity, TreeProofs!Trees

\* What starts with a leaf and is hashed with the siblings on the way up are
\* the nodes above the leaf.
LEMMA Climbs ==
  ASSUME LeanImtAssumption, NEW tree, Len(tree) \in Nat,
         NEW n \in 0 .. Tree!pow2[Depth] - 1,
         NEW f, f[0] = Leaf(tree, n),
         \A l \in 0 .. Depth - 1 :
           LET sibling == Tree!Nodes(tree)[l][Tree!Sibling(Above(n, l))]
           IN  f[l + 1] = IF Above(n, l) % 2 = 0 THEN Tree!Hash2(f[l], sibling)
                          ELSE Tree!Hash2(sibling, f[l])
  PROVE  \A l \in 0 .. Depth : f[l] = Tree!Nodes(tree)[l][Above(n, l)]
<1>1. TreeProofs!TreeParameters
  BY SameTree DEF LeanImtAssumption
<1>2. n \in 0 .. TreeProofs!pow2[Depth] - 1 /\ f[0] = TreeProofs!Bottom(tree, n)
  BY SameTree DEF Leaf, TreeProofs!Bottom
<1>3. ASSUME NEW l \in TreeProofs!Levels
      PROVE  f[l + 1] =
               IF TreeProofs!PathBit(n, l) = 0
               THEN TreeProofs!Hash2(f[l],
                      TreeProofs!Nodes(tree)[l][n \div TreeProofs!pow2[l] + 1])
               ELSE TreeProofs!Hash2(
                      TreeProofs!Nodes(tree)[l][n \div TreeProofs!pow2[l] - 1],
                      f[l])
  <2>1. l \in 0 .. Depth - 1
    BY DEF TreeProofs!Levels
  <2>2. Above(n, l) = n \div TreeProofs!pow2[l]
    BY SameTree DEF Above
  <2>3. TreeProofs!PathBit(n, l) = Above(n, l) % 2
    BY <2>2 DEF TreeProofs!PathBit
  <2>4. Tree!Sibling(Above(n, l)) =
          IF Above(n, l) % 2 = 0 THEN Above(n, l) + 1 ELSE Above(n, l) - 1
    BY DEF Tree!Sibling
  <2>5. QED
    BY <2>1, <2>2, <2>3, <2>4, SameTree
<1>4. \A l \in 0 .. Depth :
        f[l] = TreeProofs!Nodes(tree)[l][n \div TreeProofs!pow2[l]]
  BY <1>1, <1>2, <1>3, TreeProofs!PathsClimb
<1>5. QED
  BY <1>4, SameTree DEF Above

\* The plain path of any leaf folds to the root.
LEMMA PlainPathFolds ==
  ASSUME LeanImtAssumption, NEW tree \in Trees, NEW n \in 0 .. Len(tree) - 1
  PROVE  Tree!MerkleProof(tree[n + 1], n, Tree!Siblings(tree, n)) =
           Tree!TreeRoot(tree)
<1>1. TreeProofs!TreeParameters
  BY SameTree DEF LeanImtAssumption
<1>2. tree \in TreeProofs!Trees
  BY SameTree DEF Trees, Capacity, TreeProofs!Trees
<1>3. TreeProofs!MerkleProof(tree[n + 1], n, TreeProofs!Siblings(tree, n)) =
        TreeProofs!TreeRoot(tree)
  BY <1>1, <1>2, TreeProofs!PathFolds
<1>4. QED
  BY <1>3, SameTree

\* The whole tree has the root of the plain one.
LEMMA WholeTree ==
  ASSUME LeanImtAssumption, NEW tree, Len(tree) \in Nat
  PROVE  Tree!FullTree(tree) = Tree!TreeRoot(tree)
<1>1. TreeProofs!TreeParameters
  BY SameTree DEF LeanImtAssumption
<1>2. QED
  BY <1>1, SameTree, TreeProofs!FullTreeIsNodes

-----------------------------------------------------------------------------
(* The cached tree.                                                        *)

\* A node that is not in the cache of nodes has no leaf below it, as long as
\* the empty subtrees are there to stand for it.
CachedOrEmpty ==
  subtrees # << >> =>
    \A l \in 0 .. Depth : \A i \in Indices(l) :
      <<l, i>> \notin DOMAIN sparse => i * Tree!pow2[l] >= Len(leaves)

\* What is cached are nodes of the tree.
CachedNodes ==
  \A at \in DOMAIN sparse :
    /\ at \in (0 .. Depth) \X Nat /\ at[2] \in Indices(at[1])
    /\ sparse[at] = Tree!Nodes(leaves)[at[1]][at[2]]

\* What every insertion and reload keeps: both caches serve nodes of this tree.
LeanInv ==
  /\ leaves \in Trees
  /\ root = Tree!TreeRoot(leaves)
  /\ subtrees \in {<< >>, Tree!zeros}
  /\ CachedOrEmpty
  /\ CachedNodes

\* What compute_node_at_level computes.
LEMMA ComputedNodes ==
  ASSUME LeanImtAssumption, NEW tree, NEW cache
  PROVE  LET node == ComputeNode(tree, cache)
         IN  /\ \A i \in Indices(0) :
                  node[0][i] = IF CachedNode(cache, 0, i) # None
                               THEN CachedNode(cache, 0, i) ELSE Leaf(tree, i)
             /\ \A l \in 0 .. Depth - 1 : \A i \in Indices(l + 1) :
                  node[l + 1][i] =
                    IF CachedNode(cache, l + 1, i) # None
                    THEN CachedNode(cache, l + 1, i)
                    ELSE Tree!Hash2(node[l][2 * i], node[l][2 * i + 1])
<1> DEFINE Row(l, below) ==
             [index \in Indices(l) |->
                IF CachedNode(cache, l, index) # None
                THEN CachedNode(cache, l, index)
                ELSE IF l = 0 THEN Leaf(tree, index)
                ELSE Tree!Hash2(below[2 * index], below[2 * index + 1])]
           Body(f) == [l \in 0 .. Depth |-> Row(l, f[l - 1])]
           Good(f, n) == \A l \in 0 .. n : f[l] = Row(l, f[l - 1])
           S == {n \in 0 .. Depth : \E f : Good(f, n)}
           node == ComputeNode(tree, cache)
<1>0. Depth \in Nat /\ TreeProofs!TreeParameters
  BY Powers, SameTree DEF LeanImtAssumption
<1>01. \A x, y : Row(0, x) = Row(0, y)
  OBVIOUS
<1>02. node = CHOOSE f : f = Body(f)
  BY Zenon DEF ComputeNode
<1> HIDE DEF Row, node
<1>1. 0 \in S
  <2> DEFINE f == [l \in {-1, 0} |-> IF l = 0 THEN Row(0, Zero) ELSE Zero]
  <2>1. Good(f, 0)
    OBVIOUS
  <2> HIDE DEF Good, f
  <2>2. QED
    BY <1>0, <2>1
<1>2. ASSUME NEW n \in 0 .. Depth - 1, n \in S PROVE n + 1 \in S
  <2>1. PICK f : Good(f, n)
    BY <1>2
  <2> DEFINE g == [l \in -1 .. Depth |->
                     IF l <= n THEN f[l] ELSE Row(n + 1, f[n])]
  <2>2. Good(g, n + 1)
    BY <1>0, <2>1
  <2> HIDE DEF Good, g
  <2>3. n + 1 \in 0 .. Depth
    BY <1>0
  <2>4. \E h : Good(h, n + 1)
    BY <2>2
  <2>5. QED
    BY <2>3, <2>4
<1>3. Depth \in S
  <2> HIDE DEF S
  <2>1. 0 .. Depth \subseteq S
    BY <1>0, <1>1, <1>2, TreeProofs!LevelInduction
  <2>2. QED
    BY <1>0, <2>1
<1>4. \E f : f = Body(f)
  <2>1. PICK f : Good(f, Depth)
    BY <1>3
  <2> DEFINE g == [l \in 0 .. Depth |-> f[l]]
  <2>2. \A l \in 0 .. Depth : g[l] = Row(l, g[l - 1])
    BY <1>0, <1>01, <2>1
  <2>3. g = Body(g)
    BY <2>2
  <2> HIDE DEF g, Body
  <2>4. QED
    BY <2>3
<1>5. node = Body(node)
  <2> HIDE DEF Body
  <2>1. QED
    BY <1>02, <1>4
<1>6. \A l \in 0 .. Depth : node[l] = Row(l, node[l - 1])
  BY <1>5
<1>7. ASSUME NEW i \in Indices(0)
      PROVE  node[0][i] = IF CachedNode(cache, 0, i) # None
                          THEN CachedNode(cache, 0, i) ELSE Leaf(tree, i)
  <2>1. node[0] = Row(0, node[0 - 1])
    BY <1>0, <1>6
  <2>2. QED
    BY <2>1 DEF Row
<1>8. ASSUME NEW l \in 0 .. Depth - 1, NEW i \in Indices(l + 1)
      PROVE  node[l + 1][i] =
               IF CachedNode(cache, l + 1, i) # None
               THEN CachedNode(cache, l + 1, i)
               ELSE Tree!Hash2(node[l][2 * i], node[l][2 * i + 1])
  <2>1. l + 1 \in 0 .. Depth /\ l + 1 # 0 /\ l + 1 - 1 = l
    BY <1>0
  <2>2. node[l + 1] = Row(l + 1, node[l])
    BY <1>6, <2>1
  <2>3. QED
    BY <2>1, <2>2 DEF Row
<1>9. QED
  BY <1>7, <1>8 DEF node

\* A set of places in the tree that has with a place all those below it.
ClosedBelow(K) ==
  \A l \in 0 .. Depth - 1 : \A i \in Indices(l + 1) :
    <<l + 1, i>> \in K => <<l, 2 * i>> \in K /\ <<l, 2 * i + 1>> \in K

\* What the cache has at these places are nodes of the tree.
RightAt(K, cache, tree) ==
  \A l \in 0 .. Depth : \A i \in Indices(l) :
    <<l, i>> \in K => CachedNode(cache, l, i) \in {None, Tree!Nodes(tree)[l][i]}

\* Where the cache is right about a set of nodes and all below them, what is
\* computed there is right, whatever the cache says of the others.
LEMMA ComputeIsRight ==
  ASSUME LeanImtAssumption, NEW tree, Len(tree) \in Nat, NEW cache, NEW K,
         ClosedBelow(K), RightAt(K, cache, tree)
  PROVE  \A l \in 0 .. Depth : \A i \in Indices(l) :
           <<l, i>> \in K => ComputeNode(tree, cache)[l][i] = Tree!Nodes(tree)[l][i]
<1> DEFINE node == ComputeNode(tree, cache)
           N == Tree!Nodes(tree)
           Right(l) ==
             \A i \in Indices(l) : <<l, i>> \in K => node[l][i] = N[l][i]
           S == {l \in 0 .. Depth : Right(l)}
<1>0. Depth \in Nat /\ TreeProofs!TreeParameters
  BY Powers, SameTree DEF LeanImtAssumption
<1>1. 0 \in S
  <2>1. ASSUME NEW i \in Indices(0), <<0, i>> \in K PROVE node[0][i] = N[0][i]
    <3>1. N[0][i] = Leaf(tree, i)
      BY TreeNodes
    <3>2. CachedNode(cache, 0, i) \in {None, N[0][i]}
      BY <1>0, <2>1 DEF RightAt
    <3>3. node[0][i] = IF CachedNode(cache, 0, i) # None
                       THEN CachedNode(cache, 0, i) ELSE Leaf(tree, i)
      BY ComputedNodes
    <3> HIDE DEF node, N
    <3>4. QED
      BY <3>1, <3>2, <3>3
  <2> HIDE DEF node, N
  <2>2. QED
    BY <1>0, <2>1
<1>2. ASSUME NEW l \in 0 .. Depth - 1, l \in S PROVE l + 1 \in S
  <2>0. l \in 0 .. Depth /\ l + 1 \in 0 .. Depth /\ Right(l)
    BY <1>0, <1>2
  <2>1. ASSUME NEW i \in Indices(l + 1), <<l + 1, i>> \in K
        PROVE  node[l + 1][i] = N[l + 1][i]
    <3>1. /\ 2 * i \in Indices(l) /\ 2 * i + 1 \in Indices(l)
          /\ N[l + 1][i] = Tree!Hash2(N[l][2 * i], N[l][2 * i + 1])
      BY TreeNodes
    <3>2. CachedNode(cache, l + 1, i) \in {None, N[l + 1][i]}
      BY <2>0, <2>1 DEF RightAt
    <3>3. node[l + 1][i] = IF CachedNode(cache, l + 1, i) # None
                           THEN CachedNode(cache, l + 1, i)
                           ELSE Tree!Hash2(node[l][2 * i], node[l][2 * i + 1])
      BY ComputedNodes
    <3>4. <<l, 2 * i>> \in K /\ <<l, 2 * i + 1>> \in K
      BY <2>1 DEF ClosedBelow
    <3> HIDE DEF node, N
    <3>5. node[l][2 * i] = N[l][2 * i] /\ node[l][2 * i + 1] = N[l][2 * i + 1]
      BY <2>0, <3>1, <3>4
    <3>6. QED
      BY <3>1, <3>2, <3>3, <3>5
  <2> HIDE DEF node, N
  <2>2. QED
    BY <2>0, <2>1
<1>3. 0 .. Depth \subseteq S
  <2> HIDE DEF S
  <2>1. QED
    BY <1>0, <1>1, <1>2, TreeProofs!LevelInduction
<1>4. QED
  BY <1>3

\* Both caches serve nodes of the tree, or nothing.
LEMMA CacheIsRight ==
  ASSUME LeanImtAssumption, LeanInv, NEW l \in 0 .. Depth, NEW i \in Indices(l)
  PROVE  CachedNode(sparse, l, i) \in {None, Tree!Nodes(leaves)[l][i]}
<1> DEFINE at == <<l, i>>
<1>1. CASE at \in DOMAIN sparse
  <2>1. sparse[at] = Tree!Nodes(leaves)[at[1]][at[2]] /\ at[1] = l /\ at[2] = i
    BY <1>1 DEF LeanInv, CachedNodes
  <2> HIDE DEF at
  <2>2. sparse[at] = Tree!Nodes(leaves)[l][i]
    BY <2>1
  <2>3. CachedNode(sparse, l, i) = sparse[at]
    BY <1>1 DEF CachedNode, at
  <2>4. QED
    BY <2>2, <2>3
<1>2. CASE at \notin DOMAIN sparse /\ subtrees # << >>
  <2>1. Len(leaves) \in Nat
    BY DEF LeanInv, Trees
  <2>2. i * Tree!pow2[l] >= Len(leaves) /\ subtrees = Tree!zeros
    BY <1>2 DEF LeanInv, CachedOrEmpty
  <2>3. Tree!Nodes(leaves)[l][i] = Tree!zeros[l]
    BY <2>1, <2>2, TreeNodes
  <2>4. QED
    BY <1>2, <2>2, <2>3 DEF CachedNode
<1>3. CASE at \notin DOMAIN sparse /\ subtrees = << >>
  BY <1>3 DEF CachedNode
<1>4. QED
  BY <1>1, <1>2, <1>3

\* With the cache as it is before an insertion, the siblings on the path of
\* the new leaf are those of the grown tree: no node off the path changes.
LEMMA InsertSiblings ==
  ASSUME LeanImtAssumption, LeanInv, NEW leaf \in Commitments,
         Len(leaves) < Capacity, NEW l \in 0 .. Depth - 1
  PROVE  LET new == Append(leaves, leaf)
             at == Above(Len(leaves), l)
         IN  SiblingOf(new, sparse, at, l) = Tree!Nodes(new)[l][Tree!Sibling(at)]
<1> DEFINE new == Append(leaves, leaf)
           n == Len(leaves)
           N == Tree!Nodes(new)
           K == {at \in (0 .. Depth) \X Nat : at[2] # Above(n, at[1])}
           i == Tree!Sibling(Above(n, l))
<1>0. leaves \in Trees
  BY DEF LeanInv
<1>1. /\ n \in 0 .. Tree!pow2[Depth] - 1 /\ n \in Nat
      /\ Len(new) \in Nat
      /\ \A m \in 0 .. Depth : \A j \in Indices(m) :
           j # Above(n, m) => N[m][j] = Tree!Nodes(leaves)[m][j]
  BY <1>0, Appended
<1>2. l \in 0 .. Depth /\ Depth \in Nat
  BY Powers
<1>3. i \in Indices(l) /\ i # Above(n, l) /\ \A m : Indices(m) \subseteq Nat
  <2>1. i \in Indices(l) \ {Above(n, l)}
    BY <1>1, PathPositions
  <2>2. \A m : Indices(m) \subseteq Nat
    BY DEF Indices
  <2>3. QED
    BY <2>1, <2>2
<1> HIDE DEF new, n, N, i
<1>4. ASSUME NEW m \in 0 .. Depth - 1, NEW j \in Indices(m + 1), <<m + 1, j>> \in K
      PROVE  <<m, 2 * j>> \in K /\ <<m, 2 * j + 1>> \in K
  <2>1. j # Above(n, m + 1) /\ j \in Nat
    BY <1>3, <1>4
  <2>2. Above(n, m + 1) = Above(n, m) \div 2 /\ Above(n, m) \in Nat
    <3>1. m \in 0 .. Depth /\ \A k \in 0 .. Depth : Above(n, k) \in Indices(k)
      BY <1>1, <1>2, PathPositions
    <3>2. QED
      BY <1>1, <1>3, <3>1, PathPositions
  <2>3. 2 * j # Above(n, m) /\ 2 * j + 1 # Above(n, m)
    BY <2>1, <2>2
  <2>4. m \in 0 .. Depth
    BY <1>2
  <2>5. QED
    BY <2>1, <2>3, <2>4
<1>5. ASSUME NEW m \in 0 .. Depth, NEW j \in Indices(m), <<m, j>> \in K
      PROVE  CachedNode(sparse, m, j) \in {None, N[m][j]}
  <2>1. j # Above(n, m)
    BY <1>5
  <2>2. QED
    BY <1>1, <2>1, CacheIsRight
<1>6. <<l, i>> \in K
  BY <1>2, <1>3
<1> HIDE DEF K
<1>7. ComputeNode(new, sparse)[l][i] = N[l][i]
  <2>1. ClosedBelow(K) /\ RightAt(K, sparse, new)
    BY <1>4, <1>5 DEF ClosedBelow, RightAt, N
  <2>2. QED
    BY <1>1, <1>2, <1>3, <1>6, <2>1, ComputeIsRight DEF N
<1>8. l = 0 => N[l][i] = Leaf(new, i)
  BY <1>1, <1>3, TreeNodes DEF N
<1>9. QED
  BY <1>7, <1>8 DEF SiblingOf, new, n, N, i

\* Of the tree as it is, every sibling on the path of any of its leaves.
LEMMA ProofSiblings ==
  ASSUME LeanImtAssumption, LeanInv, NEW n \in 0 .. Len(leaves) - 1,
         NEW l \in 0 .. Depth - 1
  PROVE  SiblingOf(leaves, sparse, Above(n, l), l) =
           Tree!Nodes(leaves)[l][Tree!Sibling(Above(n, l))]
<1> DEFINE K == (0 .. Depth) \X Nat
           N == Tree!Nodes(leaves)
           i == Tree!Sibling(Above(n, l))
<1>1. Len(leaves) \in Nat /\ n \in 0 .. Tree!pow2[Depth] - 1
  BY Powers DEF LeanInv, Trees, Capacity
<1>2. /\ i \in Indices(l) /\ l \in 0 .. Depth /\ Depth \in Nat
      /\ \A m : Indices(m) \subseteq Nat
  BY <1>1, Powers, PathPositions DEF Indices
<1> HIDE DEF N, i
<1>3. ClosedBelow(K) /\ <<l, i>> \in K
  BY <1>2 DEF ClosedBelow
<1>4. RightAt(K, sparse, leaves)
  BY CacheIsRight DEF RightAt
<1> HIDE DEF K
<1>5. ComputeNode(leaves, sparse)[l][i] = N[l][i]
  BY <1>1, <1>2, <1>3, <1>4, ComputeIsRight DEF N
<1>6. l = 0 => N[l][i] = Leaf(leaves, i)
  BY <1>1, <1>2, TreeNodes DEF N
<1>7. QED
  BY <1>5, <1>6 DEF SiblingOf, N, i

\* The path that insert computes is that of the grown tree.
LEMMA PathIsRight ==
  ASSUME LeanImtAssumption, LeanInv, NEW leaf \in Commitments,
         Len(leaves) < Capacity
  PROVE  LET new == Append(leaves, leaf)
         IN  \A l \in 0 .. Depth :
               Path(new, sparse, Len(leaves))[l] =
                 Tree!Nodes(new)[l][Above(Len(leaves), l)]
<1> DEFINE new == Append(leaves, leaf)
           n == Len(leaves)
           sibling(l) == SiblingOf(new, sparse, Above(n, l), l)
           Up(l, f) == IF Above(n, l) % 2 = 0 THEN Tree!Hash2(f[l], sibling(l))
                       ELSE Tree!Hash2(sibling(l), f[l])
           Body(f) == [l \in 0 .. Depth |->
                         IF l = 0 THEN new[n + 1] ELSE Up(l - 1, f)]
           N == Tree!Nodes(new)
           g == [l \in 0 .. Depth |-> N[l][Above(n, l)]]
           path == Path(new, sparse, n)
<1>0. leaves \in Trees /\ Depth \in Nat
  BY Powers DEF LeanInv
<1>1. /\ n \in 0 .. Tree!pow2[Depth] - 1 /\ n \in Nat
      /\ Len(new) = n + 1 /\ Len(new) \in Nat /\ new[n + 1] = Leaf(new, n)
  BY <1>0, Appended DEF Leaf
<1>2. path = CHOOSE f : f = Body(f)
  BY Zenon DEF Path, Above
<1>3. ASSUME NEW l \in 0 .. Depth - 1
      PROVE  sibling(l) = N[l][Tree!Sibling(Above(n, l))]
  BY InsertSiblings
<1>4. /\ Above(n, 0) = n /\ \A l \in 0 .. Depth : Above(n, l) \in Indices(l)
      /\ \A l \in 0 .. Depth - 1 : Above(n, l + 1) = Above(n, l) \div 2
  BY <1>1, PathPositions
<1>5. N[0][n] = Leaf(new, n)
  BY <1>0, <1>1, <1>4, TreeNodes
<1> HIDE DEF sibling, path, new
<1>6. ASSUME NEW l \in 0 .. Depth - 1 PROVE N[l + 1][Above(n, l + 1)] = Up(l, g)
  <2> DEFINE k == Above(n, l)
             up == Above(n, l + 1)
  <2>1. l \in 0 .. Depth /\ l + 1 \in 0 .. Depth
    BY <1>0
  <2>2. k \in Nat /\ up = k \div 2 /\ up \in Indices(l + 1)
    BY <1>4, <2>1 DEF Indices
  <2>3. N[l + 1][up] = Tree!Hash2(N[l][2 * up], N[l][2 * up + 1])
    BY <1>1, <2>2, TreeNodes
  <2>4. g[l] = N[l][k]
    BY <2>1
  <2>5. sibling(l) = IF k % 2 = 0 THEN N[l][k + 1] ELSE N[l][k - 1]
    BY <1>3 DEF Tree!Sibling
  <2> HIDE DEF k, up, N, g
  <2>6. k % 2 = 0 => 2 * up = k
    BY <2>2
  <2>7. k % 2 # 0 => 2 * up = k - 1 /\ 2 * up + 1 = k
    BY <2>2
  <2>8. N[l + 1][up] = Up(l, g)
    BY <2>3, <2>4, <2>5, <2>6, <2>7 DEF k
  <2>9. QED
    BY <2>8 DEF up
<1>7. g = Body(g)
  <2> HIDE DEF Up, N
  <2>1. ASSUME NEW l \in 0 .. Depth
        PROVE  g[l] = IF l = 0 THEN new[n + 1] ELSE Up(l - 1, g)
    <3>1. CASE l = 0
      BY <1>0, <1>1, <1>4, <1>5, <3>1
    <3>2. CASE l # 0
      <4>1. l - 1 \in 0 .. Depth - 1 /\ l - 1 + 1 = l
        BY <1>0, <3>2
      <4>2. g[l] = N[l][Above(n, l)]
        OBVIOUS
      <4> HIDE DEF g
      <4>3. N[l - 1 + 1][Above(n, l - 1 + 1)] = Up(l - 1, g)
        BY <1>6, <4>1
      <4>4. QED
        BY <3>2, <4>1, <4>2, <4>3
    <3>3. QED
      BY <3>1, <3>2
  <2>2. QED
    BY <2>1
<1>8. path = Body(path)
  <2> HIDE DEF Body, g
  <2>1. QED
    BY <1>2, <1>7
<1> HIDE DEF g
<1>9. path[0] = Leaf(new, n)
  BY <1>0, <1>1, <1>8
<1>10. ASSUME NEW l \in 0 .. Depth - 1 PROVE path[l + 1] = Up(l, path)
  <2>1. l \in Int /\ l + 1 \in 0 .. Depth /\ l + 1 # 0 /\ l + 1 - 1 = l
    BY <1>0
  <2> HIDE DEF Up
  <2>2. \A m \in 0 .. Depth : path[m] = IF m = 0 THEN new[n + 1] ELSE Up(m - 1, path)
    BY <1>8
  <2>3. \A m \in 0 .. Depth : m - 1 = l => path[m] = Up(l, path)
    BY <2>1, <2>2
  <2>4. QED
    BY <2>1, <2>3
<1>11. ASSUME NEW l \in 0 .. Depth - 1
       PROVE  LET other == N[l][Tree!Sibling(Above(n, l))]
              IN  path[l + 1] = IF Above(n, l) % 2 = 0
                                THEN Tree!Hash2(path[l], other)
                                ELSE Tree!Hash2(other, path[l])
  BY <1>3, <1>10
<1> HIDE DEF Up, Body
<1>12. \A l \in 0 .. Depth : path[l] = N[l][Above(n, l)]
  BY <1>1, <1>9, <1>11, Climbs
<1>13. QED
  BY <1>12 DEF path, new

-----------------------------------------------------------------------------
(* The invariant.                                                          *)

\* A tree without leaves, and both its caches.
LEMMA InitInv == ASSUME LeanImtAssumption, Init PROVE LeanInv
<1>1. /\ leaves \in Trees /\ Len(leaves) = 0 /\ Depth \in 0 .. Depth
      /\ 0 \in Indices(Depth) /\ 0 * Tree!pow2[Depth] >= Len(leaves)
  <2>1. Depth \in Nat /\ Depth \in 0 .. Depth /\ Depth - Depth = 0
    BY Powers
  <2>2. /\ Tree!pow2[Depth] \in Nat /\ Tree!pow2[Depth - Depth] = 1
        /\ Capacity \in Nat
    BY <2>1, Powers DEF Capacity
  <2>3. leaves \in Trees /\ Len(leaves) = 0
    BY <2>2 DEF Init, Trees
  <2>4. QED
    BY <2>1, <2>2, <2>3 DEF Indices
<1>2. root = Tree!TreeRoot(leaves)
  <2>1. Tree!Nodes(leaves)[Depth][0] = Tree!zeros[Depth]
    BY <1>1, TreeNodes
  <2>2. QED
    BY <2>1 DEF Init, Tree!TreeRoot
<1>3. CachedOrEmpty
  <2>1. ASSUME NEW l \in 0 .. Depth, NEW i \in Indices(l)
        PROVE  i * Tree!pow2[l] >= Len(leaves)
    <3>1. i \in Nat /\ Tree!pow2[l] \in Nat
      BY Powers DEF Indices
    <3>2. ASSUME NEW p \in Nat PROVE i * p >= 0
      BY <3>1
    <3>3. QED
      BY <1>1, <3>1, <3>2
  <2>2. QED
    BY <2>1 DEF CachedOrEmpty
<1>4. CachedNodes
  BY DEF Init, CachedNodes
<1>5. QED
  BY <1>1, <1>2, <1>3, <1>4 DEF Init, LeanInv

\* What insert caches are the nodes of the grown tree.
LEMMA InsertKeepsInv ==
  ASSUME LeanImtAssumption, LeanInv, NEW leaf \in Commitments, Insert(leaf)
  PROVE  LeanInv'
<1> DEFINE new == Append(leaves, leaf)
           n == Len(leaves)
           N == Tree!Nodes(new)
           path == Path(new, sparse, n)
           onPath == {<<level, Above(n, level)>> : level \in 0 .. Depth}
<1>1. /\ leaves \in Trees /\ Len(leaves) < Capacity
      /\ leaves' = new /\ subtrees' = subtrees
      /\ root' = path[Depth] /\ sparse' = CachePath(path, n)
  BY DEF Insert, LeanInv
<1>2. /\ n \in 0 .. Tree!pow2[Depth] - 1 /\ n \in Nat /\ new \in Trees
      /\ Len(new) = n + 1
      /\ \A l \in 0 .. Depth : \A i \in Indices(l) :
           i # Above(n, l) => N[l][i] = Tree!Nodes(leaves)[l][i]
  BY <1>1, Appended
<1>3. \A l \in 0 .. Depth : path[l] = N[l][Above(n, l)]
  BY <1>1, PathIsRight
<1>4. /\ Above(n, Depth) = 0
      /\ \A l \in 0 .. Depth : Above(n, l) \in Indices(l)
  BY <1>2, PathPositions
<1>5. Depth \in 0 .. Depth /\ \A l : Indices(l) \subseteq Nat
  BY Powers DEF Indices
<1>6. sparse' = [at \in DOMAIN sparse \cup onPath |->
                   IF at \in onPath THEN path[at[1]] ELSE sparse[at]]
  BY <1>1 DEF CachePath, Above
<1> HIDE DEF new, n, N, path
<1>7. root' = Tree!TreeRoot(leaves')
  <2>1. root' = N[Depth][0]
    BY <1>1, <1>3, <1>4, <1>5
  <2>2. QED
    BY <1>1, <2>1 DEF Tree!TreeRoot, N
<1>8. CachedNodes'
  <2>1. ASSUME NEW at \in onPath
        PROVE  /\ at \in (0 .. Depth) \X Nat /\ at[2] \in Indices(at[1])
               /\ sparse'[at] = N[at[1]][at[2]]
    <3>1. PICK l \in 0 .. Depth : at = <<l, Above(n, l)>>
      OBVIOUS
    <3>2. at[1] = l /\ at[2] = Above(n, l) /\ at \in onPath
      BY <3>1
    <3>3. sparse'[at] = path[l]
      BY <1>6, <3>2
    <3>4. QED
      BY <1>3, <1>4, <1>5, <3>1, <3>2, <3>3
  <2>2. ASSUME NEW at \in DOMAIN sparse, at \notin onPath
        PROVE  /\ at \in (0 .. Depth) \X Nat /\ at[2] \in Indices(at[1])
               /\ sparse'[at] = N[at[1]][at[2]]
    <3>1. /\ at \in (0 .. Depth) \X Nat /\ at[2] \in Indices(at[1])
          /\ sparse[at] = Tree!Nodes(leaves)[at[1]][at[2]]
      BY DEF LeanInv, CachedNodes
    <3>2. at[1] \in 0 .. Depth /\ at = <<at[1], at[2]>>
      BY <3>1
    <3>3. at[2] # Above(n, at[1])
      BY <2>2, <3>2
    <3>4. N[at[1]][at[2]] = Tree!Nodes(leaves)[at[1]][at[2]]
      BY <1>2, <3>1, <3>2, <3>3
    <3>5. sparse'[at] = sparse[at]
      BY <1>6, <2>2
    <3>6. QED
      BY <3>1, <3>4, <3>5
  <2>3. DOMAIN sparse' = DOMAIN sparse \cup onPath
    BY <1>6
  <2> HIDE DEF onPath
  <2>4. \A at \in DOMAIN sparse' :
          /\ at \in (0 .. Depth) \X Nat /\ at[2] \in Indices(at[1])
          /\ sparse'[at] = N[at[1]][at[2]]
    BY <2>1, <2>2, <2>3
  <2>5. QED
    BY <1>1, <2>4 DEF CachedNodes, N
<1>9. CachedOrEmpty'
  <2> SUFFICES ASSUME subtrees # << >>, NEW l \in 0 .. Depth,
                      NEW i \in Indices(l), <<l, i>> \notin DOMAIN sparse'
               PROVE  i * Tree!pow2[l] >= Len(new)
    BY <1>1 DEF CachedOrEmpty
  <2> DEFINE p == Tree!pow2[l]
  <2>1. <<l, i>> \notin DOMAIN sparse /\ i # n \div p
    BY <1>6 DEF Above
  <2>2. i * p >= n
    BY <2>1 DEF LeanInv, CachedOrEmpty, n
  <2>3. i \in Nat /\ p \in Nat \ {0}
    BY <1>5, Powers
  <2> HIDE DEF p
  <2>4. ASSUME i * p = n PROVE i = n \div p
    BY <1>2, <2>3, <2>4
  <2>5. i * p \in Nat
    BY <2>3
  <2>6. QED
    BY <1>2, <2>1, <2>2, <2>4, <2>5 DEF p
<1>10. QED
  BY <1>1, <1>2, <1>7, <1>8, <1>9 DEF LeanInv

\* A tree that is loaded has no node cached, and the empty subtrees only if
\* it is empty itself.
LEMMA ReloadKeepsInv ==
  ASSUME LeanImtAssumption, LeanInv, Reload
  PROVE  LeanInv'
<1>1. /\ leaves' = leaves /\ root' = root /\ sparse' = << >>
      /\ subtrees' \in {<< >>, Tree!zeros}
      /\ subtrees' # << >> => leaves = << >>
  BY DEF Reload
<1>2. CachedNodes'
  BY <1>1 DEF CachedNodes
<1>3. CachedOrEmpty'
  <2> SUFFICES ASSUME leaves = << >>, NEW l \in 0 .. Depth, NEW i \in Indices(l)
               PROVE  i * Tree!pow2[l] >= Len(leaves)
    BY <1>1 DEF CachedOrEmpty
  <2>1. i \in Nat /\ Tree!pow2[l] \in Nat /\ Len(leaves) = 0
    BY Powers DEF Indices
  <2>2. ASSUME NEW p \in Nat PROVE i * p >= 0
    BY <2>1
  <2>3. QED
    BY <2>1, <2>2
<1>4. QED
  BY <1>1, <1>2, <1>3 DEF LeanInv

\* The invariant, from one case for each action.
LEMMA LeanInvariant == ASSUME LeanImtAssumption PROVE Spec => []LeanInv
<1>1. Init => LeanInv
  BY InitInv
<1>2. LeanInv /\ [Next]_vars => LeanInv'
  <2>1. ASSUME LeanInv, UNCHANGED vars PROVE LeanInv'
    BY <2>1 DEF LeanInv, CachedOrEmpty, CachedNodes, vars
  <2>2. QED
    BY <2>1, InsertKeepsInv, ReloadKeepsInv DEF Next
<1>3. QED
  BY <1>1, <1>2, PTL DEF Spec

-----------------------------------------------------------------------------
(* The theorems.                                                           *)

(***************************************************************************)
(* The types, at every depth: the caches hold nothing but places of the    *)
(* tree, and the tree never outgrows its capacity.                         *)
(***************************************************************************)
THEOREM LeanImtTypeCorrect == ASSUME LeanImtAssumption PROVE Spec => []TypeOK
<1>1. LeanInv => TypeOK
  <2>1. DOMAIN Tree!zeros = 0 .. Depth
    BY Powers
  <2>2. QED
    BY <2>1 DEF LeanInv, CachedNodes, Trees, TypeOK
<1>2. QED
  BY <1>1, LeanInvariant, PTL

(***************************************************************************)
(* After any sequence of insertions and reloads, and at every depth, the   *)
(* tree of noterail has the root of the whole padded tree, and the proof   *)
(* it makes of any of its leaves folds to that root in the circuit: what   *)
(* the two caches serve is never a node of an earlier tree.                *)
(***************************************************************************)
THEOREM LeanImtFollowsReloads ==
  ASSUME LeanImtAssumption
  PROVE  Spec => []TreeFollowsReloads
<1>1. ASSUME LeanInv PROVE TreeFollowsReloads
  <2>1. leaves \in Trees /\ Len(leaves) \in Nat /\ root = Tree!TreeRoot(leaves)
    BY <1>1 DEF LeanInv, Trees
  <2>2. ASSUME NEW n \in 0 .. Len(leaves) - 1
        PROVE  GenerateProof(n) = Tree!Siblings(leaves, n)
    <3>0. n \in 0 .. Tree!pow2[Depth] - 1 /\ Depth \in Nat
      BY <2>1, Powers DEF Trees, Capacity
    <3>1. ASSUME NEW l \in 0 .. Depth - 1
          PROVE  SiblingOf(leaves, sparse, n \div Tree!pow2[l], l) =
                   Tree!Nodes(leaves)[l][Tree!Sibling(n \div Tree!pow2[l])]
      BY <1>1, ProofSiblings DEF Above
    <3>2. ASSUME Depth = 1, Len(leaves) = 2, NEW l \in 0 .. Depth - 1
          PROVE  Leaf(leaves, 1 - n) =
                   Tree!Nodes(leaves)[l][Tree!Sibling(n \div Tree!pow2[l])]
      <4>1. l = 0 /\ n \in {0, 1}
        BY <3>2
      <4>2. n \div Tree!pow2[l] = n
        BY <3>0, <4>1, PathPositions DEF Above
      <4>3. Tree!Sibling(n) = 1 - n
        BY <4>1 DEF Tree!Sibling
      <4>4. 1 - n \in Indices(0)
        BY <3>0, <3>2, <4>1, <4>2, <4>3, PathPositions DEF Above
      <4>5. QED
        BY <2>1, <4>1, <4>2, <4>3, <4>4, TreeNodes
    <3>3. QED
      BY <3>1, <3>2 DEF GenerateProof, Tree!Siblings, Tree!Levels
  <2>3. root = Tree!FullTree(leaves)
    BY <2>1, WholeTree
  <2>4. QED
    BY <2>1, <2>2, <2>3, PlainPathFolds DEF TreeFollowsReloads
<1>2. QED
  BY <1>1, LeanInvariant, PTL
=============================================================================
