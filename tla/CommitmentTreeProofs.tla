------------------------ MODULE CommitmentTreeProofs ------------------------
EXTENDS CommitmentTree, WellFoundedInduction, TLAPS

(***************************************************************************)
(* Induction on the levels of the tree: a set that has level 0, and with a *)
(* level the next one, has them all.  The set is a parameter where an      *)
(* operator could not be: a proof by induction names the set of the levels *)
(* at which its statement holds.                                           *)
(***************************************************************************)
LEMMA LevelInduction ==
  ASSUME NEW n \in Nat, NEW S, 0 \in S,
         \A i \in 0 .. n - 1 : i \in S => i + 1 \in S
  PROVE  0 .. n \subseteq S
<1> DEFINE Smaller == OpToRel(<, Nat)
           Missing == {i \in 0 .. n : i \notin S}
<1> SUFFICES ASSUME Missing # {} PROVE FALSE
  OBVIOUS
<1> HIDE DEF Smaller
<1>1. Missing \subseteq Nat
  OBVIOUS
<1>2. PICK x \in Missing : \A y \in Missing : ~(<<y, x>> \in Smaller)
  <2>1. IsWellFoundedOn(Smaller, Nat)
    BY NatLessThanWellFounded DEF Smaller
  <2> HIDE DEF Missing
  <2>2. QED
    BY <1>1, <2>1, WFMin
<1>3. x # 0
  BY <1>2
<1>4. x - 1 \in Nat /\ x - 1 \in 0 .. n - 1 /\ x - 1 < x
  BY <1>2, <1>3
<1>5. <<x - 1, x>> \in Smaller
  BY <1>2, <1>4 DEF OpToRel, Smaller
<1>6. x - 1 \in S
  BY <1>2, <1>4, <1>5
<1>7. QED
  BY <1>2, <1>4, <1>6

-----------------------------------------------------------------------------
(* What the recursive definitions compute.                                 *)

\* Powers of two.
LEMMA PowersOfTwo ==
  /\ DOMAIN pow2 = 0 .. Depth
  /\ pow2[0] = 1
  /\ \A l \in 0 .. Depth - 1 : pow2[l + 1] = 2 * pow2[l]
  /\ \A l \in 0 .. Depth : pow2[l] \in Nat \ {0}
<1> DEFINE Body(f) == [l \in 0 .. Depth |-> IF l = 0 THEN 1 ELSE 2 * f[l - 1]]
           Good(f, n) == /\ f[0] = 1
                         /\ \A l \in 0 .. n - 1 : f[l + 1] = 2 * f[l]
           S == {n \in 0 .. Depth : \E f \in [0 .. Depth -> Nat] : Good(f, n)}
<1>0. Depth \in Nat
  BY TreeAssumption DEF TreeParameters
<1>1. 0 \in S
  <2>1. [l \in 0 .. Depth |-> 1] \in [0 .. Depth -> Nat]
    BY <1>0
  <2>2. Good([l \in 0 .. Depth |-> 1], 0)
    BY <1>0
  <2> HIDE DEF Good
  <2>3. QED
    BY <1>0, <2>1, <2>2
<1>2. ASSUME NEW n \in 0 .. Depth - 1, n \in S PROVE n + 1 \in S
  <2>1. PICK f \in [0 .. Depth -> Nat] : Good(f, n)
    BY <1>2
  <2> DEFINE g == [f EXCEPT ![n + 1] = 2 * f[n]]
  <2>2. g \in [0 .. Depth -> Nat] /\ Good(g, n + 1)
    BY <1>0, <1>2, <2>1
  <2> HIDE DEF Good, g
  <2>3. n + 1 \in 0 .. Depth
    BY <1>0
  <2>4. \E h \in [0 .. Depth -> Nat] : Good(h, n + 1)
    BY <2>2
  <2>5. QED
    BY <2>3, <2>4
<1>3. Depth \in S
  <2> HIDE DEF S
  <2>1. 0 .. Depth \subseteq S
    BY <1>0, <1>1, <1>2, LevelInduction
  <2>2. QED
    BY <1>0, <2>1
<1>4. \E f : f = Body(f)
  <2>1. PICK f \in [0 .. Depth -> Nat] : Good(f, Depth)
    BY <1>3
  <2>2. \A l \in 0 .. Depth : f[l] = Body(f)[l]
    BY <1>0, <2>1
  <2>3. QED
    BY <2>1, <2>2
<1>5. pow2 = Body(pow2)
  BY <1>4 DEF pow2
<1>6. /\ pow2[0] = 1 /\ DOMAIN pow2 = 0 .. Depth
      /\ \A l \in 0 .. Depth - 1 : pow2[l + 1] = 2 * pow2[l]
  BY <1>0, <1>5
<1>7. \A l \in 0 .. Depth : pow2[l] \in Nat \ {0}
  <2> DEFINE T == {l \in 0 .. Depth : pow2[l] \in Nat \ {0}}
  <2>1. 0 \in T /\ \A l \in 0 .. Depth - 1 : l \in T => l + 1 \in T
    BY <1>0, <1>6
  <2> HIDE DEF T
  <2>2. 0 .. Depth \subseteq T
    BY <1>0, <2>1, LevelInduction
  <2>3. QED
    BY <2>2 DEF T
<1>8. QED
  BY <1>6, <1>7

\* The next level up has half as many nodes.
LEMMA Halves ==
  ASSUME NEW l \in 0 .. Depth - 1
  PROVE  /\ l \in 0 .. Depth /\ l + 1 \in 0 .. Depth /\ l \in Nat
         /\ pow2[l] \in Nat \ {0} /\ pow2[l + 1] = 2 * pow2[l]
         /\ Depth - l \in 0 .. Depth /\ Depth - (l + 1) \in 0 .. Depth
         /\ pow2[Depth - (l + 1)] \in Nat \ {0}
         /\ pow2[Depth - l] = 2 * pow2[Depth - (l + 1)]
<1>1. Depth \in Nat
  BY TreeAssumption DEF TreeParameters
<1>2. Depth - (l + 1) \in 0 .. Depth - 1 /\ Depth - (l + 1) + 1 = Depth - l
  BY <1>1
<1>3. pow2[Depth - (l + 1) + 1] = 2 * pow2[Depth - (l + 1)]
  BY <1>2, PowersOfTwo
<1>4. QED
  BY <1>1, <1>2, <1>3, PowersOfTwo

\* The ladder of empty subtrees.
LEMMA ZerosAre ==
  /\ DOMAIN zeros = 0 .. Depth
  /\ zeros[0] = Zero
  /\ \A l \in 0 .. Depth - 1 : zeros[l + 1] = Hash2(zeros[l], zeros[l])
<1> DEFINE Body(f) ==
             [level \in 0 .. Depth |->
                IF level = 0 THEN Zero ELSE Hash2(f[level - 1], f[level - 1])]
           Good(f, n) ==
             /\ f[0] = Zero
             /\ \A l \in 0 .. n - 1 : f[l + 1] = Hash2(f[l], f[l])
           S == {n \in 0 .. Depth : \E f : Good(f, n)}
<1>0. Depth \in Nat
  BY TreeAssumption DEF TreeParameters
<1>1. 0 \in S
  <2>1. Good([l \in 0 .. Depth |-> Zero], 0)
    BY <1>0
  <2> HIDE DEF Good
  <2>2. QED
    BY <1>0, <2>1
<1>2. ASSUME NEW n \in 0 .. Depth - 1, n \in S PROVE n + 1 \in S
  <2>1. PICK f : Good(f, n)
    BY <1>2
  <2> DEFINE g == [l \in 0 .. Depth |->
                     IF l <= n THEN f[l] ELSE Hash2(f[n], f[n])]
  <2>2. Good(g, n + 1)
    BY <1>0, <2>1
  <2> HIDE DEF Good, g
  <2>3. n + 1 \in 0 .. Depth
    BY <1>0
  <2>4. \E h : Good(h, n + 1)
    BY <2>2
  <2>5. QED
    BY <2>3, <2>4
<1>3. Depth \in S
  <2> HIDE DEF S
  <2>1. 0 .. Depth \subseteq S
    BY <1>0, <1>1, <1>2, LevelInduction
  <2>2. QED
    BY <1>0, <2>1
<1>4. \E f : f = Body(f)
  <2>1. PICK f : Good(f, Depth)
    BY <1>3
  <2> DEFINE g == [l \in 0 .. Depth |-> f[l]]
  <2>2. \A l \in 0 .. Depth : g[l] = Body(g)[l]
    BY <1>0, <2>1
  <2>3. g = Body(g)
    BY <2>2
  <2> HIDE DEF g, Body
  <2>4. QED
    BY <2>3
<1>5. zeros = Body(zeros)
  BY <1>4 DEF zeros
<1>6. QED
  BY <1>0, <1>5

\* A node of a tree: a leaf or the padding at the bottom,
Bottom(tree, index) == IF index < Len(tree) THEN tree[index + 1] ELSE Zero

\* and above it an empty subtree or the hash of two nodes.
LEMMA NodesAre ==
  ASSUME NEW tree
  PROVE  /\ \A i \in 0 .. pow2[Depth] - 1 : Nodes(tree)[0][i] = Bottom(tree, i)
         /\ \A l \in 0 .. Depth - 1 : \A i \in 0 .. pow2[Depth - (l + 1)] - 1 :
              Nodes(tree)[l + 1][i] =
                IF i * pow2[l + 1] >= Len(tree) THEN zeros[l + 1]
                ELSE Hash2(Nodes(tree)[l][2 * i], Nodes(tree)[l][2 * i + 1])
<1> DEFINE Above(l, nodes) ==
             [index \in 0 .. pow2[Depth - l] - 1 |->
                IF l = 0 THEN IF index < Len(tree) THEN tree[index + 1] ELSE Zero
                ELSE IF index * pow2[l] >= Len(tree) THEN zeros[l]
                ELSE Hash2(nodes[2 * index], nodes[2 * index + 1])]
           Body(f) == [l \in 0 .. Depth |-> Above(l, f[l - 1])]
           Good(f, n) == \A l \in 0 .. n : f[l] = Above(l, f[l - 1])
           S == {n \in 0 .. Depth : \E f : Good(f, n)}
<1>0. Depth \in Nat
  BY TreeAssumption DEF TreeParameters
<1> HIDE DEF Above
<1>1. 0 \in S
  <2> DEFINE f == [l \in {-1, 0} |-> IF l = 0 THEN Above(0, Zero) ELSE Zero]
  <2>1. Good(f, 0)
    OBVIOUS
  <2> HIDE DEF Good, f
  <2>2. QED
    BY <1>0, <2>1
<1>2. ASSUME NEW n \in 0 .. Depth - 1, n \in S PROVE n + 1 \in S
  <2>1. PICK f : Good(f, n)
    BY <1>2
  <2> DEFINE g == [l \in -1 .. Depth |->
                     IF l <= n THEN f[l] ELSE Above(n + 1, f[n])]
  <2>2. Good(g, n + 1)
    BY <1>0, <2>1
  <2> HIDE DEF Good, g
  <2>3. n + 1 \in 0 .. Depth
    BY <1>0
  <2>4. \E h : Good(h, n + 1)
    BY <2>2
  <2>5. QED
    BY <2>3, <2>4
<1>3. Depth \in S
  <2> HIDE DEF S
  <2>1. 0 .. Depth \subseteq S
    BY <1>0, <1>1, <1>2, LevelInduction
  <2>2. QED
    BY <1>0, <2>1
<1>4. \E f : f = Body(f)
  <2>1. PICK f : Good(f, Depth)
    BY <1>3
  <2> DEFINE g == [l \in 0 .. Depth |-> f[l]]
  <2>2. \A x, y : Above(0, x) = Above(0, y)
    BY DEF Above
  <2>3. \A l \in 0 .. Depth : g[l] = Above(l, g[l - 1])
    BY <1>0, <2>1, <2>2
  <2>4. g = Body(g)
    BY <2>3
  <2> HIDE DEF g, Body
  <2>5. QED
    BY <2>4
<1>5. Nodes(tree) = Body(Nodes(tree))
  <2> HIDE DEF Body
  <2>1. Nodes(tree) = CHOOSE f : f = Body(f)
    BY DEF Nodes, Body, Above
  <2>2. QED
    BY <1>4, <2>1
<1>6. \A l \in 0 .. Depth : Nodes(tree)[l] = Above(l, Nodes(tree)[l - 1])
  BY <1>5
<1>7. \A i \in 0 .. pow2[Depth] - 1 : Nodes(tree)[0][i] = Bottom(tree, i)
  <2>1. Nodes(tree)[0] = Above(0, Nodes(tree)[0 - 1]) /\ Depth - 0 = Depth
    BY <1>0, <1>6
  <2>2. QED
    BY <2>1 DEF Above, Bottom
<1>8. ASSUME NEW l \in 0 .. Depth - 1, NEW i \in 0 .. pow2[Depth - (l + 1)] - 1
      PROVE  Nodes(tree)[l + 1][i] =
                IF i * pow2[l + 1] >= Len(tree) THEN zeros[l + 1]
                ELSE Hash2(Nodes(tree)[l][2 * i], Nodes(tree)[l][2 * i + 1])
  <2>1. l + 1 \in 0 .. Depth /\ l + 1 # 0 /\ l + 1 - 1 = l
    BY <1>0
  <2>2. Nodes(tree)[l + 1] = Above(l + 1, Nodes(tree)[l])
    BY <1>6, <2>1
  <2>3. QED
    BY <2>1, <2>2 DEF Above
<1>9. QED
  BY <1>7, <1>8

-----------------------------------------------------------------------------
(* Nodes and positions.                                                    *)

\* The node above leaf n at every level is one of that level's.
LEMMA Positions ==
  ASSUME NEW n \in 0 .. pow2[Depth] - 1
  PROVE  /\ n \div pow2[0] = n /\ n \div pow2[Depth] = 0
         /\ \A l \in 0 .. Depth :
              n \div pow2[l] \in 0 .. pow2[Depth - l] - 1
         /\ \A l \in 0 .. Depth - 1 :
              n \div pow2[l + 1] = (n \div pow2[l]) \div 2
<1> DEFINE S == {l \in 0 .. Depth : n \div pow2[l] \in 0 .. pow2[Depth - l] - 1}
<1>1. Depth \in Nat /\ n \in Nat /\ pow2[Depth] \in Nat
  BY TreeAssumption, PowersOfTwo DEF TreeParameters
<1>2. n \div pow2[0] = n
  BY <1>1, PowersOfTwo
<1>3. \A l \in 0 .. Depth - 1 : n \div pow2[l + 1] = (n \div pow2[l]) \div 2
  <2> SUFFICES ASSUME NEW l \in 0 .. Depth - 1
               PROVE  n \div pow2[l + 1] = (n \div pow2[l]) \div 2
    OBVIOUS
  <2>1. ASSUME NEW p \in Nat \ {0} PROVE n \div (2 * p) = (n \div p) \div 2
    BY <1>1
  <2>2. QED
    BY <2>1, Halves
<1>4. 0 \in S
  <2>1. Depth - 0 = Depth
    BY <1>1
  <2>2. QED
    BY <1>1, <1>2, <2>1
<1>5. ASSUME NEW l \in 0 .. Depth - 1, l \in S PROVE l + 1 \in S
  <2> DEFINE k == n \div pow2[l]
             q == pow2[Depth - (l + 1)]
  <2>1. k \in 0 .. 2 * q - 1 /\ q \in Nat
    BY <1>5, Halves
  <2> HIDE DEF k, q
  <2>2. k \div 2 \in 0 .. q - 1
    BY <2>1
  <2>3. l + 1 \in 0 .. Depth /\ n \div pow2[l + 1] = k \div 2
    BY <1>3, Halves DEF k
  <2>4. QED
    BY <2>2, <2>3 DEF q
<1>6. \A l \in 0 .. Depth : l \in S
  <2> HIDE DEF S
  <2>1. 0 .. Depth \subseteq S
    BY <1>1, <1>4, <1>5, LevelInduction
  <2>2. QED
    BY <2>1
<1>7. n \div pow2[Depth] = 0
  <2>1. n \div pow2[Depth] \in 0 .. pow2[Depth - Depth] - 1
    BY <1>1, <1>6
  <2>2. pow2[Depth - Depth] = 1
    BY <1>1, PowersOfTwo
  <2>3. QED
    BY <2>1, <2>2
<1>8. QED
  BY <1>2, <1>3, <1>6, <1>7

\* A node beyond the last leaf is that of an empty subtree.
LEMMA EmptyNodes ==
  ASSUME NEW tree, Len(tree) \in Nat, NEW l \in 0 .. Depth,
         NEW i \in 0 .. pow2[Depth - l] - 1, i * pow2[l] >= Len(tree)
  PROVE  Nodes(tree)[l][i] = zeros[l]
<1>1. Depth \in Nat /\ pow2[0] = 1 /\ zeros[0] = Zero
  BY TreeAssumption, PowersOfTwo, ZerosAre DEF TreeParameters
<1>2. CASE l = 0
  <2>1. i \in 0 .. pow2[Depth] - 1 /\ i >= Len(tree) /\ i \in Nat
    <3>1. Depth - 0 = Depth /\ pow2[Depth] \in Nat
      BY <1>1, PowersOfTwo
    <3>2. QED
      BY <1>1, <1>2, <3>1
  <2>2. QED
    BY <1>1, <1>2, <2>1, NodesAre DEF Bottom
<1>3. CASE l # 0
  <2>1. l - 1 \in 0 .. Depth - 1 /\ l - 1 + 1 = l
    BY <1>1, <1>3
  <2>2. QED
    BY <2>1, NodesAre
<1>4. QED
  BY <1>2, <1>3

\* Every node above the bottom is the hash of the two below it.
LEMMA NodesHash ==
  ASSUME NEW tree, Len(tree) \in Nat, NEW l \in 0 .. Depth - 1,
         NEW i \in 0 .. pow2[Depth - (l + 1)] - 1
  PROVE  /\ 2 * i \in 0 .. pow2[Depth - l] - 1
         /\ 2 * i + 1 \in 0 .. pow2[Depth - l] - 1
         /\ Nodes(tree)[l + 1][i] =
              Hash2(Nodes(tree)[l][2 * i], Nodes(tree)[l][2 * i + 1])
<1>1. /\ i \in Nat /\ 2 * i \in 0 .. pow2[Depth - l] - 1
      /\ 2 * i + 1 \in 0 .. pow2[Depth - l] - 1
  BY Halves
<1>2. ASSUME i * pow2[l + 1] >= Len(tree)
      PROVE  Hash2(Nodes(tree)[l][2 * i], Nodes(tree)[l][2 * i + 1]) = zeros[l + 1]
  <2> DEFINE p == pow2[l]
  <2>1. p \in Nat /\ i * (2 * p) >= Len(tree)
    BY <1>2, Halves
  <2> HIDE DEF p
  <2>2. (2 * i) * p >= Len(tree) /\ (2 * i + 1) * p >= Len(tree)
    BY <1>1, <2>1
  <2>3. Nodes(tree)[l][2 * i] = zeros[l] /\ Nodes(tree)[l][2 * i + 1] = zeros[l]
    BY <1>1, <2>2, Halves, EmptyNodes DEF p
  <2>4. QED
    BY <2>3, ZerosAre
<1>3. QED
  BY <1>1, <1>2, NodesAre

\* The browser's tree is the tree by definition.
LEMMA FullTreeIsNodes ==
  ASSUME NEW tree, Len(tree) \in Nat
  PROVE  FullTree(tree) = TreeRoot(tree)
<1> DEFINE Level(l, below) ==
             IF l = 0
             THEN [i \in 1 .. Capacity |-> IF i <= Len(tree) THEN tree[i] ELSE Zero]
             ELSE [i \in 1 .. pow2[Depth - l] |->
                     Hash2(below[2 * i - 1], below[2 * i])]
           Body(f) == [l \in 0 .. Depth |-> Level(l, f[l - 1])]
           full == CHOOSE f : f = Body(f)
           N == Nodes(tree)
           g == [l \in 0 .. Depth |-> [i \in 1 .. pow2[Depth - l] |-> N[l][i - 1]]]
           S == {l \in 0 .. Depth : full[l] = g[l]}
<1>0. Depth \in Nat /\ Depth - 0 = Depth /\ Capacity \in Nat /\ Capacity = pow2[Depth]
  BY TreeAssumption, PowersOfTwo DEF Capacity, TreeParameters
<1>1. \A f : g[0] = Level(0, f)
  <2>1. ASSUME NEW i \in 1 .. Capacity
        PROVE  N[0][i - 1] = IF i <= Len(tree) THEN tree[i] ELSE Zero
    <3>1. i - 1 \in 0 .. pow2[Depth] - 1 /\ (i - 1) + 1 = i
      BY <1>0
    <3>2. N[0][i - 1] = Bottom(tree, i - 1)
      BY <3>1, NodesAre
    <3>3. QED
      BY <1>0, <3>1, <3>2 DEF Bottom
  <2>2. g[0] = [i \in 1 .. Capacity |-> N[0][i - 1]]
    BY <1>0
  <2>3. QED
    BY <2>1, <2>2
<1>2. ASSUME NEW l \in 0 .. Depth - 1 PROVE g[l + 1] = Level(l + 1, g[l])
  <2> DEFINE q == pow2[Depth - (l + 1)]
  <2>1. /\ q \in Nat /\ pow2[Depth - l] = 2 * q
        /\ l \in 0 .. Depth /\ l + 1 \in 0 .. Depth /\ l + 1 # 0
    BY Halves
  <2>2. ASSUME NEW i \in 1 .. q
        PROVE  N[l + 1][i - 1] = Hash2(g[l][2 * i - 1], g[l][2 * i])
    <3>1. i - 1 \in 0 .. q - 1
      BY <2>1
    <3>2. N[l + 1][i - 1] = Hash2(N[l][2 * (i - 1)], N[l][2 * (i - 1) + 1])
      BY <3>1, NodesHash
    <3>3. /\ 2 * i - 1 \in 1 .. 2 * q /\ 2 * i \in 1 .. 2 * q
          /\ (2 * i - 1) - 1 = 2 * (i - 1) /\ (2 * i) - 1 = 2 * (i - 1) + 1
      BY <2>1
    <3>4. g[l] = [j \in 1 .. 2 * q |-> N[l][j - 1]]
      BY <2>1
    <3> HIDE DEF g, N
    <3>5. g[l][2 * i - 1] = N[l][2 * (i - 1)] /\ g[l][2 * i] = N[l][2 * (i - 1) + 1]
      BY <3>3, <3>4
    <3>6. QED
      BY <3>2, <3>5
  <2>3. g[l + 1] = [i \in 1 .. q |-> N[l + 1][i - 1]]
    BY <2>1
  <2>4. Level(l + 1, g[l]) = [i \in 1 .. q |-> Hash2(g[l][2 * i - 1], g[l][2 * i])]
    BY <2>1
  <2> HIDE DEF g, N, q, Level
  <2>5. QED
    BY <2>2, <2>3, <2>4
<1>3. g = Body(g)
  <2> HIDE DEF Level
  <2>1. ASSUME NEW l \in 0 .. Depth PROVE g[l] = Level(l, g[l - 1])
    <3>1. CASE l = 0
      BY <1>1, <3>1
    <3>2. CASE l # 0
      <4>1. l - 1 \in 0 .. Depth - 1 /\ l - 1 + 1 = l
        BY <1>0, <3>2
      <4> HIDE DEF g
      <4>2. QED
        BY <1>2, <4>1
    <3>3. QED
      BY <3>1, <3>2
  <2>2. QED
    BY <2>1
<1> HIDE DEF g
<1>4. \A l \in 0 .. Depth : full[l] = Level(l, full[l - 1])
  <2>1. full = Body(full)
    <3> HIDE DEF Body
    <3>1. QED
      BY <1>3
  <2> HIDE DEF full, Level
  <2>2. QED
    BY <2>1
<1>5. 0 \in S
  <2>1. full[0] = Level(0, full[0 - 1])
    <3> HIDE DEF full, Level
    <3>1. QED
      BY <1>0, <1>4
  <2> HIDE DEF full, Level
  <2>2. QED
    BY <1>0, <1>1, <2>1
<1>6. ASSUME NEW l \in 0 .. Depth - 1, l \in S PROVE l + 1 \in S
  <2>1. l + 1 \in 0 .. Depth /\ l + 1 - 1 = l
    BY <1>0
  <2> HIDE DEF full, Level
  <2>2. full[l + 1] = Level(l + 1, full[l])
    BY <1>4, <2>1
  <2>3. QED
    BY <1>2, <1>6, <2>1, <2>2
<1>7. full[Depth] = g[Depth]
  <2> HIDE DEF S
  <2>1. 0 .. Depth \subseteq S
    BY <1>0, <1>5, <1>6, LevelInduction
  <2>2. QED
    BY <1>0, <2>1 DEF S
<1>8. g[Depth][1] = N[Depth][0]
  <2>1. g[Depth] = [i \in 1 .. pow2[Depth - Depth] |-> N[Depth][i - 1]]
    BY <1>0 DEF g
  <2>2. pow2[Depth - Depth] = 1
    BY <1>0, PowersOfTwo
  <2>3. QED
    BY <2>1, <2>2
<1>9. FullTree(tree) = full[Depth][1]
  BY DEF FullTree
<1>10. QED
  BY <1>7, <1>8, <1>9 DEF TreeRoot

-----------------------------------------------------------------------------
(* The contract's frontier.                                                *)

\* A stored tree, and whether there is room for another leaf.
Trees == {tree \in Seq(Commitments) : Len(tree) <= Capacity}

HasRoom(tree) == Len(tree) < Capacity

\* A tree with room for a leaf has a place for it in the bottom level.
LEMMA NextPlace ==
  ASSUME NEW tree \in Trees, NEW leaf \in Commitments, HasRoom(tree)
  PROVE  /\ Len(tree) \in 0 .. pow2[Depth] - 1
         /\ Append(tree, leaf) \in Trees
         /\ Len(Append(tree, leaf)) = Len(tree) + 1
         /\ Len(tree) \in Nat /\ Len(Append(tree, leaf)) \in Nat
         /\ \A i \in 0 .. pow2[Depth] - 1 :
              Bottom(Append(tree, leaf), i) =
                IF i = Len(tree) THEN leaf ELSE Bottom(tree, i)
<1>1. Depth \in Nat /\ Capacity = pow2[Depth] /\ Capacity \in Nat
  BY TreeAssumption, PowersOfTwo DEF Capacity, TreeParameters
<1>2. tree \in Seq(Commitments) /\ Len(tree) \in Nat /\ Len(tree) < Capacity
  BY DEF Trees, HasRoom
<1>3. /\ Append(tree, leaf) \in Seq(Commitments)
      /\ Len(Append(tree, leaf)) = Len(tree) + 1
      /\ Append(tree, leaf)[Len(tree) + 1] = leaf
      /\ \A i \in 1 .. Len(tree) : Append(tree, leaf)[i] = tree[i]
  BY <1>2
<1>4. ASSUME NEW i \in 0 .. pow2[Depth] - 1
      PROVE  Bottom(Append(tree, leaf), i) =
                IF i = Len(tree) THEN leaf ELSE Bottom(tree, i)
  <2>1. i \in Nat
    BY <1>1
  <2>2. CASE i = Len(tree)
    BY <1>2, <1>3, <2>1, <2>2 DEF Bottom
  <2>3. CASE i < Len(tree)
    <3>1. i + 1 \in 1 .. Len(tree)
      BY <1>2, <2>1, <2>3
    <3>2. QED
      BY <1>2, <1>3, <2>1, <2>3, <3>1 DEF Bottom
  <2>4. CASE i > Len(tree)
    BY <1>2, <1>3, <2>1, <2>4 DEF Bottom
  <2>5. QED
    BY <1>2, <2>1, <2>2, <2>3, <2>4
<1>5. QED
  BY <1>1, <1>2, <1>3, <1>4 DEF Trees

\* A new leaf changes the nodes above it and no other.
LEMMA AppendChangesItsPath ==
  ASSUME NEW tree \in Trees, NEW leaf \in Commitments, HasRoom(tree),
         NEW l \in 0 .. Depth, NEW i \in 0 .. pow2[Depth - l] - 1,
         i # Len(tree) \div pow2[l]
  PROVE  Nodes(Append(tree, leaf))[l][i] = Nodes(tree)[l][i]
<1> DEFINE n == Len(tree)
           new == Append(tree, leaf)
           Same(m) == \A j \in 0 .. pow2[Depth - m] - 1 :
                        j # n \div pow2[m] => Nodes(new)[m][j] = Nodes(tree)[m][j]
           S == {m \in 0 .. Depth : Same(m)}
<1>1. /\ Depth \in Nat /\ Depth - 0 = Depth
      /\ n \in 0 .. pow2[Depth] - 1 /\ n \in Nat /\ Len(new) \in Nat
      /\ n \div pow2[0] = n
      /\ \A j \in 0 .. pow2[Depth] - 1 :
           Bottom(new, j) = IF j = n THEN leaf ELSE Bottom(tree, j)
  <2>1. n \in 0 .. pow2[Depth] - 1
    BY NextPlace
  <2>2. QED
    BY <2>1, TreeAssumption, NextPlace, Positions DEF TreeParameters
<1> HIDE DEF n, new
<1>2. 0 \in S
  <2>1. \A j \in 0 .. pow2[Depth] - 1 : /\ Nodes(new)[0][j] = Bottom(new, j)
                                        /\ Nodes(tree)[0][j] = Bottom(tree, j)
    BY NodesAre
  <2>2. QED
    BY <1>1, <2>1
<1>3. ASSUME NEW m \in 0 .. Depth - 1, m \in S PROVE m + 1 \in S
  <2>1. m + 1 \in 0 .. Depth /\ n \div pow2[m + 1] = (n \div pow2[m]) \div 2
        /\ n \div pow2[m] \in Nat
    <3>1. m \in 0 .. Depth /\ m + 1 \in 0 .. Depth /\ pow2[Depth - m] \in Nat
      BY Halves
    <3>2. n \div pow2[m] \in 0 .. pow2[Depth - m] - 1
      BY <1>1, <3>1, Positions
    <3>3. n \div pow2[m + 1] = (n \div pow2[m]) \div 2
      BY <1>1, Positions
    <3>4. QED
      BY <3>1, <3>2, <3>3
  <2>2. ASSUME NEW j \in 0 .. pow2[Depth - (m + 1)] - 1, j # n \div pow2[m + 1]
        PROVE  Nodes(new)[m + 1][j] = Nodes(tree)[m + 1][j]
    <3>1. j \in Nat
      BY Halves
    <3>2. 2 * j # n \div pow2[m] /\ 2 * j + 1 # n \div pow2[m]
      <4> DEFINE k == n \div pow2[m]
      <4>1. k \in Nat /\ j # k \div 2
        BY <2>1, <2>2
      <4> HIDE DEF k
      <4>2. 2 * j # k /\ 2 * j + 1 # k
        BY <3>1, <4>1
      <4>3. QED
        BY <4>2 DEF k
    <3>3. /\ 2 * j \in 0 .. pow2[Depth - m] - 1
          /\ 2 * j + 1 \in 0 .. pow2[Depth - m] - 1
          /\ Nodes(new)[m + 1][j] =
               Hash2(Nodes(new)[m][2 * j], Nodes(new)[m][2 * j + 1])
      BY <1>1, NodesHash
    <3>4. Len(tree) \in Nat
      BY <1>1 DEF n
    <3>5. Nodes(tree)[m + 1][j] =
            Hash2(Nodes(tree)[m][2 * j], Nodes(tree)[m][2 * j + 1])
      BY <3>4, NodesHash
    <3>6. Same(m)
      BY <1>3
    <3>7. QED
      BY <3>2, <3>3, <3>5, <3>6
  <2>3. QED
    BY <2>1, <2>2
<1>4. Same(l)
  <2> HIDE DEF S
  <2>1. 0 .. Depth \subseteq S
    BY <1>1, <1>2, <1>3, LevelInduction
  <2>2. QED
    BY <2>1 DEF S
<1>5. QED
  BY <1>4 DEF n, new

\* The frontier holds the left neighbour of every right node on the next path.
FrontierInv ==
  \A l \in Levels :
    PathBit(Len(leaves), l) = 1 =>
      filled[l] = Nodes(leaves)[l][Len(leaves) \div pow2[l] - 1]

\* The types, and what the contract has stored for the tree it stands for.
TreeInv ==
  /\ leaves \in Trees
  /\ nextidx = Len(leaves)
  /\ DOMAIN filled = Levels
  /\ FrontierInv
  /\ root = TreeRoot(leaves)

\* The siblings of the nodes above a leaf, and the hashes with them.
LEMMA PathNodes ==
  ASSUME NEW tree, Len(tree) \in Nat, NEW n \in 0 .. pow2[Depth] - 1,
         NEW l \in Levels
  PROVE  LET k == n \div pow2[l]
         IN  /\ k \in 0 .. pow2[Depth - l] - 1
             /\ PathBit(n, l) = k % 2
             /\ k % 2 = 0 =>
                  /\ k + 1 \in 0 .. pow2[Depth - l] - 1
                  /\ Nodes(tree)[l + 1][n \div pow2[l + 1]] =
                       Hash2(Nodes(tree)[l][k], Nodes(tree)[l][k + 1])
             /\ k % 2 # 0 =>
                  /\ k - 1 \in 0 .. pow2[Depth - l] - 1
                  /\ Nodes(tree)[l + 1][n \div pow2[l + 1]] =
                       Hash2(Nodes(tree)[l][k - 1], Nodes(tree)[l][k])
<1> DEFINE k == n \div pow2[l]
           j == n \div pow2[l + 1]
<1>1. /\ l \in 0 .. Depth - 1 /\ l \in 0 .. Depth /\ l + 1 \in 0 .. Depth
      /\ pow2[Depth - l] \in Nat
  BY Halves DEF Levels
<1>2. k \in 0 .. pow2[Depth - l] - 1 /\ j \in 0 .. pow2[Depth - (l + 1)] - 1
  BY <1>1, Positions
<1>3. k \in Nat /\ j = k \div 2
  BY <1>1, <1>2, Positions
<1>4. /\ 2 * j \in 0 .. pow2[Depth - l] - 1
      /\ 2 * j + 1 \in 0 .. pow2[Depth - l] - 1
      /\ Nodes(tree)[l + 1][j] =
           Hash2(Nodes(tree)[l][2 * j], Nodes(tree)[l][2 * j + 1])
  BY <1>1, <1>2, NodesHash
<1>5. PathBit(n, l) = k % 2
  BY DEF PathBit
<1> HIDE DEF k, j
<1>6. CASE k % 2 = 0
  <2>1. 2 * j = k
    BY <1>3, <1>6
  <2>2. QED
    BY <1>2, <1>4, <1>5, <1>6, <2>1 DEF k, j
<1>7. CASE k % 2 # 0
  <2>1. 2 * j = k - 1 /\ 2 * j + 1 = k
    BY <1>3, <1>7
  <2>2. QED
    BY <1>2, <1>4, <1>5, <1>7, <2>1 DEF k, j
<1>8. QED
  BY <1>6, <1>7

\* The function that has the nodes above leaf n is the only one that starts at
\* the leaf and hashes with the siblings at every level: a loop that does so
\* ends at the root.
LEMMA PathsClimb ==
  ASSUME NEW tree, Len(tree) \in Nat, NEW n \in 0 .. pow2[Depth] - 1,
         NEW f, f[0] = Bottom(tree, n),
         \A l \in Levels :
           f[l + 1] =
             IF PathBit(n, l) = 0
             THEN Hash2(f[l], Nodes(tree)[l][n \div pow2[l] + 1])
             ELSE Hash2(Nodes(tree)[l][n \div pow2[l] - 1], f[l])
  PROVE  \A l \in 0 .. Depth : f[l] = Nodes(tree)[l][n \div pow2[l]]
<1> DEFINE S == {l \in 0 .. Depth : f[l] = Nodes(tree)[l][n \div pow2[l]]}
<1>1. Depth \in Nat
  BY TreeAssumption DEF TreeParameters
<1>2. 0 \in S
  <2>1. n \div pow2[0] = n /\ Nodes(tree)[0][n] = Bottom(tree, n)
    BY Positions, NodesAre
  <2>2. QED
    BY <1>1, <2>1
<1>3. ASSUME NEW l \in 0 .. Depth - 1, l \in S PROVE l + 1 \in S
  <2>1. l \in Levels /\ l + 1 \in 0 .. Depth
    BY Halves DEF Levels
  <2>2. QED
    BY <1>3, <2>1, PathNodes
<1>4. QED
  <2> HIDE DEF S
  <2>1. 0 .. Depth \subseteq S
    BY <1>1, <1>2, <1>3, LevelInduction
  <2>2. QED
    BY <2>1 DEF S

\* The siblings that the contract hashes with are those of the grown tree:
\* on the right nothing yet, on the left what the frontier has.
LEMMA FrontierHasSiblings ==
  ASSUME TreeInv, NEW leaf \in Commitments, HasRoom(leaves), NEW l \in Levels
  PROVE  LET k == Len(leaves) \div pow2[l]
             new == Append(leaves, leaf)
         IN  IF PathBit(Len(leaves), l) = 0 THEN zeros[l] = Nodes(new)[l][k + 1]
             ELSE filled[l] = Nodes(new)[l][k - 1]
<1> DEFINE n == Len(leaves)
           k == n \div pow2[l]
           new == Append(leaves, leaf)
           p == pow2[l]
<1>1. /\ leaves \in Trees /\ n \in 0 .. pow2[Depth] - 1 /\ n \in Nat
      /\ Len(new) \in Nat /\ Len(new) = n + 1
  BY NextPlace DEF TreeInv
<1>2. l \in 0 .. Depth /\ p \in Nat \ {0} /\ pow2[Depth - l] \in Nat
  BY Halves DEF Levels
<1>3. /\ k \in 0 .. pow2[Depth - l] - 1
      /\ PathBit(n, l) = k % 2
      /\ k % 2 = 0 => k + 1 \in 0 .. pow2[Depth - l] - 1
      /\ k % 2 # 0 => k - 1 \in 0 .. pow2[Depth - l] - 1
  BY <1>1, PathNodes
<1>4. k \in Nat
  BY <1>2, <1>3
<1>5. CASE k % 2 = 0
  <2>1. (k + 1) * p >= n + 1
    BY <1>1, <1>2
  <2>2. zeros[l] = Nodes(new)[l][k + 1]
    BY <1>1, <1>2, <1>3, <1>5, <2>1, EmptyNodes
  <2>3. QED
    BY <1>3, <1>5, <2>2
<1>6. CASE k % 2 # 0
  <2>1. PathBit(n, l) = 1
    BY <1>3, <1>4, <1>6
  <2>2. filled[l] = Nodes(leaves)[l][k - 1]
    BY <2>1 DEF TreeInv, FrontierInv
  <2>3. k - 1 # k
    BY <1>4
  <2>4. Nodes(new)[l][k - 1] = Nodes(leaves)[l][k - 1]
    BY <1>1, <1>2, <1>3, <1>6, <2>3, AppendChangesItsPath
  <2>5. QED
    BY <2>1, <2>2, <2>4
<1>7. QED
  BY <1>5, <1>6

\* The loop of merkle_insert computes the nodes above the new leaf.
LEMMA ClimbIsThePath ==
  ASSUME TreeInv, NEW leaf \in Commitments, HasRoom(leaves)
  PROVE  \A l \in 0 .. Depth :
           Climb(leaf)[l] =
             Nodes(Append(leaves, leaf))[l][Len(leaves) \div pow2[l]]
<1> DEFINE n == Len(leaves)
           new == Append(leaves, leaf)
           Up(l, f) ==
             IF PathBit(n, l) = 0 THEN Hash2(f[l], zeros[l])
             ELSE Hash2(filled[l], f[l])
           Body(f) == [l \in 0 .. Depth |-> IF l = 0 THEN leaf ELSE Up(l - 1, f)]
           g == [l \in 0 .. Depth |-> Nodes(new)[l][n \div pow2[l]]]
<1>1. /\ n \in 0 .. pow2[Depth] - 1 /\ Len(new) \in Nat
      /\ Bottom(new, n) = leaf /\ Depth \in Nat
  BY NextPlace, TreeAssumption DEF TreeInv, TreeParameters
<1>2. n \div pow2[0] = n /\ Nodes(new)[0][n] = leaf
  BY <1>1, Positions, NodesAre
<1>3. ASSUME NEW l \in Levels PROVE g[l + 1] = Up(l, g)
  <2>1. l \in 0 .. Depth /\ l + 1 \in 0 .. Depth
    BY Halves DEF Levels
  <2>2. IF PathBit(n, l) = 0 THEN zeros[l] = Nodes(new)[l][n \div pow2[l] + 1]
        ELSE filled[l] = Nodes(new)[l][n \div pow2[l] - 1]
    BY FrontierHasSiblings
  <2> HIDE DEF n, new
  <2>3. QED
    BY <1>1, <2>1, <2>2, PathNodes
<1>4. g = Body(g)
  <2> HIDE DEF Up
  <2>1. ASSUME NEW l \in 0 .. Depth
        PROVE  g[l] = IF l = 0 THEN leaf ELSE Up(l - 1, g)
    <3>1. CASE l = 0
      BY <1>2, <3>1
    <3>2. CASE l # 0
      <4>1. l - 1 \in Levels /\ l - 1 + 1 = l
        BY <1>1, <3>2 DEF Levels
      <4> HIDE DEF g
      <4>2. QED
        BY <1>3, <3>2, <4>1
    <3>3. QED
      BY <3>1, <3>2
  <2>2. QED
    BY <2>1
<1> HIDE DEF g
<1>5. Climb(leaf) = Body(Climb(leaf))
  <2>1. Climb(leaf) = CHOOSE f : f = Body(f)
    BY DEF Climb, TreeInv
  <2> HIDE DEF Body
  <2>2. QED
    BY <1>4, <2>1
<1>6. Climb(leaf)[0] = leaf
  BY <1>1, <1>5
<1>7. ASSUME NEW l \in Levels PROVE Climb(leaf)[l + 1] = Up(l, Climb(leaf))
  <2> DEFINE cur == Climb(leaf)
  <2>1. l \in Int /\ l + 1 \in 0 .. Depth /\ l + 1 # 0 /\ l + 1 - 1 = l
    BY <1>1 DEF Levels
  <2>2. cur = Body(cur)
    BY <1>5
  <2> HIDE DEF Up, cur
  <2>3. \A m \in 0 .. Depth : cur[m] = IF m = 0 THEN leaf ELSE Up(m - 1, cur)
    BY <2>2
  <2>4. \A m \in 0 .. Depth : m - 1 = l => cur[m] = Up(l, cur)
    BY <2>1, <2>3
  <2>5. QED
    BY <2>1, <2>4 DEF cur
<1>8. \A l \in Levels :
        Climb(leaf)[l + 1] =
          IF PathBit(n, l) = 0
          THEN Hash2(Climb(leaf)[l], Nodes(new)[l][n \div pow2[l] + 1])
          ELSE Hash2(Nodes(new)[l][n \div pow2[l] - 1], Climb(leaf)[l])
  BY <1>7, FrontierHasSiblings
<1> HIDE DEF n, new
<1>9. \A l \in 0 .. Depth : Climb(leaf)[l] = Nodes(new)[l][n \div pow2[l]]
  BY <1>1, <1>6, <1>8, PathsClimb
<1>10. QED
  BY <1>9 DEF n, new

\* An insertion leaves the frontier of the grown tree.
LEMMA FrontierStep ==
  ASSUME TreeInv, NEW leaf \in Commitments, MerkleInsert(leaf)
  PROVE  FrontierInv'
<1> DEFINE n == Len(leaves)
           new == Append(leaves, leaf)
<1>1. HasRoom(leaves) /\ leaves \in Trees /\ nextidx = n /\ leaves' = new
  BY DEF MerkleInsert, TreeInv, HasRoom
<1>2. /\ n \in Nat /\ n \in 0 .. pow2[Depth] - 1 /\ Len(new) = n + 1
      /\ Len(new) \in Nat
  BY <1>1, NextPlace
<1> HIDE DEF n, new
<1> SUFFICES ASSUME NEW l \in Levels, PathBit(n + 1, l) = 1
             PROVE  filled'[l] = Nodes(new)[l][(n + 1) \div pow2[l] - 1]
  BY <1>1, <1>2 DEF FrontierInv, PathBit
<1> DEFINE p == pow2[l]
           k == n \div p
           kk == (n + 1) \div p
<1>3. l \in 0 .. Depth /\ p \in Nat \ {0} /\ pow2[Depth - l] \in Nat
  BY Halves DEF Levels
<1>4. k \in Nat /\ kk \in {k, k + 1}
  <2>1. ASSUME NEW q \in Nat \ {0}
        PROVE  n \div q \in Nat /\ (n + 1) \div q \in {n \div q, n \div q + 1}
    BY <1>2
  <2>2. QED
    BY <1>3, <2>1
<1>5. PathBit(n, l) = k % 2 /\ kk % 2 = 1
  BY DEF PathBit
<1>6. filled'[l] = IF PathBit(n, l) = 0 THEN Climb(leaf)[l] ELSE filled[l]
  BY <1>1 DEF MerkleInsert
<1> HIDE DEF k, kk
<1>7. CASE k % 2 = 0
  <2>1. kk - 1 = k
    BY <1>4, <1>5, <1>7
  <2>2. Climb(leaf)[l] = Nodes(new)[l][k]
    BY <1>1, <1>3, ClimbIsThePath DEF n, new, k
  <2>3. QED
    BY <1>5, <1>6, <1>7, <2>1, <2>2 DEF kk
<1>8. CASE k % 2 # 0
  <2>1. kk = k /\ PathBit(n, l) # 0
    BY <1>4, <1>5, <1>8
  <2>2. filled[l] = Nodes(new)[l][k - 1]
    BY <1>1, <2>1, FrontierHasSiblings DEF n, new, k
  <2>3. QED
    BY <1>6, <2>1, <2>2 DEF kk
<1>9. QED
  BY <1>7, <1>8

\* An insertion keeps what the contract has stored in step with its leaves.
LEMMA InsertKeepsInv ==
  ASSUME TreeInv, NEW leaf \in Commitments, MerkleInsert(leaf)
  PROVE  TreeInv'
<1>1. HasRoom(leaves) /\ leaves \in Trees /\ leaves' = Append(leaves, leaf)
  BY DEF MerkleInsert, TreeInv, HasRoom
<1>2. leaves' \in Trees /\ nextidx' = Len(leaves')
  BY <1>1, NextPlace DEF MerkleInsert, TreeInv
<1>3. DOMAIN filled' = Levels
  BY DEF MerkleInsert
<1>4. root' = TreeRoot(leaves')
  <2>1. Depth \in 0 .. Depth
    BY TreeAssumption DEF TreeParameters
  <2>2. Len(leaves) \div pow2[Depth] = 0
    BY <1>1, NextPlace, Positions
  <2>3. Climb(leaf)[Depth] = Nodes(leaves')[Depth][0]
    BY <1>1, <2>1, <2>2, ClimbIsThePath
  <2>4. QED
    BY <2>3 DEF MerkleInsert, TreeRoot
<1>5. QED
  BY <1>2, <1>3, <1>4, FrontierStep DEF TreeInv, TreeRoot

\* Of an empty tree every path bit of the next index is 0.
LEMMA InitInv == Init => TreeInv
<1> SUFFICES ASSUME Init PROVE TreeInv
  OBVIOUS
<1>1. leaves \in Trees /\ Len(leaves) = 0 /\ Capacity \in Nat /\ Depth \in Nat
  BY TreeAssumption, PowersOfTwo DEF Init, Trees, Capacity, TreeParameters
<1>2. FrontierInv
  <2> SUFFICES ASSUME NEW l \in Levels PROVE PathBit(0, l) # 1
    BY <1>1 DEF FrontierInv
  <2>1. pow2[l] \in Nat \ {0}
    BY Halves DEF Levels
  <2>2. 0 \div pow2[l] = 0
    BY <2>1
  <2>3. QED
    BY <2>2 DEF PathBit
<1>3. root = TreeRoot(leaves)
  <2>1. Depth \in 0 .. Depth /\ pow2[Depth - Depth] = 1 /\ pow2[Depth] \in Nat
    BY <1>1, PowersOfTwo
  <2>2. Nodes(leaves)[Depth][0] = zeros[Depth]
    BY <1>1, <2>1, EmptyNodes
  <2>3. QED
    BY <2>2 DEF Init, TreeRoot
<1>4. QED
  BY <1>1, <1>2, <1>3 DEF TreeInv, Init

\* The invariant, from the insertion that keeps it.
LEMMA TreeInvariant == Spec => []TreeInv
<1>1. TreeInv /\ [Next]_vars => TreeInv'
  <2>1. ASSUME TreeInv, UNCHANGED vars PROVE TreeInv'
    BY <2>1 DEF TreeInv, FrontierInv, vars
  <2>2. QED
    BY <2>1, InsertKeepsInv DEF Next
<1>2. QED
  BY <1>1, InitInv, PTL DEF Spec

-----------------------------------------------------------------------------
(* The theorems.                                                           *)

(***************************************************************************)
(* The types: the next index never passes the capacity, whatever the depth *)
(* of the tree, and the frontier has one node per level.                   *)
(***************************************************************************)
THEOREM TreeTypeCorrect == Spec => []TypeOK
<1>1. TreeInv => TypeOK
  BY DEF TreeInv, TypeOK, Trees
<1>2. QED
  BY <1>1, TreeInvariant, PTL

(***************************************************************************)
(* At every depth and after any insertions, the root that the contract     *)
(* computed from one stored node per level is that of the whole padded     *)
(* tree, and so is the root that the browser computes from the leaves.     *)
(***************************************************************************)
THEOREM TreeRootOfTheWhole == Spec => []RootOfTheWholeTree
<1>1. TreeInv => RootOfTheWholeTree
  <2> SUFFICES ASSUME TreeInv PROVE RootOfTheWholeTree
    OBVIOUS
  <2>1. Len(leaves) \in Nat
    BY DEF TreeInv, Trees
  <2>2. QED
    BY <2>1, FullTreeIsNodes DEF TreeInv, RootOfTheWholeTree
<1>2. QED
  BY <1>1, TreeInvariant, PTL

\* The circuit folds the browser's path of any leaf to the root of its tree.
LEMMA PathFolds ==
  ASSUME NEW tree \in Trees, NEW n \in 0 .. Len(tree) - 1
  PROVE  MerkleProof(tree[n + 1], n, Siblings(tree, n)) = TreeRoot(tree)
<1> DEFINE leaf == tree[n + 1]
           siblings == Siblings(tree, n)
           Up(l, f) == IF PathBit(n, l) = 0 THEN Hash2(f[l], siblings[l])
                       ELSE Hash2(siblings[l], f[l])
           Body(f) == [l \in 0 .. Depth |-> IF l = 0 THEN leaf ELSE Up(l - 1, f)]
           g == [l \in 0 .. Depth |-> Nodes(tree)[l][n \div pow2[l]]]
           nodes == CHOOSE f : f = Body(f)
<1>1. /\ Depth \in Nat /\ Len(tree) \in Nat /\ n \in 0 .. pow2[Depth] - 1
      /\ Bottom(tree, n) = leaf
  <2>1. /\ Len(tree) \in Nat /\ Depth \in Nat
        /\ pow2[Depth] \in Nat /\ Len(tree) <= pow2[Depth]
    BY TreeAssumption, PowersOfTwo DEF Trees, Capacity, TreeParameters
  <2>2. QED
    BY <2>1 DEF Bottom
<1>2. n \div pow2[0] = n /\ Nodes(tree)[0][n] = leaf
  BY <1>1, Positions, NodesAre
<1>3. ASSUME NEW l \in Levels
      PROVE  siblings[l] =
               IF PathBit(n, l) = 0 THEN Nodes(tree)[l][n \div pow2[l] + 1]
               ELSE Nodes(tree)[l][n \div pow2[l] - 1]
  BY DEF Siblings, Sibling, PathBit
<1> HIDE DEF siblings, leaf
<1>4. ASSUME NEW l \in Levels PROVE g[l + 1] = Up(l, g)
  <2>1. l \in 0 .. Depth /\ l + 1 \in 0 .. Depth
    BY Halves DEF Levels
  <2>2. g[l] = Nodes(tree)[l][n \div pow2[l]]
        /\ g[l + 1] = Nodes(tree)[l + 1][n \div pow2[l + 1]]
    BY <2>1
  <2> HIDE DEF g
  <2>3. Nodes(tree)[l + 1][n \div pow2[l + 1]] =
          IF PathBit(n, l) = 0
          THEN Hash2(Nodes(tree)[l][n \div pow2[l]],
                     Nodes(tree)[l][n \div pow2[l] + 1])
          ELSE Hash2(Nodes(tree)[l][n \div pow2[l] - 1],
                     Nodes(tree)[l][n \div pow2[l]])
    BY <1>1, PathNodes
  <2>4. QED
    BY <1>3, <2>2, <2>3
<1>5. g = Body(g)
  <2> HIDE DEF Up
  <2>1. ASSUME NEW l \in 0 .. Depth
        PROVE  g[l] = IF l = 0 THEN leaf ELSE Up(l - 1, g)
    <3>1. CASE l = 0
      BY <1>2, <3>1
    <3>2. CASE l # 0
      <4>1. l - 1 \in Levels /\ l - 1 + 1 = l
        BY <1>1, <3>2 DEF Levels
      <4> HIDE DEF g
      <4>2. QED
        BY <1>4, <3>2, <4>1
    <3>3. QED
      BY <3>1, <3>2
  <2>2. QED
    BY <2>1
<1> HIDE DEF g
<1>6. nodes = Body(nodes)
  <2> HIDE DEF Body
  <2>1. QED
    BY <1>5
<1>7. MerkleProof(leaf, n, siblings) = nodes[Depth]
  BY DEF MerkleProof
<1> HIDE DEF nodes
<1>8. nodes[0] = leaf
  BY <1>1, <1>6
<1>9. ASSUME NEW l \in Levels PROVE nodes[l + 1] = Up(l, nodes)
  <2>1. l \in Int /\ l + 1 \in 0 .. Depth /\ l + 1 # 0 /\ l + 1 - 1 = l
    BY <1>1 DEF Levels
  <2> HIDE DEF Up
  <2>2. \A m \in 0 .. Depth : nodes[m] = IF m = 0 THEN leaf ELSE Up(m - 1, nodes)
    BY <1>6
  <2>3. \A m \in 0 .. Depth : m - 1 = l => nodes[m] = Up(l, nodes)
    BY <2>1, <2>2
  <2>4. QED
    BY <2>1, <2>3
<1>10. \A l \in 0 .. Depth : nodes[l] = Nodes(tree)[l][n \div pow2[l]]
  BY <1>1, <1>3, <1>8, <1>9, PathsClimb
<1>11. nodes[Depth] = Nodes(tree)[Depth][0]
  <2>1. Depth \in 0 .. Depth /\ n \div pow2[Depth] = 0
    BY <1>1, Positions
  <2>2. QED
    BY <1>10, <2>1
<1>12. QED
  BY <1>7, <1>11 DEF TreeRoot, leaf, siblings

\* findIndex gives the index of a leaf of the tree.
LEMMA IndexOfIs ==
  ASSUME NEW tree \in Trees, NEW leaf \in Range(tree)
  PROVE  /\ IndexOf(tree, leaf) \in 0 .. Len(tree) - 1
         /\ tree[IndexOf(tree, leaf) + 1] = leaf
<1> DEFINE Found == {i \in 0 .. Len(tree) - 1 : tree[i + 1] = leaf}
           Smaller == OpToRel(<, Nat)
<1> HIDE DEF Smaller
<1>1. Len(tree) \in Nat /\ Found \subseteq Nat
  BY DEF Trees
<1>2. Found # {}
  <2>1. PICK i \in 1 .. Len(tree) : tree[i] = leaf
    BY DEF Range, Trees
  <2>2. i - 1 \in Found
    BY <1>1, <2>1
  <2>3. QED
    BY <2>2
<1>3. PICK i \in Found : \A j \in Found : ~(<<j, i>> \in Smaller)
  <2>1. IsWellFoundedOn(Smaller, Nat)
    BY NatLessThanWellFounded DEF Smaller
  <2> HIDE DEF Found
  <2>2. QED
    BY <1>1, <1>2, <2>1, WFMin
<1>4. \A j \in 0 .. i - 1 : tree[j + 1] # leaf
  <2> SUFFICES ASSUME NEW j \in 0 .. i - 1, tree[j + 1] = leaf PROVE FALSE
    OBVIOUS
  <2>1. j \in Found /\ j < i /\ j \in Nat /\ i \in Nat
    BY <1>1
  <2>2. <<j, i>> \in Smaller
    BY <2>1 DEF OpToRel, Smaller
  <2>3. QED
    BY <1>3, <2>1, <2>2
<1>5. i \in 0 .. Len(tree) - 1 /\ tree[i + 1] = leaf
  OBVIOUS
<1>6. QED
  BY <1>4, <1>5 DEF IndexOf

(***************************************************************************)
(* Any leaf can be proved at any depth: the path made by the browser folds *)
(* in the circuit to the root that the contract holds, for the leaf at an  *)
(* index and for the first leaf that is a given commitment.                *)
(***************************************************************************)
THEOREM TreePathsVerify == Spec => []PathsVerify
<1>1. TreeInv => PathsVerify
  BY PathFolds, IndexOfIs DEF TreeInv, PathsVerify
<1>2. QED
  BY <1>1, TreeInvariant, PTL

\* Trees that differ in a leaf differ in every node above it.
LEMMA RootsDiffer ==
  ASSUME NEW a, NEW b, Len(a) \in Nat, Len(b) \in Nat,
         NEW n \in 0 .. pow2[Depth] - 1, Bottom(a, n) # Bottom(b, n)
  PROVE  TreeRoot(a) # TreeRoot(b)
<1> DEFINE S == {l \in 0 .. Depth :
                   Nodes(a)[l][n \div pow2[l]] # Nodes(b)[l][n \div pow2[l]]}
<1>1. Depth \in Nat
  BY TreeAssumption DEF TreeParameters
<1>2. 0 \in S
  <2>1. /\ n \div pow2[0] = n
        /\ Nodes(a)[0][n] = Bottom(a, n) /\ Nodes(b)[0][n] = Bottom(b, n)
    BY Positions, NodesAre
  <2>2. QED
    BY <1>1, <2>1
<1>3. ASSUME NEW l \in 0 .. Depth - 1, l \in S PROVE l + 1 \in S
  <2> DEFINE k == n \div pow2[l]
             A == Nodes(a)
             B == Nodes(b)
  <2>1. l \in Levels /\ l + 1 \in 0 .. Depth
    BY Halves DEF Levels
  <2>2. A[l][k] # B[l][k]
    BY <1>3
  <2>3. /\ k % 2 = 0 => /\ A[l + 1][n \div pow2[l + 1]] = <<A[l][k], A[l][k + 1]>>
                        /\ B[l + 1][n \div pow2[l + 1]] = <<B[l][k], B[l][k + 1]>>
        /\ k % 2 # 0 => /\ A[l + 1][n \div pow2[l + 1]] = <<A[l][k - 1], A[l][k]>>
                        /\ B[l + 1][n \div pow2[l + 1]] = <<B[l][k - 1], B[l][k]>>
    BY <2>1, PathNodes DEF Hash2
  <2> HIDE DEF k, A, B
  <2>4. A[l + 1][n \div pow2[l + 1]] # B[l + 1][n \div pow2[l + 1]]
    BY <2>2, <2>3
  <2>5. QED
    BY <2>1, <2>4 DEF A, B
<1>4. Depth \in S
  <2> HIDE DEF S
  <2>1. 0 .. Depth \subseteq S
    BY <1>1, <1>2, <1>3, LevelInduction
  <2>2. QED
    BY <1>1, <2>1
<1>5. QED
  BY <1>4, Positions DEF TreeRoot

(***************************************************************************)
(* A root names one tree, at any depth: of the trees this one grew out of, *)
(* none had its root, so that a root found among the recent ones stands    *)
(* for the leaves it was computed from.                                    *)
(***************************************************************************)
THEOREM TreeRootsName == Spec => []RootsNameTrees
<1>1. TreeInv => RootsNameTrees
  <2> SUFFICES ASSUME TreeInv, NEW n \in 0 .. Len(leaves) - 1
               PROVE  FullTree(SubSeq(leaves, 1, n)) # root
    BY DEF RootsNameTrees
  <2> DEFINE old == SubSeq(leaves, 1, n)
  <2>1. /\ leaves \in Seq(Commitments) /\ Len(leaves) \in Nat /\ n \in Nat
        /\ Len(leaves) <= pow2[Depth] /\ pow2[Depth] \in Nat
    BY TreeAssumption, PowersOfTwo DEF TreeInv, Trees, Capacity, TreeParameters
  <2>2. Len(old) = n
    BY <2>1
  <2>3. Bottom(old, n) = Zero /\ Bottom(leaves, n) = leaves[n + 1]
    BY <2>1, <2>2 DEF Bottom
  <2>4. leaves[n + 1] \in Commitments
    BY <2>1
  <2>5. Bottom(old, n) # Bottom(leaves, n)
    BY <2>3, <2>4, TreeAssumption DEF TreeParameters
  <2>6. n \in 0 .. pow2[Depth] - 1
    BY <2>1
  <2> HIDE DEF old
  <2>7. TreeRoot(old) # TreeRoot(leaves) /\ FullTree(old) = TreeRoot(old)
    BY <2>1, <2>2, <2>5, <2>6, RootsDiffer, FullTreeIsNodes
  <2>8. QED
    BY <2>7 DEF TreeInv, old
<1>2. QED
  BY <1>1, TreeInvariant, PTL
=============================================================================
