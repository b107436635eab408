------------------------------ MODULE MCLibrary ------------------------------
(***************************************************************************)
(* A small instance of Library.                                            *)
(***************************************************************************)
EXTENDS Library, TLC

CONSTANTS
  r1, r2, r3,        \* runs of updateAssociation
  la, lb, lc,        \* labels
  x, y               \* leaves of the tree

\* Tabs, keys and calls are alike.
Alike == Permutations(Tabs) \cup Permutations(Keys) \cup Permutations(Calls)

MCRuns == {r1, r2, r3}
MCLabels == {la, lb, lc}
MCCommitments == {x, y}

MC_POSEIDON_C(t, i) == (5 * t + 7 * i + 3) % 37
MC_POSEIDON_M(t, r, c) == (t + 3 * r + 5 * c * c) % 37

MCNullifiers == {Nil}

-----------------------------------------------------------------------------
(* The inputs of the conversions, over a field of order 37 whose scalars   *)
(* take three bytes of base 4, the 128 bits two of them, and amounts of    *)
(* two decimals.                                                           *)

Note(value) == [nullifier |-> Nil, value |-> value]

\* A point with all its coordinates different, and another for each seed.
G1At(seed) == <<seed % 16, (seed + 1) % 16>>
G2At(seed) == <<G1At(seed), G1At(seed + 2)>>

Scalars == {[kind |-> "scalar", x |-> i] : i \in -80 .. 80}

Digests == {[kind |-> "bytes", bytes |-> b] : b \in [1 .. 3 -> 0 .. 3]}

Hashes ==
  {[kind |-> "hash", elements |-> e] :
     e \in UNION {[1 .. n -> {-1, 0, 1, 36, 40}] : n \in 1 .. 3}}

VerifyingKeys ==
  {[kind |-> "key", key |->
      [alpha |-> G1At(s), beta |-> G2At(s + 2), gamma |-> G2At(s + 6),
       delta |-> G2At(s + 10), ic |-> [i \in 1 .. n |-> G1At(s + 3 * i)]]] :
     s \in 0 .. 15, n \in 0 .. 5}

Proofs ==
  {[kind |-> "proof", proof |->
      [a |-> G1At(s), b |-> G2At(s + 2), c |-> G1At(s + 6)]] : s \in 0 .. 15}

PublicSignals ==
  {[kind |-> "signals", signals |-> s] :
     s \in UNION {[1 .. n -> {0, 3, 16, 36}] : n \in 0 .. 3}}

Amounts == {[kind |-> "amount", units |-> i] : i \in 0 .. 320}

Typed ==
  {[kind |-> "typed", text |-> [whole |-> w, frac |-> f]] :
     w \in {0, 7, 10}, f \in UNION {[1 .. n -> {0, 1, 5, 9}] : n \in 0 .. 3}}

Payments ==
  {[kind |-> "payment", note |-> Note(v), tree |-> tree, pay |-> p] :
     v \in 0 .. 7, tree \in {<<Note(v)>> : v \in 0 .. 7}, p \in -8 .. 8}

MCInputs ==
  UNION {Scalars, Digests, Hashes, VerifyingKeys, Proofs, PublicSignals,
         Amounts, Typed, Payments}
=============================================================================
