--------------------------- MODULE MCShieldedPool ---------------------------
(***************************************************************************)
(* Small instances of ShieldedPool.  The sizes keep the order of the real  *)
(* ones: i128 below the 128-bit range check, two ranges within the field.  *)
(***************************************************************************)
EXTENDS ShieldedPool, TLC

CONSTANTS n1, n2, n3    \* nullifiers

MCNullifiers == {n1, n2, n3}

\* Invalid amounts and valid ones.
MCAmounts == {-1, 0, 1, 2}

Pairs(values) ==
  {<<[nullifier |-> n, value |-> v[1]], [nullifier |-> m, value |-> v[2]]>> :
     n \in MCNullifiers, m \in MCNullifiers, v \in values}

\* Splits of 0, 1 and 2 with and without change, a sum that wraps in the
\* field to 1, and a sum that is too large.
MCOutputPairs ==
  Pairs({<<0, 0>>, <<1, 0>>, <<1, 1>>, <<0, 2>>, <<5, 2>>, <<2, 2>>})

\* One split of 1 and one of 2.
FewOutputPairs == Pairs({<<1, 0>>, <<1, 1>>})

NoApprovedSet == {<< >>}

\* The empty set and the sets of one note worth 1.
MCApprovalRoots ==
  {<< >>} \cup {<<[nullifier |-> n, value |-> 1]>> : n \in MCNullifiers}

Symmetry == Permutations(MCNullifiers)
=============================================================================
