-------------------------- MODULE MCCommitmentTree --------------------------
(***************************************************************************)
(* Every sequence of insertions of two commitments into a tree of eight    *)
(* leaves: each path bit pattern of three levels, equal leaves included.   *)
(***************************************************************************)
EXTENDS CommitmentTree, TLC

CONSTANTS c1, c2   \* commitments

MCCommitments == {c1, c2}
=============================================================================
