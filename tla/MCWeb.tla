-------------------------------- MODULE MCWeb --------------------------------
(***************************************************************************)
(* A small instance of Web.                                                *)
(***************************************************************************)
EXTENDS Web, TLC

CONSTANTS
  n1, n2, n3    \* the wallet's notes, two, and another's

MCNotes == {n1}
MCNullifiers == {n1, n2, n3}
MCMine == {n1, n2}

\* The authority pins the empty set or one with a note of the wallet.
MCApprovalRoots == {<< >>, <<[nullifier |-> n1, value |-> 1]>>}

MCChapters == <<"overview", "circuits", "terminal">>
=============================================================================
