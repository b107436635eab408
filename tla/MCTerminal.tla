----------------------------- MODULE MCTerminal -----------------------------
(***************************************************************************)
(* One wallet, one other user, and a few calls.                            *)
(***************************************************************************)
EXTENDS Terminal, TLC

CONSTANTS n1, n2, nx      \* nullifiers: the wallet's two and another's
CONSTANTS alice, bob      \* the wallet and the other user
CONSTANTS c1, c2, c3      \* calls

MCNullifiers == {n1, n2, nx}
MCWalletNullifiers == {n1, n2}
MCAccounts == {alice, bob}
TwoCalls == {c1, c2}
ThreeCalls == {c1, c2, c3}
MCAmounts == {0, 1}
MCApprovalRoots == {<< >>}

Symmetry == Permutations(MCWalletNullifiers) \cup Permutations(ThreeCalls)
=============================================================================
