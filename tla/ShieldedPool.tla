---------------------------- MODULE ShieldedPool ----------------------------
(***************************************************************************)
(* The shielded-pool contract (contracts/shielded-pool/src/lib.rs): every  *)
(* entry point that changes state, in any order and from any caller, with  *)
(* the early returns in the order the code takes them.                     *)
(*                                                                         *)
(* A transaction may have been built long before it is executed, and any   *)
(* number of them may be pending or be submitted twice.  So a call is not  *)
(* tied to the state it is executed in: its signals name any root the tree *)
(* ever went through, and any nullifier, spent or not.                     *)
(*                                                                         *)
(* The host executes one transaction at a time and discards every write of *)
(* one that fails.  The tree is the sequence of its leaves and a root is   *)
(* the sequence below it; CommitmentTree models how merkle_insert computes *)
(* roots from the frontier.                                                *)
(***************************************************************************)
EXTENDS Circuits, FiniteSets

CONSTANTS
  Accounts,         \* the addresses that hold the pool's token
  Funds,            \* what each account holds at deployment
  Capacity,         \* 2^TREE_DEPTH, the number of leaves
  RootHistorySize,  \* ROOT_HISTORY_SIZE
  Amounts,          \* the amounts passed to deposit and sent by donations
  OutputPairs,      \* the pairs of output notes transfers are built with
  ApprovalRoots     \* the sets an authority may curate, as sequences of notes

PoolParameters ==
  /\ Funds \in Nat
  /\ Capacity \in Nat
  /\ RootHistorySize \in Nat \ {0}
  /\ Amounts \subseteq Int
  /\ \A a \in Amounts : a <= I128Max
  /\ OutputPairs \subseteq Note \X Note
  /\ ApprovalRoots \subseteq Seq(Note)

ASSUME PoolAssumption == PoolParameters

VARIABLES
  leaves,      \* LEAVES_KEY: the commitments, in insertion order
  roots,       \* ROOTS_KEY: the recent roots, oldest first
  nullifiers,  \* NULL_KEY entries: the nullifiers spent
  approot,     \* APPROOT_KEY: the pinned approved-set root
  escrow,      \* the contract's token balance
  wallet       \* the token balance of every account

contract == <<leaves, roots, nullifiers, approot>>
tokens == <<escrow, wallet>>
vars == <<contract, tokens>>

EmptyRoot == << >>

-----------------------------------------------------------------------------
(* The early returns of a call: the checks it makes, in order.             *)

Check(holds, error) == [holds |-> holds, error |-> error]

\* The code of the first check that fails, or Ok.
Outcome(checks) ==
  LET failed == {i \in DOMAIN checks : ~checks[i].holds}
  IN  IF failed = {} THEN "Ok"
      ELSE checks[CHOOSE i \in failed : \A j \in failed : i <= j].error

\* The call returns Ok; of any other the host keeps no write.
Succeeds(checks) == Outcome(checks) = "Ok"

RootIsKnown(root) == \E i \in DOMAIN roots : roots[i] = root

HasRoom(tree) == Len(tree) < Capacity

MerkleInsert(tree, leaf) == Append(tree, leaf)

\* Fault: the window is trimmed one root too early (>= for >).
RecordRootTrimsEarly(root) ==
  LET pushed == Append(roots, root)
  IN  IF Len(pushed) >= RootHistorySize THEN Tail(pushed) ELSE pushed

\* Fault: the window is never trimmed.
RecordRootUntrimmed(root) == Append(roots, root)

RecordRoot(root) ==
  LET pushed == Append(roots, root)
  IN  IF Len(pushed) > RootHistorySize THEN Tail(pushed) ELSE pushed

-----------------------------------------------------------------------------
(* Entry points.                                                           *)

Init ==
  /\ leaves = << >>
  /\ roots = <<EmptyRoot>>
  /\ nullifiers = {}
  /\ approot \in ApprovalRoots
  /\ escrow = 0
  /\ wallet = [a \in Accounts |-> Funds]

\* The token contract traps when the sender cannot pay.
DepositChecks(from, amount) ==
  << Check(amount > 0, "NonPositiveAmount"),
     Check(amount <= wallet[from], "TokenTrap"),
     Check(HasRoom(leaves), "TreeAtCapacity") >>

Deposit(from, amount, nullifier) ==
  LET note == [nullifier |-> nullifier, value |-> amount]
  IN  /\ Succeeds(DepositChecks(from, amount))
      /\ wallet' = [wallet EXCEPT ![from] = @ - amount]
      /\ escrow' = escrow + amount
      /\ leaves' = MerkleInsert(leaves, note)
      /\ roots' = RecordRoot(leaves')
      /\ UNCHANGED <<nullifiers, approot>>

\* Fault: the nullifier is spent but was never looked up.
WithdrawChecksNoReuse(to, sig) ==
  << Check(RootIsKnown(sig.stateRoot), "StaleRoot"),
     Check(sig.recipient = to, "RecipientMismatch"),
     Check(WithdrawCircuit(sig), "BadProof"),
     Check(sig.withdrawnValue <= I128Max, "ValueOverflow"),
     Check(sig.withdrawnValue <= escrow, "InsufficientBalance") >>

WithdrawChecks(to, sig) ==
  << Check(RootIsKnown(sig.stateRoot), "StaleRoot"),
     Check(sig.recipient = to, "RecipientMismatch"),
     Check(sig.nullifierHash \notin nullifiers, "NullifierUsed"),
     Check(WithdrawCircuit(sig), "BadProof"),
     Check(sig.withdrawnValue <= I128Max, "ValueOverflow"),
     Check(sig.withdrawnValue <= escrow, "InsufficientBalance") >>

Withdraw(to, sig) ==
  /\ Succeeds(WithdrawChecks(to, sig))
  /\ nullifiers' = nullifiers \cup {sig.nullifierHash}
  /\ escrow' = escrow - sig.withdrawnValue
  /\ wallet' = [wallet EXCEPT ![to] = @ + sig.withdrawnValue]
  /\ UNCHANGED <<leaves, roots, approot>>

\* Each output is checked for room where it is inserted, after the nullifier.
TransferChecks(sig) ==
  << Check(RootIsKnown(sig.stateRoot), "StaleRoot"),
     Check(sig.nullifierHash \notin nullifiers, "NullifierUsed"),
     Check(TransferCircuit(sig), "BadProof"),
     Check(HasRoom(leaves), "TreeAtCapacity"),
     Check(HasRoom(MerkleInsert(leaves, sig.out0)), "TreeAtCapacity") >>

\* Fault: the root after the first output is recorded, not the final one.
TransferRecordsFirst(sig) ==
  /\ Succeeds(TransferChecks(sig))
  /\ nullifiers' = nullifiers \cup {sig.nullifierHash}
  /\ leaves' = MerkleInsert(MerkleInsert(leaves, sig.out0), sig.out1)
  /\ roots' = RecordRoot(MerkleInsert(leaves, sig.out0))
  /\ UNCHANGED <<approot, tokens>>

\* Fault: the new root is not recorded.
TransferUnrecorded(sig) ==
  /\ Succeeds(TransferChecks(sig))
  /\ nullifiers' = nullifiers \cup {sig.nullifierHash}
  /\ leaves' = MerkleInsert(MerkleInsert(leaves, sig.out0), sig.out1)
  /\ UNCHANGED <<roots, approot, tokens>>

Transfer(sig) ==
  /\ Succeeds(TransferChecks(sig))
  /\ nullifiers' = nullifiers \cup {sig.nullifierHash}
  /\ leaves' = MerkleInsert(MerkleInsert(leaves, sig.out0), sig.out1)
  /\ roots' = RecordRoot(leaves')
  /\ UNCHANGED <<approot, tokens>>

\* Fault: only the pinned set is recognised.
MembershipChecksPinnedOnly(sig) ==
  << Check(RootIsKnown(sig.stateRoot), "StaleRoot"),
     Check(sig.approvalRoot = approot, "ApprovalRootMismatch"),
     Check(MembershipCircuit(sig), "BadProof") >>

\* Fault: the state root is not looked up among the recent ones.
MembershipChecksUnanchored(sig) ==
  << Check(sig.approvalRoot = approot \/ RootIsKnown(sig.approvalRoot),
           "ApprovalRootMismatch"),
     Check(MembershipCircuit(sig), "BadProof") >>

MembershipChecks(sig) ==
  << Check(RootIsKnown(sig.stateRoot), "StaleRoot"),
     Check(sig.approvalRoot = approot \/ RootIsKnown(sig.approvalRoot),
           "ApprovalRootMismatch"),
     Check(MembershipCircuit(sig), "BadProof") >>

\* Accepted or not, the call writes nothing.
VerifyMembership(sig) == Succeeds(MembershipChecks(sig)) /\ UNCHANGED vars

\* Authorised by the admin address alone.
SetApprovalRoot(root) ==
  /\ approot' = root
  /\ UNCHANGED <<leaves, roots, nullifiers, tokens>>

\* A plain token transfer to the contract's address, outside the contract.
Donate(from, amount) ==
  /\ amount \in 1 .. wallet[from]
  /\ wallet' = [wallet EXCEPT ![from] = @ - amount]
  /\ escrow' = escrow + amount
  /\ UNCHANGED contract

-----------------------------------------------------------------------------

\* Every root a proof can have been built on: the tree at any time up to now.
Snapshots == {SubSeq(leaves, 1, n) : n \in 0 .. Len(leaves)} \cup ApprovalRoots

WithdrawSignals ==
  [nullifierHash : Nullifiers, withdrawnValue : Field,
   stateRoot : Snapshots, recipient : Accounts]

TransferSignal(nullifier, outs, root) ==
  [nullifierHash |-> nullifier, out0 |-> outs[1], out1 |-> outs[2],
   stateRoot |-> root]

MembershipSignals == [stateRoot : Snapshots, approvalRoot : Snapshots]

Next ==
  \/ \E from \in Accounts, amount \in Amounts, nullifier \in Nullifiers :
       Deposit(from, amount, nullifier)
  \/ \E to \in Accounts, sig \in WithdrawSignals : Withdraw(to, sig)
  \/ \E nullifier \in Nullifiers, outs \in OutputPairs, root \in Snapshots :
       Transfer(TransferSignal(nullifier, outs, root))
  \/ \E sig \in MembershipSignals : VerifyMembership(sig)
  \/ \E root \in ApprovalRoots : SetApprovalRoot(root)
  \/ \E from \in Accounts, amount \in Amounts : Donate(from, amount)

Spec == Init /\ [][Next]_vars

-----------------------------------------------------------------------------
(* What the contract promises.                                             *)

Ledger == INSTANCE NoteLedger WITH
  MaxValue <- FieldOrder - 1, issued <- leaves, retired <- nullifiers

(***************************************************************************)
(* The contract is a note ledger: every call that takes effect issues one  *)
(* note against the tokens it brings, or retires one live nullifier for    *)
(* exactly its value, in tokens or in two notes, and never a part of that. *)
(* Double spends, partial transfers, rewritten leaves and value made by    *)
(* field wrap-around are all steps that a note ledger does not have.       *)
(***************************************************************************)
RefinesLedger == Ledger!Spec

\* Every variable has its type, and the root window its bound.
TypeOK ==
  /\ leaves \in Seq(Note)
  /\ Len(leaves) <= Capacity
  /\ roots \in Seq(Seq(Note))
  /\ Len(roots) \in 1 .. RootHistorySize
  /\ nullifiers \subseteq Nullifiers
  /\ approot \in ApprovalRoots
  /\ escrow \in Nat
  /\ wallet \in [Accounts -> Nat]

(***************************************************************************)
(* The token balance of the contract covers all live notes together, so    *)
(* the balance check of withdraw (lib.rs:215) is there for no legal state. *)
(***************************************************************************)
Solvent == Ledger!Solvent

(***************************************************************************)
(* No holder is stranded: whatever calls came before, succeeded or failed, *)
(* a note with an unspent nullifier can be withdrawn to any account with a *)
(* proof over the current commitments.  That needs the current root among  *)
(* the recent ones, a value that fits i128 and a balance that covers it.   *)
(***************************************************************************)
Redeemable ==
  \A note \in Leaves(leaves), to \in Accounts :
    note.nullifier \notin nullifiers =>
      Outcome(WithdrawChecks(to,
        [nullifierHash |-> note.nullifier, withdrawnValue |-> note.value,
         stateRoot |-> leaves, recipient |-> to])) = "Ok"

(***************************************************************************)
(* A disclosure against the pool itself is good for as long as its roots   *)
(* are recent: the newer commitments it proves a note of and the older     *)
(* ones it names, or the reverse, need not be the same root, and the set   *)
(* the authority pins meanwhile makes no difference.                       *)
(***************************************************************************)
Disclosable ==
  \A i, j \in DOMAIN roots :
    roots[i] # EmptyRoot /\ roots[j] # EmptyRoot =>
      Outcome(MembershipChecks(
        [stateRoot |-> roots[i], approvalRoot |-> roots[j]])) = "Ok"

(***************************************************************************)
(* An accepted disclosure is about a note of this pool that is also in the *)
(* set it names, and a set other than the pinned one was the pool's own.   *)
(***************************************************************************)
DisclosureIsAnchored ==
  \A sig \in MembershipSignals :
    Outcome(MembershipChecks(sig)) = "Ok" =>
      \E note \in Leaves(leaves) :
        /\ note \in Leaves(sig.approvalRoot)
        /\ sig.approvalRoot # approot =>
             Leaves(sig.approvalRoot) \subseteq Leaves(leaves)

(***************************************************************************)
(* What membership.circom says its proof shows: a note of the pool that is *)
(* in the named set and unspent.  The circuit has no nullifier output and  *)
(* verify_membership looks none up, so a note that was withdrawn or        *)
(* transferred away is still disclosed.                                    *)
(***************************************************************************)
DisclosureProvesUnspent ==
  \A sig \in MembershipSignals :
    Outcome(MembershipChecks(sig)) = "Ok" =>
      \E note \in Leaves(sig.stateRoot) :
        /\ note \in Leaves(sig.approvalRoot)
        /\ note.nullifier \notin nullifiers

(***************************************************************************)
(* The recent roots are those after each of the last settlements, none     *)
(* left out and none in between: the last is the current tree, and each is *)
(* one deposit or one transfer after the root before it.  Only a full      *)
(* window has lost the empty root.                                         *)
(***************************************************************************)
RootsFollowSettlements ==
  /\ roots[Len(roots)] = leaves
  /\ \A i \in 1 .. Len(roots) - 1 :
       /\ Len(roots[i + 1]) - Len(roots[i]) \in 1 .. 2
       /\ SubSeq(roots[i + 1], 1, Len(roots[i])) = roots[i]
  /\ Len(roots) < RootHistorySize => roots[1] = EmptyRoot

(***************************************************************************)
(* A proof in flight is made stale by the passing of RootHistorySize       *)
(* settlements and by nothing else: a call forgets at most the oldest      *)
(* root, and that only when the window is full.                            *)
(***************************************************************************)
GracePeriod ==
  [][\A i \in 1 .. Len(roots) :
       \/ \E j \in 1 .. Len(roots') : roots'[j] = roots[i]
       \/ i = 1 /\ Len(roots) = RootHistorySize /\ leaves' # leaves]_vars
=============================================================================
