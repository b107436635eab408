------------------------- MODULE ShieldedPoolProofs -------------------------
EXTENDS ShieldedPool, SequenceTheorems, WellFoundedInduction, TLAPS

LedgerProofs == INSTANCE NoteLedgerProofs WITH
  MaxValue <- FieldOrder - 1, issued <- leaves, retired <- nullifiers

\* A call succeeds exactly when every one of its checks holds.
LEMMA SucceedsIfAllHold ==
  ASSUME NEW n \in Nat, NEW checks, DOMAIN checks = 1 .. n,
         \A i \in 1 .. n : checks[i].error # "Ok"
  PROVE  Succeeds(checks) <=> \A i \in 1 .. n : checks[i].holds
<1> DEFINE failed == {i \in DOMAIN checks : ~checks[i].holds}
<1>1. CASE failed = {}
  BY <1>1 DEF Succeeds, Outcome
<1>2. CASE failed # {}
  <2>1. \E i \in failed : \A j \in failed : ~(<<j, i>> \in OpToRel(<, Nat))
    <3>1. failed \subseteq Nat
      OBVIOUS
    <3> HIDE DEF failed
    <3>2. QED
      BY <1>2, <3>1, WFMin, NatLessThanWellFounded
  <2>2. \E i \in failed : \A j \in failed : i <= j
    <3>1. PICK i \in failed : \A j \in failed : ~(<<j, i>> \in OpToRel(<, Nat))
      BY <2>1
    <3>2. failed \subseteq Nat
      OBVIOUS
    <3>3. \A j \in failed : ~(j < i)
      <4> HIDE DEF failed
      <4>1. QED
        BY <3>1, <3>2, Zenon DEF OpToRel
    <3>4. \A j \in failed : i <= j
      BY <3>2, <3>3
    <3>5. QED
      BY <3>4
  <2>3. PICK i \in failed : i = CHOOSE k \in failed : \A j \in failed : k <= j
    BY <2>2
  <2>4. Outcome(checks) = checks[i].error
    BY <1>2, <2>3 DEF Outcome
  <2>5. QED
    BY <1>2, <2>4 DEF Succeeds
<1>3. QED
  BY <1>1, <1>2

\* The conditions under which each entry point returns Ok (lib.rs:174-297).
LEMMA WithdrawConditions ==
  ASSUME NEW to, NEW sig
  PROVE  Succeeds(WithdrawChecks(to, sig)) <=>
           /\ RootIsKnown(sig.stateRoot)
           /\ sig.recipient = to
           /\ sig.nullifierHash \notin nullifiers
           /\ WithdrawCircuit(sig)
           /\ sig.withdrawnValue <= I128Max
           /\ sig.withdrawnValue <= escrow
<1> DEFINE c == WithdrawChecks(to, sig)
<1>1. /\ DOMAIN c = 1 .. 6
      /\ \A i \in 1 .. 6 : c[i].error # "Ok"
  BY DEF WithdrawChecks, Check
<1>2. Succeeds(c) <=> \A i \in 1 .. 6 : c[i].holds
  <2> HIDE DEF c
  <2>1. QED
    BY <1>1, SucceedsIfAllHold
<1>3. (\A i \in 1 .. 6 : c[i].holds) <=>
        /\ c[1].holds /\ c[2].holds /\ c[3].holds
        /\ c[4].holds /\ c[5].holds /\ c[6].holds
  <2> HIDE DEF c
  <2>1. QED
    OBVIOUS
<1>4. /\ c[1].holds <=> RootIsKnown(sig.stateRoot)
      /\ c[2].holds <=> sig.recipient = to
      /\ c[3].holds <=> sig.nullifierHash \notin nullifiers
      /\ c[4].holds <=> WithdrawCircuit(sig)
      /\ c[5].holds <=> sig.withdrawnValue <= I128Max
      /\ c[6].holds <=> sig.withdrawnValue <= escrow
  BY DEF WithdrawChecks, Check
<1>5. QED
  BY <1>2, <1>3, <1>4

\* deposit: a positive amount, in the sender's balance, and room for one leaf.
LEMMA DepositConditions ==
  ASSUME NEW from, NEW amount
  PROVE  Succeeds(DepositChecks(from, amount)) <=>
           /\ amount > 0
           /\ amount <= wallet[from]
           /\ HasRoom(leaves)
<1> DEFINE c == DepositChecks(from, amount)
<1>1. /\ DOMAIN c = 1 .. 3
      /\ \A i \in 1 .. 3 : c[i].error # "Ok"
  BY DEF DepositChecks, Check
<1>2. Succeeds(c) <=> \A i \in 1 .. 3 : c[i].holds
  <2> HIDE DEF c
  <2>1. QED
    BY <1>1, SucceedsIfAllHold
<1>3. (\A i \in 1 .. 3 : c[i].holds) <=>
        c[1].holds /\ c[2].holds /\ c[3].holds
  <2> HIDE DEF c
  <2>1. QED
    OBVIOUS
<1>4. /\ c[1].holds <=> amount > 0
      /\ c[2].holds <=> amount <= wallet[from]
      /\ c[3].holds <=> HasRoom(leaves)
  BY DEF DepositChecks, Check
<1>5. QED
  BY <1>2, <1>3, <1>4

\* transfer: a recent root, a fresh nullifier, a proof, and room for two leaves.
LEMMA TransferConditions ==
  ASSUME NEW sig
  PROVE  Succeeds(TransferChecks(sig)) <=>
           /\ RootIsKnown(sig.stateRoot)
           /\ sig.nullifierHash \notin nullifiers
           /\ TransferCircuit(sig)
           /\ HasRoom(leaves)
           /\ HasRoom(MerkleInsert(leaves, sig.out0))
<1> DEFINE c == TransferChecks(sig)
<1>1. /\ DOMAIN c = 1 .. 5
      /\ \A i \in 1 .. 5 : c[i].error # "Ok"
  BY DEF TransferChecks, Check
<1>2. Succeeds(c) <=> \A i \in 1 .. 5 : c[i].holds
  <2> HIDE DEF c
  <2>1. QED
    BY <1>1, SucceedsIfAllHold
<1>3. (\A i \in 1 .. 5 : c[i].holds) <=>
        /\ c[1].holds /\ c[2].holds /\ c[3].holds
        /\ c[4].holds /\ c[5].holds
  <2> HIDE DEF c
  <2>1. QED
    OBVIOUS
<1>4. /\ c[1].holds <=> RootIsKnown(sig.stateRoot)
      /\ c[2].holds <=> sig.nullifierHash \notin nullifiers
      /\ c[3].holds <=> TransferCircuit(sig)
      /\ c[4].holds <=> HasRoom(leaves)
      /\ c[5].holds <=> HasRoom(MerkleInsert(leaves, sig.out0))
  BY DEF TransferChecks, Check
<1>5. QED
  BY <1>2, <1>3, <1>4

\* verify_membership: a recent root, a recognised set, and a proof.
LEMMA MembershipConditions ==
  ASSUME NEW sig
  PROVE  Succeeds(MembershipChecks(sig)) <=>
           /\ RootIsKnown(sig.stateRoot)
           /\ sig.approvalRoot = approot \/ RootIsKnown(sig.approvalRoot)
           /\ MembershipCircuit(sig)
<1> DEFINE c == MembershipChecks(sig)
<1>1. /\ DOMAIN c = 1 .. 3
      /\ \A i \in 1 .. 3 : c[i].error # "Ok"
  BY DEF MembershipChecks, Check
<1>2. Succeeds(c) <=> \A i \in 1 .. 3 : c[i].holds
  <2> HIDE DEF c
  <2>1. QED
    BY <1>1, SucceedsIfAllHold
<1>3. (\A i \in 1 .. 3 : c[i].holds) <=>
        c[1].holds /\ c[2].holds /\ c[3].holds
  <2> HIDE DEF c
  <2>1. QED
    OBVIOUS
<1>4. /\ c[1].holds <=> RootIsKnown(sig.stateRoot)
      /\ c[2].holds <=> (sig.approvalRoot = approot \/ RootIsKnown(sig.approvalRoot))
      /\ c[3].holds <=> MembershipCircuit(sig)
  BY DEF MembershipChecks, Check
<1>5. QED
  BY <1>2, <1>3, <1>4

-----------------------------------------------------------------------------
(* The root window.                                                        *)

Window == Len(roots) \in 1 .. RootHistorySize /\ roots \in Seq(Seq(Note))

\* Recording a root keeps the window, ends it with that root, and forgets at
\* most the oldest root of a full window.
LEMMA RecordRootWindow ==
  ASSUME Window, NEW root \in Seq(Note)
  PROVE  LET new == RecordRoot(root)
         IN  /\ new \in Seq(Seq(Note))
             /\ Len(new) \in 1 .. RootHistorySize
             /\ new[Len(new)] = root
             /\ \A i \in 1 .. Len(new) - 1 :
                  \E j \in 1 .. Len(roots) : new[i] = roots[j]
             /\ \A j \in 1 .. Len(roots) :
                  \/ \E i \in 1 .. Len(new) : new[i] = roots[j]
                  \/ j = 1 /\ Len(roots) = RootHistorySize
<1> DEFINE pushed == Append(roots, root)
<1>1. /\ pushed \in Seq(Seq(Note))
      /\ Len(pushed) = Len(roots) + 1
      /\ pushed[Len(pushed)] = root
      /\ \A i \in 1 .. Len(roots) : pushed[i] = roots[i]
      /\ Len(roots) \in Nat /\ RootHistorySize \in Nat
  BY PoolAssumption DEF Window, PoolParameters
<1>2. CASE Len(pushed) > RootHistorySize
  <2>1. RecordRoot(root) = Tail(pushed)
    BY <1>2 DEF RecordRoot
  <2> HIDE DEF pushed
  <2>2. Len(roots) = RootHistorySize
    BY <1>1, <1>2 DEF Window
  <2>3. /\ Tail(pushed) \in Seq(Seq(Note))
        /\ Len(Tail(pushed)) = Len(roots)
        /\ \A i \in 1 .. Len(roots) : Tail(pushed)[i] = pushed[i + 1]
    BY <1>1, HeadTailProperties
  <2>4. \A i \in 1 .. Len(roots) - 1 :
          i + 1 \in 1 .. Len(roots) /\ Tail(pushed)[i] = roots[i + 1]
    BY <1>1, <2>3
  <2>5. Tail(pushed)[Len(Tail(pushed))] = root
    BY <1>1, <2>3 DEF Window
  <2>6. \A i \in 1 .. Len(Tail(pushed)) - 1 :
          \E j \in 1 .. Len(roots) : Tail(pushed)[i] = roots[j]
    BY <2>3, <2>4
  <2>7. \A j \in 1 .. Len(roots) :
          j # 1 => j - 1 \in 1 .. Len(roots) /\ Tail(pushed)[j - 1] = roots[j]
    BY <1>1, <2>3, <2>4
  <2>8. \A j \in 1 .. Len(roots) :
          \/ \E i \in 1 .. Len(Tail(pushed)) : Tail(pushed)[i] = roots[j]
          \/ j = 1 /\ Len(roots) = RootHistorySize
    BY <2>3, <2>7, <2>2
  <2>9. Len(Tail(pushed)) \in 1 .. RootHistorySize
    BY <2>3 DEF Window
  <2> HIDE DEF RecordRoot
  <2>10. QED
    BY <2>1, <2>3, <2>5, <2>6, <2>8, <2>9
<1>3. CASE ~(Len(pushed) > RootHistorySize)
  <2>1. RecordRoot(root) = pushed
    BY <1>3 DEF RecordRoot
  <2> HIDE DEF pushed
  <2>2. Len(pushed) \in 1 .. RootHistorySize
    BY <1>1, <1>3
  <2>3. \A i \in 1 .. Len(pushed) - 1 :
          \E j \in 1 .. Len(roots) : pushed[i] = roots[j]
    BY <1>1
  <2>4. \A j \in 1 .. Len(roots) : \E i \in 1 .. Len(pushed) : pushed[i] = roots[j]
    BY <1>1
  <2>5. QED
    BY <1>1, <2>1, <2>2, <2>3, <2>4
<1>4. QED
  BY <1>2, <1>3

\* The window after a settlement is the one before it, less its oldest root
\* when it was full, followed by the new root.
LEMMA RecordRootOrder ==
  ASSUME Window, NEW root \in Seq(Note)
  PROVE  LET new == RecordRoot(root)
         IN  /\ \A i \in 1 .. Len(new) - 1 :
                  \/ /\ i = Len(new) - 1
                     /\ new[i] = roots[Len(roots)]
                     /\ new[i + 1] = root
                  \/ \E j \in 1 .. Len(roots) - 1 :
                       new[i] = roots[j] /\ new[i + 1] = roots[j + 1]
             /\ Len(new) < RootHistorySize =>
                  Len(roots) < RootHistorySize /\ new[1] = roots[1]
<1> DEFINE pushed == Append(roots, root)
<1>1. /\ pushed \in Seq(Seq(Note))
      /\ Len(pushed) = Len(roots) + 1
      /\ pushed[Len(pushed)] = root
      /\ \A i \in 1 .. Len(roots) : pushed[i] = roots[i]
      /\ Len(roots) \in Nat /\ Len(roots) >= 1 /\ RootHistorySize \in Nat
      /\ Len(roots) <= RootHistorySize
  BY PoolAssumption DEF Window, PoolParameters
<1> HIDE DEF pushed
<1>2. \A i \in 1 .. Len(pushed) - 1 :
        \/ /\ i = Len(pushed) - 1
           /\ pushed[i] = roots[Len(roots)]
           /\ pushed[i + 1] = root
        \/ /\ i \in 1 .. Len(roots) - 1
           /\ pushed[i] = roots[i]
           /\ pushed[i + 1] = roots[i + 1]
  <2> SUFFICES ASSUME NEW i \in 1 .. Len(roots)
               PROVE  \/ /\ i = Len(pushed) - 1
                         /\ pushed[i] = roots[Len(roots)]
                         /\ pushed[i + 1] = root
                      \/ /\ i \in 1 .. Len(roots) - 1
                         /\ pushed[i] = roots[i]
                         /\ pushed[i + 1] = roots[i + 1]
    BY <1>1
  <2>1. CASE i = Len(roots)
    BY <1>1, <2>1
  <2>2. CASE i # Len(roots)
    <3>1. i \in 1 .. Len(roots) - 1 /\ i + 1 \in 1 .. Len(roots)
      BY <1>1, <2>2
    <3>2. QED
      BY <1>1, <3>1
  <2>3. QED
    BY <2>1, <2>2
<1>3. CASE Len(pushed) > RootHistorySize
  <2>1. RecordRoot(root) = Tail(pushed)
    BY <1>3 DEF RecordRoot, pushed
  <2>2. Len(Tail(pushed)) = RootHistorySize
    BY <1>1, <1>3, HeadTailProperties
  <2>3. \A i \in 1 .. Len(Tail(pushed)) : Tail(pushed)[i] = pushed[i + 1]
    BY <1>1, HeadTailProperties
  <2>4. ASSUME NEW i \in 1 .. Len(Tail(pushed)) - 1
        PROVE  \/ /\ i = Len(Tail(pushed)) - 1
                  /\ Tail(pushed)[i] = roots[Len(roots)]
                  /\ Tail(pushed)[i + 1] = root
               \/ \E j \in 1 .. Len(roots) - 1 :
                    /\ Tail(pushed)[i] = roots[j]
                    /\ Tail(pushed)[i + 1] = roots[j + 1]
    <3>1. /\ i \in 1 .. Len(Tail(pushed)) /\ i + 1 \in 1 .. Len(Tail(pushed))
          /\ i + 1 \in 1 .. Len(pushed) - 1
      BY <1>1, <1>3, <2>2
    <3>2. Tail(pushed)[i] = pushed[i + 1] /\ Tail(pushed)[i + 1] = pushed[i + 1 + 1]
      BY <2>3, <3>1
    <3>3. \/ /\ i + 1 = Len(pushed) - 1
             /\ pushed[i + 1] = roots[Len(roots)]
             /\ pushed[i + 1 + 1] = root
          \/ /\ i + 1 \in 1 .. Len(roots) - 1
             /\ pushed[i + 1] = roots[i + 1]
             /\ pushed[i + 1 + 1] = roots[i + 1 + 1]
      BY <1>2, <3>1
    <3>4. i + 1 = Len(pushed) - 1 => i = Len(Tail(pushed)) - 1
      BY <1>1, <1>3, <2>2
    <3>5. QED
      BY <3>2, <3>3, <3>4
  <2>5. ~(Len(Tail(pushed)) < RootHistorySize)
    BY <1>1, <2>2
  <2> DEFINE tail == Tail(pushed)
  <2>6. RecordRoot(root) = tail /\ ~(Len(tail) < RootHistorySize)
    BY <2>1, <2>5
  <2>7. \A i \in 1 .. Len(tail) - 1 :
          \/ /\ i = Len(tail) - 1
             /\ tail[i] = roots[Len(roots)]
             /\ tail[i + 1] = root
          \/ \E j \in 1 .. Len(roots) - 1 :
               tail[i] = roots[j] /\ tail[i + 1] = roots[j + 1]
    BY <2>4
  <2> HIDE DEF tail, RecordRoot
  <2>8. QED
    BY <2>6, <2>7
<1>4. CASE ~(Len(pushed) > RootHistorySize)
  <2>1. RecordRoot(root) = pushed
    BY <1>4 DEF RecordRoot, pushed
  <2>2. Len(roots) < RootHistorySize /\ pushed[1] = roots[1]
    BY <1>1, <1>4
  <2> HIDE DEF RecordRoot
  <2>3. QED
    BY <1>2, <2>1, <2>2
<1>5. QED
  BY <1>3, <1>4

-----------------------------------------------------------------------------
(* Type correctness.                                                       *)

\* Every root a proof can name is a sequence of notes.
LEMMA SnapshotsAreTrees ==
  ASSUME TypeOK, NEW root \in Snapshots
  PROVE  root \in Seq(Note)
<1>1. CASE root \in ApprovalRoots
  BY <1>1, PoolAssumption DEF PoolParameters
<1>2. ASSUME NEW n \in 0 .. Len(leaves), root = SubSeq(leaves, 1, n)
      PROVE  root \in Seq(Note)
  <2>1. \A i \in 1 .. n : leaves[i] \in Note
    BY DEF TypeOK
  <2>2. SubSeq(leaves, 1, n) \in Seq(Note)
    BY <2>1, SubSeqProperties
  <2>3. QED
    BY <1>2, <2>2
<1>3. QED
  BY <1>1, <1>2 DEF Snapshots

\* The note a deposit commits has a value the field and i128 can hold.
LEMMA DepositNote ==
  ASSUME TypeOK, NEW from \in Accounts, NEW amount \in Amounts,
         NEW nullifier \in Nullifiers, Deposit(from, amount, nullifier)
  PROVE  /\ [nullifier |-> nullifier, value |-> amount] \in Note
         /\ amount \in Nat \ {0}
         /\ amount <= I128Max
         /\ wallet[from] - amount \in Nat
         /\ Len(leaves) + 1 <= Capacity
<1>1. /\ amount > 0
      /\ amount <= wallet[from]
      /\ HasRoom(leaves)
  BY DepositConditions DEF Deposit
<1>2. amount \in Int /\ amount <= I128Max
  BY PoolAssumption DEF PoolParameters
<1>3. amount \in Field
  BY <1>1, <1>2, SizesAssumption DEF Field, Sizes
<1>4. wallet[from] \in Nat /\ Len(leaves) \in Nat
  BY DEF TypeOK
<1>5. QED
  BY <1>1, <1>2, <1>3, <1>4, PoolAssumption
     DEF Note, HasRoom, PoolParameters

\* Every variable keeps its type and the window its bound, for every set of
\* callers, amounts and proofs.
THEOREM PoolTypeCorrect == Spec => []TypeOK
<1>1. Init => TypeOK
  BY PoolAssumption DEF Init, TypeOK, EmptyRoot, PoolParameters
<1>2. TypeOK /\ [Next]_vars => TypeOK'
  <2> SUFFICES ASSUME TypeOK, [Next]_vars PROVE TypeOK'
    OBVIOUS
  <2>1. Window
    BY DEF TypeOK, Window
  <2>2. \A tree \in Seq(Note) :
          /\ RecordRoot(tree) \in Seq(Seq(Note))
          /\ Len(RecordRoot(tree)) \in 1 .. RootHistorySize
    BY <2>1, RecordRootWindow
  <2>3. ASSUME NEW from \in Accounts, NEW amount \in Amounts,
               NEW nullifier \in Nullifiers, Deposit(from, amount, nullifier)
        PROVE  TypeOK'
    <3> DEFINE note == [nullifier |-> nullifier, value |-> amount]
    <3>1. /\ note \in Note
          /\ amount \in Nat \ {0}
          /\ wallet[from] - amount \in Nat
          /\ Len(leaves) + 1 <= Capacity
      BY <2>3, DepositNote
    <3>2. /\ leaves' = Append(leaves, note)
          /\ roots' = RecordRoot(leaves')
          /\ wallet' = [wallet EXCEPT ![from] = @ - amount]
          /\ escrow' = escrow + amount
          /\ nullifiers' = nullifiers /\ approot' = approot
      BY <2>3 DEF Deposit, MerkleInsert
    <3> HIDE DEF note
    <3>3. leaves' \in Seq(Note) /\ Len(leaves') <= Capacity
      BY <3>1, <3>2 DEF TypeOK
    <3>4. wallet' \in [Accounts -> Nat] /\ escrow' \in Nat
      BY <3>1, <3>2 DEF TypeOK
    <3>5. QED
      BY <2>2, <3>2, <3>3, <3>4 DEF TypeOK
  <2>4. ASSUME NEW to \in Accounts, NEW sig \in WithdrawSignals, Withdraw(to, sig)
        PROVE  TypeOK'
    <3>1. /\ sig.nullifierHash \in Nullifiers
          /\ sig.withdrawnValue \in Nat
          /\ sig.withdrawnValue <= escrow
      BY <2>4, WithdrawConditions, SizesAssumption
         DEF Sizes, Withdraw, WithdrawSignals, Field
    <3>2. /\ escrow - sig.withdrawnValue \in Nat
          /\ wallet[to] + sig.withdrawnValue \in Nat
      BY <3>1 DEF TypeOK
    <3>3. wallet' \in [Accounts -> Nat] /\ escrow' \in Nat
      BY <2>4, <3>2 DEF Withdraw, TypeOK
    <3>4. nullifiers' \subseteq Nullifiers
      BY <2>4, <3>1 DEF Withdraw, TypeOK
    <3>5. QED
      BY <2>4, <3>3, <3>4 DEF Withdraw, TypeOK
  <2>5. ASSUME NEW nullifier \in Nullifiers, NEW outs \in OutputPairs,
               NEW root \in Snapshots, Transfer(TransferSignal(nullifier, outs, root))
        PROVE  TypeOK'
    <3>1. outs[1] \in Note /\ outs[2] \in Note
      BY PoolAssumption DEF PoolParameters
    <3>2. /\ HasRoom(MerkleInsert(leaves, outs[1]))
          /\ nullifiers' = nullifiers \cup {nullifier}
          /\ leaves' = Append(Append(leaves, outs[1]), outs[2])
          /\ roots' = RecordRoot(leaves')
          /\ approot' = approot /\ escrow' = escrow /\ wallet' = wallet
      BY <2>5, TransferConditions
         DEF Transfer, TransferSignal, MerkleInsert, tokens
    <3>3. leaves' \in Seq(Note) /\ Len(leaves') <= Capacity
      <4>1. Append(leaves, outs[1]) \in Seq(Note)
        BY <3>1 DEF TypeOK
      <4>2. QED
        BY <3>1, <3>2, <4>1, PoolAssumption
           DEF HasRoom, MerkleInsert, PoolParameters
    <3>4. QED
      BY <2>2, <3>2, <3>3 DEF TypeOK
  <2>6. ASSUME NEW sig \in MembershipSignals, VerifyMembership(sig)
        PROVE  TypeOK'
    BY <2>6 DEF VerifyMembership, vars, contract, tokens, TypeOK
  <2>7. ASSUME NEW root \in ApprovalRoots, SetApprovalRoot(root) PROVE TypeOK'
    BY <2>7 DEF SetApprovalRoot, tokens, TypeOK
  <2>8. ASSUME NEW from \in Accounts, NEW amount \in Amounts, Donate(from, amount)
        PROVE  TypeOK'
    <3>1. wallet[from] \in Nat
      BY DEF TypeOK
    <3>2. QED
      BY <2>8, <3>1 DEF Donate, contract, TypeOK
  <2>9. CASE UNCHANGED vars
    BY <2>9 DEF vars, contract, tokens, TypeOK
  <2>10. QED
    BY <2>3, <2>4, <2>5, <2>6, <2>7, <2>8, <2>9 DEF Next
<1>3. QED
  BY <1>1, <1>2, PTL DEF Spec

-----------------------------------------------------------------------------
(* The contract implements the note ledger.                                *)

\* The tree grew out of old: its leaves are the first ones of the tree.
Earlier(old, tree) ==
  /\ Len(old) <= Len(tree)
  /\ \A k \in 1 .. Len(old) : tree[k] = old[k]

\* The tree grew out of every recent root, and the last one is the tree.
KnownRoots ==
  /\ \A i \in 1 .. Len(roots) : Earlier(roots[i], leaves)
  /\ roots[Len(roots)] = leaves

\* No note is worth more than i128 holds.
ValuesFit == \A note \in Leaves(leaves) : note.value <= I128Max

\* What every call of the contract keeps.
PoolInv == TypeOK /\ KnownRoots /\ ValuesFit

\* Inserting a leaf adds it to the leaves and takes none away.
LEMMA InsertAddsLeaf ==
  ASSUME NEW tree \in Seq(Note), NEW leaf \in Note
  PROVE  /\ MerkleInsert(tree, leaf) \in Seq(Note)
         /\ Leaves(MerkleInsert(tree, leaf)) = Leaves(tree) \cup {leaf}
         /\ Len(MerkleInsert(tree, leaf)) = Len(tree) + 1
         /\ Earlier(tree, MerkleInsert(tree, leaf))
<1> DEFINE new == Append(tree, leaf)
<1>1. /\ new \in Seq(Note)
      /\ DOMAIN new = 1 .. Len(tree) + 1
      /\ DOMAIN tree = 1 .. Len(tree)
      /\ \A i \in 1 .. Len(tree) : new[i] = tree[i]
      /\ new[Len(tree) + 1] = leaf
      /\ Len(tree) \in Nat
  OBVIOUS
<1> HIDE DEF new
<1>2. Leaves(new) = Leaves(tree) \cup {leaf}
  <2>1. ASSUME NEW x \in Leaves(new) PROVE x \in Leaves(tree) \cup {leaf}
    <3>1. PICK i \in 1 .. Len(tree) + 1 : x = new[i]
      BY <1>1 DEF Leaves
    <3>2. QED
      BY <1>1, <3>1 DEF Leaves
  <2>2. ASSUME NEW x \in Leaves(tree) PROVE x \in Leaves(new)
    <3>1. PICK i \in 1 .. Len(tree) : x = tree[i]
      BY <1>1 DEF Leaves
    <3>2. i \in DOMAIN new /\ x = new[i]
      BY <1>1, <3>1
    <3>3. QED
      BY <3>2 DEF Leaves
  <2>3. leaf \in Leaves(new)
    <3>1. Len(tree) + 1 \in DOMAIN new
      BY <1>1
    <3>2. QED
      BY <1>1, <3>1 DEF Leaves
  <2>4. QED
    BY <2>1, <2>2, <2>3
<1>3. Len(new) = Len(tree) + 1 /\ Earlier(tree, new)
  BY <1>1 DEF Earlier
<1>4. QED
  BY <1>1, <1>2, <1>3 DEF MerkleInsert, new

\* Growing out of a tree is transitive.
LEMMA EarlierIsTransitive ==
  ASSUME NEW a \in Seq(Note), NEW b \in Seq(Note), NEW c \in Seq(Note),
         Earlier(a, b), Earlier(b, c)
  PROVE  Earlier(a, c)
  BY DEF Earlier

\* An older tree has no leaf that the newer one has not.
LEMMA EarlierKeepsLeaves ==
  ASSUME NEW a \in Seq(Note), NEW b \in Seq(Note), Earlier(a, b)
  PROVE  Leaves(a) \subseteq Leaves(b)
<1> SUFFICES ASSUME NEW i \in 1 .. Len(a)
             PROVE  \E j \in 1 .. Len(b) : b[j] = a[i]
  BY DEF Leaves
<1>1. QED
  BY DEF Earlier

\* Recording the root of an extended tree keeps the recent roots within it.
LEMMA RecordKeepsKnownRoots ==
  ASSUME TypeOK, KnownRoots, NEW tree \in Seq(Note),
         Earlier(leaves, tree), leaves' = tree,
         roots' = RecordRoot(tree)
  PROVE  KnownRoots'
<1>1. Window
  BY DEF TypeOK, Window
<1> DEFINE new == RecordRoot(tree)
<1>2. /\ Len(new) \in 1 .. RootHistorySize
      /\ new[Len(new)] = tree
      /\ \A i \in 1 .. Len(new) - 1 :
           \E j \in 1 .. Len(roots) : new[i] = roots[j]
  BY <1>1, RecordRootWindow
<1> HIDE DEF new
<1>3. ASSUME NEW i \in 1 .. Len(new) PROVE Earlier(new[i], tree)
  <2>1. CASE i = Len(new)
    BY <1>2, <2>1 DEF Earlier
  <2>2. CASE i # Len(new)
    <3>1. i \in 1 .. Len(new) - 1
      BY <1>2, <2>2
    <3>2. PICK j \in 1 .. Len(roots) : new[i] = roots[j]
      BY <1>2, <3>1
    <3>3. Earlier(roots[j], leaves) /\ roots[j] \in Seq(Note)
      BY <3>2 DEF KnownRoots, TypeOK
    <3>4. QED
      BY <3>2, <3>3, EarlierIsTransitive DEF TypeOK
  <2>3. QED
    BY <2>1, <2>2
<1>4. roots' = new
  BY DEF new
<1>5. QED
  BY <1>2, <1>3, <1>4 DEF KnownRoots

\* A spend proof over a known root opens a note of the tree.
LEMMA SpendsOpenNotes ==
  ASSUME TypeOK, KnownRoots, NEW root, RootIsKnown(root),
         NEW note \in Leaves(root)
  PROVE  note \in Leaves(leaves)
<1>1. PICK i \in 1 .. Len(roots) : roots[i] = root
  BY DEF RootIsKnown, TypeOK
<1>2. root \in Seq(Note) /\ leaves \in Seq(Note) /\ Earlier(root, leaves)
  BY <1>1 DEF KnownRoots, TypeOK
<1>3. QED
  BY <1>2, EarlierKeepsLeaves

\* Two values within the range check add up in the field as they do in Nat.
LEMMA RangedSumsDoNotWrap ==
  ASSUME NEW a \in Field, NEW b \in Field, InRange(a), InRange(b)
  PROVE  FieldAdd(a, b) = a + b
  BY SizesAssumption DEF Field, InRange, FieldAdd, Sizes

\* What a successful transfer does, in terms of notes.
LEMMA TransferEffect ==
  ASSUME TypeOK, KnownRoots, ValuesFit,
         NEW nullifier \in Nullifiers, NEW outs \in OutputPairs,
         NEW root \in Snapshots,
         Transfer(TransferSignal(nullifier, outs, root))
  PROVE  \E note \in Leaves(leaves), out0 \in Note, out1 \in Note :
           /\ note.nullifier = nullifier
           /\ nullifier \notin nullifiers
           /\ note.value = out0.value + out1.value
           /\ out0.value <= I128Max /\ out1.value <= I128Max
           /\ nullifiers' = nullifiers \cup {nullifier}
           /\ leaves' = MerkleInsert(MerkleInsert(leaves, out0), out1)
           /\ roots' = RecordRoot(leaves')
           /\ UNCHANGED <<approot, tokens>>
<1> DEFINE sig == TransferSignal(nullifier, outs, root)
<1>1. /\ outs[1] \in Note /\ outs[2] \in Note
      /\ outs[1].value \in Field /\ outs[2].value \in Field
  BY PoolAssumption DEF Note, PoolParameters
<1>2. /\ sig.nullifierHash = nullifier /\ sig.stateRoot = root
      /\ sig.out0 = outs[1] /\ sig.out1 = outs[2]
  BY DEF TransferSignal
<1>3. /\ Succeeds(TransferChecks(sig))
      /\ nullifiers' = nullifiers \cup {nullifier}
      /\ leaves' = MerkleInsert(MerkleInsert(leaves, outs[1]), outs[2])
      /\ roots' = RecordRoot(leaves')
      /\ UNCHANGED <<approot, tokens>>
  BY <1>2 DEF Transfer
<1>4. /\ RootIsKnown(root)
      /\ nullifier \notin nullifiers
      /\ TransferCircuit(sig)
  BY <1>2, <1>3, TransferConditions
<1>5. PICK note \in Leaves(root) :
        /\ nullifier = note.nullifier
        /\ note.value = FieldAdd(outs[1].value, outs[2].value)
        /\ InRange(outs[1].value)
        /\ InRange(outs[2].value)
  BY <1>2, <1>4 DEF TransferCircuit
<1>6. note \in Leaves(leaves)
  BY <1>4, <1>5, SpendsOpenNotes
<1>7. note.value = outs[1].value + outs[2].value
  BY <1>1, <1>5, RangedSumsDoNotWrap
<1>8. outs[1].value <= I128Max /\ outs[2].value <= I128Max
  <2>1. note.value <= I128Max
    BY <1>6 DEF ValuesFit
  <2>2. QED
    BY <1>1, <1>7, <2>1, SizesAssumption DEF Field, Sizes
<1> HIDE DEF sig
<1>9. QED
  BY <1>1, <1>3, <1>4, <1>5, <1>6, <1>7, <1>8

\* What a successful withdrawal does, in terms of notes.
LEMMA WithdrawEffect ==
  ASSUME TypeOK, KnownRoots, NEW to \in Accounts, NEW sig \in WithdrawSignals,
         Withdraw(to, sig)
  PROVE  \E note \in Leaves(leaves) :
           /\ note.nullifier \notin nullifiers
           /\ nullifiers' = nullifiers \cup {note.nullifier}
           /\ escrow' = escrow - note.value
           /\ UNCHANGED <<leaves, roots, approot>>
<1>1. /\ RootIsKnown(sig.stateRoot)
      /\ sig.nullifierHash \notin nullifiers
      /\ WithdrawCircuit(sig)
  BY WithdrawConditions DEF Withdraw
<1>2. PICK note \in Leaves(sig.stateRoot) :
        /\ sig.nullifierHash = note.nullifier
        /\ sig.withdrawnValue = note.value
  BY <1>1 DEF WithdrawCircuit
<1>3. note \in Leaves(leaves)
  BY <1>1, <1>2, SpendsOpenNotes
<1>4. /\ nullifiers' = nullifiers \cup {sig.nullifierHash}
      /\ escrow' = escrow - sig.withdrawnValue
      /\ UNCHANGED <<leaves, roots, approot>>
  BY DEF Withdraw
<1>5. QED
  BY <1>1, <1>2, <1>3, <1>4

\* The inductive invariant: recent roots are of this tree, values fit i128.
LEMMA PoolInvariant == Spec => []PoolInv
<1>1. Init => KnownRoots /\ ValuesFit
  BY DEF Init, KnownRoots, Earlier, ValuesFit, Leaves, EmptyRoot
<1>2. TypeOK /\ KnownRoots /\ ValuesFit /\ [Next]_vars
        => KnownRoots' /\ ValuesFit'
  <2> SUFFICES ASSUME TypeOK, KnownRoots, ValuesFit, [Next]_vars
               PROVE  KnownRoots' /\ ValuesFit'
    OBVIOUS
  <2>1. ASSUME leaves' = leaves, roots' = roots
        PROVE  KnownRoots' /\ ValuesFit'
    BY <2>1 DEF KnownRoots, ValuesFit
  <2>2. ASSUME NEW from \in Accounts, NEW amount \in Amounts,
               NEW nullifier \in Nullifiers, Deposit(from, amount, nullifier)
        PROVE  KnownRoots' /\ ValuesFit'
    <3> DEFINE note == [nullifier |-> nullifier, value |-> amount]
    <3>1. note \in Note /\ note.value <= I128Max
      BY <2>2, DepositNote
    <3>2. leaves' = MerkleInsert(leaves, note) /\ roots' = RecordRoot(leaves')
      BY <2>2 DEF Deposit
    <3> HIDE DEF note
    <3>3. /\ leaves' \in Seq(Note) /\ Earlier(leaves, leaves')
          /\ Leaves(leaves') = Leaves(leaves) \cup {note}
      BY <3>1, <3>2, InsertAddsLeaf DEF TypeOK
    <3>4. KnownRoots'
      BY <3>2, <3>3, RecordKeepsKnownRoots
    <3>5. QED
      BY <3>1, <3>3, <3>4 DEF ValuesFit
  <2>3. ASSUME NEW nullifier \in Nullifiers, NEW outs \in OutputPairs,
               NEW root \in Snapshots,
               Transfer(TransferSignal(nullifier, outs, root))
        PROVE  KnownRoots' /\ ValuesFit'
    <3>1. PICK out0 \in Note, out1 \in Note :
            /\ out0.value <= I128Max /\ out1.value <= I128Max
            /\ leaves' = MerkleInsert(MerkleInsert(leaves, out0), out1)
            /\ roots' = RecordRoot(leaves')
      BY <2>3, TransferEffect
    <3>2. /\ MerkleInsert(leaves, out0) \in Seq(Note)
          /\ Leaves(MerkleInsert(leaves, out0)) = Leaves(leaves) \cup {out0}
          /\ Earlier(leaves, MerkleInsert(leaves, out0))
      BY InsertAddsLeaf DEF TypeOK
    <3>3. /\ leaves' \in Seq(Note)
          /\ Leaves(leaves') = Leaves(leaves) \cup {out0} \cup {out1}
          /\ Earlier(MerkleInsert(leaves, out0), leaves')
      BY <3>1, <3>2, InsertAddsLeaf
    <3>4. Earlier(leaves, leaves')
      BY <3>2, <3>3, EarlierIsTransitive DEF TypeOK
    <3>5. KnownRoots'
      BY <3>1, <3>3, <3>4, RecordKeepsKnownRoots
    <3>6. QED
      BY <3>1, <3>3, <3>5 DEF ValuesFit
  <2>4. QED
    BY <2>1, <2>2, <2>3
       DEF Next, Withdraw, VerifyMembership, SetApprovalRoot, Donate,
           vars, contract
<1>3. QED
  BY <1>1, <1>2, PoolTypeCorrect, PTL DEF Spec, PoolInv

\* The leaves of the tree are the notes of the ledger.
LEMMA LeavesAreIssued == Ledger!Issued = Leaves(leaves) /\ Ledger!Note = Note
  BY DEF Ledger!Issued, Ledger!Note, Ledger!Values, Leaves, Note, Field

\* Every call that takes effect is a step of the note ledger, and every other
\* leaves the ledger as it is.
THEOREM PoolRefinesLedger == Spec => RefinesLedger
<1>1. Init => Ledger!Init
  BY DEF Init, Ledger!Init
<1>2. PoolInv /\ [Next]_vars => [Ledger!Next]_(Ledger!vars)
  <2> SUFFICES ASSUME PoolInv, [Next]_vars
               PROVE  Ledger!Next \/ UNCHANGED Ledger!vars
    OBVIOUS
  <2> USE DEF PoolInv
  <2>1. ASSUME NEW from \in Accounts, NEW amount \in Amounts,
               NEW nullifier \in Nullifiers, Deposit(from, amount, nullifier)
        PROVE  Ledger!Next
    <3> DEFINE note == [nullifier |-> nullifier, value |-> amount]
    <3>1. note \in Ledger!Note /\ note.value > 0
      BY <2>1, DepositNote, LeavesAreIssued
    <3>2. Ledger!Shield(note)
      BY <2>1, <3>1 DEF Deposit, MerkleInsert, Ledger!Shield
    <3>3. QED
      BY <3>1, <3>2 DEF Ledger!Next
  <2>2. ASSUME NEW to \in Accounts, NEW sig \in WithdrawSignals, Withdraw(to, sig)
        PROVE  Ledger!Next
    <3>1. PICK note \in Leaves(leaves) :
            /\ note.nullifier \notin nullifiers
            /\ nullifiers' = nullifiers \cup {note.nullifier}
            /\ escrow' = escrow - note.value
            /\ UNCHANGED <<leaves, roots, approot>>
      BY <2>2, WithdrawEffect
    <3>2. Ledger!Unshield(note)
      BY <3>1 DEF Ledger!Unshield
    <3>3. QED
      BY <3>2, LeavesAreIssued DEF Ledger!Next
  <2>3. ASSUME NEW nullifier \in Nullifiers, NEW outs \in OutputPairs,
               NEW root \in Snapshots,
               Transfer(TransferSignal(nullifier, outs, root))
        PROVE  Ledger!Next
    <3>1. PICK note \in Leaves(leaves), out0 \in Note, out1 \in Note :
            /\ note.nullifier = nullifier
            /\ nullifier \notin nullifiers
            /\ note.value = out0.value + out1.value
            /\ nullifiers' = nullifiers \cup {nullifier}
            /\ leaves' = MerkleInsert(MerkleInsert(leaves, out0), out1)
            /\ UNCHANGED <<approot, tokens>>
      BY <2>3, TransferEffect
    <3>2. Ledger!Settle(note, out0, out1)
      BY <3>1 DEF Ledger!Settle, MerkleInsert, tokens
    <3>3. QED
      BY <3>2, LeavesAreIssued DEF Ledger!Next
  <2>4. ASSUME NEW from \in Accounts, NEW amount \in Amounts, Donate(from, amount)
        PROVE  Ledger!Next
    <3>1. escrow \in Nat /\ amount \in Nat
      BY <2>4 DEF Donate, TypeOK
    <3>2. Ledger!Donate
      BY <2>4, <3>1 DEF Donate, contract, Ledger!Donate
    <3>3. QED
      BY <3>2 DEF Ledger!Next
  <2>5. ASSUME NEW sig \in MembershipSignals, VerifyMembership(sig)
        PROVE  UNCHANGED Ledger!vars
    BY <2>5 DEF VerifyMembership, vars, contract, tokens, Ledger!vars
  <2>6. ASSUME NEW root \in ApprovalRoots, SetApprovalRoot(root)
        PROVE  UNCHANGED Ledger!vars
    BY <2>6 DEF SetApprovalRoot, tokens, Ledger!vars
  <2>7. CASE UNCHANGED vars
    BY <2>7 DEF vars, contract, tokens, Ledger!vars
  <2>8. QED
    BY <2>1, <2>2, <2>3, <2>4, <2>5, <2>6, <2>7 DEF Next
<1>3. QED
  BY <1>1, <1>2, PoolInvariant, PTL DEF Spec, RefinesLedger, Ledger!Spec

\* Both instances of the ledger are the same specification.
LEMMA SameLedger == Ledger!Spec => LedgerProofs!Spec
<1>1. Ledger!Init => LedgerProofs!Init
  BY DEF Ledger!Init, LedgerProofs!Init
<1>2. [Ledger!Next]_(Ledger!vars) => [LedgerProofs!Next]_(LedgerProofs!vars)
  BY DEF Ledger!Next, Ledger!vars, Ledger!Note, Ledger!Issued, Ledger!Shield,
         Ledger!Settle, Ledger!Unshield, Ledger!Donate, Ledger!Values,
         LedgerProofs!Next, LedgerProofs!vars, LedgerProofs!Note,
         LedgerProofs!Issued, LedgerProofs!Shield, LedgerProofs!Settle,
         LedgerProofs!Unshield, LedgerProofs!Donate, LedgerProofs!Values
<1>3. QED
  BY <1>1, <1>2, PTL DEF Ledger!Spec, LedgerProofs!Spec

\* The contract's token balance covers all live notes in every state.
THEOREM PoolSolvent == Spec => []Solvent
<1>1. Field \subseteq Nat
  BY DEF Field
<1>2. LedgerProofs!Spec => []LedgerProofs!Solvent
  BY <1>1, LedgerProofs!LedgerSolvent, PTL
<1>3. LedgerProofs!Solvent => Ledger!Solvent
  <2>1. Ledger!Live = LedgerProofs!Live
    BY DEF Ledger!Live, Ledger!Issued, LedgerProofs!Live, LedgerProofs!Issued
  <2>2. \A n : Ledger!Units(n) = LedgerProofs!Units(n)
    BY DEF Ledger!Units, LedgerProofs!Units
  <2>3. Ledger!Owed = LedgerProofs!Owed
    BY <2>1, <2>2 DEF Ledger!Owed, LedgerProofs!Owed
  <2>4. Ledger!Cardinality(Ledger!Owed) = LedgerProofs!Cardinality(LedgerProofs!Owed)
    BY <2>3 DEF Ledger!Cardinality, LedgerProofs!Cardinality
  <2>5. QED
    BY <2>4 DEF Ledger!Solvent, LedgerProofs!Solvent
<1>4. QED
  BY <1>2, <1>3, SameLedger, PoolRefinesLedger, PTL DEF RefinesLedger, Solvent

-----------------------------------------------------------------------------
(* The root window over time.                                              *)

\* What a step can do to the tree and its recent roots.
Settled == /\ leaves' \in Seq(Note)
           /\ Len(leaves') - Len(leaves) \in 1 .. 2
           /\ Earlier(leaves, leaves')
           /\ roots' = RecordRoot(leaves')

\* Every step is a settlement or leaves the tree and its roots alone.
LEMMA StepsSettleOrKeep ==
  ASSUME PoolInv, [Next]_vars
  PROVE  Settled \/ UNCHANGED <<leaves, roots>>
<1>1. ASSUME NEW from \in Accounts, NEW amount \in Amounts,
             NEW nullifier \in Nullifiers, Deposit(from, amount, nullifier)
      PROVE  Settled
  <2> DEFINE note == [nullifier |-> nullifier, value |-> amount]
  <2>1. note \in Note
    BY <1>1, DepositNote DEF PoolInv
  <2>2. leaves' = MerkleInsert(leaves, note) /\ roots' = RecordRoot(leaves')
    BY <1>1 DEF Deposit
  <2> HIDE DEF note
  <2>3. leaves \in Seq(Note)
    BY DEF PoolInv, TypeOK
  <2>4. QED
    BY <2>1, <2>2, <2>3, InsertAddsLeaf DEF Settled
<1>2. ASSUME NEW nullifier \in Nullifiers, NEW outs \in OutputPairs,
             NEW root \in Snapshots,
             Transfer(TransferSignal(nullifier, outs, root))
      PROVE  Settled
  <2>1. PICK out0 \in Note, out1 \in Note :
          /\ leaves' = MerkleInsert(MerkleInsert(leaves, out0), out1)
          /\ roots' = RecordRoot(leaves')
    BY <1>2, TransferEffect DEF PoolInv
  <2>2. leaves \in Seq(Note)
    BY DEF PoolInv, TypeOK
  <2> DEFINE mid == MerkleInsert(leaves, out0)
  <2>3. mid \in Seq(Note) /\ Len(mid) = Len(leaves) + 1 /\ Earlier(leaves, mid)
    BY <2>2, InsertAddsLeaf
  <2> HIDE DEF mid
  <2>4. leaves' = MerkleInsert(mid, out1)
    BY <2>1 DEF mid
  <2>5. leaves' \in Seq(Note) /\ Len(leaves') = Len(mid) + 1 /\ Earlier(mid, leaves')
    BY <2>3, <2>4, InsertAddsLeaf
  <2>6. QED
    BY <2>1, <2>2, <2>3, <2>5, EarlierIsTransitive DEF Settled
<1>3. QED
  BY <1>1, <1>2
     DEF Next, Withdraw, VerifyMembership, SetApprovalRoot, Donate, vars, contract

\* Only a settlement against a full window makes a recent root stale, and then
\* the oldest one.
THEOREM PoolGracePeriod == Spec => GracePeriod
<1>1. PoolInv /\ [Next]_vars =>
        [\A i \in 1 .. Len(roots) :
           \/ \E j \in 1 .. Len(roots') : roots'[j] = roots[i]
           \/ i = 1 /\ Len(roots) = RootHistorySize /\ leaves' # leaves]_vars
  <2> SUFFICES ASSUME PoolInv, [Next]_vars, NEW i \in 1 .. Len(roots)
               PROVE  \/ \E j \in 1 .. Len(roots') : roots'[j] = roots[i]
                      \/ /\ i = 1 /\ Len(roots) = RootHistorySize
                         /\ leaves' # leaves
    OBVIOUS
  <2>1. Window
    BY DEF PoolInv, TypeOK, Window
  <2>2. CASE Settled
    <3> DEFINE new == RecordRoot(leaves')
    <3>1. leaves' # leaves /\ leaves' \in Seq(Note) /\ roots' = new
      BY <2>2 DEF Settled, PoolInv, TypeOK
    <3>2. \/ \E j \in 1 .. Len(new) : new[j] = roots[i]
          \/ i = 1 /\ Len(roots) = RootHistorySize
      BY <2>1, <3>1, RecordRootWindow
    <3> HIDE DEF new
    <3>3. QED
      BY <3>1, <3>2
  <2>3. CASE UNCHANGED <<leaves, roots>>
    BY <2>3
  <2>4. QED
    BY <2>2, <2>3, StepsSettleOrKeep
<1>2. QED
  BY <1>1, PoolInvariant, PTL DEF Spec, GracePeriod

\* The recent roots are those of the last settlements, in order, with none
\* left out.
THEOREM PoolRootsFollowSettlements == Spec => []RootsFollowSettlements
<1> DEFINE Follows(old, new) ==
             /\ Len(new) - Len(old) \in 1 .. 2
             /\ SubSeq(new, 1, Len(old)) = old
<1>1. Init => RootsFollowSettlements
  BY DEF Init, RootsFollowSettlements, EmptyRoot
<1>2. ASSUME PoolInv, Settled PROVE Follows(leaves, leaves')
  <2>1. /\ leaves \in Seq(Note) /\ leaves' \in Seq(Note)
        /\ Len(leaves) \in 0 .. Len(leaves')
        /\ \A k \in 1 .. Len(leaves) : leaves'[k] = leaves[k]
    BY <1>2 DEF PoolInv, TypeOK, Settled, Earlier
  <2> DEFINE part == SubSeq(leaves', 1, Len(leaves))
  <2>2. /\ part \in Seq(Note)
        /\ Len(part) = Len(leaves)
        /\ \A k \in 1 .. Len(leaves) : part[k] = leaves'[k]
    BY <2>1
  <2> HIDE DEF part
  <2>3. part = leaves
    BY <2>1, <2>2, SeqEqual
  <2>4. QED
    BY <1>2, <2>3 DEF Settled, part
<1>3. PoolInv /\ RootsFollowSettlements /\ [Next]_vars => RootsFollowSettlements'
  <2> SUFFICES ASSUME PoolInv, RootsFollowSettlements, [Next]_vars
               PROVE  RootsFollowSettlements'
    OBVIOUS
  <2>1. CASE Settled
    <3> DEFINE new == RecordRoot(leaves')
    <3>1. Window /\ leaves' \in Seq(Note)
      BY <2>1 DEF PoolInv, TypeOK, Window, Settled
    <3>2. roots' = new /\ new[Len(new)] = leaves'
      BY <2>1, <3>1, RecordRootWindow DEF Settled
    <3>3. \A i \in 1 .. Len(new) - 1 :
            \/ new[i] = roots[Len(roots)] /\ new[i + 1] = leaves'
            \/ \E j \in 1 .. Len(roots) - 1 :
                 new[i] = roots[j] /\ new[i + 1] = roots[j + 1]
      BY <3>1, RecordRootOrder
    <3>4. Len(new) < RootHistorySize =>
            Len(roots) < RootHistorySize /\ new[1] = roots[1]
      BY <3>1, RecordRootOrder
    <3> HIDE DEF new
    <3>5. Follows(leaves, leaves')
      BY <1>2, <2>1
    <3>6. \A j \in 1 .. Len(roots) - 1 : Follows(roots[j], roots[j + 1])
      BY DEF RootsFollowSettlements
    <3>7. roots[Len(roots)] = leaves
      BY DEF RootsFollowSettlements
    <3> HIDE DEF Follows
    <3>8. \A i \in 1 .. Len(new) - 1 : Follows(new[i], new[i + 1])
      BY <3>3, <3>5, <3>6, <3>7
    <3>9. Len(new) < RootHistorySize => new[1] = EmptyRoot
      BY <3>4 DEF RootsFollowSettlements
    <3>10. QED
      BY <3>2, <3>8, <3>9 DEF RootsFollowSettlements, Follows, EmptyRoot
  <2>2. CASE UNCHANGED <<leaves, roots>>
    BY <2>2 DEF RootsFollowSettlements, EmptyRoot
  <2>3. QED
    BY <2>1, <2>2, StepsSettleOrKeep
<1>4. QED
  BY <1>1, <1>3, PoolInvariant, PTL DEF Spec

-----------------------------------------------------------------------------
(* What holders can always do.                                             *)

\* No unspent note is ever stranded: a withdrawal over the current root of the
\* tree meets every check of the contract.
THEOREM PoolRedeemable == Spec => []Redeemable
<1>1. Field \subseteq Nat
  BY DEF Field
<1>2. LedgerProofs!Spec => []LedgerProofs!EachPayable
  BY <1>1, LedgerProofs!LedgerPaysEach, PTL
<1>3. PoolInv /\ LedgerProofs!EachPayable => Redeemable
  <2> SUFFICES ASSUME PoolInv, LedgerProofs!EachPayable,
                      NEW note \in Leaves(leaves), NEW to \in Accounts,
                      note.nullifier \notin nullifiers
               PROVE  Succeeds(WithdrawChecks(to,
                        [nullifierHash |-> note.nullifier,
                         withdrawnValue |-> note.value,
                         stateRoot |-> leaves, recipient |-> to]))
    BY DEF Redeemable, Succeeds
  <2> DEFINE sig == [nullifierHash |-> note.nullifier,
                     withdrawnValue |-> note.value,
                     stateRoot |-> leaves, recipient |-> to]
  <2>1. RootIsKnown(sig.stateRoot)
    BY DEF PoolInv, TypeOK, KnownRoots, RootIsKnown
  <2>2. WithdrawCircuit(sig)
    BY DEF WithdrawCircuit
  <2>3. note.value <= I128Max
    BY DEF PoolInv, ValuesFit
  <2>4. note.value <= escrow
    BY DEF LedgerProofs!EachPayable, LedgerProofs!Live, LedgerProofs!Issued, Leaves
  <2>5. /\ sig.recipient = to
        /\ sig.nullifierHash = note.nullifier
        /\ sig.withdrawnValue = note.value
    OBVIOUS
  <2> HIDE DEF sig
  <2>6. Succeeds(WithdrawChecks(to, sig))
    BY <2>1, <2>2, <2>3, <2>4, <2>5, WithdrawConditions
  <2>7. QED
    BY <2>6 DEF sig
<1>4. QED
  BY <1>2, <1>3, PoolInvariant, SameLedger, PoolRefinesLedger, PTL
     DEF RefinesLedger

\* Two recent roots have a note in common unless one of them is empty.
LEMMA RecentRootsOverlap ==
  ASSUME PoolInv, NEW i \in 1 .. Len(roots), NEW j \in 1 .. Len(roots),
         roots[i] # EmptyRoot, roots[j] # EmptyRoot
  PROVE  \E note \in Leaves(roots[i]) : note \in Leaves(roots[j])
<1>1. /\ roots[i] \in Seq(Note) /\ Earlier(roots[i], leaves)
      /\ roots[j] \in Seq(Note) /\ Earlier(roots[j], leaves)
  BY DEF PoolInv, TypeOK, KnownRoots
<1>2. Len(roots[i]) >= 1 /\ Len(roots[j]) >= 1
  BY <1>1, EmptySeq DEF EmptyRoot
<1>3. roots[i][1] = leaves[1] /\ roots[j][1] = leaves[1]
  BY <1>1, <1>2 DEF Earlier
<1>4. leaves[1] \in Leaves(roots[i]) /\ leaves[1] \in Leaves(roots[j])
  BY <1>1, <1>2, <1>3 DEF Leaves
<1>5. QED
  BY <1>4

\* A disclosure prepared over recent, non-empty roots of the pool itself is
\* accepted, whatever the authority pins.
THEOREM PoolDisclosable == Spec => []Disclosable
<1>1. PoolInv => Disclosable
  <2> SUFFICES ASSUME PoolInv, NEW i \in DOMAIN roots, NEW j \in DOMAIN roots,
                      roots[i] # EmptyRoot, roots[j] # EmptyRoot
               PROVE  Succeeds(MembershipChecks(
                        [stateRoot |-> roots[i], approvalRoot |-> roots[j]]))
    BY DEF Disclosable, Succeeds
  <2> DEFINE sig == [stateRoot |-> roots[i], approvalRoot |-> roots[j]]
  <2>1. RootIsKnown(roots[i]) /\ RootIsKnown(roots[j])
    BY DEF RootIsKnown
  <2>2. sig.stateRoot = roots[i] /\ sig.approvalRoot = roots[j]
    OBVIOUS
  <2>3. i \in 1 .. Len(roots) /\ j \in 1 .. Len(roots)
    BY DEF PoolInv, TypeOK
  <2> HIDE DEF sig
  <2>4. MembershipCircuit(sig)
    BY <2>2, <2>3, RecentRootsOverlap DEF MembershipCircuit
  <2>5. Succeeds(MembershipChecks(sig))
    BY <2>1, <2>2, <2>4, MembershipConditions
  <2>6. QED
    BY <2>5 DEF sig
<1>2. QED
  BY <1>1, PoolInvariant, PTL

\* An accepted disclosure is about a note of this pool, in the set it names.
THEOREM PoolDisclosureIsAnchored == Spec => []DisclosureIsAnchored
<1>1. PoolInv => DisclosureIsAnchored
  <2> SUFFICES ASSUME PoolInv, NEW sig \in MembershipSignals,
                      Succeeds(MembershipChecks(sig))
               PROVE  \E note \in Leaves(leaves) :
                        /\ note \in Leaves(sig.approvalRoot)
                        /\ sig.approvalRoot # approot =>
                             Leaves(sig.approvalRoot) \subseteq Leaves(leaves)
    BY DEF DisclosureIsAnchored, Succeeds
  <2>1. /\ RootIsKnown(sig.stateRoot)
        /\ sig.approvalRoot = approot \/ RootIsKnown(sig.approvalRoot)
        /\ MembershipCircuit(sig)
    BY MembershipConditions
  <2>2. PICK note \in Leaves(sig.stateRoot) : note \in Leaves(sig.approvalRoot)
    BY <2>1 DEF MembershipCircuit
  <2>3. note \in Leaves(leaves)
    BY <2>1, <2>2, SpendsOpenNotes DEF PoolInv
  <2>4. sig.approvalRoot # approot =>
          Leaves(sig.approvalRoot) \subseteq Leaves(leaves)
    BY <2>1, SpendsOpenNotes DEF PoolInv
  <2>5. QED
    BY <2>2, <2>3, <2>4
<1>2. QED
  BY <1>1, PoolInvariant, PTL
=============================================================================
