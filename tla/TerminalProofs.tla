--------------------------- MODULE TerminalProofs ---------------------------
EXTENDS Terminal, FiniteSetTheorems, TLAPS

\* ShieldedPool with its theorems.
PoolProofs == INSTANCE ShieldedPoolProofs

\* The notes that shield() makes.
WalletNotes ==
  {note \in [nullifier : WalletNullifiers, value : Amounts] : note.value > 0}

\* A call before it begins, and one that has.
CallStates ==
  {Idle} \cup
  [stage : Awaiting \cup {"done", "error", "gone"}, kind : {"shield", "settle"},
   note : WalletNotes, recipient : Accounts, root : Seq(Pool!Note), seq : Nat,
   polls : 0 .. MaxPolls]

\* What a call has once it has begun.
BegunCalls == CallStates \ {Idle}

Begun(c) == calls[c] # Idle

Results == {"none", "pending", "success", "failed", "lapsed"}

\* What localStorage may hold, or a call have read of it.
Lists == [stored : SUBSET WalletNotes, marked : SUBSET WalletNotes]

\* The types of the terminal's variables, and of the tree.
StateInv ==
  /\ leaves \in Seq(Pool!Note)
  /\ seq \in Nat
  /\ txs \in [Calls -> Results]
  /\ calls \in [Calls -> CallStates]
  /\ stored \subseteq WalletNotes
  /\ marked \subseteq stored
  /\ read \in [Calls -> Lists]
  /\ \A c \in Calls : read[c].marked \subseteq read[c].stored
  /\ missed \in [Calls -> SUBSET Calls]
  /\ overwritten \subseteq Calls

\* The stages before a transaction can be on its way.
Unsent == {"idle", "reading", "account", "simulating", "sending"}

\* The trees the pool has gone through.
Earlier == {SubSeq(leaves, 1, n) : n \in 0 .. Len(leaves)}

\* What a call holds on to, and what it has reached: a tree the pool went through,
\* no transaction before one was sent, a success before the vault is touched.
CallInv ==
  \A c \in Calls :
    /\ Begun(c) => calls[c].root \in Earlier
    /\ calls[c].stage \in Unsent => txs[c] = "none"
    /\ calls[c].stage \in {"writing", "done"} => txs[c] = "success"

\* A note is drawn once, and one that is settled was stored once.
NoteInv ==
  /\ \A c, d \in Calls :
       Begun(c) /\ Begun(d) /\ c # d
         /\ calls[c].kind = "shield" /\ calls[d].kind = "shield"
       => calls[c].note # calls[d].note
  /\ \A c \in Calls : Begun(c) /\ calls[c].kind = "settle" =>
       calls[c].note \in Listed

\* A transaction that took effect is on the chain.
EffectInv ==
  \A c \in Calls : txs[c] = "success" =>
    IF calls[c].kind = "shield" THEN calls[c].note \in Pool!Leaves(leaves)
    ELSE calls[c].note.nullifier \in nullifiers

\* Those of the wallet's transactions that were executed, or failed.
Executed == {c \in Calls : txs[c] \in {"success", "failed"}}

\* Each of them used up one sequence number.
SequenceInv == seq = Cardinality(Executed)

\* What was read of the vault is as real as the vault.
ReadInv ==
  \A c \in Calls :
    /\ read[c].stored \subseteq Pool!Leaves(leaves)
    /\ \A note \in read[c].marked : note.nullifier \in nullifiers

\* The effect of a call is in a list of notes.
EffectIn(list, c) ==
  IF calls[c].kind = "shield" THEN calls[c].note \in list.stored
  ELSE calls[c].note \in list.stored => calls[c].note \in list.marked

(***************************************************************************)
(* The effect of every call that is done is in the vault unless it was     *)
(* overwritten, and in what another call has read and will write back,     *)
(* unless that call has missed it.                                         *)
(***************************************************************************)
VaultInv ==
  \A c \in Calls : At(c, "done") /\ c \notin overwritten =>
    /\ EffectIn([stored |-> stored, marked |-> marked], c)
    /\ \A d \in Calls :
         At(d, "writing") /\ c \notin missed[d] => EffectIn(read[d], c)

-----------------------------------------------------------------------------
(* The types.                                                              *)

\* The pool's constants are as ShieldedPool assumes: what its theorems rest on.
LEMMA PoolConstants == PoolProofs!Sizes /\ PoolProofs!PoolParameters
<1>1. PoolProofs!Note = Pool!Note
  BY DEF Pool!Note, PoolProofs!Note, Pool!Field, PoolProofs!Field
<1>2. QED
  BY <1>1, TerminalAssumption
     DEF Pool!Sizes, PoolProofs!Sizes, Pool!PoolParameters,
         PoolProofs!PoolParameters

\* The wallet's notes are notes.
LEMMA WalletNotesAreNotes == WalletNotes \subseteq Pool!Note
<1> SUFFICES ASSUME NEW note \in WalletNotes PROVE note \in Pool!Note
  OBVIOUS
<1>1. note.value \in Int /\ note.value > 0 /\ note.value <= I128Max
  BY TerminalAssumption DEF WalletNotes, Pool!PoolParameters
<1>2. note.value \in Pool!Field
  BY <1>1, TerminalAssumption DEF Pool!Field, Pool!Sizes
<1>3. QED
  BY <1>2, TerminalAssumption DEF WalletNotes, Pool!Note

\* A begun call is a record, an idle one has its stage alone.
LEMMA BegunCallsAre ==
  /\ BegunCalls =
       [stage : Awaiting \cup {"done", "error", "gone"},
        kind : {"shield", "settle"}, note : WalletNotes, recipient : Accounts,
        root : Seq(Pool!Note), seq : Nat, polls : 0 .. MaxPolls]
  /\ \A call \in CallStates : call = Idle <=> call.stage = "idle"
<1>1. \A call \in CallStates \ {Idle} : call.stage # "idle"
  BY DEF CallStates, Awaiting
<1>2. Idle.stage = "idle"
  BY DEF Idle
<1>3. Idle \notin
       [stage : Awaiting \cup {"done", "error", "gone"},
        kind : {"shield", "settle"}, note : WalletNotes, recipient : Accounts,
        root : Seq(Pool!Note), seq : Nat, polls : 0 .. MaxPolls]
  BY <1>2 DEF Awaiting
<1>4. QED
  BY <1>1, <1>2, <1>3 DEF BegunCalls, CallStates

\* What a step does to the tree: nothing, or it adds a note.
Grows ==
  \/ leaves' = leaves
  \/ \E note \in Pool!Note : leaves' = Append(leaves, note)

\* What a step does to a call: nothing, or it begins or goes on.
Begins(c) ==
  /\ ~Begun(c)
  /\ calls'[c] \in BegunCalls
  /\ calls'[c].stage \in {"reading", "account"}
  /\ calls'[c].root = << >>
  /\ IF calls'[c].kind = "settle" THEN calls'[c].note \in Listed
     ELSE calls'[c].note.nullifier \notin Drawn

\* It goes on from one await to the next, or ends.
GoesOn(c) ==
  /\ Active(c)
  /\ calls'[c] \in BegunCalls
  /\ calls'[c].kind = calls[c].kind
  /\ calls'[c].note = calls[c].note
  /\ calls'[c].root \in {calls[c].root, leaves}
  /\ calls'[c].stage \in Unsent => calls[c].stage \in Unsent

CallSteps(c) == calls'[c] = calls[c] \/ Begins(c) \/ GoesOn(c)

\* A call that is under way has begun.
LEMMA ActiveCalls ==
  ASSUME StateInv, NEW c \in Calls, Active(c)
  PROVE  Begun(c) /\ calls[c] \in BegunCalls
BY DEF StateInv, Active, Awaiting, Idle, Begun, BegunCalls

\* A call that is under way goes on to another stage.
LEMMA GotoSteps ==
  ASSUME StateInv, NEW c \in Calls, Active(c),
         NEW stage \in Awaiting \cup {"done", "error", "gone"},
         stage \in Unsent => calls[c].stage \in Unsent,
         Goto(c, stage)
  PROVE  /\ calls' \in [Calls -> CallStates]
         /\ \A d \in Calls : CallSteps(d)
         /\ calls'[c] = [calls[c] EXCEPT !.stage = stage]
         /\ \A d \in Calls \ {c} : calls'[d] = calls[d]
<1>1. calls[c] \in BegunCalls
  BY ActiveCalls
<1>2. [calls[c] EXCEPT !.stage = stage] \in BegunCalls
  BY <1>1, BegunCallsAre
<1>3. /\ calls' = [calls EXCEPT ![c] = [calls[c] EXCEPT !.stage = stage]]
      /\ calls \in [Calls -> CallStates]
  BY DEF Goto, StateInv
<1>4. calls' \in [Calls -> CallStates]
  BY <1>2, <1>3 DEF BegunCalls
<1>5. GoesOn(c)
  BY <1>1, <1>2, <1>3, BegunCallsAre DEF GoesOn
<1>6. QED
  BY <1>3, <1>4, <1>5 DEF CallSteps

-----------------------------------------------------------------------------
(* What each action does.                                                  *)

\* What is listed is a note of the wallet.
LEMMA ListedNotes == StateInv => Listed \subseteq WalletNotes
<1> SUFFICES ASSUME StateInv, NEW c \in Calls, At(c, "done")
             PROVE  calls[c].note \in WalletNotes
  BY DEF Listed
<1>1. calls[c] \in BegunCalls
  BY DEF StateInv, At, Idle, BegunCalls
<1>2. QED
  BY <1>1, BegunCallsAre

\* The two ways a call begins.
LEMMA DialogSteps ==
  ASSUME StateInv, NEW c \in Calls,
         \/ \E amount \in Amounts, nullifier \in WalletNullifiers :
              Shield(c, amount, nullifier)
         \/ \E note \in Listed, recipient \in Accounts : Settle(c, note, recipient)
  PROVE  /\ calls' \in [Calls -> CallStates]
         /\ \A d \in Calls : CallSteps(d)
         /\ \A d \in Calls \ {c} : calls'[d] = calls[d]
         /\ Begins(c)
<1>1. ASSUME NEW amount \in Amounts, NEW nullifier \in WalletNullifiers,
             Shield(c, amount, nullifier)
      PROVE  \E new \in BegunCalls :
               /\ calls' = [calls EXCEPT ![c] = new]
               /\ new.stage \in {"reading", "account"}
               /\ new.root = << >>
               /\ IF new.kind = "settle" THEN new.note \in Listed
                  ELSE new.note.nullifier \notin Drawn
  <2> DEFINE note == [nullifier |-> nullifier, value |-> amount]
             new == [stage |-> "account", kind |-> "shield", note |-> note,
                     recipient |-> Wallet, root |-> << >>, seq |-> 0, polls |-> 0]
  <2>1. note \in WalletNotes
    BY <1>1 DEF Shield, WalletNotes
  <2>2. calls' = [calls EXCEPT ![c] = new] /\ note.nullifier \notin Drawn
    BY <1>1 DEF Shield
  <2> HIDE DEF note
  <2>3. new \in BegunCalls
    BY <2>1, BegunCallsAre, TerminalAssumption DEF Awaiting
  <2>4. QED
    BY <2>2, <2>3
<1>2. ASSUME NEW note \in Listed, NEW recipient \in Accounts,
             Settle(c, note, recipient)
      PROVE  \E new \in BegunCalls :
               /\ calls' = [calls EXCEPT ![c] = new]
               /\ new.stage \in {"reading", "account"}
               /\ new.root = << >>
               /\ IF new.kind = "settle" THEN new.note \in Listed
                  ELSE new.note.nullifier \notin Drawn
  <2> DEFINE new == [stage |-> "reading", kind |-> "settle", note |-> note,
                     recipient |-> recipient, root |-> << >>, seq |-> 0,
                     polls |-> 0]
  <2>1. note \in WalletNotes
    BY ListedNotes
  <2>2. calls' = [calls EXCEPT ![c] = new]
    BY <1>2 DEF Settle
  <2>3. new \in BegunCalls
    BY <2>1, BegunCallsAre, TerminalAssumption DEF Awaiting
  <2>4. QED
    BY <2>2, <2>3
<1>3. ~Begun(c)
  BY BegunCallsAre DEF Shield, Settle, At, Begun, StateInv
<1>4. PICK new \in BegunCalls :
        /\ calls' = [calls EXCEPT ![c] = new]
        /\ new.stage \in {"reading", "account"}
        /\ new.root = << >>
        /\ IF new.kind = "settle" THEN new.note \in Listed
           ELSE new.note.nullifier \notin Drawn
  BY <1>1, <1>2
<1>5. QED
  BY <1>3, <1>4 DEF StateInv, BegunCalls, CallSteps, Begins

\* The steps of a call that is under way.
LEMMA ProgressSteps ==
  ASSUME StateInv, NEW c \in Calls, Progress(c)
  PROVE  /\ calls' \in [Calls -> CallStates]
         /\ \A d \in Calls : CallSteps(d)
         /\ \A d \in Calls \ {c} : calls'[d] = calls[d]
         /\ GoesOn(c)
<1>1. Active(c)
  BY DEF Progress, ReadPool, GetAccount, Prepare, Submit, NotTaken, PollSuccess,
         PollFailed, PollNotFound, WriteVault, RequestFails, At, Active, Awaiting
<1>2. Active(c) /\ calls[c] \in BegunCalls
  BY <1>1, ActiveCalls
<1>3. ASSUME NEW stage \in Awaiting \cup {"done", "error", "gone"},
             stage \in Unsent => calls[c].stage \in Unsent, Goto(c, stage)
      PROVE  GoesOn(c)
  <2>1. calls'[c] = [calls[c] EXCEPT !.stage = stage]
    BY <1>2, <1>3, GotoSteps
  <2>2. QED
    BY <1>2, <1>3, <2>1, BegunCallsAre DEF GoesOn
<1>4. CASE ReadPool(c)
  <2> DEFINE stage == IF calls[c].note \in Pool!Leaves(leaves)
                      THEN "account" ELSE "error"
             new == [calls[c] EXCEPT !.stage = stage, !.root = leaves]
  <2>1. stage \in {"account", "error"}
    OBVIOUS
  <2>2. calls' = [calls EXCEPT ![c] = new] /\ calls[c].stage = "reading"
    BY <1>4 DEF ReadPool, At
  <2> HIDE DEF stage
  <2>3. new \in BegunCalls /\ new.kind = calls[c].kind /\ new.note = calls[c].note
        /\ new.root = leaves
    BY <1>2, <2>1, BegunCallsAre DEF StateInv, Awaiting
  <2> HIDE DEF new
  <2>4. QED
    BY <1>2, <2>2, <2>3 DEF GoesOn, StateInv, Unsent, BegunCalls, CallSteps
<1>5. CASE GetAccount(c)
  <2> DEFINE new == [calls[c] EXCEPT !.stage = "simulating", !.seq = seq]
  <2>1. calls' = [calls EXCEPT ![c] = new] /\ calls[c].stage = "account"
    BY <1>5 DEF GetAccount, At
  <2>2. new \in BegunCalls /\ new.kind = calls[c].kind /\ new.note = calls[c].note
        /\ new.root = calls[c].root
    BY <1>2, BegunCallsAre DEF StateInv, Awaiting
  <2> HIDE DEF new
  <2>3. QED
    BY <1>2, <2>1, <2>2 DEF GoesOn, StateInv, Unsent, BegunCalls, CallSteps
<1>6. CASE PollNotFound(c) /\ calls[c].polls < MaxPolls
  <2> DEFINE new == [calls[c] EXCEPT !.polls = calls[c].polls + 1]
  <2>1. calls' = [calls EXCEPT ![c] = new]
    BY <1>6 DEF PollNotFound
  <2>2. calls[c].polls + 1 \in 0 .. MaxPolls
    BY <1>2, <1>6, BegunCallsAre, TerminalAssumption
  <2>3. new \in BegunCalls /\ new.kind = calls[c].kind /\ new.note = calls[c].note
        /\ new.root = calls[c].root /\ new.stage = calls[c].stage
    BY <1>2, <2>2, BegunCallsAre
  <2> HIDE DEF new
  <2>4. QED
    BY <1>2, <2>1, <2>3 DEF GoesOn, StateInv, BegunCalls, CallSteps
<1>7. \/ ReadPool(c) \/ GetAccount(c) \/ (PollNotFound(c) /\ calls[c].polls < MaxPolls)
      \/ \E stage \in Awaiting \cup {"done", "error", "gone"} :
           /\ stage \in Unsent => calls[c].stage \in Unsent
           /\ Goto(c, stage)
  BY DEF Progress, Prepare, Submit, NotTaken, PollSuccess, LoadNotes, PollFailed,
         PollNotFound, WriteVault, RequestFails, At, Awaiting, Unsent
<1>8. GoesOn(c)
  BY <1>3, <1>4, <1>5, <1>6, <1>7
<1>9. calls' \in [Calls -> CallStates] /\ \A d \in Calls \ {c} : calls'[d] = calls[d]
  <2>1. \E new : calls' = [calls EXCEPT ![c] = new]
    <3>1. CASE \E stage \in Awaiting \cup {"done", "error", "gone"} : Goto(c, stage)
      BY <3>1 DEF Goto
    <3>2. QED
      BY <1>7, <3>1 DEF ReadPool, GetAccount, PollNotFound
  <2>2. PICK new : calls' = [calls EXCEPT ![c] = new]
    BY <2>1
  <2>3. new = calls'[c]
    BY <2>2 DEF StateInv
  <2>4. QED
    BY <1>8, <2>2, <2>3 DEF GoesOn, StateInv, BegunCalls
<1>10. QED
  BY <1>8, <1>9 DEF CallSteps

\* A reload ends a call that is under way.
LEMMA ReloadSteps ==
  ASSUME StateInv, NEW c \in Calls, Reload(c)
  PROVE  /\ calls' \in [Calls -> CallStates]
         /\ \A d \in Calls : CallSteps(d)
         /\ \A d \in Calls \ {c} : calls'[d] = calls[d]
         /\ Active(c) /\ calls'[c].stage = "gone"
<1>1. Active(c) /\ Goto(c, "gone") /\ calls[c] \in BegunCalls
  BY ActiveCalls DEF Reload
<1>2. /\ calls' \in [Calls -> CallStates]
      /\ \A d \in Calls : CallSteps(d)
      /\ \A d \in Calls \ {c} : calls'[d] = calls[d]
      /\ calls'[c] = [calls[c] EXCEPT !.stage = "gone"]
  BY <1>1, GotoSteps DEF Unsent
<1>3. calls'[c].stage = "gone"
  BY <1>1, <1>2, BegunCallsAre
<1>4. QED
  BY <1>1, <1>2, <1>3

-----------------------------------------------------------------------------
(* The chain.                                                              *)

\* Both instances of the pool are the same: first what its calls check,
LEMMA SameChecks ==
  /\ \A checks : Pool!Succeeds(checks) <=> PoolProofs!Succeeds(checks)
  /\ \A from, amount :
       Pool!DepositChecks(from, amount) = PoolProofs!DepositChecks(from, amount)
  /\ \A to, sig :
       Pool!WithdrawChecks(to, sig) = PoolProofs!WithdrawChecks(to, sig)
  /\ \A sig : Pool!TransferChecks(sig) = PoolProofs!TransferChecks(sig)
  /\ \A sig : Pool!MembershipChecks(sig) = PoolProofs!MembershipChecks(sig)
<1>1. \A checks : Pool!Outcome(checks) = PoolProofs!Outcome(checks)
  BY DEF Pool!Outcome, PoolProofs!Outcome
<1>2. /\ \A holds, error : Pool!Check(holds, error) = PoolProofs!Check(holds, error)
      /\ \A root : Pool!RootIsKnown(root) = PoolProofs!RootIsKnown(root)
      /\ \A tree : Pool!HasRoom(tree) = PoolProofs!HasRoom(tree)
      /\ \A tree, leaf : Pool!MerkleInsert(tree, leaf) = PoolProofs!MerkleInsert(tree, leaf)
  BY DEF Pool!Check, PoolProofs!Check, Pool!RootIsKnown, PoolProofs!RootIsKnown,
         Pool!HasRoom, PoolProofs!HasRoom, Pool!MerkleInsert, PoolProofs!MerkleInsert
<1>3. /\ \A sig : Pool!WithdrawCircuit(sig) = PoolProofs!WithdrawCircuit(sig)
      /\ \A sig : Pool!TransferCircuit(sig) = PoolProofs!TransferCircuit(sig)
      /\ \A sig : Pool!MembershipCircuit(sig) = PoolProofs!MembershipCircuit(sig)
  BY DEF Pool!WithdrawCircuit, PoolProofs!WithdrawCircuit, Pool!Leaves,
         PoolProofs!Leaves, Pool!TransferCircuit, PoolProofs!TransferCircuit,
         Pool!FieldAdd, PoolProofs!FieldAdd, Pool!InRange, PoolProofs!InRange,
         Pool!MembershipCircuit, PoolProofs!MembershipCircuit
<1>4. QED
  BY <1>1, <1>2, <1>3
     DEF Pool!Succeeds, PoolProofs!Succeeds, Pool!DepositChecks,
         PoolProofs!DepositChecks, Pool!WithdrawChecks, PoolProofs!WithdrawChecks,
         Pool!TransferChecks, PoolProofs!TransferChecks, Pool!MembershipChecks,
         PoolProofs!MembershipChecks

\* then the calls themselves.
LEMMA SamePool == Pool!Spec => PoolProofs!Spec
<1>1. Pool!Init => PoolProofs!Init
  BY DEF Pool!Init, PoolProofs!Init, Pool!EmptyRoot, PoolProofs!EmptyRoot
<1>2. [Pool!Next]_(Pool!vars) => [PoolProofs!Next]_(PoolProofs!vars)
  <2>1. /\ Pool!Field = PoolProofs!Field
        /\ Pool!Snapshots = PoolProofs!Snapshots
        /\ \A nullifier, outs, root : Pool!TransferSignal(nullifier, outs, root)
             = PoolProofs!TransferSignal(nullifier, outs, root)
        /\ \A root : Pool!RecordRoot(root) = PoolProofs!RecordRoot(root)
        /\ \A tree, leaf : Pool!MerkleInsert(tree, leaf)
             = PoolProofs!MerkleInsert(tree, leaf)
    BY DEF Pool!Field, PoolProofs!Field, Pool!Snapshots, PoolProofs!Snapshots,
           Pool!TransferSignal, PoolProofs!TransferSignal, Pool!RecordRoot,
           PoolProofs!RecordRoot, Pool!MerkleInsert, PoolProofs!MerkleInsert
  <2>2. \A from, amount, nullifier :
          Pool!Deposit(from, amount, nullifier)
            => PoolProofs!Deposit(from, amount, nullifier)
    <3> SUFFICES ASSUME NEW from, NEW amount, NEW nullifier,
                        Pool!Deposit(from, amount, nullifier)
                 PROVE  PoolProofs!Deposit(from, amount, nullifier)
      OBVIOUS
    <3>1. Pool!RecordRoot(leaves') = PoolProofs!RecordRoot(leaves')
      BY DEF Pool!RecordRoot, PoolProofs!RecordRoot
    <3>2. QED
      BY <2>1, <3>1, SameChecks DEF Pool!Deposit, PoolProofs!Deposit
  <2>3. \A to, sig : Pool!Withdraw(to, sig) => PoolProofs!Withdraw(to, sig)
    BY SameChecks DEF Pool!Withdraw, PoolProofs!Withdraw
  <2>4. \A sig : Pool!Transfer(sig) => PoolProofs!Transfer(sig)
    <3> SUFFICES ASSUME NEW sig, Pool!Transfer(sig)
                 PROVE  PoolProofs!Transfer(sig)
      OBVIOUS
    <3>1. Pool!RecordRoot(leaves') = PoolProofs!RecordRoot(leaves')
      BY DEF Pool!RecordRoot, PoolProofs!RecordRoot
    <3>2. QED
      BY <2>1, <3>1, SameChecks
         DEF Pool!Transfer, PoolProofs!Transfer, Pool!tokens, PoolProofs!tokens
  <2>5. /\ \A sig : Pool!VerifyMembership(sig) => PoolProofs!VerifyMembership(sig)
        /\ \A root : Pool!SetApprovalRoot(root) => PoolProofs!SetApprovalRoot(root)
        /\ \A from, amount : Pool!Donate(from, amount) => PoolProofs!Donate(from, amount)
    BY SameChecks
       DEF Pool!VerifyMembership, PoolProofs!VerifyMembership,
           Pool!SetApprovalRoot, PoolProofs!SetApprovalRoot, Pool!Donate,
           PoolProofs!Donate, Pool!vars, PoolProofs!vars, Pool!contract,
           PoolProofs!contract, Pool!tokens, PoolProofs!tokens
  <2>6. Pool!WithdrawSignals = PoolProofs!WithdrawSignals
    BY <2>1 DEF Pool!WithdrawSignals, PoolProofs!WithdrawSignals
  <2>7. Pool!MembershipSignals = PoolProofs!MembershipSignals
    BY <2>1 DEF Pool!MembershipSignals, PoolProofs!MembershipSignals
  <2>8. Pool!Next => PoolProofs!Next
    BY <2>1, <2>2, <2>3, <2>4, <2>5, <2>6, <2>7 DEF Pool!Next, PoolProofs!Next
  <2>9. QED
    BY <2>8 DEF Pool!vars, PoolProofs!vars, Pool!contract, PoolProofs!contract,
                Pool!tokens, PoolProofs!tokens
<1>3. QED
  BY <1>1, <1>2, PTL DEF Pool!Spec, PoolProofs!Spec

\* What a deposit comes to.
LEMMA DepositEffect ==
  ASSUME NEW from, NEW amount \in Amounts, NEW nullifier \in Nullifiers,
         Pool!Deposit(from, amount, nullifier)
  PROVE  /\ [nullifier |-> nullifier, value |-> amount] \in Pool!Note
         /\ leaves' = Append(leaves, [nullifier |-> nullifier, value |-> amount])
         /\ nullifiers' = nullifiers
<1>1. amount > 0
  <2>1. Pool!Succeeds(Pool!DepositChecks(from, amount))
    BY DEF Pool!Deposit
  <2>2. PoolProofs!Succeeds(PoolProofs!DepositChecks(from, amount))
    BY <2>1, SameChecks
  <2>3. QED
    BY <2>2, PoolConstants, PoolProofs!DepositConditions
<1>2. amount \in Pool!Field
  BY <1>1, TerminalAssumption DEF Pool!Field, Pool!Sizes, Pool!PoolParameters
<1>3. QED
  BY <1>2 DEF Pool!Deposit, Pool!MerkleInsert, Pool!Note

\* What a withdrawal comes to.
LEMMA WithdrawEffect ==
  ASSUME NEW to, NEW sig, Pool!Withdraw(to, sig)
  PROVE  /\ sig.nullifierHash \notin nullifiers
         /\ leaves' = leaves
         /\ nullifiers' = nullifiers \cup {sig.nullifierHash}
<1>1. Pool!Succeeds(Pool!WithdrawChecks(to, sig))
  BY DEF Pool!Withdraw
<1>2. PoolProofs!Succeeds(PoolProofs!WithdrawChecks(to, sig))
  BY <1>1, SameChecks
<1>3. QED
  BY <1>2, PoolConstants, PoolProofs!WithdrawConditions DEF Pool!Withdraw

-----------------------------------------------------------------------------
(* The steps of the terminal, and those of the chain.                      *)

\* A call that has a transaction has begun, and its note is the wallet's.
LEMMA SentCalls ==
  ASSUME StateInv, CallInv, NEW c \in Calls, txs[c] # "none"
  PROVE  Begun(c) /\ calls[c] \in BegunCalls /\ calls[c].note \in WalletNotes
<1>1. calls[c].stage \notin Unsent
  BY DEF CallInv
<1>2. calls[c] # Idle
  BY <1>1, BegunCallsAre DEF StateInv, Unsent
<1>3. calls[c] \in BegunCalls
  BY <1>2 DEF StateInv, BegunCalls
<1>4. QED
  BY <1>2, <1>3, BegunCallsAre DEF Begun

\* What a step of the page does to the vault: nothing, and then no call comes to
\* read or write it, or a call reads or writes it.
VaultSteps ==
  \/ /\ UNCHANGED vault
     /\ \A c \in Calls : calls'[c].stage \in {"writing", "done"} =>
          calls[c].stage = calls'[c].stage
  \/ \E c \in Calls : PollSuccess(c) \/ WriteVault(c)

\* What a step of the page leaves of the chain and does to the calls.
AppStep ==
  /\ StateInv'
  /\ UNCHANGED chain
  /\ VaultSteps
  /\ \A c \in Calls :
       /\ CallSteps(c)
       /\ \/ txs'[c] = txs[c]
          \/ /\ txs[c] = "none" /\ txs'[c] = "pending"
             /\ calls'[c].stage \notin Unsent \cup {"writing", "done"}
  /\ \E c \in Calls : \A d \in Calls \ {c} : calls'[d] = calls[d]

\* A call that reads the vault: what it read is a list, and it writes next.
LEMMA ReadSteps ==
  ASSUME StateInv, NEW c \in Calls, PollSuccess(c)
  PROVE  /\ read' = [read EXCEPT ![c] = [stored |-> stored, marked |-> marked]]
         /\ calls'[c].stage = "writing"
         /\ \A d \in Calls \ {c} : calls'[d] = calls[d]
         /\ StateInv' /\ UNCHANGED <<chain, txs, stored, marked, missed, overwritten>>
<1>1. /\ Active(c) /\ Goto(c, "writing") /\ calls[c] \in BegunCalls
      /\ calls[c].stage = "polling"
  BY ActiveCalls DEF PollSuccess, LoadNotes, At, Active, Awaiting
<1>2. /\ calls' \in [Calls -> CallStates]
      /\ \A d \in Calls \ {c} : calls'[d] = calls[d]
      /\ calls'[c] = [calls[c] EXCEPT !.stage = "writing"]
  BY <1>1, GotoSteps DEF Awaiting, Unsent
<1>3. calls'[c].stage = "writing"
  BY <1>1, <1>2, BegunCallsAre
<1>4. /\ read' = [read EXCEPT ![c] = [stored |-> stored, marked |-> marked]]
      /\ UNCHANGED <<chain, txs, stored, marked, missed, overwritten>>
  BY DEF PollSuccess, LoadNotes
<1>5. /\ read' \in [Calls -> Lists]
      /\ \A d \in Calls : read'[d].marked \subseteq read'[d].stored
  BY <1>4 DEF StateInv, Lists
<1>6. QED
  BY <1>2, <1>3, <1>4, <1>5 DEF StateInv, chain, pool

\* A call that writes the vault: what it had read, with its own effect.
LEMMA WriteSteps ==
  ASSUME StateInv, NEW c \in Calls, WriteVault(c)
  PROVE  /\ calls[c] \in BegunCalls /\ calls[c].stage = "writing"
         /\ calls'[c] = [calls[c] EXCEPT !.stage = "done"]
         /\ calls'[c].stage = "done"
         /\ \A d \in Calls \ {c} : calls'[d] = calls[d] /\ read'[d] = read[d]
         /\ read'[c] = NoNotes
         /\ StateInv' /\ UNCHANGED <<chain, txs>>
<1>1. /\ Active(c) /\ Goto(c, "done") /\ calls[c] \in BegunCalls
      /\ calls[c].stage = "writing"
  BY ActiveCalls DEF WriteVault, At, Active, Awaiting
<1>2. /\ calls' \in [Calls -> CallStates]
      /\ \A d \in Calls \ {c} : calls'[d] = calls[d]
      /\ calls'[c] = [calls[c] EXCEPT !.stage = "done"]
  BY <1>1, GotoSteps DEF Awaiting, Unsent
<1>3. calls'[c].stage = "done" /\ calls[c].note \in WalletNotes
  BY <1>1, <1>2, BegunCallsAre
<1>4. read[c] \in Lists /\ read[c].marked \subseteq read[c].stored
  BY DEF StateInv
<1>5. stored' \subseteq WalletNotes /\ marked' \subseteq stored'
  <2>1. CASE AddNote(c)
    BY <1>3, <1>4, <2>1 DEF AddNote, Lists
  <2>2. CASE MarkSpent(c)
    BY <1>3, <1>4, <2>2 DEF MarkSpent, Lists
  <2>3. QED
    BY <2>1, <2>2 DEF WriteVault
<1>6. read' = [read EXCEPT ![c] = NoNotes] /\ NoNotes \in Lists
  BY DEF WriteVault, NoNotes, Lists
<1>7. /\ read' \in [Calls -> Lists] /\ read'[c] = NoNotes
      /\ \A d \in Calls \ {c} : read'[d] = read[d]
      /\ \A d \in Calls : read'[d].marked \subseteq read'[d].stored
  BY <1>6 DEF StateInv, NoNotes
<1>8. missed' \in [Calls -> SUBSET Calls] /\ overwritten' \subseteq Calls
  BY DEF WriteVault, StateInv
<1>9. UNCHANGED <<chain, txs>>
  BY DEF WriteVault
<1>10. QED
  BY <1>1, <1>2, <1>3, <1>5, <1>7, <1>8, <1>9 DEF StateInv, chain, pool

\* A dialog, an await that is over and a reload are steps of the page.
LEMMA PageSteps ==
  ASSUME StateInv, CallInv,
         \/ \E c \in Calls, amount \in Amounts, nullifier \in WalletNullifiers :
              Shield(c, amount, nullifier)
         \/ \E c \in Calls, note \in Listed, recipient \in Accounts :
              Settle(c, note, recipient)
         \/ \E c \in Calls : Progress(c)
         \/ \E c \in Calls : Reload(c)
  PROVE  AppStep
<1>1. ASSUME NEW c \in Calls,
             \/ \E amount \in Amounts, nullifier \in WalletNullifiers :
                  Shield(c, amount, nullifier)
             \/ \E note \in Listed, recipient \in Accounts :
                  Settle(c, note, recipient)
      PROVE  AppStep
  <2>1. /\ calls' \in [Calls -> CallStates]
        /\ \A d \in Calls : CallSteps(d)
        /\ \A d \in Calls \ {c} : calls'[d] = calls[d]
        /\ calls'[c].stage \in {"reading", "account"}
    BY <1>1, DialogSteps DEF Begins
  <2>2. UNCHANGED <<chain, txs, vault>>
    BY <1>1 DEF Shield, Settle
  <2>3. QED
    BY <2>1, <2>2 DEF AppStep, VaultSteps, StateInv, chain, pool, vault
<1>2. ASSUME NEW c \in Calls, Progress(c)
      PROVE  AppStep
  <2>1. /\ calls' \in [Calls -> CallStates]
        /\ \A d \in Calls : CallSteps(d)
        /\ \A d \in Calls \ {c} : calls'[d] = calls[d]
        /\ GoesOn(c)
    BY <1>2, ProgressSteps
  <2>2. calls[c] \in BegunCalls
    BY <2>1, ActiveCalls DEF GoesOn
  <2>3. CASE Submit(c)
    <3>1. calls'[c].stage \in {"polling", "error"}
      BY <2>3, <2>2, BegunCallsAre DEF Submit, Goto, StateInv
    <3>2. /\ txs[c] = "none"
          /\ txs' = [txs EXCEPT ![c] = "pending"]
          /\ UNCHANGED <<chain, vault>>
      BY <2>3 DEF Submit, At, CallInv, Unsent
    <3>3. txs' \in [Calls -> Results] /\ txs'[c] = "pending"
          /\ \A d \in Calls \ {c} : txs'[d] = txs[d]
      BY <3>2 DEF StateInv, Results
    <3>4. QED
      BY <2>1, <3>1, <3>2, <3>3
         DEF AppStep, VaultSteps, StateInv, chain, pool, vault, Unsent
  <2>4. CASE PollSuccess(c)
    BY <2>1, <2>4, ReadSteps DEF AppStep, VaultSteps
  <2>5. CASE WriteVault(c)
    BY <2>1, <2>5, WriteSteps DEF AppStep, VaultSteps
  <2>6. CASE ~Submit(c) /\ ~PollSuccess(c) /\ ~WriteVault(c)
    <3>1. UNCHANGED <<chain, txs, vault>>
      BY <1>2, <2>6 DEF Progress, ReadPool, GetAccount, Prepare, NotTaken,
                        PollFailed, PollNotFound, RequestFails
    <3>2. calls'[c].stage \notin {"writing", "done"}
      <4>1. ASSUME NEW stage, Goto(c, stage) PROVE calls'[c].stage = stage
        BY <4>1, <2>2, BegunCallsAre DEF Goto, StateInv
      <4>2. CASE ReadPool(c) \/ GetAccount(c) \/ PollNotFound(c)
        <5>1. CASE ReadPool(c)
          BY <2>2, <5>1, BegunCallsAre DEF ReadPool, StateInv
        <5>2. CASE GetAccount(c)
          BY <2>2, <5>2, BegunCallsAre DEF GetAccount, StateInv
        <5>3. CASE PollNotFound(c) /\ calls[c].polls < MaxPolls
          BY <2>2, <5>3, BegunCallsAre DEF PollNotFound, StateInv, At
        <5>4. CASE PollNotFound(c) /\ ~(calls[c].polls < MaxPolls)
          BY <4>1, <5>4 DEF PollNotFound
        <5>5. QED
          BY <4>2, <5>1, <5>2, <5>3, <5>4
      <4>3. CASE Prepare(c) \/ NotTaken(c) \/ PollFailed(c) \/ RequestFails(c)
        <5>1. \E stage \in {"sending", "error", "polling"} : Goto(c, stage)
          BY <4>3 DEF Prepare, NotTaken, PollFailed, RequestFails
        <5>2. QED
          BY <4>1, <5>1
      <4>4. QED
        BY <1>2, <2>6, <4>2, <4>3 DEF Progress
    <3>3. QED
      BY <2>1, <3>1, <3>2 DEF AppStep, VaultSteps, StateInv, chain, pool, vault
  <2>7. QED
    BY <2>3, <2>4, <2>5, <2>6
<1>3. ASSUME NEW c \in Calls, Reload(c)
      PROVE  AppStep
  <2>1. UNCHANGED <<chain, txs, vault>>
    BY <1>3 DEF Reload
  <2>2. /\ calls' \in [Calls -> CallStates]
        /\ \A d \in Calls : CallSteps(d)
        /\ \A d \in Calls \ {c} : calls'[d] = calls[d]
        /\ calls'[c].stage = "gone"
    BY <1>3, ReloadSteps
  <2>3. QED
    BY <2>1, <2>2 DEF AppStep, VaultSteps, StateInv, chain, pool, vault
<1>4. QED
  BY <1>1, <1>2, <1>3

\* What a step of the chain does to the wallet's transactions.
Takes(c) ==
  /\ txs[c] = "pending"
  /\ seq' = seq + 1
  /\ \/ /\ txs' = [txs EXCEPT ![c] = "success"]
        /\ nullifiers \subseteq nullifiers'
        /\ IF calls[c].kind = "shield"
           THEN leaves' = Append(leaves, calls[c].note)
           ELSE /\ leaves' = leaves
                /\ calls[c].note.nullifier \notin nullifiers
                /\ calls[c].note.nullifier \in nullifiers'
     \/ /\ txs' = [txs EXCEPT ![c] = "failed"]
        /\ UNCHANGED <<leaves, nullifiers>>

\* A transaction lapses, without effect.
Drops(c) ==
  /\ txs[c] = "pending"
  /\ txs' = [txs EXCEPT ![c] = "lapsed"]
  /\ UNCHANGED <<seq, leaves, nullifiers>>

\* The chain goes on without the wallet's transactions.
PassesBy ==
  /\ UNCHANGED <<txs, seq, nullifiers>>
  /\ Grows

\* A step of the chain, as the calls and the vault see it.
ChainStep ==
  /\ UNCHANGED <<calls, vault>>
  /\ (\E c \in Calls : Takes(c) \/ Drops(c)) \/ PassesBy

\* A ledger that closes over the wallet's transaction, or another's, and a
\* transaction that lapses, are steps of the chain.
LEMMA ChainSteps ==
  ASSUME StateInv, CallInv,
         \/ \E c \in Calls : Execute(c) \/ Lapse(c)
         \/ OthersSettle
         \/ UNCHANGED vars
  PROVE  ChainStep
<1>1. ASSUME NEW c \in Calls, Execute(c) PROVE ChainStep
  <2>1. calls[c] \in BegunCalls /\ calls[c].note \in WalletNotes
    BY <1>1, SentCalls DEF Execute
  <2>2. /\ calls[c].note.value \in Amounts
        /\ calls[c].note.nullifier \in Nullifiers
        /\ calls[c].note = [nullifier |-> calls[c].note.nullifier,
                            value |-> calls[c].note.value]
    BY <2>1, TerminalAssumption DEF WalletNotes
  <2>3. CASE Apply(c) /\ txs' = [txs EXCEPT ![c] = "success"]
    <3>1. CASE calls[c].kind = "shield"
      <4>1. Pool!Deposit(Wallet, calls[c].note.value, calls[c].note.nullifier)
        BY <2>3, <3>1 DEF Apply
      <4>2. leaves' = Append(leaves, calls[c].note) /\ nullifiers' = nullifiers
        BY <2>2, <4>1, DepositEffect
      <4>3. QED
        BY <1>1, <2>3, <3>1, <4>2 DEF Execute, ChainStep, Takes, vault
    <3>2. CASE calls[c].kind # "shield"
      <4>1. Pool!Withdraw(Wallet, Signals(c))
        BY <2>3, <3>2 DEF Apply
      <4>2. Signals(c).nullifierHash = calls[c].note.nullifier
        BY DEF Signals
      <4>3. /\ calls[c].note.nullifier \notin nullifiers
            /\ leaves' = leaves
            /\ nullifiers' = nullifiers \cup {calls[c].note.nullifier}
        BY <4>1, <4>2, WithdrawEffect
      <4>4. QED
        BY <1>1, <2>3, <3>2, <4>3 DEF Execute, ChainStep, Takes, vault
    <3>3. QED
      BY <3>1, <3>2
  <2>4. CASE txs' = [txs EXCEPT ![c] = "failed"] /\ UNCHANGED pool
    BY <1>1, <2>4 DEF Execute, ChainStep, Takes, vault, pool
  <2>5. QED
    BY <1>1, <2>3, <2>4 DEF Execute
<1>2. ASSUME NEW c \in Calls, Lapse(c) PROVE ChainStep
  BY <1>2 DEF Lapse, ChainStep, Drops, chain, pool, vault
<1>3. CASE OthersSettle
  <2>1. PICK from \in Accounts \ {Wallet}, amount \in Amounts,
             nullifier \in Nullifiers \ WalletNullifiers :
               Pool!Deposit(from, amount, nullifier)
    BY <1>3 DEF OthersSettle
  <2>2. Grows /\ nullifiers' = nullifiers
    BY <2>1, DepositEffect DEF Grows
  <2>3. QED
    BY <1>3, <2>2 DEF OthersSettle, ChainStep, PassesBy, vault
<1>4. CASE UNCHANGED vars
  BY <1>4 DEF vars, chain, pool, vault, ChainStep, PassesBy, Grows
<1>5. QED
  BY <1>1, <1>2, <1>3, <1>4

\* Every step is one or the other.
LEMMA StepsAre ==
  ASSUME StateInv, CallInv, [Next]_vars
  PROVE  AppStep \/ ChainStep
BY PageSteps, ChainSteps DEF Next

\* What both leave as it was, or add to.
LEMMA NothingIsLost ==
  ASSUME StateInv, CallInv, AppStep \/ ChainStep
  PROVE  /\ StateInv'
         /\ Grows
         /\ \A c \in Calls : CallSteps(c)
         /\ nullifiers \subseteq nullifiers'
<1>1. CASE AppStep
  BY <1>1 DEF AppStep, Grows, chain, pool
<1>2. CASE ChainStep
  <2>1. \A c \in Calls : CallSteps(c)
    BY <1>2 DEF ChainStep, CallSteps
  <2>2. Grows
    <3>1. ASSUME NEW c \in Calls, Takes(c) PROVE Grows
      BY <3>1, SentCalls, WalletNotesAreNotes DEF Takes, Grows
    <3>2. QED
      BY <1>2, <3>1 DEF ChainStep, Drops, PassesBy, Grows
  <2>3. nullifiers \subseteq nullifiers'
    BY <1>2 DEF ChainStep, Takes, Drops, PassesBy
  <2>4. leaves' \in Seq(Pool!Note)
    BY <2>2 DEF Grows, StateInv
  <2>5. seq' \in Nat /\ txs' \in [Calls -> Results]
    <3>1. ASSUME NEW c \in Calls, Takes(c)
          PROVE  seq' \in Nat /\ txs' \in [Calls -> Results]
      BY <3>1 DEF Takes, StateInv, Results
    <3>2. ASSUME NEW c \in Calls, Drops(c)
          PROVE  seq' \in Nat /\ txs' \in [Calls -> Results]
      BY <3>2 DEF Drops, StateInv, Results
    <3>3. QED
      BY <1>2, <3>1, <3>2 DEF ChainStep, PassesBy, StateInv
  <2>6. QED
    BY <1>2, <2>1, <2>2, <2>3, <2>4, <2>5 DEF ChainStep, StateInv, vault
<1>3. QED
  BY <1>1, <1>2

\* The trees the pool has gone through, and the leaves of the tree, grow.
LEMMA TreeGrows ==
  ASSUME StateInv, Grows
  PROVE  /\ Earlier \subseteq Earlier'
         /\ leaves \in Earlier /\ << >> \in Earlier'
         /\ Pool!Leaves(leaves) \subseteq Pool!Leaves(leaves)'
<1>1. ASSUME NEW note \in Pool!Note, leaves' = Append(leaves, note)
      PROVE  /\ Len(leaves') = Len(leaves) + 1
             /\ \A n \in 0 .. Len(leaves) : SubSeq(leaves', 1, n) = SubSeq(leaves, 1, n)
             /\ Pool!Leaves(leaves) \subseteq Pool!Leaves(leaves)'
  BY <1>1 DEF StateInv, Pool!Leaves
<1>2. Earlier \subseteq Earlier'
  BY <1>1 DEF Grows, Earlier, StateInv
<1>3. Pool!Leaves(leaves) \subseteq Pool!Leaves(leaves)'
  BY <1>1 DEF Grows
<1>4. /\ Len(leaves) \in Nat /\ Len(leaves') \in Nat
      /\ SubSeq(leaves, 1, Len(leaves)) = leaves
      /\ SubSeq(leaves', 1, 0) = << >>
  BY DEF StateInv, Grows
<1>5. leaves \in Earlier
  <2>1. Len(leaves) \in 0 .. Len(leaves)
    BY <1>4
  <2>2. SubSeq(leaves, 1, Len(leaves)) \in Earlier
    BY <2>1 DEF Earlier
  <2>3. QED
    BY <1>4, <2>2
<1>6. << >> \in Earlier'
  BY <1>4 DEF Earlier
<1>7. QED
  BY <1>2, <1>3, <1>5, <1>6

(* The invariants.                                                         *)

\* A transaction that took effect has done so for good.
LEMMA SuccessStays ==
  ASSUME StateInv, AppStep \/ ChainStep, NEW c \in Calls, txs[c] = "success"
  PROVE  txs'[c] = "success"
<1>1. ASSUME NEW d \in Calls, Takes(d) \/ Drops(d) PROVE txs'[c] = txs[c]
  BY <1>1 DEF Takes, Drops, StateInv
<1>2. QED
  BY <1>1 DEF AppStep, ChainStep, PassesBy

\* What a call holds on to stays.
LEMMA CallInvStep ==
  ASSUME StateInv, CallInv, AppStep \/ ChainStep
  PROVE  CallInv'
<1> SUFFICES ASSUME NEW c \in Calls
             PROVE  /\ Begun(c)' => calls'[c].root \in Earlier'
                    /\ calls'[c].stage \in Unsent => txs'[c] = "none"
                    /\ calls'[c].stage \in {"writing", "done"}
                         => txs'[c] = "success"
  BY DEF CallInv
<1>1. /\ StateInv' /\ Grows /\ CallSteps(c)
      /\ Active(c) => Begun(c)
  BY NothingIsLost, ActiveCalls
<1>2. /\ Earlier \subseteq Earlier'
      /\ leaves \in Earlier /\ << >> \in Earlier'
  BY <1>1, TreeGrows
<1>3. Begun(c)' => calls'[c].root \in Earlier'
  <2>1. CASE calls'[c] = calls[c]
    BY <1>2, <2>1 DEF CallInv, Begun
  <2>2. CASE Begins(c)
    BY <1>2, <2>2 DEF Begins
  <2>3. CASE GoesOn(c)
    BY <1>1, <1>2, <2>3 DEF GoesOn, CallInv
  <2>4. QED
    BY <1>1, <2>1, <2>2, <2>3 DEF CallSteps
<1>4. calls'[c].stage \in Unsent => txs'[c] = "none"
  <2>1. CASE AppStep
    <3>1. calls'[c].stage \in Unsent => calls[c].stage \in Unsent
      <4>1. ~Begun(c) => calls[c].stage \in Unsent
        BY DEF Begun, Idle, Unsent
      <4>2. QED
        BY <1>1, <4>1 DEF CallSteps, Begins, GoesOn
    <3>2. QED
      BY <2>1, <3>1 DEF AppStep, CallInv
  <2>2. CASE ChainStep
    <3>1. ASSUME NEW d \in Calls, Takes(d) \/ Drops(d), d = c
          PROVE  calls'[c].stage \notin Unsent
      BY <2>2, <3>1 DEF ChainStep, Takes, Drops, CallInv
    <3>2. ASSUME NEW d \in Calls, Takes(d) \/ Drops(d), d # c
          PROVE  txs'[c] = txs[c]
      BY <3>2 DEF Takes, Drops, StateInv
    <3>3. QED
      BY <2>2, <3>1, <3>2 DEF ChainStep, PassesBy, CallInv
  <2>3. QED
    BY <2>1, <2>2
<1>5. calls'[c].stage \in {"writing", "done"} => txs'[c] = "success"
  <2> SUFFICES ASSUME calls'[c].stage \in {"writing", "done"}
               PROVE  txs[c] = "success"
    BY SuccessStays
  <2>1. CASE calls[c].stage \in {"writing", "done"}
    BY <2>1 DEF CallInv
  <2>2. ASSUME NEW d \in Calls, PollSuccess(d) \/ WriteVault(d),
               calls[c].stage \notin {"writing", "done"}
        PROVE  txs[c] = "success"
    <3>1. calls'[c] # calls[c]
      BY <2>2
    <3>2. c = d
      BY <2>2, <3>1, ReadSteps, WriteSteps
    <3>3. QED
      BY <2>2, <3>2, WriteSteps DEF PollSuccess
  <2>3. CASE ChainStep
    BY <2>1, <2>3 DEF ChainStep
  <2>4. CASE AppStep
    BY <2>1, <2>2, <2>4 DEF AppStep, VaultSteps
  <2>5. QED
    BY <2>3, <2>4
<1>6. QED
  BY <1>3, <1>4, <1>5

\* What is listed stays listed, since a call that is done is done for good.
LEMMA ListedGrows ==
  ASSUME StateInv, CallInv, AppStep \/ ChainStep
  PROVE  Listed \subseteq Listed'
<1> SUFFICES ASSUME NEW c \in Calls, At(c, "done"), calls[c].kind = "shield"
             PROVE  calls[c].note \in Listed'
  BY DEF Listed
<1>1. CallSteps(c)
  BY NothingIsLost
<1>2. Begun(c) /\ ~Active(c)
  BY DEF At, Begun, Idle, Active, Awaiting
<1>3. calls'[c] = calls[c]
  BY <1>1, <1>2 DEF CallSteps, Begins, GoesOn
<1>4. QED
  BY <1>3 DEF Listed, At

\* A fresh note is another than those drawn before it.
LEMMA NoteInvStep ==
  ASSUME StateInv, CallInv, NoteInv, AppStep \/ ChainStep
  PROVE  NoteInv'
<1>1. /\ \A c \in Calls : CallSteps(c)
      /\ \A c \in Calls : Active(c) => Begun(c)
      /\ Listed \subseteq Listed'
  BY NothingIsLost, ActiveCalls, ListedGrows
<1>2. ASSUME NEW c \in Calls, Begun(c)
      PROVE  calls'[c].note = calls[c].note /\ calls'[c].kind = calls[c].kind
  BY <1>1, <1>2 DEF CallSteps, Begins, GoesOn
<1>3. ASSUME NEW c \in Calls, Begun(c)', ~Begun(c)
      PROVE  Begins(c)
  BY <1>1, <1>3 DEF CallSteps, GoesOn, Begun
<1>4. ASSUME NEW c \in Calls, NEW d \in Calls, c # d, Begun(c)', Begun(d)',
             calls'[c].kind = "shield", calls'[d].kind = "shield", ~Begun(c)
      PROVE  calls'[c].note # calls'[d].note
  <2>1. Begins(c) /\ calls'[c] # calls[c]
    BY <1>3, <1>4 DEF Begun
  <2>2. calls'[d] = calls[d]
    BY <1>4, <2>1 DEF AppStep, ChainStep
  <2>3. Begun(d) /\ ~At(d, "idle")
    BY <1>4, <2>2, BegunCallsAre DEF Begun, StateInv, At
  <2>4. calls[d].note.nullifier \in Drawn
    BY <2>3 DEF Drawn
  <2>5. calls'[c].note.nullifier \notin Drawn
    BY <1>4, <2>1 DEF Begins
  <2>6. QED
    BY <2>2, <2>4, <2>5
<1>5. ASSUME NEW c \in Calls, NEW d \in Calls, c # d, Begun(c)', Begun(d)',
             calls'[c].kind = "shield", calls'[d].kind = "shield"
      PROVE  calls'[c].note # calls'[d].note
  <2>1. CASE Begun(c) /\ Begun(d)
    BY <1>2, <1>5, <2>1 DEF NoteInv
  <2>2. QED
    BY <1>4, <1>5, <2>1
<1>6. ASSUME NEW c \in Calls, Begun(c)', calls'[c].kind = "settle"
      PROVE  calls'[c].note \in Listed'
  <2>1. CASE Begun(c)
    BY <1>1, <1>2, <1>6, <2>1 DEF NoteInv
  <2>2. CASE ~Begun(c)
    BY <1>1, <1>3, <1>6, <2>2 DEF Begins
  <2>3. QED
    BY <2>1, <2>2
<1>7. QED
  BY <1>5, <1>6 DEF NoteInv

\* A transaction's success is new only when a ledger has just taken it.
LEMMA NewSuccess ==
  ASSUME StateInv, CallInv, AppStep \/ ChainStep, NEW c \in Calls,
         txs'[c] = "success"
  PROVE  /\ Begun(c)
         /\ calls'[c].note = calls[c].note /\ calls'[c].kind = calls[c].kind
         /\ calls[c].kind \in {"shield", "settle"}
         /\ \/ txs[c] = "success"
            \/ ChainStep /\ Takes(c) /\ \A d \in Calls \ {c} : txs'[d] = txs[d]
<1>1. \/ txs[c] = "success"
      \/ ChainStep /\ Takes(c) /\ \A d \in Calls \ {c} : txs'[d] = txs[d]
  <2>1. CASE AppStep
    BY <2>1 DEF AppStep
  <2>2. CASE ChainStep
    <3>1. ASSUME NEW d \in Calls, Takes(d) \/ Drops(d), d # c
          PROVE  txs'[c] = txs[c]
      BY <3>1 DEF Takes, Drops, StateInv
    <3>2. ASSUME Drops(c) PROVE txs'[c] = "lapsed"
      BY <3>2 DEF Drops, StateInv
    <3>3. ASSUME Takes(c) PROVE \A d \in Calls \ {c} : txs'[d] = txs[d]
      BY <3>3 DEF Takes, StateInv
    <3>4. QED
      BY <2>2, <3>1, <3>2, <3>3 DEF ChainStep, PassesBy
  <2>3. QED
    BY <2>1, <2>2
<1>2. txs[c] # "none"
  BY <1>1 DEF Takes
<1>3. Begun(c) /\ calls[c] \in BegunCalls
  BY <1>2, SentCalls
<1>4. calls'[c].note = calls[c].note /\ calls'[c].kind = calls[c].kind
  BY <1>3, NothingIsLost DEF CallSteps, Begins, GoesOn
<1>5. calls[c].kind \in {"shield", "settle"}
  BY <1>3, BegunCallsAre
<1>6. QED
  BY <1>1, <1>3, <1>4, <1>5

\* The effect of a transaction stays.
LEMMA EffectInvStep ==
  ASSUME StateInv, CallInv, EffectInv, AppStep \/ ChainStep
  PROVE  EffectInv'
<1> SUFFICES ASSUME NEW c \in Calls, txs'[c] = "success"
             PROVE  IF calls'[c].kind = "shield"
                    THEN calls'[c].note \in Pool!Leaves(leaves)'
                    ELSE calls'[c].note.nullifier \in nullifiers'
  BY DEF EffectInv
<1>1. /\ Begun(c)
      /\ calls'[c].note = calls[c].note /\ calls'[c].kind = calls[c].kind
      /\ \/ txs[c] = "success"
         \/ ChainStep /\ Takes(c)
  BY NewSuccess
<1>2. /\ Pool!Leaves(leaves) \subseteq Pool!Leaves(leaves)'
      /\ nullifiers \subseteq nullifiers'
  BY NothingIsLost, TreeGrows
<1>3. CASE txs[c] = "success"
  BY <1>1, <1>2, <1>3 DEF EffectInv
<1>4. CASE Takes(c) /\ txs[c] # "success"
  <2>1. txs' # [txs EXCEPT ![c] = "failed"]
    BY DEF StateInv
  <2>2. IF calls[c].kind = "shield"
        THEN leaves' = Append(leaves, calls[c].note)
        ELSE calls[c].note.nullifier \in nullifiers'
    BY <1>4, <2>1 DEF Takes
  <2>3. ASSUME leaves' = Append(leaves, calls[c].note)
        PROVE  calls[c].note \in Pool!Leaves(leaves)'
    <3>1. /\ Len(leaves) + 1 \in DOMAIN leaves'
          /\ leaves'[Len(leaves) + 1] = calls[c].note
      BY <2>3 DEF StateInv
    <3>2. QED
      BY <3>1 DEF Pool!Leaves
  <2>4. QED
    BY <1>1, <2>2, <2>3
<1>5. QED
  BY <1>1, <1>3, <1>4

\* Each transaction a ledger takes uses up one sequence number.
LEMMA SequenceInvStep ==
  ASSUME StateInv, CallInv, SequenceInv, AppStep \/ ChainStep
  PROVE  SequenceInv'
<1>1. IsFiniteSet(Executed)
  BY TerminalAssumption, FS_Subset DEF Executed
<1>2. Executed' = {c \in Calls : txs'[c] \in {"success", "failed"}}
  BY DEF Executed
<1>3. CASE AppStep
  <2>1. Executed' = Executed
    BY <1>2, <1>3 DEF AppStep, Executed
  <2>2. seq' = seq
    BY <1>3 DEF AppStep, chain
  <2>3. QED
    BY <2>1, <2>2 DEF SequenceInv
<1>4. ASSUME NEW c \in Calls, Takes(c) PROVE SequenceInv'
  <2>1. /\ c \notin Executed
        /\ txs'[c] \in {"success", "failed"}
        /\ \A d \in Calls \ {c} : txs'[d] = txs[d]
    BY <1>4 DEF Takes, StateInv, Executed
  <2>2. Executed' = Executed \cup {c}
    BY <1>2, <2>1 DEF Executed
  <2>3. Cardinality(Executed \cup {c}) = Cardinality(Executed) + 1
    BY <1>1, <2>1, FS_AddElement
  <2>4. seq' = seq + 1
    BY <1>4 DEF Takes
  <2>5. QED
    BY <2>2, <2>3, <2>4 DEF SequenceInv
<1>5. ASSUME NEW c \in Calls, Drops(c) PROVE SequenceInv'
  <2>1. Executed' = Executed
    BY <1>2, <1>5 DEF Drops, StateInv, Executed
  <2>2. seq' = seq
    BY <1>5 DEF Drops
  <2>3. QED
    BY <2>1, <2>2 DEF SequenceInv
<1>6. CASE PassesBy
  BY <1>6 DEF PassesBy, SequenceInv, Executed
<1>7. QED
  BY <1>3, <1>4, <1>5, <1>6 DEF ChainStep

\* A note that was paid out has its nullifier spent, and is not paid out again.
LEMMA PaidOnceStep ==
  ASSUME StateInv, CallInv, EffectInv, PaidOnce, AppStep \/ ChainStep
  PROVE  PaidOnce'
<1> SUFFICES ASSUME NEW c \in Calls, NEW d \in Calls, c # d,
                    txs'[c] = "success", txs'[d] = "success",
                    calls'[c].kind = "settle", calls'[d].kind = "settle"
             PROVE  calls'[c].note # calls'[d].note
  BY DEF PaidOnce
<1>1. /\ calls'[c].note = calls[c].note /\ calls[c].kind = "settle"
      /\ calls'[d].note = calls[d].note /\ calls[d].kind = "settle"
  BY NewSuccess
<1>2. CASE txs[c] = "success" /\ txs[d] = "success"
  BY <1>1, <1>2 DEF PaidOnce
<1>3. ASSUME NEW a \in Calls, NEW b \in Calls, a # b,
             txs'[a] = "success", txs[a] # "success", txs'[b] = "success",
             calls[a].kind = "settle", calls[b].kind = "settle"
      PROVE  calls[a].note # calls[b].note
  <2>1. ChainStep /\ Takes(a) /\ \A e \in Calls \ {a} : txs'[e] = txs[e]
    BY <1>3, NewSuccess
  <2>2. txs[b] = "success"
    BY <1>3, <2>1
  <2>3. calls[b].note.nullifier \in nullifiers
    BY <1>3, <2>2 DEF EffectInv
  <2>4. txs' # [txs EXCEPT ![a] = "failed"]
    BY <1>3 DEF StateInv
  <2>5. calls[a].note.nullifier \notin nullifiers
    BY <1>3, <2>1, <2>4 DEF Takes
  <2>6. QED
    BY <2>3, <2>5
<1>4. QED
  BY <1>1, <1>2, <1>3

\* The vault, and what was read of it, follow what the chain has done, never what
\* it may do.
LEMMA VaultIsRealStep ==
  ASSUME StateInv, CallInv, EffectInv, ReadInv, VaultIsReal, AppStep \/ ChainStep
  PROVE  VaultIsReal' /\ ReadInv'
<1>1. /\ Pool!Leaves(leaves) \subseteq Pool!Leaves(leaves)'
      /\ nullifiers \subseteq nullifiers'
  BY NothingIsLost, TreeGrows
<1>2. CASE UNCHANGED vault
  BY <1>1, <1>2 DEF VaultIsReal, ReadInv, vault
<1>3. ASSUME NEW c \in Calls, PollSuccess(c)
      PROVE  VaultIsReal' /\ ReadInv'
  <2>1. /\ read' = [read EXCEPT ![c] = [stored |-> stored, marked |-> marked]]
        /\ UNCHANGED <<stored, marked>>
    BY <1>3, ReadSteps
  <2>2. VaultIsReal'
    BY <1>1, <2>1 DEF VaultIsReal
  <2>3. ASSUME NEW d \in Calls
        PROVE  /\ read'[d].stored \subseteq Pool!Leaves(leaves)'
               /\ \A note \in read'[d].marked : note.nullifier \in nullifiers'
    <3>1. CASE d = c
      BY <1>1, <2>1, <3>1 DEF VaultIsReal, StateInv
    <3>2. CASE d # c
      BY <1>1, <2>1, <3>2 DEF ReadInv, StateInv
    <3>3. QED
      BY <3>1, <3>2
  <2>4. QED
    BY <2>2, <2>3 DEF ReadInv
<1>4. ASSUME NEW c \in Calls, WriteVault(c)
      PROVE  VaultIsReal' /\ ReadInv'
  <2>1. IF calls[c].kind = "shield" THEN calls[c].note \in Pool!Leaves(leaves)
        ELSE calls[c].note.nullifier \in nullifiers
    BY <1>4, WriteSteps DEF CallInv, EffectInv
  <2>2. ASSUME calls[c].kind = "shield" PROVE VaultIsReal'
    BY <1>1, <1>4, <2>1, <2>2 DEF WriteVault, AddNote, VaultIsReal, ReadInv
  <2>3. ASSUME calls[c].kind # "shield" PROVE VaultIsReal'
    BY <1>1, <1>4, <2>1, <2>3 DEF WriteVault, MarkSpent, VaultIsReal, ReadInv
  <2>4. read'[c] = NoNotes /\ \A d \in Calls \ {c} : read'[d] = read[d]
    BY <1>4, WriteSteps
  <2>5. ReadInv'
    BY <1>1, <2>4 DEF ReadInv, NoNotes
  <2>6. QED
    BY <2>2, <2>3, <2>5
<1>5. QED
  BY <1>2, <1>3, <1>4 DEF AppStep, VaultSteps, ChainStep

\* The effect of a call is looked for in a list as it was before, since a call that
\* is done keeps its note and its kind.
LEMMA EffectStays ==
  ASSUME StateInv, CallInv, AppStep \/ ChainStep, NEW c \in Calls, At(c, "done"),
         NEW list, EffectIn(list, c)
  PROVE  /\ calls'[c] = calls[c]
         /\ IF calls'[c].kind = "shield" THEN calls'[c].note \in list.stored
            ELSE calls'[c].note \in list.stored => calls'[c].note \in list.marked
<1>1. CallSteps(c) /\ Begun(c) /\ ~Active(c)
  BY NothingIsLost DEF At, Begun, Idle, Active, Awaiting
<1>2. calls'[c] = calls[c]
  BY <1>1 DEF CallSteps, Begins, GoesOn
<1>3. QED
  BY <1>2 DEF EffectIn

\* A write keeps the effects that are in the list it read, and adds its own.
LEMMA WriteKeepsEffects ==
  ASSUME StateInv, NoteInv, NEW c \in Calls, NEW d \in Calls, WriteVault(c),
         c = d \/ (At(d, "done") /\ EffectIn(read[c], d))
  PROVE  EffectIn([stored |-> stored', marked |-> marked'], d)
<1>1. /\ calls[c].stage = "writing" /\ Begun(c)
      /\ calls[c].kind \in {"shield", "settle"}
  <2>1. calls[c] \in BegunCalls /\ calls[c].stage = "writing"
    BY WriteSteps
  <2>2. calls[c].kind \in {"shield", "settle"}
    BY <2>1, BegunCallsAre
  <2>3. QED
    BY <2>1, <2>2 DEF Begun, BegunCalls
<1>2. CASE c = d
  BY <1>1, <1>2 DEF WriteVault, AddNote, MarkSpent, EffectIn
<1>3. CASE c # d /\ calls[c].kind = "settle"
  BY <1>3 DEF WriteVault, MarkSpent, EffectIn
<1>4. CASE c # d /\ calls[c].kind = "shield"
  <2>1. /\ stored' = read[c].stored \cup {calls[c].note}
        /\ marked' = read[c].marked
    BY <1>4 DEF WriteVault, AddNote
  <2>2. CASE calls[d].kind = "shield"
    BY <1>4, <2>1, <2>2 DEF EffectIn
  <2>3. CASE calls[d].kind # "shield"
    <3>1. Begun(d) /\ calls[d].kind = "settle"
      <4>1. calls[d] # Idle
        BY <1>4 DEF At, Idle
      <4>2. calls[d] \in BegunCalls
        BY <4>1 DEF StateInv, BegunCalls
      <4>3. QED
        BY <2>3, <4>1, <4>2, BegunCallsAre DEF Begun
    <3>2. PICK e \in Calls : /\ At(e, "done") /\ calls[e].kind = "shield"
                             /\ calls[e].note = calls[d].note
      BY <3>1 DEF NoteInv, Listed
    <3>3. Begun(e) /\ e # c
      BY <1>1, <3>2 DEF At, Begun, Idle
    <3>4. calls[d].note # calls[c].note
      BY <1>1, <1>4, <3>2, <3>3 DEF NoteInv
    <3>5. QED
      BY <1>4, <2>1, <2>3, <3>4 DEF EffectIn
  <2>4. QED
    BY <2>2, <2>3
<1>5. QED
  BY <1>1, <1>2, <1>3, <1>4

\* The effect of a call that is done is lost to no write but one that missed it.
LEMMA VaultInvStep ==
  ASSUME StateInv, CallInv, NoteInv, VaultInv, AppStep \/ ChainStep
  PROVE  VaultInv'
<1> DEFINE list == [stored |-> stored, marked |-> marked]
           Has(l, c) ==
             IF calls'[c].kind = "shield" THEN calls'[c].note \in l.stored
             ELSE calls'[c].note \in l.stored => calls'[c].note \in l.marked
<1> SUFFICES ASSUME NEW c \in Calls, calls'[c].stage = "done",
                    c \notin overwritten'
             PROVE  /\ Has([stored |-> stored', marked |-> marked'], c)
                    /\ \A d \in Calls :
                         calls'[d].stage = "writing" /\ c \notin missed'[d] =>
                           Has(read'[d], c)
  BY DEF VaultInv, EffectIn, At
<1>1. ASSUME NEW l, At(c, "done"), EffectIn(l, c) PROVE Has(l, c)
  BY <1>1, EffectStays
<1> HIDE DEF Has
<1>2. CASE /\ UNCHANGED vault
           /\ \A d \in Calls : calls'[d].stage \in {"writing", "done"} =>
                calls[d].stage = calls'[d].stage
  <2>1. At(c, "done") /\ c \notin overwritten
    BY <1>2 DEF At, vault
  <2>2. Has(list, c)
    BY <1>1, <2>1 DEF VaultInv
  <2>3. ASSUME NEW d \in Calls, calls'[d].stage = "writing", c \notin missed'[d]
        PROVE  Has(read'[d], c)
    <3>1. At(d, "writing") /\ c \notin missed[d] /\ read'[d] = read[d]
      BY <1>2, <2>3 DEF At, vault
    <3>2. EffectIn(read[d], c)
      BY <2>1, <3>1 DEF VaultInv
    <3>3. QED
      BY <1>1, <2>1, <3>1, <3>2
  <2>4. QED
    BY <1>2, <2>2, <2>3 DEF vault
<1>3. ASSUME NEW e \in Calls, PollSuccess(e)
      PROVE  /\ Has([stored |-> stored', marked |-> marked'], c)
             /\ \A d \in Calls :
                  calls'[d].stage = "writing" /\ c \notin missed'[d] =>
                    Has(read'[d], c)
  <2>1. /\ read' = [read EXCEPT ![e] = list]
        /\ calls'[e].stage = "writing"
        /\ \A d \in Calls \ {e} : calls'[d] = calls[d]
        /\ UNCHANGED <<stored, marked, missed, overwritten>>
    BY <1>3, ReadSteps
  <2>2. At(c, "done") /\ c \notin overwritten
    BY <2>1 DEF At
  <2>3. Has(list, c)
    BY <1>1, <2>2 DEF VaultInv
  <2>4. ASSUME NEW d \in Calls, calls'[d].stage = "writing", c \notin missed'[d]
        PROVE  Has(read'[d], c)
    <3>1. CASE d = e
      BY <2>1, <2>3, <3>1 DEF StateInv
    <3>2. CASE d # e
      <4>1. At(d, "writing") /\ c \notin missed[d] /\ read'[d] = read[d]
        BY <2>1, <2>4, <3>2 DEF At, StateInv
      <4>2. EffectIn(read[d], c)
        BY <2>2, <4>1 DEF VaultInv
      <4>3. QED
        BY <1>1, <2>2, <4>1, <4>2
    <3>3. QED
      BY <3>1, <3>2
  <2>5. QED
    BY <2>1, <2>3, <2>4
<1>4. ASSUME NEW e \in Calls, WriteVault(e)
      PROVE  /\ Has([stored |-> stored', marked |-> marked'], c)
             /\ \A d \in Calls :
                  calls'[d].stage = "writing" /\ c \notin missed'[d] =>
                    Has(read'[d], c)
  <2>1. /\ At(e, "writing") /\ calls'[e].stage = "done"
        /\ calls'[e].note = calls[e].note /\ calls'[e].kind = calls[e].kind
        /\ \A d \in Calls \ {e} : calls'[d] = calls[d] /\ read'[d] = read[d]
    BY <1>4, WriteSteps, BegunCallsAre DEF At
  <2>2. /\ overwritten' = overwritten \cup missed[e]
        /\ \A d \in Calls \ {e} : missed'[d] =
             IF At(d, "writing") THEN missed[d] \cup {e} ELSE missed[d]
    BY <1>4 DEF WriteVault
  <2>3. c # e => At(c, "done") /\ c \notin overwritten /\ c \notin missed[e]
    BY <2>1, <2>2 DEF At
  <2>4. EffectIn([stored |-> stored', marked |-> marked'], c)
    <3>1. c # e => EffectIn(read[e], c)
      BY <2>1, <2>3 DEF VaultInv
    <3>2. QED
      BY <1>4, <2>3, <3>1, WriteKeepsEffects
  <2>5. Has([stored |-> stored', marked |-> marked'], c)
    BY <2>1, <2>4 DEF EffectIn, Has
  <2>6. ASSUME NEW d \in Calls, calls'[d].stage = "writing", c \notin missed'[d]
        PROVE  Has(read'[d], c)
    <3>1. /\ d # e /\ At(d, "writing") /\ c # e /\ c \notin missed[d]
          /\ read'[d] = read[d]
      BY <2>1, <2>2, <2>6 DEF At
    <3>2. EffectIn(read[d], c)
      BY <2>3, <3>1 DEF VaultInv
    <3>3. QED
      BY <1>1, <2>3, <3>1, <3>2
  <2>7. QED
    BY <2>5, <2>6
<1>5. CASE ChainStep
  BY <1>2, <1>5 DEF ChainStep
<1>6. QED
  BY <1>2, <1>3, <1>4, <1>5 DEF AppStep, VaultSteps

-----------------------------------------------------------------------------
(* The pool under the terminal.                                            *)

\* Every step of the terminal is a step of the pool, or none.
LEMMA PoolStep ==
  ASSUME StateInv, CallInv, [Next]_vars
  PROVE  [Pool!Next]_(Pool!vars)
<1>1. UNCHANGED pool => UNCHANGED Pool!vars
  BY DEF pool, Pool!vars, Pool!contract, Pool!tokens
<1>2. ASSUME NEW c \in Calls, Execute(c), Apply(c)
      PROVE  Pool!Next
  <2>1. /\ calls[c] \in BegunCalls /\ calls[c].note \in WalletNotes
        /\ Begun(c) /\ Wallet \in Accounts
    BY <1>2, SentCalls, TerminalAssumption DEF Execute
  <2>2. CASE calls[c].kind = "shield"
    <3>1. Pool!Deposit(Wallet, calls[c].note.value, calls[c].note.nullifier)
      BY <1>2, <2>2 DEF Apply
    <3>2. calls[c].note.value \in Amounts /\ calls[c].note.nullifier \in Nullifiers
      BY <2>1, TerminalAssumption DEF WalletNotes
    <3>3. QED
      BY <2>1, <3>1, <3>2 DEF Pool!Next
  <2>3. CASE calls[c].kind # "shield"
    <3>1. Pool!Withdraw(Wallet, Signals(c))
      BY <1>2, <2>3 DEF Apply
    <3>2. /\ calls[c].note.nullifier \in Nullifiers
          /\ calls[c].note.value \in Pool!Field
      BY <2>1, WalletNotesAreNotes DEF Pool!Note
    <3>3. calls[c].recipient \in Accounts
      BY <2>1, BegunCallsAre
    <3>4. calls[c].root \in Pool!Snapshots
      BY <2>1 DEF CallInv, Earlier, Pool!Snapshots
    <3>5. Signals(c) \in Pool!WithdrawSignals
      BY <3>2, <3>3, <3>4 DEF Signals, Pool!WithdrawSignals
    <3>6. QED
      BY <2>1, <3>1, <3>5 DEF Pool!Next
  <2>4. QED
    BY <2>2, <2>3
<1>3. CASE OthersSettle
  BY <1>3 DEF OthersSettle, Pool!Next
<1>4. \/ UNCHANGED pool
      \/ \E c \in Calls : Execute(c) /\ Apply(c)
      \/ OthersSettle
  BY DEF Next, Shield, Settle, Progress, ReadPool, GetAccount, Prepare, Submit,
         NotTaken, PollSuccess, LoadNotes, PollFailed, PollNotFound, WriteVault,
         RequestFails, Reload, Execute, Lapse, vars, chain
<1>5. QED
  BY <1>1, <1>2, <1>3, <1>4

-----------------------------------------------------------------------------
(* The theorems.                                                           *)

\* What all of them rest on.
TerminalInv ==
  /\ StateInv /\ CallInv /\ NoteInv /\ EffectInv /\ SequenceInv
  /\ VaultIsReal /\ ReadInv /\ VaultInv /\ PaidOnce

\* The invariant, from one case for each kind of step.
LEMMA TerminalInvariant == Spec => []TerminalInv
<1>1. Init => TerminalInv
  <2> SUFFICES ASSUME Init PROVE TerminalInv
    OBVIOUS
  <2>1. leaves = << >> /\ nullifiers = {}
    BY DEF Init, Pool!Init
  <2>2. \A c \in Calls : ~Begun(c) /\ calls[c].stage = "idle" /\ txs[c] = "none"
    BY DEF Init, Begun, Idle
  <2>3. Executed = {}
    BY <2>2 DEF Executed
  <2>4. StateInv
    BY <2>1 DEF Init, StateInv, Results, CallStates, Lists, NoNotes
  <2>5. CallInv /\ NoteInv /\ VaultInv
    BY <2>2 DEF CallInv, NoteInv, VaultInv, At
  <2>6. EffectInv /\ PaidOnce
    BY <2>2 DEF EffectInv, PaidOnce
  <2>7. SequenceInv
    BY <2>3, FS_EmptySet DEF SequenceInv, Init
  <2>8. VaultIsReal /\ ReadInv
    BY DEF VaultIsReal, ReadInv, Init, NoNotes
  <2>9. QED
    BY <2>4, <2>5, <2>6, <2>7, <2>8 DEF TerminalInv
<1>2. TerminalInv /\ [Next]_vars => TerminalInv'
  BY StepsAre, NothingIsLost, CallInvStep, NoteInvStep, EffectInvStep,
     SequenceInvStep, VaultIsRealStep, VaultInvStep, PaidOnceStep DEF TerminalInv
<1>3. QED
  BY <1>1, <1>2, PTL DEF Spec


(***************************************************************************)
(* The terminal uses the pool as its contract allows: a step of the page   *)
(* leaves the pool alone, and a ledger that takes a transaction of the     *)
(* wallet or of another makes one call of the contract, or none at all.    *)
(***************************************************************************)
THEOREM TerminalRunsPool == Spec => Pool!Spec
<1>1. Init => Pool!Init
  BY DEF Init
<1>2. TerminalInv /\ [Next]_vars => [Pool!Next]_(Pool!vars)
  BY PoolStep DEF TerminalInv
<1>3. QED
  BY <1>1, <1>2, TerminalInvariant, PTL DEF Spec, Pool!Spec

(***************************************************************************)
(* So what the contract promises holds whatever the browser does: reloads, *)
(* retries and lapses leave the escrow above the live notes, and leave     *)
(* every note with an unspent nullifier payable.                           *)
(***************************************************************************)
THEOREM TerminalKeepsPromises ==
  Spec => [](PoolProofs!Solvent /\ PoolProofs!Redeemable)
<1>1. PoolProofs!Spec => []PoolProofs!Solvent
  BY PoolConstants, PoolProofs!PoolSolvent
<1>2. PoolProofs!Spec => []PoolProofs!Redeemable
  BY PoolConstants, PoolProofs!PoolRedeemable
<1>3. QED
  BY <1>1, <1>2, TerminalRunsPool, SamePool, PTL

(***************************************************************************)
(* The types: a call polls at most MaxPolls times, the wallet's sequence   *)
(* number counts at most one transaction of each call, and what is marked  *)
(* in localStorage is stored there.                                        *)
(***************************************************************************)
THEOREM TerminalTypeCorrect == Spec => []TypeOK
<1>1. PoolProofs!TypeOK <=> Pool!TypeOK
  BY DEF PoolProofs!TypeOK, Pool!TypeOK, PoolProofs!Note, Pool!Note,
         PoolProofs!Field, Pool!Field
<1>2. PoolProofs!Spec => []PoolProofs!TypeOK
  BY PoolConstants, PoolProofs!PoolTypeCorrect
<1>3. TerminalInv /\ Pool!TypeOK => TypeOK
  <2> SUFFICES ASSUME TerminalInv, Pool!TypeOK PROVE TypeOK
    OBVIOUS
  <2> USE DEF TerminalInv
  <2>1. seq \in 0 .. Cardinality(Calls)
    <3>1. /\ IsFiniteSet(Executed) /\ IsFiniteSet(Calls)
          /\ Cardinality(Executed) <= Cardinality(Calls)
      BY TerminalAssumption, FS_Subset DEF Executed
    <3>2. Cardinality(Executed) \in Nat /\ Cardinality(Calls) \in Nat
      BY <3>1, FS_CardinalityType
    <3>3. QED
      BY <3>1, <3>2 DEF SequenceInv
  <2>2. ASSUME NEW c \in Calls
        PROVE  /\ calls[c].stage \in Awaiting \cup {"idle", "done", "error", "gone"}
               /\ ~At(c, "idle") => calls[c].polls \in 0 .. MaxPolls
    <3>1. CASE calls[c] = Idle
      BY <3>1 DEF Idle, At
    <3>2. CASE calls[c] # Idle
      <4>1. calls[c] \in BegunCalls
        BY <3>2 DEF StateInv, BegunCalls
      <4>2. QED
        BY <4>1, BegunCallsAre
    <3>3. QED
      BY <3>1, <3>2
  <2>3. QED
    BY <2>1, <2>2, WalletNotesAreNotes DEF TypeOK, StateInv, Results
<1>4. QED
  BY <1>1, <1>2, <1>3, TerminalInvariant, TerminalRunsPool, SamePool, PTL

(***************************************************************************)
(* A position listed in localStorage is a leaf of the pool and one marked  *)
(* spent is spent, whatever failed, lapsed or was tried again: addNote and *)
(* markSpent come after a result that was found, and a leaf or a nullifier *)
(* on the chain stays there.                                               *)
(***************************************************************************)
THEOREM TerminalVaultIsReal == Spec => []VaultIsReal
<1>1. TerminalInv => VaultIsReal
  BY DEF TerminalInv
<1>2. QED
  BY <1>1, TerminalInvariant, PTL

(***************************************************************************)
(* A call that is done has its deposit stored, or the note it settled      *)
(* marked, for good: other calls may read and write the list in between as *)
(* often as they like, since what they read has the effect too.  Only a    *)
(* list read before the call wrote and written after it takes the effect   *)
(* away, and what it takes away is recorded as overwritten.                *)
(***************************************************************************)
THEOREM TerminalVaultFollowsChain == Spec => []VaultFollowsChain
<1>1. TerminalInv => VaultFollowsChain
  <2> SUFFICES ASSUME TerminalInv, NEW c \in Calls, txs[c] = "success",
                      ~Active(c), ~Abandoned(c), c \notin overwritten
               PROVE  IF calls[c].kind = "shield" THEN calls[c].note \in stored
                      ELSE calls[c].note \in stored => calls[c].note \in marked
    BY DEF VaultFollowsChain
  <2> USE DEF TerminalInv
  <2>1. calls[c] \in BegunCalls
    BY SentCalls
  <2>2. At(c, "done")
    <3>1. calls[c].stage \in Awaiting \cup {"done", "error", "gone"}
      BY <2>1, BegunCallsAre
    <3>2. QED
      BY <3>1 DEF Active, Abandoned, At
  <2>3. QED
    BY <2>2 DEF VaultInv, EffectIn
<1>2. QED
  BY <1>1, TerminalInvariant, PTL

(***************************************************************************)
(* Two settlements that both took effect are of different notes: a user    *)
(* who tries again after an error, in this tab or another, is not paid     *)
(* twice for one note, since the first payment spent its nullifier.        *)
(***************************************************************************)
THEOREM TerminalPaidOnce == Spec => []PaidOnce
<1>1. TerminalInv => PaidOnce
  BY DEF TerminalInv
<1>2. QED
  BY <1>1, TerminalInvariant, PTL
=============================================================================
