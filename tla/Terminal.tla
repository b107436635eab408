------------------------------ MODULE Terminal ------------------------------
(***************************************************************************)
(* The settlement terminal in the browser over the pool: the shield and    *)
(* settle dialogs (web/components/ShieldDialog.tsx, WithdrawDialog.tsx),   *)
(* the submission and polling of a transaction (send in                    *)
(* web/lib/stellar.ts) and the notes kept in localStorage                  *)
(* (web/lib/notes.ts).                                                     *)
(*                                                                         *)
(* A dialog's handler is a call that runs from one await to the next.      *)
(* Several can be under way at once: the shield dialog closes over a call  *)
(* in progress, navigation leaves calls running, and there may be several  *)
(* tabs.  Between any two steps of a call, other calls go on, other users  *)
(* settle, the network takes, delays or drops the transaction, and the tab *)
(* may be reloaded, which ends its call and keeps the notes.               *)
(*                                                                         *)
(* A call may be in a tab of its own.  Tabs share localStorage, which has  *)
(* no lock: addNote and markSpent read the whole list and write it back,   *)
(* and what another tab writes between the two is lost.  Calls of one tab  *)
(* never run between the two, which is one of the orders the steps of the  *)
(* calls may come in.  Clearing local data is in Session.                  *)
(*                                                                         *)
(* The chain is the pool of ShieldedPool and the wallet's sequence number. *)
(* Of the four values of fetchPoolState a call uses only the commitments,  *)
(* so its read is one read.  Time is not modelled: a pending transaction   *)
(* may be executed or lapse at any moment, before or after polling ends    *)
(* (30 polls a second apart against a validity of 120 seconds).            *)
(***************************************************************************)
EXTENDS Integers, Sequences, FiniteSets

CONSTANTS
  Nullifiers, FieldOrder, RangeBound, I128Max, Accounts, Funds, Capacity,
  RootHistorySize, Amounts, OutputPairs, ApprovalRoots,   \* see ShieldedPool
  Wallet,             \* the account of the browser's key
  WalletNullifiers,   \* the nullifiers generateNote may draw
  Calls,              \* the handlers' calls, a bound on how many are made
  MaxPolls            \* 30, the times send polls again for a result

VARIABLES
  leaves, roots, nullifiers, approot, escrow, wallet,   \* see ShieldedPool
  seq,      \* the wallet's sequence number
  txs,      \* what became of the transaction of each call
  calls,    \* the calls of the dialogs' handlers
  stored,   \* the notes in localStorage
  marked,   \* those of them that are marked spent
  read,     \* the list that the write of a call will replace
  missed,      \* history: the calls whose writes that list has missed,
  overwritten  \* and those whose writes a list that missed them replaced

Pool == INSTANCE ShieldedPool

ASSUME TerminalAssumption ==
  /\ Pool!Sizes /\ Pool!PoolParameters
  /\ Wallet \in Accounts
  /\ WalletNullifiers \subseteq Nullifiers
  /\ IsFiniteSet(Calls)
  /\ MaxPolls \in Nat

pool == <<leaves, roots, nullifiers, approot, escrow, wallet>>
chain == <<pool, seq>>
vault == <<stored, marked, read, missed, overwritten>>
vars == <<chain, txs, calls, vault>>

Idle == [stage |-> "idle"]

NoNotes == [stored |-> {}, marked |-> {}]

Awaiting ==
  {"reading", "account", "simulating", "sending", "polling", "writing"}

Active(c) == calls[c].stage \in Awaiting

At(c, stage) == calls[c].stage = stage

\* The call goes on to its next await, or ends.
Goto(c, stage) == calls' = [calls EXCEPT ![c].stage = stage]

Init ==
  /\ Pool!Init
  /\ seq = 0
  /\ txs = [c \in Calls |-> "none"]
  /\ calls = [c \in Calls |-> Idle]
  /\ stored = {}
  /\ marked = {}
  /\ read = [c \in Calls |-> NoNotes]
  /\ missed = [c \in Calls |-> {}]
  /\ overwritten = {}

-----------------------------------------------------------------------------
(* What a call asks of the pool.                                           *)

\* The public signals of the proof made on the commitments read.
Signals(c) ==
  [nullifierHash |-> calls[c].note.nullifier,
   withdrawnValue |-> calls[c].note.value,
   stateRoot |-> calls[c].root,
   recipient |-> calls[c].recipient]

\* submitWithdraw always pays out to the wallet itself.
Accepted(c) ==
  IF calls[c].kind = "shield"
  THEN Pool!Succeeds(Pool!DepositChecks(Wallet, calls[c].note.value))
  ELSE Pool!Succeeds(Pool!WithdrawChecks(Wallet, Signals(c)))

Apply(c) ==
  IF calls[c].kind = "shield"
  THEN Pool!Deposit(Wallet, calls[c].note.value, calls[c].note.nullifier)
  ELSE Pool!Withdraw(Wallet, Signals(c))

-----------------------------------------------------------------------------
(* The dialogs.                                                            *)

\* generateNote draws 248 random bits: a nullifier drawn before does not recur.
Drawn == {calls[c].note.nullifier : c \in {d \in Calls : ~At(d, "idle")}}

\* shield(): a positive amount, and a fresh note.
Shield(c, amount, nullifier) ==
  /\ At(c, "idle")
  /\ amount > 0
  /\ nullifier \notin Drawn
  /\ calls' = [calls EXCEPT ![c] =
       [stage |-> "account", kind |-> "shield",
        note |-> [nullifier |-> nullifier, value |-> amount],
        recipient |-> Wallet, root |-> << >>, seq |-> 0, polls |-> 0]]
  /\ UNCHANGED <<chain, txs, vault>>

\* A tab lists what was stored when its page was mounted: a note that was stored
\* once, though it may be marked or overwritten by now.
Listed ==
  {calls[c].note : c \in {d \in Calls : At(d, "done") /\ calls[d].kind = "shield"}}

\* settle(): a listed position, and a recipient typed into the dialog.
Settle(c, note, recipient) ==
  /\ At(c, "idle")
  /\ note \in Listed
  /\ calls' = [calls EXCEPT ![c] =
       [stage |-> "reading", kind |-> "settle", note |-> note,
        recipient |-> recipient, root |-> << >>, seq |-> 0, polls |-> 0]]
  /\ UNCHANGED <<chain, txs, vault>>

\* fetchPoolState and proveWithdraw: the tree is the commitments as read now.
ReadPool(c) ==
  /\ At(c, "reading")
  /\ calls' = [calls EXCEPT
       ![c].stage = IF calls[c].note \in Pool!Leaves(leaves)
                    THEN "account" ELSE "error",
       ![c].root = leaves]
  /\ UNCHANGED <<chain, txs, vault>>

-----------------------------------------------------------------------------
(* send().                                                                 *)

\* getAccount: the sequence number the transaction is built with.
GetAccount(c) ==
  /\ At(c, "account")
  /\ calls' = [calls EXCEPT ![c].stage = "simulating", ![c].seq = seq]
  /\ UNCHANGED <<chain, txs, vault>>

\* prepareTransaction simulates the call, and throws what the contract returns.
Prepare(c) ==
  /\ At(c, "simulating")
  /\ Goto(c, IF Accepted(c) THEN "sending" ELSE "error")
  /\ UNCHANGED <<chain, txs, vault>>

\* The network takes only a transaction with the account's next number.
Submit(c) ==
  /\ At(c, "sending")
  /\ calls[c].seq = seq
  /\ txs' = [txs EXCEPT ![c] = "pending"]
  /\ \/ Goto(c, "polling")
     \/ Goto(c, "error")      \* taken, but the answer is lost
  /\ UNCHANGED <<chain, vault>>

\* Answered with ERROR, which throws, or TRY_AGAIN_LATER, which does not.
NotTaken(c) ==
  /\ At(c, "sending")
  /\ Goto(c, "error") \/ Goto(c, "polling")
  /\ UNCHANGED <<chain, txs, vault>>

Found(c) == txs[c] \in {"success", "failed"}

\* The first half of addNote and markSpent: loadNotes.
LoadNotes(c) ==
  /\ Goto(c, "writing")
  /\ read' = [read EXCEPT ![c] = [stored |-> stored, marked |-> marked]]
  /\ UNCHANGED <<chain, txs, stored, marked, missed, overwritten>>

\* Fault: any result that is found counts as a success.
PollFound(c) == At(c, "polling") /\ Found(c) /\ LoadNotes(c)

\* getTransaction finds a success: addNote or markSpent loads the notes.
PollSuccess(c) == At(c, "polling") /\ txs[c] = "success" /\ LoadNotes(c)

PollFailed(c) ==
  /\ At(c, "polling")
  /\ txs[c] = "failed"
  /\ Goto(c, "error")
  /\ UNCHANGED <<chain, txs, vault>>

\* Fault: the loop has no bound.
PollNotFoundUnbounded(c) ==
  /\ At(c, "polling")
  /\ ~Found(c)
  /\ calls' = [calls EXCEPT ![c].polls = (@ + 1) % (MaxPolls + 1)]
  /\ UNCHANGED <<chain, txs, vault>>

\* Fault: one round more than the bound.
PollNotFoundOnceMore(c) ==
  /\ At(c, "polling")
  /\ ~Found(c)
  /\ IF calls[c].polls <= MaxPolls
     THEN calls' = [calls EXCEPT ![c].polls = @ + 1]
     ELSE Goto(c, "error")
  /\ UNCHANGED <<chain, txs, vault>>

\* NOT_FOUND: another round, or "did not succeed" after the last.
PollNotFound(c) ==
  /\ At(c, "polling")
  /\ ~Found(c)
  /\ IF calls[c].polls < MaxPolls
     THEN calls' = [calls EXCEPT ![c].polls = @ + 1]
     ELSE Goto(c, "error")
  /\ UNCHANGED <<chain, txs, vault>>

\* unshift: the new note and every note that was read.
AddNote(c) ==
  /\ stored' = read[c].stored \cup {calls[c].note}
  /\ marked' = read[c].marked

\* Fault: the notes are written as they were read.
MarkSpentNowhere(c) ==
  /\ stored' = read[c].stored
  /\ marked' = read[c].marked

\* map: the notes that were read, with the mark if the note is one of them.
MarkSpent(c) ==
  /\ stored' = read[c].stored
  /\ marked' = read[c].marked \cup ({calls[c].note} \cap read[c].stored)

\* The second half: persist, which replaces the list, and the dialog closes.
WriteVault(c) ==
  /\ At(c, "writing")
  /\ Goto(c, "done")
  /\ IF calls[c].kind = "shield" THEN AddNote(c) ELSE MarkSpent(c)
  /\ read' = [read EXCEPT ![c] = NoNotes]
  /\ missed' = [d \in Calls |->
       IF d = c THEN {}
       ELSE IF At(d, "writing") THEN missed[d] \cup {c} ELSE missed[d]]
  /\ overwritten' = overwritten \cup missed[c]
  /\ UNCHANGED <<chain, txs>>

\* An awaited request to the RPC server throws, or setItem does.
RequestFails(c) ==
  /\ Active(c)
  /\ Goto(c, "error")
  /\ UNCHANGED <<chain, txs, vault>>

Progress(c) ==
  \/ ReadPool(c) \/ GetAccount(c) \/ Prepare(c) \/ Submit(c) \/ NotTaken(c)
  \/ PollSuccess(c) \/ PollFailed(c) \/ PollNotFound(c) \/ WriteVault(c)
  \/ RequestFails(c)

\* Its tab is reloaded, closed or crashes: the call ends, localStorage stays.
Reload(c) ==
  /\ Active(c)
  /\ Goto(c, "gone")
  /\ UNCHANGED <<chain, txs, vault>>

-----------------------------------------------------------------------------
(* The chain.                                                              *)

\* A ledger closes over the transaction.  It may fail even if the contract would
\* accept it, beyond the resources simulated; its number is used all the same.
Execute(c) ==
  /\ txs[c] = "pending"
  /\ calls[c].seq = seq
  /\ seq' = seq + 1
  /\ \/ Apply(c) /\ txs' = [txs EXCEPT ![c] = "success"]
     \/ txs' = [txs EXCEPT ![c] = "failed"] /\ UNCHANGED pool
  /\ UNCHANGED <<calls, vault>>

\* Its time bound passes, or its sequence number is used by another.
Lapse(c) ==
  /\ txs[c] = "pending"
  /\ txs' = [txs EXCEPT ![c] = "lapsed"]
  /\ UNCHANGED <<chain, calls, vault>>

\* Somebody else settles with the pool.
OthersSettle ==
  /\ \E from \in Accounts \ {Wallet}, amount \in Amounts,
        nullifier \in Nullifiers \ WalletNullifiers :
       Pool!Deposit(from, amount, nullifier)
  /\ UNCHANGED <<seq, txs, calls, vault>>

Next ==
  \/ \E c \in Calls, amount \in Amounts, nullifier \in WalletNullifiers :
       Shield(c, amount, nullifier)
  \/ \E c \in Calls, note \in Listed, recipient \in Accounts :
       Settle(c, note, recipient)
  \/ \E c \in Calls : Progress(c)
  \/ \E c \in Calls : Reload(c)
  \/ \E c \in Calls : Execute(c)
  \/ \E c \in Calls : Lapse(c)
  \/ OthersSettle

Spec == Init /\ [][Next]_vars

\* The event loop runs a call whenever what it awaits is there, and every
\* request is answered or fails.
FairSpec == Spec /\ \A c \in Calls : WF_vars(Progress(c))

-----------------------------------------------------------------------------

\* Every variable has its type, those of the pool included.
TypeOK ==
  /\ Pool!TypeOK
  /\ seq \in 0 .. Cardinality(Calls)
  /\ txs \in [Calls -> {"none", "pending", "success", "failed", "lapsed"}]
  /\ \A c \in Calls : calls[c].stage \in Awaiting \cup {"idle", "done", "error", "gone"}
  /\ \A c \in Calls : ~At(c, "idle") => calls[c].polls \in 0 .. MaxPolls
  /\ stored \subseteq Pool!Note
  /\ marked \subseteq stored
  /\ \A c \in Calls : read[c].marked \subseteq read[c].stored
  /\ missed \in [Calls -> SUBSET Calls]
  /\ overwritten \subseteq Calls

(***************************************************************************)
(* A listed position is on the chain, and one that is marked spent is      *)
(* spent: no failed, lapsed or retried transaction enters the vault.       *)
(***************************************************************************)
VaultIsReal ==
  /\ stored \subseteq Pool!Leaves(leaves)
  /\ \A note \in marked : note.nullifier \in nullifiers

\* The call was ended by a reload or by an error before it saw its result.
Abandoned(c) == calls[c].stage \in {"gone", "error"}

(***************************************************************************)
(* The vault lags behind the chain while a call is under way, and when one *)
(* was abandoned.  Otherwise a deposit that took effect is stored, and a   *)
(* withdrawal that took effect is marked if its note is stored, however    *)
(* many calls of however many tabs wrote the list since.  The exception is *)
(* the one localStorage allows: a list that was read before the call wrote *)
(* and written after it.                                                   *)
(***************************************************************************)
VaultFollowsChain ==
  \A c \in Calls :
    txs[c] = "success" /\ ~Active(c) /\ ~Abandoned(c) /\ c \notin overwritten =>
      IF calls[c].kind = "shield" THEN calls[c].note \in stored
      ELSE calls[c].note \in stored => calls[c].note \in marked

(***************************************************************************)
(* A note is paid out once, however often it is settled: after an error a  *)
(* user tries again while the first transaction may still be executed.     *)
(***************************************************************************)
PaidOnce ==
  \A c, d \in Calls :
    /\ c # d
    /\ txs[c] = "success" /\ txs[d] = "success"
    /\ calls[c].kind = "settle" /\ calls[d].kind = "settle"
    => calls[c].note # calls[d].note

(***************************************************************************)
(* Every call comes to an end: the dialog does not spin forever, whatever  *)
(* becomes of the transaction.                                             *)
(***************************************************************************)
CallsEnd == \A c \in Calls : Active(c) ~> ~Active(c)

(***************************************************************************)
(* What the terminal's documentation says of notes: they are generated and *)
(* stored on the device.  A deposit whose call was abandoned is not: its   *)
(* note was only in the memory of the call.                                *)
(***************************************************************************)
DepositedNotesAreStored ==
  \A c \in Calls :
    txs[c] = "success" /\ calls[c].kind = "shield" /\ ~Active(c) =>
      calls[c].note \in stored

(***************************************************************************)
(* What the settle dialog says of its recipient: it is bound into the      *)
(* proof, so that the payout goes there.  A settlement of an unspent note  *)
(* over a recent root is then accepted for every recipient.                *)
(***************************************************************************)
RecipientsArePaid ==
  \A c \in Calls :
    /\ At(c, "simulating") /\ calls[c].kind = "settle"
    /\ Pool!RootIsKnown(calls[c].root)
    /\ calls[c].note.nullifier \notin nullifiers
    => Accepted(c)
=============================================================================
