----------------------------- MODULE Disclosure -----------------------------
(***************************************************************************)
(* The disclosure page (web/app/app/disclosure/page.tsx) over the pool:    *)
(* it reads the pool once, when it is mounted, and proves from that copy,  *)
(* as often as it is asked, that a position is in the pool; the contract   *)
(* checks each proof by simulation (verifyMembershipOnChain in             *)
(* web/lib/stellar.ts), the browser by itself (web/lib/disclosure.ts).     *)
(*                                                                         *)
(* Between any two steps of the page the pool goes on, and notes it lists  *)
(* are settled elsewhere.  A request may fail; both checks are under way   *)
(* together, and the first failure ends the disclosure.  What answers for  *)
(* a page that was left has no effect.                                     *)
(*                                                                         *)
(* Of the values of fetchPoolState, proofs use only the commitments; the   *)
(* root is shown.                                                          *)
(***************************************************************************)
EXTENDS Integers, Sequences, FiniteSets

CONSTANTS
  Nullifiers, FieldOrder, RangeBound, I128Max, Accounts, Funds, Capacity,
  RootHistorySize, Amounts, OutputPairs, ApprovalRoots,   \* see ShieldedPool
  Mine,      \* the nullifiers of the wallet's notes
  None       \* nothing read, no note, no result

VARIABLES
  leaves, roots, nullifiers, approot, escrow, wallet,   \* see ShieldedPool
  view,      \* the state of the page
  call       \* disclose() under way, or idle

Pool == INSTANCE ShieldedPool

\* The pool's parameters are as ShieldedPool assumes them.
DisclosureAssumption ==
  /\ Mine \subseteq Nullifiers /\ None \notin Pool!Note
  /\ Pool!Sizes /\ Pool!PoolParameters

pool == <<leaves, roots, nullifiers, approot, escrow, wallet>>
vars == <<pool, view, call>>

Idle == [stage |-> "idle"]

\* The unspent notes in the store: deposited, and not settled by the wallet.
Stored ==
  {note \in Pool!Leaves(leaves) : note.nullifier \in Mine \ nullifiers}

\* since is the length of the tree when the pool was read.
Mounted(notes) ==
  [open |-> TRUE, notes |-> notes, commitments |-> None, since |-> Len(leaves),
   busy |-> None, result |-> None]

Init ==
  /\ Pool!Init
  /\ view = [Mounted({}) EXCEPT !.open = FALSE]
  /\ call = Idle

-----------------------------------------------------------------------------
(* The pool read of the page.                                              *)

Open == view' = Mounted(Stored) /\ call' = Idle /\ UNCHANGED pool

Leave ==
  /\ view.open /\ view' = [Mounted({}) EXCEPT !.open = FALSE]
  /\ call' = Idle
  /\ UNCHANGED pool

Reading == view.open /\ view.commitments = None

\* The commitments at some moment since the read was issued.
PoolRead ==
  /\ Reading
  /\ \E n \in view.since .. Len(leaves) :
       view' = [view EXCEPT !.commitments = SubSeq(leaves, 1, n)]
  /\ UNCHANGED <<pool, call>>

\* A failed read is an empty pool: "No settled positions to disclose".
PoolReadFails ==
  /\ Reading
  /\ view' = [view EXCEPT !.commitments = << >>]
  /\ UNCHANGED <<pool, call>>

-----------------------------------------------------------------------------
(* What is on the screen.                                                  *)

\* The rows of the page.
Disclosable ==
  IF view.commitments = None THEN {}
  ELSE view.notes \cap Pool!Leaves(view.commitments)

\* Their buttons: all are disabled while a disclosure is under way.
Buttons == {note \in Disclosable : view.busy = None}

ShowsVerdict == view.result # None /\ view.result.kind = "ok"

\* The badge: "verified on Stellar", or "chain rejected".
SaysOnStellar == ShowsVerdict /\ view.result.onchain
SaysRejected == ShowsVerdict /\ ~view.result.onchain

\* "The Soroban contract verified the proof", below either badge.
SaysTheContractVerified == ShowsVerdict

-----------------------------------------------------------------------------
(* disclose().                                                             *)

Disclose(note) ==
  /\ view.open /\ note \in Buttons
  /\ view' = [view EXCEPT !.busy = note, !.result = None]
  /\ call' = [stage |-> "proving", onchain |-> "asked", local |-> "asked",
              recent |-> Pool!RootIsKnown(view.commitments)]
                         \* history: the contract knew the root at the click
  /\ UNCHANGED pool

\* The pool is the vetted set: buildMembershipWitness gets its commitments twice.
Signals ==
  [stateRoot |-> view.commitments, approvalRoot |-> view.commitments]

\* proveMembership returns; both checks are begun.
Prove ==
  /\ call.stage = "proving"
  /\ call' = [call EXCEPT !.stage = "checking"]
  /\ UNCHANGED <<pool, view>>

Pending(check) == call.stage = "checking" /\ call[check] = "asked"

\* Fault: whatever is simulated counts as accepted.
VerdictOfAnySimulation(sig) == "ok"

\* verifyMembershipOnChain: a simulation error is a refusal.
Verdict(sig) ==
  IF Pool!Succeeds(Pool!MembershipChecks(sig)) THEN "ok" ELSE "refused"

CheckOnChain ==
  /\ Pending("onchain")
  /\ call' = [call EXCEPT !.onchain = Verdict(Signals)]
  /\ UNCHANGED <<pool, view>>

\* verifyMembership: Groth16 accepts what was proved.
CheckLocally ==
  /\ Pending("local")
  /\ call' = [call EXCEPT !.local = IF Pool!MembershipCircuit(Signals)
                                    THEN "ok" ELSE "refused"]
  /\ UNCHANGED <<pool, view>>

Show(result) ==
  /\ view' = [view EXCEPT !.busy = None, !.result = result]
  /\ call' = Idle
  /\ UNCHANGED pool

\* Promise.all: both have answered.
Finish ==
  /\ call.stage = "checking" /\ ~Pending("onchain") /\ ~Pending("local")
  /\ Show([kind |-> "ok", note |-> view.busy, onchain |-> call.onchain = "ok",
           local |-> call.local = "ok", recent |-> call.recent])

\* Fault: busy is reset by setResult, not by finally.
ThrowsBusy ==
  /\ \/ call.stage = "proving" \/ Pending("onchain") \/ Pending("local")
  /\ view' = [view EXCEPT !.result = [kind |-> "error", note |-> view.busy]]
  /\ call' = Idle
  /\ UNCHANGED pool

\* The prover, getAccount, the simulation or the fetch of the key fails.
Throws ==
  /\ \/ call.stage = "proving" \/ Pending("onchain") \/ Pending("local")
  /\ Show([kind |-> "error", note |-> view.busy])

Answer == PoolRead \/ PoolReadFails

Progress == Prove \/ CheckOnChain \/ CheckLocally \/ Finish \/ Throws

-----------------------------------------------------------------------------
(* The pool goes on.                                                       *)

UnchangedPage == UNCHANGED <<view, call>>

\* Anybody deposits, the wallet in another tab included.
Deposits ==
  /\ \E from \in Accounts, amount \in Amounts, nullifier \in Nullifiers :
       /\ \A note \in Pool!Leaves(leaves) : note.nullifier # nullifier
       /\ Pool!Deposit(from, amount, nullifier)
  /\ UnchangedPage

\* A note is settled elsewhere.
Withdrawals ==
  /\ \E to \in Accounts, note \in Pool!Leaves(leaves) :
       Pool!Withdraw(to, [nullifierHash |-> note.nullifier,
                          withdrawnValue |-> note.value,
                          stateRoot |-> leaves, recipient |-> to])
  /\ UnchangedPage

\* The authority pins another set.
Repins ==
  /\ \E root \in ApprovalRoots \ {approot} : Pool!SetApprovalRoot(root)
  /\ UnchangedPage

Next ==
  \/ Open \/ Leave \/ Answer
  \/ \E note \in view.notes : Disclose(note)
  \/ Progress
  \/ Deposits \/ Withdrawals \/ Repins

Spec == Init /\ [][Next]_vars

FairSpec == Spec /\ WF_vars(Answer) /\ WF_vars(Progress)

-----------------------------------------------------------------------------

\* Every variable has its type.
TypeOK ==
  /\ Pool!TypeOK
  /\ view.open \in BOOLEAN
  /\ view.busy \in view.notes \cup {None}
  /\ view.busy = None <=> call = Idle
  /\ view.result # None => view.result.kind \in {"ok", "error"}
  /\ call.stage \in {"idle", "proving", "checking"}

(***************************************************************************)
(* The badge is the contract's word.  "verified on Stellar": the position  *)
(* is in the pool, and its root was recent when the button was pressed.    *)
(* "chain rejected": that root has left the window since, and nothing else *)
(* makes the chain refuse, not a set the authority pinned in between nor a *)
(* note that was settled elsewhere.  And no verdict is shown beside a      *)
(* disclosure under way, as if it were its own.                            *)
(***************************************************************************)
BadgeIsTheContracts ==
  view.result # None =>
    /\ view.busy = None
    /\ ShowsVerdict =>
         view.result.local /\ view.result.note \in Pool!Leaves(leaves)
    /\ SaysOnStellar => view.result.recent
    /\ SaysRejected => ~Pool!RootIsKnown(view.commitments)

(***************************************************************************)
(* A disclosure ends and frees the buttons of the page, whichever of its   *)
(* requests fail, and whatever is answered after the first of them did.    *)
(***************************************************************************)
DisclosingEnds == view.busy # None ~> view.busy = None

(***************************************************************************)
(* What the page says below a result that is no error: "The Soroban        *)
(* contract verified the proof against the pool's vetted set."             *)
(***************************************************************************)
SaidVerifiedIsVerified == SaysTheContractVerified => SaysOnStellar
=============================================================================
