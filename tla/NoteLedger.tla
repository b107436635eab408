----------------------------- MODULE NoteLedger -----------------------------
(***************************************************************************)
(* What the shielded pool promises, with no tree, no root, no proof and no *)
(* call that can fail: a ledger of value notes kept beside the escrow that *)
(* backs them.  A note is issued against value that enters the escrow or   *)
(* against a note that is retired for it; retiring a nullifier retires     *)
(* every note that carries it.                                             *)
(*                                                                         *)
(* ShieldedPool implements this specification: issued is its list of       *)
(* leaves, retired its set of spent nullifiers, escrow its token balance.  *)
(***************************************************************************)
EXTENDS Integers, Sequences, FiniteSets

CONSTANTS
  Nullifiers,   \* the nullifiers a note may carry
  MaxValue      \* the most a note may be worth

VARIABLES
  issued,    \* the notes, in the order they were committed
  retired,   \* the nullifiers that have been spent
  escrow     \* the tokens held against the notes

vars == <<issued, retired, escrow>>

Values == 0 .. MaxValue

Note == [nullifier : Nullifiers, value : Values]

Init ==
  /\ issued = << >>
  /\ retired = {}
  /\ escrow \in Nat

(***************************************************************************)
(* deposit: one note, worth exactly the tokens that entered the escrow.    *)
(***************************************************************************)
Shield(n) ==
  /\ n.value > 0
  /\ issued' = Append(issued, n)
  /\ escrow' = escrow + n.value
  /\ UNCHANGED retired

(***************************************************************************)
(* transfer: the live note n is retired for two notes of the same total.   *)
(***************************************************************************)
Settle(n, out0, out1) ==
  /\ n.nullifier \notin retired
  /\ retired' = retired \cup {n.nullifier}
  /\ n.value = out0.value + out1.value
  /\ issued' = Append(Append(issued, out0), out1)
  /\ UNCHANGED escrow

(***************************************************************************)
(* withdraw: the live note n is retired for exactly its value in tokens.   *)
(***************************************************************************)
Unshield(n) ==
  /\ n.nullifier \notin retired
  /\ retired' = retired \cup {n.nullifier}
  /\ escrow' = escrow - n.value
  /\ UNCHANGED issued

\* Tokens sent to the contract's address without calling the contract.
Donate ==
  /\ escrow' \in Nat
  /\ escrow' >= escrow
  /\ UNCHANGED <<issued, retired>>

Issued == {issued[i] : i \in DOMAIN issued}

Next ==
  \/ \E n \in Note : Shield(n)
  \/ \E n \in Issued, out0, out1 \in Note : Settle(n, out0, out1)
  \/ \E n \in Issued : Unshield(n)
  \/ Donate

Spec == Init /\ [][Next]_vars

-----------------------------------------------------------------------------

\* Every variable has its type; that escrow is never negative is Solvent.
TypeOK ==
  /\ issued \in Seq(Note)
  /\ retired \in SUBSET Nullifiers
  /\ escrow \in Int

\* A note of value v as v units that carry its nullifier.
Units(n) == {n.nullifier} \X (1 .. n.value)

Live == {n \in Issued : n.nullifier \notin retired}

(***************************************************************************)
(* The units of value the ledger still owes: for every live nullifier, the *)
(* units of the largest note that carries it, since spending one note      *)
(* retires them all.  Counting units in a set needs no sum over notes.     *)
(***************************************************************************)
Owed == UNION {Units(n) : n \in Live}

(***************************************************************************)
(* The escrow covers everything owed: whatever is withdrawn, settled or    *)
(* sent in, in any order, the holders of all live notes can be paid at     *)
(* once.                                                                   *)
(***************************************************************************)
Solvent == Cardinality(Owed) <= escrow
=============================================================================
