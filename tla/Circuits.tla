------------------------------ MODULE Circuits ------------------------------
(***************************************************************************)
(* The three statements the pool accepts Groth16 proofs of, as relations   *)
(* on their public signals (circuits/src/*.circom).  A relation holds when *)
(* some private witness satisfies every constraint of the circuit.         *)
(*                                                                         *)
(* Data abstraction.  Poseidon is collision free, so a commitment is the   *)
(* note it commits to, a nullifier hash is the nullifier, and a tree root  *)
(* is the sequence of leaves below it (the tree itself is CommitmentTree). *)
(* The label and the secret of a note take part in no constraint but the   *)
(* hash, and are left out.  Values are field elements: the sizes of the    *)
(* field, of the 128-bit range check and of i128 are parameters that keep  *)
(* the order 2^127 - 1 < 2^128, 2 * 2^128 <= r of the real ones.           *)
(***************************************************************************)
EXTENDS Integers, Sequences

CONSTANTS
  Nullifiers,   \* nullifiers, and the nullifier hashes that name them
  FieldOrder,   \* r, the order of the BLS12-381 scalar field
  RangeBound,   \* 2^128, the bound Num2Bits(128) enforces
  I128Max       \* 2^127 - 1, the largest token amount

Sizes ==
  /\ FieldOrder \in Nat
  /\ RangeBound \in Nat
  /\ I128Max \in Nat
  /\ I128Max < RangeBound
  /\ 2 * RangeBound <= FieldOrder

ASSUME SizesAssumption == Sizes

Field == 0 .. FieldOrder - 1

\* A commitment Poseidon(value, label, Poseidon(nullifier, secret)).
Note == [nullifier : Nullifiers, value : Field]

\* Addition in the field, which wraps.
FieldAdd(a, b) == IF a + b < FieldOrder THEN a + b ELSE a + b - FieldOrder

\* Num2Bits(128) has a witness.
InRange(v) == v < RangeBound

\* The leaves from which MerkleProof(depth) reaches the root along some path.
Leaves(tree) == {tree[i] : i \in DOMAIN tree}

(***************************************************************************)
(* withdraw.circom: [nullifierHash, withdrawnValue, stateRoot, recipient]. *)
(* Any recipient satisfies the constraints: it is bound by being a public  *)
(* signal of the proof, not by an equation.                                *)
(***************************************************************************)
WithdrawCircuit(sig) ==
  \E note \in Leaves(sig.stateRoot) :
    /\ sig.nullifierHash = note.nullifier
    /\ sig.withdrawnValue = note.value

\* Fault: the two Num2Bits(128) components are left out.
TransferCircuitUnranged(sig) ==
  \E note \in Leaves(sig.stateRoot) :
    /\ sig.nullifierHash = note.nullifier
    /\ note.value = FieldAdd(sig.out0.value, sig.out1.value)

(***************************************************************************)
(* transfer.circom: [nullifierHash, outCommitment0, outCommitment1,        *)
(* stateRoot].                                                             *)
(***************************************************************************)
TransferCircuit(sig) ==
  \E note \in Leaves(sig.stateRoot) :
    /\ sig.nullifierHash = note.nullifier
    /\ note.value = FieldAdd(sig.out0.value, sig.out1.value)
    /\ InRange(sig.out0.value)
    /\ InRange(sig.out1.value)

(***************************************************************************)
(* membership.circom: [stateRoot, approvalRoot].                           *)
(***************************************************************************)
MembershipCircuit(sig) ==
  \E note \in Leaves(sig.stateRoot) : note \in Leaves(sig.approvalRoot)
=============================================================================
