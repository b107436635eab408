-------------------------- MODULE NoteLedgerProofs --------------------------
(***************************************************************************)
(* A note ledger is solvent, for every set of nullifiers and of values.    *)
(*                                                                         *)
(* The argument: an action changes the units owed by at most the units of  *)
(* the notes it issues, less those of the note it retires.  No sum over    *)
(* the notes is taken, so no induction over them is needed.                *)
(***************************************************************************)
EXTENDS NoteLedger, FiniteSetTheorems, TLAPS

\* What has been issued is a set of notes.
LEMMA IssuedNotes ==
  ASSUME TypeOK, NEW n \in Issued
  PROVE  n \in Note /\ n.nullifier \in Nullifiers /\ n.value \in Nat
<1>1. n \in Note
  BY DEF TypeOK, Issued
<1>2. QED
  BY <1>1 DEF Note, Values

\* Every variable keeps its type, for every set of nullifiers and of values.
THEOREM LedgerTypeCorrect == Spec => []TypeOK
<1>1. Init => TypeOK
  BY DEF Init, TypeOK
<1>2. TypeOK /\ [Next]_vars => TypeOK'
  <2> SUFFICES ASSUME TypeOK, [Next]_vars PROVE TypeOK'
    OBVIOUS
  <2>1. ASSUME NEW n \in Note, Shield(n) PROVE TypeOK'
    <3>1. n.value \in Nat
      BY DEF Note, Values
    <3>2. QED
      BY <2>1, <3>1 DEF Shield, TypeOK
  <2>2. ASSUME NEW n \in Issued, NEW out0 \in Note, NEW out1 \in Note,
               Settle(n, out0, out1)
        PROVE  TypeOK'
    <3>1. n.nullifier \in Nullifiers
      BY IssuedNotes
    <3>2. QED
      BY <2>2, <3>1 DEF Settle, TypeOK
  <2>3. ASSUME NEW n \in Issued, Unshield(n) PROVE TypeOK'
    <3>1. n.nullifier \in Nullifiers /\ n.value \in Nat
      BY IssuedNotes
    <3>2. QED
      BY <2>3, <3>1 DEF Unshield, TypeOK
  <2>4. CASE Donate
    BY <2>4 DEF Donate, TypeOK
  <2>5. CASE UNCHANGED vars
    BY <2>5 DEF vars, TypeOK
  <2>6. QED
    BY <2>1, <2>2, <2>3, <2>4, <2>5 DEF Next
<1>3. QED
  BY <1>1, <1>2, PTL DEF Spec

-----------------------------------------------------------------------------

\* A note of value v has v units.
LEMMA UnitsCount ==
  ASSUME NEW n \in Note
  PROVE  IsFiniteSet(Units(n)) /\ Cardinality(Units(n)) = n.value
<1>1. n.value \in Nat
  BY DEF Note, Values
<1>2. IsFiniteSet({n.nullifier}) /\ Cardinality({n.nullifier}) = 1
  BY FS_Singleton
<1>3. IsFiniteSet(1 .. n.value) /\ Cardinality(1 .. n.value) = n.value
  BY <1>1, FS_Interval
<1>4. /\ IsFiniteSet({n.nullifier} \X (1 .. n.value))
      /\ Cardinality({n.nullifier} \X (1 .. n.value))
           = Cardinality({n.nullifier}) * Cardinality(1 .. n.value)
  BY <1>2, <1>3, FS_Product
<1>5. QED
  BY <1>1, <1>2, <1>3, <1>4 DEF Units

\* A finite set within another has no more elements than it.
LEMMA CountWithin ==
  ASSUME NEW S, NEW T, IsFiniteSet(T), S \subseteq T
  PROVE  /\ IsFiniteSet(S)
         /\ Cardinality(S) \in Nat
         /\ Cardinality(T) \in Nat
         /\ Cardinality(S) <= Cardinality(T)
  BY FS_Subset, FS_CardinalityType

\* The elements of a union number no more than those of its parts.
LEMMA CountUnion ==
  ASSUME NEW S, NEW T, IsFiniteSet(S), IsFiniteSet(T)
  PROVE  /\ IsFiniteSet(S \cup T)
         /\ Cardinality(S \cup T) \in Nat
         /\ Cardinality(S \cup T) <= Cardinality(S) + Cardinality(T)
<1>1. /\ Cardinality(S) \in Nat
      /\ Cardinality(T) \in Nat
      /\ IsFiniteSet(S \cap T)
  BY FS_CardinalityType, FS_Intersection
<1>2. Cardinality(S \cap T) \in Nat
  BY <1>1, FS_CardinalityType
<1>3. /\ IsFiniteSet(S \cup T)
      /\ Cardinality(S \cup T)
           = Cardinality(S) + Cardinality(T) - Cardinality(S \cap T)
  BY FS_Union
<1>4. Cardinality(S \cup T) \in Nat
  BY <1>3, FS_CardinalityType
<1>5. QED
  BY <1>1, <1>2, <1>3, <1>4

\* Removing part of a finite set removes as many elements as the part has.
LEMMA CountDifference ==
  ASSUME NEW S, NEW T, IsFiniteSet(S), T \subseteq S
  PROVE  /\ IsFiniteSet(S \ T)
         /\ Cardinality(S \ T) = Cardinality(S) - Cardinality(T)
<1>1. S \cap T = T
  OBVIOUS
<1>2. QED
  BY <1>1, FS_Difference

-----------------------------------------------------------------------------
(* How each action changes what is owed.                                   *)

OwedCounted == IsFiniteSet(Owed) /\ Solvent

\* A live note is owed in full.
LEMMA LiveIsOwed ==
  ASSUME NEW n \in Issued, n.nullifier \notin retired
  PROVE  Units(n) \subseteq Owed
  BY DEF Owed, Live

\* Issuing a note adds at most its own units to what is owed.
LEMMA ShieldOwes ==
  ASSUME TypeOK, NEW n \in Note, Shield(n)
  PROVE  Owed' \subseteq Owed \cup Units(n)
<1>1. Issued' \subseteq Issued \cup {n} /\ retired' = retired
  BY DEF Shield, Issued, TypeOK
<1>2. QED
  BY <1>1 DEF Owed, Live, Units

\* Settling a note for two of the same total owes its nullifier's units no
\* longer, and as many others at most.
LEMMA SettleOwes ==
  ASSUME TypeOK, NEW n \in Issued, NEW out0 \in Note, NEW out1 \in Note,
         Settle(n, out0, out1)
  PROVE  Owed' \subseteq (Owed \ Units(n)) \cup (Units(out0) \cup Units(out1))
<1>1. Issued' \subseteq Issued \cup {out0, out1}
  BY DEF Settle, Issued, TypeOK
<1>2. retired' = retired \cup {n.nullifier}
  BY DEF Settle
<1>3. ASSUME NEW m \in Live', NEW u \in Units(m)
      PROVE  u \in (Owed \ Units(n)) \cup (Units(out0) \cup Units(out1))
  <2>1. m \in Issued \cup {out0, out1} /\ m.nullifier \notin retired'
    BY <1>1, <1>3 DEF Live
  <2>2. u \notin Units(n)
    BY <1>2, <1>3, <2>1 DEF Units
  <2>3. CASE m \in Issued
    BY <1>2, <1>3, <2>1, <2>2, <2>3 DEF Owed, Live
  <2>4. CASE m \in {out0, out1}
    BY <1>3, <2>4
  <2>5. QED
    BY <2>1, <2>3, <2>4
<1>4. QED
  BY <1>3 DEF Owed, Units

\* Retiring a note takes at least its units off what is owed.
LEMMA UnshieldOwes ==
  ASSUME TypeOK, NEW n \in Issued, Unshield(n)
  PROVE  Owed' \subseteq Owed \ Units(n)
<1>1. Issued' = Issued /\ retired' = retired \cup {n.nullifier}
  BY DEF Unshield, Issued
<1>2. QED
  BY <1>1 DEF Owed, Live, Units

-----------------------------------------------------------------------------

\* What is owed is finite and covered: the invariant behind both theorems.
LEMMA OwedIsCounted == Spec => []OwedCounted
<1>1. Init => OwedCounted
  <2> SUFFICES ASSUME Init PROVE OwedCounted
    OBVIOUS
  <2>1. Issued = {}
    BY DEF Init, Issued
  <2>2. Owed = {}
    BY <2>1 DEF Owed, Live
  <2>3. QED
    BY <2>2, FS_EmptySet DEF Init, OwedCounted, Solvent
<1>2. TypeOK /\ OwedCounted /\ [Next]_vars => OwedCounted'
  <2> SUFFICES ASSUME TypeOK, OwedCounted, [Next]_vars PROVE OwedCounted'
    OBVIOUS
  <2>1. /\ IsFiniteSet(Owed)
        /\ Cardinality(Owed) \in Nat
        /\ Cardinality(Owed) <= escrow
        /\ escrow \in Int
    BY FS_CardinalityType DEF OwedCounted, Solvent, TypeOK
  <2>2. Issued \subseteq Note
    BY DEF Issued, TypeOK
  <2>3. \A n \in Note : n.value \in Nat
    BY DEF Note, Values
  <2>4. ASSUME NEW n \in Note, Shield(n) PROVE OwedCounted'
    <3>1. IsFiniteSet(Units(n)) /\ Cardinality(Units(n)) = n.value
      BY UnitsCount
    <3>2. /\ IsFiniteSet(Owed \cup Units(n))
          /\ Cardinality(Owed \cup Units(n)) \in Nat
          /\ Cardinality(Owed \cup Units(n)) <= Cardinality(Owed) + n.value
      BY <2>1, <3>1, CountUnion
    <3>3. IsFiniteSet(Owed') /\ Cardinality(Owed') \in Nat
            /\ Cardinality(Owed') <= Cardinality(Owed \cup Units(n))
      BY <2>4, <3>2, ShieldOwes, CountWithin
    <3>4. escrow' = escrow + n.value
      BY <2>4 DEF Shield
    <3>5. QED
      BY <2>1, <2>3, <3>2, <3>3, <3>4 DEF OwedCounted, Solvent
  <2>5. ASSUME NEW n \in Issued, NEW out0 \in Note, NEW out1 \in Note,
               Settle(n, out0, out1)
        PROVE  OwedCounted'
    <3>1. /\ n \in Note
          /\ Units(n) \subseteq Owed
          /\ escrow' = escrow
          /\ n.value = out0.value + out1.value
      BY <2>2, <2>5, LiveIsOwed DEF Settle
    <3>2. /\ Cardinality(Units(n)) = n.value
          /\ IsFiniteSet(Units(out0)) /\ Cardinality(Units(out0)) = out0.value
          /\ IsFiniteSet(Units(out1)) /\ Cardinality(Units(out1)) = out1.value
      BY <3>1, UnitsCount
    <3> DEFINE rest == Owed \ Units(n)
               new  == Units(out0) \cup Units(out1)
    <3>3. /\ IsFiniteSet(rest)
          /\ Cardinality(rest) = Cardinality(Owed) - n.value
      BY <2>1, <3>1, <3>2, CountDifference
    <3>4. /\ IsFiniteSet(new)
          /\ Cardinality(new) \in Nat
          /\ Cardinality(new) <= out0.value + out1.value
      BY <3>2, CountUnion
    <3>5. /\ IsFiniteSet(rest \cup new)
          /\ Cardinality(rest \cup new) \in Nat
          /\ Cardinality(rest \cup new) <= Cardinality(rest) + Cardinality(new)
      BY <3>3, <3>4, CountUnion
    <3>6. /\ IsFiniteSet(Owed') /\ Cardinality(Owed') \in Nat
          /\ Cardinality(Owed') <= Cardinality(rest \cup new)
      <4>1. Owed' \subseteq rest \cup new
        BY <2>5, SettleOwes
      <4> HIDE DEF rest, new
      <4>2. QED
        BY <3>5, <4>1, CountWithin
    <3>7. QED
      <4> HIDE DEF rest, new
      <4>1. QED
        BY <2>1, <2>3, <3>1, <3>3, <3>4, <3>5, <3>6 DEF OwedCounted, Solvent
  <2>6. ASSUME NEW n \in Issued, Unshield(n) PROVE OwedCounted'
    <3>1. /\ n \in Note
          /\ Units(n) \subseteq Owed
          /\ escrow' = escrow - n.value
      BY <2>2, <2>6, LiveIsOwed DEF Unshield
    <3>2. Cardinality(Units(n)) = n.value
      BY <3>1, UnitsCount
    <3>3. /\ IsFiniteSet(Owed \ Units(n))
          /\ Cardinality(Owed \ Units(n)) = Cardinality(Owed) - n.value
      BY <2>1, <3>1, <3>2, CountDifference
    <3>4. /\ IsFiniteSet(Owed') /\ Cardinality(Owed') \in Nat
          /\ Cardinality(Owed') <= Cardinality(Owed \ Units(n))
      BY <2>6, <3>3, UnshieldOwes, CountWithin
    <3>5. QED
      BY <2>1, <2>3, <3>1, <3>3, <3>4 DEF OwedCounted, Solvent
  <2>7. CASE Donate
    <3>1. Owed' = Owed
      BY <2>7 DEF Donate, Owed, Live, Issued
    <3>2. escrow' \in Nat /\ escrow <= escrow'
      BY <2>1, <2>7 DEF Donate
    <3>3. QED
      BY <2>1, <3>1, <3>2 DEF OwedCounted, Solvent
  <2>8. CASE UNCHANGED vars
    BY <2>8 DEF vars, OwedCounted, Solvent, Owed, Live, Issued
  <2>9. QED
    BY <2>4, <2>5, <2>6, <2>7, <2>8 DEF Next
<1>3. QED
  BY <1>1, <1>2, LedgerTypeCorrect, PTL DEF Spec

\* The escrow covers everything owed in every reachable state of the ledger.
THEOREM LedgerSolvent == Spec => []Solvent
<1>1. OwedCounted => Solvent
  BY DEF OwedCounted
<1>2. QED
  BY <1>1, OwedIsCounted, PTL

\* Every live note can be paid out of the escrow.
EachPayable == \A n \in Live : n.value <= escrow

\* The escrow covers every live note on its own.
THEOREM LedgerPaysEach == Spec => []EachPayable
<1>1. TypeOK /\ OwedCounted => EachPayable
  <2> SUFFICES ASSUME TypeOK, OwedCounted, NEW n \in Live
               PROVE  n.value <= escrow
    BY DEF EachPayable
  <2>1. n \in Issued /\ n.nullifier \notin retired
    BY DEF Live
  <2>2. n \in Note /\ n.value \in Nat /\ Units(n) \subseteq Owed
    BY <2>1, IssuedNotes, LiveIsOwed
  <2>3. n.value <= Cardinality(Owed) /\ Cardinality(Owed) \in Nat
    BY <2>2, UnitsCount, CountWithin DEF OwedCounted
  <2>4. QED
    BY <2>2, <2>3 DEF OwedCounted, Solvent, TypeOK
<1>2. QED
  BY <1>1, OwedIsCounted, LedgerTypeCorrect, PTL
=============================================================================
