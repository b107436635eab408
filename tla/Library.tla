------------------------------- MODULE Library -------------------------------
(***************************************************************************)
(* The parts that stand by themselves, side by side: the browser's store   *)
(* and its tabs, the association file of noterail, its Merkle tree at two  *)
(* depths, and the conversions.  A behaviour is one of one part: in those  *)
(* of the others the browser does nothing, and the variables of parts      *)
(* other than Session have no value.                                       *)
(***************************************************************************)
EXTENDS Session, Integers, Sequences

CONSTANTS
  Nil,                                           \* no value, and the parts' None
  Runs, Labels, MAX_ASSOCIATION_LABELS, Broken,  \* AssociationFile
  LowDepth, Depth, Commitments, Zero,            \* LeanImt, twice
  Nullifiers, FieldOrder, RangeBound, I128Max,   \* Circuits
  HexBase, Width, PointWidth, LenWidth, N_F, N_P, POSEIDON_C(_, _),
  POSEIDON_M(_, _, _), Ten, Decimals, Inputs     \* Encodings

VARIABLE part        \* the part this behaviour is about

VARIABLES file, runs, harmed
VARIABLES leaves, root, subtrees, sparse
VARIABLES input, output

ofSession == vars
ofFile == <<file, runs, harmed>>
ofTree == <<leaves, root, subtrees, sparse>>
ofEncodings == <<input, output>>

libraryVars == <<part, ofSession, ofFile, ofTree, ofEncodings>>

AssociationFile == INSTANCE AssociationFile WITH None <- Nil

LowTree == INSTANCE LeanImt WITH Depth <- LowDepth, None <- Nil

Tree == INSTANCE LeanImt WITH None <- Nil

Encodings == INSTANCE Encodings WITH None <- Nil

ASSUME LibraryAssumption ==
  /\ SessionAssumption
  /\ AssociationFile!AssociationAssumption
  /\ LowTree!LeanImtAssumption /\ Tree!LeanImtAssumption
  /\ Encodings!Sizes /\ Encodings!EncodingsAssumption

-----------------------------------------------------------------------------

\* A browser with its tabs on the terminal.
AtRest == Init /\ \A t \in Tabs : tabs[t].page = "terminal"

NoFile == file = Nil /\ runs = Nil /\ harmed = Nil

NoTree == leaves = Nil /\ root = Nil /\ subtrees = Nil /\ sparse = Nil

NoEncodings == input = Nil /\ output = Nil

LibraryInit ==
  \/ part = "session" /\ Init /\ NoFile /\ NoTree /\ NoEncodings
  \/ part = "file" /\ AssociationFile!Init /\ AtRest /\ NoTree /\ NoEncodings
  \/ part = "low tree" /\ LowTree!Init /\ AtRest /\ NoFile /\ NoEncodings
  \/ part = "tree" /\ Tree!Init /\ AtRest /\ NoFile /\ NoEncodings
  \/ part = "encodings" /\ Encodings!Init /\ AtRest /\ NoFile /\ NoTree

\* The other parts do nothing.
Only(p, others) == part = p /\ UNCHANGED <<part, others>>

LibraryNext ==
  \/ Only("session", <<ofFile, ofTree, ofEncodings>>) /\ Next
  \/ Only("file", <<ofSession, ofTree, ofEncodings>>) /\ AssociationFile!Next
  \/ Only("low tree", <<ofSession, ofFile, ofEncodings>>) /\ LowTree!Next
  \/ Only("tree", <<ofSession, ofFile, ofEncodings>>) /\ Tree!Next
  \/ Only("encodings", <<ofSession, ofFile, ofTree>>) /\ Encodings!Next

LibrarySpec == LibraryInit /\ [][LibraryNext]_libraryVars

-----------------------------------------------------------------------------
(* The properties of the other parts, in the behaviours that are about     *)
(* them; those of Session are checked as they are.                         *)

\* A file that can be read holds a set some run made.
FileIsASet ==
  part = "file" => AssociationFile!TypeOK /\ AssociationFile!FileIsASet

\* Runs that follow one another keep each other's labels.
LabelsAreKept == part = "file" => AssociationFile!LabelsAreKept

\* The cached tree has the root and the paths of the plain one.
TreeFollowsReloads ==
  /\ part = "low tree" => LowTree!TypeOK /\ LowTree!TreeFollowsReloads
  /\ part = "tree" => Tree!TypeOK /\ Tree!TreeFollowsReloads

\* Browser, circuits and contract mean the same by a number.
LanguagesAgree == part = "encodings" => Encodings!LanguagesAgree

\* The contract takes from the bytes what snarkjs printed.
WireIsParsed == part = "encodings" => Encodings!WireIsParsed

\* Amounts are shown exactly and typed ones cut, never rounded up.
AmountsRoundTrip == part = "encodings" => Encodings!AmountsRoundTrip

\* A transfer witness is built just for what the note can pay.
TransferIsProvable == part = "encodings" => Encodings!TransferIsProvable
=============================================================================
