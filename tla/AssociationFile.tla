--------------------------- MODULE AssociationFile ---------------------------
(***************************************************************************)
(* noterail updateAssociation (cli/noterail/src/merkle/association.rs and  *)
(* io/files.rs): each run reads the association-set file, adds a label and *)
(* writes the file back in place.  Runs may overlap, there is no lock, and *)
(* a run may be killed at any moment.                                      *)
(*                                                                         *)
(* The root of a set is the sequence of labels below it (LeanImt).  Two    *)
(* runs that hold the file open write from its start; what is then not     *)
(* overwritten stays behind the new text, which no longer parses.          *)
(***************************************************************************)
EXTENDS Integers, Sequences, SequencesExt

CONSTANTS
  Runs,                   \* the runs, a bound on how many there are
  Labels,                 \* decimal labels
  MAX_ASSOCIATION_LABELS,
  None,                   \* no file
  Broken                  \* one that does not parse, as an empty one

\* AssociationSetFile; the scope is the same in all of them.
Sets == [labels : Seq(Labels), root : Seq(Labels)]

AssociationAssumption ==
  /\ MAX_ASSOCIATION_LABELS \in Nat \ {0}
  /\ None # Broken /\ {None, Broken} \cap Sets = {}

VARIABLES
  file,       \* the file: None, Broken or a set
  runs,       \* where each run is, and the set it has in memory
  harmed      \* history: two runs overlapped, or one was killed at the file

vars == <<file, runs, harmed>>

Waiting == [stage |-> "waiting"]

At(r, stage) == runs[r].stage = stage

\* A run is between its reading and the end of its writing.
Midway(r) == runs[r].stage \in {"read", "opened"}

Goto(r, stage, set) ==
  runs' = [runs EXCEPT ![r] = [stage |-> stage, label |-> @.label, set |-> set]]

Init ==
  /\ file = None
  /\ runs = [r \in Runs |-> Waiting]
  /\ harmed = FALSE

Parses == file # None /\ file # Broken

NewSet == [labels |-> << >>, root |-> None]

\* The file, or a new set if there is none; an unreadable file ends the run.
Start(r, label) ==
  /\ At(r, "waiting")
  /\ runs' = [runs EXCEPT ![r] =
       [stage |-> IF file = Broken THEN "error" ELSE "read", label |-> label,
        set |-> IF Parses THEN file ELSE NewSet]]
  /\ harmed' = (harmed \/ \E other \in Runs \ {r} : Midway(other))
  /\ UNCHANGED file

\* The label pushed, and the root of the tree of them all.
Extended(set, label) ==
  LET labels == Append(set.labels, label)
  IN  [labels |-> labels, root |-> labels]

Listed(r) == Contains(runs[r].set.labels, runs[r].label)

Full(set) == Len(set.labels) >= MAX_ASSOCIATION_LABELS

\* The label is there already: nothing is written.
AlreadyThere(r) ==
  /\ At(r, "read") /\ Listed(r)
  /\ Goto(r, "done", runs[r].set)
  /\ UNCHANGED <<file, harmed>>

\* Fault: the file is opened before its set is looked at.
RefuseTruncating(r) ==
  /\ At(r, "read") /\ ~Listed(r)
  /\ Full(runs[r].set) \/ runs[r].label \notin Labels
  /\ file' = Broken
  /\ Goto(r, "error", runs[r].set)
  /\ UNCHANGED harmed

\* AssociationSetFull, or a label that is no decimal.
Refuse(r) ==
  /\ At(r, "read") /\ ~Listed(r)
  /\ Full(runs[r].set) \/ runs[r].label \notin Labels
  /\ Goto(r, "error", runs[r].set)
  /\ UNCHANGED <<file, harmed>>

\* Fault: the label and the bound are not looked at.
CreateUnchecked(r) ==
  /\ At(r, "read") /\ ~Listed(r)
  /\ file' = Broken
  /\ Goto(r, "opened", Extended(runs[r].set, runs[r].label))
  /\ UNCHANGED harmed

\* File::create truncates the file.
Create(r) ==
  /\ At(r, "read") /\ ~Listed(r)
  /\ ~Full(runs[r].set) /\ runs[r].label \in Labels
  /\ file' = Broken
  /\ Goto(r, "opened", Extended(runs[r].set, runs[r].label))
  /\ UNCHANGED harmed

\* write_all, over what another run wrote since; a text as long or longer is
\* a set, what sticks out behind a shorter one is not.
WriteAll(r) ==
  /\ At(r, "opened")
  /\ \/ file' = runs[r].set
     \/ Parses /\ file' = Broken
  /\ Goto(r, "done", runs[r].set)
  /\ UNCHANGED harmed

\* The run is killed.
Kill(r) ==
  /\ Midway(r)
  /\ Goto(r, "error", runs[r].set)
  /\ harmed' = (harmed \/ At(r, "opened"))
  /\ UNCHANGED file

Next ==
  \E r \in Runs :
    \/ \E label \in Labels \cup {"invalid"} : Start(r, label)
    \/ AlreadyThere(r) \/ Refuse(r) \/ Create(r) \/ WriteAll(r) \/ Kill(r)

Spec == Init /\ [][Next]_vars

-----------------------------------------------------------------------------

\* Every variable has its type.
TypeOK ==
  /\ file \in {None, Broken} \cup Sets
  /\ \A r \in Runs :
       runs[r].stage \in {"waiting", "read", "opened", "done", "error"}
  /\ harmed \in BOOLEAN

(***************************************************************************)
(* Whatever overlaps or is killed, a file that can be read holds a set     *)
(* some run made: the root is that of its labels, which are valid, as many *)
(* as the tree takes, and there once each.  A mixture of two runs' texts   *)
(* is not taken for a set.                                                 *)
(***************************************************************************)
FileIsASet ==
  Parses =>
    /\ file.root = file.labels /\ file.labels \in Seq(Labels)
    /\ Len(file.labels) \in 1 .. MAX_ASSOCIATION_LABELS
    /\ IsInjective(file.labels)

(***************************************************************************)
(* Runs that follow one another keep each other's labels: every label that *)
(* was reported to be in the set is in the file, and no refusal, nor a run *)
(* killed before it opened the file, leaves it unreadable.  Only a run     *)
(* that overlaps with another, or is killed while it writes, does harm.    *)
(***************************************************************************)
LabelsAreKept ==
  ~harmed =>
    /\ file = Broken => \E r \in Runs : At(r, "opened")
    /\ \A r \in Runs :
         At(r, "done") /\ (\A s \in Runs : ~At(s, "opened")) =>
           Parses /\ Contains(file.labels, runs[r].label)
=============================================================================
