------------------------ MODULE AssociationFileProofs ------------------------
EXTENDS AssociationFile, TLAPS

(***************************************************************************)
(* What a run may write: a set with the root of its labels.                *)
(***************************************************************************)
GoodSets ==
  {set \in Sets : /\ set.root = set.labels
                  /\ Len(set.labels) \in 1 .. MAX_ASSOCIATION_LABELS
                  /\ IsInjective(set.labels)}

RunStates ==
  {Waiting} \cup [stage : {"read", "opened", "done", "error"},
                  label : Labels \cup {"invalid"}, set : GoodSets \cup {NewSet}]

\* What holds whatever overlaps or is killed.
FileInv ==
  /\ file \in {None, Broken} \cup GoodSets
  /\ runs \in [Runs -> RunStates]
  /\ \A r \in Runs : At(r, "opened") =>
       runs[r].set \in GoodSets /\ Contains(runs[r].set.labels, runs[r].label)
  /\ harmed \in BOOLEAN

(***************************************************************************)
(* What holds as long as runs follow one another: one at most is midway,   *)
(* it has the file in memory, and the labels of the runs that are done are *)
(* in the file, or, while it is written, in what is being written.         *)
(***************************************************************************)
OneMidway == \A r, s \in Runs : Midway(r) /\ Midway(s) => r = s

NotTorn == file = Broken => \E r \in Runs : At(r, "opened")

ReadsTheFile ==
  /\ \A r \in Runs : At(r, "read") => runs[r].set = IF Parses THEN file ELSE NewSet
  /\ \A r \in Runs : At(r, "opened") => file = Broken

DoneAreKept ==
  \A r \in Runs : At(r, "done") =>
    /\ (\A s \in Runs : ~At(s, "opened")) =>
         Parses /\ Contains(file.labels, runs[r].label)
    /\ \A s \in Runs : At(s, "opened") =>
         Contains(runs[s].set.labels, runs[r].label)

KeptInv == ~harmed => OneMidway /\ NotTorn /\ ReadsTheFile /\ DoneAreKept

-----------------------------------------------------------------------------

\* Appending keeps what is in a sequence, and adds the element.
LEMMA ContainsAppended ==
  ASSUME NEW S, NEW s \in Seq(S), NEW e \in S
  PROVE  /\ Contains(Append(s, e), e)
         /\ \A x : Contains(s, x) => Contains(Append(s, e), x)
<1>1. Contains(Append(s, e), e)
  <2>1. Len(s) + 1 \in 1 .. Len(Append(s, e)) /\ Append(s, e)[Len(s) + 1] = e
    OBVIOUS
  <2> QED
    BY <2>1 DEF Contains
<1>2. ASSUME NEW x, Contains(s, x)
      PROVE  Contains(Append(s, e), x)
  <2>1. PICK i \in 1 .. Len(s) : s[i] = x
    BY <1>2 DEF Contains
  <2>2. i \in 1 .. Len(Append(s, e)) /\ Append(s, e)[i] = x
    BY <2>1
  <2> QED
    BY <2>2 DEF Contains
<1> QED
  BY <1>1, <1>2

\* Appending what is not there keeps every element there once.
LEMMA DistinctAppended ==
  ASSUME NEW S, NEW s \in Seq(S), NEW e \in S, IsInjective(s), ~Contains(s, e)
  PROVE  IsInjective(Append(s, e))
<1>1. IsInjective(Append(s, e))
  BY DEF IsInjective, Contains
<1> QED
  BY <1>1

\* The set in memory, extended by a label that it lacks, may be written.
LEMMA ExtendedIsGood ==
  ASSUME AssociationAssumption,
         NEW set \in GoodSets \cup {NewSet}, NEW label \in Labels,
         ~Contains(set.labels, label), ~Full(set)
  PROVE  /\ Extended(set, label) \in GoodSets
         /\ Contains(Extended(set, label).labels, label)
         /\ \A x : Contains(set.labels, x) =>
                     Contains(Extended(set, label).labels, x)
<1>1. set.labels \in Seq(Labels) /\ IsInjective(set.labels)
  <2>1. CASE set \in GoodSets
    BY <2>1 DEF GoodSets, Sets
  <2>2. CASE set = NewSet
    BY <2>2 DEF NewSet, IsInjective
  <2> QED
    BY <2>1, <2>2
<1>2. Len(set.labels) < MAX_ASSOCIATION_LABELS
  BY <1>1 DEF Full, AssociationAssumption
<1>3. Append(set.labels, label) \in Seq(Labels)
  BY <1>1
<1>4. Len(Append(set.labels, label)) \in 1 .. MAX_ASSOCIATION_LABELS
  BY <1>1, <1>2 DEF AssociationAssumption
<1>5. IsInjective(Append(set.labels, label))
  BY <1>1, DistinctAppended
<1>6. Extended(set, label).labels = Append(set.labels, label)
      /\ Extended(set, label).root = Append(set.labels, label)
  BY DEF Extended
<1>7. Extended(set, label) \in Sets
  BY <1>3 DEF Extended, Sets
<1>8. Extended(set, label) \in GoodSets
  BY <1>4, <1>5, <1>6, <1>7 DEF GoodSets
<1>9. /\ Contains(Append(set.labels, label), label)
      /\ \A x : Contains(set.labels, x) => Contains(Append(set.labels, label), x)
  BY <1>1, ContainsAppended, Zenon
<1> QED
  BY <1>6, <1>8, <1>9

-----------------------------------------------------------------------------

\* A file is there to be read just when it is a set.
LEMMA ParsedIsGood ==
  ASSUME AssociationAssumption, FileInv
  PROVE  /\ Parses <=> file \in GoodSets
         /\ Broken \notin GoodSets /\ None \notin GoodSets
  BY DEF AssociationAssumption, FileInv, Parses, GoodSets

\* A run that has a set in memory has all of its fields.
LEMMA RunsHaveSets ==
  ASSUME FileInv, NEW r \in Runs, ~At(r, "waiting")
  PROVE  /\ runs[r].stage \in {"read", "opened", "done", "error"}
         /\ runs[r].label \in Labels \cup {"invalid"}
         /\ runs[r].set \in GoodSets \cup {NewSet}
  BY DEF FileInv, RunStates, At, Waiting

\* Goto changes the stage and the set of one run.
LEMMA GotoChanges ==
  ASSUME FileInv, NEW r \in Runs, ~At(r, "waiting"),
         NEW stage \in {"read", "opened", "done", "error"},
         NEW set \in GoodSets \cup {NewSet}, Goto(r, stage, set)
  PROVE  /\ runs' \in [Runs -> RunStates]
         /\ runs'[r] = [stage |-> stage, label |-> runs[r].label, set |-> set]
         /\ runs'[r].stage = stage /\ runs'[r].label = runs[r].label
         /\ runs'[r].set = set
         /\ \A s \in Runs \ {r} : runs'[s] = runs[s]
<1>1. runs[r] \in [stage : {"read", "opened", "done", "error"},
                   label : Labels \cup {"invalid"}, set : GoodSets \cup {NewSet}]
  BY DEF FileInv, RunStates, At, Waiting
<1>2. runs' = [runs EXCEPT ![r] =
                 [stage |-> stage, label |-> runs[r].label, set |-> set]]
  BY DEF Goto
<1>3. [stage |-> stage, label |-> runs[r].label, set |-> set] \in RunStates
  BY <1>1 DEF RunStates
<1> QED
  BY <1>2, <1>3 DEF FileInv

\* Start gives a run the file, or a new set, in memory.
LEMMA StartChanges ==
  ASSUME AssociationAssumption, FileInv, NEW r \in Runs,
         NEW label \in Labels \cup {"invalid"}, Start(r, label)
  PROVE  /\ runs' \in [Runs -> RunStates]
         /\ runs'[r] = [stage |-> IF file = Broken THEN "error" ELSE "read",
                       label |-> label, set |-> IF Parses THEN file ELSE NewSet]
         /\ runs'[r].stage = IF file = Broken THEN "error" ELSE "read"
         /\ runs'[r].set = IF Parses THEN file ELSE NewSet
         /\ \A s \in Runs \ {r} : runs'[s] = runs[s]
<1> DEFINE new == [stage |-> IF file = Broken THEN "error" ELSE "read",
                   label |-> label, set |-> IF Parses THEN file ELSE NewSet]
<1>1. (IF Parses THEN file ELSE NewSet) \in GoodSets \cup {NewSet}
  BY ParsedIsGood
<1>2. new \in RunStates
  BY <1>1 DEF RunStates
<1>3. runs' = [runs EXCEPT ![r] = new]
  BY DEF Start
<1> HIDE DEF new
<1>4. runs' \in [Runs -> RunStates] /\ runs'[r] = new
      /\ \A s \in Runs \ {r} : runs'[s] = runs[s]
  BY <1>2, <1>3 DEF FileInv
<1> QED
  BY <1>4 DEF new

-----------------------------------------------------------------------------

\* Every step, whatever it overlaps with, preserves FileInv.
LEMMA FileInvStep ==
  ASSUME AssociationAssumption, FileInv, [Next]_vars
  PROVE  FileInv'
<1>1. CASE UNCHANGED vars
  BY <1>1 DEF FileInv, vars, At
<1>2. ASSUME NEW r \in Runs, NEW label \in Labels \cup {"invalid"}, Start(r, label)
      PROVE  FileInv'
  <2>1. runs' \in [Runs -> RunStates] /\ runs'[r].stage # "opened"
    BY <1>2, StartChanges
  <2>2. \A s \in Runs \ {r} : runs'[s] = runs[s]
    BY <1>2, StartChanges
  <2>3. file' = file /\ harmed' \in BOOLEAN
    BY <1>2 DEF Start
  <2> QED
    BY <2>1, <2>2, <2>3 DEF FileInv, At
<1>3. ASSUME NEW r \in Runs, AlreadyThere(r) \/ Refuse(r) \/ Kill(r)
      PROVE  FileInv'
  <2>1. ~At(r, "waiting") /\ runs[r].set \in GoodSets \cup {NewSet}
    <3>1. ~At(r, "waiting")
      BY <1>3 DEF AlreadyThere, Refuse, Kill, At, Midway
    <3> QED
      BY <3>1, RunsHaveSets
  <2>2. \E stage \in {"done", "error"} : Goto(r, stage, runs[r].set)
    BY <1>3 DEF AlreadyThere, Refuse, Kill
  <2>3. PICK stage \in {"done", "error"} : Goto(r, stage, runs[r].set)
    BY <2>2
  <2>4. /\ runs' \in [Runs -> RunStates] /\ runs'[r].stage = stage
        /\ \A s \in Runs \ {r} : runs'[s] = runs[s]
    <3>1. stage \in {"read", "opened", "done", "error"}
      OBVIOUS
    <3> QED
      BY <2>1, <2>3, <3>1, GotoChanges, Zenon
  <2>5. file' = file /\ harmed' \in BOOLEAN
    BY <1>3 DEF AlreadyThere, Refuse, Kill, FileInv
  <2> QED
    BY <2>4, <2>5 DEF FileInv, At
<1>4. ASSUME NEW r \in Runs, Create(r)
      PROVE  FileInv'
  <2>1. /\ At(r, "read") /\ ~At(r, "waiting") /\ runs[r].label \in Labels
        /\ ~Contains(runs[r].set.labels, runs[r].label) /\ ~Full(runs[r].set)
    BY <1>4 DEF Create, At, Listed
  <2>2. runs[r].set \in GoodSets \cup {NewSet}
    BY <2>1, RunsHaveSets
  <2> DEFINE new == Extended(runs[r].set, runs[r].label)
  <2>3. new \in GoodSets /\ Contains(new.labels, runs[r].label)
    BY <2>1, <2>2, ExtendedIsGood
  <2>4. Goto(r, "opened", new) /\ file' = Broken /\ harmed' = harmed
    BY <1>4 DEF Create
  <2> HIDE DEF new
  <2>5. /\ runs' \in [Runs -> RunStates]
        /\ runs'[r] = [stage |-> "opened", label |-> runs[r].label, set |-> new]
        /\ \A s \in Runs \ {r} : runs'[s] = runs[s]
    BY <2>1, <2>3, <2>4, GotoChanges
  <2> QED
    BY <2>3, <2>4, <2>5 DEF FileInv, At
<1>5. ASSUME NEW r \in Runs, WriteAll(r)
      PROVE  FileInv'
  <2>1. ~At(r, "waiting") /\ runs[r].set \in GoodSets
    BY <1>5 DEF WriteAll, At, FileInv
  <2>2. Goto(r, "done", runs[r].set) /\ harmed' = harmed
        /\ file' \in {runs[r].set, Broken}
    BY <1>5 DEF WriteAll
  <2>3. /\ runs' \in [Runs -> RunStates] /\ runs'[r].stage = "done"
        /\ \A s \in Runs \ {r} : runs'[s] = runs[s]
    <3>1. "done" \in {"read", "opened", "done", "error"}
      OBVIOUS
    <3>2. runs[r].set \in GoodSets \cup {NewSet}
      BY <2>1
    <3> QED
      BY <2>1, <2>2, <3>1, <3>2, GotoChanges, Zenon
  <2> QED
    BY <2>1, <2>2, <2>3 DEF FileInv, At
<1> QED
  BY <1>1, <1>2, <1>3, <1>4, <1>5 DEF Next

\* FileInv holds with no file and no run.
LEMMA FileInvInit ==
  Init => FileInv
<1> SUFFICES ASSUME Init PROVE FileInv
  OBVIOUS
<1>1. runs \in [Runs -> RunStates]
  BY DEF Init, RunStates
<1>2. ASSUME NEW r \in Runs PROVE ~At(r, "opened")
  <2>1. runs[r].stage = "waiting"
    BY DEF Init, Waiting
  <2> QED
    BY <2>1 DEF At
<1> QED
  BY <1>1, <1>2 DEF Init, FileInv

\* FileInv holds of every state.
LEMMA FileInvariant ==
  ASSUME AssociationAssumption
  PROVE  Spec => []FileInv
<1>1. FileInv /\ [Next]_vars => FileInv'
  BY FileInvStep
<1> QED
  BY <1>1, FileInvInit, PTL DEF Spec

-----------------------------------------------------------------------------

\* A run that is midway alone, unless harm was done.
LEMMA OthersRest ==
  ASSUME KeptInv, ~harmed, NEW r \in Runs, Midway(r), NEW s \in Runs \ {r}
  PROVE  ~Midway(s) /\ ~At(s, "read") /\ ~At(s, "opened")
  BY DEF KeptInv, OneMidway, Midway, At

\* No run is midway at first.
LEMMA KeptInvInit ==
  ASSUME AssociationAssumption
  PROVE  Init => KeptInv
<1> SUFFICES ASSUME Init PROVE KeptInv
  OBVIOUS
<1>1. \A r \in Runs : runs[r].stage = "waiting"
  BY DEF Init, Waiting
<1>2. \A r \in Runs : ~Midway(r) /\ ~At(r, "read") /\ ~At(r, "opened") /\ ~At(r, "done")
  BY <1>1 DEF Midway, At
<1>3. file # Broken
  BY DEF Init, AssociationAssumption
<1> QED
  BY <1>2, <1>3 DEF KeptInv, OneMidway, NotTorn, ReadsTheFile, DoneAreKept

\* Every step that does no harm preserves what holds between runs that follow one another.
LEMMA KeptInvStep ==
  ASSUME AssociationAssumption, FileInv, KeptInv, [Next]_vars
  PROVE  KeptInv'
<1> SUFFICES ASSUME ~harmed'
             PROVE  (OneMidway /\ NotTorn /\ ReadsTheFile /\ DoneAreKept)'
  BY DEF KeptInv
<1>1. CASE UNCHANGED vars
  BY <1>1 DEF vars, KeptInv, OneMidway, NotTorn, ReadsTheFile, DoneAreKept,
              Midway, At, Parses
<1>2. ASSUME NEW r \in Runs, NEW label \in Labels \cup {"invalid"}, Start(r, label)
      PROVE  (OneMidway /\ NotTorn /\ ReadsTheFile /\ DoneAreKept)'
  <2>1. /\ ~harmed /\ file' = file /\ At(r, "waiting")
        /\ \A s \in Runs \ {r} : ~Midway(s)
    BY <1>2 DEF Start
  <2>2. \A s \in Runs : ~At(s, "opened")
    BY <2>1 DEF Midway, At
  <2>3. file # Broken
    BY <2>1, <2>2 DEF KeptInv, NotTorn
  <2>4. /\ runs'[r].stage = "read"
        /\ runs'[r].set = IF Parses THEN file ELSE NewSet
        /\ \A s \in Runs \ {r} : runs'[s] = runs[s]
    <3>1. /\ runs'[r].stage = IF file = Broken THEN "error" ELSE "read"
          /\ runs'[r].set = IF Parses THEN file ELSE NewSet
          /\ \A s \in Runs \ {r} : runs'[s] = runs[s]
      BY <1>2, StartChanges, Zenon
    <3> QED
      BY <2>3, <3>1
  <2>5. \A s \in Runs : At(s, "opened")' => FALSE
    BY <2>2, <2>4 DEF At
  <2>6. OneMidway' /\ NotTorn' /\ ReadsTheFile'
    BY <2>1, <2>3, <2>4, <2>5 DEF OneMidway, NotTorn, ReadsTheFile, Midway, At, Parses
  <2>7. DoneAreKept'
    BY <2>1, <2>2, <2>4, <2>5 DEF KeptInv, DoneAreKept, At, Parses
  <2> QED
    BY <2>6, <2>7
<1>3. ASSUME NEW r \in Runs, AlreadyThere(r)
      PROVE  (OneMidway /\ NotTorn /\ ReadsTheFile /\ DoneAreKept)'
  <2>1. ~harmed /\ file' = file /\ At(r, "read") /\ Listed(r)
    BY <1>3 DEF AlreadyThere
  <2>2. Midway(r) /\ ~At(r, "waiting") /\ ~At(r, "opened")
    BY <2>1 DEF Midway, At
  <2>3. \A s \in Runs \ {r} : ~Midway(s) /\ ~At(s, "read") /\ ~At(s, "opened")
    BY <2>1, <2>2, OthersRest
  <2>4. file # Broken /\ runs[r].set = IF Parses THEN file ELSE NewSet
    BY <2>1, <2>2, <2>3 DEF KeptInv, NotTorn, ReadsTheFile
  <2>5. Parses /\ Contains(file.labels, runs[r].label)
    <3>1. ~Contains(NewSet.labels, runs[r].label)
      BY DEF NewSet, Contains
    <3> QED
      BY <2>1, <2>4, <3>1 DEF Listed
  <2>6. /\ runs'[r].stage = "done" /\ runs'[r].label = runs[r].label
        /\ \A s \in Runs \ {r} : runs'[s] = runs[s]
    <3>1. "done" \in {"read", "opened", "done", "error"}
      OBVIOUS
    <3>2. runs[r].set \in GoodSets \cup {NewSet} /\ Goto(r, "done", runs[r].set)
      BY <1>3, <2>2, RunsHaveSets, Zenon DEF AlreadyThere
    <3> QED
      BY <2>2, <3>1, <3>2, GotoChanges, Zenon
  <2>7. \A s \in Runs : ~At(s, "read")' /\ ~At(s, "opened")' /\ ~Midway(s)'
    BY <2>3, <2>6 DEF At, Midway
  <2>8. OneMidway' /\ NotTorn' /\ ReadsTheFile'
    BY <2>1, <2>4, <2>7 DEF OneMidway, NotTorn, ReadsTheFile
  <2>9. DoneAreKept'
    BY <2>1, <2>2, <2>3, <2>5, <2>6, <2>7 DEF KeptInv, DoneAreKept, At, Parses
  <2> QED
    BY <2>8, <2>9
<1>4. ASSUME NEW r \in Runs, Refuse(r) \/ Kill(r)
      PROVE  (OneMidway /\ NotTorn /\ ReadsTheFile /\ DoneAreKept)'
  <2>1. ~harmed /\ file' = file /\ At(r, "read") /\ Goto(r, "error", runs[r].set)
    <3>1. CASE Refuse(r)
      BY <3>1 DEF Refuse
    <3>2. CASE Kill(r)
      <4>1. ~harmed /\ ~At(r, "opened")
        BY <3>2, Zenon DEF Kill
      <4> QED
        BY <3>2, <4>1 DEF Kill, Midway, At
    <3> QED
      BY <1>4, <3>1, <3>2
  <2>2. Midway(r) /\ ~At(r, "waiting") /\ ~At(r, "opened")
    BY <2>1 DEF Midway, At
  <2>3. \A s \in Runs \ {r} : ~Midway(s) /\ ~At(s, "read") /\ ~At(s, "opened")
    BY <2>1, <2>2, OthersRest
  <2>4. /\ runs'[r].stage = "error"
        /\ \A s \in Runs \ {r} : runs'[s] = runs[s]
    <3>1. "error" \in {"read", "opened", "done", "error"}
      OBVIOUS
    <3>2. runs[r].set \in GoodSets \cup {NewSet}
      BY <2>2, RunsHaveSets, Zenon
    <3> QED
      BY <2>1, <2>2, <3>1, <3>2, GotoChanges, Zenon
  <2>5. \A s \in Runs : ~At(s, "read")' /\ ~At(s, "opened")' /\ ~Midway(s)'
    BY <2>3, <2>4 DEF At, Midway
  <2>6. file # Broken
    BY <2>1, <2>2, <2>3 DEF KeptInv, NotTorn
  <2>7. OneMidway' /\ NotTorn' /\ ReadsTheFile'
    BY <2>1, <2>5, <2>6 DEF OneMidway, NotTorn, ReadsTheFile
  <2>8. DoneAreKept'
    BY <2>1, <2>2, <2>3, <2>4, <2>5 DEF KeptInv, DoneAreKept, At, Parses
  <2> QED
    BY <2>7, <2>8
<1>5. ASSUME NEW r \in Runs, Create(r)
      PROVE  (OneMidway /\ NotTorn /\ ReadsTheFile /\ DoneAreKept)'
  <2> DEFINE new == Extended(runs[r].set, runs[r].label)
  <2>1. /\ ~harmed /\ file' = Broken /\ At(r, "read") /\ Goto(r, "opened", new)
        /\ ~Contains(runs[r].set.labels, runs[r].label)
        /\ ~Full(runs[r].set) /\ runs[r].label \in Labels
    BY <1>5 DEF Create, Listed
  <2>2. Midway(r) /\ ~At(r, "waiting") /\ ~At(r, "opened")
    BY <2>1 DEF Midway, At
  <2>3. \A s \in Runs \ {r} : ~Midway(s) /\ ~At(s, "read") /\ ~At(s, "opened")
    BY <2>1, <2>2, OthersRest
  <2>4. runs[r].set = IF Parses THEN file ELSE NewSet
    BY <2>1 DEF KeptInv, ReadsTheFile
  <2>5. /\ new \in GoodSets
        /\ \A x : Contains(runs[r].set.labels, x) => Contains(new.labels, x)
    BY <2>1, <2>2, RunsHaveSets, ExtendedIsGood
  <2> HIDE DEF new
  <2>6. /\ runs'[r].stage = "opened" /\ runs'[r].set = new
        /\ \A s \in Runs \ {r} : runs'[s] = runs[s]
    <3>1. "opened" \in {"read", "opened", "done", "error"}
      OBVIOUS
    <3>2. new \in GoodSets \cup {NewSet}
      BY <2>5
    <3> QED
      BY <2>1, <2>2, <3>1, <3>2, GotoChanges, Zenon
  <2>7. At(r, "opened")' /\ Midway(r)' /\ ~At(r, "read")' /\ ~At(r, "done")'
    BY <2>6 DEF At, Midway
  <2>8. \A s \in Runs \ {r} : ~Midway(s)' /\ ~At(s, "read")' /\ ~At(s, "opened")'
    BY <2>3, <2>6 DEF At, Midway
  <2>9. OneMidway' /\ NotTorn' /\ ReadsTheFile'
    BY <2>1, <2>7, <2>8 DEF OneMidway, NotTorn, ReadsTheFile
  <2>10. ASSUME NEW s \in Runs, At(s, "done")'
         PROVE  Contains(new.labels, runs'[s].label)
    <3>1. s # r /\ runs'[s] = runs[s] /\ At(s, "done")
      BY <2>6, <2>7, <2>10 DEF At
    <3>2. Parses /\ Contains(file.labels, runs[s].label)
      BY <2>1, <2>2, <2>3, <3>1 DEF KeptInv, DoneAreKept
    <3> QED
      BY <2>4, <2>5, <3>1, <3>2
  <2>11. DoneAreKept'
    BY <2>6, <2>7, <2>8, <2>10 DEF DoneAreKept
  <2> QED
    BY <2>9, <2>11
<1>6. ASSUME NEW r \in Runs, WriteAll(r)
      PROVE  (OneMidway /\ NotTorn /\ ReadsTheFile /\ DoneAreKept)'
  <2>1. ~harmed /\ At(r, "opened") /\ Goto(r, "done", runs[r].set)
    BY <1>6 DEF WriteAll
  <2>2. Midway(r) /\ ~At(r, "waiting")
    BY <2>1 DEF Midway, At
  <2>3. \A s \in Runs \ {r} : ~Midway(s) /\ ~At(s, "read") /\ ~At(s, "opened")
    BY <2>1, <2>2, OthersRest
  <2>4. file = Broken /\ file' = runs[r].set
    BY <1>6, <2>1 DEF WriteAll, KeptInv, ReadsTheFile, Parses
  <2>5. runs[r].set \in GoodSets /\ Contains(runs[r].set.labels, runs[r].label)
    BY <2>1 DEF FileInv
  <2>6. Parses'
    BY <2>4, <2>5, ParsedIsGood DEF Parses
  <2>7. /\ runs'[r].stage = "done" /\ runs'[r].label = runs[r].label
        /\ \A s \in Runs \ {r} : runs'[s] = runs[s]
    <3>1. "done" \in {"read", "opened", "done", "error"}
      OBVIOUS
    <3>2. runs[r].set \in GoodSets \cup {NewSet}
      BY <2>5
    <3> QED
      BY <2>1, <2>2, <3>1, <3>2, GotoChanges, Zenon
  <2>8. \A s \in Runs : ~At(s, "read")' /\ ~At(s, "opened")' /\ ~Midway(s)'
    BY <2>3, <2>7 DEF At, Midway
  <2>9. OneMidway' /\ NotTorn' /\ ReadsTheFile'
    BY <2>6, <2>8 DEF OneMidway, NotTorn, ReadsTheFile, Parses
  <2>10. ASSUME NEW s \in Runs, At(s, "done")'
         PROVE  Contains(runs[r].set.labels, runs'[s].label)
    <3>1. CASE s = r
      BY <2>5, <2>7, <3>1
    <3>2. CASE s # r
      <4>1. runs'[s] = runs[s] /\ At(s, "done")
        BY <2>7, <2>10, <3>2 DEF At
      <4> QED
        BY <2>1, <4>1 DEF KeptInv, DoneAreKept
    <3> QED
      BY <3>1, <3>2
  <2>11. DoneAreKept'
    BY <2>4, <2>6, <2>8, <2>10 DEF DoneAreKept
  <2> QED
    BY <2>9, <2>11
<1> QED
  BY <1>1, <1>2, <1>3, <1>4, <1>5, <1>6 DEF Next

-----------------------------------------------------------------------------

(***************************************************************************)
(* Every variable keeps its type.                                          *)
(***************************************************************************)
THEOREM AssociationFileTypeCorrect ==
  ASSUME AssociationAssumption
  PROVE  Spec => []TypeOK
<1>1. FileInv => TypeOK
  <2> SUFFICES ASSUME FileInv PROVE TypeOK
    OBVIOUS
  <2>1. \A r \in Runs :
          runs[r].stage \in {"waiting", "read", "opened", "done", "error"}
    BY DEF FileInv, RunStates, Waiting
  <2> QED
    BY <2>1 DEF FileInv, TypeOK, GoodSets
<1> QED
  BY <1>1, FileInvariant, PTL

(***************************************************************************)
(* However many runs of updateAssociation overlap, and wherever they are   *)
(* killed, a file that can be read is a set one of them made.              *)
(***************************************************************************)
THEOREM AssociationFileIsASet ==
  ASSUME AssociationAssumption
  PROVE  Spec => []FileIsASet
<1>1. FileInv => FileIsASet
  BY ParsedIsGood DEF FileIsASet, GoodSets, Sets
<1> QED
  BY <1>1, FileInvariant, PTL

(***************************************************************************)
(* Any number of runs that follow one another keep each other's labels.    *)
(***************************************************************************)
THEOREM AssociationLabelsAreKept ==
  ASSUME AssociationAssumption
  PROVE  Spec => []LabelsAreKept
<1>1. FileInv /\ KeptInv /\ [Next]_vars => KeptInv'
  BY KeptInvStep
<1>2. Spec => []KeptInv
  BY <1>1, KeptInvInit, FileInvariant, PTL DEF Spec
<1>3. KeptInv => LabelsAreKept
  BY DEF KeptInv, NotTorn, DoneAreKept, LabelsAreKept
<1> QED
  BY <1>2, <1>3, PTL
=============================================================================
