SPECIFICATION Spec
CONSTANTS
  c1 = c1
  c2 = c2
  Zero = Zero
  Commitments <- MCCommitments
  Depth = 3
INVARIANTS
  TypeOK
  RootOfTheWholeTree
  PathsVerify
  RootsNameTrees
CHECK_DEADLOCK FALSE
