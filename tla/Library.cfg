SPECIFICATION LibrarySpec
CONSTANTS
  Nil = Nil
  Tabs = {t1, t2}
  Keys = {k1, k2}
  Calls = {c1, c2}
  Fresh = {fresh}
  Kept = {kept}
  Orphans = {orphan}
  Pages = {"terminal", "settings"}
  None = None
  r1 = r1
  r2 = r2
  r3 = r3
  la = la
  lb = lb
  lc = lc
  x = x
  y = y
  Runs <- MCRuns
  Labels <- MCLabels
  MAX_ASSOCIATION_LABELS = 2
  Broken = Broken
  LowDepth = 1
  Depth = 3
  Commitments <- MCCommitments
  Zero = Zero
  Nullifiers <- MCNullifiers
  FieldOrder = 37
  RangeBound = 16
  I128Max = 7
  HexBase = 2
  Width = 3
  PointWidth = 2
  LenWidth = 2
  N_F = 4
  N_P = 3
  POSEIDON_C <- MC_POSEIDON_C
  POSEIDON_M <- MC_POSEIDON_M
  Ten = 10
  Decimals = 2
  Inputs <- MCInputs
SYMMETRY Alike
INVARIANTS
  TypeOK
  TabsShowTheStore
  FileIsASet
  LabelsAreKept
  TreeFollowsReloads
  LanguagesAgree
  WireIsParsed
  AmountsRoundTrip
  TransferIsProvable
PROPERTIES
  VaultIsKept
CHECK_DEADLOCK FALSE
