SPECIFICATION FairSpec
CONSTANTS
  Nil = Nil
  n1 = n1
  n2 = n2
  n3 = n3
  Notes <- MCNotes
  MaxVersion = 2
  MaxReads = 2
  Nullifiers <- MCNullifiers
  FieldOrder = 6
  RangeBound = 3
  I128Max = 2
  Accounts = {alice}
  Funds = 3
  Capacity = 4
  RootHistorySize = 2
  Amounts = {1}
  OutputPairs = {}
  ApprovalRoots <- MCApprovalRoots
  Mine <- MCMine
  Chapters <- MCChapters
  Handles = {h1, h2, h3, h4}
  Shapes = {1, 2}
  Palettes = {1, 2}
  WaveLife = 2
  Cards = 3
  max = 3
  MaxEvents = 8
  MaxTimers = 2
  Sections = {"top", "how"}
  Top = "top"
  Questions = 2
  To = 3
INVARIANTS
  TypeOK
  QuietPageIsCurrent
  BadgeIsTheContracts
  FrameIsCurrent
  OneLoopEach
  WidgetsLetGo
PROPERTIES
  NoFlicker
  WaitingEnds
