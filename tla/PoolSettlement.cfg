SPECIFICATION Spec
CONSTANTS
  n1 = n1
  n2 = n2
  n3 = n3
  Nullifiers <- MCNullifiers
  FieldOrder = 6
  RangeBound = 3
  I128Max = 2
  Accounts = {alice, bob}
  Funds = 2
  Capacity = 4
  RootHistorySize = 2
  Amounts <- MCAmounts
  OutputPairs <- MCOutputPairs
  ApprovalRoots <- NoApprovedSet
SYMMETRY Symmetry
INVARIANTS
  TypeOK
  Solvent
  Redeemable
  RootsFollowSettlements
PROPERTIES
  GracePeriod
  RefinesLedger
