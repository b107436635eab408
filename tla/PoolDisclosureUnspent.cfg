SPECIFICATION Spec
CONSTANTS
  n1 = n1
  n2 = n2
  n3 = n3
  Nullifiers <- MCNullifiers
  FieldOrder = 6
  RangeBound = 3
  I128Max = 2
  Accounts = {alice}
  Funds = 2
  Capacity = 4
  RootHistorySize = 2
  Amounts <- MCAmounts
  OutputPairs <- FewOutputPairs
  ApprovalRoots <- MCApprovalRoots
SYMMETRY Symmetry
INVARIANT
  DisclosureProvesUnspent
