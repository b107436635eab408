SPECIFICATION Spec
CONSTANTS
  n1 = n1
  n2 = n2
  nx = nx
  alice = alice
  bob = bob
  c1 = c1
  c2 = c2
  c3 = c3
  Nullifiers <- MCNullifiers
  WalletNullifiers <- MCWalletNullifiers
  FieldOrder = 4
  RangeBound = 2
  I128Max = 1
  Accounts <- MCAccounts
  Wallet = alice
  Funds = 2
  Capacity = 3
  RootHistorySize = 2
  Amounts <- MCAmounts
  OutputPairs = {}
  ApprovalRoots <- MCApprovalRoots
  Calls <- ThreeCalls
  MaxPolls = 1
SYMMETRY Symmetry
INVARIANTS
  TypeOK
  VaultIsReal
  VaultFollowsChain
  PaidOnce
CHECK_DEADLOCK FALSE
