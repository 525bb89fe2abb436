SPECIFICATION Spec
CONSTANTS
  owner = owner
  m1 = m1
  usdc = usdc
  Contract = Contract
  FeeAccount = FeeAccount
  None = None
  Contributions = {1}
  BatchSizes = {1}
  Positions = {1, 2}
  OpIds = {op1}
  ReputationBumps = {0}
  ManagerTargets <- MCManagerTargets
  MayPause = TRUE
  FeeSettings = {0}
  ManagedTokens <- MCTokens
  Freezable = {}
  Wealth = 3
  MaxEvents = 1
  MaxTime = 3
  MinContribution = 1
  MaxAwardsPerSelect = 2
  MaxGrantAwards = 2
  MaxRefundsPerBatch = 2
  MaxReputationBump = 0
  PendingManagerTtl = 1
  ClaimWindow = 1
  MaxFeeBps = 5
  BpsTotal = 10
  MaxSplit = 3
  MaxI128 = 1000
  WinnerBatches <- MCWinnerBatches
  EventParams <- MCEventParams
  Users <- MCUsers
  Tokens <- MCTokens
PROPERTIES
  HandoverLeavesNoProposal
  PauseStopsEverything
