SPECIFICATION Spec
CONSTANTS
  owner = owner
  g1 = g1
  g2 = g2
  usdc = usdc
  Contract = Contract
  FeeAccount = FeeAccount
  None = None
  Contributions = {9}
  BatchSizes = {1}
  Positions = {1, 2}
  OpIds = {op1}
  ReputationBumps = {0}
  ManagerTargets = {}
  MayPause = FALSE
  FeeSettings = {0}
  ManagedTokens = {}
  Freezable = {}
  Wealth = 9
  MaxEvents = 1
  MaxTime = 1
  MinContribution = 1
  MaxAwardsPerSelect = 2
  MaxGrantAwards = 2
  MaxRefundsPerBatch = 2
  MaxReputationBump = 0
  PendingManagerTtl = 1
  ClaimWindow = 1
  MaxFeeBps = 5
  BpsTotal = 10
  MaxSplit = 3
  MaxI128 = 1000
  WinnerBatches <- MCWinnerBatches
  EventParams <- MCEventParams
  Users <- MCUsers
  Tokens <- MCTokens
INVARIANTS
  ReservationBacked
  ReservationExact
  MilestonesPayable
  GrantSettledExactly
PROPERTIES
  GrantEndsSettled
