SPECIFICATION Spec
CONSTANTS
  owner = owner
  c1 = c1
  c2 = c2
  usdc = usdc
  Contract = Contract
  FeeAccount = FeeAccount
  None = None
  Contributions = {1, 2}
  BatchSizes = {1, 2}
  Positions = {1, 2}
  OpIds = {op1}
  ReputationBumps = {0}
  ManagerTargets = {}
  MayPause = FALSE
  FeeSettings = {0}
  ManagedTokens = {}
  Freezable <- MCFreezable
  Wealth = 4
  MaxEvents = 1
  MaxTime = 4
  MinContribution = 1
  MaxAwardsPerSelect = 2
  MaxGrantAwards = 2
  MaxRefundsPerBatch = 2
  MaxReputationBump = 0
  PendingManagerTtl = 1
  ClaimWindow = 1
  MaxFeeBps = 5
  BpsTotal = 10
  MaxSplit = 3
  MaxI128 = 1000
  WinnerBatches <- MCWinnerBatches
  EventParams <- MCEventParams
  Users <- MCUsers
  Tokens <- MCTokens
INVARIANTS
  TypeOK
  Solvent
  NothingStranded
  ContributionsTracked
  CancellationConsistent
  RefundsFollowCursor
