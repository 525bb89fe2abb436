SPECIFICATION HistorySpec
CONSTANTS
  owner = owner
  w1 = w1
  w2 = w2
  usdc = usdc
  Contract = Contract
  FeeAccount = FeeAccount
  None = None
  Contributions = {2}
  BatchSizes = {1}
  Positions = {1, 2}
  OpIds = {op1, op2}
  ReputationBumps = {0}
  ManagerTargets = {}
  MayPause = TRUE
  FeeSettings = {5}
  ManagedTokens = {}
  Freezable <- MCFreezable
  Wealth = 6
  MaxEvents = 1
  MaxTime = 3
  MinContribution = 1
  MaxAwardsPerSelect = 2
  MaxGrantAwards = 2
  MaxRefundsPerBatch = 2
  MaxReputationBump = 0
  PendingManagerTtl = 1
  ClaimWindow = 1
  MaxFeeBps = 5
  BpsTotal = 10
  MaxSplit = 3
  MaxI128 = 1000
  WinnerBatches <- MCWinnerBatches
  EventParams <- MCEventParams
  Users <- MCUsers
  Tokens <- MCTokens
INVARIANTS
  ClaimWindowEnds
  ReservationExact
  PrizesClaimable
  UnclaimedCountExact
PROPERTIES
  ClaimWindowHonoured
  WinnerRowsKept
