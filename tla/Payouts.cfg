SPECIFICATION PayoutSpec
CONSTANTS
  owner = owner
  u1 = u1
  usdc = usdc
  elsewhere = elsewhere
  successor = successor
  Contract = Contract
  Profile = Profile
  Admin = Admin
  FeeAccount = FeeAccount
  None = None
  Contributions = {3}
  BatchSizes = {}
  Positions = {1, 2}
  OpIds = {op1}
  ReputationBumps = {1}
  ManagerTargets = {}
  MayPause = FALSE
  FeeSettings = {0}
  ManagedTokens = {}
  Freezable = {}
  Wealth = 3
  MaxEvents = 1
  MaxTime = 2
  MinContribution = 1
  MaxAwardsPerSelect = 2
  MaxGrantAwards = 2
  MaxRefundsPerBatch = 2
  MaxReputationBump = 2
  PendingManagerTtl = 1
  ClaimWindow = 1
  MaxFeeBps = 5
  BpsTotal = 10
  MaxSplit = 3
  MaxI128 = 1000
  MaxDeltaPerCall = 2
  MaxReputation = 2
  MaxEarnings = 1000
  BindingTimelock = 1
  BindingTtl = 1
  SlashDeltas = {1}
  SlashOps = {s1}
  MaxSlashed = 1
  WinnerBatches <- MCWinnerBatches
  EventParams <- MCEventParams
  Users <- MCUsers
  Tokens <- MCTokens
  Strangers <- MCStrangers
  Guesses <- MCGuesses
  Slashable <- MCSlashable
  ProfileContracts <- MCProfileContracts
  EventsContracts <- MCEventsContracts
INVARIANTS
  ReachablePayoutsRecorded
  ReputationAccounted
  ChildrenFollowParents
