SPECIFICATION MCSpec
CONSTANTS
  None = None
  Unset = Unset
  fees = fees
  vault = vault
  profile1 = profile1
  profile2 = profile2
  Addresses = {deployer, multisig, typo}
  Held = {deployer, multisig}
  Releases = {r1, r2}
  FeeAccounts = {fees, vault}
  ProfileContracts = {profile1, profile2}
  EventsContracts = {events1, mistyped}
  Live = {events1}
  PendingAdminTtl = 1
  UpgradeTimelock = 1
  UpgradeTtl = 2
  BindingTimelock = 1
  BindingTtl = 2
  MaxTime = 4
  Tokens = {t1, t2, t3, t4}
  Versions = {1, 2, 3}
  MaxEvents = 4
  MaxPerCall = 2
  PageSizes = {0, 1, 3}
  OldRows <- MCOldRows
  NewRows <- MCNewRows
INVARIANTS
  ControlHeld
  EnumerationExact
  StampMeansDecodable
  FloorsAffordable
PROPERTIES
  AppointedOnStandingOffer
  UpgradeOnDisplay
  WritersAnnounced
  ImplementsTokenSet
  ConversionKeepsBooks
  MigrationFinishes
