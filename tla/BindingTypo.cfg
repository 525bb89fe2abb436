SPECIFICATION ProfileControlSpec
CONSTANTS
  None = None
  Addresses = {deployer, multisig, typo}
  Held = {deployer, multisig}
  Releases = {r1, r2}
  EventsContracts = {events1, events2, mistyped}
  Live = {events1, events2}
  PendingAdminTtl = 1
  UpgradeTimelock = 1
  UpgradeTtl = 2
  BindingTimelock = 1
  BindingTtl = 2
  MaxTime = 4
PROPERTIES
  RotationKeepsLive
