---------------------------- MODULE AdminHistory ----------------------------
(***************************************************************************)
(* The control plane of the events contract with its history.              *)
(***************************************************************************)
EXTENDS EventsAdmin, ControlHistory

adminHistoryVars == <<adminVars, offered, announced>>

AdminHistoryInit == AdminInit /\ NothingOffered

RotationStep == RotateAdmin /\ UNCHANGED <<bindingVars, validatorVars>>

ValidatorStep ==
  /\ \/ \E v \in Addresses : ProposeReleaseValidator(v) /\ Offer("validator", v)
     \/ AcceptReleaseValidator /\ Withdraw("validator")
     \/ CancelPendingReleaseValidator /\ Withdraw("validator")
     \/ ClearReleaseValidator /\ Withdraw("validator")
  /\ UNCHANGED announced

UpgradeStep == UpgradeContract /\ UNCHANGED <<bindingVars, validatorVars>>

OtherStep ==
  /\ \/ \E a \in FeeAccounts : SetFeeAccount(a)
     \/ \E c \in ProfileContracts : SetProfileContract(c)
     \/ ControlTick /\ UNCHANGED <<bindingVars, validatorVars>>
  /\ UNCHANGED <<offered, announced>>

AdminHistoryNext == RotationStep \/ ValidatorStep \/ UpgradeStep \/ OtherStep

AdminHistorySpec == AdminHistoryInit /\ [][AdminHistoryNext]_adminHistoryVars

-----------------------------------------------------------------------------

\* A typo or a key nobody holds never takes over (ARCHITECTURE.md, Roles):
\* somebody can always sign as the admin, and as the co-signer of campaign
\* releases, whatever addresses the admin proposes (admin.rs accept_admin,
\* accept_release_validator, release_cosigner).
ControlHeld == admin \in Held /\ ReleaseCosigner \in Held

\* The offer a takes the role up on: made to a, not since withdrawn or
\* replaced, and not lapsed.
OnOffer(role, a) ==
  /\ offered[role] # None
  /\ offered[role].target = a
  /\ now <= offered[role].since + PendingAdminTtl

\* Nobody becomes admin or validator but on the offer that stands: a proposal
\* that was replaced, cancelled, cleared with the validator or left to lapse
\* never takes effect later (admin.rs clear_release_validator,
\* cancel_pending_release_validator, accept_*).
AppointedOnStandingOffer ==
  [][/\ admin' # admin => OnOffer("admin", admin')
     /\ release_validator' \notin {None, release_validator}
          => OnOffer("validator", release_validator')]_adminHistoryVars

\* Code runs only after it has been on public display, unchanged and not
\* cancelled, for the whole timelock, and no later than its expiry
\* (admin.rs propose_upgrade, apply_upgrade, cancel_pending_upgrade).
UpgradeOnDisplay ==
  [][release' # release =>
       /\ announced # None
       /\ announced.release = release'
       /\ now - announced.since \in UpgradeTimelock .. UpgradeTtl]_adminHistoryVars
=============================================================================
