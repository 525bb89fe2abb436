----------------------------- MODULE EventsAdmin -----------------------------
(***************************************************************************)
(* The control plane of the events contract (admin.rs): the shared part,   *)
(* the fee account, the release validator that co-signs the milestones of  *)
(* campaigns, and the binding to the profile contract.  Pausing, the fee   *)
(* rate and the whitelist are in EventsContract, migration in              *)
(* EventMigration.                                                         *)
(***************************************************************************)
EXTENDS ContractAdmin

CONSTANTS FeeAccounts, ProfileContracts   \* what the admin may configure

VARIABLES
  fee_account, profile_contract,
  release_validator,           \* ReleaseValidator: None or an address
  pending_release_validator    \* None or a target and its expiry

validatorVars == <<release_validator, pending_release_validator>>
bindingVars == <<fee_account, profile_contract>>
adminVars == <<controlVars, bindingVars, validatorVars>>

AdminInit ==
  /\ ControlInit
  /\ fee_account \in FeeAccounts
  /\ profile_contract \in ProfileContracts
  /\ release_validator = None
  /\ pending_release_validator = None

SetFeeAccount(a) ==
  /\ RequireAdmin
  /\ fee_account' = a
  /\ UNCHANGED <<controlVars, profile_contract, validatorVars>>

\* Takes effect at once.
SetProfileContract(c) ==
  /\ RequireAdmin
  /\ profile_contract' = c
  /\ UNCHANGED <<controlVars, fee_account, validatorVars>>

ProposeReleaseValidator(v) ==
  /\ RequireAdmin
  /\ pending_release_validator' =
       [target |-> v, expires_at |-> now + PendingAdminTtl]
  /\ UNCHANGED <<controlVars, bindingVars, release_validator>>

AcceptReleaseValidator ==
  /\ pending_release_validator # None
  /\ now <= pending_release_validator.expires_at
  /\ RequireAuth(pending_release_validator.target)
  /\ release_validator' = pending_release_validator.target
  /\ pending_release_validator' = None
  /\ UNCHANGED <<controlVars, bindingVars>>

CancelPendingReleaseValidator ==
  /\ RequireAdmin
  /\ pending_release_validator # None
  /\ pending_release_validator' = None
  /\ UNCHANGED <<controlVars, bindingVars, release_validator>>

\* A slip: the validator is cleared, a proposal in flight is not.
ClearValidatorOnly ==
  /\ RequireAdmin
  /\ release_validator' = None
  /\ UNCHANGED <<controlVars, bindingVars, pending_release_validator>>

\* Cuts a compromised key off at once, and a proposal with it.
ClearReleaseValidator ==
  /\ RequireAdmin
  /\ release_validator' = None
  /\ pending_release_validator' = None
  /\ UNCHANGED <<controlVars, bindingVars>>

\* Who co-signs a campaign's milestone: the admin while nobody is appointed.
ReleaseCosigner == IF release_validator # None THEN release_validator ELSE admin
=============================================================================
