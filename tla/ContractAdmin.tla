---------------------------- MODULE ContractAdmin ----------------------------
(***************************************************************************)
(* The part of admin.rs the two contracts share word for word: the         *)
(* two-step rotation of the admin and the timelocked upgrade.  One unit of *)
(* the clock is a day, 17,280 ledgers.  A call that returns an error is    *)
(* rolled back and is no step (so the clearing of an expired proposal in   *)
(* accept_admin is undone with its error).                                 *)
(***************************************************************************)
EXTENDS Integers

CONSTANTS
  None,
  Addresses,         \* accounts and contracts the admin may name, typos included
  Held,              \* those somebody can sign for
  Releases,          \* a wasm hash with its version label
  PendingAdminTtl,   \* PENDING_ADMIN_TTL_LEDGERS
  UpgradeTimelock,   \* UPGRADE_TIMELOCK_LEDGERS
  UpgradeTtl,        \* PENDING_UPGRADE_TTL_LEDGERS
  MaxTime            \* bound: the last day of the model

Appointment == [target : Addresses, expires_at : Nat]
PendingUpgrade == [release : Releases, available_at : Nat, expires_at : Nat]

ASSUME AdminAssumption ==
  /\ Held \subseteq Addresses
  /\ None \notin Addresses \cup Releases \cup Appointment \cup PendingUpgrade
  /\ PendingAdminTtl \in Nat /\ UpgradeTimelock \in Nat /\ UpgradeTtl \in Nat
  /\ MaxTime \in Nat

VARIABLES
  now,
  admin,            \* Admin
  pending_admin,    \* PendingAdmin: None or a target and its expiry
  release,          \* Version, and the code that runs
  pending_upgrade   \* PendingUpgrade: None or a release, its timelock and expiry

rotationVars == <<admin, pending_admin>>
upgradeVars == <<release, pending_upgrade>>
controlVars == <<now, rotationVars, upgradeVars>>

\* The host lets a call pass require_auth only with a's signature.
RequireAuth(a) == a \in Held

RequireAdmin == RequireAuth(admin)

ControlInit ==
  /\ now = 0
  /\ admin \in Held     \* assumed: initialize takes any address, unsigned
  /\ pending_admin = None
  /\ release \in Releases
  /\ pending_upgrade = None

\* A slip: the new admin takes over at once.
SetAdminAtOnce(new_admin) ==
  /\ RequireAdmin
  /\ admin' = new_admin /\ pending_admin' = None
  /\ UNCHANGED <<now, upgradeVars>>

\* A new proposal replaces a pending one.
SetAdmin(new_admin) ==
  /\ RequireAdmin
  /\ pending_admin' = [target |-> new_admin, expires_at |-> now + PendingAdminTtl]
  /\ UNCHANGED <<now, admin, upgradeVars>>

\* Signed by the target, which proves somebody holds it.
AcceptAdmin ==
  /\ pending_admin # None
  /\ now <= pending_admin.expires_at
  /\ RequireAuth(pending_admin.target)
  /\ admin' = pending_admin.target
  /\ pending_admin' = None
  /\ UNCHANGED <<now, upgradeVars>>

\* A slip: replacing a proposal keeps the clock of the one it replaces.
ProposeKeepingClock(r) ==
  /\ RequireAdmin
  /\ pending_upgrade' =
       [release      |-> r,
        available_at |-> IF pending_upgrade = None THEN now + UpgradeTimelock
                         ELSE pending_upgrade.available_at,
        expires_at   |-> now + UpgradeTtl]
  /\ UNCHANGED <<now, rotationVars, release>>

\* (proposed_at_ledger, which the code only shows, is left out.)
ProposeUpgrade(r) ==
  /\ RequireAdmin
  /\ pending_upgrade' = [release      |-> r,
                         available_at |-> now + UpgradeTimelock,
                         expires_at   |-> now + UpgradeTtl]
  /\ UNCHANGED <<now, rotationVars, release>>

ApplyUpgrade ==
  /\ RequireAdmin
  /\ pending_upgrade # None
  /\ now <= pending_upgrade.expires_at
  /\ now >= pending_upgrade.available_at
  /\ release' = pending_upgrade.release
  /\ pending_upgrade' = None
  /\ UNCHANGED <<now, rotationVars>>

CancelPendingUpgrade ==
  /\ RequireAdmin
  /\ pending_upgrade # None
  /\ pending_upgrade' = None
  /\ UNCHANGED <<now, rotationVars, release>>

\* A day passes.
ControlTick ==
  /\ now < MaxTime
  /\ now' = now + 1
  /\ UNCHANGED <<rotationVars, upgradeVars>>
=============================================================================
