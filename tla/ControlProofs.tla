---------------------------- MODULE ControlProofs ----------------------------
(***************************************************************************)
(* What the admins do beside the events.  The control planes, for any      *)
(* addresses, releases and lengths of the windows: control stays with keys *)
(* that are held, and nothing takes effect but what stands on offer.  The  *)
(* token list: exact under every sequence of calls, for any set of tokens, *)
(* and so the registry implements a set.  Migration, for any number of     *)
(* events, page sizes and history of upgrades: the stamp means that every  *)
(* event can be read, and conversion moves no money and sets no floors an  *)
(* event cannot afford.                                                    *)
(***************************************************************************)
EXTENDS AdminHistory, ProfileControl, TokenRegistry, EventMigration, SumProofs

\* What is pending for a role is the offer that stands, with its expiry.
PendingIsOffered(pending, role) ==
  /\ pending = None <=> offered[role] = None
  /\ pending # None =>
       /\ pending.target = offered[role].target
       /\ pending.expires_at = offered[role].since + PendingAdminTtl

\* The pending upgrade is the one announced, and its clock runs since then.
PendingIsAnnounced ==
  /\ pending_upgrade = None <=> announced = None
  /\ pending_upgrade # None =>
       /\ pending_upgrade.release = announced.release
       /\ pending_upgrade.available_at = announced.since + UpgradeTimelock
       /\ pending_upgrade.expires_at = announced.since + UpgradeTtl

\* The types of the variables the properties speak of.
AdminTypeOK ==
  /\ now \in Nat
  /\ admin \in Held
  /\ release_validator \in Held \cup {None}
  /\ pending_admin \in Appointment \cup {None}
  /\ pending_release_validator \in Appointment \cup {None}
  /\ pending_upgrade \in PendingUpgrade \cup {None}
  /\ offered \in [Roles -> Offered \cup {None}]
  /\ announced \in Announced \cup {None}

\* The inductive invariant.
AdminInv ==
  /\ AdminTypeOK
  /\ PendingIsOffered(pending_admin, "admin")
  /\ PendingIsOffered(pending_release_validator, "validator")
  /\ PendingIsAnnounced

\* A fresh contract has nothing pending and nothing on offer.
LEMMA AdminInitHolds == AdminHistoryInit => AdminInv
BY AdminAssumption
DEF AdminHistoryInit, NothingOffered, AdminInit, ControlInit, AdminInv, AdminTypeOK,
    PendingIsOffered, PendingIsAnnounced, Roles

\* Rotating the admin keeps the invariant: the target's signature shows that
\* it is held.
LEMMA RotationKeeps ==
  ASSUME AdminInv, RotationStep
  PROVE  AdminInv'
<1> USE AdminAssumption, HistoryAssumption
<1>1. UNCHANGED <<now, release, pending_upgrade, release_validator,
                  pending_release_validator, announced>>
  BY DEF RotationStep, RotateAdmin, SetAdmin, AcceptAdmin, validatorVars, upgradeVars
<1>2. ASSUME NEW a \in Addresses, SetAdmin(a), Offer("admin", a)
      PROVE  AdminInv'
  <2>1. /\ admin' = admin
        /\ pending_admin' = [target |-> a, expires_at |-> now + PendingAdminTtl]
        /\ offered' = [offered EXCEPT !["admin"] = [target |-> a, since |-> now]]
    BY <1>2 DEF SetAdmin, Offer
  <2>2. /\ pending_admin' \in Appointment
        /\ [target |-> a, since |-> now] \in Offered
    BY <2>1 DEF AdminInv, AdminTypeOK, Appointment, Offered
  <2>3. /\ offered' \in [Roles -> Offered \cup {None}]
        /\ offered'["admin"] = [target |-> a, since |-> now]
        /\ offered'["validator"] = offered["validator"]
    BY <2>1, <2>2 DEF AdminInv, AdminTypeOK, Roles
  <2>4. AdminTypeOK'
    BY <1>1, <2>1, <2>2, <2>3 DEF AdminInv, AdminTypeOK
  <2>5. PendingIsOffered(pending_admin, "admin")'
    BY <2>1, <2>2, <2>3 DEF PendingIsOffered
  <2> QED
    BY <1>1, <2>3, <2>4, <2>5 DEF AdminInv, PendingIsOffered, PendingIsAnnounced
<1>3. ASSUME AcceptAdmin, Withdraw("admin")
      PROVE  AdminInv'
  <2>1. /\ admin' = pending_admin.target /\ pending_admin.target \in Held
        /\ pending_admin' = None
        /\ offered' = [offered EXCEPT !["admin"] = None]
    BY <1>3 DEF AcceptAdmin, Withdraw, RequireAuth
  <2>2. /\ offered' \in [Roles -> Offered \cup {None}]
        /\ offered'["admin"] = None
        /\ offered'["validator"] = offered["validator"]
    BY <2>1 DEF AdminInv, AdminTypeOK, Roles
  <2> QED
    BY <1>1, <2>1, <2>2
    DEF AdminInv, AdminTypeOK, PendingIsOffered, PendingIsAnnounced
<1> QED
  BY <1>2, <1>3 DEF RotationStep, RotateAdmin

\* So does appointing, withdrawing and clearing the release validator.
LEMMA ValidatorKeeps ==
  ASSUME AdminInv, ValidatorStep
  PROVE  AdminInv'
<1> USE AdminAssumption, HistoryAssumption
<1>1. UNCHANGED <<now, admin, pending_admin, release, pending_upgrade, announced>>
  BY DEF ValidatorStep, ProposeReleaseValidator, AcceptReleaseValidator,
         CancelPendingReleaseValidator, ClearReleaseValidator,
         controlVars, rotationVars, upgradeVars
<1>2. ASSUME NEW v \in Addresses, ProposeReleaseValidator(v), Offer("validator", v)
      PROVE  AdminInv'
  <2>1. /\ release_validator' = release_validator
        /\ pending_release_validator' =
             [target |-> v, expires_at |-> now + PendingAdminTtl]
        /\ offered' = [offered EXCEPT !["validator"] = [target |-> v, since |-> now]]
    BY <1>2 DEF ProposeReleaseValidator, Offer
  <2>2. /\ pending_release_validator' \in Appointment
        /\ [target |-> v, since |-> now] \in Offered
    BY <2>1 DEF AdminInv, AdminTypeOK, Appointment, Offered
  <2>3. /\ offered' \in [Roles -> Offered \cup {None}]
        /\ offered'["validator"] = [target |-> v, since |-> now]
        /\ offered'["admin"] = offered["admin"]
    BY <2>1, <2>2 DEF AdminInv, AdminTypeOK, Roles
  <2>4. AdminTypeOK'
    BY <1>1, <2>1, <2>2, <2>3 DEF AdminInv, AdminTypeOK
  <2>5. PendingIsOffered(pending_release_validator, "validator")'
    BY <2>1, <2>2, <2>3 DEF PendingIsOffered
  <2> QED
    BY <1>1, <2>3, <2>4, <2>5 DEF AdminInv, PendingIsOffered, PendingIsAnnounced
<1>3. ASSUME \/ AcceptReleaseValidator
             \/ CancelPendingReleaseValidator
             \/ ClearReleaseValidator,
             Withdraw("validator")
      PROVE  AdminInv'
  <2>1. /\ release_validator' \in Held \cup {None}
        /\ pending_release_validator' = None
        /\ offered' = [offered EXCEPT !["validator"] = None]
    BY <1>3
    DEF AcceptReleaseValidator, CancelPendingReleaseValidator,
        ClearReleaseValidator, Withdraw, RequireAuth, AdminInv, AdminTypeOK
  <2>2. /\ offered' \in [Roles -> Offered \cup {None}]
        /\ offered'["validator"] = None
        /\ offered'["admin"] = offered["admin"]
    BY <2>1 DEF AdminInv, AdminTypeOK, Roles
  <2> QED
    BY <1>1, <2>1, <2>2
    DEF AdminInv, AdminTypeOK, PendingIsOffered, PendingIsAnnounced
<1> QED
  BY <1>2, <1>3 DEF ValidatorStep

\* And proposing, applying and cancelling an upgrade.
LEMMA UpgradeKeeps ==
  ASSUME AdminInv, UpgradeStep
  PROVE  AdminInv'
<1> USE AdminAssumption, HistoryAssumption
<1>1. UNCHANGED <<now, admin, pending_admin, release_validator,
                  pending_release_validator, offered>>
  BY DEF UpgradeStep, UpgradeContract, ProposeUpgrade, ApplyUpgrade, CancelPendingUpgrade,
         rotationVars, validatorVars
<1>2. ASSUME NEW r \in Releases, ProposeUpgrade(r),
             announced' = [release |-> r, since |-> now]
      PROVE  AdminInv'
  <2>1. /\ pending_upgrade' = [release      |-> r,
                               available_at |-> now + UpgradeTimelock,
                               expires_at   |-> now + UpgradeTtl]
        /\ pending_upgrade' \in PendingUpgrade
        /\ announced' \in Announced
    BY <1>2 DEF ProposeUpgrade, AdminInv, AdminTypeOK, PendingUpgrade, Announced
  <2>2. PendingIsAnnounced'
    BY <1>2, <2>1 DEF PendingIsAnnounced
  <2> QED
    BY <1>1, <2>1, <2>2 DEF AdminInv, AdminTypeOK, PendingIsOffered
<1>3. ASSUME ApplyUpgrade \/ CancelPendingUpgrade, announced' = None
      PROVE  AdminInv'
  <2>1. pending_upgrade' = None
    BY <1>3 DEF ApplyUpgrade, CancelPendingUpgrade
  <2> QED
    BY <1>1, <1>3, <2>1
    DEF AdminInv, AdminTypeOK, PendingIsOffered, PendingIsAnnounced
<1> QED
  BY <1>2, <1>3 DEF UpgradeStep, UpgradeContract

\* Every step keeps the invariant.
LEMMA AdminStepKeeps == AdminInv /\ [AdminHistoryNext]_adminHistoryVars => AdminInv'
<1> SUFFICES ASSUME AdminInv, [AdminHistoryNext]_adminHistoryVars
             PROVE  AdminInv'
  OBVIOUS
<1>1. CASE OtherStep
  <2>1. UNCHANGED <<admin, pending_admin, release, pending_upgrade,
                    release_validator, pending_release_validator,
                    offered, announced>>
    BY <1>1 DEF OtherStep, SetFeeAccount, SetProfileContract, ControlTick,
                controlVars, rotationVars, upgradeVars, validatorVars
  <2>2. now' \in Nat
    BY <1>1 DEF OtherStep, SetFeeAccount, SetProfileContract, ControlTick,
                controlVars, AdminInv, AdminTypeOK
  <2> QED
    BY <2>1, <2>2 DEF AdminInv, AdminTypeOK, PendingIsOffered, PendingIsAnnounced
<1>2. CASE UNCHANGED adminHistoryVars
  BY <1>2 DEF adminHistoryVars, adminVars, controlVars, rotationVars, upgradeVars,
              validatorVars, AdminInv, AdminTypeOK, PendingIsOffered,
              PendingIsAnnounced
<1> QED
  BY <1>1, <1>2, RotationKeeps, ValidatorKeeps, UpgradeKeeps DEF AdminHistoryNext

\* The invariant holds in every reachable state.
LEMMA AdminAlways == AdminHistorySpec => []AdminInv
BY AdminInitHolds, AdminStepKeeps, PTL DEF AdminHistorySpec

\* Somebody can always sign as admin and as co-signer (admin.rs accept_admin,
\* accept_release_validator).
THEOREM ControlStaysHeld == AdminHistorySpec => []ControlHeld
<1>1. AdminInv => ControlHeld
  BY DEF AdminInv, AdminTypeOK, ControlHeld, ReleaseCosigner
<1> QED
  BY <1>1, AdminAlways, PTL

\* Nobody is appointed but on the offer that stands (admin.rs).
THEOREM OffersBind == AdminHistorySpec => AppointedOnStandingOffer
<1> DEFINE A == /\ admin' # admin => OnOffer("admin", admin')
                /\ release_validator' \notin {None, release_validator}
                     => OnOffer("validator", release_validator')
<1>1. AdminInv /\ [AdminHistoryNext]_adminHistoryVars => [A]_adminHistoryVars
  <2> SUFFICES ASSUME AdminInv, AdminHistoryNext
               PROVE  A
    OBVIOUS
  <2>1. admin' # admin => OnOffer("admin", admin')
    <3> SUFFICES ASSUME admin' # admin PROVE OnOffer("admin", admin')
      OBVIOUS
    <3>1. AcceptAdmin
      BY DEF AdminHistoryNext, RotationStep, RotateAdmin, ValidatorStep,
             UpgradeStep, UpgradeContract, OtherStep,
             SetAdmin, ProposeReleaseValidator, AcceptReleaseValidator,
             CancelPendingReleaseValidator, ClearReleaseValidator,
             ProposeUpgrade, ApplyUpgrade, CancelPendingUpgrade, SetFeeAccount,
             SetProfileContract, ControlTick, controlVars, rotationVars
    <3> QED
      BY <3>1 DEF AcceptAdmin, OnOffer, AdminInv, PendingIsOffered
  <2>2. release_validator' \notin {None, release_validator}
          => OnOffer("validator", release_validator')
    <3> SUFFICES ASSUME release_validator' \notin {None, release_validator}
                 PROVE  OnOffer("validator", release_validator')
      OBVIOUS
    <3>1. AcceptReleaseValidator
      BY DEF AdminHistoryNext, RotationStep, RotateAdmin, ValidatorStep,
             UpgradeStep, UpgradeContract, OtherStep,
             ProposeReleaseValidator, CancelPendingReleaseValidator,
             ClearReleaseValidator, SetFeeAccount, SetProfileContract, validatorVars
    <3> QED
      BY <3>1 DEF AcceptReleaseValidator, OnOffer, AdminInv, PendingIsOffered
  <2> QED
    BY <2>1, <2>2
<1> QED
  BY <1>1, AdminAlways, PTL DEF AdminHistorySpec, AppointedOnStandingOffer

\* No code runs before its timelock, after its expiry, or once cancelled
\* (admin.rs apply_upgrade).
THEOREM UpgradesWaitOnDisplay == AdminHistorySpec => UpgradeOnDisplay
<1> DEFINE A == release' # release =>
                  /\ announced # None
                  /\ announced.release = release'
                  /\ now - announced.since \in UpgradeTimelock .. UpgradeTtl
<1>1. AdminInv /\ [AdminHistoryNext]_adminHistoryVars => [A]_adminHistoryVars
  <2> SUFFICES ASSUME AdminInv, AdminHistoryNext, release' # release
               PROVE  A
    OBVIOUS
  <2>1. ApplyUpgrade
    BY DEF AdminHistoryNext, RotationStep, RotateAdmin, ValidatorStep,
           UpgradeStep, UpgradeContract, OtherStep,
           SetAdmin, AcceptAdmin, ProposeReleaseValidator, AcceptReleaseValidator,
           CancelPendingReleaseValidator, ClearReleaseValidator, ProposeUpgrade,
           CancelPendingUpgrade, SetFeeAccount, SetProfileContract, ControlTick,
           controlVars, upgradeVars
  <2>2. announced # None /\ announced \in Announced
    BY <2>1 DEF ApplyUpgrade, AdminInv, AdminTypeOK, PendingIsAnnounced
  <2>3. /\ announced.since \in Nat /\ now \in Nat
        /\ announced.since + UpgradeTimelock <= now
        /\ now <= announced.since + UpgradeTtl
    BY <2>1, <2>2 DEF ApplyUpgrade, AdminInv, AdminTypeOK, PendingIsAnnounced, Announced
  <2> QED
    BY <2>1, <2>2, <2>3, AdminAssumption DEF ApplyUpgrade, AdminInv, PendingIsAnnounced
<1> QED
  BY <1>1, AdminAlways, PTL DEF AdminHistorySpec, UpgradeOnDisplay

\* The pending binding is the one shown, and its clock runs since then.
BindingInv ==
  /\ now \in Nat
  /\ events_contract \in EventsContracts \cup {None}
  /\ pending_events_contract = None <=> shown_binding = None
  /\ pending_events_contract # None =>
       /\ shown_binding \in [target : EventsContracts, since : Nat]
       /\ pending_events_contract =
            [target |-> shown_binding.target, proposed_at |-> shown_binding.since,
             expires_at |-> shown_binding.since + BindingTtl]

\* Every step of the profile contract's control plane keeps it so.
LEMMA BindingStepKeeps ==
  ASSUME BindingInv, ProfileControlNext
  PROVE  BindingInv'
<1> USE ProfileAssumption
<1>1. CASE SharedCalls \/ StampMigrated \/ PassDay
  BY <1>1 DEF SharedCalls, StampMigrated, PassDay, BindingInv, profileBindingVars,
     controlVars, ControlTick, RotateAdmin, UpgradeContract, SetAdmin, AcceptAdmin,
     ProposeUpgrade, ApplyUpgrade, CancelPendingUpgrade
<1>2. ASSUME NEW c \in EventsContracts, Binding!SetEventsContract(c),
             UNCHANGED <<now, shown_binding>>
      PROVE  BindingInv'
  BY <1>2 DEF Binding!SetEventsContract, BindingInv
<1>3. ASSUME NEW c \in EventsContracts, Binding!ProposeEventsContract(c),
             UNCHANGED now, shown_binding' = [target |-> c, since |-> now]
      PROVE  BindingInv'
  BY <1>3 DEF Binding!ProposeEventsContract, BindingInv
<1>4. ASSUME Binding!AcceptEventsContract, UNCHANGED now, shown_binding' = None
      PROVE  BindingInv'
  BY <1>4 DEF Binding!AcceptEventsContract, BindingInv
<1>5. ASSUME Binding!CancelPendingEventsContract, UNCHANGED now, shown_binding' = None
      PROVE  BindingInv'
  BY <1>5 DEF Binding!CancelPendingEventsContract, BindingInv
<1>6. ASSUME Binding!Pause \/ Binding!Unpause, UNCHANGED <<now, shown_binding>>
      PROVE  BindingInv'
  BY <1>6 DEF Binding!Pause, Binding!Unpause, Binding!bindingVars, BindingInv
<1>7. CASE RotateBinding
  BY <1>2, <1>3, <1>4, <1>5, <1>6, <1>7 DEF RotateBinding, controlVars
<1> QED
  BY <1>1, <1>7 DEF ProfileControlNext

\* Whoever comes to write reputations and earnings was on display first, for
\* the whole timelock and no longer than the expiry (profile admin.rs
\* propose_events_contract, accept_events_contract).
THEOREM BindingsWaitOnDisplay == ProfileControlSpec => WritersAnnounced
<1> DEFINE A == events_contract' # events_contract /\ events_contract # None =>
                  /\ shown_binding # None
                  /\ shown_binding.target = events_contract'
                  /\ now - shown_binding.since \in BindingTimelock .. BindingTtl
<1> USE ProfileAssumption
<1>1. ProfileControlInit => BindingInv
  BY DEF ProfileControlInit, ControlInit, BindingInv
<1>2. BindingInv /\ [ProfileControlNext]_profileControlVars => BindingInv'
  <2>1. ASSUME BindingInv, UNCHANGED profileControlVars PROVE BindingInv'
    BY <2>1 DEF profileControlVars, profileBindingVars, controlVars, BindingInv
  <2> QED
    BY <2>1, BindingStepKeeps
<1>3. BindingInv /\ [ProfileControlNext]_profileControlVars => [A]_profileControlVars
  <2> SUFFICES ASSUME BindingInv, ProfileControlNext,
                      events_contract' # events_contract, events_contract # None
               PROVE  /\ shown_binding # None
                      /\ shown_binding.target = events_contract'
                      /\ now - shown_binding.since \in BindingTimelock .. BindingTtl
    OBVIOUS
  <2>1. Binding!AcceptEventsContract
    BY DEF ProfileControlNext, SharedCalls, StampMigrated, RotateBinding, PassDay,
       profileBindingVars, Binding!SetEventsContract, Binding!ProposeEventsContract,
       Binding!CancelPendingEventsContract, Binding!Pause, Binding!Unpause,
       Binding!bindingVars
  <2>2. /\ shown_binding \in [target : EventsContracts, since : Nat]
        /\ shown_binding.target = events_contract'
        /\ shown_binding.since + BindingTimelock <= now
        /\ now <= shown_binding.since + BindingTtl
        /\ now \in Nat
    BY <2>1 DEF Binding!AcceptEventsContract, BindingInv
  <2> QED
    BY <2>2
<1> QED
  BY <1>1, <1>2, <1>3, PTL DEF ProfileControlSpec, WritersAnnounced

-----------------------------------------------------------------------------
(* The token list                                                          *)

\* The list's shape is its own inductive invariant.
RegistryInv == RegistryTypeOK /\ EnumerationExact

\* The empty registry is exact.
LEMMA RegistryInitHolds == RegistryInit => RegistryInv
BY DEF RegistryInit, RegistryInv, RegistryTypeOK, EnumerationExact

\* A token is in the list if and only if it has a slot, after a step.
LEMMA ListedBySlotNext ==
  ASSUME RegistryInv'
  PROVE  Listed' = {t \in Tokens : slot'[t] # 0}
<1>1. ASSUME NEW i \in 0 .. count' - 1
      PROVE  at'[i] \in Tokens /\ slot'[at'[i]] # 0
  <2>1. at'[i] \in Tokens
    BY DEF RegistryInv, RegistryTypeOK
  <2>2. slot'[at'[i]] = i + 1 /\ count' \in Nat
    BY DEF RegistryInv, RegistryTypeOK, EnumerationExact
  <2> QED
    BY <2>1, <2>2
<1>2. \A t \in Tokens : slot'[t] # 0 =>
         slot'[t] - 1 \in 0 .. count' - 1 /\ at'[slot'[t] - 1] = t
  BY DEF RegistryInv, RegistryTypeOK, EnumerationExact
<1> QED
  BY <1>1, <1>2 DEF Listed

\* A token that is not listed goes to the end of the list.
LEMMA AppendKeepsExact ==
  ASSUME RegistryInv, NEW t \in Tokens, Register(t)
  PROVE  RegistryInv'
<1>1. CASE slot[t] # 0
  BY <1>1 DEF RegistryInv, RegistryTypeOK, EnumerationExact, Register, AppendSupportedToken
<1>2. CASE slot[t] = 0
  <2> USE <1>2 DEF RegistryInv, RegistryTypeOK, EnumerationExact
  <2>1. /\ supported' = [supported EXCEPT ![t] = TRUE]
        /\ at' = [i \in DOMAIN at \cup {count} |-> IF i = count THEN t ELSE at[i]]
        /\ slot' = [slot EXCEPT ![t] = count + 1]
        /\ count' = count + 1
    BY DEF Register, AppendSupportedToken
  <2>2. DOMAIN at \cup {count} = 0 .. count' - 1
    BY <2>1
  <2>3. RegistryTypeOK'
    BY <2>1, <2>2
  <2>4. \A i \in 0 .. count' - 1 : at'[i] = IF i = count THEN t ELSE at[i]
    BY <2>1, <2>2
  <2>5. \A u \in Tokens : slot'[u] = IF u = t THEN count + 1 ELSE slot[u]
    BY <2>1
  <2>6. \A i \in 0 .. count - 1 : at[i] # t
    OBVIOUS
  <2>7. EnumerationExact'
    BY <2>1, <2>2, <2>3, <2>4, <2>5, <2>6
  <2> QED
    BY <2>3, <2>7
<1> QED
  BY <1>1, <1>2 DEF RegistryInv, RegistryTypeOK

\* The last token takes the place of the one removed.
LEMMA RemoveKeepsExact ==
  ASSUME RegistryInv, NEW t \in Tokens, Deregister(t)
  PROVE  RegistryInv'
<1>1. CASE slot[t] = 0
  BY <1>1 DEF RegistryInv, RegistryTypeOK, EnumerationExact, Deregister, RemoveSupportedToken
<1>2. CASE slot[t] # 0
  <2> DEFINE idx == slot[t] - 1
             last == count - 1
             moved == at[last]
  <2>1. /\ supported' = [supported EXCEPT ![t] = FALSE]
        /\ at' = [i \in DOMAIN at \ {last} |-> IF i = idx THEN at[last] ELSE at[i]]
        /\ slot' = [slot EXCEPT ![moved] = slot[t], ![t] = 0]
        /\ count' = last
    BY <1>2 DEF Deregister, RemoveSupportedToken
  <2>2. /\ last \in 0 .. count - 1 /\ idx \in 0 .. count - 1
        /\ at[idx] = t /\ moved \in Tokens /\ slot[moved] = count
    BY <1>2 DEF RegistryInv, RegistryTypeOK, EnumerationExact
  <2>3. DOMAIN at \ {last} = 0 .. count' - 1
    BY <2>1, <2>2 DEF RegistryInv, RegistryTypeOK
  <2>4. RegistryTypeOK'
    <3>1. supported' \in [Tokens -> BOOLEAN] /\ slot' \in [Tokens -> Nat]
      BY <2>1 DEF RegistryInv, RegistryTypeOK
    <3>2. count' \in Nat
      BY <2>1, <2>2 DEF RegistryInv, RegistryTypeOK
    <3>3. \A i \in 0 .. count' - 1 : i \in 0 .. count - 1
      BY <2>1, <3>2 DEF RegistryInv, RegistryTypeOK
    <3>4. at' \in [0 .. count' - 1 -> Tokens]
      BY <2>1, <2>2, <2>3, <3>3 DEF RegistryInv, RegistryTypeOK
    <3> QED
      BY <3>1, <3>2, <3>4 DEF RegistryTypeOK
  <2>5. \A i \in 0 .. count' - 1 : at'[i] = IF i = idx THEN moved ELSE at[i]
    BY <2>1, <2>3
  <2>6. \A u \in Tokens :
           slot'[u] = IF u = t THEN 0 ELSE IF u = moved THEN slot[t] ELSE slot[u]
    BY <2>1, <2>2 DEF RegistryInv, RegistryTypeOK
  <2>7. \A u \in Tokens : supported'[u] <=> slot'[u] # 0
    BY <1>2, <2>1, <2>2, <2>6 DEF RegistryInv, RegistryTypeOK, EnumerationExact
  <2>8. \A u \in Tokens : slot'[u] # 0 => slot'[u] <= count' /\ at'[slot'[u] - 1] = u
    <3> SUFFICES ASSUME NEW u \in Tokens, slot'[u] # 0
                 PROVE  slot'[u] <= count' /\ at'[slot'[u] - 1] = u
      OBVIOUS
    <3>1. u # t
      BY <2>6
    <3>2. CASE u = moved
      BY <1>2, <3>1, <3>2, <2>1, <2>2, <2>5, <2>6
      DEF RegistryInv, RegistryTypeOK, EnumerationExact
    <3>3. CASE u # moved
      BY <3>1, <3>3, <2>1, <2>2, <2>5, <2>6
      DEF RegistryInv, RegistryTypeOK, EnumerationExact
    <3> QED
      BY <3>2, <3>3
  <2>9. \A i \in 0 .. count' - 1 : slot'[at'[i]] = i + 1
    <3> SUFFICES ASSUME NEW i \in 0 .. count' - 1
                 PROVE  slot'[at'[i]] = i + 1
      OBVIOUS
    <3>1. i \in 0 .. count - 1 /\ i # last
      BY <2>1, <2>2 DEF RegistryInv, RegistryTypeOK
    <3>2. CASE i = idx
      BY <1>2, <3>1, <3>2, <2>2, <2>5, <2>6
      DEF RegistryInv, RegistryTypeOK, EnumerationExact
    <3>3. CASE i # idx
      <4>1. at'[i] = at[i] /\ at[i] \in Tokens /\ slot[at[i]] = i + 1
        BY <3>1, <3>3, <2>5 DEF RegistryInv, RegistryTypeOK, EnumerationExact
      <4>2. at[i] # t
        BY <1>2, <3>1, <3>3, <4>1 DEF RegistryInv, RegistryTypeOK
      <4>3. at[i] # moved
        BY <3>1, <4>1, <2>2 DEF RegistryInv, RegistryTypeOK
      <4> QED
        BY <4>1, <4>2, <4>3, <2>6
    <3> QED
      BY <3>2, <3>3
  <2>10. EnumerationExact'
    BY <2>1, <2>3, <2>4, <2>7, <2>8, <2>9 DEF RegistryTypeOK, EnumerationExact
  <2> QED
    BY <2>4, <2>10 DEF RegistryInv
<1> QED
  BY <1>1, <1>2 DEF RegistryInv, RegistryTypeOK

\* Every step keeps the list exact.
LEMMA RegistryStepKeeps == RegistryInv /\ [RegistryNext]_registryVars => RegistryInv'
<1> SUFFICES ASSUME RegistryInv, [RegistryNext]_registryVars
             PROVE  RegistryInv'
  OBVIOUS
<1>1. CASE RegistryNext
  BY <1>1, AppendKeepsExact, RemoveKeepsExact DEF RegistryNext
<1>2. CASE UNCHANGED registryVars
  BY <1>2 DEF RegistryInv, RegistryTypeOK, EnumerationExact, registryVars
<1> QED
  BY <1>1, <1>2

\* The list and its index agree always (storage.rs append_supported_token,
\* remove_supported_token).
THEOREM RegistryExact == RegistrySpec => [](RegistryTypeOK /\ EnumerationExact)
<1>1. RegistrySpec => []RegistryInv
  BY RegistryInitHolds, RegistryStepKeeps, PTL DEF RegistrySpec
<1> QED
  BY <1>1, PTL DEF RegistryInv

\* A list that agrees with its index shows the supported tokens.
LEMMA ListedAreSupportedNext ==
  ASSUME RegistryInv'
  PROVE  Listed' = Supported'
BY ListedBySlotNext DEF RegistryInv, EnumerationExact, Supported

\* The registry implements a plain set of tokens (token_whitelist.rs).
THEOREM RegistryImplementsSet == RegistrySpec => ImplementsTokenSet
<1>1. RegistryInit => Whitelist!SetInit
  BY DEF RegistryInit, Whitelist!SetInit, Listed, Supported
<1>2. RegistryInv /\ RegistryInv' /\ [RegistryNext]_registryVars
        => [Whitelist!SetNext]_<<Supported, Listed>>
  <2> SUFFICES ASSUME RegistryInv, RegistryInv', [RegistryNext]_registryVars
               PROVE  [Whitelist!SetNext]_<<Supported, Listed>>
    OBVIOUS
  <2>1. ASSUME NEW t \in Tokens, Register(t) PROVE Whitelist!SetNext
    <3>1. Supported' = Supported \cup {t}
      BY <2>1 DEF Register, Supported, RegistryInv, RegistryTypeOK
    <3> QED
      BY <3>1, ListedAreSupportedNext DEF Whitelist!SetNext, Whitelist!Add
  <2>2. ASSUME NEW t \in Tokens, Deregister(t) PROVE Whitelist!SetNext
    <3>1. Supported' = Supported \ {t}
      BY <2>2 DEF Deregister, Supported, RegistryInv, RegistryTypeOK
    <3> QED
      BY <3>1, ListedAreSupportedNext DEF Whitelist!SetNext, Whitelist!Drop
  <2>3. CASE UNCHANGED registryVars
    BY <2>3 DEF registryVars, Listed, Supported
  <2> QED
    BY <2>1, <2>2, <2>3 DEF RegistryNext
<1>3. RegistrySpec => []RegistryInv
  BY RegistryInitHolds, RegistryStepKeeps, PTL DEF RegistrySpec
<1> QED
  BY <1>1, <1>2, <1>3, PTL DEF RegistrySpec, ImplementsTokenSet, Whitelist!SetSpec

-----------------------------------------------------------------------------
(* Migration                                                               *)

\* Every event has a row and the escrow that is booked for it.
RowsOK ==
  /\ next \in Nat \ {0}
  /\ DOMAIN rows = 1 .. next - 1 /\ DOMAIN booked = 1 .. next - 1
  /\ \A e \in 1 .. next - 1 : IsRow(rows[e]) /\ rows[e].remaining_escrow = booked[e]

\* Behind the cursor everything is converted.  This is what makes the count of
\* remaining events a proof that none is left.
CursorOK ==
  /\ cursor \in Nat \cup {Unset}
  /\ Cursor \in 1 .. next
  /\ \A e \in 1 .. next - 1 : e < Cursor => ~Legacy(e)

StampOK ==
  /\ version \in Versions
  /\ migrated_to \in {Unset} \cup {v \in Versions : v <= version}
  /\ migrated_to = version => \A e \in 1 .. next - 1 : ~Legacy(e)
  /\ events_paused \in BOOLEAN

\* The inductive invariant.
MigrationInv == RowsOK /\ CursorOK /\ StampOK

\* Converting an old row changes its layout and leaves its money alone.
LEMMA ConvertedRow ==
  ASSUME NEW row, IsRow(row)
  PROVE  /\ IsRow(Converted(row))
         /\ Converted(row).layout = "floors"
         /\ Converted(row).remaining_escrow = row.remaining_escrow
         /\ Converted(row).total_budget = row.total_budget
BY DEF Converted, IsRow

\* So a row is converted if it is old, and is otherwise the same.
LEMMA MigratedRow ==
  ASSUME NEW row, IsRow(row)
  PROVE  /\ IsRow(MigrateOneEvent(row))
         /\ MigrateOneEvent(row).layout = "floors"
         /\ MigrateOneEvent(row).remaining_escrow = row.remaining_escrow
         /\ MigrateOneEvent(row).total_budget = row.total_budget
         /\ row.layout = "floors" => MigrateOneEvent(row) = row
<1>1. CASE row.layout = "percentages"
  BY <1>1, ConvertedRow DEF MigrateOneEvent
<1>2. CASE row.layout = "floors"
  BY <1>2 DEF MigrateOneEvent, IsRow
<1> QED
  BY <1>1, <1>2 DEF IsRow

\* The deployment an upgrade finds satisfies the invariant.
LEMMA MigrationInitHolds == MigrationInit => MigrationInv
<1> SUFFICES ASSUME MigrationInit PROVE MigrationInv
  OBVIOUS
<1> USE MigrationAssumption DEF MigrationInit
<1>1. RowsOK
  BY DEF RowsOK
<1>2. CursorOK
  <2>1. cursor \in Nat \cup {Unset} /\ Cursor \in 1 .. next /\ next \in Nat
    BY DEF Cursor
  <2> QED
    BY <2>1 DEF CursorOK
<1>3. StampOK
  <2>1. version \in Nat
    OBVIOUS
  <2>2. CASE migrated_to = Unset
    BY <2>1, <2>2 DEF StampOK
  <2>3. CASE migrated_to \in {v \in Versions : v < version}
    <3>1. migrated_to \in Versions /\ migrated_to \in Nat /\ migrated_to < version
      BY <2>3
    <3>2. migrated_to <= version /\ migrated_to # version
      BY <2>1, <3>1
    <3> QED
      BY <3>1, <3>2 DEF StampOK
  <2> QED
    BY <2>2, <2>3
<1> QED
  BY <1>1, <1>2, <1>3 DEF MigrationInv

\* What one page does to each row.
LEMMA PageRows ==
  ASSUME MigrationInv, NEW max \in PageSizes, MigrateEvents(max)
  PROVE  /\ PageEnd(max) \in Cursor .. next
         /\ DOMAIN rows' = 1 .. next - 1
         /\ \A e \in 1 .. next - 1 :
              rows'[e] = IF e \in Cursor .. PageEnd(max) - 1
                         THEN MigrateOneEvent(rows[e]) ELSE rows[e]
<1>1. Budget(max) \in Nat
  BY MigrationAssumption DEF Budget
<1>2. Cursor \in 1 .. next /\ next \in Nat
  BY DEF MigrationInv, CursorOK, RowsOK
<1>3. PageEnd(max) \in Cursor .. next
  BY <1>1, <1>2 DEF PageEnd
<1> QED
  BY <1>3 DEF MigrateEvents, MigrationInv, RowsOK

\* A page keeps the invariant: what the cursor passes is converted.
LEMMA PageKeeps ==
  ASSUME MigrationInv, NEW max \in PageSizes, MigrateEvents(max)
  PROVE  MigrationInv'
<1>1. UNCHANGED <<next, version, migrated_to, events_paused, booked>> /\ cursor' = PageEnd(max)
  BY DEF MigrateEvents
<1>2. RowsOK'
  BY <1>1, PageRows, MigratedRow DEF MigrationInv, RowsOK
<1>3. \A e \in 1 .. next - 1 : ~Legacy(e) => ~Legacy(e)'
  BY PageRows, MigratedRow DEF MigrationInv, RowsOK, Legacy, IsRow
<1>4. CursorOK'
  <2>1. PageEnd(max) \in 1 .. next /\ PageEnd(max) \in Nat
    BY PageRows DEF MigrationInv, CursorOK, RowsOK
  <2>2. Cursor' = PageEnd(max)
    BY <1>1, <2>1, MigrationAssumption DEF Cursor
  <2>3. ASSUME NEW e \in 1 .. next - 1, e < PageEnd(max) PROVE ~Legacy(e)'
    <3>1. CASE e < Cursor
      BY <1>3, <3>1 DEF MigrationInv, CursorOK
    <3>2. CASE e \in Cursor .. PageEnd(max) - 1
      BY <3>2, PageRows, MigratedRow DEF MigrationInv, RowsOK, Legacy
    <3> QED
      BY <2>3, <3>1, <3>2, <2>1 DEF MigrationInv, CursorOK, RowsOK
  <2> QED
    BY <1>1, <2>1, <2>2, <2>3 DEF CursorOK
<1>5. StampOK'
  BY <1>1, <1>3 DEF MigrationInv, StampOK
<1> QED
  BY <1>2, <1>4, <1>5 DEF MigrationInv

\* The stamp is given when the cursor has passed every event.
LEMMA MigrateKeeps ==
  ASSUME MigrationInv, Migrate
  PROVE  MigrationInv'
<1>1. UNCHANGED <<rows, next, cursor, version, events_paused, booked>> /\ migrated_to' = version
  BY DEF Migrate
<1>2. Cursor = next
  BY DEF Migrate, MigrationRemaining, MigrationInv, RowsOK, CursorOK
<1>3. \A e \in 1 .. next - 1 : ~Legacy(e)
  BY <1>2 DEF MigrationInv, RowsOK, CursorOK
<1>4. RowsOK' /\ CursorOK'
  BY <1>1 DEF MigrationInv, RowsOK, CursorOK, Cursor, Legacy
<1>5. StampOK'
  BY <1>1, <1>3, MigrationAssumption DEF MigrationInv, StampOK, Legacy
<1> QED
  BY <1>4, <1>5 DEF MigrationInv

\* A new event is readable from the start.
LEMMA CreateKeeps ==
  ASSUME MigrationInv, NEW row \in NewRows, CreateEvent(row)
  PROVE  MigrationInv'
<1>1. /\ rows' = [e \in 1 .. next |-> IF e = next THEN row ELSE rows[e]]
      /\ booked' = [e \in 1 .. next |->
                      IF e = next THEN row.remaining_escrow ELSE booked[e]]
      /\ next' = next + 1
      /\ UNCHANGED <<cursor, version, migrated_to, events_paused>>
  BY DEF CreateEvent
<1>2. IsRow(row) /\ row.layout = "floors" /\ next \in Nat \ {0}
  BY MigrationAssumption DEF MigrationInv, RowsOK
<1>3. \A e \in 1 .. next' - 1 :
        /\ e = next => rows'[e] = row /\ booked'[e] = row.remaining_escrow
        /\ e # next => e \in 1 .. next - 1 /\ rows'[e] = rows[e] /\ booked'[e] = booked[e]
  BY <1>1, <1>2
<1>4. RowsOK'
  <2>1. DOMAIN rows' = 1 .. next' - 1 /\ DOMAIN booked' = 1 .. next' - 1
    BY <1>1, <1>2
  <2>2. next' \in Nat \ {0}
    BY <1>1, <1>2
  <2>3. \A e \in 1 .. next' - 1 :
           IsRow(rows'[e]) /\ rows'[e].remaining_escrow = booked'[e]
    BY <1>2, <1>3 DEF MigrationInv, RowsOK
  <2> QED
    BY <2>1, <2>2, <2>3 DEF RowsOK
<1>5. CursorOK'
  <2>1. Cursor' = Cursor /\ Cursor \in 1 .. next'
    BY <1>1, <1>2 DEF MigrationInv, CursorOK, Cursor
  <2>2. \A e \in 1 .. next' - 1 : e < Cursor' => ~Legacy(e)'
    BY <1>2, <1>3, <2>1 DEF MigrationInv, CursorOK, Legacy
  <2> QED
    BY <1>1, <2>1, <2>2 DEF CursorOK, MigrationInv
<1>6. StampOK'
  <2>1. migrated_to' = version' => \A e \in 1 .. next' - 1 : ~Legacy(e)'
    BY <1>1, <1>2, <1>3 DEF MigrationInv, StampOK, Legacy
  <2> QED
    BY <1>1, <2>1 DEF StampOK, MigrationInv
<1> QED
  BY <1>4, <1>5, <1>6 DEF MigrationInv

\* A payout is booked and leaves the layout alone.
LEMMA PayOutKeeps ==
  ASSUME MigrationInv, NEW e \in DOMAIN rows, NEW amount \in {1}, PayOut(e, amount)
  PROVE  MigrationInv'
<1>1. /\ rows' = [rows EXCEPT ![e].remaining_escrow = @ - amount]
      /\ booked' = [booked EXCEPT ![e] = @ - amount]
      /\ amount <= rows[e].remaining_escrow
      /\ UNCHANGED <<next, cursor, version, migrated_to, events_paused>>
  BY DEF PayOut
<1>2. \A d \in 1 .. next - 1 :
        /\ IsRow(rows'[d]) /\ rows'[d].remaining_escrow = booked'[d]
        /\ rows'[d].layout = rows[d].layout
  BY <1>1 DEF MigrationInv, RowsOK, IsRow
<1>3. RowsOK'
  BY <1>1, <1>2 DEF MigrationInv, RowsOK
<1>4. CursorOK' /\ StampOK'
  BY <1>1, <1>2 DEF MigrationInv, CursorOK, StampOK, Cursor, Legacy
<1> QED
  BY <1>3, <1>4 DEF MigrationInv

\* A release with a label of its own is not stamped.
LEMMA UpgradeKeepsRows ==
  ASSUME MigrationInv, NEW v \in Versions, Upgrade(v)
  PROVE  MigrationInv'
<1>1. RowsOK' /\ CursorOK'
  BY DEF Upgrade, MigrationInv, RowsOK, CursorOK, Cursor, Legacy
<1>2. StampOK'
  <2>1. version \in Nat /\ v \in Nat /\ v > version
    BY MigrationAssumption DEF Upgrade, MigrationInv, StampOK
  <2>2. migrated_to' \in {Unset} \cup {w \in Versions : w <= v} /\ migrated_to' # v
    <3>1. CASE migrated_to = Unset
      BY <2>1, <3>1, MigrationAssumption DEF Upgrade
    <3>2. CASE migrated_to # Unset
      <4>1. migrated_to \in Versions /\ migrated_to \in Nat /\ migrated_to <= version
        BY <3>2, MigrationAssumption DEF MigrationInv, StampOK
      <4> QED
        BY <2>1, <4>1 DEF Upgrade
    <3> QED
      BY <3>1, <3>2
  <2> QED
    BY <2>2 DEF Upgrade, StampOK, MigrationInv
<1> QED
  BY <1>1, <1>2 DEF MigrationInv

\* The pause is neither a row nor a stamp.
LEMMA PauseKeepsRows ==
  ASSUME MigrationInv, PauseEvents \/ UnpauseEvents
  PROVE  MigrationInv'
<1>1. UNCHANGED <<rows, next, cursor, version, migrated_to, booked>>
      /\ events_paused' \in BOOLEAN
  BY DEF PauseEvents, UnpauseEvents
<1> QED
  BY <1>1 DEF MigrationInv, RowsOK, CursorOK, StampOK, Cursor, Legacy

\* Every step keeps the invariant.
LEMMA MigrationStepKeeps == MigrationInv /\ [MigrationNext]_migrationVars => MigrationInv'
<1> SUFFICES ASSUME MigrationInv, [MigrationNext]_migrationVars
             PROVE  MigrationInv'
  OBVIOUS
<1>1. CASE MigrationNext
  BY <1>1, PageKeeps, MigrateKeeps, CreateKeeps, PayOutKeeps, UpgradeKeepsRows,
     PauseKeepsRows
  DEF MigrationNext
<1>2. CASE UNCHANGED migrationVars
  BY <1>2 DEF migrationVars, MigrationInv, RowsOK, CursorOK, StampOK, Cursor, Legacy
<1> QED
  BY <1>1, <1>2

\* The invariant holds in every reachable state.
LEMMA MigrationAlways == MigrationSpec => []MigrationInv
BY MigrationInitHolds, MigrationStepKeeps, PTL DEF MigrationSpec

\* An event that exists goes on existing.
LEMMA RangeGrows ==
  ASSUME NEW n \in Nat, NEW m \in Nat, n <= m, NEW e \in 1 .. n - 1
  PROVE  e \in 1 .. m - 1
OBVIOUS

\* A stamped version leaves no event unreadable (admin.rs migrate).
THEOREM StampIsSound == MigrationSpec => []StampMeansDecodable
<1>1. MigrationInv => StampMeansDecodable
  BY DEF MigrationInv, RowsOK, StampOK, StampMeansDecodable
<1> QED
  BY <1>1, MigrationAlways, PTL

\* Migration moves no money and rewrites no published floor
\* (admin.rs migrate_one_event).
THEOREM ConversionIsFaithful == MigrationSpec => ConversionKeepsBooks
<1> DEFINE A == \A e \in DOMAIN rows :
                  /\ rows'[e].remaining_escrow = booked'[e]
                  /\ rows'[e].total_budget = rows[e].total_budget
                  /\ ~Legacy(e) => ~Legacy(e)' /\ rows'[e].prizes = rows[e].prizes
<1>1. MigrationInv /\ MigrationInv' /\ [MigrationNext]_migrationVars
        => [A]_migrationVars
  <2> SUFFICES ASSUME MigrationInv, MigrationInv', MigrationNext
               PROVE  A
    OBVIOUS
  <2> SUFFICES ASSUME NEW e \in 1 .. next - 1
               PROVE  /\ rows'[e].remaining_escrow = booked'[e]
                      /\ rows'[e].total_budget = rows[e].total_budget
                      /\ ~Legacy(e) => ~Legacy(e)' /\ rows'[e].prizes = rows[e].prizes
    BY DEF MigrationInv, RowsOK
  <2>1. IsRow(rows[e])
    BY DEF MigrationInv, RowsOK
  <2>2. ASSUME NEW max \in PageSizes, MigrateEvents(max)
        PROVE  /\ rows'[e].total_budget = rows[e].total_budget
               /\ ~Legacy(e) => ~Legacy(e)' /\ rows'[e].prizes = rows[e].prizes
    <3>1. rows'[e] = MigrateOneEvent(rows[e]) \/ rows'[e] = rows[e]
      BY <2>2, PageRows
    <3> QED
      BY <2>1, <3>1, MigratedRow DEF Legacy, IsRow
  <2>3. ASSUME \/ Migrate
               \/ \E row \in NewRows : CreateEvent(row)
               \/ \E v \in Versions : Upgrade(v)
               \/ PauseEvents \/ UnpauseEvents
        PROVE  rows'[e] = rows[e]
    BY <2>3 DEF Migrate, CreateEvent, Upgrade, PauseEvents, UnpauseEvents, MigrationInv,
         RowsOK
  <2>4. ASSUME NEW d \in DOMAIN rows, NEW amount \in {1}, PayOut(d, amount)
        PROVE  /\ rows'[e].total_budget = rows[e].total_budget
               /\ rows'[e].layout = rows[e].layout
               /\ rows'[e].prizes = rows[e].prizes
    BY <2>1, <2>4 DEF PayOut, MigrationInv, RowsOK, IsRow
  <2>5. /\ rows'[e].total_budget = rows[e].total_budget
        /\ ~Legacy(e) => ~Legacy(e)' /\ rows'[e].prizes = rows[e].prizes
    BY <2>2, <2>3, <2>4 DEF MigrationNext, Legacy
  <2>6. next \in Nat /\ next' \in Nat /\ next <= next'
    <3>1. next' \in {next, next + 1}
      BY DEF MigrationNext, MigrateEvents, Migrate, CreateEvent, PayOut, Upgrade,
           PauseEvents, UnpauseEvents
    <3> QED
      BY <3>1 DEF MigrationInv, RowsOK
  <2>7. rows'[e].remaining_escrow = booked'[e]
    <3>1. e \in 1 .. next' - 1
      BY <2>6, RangeGrows
    <3>2. \A d \in 1 .. next' - 1 : rows'[d].remaining_escrow = booked'[d]
      BY DEF MigrationInv, RowsOK
    <3> QED
      BY <3>1, <3>2
  <2> QED
    BY <2>5, <2>7
<1> QED
  BY <1>1, MigrationAlways, PTL DEF MigrationSpec, ConversionKeepsBooks

\* A page leaves what it could not take, and no less.
LEMMA PageShrinks ==
  ASSUME MigrationInv, NEW max \in PageSizes, MigrateEvents(max)
  PROVE  Backlog!ShrinkBacklog(max)
<1>1. Budget(max) \in Nat \ {0}
  BY MigrationAssumption DEF Budget
<1>2. Cursor \in Nat \ {0} /\ next \in Nat /\ Cursor <= next
  BY DEF MigrationInv, CursorOK, RowsOK
<1>3. /\ next' = next /\ Cursor' = PageEnd(max)
      /\ UNCHANGED <<version, migrated_to, events_paused>>
  <2>1. PageEnd(max) \in Nat
    BY <1>1, <1>2 DEF PageEnd
  <2> QED
    BY <2>1, MigrationAssumption DEF MigrateEvents, Cursor
<1>4. MigrationRemaining' = IF Budget(max) < MigrationRemaining
                            THEN MigrationRemaining - Budget(max) ELSE 0
  BY <1>1, <1>2, <1>3 DEF MigrationRemaining, PageEnd
<1> QED
  BY <1>3, <1>4 DEF Backlog!ShrinkBacklog, Budget

\* Every step is one of the backlog, or none: what the cursor and the rows are
\* for is to count (admin.rs migration_remaining).
LEMMA MigrationStepMaps ==
  ASSUME MigrationInv, [MigrationNext]_migrationVars
  PROVE  [Backlog!BacklogNext]_Backlog!backlogVars
<1> USE DEF Backlog!backlogVars
<1>1. Cursor \in Nat \ {0} /\ next \in Nat /\ Cursor <= next
  BY DEF MigrationInv, CursorOK, RowsOK
<1>2. ASSUME NEW max \in PageSizes, MigrateEvents(max)
      PROVE  Backlog!BacklogNext
  BY <1>2, PageShrinks DEF Backlog!BacklogNext
<1>3. ASSUME Migrate PROVE Backlog!BacklogNext
  <2>1. Backlog!StampVersion
    BY <1>3 DEF Migrate, Backlog!StampVersion, MigrationRemaining, Cursor
  <2> QED
    BY <2>1 DEF Backlog!BacklogNext
<1>4. ASSUME NEW row \in NewRows, CreateEvent(row) PROVE Backlog!BacklogNext
  <2>1. /\ ~events_paused /\ next <= MaxEvents /\ next' = next + 1
        /\ UNCHANGED <<cursor, version, migrated_to, events_paused>>
    BY <1>4 DEF CreateEvent
  <2>2. Cursor' = Cursor
    BY <2>1 DEF Cursor
  <2>3. MigrationRemaining < MaxEvents /\ MigrationRemaining' = MigrationRemaining + 1
    BY <1>1, <2>1, <2>2, MigrationAssumption DEF MigrationRemaining
  <2>4. Backlog!GrowBacklog
    BY <2>1, <2>3 DEF Backlog!GrowBacklog
  <2> QED
    BY <2>4 DEF Backlog!BacklogNext
<1>5. ASSUME NEW v \in Versions, Upgrade(v) PROVE Backlog!BacklogNext
  <2>1. Backlog!NewVersion(v)
    BY <1>5 DEF Upgrade, Backlog!NewVersion, MigrationRemaining, Cursor
  <2> QED
    BY <2>1 DEF Backlog!BacklogNext
<1>6. ASSUME PauseEvents \/ UnpauseEvents PROVE Backlog!BacklogNext
  <2>1. Backlog!SetPaused(TRUE) \/ Backlog!SetPaused(FALSE)
    BY <1>6 DEF PauseEvents, UnpauseEvents, Backlog!SetPaused, MigrationRemaining, Cursor
  <2> QED
    BY <2>1 DEF Backlog!BacklogNext
<1>7. ASSUME \/ \E e \in DOMAIN rows, amount \in {1} : PayOut(e, amount)
             \/ UNCHANGED migrationVars
      PROVE  UNCHANGED <<MigrationRemaining, version, migrated_to, events_paused>>
  BY <1>7 DEF PayOut, migrationVars, MigrationRemaining, Cursor
<1> QED
  BY <1>2, <1>3, <1>4, <1>5, <1>6, <1>7 DEF MigrationNext

\* Migration is a backlog that pages shrink and creations feed, so what ends it
\* can be told from the number alone (admin.rs migrate_events, migrate).
THEOREM MigrationImplementsBacklog == MigrationSpec => ImplementsBacklog
<1>1. MigrationInit => Backlog!BacklogInit
  <2> SUFFICES ASSUME MigrationInit PROVE Backlog!BacklogInit
    OBVIOUS
  <2>1. Cursor \in 1 .. next /\ next \in 1 .. MaxEvents + 1
    BY MigrationInitHolds DEF MigrationInit, MigrationInv, CursorOK
  <2>2. MigrationRemaining \in 0 .. MaxEvents
    BY <2>1, MigrationAssumption DEF MigrationRemaining
  <2> QED
    BY <2>2 DEF MigrationInit, Backlog!BacklogInit
<1>2. MigrationInv /\ [MigrationNext]_migrationVars
        => [Backlog!BacklogNext]_Backlog!backlogVars
  BY MigrationStepMaps
<1> QED
  BY <1>1, <1>2, MigrationAlways, PTL
  DEF MigrationSpec, ImplementsBacklog, Backlog!BacklogSpec

\* A natural number times no more is no more.
LEMMA TimesAtMost ==
  ASSUME NEW b \in Nat, NEW x \in Int, NEW y \in Int, x <= y
  PROVE  b * x <= b * y
<1>1. PICK d \in Nat : y = x + d
  <2>1. y - x \in Nat /\ y = x + (y - x)
    OBVIOUS
  <2> QED
    BY <2>1
<1>2. b * d \in Nat
  OBVIOUS
<1>3. b * (x + d) = b * x + b * d
  OBVIOUS
<1>4. b * x \in Int
  OBVIOUS
<1> QED
  BY <1>1, <1>2, <1>3, <1>4

\* Percentages of one whole become floors within the budget: each is rounded
\* down, and those of nothing are left out (migrate_one_event).
LEMMA ConvertedAffordable ==
  ASSUME NEW row, IsRow(row), PrizesWithin(row), row.layout = "percentages"
  PROVE  PrizesWithin(Converted(row))
<1> DEFINE b == row.total_budget
           f == row.prizes
           D == DOMAIN row.prizes
           g == [p \in D |-> (b * f[p]) \div 100]
           K == {p \in D : g[p] > 0}
           h == [p \in K |-> g[p]]
<1>1. b \in Nat /\ IsFiniteSet(D) /\ \A p \in D : f[p] \in Nat
  BY DEF IsRow, PrizesWithin
<1>2. \A p \in D : b * f[p] \in Nat
  BY <1>1
<1>3. \A p \in D : g[p] \in Nat /\ 100 * g[p] <= b * f[p]
  <2> SUFFICES ASSUME NEW p \in D
               PROVE  (b * f[p]) \div 100 \in Nat
                      /\ 100 * ((b * f[p]) \div 100) <= b * f[p]
    OBVIOUS
  <2>1. PICK n \in Nat : n = b * f[p]
    BY <1>2
  <2>2. n \div 100 \in Nat /\ 100 * (n \div 100) <= n
    OBVIOUS
  <2> QED
    BY <2>1, <2>2
<1>4. SumFunctionOnSet(f, D) <= 100 /\ SumFunctionOnSet(f, D) \in Int
  <2>1. SumFunctionOnSet(f, D) <= 100
    BY DEF PrizesWithin, SumFunction
  <2> HIDE DEF f, D
  <2>2. \A p \in D : f[p] \in Int
    BY <1>1
  <2>3. SumFunctionOnSet(f, D) \in Int
    BY <1>1, <2>2, SumInt
  <2> QED
    BY <2>1, <2>3
<1>5. Converted(row) = [row EXCEPT !.layout = "floors", !.prizes = h]
  BY DEF Converted
<1>6. /\ K \subseteq D /\ DOMAIN h = K
      /\ \A p \in K : h[p] = g[p]
  OBVIOUS
<1> HIDE DEF b, f, D, g, K, h
<1>7. IsFiniteSet(K)
  BY <1>1, <1>6, FS_Subset
<1>8. \A p \in K : h[p] \in Nat
  BY <1>3, <1>6
<1>9. SumFunctionOnSet(h, K) <= b
  <2>1. \A p \in D : g[p] \in Int /\ f[p] \in Int /\ 100 * g[p] <= b * f[p]
    BY <1>1, <1>3
  <2>2. 100 * SumFunctionOnSet(g, D) <= b * SumFunctionOnSet(f, D)
    BY <1>1, <2>1, SumScale
  <2>3. SumFunctionOnSet(g, K) <= SumFunctionOnSet(g, D)
    <3>1. \A p \in D : g[p] \in Nat
      BY <1>3
    <3> QED
      BY <1>1, <1>6, <3>1, SumSubset
  <2>4. SumFunctionOnSet(h, K) = SumFunctionOnSet(g, K)
    <3>1. \A p \in K : g[p] \in Int /\ h[p] = g[p]
      BY <1>6, <2>1
    <3> QED
      BY <1>7, <3>1, SumSame
  <2>5. b * SumFunctionOnSet(f, D) <= b * 100
    BY <1>1, <1>4, TimesAtMost
  <2>6. SumFunctionOnSet(g, D) \in Int /\ SumFunctionOnSet(h, K) \in Int
    <3>1. \A p \in D : g[p] \in Int
      BY <2>1
    <3>2. \A p \in K : h[p] \in Int
      BY <1>8
    <3>3. SumFunctionOnSet(g, D) \in Int
      BY <1>1, <3>1, SumInt
    <3> QED
      BY <1>7, <3>2, <3>3, SumInt
  <2>7. PICK x \in Int : x = b * SumFunctionOnSet(f, D)
    BY <1>1, <1>4
  <2> QED
    BY <1>1, <2>2, <2>3, <2>4, <2>5, <2>6, <2>7
<1>10. /\ Converted(row).layout = "floors" /\ Converted(row).prizes = h
       /\ Converted(row).total_budget = b
  BY <1>5 DEF IsRow, b
<1> QED
  BY <1>6, <1>7, <1>8, <1>9, <1>10 DEF PrizesWithin, SumFunction

\* Every row stays within what was checked of it.
RowsWithin == \A e \in DOMAIN rows : PrizesWithin(rows[e])

\* No page, creation or payout takes a row beyond it.
LEMMA RowsStayWithin ==
  ASSUME MigrationInv, RowsWithin, [MigrationNext]_migrationVars
  PROVE  RowsWithin'
<1>1. \A e \in DOMAIN rows : IsRow(rows[e]) /\ PrizesWithin(rows[e])
  BY DEF MigrationInv, RowsOK, RowsWithin
<1>2. ASSUME NEW max \in PageSizes, MigrateEvents(max) PROVE RowsWithin'
  <2>1. ASSUME NEW e \in DOMAIN rows PROVE PrizesWithin(MigrateOneEvent(rows[e]))
    BY <1>1, ConvertedAffordable DEF MigrateOneEvent
  <2> QED
    BY <1>1, <1>2, <2>1 DEF MigrateEvents, RowsWithin
<1>3. ASSUME NEW row \in NewRows, CreateEvent(row) PROVE RowsWithin'
  <2>1. DOMAIN rows = 1 .. next - 1 /\ next \in Nat
    BY DEF MigrationInv, RowsOK
  <2>2. \A e \in DOMAIN rows' : rows'[e] = row \/ (e \in DOMAIN rows /\ rows'[e] = rows[e])
    BY <1>3, <2>1 DEF CreateEvent
  <2> QED
    BY <1>1, <2>2, DistributionAssumption DEF RowsWithin
<1>4. ASSUME NEW e \in DOMAIN rows, NEW amount \in {1}, PayOut(e, amount)
      PROVE  RowsWithin'
  <2>1. /\ DOMAIN rows' = DOMAIN rows
        /\ \A d \in DOMAIN rows :
             /\ rows'[d].prizes = rows[d].prizes /\ rows'[d].layout = rows[d].layout
             /\ rows'[d].total_budget = rows[d].total_budget
    BY <1>1, <1>4 DEF PayOut, IsRow
  <2> QED
    BY <1>1, <2>1 DEF RowsWithin, PrizesWithin
<1>5. ASSUME UNCHANGED rows PROVE RowsWithin'
  BY <1>1, <1>5 DEF RowsWithin
<1>6. \/ Migrate \/ (\E v \in Versions : Upgrade(v)) \/ PauseEvents \/ UnpauseEvents
      \/ UNCHANGED migrationVars
      => UNCHANGED rows
  BY DEF Migrate, Upgrade, PauseEvents, UnpauseEvents, migrationVars
<1> QED
  BY <1>2, <1>3, <1>4, <1>5, <1>6 DEF MigrationNext

\* The floors an event ends up with never add up to more than its budget,
\* whatever percentages the code before 1.7.0 left (migrate_one_event).
THEOREM FloorsAlwaysAffordable == MigrationSpec => []FloorsAffordable
<1>1. MigrationInit => RowsWithin
  BY DistributionAssumption DEF MigrationInit, RowsWithin
<1>2. MigrationInv /\ RowsWithin /\ [MigrationNext]_migrationVars => RowsWithin'
  BY RowsStayWithin
<1>3. MigrationInv /\ RowsWithin => FloorsAffordable
  BY DEF MigrationInv, RowsOK, IsRow, RowsWithin, PrizesWithin, FloorsAffordable, Legacy
<1> QED
  BY <1>1, <1>2, <1>3, MigrationAlways, PTL DEF MigrationSpec
=============================================================================
