--------------------------- MODULE ProfileControl ---------------------------
(***************************************************************************)
(* The control plane of the profile contract (profile admin.rs): its admin *)
(* rotation, upgrade and migration stamp, and the binding of the events    *)
(* contract that may write reputations and earnings, with a history of     *)
(* which binding an observer has seen proposed, and since when.            *)
(***************************************************************************)
EXTENDS ControlHistory

CONSTANTS
  EventsContracts,              \* addresses the binding may name
  Live,                         \* those at which a contract answers
  BindingTimelock, BindingTtl

ASSUME ProfileAssumption ==
  /\ None \notin EventsContracts
  /\ None \notin [target : EventsContracts, proposed_at : Nat, expires_at : Nat]
  /\ None \notin [target : EventsContracts, since : Nat]
  /\ Live \subseteq EventsContracts
  /\ BindingTimelock \in Nat /\ BindingTtl \in Nat

VARIABLES
  paused, events_contract, pending_events_contract,
  profile_migrated_to,   \* MigratedToVersion
  shown_binding          \* history: the binding on offer and the day it was offered

Binding == INSTANCE ProfileBinding

profileBindingVars == <<paused, events_contract, pending_events_contract>>
profileControlVars ==
  <<controlVars, offered, announced, profileBindingVars, profile_migrated_to,
    shown_binding>>

ProfileControlInit ==
  /\ ControlInit /\ NothingOffered
  /\ paused = FALSE
  /\ events_contract = None /\ pending_events_contract = None
  /\ profile_migrated_to = None
  /\ shown_binding = None

\* set_admin, accept_admin, propose_upgrade, apply_upgrade and
\* cancel_pending_upgrade: the same code as in the events contract.
SharedCalls ==
  /\ RotateAdmin \/ UpgradeContract
  /\ UNCHANGED <<profileBindingVars, profile_migrated_to, shown_binding>>

\* migrate: the profile has no records to convert, it only stamps, and once
\* per version.
StampMigrated ==
  /\ RequireAdmin
  /\ profile_migrated_to # release
  /\ profile_migrated_to' = release
  /\ UNCHANGED <<controlVars, offered, announced, profileBindingVars, shown_binding>>

\* The calls on the binding and the pause, signed by the admin.
RotateBinding ==
  /\ RequireAdmin
  /\ \/ \E c \in EventsContracts :
          \/ Binding!SetEventsContract(c) /\ UNCHANGED shown_binding
          \/ /\ Binding!ProposeEventsContract(c)
             /\ shown_binding' = [target |-> c, since |-> now]
     \/ Binding!AcceptEventsContract /\ shown_binding' = None
     \/ Binding!CancelPendingEventsContract /\ shown_binding' = None
     \/ (Binding!Pause \/ Binding!Unpause) /\ UNCHANGED shown_binding
  /\ UNCHANGED <<controlVars, offered, announced, profile_migrated_to>>

PassDay ==
  /\ ControlTick
  /\ UNCHANGED <<offered, announced, profileBindingVars, profile_migrated_to,
                 shown_binding>>

ProfileControlNext == SharedCalls \/ StampMigrated \/ RotateBinding \/ PassDay

ProfileControlSpec ==
  ProfileControlInit /\ [][ProfileControlNext]_profileControlVars

-----------------------------------------------------------------------------

\* After the first binding, whichever contract comes to write reputations and
\* earnings was public, unchanged and not withdrawn, for its whole timelock
\* first (EoP.13 in docs/threat-model.md; accept_events_contract).  Other code
\* of the profile contract itself waits likewise (UpgradeOnDisplay).
WritersAnnounced ==
  [][events_contract' # events_contract /\ events_contract # None =>
       /\ shown_binding # None
       /\ shown_binding.target = events_contract'
       /\ now - shown_binding.since \in BindingTimelock .. BindingTtl
    ]_profileControlVars

\* What the documentation says of every two-step rotation, the binding's among
\* them (docs/ARCHITECTURE.md:108): a typo or a key nobody holds never takes
\* over, so a binding at which a contract answers is only replaced by another.
RotationKeepsLive ==
  [][(events_contract \in Live => events_contract' \in Live)]_profileControlVars
=============================================================================
