------------------------------ MODULE MCControl ------------------------------
(***************************************************************************)
(* What the admins do beside the events: the control planes of the two     *)
(* contracts, the token whitelist, and the migration after an upgrade,     *)
(* with its events and as a backlog.  The five share no state that a       *)
(* property relates, so interleaving them shows nothing more: a behaviour  *)
(* exercises one, its part, and the other parts stay as on the first day.  *)
(***************************************************************************)
EXTENDS AdminHistory, ProfileControl, TokenRegistry, EventMigration

CONSTANTS
  fees, vault, profile1, profile2

VARIABLES part, backlog

\* Its events are counted, not kept: creations go on for ever.
Waiting == INSTANCE MigrationBacklog WITH MaxBacklog <- MaxEvents

\* Percentages that round, one of them to a floor of nothing.
MCOldRows ==
  {[layout |-> "percentages", total_budget |-> 7, remaining_escrow |-> 1,
    prizes |-> <<50, 46, 4>>]}

MCNewRows ==
  {[layout |-> "floors", total_budget |-> 2, remaining_escrow |-> 2,
    prizes |-> <<1>>]}

\* A part that is not exercised; a contract with no events is migrated.
ControlIdle ==
  /\ AdminHistoryInit
  /\ fee_account = fees /\ profile_contract = profile1
ProfileIdle ==
  /\ paused = FALSE
  /\ events_contract = None /\ pending_events_contract = None
  /\ profile_migrated_to = None /\ shown_binding = None
NoEvents == next = 1 /\ rows = << >> /\ booked = << >> /\ cursor = Unset
MigrationIdle ==
  /\ NoEvents /\ version = 1 /\ migrated_to = 1 /\ events_paused = FALSE

MCInit ==
  /\ RegistryInit
  /\ \/ part = "events"    /\ AdminHistoryInit /\ ProfileIdle /\ MigrationIdle
     \/ part = "profile"   /\ ControlIdle /\ ProfileControlInit /\ MigrationIdle
     \/ part = "whitelist" /\ ControlIdle /\ ProfileIdle /\ MigrationIdle
     \/ part = "migration" /\ ControlIdle /\ ProfileIdle /\ MigrationInit
     \/ part = "backlog"   /\ ControlIdle /\ ProfileIdle /\ NoEvents /\ Waiting!BacklogInit
  /\ part # "backlog" => backlog = 0

profileOnlyVars == <<profileBindingVars, profile_migrated_to, shown_binding>>
eventRowVars == <<rows, next, cursor, booked>>

MCNext ==
  /\ \/ /\ part = "events" /\ AdminHistoryNext
        /\ UNCHANGED <<profileOnlyVars, registryVars, migrationVars, backlog>>
     \/ /\ part = "profile" /\ ProfileControlNext
        /\ UNCHANGED <<bindingVars, validatorVars, registryVars, migrationVars, backlog>>
     \/ /\ part = "whitelist" /\ RegistryNext
        /\ UNCHANGED <<adminHistoryVars, profileOnlyVars, migrationVars, backlog>>
     \/ /\ part = "migration" /\ MigrationNext
        /\ UNCHANGED <<adminHistoryVars, profileOnlyVars, registryVars, backlog>>
     \/ /\ part = "backlog" /\ Waiting!BacklogNext
        /\ UNCHANGED <<adminHistoryVars, profileOnlyVars, registryVars, eventRowVars>>
  /\ UNCHANGED part

\* The version that stays is stamped, if from some point on the contract is
\* kept paused until it is, with no end to the events created while it is not
\* (admin.rs migrate, create_event; docs/upgrade-runbook.md, section 4).
MigrationFinishes == part = "backlog" => Waiting!MigrationFinishes

MCSpec ==
  /\ MCInit
  /\ [][MCNext]_<<adminHistoryVars, profileOnlyVars, registryVars, migrationVars, backlog, part>>
  /\ part = "backlog" => Waiting!BacklogFairness
=============================================================================
