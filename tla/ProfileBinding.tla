--------------------------- MODULE ProfileBinding ---------------------------
(***************************************************************************)
(* Which events contract may write to the profile contract (profile        *)
(* admin.rs): bound in one step when nothing is bound yet, and from then   *)
(* on replaced by a proposal, a timelock and an acceptance, all signed by  *)
(* the admin; and the pause.  One unit of the clock is a day.              *)
(***************************************************************************)
EXTENDS Integers

CONSTANTS
  None,
  BindingTimelock,   \* EVENTS_CONTRACT_TIMELOCK_LEDGERS
  BindingTtl         \* PENDING_EVENTS_CONTRACT_TTL_LEDGERS

VARIABLES
  now,
  paused,
  events_contract,          \* EventsContract: None until it is first set
  pending_events_contract   \* None or a target and the day it was proposed

bindingVars == <<events_contract, pending_events_contract>>

Pause   == paused' = TRUE  /\ UNCHANGED bindingVars
Unpause == paused' = FALSE /\ UNCHANGED bindingVars

\* A slip: the one-step call goes on working.
RebindAtOnce(c) ==
  /\ events_contract' = c
  /\ UNCHANGED <<paused, pending_events_contract>>

\* Only the first binding is one step.  A proposal made before it stays.
SetEventsContract(c) ==
  /\ events_contract = None
  /\ events_contract' = c
  /\ UNCHANGED <<paused, pending_events_contract>>

\* (The expiry is stored at proposal time; it is proposed_at + BindingTtl.)
ProposeEventsContract(c) ==
  /\ pending_events_contract' =
       [target |-> c, proposed_at |-> now, expires_at |-> now + BindingTtl]
  /\ UNCHANGED <<paused, events_contract>>

AcceptEventsContract ==
  /\ pending_events_contract # None
  /\ now <= pending_events_contract.expires_at
  /\ now >= pending_events_contract.proposed_at + BindingTimelock
  /\ events_contract' = pending_events_contract.target
  /\ pending_events_contract' = None
  /\ UNCHANGED paused

CancelPendingEventsContract ==
  /\ pending_events_contract # None
  /\ pending_events_contract' = None
  /\ UNCHANGED <<paused, events_contract>>
=============================================================================
