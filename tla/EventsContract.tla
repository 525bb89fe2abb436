---------------------------- MODULE EventsContract ----------------------------
(***************************************************************************)
(* The events contract as a whole: every entry point that moves an event,  *)
(* the admin's switches they depend on (admin.rs, token_whitelist.rs), and *)
(* the world around the contract.  Each step is one call: the host runs    *)
(* calls one at a time and rolls a failed one back entirely.               *)
(***************************************************************************)
EXTENDS EventFunding, EventCancellation, EventAwards, EventGrants

-----------------------------------------------------------------------------
(* The admin's switches                                                    *)

UnchangedByAdmin == UNCHANGED <<now, eventVars, op_seen, balance, refusing>>

\* Pausing again does not restart the pause that is running.
Pause ==
  /\ MayPause
  /\ paused' = TRUE
  /\ paused_at' = IF paused_at = None THEN now ELSE paused_at
  /\ UNCHANGED <<paused_seconds, configVars>> /\ UnchangedByAdmin

Unpause ==
  /\ MayPause
  /\ paused' = FALSE
  /\ paused_at' = None
  /\ paused_seconds' = IF paused_at = None THEN paused_seconds
                       ELSE paused_seconds + (now - paused_at)
  /\ UNCHANGED configVars /\ UnchangedByAdmin

SetFeeBps(bps) ==
  /\ bps <= MaxFeeBps
  /\ fee_bps' = bps
  /\ UNCHANGED <<supported, pauseVars>> /\ UnchangedByAdmin

RegisterToken(t) ==
  /\ supported' = supported \cup {t}
  /\ UNCHANGED <<fee_bps, pauseVars>> /\ UnchangedByAdmin

DeregisterToken(t) ==
  /\ supported' = supported \ {t}
  /\ UNCHANGED <<fee_bps, pauseVars>> /\ UnchangedByAdmin

AdminNext ==
  \/ Pause
  \/ Unpause
  \/ \E bps \in FeeSettings : SetFeeBps(bps)
  \/ \E t \in ManagedTokens : RegisterToken(t)
  \/ \E t \in ManagedTokens : DeregisterToken(t)

-----------------------------------------------------------------------------
(* The world.  One unit of the clock is a day, 17,280 ledgers: the life of *)
(* a temporary entry, so every OpSeen marker lapses with the day it was    *)
(* written in (mark_op_seen never extends one).  The clock stops at        *)
(* MaxTime, days do not.  An account may drop and regain its trustline.    *)

UnchangedByWorld == UNCHANGED <<pauseVars, configVars, eventVars, balance>>

Tick ==
  /\ now' = IF now < MaxTime THEN now + 1 ELSE now
  /\ op_seen' = {}
  /\ UNCHANGED refusing /\ UnchangedByWorld

Freeze(h) ==
  /\ refusing' = refusing \cup {h}
  /\ UNCHANGED <<now, op_seen>> /\ UnchangedByWorld

Thaw(h) ==
  /\ refusing' = refusing \ {h}
  /\ UNCHANGED <<now, op_seen>> /\ UnchangedByWorld

WorldNext ==
  \/ Tick
  \/ \E h \in Freezable : Freeze(h)
  \/ \E h \in Freezable : Thaw(h)

Next ==
  \/ FundingNext
  \/ CancellationNext
  \/ AwardsNext
  \/ GrantsNext
  \/ AdminNext
  \/ WorldNext

Spec == Init /\ [][Next]_vars
=============================================================================
