---------------------------- MODULE MCManagement ----------------------------
(***************************************************************************)
(* Who manages an event: proposals, handovers, reclaims and expired        *)
(* proposals around a bounty that is funded, awarded, claimed and          *)
(* cancelled, with pauses and a token that comes and goes.                 *)
(***************************************************************************)
EXTENDS EventsProperties

CONSTANTS owner, m1, usdc

MCUsers          == {owner, m1}
MCTokens         == {usdc}
MCManagerTargets == {owner, m1}

Bounty(delegate) ==
  [pillar |-> "Bounty", owner |-> owner, token |-> usdc, total_budget |-> 2,
   kind |-> [form |-> "Single"], floors |-> <<1, None>>,
   fee_override |-> None, manager |-> delegate]

MCEventParams == {Bounty(None), Bounty(m1)}

Award(p) ==
  [recipient |-> m1, position |-> p, amount |-> 1, reputation_bump |-> 0]

MCWinnerBatches == {<<Award(1)>>, <<Award(1), Award(2)>>}
=============================================================================
