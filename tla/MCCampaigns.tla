----------------------------- MODULE MCCampaigns -----------------------------
(***************************************************************************)
(* One crowdfunding campaign of two or three milestones with two backers;  *)
(* the owner contributes too, the draws do not divide evenly, and the      *)
(* backend retries the deposits.                                           *)
(***************************************************************************)
EXTENDS OperationRetries

CONSTANTS owner, b1, b2, usdc

MCUsers  == {owner, b1, b2}
MCTokens == {usdc}

Campaign(n) ==
  [pillar |-> "Crowdfunding", owner |-> owner, token |-> usdc,
   total_budget |-> 4, kind |-> [form |-> "Multi", n |-> n],
   floors |-> <<4, None>>, fee_override |-> None, manager |-> None]

MCEventParams == {Campaign(2), Campaign(3)}
=============================================================================
