------------------------------ MODULE MCShared ------------------------------
(***************************************************************************)
(* Two events at once, a bounty and a campaign, whose money lies in one    *)
(* token balance of the contract.                                          *)
(***************************************************************************)
EXTENDS EventsRefinement

CONSTANTS owner, u1, usdc

MCUsers     == {owner, u1}
MCTokens    == {usdc}
MCFreezable == {u1}

Params(pillar, kind) ==
  [pillar |-> pillar, owner |-> owner, token |-> usdc, total_budget |-> 2,
   kind |-> kind, floors |-> <<1>>, fee_override |-> None, manager |-> None]

MCEventParams ==
  {Params("Bounty", [form |-> "Single"]),
   Params("Crowdfunding", [form |-> "Multi", n |-> 2])}

MCWinnerBatches ==
  {<<[recipient |-> u1, position |-> 1, amount |-> 1, reputation_bump |-> 0]>>}
=============================================================================
