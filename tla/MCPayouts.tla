------------------------------ MODULE MCPayouts ------------------------------
(***************************************************************************)
(* One event of each kind in turn: a bounty whose two winners use the same *)
(* operation id, a grant and a campaign; the profile contract is bound,    *)
(* rebound, paused and pointed away from in between.                       *)
(***************************************************************************)
EXTENDS PayoutRecords

CONSTANTS owner, u1, usdc, elsewhere, successor

MCUsers  == {owner, u1}
MCTokens == {usdc}

Params(pillar, kind, budget) ==
  [pillar |-> pillar, owner |-> owner, token |-> usdc, total_budget |-> budget,
   kind |-> kind, floors |-> <<1, None>>, fee_override |-> None,
   manager |-> None]

MCEventParams ==
  {Params("Bounty", [form |-> "Single"], 3),
   Params("Grant", [form |-> "Multi", n |-> 2], 3),
   Params("Crowdfunding", [form |-> "Multi", n |-> 2], 3)}

Award(r, p, a, bump) ==
  [recipient |-> r, position |-> p, amount |-> a, reputation_bump |-> bump]

MCWinnerBatches == {<<Award(u1, 1, 2, 2), Award(owner, 2, 1, 1)>>,
                    <<Award(u1, 1, 3, 2)>>}
MCStrangers == {u1}
MCGuesses   == {owner}
MCSlashable == {u1}

MCProfileContracts == {Profile, elsewhere}
MCEventsContracts  == {Contract, successor}
=============================================================================
