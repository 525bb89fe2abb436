------------------------------ MODULE MCPrizes ------------------------------
(***************************************************************************)
(* One prize event (Hackathon or Bounty: the code treats them alike) with  *)
(* an owner and two winners who may also contribute.  The selections       *)
(* overlap in positions, exceed what is left of the escrow together, and   *)
(* include one below its floor; they may fall on different days, with      *)
(* pauses in between.                                                      *)
(***************************************************************************)
EXTENDS ClaimWindowHistory

CONSTANTS owner, w1, w2, usdc

MCUsers     == {owner, w1, w2}
MCTokens    == {usdc}
MCFreezable == {w1}

MCEventParams ==
  {[pillar |-> "Bounty", owner |-> owner, token |-> usdc, total_budget |-> 4,
    kind |-> [form |-> "Single"], floors |-> <<2, None>>,
    fee_override |-> None, manager |-> None]}

Award(r, p, a) ==
  [recipient |-> r, position |-> p, amount |-> a, reputation_bump |-> 0]

MCWinnerBatches ==
  {<<Award(w1, 1, 2)>>, <<Award(w2, 2, 3)>>,
   <<Award(w2, 1, 2), Award(w1, 2, 2)>>, <<Award(w1, 1, 1)>>}
=============================================================================
