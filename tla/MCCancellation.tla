--------------------------- MODULE MCCancellation ---------------------------
(***************************************************************************)
(* Cancelling a prize event funded by its owner and two contributors,      *)
(* with the prize claimed, unclaimed or never awarded, so that each of the *)
(* three refund branches is taken; accounts may refuse the token.          *)
(***************************************************************************)
EXTENDS EventsProperties

CONSTANTS owner, c1, c2, usdc

MCUsers     == {owner, c1, c2}
MCTokens    == {usdc}
MCFreezable == {owner, c1}

MCEventParams ==
  {[pillar |-> "Hackathon", owner |-> owner, token |-> usdc,
    total_budget |-> 2, kind |-> [form |-> "Single"],
    floors |-> <<1, None>>, fee_override |-> None, manager |-> None]}

MCWinnerBatches ==
  {<<[recipient |-> c1, position |-> 1, amount |-> 3, reputation_bump |-> 0]>>}
=============================================================================
