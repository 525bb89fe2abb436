----------------------------- MODULE MCLiveness -----------------------------
(***************************************************************************)
(* One small prize event with two contributors, one of whom is awarded the *)
(* prize; the owner's and a contributor's accounts may refuse the token,   *)
(* and the admin may pause, without end.                                   *)
(***************************************************************************)
EXTENDS EventsLiveness

CONSTANTS owner, c1, c2, usdc

MCUsers     == {owner, c1, c2}
MCTokens    == {usdc}
MCFreezable == {owner, c1}

MCEventParams ==
  {[pillar |-> "Hackathon", owner |-> owner, token |-> usdc,
    total_budget |-> 2, kind |-> [form |-> "Single"], floors |-> <<1>>,
    fee_override |-> None, manager |-> None]}

MCWinnerBatches ==
  {<<[recipient |-> c1, position |-> 1, amount |-> 2, reputation_bump |-> 0]>>}
=============================================================================
