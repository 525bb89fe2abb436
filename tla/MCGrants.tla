------------------------------ MODULE MCGrants ------------------------------
(***************************************************************************)
(* One grant, with an even or a weighted split, awarded to one or two      *)
(* recipients; no award divides evenly over its milestones.                *)
(***************************************************************************)
EXTENDS EventsProperties

CONSTANTS owner, g1, g2, usdc

MCUsers  == {owner, g1, g2}
MCTokens == {usdc}

Grant(kind) ==
  [pillar |-> "Grant", owner |-> owner, token |-> usdc, total_budget |-> 9,
   kind |-> kind, floors |-> <<4, None>>, fee_override |-> None,
   manager |-> None]

MCEventParams ==
  {Grant([form |-> "Multi", n |-> 3]),
   Grant([form |-> "Split", shares |-> <<3, 7>>])}

Award(r, p, a) ==
  [recipient |-> r, position |-> p, amount |-> a, reputation_bump |-> 0]

MCWinnerBatches ==
  {<<Award(g1, 1, 5)>>, <<Award(g1, 1, 5), Award(g2, 2, 4)>>,
   <<Award(g1, 1, 5), Award(g1, 2, 4)>>, <<Award(g1, 1, 7), Award(g2, 2, 4)>>,
   <<Award(g2, 2, 2)>>}
=============================================================================
