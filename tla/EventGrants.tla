----------------------------- MODULE EventGrants -----------------------------
(***************************************************************************)
(* Milestone payouts (grant.rs): a grantee's milestones are released or    *)
(* forfeited one at a time against the award; a campaign's owner draws     *)
(* equal parts of whatever the campaign holds.                             *)
(***************************************************************************)
EXTENDS EventsStorage

\* The guards claim_milestone and forfeit_milestone share; both are signed
\* by the event's owner.
MilestoneOpen(e, r, m, op) ==
  /\ NotPaused /\ IsActive(e)
  /\ m < Milestones(Kind(e))
  /\ Unseen(Owner(e), op)
  /\ <<r, m>> \notin milestone_claimed[e]

MilestoneRow(r, position, amount, m) ==
  [recipient |-> r, position |-> position, amount |-> amount,
   milestone |-> m, paid |-> TRUE]

\* What milestone m settles for: the recipient's standing is the award on
\* the roster and what was settled of it so far.
SettlementOf(e, r, m) ==
  Share(roster[e][r].amount, progress[e][r].settled,
        progress[e][r].settled_amount, Kind(e), m)

\* The last milestone takes the remainder, so its product is never formed.
SettlementFits(e, r, m) ==
  progress[e][r].settled + 1 # Milestones(Kind(e)) =>
    ShareFits(Kind(e), roster[e][r].amount, m)

\* A slip: a settled share stays reserved.
KeepOwed(e, amount) == owed_total[e] - amount >= 0 /\ UNCHANGED owed_total

ReleaseOwed(e, amount) ==
  /\ owed_total[e] - amount >= 0
  /\ owed_total' = [owed_total EXCEPT ![e] = @ - amount]

\* The share is no longer owed, and it counts as settled whether it was paid
\* or forfeited.
Settle(e, r, m) ==
  LET amount == SettlementOf(e, r, m)
  IN  /\ roster[e][r] # None
      /\ SettlementFits(e, r, m)
      /\ amount > 0
      /\ ReleaseOwed(e, amount)
      /\ milestone_claimed' = [milestone_claimed EXCEPT ![e] = @ \cup {<<r, m>>}]
      /\ progress' = [progress EXCEPT ![e][r] =
           [settled |-> @.settled + 1,
            settled_amount |-> @.settled_amount + amount]]

\* What every payout of claim_milestone does to the record.
PayMilestone(e, r, position, amount, m) ==
  /\ amount > 0 /\ amount <= remaining_escrow[e]
  /\ remaining_escrow' = [remaining_escrow EXCEPT ![e] = @ - amount]
  /\ winners' = WithWinners(e, <<MilestoneRow(r, position, amount, m)>>)
  /\ status' = [status EXCEPT
                  ![e] = IF remaining_escrow'[e] = 0 THEN "Completed" ELSE @]

\* claim_milestone on a grant.
ClaimGrantMilestone(e, r, m, bump, op) ==
  /\ bump <= MaxReputationBump
  /\ MilestoneOpen(e, r, m, op)
  /\ ~IsCrowdfunding(e)
  /\ Settle(e, r, m)
  /\ PayMilestone(e, r, roster[e][r].position, SettlementOf(e, r, m), m)
  /\ MarkSeen(Owner(e), op)
  /\ Release(Token(e), r, SettlementOf(e, r, m))
  /\ UNCHANGED <<ambientVars, terms, managerVars, prizeVars, roster,
                 cf_claimed, contributionVars, cancelVars>>

\* A slip: the escrow is divided by all milestones, not those left.
EqualDraw(e) == remaining_escrow[e] \div Milestones(Kind(e))

\* An equal part of what is left, over the milestones not yet drawn.
CampaignDraw(e) ==
  remaining_escrow[e] \div (Milestones(Kind(e)) - cf_claimed[e])

\* claim_milestone on a campaign: cosigned by the release cosigner, paid to
\* the owner net of the fee in force at that moment.
ClaimCampaignMilestone(e, r, m, bump, op) ==
  /\ bump <= MaxReputationBump
  /\ MilestoneOpen(e, r, m, op)
  /\ IsCrowdfunding(e)
  /\ r = Owner(e)
  /\ Milestones(Kind(e)) > cf_claimed[e]
  /\ PayMilestone(e, r, 1, CampaignDraw(e), m)
  /\ milestone_claimed' = [milestone_claimed EXCEPT ![e] = @ \cup {<<r, m>>}]
  /\ cf_claimed' = [cf_claimed EXCEPT ![e] = @ + 1]
  /\ MarkSeen(Owner(e), op)
  /\ ReleaseWithFee(Token(e), r, CampaignDraw(e), EffectiveFee(e))
  /\ UNCHANGED <<ambientVars, terms, managerVars, prizeVars, owed_total,
                 roster, progress, contributionVars, cancelVars>>

\* forfeit_milestone: grants only.  The share stays in the escrow.
ForfeitMilestone(e, r, m, op) ==
  /\ MilestoneOpen(e, r, m, op)
  /\ terms[e].pillar = "Grant"
  /\ Settle(e, r, m)
  /\ MarkSeen(Owner(e), op)
  /\ UNCHANGED <<ambientVars, terms, status, remaining_escrow, managerVars,
                 winners, prizeVars, roster, cf_claimed, contributionVars,
                 cancelVars, balance>>

MilestoneInputs(e) == IF EventExists(e) THEN 0 .. Milestones(Kind(e)) ELSE {}

GrantsNext ==
  \E e \in EventIds, r \in Users, op \in OpIds :
    \E m \in MilestoneInputs(e) :
      \/ \E bump \in ReputationBumps : ClaimGrantMilestone(e, r, m, bump, op)
      \/ \E bump \in ReputationBumps : ClaimCampaignMilestone(e, r, m, bump, op)
      \/ ForfeitMilestone(e, r, m, op)
=============================================================================
