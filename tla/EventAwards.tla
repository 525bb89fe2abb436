----------------------------- MODULE EventAwards -----------------------------
(***************************************************************************)
(* Selecting winners and claiming prizes (event_ops.rs: select_winners,    *)
(* claim_prize).  A selection only reserves: owed_total is what the escrow *)
(* still owes to awards, and tokens move when a recipient claims.          *)
(***************************************************************************)
EXTENDS EventsStorage

\* A slip: what earlier selections reserved is forgotten.
CommittedByBatch(e, batch) ==
  SumFunction([i \in DOMAIN batch |-> batch[i].amount])

\* What the escrow owes once `batch` is awarded too.
Committed(e, batch) ==
  SumFunction([i \in DOMAIN batch |-> batch[i].amount]) + owed_total[e]

\* A position with a floor, fixed at creation, is awarded no less.
FloorMet(e, spec) ==
  terms[e].floors[spec.position] # None =>
    spec.amount >= terms[e].floors[spec.position]

\* The guards both branches of select_winners share.  checked_add: sums
\* that leave an i128 are refused.
SelectionAllowed(e, batch, cap, op) ==
  /\ NotPaused /\ IsActive(e)
  /\ ~IsCrowdfunding(e)
  /\ Unseen(ManagerOf(e), op)
  /\ Len(batch) \in 1 .. cap
  /\ \A i \in DOMAIN batch : batch[i].reputation_bump <= MaxReputationBump
  /\ \A i, j \in DOMAIN batch :
       batch[i].position = batch[j].position => i = j
  /\ \A i \in DOMAIN batch : FloorMet(e, batch[i])
  /\ InI128(Committed(e, batch))
  /\ Committed(e, batch) <= remaining_escrow[e]

AwardRows(batch) ==
  [i \in 1 .. Len(batch) |->
     [recipient |-> batch[i].recipient, position |-> batch[i].position,
      amount |-> batch[i].amount, milestone |-> None, paid |-> FALSE]]

AwardedPositions(batch)  == {batch[i].position : i \in DOMAIN batch}
AwardedRecipients(batch) == {batch[i].recipient : i \in DOMAIN batch}

\* A slip: the index counts within the batch.
AnchorIdxInBatch(e, i) == i

\* Where the i-th row of the next batch goes in the winners list.
AnchorIdx(e, i) == Len(winners[e]) + i

UnchangedBySelection ==
  UNCHANGED <<ambientVars, terms, status, remaining_escrow, managerVars,
              cf_claimed, contributionVars, cancelVars, balance>>

\* select_winners on a Single event: several batches, each position once.
SelectPrizes(e, batch, op) ==
  /\ SelectionAllowed(e, batch, MaxAwardsPerSelect, op)
  /\ IsSingle(e)
  /\ \A i \in DOMAIN batch :
       prize_award[e][batch[i].position] = None /\ batch[i].amount > 0
  /\ owed_total' = [owed_total EXCEPT ![e] = Committed(e, batch)]
  /\ winners' = WithWinners(e, AwardRows(batch))
  /\ prize_award' = [prize_award EXCEPT ![e] =
       [p \in Positions |->
          IF p \in AwardedPositions(batch)
          THEN LET i == CHOOSE i \in DOMAIN batch : batch[i].position = p
               IN  [recipient |-> batch[i].recipient,
                    anchor_idx |-> AnchorIdx(e, i),
                    reputation_bump |-> batch[i].reputation_bump]
          ELSE @[p]]]
  /\ unclaimed_prizes' = [unclaimed_prizes EXCEPT ![e] = @ + Len(batch)]
  /\ claim_expiry' = [claim_expiry EXCEPT ![e] =
       IF OpenTime + ClaimWindow > @ THEN OpenTime + ClaimWindow ELSE @]
  /\ MarkSeen(ManagerOf(e), op)
  /\ UnchangedBySelection /\ UNCHANGED grantVars

\* select_winners on a grant: once, each recipient once, and only amounts
\* every milestone of which pays something.
SelectGrantees(e, batch, op) ==
  /\ SelectionAllowed(e, batch, MaxGrantAwards, op)
  /\ ~IsSingle(e)
  /\ winners[e] = << >>
  /\ \A i \in DOMAIN batch : EveryMilestonePays(Kind(e), batch[i].amount)
  /\ \A i, j \in DOMAIN batch :
       batch[i].recipient = batch[j].recipient => i = j
  /\ owed_total' = [owed_total EXCEPT ![e] = Committed(e, batch)]
  /\ roster' = [roster EXCEPT ![e] =
       [u \in Users |->
          IF u \in AwardedRecipients(batch)
          THEN LET i == CHOOSE i \in DOMAIN batch : batch[i].recipient = u
               IN  [position |-> batch[i].position,
                    amount |-> batch[i].amount]
          ELSE None]]
  /\ winners' = WithWinners(e, AwardRows(batch))
  /\ MarkSeen(ManagerOf(e), op)
  /\ UnchangedBySelection /\ UNCHANGED <<prizeVars, progress, milestone_claimed>>

\* Slips: a paid prize is due again; an unclaimed one lapses with the window.
PrizeDueAgain(e, p) ==
  LET award == prize_award[e][p]
  IN  /\ award # None
      /\ winners[e][award.anchor_idx].amount <= remaining_escrow[e]
      /\ owed_total[e] - winners[e][award.anchor_idx].amount >= 0

PrizeDueWithinWindow(e, p) ==
  /\ prize_award[e][p] # None
  /\ ~winners[e][prize_award[e][p].anchor_idx].paid
  /\ OpenTime <= claim_expiry[e]

\* The award at position p points at its own unpaid row, and the escrow and
\* the reservation cover it.
PrizeDue(e, p) ==
  LET award  == prize_award[e][p]
      anchor == winners[e][award.anchor_idx]
  IN  /\ award # None
      /\ award.anchor_idx \in DOMAIN winners[e]
      /\ anchor.recipient = award.recipient /\ anchor.position = p
      /\ ~anchor.paid
      /\ anchor.amount > 0 /\ anchor.amount <= remaining_escrow[e]
      /\ owed_total[e] - anchor.amount >= 0

\* claim_prize, signed by the recipient of the award.
ClaimPrize(e, p, op) ==
  LET award  == prize_award[e][p]
      anchor == winners[e][award.anchor_idx]
  IN  /\ NotPaused /\ IsActive(e) /\ IsSingle(e)
      /\ PrizeDue(e, p)
      /\ Unseen(award.recipient, op)
      /\ winners' = [winners EXCEPT ![e][award.anchor_idx].paid = TRUE]
      /\ unclaimed_prizes' = [unclaimed_prizes EXCEPT
                                ![e] = IF @ > 0 THEN @ - 1 ELSE 0]
      /\ owed_total' = [owed_total EXCEPT ![e] = @ - anchor.amount]
      /\ remaining_escrow' = [remaining_escrow EXCEPT ![e] = @ - anchor.amount]
      /\ status' = [status EXCEPT
           ![e] = IF remaining_escrow'[e] = 0 THEN "Completed" ELSE @]
      /\ MarkSeen(award.recipient, op)
      /\ Release(Token(e), award.recipient, anchor.amount)
      /\ UNCHANGED <<ambientVars, terms, managerVars, prize_award,
                     claim_expiry, grantVars, cf_claimed, contributionVars,
                     cancelVars>>

AwardsNext ==
  \/ \E e \in EventIds, batch \in WinnerBatches, op \in OpIds :
        SelectPrizes(e, batch, op)
  \/ \E e \in EventIds, batch \in WinnerBatches, op \in OpIds :
        SelectGrantees(e, batch, op)
  \/ \E e \in EventIds, p \in Positions, op \in OpIds : ClaimPrize(e, p, op)
=============================================================================
