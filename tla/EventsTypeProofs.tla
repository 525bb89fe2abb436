-------------------------- MODULE EventsTypeProofs --------------------------
(***************************************************************************)
(* Every storage key of the events contract holds a value of its type, for *)
(* every number of users, tokens, events and every input: StorageTypes is  *)
(* inductive.  One lemma per entry point, and under it one step per group of *)
(* keys; a key the call does not write is covered by its UNCHANGED.  The   *)
(* interesting leaves are the subtractions: a payout is taken from an amount *)
(* its guard bounds, so no escrow, refund or contribution goes negative.   *)
(***************************************************************************)
EXTENDS EventsContract, TLAPS

\* Deployment (__constructor) leaves every key at its default.
LEMMA InitTyped == Init => StorageTypes
<1> SUFFICES ASSUME Init PROVE StorageTypes
  OBVIOUS
<1> USE StorageAssumption, AddressAssumption, NoneAssumption
<1>1. InstanceTypes
  BY DEF Init, InstanceTypes
<1>2. RecordTypes
  BY DEF Init, RecordTypes, Statuses
<1>3. ManagerTypes
  BY DEF Init, ManagerTypes
<1>4. AwardTypes
  BY DEF Init, AwardTypes
<1>5. PrizeTypes
  BY DEF Init, PrizeTypes
<1>6. GrantTypes /\ CampaignTypes
  BY DEF Init, GrantTypes, CampaignTypes, GrantProgress
<1>7. ContributionTypes
  BY DEF Init, ContributionTypes
<1>8. CancelTypes /\ OpTypes
  BY DEF Init, CancelTypes, OpTypes
<1> QED
  BY <1>1, <1>2, <1>3, <1>4, <1>5, <1>6, <1>7, <1>8 DEF StorageTypes

-----------------------------------------------------------------------------
\* create_event writes a record, an anchor row and a proposal of their types.
LEMMA CreateEventTyped ==
  ASSUME StorageTypes, NEW params \in EventParams, NEW op \in OpIds,
         CreateEvent(params, op)
  PROVE  StorageTypes'
<1> DEFINE e == Len(terms) + 1
<1> USE DEF StorageTypes
<1>1. /\ params \in CreateEventParams /\ e \in EventIds
      /\ params.total_budget \in Nat
  BY StorageAssumption DEF CreateEvent, CreateEventParams
<1>2. RecordTypes'
  <2>1. terms' = Append(terms, params) /\ Len(terms') = e
    BY DEF CreateEvent, RecordTypes
  <2>2. terms' \in Seq(EventParams) /\ Len(terms') <= MaxEvents
    BY <1>1, <2>1, StorageAssumption DEF RecordTypes, EventIds
  <2>3. status' \in [EventIds -> Statuses]
    BY DEF CreateEvent, RecordTypes, Statuses
  <2>4. remaining_escrow' \in [EventIds -> Nat]
    BY <1>1 DEF CreateEvent, RecordTypes
  <2> QED
    BY <2>2, <2>3, <2>4 DEF RecordTypes
<1>3. ManagerTypes'
  <2>1. params.manager # None => Proposal(params.manager) \in PendingManager
    BY <1>1, StorageAssumption
    DEF Proposal, PendingManager, CreateEventParams, InstanceTypes
  <2> QED
    BY <2>1 DEF CreateEvent, ManagerTypes
<1>4. AwardTypes'
  <2>1. <<CampaignRow(params.owner)>> \in Seq(Winner)
    BY <1>1, StorageAssumption DEF CampaignRow, Winner, CreateEventParams
  <2>2. winners[e] \o <<CampaignRow(params.owner)>> \in Seq(Winner)
    BY <1>1, <2>1 DEF AwardTypes
  <2> QED
    BY <1>1, <2>2 DEF CreateEvent, AwardTypes, WithWinners
<1>5. OpTypes'
  BY <1>1 DEF CreateEvent, OpTypes, MarkSeen, CreateEventParams
<1>6. InstanceTypes'
  BY DEF CreateEvent, InstanceTypes, ambientVars, pauseVars, configVars
<1>7. PrizeTypes' /\ GrantTypes' /\ CampaignTypes'
  BY DEF CreateEvent, PrizeTypes, GrantTypes, CampaignTypes, prizeVars, grantVars
<1>8. ContributionTypes' /\ CancelTypes'
  BY DEF CreateEvent, ContributionTypes, CancelTypes, contributionVars, cancelVars
<1> QED
  BY <1>2, <1>3, <1>4, <1>5, <1>6, <1>7, <1>8

\* add_funds adds a positive amount to the escrow and to the contribution.
LEMMA AddFundsTyped ==
  ASSUME StorageTypes, NEW e \in EventIds, NEW from \in Users,
         NEW amount \in Contributions, NEW op \in OpIds,
         AddFunds(e, from, amount, op)
  PROVE  StorageTypes'
<1> USE DEF StorageTypes
<1>1. amount \in Nat
  BY StorageAssumption DEF AddFunds
<1>2. RecordTypes'
  BY <1>1 DEF AddFunds, RecordTypes
<1>3. ContributionTypes'
  <2>1. CASE UNCHANGED contributionVars
    BY <2>1 DEF ContributionTypes, contributionVars
  <2>2. CASE /\ contributors' = [contributors EXCEPT
                  ![e] = IF contributed[e][from] = 0
                         THEN Enrolled(@, from) ELSE @]
             /\ contributed' = [contributed EXCEPT ![e][from] = @ + amount]
             /\ non_owner_total' = [non_owner_total EXCEPT ![e] = @ + amount]
    <3>1. Enrolled(contributors[e], from) \in Seq(Users)
      BY DEF Enrolled, ContributionTypes
    <3>2. contributed[e][from] + amount \in Nat
      BY <1>1 DEF ContributionTypes
    <3>3. contributors' \in [EventIds -> Seq(Users)]
      BY <2>2, <3>1 DEF ContributionTypes
    <3>4. contributed' \in [EventIds -> [Users -> Nat]]
      BY <2>2, <3>2 DEF ContributionTypes
    <3> QED
      BY <1>1, <2>2, <3>3, <3>4 DEF ContributionTypes
  <2> QED
    BY <2>1, <2>2 DEF AddFunds
<1>4. OpTypes'
  BY DEF AddFunds, OpTypes, MarkSeen
<1>5. InstanceTypes' /\ ManagerTypes'
  BY DEF AddFunds, InstanceTypes, ManagerTypes, ambientVars, pauseVars,
         configVars, managerVars
<1>6. AwardTypes' /\ PrizeTypes' /\ GrantTypes' /\ CampaignTypes'
  BY DEF AddFunds, AwardTypes, PrizeTypes, GrantTypes, CampaignTypes,
         prizeVars, grantVars
<1>7. CancelTypes'
  BY DEF AddFunds, CancelTypes, cancelVars
<1> QED
  BY <1>2, <1>3, <1>4, <1>5, <1>6, <1>7

\* The manager rotation calls write managers and proposals and nothing else.
LEMMA ManagementTyped ==
  ASSUME StorageTypes, NEW e \in EventIds,
         \/ \E target \in ManagerTargets : ProposeManager(e, target)
         \/ AcceptManager(e)
         \/ CancelPendingManager(e)
         \/ ReclaimManagement(e)
  PROVE  StorageTypes'
<1> USE DEF StorageTypes
<1>1. UnchangedButManagers
  BY DEF ProposeManager, AcceptManager, CancelPendingManager, ReclaimManagement
<1>2. ManagerTypes'
  <2>1. ASSUME NEW target \in ManagerTargets, ProposeManager(e, target)
        PROVE  ManagerTypes'
    BY <2>1, StorageAssumption
    DEF ProposeManager, Proposal, PendingManager, ManagerTypes, InstanceTypes
  <2>2. CASE AcceptManager(e)
    BY <2>2 DEF AcceptManager, PendingManager, ManagerTypes
  <2>3. CASE CancelPendingManager(e) \/ ReclaimManagement(e)
    BY <2>3 DEF CancelPendingManager, ReclaimManagement, ManagerTypes
  <2> QED
    BY <2>1, <2>2, <2>3
<1>3. InstanceTypes' /\ RecordTypes' /\ OpTypes'
  BY <1>1 DEF UnchangedButManagers, InstanceTypes, RecordTypes, OpTypes,
              ambientVars, pauseVars, configVars
<1>4. AwardTypes' /\ PrizeTypes' /\ GrantTypes' /\ CampaignTypes'
  BY <1>1 DEF UnchangedButManagers, AwardTypes, PrizeTypes, GrantTypes,
              CampaignTypes, prizeVars, grantVars
<1>5. ContributionTypes' /\ CancelTypes'
  BY <1>1 DEF UnchangedButManagers, ContributionTypes, CancelTypes,
              contributionVars, cancelVars
<1> QED
  BY <1>2, <1>3, <1>4, <1>5

-----------------------------------------------------------------------------
\* compute_payout of a snapshot is a refund of zero or more.
LEMMA PayoutTyped ==
  ASSUME NEW c \in CancellationState, NEW amt \in Nat
  PROVE  Payout(c, amt) \in Nat
<1>1. c.remaining_at_start \in Nat /\ c.non_owner_total \in Nat \ {0}
  BY DEF CancellationState
<1>2. SaturatingMul(amt, c.remaining_at_start) \in Nat
  BY <1>1, MathAssumption DEF SaturatingMul
<1>3. SaturatingMul(amt, c.remaining_at_start) \div c.non_owner_total \in Nat
  BY <1>1, <1>2
<1>4. c.branch \in CancellationBranches
  BY DEF CancellationState
<1> QED
  BY <1>3, <1>4 DEF Payout, CancellationBranches

\* start_cancel either empties the event or opens a cancellation record.
LEMMA StartCancelTyped ==
  ASSUME StorageTypes, NEW e \in EventIds, NEW op \in OpIds, StartCancel(e, op)
  PROVE  StorageTypes'
<1> USE DEF StorageTypes
<1> DEFINE total  == non_owner_total[e]
           branch == Branch(total, remaining_escrow[e])
<1>1. total \in Nat /\ remaining_escrow[e] \in Nat
  BY DEF ContributionTypes, RecordTypes
<1>2. branch # "OwnerOnly" => /\ branch \in CancellationBranches \ {"OwnerOnly"}
                              /\ total \in Nat \ {0}
  BY <1>1 DEF Branch, CancellationBranches
<1>3. Len(contributors[e]) \in Nat
  BY DEF ContributionTypes
<1>4. RecordTypes' /\ ContributionTypes'
  <2>1. CASE branch = "OwnerOnly"
    <3>1. /\ terms' = terms
          /\ status' = [status EXCEPT ![e] = "Cancelled"]
          /\ remaining_escrow' = [remaining_escrow EXCEPT ![e] = 0]
          /\ non_owner_total' = [non_owner_total EXCEPT ![e] = 0]
          /\ contributors' = contributors /\ contributed' = contributed
      BY <2>1, Zenon DEF StartCancel, UnchangedByCancel
    <3> QED
      BY <3>1 DEF RecordTypes, ContributionTypes, Statuses
  <2>2. CASE branch # "OwnerOnly"
    <3>1. RecordTypes'
      BY <2>2 DEF StartCancel, RecordTypes, Statuses, UnchangedByCancel
    <3>2. ContributionTypes'
      BY <2>2 DEF StartCancel, ContributionTypes
    <3> QED
      BY <3>1, <3>2
  <2> QED
    BY <2>1, <2>2
<1>5. AwardTypes'
  BY DEF StartCancel, AwardTypes, UnchangedByCancel
<1>7. CancelTypes'
  <2>1. CASE branch = "OwnerOnly"
    BY <2>1 DEF StartCancel, CancelTypes
  <2>2. CASE branch # "OwnerOnly"
    <3>1. [non_owner_total |-> total, remaining_at_start |-> remaining_escrow[e],
           count_at_start |-> Len(contributors[e]), next_idx |-> 0,
           branch |-> branch] \in CancellationState
      BY <1>1, <1>2, <1>3, <2>2 DEF CancellationState
    <3> HIDE DEF branch, total
    <3> QED
      BY <2>2, <3>1 DEF StartCancel, CancelTypes, total, branch
  <2> QED
    BY <2>1, <2>2
<1>8. OpTypes'
  <2>1. ManagerOf(e) \in Users
    BY StorageAssumption
    DEF StartCancel, ManagerOf, Owner, IsActive, EventExists, ManagerTypes,
        RecordTypes, CreateEventParams
  <2> QED
    BY <2>1 DEF StartCancel, MarkSeen, OpTypes
<1>9. InstanceTypes' /\ ManagerTypes'
  BY DEF StartCancel, UnchangedByCancel, InstanceTypes, ManagerTypes,
         ambientVars, pauseVars, configVars, managerVars
<1>10. PrizeTypes' /\ GrantTypes' /\ CampaignTypes'
  BY DEF StartCancel, UnchangedByCancel, PrizeTypes, GrantTypes, CampaignTypes,
         prizeVars, grantVars
<1> QED
  BY <1>4, <1>5, <1>7, <1>8, <1>9, <1>10

\* A batch of process_cancel_batch leaves the cursor a count.
LEMMA CursorTyped ==
  ASSUME NEW c \in CancellationState, NEW max \in Nat
  PROVE  CursorAfter(c, max) \in Nat
BY StorageAssumption DEF CursorAfter, LessOf, CancellationState

\* process_cancel_batch zeroes contributions and adds refunds to those set aside.
LEMMA ProcessCancelBatchTyped ==
  ASSUME StorageTypes, NEW e \in EventIds, NEW max \in BatchSizes,
         NEW op \in OpIds, ProcessCancelBatch(e, max, op)
  PROVE  StorageTypes'
<1> USE DEF StorageTypes
<1>1. cancellation[e] \in CancellationState /\ max \in Nat
  BY StorageAssumption DEF ProcessCancelBatch, CancelTypes
<1>2. \A u \in Users : contributed[e][u] \in Nat /\ Refund(e, u) \in Nat
  BY <1>1, PayoutTyped DEF Refund, ContributionTypes
<1>3. CancelTypes'
  <2>1. CursorAfter(cancellation[e], max) \in Nat
    BY <1>1, CursorTyped
  <2>2. [cancellation[e] EXCEPT !.next_idx = CursorAfter(cancellation[e], max)]
          \in CancellationState
    BY <1>1, <2>1 DEF CancellationState
  <2>3. cancellation' \in [EventIds -> CancellationState \cup {None}]
    BY <2>2 DEF ProcessCancelBatch, CancelTypes
  <2>4. unclaimed_refund' \in [EventIds -> [Users -> Nat]]
    BY <1>2 DEF ProcessCancelBatch, CancelTypes
  <2> QED
    BY <2>3, <2>4 DEF CancelTypes
<1>4. ContributionTypes'
  BY <1>2 DEF ProcessCancelBatch, ContributionTypes
<1>5. OpTypes'
  BY DEF ProcessCancelBatch, MarkSeen, OpTypes
<1>6. InstanceTypes' /\ ManagerTypes' /\ RecordTypes'
  BY DEF ProcessCancelBatch, UnchangedByCancel, InstanceTypes, ManagerTypes,
         RecordTypes, ambientVars, pauseVars, configVars, managerVars
<1>7. AwardTypes' /\ PrizeTypes' /\ GrantTypes' /\ CampaignTypes'
  BY DEF ProcessCancelBatch, UnchangedByCancel, AwardTypes, PrizeTypes,
         GrantTypes, CampaignTypes, prizeVars, grantVars
<1> QED
  BY <1>3, <1>4, <1>5, <1>6, <1>7

\* finalize_cancel clears the record and the escrow.
LEMMA FinalizeCancelTyped ==
  ASSUME StorageTypes, NEW e \in EventIds, NEW op \in OpIds,
         FinalizeCancel(e, op)
  PROVE  StorageTypes'
<1> USE DEF StorageTypes
<1>1. RecordTypes' /\ ContributionTypes' /\ CancelTypes' /\ OpTypes'
  BY DEF FinalizeCancel, UnchangedByCancel, RecordTypes, Statuses,
         ContributionTypes, CancelTypes, OpTypes, MarkSeen
<1>2. InstanceTypes' /\ ManagerTypes'
  BY DEF FinalizeCancel, UnchangedByCancel, InstanceTypes, ManagerTypes,
         ambientVars, pauseVars, configVars, managerVars
<1>3. AwardTypes' /\ PrizeTypes' /\ GrantTypes' /\ CampaignTypes'
  BY DEF FinalizeCancel, UnchangedByCancel, AwardTypes, PrizeTypes,
         GrantTypes, CampaignTypes, prizeVars, grantVars
<1> QED
  BY <1>1, <1>2, <1>3

\* claim_refund clears the refund it pays.
LEMMA ClaimRefundTyped ==
  ASSUME StorageTypes, NEW e \in EventIds, NEW u \in Users, NEW op \in OpIds,
         ClaimRefund(e, u, op)
  PROVE  StorageTypes'
<1> USE DEF StorageTypes
<1>1. CancelTypes' /\ OpTypes'
  BY DEF ClaimRefund, CancelTypes, OpTypes, MarkSeen
<1>2. InstanceTypes' /\ ManagerTypes' /\ RecordTypes'
  BY DEF ClaimRefund, UnchangedByCancel, InstanceTypes, ManagerTypes,
         RecordTypes, ambientVars, pauseVars, configVars, managerVars
<1>3. AwardTypes' /\ PrizeTypes' /\ GrantTypes' /\ CampaignTypes'
  BY DEF ClaimRefund, UnchangedByCancel, AwardTypes, PrizeTypes,
         GrantTypes, CampaignTypes, prizeVars, grantVars
<1>4. ContributionTypes'
  BY DEF ClaimRefund, ContributionTypes, contributionVars
<1> QED
  BY <1>1, <1>2, <1>3, <1>4

-----------------------------------------------------------------------------
\* The time the contract has been open is a number (contract_open_time).
LEMMA OpenTimeTyped == InstanceTypes => OpenTime \in Int
BY DEF InstanceTypes, OpenTime

\* resolve_manager names an address: the delegate or the owner.
LEMMA ManagerOfTyped ==
  ASSUME RecordTypes, ManagerTypes, NEW e \in EventIds, IsActive(e)
  PROVE  ManagerOf(e) \in Users /\ Owner(e) \in Users
BY StorageAssumption
DEF ManagerOf, Owner, IsActive, EventExists, ManagerTypes, RecordTypes,
    CreateEventParams

\* checked_add keeps what a selection reserves within an i128.
LEMMA CommittedTyped ==
  ASSUME NEW e \in EventIds, NEW batch \in WinnerBatches,
         InI128(Committed(e, batch))
  PROVE  Committed(e, batch) \in Int
BY MathAssumption DEF InI128

\* The rows select_winners appends are winner rows.
LEMMA AwardRowsTyped ==
  ASSUME NEW batch \in WinnerBatches
  PROVE  /\ AwardRows(batch) \in Seq(Winner) /\ Len(AwardRows(batch)) = Len(batch)
         /\ batch \in Seq(WinnerSpec)
<1>1. batch \in Seq(WinnerSpec)
  BY StorageAssumption
<1>2. \A i \in 1 .. Len(batch) : batch[i] \in WinnerSpec
  BY <1>1
<1>3. \A i \in 1 .. Len(batch) :
        [recipient |-> batch[i].recipient, position |-> batch[i].position,
         amount |-> batch[i].amount, milestone |-> None, paid |-> FALSE]
          \in Winner
  BY <1>2 DEF WinnerSpec, Winner
<1> QED
  BY <1>1, <1>3 DEF AwardRows

\* select_winners on a Single event writes rows, awards and counters of their types.
LEMMA SelectPrizesTyped ==
  ASSUME StorageTypes, NEW e \in EventIds, NEW batch \in WinnerBatches,
         NEW op \in OpIds, SelectPrizes(e, batch, op)
  PROVE  StorageTypes'
<1> USE DEF StorageTypes
<1>1. batch \in Seq(WinnerSpec) /\ AwardRows(batch) \in Seq(Winner)
  BY AwardRowsTyped
<1>2. AwardTypes'
  <2>1. Committed(e, batch) \in Int
    BY CommittedTyped DEF SelectPrizes, SelectionAllowed
  <2>2. winners[e] \o AwardRows(batch) \in Seq(Winner)
    BY <1>1 DEF AwardTypes
  <2> QED
    BY <2>1, <2>2 DEF SelectPrizes, WithWinners, AwardTypes
<1>3. PrizeTypes'
  <2>1. ASSUME NEW p \in AwardedPositions(batch),
               NEW i, i = CHOOSE j \in DOMAIN batch : batch[j].position = p
        PROVE  [recipient |-> batch[i].recipient, anchor_idx |-> AnchorIdx(e, i),
                reputation_bump |-> batch[i].reputation_bump] \in PrizeAward
    <3>1. i \in DOMAIN batch
      BY <2>1 DEF AwardedPositions
    <3>2. i \in 1 .. Len(batch) /\ batch[i] \in WinnerSpec
      BY <1>1, <3>1
    <3>3. AnchorIdx(e, i) \in Nat \ {0}
      BY <3>2 DEF AnchorIdx, AwardTypes
    <3> QED
      BY <3>2, <3>3 DEF WinnerSpec, PrizeAward
  <2>2. prize_award' \in [EventIds -> [Positions -> PrizeAward \cup {None}]]
    BY <2>1 DEF SelectPrizes, PrizeTypes
  <2>3. unclaimed_prizes' \in [EventIds -> Nat]
    BY <1>1 DEF SelectPrizes, PrizeTypes
  <2>4. claim_expiry' \in [EventIds -> Int]
    BY OpenTimeTyped, StorageAssumption DEF SelectPrizes, PrizeTypes
  <2> QED
    BY <2>2, <2>3, <2>4 DEF PrizeTypes
<1>4. OpTypes'
  BY ManagerOfTyped DEF SelectPrizes, SelectionAllowed, MarkSeen, OpTypes
<1>5. InstanceTypes' /\ RecordTypes' /\ ManagerTypes'
  BY DEF SelectPrizes, UnchangedBySelection, InstanceTypes, RecordTypes,
         ManagerTypes, ambientVars, pauseVars, configVars, managerVars
<1>6. GrantTypes' /\ CampaignTypes'
  BY DEF SelectPrizes, UnchangedBySelection, GrantTypes, CampaignTypes, grantVars
<1>7. ContributionTypes' /\ CancelTypes'
  BY DEF SelectPrizes, UnchangedBySelection, ContributionTypes, CancelTypes,
         contributionVars, cancelVars
<1> QED
  BY <1>2, <1>3, <1>4, <1>5, <1>6, <1>7

\* select_winners on a grant writes rows and a roster of their types.
LEMMA SelectGranteesTyped ==
  ASSUME StorageTypes, NEW e \in EventIds, NEW batch \in WinnerBatches,
         NEW op \in OpIds, SelectGrantees(e, batch, op)
  PROVE  StorageTypes'
<1> USE DEF StorageTypes
<1>1. batch \in Seq(WinnerSpec) /\ AwardRows(batch) \in Seq(Winner)
  BY AwardRowsTyped
<1>2. AwardTypes'
  <2>1. Committed(e, batch) \in Int
    BY CommittedTyped DEF SelectGrantees, SelectionAllowed
  <2>2. winners[e] \o AwardRows(batch) \in Seq(Winner)
    BY <1>1 DEF AwardTypes
  <2> QED
    BY <2>1, <2>2 DEF SelectGrantees, WithWinners, AwardTypes
<1>3. GrantTypes'
  <2>1. ASSUME NEW u \in AwardedRecipients(batch),
               NEW i, i = CHOOSE j \in DOMAIN batch : batch[j].recipient = u
        PROVE  [position |-> batch[i].position, amount |-> batch[i].amount]
                 \in GrantAward
    <3>1. i \in DOMAIN batch
      BY <2>1 DEF AwardedRecipients
    <3>2. batch[i] \in WinnerSpec
      BY <1>1, <3>1
    <3> QED
      BY <3>2 DEF WinnerSpec, GrantAward
  <2> QED
    BY <2>1 DEF SelectGrantees, GrantTypes
<1>4. OpTypes'
  BY ManagerOfTyped DEF SelectGrantees, SelectionAllowed, MarkSeen, OpTypes
<1>5. InstanceTypes' /\ RecordTypes' /\ ManagerTypes'
  BY DEF SelectGrantees, UnchangedBySelection, InstanceTypes, RecordTypes,
         ManagerTypes, ambientVars, pauseVars, configVars, managerVars
<1>6. PrizeTypes' /\ CampaignTypes'
  BY DEF SelectGrantees, UnchangedBySelection, PrizeTypes, CampaignTypes, prizeVars
<1>7. ContributionTypes' /\ CancelTypes'
  BY DEF SelectGrantees, UnchangedBySelection, ContributionTypes, CancelTypes,
         contributionVars, cancelVars
<1> QED
  BY <1>2, <1>3, <1>4, <1>5, <1>6, <1>7

\* claim_prize takes from the escrow an amount its guard bounds.
LEMMA ClaimPrizeTyped ==
  ASSUME StorageTypes, NEW e \in EventIds, NEW p \in Positions,
         NEW op \in OpIds, ClaimPrize(e, p, op)
  PROVE  StorageTypes'
<1> USE DEF StorageTypes
<1> DEFINE award  == prize_award[e][p]
           anchor == winners[e][award.anchor_idx]
<1>1. award \in PrizeAward /\ award.anchor_idx \in DOMAIN winners[e]
  BY DEF ClaimPrize, PrizeDue, PrizeTypes
<1>2. winners[e] \in Seq(Winner) /\ anchor \in Winner
  BY <1>1 DEF AwardTypes
<1>3. anchor.amount \in Nat /\ anchor.amount <= remaining_escrow[e]
  <2>1. anchor.amount > 0 /\ anchor.amount <= remaining_escrow[e]
    BY Zenon DEF ClaimPrize, PrizeDue
  <2> QED
    BY <1>2, <2>1 DEF Winner
<1>4. RecordTypes'
  <2>1. /\ terms' = terms
        /\ remaining_escrow' = [remaining_escrow EXCEPT ![e] = @ - anchor.amount]
        /\ status' = [status EXCEPT
             ![e] = IF remaining_escrow'[e] = 0 THEN "Completed" ELSE @]
    BY Zenon DEF ClaimPrize
  <2> QED
    BY <1>3, <2>1 DEF RecordTypes, Statuses
<1>5. AwardTypes'
  <2>1. [anchor EXCEPT !.paid = TRUE] \in Winner
    BY <1>2 DEF Winner
  <2>2. [winners[e] EXCEPT ![award.anchor_idx] = [anchor EXCEPT !.paid = TRUE]]
          \in Seq(Winner)
    BY <1>1, <1>2, <2>1
  <2>3. winners' \in [EventIds -> Seq(Winner)]
    BY <2>2 DEF ClaimPrize, AwardTypes
  <2>4. owed_total' \in [EventIds -> Int]
    <3>1. owed_total' = [owed_total EXCEPT ![e] = @ - anchor.amount]
      BY Zenon DEF ClaimPrize
    <3> HIDE DEF anchor
    <3> QED
      BY <1>3, <3>1 DEF AwardTypes
  <2> QED
    BY <2>3, <2>4 DEF AwardTypes
<1>6. PrizeTypes'
  <2>1. /\ unclaimed_prizes' = [unclaimed_prizes EXCEPT
                                  ![e] = IF @ > 0 THEN @ - 1 ELSE 0]
        /\ prize_award' = prize_award /\ claim_expiry' = claim_expiry
    BY Zenon DEF ClaimPrize
  <2> QED
    BY <2>1 DEF PrizeTypes
<1>7. OpTypes'
  <2>1. op_seen' = op_seen \cup {<<award.recipient, op>>}
    BY Zenon DEF ClaimPrize, MarkSeen
  <2> QED
    BY <1>1, <2>1 DEF OpTypes, PrizeAward
<1>8. InstanceTypes' /\ ManagerTypes' /\ GrantTypes' /\ CampaignTypes'
  BY DEF ClaimPrize, InstanceTypes, ManagerTypes, GrantTypes, CampaignTypes,
         ambientVars, pauseVars, configVars, managerVars, grantVars
<1>9. ContributionTypes' /\ CancelTypes'
  BY DEF ClaimPrize, ContributionTypes, CancelTypes, contributionVars, cancelVars
<1> QED
  BY <1>4, <1>5, <1>6, <1>7, <1>8, <1>9

-----------------------------------------------------------------------------
\* A milestone's share of an award is an integer, for Multi and Split kinds.
LEMMA MilestoneShareTyped ==
  ASSUME NEW kind \in ReleaseKinds, NEW award \in Int,
         NEW m \in Nat, m < Milestones(kind)
  PROVE  /\ Milestones(kind) \in Nat
         /\ MilestoneShare(kind, award, m) \in Int
<1>1. CASE kind \in [form : {"Single"}]
  BY <1>1 DEF Milestones
<1>2. CASE kind \in [form : {"Multi"}, n : Nat]
  <2>1. kind.form = "Multi" /\ kind.n \in Nat
    BY <1>2
  <2>2. Milestones(kind) = kind.n
    BY <2>1 DEF Milestones
  <2>3. award \div kind.n \in Int
    BY <2>1, <2>2
  <2> QED
    BY <2>1, <2>2, <2>3 DEF MilestoneShare
<1>3. CASE kind \in [form : {"Split"}, shares : Seq(Nat)]
  <2>1. kind.form = "Split" /\ kind.shares \in Seq(Nat)
    BY <1>3
  <2>2. Milestones(kind) = Len(kind.shares)
    BY <2>1 DEF Milestones
  <2>3. kind.shares[m + 1] \in Nat
    BY <2>1, <2>2
  <2>4. award * kind.shares[m + 1] \in Int
    BY <2>3
  <2>5. (award * kind.shares[m + 1]) \div BpsTotal \in Int
    BY <2>4, MathAssumption
  <2> QED
    BY <2>1, <2>2, <2>5 DEF MilestoneShare
<1> QED
  BY <1>1, <1>2, <1>3 DEF ReleaseKinds

\* What a milestone settles for is an integer (milestone_amount).
LEMMA SettlementTyped ==
  ASSUME RecordTypes, GrantTypes, NEW e \in EventIds, IsActive(e),
         NEW r \in Users, roster[e][r] # None,
         NEW m \in Nat, m < Milestones(Kind(e))
  PROVE  SettlementOf(e, r, m) \in Int
<1>1. Kind(e) \in ReleaseKinds
  BY StorageAssumption
  DEF Kind, IsActive, EventExists, RecordTypes, CreateEventParams
<1>2. roster[e][r].amount \in Int /\ progress[e][r].settled_amount \in Int
  <2>1. roster[e][r] \in GrantAward /\ progress[e][r] \in GrantProgress
    BY DEF GrantTypes
  <2> QED
    BY <2>1 DEF GrantAward, GrantProgress
<1>3. MilestoneShare(Kind(e), roster[e][r].amount, m) \in Int
  BY <1>1, <1>2, MilestoneShareTyped
<1> QED
  BY <1>2, <1>3 DEF SettlementOf, Share

\* Settling a milestone, paid or forfeited, keeps the grant's records typed.
LEMMA SettleTyped ==
  ASSUME RecordTypes, GrantTypes, AwardTypes, NEW e \in EventIds,
         NEW r \in Users, NEW m \in Nat, NEW op \in OpIds,
         MilestoneOpen(e, r, m, op), Settle(e, r, m)
  PROVE  /\ SettlementOf(e, r, m) \in Nat \ {0}
         /\ owed_total' \in [EventIds -> Int]
         /\ owed_total'[e] = owed_total[e] - SettlementOf(e, r, m)
         /\ progress' \in [EventIds -> [Users -> GrantProgress]]
         /\ milestone_claimed' \in [EventIds -> SUBSET (Users \X Nat)]
         /\ roster[e][r] # None
<1> DEFINE amount == SettlementOf(e, r, m)
<1>1. /\ roster[e][r] # None /\ amount > 0
      /\ owed_total' = [owed_total EXCEPT ![e] = @ - amount]
      /\ milestone_claimed' = [milestone_claimed EXCEPT ![e] = @ \cup {<<r, m>>}]
      /\ progress' = [progress EXCEPT ![e][r] =
           [settled |-> @.settled + 1,
            settled_amount |-> @.settled_amount + amount]]
  BY Zenon DEF Settle, ReleaseOwed
<1>2. amount \in Int
  BY <1>1, SettlementTyped DEF MilestoneOpen
<1>3. amount \in Nat \ {0}
  BY <1>1, <1>2
<1> HIDE DEF amount
<1>4. [settled |-> progress[e][r].settled + 1,
       settled_amount |-> progress[e][r].settled_amount + amount] \in GrantProgress
  BY <1>3 DEF GrantTypes, GrantProgress
<1>5. owed_total' \in [EventIds -> Int] /\ owed_total'[e] = owed_total[e] - amount
  BY <1>1, <1>3 DEF AwardTypes
<1>6. progress' \in [EventIds -> [Users -> GrantProgress]]
  BY <1>1, <1>4 DEF GrantTypes
<1>7. milestone_claimed' \in [EventIds -> SUBSET (Users \X Nat)]
  BY <1>1 DEF GrantTypes
<1> QED
  BY <1>1, <1>3, <1>5, <1>6, <1>7 DEF amount

\* Every milestone payout takes from the escrow no more than it holds.
LEMMA PayMilestoneTyped ==
  ASSUME RecordTypes, AwardTypes, NEW e \in EventIds, NEW r \in Users,
         NEW position \in Positions, NEW amount \in Int, NEW m \in Nat,
         PayMilestone(e, r, position, amount, m)
  PROVE  /\ remaining_escrow' \in [EventIds -> Nat]
         /\ remaining_escrow'[e] = remaining_escrow[e] - amount
         /\ status' \in [EventIds -> Statuses]
         /\ winners' \in [EventIds -> Seq(Winner)]
<1>1. /\ amount > 0 /\ amount <= remaining_escrow[e]
      /\ remaining_escrow' = [remaining_escrow EXCEPT ![e] = @ - amount]
      /\ winners' = [winners EXCEPT ![e] =
                       @ \o <<MilestoneRow(r, position, amount, m)>>]
      /\ status' = [status EXCEPT
                      ![e] = IF remaining_escrow'[e] = 0 THEN "Completed" ELSE @]
  BY Zenon DEF PayMilestone, WithWinners
<1>2. MilestoneRow(r, position, amount, m) \in Winner
  BY DEF MilestoneRow, Winner
<1>3. winners[e] \o <<MilestoneRow(r, position, amount, m)>> \in Seq(Winner)
  BY <1>2 DEF AwardTypes
<1>4. winners' \in [EventIds -> Seq(Winner)]
  BY <1>1, <1>3 DEF AwardTypes
<1>5. /\ remaining_escrow' \in [EventIds -> Nat]
      /\ remaining_escrow'[e] = remaining_escrow[e] - amount
  BY <1>1 DEF RecordTypes
<1>6. status' \in [EventIds -> Statuses]
  BY <1>1 DEF RecordTypes, Statuses
<1> QED
  BY <1>4, <1>5, <1>6

\* A milestone call marks its operation id under the owner's address.
LEMMA OwnerSignsTyped ==
  ASSUME RecordTypes, OpTypes, NEW e \in EventIds, IsActive(e), NEW op \in OpIds,
         MarkSeen(Owner(e), op)
  PROVE  OpTypes'
BY StorageAssumption
DEF Owner, IsActive, EventExists, RecordTypes, CreateEventParams, OpTypes, MarkSeen

\* claim_milestone on a grant keeps every key typed.
LEMMA ClaimGrantMilestoneTyped ==
  ASSUME StorageTypes, NEW e \in EventIds, NEW r \in Users, NEW m \in Nat,
         NEW bump \in ReputationBumps, NEW op \in OpIds,
         ClaimGrantMilestone(e, r, m, bump, op)
  PROVE  StorageTypes'
<1> USE DEF StorageTypes
<1> DEFINE amount == SettlementOf(e, r, m)
<1>1. /\ MilestoneOpen(e, r, m, op) /\ Settle(e, r, m) /\ IsActive(e)
      /\ PayMilestone(e, r, roster[e][r].position, amount, m)
      /\ MarkSeen(Owner(e), op)
  BY Zenon DEF ClaimGrantMilestone, MilestoneOpen
<1>2. /\ amount \in Nat \ {0} /\ roster[e][r] # None
      /\ owed_total' \in [EventIds -> Int]
      /\ progress' \in [EventIds -> [Users -> GrantProgress]]
      /\ milestone_claimed' \in [EventIds -> SUBSET (Users \X Nat)]
  BY <1>1, SettleTyped
<1>3. roster[e][r].position \in Positions
  BY <1>2 DEF GrantTypes, GrantAward
<1>4. /\ remaining_escrow' \in [EventIds -> Nat]
      /\ status' \in [EventIds -> Statuses]
      /\ winners' \in [EventIds -> Seq(Winner)]
  <2> HIDE DEF amount
  <2> QED
    BY <1>1, <1>2, <1>3, PayMilestoneTyped
<1>5. UNCHANGED <<ambientVars, terms, managerVars, prizeVars, roster,
                  cf_claimed, contributionVars, cancelVars>>
  BY Zenon DEF ClaimGrantMilestone
<1>6. RecordTypes' /\ AwardTypes' /\ GrantTypes'
  BY <1>2, <1>4, <1>5 DEF RecordTypes, AwardTypes, GrantTypes
<1>7. OpTypes'
  BY <1>1, OwnerSignsTyped
<1>8. InstanceTypes' /\ ManagerTypes' /\ PrizeTypes' /\ CampaignTypes'
  BY <1>5 DEF InstanceTypes, ManagerTypes, PrizeTypes, CampaignTypes,
              ambientVars, pauseVars, configVars, managerVars, prizeVars
<1>9. ContributionTypes' /\ CancelTypes'
  BY <1>5 DEF ContributionTypes, CancelTypes, contributionVars, cancelVars
<1> QED
  BY <1>6, <1>7, <1>8, <1>9

\* The equal part a campaign draws is an integer: a milestone is left to divide by.
LEMMA CampaignDrawTyped ==
  ASSUME RecordTypes, CampaignTypes, NEW e \in EventIds, IsActive(e),
         Milestones(Kind(e)) > cf_claimed[e]
  PROVE  CampaignDraw(e) \in Int
<1>1. Kind(e) \in ReleaseKinds
  BY StorageAssumption
  DEF Kind, IsActive, EventExists, RecordTypes, CreateEventParams
<1>2. Milestones(Kind(e)) \in Nat
  BY <1>1 DEF ReleaseKinds, Milestones
<1>3. /\ Milestones(Kind(e)) - cf_claimed[e] \in Nat \ {0}
      /\ remaining_escrow[e] \in Nat
  BY <1>2 DEF CampaignTypes, RecordTypes
<1> QED
  BY <1>3 DEF CampaignDraw

\* claim_milestone on a campaign keeps every key typed.
LEMMA ClaimCampaignMilestoneTyped ==
  ASSUME StorageTypes, NEW e \in EventIds, NEW r \in Users, NEW m \in Nat,
         NEW bump \in ReputationBumps, NEW op \in OpIds,
         ClaimCampaignMilestone(e, r, m, bump, op)
  PROVE  StorageTypes'
<1> USE DEF StorageTypes
<1>1. /\ IsActive(e) /\ Milestones(Kind(e)) > cf_claimed[e]
      /\ PayMilestone(e, r, 1, CampaignDraw(e), m)
      /\ MarkSeen(Owner(e), op)
      /\ milestone_claimed' = [milestone_claimed EXCEPT ![e] = @ \cup {<<r, m>>}]
      /\ cf_claimed' = [cf_claimed EXCEPT ![e] = @ + 1]
  BY Zenon DEF ClaimCampaignMilestone, MilestoneOpen
<1>2. /\ remaining_escrow' \in [EventIds -> Nat]
      /\ status' \in [EventIds -> Statuses]
      /\ winners' \in [EventIds -> Seq(Winner)]
  BY <1>1, CampaignDrawTyped, PayMilestoneTyped, StorageAssumption
<1>3. UNCHANGED <<ambientVars, terms, managerVars, prizeVars, owed_total,
                  roster, progress, contributionVars, cancelVars>>
  BY Zenon DEF ClaimCampaignMilestone
<1>4. RecordTypes' /\ AwardTypes' /\ CampaignTypes'
  <2>1. cf_claimed' \in [EventIds -> Nat]
    BY <1>1 DEF CampaignTypes
  <2> QED
    BY <1>2, <1>3, <2>1 DEF RecordTypes, AwardTypes, CampaignTypes
<1>5. GrantTypes'
  BY <1>1, <1>3 DEF GrantTypes
<1>6. OpTypes'
  BY <1>1, OwnerSignsTyped
<1>7. InstanceTypes' /\ ManagerTypes' /\ PrizeTypes'
  BY <1>3 DEF InstanceTypes, ManagerTypes, PrizeTypes,
              ambientVars, pauseVars, configVars, managerVars, prizeVars
<1>8. ContributionTypes' /\ CancelTypes'
  BY <1>3 DEF ContributionTypes, CancelTypes, contributionVars, cancelVars
<1> QED
  BY <1>4, <1>5, <1>6, <1>7, <1>8

\* forfeit_milestone keeps every key typed.
LEMMA ForfeitMilestoneTyped ==
  ASSUME StorageTypes, NEW e \in EventIds, NEW r \in Users, NEW m \in Nat,
         NEW op \in OpIds, ForfeitMilestone(e, r, m, op)
  PROVE  StorageTypes'
<1> USE DEF StorageTypes
<1>1. /\ MilestoneOpen(e, r, m, op) /\ Settle(e, r, m) /\ IsActive(e)
      /\ MarkSeen(Owner(e), op)
  BY Zenon DEF ForfeitMilestone, MilestoneOpen
<1>2. UNCHANGED <<ambientVars, terms, status, remaining_escrow, managerVars,
                  winners, prizeVars, roster, cf_claimed, contributionVars,
                  cancelVars, balance>>
  BY Zenon DEF ForfeitMilestone
<1>3. GrantTypes' /\ AwardTypes'
  BY <1>1, <1>2, SettleTyped DEF GrantTypes, AwardTypes
<1>4. OpTypes'
  BY <1>1, OwnerSignsTyped
<1>5. InstanceTypes' /\ RecordTypes' /\ ManagerTypes' /\ PrizeTypes' /\ CampaignTypes'
  BY <1>2 DEF InstanceTypes, RecordTypes, ManagerTypes, PrizeTypes, CampaignTypes,
              ambientVars, pauseVars, configVars, managerVars, prizeVars
<1>6. ContributionTypes' /\ CancelTypes'
  BY <1>2 DEF ContributionTypes, CancelTypes, contributionVars, cancelVars
<1> QED
  BY <1>3, <1>4, <1>5, <1>6

-----------------------------------------------------------------------------
\* A call that writes no event key keeps the event keys typed.
LEMMA EventsUnchangedTyped ==
  ASSUME StorageTypes, UNCHANGED eventVars, InstanceTypes', OpTypes'
  PROVE  StorageTypes'
<1> USE DEF StorageTypes, eventVars
<1>1. RecordTypes' /\ ManagerTypes' /\ AwardTypes' /\ PrizeTypes'
  BY DEF RecordTypes, ManagerTypes, AwardTypes, PrizeTypes, managerVars, prizeVars
<1>2. GrantTypes' /\ CampaignTypes'
  BY DEF GrantTypes, CampaignTypes, grantVars
<1>3. ContributionTypes' /\ CancelTypes'
  BY DEF ContributionTypes, CancelTypes, contributionVars, cancelVars
<1> QED
  BY <1>1, <1>2, <1>3

\* Pausing, the fee and the token list keep every key typed; paused_at is never in
\* the future, so the paused time only grows.
LEMMA AdminTyped ==
  ASSUME StorageTypes, AdminNext
  PROVE  StorageTypes'
<1>1. /\ UNCHANGED <<now, refusing>> /\ UNCHANGED eventVars /\ UNCHANGED op_seen
  BY DEF AdminNext, Pause, Unpause, SetFeeBps, RegisterToken, DeregisterToken,
         UnchangedByAdmin
<1>2. OpTypes'
  BY <1>1 DEF OpTypes, StorageTypes
<1>3. InstanceTypes'
  <2> USE <1>1 DEF StorageTypes, InstanceTypes, pauseVars, configVars
  <2>1. CASE Pause
    BY <2>1 DEF Pause
  <2>2. CASE Unpause
    <3>1. /\ paused' = FALSE /\ paused_at' = None /\ UNCHANGED configVars
          /\ paused_seconds' = IF paused_at = None THEN paused_seconds
                               ELSE paused_seconds + (now - paused_at)
      BY <2>2 DEF Unpause
    <3>2. paused_seconds' \in Nat
      BY <3>1
    <3> QED
      BY <3>1, <3>2
  <2>3. ASSUME NEW bps \in FeeSettings, SetFeeBps(bps)
        PROVE  InstanceTypes'
    BY <2>3, StorageAssumption DEF SetFeeBps
  <2>4. ASSUME NEW t \in ManagedTokens, RegisterToken(t) \/ DeregisterToken(t)
        PROVE  InstanceTypes'
    BY <2>4, StorageAssumption DEF RegisterToken, DeregisterToken
  <2> QED
    BY <2>1, <2>2, <2>3, <2>4 DEF AdminNext
<1> QED
  BY <1>1, <1>2, <1>3, EventsUnchangedTyped

\* Days passing and trustlines coming and going keep every key typed.
LEMMA WorldTyped ==
  ASSUME StorageTypes, WorldNext
  PROVE  StorageTypes'
<1>1. UNCHANGED <<pauseVars, configVars>> /\ UNCHANGED eventVars
  BY DEF WorldNext, Tick, Freeze, Thaw, UnchangedByWorld
<1>2. OpTypes'
  BY DEF WorldNext, Tick, Freeze, Thaw, OpTypes, StorageTypes
<1>3. InstanceTypes'
  <2> USE <1>1 DEF StorageTypes, InstanceTypes, pauseVars, configVars
  <2>1. CASE Tick
    <3>1. now' \in Nat /\ now <= now'
      BY <2>1 DEF Tick
    <3>2. paused_at' \in (0 .. now') \cup {None}
      BY <3>1
    <3>3. refusing' = refusing
      BY <2>1 DEF Tick
    <3> QED
      BY <3>1, <3>2, <3>3
  <2>2. ASSUME NEW h \in Freezable, Freeze(h) \/ Thaw(h)
        PROVE  InstanceTypes'
    BY <2>2, StorageAssumption DEF Freeze, Thaw
  <2> QED
    BY <2>1, <2>2 DEF WorldNext
<1> QED
  BY <1>1, <1>2, <1>3, EventsUnchangedTyped

\* Nothing happening keeps every key typed.
LEMMA StutterTyped == ASSUME StorageTypes, UNCHANGED vars PROVE StorageTypes'
<1>1. UNCHANGED eventVars /\ UNCHANGED op_seen /\ UNCHANGED ambientVars
  BY DEF vars
<1>2. InstanceTypes' /\ OpTypes'
  BY <1>1 DEF StorageTypes, InstanceTypes, OpTypes, ambientVars, pauseVars, configVars
<1> QED
  BY <1>1, <1>2, EventsUnchangedTyped

\* Milestone indices are naturals.
LEMMA MilestoneInputsTyped ==
  ASSUME RecordTypes, NEW e \in EventIds, NEW m \in MilestoneInputs(e)
  PROVE  m \in Nat
BY DEF MilestoneInputs

\* In every reachable state each storage key holds a value of its type, and no
\* escrow, contribution, refund or counter is negative (storage.rs).
THEOREM StorageTyped == Spec => []StorageTypes
<1>1. Init => StorageTypes
  BY InitTyped
<1>2. StorageTypes /\ [Next]_vars => StorageTypes'
  <2> SUFFICES ASSUME StorageTypes, [Next]_vars PROVE StorageTypes'
    OBVIOUS
  <2>1. CASE FundingNext
    BY <2>1, CreateEventTyped, AddFundsTyped, ManagementTyped DEF FundingNext
  <2>2. CASE CancellationNext
    BY <2>2, StartCancelTyped, ProcessCancelBatchTyped, FinalizeCancelTyped,
       ClaimRefundTyped DEF CancellationNext
  <2>3. CASE AwardsNext
    BY <2>3, SelectPrizesTyped, SelectGranteesTyped, ClaimPrizeTyped DEF AwardsNext
  <2>4. CASE GrantsNext
    BY <2>4, MilestoneInputsTyped, ClaimGrantMilestoneTyped,
       ClaimCampaignMilestoneTyped, ForfeitMilestoneTyped
    DEF GrantsNext, StorageTypes
  <2>5. CASE AdminNext
    BY <2>5, AdminTyped
  <2>6. CASE WorldNext
    BY <2>6, WorldTyped
  <2>7. CASE UNCHANGED vars
    BY <2>7, StutterTyped
  <2> QED
    BY <2>1, <2>2, <2>3, <2>4, <2>5, <2>6, <2>7 DEF Next
<1> QED
  BY <1>1, <1>2, PTL DEF Spec
=============================================================================
