------------------------- MODULE EventsSafetyProofs -------------------------
(***************************************************************************)
(* The reservation an event carries never exceeds its escrow, and a        *)
(* cancellation record always describes the event it cancels.  Neither is  *)
(* inductive alone: SafetyInv adds that keys of uncreated events are empty, *)
(* that campaigns reserve nothing and that an ended event holds nothing.   *)
(* A step touches one event; the others are the same (SameEvent).          *)
(* The second half is what no call may do: move an event while the         *)
(* contract is paused, hand an event over and leave a proposal standing,   *)
(* rewrite the winners list, reopen an event that ended, or remove an      *)
(* operation marker.                                                       *)
(***************************************************************************)
EXTENDS EventsProperties, EventsTypeProofs

\* Before an event is created its keys are absent.
FreshIsEmpty(e) ==
  ~EventExists(e) => /\ status[e] = "None" /\ cancellation[e] = None
                     /\ remaining_escrow[e] = 0 /\ owed_total[e] = 0

\* A campaign has no awards.
CampaignOwesNothing(e) ==
  EventExists(e) /\ IsCrowdfunding(e) => owed_total[e] = 0

\* An event that has ended holds nothing.
EndedIsEmpty(e) ==
  status[e] \in {"Completed", "Cancelled"} => remaining_escrow[e] = 0

\* The cancellation record, if any, describes the event.
CancellationFits(e) ==
  /\ (cancellation[e] # None) <=> (status[e] = "Cancelling")
  /\ status[e] = "Cancelling" =>
       LET c == cancellation[e]
       IN  /\ c.remaining_at_start = remaining_escrow[e]
           /\ c.non_owner_total = non_owner_total[e]
           /\ c.count_at_start = Len(contributors[e])
           /\ c.next_idx <= c.count_at_start
           /\ c.branch = Branch(c.non_owner_total, c.remaining_at_start)
           /\ owed_total[e] = 0

\* What holds of every event between calls.
EventSafe(e) ==
  /\ FreshIsEmpty(e) /\ CampaignOwesNothing(e) /\ EndedIsEmpty(e)
  /\ CancellationFits(e)
  /\ owed_total[e] <= remaining_escrow[e]

\* The inductive invariant.
SafetyInv == \A e \in EventIds : EventSafe(e)

\* What EventSafe(e) depends on does not change in a step.
SameEvent(e) ==
  /\ (e \in DOMAIN terms') <=> (e \in DOMAIN terms)
  /\ EventExists(e) => terms'[e] = terms[e]
  /\ status'[e] = status[e] /\ remaining_escrow'[e] = remaining_escrow[e]
  /\ owed_total'[e] = owed_total[e] /\ cancellation'[e] = cancellation[e]
  /\ non_owner_total'[e] = non_owner_total[e]
  /\ contributors'[e] = contributors[e]

\* An event none of whose records change stays safe.
LEMMA SameEventSafe ==
  ASSUME NEW e \in EventIds, EventSafe(e), SameEvent(e)
  PROVE  EventSafe(e)'
BY DEF EventSafe, SameEvent, FreshIsEmpty, CampaignOwesNothing, EndedIsEmpty,
       CancellationFits, EventExists, IsCrowdfunding

\* A step that writes no event key keeps every event safe.
LEMMA UntouchedSafe ==
  ASSUME SafetyInv, UNCHANGED eventVars
  PROVE  SafetyInv'
<1>1. \A e \in EventIds : SameEvent(e)
  BY DEF eventVars, SameEvent, contributionVars, cancelVars
<1> QED
  BY <1>1, SameEventSafe DEF SafetyInv

\* One event is touched, the others are not.
LEMMA OneEventSafe ==
  ASSUME SafetyInv, NEW e \in EventIds, EventSafe(e)',
         \A x \in EventIds \ {e} : SameEvent(x)
  PROVE  SafetyInv'
BY SameEventSafe DEF SafetyInv

\* At deployment there is no event to be unsafe.
LEMMA InitSafe == Init => SafetyInv
BY AddressAssumption
DEF Init, SafetyInv, EventSafe, FreshIsEmpty, CampaignOwesNothing, EndedIsEmpty,
    CancellationFits, EventExists

\* create_event opens a fresh event that owes nothing.
LEMMA CreateEventSafe ==
  ASSUME StorageTypes, SafetyInv, NEW params \in EventParams, NEW op \in OpIds,
         CreateEvent(params, op)
  PROVE  SafetyInv'
<1> DEFINE campaign == params.pillar = "Crowdfunding"
<1> USE DEF StorageTypes
<1>0. PICK e \in EventIds : e = Len(terms) + 1
  BY DEF CreateEvent
<1>1. /\ terms' = Append(terms, params)
      /\ status' = [status EXCEPT ![e] = "Active"]
      /\ remaining_escrow' = [remaining_escrow EXCEPT
                                ![e] = IF campaign THEN 0
                                                   ELSE params.total_budget]
      /\ params.total_budget > 0
      /\ UNCHANGED <<owed_total, contributionVars, cancelVars>>
  BY <1>0, Zenon DEF CreateEvent
<1>2. /\ terms \in Seq(EventParams) /\ Len(terms) \in Nat
      /\ DOMAIN terms' = 1 .. e /\ DOMAIN terms = 1 .. e - 1
      /\ \A x \in DOMAIN terms : terms'[x] = terms[x]
      /\ ~EventExists(e)
  BY <1>0, <1>1 DEF RecordTypes, EventExists
<1>3. \A x \in EventIds \ {e} : SameEvent(x)
  <2> SUFFICES ASSUME NEW x \in EventIds \ {e} PROVE SameEvent(x)
    OBVIOUS
  <2>1. (x \in DOMAIN terms') <=> (x \in DOMAIN terms)
    BY <1>1, <1>2 DEF EventIds
  <2> QED
    BY <1>1, <1>2, <2>1
    DEF SameEvent, EventExists, RecordTypes, contributionVars, cancelVars
<1>4. EventSafe(e)'
  <2>1. FreshIsEmpty(e)
    BY <1>1 DEF SafetyInv, EventSafe
  <2>2. params.total_budget \in Nat
    BY <1>1, StorageAssumption DEF CreateEventParams
  <2>3. status'[e] = "Active" /\ owed_total'[e] = 0 /\ cancellation'[e] = None
    BY <1>1, <1>2, <2>1 DEF FreshIsEmpty, RecordTypes, cancelVars
  <2>4. remaining_escrow'[e] \in Nat
    BY <1>1, <2>2 DEF RecordTypes
  <2>5. EventExists(e)'
    BY <1>0, <1>1, <1>2 DEF EventExists
  <2> QED
    BY <2>3, <2>4, <2>5
    DEF EventSafe, FreshIsEmpty, CampaignOwesNothing, EndedIsEmpty,
        CancellationFits
<1> QED
  BY <1>1, <1>3, <1>4, OneEventSafe

\* add_funds only raises the escrow of an active event.
LEMMA AddFundsSafe ==
  ASSUME StorageTypes, SafetyInv, NEW e \in EventIds, NEW from \in Users,
         NEW amount \in Contributions, NEW op \in OpIds,
         AddFunds(e, from, amount, op)
  PROVE  SafetyInv'
<1> USE DEF StorageTypes
<1>1. amount \in Nat /\ IsActive(e)
  BY StorageAssumption DEF AddFunds
<1>2. /\ UNCHANGED <<terms, status, owed_total, cancelVars>>
      /\ remaining_escrow' = [remaining_escrow EXCEPT ![e] = @ + amount]
  BY Zenon DEF AddFunds
<1>3. \A x \in EventIds \ {e} : /\ contributors'[x] = contributors[x]
                                /\ non_owner_total'[x] = non_owner_total[x]
  <2>1. CASE UNCHANGED contributionVars
    BY <2>1 DEF contributionVars
  <2>2. CASE ~(UNCHANGED contributionVars)
    BY <2>2 DEF AddFunds, ContributionTypes
  <2> QED
    BY <2>1, <2>2
<1>4. \A x \in EventIds \ {e} : SameEvent(x)
  BY <1>2, <1>3 DEF SameEvent, RecordTypes, cancelVars
<1>5. EventSafe(e)'
  <2>1. EventSafe(e) /\ status[e] = "Active" /\ EventExists(e)
    BY <1>1 DEF SafetyInv, IsActive
  <2>2. /\ remaining_escrow'[e] = remaining_escrow[e] + amount
        /\ remaining_escrow[e] \in Nat /\ owed_total[e] \in Int
    BY <1>2 DEF RecordTypes, AwardTypes
  <2> QED
    BY <1>1, <1>2, <2>1, <2>2
    DEF EventSafe, FreshIsEmpty, CampaignOwesNothing, EndedIsEmpty,
        CancellationFits, EventExists, IsCrowdfunding, cancelVars
<1> QED
  BY <1>4, <1>5, OneEventSafe

\* The manager rotation touches no money.
LEMMA ManagementSafe ==
  ASSUME SafetyInv, NEW e \in EventIds, UnchangedButManagers
  PROVE  SafetyInv'
<1>1. \A x \in EventIds : SameEvent(x)
  BY DEF UnchangedButManagers, SameEvent, contributionVars, cancelVars
<1> QED
  BY <1>1, SameEventSafe DEF SafetyInv

-----------------------------------------------------------------------------
\* start_cancel drops the reservation and snapshots the event as it stands.
LEMMA StartCancelSafe ==
  ASSUME StorageTypes, SafetyInv, NEW e \in EventIds, NEW op \in OpIds,
         StartCancel(e, op)
  PROVE  SafetyInv'
<1> USE DEF StorageTypes
<1> DEFINE branch == Branch(non_owner_total[e], remaining_escrow[e])
           opened == [non_owner_total |-> non_owner_total[e],
                      remaining_at_start |-> remaining_escrow[e],
                      count_at_start |-> Len(contributors[e]), next_idx |-> 0,
                      branch |-> branch]
<1>1. /\ IsActive(e) /\ cancellation[e] = None
      /\ owed_total' = [owed_total EXCEPT ![e] = 0]
      /\ UNCHANGED <<terms, contributors>>
  BY Zenon DEF StartCancel, UnchangedByCancel
<1>2. \/ /\ status' = [status EXCEPT ![e] = "Cancelled"]
         /\ remaining_escrow' = [remaining_escrow EXCEPT ![e] = 0]
         /\ non_owner_total' = [non_owner_total EXCEPT ![e] = 0]
         /\ UNCHANGED cancellation
      \/ /\ status' = [status EXCEPT ![e] = "Cancelling"]
         /\ cancellation' = [cancellation EXCEPT ![e] = opened]
         /\ branch # "OwnerOnly"
         /\ UNCHANGED <<remaining_escrow, non_owner_total>>
  BY Zenon DEF StartCancel
<1>3. /\ EventExists(e) /\ remaining_escrow[e] \in Nat
      /\ Len(contributors[e]) \in Nat
  BY <1>1 DEF IsActive, RecordTypes, ContributionTypes
<1>6. branch # "OwnerOnly" => opened # None
  <2> SUFFICES ASSUME branch # "OwnerOnly" PROVE opened \in CancellationState
    BY NoneAssumption
  <2>1. non_owner_total[e] \in Nat
    BY DEF ContributionTypes
  <2>2. /\ non_owner_total[e] > 0
        /\ branch \in CancellationBranches \ {"OwnerOnly"}
    BY <1>3, <2>1 DEF Branch, CancellationBranches
  <2> QED
    BY <1>3, <2>1, <2>2 DEF CancellationState
<1>4. \A x \in EventIds \ {e} : SameEvent(x)
  BY <1>1, <1>2 DEF SameEvent, RecordTypes, AwardTypes, ContributionTypes, CancelTypes
<1>5. EventSafe(e)'
  BY <1>1, <1>2, <1>3, <1>6
  DEF EventSafe, FreshIsEmpty, CampaignOwesNothing, EndedIsEmpty,
      CancellationFits, EventExists, IsCrowdfunding, IsActive, RecordTypes,
      AwardTypes, ContributionTypes, CancelTypes
<1> QED
  BY <1>4, <1>5, OneEventSafe

\* A batch of refunds moves the cursor within the registry and leaves the rest
\* of the snapshot alone.
LEMMA ProcessCancelBatchSafe ==
  ASSUME StorageTypes, SafetyInv, NEW e \in EventIds, NEW max \in BatchSizes,
         NEW op \in OpIds, ProcessCancelBatch(e, max, op)
  PROVE  SafetyInv'
<1> USE DEF StorageTypes
<1> DEFINE c == cancellation[e]
<1>1. /\ status[e] = "Cancelling" /\ c # None /\ EventExists(e)
      /\ cancellation' = [cancellation EXCEPT ![e].next_idx = CursorAfter(c, max)]
      /\ UNCHANGED <<terms, status, remaining_escrow, owed_total, contributors,
                     non_owner_total>>
  BY Zenon DEF ProcessCancelBatch, UnchangedByCancel
<1>2. c \in CancellationState /\ max \in Nat
  BY <1>1, StorageAssumption DEF CancelTypes
<1>3. CursorAfter(c, max) <= c.count_at_start
  BY <1>2, CursorTyped, StorageAssumption
  DEF CursorAfter, LessOf, CancellationState
<1>4. \A x \in EventIds \ {e} : SameEvent(x)
  BY <1>1 DEF SameEvent, CancelTypes
<1>5. EventSafe(e)'
  <2>1. /\ cancellation'[e] = [c EXCEPT !.next_idx = CursorAfter(c, max)]
        /\ cancellation'[e] \in CancellationState
    BY <1>1, <1>2, CursorTyped DEF CancelTypes, CancellationState
  <2>2. cancellation'[e] # None
    BY <2>1, NoneAssumption
  <2>3. EventSafe(e)
    BY DEF SafetyInv
  <2> QED
    BY <1>1, <1>2, <1>3, <2>1, <2>2, <2>3
    DEF EventSafe, FreshIsEmpty, CampaignOwesNothing, EndedIsEmpty,
        CancellationFits, EventExists, IsCrowdfunding, CancellationState
<1> QED
  BY <1>4, <1>5, OneEventSafe

\* finalize_cancel clears the record with the status.
LEMMA FinalizeCancelSafe ==
  ASSUME StorageTypes, SafetyInv, NEW e \in EventIds, NEW op \in OpIds,
         FinalizeCancel(e, op)
  PROVE  SafetyInv'
<1> USE DEF StorageTypes
<1>1. /\ status[e] = "Cancelling" /\ EventExists(e)
      /\ status' = [status EXCEPT ![e] = "Cancelled"]
      /\ remaining_escrow' = [remaining_escrow EXCEPT ![e] = 0]
      /\ cancellation' = [cancellation EXCEPT ![e] = None]
      /\ non_owner_total' = [non_owner_total EXCEPT ![e] = 0]
      /\ UNCHANGED <<terms, owed_total, contributors>>
  BY Zenon DEF FinalizeCancel, UnchangedByCancel
<1>2. \A x \in EventIds \ {e} : SameEvent(x)
  BY <1>1 DEF SameEvent, RecordTypes, ContributionTypes, CancelTypes
<1>3. EventSafe(e)'
  <2>1. EventSafe(e)
    BY DEF SafetyInv
  <2> QED
    BY <1>1, <2>1
    DEF EventSafe, FreshIsEmpty, CampaignOwesNothing, EndedIsEmpty,
        CancellationFits, EventExists, IsCrowdfunding, RecordTypes, CancelTypes
<1> QED
  BY <1>2, <1>3, OneEventSafe

\* claim_refund touches only refunds that were set aside.
LEMMA ClaimRefundSafe ==
  ASSUME SafetyInv, NEW e \in EventIds, NEW u \in Users, NEW op \in OpIds,
         ClaimRefund(e, u, op)
  PROVE  SafetyInv'
<1>1. \A x \in EventIds : SameEvent(x)
  BY DEF ClaimRefund, UnchangedByCancel, SameEvent, contributionVars
<1> QED
  BY <1>1, SameEventSafe DEF SafetyInv

-----------------------------------------------------------------------------
\* Every call that reserves or pays on an active event comes down to this: the
\* reservation stays within the escrow, and an emptied event completes.
LEMMA ActiveEventSafe ==
  ASSUME StorageTypes, SafetyInv, NEW e \in EventIds, IsActive(e),
         NEW remaining \in Nat, NEW owed \in Int,
         remaining_escrow' = [remaining_escrow EXCEPT ![e] = remaining],
         owed_total' = [owed_total EXCEPT ![e] = owed],
         status' = [status EXCEPT
                      ![e] = IF remaining = 0 THEN "Completed" ELSE @]
           \/ UNCHANGED status,
         owed <= remaining, IsCrowdfunding(e) => owed = 0,
         UNCHANGED <<terms, contributors, non_owner_total, cancellation>>
  PROVE  SafetyInv'
<1> USE DEF StorageTypes
<1>1. \A x \in EventIds \ {e} : SameEvent(x)
  BY DEF SameEvent, RecordTypes, AwardTypes
<1>2. EventSafe(e)'
  <2>1. EventSafe(e) /\ EventExists(e) /\ status[e] = "Active"
    BY DEF SafetyInv, IsActive
  <2>2. /\ remaining_escrow'[e] = remaining /\ owed_total'[e] = owed
        /\ \/ status'[e] = "Active"
           \/ status'[e] = "Completed" /\ remaining = 0
    BY <2>1 DEF RecordTypes, AwardTypes
  <2> QED
    BY <2>1, <2>2
    DEF EventSafe, FreshIsEmpty, CampaignOwesNothing, EndedIsEmpty,
        CancellationFits, EventExists, IsCrowdfunding
<1> QED
  BY <1>1, <1>2, OneEventSafe

\* select_winners reserves within the escrow (the OverCommitted guard).
LEMMA SelectionSafe ==
  ASSUME StorageTypes, SafetyInv, NEW e \in EventIds,
         NEW batch \in WinnerBatches, NEW op \in OpIds,
         SelectPrizes(e, batch, op) \/ SelectGrantees(e, batch, op)
  PROVE  SafetyInv'
<1>1. /\ IsActive(e) /\ ~IsCrowdfunding(e) /\ InI128(Committed(e, batch))
      /\ Committed(e, batch) <= remaining_escrow[e]
      /\ owed_total' = [owed_total EXCEPT ![e] = Committed(e, batch)]
      /\ UNCHANGED <<terms, status, remaining_escrow, contributionVars, cancelVars>>
  BY Zenon DEF SelectPrizes, SelectGrantees, SelectionAllowed, UnchangedBySelection
<1>2. Committed(e, batch) \in Int
  BY <1>1, CommittedTyped
<1>3. /\ remaining_escrow[e] \in Nat
      /\ remaining_escrow' = [remaining_escrow EXCEPT ![e] = remaining_escrow[e]]
  BY <1>1 DEF StorageTypes, RecordTypes
<1> QED
  BY <1>1, <1>2, <1>3, ActiveEventSafe DEF contributionVars, cancelVars

\* claim_prize lowers the escrow and the reservation by the same prize.
LEMMA ClaimPrizeSafe ==
  ASSUME StorageTypes, SafetyInv, NEW e \in EventIds, NEW p \in Positions,
         NEW op \in OpIds, ClaimPrize(e, p, op)
  PROVE  SafetyInv'
<1> DEFINE anchor == winners[e][prize_award[e][p].anchor_idx]
           remaining == remaining_escrow[e] - anchor.amount
           owed      == owed_total[e] - anchor.amount
<1>1. /\ IsActive(e) /\ IsSingle(e)
      /\ anchor.amount > 0 /\ anchor.amount <= remaining_escrow[e]
      /\ prize_award[e][p].anchor_idx \in DOMAIN winners[e]
      /\ remaining_escrow' = [remaining_escrow EXCEPT ![e] = remaining]
      /\ owed_total' = [owed_total EXCEPT ![e] = owed]
      /\ status' = [status EXCEPT
           ![e] = IF remaining_escrow'[e] = 0 THEN "Completed" ELSE @]
      /\ UNCHANGED <<terms, contributionVars, cancelVars>>
  BY Zenon DEF ClaimPrize, PrizeDue
<1>2. anchor.amount \in Nat
  <2>1. anchor \in Winner
    BY <1>1 DEF StorageTypes, AwardTypes
  <2> QED
    BY <1>1, <2>1 DEF Winner
<1> HIDE DEF anchor
<1>3. remaining_escrow[e] \in Nat /\ owed_total[e] \in Int
  BY DEF StorageTypes, RecordTypes, AwardTypes
<1>4. /\ owed_total[e] <= remaining_escrow[e]
      /\ IsCrowdfunding(e) => owed_total[e] = 0
  <2>1. EventSafe(e) /\ EventExists(e)
    BY <1>1 DEF SafetyInv, IsActive
  <2> QED
    BY <2>1 DEF EventSafe, CampaignOwesNothing
<1>5. remaining \in Nat /\ owed \in Int /\ owed <= remaining
  BY <1>1, <1>2, <1>3, <1>4
<1>6. IsCrowdfunding(e) => owed = 0
  <2>1. owed >= 0
    BY Zenon DEF ClaimPrize, PrizeDue, anchor
  <2> QED
    BY <1>1, <1>2, <1>4, <2>1
<1>7. status' = [status EXCEPT ![e] = IF remaining = 0 THEN "Completed" ELSE @]
  BY <1>1, <1>3 DEF StorageTypes, RecordTypes
<1> HIDE DEF remaining, owed
<1> QED
  BY <1>1, <1>5, <1>6, <1>7, ActiveEventSafe DEF contributionVars, cancelVars

\* claim_milestone on a grant lowers both by the same share.
LEMMA ClaimGrantMilestoneSafe ==
  ASSUME StorageTypes, SafetyInv, NEW e \in EventIds, NEW r \in Users,
         NEW m \in Nat, NEW bump \in ReputationBumps, NEW op \in OpIds,
         ClaimGrantMilestone(e, r, m, bump, op)
  PROVE  SafetyInv'
<1> DEFINE amount == SettlementOf(e, r, m)
           remaining == remaining_escrow[e] - amount
           owed      == owed_total[e] - amount
<1>1. /\ MilestoneOpen(e, r, m, op) /\ Settle(e, r, m)
      /\ IsActive(e) /\ ~IsCrowdfunding(e)
      /\ amount <= remaining_escrow[e]
      /\ remaining_escrow' = [remaining_escrow EXCEPT ![e] = remaining]
      /\ owed_total' = [owed_total EXCEPT ![e] = owed]
      /\ status' = [status EXCEPT
           ![e] = IF remaining_escrow'[e] = 0 THEN "Completed" ELSE @]
      /\ UNCHANGED <<terms, contributionVars, cancelVars>>
  BY Zenon DEF ClaimGrantMilestone, MilestoneOpen, PayMilestone, Settle, ReleaseOwed
<1>2. amount \in Nat \ {0}
  BY <1>1, SettleTyped DEF StorageTypes
<1> HIDE DEF amount
<1>3. /\ remaining_escrow[e] \in Nat /\ owed_total[e] \in Int
      /\ remaining_escrow'[e] = remaining
  BY <1>1 DEF StorageTypes, RecordTypes, AwardTypes
<1>4. owed_total[e] <= remaining_escrow[e]
  BY DEF SafetyInv, EventSafe
<1>5. remaining \in Nat /\ owed \in Int /\ owed <= remaining
  BY <1>1, <1>2, <1>3, <1>4
<1> HIDE DEF remaining, owed
<1> QED
  BY <1>1, <1>3, <1>5, ActiveEventSafe DEF contributionVars, cancelVars

\* claim_milestone on a campaign draws from an escrow nothing is reserved on.
LEMMA ClaimCampaignMilestoneSafe ==
  ASSUME StorageTypes, SafetyInv, NEW e \in EventIds, NEW r \in Users,
         NEW m \in Nat, NEW bump \in ReputationBumps, NEW op \in OpIds,
         ClaimCampaignMilestone(e, r, m, bump, op)
  PROVE  SafetyInv'
<1> DEFINE draw == CampaignDraw(e)
           remaining == remaining_escrow[e] - draw
<1>1. /\ IsActive(e) /\ IsCrowdfunding(e) /\ Milestones(Kind(e)) > cf_claimed[e]
      /\ draw <= remaining_escrow[e]
      /\ remaining_escrow' = [remaining_escrow EXCEPT ![e] = remaining]
      /\ status' = [status EXCEPT
           ![e] = IF remaining_escrow'[e] = 0 THEN "Completed" ELSE @]
      /\ UNCHANGED <<terms, owed_total, contributionVars, cancelVars>>
  BY Zenon DEF ClaimCampaignMilestone, MilestoneOpen, PayMilestone
<1>2. draw \in Int
  BY <1>1, CampaignDrawTyped DEF StorageTypes
<1> HIDE DEF draw
<1>3. remaining_escrow[e] \in Nat /\ remaining_escrow'[e] = remaining
  BY <1>1 DEF StorageTypes, RecordTypes
<1>4. owed_total[e] = 0 /\ owed_total' = [owed_total EXCEPT ![e] = owed_total[e]]
  <2>1. owed_total[e] = 0
    BY <1>1 DEF SafetyInv, EventSafe, CampaignOwesNothing, IsActive
  <2> QED
    BY <1>1, <2>1 DEF StorageTypes, AwardTypes
<1>5. remaining \in Nat /\ owed_total[e] \in Int /\ owed_total[e] <= remaining
  BY <1>1, <1>2, <1>3, <1>4
<1> HIDE DEF remaining
<1> QED
  BY <1>1, <1>3, <1>4, <1>5, ActiveEventSafe DEF contributionVars, cancelVars

\* forfeit_milestone lowers the reservation and keeps the escrow.
LEMMA ForfeitMilestoneSafe ==
  ASSUME StorageTypes, SafetyInv, NEW e \in EventIds, NEW r \in Users,
         NEW m \in Nat, NEW op \in OpIds, ForfeitMilestone(e, r, m, op)
  PROVE  SafetyInv'
<1> DEFINE amount == SettlementOf(e, r, m)
           owed   == owed_total[e] - amount
<1>1. /\ MilestoneOpen(e, r, m, op) /\ Settle(e, r, m)
      /\ IsActive(e) /\ terms[e].pillar = "Grant"
      /\ owed_total' = [owed_total EXCEPT ![e] = owed]
      /\ UNCHANGED <<terms, status, remaining_escrow, contributionVars, cancelVars>>
  BY Zenon DEF ForfeitMilestone, MilestoneOpen, Settle, ReleaseOwed
<1>2. amount \in Nat \ {0}
  BY <1>1, SettleTyped DEF StorageTypes
<1> HIDE DEF amount
<1>3. /\ remaining_escrow[e] \in Nat /\ owed_total[e] \in Int
      /\ remaining_escrow' = [remaining_escrow EXCEPT ![e] = remaining_escrow[e]]
  BY <1>1 DEF StorageTypes, RecordTypes, AwardTypes
<1>4. owed_total[e] <= remaining_escrow[e]
  BY DEF SafetyInv, EventSafe
<1>5. owed \in Int /\ owed <= remaining_escrow[e]
  BY <1>2, <1>3, <1>4
<1>6. ~IsCrowdfunding(e)
  BY <1>1 DEF IsCrowdfunding
<1> HIDE DEF owed
<1> QED
  BY <1>1, <1>3, <1>5, <1>6, ActiveEventSafe DEF contributionVars, cancelVars

-----------------------------------------------------------------------------
\* Every step keeps every event safe.
LEMMA NextSafe ==
  ASSUME StorageTypes, SafetyInv, [Next]_vars
  PROVE  SafetyInv'
<1>1. CASE FundingNext
  <2>1. ASSUME NEW e \in EventIds,
               \/ \E target \in ManagerTargets : ProposeManager(e, target)
               \/ AcceptManager(e)
               \/ CancelPendingManager(e)
               \/ ReclaimManagement(e)
        PROVE  SafetyInv'
    <3>1. UnchangedButManagers
      BY <2>1 DEF ProposeManager, AcceptManager, CancelPendingManager,
                  ReclaimManagement
    <3> QED
      BY <3>1, ManagementSafe
  <2> QED
    BY <1>1, <2>1, CreateEventSafe, AddFundsSafe DEF FundingNext
<1>2. CASE CancellationNext
  BY <1>2, StartCancelSafe, ProcessCancelBatchSafe, FinalizeCancelSafe,
     ClaimRefundSafe DEF CancellationNext
<1>3. CASE AwardsNext
  BY <1>3, SelectionSafe, ClaimPrizeSafe DEF AwardsNext
<1>4. CASE GrantsNext
  BY <1>4, MilestoneInputsTyped, ClaimGrantMilestoneSafe,
     ClaimCampaignMilestoneSafe, ForfeitMilestoneSafe DEF GrantsNext, StorageTypes
<1>5. CASE AdminNext \/ WorldNext \/ UNCHANGED vars
  <2>1. UNCHANGED eventVars
    BY <1>5 DEF AdminNext, Pause, Unpause, SetFeeBps, RegisterToken,
                DeregisterToken, UnchangedByAdmin, WorldNext, Tick, Freeze, Thaw,
                UnchangedByWorld, vars
  <2> QED
    BY <2>1, UntouchedSafe
<1> QED
  BY <1>1, <1>2, <1>3, <1>4, <1>5 DEF Next

\* The strengthened invariant holds in every reachable state.
THEOREM SafetyInvariant == Spec => []SafetyInv
<1>1. Init => SafetyInv
  BY InitSafe
<1>2. StorageTypes /\ SafetyInv /\ [Next]_vars => SafetyInv'
  BY NextSafe
<1> QED
  BY <1>1, <1>2, StorageTyped, PTL DEF Spec

\* For every number of events, winners and grantees, owed_total never exceeds
\* remaining_escrow: what select_winners promises can be paid.
THEOREM ReservationAlwaysBacked == Spec => []ReservationBacked
<1>1. SafetyInv => ReservationBacked
  BY DEF SafetyInv, EventSafe, ReservationBacked
<1> QED
  BY <1>1, SafetyInvariant, PTL

\* A cancellation record exists exactly while its event is Cancelling, and its
\* snapshot still describes the escrow (start_cancel to finalize_cancel).
THEOREM CancellationAlwaysConsistent == Spec => []CancellationConsistent
<1>1. SafetyInv => CancellationConsistent
  BY DEF SafetyInv, EventSafe, CancellationFits, CancellationConsistent
<1> QED
  BY <1>1, SafetyInvariant, PTL

-----------------------------------------------------------------------------
(* What no call may do                                                     *)

\* While the pause holds only the admin and the world move (require_not_paused).
LEMMA ClosedWhilePaused ==
  ASSUME Next, paused
  PROVE  AdminNext \/ WorldNext
<1>1. ~NotPaused
  BY DEF NotPaused
<1>2. ~FundingNext
  <2>1. ASSUME NEW params, NEW op PROVE ~CreateEvent(params, op)
    BY <1>1, Zenon DEF CreateEvent
  <2>2. ASSUME NEW e, NEW from, NEW amount, NEW op
        PROVE  ~AddFunds(e, from, amount, op)
    BY <1>1, Zenon DEF AddFunds
  <2>3. ASSUME NEW e, NEW target
        PROVE  /\ ~ProposeManager(e, target) /\ ~AcceptManager(e)
               /\ ~CancelPendingManager(e) /\ ~ReclaimManagement(e)
    BY <1>1, Zenon DEF ProposeManager, AcceptManager, CancelPendingManager,
                       ReclaimManagement
  <2> QED
    BY <2>1, <2>2, <2>3, Zenon DEF FundingNext
<1>3. ~CancellationNext
  BY <1>1, ZenonT(30) DEF CancellationNext, StartCancel, ProcessCancelBatch,
                          FinalizeCancel, ClaimRefund
<1>4. ~AwardsNext
  <2>1. ~\E e \in EventIds, batch \in WinnerBatches, op \in OpIds, cap \in Nat :
            SelectionAllowed(e, batch, cap, op)
    BY <1>1 DEF SelectionAllowed
  <2>2. ASSUME NEW e \in EventIds, NEW batch \in WinnerBatches, NEW op \in OpIds
        PROVE  ~SelectPrizes(e, batch, op) /\ ~SelectGrantees(e, batch, op)
    BY <2>1, StorageAssumption DEF SelectPrizes, SelectGrantees
  <2>3. ASSUME NEW e \in EventIds, NEW p \in Positions, NEW op \in OpIds
        PROVE  ~ClaimPrize(e, p, op)
    BY <1>1, Zenon DEF ClaimPrize
  <2> QED
    BY <2>2, <2>3 DEF AwardsNext
<1>5. ~GrantsNext
  <2>1. ASSUME NEW e, NEW r, NEW m, NEW op PROVE ~MilestoneOpen(e, r, m, op)
    BY <1>1 DEF MilestoneOpen
  <2>2. ASSUME NEW e, NEW r, NEW m, NEW bump, NEW op
        PROVE  /\ ~ClaimGrantMilestone(e, r, m, bump, op)
               /\ ~ClaimCampaignMilestone(e, r, m, bump, op)
               /\ ~ForfeitMilestone(e, r, m, op)
    BY <2>1, Zenon DEF ClaimGrantMilestone, ClaimCampaignMilestone, ForfeitMilestone
  <2> QED
    BY <2>2 DEF GrantsNext
<1> QED
  BY <1>2, <1>3, <1>4, <1>5 DEF Next

\* The admin's switches and the world write no event and move no token.
LEMMA SwitchesMoveNoEvent ==
  ASSUME AdminNext \/ WorldNext
  PROVE  UNCHANGED <<eventVars, balance>>
BY DEF AdminNext, Pause, Unpause, SetFeeBps, RegisterToken, DeregisterToken,
       UnchangedByAdmin, WorldNext, Tick, Freeze, Thaw, UnchangedByWorld

\* No entry point of an event forgets the pause: while it holds, no event
\* record and no balance changes.
THEOREM PauseAlwaysStopsEverything == Spec => PauseStopsEverything
<1>1. [Next]_vars => [paused => UNCHANGED <<eventVars, balance>>]_vars
  BY ClosedWhilePaused, SwitchesMoveNoEvent
<1> QED
  BY <1>1, PTL DEF Spec, PauseStopsEverything

-----------------------------------------------------------------------------
\* Only accept_manager and reclaim_management change who manages an event.
LEMMA OnlyHandoversChangeManagers ==
  ASSUME Next, NEW e \in EventIds, manager'[e] # manager[e]
  PROVE  \E x \in EventIds : AcceptManager(x) \/ ReclaimManagement(x)
<1>1. manager' # manager
  OBVIOUS
<1>2. ~CancellationNext
  BY <1>1 DEF CancellationNext, StartCancel, ProcessCancelBatch, FinalizeCancel,
              ClaimRefund, UnchangedByCancel, managerVars
<1>3. ~AwardsNext
  BY <1>1, ZenonT(30) DEF AwardsNext, SelectPrizes, SelectGrantees,
                          UnchangedBySelection, ClaimPrize, managerVars
<1>4. ~GrantsNext
  BY <1>1 DEF GrantsNext, ClaimGrantMilestone, ClaimCampaignMilestone,
              ForfeitMilestone, managerVars
<1>5. ~(AdminNext \/ WorldNext)
  BY <1>1, SwitchesMoveNoEvent DEF eventVars, managerVars
<1>6. FundingNext
  BY <1>2, <1>3, <1>4, <1>5 DEF Next
<1>7. ASSUME NEW params, NEW op PROVE ~CreateEvent(params, op)
  BY <1>1, Zenon DEF CreateEvent
<1>8. ASSUME NEW x, NEW from, NEW amount, NEW op PROVE ~AddFunds(x, from, amount, op)
  BY <1>1, Zenon DEF AddFunds, managerVars
<1>9. ASSUME NEW x, NEW target
      PROVE  ~ProposeManager(x, target) /\ ~CancelPendingManager(x)
  BY <1>1, Zenon DEF ProposeManager, CancelPendingManager
<1> QED
  BY <1>6, <1>7, <1>8, <1>9, Zenon DEF FundingNext

\* Whenever an event changes hands no proposal of the former manager is left:
\* both handovers clear the pending entry.
THEOREM HandoverAlwaysLeavesNoProposal == Spec => HandoverLeavesNoProposal
<1> DEFINE Left == \A e \in EventIds :
                     manager'[e] # manager[e] => pending_manager'[e] = None
<1>1. StorageTypes /\ Next => Left
  <2> SUFFICES ASSUME StorageTypes, Next, NEW e \in EventIds,
                      manager'[e] # manager[e]
               PROVE  pending_manager'[e] = None
    OBVIOUS
  <2>1. PICK x \in EventIds : AcceptManager(x) \/ ReclaimManagement(x)
    BY OnlyHandoversChangeManagers
  <2>2. x = e
    BY <2>1 DEF AcceptManager, ReclaimManagement, StorageTypes, ManagerTypes
  <2> QED
    BY <2>1, <2>2 DEF AcceptManager, ReclaimManagement, StorageTypes, ManagerTypes
<1>2. StorageTypes /\ [Next]_vars => [Left]_vars
  BY <1>1
<1> QED
  BY <1>2, StorageTyped, PTL DEF Spec, HandoverLeavesNoProposal

-----------------------------------------------------------------------------
\* Rows are only appended, or marked paid.
RowsKept(e) ==
  /\ Len(winners[e]) <= Len(winners'[e])
  /\ \A i \in DOMAIN winners[e] :
       winners'[e][i] \in {winners[e][i], [winners[e][i] EXCEPT !.paid = TRUE]}

\* Appending to one winners list keeps every row of every list.
LEMMA AppendedRowsKept ==
  ASSUME AwardTypes, NEW e \in EventIds, NEW rows \in Seq(Winner),
         winners' = WithWinners(e, rows)
  PROVE  \A x \in EventIds : RowsKept(x)
<1> SUFFICES ASSUME NEW x \in EventIds PROVE RowsKept(x)
  OBVIOUS
<1>1. winners[x] \in Seq(Winner)
  BY DEF AwardTypes
<1>2. winners'[x] = IF x = e THEN winners[x] \o rows ELSE winners[x]
  BY DEF AwardTypes, WithWinners
<1> QED
  BY <1>1, <1>2 DEF RowsKept

\* claim_prize marks one row paid and keeps the rest.
LEMMA PaidRowKept ==
  ASSUME StorageTypes, NEW e \in EventIds, NEW p \in Positions, NEW op \in OpIds,
         ClaimPrize(e, p, op)
  PROVE  \A x \in EventIds : RowsKept(x)
<1> DEFINE a == prize_award[e][p].anchor_idx
           paid == [winners[e][a] EXCEPT !.paid = TRUE]
<1>1. winners' = [winners EXCEPT ![e][a].paid = TRUE]
  BY Zenon DEF ClaimPrize
<1>2. a \in DOMAIN winners[e]
  BY Zenon DEF ClaimPrize, PrizeDue
<1> SUFFICES ASSUME NEW x \in EventIds PROVE RowsKept(x)
  OBVIOUS
<1>3. winners \in [EventIds -> Seq(Winner)] /\ winners[x] \in Seq(Winner)
  BY DEF StorageTypes, AwardTypes
<1> HIDE DEF a
<1>4. winners' = [winners EXCEPT ![e] = [winners[e] EXCEPT ![a] = paid]]
  BY <1>1, Zenon
<1> HIDE DEF paid
<1>5. CASE x = e
  <2>1. winners'[x] = [winners[x] EXCEPT ![a] = paid]
    BY <1>3, <1>4, <1>5
  <2>2. Len(winners'[x]) = Len(winners[x])
    BY <1>2, <1>3, <1>5, <2>1
  <2>3. \A i \in DOMAIN winners[x] :
          winners'[x][i] = IF i = a THEN paid ELSE winners[x][i]
    BY <1>3, <2>1
  <2>4. paid = [winners[x][a] EXCEPT !.paid = TRUE]
    BY <1>5 DEF paid
  <2> QED
    BY <1>3, <2>2, <2>3, <2>4 DEF RowsKept
<1>6. CASE x # e
  BY <1>3, <1>4, <1>6 DEF RowsKept
<1> QED
  BY <1>5, <1>6

\* A call that leaves the winners alone keeps every row.
LEMMA SameRowsKept ==
  ASSUME AwardTypes, winners' = winners
  PROVE  \A x \in EventIds : RowsKept(x)
BY DEF AwardTypes, RowsKept

\* A milestone payout appends its row and keeps the rest.
LEMMA MilestonePaidRowKept ==
  ASSUME StorageTypes, NEW e \in EventIds, NEW r \in Users,
         NEW position \in Positions, NEW amount \in Int, NEW m \in Nat,
         PayMilestone(e, r, position, amount, m)
  PROVE  \A x \in EventIds : RowsKept(x)
<1>1. <<MilestoneRow(r, position, amount, m)>> \in Seq(Winner)
  BY DEF MilestoneRow, Winner
<1>2. winners' = WithWinners(e, <<MilestoneRow(r, position, amount, m)>>)
  BY Zenon DEF PayMilestone
<1> QED
  BY <1>1, <1>2, AppendedRowsKept DEF StorageTypes

\* create_event writes the anchor row of a campaign and no other.
LEMMA CreatedRowsKept ==
  ASSUME StorageTypes, NEW params \in EventParams, NEW op \in OpIds,
         CreateEvent(params, op)
  PROVE  \A x \in EventIds : RowsKept(x)
<1>1. PICK e \in EventIds : e = Len(terms) + 1
  BY DEF CreateEvent
<1>2. \/ winners' = WithWinners(e, <<CampaignRow(params.owner)>>)
      \/ winners' = winners
  BY <1>1, Zenon DEF CreateEvent
<1>3. <<CampaignRow(params.owner)>> \in Seq(Winner)
  BY StorageAssumption DEF CampaignRow, CreateEventParams, Winner
<1> QED
  BY <1>1, <1>2, <1>3, AppendedRowsKept, SameRowsKept DEF StorageTypes

\* No call removes, reorders or rewrites a winner row.
LEMMA NextKeepsRows ==
  ASSUME StorageTypes, Next
  PROVE  \A x \in EventIds : RowsKept(x)
<1> USE DEF StorageTypes
<1>1. CASE FundingNext
  <2>1. CASE \E params \in EventParams, op \in OpIds : CreateEvent(params, op)
    BY <2>1, CreatedRowsKept
  <2>2. CASE winners' = winners
    BY <2>2, SameRowsKept
  <2> QED
    BY <1>1, <2>1, <2>2
    DEF FundingNext, AddFunds, ProposeManager, AcceptManager,
        CancelPendingManager, ReclaimManagement, UnchangedButManagers
<1>2. CASE CancellationNext
  <2>1. winners' = winners
    BY <1>2, ZenonT(30) DEF CancellationNext, StartCancel, ProcessCancelBatch,
                       FinalizeCancel, ClaimRefund, UnchangedByCancel
  <2> QED
    BY <2>1, SameRowsKept
<1>3. CASE AwardsNext
  <2>1. ASSUME NEW e \in EventIds, NEW batch \in WinnerBatches, NEW op \in OpIds,
               SelectPrizes(e, batch, op) \/ SelectGrantees(e, batch, op)
        PROVE  \A x \in EventIds : RowsKept(x)
    <3>1. winners' = WithWinners(e, AwardRows(batch))
      BY <2>1, Zenon DEF SelectPrizes, SelectGrantees
    <3> QED
      BY <3>1, AwardRowsTyped, AppendedRowsKept
  <2> QED
    BY <1>3, <2>1, PaidRowKept DEF AwardsNext
<1>4. CASE GrantsNext
  <2> SUFFICES ASSUME NEW e \in EventIds, NEW r \in Users, NEW op \in OpIds,
                      NEW m \in MilestoneInputs(e), NEW bump \in ReputationBumps,
                      \/ ClaimGrantMilestone(e, r, m, bump, op)
                      \/ ClaimCampaignMilestone(e, r, m, bump, op)
                      \/ ForfeitMilestone(e, r, m, op)
               PROVE  \A x \in EventIds : RowsKept(x)
    BY <1>4, SameRowsKept DEF GrantsNext, ForfeitMilestone
  <2>1. m \in Nat
    BY MilestoneInputsTyped
  <2>2. CASE ClaimGrantMilestone(e, r, m, bump, op)
    <3>1. /\ MilestoneOpen(e, r, m, op) /\ Settle(e, r, m)
          /\ PayMilestone(e, r, roster[e][r].position, SettlementOf(e, r, m), m)
      BY <2>2, Zenon DEF ClaimGrantMilestone
    <3>2. SettlementOf(e, r, m) \in Int /\ roster[e][r] # None
      BY <2>1, <3>1, SettleTyped
    <3>3. roster[e][r].position \in Positions
      BY <3>2 DEF GrantTypes, GrantAward
    <3> QED
      BY <2>1, <3>1, <3>2, <3>3, MilestonePaidRowKept
  <2>3. CASE ClaimCampaignMilestone(e, r, m, bump, op)
    <3>1. /\ PayMilestone(e, r, 1, CampaignDraw(e), m)
          /\ IsActive(e) /\ Milestones(Kind(e)) > cf_claimed[e]
      BY <2>3, Zenon DEF ClaimCampaignMilestone, MilestoneOpen
    <3>2. CampaignDraw(e) \in Int /\ 1 \in Positions
      BY <3>1, CampaignDrawTyped, StorageAssumption
    <3> QED
      BY <2>1, <3>1, <3>2, MilestonePaidRowKept
  <2>4. CASE ForfeitMilestone(e, r, m, op)
    BY <2>4, SameRowsKept DEF ForfeitMilestone
  <2> QED
    BY <2>2, <2>3, <2>4
<1>5. CASE AdminNext \/ WorldNext
  BY <1>5, SwitchesMoveNoEvent, SameRowsKept DEF eventVars
<1> QED
  BY <1>1, <1>2, <1>3, <1>4, <1>5 DEF Next

\* The winners list is append-only but for the paid flag (append_winner,
\* claim_prize), for lists and batches of every length.
THEOREM WinnerRowsAlwaysKept == Spec => WinnerRowsKept
<1>1. StorageTypes /\ [Next]_vars =>
        [\A e \in EventIds :
           /\ Len(winners[e]) <= Len(winners'[e])
           /\ \A i \in DOMAIN winners[e] :
                winners'[e][i] \in {winners[e][i],
                                    [winners[e][i] EXCEPT !.paid = TRUE]}]_vars
  BY NextKeepsRows DEF RowsKept
<1> QED
  BY <1>1, StorageTyped, PTL DEF Spec, WinnerRowsKept

-----------------------------------------------------------------------------
\* The event has completed or was cancelled.
Ended(e) == EventExists(e) /\ status[e] \in {"Completed", "Cancelled"}

\* It stays that way, and no refund set aside for it grows.
StaysEnded(e) ==
  /\ status'[e] = status[e]
  /\ \A u \in Users : unclaimed_refund'[e][u] <= unclaimed_refund[e][u]

\* A step that changes neither the status nor the refunds of an ended event
\* leaves it ended.
LEMMA SameRefunds ==
  ASSUME StorageTypes, NEW e \in EventIds, status'[e] = status[e],
         unclaimed_refund'[e] = unclaimed_refund[e]
  PROVE  StaysEnded(e)
BY DEF StorageTypes, CancelTypes, StaysEnded

\* No cancellation call reopens an ended event; claim_refund only lowers what
\* it was holding.
LEMMA CancellationLeavesEnded ==
  ASSUME StorageTypes, CancellationNext, NEW e \in EventIds, Ended(e)
  PROVE  StaysEnded(e)
<1> USE DEF Ended
<1>1. ASSUME NEW x \in EventIds, NEW op \in OpIds, StartCancel(x, op)
      PROVE  StaysEnded(e)
  <2>1. /\ IsActive(x) /\ unclaimed_refund' = unclaimed_refund
        /\ \E s \in Statuses : status' = [status EXCEPT ![x] = s]
    BY <1>1, Zenon DEF StartCancel, Statuses
  <2>2. status'[e] = status[e]
    BY <2>1 DEF IsActive
  <2> QED
    BY <2>1, <2>2, SameRefunds
<1>2. ASSUME NEW x \in EventIds, NEW max \in BatchSizes, NEW op \in OpIds,
             ProcessCancelBatch(x, max, op)
      PROVE  StaysEnded(e)
  <2>1. status[x] = "Cancelling" /\ status' = status
    BY <1>2, Zenon DEF ProcessCancelBatch
  <2>2. unclaimed_refund'[e] = unclaimed_refund[e]
    BY <1>2, <2>1 DEF ProcessCancelBatch, StorageTypes, CancelTypes
  <2> QED
    BY <2>1, <2>2, SameRefunds
<1>3. ASSUME NEW x \in EventIds, NEW op \in OpIds, FinalizeCancel(x, op)
      PROVE  StaysEnded(e)
  <2>1. /\ status[x] = "Cancelling" /\ status' = [status EXCEPT ![x] = "Cancelled"]
        /\ unclaimed_refund' = unclaimed_refund
    BY <1>3, Zenon DEF FinalizeCancel
  <2> QED
    BY <2>1, SameRefunds
<1>4. ASSUME NEW x \in EventIds, NEW u \in Users, NEW op \in OpIds,
             ClaimRefund(x, u, op)
      PROVE  StaysEnded(e)
  <2>1. /\ unclaimed_refund[x][u] > 0 /\ status' = status
        /\ unclaimed_refund' = [unclaimed_refund EXCEPT ![x][u] = 0]
    BY <1>4, Zenon DEF ClaimRefund, RefundDue
  <2> QED
    BY <2>1 DEF StaysEnded, StorageTypes, CancelTypes
<1> QED
  BY <1>1, <1>2, <1>3, <1>4 DEF CancellationNext

\* No call reopens an event that completed or was cancelled.
LEMMA NextLeavesEnded ==
  ASSUME StorageTypes, Next, NEW e \in EventIds, Ended(e)
  PROVE  StaysEnded(e)
<1>1. CASE FundingNext
  <2>1. unclaimed_refund' = unclaimed_refund
    <3>1. ASSUME NEW params, NEW op, CreateEvent(params, op) PROVE UNCHANGED cancelVars
      BY <3>1, Zenon DEF CreateEvent
    <3>2. ASSUME NEW x, NEW from, NEW amount, NEW op, AddFunds(x, from, amount, op)
          PROVE  UNCHANGED cancelVars
      BY <3>2, Zenon DEF AddFunds
    <3> QED
      BY <1>1, <3>1, <3>2
      DEF FundingNext, ProposeManager, AcceptManager, CancelPendingManager,
          ReclaimManagement, UnchangedButManagers, cancelVars
  <2>2. ASSUME NEW params \in EventParams, NEW op \in OpIds, CreateEvent(params, op)
        PROVE  status'[e] = status[e]
    <3>1. PICK x \in EventIds : x = Len(terms) + 1
      BY <2>2 DEF CreateEvent
    <3>2. status' = [status EXCEPT ![x] = "Active"] /\ x # e
      BY <2>2, <3>1 DEF CreateEvent, Ended, EventExists, StorageTypes, RecordTypes
    <3> QED
      BY <3>2
  <2>3. status'[e] = status[e]
    BY <1>1, <2>2
    DEF FundingNext, AddFunds, ProposeManager, AcceptManager,
        CancelPendingManager, ReclaimManagement, UnchangedButManagers
  <2> QED
    BY <2>1, <2>3, SameRefunds
<1>2. CASE CancellationNext
  BY <1>2, CancellationLeavesEnded
<1>3. CASE AwardsNext
  <2>1. ASSUME NEW x \in EventIds, NEW batch \in WinnerBatches, NEW op \in OpIds,
               SelectPrizes(x, batch, op) \/ SelectGrantees(x, batch, op)
        PROVE  status' = status /\ unclaimed_refund' = unclaimed_refund
    <3>1. UnchangedBySelection
      BY <2>1, Zenon DEF SelectPrizes, SelectGrantees
    <3> QED
      BY <3>1 DEF UnchangedBySelection, cancelVars
  <2>2. ASSUME NEW x \in EventIds, NEW p \in Positions, NEW op \in OpIds,
               ClaimPrize(x, p, op)
        PROVE  status'[e] = status[e] /\ unclaimed_refund' = unclaimed_refund
    <3>1. /\ IsActive(x)
          /\ status' = [status EXCEPT
                          ![x] = IF remaining_escrow'[x] = 0 THEN "Completed" ELSE @]
          /\ UNCHANGED cancelVars
      BY <2>2, Zenon DEF ClaimPrize
    <3> QED
      BY <3>1 DEF IsActive, Ended, cancelVars
  <2> QED
    BY <1>3, <2>1, <2>2, SameRefunds DEF AwardsNext
<1>4. CASE GrantsNext
  <2>1. ASSUME NEW x \in EventIds, NEW r \in Users, NEW op \in OpIds,
               NEW m \in MilestoneInputs(x), NEW bump \in ReputationBumps,
               \/ ClaimGrantMilestone(x, r, m, bump, op)
               \/ ClaimCampaignMilestone(x, r, m, bump, op)
        PROVE  status'[e] = status[e] /\ unclaimed_refund' = unclaimed_refund
    <3>1. /\ MilestoneOpen(x, r, m, op) /\ UNCHANGED cancelVars
          /\ \E position, amount : PayMilestone(x, r, position, amount, m)
      BY <2>1, Zenon DEF ClaimGrantMilestone, ClaimCampaignMilestone
    <3>2. status' = [status EXCEPT
                       ![x] = IF remaining_escrow'[x] = 0 THEN "Completed" ELSE @]
      BY <3>1, Zenon DEF PayMilestone
    <3>3. IsActive(x)
      BY <3>1, Zenon DEF MilestoneOpen
    <3> QED
      BY <3>1, <3>2, <3>3 DEF IsActive, Ended, cancelVars
  <2>2. ASSUME NEW x \in EventIds, NEW r \in Users, NEW op \in OpIds,
               NEW m \in MilestoneInputs(x), ForfeitMilestone(x, r, m, op)
        PROVE  status' = status /\ unclaimed_refund' = unclaimed_refund
    BY <2>2 DEF ForfeitMilestone, cancelVars
  <2> QED
    BY <1>4, <2>1, <2>2, SameRefunds DEF GrantsNext
<1>5. CASE AdminNext \/ WorldNext
  BY <1>5, SwitchesMoveNoEvent, SameRefunds DEF eventVars, cancelVars
<1> QED
  BY <1>1, <1>2, <1>3, <1>4, <1>5 DEF Next

\* An event that has ended stays ended with an empty escrow, and the refunds
\* set aside for it only go down.
THEOREM EndedAlwaysStaysEnded == Spec => EndedStaysEnded
<1> DEFINE Kept ==
      \A e \in Events : status[e] \in {"Completed", "Cancelled"} =>
        /\ status'[e] = status[e]
        /\ remaining_escrow'[e] = 0
        /\ \A u \in Users : unclaimed_refund'[e][u] <= unclaimed_refund[e][u]
<1>1. StorageTypes /\ SafetyInv' /\ Next => Kept
  BY NextLeavesEnded
  DEF Ended, StaysEnded, Events, SafetyInv, EventSafe, EndedIsEmpty
<1>2. StorageTypes /\ SafetyInv' /\ [Next]_vars => [Kept]_vars
  BY <1>1
<1> QED
  BY <1>2, StorageTyped, SafetyInvariant, PTL DEF Spec, EndedStaysEnded

-----------------------------------------------------------------------------
(* Operation markers                                                       *)

\* Within a day no call removes a marker (mark_seen only adds).
LEMMA MarkersOutliveCalls ==
  ASSUME \/ FundingNext \/ CancellationNext \/ AwardsNext
         \/ GrantsNext \/ AdminNext
  PROVE  now' = now /\ op_seen \subseteq op_seen'
<1>1. CASE FundingNext
  <2>1. ASSUME NEW params, NEW op, CreateEvent(params, op)
        PROVE  UNCHANGED ambientVars /\ MarkSeen(params.owner, op)
    BY <2>1, Zenon DEF CreateEvent
  <2>2. ASSUME NEW e, NEW from, NEW amount, NEW op, AddFunds(e, from, amount, op)
        PROVE  UNCHANGED ambientVars /\ MarkSeen(from, op)
    BY <2>2, Zenon DEF AddFunds
  <2> QED
    BY <1>1, <2>1, <2>2
    DEF FundingNext, ProposeManager, AcceptManager, CancelPendingManager,
        ReclaimManagement, UnchangedButManagers, MarkSeen, ambientVars
<1>2. CASE CancellationNext
  <2>1. ASSUME NEW e, NEW max, NEW u, NEW op,
               \/ StartCancel(e, op)
               \/ ProcessCancelBatch(e, max, op)
               \/ FinalizeCancel(e, op)
               \/ ClaimRefund(e, u, op)
        PROVE  /\ UNCHANGED ambientVars
               /\ \E domain : op_seen' = op_seen \cup {<<domain, op>>}
    BY <2>1, Zenon DEF StartCancel, ProcessCancelBatch, FinalizeCancel,
                       ClaimRefund, UnchangedByCancel, MarkSeen
  <2> QED
    BY <1>2, <2>1 DEF CancellationNext, ambientVars
<1>3. CASE GrantsNext
  <2>1. ASSUME NEW e, NEW r, NEW m, NEW bump, NEW op,
               \/ ClaimGrantMilestone(e, r, m, bump, op)
               \/ ClaimCampaignMilestone(e, r, m, bump, op)
               \/ ForfeitMilestone(e, r, m, op)
        PROVE  /\ UNCHANGED ambientVars
               /\ op_seen' = op_seen \cup {<<Owner(e), op>>}
    BY <2>1, Zenon DEF ClaimGrantMilestone, ClaimCampaignMilestone,
                       ForfeitMilestone, MarkSeen
  <2> QED
    BY <1>3, <2>1 DEF GrantsNext, ambientVars
<1>4. CASE AdminNext
  BY <1>4
  DEF AdminNext, Pause, Unpause, SetFeeBps, RegisterToken, DeregisterToken,
      UnchangedByAdmin
<1>5. CASE AwardsNext
  <2>1. ASSUME NEW e, NEW batch, NEW op,
               SelectPrizes(e, batch, op) \/ SelectGrantees(e, batch, op)
        PROVE  /\ UNCHANGED ambientVars
               /\ op_seen' = op_seen \cup {<<ManagerOf(e), op>>}
    BY <2>1, Zenon DEF SelectPrizes, SelectGrantees, UnchangedBySelection,
                       MarkSeen
  <2>2. ASSUME NEW e, NEW p, NEW op, ClaimPrize(e, p, op)
        PROVE  /\ UNCHANGED ambientVars
               /\ op_seen' = op_seen \cup {<<prize_award[e][p].recipient, op>>}
    BY <2>2, Zenon DEF ClaimPrize, MarkSeen
  <2> QED
    BY <1>5, <2>1, <2>2 DEF AwardsNext, ambientVars
<1> QED
  BY <1>1, <1>2, <1>3, <1>4, <1>5
=============================================================================
