---------------------------- MODULE EventFunding ----------------------------
(***************************************************************************)
(* Creating an event, funding it, and handing its management over          *)
(* (event_ops.rs: create_event, add_funds, the manager rotation).          *)
(***************************************************************************)
EXTENDS EventsStorage

(* create_event                                                            *)

ReleaseKindFits(pillar, kind) ==
  /\ CASE pillar \in {"Hackathon", "Bounty"} -> kind.form = "Single"
       [] pillar = "Grant" -> \/ kind.form = "Multi" /\ kind.n > 0
                              \/ kind.form = "Split"
       [] pillar = "Crowdfunding" -> kind.form = "Multi" /\ kind.n > 0
  /\ kind.form = "Split" => SplitIsValid(kind.shares)

\* The positions given a floor: at least one, each positive, and no more in
\* total than the budget.
Floored(params) == {p \in Positions : params.floors[p] # None}

FloorsFit(params) ==
  /\ Floored(params) # {}
  /\ \A p \in Floored(params) : params.floors[p] > 0
  /\ SumFunctionOnSet(params.floors, Floored(params)) <= params.total_budget

\* The anchor row of a campaign: its owner at position 1, never paid itself.
CampaignRow(owner) ==
  [recipient |-> owner, position |-> 1, amount |-> 0,
   milestone |-> None, paid |-> FALSE]

Proposal(target) ==
  [target |-> target, expires_at |-> now + PendingManagerTtl]

CreateEvent(params, op) ==
  LET e   == Len(terms) + 1
      bps == IF params.fee_override = None THEN fee_bps
                                           ELSE params.fee_override
      campaign == params.pillar = "Crowdfunding"
  IN  /\ NotPaused /\ Unseen(params.owner, op)
      /\ e \in EventIds
      /\ params.token \in supported
      /\ params.total_budget > 0
      /\ FloorsFit(params)
      /\ params.fee_override # None => params.fee_override <= MaxFeeBps
      /\ ReleaseKindFits(params.pillar, params.kind)
      /\ IF campaign
         THEN UNCHANGED balance
         ELSE DepositWithFee(params.token, params.owner,
                             params.total_budget, bps)
      /\ terms' = Append(terms, params)
      /\ status' = [status EXCEPT ![e] = "Active"]
      /\ remaining_escrow' = [remaining_escrow EXCEPT
                                ![e] = IF campaign THEN 0
                                                   ELSE params.total_budget]
      /\ winners' = IF campaign THEN WithWinners(e, <<CampaignRow(params.owner)>>)
                                ELSE winners
      /\ pending_manager' = [pending_manager EXCEPT
                               ![e] = IF params.manager = None THEN @
                                      ELSE Proposal(params.manager)]
      /\ MarkSeen(params.owner, op)
      /\ UNCHANGED <<ambientVars, manager, prizeVars, owed_total, grantVars,
                     cf_claimed, contributionVars, cancelVars>>

-----------------------------------------------------------------------------
(* add_funds                                                               *)

\* append_contributor gives an address one slot for good.
Enrolled(registry, from) ==
  IF from \in Range(registry) THEN registry ELSE Append(registry, from)

\* A slip: the owner's money counts as a contribution.
AnyContributor(e, from) == from \in Users /\ EventExists(e)

\* The owner's own money is not a contribution to be refunded.
IsNonOwner(e, from) == from # Owner(e)

AddFunds(e, from, amount, op) ==
  /\ NotPaused
  /\ amount >= MinContribution
  /\ IsActive(e)
  /\ Unseen(from, op)
  /\ IF IsCrowdfunding(e)
     THEN DepositNoFee(Token(e), from, amount)
     ELSE DepositWithFee(Token(e), from, amount, EffectiveFee(e))
  /\ remaining_escrow' = [remaining_escrow EXCEPT ![e] = @ + amount]
  /\ IF IsNonOwner(e, from)
     THEN /\ contributors' = [contributors EXCEPT
                                ![e] = IF contributed[e][from] = 0
                                       THEN Enrolled(@, from) ELSE @]
          /\ contributed' = [contributed EXCEPT ![e][from] = @ + amount]
          /\ non_owner_total' = [non_owner_total EXCEPT ![e] = @ + amount]
     ELSE UNCHANGED contributionVars
  /\ MarkSeen(from, op)
  /\ UNCHANGED <<ambientVars, terms, status, managerVars, winners, prizeVars,
                 owed_total, grantVars, cf_claimed, cancelVars>>

-----------------------------------------------------------------------------
(* Manager rotation.  These calls carry no operation id.                   *)

UnchangedButManagers ==
  UNCHANGED <<ambientVars, terms, status, remaining_escrow, winners,
              prizeVars, owed_total, grantVars, cf_claimed, contributionVars,
              cancelVars, op_seen, balance>>

\* Signed by the current manager.  A proposal replaces the one before it.
ProposeManager(e, target) ==
  /\ NotPaused /\ EventExists(e)
  /\ pending_manager' = [pending_manager EXCEPT ![e] = Proposal(target)]
  /\ UNCHANGED manager /\ UnchangedButManagers

\* Signed by the target.  An expired proposal is refused; the code also
\* clears it, but the error rolls that write back.
AcceptManager(e) ==
  /\ NotPaused /\ EventExists(e)
  /\ pending_manager[e] # None
  /\ now <= pending_manager[e].expires_at
  /\ manager' = [manager EXCEPT ![e] = pending_manager[e].target]
  /\ pending_manager' = [pending_manager EXCEPT ![e] = None]
  /\ UnchangedButManagers

CancelPendingManager(e) ==
  /\ NotPaused /\ EventExists(e)
  /\ pending_manager[e] # None
  /\ pending_manager' = [pending_manager EXCEPT ![e] = None]
  /\ UNCHANGED manager /\ UnchangedButManagers

\* A slip: the proposal outlives the manager who made it.
ReclaimKeepingProposal(e) ==
  /\ NotPaused /\ IsActive(e)
  /\ IsCrowdfunding(e) \/ winners[e] = << >>
  /\ manager' = [manager EXCEPT ![e] = None]
  /\ UNCHANGED pending_manager /\ UnchangedButManagers

\* Signed by the owner, and only before any award.
ReclaimManagement(e) ==
  /\ NotPaused /\ IsActive(e)
  /\ IsCrowdfunding(e) \/ winners[e] = << >>
  /\ manager' = [manager EXCEPT ![e] = None]
  /\ pending_manager' = [pending_manager EXCEPT ![e] = None]
  /\ UnchangedButManagers

FundingNext ==
  \/ \E params \in EventParams, op \in OpIds : CreateEvent(params, op)
  \/ \E e \in EventIds, from \in Users, amount \in Contributions,
        op \in OpIds : AddFunds(e, from, amount, op)
  \/ \E e \in EventIds, target \in ManagerTargets : ProposeManager(e, target)
  \/ \E e \in EventIds : AcceptManager(e)
  \/ \E e \in EventIds : CancelPendingManager(e)
  \/ \E e \in EventIds : ReclaimManagement(e)
=============================================================================
