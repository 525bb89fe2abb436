--------------------------- MODULE EventsProperties ---------------------------
(***************************************************************************)
(* What makes the events contract correct.  The invariants relate the      *)
(* counters the code keeps (remaining_escrow, owed_total, unclaimed_prizes,*)
(* non_owner_total, progress) to what they are meant to count, and the     *)
(* contract's token balance to what it owes.                               *)
(***************************************************************************)
EXTENDS EventsContract

Events == {e \in EventIds : EventExists(e)}

ContributedTo(e)  == SumFunction(contributed[e])
HeldRefunds(e)    == SumFunction(unclaimed_refund[e])
UnpaidRows(e)     == {i \in DOMAIN winners[e] : ~winners[e][i].paid}
UnpaidAmount(e)   == SumFunction([i \in UnpaidRows(e) |-> winners[e][i].amount])
Grantees(e)       == {u \in Users : roster[e][u] # None}
SettledBy(e, u)   == {m \in 0 .. Milestones(Kind(e)) - 1 :
                        <<u, m>> \in milestone_claimed[e]}

-----------------------------------------------------------------------------
(* Solvency                                                                *)

\* The refunds a running cancellation still has to make, by registry slot.
OutstandingRefunds(e) ==
  LET c == cancellation[e]
  IN  SumFunction([i \in c.next_idx + 1 .. c.count_at_start |->
                     Payout(c, contributed[e][contributors[e][i]])])

\* Everything the contract may yet be asked to pay out for event e.
Liability(e) ==
  HeldRefunds(e) +
  CASE status[e] = "Cancelling" ->
         OutstandingRefunds(e) + OwnerResidual(cancellation[e])
    [] status[e] \in {"Active", "Completed"} -> remaining_escrow[e]
    [] OTHER -> 0

Surplus(t) ==
  balance[t][Contract] -
  SumFunction([e \in {x \in Events : Token(x) = t} |-> Liability(e)])

\* Events that use one token share one balance, so each must be backed
\* whatever the others do: the contract always holds all it owes.  (escrow.rs
\* moves tokens from the one balance; only remaining_escrow and the refund
\* records say whose they are.)
Solvent == \A t \in Tokens : Surplus(t) >= 0

\* What rounding may leave behind: less than one unit per contributor of a
\* cancelled event, and nothing of any other.
RoundingLoss(e) ==
  IF status[e] \in {"Cancelling", "Cancelled"} /\ contributors[e] # << >>
  THEN Len(contributors[e]) - 1 ELSE 0

\* No path strands funds: whatever the contract holds beyond what it owes is
\* the rounding of pro-rata refunds (process_cancel_batch).
NothingStranded ==
  \A t \in Tokens :
    Surplus(t) <= SumFunction([e \in {x \in Events : Token(x) = t} |->
                                 RoundingLoss(e)])

-----------------------------------------------------------------------------
(* Contributions and cancellation                                          *)

\* While an event is active, the running total start_cancel divides by is the
\* sum of the non-owner contributions, and the registry the refund loop walks
\* lists each of those contributors exactly once.
ContributionsTracked ==
  \A e \in Events : status[e] = "Active" =>
    /\ non_owner_total[e] = ContributedTo(e)
    /\ IsInjective(contributors[e])
    /\ Range(contributors[e]) = {u \in Users : contributed[e][u] > 0}
    /\ Owner(e) \notin Range(contributors[e])

\* A cancellation record exists exactly while the event is Cancelling, its
\* snapshot still describes the escrow (nothing else moves a cancelling
\* event's money) and no award is owed any longer.
CancellationConsistent ==
  \A e \in EventIds :
    /\ (cancellation[e] # None) <=> (status[e] = "Cancelling")
    /\ status[e] = "Cancelling" =>
         LET c == cancellation[e]
         IN  /\ c.remaining_at_start = remaining_escrow[e]
             /\ c.non_owner_total = non_owner_total[e]
             /\ c.count_at_start = Len(contributors[e])
             /\ c.next_idx <= c.count_at_start
             /\ c.branch = Branch(c.non_owner_total, c.remaining_at_start)
             /\ owed_total[e] = 0

\* The refund cursor separates the contributors already refunded from those
\* still owed, and a cancelled event has refunded every one of them.
RefundsFollowCursor ==
  \A e \in Events :
    /\ status[e] = "Cancelling" =>
         \A i \in DOMAIN contributors[e] :
           (contributed[e][contributors[e][i]] = 0)
             <=> (i <= cancellation[e].next_idx)
    /\ status[e] = "Cancelled" => ContributedTo(e) = 0

-----------------------------------------------------------------------------
(* Awards                                                                  *)

\* owed_total never promises more than the escrow holds, so every award can
\* be paid when it is claimed.
ReservationBacked ==
  \A e \in EventIds : owed_total[e] <= remaining_escrow[e]

\* owed_total is exactly what the awards of an active event are still owed:
\* the unpaid prizes, or the part of each grant not yet settled.  An event that
\* is no longer active owes nothing.
ReservationExact ==
  \A e \in Events : owed_total[e] =
    CASE status[e] # "Active" -> 0
      [] status[e] = "Active" /\ IsSingle(e) -> UnpaidAmount(e)
      [] status[e] = "Active" /\ terms[e].pillar = "Grant" ->
           SumFunction([u \in Grantees(e) |->
             roster[e][u].amount - progress[e][u].settled_amount])
      [] OTHER -> 0

\* Each unpaid prize of an active event is claimable: its award points at its
\* own row, and the escrow and the reservation cover it.
PrizesClaimable ==
  \A e \in Events : status[e] = "Active" /\ IsSingle(e) =>
    \A i \in UnpaidRows(e) :
      LET row   == winners[e][i]
          award == prize_award[e][row.position]
      IN  /\ award # None
          /\ award.anchor_idx = i /\ award.recipient = row.recipient
          /\ row.amount \in 1 .. remaining_escrow[e]
          /\ row.amount <= owed_total[e]

\* The unclaimed-prize counter that holds a cancel back counts the prizes
\* that were awarded and not paid.
UnclaimedCountExact ==
  \A e \in Events :
    IsSingle(e) => unclaimed_prizes[e] = Cardinality(UnpaidRows(e))

\* Every milestone a grantee has open can be settled: its share is positive
\* and covered, in whichever order the milestones are taken.
MilestonesPayable ==
  \A e \in Events : status[e] = "Active" /\ terms[e].pillar = "Grant" =>
    \A u \in Grantees(e) : \A m \in 0 .. Milestones(Kind(e)) - 1 :
      <<u, m>> \notin milestone_claimed[e] =>
        SettlementOf(e, u, m) \in 1 .. owed_total[e]

\* A grantee is settled for the award, to the unit: never more, all of it once
\* every milestone is settled, and never paid beyond what was settled.
GrantSettledExactly ==
  \A e \in Events : \A u \in Grantees(e) :
    LET p    == progress[e][u]
        rows == {i \in DOMAIN winners[e] :
                   winners[e][i].paid /\ winners[e][i].recipient = u}
    IN  /\ p.settled = Cardinality(SettledBy(e, u))
        /\ p.settled_amount <= roster[e][u].amount
        /\ (p.settled_amount = roster[e][u].amount)
             <=> (p.settled = Milestones(Kind(e)))
        /\ SumFunction([i \in rows |-> winners[e][i].amount])
             <= p.settled_amount

\* A campaign completes with its last milestone and never before it: no
\* earlier draw can empty the escrow, and the last one always does.
CampaignCompletesExactly ==
  \A e \in Events : IsCrowdfunding(e) =>
    /\ cf_claimed[e] = Cardinality(SettledBy(e, Owner(e)))
    /\ (status[e] = "Completed") <=> (cf_claimed[e] = Milestones(Kind(e)))

-----------------------------------------------------------------------------
(* What a step may never do                                                *)

\* Pausing stops every event and every payout: no entry point forgets it.
PauseStopsEverything ==
  [][paused => UNCHANGED <<eventVars, balance>>]_vars

\* The winners list is an append-only record: a row is only ever marked paid,
\* and a paid row never changes.
WinnerRowsKept ==
  [][\A e \in EventIds :
       /\ Len(winners[e]) <= Len(winners'[e])
       /\ \A i \in DOMAIN winners[e] :
            winners'[e][i] \in {winners[e][i],
                                [winners[e][i] EXCEPT !.paid = TRUE]}]_vars

\* Whenever management changes hands, no proposal of the former manager is
\* left for someone to accept.
HandoverLeavesNoProposal ==
  [][\A e \in EventIds :
       manager'[e] # manager[e] => pending_manager'[e] = None]_vars

\* A grant is never closed over a promise: when it leaves Active, every
\* milestone of every grantee has been released or forfeited.
GrantEndsSettled ==
  [][\A e \in Events :
       terms[e].pillar = "Grant" /\ status[e] = "Active"
         /\ status'[e] # "Active" =>
           \A u \in Grantees(e) :
             Cardinality({m \in 0 .. Milestones(Kind(e)) - 1 :
                            <<u, m>> \in milestone_claimed'[e]})
               = Milestones(Kind(e))]_vars

\* A refund batch that spends an operation id moves the cursor: the comment in
\* process_cancel_batch says an empty batch must not spend one.
BatchSpendsIdForWork ==
  [][\A e \in EventIds, op \in OpIds :
       /\ <<Contract, op>> \in op_seen' \ op_seen
       /\ status[e] = "Cancelling" /\ status'[e] = "Cancelling"
       => cancellation'[e].next_idx > cancellation[e].next_idx]_vars

\* An event that has ended stays ended, and from then on the contract pays
\* nothing for it but refunds it had set aside.
EndedStaysEnded ==
  [][\A e \in Events : status[e] \in {"Completed", "Cancelled"} =>
       /\ status'[e] = status[e]
       /\ remaining_escrow'[e] = 0
       /\ \A u \in Users : unclaimed_refund'[e][u] <= unclaimed_refund[e][u]]_vars
=============================================================================
