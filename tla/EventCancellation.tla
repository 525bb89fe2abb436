------------------------- MODULE EventCancellation -------------------------
(***************************************************************************)
(* Cancelling an event (event_ops.rs: start_cancel, process_cancel_batch,  *)
(* finalize_cancel, claim_refund).  The manager starts; from there anyone  *)
(* cranks the refunds in batches and closes the event.                     *)
(***************************************************************************)
EXTENDS EventsStorage

UnchangedByCancel ==
  UNCHANGED <<ambientVars, terms, managerVars, winners, prizeVars, grantVars,
              cf_claimed>>

\* Slips: a grant that still owes does not block; a prize blocks for ever.
PrizesBlockCancel(e) ==
  IsSingle(e) /\ unclaimed_prizes[e] > 0 /\ OpenTime <= claim_expiry[e]

UnclaimedBlocksCancel(e) ==
  \/ IsSingle(e) /\ unclaimed_prizes[e] > 0
  \/ terms[e].pillar = "Grant" /\ owed_total[e] > 0

\* Awards that can still be claimed, or a grant still owing, block a cancel.
AwardsBlockCancel(e) ==
  \/ /\ IsSingle(e) /\ unclaimed_prizes[e] > 0
     /\ OpenTime <= claim_expiry[e]
  \/ terms[e].pillar = "Grant" /\ owed_total[e] > 0

StartCancel(e, op) ==
  LET total     == non_owner_total[e]
      remaining == remaining_escrow[e]
      branch    == Branch(total, remaining)
  IN  /\ NotPaused /\ IsActive(e)
      /\ cancellation[e] = None
      /\ ~AwardsBlockCancel(e)
      /\ Unseen(ManagerOf(e), op)
      /\ owed_total' = [owed_total EXCEPT ![e] = 0]
      /\ \/ /\ branch = "OwnerOnly"
            /\ IF remaining > 0
               THEN Release(Token(e), Owner(e), remaining)
               ELSE UNCHANGED balance
            /\ remaining_escrow' = [remaining_escrow EXCEPT ![e] = 0]
            /\ status' = [status EXCEPT ![e] = "Cancelled"]
            /\ non_owner_total' = [non_owner_total EXCEPT ![e] = 0]
            /\ UNCHANGED cancellation
         \/ /\ branch # "OwnerOnly"
            /\ cancellation' = [cancellation EXCEPT ![e] =
                 [non_owner_total |-> total, remaining_at_start |-> remaining,
                  count_at_start |-> Len(contributors[e]), next_idx |-> 0,
                  branch |-> branch]]
            /\ status' = [status EXCEPT ![e] = "Cancelling"]
            /\ UNCHANGED <<balance, remaining_escrow, non_owner_total>>
      /\ MarkSeen(ManagerOf(e), op)
      /\ UnchangedByCancel
      /\ UNCHANGED <<contributors, contributed, unclaimed_refund>>

-----------------------------------------------------------------------------
(* process_cancel_batch                                                    *)

LessOf(a, b) == IF a < b THEN a ELSE b

\* A slip: every batch starts over.
CursorFromStart(c, max) ==
  LessOf(c.count_at_start, LessOf(max, MaxRefundsPerBatch))

\* Where the cursor stands after a batch of at most `max` refunds, and the
\* contributors it passes.
CursorAfter(c, max) ==
  LessOf(c.count_at_start, c.next_idx + LessOf(max, MaxRefundsPerBatch))

\* A slip: the batch skips the contributor under the cursor.
BatchSkippingOne(e, max) ==
  LET c == cancellation[e]
  IN  {contributors[e][i] : i \in c.next_idx + 2 .. CursorAfter(c, max)}

Batch(e, max) ==
  LET c == cancellation[e]
  IN  {contributors[e][i] : i \in c.next_idx + 1 .. CursorAfter(c, max)}

Refund(e, u) == Payout(cancellation[e], contributed[e][u])

\* Signed by no one, so its marker is kept under the contract's address.
\* The loop visits each contributor once and zeroes the contribution it
\* refunds: a refund the account refuses is set aside for claim_refund, and
\* a share that rounds to nothing moves no tokens.
ProcessCancelBatch(e, max, op) ==
  LET c     == cancellation[e]
      batch == {u \in Batch(e, max) : contributed[e][u] > 0}
      paid  == batch \ refusing
      spent == SumFunction([u \in paid |-> Refund(e, u)])
      t     == Token(e)
  IN  /\ NotPaused
      /\ max # 0
      /\ Unseen(Contract, op)
      /\ EventExists(e) /\ status[e] = "Cancelling"
      /\ c # None
      /\ cancellation' = [cancellation EXCEPT ![e].next_idx = CursorAfter(c, max)]
      /\ contributed' = [contributed EXCEPT ![e] =
            [u \in Users |-> IF u \in batch THEN 0 ELSE @[u]]]
      /\ unclaimed_refund' = [unclaimed_refund EXCEPT ![e] =
            [u \in Users |-> IF u \in batch \ paid THEN @[u] + Refund(e, u)
                                                   ELSE @[u]]]
      /\ balance' = [balance EXCEPT ![t] =
            [h \in Holders |-> CASE h = Contract -> @[h] - spent
                                 [] h \in paid   -> @[h] + Refund(e, h)
                                 [] OTHER        -> @[h]]]
      /\ MarkSeen(Contract, op)
      /\ UnchangedByCancel
      /\ UNCHANGED <<status, remaining_escrow, owed_total, contributors,
                     non_owner_total>>

-----------------------------------------------------------------------------
\* Signed by no one.  An owner who refuses the residual reverts the call.
FinalizeCancel(e, op) ==
  LET c == cancellation[e]
  IN  /\ NotPaused
      /\ Unseen(Contract, op)
      /\ EventExists(e) /\ status[e] = "Cancelling"
      /\ c # None
      /\ c.next_idx >= c.count_at_start
      /\ IF OwnerResidual(c) > 0
         THEN Release(Token(e), Owner(e), OwnerResidual(c))
         ELSE UNCHANGED balance
      /\ remaining_escrow' = [remaining_escrow EXCEPT ![e] = 0]
      /\ status' = [status EXCEPT ![e] = "Cancelled"]
      /\ cancellation' = [cancellation EXCEPT ![e] = None]
      /\ non_owner_total' = [non_owner_total EXCEPT ![e] = 0]
      /\ MarkSeen(Contract, op)
      /\ UnchangedByCancel
      /\ UNCHANGED <<owed_total, contributors, contributed, unclaimed_refund>>

\* A slip: a held refund is lost when the event closes.
RefundDueWhileCancelling(e, u) ==
  unclaimed_refund[e][u] > 0 /\ status[e] = "Cancelling"

RefundDue(e, u) == unclaimed_refund[e][u] > 0

\* Signed by the contributor, at any time after the refund was set aside.
ClaimRefund(e, u, op) ==
  /\ NotPaused /\ EventExists(e)
  /\ Unseen(u, op)
  /\ RefundDue(e, u)
  /\ Release(Token(e), u, unclaimed_refund[e][u])
  /\ unclaimed_refund' = [unclaimed_refund EXCEPT ![e][u] = 0]
  /\ MarkSeen(u, op)
  /\ UnchangedByCancel
  /\ UNCHANGED <<status, remaining_escrow, owed_total, contributionVars,
                 cancellation>>

CancellationNext ==
  \/ \E e \in EventIds, op \in OpIds : StartCancel(e, op)
  \/ \E e \in EventIds, max \in BatchSizes, op \in OpIds :
        ProcessCancelBatch(e, max, op)
  \/ \E e \in EventIds, op \in OpIds : FinalizeCancel(e, op)
  \/ \E e \in EventIds, u \in Users, op \in OpIds : ClaimRefund(e, u, op)
=============================================================================
