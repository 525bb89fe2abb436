---------------------------- MODULE EventsLiveness ----------------------------
(***************************************************************************)
(* What must eventually happen.  Days pass; someone keeps cranking a       *)
(* started cancellation (both calls are open to anyone); whoever is owed a *)
(* prize or a refund keeps asking for it.  Fairness is strong because a    *)
(* call may be held up again and again: by a pause, by an operation id     *)
(* spent for another call, by an account that refuses the token.           *)
(***************************************************************************)
EXTENDS EventsProperties

Crank(e) ==
  /\ SF_vars(\E max \in BatchSizes, op \in OpIds : ProcessCancelBatch(e, max, op))
  /\ SF_vars(\E op \in OpIds : FinalizeCancel(e, op))

FairSpec ==
  /\ Spec
  /\ WF_vars(Tick)
  /\ \A e \in EventIds : Crank(e)
  /\ \A e \in EventIds, u \in Users : SF_vars(\E op \in OpIds : ClaimRefund(e, u, op))
  /\ \A e \in EventIds, p \in Positions : SF_vars(\E op \in OpIds : ClaimPrize(e, p, op))

\* From some point on the contract is open and the account takes the token.
SettlesDown(users) == <>[](NotPaused /\ refusing \cap users = {})

OwnerAccepts(e) == EventExists(e) => Owner(e) \notin refusing

\* A started cancellation finishes, however the batches were cut and whichever
\* contributors refuse their refund.  The owner's residual is the exception:
\* it is released, not tried, so an owner who refuses it forever stops it.
CancelFinishes ==
  \A e \in EventIds :
    <>[](NotPaused /\ OwnerAccepts(e)) =>
      (status[e] = "Cancelling" ~> status[e] = "Cancelled")

\* A refund set aside because the account refused it is paid once the account
\* accepts again.
HeldRefundsPaid ==
  \A e \in EventIds, u \in Users :
    SettlesDown({u}) =>
      (unclaimed_refund[e][u] > 0 ~> unclaimed_refund[e][u] = 0)

Unpaid(e, p, u) ==
  /\ status[e] = "Active"
  /\ \E i \in DOMAIN winners[e] :
       /\ ~winners[e][i].paid /\ winners[e][i].recipient = u
       /\ winners[e][i].position = p

\* A winner who keeps claiming is paid, unless the event is cancelled first,
\* which the claim window bounds: no other call can hold the prize up.
PrizesGetPaid ==
  \A e \in EventIds, p \in Positions, u \in Users :
    SettlesDown({u}) => (Unpaid(e, p, u) ~> ~Unpaid(e, p, u))
=============================================================================
