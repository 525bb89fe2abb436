----------------------------- MODULE EscrowMath -----------------------------
(***************************************************************************)
(* The integer arithmetic of the events contract: fees, the milestone      *)
(* shares of a grant award, and the refund each contributor gets when an   *)
(* event is cancelled.  Every division rounds down and the products        *)
(* saturate or fail at the width of an i128, as they do in the code; the   *)
(* width is a constant so that an instance can reach it.                   *)
(***************************************************************************)
EXTENDS Integers, Sequences, FiniteSetsExt

CONSTANTS
  BpsTotal,   \* SPLIT_BPS_TOTAL and the divisor of every fee: 10_000
  MaxSplit,   \* MAX_SPLIT_MILESTONES
  MaxI128     \* the largest i128

ASSUME MathAssumption ==
  /\ BpsTotal \in Nat \ {0}
  /\ MaxSplit \in Nat
  /\ MaxI128 \in Nat

InI128(x) == x \in -MaxI128 - 1 .. MaxI128

\* i128::saturating_mul, for the non-negative operands the code gives it.
SaturatingMul(a, b) == IF a * b > MaxI128 THEN MaxI128 ELSE a * b

-----------------------------------------------------------------------------
(* Fees (escrow.rs)                                                        *)

ComputeFee(amount, bps) == SaturatingMul(amount, bps) \div BpsTotal

-----------------------------------------------------------------------------
(* Release kinds and milestone shares (types.rs, event_ops.rs, grant.rs).  *)
(* Milestones are numbered from 0, as in the code; the basis points of     *)
(* milestone m are shares[m + 1].                                          *)

ReleaseKinds ==
  [form : {"Single"}] \cup [form : {"Multi"}, n : Nat]
                      \cup [form : {"Split"}, shares : Seq(Nat)]

Milestones(kind) ==
  CASE kind.form = "Single" -> 0
    [] kind.form = "Multi"  -> kind.n
    [] kind.form = "Split"  -> Len(kind.shares)

SplitIsValid(shares) ==
  /\ Len(shares) \in 1 .. MaxSplit
  /\ \A i \in DOMAIN shares : shares[i] # 0
  /\ SumFunction(shares) = BpsTotal

\* A milestone's part of an award, before any remainder is added.
MilestoneShare(kind, award, m) ==
  IF kind.form = "Multi" THEN award \div kind.n
                         ELSE (award * kind.shares[m + 1]) \div BpsTotal

\* checked_mul: a split share whose product does not fit is an error.
ShareFits(kind, award, m) ==
  kind.form = "Split" => InI128(award * kind.shares[m + 1])

\* A slip: an award too small for its milestones is accepted.
AnyPositiveAward(kind, award) == kind.form # "Single" /\ award > 0

EveryMilestonePays(kind, award) ==
  CASE kind.form = "Single" -> FALSE
    [] kind.form = "Multi"  -> kind.n > 0 /\ award >= kind.n
    [] kind.form = "Split"  ->
         \A m \in 0 .. Len(kind.shares) - 1 :
           ShareFits(kind, award, m) /\ MilestoneShare(kind, award, m) > 0

\* A slip the runs must notice: the last milestone leaves the remainder.
ShareWithoutRemainder(award, settled, settled_amount, kind, m) ==
  MilestoneShare(kind, award, m)

\* The share a milestone settles for: the last one a recipient has open
\* takes everything the earlier ones left.
Share(award, settled, settled_amount, kind, m) ==
  IF settled + 1 = Milestones(kind) THEN award - settled_amount
                                    ELSE MilestoneShare(kind, award, m)

-----------------------------------------------------------------------------
(* Refund arithmetic of a cancellation (event_ops.rs)                      *)

CancellationBranches ==
  {"OwnerOnly", "FullPartnerThenResidual", "ProRataPartners"}

\* A slip: contributors are promised everything, whatever was paid out.
BranchIgnoringRemaining(non_owner_total, remaining) ==
  IF non_owner_total <= 0 THEN "OwnerOnly" ELSE "FullPartnerThenResidual"

Branch(non_owner_total, remaining) ==
  CASE non_owner_total <= 0          -> "OwnerOnly"
    [] non_owner_total > 0 /\ remaining >= non_owner_total
                                     -> "FullPartnerThenResidual"
    [] OTHER                         -> "ProRataPartners"

\* A slip: a pro-rata refund is not scaled down.
PayoutUnscaled(c, amt) == IF c.branch = "OwnerOnly" THEN 0 ELSE amt

\* What a contribution of amt is refunded under cancellation state c.
Payout(c, amt) ==
  CASE c.branch = "FullPartnerThenResidual" -> amt
    [] c.branch = "ProRataPartners"         ->
         SaturatingMul(amt, c.remaining_at_start) \div c.non_owner_total
    [] c.branch = "OwnerOnly"               -> 0

\* A slip: the owner's residual is forgotten.
NoResidual(c) == 0 * c.remaining_at_start

OwnerResidual(c) ==
  IF c.branch = "FullPartnerThenResidual"
  THEN c.remaining_at_start - c.non_owner_total
  ELSE 0
=============================================================================
