----------------------------- MODULE AwardProofs -----------------------------
(***************************************************************************)
(* The awards: for any number of winners, grantees and milestones, and any *)
(* amounts, owed_total is exactly what was awarded and not yet settled,    *)
(* every open prize and milestone can be paid, a grant settles to the unit *)
(* and a campaign completes with its last milestone.  AwardsInv is the     *)
(* inductive invariant: beside the counters it ties every row of the       *)
(* winners list to the award that points at it, and what was settled of a  *)
(* grant to the shares of the milestones settled.                          *)
(***************************************************************************)
EXTENDS EscrowProofs

\* Before an event is created its awards are empty.
NoAwardsYet(e) ==
  ~EventExists(e) =>
    /\ winners[e] = << >> /\ milestone_claimed[e] = {} /\ cf_claimed[e] = 0
    /\ unclaimed_prizes[e] = 0
    /\ \A u \in Users : roster[e][u] = None
    /\ \A u \in Users : progress[e][u] = [settled |-> 0, settled_amount |-> 0]

\* The release kind of an event is one create_event accepts.
KindFits(e) == EventExists(e) => ReleaseKindFits(terms[e].pillar, Kind(e))

\* Every row of a prize event is the row its position's award points at.
RowFits(e, i) ==
  LET row   == winners[e][i]
      award == prize_award[e][row.position]
  IN  /\ award # None /\ award.anchor_idx = i
      /\ award.recipient = row.recipient /\ row.amount > 0

PrizesFit(e) ==
  EventExists(e) /\ IsSingle(e) =>
    /\ \A i \in DOMAIN winners[e] : RowFits(e, i)
    /\ unclaimed_prizes[e] = Cardinality(UnpaidRows(e))
    /\ status[e] = "Active" => owed_total[e] = UnpaidAmount(e)

\* The milestones of an event, and what each is worth of grantee u's award.
MilestoneSet(e) == 0 .. Milestones(Kind(e)) - 1
Shares(e, u) ==
  [m \in MilestoneSet(e) |-> MilestoneShare(Kind(e), roster[e][u].amount, m)]

\* What the rows of a winners list paid to u add up to.
PaidIn(w, u) ==
  LET rows == {i \in DOMAIN w : w[i].paid /\ w[i].recipient = u}
  IN  SumFunction([i \in rows |-> w[i].amount])

PaidOut(e, u) == PaidIn(winners[e], u)

\* What was settled of u's award is the shares of the milestones settled, and
\* the whole award once they all are.
GranteeFits(e, u) ==
  LET p == progress[e][u]
  IN  /\ EveryMilestonePays(Kind(e), roster[e][u].amount)
      /\ p.settled = Cardinality(SettledBy(e, u))
      /\ p.settled_amount = IF p.settled = Milestones(Kind(e))
                            THEN roster[e][u].amount
                            ELSE SumFunctionOnSet(Shares(e, u), SettledBy(e, u))
      /\ PaidOut(e, u) <= p.settled_amount

\* What the grantees of e are still owed.
Unsettled(e) ==
  SumFunction([u \in Grantees(e) |->
                 roster[e][u].amount - progress[e][u].settled_amount])

GrantFits(e) ==
  EventExists(e) /\ terms[e].pillar = "Grant" =>
    /\ winners[e] = << >> =>
         /\ milestone_claimed[e] = {} /\ Grantees(e) = {}
         /\ \A u \in Users : progress[e][u] = [settled |-> 0, settled_amount |-> 0]
    /\ \A u \in Grantees(e) : GranteeFits(e, u)
    /\ owed_total[e] = Unsettled(e)

CampaignFits(e) ==
  EventExists(e) /\ IsCrowdfunding(e) =>
    /\ cf_claimed[e] = Cardinality(SettledBy(e, Owner(e)))
    /\ (status[e] = "Completed") <=> (cf_claimed[e] = Milestones(Kind(e)))

\* Only grants have a roster.
RosterFits(e) ==
  EventExists(e) /\ terms[e].pillar # "Grant" => Grantees(e) = {}

AwardsFit(e) ==
  /\ NoAwardsYet(e) /\ KindFits(e) /\ RosterFits(e)
  /\ PrizesFit(e) /\ GrantFits(e) /\ CampaignFits(e)
  /\ owed_total[e] >= 0

\* The inductive invariant.
AwardsInv == \A e \in EventIds : AwardsFit(e)

\* What AwardsFit(e) depends on does not change in a step, or only by the event
\* leaving Active otherwise than by completing.
SameAwards(e) ==
  /\ (e \in DOMAIN terms') <=> (e \in DOMAIN terms)
  /\ EventExists(e) => terms'[e] = terms[e]
  /\ status'[e] = "Active" => status[e] = "Active"
  /\ (status'[e] = "Completed") <=> (status[e] = "Completed")
  /\ winners'[e] = winners[e] /\ prize_award'[e] = prize_award[e]
  /\ unclaimed_prizes'[e] = unclaimed_prizes[e] /\ owed_total'[e] = owed_total[e]
  /\ roster'[e] = roster[e] /\ progress'[e] = progress[e]
  /\ milestone_claimed'[e] = milestone_claimed[e] /\ cf_claimed'[e] = cf_claimed[e]

\* An event whose awards do not change stays as it was.
LEMMA SameAwardsFit ==
  ASSUME NEW e \in EventIds, AwardsFit(e), SameAwards(e)
  PROVE  AwardsFit(e)'
<1>1. NoAwardsYet(e)' /\ KindFits(e)' /\ RosterFits(e)'
  BY DEF AwardsFit, NoAwardsYet, KindFits, SameAwards, EventExists, Kind,
         RosterFits, Grantees
<1>2. PrizesFit(e)'
  BY DEF AwardsFit, PrizesFit, RowFits, SameAwards, EventExists, Kind, IsSingle,
         UnpaidRows, UnpaidAmount
<1>3. GrantFits(e)'
  <2>1. EventExists(e)' => /\ EventExists(e) /\ Kind(e)' = Kind(e)
                           /\ terms'[e] = terms[e]
    BY DEF SameAwards, EventExists, Kind
  <2>2. /\ Grantees(e)' = Grantees(e) /\ Unsettled(e)' = Unsettled(e)
        /\ \A u \in Users : PaidOut(e, u)' = PaidOut(e, u)
    BY DEF SameAwards, Grantees, Unsettled, PaidOut
  <2>3. ASSUME NEW u \in Grantees(e), EventExists(e)', GranteeFits(e, u)
        PROVE  GranteeFits(e, u)'
    <3>1. SettledBy(e, u)' = SettledBy(e, u) /\ Shares(e, u)' = Shares(e, u)
      BY <2>1, <2>3 DEF SameAwards, SettledBy, Shares, MilestoneSet
    <3> QED
      BY <2>1, <2>2, <2>3, <3>1 DEF GranteeFits, SameAwards, Grantees
  <2> QED
    BY <2>1, <2>2, <2>3 DEF AwardsFit, GrantFits, SameAwards
<1>4. CampaignFits(e)'
  BY DEF AwardsFit, CampaignFits, SameAwards, EventExists, IsCrowdfunding, Kind,
         SettledBy, Owner
<1> QED
  BY <1>1, <1>2, <1>3, <1>4 DEF AwardsFit, SameAwards

\* One event is touched, the others are not.
LEMMA OneAwardsFit ==
  ASSUME AwardsInv, NEW e \in EventIds, AwardsFit(e)',
         \A x \in EventIds \ {e} : SameAwards(x)
  PROVE  AwardsInv'
BY SameAwardsFit DEF AwardsInv

\* A step that touches no event's awards.
LEMMA SameAwardsInv ==
  ASSUME AwardsInv, \A x \in EventIds : SameAwards(x)
  PROVE  AwardsInv'
BY SameAwardsFit DEF AwardsInv

-----------------------------------------------------------------------------
(* Milestone shares                                                        *)

\* Rounding down and scaling up again gives no more.
LEMMA RoundedDown ==
  ASSUME NEW x \in Nat, NEW n \in Nat \ {0}
  PROVE  x \div n \in Nat /\ n * (x \div n) <= x
OBVIOUS

\* A quotient is positive only if what was divided is.
LEMMA PositiveQuotient ==
  ASSUME NEW x \in Int, NEW n \in Nat \ {0}, x \div n > 0
  PROVE  x > 0
<1>1. PICK q \in Int : q = x \div n /\ n * q <= x
  <2>1. x \div n \in Int /\ n * (x \div n) <= x
    OBVIOUS
  <2> QED
    BY <2>1
<1>2. n * 1 <= n * q
  BY <1>1
<1> QED
  BY <1>1, <1>2

\* A product of a natural is positive only if the other factor is.
LEMMA PositiveFactor ==
  ASSUME NEW a \in Int, NEW b \in Nat, a * b > 0
  PROVE  a > 0
<1>1. SUFFICES ASSUME a <= 0 PROVE FALSE
  OBVIOUS
<1>2. (0 - a) * b >= 0 /\ (0 - a) * b = 0 - a * b
  BY <1>1
<1> QED
  BY <1>2

\* An award every milestone of which pays something is worth at least its
\* shares (validate_grant_award, milestone_amount).
LEMMA SharesWithinAward ==
  ASSUME NEW kind \in ReleaseKinds, ReleaseKindFits("Grant", kind),
         NEW award \in Int, EveryMilestonePays(kind, award),
         NEW f, \A m \in 0 .. Milestones(kind) - 1 :
                  f[m] = MilestoneShare(kind, award, m)
  PROVE  /\ Milestones(kind) \in Nat \ {0} /\ award \in Nat \ {0}
         /\ \A m \in 0 .. Milestones(kind) - 1 : f[m] \in Nat \ {0}
         /\ SumFunctionOnSet(f, 0 .. Milestones(kind) - 1) <= award
<1>1. CASE kind.form = "Multi"
  <2>1. PICK n \in Nat \ {0} : n = kind.n /\ award >= n /\ Milestones(kind) = n
    BY <1>1 DEF ReleaseKinds, EveryMilestonePays, Milestones
  <2>2. award \in Nat \ {0}
    BY <2>1
  <2>3. PICK q \in Nat : q = award \div n /\ n * q <= award
    <3>1. award \div n \in Nat /\ n * (award \div n) <= award
      BY <2>2, RoundedDown
    <3> QED
      BY <3>1
  <2>4. q # 0
    BY <2>1, <2>2, <2>3
  <2>5. \A m \in 0 .. n - 1 : f[m] = q
    BY <1>1, <2>1, <2>3 DEF MilestoneShare
  <2>6. SumFunctionOnSet(f, 0 .. n - 1) = q * n
    <3>1. IsFiniteSet(0 .. n - 1) /\ Cardinality(0 .. n - 1) = n
      BY FS_Interval
    <3>2. SumFunctionOnSet(f, 0 .. n - 1) = q * Cardinality(0 .. n - 1)
      BY <2>5, <3>1, SumConstant
    <3> QED
      BY <3>1, <3>2
  <2> QED
    BY <2>1, <2>2, <2>3, <2>4, <2>5, <2>6
<1>2. CASE kind.form = "Split"
  <2> DEFINE s == kind.shares
             w == [m \in 0 .. Len(s) - 1 |-> s[m + 1]]
  <2>1. /\ s \in Seq(Nat) /\ Len(s) \in Nat \ {0} /\ Milestones(kind) = Len(s)
        /\ SumFunction(s) = BpsTotal /\ BpsTotal \in Nat \ {0}
        /\ \A m \in 0 .. Len(s) - 1 : MilestoneShare(kind, award, m) > 0
    <3>1. SplitIsValid(s)
      BY <1>2 DEF ReleaseKindFits
    <3>2. kind.shares \in Seq(Nat)
      BY <1>2 DEF ReleaseKinds
    <3>3. Milestones(kind) = Len(s)
      BY <1>2 DEF Milestones
    <3>4. \A m \in 0 .. Len(s) - 1 : MilestoneShare(kind, award, m) > 0
      BY <1>2 DEF EveryMilestonePays
    <3> QED
      BY <3>1, <3>2, <3>3, <3>4, MathAssumption DEF SplitIsValid
  <2> DEFINE I == 0 .. Len(s) - 1
  <2>2. \A m \in I : /\ s[m + 1] \in Nat /\ w[m] = s[m + 1]
                     /\ f[m] = (award * s[m + 1]) \div BpsTotal
                     /\ f[m] > 0
    <3> SUFFICES ASSUME NEW m \in I
                 PROVE  /\ s[m + 1] \in Nat /\ w[m] = s[m + 1]
                        /\ f[m] = (award * s[m + 1]) \div BpsTotal
                        /\ f[m] > 0
      OBVIOUS
    <3>1. m \in 0 .. Milestones(kind) - 1 /\ m + 1 \in 1 .. Len(s)
      BY <2>1
    <3>2. f[m] = MilestoneShare(kind, award, m) /\ f[m] > 0
      BY <2>1, <3>1
    <3>3. MilestoneShare(kind, award, m) = (award * s[m + 1]) \div BpsTotal
      BY <1>2 DEF MilestoneShare
    <3>4. s[m + 1] \in Nat
      BY <2>1, <3>1
    <3> QED
      BY <3>2, <3>3, <3>4
  <2>3. IsFiniteSet(I) /\ 0 \in I
    <3>1. PICK n \in Nat : n = Len(s) - 1
      <4>1. Len(s) \in Nat \ {0}
        BY <2>1
      <4>2. Len(s) - 1 \in Nat
        BY <4>1
      <4> QED
        BY <4>2
    <3>2. IsFiniteSet(0 .. n)
      BY FS_Interval
    <3>3. I = 0 .. n
      BY <3>1
    <3> QED
      BY <3>2, <3>3
  <2>4. SumFunctionOnSet(w, I) = BpsTotal
    <3> DEFINE c == [m \in I |-> m + 1]
    <3>1. SumFunction(s) = SumFunctionOnSet(s, 1 .. Len(s))
      BY <2>1 DEF SumFunction
    <3>2. \A i, j \in I : c[i] = c[j] => i = j
      OBVIOUS
    <3>3. \A i \in I : s[c[i]] \in Int /\ w[i] = s[c[i]]
      <4>1. \A i \in I : c[i] = i + 1
        OBVIOUS
      <4> HIDE DEF c, w, s, I
      <4> QED
        BY <2>2, <4>1
    <3>4. {c[i] : i \in I} = 1 .. Len(s)
      <4>1. ASSUME NEW x \in 1 .. Len(s) PROVE \E i \in I : c[i] = x
        <5>1. x - 1 \in I /\ c[x - 1] = x
          BY <2>1
        <5> QED
          BY <5>1
      <4>2. \A i \in I : c[i] \in 1 .. Len(s)
        BY <2>1
      <4> QED
        BY <4>1, <4>2
    <3> HIDE DEF c, w, s, I
    <3>5. SumFunctionOnSet(w, I) = SumFunctionOnSet(s, {c[i] : i \in I})
      BY <2>3, <3>2, <3>3, SumImage
    <3> QED
      BY <2>1, <3>1, <3>4, <3>5, Zenon
  <2> HIDE DEF w, s, I
  <2>5. award \in Nat \ {0}
    <3>1. PICK a \in Nat : a = s[0 + 1]
      BY <2>2, <2>3
    <3>2. PICK x \in Int : x = award * a
      OBVIOUS
    <3>3. x \div BpsTotal > 0
      BY <2>2, <2>3, <3>1, <3>2
    <3>4. award * a > 0
      BY <2>1, <3>2, <3>3, PositiveQuotient
    <3> QED
      BY <3>4, PositiveFactor
  <2>6. \A m \in I : f[m] \in Nat \ {0} /\ BpsTotal * f[m] <= award * w[m]
    <3> SUFFICES ASSUME NEW m \in I
                 PROVE  f[m] \in Nat \ {0} /\ BpsTotal * f[m] <= award * w[m]
      OBVIOUS
    <3>1. PICK a \in Nat : a = s[m + 1] /\ w[m] = a
      BY <2>2
    <3>2. PICK x \in Nat : x = award * a
      BY <2>5
    <3>3. x \div BpsTotal \in Nat /\ BpsTotal * (x \div BpsTotal) <= x
      BY <2>1, RoundedDown
    <3> QED
      BY <2>2, <3>1, <3>2, <3>3
  <2>7. SumFunctionOnSet(f, I) <= award
    <3>1. \A m \in I : /\ f[m] \in Int /\ w[m] \in Int
                       /\ BpsTotal * f[m] <= award * w[m]
      BY <2>2, <2>6
    <3>2. BpsTotal \in Int /\ award \in Int
      BY <2>1
    <3>3. BpsTotal * SumFunctionOnSet(f, I) <= award * SumFunctionOnSet(w, I)
      BY <2>3, <3>1, <3>2, SumScale
    <3>4. PICK q \in Nat : q = SumFunctionOnSet(f, I)
      BY <2>3, <2>6, SumNat
    <3>5. BpsTotal * q <= award * BpsTotal
      BY <2>4, <3>3, <3>4
    <3>6. SUFFICES ASSUME q >= award + 1 PROVE FALSE
      BY <2>5, <3>4
    <3>7. BpsTotal * (award + 1) <= BpsTotal * q
      BY <2>1, <2>5, <3>6
    <3> QED
      BY <2>1, <2>5, <3>5, <3>7
  <2>8. 0 .. Milestones(kind) - 1 = I
    BY <2>1 DEF I
  <2> QED
    BY <2>1, <2>5, <2>6, <2>7, <2>8
<1>3. kind.form \in {"Multi", "Split"}
  BY DEF ReleaseKindFits
<1> QED
  BY <1>1, <1>2, <1>3

-----------------------------------------------------------------------------
(* The standing of a grantee                                               *)

\* The terms of an event are parameters create_event was given.
LEMMA KindTyped ==
  ASSUME RecordTypes, NEW e \in EventIds, EventExists(e)
  PROVE  /\ terms[e] \in CreateEventParams
         /\ Kind(e) \in ReleaseKinds /\ Owner(e) \in Users
         /\ terms[e].pillar \in Pillars
<1>1. terms[e] \in CreateEventParams
  BY StorageAssumption DEF EventExists, RecordTypes
<1> QED
  BY <1>1 DEF CreateEventParams, Kind, Owner

\* Prizes, grants and campaigns are told apart by their kind.
LEMMA KindsApart ==
  ASSUME RecordTypes, NEW e \in EventIds, EventExists(e), KindFits(e)
  PROVE  /\ IsSingle(e) => ~IsCrowdfunding(e) /\ terms[e].pillar # "Grant"
         /\ terms[e].pillar = "Grant" => ~IsCrowdfunding(e) /\ ~IsSingle(e)
         /\ ~IsSingle(e) /\ ~IsCrowdfunding(e) => terms[e].pillar = "Grant"
<1>1. terms[e].pillar \in Pillars /\ ReleaseKindFits(terms[e].pillar, Kind(e))
  BY KindTyped DEF KindFits
<1> QED
  BY <1>1 DEF ReleaseKindFits, IsSingle, IsCrowdfunding, Pillars

\* A sum over the grantees is a sum over the users.
LEMMA UnsettledSum ==
  ASSUME GrantTypes, NEW e \in EventIds, NEW f,
         \A u \in Users : f[u] = IF roster[e][u] = None THEN 0
                ELSE roster[e][u].amount - progress[e][u].settled_amount
  PROVE  /\ Unsettled(e) = SumFunctionOnSet(f, Users)
         /\ \A u \in Users : f[u] \in Int
<1> DEFINE g == [u \in Grantees(e) |->
                   roster[e][u].amount - progress[e][u].settled_amount]
<1>1. \A u \in Grantees(e) : g[u] \in Int /\ f[u] = g[u]
  <2> SUFFICES ASSUME NEW u \in Grantees(e) PROVE g[u] \in Int /\ f[u] = g[u]
    OBVIOUS
  <2>1. roster[e][u] \in GrantAward /\ progress[e][u] \in GrantProgress /\ u \in Users
    BY DEF GrantTypes, Grantees
  <2> QED
    BY <2>1 DEF Grantees, GrantAward, GrantProgress
<1>2. \A u \in Users \ Grantees(e) : f[u] = 0
  BY DEF Grantees
<1>3. Grantees(e) \in SUBSET Users
  BY DEF Grantees
<1>4. Unsettled(e) = SumFunctionOnSet(g, Grantees(e))
  BY DEF Unsettled, SumFunction
<1> HIDE DEF g
<1>5. SumFunctionOnSet(f, Users) = SumFunctionOnSet(g, Grantees(e))
  BY <1>1, <1>2, <1>3, FinitenessAssumption, SumWhere
<1>6. \A u \in Users : f[u] \in Int
  BY <1>1, <1>2
<1> QED
  BY <1>4, <1>5, <1>6

\* The milestones of a grant are finitely many, and its shares are positive.
LEMMA GrantShares ==
  ASSUME StorageTypes, NEW e \in EventIds, EventExists(e), KindFits(e),
         terms[e].pillar = "Grant", NEW u \in Users, roster[e][u] # None,
         EveryMilestonePays(Kind(e), roster[e][u].amount)
  PROVE  /\ Milestones(Kind(e)) \in Nat \ {0}
         /\ roster[e][u].amount \in Nat \ {0}
         /\ \A m \in MilestoneSet(e) : Shares(e, u)[m] \in Nat \ {0}
         /\ SumFunctionOnSet(Shares(e, u), MilestoneSet(e)) <= roster[e][u].amount
         /\ IsFiniteSet(MilestoneSet(e))
         /\ Cardinality(MilestoneSet(e)) = Milestones(Kind(e))
<1> DEFINE award == roster[e][u].amount
           f == Shares(e, u)
           kind == Kind(e)
<1>1. award \in Int
  <2>1. roster[e][u] \in GrantAward
    BY DEF StorageTypes, GrantTypes
  <2> QED
    BY <2>1 DEF GrantAward
<1>2. kind \in ReleaseKinds /\ ReleaseKindFits("Grant", kind)
  BY KindTyped DEF KindFits, StorageTypes
<1>3. \A m \in 0 .. Milestones(kind) - 1 : f[m] = MilestoneShare(kind, award, m)
  BY DEF Shares, MilestoneSet
<1>4. EveryMilestonePays(kind, award)
  OBVIOUS
<1> HIDE DEF award, f, kind
<1>5. /\ Milestones(kind) \in Nat \ {0} /\ award \in Nat \ {0}
      /\ \A m \in 0 .. Milestones(kind) - 1 : f[m] \in Nat \ {0}
      /\ SumFunctionOnSet(f, 0 .. Milestones(kind) - 1) <= award
  BY <1>1, <1>2, <1>3, <1>4, SharesWithinAward
<1>6. PICK n \in Nat \ {0} : n = Milestones(kind)
  BY <1>5
<1>7. IsFiniteSet(0 .. n - 1) /\ Cardinality(0 .. n - 1) = n
  BY FS_Interval
<1> QED
  BY <1>5, <1>6, <1>7 DEF award, f, kind, MilestoneSet

\* Whatever was settled of an award, what is left covers every open milestone,
\* in whichever order they are taken, and is nothing once none is open.
LEMMA GranteeStanding ==
  ASSUME StorageTypes, NEW e \in EventIds, EventExists(e), KindFits(e),
         terms[e].pillar = "Grant", NEW u \in Users, roster[e][u] # None,
         GranteeFits(e, u)
  PROVE  LET p     == progress[e][u]
             award == roster[e][u].amount
         IN  /\ award \in Nat /\ p.settled \in Nat /\ p.settled_amount \in Nat
             /\ Milestones(Kind(e)) \in Nat
             /\ p.settled <= Milestones(Kind(e))
             /\ p.settled_amount <= award
             /\ (p.settled_amount = award) <=> (p.settled = Milestones(Kind(e)))
             /\ \A m \in MilestoneSet(e) \ SettledBy(e, u) :
                  /\ p.settled < Milestones(Kind(e))
                  /\ SettlementOf(e, u, m) \in 1 .. award - p.settled_amount
<1> DEFINE f == Shares(e, u)
           I == MilestoneSet(e)
           T == SettledBy(e, u)
<1>1. PICK award \in Nat \ {0} : award = roster[e][u].amount
  BY GrantShares DEF GranteeFits
<1>2. PICK n \in Nat \ {0} : n = Milestones(Kind(e))
  BY GrantShares DEF GranteeFits
<1>3. /\ \A m \in I : f[m] \in Nat \ {0}
      /\ SumFunctionOnSet(f, I) <= award
      /\ IsFiniteSet(I) /\ Cardinality(I) = n
  BY <1>1, <1>2, GrantShares DEF GranteeFits
<1>4. T \in SUBSET I
  BY DEF SettledBy, MilestoneSet
<1>5. PICK k \in Nat : k = progress[e][u].settled
  <2>1. progress[e][u] \in GrantProgress
    BY DEF StorageTypes, GrantTypes
  <2> QED
    BY <2>1 DEF GrantProgress
<1>6. /\ k = Cardinality(T)
      /\ progress[e][u].settled_amount
           = IF k = n THEN award ELSE SumFunctionOnSet(f, T)
  BY <1>1, <1>2, <1>5 DEF GranteeFits
<1>7. \A m \in I \ T : SettlementOf(e, u, m)
                        = IF k + 1 = n THEN award - progress[e][u].settled_amount
                                       ELSE f[m]
  BY <1>1, <1>2, <1>5 DEF SettlementOf, Share, Shares, MilestoneSet
<1> HIDE DEF f, I, T
<1>8. IsFiniteSet(T) /\ k <= n /\ (k = n => T = I)
  BY <1>3, <1>4, <1>6, FS_Subset
<1>9. PICK paid \in Nat : paid = SumFunctionOnSet(f, T)
  <2>1. \A m \in T : f[m] \in Nat
    BY <1>3, <1>4
  <2> QED
    BY <1>8, <2>1, SumNat
<1>10. \A m \in I \ T : f[m] + paid <= award /\ f[m] \in Nat \ {0}
  <2> SUFFICES ASSUME NEW m \in I \ T
               PROVE  f[m] + paid <= award /\ f[m] \in Nat \ {0}
    OBVIOUS
  <2>1. \A y \in T \cup {m} : f[y] \in Int
    BY <1>3, <1>4
  <2>2. m \notin T
    OBVIOUS
  <2>3. SumFunctionOnSet(f, T \cup {m}) = f[m] + paid
    BY <1>8, <1>9, <2>1, <2>2, SumAdd
  <2>4. T \cup {m} \in SUBSET I /\ \A x \in I : f[x] \in Nat
    BY <1>3, <1>4
  <2>5. SumFunctionOnSet(f, T \cup {m}) <= SumFunctionOnSet(f, I)
    BY <1>3, <2>4, SumSubset
  <2>6. SumFunctionOnSet(f, I) \in Nat /\ f[m] \in Nat \ {0}
    BY <1>3, <2>4, SumNat
  <2> QED
    BY <1>3, <2>3, <2>5, <2>6
<1>11. k # n => \E m \in I : m \notin T
  <2>1. k # n => T # I
    BY <1>3, <1>6
  <2> QED
    BY <1>4, <2>1
<1>12. PICK amount \in Nat : amount = progress[e][u].settled_amount
  BY <1>6, <1>9
<1>13. amount <= award /\ (amount = award <=> k = n)
  BY <1>6, <1>9, <1>10, <1>11, <1>12
<1>14. \A m \in I \ T : k < n /\ SettlementOf(e, u, m) \in 1 .. award - amount
  <2> SUFFICES ASSUME NEW m \in I \ T
               PROVE  k < n /\ SettlementOf(e, u, m) \in 1 .. award - amount
    OBVIOUS
  <2>1. k < n /\ amount = paid
    BY <1>6, <1>8, <1>9, <1>12
  <2> QED
    BY <1>7, <1>10, <1>12, <1>13, <2>1
<1> QED
  BY <1>1, <1>2, <1>5, <1>8, <1>12, <1>13, <1>14 DEF I, T

\* Settling a milestone, by paying it or by forfeiting it, adds its share to
\* what was settled and takes it from what is owed (grant.rs: settle).
LEMMA SettleAwards ==
  ASSUME StorageTypes, NEW e \in EventIds, AwardsFit(e), NEW r \in Users,
         NEW m \in Nat, NEW op \in OpIds, MilestoneOpen(e, r, m, op),
         Settle(e, r, m), terms[e].pillar = "Grant", UNCHANGED <<terms, roster>>,
         \A u \in Users \ {r} : PaidOut(e, u)' = PaidOut(e, u),
         PaidOut(e, r) \in Int,
         PaidOut(e, r)' \in {PaidOut(e, r), PaidOut(e, r) + SettlementOf(e, r, m)}
  PROVE  /\ \A u \in Grantees(e)' : GranteeFits(e, u)'
         /\ owed_total'[e] = Unsettled(e)' /\ owed_total'[e] >= 0
<1> USE DEF StorageTypes
<1> DEFINE T == SettledBy(e, r)
           f == Shares(e, r)
           kind == Kind(e)
<1>1. /\ EventExists(e) /\ roster[e][r] # None /\ m < Milestones(kind)
      /\ <<r, m>> \notin milestone_claimed[e]
      /\ owed_total[e] - SettlementOf(e, r, m) >= 0
      /\ owed_total' = [owed_total EXCEPT ![e] = @ - SettlementOf(e, r, m)]
      /\ milestone_claimed' = [milestone_claimed EXCEPT ![e] = @ \cup {<<r, m>>}]
      /\ progress' = [progress EXCEPT ![e][r] =
           [settled |-> @.settled + 1,
            settled_amount |-> @.settled_amount + SettlementOf(e, r, m)]]
  BY Zenon DEF MilestoneOpen, IsActive, Settle, ReleaseOwed
<1>2. KindFits(e) /\ GrantFits(e) /\ owed_total[e] = Unsettled(e)
  BY <1>1 DEF AwardsFit, GrantFits
<1>3. r \in Grantees(e) /\ GranteeFits(e, r)
  BY <1>1, <1>2 DEF GrantFits, Grantees
<1>4. /\ Grantees(e)' = Grantees(e) /\ Kind(e)' = kind
      /\ MilestoneSet(e)' = MilestoneSet(e)
      /\ \A u \in Users : Shares(e, u)' = Shares(e, u)
  BY DEF Grantees, Kind, Shares, MilestoneSet
<1>5. PICK award \in Nat, k \in Nat, paid \in Nat, n \in Nat :
        /\ award = roster[e][r].amount /\ k = progress[e][r].settled
        /\ paid = progress[e][r].settled_amount /\ n = Milestones(kind)
  BY <1>1, <1>2, <1>3, GranteeStanding
<1>6. m \in MilestoneSet(e) \ T
  BY <1>1, <1>5 DEF SettledBy, MilestoneSet
<1>7. PICK amount \in Nat : /\ amount = SettlementOf(e, r, m) /\ k < n
                           /\ amount \in 1 .. award - paid
  BY <1>1, <1>2, <1>3, <1>5, <1>6, GranteeStanding
<1>8. /\ progress'[e][r] = [settled |-> k + 1, settled_amount |-> paid + amount]
      /\ \A u \in Users \ {r} : progress'[e][u] = progress[e][u]
      /\ owed_total'[e] = owed_total[e] - amount
      /\ owed_total[e] \in Int
  <2>1. progress[e] \in [Users -> GrantProgress] /\ progress \in [EventIds -> [Users -> GrantProgress]]
    BY DEF GrantTypes
  <2>2. /\ progress'[e][r] = [settled |-> progress[e][r].settled + 1,
                 settled_amount |-> progress[e][r].settled_amount + SettlementOf(e, r, m)]
        /\ \A u \in Users \ {r} : progress'[e][u] = progress[e][u]
    BY <1>1, <2>1
  <2>3. owed_total'[e] = owed_total[e] - SettlementOf(e, r, m) /\ owed_total[e] \in Int
    BY <1>1 DEF AwardTypes
  <2> QED
    BY <1>5, <1>7, <2>2, <2>3
<1>9. GranteeFits(e, r)'
  <2>1. SettledBy(e, r)' = T \cup {m}
    <3>1. milestone_claimed'[e] = milestone_claimed[e] \cup {<<r, m>>}
      BY <1>1 DEF GrantTypes
    <3> QED
      BY <1>4, <1>6, <3>1 DEF SettledBy, MilestoneSet
  <2>2. /\ IsFiniteSet(T) /\ T \subseteq MilestoneSet(e)
        /\ \A x \in MilestoneSet(e) : f[x] \in Nat
    <3>1. /\ IsFiniteSet(MilestoneSet(e))
          /\ \A x \in MilestoneSet(e) : f[x] \in Nat \ {0}
      BY <1>1, <1>2, <1>3, GrantShares DEF GranteeFits
    <3>2. T \in SUBSET MilestoneSet(e)
      BY DEF SettledBy, MilestoneSet
    <3> QED
      BY <3>1, <3>2, FS_Subset
  <2>3. k = Cardinality(T) /\ paid = SumFunctionOnSet(f, T)
    BY <1>3, <1>5, <1>7 DEF GranteeFits
  <2>4. SettlementOf(e, r, m) = IF k + 1 = n THEN award - paid ELSE f[m]
    BY <1>5, <1>6 DEF SettlementOf, Share, Shares, MilestoneSet
  <2>5. PaidOut(e, r) <= paid
    BY <1>3, <1>5 DEF GranteeFits
  <2>6. EveryMilestonePays(Kind(e), roster[e][r].amount)
    BY <1>3 DEF GranteeFits
  <2> HIDE DEF T, f
  <2>7. Cardinality(T \cup {m}) = k + 1
    BY <1>6, <2>2, <2>3, FS_AddElement
  <2>8. SumFunctionOnSet(f, T \cup {m}) = f[m] + paid
    <3>1. \A y \in T \cup {m} : f[y] \in Int
      <4>1. f[m] \in Nat /\ \A y \in T : f[y] \in Nat
        BY <1>6, <2>2
      <4> QED
        BY <4>1
    <3>2. m \notin T
      BY <1>6
    <3> QED
      BY <2>2, <2>3, <3>1, <3>2, SumAdd
  <2>9. f[m] \in Nat
    BY <1>6, <2>2
  <2>10. paid + amount = IF k + 1 = n THEN award
                         ELSE SumFunctionOnSet(f, T \cup {m})
    BY <1>7, <2>4, <2>8, <2>9
  <2>11. PaidOut(e, r)' <= paid + amount
    BY <1>7, <2>5
  <2>12. /\ progress'[e][r].settled = Cardinality(SettledBy(e, r)')
         /\ progress'[e][r].settled = k + 1
         /\ progress'[e][r].settled_amount = paid + amount
    BY <1>8, <2>1, <2>7
  <2>13. /\ Kind(e)' = Kind(e) /\ Milestones(Kind(e)) = n
         /\ roster'[e][r].amount = award /\ Shares(e, r)' = f
    BY <1>4, <1>5 DEF f
  <2> QED
    BY <2>1, <2>6, <2>10, <2>11, <2>12, <2>13, Zenon DEF GranteeFits
<1>10. ASSUME NEW u \in Grantees(e), u # r PROVE GranteeFits(e, u)'
  <2>1. u \in Users
    BY DEF Grantees
  <2>2. SettledBy(e, u)' = SettledBy(e, u)
    <3>1. milestone_claimed'[e] = milestone_claimed[e] \cup {<<r, m>>}
      BY <1>1 DEF GrantTypes
    <3> QED
      BY <1>4, <1>10, <3>1 DEF SettledBy
  <2>3. GranteeFits(e, u) /\ progress'[e][u] = progress[e][u]
        /\ PaidOut(e, u)' = PaidOut(e, u)
    BY <1>1, <1>2, <1>8, <1>10, <2>1 DEF GrantFits
  <2> QED
    BY <1>4, <2>1, <2>2, <2>3 DEF GranteeFits
<1>11. owed_total'[e] = Unsettled(e)'
  <2> DEFINE left == [u \in Users |-> IF roster[e][u] = None THEN 0
                ELSE roster[e][u].amount - progress[e][u].settled_amount]
  <2>1. Unsettled(e) = SumFunctionOnSet(left, Users) /\ \A u \in Users : left[u] \in Int
    BY UnsettledSum
  <2>2. left'[r] = left[r] - amount
    BY <1>1, <1>5, <1>7, <1>8
  <2>3. \A u \in Users \ {r} : left'[u] = left[u]
    BY <1>8
  <2>4. Unsettled(e)' = SumFunctionOnSet(left', Users)
    <3>1. Grantees(e)' = Grantees(e) /\ Grantees(e) \in SUBSET Users
      BY <1>4 DEF Grantees
    <3> DEFINE g == [u \in Grantees(e) |->
                       roster[e][u].amount - progress'[e][u].settled_amount]
    <3>2. Unsettled(e)' = SumFunctionOnSet(g, Grantees(e))
      BY <3>1 DEF Unsettled, SumFunction
    <3>3. \A u \in Grantees(e) : left'[u] = g[u]
      BY DEF Grantees
    <3>4. \A u \in Users \ Grantees(e) : left'[u] = 0
      BY DEF Grantees
    <3>5. \A u \in Users : left'[u] \in Int
      BY <1>7, <2>1, <2>2, <2>3
    <3> HIDE DEF g, left
    <3>6. \A u \in Grantees(e) : g[u] \in Int /\ left'[u] = g[u]
      BY <3>1, <3>3, <3>5
    <3> QED
      BY <3>1, <3>2, <3>4, <3>6, FinitenessAssumption, SumWhere
  <2> HIDE DEF left
  <2>5. left'[r] \in Int
    BY <1>7, <2>1, <2>2
  <2>6. SumFunctionOnSet(left', Users)
          = SumFunctionOnSet(left, Users) + left'[r] - left[r]
    BY <2>1, <2>3, <2>5, FinitenessAssumption, SumChange
  <2>7. SumFunctionOnSet(left, Users) \in Int
    BY <2>1, FinitenessAssumption, SumInt
  <2> QED
    BY <1>2, <1>7, <1>8, <2>1, <2>2, <2>4, <2>5, <2>6, <2>7
<1> QED
  BY <1>1, <1>4, <1>7, <1>8, <1>9, <1>10, <1>11 DEF Grantees

\* The rows paid to u, as a sum over all rows.
LEMMA PaidSum ==
  ASSUME NEW w \in Seq(Winner), NEW u, NEW f,
         \A i \in DOMAIN w : f[i] = IF w[i].paid /\ w[i].recipient = u
                                     THEN w[i].amount ELSE 0
  PROVE  /\ PaidIn(w, u) = SumFunctionOnSet(f, DOMAIN w)
         /\ PaidIn(w, u) \in Int
         /\ \A i \in DOMAIN w : f[i] \in Int
<1> DEFINE rows == {i \in DOMAIN w : w[i].paid /\ w[i].recipient = u}
           g == [i \in rows |-> w[i].amount]
<1>1. \A i \in DOMAIN w : w[i].amount \in Int /\ f[i] \in Int
  <2> SUFFICES ASSUME NEW i \in DOMAIN w PROVE w[i].amount \in Int /\ f[i] \in Int
    OBVIOUS
  <2>1. w[i] \in Winner
    OBVIOUS
  <2>2. w[i].amount \in Int
    BY <2>1 DEF Winner
  <2> QED
    BY <2>2
<1>2. /\ SumFunction(g) = SumFunctionOnSet(g, rows) /\ rows \in SUBSET DOMAIN w
      /\ \A i \in rows : g[i] \in Int /\ f[i] = g[i]
      /\ \A i \in DOMAIN w \ rows : f[i] = 0
  BY <1>1 DEF SumFunction
<1>3. IsFiniteSet(DOMAIN w)
  <2>1. DOMAIN w = 1 .. Len(w) /\ Len(w) \in Nat
    OBVIOUS
  <2> QED
    BY <2>1, FS_Interval
<1> HIDE DEF rows, g
<1>4. SumFunctionOnSet(f, DOMAIN w) = SumFunctionOnSet(g, rows)
  BY <1>2, <1>3, SumWhere
<1>5. SumFunctionOnSet(f, DOMAIN w) \in Int
  BY <1>1, <1>3, SumInt
<1> QED
  BY <1>1, <1>2, <1>4, <1>5 DEF rows, g, PaidIn

\* A milestone payout adds its row to what its recipient was paid.
LEMMA PaidAppended ==
  ASSUME AwardTypes, NEW e \in EventIds, NEW row \in Winner, row.paid,
         winners'[e] = winners[e] \o <<row>>, NEW u
  PROVE  /\ PaidOut(e, u) \in Int
         /\ PaidOut(e, u)' = PaidOut(e, u)
                                + (IF row.recipient = u THEN row.amount ELSE 0)
<1>1. PICK w \in Seq(Winner) : w = winners[e]
  BY DEF AwardTypes
<1>2. PICK v \in Seq(Winner) : v = winners'[e] /\ v = w \o <<row>>
  <2>1. w \o <<row>> \in Seq(Winner)
    OBVIOUS
  <2> QED
    BY <1>1, <2>1
<1>3. PICK n \in Nat : n = Len(w)
  BY <1>1
<1>4. /\ DOMAIN w = 1 .. n /\ DOMAIN v = 1 .. n + 1 /\ v[n + 1] = row
      /\ \A i \in 1 .. n : v[i] = w[i]
  <2>1. DOMAIN w = 1 .. n
    BY <1>3
  <2>2. /\ Len(w \o <<row>>) = n + 1 /\ (w \o <<row>>)[n + 1] = row
        /\ \A i \in 1 .. n : (w \o <<row>>)[i] = w[i]
    BY <1>3
  <2>3. DOMAIN v = 1 .. n + 1
    BY <1>2, <2>2
  <2> QED
    BY <1>2, <2>1, <2>2, <2>3
<1> DEFINE Paid(x, i) == IF x[i].paid /\ x[i].recipient = u THEN x[i].amount ELSE 0
           f == [i \in 1 .. n |-> Paid(w, i)]
           g == [i \in 1 .. n + 1 |-> Paid(v, i)]
<1>5. /\ PaidOut(e, u) = SumFunctionOnSet(f, 1 .. n)
      /\ PaidOut(e, u) \in Int /\ \A i \in 1 .. n : f[i] \in Int
  <2>1. \A i \in DOMAIN w : f[i] = IF w[i].paid /\ w[i].recipient = u
                                  THEN w[i].amount ELSE 0
    BY <1>4
  <2> HIDE DEF f
  <2>2. /\ PaidIn(w, u) = SumFunctionOnSet(f, DOMAIN w) /\ PaidIn(w, u) \in Int
        /\ \A i \in DOMAIN w : f[i] \in Int
    BY <2>1, PaidSum
  <2> QED
    BY <1>1, <1>4, <2>2, Zenon DEF PaidOut
<1>6. /\ PaidOut(e, u)' = SumFunctionOnSet(g, 1 .. n + 1)
      /\ \A i \in 1 .. n + 1 : g[i] \in Int
  <2>1. \A i \in DOMAIN v : g[i] = IF v[i].paid /\ v[i].recipient = u
                                  THEN v[i].amount ELSE 0
    BY <1>4
  <2> HIDE DEF g
  <2>2. /\ PaidIn(v, u) = SumFunctionOnSet(g, DOMAIN v) /\ PaidIn(v, u) \in Int
        /\ \A i \in DOMAIN v : g[i] \in Int
    BY <2>1, PaidSum
  <2> QED
    BY <1>2, <1>4, <2>2, Zenon DEF PaidOut
<1>7. /\ \A i \in 1 .. n : g[i] = f[i]
      /\ g[n + 1] = IF row.recipient = u THEN row.amount ELSE 0
  BY <1>4
<1> HIDE DEF f, g
<1>8. SumFunctionOnSet(g, 1 .. n) = SumFunctionOnSet(f, 1 .. n) /\ IsFiniteSet(1 .. n)
  <2>1. IsFiniteSet(1 .. n)
    BY FS_Interval
  <2> DEFINE I == 1 .. n
  <2>2. IsFiniteSet(I) /\ \A i \in I : f[i] \in Int /\ g[i] = f[i]
    BY <1>5, <1>7, <2>1
  <2> HIDE DEF I
  <2>3. SumFunctionOnSet(g, I) = SumFunctionOnSet(f, I)
    BY <2>2, SumSame
  <2> QED
    BY <2>1, <2>3 DEF I
<1>9. SumFunctionOnSet(g, (1 .. n) \cup {n + 1})
        = g[n + 1] + SumFunctionOnSet(g, 1 .. n)
  <2>1. n + 1 \notin 1 .. n /\ \A i \in (1 .. n) \cup {n + 1} : g[i] \in Int
    BY <1>6
  <2> QED
    BY <1>8, <2>1, SumAdd
<1>10. (1 .. n) \cup {n + 1} = 1 .. n + 1
  OBVIOUS
<1>11. g[n + 1] \in Int
  BY <1>6
<1>12. SumFunctionOnSet(g, 1 .. n + 1) = g[n + 1] + SumFunctionOnSet(f, 1 .. n)
  BY <1>8, <1>9, <1>10, Zenon
<1>13. PaidOut(e, u)' = g[n + 1] + PaidOut(e, u)
  BY <1>5, <1>6, <1>12
<1> QED
  BY <1>5, <1>7, <1>11, <1>13

\* A grant that settles a milestone keeps its books.
LEMMA GrantStepAwards ==
  ASSUME StorageTypes, AwardsInv, NEW e \in EventIds, NEW r \in Users,
         NEW m \in Nat, NEW op \in OpIds, MilestoneOpen(e, r, m, op),
         Settle(e, r, m), terms[e].pillar = "Grant",
         UNCHANGED <<terms, roster, prizeVars, cf_claimed>>,
         \A x \in EventIds \ {e} : winners'[x] = winners[x] /\ status'[x] = status[x],
         winners'[e] = << >> => winners[e] = << >>,
         \A u \in Users \ {r} : PaidOut(e, u)' = PaidOut(e, u),
         PaidOut(e, r) \in Int,
         PaidOut(e, r)' \in {PaidOut(e, r), PaidOut(e, r) + SettlementOf(e, r, m)}
  PROVE  AwardsInv'
<1>1. AwardsFit(e)
  BY DEF AwardsInv
<1>2. /\ \A u \in Grantees(e)' : GranteeFits(e, u)'
      /\ owed_total'[e] = Unsettled(e)' /\ owed_total'[e] >= 0
  BY <1>1, SettleAwards
<1>3. EventExists(e) /\ roster[e][r] # None
  BY Zenon DEF MilestoneOpen, IsActive, Settle
<1>4. winners'[e] # << >>
  BY <1>1, <1>3 DEF AwardsFit, GrantFits, Grantees
<1>5. EventExists(e)' /\ KindFits(e)'
  BY <1>1, <1>3 DEF AwardsFit, KindFits, EventExists, Kind
<1>6. /\ ~IsSingle(e)' /\ ~IsCrowdfunding(e)'
  <2>1. ~IsSingle(e) /\ ~IsCrowdfunding(e)
    BY <1>1, <1>3, KindsApart DEF AwardsFit, StorageTypes
  <2> QED
    BY <2>1 DEF IsSingle, IsCrowdfunding, Kind
<1>7. AwardsFit(e)'
  BY <1>2, <1>4, <1>5, <1>6
  DEF AwardsFit, NoAwardsYet, RosterFits, PrizesFit, GrantFits, CampaignFits
<1>8. \A x \in EventIds \ {e} : SameAwards(x)
  <2>1. /\ owed_total' = [owed_total EXCEPT ![e] = @ - SettlementOf(e, r, m)]
        /\ milestone_claimed' = [milestone_claimed EXCEPT ![e] = @ \cup {<<r, m>>}]
        /\ progress' = [progress EXCEPT ![e][r] =
             [settled |-> @.settled + 1,
              settled_amount |-> @.settled_amount + SettlementOf(e, r, m)]]
    BY Zenon DEF Settle, ReleaseOwed
  <2> QED
    BY <2>1 DEF SameAwards, prizeVars, StorageTypes, AwardTypes, GrantTypes
<1> QED
  BY <1>7, <1>8, OneAwardsFit

\* claim_milestone on a grant.
LEMMA ClaimGrantMilestoneAwards ==
  ASSUME StorageTypes, AwardsInv, NEW e \in EventIds, NEW r \in Users,
         NEW m \in Nat, NEW bump \in ReputationBumps, NEW op \in OpIds,
         ClaimGrantMilestone(e, r, m, bump, op)
  PROVE  AwardsInv'
<1> DEFINE row == MilestoneRow(r, roster[e][r].position, SettlementOf(e, r, m), m)
<1>1. /\ MilestoneOpen(e, r, m, op) /\ Settle(e, r, m) /\ ~IsCrowdfunding(e)
      /\ IsActive(e) /\ EventExists(e) /\ roster[e][r] # None
      /\ winners' = WithWinners(e, <<row>>)
      /\ status' = [status EXCEPT
           ![e] = IF remaining_escrow'[e] = 0 THEN "Completed" ELSE @]
      /\ UNCHANGED <<terms, roster, prizeVars, cf_claimed>>
  BY Zenon DEF ClaimGrantMilestone, MilestoneOpen, IsActive, PayMilestone, Settle
<1>2. terms[e].pillar = "Grant"
  <2>1. ~IsSingle(e)
    <3>1. m < Milestones(Kind(e))
      BY <1>1, Zenon DEF MilestoneOpen
    <3> QED
      BY <3>1 DEF IsSingle, Milestones
  <2> QED
    BY <1>1, <2>1, KindsApart DEF AwardsInv, AwardsFit, StorageTypes
<1>3. SettlementOf(e, r, m) \in Nat
  BY <1>1, SettleTyped DEF StorageTypes
<1>4. row \in Winner /\ row.paid /\ row.recipient = r
      /\ row.amount = SettlementOf(e, r, m)
  <2>1. roster[e][r] \in GrantAward
    BY <1>1 DEF StorageTypes, GrantTypes
  <2> QED
    BY <1>3, <2>1 DEF MilestoneRow, Winner, GrantAward
<1> HIDE DEF row
<1>5. /\ winners'[e] = winners[e] \o <<row>> /\ winners[e] \in Seq(Winner)
      /\ \A x \in EventIds \ {e} : winners'[x] = winners[x] /\ status'[x] = status[x]
  BY <1>1 DEF WithWinners, StorageTypes, AwardTypes, RecordTypes
<1>6. winners'[e] # << >>
  BY <1>4, <1>5
<1>7. \A u \in Users : /\ PaidOut(e, u) \in Int
          /\ PaidOut(e, u)' = PaidOut(e, u)
               + (IF r = u THEN SettlementOf(e, r, m) ELSE 0)
  BY <1>4, <1>5, PaidAppended DEF StorageTypes
<1>8. /\ \A u \in Users \ {r} : PaidOut(e, u)' = PaidOut(e, u)
      /\ PaidOut(e, r) \in Int
      /\ PaidOut(e, r)' = PaidOut(e, r) + SettlementOf(e, r, m)
  BY <1>7
<1> QED
  BY <1>1, <1>2, <1>5, <1>6, <1>8, GrantStepAwards

\* forfeit_milestone.
LEMMA ForfeitMilestoneAwards ==
  ASSUME StorageTypes, AwardsInv, NEW e \in EventIds, NEW r \in Users,
         NEW m \in Nat, NEW op \in OpIds, ForfeitMilestone(e, r, m, op)
  PROVE  AwardsInv'
<1>1. /\ MilestoneOpen(e, r, m, op) /\ Settle(e, r, m)
      /\ terms[e].pillar = "Grant"
      /\ UNCHANGED <<terms, status, winners, roster, prizeVars, cf_claimed>>
  BY Zenon DEF ForfeitMilestone
<1>2. \A u \in Users : PaidOut(e, u)' = PaidOut(e, u)
  BY <1>1 DEF PaidOut
<1>3. PaidOut(e, r) \in Int
  <2>1. PICK w \in Seq(Winner) : w = winners[e]
    BY DEF StorageTypes, AwardTypes
  <2> DEFINE f == [i \in DOMAIN w |-> IF w[i].paid /\ w[i].recipient = r
                                      THEN w[i].amount ELSE 0]
  <2>2. \A i \in DOMAIN w : f[i] = IF w[i].paid /\ w[i].recipient = r
                                  THEN w[i].amount ELSE 0
    OBVIOUS
  <2> HIDE DEF f
  <2> QED
    BY <2>1, <2>2, PaidSum DEF PaidOut
<1> QED
  BY <1>1, <1>2, <1>3, GrantStepAwards

-----------------------------------------------------------------------------
(* Selecting grantees                                                      *)

\* What the shared guards of select_winners say of a batch.
LEMMA SelectionTyped ==
  ASSUME StorageTypes, NEW e \in EventIds, NEW batch \in WinnerBatches,
         NEW cap, NEW op, SelectionAllowed(e, batch, cap, op)
  PROVE  /\ EventExists(e) /\ status[e] = "Active" /\ ~IsCrowdfunding(e)
         /\ batch \in Seq(WinnerSpec) /\ Len(batch) \in Nat \ {0}
         /\ \A i \in 1 .. Len(batch) : batch[i] \in WinnerSpec
         /\ \A i, j \in 1 .. Len(batch) : batch[i].position = batch[j].position => i = j
         /\ Committed(e, batch) \in Int
<1>1. /\ IsActive(e) /\ ~IsCrowdfunding(e) /\ Len(batch) \in 1 .. cap
      /\ \A i, j \in DOMAIN batch : batch[i].position = batch[j].position => i = j
      /\ InI128(Committed(e, batch))
  BY Zenon DEF SelectionAllowed
<1>2. batch \in Seq(WinnerSpec)
  BY StorageAssumption
<1>3. Len(batch) \in Nat \ {0} /\ DOMAIN batch = 1 .. Len(batch)
  BY <1>1, <1>2
<1>4. Committed(e, batch) \in Int
  BY <1>1, CommittedTyped
<1> QED
  BY <1>1, <1>2, <1>3, <1>4 DEF IsActive

\* What a batch commits, as a sum over the batch.
LEMMA CommittedSum ==
  ASSUME NEW e \in EventIds, NEW batch \in Seq(WinnerSpec)
  PROVE  LET f == [i \in 1 .. Len(batch) |-> batch[i].amount]
         IN  /\ Committed(e, batch)
                  = SumFunctionOnSet(f, 1 .. Len(batch)) + owed_total[e]
             /\ \A i \in 1 .. Len(batch) : f[i] \in Int
<1>1. DOMAIN batch = 1 .. Len(batch)
  OBVIOUS
<1>2. \A i \in 1 .. Len(batch) : batch[i].amount \in Int
  <2> SUFFICES ASSUME NEW i \in 1 .. Len(batch) PROVE batch[i].amount \in Int
    OBVIOUS
  <2>1. batch[i] \in WinnerSpec
    OBVIOUS
  <2> QED
    BY <2>1 DEF WinnerSpec
<1> QED
  BY <1>1, <1>2 DEF Committed, SumFunction

\* select_winners on a grant: nothing is settled and nothing paid yet, so the
\* roster is owed what it was awarded.
LEMMA SelectGranteesAwards ==
  ASSUME StorageTypes, AwardsInv, NEW e \in EventIds,
         NEW batch \in WinnerBatches, NEW op \in OpIds,
         SelectGrantees(e, batch, op)
  PROVE  AwardsInv'
<1> DEFINE n == Len(batch)
           f == [i \in 1 .. n |-> batch[i].amount]
           c == [i \in 1 .. n |-> batch[i].recipient]
<1>1. /\ SelectionAllowed(e, batch, MaxGrantAwards, op) /\ ~IsSingle(e)
      /\ winners[e] = << >>
      /\ \A i \in DOMAIN batch : EveryMilestonePays(Kind(e), batch[i].amount)
      /\ \A i, j \in DOMAIN batch :
           batch[i].recipient = batch[j].recipient => i = j
      /\ owed_total' = [owed_total EXCEPT ![e] = Committed(e, batch)]
      /\ roster' = [roster EXCEPT ![e] =
           [u \in Users |->
              IF u \in AwardedRecipients(batch)
              THEN LET i == CHOOSE i \in DOMAIN batch : batch[i].recipient = u
                   IN  [position |-> batch[i].position,
                        amount |-> batch[i].amount]
              ELSE None]]
      /\ winners' = WithWinners(e, AwardRows(batch))
      /\ UNCHANGED <<terms, status, prizeVars, progress, milestone_claimed, cf_claimed>>
  BY Zenon DEF SelectGrantees, UnchangedBySelection
<1>2. /\ EventExists(e) /\ ~IsCrowdfunding(e) /\ batch \in Seq(WinnerSpec)
      /\ n \in Nat \ {0} /\ DOMAIN batch = 1 .. n
      /\ \A i \in 1 .. n : batch[i] \in WinnerSpec
      /\ Committed(e, batch) \in Int
  BY <1>1, SelectionTyped
<1>3. terms[e].pillar = "Grant" /\ KindFits(e) /\ GrantFits(e) /\ AwardsFit(e)
  BY <1>1, <1>2, KindsApart DEF AwardsInv, AwardsFit, StorageTypes
<1>4. /\ Grantees(e) = {} /\ milestone_claimed[e] = {}
      /\ \A u \in Users : progress[e][u] = [settled |-> 0, settled_amount |-> 0]
      /\ owed_total[e] = 0
  <2>1. /\ Grantees(e) = {} /\ milestone_claimed[e] = {}
        /\ \A u \in Users : progress[e][u] = [settled |-> 0, settled_amount |-> 0]
        /\ owed_total[e] = Unsettled(e)
    BY <1>1, <1>2, <1>3 DEF GrantFits
  <2>2. Unsettled(e) = 0
    BY <2>1, SumEmpty DEF Unsettled, SumFunction
  <2> QED
    BY <2>1, <2>2
<1>5. /\ \A i \in 1 .. n : /\ c[i] \in Users /\ roster'[e][c[i]] # None
                          /\ roster'[e][c[i]].amount = f[i]
      /\ \A u \in Users : roster'[e][u] # None => \E i \in 1 .. n : u = c[i]
      /\ \A x \in EventIds \ {e} : roster'[x] = roster[x]
  <2>1. /\ \A u \in Users : roster'[e][u] =
              IF u \in AwardedRecipients(batch)
              THEN LET i == CHOOSE i \in DOMAIN batch : batch[i].recipient = u
                   IN  [position |-> batch[i].position,
                        amount |-> batch[i].amount]
              ELSE None
        /\ \A x \in EventIds \ {e} : roster'[x] = roster[x]
    BY <1>1 DEF StorageTypes, GrantTypes
  <2>2. ASSUME NEW i \in 1 .. n
        PROVE  /\ c[i] \in Users /\ roster'[e][c[i]].amount = f[i]
               /\ roster'[e][c[i]] # None
    <3>1. /\ batch[i].recipient \in Users /\ batch[i].position \in Positions
          /\ batch[i].amount \in Int
      BY <1>2 DEF WinnerSpec
    <3>2. /\ batch[i].recipient \in AwardedRecipients(batch)
          /\ i = CHOOSE j \in DOMAIN batch : batch[j].recipient = batch[i].recipient
      BY <1>1, <1>2 DEF AwardedRecipients
    <3>3. roster'[e][c[i]] = [position |-> batch[i].position, amount |-> batch[i].amount]
      BY <2>1, <3>1, <3>2
    <3>4. roster'[e][c[i]] \in GrantAward
      BY <3>1, <3>3 DEF GrantAward
    <3> QED
      BY <3>1, <3>3, <3>4, NoneAssumption
  <2>3. ASSUME NEW u \in Users, roster'[e][u] # None
        PROVE  \E i \in 1 .. n : u = c[i]
    <3>1. u \in AwardedRecipients(batch)
      BY <2>1, <2>3
    <3> QED
      BY <1>2, <3>1 DEF AwardedRecipients
  <2> QED
    BY <2>1, <2>2, <2>3
<1>6. Grantees(e)' = {c[i] : i \in 1 .. n}
  BY <1>5 DEF Grantees
<1>7. winners'[e] = AwardRows(batch) /\ AwardRows(batch) \in Seq(Winner)
      /\ \A x \in EventIds \ {e} : winners'[x] = winners[x]
  <2>1. AwardRows(batch) \in Seq(Winner)
    BY AwardRowsTyped
  <2> QED
    BY <1>1, <2>1 DEF WithWinners, StorageTypes, AwardTypes
<1>8. \A u \in Users : PaidOut(e, u)' = 0
  <2> SUFFICES ASSUME NEW u \in Users PROVE PaidOut(e, u)' = 0
    OBVIOUS
  <2> DEFINE w == AwardRows(batch)
             z == [i \in DOMAIN w |-> 0]
  <2>1. \A i \in DOMAIN w : ~w[i].paid
    BY DEF AwardRows
  <2>2. w \in Seq(Winner) /\ IsFiniteSet(DOMAIN w)
    <3>1. w \in Seq(Winner) /\ DOMAIN w = 1 .. n
      BY <1>7 DEF AwardRows
    <3> QED
      BY <1>2, <3>1, FS_Interval
  <2>3. \A i \in DOMAIN w : z[i] = 0
    OBVIOUS
  <2> HIDE DEF w, z
  <2>4. \A i \in DOMAIN w : z[i] = IF w[i].paid /\ w[i].recipient = u
                                  THEN w[i].amount ELSE 0
    BY <2>1, <2>3
  <2>5. PaidIn(w, u) = SumFunctionOnSet(z, DOMAIN w)
    BY <2>2, <2>4, PaidSum
  <2>6. SumFunctionOnSet(z, DOMAIN w) = 0
    BY <2>2, <2>3, SumZero
  <2> QED
    BY <1>7, <2>5, <2>6 DEF PaidOut, w
<1>9. ASSUME NEW u \in Grantees(e)' PROVE GranteeFits(e, u)'
  <2>1. PICK i \in 1 .. n : u = c[i]
    BY <1>6
  <2>2. u \in Users /\ roster'[e][u].amount = batch[i].amount
    BY <1>5, <2>1
  <2>3. /\ EveryMilestonePays(Kind(e), roster'[e][u].amount)
        /\ Kind(e)' = Kind(e)
    BY <1>1, <1>2, <2>2 DEF Kind
  <2>4. /\ progress'[e][u].settled = 0 /\ progress'[e][u].settled_amount = 0
        /\ milestone_claimed'[e] = {}
    BY <1>1, <1>4, <2>2
  <2>5. SettledBy(e, u)' = {}
    BY <2>4 DEF SettledBy
  <2>6. Milestones(Kind(e)) # 0
    <3> DEFINE g == [m \in 0 .. Milestones(Kind(e)) - 1 |->
                       MilestoneShare(Kind(e), batch[i].amount, m)]
    <3>1. /\ Kind(e) \in ReleaseKinds /\ ReleaseKindFits("Grant", Kind(e))
          /\ batch[i].amount \in Int
      BY <1>2, <1>3, KindTyped DEF KindFits, StorageTypes, WinnerSpec
    <3>2. \A m \in 0 .. Milestones(Kind(e)) - 1 :
            g[m] = MilestoneShare(Kind(e), batch[i].amount, m)
      OBVIOUS
    <3> HIDE DEF g
    <3> QED
      BY <2>2, <2>3, <3>1, <3>2, SharesWithinAward
  <2>7. SumFunctionOnSet(Shares(e, u)', {}) = 0 /\ Cardinality({}) = 0
    BY SumEmpty, FS_EmptySet
  <2>8. PaidOut(e, u)' = 0
    BY <1>8, <2>2
  <2> QED
    BY <2>3, <2>4, <2>5, <2>6, <2>7, <2>8 DEF GranteeFits
<1>10. owed_total'[e] = Unsettled(e)' /\ Unsettled(e)' >= 0
  <2> DEFINE D == {c[i] : i \in 1 .. n}
             h == [u \in D |-> roster'[e][u].amount - progress'[e][u].settled_amount]
  <2>1. Unsettled(e)' = SumFunctionOnSet(h, D)
    BY <1>6 DEF Unsettled, SumFunction
  <2>2. \A i \in 1 .. n : h[c[i]] = f[i] /\ f[i] \in Nat
    <3> SUFFICES ASSUME NEW i \in 1 .. n PROVE h[c[i]] = f[i] /\ f[i] \in Nat
      OBVIOUS
    <3>1. c[i] \in D /\ c[i] \in Users /\ roster'[e][c[i]].amount = f[i]
      BY <1>5
    <3>2. progress'[e][c[i]].settled_amount = 0
      BY <1>1, <1>4, <3>1
    <3>3. f[i] \in Int
      BY <1>2 DEF WinnerSpec
    <3>4. f[i] \in Nat
      <4> DEFINE g == [m \in 0 .. Milestones(Kind(e)) - 1 |->
                         MilestoneShare(Kind(e), f[i], m)]
      <4>1. /\ Kind(e) \in ReleaseKinds /\ ReleaseKindFits("Grant", Kind(e))
            /\ EveryMilestonePays(Kind(e), f[i])
        BY <1>1, <1>2, <1>3, KindTyped DEF KindFits, StorageTypes
      <4>2. \A m \in 0 .. Milestones(Kind(e)) - 1 :
              g[m] = MilestoneShare(Kind(e), f[i], m)
        OBVIOUS
      <4> HIDE DEF g, f
      <4> QED
        BY <3>3, <4>1, <4>2, SharesWithinAward
    <3> QED
      BY <3>1, <3>2, <3>4
  <2>3. \A i, j \in 1 .. n : c[i] = c[j] => i = j
    BY <1>1, <1>2
  <2>4. IsFiniteSet(1 .. n)
    BY <1>2, FS_Interval
  <2>5. Committed(e, batch) = SumFunctionOnSet(f, 1 .. n) + owed_total[e]
    BY <1>2, CommittedSum
  <2> DEFINE I == 1 .. n
  <2>6. D = {c[i] : i \in I}
    OBVIOUS
  <2> HIDE DEF f, c, D, h, I
  <2>7. SumFunctionOnSet(f, I) = SumFunctionOnSet(h, {c[i] : i \in I})
    <3>1. /\ IsFiniteSet(I) /\ \A i, j \in I : c[i] = c[j] => i = j
          /\ \A i \in I : h[c[i]] \in Int /\ f[i] = h[c[i]]
      BY <2>2, <2>3, <2>4 DEF I
    <3> QED
      BY <3>1, SumImage
  <2>8. SumFunctionOnSet(f, I) = Unsettled(e)' /\ SumFunctionOnSet(f, I) \in Nat
    <3>1. IsFiniteSet(I) /\ \A i \in I : f[i] \in Nat
      BY <2>2, <2>4 DEF I
    <3>2. SumFunctionOnSet(f, I) \in Nat
      BY <3>1, SumNat
    <3> QED
      BY <2>1, <2>6, <2>7, <3>2, Zenon
  <2>9. Committed(e, batch) = SumFunctionOnSet(f, I) + owed_total[e]
    BY <2>5 DEF I
  <2>10. owed_total'[e] = Committed(e, batch)
    BY <1>1 DEF StorageTypes, AwardTypes
  <2> QED
    BY <1>4, <2>8, <2>9, <2>10
<1>11. /\ EventExists(e)' /\ KindFits(e)' /\ ~IsSingle(e)' /\ ~IsCrowdfunding(e)'
  BY <1>1, <1>2, <1>3 DEF KindFits, EventExists, Kind, IsSingle, IsCrowdfunding
<1>12. winners'[e] # << >>
  BY <1>2, <1>7 DEF AwardRows
<1>13. AwardsFit(e)'
  <2>1. terms'[e].pillar = "Grant"
    BY <1>1, <1>3
  <2> QED
    BY <1>9, <1>10, <1>11, <1>12, <2>1
    DEF AwardsFit, NoAwardsYet, RosterFits, PrizesFit, GrantFits, CampaignFits
<1>14. \A x \in EventIds \ {e} : SameAwards(x)
  BY <1>1, <1>5, <1>7 DEF SameAwards, prizeVars, StorageTypes, AwardTypes
<1> QED
  BY <1>13, <1>14, OneAwardsFit

-----------------------------------------------------------------------------
(* Prizes                                                                  *)

\* What the unpaid rows of a winners list add up to.
DueIn(w) ==
  SumFunction([i \in {j \in DOMAIN w : ~w[j].paid} |-> w[i].amount])

\* The unpaid rows, as a sum over all rows.
LEMMA DueSum ==
  ASSUME NEW w \in Seq(Winner), NEW f,
         \A i \in DOMAIN w : f[i] = IF w[i].paid THEN 0 ELSE w[i].amount
  PROVE  /\ DueIn(w) = SumFunctionOnSet(f, DOMAIN w)
         /\ DueIn(w) \in Int
         /\ \A i \in DOMAIN w : f[i] \in Int
<1> DEFINE rows == {i \in DOMAIN w : ~w[i].paid}
           g == [i \in rows |-> w[i].amount]
<1>1. \A i \in DOMAIN w : w[i].amount \in Int /\ f[i] \in Int
  <2> SUFFICES ASSUME NEW i \in DOMAIN w PROVE w[i].amount \in Int /\ f[i] \in Int
    OBVIOUS
  <2>1. w[i] \in Winner
    OBVIOUS
  <2>2. w[i].amount \in Int
    BY <2>1 DEF Winner
  <2> QED
    BY <2>2
<1>2. /\ SumFunction(g) = SumFunctionOnSet(g, rows) /\ rows \in SUBSET DOMAIN w
      /\ \A i \in rows : g[i] \in Int /\ f[i] = g[i]
      /\ \A i \in DOMAIN w \ rows : f[i] = 0
  BY <1>1 DEF SumFunction
<1>3. IsFiniteSet(DOMAIN w)
  <2>1. DOMAIN w = 1 .. Len(w) /\ Len(w) \in Nat
    OBVIOUS
  <2> QED
    BY <2>1, FS_Interval
<1> HIDE DEF rows, g
<1>4. SumFunctionOnSet(f, DOMAIN w) = SumFunctionOnSet(g, rows)
  BY <1>2, <1>3, SumWhere
<1>5. SumFunctionOnSet(f, DOMAIN w) \in Int
  BY <1>1, <1>3, SumInt
<1> QED
  BY <1>1, <1>2, <1>4, <1>5 DEF rows, g, DueIn

\* f lists what the rows of v, all unpaid, are worth.
AllDue(v, f) == \A i \in 1 .. Len(v) : ~v[i].paid /\ f[i] = v[i].amount

\* A batch of unpaid rows adds its amounts to what is due.
LEMMA DueAppended ==
  ASSUME NEW w \in Seq(Winner), NEW v \in Seq(Winner), NEW g, AllDue(v, g)
  PROVE  DueIn(w \o v) = DueIn(w) + SumFunctionOnSet(g, 1 .. Len(v))
<1>1. PICK n \in Nat, k \in Nat : n = Len(w) /\ k = Len(v)
  OBVIOUS
<1>2. PICK x \in Seq(Winner) : x = w \o v
  <2>1. w \o v \in Seq(Winner)
    OBVIOUS
  <2> QED
    BY <2>1
<1>3. /\ DOMAIN w = 1 .. n /\ DOMAIN x = 1 .. n + k
      /\ \A i \in 1 .. n : x[i] = w[i]
      /\ \A i \in 1 .. k : x[n + i] = v[i]
  <2>1. /\ Len(w \o v) = n + k
        /\ \A i \in 1 .. n : (w \o v)[i] = w[i]
        /\ \A i \in 1 .. k : (w \o v)[n + i] = v[i]
    BY <1>1
  <2> QED
    BY <1>1, <1>2, <2>1
<1> DEFINE Due(y, i) == IF y[i].paid THEN 0 ELSE y[i].amount
           f == [i \in 1 .. n |-> Due(w, i)]
           h == [i \in 1 .. n + k |-> Due(x, i)]
<1>4. /\ DueIn(w) = SumFunctionOnSet(f, 1 .. n)
      /\ \A i \in 1 .. n : f[i] \in Int
  <2>1. \A i \in DOMAIN w : f[i] = IF w[i].paid THEN 0 ELSE w[i].amount
    BY <1>3
  <2> HIDE DEF f
  <2>2. /\ DueIn(w) = SumFunctionOnSet(f, DOMAIN w)
        /\ \A i \in DOMAIN w : f[i] \in Int
    BY <2>1, DueSum
  <2> QED
    BY <1>3, <2>2, Zenon
<1>5. /\ DueIn(x) = SumFunctionOnSet(h, 1 .. n + k)
      /\ \A i \in 1 .. n + k : h[i] \in Int
  <2>1. \A i \in DOMAIN x : h[i] = IF x[i].paid THEN 0 ELSE x[i].amount
    BY <1>3
  <2> HIDE DEF h
  <2>2. /\ DueIn(x) = SumFunctionOnSet(h, DOMAIN x)
        /\ \A i \in DOMAIN x : h[i] \in Int
    BY <2>1, DueSum
  <2> QED
    BY <1>3, <2>2, Zenon
<1>6. /\ \A i \in 1 .. n : h[i] = f[i]
      /\ \A i \in 1 .. k : g[i] = h[n + i]
  <2>1. \A i \in 1 .. k : h[n + i] = Due(x, n + i)
    OBVIOUS
  <2>2. \A i \in 1 .. n : h[i] = Due(x, i)
    OBVIOUS
  <2> QED
    BY <1>1, <1>3, <2>1, <2>2 DEF AllDue
<1> HIDE DEF f, h
<1>7. SumFunctionOnSet(h, 1 .. n) = SumFunctionOnSet(f, 1 .. n)
  <2> DEFINE I == 1 .. n
  <2>1. IsFiniteSet(I) /\ \A i \in I : f[i] \in Int /\ h[i] = f[i]
    BY <1>4, <1>6, FS_Interval
  <2> HIDE DEF I
  <2>2. SumFunctionOnSet(h, I) = SumFunctionOnSet(f, I)
    BY <2>1, SumSame
  <2> QED
    BY <2>2 DEF I
<1>8. SumFunctionOnSet(h, 1 .. n + k)
        = SumFunctionOnSet(h, 1 .. n) + SumFunctionOnSet(g, 1 .. k)
  BY <1>5, <1>6, SumAppend
<1> QED
  BY <1>1, <1>2, <1>4, <1>5, <1>7, <1>8

\* v is w with row a paid.
RowPaid(w, v, a) ==
  /\ DOMAIN v = DOMAIN w /\ a \in DOMAIN w
  /\ ~w[a].paid /\ v[a].paid
  /\ \A i \in DOMAIN w \ {a} : v[i] = w[i]

\* Paying a row takes its amount from what is due.
LEMMA DuePaid ==
  ASSUME NEW w \in Seq(Winner), NEW v \in Seq(Winner), NEW a, RowPaid(w, v, a)
  PROVE  DueIn(v) = DueIn(w) - w[a].amount
<1> DEFINE f == [i \in DOMAIN w |-> IF w[i].paid THEN 0 ELSE w[i].amount]
           g == [i \in DOMAIN w |-> IF v[i].paid THEN 0 ELSE v[i].amount]
           I == DOMAIN w
<1>1. IsFiniteSet(I)
  <2>1. DOMAIN w = 1 .. Len(w) /\ Len(w) \in Nat
    OBVIOUS
  <2> QED
    BY <2>1, FS_Interval
<1>2. /\ \A i \in DOMAIN w : f[i] = IF w[i].paid THEN 0 ELSE w[i].amount
      /\ \A i \in DOMAIN v : g[i] = IF v[i].paid THEN 0 ELSE v[i].amount
      /\ f[a] = w[a].amount /\ g[a] = 0
      /\ a \in I /\ \A i \in I \ {a} : g[i] = f[i]
  BY DEF RowPaid
<1> HIDE DEF f, g
<1>3. /\ DueIn(w) = SumFunctionOnSet(f, I) /\ DueIn(v) = SumFunctionOnSet(g, I)
      /\ \A i \in I : f[i] \in Int
  BY <1>2, DueSum DEF RowPaid
<1> HIDE DEF I
<1>4. SumFunctionOnSet(g, I) = SumFunctionOnSet(f, I) + g[a] - f[a]
  <2>1. a \in I /\ g[a] \in Int
    BY <1>2
  <2>2. \A i \in I \ {a} : g[i] = f[i]
    BY <1>2
  <2>3. \A i \in I : f[i] \in Int
    BY <1>3
  <2> QED
    BY <1>1, <2>1, <2>2, <2>3, SumChange
<1>5. SumFunctionOnSet(f, I) \in Int /\ f[a] \in Int
  BY <1>1, <1>2, <1>3, SumInt
<1> QED
  BY <1>2, <1>3, <1>4, <1>5

\* What is due of e's winners is what owed_total should hold.
LEMMA UnpaidAmountIsDue == ASSUME NEW e PROVE UnpaidAmount(e) = DueIn(winners[e])
BY DEF UnpaidAmount, UnpaidRows, DueIn

\* select_winners on prizes: each new row is the one its new award points at,
\* the older awards keep theirs, and the batch is owed on top.
LEMMA SelectPrizesAwards ==
  ASSUME StorageTypes, AwardsInv, NEW e \in EventIds,
         NEW batch \in WinnerBatches, NEW op \in OpIds,
         SelectPrizes(e, batch, op)
  PROVE  AwardsInv'
<1> DEFINE f == [i \in 1 .. Len(batch) |-> batch[i].amount]
<1>1. /\ SelectionAllowed(e, batch, MaxAwardsPerSelect, op) /\ IsSingle(e)
      /\ \A i \in DOMAIN batch :
           prize_award[e][batch[i].position] = None /\ batch[i].amount > 0
      /\ owed_total' = [owed_total EXCEPT ![e] = Committed(e, batch)]
      /\ winners' = WithWinners(e, AwardRows(batch))
      /\ prize_award' = [prize_award EXCEPT ![e] =
           [p \in Positions |->
              IF p \in AwardedPositions(batch)
              THEN LET i == CHOOSE i \in DOMAIN batch : batch[i].position = p
                   IN  [recipient |-> batch[i].recipient,
                        anchor_idx |-> AnchorIdx(e, i),
                        reputation_bump |-> batch[i].reputation_bump]
              ELSE @[p]]]
      /\ unclaimed_prizes' = [unclaimed_prizes EXCEPT ![e] = @ + Len(batch)]
      /\ UNCHANGED <<terms, status, cf_claimed, grantVars>>
  BY Zenon DEF SelectPrizes, UnchangedBySelection
<1>2. /\ EventExists(e) /\ status[e] = "Active" /\ batch \in Seq(WinnerSpec)
      /\ \A i \in 1 .. Len(batch) : batch[i] \in WinnerSpec
      /\ \A i, j \in 1 .. Len(batch) : batch[i].position = batch[j].position => i = j
  BY <1>1, SelectionTyped
<1>3. PICK n \in Nat, k \in Nat \ {0} : n = Len(winners[e]) /\ k = Len(batch)
  <2>1. Len(batch) \in Nat \ {0}
    BY <1>1, SelectionTyped
  <2>2. Len(winners[e]) \in Nat
    BY DEF StorageTypes, AwardTypes
  <2> QED
    BY <2>1, <2>2
<1>4. /\ AwardsFit(e) /\ PrizesFit(e) /\ owed_total[e] = UnpaidAmount(e)
      /\ \A i \in 1 .. n : RowFits(e, i)
      /\ unclaimed_prizes[e] = Cardinality(UnpaidRows(e))
  <2>1. DOMAIN winners[e] = 1 .. n
    BY <1>3 DEF StorageTypes, AwardTypes
  <2> QED
    BY <1>1, <1>2, <2>1 DEF AwardsInv, AwardsFit, PrizesFit
<1>5. PICK w \in Seq(Winner), v \in Seq(Winner) :
        /\ w = winners[e] /\ v = AwardRows(batch) /\ winners'[e] = w \o v
        /\ Len(w) = n /\ Len(v) = k
        /\ \A i \in 1 .. k : v[i] =
             [recipient |-> batch[i].recipient, position |-> batch[i].position,
              amount |-> batch[i].amount, milestone |-> None, paid |-> FALSE]
  <2>1. winners[e] \in Seq(Winner) /\ AwardRows(batch) \in Seq(Winner)
    BY <1>2, AwardRowsTyped DEF StorageTypes, AwardTypes
  <2>2. winners'[e] = winners[e] \o AwardRows(batch)
    BY <1>1 DEF WithWinners, StorageTypes, AwardTypes
  <2>3. /\ Len(AwardRows(batch)) = k
        /\ \A i \in 1 .. k : AwardRows(batch)[i] =
             [recipient |-> batch[i].recipient, position |-> batch[i].position,
              amount |-> batch[i].amount, milestone |-> None, paid |-> FALSE]
    BY <1>3 DEF AwardRows
  <2> QED
    BY <1>3, <2>1, <2>2, <2>3
<1>6. /\ DOMAIN winners'[e] = 1 .. n + k
      /\ \A i \in 1 .. n : winners'[e][i] = winners[e][i]
      /\ \A i \in 1 .. k : winners'[e][n + i] = v[i]
  <2>1. /\ Len(w \o v) = n + k
        /\ \A i \in 1 .. n : (w \o v)[i] = w[i]
        /\ \A i \in 1 .. k : (w \o v)[n + i] = v[i]
    <3>1. Len(w) = n /\ Len(v) = k
      BY <1>5
    <3> QED
      BY <3>1
  <2>2. w \o v \in Seq(Winner)
    OBVIOUS
  <2> QED
    BY <1>5, <2>1, <2>2
<1>7. /\ \A i \in 1 .. k : prize_award'[e][batch[i].position] =
             [recipient |-> batch[i].recipient, anchor_idx |-> n + i,
              reputation_bump |-> batch[i].reputation_bump]
      /\ \A p \in Positions : prize_award[e][p] # None
                                => prize_award'[e][p] = prize_award[e][p]
  <2>1. \A p \in Positions : prize_award'[e][p] =
          IF p \in AwardedPositions(batch)
          THEN LET i == CHOOSE i \in DOMAIN batch : batch[i].position = p
               IN  [recipient |-> batch[i].recipient,
                    anchor_idx |-> AnchorIdx(e, i),
                    reputation_bump |-> batch[i].reputation_bump]
          ELSE prize_award[e][p]
    BY <1>1 DEF StorageTypes, PrizeTypes
  <2>2. DOMAIN batch = 1 .. k
    BY <1>2, <1>3
  <2>3. ASSUME NEW i \in 1 .. k
        PROVE  prize_award'[e][batch[i].position] =
             [recipient |-> batch[i].recipient, anchor_idx |-> n + i,
              reputation_bump |-> batch[i].reputation_bump]
    <3>1. batch[i].position \in Positions
      BY <1>2, <1>3 DEF WinnerSpec
    <3>2. /\ batch[i].position \in AwardedPositions(batch)
          /\ i = CHOOSE j \in DOMAIN batch : batch[j].position = batch[i].position
      BY <1>2, <1>3, <2>2 DEF AwardedPositions
    <3>3. AnchorIdx(e, i) = n + i
      BY <1>3 DEF AnchorIdx
    <3> QED
      BY <2>1, <3>1, <3>2, <3>3, Zenon
  <2>4. ASSUME NEW p \in Positions, prize_award[e][p] # None
        PROVE  p \notin AwardedPositions(batch)
    BY <1>1, <2>4 DEF AwardedPositions
  <2> QED
    BY <2>1, <2>3, <2>4, Zenon
<1>8. \A i \in 1 .. n + k : RowFits(e, i)'
  <2>1. ASSUME NEW i \in 1 .. n PROVE RowFits(e, i)'
    <3>1. w[i] \in Winner
      BY <1>5
    <3>2. winners[e][i].position \in Positions
      BY <1>5, <3>1 DEF Winner
    <3>3. winners'[e][i] = winners[e][i] /\ RowFits(e, i)
      BY <1>4, <1>6
    <3>4. prize_award'[e][winners[e][i].position] = prize_award[e][winners[e][i].position]
      BY <1>7, <3>2, <3>3, Zenon DEF RowFits
    <3> QED
      BY <3>3, <3>4, Zenon DEF RowFits
  <2>2. ASSUME NEW i \in 1 .. k PROVE RowFits(e, n + i)'
    <3>1. /\ winners'[e][n + i].position = batch[i].position
          /\ winners'[e][n + i].recipient = batch[i].recipient
          /\ winners'[e][n + i].amount = batch[i].amount
      <4>1. PICK row : /\ row = v[i]
                       /\ row = [recipient |-> batch[i].recipient,
                                 position |-> batch[i].position,
                                 amount |-> batch[i].amount,
                                 milestone |-> None, paid |-> FALSE]
        BY <1>5, Zenon
      <4>2. winners'[e][n + i] = row
        BY <1>6, <4>1, Zenon
      <4>3. /\ row.position = batch[i].position
            /\ row.recipient = batch[i].recipient
            /\ row.amount = batch[i].amount
        BY <4>1
      <4> QED
        BY <4>2, <4>3, Zenon
    <3>2. PICK award : /\ award = prize_award'[e][batch[i].position]
                      /\ award = [recipient |-> batch[i].recipient,
                                  anchor_idx |-> n + i,
                                  reputation_bump |-> batch[i].reputation_bump]
      BY <1>7, Zenon
    <3>3. batch[i].amount > 0
      <4>1. DOMAIN batch = 1 .. k
        BY <1>2, <1>3
      <4> QED
        BY <1>1, <4>1, Zenon
    <3>4. award # None
      <4>1. /\ batch[i].recipient \in Users /\ batch[i].reputation_bump \in Nat
            /\ n + i \in Nat \ {0}
        BY <1>2, <1>3 DEF WinnerSpec
      <4>2. award \in PrizeAward
        BY <3>2, <4>1 DEF PrizeAward
      <4> QED
        BY <4>2, NoneAssumption
    <3>5. award.anchor_idx = n + i /\ award.recipient = batch[i].recipient
      BY <3>2
    <3> QED
      BY <3>1, <3>2, <3>3, <3>4, <3>5 DEF RowFits
  <2>3. ASSUME NEW i \in 1 .. n + k PROVE RowFits(e, i)'
    <3>1. CASE i \in 1 .. n
      BY <2>1, <3>1
    <3>2. CASE i \notin 1 .. n
      <4>1. i - n \in 1 .. k /\ n + (i - n) = i
        BY <3>2
      <4>2. RowFits(e, n + (i - n))'
        BY <2>2, <4>1
      <4> QED
        BY <4>1, <4>2
    <3> QED
      BY <3>1, <3>2
  <2> QED
    BY <2>3
<1>9. unclaimed_prizes'[e] = Cardinality(UnpaidRows(e)')
  <2>1. UnpaidRows(e)' = UnpaidRows(e) \cup (n + 1 .. n + k)
    <3>1. DOMAIN winners[e] = 1 .. n
      BY <1>5
    <3>2. \A i \in n + 1 .. n + k : ~winners'[e][i].paid
      <4>1. ASSUME NEW i \in n + 1 .. n + k PROVE ~winners'[e][i].paid
        <5>1. i - n \in 1 .. k /\ n + (i - n) = i
          OBVIOUS
        <5>2. winners'[e][n + (i - n)] = v[i - n] /\ ~v[i - n].paid
          BY <1>5, <1>6, <5>1
        <5> QED
          BY <5>1, <5>2
      <4> QED
        BY <4>1
    <3>3. 1 .. n + k = (1 .. n) \cup (n + 1 .. n + k)
      OBVIOUS
    <3> QED
      BY <1>6, <3>1, <3>2, <3>3 DEF UnpaidRows
  <2>2. /\ IsFiniteSet(n + 1 .. n + k) /\ Cardinality(n + 1 .. n + k) = k
    BY FS_Interval
  <2>3. UnpaidRows(e) \in SUBSET (1 .. n) /\ IsFiniteSet(UnpaidRows(e))
    <3>1. UnpaidRows(e) \in SUBSET (1 .. n)
      BY <1>5 DEF UnpaidRows
    <3>2. IsFiniteSet(1 .. n)
      BY FS_Interval
    <3> QED
      BY <3>1, <3>2, FS_Subset
  <2>4. UnpaidRows(e) \cap (n + 1 .. n + k) = {}
    BY <2>3
  <2>5. Cardinality(UnpaidRows(e) \cup (n + 1 .. n + k)) = Cardinality(UnpaidRows(e)) + k
    <3> DEFINE U == UnpaidRows(e)
               K == n + 1 .. n + k
    <3>1. IsFiniteSet(U) /\ IsFiniteSet(K) /\ U \cap K = {} /\ Cardinality(K) = k
      BY <2>2, <2>3, <2>4
    <3> HIDE DEF U, K
    <3>2. /\ Cardinality(U \cup K)
               = Cardinality(U) + Cardinality(K) - Cardinality(U \cap K)
          /\ Cardinality(U \cap K) = 0 /\ Cardinality(U) \in Nat
      BY <3>1, FS_Union, FS_EmptySet, FS_CardinalityType
    <3>3. Cardinality(U \cup K) = Cardinality(U) + k
      BY <3>1, <3>2
    <3> QED
      BY <3>3 DEF U, K
  <2>6. unclaimed_prizes'[e] = unclaimed_prizes[e] + k
    BY <1>1, <1>3 DEF StorageTypes, PrizeTypes
  <2> QED
    BY <1>4, <2>1, <2>5, <2>6
<1>10. owed_total'[e] = UnpaidAmount(e)' /\ owed_total'[e] >= 0
  <2> DEFINE I == 1 .. k
  <2>1. IsFiniteSet(I) /\ \A i \in I : f[i] \in Nat
    <3>1. IsFiniteSet(1 .. k)
      BY FS_Interval
    <3>2. ASSUME NEW i \in 1 .. k PROVE f[i] \in Nat
      <4>1. batch[i].amount \in Int /\ batch[i].amount > 0
        <5>1. batch[i] \in WinnerSpec /\ i \in DOMAIN batch
          BY <1>2, <1>3
        <5>2. batch[i].amount > 0
          BY <1>1, <5>1
        <5> QED
          BY <5>1, <5>2 DEF WinnerSpec
      <4> QED
        BY <1>3, <4>1
    <3> QED
      BY <3>1, <3>2
  <2>2. AllDue(v, f)
    <3>1. \A i \in 1 .. k : f[i] = batch[i].amount
      BY <1>3
    <3>2. \A i \in 1 .. k : v[i].amount = batch[i].amount /\ ~v[i].paid
      BY <1>5
    <3>3. Len(v) = k
      BY <1>5
    <3> HIDE DEF f
    <3> QED
      BY <3>1, <3>2, <3>3 DEF AllDue
  <2>3. Committed(e, batch) = SumFunctionOnSet(f, I) + owed_total[e]
    <3>1. Committed(e, batch) = SumFunctionOnSet(f, 1 .. Len(batch)) + owed_total[e]
      BY <1>2, CommittedSum
    <3> QED
      BY <1>3, <3>1
  <2> HIDE DEF f
  <2>4. DueIn(w \o v) = DueIn(w) + SumFunctionOnSet(f, I)
    <3>1. DueIn(w \o v) = DueIn(w) + SumFunctionOnSet(f, 1 .. Len(v))
      BY <2>2, DueAppended
    <3> QED
      BY <1>5, <3>1
  <2>5. UnpaidAmount(e) = DueIn(w) /\ UnpaidAmount(e)' = DueIn(w \o v)
    <3>1. UnpaidAmount(e)' = DueIn(winners'[e])
      BY DEF UnpaidAmount, UnpaidRows, DueIn
    <3> QED
      BY <1>5, <3>1, UnpaidAmountIsDue
  <2>6. owed_total'[e] = Committed(e, batch)
    BY <1>1 DEF StorageTypes, AwardTypes
  <2> HIDE DEF I
  <2>7. SumFunctionOnSet(f, I) \in Nat
    BY <2>1, SumNat
  <2>8. owed_total[e] \in Int /\ owed_total[e] >= 0
    BY <1>4 DEF AwardsFit, StorageTypes, AwardTypes
  <2> QED
    BY <1>4, <2>3, <2>4, <2>5, <2>6, <2>7, <2>8
<1>11. /\ EventExists(e)' /\ KindFits(e)' /\ RosterFits(e)' /\ IsSingle(e)'
       /\ terms'[e].pillar # "Grant" /\ ~IsCrowdfunding(e)'
  <2>1. terms[e].pillar # "Grant" /\ ~IsCrowdfunding(e)
    BY <1>1, <1>2, <1>4, KindsApart DEF AwardsFit, StorageTypes
  <2> QED
    BY <1>1, <1>2, <1>4, <2>1
    DEF AwardsFit, KindFits, RosterFits, EventExists, Kind, IsSingle,
        IsCrowdfunding, Grantees, grantVars
<1>12. AwardsFit(e)'
  BY <1>6, <1>8, <1>9, <1>10, <1>11
  DEF AwardsFit, NoAwardsYet, PrizesFit, GrantFits, CampaignFits
<1>13. \A x \in EventIds \ {e} : SameAwards(x)
  BY <1>1 DEF SameAwards, WithWinners, grantVars, StorageTypes, AwardTypes, PrizeTypes
<1> QED
  BY <1>12, <1>13, OneAwardsFit

\* claim_prize: the row it pays was due, is due no longer, and no other row or
\* award changes.
LEMMA ClaimPrizeAwards ==
  ASSUME StorageTypes, AwardsInv, NEW e \in EventIds, NEW p \in Positions,
         NEW op \in OpIds, ClaimPrize(e, p, op)
  PROVE  AwardsInv'
<1> DEFINE a == prize_award[e][p].anchor_idx
           amount == winners[e][a].amount
           paid == [winners[e][a] EXCEPT !.paid = TRUE]
<1>1. /\ IsActive(e) /\ IsSingle(e)
      /\ a \in DOMAIN winners[e] /\ ~winners[e][a].paid
      /\ owed_total[e] - amount >= 0
      /\ winners' = [winners EXCEPT ![e][a].paid = TRUE]
      /\ unclaimed_prizes' = [unclaimed_prizes EXCEPT
                                ![e] = IF @ > 0 THEN @ - 1 ELSE 0]
      /\ owed_total' = [owed_total EXCEPT ![e] = @ - amount]
      /\ status' = [status EXCEPT
           ![e] = IF remaining_escrow'[e] = 0 THEN "Completed" ELSE @]
      /\ UNCHANGED <<terms, prize_award, cf_claimed, grantVars>>
  BY Zenon DEF ClaimPrize, PrizeDue
<1> HIDE DEF a, amount
<1>2. EventExists(e) /\ status[e] = "Active"
  BY <1>1 DEF IsActive
<1>3. /\ AwardsFit(e) /\ owed_total[e] = UnpaidAmount(e)
      /\ \A i \in DOMAIN winners[e] : RowFits(e, i)
      /\ unclaimed_prizes[e] = Cardinality(UnpaidRows(e))
  BY <1>1, <1>2 DEF AwardsInv, AwardsFit, PrizesFit
<1>4. PICK w \in Seq(Winner) : w = winners[e]
  BY DEF StorageTypes, AwardTypes
<1>5. /\ DOMAIN winners'[e] = DOMAIN w /\ winners'[e] \in Seq(Winner)
      /\ winners'[e][a] = paid
      /\ \A i \in DOMAIN w \ {a} : winners'[e][i] = w[i]
      /\ \A x \in EventIds \ {e} : winners'[x] = winners[x]
  <2> HIDE DEF paid
  <2>1. winners' = [winners EXCEPT ![e] = [winners[e] EXCEPT ![a] = paid]]
    BY <1>1, Zenon DEF paid
  <2>2. winners'[e] = [w EXCEPT ![a] = paid]
    BY <1>4, <2>1 DEF StorageTypes, AwardTypes
  <2>3. paid \in Winner
    <3>1. w[a] \in Winner
      BY <1>1, <1>4
    <3> QED
      BY <1>4, <3>1 DEF paid, Winner
  <2>4. \A x \in EventIds \ {e} : winners'[x] = winners[x]
    BY <2>1 DEF StorageTypes, AwardTypes
  <2>5. [w EXCEPT ![a] = paid] \in Seq(Winner)
    BY <1>1, <1>4, <2>3
  <2> QED
    BY <1>1, <1>4, <2>2, <2>4, <2>5
<1>6. /\ paid.paid /\ paid.position = w[a].position
      /\ paid.recipient = w[a].recipient /\ paid.amount = w[a].amount
  <2>1. w[a] \in Winner
    BY <1>1, <1>4
  <2> QED
    BY <1>4, <2>1 DEF Winner
<1> HIDE DEF paid
<1>7. \A i \in DOMAIN winners'[e] : RowFits(e, i)'
  <2> SUFFICES ASSUME NEW i \in DOMAIN w PROVE RowFits(e, i)'
    BY <1>5
  <2>1. RowFits(e, i) /\ prize_award'[e] = prize_award[e]
    BY <1>1, <1>3, <1>4
  <2>2. /\ winners'[e][i].position = winners[e][i].position
        /\ winners'[e][i].recipient = winners[e][i].recipient
        /\ winners'[e][i].amount = winners[e][i].amount
    BY <1>4, <1>5, <1>6
  <2> QED
    BY <2>1, <2>2 DEF RowFits
<1>8. unclaimed_prizes'[e] = Cardinality(UnpaidRows(e)')
  <2>1. UnpaidRows(e)' = UnpaidRows(e) \ {a} /\ a \in UnpaidRows(e)
    BY <1>1, <1>4, <1>5, <1>6 DEF UnpaidRows
  <2>2. IsFiniteSet(UnpaidRows(e))
    <3>1. DOMAIN w = 1 .. Len(w) /\ Len(w) \in Nat
      OBVIOUS
    <3>2. IsFiniteSet(DOMAIN w)
      BY <3>1, FS_Interval
    <3>3. UnpaidRows(e) \in SUBSET DOMAIN w
      BY <1>4 DEF UnpaidRows
    <3> QED
      BY <3>2, <3>3, FS_Subset
  <2>3. PICK c \in Nat : c = Cardinality(UnpaidRows(e)) /\ c > 0
    <3>1. /\ Cardinality(UnpaidRows(e)) \in Nat
          /\ Cardinality(UnpaidRows(e)) # 0
      BY <2>1, <2>2, FS_CardinalityType, FS_EmptySet
    <3> QED
      BY <3>1
  <2>4. Cardinality(UnpaidRows(e) \ {a}) = c - 1
    BY <2>1, <2>2, <2>3, FS_RemoveElement
  <2>5. unclaimed_prizes'[e] = c - 1
    BY <1>1, <1>3, <2>3 DEF StorageTypes, PrizeTypes
  <2> QED
    BY <2>1, <2>4, <2>5
<1>9. owed_total'[e] = UnpaidAmount(e)' /\ owed_total'[e] >= 0
  <2>1. RowPaid(w, winners'[e], a)
    BY <1>1, <1>4, <1>5, <1>6 DEF RowPaid
  <2>2. DueIn(winners'[e]) = DueIn(w) - w[a].amount
    BY <1>5, <2>1, DuePaid
  <2>3. UnpaidAmount(e) = DueIn(w) /\ UnpaidAmount(e)' = DueIn(winners'[e])
    <3>1. UnpaidAmount(e)' = DueIn(winners'[e])
      BY DEF UnpaidAmount, UnpaidRows, DueIn
    <3> QED
      BY <1>4, <3>1, UnpaidAmountIsDue
  <2>4. owed_total'[e] = owed_total[e] - w[a].amount /\ owed_total'[e] >= 0
    BY <1>1, <1>4 DEF amount, StorageTypes, AwardTypes
  <2> QED
    BY <1>3, <2>2, <2>3, <2>4
<1>10. /\ EventExists(e)' /\ KindFits(e)' /\ RosterFits(e)' /\ IsSingle(e)'
       /\ terms'[e].pillar # "Grant" /\ ~IsCrowdfunding(e)'
  <2>1. terms[e].pillar # "Grant" /\ ~IsCrowdfunding(e)
    BY <1>1, <1>2, <1>3, KindsApart DEF AwardsFit, StorageTypes
  <2> QED
    BY <1>1, <1>2, <1>3, <2>1
    DEF AwardsFit, KindFits, RosterFits, EventExists, Kind, IsSingle,
        IsCrowdfunding, Grantees, grantVars
<1>11. AwardsFit(e)'
  BY <1>7, <1>8, <1>9, <1>10
  DEF AwardsFit, NoAwardsYet, PrizesFit, GrantFits, CampaignFits
<1>12. \A x \in EventIds \ {e} : SameAwards(x)
  BY <1>1, <1>5 DEF SameAwards, grantVars, StorageTypes, AwardTypes, PrizeTypes,
                    RecordTypes
<1> QED
  BY <1>11, <1>12, OneAwardsFit

-----------------------------------------------------------------------------
(* Campaigns                                                               *)

\* claim_milestone on a campaign: an equal part of what is left empties the
\* escrow exactly when no other milestone is left.
LEMMA ClaimCampaignMilestoneAwards ==
  ASSUME StorageTypes, AwardsInv, NEW e \in EventIds, NEW r \in Users,
         NEW m \in Nat, NEW bump \in ReputationBumps, NEW op \in OpIds,
         ClaimCampaignMilestone(e, r, m, bump, op)
  PROVE  AwardsInv'
<1> DEFINE draw == CampaignDraw(e)
           n == Milestones(Kind(e))
           T == SettledBy(e, r)
<1>1. /\ IsActive(e) /\ IsCrowdfunding(e) /\ r = Owner(e)
      /\ m < n /\ <<r, m>> \notin milestone_claimed[e] /\ n > cf_claimed[e]
      /\ draw > 0 /\ draw <= remaining_escrow[e]
      /\ remaining_escrow' = [remaining_escrow EXCEPT ![e] = @ - draw]
      /\ winners' = WithWinners(e, <<MilestoneRow(r, 1, draw, m)>>)
      /\ status' = [status EXCEPT
           ![e] = IF remaining_escrow'[e] = 0 THEN "Completed" ELSE @]
      /\ milestone_claimed' = [milestone_claimed EXCEPT ![e] = @ \cup {<<r, m>>}]
      /\ cf_claimed' = [cf_claimed EXCEPT ![e] = @ + 1]
      /\ UNCHANGED <<terms, prizeVars, owed_total, roster, progress>>
  BY Zenon DEF ClaimCampaignMilestone, MilestoneOpen, PayMilestone
<1>2. EventExists(e) /\ status[e] = "Active"
  BY <1>1 DEF IsActive
<1>3. /\ AwardsFit(e) /\ KindFits(e) /\ ~IsSingle(e) /\ terms[e].pillar # "Grant"
      /\ cf_claimed[e] = Cardinality(SettledBy(e, Owner(e)))
  <2>1. AwardsFit(e) /\ KindFits(e)
    BY DEF AwardsInv, AwardsFit
  <2>2. ~IsSingle(e) /\ terms[e].pillar # "Grant"
    BY <1>1, <1>2, <2>1, KindsApart DEF StorageTypes
  <2> QED
    BY <1>1, <1>2, <2>1, <2>2 DEF AwardsFit, CampaignFits
<1>4. PICK k \in Nat : k = Milestones(Kind(e)) /\ k > 0
  <2>1. /\ Kind(e) \in ReleaseKinds /\ Kind(e).form = "Multi" /\ Kind(e).n > 0
    BY <1>1, <1>2, <1>3, KindTyped DEF KindFits, ReleaseKindFits, IsCrowdfunding,
                                       StorageTypes
  <2> QED
    BY <2>1 DEF ReleaseKinds, Milestones
<1>5. PICK c \in Nat, held \in Nat : /\ c = cf_claimed[e] /\ c < k
                                    /\ held = remaining_escrow[e]
  <2>1. cf_claimed[e] \in Nat /\ remaining_escrow[e] \in Nat
    BY DEF StorageTypes, CampaignTypes, RecordTypes
  <2> QED
    BY <1>1, <1>4, <2>1
<1>6. (held - draw = 0) <=> (c + 1 = k)
  <2>1. PICK l \in Nat \ {0} : l = k - c
    <3>1. k - c \in Nat \ {0}
      BY <1>5
    <3> QED
      BY <3>1
  <2>2. draw = held \div l
    BY <1>4, <1>5, <2>1 DEF CampaignDraw
  <2>3. PICK d \in Nat : d = held \div l /\ l * d <= held
    BY <2>1, RoundedDown
  <2>4. d > 0 /\ d <= held
    BY <1>1, <1>5, <2>2, <2>3
  <2>5. CASE l = 1
    <3>1. held \div 1 = held
      OBVIOUS
    <3> QED
      BY <2>1, <2>2, <2>5, <3>1
  <2>6. CASE l # 1
    <3>1. 2 * d <= l * d
      BY <2>1, <2>6
    <3>2. held - d # 0
      BY <2>3, <2>4, <3>1
    <3> QED
      BY <2>1, <2>2, <2>3, <2>6, <3>2
  <2> QED
    BY <2>5, <2>6
<1>7. /\ remaining_escrow'[e] = held - draw
      /\ (status'[e] = "Completed") <=> (c + 1 = k)
  BY <1>1, <1>2, <1>5, <1>6 DEF StorageTypes, RecordTypes
<1>8. cf_claimed'[e] = c + 1
  BY <1>1, <1>5 DEF StorageTypes, CampaignTypes
<1>9. /\ Kind(e)' = Kind(e) /\ Owner(e)' = r
      /\ EventExists(e)' /\ IsCrowdfunding(e)' /\ ~IsSingle(e)'
      /\ terms'[e].pillar # "Grant" /\ KindFits(e)' /\ RosterFits(e)'
  BY <1>1, <1>2, <1>3 DEF AwardsFit, KindFits, RosterFits, EventExists, Kind, Owner,
                          IsSingle, IsCrowdfunding, Grantees
<1>10. c + 1 = Cardinality(SettledBy(e, r)')
  <2>1. SettledBy(e, r)' = T \cup {m} /\ m \notin T
    <3>1. milestone_claimed'[e] = milestone_claimed[e] \cup {<<r, m>>}
      BY <1>1 DEF StorageTypes, GrantTypes
    <3>2. m \in 0 .. n - 1
      BY <1>1, <1>4
    <3> QED
      BY <1>1, <1>9, <3>1, <3>2 DEF SettledBy
  <2>2. IsFiniteSet(T) /\ Cardinality(T) = c
    <3>1. PICK h \in Nat : h = k - 1
      <4>1. k - 1 \in Nat
        BY <1>4
      <4> QED
        BY <4>1
    <3>2. IsFiniteSet(0 .. h)
      BY FS_Interval
    <3>3. T \in SUBSET (0 .. h)
      BY <1>4, <3>1 DEF SettledBy
    <3>4. IsFiniteSet(T)
      BY <3>2, <3>3, FS_Subset
    <3> QED
      BY <1>1, <1>3, <1>5, <3>4
  <2> HIDE DEF T
  <2>3. Cardinality(T \cup {m}) = c + 1
    BY <2>1, <2>2, FS_AddElement
  <2> QED
    BY <2>1, <2>3
<1>11. owed_total'[e] >= 0
  BY <1>1, <1>3 DEF AwardsFit
<1>12. AwardsFit(e)'
  BY <1>4, <1>7, <1>8, <1>9, <1>10, <1>11
  DEF AwardsFit, NoAwardsYet, PrizesFit, GrantFits, CampaignFits
<1>13. \A x \in EventIds \ {e} : SameAwards(x)
  BY <1>1 DEF SameAwards, prizeVars, WithWinners, StorageTypes, AwardTypes,
              GrantTypes, RecordTypes, CampaignTypes
<1> QED
  BY <1>12, <1>13, OneAwardsFit

-----------------------------------------------------------------------------
(* The other steps                                                         *)

\* At deployment nothing is awarded.
LEMMA InitAwards == Init => AwardsInv
<1> SUFFICES ASSUME Init, NEW e \in EventIds PROVE AwardsFit(e)
  BY DEF AwardsInv
<1>1. terms = << >> /\ ~EventExists(e)
  BY DEF Init, EventExists
<1>2. NoAwardsYet(e) /\ owed_total[e] >= 0
  BY DEF Init, NoAwardsYet
<1> QED
  BY <1>1, <1>2
  DEF AwardsFit, KindFits, RosterFits, PrizesFit, GrantFits, CampaignFits

\* create_event opens an event with no awards, of a kind it has checked.
LEMMA CreateEventAwards ==
  ASSUME StorageTypes, SafetyInv, AwardsInv, NEW params \in EventParams,
         NEW op \in OpIds, CreateEvent(params, op)
  PROVE  AwardsInv'
<1> DEFINE campaign == params.pillar = "Crowdfunding"
<1>0. PICK e \in EventIds : e = Len(terms) + 1
  BY DEF CreateEvent
<1>1. /\ terms' = Append(terms, params)
      /\ status' = [status EXCEPT ![e] = "Active"]
      /\ winners' = IF campaign THEN WithWinners(e, <<CampaignRow(params.owner)>>)
                                ELSE winners
      /\ ReleaseKindFits(params.pillar, params.kind)
      /\ UNCHANGED <<prizeVars, owed_total, grantVars, cf_claimed>>
  BY <1>0, Zenon DEF CreateEvent
<1>2. /\ ~EventExists(e) /\ EventExists(e)' /\ terms'[e] = params
      /\ \A x \in EventIds \ {e} :
           /\ (x \in DOMAIN terms') <=> (x \in DOMAIN terms)
           /\ EventExists(x) => terms'[x] = terms[x]
  <2>1. terms \in Seq(EventParams) /\ Len(terms) \in Nat
    BY DEF StorageTypes, RecordTypes
  <2>2. /\ DOMAIN terms' = 1 .. e /\ DOMAIN terms = 1 .. e - 1
        /\ terms'[e] = params
        /\ \A x \in DOMAIN terms : terms'[x] = terms[x]
    BY <1>0, <1>1, <2>1
  <2>3. \A x \in EventIds \ {e} : x \in Int /\ x # e
    BY DEF EventIds
  <2> QED
    BY <1>0, <2>1, <2>2, <2>3 DEF EventExists
<1>3. /\ winners[e] = << >> /\ milestone_claimed'[e] = {} /\ cf_claimed'[e] = 0
      /\ unclaimed_prizes'[e] = 0 /\ Grantees(e)' = {}
      /\ \A u \in Users : progress'[e][u] = [settled |-> 0, settled_amount |-> 0]
      /\ owed_total'[e] = 0
  <2>1. NoAwardsYet(e) /\ FreshIsEmpty(e)
    BY DEF AwardsInv, AwardsFit, SafetyInv, EventSafe
  <2> QED
    BY <1>1, <1>2, <2>1 DEF NoAwardsYet, FreshIsEmpty, grantVars, prizeVars, Grantees
<1>4. status'[e] = "Active" /\ Kind(e)' = params.kind
      /\ KindFits(e)' /\ RosterFits(e)' /\ NoAwardsYet(e)'
  BY <1>1, <1>2, <1>3
  DEF StorageTypes, RecordTypes, Kind, KindFits, RosterFits, NoAwardsYet
<1>5. params.kind \in ReleaseKinds /\ params.pillar \in Pillars
  BY StorageAssumption DEF CreateEventParams
<1>6. PrizesFit(e)'
  <2> SUFFICES ASSUME IsSingle(e)' PROVE PrizesFit(e)'
    BY DEF PrizesFit
  <2>1. ~campaign
    BY <1>1, <1>2, <1>4 DEF IsSingle, ReleaseKindFits
  <2>2. winners'[e] = << >> /\ UnpaidRows(e)' = {}
    BY <1>1, <1>3, <2>1 DEF UnpaidRows
  <2>3. UnpaidAmount(e)' = 0 /\ Cardinality({}) = 0
    BY <2>2, SumEmpty, FS_EmptySet DEF UnpaidAmount, SumFunction
  <2> QED
    BY <1>3, <2>2, <2>3 DEF PrizesFit
<1>7. GrantFits(e)'
  <2>1. Unsettled(e)' = 0
    BY <1>3, SumEmpty DEF Unsettled, SumFunction
  <2> QED
    BY <1>3, <2>1 DEF GrantFits
<1>8. CampaignFits(e)'
  <2> SUFFICES ASSUME IsCrowdfunding(e)' PROVE CampaignFits(e)'
    BY DEF CampaignFits
  <2>1. /\ params.pillar = "Crowdfunding" /\ params.kind.form = "Multi"
        /\ params.kind.n > 0
    BY <1>1, <1>2 DEF IsCrowdfunding, ReleaseKindFits
  <2>2. Milestones(params.kind) # 0
    BY <1>5, <2>1 DEF ReleaseKinds, Milestones
  <2>3. SettledBy(e, Owner(e))' = {} /\ Cardinality({}) = 0
    BY <1>3, FS_EmptySet DEF SettledBy
  <2> QED
    BY <1>3, <1>4, <2>2, <2>3 DEF CampaignFits
<1>9. AwardsFit(e)'
  BY <1>3, <1>4, <1>6, <1>7, <1>8 DEF AwardsFit
<1>10. \A x \in EventIds \ {e} : SameAwards(x)
  BY <1>1, <1>2
  DEF SameAwards, WithWinners, prizeVars, grantVars, StorageTypes, AwardTypes, RecordTypes
<1> QED
  BY <1>9, <1>10, OneAwardsFit

\* start_cancel closes an event that owes no grantee; a prize left unclaimed
\* past its window is let go.
LEMMA StartCancelAwards ==
  ASSUME StorageTypes, SafetyInv, AwardsInv, NEW e \in EventIds, NEW op \in OpIds,
         StartCancel(e, op)
  PROVE  AwardsInv'
<1>1. /\ EventExists(e) /\ status[e] = "Active" /\ ~AwardsBlockCancel(e)
      /\ owed_total' = [owed_total EXCEPT ![e] = 0]
      /\ UNCHANGED <<terms, winners, prizeVars, grantVars, cf_claimed>>
  BY Zenon DEF StartCancel, UnchangedByCancel, IsActive
<1>2. \/ status' = [status EXCEPT ![e] = "Cancelled"]
      \/ status' = [status EXCEPT ![e] = "Cancelling"]
  BY Zenon DEF StartCancel
<1>3. /\ status'[e] \in {"Cancelled", "Cancelling"}
      /\ \A x \in EventIds \ {e} : status'[x] = status[x]
      /\ owed_total'[e] = 0
  BY <1>1, <1>2 DEF StorageTypes, RecordTypes, AwardTypes
<1>4. AwardsFit(e) /\ CampaignOwesNothing(e)
  BY DEF AwardsInv, SafetyInv, EventSafe
<1>5. CASE IsSingle(e)
  <2>1. terms[e].pillar # "Grant" /\ ~IsCrowdfunding(e)
    BY <1>1, <1>4, <1>5, KindsApart DEF AwardsFit, StorageTypes
  <2>2. /\ PrizesFit(e)' /\ KindFits(e)' /\ RosterFits(e)'
    BY <1>1, <1>3, <1>4, <1>5
    DEF AwardsFit, PrizesFit, KindFits, RosterFits, RowFits, UnpaidRows, EventExists,
        Kind, IsSingle, Grantees, prizeVars, grantVars
  <2>3. AwardsFit(e)'
    BY <1>1, <1>3, <2>1, <2>2
    DEF AwardsFit, NoAwardsYet, GrantFits, CampaignFits, EventExists, IsCrowdfunding
  <2>4. \A x \in EventIds \ {e} : SameAwards(x)
    BY <1>1, <1>3 DEF SameAwards, prizeVars, grantVars, StorageTypes, AwardTypes
  <2> QED
    BY <2>3, <2>4, OneAwardsFit
<1>6. CASE ~IsSingle(e)
  <2>1. owed_total[e] = 0
    <3>1. IsCrowdfunding(e) \/ terms[e].pillar = "Grant"
      BY <1>1, <1>4, <1>6, KindsApart DEF AwardsFit, StorageTypes
    <3>2. owed_total[e] \in Int /\ owed_total[e] >= 0
      BY <1>4 DEF AwardsFit, StorageTypes, AwardTypes
    <3> QED
      BY <1>1, <1>4, <3>1, <3>2 DEF CampaignOwesNothing, AwardsBlockCancel
  <2>2. \A x \in EventIds : SameAwards(x)
    BY <1>1, <1>3, <2>1 DEF SameAwards, prizeVars, grantVars, StorageTypes, AwardTypes
  <2> QED
    BY <2>2, SameAwardsInv
<1> QED
  BY <1>5, <1>6

\* A step that changes no award and no status.
LEMMA NoAwardTouched ==
  ASSUME AwardsInv, UNCHANGED <<terms, status, winners, prizeVars, owed_total,
                                grantVars, cf_claimed>>
  PROVE  AwardsInv'
<1>1. \A x \in EventIds : SameAwards(x)
  BY DEF SameAwards, prizeVars, grantVars, EventExists
<1> QED
  BY <1>1, SameAwardsInv

\* finalize_cancel ends an event that was already being cancelled.
LEMMA FinalizeCancelAwards ==
  ASSUME StorageTypes, AwardsInv, NEW e \in EventIds, NEW op \in OpIds,
         FinalizeCancel(e, op)
  PROVE  AwardsInv'
<1>1. /\ status[e] = "Cancelling" /\ status' = [status EXCEPT ![e] = "Cancelled"]
      /\ UNCHANGED <<terms, winners, prizeVars, grantVars, cf_claimed, owed_total>>
  BY Zenon DEF FinalizeCancel, UnchangedByCancel
<1>2. \A x \in EventIds : SameAwards(x)
  BY <1>1 DEF SameAwards, prizeVars, grantVars, EventExists, StorageTypes, RecordTypes
<1> QED
  BY <1>2, SameAwardsInv

\* Every step keeps every award.
LEMMA NextAwards ==
  ASSUME StorageTypes, SafetyInv, AwardsInv, [Next]_vars
  PROVE  AwardsInv'
<1>1. CASE FundingNext
  <2>1. ASSUME NEW e \in EventIds,
               \/ \E target \in ManagerTargets : ProposeManager(e, target)
               \/ AcceptManager(e)
               \/ CancelPendingManager(e)
               \/ ReclaimManagement(e)
        PROVE  AwardsInv'
    <3>1. UnchangedButManagers
      BY <2>1 DEF ProposeManager, AcceptManager, CancelPendingManager,
                  ReclaimManagement
    <3> QED
      BY <3>1, NoAwardTouched DEF UnchangedButManagers
  <2>2. ASSUME NEW e \in EventIds, NEW from \in Users, NEW amount \in Contributions,
               NEW op \in OpIds, AddFunds(e, from, amount, op)
        PROVE  AwardsInv'
    <3>1. UNCHANGED <<terms, status, winners, prizeVars, owed_total, grantVars,
                      cf_claimed>>
      BY <2>2, Zenon DEF AddFunds
    <3> QED
      BY <3>1, NoAwardTouched
  <2> QED
    BY <1>1, <2>1, <2>2, CreateEventAwards DEF FundingNext
<1>2. CASE CancellationNext
  <2>1. ASSUME NEW e \in EventIds, NEW max \in BatchSizes, NEW op \in OpIds,
               ProcessCancelBatch(e, max, op)
        PROVE  AwardsInv'
    <3>1. UNCHANGED <<terms, status, winners, prizeVars, owed_total, grantVars,
                      cf_claimed>>
      BY <2>1, Zenon DEF ProcessCancelBatch, UnchangedByCancel
    <3> QED
      BY <3>1, NoAwardTouched
  <2>2. ASSUME NEW e \in EventIds, NEW u \in Users, NEW op \in OpIds,
               ClaimRefund(e, u, op)
        PROVE  AwardsInv'
    <3>1. UNCHANGED <<terms, status, winners, prizeVars, owed_total, grantVars,
                      cf_claimed>>
      BY <2>2, Zenon DEF ClaimRefund, UnchangedByCancel
    <3> QED
      BY <3>1, NoAwardTouched
  <2> QED
    BY <1>2, <2>1, <2>2, StartCancelAwards, FinalizeCancelAwards
    DEF CancellationNext
<1>3. CASE AwardsNext
  BY <1>3, SelectPrizesAwards, SelectGranteesAwards, ClaimPrizeAwards DEF AwardsNext
<1>4. CASE GrantsNext
  BY <1>4, MilestoneInputsTyped, ClaimGrantMilestoneAwards,
     ClaimCampaignMilestoneAwards, ForfeitMilestoneAwards DEF GrantsNext, StorageTypes
<1>5. CASE AdminNext \/ WorldNext \/ UNCHANGED vars
  <2>1. UNCHANGED eventVars
    BY <1>5 DEF AdminNext, Pause, Unpause, SetFeeBps, RegisterToken,
                DeregisterToken, UnchangedByAdmin, WorldNext, Tick, Freeze, Thaw,
                UnchangedByWorld, vars
  <2> QED
    BY <2>1, NoAwardTouched DEF eventVars
<1> QED
  BY <1>1, <1>2, <1>3, <1>4, <1>5 DEF Next

\* In every reachable state the counters, the rows and the awards agree.
THEOREM AwardsInvariant == Spec => []AwardsInv
<1>1. Init => AwardsInv
  BY InitAwards
<1>2. StorageTypes /\ SafetyInv /\ AwardsInv /\ [Next]_vars => AwardsInv'
  BY NextAwards
<1> QED
  BY <1>1, <1>2, StorageTyped, SafetyInvariant, PTL DEF Spec

-----------------------------------------------------------------------------
(* What the awards promise                                                 *)

\* An event that is not active owes nothing (start_cancel, and the payouts
\* that empty an escrow).
LEMMA NotActiveOwesNothing ==
  ASSUME StorageTypes, SafetyInv, AwardsInv, HasStatus, NEW e \in EventIds,
         EventExists(e), status[e] # "Active"
  PROVE  owed_total[e] = 0
<1>1. status[e] \in {"Completed", "Cancelled", "Cancelling"}
  BY DEF StorageTypes, RecordTypes, HasStatus, Statuses
<1>2. owed_total[e] \in Int /\ owed_total[e] >= 0
  BY DEF AwardsInv, AwardsFit, StorageTypes, AwardTypes
<1>3. EventSafe(e)
  BY DEF SafetyInv
<1> QED
  BY <1>1, <1>2, <1>3 DEF EventSafe, EndedIsEmpty, CancellationFits

\* owed_total is exactly what was awarded and not yet settled: select_winners,
\* claim_prize, claim_milestone, forfeit_milestone and start_cancel keep it so.
THEOREM ReservationAlwaysExact == Spec => []ReservationExact
<1>1. StorageTypes /\ SafetyInv /\ AwardsInv /\ HasStatus => ReservationExact
  <2> SUFFICES ASSUME StorageTypes, SafetyInv, AwardsInv, HasStatus, NEW e \in Events
               PROVE  owed_total[e] =
                 CASE status[e] # "Active" -> 0
                   [] status[e] = "Active" /\ IsSingle(e) -> UnpaidAmount(e)
                   [] status[e] = "Active" /\ terms[e].pillar = "Grant" -> Unsettled(e)
                   [] OTHER -> 0
    BY DEF ReservationExact, Unsettled
  <2>1. e \in EventIds /\ EventExists(e) /\ AwardsFit(e) /\ EventSafe(e)
    BY DEF Events, AwardsInv, SafetyInv
  <2>2. CASE status[e] # "Active"
    BY <2>1, <2>2, NotActiveOwesNothing
  <2>3. CASE status[e] = "Active" /\ IsSingle(e)
    <3>1. terms[e].pillar # "Grant" /\ owed_total[e] = UnpaidAmount(e)
      BY <2>1, <2>3, KindsApart DEF AwardsFit, PrizesFit, StorageTypes
    <3> QED
      BY <2>3, <3>1
  <2>4. CASE status[e] = "Active" /\ terms[e].pillar = "Grant"
    <3>1. ~IsSingle(e) /\ owed_total[e] = Unsettled(e)
      BY <2>1, <2>4, KindsApart DEF AwardsFit, GrantFits, StorageTypes
    <3> QED
      BY <2>4, <3>1
  <2>5. CASE status[e] = "Active" /\ ~IsSingle(e) /\ terms[e].pillar # "Grant"
    <3>1. owed_total[e] = 0
      BY <2>1, <2>5, KindsApart DEF AwardsFit, StorageTypes, EventSafe,
                                    CampaignOwesNothing
    <3> QED
      BY <2>5, <3>1
  <2> QED
    BY <2>2, <2>3, <2>4, <2>5
<1> QED
  BY <1>1, StorageTyped, SafetyInvariant, AwardsInvariant, StatusInvariant, PTL

\* Every unpaid prize of an active event can be claimed: claim_prize finds its
\* row, and neither the escrow nor the reservation is short.
THEOREM PrizesAlwaysClaimable == Spec => []PrizesClaimable
<1>1. StorageTypes /\ SafetyInv /\ AwardsInv => PrizesClaimable
  <2> SUFFICES ASSUME StorageTypes, SafetyInv, AwardsInv, NEW e \in Events,
                      status[e] = "Active", IsSingle(e), NEW i \in UnpaidRows(e)
               PROVE  LET row   == winners[e][i]
                          award == prize_award[e][row.position]
                      IN  /\ award # None
                          /\ award.anchor_idx = i /\ award.recipient = row.recipient
                          /\ row.amount \in 1 .. remaining_escrow[e]
                          /\ row.amount <= owed_total[e]
    BY DEF PrizesClaimable
  <2>1. /\ e \in EventIds /\ EventExists(e)
        /\ i \in DOMAIN winners[e] /\ ~winners[e][i].paid
    BY DEF Events, UnpaidRows
  <2>2. /\ \A j \in DOMAIN winners[e] : RowFits(e, j)
        /\ owed_total[e] = DueIn(winners[e])
    BY <2>1, UnpaidAmountIsDue DEF AwardsInv, AwardsFit, PrizesFit
  <2>3. PICK w \in Seq(Winner) : w = winners[e]
    BY <2>1 DEF StorageTypes, AwardTypes
  <2> DEFINE f == [j \in DOMAIN w |-> IF w[j].paid THEN 0 ELSE w[j].amount]
             I == DOMAIN w
  <2>4. \A j \in I : f[j] \in Nat
    <3> SUFFICES ASSUME NEW j \in DOMAIN w PROVE f[j] \in Nat
      OBVIOUS
    <3>1. w[j] \in Winner /\ w[j].amount > 0
      BY <2>2, <2>3 DEF RowFits
    <3> QED
      BY <3>1 DEF Winner
  <2>5. IsFiniteSet(I) /\ i \in I
    <3>1. DOMAIN w = 1 .. Len(w) /\ Len(w) \in Nat
      OBVIOUS
    <3>2. IsFiniteSet(DOMAIN w)
      BY <3>1, FS_Interval
    <3> QED
      BY <2>1, <2>3, <3>2
  <2>6. \A j \in DOMAIN w : f[j] = IF w[j].paid THEN 0 ELSE w[j].amount
    OBVIOUS
  <2>7. f[i] = w[i].amount
    BY <2>1, <2>3
  <2> HIDE DEF f
  <2>8. DueIn(w) = SumFunctionOnSet(f, I)
    BY <2>6, DueSum
  <2> HIDE DEF I
  <2>9. f[i] <= SumFunctionOnSet(f, I)
    BY <2>4, <2>5, SumMember
  <2>10. f[i] \in Nat /\ f[i] > 0
    BY <2>1, <2>2, <2>3, <2>4, <2>5, <2>7 DEF RowFits
  <2>11. /\ owed_total[e] <= remaining_escrow[e]
         /\ owed_total[e] \in Int /\ remaining_escrow[e] \in Nat
    BY <2>1 DEF SafetyInv, EventSafe, StorageTypes, AwardTypes, RecordTypes
  <2>12. /\ winners[e][i].amount \in 1 .. remaining_escrow[e]
         /\ winners[e][i].amount <= owed_total[e]
    <3>1. PICK x \in Nat : x = winners[e][i].amount /\ x > 0 /\ x <= owed_total[e]
      BY <2>2, <2>3, <2>7, <2>8, <2>9, <2>10
    <3> QED
      BY <2>11, <3>1
  <2> QED
    BY <2>1, <2>2, <2>12 DEF RowFits
<1> QED
  BY <1>1, StorageTyped, SafetyInvariant, AwardsInvariant, PTL

\* The counter that makes start_cancel wait counts the prizes awarded and not
\* paid, over any number of selections and claims.
THEOREM UnclaimedCountAlwaysExact == Spec => []UnclaimedCountExact
<1>1. AwardsInv => UnclaimedCountExact
  BY DEF AwardsInv, AwardsFit, PrizesFit, UnclaimedCountExact, Events
<1> QED
  BY <1>1, AwardsInvariant, PTL

\* What the grantees of an active grant are still owed is no less than what
\* any one of them is.
LEMMA OneGranteeOwed ==
  ASSUME StorageTypes, NEW e \in EventIds, EventExists(e), AwardsFit(e),
         terms[e].pillar = "Grant", NEW u \in Grantees(e)
  PROVE  roster[e][u].amount - progress[e][u].settled_amount <= owed_total[e]
<1> DEFINE f == [x \in Grantees(e) |->
                   roster[e][x].amount - progress[e][x].settled_amount]
           G == Grantees(e)
<1>1. owed_total[e] = SumFunctionOnSet(f, G)
  BY DEF AwardsFit, GrantFits, Unsettled, SumFunction
<1>2. \A x \in G : f[x] \in Nat
  <2> SUFFICES ASSUME NEW x \in Grantees(e) PROVE f[x] \in Nat
    OBVIOUS
  <2>1. x \in Users /\ roster[e][x] # None /\ GranteeFits(e, x) /\ KindFits(e)
    BY DEF Grantees, AwardsFit, GrantFits
  <2>2. PICK award \in Nat, paid \in Nat :
          /\ award = roster[e][x].amount /\ paid = progress[e][x].settled_amount
          /\ paid <= award
    BY <2>1, GranteeStanding
  <2> QED
    BY <2>2
<1>3. IsFiniteSet(G)
  <2>1. G \in SUBSET Users
    BY DEF Grantees
  <2> QED
    BY <2>1, FinitenessAssumption, FS_Subset
<1>4. f[u] = roster[e][u].amount - progress[e][u].settled_amount /\ u \in G
  OBVIOUS
<1> HIDE DEF f, G
<1>5. f[u] <= SumFunctionOnSet(f, G)
  BY <1>2, <1>3, <1>4, SumMember
<1> QED
  BY <1>1, <1>4, <1>5

\* Every open milestone of an active grant settles for a positive share that
\* the reservation covers, whatever order the milestones are taken in (settle).
THEOREM MilestonesAlwaysPayable == Spec => []MilestonesPayable
<1>1. StorageTypes /\ AwardsInv => MilestonesPayable
  <2> SUFFICES ASSUME StorageTypes, AwardsInv, NEW e \in Events,
                      terms[e].pillar = "Grant", NEW u \in Grantees(e),
                      NEW m \in 0 .. Milestones(Kind(e)) - 1,
                      <<u, m>> \notin milestone_claimed[e]
               PROVE  SettlementOf(e, u, m) \in 1 .. owed_total[e]
    BY DEF MilestonesPayable
  <2>1. /\ e \in EventIds /\ EventExists(e) /\ AwardsFit(e) /\ KindFits(e)
        /\ u \in Users /\ roster[e][u] # None /\ GranteeFits(e, u)
    BY DEF Events, Grantees, AwardsInv, AwardsFit, GrantFits
  <2>2. m \in MilestoneSet(e) \ SettledBy(e, u)
    BY DEF MilestoneSet, SettledBy
  <2>3. PICK award \in Nat, paid \in Nat :
          /\ award = roster[e][u].amount /\ paid = progress[e][u].settled_amount
          /\ SettlementOf(e, u, m) \in 1 .. award - paid
    BY <2>1, <2>2, GranteeStanding
  <2>4. award - paid <= owed_total[e]
    BY <2>1, <2>3, OneGranteeOwed
  <2>5. owed_total[e] \in Int
    BY <2>1 DEF StorageTypes, AwardTypes
  <2> QED
    BY <2>3, <2>4, <2>5
<1> QED
  BY <1>1, StorageTyped, AwardsInvariant, PTL

\* A grantee is settled for the award to the unit, rounding included, and paid
\* no more than that.
THEOREM GrantAlwaysSettledExactly == Spec => []GrantSettledExactly
<1>1. StorageTypes /\ AwardsInv => GrantSettledExactly
  <2> SUFFICES ASSUME StorageTypes, AwardsInv, NEW e \in Events, NEW u \in Grantees(e)
               PROVE  /\ progress[e][u].settled = Cardinality(SettledBy(e, u))
                      /\ progress[e][u].settled_amount <= roster[e][u].amount
                      /\ (progress[e][u].settled_amount = roster[e][u].amount)
                            <=> (progress[e][u].settled = Milestones(Kind(e)))
                      /\ PaidOut(e, u) <= progress[e][u].settled_amount
    BY DEF GrantSettledExactly, PaidOut, PaidIn
  <2>1. /\ e \in EventIds /\ EventExists(e) /\ AwardsFit(e) /\ KindFits(e)
        /\ u \in Users /\ roster[e][u] # None
    BY DEF Events, Grantees, AwardsInv, AwardsFit
  <2>2. terms[e].pillar = "Grant" /\ GranteeFits(e, u)
    BY <2>1 DEF AwardsFit, RosterFits, GrantFits
  <2>3. /\ progress[e][u].settled_amount <= roster[e][u].amount
        /\ (progress[e][u].settled_amount = roster[e][u].amount)
              <=> (progress[e][u].settled = Milestones(Kind(e)))
    BY <2>1, <2>2, GranteeStanding
  <2> QED
    BY <2>2, <2>3 DEF GranteeFits
<1> QED
  BY <1>1, StorageTyped, AwardsInvariant, PTL

\* A campaign completes with its last milestone and never before it.
THEOREM CampaignAlwaysCompletesExactly == Spec => []CampaignCompletesExactly
<1>1. AwardsInv => CampaignCompletesExactly
  BY DEF AwardsInv, AwardsFit, CampaignFits, CampaignCompletesExactly, Events
<1> QED
  BY <1>1, AwardsInvariant, PTL

\* A grant that is no longer active owes no grantee anything.
EndedGrantsSettled ==
  \A e \in Events : terms[e].pillar = "Grant" /\ status[e] # "Active" =>
    \A u \in Grantees(e) : Cardinality(SettledBy(e, u)) = Milestones(Kind(e))

\* In every reachable state: what is owed of such a grant is nothing, so no
\* part of any award is left.
LEMMA EndedGrantsAlwaysSettled == Spec => []EndedGrantsSettled
<1>1. StorageTypes /\ SafetyInv /\ AwardsInv /\ HasStatus => EndedGrantsSettled
  <2> SUFFICES ASSUME StorageTypes, SafetyInv, AwardsInv, HasStatus, NEW e \in Events,
                      terms[e].pillar = "Grant", status[e] # "Active",
                      NEW u \in Grantees(e)
               PROVE  Cardinality(SettledBy(e, u)) = Milestones(Kind(e))
    BY DEF EndedGrantsSettled
  <2>1. /\ e \in EventIds /\ EventExists(e) /\ AwardsFit(e) /\ KindFits(e)
        /\ u \in Users /\ roster[e][u] # None /\ GranteeFits(e, u)
    BY DEF Events, Grantees, AwardsInv, AwardsFit, GrantFits
  <2>2. PICK award \in Nat, paid \in Nat :
          /\ award = roster[e][u].amount /\ paid = progress[e][u].settled_amount
          /\ paid <= award
          /\ (paid = award) <=> (progress[e][u].settled = Milestones(Kind(e)))
    BY <2>1, GranteeStanding
  <2>3. award - paid <= 0
    BY <2>1, <2>2, OneGranteeOwed, NotActiveOwesNothing
  <2>4. progress[e][u].settled = Milestones(Kind(e))
    BY <2>2, <2>3
  <2> QED
    BY <2>1, <2>4 DEF GranteeFits
<1> QED
  BY <1>1, StorageTyped, SafetyInvariant, AwardsInvariant, StatusInvariant, PTL

\* The terms of an event are never rewritten, and the one call that writes a
\* roster leaves every status alone.
LEMMA RosterOrStatusKept ==
  ASSUME StorageTypes, Next
  PROVE  /\ \A e \in EventIds : EventExists(e) => EventExists(e)' /\ terms'[e] = terms[e]
         /\ roster' = roster \/ status' = status
<1> DEFINE Goal == /\ \A e \in EventIds :
                        EventExists(e) => EventExists(e)' /\ terms'[e] = terms[e]
                   /\ roster' = roster \/ status' = status
<1>0. ASSUME UNCHANGED <<terms, roster>> \/ UNCHANGED <<terms, status>> PROVE Goal
  BY <1>0 DEF EventExists
<1> SUFFICES Goal
  OBVIOUS
<1> HIDE DEF Goal
<1>1. CASE FundingNext
  <2>1. ASSUME NEW params \in EventParams, NEW op \in OpIds, CreateEvent(params, op)
        PROVE  Goal
    <3>1. terms' = Append(terms, params) /\ UNCHANGED roster
      BY <2>1, Zenon DEF CreateEvent, grantVars
    <3>2. terms \in Seq(EventParams)
      BY DEF StorageTypes, RecordTypes
    <3>3. /\ DOMAIN terms \subseteq DOMAIN terms'
          /\ \A x \in DOMAIN terms : terms'[x] = terms[x]
      BY <3>1, <3>2
    <3> QED
      BY <3>1, <3>3 DEF EventExists, Goal
  <2>2. ASSUME NEW e, NEW from, NEW amount, NEW op, AddFunds(e, from, amount, op)
        PROVE  Goal
    <3>1. UNCHANGED <<terms, status>>
      BY <2>2, Zenon DEF AddFunds
    <3> QED
      BY <3>1, <1>0
  <2>3. ASSUME NEW e, NEW target, \/ ProposeManager(e, target) \/ AcceptManager(e)
                                  \/ CancelPendingManager(e) \/ ReclaimManagement(e)
        PROVE  Goal
    <3>1. UnchangedButManagers
      BY <2>3 DEF ProposeManager, AcceptManager, CancelPendingManager,
                  ReclaimManagement
    <3> QED
      BY <3>1, <1>0 DEF UnchangedButManagers
  <2> QED
    BY <1>1, <2>1, <2>2, <2>3 DEF FundingNext
<1>2. CASE CancellationNext
  <2>1. UnchangedByCancel
    BY <1>2, Zenon DEF CancellationNext, StartCancel, ProcessCancelBatch,
                       FinalizeCancel, ClaimRefund
  <2> QED
    BY <2>1, <1>0 DEF UnchangedByCancel, grantVars
<1>3. CASE AwardsNext
  <2>1. ASSUME NEW e, NEW batch, NEW op,
               SelectPrizes(e, batch, op) \/ SelectGrantees(e, batch, op)
        PROVE  UNCHANGED <<terms, status>>
    BY <2>1, Zenon DEF SelectPrizes, SelectGrantees, UnchangedBySelection
  <2>2. ASSUME NEW e, NEW p, NEW op, ClaimPrize(e, p, op)
        PROVE  UNCHANGED <<terms, roster>>
    <3>1. UNCHANGED <<terms, grantVars>>
      BY <2>2, Zenon DEF ClaimPrize
    <3> QED
      BY <3>1 DEF grantVars
  <2> QED
    BY <1>0, <1>3, <2>1, <2>2 DEF AwardsNext
<1>4. CASE GrantsNext
  <2>1. ASSUME NEW e, NEW r, NEW m, NEW bump, NEW op,
               \/ ClaimGrantMilestone(e, r, m, bump, op)
               \/ ClaimCampaignMilestone(e, r, m, bump, op)
               \/ ForfeitMilestone(e, r, m, op)
        PROVE  UNCHANGED <<terms, roster>>
    BY <2>1, Zenon DEF ClaimGrantMilestone, ClaimCampaignMilestone, ForfeitMilestone
  <2> QED
    BY <1>0, <1>4, <2>1 DEF GrantsNext
<1>5. CASE AdminNext \/ WorldNext
  <2>1. UNCHANGED eventVars
    BY <1>5 DEF AdminNext, Pause, Unpause, SetFeeBps, RegisterToken,
                DeregisterToken, UnchangedByAdmin, WorldNext, Tick, Freeze, Thaw,
                UnchangedByWorld
  <2> QED
    BY <2>1, <1>0 DEF eventVars, grantVars
<1> QED
  BY <1>1, <1>2, <1>3, <1>4, <1>5 DEF Next

\* A grant never leaves Active over a promise: not by a payout that empties
\* its escrow, and not by start_cancel.
THEOREM GrantAlwaysEndsSettled == Spec => GrantEndsSettled
<1> DEFINE Ends == \A e \in Events :
                     terms[e].pillar = "Grant" /\ status[e] = "Active"
                       /\ status'[e] # "Active" =>
                         \A u \in Grantees(e) :
                           Cardinality({m \in 0 .. Milestones(Kind(e)) - 1 :
                                          <<u, m>> \in milestone_claimed'[e]})
                             = Milestones(Kind(e))
<1>1. ASSUME StorageTypes, EndedGrantsSettled', Next PROVE Ends
  <2> SUFFICES ASSUME NEW e \in Events, terms[e].pillar = "Grant",
                      status[e] = "Active", status'[e] # "Active",
                      NEW u \in Grantees(e)
               PROVE  Cardinality({m \in 0 .. Milestones(Kind(e)) - 1 :
                                     <<u, m>> \in milestone_claimed'[e]})
                        = Milestones(Kind(e))
    OBVIOUS
  <2>1. e \in EventIds /\ EventExists(e)
    BY DEF Events
  <2>2. EventExists(e)' /\ terms'[e] = terms[e] /\ roster' = roster
    BY <1>1, <2>1, RosterOrStatusKept
  <2>3. u \in Grantees(e)' /\ Kind(e)' = Kind(e) /\ e \in Events'
    BY <2>1, <2>2 DEF Grantees, Kind, Events
  <2>4. Cardinality(SettledBy(e, u)') = Milestones(Kind(e))
    BY <1>1, <2>2, <2>3 DEF EndedGrantsSettled
  <2> QED
    BY <2>3, <2>4 DEF SettledBy
<1>2. StorageTypes /\ EndedGrantsSettled' /\ [Next]_vars => [Ends]_vars
  BY <1>1
<1> QED
  BY <1>2, StorageTyped, EndedGrantsAlwaysSettled, PTL DEF Spec, GrantEndsSettled
=============================================================================
