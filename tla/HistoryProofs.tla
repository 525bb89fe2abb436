---------------------------- MODULE HistoryProofs ----------------------------
(***************************************************************************)
(* What holds of the contract over many days.  A deposit retried on the    *)
(* day it was first sent takes effect once: within its marker,             *)
(* idempotency.rs makes add_funds safe to retry.  (Beyond it, it does not: *)
(* see the run RetriesForDays.)  And every prize has its claim window, in  *)
(* days the contract is open, before a cancel may take the funds back:     *)
(* whatever the pauses and the other selections, and no longer than that.  *)
(***************************************************************************)
EXTENDS OperationRetries, ClaimWindowHistory, AwardProofs

\* Every history of retries is a behaviour of the contract, so what is proved
\* of Spec holds of it.
LEMMA RetriesAreCalls == RetrySpec => Spec
<1>1. RetryInit => Init
  BY DEF RetryInit
<1>2. [RetryNext]_retryVars => [Next]_vars
  BY DEF RetryNext, SendDeposit, OtherCall, Next, FundingNext, retryVars
<1> QED
  BY <1>1, <1>2, PTL DEF RetrySpec, Spec

\* A deposit is applied when it is first sent, and its marker lives out that day.
SentOnce(o) ==
  /\ first_sent[o] \in Nat /\ first_sent[o] <= now
  /\ applied[o] = IF first_sent[o] = 0 THEN 0 ELSE 1
  /\ first_sent[o] = now /\ now < MaxTime => o \in op_seen

\* The inductive invariant.
RetryInv ==
  /\ now \in Nat \ {0}
  /\ first_sent \in [Ops -> Nat] /\ applied \in [Ops -> Nat]
  /\ \A o \in Ops : SentOnce(o)

\* Before anything is sent the invariant holds.
LEMMA RetryInitHolds == RetryInit => RetryInv
BY DEF RetryInit, Init, RetryInv, SentOnce

\* Other calls and the passing of days keep every deposit applied once.
LEMMA OtherCallKeeps == ASSUME RetryInv, OtherCall PROVE RetryInv'
<1>1. UNCHANGED <<first_sent, applied>>
  BY DEF OtherCall
<1>2. CASE WorldNext
  <2>1. \/ now' = now /\ now >= MaxTime
        \/ now' = now + 1
        \/ now' = now /\ op_seen' = op_seen
    BY <1>2, StorageAssumption DEF WorldNext, Tick, Freeze, Thaw, RetryInv
  <2> QED
    BY <1>1, <2>1, StorageAssumption DEF RetryInv, SentOnce
<1>3. CASE ~WorldNext
  <2>1. now' = now /\ op_seen \subseteq op_seen'
    BY <1>3, MarkersOutliveCalls DEF OtherCall, FundingNext
  <2> QED
    BY <1>1, <2>1 DEF RetryInv, SentOnce
<1> QED
  BY <1>2, <1>3

\* A retry on the day of the first attempt finds the marker (require_unseen).
LEMMA SendDepositKeeps ==
  ASSUME RetryWindow = 0, RetryInv, NEW e \in EventIds, NEW from \in Users,
         NEW amount \in Contributions, NEW op \in OpIds,
         SendDeposit(e, from, amount, op)
  PROVE  RetryInv'
<1> DEFINE o == <<from, op>>
<1>1. o \in Ops
  BY DEF Ops
<1>2. /\ now < MaxTime
      /\ first_sent[o] # 0 => now <= first_sent[o] + RetryWindow
      /\ first_sent' = [first_sent EXCEPT ![o] = IF @ = 0 THEN now ELSE @]
      /\ applied' = [applied EXCEPT ![o] = @ + 1]
      /\ o \notin op_seen /\ op_seen' = op_seen \cup {o} /\ now' = now
  BY Zenon DEF SendDeposit, AddFunds, Unseen, MarkSeen, ambientVars
<1> HIDE DEF o
<1>3. first_sent[o] = 0
  BY <1>1, <1>2 DEF RetryInv, SentOnce
<1> QED
  BY <1>1, <1>2, <1>3 DEF RetryInv, SentOnce

\* If the backend retries only within the life of a marker, a deposit takes
\* effect at most once, whatever else happens in between.
THEOREM RetriesWithinTheDay ==
  ASSUME RetryWindow = 0
  PROVE  RetrySpec => []DepositAppliedOnce
<1>1. RetryInit => RetryInv
  BY RetryInitHolds
<1>2. RetryInv /\ [RetryNext]_retryVars => RetryInv'
  <2>1. CASE UNCHANGED retryVars
    BY <2>1 DEF RetryInv, SentOnce, retryVars, vars, ambientVars
  <2> QED
    BY <2>1, OtherCallKeeps, SendDepositKeeps DEF RetryNext
<1>3. RetryInv => DepositAppliedOnce
  BY DEF RetryInv, SentOnce, DepositAppliedOnce
<1> QED
  BY <1>1, <1>2, <1>3, PTL DEF RetrySpec

-----------------------------------------------------------------------------
(* Claim windows                                                           *)

\* A pause is running exactly while its start is kept, and the open clock has
\* started.
ClockFits ==
  /\ paused <=> paused_at # None
  /\ OpenTime >= 1

\* The claim window of a prize event ends with the window of its latest
\* winners, each window counted from the day the row was written.
WindowFits(e) ==
  /\ open_days[e] \in [1 .. Len(winners[e]) -> Nat]
  /\ ~EventExists(e) => claim_expiry[e] = 0
  /\ EventExists(e) /\ IsSingle(e) =>
       /\ winners[e] = << >> => claim_expiry[e] = 0
       /\ \A i \in DOMAIN winners[e] :
            OpenTime - open_days[e][i] + ClaimWindow <= claim_expiry[e]
       /\ winners[e] # << >> => \E i \in DOMAIN winners[e] :
            claim_expiry[e] = OpenTime - open_days[e][i] + ClaimWindow

\* The inductive invariant of the claim windows.
WindowInv == ClockFits /\ \A e \in EventIds : WindowFits(e)

\* No call on an event moves the clock or the pause.
LEMMA CallsKeepClock ==
  ASSUME FundingNext \/ CancellationNext \/ AwardsNext \/ GrantsNext
  PROVE  UNCHANGED <<now, pauseVars>>
<1>1. CASE FundingNext
  <2>1. ASSUME NEW params, NEW op, CreateEvent(params, op)
        PROVE  UNCHANGED ambientVars
    BY <2>1, Zenon DEF CreateEvent
  <2>2. ASSUME NEW e, NEW from, NEW amount, NEW op, AddFunds(e, from, amount, op)
        PROVE  UNCHANGED ambientVars
    BY <2>2, Zenon DEF AddFunds
  <2> QED
    BY <1>1, <2>1, <2>2
    DEF FundingNext, ProposeManager, AcceptManager, CancelPendingManager,
        ReclaimManagement, UnchangedButManagers, ambientVars
<1>2. CASE CancellationNext
  <2>1. UnchangedByCancel
    BY <1>2, Zenon DEF CancellationNext, StartCancel, ProcessCancelBatch,
                       FinalizeCancel, ClaimRefund
  <2> QED
    BY <2>1 DEF UnchangedByCancel, ambientVars
<1>3. CASE AwardsNext
  <2>1. ASSUME NEW e, NEW batch, NEW op,
               SelectPrizes(e, batch, op) \/ SelectGrantees(e, batch, op)
        PROVE  UNCHANGED ambientVars
    BY <2>1, Zenon DEF SelectPrizes, SelectGrantees, UnchangedBySelection
  <2>2. ASSUME NEW e, NEW p, NEW op, ClaimPrize(e, p, op)
        PROVE  UNCHANGED ambientVars
    BY <2>2, Zenon DEF ClaimPrize
  <2> QED
    BY <1>3, <2>1, <2>2 DEF AwardsNext, ambientVars
<1>4. CASE GrantsNext
  <2>1. ASSUME NEW e, NEW r, NEW m, NEW bump, NEW op,
               \/ ClaimGrantMilestone(e, r, m, bump, op)
               \/ ClaimCampaignMilestone(e, r, m, bump, op)
               \/ ForfeitMilestone(e, r, m, op)
        PROVE  UNCHANGED ambientVars
    BY <2>1, Zenon DEF ClaimGrantMilestone, ClaimCampaignMilestone,
                       ForfeitMilestone
  <2> QED
    BY <1>4, <2>1 DEF GrantsNext, ambientVars
<1> QED
  BY <1>1, <1>2, <1>3, <1>4

\* While nothing moves the clock or the pause, the open clock stands still.
LEMMA ClockStands ==
  ASSUME InstanceTypes, ClockFits, UNCHANGED <<now, pauseVars>>
  PROVE  ClockFits' /\ OpenTime' = OpenTime /\ DayOpen = 0
BY DEF InstanceTypes, ClockFits, OpenTime, DayOpen, pauseVars

\* The open clock moves with the days on which the contract is not paused, and
\* only with them (pause, unpause, open_time).
LEMMA ClockStep ==
  ASSUME InstanceTypes, ClockFits, [Next]_vars
  PROVE  /\ ClockFits' /\ OpenTime' = OpenTime + DayOpen
         /\ OpenTime \in Int /\ DayOpen \in Nat
<1>1. OpenTime \in Int
  BY NoneAssumption DEF InstanceTypes, OpenTime
<1>2. CASE \/ FundingNext \/ CancellationNext \/ AwardsNext \/ GrantsNext
           \/ UNCHANGED vars
  <2>1. UNCHANGED <<now, pauseVars>>
    BY <1>2, CallsKeepClock DEF vars, ambientVars
  <2> QED
    BY <1>1, <2>1, ClockStands
<1>3. CASE AdminNext
  <2>1. CASE \/ \E bps \in FeeSettings : SetFeeBps(bps)
             \/ \E t \in ManagedTokens : RegisterToken(t)
             \/ \E t \in ManagedTokens : DeregisterToken(t)
    <3>1. UNCHANGED <<now, pauseVars>>
      BY <2>1 DEF SetFeeBps, RegisterToken, DeregisterToken, UnchangedByAdmin
    <3> QED
      BY <1>1, <3>1, ClockStands
  <2>2. CASE Pause
    BY <1>1, <2>2, NoneAssumption
    DEF Pause, UnchangedByAdmin, InstanceTypes, ClockFits, OpenTime, DayOpen
  <2>3. CASE Unpause
    BY <1>1, <2>3, NoneAssumption
    DEF Unpause, UnchangedByAdmin, InstanceTypes, ClockFits, OpenTime, DayOpen
  <2> QED
    BY <1>3, <2>1, <2>2, <2>3 DEF AdminNext
<1>4. CASE WorldNext
  <2>1. /\ UNCHANGED <<paused, paused_at, paused_seconds>>
        /\ now' \in {now, now + 1}
    BY <1>4 DEF WorldNext, Tick, Freeze, Thaw, UnchangedByWorld, pauseVars
  <2>2. now \in Nat /\ paused_seconds \in Nat /\ paused_at \in Int \cup {None}
    BY DEF InstanceTypes
  <2>3. CASE now' = now
    BY <1>1, <2>1, <2>2, <2>3 DEF ClockFits, OpenTime, DayOpen
  <2>4. CASE now' = now + 1 /\ paused
    BY <1>1, <2>1, <2>2, <2>4 DEF ClockFits, OpenTime, DayOpen
  <2>5. CASE now' = now + 1 /\ ~paused
    BY <1>1, <2>1, <2>2, <2>5 DEF ClockFits, OpenTime, DayOpen
  <2> QED
    BY <2>1, <2>3, <2>4, <2>5
<1> QED
  BY <1>2, <1>3, <1>4 DEF Next

-----------------------------------------------------------------------------
(* What a step does to the window of one event.                            *)

\* The event, the number of its rows and its window stay.
SameWindow(e) ==
  /\ EventExists(e)' <=> EventExists(e)
  /\ EventExists(e) => terms'[e] = terms[e]
  /\ winners[e] \in Seq(Winner) /\ winners'[e] \in Seq(Winner)
  /\ Len(winners'[e]) = Len(winners[e])
  /\ claim_expiry'[e] = claim_expiry[e]

\* The event is none of prizes.
NoPrizes(e) ==
  /\ EventExists(e)' /\ ~IsSingle(e)'
  /\ winners[e] \in Seq(Winner) /\ winners'[e] \in Seq(Winner)

\* The event is new, and has no rows.
NewPrizes(e) ==
  /\ ~EventExists(e) /\ EventExists(e)'
  /\ winners[e] = << >> /\ winners'[e] = << >>
  /\ claim_expiry'[e] = claim_expiry[e]

\* A selection adds rows, and extends the window to theirs.
Selected(e) ==
  /\ EventExists(e) /\ EventExists(e)' /\ terms'[e] = terms[e]
  /\ winners[e] \in Seq(Winner) /\ winners'[e] \in Seq(Winner)
  /\ Len(winners'[e]) > Len(winners[e])
  /\ claim_expiry'[e] = IF OpenTime + ClaimWindow > claim_expiry[e]
                        THEN OpenTime + ClaimWindow ELSE claim_expiry[e]
  /\ UNCHANGED <<now, pauseVars>>

WindowMove(e) == SameWindow(e) \/ NoPrizes(e) \/ NewPrizes(e) \/ Selected(e)

\* A step that adds no row and opens no event.
LEMMA WindowsStay ==
  ASSUME AwardTypes, AwardTypes', UNCHANGED <<terms, winners, claim_expiry>>
  PROVE  \A e \in EventIds : WindowMove(e)
BY DEF AwardTypes, WindowMove, SameWindow, EventExists

\* create_event.
LEMMA CreateEventWindow ==
  ASSUME StorageTypes, AwardTypes', AwardsInv, NEW params \in EventParams,
         NEW op \in OpIds, CreateEvent(params, op)
  PROVE  \A e \in EventIds : WindowMove(e)
<1>0. PICK e \in EventIds : e = Len(terms) + 1
  BY Zenon DEF CreateEvent
<1>1. /\ terms' = Append(terms, params)
      /\ winners' = IF params.pillar = "Crowdfunding"
                    THEN WithWinners(e, <<CampaignRow(params.owner)>>)
                    ELSE winners
      /\ ReleaseKindFits(params.pillar, params.kind)
      /\ UNCHANGED prizeVars
  BY <1>0, Zenon DEF CreateEvent
<1>2. terms \in Seq(EventParams) /\ winners \in [EventIds -> Seq(Winner)]
  BY DEF StorageTypes, RecordTypes, AwardTypes
<1>3. /\ e \notin DOMAIN terms /\ e \in DOMAIN terms' /\ terms'[e] = params
      /\ \A x \in EventIds \ {e} : (x \in DOMAIN terms') <=> (x \in DOMAIN terms)
      /\ \A x \in DOMAIN terms : terms'[x] = terms[x]
  BY <1>0, <1>1, <1>2
<1>4. \A x \in EventIds \ {e} : winners'[x] = winners[x]
  BY <1>1, <1>2 DEF WithWinners
<1>5. \A x \in EventIds : /\ winners[x] \in Seq(Winner) /\ winners'[x] \in Seq(Winner)
                          /\ claim_expiry'[x] = claim_expiry[x]
  BY <1>1 DEF StorageTypes, AwardTypes, prizeVars
<1>6. winners[e] = << >>
  BY <1>3 DEF AwardsInv, AwardsFit, NoAwardsYet, EventExists
<1>7. CASE params.pillar = "Crowdfunding"
  <2>1. params.kind.form = "Multi"
    BY <1>1, <1>7 DEF ReleaseKindFits
  <2>2. NoPrizes(e)
    BY <1>3, <1>5, <2>1 DEF NoPrizes, EventExists, IsSingle, Kind
  <2> QED
    BY <1>3, <1>4, <1>5, <2>2 DEF WindowMove, SameWindow, EventExists
<1>8. CASE params.pillar # "Crowdfunding"
  <2>1. NewPrizes(e)
    BY <1>1, <1>3, <1>5, <1>6, <1>8 DEF NewPrizes, EventExists
  <2> QED
    BY <1>3, <1>4, <1>5, <2>1 DEF WindowMove, SameWindow, EventExists
<1> QED
  BY <1>7, <1>8

\* select_winners.
LEMMA SelectionWindow ==
  ASSUME StorageTypes, AwardTypes', NEW e \in EventIds,
         NEW batch \in WinnerBatches, NEW op \in OpIds,
         SelectPrizes(e, batch, op) \/ SelectGrantees(e, batch, op)
  PROVE  \A x \in EventIds : WindowMove(x)
<1>1. PICK cap : SelectionAllowed(e, batch, cap, op)
  BY Zenon DEF SelectPrizes, SelectGrantees
<1>2. /\ EventExists(e) /\ batch \in Seq(WinnerSpec) /\ Len(batch) \in Nat \ {0}
  BY <1>1, SelectionTyped
<1>3. /\ winners' = WithWinners(e, AwardRows(batch))
      /\ UNCHANGED terms /\ UNCHANGED ambientVars
      /\ \/ /\ ~IsSingle(e) /\ UNCHANGED prizeVars
         \/ claim_expiry' = [claim_expiry EXCEPT ![e] =
              IF OpenTime + ClaimWindow > @ THEN OpenTime + ClaimWindow ELSE @]
  BY Zenon DEF SelectPrizes, SelectGrantees, UnchangedBySelection
<1>4. /\ winners \in [EventIds -> Seq(Winner)] /\ winners' \in [EventIds -> Seq(Winner)]
      /\ claim_expiry \in [EventIds -> Int]
  BY DEF StorageTypes, AwardTypes, PrizeTypes
<1>5. /\ \A x \in EventIds \ {e} : winners'[x] = winners[x]
      /\ winners'[e] = winners[e] \o AwardRows(batch)
  BY <1>3, <1>4 DEF WithWinners
<1>6. \A x \in EventIds : EventExists(x)' <=> EventExists(x)
  BY <1>3 DEF EventExists
<1>7. CASE ~IsSingle(e) /\ UNCHANGED prizeVars
  <2>1. NoPrizes(e)
    BY <1>2, <1>3, <1>4, <1>6, <1>7 DEF NoPrizes, IsSingle, Kind
  <2> QED
    BY <1>3, <1>4, <1>5, <1>6, <1>7, <2>1 DEF WindowMove, SameWindow, prizeVars
<1>8. CASE claim_expiry' = [claim_expiry EXCEPT ![e] =
              IF OpenTime + ClaimWindow > @ THEN OpenTime + ClaimWindow ELSE @]
  <2>1. Len(winners'[e]) > Len(winners[e])
    <3>1. PICK w \in Seq(Winner) : w = winners[e]
      BY <1>4
    <3>2. Len(AwardRows(batch)) = Len(batch) /\ AwardRows(batch) \in Seq(Winner)
      BY <1>2, AwardRowsTyped
    <3>3. PICK v \in Seq(Winner) : v = AwardRows(batch) /\ Len(v) > 0
      BY <1>2, <3>2
    <3>4. Len(w \o v) = Len(w) + Len(v)
      OBVIOUS
    <3> QED
      BY <1>5, <3>1, <3>3, <3>4
  <2>2. Selected(e)
    BY <1>2, <1>3, <1>4, <1>6, <1>8, <2>1 DEF Selected, ambientVars
  <2>3. ASSUME NEW x \in EventIds \ {e} PROVE SameWindow(x)
    BY <1>3, <1>4, <1>5, <1>6, <1>8 DEF SameWindow
  <2> QED
    BY <2>2, <2>3 DEF WindowMove
<1> QED
  BY <1>3, <1>7, <1>8

\* What every step does to the window of every event.
LEMMA NextWindow ==
  ASSUME StorageTypes, StorageTypes', AwardsInv, Next
  PROVE  \A e \in EventIds : WindowMove(e)
<1> DEFINE Goal == \A e \in EventIds : WindowMove(e)
<1> SUFFICES Goal
  OBVIOUS
<1>0. AwardTypes /\ AwardTypes'
  BY DEF StorageTypes
<1>1. ASSUME UNCHANGED <<terms, winners, claim_expiry>> PROVE Goal
  BY <1>0, <1>1, WindowsStay
<1>2. ASSUME NEW params \in EventParams, NEW op \in OpIds, CreateEvent(params, op)
      PROVE  Goal
  BY <1>0, <1>2, CreateEventWindow
<1>3. ASSUME NEW e \in EventIds, NEW batch \in WinnerBatches, NEW op \in OpIds,
             SelectPrizes(e, batch, op) \/ SelectGrantees(e, batch, op)
      PROVE  Goal
  BY <1>0, <1>3, SelectionWindow
<1>4. ASSUME NEW e \in EventIds, NEW p \in Positions, NEW op \in OpIds,
             ClaimPrize(e, p, op)
      PROVE  Goal
  <2>1. UNCHANGED <<terms, claim_expiry>>
    BY <1>4, Zenon DEF ClaimPrize
  <2>2. winners' = [winners EXCEPT ![e][prize_award[e][p].anchor_idx].paid = TRUE]
    BY <1>4, Zenon DEF ClaimPrize
  <2>3. ASSUME NEW x \in EventIds PROVE SameWindow(x)
    <3>1. DOMAIN winners'[x] = DOMAIN winners[x]
      BY <1>0, <2>2 DEF AwardTypes
    <3>2. PICK w \in Seq(Winner), v \in Seq(Winner) : w = winners[x] /\ v = winners'[x]
      BY <1>0 DEF AwardTypes
    <3>3. Len(w) = Len(v)
      BY <3>1, <3>2
    <3> QED
      BY <2>1, <3>2, <3>3 DEF SameWindow, EventExists
  <2> QED
    BY <2>3 DEF WindowMove
<1>5. ASSUME NEW e \in EventIds, NEW r \in Users, NEW m, NEW bump, NEW op,
             \/ ClaimGrantMilestone(e, r, m, bump, op)
             \/ ClaimCampaignMilestone(e, r, m, bump, op)
             \/ ForfeitMilestone(e, r, m, op)
      PROVE  Goal
  <2>1. UNCHANGED <<terms, prizeVars>>
    BY <1>5, Zenon DEF ClaimGrantMilestone, ClaimCampaignMilestone, ForfeitMilestone
  <2>2. EventExists(e) /\ (~IsSingle(e) \/ UNCHANGED winners)
    <3>1. CASE ForfeitMilestone(e, r, m, op)
      BY <3>1, Zenon DEF ForfeitMilestone, MilestoneOpen, IsActive
    <3>2. CASE ClaimCampaignMilestone(e, r, m, bump, op)
      <4>1. EventExists(e) /\ IsCrowdfunding(e)
        BY <3>2, Zenon DEF ClaimCampaignMilestone, MilestoneOpen, IsActive
      <4> QED
        BY <4>1, KindsApart DEF AwardsInv, AwardsFit, StorageTypes
    <3>3. CASE ClaimGrantMilestone(e, r, m, bump, op)
      <4>1. EventExists(e) /\ ~IsCrowdfunding(e) /\ roster[e][r] # None
        BY <3>3, Zenon DEF ClaimGrantMilestone, MilestoneOpen, IsActive, Settle
      <4>2. terms[e].pillar = "Grant"
        BY <4>1 DEF AwardsInv, AwardsFit, RosterFits, Grantees
      <4> QED
        BY <4>1, <4>2, KindsApart DEF AwardsInv, AwardsFit, StorageTypes
    <3> QED
      BY <1>5, <3>1, <3>2, <3>3
  <2>3. CASE UNCHANGED winners
    BY <1>1, <2>1, <2>3 DEF prizeVars
  <2>4. CASE ~IsSingle(e) /\ ~UNCHANGED winners
    <3>1. NoPrizes(e)
      BY <1>0, <2>1, <2>2, <2>4 DEF NoPrizes, AwardTypes, EventExists, IsSingle, Kind
    <3>2. \A x \in EventIds \ {e} : winners'[x] = winners[x]
      <4>1. PICK rows : winners' = WithWinners(e, rows)
        BY <1>5, <2>4, Zenon
        DEF ClaimGrantMilestone, ClaimCampaignMilestone, ForfeitMilestone, PayMilestone
      <4> QED
        BY <1>0, <4>1 DEF WithWinners, AwardTypes
    <3>3. ASSUME NEW x \in EventIds \ {e} PROVE SameWindow(x)
      BY <1>0, <2>1, <3>2 DEF SameWindow, AwardTypes, EventExists, prizeVars
    <3> QED
      BY <3>1, <3>3 DEF WindowMove
  <2> QED
    BY <2>2, <2>3, <2>4
<1> HIDE DEF Goal
<1>6. CASE FundingNext
  <2>1. ASSUME NEW e, NEW from, NEW amount, NEW op, AddFunds(e, from, amount, op)
        PROVE  Goal
    <3>1. UNCHANGED <<terms, winners, prizeVars>>
      BY <2>1, Zenon DEF AddFunds
    <3> QED
      BY <1>1, <3>1 DEF prizeVars
  <2>2. ASSUME NEW e, NEW target, \/ ProposeManager(e, target) \/ AcceptManager(e)
                                  \/ CancelPendingManager(e) \/ ReclaimManagement(e)
        PROVE  Goal
    <3>1. UnchangedButManagers
      BY <2>2 DEF ProposeManager, AcceptManager, CancelPendingManager,
                  ReclaimManagement
    <3> QED
      BY <1>1, <3>1 DEF UnchangedButManagers, prizeVars
  <2> QED
    BY <1>2, <1>6, <2>1, <2>2 DEF FundingNext
<1>7. CASE CancellationNext
  <2>1. UnchangedByCancel
    BY <1>7, Zenon DEF CancellationNext, StartCancel, ProcessCancelBatch,
                       FinalizeCancel, ClaimRefund
  <2> QED
    BY <1>1, <2>1 DEF UnchangedByCancel, prizeVars
<1>8. CASE AwardsNext
  BY <1>3, <1>4, <1>8 DEF AwardsNext
<1>9. CASE GrantsNext
  BY <1>5, <1>9 DEF GrantsNext
<1>10. CASE AdminNext \/ WorldNext
  <2>1. UNCHANGED eventVars
    BY <1>10 DEF AdminNext, Pause, Unpause, SetFeeBps, RegisterToken,
                 DeregisterToken, UnchangedByAdmin, WorldNext, Tick, Freeze, Thaw,
                 UnchangedByWorld
  <2> QED
    BY <1>1, <2>1 DEF eventVars, prizeVars
<1> QED
  BY <1>6, <1>7, <1>8, <1>9, <1>10 DEF Next

-----------------------------------------------------------------------------
(* The windows fit after every step.                                       *)

\* How the history variable follows the rows of one event.
DaysCounted(e) ==
  open_days'[e] = [i \in 1 .. Len(winners'[e]) |->
                     IF i \in DOMAIN winners[e] THEN open_days[e][i] + DayOpen ELSE 0]

\* The days of every row stay natural numbers.
LEMMA DaysTyped ==
  ASSUME NEW e \in EventIds, WindowFits(e), DaysCounted(e), DayOpen \in Nat,
         winners[e] \in Seq(Winner), winners'[e] \in Seq(Winner)
  PROVE  /\ open_days'[e] \in [1 .. Len(winners'[e]) -> Nat]
         /\ \A i \in DOMAIN winners'[e] :
              open_days'[e][i] = IF i \in DOMAIN winners[e]
                                 THEN open_days[e][i] + DayOpen ELSE 0
         /\ \A i \in DOMAIN winners[e] : open_days[e][i] \in Nat
<1>1. PICK w \in Seq(Winner), v \in Seq(Winner) : w = winners[e] /\ v = winners'[e]
  OBVIOUS
<1>2. DOMAIN w = 1 .. Len(w) /\ DOMAIN v = 1 .. Len(v)
  OBVIOUS
<1>3. \A i \in 1 .. Len(w) : open_days[e][i] \in Nat
  BY <1>1 DEF WindowFits
<1>4. open_days'[e] = [i \in 1 .. Len(v) |->
                         IF i \in 1 .. Len(w) THEN open_days[e][i] + DayOpen ELSE 0]
  BY <1>1, <1>2 DEF DaysCounted
<1> QED
  BY <1>1, <1>2, <1>3, <1>4

\* An event whose rows and window stay: every row ages with the open clock.
LEMMA SameWindowFits ==
  ASSUME NEW e \in EventIds, WindowFits(e), DaysCounted(e), SameWindow(e),
         OpenTime \in Int, DayOpen \in Nat, OpenTime' = OpenTime + DayOpen,
         StorageTypes
  PROVE  WindowFits(e)'
<1>1. /\ open_days'[e] \in [1 .. Len(winners'[e]) -> Nat]
      /\ \A i \in DOMAIN winners'[e] :
           open_days'[e][i] = IF i \in DOMAIN winners[e]
                              THEN open_days[e][i] + DayOpen ELSE 0
      /\ \A i \in DOMAIN winners[e] : open_days[e][i] \in Nat
  BY DaysTyped DEF SameWindow
<1>2. /\ DOMAIN winners'[e] = DOMAIN winners[e]
      /\ (winners'[e] = << >>) <=> (winners[e] = << >>)
  <2>1. PICK w \in Seq(Winner), v \in Seq(Winner) :
          w = winners[e] /\ v = winners'[e] /\ Len(w) = Len(v)
    BY DEF SameWindow
  <2> QED
    BY <2>1
<1>3. \A i \in DOMAIN winners[e] :
        OpenTime' - open_days'[e][i] + ClaimWindow
          = OpenTime - open_days[e][i] + ClaimWindow
  <2> SUFFICES ASSUME NEW i \in DOMAIN winners[e]
               PROVE  OpenTime' - open_days'[e][i] + ClaimWindow
                        = OpenTime - open_days[e][i] + ClaimWindow
    OBVIOUS
  <2>1. open_days'[e][i] = open_days[e][i] + DayOpen /\ open_days[e][i] \in Nat
    BY <1>1, <1>2
  <2>2. ClaimWindow \in Int
    BY StorageAssumption
  <2> QED
    BY <2>1, <2>2
<1>4. /\ (~EventExists(e))' => claim_expiry'[e] = 0
      /\ EventExists(e)' /\ IsSingle(e)' => EventExists(e) /\ IsSingle(e)
      /\ claim_expiry'[e] = claim_expiry[e]
  BY DEF SameWindow, WindowFits, IsSingle, Kind
<1> QED
  BY <1>1, <1>2, <1>3, <1>4 DEF WindowFits

\* A selection: its rows get the whole window, and no earlier row loses any.
LEMMA SelectedFits ==
  ASSUME NEW e \in EventIds, WindowFits(e), DaysCounted(e), Selected(e),
         OpenTime \in Int, OpenTime >= 1, DayOpen = 0, OpenTime' = OpenTime,
         StorageTypes
  PROVE  WindowFits(e)'
<1>1. /\ open_days'[e] \in [1 .. Len(winners'[e]) -> Nat]
      /\ \A i \in DOMAIN winners'[e] :
           open_days'[e][i] = IF i \in DOMAIN winners[e]
                              THEN open_days[e][i] + DayOpen ELSE 0
      /\ \A i \in DOMAIN winners[e] : open_days[e][i] \in Nat
  BY DaysTyped DEF Selected
<1>2. PICK w \in Seq(Winner), v \in Seq(Winner) :
        w = winners[e] /\ v = winners'[e] /\ Len(v) > Len(w)
  BY DEF Selected
<1>3. /\ DOMAIN w \subseteq DOMAIN v
      /\ Len(v) \in DOMAIN v \ DOMAIN w /\ v # << >>
  BY <1>2
<1>4. \A i \in DOMAIN v :
        open_days'[e][i] = IF i \in DOMAIN w THEN open_days[e][i] ELSE 0
  BY <1>1, <1>2
<1>5. claim_expiry[e] \in Int /\ ClaimWindow \in Nat
  BY StorageAssumption DEF StorageTypes, PrizeTypes
<1>6. ASSUME IsSingle(e), NEW i \in DOMAIN v
      PROVE  OpenTime' - open_days'[e][i] + ClaimWindow <= claim_expiry'[e]
  <2>1. CASE i \in DOMAIN w
    <3>1. /\ OpenTime - open_days[e][i] + ClaimWindow <= claim_expiry[e]
          /\ open_days[e][i] \in Nat /\ open_days'[e][i] = open_days[e][i]
      BY <1>1, <1>2, <1>4, <1>6, <2>1 DEF WindowFits, Selected
    <3> QED
      BY <1>5, <3>1 DEF Selected
  <2>2. CASE i \notin DOMAIN w
    <3>1. open_days'[e][i] = 0
      BY <1>4, <2>2
    <3> QED
      BY <1>5, <3>1 DEF Selected
  <2> QED
    BY <2>1, <2>2
<1>7. ASSUME IsSingle(e)
      PROVE  \E i \in DOMAIN v :
               claim_expiry'[e] = OpenTime' - open_days'[e][i] + ClaimWindow
  <2>1. CASE OpenTime + ClaimWindow > claim_expiry[e]
    <3>1. open_days'[e][Len(v)] = 0
      BY <1>3, <1>4
    <3> QED
      BY <1>3, <1>5, <2>1, <3>1 DEF Selected
  <2>2. CASE ~(OpenTime + ClaimWindow > claim_expiry[e])
    <3>1. w # << >>
      BY <1>2, <1>5, <1>7, <2>2 DEF WindowFits, Selected
    <3>2. PICK i \in DOMAIN w :
            claim_expiry[e] = OpenTime - open_days[e][i] + ClaimWindow
      BY <1>2, <1>7, <3>1 DEF WindowFits, Selected
    <3>3. open_days'[e][i] = open_days[e][i]
      BY <1>3, <1>4, <3>2
    <3> QED
      BY <1>3, <2>2, <3>2, <3>3 DEF Selected
  <2> QED
    BY <2>1, <2>2
<1>8. EventExists(e)' /\ (IsSingle(e)' <=> IsSingle(e))
  BY DEF Selected, IsSingle, Kind
<1> QED
  BY <1>1, <1>2, <1>3, <1>6, <1>7, <1>8 DEF WindowFits

\* Every step of the history keeps every window.
LEMMA HistoryStep ==
  ASSUME StorageTypes, StorageTypes', AwardsInv, WindowInv, HistoryNext
  PROVE  WindowInv'
<1>1. Next /\ \A e \in EventIds : DaysCounted(e)
  BY DEF HistoryNext, DaysCounted
<1>2. /\ ClockFits' /\ OpenTime' = OpenTime + DayOpen
      /\ OpenTime \in Int /\ DayOpen \in Nat
  BY <1>1, ClockStep DEF WindowInv, StorageTypes
<1>3. ASSUME NEW e \in EventIds PROVE WindowFits(e)'
  <2>1. WindowFits(e) /\ DaysCounted(e)
    BY <1>1 DEF WindowInv
  <2>2. WindowMove(e)
    BY <1>1, NextWindow
  <2>3. CASE SameWindow(e)
    BY <1>2, <2>1, <2>3, SameWindowFits
  <2>4. CASE NoPrizes(e)
    <3>1. open_days'[e] \in [1 .. Len(winners'[e]) -> Nat]
      BY <1>2, <2>1, <2>4, DaysTyped DEF NoPrizes
    <3> QED
      BY <2>4, <3>1 DEF WindowFits, NoPrizes
  <2>5. CASE NewPrizes(e)
    <3>1. open_days'[e] \in [1 .. Len(winners'[e]) -> Nat]
      BY <2>1, <2>5 DEF NewPrizes, DaysCounted
    <3> QED
      BY <2>1, <2>5, <3>1 DEF WindowFits, NewPrizes
  <2>6. CASE Selected(e)
    <3>1. OpenTime' = OpenTime /\ DayOpen = 0 /\ OpenTime >= 1
      BY <2>6, ClockStands DEF Selected, WindowInv, ClockFits, StorageTypes
    <3> QED
      BY <1>2, <2>1, <2>6, <3>1, SelectedFits
  <2> QED
    BY <2>2, <2>3, <2>4, <2>5, <2>6 DEF WindowMove
<1> QED
  BY <1>2, <1>3 DEF WindowInv

\* A history is a behaviour of the contract: open_days restricts nothing.
LEMMA HistoriesAreCalls == HistorySpec => Spec
<1>1. HistoryInit => Init
  BY DEF HistoryInit
<1>2. [HistoryNext]_<<vars, open_days>> => [Next]_vars
  BY DEF HistoryNext
<1> QED
  BY <1>1, <1>2, PTL DEF HistorySpec, Spec

\* In every reachable state the claim window of a prize event is its rows'.
LEMMA WindowInvariant == HistorySpec => []WindowInv
<1>1. HistoryInit => WindowInv
  <2> SUFFICES ASSUME HistoryInit PROVE WindowInv
    OBVIOUS
  <2>1. ClockFits
    BY DEF HistoryInit, Init, ClockFits, OpenTime
  <2>2. ASSUME NEW e \in EventIds PROVE WindowFits(e)
    <3>1. /\ ~EventExists(e) /\ claim_expiry[e] = 0
          /\ open_days[e] = << >> /\ winners[e] = << >>
      BY DEF HistoryInit, Init, EventExists
    <3> QED
      BY <3>1 DEF WindowFits
  <2> QED
    BY <2>1, <2>2 DEF WindowInv
<1>2. StorageTypes /\ StorageTypes' /\ AwardsInv /\ WindowInv
        /\ [HistoryNext]_<<vars, open_days>> => WindowInv'
  <2>1. CASE UNCHANGED <<vars, open_days>>
    BY <2>1 DEF vars, ambientVars, eventVars, pauseVars, prizeVars, WindowInv,
                ClockFits, OpenTime, WindowFits, EventExists, IsSingle, Kind
  <2> QED
    BY <2>1, HistoryStep
<1> QED
  BY <1>1, <1>2, HistoriesAreCalls, StorageTyped, AwardsInvariant, PTL DEF HistorySpec

\* Once every award has had its days, unclaimed prizes no longer hold the
\* funds back from start_cancel.
THEOREM ClaimWindowAlwaysEnds == HistorySpec => []ClaimWindowEnds
<1>1. StorageTypes /\ AwardsInv /\ WindowInv => ClaimWindowEnds
  <2> SUFFICES ASSUME StorageTypes, AwardsInv, WindowInv, NEW e \in Events,
                      IsSingle(e), AwardsBlockCancel(e)
               PROVE  \E i \in DOMAIN winners[e] : ~(open_days[e][i] > ClaimWindow)
    BY DEF ClaimWindowEnds
  <2>1. e \in EventIds /\ EventExists(e)
    BY DEF Events
  <2>2. terms[e].pillar # "Grant"
    BY <2>1, KindsApart DEF AwardsInv, AwardsFit, StorageTypes
  <2>3. unclaimed_prizes[e] > 0 /\ OpenTime <= claim_expiry[e]
    BY <2>2 DEF AwardsBlockCancel
  <2>4. winners[e] # << >>
    <3>1. unclaimed_prizes[e] = Cardinality(UnpaidRows(e))
      BY <2>1 DEF AwardsInv, AwardsFit, PrizesFit
    <3>2. CASE winners[e] = << >>
      <4>1. UnpaidRows(e) = {}
        BY <3>2 DEF UnpaidRows
      <4> QED
        BY <2>3, <3>1, <4>1, FS_EmptySet
    <3> QED
      BY <3>2
  <2>5. /\ open_days[e] \in [1 .. Len(winners[e]) -> Nat]
        /\ \E i \in DOMAIN winners[e] :
             claim_expiry[e] = OpenTime - open_days[e][i] + ClaimWindow
    BY <2>1, <2>4 DEF WindowInv, WindowFits
  <2>6. PICK i \in DOMAIN winners[e] :
          claim_expiry[e] = OpenTime - open_days[e][i] + ClaimWindow
    BY <2>5
  <2>7. open_days[e][i] \in Nat
    <3>1. DOMAIN winners[e] = 1 .. Len(winners[e])
      BY <2>1 DEF StorageTypes, AwardTypes
    <3> QED
      BY <2>5, <2>6, <3>1
  <2>8. OpenTime \in Int /\ ClaimWindow \in Nat
    BY StorageAssumption, NoneAssumption DEF StorageTypes, InstanceTypes, OpenTime
  <2> QED
    BY <2>3, <2>6, <2>7, <2>8
<1> QED
  BY <1>1, HistoriesAreCalls, StorageTyped, AwardsInvariant, WindowInvariant, PTL

\* An active event leaves Active towards Cancelling or Cancelled by
\* start_cancel only.
LEMMA CancelledByStart ==
  ASSUME StorageTypes, Next, NEW e \in EventIds, EventExists(e),
         status[e] = "Active", status'[e] \in {"Cancelling", "Cancelled"}
  PROVE  ~AwardsBlockCancel(e)
<1>1. CASE UNCHANGED status
  BY <1>1
<1>2. status \in [EventIds -> Statuses]
  BY DEF StorageTypes, RecordTypes
<1>3. ASSUME NEW x, status' = [status EXCEPT ![x] = "Active"] PROVE FALSE
  BY <1>2, <1>3
<1>4. ASSUME NEW x, status' = [status EXCEPT
             ![x] = IF remaining_escrow'[x] = 0 THEN "Completed" ELSE @]
      PROVE  FALSE
  BY <1>2, <1>4
<1>5. CASE FundingNext
  <2>1. ASSUME NEW params, NEW op, CreateEvent(params, op) PROVE FALSE
    <3>1. PICK x : status' = [status EXCEPT ![x] = "Active"]
      BY <2>1, Zenon DEF CreateEvent
    <3> QED
      BY <1>3, <3>1
  <2>2. ASSUME NEW x, NEW from, NEW amount, NEW op, AddFunds(x, from, amount, op)
        PROVE  UNCHANGED status
    BY <2>2, Zenon DEF AddFunds
  <2>3. ASSUME NEW x, NEW target, \/ ProposeManager(x, target) \/ AcceptManager(x)
                                  \/ CancelPendingManager(x) \/ ReclaimManagement(x)
        PROVE  UNCHANGED status
    BY <2>3, Zenon DEF ProposeManager, AcceptManager, CancelPendingManager,
                       ReclaimManagement, UnchangedButManagers
  <2> QED
    BY <1>1, <1>5, <2>1, <2>2, <2>3 DEF FundingNext
<1>6. CASE CancellationNext
  <2>1. ASSUME NEW x \in EventIds, NEW op, StartCancel(x, op)
        PROVE  ~AwardsBlockCancel(e)
    <3>1. /\ ~AwardsBlockCancel(x)
          /\ \/ status' = [status EXCEPT ![x] = "Cancelled"]
             \/ status' = [status EXCEPT ![x] = "Cancelling"]
      BY <2>1, Zenon DEF StartCancel
    <3>2. x = e
      BY <1>2, <3>1
    <3> QED
      BY <3>1, <3>2
  <2>2. ASSUME NEW x, NEW max, NEW op, ProcessCancelBatch(x, max, op)
        PROVE  UNCHANGED status
    BY <2>2, Zenon DEF ProcessCancelBatch
  <2>3. ASSUME NEW x, NEW u, NEW op, ClaimRefund(x, u, op)
        PROVE  UNCHANGED status
    BY <2>3, Zenon DEF ClaimRefund
  <2>4. ASSUME NEW x \in EventIds, NEW op, FinalizeCancel(x, op) PROVE FALSE
    <3>1. status[x] = "Cancelling" /\ status' = [status EXCEPT ![x] = "Cancelled"]
      BY <2>4, Zenon DEF FinalizeCancel
    <3> QED
      BY <1>2, <3>1
  <2> QED
    BY <1>1, <1>6, <2>1, <2>2, <2>3, <2>4 DEF CancellationNext
<1>7. CASE AwardsNext
  <2>1. ASSUME NEW x, NEW batch, NEW op,
               SelectPrizes(x, batch, op) \/ SelectGrantees(x, batch, op)
        PROVE  UNCHANGED status
    BY <2>1, Zenon DEF SelectPrizes, SelectGrantees, UnchangedBySelection
  <2>2. ASSUME NEW x, NEW p, NEW op, ClaimPrize(x, p, op) PROVE FALSE
    <3>1. status' = [status EXCEPT
            ![x] = IF remaining_escrow'[x] = 0 THEN "Completed" ELSE @]
      BY <2>2, Zenon DEF ClaimPrize
    <3> QED
      BY <1>4, <3>1
  <2> QED
    BY <1>1, <1>7, <2>1, <2>2 DEF AwardsNext
<1>8. CASE GrantsNext
  <2>1. ASSUME NEW x, NEW r, NEW m, NEW bump, NEW op,
               \/ ClaimGrantMilestone(x, r, m, bump, op)
               \/ ClaimCampaignMilestone(x, r, m, bump, op)
        PROVE  FALSE
    <3>1. status' = [status EXCEPT
            ![x] = IF remaining_escrow'[x] = 0 THEN "Completed" ELSE @]
      BY <2>1, Zenon DEF ClaimGrantMilestone, ClaimCampaignMilestone, PayMilestone
    <3> QED
      BY <1>4, <3>1
  <2>2. ASSUME NEW x, NEW r, NEW m, NEW op, ForfeitMilestone(x, r, m, op)
        PROVE  UNCHANGED status
    BY <2>2, Zenon DEF ForfeitMilestone
  <2> QED
    BY <1>1, <1>8, <2>1, <2>2 DEF GrantsNext
<1>9. CASE AdminNext \/ WorldNext
  <2>1. UNCHANGED eventVars
    BY <1>9 DEF AdminNext, Pause, Unpause, SetFeeBps, RegisterToken,
                DeregisterToken, UnchangedByAdmin, WorldNext, Tick, Freeze, Thaw,
                UnchangedByWorld
  <2> QED
    BY <1>1, <2>1 DEF eventVars
<1> QED
  BY <1>5, <1>6, <1>7, <1>8, <1>9 DEF Next

\* No unclaimed prize is cancelled away before its winner had the whole claim
\* window in days the contract was open, whatever the pauses and the other
\* selections (start_cancel, select_winners).
THEOREM ClaimWindowAlwaysHonoured == HistorySpec => ClaimWindowHonoured
<1> DEFINE Honoured == \A e \in Events :
                         IsSingle(e) /\ status[e] = "Active"
                           /\ status'[e] \in {"Cancelling", "Cancelled"} =>
                             \A i \in UnpaidRows(e) : open_days[e][i] > ClaimWindow
<1>1. ASSUME StorageTypes, AwardsInv, WindowInv, Next PROVE Honoured
  <2> SUFFICES ASSUME NEW e \in Events, IsSingle(e), status[e] = "Active",
                      status'[e] \in {"Cancelling", "Cancelled"},
                      NEW i \in UnpaidRows(e)
               PROVE  open_days[e][i] > ClaimWindow
    OBVIOUS
  <2>1. e \in EventIds /\ EventExists(e)
    BY DEF Events
  <2>2. ~AwardsBlockCancel(e)
    BY <1>1, <2>1, CancelledByStart
  <2>3. unclaimed_prizes[e] > 0
    <3>1. unclaimed_prizes[e] = Cardinality(UnpaidRows(e))
      BY <1>1, <2>1 DEF AwardsInv, AwardsFit, PrizesFit
    <3>2. IsFiniteSet(UnpaidRows(e))
      <4>1. PICK n \in Nat : DOMAIN winners[e] = 1 .. n
        BY <1>1, <2>1 DEF StorageTypes, AwardTypes
      <4>2. IsFiniteSet(1 .. n)
        BY FS_Interval
      <4>3. UnpaidRows(e) \subseteq 1 .. n
        BY <4>1 DEF UnpaidRows
      <4> QED
        BY <4>2, <4>3, FS_Subset
    <3>3. Cardinality(UnpaidRows(e)) \in Nat /\ Cardinality(UnpaidRows(e)) # 0
      BY <3>2, FS_EmptySet, FS_CardinalityType
    <3> QED
      BY <3>1, <3>3
  <2>4. ~(OpenTime <= claim_expiry[e])
    BY <2>2, <2>3 DEF AwardsBlockCancel
  <2>5. i \in DOMAIN winners[e]
    BY DEF UnpaidRows
  <2>6. /\ open_days[e] \in [1 .. Len(winners[e]) -> Nat]
        /\ OpenTime - open_days[e][i] + ClaimWindow <= claim_expiry[e]
    BY <1>1, <2>1, <2>5 DEF WindowInv, WindowFits
  <2>7. open_days[e][i] \in Nat
    <3>1. DOMAIN winners[e] = 1 .. Len(winners[e])
      BY <1>1, <2>1 DEF StorageTypes, AwardTypes
    <3> QED
      BY <2>5, <2>6, <3>1
  <2>8. OpenTime \in Int /\ ClaimWindow \in Nat /\ claim_expiry[e] \in Int
    BY <1>1, <2>1, StorageAssumption, NoneAssumption
    DEF StorageTypes, InstanceTypes, PrizeTypes, OpenTime
  <2> QED
    BY <2>4, <2>6, <2>7, <2>8
<1>2. StorageTypes /\ AwardsInv /\ WindowInv /\ [Next]_vars => [Honoured]_vars
  BY <1>1
<1> QED
  BY <1>2, HistoriesAreCalls, StorageTyped, AwardsInvariant, WindowInvariant, PTL
  DEF Spec, ClaimWindowHonoured
=============================================================================
