--------------------------- MODULE EventsStorage ---------------------------
(***************************************************************************)
(* The storage of the events contract (storage.rs, types.rs), the token    *)
(* balances it moves (escrow.rs), and the guards every entry point shares: *)
(* the pause, the operation-id markers and the manager of an event.        *)
(*                                                                         *)
(* A storage key that may be absent and is read with a default             *)
(* (unwrap_or) is a function with that default; an Option is None.  The    *)
(* fields of an event record that never change after creation are          *)
(* terms[e]; status and remaining_escrow are kept apart from them.  A call *)
(* that returns an error is rolled back by the host and so is no step.     *)
(***************************************************************************)
EXTENDS EscrowMath

CONSTANTS
  Users,            \* addresses that sign calls and receive payouts
  Contract,         \* the events contract's own address
  FeeAccount,       \* the account fees are paid to
  Tokens,           \* token contracts
  None              \* an absent Option

CONSTANTS           \* the inputs of the calls, from finite sets
  EventParams, WinnerBatches, Contributions, BatchSizes, Positions, OpIds,
  ReputationBumps, ManagerTargets

CONSTANTS           \* what the admin and the world may do
  MayPause,         \* BOOLEAN: the admin pauses and unpauses
  FeeSettings,      \* values the admin sets the fee to
  ManagedTokens,    \* tokens the admin registers and deregisters
  Freezable,        \* accounts that may come to refuse the token
  Wealth            \* what each user holds of each token at the start

CONSTANTS           \* bounds of the model: how many events, how long
  MaxEvents, MaxTime

CONSTANTS           \* the contract's own limits
  MinContribution, MaxAwardsPerSelect, MaxGrantAwards, MaxRefundsPerBatch,
  MaxReputationBump, PendingManagerTtl, ClaimWindow, MaxFeeBps

Holders   == Users \cup {Contract, FeeAccount}
EventIds  == 1 .. MaxEvents
Pillars   == {"Hackathon", "Bounty", "Crowdfunding", "Grant"}
Statuses  == {"None", "Active", "Cancelling", "Completed", "Cancelled"}

\* The parameters of create_event that outlive it.
CreateEventParams ==
  [pillar : Pillars, owner : Users, token : Tokens, total_budget : Int,
   kind : ReleaseKinds, floors : [Positions -> Int \cup {None}],
   fee_override : Nat \cup {None}, manager : Users \cup {None}]

WinnerSpec ==
  [recipient : Users, position : Positions, amount : Int,
   reputation_bump : Nat]

Winner ==
  [recipient : Users, position : Positions, amount : Int,
   milestone : Nat \cup {None}, paid : BOOLEAN]

PrizeAward ==
  [recipient : Users, anchor_idx : Nat \ {0}, reputation_bump : Nat]

GrantAward     == [position : Positions, amount : Int]
GrantProgress  == [settled : Nat, settled_amount : Int]
PendingManager == [target : Users, expires_at : Nat]

CancellationState ==
  [non_owner_total : Nat \ {0}, remaining_at_start : Nat,
   count_at_start : Nat, next_idx : Nat,
   branch : CancellationBranches \ {"OwnerOnly"}]

ASSUME StorageAssumption ==
  /\ 1 \in Positions
  /\ EventParams \subseteq CreateEventParams
  /\ WinnerBatches \subseteq Seq(WinnerSpec)
  /\ Contributions \subseteq Int /\ BatchSizes \subseteq Nat
  /\ FeeSettings \subseteq Nat /\ ReputationBumps \subseteq Nat
  /\ ManagerTargets \subseteq Users
  /\ ManagedTokens \subseteq Tokens /\ Freezable \subseteq Holders
  /\ Contract \notin Freezable
  /\ MayPause \in BOOLEAN
  /\ MaxEvents \in Nat /\ MaxTime \in Nat /\ Wealth \in Nat
  /\ MinContribution \in Nat \ {0}
  /\ MaxFeeBps \in Nat /\ MaxFeeBps <= BpsTotal
  /\ MaxAwardsPerSelect \in Nat /\ MaxGrantAwards \in Nat
  /\ MaxRefundsPerBatch \in Nat /\ MaxReputationBump \in Nat
  /\ PendingManagerTtl \in Nat /\ ClaimWindow \in Nat

\* There are finitely many addresses: an address is 32 bytes.
ASSUME FinitenessAssumption == IsFiniteSet(Users)

ASSUME AddressAssumption ==
  Contract \notin Users \cup {FeeAccount} /\ FeeAccount \notin Users

ASSUME NoneAssumption ==
  None \notin Users \cup Int \cup PrizeAward \cup GrantAward
                \cup PendingManager \cup CancellationState

VARIABLES
  now,                \* ledger timestamp and sequence, one clock for both
  paused, paused_at, paused_seconds,
  fee_bps, supported,
  terms,              \* terms[e]: the creation parameters of event e
  status, remaining_escrow,
  manager, pending_manager,
  winners, prize_award, unclaimed_prizes, owed_total, claim_expiry,
  roster, progress, milestone_claimed, cf_claimed,
  contributors, contributed, non_owner_total,
  cancellation, unclaimed_refund,
  op_seen,            \* live OpSeen markers: (authorizing address, op id)
  balance, refusing   \* the tokens: balances, and accounts that refuse them

pauseVars   == <<paused, paused_at, paused_seconds>>
configVars  == <<fee_bps, supported>>
managerVars == <<manager, pending_manager>>
prizeVars   == <<prize_award, unclaimed_prizes, claim_expiry>>
grantVars   == <<roster, progress, milestone_claimed>>
contributionVars == <<contributors, contributed, non_owner_total>>
cancelVars  == <<cancellation, unclaimed_refund>>
\* What no entry point of an event changes.
ambientVars == <<now, pauseVars, configVars, refusing>>
eventVars   == <<terms, status, remaining_escrow, managerVars, winners,
                 prizeVars, owed_total, grantVars, cf_claimed,
                 contributionVars, cancelVars>>
vars == <<ambientVars, eventVars, op_seen, balance>>

-----------------------------------------------------------------------------
Init ==
  /\ now = 1 /\ paused = FALSE /\ paused_at = None /\ paused_seconds = 0
  /\ fee_bps \in {f \in FeeSettings : f <= MaxFeeBps}
  /\ supported = Tokens
  /\ terms = << >>
  /\ status = [e \in EventIds |-> "None"]
  /\ remaining_escrow = [e \in EventIds |-> 0]
  /\ manager = [e \in EventIds |-> None]
  /\ pending_manager = [e \in EventIds |-> None]
  /\ winners = [e \in EventIds |-> << >>]
  /\ prize_award = [e \in EventIds |-> [p \in Positions |-> None]]
  /\ unclaimed_prizes = [e \in EventIds |-> 0]
  /\ owed_total = [e \in EventIds |-> 0]
  /\ claim_expiry = [e \in EventIds |-> 0]
  /\ roster = [e \in EventIds |-> [u \in Users |-> None]]
  /\ progress = [e \in EventIds |->
                   [u \in Users |-> [settled |-> 0, settled_amount |-> 0]]]
  /\ milestone_claimed = [e \in EventIds |-> {}]
  /\ cf_claimed = [e \in EventIds |-> 0]
  /\ contributors = [e \in EventIds |-> << >>]
  /\ contributed = [e \in EventIds |-> [u \in Users |-> 0]]
  /\ non_owner_total = [e \in EventIds |-> 0]
  /\ cancellation = [e \in EventIds |-> None]
  /\ unclaimed_refund = [e \in EventIds |-> [u \in Users |-> 0]]
  /\ op_seen = {}
  /\ balance = [t \in Tokens |->
                  [h \in Holders |-> IF h \in Users THEN Wealth ELSE 0]]
  /\ refusing = {}

\* Every storage key holds a value of its type; amounts of escrow,
\* contributions and refunds are never negative.
InstanceTypes ==
  /\ now \in Nat /\ paused \in BOOLEAN /\ paused_at \in (0 .. now) \cup {None}
  /\ paused_seconds \in Nat
  /\ fee_bps \in Nat /\ supported \subseteq Tokens
  /\ refusing \subseteq Holders

RecordTypes ==
  /\ terms \in Seq(EventParams) /\ Len(terms) <= MaxEvents
  /\ status \in [EventIds -> Statuses]
  /\ remaining_escrow \in [EventIds -> Nat]

ManagerTypes ==
  /\ manager \in [EventIds -> Users \cup {None}]
  /\ pending_manager \in [EventIds -> PendingManager \cup {None}]

AwardTypes ==
  /\ winners \in [EventIds -> Seq(Winner)]
  /\ owed_total \in [EventIds -> Int]

PrizeTypes ==
  /\ prize_award \in [EventIds -> [Positions -> PrizeAward \cup {None}]]
  /\ unclaimed_prizes \in [EventIds -> Nat]
  /\ claim_expiry \in [EventIds -> Int]

GrantTypes ==
  /\ roster \in [EventIds -> [Users -> GrantAward \cup {None}]]
  /\ progress \in [EventIds -> [Users -> GrantProgress]]
  /\ milestone_claimed \in [EventIds -> SUBSET (Users \X Nat)]

CampaignTypes == cf_claimed \in [EventIds -> Nat]

ContributionTypes ==
  /\ contributors \in [EventIds -> Seq(Users)]
  /\ contributed \in [EventIds -> [Users -> Nat]]
  /\ non_owner_total \in [EventIds -> Nat]

CancelTypes ==
  /\ cancellation \in [EventIds -> CancellationState \cup {None}]
  /\ unclaimed_refund \in [EventIds -> [Users -> Nat]]

OpTypes == op_seen \subseteq (Users \cup {Contract}) \X OpIds

StorageTypes ==
  /\ InstanceTypes /\ RecordTypes /\ ManagerTypes /\ AwardTypes /\ PrizeTypes
  /\ GrantTypes /\ CampaignTypes /\ ContributionTypes /\ CancelTypes /\ OpTypes

\* The type invariant: the storage, and a ledger in which no account is ever
\* overdrawn.
TypeOK ==
  /\ StorageTypes
  /\ balance \in [Tokens -> [Holders -> Nat]]

-----------------------------------------------------------------------------
(* Shared guards and reads                                                 *)

EventExists(e) == e \in DOMAIN terms
\* Slips: a cancelling event, or any event at all, passes for active.
ActiveOrCancelling(e) == EventExists(e) /\ status[e] \in {"Active", "Cancelling"}

IsActive(e)    == EventExists(e) /\ status[e] = "Active"
Owner(e)       == terms[e].owner
Token(e)       == terms[e].token
Kind(e)        == terms[e].kind
IsCrowdfunding(e) == terms[e].pillar = "Crowdfunding"
IsSingle(e)       == Kind(e).form = "Single"

\* resolve_manager: the delegated manager, or the owner.
ManagerOf(e) == IF manager[e] = None THEN Owner(e) ELSE manager[e]

\* A slip: the pause is not looked at.
NeverPaused == TRUE

NotPaused == ~paused

\* A slip: paused days count as open.
WallTime == now

\* Seconds the contract has been open: the clock claim windows run on.
OpenTime ==
  now - (paused_seconds + IF paused_at = None THEN 0 ELSE now - paused_at)

EffectiveFee(e) ==
  IF terms[e].fee_override = None THEN fee_bps ELSE terms[e].fee_override

\* A slip: the marker is written and never looked at.
Unchecked(domain, op) == <<domain, op>> \in (Users \cup {Contract}) \X OpIds

\* require_unseen and mark_seen, namespaced by the address that signed.
Unseen(domain, op)   == <<domain, op>> \notin op_seen
MarkSeen(domain, op) == op_seen' = op_seen \cup {<<domain, op>>}

\* A slip: the rows replace the ones there.
WinnersReplaced(e, rows) == [winners EXCEPT ![e] = rows]

\* append_winner, for one row or several.
WithWinners(e, rows) == [winners EXCEPT ![e] = @ \o rows]

-----------------------------------------------------------------------------
(* Token movements (escrow.rs).  A transfer fails, and the call with it,   *)
(* when the payer is short or either account refuses the token.            *)

Move(b, from, to, amount) ==
  [b EXCEPT ![from] = @ - amount, ![to] = @ + amount]

CanSend(t, from, amount) == from \notin refusing /\ balance[t][from] >= amount
CanReceive(to, amount)   == amount > 0 => to \notin refusing

DepositWithFee(t, from, amount, bps) ==
  LET fee == ComputeFee(amount, bps)
  IN  /\ CanSend(t, from, amount + fee)
      /\ CanReceive(FeeAccount, fee)
      /\ balance' = [balance EXCEPT ![t] =
           Move(Move(@, from, Contract, amount + fee),
                Contract, FeeAccount, fee)]

DepositNoFee(t, from, amount) ==
  /\ CanSend(t, from, amount)
  /\ balance' = [balance EXCEPT ![t] = Move(@, from, Contract, amount)]

Release(t, to, amount) ==
  /\ CanSend(t, Contract, amount) /\ CanReceive(to, amount)
  /\ balance' = [balance EXCEPT ![t] = Move(@, Contract, to, amount)]

\* A slip: the fee is withheld and not sent on.
ReleaseKeepingFee(t, to, amount, bps) ==
  LET net == amount - ComputeFee(amount, bps)
  IN  /\ CanSend(t, Contract, amount) /\ CanReceive(to, net)
      /\ balance' = [balance EXCEPT ![t] = Move(@, Contract, to, net)]

ReleaseWithFee(t, to, amount, bps) ==
  LET fee == ComputeFee(amount, bps)
      net == amount - fee
  IN  /\ CanSend(t, Contract, amount)
      /\ CanReceive(to, net) /\ CanReceive(FeeAccount, fee)
      /\ balance' = [balance EXCEPT ![t] =
           Move(Move(@, Contract, to, net), Contract, FeeAccount, fee)]
=============================================================================
