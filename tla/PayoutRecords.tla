---------------------------- MODULE PayoutRecords ----------------------------
(***************************************************************************)
(* The events contract and the profile contract together: every payout is  *)
(* followed, in the same call, by three best-effort calls that create the  *)
(* recipient's profile, raise its reputation and register its earnings     *)
(* (event_ops.rs: claim_prize; grant.rs: claim_milestone).  Each of the    *)
(* three may fail without the payout failing.  In between, the admin       *)
(* pauses, binds and rebinds either side, and users spend operation ids    *)
(* of their own.  What another events contract writes while it is bound    *)
(* is left out, and so is who the admin is (AdminHistory, ProfileControl)  *)
(* and who refuses tokens: a payout that fails leaves no record at all.    *)
(***************************************************************************)
EXTENDS EventsContract

CONSTANTS
  Profile, Admin,     \* the profile contract's own address, and its admin's
  ProfileContracts,   \* addresses the events contract may be pointed at
  EventsContracts,    \* addresses the profile contract may be bound to
  MaxDeltaPerCall, MaxReputation, MaxEarnings,
  BindingTimelock, BindingTtl,
  Strangers, Guesses,    \* users who call bootstrap_self, and whose ids they spend
  Slashable, SlashDeltas, SlashOps,   \* the inputs of the admin's slash
  MaxSlashed          \* bound of the model: how much a user is slashed

ASSUME PayoutAssumption ==
  /\ Profile \in ProfileContracts /\ Contract \in EventsContracts
  /\ None \notin EventsContracts
  /\ Admin # Contract
  /\ MaxDeltaPerCall \in Nat /\ MaxReputation \in Nat /\ MaxEarnings \in Nat
  /\ BindingTimelock \in Nat /\ BindingTtl \in Nat
  /\ SlashDeltas \subseteq Nat /\ MaxSlashed \in Nat
  /\ MaxReputationBump <= MaxDeltaPerCall
  /\ Strangers \cup Guesses \cup Slashable \subseteq Users

VARIABLES
  profile_contract,           \* the events contract's binding
  profile_paused, events_contract, pending_events_contract,
  book,                       \* the records of the profile contract
  missed,                     \* history: paid while the profile was out of reach
  due_reputation, slashed     \* history: reputation sent to it, and taken back

Records == INSTANCE ProfileRecords
             WITH People <- Users, Currencies <- Tokens, paused <- profile_paused
Binding == INSTANCE ProfileBinding WITH paused <- profile_paused

linkVars == <<profile_contract, profile_paused, events_contract,
              pending_events_contract>>
historyVars == <<missed, due_reputation, slashed>>
recordVars == <<linkVars, book, historyVars>>

\* Bound to each other or not: both ends start as they were deployed.
PayoutInit ==
  /\ Init
  /\ profile_contract = Profile
  /\ profile_paused = FALSE
  /\ events_contract = None /\ pending_events_contract = None
  /\ book = Records!EmptyBook
  /\ missed = [u \in Users |-> [t \in Tokens |-> 0]]
  /\ due_reputation = [u \in Users |-> 0]
  /\ slashed = [u \in Users |-> 0]

-----------------------------------------------------------------------------
(* A payout and its records                                                *)

\* A slip: the children of an id are the same whoever signed for it.
ChildOfAnyone(domain, op, tag) == <<op, tag, profile_contract>>

\* derive_child: a hash, here the tuple of what goes into it.
Child(domain, op, tag) == <<op, tag, profile_contract, domain>>

\* A best-effort call: it reaches the profile contract if that is where the
\* events contract points, and changes nothing if it is refused.
Try(allowed, b, after) ==
  IF profile_contract = Profile /\ allowed THEN after ELSE b

Bootstrapped(b, domain, user, op) ==
  LET id == Child(domain, op, "bootstrap")
  IN  Try(Records!FromEvents(b, Contract, id), b,
          Records!Bootstrap(b, Contract, user, id))

Bumped(b, domain, user, bump, op) ==
  LET id == Child(domain, op, "bump")
  IN  Try(Records!BumpAllowed(b, Contract, user, bump, id), b,
          Records!Bump(b, Contract, user, bump, id))

EarningsRegistered(b, domain, user, t, amount, op) ==
  LET id == Child(domain, op, "earnings")
  IN  Try(Records!RegisterAllowed(b, Contract, user, t, amount, id), b,
          Records!Register(b, Contract, user, t, amount, id))

\* The three calls, in their order; domain is who signed for the payout.
Recorded(domain, user, t, amount, bump, op) ==
  LET b1 == Bootstrapped(book, domain, user, op)
      b2 == Bumped(b1, domain, user, bump, op)
  IN  EarningsRegistered(b2, domain, user, t, amount, op)

Reachable ==
  profile_contract = Profile /\ ~profile_paused /\ events_contract = Contract

RecordPayout(domain, user, t, amount, bump, op) ==
  /\ book' = Recorded(domain, user, t, amount, bump, op)
  /\ missed' = IF Reachable THEN missed
               ELSE [missed EXCEPT ![user][t] = @ + amount]
  /\ due_reputation' = IF Reachable
                       THEN [due_reputation EXCEPT ![user] = @ + bump]
                       ELSE due_reputation
  /\ UNCHANGED <<linkVars, slashed>>

PrizePayout(e, p, op) ==
  LET award == prize_award[e][p]
  IN  /\ ClaimPrize(e, p, op)
      /\ RecordPayout(award.recipient, award.recipient, Token(e),
                      winners[e][award.anchor_idx].amount,
                      award.reputation_bump, op)

GrantPayout(e, r, m, bump, op) ==
  /\ ClaimGrantMilestone(e, r, m, bump, op)
  /\ RecordPayout(Owner(e), r, Token(e), SettlementOf(e, r, m), bump, op)

\* A campaign's earnings are registered before the fee is taken.
CampaignPayout(e, r, m, bump, op) ==
  /\ ClaimCampaignMilestone(e, r, m, bump, op)
  /\ RecordPayout(Owner(e), r, Token(e), CampaignDraw(e), bump, op)

PayoutsNext ==
  \/ \E e \in EventIds, p \in Positions, op \in OpIds : PrizePayout(e, p, op)
  \/ \E e \in EventIds, r \in Users, bump \in ReputationBumps, op \in OpIds :
       \E m \in MilestoneInputs(e) :
         GrantPayout(e, r, m, bump, op) \/ CampaignPayout(e, r, m, bump, op)

-----------------------------------------------------------------------------
(* Everything else that happens to the two contracts                       *)

\* The calls of the events contract that pay no one.
OtherEventsCalls ==
  /\ \/ FundingNext
     \/ CancellationNext
     \/ \E e \in EventIds, batch \in WinnerBatches, op \in OpIds :
          SelectPrizes(e, batch, op) \/ SelectGrantees(e, batch, op)
     \/ \E e \in EventIds, r \in Users, op \in OpIds :
          \E m \in MilestoneInputs(e) : ForfeitMilestone(e, r, m, op)
     \/ AdminNext
  /\ UNCHANGED recordVars

\* A day: the markers of both contracts are temporary entries.
Day ==
  /\ Tick
  /\ book' = [book EXCEPT !.op_seen = {}]
  /\ UNCHANGED <<linkVars, historyVars>>

\* set_profile_contract, in one step.
SetProfileContract(c) ==
  /\ profile_contract' = c
  /\ UNCHANGED <<profile_paused, events_contract, pending_events_contract>>

\* The admin of either contract.
LinkNext ==
  /\ \/ \E c \in ProfileContracts : SetProfileContract(c)
     \/ /\ \/ \E c \in EventsContracts :
                Binding!SetEventsContract(c) \/ Binding!ProposeEventsContract(c)
           \/ Binding!AcceptEventsContract
           \/ Binding!CancelPendingEventsContract
           \/ Binding!Pause
           \/ Binding!Unpause
        /\ UNCHANGED profile_contract
  /\ UNCHANGED <<vars, book, historyVars>>

\* Users may spend any id in their own name.  The ones that matter are the
\* children of payouts to come, op ids being known before they are used.
SelfNext ==
  /\ \E u \in Strangers, signer \in Guesses, op \in OpIds :
       Records!BootstrapSelf(u, Child(signer, op, "earnings"))
  /\ UNCHANGED <<vars, linkVars, historyVars>>

\* The admin's slash; its ids are kept under the admin's address.
SlashNext ==
  \E u \in Slashable, delta \in SlashDeltas, op \in SlashOps :
    /\ slashed[u] + delta <= MaxSlashed
    /\ Records!AdminSlash(Admin, u, delta, op)
    /\ slashed' = [slashed EXCEPT ![u] = @ + delta]
    /\ UNCHANGED <<vars, linkVars, missed, due_reputation>>

PayoutNext ==
  PayoutsNext \/ OtherEventsCalls \/ Day \/ LinkNext \/ SelfNext \/ SlashNext

payoutVars == <<vars, recordVars>>

PayoutSpec == PayoutInit /\ [][PayoutNext]_payoutVars

-----------------------------------------------------------------------------
(* Properties                                                              *)

\* What the events contract has paid u in token t, by its winners lists.
PaidTo(u, t) ==
  SumFunction([e \in {x \in DOMAIN terms : Token(x) = t} |->
    SumFunction([i \in {k \in DOMAIN winners[e] :
                          winners[e][k].recipient = u /\ winners[e][k].paid}
                 |-> winners[e][i].amount])])

\* An id the profile contract has seen from the events contract is a child of
\* an operation the events contract has seen from the same signer: so the
\* children of a payout that is accepted are always fresh, and whoever learns
\* its op id first cannot spend them (derive_child, events_domain,
\* bootstrap_self; Tamp.14 in docs/threat-model.md).
ChildrenFollowParents ==
  \A x \in book.op_seen :
    x[1] = Contract => <<x[2][4], x[2][1]>> \in op_seen

\* The earnings of a user are what the events contract paid it while the two
\* contracts could talk, to the token: no other payout, id or call, of anyone,
\* makes a payout go unrecorded or be recorded twice (the children of
\* derive_child, register).
ReachablePayoutsRecorded ==
  \A u \in Users, t \in Tokens :
    book.earnings[u][t] + missed[u][t] = PaidTo(u, t)

\* A reputation is what those same payouts sent, less what the admin took:
\* the three calls of a payout go through together, whoever created the
\* profile, and neither end of the scale loses more than it cuts off (bump,
\* admin_slash, bootstrap).
ReputationAccounted ==
  \A u \in Users :
    LET due == due_reputation[u]
        kept == Records!AtMost(due, MaxReputation)
    IN  IF book.reputation[u] = None
        THEN due = 0 /\ slashed[u] = 0
             /\ \A t \in Tokens : book.earnings[u][t] = 0
        ELSE book.reputation[u] \in kept - slashed[u] .. kept
=============================================================================
