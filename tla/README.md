# Boundless contracts: TLA+ models, checks and proofs

This directory models the Soroban contracts of the repository: what the
events contract does with the money and the awards of an event, checked with
TLC on small instances and, where possible, proved with TLAPS for every
instance; and what the profile contract records of its payouts, how the two
are bound, controlled and migrated. Paths such as `event_ops.rs` are under
`contracts/events/src/`, `profile/...` under `contracts/profile/src/`.

    tlc -config Prizes.cfg MCPrizes.tla        # any run, see "Runs"
    tlapm EventsSafetyProofs.tla               # any proof module, see "Proofs"

## 1. The system

Two Soroban contracts. **Events** holds the escrow of every event (hackathon,
bounty, grant, crowdfunding campaign) in one token balance per token, and
keeps per event what part of it is whose. **Profile** keeps a reputation and
earnings record per user, written by the events contract. An off-chain
orchestrator submits signed calls with an operation id and may retry them.

| Component | Source | State | Operations | Hard behaviour | What makes it correct |
|---|---|---|---|---|---|
| Event creation, funding | `event_ops.rs` | event record, `remaining_escrow`, contributor amounts, registry and total | `create_event`, `add_funds` | three records of one contribution updated apart; fees | registry, amounts and total agree |
| Manager rotation | `event_ops.rs` | manager, pending proposal with an expiry | `propose_manager`, `accept_manager`, `cancel_pending_manager`, `reclaim_management` | proposals outliving the proposer, expiry | no proposal survives a handover |
| Prize awards | `event_ops.rs` | winner rows, prize awards, `owed_total`, `unclaimed_prizes`, `claim_expiry` | `select_winners`, `claim_prize` | several selections over time, top-ups, claims between them | what is promised can be paid; the window is honoured |
| Grants, campaigns | `grant.rs` | roster, progress, settled milestones, `cf_claimed` | `claim_milestone`, `forfeit_milestone` | rounding, any order of milestones, changing fee | awards settled to the unit, campaigns complete exactly |
| Cancellation | `event_ops.rs` | snapshot with a cursor, refunds set aside | `start_cancel`, `process_cancel_batch`, `finalize_cancel`, `claim_refund` | batches cranked by anyone, refusing accounts, rounding | each contributor refunded once, nothing stranded, it ends |
| Escrow | `escrow.rs` | the contract's token balances | deposits and releases, with and without fee, `try_release` | one balance for all events | solvency; one pool per event |
| Idempotency | `idempotency.rs`, `storage.rs` | temporary `OpSeen` markers per signer and op id | `require_unseen`, `mark_seen`, `derive_child` | markers expire, the backend retries | a retried call takes effect once |
| Pause and fee | `admin.rs` | pause and its clock, fee | `pause`, `unpause`, `set_fee_bps` | pauses interact with claim windows | a pause stops all calls and costs no one their window |
| Admin control | `admin.rs` of both contracts | admin, release validator, upgrade, each with a pending proposal; fee account | `set_admin`, `accept_admin`, `*_release_validator`, `*_upgrade` | proposals replaced, withdrawn, expired; addresses nobody holds | only the standing offer takes effect; control is never lost |
| Token whitelist | `token_whitelist.rs`, `storage.rs` | flags, indexed enumeration | `register`, `deregister` | swap-remove | the enumeration is the set |
| Migration | `admin.rs` | cursor, version, stamp | `migrate_events`, `migrate` | pages, with calls, upgrades and pauses in between; events created after the last page | the stamp means every event can be read; no money moves; under a pause it ends |
| Profile records | `profile/bootstrap.rs`, `reputation.rs`, `earnings.rs` | profiles, reputation, earnings, markers | `bootstrap`, `bootstrap_self`, `bump`, `register`, `admin_slash` | called best-effort, own markers, derived ids | a payout is recorded once, whenever it can be |
| Profile binding | `profile/admin.rs` | bound contract, pending one, pause | `set_events_contract`, `propose_`/`accept_`/`cancel_*` | timelock and expiry | no unannounced writer |

The components share storage; they call each other directly inside one host
transaction. The host serialises transactions and rolls a failed one back, so
the concurrency is in the *order* of calls, by signers who do not coordinate:
owner, manager, contributors, winners, the admin and strangers who crank.
What happens between two calls is time (days pass, markers expire, proposals
and claim windows lapse), trustlines dropped and regained, and retries.

## 2. How the model corresponds to the code

| Module | Models |
|---|---|
| `EscrowMath` | the arithmetic: fee, milestone shares, refund branches and payouts, with i128 saturation and overflow checks |
| `EventsStorage` | `storage.rs`, `types.rs`, `escrow.rs`: the variables, `Init`, the types, shared guards, token movements |
| `EventFunding`, `EventCancellation`, `EventAwards`, `EventGrants` | the entry points, one action per call (`select_winners` and `claim_milestone` are two actions each: prizes and grants, grants and campaigns) |
| `EventsContract` | the admin's switches, the world (days, trustlines), `Next`, `Spec` |
| `EventsProperties` | the invariants and action properties |
| `EscrowPool`, `EventsRefinement` | the abstract promise (a pool per event in one vault) and the refinement mapping |
| `ClaimWindowHistory` | a history variable: days the contract was open since each winner row |
| `OperationRetries` | the backend's retries and how often a deposit took effect |
| `EventsLiveness` | fairness and the liveness properties |
| `TokenSet`, `TokenRegistry` | a set of tokens that `create_event` accepts and a reader is shown, and the flags and enumeration that implement it |
| `ContractAdmin` | what the two `admin.rs` share word for word: rotation and timelocked upgrade |
| `ControlHistory` | what an observer has seen offered and announced, in either contract |
| `EventsAdmin`, `AdminHistory` | the rest of the events contract's control plane, and all of it with that history |
| `EventMigration` | `migrate_events` and `migrate` among creations, payouts, upgrades and pauses |
| `MigrationBacklog` | what `EventMigration` implements: the number of events that wait, with no end to the creations |
| `ProfileBinding`, `ProfileControl` | which events contract may write to the profile contract; its control plane with the same kind of history |
| `ProfileRecords` | the profile contract's calls as conditions and effects on a book of records |
| `PayoutRecords` | the composition: each payout of `EventsContract` with its three calls to `ProfileRecords`, and `ProfileBinding` in between |
| `EventsTypeProofs`, `EventsSafetyProofs` | proofs: types, the shape of an event's records, what a step may never do |
| `SumProofs`, `EscrowProofs` | proofs: sums over finite sets; the registry, solvency, the refinement, what rounding leaves |
| `AwardProofs`, `HistoryProofs`, `PayoutProofs` | proofs: prizes, grants, campaigns; claim windows and retries; what the profile contract records |
| `ControlProofs` | proofs: control planes, whitelist, migration |
| `MC*` | instances for TLC |

Conventions of the translation:

- **One step is one successful call.** A call that returns an error is rolled
  back and is no step; `require_auth` is the host's and appears only as the
  address an op id is kept under. `accept_manager` clears an expired proposal
  and then returns an error, so the host undoes the clearing: no step.
- **Storage.** A key read with `unwrap_or` is a function with that default, an
  `Option` uses `None`. The immutable fields of an event record are
  `terms[e]`, the mutable ones `status` and `remaining_escrow`. Event ids are
  1, 2, ...; the deployment's `id_base` offset is left out.
- **Clock.** One `now` for timestamp and ledger sequence, in days. A day is
  17,280 ledgers, the least life of a temporary entry, and `mark_op_seen` never
  extends one: `Tick` clears `op_seen`. A marker may live a little longer;
  clearing it at once is the choice with more behaviours. The host would let
  anyone extend one entry, and so let a profile marker outlive the one of its
  payout: left out, the markers of both contracts end on the same day. At `MaxTime` the
  clock stops and days still pass, so markers still expire.
- **Tokens.** A transfer fails if the payer is short or an account is in
  `refusing` (no usable trustline); `release` then reverts the call,
  `try_release` sets the refund aside.
- **The refund loop** of `process_cancel_batch` is in closed form: the set of
  contributors between the cursor and its next position, each refunded by what
  was recorded. The loop zeroes a contribution it refunds and no contributor
  occurs twice (`ContributionsTracked`), so the order makes no difference.
- **Calls to the profile contract** are part of the payout's step. A `try_` call
  that is refused changes nothing and the payout goes on, so the three are
  functions on the book of records, applied in their order (`Recorded`). They
  change nothing in the events contract, whose other runs leave them out.
  `derive_child` is a hash of what identifies a call: the tuple of it.
- **Signatures.** In the control plane `RequireAuth(a)` says that somebody holds
  `a` (`a \in Held`): an address typed wrong never signs. `ControlInit` assumes
  this of the first admin; `initialize` does not check it, it takes any address
  and no signature of it. Elsewhere an action is the signer's.
- **Migration.** A record is its layout, budget, escrow and prizes. A record in the
  old layout does not decode, so a call that reads it traps: no step. Every
  release carries a label of its own. `create_event` and the payouts are refused
  while the contract is paused; pages, the stamp and upgrades are not.
- Left out: title and metadata, published events, reads, TTL extension, the
  saturation of ledger numbers and counters near the ends of u32 and u64.
- Also left out, as no behaviour shows them: a deposit adds amount and fee with
  `saturating_add` (`escrow.rs`), the model with `+`, which differ at sums that no
  balance holds; and `get_or_init_non_owner_total` fails for an event with
  contributors and no stored total (`CancellationTotalMissing`), which
  none that this code created is.
- Numbers stand for stroops. The contract's limits (fee cap, batch sizes,
  windows, basis points) are constants, small in the runs, with the assumptions
  in `StorageAssumption`, `AddressAssumption`, `NoneAssumption` and
  `MathAssumption`. `FinitenessAssumption`: addresses are 32 bytes, so there are
  finitely many. `DistributionAssumption`: the percentages of a record of
  the old layout add up to 100 at most. The code that wrote them is not in the
  repository; the records it shows, in `tests/admin.rs` and of the mainnet
  upgrade, add up to 100.

Operators introduced by a comment that starts "A slip" (or "Slips") are plausible bugs of the
definition that follows them; no action uses them. `PROJECT.json` pairs each
property with one: substituted for the definition, it makes TLC violate
the property, which shows that the property depends on the code.

## 3. Runs

| Run | Instance | Shows |
|---|---|---|
| `Prizes` | a prize event, owner and two winners, four overlapping batches on any days, two op ids, pauses, 3 days, a fee | `ReservationExact`, `PrizesClaimable`, `UnclaimedCountExact`, `WinnerRowsKept`, `ClaimWindowHonoured`, `ClaimWindowEnds` |
| `Grants` | a grant of 3 even milestones or a 3:7 split, awards that do not divide, in every order, forfeits | `ReservationBacked`, `ReservationExact`, `MilestonesPayable`, `GrantSettledExactly`, `GrantEndsSettled` |
| `Campaigns` | a campaign of 2 or 3 milestones, owner and two backers, a fee that changes, retries within the day | `CampaignCompletesExactly`, `NothingStranded`, `DepositAppliedOnce`, `EndedStaysEnded` |
| `Cancellation` | a prize event with two contributors, prize never awarded, open or claimed; owner and a contributor may refuse | `TypeOK`, `Solvent`, `NothingStranded`, `ContributionsTracked`, `CancellationConsistent`, `RefundsFollowCursor` |
| `Management` | a bounty with or without a delegate, proposals to both users, expiries, pauses, whitelist, 3 days | `HandoverLeavesNoProposal`, `PauseStopsEverything` |
| `Shared` | a bounty and a campaign in one balance, with an i128 that ends at 3: refund products saturate | `ImplementsEscrowPool` |
| `Liveness` | a prize event, one refusing contributor, pauses without end | `CancelFinishes`, `HeldRefundsPaid`, `PrizesGetPaid` |
| `Payouts` | a bounty whose two winners use one op id, a grant or a campaign; the profile contract bound to this contract or another, paused, pointed away from; a user spending derived ids; a slash | `ReachablePayoutsRecorded`, `ReputationAccounted`, `ChildrenFollowParents` |
| `Control`, the events part | two addresses somebody holds and a typo, two releases, timelock 1, expiries 1 and 2, 4 days | `ControlHeld`, `AppointedOnStandingOffer`, `UpgradeOnDisplay` |
| the profile part | the same for the profile contract, with two events contracts, one of them mistyped | `UpgradeOnDisplay`, `WritersAnnounced` |
| the whitelist part | four tokens, any sequence of calls | `EnumerationExact`, `ImplementsTokenSet` |
| the migration part | up to four events, each old or new, pages of any size, three versions, pauses | `StampMeansDecodable`, `FloorsAffordable`, `ConversionKeepsBooks` |
| the backlog part | up to four events waiting at a time, any number created, pages, versions and pauses as above | `MigrationFinishes` |
| `RetriesForDays` | as `Campaigns`, with retries up to 2 days later | **violates** `DepositAppliedOnce` |
| `EmptyBatch` | as `Cancellation`, no refusals | **violates** `BatchSpendsIdForWork` |
| `BindingTypo` | `ProfileControl` alone, with a mistyped events contract | **violates** `RotationKeepsLive` |

**Bounds.** `MaxEvents` is 1 but for `Shared`: events interact only through the
token balance, which is what `Shared` is for (and the proofs are for any
number). `MaxTime` covers a claim window and a manager proposal of one day each
with a day before and after: in `Prizes` that day is a second selection's or a
pause's inside the window. `Cancellation` has one more so that a prize can go
unclaimed to the end of its window, `Liveness` a window of no days instead (a
prize is protected on the day of its selection), which keeps its graph small.
One op id suffices where `Tick` frees it; `Prizes` has two so that two calls of
one signer fit in a day. Amounts are chosen not to divide evenly: a budget of 9
and awards of 4, 5, 7 over three milestones, draws of a campaign of odd totals,
contributions of 1 and 2 against an escrow a prize was paid from, which makes
the pro-rata branch round. `Wealth` bounds the deposits. `MaxI128` is above
every product in the runs but `Shared`, where it is 3: there `2 * 2` saturates
and `1 * 3` does not, a refund may be cut short by the saturation, and what it
lacks stays in the contract (`NothingStranded` would not hold; amounts beyond
2^63, which no Stellar asset has, are needed for it). The refinement holds all
the same, and with it `Solvent`: no step of `EscrowPool` lets the pools of a
token outgrow its vault.

In `Payouts` one op id is enough for the two winners and the stranger to
collide on, and one event a time for what is recorded of a payout; two days let
the markers of both contracts expire and a new binding be accepted. Both reputation
limits are 2, so a second bump saturates, and `MaxSlashed` bounds what is
slashed. `Strangers`, `Guesses` and `Slashable` say who spends whose derived
ids and who is slashed. What the other contract writes while it is bound is
left out.

In `Control` the initial state chooses one of five parts (the variable `part`)
and the others stay as they were deployed: they share no state that a property
relates, so interleaving them would multiply states and show nothing. `MaxTime`
is enough for a proposal to expire and another to run its course, four tokens
for a removal from the middle, of the last and of the only one, and the old
records have percentages that round and one whose floor is zero.

No run turns deadlock checking off: `Tick` is always enabled, a proposal can
always be replaced, a token registered again and a page always be asked for.

**Fairness** (`EventsLiveness`). Weak for `Tick`. Strong for the refund crank
and for `finalize_cancel`, which anyone may call and the backend does call, and
for the claims of a user who is owed: calls are held up repeatedly (pauses, an
op id spent that day, a refusing account) without being held up for good, and a
caller who keeps trying gets through. No fairness for the owner, the manager,
the admin or the backers. Each property assumes that the pause and the refusal
of the accounts concerned eventually stop. `CancelFinishes` needs that of the
**owner** too: the residual is `release`d, not tried, so an owner who refuses
for ever stops `finalize_cancel` (refunds to contributors are made before).
`PrizesGetPaid` promises that a prize is paid *or* the event leaves Active: an
unclaimed prize may be cancelled after the window.

In the backlog part of `Control` the operator repeats `migrate_events` until
none remain and then calls `migrate`, as `docs/upgrade-runbook.md` has it: weak
fairness of both, and of nothing else. That is not enough by itself. While the
contract is not paused anyone may create an event after the last page, `migrate`
then refuses with `MigrationIncomplete`, and an event after each page starves
the stamp for ever: without its second hypothesis TLC refutes `MigrationFinishes`
in four states. The hypothesis is the pause of the runbook's mainnet procedure
(steps 4 to 8): from some point on the contract is kept paused until the stamp.
The first hypothesis is that upgrades end. What the contract does until then is
free: it may be paused and unpaused, and create events, any number of times.
This is why the property is stated of `MigrationBacklog`, which counts the events
that wait. `EventMigration` keeps every event, so its `MaxEvents` ends the
creations and would make the property hold for the wrong reason; that its steps
are steps of the counter is `MigrationImplementsBacklog` below. Its pages and its
stamp are enabled when the counter's are, so the same fairness carries over;
that sentence is not proved.

**Three disagreements between texts and code** (the violation runs):

1. `docs/ARCHITECTURE.md:88` has the backend reconcile, that is retry, for up to 14 days
   "to stay inside that window" of the `OpSeen` markers. They are temporary
   entries and live about one day (`docs/threat-model.md:153`); a retry of
   `add_funds` on a later day is a second deposit. `RetriesWithinTheDay`
   proves the other half: within the life of the marker a retry is harmless.
2. The comment at `event_ops.rs:523` says that an empty batch must not spend an op
   id. Only `max_refunds == 0` is refused; a batch after the last contributor and
   before `finalize_cancel` refunds no one and spends its id.
3. `docs/ARCHITECTURE.md:108` counts the profile binding among the two-step
   rotations by which a typo never takes over. The second step,
   `accept_events_contract`, is signed by the admin again and not by the target
   (`profile/admin.rs:112`): a mistyped address is bound after the timelock.

`docs/ARCHITECTURE.md:27` says that earnings match the record of releases. A
payment made while the profile contract is paused or not bound is not in them
and no call enters it later; `docs/threat-model.md:372` knows of it and has the
updates rebuilt from the published events. `ReachablePayoutsRecorded` states the
other half: nothing else is missing.

Also seen, and contradicted by no text: a pending validator proposal survives a rotation of
the admin who made it; a campaign's earnings are registered before the fee is
taken; a profile proposal made before the first one-step binding stays pending.

## 4. Proofs

For every number of users, tokens, events, batches and amounts, from the
assumptions on the constants named above. Every invariant and every action
property a passing run checks is a theorem, as are the refinements, three of
them under a hypothesis the table names; only the liveness properties are not.

| Theorem | Property | Argument |
|---|---|---|
| `StorageTyped` | every key typed; no escrow, contribution, refund or counter negative | inductive as it stands; a payout subtracts what its guard bounded |
| `SafetyInvariant` | `SafetyInv` | inductive relative to `StorageTyped` |
| `ReservationAlwaysBacked` | `ReservationBacked` | from `SafetyInv` |
| `CancellationAlwaysConsistent` | `CancellationConsistent` | from `SafetyInv` |
| `PauseAlwaysStopsEverything` | `PauseStopsEverything` | no call is enabled while paused but the admin's and the world's, which write no event |
| `HandoverAlwaysLeavesNoProposal` | `HandoverLeavesNoProposal` | only two calls change a manager, both clear the proposal |
| `WinnerRowsAlwaysKept` | `WinnerRowsKept` | every call appends to one list or marks one row paid |
| `EndedAlwaysStaysEnded` | `EndedStaysEnded` | no call on an ended event but `claim_refund`; the empty escrow is `SafetyInv` |
| `ContributionsAlwaysTracked` | `ContributionsTracked` | from `RegistryInv` |
| `RefundsAlwaysFollowCursor` | `RefundsFollowCursor` | from `RegistryInv` |
| `AlwaysSolvent` | `Solvent` | every call moves the pool of one event and the vault of its token by the same amount |
| `NoEventRunsShort` | the contract holds what any one event may be asked to pay | solvency: the pools of the other events are not negative |
| `AlwaysTypeOK` | `TypeOK` | the guards for the users' accounts, solvency for the contract's |
| `NothingIsEverStranded` | `NothingStranded`, if no refund product saturates | only `start_cancel` moves a pool and not the vault, by less than one unit per contributor |
| `EscrowPoolImplemented` | `ImplementsEscrowPool` | each way of moving money is a step of `EscrowPool` or a stutter |
| `ReservationAlwaysExact` | `ReservationExact` | from `AwardsInv` |
| `PrizesAlwaysClaimable` | `PrizesClaimable` | from `AwardsInv`: an unpaid row is a term of what is reserved, which the escrow covers |
| `UnclaimedCountAlwaysExact` | `UnclaimedCountExact` | part of `AwardsInv` |
| `MilestonesAlwaysPayable` | `MilestonesPayable` | from `AwardsInv`: shares of the open milestones are what is not settled |
| `GrantAlwaysSettledExactly` | `GrantSettledExactly` | from `AwardsInv`: the last milestone takes what rounding left |
| `CampaignAlwaysCompletesExactly` | `CampaignCompletesExactly` | part of `AwardsInv`: a draw from an escrow that is not the last leaves something |
| `GrantAlwaysEndsSettled` | `GrantEndsSettled` | no open share is zero, so nothing reserved means nothing open |
| `ClaimWindowAlwaysEnds` | `ClaimWindowEnds` | from `WindowInv` |
| `ClaimWindowAlwaysHonoured` | `ClaimWindowHonoured` | from `WindowInv`: `start_cancel` compares the expiry with a clock that stands still in a pause |
| `RetriesWithinTheDay` | `DepositAppliedOnce`, if `RetryWindow = 0` | a deposit sent today has its marker until the day ends |
| `RegistryExact` | `EnumerationExact` | inductive with the types: the last token's slot is the count |
| `RegistryImplementsSet` | `ImplementsTokenSet` | each call adds to or drops from the supported set the token it names, and an exact list shows that set |
| `ControlStaysHeld` | `ControlHeld` | an address becomes admin or validator only by its own signature; the first admin's is assumed (`ControlInit`) |
| `OffersBind` | `AppointedOnStandingOffer` | what is pending is what is on offer, with the expiry its date implies |
| `UpgradesWaitOnDisplay` | `UpgradeOnDisplay` | likewise for the pending upgrade and the announced one |
| `BindingsWaitOnDisplay` | `WritersAnnounced` | likewise for the pending binding of the profile contract and the one shown |
| `StampIsSound` | `StampMeansDecodable` | what the cursor has passed is converted, and a stamp leaves nothing ahead of it |
| `ConversionIsFaithful` | `ConversionKeepsBooks` | the escrow field is what is booked; only old records are rewritten |
| `MigrationImplementsBacklog` | `ImplementsBacklog`: migration is a backlog that pages shrink and creations feed | between the cursor and the next id is the backlog; `MigrationInv` keeps the one at most the other |
| `FloorsAlwaysAffordable` | `FloorsAffordable` | scaling percentages that share one whole, each rounded down, shares the budget |
| `ChildrenAlwaysFollow` | `ChildrenFollowParents` | ids under the events contract's address are marked by payouts only, and expire with theirs |
| `ReputationAlwaysAccounted` | `ReputationAccounted` | the ids of an accepted payout are fresh by the previous one, so all three calls are accepted together or none |
| `ReachablePayoutsAlwaysRecorded` | `ReachablePayoutsRecorded`, if what each user was paid fits an i128 | every payout's step adds the same to what was paid and to the earnings, or to what was missed |

**Records of one event.** `owed_total <= remaining_escrow` is not inductive
alone. A campaign draws from its escrow without looking at `owed_total`, so one
needs that campaigns owe nothing (`CampaignOwesNothing`); `create_event` writes
the escrow of a fresh event and not its `owed_total`, so one needs that fresh
keys are empty (`FreshIsEmpty`); `finalize_cancel` empties the escrow, so one
needs that a cancelling event owes nothing (`CancellationFits`). `SafetyInv` is
the conjunction, with `EndedIsEmpty`. Each call touches one event;
`SameEventSafe` and `OneEventSafe` carry that once for all of them, and
`ActiveEventSafe` is the common step of every call that reserves or pays.

**Sums.** The properties that matter most are equations between a counter the
code keeps and a sum it never computes. The sum of the community modules is a
recursion in an order `CHOOSE` fixes; `SumProofs` shows that the order makes no
difference (`SumRemove`), and from there that sums add, scale, are monotone,
change by a term, and can be re-indexed along a list without repetitions. As
induction principles with an operator parameter are out of the prover's reach,
each induction takes a smallest subset of a finite set in a family of
counterexamples (`MinimalSubset`, `SubsetInduction`).

**Contributions.** `RegistryInv` says of each event that the registry has no
repetitions and lists every contributor, that an active event's total is the sum
of the contributions, that a cancelling one has zeroed exactly the slots behind
its cursor, and a cancelled one all of them.

**Money.** `NextMoves` sorts the calls by what they do to the ledger
(`MoneyStep`): nothing; open, fund or pay out of one event, whose pool moves by
as much as the vault of its token (`Books`); or fix the refunds of a
cancellation, which may round the pool down (`Rounds`). That `process_cancel_batch`
is of the second kind, with refunds kept apart for those who refuse, is the
longest step. `SolvencyInv` (the vault covers the sum of the pools) and the
refinement of `EscrowPool` follow from the classification, without looking at a
call again. `LedgerInv` keeps fees below
the amount they are taken from. `NothingIsEverStranded` adds that `Rounds` takes
less than one unit a contributor (`ScaledDownByUnits`: the remainders of the
divisions) and that what a cancelled event's registry bounds is never forgotten
(`NextKeepsLoss`). It is false if a product saturates, as `Shared` shows, so it
assumes `[]AmountsFit`: no contribution to an active event times its escrow
exceeds an i128. The runs that check `NothingStranded` satisfy it.

**Awards.** `AwardsInv` relates, for each event, the rows, the awards, the roster,
the progress of each grantee and the milestones claimed with the two counters.
A prize's award points at the row written with it; of a grantee's award,
what is settled is the sum of the shares of the milestones claimed, until the
last, when it is the award. `owed_total` is the sum of the unpaid rows, or of
what the grantees have not been settled for. A settled milestone stays settled,
and every open one has a positive share: the check of `select_winners`
(`EveryMilestonePays`) is what makes a grant end.

**Claim windows.** In `WindowInv` the expiry of an event is the latest of its
rows' windows, each counted in days the contract was open since the row was
written; selections in any order keep it (`claim_expiry` only grows).

**Payouts.** `ChildrenAlwaysFollow`, `ReputationAlwaysAccounted` and
`ReachablePayoutsAlwaysRecorded` are theorems of `PayoutSpec`, the two contracts
together. Its steps are steps of `Spec` as far as the events contract is
concerned (`StepIsCall`), so `StorageTyped` and `AwardsInvariant` carry over.
That the calls of a payout go through together needs three facts, and
`PayoutInv` is their conjunction with the types: the op id of a payout is
unseen, hence, by `ChildrenFollowParents`, so are its children; awards in store
carry bumps below the profile contract's cap (`BumpsBounded`, from
`MaxReputationBump <= MaxDeltaPerCall`, an assumption on the two contracts'
separate constants in `PayoutAssumption`, both 100 in the code); and the profile exists once the first
of the three has run. The same assumption says that the profile contract's admin
is not the events contract, so a slash marks no id in its domain. For the
earnings, a payout has to be recognised in the events contract's records: what a
user was paid in a token is a sum over the paid rows of all events, and a step
adds to it what it pays and nothing else (`OneCredit`, `NoRowTouched`, and one
lemma per paying call). `register` refuses
an amount that takes the earnings beyond `MaxEarnings`, an i128; the payout then
goes on unrecorded. Hence the hypothesis, which is about what the user was paid
and not about what the profile contract made of it.

**Control and migration.** `AdminInv`, `BindingInv`, `MigrationInv` and, of
`ControlProofs`, `RegistryInv` are the invariants of the others. `ConversionKeepsBooks` needs
that a record the code before 1.7.0 left is one of `OldRows`, and nothing of its
percentages; only `FloorsAffordable` needs that they add up to 100 at most
(`DistributionAssumption`, kept by `RowsWithin`).

**Only model-checked**: the liveness properties `CancelFinishes`,
`HeldRefundsPaid`, `PrizesGetPaid` and `MigrationFinishes`, which with `ENABLED`
are outside what TLAPS proves here, and the three violations.

## 5. Not modelled

- **Entry points** (`lib.rs` of both contracts) forward to the functions
  modelled; **reads** and **published events** change no state.
- **TTL extension and archival** of persistent entries: an archived entry is
  restored with its value. The indexed layout of the winner and contributor
  lists is a sequence here.
- **The state-compatibility crate** tests decoding of recorded storage and has
  no behaviour of its own. **Scripts and deployment** are I/O.
- **Another events contract** bound to the profile contract: its writes are its
  own. A new release of either contract is a label: what its code does is
  outside this repository's state.
- **Transaction limits** of the host (entries read and written in one call)
  appear only as the batch and page sizes that respect them.

What could be proved next: the safety half of the liveness properties. A batch of
a cancelling event takes its cursor on until it is at the end, no step takes it
back, and no step but the claim itself takes away a refund set aside or an
unpaid prize of an active event; `CancelFinishes`, `HeldRefundsPaid` and
`PrizesGetPaid` follow with fairness, which stays with TLC.
