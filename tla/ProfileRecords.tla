--------------------------- MODULE ProfileRecords ---------------------------
(***************************************************************************)
(* What the profile contract keeps of users (bootstrap.rs, reputation.rs,  *)
(* earnings.rs, idempotency.rs): a profile with a reputation, earnings per *)
(* token, and markers of the operations seen.  One payout makes three      *)
(* calls in a row, so each call is written as a condition and an effect on *)
(* the whole book of records b.                                            *)
(***************************************************************************)
EXTENDS Integers

CONSTANTS
  None,
  People, Currencies,    \* users and tokens records are kept for
  MaxDeltaPerCall,       \* MAX_DELTA_PER_CALL
  MaxReputation,         \* the largest u64
  MaxEarnings            \* the largest i128

VARIABLES
  paused,            \* Paused
  events_contract,   \* EventsContract: None until it is first set
  book               \* reputation (None without a profile), earnings, op_seen

EmptyBook ==
  [reputation |-> [u \in People |-> None],
   earnings   |-> [u \in People |-> [t \in Currencies |-> 0]],
   op_seen    |-> {}]

\* Markers are kept per domain: the address that authorized the call.
Seen(b, domain, id) == <<domain, id>> \in b.op_seen
Marked(b, domain, id) == [b EXCEPT !.op_seen = @ \cup {<<domain, id>>}]

\* The guards of every call that only the bound events contract may make.
\* Its ids are kept under its own address (events_domain).
FromEvents(b, caller, id) ==
  /\ events_contract # None /\ caller = events_contract
  /\ ~paused
  /\ ~Seen(b, events_contract, id)

\* A slip: a profile that exists starts again from nothing.
WithFreshProfile(b, user) == [b EXCEPT !.reputation[user] = 0]

\* An existing profile is kept as it is.
WithProfile(b, user) ==
  [b EXCEPT !.reputation[user] = IF @ = None THEN 0 ELSE @]

AtMost(n, limit) == IF n > limit THEN limit ELSE n

Bootstrap(b, caller, user, id) == Marked(WithProfile(b, user), caller, id)

BumpAllowed(b, caller, user, delta, id) ==
  /\ FromEvents(b, caller, id)
  /\ delta <= MaxDeltaPerCall
  /\ b.reputation[user] # None

\* saturating_add.
Bump(b, caller, user, delta, id) ==
  Marked([b EXCEPT !.reputation[user] = AtMost(@ + delta, MaxReputation)],
         caller, id)

RegisterAllowed(b, caller, user, token, amount, id) ==
  /\ FromEvents(b, caller, id)
  /\ amount > 0
  /\ b.earnings[user][token] + amount <= MaxEarnings

Register(b, caller, user, token, amount, id) ==
  Marked([b EXCEPT !.earnings[user][token] = @ + amount], caller, id)

\* A slip: an id a user spends counts as the events contract's.
BootstrapSelfInEventsDomain(user, id) ==
  /\ ~paused
  /\ events_contract # None /\ ~Seen(book, events_contract, id)
  /\ book' = Marked(WithProfile(book, user), events_contract, id)

\* bootstrap_self, signed by the user: ids of its own domain.
BootstrapSelf(user, id) ==
  /\ ~paused
  /\ ~Seen(book, user, id)
  /\ book' = Marked(WithProfile(book, user), user, id)

\* admin_slash, signed by the admin, under whose address the id is kept; it
\* stops at zero.  (The reason, which must not be empty, is left out.)
AdminSlash(admin, user, delta, id) ==
  /\ ~paused
  /\ ~Seen(book, admin, id)
  /\ book.reputation[user] # None
  /\ book' = Marked([book EXCEPT !.reputation[user] = IF @ > delta THEN @ - delta ELSE 0],
                    admin, id)
=============================================================================
