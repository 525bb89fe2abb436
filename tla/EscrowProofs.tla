---------------------------- MODULE EscrowProofs ----------------------------
(***************************************************************************)
(* The money: for any number of users, events and tokens, the registry of  *)
(* contributors is exact, refunds follow their cursor, every call books    *)
(* what it moves on the event it was made for, and so the contract always  *)
(* holds what it owes, and no more than rounding leaves behind.            *)
(***************************************************************************)
EXTENDS EventsRefinement, EventsSafetyProofs, SumProofs

-----------------------------------------------------------------------------
(* The registry of contributors                                            *)

NoContribution(e) == \A u \in Users : contributed[e][u] = 0

\* What the registry and the contributions of an event say of each other, at
\* each stage of its life.
RegistryFits(e) ==
  /\ IsInjective(contributors[e])
  /\ \A u \in Users : contributed[e][u] > 0 => u \in Range(contributors[e])
  /\ ~EventExists(e) =>
       /\ contributors[e] = << >> /\ non_owner_total[e] = 0
       /\ \A u \in Users : unclaimed_refund[e][u] = 0
  /\ status[e] = "Active" /\ EventExists(e) =>
       /\ non_owner_total[e] = ContributedTo(e)
       /\ \A u \in Range(contributors[e]) : contributed[e][u] > 0
       /\ Owner(e) \notin Range(contributors[e])
  /\ status[e] = "Cancelling" =>
       \A i \in DOMAIN contributors[e] :
         (contributed[e][contributors[e][i]] = 0)
           <=> (i <= cancellation[e].next_idx)
  /\ status[e] = "Cancelled" => NoContribution(e)

RegistryInv == \A e \in EventIds : RegistryFits(e)

\* What RegistryFits(e) depends on does not change in a step.
SameRegistry(e) ==
  /\ (e \in DOMAIN terms') <=> (e \in DOMAIN terms)
  /\ EventExists(e) => terms'[e] = terms[e]
  /\ status'[e] = status[e] /\ cancellation'[e] = cancellation[e]
  /\ contributors'[e] = contributors[e] /\ contributed'[e] = contributed[e]
  /\ non_owner_total'[e] = non_owner_total[e]
  /\ ~EventExists(e) => unclaimed_refund'[e] = unclaimed_refund[e]

\* The registry of an event is as exact as it was, if none of it changed.
LEMMA SameRegistryFits ==
  ASSUME NEW e \in EventIds, RegistryFits(e), SameRegistry(e)
  PROVE  RegistryFits(e)'
BY DEF RegistryFits, SameRegistry, EventExists, Owner, ContributedTo, NoContribution

\* One event is touched, the others are not.
LEMMA OneRegistryFits ==
  ASSUME RegistryInv, NEW e \in EventIds, RegistryFits(e)',
         \A x \in EventIds \ {e} : SameRegistry(x)
  PROVE  RegistryInv'
BY SameRegistryFits DEF RegistryInv

\* A step that touches no event's registry.
LEMMA UntouchedFits ==
  ASSUME RegistryInv, \A x \in EventIds : SameRegistry(x)
  PROVE  RegistryInv'
BY SameRegistryFits DEF RegistryInv

\* The contributions to an event are a sum over the users.
LEMMA ContributedSum ==
  ASSUME ContributionTypes, NEW e \in EventIds
  PROVE  /\ ContributedTo(e) = SumFunctionOnSet(contributed[e], Users)
         /\ ContributedTo(e) \in Nat
         /\ ContributedTo(e) = 0 => NoContribution(e)
         /\ NoContribution(e) => ContributedTo(e) = 0
<1>1. contributed[e] \in [Users -> Nat]
  BY DEF ContributionTypes
<1>2. ContributedTo(e) = SumFunctionOnSet(contributed[e], Users)
  BY <1>1 DEF ContributedTo, SumFunction
<1>3. \A u \in Users : contributed[e][u] \in Nat
  BY <1>1
<1>4. \A u \in Users : contributed[e][u] <= SumFunctionOnSet(contributed[e], Users)
  BY <1>3, FinitenessAssumption, SumMember
<1>5. SumFunctionOnSet(contributed[e], Users) \in Nat
  BY <1>3, FinitenessAssumption, SumNat
<1>6. NoContribution(e) => SumFunctionOnSet(contributed[e], Users) = 0
  BY FinitenessAssumption, SumZero DEF NoContribution
<1> QED
  BY <1>2, <1>3, <1>4, <1>5, <1>6 DEF NoContribution

\* No event has a contributor at deployment.
LEMMA InitRegistry == Init => RegistryInv
BY DEF Init, RegistryInv, RegistryFits, EventExists, IsInjective, EventIds

\* create_event leaves a registry that is still empty.
LEMMA CreateEventRegistry ==
  ASSUME StorageTypes, SafetyInv, RegistryInv, NEW params \in EventParams,
         NEW op \in OpIds, CreateEvent(params, op)
  PROVE  RegistryInv'
<1> USE DEF StorageTypes
<1>0. PICK e \in EventIds : e = Len(terms) + 1
  BY DEF CreateEvent
<1>1. /\ terms' = Append(terms, params)
      /\ status' = [status EXCEPT ![e] = "Active"]
      /\ UNCHANGED <<contributionVars, cancelVars>>
  BY <1>0, Zenon DEF CreateEvent
<1>2. /\ DOMAIN terms' = 1 .. e /\ DOMAIN terms = 1 .. e - 1 /\ e \in Nat
      /\ \A x \in DOMAIN terms : terms'[x] = terms[x]
  BY <1>0, <1>1 DEF RecordTypes, EventIds
<1>3. \A x \in EventIds \ {e} : SameRegistry(x)
  <2> SUFFICES ASSUME NEW x \in EventIds \ {e} PROVE SameRegistry(x)
    OBVIOUS
  <2>1. (x \in DOMAIN terms') <=> (x \in DOMAIN terms)
    BY <1>2 DEF EventIds
  <2> QED
    BY <1>1, <1>2, <2>1
    DEF SameRegistry, EventExists, RecordTypes, contributionVars, cancelVars
<1>4. RegistryFits(e)'
  <2>1. /\ ~EventExists(e) /\ e \in DOMAIN terms'
        /\ status'[e] = "Active" /\ RegistryFits(e)
    BY <1>1, <1>2 DEF EventExists, RecordTypes, RegistryInv
  <2>2. /\ contributors'[e] = << >> /\ non_owner_total'[e] = 0
        /\ contributed' = contributed /\ Range(<< >>) = {}
    BY <1>1, <2>1 DEF RegistryFits, contributionVars, Range
  <2>3. \A u \in Users : contributed[e][u] = 0
    <3>1. \A u \in Users : ~(contributed[e][u] > 0)
      BY <2>1, <2>2 DEF RegistryFits
    <3> QED
      BY <3>1 DEF ContributionTypes
  <2>4. ContributedTo(e)' = 0
    <3>1. ContributedTo(e) = 0
      BY <2>3, ContributedSum DEF NoContribution
    <3> QED
      BY <2>2, <3>1 DEF ContributedTo
  <2> QED
    BY <2>1, <2>2, <2>3, <2>4 DEF RegistryFits, IsInjective, EventExists, Owner
<1> QED
  BY <1>3, <1>4, OneRegistryFits

\* add_funds enrols a new contributor once and adds to the running total.
LEMMA AddFundsRegistry ==
  ASSUME StorageTypes, SafetyInv, RegistryInv, NEW e \in EventIds,
         NEW from \in Users, NEW amount \in Contributions, NEW op \in OpIds,
         AddFunds(e, from, amount, op)
  PROVE  RegistryInv'
<1> USE DEF StorageTypes
<1> DEFINE old == contributors[e]
           given == contributed[e]
           added == IF given[from] = 0 THEN Enrolled(old, from) ELSE old
<1>1. /\ amount \in Nat \ {0} /\ IsActive(e) /\ EventExists(e)
      /\ status[e] = "Active" /\ RegistryFits(e)
      /\ UNCHANGED <<terms, status, cancelVars>>
  <2>1. amount \in Nat \ {0} /\ IsActive(e)
    BY StorageAssumption DEF AddFunds
  <2> QED
    BY <2>1, Zenon DEF AddFunds, IsActive, RegistryInv
<1>2. CASE from = Owner(e)
  <2>1. UNCHANGED contributionVars
    BY <1>2, Zenon DEF AddFunds, IsNonOwner
  <2>2. \A x \in EventIds : SameRegistry(x)
    BY <1>1, <2>1 DEF SameRegistry, contributionVars, cancelVars
  <2> QED
    BY <2>2, UntouchedFits
<1>3. CASE from # Owner(e)
  <2>1. /\ contributors' = [contributors EXCEPT ![e] = added]
        /\ contributed' = [contributed EXCEPT ![e][from] = @ + amount]
        /\ non_owner_total' = [non_owner_total EXCEPT ![e] = @ + amount]
    BY <1>3, Zenon DEF AddFunds, IsNonOwner
  <2>2. /\ old \in Seq(Users) /\ given \in [Users -> Nat]
        /\ non_owner_total[e] \in Nat
    BY DEF ContributionTypes
  <2>3. \A x \in EventIds \ {e} : SameRegistry(x)
    BY <1>1, <2>1 DEF SameRegistry, cancelVars, ContributionTypes
  <2>4. /\ contributors'[e] = added
        /\ contributed'[e] = [given EXCEPT ![from] = @ + amount]
        /\ non_owner_total'[e] = non_owner_total[e] + amount
    BY <2>1 DEF ContributionTypes
  <2>5. ContributedTo(e)' = ContributedTo(e) + amount
    <3>1. /\ \A u \in Users : given[u] \in Int
          /\ contributed'[e][from] \in Int
          /\ \A u \in Users \ {from} : contributed'[e][u] = given[u]
          /\ contributed'[e][from] = given[from] + amount
          /\ DOMAIN contributed'[e] = Users
      BY <1>1, <2>2, <2>4
    <3>2. SumFunctionOnSet(contributed'[e], Users)
            = SumFunctionOnSet(given, Users) + contributed'[e][from] - given[from]
      BY <3>1, FinitenessAssumption, SumChange
    <3>3. SumFunctionOnSet(given, Users) \in Int
      BY <3>1, FinitenessAssumption, SumInt
    <3>4. ContributedTo(e) = SumFunctionOnSet(given, Users)
      BY ContributedSum
    <3>5. ContributedTo(e)' = SumFunctionOnSet(contributed'[e], Users)
      BY <3>1 DEF ContributedTo, SumFunction
    <3> HIDE DEF given
    <3> QED
      BY <1>1, <2>2, <3>1, <3>2, <3>3, <3>4, <3>5
  <2>6. given[from] = 0 => from \notin Range(old)
    BY <1>1 DEF RegistryFits
  <2>7. /\ IsInjective(added) /\ Range(added) = Range(old) \cup {from}
    <3>1. CASE given[from] = 0
      <4>1. added = Append(old, from)
        BY <2>6, <3>1 DEF Enrolled
      <4>2. /\ DOMAIN added = 1 .. Len(old) + 1 /\ Len(old) \in Nat
            /\ added[Len(old) + 1] = from
            /\ \A i \in 1 .. Len(old) : added[i] = old[i]
            /\ DOMAIN old = 1 .. Len(old)
        BY <2>2, <4>1
      <4>3. IsInjective(old)
        BY <1>1 DEF RegistryFits
      <4> HIDE DEF added, old
      <4>4. IsInjective(added)
        BY <2>6, <3>1, <4>2, <4>3 DEF IsInjective, Range
      <4>5. Range(added) = Range(old) \cup {from}
        BY <4>2 DEF Range
      <4> QED BY <4>4, <4>5
    <3>2. CASE given[from] # 0
      <4>1. given[from] > 0
        BY <2>2, <3>2
      <4> QED
        BY <1>1, <3>2, <4>1 DEF RegistryFits
    <3> QED BY <3>1, <3>2
  <2>8. \A u \in Users : contributed'[e][u]
                           = IF u = from THEN given[from] + amount ELSE given[u]
    BY <2>2, <2>4
  <2>9. Range(old) \subseteq Users
    BY <2>2 DEF Range
  <2>10. RegistryFits(e)'
    <3> HIDE DEF added
    <3>1. /\ EventExists(e)' /\ status'[e] = "Active" /\ Owner(e)' = Owner(e)
      BY <1>1 DEF EventExists, Owner
    <3>2. /\ IsInjective(contributors'[e])
          /\ Range(contributors'[e]) = Range(old) \cup {from}
      BY <2>4, <2>7
    <3>3. \A u \in Users : contributed'[e][u] > 0 => u \in Range(old) \cup {from}
      BY <1>1, <2>8 DEF RegistryFits
    <3>4. \A u \in Range(old) \cup {from} : contributed'[e][u] > 0
      BY <1>1, <2>2, <2>8, <2>9 DEF RegistryFits
    <3>5. non_owner_total'[e] = ContributedTo(e)'
      BY <1>1, <2>4, <2>5 DEF RegistryFits
    <3>6. Owner(e) \notin Range(old) \cup {from}
      BY <1>1, <1>3 DEF RegistryFits
    <3> QED
      BY <3>1, <3>2, <3>3, <3>4, <3>5, <3>6 DEF RegistryFits
  <2> QED
    BY <2>3, <2>10, OneRegistryFits
<1> QED
  BY <1>2, <1>3

\* start_cancel puts the cursor before the first contributor, or finds none.
LEMMA StartCancelRegistry ==
  ASSUME StorageTypes, SafetyInv, RegistryInv, NEW e \in EventIds,
         NEW op \in OpIds, StartCancel(e, op)
  PROVE  RegistryInv'
<1> USE DEF StorageTypes
<1> DEFINE branch == Branch(non_owner_total[e], remaining_escrow[e])
<1>1. /\ status[e] = "Active" /\ EventExists(e) /\ RegistryFits(e)
      /\ UNCHANGED <<terms, contributors, contributed, unclaimed_refund>>
  BY Zenon DEF StartCancel, UnchangedByCancel, IsActive, RegistryInv
<1>2. \/ /\ branch = "OwnerOnly"
         /\ status' = [status EXCEPT ![e] = "Cancelled"]
         /\ non_owner_total' = [non_owner_total EXCEPT ![e] = 0]
         /\ UNCHANGED cancellation
      \/ /\ status' = [status EXCEPT ![e] = "Cancelling"]
         /\ cancellation' = [cancellation EXCEPT ![e] =
                 [non_owner_total |-> non_owner_total[e],
                  remaining_at_start |-> remaining_escrow[e],
                  count_at_start |-> Len(contributors[e]), next_idx |-> 0,
                  branch |-> branch]]
         /\ UNCHANGED non_owner_total
  BY Zenon DEF StartCancel
<1>3. \A x \in EventIds \ {e} : SameRegistry(x)
  BY <1>1, <1>2 DEF SameRegistry, RecordTypes, ContributionTypes, CancelTypes
<1>4. RegistryFits(e)'
  <2>1. CASE branch = "OwnerOnly" /\ status' = [status EXCEPT ![e] = "Cancelled"]
    <3>1. non_owner_total[e] = 0
      <4>1. non_owner_total[e] \in Nat
        BY DEF ContributionTypes
      <4>2. ~(non_owner_total[e] > 0)
        BY <2>1, <4>1 DEF Branch
      <4> QED BY <4>1, <4>2
    <3>2. NoContribution(e)
      BY <1>1, <3>1, ContributedSum DEF RegistryFits
    <3>3. status'[e] = "Cancelled"
      BY <2>1 DEF RecordTypes
    <3> QED
      BY <1>1, <3>2, <3>3 DEF RegistryFits, NoContribution, EventExists
  <2>2. CASE /\ status' = [status EXCEPT ![e] = "Cancelling"]
             /\ cancellation' = [cancellation EXCEPT ![e] =
                 [non_owner_total |-> non_owner_total[e],
                  remaining_at_start |-> remaining_escrow[e],
                  count_at_start |-> Len(contributors[e]), next_idx |-> 0,
                  branch |-> branch]]
    <3>1. status'[e] = "Cancelling" /\ cancellation'[e].next_idx = 0
      BY <2>2 DEF RecordTypes, CancelTypes
    <3>2. \A i \in DOMAIN contributors[e] :
             contributed[e][contributors[e][i]] # 0 /\ ~(i <= 0)
      <4>1. \A i \in DOMAIN contributors[e] : i \in Nat \ {0}
        BY DEF ContributionTypes
      <4>2. \A i \in DOMAIN contributors[e] :
               contributors[e][i] \in Range(contributors[e])
        BY DEF Range
      <4>3. \A u \in Range(contributors[e]) : contributed[e][u] # 0
        BY <1>1 DEF RegistryFits
      <4> QED BY <4>1, <4>2, <4>3
    <3> QED
      BY <1>1, <3>1, <3>2 DEF RegistryFits, EventExists
  <2> QED
    BY <1>2, <2>1, <2>2
<1> QED
  BY <1>3, <1>4, OneRegistryFits

\* What a batch zeroes: the contributions between the cursor and where it stops.
LEMMA BatchContributions ==
  ASSUME StorageTypes, SafetyInv, RegistryInv, NEW e \in EventIds,
         NEW max \in BatchSizes, NEW op \in OpIds, ProcessCancelBatch(e, max, op)
  PROVE  LET c    == cancellation[e]
             next == c.next_idx
             stop == CursorAfter(c, max)
             slot == contributors[e]
         IN  /\ next \in Nat /\ stop \in Nat /\ stop <= Len(slot)
             /\ next <= stop
             /\ slot \in Seq(Users) /\ \A i, j \in DOMAIN slot : slot[i] = slot[j] => i = j
             /\ Batch(e, max) = {slot[i] : i \in next + 1 .. stop}
             /\ Batch(e, max) \subseteq Users
             /\ \A i \in DOMAIN slot : slot[i] \in Batch(e, max)
                                          <=> i \in next + 1 .. stop
             /\ \A i \in DOMAIN slot : contributed[e][slot[i]] = 0 <=> i <= next
             /\ \A u \in Users : contributed'[e][u]
                     = IF u \in Batch(e, max) THEN 0 ELSE contributed[e][u]
<1> USE DEF StorageTypes
<1> DEFINE c    == cancellation[e]
           next == c.next_idx
           stop == CursorAfter(c, max)
           slot == contributors[e]
<1>1. /\ status[e] = "Cancelling" /\ c # None /\ EventExists(e)
      /\ RegistryFits(e) /\ EventSafe(e)
  BY Zenon DEF ProcessCancelBatch, RegistryInv, SafetyInv
<1>2. c \in CancellationState /\ max \in Nat
  BY <1>1, StorageAssumption DEF CancelTypes
<1>3. /\ c.count_at_start = Len(slot) /\ next <= c.count_at_start
      /\ next \in Nat /\ c.count_at_start \in Nat
  BY <1>1, <1>2 DEF EventSafe, CancellationFits, CancellationState
<1>4. stop \in Nat /\ stop <= Len(slot) /\ next <= stop
  BY <1>2, <1>3, StorageAssumption DEF CursorAfter, LessOf
<1>5. slot \in Seq(Users) /\ \A i, j \in DOMAIN slot : slot[i] = slot[j] => i = j
  BY <1>1 DEF ContributionTypes, RegistryFits, IsInjective
<1>6. Batch(e, max) = {slot[i] : i \in next + 1 .. stop}
  BY DEF Batch
<1>7. next + 1 .. stop \subseteq DOMAIN slot
  BY <1>3, <1>4, <1>5
<1> HIDE DEF stop, slot, next, c
<1>8. /\ Batch(e, max) \subseteq Users
      /\ \A i \in DOMAIN slot : slot[i] \in Batch(e, max) <=> i \in next + 1 .. stop
  BY <1>5, <1>6, <1>7
<1>9. \A i \in DOMAIN slot : contributed[e][slot[i]] = 0 <=> i <= next
  BY <1>1 DEF RegistryFits, slot, next, c
<1>10. \A u \in Users : contributed'[e][u]
                     = IF u \in Batch(e, max) THEN 0 ELSE contributed[e][u]
  <2> DEFINE batch == {u \in Batch(e, max) : contributed[e][u] > 0}
  <2>1. contributed' = [contributed EXCEPT ![e] =
            [u \in Users |-> IF u \in batch THEN 0 ELSE @[u]]]
    BY Zenon DEF ProcessCancelBatch
  <2>2. contributed[e] \in [Users -> Nat]
    BY DEF ContributionTypes
  <2> QED
    BY <2>1, <2>2 DEF ContributionTypes
<1> QED
  BY <1>3, <1>4, <1>5, <1>6, <1>8, <1>9, <1>10 DEF slot, stop, next, c

\* process_cancel_batch zeroes exactly the contributions it moves past.
LEMMA ProcessCancelBatchRegistry ==
  ASSUME StorageTypes, SafetyInv, RegistryInv, NEW e \in EventIds,
         NEW max \in BatchSizes, NEW op \in OpIds, ProcessCancelBatch(e, max, op)
  PROVE  RegistryInv'
<1> USE DEF StorageTypes
<1> DEFINE c    == cancellation[e]
           next == c.next_idx
           stop == CursorAfter(c, max)
           slot == contributors[e]
<1>1. /\ status[e] = "Cancelling" /\ c # None /\ EventExists(e)
      /\ RegistryFits(e) /\ c \in CancellationState
      /\ cancellation' = [cancellation EXCEPT ![e].next_idx = stop]
      /\ contributed' = [contributed EXCEPT ![e] = contributed'[e]]
      /\ UNCHANGED <<terms, status, contributors, non_owner_total>>
  <2>1. status[e] = "Cancelling" /\ c # None /\ EventExists(e) /\ RegistryFits(e)
    BY Zenon DEF ProcessCancelBatch, RegistryInv
  <2>2. /\ cancellation' = [cancellation EXCEPT ![e].next_idx = stop]
        /\ UNCHANGED <<terms, status, contributors, non_owner_total>>
    BY Zenon DEF ProcessCancelBatch, UnchangedByCancel
  <2>3. \E f : contributed' = [contributed EXCEPT ![e] = f]
    BY Zenon DEF ProcessCancelBatch
  <2> QED
    BY <2>1, <2>2, <2>3 DEF CancelTypes, ContributionTypes
<1>2. /\ next \in Nat /\ stop \in Nat /\ stop <= Len(slot) /\ next <= stop
      /\ slot \in Seq(Users)
      /\ \A i \in DOMAIN slot : slot[i] \in Batch(e, max)
                                          <=> i \in next + 1 .. stop
      /\ \A i \in DOMAIN slot : contributed[e][slot[i]] = 0 <=> i <= next
      /\ \A u \in Users : contributed'[e][u]
                     = IF u \in Batch(e, max) THEN 0 ELSE contributed[e][u]
  BY BatchContributions
<1>3. cancellation'[e].next_idx = stop
  BY <1>1, <1>2 DEF CancelTypes, CancellationState
<1>4. \A x \in EventIds \ {e} :
        cancellation'[x] = cancellation[x] /\ contributed'[x] = contributed[x]
  <2> HIDE DEF stop
  <2> QED BY <1>1 DEF CancelTypes, ContributionTypes
<1>5. \A x \in EventIds \ {e} : SameRegistry(x)
  <2>1. \A x \in EventIds \ {e} : EventExists(x) \/ ~EventExists(x)
    OBVIOUS
  <2>2. \E f : unclaimed_refund' = [unclaimed_refund EXCEPT ![e] = f]
    BY Zenon DEF ProcessCancelBatch
  <2>3. \A x \in EventIds \ {e} : unclaimed_refund'[x] = unclaimed_refund[x]
    BY <2>2 DEF CancelTypes
  <2> QED
    BY <1>1, <1>4, <2>3 DEF SameRegistry
<1>6. RegistryFits(e)'
  <2> HIDE DEF stop, next, slot, c
  <2>1. \A i \in DOMAIN slot : slot[i] \in Users /\ i \in Nat
    BY <1>2
  <2>2. \A i \in DOMAIN slot : contributed'[e][slot[i]] = 0 <=> i <= stop
    BY <1>2, <2>1
  <2>3. \A u \in Users : contributed'[e][u] > 0 => u \in Range(slot)
    BY <1>1, <1>2 DEF RegistryFits, slot
  <2>4. EventExists(e)' /\ status'[e] = "Cancelling" /\ contributors'[e] = slot
    BY <1>1 DEF EventExists, slot
  <2>5. IsInjective(slot)
    BY <1>1 DEF RegistryFits, slot
  <2> QED
    BY <1>3, <2>2, <2>3, <2>4, <2>5 DEF RegistryFits
<1> QED
  BY <1>5, <1>6, OneRegistryFits

\* finalize_cancel closes an event whose cursor has passed every contributor.
LEMMA FinalizeCancelRegistry ==
  ASSUME StorageTypes, SafetyInv, RegistryInv, NEW e \in EventIds,
         NEW op \in OpIds, FinalizeCancel(e, op)
  PROVE  RegistryInv'
<1> USE DEF StorageTypes
<1> DEFINE c == cancellation[e]
<1>1. /\ status[e] = "Cancelling" /\ EventExists(e) /\ c # None
      /\ c.next_idx >= c.count_at_start
      /\ status' = [status EXCEPT ![e] = "Cancelled"]
      /\ cancellation' = [cancellation EXCEPT ![e] = None]
      /\ non_owner_total' = [non_owner_total EXCEPT ![e] = 0]
      /\ UNCHANGED <<terms, contributors, contributed, unclaimed_refund>>
      /\ RegistryFits(e) /\ EventSafe(e)
  BY Zenon DEF FinalizeCancel, UnchangedByCancel, RegistryInv, SafetyInv
<1>2. \A x \in EventIds \ {e} : SameRegistry(x)
  BY <1>1 DEF SameRegistry, RecordTypes, ContributionTypes, CancelTypes
<1>3. NoContribution(e)
  <2>1. /\ c.count_at_start = Len(contributors[e])
        /\ c.next_idx \in Nat /\ contributors[e] \in Seq(Users)
    BY <1>1 DEF EventSafe, CancellationFits, CancelTypes, CancellationState,
                ContributionTypes
  <2>2. \A i \in DOMAIN contributors[e] : i <= c.next_idx
    BY <1>1, <2>1
  <2>3. \A u \in Range(contributors[e]) : contributed[e][u] = 0
    BY <1>1, <2>2 DEF RegistryFits, Range
  <2>4. \A u \in Users : contributed[e][u] \in Nat
    BY DEF ContributionTypes
  <2> QED
    BY <1>1, <2>3, <2>4 DEF RegistryFits, NoContribution
<1>4. RegistryFits(e)'
  <2>1. status'[e] = "Cancelled" /\ EventExists(e)'
    BY <1>1 DEF RecordTypes, EventExists
  <2> QED
    BY <1>1, <1>3, <2>1 DEF RegistryFits, NoContribution
<1> QED
  BY <1>2, <1>4, OneRegistryFits

\* claim_refund takes a held refund of an event that exists.
LEMMA ClaimRefundRegistry ==
  ASSUME StorageTypes, RegistryInv, NEW e \in EventIds, NEW u \in Users,
         NEW op \in OpIds, ClaimRefund(e, u, op)
  PROVE  RegistryInv'
<1>1. /\ EventExists(e)
      /\ unclaimed_refund' = [unclaimed_refund EXCEPT ![e][u] = 0]
      /\ UNCHANGED <<terms, status, contributionVars, cancellation>>
  BY Zenon DEF ClaimRefund, UnchangedByCancel
<1>2. \A x \in EventIds : SameRegistry(x)
  BY <1>1 DEF SameRegistry, contributionVars, StorageTypes, CancelTypes
<1> QED
  BY <1>2, UntouchedFits

\* The calls of an active event leave its contributors alone, whether they
\* complete it or not.
LEMMA ActiveCallRegistry ==
  ASSUME StorageTypes, RegistryInv, NEW e \in EventIds, IsActive(e),
         UNCHANGED <<terms, contributionVars, cancelVars>>,
         NEW v \in {"Active", "Completed"},
         status' = [status EXCEPT ![e] = v]
  PROVE  RegistryInv'
<1>1. /\ RegistryFits(e) /\ EventExists(e) /\ status[e] = "Active"
      /\ status \in [EventIds -> Statuses]
  BY DEF IsActive, RegistryInv, StorageTypes, RecordTypes
<1>2. \A x \in EventIds \ {e} : SameRegistry(x)
  BY <1>1 DEF SameRegistry, contributionVars, cancelVars
<1>3. RegistryFits(e)'
  BY <1>1 DEF RegistryFits, NoContribution, ContributedTo, EventExists, Owner,
              contributionVars, cancelVars
<1> QED
  BY <1>2, <1>3, OneRegistryFits

\* Selecting, claiming, releasing and forfeiting are such calls.
LEMMA AwardCallsRegistry ==
  ASSUME StorageTypes, RegistryInv, AwardsNext \/ GrantsNext
  PROVE  RegistryInv'
<1>1. \E e \in EventIds :
         /\ IsActive(e) /\ UNCHANGED <<terms, contributionVars, cancelVars>>
         /\ \/ UNCHANGED status
            \/ status' = [status EXCEPT
                 ![e] = IF remaining_escrow'[e] = 0 THEN "Completed" ELSE @]
  <2>1. ASSUME NEW e \in EventIds, NEW batch, NEW op,
               SelectPrizes(e, batch, op) \/ SelectGrantees(e, batch, op)
        PROVE  /\ IsActive(e)
               /\ UNCHANGED <<terms, contributionVars, cancelVars, status>>
    BY <2>1, Zenon DEF SelectPrizes, SelectGrantees, SelectionAllowed,
                       UnchangedBySelection
  <2>2. ASSUME NEW e \in EventIds, NEW p, NEW op, ClaimPrize(e, p, op)
        PROVE  /\ IsActive(e) /\ UNCHANGED <<terms, contributionVars, cancelVars>>
               /\ status' = [status EXCEPT
                    ![e] = IF remaining_escrow'[e] = 0 THEN "Completed" ELSE @]
    BY <2>2, Zenon DEF ClaimPrize
  <2>3. ASSUME NEW e \in EventIds, NEW r, NEW m, NEW bump, NEW op,
               \/ ClaimGrantMilestone(e, r, m, bump, op)
               \/ ClaimCampaignMilestone(e, r, m, bump, op)
        PROVE  /\ IsActive(e) /\ UNCHANGED <<terms, contributionVars, cancelVars>>
               /\ status' = [status EXCEPT
                    ![e] = IF remaining_escrow'[e] = 0 THEN "Completed" ELSE @]
    BY <2>3, Zenon DEF ClaimGrantMilestone, ClaimCampaignMilestone,
                       MilestoneOpen, PayMilestone
  <2>4. ASSUME NEW e \in EventIds, NEW r, NEW m, NEW op,
               ForfeitMilestone(e, r, m, op)
        PROVE  /\ IsActive(e)
               /\ UNCHANGED <<terms, contributionVars, cancelVars, status>>
    BY <2>4, Zenon DEF ForfeitMilestone, MilestoneOpen
  <2>5. CASE AwardsNext
    BY <2>1, <2>2, <2>5, Zenon DEF AwardsNext
  <2>6. CASE GrantsNext
    BY <2>3, <2>4, <2>6, Zenon DEF GrantsNext
  <2> QED
    BY <2>5, <2>6
<1>2. PICK e \in EventIds :
         /\ IsActive(e) /\ UNCHANGED <<terms, contributionVars, cancelVars>>
         /\ \/ UNCHANGED status
            \/ status' = [status EXCEPT
                 ![e] = IF remaining_escrow'[e] = 0 THEN "Completed" ELSE @]
  BY <1>1
<1>3. status[e] = "Active" /\ status \in [EventIds -> Statuses]
  BY <1>2 DEF IsActive, StorageTypes, RecordTypes
<1>4. \E v \in {"Active", "Completed"} : status' = [status EXCEPT ![e] = v]
  BY <1>2, <1>3
<1> QED
  BY <1>2, <1>4, ActiveCallRegistry

\* Every step keeps the registry of every event.
LEMMA NextRegistry ==
  ASSUME StorageTypes, SafetyInv, RegistryInv, [Next]_vars
  PROVE  RegistryInv'
<1>1. ASSUME UNCHANGED <<terms, status, contributionVars, cancelVars>>
      PROVE  RegistryInv'
  <2>1. \A x \in EventIds : SameRegistry(x)
    BY <1>1 DEF SameRegistry, contributionVars, cancelVars
  <2> QED
    BY <2>1, UntouchedFits
<1>2. CASE FundingNext
  <2>1. ASSUME NEW e \in EventIds,
               \/ \E target \in ManagerTargets : ProposeManager(e, target)
               \/ AcceptManager(e)
               \/ CancelPendingManager(e)
               \/ ReclaimManagement(e)
        PROVE  RegistryInv'
    BY <1>1, <2>1 DEF ProposeManager, AcceptManager, CancelPendingManager,
                      ReclaimManagement, UnchangedButManagers
  <2> QED
    BY <1>2, <2>1, CreateEventRegistry, AddFundsRegistry DEF FundingNext
<1>3. CASE CancellationNext
  BY <1>3, StartCancelRegistry, ProcessCancelBatchRegistry,
     FinalizeCancelRegistry, ClaimRefundRegistry DEF CancellationNext
<1>4. CASE AwardsNext \/ GrantsNext
  BY <1>4, AwardCallsRegistry
<1>5. CASE AdminNext \/ WorldNext
  BY <1>1, <1>5, SwitchesMoveNoEvent DEF eventVars
<1>6. CASE UNCHANGED vars
  BY <1>1, <1>6 DEF vars, eventVars
<1> QED
  BY <1>2, <1>3, <1>4, <1>5, <1>6 DEF Next

\* The registry of every event is exact in every reachable state.
THEOREM RegistryInvariant == Spec => []RegistryInv
<1>1. Init => RegistryInv
  BY InitRegistry
<1>2. StorageTypes /\ SafetyInv /\ RegistryInv /\ [Next]_vars => RegistryInv'
  BY NextRegistry
<1> QED
  BY <1>1, <1>2, StorageTyped, SafetyInvariant, PTL DEF Spec

\* For any number of contributors, the total start_cancel divides by is the sum
\* of the contributions, and the refund loop walks each contributor once.
THEOREM ContributionsAlwaysTracked == Spec => []ContributionsTracked
<1>1. StorageTypes /\ RegistryInv => ContributionsTracked
  <2> SUFFICES ASSUME StorageTypes, RegistryInv, NEW e \in Events,
                      status[e] = "Active"
               PROVE  /\ non_owner_total[e] = ContributedTo(e)
                      /\ IsInjective(contributors[e])
                      /\ Range(contributors[e])
                           = {u \in Users : contributed[e][u] > 0}
                      /\ Owner(e) \notin Range(contributors[e])
    BY DEF ContributionsTracked
  <2>1. e \in EventIds /\ EventExists(e) /\ RegistryFits(e)
    BY DEF Events, RegistryInv
  <2>2. Range(contributors[e]) \subseteq Users
    BY <2>1 DEF StorageTypes, ContributionTypes, Range
  <2> QED
    BY <2>1, <2>2 DEF RegistryFits
<1> QED
  BY <1>1, StorageTyped, RegistryInvariant, PTL

\* For any number of contributors and any sizes of batch, the refund cursor
\* separates the refunded from the rest, and a cancelled event owes no one.
THEOREM RefundsAlwaysFollowCursor == Spec => []RefundsFollowCursor
<1>1. StorageTypes /\ RegistryInv => RefundsFollowCursor
  <2> SUFFICES ASSUME StorageTypes, RegistryInv, NEW e \in Events
               PROVE  /\ status[e] = "Cancelling" =>
                           \A i \in DOMAIN contributors[e] :
                             (contributed[e][contributors[e][i]] = 0)
                               <=> (i <= cancellation[e].next_idx)
                      /\ status[e] = "Cancelled" => ContributedTo(e) = 0
    BY DEF RefundsFollowCursor
  <2>1. e \in EventIds /\ RegistryFits(e)
    BY DEF Events, RegistryInv
  <2>2. NoContribution(e) => ContributedTo(e) = 0
    BY <2>1, ContributedSum DEF StorageTypes
  <2> QED
    BY <2>1, <2>2 DEF RegistryFits
<1> QED
  BY <1>1, StorageTyped, RegistryInvariant, PTL

-----------------------------------------------------------------------------
(* The ledger: what one call may do to the balances                        *)

\* Every fee in force is within the cap, so that it never exceeds what it is
\* taken from.
FeesBounded ==
  /\ fee_bps <= MaxFeeBps
  /\ \A x \in DOMAIN terms :
       terms[x].fee_override # None => terms[x].fee_override <= MaxFeeBps

\* No account but the contract's is ever overdrawn, by the guards alone; that
\* the contract's is not either is Solvent, below.
LedgerTypes ==
  /\ balance \in [Tokens -> [Holders -> Int]]
  /\ \A t \in Tokens : \A h \in Users \cup {FeeAccount} : balance[t][h] >= 0

LedgerInv == FeesBounded /\ LedgerTypes

\* The contract gains d of the token t, and nothing of any other.
VaultMoves(t, d) ==
  \A x \in Tokens : balance'[x][Contract]
                      = balance[x][Contract] + (IF x = t THEN d ELSE 0)

\* A product that saturates only gets smaller.
LEMMA SaturatingMulBound ==
  ASSUME NEW a \in Nat, NEW b \in Nat
  PROVE  SaturatingMul(a, b) \in Nat /\ SaturatingMul(a, b) <= a * b
<1>1. a * b \in Nat
  OBVIOUS
<1> QED
  BY <1>1, MathAssumption DEF SaturatingMul

\* A quotient is no more than what it was rounded down from.
LEMMA QuotientBound ==
  ASSUME NEW x \in Nat, NEW n \in Nat \ {0}, NEW y \in Nat, x <= n * y
  PROVE  x \div n \in Nat /\ x \div n <= y
<1>1. x \div n \in Nat /\ n * (x \div n) <= x
  OBVIOUS
<1>2. PICK q \in Nat : q = x \div n
  BY <1>1
<1>3. SUFFICES ASSUME q >= y + 1 PROVE FALSE
  BY <1>2
<1>4. n * q <= n * y
  BY <1>1, <1>2
<1>5. n * (y + 1) <= n * q
  BY <1>3
<1> QED
  BY <1>4, <1>5

\* compute_fee takes no more than the amount.
LEMMA FeeBound ==
  ASSUME NEW amount \in Nat, NEW bps \in Nat, bps <= BpsTotal
  PROVE  ComputeFee(amount, bps) \in Nat /\ ComputeFee(amount, bps) <= amount
<1>1. /\ SaturatingMul(amount, bps) \in Nat
      /\ SaturatingMul(amount, bps) <= amount * bps
  BY SaturatingMulBound
<1>2. amount * bps <= BpsTotal * amount
  BY MathAssumption
<1>3. amount * bps \in Nat /\ BpsTotal * amount \in Nat
  BY MathAssumption
<1>4. SaturatingMul(amount, bps) <= BpsTotal * amount
  BY <1>1, <1>2, <1>3
<1> QED
  BY <1>1, <1>4, QuotientBound, MathAssumption DEF ComputeFee

\* What a transfer between two accounts does to them, and to the others.
Transferred(b, c, from, to, amount) ==
  /\ c \in [Holders -> Int]
  /\ c[from] = b[from] - amount
  /\ c[to] = b[to] + amount
  /\ \A h \in Holders \ {from, to} : c[h] = b[h]

\* Move takes the amount from one account, gives it to the other, and touches
\* no third (escrow.rs: transfer).
LEMMA MoveExact ==
  ASSUME NEW b \in [Holders -> Int], NEW from \in Holders, NEW to \in Holders,
         from # to, NEW amount \in Int
  PROVE  Transferred(b, Move(b, from, to, amount), from, to, amount)
BY DEF Move, Transferred

\* The balances of one token are exchanged for others, none overdrawn.
LEMMA OneTokenMoves ==
  ASSUME LedgerTypes, NEW t \in Tokens, NEW c \in [Holders -> Int],
         balance' = [balance EXCEPT ![t] = c],
         \A h \in Users \cup {FeeAccount} : c[h] >= 0,
         NEW d \in Int, c[Contract] = balance[t][Contract] + d
  PROVE  LedgerTypes' /\ VaultMoves(t, d)
<1>1. balance'[t] = c /\ \A x \in Tokens \ {t} : balance'[x] = balance[x]
  BY DEF LedgerTypes
<1>2. \A x \in Tokens : balance[x][Contract] \in Int
  BY DEF LedgerTypes, Holders
<1> QED
  BY <1>1, <1>2 DEF LedgerTypes, VaultMoves

\* Every account is a holder, and no two of them are one.
LEMMA Accounts ==
  /\ Contract \in Holders /\ FeeAccount \in Holders /\ Users \subseteq Holders
  /\ Contract # FeeAccount
  /\ \A u \in Users : u # Contract /\ u # FeeAccount
BY AddressAssumption DEF Holders

\* deposit_with_fee brings in the amount; the fee passes through.
LEMMA DepositWithFeeMoves ==
  ASSUME LedgerTypes, NEW t \in Tokens, NEW from \in Users, NEW amount \in Nat,
         NEW bps \in Nat, bps <= BpsTotal, DepositWithFee(t, from, amount, bps)
  PROVE  LedgerTypes' /\ VaultMoves(t, amount)
<1>1. PICK fee \in Nat : fee = ComputeFee(amount, bps)
  BY FeeBound
<1> DEFINE b == balance[t]
           first == Move(b, from, Contract, amount + fee)
           last == Move(first, Contract, FeeAccount, fee)
<1>2. b[from] >= amount + fee /\ balance' = [balance EXCEPT ![t] = last]
  BY <1>1 DEF DepositWithFee, CanSend
<1>3. b \in [Holders -> Int] /\ \A h \in Users \cup {FeeAccount} : b[h] >= 0
  BY DEF LedgerTypes
<1> HIDE DEF b
<1>4. Transferred(b, first, from, Contract, amount + fee)
  BY <1>3, Accounts, MoveExact
<1>5. first \in [Holders -> Int]
  BY <1>4 DEF Transferred
<1> HIDE DEF first
<1>6. Transferred(first, last, Contract, FeeAccount, fee)
  BY <1>5, Accounts, MoveExact
<1> HIDE DEF last
<1>7. last \in [Holders -> Int] /\ last[Contract] = b[Contract] + amount
  BY <1>3, <1>4, <1>6, Accounts DEF Transferred
<1>8. last[FeeAccount] >= 0
  BY <1>3, <1>4, <1>6, Accounts DEF Transferred
<1>9. ASSUME NEW h \in Users PROVE last[h] >= 0
  <2>1. last[h] = first[h]
    BY <1>6, Accounts DEF Transferred
  <2>2. first[h] = IF h = from THEN b[h] - (amount + fee) ELSE b[h]
    BY <1>4, Accounts DEF Transferred
  <2> QED
    BY <1>2, <1>3, <2>1, <2>2, Accounts
<1>10. /\ \A h \in Users \cup {FeeAccount} : last[h] >= 0
       /\ last[Contract] = balance[t][Contract] + amount
       /\ balance' = [balance EXCEPT ![t] = last] /\ amount \in Int
  BY <1>2, <1>7, <1>8, <1>9 DEF b
<1> QED
  BY <1>7, <1>10, OneTokenMoves

\* deposit_no_fee brings in the amount.
LEMMA DepositNoFeeMoves ==
  ASSUME LedgerTypes, NEW t \in Tokens, NEW from \in Users, NEW amount \in Nat,
         DepositNoFee(t, from, amount)
  PROVE  LedgerTypes' /\ VaultMoves(t, amount)
<1> DEFINE b == balance[t]
           last == Move(b, from, Contract, amount)
<1>1. b[from] >= amount /\ balance' = [balance EXCEPT ![t] = last]
  BY DEF DepositNoFee, CanSend
<1>2. b \in [Holders -> Int] /\ \A h \in Users \cup {FeeAccount} : b[h] >= 0
  BY DEF LedgerTypes
<1> HIDE DEF b
<1>3. Transferred(b, last, from, Contract, amount)
  BY <1>2, Accounts, MoveExact
<1> HIDE DEF last
<1>4. last \in [Holders -> Int] /\ last[Contract] = b[Contract] + amount
  BY <1>3 DEF Transferred
<1>5. ASSUME NEW h \in Users \cup {FeeAccount} PROVE last[h] >= 0
  <2>1. last[h] = IF h = from THEN b[h] - amount ELSE b[h]
    BY <1>3, Accounts DEF Transferred
  <2> QED
    BY <1>1, <1>2, <2>1, Accounts
<1>6. /\ last[Contract] = balance[t][Contract] + amount
      /\ balance' = [balance EXCEPT ![t] = last] /\ amount \in Int
  BY <1>1, <1>4 DEF b
<1> QED
  BY <1>4, <1>5, <1>6, OneTokenMoves

\* release sends the amount out.
LEMMA ReleaseMoves ==
  ASSUME LedgerTypes, NEW t \in Tokens, NEW to \in Users, NEW amount \in Nat,
         Release(t, to, amount)
  PROVE  LedgerTypes' /\ VaultMoves(t, -amount)
<1> DEFINE b == balance[t]
           last == Move(b, Contract, to, amount)
<1>1. balance' = [balance EXCEPT ![t] = last]
  BY DEF Release
<1>2. b \in [Holders -> Int] /\ \A h \in Users \cup {FeeAccount} : b[h] >= 0
  BY DEF LedgerTypes
<1> HIDE DEF b
<1>3. Transferred(b, last, Contract, to, amount)
  BY <1>2, Accounts, MoveExact
<1> HIDE DEF last
<1>4. last \in [Holders -> Int] /\ last[Contract] = b[Contract] + -amount
  BY <1>2, <1>3, Accounts DEF Transferred
<1>5. ASSUME NEW h \in Users \cup {FeeAccount} PROVE last[h] >= 0
  <2>1. last[h] = IF h = to THEN b[h] + amount ELSE b[h]
    BY <1>3, Accounts DEF Transferred
  <2> QED
    BY <1>2, <2>1, Accounts
<1>6. /\ last[Contract] = balance[t][Contract] + -amount
      /\ balance' = [balance EXCEPT ![t] = last] /\ -amount \in Int
  BY <1>1, <1>4 DEF b
<1> QED
  BY <1>4, <1>5, <1>6, OneTokenMoves

\* release_with_fee sends the amount out, part of it to the fee account.
LEMMA ReleaseWithFeeMoves ==
  ASSUME LedgerTypes, NEW t \in Tokens, NEW to \in Users, NEW amount \in Nat,
         NEW bps \in Nat, bps <= BpsTotal, ReleaseWithFee(t, to, amount, bps)
  PROVE  LedgerTypes' /\ VaultMoves(t, -amount)
<1>1. PICK fee \in Nat : fee = ComputeFee(amount, bps) /\ fee <= amount
  BY FeeBound
<1> DEFINE b == balance[t]
           first == Move(b, Contract, to, amount - fee)
           last == Move(first, Contract, FeeAccount, fee)
<1>2. balance' = [balance EXCEPT ![t] = last]
  BY <1>1 DEF ReleaseWithFee
<1>3. b \in [Holders -> Int] /\ \A h \in Users \cup {FeeAccount} : b[h] >= 0
  BY DEF LedgerTypes
<1> HIDE DEF b
<1>4. Transferred(b, first, Contract, to, amount - fee)
  BY <1>3, Accounts, MoveExact
<1>5. first \in [Holders -> Int]
  BY <1>4 DEF Transferred
<1> HIDE DEF first
<1>6. Transferred(first, last, Contract, FeeAccount, fee)
  BY <1>5, Accounts, MoveExact
<1> HIDE DEF last
<1>7. last \in [Holders -> Int] /\ last[Contract] = b[Contract] + -amount
  BY <1>3, <1>4, <1>6, Accounts DEF Transferred
<1>8. last[FeeAccount] >= 0
  BY <1>3, <1>4, <1>6, Accounts DEF Transferred
<1>9. ASSUME NEW h \in Users PROVE last[h] >= 0
  <2>1. last[h] = first[h]
    BY <1>6, Accounts DEF Transferred
  <2>2. first[h] = IF h = to THEN b[h] + (amount - fee) ELSE b[h]
    BY <1>4, Accounts DEF Transferred
  <2> QED
    BY <1>1, <1>3, <2>1, <2>2, Accounts
<1>10. /\ \A h \in Users \cup {FeeAccount} : last[h] >= 0
       /\ last[Contract] = balance[t][Contract] + -amount
       /\ balance' = [balance EXCEPT ![t] = last] /\ -amount \in Int
  BY <1>2, <1>7, <1>8, <1>9 DEF b
<1> QED
  BY <1>7, <1>10, OneTokenMoves

\* A call that moves no tokens moves nothing of the contract's.
LEMMA NoTokensMove ==
  ASSUME LedgerTypes, UNCHANGED balance, NEW t
  PROVE  LedgerTypes' /\ VaultMoves(t, 0)
<1>1. \A x \in Tokens : balance[x][Contract] \in Int
  BY DEF LedgerTypes, Holders
<1> QED
  BY <1>1 DEF LedgerTypes, VaultMoves

-----------------------------------------------------------------------------
(* What an event's pool holds                                              *)

PoolOf(e) == IF EventExists(e) THEN Liability(e) ELSE 0

\* What PoolOf(e) depends on does not change in a step.
SameMoney(e) ==
  /\ (e \in DOMAIN terms') <=> (e \in DOMAIN terms)
  /\ EventExists(e) => terms'[e] = terms[e]
  /\ status'[e] = status[e] /\ cancellation'[e] = cancellation[e]
  /\ remaining_escrow'[e] = remaining_escrow[e]
  /\ contributors'[e] = contributors[e] /\ contributed'[e] = contributed[e]
  /\ unclaimed_refund'[e] = unclaimed_refund[e]

\* The pool of an event depends on nothing else.
LEMMA SameMoneySamePool ==
  ASSUME NEW e \in EventIds, SameMoney(e)
  PROVE  PoolOf(e)' = PoolOf(e)
<1>1. HeldRefunds(e)' = HeldRefunds(e) /\ OutstandingRefunds(e)' = OutstandingRefunds(e)
  BY DEF SameMoney, HeldRefunds, OutstandingRefunds
<1>2. Liability(e)' = Liability(e)
  BY <1>1, Zenon DEF SameMoney, Liability
<1> QED
  BY <1>2 DEF SameMoney, PoolOf, EventExists

\* The refunds set aside for an event are a sum over the users.
LEMMA HeldSum ==
  ASSUME CancelTypes, NEW e \in EventIds
  PROVE  /\ HeldRefunds(e) = SumFunctionOnSet(unclaimed_refund[e], Users)
         /\ HeldRefunds(e) \in Nat
<1>1. unclaimed_refund[e] \in [Users -> Nat]
  BY DEF CancelTypes
<1>2. HeldRefunds(e) = SumFunctionOnSet(unclaimed_refund[e], Users)
  BY <1>1 DEF HeldRefunds, SumFunction
<1> QED
  BY <1>1, <1>2, FinitenessAssumption, SumNat

\* What a running cancellation still refunds is a sum over registry slots.
LEMMA OutstandingSum ==
  ASSUME StorageTypes, SafetyInv, NEW e \in EventIds, status[e] = "Cancelling"
  PROVE  LET c  == cancellation[e]
             due == [i \in c.next_idx + 1 .. c.count_at_start |->
                       Payout(c, contributed[e][contributors[e][i]])]
         IN  /\ c \in CancellationState
             /\ c.count_at_start = Len(contributors[e])
             /\ \A i \in c.next_idx + 1 .. c.count_at_start : due[i] \in Nat
             /\ OutstandingRefunds(e)
                  = SumFunctionOnSet(due, c.next_idx + 1 .. c.count_at_start)
             /\ OutstandingRefunds(e) \in Nat
             /\ OwnerResidual(c) \in Nat
<1> USE DEF StorageTypes
<1> DEFINE c  == cancellation[e]
           slots == c.next_idx + 1 .. c.count_at_start
           due == [i \in slots |-> Payout(c, contributed[e][contributors[e][i]])]
<1>1. /\ c \in CancellationState /\ c.count_at_start = Len(contributors[e])
      /\ c.branch = Branch(c.non_owner_total, c.remaining_at_start)
  BY DEF SafetyInv, EventSafe, CancellationFits, CancelTypes
<1>2. c.next_idx \in Nat /\ c.count_at_start \in Nat
  BY <1>1 DEF CancellationState
<1>3. \A i \in slots : contributed[e][contributors[e][i]] \in Nat
  BY <1>1, <1>2 DEF ContributionTypes
<1>4. \A i \in slots : due[i] \in Nat
  BY <1>1, <1>3, PayoutTyped
<1>5. OutstandingRefunds(e) = SumFunctionOnSet(due, slots)
  BY DEF OutstandingRefunds, SumFunction
<1>6. IsFiniteSet(slots)
  <2>1. c.next_idx + 1 \in Int /\ c.count_at_start \in Int
    BY <1>2
  <2> QED BY <2>1, FS_Interval
<1>7. OutstandingRefunds(e) \in Nat
  <2> HIDE DEF due, slots
  <2> QED BY <1>4, <1>5, <1>6, SumNat
<1>8. OwnerResidual(c) \in Nat
  <2>1. c.non_owner_total \in Nat /\ c.remaining_at_start \in Nat
    BY <1>1 DEF CancellationState
  <2>2. c.branch = "FullPartnerThenResidual"
          => c.remaining_at_start >= c.non_owner_total
    BY <1>1, <2>1 DEF Branch
  <2> QED
    BY <2>1, <2>2 DEF OwnerResidual
<1> QED
  BY <1>1, <1>4, <1>5, <1>7, <1>8

\* What the contract may still be asked to pay is never negative.
LEMMA LiabilityTyped ==
  ASSUME StorageTypes, SafetyInv, NEW e \in EventIds
  PROVE  Liability(e) \in Nat /\ PoolOf(e) \in Nat
<1>1. HeldRefunds(e) \in Nat /\ remaining_escrow[e] \in Nat
  BY HeldSum DEF StorageTypes, RecordTypes
<1>2. status[e] = "Cancelling" =>
        /\ OutstandingRefunds(e) \in Nat
        /\ OwnerResidual(cancellation[e]) \in Nat
  BY OutstandingSum
<1>3. Liability(e) \in Nat
  BY <1>1, <1>2 DEF Liability
<1> QED
  BY <1>3 DEF PoolOf

\* While an event is active, or completed, its pool is what is set aside and
\* what is left in escrow.
LEMMA OpenPool ==
  ASSUME NEW e \in EventIds, EventExists(e), status[e] \in {"Active", "Completed"}
  PROVE  PoolOf(e) = HeldRefunds(e) + remaining_escrow[e]
BY DEF PoolOf, Liability

\* A call made for event e: its pool and the contract's balance of its token
\* move by the same d, and no other event's records change.
Books(e, d) ==
  /\ \A x \in EventIds \ {e} : SameMoney(x)
  /\ EventExists(e)' /\ PoolOf(e)' = PoolOf(e) + d
  /\ LedgerTypes' /\ VaultMoves(Token(e)', d)

\* A call that moves no money.
NoMoney ==
  /\ \A x \in EventIds : SameMoney(x)
  /\ UNCHANGED balance

\* The terms of an event name a token, and fees no higher than the cap.
LEMMA TermsTyped ==
  ASSUME StorageTypes, FeesBounded, NEW e \in EventIds, EventExists(e)
  PROVE  /\ Token(e) \in Tokens /\ Owner(e) \in Users
         /\ EffectiveFee(e) \in Nat /\ EffectiveFee(e) <= BpsTotal
<1>1. terms[e] \in CreateEventParams
  BY StorageAssumption DEF EventExists, StorageTypes, RecordTypes
<1>2. /\ terms[e].fee_override # None => /\ terms[e].fee_override \in Nat
                                         /\ terms[e].fee_override <= MaxFeeBps
      /\ fee_bps \in Nat /\ fee_bps <= MaxFeeBps
  BY <1>1 DEF EventExists, FeesBounded, CreateEventParams, StorageTypes, InstanceTypes
<1>3. EffectiveFee(e) \in Nat /\ EffectiveFee(e) <= BpsTotal
  BY <1>2, StorageAssumption, MathAssumption DEF EffectiveFee
<1> QED
  BY <1>1, <1>3 DEF Token, Owner, CreateEventParams

\* create_event books the budget it deposits on the event it opens.
LEMMA CreateEventBooks ==
  ASSUME StorageTypes, SafetyInv, RegistryInv, LedgerInv,
         NEW params \in EventParams, NEW op \in OpIds, CreateEvent(params, op)
  PROVE  \E e \in EventIds, d \in Nat :
           /\ ~EventExists(e) /\ status'[e] = "Active"
           /\ Books(e, d)
<1> USE DEF StorageTypes
<1> DEFINE campaign == params.pillar = "Crowdfunding"
           d == IF campaign THEN 0 ELSE params.total_budget
           bps == IF params.fee_override = None THEN fee_bps
                                                ELSE params.fee_override
<1>0. PICK e \in EventIds : e = Len(terms) + 1
  BY DEF CreateEvent
<1>1. /\ terms' = Append(terms, params)
      /\ status' = [status EXCEPT ![e] = "Active"]
      /\ remaining_escrow' = [remaining_escrow EXCEPT
                                ![e] = IF campaign THEN 0
                                                   ELSE params.total_budget]
      /\ params.total_budget > 0
      /\ params.fee_override # None => params.fee_override <= MaxFeeBps
      /\ UNCHANGED <<contributionVars, cancelVars>>
  BY <1>0, Zenon DEF CreateEvent
<1>2. /\ DOMAIN terms' = 1 .. e /\ DOMAIN terms = 1 .. e - 1 /\ e \in Nat
      /\ \A x \in DOMAIN terms : terms'[x] = terms[x]
      /\ terms'[e] = params
  BY <1>0, <1>1 DEF RecordTypes, EventIds
<1>3. /\ params.token \in Tokens /\ params.owner \in Users
      /\ params.total_budget \in Nat
      /\ bps \in Nat /\ bps <= BpsTotal
  <2>1. params \in CreateEventParams
    BY StorageAssumption
  <2>2. bps \in Nat /\ bps <= MaxFeeBps
    BY <1>1, <2>1 DEF CreateEventParams, LedgerInv, FeesBounded, InstanceTypes
  <2>3. bps <= BpsTotal
    BY <2>2, StorageAssumption, MathAssumption
  <2> HIDE DEF bps
  <2> QED
    BY <1>1, <2>1, <2>2, <2>3 DEF CreateEventParams
<1>4. d \in Nat
  BY <1>3
<1>5. \A x \in EventIds \ {e} : SameMoney(x)
  <2> SUFFICES ASSUME NEW x \in EventIds \ {e} PROVE SameMoney(x)
    OBVIOUS
  <2>1. (x \in DOMAIN terms') <=> (x \in DOMAIN terms)
    BY <1>2 DEF EventIds
  <2> QED
    BY <1>1, <1>2, <2>1
    DEF SameMoney, EventExists, RecordTypes, contributionVars, cancelVars
<1>6. ~EventExists(e) /\ EventExists(e)' /\ status'[e] = "Active"
  BY <1>1, <1>2 DEF EventExists, RecordTypes
<1>7. PoolOf(e) = 0 /\ PoolOf(e)' = 0 + d
  <2>1. \A u \in Users : unclaimed_refund[e][u] = 0
    BY <1>6 DEF RegistryInv, RegistryFits
  <2>2. HeldRefunds(e) = 0
    BY <2>1, HeldSum, FinitenessAssumption, SumZero
  <2>3. HeldRefunds(e)' = 0
    BY <1>1, <2>2 DEF HeldRefunds, cancelVars
  <2>4. remaining_escrow'[e] = d
    BY <1>1 DEF RecordTypes
  <2> HIDE DEF d
  <2>5. Liability(e)' = 0 + d
    BY <1>6, <2>3, <2>4 DEF Liability
  <2> QED
    BY <1>6, <2>5 DEF PoolOf
<1>8. Token(e)' = params.token
  BY <1>2 DEF Token
<1>9. LedgerTypes' /\ VaultMoves(params.token, d)
  <2>1. CASE campaign
    <3>1. UNCHANGED balance
      BY <2>1, <1>0, Zenon DEF CreateEvent
    <3> QED
      BY <2>1, <3>1, NoTokensMove DEF LedgerInv
  <2>2. CASE ~campaign
    <3>1. DepositWithFee(params.token, params.owner, params.total_budget, bps)
      BY <2>2, <1>0, Zenon DEF CreateEvent
    <3> HIDE DEF bps
    <3> QED
      BY <1>3, <2>2, <3>1, DepositWithFeeMoves DEF LedgerInv
  <2> QED
    BY <2>1, <2>2
<1> HIDE DEF d
<1>10. Books(e, d)
  BY <1>5, <1>6, <1>7, <1>8, <1>9 DEF Books
<1> QED
  BY <1>4, <1>6, <1>10

\* add_funds books what it deposits, contribution or not.
LEMMA AddFundsBooks ==
  ASSUME StorageTypes, SafetyInv, LedgerInv, NEW e \in EventIds,
         NEW from \in Users, NEW amount \in Contributions, NEW op \in OpIds,
         AddFunds(e, from, amount, op)
  PROVE  /\ amount \in Nat \ {0} /\ IsActive(e)
         /\ UNCHANGED <<terms, status>> /\ Books(e, amount)
<1> USE DEF StorageTypes
<1>1. amount \in Nat \ {0}
  BY StorageAssumption DEF AddFunds
<1>2. /\ IsActive(e)
      /\ IF IsCrowdfunding(e)
         THEN DepositNoFee(Token(e), from, amount)
         ELSE DepositWithFee(Token(e), from, amount, EffectiveFee(e))
      /\ remaining_escrow' = [remaining_escrow EXCEPT ![e] = @ + amount]
      /\ UNCHANGED <<terms, status, cancelVars>>
  BY Zenon DEF AddFunds
<1>3. \A x \in EventIds \ {e} : /\ contributors'[x] = contributors[x]
                                /\ contributed'[x] = contributed[x]
  <2>1. CASE UNCHANGED contributionVars
    BY <2>1 DEF contributionVars
  <2>2. CASE ~(UNCHANGED contributionVars)
    BY <2>2 DEF AddFunds, ContributionTypes
  <2> QED
    BY <2>1, <2>2
<1>4. \A x \in EventIds \ {e} : SameMoney(x)
  BY <1>2, <1>3 DEF SameMoney, RecordTypes, cancelVars
<1>5. EventExists(e) /\ status[e] = "Active" /\ EventExists(e)' /\ Token(e)' = Token(e)
  BY <1>2 DEF IsActive, EventExists, Token
<1>6. PoolOf(e)' = PoolOf(e) + amount
  <2>1. HeldRefunds(e)' = HeldRefunds(e) /\ HeldRefunds(e) \in Nat
    BY <1>2, HeldSum DEF HeldRefunds, cancelVars
  <2>2. /\ remaining_escrow'[e] = remaining_escrow[e] + amount
        /\ remaining_escrow[e] \in Nat
    BY <1>2 DEF RecordTypes
  <2>3. PoolOf(e) = HeldRefunds(e) + remaining_escrow[e]
    BY <1>5, OpenPool
  <2>4. PoolOf(e)' = HeldRefunds(e)' + remaining_escrow'[e]
    BY <1>2, <1>5 DEF PoolOf, Liability
  <2> QED
    BY <1>1, <2>1, <2>2, <2>3, <2>4
<1>7. LedgerTypes' /\ VaultMoves(Token(e), amount)
  <2>1. Token(e) \in Tokens /\ EffectiveFee(e) \in Nat /\ EffectiveFee(e) <= BpsTotal
    BY <1>5, TermsTyped DEF LedgerInv
  <2> QED
    BY <1>1, <1>2, <2>1, DepositWithFeeMoves, DepositNoFeeMoves DEF LedgerInv
<1>8. Books(e, amount)
  BY <1>4, <1>5, <1>6, <1>7 DEF Books
<1> QED
  BY <1>1, <1>2, <1>8

\* A call that pays an amount out of an active event's escrow books it, whether
\* or not the payment completes the event.
LEMMA PaymentBooks ==
  ASSUME StorageTypes, SafetyInv, LedgerInv, NEW e \in EventIds, IsActive(e),
         NEW amount \in Nat,
         remaining_escrow' = [remaining_escrow EXCEPT ![e] = @ - amount],
         status' = [status EXCEPT
           ![e] = IF remaining_escrow'[e] = 0 THEN "Completed" ELSE @],
         UNCHANGED <<terms, contributionVars, cancelVars>>,
         LedgerTypes', VaultMoves(Token(e), -amount)
  PROVE  /\ Books(e, -amount) /\ status'[e] \in {"Active", "Completed"}
<1> USE DEF StorageTypes
<1>1. /\ EventExists(e) /\ status[e] = "Active"
      /\ EventExists(e)' /\ Token(e)' = Token(e)
  BY DEF IsActive, EventExists, Token
<1>2. status'[e] \in {"Active", "Completed"}
  BY <1>1 DEF RecordTypes
<1>3. \A x \in EventIds \ {e} : SameMoney(x)
  BY DEF SameMoney, RecordTypes, contributionVars, cancelVars
<1>4. PoolOf(e)' = PoolOf(e) + -amount
  <2>1. HeldRefunds(e)' = HeldRefunds(e) /\ HeldRefunds(e) \in Nat
    BY HeldSum DEF HeldRefunds, cancelVars
  <2>2. /\ remaining_escrow'[e] = remaining_escrow[e] - amount
        /\ remaining_escrow[e] \in Nat
    BY DEF RecordTypes
  <2>3. PoolOf(e) = HeldRefunds(e) + remaining_escrow[e]
    BY <1>1, OpenPool
  <2>4. PoolOf(e)' = HeldRefunds(e)' + remaining_escrow'[e]
    BY <1>1, <1>2 DEF PoolOf, Liability
  <2> QED
    BY <2>1, <2>2, <2>3, <2>4
<1> QED
  BY <1>1, <1>2, <1>3, <1>4 DEF Books

\* The ways a call may move an event's money.
Opens(e, d) ==
  ~EventExists(e) /\ status'[e] = "Active" /\ Books(e, d)

Funds(e, d) ==
  /\ EventExists(e) /\ status[e] = "Active" /\ UNCHANGED <<terms, status>>
  /\ Books(e, d)

Pays(e, d) ==
  /\ EventExists(e) /\ UNCHANGED terms
  /\ status'[e] \in {status[e], "Completed", "Cancelled"}
  /\ Books(e, -d)

\* No product of a contribution and the escrow that is left saturates.
ProductsFit(e) ==
  \A u \in Users : contributed[e][u] * remaining_escrow[e] <= MaxI128

\* Rounding the refunds takes less than one unit per contributor.
RoundsByUnits(e) ==
  ProductsFit(e) => PoolOf(e) <= PoolOf(e)' + RoundingLoss(e)'

\* Fixing the refunds of a cancellation may round the pool down.
Rounds(e) ==
  /\ EventExists(e) /\ UNCHANGED <<terms, balance>>
  /\ status[e] = "Active" /\ status'[e] = "Cancelling"
  /\ \A x \in EventIds \ {e} : SameMoney(x)
  /\ PoolOf(e)' <= PoolOf(e)
  /\ RoundsByUnits(e)

MoneyStep ==
  \/ NoMoney
  \/ \E e \in EventIds, d \in Nat : Opens(e, d)
  \/ \E e \in EventIds, d \in Nat \ {0} : Funds(e, d)
  \/ \E e \in EventIds, d \in Nat : Pays(e, d)
  \/ \E e \in EventIds : Rounds(e)

\* claim_prize and claim_milestone pay out of the escrow of an active event.
LEMMA ClaimPrizePays ==
  ASSUME StorageTypes, SafetyInv, LedgerInv, NEW e \in EventIds,
         NEW p \in Positions, NEW op \in OpIds, ClaimPrize(e, p, op)
  PROVE  \E d \in Nat : Pays(e, d)
<1> DEFINE anchor == winners[e][prize_award[e][p].anchor_idx]
           to == prize_award[e][p].recipient
<1>1. /\ IsActive(e) /\ EventExists(e)
      /\ anchor.amount > 0 /\ prize_award[e][p] # None
      /\ prize_award[e][p].anchor_idx \in DOMAIN winners[e]
      /\ remaining_escrow' = [remaining_escrow EXCEPT ![e] = @ - anchor.amount]
      /\ status' = [status EXCEPT
           ![e] = IF remaining_escrow'[e] = 0 THEN "Completed" ELSE @]
      /\ Release(Token(e), to, anchor.amount)
      /\ UNCHANGED <<terms, contributionVars, cancelVars>>
  BY Zenon DEF ClaimPrize, PrizeDue, IsActive
<1>2. anchor.amount \in Nat /\ to \in Users
  <2>1. anchor \in Winner /\ prize_award[e][p] \in PrizeAward
    BY <1>1 DEF StorageTypes, AwardTypes, PrizeTypes
  <2> QED
    BY <1>1, <2>1 DEF Winner, PrizeAward
<1> HIDE DEF anchor, to
<1>3. Token(e) \in Tokens
  BY <1>1, TermsTyped DEF LedgerInv
<1>4. LedgerTypes' /\ VaultMoves(Token(e), -anchor.amount)
  BY <1>1, <1>2, <1>3, ReleaseMoves DEF LedgerInv
<1>5. Books(e, -anchor.amount) /\ status'[e] \in {"Active", "Completed"}
  BY <1>1, <1>2, <1>4, PaymentBooks
<1>6. Pays(e, anchor.amount)
  BY <1>1, <1>5 DEF Pays, IsActive
<1> QED
  BY <1>2, <1>6

\* A grant milestone books on its event what it releases from the vault
\* (grant.rs: claim_milestone).
LEMMA ClaimGrantMilestonePays ==
  ASSUME StorageTypes, SafetyInv, LedgerInv, NEW e \in EventIds,
         NEW r \in Users, NEW m \in Nat, NEW bump \in ReputationBumps,
         NEW op \in OpIds, ClaimGrantMilestone(e, r, m, bump, op)
  PROVE  \E d \in Nat : Pays(e, d)
<1> DEFINE amount == SettlementOf(e, r, m)
<1>1. /\ MilestoneOpen(e, r, m, op) /\ Settle(e, r, m)
      /\ IsActive(e) /\ EventExists(e)
      /\ remaining_escrow' = [remaining_escrow EXCEPT ![e] = @ - amount]
      /\ status' = [status EXCEPT
           ![e] = IF remaining_escrow'[e] = 0 THEN "Completed" ELSE @]
      /\ Release(Token(e), r, amount)
      /\ UNCHANGED <<terms, contributionVars, cancelVars>>
  BY Zenon DEF ClaimGrantMilestone, MilestoneOpen, PayMilestone, IsActive
<1>2. amount \in Nat
  BY <1>1, SettleTyped DEF StorageTypes
<1> HIDE DEF amount
<1>3. Token(e) \in Tokens
  BY <1>1, TermsTyped DEF LedgerInv
<1>4. LedgerTypes' /\ VaultMoves(Token(e), -amount)
  BY <1>1, <1>2, <1>3, ReleaseMoves DEF LedgerInv
<1>5. Books(e, -amount) /\ status'[e] \in {"Active", "Completed"}
  BY <1>1, <1>2, <1>4, PaymentBooks
<1>6. Pays(e, amount)
  BY <1>1, <1>5 DEF Pays, IsActive
<1> QED
  BY <1>2, <1>6

\* A campaign's draw is booked gross: the recipient's part and the fee together
\* leave the vault (grant.rs: claim_milestone; escrow.rs: release_with_fee).
LEMMA ClaimCampaignMilestonePays ==
  ASSUME StorageTypes, SafetyInv, LedgerInv, NEW e \in EventIds,
         NEW r \in Users, NEW m \in Nat, NEW bump \in ReputationBumps,
         NEW op \in OpIds, ClaimCampaignMilestone(e, r, m, bump, op)
  PROVE  \E d \in Nat : Pays(e, d)
<1> DEFINE amount == CampaignDraw(e)
<1>1. /\ IsActive(e) /\ EventExists(e) /\ Milestones(Kind(e)) > cf_claimed[e]
      /\ amount > 0
      /\ remaining_escrow' = [remaining_escrow EXCEPT ![e] = @ - amount]
      /\ status' = [status EXCEPT
           ![e] = IF remaining_escrow'[e] = 0 THEN "Completed" ELSE @]
      /\ ReleaseWithFee(Token(e), r, amount, EffectiveFee(e))
      /\ UNCHANGED <<terms, contributionVars, cancelVars>>
  BY Zenon DEF ClaimCampaignMilestone, MilestoneOpen, PayMilestone, IsActive
<1>2. amount \in Nat
  <2>1. amount \in Int
    BY <1>1, CampaignDrawTyped DEF StorageTypes
  <2> HIDE DEF amount
  <2> QED
    BY <1>1, <2>1
<1> HIDE DEF amount
<1>3. Token(e) \in Tokens /\ EffectiveFee(e) \in Nat /\ EffectiveFee(e) <= BpsTotal
  BY <1>1, TermsTyped DEF LedgerInv
<1>4. LedgerTypes' /\ VaultMoves(Token(e), -amount)
  BY <1>1, <1>2, <1>3, ReleaseWithFeeMoves DEF LedgerInv
<1>5. Books(e, -amount) /\ status'[e] \in {"Active", "Completed"}
  BY <1>1, <1>2, <1>4, PaymentBooks
<1>6. Pays(e, amount)
  BY <1>1, <1>5 DEF Pays, IsActive
<1> QED
  BY <1>2, <1>6

\* claim_refund pays what was set aside for one contributor.
LEMMA ClaimRefundPays ==
  ASSUME StorageTypes, SafetyInv, LedgerInv, NEW e \in EventIds,
         NEW u \in Users, NEW op \in OpIds, ClaimRefund(e, u, op)
  PROVE  \E d \in Nat : Pays(e, d)
<1> USE DEF StorageTypes
<1> DEFINE amount == unclaimed_refund[e][u]
<1>1. /\ EventExists(e) /\ Release(Token(e), u, amount)
      /\ unclaimed_refund' = [unclaimed_refund EXCEPT ![e][u] = 0]
      /\ UNCHANGED <<terms, status, remaining_escrow, contributionVars,
                     cancellation>>
  BY Zenon DEF ClaimRefund, UnchangedByCancel
<1>2. amount \in Nat /\ unclaimed_refund[e] \in [Users -> Nat]
  BY DEF CancelTypes
<1>3. LedgerTypes' /\ VaultMoves(Token(e), -amount)
  <2>1. Token(e) \in Tokens
    BY <1>1, TermsTyped DEF LedgerInv
  <2> HIDE DEF amount
  <2> QED
    BY <1>1, <1>2, <2>1, ReleaseMoves DEF LedgerInv
<1>4. \A x \in EventIds \ {e} : SameMoney(x)
  BY <1>1 DEF SameMoney, contributionVars, CancelTypes
<1>5. HeldRefunds(e)' = HeldRefunds(e) - amount /\ HeldRefunds(e) \in Nat
  <2> DEFINE f == unclaimed_refund[e]
             g == unclaimed_refund'[e]
  <2>1. g = [f EXCEPT ![u] = 0]
    BY <1>1, <1>2 DEF CancelTypes
  <2>2. /\ \A x \in Users : f[x] \in Int
        /\ \A x \in Users \ {u} : g[x] = f[x]
        /\ g[u] = 0 /\ f[u] = amount /\ DOMAIN g = Users
    BY <1>2, <2>1
  <2>3. HeldRefunds(e) = SumFunctionOnSet(f, Users) /\ HeldRefunds(e) \in Nat
    BY HeldSum
  <2>4. HeldRefunds(e)' = SumFunctionOnSet(g, Users)
    BY <2>2 DEF HeldRefunds, SumFunction
  <2> HIDE DEF f, g, amount
  <2>5. SumFunctionOnSet(g, Users) = SumFunctionOnSet(f, Users) + g[u] - f[u]
    BY <2>2, FinitenessAssumption, SumChange
  <2> QED
    BY <1>2, <2>2, <2>3, <2>4, <2>5
<1>6. PoolOf(e)' = PoolOf(e) + -amount
  <2> DEFINE rest == CASE status[e] = "Cancelling" ->
                             OutstandingRefunds(e) + OwnerResidual(cancellation[e])
                       [] status[e] \in {"Active", "Completed"} -> remaining_escrow[e]
                       [] OTHER -> 0
  <2>1. OutstandingRefunds(e)' = OutstandingRefunds(e)
    BY <1>1 DEF OutstandingRefunds, contributionVars
  <2>2. rest' = rest
    BY <1>1, <2>1, Zenon
  <2>3. Liability(e) = HeldRefunds(e) + rest /\ Liability(e) \in Nat
    BY LiabilityTyped DEF Liability
  <2>4. Liability(e)' = HeldRefunds(e)' + rest'
    BY DEF Liability
  <2>5. rest \in Int
    <3>1. status[e] = "Cancelling" => /\ OutstandingRefunds(e) \in Nat
                                      /\ OwnerResidual(cancellation[e]) \in Nat
      BY OutstandingSum
    <3> QED
      BY <3>1 DEF RecordTypes
  <2>6. EventExists(e)' /\ EventExists(e)
    BY <1>1 DEF EventExists
  <2> HIDE DEF rest, amount
  <2> QED
    BY <1>2, <1>5, <2>2, <2>3, <2>4, <2>5, <2>6 DEF PoolOf
<1>7. EventExists(e)' /\ Token(e)' = Token(e)
  BY <1>1 DEF EventExists, Token
<1> HIDE DEF amount
<1>8. Pays(e, amount)
  BY <1>1, <1>3, <1>4, <1>6, <1>7 DEF Pays, Books
<1> QED
  BY <1>2, <1>8

\* Contributions in registry order sum to the total start_cancel divides by.
LEMMA RegistryTotal ==
  ASSUME StorageTypes, RegistryInv, NEW e \in EventIds,
         EventExists(e), status[e] = "Active"
  PROVE  LET slot  == contributors[e]
             given == [i \in DOMAIN slot |-> contributed[e][slot[i]]]
         IN  /\ \A i \in DOMAIN slot : given[i] \in Nat
             /\ SumFunctionOnSet(given, DOMAIN slot) = non_owner_total[e]
<1> USE DEF StorageTypes
<1> DEFINE slot  == contributors[e]
           given == [i \in DOMAIN slot |-> contributed[e][slot[i]]]
           I     == DOMAIN slot
<1>1. /\ slot \in Seq(Users) /\ IsInjective(slot)
      /\ \A u \in Users : contributed[e][u] > 0 => u \in Range(slot)
      /\ non_owner_total[e] = ContributedTo(e)
  BY DEF RegistryInv, RegistryFits, ContributionTypes
<1>2. \A u \in Users : contributed[e][u] \in Nat
  BY DEF ContributionTypes
<1>3. \A i \in I : slot[i] \in Users /\ given[i] \in Nat /\ given[i] = contributed[e][slot[i]]
  BY <1>1, <1>2
<1>4. IsFiniteSet(I)
  <2>1. I = 1 .. Len(slot) /\ Len(slot) \in Nat
    BY <1>1
  <2> QED BY <2>1, FS_Interval
<1>5. Range(slot) = {slot[i] : i \in I} /\ Range(slot) \subseteq Users
  BY <1>1 DEF Range
<1>6. \A i, j \in I : slot[i] = slot[j] => i = j
  BY <1>1 DEF IsInjective
<1> HIDE DEF slot, given, I
<1>7. SumFunctionOnSet(given, I) = SumFunctionOnSet(contributed[e], Range(slot))
  BY <1>2, <1>3, <1>4, <1>5, <1>6, SumImage
<1>8. SumFunctionOnSet(contributed[e], Users)
        = SumFunctionOnSet(contributed[e], Range(slot))
  <2>1. \A u \in Users \ Range(slot) : contributed[e][u] = 0
    BY <1>1, <1>2
  <2> QED
    BY <1>2, <1>5, <2>1, FinitenessAssumption, SumWhere
<1>9. ContributedTo(e) = SumFunctionOnSet(contributed[e], Users)
  BY ContributedSum
<1> QED
  BY <1>1, <1>3, <1>7, <1>8, <1>9 DEF slot, given, I

\* Scaling contributions down to what is left, rounding each, takes no more
\* than what is left.
LEMMA ScaledDown ==
  ASSUME NEW S, IsFiniteSet(S), NEW given, \A i \in S : given[i] \in Nat,
         NEW total \in Nat \ {0}, SumFunctionOnSet(given, S) = total,
         NEW left \in Nat, NEW due,
         \A i \in S : due[i] = SaturatingMul(given[i], left) \div total
  PROVE  SumFunctionOnSet(due, S) \in Nat /\ SumFunctionOnSet(due, S) <= left
<1>1. \A i \in S : due[i] \in Nat /\ total * due[i] <= left * given[i]
  <2> SUFFICES ASSUME NEW i \in S
               PROVE  due[i] \in Nat /\ total * due[i] <= left * given[i]
    OBVIOUS
  <2>1. PICK a \in Nat : a = given[i]
    OBVIOUS
  <2>2. PICK x \in Nat : x = SaturatingMul(a, left) /\ x <= a * left
    BY SaturatingMulBound
  <2>3. PICK q \in Nat : q = x \div total /\ total * q <= x
    <3>1. x \div total \in Nat /\ total * (x \div total) <= x
      OBVIOUS
    <3> QED BY <3>1
  <2>4. due[i] = q
    BY <2>1, <2>2, <2>3
  <2>5. a * left = left * a /\ left * a \in Nat /\ total * q \in Nat
    OBVIOUS
  <2>6. total * q <= left * a
    BY <2>2, <2>3, <2>5
  <2> QED
    BY <2>1, <2>4, <2>6
<1>2. PICK q \in Nat : q = SumFunctionOnSet(due, S)
  BY <1>1, SumNat
<1>3. total * q <= left * total
  <2>1. total * SumFunctionOnSet(due, S) <= left * SumFunctionOnSet(given, S)
    <3>1. \A i \in S : /\ due[i] \in Int /\ given[i] \in Int
                       /\ total * due[i] <= left * given[i]
      BY <1>1
    <3>2. total \in Int /\ left \in Int
      OBVIOUS
    <3> QED BY <3>1, <3>2, SumScale
  <2> QED
    BY <1>2, <2>1
<1>4. q <= left
  <2>1. SUFFICES ASSUME q >= left + 1 PROVE FALSE
    BY <1>2
  <2>2. total * (left + 1) <= total * q
    BY <2>1
  <2> QED
    BY <1>3, <2>2
<1> QED
  BY <1>2, <1>4

\* Unless a product saturates, that rounding takes less than one unit each.
LEMMA ScaledDownByUnits ==
  ASSUME NEW S, IsFiniteSet(S), NEW n \in Nat \ {0}, Cardinality(S) = n,
         NEW given, \A i \in S : given[i] \in Nat,
         NEW total \in Nat \ {0}, SumFunctionOnSet(given, S) = total,
         NEW left \in Nat, \A i \in S : given[i] * left <= MaxI128, NEW due,
         \A i \in S : due[i] = SaturatingMul(given[i], left) \div total
  PROVE  left <= SumFunctionOnSet(due, S) + n - 1
<1> DEFINE scaled == [i \in S |-> total * due[i]]
           slack  == [i \in S |-> total - 1]
           above  == [i \in S |-> total * due[i] + (total - 1)]
<1>1. \A i \in S : /\ due[i] \in Nat /\ total * due[i] \in Nat
                   /\ left * given[i] <= total * due[i] + (total - 1)
  <2> SUFFICES ASSUME NEW i \in S
               PROVE  /\ due[i] \in Nat /\ total * due[i] \in Nat
                      /\ left * given[i] <= total * due[i] + (total - 1)
    OBVIOUS
  <2>1. PICK a \in Nat : a = given[i]
    OBVIOUS
  <2>2. a * left <= MaxI128
    BY <2>1
  <2>3. PICK x \in Nat : x = a * left
    OBVIOUS
  <2>4. SaturatingMul(a, left) = x
    BY <2>2, <2>3, MathAssumption DEF SaturatingMul
  <2>5. PICK q \in Nat : q = x \div total /\ x <= total * q + (total - 1)
    <3>1. /\ x \div total \in Nat
          /\ x <= total * (x \div total) + (total - 1)
      OBVIOUS
    <3> QED BY <3>1
  <2>6. due[i] = q
    BY <2>1, <2>4, <2>5
  <2>7. total * q \in Nat /\ left * a = x
    BY <2>3
  <2> QED
    BY <2>1, <2>5, <2>6, <2>7
<1>2. PICK q \in Nat : q = SumFunctionOnSet(due, S)
  BY <1>1, SumNat
<1>3. left * total <= SumFunctionOnSet(above, S)
  <2>1. \A i \in S : /\ given[i] \in Int /\ above[i] \in Int
                     /\ left * given[i] <= 1 * above[i]
    BY <1>1
  <2> HIDE DEF above
  <2>2. left \in Int /\ 1 \in Int
    OBVIOUS
  <2>3. left * SumFunctionOnSet(given, S) <= 1 * SumFunctionOnSet(above, S)
    BY <2>1, <2>2, SumScale
  <2>4. SumFunctionOnSet(above, S) \in Int
    BY <2>1, SumInt
  <2> QED
    BY <2>3, <2>4
<1>4. SumFunctionOnSet(above, S)
        = SumFunctionOnSet(scaled, S) + SumFunctionOnSet(slack, S)
  <2>1. \A i \in S : /\ scaled[i] \in Int /\ slack[i] \in Int
                     /\ above[i] = scaled[i] + slack[i]
    BY <1>1
  <2> HIDE DEF above, scaled, slack
  <2> QED
    BY <2>1, SumPlus
<1>5. SumFunctionOnSet(slack, S) = (total - 1) * n
  <2>1. PICK k \in Int : k = total - 1
    OBVIOUS
  <2>2. \A i \in S : slack[i] = k
    BY <2>1
  <2> HIDE DEF slack
  <2>3. SumFunctionOnSet(slack, S) = k * Cardinality(S)
    BY <2>2, SumConstant
  <2> QED
    BY <2>1, <2>3
<1>6. SumFunctionOnSet(scaled, S) \in Int /\ SumFunctionOnSet(scaled, S) <= total * q
  <2>1. \A i \in S : /\ scaled[i] \in Int /\ due[i] \in Int
                     /\ 1 * scaled[i] <= total * due[i]
    BY <1>1
  <2> HIDE DEF scaled
  <2>2. 1 \in Int /\ total \in Int
    OBVIOUS
  <2>3. 1 * SumFunctionOnSet(scaled, S) <= total * SumFunctionOnSet(due, S)
    BY <2>1, <2>2, SumScale
  <2>4. SumFunctionOnSet(scaled, S) \in Int
    BY <2>1, SumInt
  <2> QED
    BY <1>2, <2>3, <2>4
<1>7. left * total <= total * q + (total - 1) * n
  <2>1. PICK k \in Int : k = SumFunctionOnSet(scaled, S)
    BY <1>6
  <2> HIDE DEF above, scaled, slack
  <2> QED
    BY <1>3, <1>4, <1>5, <1>6, <2>1
<1>8. left <= q + n - 1
  <2>1. SUFFICES ASSUME left >= q + n PROVE FALSE
    OBVIOUS
  <2>2. total * (q + n) <= left * total
    BY <2>1
  <2>3. total * (q + n) = total * q + total * n /\ (total - 1) * n = total * n - n
    OBVIOUS
  <2> QED
    BY <1>7, <2>2, <2>3
<1> QED
  BY <1>2, <1>8

\* start_cancel pays the owner out, or fixes the refunds: in full with a
\* residual for the owner, or scaled down to what is left.
LEMMA StartCancelMoves ==
  ASSUME StorageTypes, SafetyInv, RegistryInv, LedgerInv, NEW e \in EventIds,
         NEW op \in OpIds, StartCancel(e, op)
  PROVE  (\E d \in Nat : Pays(e, d)) \/ Rounds(e)
<1> USE DEF StorageTypes
<1> DEFINE total     == non_owner_total[e]
           remaining == remaining_escrow[e]
           branch    == Branch(total, remaining)
           opened    == [non_owner_total |-> total,
                         remaining_at_start |-> remaining,
                         count_at_start |-> Len(contributors[e]), next_idx |-> 0,
                         branch |-> branch]
<1>1. /\ status[e] = "Active" /\ EventExists(e)
      /\ UNCHANGED <<terms, contributors, contributed, unclaimed_refund>>
  BY Zenon DEF StartCancel, UnchangedByCancel, IsActive
<1>2. /\ total \in Nat /\ remaining \in Nat
      /\ contributors[e] \in Seq(Users)
      /\ status \in [EventIds -> Statuses]
  BY DEF RecordTypes, ContributionTypes
<1>3. \/ /\ branch = "OwnerOnly"
         /\ IF remaining > 0
            THEN Release(Token(e), Owner(e), remaining)
            ELSE UNCHANGED balance
         /\ remaining_escrow' = [remaining_escrow EXCEPT ![e] = 0]
         /\ status' = [status EXCEPT ![e] = "Cancelled"]
         /\ UNCHANGED cancellation
      \/ /\ branch # "OwnerOnly"
         /\ cancellation' = [cancellation EXCEPT ![e] = opened]
         /\ status' = [status EXCEPT ![e] = "Cancelling"]
         /\ UNCHANGED <<balance, remaining_escrow>>
  BY Zenon DEF StartCancel
<1>4. \A x \in EventIds \ {e} : SameMoney(x)
  BY <1>1, <1>3 DEF SameMoney, RecordTypes, CancelTypes
<1>5. /\ HeldRefunds(e)' = HeldRefunds(e) /\ HeldRefunds(e) \in Nat
      /\ PoolOf(e) = HeldRefunds(e) + remaining
      /\ EventExists(e)' /\ Token(e)' = Token(e)
      /\ Token(e) \in Tokens /\ Owner(e) \in Users
  BY <1>1, HeldSum, OpenPool, TermsTyped
  DEF HeldRefunds, EventExists, Token, LedgerInv
<1>6. CASE /\ IF remaining > 0
              THEN Release(Token(e), Owner(e), remaining)
              ELSE UNCHANGED balance
           /\ status' = [status EXCEPT ![e] = "Cancelled"]
  <2>1. status'[e] = "Cancelled"
    BY <1>2, <1>6
  <2>2. PoolOf(e)' = HeldRefunds(e)' + 0
    BY <1>5, <2>1 DEF PoolOf, Liability
  <2> HIDE DEF remaining
  <2>3. LedgerTypes' /\ VaultMoves(Token(e), -remaining)
    <3>1. CASE remaining > 0
      BY <1>2, <1>5, <1>6, <3>1, ReleaseMoves DEF LedgerInv
    <3>2. CASE remaining = 0
      <4>1. LedgerTypes' /\ VaultMoves(Token(e), 0)
        BY <1>6, <3>2, NoTokensMove DEF LedgerInv
      <4> QED
        BY <3>2, <4>1
    <3> QED
      BY <1>2, <3>1, <3>2
  <2>4. PoolOf(e)' = PoolOf(e) + -remaining
    BY <1>2, <1>5, <2>2
  <2>5. Pays(e, remaining)
    BY <1>1, <1>4, <1>5, <2>1, <2>3, <2>4 DEF Pays, Books
  <2> QED
    BY <1>2, <2>5
<1>7. CASE /\ branch # "OwnerOnly"
           /\ cancellation' = [cancellation EXCEPT ![e] = opened]
           /\ status' = [status EXCEPT ![e] = "Cancelling"]
           /\ UNCHANGED <<balance, remaining_escrow>>
  <2> DEFINE slot  == contributors[e]
             slots == 0 + 1 .. Len(slot)
             given == [i \in DOMAIN slot |-> contributed[e][slot[i]]]
             due   == [i \in slots |-> Payout(opened, contributed[e][slot[i]])]
  <2>1. status'[e] = "Cancelling" /\ cancellation'[e] = opened
    BY <1>2, <1>7 DEF CancelTypes
  <2>2. slots = DOMAIN slot /\ IsFiniteSet(slots)
    <3>1. PICK n \in Nat : Len(slot) = n /\ DOMAIN slot = 1 .. n
      BY <1>2
    <3>2. IsFiniteSet(1 .. n)
      BY FS_Interval
    <3>3. slots = 1 .. n
      BY <3>1
    <3> QED
      BY <3>1, <3>2, <3>3
  <2>3. /\ \A i \in slots : given[i] \in Nat /\ given[i] = contributed[e][slot[i]]
        /\ SumFunctionOnSet(given, slots) = total
    BY <1>1, <2>2, RegistryTotal
  <2>4. OutstandingRefunds(e)' = SumFunctionOnSet(due, slots)
    <3>1. /\ cancellation'[e].next_idx = 0
          /\ cancellation'[e].count_at_start = Len(slot)
      BY <2>1
    <3>2. contributors' = contributors /\ contributed' = contributed
      BY <1>1
    <3>3. OutstandingRefunds(e)' = SumFunction(due)
      BY <2>1, <3>1, <3>2, Zenon DEF OutstandingRefunds
    <3> QED
      BY <3>3 DEF SumFunction
  <2>5. Liability(e)' = HeldRefunds(e)' + (SumFunctionOnSet(due, slots)
                                             + OwnerResidual(opened))
    BY <2>1, <2>4 DEF Liability
  <2>6. SumFunctionOnSet(due, slots) + OwnerResidual(opened) <= remaining
        /\ SumFunctionOnSet(due, slots) \in Nat /\ OwnerResidual(opened) \in Int
    <3>1. CASE branch = "FullPartnerThenResidual"
      <4>1. \A i \in slots : due[i] = given[i]
        BY <2>3, <3>1 DEF Payout
      <4>2. OwnerResidual(opened) = remaining - total
        BY <3>1 DEF OwnerResidual
      <4> HIDE DEF due, given, slots, opened, total, remaining
      <4>3. SumFunctionOnSet(due, slots) = SumFunctionOnSet(given, slots)
        <5>1. \A i \in slots : given[i] \in Int
          BY <2>3
        <5> QED BY <2>2, <4>1, <5>1, SumSame
      <4> QED
        BY <1>2, <2>3, <4>2, <4>3
    <3>2. CASE branch = "ProRataPartners"
      <4>1. total > 0 /\ total \in Nat \ {0}
        BY <1>2, <3>2 DEF Branch
      <4>2. \A i \in slots : due[i] = SaturatingMul(given[i], remaining) \div total
        BY <2>3, <3>2 DEF Payout
      <4>3. OwnerResidual(opened) = 0
        BY <3>2 DEF OwnerResidual
      <4> HIDE DEF due, given, slots, opened, total, remaining
      <4>4. /\ SumFunctionOnSet(due, slots) \in Nat
            /\ SumFunctionOnSet(due, slots) <= remaining
        BY <1>2, <2>2, <2>3, <4>1, <4>2, ScaledDown
      <4> QED
        BY <1>2, <4>3, <4>4
    <3>3. branch = "FullPartnerThenResidual" \/ branch = "ProRataPartners"
      BY <1>2, <1>7 DEF Branch
    <3> QED
      BY <3>1, <3>2, <3>3
  <2>7. total # 0 /\ RoundingLoss(e)' = Cardinality(slots) - 1
        /\ Cardinality(slots) \in Nat \ {0}
    <3>1. total # 0
      BY <1>2, <1>7 DEF Branch
    <3>2. PICK n \in Nat : Len(slot) = n /\ DOMAIN slot = 1 .. n
      BY <1>2
    <3>3. slots = 1 .. n
      BY <3>2
    <3>4. Cardinality(slots) = n
      <4>1. Cardinality(1 .. n) = IF 1 > n THEN 0 ELSE n - 1 + 1
        BY FS_Interval
      <4>2. Cardinality(slots) = Cardinality(1 .. n)
        BY <3>3
      <4> HIDE DEF slots
      <4> QED
        BY <4>1, <4>2
    <3>5. n # 0
      <4>1. SUFFICES ASSUME n = 0 PROVE FALSE
        OBVIOUS
      <4>2. slots = {}
        BY <3>3, <4>1
      <4> HIDE DEF given, slots
      <4> QED
        BY <2>3, <3>1, <4>2, SumEmpty
    <3>6. contributors'[e] = slot /\ slot # << >>
      BY <1>1, <1>2, <3>2, <3>5
    <3>7. RoundingLoss(e)' = Len(slot) - 1
      BY <2>1, <3>6 DEF RoundingLoss
    <3> QED
      BY <3>1, <3>2, <3>4, <3>5, <3>7
  <2>8. ProductsFit(e) =>
          remaining <= SumFunctionOnSet(due, slots) + OwnerResidual(opened)
                         + (Cardinality(slots) - 1)
    <3>1. CASE branch = "FullPartnerThenResidual"
      <4>1. \A i \in slots : due[i] = given[i]
        BY <2>3, <3>1 DEF Payout
      <4>2. OwnerResidual(opened) = remaining - total
        BY <3>1 DEF OwnerResidual
      <4> HIDE DEF due, given, slots, opened, total, remaining
      <4>3. SumFunctionOnSet(due, slots) = SumFunctionOnSet(given, slots)
        <5>1. \A i \in slots : given[i] \in Int
          BY <2>3
        <5> QED BY <2>2, <4>1, <5>1, SumSame
      <4> QED
        BY <1>2, <2>3, <2>7, <4>2, <4>3
    <3>2. CASE branch = "ProRataPartners" /\ ProductsFit(e)
      <4>1. total \in Nat \ {0}
        BY <1>2, <2>7
      <4>2. \A i \in slots : due[i] = SaturatingMul(given[i], remaining) \div total
        BY <2>3, <3>2 DEF Payout
      <4>3. OwnerResidual(opened) = 0
        BY <3>2 DEF OwnerResidual
      <4>4. \A i \in slots : given[i] * remaining <= MaxI128
        <5>1. \A i \in slots : slot[i] \in Users
          BY <1>2, <2>2
        <5> QED
          BY <2>3, <3>2, <5>1 DEF ProductsFit
      <4>5. \A i \in slots : given[i] \in Nat
        BY <2>3
      <4> HIDE DEF due, given, slots, opened, total, remaining
      <4>6. PICK n \in Nat \ {0} : n = Cardinality(slots)
        BY <2>7
      <4>7. /\ SumFunctionOnSet(due, slots) \in Nat
            /\ remaining <= SumFunctionOnSet(due, slots) + n - 1
        <5>1. SumFunctionOnSet(given, slots) = total
          BY <2>3
        <5>2. SumFunctionOnSet(due, slots) \in Nat
          BY <2>6
        <5>3. IsFiniteSet(slots) /\ remaining \in Nat
          BY <1>2, <2>2
        <5> QED
          BY <4>1, <4>2, <4>4, <4>5, <4>6, <5>1, <5>2, <5>3, ScaledDownByUnits
      <4> QED
        BY <1>2, <4>3, <4>6, <4>7
    <3>3. branch = "FullPartnerThenResidual" \/ branch = "ProRataPartners"
      BY <1>2, <1>7 DEF Branch
    <3> QED
      BY <3>1, <3>2, <3>3
  <2> HIDE DEF due, slots, opened, remaining
  <2>9. PoolOf(e)' <= PoolOf(e)
    BY <1>2, <1>5, <2>5, <2>6 DEF PoolOf
  <2>10. RoundsByUnits(e)
    <3>1. PoolOf(e)' = HeldRefunds(e)' + (SumFunctionOnSet(due, slots)
                                            + OwnerResidual(opened))
      BY <1>5, <2>5 DEF PoolOf
    <3> QED
      BY <1>2, <1>5, <2>6, <2>7, <2>8, <3>1 DEF RoundsByUnits
  <2> QED
    BY <1>1, <1>4, <1>7, <2>1, <2>9, <2>10 DEF Rounds
<1> QED
  BY <1>3, <1>6, <1>7

\* finalize_cancel pays the owner the residual; no refund is outstanding.
LEMMA FinalizeCancelPays ==
  ASSUME StorageTypes, SafetyInv, LedgerInv, NEW e \in EventIds,
         NEW op \in OpIds, FinalizeCancel(e, op)
  PROVE  \E d \in Nat : Pays(e, d)
<1> USE DEF StorageTypes
<1> DEFINE c == cancellation[e]
           residual == OwnerResidual(c)
<1>1. /\ status[e] = "Cancelling" /\ EventExists(e) /\ c # None
      /\ c.next_idx >= c.count_at_start
      /\ IF residual > 0
         THEN Release(Token(e), Owner(e), residual)
         ELSE UNCHANGED balance
      /\ remaining_escrow' = [remaining_escrow EXCEPT ![e] = 0]
      /\ status' = [status EXCEPT ![e] = "Cancelled"]
      /\ cancellation' = [cancellation EXCEPT ![e] = None]
      /\ UNCHANGED <<terms, contributors, contributed, unclaimed_refund>>
  BY Zenon DEF FinalizeCancel, UnchangedByCancel
<1>2. \A x \in EventIds \ {e} : SameMoney(x)
  BY <1>1 DEF SameMoney, RecordTypes, CancelTypes
<1>3. residual \in Nat /\ c \in CancellationState
  BY <1>1, OutstandingSum
<1>4. OutstandingRefunds(e) = 0
  <2>1. c.next_idx \in Nat /\ c.count_at_start \in Nat
    BY <1>3 DEF CancellationState
  <2>2. c.next_idx + 1 .. c.count_at_start = {}
    BY <1>1, <2>1
  <2> QED
    BY <1>1, <2>2, OutstandingSum, SumEmpty
<1>5. /\ HeldRefunds(e)' = HeldRefunds(e) /\ HeldRefunds(e) \in Nat
      /\ EventExists(e)' /\ Token(e)' = Token(e)
      /\ Token(e) \in Tokens /\ Owner(e) \in Users
  BY <1>1, HeldSum, TermsTyped DEF HeldRefunds, EventExists, Token, LedgerInv
<1>6. status'[e] = "Cancelled"
  BY <1>1 DEF RecordTypes
<1>7. PoolOf(e)' = HeldRefunds(e)' + 0
  BY <1>5, <1>6 DEF PoolOf, Liability
<1>8. PoolOf(e) = HeldRefunds(e) + (0 + residual)
  BY <1>1, <1>4 DEF PoolOf, Liability
<1> HIDE DEF residual
<1>9. LedgerTypes' /\ VaultMoves(Token(e), -residual)
  <2>1. CASE residual > 0
    BY <1>1, <1>3, <1>5, <2>1, ReleaseMoves DEF LedgerInv
  <2>2. CASE residual = 0
    <3>1. LedgerTypes' /\ VaultMoves(Token(e), 0)
      BY <1>1, <2>2, NoTokensMove DEF LedgerInv
    <3> QED
      BY <2>2, <3>1
  <2> QED
    BY <1>3, <2>1, <2>2
<1>10. PoolOf(e)' = PoolOf(e) + -residual
  BY <1>3, <1>5, <1>7, <1>8
<1>11. Pays(e, residual)
  BY <1>1, <1>2, <1>5, <1>6, <1>9, <1>10 DEF Pays, Books
<1> QED
  BY <1>3, <1>11

\* What a batch pays and what it sets aside together is what its slots were due.
LEMMA BatchSums ==
  ASSUME StorageTypes, SafetyInv, RegistryInv, NEW e \in EventIds,
         NEW max \in BatchSizes, NEW op \in OpIds, ProcessCancelBatch(e, max, op)
  PROVE  LET batch == {u \in Batch(e, max) : contributed[e][u] > 0}
             paid  == batch \ refusing
             spent == SumFunction([u \in paid |-> Refund(e, u)])
         IN  /\ spent \in Nat
             /\ \A u \in paid : Refund(e, u) \in Nat
             /\ paid \subseteq Users
             /\ HeldRefunds(e)' \in Nat /\ OutstandingRefunds(e)' \in Nat
             /\ HeldRefunds(e)' + OutstandingRefunds(e)'
                  = HeldRefunds(e) + OutstandingRefunds(e) - spent
<1> USE DEF StorageTypes
<1> DEFINE c     == cancellation[e]
           next  == c.next_idx
           stop  == CursorAfter(c, max)
           slot  == contributors[e]
           batch == {u \in Batch(e, max) : contributed[e][u] > 0}
           paid  == batch \ refusing
           held  == batch \ paid
           ref   == [u \in Users |-> Refund(e, u)]
           refp  == [u \in paid |-> Refund(e, u)]
           spent == SumFunction(refp)
           old   == unclaimed_refund[e]
           new   == unclaimed_refund'[e]
           extra == [u \in Users |-> IF u \in held THEN ref[u] ELSE 0]
           due   == [i \in next + 1 .. c.count_at_start |->
                       Payout(c, contributed[e][slot[i]])]
           left  == [i \in stop + 1 .. c.count_at_start |->
                       Payout(cancellation'[e], contributed'[e][slot[i]])]
<1>1. /\ status[e] = "Cancelling" /\ c # None /\ EventExists(e)
      /\ cancellation' = [cancellation EXCEPT ![e].next_idx = stop]
      /\ unclaimed_refund' = [unclaimed_refund EXCEPT ![e] =
            [u \in Users |-> IF u \in held THEN @[u] + Refund(e, u)
                                           ELSE @[u]]]
      /\ UNCHANGED <<terms, status, contributors>>
  BY Zenon DEF ProcessCancelBatch, UnchangedByCancel
<1>2. /\ next \in Nat /\ stop \in Nat /\ stop <= Len(slot) /\ next <= stop
      /\ slot \in Seq(Users) /\ \A i, j \in DOMAIN slot : slot[i] = slot[j] => i = j
      /\ Batch(e, max) = {slot[i] : i \in next + 1 .. stop}
      /\ Batch(e, max) \subseteq Users
      /\ \A i \in DOMAIN slot : slot[i] \in Batch(e, max) <=> i \in next + 1 .. stop
      /\ \A i \in DOMAIN slot : contributed[e][slot[i]] = 0 <=> i <= next
      /\ \A u \in Users : contributed'[e][u]
                     = IF u \in Batch(e, max) THEN 0 ELSE contributed[e][u]
  BY BatchContributions
<1>3. /\ c \in CancellationState /\ c.count_at_start = Len(slot)
      /\ \A i \in next + 1 .. c.count_at_start : due[i] \in Nat
      /\ OutstandingRefunds(e)
           = SumFunctionOnSet(due, next + 1 .. c.count_at_start)
      /\ OutstandingRefunds(e) \in Nat
  BY <1>1, OutstandingSum
<1>4. \A u \in Users : contributed[e][u] \in Nat /\ Refund(e, u) \in Nat
  BY <1>3, PayoutTyped DEF Refund, ContributionTypes
<1>5. /\ cancellation'[e] = [c EXCEPT !.next_idx = stop]
      /\ cancellation'[e].next_idx = stop
      /\ cancellation'[e].count_at_start = c.count_at_start
      /\ \A amt : Payout(cancellation'[e], amt) = Payout(c, amt)
  <2>1. cancellation'[e] = [c EXCEPT !.next_idx = stop]
    BY <1>1 DEF CancelTypes
  <2> HIDE DEF c, stop
  <2>2. DOMAIN c = {"non_owner_total", "remaining_at_start", "count_at_start",
                    "next_idx", "branch"}
    BY <1>3 DEF CancellationState
  <2>3. /\ cancellation'[e].next_idx = stop
        /\ cancellation'[e].count_at_start = c.count_at_start
        /\ cancellation'[e].branch = c.branch
        /\ cancellation'[e].remaining_at_start = c.remaining_at_start
        /\ cancellation'[e].non_owner_total = c.non_owner_total
    BY <1>3, <2>1 DEF CancellationState
  <2> QED
    BY <2>1, <2>3 DEF Payout
<1>6. batch = Batch(e, max)
  <2>1. ASSUME NEW i \in next + 1 .. stop PROVE contributed[e][slot[i]] > 0
    <3> HIDE DEF next, stop, slot
    <3>1. i \in DOMAIN slot /\ ~(i <= next) /\ slot[i] \in Users
      BY <1>2
    <3> QED
      BY <1>2, <1>4, <3>1
  <2> QED
    BY <1>2, <2>1
<1>7. /\ IsFiniteSet(batch) /\ batch \subseteq Users
      /\ paid \subseteq Users /\ held \subseteq Users
      /\ IsFiniteSet(paid) /\ IsFiniteSet(held)
      /\ paid \cap held = {} /\ paid \cup held = batch
  <2> HIDE DEF batch
  <2>1. batch \subseteq Users
    BY <1>2, <1>6
  <2>2. paid \subseteq Users /\ held \subseteq Users
    BY <2>1
  <2> QED
    BY <2>1, <2>2, FinitenessAssumption, FS_Subset
<1> HIDE DEF batch, paid, held
<1>8. \A u \in Users : ref[u] \in Nat /\ ref[u] = Refund(e, u)
  BY <1>4
<1>9. spent = SumFunctionOnSet(ref, paid) /\ spent \in Nat
  <2>1. spent = SumFunctionOnSet(refp, paid)
    BY DEF SumFunction
  <2>2. \A u \in paid : ref[u] \in Nat /\ refp[u] = ref[u]
    BY <1>7, <1>8
  <2> HIDE DEF ref, refp, spent
  <2>3. SumFunctionOnSet(ref, paid) \in Nat
    BY <1>7, <2>2, SumNat
  <2>4. \A u \in paid : ref[u] \in Int /\ refp[u] = ref[u]
    BY <2>2
  <2>5. SumFunctionOnSet(refp, paid) = SumFunctionOnSet(ref, paid)
    BY <1>7, <2>4, SumSame
  <2> QED
    BY <2>1, <2>3, <2>5
<1>10. /\ HeldRefunds(e)' = HeldRefunds(e) + SumFunctionOnSet(ref, held)
       /\ HeldRefunds(e) \in Nat /\ SumFunctionOnSet(ref, held) \in Nat
  <2>1. old \in [Users -> Nat]
    BY DEF CancelTypes
  <2>2. new = [u \in Users |-> IF u \in held THEN old[u] + Refund(e, u) ELSE old[u]]
    BY <1>1 DEF CancelTypes
  <2>3. /\ \A u \in Users : old[u] \in Int /\ extra[u] \in Int
                            /\ new[u] = old[u] + extra[u]
        /\ DOMAIN new = Users
    BY <1>8, <2>1, <2>2
  <2>4. /\ \A u \in held : ref[u] \in Int /\ extra[u] = ref[u]
        /\ \A u \in Users \ held : extra[u] = 0
        /\ \A u \in held : ref[u] \in Nat
    BY <1>7, <1>8
  <2>5. HeldRefunds(e) = SumFunctionOnSet(old, Users) /\ HeldRefunds(e) \in Nat
    BY HeldSum
  <2>6. HeldRefunds(e)' = SumFunctionOnSet(new, Users)
    BY <2>3 DEF HeldRefunds, SumFunction
  <2> HIDE DEF old, new, extra, ref
  <2>7. SumFunctionOnSet(new, Users)
          = SumFunctionOnSet(old, Users) + SumFunctionOnSet(extra, Users)
    BY <2>3, FinitenessAssumption, SumPlus
  <2>8. SumFunctionOnSet(extra, Users) = SumFunctionOnSet(ref, held)
    BY <1>7, <2>4, FinitenessAssumption, SumWhere
  <2>9. SumFunctionOnSet(ref, held) \in Nat
    BY <1>7, <2>4, SumNat
  <2> QED
    BY <2>5, <2>6, <2>7, <2>8, <2>9
<1>11. SumFunctionOnSet(ref, paid) + SumFunctionOnSet(ref, held)
         = SumFunctionOnSet(ref, batch)
  <2>1. \A u \in paid \cup held : ref[u] \in Int
    BY <1>7, <1>8
  <2> HIDE DEF ref
  <2> QED
    BY <1>7, <2>1, SumUnion
<1> DEFINE n == c.count_at_start
           first == next + 1 .. stop
           rest  == stop + 1 .. n
<1>12. /\ n \in Nat /\ IsFiniteSet(first) /\ IsFiniteSet(rest)
       /\ first \cap rest = {} /\ first \cup rest = next + 1 .. n
       /\ first \subseteq DOMAIN slot /\ rest \subseteq DOMAIN slot
       /\ \A i \in first : i > next
       /\ \A i \in rest : i \notin first
  <2>1. n \in Nat /\ stop <= n /\ DOMAIN slot = 1 .. n
    BY <1>2, <1>3
  <2> HIDE DEF next, stop, n, slot
  <2>2. next + 1 \in Int /\ stop + 1 \in Int /\ stop \in Int /\ n \in Int
    BY <1>2, <2>1
  <2>3. IsFiniteSet(first) /\ IsFiniteSet(rest)
    BY <2>2, FS_Interval
  <2>4. first \cap rest = {} /\ first \cup rest = next + 1 .. n
    BY <1>2, <2>1
  <2> QED
    BY <1>2, <2>1, <2>3, <2>4
<1>13. OutstandingRefunds(e)' = SumFunctionOnSet(left, rest)
  <2>1. contributors' = contributors
    BY <1>1
  <2>2. OutstandingRefunds(e)' = SumFunction(left)
    BY <1>5, <2>1, Zenon DEF OutstandingRefunds
  <2> QED
    BY <2>2 DEF SumFunction
<1>14. \A i \in rest : left[i] = due[i]
  <2> SUFFICES ASSUME NEW i \in rest PROVE left[i] = due[i]
    OBVIOUS
  <2>1. i \in next + 1 .. n
    BY <1>12
  <2>2. slot[i] \in Users /\ slot[i] \notin Batch(e, max)
    BY <1>2, <1>12
  <2>3. contributed'[e][slot[i]] = contributed[e][slot[i]]
    BY <1>2, <2>2
  <2> QED
    BY <1>5, <2>1, <2>3
<1>15. \A i \in first : /\ ref[slot[i]] \in Int /\ due[i] = ref[slot[i]]
  <2> SUFFICES ASSUME NEW i \in first
               PROVE  ref[slot[i]] \in Int /\ due[i] = ref[slot[i]]
    OBVIOUS
  <2>1. i \in next + 1 .. n /\ slot[i] \in Users
    BY <1>2, <1>12
  <2> QED
    BY <1>8, <2>1 DEF Refund
<1>16. \A i, j \in first : slot[i] = slot[j] => i = j
  BY <1>2, <1>12
<1>17. batch = {slot[i] : i \in first}
  BY <1>2, <1>6
<1>18. \A i \in first \cup rest : due[i] \in Int
  BY <1>3, <1>12
<1>19. /\ OutstandingRefunds(e) = SumFunctionOnSet(due, first \cup rest)
       /\ OutstandingRefunds(e) \in Nat
  BY <1>3, <1>12
<1>191. \A i \in rest : due[i] \in Nat
  BY <1>3, <1>12
<1> HIDE DEF first, rest, due, left, ref, slot
<1>20. SumFunctionOnSet(due, first \cup rest)
         = SumFunctionOnSet(due, first) + SumFunctionOnSet(due, rest)
  BY <1>12, <1>18, SumUnion
<1>21. SumFunctionOnSet(due, first) = SumFunctionOnSet(ref, batch)
  BY <1>12, <1>15, <1>16, <1>17, SumImage
<1>22. SumFunctionOnSet(left, rest) = SumFunctionOnSet(due, rest)
  BY <1>12, <1>14, <1>18, SumSame
<1>23. SumFunctionOnSet(due, rest) \in Nat
  BY <1>12, <1>191, SumNat
<1> HIDE DEF spent
<1>24. /\ HeldRefunds(e)' \in Nat /\ OutstandingRefunds(e)' \in Nat
       /\ HeldRefunds(e)' + OutstandingRefunds(e)'
            = HeldRefunds(e) + OutstandingRefunds(e) - spent
  BY <1>9, <1>10, <1>11, <1>13, <1>19, <1>20, <1>21, <1>22, <1>23
<1> QED
  BY <1>4, <1>7, <1>9, <1>24 DEF spent, paid, batch

\* process_cancel_batch pays what it pays; a refused refund stays in the pool.
LEMMA ProcessCancelBatchPays ==
  ASSUME StorageTypes, SafetyInv, RegistryInv, LedgerInv, NEW e \in EventIds,
         NEW max \in BatchSizes, NEW op \in OpIds, ProcessCancelBatch(e, max, op)
  PROVE  \E d \in Nat : Pays(e, d)
<1> USE DEF StorageTypes
<1> DEFINE c     == cancellation[e]
           stop  == CursorAfter(c, max)
           batch == {u \in Batch(e, max) : contributed[e][u] > 0}
           paid  == batch \ refusing
           spent == SumFunction([u \in paid |-> Refund(e, u)])
           b     == balance[Token(e)]
           last  == [h \in Holders |-> CASE h = Contract -> b[h] - spent
                                         [] h \in paid   -> b[h] + Refund(e, h)
                                         [] OTHER        -> b[h]]
<1>1. /\ status[e] = "Cancelling" /\ c # None /\ EventExists(e)
      /\ cancellation' = [cancellation EXCEPT ![e].next_idx = stop]
      /\ balance' = [balance EXCEPT ![Token(e)] = last]
      /\ UNCHANGED <<terms, status, remaining_escrow, contributors>>
  BY Zenon DEF ProcessCancelBatch, UnchangedByCancel
<1>2. /\ \E f : contributed' = [contributed EXCEPT ![e] = f]
      /\ \E f : unclaimed_refund' = [unclaimed_refund EXCEPT ![e] = f]
  BY Zenon DEF ProcessCancelBatch
<1>3. /\ spent \in Nat /\ \A u \in paid : Refund(e, u) \in Nat
      /\ paid \subseteq Users
      /\ HeldRefunds(e)' \in Nat /\ OutstandingRefunds(e)' \in Nat
      /\ HeldRefunds(e)' + OutstandingRefunds(e)'
           = HeldRefunds(e) + OutstandingRefunds(e) - spent
  BY BatchSums
<1>4. \A x \in EventIds \ {e} : SameMoney(x)
  <2> HIDE DEF stop
  <2>1. \A x \in EventIds \ {e} :
          /\ contributed'[x] = contributed[x]
          /\ unclaimed_refund'[x] = unclaimed_refund[x]
          /\ cancellation'[x] = cancellation[x]
    BY <1>1, <1>2 DEF ContributionTypes, CancelTypes
  <2> QED
    BY <1>1, <2>1 DEF SameMoney
<1>5. c \in CancellationState /\ OwnerResidual(c) \in Nat /\ OutstandingRefunds(e) \in Nat
  BY <1>1, OutstandingSum
<1>6. OwnerResidual(cancellation'[e]) = OwnerResidual(c)
  <2>1. cancellation'[e] = [c EXCEPT !.next_idx = stop]
    BY <1>1 DEF CancelTypes
  <2> HIDE DEF c, stop
  <2>2. /\ cancellation'[e].branch = c.branch
        /\ cancellation'[e].remaining_at_start = c.remaining_at_start
        /\ cancellation'[e].non_owner_total = c.non_owner_total
    BY <1>5, <2>1 DEF CancellationState
  <2> QED
    BY <2>2 DEF OwnerResidual
<1> HIDE DEF spent, paid
<1>7. EventExists(e)' /\ Token(e)' = Token(e) /\ Token(e) \in Tokens
  BY <1>1, TermsTyped DEF EventExists, Token, LedgerInv
<1>8. PoolOf(e)' = PoolOf(e) + -spent
  <2>1. PoolOf(e) = HeldRefunds(e) + (OutstandingRefunds(e) + OwnerResidual(c))
    BY <1>1 DEF PoolOf, Liability
  <2>2. PoolOf(e)' = HeldRefunds(e)'
                       + (OutstandingRefunds(e)' + OwnerResidual(cancellation'[e]))
    BY <1>1, <1>7 DEF PoolOf, Liability
  <2>3. PICK h0 \in Nat, o0 \in Nat, h1 \in Nat, o1 \in Nat, r \in Nat :
          /\ h0 = HeldRefunds(e) /\ o0 = OutstandingRefunds(e)
          /\ h1 = HeldRefunds(e)' /\ o1 = OutstandingRefunds(e)'
          /\ r = OwnerResidual(c)
    BY <1>3, <1>5, HeldSum
  <2>4. h1 + o1 = h0 + o0 - spent
    BY <1>3, <2>3
  <2>5. PoolOf(e) = h0 + (o0 + r) /\ PoolOf(e)' = h1 + (o1 + r)
    BY <1>6, <2>1, <2>2, <2>3
  <2> QED
    BY <1>3, <2>4, <2>5
<1>9. LedgerTypes' /\ VaultMoves(Token(e), -spent)
  <2>1. b \in [Holders -> Int] /\ \A h \in Users \cup {FeeAccount} : b[h] >= 0
    BY <1>7 DEF LedgerInv, LedgerTypes
  <2> HIDE DEF b
  <2>2. Contract \notin paid
    BY <1>3, Accounts
  <2>3. last \in [Holders -> Int]
    BY <1>3, <2>1
  <2>4. /\ last[Contract] = b[Contract] + -spent
        /\ \A h \in Users \cup {FeeAccount} : last[h] >= 0
    <3>1. last[Contract] = b[Contract] - spent /\ b[Contract] \in Int
      BY <2>1, <2>2, Accounts
    <3>2. ASSUME NEW h \in Users \cup {FeeAccount} PROVE last[h] >= 0
      <4>1. h \in Holders /\ h # Contract /\ b[h] \in Int /\ b[h] >= 0
        BY <2>1, Accounts
      <4>2. last[h] = IF h \in paid THEN b[h] + Refund(e, h) ELSE b[h]
        BY <4>1
      <4> QED
        BY <1>3, <4>1, <4>2
    <3> QED
      BY <1>3, <3>1, <3>2
  <2> HIDE DEF last
  <2>5. /\ last[Contract] = balance[Token(e)][Contract] + -spent
        /\ balance' = [balance EXCEPT ![Token(e)] = last] /\ -spent \in Int
    BY <1>1, <1>3, <2>4 DEF b
  <2> QED
    BY <1>7, <2>3, <2>4, <2>5, OneTokenMoves DEF LedgerInv
<1>10. Pays(e, spent)
  BY <1>1, <1>4, <1>7, <1>8, <1>9 DEF Pays, Books
<1> QED
  BY <1>3, <1>10

-----------------------------------------------------------------------------
\* Every step moves money in one of these ways and keeps the ledger in order.
LEMMA NextMoves ==
  ASSUME StorageTypes, SafetyInv, RegistryInv, LedgerInv, [Next]_vars
  PROVE  MoneyStep
<1>1. ASSUME UNCHANGED <<terms, status, remaining_escrow, contributionVars,
                         cancelVars, balance>>
      PROVE  MoneyStep
  <2>1. NoMoney
    BY <1>1 DEF NoMoney, SameMoney, contributionVars, cancelVars
  <2> QED
    BY <2>1 DEF MoneyStep
<1>2. CASE FundingNext
  <2>1. ASSUME NEW e \in EventIds,
               \/ \E target \in ManagerTargets : ProposeManager(e, target)
               \/ AcceptManager(e)
               \/ CancelPendingManager(e)
               \/ ReclaimManagement(e)
        PROVE  MoneyStep
    BY <1>1, <2>1 DEF ProposeManager, AcceptManager, CancelPendingManager,
                      ReclaimManagement, UnchangedButManagers
  <2>2. ASSUME NEW params \in EventParams, NEW op \in OpIds,
               CreateEvent(params, op)
        PROVE  MoneyStep
    BY <2>2, CreateEventBooks DEF MoneyStep, Opens
  <2>3. ASSUME NEW e \in EventIds, NEW from \in Users,
               NEW amount \in Contributions, NEW op \in OpIds,
               AddFunds(e, from, amount, op)
        PROVE  MoneyStep
    BY <2>3, AddFundsBooks DEF MoneyStep, Funds, IsActive
  <2> QED
    BY <1>2, <2>1, <2>2, <2>3 DEF FundingNext
<1>3. CASE CancellationNext
  BY <1>3, StartCancelMoves, ProcessCancelBatchPays, FinalizeCancelPays,
     ClaimRefundPays DEF CancellationNext, MoneyStep
<1>4. CASE AwardsNext
  <2>1. ASSUME NEW e \in EventIds, NEW batch \in WinnerBatches, NEW op \in OpIds,
               SelectPrizes(e, batch, op) \/ SelectGrantees(e, batch, op)
        PROVE  MoneyStep
    BY <1>1, <2>1 DEF SelectPrizes, SelectGrantees, UnchangedBySelection
  <2> QED
    BY <1>4, <2>1, ClaimPrizePays DEF AwardsNext, MoneyStep
<1>5. CASE GrantsNext
  <2>1. ASSUME NEW e \in EventIds, NEW r, NEW m, NEW op,
               ForfeitMilestone(e, r, m, op)
        PROVE  MoneyStep
    BY <1>1, <2>1 DEF ForfeitMilestone
  <2>2. PICK e \in EventIds, r \in Users, op \in OpIds, m \in Nat :
          \/ \E bump \in ReputationBumps : ClaimGrantMilestone(e, r, m, bump, op)
          \/ \E bump \in ReputationBumps : ClaimCampaignMilestone(e, r, m, bump, op)
          \/ ForfeitMilestone(e, r, m, op)
    BY <1>5, MilestoneInputsTyped DEF GrantsNext, StorageTypes
  <2> QED
    BY <2>1, <2>2, ClaimGrantMilestonePays, ClaimCampaignMilestonePays DEF MoneyStep
<1>6. CASE AdminNext \/ WorldNext
  BY <1>1, <1>6, SwitchesMoveNoEvent DEF eventVars
<1>7. CASE UNCHANGED vars
  BY <1>1, <1>7 DEF vars, eventVars
<1> QED
  BY <1>2, <1>3, <1>4, <1>5, <1>6, <1>7 DEF Next

\* The fee cap and the events' fee overrides hold: set_fee_bps and create_event
\* check them.
LEMMA NextFees ==
  ASSUME StorageTypes, FeesBounded, [Next]_vars
  PROVE  FeesBounded'
<1>1. ASSUME UNCHANGED <<terms, fee_bps>> PROVE FeesBounded'
  BY <1>1 DEF FeesBounded
<1>2. ASSUME NEW params \in EventParams, NEW op \in OpIds, CreateEvent(params, op)
      PROVE  FeesBounded'
  <2>1. /\ terms' = Append(terms, params) /\ UNCHANGED fee_bps
        /\ params.fee_override # None => params.fee_override <= MaxFeeBps
    BY <1>2, Zenon DEF CreateEvent, ambientVars, configVars
  <2> QED
    BY <2>1 DEF FeesBounded, StorageTypes, RecordTypes
<1>3. CASE FundingNext
  BY <1>1, <1>2, <1>3, ZenonT(30) DEF FundingNext, AddFunds, ProposeManager, AcceptManager,
     CancelPendingManager, ReclaimManagement, UnchangedButManagers,
     ambientVars, configVars
<1>4. CASE CancellationNext
  BY <1>1, <1>4, ZenonT(30) DEF CancellationNext, StartCancel, ProcessCancelBatch,
     FinalizeCancel, ClaimRefund, UnchangedByCancel, ambientVars, configVars
<1>5. CASE AwardsNext
  <2>1. ASSUME NEW e, NEW batch, NEW op,
               SelectPrizes(e, batch, op) \/ SelectGrantees(e, batch, op)
        PROVE  UNCHANGED <<terms, fee_bps>>
    BY <2>1, Zenon DEF SelectPrizes, SelectGrantees, UnchangedBySelection,
                       ambientVars, configVars
  <2>2. ASSUME NEW e, NEW p, NEW op, ClaimPrize(e, p, op)
        PROVE  UNCHANGED <<terms, fee_bps>>
    BY <2>2, Zenon DEF ClaimPrize, ambientVars, configVars
  <2> QED
    BY <1>1, <1>5, <2>1, <2>2, Zenon DEF AwardsNext
<1>6. CASE GrantsNext
  <2>1. ASSUME NEW e, NEW r, NEW m, NEW bump, NEW op,
               \/ ClaimGrantMilestone(e, r, m, bump, op)
               \/ ClaimCampaignMilestone(e, r, m, bump, op)
               \/ ForfeitMilestone(e, r, m, op)
        PROVE  UNCHANGED <<terms, fee_bps>>
    BY <2>1, Zenon DEF ClaimGrantMilestone, ClaimCampaignMilestone,
                       ForfeitMilestone, ambientVars, configVars
  <2> QED
    BY <1>1, <1>6, <2>1, Zenon DEF GrantsNext
<1>7. CASE AdminNext
  <2>1. UNCHANGED terms
    BY <1>7, SwitchesMoveNoEvent DEF eventVars
  <2>2. fee_bps' = fee_bps \/ fee_bps' <= MaxFeeBps
    BY <1>7 DEF AdminNext, Pause, Unpause, SetFeeBps, RegisterToken,
                DeregisterToken, configVars
  <2> QED
    BY <2>1, <2>2 DEF FeesBounded
<1>8. CASE WorldNext \/ UNCHANGED vars
  BY <1>1, <1>8 DEF WorldNext, Tick, Freeze, Thaw, UnchangedByWorld, vars,
                    eventVars, ambientVars, configVars
<1> QED
  BY <1>3, <1>4, <1>5, <1>6, <1>7, <1>8 DEF Next

\* No account but the contract's can be overdrawn and no fee exceeds the cap,
\* whatever calls move money (escrow.rs; admin.rs: set_fee_bps).
THEOREM LedgerInvariant == Spec => []LedgerInv
<1>1. Init => LedgerInv
  <2>1. Init => FeesBounded
    BY DEF Init, FeesBounded
  <2>2. Init => LedgerTypes
    BY StorageAssumption, AddressAssumption DEF Init, LedgerTypes, Holders
  <2> QED
    BY <2>1, <2>2 DEF LedgerInv
<1>2. StorageTypes /\ SafetyInv /\ RegistryInv /\ LedgerInv /\ [Next]_vars
        => LedgerInv'
  <2> SUFFICES ASSUME StorageTypes, SafetyInv, RegistryInv, LedgerInv, [Next]_vars
               PROVE  LedgerInv'
    OBVIOUS
  <2>1. MoneyStep
    BY NextMoves
  <2>2. LedgerTypes'
    BY <2>1 DEF MoneyStep, NoMoney, Opens, Funds, Pays, Rounds, Books,
                LedgerInv, LedgerTypes
  <2>3. FeesBounded'
    BY NextFees DEF LedgerInv
  <2> QED
    BY <2>2, <2>3 DEF LedgerInv
<1> QED
  BY <1>1, <1>2, StorageTyped, SafetyInvariant, RegistryInvariant, PTL DEF Spec

-----------------------------------------------------------------------------
(* Solvency                                                                *)

PoolsTyped == \A e \in EventIds : PoolOf(e) \in Nat

\* What the contract owes for an event is never negative: a cancelling event's
\* refunds neither overrun its snapshot nor its escrow (process_cancel_batch).
THEOREM PoolsAlwaysTyped == Spec => []PoolsTyped
<1>1. StorageTypes /\ SafetyInv => PoolsTyped
  BY LiabilityTyped DEF PoolsTyped
<1> QED
  BY <1>1, StorageTyped, SafetyInvariant, PTL

\* What is owed in token t, event by event.
OwedIn(t) ==
  [e \in EventIds |-> IF EventExists(e) /\ Token(e) = t THEN PoolOf(e) ELSE 0]

Owed(t) == SumFunctionOnSet(OwedIn(t), EventIds)

SolvencyInv == \A t \in Tokens : Owed(t) <= balance[t][Contract]

\* Sums over the events are over a finite set.
LEMMA EventIdsFinite == IsFiniteSet(EventIds)
BY StorageAssumption, FS_Interval DEF EventIds

\* A surplus is what the balance exceeds that sum by.
LEMMA SurplusOwed ==
  ASSUME PoolsTyped, NEW t \in Tokens
  PROVE  Surplus(t) = balance[t][Contract] - Owed(t)
<1> DEFINE D == {x \in Events : Token(x) = t}
           f == [e \in D |-> Liability(e)]
<1>1. D \in SUBSET EventIds
  BY DEF Events
<1>2. \A x \in D : f[x] \in Int /\ OwedIn(t)[x] = f[x]
  BY DEF PoolsTyped, PoolOf, OwedIn, Events
<1>3. \A x \in EventIds \ D : OwedIn(t)[x] = 0
  BY DEF OwedIn, Events
<1>4. Surplus(t) = balance[t][Contract] - SumFunctionOnSet(f, D)
  BY DEF Surplus, SumFunction
<1> HIDE DEF D, f
<1>5. Owed(t) = SumFunctionOnSet(f, D)
  BY <1>1, <1>2, <1>3, EventIdsFinite, SumWhere DEF Owed
<1> QED
  BY <1>4, <1>5

\* What is owed is an integer, event by event and in total.
LEMMA OwedTyped ==
  ASSUME PoolsTyped, NEW t
  PROVE  /\ \A e \in EventIds : OwedIn(t)[e] \in Int
         /\ Owed(t) \in Int
<1>1. \A e \in EventIds : OwedIn(t)[e] \in Int
  BY DEF PoolsTyped, OwedIn
<1> QED
  BY <1>1, EventIdsFinite, SumInt DEF Owed

\* An event none of whose money moves owes the same in every token.
LEMMA SameMoneySameOwed ==
  ASSUME NEW e \in EventIds, SameMoney(e), NEW t
  PROVE  OwedIn(t)'[e] = OwedIn(t)[e]
<1>1. PoolOf(e)' = PoolOf(e)
  BY SameMoneySamePool
<1> QED
  BY <1>1 DEF OwedIn, SameMoney, EventExists, Token

\* What a call books on one event is what the token owed changes by.
LEMMA BooksOwed ==
  ASSUME PoolsTyped, PoolsTyped', NEW e \in EventIds, NEW d \in Int, Books(e, d),
         EventExists(e) => terms'[e] = terms[e], NEW t \in Tokens
  PROVE  Owed(t)' = Owed(t) + (IF t = Token(e)' THEN d ELSE 0)
<1> DEFINE f == OwedIn(t)
           g == OwedIn(t)'
<1>1. \A x \in EventIds \ {e} : g[x] = f[x]
  BY SameMoneySameOwed DEF Books
<1>2. g[e] = f[e] + (IF t = Token(e)' THEN d ELSE 0)
  <2>1. PoolOf(e)' = PoolOf(e) + d /\ EventExists(e)'
    BY DEF Books
  <2>2. g[e] = IF Token(e)' = t THEN PoolOf(e)' ELSE 0
    BY <2>1 DEF OwedIn
  <2>3. CASE EventExists(e)
    <3>1. Token(e)' = Token(e)
      BY <2>3 DEF Token
    <3>2. f[e] = IF Token(e) = t THEN PoolOf(e) ELSE 0
      BY <2>3 DEF OwedIn
    <3> QED
      BY <2>1, <2>2, <3>1, <3>2
  <2>4. CASE ~EventExists(e)
    <3>1. f[e] = 0 /\ PoolOf(e) = 0
      BY <2>4 DEF OwedIn, PoolOf
    <3> QED
      BY <2>1, <2>2, <3>1
  <2> QED
    BY <2>3, <2>4
<1>3. \A x \in EventIds : f[x] \in Int
  BY OwedTyped
<1>4. Owed(t) = SumFunctionOnSet(f, EventIds) /\ Owed(t) \in Int
  BY OwedTyped DEF Owed
<1>5. Owed(t)' = SumFunctionOnSet(g, EventIds)
  BY DEF Owed
<1> HIDE DEF f, g
<1>6. g[e] \in Int /\ IsFiniteSet(EventIds)
  <2>1. (IF t = Token(e)' THEN d ELSE 0) \in Int /\ f[e] \in Int
    BY <1>3
  <2> QED
    BY <1>2, <2>1, EventIdsFinite
<1>7. SumFunctionOnSet(g, EventIds) = SumFunctionOnSet(f, EventIds) + g[e] - f[e]
  BY <1>1, <1>3, <1>6, SumChange
<1> QED
  BY <1>2, <1>3, <1>4, <1>5, <1>7

\* A call that moves no money owes what was owed.
LEMMA NoMoneyOwed ==
  ASSUME PoolsTyped, NoMoney, NEW t
  PROVE  Owed(t)' = Owed(t)
<1>1. \A x \in EventIds : OwedIn(t)[x] \in Int /\ OwedIn(t)'[x] = OwedIn(t)[x]
  BY OwedTyped, SameMoneySameOwed DEF NoMoney
<1> QED
  BY <1>1, EventIdsFinite, SumSame DEF Owed

\* Rounding the refunds down owes no more than before.
LEMMA RoundsOwed ==
  ASSUME PoolsTyped, PoolsTyped', NEW e \in EventIds, Rounds(e), NEW t
  PROVE  Owed(t)' <= Owed(t)
<1> DEFINE f == OwedIn(t)
           g == OwedIn(t)'
<1>1. \A x \in EventIds \ {e} : g[x] = f[x]
  BY SameMoneySameOwed DEF Rounds
<1>2. g[e] <= f[e] /\ g[e] \in Int
  BY DEF Rounds, OwedIn, Token, EventExists, PoolsTyped
<1>3. \A x \in EventIds : f[x] \in Int
  BY OwedTyped
<1>4. Owed(t) = SumFunctionOnSet(f, EventIds) /\ Owed(t)' = SumFunctionOnSet(g, EventIds)
  BY DEF Owed
<1> HIDE DEF f, g
<1>5. \A x \in EventIds : g[x] \in Int /\ f[x] \in Int /\ g[x] <= f[x]
  BY <1>1, <1>2, <1>3
<1> QED
  BY <1>4, <1>5, EventIdsFinite, SumMonotone

\* Every way of moving money keeps the contract solvent.
LEMMA MoneyStepSolvent ==
  ASSUME PoolsTyped, PoolsTyped', LedgerTypes, SolvencyInv, MoneyStep
  PROVE  SolvencyInv'
<1> SUFFICES ASSUME NEW t \in Tokens
             PROVE  Owed(t)' <= balance'[t][Contract]
  BY DEF SolvencyInv
<1>1. /\ Owed(t) <= balance[t][Contract] /\ Owed(t) \in Int
      /\ balance[t][Contract] \in Int
  BY OwedTyped, Accounts DEF SolvencyInv, LedgerTypes
<1>2. CASE NoMoney
  BY <1>1, <1>2, NoMoneyOwed DEF NoMoney
<1>3. ASSUME NEW e \in EventIds, NEW d \in Int, Books(e, d),
             EventExists(e) => terms'[e] = terms[e]
      PROVE  Owed(t)' <= balance'[t][Contract]
  <2>1. Owed(t)' = Owed(t) + (IF t = Token(e)' THEN d ELSE 0)
    BY <1>3, BooksOwed
  <2>2. balance'[t][Contract]
          = balance[t][Contract] + (IF t = Token(e)' THEN d ELSE 0)
    BY <1>3 DEF Books, VaultMoves
  <2> QED
    BY <1>1, <2>1, <2>2
<1>4. ASSUME NEW e \in EventIds, Rounds(e) PROVE Owed(t)' <= balance'[t][Contract]
  <2>1. Owed(t)' <= Owed(t) /\ UNCHANGED balance
    BY <1>4, RoundsOwed DEF Rounds
  <2>2. Owed(t)' \in Int
    <3>1. \A x \in EventIds : OwedIn(t)'[x] \in Int
      BY DEF OwedIn, PoolsTyped
    <3> QED
      BY <3>1, EventIdsFinite, SumInt DEF Owed
  <2> QED
    BY <1>1, <2>1, <2>2
<1> QED
  BY <1>2, <1>3, <1>4 DEF MoneyStep, Opens, Funds, Pays

\* The contract's balance in every token covers the pools of all its events.  No
\* call checks this: each checks its own event only (escrow.rs).
THEOREM SolvencyInvariant == Spec => []SolvencyInv
<1>1. Init => SolvencyInv
  <2> SUFFICES ASSUME Init, NEW t \in Tokens PROVE Owed(t) <= balance[t][Contract]
    BY DEF SolvencyInv
  <2>1. \A e \in EventIds : OwedIn(t)[e] = 0
    BY DEF Init, OwedIn, EventExists
  <2>2. Owed(t) = 0
    BY <2>1, EventIdsFinite, SumZero DEF Owed
  <2>3. balance[t][Contract] = 0
    BY AddressAssumption DEF Init, Holders
  <2> QED
    BY <2>2, <2>3
<1>2. /\ StorageTypes /\ SafetyInv /\ RegistryInv /\ LedgerInv
      /\ PoolsTyped /\ PoolsTyped' /\ SolvencyInv /\ [Next]_vars
      => SolvencyInv'
  BY NextMoves, MoneyStepSolvent DEF LedgerInv
<1> QED
  BY <1>1, <1>2, StorageTyped, SafetyInvariant, RegistryInvariant,
     LedgerInvariant, PoolsAlwaysTyped, PTL DEF Spec

\* The contract always holds everything it owes, in every token, whatever the
\* events that share its one balance do (escrow.rs).
THEOREM AlwaysSolvent == Spec => []Solvent
<1>1. PoolsTyped /\ LedgerInv /\ SolvencyInv => Solvent
  <2> SUFFICES ASSUME PoolsTyped, LedgerInv, SolvencyInv, NEW t \in Tokens
               PROVE  Surplus(t) >= 0
    BY DEF Solvent
  <2>1. /\ Surplus(t) = balance[t][Contract] - Owed(t)
        /\ Owed(t) \in Int /\ balance[t][Contract] \in Int
    BY SurplusOwed, OwedTyped, Accounts DEF LedgerInv, LedgerTypes
  <2>2. Owed(t) <= balance[t][Contract]
    BY DEF SolvencyInv
  <2> QED
    BY <2>1, <2>2
<1> QED
  BY <1>1, PoolsAlwaysTyped, LedgerInvariant, SolvencyInvariant, PTL

\* What one event may be asked to pay is in the contract's balance.
Covered(e) == Liability(e) <= balance[Token(e)][Contract]

\* No prize, milestone, refund or residual of any event is ever turned away
\* because other events of the same token were paid first: the contract holds
\* all that the event may still pay (escrow.rs checks no more than the balance).
THEOREM NoEventRunsShort == Spec => [](\A e \in Events : Covered(e))
<1>1. StorageTypes /\ LedgerInv /\ PoolsTyped /\ SolvencyInv
        => \A e \in Events : Covered(e)
  <2> SUFFICES ASSUME StorageTypes, LedgerInv, PoolsTyped, SolvencyInv,
                      NEW e \in Events
               PROVE  Covered(e)
    OBVIOUS
  <2>1. e \in EventIds /\ EventExists(e)
    BY DEF Events
  <2>2. PICK t \in Tokens : t = Token(e)
    BY <2>1, TermsTyped DEF LedgerInv
  <2>3. OwedIn(t)[e] = Liability(e)
    BY <2>1, <2>2 DEF OwedIn, PoolOf
  <2>4. \A x \in EventIds : OwedIn(t)[x] \in Nat
    BY DEF OwedIn, PoolsTyped
  <2>5. OwedIn(t)[e] <= Owed(t)
    BY <2>1, <2>4, EventIdsFinite, SumMember DEF Owed
  <2>6. Owed(t) <= balance[t][Contract] /\ Owed(t) \in Int
        /\ balance[t][Contract] \in Int
    BY OwedTyped, Accounts DEF SolvencyInv, LedgerInv, LedgerTypes
  <2>7. OwedIn(t)[e] \in Nat
    BY <2>1, <2>4
  <2> QED
    BY <2>2, <2>3, <2>5, <2>6, <2>7 DEF Covered
<1> QED
  BY <1>1, StorageTyped, LedgerInvariant, PoolsAlwaysTyped, SolvencyInvariant, PTL

\* No account is ever overdrawn: not a user's or the fee account's, which the
\* token itself guards, nor the contract's, which solvency does.
THEOREM AlwaysTypeOK == Spec => []TypeOK
<1>1. StorageTypes /\ PoolsTyped /\ LedgerInv /\ SolvencyInv => TypeOK
  <2> SUFFICES ASSUME StorageTypes, PoolsTyped, LedgerInv, SolvencyInv
               PROVE  balance \in [Tokens -> [Holders -> Nat]]
    BY DEF TypeOK
  <2>1. /\ balance \in [Tokens -> [Holders -> Int]]
        /\ \A t \in Tokens : \A h \in Users \cup {FeeAccount} : balance[t][h] >= 0
    BY DEF LedgerInv, LedgerTypes
  <2>2. ASSUME NEW t \in Tokens PROVE balance[t][Contract] >= 0
    <3>1. \A e \in EventIds : OwedIn(t)[e] \in Nat
      BY DEF OwedIn, PoolsTyped
    <3>2. Owed(t) \in Nat
      BY <3>1, EventIdsFinite, SumNat DEF Owed
    <3>3. Owed(t) <= balance[t][Contract] /\ balance[t][Contract] \in Int
      BY <2>1, Accounts DEF SolvencyInv
    <3> QED
      BY <3>2, <3>3
  <2>3. ASSUME NEW t \in Tokens, NEW h \in Holders PROVE balance[t][h] \in Nat
    BY <2>1, <2>2, <2>3 DEF Holders
  <2> QED
    BY <2>1, <2>3
<1> QED
  BY <1>1, StorageTyped, PoolsAlwaysTyped, LedgerInvariant, SolvencyInvariant, PTL

-----------------------------------------------------------------------------
(* Nothing is stranded                                                     *)

\* A cancellation keeps its registry, to the end and after, and is not undone.
LossKept(e) ==
  EventExists(e) /\ status[e] \in {"Cancelling", "Cancelled"} =>
    /\ status'[e] \in {"Cancelling", "Cancelled"}
    /\ contributors'[e] = contributors[e]

\* No call but the two that cancel changes the status of a cancelling or
\* cancelled event, and none its registry.
LEMMA NextKeepsLoss ==
  ASSUME StorageTypes, [Next]_vars, NEW e \in EventIds
  PROVE  LossKept(e)
<1> USE DEF LossKept
<1>1. /\ status \in [EventIds -> Statuses]
      /\ contributors \in [EventIds -> Seq(Users)]
  BY DEF StorageTypes, RecordTypes, ContributionTypes
<1>2. ASSUME UNCHANGED <<status, contributors>> PROVE LossKept(e)
  BY <1>2
<1>3. CASE FundingNext
  <2>1. ASSUME NEW params, NEW op, CreateEvent(params, op) PROVE LossKept(e)
    <3>1. /\ status' = [status EXCEPT ![Len(terms) + 1] = "Active"]
          /\ UNCHANGED contributionVars
      BY <2>1, Zenon DEF CreateEvent
    <3>2. ~EventExists(Len(terms) + 1)
      BY DEF StorageTypes, RecordTypes, EventExists
    <3>3. CASE EventExists(e)
      <4>1. e # Len(terms) + 1
        BY <3>2, <3>3
      <4> QED
        BY <1>1, <3>1, <4>1 DEF contributionVars
    <3> QED
      BY <3>3
  <2>2. ASSUME NEW x \in EventIds, NEW from, NEW amount, NEW op,
               AddFunds(x, from, amount, op)
        PROVE  LossKept(e)
    <3>1. status[x] = "Active" /\ UNCHANGED status
      BY <2>2, Zenon DEF AddFunds, IsActive
    <3>2. \/ contributors' = [contributors EXCEPT
                                ![x] = IF contributed[x][from] = 0
                                       THEN Enrolled(@, from) ELSE @]
          \/ UNCHANGED contributionVars
      BY <2>2, Zenon DEF AddFunds
    <3>3. CASE e # x
      BY <1>1, <3>1, <3>2, <3>3 DEF contributionVars
    <3>4. CASE e = x
      BY <3>1, <3>4
    <3> QED
      BY <3>3, <3>4
  <2>3. ASSUME NEW x, \/ \E target \in ManagerTargets : ProposeManager(x, target)
                      \/ AcceptManager(x)
                      \/ CancelPendingManager(x)
                      \/ ReclaimManagement(x)
        PROVE  LossKept(e)
    BY <1>2, <2>3 DEF ProposeManager, AcceptManager, CancelPendingManager,
                      ReclaimManagement, UnchangedButManagers, contributionVars
  <2> QED
    BY <1>3, <2>1, <2>2, <2>3, Zenon DEF FundingNext
<1>4. CASE CancellationNext
  <2>1. UNCHANGED contributors
    <3>1. ASSUME NEW x, NEW op, StartCancel(x, op) PROVE UNCHANGED contributors
      BY <3>1, Zenon DEF StartCancel
    <3>2. ASSUME NEW x, NEW op, FinalizeCancel(x, op) PROVE UNCHANGED contributors
      BY <3>2, Zenon DEF FinalizeCancel
    <3>3. ASSUME NEW x, NEW max, NEW op, ProcessCancelBatch(x, max, op)
          PROVE  UNCHANGED contributors
      BY <3>3, Zenon DEF ProcessCancelBatch
    <3>4. ASSUME NEW x, NEW u, NEW op, ClaimRefund(x, u, op)
          PROVE  UNCHANGED contributors
      BY <3>4, Zenon DEF ClaimRefund, contributionVars
    <3> QED
      BY <1>4, <3>1, <3>2, <3>3, <3>4, Zenon DEF CancellationNext
  <2>2. status'[e] = status[e] \/ status'[e] \in {"Cancelling", "Cancelled"}
    <3>1. ASSUME NEW x, NEW op, StartCancel(x, op)
          PROVE  \/ status' = [status EXCEPT ![x] = "Cancelled"]
                 \/ status' = [status EXCEPT ![x] = "Cancelling"]
      BY <3>1, Zenon DEF StartCancel
    <3>2. ASSUME NEW x, NEW op, FinalizeCancel(x, op)
          PROVE  status' = [status EXCEPT ![x] = "Cancelled"]
      BY <3>2, Zenon DEF FinalizeCancel
    <3>3. ASSUME NEW x, NEW max, NEW op, ProcessCancelBatch(x, max, op)
          PROVE  UNCHANGED status
      BY <3>3, Zenon DEF ProcessCancelBatch
    <3>4. ASSUME NEW x, NEW u, NEW op, ClaimRefund(x, u, op)
          PROVE  UNCHANGED status
      BY <3>4, Zenon DEF ClaimRefund
    <3>5. \E x : \/ status' = [status EXCEPT ![x] = "Cancelled"]
                 \/ status' = [status EXCEPT ![x] = "Cancelling"]
                 \/ UNCHANGED status
      BY <1>4, <3>1, <3>2, <3>3, <3>4, Zenon DEF CancellationNext
    <3> QED
      BY <1>1, <3>5
  <2> QED
    BY <2>1, <2>2
<1>5. CASE AwardsNext
  <2>1. ASSUME NEW x, NEW batch, NEW op,
               SelectPrizes(x, batch, op) \/ SelectGrantees(x, batch, op)
        PROVE  UNCHANGED <<status, contributors>>
    BY <2>1, Zenon DEF SelectPrizes, SelectGrantees, UnchangedBySelection,
                       contributionVars
  <2>2. ASSUME NEW x, NEW p, NEW op, ClaimPrize(x, p, op) PROVE LossKept(e)
    <3>1. status[x] = "Active" /\ UNCHANGED contributors
          /\ \A y \in EventIds \ {x} : status'[y] = status[y]
      BY <1>1, <2>2 DEF ClaimPrize, IsActive, contributionVars
    <3> QED
      BY <3>1
  <2> QED
    BY <1>2, <1>5, <2>1, <2>2, Zenon DEF AwardsNext
<1>6. CASE GrantsNext
  <2>1. ASSUME NEW x, NEW r, NEW m, NEW bump, NEW op,
               \/ ClaimGrantMilestone(x, r, m, bump, op)
               \/ ClaimCampaignMilestone(x, r, m, bump, op)
               \/ ForfeitMilestone(x, r, m, op)
        PROVE  LossKept(e)
    <3>1. status[x] = "Active" /\ UNCHANGED contributionVars
      BY <2>1, Zenon DEF ClaimGrantMilestone, ClaimCampaignMilestone,
                         ForfeitMilestone, MilestoneOpen, IsActive
    <3>2. \/ UNCHANGED status
          \/ status' = [status EXCEPT
                          ![x] = IF remaining_escrow'[x] = 0 THEN "Completed" ELSE @]
      BY <2>1, Zenon DEF ClaimGrantMilestone, ClaimCampaignMilestone,
                         ForfeitMilestone, PayMilestone
    <3> QED
      BY <1>1, <3>1, <3>2 DEF contributionVars
  <2> QED
    BY <1>6, <2>1, Zenon DEF GrantsNext
<1>7. CASE AdminNext \/ WorldNext
  BY <1>2, <1>7, SwitchesMoveNoEvent DEF eventVars, contributionVars
<1>8. CASE UNCHANGED vars
  BY <1>2, <1>8 DEF vars, eventVars, contributionVars
<1> QED
  BY <1>3, <1>4, <1>5, <1>6, <1>7, <1>8 DEF Next

\* What rounding may have left behind is never counted negative.
LossTyped == \A e \in EventIds : RoundingLoss(e) \in Nat

\* A cancelling event with contributors has at least one.
LEMMA LossIsNat ==
  ASSUME StorageTypes
  PROVE  LossTyped
<1> SUFFICES ASSUME NEW e \in EventIds PROVE RoundingLoss(e) \in Nat
  BY DEF LossTyped
<1>1. contributors[e] \in Seq(Users)
  BY DEF StorageTypes, ContributionTypes
<1>2. contributors[e] # << >> => Len(contributors[e]) \in Nat \ {0}
  BY <1>1
<1> QED
  BY <1>2 DEF RoundingLoss

\* What the contract may hold of token t, event by event: what it owes, and
\* what rounding may have left behind.
CoverIn(t) ==
  [e \in EventIds |-> IF EventExists(e) /\ Token(e) = t
                      THEN PoolOf(e) + RoundingLoss(e) ELSE 0]

Cover(t) == SumFunctionOnSet(CoverIn(t), EventIds)

HeldIsCovered == \A t \in Tokens : balance[t][Contract] <= Cover(t)

\* In no active event would a refund be cut short by an i128 that saturates.
AmountsFit == \A e \in Events : status[e] = "Active" => ProductsFit(e)

\* The cover is an integer, event by event and in total.
LEMMA CoverTyped ==
  ASSUME PoolsTyped, LossTyped, NEW t
  PROVE  /\ \A e \in EventIds : CoverIn(t)[e] \in Int
         /\ Cover(t) \in Int
<1>1. \A e \in EventIds : CoverIn(t)[e] \in Int
  BY DEF PoolsTyped, LossTyped, CoverIn
<1> QED
  BY <1>1, EventIdsFinite, SumInt DEF Cover

\* An event none of whose money moves is covered as before.
LEMMA SameMoneySameCover ==
  ASSUME NEW e \in EventIds, SameMoney(e), NEW t
  PROVE  CoverIn(t)'[e] = CoverIn(t)[e]
<1>1. PoolOf(e)' = PoolOf(e)
  BY SameMoneySamePool
<1>2. RoundingLoss(e)' = RoundingLoss(e)
  BY DEF SameMoney, RoundingLoss
<1> QED
  BY <1>1, <1>2 DEF CoverIn, SameMoney, EventExists, Token

\* If the cover of one event grows by d at least, so does that of the token.
LEMMA CoverGrows ==
  ASSUME PoolsTyped, PoolsTyped', LossTyped, LossTyped', NEW e \in EventIds,
         \A x \in EventIds \ {e} : SameMoney(x), NEW t, NEW d \in Int,
         CoverIn(t)[e] + d <= CoverIn(t)'[e]
  PROVE  Cover(t) + d <= Cover(t)'
<1> DEFINE f == CoverIn(t)
           g == CoverIn(t)'
<1>1. \A x \in EventIds \ {e} : g[x] = f[x]
  BY SameMoneySameCover
<1>2. /\ \A x \in EventIds : f[x] \in Int
      /\ Cover(t) = SumFunctionOnSet(f, EventIds) /\ Cover(t) \in Int
  BY CoverTyped DEF Cover
<1>3. g[e] \in Int
  BY DEF PoolsTyped, LossTyped, CoverIn
<1>4. Cover(t)' = SumFunctionOnSet(g, EventIds)
  BY DEF Cover
<1>5. f[e] + d <= g[e]
  OBVIOUS
<1> HIDE DEF f, g
<1>6. SumFunctionOnSet(g, EventIds) = SumFunctionOnSet(f, EventIds) + g[e] - f[e]
  BY <1>1, <1>2, <1>3, EventIdsFinite, SumChange
<1> QED
  BY <1>2, <1>3, <1>4, <1>5, <1>6

\* What a call books on an event covers it, and forgets no rounding.
LEMMA BooksCover ==
  ASSUME PoolsTyped, PoolsTyped', LossTyped, LossTyped', NEW e \in EventIds,
         NEW d \in Int, Books(e, d), LossKept(e),
         EventExists(e) => terms'[e] = terms[e], NEW t \in Tokens
  PROVE  Cover(t) + (IF t = Token(e)' THEN d ELSE 0) <= Cover(t)'
<1> DEFINE k == IF t = Token(e)' THEN d ELSE 0
<1>1. CoverIn(t)[e] + k <= CoverIn(t)'[e]
  <2>1. PoolOf(e)' = PoolOf(e) + d /\ EventExists(e)'
    BY DEF Books
  <2>2. CoverIn(t)'[e]
          = IF Token(e)' = t THEN PoolOf(e)' + RoundingLoss(e)' ELSE 0
    BY <2>1 DEF CoverIn
  <2>3. /\ PoolOf(e) \in Nat /\ PoolOf(e)' \in Nat
        /\ RoundingLoss(e) \in Nat /\ RoundingLoss(e)' \in Nat
    BY DEF PoolsTyped, LossTyped
  <2>4. CASE EventExists(e)
    <3>1. Token(e)' = Token(e)
      BY <2>4 DEF Token
    <3>2. CoverIn(t)[e]
            = IF Token(e) = t THEN PoolOf(e) + RoundingLoss(e) ELSE 0
      BY <2>4 DEF CoverIn
    <3>3. RoundingLoss(e) <= RoundingLoss(e)'
      <4>1. CASE status[e] \in {"Cancelling", "Cancelled"}
        BY <2>3, <2>4, <4>1 DEF LossKept, RoundingLoss
      <4>2. CASE status[e] \notin {"Cancelling", "Cancelled"}
        <5>1. RoundingLoss(e) = 0
          BY <4>2 DEF RoundingLoss
        <5> QED
          BY <2>3, <5>1
      <4> QED
        BY <4>1, <4>2
    <3> QED
      BY <2>1, <2>2, <2>3, <3>1, <3>2, <3>3
  <2>5. CASE ~EventExists(e)
    <3>1. CoverIn(t)[e] = 0 /\ PoolOf(e) = 0
      BY <2>5 DEF CoverIn, PoolOf
    <3> QED
      BY <2>1, <2>2, <2>3, <3>1
  <2> QED
    BY <2>4, <2>5
<1>2. k \in Int /\ \A x \in EventIds \ {e} : SameMoney(x)
  BY DEF Books
<1> HIDE DEF k
<1>3. Cover(t) + k <= Cover(t)'
  BY <1>1, <1>2, CoverGrows
<1> QED
  BY <1>3 DEF k

\* Every way of moving money leaves no more behind than rounding may.
LEMMA MoneyStepCovered ==
  ASSUME PoolsTyped, PoolsTyped', LossTyped, LossTyped', LedgerTypes,
         AmountsFit, HeldIsCovered, MoneyStep, \A e \in EventIds : LossKept(e)
  PROVE  HeldIsCovered'
<1> SUFFICES ASSUME NEW t \in Tokens
             PROVE  balance'[t][Contract] <= Cover(t)'
  BY DEF HeldIsCovered
<1>1. /\ balance[t][Contract] <= Cover(t) /\ Cover(t) \in Int
      /\ balance[t][Contract] \in Int
  BY CoverTyped, Accounts DEF HeldIsCovered, LedgerTypes
<1>2. Cover(t)' \in Int
  <2>1. \A x \in EventIds : CoverIn(t)'[x] \in Int
    BY DEF CoverIn, PoolsTyped, LossTyped
  <2> QED
    BY <2>1, EventIdsFinite, SumInt DEF Cover
<1>3. CASE NoMoney
  <2>1. \A x \in EventIds : CoverIn(t)[x] \in Int /\ CoverIn(t)'[x] = CoverIn(t)[x]
    BY <1>3, CoverTyped, SameMoneySameCover DEF NoMoney
  <2>2. Cover(t)' = Cover(t)
    BY <2>1, EventIdsFinite, SumSame DEF Cover
  <2> QED
    BY <1>1, <1>3, <2>2 DEF NoMoney
<1>4. ASSUME NEW e \in EventIds, NEW d \in Int, Books(e, d),
             EventExists(e) => terms'[e] = terms[e]
      PROVE  balance'[t][Contract] <= Cover(t)'
  <2>1. Cover(t) + (IF t = Token(e)' THEN d ELSE 0) <= Cover(t)'
    BY <1>4, BooksCover
  <2>2. balance'[t][Contract]
          = balance[t][Contract] + (IF t = Token(e)' THEN d ELSE 0)
    BY <1>4 DEF Books, VaultMoves
  <2> QED
    BY <1>1, <1>2, <2>1, <2>2
<1>5. ASSUME NEW e \in EventIds, Rounds(e)
      PROVE  balance'[t][Contract] <= Cover(t)'
  <2>1. CoverIn(t)[e] + 0 <= CoverIn(t)'[e]
    <3>1. /\ EventExists(e) /\ EventExists(e)' /\ Token(e)' = Token(e)
          /\ RoundingLoss(e) = 0
      BY <1>5 DEF Rounds, EventExists, Token, RoundingLoss
    <3>2. PoolOf(e) <= PoolOf(e)' + RoundingLoss(e)'
      BY <1>5, <3>1 DEF Rounds, RoundsByUnits, AmountsFit, Events
    <3>3. /\ PoolOf(e) \in Nat /\ PoolOf(e)' \in Nat
          /\ RoundingLoss(e)' \in Nat
      BY DEF PoolsTyped, LossTyped
    <3>4. /\ CoverIn(t)[e] = IF Token(e) = t THEN PoolOf(e) + RoundingLoss(e) ELSE 0
          /\ CoverIn(t)'[e]
               = IF Token(e)' = t THEN PoolOf(e)' + RoundingLoss(e)' ELSE 0
      BY <3>1 DEF CoverIn
    <3> QED
      BY <3>1, <3>2, <3>3, <3>4
  <2>2. Cover(t) + 0 <= Cover(t)'
    <3>1. \A x \in EventIds \ {e} : SameMoney(x)
      BY <1>5 DEF Rounds
    <3> QED
      BY <2>1, <3>1, CoverGrows
  <2>3. UNCHANGED balance
    BY <1>5 DEF Rounds
  <2> QED
    BY <1>1, <1>2, <2>2, <2>3
<1> QED
  BY <1>3, <1>4, <1>5 DEF MoneyStep, Opens, Funds, Pays

\* What the contract holds beyond what it owes is the rounding of pro-rata
\* refunds, less than one unit a contributor, over any number of events that
\* share its balance (start_cancel, process_cancel_batch).  A product beyond
\* i128 saturates and would cut a refund short: no more is assumed than that
\* none does, while its event can still be cancelled.
THEOREM NothingIsEverStranded ==
  Spec /\ []AmountsFit => []NothingStranded
<1>1. Init => HeldIsCovered
  <2> SUFFICES ASSUME Init, NEW t \in Tokens PROVE balance[t][Contract] <= Cover(t)
    BY DEF HeldIsCovered
  <2>1. \A e \in EventIds : CoverIn(t)[e] = 0
    BY DEF Init, CoverIn, EventExists
  <2>2. Cover(t) = 0
    BY <2>1, EventIdsFinite, SumZero DEF Cover
  <2>3. balance[t][Contract] = 0
    BY AddressAssumption DEF Init, Holders
  <2> QED
    BY <2>2, <2>3
<1>2. StorageTypes => LossTyped
  BY LossIsNat
<1>3. /\ StorageTypes /\ SafetyInv /\ RegistryInv /\ LedgerInv
      /\ PoolsTyped /\ PoolsTyped' /\ LossTyped /\ LossTyped' /\ AmountsFit
      /\ HeldIsCovered /\ [Next]_vars
      => HeldIsCovered'
  BY NextMoves, NextKeepsLoss, MoneyStepCovered DEF LedgerInv
<1>4. PoolsTyped /\ LossTyped /\ LedgerInv /\ HeldIsCovered => NothingStranded
  <2> SUFFICES ASSUME PoolsTyped, LossTyped, LedgerInv, HeldIsCovered,
                      NEW t \in Tokens
               PROVE  Surplus(t) <= SumFunction([e \in {x \in Events : Token(x) = t}
                                                   |-> RoundingLoss(e)])
    BY DEF NothingStranded
  <2> DEFINE D == {x \in Events : Token(x) = t}
             f == [e \in D |-> RoundingLoss(e)]
             g == [e \in EventIds |-> IF EventExists(e) /\ Token(e) = t
                                      THEN RoundingLoss(e) ELSE 0]
  <2>1. /\ D \in SUBSET EventIds
        /\ \A x \in D : f[x] \in Int /\ g[x] = f[x]
        /\ \A x \in EventIds \ D : g[x] = 0
        /\ \A x \in EventIds : g[x] \in Int
    BY DEF LossTyped, Events
  <2>2. \A x \in EventIds : OwedIn(t)[x] \in Int /\ CoverIn(t)[x] = OwedIn(t)[x] + g[x]
    BY OwedTyped DEF LossTyped, PoolsTyped, OwedIn, CoverIn
  <2>3. SumFunction(f) = SumFunctionOnSet(f, D)
    BY DEF SumFunction
  <2> HIDE DEF D, f, g
  <2>4. Cover(t) = Owed(t) + SumFunctionOnSet(g, EventIds)
    BY <2>1, <2>2, EventIdsFinite, SumPlus DEF Cover, Owed
  <2>5. SumFunctionOnSet(g, EventIds) = SumFunctionOnSet(f, D)
    BY <2>1, EventIdsFinite, SumWhere
  <2>6. SumFunctionOnSet(g, EventIds) \in Int
    BY <2>1, EventIdsFinite, SumInt
  <2>7. /\ Surplus(t) = balance[t][Contract] - Owed(t)
        /\ Owed(t) \in Int /\ balance[t][Contract] \in Int
        /\ balance[t][Contract] <= Cover(t)
    BY SurplusOwed, OwedTyped, Accounts DEF LedgerInv, LedgerTypes, HeldIsCovered
  <2>8. Surplus(t) <= SumFunction(f)
    BY <2>3, <2>4, <2>5, <2>6, <2>7
  <2> QED
    BY <2>8 DEF f, D
<1> QED
  BY <1>1, <1>2, <1>3, <1>4, StorageTyped, SafetyInvariant, RegistryInvariant,
     LedgerInvariant, PoolsAlwaysTyped, PTL DEF Spec

-----------------------------------------------------------------------------
(* The refinement of EscrowPool                                            *)

\* A call that moves no money is no step of the pools.
LEMMA NoMoneyStutters ==
  ASSUME NoMoney
  PROVE  UNCHANGED Pool!poolVars
<1>1. \A x \in EventIds : PoolOf(x)' = PoolOf(x)
  BY SameMoneySamePool DEF NoMoney
<1>2. \A x \in EventIds :
        /\ PhaseOf(status'[x]) = PhaseOf(status[x])
        /\ EventExists(x)' = EventExists(x)
        /\ EventExists(x) => Token(x)' = Token(x)
  BY DEF NoMoney, SameMoney, EventExists, Token
<1> QED
  BY <1>1, <1>2 DEF Pool!poolVars, PoolOf, NoMoney

\* What a call books moves one pool, and the vault of its token as much.
LEMMA BooksMovesPool ==
  ASSUME PoolsTyped, PoolsTyped', LedgerTypes, StorageTypes', NEW e \in EventIds,
         NEW d \in Int, Books(e, d), Token(e)' \in Tokens
  PROVE  Pool!PoolAndVaultMove(e)
<1> DEFINE pool  == [x \in EventIds |-> IF EventExists(x) THEN Liability(x) ELSE 0]
           vault == [t \in Tokens |-> balance[t][Contract]]
           token == [x \in EventIds |-> IF EventExists(x) THEN Token(x) ELSE None]
<1>1. \A x \in EventIds : pool[x] = PoolOf(x) /\ pool'[x] = PoolOf(x)'
  BY DEF PoolOf
<1>2. pool' = [pool EXCEPT ![e] = pool'[e]]
  <2>1. \A x \in EventIds \ {e} : pool'[x] = pool[x]
    BY <1>1, SameMoneySamePool DEF Books
  <2> QED
    BY <2>1
<1>3. token'[e] = Token(e)' /\ pool'[e] - pool[e] = d
  <2>1. /\ EventExists(e)' /\ PoolOf(e)' = PoolOf(e) + d
        /\ PoolOf(e) \in Int
    BY DEF Books, PoolsTyped
  <2> QED
    BY <1>1, <2>1
<1>4. vault' = [vault EXCEPT ![token'[e]] = @ + (pool'[e] - pool[e])]
  <2>1. PICK tok \in Tokens : tok = token'[e]
    BY <1>3
  <2>2. \A t \in Tokens : /\ vault'[t] = balance'[t][Contract]
                         /\ vault[t] = balance[t][Contract]
    OBVIOUS
  <2>3. \A t \in Tokens : balance'[t][Contract]
             = balance[t][Contract] + (IF t = tok THEN d ELSE 0)
    BY <1>3, <2>1 DEF Books, VaultMoves
  <2>4. \A t \in Tokens : balance[t][Contract] \in Int
    BY Accounts DEF LedgerTypes
  <2>5. vault \in [Tokens -> Int] /\ vault' = [t \in Tokens |-> vault'[t]]
    BY <2>4
  <2> HIDE DEF pool, token, vault
  <2>6. \A t \in Tokens : vault'[t] = IF t = tok THEN vault[t] + d ELSE vault[t]
    BY <2>2, <2>3, <2>4
  <2>7. vault' = [vault EXCEPT ![tok] = @ + d]
    BY <2>5, <2>6
  <2> QED
    BY <1>3, <2>1, <2>7
<1> QED
  BY <1>2, <1>4 DEF Pool!PoolAndVaultMove

\* An event that exists has a status: create_event sets one, no call unsets it.
HasStatus == \A e \in EventIds : EventExists(e) => status[e] # "None"

\* Every created event has a status in every reachable state.
THEOREM StatusInvariant == Spec => []HasStatus
<1>1. Init => HasStatus
  BY DEF Init, HasStatus, EventExists
<1>2. HasStatus /\ MoneyStep => HasStatus'
  <2> SUFFICES ASSUME HasStatus, MoneyStep, NEW x \in EventIds, EventExists(x)'
               PROVE  status'[x] # "None"
    BY DEF HasStatus
  <2>1. CASE SameMoney(x)
    BY <2>1 DEF SameMoney, HasStatus, EventExists
  <2>2. CASE ~SameMoney(x)
    <3>1. PICK e \in EventIds :
            \/ \E d \in Nat : Opens(e, d)
            \/ \E d \in Nat \ {0} : Funds(e, d)
            \/ \E d \in Nat : Pays(e, d)
            \/ Rounds(e)
      BY <2>2, Zenon DEF MoneyStep, NoMoney
    <3>2. x = e
      BY <2>2, <3>1 DEF Opens, Funds, Pays, Rounds, Books
    <3> QED
      BY <3>1, <3>2 DEF Opens, Funds, Pays, Rounds, HasStatus
  <2> QED
    BY <2>1, <2>2
<1> QED
  BY <1>1, <1>2, NextMoves, StorageTyped, SafetyInvariant, RegistryInvariant,
     LedgerInvariant, PTL DEF Spec

\* Only the event a call is made for changes its phase, and none its token.
LEMMA OthersKeepPhase ==
  ASSUME NEW e \in EventIds, \A x \in EventIds \ {e} : SameMoney(x)
  PROVE  \A x \in EventIds \ {e} :
           /\ PhaseOf(status'[x]) = PhaseOf(status[x])
           /\ (IF EventExists(x) THEN Token(x) ELSE None)'
                = (IF EventExists(x) THEN Token(x) ELSE None)
BY DEF SameMoney, EventExists, Token

\* create_event opens a pool, add_funds funds one, the claims and the refunds
\* pay from one, start_cancel starts closing one: the steps of EscrowPool.
LEMMA MoneyStepRefines ==
  ASSUME StorageTypes, StorageTypes', SafetyInv, HasStatus, LedgerTypes,
         PoolsTyped, PoolsTyped', MoneyStep
  PROVE  [Pool!PoolNext]_(Pool!poolVars)
<1> DEFINE phase == [x \in EventIds |-> PhaseOf(status[x])]
           pool  == [x \in EventIds |-> IF EventExists(x) THEN Liability(x) ELSE 0]
           token == [x \in EventIds |-> IF EventExists(x) THEN Token(x) ELSE None]
<1>1. \A x \in EventIds : /\ pool[x] = PoolOf(x) /\ pool'[x] = PoolOf(x)'
                          /\ pool[x] \in Nat /\ pool'[x] \in Nat
  BY DEF PoolOf, PoolsTyped
<1>2. \A x \in EventIds : EventExists(x)' => Token(x)' \in Tokens
  BY StorageAssumption
  DEF StorageTypes, RecordTypes, EventExists, Token, CreateEventParams
<1>3. CASE NoMoney
  BY <1>3, NoMoneyStutters
<1>4. ASSUME NEW e \in EventIds, NEW d \in Nat, Opens(e, d)
      PROVE  Pool!Open(e)
  <2>1. \A x \in EventIds \ {e} : SameMoney(x)
    BY <1>4 DEF Opens, Books
  <2>2. phase[e] = "None" /\ phase' = [phase EXCEPT ![e] = "Open"]
    <3>1. status[e] = "None" /\ status'[e] = "Active"
      BY <1>4 DEF Opens, SafetyInv, EventSafe, FreshIsEmpty
    <3>2. phase[e] = "None" /\ phase'[e] = "Open"
      BY <3>1 DEF PhaseOf
    <3>3. \A x \in EventIds \ {e} : phase'[x] = phase[x]
      BY <2>1, OthersKeepPhase
    <3> QED
      BY <3>2, <3>3
  <2>3. Token(e)' \in Tokens /\ token'[e] = Token(e)'
    BY <1>2, <1>4 DEF Opens, Books
  <2>4. token' = [token EXCEPT ![e] = Token(e)']
    <3>1. \A x \in EventIds \ {e} : token'[x] = token[x]
      BY <2>1, OthersKeepPhase
    <3> QED
      BY <2>3, <3>1
  <2>5. Pool!PoolAndVaultMove(e)
    BY <1>4, <2>3, BooksMovesPool DEF Opens
  <2>6. pool'[e] >= 0
    BY <1>1
  <2> QED
    BY <2>2, <2>3, <2>4, <2>5, <2>6 DEF Pool!Open
<1>5. ASSUME NEW e \in EventIds, \A x \in EventIds \ {e} : SameMoney(x),
             EventExists(e), UNCHANGED terms
      PROVE  /\ UNCHANGED token
             /\ UNCHANGED status => UNCHANGED phase
  <2>1. \A x \in EventIds : token'[x] = token[x]
    BY <1>5, OthersKeepPhase DEF EventExists, Token
  <2> QED
    BY <2>1
<1>6. ASSUME NEW e \in EventIds, NEW d \in Nat \ {0}, Funds(e, d)
      PROVE  Pool!Fund(e)
  <2>1. /\ \A x \in EventIds \ {e} : SameMoney(x)
        /\ EventExists(e) /\ UNCHANGED <<terms, status>>
        /\ status[e] = "Active" /\ PoolOf(e)' = PoolOf(e) + d
        /\ EventExists(e)'
    BY <1>6 DEF Funds, Books
  <2>2. phase[e] = "Open" /\ UNCHANGED <<phase, token>>
    BY <1>5, <2>1 DEF PhaseOf
  <2>3. pool'[e] > pool[e]
    BY <1>1, <2>1
  <2>4. Pool!PoolAndVaultMove(e)
    BY <1>2, <1>6, <2>1, BooksMovesPool DEF Funds
  <2> QED
    BY <2>2, <2>3, <2>4 DEF Pool!Fund
<1>7. ASSUME NEW e \in EventIds, NEW d \in Nat, Pays(e, d)
      PROVE  Pool!Pay(e)
  <2>1. /\ \A x \in EventIds \ {e} : SameMoney(x)
        /\ EventExists(e) /\ UNCHANGED terms /\ EventExists(e)'
        /\ status'[e] \in {status[e], "Completed", "Cancelled"}
        /\ PoolOf(e)' = PoolOf(e) + (-d) /\ Books(e, -d)
    BY <1>7 DEF Pays, Books
  <2>2. phase[e] # "None" /\ UNCHANGED token
    <3>1. status[e] \in Statuses \ {"None"}
      BY <2>1 DEF HasStatus, StorageTypes, RecordTypes
    <3>2. phase[e] # "None"
      BY <3>1 DEF PhaseOf, Statuses
    <3> QED
      BY <1>5, <2>1, <3>2
  <2>3. phase' \in {phase, [phase EXCEPT ![e] = "Closed"]}
    <3>1. status'[e] = status[e] \/ PhaseOf(status'[e]) = "Closed"
      BY <2>1 DEF PhaseOf
    <3>2. phase'[e] \in {phase[e], "Closed"}
      BY <3>1
    <3>3. \A x \in EventIds \ {e} : phase'[x] = phase[x]
      BY <2>1, OthersKeepPhase
    <3> QED
      BY <3>2, <3>3
  <2>4. pool'[e] \in 0 .. pool[e]
    BY <1>1, <2>1
  <2>5. Pool!PoolAndVaultMove(e)
    <3>1. -d \in Int
      OBVIOUS
    <3> QED
      BY <1>2, <2>1, <3>1, BooksMovesPool
  <2> QED
    BY <2>2, <2>3, <2>4, <2>5 DEF Pool!Pay
<1>8. ASSUME NEW e \in EventIds, Rounds(e) PROVE Pool!StartClosing(e)
  <2>1. /\ \A x \in EventIds \ {e} : SameMoney(x)
        /\ EventExists(e) /\ UNCHANGED <<terms, balance>>
        /\ status[e] = "Active" /\ status'[e] = "Cancelling"
        /\ PoolOf(e)' <= PoolOf(e)
    BY <1>8 DEF Rounds
  <2>2. phase[e] = "Open" /\ phase' = [phase EXCEPT ![e] = "Closing"]
    <3>1. phase[e] = "Open" /\ phase'[e] = "Closing"
      BY <2>1 DEF PhaseOf
    <3>2. \A x \in EventIds \ {e} : phase'[x] = phase[x]
      BY <2>1, OthersKeepPhase
    <3> QED
      BY <3>1, <3>2
  <2>3. pool'[e] \in 0 .. pool[e]
    BY <1>1, <2>1
  <2>4. pool' = [pool EXCEPT ![e] = pool'[e]]
    <3>1. \A x \in EventIds \ {e} : pool'[x] = pool[x]
      BY <1>1, <2>1, SameMoneySamePool
    <3> QED
      BY <3>1
  <2>5. UNCHANGED token
    BY <1>5, <2>1
  <2> QED
    BY <2>1, <2>2, <2>3, <2>4, <2>5 DEF Pool!StartClosing
<1> QED
  BY <1>3, <1>4, <1>6, <1>7, <1>8, Zenon DEF MoneyStep, Pool!PoolNext

\* The contract implements EscrowPool: every call of it moves one event's pool
\* and the vault by the same amount, or neither (escrow.rs books each deposit
\* and release on the event it is made for).
THEOREM EscrowPoolImplemented == Spec => ImplementsEscrowPool
<1>1. Init => Pool!PoolInit
  BY AddressAssumption
  DEF Init, Pool!PoolInit, PhaseOf, EventExists, Holders
<1>2. /\ StorageTypes /\ StorageTypes' /\ SafetyInv /\ RegistryInv
      /\ HasStatus /\ LedgerInv /\ PoolsTyped /\ PoolsTyped' /\ [Next]_vars
      => [Pool!PoolNext]_(Pool!poolVars)
  BY NextMoves, MoneyStepRefines DEF LedgerInv
<1> QED
  BY <1>1, <1>2, StorageTyped, SafetyInvariant, RegistryInvariant,
     StatusInvariant, LedgerInvariant, PoolsAlwaysTyped, PTL
  DEF Spec, ImplementsEscrowPool, Pool!PoolSpec
=============================================================================
