--------------------------- MODULE EventMigration ---------------------------
(***************************************************************************)
(* Migration after an upgrade (admin.rs): migrate_events converts the      *)
(* stored events from the layout before 1.7.0, a page at a time behind a   *)
(* stored cursor, and migrate stamps the version once none remain.  The    *)
(* contract is in use meanwhile, unless it is paused: events are created   *)
(* in the current layout, those it can read pay out, and further upgrades  *)
(* are applied.                                                            *)
(***************************************************************************)
EXTENDS Integers, FiniteSets, Functions

CONSTANTS
  Unset,
  Versions,      \* version labels, numbered in the order of their release
  MaxEvents,     \* bound: events that ever exist
  MaxPerCall,    \* MAX_PER_CALL
  PageSizes,     \* what callers pass as max_events
  OldRows,       \* records the code before 1.7.0 left: percentages per position
  NewRows        \* records create_event stores now: floors per position

\* A stored EventRecord, as far as migration tells records apart; prizes holds
\* percentages or floors by position.
IsRow(r) ==
  /\ DOMAIN r = {"layout", "total_budget", "remaining_escrow", "prizes"}
  /\ r.layout \in {"percentages", "floors"}
  /\ r.total_budget \in Nat /\ r.remaining_escrow \in Nat

\* The prizes of a record are within what its creation allowed: percentages
\* share one whole, floors the budget.
PrizesWithin(r) ==
  /\ IsFiniteSet(DOMAIN r.prizes)
  /\ \A p \in DOMAIN r.prizes : r.prizes[p] \in Nat
  /\ SumFunction(r.prizes) <= IF r.layout = "percentages" THEN 100
                                                        ELSE r.total_budget

\* create_event checks the floors of a new record.  The code that wrote the old
\* ones is not in the repository; those it shows (tests/admin.rs, and the two
\* of the mainnet upgrade) are 100, and 60 with 40.
ASSUME DistributionAssumption ==
  \A r \in OldRows \cup NewRows : PrizesWithin(r)

ASSUME MigrationAssumption ==
  /\ Unset \notin Int /\ Versions \subseteq Nat
  /\ MaxEvents \in Nat /\ MaxPerCall \in Nat \ {0} /\ PageSizes \subseteq Nat
  /\ \A r \in OldRows : IsRow(r) /\ r.layout = "percentages"
  /\ \A r \in NewRows : IsRow(r) /\ r.layout = "floors"

VARIABLES
  rows,          \* Event(id), for the ids 1 .. next - 1
  next,          \* NextEventId
  cursor,        \* MigrationCursor: Unset before the first page
  version,       \* Version
  migrated_to,   \* MigratedToVersion
  events_paused, \* Paused, of this contract
  booked         \* history: what the contract holds for each event

migrationVars == <<rows, next, cursor, version, migrated_to, events_paused, booked>>

\* Only the old layout has a winner_distribution.
Legacy(e) == rows[e].layout = "percentages"

\* get_migration_cursor(..).unwrap_or(first): ids start at 1 here.
Cursor == IF cursor = Unset THEN 1 ELSE cursor

\* A deployment as an upgrade finds it: rows of both layouts, old ones only
\* where no earlier migration has been, not stamped for this version.
MigrationInit ==
  /\ next \in 1 .. MaxEvents + 1
  /\ rows \in [1 .. next - 1 -> OldRows \cup NewRows]
  /\ cursor \in {Unset} \cup 1 .. next
  /\ \A e \in 1 .. next - 1 : Legacy(e) => Cursor <= e
  /\ version \in Versions
  /\ migrated_to \in {Unset} \cup {v \in Versions : v < version}
  /\ events_paused \in BOOLEAN
  /\ booked = [e \in 1 .. next - 1 |-> rows[e].remaining_escrow]

\* A slip: floors are rounded up.
ConvertedRoundingUp(row) ==
  [row EXCEPT
     !.layout = "floors",
     !.prizes = [p \in DOMAIN @ |-> (row.total_budget * @[p] + 99) \div 100]]

\* A slip: the escrow is set back to the budget.
ConvertedRefilled(row) ==
  [row EXCEPT !.layout = "floors", !.remaining_escrow = row.total_budget]

\* Each percentage becomes the amount it stood for; a floor of 0 is left out.
Converted(row) ==
  LET floor(p) == (row.total_budget * row.prizes[p]) \div 100
      kept == {p \in DOMAIN row.prizes : floor(p) > 0}
  IN  [row EXCEPT !.layout = "floors", !.prizes = [p \in kept |-> floor(p)]]

\* migrate_one_event: a row already in the current layout is left alone.
MigrateOneEvent(row) ==
  IF row.layout = "percentages" THEN Converted(row) ELSE row

\* The page's size: 0 and anything above MaxPerCall mean MaxPerCall.
Budget(max) == IF max = 0 \/ max > MaxPerCall THEN MaxPerCall ELSE max

PageEnd(max) == IF Cursor + Budget(max) < next THEN Cursor + Budget(max) ELSE next

\* A slip: the cursor moves to the newest event whatever the page held.
MigrateEventsSkipping(max) ==
  /\ rows' = [e \in DOMAIN rows |-> IF e \in Cursor .. PageEnd(max) - 1
                                    THEN MigrateOneEvent(rows[e]) ELSE rows[e]]
  /\ cursor' = next
  /\ UNCHANGED <<next, version, migrated_to, events_paused, booked>>

\* The loop converts the events of the page one by one; they are distinct, so
\* it is written as one update.  (The cursor never passes next.)
MigrateEvents(max) ==
  /\ rows' = [e \in DOMAIN rows |-> IF e \in Cursor .. PageEnd(max) - 1
                                    THEN MigrateOneEvent(rows[e]) ELSE rows[e]]
  /\ cursor' = PageEnd(max)
  /\ UNCHANGED <<next, version, migrated_to, events_paused, booked>>

\* migration_remaining: events behind which the cursor has yet to pass.
MigrationRemaining == next - Cursor

\* Refused while events remain, and once per version.
Migrate ==
  /\ migrated_to # version
  /\ MigrationRemaining <= 0
  /\ migrated_to' = version
  /\ UNCHANGED <<rows, next, cursor, version, events_paused, booked>>

\* create_event stores its record in the current layout.
CreateEvent(row) ==
  /\ ~events_paused
  /\ next <= MaxEvents
  /\ rows' = [e \in 1 .. next |-> IF e = next THEN row ELSE rows[e]]
  /\ booked' = [e \in 1 .. next |-> IF e = next THEN row.remaining_escrow ELSE booked[e]]
  /\ next' = next + 1
  /\ UNCHANGED <<cursor, version, migrated_to, events_paused>>

\* Any call that pays out of an event.  It reads the record first, and one in
\* the old layout does not decode: the call traps.
PayOut(e, amount) ==
  /\ ~events_paused
  /\ ~Legacy(e)
  /\ amount <= rows[e].remaining_escrow
  /\ rows' = [rows EXCEPT ![e].remaining_escrow = @ - amount]
  /\ booked' = [booked EXCEPT ![e] = @ - amount]
  /\ UNCHANGED <<next, cursor, version, migrated_to, events_paused>>

\* apply_upgrade: a later release, with this same migration code and a label
\* of its own.
Upgrade(v) ==
  /\ v > version
  /\ version' = v
  /\ UNCHANGED <<rows, next, cursor, migrated_to, events_paused, booked>>

\* pause, which stops neither migrate_events nor an upgrade.
PauseEvents ==
  /\ events_paused' = TRUE
  /\ UNCHANGED <<rows, next, cursor, version, migrated_to, booked>>

UnpauseEvents ==
  /\ events_paused' = FALSE
  /\ UNCHANGED <<rows, next, cursor, version, migrated_to, booked>>

MigrationNext ==
  \/ \E max \in PageSizes : MigrateEvents(max)
  \/ Migrate
  \/ \E row \in NewRows : CreateEvent(row)
  \/ \E e \in DOMAIN rows, amount \in {1} : PayOut(e, amount)
  \/ \E v \in Versions : Upgrade(v)
  \/ PauseEvents \/ UnpauseEvents

MigrationSpec == MigrationInit /\ [][MigrationNext]_migrationVars

-----------------------------------------------------------------------------

\* Once the live version is stamped, no event is left that the code cannot
\* read, in whatever order pages were called, events created and upgrades
\* applied (admin.rs migrate, migration_remaining).
StampMeansDecodable ==
  migrated_to = version => \A e \in DOMAIN rows : ~Legacy(e)

\* Conversion keeps to the layout: it moves no money, and what an event that
\* can be read has published is never rewritten (admin.rs migrate_one_event;
\* Tamp.19 in docs/threat-model.md).
ConversionKeepsBooks ==
  [][\A e \in DOMAIN rows :
       /\ rows'[e].remaining_escrow = booked'[e]
       /\ rows'[e].total_budget = rows[e].total_budget
       /\ ~Legacy(e) => ~Legacy(e)' /\ rows'[e].prizes = rows[e].prizes]_migrationVars

\* The floors an event ends up with never add up to more than its budget, as
\* create_event demands of a new one.
FloorsAffordable ==
  \A e \in DOMAIN rows :
    ~Legacy(e) => SumFunction(rows[e].prizes) <= rows[e].total_budget

-----------------------------------------------------------------------------

Backlog == INSTANCE MigrationBacklog
             WITH backlog <- MigrationRemaining, MaxBacklog <- MaxEvents

\* Cursor and rows come to a number of events that wait: a page takes away at
\* most its size, a creation adds one while the contract is not paused, and
\* nothing else changes it (admin.rs migration_remaining).
ImplementsBacklog == Backlog!BacklogSpec
=============================================================================
