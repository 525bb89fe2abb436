-------------------------- MODULE MigrationBacklog --------------------------
(***************************************************************************)
(* What a migration leaves to do, as a number: the events its cursor has   *)
(* yet to pass.  EventMigration implements this; here the number of events *)
(* that wait is bounded and the number ever created is not, so that        *)
(* create_event can keep migrate from its stamp for as long as it likes.   *)
(***************************************************************************)
EXTENDS Integers

CONSTANTS
  Unset,
  Versions,      \* version labels, numbered in the order of their release
  MaxPerCall,    \* MAX_PER_CALL
  PageSizes,     \* what callers pass as max_events
  MaxBacklog     \* bound: events that wait at one time

VARIABLES
  backlog,       \* what migration_remaining returns
  version,       \* Version
  migrated_to,   \* MigratedToVersion
  events_paused  \* Paused, of the events contract

backlogVars == <<backlog, version, migrated_to, events_paused>>

BacklogInit ==
  /\ backlog \in 0 .. MaxBacklog
  /\ version \in Versions
  /\ migrated_to \in {Unset} \cup {v \in Versions : v < version}
  /\ events_paused \in BOOLEAN

\* migrate_events, which the pause does not stop.
ShrinkBacklog(max) ==
  LET budget == IF max = 0 \/ max > MaxPerCall THEN MaxPerCall ELSE max
  IN  /\ backlog' = IF budget < backlog THEN backlog - budget ELSE 0
      /\ UNCHANGED <<version, migrated_to, events_paused>>

\* migrate: refused while events remain, and once per version.
StampVersion ==
  /\ migrated_to # version
  /\ backlog <= 0
  /\ migrated_to' = version
  /\ UNCHANGED <<backlog, version, events_paused>>

\* A slip: create_event does not ask for the pause.
GrowBacklogAnytime ==
  /\ backlog < MaxBacklog
  /\ backlog' = backlog + 1
  /\ UNCHANGED <<version, migrated_to, events_paused>>

\* create_event: any event created after the last page is one more to pass.
GrowBacklog ==
  /\ ~events_paused
  /\ backlog < MaxBacklog
  /\ backlog' = backlog + 1
  /\ UNCHANGED <<version, migrated_to, events_paused>>

\* apply_upgrade, of a release with a label of its own.
NewVersion(v) ==
  /\ v > version
  /\ version' = v
  /\ UNCHANGED <<backlog, migrated_to, events_paused>>

\* pause and unpause.
SetPaused(p) ==
  /\ events_paused' = p
  /\ UNCHANGED <<backlog, version, migrated_to>>

BacklogNext ==
  \/ \E max \in PageSizes : ShrinkBacklog(max)
  \/ StampVersion
  \/ GrowBacklog
  \/ \E v \in Versions : NewVersion(v)
  \/ \E p \in BOOLEAN : SetPaused(p)

BacklogSpec == BacklogInit /\ [][BacklogNext]_backlogVars

-----------------------------------------------------------------------------

\* The operator of docs/upgrade-runbook.md repeats migrate_events until none
\* remain and then calls migrate.  Nothing else is fair, creations least of all.
BacklogFairness ==
  /\ WF_backlogVars(\E max \in PageSizes : ShrinkBacklog(max))
  /\ WF_backlogVars(StampVersion)

\* The version that stays is stamped, if from some point on the contract is
\* kept paused until it is (steps 4 to 8 of the runbook's mainnet procedure;
\* admin.rs migrate).  The pause is needed: an event created between the last
\* page and the stamp makes migrate refuse, and one more may follow each page
\* for ever.
MigrationFinishes ==
  \A v \in Versions :
    /\ <>[](version = v)
    /\ <>[](events_paused \/ migrated_to = v)
    => <>[](migrated_to = v)
=============================================================================
