-------------------------- MODULE ClaimWindowHistory --------------------------
(***************************************************************************)
(* The claim window of a prize, measured independently of the code's own   *)
(* clock: open_days[e][i] is how many days the contract has been open      *)
(* since winner row i was written.  A history variable; it restricts       *)
(* nothing.                                                                *)
(***************************************************************************)
EXTENDS EventsProperties

VARIABLE open_days

HistoryInit == Init /\ open_days = [e \in EventIds |-> << >>]

DayOpen == IF now' > now /\ ~paused THEN 1 ELSE 0

HistoryNext ==
  /\ Next
  /\ open_days' = [e \in EventIds |->
       [i \in 1 .. Len(winners'[e]) |->
          IF i \in DOMAIN winners[e] THEN open_days[e][i] + DayOpen ELSE 0]]

HistorySpec == HistoryInit /\ [][HistoryNext]_<<vars, open_days>>

\* No prize is cancelled away before its winner had the whole claim window,
\* counted in days on which claiming was possible: pauses do not eat it, and
\* neither does a window another selection opened (start_cancel, open_time).
ClaimWindowHonoured ==
  [][\A e \in Events :
       IsSingle(e) /\ status[e] = "Active"
         /\ status'[e] \in {"Cancelling", "Cancelled"} =>
           \A i \in UnpaidRows(e) : open_days[e][i] > ClaimWindow]_vars

\* The window does end: once every award has had its days, unclaimed prizes no
\* longer hold the funds back from a cancel.
ClaimWindowEnds ==
  \A e \in Events :
    IsSingle(e) /\ (\A i \in DOMAIN winners[e] : open_days[e][i] > ClaimWindow)
      => ~AwardsBlockCancel(e)
=============================================================================
