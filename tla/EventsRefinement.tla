--------------------------- MODULE EventsRefinement ---------------------------
(***************************************************************************)
(* The events contract implements EscrowPool: an event's pool is what the  *)
(* contract may still be asked to pay for it, the vault is the contract's  *)
(* token balance.                                                          *)
(***************************************************************************)
EXTENDS EventsProperties

PhaseOf(s) ==
  CASE s = "None" -> "None" [] s = "Active" -> "Open"
    [] s = "Cancelling" -> "Closing" [] s \in {"Completed", "Cancelled"} -> "Closed"

Pool == INSTANCE EscrowPool WITH
  Events  <- EventIds,
  NoToken <- None,
  phase   <- [e \in EventIds |-> PhaseOf(status[e])],
  pool    <- [e \in EventIds |-> IF EventExists(e) THEN Liability(e) ELSE 0],
  token   <- [e \in EventIds |-> IF EventExists(e) THEN Token(e) ELSE None],
  vault   <- [t \in Tokens |-> balance[t][Contract]]

\* Each call of the contract moves one event's pool, and the vault with it,
\* as EscrowPool allows (escrow.rs: every deposit and release is booked on the
\* event it was made for).
ImplementsEscrowPool == Pool!PoolSpec
=============================================================================
