--------------------------- MODULE ControlHistory ---------------------------
(***************************************************************************)
(* What an observer of the published events knows of the part of the       *)
(* control plane that the two contracts share: which appointments and      *)
(* which upgrade are on offer, and since when.  The history is kept beside *)
(* the contract and never read by it.                                      *)
(***************************************************************************)
EXTENDS ContractAdmin

Offered == [target : Addresses, since : Nat]
Announced == [release : Releases, since : Nat]

ASSUME HistoryAssumption == None \notin Offered \cup Announced

VARIABLES
  offered,     \* per role, the target now on offer and the day it was offered
  announced    \* the release now announced and the day it was announced

Roles == {"admin", "validator"}

NothingOffered == offered = [role \in Roles |-> None] /\ announced = None

Offer(role, a) == offered' = [offered EXCEPT ![role] = [target |-> a, since |-> now]]
Withdraw(role) == offered' = [offered EXCEPT ![role] = None]

\* An offer ends when it is taken up, withdrawn or replaced.
RotateAdmin ==
  /\ \/ \E a \in Addresses : SetAdmin(a) /\ Offer("admin", a)
     \/ AcceptAdmin /\ Withdraw("admin")
  /\ UNCHANGED announced

UpgradeContract ==
  /\ \/ \E r \in Releases : ProposeUpgrade(r) /\ announced' = [release |-> r, since |-> now]
     \/ ApplyUpgrade /\ announced' = None
     \/ CancelPendingUpgrade /\ announced' = None
  /\ UNCHANGED offered
=============================================================================
