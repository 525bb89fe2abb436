-------------------------- MODULE OperationRetries --------------------------
(***************************************************************************)
(* The backend retries a deposit whose outcome it did not learn, with the  *)
(* same operation id, until RetryWindow days after it first sent it; the   *)
(* answer OpAlreadySeen counts as success of the earlier attempt.  Only    *)
(* the OpSeen marker, which lives for a day, tells a retry from a new      *)
(* deposit (idempotency.rs, storage.rs mark_op_seen).                      *)
(***************************************************************************)
EXTENDS EventsProperties

CONSTANT RetryWindow   \* days during which the backend may send an op again

ASSUME RetryAssumption == RetryWindow \in Nat

VARIABLES
  first_sent,   \* the day each <<signer, op>> was first sent, 0 if never
  applied       \* how many times its deposit took effect

retryVars == <<vars, first_sent, applied>>

Ops == Users \X OpIds

RetryInit ==
  /\ Init
  /\ first_sent = [o \in Ops |-> 0]
  /\ applied = [o \in Ops |-> 0]

\* Managers and selections carry no deposit and are left out.
OtherCall ==
  /\ \/ \E params \in EventParams, op \in OpIds : CreateEvent(params, op)
     \/ CancellationNext
     \/ GrantsNext
     \/ AdminNext
     \/ WorldNext
  /\ UNCHANGED <<first_sent, applied>>

\* A first attempt, or a retry within the window, that the contract accepts.
\* (Bound: nothing is sent on day MaxTime, after which the clock stands still.)
SendDeposit(e, from, amount, op) ==
  /\ now < MaxTime
  /\ first_sent[<<from, op>>] # 0 =>
       now <= first_sent[<<from, op>>] + RetryWindow
  /\ AddFunds(e, from, amount, op)
  /\ first_sent' = [first_sent EXCEPT ![<<from, op>>] = IF @ = 0 THEN now ELSE @]
  /\ applied' = [applied EXCEPT ![<<from, op>>] = @ + 1]

RetryNext ==
  \/ \E e \in EventIds, from \in Users, amount \in Contributions, op \in OpIds :
        SendDeposit(e, from, amount, op)
  \/ OtherCall

RetrySpec == RetryInit /\ [][RetryNext]_retryVars

\* A deposit sent once takes effect at most once, however often it is retried
\* within the window the backend allows itself.
DepositAppliedOnce == \A o \in Ops : applied[o] <= 1
=============================================================================
