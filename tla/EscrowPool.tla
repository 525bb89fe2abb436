----------------------------- MODULE EscrowPool -----------------------------
(***************************************************************************)
(* What the events contract promises of the money it holds, without how:   *)
(* every event has a pool of its own inside one vault per token.  A pool   *)
(* grows only by funds that enter the vault, shrinks only by funds that    *)
(* leave it, and is never touched by another event's calls.  A pool that   *)
(* is closing or closed takes no more funds.  Only closing may round.      *)
(***************************************************************************)
EXTENDS Integers

CONSTANTS Events, Tokens, NoToken

VARIABLES phase, pool, token, vault

poolVars == <<phase, pool, token, vault>>

PoolInit ==
  /\ phase = [e \in Events |-> "None"]
  /\ pool  = [e \in Events |-> 0]
  /\ token = [e \in Events |-> NoToken]
  /\ vault = [t \in Tokens |-> 0]

\* Only e changes, and the vault by exactly as much as e's pool.
PoolAndVaultMove(e) ==
  /\ pool'  = [pool EXCEPT ![e] = pool'[e]]
  /\ vault' = [vault EXCEPT ![token'[e]] = @ + (pool'[e] - pool[e])]

Open(e) ==
  /\ phase[e] = "None" /\ phase' = [phase EXCEPT ![e] = "Open"]
  /\ \E t \in Tokens : token' = [token EXCEPT ![e] = t]
  /\ pool'[e] >= 0
  /\ PoolAndVaultMove(e)

Fund(e) ==
  /\ phase[e] = "Open" /\ UNCHANGED <<phase, token>>
  /\ pool'[e] > pool[e]
  /\ PoolAndVaultMove(e)

\* Pay some or all of the pool out; doing so may close an open event.
Pay(e) ==
  /\ phase[e] # "None" /\ UNCHANGED token
  /\ phase' \in {phase, [phase EXCEPT ![e] = "Closed"]}
  /\ pool'[e] \in 0 .. pool[e]
  /\ PoolAndVaultMove(e)

\* Fixing the refunds rounds them down: the loss stays in the vault.
StartClosing(e) ==
  /\ phase[e] = "Open" /\ phase' = [phase EXCEPT ![e] = "Closing"]
  /\ pool'[e] \in 0 .. pool[e]
  /\ pool' = [pool EXCEPT ![e] = pool'[e]]
  /\ UNCHANGED <<token, vault>>

PoolNext ==
  \E e \in Events : Open(e) \/ Fund(e) \/ Pay(e) \/ StartClosing(e)

PoolSpec == PoolInit /\ [][PoolNext]_poolVars
=============================================================================
