---------------------------- MODULE TokenRegistry ----------------------------
(***************************************************************************)
(* The token whitelist with the list that makes it enumerable              *)
(* (token_whitelist.rs, storage.rs).  Membership is a flag per token;      *)
(* beside it a dense list of the members and, per token, its place in the  *)
(* list.  Removing a token moves the last one into its place.  Each call   *)
(* is signed by the admin; EventsContract models the membership only.      *)
(***************************************************************************)
EXTENDS Integers, FiniteSets

CONSTANT Tokens

VARIABLES
  supported,   \* SupportedToken: the flag create_event consults
  at,          \* SupportedTokenAt: the token at each index in use
  slot,        \* SupportedTokenSlot: a token's index + 1, 0 if not listed
  count        \* SupportedTokenCount

registryVars == <<supported, at, slot, count>>

RegistryInit ==
  /\ supported = [t \in Tokens |-> FALSE]
  /\ at = [i \in {} |-> CHOOSE t \in Tokens : TRUE]
  /\ slot = [t \in Tokens |-> 0]
  /\ count = 0

\* A slip: the list grows even if the token is on it.
AppendAgain(t) ==
  /\ at' = [i \in DOMAIN at \cup {count} |-> IF i = count THEN t ELSE at[i]]
  /\ slot' = [slot EXCEPT ![t] = count + 1]
  /\ count' = count + 1

\* append_supported_token: a listed token is not listed again.
AppendSupportedToken(t) ==
  IF slot[t] # 0
  THEN UNCHANGED <<at, slot, count>>
  ELSE /\ at' = [i \in DOMAIN at \cup {count} |-> IF i = count THEN t ELSE at[i]]
       /\ slot' = [slot EXCEPT ![t] = count + 1]
       /\ count' = count + 1

\* A slip: the moved token keeps its old slot.
RemoveKeepingSlot(t) ==
  IF slot[t] = 0
  THEN UNCHANGED <<at, slot, count>>
  ELSE LET idx == slot[t] - 1  last == count - 1 IN
       /\ at' = [i \in DOMAIN at \ {last} |-> IF i = idx THEN at[last] ELSE at[i]]
       /\ slot' = [slot EXCEPT ![t] = 0]
       /\ count' = last

\* remove_supported_token: the last token moves into the gap, if there is one.
RemoveSupportedToken(t) ==
  IF slot[t] = 0
  THEN UNCHANGED <<at, slot, count>>
  ELSE LET idx == slot[t] - 1  last == count - 1 IN
       /\ at' = [i \in DOMAIN at \ {last} |-> IF i = idx THEN at[last] ELSE at[i]]
       /\ slot' = [slot EXCEPT ![at[last]] = slot[t], ![t] = 0]
       /\ count' = last

Register(t) ==
  /\ supported' = [supported EXCEPT ![t] = TRUE]
  /\ AppendSupportedToken(t)

Deregister(t) ==
  /\ supported' = [supported EXCEPT ![t] = FALSE]
  /\ RemoveSupportedToken(t)

RegistryNext ==
  \/ \E t \in Tokens : Register(t)
  \/ \E t \in Tokens : Deregister(t)

RegistrySpec == RegistryInit /\ [][RegistryNext]_registryVars

-----------------------------------------------------------------------------

\* What a client reads by asking for supported_token_at(0), (1), ... up to the
\* count.
Listed == {at[i] : i \in 0 .. count - 1}

\* What create_event accepts.
Supported == {t \in Tokens : supported[t]}

RegistryTypeOK ==
  /\ supported \in [Tokens -> BOOLEAN]
  /\ count \in Nat
  /\ at \in [0 .. count - 1 -> Tokens]
  /\ slot \in [Tokens -> Nat]

\* The list holds every supported token exactly once and no other: a token's
\* slot finds it in the list and the list finds its slot, after any sequence
\* of registrations and removals (the swap in remove_supported_token).
EnumerationExact ==
  /\ DOMAIN at = 0 .. count - 1
  /\ \A t \in Tokens : supported[t] <=> slot[t] # 0
  /\ \A t \in Tokens : slot[t] # 0 => slot[t] <= count /\ at[slot[t] - 1] = t
  /\ \A i \in 0 .. count - 1 : slot[at[i]] = i + 1

Whitelist == INSTANCE TokenSet WITH accepted <- Supported, shown <- Listed

\* To create_event and to a client that enumerates it the whitelist is one set
\* of tokens: a call adds or drops the token it names and no other
\* (token_whitelist.rs register, deregister), and after every call the list
\* shows what create_event accepts, whatever the swaps inside it.
ImplementsTokenSet == Whitelist!SetSpec
=============================================================================
