------------------------------ MODULE TokenSet ------------------------------
(***************************************************************************)
(* What the token whitelist promises: a set of tokens, each registered or  *)
(* deregistered on its own, and a list that shows that very set.           *)
(***************************************************************************)
CONSTANT Tokens

VARIABLES
  accepted,   \* the tokens a new event may be funded in
  shown       \* the tokens a reader of the list finds

SetInit == accepted = {} /\ shown = {}

Add(t)  == accepted' = accepted \cup {t} /\ shown' = accepted'
Drop(t) == accepted' = accepted \ {t} /\ shown' = accepted'

SetNext == \E t \in Tokens : Add(t) \/ Drop(t)

SetSpec == SetInit /\ [][SetNext]_<<accepted, shown>>
=============================================================================
