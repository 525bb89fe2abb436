---------------------------- MODULE PayoutProofs ----------------------------
(***************************************************************************)
(* What the two contracts keep true of each other, for every number of     *)
(* users, tokens, events and ids: markers of the profile contract follow   *)
(* markers of the events contract, so the three calls of a payout that     *)
(* reaches the profile contract are never refused, the reputation it       *)
(* keeps is the one it was sent, and the earnings it keeps are what the    *)
(* winners lists show as paid.                                             *)
(***************************************************************************)
EXTENDS PayoutRecords, AwardProofs

Tags     == {"bootstrap", "bump", "earnings"}
Children == OpIds \X Tags \X ProfileContracts \X Users
Markers  == (Users \cup {Contract, Admin}) \X (Children \cup SlashOps)
Reputations == [Users -> Nat \cup {None}]
Earnings    == [Users -> [Tokens -> Int]]
RecordBooks == [reputation : Reputations, earnings : Earnings,
                op_seen    : SUBSET Markers]

\* The types of the profile contract's records and of the history.
RecordTypesOK ==
  /\ book \in RecordBooks
  /\ profile_contract \in ProfileContracts
  /\ due_reputation \in [Users -> Nat] /\ slashed \in [Users -> Nat]

\* No award is worth more reputation than the profile contract takes at once.
BumpsBounded ==
  \A e \in EventIds, p \in Positions :
    prize_award[e][p] # None =>
      prize_award[e][p].reputation_bump <= MaxReputationBump

\* The inductive invariant.
PayoutInv ==
  /\ StorageTypes /\ RecordTypesOK /\ BumpsBounded
  /\ ChildrenFollowParents /\ ReputationAccounted

\* Every step of the composition is a step of the events contract or leaves it
\* alone, so what is proved of Spec holds of the composition.
LEMMA StepIsCall == [PayoutNext]_payoutVars => [Next]_vars
<1>1. PayoutsNext => AwardsNext \/ GrantsNext
  BY DEF PayoutsNext, PrizePayout, GrantPayout, CampaignPayout, AwardsNext,
         GrantsNext
<1>2. OtherEventsCalls => Next
  BY DEF OtherEventsCalls, AwardsNext, GrantsNext, Next
<1>3. Day => Next
  BY DEF Day, WorldNext, Next
<1>4. LinkNext \/ SelfNext \/ SlashNext => UNCHANGED vars
  BY DEF LinkNext, SelfNext, SlashNext
<1> QED
  BY <1>1, <1>2, <1>3, <1>4, Zenon DEF PayoutNext, Next, payoutVars

\* The composition keeps the events contract's storage typed.
LEMMA PayoutsTyped == PayoutSpec => []StorageTypes
<1>1. PayoutInit => Init
  BY DEF PayoutInit
<1> QED
  BY <1>1, StepIsCall, StorageTyped, PTL DEF PayoutSpec, Spec

\* At deployment nothing is recorded and no marker is set.
LEMMA PayoutInitHolds == PayoutInit /\ StorageTypes => PayoutInv
<1> SUFFICES ASSUME PayoutInit, StorageTypes PROVE PayoutInv
  OBVIOUS
<1> USE PayoutAssumption
<1>1. RecordTypesOK
  BY DEF PayoutInit, RecordTypesOK, RecordBooks, Reputations, Earnings, Records!EmptyBook
<1>2. BumpsBounded
  BY DEF PayoutInit, Init, BumpsBounded
<1>3. ChildrenFollowParents
  BY DEF PayoutInit, ChildrenFollowParents, Records!EmptyBook
<1>4. ReputationAccounted
  BY DEF PayoutInit, ReputationAccounted, Records!EmptyBook
<1> QED
  BY <1>1, <1>2, <1>3, <1>4 DEF PayoutInv

-----------------------------------------------------------------------------
(* The three calls of a payout                                             *)

\* A child of an operation nobody has sent yet has not been seen.
LEMMA ChildrenFresh ==
  ASSUME ChildrenFollowParents, NEW domain, NEW op, NEW tag,
         <<domain, op>> \notin op_seen
  PROVE  <<Contract, Child(domain, op, tag)>> \notin book.op_seen
BY DEF ChildrenFollowParents, Child

\* What a payout leaves in the records: its own three markers at most; and, if
\* the two contracts can talk, a profile raised by its bump and, unless they
\* would not fit an i128, its earnings.  Otherwise nothing changes.
Enters(after, domain, user, t, amount, bump, op) ==
  /\ after \in RecordBooks
  /\ after.op_seen \subseteq book.op_seen \cup
       {<<Contract, Child(domain, op, tag)>> : tag \in Tags}
  /\ ~Reachable => after = book
  /\ Reachable =>
       /\ after.reputation =
            [book.reputation EXCEPT ![user] =
               Records!AtMost((IF @ = None THEN 0 ELSE @) + bump, MaxReputation)]
       /\ \A u \in Users \ {user} : after.earnings[u] = book.earnings[u]
       /\ \A c \in Tokens \ {t} :
            after.earnings[user][c] = book.earnings[user][c]
       /\ amount > 0 /\ book.earnings[user][t] + amount <= MaxEarnings
            => after.earnings = [book.earnings EXCEPT ![user][t] = @ + amount]

\* The three calls enter a payout.
LEMMA RecordedWhole ==
  ASSUME RecordTypesOK, ChildrenFollowParents,
         NEW domain \in Users, NEW user \in Users, NEW t \in Tokens,
         NEW amount \in Int, NEW bump \in Nat, bump <= MaxReputationBump,
         NEW op \in OpIds, <<domain, op>> \notin op_seen,
         NEW after, after = Recorded(domain, user, t, amount, bump, op)
  PROVE  Enters(after, domain, user, t, amount, bump, op)
<1> USE PayoutAssumption, StorageAssumption, NoneAssumption, AddressAssumption
<1> DEFINE id(tag) == Child(domain, op, tag)
           b1 == Bootstrapped(book, domain, user, op)
           b2 == Bumped(b1, domain, user, bump, op)
<1>1. \A tag \in Tags : /\ <<Contract, id(tag)>> \in Markers
                        /\ <<Contract, id(tag)>> \notin book.op_seen
  <2>1. \A tag \in Tags : id(tag) \in Children
    BY DEF RecordTypesOK, Child, Children
  <2> QED
    BY <2>1, ChildrenFresh DEF Markers
<1>2. /\ id("bootstrap") # id("bump") /\ id("bootstrap") # id("earnings")
      /\ id("bump") # id("earnings")
  BY DEF Child
<1>3. book \in RecordBooks
  BY DEF RecordTypesOK
<1>4. after = EarningsRegistered(b2, domain, user, t, amount, op)
  BY DEF Recorded
<1> HIDE DEF id
<1>5. CASE ~Reachable
  <2>1. \A b, i : ~(profile_contract = Profile /\ Records!FromEvents(b, Contract, i))
    BY <1>5 DEF Reachable, Records!FromEvents
  <2>2. b1 = book
    BY <2>1 DEF Bootstrapped, Try
  <2>3. b2 = b1
    BY <2>1 DEF Bumped, Try, Records!BumpAllowed
  <2>4. after = b2
    BY <1>4, <2>1 DEF EarningsRegistered, Try, Records!RegisterAllowed
  <2> QED
    BY <1>3, <1>5, <2>2, <2>3, <2>4 DEF Enters
<1>6. CASE Reachable
  <2>1. profile_contract = Profile /\ events_contract = Contract
        /\ events_contract # None /\ ~profile_paused
    BY <1>6 DEF Reachable
  <2>2. b1 = [book EXCEPT
                !.reputation = [book.reputation EXCEPT ![user] = IF @ = None THEN 0 ELSE @],
                !.op_seen = @ \cup {<<Contract, id("bootstrap")>>}]
    <3>1. Records!FromEvents(book, Contract, id("bootstrap"))
      BY <1>1, <2>1 DEF Records!FromEvents, Records!Seen, Tags
    <3>2. b1 = Records!Bootstrap(book, Contract, user, id("bootstrap"))
      BY <2>1, <3>1 DEF Bootstrapped, Try, id
    <3> QED
      BY <1>3, <3>2
      DEF Records!Bootstrap, Records!WithProfile, Records!Marked, RecordBooks
  <2>3. /\ b1 \in RecordBooks /\ b1.reputation[user] # None /\ b1.reputation[user] \in Nat
        /\ b1.op_seen = book.op_seen \cup {<<Contract, id("bootstrap")>>}
        /\ b1.earnings = book.earnings
        /\ b1.reputation = [book.reputation EXCEPT
                              ![user] = IF @ = None THEN 0 ELSE @]
    <3> DEFINE r1 == [book.reputation EXCEPT ![user] = IF @ = None THEN 0 ELSE @]
               m1 == <<Contract, id("bootstrap")>>
    <3>1. r1 \in Reputations /\ r1[user] \in Nat /\ r1[user] # None
      BY <1>3 DEF RecordBooks, Reputations, Earnings
    <3>2. m1 \in Markers
      BY <1>1 DEF Tags
    <3>3. book.earnings \in Earnings
      BY <1>3 DEF RecordBooks, Reputations, Earnings
    <3>4. b1 = [book EXCEPT !.reputation = r1, !.op_seen = @ \cup {m1}]
      BY <2>2
    <3> HIDE DEF r1, m1, b1
    <3>5. /\ b1 \in RecordBooks /\ b1.reputation = r1 /\ b1.earnings = book.earnings
          /\ b1.op_seen = book.op_seen \cup {m1}
      BY <1>3, <3>1, <3>2, <3>3, <3>4 DEF RecordBooks
    <3> QED
      BY <3>1, <3>5 DEF r1, m1
  <2> HIDE DEF b1
  <2>4. b2 = [b1 EXCEPT
                !.reputation = [b1.reputation EXCEPT
                  ![user] = Records!AtMost(@ + bump, MaxReputation)],
                !.op_seen = @ \cup {<<Contract, id("bump")>>}]
    <3>1. Records!BumpAllowed(b1, Contract, user, bump, id("bump"))
      <4>1. <<Contract, id("bump")>> \notin b1.op_seen
        BY <1>1, <1>2, <2>3 DEF Tags
      <4> QED
        BY <2>1, <2>3, <4>1
        DEF Records!BumpAllowed, Records!FromEvents, Records!Seen
    <3>2. b2 = Records!Bump(b1, Contract, user, bump, id("bump"))
      BY <2>1, <3>1 DEF Bumped, Try, id
    <3> QED
      BY <2>3, <3>2 DEF Records!Bump, Records!Marked, RecordBooks
  <2>5. /\ b2 \in RecordBooks
        /\ b2.op_seen = book.op_seen \cup {<<Contract, id("bootstrap")>>,
                                           <<Contract, id("bump")>>}
        /\ b2.earnings = book.earnings
        /\ b2.reputation =
             [book.reputation EXCEPT ![user] =
                Records!AtMost((IF @ = None THEN 0 ELSE @) + bump, MaxReputation)]
    <3> DEFINE r2 == [b1.reputation EXCEPT
                        ![user] = Records!AtMost(@ + bump, MaxReputation)]
               m2 == <<Contract, id("bump")>>
    <3>1. r2 \in Reputations
      BY <2>3 DEF RecordBooks, Reputations, Earnings, Records!AtMost
    <3>2. m2 \in Markers
      BY <1>1 DEF Tags
    <3>3. b1.earnings \in Earnings
      BY <2>3 DEF RecordBooks, Reputations, Earnings
    <3>4. r2 = [book.reputation EXCEPT ![user] =
                  Records!AtMost((IF @ = None THEN 0 ELSE @) + bump, MaxReputation)]
      BY <1>3, <2>3 DEF RecordBooks, Reputations, Earnings
    <3>5. b2 = [b1 EXCEPT !.reputation = r2, !.op_seen = @ \cup {m2}]
      BY <2>4
    <3> HIDE DEF r2, m2, b2
    <3>6. /\ b2 \in RecordBooks /\ b2.reputation = r2 /\ b2.earnings = b1.earnings
          /\ b2.op_seen = b1.op_seen \cup {m2}
      BY <2>3, <3>1, <3>2, <3>3, <3>5 DEF RecordBooks
    <3> QED
      BY <2>3, <3>4, <3>6 DEF m2
  <2> HIDE DEF b2
  <2> DEFINE g3 == [b2.earnings EXCEPT ![user][t] = @ + amount]
             m3 == <<Contract, id("earnings")>>
  <2>6. after = b2 \/ after = [b2 EXCEPT !.earnings = g3, !.op_seen = @ \cup {m3}]
    BY <1>4, <2>5 DEF EarningsRegistered, Try, Records!Register, Records!Marked,
                      RecordBooks, id
  <2>7. /\ g3 \in Earnings /\ m3 \in Markers
        /\ \A u \in Users \ {user} : g3[u] = b2.earnings[u]
        /\ \A c \in Tokens \ {t} : g3[user][c] = b2.earnings[user][c]
        /\ b2.reputation \in Reputations
    <3>1. b2.earnings \in Earnings
          /\ b2.reputation \in Reputations
      BY <2>5 DEF RecordBooks
    <3>2. g3 \in Earnings
          /\ \A u \in Users \ {user} : g3[u] = b2.earnings[u]
          /\ \A c \in Tokens \ {t} : g3[user][c] = b2.earnings[user][c]
      <4> DEFINE row == [b2.earnings[user] EXCEPT ![t] = @ + amount]
      <4>1. row \in [Tokens -> Int]
            /\ \A c \in Tokens \ {t} : row[c] = b2.earnings[user][c]
        BY <3>1 DEF Earnings
      <4>2. g3 = [b2.earnings EXCEPT ![user] = row]
        OBVIOUS
      <4> HIDE DEF row, g3
      <4> QED
        BY <3>1, <4>1, <4>2 DEF Earnings
    <3> QED
      BY <1>1, <3>1, <3>2 DEF Tags
  <2> HIDE DEF g3, m3
  <2>8. /\ after \in RecordBooks /\ after.reputation = b2.reputation
        /\ after.op_seen \subseteq b2.op_seen \cup {m3}
        /\ after.earnings = b2.earnings \/ after.earnings = g3
    <3>1. CASE after = b2
      BY <2>5, <3>1
    <3>2. CASE after = [b2 EXCEPT !.earnings = g3, !.op_seen = @ \cup {m3}]
      <4>1. b2 \in RecordBooks /\ g3 \in Earnings /\ m3 \in Markers
        BY <2>5, <2>7
      <4>2. /\ after \in RecordBooks /\ after.reputation = b2.reputation
            /\ after.op_seen = b2.op_seen \cup {m3} /\ after.earnings = g3
        BY <3>2, <4>1 DEF RecordBooks
      <4> QED
        BY <4>2
    <3> QED
      BY <2>6, <3>1, <3>2
  <2>9. /\ \A u \in Users \ {user} : after.earnings[u] = book.earnings[u]
        /\ \A c \in Tokens \ {t} :
             after.earnings[user][c] = book.earnings[user][c]
    BY <2>5, <2>7, <2>8
  <2>10. after.op_seen \subseteq book.op_seen \cup
           {<<Contract, Child(domain, op, tag)>> : tag \in Tags}
    BY <2>5, <2>8 DEF id, Tags, m3
  <2>11. ASSUME amount > 0, book.earnings[user][t] + amount <= MaxEarnings
         PROVE  after.earnings = [book.earnings EXCEPT ![user][t] = @ + amount]
    <3>1. m3 \notin b2.op_seen
      BY <1>1, <1>2, <2>5 DEF Tags, m3
    <3>2. Records!RegisterAllowed(b2, Contract, user, t, amount, id("earnings"))
      BY <2>1, <2>5, <2>11, <3>1
      DEF Records!RegisterAllowed, Records!FromEvents, Records!Seen, m3
    <3>3. after = Records!Register(b2, Contract, user, t, amount, id("earnings"))
      BY <1>4, <2>1, <3>2 DEF EarningsRegistered, Try, id
    <3>4. after = [b2 EXCEPT !.earnings = g3, !.op_seen = @ \cup {m3}]
      BY <2>5, <3>3 DEF Records!Register, Records!Marked, RecordBooks, g3, m3
    <3>5. after.earnings = g3
      BY <2>5, <3>4 DEF RecordBooks
    <3> QED
      BY <2>5, <3>5 DEF g3
  <2> QED
    BY <1>6, <2>5, <2>8, <2>9, <2>10, <2>11 DEF Enters
<1> QED
  BY <1>5, <1>6

-----------------------------------------------------------------------------
(* One step of the invariant                                               *)

\* The bump of a payout, the signer and the recipient, for each of the three
\* calls that pay.
PayoutCall(domain, user, t, amount, bump, op) ==
  /\ domain \in Users /\ user \in Users /\ t \in Tokens /\ amount \in Int
  /\ bump \in Nat /\ bump <= MaxReputationBump /\ op \in OpIds
  /\ Unseen(domain, op) /\ MarkSeen(domain, op)
  /\ RecordPayout(domain, user, t, amount, bump, op)

\* The reputation of a user lies between what was due, less what was slashed,
\* and what was due.
InRange(rep, due, taken) ==
  rep \in Records!AtMost(due, MaxReputation) - taken
           .. Records!AtMost(due, MaxReputation)

\* A bump moves both ends alike, and the saturation cuts both.
LEMMA BumpInRange ==
  ASSUME NEW rep \in Nat, NEW due \in Nat, NEW taken \in Nat, NEW bump \in Nat,
         InRange(rep, due, taken)
  PROVE  InRange(Records!AtMost(rep + bump, MaxReputation), due + bump, taken)
BY PayoutAssumption DEF InRange, Records!AtMost

\* However a payout ends, the invariant on the records survives it.
LEMMA PayoutKeeps ==
  ASSUME PayoutInv, NEW domain, NEW user, NEW t, NEW amount, NEW bump, NEW op,
         PayoutCall(domain, user, t, amount, bump, op)
  PROVE  RecordTypesOK' /\ ChildrenFollowParents' /\ ReputationAccounted'
<1> USE PayoutAssumption, StorageAssumption, NoneAssumption, AddressAssumption
<1>1. /\ domain \in Users /\ user \in Users /\ t \in Tokens /\ amount \in Int
      /\ bump \in Nat /\ bump <= MaxReputationBump /\ op \in OpIds
      /\ <<domain, op>> \notin op_seen
      /\ op_seen' = op_seen \cup {<<domain, op>>}
  BY DEF PayoutCall, Unseen, MarkSeen
<1>2. /\ book' = Recorded(domain, user, t, amount, bump, op)
      /\ due_reputation' = IF Reachable
                           THEN [due_reputation EXCEPT ![user] = @ + bump]
                           ELSE due_reputation
      /\ slashed' = slashed /\ profile_contract' = profile_contract
  BY DEF PayoutCall, RecordPayout, linkVars
<1>3. /\ RecordTypesOK /\ ChildrenFollowParents /\ ReputationAccounted
  BY DEF PayoutInv
<1>4. /\ book' \in RecordBooks
      /\ book'.op_seen \subseteq book.op_seen \cup
           {<<Contract, Child(domain, op, tag)>> : tag \in Tags}
      /\ ~Reachable => book' = book
      /\ Reachable =>
           /\ book'.reputation =
                [book.reputation EXCEPT ![user] =
                   Records!AtMost((IF @ = None THEN 0 ELSE @) + bump,
                                  MaxReputation)]
           /\ \A u \in Users \ {user} : book'.earnings[u] = book.earnings[u]
  <2>1. Enters(book', domain, user, t, amount, bump, op)
    BY <1>1, <1>2, <1>3, RecordedWhole
  <2> QED
    BY <2>1 DEF Enters
<1>5. RecordTypesOK'
  BY <1>1, <1>2, <1>3, <1>4 DEF RecordTypesOK
<1>6. ChildrenFollowParents'
  <2> SUFFICES ASSUME NEW x \in book'.op_seen, x[1] = Contract
               PROVE  <<x[2][4], x[2][1]>> \in op_seen'
    BY DEF ChildrenFollowParents
  <2>1. CASE x \in book.op_seen
    BY <1>1, <1>3, <2>1 DEF ChildrenFollowParents
  <2>2. ASSUME NEW tag \in Tags, x = <<Contract, Child(domain, op, tag)>>
        PROVE  <<x[2][4], x[2][1]>> = <<domain, op>>
    BY <2>2 DEF Child
  <2>3. x \in book.op_seen \/
        \E tag \in Tags : x = <<Contract, Child(domain, op, tag)>>
    BY <1>4
  <2> QED
    BY <1>1, <2>1, <2>2, <2>3
<1>7. ReputationAccounted'
  <2>1. CASE ~Reachable
    BY <1>2, <1>3, <1>4, <2>1 DEF ReputationAccounted
  <2>2. CASE Reachable
    <3> SUFFICES ASSUME NEW u \in Users
                 PROVE  IF book'.reputation[u] = None
                        THEN due_reputation'[u] = 0 /\ slashed'[u] = 0
                             /\ \A c \in Tokens : book'.earnings[u][c] = 0
                        ELSE InRange(book'.reputation[u], due_reputation'[u], slashed'[u])
      BY DEF ReputationAccounted, InRange
    <3>0. IF book.reputation[u] = None
          THEN due_reputation[u] = 0 /\ slashed[u] = 0
               /\ \A c \in Tokens : book.earnings[u][c] = 0
          ELSE InRange(book.reputation[u], due_reputation[u], slashed[u])
      BY <1>3 DEF ReputationAccounted, InRange
    <3>1. CASE u # user
      <4>1. /\ book'.reputation[u] = book.reputation[u]
            /\ book'.earnings[u] = book.earnings[u]
            /\ due_reputation'[u] = due_reputation[u] /\ slashed' = slashed
        BY <1>2, <1>3, <1>4, <2>2, <3>1
        DEF RecordTypesOK, RecordBooks, Reputations
      <4> QED
        BY <3>0, <4>1
    <3>2. CASE u = user
      <4>1. /\ book'.reputation[u] =
                 Records!AtMost((IF book.reputation[u] = None THEN 0
                                 ELSE book.reputation[u]) + bump, MaxReputation)
            /\ due_reputation'[u] = due_reputation[u] + bump
            /\ due_reputation[u] \in Nat /\ slashed[u] \in Nat
            /\ book.reputation[u] \in Nat \cup {None}
        BY <1>1, <1>2, <1>3, <1>4, <2>2, <3>2
        DEF RecordTypesOK, RecordBooks, Reputations
      <4>2. book'.reputation[u] # None
        BY <1>1, <4>1 DEF Records!AtMost
      <4> DEFINE rep == IF book.reputation[u] = None THEN 0 ELSE book.reputation[u]
      <4>3. rep \in Nat /\ InRange(rep, due_reputation[u], slashed[u])
        BY <3>0, <4>1 DEF InRange, Records!AtMost
      <4>4. book'.reputation[u] = Records!AtMost(rep + bump, MaxReputation)
        BY <4>1
      <4> HIDE DEF rep
      <4>5. InRange(Records!AtMost(rep + bump, MaxReputation),
                    due_reputation[u] + bump, slashed[u])
        BY <1>1, <4>1, <4>3, BumpInRange
      <4>6. InRange(book'.reputation[u], due_reputation'[u], slashed'[u])
        BY <1>2, <4>1, <4>4, <4>5
      <4> QED
        BY <4>2, <4>6
    <3> QED
      BY <3>1, <3>2
  <2> QED
    BY <2>1, <2>2
<1> QED
  BY <1>5, <1>6, <1>7

\* The terms of an event name users and a token.
LEMMA PayerTyped ==
  ASSUME StorageTypes, NEW e \in EventIds, IsActive(e)
  PROVE  Owner(e) \in Users /\ Token(e) \in Tokens
BY StorageAssumption
DEF Owner, Token, IsActive, EventExists, StorageTypes, RecordTypes,
    CreateEventParams

\* claim_prize is signed by the recipient of the award.
LEMMA PrizePayoutIsCall ==
  ASSUME PayoutInv, NEW e \in EventIds, NEW p \in Positions, NEW op \in OpIds,
         PrizePayout(e, p, op)
  PROVE  PayoutCall(prize_award[e][p].recipient, prize_award[e][p].recipient,
                    Token(e), winners[e][prize_award[e][p].anchor_idx].amount,
                    prize_award[e][p].reputation_bump, op)
<1> USE DEF PayoutInv
<1> DEFINE award  == prize_award[e][p]
           amount == winners[e][award.anchor_idx].amount
<1>1. /\ IsActive(e) /\ PrizeDue(e, p)
      /\ Unseen(award.recipient, op) /\ MarkSeen(award.recipient, op)
      /\ RecordPayout(award.recipient, award.recipient, Token(e), amount,
                      award.reputation_bump, op)
  BY Zenon DEF PrizePayout, ClaimPrize
<1>2. award \in PrizeAward /\ award.anchor_idx \in DOMAIN winners[e]
      /\ award.reputation_bump <= MaxReputationBump
  BY <1>1 DEF PrizeDue, StorageTypes, PrizeTypes, BumpsBounded
<1>3. winners[e] \in Seq(Winner)
  BY DEF StorageTypes, AwardTypes
<1>4. winners[e][award.anchor_idx] \in Winner
  BY <1>2, <1>3
<1>5. award.recipient \in Users /\ award.reputation_bump \in Nat /\ amount \in Int
  BY <1>2, <1>4 DEF PrizeAward, Winner
<1> HIDE DEF amount
<1>6. PayoutCall(award.recipient, award.recipient, Token(e), amount,
                 award.reputation_bump, op)
  BY <1>1, <1>2, <1>5, PayerTyped DEF PayoutCall
<1> QED
  BY <1>6 DEF amount

\* The owner signs for a grantee's milestone.
LEMMA GrantPayoutIsCall ==
  ASSUME PayoutInv, NEW e \in EventIds, NEW r \in Users,
         NEW m \in MilestoneInputs(e), NEW bump \in ReputationBumps,
         NEW op \in OpIds, GrantPayout(e, r, m, bump, op)
  PROVE  PayoutCall(Owner(e), r, Token(e), SettlementOf(e, r, m), bump, op)
<1> USE DEF PayoutInv
<1>1. /\ bump <= MaxReputationBump /\ IsActive(e) /\ Settle(e, r, m)
      /\ MilestoneOpen(e, r, m, op)
      /\ Unseen(Owner(e), op) /\ MarkSeen(Owner(e), op)
      /\ RecordPayout(Owner(e), r, Token(e), SettlementOf(e, r, m), bump, op)
  BY Zenon DEF GrantPayout, ClaimGrantMilestone, MilestoneOpen
<1>2. m \in Nat
  BY MilestoneInputsTyped DEF StorageTypes
<1>3. SettlementOf(e, r, m) \in Int
  BY <1>1, <1>2, SettleTyped DEF StorageTypes
<1> QED
  BY <1>1, <1>3, PayerTyped, StorageAssumption DEF PayoutCall

\* And for the campaign's own.
LEMMA CampaignPayoutIsCall ==
  ASSUME PayoutInv, NEW e \in EventIds, NEW r \in Users,
         NEW m \in MilestoneInputs(e), NEW bump \in ReputationBumps,
         NEW op \in OpIds, CampaignPayout(e, r, m, bump, op)
  PROVE  PayoutCall(Owner(e), r, Token(e), CampaignDraw(e), bump, op)
<1> USE DEF PayoutInv
<1>1. /\ bump <= MaxReputationBump /\ IsActive(e)
      /\ Milestones(Kind(e)) > cf_claimed[e]
      /\ Unseen(Owner(e), op) /\ MarkSeen(Owner(e), op)
      /\ RecordPayout(Owner(e), r, Token(e), CampaignDraw(e), bump, op)
  BY Zenon DEF CampaignPayout, ClaimCampaignMilestone, MilestoneOpen
<1>2. CampaignDraw(e) \in Int
  BY <1>1, CampaignDrawTyped DEF StorageTypes
<1> QED
  BY <1>1, <1>2, PayerTyped, StorageAssumption DEF PayoutCall

\* Each payout is signed once, by the address in whose name the children are
\* derived.
LEMMA PayoutsAreCalls ==
  ASSUME PayoutInv, PayoutsNext
  PROVE  \E domain, user, t, amount, bump, op :
           PayoutCall(domain, user, t, amount, bump, op)
BY PrizePayoutIsCall, GrantPayoutIsCall, CampaignPayoutIsCall DEF PayoutsNext

\* Only select_winners writes awards, and it caps their bumps.
LEMMA BumpsStayBounded ==
  ASSUME BumpsBounded, StorageTypes, [Next]_vars
  PROVE  BumpsBounded'
<1>1. CASE FundingNext \/ CancellationNext \/ GrantsNext
  <2>1. prize_award' = prize_award
    <3>1. FundingNext => prize_award' = prize_award
      BY Zenon DEF FundingNext, CreateEvent, AddFunds, ProposeManager,
             AcceptManager, CancelPendingManager, ReclaimManagement,
             UnchangedButManagers, prizeVars
    <3>2. CancellationNext => prize_award' = prize_award
      BY ZenonT(30) DEF CancellationNext, StartCancel, ProcessCancelBatch,
                        FinalizeCancel, ClaimRefund, UnchangedByCancel, prizeVars
    <3>3. ASSUME NEW e, NEW r, NEW m, NEW bump, NEW op,
                 \/ ClaimGrantMilestone(e, r, m, bump, op)
                 \/ ClaimCampaignMilestone(e, r, m, bump, op)
                 \/ ForfeitMilestone(e, r, m, op)
          PROVE  prize_award' = prize_award
      BY <3>3, Zenon DEF ClaimGrantMilestone, ClaimCampaignMilestone,
                         ForfeitMilestone, prizeVars
    <3> QED
      BY <1>1, <3>1, <3>2, <3>3 DEF GrantsNext
  <2> QED
    BY <2>1 DEF BumpsBounded
<1>2. CASE AwardsNext
  <2>1. ASSUME NEW e \in EventIds, NEW batch \in WinnerBatches, NEW op \in OpIds,
               SelectPrizes(e, batch, op)
        PROVE  BumpsBounded'
    <3> SUFFICES ASSUME NEW x \in EventIds, NEW p \in Positions,
                        prize_award'[x][p] # None
                 PROVE  prize_award'[x][p].reputation_bump <= MaxReputationBump
      BY DEF BumpsBounded
    <3>1. \A i \in DOMAIN batch : batch[i].reputation_bump <= MaxReputationBump
      BY <2>1, Zenon DEF SelectPrizes, SelectionAllowed
    <3>2. \/ prize_award'[x][p] = prize_award[x][p]
          \/ \E i \in DOMAIN batch :
               prize_award'[x][p].reputation_bump = batch[i].reputation_bump
      BY <2>1 DEF SelectPrizes, StorageTypes, PrizeTypes, AwardedPositions
    <3> QED
      BY <3>1, <3>2 DEF BumpsBounded
  <2>2. ASSUME NEW e, NEW batch, NEW op, SelectGrantees(e, batch, op)
        PROVE  prize_award' = prize_award
    BY <2>2, Zenon DEF SelectGrantees, prizeVars
  <2>3. ASSUME NEW e, NEW p, NEW op, ClaimPrize(e, p, op)
        PROVE  prize_award' = prize_award
    BY <2>3, Zenon DEF ClaimPrize
  <2> QED
    BY <1>2, <2>1, <2>2, <2>3 DEF AwardsNext, BumpsBounded
<1>3. CASE AdminNext \/ WorldNext \/ UNCHANGED vars
  <2>1. prize_award' = prize_award
    BY <1>3, SwitchesMoveNoEvent DEF eventVars, prizeVars, vars
  <2> QED
    BY <2>1 DEF BumpsBounded
<1> QED
  BY <1>1, <1>2, <1>3 DEF Next

\* Calls that pay no one touch no record, and remove no marker.
LEMMA OtherEventsCallsKeep ==
  ASSUME PayoutInv, OtherEventsCalls
  PROVE  RecordTypesOK' /\ ChildrenFollowParents' /\ ReputationAccounted'
<1>1. op_seen \subseteq op_seen'
  <2>1. \/ FundingNext \/ CancellationNext \/ AwardsNext
        \/ GrantsNext \/ AdminNext
    BY DEF OtherEventsCalls, AwardsNext, GrantsNext
  <2> QED
    BY <2>1, MarkersOutliveCalls
<1>2. UNCHANGED <<book, profile_contract, due_reputation, slashed>>
  BY DEF OtherEventsCalls, recordVars, linkVars, historyVars
<1> QED
  BY <1>1, <1>2 DEF PayoutInv, RecordTypesOK, ChildrenFollowParents,
                    ReputationAccounted

\* With the day both contracts' markers go.
LEMMA DayKeeps ==
  ASSUME PayoutInv, Day
  PROVE  RecordTypesOK' /\ ChildrenFollowParents' /\ ReputationAccounted'
<1>1. /\ book \in RecordBooks
      /\ UNCHANGED <<profile_contract, due_reputation, slashed>>
      /\ book' = [book EXCEPT !.op_seen = {}]
  BY DEF PayoutInv, RecordTypesOK, Day, linkVars, historyVars
<1>2. /\ book' \in RecordBooks /\ book'.op_seen = {}
      /\ book'.reputation = book.reputation /\ book'.earnings = book.earnings
  BY <1>1 DEF RecordBooks
<1> QED
  BY <1>1, <1>2 DEF PayoutInv, RecordTypesOK, ChildrenFollowParents,
                    ReputationAccounted

\* The admins' switches touch no record.
LEMMA LinkKeeps ==
  ASSUME PayoutInv, LinkNext
  PROVE  RecordTypesOK' /\ ChildrenFollowParents' /\ ReputationAccounted'
<1>1. UNCHANGED <<book, op_seen, due_reputation, slashed>>
  BY DEF LinkNext, vars, historyVars
<1>2. profile_contract' \in ProfileContracts
  BY DEF LinkNext, SetProfileContract, PayoutInv, RecordTypesOK
<1> QED
  BY <1>1, <1>2 DEF PayoutInv, RecordTypesOK, ChildrenFollowParents,
                    ReputationAccounted

\* An id a user spends is kept under the user's own address.
LEMMA SelfKeeps ==
  ASSUME PayoutInv, SelfNext
  PROVE  RecordTypesOK' /\ ChildrenFollowParents' /\ ReputationAccounted'
<1> USE PayoutAssumption, AddressAssumption, NoneAssumption
<1>1. PICK u \in Strangers, signer \in Guesses, op \in OpIds :
        Records!BootstrapSelf(u, Child(signer, op, "earnings"))
  BY DEF SelfNext
<1>2. /\ UNCHANGED <<op_seen, profile_contract, due_reputation, slashed>>
      /\ book \in RecordBooks /\ u \in Users /\ u # Contract
      /\ profile_contract \in ProfileContracts
  BY <1>1 DEF SelfNext, PayoutInv, RecordTypesOK, vars, linkVars, historyVars
<1> DEFINE r == [book.reputation EXCEPT ![u] = IF @ = None THEN 0 ELSE @]
           m == <<u, Child(signer, op, "earnings")>>
<1>3. r \in Reputations
  BY <1>2 DEF RecordBooks, Reputations
<1>4. m \in Markers
  BY <1>2 DEF Markers, Children, Child, Tags
<1>5. book' = [book EXCEPT !.reputation = r, !.op_seen = @ \cup {m}]
  BY <1>1, <1>2 DEF Records!BootstrapSelf, Records!WithProfile, Records!Marked, RecordBooks
<1> HIDE DEF r, m
<1>6. /\ book' \in RecordBooks /\ book'.reputation = r
      /\ book'.earnings = book.earnings /\ book'.op_seen = book.op_seen \cup {m}
  BY <1>2, <1>3, <1>4, <1>5 DEF RecordBooks
<1>7. RecordTypesOK'
  BY <1>2, <1>6 DEF PayoutInv, RecordTypesOK
<1>8. ChildrenFollowParents'
  <2>1. m[1] # Contract
    BY <1>2 DEF m
  <2> QED
    BY <1>2, <1>6, <2>1 DEF PayoutInv, ChildrenFollowParents
<1>9. ReputationAccounted'
  <2> SUFFICES ASSUME NEW x \in Users
               PROVE  IF r[x] = None
                      THEN due_reputation[x] = 0 /\ slashed[x] = 0
                           /\ \A c \in Tokens : book.earnings[x][c] = 0
                      ELSE InRange(r[x], due_reputation[x], slashed[x])
    BY <1>2, <1>6 DEF ReputationAccounted, InRange
  <2>1. IF book.reputation[x] = None
        THEN due_reputation[x] = 0 /\ slashed[x] = 0
             /\ \A c \in Tokens : book.earnings[x][c] = 0
        ELSE InRange(book.reputation[x], due_reputation[x], slashed[x])
    BY DEF PayoutInv, ReputationAccounted, InRange
  <2>2. CASE r[x] = book.reputation[x]
    BY <2>1, <2>2
  <2>3. CASE r[x] # book.reputation[x]
    <3>1. book.reputation[x] = None /\ r[x] = 0
      BY <1>2, <2>3 DEF r, RecordBooks, Reputations
    <3>2. InRange(0, 0, 0)
      BY DEF InRange, Records!AtMost
    <3>3. r[x] # None
      BY <3>1
    <3> QED
      BY <2>1, <3>1, <3>2, <3>3
  <2> QED
    BY <2>2, <2>3
<1> QED
  BY <1>7, <1>8, <1>9

\* Taking away what is counted as slashed, down to zero at most.
LEMMA SlashInRange ==
  ASSUME NEW rep \in Nat, NEW due \in Nat, NEW taken \in Nat, NEW delta \in Nat,
         InRange(rep, due, taken)
  PROVE  InRange(IF rep > delta THEN rep - delta ELSE 0, due, taken + delta)
BY PayoutAssumption DEF InRange, Records!AtMost

\* The slash stops at zero and is counted in full.
LEMMA SlashKeeps ==
  ASSUME PayoutInv, SlashNext
  PROVE  RecordTypesOK' /\ ChildrenFollowParents' /\ ReputationAccounted'
<1> USE PayoutAssumption, AddressAssumption, NoneAssumption
<1>1. PICK u \in Slashable, delta \in SlashDeltas, op \in SlashOps :
        /\ Records!AdminSlash(Admin, u, delta, op)
        /\ slashed' = [slashed EXCEPT ![u] = @ + delta]
        /\ UNCHANGED <<vars, linkVars, missed, due_reputation>>
  BY DEF SlashNext
<1>2. /\ UNCHANGED <<op_seen, profile_contract, due_reputation>>
      /\ book \in RecordBooks /\ u \in Users /\ delta \in Nat
      /\ slashed \in [Users -> Nat] /\ due_reputation \in [Users -> Nat]
      /\ profile_contract \in ProfileContracts
  BY <1>1 DEF PayoutInv, RecordTypesOK, vars, linkVars
<1> DEFINE r == [book.reputation EXCEPT ![u] = IF @ > delta THEN @ - delta ELSE 0]
           m == <<Admin, op>>
<1>3. book.reputation[u] # None /\ book.reputation \in Reputations
  BY <1>1, <1>2 DEF Records!AdminSlash, RecordBooks
<1>4. book.reputation[u] \in Nat
  BY <1>2, <1>3 DEF Reputations
<1> DEFINE left == IF book.reputation[u] > delta THEN book.reputation[u] - delta ELSE 0
<1>5. r \in Reputations /\ r[u] \in Nat /\ r[u] = left
      /\ \A x \in Users \ {u} : r[x] = book.reputation[x]
  <2>1. left \in Nat
    BY <1>2, <1>4
  <2>2. r = [book.reputation EXCEPT ![u] = left]
    OBVIOUS
  <2> HIDE DEF left, r
  <2> QED
    BY <1>2, <1>3, <2>1, <2>2 DEF Reputations
<1>6. m \in Markers
  BY <1>2 DEF Markers
<1>7. book' = [book EXCEPT !.reputation = r, !.op_seen = @ \cup {m}]
  BY <1>1, <1>2 DEF Records!AdminSlash, Records!Marked, RecordBooks
<1> HIDE DEF r, m, left
<1>8. /\ book' \in RecordBooks /\ book'.reputation = r
      /\ book'.earnings = book.earnings /\ book'.op_seen = book.op_seen \cup {m}
  BY <1>2, <1>5, <1>6, <1>7 DEF RecordBooks
<1>9. slashed' \in [Users -> Nat] /\ slashed'[u] = slashed[u] + delta
      /\ \A x \in Users \ {u} : slashed'[x] = slashed[x]
  BY <1>1, <1>2
<1>10. RecordTypesOK'
  BY <1>2, <1>8, <1>9 DEF RecordTypesOK
<1>11. ChildrenFollowParents'
  <2>1. m[1] # Contract
    BY DEF m
  <2> QED
    BY <1>2, <1>8, <2>1 DEF PayoutInv, ChildrenFollowParents
<1>12. ReputationAccounted'
  <2> SUFFICES ASSUME NEW x \in Users
               PROVE  IF r[x] = None
                      THEN due_reputation[x] = 0 /\ slashed'[x] = 0
                           /\ \A c \in Tokens : book.earnings[x][c] = 0
                      ELSE InRange(r[x], due_reputation[x], slashed'[x])
    BY <1>2, <1>8 DEF ReputationAccounted, InRange
  <2>1. IF book.reputation[x] = None
        THEN due_reputation[x] = 0 /\ slashed[x] = 0
             /\ \A c \in Tokens : book.earnings[x][c] = 0
        ELSE InRange(book.reputation[x], due_reputation[x], slashed[x])
    BY DEF PayoutInv, ReputationAccounted, InRange
  <2>2. CASE x # u
    <3>1. r[x] = book.reputation[x] /\ slashed'[x] = slashed[x]
      BY <1>5, <1>9, <2>2
    <3> QED
      BY <2>1, <3>1
  <2>3. CASE x = u
    <3>1. InRange(book.reputation[u], due_reputation[u], slashed[u])
      BY <1>3, <2>1, <2>3
    <3>2. r[u] # None
      <4>1. r[u] \in Nat
        BY <1>5
      <4> QED
        BY <4>1
    <3>3. due_reputation[u] \in Nat /\ slashed[u] \in Nat
      BY <1>2
    <3>4. InRange(r[u], due_reputation[u], slashed[u] + delta)
      BY <1>2, <1>4, <1>5, <3>1, <3>3, SlashInRange DEF left
    <3> QED
      BY <1>9, <2>3, <3>2, <3>4
  <2> QED
    BY <2>2, <2>3
<1> QED
  BY <1>10, <1>11, <1>12

\* Every step of the composition keeps the invariant.
LEMMA PayoutStepKeeps ==
  PayoutInv /\ StorageTypes' /\ [PayoutNext]_payoutVars => PayoutInv'
<1> SUFFICES ASSUME PayoutInv, StorageTypes', [PayoutNext]_payoutVars
             PROVE  PayoutInv'
  OBVIOUS
<1>1. BumpsBounded'
  BY StepIsCall, BumpsStayBounded DEF PayoutInv
<1>2. RecordTypesOK' /\ ChildrenFollowParents' /\ ReputationAccounted'
  <2>1. CASE PayoutsNext
    BY <2>1, PayoutsAreCalls, PayoutKeeps
  <2>2. CASE UNCHANGED payoutVars
    <3>1. UNCHANGED <<book, op_seen, profile_contract, due_reputation, slashed>>
      BY <2>2 DEF payoutVars, vars, recordVars, linkVars, historyVars
    <3> QED
      BY <3>1 DEF PayoutInv, RecordTypesOK, ChildrenFollowParents,
                  ReputationAccounted
  <2> QED
    BY <2>1, <2>2, OtherEventsCallsKeep, DayKeeps, LinkKeeps, SelfKeeps,
       SlashKeeps DEF PayoutNext
<1> QED
  BY <1>1, <1>2 DEF PayoutInv

\* The invariant holds in every reachable state of the two contracts.
LEMMA PayoutAlways == PayoutSpec => []PayoutInv
<1>1. PayoutInit /\ StorageTypes => PayoutInv
  BY PayoutInitHolds
<1> QED
  BY <1>1, PayoutsTyped, PayoutStepKeeps, PTL DEF PayoutSpec

\* Every id the profile contract has seen from the events contract is the
\* child of an operation the events contract has seen from the same signer, so
\* no one can spend the children of someone else's payout first (derive_child,
\* events_domain; Tamp.14).
THEOREM ChildrenAlwaysFollow == PayoutSpec => []ChildrenFollowParents
<1>1. PayoutInv => ChildrenFollowParents
  BY DEF PayoutInv
<1> QED
  BY <1>1, PayoutAlways, PTL

\* The reputation of every user is what its payouts sent while the contracts
\* could talk, less what the admin took, within saturation: none of the three
\* calls of such a payout is refused (bump, bootstrap, admin_slash).
THEOREM ReputationAlwaysAccounted == PayoutSpec => []ReputationAccounted
<1>1. PayoutInv => ReputationAccounted
  BY DEF PayoutInv
<1> QED
  BY <1>1, PayoutAlways, PTL

-----------------------------------------------------------------------------
(* What was paid, list by list                                             *)

\* A list has finitely many rows.
LEMMA RowsFinite == ASSUME NEW w \in Seq(Winner) PROVE IsFiniteSet(DOMAIN w)
<1>1. DOMAIN w = 1 .. Len(w) /\ Len(w) \in Nat
  OBVIOUS
<1> QED
  BY <1>1, FS_Interval

\* v is w with row a paid, and nothing else of it changed.
RowSettled(w, v, a) ==
  RowPaid(w, v, a) /\ v[a].recipient = w[a].recipient /\ v[a].amount = w[a].amount

\* Paying a row adds its amount to what its recipient was paid.
LEMMA PaidMarked ==
  ASSUME NEW w \in Seq(Winner), NEW v \in Seq(Winner), NEW a,
         RowSettled(w, v, a), NEW u
  PROVE  /\ PaidIn(w, u) \in Int
         /\ PaidIn(v, u) = PaidIn(w, u)
                             + (IF w[a].recipient = u THEN w[a].amount ELSE 0)
<1> DEFINE Paid(x, i) == IF x[i].paid /\ x[i].recipient = u THEN x[i].amount ELSE 0
           f == [i \in DOMAIN w |-> Paid(w, i)]
           g == [i \in DOMAIN w |-> Paid(v, i)]
           I == DOMAIN w
<1>1. IsFiniteSet(I)
  BY RowsFinite
<1>2. \A i \in DOMAIN w : f[i] = IF w[i].paid /\ w[i].recipient = u
                                THEN w[i].amount ELSE 0
  OBVIOUS
<1>3. \A i \in DOMAIN v : g[i] = IF v[i].paid /\ v[i].recipient = u
                                THEN v[i].amount ELSE 0
  BY DEF RowSettled, RowPaid
<1>4. /\ f[a] = 0 /\ g[a] = IF w[a].recipient = u THEN w[a].amount ELSE 0
      /\ a \in I /\ \A i \in I \ {a} : g[i] = f[i]
  BY DEF RowSettled, RowPaid
<1>5. DOMAIN v = I
  BY DEF RowSettled, RowPaid
<1> HIDE DEF f, g
<1>6. /\ PaidIn(w, u) = SumFunctionOnSet(f, DOMAIN w) /\ PaidIn(w, u) \in Int
      /\ \A i \in DOMAIN w : f[i] \in Int
  BY <1>2, PaidSum
<1>7. /\ PaidIn(v, u) = SumFunctionOnSet(g, DOMAIN v)
      /\ \A i \in DOMAIN v : g[i] \in Int
  BY <1>3, PaidSum
<1>8. /\ PaidIn(w, u) = SumFunctionOnSet(f, I) /\ PaidIn(v, u) = SumFunctionOnSet(g, I)
      /\ \A i \in I : f[i] \in Int /\ g[i] \in Int
  BY <1>5, <1>6, <1>7
<1> HIDE DEF I
<1>9. SumFunctionOnSet(g, I) = SumFunctionOnSet(f, I) + g[a] - f[a]
  <2>1. a \in I /\ g[a] \in Int /\ \A i \in I : f[i] \in Int
    BY <1>4, <1>8
  <2>2. \A i \in I \ {a} : g[i] = f[i]
    BY <1>4
  <2> QED
    BY <1>1, <2>1, <2>2, SumChange
<1>10. PaidIn(v, u) = PaidIn(w, u) + g[a]
  <2>1. f[a] = 0 /\ g[a] \in Int
    BY <1>4, <1>8
  <2> QED
    BY <1>6, <1>8, <1>9, <2>1
<1> QED
  BY <1>4, <1>6, <1>10

\* No row of v is paid.
NonePaid(v) == \A i \in DOMAIN v : ~v[i].paid

\* Rows that are not paid yet add nothing.
LEMMA UnpaidAppended ==
  ASSUME NEW w, NEW v, NEW n \in Nat, NEW k \in Nat,
         DOMAIN w = 1 .. n, DOMAIN v = 1 .. n + k,
         \A i \in 1 .. n : v[i] = w[i],
         \A i \in 1 .. k : ~v[n + i].paid, NEW u
  PROVE  PaidIn(v, u) = PaidIn(w, u)
<1>1. ASSUME NEW i \in 1 .. n + k, i \notin 1 .. n
      PROVE  ~v[i].paid
  <2>1. i - n \in 1 .. k /\ n + (i - n) = i
    BY <1>1
  <2> QED
    BY <2>1
<1>2. {i \in DOMAIN v : v[i].paid /\ v[i].recipient = u}
        = {i \in DOMAIN w : w[i].paid /\ w[i].recipient = u}
  BY <1>1
<1> DEFINE R == {i \in DOMAIN w : w[i].paid /\ w[i].recipient = u}
<1>3. [i \in R |-> v[i].amount] = [i \in R |-> w[i].amount]
  OBVIOUS
<1> QED
  BY <1>2, <1>3 DEF PaidIn

\* No row, nothing paid.
LEMMA NothingPaidIn == ASSUME NEW v, NonePaid(v), NEW u PROVE PaidIn(v, u) = 0
<1>1. {i \in DOMAIN v : v[i].paid /\ v[i].recipient = u} = {}
  BY DEF NonePaid
<1> QED
  BY <1>1, SumEmpty DEF PaidIn, SumFunction

-----------------------------------------------------------------------------
(* What was paid, event by event                                           *)

\* What e has paid u, if it pays in t.
Credit(e, u, t) == IF EventExists(e) /\ Token(e) = t THEN PaidOut(e, u) ELSE 0
Credits(u, t)   == [e \in EventIds |-> Credit(e, u, t)]

PaidToAdds ==
  \A u \in Users, t \in Tokens :
    /\ PaidTo(u, t) = SumFunctionOnSet(Credits(u, t), EventIds)
    /\ PaidTo(u, t) \in Int
    /\ \A e \in EventIds : Credits(u, t)[e] \in Int

\* PaidTo adds up the credits.
LEMMA PaidToIsSum == StorageTypes => PaidToAdds
<1> SUFFICES ASSUME StorageTypes, NEW u \in Users, NEW t \in Tokens
             PROVE  /\ PaidTo(u, t) = SumFunctionOnSet(Credits(u, t), EventIds)
                    /\ PaidTo(u, t) \in Int
                    /\ \A e \in EventIds : Credits(u, t)[e] \in Int
  BY DEF PaidToAdds
<1> DEFINE D == {x \in DOMAIN terms : Token(x) = t}
           f == [e \in D |-> PaidOut(e, u)]
           g == Credits(u, t)
<1>1. D \in SUBSET EventIds /\ \A e \in EventIds : e \in D <=> EventExists(e) /\ Token(e) = t
  <2>1. terms \in Seq(EventParams) /\ Len(terms) <= MaxEvents
    BY DEF StorageTypes, RecordTypes
  <2>2. DOMAIN terms \subseteq EventIds
    BY <2>1, StorageAssumption DEF EventIds
  <2> QED
    BY <2>2 DEF EventExists
<1>2. \A e \in EventIds : PaidOut(e, u) \in Int
  <2> SUFFICES ASSUME NEW e \in EventIds PROVE PaidOut(e, u) \in Int
    OBVIOUS
  <2>1. PICK w \in Seq(Winner) : w = winners[e]
    BY DEF StorageTypes, AwardTypes
  <2> DEFINE p == [i \in DOMAIN w |-> IF w[i].paid /\ w[i].recipient = u
                                      THEN w[i].amount ELSE 0]
  <2>2. \A i \in DOMAIN w : p[i] = IF w[i].paid /\ w[i].recipient = u
                                   THEN w[i].amount ELSE 0
    OBVIOUS
  <2> HIDE DEF p
  <2>3. PaidIn(w, u) \in Int
    BY <2>2, PaidSum
  <2> QED
    BY <2>1, <2>3 DEF PaidOut
<1>3. PaidTo(u, t) = SumFunctionOnSet(f, D)
  <2>1. \A e : PaidOut(e, u) =
          SumFunction([i \in {k \in DOMAIN winners[e] :
                                winners[e][k].recipient = u /\ winners[e][k].paid}
                       |-> winners[e][i].amount])
    <3> TAKE e
    <3>1. {k \in DOMAIN winners[e] : winners[e][k].recipient = u /\ winners[e][k].paid}
            = {k \in DOMAIN winners[e] : winners[e][k].paid /\ winners[e][k].recipient = u}
      OBVIOUS
    <3> QED
      BY <3>1 DEF PaidOut, PaidIn
  <2>2. PaidTo(u, t) = SumFunction(f)
    BY <2>1 DEF PaidTo
  <2> QED
    BY <2>2 DEF SumFunction
<1>4. /\ \A e \in D : f[e] \in Int /\ g[e] = f[e]
      /\ \A e \in EventIds \ D : g[e] = 0
      /\ \A e \in EventIds : g[e] \in Int
  BY <1>1, <1>2 DEF Credits, Credit
<1> HIDE DEF D, f, g
<1>5. SumFunctionOnSet(g, EventIds) = SumFunctionOnSet(f, D)
  BY <1>1, <1>4, EventIdsFinite, SumWhere
<1>6. SumFunctionOnSet(g, EventIds) \in Int
  BY <1>4, EventIdsFinite, SumInt
<1> QED
  BY <1>3, <1>4, <1>5, <1>6 DEF g

\* One event pays one user, and no other event pays anyone.
EventPays(e, user, amount) ==
  /\ EventExists(e) /\ UNCHANGED terms /\ amount \in Nat \ {0}
  /\ \A x \in EventIds \ {e} : winners'[x] = winners[x]
  /\ \A u \in Users : /\ PaidOut(e, u) \in Int
                      /\ PaidOut(e, u)' = PaidOut(e, u)
                                            + (IF user = u THEN amount ELSE 0)

\* A user is paid, and nobody else.
PaysOut(user, t, amount) ==
  /\ amount \in Nat \ {0}
  /\ \A u \in Users, c \in Tokens :
       PaidTo(u, c)' = PaidTo(u, c) + (IF u = user /\ c = t THEN amount ELSE 0)

PaysNobody == \A u \in Users, c \in Tokens : PaidTo(u, c)' = PaidTo(u, c)

\* What one event pays is what its recipient has been paid more.
LEMMA OneCredit ==
  ASSUME PaidToAdds, PaidToAdds', NEW e \in EventIds, NEW user \in Users,
         NEW amount, EventPays(e, user, amount)
  PROVE  PaysOut(user, Token(e), amount)
<1> SUFFICES ASSUME NEW u \in Users, NEW c \in Tokens
             PROVE  PaidTo(u, c)' = PaidTo(u, c)
                      + (IF u = user /\ c = Token(e) THEN amount ELSE 0)
  BY DEF PaysOut, EventPays
<1>1. PICK f : f = Credits(u, c)
  OBVIOUS
<1>2. PICK g : g = Credits(u, c)'
  OBVIOUS
<1>3. /\ PaidTo(u, c) = SumFunctionOnSet(f, EventIds)
      /\ PaidTo(u, c) \in Int /\ \A x \in EventIds : f[x] \in Int
  BY <1>1 DEF PaidToAdds
<1>4. /\ PaidTo(u, c)' = SumFunctionOnSet(g, EventIds)
      /\ \A x \in EventIds : g[x] \in Int
  BY <1>2 DEF PaidToAdds
<1>5. /\ \A x \in EventIds : f[x] = Credit(x, u, c)
      /\ \A x \in EventIds : g[x] = Credit(x, u, c)'
  BY <1>1, <1>2 DEF Credits
<1>6. \A x \in EventIds \ {e} : g[x] = f[x]
  BY <1>5 DEF EventPays, Credit, PaidOut, EventExists, Token
<1>7. g[e] = f[e] + (IF u = user /\ c = Token(e) THEN amount ELSE 0)
  <2>1. EventExists(e) /\ EventExists(e)' /\ Token(e)' = Token(e)
    BY DEF EventPays, EventExists, Token
  <2>2. /\ PaidOut(e, u) \in Int /\ amount \in Nat
        /\ PaidOut(e, u)' = PaidOut(e, u) + (IF user = u THEN amount ELSE 0)
    BY DEF EventPays
  <2>3. /\ f[e] = IF Token(e) = c THEN PaidOut(e, u) ELSE 0
        /\ g[e] = IF Token(e) = c THEN PaidOut(e, u)' ELSE 0
    BY <1>5, <2>1 DEF Credit
  <2> QED
    BY <2>2, <2>3
<1>8. SumFunctionOnSet(g, EventIds) = SumFunctionOnSet(f, EventIds) + g[e] - f[e]
  <2>1. IsFiniteSet(EventIds) /\ g[e] \in Int
    BY <1>4, EventIdsFinite
  <2>2. \A x \in EventIds : f[x] \in Int
    BY <1>3
  <2> QED
    BY <1>6, <2>1, <2>2, SumChange
<1>9. f[e] \in Int /\ amount \in Nat
  BY <1>3 DEF EventPays
<1>10. PaidTo(u, c)' = PaidTo(u, c) + g[e] - f[e]
  BY <1>3, <1>4, <1>8
<1> QED
  BY <1>3, <1>7, <1>9, <1>10

\* If no event paid anyone, nobody has been paid more.
LEMMA SameCredits ==
  ASSUME PaidToAdds, PaidToAdds',
         \A e \in EventIds, u \in Users, c \in Tokens :
           Credit(e, u, c)' = Credit(e, u, c)
  PROVE  PaysNobody
<1> SUFFICES ASSUME NEW u \in Users, NEW c \in Tokens
             PROVE  PaidTo(u, c)' = PaidTo(u, c)
  BY DEF PaysNobody
<1>1. Credits(u, c)' = Credits(u, c)
  BY DEF Credits
<1>2. /\ PaidTo(u, c) = SumFunctionOnSet(Credits(u, c), EventIds)
      /\ PaidTo(u, c)' = SumFunctionOnSet(Credits(u, c)', EventIds)
  BY DEF PaidToAdds
<1> QED
  BY <1>1, <1>2

\* claim_prize pays the row of its award.
LEMMA ClaimPrizePaysOut ==
  ASSUME StorageTypes, PaidToAdds, PaidToAdds', NEW e \in EventIds,
         NEW p \in Positions, NEW op \in OpIds, ClaimPrize(e, p, op)
  PROVE  PaysOut(prize_award[e][p].recipient, Token(e),
                 winners[e][prize_award[e][p].anchor_idx].amount)
<1> DEFINE a == prize_award[e][p].anchor_idx
           r == prize_award[e][p].recipient
           amount == winners[e][a].amount
           paid == [winners[e][a] EXCEPT !.paid = TRUE]
<1>1. /\ IsActive(e) /\ a \in DOMAIN winners[e] /\ ~winners[e][a].paid
      /\ winners[e][a].recipient = r /\ amount > 0
      /\ winners' = [winners EXCEPT ![e][a].paid = TRUE]
      /\ UNCHANGED terms /\ prize_award[e][p] # None
  BY Zenon DEF ClaimPrize, PrizeDue
<1>2. r \in Users
  BY <1>1 DEF StorageTypes, PrizeTypes, PrizeAward
<1> HIDE DEF a, r
<1>3. PICK w \in Seq(Winner) : w = winners[e]
  BY DEF StorageTypes, AwardTypes
<1>4. w[a] \in Winner /\ amount \in Nat \ {0}
  <2>1. w[a] \in Winner
    BY <1>1, <1>3
  <2>2. amount \in Int
    BY <1>3, <2>1 DEF Winner
  <2> QED
    BY <1>1, <2>1, <2>2
<1> HIDE DEF amount
<1>5. /\ paid.paid /\ paid.recipient = w[a].recipient /\ paid.amount = w[a].amount
      /\ paid \in Winner
  BY <1>3, <1>4 DEF Winner
<1> HIDE DEF paid
<1>6. PICK v \in Seq(Winner) :
        /\ v = winners'[e] /\ v = [w EXCEPT ![a] = paid]
        /\ \A x \in EventIds \ {e} : winners'[x] = winners[x]
  <2>1. winners' = [winners EXCEPT ![e] = [winners[e] EXCEPT ![a] = paid]]
    BY <1>1, Zenon DEF paid
  <2>2. winners'[e] = [w EXCEPT ![a] = paid]
    BY <1>3, <2>1 DEF StorageTypes, AwardTypes
  <2>3. \A x \in EventIds \ {e} : winners'[x] = winners[x]
    BY <2>1 DEF StorageTypes, AwardTypes
  <2>4. [w EXCEPT ![a] = paid] \in Seq(Winner)
    BY <1>1, <1>3, <1>5
  <2> QED
    BY <2>2, <2>3, <2>4
<1>7. RowSettled(w, v, a)
  <2>1. DOMAIN v = DOMAIN w /\ v[a] = paid /\ \A i \in DOMAIN w \ {a} : v[i] = w[i]
    BY <1>1, <1>3, <1>6
  <2> QED
    BY <1>1, <1>3, <1>5, <2>1 DEF RowSettled, RowPaid
<1>8. \A u \in Users : /\ PaidOut(e, u) \in Int
                       /\ PaidOut(e, u)' = PaidOut(e, u)
                                             + (IF r = u THEN amount ELSE 0)
  <2> SUFFICES ASSUME NEW u \in Users
               PROVE  /\ PaidOut(e, u) \in Int
                      /\ PaidOut(e, u)' = PaidOut(e, u)
                                            + (IF r = u THEN amount ELSE 0)
    OBVIOUS
  <2>1. /\ PaidIn(w, u) \in Int
        /\ PaidIn(v, u) = PaidIn(w, u)
                            + (IF w[a].recipient = u THEN w[a].amount ELSE 0)
    BY <1>7, PaidMarked
  <2>2. PaidOut(e, u) = PaidIn(w, u) /\ PaidOut(e, u)' = PaidIn(v, u)
    BY <1>3, <1>6 DEF PaidOut
  <2>3. w[a].recipient = r /\ w[a].amount = amount
    BY <1>1, <1>3 DEF amount
  <2> QED
    BY <2>1, <2>2, <2>3
<1>9. EventPays(e, r, amount)
  BY <1>1, <1>4, <1>6, <1>8 DEF EventPays, IsActive
<1>10. PaysOut(r, Token(e), amount)
  BY <1>2, <1>9, OneCredit
<1> QED
  BY <1>10 DEF r, amount, a

\* A milestone appends the row it pays.
LEMMA PaidRowPaysOut ==
  ASSUME StorageTypes, PaidToAdds, PaidToAdds', NEW e \in EventIds,
         NEW row \in Winner, row.paid, row.amount > 0, EventExists(e),
         UNCHANGED terms, winners' = WithWinners(e, <<row>>)
  PROVE  PaysOut(row.recipient, Token(e), row.amount)
<1>1. /\ winners'[e] = winners[e] \o <<row>>
      /\ \A x \in EventIds \ {e} : winners'[x] = winners[x]
  BY DEF WithWinners, StorageTypes, AwardTypes
<1>2. \A u \in Users : /\ PaidOut(e, u) \in Int
          /\ PaidOut(e, u)' = PaidOut(e, u)
               + (IF row.recipient = u THEN row.amount ELSE 0)
  BY <1>1, PaidAppended DEF StorageTypes
<1>3. row.recipient \in Users /\ row.amount \in Nat \ {0}
  <2>1. row.recipient \in Users /\ row.amount \in Int
    BY DEF Winner
  <2> QED
    BY <2>1
<1>4. EventPays(e, row.recipient, row.amount)
  BY <1>1, <1>2, <1>3 DEF EventPays
<1> QED
  BY <1>3, <1>4, OneCredit

\* claim_milestone on a grant pays the share it settles.
LEMMA ClaimGrantMilestonePaysOut ==
  ASSUME StorageTypes, PaidToAdds, PaidToAdds', NEW e \in EventIds,
         NEW r \in Users, NEW m \in Nat, NEW bump \in ReputationBumps,
         NEW op \in OpIds, ClaimGrantMilestone(e, r, m, bump, op)
  PROVE  PaysOut(r, Token(e), SettlementOf(e, r, m))
<1> DEFINE row == MilestoneRow(r, roster[e][r].position, SettlementOf(e, r, m), m)
<1>1. /\ MilestoneOpen(e, r, m, op) /\ Settle(e, r, m)
      /\ EventExists(e) /\ roster[e][r] # None
      /\ SettlementOf(e, r, m) > 0
      /\ winners' = WithWinners(e, <<row>>) /\ UNCHANGED terms
  BY Zenon DEF ClaimGrantMilestone, MilestoneOpen, IsActive, PayMilestone, Settle
<1>2. SettlementOf(e, r, m) \in Nat
  BY <1>1, SettleTyped DEF StorageTypes
<1>3. row \in Winner /\ row.paid /\ row.recipient = r
      /\ row.amount = SettlementOf(e, r, m)
  <2>1. roster[e][r] \in GrantAward
    BY <1>1 DEF StorageTypes, GrantTypes
  <2> QED
    BY <1>2, <2>1 DEF MilestoneRow, Winner, GrantAward
<1> HIDE DEF row
<1>4. row.amount > 0
  BY <1>1, <1>3
<1>5. PaysOut(row.recipient, Token(e), row.amount)
  BY <1>1, <1>3, <1>4, PaidRowPaysOut
<1> QED
  BY <1>3, <1>5

\* claim_milestone on a campaign pays the draw, the fee included.
LEMMA ClaimCampaignMilestonePaysOut ==
  ASSUME StorageTypes, PaidToAdds, PaidToAdds', NEW e \in EventIds,
         NEW r \in Users, NEW m \in Nat, NEW bump \in ReputationBumps,
         NEW op \in OpIds, ClaimCampaignMilestone(e, r, m, bump, op)
  PROVE  PaysOut(r, Token(e), CampaignDraw(e))
<1> DEFINE row == MilestoneRow(r, 1, CampaignDraw(e), m)
<1>1. /\ IsActive(e) /\ EventExists(e) /\ Milestones(Kind(e)) > cf_claimed[e]
      /\ CampaignDraw(e) > 0
      /\ winners' = WithWinners(e, <<row>>) /\ UNCHANGED terms
  BY Zenon DEF ClaimCampaignMilestone, MilestoneOpen, IsActive, PayMilestone
<1>2. CampaignDraw(e) \in Nat
  <2>1. CampaignDraw(e) \in Int
    BY <1>1, CampaignDrawTyped DEF StorageTypes
  <2> QED
    BY <1>1, <2>1
<1>3. row \in Winner /\ row.paid /\ row.recipient = r
      /\ row.amount = CampaignDraw(e)
  BY <1>2, StorageAssumption DEF MilestoneRow, Winner
<1> HIDE DEF row
<1>4. row.amount > 0
  BY <1>1, <1>3
<1>5. PaysOut(row.recipient, Token(e), row.amount)
  BY <1>1, <1>3, <1>4, PaidRowPaysOut
<1> QED
  BY <1>3, <1>5

\* Selected rows and a campaign's row are not paid, so they credit no one.
LEMMA UnpaidRowsCreditNobody ==
  ASSUME StorageTypes, PaidToAdds, PaidToAdds', NEW e \in EventIds,
         NEW rows, NEW k \in Nat, Len(rows) = k, DOMAIN rows = 1 .. k,
         NonePaid(rows), UNCHANGED terms, winners' = WithWinners(e, rows)
  PROVE  PaysNobody
<1>1. PICK w \in Seq(Winner) : w = winners[e]
  BY DEF StorageTypes, AwardTypes
<1>2. PICK n \in Nat : n = Len(w)
  BY <1>1
<1>3. PICK v : v = winners'[e] /\ v = w \o rows
  BY <1>1 DEF WithWinners, StorageTypes, AwardTypes
<1>4. \A x \in EventIds \ {e} : winners'[x] = winners[x]
  BY DEF WithWinners, StorageTypes, AwardTypes
<1>5. /\ DOMAIN w = 1 .. n /\ DOMAIN v = 1 .. n + k
      /\ \A i \in 1 .. n : v[i] = w[i]
      /\ \A i \in 1 .. k : v[n + i] = rows[i]
  <2>1. DOMAIN w = 1 .. n
    BY <1>2
  <2>2. /\ DOMAIN (w \o rows) = 1 .. n + k
        /\ \A i \in 1 .. n + k :
             (w \o rows)[i] = IF i <= n THEN w[i] ELSE rows[i - n]
    BY <1>2
  <2>3. \A i \in 1 .. n : i \in 1 .. n + k /\ i <= n
    OBVIOUS
  <2>4. \A i \in 1 .. k : n + i \in 1 .. n + k /\ ~(n + i <= n) /\ n + i - n = i
    OBVIOUS
  <2>5. /\ DOMAIN v = 1 .. n + k
        /\ \A i \in 1 .. n + k : v[i] = IF i <= n THEN w[i] ELSE rows[i - n]
    BY <1>3, <2>2
  <2>6. \A i \in 1 .. n : v[i] = w[i]
    BY <2>3, <2>5
  <2>7. \A i \in 1 .. k : v[n + i] = rows[i]
    <3> SUFFICES ASSUME NEW i \in 1 .. k PROVE v[n + i] = rows[i]
      OBVIOUS
    <3>1. v[n + i] = rows[n + i - n]
      BY <2>4, <2>5
    <3> QED
      BY <2>4, <3>1
  <2> QED
    BY <2>1, <2>5, <2>6, <2>7
<1>6. \A u : PaidIn(v, u) = PaidIn(w, u)
  <2>1. \A i \in 1 .. k : ~v[n + i].paid
    BY <1>5 DEF NonePaid
  <2> QED
    BY <1>5, <2>1, UnpaidAppended
<1>7. \A x \in EventIds, u \in Users : PaidOut(x, u)' = PaidOut(x, u)
  BY <1>1, <1>3, <1>4, <1>6 DEF PaidOut
<1>8. \A x \in EventIds, u \in Users, c \in Tokens :
        Credit(x, u, c)' = Credit(x, u, c)
  BY <1>7 DEF Credit, EventExists, Token
<1> QED
  BY <1>8, SameCredits

\* A new event has paid no one.
LEMMA CreateEventPaysNobody ==
  ASSUME StorageTypes, AwardsInv, PaidToAdds, PaidToAdds',
         NEW params \in EventParams, NEW op \in OpIds, CreateEvent(params, op)
  PROVE  PaysNobody
<1>0. PICK e \in EventIds : e = Len(terms) + 1
  BY DEF CreateEvent
<1>1. /\ terms' = Append(terms, params)
      /\ \/ winners' = WithWinners(e, <<CampaignRow(params.owner)>>)
         \/ winners' = winners
  BY <1>0, Zenon DEF CreateEvent
<1>2. /\ ~EventExists(e)
      /\ \A x \in EventIds \ {e} :
           /\ (x \in DOMAIN terms') <=> (x \in DOMAIN terms)
           /\ EventExists(x) => terms'[x] = terms[x]
  <2>1. terms \in Seq(EventParams) /\ Len(terms) \in Nat
    BY DEF StorageTypes, RecordTypes
  <2>2. /\ DOMAIN terms' = 1 .. e /\ DOMAIN terms = 1 .. e - 1
        /\ \A x \in DOMAIN terms : terms'[x] = terms[x]
    BY <1>0, <1>1, <2>1
  <2>3. \A x \in EventIds \ {e} : x \in Int /\ x # e
    BY DEF EventIds
  <2> QED
    BY <1>0, <2>1, <2>2, <2>3 DEF EventExists
<1>3. winners[e] = << >>
  BY <1>2 DEF AwardsInv, AwardsFit, NoAwardsYet
<1>4. /\ \A x \in EventIds \ {e} : winners'[x] = winners[x]
      /\ NonePaid(winners'[e])
  <2>1. CASE winners' = winners
    BY <1>3, <2>1 DEF NonePaid
  <2>2. CASE winners' = WithWinners(e, <<CampaignRow(params.owner)>>)
    <3>1. /\ winners'[e] = << >> \o <<CampaignRow(params.owner)>>
          /\ \A x \in EventIds \ {e} : winners'[x] = winners[x]
      BY <1>3, <2>2 DEF WithWinners, StorageTypes, AwardTypes
    <3>2. winners'[e] = <<CampaignRow(params.owner)>>
      BY <3>1
    <3>3. ~CampaignRow(params.owner).paid
      BY DEF CampaignRow
    <3> QED
      BY <3>1, <3>2, <3>3 DEF NonePaid
  <2> QED
    BY <1>1, <2>1, <2>2
<1>5. ASSUME NEW u \in Users, NEW c \in Tokens
      PROVE  Credit(e, u, c)' = Credit(e, u, c)
  <2>1. PaidOut(e, u)' = 0
    BY <1>4, NothingPaidIn DEF PaidOut
  <2>2. Credit(e, u, c)' = 0
    BY <2>1 DEF Credit
  <2> QED
    BY <1>2, <2>2 DEF Credit
<1>6. ASSUME NEW x \in EventIds \ {e}, NEW u \in Users, NEW c \in Tokens
      PROVE  Credit(x, u, c)' = Credit(x, u, c)
  BY <1>2, <1>4 DEF Credit, EventExists, Token, PaidOut
<1>7. \A x \in EventIds, u \in Users, c \in Tokens :
        Credit(x, u, c)' = Credit(x, u, c)
  BY <1>5, <1>6
<1> QED
  BY <1>7, SameCredits

\* A step that touches neither terms nor rows.
LEMMA NoRowTouched ==
  ASSUME UNCHANGED <<terms, winners>> PROVE PaysNobody
BY DEF PaysNobody, PaidTo, Token

\* The calls of the events contract that pay no one credit no one.
LEMMA OtherCallsPayNobody ==
  ASSUME StorageTypes, AwardsInv, PaidToAdds, PaidToAdds', OtherEventsCalls
  PROVE  PaysNobody
<1>1. CASE FundingNext
  <2>1. ASSUME NEW e \in EventIds,
               \/ \E target \in ManagerTargets : ProposeManager(e, target)
               \/ AcceptManager(e)
               \/ CancelPendingManager(e)
               \/ ReclaimManagement(e)
        PROVE  UNCHANGED <<terms, winners>>
    BY <2>1 DEF ProposeManager, AcceptManager, CancelPendingManager,
                ReclaimManagement, UnchangedButManagers
  <2>2. ASSUME NEW e \in EventIds, NEW from \in Users, NEW amount \in Contributions,
               NEW op \in OpIds, AddFunds(e, from, amount, op)
        PROVE  UNCHANGED <<terms, winners>>
    BY <2>2, Zenon DEF AddFunds
  <2> QED
    BY <1>1, <2>1, <2>2, NoRowTouched, CreateEventPaysNobody DEF FundingNext
<1>2. CASE CancellationNext
  <2>1. UNCHANGED <<terms, winners>>
    BY <1>2, ZenonT(30) DEF CancellationNext, StartCancel, ProcessCancelBatch,
                        FinalizeCancel, ClaimRefund, UnchangedByCancel
  <2> QED
    BY <2>1, NoRowTouched
<1>3. ASSUME NEW e \in EventIds, NEW batch \in WinnerBatches, NEW op \in OpIds,
             SelectPrizes(e, batch, op) \/ SelectGrantees(e, batch, op)
      PROVE  PaysNobody
  <2>1. /\ winners' = WithWinners(e, AwardRows(batch)) /\ UNCHANGED terms
        /\ Len(batch) \in Nat
    <3>1. /\ winners' = WithWinners(e, AwardRows(batch)) /\ UNCHANGED terms
      BY <1>3, Zenon DEF SelectPrizes, SelectGrantees, UnchangedBySelection
    <3>2. Len(batch) \in Nat
      BY StorageAssumption
    <3> QED
      BY <3>1, <3>2
  <2>2. PICK k \in Nat : k = Len(batch)
    BY <2>1
  <2>3. PICK rows : rows = AwardRows(batch)
    OBVIOUS
  <2>4. Len(rows) = k /\ DOMAIN rows = 1 .. k /\ NonePaid(rows)
    BY <2>2, <2>3 DEF AwardRows, NonePaid
  <2> QED
    BY <2>1, <2>3, <2>4, UnpaidRowsCreditNobody
<1>4. ASSUME NEW e, NEW r, NEW m, NEW op, ForfeitMilestone(e, r, m, op)
      PROVE  PaysNobody
  <2>1. UNCHANGED <<terms, winners>>
    BY <1>4, Zenon DEF ForfeitMilestone
  <2> QED
    BY <2>1, NoRowTouched
<1>5. CASE AdminNext
  <2>1. UNCHANGED <<terms, winners>>
    BY <1>5, SwitchesMoveNoEvent DEF eventVars
  <2> QED
    BY <2>1, NoRowTouched
<1> QED
  BY <1>1, <1>2, <1>3, <1>4, <1>5 DEF OtherEventsCalls

-----------------------------------------------------------------------------
(* The earnings                                                            *)

\* The earnings of a user are what was paid while the contracts could talk, up
\* to the amounts an i128 holds: beyond, register refuses (checked_add).
EarningsInv ==
  /\ missed \in [Users -> [Tokens -> Nat]]
  /\ \A u \in Users, t \in Tokens :
       PaidTo(u, t) <= MaxEarnings =>
         book.earnings[u][t] + missed[u][t] = PaidTo(u, t)

\* A payout enters the earnings, or what was missed, by what it pays.
LEMMA PayoutEntersEarnings ==
  ASSUME PayoutInv, EarningsInv, PaidToAdds,
         NEW domain, NEW user, NEW t, NEW amount, NEW bump, NEW op,
         PayoutCall(domain, user, t, amount, bump, op), PaysOut(user, t, amount)
  PROVE  EarningsInv'
<1>1. /\ domain \in Users /\ user \in Users /\ t \in Tokens
      /\ amount \in Nat \ {0} /\ amount \in Int
      /\ bump \in Nat /\ bump <= MaxReputationBump /\ op \in OpIds
      /\ <<domain, op>> \notin op_seen
  BY DEF PayoutCall, Unseen, PaysOut
<1>2. /\ book' = Recorded(domain, user, t, amount, bump, op)
      /\ missed' = IF Reachable THEN missed
                   ELSE [missed EXCEPT ![user][t] = @ + amount]
  BY DEF PayoutCall, RecordPayout
<1>3. Enters(book', domain, user, t, amount, bump, op)
  BY <1>1, <1>2, RecordedWhole DEF PayoutInv
<1>4. /\ book.earnings \in [Users -> [Tokens -> Int]]
      /\ missed \in [Users -> [Tokens -> Nat]]
  BY DEF PayoutInv, RecordTypesOK, RecordBooks, Earnings, EarningsInv
<1> DEFINE Due(u, c) == IF u = user /\ c = t THEN amount ELSE 0
<1>5. CASE Reachable
  <2>1. missed' = missed
    BY <1>2, <1>5
  <2> SUFFICES ASSUME NEW u \in Users, NEW c \in Tokens, PaidTo(u, c)' <= MaxEarnings
               PROVE  book'.earnings[u][c] + missed[u][c] = PaidTo(u, c)'
    BY <1>4, <2>1 DEF EarningsInv
  <2>2. /\ PaidTo(u, c)' = PaidTo(u, c) + Due(u, c)
        /\ PaidTo(u, c) \in Int
    BY DEF PaysOut, PaidToAdds
  <2>3. /\ book.earnings[u][c] \in Int /\ missed[u][c] \in Nat
        /\ Due(u, c) \in Nat /\ MaxEarnings \in Nat
    BY <1>1, <1>4, PayoutAssumption
  <2>4. book.earnings[u][c] + missed[u][c] = PaidTo(u, c)
    BY <2>2, <2>3 DEF EarningsInv
  <2>5. book'.earnings[u][c] = book.earnings[u][c] + Due(u, c)
    <3>1. CASE u = user /\ c = t
      <4>1. amount > 0 /\ book.earnings[user][t] + amount <= MaxEarnings
        BY <1>1, <2>2, <2>3, <2>4, <3>1
      <4>2. book'.earnings = [book.earnings EXCEPT ![user][t] = @ + amount]
        BY <1>3, <1>5, <4>1 DEF Enters
      <4> QED
        BY <1>1, <1>4, <3>1, <4>2
    <3>2. CASE ~(u = user /\ c = t)
      <4>1. book'.earnings[u][c] = book.earnings[u][c]
        BY <1>3, <1>5, <3>2 DEF Enters
      <4> QED
        BY <2>3, <3>2, <4>1
    <3> QED
      BY <3>1, <3>2
  <2> QED
    BY <2>2, <2>3, <2>4, <2>5
<1>6. CASE ~Reachable
  <2>1. missed' = [missed EXCEPT ![user][t] = @ + amount] /\ book' = book
    BY <1>2, <1>3, <1>6 DEF Enters
  <2>2. missed' \in [Users -> [Tokens -> Nat]]
    <3>1. [missed[user] EXCEPT ![t] = @ + amount] \in [Tokens -> Nat]
      BY <1>1, <1>4
    <3> QED
      BY <1>4, <2>1, <3>1
  <2>3. \A u \in Users, c \in Tokens : missed'[u][c] = missed[u][c] + Due(u, c)
    BY <1>1, <1>4, <2>1
  <2> SUFFICES ASSUME NEW u \in Users, NEW c \in Tokens, PaidTo(u, c)' <= MaxEarnings
               PROVE  book.earnings[u][c] + missed'[u][c] = PaidTo(u, c)'
    BY <2>1, <2>2 DEF EarningsInv
  <2>4. /\ PaidTo(u, c)' = PaidTo(u, c) + Due(u, c)
        /\ PaidTo(u, c) \in Int
    BY DEF PaysOut, PaidToAdds
  <2>5. /\ book.earnings[u][c] \in Int /\ missed[u][c] \in Nat
        /\ Due(u, c) \in Nat /\ MaxEarnings \in Nat
    BY <1>1, <1>4, PayoutAssumption
  <2>6. book.earnings[u][c] + missed[u][c] = PaidTo(u, c)
    BY <2>4, <2>5 DEF EarningsInv
  <2> QED
    BY <2>3, <2>4, <2>5, <2>6
<1> QED
  BY <1>5, <1>6

\* Nothing else moves either.
LEMMA NothingEntered ==
  ASSUME EarningsInv, PaysNobody, book'.earnings = book.earnings,
         UNCHANGED missed
  PROVE  EarningsInv'
BY DEF EarningsInv, PaysNobody

\* Every step of the composition keeps the earnings.
LEMMA EarningsStep ==
  ASSUME PayoutInv, AwardsInv, PaidToAdds, PaidToAdds', EarningsInv,
         [PayoutNext]_payoutVars
  PROVE  EarningsInv'
<1> USE DEF PayoutInv
<1>1. CASE PayoutsNext
  <2>1. ASSUME NEW e \in EventIds, NEW p \in Positions, NEW op \in OpIds,
               PrizePayout(e, p, op)
        PROVE  EarningsInv'
    <3>1. ClaimPrize(e, p, op)
      BY <2>1 DEF PrizePayout
    <3> QED
      BY <2>1, <3>1, ClaimPrizePaysOut, PrizePayoutIsCall, PayoutEntersEarnings
  <2>2. ASSUME NEW e \in EventIds, NEW r \in Users, NEW m \in MilestoneInputs(e),
               NEW bump \in ReputationBumps, NEW op \in OpIds,
               GrantPayout(e, r, m, bump, op)
        PROVE  EarningsInv'
    <3>1. ClaimGrantMilestone(e, r, m, bump, op) /\ m \in Nat
      BY <2>2, MilestoneInputsTyped DEF GrantPayout, StorageTypes
    <3> QED
      BY <2>2, <3>1, ClaimGrantMilestonePaysOut, GrantPayoutIsCall,
         PayoutEntersEarnings
  <2>3. ASSUME NEW e \in EventIds, NEW r \in Users, NEW m \in MilestoneInputs(e),
               NEW bump \in ReputationBumps, NEW op \in OpIds,
               CampaignPayout(e, r, m, bump, op)
        PROVE  EarningsInv'
    <3>1. ClaimCampaignMilestone(e, r, m, bump, op) /\ m \in Nat
      BY <2>3, MilestoneInputsTyped DEF CampaignPayout, StorageTypes
    <3> QED
      BY <2>3, <3>1, ClaimCampaignMilestonePaysOut, CampaignPayoutIsCall,
         PayoutEntersEarnings
  <2> QED
    BY <1>1, <2>1, <2>2, <2>3 DEF PayoutsNext
<1>2. CASE OtherEventsCalls
  <2>1. UNCHANGED <<book, missed>>
    BY <1>2 DEF OtherEventsCalls, recordVars, historyVars
  <2> QED
    BY <1>2, <2>1, OtherCallsPayNobody, NothingEntered
<1>3. CASE Day \/ LinkNext \/ SelfNext \/ SlashNext \/ UNCHANGED payoutVars
  <2>1. UNCHANGED <<terms, winners>>
    <3>1. Day => UNCHANGED eventVars
      BY DEF Day, Tick, UnchangedByWorld
    <3>2. LinkNext \/ SelfNext \/ SlashNext \/ UNCHANGED payoutVars
            => UNCHANGED vars
      BY DEF LinkNext, SelfNext, SlashNext, payoutVars
    <3> QED
      BY <1>3, <3>1, <3>2 DEF eventVars, vars
  <2>2. UNCHANGED missed
    BY <1>3 DEF Day, LinkNext, SelfNext, SlashNext, payoutVars, recordVars,
                historyVars
  <2>3. book'.earnings = book.earnings
    <3>1. book \in RecordBooks
      BY DEF RecordTypesOK
    <3>2. Day => book'.earnings = book.earnings
      BY <3>1 DEF Day, RecordBooks
    <3>3. SelfNext => book'.earnings = book.earnings
      BY <3>1 DEF SelfNext, Records!BootstrapSelf, Records!WithProfile,
                  Records!Marked, RecordBooks
    <3>4. SlashNext => book'.earnings = book.earnings
      BY <3>1 DEF SlashNext, Records!AdminSlash, Records!Marked, RecordBooks
    <3>5. LinkNext \/ UNCHANGED payoutVars => book' = book
      BY DEF LinkNext, payoutVars, recordVars
    <3> QED
      BY <1>3, <3>2, <3>3, <3>4, <3>5
  <2> QED
    BY <2>1, <2>2, <2>3, NoRowTouched, NothingEntered
<1> QED
  BY <1>1, <1>2, <1>3 DEF PayoutNext

\* At deployment nobody has been paid.
LEMMA EarningsInit == PayoutInit => EarningsInv
<1> SUFFICES ASSUME PayoutInit PROVE EarningsInv
  OBVIOUS
<1>1. \A u, t : PaidTo(u, t) = 0
  <2>1. terms = << >>
    BY DEF PayoutInit, Init
  <2>2. \A t : {x \in DOMAIN terms : Token(x) = t} = {}
    BY <2>1
  <2> QED
    BY <2>2, SumEmpty DEF PaidTo, SumFunction
<1>2. /\ missed = [u \in Users |-> [t \in Tokens |-> 0]]
      /\ book.earnings = [u \in Users |-> [t \in Tokens |-> 0]]
  BY DEF PayoutInit, Records!EmptyBook
<1> QED
  BY <1>1, <1>2 DEF EarningsInv

\* The earnings the profile contract keeps for a user are what the events
\* contract paid it while the two could talk, to the token, as long as what
\* each user was paid fits the i128 they are kept in: no other payout, id or
\* call, of anyone, makes a payout go unrecorded or be recorded twice (the
\* children of derive_child, register).
THEOREM ReachablePayoutsAlwaysRecorded ==
  PayoutSpec => []((\A u \in Users, t \in Tokens : PaidTo(u, t) <= MaxEarnings)
                     => ReachablePayoutsRecorded)
<1>1. PayoutSpec => Spec
  <2>1. PayoutInit => Init
    BY DEF PayoutInit
  <2> QED
    BY <2>1, StepIsCall, PTL DEF PayoutSpec, Spec
<1>2. PayoutSpec => []PaidToAdds
  BY PayoutsTyped, PaidToIsSum, PTL
<1>3. PayoutSpec => []EarningsInv
  BY <1>1, <1>2, AwardsInvariant, PayoutAlways, EarningsInit, EarningsStep, PTL
  DEF PayoutSpec
<1>4. EarningsInv => ((\A u \in Users, t \in Tokens : PaidTo(u, t) <= MaxEarnings)
                        => ReachablePayoutsRecorded)
  BY DEF EarningsInv, ReachablePayoutsRecorded
<1> QED
  BY <1>3, <1>4, PTL
=============================================================================
