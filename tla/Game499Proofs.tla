--------------------------- MODULE Game499Proofs ---------------------------
(***************************************************************************)
(* Theorems about the bidding of Bidding, for every set of bids, and about *)
(* the game of 499 around it.                                              *)
(***************************************************************************)
EXTENDS Game499, TLAPS

\* The slots in use are in the order of the table.
Sorted == \A s, t \in 0..(bidders - 1) :
            s < t => leadPlayerTracker[s] < leadPlayerTracker[t]

\* Moving up the players behind slot s takes exactly the player in it out and
\* keeps the order.
LEMMA WithoutDrops ==
  ASSUME TypeOK, Sorted, bidders > 1, NEW s \in 0..(bidders - 1)
  PROVE  /\ Without(s) \in [Slots -> Players]
         /\ {Without(s)[k] : k \in 0..(bidders - 2)} =
              InAuction \ {leadPlayerTracker[s]}
         /\ \A k, l \in 0..(bidders - 2) : k < l => Without(s)[k] < Without(s)[l]
<1> DEFINE W == Without(s)
<1>1. /\ leadPlayerTracker \in [Slots -> Players] /\ bidders \in 2..4
  BY DEF TypeOK
<1>2. \A k \in Slots : W[k] = IF k >= s /\ k < bidders - 1
                              THEN leadPlayerTracker[k + 1]
                              ELSE leadPlayerTracker[k]
  BY DEF Without
<1>3. W \in [Slots -> Players]
  BY <1>1 DEF Without, Slots, Players
<1>4. ASSUME NEW k \in 0..(bidders - 2) PROVE W[k] \in InAuction \ {leadPlayerTracker[s]}
  <2>1. k \in Slots BY <1>1 DEF Slots
  <2>2. CASE k >= s
    <3>1. W[k] = leadPlayerTracker[k + 1] BY <1>1, <1>2, <2>1, <2>2
    <3>2. leadPlayerTracker[s] < leadPlayerTracker[k + 1]
      BY <1>1, <2>2 DEF Sorted
    <3> QED BY <1>1, <3>1, <3>2 DEF InAuction, Slots, Players
  <2>3. CASE k < s
    <3>1. W[k] = leadPlayerTracker[k] BY <1>1, <1>2, <2>1, <2>3
    <3>2. leadPlayerTracker[k] < leadPlayerTracker[s]
      BY <1>1, <2>3 DEF Sorted
    <3> QED BY <1>1, <3>1, <3>2 DEF InAuction, Slots, Players
  <2> QED BY <1>1, <2>2, <2>3
<1>5. ASSUME NEW p \in InAuction \ {leadPlayerTracker[s]}
      PROVE  p \in {W[k] : k \in 0..(bidders - 2)}
  <2>1. PICK t \in 0..(bidders - 1) : p = leadPlayerTracker[t]
    BY DEF InAuction
  <2>2. t # s BY <2>1
  <2>3. CASE t < s
    <3>1. t \in 0..(bidders - 2) /\ t \in Slots BY <1>1, <2>3 DEF Slots
    <3>2. W[t] = p BY <1>1, <1>2, <2>1, <2>3, <3>1
    <3> QED BY <3>1, <3>2
  <2>4. CASE t > s
    <3>1. t - 1 \in 0..(bidders - 2) /\ t - 1 \in Slots /\ (t - 1) + 1 = t
      BY <1>1, <2>4 DEF Slots
    <3>2. W[t - 1] = p BY <1>1, <1>2, <2>1, <2>4, <3>1
    <3> QED BY <3>1, <3>2
  <2> QED BY <1>1, <2>2, <2>3, <2>4
<1>6. ASSUME NEW k \in 0..(bidders - 2), NEW l \in 0..(bidders - 2), k < l
      PROVE  W[k] < W[l]
  <2>1. PICK a \in 0..(bidders - 1) : /\ W[k] = leadPlayerTracker[a]
                                      /\ a = IF k >= s THEN k + 1 ELSE k
    BY <1>1, <1>2 DEF Slots
  <2>2. PICK b \in 0..(bidders - 1) : /\ W[l] = leadPlayerTracker[b]
                                      /\ b = IF l >= s THEN l + 1 ELSE l
    BY <1>1, <1>2 DEF Slots
  <2>3. a < b BY <1>1, <1>6, <2>1, <2>2
  <2> QED BY <2>1, <2>2, <2>3 DEF Sorted
<1> QED BY <1>3, <1>4, <1>5, <1>6

\* The first question of the bidding satisfies the invariant.
LEMMA BidInitInv == BidInit => BidInv
<1> SUFFICES ASSUME BidInit PROVE BidInv OBVIOUS
<1> USE DEF BidInit, Slots, Players
<1>1. InAuction = Players BY DEF InAuction
<1>2. TypeOK BY DEF TypeOK
<1>3. SlotsHoldBidders BY <1>1 DEF SlotsHoldBidders
<1> QED BY <1>2, <1>3 DEF BidInv, LoopsOk, ContractGoesToBidder

\* A new call of set_bid starts from scratch.
LEMMA BidCallInv ==
  ASSUME TypeOK, BidCall, UNCHANGED <<leadPlayer, trumpBid>> PROVE BidInv'
<1> USE DEF BidCall, Slots, Players
<1>1. InAuction' = Players BY DEF InAuction
<1>2. TypeOK' BY DEF TypeOK
<1>3. SlotsHoldBidders' BY <1>1 DEF SlotsHoldBidders
<1> QED BY <1>2, <1>3 DEF BidInv, LoopsOk, ContractGoesToBidder

\* Every accepted answer keeps the invariant.  A pass moves players up, which
\* WithoutDrops covers; when one player is left, that player has the right to
\* the contract whether the maker of the bid to beat passed or not.
LEMMA AnswerInv == BidInv /\ Answer => BidInv'
<1> SUFFICES ASSUME BidInv, Answer PROVE BidInv' OBVIOUS
<1> USE DEF BidInv
<1>0. /\ Asked \in Players /\ Asked \in InAuction /\ bidders \in 1..4
      /\ i \in 0..(bidders - 1)
  BY DEF TypeOK, Asked, InAuction, Slots
<1>1. ASSUME NEW b \in Bids, FirstBid(b) PROVE BidInv'
  <2> USE <1>1 DEF FirstBid, Settle
  <2>1. InAuction' = InAuction /\ 1 \in InAuction
    <3>1. leadPlayerTracker[0] = 1 /\ 0 \in 0..(bidders - 1)
      BY DEF LoopsOk, Slots
    <3> QED BY <3>1 DEF InAuction
  <2>2. TypeOK' BY DEF TypeOK, LoopsOk, Players
  <2>3. SlotsHoldBidders' BY <2>1 DEF SlotsHoldBidders
  <2>4. LoopsOk' BY DEF LoopsOk, Players
  <2>5. passed = {} BY DEF LoopsOk
  <2> QED BY <2>2, <2>3, <2>4, <2>5 DEF ContractGoesToBidder, Entitled
<1>2. ASSUME NEW b \in Bids, TopBid(b) PROVE BidInv'
  <2> USE <1>2 DEF TopBid, Settle
  <2>1. InAuction' = InAuction BY DEF InAuction
  <2>2. TypeOK' BY <1>0 DEF TypeOK, Players
  <2>3. SlotsHoldBidders' BY <2>1 DEF SlotsHoldBidders
  <2>4. Asked \notin passed BY <1>0 DEF SlotsHoldBidders
  <2>5. LoopsOk' BY <1>0 DEF LoopsOk
  <2> QED BY <2>2, <2>3, <2>4, <2>5 DEF ContractGoesToBidder, Entitled
<1>3. ASSUME NEW b \in Bids, Raise(b) PROVE BidInv'
  <2> USE <1>3 DEF Raise, GoOn
  <2>1. InAuction' = InAuction BY DEF InAuction
  <2>2. bidders > 1 BY DEF LoopsOk
  <2>3. pc' \in {"others", "zero"} /\ i' \in 0..(bidders - 1) BY <1>0, <2>2
  <2>4. TypeOK' BY <1>0, <2>3 DEF TypeOK, Players
  <2>5. SlotsHoldBidders' BY <2>1 DEF SlotsHoldBidders
  <2>6. LoopsOk' BY <1>0, <2>2 DEF LoopsOk
  <2> QED BY <2>3, <2>4, <2>5, <2>6 DEF ContractGoesToBidder
<1>4. ASSUME pc \in {"others", "zero"},
             leadPlayerTracker' = Without(i), bidders' = bidders - 1,
             passed' = passed \cup {Asked}, UNCHANGED <<currentTrump, maker>>,
             IF bidders' = 1
             THEN Settle(leadPlayerTracker'[0], currentTrump) /\ i' = 0
             ELSE /\ i' \in 0..(bidders' - 1) /\ pc' \in {"others", "zero"}
                  /\ pc' = "others" <=> i' # 0
                  /\ UNCHANGED <<leadPlayer, trumpBid>>
      PROVE  BidInv'
  <2>1. bidders \in 2..4 /\ currentTrump \in Bids BY <1>0, <1>4 DEF LoopsOk
  <2>2. Sorted BY DEF SlotsHoldBidders, Sorted
  <2>3. /\ Without(i) \in [Slots -> Players]
        /\ {Without(i)[k] : k \in 0..(bidders - 2)} = InAuction \ {Asked}
        /\ \A k, l \in 0..(bidders - 2) : k < l => Without(i)[k] < Without(i)[l]
    <3>1. bidders > 1 BY <2>1
    <3> QED BY <1>0, <2>2, <3>1, WithoutDrops DEF Asked
  <2>4. bidders' - 1 = bidders - 2 /\ bidders' \in 1..3 BY <1>4, <2>1
  <2>5. InAuction' = InAuction \ {Asked} BY <1>4, <2>3, <2>4 DEF InAuction
  <2>6. leadPlayerTracker'[0] \in Players BY <1>4, <2>3 DEF Slots
  <2>7. TypeOK'
    BY <1>0, <1>4, <2>1, <2>3, <2>4, <2>6 DEF TypeOK, Settle, Players
  <2>8. SlotsHoldBidders'
    BY <1>4, <2>3, <2>4, <2>5 DEF SlotsHoldBidders
  <2>9. LoopsOk' BY <1>4, <2>1, <2>4 DEF LoopsOk, Settle
  <2>10. ContractGoesToBidder'
    <3> SUFFICES ASSUME pc' = "done"
                 PROVE  trumpBid' = currentTrump' /\ Entitled(leadPlayer)'
      BY DEF ContractGoesToBidder
    <3>1. bidders' = 1 /\ Settle(leadPlayerTracker'[0], currentTrump) BY <1>4
    <3>2. InAuction' = {leadPlayerTracker'[0]}
      <4>1. 0..(bidders' - 1) = {0} BY <3>1
      <4> QED BY <4>1 DEF InAuction
    <3>3. maker' \in Players BY <1>4 DEF LoopsOk
    <3>4. maker' \notin passed' => maker' \in InAuction'
      BY <2>8, <3>3 DEF SlotsHoldBidders
    <3>5. leadPlayer' = leadPlayerTracker'[0] BY <3>1 DEF Settle
    <3>6. Entitled(leadPlayer)' BY <3>2, <3>4, <3>5 DEF Entitled
    <3> QED BY <1>4, <3>1, <3>6 DEF Settle
  <2> QED BY <2>7, <2>8, <2>9, <2>10
<1>5. ASSUME PassOther PROVE BidInv'
  <2>1. i \in 1..(bidders - 1) /\ bidders \in 2..4 BY <1>0, <1>5 DEF PassOther, LoopsOk
  <2>2. CASE bidders' = 1
    <3>1. i - 1 = 0 BY <1>5, <2>1, <2>2 DEF PassOther
    <3>2. Settle(leadPlayerTracker'[0], currentTrump) /\ i' = 0
      BY <1>5, <2>2, <3>1 DEF PassOther
    <3> QED BY <1>4, <1>5, <2>2, <3>2 DEF PassOther
  <2>3. CASE bidders' # 1
    <3>1. /\ i' \in 0..(bidders' - 1) /\ pc' \in {"others", "zero"}
          /\ pc' = "others" <=> i' # 0
      BY <1>5, <2>1, <2>3 DEF PassOther, GoOn
    <3> QED BY <1>4, <1>5, <2>3, <3>1 DEF PassOther
  <2> QED BY <2>2, <2>3
<1>6. ASSUME PassZero PROVE BidInv'
  <2>1. i = 0 /\ bidders \in 2..4 BY <1>0, <1>6 DEF PassZero, LoopsOk
  <2>2. CASE bidders' = 1
    BY <1>4, <1>6, <2>1, <2>2 DEF PassZero
  <2>3. CASE bidders' # 1
    <3>1. /\ i' \in 0..(bidders' - 1) /\ pc' \in {"others", "zero"}
          /\ pc' = "others" <=> i' # 0
      BY <1>6, <2>1, <2>3 DEF PassZero, GoOn
    <3> QED BY <1>4, <1>6, <2>1, <2>3, <3>1 DEF PassZero
  <2> QED BY <2>2, <2>3
<1> QED BY <1>1, <1>2, <1>3, <1>5, <1>6 DEF Answer
----------------------------------------------------------------------------
\* The invariant holds whatever bids the players may send.
THEOREM BiddingInvariant == BidSpec => []BidInv
<1>1. ASSUME BidInv, UNCHANGED bidvars PROVE BidInv'
  BY <1>1 DEF bidvars, BidInv, TypeOK, SlotsHoldBidders, LoopsOk,
              ContractGoesToBidder, Entitled, InAuction
<1>2. BidInv /\ [BidNext]_bidvars => BidInv'
  <2>1. BidInv /\ NextAuction => BidInv' BY BidCallInv DEF NextAuction, BidInv
  <2> QED BY <1>1, <2>1, AnswerInv DEF BidNext
<1> QED BY <1>2, BidInitInv, PTL DEF BidSpec

\* While the bidding goes on, the slots hold the players who have not passed,
\* whatever the order of bids and passes.
THEOREM SlotsCorrect == BidSpec => []SlotsHoldBidders
<1>1. BidInv => SlotsHoldBidders BY DEF BidInv
<1> QED BY <1>1, BiddingInvariant, PTL

\* However players bid and pass, the contract is the bid to beat and goes to
\* its maker or, if that player passed on it, to the last player left.
THEOREM ContractCorrect == BidSpec => []ContractGoesToBidder
<1>1. BidInv => ContractGoesToBidder BY DEF BidInv
<1> QED BY <1>1, BiddingInvariant, PTL

\* Every bid is worth something, and none is worth more than 9H.
LEMMA BidsWorth == \A b \in Bids : bid_to_int(b) \in 1..Highest
<1> SUFFICES ASSUME NEW b \in Bids PROVE bid_to_int(b) \in 1..Highest OBVIOUS
<1>1. b.value \in 4..9 /\ b.suit \in {"S", "C", "D", "H"} /\ b # NoBid
  BY BidsAssumption DEF Suits
<1>2. Base[b.suit] \in 20..50 BY <1>1 DEF Base
<1>3. (b.value - 4) * 50 \in 0..250 BY <1>1
<1> QED BY <1>1, <1>2, <1>3 DEF bid_to_int, Highest

\* The bidding makes progress with every accepted answer: as bids are bounded
\* and there are four bidders it ends unless a question is never answered.
THEOREM BiddingAdvances == BidSpec => EveryAnswerCounts
<1> DEFINE Counts ==
      pc # "done" =>
        \/ bid_to_int(currentTrump') > bid_to_int(currentTrump) /\ bidders' = bidders
        \/ currentTrump' = currentTrump /\ bidders' < bidders
<1>1. BidInv /\ [BidNext]_bidvars => [Counts]_bidvars
  <2> SUFFICES ASSUME BidInv, BidNext, pc # "done" PROVE Counts
    OBVIOUS
  <2>1. bidders \in 1..4 BY DEF BidInv, TypeOK
  <2>2. ASSUME NEW b \in Bids, FirstBid(b) PROVE Counts
    <3>1. currentTrump = NoBid BY <2>2 DEF FirstBid, BidInv, LoopsOk
    <3>2. bid_to_int(currentTrump) = 0 BY <3>1 DEF bid_to_int
    <3>3. bid_to_int(b) > 0 BY BidsWorth
    <3>4. currentTrump' = b /\ bidders' = bidders BY <2>2 DEF FirstBid
    <3> QED BY <3>2, <3>3, <3>4
  <2>3. ASSUME NEW b \in Bids, Raise(b) PROVE Counts
    BY <2>3 DEF Raise, Raises
  <2>4. CASE PassOther BY <2>1, <2>4 DEF PassOther
  <2>5. CASE PassZero BY <2>1, <2>5 DEF PassZero
  <2>6. ASSUME NEW b \in Bids, TopBid(b) PROVE Counts
    <3>1. currentTrump \in Bids /\ bid_to_int(currentTrump) # Highest
      BY <2>6 DEF TopBid, BidInv, LoopsOk
    <3>2. bid_to_int(currentTrump) \in 1..Highest BY <3>1, BidsWorth
    <3>3. bid_to_int(currentTrump) < Highest BY <3>1, <3>2 DEF Highest
    <3> QED BY <2>6, <3>3 DEF TopBid
  <2>7. ~NextAuction BY DEF NextAuction
  <2> QED BY <2>2, <2>3, <2>4, <2>5, <2>6, <2>7 DEF BidNext, Answer
<1> QED BY <1>1, BiddingInvariant, PTL DEF BidSpec, EveryAnswerCounts

----------------------------------------------------------------------------
(* The game around the bidding.                                            *)

\* The game thread drives the bidding as Bidding says: it answers, and calls
\* set_bid again only when the bidding is over.  So every theorem above holds
\* of the whole game.
THEOREM GameBids == Spec => BidSpec
<1>1. Init => BidInit BY DEF Init
<1>2. [Next]_vars => [BidNext]_bidvars
  BY DEF Next, Bid, Round, BidNext, NextAuction, vars, bidvars
<1> QED BY <1>1, <1>2, PTL DEF Spec, BidSpec

\* The points of the sides are integers beside the invariant of the bidding.
GameInv == BidInv /\ teamPoints \in [1..2 -> Int]

\* A game keeps its invariant: the part of the bidding by GameBids.
LEMMA GameInvariant == Spec => []GameInv
<1>1. Init => teamPoints \in [1..2 -> Int] BY DEF Init
<1>2. teamPoints \in [1..2 -> Int] /\ [Next]_vars => (teamPoints \in [1..2 -> Int])'
  <2> SUFFICES ASSUME teamPoints \in [1..2 -> Int], Next
               PROVE  teamPoints' \in [1..2 -> Int]
    BY DEF vars, gamevars
  <2>1. CASE Bid BY <2>1 DEF Bid, gamevars
  <2>2. ASSUME NEW tricks \in 0..13, Round(tricks)
        PROVE  teamPoints' \in [1..2 -> Int]
    <3>1. \A s \in 1..2 : teamPoints'[s] \in Int
      BY <2>2, PointAssumption DEF Round
    <3> QED BY <2>2, <3>1 DEF Round, PointsOfLeader
  <2> QED BY <2>1, <2>2 DEF Next
<1> QED BY <1>1, <1>2, GameBids, BiddingInvariant, PTL DEF Spec, GameInv

\* However players bid and pass, each round is scored for the side that has the
\* right to the contract, by the worth of the bid to beat.
THEOREM BidderIsScored == Spec => BidderScores
<1> DEFINE Scored(p) ==
             /\ Entitled(p)
             /\ teamPoints'[3 - Side(p)] = teamPoints[3 - Side(p)]
             /\ teamPoints'[Side(p)] - teamPoints[Side(p)] \in
                  {bid_to_int(currentTrump), -bid_to_int(currentTrump)}
           Scores == teamPoints' # teamPoints => \E p \in Players : Scored(p)
<1>1. GameInv /\ [Next]_vars => [Scores]_vars
  <2> SUFFICES ASSUME GameInv, Next, teamPoints' # teamPoints
               PROVE  \E p \in Players : Scored(p)
    OBVIOUS
  <2>1. PICK tricks \in 0..13 : Round(tricks) BY DEF Next, Bid, gamevars
  <2>2. Entitled(leadPlayer) /\ trumpBid = currentTrump
    BY <2>1 DEF Round, GameInv, BidInv, ContractGoesToBidder
  <2>3. leadPlayer \in Players
    <3>1. pc = "done" BY <2>1 DEF Round
    <3>2. maker \in Players BY <3>1 DEF GameInv, BidInv, LoopsOk
    <3>3. InAuction \subseteq Players BY DEF GameInv, BidInv, SlotsHoldBidders
    <3> QED BY <2>2, <3>2, <3>3 DEF Entitled
  <2>4. PICK s \in 1..2 : s = Side(leadPlayer) BY DEF Side
  <2>5. teamPoints' = [teamPoints EXCEPT ![s] = @ + Signed(tricks)]
    BY <2>1, <2>4 DEF Round, PointsOfLeader
  <2>6. Signed(tricks) \in {bid_to_int(currentTrump), -bid_to_int(currentTrump)}
    BY <2>2 DEF Signed
  <2>7. bid_to_int(currentTrump) \in Int
    <3>1. currentTrump \in Bids \cup {NoBid} BY DEF GameInv, BidInv, TypeOK
    <3> QED BY <3>1, BidsWorth DEF bid_to_int, Highest
  <2>8. 3 - s \in 1..2 /\ 3 - s # s OBVIOUS
  <2>9. teamPoints'[3 - s] = teamPoints[3 - s] BY <2>5, <2>8 DEF GameInv
  <2>10. teamPoints[s] \in Int /\ teamPoints'[s] = teamPoints[s] + Signed(tricks)
    BY <2>5 DEF GameInv
  <2>11. Signed(tricks) \in Int BY <2>6, <2>7
  <2>12. teamPoints'[s] - teamPoints[s] = Signed(tricks) BY <2>10, <2>11
  <2>13. Scored(leadPlayer) BY <2>2, <2>4, <2>6, <2>9, <2>12
  <2> QED BY <2>3, <2>13
<1> QED BY <1>1, GameInvariant, PTL DEF Spec, BidderScores
============================================================================
