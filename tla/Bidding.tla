------------------------------ MODULE Bidding ------------------------------
(***************************************************************************)
(* The bidding of a 499 round: set_bid, valid_bid and bid_to_int of        *)
(* Unix/csse2310/assignment4/serv499.c.  The thread of the game asks one   *)
(* player at a time and waits for the answer.  An answer that is not a     *)
(* card of value 4 to 9, a bid that is too low, and a pass of the player   *)
(* who opens lead to the same question again: they are no steps.           *)
(***************************************************************************)
EXTENDS Integers, FiniteSets

CONSTANTS
  Bids,   \* the bids players may send
  NoBid   \* "nothing bid"

Suits == {"S", "C", "D", "H"}
Players == 1..4
Slots == 0..3

ASSUME BidsAssumption == /\ Bids \subseteq [value : 4..9, suit : Suits]
                         /\ NoBid \notin Bids

VARIABLES
  leadPlayerTracker,  \* who sits in each slot; the streams are moved alike
  bidders,            \* slots in use
  i,                  \* slot of the player who is asked
  currentTrump,       \* the bid to beat
  leadPlayer,         \* of the game: who plays the contract, 0 before the first
  trumpBid,           \* of the game: the contract
  pc,                 \* "first", "others", "zero", "done"
  maker,              \* history: who made the bid to beat
  passed              \* history: who passed in this auction

bidvars == <<leadPlayerTracker, bidders, i, currentTrump, leadPlayer, trumpBid,
             pc, maker, passed>>

Base == [S |-> 20, C |-> 30, D |-> 40, H |-> 50]
bid_to_int(card) == IF card = NoBid THEN 0
                    ELSE (card.value - 4) * 50 + Base[card.suit]

Highest == 300    \* 9H

\* The locals of a new call of set_bid.
BidCall ==
  /\ leadPlayerTracker' = [s \in Slots |-> s + 1]
  /\ bidders' = 4
  /\ i' = 0
  /\ currentTrump' = NoBid
  /\ pc' = "first"
  /\ maker' = 0
  /\ passed' = {}

BidInit ==
  /\ leadPlayerTracker = [s \in Slots |-> s + 1]
  /\ bidders = 4
  /\ i = 0
  /\ currentTrump = NoBid
  /\ leadPlayer = 0
  /\ trumpBid = NoBid
  /\ pc = "first"
  /\ maker = 0
  /\ passed = {}

Asked == leadPlayerTracker[i]

SettleUnled(p, b) == UNCHANGED leadPlayer /\ trumpBid' = b /\ pc' = "done"

\* The bidding ends: p plays the contract b.
Settle(p, b) == /\ leadPlayer' = p
                /\ trumpBid' = b
                /\ pc' = "done"

RaisesOrEquals(b) == bid_to_int(b) >= bid_to_int(currentTrump)
Raises(b) == bid_to_int(b) > bid_to_int(currentTrump)

\* Whoever sits behind slot s moves up by one.
WithoutShort(s) == [k \in Slots |-> IF k >= s /\ k < bidders - 2
                                    THEN leadPlayerTracker[k + 1]
                                    ELSE leadPlayerTracker[k]]
Without(s) == [k \in Slots |-> IF k >= s /\ k < bidders - 1
                               THEN leadPlayerTracker[k + 1]
                               ELSE leadPlayerTracker[k]]

\* The player in slot 0 opens.  leadPlayer is set only by the highest bid.
FirstBid(b) ==
  /\ pc = "first"
  /\ currentTrump' = b
  /\ maker' = 1
  /\ IF bid_to_int(b) = Highest
     THEN Settle(1, b) /\ UNCHANGED i
     ELSE pc' = "others" /\ i' = 1 /\ UNCHANGED <<leadPlayer, trumpBid>>
  /\ UNCHANGED <<leadPlayerTracker, bidders, passed>>

\* The highest bid ends the bidding.
TopBid(b) ==
  /\ pc \in {"others", "zero"}
  /\ bid_to_int(b) = Highest
  /\ Settle(Asked, b)
  /\ currentTrump' = b
  /\ maker' = Asked
  /\ UNCHANGED <<leadPlayerTracker, bidders, i, passed>>

\* From slot s of n the loops go on to the next slot, or to slot 0.
GoOn(s, n) == IF s < n THEN i' = s /\ pc' = "others"
                       ELSE i' = 0 /\ pc' = "zero"

\* A higher bid.
Raise(b) ==
  /\ pc \in {"others", "zero"}
  /\ bid_to_int(b) # Highest
  /\ Raises(b)
  /\ leadPlayer' = Asked
  /\ currentTrump' = b
  /\ maker' = Asked
  /\ GoOn(i + 1, bidders)
  /\ UNCHANGED <<leadPlayerTracker, bidders, trumpBid, passed>>

\* A player in a slot other than 0 passes; the next player moves into the slot.
PassOther ==
  /\ pc = "others"
  /\ leadPlayerTracker' = Without(i)
  /\ bidders' = bidders - 1
  /\ passed' = passed \cup {Asked}
  /\ IF bidders' = 1
     THEN Settle(leadPlayerTracker'[i - 1], currentTrump) /\ i' = i - 1
     ELSE GoOn(i, bidders') /\ UNCHANGED <<leadPlayer, trumpBid>>
  /\ UNCHANGED <<currentTrump, maker>>

\* The player in slot 0 passes; slot 1 is asked next, whoever sits there now.
PassZero ==
  /\ pc = "zero"
  /\ leadPlayerTracker' = Without(0)
  /\ bidders' = bidders - 1
  /\ passed' = passed \cup {Asked}
  /\ IF bidders' = 1
     THEN Settle(leadPlayerTracker'[0], currentTrump) /\ UNCHANGED i
     ELSE GoOn(1, bidders') /\ UNCHANGED <<leadPlayer, trumpBid>>
  /\ UNCHANGED <<currentTrump, maker>>

Answer == \/ \E b \in Bids : FirstBid(b) \/ TopBid(b) \/ Raise(b)
          \/ PassOther
          \/ PassZero

\* The round is played and the thread calls set_bid for the next one.
NextAuction == /\ pc = "done"
               /\ BidCall
               /\ UNCHANGED <<leadPlayer, trumpBid>>

BidNext == Answer \/ NextAuction

BidSpec == BidInit /\ [][BidNext]_bidvars
----------------------------------------------------------------------------
\* Who sits in the slots in use.
InAuction == {leadPlayerTracker[s] : s \in 0..(bidders - 1)}

\* The variables have their types, and the slot asked is in use.
TypeOK ==
  /\ leadPlayerTracker \in [Slots -> Players]
  /\ bidders \in 1..4
  /\ i \in 0..(bidders - 1)
  /\ currentTrump \in Bids \cup {NoBid}
  /\ leadPlayer \in 0..4
  /\ trumpBid \in Bids \cup {NoBid}
  /\ pc \in {"first", "others", "zero", "done"}
  /\ maker \in 0..4
  /\ passed \subseteq Players

\* The slots in use hold exactly the players who have not passed, once each
\* and in the order of the table: moving players up between two questions of
\* the for loop drops nobody and asks nobody twice.
SlotsHoldBidders ==
  /\ InAuction = Players \ passed
  /\ \A s, t \in 0..(bidders - 1) :
       s < t => leadPlayerTracker[s] < leadPlayerTracker[t]

\* The invariant behind the properties: where the loops stand, and that there
\* is a bid to beat once player 1 has made one.
LoopsOk ==
  /\ pc = "first" => /\ i = 0 /\ bidders = 4 /\ passed = {} /\ currentTrump = NoBid
                     /\ \A s \in Slots : leadPlayerTracker[s] = s + 1
  /\ pc # "first" => maker \in Players
  /\ pc = "others" => i \in 1..(bidders - 1)
  /\ pc = "zero" => i = 0
  /\ pc \in {"others", "zero"} => /\ bidders > 1 /\ currentTrump \in Bids
                                  /\ bid_to_int(currentTrump) # Highest

\* Who has the right to the contract: the player who made the bid to beat or,
\* if that player passed on the own bid, the only one left.  (The loops may ask
\* that player: a pass in slot 0 moves the next player into slot 0 and asks
\* slot 1, and nothing forbids a pass on the own bid.)
Entitled(p) == IF maker \in passed THEN InAuction = {p} ELSE p = maker

\* The contract is the bid to beat and goes to who has the right to it, never
\* to somebody who has passed.
ContractGoesToBidder ==
  pc = "done" => trumpBid = currentTrump /\ Entitled(leadPlayer)

BidInv == TypeOK /\ SlotsHoldBidders /\ LoopsOk /\ ContractGoesToBidder

\* The bidding cannot go round for ever: every accepted answer raises the bid
\* or takes one player out and keeps the bid.
EveryAnswerCounts ==
  [][pc # "done" =>
       \/ bid_to_int(currentTrump') > bid_to_int(currentTrump) /\ bidders' = bidders
       \/ currentTrump' = currentTrump /\ bidders' < bidders]_bidvars
============================================================================
