------------------------------ MODULE Game499 ------------------------------
(***************************************************************************)
(* A game of 499 as its thread runs it: game_thread and play_round of      *)
(* Unix/csse2310/assignment4/serv499.c around the bidding of Bidding.  The *)
(* thirteen tricks of a round are modelled in Tricks; here a round gives   *)
(* the side that plays the contract any number of them.                    *)
(***************************************************************************)
EXTENDS Bidding

CONSTANT PointBound  \* bound on the points of a side, for model checking

ASSUME PointAssumption == PointBound \in Nat

VARIABLES
  teamPoints,  \* points of the sides 1 (players 1 and 3) and 2
  over         \* the game ended: the side announced as the winner, or 0

gamevars == <<teamPoints, over>>
vars == <<bidvars, gamevars>>

Side(p) == IF p \in {1, 3} THEN 1 ELSE 2

\* play_round: the contract is made when its side has as many tricks as bid.
Made(tricks) == tricks >= trumpBid.value
Signed(tricks) == IF Made(tricks) THEN bid_to_int(trumpBid)
                                  ELSE -bid_to_int(trumpBid)
PointsOfLeader(tricks) ==
  [teamPoints EXCEPT ![Side(leadPlayer)] = @ + Signed(tricks)]

Limit == 499
\* The condition of both branches that announce a winner.
Winning(points) == points[1] >= Limit \/ points[2] <= -Limit

Init == BidInit /\ teamPoints = [s \in 1..2 |-> 0] /\ over = 0

\* An answer of a player in the bidding.
Bid == over = 0 /\ Answer /\ UNCHANGED gamevars

\* The round is played, scored and announced; unless somebody won, the next
\* hand is sent and bidding starts again.
Round(tricks) ==
  /\ pc = "done" /\ over = 0
  /\ teamPoints' = PointsOfLeader(tricks)
  /\ \A s \in 1..2 : teamPoints'[s] \in -PointBound..PointBound
  /\ IF Winning(teamPoints')
     THEN over' = 1 /\ UNCHANGED bidvars
     ELSE BidCall /\ UNCHANGED <<leadPlayer, trumpBid, over>>

Next == Bid \/ \E tricks \in 0..13 : Round(tricks)

Spec == Init /\ [][Next]_vars
----------------------------------------------------------------------------
\* A round changes the points of the side of the player who has the right to
\* the contract, by what the bid is worth, and of nobody else: bidding, play and
\* scoring agree on whose contract it was.
BidderScores ==
  [][teamPoints' # teamPoints =>
       \E p \in Players :
         /\ Entitled(p)
         /\ teamPoints'[3 - Side(p)] = teamPoints[3 - Side(p)]
         /\ teamPoints'[Side(p)] - teamPoints[Side(p)] \in
              {bid_to_int(currentTrump), -bid_to_int(currentTrump)}]_vars
============================================================================
