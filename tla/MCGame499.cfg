CONSTANTS
  NoBid = NoBid
  Bids <- MCFewBids
  PointBound = 600
SPECIFICATION Spec
INVARIANTS
  SlotsHoldBidders
  ContractGoesToBidder
PROPERTIES
  EveryAnswerCounts
  BidderScores
CHECK_DEADLOCK FALSE
