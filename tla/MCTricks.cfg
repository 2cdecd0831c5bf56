CONSTANTS
  Suits = {"S", "C", "H"}
  Values = {2, 3, 4}
  HandSize = 2
  Decks <- MCDecks
SPECIFICATION Spec
INVARIANTS
  TypeOK
  HandsAgree
  NoRevoke
  CanAnswer
  TrickToBestCard
  TricksAddUp
CHECK_DEADLOCK FALSE
