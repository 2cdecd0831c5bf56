------------------------------- MODULE Tricks -------------------------------
(***************************************************************************)
(* The tricks of a 499 round: play_trick_round, play_round and send_hand   *)
(* of serv499.c with the clients that answer it, send_lead, send_play,     *)
(* in_deck and remove_play_card of client499.c (in                         *)
(* Unix/csse2310/assignment4).  The server asks one player at a time.  The *)
(* client reads cards from its user until one passes its checks, sends it, *)
(* and takes it out of the hand when the server acknowledges it, which is  *)
(* before it is asked again: asking, answering and removing are one step.  *)
(* The server accepts every card; only the clients know the hands, and they *)
(* let a user who is out of a suit type any card at all.                   *)
(***************************************************************************)
EXTENDS Integers, FiniteSets

CONSTANTS
  Suits, Values,  \* what cards there are
  HandSize,       \* cards dealt to each player, 13 in the code
  Decks           \* lines of the deck file: sequences of 4 * HandSize cards

Players == 1..4
Cards == [value : Values, suit : Suits]

ASSUME CardsAssumption == Values \subseteq Nat \ {0}
ASSUME DecksAssumption ==
  /\ HandSize \in Nat \ {0}
  /\ \A d \in Decks : /\ d \in [1..(4 * HandSize) -> Cards]
                      /\ \A j, k \in DOMAIN d : d[j] = d[k] => j = k

VARIABLES
  hand,            \* per player, the cards in the arrays of the client
  cardsNo,         \* per player and suit, the client's count of them
  trump,           \* suit of trumpBid
  leadPlayer,      \* who plays the contract
  currentLead,     \* who leads the trick
  turn,            \* who is asked
  leadCard,        \* best card of the suit led so far
  leadSuit,
  newLead,         \* who played leadCard
  trumpLeadCard,   \* best trump so far, value 0 if none
  trumpLead,       \* who played it, or -1
  tricksAchieved,  \* tricks won by each player in this round
  tricks,          \* tricks played in this round
  pc,              \* "lead", "follow", "end", "scored"
  table,           \* history: the cards of this trick by player
  shown,           \* history: suits each player was seen to be out of
  left,            \* history: per player, the cards dealt and not yet played
  strayed          \* history: who typed a card that was not in the hand

handvars == <<hand, cardsNo, shown, left, strayed>>
trickvars == <<currentLead, turn, leadCard, leadSuit, newLead, trumpLeadCard,
               trumpLead, table>>
roundvars == <<trump, leadPlayer, tricksAchieved, tricks>>
vars == <<handvars, trickvars, roundvars, pc>>

NoCard == [value |-> 0, suit |-> "none"]
OfSuit(cards, s) == {c \in cards : c.suit = s}
CardsNo(cards) == [s \in Suits |-> Cardinality(OfSuit(cards, s))]

\* send_hand deals the cards of the line in turn.
Dealt(deck) == [p \in Players |-> {deck[4 * k + p] : k \in 0..(HandSize - 1)}]

TrickStart(lead) ==
  /\ currentLead' = lead /\ turn' = lead
  /\ leadCard' = NoCard /\ leadSuit' = "none" /\ newLead' = lead
  /\ trumpLeadCard' = NoCard /\ trumpLead' = -1
  /\ table' = [p \in Players |-> NoCard]
  /\ pc' = "lead"

Init == \E deck \in Decks, s \in Suits, p \in Players :
  /\ hand = Dealt(deck)
  /\ cardsNo = [q \in Players |-> CardsNo(Dealt(deck)[q])]
  /\ trump = s /\ leadPlayer = p
  /\ currentLead = p /\ turn = p
  /\ leadCard = NoCard /\ leadSuit = "none" /\ newLead = p
  /\ trumpLeadCard = NoCard /\ trumpLead = -1
  /\ tricksAchieved = [q \in Players |-> 0]
  /\ tricks = 0
  /\ pc = "lead"
  /\ table = [q \in Players |-> NoCard]
  /\ shown = [q \in Players |-> {}]
  /\ left = hand /\ strayed = {}
----------------------------------------------------------------------------
(* The client.                                                             *)

\* remove_play_card: the arrays are sorted with the lowest card last.  A card
\* that is not found still shortens the array of its suit by the last one.
Removed(p, c) ==
  LET held == OfSuit(hand[p], c.suit) IN
  IF c \in held \/ held = {} THEN hand[p] \ {c}
  ELSE hand[p] \ {CHOOSE x \in held : \A y \in held : x.value <= y.value}

RemoveUncounted(p, c) ==
  /\ hand' = [hand EXCEPT ![p] = Removed(p, c)]
  /\ UNCHANGED cardsNo
Remove(p, c) ==
  /\ hand' = [hand EXCEPT ![p] = Removed(p, c)]
  /\ cardsNo' = [cardsNo EXCEPT ![p][c.suit] = @ - 1]

\* A user's card is sent, and removed when the server acknowledges it.
Play(p, c) ==
  /\ Remove(p, c)
  /\ left' = [left EXCEPT ![p] = @ \ {c}]
  /\ strayed' = IF c \in hand[p] THEN strayed ELSE strayed \cup {p}

\* send_lead takes a card of the hand.
Leads(p) == hand[p]

\* send_play takes a card of the hand of the suit led, or any card at all of
\* another suit once the count of the suit led is zero.
OutOfNever(p, s) == cardsNo[p][s] < 0
OutOf(p, s) == cardsNo[p][s] = 0
FollowsAny(p, s) == hand[p]
Follows(p, s) == {c \in Cards : IF c.suit = s THEN c \in hand[p] ELSE OutOf(p, s)}
----------------------------------------------------------------------------
(* The server.                                                             *)

NextPlayerUnwrapped(p) == p + 1
NextPlayer(p) == IF p = 4 THEN 1 ELSE p + 1
PassTurn == /\ turn' = NextPlayer(turn)
            /\ pc' = IF turn' = currentLead THEN "end" ELSE "follow"

Lead ==
  /\ pc = "lead"
  /\ \E c \in Leads(turn) :
       /\ leadCard' = c
       /\ leadSuit' = c.suit
       /\ table' = [table EXCEPT ![turn] = c]
       /\ Play(turn, c)
  /\ PassTurn
  /\ UNCHANGED <<roundvars, shown, currentLead, newLead, trumpLeadCard, trumpLead>>

BeatsLead(c) == c.suit = leadSuit /\ c.value > leadCard.value
BeatsTrumpAlways(c) == c.suit = trump
BeatsTrump(c) == c.suit = trump /\ c.value > trumpLeadCard.value

\* A card counts against the best of the suit led first, then as a trump.
Compare(c) ==
  IF BeatsLead(c)
  THEN newLead' = turn /\ leadCard' = c /\ UNCHANGED <<trumpLead, trumpLeadCard>>
  ELSE IF BeatsTrump(c)
       THEN trumpLead' = turn /\ trumpLeadCard' = c /\ UNCHANGED <<newLead, leadCard>>
       ELSE UNCHANGED <<newLead, leadCard, trumpLead, trumpLeadCard>>

Follow ==
  /\ pc = "follow"
  /\ \E c \in Follows(turn, leadSuit) :
       /\ Compare(c)
       /\ table' = [table EXCEPT ![turn] = c]
       /\ shown' = [shown EXCEPT ![turn] =
                      IF c.suit = leadSuit THEN @ ELSE @ \cup {leadSuit}]
       /\ Play(turn, c)
  /\ PassTurn
  /\ UNCHANGED <<roundvars, currentLead, leadSuit>>

\* play_trick_round announces newLead to all, but returns the winner, who is
\* credited and leads next.
Winner == IF trumpLead = -1 THEN newLead ELSE trumpLead

TrickEnd ==
  /\ pc = "end"
  /\ tricksAchieved' = [tricksAchieved EXCEPT ![Winner] = @ + 1]
  /\ tricks' = tricks + 1
  /\ IF tricks' < HandSize
     THEN TrickStart(Winner)
     ELSE pc' = "scored" /\ UNCHANGED trickvars
  /\ UNCHANGED <<trump, leadPlayer, handvars>>

ClearTricksForgotten == UNCHANGED tricksAchieved
ClearTricks == tricksAchieved' = [p \in Players |-> 0]

\* The round is scored; the next hand is sent and bid for.
NextRound ==
  /\ pc = "scored"
  /\ ClearTricks
  /\ tricks' = 0
  /\ \E deck \in Decks, s \in Suits, p \in Players :
       /\ hand' = Dealt(deck)
       /\ cardsNo' = [q \in Players |-> CardsNo(Dealt(deck)[q])]
       /\ trump' = s
       /\ leadPlayer' = p
       /\ TrickStart(p)
  /\ shown' = [p \in Players |-> {}]
  /\ left' = hand' /\ strayed' = {}

Next == Lead \/ Follow \/ TrickEnd \/ NextRound

Spec == Init /\ [][Next]_vars
----------------------------------------------------------------------------
\* Who has the best card of a suit on the table: two players who typed the same
\* card may both.
Best(s) == {p \in Players :
              /\ table[p].suit = s
              /\ \A q \in Players :
                   table[q].suit = s => table[q].value <= table[p].value}
Trumped == \E p \in Players : table[p].suit = trump

\* The variables have their types.
TypeOK ==
  /\ hand \in [Players -> SUBSET Cards]
  /\ cardsNo \in [Players -> [Suits -> Int]]
  /\ trump \in Suits /\ leadSuit \in Suits \cup {"none"}
  /\ {leadPlayer, currentLead, turn, newLead} \subseteq Players
  /\ trumpLead \in Players \cup {-1}
  /\ {leadCard, trumpLeadCard} \subseteq Cards \cup {NoCard}
  /\ table \in [Players -> Cards \cup {NoCard}]
  /\ tricksAchieved \in [Players -> Nat] /\ tricks \in 0..HandSize
  /\ pc \in {"lead", "follow", "end", "scored"}
  /\ shown \in [Players -> SUBSET Suits]
  /\ left \in [Players -> SUBSET Cards] /\ strayed \subseteq Players

\* Whatever users type, the counts of a client agree with its arrays as long as
\* they are not below zero, and no array has lost more than the cards that were
\* played.  Who has played only own cards has exactly the rest of the deal.
HandsAgree ==
  \A p \in Players :
    LET due == HandSize - tricks - (IF table[p] # NoCard THEN 1 ELSE 0) IN
    /\ \A s \in Suits : Cardinality(OfSuit(hand[p], s)) =
                          IF cardsNo[p][s] < 0 THEN 0 ELSE cardsNo[p][s]
    /\ pc # "scored" => Cardinality(hand[p]) >= due
    /\ p \notin strayed => /\ hand[p] = left[p]
                           /\ pc # "scored" => Cardinality(hand[p]) = due

\* Whatever the others type, a player who has typed only own cards and failed to
\* follow a suit has none of it left.
NoRevoke == \A p \in Players \ strayed :
              leadSuit \in shown[p] => OfSuit(left[p], leadSuit) = {}

\* The client of the leader accepts a card, and so does that of a follower who
\* has typed only own cards: one of these.  A follower is refused everything,
\* and the game hangs, just when the count of the suit led is below zero.
CanAnswer ==
  /\ pc = "lead" => Leads(turn) # {}
  /\ pc = "follow" =>
       /\ turn \notin strayed => Follows(turn, leadSuit) \cap left[turn] # {}
       /\ Follows(turn, leadSuit) = {} <=> cardsNo[turn][leadSuit] < 0

\* When trumps are not led, the trick goes to the highest trump on the table
\* or, without one, to the highest card of the suit led.  When trumps are led it
\* goes to a trump, the highest one if no lower one came after it.
TrickToBestCard ==
  pc = "end" =>
    /\ newLead \in Best(leadSuit)
    /\ leadSuit # trump => Winner \in Best(IF Trumped THEN trump ELSE leadSuit)
    /\ leadSuit = trump => /\ table[Winner].suit = trump
                           /\ trumpLead = -1 => Winner \in Best(trump)

\* Every trick is credited once, and the credits of one round are gone before
\* the next is scored.
TricksAddUp ==
  tricksAchieved[1] + tricksAchieved[2] + tricksAchieved[3] + tricksAchieved[4] = tricks
=============================================================================
