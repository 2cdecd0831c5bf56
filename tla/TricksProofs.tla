---------------------------- MODULE TricksProofs ----------------------------
(***************************************************************************)
(* Theorems about Tricks, for every deck file, every size of a hand and    *)
(* whatever users type: the client that refuses a card is in the model, and *)
(* a card it does not refuse is any card.  The invariant says that a count  *)
(* below zero stands for an empty suit and no hand is shorter than it       *)
(* should be (CountsOk), that the cards on the table belong to the players  *)
(* from the leader up to the one asked (TurnOk), and that the server's two  *)
(* best cards are the best of those (BestOk).                               *)
(***************************************************************************)
EXTENDS Tricks, FiniteSetTheorems, WellFoundedInduction, TLAPS

\* A round in play has a trick left.
TrickLeft == pc # "scored" => tricks < HandSize
\* A card was led when players follow.
SuitLed == pc = "follow" => leadSuit \in Suits
TypeInv == TypeOK /\ TrickLeft /\ SuitLed /\ TricksAddUp

\* What a card is, and that no card is one.
LEMMA CardFacts ==
  /\ \A c \in Cards : c.value \in Nat /\ c.value > 0 /\ c.suit \in Suits
  /\ \A c, d \in Cards : c.value = d.value /\ c.suit = d.suit => c = d
  /\ NoCard \notin Cards /\ NoCard.value = 0
<1>1. \A c \in Cards : c.value \in Values /\ c.suit \in Suits
  BY DEF Cards
<1>2. \A c \in Cards : c = [value |-> c.value, suit |-> c.suit]
  BY DEF Cards
<1>3. \A c, d \in Cards : c.value = d.value /\ c.suit = d.suit => c = d
  BY <1>2
<1>4. NoCard.value = 0
  BY DEF NoCard
<1>5. \A c \in Cards : c.value \in Nat /\ c.value > 0
  <2>1. \A v \in Values : v \in Nat /\ v > 0
    BY CardsAssumption
  <2> QED BY <1>1, <2>1
<1>6. NoCard \notin Cards
  BY <1>4, <1>5
<1> QED BY <1>1, <1>3, <1>4, <1>5, <1>6

\* A dealt hand consists of cards, and the counts are counts of suits.
LEMMA DealtType ==
  ASSUME NEW deck \in Decks
  PROVE  Dealt(deck) \in [Players -> SUBSET Cards]
<1>1. ASSUME NEW p \in Players, NEW k \in 0..(HandSize - 1)
      PROVE  4 * k + p \in 1..(4 * HandSize)
  BY <1>1, DecksAssumption DEF Players
<1> QED BY <1>1, DecksAssumption DEF Dealt

\* The counts of any set of cards are integers: dealt hands are finite.
LEMMA DealtFinite ==
  ASSUME NEW deck \in Decks, NEW p \in Players
  PROVE  /\ IsFiniteSet(Dealt(deck)[p])
         /\ Cardinality(Dealt(deck)[p]) = HandSize
<1> DEFINE K == 0..(HandSize - 1)
           H == {deck[4 * k + p] : k \in K}
           f == [k \in K |-> deck[4 * k + p]]
<1>1. IsFiniteSet(K) /\ Cardinality(K) = HandSize
  BY FS_Interval, DecksAssumption, SMTT(30)
<1>2. \A k \in K : 4 * k + p \in 1..(4 * HandSize)
  BY DecksAssumption DEF Players
<1>3. ASSUME NEW j \in K, NEW k \in K, f[j] = f[k]
      PROVE  j = k
  <2>1. deck[4 * j + p] = deck[4 * k + p]
    BY <1>3
  <2>2. DOMAIN deck = 1..(4 * HandSize)
    BY DecksAssumption
  <2>3. 4 * j + p = 4 * k + p
    BY <2>1, <2>2, <1>2, DecksAssumption
  <2> QED BY <2>3, DecksAssumption DEF Players
<1>4. f \in Bijection(K, H)
  BY <1>3 DEF Bijection, Injection, Surjection, IsInjective
<1>5. IsFiniteSet(H) /\ Cardinality(H) = Cardinality(K)
  <2>1. ExistsBijection(K, H)
    BY <1>4 DEF ExistsBijection
  <2> HIDE DEF K, H, f
  <2> QED BY <2>1, <1>1, FS_Bijection
<1> QED BY <1>1, <1>5 DEF Dealt

\* The count of a suit of a finite hand is a natural number.
LEMMA CountType ==
  ASSUME NEW cards, IsFiniteSet(cards)
  PROVE  CardsNo(cards) \in [Suits -> Nat]
<1>1. \A s \in Suits : Cardinality(OfSuit(cards, s)) \in Nat
  <2> TAKE s \in Suits
  <2>1. OfSuit(cards, s) \in SUBSET cards
    BY DEF OfSuit
  <2> QED BY <2>1, FS_Subset, FS_CardinalityType
<1> QED BY <1>1 DEF CardsNo

\* The deal of a round has the types of the hands and of the counts.
LEMMA DealTypes ==
  ASSUME NEW deck \in Decks
  PROVE  /\ Dealt(deck) \in [Players -> SUBSET Cards]
         /\ [q \in Players |-> CardsNo(Dealt(deck)[q])] \in [Players -> [Suits -> Int]]
<1>1. \A q \in Players : CardsNo(Dealt(deck)[q]) \in [Suits -> Int]
  <2> TAKE q \in Players
  <2>1. CardsNo(Dealt(deck)[q]) \in [Suits -> Nat]
    BY DealtFinite, CountType
  <2> QED BY <2>1
<1> QED BY <1>1, DealtType

\* A trick starts with variables of their types.
LEMMA StartTypes ==
  ASSUME NEW lead \in Players, TrickStart(lead)
  PROVE  /\ {currentLead', turn', newLead'} \subseteq Players
         /\ leadSuit' = "none" /\ trumpLead' = -1 /\ pc' = "lead"
         /\ leadCard' = NoCard /\ trumpLeadCard' = NoCard
         /\ table' \in [Players -> Cards \cup {NoCard}]
BY DEF TrickStart

\* A card played keeps the types of the hands.
LEMMA PlayTypes ==
  ASSUME TypeOK, NEW p \in Players, NEW c \in Cards, Play(p, c)
  PROVE  /\ hand' \in [Players -> SUBSET Cards]
         /\ cardsNo' \in [Players -> [Suits -> Int]]
         /\ left' \in [Players -> SUBSET Cards] /\ strayed' \subseteq Players
<1>1. Removed(p, c) \subseteq Cards
  BY DEF Removed, TypeOK
<1>2. c.suit \in Suits
  BY CardFacts
<1>3. cardsNo[p] \in [Suits -> Int]
  BY DEF TypeOK
<1>4. [cardsNo[p] EXCEPT ![c.suit] = @ - 1] \in [Suits -> Int]
  BY <1>2, <1>3
<1>5. hand' \in [Players -> SUBSET Cards] /\ cardsNo' \in [Players -> [Suits -> Int]]
  BY <1>1, <1>4 DEF Play, Remove, TypeOK
<1>6. left' \in [Players -> SUBSET Cards] /\ strayed' \subseteq Players
  BY DEF Play, TypeOK
<1> QED BY <1>5, <1>6

\* The turn passes to a player.
LEMMA PassTypes ==
  ASSUME turn \in Players, PassTurn
  PROVE  turn' \in Players /\ pc' \in {"follow", "end"}
BY DEF PassTurn, NextPlayer, Players

\* The winner of a trick is a player.
LEMMA WinnerType ==
  ASSUME TypeOK
  PROVE  Winner \in Players
BY DEF Winner, TypeOK

\* Steps keep the types and the sum of the tricks.
LEMMA TypeStep ==
  ASSUME TypeInv, [Next]_vars
  PROVE  TypeInv'
<1> USE DEF TypeInv
<1>1. CASE Lead
  <2>1. PICK c \in Leads(turn) : /\ leadCard' = c /\ leadSuit' = c.suit
                                 /\ table' = [table EXCEPT ![turn] = c]
                                 /\ Play(turn, c)
    BY <1>1 DEF Lead
  <2>2. c \in Cards /\ c.suit \in Suits /\ turn \in Players
    BY CardFacts DEF Leads, TypeOK
  <2>3. /\ hand' \in [Players -> SUBSET Cards] /\ cardsNo' \in [Players -> [Suits -> Int]]
        /\ left' \in [Players -> SUBSET Cards] /\ strayed' \subseteq Players
    BY <2>1, <2>2, PlayTypes
  <2>4. turn' \in Players /\ pc' \in {"follow", "end"}
    BY <1>1, <2>2, PassTypes DEF Lead
  <2> QED BY <1>1, <2>1, <2>2, <2>3, <2>4
          DEF Lead, TypeOK, TrickLeft, SuitLed, TricksAddUp, roundvars
<1>2. CASE Follow
  <2>1. PICK c \in Follows(turn, leadSuit) :
                 /\ Compare(c)
                 /\ table' = [table EXCEPT ![turn] = c]
                 /\ shown' = [shown EXCEPT ![turn] =
                      IF c.suit = leadSuit THEN @ ELSE @ \cup {leadSuit}]
                 /\ Play(turn, c)
    BY <1>2 DEF Follow
  <2>2. c \in Cards /\ turn \in Players
    BY DEF Follows, TypeOK
  <2>3. /\ hand' \in [Players -> SUBSET Cards] /\ cardsNo' \in [Players -> [Suits -> Int]]
        /\ left' \in [Players -> SUBSET Cards] /\ strayed' \subseteq Players
    BY <2>1, <2>2, PlayTypes
  <2>4. turn' \in Players /\ pc' \in {"follow", "end"}
    BY <1>2, <2>2, PassTypes DEF Follow
  <2>5. /\ newLead' \in Players /\ trumpLead' \in Players \cup {-1}
        /\ {leadCard', trumpLeadCard'} \subseteq Cards \cup {NoCard}
    BY <2>1, <2>2 DEF Compare, TypeOK
  <2> QED BY <1>2, <2>1, <2>2, <2>3, <2>4, <2>5, ZenonT(60)
          DEF Follow, TypeOK, TrickLeft, SuitLed, TricksAddUp, roundvars
<1>3. CASE TrickEnd
  <2>1. Winner \in Players
    BY WinnerType
  <2>2. tricks' = tricks + 1 /\ tricks' \in 0..HandSize /\ TricksAddUp'
    <3>1. tricks' = tricks + 1 /\ tricks' \in 0..HandSize
      BY <1>3, DecksAssumption DEF TrickEnd, TypeOK, TrickLeft
    <3>2. tricksAchieved' = [tricksAchieved EXCEPT ![Winner] = @ + 1]
      BY <1>3 DEF TrickEnd
    <3>3. /\ Winner \in {1, 2, 3, 4} /\ tricks \in Int
          /\ tricksAchieved \in [{1, 2, 3, 4} -> Nat]
      BY <2>1 DEF TypeOK, Players
    <3>4. TricksAddUp'
      BY <3>1, <3>2, <3>3 DEF TricksAddUp
    <3> QED BY <3>1, <3>4
  <2>3. tricksAchieved' \in [Players -> Nat]
    BY <1>3, <2>1 DEF TrickEnd, TypeOK
  <2>4. CASE tricks' < HandSize
    <3>1. TrickStart(Winner)
      BY <1>3, <2>4 DEF TrickEnd
    <3> QED BY <1>3, <2>1, <2>2, <2>3, <2>4, <3>1, StartTypes
            DEF TrickEnd, TypeOK, TrickLeft, SuitLed, handvars
  <2>5. CASE ~(tricks' < HandSize)
    BY <1>3, <2>1, <2>2, <2>3, <2>5 DEF TrickEnd, TypeOK, TrickLeft, SuitLed, handvars, trickvars
  <2> QED BY <2>4, <2>5
<1>4. CASE NextRound
  <2>1. PICK deck \in Decks, s \in Suits, p \in Players :
                 /\ hand' = Dealt(deck)
                 /\ cardsNo' = [q \in Players |-> CardsNo(Dealt(deck)[q])]
                 /\ trump' = s /\ leadPlayer' = p /\ TrickStart(p)
    BY <1>4 DEF NextRound
  <2>2. /\ tricks' = 0 /\ tricksAchieved' = [q \in Players |-> 0]
        /\ shown' = [q \in Players |-> {}] /\ left' = hand' /\ strayed' = {}
    BY <1>4 DEF NextRound, ClearTricks
  <2>3. TricksAddUp'
    BY <2>2 DEF TricksAddUp, Players
  <2>4. tricks' \in 0..HandSize /\ tricks' < HandSize
    BY <2>2, DecksAssumption
  <2>5. /\ hand' \in [Players -> SUBSET Cards]
        /\ cardsNo' \in [Players -> [Suits -> Int]]
    BY <2>1, DealTypes
  <2>6. TypeOK'
    BY <2>1, <2>2, <2>4, <2>5, StartTypes DEF TypeOK
  <2> QED BY <2>1, <2>3, <2>4, <2>6, StartTypes DEF TrickLeft, SuitLed
<1>5. CASE UNCHANGED vars
  BY <1>5 DEF vars, handvars, trickvars, roundvars, TypeOK, TrickLeft, SuitLed, TricksAddUp
<1> QED BY <1>1, <1>2, <1>3, <1>4, <1>5 DEF Next

\* A round starts typed, with no trick taken.
LEMMA TypeInit == Init => TypeInv
PROOF
<1> SUFFICES ASSUME Init PROVE TypeInv
  OBVIOUS
<1>1. PICK deck \in Decks, s \in Suits, p \in Players :
        /\ hand = Dealt(deck)
        /\ cardsNo = [q \in Players |-> CardsNo(Dealt(deck)[q])]
        /\ trump = s /\ leadPlayer = p
        /\ currentLead = p /\ turn = p
        /\ leadCard = NoCard /\ leadSuit = "none" /\ newLead = p
        /\ trumpLeadCard = NoCard /\ trumpLead = -1
        /\ tricksAchieved = [q \in Players |-> 0]
        /\ tricks = 0
        /\ pc = "lead"
        /\ table = [q \in Players |-> NoCard]
        /\ shown = [q \in Players |-> {}]
        /\ left = hand /\ strayed = {}
  BY DEF Init
<1> QED BY <1>1, DealTypes, DecksAssumption
        DEF TypeInv, TypeOK, TrickLeft, SuitLed, TricksAddUp, Players

\* The variables of the server and of the clients keep their types, whatever
\* users type.
THEOREM TypeCorrect == Spec => []TypeOK
<1>1. Spec => []TypeInv
  BY TypeInit, TypeStep, PTL DEF Spec
<1>2. TypeInv => TypeOK
  BY DEF TypeInv
<1> QED BY <1>1, <1>2, PTL

\* The credits of the four players are the tricks of this round, whatever
\* users type: play_round credits each trick once and forgets the last round.
THEOREM CreditsCorrect == Spec => []TricksAddUp
<1>1. Spec => []TypeInv
  BY TypeInit, TypeStep, PTL DEF Spec
<1>2. TypeInv => TricksAddUp
  BY DEF TypeInv
<1> QED BY <1>1, <1>2, PTL
----------------------------------------------------------------------------
(* The clients, and the comparison of the cards.                           *)

\* What each client holds and counts.
CountsOk == \A p \in Players :
  /\ IsFiniteSet(hand[p])
  /\ \A s \in Suits : Cardinality(OfSuit(hand[p], s)) =
                        IF cardsNo[p][s] < 0 THEN 0 ELSE cardsNo[p][s]
  /\ pc # "scored" => Cardinality(hand[p]) >=
       HandSize - tricks - (IF table[p] # NoCard THEN 1 ELSE 0)
  /\ p \notin strayed =>
       /\ hand[p] = left[p]
       /\ cardsNo[p] = CardsNo(hand[p])
       /\ pc # "scored" => Cardinality(hand[p]) =
            HandSize - tricks - (IF table[p] # NoCard THEN 1 ELSE 0)

\* How many players are asked between the leader and p.
Distance(p) == IF p >= currentLead THEN p - currentLead ELSE p + 4 - currentLead

\* Those asked so far have a card on the table.
TurnOk ==
  /\ pc = "lead" => turn = currentLead /\ \A p \in Players : table[p] = NoCard
  /\ pc = "follow" => /\ turn # currentLead
                      /\ \A p \in Players :
                           table[p] # NoCard <=> Distance(p) < Distance(turn)
  /\ pc = "end" => \A p \in Players : table[p] # NoCard

\* A player who did not follow a suit has none of it.
ShownOk == \A p \in Players : \A s \in shown[p] : OfSuit(hand[p], s) = {}

\* q has the best card of suit s on the table, and it is c.
IsBest(q, c, s) ==
  /\ q \in Players /\ table[q] = c /\ c \in Cards /\ c.suit = s
  /\ \A p \in Players :
       table[p] # NoCard /\ table[p].suit = s => table[p].value <= c.value

\* The server knows the best card of the suit led and, unless that is trumps,
\* the best trump, if there is one; who beat it with a trump played one.
BestOk ==
  /\ pc = "lead" => newLead = turn /\ trumpLead = -1 /\ trumpLeadCard = NoCard
  /\ pc \in {"follow", "end"} =>
       /\ leadSuit \in Suits
       /\ IsBest(newLead, leadCard, leadSuit)
       /\ leadSuit # trump =>
            \/ /\ trumpLead = -1 /\ trumpLeadCard = NoCard
               /\ \A p \in Players : table[p] # NoCard => table[p].suit # trump
            \/ trumpLead # -1 /\ IsBest(trumpLead, trumpLeadCard, trump)
       /\ trumpLead # -1 => /\ table[trumpLead] \in Cards
                            /\ table[trumpLead].suit = trump

PlayInv == TypeInv /\ CountsOk /\ TurnOk /\ ShownOk /\ BestOk

\* Cards have a lowest one.
LEMMA LowestExists ==
  ASSUME NEW S \in SUBSET Cards, S # {}
  PROVE  \E x \in S : \A y \in S : x.value <= y.value
<1> DEFINE V == {x.value : x \in S}
           R == OpToRel(<, Nat)
<1>1. V \subseteq Nat /\ V # {}
  BY CardFacts
<1>2. \E m \in V : \A n \in V : ~(<<n, m>> \in R)
  <2>1. IsWellFoundedOn(R, Nat)
    BY NatLessThanWellFounded
  <2> HIDE DEF V, R
  <2> QED BY <1>1, <2>1, WFMin
<1>3. PICK m \in V : \A n \in V : ~(<<n, m>> \in R)
  BY <1>2
<1>4. ASSUME NEW n \in V PROVE m <= n
  <2>1. n \in Nat /\ m \in Nat /\ ~(<<n, m>> \in R)
    <3> HIDE DEF V, R
    <3> QED BY <1>1, <1>3
  <2> HIDE DEF V
  <2>2. ~(n < m)
    BY <2>1 DEF OpToRel
  <2> HIDE DEF R
  <2> QED BY <2>1, <2>2
<1> QED BY <1>3, <1>4

\* What remove_play_card takes out: the card, nothing when the suit is empty,
\* another card of the suit otherwise.
LEMMA RemovedFacts ==
  ASSUME TypeInv, NEW p \in Players, NEW c \in Cards
  PROVE  /\ c \in hand[p] => Removed(p, c) = hand[p] \ {c}
         /\ c \notin hand[p] /\ OfSuit(hand[p], c.suit) = {} => Removed(p, c) = hand[p]
         /\ c \notin hand[p] /\ OfSuit(hand[p], c.suit) # {} =>
              \E x \in OfSuit(hand[p], c.suit) : Removed(p, c) = hand[p] \ {x}
<1> DEFINE held == OfSuit(hand[p], c.suit)
<1>1. held \subseteq hand[p] /\ hand[p] \subseteq Cards /\ (c \in held <=> c \in hand[p])
  BY DEF OfSuit, TypeInv, TypeOK
<1>2. ASSUME c \notin hand[p], held # {}
      PROVE  \E x \in held : Removed(p, c) = hand[p] \ {x}
  <2>1. \E x \in held : \A y \in held : x.value <= y.value
    <3> HIDE DEF held
    <3> QED BY <1>1, <1>2, LowestExists
  <2>2. (CHOOSE x \in held : \A y \in held : x.value <= y.value) \in held
    <3> HIDE DEF held
    <3> QED BY <2>1
  <2> QED BY <1>1, <1>2, <2>2 DEF Removed
<1>3. c \in hand[p] => Removed(p, c) = hand[p] \ {c}
  BY <1>1 DEF Removed
<1>4. c \notin hand[p] /\ held = {} => Removed(p, c) = hand[p]
  BY DEF Removed
<1> QED BY <1>2, <1>3, <1>4

\* Counting the suits of a hand without one of its cards.
LEMMA CountRemoved ==
  ASSUME NEW cards \in SUBSET Cards, IsFiniteSet(cards), NEW c \in cards
  PROVE  /\ IsFiniteSet(cards \ {c}) /\ Cardinality(cards \ {c}) = Cardinality(cards) - 1
         /\ CardsNo(cards \ {c}) = [CardsNo(cards) EXCEPT ![c.suit] = @ - 1]
<1>1. ASSUME NEW s \in Suits
      PROVE  Cardinality(OfSuit(cards \ {c}, s)) =
               IF s = c.suit THEN Cardinality(OfSuit(cards, s)) - 1
                             ELSE Cardinality(OfSuit(cards, s))
  <2>1. IsFiniteSet(OfSuit(cards, s))
    <3>1. OfSuit(cards, s) \in SUBSET cards
      BY DEF OfSuit
    <3> QED BY <3>1, FS_Subset
  <2>2. CASE s = c.suit
    <3>1. OfSuit(cards \ {c}, s) = OfSuit(cards, s) \ {c} /\ c \in OfSuit(cards, s)
      BY <2>2 DEF OfSuit
    <3>2. Cardinality(OfSuit(cards, s) \ {c}) = Cardinality(OfSuit(cards, s)) - 1
      BY <2>1, <3>1, FS_RemoveElement
    <3> QED BY <2>2, <3>1, <3>2
  <2>3. CASE s # c.suit
    <3>1. OfSuit(cards \ {c}, s) = OfSuit(cards, s)
      BY <2>3 DEF OfSuit
    <3> QED BY <2>3, <3>1
  <2> QED BY <2>2, <2>3
<1>2. IsFiniteSet(cards \ {c}) /\ Cardinality(cards \ {c}) = Cardinality(cards) - 1
  BY FS_RemoveElement
<1> QED BY <1>1, <1>2 DEF CardsNo

\* What a card played does to the hand of who played it: the counts of an array
\* that has run out go below zero, and at most one card is taken.
LEMMA PlayCounts ==
  ASSUME TypeInv, CountsOk, NEW p \in Players, NEW c \in Cards, Play(p, c)
  PROVE  /\ hand'[p] \subseteq hand[p] /\ IsFiniteSet(hand'[p])
         /\ \A s \in Suits : Cardinality(OfSuit(hand'[p], s)) =
                               IF cardsNo'[p][s] < 0 THEN 0 ELSE cardsNo'[p][s]
         /\ Cardinality(hand[p]) \in Nat
         /\ Cardinality(hand'[p]) >= Cardinality(hand[p]) - 1
         /\ p \notin strayed' =>
              /\ hand'[p] = left'[p] /\ cardsNo'[p] = CardsNo(hand'[p])
              /\ Cardinality(hand'[p]) = Cardinality(hand[p]) - 1
<1>1. /\ hand \in [Players -> SUBSET Cards] /\ cardsNo \in [Players -> [Suits -> Int]]
      /\ left \in [Players -> SUBSET Cards] /\ c.suit \in Suits
  BY CardFacts DEF TypeInv, TypeOK
<1>2. /\ hand'[p] = Removed(p, c) /\ left'[p] = left[p] \ {c}
      /\ cardsNo'[p] = [cardsNo[p] EXCEPT ![c.suit] = @ - 1]
  BY <1>1 DEF Play, Remove
<1>3. /\ IsFiniteSet(hand[p]) /\ Cardinality(hand[p]) \in Nat
      /\ \A s \in Suits : Cardinality(OfSuit(hand[p], s)) =
                            IF cardsNo[p][s] < 0 THEN 0 ELSE cardsNo[p][s]
  BY FS_CardinalityType DEF CountsOk
<1>4. ASSUME NEW x \in hand[p], x.suit = c.suit, hand'[p] = hand[p] \ {x}
      PROVE  /\ hand'[p] \subseteq hand[p] /\ IsFiniteSet(hand'[p])
             /\ \A s \in Suits : Cardinality(OfSuit(hand'[p], s)) =
                                   IF cardsNo'[p][s] < 0 THEN 0 ELSE cardsNo'[p][s]
             /\ Cardinality(hand'[p]) = Cardinality(hand[p]) - 1
             /\ CardsNo(hand'[p]) = [CardsNo(hand[p]) EXCEPT ![c.suit] = @ - 1]
  <2>1. /\ IsFiniteSet(hand'[p]) /\ Cardinality(hand'[p]) = Cardinality(hand[p]) - 1
        /\ CardsNo(hand'[p]) = [CardsNo(hand[p]) EXCEPT ![c.suit] = @ - 1]
    <3>1. hand[p] \in SUBSET Cards
      BY <1>1
    <3>2. /\ IsFiniteSet(hand[p] \ {x})
          /\ Cardinality(hand[p] \ {x}) = Cardinality(hand[p]) - 1
          /\ CardsNo(hand[p] \ {x}) = [CardsNo(hand[p]) EXCEPT ![x.suit] = @ - 1]
      BY <1>3, <3>1, CountRemoved
    <3> QED BY <1>4, <3>2
  <2>2. \A s \in Suits : Cardinality(OfSuit(hand'[p], s)) =
          IF s = c.suit THEN Cardinality(OfSuit(hand[p], s)) - 1
                        ELSE Cardinality(OfSuit(hand[p], s))
    BY <2>1 DEF CardsNo
  <2>3. Cardinality(OfSuit(hand[p], c.suit)) > 0
    <3>1. OfSuit(hand[p], c.suit) \in SUBSET hand[p] /\ x \in OfSuit(hand[p], c.suit)
      BY <1>4 DEF OfSuit
    <3>2. IsFiniteSet(OfSuit(hand[p], c.suit))
      BY <1>3, <3>1, FS_Subset
    <3>3. Cardinality(OfSuit(hand[p], c.suit)) # 0
      BY <3>1, <3>2, FS_EmptySet
    <3> QED BY <3>2, <3>3, FS_CardinalityType
  <2>4. \A s \in Suits : cardsNo[p][s] \in Int
    BY <1>1
  <2>5. cardsNo[p][c.suit] > 0
    BY <1>1, <1>3, <2>3, <2>4
  <2>6. \A s \in Suits : Cardinality(OfSuit(hand'[p], s)) =
                            IF cardsNo'[p][s] < 0 THEN 0 ELSE cardsNo'[p][s]
    BY <1>1, <1>2, <1>3, <2>2, <2>4, <2>5
  <2> QED BY <1>4, <2>1, <2>6
<1>5. CASE c \in hand[p]
  <2>1. hand'[p] = hand[p] \ {c}
    BY <1>2, <1>5, RemovedFacts
  <2>2. strayed' = strayed
    BY <1>5 DEF Play
  <2>3. p \notin strayed => hand[p] = left[p] /\ cardsNo[p] = CardsNo(hand[p])
    BY DEF CountsOk
  <2>4. /\ hand'[p] \subseteq hand[p] /\ IsFiniteSet(hand'[p])
        /\ \A s \in Suits : Cardinality(OfSuit(hand'[p], s)) =
                              IF cardsNo'[p][s] < 0 THEN 0 ELSE cardsNo'[p][s]
        /\ Cardinality(hand'[p]) = Cardinality(hand[p]) - 1
        /\ CardsNo(hand'[p]) = [CardsNo(hand[p]) EXCEPT ![c.suit] = @ - 1]
    BY <1>4, <1>5, <2>1
  <2>5. Cardinality(hand'[p]) >= Cardinality(hand[p]) - 1
    BY <1>3, <2>4
  <2>6. p \notin strayed' => hand'[p] = left'[p] /\ cardsNo'[p] = CardsNo(hand'[p])
    BY <1>2, <2>1, <2>2, <2>3, <2>4
  <2> QED BY <1>3, <2>4, <2>5, <2>6
<1>6. CASE c \notin hand[p]
  <2>1. p \in strayed'
    BY <1>6 DEF Play
  <2>2. CASE OfSuit(hand[p], c.suit) = {}
    <3>1. hand'[p] = hand[p]
      BY <1>2, <1>6, <2>2, RemovedFacts
    <3>2. Cardinality(OfSuit(hand[p], c.suit)) = 0
      BY <2>2, FS_EmptySet
    <3>3. \A s \in Suits : cardsNo[p][s] \in Int
      BY <1>1
    <3>4. cardsNo[p][c.suit] <= 0
      BY <1>1, <1>3, <3>2, <3>3
    <3>5. \A s \in Suits : Cardinality(OfSuit(hand'[p], s)) =
                              IF cardsNo'[p][s] < 0 THEN 0 ELSE cardsNo'[p][s]
      BY <1>1, <1>2, <1>3, <3>1, <3>2, <3>3, <3>4
    <3> QED BY <1>3, <2>1, <3>1, <3>5
  <2>3. CASE OfSuit(hand[p], c.suit) # {}
    <3>1. PICK x \in OfSuit(hand[p], c.suit) : hand'[p] = hand[p] \ {x}
      BY <1>2, <1>6, <2>3, RemovedFacts
    <3>2. x \in hand[p] /\ x.suit = c.suit
      BY <3>1 DEF OfSuit
    <3>3. /\ hand'[p] \subseteq hand[p] /\ IsFiniteSet(hand'[p])
          /\ \A s \in Suits : Cardinality(OfSuit(hand'[p], s)) =
                                IF cardsNo'[p][s] < 0 THEN 0 ELSE cardsNo'[p][s]
          /\ Cardinality(hand'[p]) = Cardinality(hand[p]) - 1
      BY <1>4, <3>1, <3>2
    <3>4. Cardinality(hand'[p]) >= Cardinality(hand[p]) - 1
      BY <1>3, <3>3
    <3> QED BY <1>3, <2>1, <3>3, <3>4
  <2> QED BY <2>2, <2>3
<1> QED BY <1>5, <1>6

\* A count of zero says that the hand has no card of the suit.
LEMMA SuitGone ==
  ASSUME CountsOk, NEW p \in Players, NEW s \in Suits, cardsNo[p][s] = 0
  PROVE  OfSuit(hand[p], s) = {}
<1>1. OfSuit(hand[p], s) \in SUBSET hand[p]
  BY DEF OfSuit
<1>2. IsFiniteSet(OfSuit(hand[p], s))
  BY <1>1, FS_Subset DEF CountsOk
<1>3. Cardinality(OfSuit(hand[p], s)) = 0
  BY DEF CountsOk
<1> QED BY <1>2, <1>3, FS_EmptySet

\* What a card played does to the hands, whoever plays it.
LEMMA PlayHands ==
  ASSUME TypeInv, CountsOk, ShownOk,
         pc \in {"lead", "follow"}, table[turn] = NoCard, NEW c \in Cards,
         table' = [table EXCEPT ![turn] = c], Play(turn, c),
         tricks' = tricks, pc' \in {"follow", "end"},
         \/ shown' = shown
         \/ /\ shown' = [shown EXCEPT ![turn] = @ \cup {leadSuit}]
            /\ OfSuit(hand[turn], leadSuit) = {}
  PROVE  CountsOk' /\ ShownOk'
<1>1. /\ turn \in Players /\ hand \in [Players -> SUBSET Cards]
      /\ cardsNo \in [Players -> [Suits -> Int]] /\ left \in [Players -> SUBSET Cards]
      /\ table \in [Players -> Cards \cup {NoCard}] /\ c # NoCard
      /\ tricks \in Nat /\ HandSize \in Nat
  <2>1. c # NoCard
    BY CardFacts
  <2>2. tricks \in Nat /\ HandSize \in Nat
    BY DecksAssumption DEF TypeInv, TypeOK
  <2> QED BY <2>1, <2>2 DEF TypeInv, TypeOK
<1>2. ASSUME NEW p \in Players, p # turn
      PROVE  /\ hand'[p] = hand[p] /\ cardsNo'[p] = cardsNo[p] /\ left'[p] = left[p]
             /\ table'[p] = table[p] /\ (p \in strayed' <=> p \in strayed)
  BY <1>1, <1>2 DEF Play, Remove
<1>3. CountsOk'
  <2> SUFFICES ASSUME NEW p \in Players
               PROVE  /\ IsFiniteSet(hand'[p])
                      /\ \A s \in Suits : Cardinality(OfSuit(hand'[p], s)) =
                                            IF cardsNo'[p][s] < 0 THEN 0 ELSE cardsNo'[p][s]
                      /\ Cardinality(hand'[p]) >=
                           HandSize - tricks - (IF table'[p] # NoCard THEN 1 ELSE 0)
                      /\ p \notin strayed' =>
                           /\ hand'[p] = left'[p]
                           /\ cardsNo'[p] = CardsNo(hand'[p])
                           /\ Cardinality(hand'[p]) =
                                HandSize - tricks - (IF table'[p] # NoCard THEN 1 ELSE 0)
    BY DEF CountsOk, OfSuit, CardsNo, NoCard
  <2>1. CASE p # turn
    BY <1>2, <2>1 DEF CountsOk
  <2>2. CASE p = turn
    <3>1. table'[p] = c
      BY <1>1, <2>2
    <3>2. /\ Cardinality(hand[p]) >= HandSize - tricks
          /\ p \notin strayed => Cardinality(hand[p]) = HandSize - tricks
      BY <1>1, <2>2 DEF CountsOk
    <3>3. p \notin strayed' => p \notin strayed
      BY DEF Play
    <3>4. /\ IsFiniteSet(hand'[p])
          /\ \A s \in Suits : Cardinality(OfSuit(hand'[p], s)) =
                                IF cardsNo'[p][s] < 0 THEN 0 ELSE cardsNo'[p][s]
          /\ Cardinality(hand[p]) \in Nat
          /\ Cardinality(hand'[p]) >= Cardinality(hand[p]) - 1
          /\ p \notin strayed' =>
               /\ hand'[p] = left'[p] /\ cardsNo'[p] = CardsNo(hand'[p])
               /\ Cardinality(hand'[p]) = Cardinality(hand[p]) - 1
      BY <2>2, PlayCounts
    <3>5. Cardinality(hand'[p]) \in Nat
      BY <3>4, FS_CardinalityType
    <3>6. Cardinality(hand'[p]) >= HandSize - tricks - 1
      BY <1>1, <3>2, <3>4, <3>5
    <3>7. p \notin strayed' => Cardinality(hand'[p]) = HandSize - tricks - 1
      BY <1>1, <3>2, <3>3, <3>4
    <3> QED BY <1>1, <3>1, <3>4, <3>6, <3>7
  <2> QED BY <2>1, <2>2
<1>4. ShownOk'
  <2>1. \A p \in Players : hand'[p] \subseteq hand[p]
    BY <1>2, PlayCounts, <1>1
  <2>2. \A p \in Players : \A s \in shown'[p] : OfSuit(hand[p], s) = {}
    BY <1>1 DEF ShownOk, TypeInv, TypeOK
  <2> QED BY <2>1, <2>2 DEF ShownOk, OfSuit
<1> QED BY <1>3, <1>4

\* The player asked has not played, and then is one of those who have.
LEMMA PlayTurn ==
  ASSUME TypeInv, TurnOk, pc \in {"lead", "follow"}, NEW c \in Cards,
         table' = [table EXCEPT ![turn] = c], currentLead' = currentLead, PassTurn
  PROVE  table[turn] = NoCard /\ TurnOk'
<1>1. /\ turn \in {1, 2, 3, 4} /\ currentLead \in {1, 2, 3, 4}
      /\ table \in [{1, 2, 3, 4} -> Cards \cup {NoCard}] /\ c # NoCard
  BY CardFacts DEF TypeInv, TypeOK, Players
<1>2. \A p \in {1, 2, 3, 4} :
        /\ pc = "lead" => turn = currentLead /\ table[p] = NoCard
        /\ pc = "follow" => turn # currentLead
        /\ pc = "follow" => (table[p] # NoCard <=> Distance(p) < Distance(turn))
  BY DEF TurnOk, Players
<1>3. table[turn] = NoCard
  BY <1>1, <1>2 DEF Distance
<1>4. turn' = NextPlayer(turn) /\ pc' = IF turn' = currentLead THEN "end" ELSE "follow"
  BY <1>1 DEF PassTurn
<1>5. \A p \in {1, 2, 3, 4} : table'[p] # NoCard <=> p = turn \/ table[p] # NoCard
  BY <1>1
<1>6. \A p \in {1, 2, 3, 4} : table'[p] # NoCard <=> Distance(p) <= Distance(turn)
  BY <1>1, <1>2, <1>5 DEF Distance
<1>10. Players = {1, 2, 3, 4}
  BY DEF Players
<1>7. CASE turn' = currentLead
  <2>1. \A p \in {1, 2, 3, 4} : Distance(p) <= Distance(turn)
    BY <1>1, <1>4, <1>7 DEF Distance, NextPlayer
  <2>2. pc' = "end" /\ \A p \in {1, 2, 3, 4} : table'[p] # NoCard
    BY <1>4, <1>6, <1>7, <2>1
  <2> QED BY <1>3, <1>10, <2>2 DEF TurnOk, NoCard, Players
<1>8. CASE turn' # currentLead
  <2>1. \A p \in {1, 2, 3, 4} :
          Distance(p) <= Distance(turn) <=> Distance(p) < Distance(turn')
    BY <1>1, <1>4, <1>8 DEF Distance, NextPlayer
  <2>2. \A p \in Players : Distance(p)' = Distance(p) /\ Distance(turn)' = Distance(turn')
    BY DEF Distance
  <2>3. pc' = "follow" /\ turn' # currentLead'
    BY <1>4, <1>8
  <2>4. \A p \in Players : table'[p] # NoCard <=> Distance(p)' < Distance(turn)'
    BY <1>6, <1>10, <2>1, <2>2
  <2> QED BY <1>3, <2>3, <2>4 DEF TurnOk, NoCard, Players
<1> QED BY <1>3, <1>7, <1>8

\* A new card keeps the best of a suit the best if it is not higher, is the
\* best if it is, and changes nothing for another suit.
LEMMA BestPlayed ==
  ASSUME TypeInv, NEW c \in Cards, NEW s, NEW q, NEW d, NEW t,
         t = turn, table[turn] = NoCard, table' = [table EXCEPT ![turn] = c]
  PROVE  /\ IsBest(q, d, s) /\ ~(c.suit = s /\ c.value > d.value) => IsBest(q, d, s)'
         /\ IsBest(q, d, s) /\ c.suit = s /\ c.value > d.value => IsBest(t, c, s)'
         /\ (\A p \in Players : table[p] # NoCard => table[p].suit # s) /\ c.suit = s
              => IsBest(t, c, s)'
<1>1. turn \in Players /\ table \in [Players -> Cards \cup {NoCard}]
  BY DEF TypeInv, TypeOK
<1>2. \A p \in Players : table'[p] = IF p = turn THEN c ELSE table[p]
  BY <1>1
<1>3. \A x \in Cards : x.value \in Nat /\ x # NoCard
  BY CardFacts
<1>4. \A p \in Players : table[p] # NoCard => table[p] \in Cards /\ table[p].value \in Nat
  BY <1>1, <1>3
<1>5. ASSUME IsBest(q, d, s)
      PROVE  /\ q \in Players /\ q # turn /\ d \in Cards /\ d.value \in Nat /\ d.suit = s
             /\ table[q] = d
             /\ \A p \in Players : table[p] # NoCard /\ table[p].suit = s
                                      => table[p].value <= d.value
  BY <1>3, <1>5 DEF IsBest
<1>6. ASSUME IsBest(q, d, s), ~(c.suit = s /\ c.value > d.value)
      PROVE  IsBest(q, d, s)'
  <2>1. c.suit = s => c.value <= d.value
    BY <1>3, <1>5, <1>6
  <2>2. \A p \in Players : table'[p] # NoCard /\ table'[p].suit = s
                              => table'[p].value <= d.value
    BY <1>2, <1>5, <1>6, <2>1
  <2>3. table'[q] = d
    BY <1>2, <1>5, <1>6
  <2> QED BY <1>5, <1>6, <2>2, <2>3 DEF IsBest
<1>7. ASSUME c.suit = s,
             \A p \in Players : table[p] # NoCard /\ table[p].suit = s
                                    => table[p].value <= c.value
      PROVE  IsBest(t, c, s)'
  <2>1. \A p \in Players : table'[p] # NoCard /\ table'[p].suit = s
                              => table'[p].value <= c.value
    BY <1>2, <1>3, <1>7
  <2>2. table'[turn] = c
    BY <1>1, <1>2
  <2> QED BY <1>1, <1>7, <2>1, <2>2 DEF IsBest, Cards, NoCard, Players
<1>8. ASSUME IsBest(q, d, s), c.suit = s, c.value > d.value
      PROVE  IsBest(t, c, s)'
  <2>1. \A p \in Players : table[p] # NoCard /\ table[p].suit = s
                              => table[p].value <= c.value
    BY <1>3, <1>4, <1>5, <1>8
  <2> QED BY <1>7, <1>8, <2>1
<1> QED BY <1>6, <1>7, <1>8

\* A card that follows leaves the server with the best cards.
LEMMA FollowBest ==
  ASSUME TypeInv, BestOk, pc = "follow", NEW c \in Cards, Compare(c),
         table[turn] = NoCard, table' = [table EXCEPT ![turn] = c],
         leadSuit' = leadSuit, trump' = trump, pc' \in {"follow", "end"}
  PROVE  BestOk'
<1> DEFINE t == turn
<1>1. /\ turn \in Players /\ table \in [Players -> Cards \cup {NoCard}]
      /\ -1 \notin Players
  BY DEF TypeInv, TypeOK, Players
<1>2. leadSuit \in Suits /\ IsBest(newLead, leadCard, leadSuit)
  BY DEF BestOk
<1>3. \A p \in Players : table'[p] = IF p = turn THEN c ELSE table[p]
  BY <1>1
<1>4. c # NoCard /\ c.value \in Nat /\ c.value > NoCard.value
  BY CardFacts
<1>5. ASSUME NEW s, NEW q, NEW d, NEW u, u = turn
      PROVE  /\ IsBest(q, d, s) /\ ~(c.suit = s /\ c.value > d.value) => IsBest(q, d, s)'
             /\ IsBest(q, d, s) /\ c.suit = s /\ c.value > d.value => IsBest(u, c, s)'
             /\ (\A p \in Players : table[p] # NoCard => table[p].suit # s) /\ c.suit = s
                  => IsBest(u, c, s)'
  BY <1>5, BestPlayed
<1>6. IsBest(newLead, leadCard, leadSuit)'
  <2>1. CASE BeatsLead(c)
    <3>1. newLead' = turn /\ leadCard' = c
      BY <2>1 DEF Compare
    <3>2. PICK u : u = turn
      OBVIOUS
    <3>3. PICK q, d, s : q = newLead /\ d = leadCard /\ s = leadSuit
      OBVIOUS
    <3>4. IsBest(u, c, s)'
      BY <1>2, <1>5, <2>1, <3>2, <3>3 DEF BeatsLead
    <3> QED BY <3>1, <3>2, <3>3, <3>4 DEF IsBest
  <2>2. CASE ~BeatsLead(c)
    <3>1. newLead' = newLead /\ leadCard' = leadCard
      BY <2>2 DEF Compare
    <3>2. PICK q, d, s, u : q = newLead /\ d = leadCard /\ s = leadSuit /\ u = turn
      OBVIOUS
    <3>3. IsBest(q, d, s)'
      BY <1>2, <1>5, <2>2, <3>2 DEF BeatsLead
    <3> QED BY <3>1, <3>2, <3>3 DEF IsBest
  <2> QED BY <2>1, <2>2
<1>7. ASSUME leadSuit # trump
      PROVE  (\/ /\ trumpLead = -1 /\ trumpLeadCard = NoCard
                 /\ \A p \in Players : table[p] # NoCard => table[p].suit # trump
              \/ trumpLead # -1 /\ IsBest(trumpLead, trumpLeadCard, trump))'
  <2>1. \/ /\ trumpLead = -1 /\ trumpLeadCard = NoCard
           /\ \A p \in Players : table[p] # NoCard => table[p].suit # trump
        \/ trumpLead # -1 /\ IsBest(trumpLead, trumpLeadCard, trump)
    BY <1>7 DEF BestOk
  <2>2. PICK q, d, s, u : q = trumpLead /\ d = trumpLeadCard /\ s = trump /\ u = turn
    OBVIOUS
  <2>3. CASE BeatsTrump(c)
    <3>1. trumpLead' = turn /\ trumpLeadCard' = c
      BY <1>7, <2>3 DEF Compare, BeatsLead, BeatsTrump
    <3>2. IsBest(u, c, s)'
      BY <1>5, <2>1, <2>2, <2>3 DEF BeatsTrump
    <3>3. trumpLead' # -1
      BY <1>1, <3>1
    <3> QED BY <2>2, <3>1, <3>2, <3>3 DEF IsBest
  <2>4. CASE ~BeatsTrump(c)
    <3>1. trumpLead' = trumpLead /\ trumpLeadCard' = trumpLeadCard
      BY <2>4 DEF Compare
    <3>2. CASE trumpLead = -1
      <4>1. /\ trumpLeadCard = NoCard
            /\ \A p \in Players : table[p] # NoCard => table[p].suit # trump
        BY <2>1, <3>2
      <4>2. c.suit # trump
        BY <1>4, <2>4, <4>1 DEF BeatsTrump
      <4>3. \A p \in Players : table'[p] # NoCard => table'[p].suit # trump'
        BY <1>3, <4>1, <4>2
      <4> QED BY <3>1, <3>2, <4>1, <4>3 DEF NoCard
    <3>3. CASE trumpLead # -1
      <4>1. IsBest(q, d, s)'
        BY <1>5, <2>1, <2>2, <2>4, <3>3 DEF BeatsTrump
      <4> QED BY <2>2, <3>1, <3>3, <4>1 DEF IsBest
    <3> QED BY <3>2, <3>3
  <2> QED BY <2>3, <2>4
<1>8. (trumpLead # -1 => /\ table[trumpLead] \in Cards
                         /\ table[trumpLead].suit = trump)'
  <2>1. trumpLead # -1 => table[trumpLead] \in Cards /\ table[trumpLead].suit = trump
    BY DEF BestOk
  <2>2. trumpLead \in Players \cup {-1} /\ NoCard \notin Cards
    BY CardFacts DEF TypeInv, TypeOK
  <2>3. \/ trumpLead' = trumpLead
        \/ trumpLead' = turn /\ c.suit = trump
    BY DEF Compare, BeatsTrump
  <2> QED BY <1>1, <1>3, <2>1, <2>2, <2>3
<1> QED BY <1>2, <1>6, <1>7, <1>8 DEF BestOk

\* The card led is the best so far, and no trump of another suit is there.
LEMMA LeadBest ==
  ASSUME TypeInv, BestOk, TurnOk, pc = "lead", NEW c \in Cards,
         leadCard' = c, leadSuit' = c.suit, table' = [table EXCEPT ![turn] = c],
         newLead' = newLead, trumpLead' = trumpLead,
         trumpLeadCard' = trumpLeadCard, pc' \in {"follow", "end"}
  PROVE  BestOk'
<1>1. turn \in Players /\ table \in [Players -> Cards \cup {NoCard}]
  BY DEF TypeInv, TypeOK
<1>2. \A p \in Players : table'[p] = IF p = turn THEN c ELSE NoCard
  BY <1>1 DEF TurnOk
<1>3. c.suit \in Suits /\ c.value <= c.value
  BY CardFacts
<1>4. IsBest(newLead, leadCard, leadSuit)'
  <2>1. table'[newLead'] = leadCard' /\ newLead' \in Players
    BY <1>1, <1>2 DEF BestOk
  <2>2. \A p \in Players : table'[p] # NoCard /\ table'[p].suit = leadSuit'
                              => table'[p].value <= leadCard'.value
    BY <1>2, <1>3
  <2> QED BY <2>1, <2>2 DEF IsBest
<1>5. trumpLead' = -1 /\ trumpLeadCard' = NoCard
  BY DEF BestOk
<1>6. leadSuit' # trump' =>
        \A p \in Players : table'[p] # NoCard => table'[p].suit # trump'
  BY <1>2
<1> QED BY <1>3, <1>4, <1>5, <1>6 DEF BestOk, NoCard

\* What a deal gives the invariant.
LEMMA DealCounts ==
  ASSUME NEW deck \in Decks, NEW p \in Players
  PROVE  /\ IsFiniteSet(Dealt(deck)[p]) /\ Cardinality(Dealt(deck)[p]) = HandSize
         /\ \A s \in Suits : /\ CardsNo(Dealt(deck)[p])[s] \in Nat
                              /\ Cardinality(OfSuit(Dealt(deck)[p], s)) =
                                   CardsNo(Dealt(deck)[p])[s]
<1>1. CardsNo(Dealt(deck)[p]) \in [Suits -> Nat]
  BY DealtFinite, CountType
<1> QED BY <1>1, DealtFinite DEF CardsNo

\* A deal leaves every count right, and nobody has strayed.
LEMMA PlayInit == Init => PlayInv
<1> SUFFICES ASSUME Init PROVE PlayInv
  OBVIOUS
<1>1. PICK deck \in Decks :
        /\ hand = Dealt(deck)
        /\ cardsNo = [q \in Players |-> CardsNo(Dealt(deck)[q])]
        /\ turn = currentLead /\ newLead = turn
        /\ trumpLeadCard = NoCard /\ trumpLead = -1
        /\ tricks = 0
        /\ pc = "lead"
        /\ table = [q \in Players |-> NoCard]
        /\ shown = [q \in Players |-> {}]
        /\ left = hand /\ strayed = {}
  BY DEF Init
<1>2. TypeInv
  BY TypeInit
<1>3. CountsOk
  BY <1>1, DealCounts, DecksAssumption DEF CountsOk
<1>4. TurnOk /\ ShownOk /\ BestOk
  BY <1>1 DEF TurnOk, ShownOk, BestOk
<1> QED BY <1>2, <1>3, <1>4 DEF PlayInv

\* A card played, to lead or to follow.
LEMMA CardPlayed ==
  ASSUME PlayInv, Lead \/ Follow
  PROVE  PlayInv'
<1>1. TypeInv /\ CountsOk /\ TurnOk /\ ShownOk /\ BestOk
  BY DEF PlayInv
<1>2. TypeInv'
  BY <1>1, TypeStep DEF Next
<1>3. turn \in Players /\ currentLead' = currentLead /\ tricks' = tricks /\ trump' = trump
  BY <1>1 DEF Lead, Follow, roundvars, TypeInv, TypeOK
<1>4. PassTurn /\ pc \in {"lead", "follow"} /\ pc' \in {"follow", "end"}
  BY DEF Lead, Follow, PassTurn
<1>5. CASE Lead
  <2>1. PICK c \in Leads(turn) : /\ leadCard' = c /\ leadSuit' = c.suit
                                 /\ table' = [table EXCEPT ![turn] = c]
                                 /\ Play(turn, c)
    BY <1>5 DEF Lead
  <2>2. c \in Cards
    BY <1>1, <1>3 DEF Leads, TypeInv, TypeOK
  <2>3. table[turn] = NoCard /\ TurnOk'
    BY <1>1, <1>3, <1>4, <2>1, <2>2, PlayTurn
  <2>4. shown' = shown
    BY <1>5 DEF Lead
  <2>5. CountsOk' /\ ShownOk'
    BY <1>1, <1>3, <1>4, <2>1, <2>2, <2>3, <2>4, PlayHands
  <2>6. BestOk'
    BY <1>1, <1>4, <1>5, <2>1, <2>2, LeadBest DEF Lead
  <2> QED BY <1>2, <2>3, <2>5, <2>6 DEF PlayInv
<1>6. CASE Follow
  <2>1. PICK c \in Follows(turn, leadSuit) :
                 /\ Compare(c)
                 /\ table' = [table EXCEPT ![turn] = c]
                 /\ shown' = [shown EXCEPT ![turn] =
                      IF c.suit = leadSuit THEN @ ELSE @ \cup {leadSuit}]
                 /\ Play(turn, c)
    BY <1>6 DEF Follow
  <2>2. c \in Cards
    BY DEF Follows
  <2>3. table[turn] = NoCard /\ TurnOk'
    BY <1>1, <1>3, <1>4, <2>1, <2>2, PlayTurn
  <2>4. \/ shown' = shown
        \/ /\ shown' = [shown EXCEPT ![turn] = @ \cup {leadSuit}]
           /\ OfSuit(hand[turn], leadSuit) = {}
    <3>1. CASE c.suit = leadSuit
      BY <1>1, <1>3, <2>1, <3>1 DEF TypeInv, TypeOK
    <3>2. CASE c.suit # leadSuit
      <4>1. cardsNo[turn][leadSuit] = 0
        BY <2>1, <3>2 DEF Follows, OutOf
      <4>2. leadSuit \in Suits
        BY <1>1, <1>6 DEF Follow, TypeInv, SuitLed
      <4>3. OfSuit(hand[turn], leadSuit) = {}
        BY <1>1, <1>3, <4>1, <4>2, SuitGone
      <4> QED BY <2>1, <3>2, <4>3
    <3> QED BY <3>1, <3>2
  <2>5. CountsOk' /\ ShownOk'
    BY <1>1, <1>3, <1>4, <2>1, <2>2, <2>3, <2>4, PlayHands
  <2>6. BestOk'
    BY <1>1, <1>3, <1>4, <1>6, <2>1, <2>2, <2>3, FollowBest DEF Follow
  <2> QED BY <1>2, <2>3, <2>5, <2>6 DEF PlayInv
<1> QED BY <1>5, <1>6

\* Every step keeps the invariant.
LEMMA PlayStep ==
  ASSUME PlayInv, [Next]_vars
  PROVE  PlayInv'
<1>1. TypeInv /\ CountsOk /\ TurnOk /\ ShownOk /\ BestOk
  BY DEF PlayInv
<1>2. TypeInv'
  BY <1>1, TypeStep
<1>3. CASE Lead \/ Follow
  BY <1>3, CardPlayed
<1>4. CASE TrickEnd
  <2>1. /\ hand' = hand /\ cardsNo' = cardsNo /\ shown' = shown
        /\ left' = left /\ strayed' = strayed
        /\ pc = "end" /\ tricks' = tricks + 1
    BY <1>4 DEF TrickEnd, handvars
  <2>2. ShownOk'
    BY <1>1, <2>1 DEF ShownOk
  <2>3. CASE tricks' < HandSize
    <3>1. TrickStart(Winner)
      BY <1>4, <2>3 DEF TrickEnd
    <3>2. table' = [p \in Players |-> NoCard] /\ pc' = "lead"
      BY <3>1 DEF TrickStart
    <3>3. TurnOk' /\ BestOk'
      BY <3>1 DEF TrickStart, TurnOk, BestOk, NoCard, Players
    <3>4. tricks \in Nat /\ HandSize \in Nat
      BY <1>1, DecksAssumption DEF TypeInv, TypeOK
    <3>5. \A p \in Players :
            /\ Cardinality(hand[p]) >= HandSize - tricks - 1
            /\ p \notin strayed => Cardinality(hand[p]) = HandSize - tricks - 1
      BY <1>1, <2>1 DEF CountsOk, TurnOk
    <3>6. HandSize - tricks' - 0 = HandSize - tricks - 1
      BY <2>1, <3>4
    <3>7. CountsOk'
      BY <1>1, <2>1, <3>2, <3>5, <3>6 DEF CountsOk
    <3> QED BY <1>2, <2>2, <3>3, <3>7 DEF PlayInv
  <2>4. CASE ~(tricks' < HandSize)
    <3>1. pc' = "scored" /\ table' = table
      BY <1>4, <2>4 DEF TrickEnd, trickvars
    <3>2. TurnOk' /\ BestOk' /\ CountsOk'
      BY <1>1, <2>1, <3>1 DEF TurnOk, BestOk, CountsOk
    <3> QED BY <1>2, <2>2, <3>2 DEF PlayInv
  <2> QED BY <2>3, <2>4
<1>5. CASE NextRound
  <2>1. PICK deck \in Decks, p \in Players :
                 /\ hand' = Dealt(deck)
                 /\ cardsNo' = [q \in Players |-> CardsNo(Dealt(deck)[q])]
                 /\ TrickStart(p)
    BY <1>5 DEF NextRound
  <2>2. /\ tricks' = 0 /\ shown' = [q \in Players |-> {}]
        /\ table' = [q \in Players |-> NoCard]
        /\ left' = hand' /\ strayed' = {}
    BY <1>5, <2>1 DEF NextRound, TrickStart
  <2>3. CountsOk'
    BY <2>1, <2>2, DealCounts, DecksAssumption DEF CountsOk
  <2>4. TurnOk' /\ ShownOk' /\ BestOk'
    BY <2>1, <2>2 DEF TrickStart, TurnOk, ShownOk, BestOk, NoCard, Players
  <2> QED BY <1>2, <2>3, <2>4 DEF PlayInv
<1>6. CASE UNCHANGED vars
  <2>1. CountsOk' /\ ShownOk'
    BY <1>1, <1>6 DEF vars, handvars, trickvars, roundvars, CountsOk, ShownOk
  <2>2. TurnOk' /\ BestOk'
    BY <1>1, <1>6 DEF vars, trickvars, roundvars, TurnOk, BestOk, IsBest, Distance
  <2> QED BY <1>2, <2>1, <2>2 DEF PlayInv
<1> QED BY <1>3, <1>4, <1>5, <1>6 DEF Next

\* The invariant holds whatever users type.
THEOREM PlayInvariant == Spec => []PlayInv
BY PlayInit, PlayStep, PTL DEF Spec

\* Whatever users type, the counts of every client agree with its arrays until
\* they fall below zero, no hand is shorter than it should be, and the hand of
\* who played only own cards is what was dealt less what was played
\* (remove_play_card of client499.c, which counts a card it does not find).
THEOREM HandsCorrect == Spec => []HandsAgree
<1>1. PlayInv => HandsAgree
  BY DEF PlayInv, CountsOk, HandsAgree
<1> QED BY <1>1, PlayInvariant, PTL

\* Whatever the others type, who has played only own cards and did not follow a
\* suit holds no card of it later in the round: the test of send_play suffices.
THEOREM NobodyRevokes == Spec => []NoRevoke
<1>1. ASSUME PlayInv PROVE NoRevoke
  <2>1. \A p \in Players \ strayed : hand[p] = left[p]
    BY <1>1 DEF PlayInv, CountsOk
  <2> QED BY <1>1, <2>1 DEF PlayInv, ShownOk, NoRevoke
<1> QED BY <1>1, PlayInvariant, PTL

\* Whatever users type, the client of the leader has a card to accept, and that
\* of a follower refuses everything, and the game hangs, just when its count of
\* the suit led has fallen below zero; who has played only own cards is never
\* refused all of them.
THEOREM AnswerExists == Spec => []CanAnswer
<1>1. ASSUME PlayInv PROVE CanAnswer
  <2>1. /\ turn \in Players /\ hand \in [Players -> SUBSET Cards] /\ tricks \in Nat
        /\ cardsNo \in [Players -> [Suits -> Int]]
    BY <1>1 DEF PlayInv, TypeInv, TypeOK
  <2>2. ASSUME pc \in {"lead", "follow"} PROVE hand[turn] # {}
    <3>1. table[turn] = NoCard
      <4>1. turn \in Int /\ currentLead \in Int
        BY <1>1 DEF PlayInv, TypeInv, TypeOK, Players
      <4>2. ~(Distance(turn) < Distance(turn))
        BY <4>1 DEF Distance
      <4> QED BY <2>1, <2>2, <1>1, <4>2 DEF PlayInv, TurnOk
    <3>2. /\ Cardinality(hand[turn]) >= HandSize - tricks - 0 /\ tricks < HandSize
          /\ IsFiniteSet(hand[turn])
      BY <1>1, <2>1, <2>2, <3>1, DecksAssumption
      DEF PlayInv, CountsOk, TypeInv, TrickLeft
    <3>3. Cardinality(hand[turn]) # 0
      BY <2>1, <3>2, DecksAssumption
    <3> QED BY <3>2, <3>3, FS_EmptySet
  <2>3. pc = "lead" => Leads(turn) # {}
    BY <2>2 DEF Leads
  <2>4. ASSUME pc = "follow"
        PROVE  /\ turn \notin strayed => Follows(turn, leadSuit) \cap left[turn] # {}
               /\ Follows(turn, leadSuit) = {} <=> cardsNo[turn][leadSuit] < 0
    <3> DEFINE n == cardsNo[turn][leadSuit]
               own == OfSuit(hand[turn], leadSuit)
    <3>1. leadSuit \in Suits /\ n \in Int
      BY <1>1, <2>1, <2>4 DEF PlayInv, TypeInv, SuitLed
    <3>2. Cardinality(own) = (IF n < 0 THEN 0 ELSE n) /\ IsFiniteSet(own)
      <4>1. own \in SUBSET hand[turn]
        BY DEF OfSuit
      <4>2. IsFiniteSet(own)
        BY <1>1, <2>1, <4>1, FS_Subset DEF PlayInv, CountsOk
      <4> QED BY <1>1, <2>1, <3>1, <4>2 DEF PlayInv, CountsOk
    <3>3. own = {} <=> n <= 0
      BY <3>1, <3>2, FS_EmptySet
    <3>4. turn \notin strayed => n >= 0 /\ hand[turn] = left[turn]
      <4>1. turn \notin strayed => hand[turn] = left[turn] /\ cardsNo[turn] = CardsNo(hand[turn])
        BY <1>1, <2>1 DEF PlayInv, CountsOk
      <4>2. turn \notin strayed => n = Cardinality(own)
        BY <3>1, <4>1 DEF CardsNo
      <4> QED BY <3>2, <4>1, <4>2, FS_CardinalityType
    <3>5. CASE n < 0
      <4>1. own = {} /\ ~OutOf(turn, leadSuit)
        BY <3>1, <3>3, <3>5 DEF OutOf
      <4>2. Follows(turn, leadSuit) = {}
        BY <4>1 DEF Follows, OfSuit
      <4> QED BY <3>1, <3>4, <3>5, <4>2
    <3>6. CASE n = 0
      <4>1. PICK c \in hand[turn] : TRUE
        BY <2>2, <2>4
      <4>2. c.suit # leadSuit
        BY <3>3, <3>6, <4>1 DEF OfSuit
      <4>3. c \in Follows(turn, leadSuit)
        BY <2>1, <3>6, <4>1, <4>2 DEF Follows, OutOf
      <4> QED BY <3>4, <3>6, <4>1, <4>3
    <3>7. CASE n > 0
      <4>1. PICK c \in own : TRUE
        BY <3>1, <3>3, <3>7
      <4>2. c \in hand[turn] /\ c.suit = leadSuit /\ c \in Cards
        BY <2>1, <4>1 DEF OfSuit
      <4>3. c \in Follows(turn, leadSuit)
        BY <4>2 DEF Follows
      <4> QED BY <3>1, <3>4, <3>7, <4>2, <4>3
    <3> QED BY <3>1, <3>5, <3>6, <3>7
  <2> QED BY <2>3, <2>4 DEF CanAnswer
<1> QED BY <1>1, PlayInvariant, PTL

\* A running best card is among the best of the table.
LEMMA BestFound ==
  ASSUME TypeInv, NEW q, NEW c, NEW s, IsBest(q, c, s),
         \A p \in Players : table[p] # NoCard
  PROVE  q \in Best(s)
BY DEF IsBest, Best

\* Whatever users type, a trick in which trumps are not led goes to the highest
\* trump or, without one, to the highest card of the suit led: two running best
\* cards are enough.  One in which they are led goes to a trump, and to the
\* highest unless a lower one came after it (play_trick_round of serv499.c).
THEOREM TricksGoToBest == Spec => []TrickToBestCard
<1>1. ASSUME PlayInv PROVE TrickToBestCard
  <2> SUFFICES ASSUME pc = "end"
               PROVE  /\ newLead \in Best(leadSuit)
                      /\ leadSuit # trump =>
                           Winner \in Best(IF Trumped THEN trump ELSE leadSuit)
                      /\ leadSuit = trump =>
                           /\ table[Winner].suit = trump
                           /\ trumpLead = -1 => Winner \in Best(trump)
    BY DEF TrickToBestCard
  <2>1. TypeInv /\ \A p \in Players : table[p] # NoCard
    BY <1>1 DEF PlayInv, TurnOk
  <2>2. /\ IsBest(newLead, leadCard, leadSuit)
        /\ leadSuit # trump =>
             \/ /\ trumpLead = -1 /\ trumpLeadCard = NoCard
                /\ \A p \in Players : table[p] # NoCard => table[p].suit # trump
             \/ trumpLead # -1 /\ IsBest(trumpLead, trumpLeadCard, trump)
        /\ trumpLead # -1 => table[trumpLead].suit = trump
    BY <1>1 DEF PlayInv, BestOk
  <2>3. newLead \in Best(leadSuit) /\ table[newLead].suit = leadSuit
    BY <2>1, <2>2, BestFound DEF IsBest
  <2>4. CASE trumpLead = -1
    <3>1. Winner = newLead
      BY <2>4 DEF Winner
    <3>2. leadSuit # trump => ~Trumped
      BY <2>1, <2>2, <2>4 DEF Trumped
    <3> QED BY <2>3, <3>1, <3>2
  <2>5. CASE trumpLead # -1
    <3>1. Winner = trumpLead
      BY <2>5 DEF Winner
    <3>2. leadSuit # trump => IsBest(trumpLead, trumpLeadCard, trump)
      BY <2>2, <2>5
    <3>3. leadSuit # trump => Trumped
      BY <3>2 DEF IsBest, Trumped
    <3>4. leadSuit # trump => trumpLead \in Best(trump)
      BY <2>1, <3>2, BestFound
    <3> QED BY <2>2, <2>3, <2>5, <3>1, <3>3, <3>4
  <2> QED BY <2>4, <2>5
<1> QED BY <1>1, PlayInvariant, PTL
=============================================================================
