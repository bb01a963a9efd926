--------------------------- MODULE HandEvaluation ----------------------------
(***************************************************************************)
(* Dealing from a shuffled deck (poker-engine/src/deck.ts) and the best     *)
(* five of seven cards (evaluate.ts).  The shuffle leaves the deck in any   *)
(* order, so a deal takes any cards that are left.  A card is a record of   *)
(* a rank, 2 to 14, and a suit.                                             *)
(* An operator named for a mistake stands before the one it resembles;      *)
(* nothing uses it.                                                         *)
(***************************************************************************)
EXTENDS Integers, SequencesExt

CONSTANT Decks  \* the decks to deal from

ASSUME DeckAssumption == \A d \in Decks : d \subseteq [rank : 2..14, suit : 1..4]

VARIABLES
  deck,       \* the cards that are left
  holeCards,
  community

dealVars == <<deck, holeCards, community>>

DealInit == deck \in Decks /\ holeCards = {} /\ community = {}

DealHole ==
  /\ holeCards = {}
  /\ holeCards' \in kSubset(2, deck)
  /\ deck' = deck \ holeCards'
  /\ UNCHANGED community

DealCommunity ==
  /\ holeCards # {} /\ community = {}
  /\ community' \in kSubset(5, deck)
  /\ deck' = deck \ community'
  /\ UNCHANGED holeCards

DealNext == DealHole \/ DealCommunity

DealSpec == DealInit /\ [][DealNext]_dealVars

-----------------------------------------------------------------------------
Values(cards) == {c.rank : c \in cards}
Held(cards, v) == Cardinality({c \in cards : c.rank = v})
IsFlush(cards) == Cardinality({c.suit : c \in cards}) = 1

\* The arguments of key, those with the higher keys first; no two have the same.
Descending(key) ==
  [i \in 1..Cardinality(DOMAIN key) |->
    CHOOSE v \in DOMAIN key : Cardinality({w \in DOMAIN key : key[w] > key[v]}) = i - 1]

\* The ranks, the frequent ones first and of equally frequent ones the higher: no
\* rank is above 14, so the count decides before the rank does.
ByCount(cards) == Descending([v \in Values(cards) |-> 15 * Held(cards, v) + v])

NoWheel(values) ==
  IF Cardinality(values) = 5 /\ Max(values) - Min(values) = 4 THEN {Max(values)} ELSE {}

\* The high card of the straight that five ranks are, if they are one; 5 for the
\* straight that the ace begins.
StraightHigh(values) ==
  IF Cardinality(values) = 5 /\ Max(values) - Min(values) = 4 THEN {Max(values)}
  ELSE IF values = {14, 5, 4, 3, 2} THEN {5} ELSE {}

\* evaluate5: the HandRankType, then the values that break ties.
Evaluate5(cards) ==
  LET straight == StraightHigh(Values(cards))
      counts   == ByCount(cards)
      Times(i) == Held(cards, counts[i])
      rank ==
        IF straight # {} THEN IF IsFlush(cards) THEN 8 ELSE 4
        ELSE IF Times(1) = 4 THEN 7
        ELSE IF Times(1) = 3 THEN IF Times(2) = 2 THEN 6 ELSE 3
        ELSE IF IsFlush(cards) THEN 5
        ELSE IF Times(1) = 2 THEN IF Times(2) = 2 THEN 2 ELSE 1
        ELSE 0
  IN  <<rank>> \o IF straight # {} THEN SetToSeq(straight) ELSE counts

\* compareHands(a, b) > 0: the first place where they differ decides.
Beats(a, b) == \E i \in 1..Len(a) \cap 1..Len(b) :
  /\ a[i] > b[i]
  /\ \A j \in 1..(i - 1) : a[j] = b[j]

\* evaluateBestHand, with the cards in any order.
BestHand(cards) ==
  LET hands == {Evaluate5(five) : five \in kSubset(5, cards)}
  IN  CHOOSE h \in hands : \A g \in hands : ~Beats(g, h)

-----------------------------------------------------------------------------
(***************************************************************************)
(* The rules of poker, for seven cards as a whole.                          *)
(***************************************************************************)
HighestValue(ranks, n) == SubSeq(Descending([v \in ranks |-> v]), 1, n)

\* The ranks held at least n times.
AtLeast(cards, n) == {v \in Values(cards) : Held(cards, v) >= n}

\* The straights among ranks, by their high card; an ace is also a 1.
Straights(ranks) ==
  LET low == ranks \cup (IF 14 \in ranks THEN {1} ELSE {})
  IN  {high \in 5..14 : (high - 4)..high \subseteq low}

FlushSuits(cards) ==
  {s \in {c.suit : c \in cards} : Cardinality({c \in cards : c.suit = s}) >= 5}
InSuit(cards, s) == Values({c \in cards : c.suit = s})

ByTheRules(cards) ==
  LET all    == Values(cards)
      flush  == {InSuit(cards, s) : s \in FlushSuits(cards)}
      steel  == UNION {Straights(ranks) : ranks \in flush}
      quads  == AtLeast(cards, 4)
      trips  == AtLeast(cards, 3)
      pairs  == AtLeast(cards, 2)
  IN  IF steel # {} THEN <<8, Max(steel)>>
      ELSE IF quads # {} THEN <<7, Max(quads), Max(all \ {Max(quads)})>>
      ELSE IF trips # {} /\ pairs # {Max(trips)}
        THEN <<6, Max(trips), Max(pairs \ {Max(trips)})>>
      ELSE IF flush # {} THEN <<5>> \o HighestValue(UNION flush, 5)
      ELSE IF Straights(all) # {} THEN <<4, Max(Straights(all))>>
      ELSE IF trips # {} THEN <<3, Max(trips)>> \o HighestValue(all \ trips, 2)
      ELSE IF Cardinality(pairs) >= 2
        THEN LET two == HighestValue(pairs, 2)
             IN  <<2>> \o two \o HighestValue(all \ ToSet(two), 1)
      ELSE IF pairs # {} THEN <<1, Max(pairs)>> \o HighestValue(all \ pairs, 3)
      ELSE <<0>> \o HighestValue(all, 5)

\* The best of the 21 choices of five cards is what the rules make of all seven: the
\* higher of two trips, the best kicker beside three pairs, the steel wheel.
BestHandFollowsTheRules ==
  community # {} => BestHand(holeCards \cup community) = ByTheRules(holeCards \cup community)
=============================================================================
