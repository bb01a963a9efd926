--------------------------- MODULE PokerHandProofs ---------------------------
(***************************************************************************)
(* What every hand keeps to, for every game configuration, every stack and  *)
(* every sequence of moves (poker-engine/src/engine.ts).                    *)
(*                                                                         *)
(* HandInv is the inductive invariant of all hands, CapInv what it takes    *)
(* more for the cap of LIMIT poker, MoneyInv for the chips to add up after  *)
(* the showdown, and FairInv for who wins how much.                         *)
(***************************************************************************)
EXTENDS PokerHand, ShowdownProofs

\* The community cards a street begins with.
BoardFitsStreet ==
  ~complete => /\ street # "SHOWDOWN"
               /\ street = "FLOP" => board = 3
               /\ street = "TURN" => board = 4

\* While a hand is on, the pot is what was put in, and a seat's chips and what it
\* put in are what it brought.
PotIsPutIn ==
  ~complete => /\ pot = Total(totalBet)
               /\ \A s \in Seats : chips[s] + totalBet[s] = hand.stacks[s]
               /\ won = Nothing

\* A move is a fold, or a check or call, or a bet or raise, which puts in something.
IsAMove(paid, did) ==
  \/ folded' = folded \cup {active} /\ did = acted
  \/ folded' = folded /\ did = acted \cup {active}
  \/ folded' = folded /\ did = MustAnswer \cup {active} /\ paid > 0

\* A move as the rules of a betting round want it: it puts in no more than the seat
\* has, nothing when it folds; it marks no other seat than its own, and its own unless
\* the seat folds or is all-in; and who is marked, and can still act, has matched the
\* highest bet.
FairMove(paid, did, count, raise) ==
  LET bet == [currentBet EXCEPT ![active] = @ + paid] IN
  /\ paid <= chips[active]
  /\ folded' = folded \/ (paid = 0 /\ folded' = folded \cup {active})
  /\ did \subseteq acted \cup {active}
  /\ active \in CanAct' => active \in did
  /\ \A s \in CanAct' \cap did : bet[s] = Highest(bet)
  /\ IsAMove(paid, did)
  /\ Move(paid, did, count, raise)

\* The inductive invariant of a hand.
HandInv ==
  TypeOK /\ BoardFitsStreet /\ PotIsPutIn /\ ActedSeatsHaveMatched /\ TurnIsLive

-----------------------------------------------------------------------------
\* What SetupsAssumption says of one setup.
LEMMA SetupIs ==
  ASSUME NEW h \in Setups
  PROVE  /\ h.dealer \in Seats /\ h.dealer \in DealtIn(h) /\ DealtIn(h) # {h.dealer}
         /\ DealtIn(h) \in SUBSET Seats
         /\ h.stacks \in [Seats -> Nat]
         /\ \A s \in DealtIn(h) : h.stacks[s] > 0
         /\ \A s \in Seats : s \notin DealtIn(h) => h.stacks[s] = 0
         /\ h.smallBlind \in Nat /\ h.bigBlind \in Nat /\ h.ante \in Nat
         /\ h.smallBet \in Nat /\ h.bigBet \in Nat /\ h.cap \in Nat
         /\ h.smallBlind > 0 /\ h.bigBlind >= h.smallBlind
         /\ h.mode = "LIMIT" => h.smallBet > 0 /\ h.bigBet > 0
<1>1. /\ h \in Setup /\ h.dealer \in DealtIn(h) /\ DealtIn(h) # {h.dealer}
      /\ h.smallBlind > 0 /\ h.bigBlind >= h.smallBlind
      /\ h.mode = "LIMIT" => h.smallBet > 0 /\ h.bigBet > 0
  BY SetupsAssumption DEF SetupsAssumption
<1>2. h.stacks \in [Seats -> Nat]  BY <1>1 DEF Setup
<1>3. \A s \in Seats : h.stacks[s] \in Nat  BY <1>2
<1> QED  BY <1>1, <1>2, <1>3 DEF Setup, DealtIn

\* An ante and a blind are paid out of the chips there are.
LEMMA PostingsAre ==
  ASSUME NEW h \in Setups, NEW s \in Seats
  PROVE  /\ AntePaid(h, s) \in Nat /\ BlindPaid(h, s) \in Nat
         /\ AntePaid(h, s) + BlindPaid(h, s) <= h.stacks[s]
<1>1. h.stacks[s] \in Nat /\ h.ante \in Nat /\ h.smallBlind \in Nat /\ h.bigBlind \in Nat
  BY SetupIs
<1>2. AntePaid(h, s) \in Nat /\ AntePaid(h, s) <= h.stacks[s]
  BY <1>1 DEF AntePaid, Min2
<1> DEFINE due == IF s = SmallBlindSeat(DealtIn(h), h.dealer) THEN h.smallBlind
                  ELSE IF s = BigBlindSeat(DealtIn(h), h.dealer) THEN h.bigBlind ELSE 0
<1>3. due \in Nat  BY <1>1
<1>4. BlindPaid(h, s) = Min2(due, h.stacks[s] - AntePaid(h, s))  BY DEF BlindPaid
<1> HIDE DEF due
<1> QED  BY <1>1, <1>2, <1>3, <1>4 DEF Min2

\* A hand that createInitialState returns satisfies HandInv.
LEMMA InitHandInv == Init => HandInv
<1> SUFFICES ASSUME Init PROVE HandInv  OBVIOUS
<1>1. /\ hand \in Setups /\ street = "PREFLOP" /\ board = 0
      /\ folded = {} /\ acted = {}
      /\ active = FirstToActPreflop(Dealt, hand.dealer)
      /\ betsThisStreet = 1 /\ lastRaise = hand.bigBlind /\ complete = FALSE
      /\ rank = Nothing /\ won = Nothing /\ pot = Total(totalBet)
  BY DEF Init
<1>2. /\ currentBet = [s \in Seats |-> BlindPaid(hand, s)]
      /\ totalBet = [s \in Seats |-> AntePaid(hand, s) + BlindPaid(hand, s)]
      /\ chips = [s \in Seats |-> hand.stacks[s] - totalBet[s]]
      /\ allIn \subseteq Dealt
  BY DEF Init
<1>3. \A s \in Seats : /\ AntePaid(hand, s) \in Nat /\ BlindPaid(hand, s) \in Nat
                        /\ AntePaid(hand, s) + BlindPaid(hand, s) <= hand.stacks[s]
                        /\ hand.stacks[s] \in Nat
  BY <1>1, PostingsAre, SetupIs
<1>4. currentBet \in [Seats -> Nat] /\ totalBet \in [Seats -> Nat]
  BY <1>2, <1>3
<1>5. \A s \in Seats : chips[s] \in Nat /\ chips[s] + totalBet[s] = hand.stacks[s]
  <2> TAKE s \in Seats
  <2>1. /\ totalBet[s] = AntePaid(hand, s) + BlindPaid(hand, s)
        /\ chips[s] = hand.stacks[s] - totalBet[s]
    BY <1>2
  <2>2. /\ AntePaid(hand, s) \in Nat /\ BlindPaid(hand, s) \in Nat
        /\ AntePaid(hand, s) + BlindPaid(hand, s) <= hand.stacks[s]
        /\ hand.stacks[s] \in Nat
    BY <1>3
  <2> QED  BY <2>1, <2>2
<1>6. chips \in [Seats -> Nat]  BY <1>2, <1>5
<1>7. Dealt \in SUBSET Seats /\ hand.dealer \in Dealt /\ hand.bigBlind \in Nat
  BY <1>1, SetupIs DEF Dealt
<1>8. active \in Dealt  BY <1>1, <1>7, PreflopSeats
<1>9. pot \in Nat
  <2>1. pot = Total(totalBet)  BY <1>1
  <2> QED  BY <2>1, <1>4, TotalType
<1>10. Nothing \in [Seats -> Nat]  BY DEF Nothing
<1>11. TypeOK
  <2>0. street \in Streets /\ complete \in BOOLEAN
    <3>1. street = "PREFLOP" /\ complete = FALSE  BY <1>1
    <3> QED  BY <3>1 DEF Streets
  <2>1. board \in 0..5 /\ betsThisStreet \in Nat
    <3>1. board = 0 /\ betsThisStreet = 1  BY <1>1
    <3> QED  BY <3>1
  <2>2. won \in [Seats -> Nat] /\ rank \in [Seats -> Nat] /\ lastRaise \in Nat
    BY <1>1, <1>7, <1>10
  <2>3. folded \subseteq Dealt /\ acted \subseteq Dealt /\ allIn \subseteq Dealt
    BY <1>1, <1>2
  <2>4. hand \in Setups  BY <1>1
  <2> QED  BY <1>4, <1>6, <1>8, <1>9, <2>0, <2>1, <2>2, <2>3, <2>4 DEF TypeOK
<1>12. PotIsPutIn  BY <1>1, <1>5 DEF PotIsPutIn
<1>13. BoardFitsStreet /\ ActedSeatsHaveMatched /\ TurnIsLive
  BY <1>1, <1>8 DEF BoardFitsStreet, ActedSeatsHaveMatched, TurnIsLive, Live
<1> QED  BY <1>11, <1>12, <1>13 DEF HandInv

-----------------------------------------------------------------------------
\* Whatever a move leads to (the turn passing, a street opening, the hand ending
\* by folds or at a showdown), it keeps HandInv, provided that it puts in no more
\* than the seat has and that whoever it leaves marked as having acted has matched
\* the highest bet.
LEMMA MoveKeepsHandInv ==
  ASSUME HandInv,
         NEW paid \in Nat, NEW did, NEW count \in Nat, NEW raise \in Nat,
         FairMove(paid, did, count, raise)
  PROVE  HandInv'
<1> DEFINE bet == [currentBet EXCEPT ![active] = @ + paid]
<1>0. /\ paid <= chips[active] /\ Move(paid, did, count, raise)
      /\ folded' = folded \/ folded' = folded \cup {active}
      /\ did \in SUBSET Dealt
      /\ \A s \in CanAct' \cap did : bet[s] = Highest(bet)
  BY DEF FairMove, HandInv, TypeOK
<1>1. /\ hand \in Setups /\ street \in Streets /\ board \in 0..5
      /\ chips \in [Seats -> Nat] /\ won \in [Seats -> Nat]
      /\ rank \in [Seats -> Nat]
      /\ currentBet \in [Seats -> Nat] /\ totalBet \in [Seats -> Nat]
      /\ folded \subseteq Dealt /\ acted \subseteq Dealt /\ allIn \subseteq Dealt
      /\ active \in Dealt
      /\ pot \in Nat /\ betsThisStreet \in Nat /\ lastRaise \in Nat
  BY DEF HandInv, TypeOK
<1>2. ~complete /\ hand' = hand /\ Dealt' = Dealt  BY <1>0 DEF Move, Dealt
<1>3. /\ totalBet' = [totalBet EXCEPT ![active] = @ + paid]
      /\ allIn' = IF chips[active] = paid THEN allIn \cup {active} ELSE allIn
      /\ chips' = [s \in Seats |->
                     chips[s] - (IF s = active THEN paid ELSE 0) + won'[s]]
  BY <1>0 DEF Move
<1>4. \/ WinByFold(paid, bet, did, count, raise)
      \/ PassTurn(paid, bet, did, count, raise)
      \/ OpenStreet(paid, bet, did)
      \/ Showdown(paid, bet, did, count, raise)
  BY <1>0 DEF Move
<1>5. Dealt \in SUBSET Seats /\ active \in Seats /\ hand.dealer \in Seats
      /\ hand.bigBlind \in Nat
  BY <1>1, SetupIs DEF Dealt
<1>6. /\ totalBet' \in [Seats -> Nat] /\ bet \in [Seats -> Nat]
      /\ allIn' \subseteq Dealt /\ folded' \subseteq Dealt
      /\ CanAct' = Live' \ allIn' /\ Live' \in SUBSET Seats /\ Live' \subseteq Dealt
      /\ CanAct' \in SUBSET Seats
  BY <1>0, <1>1, <1>2, <1>3, <1>5 DEF CanAct, Live
<1> HIDE DEF bet
<1>7. won' \in [Seats -> Nat] /\ rank' \in [Seats -> Nat]
  <2>1. CASE WinByFold(paid, bet, did, count, raise)
    BY <1>1, <2>1 DEF WinByFold
  <2>2. CASE PassTurn(paid, bet, did, count, raise) \/ OpenStreet(paid, bet, did)
    BY <1>1, <2>2 DEF PassTurn, OpenStreet
  <2>3. CASE Showdown(paid, bet, did, count, raise)
    <3>1. PICK r \in [Live' -> Ranks] :
            rank' = [s \in Seats |-> IF s \in Live' THEN r[s] ELSE 0]
      BY <2>3 DEF Showdown
    <3>2. \A s \in Live' : r[s] \in Nat  BY RanksAssumption
    <3>3. rank' \in [Seats -> Nat]  BY <3>1, <3>2
    <3>4. won' = Winnings(totalBet', allIn', Live', rank', hand.dealer)
      BY <2>3 DEF Showdown
    <3>5. allIn' \in SUBSET Seats  BY <1>5, <1>6
    <3>6. won' \in [Seats -> Nat]
      BY <1>5, <1>6, <3>3, <3>4, <3>5, WinningsType
    <3> QED  BY <3>3, <3>6
  <2> QED  BY <1>4, <2>1, <2>2, <2>3
<1>8. chips' \in [Seats -> Nat]
  <2>1. \A s \in Seats : chips[s] \in Nat /\ won'[s] \in Nat  BY <1>1, <1>7
  <2> QED  BY <1>0, <1>3, <1>5, <2>1
<1>9. CASE WinByFold(paid, bet, did, count, raise)
  <2>1. complete' /\ complete' \in BOOLEAN /\ pot' = 0 /\ street' = street
        /\ board' = board /\ active' = active
        /\ currentBet' = bet /\ acted' = did /\ betsThisStreet' = count
        /\ lastRaise' = raise
    BY <1>9 DEF WinByFold, KeepRound
  <2>2. TypeOK'  BY <1>0, <1>1, <1>2, <1>6, <1>7, <1>8, <2>1 DEF TypeOK
  <2> QED  BY <2>1, <2>2 DEF HandInv, BoardFitsStreet, PotIsPutIn,
             ActedSeatsHaveMatched, TurnIsLive
<1>10. CASE Showdown(paid, bet, did, count, raise)
  <2>1. complete' /\ complete' \in BOOLEAN /\ pot' = 0 /\ street' = "SHOWDOWN"
        /\ board' = 5 /\ active' = active
    BY <1>10 DEF Showdown
  <2>2. /\ currentBet' \in [Seats -> Nat] /\ acted' \subseteq Dealt
        /\ betsThisStreet' \in Nat /\ lastRaise' \in Nat
    BY <1>0, <1>5, <1>6, <1>10 DEF Showdown, KeepRound, FreshRound, Nothing
  <2>3. TypeOK'
    BY <1>1, <1>2, <1>6, <1>7, <1>8, <2>1, <2>2 DEF TypeOK, Streets
  <2> QED  BY <2>1, <2>3 DEF HandInv, BoardFitsStreet, PotIsPutIn,
             ActedSeatsHaveMatched, TurnIsLive
<1>11. CASE PassTurn(paid, bet, did, count, raise) \/ OpenStreet(paid, bet, did)
  <2>1. /\ ~complete' /\ complete' \in BOOLEAN
        /\ pot' = pot + paid /\ won' = Nothing
    BY <1>2, <1>11 DEF PassTurn, OpenStreet, HandInv, PotIsPutIn, TypeOK
  <2>2. active' \in CanAct'
    <3>1. CASE PassTurn(paid, bet, did, count, raise)
      <4>1. CanAct' \ {active} # {} /\ active' = NextActiveSeat(active, CanAct')
        BY <3>1 DEF PassTurn, RoundOver
      <4> QED  BY <1>5, <1>6, <4>1, FirstClockwiseIn DEF NextActiveSeat
    <3>2. CASE OpenStreet(paid, bet, did)
      <4>1. CanAct' # {} /\ active' = FirstToActPostflop(hand.dealer, CanAct')
        BY <3>2 DEF OpenStreet, NoMoreBetting
      <4> QED  BY <1>5, <1>6, <4>1, FirstClockwiseIn DEF FirstToActPostflop
    <3> QED  BY <1>11, <3>1, <3>2
  <2>3. TurnIsLive'  BY <1>6, <2>2 DEF TurnIsLive
  <2>4. PotIsPutIn'
    <3>1. pot = Total(totalBet) /\ \A s \in Seats : chips[s] + totalBet[s] = hand.stacks[s]
      BY <1>2 DEF HandInv, PotIsPutIn
    <3>2. ASSUME NEW s \in Seats  PROVE chips'[s] + totalBet'[s] = hand'.stacks[s]
      <4>1. chips[s] \in Nat /\ totalBet[s] \in Nat /\ hand.stacks[s] \in Nat
            /\ won'[s] = 0
        BY <1>1, <2>1, SetupIs DEF Nothing
      <4> QED  BY <1>0, <1>1, <1>2, <1>3, <3>1, <4>1
    <3>3. Total(totalBet') = Total(totalBet) + paid
      BY <1>1, <1>3, <1>5, TotalOfMore
    <3> QED  BY <2>1, <3>1, <3>2, <3>3 DEF PotIsPutIn
  <2>5. CASE PassTurn(paid, bet, did, count, raise)
    <3>1. /\ street' = street /\ board' = board
          /\ currentBet' = bet /\ acted' = did /\ betsThisStreet' = count
          /\ lastRaise' = raise
      BY <2>5 DEF PassTurn, KeepRound
    <3>2. TypeOK'  BY <1>0, <1>1, <1>2, <1>6, <1>7, <1>8, <2>1, <2>2, <3>1 DEF TypeOK
    <3>3. BoardFitsStreet'
      BY <1>2, <3>1 DEF HandInv, BoardFitsStreet
    <3>4. ActedSeatsHaveMatched'
      BY <1>0, <3>1 DEF ActedSeatsHaveMatched, HighestBet
    <3> QED  BY <2>3, <2>4, <3>2, <3>3, <3>4 DEF HandInv
  <2>6. CASE OpenStreet(paid, bet, did)
    <3>1. /\ currentBet' = Nothing /\ acted' = {} /\ betsThisStreet' = 0
          /\ lastRaise' = hand.bigBlind
          /\ street' = NextStreet /\ street # "RIVER"
          /\ board' = IF street = "PREFLOP" THEN 3 ELSE board + 1
      BY <2>6 DEF OpenStreet, KeepRound, FreshRound
    <3>2. BoardFitsStreet' /\ street' \in Streets /\ board' \in 0..5
      BY <1>1, <1>2, <3>1 DEF HandInv, BoardFitsStreet, NextStreet, Streets
    <3>3. currentBet' \in [Seats -> Nat]  BY <3>1 DEF Nothing
    <3>4. TypeOK'
      BY <1>1, <1>2, <1>5, <1>6, <1>7, <1>8, <2>1, <2>2, <3>1, <3>2, <3>3 DEF TypeOK
    <3>5. ActedSeatsHaveMatched'  BY <3>1 DEF ActedSeatsHaveMatched
    <3> QED  BY <2>3, <2>4, <3>2, <3>4, <3>5 DEF HandInv
  <2> QED  BY <1>11, <2>5, <2>6
<1> QED  BY <1>4, <1>9, <1>10, <1>11

-----------------------------------------------------------------------------
\* The five moves of a player are fair.
LEMMA TurnIs ==
  ASSUME HandInv
  PROVE  /\ active \in Seats /\ active \in Dealt /\ Dealt \in SUBSET Seats
         /\ chips[active] \in Nat /\ currentBet[active] \in Nat
         /\ HighestBet \in Nat /\ \A s \in Seats : currentBet[s] <= HighestBet
         /\ ToCall \in Nat /\ HighestBet = currentBet[active] + ToCall
<1>1. hand \in Setups /\ active \in Dealt /\ chips \in [Seats -> Nat]
      /\ currentBet \in [Seats -> Nat]
  BY DEF HandInv, TypeOK
<1>2. Dealt \in SUBSET Seats  BY <1>1, SetupIs DEF Dealt
<1>3. HighestBet \in Nat /\ \A s \in Seats : currentBet[s] <= HighestBet
  BY <1>1, HighestIs DEF HighestBet
<1>4. chips[active] \in Nat /\ currentBet[active] \in Nat  BY <1>1, <1>2
<1> QED  BY <1>1, <1>2, <1>3, <1>4 DEF ToCall

\* When the seat to act puts chips in up to the highest bet, or above it, the
\* highest bet stays, or is its own.
LEMMA HighestAfter ==
  ASSUME HandInv, NEW paid \in Nat
  PROVE  LET bet == [currentBet EXCEPT ![active] = @ + paid] IN
         /\ bet \in [Seats -> Nat]
         /\ \A s \in Seats \ {active} : bet[s] = currentBet[s]
         /\ bet[active] = currentBet[active] + paid
         /\ paid <= ToCall => Highest(bet) = HighestBet
         /\ paid >= ToCall => Highest(bet) = bet[active]
<1> DEFINE bet == [currentBet EXCEPT ![active] = @ + paid]
<1>1. active \in Seats /\ currentBet \in [Seats -> Nat]
  BY TurnIs DEF HandInv, TypeOK
<1>2. /\ bet \in [Seats -> Nat]
      /\ \A s \in Seats \ {active} : bet[s] = currentBet[s]
      /\ bet[active] = currentBet[active] + paid
  BY <1>1
<1> HIDE DEF bet
<1>3. /\ Highest(bet) \in Nat /\ \A s \in Seats : bet[s] <= Highest(bet)
      /\ \E s \in Seats : bet[s] = Highest(bet)
  BY <1>2, HighestIs
<1>4. /\ currentBet[active] \in Nat /\ HighestBet \in Nat /\ ToCall \in Nat
      /\ HighestBet = currentBet[active] + ToCall
      /\ \A s \in Seats : currentBet[s] <= HighestBet /\ currentBet[s] \in Nat
  BY <1>1, TurnIs
<1>5. PICK high \in Seats : currentBet[high] = HighestBet
  BY <1>1, HighestIs DEF HighestBet
<1>6. ASSUME paid <= ToCall  PROVE Highest(bet) = HighestBet
  <2>1. ASSUME NEW s \in Seats  PROVE bet[s] <= HighestBet
    <3>1. CASE s = active  BY <3>1, <1>2, <1>4, <1>6
    <3>2. CASE s # active  BY <3>2, <1>2, <1>4
    <3> QED  BY <3>1, <3>2
  <2>2. bet[high] >= HighestBet  BY <1>2, <1>4, <1>5
  <2>3. bet[high] \in Nat  BY <1>2
  <2> QED  BY <1>3, <1>4, <2>1, <2>2, <2>3
<1>7. ASSUME paid >= ToCall  PROVE Highest(bet) = bet[active]
  <2>1. bet[active] \in Nat /\ bet[active] >= HighestBet  BY <1>2, <1>4, <1>7
  <2>2. ASSUME NEW s \in Seats  PROVE bet[s] <= bet[active]
    <3>1. CASE s = active  BY <3>1, <2>1
    <3>2. CASE s # active
      <4>1. bet[s] = currentBet[s] /\ currentBet[s] \in Nat /\ currentBet[s] <= HighestBet
        BY <3>2, <1>2, <1>4
      <4> QED  BY <4>1, <1>4, <2>1
    <3> QED  BY <3>1, <3>2
  <2> QED  BY <1>1, <1>3, <2>1, <2>2
<1> QED  BY <1>2, <1>6, <1>7 DEF bet

\* A check or a call is a fair move: the seat has matched the highest bet, or is all-in.
LEMMA CheckOrCallIsFair ==
  ASSUME HandInv, NEW paid \in Nat, ~complete,
         paid <= ToCall, paid <= chips[active],
         paid = ToCall \/ paid = chips[active],
         folded' = folded, Move(paid, acted \cup {active}, betsThisStreet, lastRaise)
  PROVE  FairMove(paid, acted \cup {active}, betsThisStreet, lastRaise)
<1> DEFINE bet == [currentBet EXCEPT ![active] = @ + paid]
           did == acted \cup {active}
<1>1. hand \in Setups /\ acted \subseteq Dealt /\ betsThisStreet \in Nat
      /\ lastRaise \in Nat /\ active \in Dealt /\ Dealt \in SUBSET Seats
  BY TurnIs DEF HandInv, TypeOK
<1>2. /\ \A s \in Seats \ {active} : bet[s] = currentBet[s]
      /\ bet[active] = currentBet[active] + paid
      /\ Highest(bet) = HighestBet
  BY HighestAfter
<1> HIDE DEF bet
<1>3. CanAct' = (Dealt \ folded) \ allIn'
      /\ allIn' = IF chips[active] = paid THEN allIn \cup {active} ELSE allIn
  BY DEF Move, CanAct, Live, Dealt
<1>4. ASSUME NEW s \in CanAct' \cap did  PROVE bet[s] = Highest(bet)
  <2>1. CASE s = active
    <3>1. paid = ToCall  BY <1>3, <1>4, <2>1
    <3> QED  BY <1>2, <2>1, <3>1, TurnIs
  <2>2. CASE s # active
    <3>1. s \in CanAct \cap acted /\ s \in Seats
      BY <1>1, <1>3, <1>4, <2>2 DEF CanAct, Live
    <3>2. currentBet[s] = HighestBet  BY <3>1 DEF HandInv, ActedSeatsHaveMatched
    <3> QED  BY <1>2, <2>2, <3>1, <3>2
  <2> QED  BY <2>1, <2>2
<1>5. IsAMove(paid, did)  BY DEF IsAMove
<1> QED  BY <1>4, <1>5 DEF FairMove, bet

\* A bet or raise leaves only its own seat marked among those that can act.
LEMMA BetOrRaiseIsFair ==
  ASSUME HandInv, NEW paid \in Nat, NEW raise, ~complete,
         paid >= ToCall, paid > 0, paid <= chips[active], folded' = folded,
         Move(paid, MustAnswer \cup {active}, betsThisStreet + 1, raise)
  PROVE  FairMove(paid, MustAnswer \cup {active}, betsThisStreet + 1, raise)
<1> DEFINE bet == [currentBet EXCEPT ![active] = @ + paid]
           did == MustAnswer \cup {active}
<1>2. Highest(bet) = bet[active]  BY HighestAfter
<1>3. CanAct' = (Dealt \ folded) \ allIn' /\ allIn \subseteq allIn'
  BY DEF Move, CanAct, Live, Dealt
<1>4. \A s \in CanAct' \cap did : s = active  BY <1>3 DEF MustAnswer
<1>5. did \subseteq acted \cup {active} /\ active \in did  BY DEF MustAnswer
<1> HIDE DEF did
<1>6. \A s \in CanAct' \cap did : bet[s] = Highest(bet)  BY <1>2, <1>4
<1>7. IsAMove(paid, did)  BY DEF IsAMove, did
<1> QED  BY <1>5, <1>6, <1>7 DEF FairMove, did

\* A fold takes a seat out and leaves the bets and the marks alone.
LEMMA FoldIsFair ==
  ASSUME HandInv, ~complete, Fold
  PROVE  FairMove(0, acted, betsThisStreet, lastRaise)
<1>1. hand \in Setups /\ acted \in SUBSET Dealt /\ betsThisStreet \in Nat
      /\ lastRaise \in Nat /\ Dealt \in SUBSET Seats /\ chips[active] \in Nat
      /\ ToCall \in Nat
  BY TurnIs DEF HandInv, TypeOK
<1> DEFINE bet == [currentBet EXCEPT ![active] = @ + 0]
<1>2. /\ \A s \in Seats \ {active} : bet[s] = currentBet[s]
      /\ Highest(bet) = HighestBet
  <2>1. 0 \in Nat /\ 0 <= ToCall  BY <1>1
  <2> HIDE DEF bet
  <2> QED  BY <2>1, HighestAfter DEF bet
<1>3. folded' = folded \cup {active} /\ Move(0, acted, betsThisStreet, lastRaise)
  BY DEF Fold
<1>4. CanAct' \subseteq CanAct \ {active}
  BY <1>3 DEF Move, CanAct, Live, Dealt
<1> HIDE DEF bet
<1>5. \A s \in CanAct' \cap acted : bet[s] = Highest(bet)
  <2>1. \A s \in CanAct \cap acted : currentBet[s] = HighestBet
    BY DEF HandInv, ActedSeatsHaveMatched
  <2> QED  BY <1>1, <1>2, <1>4, <2>1
<1>6. 0 \in Nat /\ 0 <= chips[active]  BY <1>1
<1>7. IsAMove(0, acted)  BY <1>3 DEF IsAMove
<1> QED  BY <1>3, <1>4, <1>5, <1>6, <1>7 DEF FairMove, bet

\* A bet or a raise puts in what the seat has at most.
LEMMA PutInIs ==
  ASSUME HandInv, NEW requested \in Nat, NEW fixed \in Nat
  PROVE  /\ PutIn(requested, fixed) \in Nat
         /\ PutIn(requested, fixed) <= chips[active]
         /\ BetSize \in Nat /\ MinIncrement \in Nat
<1>1. chips[active] \in Nat  BY TurnIs
<1>2. hand \in Setups /\ lastRaise \in Nat  BY DEF HandInv, TypeOK
<1>3. BetSize \in Nat  BY <1>2, SetupIs DEF BetSize
<1>4. MinIncrement \in Nat
  <2>1. hand.bigBlind \in Nat  BY <1>2, SetupIs
  <2> QED  BY <1>2, <2>1 DEF MinIncrement, Max2
<1> QED  BY <1>1, <1>3, <1>4 DEF PutIn, Min2

\* What a bet puts in is not nothing.
LEMMA BetPutsIn ==
  ASSUME HandInv, NEW requested \in Nat, chips[active] > 0,
         Accepted(requested, MinBet, MaxBet)
  PROVE  PutIn(requested, BetSize) > 0
<1>1. chips[active] \in Nat /\ hand \in Setups  BY TurnIs DEF HandInv, TypeOK
<1>2. hand.bigBlind \in Nat \ {0}  BY <1>1, SetupIs
<1>3. CASE hand.mode = "LIMIT"
  <2>1. BetSize \in Nat \ {0}  BY <1>1, <1>3, SetupIs DEF BetSize
  <2> QED  BY <1>1, <1>3, <2>1 DEF PutIn, Min2
<1>4. CASE hand.mode # "LIMIT"
  <2>1. requested > chips[active] \/ requested >= MinBet  BY <1>4 DEF Accepted
  <2>2. MinBet \in Nat /\ MinBet > 0  BY <1>1, <1>2 DEF MinBet, Min2
  <2>3. PutIn(requested, BetSize) = Min2(requested, chips[active])  BY <1>4 DEF PutIn
  <2> QED  BY <1>1, <2>1, <2>2, <2>3 DEF Min2
<1> QED  BY <1>3, <1>4

\* What a raise puts in covers at least the call, and is not nothing.
LEMMA RaiseCovers ==
  ASSUME HandInv, NEW requested \in Nat, ToCall > 0, chips[active] > ToCall,
         Accepted(requested, MinRaise, MaxRaise)
  PROVE  /\ PutIn(requested, ToCall + BetSize) >= ToCall
         /\ PutIn(requested, ToCall + BetSize) > 0
<1>1. chips[active] \in Nat /\ ToCall \in Nat  BY TurnIs
<1>2. BetSize \in Nat /\ MinIncrement \in Nat  BY PutInIs
<1>3. CASE hand.mode = "LIMIT"  BY <1>1, <1>2, <1>3 DEF PutIn, Min2
<1>4. CASE hand.mode # "LIMIT"
  <2>1. requested > chips[active] \/ requested \in MinRaise..MaxRaise
    BY <1>4 DEF Accepted
  <2>2. PutIn(requested, ToCall + BetSize) = Min2(requested, chips[active])
    BY <1>4 DEF PutIn
  <2>3. CASE requested > chips[active]  BY <1>1, <2>2, <2>3 DEF Min2
  <2>4. CASE requested \in MinRaise..MaxRaise
    <3>1. requested >= MinRaise  BY <2>4
    <3>2. MinRaise >= ToCall  BY <1>1, <1>2 DEF MinRaise, Min2
    <3>3. MinRaise \in Nat  BY <1>1, <1>2 DEF MinRaise, Min2
    <3> QED  BY <1>1, <2>2, <3>1, <3>2, <3>3 DEF Min2
  <2> QED  BY <2>1, <2>3, <2>4
<1> QED  BY <1>3, <1>4

-----------------------------------------------------------------------------
\* Every step of a hand that is on is a fair move, and a hand that is over stays.
LEMMA StepsAreFair ==
  ASSUME HandInv, Next
  PROVE  \/ complete /\ UNCHANGED vars
         \/ \E paid, count, raise \in Nat : \E did : FairMove(paid, did, count, raise)
<1> DEFINE Goal == \E paid, count, raise \in Nat : \E did : FairMove(paid, did, count, raise)
<1>0. betsThisStreet \in Nat /\ lastRaise \in Nat /\ betsThisStreet + 1 \in Nat
  BY DEF HandInv, TypeOK
<1>1. ASSUME ~complete, Fold  PROVE Goal  BY <1>0, <1>1, FoldIsFair
<1>2. ASSUME ~complete, Check  PROVE Goal
  <2>1. 0 \in Nat /\ 0 <= ToCall /\ 0 <= chips[active] /\ 0 = ToCall
    BY <1>2, TurnIs DEF Check
  <2> QED  BY <1>0, <1>2, <2>1, CheckOrCallIsFair DEF Check
<1>3. ASSUME ~complete, Call  PROVE Goal
  <2>1. /\ CallAmount \in Nat /\ CallAmount <= ToCall /\ CallAmount <= chips[active]
        /\ CallAmount = ToCall \/ CallAmount = chips[active]
    BY TurnIs DEF CallAmount, Min2
  <2> QED  BY <1>0, <1>3, <2>1, CheckOrCallIsFair DEF Call
<1>4. ASSUME ~complete, NEW requested \in Amounts, Bet(requested)  PROVE Goal
  <2> DEFINE paid == PutIn(requested, BetSize)
  <2>1. requested \in Nat  BY AmountsAssumption
  <2>2. paid \in Nat /\ paid <= chips[active]  BY <2>1, PutInIs
  <2>3. paid >= ToCall /\ paid > 0  BY <1>4, <2>1, <2>2, BetPutsIn DEF Bet
  <2>4. folded' = folded /\ Move(paid, MustAnswer \cup {active}, betsThisStreet + 1, paid)
    BY <1>4 DEF Bet
  <2> HIDE DEF paid
  <2> QED  BY <1>0, <1>4, <2>2, <2>3, <2>4, BetOrRaiseIsFair
<1>5. ASSUME ~complete, NEW requested \in Amounts, Raise(requested)  PROVE Goal
  <2> DEFINE paid == PutIn(requested, ToCall + BetSize)
             increment == IF hand.mode = "LIMIT" THEN BetSize ELSE paid - ToCall
             raise == IF increment > 0 THEN increment ELSE lastRaise
  <2>1. requested \in Nat  BY AmountsAssumption
  <2>2. BetSize \in Nat /\ ToCall \in Nat /\ lastRaise \in Nat
    BY <2>1, PutInIs, TurnIs DEF HandInv, TypeOK
  <2>3. paid \in Nat /\ paid <= chips[active]
    <3>1. ToCall + BetSize \in Nat  BY <2>2
    <3> QED  BY <2>1, <3>1, PutInIs
  <2>4. paid >= ToCall /\ paid > 0  BY <1>5, <2>1, RaiseCovers DEF Raise
  <2>5. folded' = folded
        /\ Move(paid, MustAnswer \cup {active}, betsThisStreet + 1, raise)
    BY <1>5 DEF Raise
  <2> HIDE DEF paid
  <2>6. raise \in Nat  BY <2>2, <2>3, <2>4
  <2> HIDE DEF raise
  <2> QED  BY <1>0, <1>5, <2>3, <2>4, <2>5, <2>6, BetOrRaiseIsFair
<1>6. ASSUME complete  PROVE ~Fold /\ ~Check /\ ~Call
                             /\ \A requested : ~Bet(requested) /\ ~Raise(requested)
  BY <1>6 DEF Fold, Check, Call, Bet, Raise, Move
<1> QED  BY <1>1, <1>2, <1>3, <1>4, <1>5, <1>6 DEF Next, Over

\* HandInv is inductive.
LEMMA NextHandInv == HandInv /\ [Next]_vars => HandInv'
<1> SUFFICES ASSUME HandInv, [Next]_vars PROVE HandInv'  OBVIOUS
<1>1. CASE UNCHANGED vars
  BY <1>1 DEF vars, bets, HandInv, TypeOK, BoardFitsStreet, PotIsPutIn,
     ActedSeatsHaveMatched, TurnIsLive, CanAct, Live, Dealt, HighestBet
<1>2. CASE Next
  <2>1. CASE \E paid, count, raise \in Nat : \E did : FairMove(paid, did, count, raise)
    BY <2>1, MoveKeepsHandInv
  <2> QED  BY <1>1, <1>2, <2>1, StepsAreFair
<1> QED  BY <1>1, <1>2

\* Every hand keeps to HandInv.
THEOREM HandInvHolds == Spec => []HandInv
<1>1. Init => HandInv  BY InitHandInv
<1>2. HandInv /\ [Next]_vars => HandInv'  BY NextHandInv
<1> QED  BY <1>1, <1>2, PTL DEF Spec

\* The variables have their types: chips, bets, the pot and the winnings are
\* never negative, for any amount an agent may send to applyAction.
THEOREM TypeCorrect == Spec => []TypeOK
<1>1. HandInv => TypeOK  BY DEF HandInv
<1> QED  BY <1>1, HandInvHolds, PTL

\* A seat marked hasActed that can still act has matched the highest bet: every
\* bet and raise clears the marks of those who have to answer it.
THEOREM ActedHaveMatched == Spec => []ActedSeatsHaveMatched
<1>1. HandInv => ActedSeatsHaveMatched  BY DEF HandInv
<1> QED  BY <1>1, HandInvHolds, PTL

\* activePlayerIndex points to a seat in the hand, and after the first turn to
\* one that is not all-in.
THEOREM TurnAlwaysLive == Spec => []TurnIsLive
<1>1. HandInv => TurnIsLive  BY DEF HandInv
<1> QED  BY <1>1, HandInvHolds, PTL

-----------------------------------------------------------------------------
(***************************************************************************)
(* The raise cap of LIMIT poker.  What a seat has put in on a street is     *)
(* bounded by the bets the street has seen, and those by the cap.           *)
(***************************************************************************)
BigBetsAreBigger == \A h \in Setups : h.bigBet >= h.smallBet

\* The hands that the cap is about.
IsCapped == hand.mode = "LIMIT" /\ hand.cap > 0 /\ hand.smallBet = hand.bigBlind

\* What a seat has put in on the street is at most that many bets, and there are no
\* more of them than the cap allows.
BetsFitCount(bet, count, size) ==
  count <= hand.cap /\ \A s \in Seats : bet[s] <= count * size

\* With what a capped street has seen.
CapInv == HandInv /\ (IsCapped => BetsFitCount(currentBet, betsThisStreet, BetSize))

\* What multiples of bets come to: the provers know little of products.
LEMMA Products ==
  ASSUME NEW n \in Nat, NEW m \in Nat, NEW b \in Nat, NEW c \in Nat
  PROVE  /\ n * b \in Nat /\ 0 * b = 0 /\ 1 * b = b /\ (n + 1) * b = n * b + b
         /\ b <= c => n * b <= n * c
         /\ n <= m => n * b <= m * b
<1>1. b <= c => n * b <= n * c
  <2>1. SUFFICES ASSUME b <= c PROVE n * b <= n * c  OBVIOUS
  <2>2. c - b \in Nat /\ n * (c - b) \in Nat  BY <2>1
  <2>3. n * c = n * b + n * (c - b)  OBVIOUS
  <2> QED  BY <2>2, <2>3
<1>2. n <= m => n * b <= m * b
  <2>1. SUFFICES ASSUME n <= m PROVE n * b <= m * b  OBVIOUS
  <2>2. m - n \in Nat /\ (m - n) * b \in Nat  BY <2>1
  <2>3. m * b = n * b + (m - n) * b  OBVIOUS
  <2> QED  BY <2>2, <2>3
<1> QED  BY <1>1, <1>2

\* Blinds are at most one bet.
LEMMA InitCapInv == ASSUME Init PROVE CapInv
<1>1. HandInv  BY InitHandInv
<1>2. /\ hand \in Setups /\ street = "PREFLOP" /\ betsThisStreet = 1
      /\ \A s \in Seats : currentBet[s] = BlindPaid(hand, s)
  <2>1. hand \in Setups /\ street = "PREFLOP" /\ betsThisStreet = 1  BY DEF Init
  <2>2. currentBet = [s \in Seats |-> BlindPaid(hand, s)]  BY DEF Init
  <2> QED  BY <2>1, <2>2
<1>3. hand.bigBlind \in Nat /\ hand.smallBlind \in Nat /\ hand.smallBlind <= hand.bigBlind
      /\ hand.cap \in Nat
  BY <1>2, SetupIs
<1>4. ASSUME IsCapped, NEW s \in Seats  PROVE currentBet[s] <= 1 * BetSize
  <2>1. BetSize = hand.bigBlind  BY <1>2, <1>4 DEF BetSize, IsCapped
  <2>2. /\ BlindPaid(hand, s) \in Nat /\ AntePaid(hand, s) \in Nat
        /\ AntePaid(hand, s) + BlindPaid(hand, s) <= hand.stacks[s]
        /\ hand.stacks[s] \in Nat
    BY <1>2, PostingsAre, SetupIs
  <2>3. BlindPaid(hand, s) <= hand.bigBlind
    BY <1>3, <2>2 DEF BlindPaid, Min2
  <2>4. 1 * BetSize = hand.bigBlind  BY <1>3, <2>1
  <2> QED  BY <1>2, <2>3, <2>4
<1> QED  BY <1>1, <1>2, <1>3, <1>4 DEF CapInv, BetsFitCount, IsCapped

\* Wherever a move leads to, the bets it leaves on the street fit their count.
LEMMA MoveKeepsCap ==
  ASSUME HandInv, HandInv', BigBetsAreBigger,
         NEW paid, NEW did, NEW count \in Nat, NEW raise,
         IsCapped,
         BetsFitCount([currentBet EXCEPT ![active] = @ + paid], count, BetSize),
         Move(paid, did, count, raise)
  PROVE  BetsFitCount(currentBet, betsThisStreet, BetSize)'
<1> DEFINE bet == [currentBet EXCEPT ![active] = @ + paid]
<1>1. /\ hand' = hand /\ hand \in Setups /\ street \in Streets
      /\ currentBet' \in [Seats -> Nat]
  BY DEF Move, HandInv, TypeOK
<1>2. /\ hand.smallBet \in Nat /\ hand.bigBet \in Nat /\ hand.cap \in Nat
      /\ hand.smallBet <= hand.bigBet
  BY <1>1, SetupIs DEF BigBetsAreBigger
<1>3. BetSize \in Nat /\ BetSize' \in Nat
  BY <1>1, <1>2 DEF BetSize
<1>4. \/ WinByFold(paid, bet, did, count, raise)
      \/ PassTurn(paid, bet, did, count, raise)
      \/ OpenStreet(paid, bet, did)
      \/ Showdown(paid, bet, did, count, raise)
  BY DEF Move
<1>5. count <= hand.cap /\ \A s \in Seats : bet[s] <= count * BetSize
  BY DEF BetsFitCount
<1> HIDE DEF bet
<1>6. CASE currentBet' = Nothing /\ betsThisStreet' = 0
  <2>1. 0 * BetSize' = 0  BY <1>3, Products
  <2> QED  BY <1>1, <1>2, <1>6, <2>1 DEF BetsFitCount, Nothing
<1>7. CASE currentBet' = bet /\ betsThisStreet' = count /\ BetSize <= BetSize'
  <2>1. count * BetSize <= count * BetSize'
        /\ count * BetSize \in Nat /\ count * BetSize' \in Nat
    BY <1>3, <1>7, Products
  <2>2. \A s \in Seats : bet[s] <= count * BetSize'
    BY <1>1, <1>5, <1>7, <2>1
  <2> QED  BY <1>1, <1>5, <1>7, <2>2 DEF BetsFitCount
<1>8. CASE WinByFold(paid, bet, did, count, raise) \/ PassTurn(paid, bet, did, count, raise)
  <2>1. BetSize' = BetSize
    BY <1>1, <1>8 DEF WinByFold, PassTurn, BetSize
  <2> QED  BY <1>3, <1>7, <1>8, <2>1 DEF WinByFold, PassTurn, KeepRound
<1>9. CASE OpenStreet(paid, bet, did)
  BY <1>6, <1>9 DEF OpenStreet, FreshRound, KeepRound
<1>10. CASE Showdown(paid, bet, did, count, raise)
  <2>1. BetSize <= BetSize'
    BY <1>1, <1>2, <1>10 DEF Showdown, BetSize
  <2> QED  BY <1>6, <1>7, <1>10, <2>1 DEF Showdown, FreshRound, KeepRound
<1> QED  BY <1>4, <1>8, <1>9, <1>10

\* Every step of a hand keeps CapInv.
LEMMA NextCapInv ==
  ASSUME BigBetsAreBigger, CapInv, [Next]_vars  PROVE CapInv'
<1>1. HandInv /\ HandInv'  BY NextHandInv DEF CapInv
<1>2. SUFFICES ASSUME IsCapped' PROVE BetsFitCount(currentBet, betsThisStreet, BetSize)'
  BY <1>1 DEF CapInv
<1>3. CASE UNCHANGED vars
  BY <1>2, <1>3 DEF vars, bets, CapInv, IsCapped, BetsFitCount, BetSize
<1>4. CASE Next
  <2>1. hand' = hand
    BY <1>4 DEF Next, Fold, Check, Call, Bet, Raise, Over, Move, vars
  <2>2. IsCapped /\ hand.mode = "LIMIT"  BY <1>2, <2>1 DEF IsCapped
  <2>3. BetsFitCount(currentBet, betsThisStreet, BetSize)  BY <2>2 DEF CapInv
  <2>4. /\ betsThisStreet \in Nat /\ betsThisStreet <= hand.cap /\ hand.cap \in Nat
        /\ chips[active] \in Nat /\ ToCall \in Nat /\ active \in Seats
        /\ HighestBet = currentBet[active] + ToCall /\ currentBet[active] \in Nat
        /\ currentBet \in [Seats -> Nat] /\ BetSize \in Nat
    <3>1. hand \in Setups /\ betsThisStreet \in Nat /\ currentBet \in [Seats -> Nat]
      BY <1>1 DEF HandInv, TypeOK
    <3>2. BetSize \in Nat /\ hand.cap \in Nat  BY <3>1, SetupIs DEF BetSize
    <3> QED  BY <1>1, <2>3, <3>1, <3>2, TurnIs DEF BetsFitCount
  <2> DEFINE size == BetSize
             n == betsThisStreet
  <2>5. HighestBet <= n * size /\ n * size \in Nat /\ (n + 1) * size = n * size + size
    <3>1. PICK s \in Seats : currentBet[s] = HighestBet
      BY <2>4, HighestIs DEF HighestBet
    <3> QED  BY <2>3, <2>4, <3>1, Products DEF BetsFitCount
  <2>6. ASSUME NEW paid \in Nat, paid <= ToCall
        PROVE  BetsFitCount([currentBet EXCEPT ![active] = @ + paid], n, size)
    <3> DEFINE bet == [currentBet EXCEPT ![active] = @ + paid]
    <3>1. \A s \in Seats : bet[s] = IF s = active THEN currentBet[s] + paid ELSE currentBet[s]
      BY <2>4
    <3>2. bet[active] <= n * size  BY <2>4, <2>5, <2>6, <3>1
    <3> QED  BY <2>3, <2>4, <3>1, <3>2 DEF BetsFitCount
  <2>7. ASSUME NEW paid \in Nat, paid <= ToCall + size, ~RaiseCapReached
        PROVE  BetsFitCount([currentBet EXCEPT ![active] = @ + paid], n + 1, size)
    <3> DEFINE bet == [currentBet EXCEPT ![active] = @ + paid]
    <3>1. \A s \in Seats : bet[s] = IF s = active THEN currentBet[s] + paid ELSE currentBet[s]
      BY <2>4
    <3>2. bet[active] <= n * size + size  BY <2>4, <2>5, <2>7, <3>1
    <3>3. \A s \in Seats : currentBet[s] \in Nat /\ currentBet[s] <= n * size
      BY <2>3, <2>4 DEF BetsFitCount
    <3>4. \A s \in Seats : bet[s] <= n * size + size
      BY <2>4, <2>5, <3>1, <3>2, <3>3
    <3>5. n + 1 <= hand.cap  BY <2>2, <2>4, <2>7 DEF RaiseCapReached, IsCapped
    <3> QED  BY <2>5, <3>4, <3>5 DEF BetsFitCount
  <2>8. CASE Fold
    BY <1>1, <2>2, <2>4, <2>6, <2>8, MoveKeepsCap DEF Fold
  <2>9. CASE Check
    BY <1>1, <2>2, <2>4, <2>6, <2>9, MoveKeepsCap DEF Check
  <2>10. CASE Call
    <3>1. CallAmount \in Nat /\ CallAmount <= ToCall
      BY <2>4 DEF CallAmount, Min2
    <3> QED  BY <1>1, <2>2, <2>4, <2>6, <2>10, <3>1, MoveKeepsCap DEF Call
  <2>11. ASSUME NEW requested \in Amounts, Bet(requested)
         PROVE  BetsFitCount(currentBet, betsThisStreet, BetSize)'
    <3> DEFINE paid == PutIn(requested, size)
    <3>1. paid \in Nat /\ paid <= ToCall + size
      BY <2>2, <2>4 DEF PutIn, Min2
    <3>2. Move(paid, MustAnswer \cup {active}, n + 1, paid) /\ ~RaiseCapReached
      BY <2>11 DEF Bet
    <3>3. n + 1 \in Nat  BY <2>4
    <3> HIDE DEF paid
    <3> QED  BY <1>1, <2>2, <2>7, <3>1, <3>2, <3>3, MoveKeepsCap
  <2>12. ASSUME NEW requested \in Amounts, Raise(requested)
         PROVE  BetsFitCount(currentBet, betsThisStreet, BetSize)'
    <3> DEFINE paid == PutIn(requested, ToCall + size)
    <3>1. paid \in Nat /\ paid <= ToCall + size
      BY <2>2, <2>4 DEF PutIn, Min2
    <3>2. ~RaiseCapReached /\ \E raise : Move(paid, MustAnswer \cup {active}, n + 1, raise)
      BY <2>12 DEF Raise
    <3>3. n + 1 \in Nat  BY <2>4
    <3> HIDE DEF paid
    <3> QED  BY <1>1, <2>2, <2>7, <3>1, <3>2, <3>3, MoveKeepsCap
  <2>13. CASE Over
    BY <1>3, <2>13 DEF Over
  <2> QED  BY <1>4, <2>8, <2>9, <2>10, <2>11, <2>12, <2>13 DEF Next
<1> QED  BY <1>3, <1>4

\* With a cap of n, nobody has to put in more than n bets on a street of LIMIT
\* poker, all-in raises and the option of the big blind included.
THEOREM LimitIsCapped ==
  ASSUME BigBetsAreBigger  PROVE Spec => []LimitStreetIsCapped
<1>1. Init => CapInv  BY InitCapInv
<1>2. CapInv /\ [Next]_vars => CapInv'  BY NextCapInv
<1>3. CapInv => LimitStreetIsCapped
  <2> SUFFICES ASSUME CapInv, IsCapped PROVE HighestBet <= hand.cap * BetSize
    BY DEF LimitStreetIsCapped, IsCapped
  <2>1. /\ hand \in Setups /\ currentBet \in [Seats -> Nat] /\ betsThisStreet \in Nat
    BY DEF CapInv, HandInv, TypeOK
  <2>2. BetSize \in Nat /\ hand.cap \in Nat  BY <2>1, SetupIs DEF BetSize
  <2>3. PICK s \in Seats : currentBet[s] = HighestBet
    BY <2>1, HighestIs DEF HighestBet
  <2>4. HighestBet <= betsThisStreet * BetSize /\ betsThisStreet <= hand.cap
        /\ HighestBet \in Nat
    BY <2>1, <2>3 DEF CapInv, BetsFitCount
  <2>5. /\ betsThisStreet * BetSize <= hand.cap * BetSize
        /\ betsThisStreet * BetSize \in Nat /\ hand.cap * BetSize \in Nat
    BY <2>1, <2>2, <2>4, Products
  <2> QED  BY <2>4, <2>5
<1> QED  BY <1>1, <1>2, <1>3, PTL DEF Spec

-----------------------------------------------------------------------------
(***************************************************************************)
(* The chips.  finishHand skips a pot nobody is eligible for, so chips could *)
(* be lost if a seat that is all-in could fold: then an all-in level may     *)
(* have no live seat.  Only a seat the blinds put all-in before it ever acts *)
(* could, and when every ante is below every stack that is the dealer heads  *)
(* up, whose fold ends the hand.                                             *)
(***************************************************************************)
AntesLeaveChips ==
  \A h \in Setups : \A s \in DealtIn(h) : h.ante < h.stacks[s]

\* While a hand is on, nobody who is all-in has folded.
AllInStaysLive ==
  ~complete =>
    /\ allIn \subseteq Live
    /\ \A s \in Live \ allIn : chips[s] > 0
    /\ \A s \in allIn : totalBet[s] > 0
    /\ \A s \in Seats : Live # {s}
    /\ active \in allIn => HeadsUp(Dealt) /\ folded = {}

\* With what the chips add up to.
MoneyInv == HandInv /\ AllInStaysLive /\ ChipConservation

\* A hand that createInitialState returns satisfies MoneyInv.
LEMMA InitMoneyInv ==
  ASSUME AntesLeaveChips, Init  PROVE MoneyInv
<1>1. HandInv  BY InitHandInv
<1>2. /\ hand \in Setups /\ complete = FALSE /\ folded = {}
      /\ active = FirstToActPreflop(Dealt, hand.dealer)
      /\ allIn = {s \in Dealt : chips[s] = 0 /\ totalBet[s] > 0}
      /\ totalBet = [s \in Seats |-> AntePaid(hand, s) + BlindPaid(hand, s)]
      /\ chips = [s \in Seats |-> hand.stacks[s] - totalBet[s]]
  BY DEF Init
<1>3. /\ pot = Total(totalBet) /\ chips \in [Seats -> Nat]
      /\ totalBet \in [Seats -> Nat]
      /\ \A s \in Seats : chips[s] + totalBet[s] = hand.stacks[s]
  BY <1>1, <1>2 DEF HandInv, PotIsPutIn, TypeOK
<1>4. Dealt \in SUBSET Seats /\ hand.dealer \in Dealt /\ Dealt # {hand.dealer}
      /\ \A s \in Dealt : hand.stacks[s] > 0 /\ hand.ante < hand.stacks[s]
      /\ hand.ante \in Nat /\ hand.stacks \in [Seats -> Nat]
  BY <1>2, SetupIs DEF Dealt, AntesLeaveChips
<1>5. Live = Dealt  BY <1>2 DEF Live
<1>6. \A s \in Dealt \ allIn : chips[s] > 0
  <2> TAKE s \in Dealt \ allIn
  <2>1. chips[s] \in Nat /\ totalBet[s] \in Nat /\ hand.stacks[s] > 0
        /\ chips[s] + totalBet[s] = hand.stacks[s]
        /\ ~(chips[s] = 0 /\ totalBet[s] > 0)
    BY <1>2, <1>3, <1>4
  <2> QED  BY <2>1
<1>7. active \in allIn => HeadsUp(Dealt)
  <2> SUFFICES ASSUME active \in allIn, ~HeadsUp(Dealt)  PROVE FALSE
    OBVIOUS
  <2>1. /\ active # SmallBlindSeat(Dealt, hand.dealer)
        /\ active # BigBlindSeat(Dealt, hand.dealer)
    BY <1>2, <1>4, FirstToActIsNoBlind
  <2>2. active \in Dealt /\ chips[active] = 0  BY <1>2
  <2>3. hand.stacks[active] \in Nat /\ hand.ante < hand.stacks[active]
    BY <1>4, <2>2
  <2>4. AntePaid(hand, active) = hand.ante
    BY <1>4, <2>3 DEF AntePaid, Min2
  <2>5. BlindPaid(hand, active) = Min2(0, hand.stacks[active] - hand.ante)
    BY <2>1, <2>4 DEF BlindPaid, Dealt
  <2>6. BlindPaid(hand, active) = 0  BY <1>4, <2>3, <2>5 DEF Min2
  <2>7. totalBet[active] = hand.ante
    <3>1. active \in Seats  BY <1>4, <2>2
    <3>2. totalBet[active] = AntePaid(hand, active) + BlindPaid(hand, active)
      BY <1>2, <3>1
    <3> QED  BY <1>4, <2>4, <2>6, <3>2
  <2>8. chips[active] + totalBet[active] = hand.stacks[active]
    BY <1>3, <1>4, <2>2
  <2> QED  BY <1>4, <2>2, <2>3, <2>7, <2>8
<1>8. AllInStaysLive
  BY <1>2, <1>4, <1>5, <1>6, <1>7 DEF AllInStaysLive
<1>9. ChipConservation
  <2>1. Total(chips) + Total(totalBet) = Total([s \in Seats |-> chips[s] + totalBet[s]])
    BY <1>3, TotalOfSum
  <2>2. [s \in Seats |-> chips[s] + totalBet[s]] = hand.stacks
    <3>1. hand.stacks = [s \in Seats |-> hand.stacks[s]]  BY <1>4
    <3> QED  BY <1>3, <3>1
  <2> QED  BY <1>3, <2>1, <2>2 DEF ChipConservation
<1> QED  BY <1>1, <1>8, <1>9 DEF MoneyInv

\* Whatever a move leads to, it keeps AllInStaysLive and the chips.
LEMMA MoveKeepsMoney ==
  ASSUME MoneyInv, HandInv',
         NEW paid \in Nat, paid <= chips[active],
         NEW did, NEW count, NEW raise,
         folded' = folded \/ (paid = 0 /\ folded' = folded \cup {active}),
         Move(paid, did, count, raise)
  PROVE  MoneyInv'
<1> DEFINE bet == [currentBet EXCEPT ![active] = @ + paid]
<1>1. /\ ~complete /\ hand' = hand /\ hand \in Setups
      /\ totalBet' = [totalBet EXCEPT ![active] = @ + paid]
      /\ allIn' = IF chips[active] = paid THEN allIn \cup {active} ELSE allIn
      /\ chips' = [s \in Seats |->
                     chips[s] - (IF s = active THEN paid ELSE 0) + won'[s]]
  BY DEF Move, MoneyInv, HandInv, TypeOK
<1>2. \/ WinByFold(paid, bet, did, count, raise)
      \/ PassTurn(paid, bet, did, count, raise)
      \/ OpenStreet(paid, bet, did)
      \/ Showdown(paid, bet, did, count, raise)
  BY DEF Move
<1> HIDE DEF bet
<1>3. /\ chips \in [Seats -> Nat] /\ totalBet \in [Seats -> Nat]
      /\ chips' \in [Seats -> Nat] /\ totalBet' \in [Seats -> Nat]
      /\ won' \in [Seats -> Nat] /\ rank' \in [Seats -> Nat] /\ pot \in Nat
      /\ pot = Total(totalBet)
      /\ \A s \in Seats : chips[s] + totalBet[s] = hand.stacks[s]
  BY <1>1 DEF MoneyInv, HandInv, TypeOK, PotIsPutIn
<1>4. /\ Dealt \in SUBSET Seats /\ Dealt' = Dealt /\ hand.dealer \in Seats
      /\ \A s \in Dealt : hand.stacks[s] > 0
      /\ hand.stacks \in [Seats -> Nat]
      /\ active \in Dealt /\ active \in Live
  BY <1>1, SetupIs DEF Dealt, MoneyInv, HandInv, TypeOK, TurnIsLive
<1>5. /\ allIn \subseteq Live
      /\ \A s \in Live \ allIn : chips[s] > 0
      /\ \A s \in allIn : totalBet[s] > 0
      /\ \A s \in Seats : Live # {s}
      /\ active \in allIn => HeadsUp(Dealt) /\ folded = {}
  BY <1>1 DEF MoneyInv, AllInStaysLive
<1>6. Live' = Live \/ (paid = 0 /\ Live' = Live \ {active})
  BY <1>4 DEF Live
<1>7. Live' \in SUBSET Seats /\ Live' # {}
  BY <1>4, <1>5, <1>6 DEF Live
<1>8. ASSUME ~OneLeft  PROVE allIn' \in SUBSET Live'
  <2>1. CASE Live' = Live  BY <1>1, <1>4, <1>5, <2>1
  <2>2. CASE paid = 0 /\ Live' = Live \ {active}
    <3>1. active \notin allIn
      <4> SUFFICES ASSUME HeadsUp(Dealt), Live = Dealt  PROVE FALSE
        BY <1>5 DEF Live
      <4> QED  BY <1>4, <1>8, <2>2, OtherOfTwo DEF OneLeft
    <3>2. chips[active] # paid  BY <1>4, <1>5, <2>2, <3>1
    <3> QED  BY <1>1, <1>5, <2>2, <3>1, <3>2
  <2> QED  BY <1>6, <2>1, <2>2
<1>9. \A s \in allIn' : totalBet'[s] > 0
  <2> TAKE s \in allIn'
  <2>1. s \in Seats /\ s \in Dealt  BY <1>1, <1>4, <1>5 DEF Live
  <2>2. CASE s = active
    <3>1. CASE s \in allIn  BY <1>1, <1>3, <1>5, <2>1, <2>2, <3>1
    <3>2. CASE s \notin allIn
      <4>1. chips[s] = paid /\ totalBet'[s] = totalBet[s] + paid
        BY <1>1, <1>3, <2>1, <2>2, <3>2
      <4>2. chips[s] + totalBet[s] = hand.stacks[s] /\ hand.stacks[s] > 0
            /\ chips[s] \in Nat /\ totalBet[s] \in Nat
        BY <1>3, <1>4, <2>1
      <4> QED  BY <4>1, <4>2
    <3> QED  BY <3>1, <3>2
  <2>3. CASE s # active
    <3>1. s \in allIn /\ totalBet'[s] = totalBet[s]
      BY <1>1, <1>3, <2>1, <2>3
    <3> QED  BY <1>5, <3>1
  <2> QED  BY <2>2, <2>3
<1>10. Total(totalBet') = Total(totalBet) + paid
  <2>1. active \in Seats /\ totalBet' = [totalBet EXCEPT ![active] = @ + paid]
    BY <1>1, <1>4
  <2>2. Total([totalBet EXCEPT ![active] = @ + paid]) = Total(totalBet) + paid
    <3>1. totalBet \in [Seats -> Nat] /\ active \in Seats  BY <1>3, <2>1
    <3> QED  BY <3>1, TotalOfMore
  <2> QED  BY <2>1, <2>2
<1>11. CASE PassTurn(paid, bet, did, count, raise) \/ OpenStreet(paid, bet, did)
  <2>1. ~OneLeft /\ pot' = pot + paid /\ won' = Nothing /\ ~complete'
    BY <1>1, <1>11 DEF PassTurn, OpenStreet, MoneyInv, HandInv, PotIsPutIn
  <2>2. /\ \A s \in Seats : chips'[s] + totalBet'[s] = hand'.stacks[s]
        /\ pot' = Total(totalBet')
    BY <2>1 DEF HandInv, PotIsPutIn
  <2>3. ChipConservation'
    <3>1. Total(chips') + Total(totalBet')
            = Total([s \in Seats |-> chips'[s] + totalBet'[s]])
      BY <1>3, TotalOfSum
    <3>2. [s \in Seats |-> chips'[s] + totalBet'[s]] = hand.stacks
      BY <1>1, <1>4, <2>2
    <3> QED  BY <1>1, <2>2, <3>1, <3>2 DEF ChipConservation
  <2>4. \A s \in Live' \ allIn' : chips'[s] > 0
    <3> TAKE s \in Live' \ allIn'
    <3>1. s \in Live \ allIn /\ s \in Seats
      BY <1>1, <1>4, <1>6 DEF Live
    <3>2. chips[s] > 0 /\ chips[s] \in Nat /\ won'[s] = 0
      BY <1>3, <1>5, <2>1, <3>1 DEF Nothing
    <3>3. CASE s = active
      <4>1. chips[s] # paid /\ chips'[s] = chips[s] - paid + won'[s]
        BY <1>1, <3>1, <3>3
      <4> QED  BY <3>2, <3>3, <4>1
    <3>4. CASE s # active
      <4>1. chips'[s] = chips[s] - 0 + won'[s]  BY <1>1, <3>1, <3>4
      <4> QED  BY <3>2, <4>1
    <3> QED  BY <3>3, <3>4
  <2>5. active' \notin allIn'
    <3>1. CASE PassTurn(paid, bet, did, count, raise)
      <4>1. CanAct' \ {active} # {} /\ active' = NextActiveSeat(active, CanAct')
        BY <3>1 DEF PassTurn, RoundOver
      <4>2. CanAct' \in SUBSET Seats  BY <1>7 DEF CanAct
      <4>3. active' \in CanAct'
        BY <1>4, <4>1, <4>2, FirstClockwiseIn DEF NextActiveSeat
      <4> QED  BY <4>3 DEF CanAct
    <3>2. CASE OpenStreet(paid, bet, did)
      <4>1. CanAct' # {} /\ active' = FirstToActPostflop(hand.dealer, CanAct')
        BY <3>2 DEF OpenStreet, NoMoreBetting
      <4>2. CanAct' \in SUBSET Seats  BY <1>7 DEF CanAct
      <4>3. active' \in CanAct'
        BY <1>4, <4>1, <4>2, FirstClockwiseIn DEF FirstToActPostflop
      <4> QED  BY <4>3 DEF CanAct
    <3> QED  BY <1>11, <3>1, <3>2
  <2>6. AllInStaysLive'
    BY <1>8, <1>9, <2>1, <2>4, <2>5 DEF AllInStaysLive, OneLeft
  <2> QED  BY <2>3, <2>6 DEF MoneyInv
<1>12. CASE WinByFold(paid, bet, did, count, raise)
            \/ Showdown(paid, bet, did, count, raise)
  <2>1. complete' /\ pot' = 0  BY <1>12 DEF WinByFold, Showdown
  <2>2. Total(won') = Total(totalBet')
    <3>1. CASE WinByFold(paid, bet, did, count, raise)
      <4>1. PICK last \in Seats : Live' = {last}  BY <3>1 DEF WinByFold, OneLeft
      <4>2. won' = [s \in Seats |-> IF s = last THEN pot + paid ELSE 0]
        BY <3>1, <4>1 DEF WinByFold
      <4>3. pot + paid \in Nat  BY <1>3
      <4>4. Total(won') = pot + paid  BY <4>2, <4>3, TotalOfOne
      <4> QED  BY <1>3, <1>10, <4>4
    <3>2. CASE Showdown(paid, bet, did, count, raise)
      <4>1. ~OneLeft /\ won' = Winnings(totalBet', allIn', Live', rank', hand.dealer)
        BY <3>2 DEF Showdown
      <4>2. allIn' \in SUBSET Live'  BY <1>8, <4>1
      <4> QED  BY <1>3, <1>4, <1>7, <1>9, <4>1, <4>2, WinningsAddUp
    <3> QED  BY <1>12, <3>1, <3>2
  <2>3. \A s \in Seats : chips'[s] + totalBet'[s] = hand.stacks[s] + won'[s]
    <3> TAKE s \in Seats
    <3>1. chips[s] \in Nat /\ totalBet[s] \in Nat /\ won'[s] \in Nat
          /\ chips[s] + totalBet[s] = hand.stacks[s]
      BY <1>3
    <3>2. CASE s = active
      <4>1. chips'[s] = chips[s] - paid + won'[s] /\ totalBet'[s] = totalBet[s] + paid
        BY <1>1, <1>3, <3>2
      <4> QED  BY <3>1, <4>1
    <3>3. CASE s # active
      <4>1. chips'[s] = chips[s] - 0 + won'[s] /\ totalBet'[s] = totalBet[s]
        BY <1>1, <1>3, <3>3
      <4> QED  BY <3>1, <4>1
    <3> QED  BY <3>2, <3>3
  <2>4. Total(chips') + Total(totalBet') = Total(hand.stacks) + Total(won')
    <3>1. [s \in Seats |-> chips'[s] + totalBet'[s]]
            = [s \in Seats |-> hand.stacks[s] + won'[s]]
      BY <2>3
    <3>2. Total([s \in Seats |-> chips'[s] + totalBet'[s]])
            = Total(chips') + Total(totalBet')
      BY <1>3, TotalOfSum
    <3>3. Total([s \in Seats |-> hand.stacks[s] + won'[s]])
            = Total(hand.stacks) + Total(won')
      BY <1>3, <1>4, TotalOfSum
    <3> QED  BY <3>1, <3>2, <3>3
  <2>5. Total(chips') \in Nat /\ Total(totalBet') \in Nat
        /\ Total(hand.stacks) \in Nat
    BY <1>3, <1>4, TotalType
  <2>6. ChipConservation'
    BY <1>1, <2>1, <2>2, <2>4, <2>5 DEF ChipConservation
  <2>7. AllInStaysLive'  BY <2>1 DEF AllInStaysLive
  <2> QED  BY <2>6, <2>7 DEF MoneyInv
<1> QED  BY <1>2, <1>11, <1>12

\* What the chips need to know of a step.
LEMMA StepsAreMoves ==
  ASSUME HandInv, Next
  PROVE  \/ complete /\ UNCHANGED vars
         \/ \E paid \in Nat : \E did, count, raise :
              /\ paid <= chips[active]
              /\ folded' = folded \/ (paid = 0 /\ folded' = folded \cup {active})
              /\ Move(paid, did, count, raise)
BY StepsAreFair DEF FairMove

\* Every step of a hand keeps MoneyInv.
LEMMA NextMoneyInv == MoneyInv /\ [Next]_vars => MoneyInv'
<1> SUFFICES ASSUME MoneyInv, [Next]_vars PROVE MoneyInv'  OBVIOUS
<1>1. HandInv /\ HandInv'  BY NextHandInv DEF MoneyInv
<1>2. CASE UNCHANGED vars
  <2>1. AllInStaysLive'
    BY <1>2 DEF MoneyInv, AllInStaysLive, vars, bets, Live, Dealt
  <2>2. ChipConservation'  BY <1>2 DEF MoneyInv, ChipConservation, vars
  <2> QED  BY <1>1, <2>1, <2>2 DEF MoneyInv
<1>3. CASE Next
  <2>1. CASE \E paid \in Nat : \E did, count, raise :
               /\ paid <= chips[active]
               /\ folded' = folded \/ (paid = 0 /\ folded' = folded \cup {active})
               /\ Move(paid, did, count, raise)
    BY <1>1, <2>1, MoveKeepsMoney
  <2> QED  BY <1>1, <1>2, <1>3, <2>1, StepsAreMoves
<1> QED  BY <1>2, <1>3

\* When no ante takes a whole stack, no hand loses or makes a chip, however many
\* side pots and split pots it ends in.  MCPokerHandBigAnte shows that the
\* condition is needed.
THEOREM ChipsConserved ==
  ASSUME AntesLeaveChips  PROVE Spec => []ChipConservation
<1>1. Init => MoneyInv  BY InitMoneyInv
<1>2. MoneyInv /\ [Next]_vars => MoneyInv'  BY NextMoneyInv
<1>3. MoneyInv => ChipConservation  BY DEF MoneyInv
<1> QED  BY <1>1, <1>2, <1>3, PTL DEF Spec

-----------------------------------------------------------------------------
\* A move of a hand is a step of HandMoney: a stake, or the stake that settles.
LEMMA MoveIsMoneyStep ==
  ASSUME MoneyInv, MoneyInv',
         NEW paid \in Nat, paid <= chips[active],
         NEW did, NEW count, NEW raise,
         Move(paid, did, count, raise)
  PROVE  Money!Stake \/ Money!Settle
<1> DEFINE bet == [currentBet EXCEPT ![active] = @ + paid]
<1>1. /\ ~complete /\ hand' = hand
      /\ chips' = [s \in Seats |->
                     chips[s] - (IF s = active THEN paid ELSE 0) + won'[s]]
  BY DEF Move
<1>2. \/ WinByFold(paid, bet, did, count, raise)
      \/ PassTurn(paid, bet, did, count, raise)
      \/ OpenStreet(paid, bet, did)
      \/ Showdown(paid, bet, did, count, raise)
  BY DEF Move
<1> HIDE DEF bet
<1>3. /\ chips \in [Seats -> Nat] /\ chips' \in [Seats -> Nat]
      /\ won' \in [Seats -> Nat] /\ pot \in Nat
  BY DEF MoneyInv, HandInv, TypeOK
<1>4. active \in Seats  BY TurnIs DEF MoneyInv
<1>5. paid \in 0..chips[active]  BY <1>3, <1>4
<1> DEFINE after == Money!After(active, paid)
<1>6. \A s \in Seats : after[s] = chips[s] - (IF s = active THEN paid ELSE 0)
  BY <1>3, <1>4 DEF Money!After
<1>7. CASE PassTurn(paid, bet, did, count, raise) \/ OpenStreet(paid, bet, did)
  <2>1. /\ pot' = pot + paid /\ won' = Nothing /\ complete' = complete
    BY <1>1, <1>7 DEF PassTurn, OpenStreet, MoneyInv, HandInv, PotIsPutIn
  <2>2. chips' = after
    <3>1. \A s \in Seats : chips'[s] = after[s]
      <4> TAKE s \in Seats
      <4>1. won'[s] = 0 /\ chips[s] \in Nat  BY <1>3, <2>1 DEF Nothing
      <4>2. chips'[s] = chips[s] - (IF s = active THEN paid ELSE 0) + won'[s]
        BY <1>1
      <4> HIDE DEF after
      <4> QED  BY <1>6, <4>1, <4>2
    <3>2. after = [s \in Seats |-> after[s]]  BY <1>3 DEF Money!After
    <3> QED  BY <1>3, <3>1, <3>2
  <2>3. Money!Stake  BY <1>1, <1>4, <1>5, <2>1, <2>2
    DEF Money!Stake, Money!Seats, Seats
  <2> QED  BY <2>3
<1>8. CASE WinByFold(paid, bet, did, count, raise)
            \/ Showdown(paid, bet, did, count, raise)
  <2>1. complete' = TRUE /\ pot' = 0  BY <1>8 DEF WinByFold, Showdown
  <2>2. Total(chips') = Total(chips) + pot
    <3>1. /\ Total(chips) + pot = Total(hand.stacks)
          /\ Total(chips') + pot' = Total(hand.stacks)
      BY <1>1 DEF MoneyInv, ChipConservation
    <3>2. Total(chips') \in Nat /\ Total(chips) \in Nat  BY <1>3, TotalType
    <3> QED  BY <1>3, <2>1, <3>1, <3>2
  <2>3. \A s \in Seats : chips'[s] >= after[s]
    <3> TAKE s \in Seats
    <3>1. chips[s] \in Nat /\ won'[s] \in Nat  BY <1>3
    <3>2. chips'[s] = chips[s] - (IF s = active THEN paid ELSE 0) + won'[s]
      BY <1>1
    <3> HIDE DEF after
    <3> QED  BY <1>6, <3>1, <3>2
  <2>4. Money!Total(chips') = Money!Total(chips) + pot
    BY <2>2 DEF Money!Total, Total
  <2> HIDE DEF after
  <2>5. /\ ~complete
        /\ \A t \in Seats : chips'[t] >= after[t]
        /\ Money!Total(chips') = Money!Total(chips) + pot
        /\ pot' = 0 /\ complete' = TRUE
    BY <1>1, <2>1, <2>3, <2>4
  <2>6. Money!Seats = Seats  BY DEF Money!Seats, Seats
  <2>7. Money!Settle  BY <1>4, <1>5, <2>5, <2>6 DEF Money!Settle, after
  <2> QED  BY <2>7
<1> QED  BY <1>2, <1>7, <1>8

\* The engine implements HandMoney: chips move only from the seat to act into the
\* pot, and once, at the end, from the pot to the seats, all of them.
THEOREM MoneyPromiseKept ==
  ASSUME AntesLeaveChips  PROVE Spec => KeepsMoneyPromise
<1>1. Init => MoneyInv  BY InitMoneyInv
<1>2. MoneyInv /\ [Next]_vars => MoneyInv'  BY NextMoneyInv
<1>3. Init => Money!Init
  <2> SUFFICES ASSUME Init PROVE Money!Init  OBVIOUS
  <2>1. chips \in [Seats -> Nat] /\ pot \in Nat  BY <1>1 DEF MoneyInv, HandInv, TypeOK
  <2>2. complete = FALSE  BY DEF Init
  <2> QED  BY <2>1, <2>2 DEF Money!Init, Money!Seats, Seats
<1>4. MoneyInv /\ MoneyInv' /\ [Next]_vars
        => [Money!Stake \/ Money!Settle]_(Money!moneyVars)
  <2> SUFFICES ASSUME MoneyInv, MoneyInv', [Next]_vars
               PROVE  [Money!Stake \/ Money!Settle]_(Money!moneyVars)
    OBVIOUS
  <2>1. CASE UNCHANGED vars  BY <2>1 DEF vars, Money!moneyVars
  <2>2. CASE Next
    <3>1. HandInv  BY DEF MoneyInv
    <3>2. CASE \E paid \in Nat : \E did, count, raise :
                 /\ paid <= chips[active]
                 /\ folded' = folded \/ (paid = 0 /\ folded' = folded \cup {active})
                 /\ Move(paid, did, count, raise)
      BY <3>2, MoveIsMoneyStep
    <3> QED  BY <2>1, <2>2, <3>1, <3>2, StepsAreMoves
  <2> QED  BY <2>1, <2>2
<1> QED  BY <1>1, <1>2, <1>3, <1>4, PTL DEF Spec, KeepsMoneyPromise, Money!Spec

-----------------------------------------------------------------------------
(***************************************************************************)
(* Fairness of the betting: who may still act has put in as much as anybody *)
(* whenever a round ends, and what that means for the winnings.             *)
(***************************************************************************)
\* The seats of S have put in as much as any seat.
AllPutInMost(S, put) == \A s \in S : \A t \in Seats : put[t] <= put[s]

\* Before the street that is played, all seats that can still act had put in the
\* same, and nobody more.
EvenBefore ==
  ~complete => \A s \in CanAct : \A t \in Seats :
                 totalBet[t] - currentBet[t] <= totalBet[s] - currentBet[s]

\* What the hand shows down for.
PaidFairly ==
  ShownDown => /\ won = Winnings(totalBet, allIn, Live, rank, hand.dealer)
               /\ AllPutInMost(CanAct, totalBet)
               /\ \A s \in Seats : Live # {s}

\* With what every player has put in, and is paid.
FairInv == HandInv /\ EvenBefore /\ PaidFairly

\* Seats that are not all-in after the blinds paid the same ante.
LEMMA InitFairInv == ASSUME Init PROVE FairInv
<1>1. HandInv  BY InitHandInv
<1>2. /\ hand \in Setups /\ ~complete
      /\ allIn = {s \in Dealt : chips[s] = 0 /\ totalBet[s] > 0}
  BY DEF Init
<1>3. \A s \in Seats : /\ currentBet[s] = BlindPaid(hand, s)
                        /\ totalBet[s] = AntePaid(hand, s) + BlindPaid(hand, s)
                        /\ chips[s] = hand.stacks[s] - totalBet[s]
  <2>1. /\ currentBet = [s \in Seats |-> BlindPaid(hand, s)]
        /\ totalBet = [s \in Seats |-> AntePaid(hand, s) + BlindPaid(hand, s)]
        /\ chips = [s \in Seats |-> hand.stacks[s] - totalBet[s]]
    BY DEF Init
  <2> QED  BY <2>1
<1>4. ASSUME NEW s \in Seats
      PROVE  /\ AntePaid(hand, s) \in Nat /\ BlindPaid(hand, s) \in Nat
             /\ AntePaid(hand, s) + BlindPaid(hand, s) <= hand.stacks[s]
             /\ hand.stacks[s] \in Nat /\ hand.ante \in Nat
  BY <1>2, PostingsAre, SetupIs
<1>6. ASSUME NEW s \in Seats
      PROVE  /\ AntePaid(hand, s) = hand.ante \/ AntePaid(hand, s) = hand.stacks[s]
             /\ AntePaid(hand, s) <= hand.ante
  BY <1>4 DEF AntePaid, Min2
<1>7. ASSUME NEW s \in Seats
      PROVE  totalBet[s] - currentBet[s] = AntePaid(hand, s)
  BY <1>3, <1>4
<1>5. ASSUME NEW s \in CanAct, NEW t \in Seats
      PROVE  totalBet[t] - currentBet[t] <= totalBet[s] - currentBet[s]
  <2>1. s \in Dealt /\ s \notin allIn /\ s \in Seats /\ hand.stacks[s] > 0
    BY <1>2, <1>5, SetupIs DEF CanAct, Live, Dealt
  <2>2. AntePaid(hand, s) = hand.ante
    <3> SUFFICES ASSUME AntePaid(hand, s) = hand.stacks[s]  PROVE FALSE
      BY <1>6, <2>1
    <3>1. /\ totalBet[s] = AntePaid(hand, s) + BlindPaid(hand, s)
          /\ chips[s] = hand.stacks[s] - totalBet[s]
      BY <1>3, <2>1
    <3>2. /\ AntePaid(hand, s) \in Nat /\ BlindPaid(hand, s) \in Nat
          /\ AntePaid(hand, s) + BlindPaid(hand, s) <= hand.stacks[s]
          /\ hand.stacks[s] \in Nat
      BY <1>4, <2>1
    <3>3. totalBet[s] = hand.stacks[s] /\ chips[s] = 0  BY <3>1, <3>2
    <3>4. s \in Dealt /\ chips[s] = 0 /\ totalBet[s] > 0  BY <2>1, <3>3
    <3>5. s \in {u \in Dealt : chips[u] = 0 /\ totalBet[u] > 0}  BY <3>4
    <3> QED  BY <1>2, <2>1, <3>5
  <2>3. /\ totalBet[s] - currentBet[s] = hand.ante
        /\ totalBet[t] - currentBet[t] = AntePaid(hand, t)
    BY <1>7, <2>1, <2>2
  <2>4. AntePaid(hand, t) <= hand.ante  BY <1>6
  <2> QED  BY <2>3, <2>4
<1> QED  BY <1>1, <1>2, <1>5 DEF FairInv, EvenBefore, PaidFairly, ShownDown

\* Whoever can still act after a fair move is the seat that moved, or could act
\* before it.
LEMMA FairMoveIs ==
  ASSUME FairInv, NEW paid \in Nat, NEW did, NEW count, NEW raise,
         FairMove(paid, did, count, raise)
  PROVE  /\ ~complete /\ hand' = hand /\ active \in Seats /\ Dealt' = Dealt
         /\ Live' \in SUBSET Seats /\ CanAct' = Live' \ allIn' /\ CanAct' \subseteq CanAct
         /\ currentBet \in [Seats -> Nat] /\ totalBet \in [Seats -> Nat]
         /\ totalBet' = [totalBet EXCEPT ![active] = @ + paid]
<1>1. /\ ~complete /\ hand' = hand
      /\ totalBet' = [totalBet EXCEPT ![active] = @ + paid]
      /\ allIn \subseteq allIn' /\ folded \subseteq folded'
  BY DEF FairMove, Move
<1>2. active \in Seats /\ Dealt \in SUBSET Seats  BY TurnIs DEF FairInv
<1>3. currentBet \in [Seats -> Nat] /\ totalBet \in [Seats -> Nat]
  BY DEF FairInv, HandInv, TypeOK
<1> QED  BY <1>1, <1>2, <1>3 DEF CanAct, Live, Dealt

\* What a seat has put in before the street does not change within it.
LEMMA BeforeStays ==
  ASSUME NEW total \in [Seats -> Nat], NEW current \in [Seats -> Nat],
         NEW mover \in Seats, NEW paid \in Nat, NEW s \in Seats
  PROVE  [total EXCEPT ![mover] = @ + paid][s] - [current EXCEPT ![mover] = @ + paid][s]
           = total[s] - current[s]
<1>1. total[s] \in Nat /\ current[s] \in Nat  OBVIOUS
<1>2. CASE s = mover  BY <1>1, <1>2
<1>3. CASE s # mover  BY <1>3
<1> QED  BY <1>2, <1>3

\* When a round is over, all seats that can still act have put in as much as any.
LEMMA RoundEndsEven ==
  ASSUME FairInv, NEW paid \in Nat, NEW did, NEW count, NEW raise,
         FairMove(paid, did, count, raise),
         RoundOver([currentBet EXCEPT ![active] = @ + paid], did)
  PROVE  AllPutInMost(CanAct', totalBet')
<1> DEFINE bet == [currentBet EXCEPT ![active] = @ + paid]
<1>1. /\ ~complete /\ active \in Seats /\ CanAct' \subseteq CanAct /\ CanAct' \in SUBSET Seats
      /\ currentBet \in [Seats -> Nat] /\ totalBet \in [Seats -> Nat]
      /\ totalBet' = [totalBet EXCEPT ![active] = @ + paid]
  BY FairMoveIs
<1>2. bet \in [Seats -> Nat] /\ totalBet' \in [Seats -> Nat]  BY <1>1
<1>3. \A s \in Seats : totalBet'[s] - bet[s] = totalBet[s] - currentBet[s]
  BY <1>1, BeforeStays
<1>4. \A s \in CanAct' : bet[s] = Highest(bet)
  <2>1. \A s \in CanAct' \cap did : bet[s] = Highest(bet)  BY DEF FairMove
  <2>2. active \in CanAct' => active \in did  BY DEF FairMove
  <2>3. \/ \A s \in CanAct' : s \in did /\ bet[s] = Highest(bet)
        \/ CanAct' \ {active} = {}
    BY DEF RoundOver
  <2> HIDE DEF bet
  <2> QED  BY <2>1, <2>2, <2>3
<1> HIDE DEF bet
<1>5. \A s \in Seats : bet[s] <= Highest(bet)  BY <1>2, HighestIs
<1>6. ASSUME NEW s \in CanAct', NEW t \in Seats  PROVE totalBet'[t] <= totalBet'[s]
  <2>1. s \in CanAct /\ s \in Seats  BY <1>1
  <2>2. totalBet[t] - currentBet[t] <= totalBet[s] - currentBet[s]
    BY <1>1, <2>1 DEF FairInv, EvenBefore
  <2>3. totalBet'[t] - bet[t] <= totalBet'[s] - bet[s]  BY <1>3, <2>1, <2>2
  <2>4. bet[t] <= bet[s]  BY <1>4, <1>5
  <2>5. totalBet'[t] \in Nat /\ totalBet'[s] \in Nat /\ bet[t] \in Nat /\ bet[s] \in Nat
    BY <1>2, <2>1
  <2> QED  BY <2>3, <2>4, <2>5
<1> QED  BY <1>6 DEF AllPutInMost

\* Every fair move keeps FairInv.
LEMMA MoveKeepsFairInv ==
  ASSUME FairInv, HandInv', NEW paid \in Nat, NEW did, NEW count, NEW raise,
         FairMove(paid, did, count, raise)
  PROVE  FairInv'
<1> DEFINE bet == [currentBet EXCEPT ![active] = @ + paid]
<1>1. /\ ~complete /\ hand' = hand /\ active \in Seats /\ CanAct' \subseteq CanAct
      /\ CanAct' \in SUBSET Seats /\ Live' \in SUBSET Seats
      /\ currentBet \in [Seats -> Nat] /\ totalBet \in [Seats -> Nat]
      /\ totalBet' = [totalBet EXCEPT ![active] = @ + paid]
  BY FairMoveIs
<1>2. \/ WinByFold(paid, bet, did, count, raise)
      \/ PassTurn(paid, bet, did, count, raise)
      \/ OpenStreet(paid, bet, did)
      \/ Showdown(paid, bet, did, count, raise)
  BY DEF FairMove, Move
<1>3. \A s \in Seats : totalBet'[s] - bet[s] = totalBet[s] - currentBet[s]
  BY <1>1, BeforeStays
<1>4. RoundOver(bet, did) => AllPutInMost(CanAct', totalBet')  BY RoundEndsEven
<1> HIDE DEF bet
<1>5. CASE WinByFold(paid, bet, did, count, raise)
  <2>1. complete' /\ street' = street  BY <1>5 DEF WinByFold
  <2>2. street # "SHOWDOWN"  BY <1>1 DEF FairInv, HandInv, BoardFitsStreet
  <2> QED  BY <2>1, <2>2 DEF FairInv, EvenBefore, PaidFairly, ShownDown
<1>6. CASE PassTurn(paid, bet, did, count, raise)
  <2>1. ~complete' /\ currentBet' = bet  BY <1>1, <1>6 DEF PassTurn, KeepRound
  <2>2. EvenBefore'
    BY <1>1, <1>3, <2>1 DEF FairInv, EvenBefore
  <2> QED  BY <2>1, <2>2 DEF FairInv, PaidFairly, ShownDown
<1>7. CASE OpenStreet(paid, bet, did)
  <2>1. ~complete' /\ currentBet' = Nothing /\ RoundOver(bet, did)
    BY <1>1, <1>7 DEF OpenStreet, FreshRound, KeepRound
  <2>2. \A s \in Seats : totalBet'[s] - currentBet'[s] = totalBet'[s]
    <3>1. totalBet' \in [Seats -> Nat]  BY <1>1
    <3> QED  BY <2>1, <3>1 DEF Nothing
  <2>3. EvenBefore'
    BY <1>1, <1>4, <2>1, <2>2 DEF EvenBefore, AllPutInMost
  <2> QED  BY <2>1, <2>3 DEF FairInv, PaidFairly, ShownDown
<1>8. CASE Showdown(paid, bet, did, count, raise)
  <2>1. /\ complete' /\ RoundOver(bet, did) /\ ~OneLeft
        /\ won' = Winnings(totalBet', allIn', Live', rank', hand'.dealer)
    BY <1>1, <1>8 DEF Showdown
  <2> QED  BY <1>4, <2>1 DEF FairInv, EvenBefore, PaidFairly, OneLeft
<1> QED  BY <1>2, <1>5, <1>6, <1>7, <1>8

\* Every step of a hand keeps FairInv.
LEMMA NextFairInv == FairInv /\ [Next]_vars => FairInv'
<1> SUFFICES ASSUME FairInv, [Next]_vars PROVE FairInv'  OBVIOUS
<1>1. HandInv /\ HandInv'  BY NextHandInv DEF FairInv
<1>2. CASE UNCHANGED vars
  <2>1. /\ Live' = Live /\ CanAct' = CanAct /\ ShownDown' = ShownDown
        /\ UNCHANGED <<hand, totalBet, currentBet, allIn, rank, won, complete>>
    BY <1>2 DEF vars, bets, Live, CanAct, Dealt, ShownDown
  <2> QED  BY <1>1, <2>1 DEF FairInv, EvenBefore, PaidFairly
<1>3. CASE Next
  <2>1. CASE \E paid, count, raise \in Nat : \E did : FairMove(paid, did, count, raise)
    BY <1>1, <2>1, MoveKeepsFairInv
  <2> QED  BY <1>1, <1>2, <1>3, <2>1, StepsAreFair
<1> QED  BY <1>2, <1>3

\* Every hand keeps to FairInv.
THEOREM FairInvHolds == Spec => []FairInv
<1> QED  BY InitFairInv, NextFairInv, PTL DEF Spec

\* Nobody sees the next card, or the showdown, cheaper than anybody else.
THEOREM RoundsEndMatched == Spec => RoundEndsMatched
<1>1. ASSUME FairInv, [Next]_vars
      PROVE  [street' # street =>
                /\ CanAct' \ {active} \subseteq acted
                /\ \A s \in CanAct' : \A t \in Seats : totalBet'[t] <= totalBet'[s]]_vars
  <2> SUFFICES ASSUME Next, street' # street
               PROVE  /\ CanAct' \ {active} \subseteq acted
                      /\ \A s \in CanAct' : \A t \in Seats : totalBet'[t] <= totalBet'[s]
    BY <1>1
  <2>1. HandInv  BY <1>1 DEF FairInv
  <2>1a. PICK paid \in Nat, count \in Nat, raise \in Nat :
            \E did : FairMove(paid, did, count, raise)
    <3>1. street' = street \/ ~(UNCHANGED vars)  BY DEF vars
    <3> QED  BY <2>1, <3>1, StepsAreFair
  <2>2. PICK did : FairMove(paid, did, count, raise)  BY <2>1a
  <2> DEFINE bet == [currentBet EXCEPT ![active] = @ + paid]
  <2>3. RoundOver(bet, did)
    <3>1. \/ WinByFold(paid, bet, did, count, raise)
          \/ PassTurn(paid, bet, did, count, raise)
          \/ OpenStreet(paid, bet, did)
          \/ Showdown(paid, bet, did, count, raise)
      BY <2>2 DEF FairMove, Move
    <3> HIDE DEF bet
    <3> QED  BY <3>1 DEF WinByFold, PassTurn, OpenStreet, Showdown
  <2>4. AllPutInMost(CanAct', totalBet')  BY <1>1, <2>2, <2>3, RoundEndsEven
  <2>5. did \subseteq acted \cup {active}  BY <2>2 DEF FairMove
  <2> HIDE DEF bet
  <2>6. CanAct' \ {active} \subseteq acted  BY <2>3, <2>5 DEF RoundOver
  <2> QED  BY <2>4, <2>6 DEF AllPutInMost
<1> QED  BY <1>1, FairInvHolds, PTL DEF Spec, RoundEndsMatched

-----------------------------------------------------------------------------
\* What the facts about Winnings in ShowdownProofs ask for, at a showdown.
LEMMA AtShowdown ==
  ASSUME FairInv, ShownDown
  PROVE  /\ totalBet \in [Seats -> Nat] /\ rank \in [Seats -> Nat] /\ won \in [Seats -> Nat]
         /\ Live \in SUBSET Seats /\ allIn \in SUBSET Seats /\ hand.dealer \in Seats
         /\ won = Winnings(totalBet, allIn, Live, rank, hand.dealer)
         /\ \A s \in Live : s \in allIn \/ \A t \in Seats : totalBet[t] <= totalBet[s]
         /\ \A s \in Seats : Live # {s}
<1>1. /\ hand \in Setups /\ allIn \subseteq Dealt
      /\ totalBet \in [Seats -> Nat] /\ rank \in [Seats -> Nat] /\ won \in [Seats -> Nat]
  BY DEF FairInv, HandInv, TypeOK
<1>2. Dealt \in SUBSET Seats /\ hand.dealer \in Seats  BY <1>1, SetupIs DEF Dealt
<1>3. /\ won = Winnings(totalBet, allIn, Live, rank, hand.dealer)
      /\ \A s \in CanAct : \A t \in Seats : totalBet[t] <= totalBet[s]
      /\ \A s \in Seats : Live # {s}
  BY DEF FairInv, PaidFairly, AllPutInMost
<1> QED  BY <1>1, <1>2, <1>3 DEF Live, CanAct

\* A live seat wins nothing from chips beyond its own stake while another live seat
\* put in more.
THEOREM StakeBoundsAll == Spec => []StakeBoundsWinnings
<1>1. ASSUME FairInv  PROVE StakeBoundsWinnings
  <2> SUFFICES ASSUME ShownDown, NEW s \in Live, NEW t \in Live, totalBet[s] < totalBet[t]
               PROVE  won[s] <= Matched(s)
    BY DEF StakeBoundsWinnings
  <2>1. s \in allIn
    <3>1. t \in Seats /\ totalBet[t] \in Nat /\ totalBet[s] \in Nat  BY <1>1, AtShowdown
    <3>2. ~(totalBet[t] <= totalBet[s])  BY <3>1
    <3> QED  BY <1>1, <3>1, <3>2, AtShowdown
  <2> QED  BY <1>1, <2>1, AtShowdown, StakeBounds DEF Matched
<1> QED  BY <1>1, FairInvHolds, PTL

\* A seat that beats every other live seat collects everything it matched.
THEOREM BestCollectsAll == Spec => []BestHandCollects
<1>1. ASSUME FairInv  PROVE BestHandCollects
  <2> SUFFICES ASSUME ShownDown, NEW s \in Live, \A t \in Live \ {s} : rank[t] < rank[s]
               PROVE  won[s] >= Matched(s)
    BY DEF BestHandCollects
  <2> QED  BY <1>1, AtShowdown, BestCollects DEF Matched
<1> QED  BY <1>1, FairInvHolds, PTL

\* A seat still in the hand gets back what nobody called, whoever wins.
THEOREM UncalledComesBack == Spec => []UncalledBetReturns
<1>1. ASSUME FairInv  PROVE UncalledBetReturns
  <2> SUFFICES ASSUME ShownDown, NEW s \in Live  PROVE won[s] >= Uncalled(s)
    BY DEF UncalledBetReturns
  <2> DEFINE others == [totalBet EXCEPT ![s] = 0]
             h == Highest(others)
  <2>1. /\ totalBet \in [Seats -> Nat] /\ s \in Seats /\ won[s] \in Nat /\ totalBet[s] \in Nat
        /\ Live \in SUBSET Seats
    BY <1>1, AtShowdown
  <2>2. others \in [Seats -> Nat] /\ \A t \in Seats \ {s} : others[t] = totalBet[t]
    BY <2>1
  <2> HIDE DEF others
  <2>3. h \in Nat /\ \A t \in Seats \ {s} : totalBet[t] <= h  BY <2>2, HighestIs
  <2>4. Uncalled(s) = Max2(0, totalBet[s] - h)  BY DEF Uncalled, others
  <2> HIDE DEF h
  <2>5. CASE totalBet[s] <= h  BY <2>1, <2>3, <2>4, <2>5 DEF Max2
  <2>6. CASE h < totalBet[s]
    <3>1. \A t \in Live \ {s} : t \in allIn
      <4> TAKE t \in Live \ {s}
      <4>1. t \in Seats /\ totalBet[t] \in Nat /\ ~(totalBet[s] <= totalBet[t])
        BY <2>1, <2>3, <2>6
      <4> QED  BY <1>1, <2>1, <4>1, AtShowdown
    <3>2. won[s] >= totalBet[s] - h
      <4>1. won = Winnings(totalBet, allIn, Live, rank, hand.dealer)  BY <1>1, AtShowdown
      <4>2. Winnings(totalBet, allIn, Live, rank, hand.dealer)[s] >= totalBet[s] - h
        BY <1>1, <2>1, <2>3, <2>6, <3>1, AtShowdown, UncalledReturns
      <4> QED  BY <4>1, <4>2
    <3>3. Uncalled(s) = totalBet[s] - h  BY <2>1, <2>3, <2>4, <2>6 DEF Max2
    <3> QED  BY <3>2, <3>3
  <2> QED  BY <2>1, <2>3, <2>5, <2>6
<1> QED  BY <1>1, FairInvHolds, PTL

\* Of two seats with equal hands and equal stakes, the one further from the dealer's
\* left never takes more.
THEOREM OddChipsGoLeftAll == Spec => []OddChipsGoLeft
<1>1. ASSUME FairInv  PROVE OddChipsGoLeft
  <2> SUFFICES ASSUME ShownDown, NEW s \in Live, NEW t \in Live,
                      rank[s] = rank[t], totalBet[s] = totalBet[t],
                      StepsClockwise(hand.dealer, s) < StepsClockwise(hand.dealer, t)
               PROVE  won[s] >= won[t]
    BY DEF OddChipsGoLeft
  <2> QED  BY <1>1, AtShowdown, NearerWinsMore
<1> QED  BY <1>1, FairInvHolds, PTL

-----------------------------------------------------------------------------
(***************************************************************************)
(* Every hand ends: no seat is asked twice before another has bet, because  *)
(* going round from the seat to act, those still to answer come first.      *)
(***************************************************************************)
\* The seats still to answer, going round from the seat to act, come before those
\* that have answered.
TurnOrder ==
  ~complete =>
    /\ active \notin acted
    /\ \A s \in CanAct \cap acted : \A t \in CanAct \ acted :
         t = active \/ StepsClockwise(active, t) < StepsClockwise(active, s)

\* With whose turn it is.
OrderInv == HandInv /\ TurnOrder

\* The order of the seats is the same from the next seat on.
LEMMA NextSeatKeepsOrder ==
  \A a, b, x, y \in Seats :
    /\ StepsClockwise(a, b) <= StepsClockwise(a, x)
    /\ StepsClockwise(a, x) < StepsClockwise(a, y)
    /\ x # b
    => StepsClockwise(b, x) < StepsClockwise(b, y)
BY DEF StepsClockwise, Seats

\* A seat is the last one, going round from itself.
LEMMA SelfIsLast ==
  \A a, t \in Seats : t # a => StepsClockwise(a, t) < StepsClockwise(a, a)
BY DEF StepsClockwise, Seats

\* What a move does to marks and turn.
LEMMA MarksAfter ==
  ASSUME HandInv, NEW paid \in Nat, NEW did, NEW count, NEW raise,
         FairMove(paid, did, count, raise)
  PROVE  /\ ~complete /\ active \in Live /\ Live \in SUBSET Seats /\ Live' \in SUBSET Seats
         /\ CanAct' \subseteq CanAct /\ Live' \subseteq Live /\ CanAct \subseteq Seats
         /\ active \in CanAct' => active \in did
         /\ \/ did \cap CanAct' \subseteq {active}
            \/ did \ {active} = acted \ {active}
<1>1. /\ ~complete /\ hand' = hand /\ hand \in Setups /\ IsAMove(paid, did)
      /\ allIn' = IF chips[active] = paid THEN allIn \cup {active} ELSE allIn
  BY DEF FairMove, Move, HandInv, TypeOK
<1>2. Dealt' = Dealt /\ Dealt \in SUBSET Seats /\ active \in Live
  BY <1>1, SetupIs DEF Dealt, HandInv, TurnIsLive
<1>3. folded \subseteq folded' /\ allIn \subseteq allIn'
  BY <1>1 DEF IsAMove
<1>4. /\ Live' = Dealt \ folded' /\ Live = Dealt \ folded
      /\ CanAct' = Live' \ allIn' /\ CanAct = Live \ allIn
  BY <1>2 DEF CanAct, Live
<1>5. active \in CanAct' => active \in did  BY DEF FairMove
<1>6. \/ did \cap CanAct' \subseteq {active}
      \/ did \ {active} = acted \ {active}
  <2>1. CASE did = MustAnswer \cup {active}
    BY <1>3, <1>4, <2>1 DEF MustAnswer
  <2>2. CASE did = acted \/ did = acted \cup {active}  BY <2>2
  <2> QED  BY <1>1, <2>1, <2>2 DEF IsAMove
<1> QED  BY <1>1, <1>2, <1>3, <1>4, <1>5, <1>6

\* A hand starts with nobody marked, and so does a street.
LEMMA InitOrderInv == ASSUME Init PROVE OrderInv
<1>1. HandInv  BY InitHandInv
<1>2. acted = {}  BY DEF Init
<1> QED  BY <1>1, <1>2 DEF OrderInv, TurnOrder

\* When the turn passes it goes to a seat that has not answered, if there is one, and
\* there is one, or the round would be over.
LEMMA PassKeepsOrder ==
  ASSUME OrderInv, NEW paid \in Nat, NEW did, NEW count, NEW raise,
         FairMove(paid, did, count, raise),
         PassTurn(paid, [currentBet EXCEPT ![active] = @ + paid], did, count, raise)
  PROVE  TurnOrder'
<1> DEFINE bet == [currentBet EXCEPT ![active] = @ + paid]
           a == active
           b == active'
           others == CanAct' \ {a}
<1>1. /\ ~complete /\ a \in Seats /\ CanAct' \subseteq CanAct /\ CanAct \subseteq Seats
      /\ a \in CanAct' => a \in did
      /\ \/ did \cap CanAct' \subseteq {a}
         \/ did \ {a} = acted \ {a}
  BY MarksAfter DEF OrderInv
<1>2. /\ a \notin acted
      /\ \A s \in CanAct \cap acted : \A t \in CanAct \ acted :
           t = a \/ StepsClockwise(a, t) < StepsClockwise(a, s)
  BY <1>1 DEF OrderInv, TurnOrder
<1>3. ~RoundOver(bet, did) /\ acted' = did /\ b = NextActiveSeat(a, CanAct')
  BY DEF PassTurn, KeepRound
<1>4. \A s \in CanAct' \cap did : bet[s] = Highest(bet)  BY DEF FairMove
<1> HIDE DEF bet
<1>5. others # {} /\ \E u \in CanAct' : u \notin did
  BY <1>3, <1>4 DEF RoundOver
<1>6. others \in SUBSET Seats  BY <1>1
<1>7. /\ b \in others
      /\ \A t \in others : StepsClockwise(a, b) <= StepsClockwise(a, t)
  BY <1>1, <1>3, <1>5, <1>6, FirstClockwiseIn DEF NextActiveSeat
<1>8. PICK u \in CanAct' : u \notin did  BY <1>5
<1>9. b \notin did
  <2> SUFFICES ASSUME b \in did PROVE FALSE  OBVIOUS
  <2>1. b \in acted /\ did \ {a} = acted \ {a}  BY <1>1, <1>7
  <2>2. u # a /\ u \notin acted /\ u \in others  BY <1>1, <1>8, <2>1
  <2>3. StepsClockwise(a, u) < StepsClockwise(a, b)  BY <1>1, <1>2, <1>7, <2>1, <2>2
  <2>4. StepsClockwise(a, b) <= StepsClockwise(a, u)  BY <1>7, <2>2
  <2>5. StepsClockwise(a, u) \in 0..5 /\ StepsClockwise(a, b) \in 0..5
    BY <1>1, <1>7, <1>8, StepsType
  <2> QED  BY <2>3, <2>4, <2>5
<1>10. ASSUME NEW s \in CanAct' \cap did, NEW t \in CanAct' \ did, t # b
       PROVE  StepsClockwise(b, t) < StepsClockwise(b, s)
  <2>1. t \in others /\ t \in Seats /\ s \in Seats /\ b \in Seats  BY <1>1, <1>7, <1>10
  <2>2. StepsClockwise(a, b) <= StepsClockwise(a, t)  BY <1>7, <2>1
  <2>3. StepsClockwise(a, t) < StepsClockwise(a, s)
    <3>1. CASE s = a  BY <1>1, <2>1, <3>1, SelfIsLast
    <3>2. CASE s # a
      <4>1. did \ {a} = acted \ {a}  BY <1>1, <1>10, <3>2
      <4>2. s \in CanAct \cap acted /\ t \in CanAct \ acted /\ t # a
        BY <1>1, <1>10, <2>1, <3>2, <4>1
      <4> QED  BY <1>2, <4>2
    <3> QED  BY <3>1, <3>2
  <2> QED  BY <1>1, <1>10, <2>1, <2>2, <2>3, NextSeatKeepsOrder
<1> QED  BY <1>3, <1>9, <1>10 DEF TurnOrder

\* Every step of a hand keeps OrderInv.
LEMMA NextOrderInv == OrderInv /\ [Next]_vars => OrderInv'
<1> SUFFICES ASSUME OrderInv, [Next]_vars PROVE OrderInv'  OBVIOUS
<1>1. HandInv /\ HandInv'  BY NextHandInv DEF OrderInv
<1>2. CASE UNCHANGED vars
  <2>1. CanAct' = CanAct  BY <1>2 DEF vars, bets, CanAct, Live, Dealt
  <2> QED  BY <1>1, <1>2, <2>1 DEF vars, bets, OrderInv, TurnOrder
<1>3. CASE Next /\ ~(UNCHANGED vars)
  <2>1. PICK paid \in Nat, count \in Nat, raise \in Nat :
           \E did : FairMove(paid, did, count, raise)
    BY <1>1, <1>3, StepsAreFair
  <2>2. PICK did : FairMove(paid, did, count, raise)  BY <2>1
  <2> DEFINE bet == [currentBet EXCEPT ![active] = @ + paid]
  <2>3. \/ WinByFold(paid, bet, did, count, raise)
        \/ PassTurn(paid, bet, did, count, raise)
        \/ OpenStreet(paid, bet, did)
        \/ Showdown(paid, bet, did, count, raise)
    BY <2>2 DEF FairMove, Move
  <2>4. PassTurn(paid, bet, did, count, raise) => TurnOrder'
    BY <2>2, PassKeepsOrder
  <2> HIDE DEF bet
  <2>5. complete' \/ acted' = {} \/ PassTurn(paid, bet, did, count, raise)
    BY <2>3 DEF WinByFold, Showdown, OpenStreet, FreshRound, KeepRound
  <2>6. TurnOrder'  BY <2>4, <2>5 DEF TurnOrder
  <2> QED  BY <1>1, <2>6 DEF OrderInv
<1> QED  BY <1>2, <1>3

\* Taking a seat away takes one from a count.
LEMMA CountDrops ==
  ASSUME NEW S, NEW T, \A s \in Seats : s \in S => s \in T
  PROVE  /\ Count(S) <= Count(T)
         /\ \A a \in Seats : a \in T /\ a \notin S => Count(S) + 1 <= Count(T)
<1> DEFINE f == [s \in Seats |-> IF s \in S THEN 1 ELSE 0]
           g == [s \in Seats |-> IF s \in T THEN 1 ELSE 0]
<1>1. ASSUME NEW s \in Seats
      PROVE  /\ f[s] \in 0..1 /\ g[s] \in 0..1 /\ f[s] <= g[s]
             /\ s \in T /\ s \notin S => f[s] + 1 <= g[s]
  <2>1. f[s] = (IF s \in S THEN 1 ELSE 0) /\ g[s] = (IF s \in T THEN 1 ELSE 0)
    OBVIOUS
  <2>2. s \in S => s \in T  OBVIOUS
  <2> HIDE DEF f, g
  <2>3. CASE s \in S  BY <2>1, <2>2, <2>3
  <2>4. CASE s \notin S /\ s \in T  BY <2>1, <2>4
  <2>5. CASE s \notin T  BY <2>1, <2>2, <2>5
  <2> QED  BY <2>3, <2>4, <2>5
<1>2. /\ Count(S) = f[0] + f[1] + f[2] + f[3] + f[4] + f[5]
      /\ Count(T) = g[0] + g[1] + g[2] + g[3] + g[4] + g[5]
  BY DEF Count, Total
<1> HIDE DEF f, g
<1>3. Count(S) <= Count(T)  BY <1>1, <1>2 DEF Seats
<1>4. ASSUME NEW a \in Seats, a \in T, a \notin S  PROVE Count(S) + 1 <= Count(T)
  <2>1. f[a] + 1 <= g[a]  BY <1>1, <1>4
  <2>2. a = 0 \/ a = 1 \/ a = 2 \/ a = 3 \/ a = 4 \/ a = 5  BY DEF Seats
  <2> QED  BY <1>1, <1>2, <2>1, <2>2 DEF Seats
<1> QED  BY <1>3, <1>4

\* What one seat puts in is taken from the sum of all chips.
LEMMA TotalAfter ==
  ASSUME NEW f \in [Seats -> Nat], NEW g \in [Seats -> Nat], NEW a \in Seats,
         NEW paid \in Nat,
         \A s \in Seats : g[s] = f[s] - (IF s = a THEN paid ELSE 0)
  PROVE  Total(g) = Total(f) - paid
<1>1. /\ \A s \in Seats : f[s] \in Nat /\ g[s] \in Nat
      /\ a = 0 \/ a = 1 \/ a = 2 \/ a = 3 \/ a = 4 \/ a = 5
  BY DEF Seats
<1>2. /\ f[0] \in Nat /\ f[1] \in Nat /\ f[2] \in Nat
      /\ f[3] \in Nat /\ f[4] \in Nat /\ f[5] \in Nat
  BY DEF Seats
<1>3. /\ g[0] = f[0] - (IF a = 0 THEN paid ELSE 0)
      /\ g[1] = f[1] - (IF a = 1 THEN paid ELSE 0)
      /\ g[2] = f[2] - (IF a = 2 THEN paid ELSE 0)
      /\ g[3] = f[3] - (IF a = 3 THEN paid ELSE 0)
      /\ g[4] = f[4] - (IF a = 4 THEN paid ELSE 0)
      /\ g[5] = f[5] - (IF a = 5 THEN paid ELSE 0)
  BY DEF Seats
<1> QED  BY <1>1, <1>2, <1>3 DEF Total

\* A move takes at least one from the moves that are left.
LEMMA MoveUsesUp ==
  ASSUME OrderInv, HandInv', NEW paid \in Nat, NEW did, NEW count, NEW raise,
         FairMove(paid, did, count, raise)
  PROVE  MovesLeft' < MovesLeft
<1> DEFINE bet == [currentBet EXCEPT ![active] = @ + paid]
           unanswered == Live \ acted
<1>1. /\ ~complete /\ active \in Live /\ Live \in SUBSET Seats /\ Live' \in SUBSET Seats
      /\ Live' \subseteq Live /\ active \notin acted
  BY MarksAfter DEF OrderInv, TurnOrder
<1>2. /\ street \in Streets /\ street # "SHOWDOWN" /\ won = Nothing
      /\ chips \in [Seats -> Nat] /\ chips' \in [Seats -> Nat] /\ active \in Seats
      /\ complete' \in BOOLEAN
  BY <1>1 DEF OrderInv, HandInv, TypeOK, BoardFitsStreet, PotIsPutIn
<1>3. MovesLeft = 1 + 7 * StreetsLeft + 6 * Total(chips) + Count(unanswered) + Count(Live)
      /\ StreetsLeft \in 0..3 /\ Total(chips) \in Nat
      /\ Count(unanswered) \in 0..6 /\ Count(Live) \in 0..6
  BY <1>1, <1>2, TotalType, CountType DEF MovesLeft, StreetsLeft
<1>4. CASE complete'
  <2>1. MovesLeft' = 0  BY <1>4 DEF MovesLeft
  <2> HIDE DEF unanswered
  <2> QED  BY <1>3, <2>1
<1>5. CASE ~complete'
  <2>1. \/ PassTurn(paid, bet, did, count, raise)
        \/ OpenStreet(paid, bet, did)
    <3>1. \/ WinByFold(paid, bet, did, count, raise)
          \/ PassTurn(paid, bet, did, count, raise)
          \/ OpenStreet(paid, bet, did)
          \/ Showdown(paid, bet, did, count, raise)
      BY DEF FairMove, Move
    <3> HIDE DEF bet
    <3> QED  BY <1>5, <3>1 DEF WinByFold, Showdown
  <2> HIDE DEF bet
  <2>2. won' = Nothing  BY <1>2, <2>1 DEF PassTurn, OpenStreet
  <2>3. \A s \in Seats : chips'[s] = chips[s] - (IF s = active THEN paid ELSE 0)
    <3>1. chips' = [s \in Seats |->
                     chips[s] - (IF s = active THEN paid ELSE 0) + won'[s]]
      BY DEF FairMove, Move
    <3>2. ASSUME NEW s \in Seats
          PROVE  chips'[s] = chips[s] - (IF s = active THEN paid ELSE 0)
      <4>1. chips'[s] = chips[s] - (IF s = active THEN paid ELSE 0) + won'[s]  BY <3>1
      <4>2. won'[s] = 0 /\ chips[s] \in Nat  BY <1>2, <2>2 DEF Nothing
      <4> QED  BY <4>1, <4>2
    <3> QED  BY <3>2
  <2>4. Total(chips') = Total(chips) - paid  BY <1>2, <2>3, TotalAfter
  <2>5. MovesLeft' = 1 + 7 * StreetsLeft' + 6 * Total(chips') + Count(Live' \ acted')
                       + Count(Live')
    BY <1>5 DEF MovesLeft
  <2>6. Count(Live' \ acted') \in 0..6 /\ Count(Live') \in 0..6  BY CountType
  <2>7. Count(Live') <= Count(Live)  BY <1>1, CountDrops
  <2> HIDE DEF unanswered
  <2>8. CASE OpenStreet(paid, bet, did)
    <3>1. StreetsLeft' = StreetsLeft - 1
      BY <1>2, <2>8 DEF OpenStreet, NextStreet, StreetsLeft, Streets
    <3> QED  BY <1>3, <2>4, <2>5, <2>6, <2>7, <3>1
  <2>9. CASE PassTurn(paid, bet, did, count, raise)
    <3>1. StreetsLeft' = StreetsLeft /\ acted' = did
      BY <2>9 DEF PassTurn, KeepRound, StreetsLeft
    <3>2. CASE folded' = folded \cup {active} /\ did = acted
      <4>1. Live' = Live \ {active}
        BY <3>2 DEF Live, FairMove, Move, Dealt
      <4>2. Count(Live') + 1 <= Count(Live)  BY <1>1, <1>2, <4>1, CountDrops
      <4>3. Count(Live' \ acted') <= Count(unanswered)
        <5>1. \A s \in Seats : s \in Live' \ acted' => s \in Live \ acted
          BY <3>1, <3>2, <4>1
        <5> QED  BY <5>1, CountDrops DEF unanswered
      <4> QED  BY <1>3, <2>4, <2>5, <2>6, <3>1, <4>2, <4>3
    <3>3. CASE did = acted \cup {active}
      <4>1. \A s \in Seats : s \in Live' \ acted' => s \in Live \ acted
        BY <1>1, <3>1, <3>3
      <4>2. active \in Live \ acted /\ active \notin Live' \ acted'
        BY <1>1, <3>1, <3>3
      <4>3. Count(Live' \ acted') + 1 <= Count(unanswered)
        BY <1>2, <4>1, <4>2, CountDrops DEF unanswered
      <4> QED  BY <1>3, <2>4, <2>5, <2>6, <2>7, <3>1, <4>3
    <3>4. CASE did = MustAnswer \cup {active} /\ paid > 0
      <4>1. \A s \in Seats : s \in Live' \ acted' => s \in Live  BY <1>1
      <4>2. active \notin Live' \ acted'  BY <3>1, <3>4
      <4>3. Count(Live' \ acted') + 1 <= Count(Live)
        BY <1>1, <1>2, <4>1, <4>2, CountDrops
      <4> QED  BY <1>3, <2>4, <2>5, <2>6, <2>7, <3>1, <3>4, <4>3
    <3>5. IsAMove(paid, did)  BY DEF FairMove
    <3> QED  BY <3>2, <3>3, <3>4, <3>5 DEF IsAMove
  <2> QED  BY <2>1, <2>8, <2>9
<1> QED  BY <1>2, <1>4, <1>5

\* Every move of a hand decreases the measure, so every hand ends.
THEOREM HandsMoveOn == Spec => HandMovesOn
<1>1. Init => OrderInv  BY InitOrderInv
<1>2. OrderInv /\ [Next]_vars => OrderInv'  BY NextOrderInv
<1>3. ASSUME OrderInv, [Next]_vars  PROVE [MovesLeft' < MovesLeft]_vars
  <2> SUFFICES ASSUME Next, ~(UNCHANGED vars)  PROVE MovesLeft' < MovesLeft
    BY <1>3
  <2>1. HandInv /\ HandInv'  BY <1>3, NextHandInv DEF OrderInv
  <2>2. PICK paid \in Nat, count \in Nat, raise \in Nat :
           \E did : FairMove(paid, did, count, raise)
    BY <2>1, StepsAreFair
  <2>3. PICK did : FairMove(paid, did, count, raise)  BY <2>2
  <2> QED  BY <1>3, <2>1, <2>3, MoveUsesUp
<1> QED  BY <1>1, <1>2, <1>3, PTL DEF Spec, HandMovesOn
=============================================================================
