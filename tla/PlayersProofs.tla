--------------------------- MODULE PlayersProofs -----------------------------
(***************************************************************************)
(* The automatic players, the replay and the table actor, for every hand.   *)
(***************************************************************************)
EXTENDS Strategies, HandReplay, HandAtTable, PokerHandProofs, CommonProofs

-----------------------------------------------------------------------------
\* A recorded bet or raise makes the same move again: what is in the log is in the
\* range that was checked, or is the whole stack, which no-limit always accepts.
THEOREM BetsReplayAll == Spec => []BetsReplay
<1>1. HandInv => BetsReplay
  <2> SUFFICES ASSUME HandInv, ~complete, hand.mode # "POT_LIMIT",
                      NEW move \in OpenMoves, NEW requested \in Amounts,
                      Accepted(requested, move.least, move.most)
               PROVE  ReplaysAs(Recorded(requested, move), move)
                        = {PutIn(requested, move.fixed)}
    BY DEF BetsReplay
  <2>1. requested \in Nat /\ chips[active] \in Nat  BY AmountsAssumption, TurnIs
  <2>2. /\ Accepted(PutIn(requested, move.fixed), move.least, move.most)
        /\ PutIn(PutIn(requested, move.fixed), move.fixed) = PutIn(requested, move.fixed)
    <3>1. CASE hand.mode = "LIMIT"  BY <3>1 DEF Accepted, PutIn
    <3>2. CASE hand.mode # "LIMIT"
      <4>1. MaxBet = chips[active] /\ MaxRaise = chips[active]
        BY DEF MaxBet, MaxRaise
      <4>2. move.most = chips[active]  BY <4>1 DEF OpenMoves, BetMove, RaiseMove
      <4>3. move.least \in Nat /\ move.least <= chips[active]
        <5>1. ToCall \in Nat /\ MinIncrement \in Nat /\ hand.bigBlind \in Nat
          BY <2>1, TurnIs, PutInIs, SetupIs DEF HandInv, TypeOK
        <5>2. /\ MinBet \in Nat /\ MinBet <= chips[active]
              /\ MinRaise \in Nat /\ MinRaise <= chips[active]
          BY <2>1, <5>1 DEF MinBet, MinRaise, Min2
        <5> QED  BY <5>2 DEF OpenMoves, BetMove, RaiseMove
      <4>4. PutIn(requested, move.fixed) = Min2(requested, chips[active])
            /\ \A n : PutIn(n, move.fixed) = Min2(n, chips[active])
        BY <3>2 DEF PutIn
      <4>5. requested > chips[active] \/ requested \in move.least..move.most
        BY <3>2 DEF Accepted
      <4>6. CASE requested > chips[active]
        BY <2>1, <4>2, <4>3, <4>4, <4>6 DEF Min2, Accepted
      <4>7. CASE requested \in move.least..move.most
        BY <2>1, <4>2, <4>3, <4>4, <4>7 DEF Min2, Accepted
      <4> QED  BY <4>5, <4>6, <4>7
    <3> QED  BY <3>1, <3>2
  <2> QED  BY <2>2 DEF ReplaysAs, Recorded
<1> QED  BY <1>1, HandInvHolds, PTL

-----------------------------------------------------------------------------
(***************************************************************************)
(* What the players choose is in the engine's range.  In pot-limit the      *)
(* range is only not empty when the pot holds as much as the smallest bet,  *)
(* which blinds that are posted short put in doubt.                         *)
(***************************************************************************)
\* The configurations of the scripts and of no-limit tables: no cap on no-limit raises
\* (DEFAULT_NL_CONFIG), and blinds of 1 and 2 in pot-limit (DEFAULT_PL_CONFIG).
DefaultGames ==
  \A h \in Setups : /\ h.mode = "NO_LIMIT" => h.cap = 0
                    /\ h.mode = "POT_LIMIT" => h.bigBlind <= 2

\* Both blinds are in the pot, if only one chip of each, and no raise was larger than
\* the big blind and the pot.
RaiseFitsPot ==
  ~complete => /\ pot >= 2
               /\ hand.mode # "LIMIT" => lastRaise <= hand.bigBlind \/ lastRaise <= pot

\* The inductive invariant of the ranges.
RangeInv == HandInv /\ RaiseFitsPot

\* The big blind is not the small blind's seat.
LEMMA BlindsDiffer ==
  ASSUME NEW dealt \in SUBSET Seats, NEW dealer \in dealt, dealt # {dealer}
  PROVE  SmallBlindSeat(dealt, dealer) # BigBlindSeat(dealt, dealer)
<1> DEFINE sb == SmallBlindSeat(dealt, dealer)
<1>1. sb \in dealt  BY PreflopSeats
<1> HIDE DEF sb
<1>2. PICK t \in dealt : t # sb
  BY <1>1
<1>3. StepsClockwise(sb, t) # 5 /\ StepsClockwise(sb, sb) = 5
  BY <1>1, <1>2 DEF StepsClockwise, Seats
<1>4. StepsClockwise(sb, FirstClockwise(sb, dealt)) <= StepsClockwise(sb, t)
  BY <1>1, FirstClockwiseIn
<1>5. StepsClockwise(sb, t) \in 0..5  BY <1>1, StepsType
<1>6. FirstClockwise(sb, dealt) # sb  BY <1>3, <1>4, <1>5
<1> QED  BY <1>6 DEF BigBlindSeat, sb

\* Two seats put in no more than all.
LEMMA TwoInTotal ==
  ASSUME NEW f \in [Seats -> Nat], NEW s \in Seats, NEW t \in Seats, s # t
  PROVE  f[s] + f[t] <= Total(f)
<1>1. /\ f[0] \in Nat /\ f[1] \in Nat /\ f[2] \in Nat
      /\ f[3] \in Nat /\ f[4] \in Nat /\ f[5] \in Nat
  BY DEF Seats
<1>2. s \in {0, 1, 2, 3, 4, 5} /\ t \in {0, 1, 2, 3, 4, 5}  BY DEF Seats
<1> QED  BY <1>1, <1>2 DEF Total

\* The blinds put two chips in at least.
LEMMA InitRange ==
  ASSUME Init PROVE RangeInv
<1> DEFINE sb == SmallBlindSeat(Dealt, hand.dealer)
           bb == BigBlindSeat(Dealt, hand.dealer)
<1>1. /\ hand \in Setups /\ pot = Total(totalBet) /\ lastRaise = hand.bigBlind
      /\ totalBet = [s \in Seats |-> AntePaid(hand, s) + BlindPaid(hand, s)]
  BY DEF Init
<1>2. HandInv  BY InitHandInv
<1>3. totalBet \in [Seats -> Nat]  BY <1>2 DEF HandInv, TypeOK
<1>4. /\ Dealt \in SUBSET Seats /\ hand.dealer \in Dealt /\ Dealt # {hand.dealer}
  BY <1>1, SetupIs DEF Dealt
<1>5. sb \in Dealt /\ bb \in Dealt /\ sb # bb  BY <1>4, PreflopSeats, BlindsDiffer
<1> HIDE DEF sb, bb
<1>6. ASSUME NEW s \in {sb, bb} PROVE totalBet[s] >= 1
  <2>1. s \in Dealt /\ s \in Seats  BY <1>4, <1>5
  <2>2. /\ hand.stacks[s] \in Nat /\ hand.stacks[s] > 0 /\ hand.ante \in Nat
        /\ hand.smallBlind \in Nat /\ hand.smallBlind > 0
        /\ hand.bigBlind \in Nat /\ hand.bigBlind > 0
    BY <1>1, <2>1, SetupIs DEF Dealt
  <2> DEFINE due == IF s = sb THEN hand.smallBlind
                    ELSE IF s = bb THEN hand.bigBlind ELSE 0
  <2>3. due \in Nat /\ due > 0  BY <2>2
  <2>4. BlindPaid(hand, s) = Min2(due, hand.stacks[s] - AntePaid(hand, s))
    BY DEF BlindPaid, sb, bb, Dealt
  <2>5. totalBet[s] = AntePaid(hand, s) + BlindPaid(hand, s)  BY <1>1, <2>1
  <2>6. AntePaid(hand, s) = Min2(hand.ante, hand.stacks[s])  BY DEF AntePaid
  <2> HIDE DEF due
  <2> QED  BY <2>2, <2>3, <2>4, <2>5, <2>6 DEF Min2
<1>7. totalBet[sb] + totalBet[bb] <= Total(totalBet)  BY <1>3, <1>4, <1>5, TwoInTotal
<1>8. Total(totalBet) \in Nat /\ totalBet[sb] \in Nat /\ totalBet[bb] \in Nat
  BY <1>3, <1>4, <1>5, TotalType
<1>9. totalBet[sb] >= 1 /\ totalBet[bb] >= 1  BY <1>6
<1>10. pot >= 2  BY <1>1, <1>7, <1>8, <1>9
<1>11. hand.bigBlind \in Nat  BY <1>1, SetupIs
<1> QED  BY <1>1, <1>2, <1>10, <1>11 DEF RangeInv, RaiseFitsPot

\* A move that puts in its raise, or leaves lastRaise, keeps the raise within the pot.
LEMMA MoveKeepsRange ==
  ASSUME RangeInv, NEW paid \in Nat, NEW did, NEW count, NEW raise \in Nat,
         Move(paid, did, count, raise),
         hand.mode # "LIMIT" => raise <= paid \/ raise = lastRaise
  PROVE  RaiseFitsPot'
<1> DEFINE bet == [currentBet EXCEPT ![active] = @ + paid]
<1>1. /\ pot \in Nat /\ lastRaise \in Nat /\ hand \in Setups /\ ~complete /\ hand' = hand
      /\ pot >= 2
      /\ hand.mode # "LIMIT" => lastRaise <= hand.bigBlind \/ lastRaise <= pot
  BY DEF RangeInv, HandInv, TypeOK, RaiseFitsPot, Move
<1>2. hand.bigBlind \in Nat  BY <1>1, SetupIs
<1>3. \/ WinByFold(paid, bet, did, count, raise) \/ PassTurn(paid, bet, did, count, raise)
      \/ OpenStreet(paid, bet, did) \/ Showdown(paid, bet, did, count, raise)
  BY DEF Move
<1> HIDE DEF bet
<1>4. CASE complete'  BY <1>4 DEF RaiseFitsPot
<1>5. CASE PassTurn(paid, bet, did, count, raise)
  <2>1. pot' = pot + paid /\ lastRaise' = raise  BY <1>5 DEF PassTurn, KeepRound
  <2> QED  BY <1>1, <1>2, <2>1 DEF RaiseFitsPot
<1>6. CASE OpenStreet(paid, bet, did)
  <2>1. pot' = pot + paid /\ lastRaise' = hand.bigBlind
    BY <1>6 DEF OpenStreet, FreshRound, KeepRound
  <2> QED  BY <1>1, <1>2, <2>1 DEF RaiseFitsPot
<1> QED  BY <1>3, <1>4, <1>5, <1>6 DEF WinByFold, Showdown

\* Every step of a hand keeps it.
LEMMA NextRange == RangeInv /\ [Next]_vars => RangeInv'
<1> SUFFICES ASSUME RangeInv, [Next]_vars PROVE RaiseFitsPot'
  BY NextHandInv DEF RangeInv
<1>0. HandInv /\ lastRaise \in Nat  BY DEF RangeInv, HandInv, TypeOK
<1>1. CASE Fold
  <2>1. Move(0, acted, betsThisStreet, lastRaise)  BY <1>1 DEF Fold
  <2> QED  BY <1>0, <2>1, MoveKeepsRange
<1>2. CASE Check
  <2>1. Move(0, acted \cup {active}, betsThisStreet, lastRaise)  BY <1>2 DEF Check
  <2> QED  BY <1>0, <2>1, MoveKeepsRange
<1>3. CASE Call
  <2>1. Move(CallAmount, acted \cup {active}, betsThisStreet, lastRaise)
    BY <1>3 DEF Call
  <2>2. CallAmount \in Nat  BY <1>0, TurnIs DEF CallAmount, Min2
  <2> QED  BY <1>0, <2>1, <2>2, MoveKeepsRange
<1>4. ASSUME NEW requested \in Amounts, Bet(requested) PROVE RaiseFitsPot'
  <2> DEFINE paid == PutIn(requested, BetSize)
  <2>1. requested \in Nat  BY AmountsAssumption
  <2>2. paid \in Nat  BY <1>0, <2>1, PutInIs
  <2>3. Move(paid, MustAnswer \cup {active}, betsThisStreet + 1, paid)  BY <1>4 DEF Bet
  <2> HIDE DEF paid
  <2> QED  BY <2>2, <2>3, MoveKeepsRange
<1>5. ASSUME NEW requested \in Amounts, Raise(requested) PROVE RaiseFitsPot'
  <2> DEFINE paid == PutIn(requested, ToCall + BetSize)
             increment == IF hand.mode = "LIMIT" THEN BetSize ELSE paid - ToCall
             raise == IF increment > 0 THEN increment ELSE lastRaise
  <2>1. requested \in Nat  BY AmountsAssumption
  <2>2. BetSize \in Nat /\ ToCall \in Nat /\ lastRaise \in Nat
    BY <1>0, <2>1, PutInIs, TurnIs
  <2>3. paid \in Nat
    <3>1. ToCall + BetSize \in Nat  BY <2>2
    <3> QED  BY <1>0, <2>1, <3>1, PutInIs
  <2>4. Move(paid, MustAnswer \cup {active}, betsThisStreet + 1, raise)
    BY <1>5 DEF Raise
  <2> HIDE DEF paid
  <2>5. raise \in Nat /\ (hand.mode # "LIMIT" => raise <= paid \/ raise = lastRaise)
    BY <2>2, <2>3
  <2> HIDE DEF raise
  <2> QED  BY <2>3, <2>4, <2>5, MoveKeepsRange
<1>6. CASE UNCHANGED vars
  BY <1>6 DEF vars, bets, RangeInv, RaiseFitsPot
<1>7. CASE Over  BY <1>6, <1>7 DEF Over
<1> QED  BY <1>1, <1>2, <1>3, <1>4, <1>5, <1>6, <1>7 DEF Next

\* RangeInv is an invariant of every hand.
THEOREM RangeInvHolds == Spec => []RangeInv
<1>1. Init => RangeInv  BY InitRange
<1>2. RangeInv /\ [Next]_vars => RangeInv'  BY NextRange
<1> QED  BY <1>1, <1>2, PTL DEF Spec

-----------------------------------------------------------------------------
\* The range of a seat that may bet or raise is not empty, and within its stack.
RangesOpen ==
  /\ MinBet \in Nat /\ MaxBet \in Nat /\ MinBet <= MaxBet /\ MaxBet <= chips[active]
  /\ MinRaise \in Nat /\ MaxRaise \in Nat /\ MinRaise <= MaxRaise
  /\ MaxRaise <= chips[active]
  /\ hand.mode = "NO_LIMIT" => MaxBet = chips[active] /\ MaxRaise = chips[active]

\* A player who may bet or raise has amounts to choose from.
LEMMA RangesAre ==
  ASSUME RangeInv, DefaultGames, ~complete, hand.mode # "LIMIT"
  PROVE  RangesOpen
<1>1. /\ chips[active] \in Nat /\ ToCall \in Nat /\ pot \in Nat /\ pot >= 2
      /\ lastRaise \in Nat /\ hand \in Setups
      /\ lastRaise <= hand.bigBlind \/ lastRaise <= pot
  BY TurnIs DEF RangeInv, HandInv, TypeOK, RaiseFitsPot
<1>2. hand.bigBlind \in Nat /\ (hand.mode = "POT_LIMIT" => hand.bigBlind <= 2)
  BY <1>1, SetupIs DEF DefaultGames
<1>3. /\ MinIncrement \in Nat
      /\ hand.mode = "POT_LIMIT" => MinIncrement <= pot
  BY <1>1, <1>2 DEF MinIncrement, Max2
<1>4. CASE hand.mode = "POT_LIMIT"
  <2>1. MaxBet = Min2(pot, chips[active])  BY <1>4 DEF MaxBet
  <2>2. MaxRaise = Min2(ToCall + pot + ToCall, chips[active])  BY <1>4 DEF MaxRaise
  <2>3. MinBet \in Nat /\ MaxBet \in Nat /\ MinBet <= MaxBet /\ MaxBet <= chips[active]
    BY <1>1, <1>2, <1>4, <2>1 DEF MinBet, Min2
  <2>4. /\ MinRaise \in Nat /\ MaxRaise \in Nat /\ MinRaise <= MaxRaise
        /\ MaxRaise <= chips[active]
    BY <1>1, <1>3, <1>4, <2>2 DEF MinRaise, Min2
  <2> QED  BY <1>4, <2>3, <2>4 DEF RangesOpen
<1>5. CASE hand.mode # "POT_LIMIT"
  <2>1. MaxBet = chips[active] /\ MaxRaise = chips[active]
    BY <1>5 DEF MaxBet, MaxRaise
  <2>2. /\ MinBet \in Nat /\ MinBet <= chips[active]
        /\ MinRaise \in Nat /\ MinRaise <= chips[active]
    BY <1>1, <1>2, <1>3 DEF MinBet, MinRaise, Min2
  <2> QED  BY <1>1, <2>1, <2>2 DEF RangesOpen
<1> QED  BY <1>4, <1>5

\* A choice the engine accepts if it is legal at all: a bet or raise without an
\* amount, or with one in the range, or any amount in LIMIT.
Fits(c) ==
  /\ c.action = "BET" /\ hand.mode # "LIMIT" =>
       c.amount = NoAmount \/ c.amount \in MinBet..MaxBet
  /\ c.action = "RAISE" /\ hand.mode # "LIMIT" =>
       c.amount = NoAmount \/ c.amount \in MinRaise..MaxRaise

\* A legal choice that fits is accepted.
LEMMA FittingIsHeard ==
  ASSUME RangeInv, DefaultGames, ~complete, NEW c, Fits(c), c.action \in LegalActions
  PROVE  Hears(c)
<1>1. CASE hand.mode = "LIMIT"  BY <1>1 DEF Hears, Accepted
<1>2. CASE hand.mode # "LIMIT"
  <2>1. RangesOpen  BY <1>2, RangesAre
  <2>2. MinBet \in MinBet..MaxBet /\ MinRaise \in MinRaise..MaxRaise
    BY <2>1 DEF RangesOpen
  <2>3. c.action = "BET" =>
          Accepted(IF c.amount = NoAmount THEN MinBet ELSE c.amount, MinBet, MaxBet)
    BY <1>2, <2>2 DEF Fits, Accepted
  <2>4. c.action = "RAISE" =>
          Accepted(IF c.amount = NoAmount THEN MinRaise ELSE c.amount, MinRaise, MaxRaise)
    BY <1>2, <2>2 DEF Fits, Accepted
  <2> QED  BY <2>3, <2>4 DEF Hears
<1> QED  BY <1>1, <1>2

\* The first play that is open is one of the plays, and open.
LEMMA FirstOfIs ==
  ASSUME NEW plays, Len(plays) \in Nat, NEW legal,
         NEW i \in 1..Len(plays), plays[i].action \in legal
  PROVE  \E j \in 1..Len(plays) :
           FirstOf(plays, legal) = plays[j] /\ plays[j].action \in legal
<1> DEFINE S == {j \in 1..Len(plays) : plays[j].action \in legal}
<1>1. S \in SUBSET Nat /\ S # {}  OBVIOUS
<1>2. PICK n \in S : \A m \in S : n <= m  BY <1>1, LeastNat
<1>3. LowestSeat(S) \in S  BY <1>2 DEF LowestSeat
<1> QED  BY <1>3 DEF FirstOf

\* Every choice of a list that ends with a fold is heard when every play of the list
\* that is open fits.
LEMMA ListIsHeard ==
  ASSUME RangeInv, DefaultGames, ~complete, NEW plays, NEW legal, "FOLD" \in legal,
         Len(plays) \in Nat \ {0}, plays[Len(plays)] = Plain("FOLD"),
         \A i \in 1..Len(plays) : plays[i].action \in legal =>
           plays[i].action \in LegalActions /\ Fits(plays[i])
  PROVE  Hears(FirstOf(plays, legal))
<1>1. plays[Len(plays)].action \in legal  BY DEF Plain, Choose
<1>2. Len(plays) \in 1..Len(plays)  OBVIOUS
<1>3. PICK j \in 1..Len(plays) :
        FirstOf(plays, legal) = plays[j] /\ plays[j].action \in legal
  BY <1>1, <1>2, FirstOfIs
<1> QED  BY <1>3, FittingIsHeard

\* A choice without an amount fits.
LEMMA PlainFits == \A a : Fits(Plain(a)) /\ Plain(a).action = a
BY DEF Fits, Plain, Choose

\* The lists of plays.
LEMMA AggressiveIs ==
  ASSUME NEW raise, NEW bet
  PROVE  /\ Len(Aggressive(raise, bet)) = 5
         /\ Aggressive(raise, bet)[1] = raise /\ Aggressive(raise, bet)[2] = bet
         /\ Aggressive(raise, bet)[3] = Plain("CALL")
         /\ Aggressive(raise, bet)[4] = Plain("CHECK")
         /\ Aggressive(raise, bet)[5] = Plain("FOLD")
BY DEF Aggressive, CallOrCheck

\* Raise, else bet, else call: accepted when the two amounts fit.
LEMMA AggressiveIsHeard ==
  ASSUME RangeInv, DefaultGames, ~complete, NEW legal \in SUBSET LegalActions,
         "FOLD" \in legal, NEW raise, NEW bet, Fits(raise), Fits(bet)
  PROVE  Hears(FirstOf(Aggressive(raise, bet), legal))
<1> DEFINE plays == Aggressive(raise, bet)
<1>1. /\ Len(plays) = 5 /\ plays[1] = raise /\ plays[2] = bet
      /\ plays[3] = Plain("CALL") /\ plays[4] = Plain("CHECK") /\ plays[5] = Plain("FOLD")
  BY AggressiveIs
<1> HIDE DEF plays
<1>2. \A i \in 1..5 : i = 1 \/ i = 2 \/ i = 3 \/ i = 4 \/ i = 5  OBVIOUS
<1>3. \A i \in 1..5 : Fits(plays[i])  BY <1>1, <1>2, PlainFits
<1>4. Len(plays) \in Nat \ {0}  BY <1>1
<1>5. Hears(FirstOf(plays, legal))  BY <1>1, <1>3, <1>4, ListIsHeard
<1> QED  BY <1>5 DEF plays

\* Check, else fold, is accepted.
LEMMA CheckOrFoldIsHeard ==
  ASSUME RangeInv, DefaultGames, ~complete, NEW legal \in SUBSET LegalActions,
         "FOLD" \in legal
  PROVE  Hears(FirstOf(CheckOrFold, legal))
<1>1. Len(CheckOrFold) = 2 /\ CheckOrFold[1] = Plain("CHECK")
      /\ CheckOrFold[2] = Plain("FOLD")
  BY DEF CheckOrFold
<1>2. \A i \in 1..2 : i = 1 \/ i = 2  OBVIOUS
<1>3. \A i \in 1..2 : Fits(CheckOrFold[i])  BY <1>1, <1>2, PlainFits
<1>4. Len(CheckOrFold) \in Nat \ {0}  BY <1>1
<1> QED  BY <1>1, <1>3, <1>4, ListIsHeard

-----------------------------------------------------------------------------
\* What is legal, and what the SDK infers: they differ by the raise cap only.
LEMMA LegalIs ==
  ASSUME RangeInv
  PROVE  /\ "FOLD" \in LegalActions /\ "FOLD" \in InferredActions
         /\ \A a \in {"CHECK", "CALL", "FOLD"} : a \in InferredActions => a \in LegalActions
         /\ hand.cap = 0 => InferredActions = LegalActions
<1>1. ToCall \in Nat  BY TurnIs DEF RangeInv
<1>2. hand.cap = 0 => ~RaiseCapReached  BY DEF RaiseCapReached
<1>3. (ToCall <= 0 <=> ToCall = 0) /\ (ToCall > 0 <=> ToCall # 0)  BY <1>1
<1> QED  BY <1>2, <1>3 DEF LegalActions, InferredActions

\* The calling station is heard, whether it knows or infers what is legal.
LEMMA StationIsHeard ==
  ASSUME RangeInv, DefaultGames, ~complete,
         NEW legal \in {LegalActions, InferredActions}, NEW c \in CallingStation(legal)
  PROVE  Hears(c)
<1> DEFINE plays == <<Plain("CHECK"), Plain("CALL"), Plain("FOLD")>>
<1>1. /\ Len(plays) = 3 /\ plays[1] = Plain("CHECK") /\ plays[2] = Plain("CALL")
      /\ plays[3] = Plain("FOLD")
  OBVIOUS
<1>2. c = FirstOf(plays, legal)  BY DEF CallingStation
<1> HIDE DEF plays
<1>3. \A i \in 1..3 : i = 1 \/ i = 2 \/ i = 3  OBVIOUS
<1>4. \A i \in 1..3 : Fits(plays[i]) /\ plays[i].action \in {"CHECK", "CALL", "FOLD"}
  BY <1>1, <1>3, PlainFits
<1>5. "FOLD" \in legal
      /\ \A a \in {"CHECK", "CALL", "FOLD"} : a \in legal => a \in LegalActions
  BY LegalIs
<1>6. Len(plays) \in Nat \ {0}  BY <1>1
<1> QED  BY <1>1, <1>2, <1>4, <1>5, <1>6, ListIsHeard

\* The random bot is heard.
LEMMA RandomIsHeard ==
  ASSUME RangeInv, DefaultGames, ~complete, NEW c \in RandomBot(LegalActions)
  PROVE  Hears(c)
<1>1. PICK a \in LegalActions : c = Plain(a)  BY DEF RandomBot
<1> QED  BY <1>1, PlainFits, FittingIsHeard

\* The aggressive bot is heard.
LEMMA AggressiveBotIsHeard ==
  ASSUME RangeInv, DefaultGames, ~complete, NEW c \in AggressiveBot(LegalActions)
  PROVE  Hears(c)
<1>1. c = FirstOf(Aggressive(Plain("RAISE"), Plain("BET")), LegalActions)
  BY DEF AggressiveBot
<1> QED  BY <1>1, PlainFits, LegalIs, AggressiveIsHeard

\* A raise or bet of an amount in the range fits.
LEMMA AmountFits ==
  ASSUME NEW n
  PROVE  /\ n \in MinRaise..MaxRaise => Fits(Choose("RAISE", n))
         /\ n \in MinBet..MaxBet => Fits(Choose("BET", n))
BY DEF Fits, Choose

\* A share of the pot, cut to the range, is in it.
LEMMA PercentIn ==
  ASSUME NEW least \in Nat, NEW most \in Nat, least <= most, pot \in Nat,
         NEW percent \in Nat
  PROVE  PercentOfPot(percent, least, most) \in least..most
<1> DEFINE share == (pot * percent) \div 100
<1>1. share \in Int
  <2>1. pot * percent \in Int  OBVIOUS
  <2> QED  BY <2>1
<1>2. PercentOfPot(percent, least, most) = Max2(least, Min2(share, most))
  BY DEF PercentOfPot
<1> HIDE DEF share
<1> QED  BY <1>1, <1>2 DEF Max2, Min2

\* A share of the pot is heard, clamped to the range.
LEMMA BetOfPotIsHeard ==
  ASSUME RangeInv, DefaultGames, ~complete, hand.mode # "LIMIT", NEW percent \in Nat
  PROVE  Hears(BetOfPot(percent, LegalActions, EngineRange))
<1>1. RangesOpen /\ pot \in Nat  BY RangesAre DEF RangeInv, HandInv, TypeOK
<1> DEFINE raise == Choose("RAISE", PercentOfPot(percent, MinRaise, MaxRaise))
           bet == Choose("BET", PercentOfPot(percent, MinBet, MaxBet))
<1>2. PercentOfPot(percent, MinRaise, MaxRaise) \in MinRaise..MaxRaise
      /\ PercentOfPot(percent, MinBet, MaxBet) \in MinBet..MaxBet
  BY <1>1, PercentIn DEF RangesOpen
<1>3. Fits(raise) /\ Fits(bet)  BY <1>2, AmountFits
<1>4. BetOfPot(percent, LegalActions, EngineRange)
        = FirstOf(Aggressive(raise, bet), LegalActions)
  BY DEF BetOfPot, EngineRange
<1> HIDE DEF raise, bet
<1> QED  BY <1>3, <1>4, LegalIs, AggressiveIsHeard

\* The bots that bet shares of the pot are heard.
LEMMA SharesAreHeard ==
  ASSUME RangeInv, DefaultGames, ~complete, hand.mode # "LIMIT",
         NEW c \in TightAggressiveBot(LegalActions, EngineRange)
                   \cup LooseAggressiveBot(LegalActions, EngineRange)
                   \cup PotControlBot(LegalActions, EngineRange)
  PROVE  Hears(c)
<1>1. \/ \E percent \in {50, 75, 90} : c = BetOfPot(percent, LegalActions, EngineRange)
      \/ c = FirstOf(CheckOrFold, LegalActions)
      \/ c = Plain("FOLD")
  BY DEF TightAggressiveBot, LooseAggressiveBot, PotControlBot
<1>2. CASE \E percent \in {50, 75, 90} : c = BetOfPot(percent, LegalActions, EngineRange)
  BY <1>2, BetOfPotIsHeard
<1>3. CASE c = FirstOf(CheckOrFold, LegalActions)
  BY <1>3, LegalIs, CheckOrFoldIsHeard
<1>4. CASE c = Plain("FOLD")
  BY <1>4, LegalIs, PlainFits, FittingIsHeard
<1> QED  BY <1>1, <1>2, <1>3, <1>4

\* A short stack that pushes everything is heard, where no pot limits it.
LEMMA PushIsHeard ==
  ASSUME RangeInv, DefaultGames, ~complete, hand.mode = "NO_LIMIT",
         NEW range \in {SdkRange, EngineRange}, NEW c \in ShortStackBot(LegalActions, range)
  PROVE  Hears(c)
<1>1. RangesOpen /\ MaxBet = chips[active] /\ MaxRaise = chips[active]
      /\ chips[active] \in Nat
  BY RangesAre, TurnIs DEF RangesOpen, RangeInv
<1>2. range.maxRaise = chips[active] /\ range.maxBet = chips[active]
  BY <1>1 DEF SdkRange, EngineRange
<1> DEFINE raise == Choose("RAISE", Min2(chips[active], range.maxRaise))
           bet == Choose("BET", Min2(chips[active], range.maxBet))
<1>3. chips[active] \in MinRaise..MaxRaise /\ chips[active] \in MinBet..MaxBet
  BY <1>1 DEF RangesOpen
<1>4. Min2(chips[active], range.maxRaise) = chips[active]
      /\ Min2(chips[active], range.maxBet) = chips[active]
  BY <1>1, <1>2 DEF Min2
<1>5. Fits(raise) /\ Fits(bet)  BY <1>3, <1>4, AmountFits
<1>6. \/ c = FirstOf(Aggressive(raise, bet), LegalActions)
      \/ c = FirstOf(CheckOrFold, LegalActions)
  BY DEF ShortStackBot
<1> HIDE DEF raise, bet
<1> QED  BY <1>5, <1>6, LegalIs, AggressiveIsHeard, CheckOrFoldIsHeard

\* The demo's aggressive player, which bets the middle of its range, is heard.
LEMMA DemoAggressiveIsHeard ==
  ASSUME RangeInv, DefaultGames, ~complete, hand.mode # "LIMIT", NEW c \in DemoAggressive
  PROVE  Hears(c)
<1>1. RangesOpen  BY RangesAre
<1> DEFINE r == (MinRaise + MaxRaise) \div 2
           b == (MinBet + MaxBet) \div 2
<1>2. \A x, y \in Nat : x <= y => (x + y) \div 2 \in x..y  OBVIOUS
<1>3. r \in MinRaise..MaxRaise /\ b \in MinBet..MaxBet  BY <1>1, <1>2 DEF RangesOpen
<1>4. c = FirstOf(Aggressive(Choose("RAISE", r), Choose("BET", b)), LegalActions)
  BY DEF DemoAggressive
<1> HIDE DEF r, b
<1>5. Fits(Choose("RAISE", r)) /\ Fits(Choose("BET", b))  BY <1>3, AmountFits
<1> QED  BY <1>4, <1>5, LegalIs, AggressiveIsHeard

\* The demo's random player, which draws from its range, is heard.
LEMMA DemoRandomIsHeard ==
  ASSUME RangeInv, DefaultGames, ~complete, hand.mode # "LIMIT", NEW c \in DemoRandom
  PROVE  Hears(c)
<1>1. RangesOpen  BY RangesAre
<1>2. \A x, y \in Nat : x <= y => Drawn(x, y) \subseteq x..y  BY DEF Drawn
<1>3. /\ MinBet \in Nat /\ MaxBet \in Nat /\ MinBet <= MaxBet
      /\ MinRaise \in Nat /\ MaxRaise \in Nat /\ MinRaise <= MaxRaise
  BY <1>1 DEF RangesOpen
<1>4. Drawn(MinBet, MaxBet) \subseteq MinBet..MaxBet
      /\ Drawn(MinRaise, MaxRaise) \subseteq MinRaise..MaxRaise
  BY <1>2, <1>3
<1>5. CASE c \in RandomBot(LegalActions)  BY <1>5, RandomIsHeard
<1>6. ASSUME NEW a \in Drawn(MinBet, MaxBet), "BET" \in LegalActions, c = Choose("BET", a)
      PROVE  Hears(c)
  <2>1. Fits(c) /\ c.action = "BET"  BY <1>4, <1>6, AmountFits DEF Choose
  <2> QED  BY <1>6, <2>1, FittingIsHeard
<1>7. ASSUME NEW a \in Drawn(MinRaise, MaxRaise), "RAISE" \in LegalActions,
             c = Choose("RAISE", a)
      PROVE  Hears(c)
  <2>1. Fits(c) /\ c.action = "RAISE"  BY <1>4, <1>7, AmountFits DEF Choose
  <2> QED  BY <1>7, <2>1, FittingIsHeard
<1> QED  BY <1>5, <1>6, <1>7 DEF DemoRandom

\* The smallest raise and bet fit, where they are taken.
LEMMA SmallestFit ==
  ASSUME RangesOpen PROVE Fits(SmallestRaise) /\ Fits(SmallestBet)
<1>1. MinRaise \in MinRaise..MaxRaise /\ MinBet \in MinBet..MaxBet  BY DEF RangesOpen
<1> QED  BY <1>1, AmountFits DEF SmallestRaise, SmallestBet

\* The players of the integration test are heard.
LEMMA IntegrationIsHeard ==
  ASSUME RangeInv, DefaultGames, ~complete, hand.mode = "NO_LIMIT",
         NEW c \in IntegrationChoices
  PROVE  Hears(c)
<1> DEFINE passive == <<Plain("CHECK"), Plain("CALL"), Plain("FOLD")>>
<1>1. RangesOpen  BY RangesAre
<1>2. \A i \in 1..3 : i = 1 \/ i = 2 \/ i = 3  OBVIOUS
<1>3. \A i \in 1..4 : i = 1 \/ i = 2 \/ i = 3 \/ i = 4  OBVIOUS
<1>4. \A i \in 1..5 : i = 1 \/ i = 2 \/ i = 3 \/ i = 4 \/ i = 5  OBVIOUS
<1>5. PICK plays \in {<<>>, <<SmallestBet>>, <<SmallestRaise, SmallestBet>>} :
        c = FirstOf(plays \o passive, LegalActions)
  BY DEF IntegrationChoices
<1> DEFINE all == plays \o passive
<1>6. /\ Len(all) \in Nat \ {0} /\ all[Len(all)] = Plain("FOLD")
      /\ \A i \in 1..Len(all) : Fits(all[i])
  <2>1. CASE plays = <<>>
    <3>1. Len(all) = 3 /\ all[1] = Plain("CHECK") /\ all[2] = Plain("CALL")
          /\ all[3] = Plain("FOLD")
      BY <2>1
    <3> HIDE DEF all
    <3> QED  BY <1>2, <3>1, PlainFits
  <2>2. CASE plays = <<SmallestBet>>
    <3>1. Len(all) = 4 /\ all[1] = SmallestBet /\ all[2] = Plain("CHECK")
          /\ all[3] = Plain("CALL") /\ all[4] = Plain("FOLD")
      BY <2>2
    <3> HIDE DEF all
    <3> QED  BY <1>1, <1>3, <3>1, PlainFits, SmallestFit
  <2>3. CASE plays = <<SmallestRaise, SmallestBet>>
    <3>1. Len(all) = 5 /\ all[1] = SmallestRaise /\ all[2] = SmallestBet
          /\ all[3] = Plain("CHECK") /\ all[4] = Plain("CALL") /\ all[5] = Plain("FOLD")
      BY <2>3
    <3> HIDE DEF all
    <3> QED  BY <1>1, <1>4, <3>1, PlainFits, SmallestFit
  <2> QED  BY <2>1, <2>2, <2>3
<1>7. c = FirstOf(all, LegalActions)  BY <1>5
<1> HIDE DEF all
<1> QED  BY <1>6, <1>7, LegalIs, ListIsHeard

\* The player of the benchmark is heard.
LEMMA BenchmarkIsHeard ==
  ASSUME RangeInv, DefaultGames, ~complete, hand.mode = "NO_LIMIT",
         NEW c \in BenchmarkChoices
  PROVE  Hears(c)
<1> DEFINE plays == <<Plain("CHECK"), Plain("CALL"), SmallestBet, SmallestRaise,
                      Plain("FOLD")>>
<1>1. RangesOpen  BY RangesAre
<1>2. \A i \in 1..5 : i = 1 \/ i = 2 \/ i = 3 \/ i = 4 \/ i = 5  OBVIOUS
<1>3. Len(plays) = 5 /\ plays[1] = Plain("CHECK") /\ plays[2] = Plain("CALL")
      /\ plays[3] = SmallestBet /\ plays[4] = SmallestRaise /\ plays[5] = Plain("FOLD")
  OBVIOUS
<1>4. c = FirstOf(plays, LegalActions)  BY DEF BenchmarkChoices
<1> HIDE DEF plays
<1>5. \A i \in 1..5 : Fits(plays[i])  BY <1>1, <1>2, <1>3, PlainFits, SmallestFit
<1>6. Len(plays) \in Nat \ {0}  BY <1>3
<1> QED  BY <1>3, <1>4, <1>5, <1>6, LegalIs, ListIsHeard

\* What the players of the scripts decide is always accepted, for the scripts' game
\* configurations and any stacks.
THEOREM ScriptsAlwaysHeard ==
  ASSUME DefaultGames PROVE Spec => []ScriptsAreHeard
<1>1. RangeInv => ScriptsAreHeard
  <2> SUFFICES ASSUME RangeInv, ~complete, NEW c \in ScriptChoices
               PROVE  Hears(c)
    BY DEF ScriptsAreHeard
  <2>1. CASE c \in CallingStation(LegalActions)
    BY <2>1, StationIsHeard
  <2>2. CASE c \in RandomBot(LegalActions) \/ c \in AggressiveBot(LegalActions)
    BY <2>2, RandomIsHeard, AggressiveBotIsHeard
  <2>3. CASE hand.mode # "LIMIT" /\ (c \in DemoRandom \/ c \in DemoAggressive)
    BY <2>3, DemoRandomIsHeard, DemoAggressiveIsHeard
  <2>4. CASE hand.mode = "NO_LIMIT" /\ c \in DemoChoices \cup SixMaxChoices
    <3>1. \/ c \in CallingStation(LegalActions) \/ c \in DemoRandom \/ c \in DemoAggressive
          \/ c \in TightAggressiveBot(LegalActions, EngineRange)
                   \cup LooseAggressiveBot(LegalActions, EngineRange)
                   \cup PotControlBot(LegalActions, EngineRange)
          \/ c \in ShortStackBot(LegalActions, EngineRange)
      BY <2>4 DEF DemoChoices, SixMaxChoices
    <3> QED  BY <2>1, <2>3, <2>4, <3>1, SharesAreHeard, PushIsHeard
  <2>5. CASE hand.mode = "NO_LIMIT" /\ c \in IntegrationChoices \cup BenchmarkChoices
    BY <2>5, IntegrationIsHeard, BenchmarkIsHeard
  <2> QED
    BY <2>1, <2>2, <2>3, <2>4, <2>5 DEF ScriptChoices, TwentyHandsChoices
<1> QED  BY <1>1, RangeInvHolds, PTL
-----------------------------------------------------------------------------
\* What the SDK takes to be legal is legal, except at the raise cap.
LEMMA OnlyTheCapIsMissed ==
  ASSUME RangeInv, NEW c, c.action \in InferredActions
  PROVE  /\ ~(Bets(c) /\ RaiseCapReached) => c.action \in LegalActions
         /\ Bets(c) /\ RaiseCapReached => c.action \notin LegalActions
<1>1. ToCall \in Nat  BY TurnIs DEF RangeInv
<1>2. (ToCall <= 0 <=> ToCall = 0) /\ (ToCall > 0 <=> ToCall # 0)  BY <1>1
<1> QED  BY <1>2 DEF LegalActions, InferredActions, Bets

\* An inferred choice without an amount is refused at the raise cap and nowhere else.
LEMMA PlainRefusal ==
  ASSUME RangeInv, DefaultGames, ~complete, NEW c, c.action \in InferredActions,
         Bets(c) => c.amount = NoAmount
  PROVE  ~Hears(c) <=> Bets(c) /\ RaiseCapReached
<1>1. CASE Bets(c) /\ RaiseCapReached
  <2>1. c.action \notin LegalActions  BY <1>1, OnlyTheCapIsMissed
  <2> QED  BY <1>1, <2>1 DEF Hears
<1>2. CASE ~(Bets(c) /\ RaiseCapReached)
  <2>1. c.action \in LegalActions  BY <1>2, OnlyTheCapIsMissed
  <2>2. Fits(c)  BY DEF Fits, Bets
  <2> QED  BY <1>2, <2>1, <2>2, FittingIsHeard
<1> QED  BY <1>1, <1>2

\* An inferred bet or raise of a named amount is refused at the cap, below the least
\* amount, and above the most that the pot allows.
LEMMA NamedRefusal ==
  ASSUME RangeInv, DefaultGames, ~complete, NEW c, c.action \in InferredActions, Bets(c),
         c.amount \in 0..chips[active]
  PROVE  ~Hears(c) <=> RaiseCapReached \/ BelowRange(c) \/ AbovePotLimit(c)
<1>1. CASE RaiseCapReached
  <2>1. c.action \notin LegalActions  BY <1>1, OnlyTheCapIsMissed
  <2> QED  BY <1>1, <2>1 DEF Hears
<1>2. CASE ~RaiseCapReached /\ hand.mode = "LIMIT"
  <2>1. c.action \in LegalActions  BY <1>2, OnlyTheCapIsMissed
  <2>2. Fits(c)  BY <1>2 DEF Fits
  <2>3. Hears(c)  BY <2>1, <2>2, FittingIsHeard
  <2> QED  BY <1>2, <2>3 DEF BelowRange, AbovePotLimit
<1>3. CASE ~RaiseCapReached /\ hand.mode # "LIMIT"
  <2>1. c.action \in LegalActions  BY <1>3, OnlyTheCapIsMissed
  <2>2. RangesOpen  BY <1>3, RangesAre
  <2>3. chips[active] \in Nat  BY TurnIs DEF RangeInv
  <2>4. c.amount \in Nat /\ c.amount <= chips[active] /\ c.amount # NoAmount
    BY <2>3 DEF NoAmount
  <2> DEFINE least == IF c.action = "BET" THEN MinBet ELSE MinRaise
             most == IF c.action = "BET" THEN MaxBet ELSE MaxRaise
  <2>5. Hears(c) <=> c.amount \in least..most
    <3>1. Hears(c) <=> Accepted(c.amount, least, most)
      BY <2>1, <2>4 DEF Hears, Bets
    <3>2. ~(c.amount > chips[active])  BY <2>3, <2>4
    <3> QED  BY <1>3, <3>1, <3>2 DEF Accepted
  <2>6. least \in Nat /\ most \in Nat /\ (hand.mode = "NO_LIMIT" => most = chips[active])
    <3>1. CASE c.action = "BET"
      BY <2>1, <2>2, <3>1 DEF RangesOpen
    <3>2. CASE c.action # "BET"
      BY <2>1, <2>2, <3>2 DEF RangesOpen, Bets
    <3> QED  BY <3>1, <3>2
  <2>7. hand.mode \in {"NO_LIMIT", "POT_LIMIT"}
    <3>1. hand \in Setups  BY DEF RangeInv, HandInv, TypeOK
    <3>2. hand \in Setup  BY <3>1, SetupsAssumption DEF SetupsAssumption
    <3> QED  BY <1>3, <3>2 DEF Setup, Modes
  <2>8. BelowRange(c) <=> c.amount < least  BY <1>3 DEF BelowRange
  <2>9. AbovePotLimit(c) <=> hand.mode = "POT_LIMIT" /\ c.amount > most
    BY DEF AbovePotLimit
  <2> HIDE DEF least, most
  <2>10. CASE hand.mode = "NO_LIMIT"
    BY <1>3, <2>3, <2>4, <2>5, <2>6, <2>8, <2>9, <2>10
  <2>11. CASE hand.mode = "POT_LIMIT"
    BY <1>3, <2>3, <2>4, <2>5, <2>6, <2>8, <2>9, <2>11
  <2> QED  BY <2>7, <2>10, <2>11
<1> QED  BY <1>1, <1>2, <1>3

\* Of a list of plays that ends with a fold, an SDK agent picks one it takes to be legal.
LEMMA InferredPick ==
  ASSUME RangeInv, NEW plays, Len(plays) \in Nat \ {0}, plays[Len(plays)] = Plain("FOLD")
  PROVE  \E j \in 1..Len(plays) : /\ FirstOf(plays, InferredActions) = plays[j]
                                  /\ plays[j].action \in InferredActions
<1>1. plays[Len(plays)].action \in InferredActions  BY LegalIs DEF Plain, Choose
<1>2. Len(plays) \in 1..Len(plays)  OBVIOUS
<1> QED  BY <1>1, <1>2, FirstOfIs

\* Raise, else bet, else a play that names no amount.
LEMMA InferredAggressive ==
  ASSUME RangeInv, NEW raise, NEW bet, NEW c,
         c = FirstOf(Aggressive(raise, bet), InferredActions)
  PROVE  /\ c.action \in InferredActions
         /\ c = raise \/ c = bet \/ ~Bets(c)
<1> DEFINE plays == Aggressive(raise, bet)
<1>1. /\ Len(plays) = 5 /\ plays[1] = raise /\ plays[2] = bet
      /\ plays[3] = Plain("CALL") /\ plays[4] = Plain("CHECK") /\ plays[5] = Plain("FOLD")
  BY AggressiveIs
<1> HIDE DEF plays
<1>2. Len(plays) \in Nat \ {0}  BY <1>1
<1>3. PICK j \in 1..Len(plays) :
        FirstOf(plays, InferredActions) = plays[j] /\ plays[j].action \in InferredActions
  BY <1>1, <1>2, InferredPick
<1>4. c = plays[j]  BY <1>3 DEF plays
<1>5. j = 1 \/ j = 2 \/ j = 3 \/ j = 4 \/ j = 5  BY <1>1
<1>6. c = raise \/ c = bet \/ c = Plain("CALL") \/ c = Plain("CHECK") \/ c = Plain("FOLD")
  BY <1>1, <1>4, <1>5
<1> QED  BY <1>3, <1>4, <1>6 DEF Bets, Plain, Choose

\* A check, else a fold, is no bet.
LEMMA InferredPassive ==
  ASSUME RangeInv, NEW c, c = FirstOf(CheckOrFold, InferredActions)
  PROVE  c.action \in InferredActions /\ ~Bets(c)
<1>1. Len(CheckOrFold) = 2 /\ CheckOrFold[1] = Plain("CHECK")
      /\ CheckOrFold[2] = Plain("FOLD")
  BY DEF CheckOrFold
<1>2. PICK j \in 1..Len(CheckOrFold) :
        /\ FirstOf(CheckOrFold, InferredActions) = CheckOrFold[j]
        /\ CheckOrFold[j].action \in InferredActions
  BY <1>1, InferredPick
<1>3. c = Plain("CHECK") \/ c = Plain("FOLD")  BY <1>1, <1>2
<1> QED  BY <1>2, <1>3 DEF Bets, Plain, Choose

\* The random and the aggressive bot are refused at the cap only.
LEMMA PlainBotsRefused ==
  ASSUME RangeInv, DefaultGames, ~complete,
         NEW c \in RandomBot(InferredActions) \cup AggressiveBot(InferredActions)
  PROVE  ~Hears(c) <=> Bets(c) /\ RaiseCapReached
<1>1. CASE c \in RandomBot(InferredActions)
  <2>1. PICK a \in InferredActions : c = Plain(a)  BY <1>1 DEF RandomBot
  <2>2. c.action \in InferredActions /\ c.amount = NoAmount
    BY <2>1 DEF Plain, Choose
  <2> QED  BY <2>2, PlainRefusal
<1>2. CASE c \in AggressiveBot(InferredActions)
  <2>1. c = FirstOf(Aggressive(Plain("RAISE"), Plain("BET")), InferredActions)
    BY <1>2 DEF AggressiveBot
  <2>2. /\ c.action \in InferredActions
        /\ c = Plain("RAISE") \/ c = Plain("BET") \/ ~Bets(c)
    BY <2>1, InferredAggressive
  <2>3. Bets(c) => c.amount = NoAmount  BY <2>2 DEF Plain, Choose
  <2> QED  BY <2>2, <2>3, PlainRefusal
<1> QED  BY <1>1, <1>2

\* A share of the pot up to the stack is within the pot limit.
LEMMA PotShareIs ==
  ASSUME pot \in Nat, chips[active] \in Nat, ToCall \in Nat, NEW percent \in {50, 90},
         NEW c, c.amount = PercentOfPot(percent, 0, chips[active])
  PROVE  c.amount \in 0..chips[active] /\ ~AbovePotLimit(c)
<1>1. c.amount \in 0..chips[active]  BY PercentIn
<1>2. (pot * percent) \div 100 \in Int /\ (pot * percent) \div 100 <= pot
  <2>1. CASE percent = 50  BY <2>1
  <2>2. CASE percent = 90  BY <2>2
  <2> QED  BY <2>1, <2>2
<1>3. c.amount <= pot
  <2> DEFINE part == (pot * percent) \div 100
  <2>1. c.amount = Max2(0, Min2(part, chips[active]))  BY DEF PercentOfPot
  <2>2. part \in Int /\ part <= pot  BY <1>2
  <2> HIDE DEF part
  <2> QED  BY <2>1, <2>2 DEF Max2, Min2
<1>4. hand.mode = "POT_LIMIT" => c.amount <= MaxBet /\ c.amount <= MaxRaise
  BY <1>1, <1>3 DEF MaxBet, MaxRaise, Min2
<1>5. hand.mode = "POT_LIMIT" => MaxBet \in Nat /\ MaxRaise \in Nat
  BY DEF MaxBet, MaxRaise, Min2
<1>6. ~AbovePotLimit(c)  BY <1>1, <1>4, <1>5 DEF AbovePotLimit
<1> QED  BY <1>1, <1>6

\* The bots that bet a share of the pot are refused at the cap and below the range.
LEMMA ShareBotsRefused ==
  ASSUME RangeInv, DefaultGames, ~complete,
         NEW c \in TightAggressiveBot(InferredActions, SdkRange)
                   \cup PotControlBot(InferredActions, SdkRange)
  PROVE  ~Hears(c) <=> Bets(c) /\ (RaiseCapReached \/ BelowRange(c))
<1>1. pot \in Nat /\ chips[active] \in Nat /\ ToCall \in Nat
  BY TurnIs DEF RangeInv, HandInv, TypeOK
<1>2. \/ \E percent \in {50, 90} : c = BetOfPot(percent, InferredActions, SdkRange)
      \/ c = FirstOf(CheckOrFold, InferredActions)
      \/ c = Plain("FOLD")
  BY DEF TightAggressiveBot, PotControlBot
<1>3. ASSUME NEW percent \in {50, 90}, c = BetOfPot(percent, InferredActions, SdkRange)
      PROVE  ~Hears(c) <=> Bets(c) /\ (RaiseCapReached \/ BelowRange(c))
  <2> DEFINE named == PercentOfPot(percent, 0, chips[active])
  <2>1. c = FirstOf(Aggressive(Choose("RAISE", named), Choose("BET", named)), InferredActions)
    BY <1>3 DEF BetOfPot, SdkRange
  <2>2. c = Choose("RAISE", named) \/ c = Choose("BET", named) =>
          c.amount = PercentOfPot(percent, 0, chips[active])
    BY DEF Choose
  <2> HIDE DEF named
  <2>3. /\ c.action \in InferredActions
        /\ c = Choose("RAISE", named) \/ c = Choose("BET", named) \/ ~Bets(c)
    BY <2>1, InferredAggressive
  <2>4. CASE ~Bets(c)  BY <2>3, <2>4, PlainRefusal
  <2>5. CASE Bets(c)
    <3>1. c.amount \in 0..chips[active] /\ ~AbovePotLimit(c)
      BY <1>1, <2>2, <2>3, <2>5, PotShareIs
    <3> QED  BY <2>3, <2>5, <3>1, NamedRefusal
  <2> QED  BY <2>4, <2>5
<1>4. CASE c = FirstOf(CheckOrFold, InferredActions)
  BY <1>4, InferredPassive, PlainRefusal
<1>5. CASE c = Plain("FOLD")
  <2>1. c.action \in InferredActions /\ ~Bets(c)
    BY <1>5, LegalIs DEF Bets, Plain, Choose
  <2> QED  BY <2>1, PlainRefusal
<1> QED  BY <1>2, <1>3, <1>4, <1>5

\* The bot that pushes its stack is refused at the cap and beyond the pot limit.
LEMMA PushRefused ==
  ASSUME RangeInv, DefaultGames, ~complete, NEW c \in ShortStackBot(InferredActions, SdkRange)
  PROVE  ~Hears(c) <=> Bets(c) /\ (RaiseCapReached \/ AbovePotLimit(c))
<1> DEFINE stack == chips[active]
<1>1. stack \in Nat /\ ToCall \in Nat /\ hand.bigBlind \in Nat /\ lastRaise \in Nat
  BY TurnIs, SetupIs DEF RangeInv, HandInv, TypeOK
<1>2. Min2(stack, stack) = stack  BY DEF Min2
<1>3. \/ c = FirstOf(Aggressive(Choose("RAISE", stack), Choose("BET", stack)), InferredActions)
      \/ c = FirstOf(CheckOrFold, InferredActions)
  BY <1>2 DEF ShortStackBot, SdkRange
<1>4. MinBet <= stack /\ MinRaise <= stack /\ MinBet \in Nat /\ MinRaise \in Nat
  BY <1>1 DEF MinBet, MinRaise, MinIncrement, Min2, Max2
<1> HIDE DEF stack
<1>5. CASE c = FirstOf(CheckOrFold, InferredActions)
  BY <1>5, InferredPassive, PlainRefusal
<1>6. CASE c = FirstOf(Aggressive(Choose("RAISE", stack), Choose("BET", stack)), InferredActions)
  <2>1. /\ c.action \in InferredActions
        /\ c = Choose("RAISE", stack) \/ c = Choose("BET", stack) \/ ~Bets(c)
    BY <1>6, InferredAggressive
  <2>2. CASE ~Bets(c)  BY <2>1, <2>2, PlainRefusal
  <2>3. CASE Bets(c)
    <3>1. c.amount = stack  BY <2>1, <2>3 DEF Choose
    <3>2. ~BelowRange(c)  BY <1>1, <1>4, <3>1 DEF BelowRange
    <3>3. c.amount \in 0..chips[active]  BY <1>1, <3>1 DEF stack
    <3> QED  BY <2>1, <2>3, <3>2, <3>3, NamedRefusal
  <2> QED  BY <2>2, <2>3
<1> QED  BY <1>3, <1>5, <1>6

\* Which choices of the SDK's strategies are refused, for every stack, blind, cap and
\* card: raises at the cap, shares of the pot below the range, pushes past the pot limit.
THEOREM SdkRefusalsAreThese ==
  ASSUME DefaultGames PROVE Spec => []SdkRefusals
<1>1. RangeInv => SdkRefusals
  BY StationIsHeard, PlainBotsRefused, ShareBotsRefused, PushRefused DEF SdkRefusals
<1> QED  BY <1>1, RangeInvHolds, PTL
-----------------------------------------------------------------------------
(***************************************************************************)
(* A hand as the table actor sees it.                                       *)
(***************************************************************************)
\* A bound on the moves of a hand: a street for each of four rounds, the chips, and
\* two for each of six seats.
MovesSuffice ==
  MaxMoves \in Nat /\ \A h \in Setups : 34 + 6 * Total(h.stacks) <= MaxMoves

\* What is needed of a hand: its chips, and that it moves on.
TableInv == MoneyInv /\ OrderInv

\* Only live seats are eligible for a pot.
LEMMA PotsAreForTheLive ==
  ASSUME NEW put, NEW all, NEW live, NEW k \in 1..7
  PROVE  Pots(put, all, live)[k].eligible \subseteq live
<1> DEFINE level == Levels(put, all)
<1>1. Pots(put, all, live) = PotsOfLevels(put, all, live, level)
  BY DEF Pots
<1> HIDE DEF level
<1>2. k = 1 \/ k = 2 \/ k = 3 \/ k = 4 \/ k = 5 \/ k = 6 \/ k = 7  OBVIOUS
<1>3. PotsOfLevels(put, all, live, level)[k].eligible \subseteq live
  BY <1>2 DEF PotsOfLevels, RestEligible
<1> QED  BY <1>1, <1>3

\* A seat that is not live wins nothing.
LEMMA OnlyTheLiveWin ==
  ASSUME NEW put, NEW all, NEW live, NEW order, NEW dealer,
         NEW s \in Seats, s \notin live
  PROVE  Winnings(put, all, live, order, dealer)[s] = 0
<1> DEFINE p == Pots(put, all, live)
<1>1. ASSUME NEW k \in 1..7  PROVE Share(p[k], order, dealer, s) = 0
  <2>1. p[k].eligible \subseteq live  BY PotsAreForTheLive
  <2> HIDE DEF p
  <2>2. s \notin Best(p[k].eligible, order)  BY <2>1 DEF Best
  <2> QED  BY <2>2 DEF Share
<1> HIDE DEF p
<1>2. PaidFrom(p, order, dealer)[s] = 0
  <2>1. /\ Share(p[1], order, dealer, s) = 0 /\ Share(p[2], order, dealer, s) = 0
        /\ Share(p[3], order, dealer, s) = 0 /\ Share(p[4], order, dealer, s) = 0
        /\ Share(p[5], order, dealer, s) = 0 /\ Share(p[6], order, dealer, s) = 0
        /\ Share(p[7], order, dealer, s) = 0
    BY <1>1
  <2> QED  BY <2>1 DEF PaidFrom
<1> QED  BY <1>2 DEF Winnings, p

\* At least two seats are dealt in.
LEMMA TwoAreDealtIn ==
  ASSUME NEW h \in Setups  PROVE Count(DealtIn(h)) >= 2
<1> DEFINE d == {h.dealer}
<1>1. /\ h.dealer \in Seats /\ h.dealer \in DealtIn(h) /\ DealtIn(h) # d
      /\ DealtIn(h) \in SUBSET Seats
  BY SetupIs
<1>2. PICK a \in Seats : a \in DealtIn(h) /\ a \notin d  BY <1>1
<1>3. \A s \in Seats : s \in d => s \in DealtIn(h)  BY <1>1
<1>4. Count(d) > 0 /\ Count(d) \in 0..6 /\ Count(DealtIn(h)) \in 0..6
  BY <1>1, CountType
<1> HIDE DEF d
<1>5. Count(d) + 1 <= Count(DealtIn(h))  BY <1>2, <1>3, CountDrops
<1> QED  BY <1>4, <1>5

\* A hand begins with at most as many moves left as the bound allows.
LEMMA MovesAtFirst ==
  ASSUME MovesSuffice, Init  PROVE MovesLeft \in 1..MaxMoves
<1>1. /\ hand \in Setups /\ street = "PREFLOP" /\ complete = FALSE
      /\ chips \in [Seats -> Nat] /\ totalBet \in [Seats -> Nat]
  BY InitHandInv DEF Init, HandInv, TypeOK
<1>2. \A s \in Seats : chips[s] + totalBet[s] = hand.stacks[s]
  BY <1>1, InitHandInv DEF HandInv, PotIsPutIn
<1>3. Total(chips) \in Nat /\ Total(hand.stacks) \in Nat /\ Total(chips) <= Total(hand.stacks)
  <2>1. hand.stacks \in [Seats -> Nat]  BY <1>1, SetupIs
  <2>2. \A s \in Seats : chips[s] <= hand.stacks[s] /\ chips[s] \in Nat /\ hand.stacks[s] \in Nat
    <3> TAKE s \in Seats
    <3>1. chips[s] \in Nat /\ totalBet[s] \in Nat /\ hand.stacks[s] \in Nat  BY <1>1, <2>1
    <3> QED  BY <1>2, <3>1
  <2> DEFINE st == hand.stacks
  <2> HIDE DEF st
  <2>3. /\ chips[0] \in Nat /\ chips[1] \in Nat /\ chips[2] \in Nat /\ chips[3] \in Nat
        /\ chips[4] \in Nat /\ chips[5] \in Nat /\ st[0] \in Nat /\ st[1] \in Nat
        /\ st[2] \in Nat /\ st[3] \in Nat /\ st[4] \in Nat /\ st[5] \in Nat
        /\ chips[0] <= st[0] /\ chips[1] <= st[1] /\ chips[2] <= st[2]
        /\ chips[3] <= st[3] /\ chips[4] <= st[4] /\ chips[5] <= st[5]
    BY <2>2 DEF Seats, st
  <2>4. Total(chips) \in Nat /\ Total(st) \in Nat /\ Total(chips) <= Total(st)
    BY <2>3 DEF Total
  <2> QED  BY <2>4 DEF st
<1>4. Count(Live \ acted) \in 0..6 /\ Count(Live) \in 0..6  BY CountType
<1>5. MovesLeft = 1 + 7 * 3 + 6 * Total(chips) + Count(Live \ acted) + Count(Live)
  BY <1>1 DEF MovesLeft, StreetsLeft
<1>6. MaxMoves \in Nat /\ 34 + 6 * Total(hand.stacks) <= MaxMoves
  BY <1>1 DEF MovesSuffice
<1> QED  BY <1>3, <1>4, <1>5, <1>6

\* A hand the engine starts is a hand as the actor's StartHand leaves it.
LEMMA HandStartsAtTable ==
  ASSUME MovesSuffice, Init  PROVE Table!HandStarted
<1>1. hand \in Setups /\ complete = FALSE /\ active = FirstToActPreflop(Dealt, hand.dealer)
  BY DEF Init
<1>2. /\ Dealt \in SUBSET Seats /\ hand.dealer \in Dealt
      /\ \A s \in Dealt : hand.stacks[s] > 0 /\ Count(Dealt) >= 2
  BY <1>1, SetupIs, TwoAreDealtIn DEF Dealt
<1>3. MovesLeft \in 1..MaxMoves  BY MovesAtFirst
<1>4. SeatStacks = hand.stacks /\ Button = hand.dealer
  BY <1>1 DEF SeatStacks, Button
<1>5. Table!WithChips(SeatStacks) = Dealt  BY <1>2, <1>4 DEF Table!WithChips
<1>6. Count(Dealt) = Table!Count(Dealt)
  BY DEF Count, Total, Seats, Table!Count, Table!Total, Table!Seats
<1>7. Table!FirstToActPreflop(Dealt, hand.dealer) = FirstToActPreflop(Dealt, hand.dealer)
  BY DEF FirstToActPreflop, HeadsUp, BigBlindSeat, SmallBlindSeat, FirstClockwise,
         StepsClockwise, Count, Total, Seats, Table!FirstToActPreflop, Table!HeadsUp,
         Table!BigBlindSeat, Table!SmallBlindSeat, Table!FirstClockwise,
         Table!StepsClockwise, Table!Count, Table!Total, Table!Seats
<1> QED
  BY <1>1, <1>2, <1>3, <1>4, <1>5, <1>6, <1>7 DEF Table!HandStarted

\* While a hand is on, a seat that is not dealt in has no chips.
LEMMA OutsidersHaveNothing ==
  ASSUME HandInv, ~complete, NEW s \in Seats, s \notin Dealt
  PROVE  chips[s] = 0
<1>1. hand.stacks[s] = 0  BY SetupIs DEF HandInv, TypeOK, Dealt
<1>2. chips[s] \in Nat /\ totalBet[s] \in Nat  BY DEF HandInv, TypeOK
<1>3. chips[s] + totalBet[s] = hand.stacks[s]  BY DEF HandInv, PotIsPutIn
<1> QED  BY <1>1, <1>2, <1>3

\* When a hand ends, the seats that were dealt in have all the chips they brought,
\* and nobody else has any.
LEMMA HandIsPaidOut ==
  ASSUME TableInv, MoneyInv', NEW paid \in Nat, NEW did, NEW count, NEW raise,
         FairMove(paid, did, count, raise), complete'
  PROVE  /\ pot' = 0 /\ active' = active /\ hand' = hand
         /\ chips' \in [Seats -> Nat] /\ Total(chips') = Total(hand.stacks)
         /\ \A s \in Seats : s \notin Dealt => chips'[s] = 0
<1> DEFINE bet == [currentBet EXCEPT ![active] = @ + paid]
<1>1. /\ ~complete /\ hand' = hand
      /\ chips' = [s \in Seats |->
                     chips[s] - (IF s = active THEN paid ELSE 0) + won'[s]]
      /\ \/ WinByFold(paid, bet, did, count, raise)
         \/ PassTurn(paid, bet, did, count, raise)
         \/ OpenStreet(paid, bet, did)
         \/ Showdown(paid, bet, did, count, raise)
  BY DEF FairMove, Move
<1> HIDE DEF bet
<1>2. /\ WinByFold(paid, bet, did, count, raise) \/ Showdown(paid, bet, did, count, raise)
      /\ pot' = 0 /\ active' = active
  BY <1>1 DEF WinByFold, PassTurn, OpenStreet, Showdown
<1>3. HandInv /\ active \in Dealt /\ Live' \subseteq Dealt
  <2>1. Dealt' = Dealt  BY <1>1 DEF Dealt
  <2> QED  BY <2>1, TurnIs DEF TableInv, MoneyInv, Live
<1>4. chips' \in [Seats -> Nat]  BY DEF MoneyInv, HandInv, TypeOK
<1>5. Total(chips') = Total(hand.stacks)
  <2>1. Total(chips') + pot' = Total(hand.stacks)  BY <1>1 DEF MoneyInv, ChipConservation
  <2>2. Total(chips') \in Nat  BY <1>4, TotalType
  <2> QED  BY <1>2, <2>1, <2>2
<1>6. ASSUME NEW s \in Seats, s \notin Dealt  PROVE chips'[s] = 0
  <2>1. chips[s] = 0  BY <1>1, <1>3, <1>6, OutsidersHaveNothing
  <2>2. won'[s] = 0
    <3>1. CASE WinByFold(paid, bet, did, count, raise)
      BY <1>3, <1>6, <3>1 DEF WinByFold
    <3>2. CASE Showdown(paid, bet, did, count, raise)
      <4>1. won' = Winnings(totalBet', allIn', Live', rank', hand.dealer)
        BY <3>2 DEF Showdown
      <4> QED  BY <1>3, <1>6, <4>1, OnlyTheLiveWin
    <3> QED  BY <1>2, <3>1, <3>2
  <2>3. s # active  BY <1>3, <1>6
  <2>4. chips'[s] = chips[s] - (IF s = active THEN paid ELSE 0) + won'[s]  BY <1>1
  <2>5. chips'[s] = 0 - 0 + 0  BY <2>1, <2>2, <2>3, <2>4
  <2> QED  BY <2>5
<1> QED  BY <1>1, <1>2, <1>4, <1>5, <1>6

\* A move that goes on is the actor's PlayOn.
LEMMA PlaysOnAtTable ==
  ASSUME TableInv, HandInv', NEW paid \in Nat, NEW did, NEW count, NEW raise,
         FairMove(paid, did, count, raise), ~complete'
  PROVE  Table!PlayOn
<1>1. ~complete /\ hand' = hand  BY DEF FairMove, Move
<1>2. MovesLeft' < MovesLeft /\ MovesLeft \in Nat /\ MovesLeft' \in Nat /\ MovesLeft' >= 1
  <2>1. MovesLeft' < MovesLeft  BY MoveUsesUp DEF TableInv
  <2>2. ASSUME HandInv, ~complete  PROVE MovesLeft \in Nat /\ MovesLeft >= 1
    <3>1. Total(chips) \in Nat  BY <2>2, TotalType DEF HandInv, TypeOK
    <3>2. Count(Live \ acted) \in 0..6 /\ Count(Live) \in 0..6  BY CountType
    <3>3. StreetsLeft \in 0..3  BY DEF StreetsLeft
    <3> QED  BY <2>2, <3>1, <3>2, <3>3 DEF MovesLeft
  <2>3. MovesLeft' \in Nat /\ MovesLeft' >= 1
    <3>1. Total(chips') \in Nat  BY TotalType DEF HandInv, TypeOK
    <3>2. Count(Live' \ acted') \in 0..6 /\ Count(Live') \in 0..6  BY CountType
    <3>3. StreetsLeft' \in 0..3  BY DEF StreetsLeft
    <3>4. MovesLeft' = 1 + 7 * StreetsLeft' + 6 * Total(chips') + Count(Live' \ acted')
                         + Count(Live')
      BY DEF MovesLeft
    <3> QED  BY <3>1, <3>2, <3>3, <3>4
  <2> QED  BY <1>1, <2>1, <2>2, <2>3 DEF TableInv, MoneyInv
<1>3. MovesLeft' \in 1..(MovesLeft - 1)  BY <1>2
<1>4. Dealt' = Dealt /\ active' \in Dealt
  BY <1>1 DEF Dealt, HandInv, TypeOK
<1>5. SeatStacks' = SeatStacks /\ Button' = Button
  BY <1>1 DEF SeatStacks, Button
<1> QED  BY <1>1, <1>3, <1>4, <1>5 DEF Table!PlayOn

\* A move that ends the hand is the actor's CompleteHand: what is paid out are exactly
\* the chips that the seats brought.
LEMMA CompletesAtTable ==
  ASSUME TableInv, MoneyInv', NEW paid \in Nat, NEW did, NEW count, NEW raise,
         FairMove(paid, did, count, raise), complete'
  PROVE  Table!CompleteHand
<1>1. /\ active' = active /\ hand' = hand /\ ~complete
      /\ chips' \in [Seats -> Nat] /\ Total(chips') = Total(hand.stacks)
      /\ \A s \in Seats : s \notin Dealt => chips'[s] = 0
  BY HandIsPaidOut DEF FairMove, Move
<1>2. /\ hand \in Setups /\ Dealt' = Dealt /\ Dealt \in SUBSET Seats
      /\ hand.stacks \in [Seats -> Nat] /\ \A s \in Seats : s \notin Dealt => hand.stacks[s] = 0
  BY <1>1, SetupIs DEF Dealt, TableInv, MoneyInv, HandInv, TypeOK
<1>3. SeatStacks = hand.stacks /\ SeatStacks' = chips' /\ Button = hand.dealer
  BY <1>1 DEF SeatStacks, Button
<1>4. MovesLeft' = 0  BY DEF MovesLeft
<1>5. /\ Table!Seats = Seats
      /\ \A f : Table!Total(f) = Total(f)
      /\ \A S : Table!Count(S) = Count(S)
  BY DEF Table!Seats, Seats, Table!Total, Total, Table!Count, Count
<1>6. \A S, d : Table!AdvanceDealer(S, d) = AdvanceDealer(S, d)
  BY DEF Table!AdvanceDealer, AdvanceDealer, Table!FirstClockwise, FirstClockwise,
         Table!StepsClockwise, StepsClockwise, Table!LowestSeat, LowestSeat
<1> DEFINE result == [s \in Dealt |-> chips'[s]]
           playing == IF complete THEN {} ELSE Dealt
<1>7. playing = Dealt  BY <1>1
<1>8. result \in [playing -> 0..Table!Total(SeatStacks)]
  <2>1. \A s \in Dealt : chips'[s] \in Nat /\ chips'[s] <= Total(chips')
    BY <1>1, <1>2, TotalType
  <2>2. Total(chips') \in Nat  BY <1>1, TotalType
  <2>3. Table!Total(SeatStacks) = Total(chips')  BY <1>1, <1>3, <1>5
  <2> QED  BY <1>7, <2>1, <2>2, <2>3
<1>9. Table!PaidOut(result) = chips'
  <2>1. Table!PaidOut(result)
          = [s \in Seats |-> IF s \in Dealt THEN chips'[s] ELSE hand.stacks[s]]
    BY <1>1, <1>3, <1>5 DEF Table!PaidOut
  <2>2. \A s \in Seats : (IF s \in Dealt THEN chips'[s] ELSE hand.stacks[s]) = chips'[s]
    BY <1>1, <1>2
  <2>3. chips' = [s \in Seats |-> chips'[s]]  BY <1>1
  <2> QED  BY <2>1, <2>2, <2>3
<1>10. Table!AtStake(result) = Table!AtStake(SeatStacks)
  <2>1. Table!AtStake(result) = Total(chips')
    <3>1. Table!AtStake(result) = Total([s \in Seats |-> IF s \in Dealt THEN result[s] ELSE 0])
      BY <1>1, <1>5 DEF Table!AtStake
    <3>2. [s \in Seats |-> IF s \in Dealt THEN result[s] ELSE 0] = chips'
      <4>1. \A s \in Seats : (IF s \in Dealt THEN result[s] ELSE 0) = chips'[s]  BY <1>1
      <4>2. chips' = [s \in Seats |-> chips'[s]]  BY <1>1
      <4> QED  BY <4>1, <4>2
    <3> QED  BY <3>1, <3>2
  <2>2. Table!AtStake(SeatStacks) = Total(hand.stacks)
    <3>1. Table!AtStake(SeatStacks)
            = Total([s \in Seats |-> IF s \in Dealt THEN hand.stacks[s] ELSE 0])
      BY <1>1, <1>3, <1>5 DEF Table!AtStake
    <3>2. [s \in Seats |-> IF s \in Dealt THEN hand.stacks[s] ELSE 0] = hand.stacks
      <4>1. \A s \in Seats : (IF s \in Dealt THEN hand.stacks[s] ELSE 0) = hand.stacks[s]
        BY <1>2
      <4>2. hand.stacks = [s \in Seats |-> hand.stacks[s]]  BY <1>2
      <4> QED  BY <4>1, <4>2
    <3> QED  BY <3>1, <3>2
  <2> QED  BY <1>1, <2>1, <2>2
<1>11. Button' = Table!ButtonAfter(chips')
  <2>1. Button' = IF Count({s \in Dealt : chips'[s] > 0}) >= 2
                  THEN AdvanceDealer({s \in Dealt : chips'[s] > 0}, hand.dealer)
                  ELSE hand.dealer
    BY <1>1, <1>2 DEF Button
  <2>2. Table!WithChips(chips') = {s \in Dealt : chips'[s] > 0}  BY DEF Table!WithChips
  <2> QED  BY <1>3, <1>5, <1>6, <2>1, <2>2 DEF Table!ButtonAfter
<1> HIDE DEF result, playing
<1>12. \E r \in [playing -> 0..Table!Total(SeatStacks)] :
         /\ Table!AtStake(r) = Table!AtStake(SeatStacks)
         /\ SeatStacks' = Table!PaidOut(r)
         /\ Button' = Table!ButtonAfter(Table!PaidOut(r))
  BY <1>3, <1>8, <1>9, <1>10, <1>11
<1> QED  BY <1>1, <1>4, <1>12 DEF Table!CompleteHand, playing

\* A hand of the engine is to the table actor what TableActor says of one: dealt as
\* StartHand has it, every accepted action passes the turn to a seat of the hand and
\* uses up moves, or completes it and shares out exactly what the seats brought
\* (table-actor.ts on top of engine.ts).
THEOREM TablePromiseKept ==
  ASSUME AntesLeaveChips, MovesSuffice  PROVE Spec => KeepsTablePromise
<1>1. Init => TableInv /\ Table!HandStarted
  BY InitMoneyInv, InitOrderInv, HandStartsAtTable DEF TableInv
<1>2. TableInv /\ [Next]_vars => TableInv'
  BY NextMoneyInv, NextOrderInv DEF TableInv
<1>3. ASSUME TableInv, [Next]_vars
      PROVE  [Table!Moved /\ UNCHANGED Dealt]_(Table!actorVars)
  <2>1. CASE UNCHANGED vars
    <3>1. UNCHANGED <<Dealt, SeatStacks, Button, active, MovesLeft, complete>>
      BY <2>1 DEF vars, bets, Dealt, SeatStacks, Button, MovesLeft, StreetsLeft, Live
    <3> QED  BY <3>1 DEF Table!actorVars, Table!handVars
  <2>2. CASE Next /\ ~(UNCHANGED vars)
    <3>1. HandInv /\ MoneyInv' /\ HandInv'
      BY <1>2, <1>3 DEF TableInv, MoneyInv
    <3>2. PICK paid \in Nat, count \in Nat, raise \in Nat :
             \E did : FairMove(paid, did, count, raise)
      BY <2>2, <3>1, StepsAreFair
    <3>3. PICK did : FairMove(paid, did, count, raise)  BY <3>2
    <3>4. Table!PlayOn \/ Table!CompleteHand
      BY <1>3, <3>1, <3>3, PlaysOnAtTable, CompletesAtTable
    <3>5. ~complete /\ Dealt' = Dealt /\ Dealt # {}
      <4>1. ~complete /\ hand' = hand  BY <3>3 DEF FairMove, Move
      <4> QED  BY <3>1, <4>1, TurnIs DEF Dealt
    <3> QED  BY <3>4, <3>5 DEF Table!Moved, Table!HandIsOn
  <2> QED  BY <1>3, <2>1, <2>2
<1> QED  BY <1>1, <1>2, <1>3, PTL DEF Spec, KeepsTablePromise
=============================================================================
