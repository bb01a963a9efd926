------------------------------ MODULE PokerHand ------------------------------
(***************************************************************************)
(* One hand of Texas Hold'em as the poker engine plays it                   *)
(* (poker-engine/src/engine.ts): createInitialState is Init, and applyAction *)
(* is the five actions Fold, Check, Call, Bet and Raise, each with          *)
(* everything it leads to: passing the turn, opening the next street,       *)
(* running out the board, or finishing the hand and paying the pots.        *)
(* An action the engine rejects (PokerError) changes nothing, so it is an   *)
(* action that is not enabled.                                              *)
(*                                                                         *)
(* Definitions named for what they get wrong (CheckUnmarked, ...) are       *)
(* mistakes one could make in the definition below them.  Nothing uses      *)
(* them: put in the place of the right one, each breaks a property below.   *)
(*                                                                         *)
(* Cards are abstracted.  The community cards are their number, and the     *)
(* strength of the hands is a rank per live seat, chosen when the showdown  *)
(* compares them: every order, ties included, is possible.                  *)
(***************************************************************************)
EXTENDS SidePots

CONSTANTS
  Setups,   \* the hands that may be dealt: see Setup
  Amounts,  \* the amounts an agent may name in a BET or RAISE
  Ranks     \* the strengths a hand may have

Modes   == {"LIMIT", "NO_LIMIT", "POT_LIMIT"}
Streets == {"PREFLOP", "FLOP", "TURN", "RIVER", "SHOWDOWN"}

\* What createInitialState is given: the game configuration, the dealer, and
\* the chips of each seat, 0 for a seat that is not dealt in.
Setup ==
  [mode : Modes, smallBlind : Nat, bigBlind : Nat, smallBet : Nat, bigBet : Nat,
   cap : Nat, ante : Nat, dealer : Seats, stacks : [Seats -> Nat]]

DealtIn(h) == {s \in Seats : h.stacks[s] > 0}

\* A table starts a hand for two or more seats that have chips, and the dealer
\* is one of them.  Blinds are positive, and so are the bets of LIMIT; the other
\* modes leave the bets at 0.
SetupsAssumption ==
  \A h \in Setups :
    /\ h \in Setup
    /\ h.dealer \in DealtIn(h)
    /\ DealtIn(h) # {h.dealer}
    /\ h.smallBlind > 0 /\ h.bigBlind >= h.smallBlind
    /\ h.mode = "LIMIT" => h.smallBet > 0 /\ h.bigBet > 0
ASSUME SetupsAssumption

ASSUME AmountsAssumption == Amounts \subseteq Nat
ASSUME RanksAssumption == Ranks \subseteq Nat

VARIABLES
  hand,           \* the setup this hand was dealt from
  street,
  board,          \* how many community cards are dealt
  chips,          \* chips behind, per seat
  currentBet,     \* put in on this street, antes excluded
  totalBet,       \* put in over the hand, antes included
  folded,         \* the seats that have folded
  acted,          \* the seats with hasActed set on this street
  allIn,          \* the seats that are all-in
  active,         \* the seat to act
  pot,            \* the chips in the middle
  betsThisStreet,
  lastRaise,      \* the last raise increment, lastRaiseSize
  complete,       \* isHandComplete
  rank,           \* hand strengths shown down, 0 for a seat that shows nothing
  won             \* what each seat was paid at the end of the hand

bets == <<currentBet, totalBet, folded, acted, allIn, betsThisStreet, lastRaise>>
vars == <<hand, street, board, chips, bets, active, pot, complete, rank, won>>

-----------------------------------------------------------------------------
Dealt  == DealtIn(hand)
Live   == Dealt \ folded         \* nonFoldedPlayers

CanActEvenAllIn == Live
CanAct == Live \ allIn

HighestBet == Highest(currentBet)
ToCall == HighestBet - currentBet[active]

RaiseCapPassed == hand.cap # 0 /\ betsThisStreet > hand.cap

\* A cap of 0 is no cap.
RaiseCapReached == hand.cap # 0 /\ betsThisStreet >= hand.cap

\* The fixed bet of LIMIT poker.
BetSize == IF street \in {"PREFLOP", "FLOP"} THEN hand.smallBet ELSE hand.bigBet

\* The range of amounts of no-limit and pot-limit poker.
MinIncrement == Max2(lastRaise, hand.bigBlind)
MinBet   == Min2(hand.bigBlind, chips[active])
MaxBet   == IF hand.mode = "POT_LIMIT" THEN Min2(pot, chips[active])
            ELSE chips[active]
MinRaise == Min2(ToCall + MinIncrement, chips[active])
MaxRaise == IF hand.mode = "POT_LIMIT"
            THEN Min2(ToCall + pot + ToCall, chips[active])
            ELSE chips[active]

\* The validation of a named amount.  More than the stack means all-in, and
\* that is decided before the range is looked at.
Accepted(requested, least, most) ==
  \/ hand.mode = "LIMIT"
  \/ requested > chips[active]
  \/ requested \in least..most

PutInUnlimited(requested, fixed) ==
  IF hand.mode = "LIMIT" THEN fixed ELSE requested

\* What the accepted bet or raise puts in; LIMIT takes no notice of the amount
\* that was named.
PutIn(requested, fixed) ==
  Min2(IF hand.mode = "LIMIT" THEN fixed ELSE requested, chips[active])

-----------------------------------------------------------------------------
AntePaid(h, s) == Min2(h.ante, h.stacks[s])

BlindPaid(h, s) ==
  LET dealt == DealtIn(h)
      due == IF s = SmallBlindSeat(dealt, h.dealer) THEN h.smallBlind
             ELSE IF s = BigBlindSeat(dealt, h.dealer) THEN h.bigBlind ELSE 0
  IN  Min2(due, h.stacks[s] - AntePaid(h, s))

Init ==
  /\ hand \in Setups
  /\ street = "PREFLOP" /\ board = 0
  /\ currentBet = [s \in Seats |-> BlindPaid(hand, s)]
  /\ totalBet = [s \in Seats |-> AntePaid(hand, s) + BlindPaid(hand, s)]
  /\ chips = [s \in Seats |-> hand.stacks[s] - totalBet[s]]
  /\ pot = Total(totalBet)
  /\ folded = {} /\ acted = {}
  /\ allIn = {s \in Dealt : chips[s] = 0 /\ totalBet[s] > 0}
  /\ active = FirstToActPreflop(Dealt, hand.dealer)
  /\ betsThisStreet = 1 /\ lastRaise = hand.bigBlind
  /\ complete = FALSE
  /\ rank = Nothing /\ won = Nothing

-----------------------------------------------------------------------------
(***************************************************************************)
(* What follows a player's move.  Each of the next four is one outcome of   *)
(* the end of applyAction; folded', allIn' and totalBet' are already the    *)
(* values the move leaves, and `paid', `bet', `did', `count', `raise' are   *)
(* the chips it put in and the values it leaves in currentBet, acted,       *)
(* betsThisStreet and lastRaise.                                            *)
(***************************************************************************)
OneLeft == \E s \in Seats : Live' = {s}

RoundOverWhenMatched(bet, did) ==
  \A s \in CanAct' : bet[s] = Highest(bet)

\* allPlayersActedAndMatched, or nobody to pass the turn to.
RoundOver(bet, did) ==
  \/ \A s \in CanAct' : s \in did /\ bet[s] = Highest(bet)
  \/ CanAct' \ {active} = {}

\* At most one live seat can still act: there is no more betting.
NoMoreBetting == \A s, t \in CanAct' : s = t

KeepRound(bet, did, count, raise) ==
  /\ currentBet' = bet /\ acted' = did
  /\ betsThisStreet' = count /\ lastRaise' = raise

\* The reset when a street opens.
FreshRound ==
  KeepRound(Nothing, {}, 0, hand.bigBlind)

NextStreet ==
  IF street = "PREFLOP" THEN "FLOP"
  ELSE IF street = "FLOP" THEN "TURN"
  ELSE IF street = "TURN" THEN "RIVER" ELSE "SHOWDOWN"

\* The last live seat wins everything.
WinByFold(paid, bet, did, count, raise) ==
  /\ OneLeft
  /\ won' = [s \in Seats |-> IF s \in Live' THEN pot + paid ELSE 0]
  /\ complete' = TRUE /\ pot' = 0
  /\ KeepRound(bet, did, count, raise)
  /\ UNCHANGED <<street, board, active, rank>>

PassTurn(paid, bet, did, count, raise) ==
  /\ ~OneLeft /\ ~RoundOver(bet, did)
  /\ active' = NextActiveSeat(active, CanAct')
  /\ pot' = pot + paid
  /\ KeepRound(bet, did, count, raise)
  /\ UNCHANGED <<street, board, complete, rank, won>>

OpenStreet(paid, bet, did) ==
  /\ ~OneLeft /\ RoundOver(bet, did)
  /\ ~NoMoreBetting /\ street # "RIVER"
  /\ street' = NextStreet
  /\ board' = IF street = "PREFLOP" THEN 3 ELSE board + 1
  /\ FreshRound
  /\ active' = FirstToActPostflop(hand.dealer, CanAct')
  /\ pot' = pot + paid
  /\ UNCHANGED <<complete, rank, won>>

\* The rest of the board is dealt, the live hands are compared and the pots are
\* paid.  After a full river round the bets are reset first.
Showdown(paid, bet, did, count, raise) ==
  /\ ~OneLeft /\ RoundOver(bet, did)
  /\ NoMoreBetting \/ street = "RIVER"
  /\ IF NoMoreBetting THEN KeepRound(bet, did, count, raise) ELSE FreshRound
  /\ street' = "SHOWDOWN" /\ board' = 5
  /\ \E r \in [Live' -> Ranks] :
       rank' = [s \in Seats |-> IF s \in Live' THEN r[s] ELSE 0]
  /\ won' = Winnings(totalBet', allIn', Live', rank', hand.dealer)
  /\ complete' = TRUE /\ pot' = 0
  /\ UNCHANGED active

\* The seat to act puts in `paid' chips, and the hand goes on from there.
Move(paid, did, count, raise) ==
  LET bet == [currentBet EXCEPT ![active] = @ + paid] IN
  /\ ~complete
  /\ UNCHANGED hand
  /\ totalBet' = [totalBet EXCEPT ![active] = @ + paid]
  /\ allIn' = IF chips[active] = paid THEN allIn \cup {active} ELSE allIn
  /\ \/ WinByFold(paid, bet, did, count, raise)
     \/ PassTurn(paid, bet, did, count, raise)
     \/ OpenStreet(paid, bet, did)
     \/ Showdown(paid, bet, did, count, raise)
  /\ chips' = [s \in Seats |->
                 chips[s] - (IF s = active THEN paid ELSE 0) + won'[s]]

-----------------------------------------------------------------------------
CallAmount == Min2(ToCall, chips[active])

NobodyMustAnswer == acted

\* A bet or raise makes every other seat that can still act act again.
MustAnswer == acted \cap (folded \cup allIn)

Fold ==
  /\ folded' = folded \cup {active}
  /\ Move(0, acted, betsThisStreet, lastRaise)

CheckUnmarked ==
  /\ ToCall = 0
  /\ folded' = folded
  /\ Move(0, acted, betsThisStreet, lastRaise)

Check ==
  /\ ToCall = 0
  /\ folded' = folded
  /\ Move(0, acted \cup {active}, betsThisStreet, lastRaise)

Call ==
  /\ ToCall > 0
  /\ folded' = folded
  /\ Move(CallAmount, acted \cup {active},
          betsThisStreet, lastRaise)

Bet(requested) ==
  LET paid == PutIn(requested, BetSize) IN
  /\ ToCall = 0 /\ ~RaiseCapReached /\ chips[active] > 0
  /\ Accepted(requested, MinBet, MaxBet)
  /\ folded' = folded
  /\ Move(paid, MustAnswer \cup {active}, betsThisStreet + 1, paid)

\* A raise remembers its increment: in LIMIT the fixed bet, even when the chips
\* did not reach it.
Raise(requested) ==
  LET paid == PutIn(requested, ToCall + BetSize)
      increment == IF hand.mode = "LIMIT" THEN BetSize ELSE paid - ToCall
  IN
  /\ ToCall > 0 /\ ~RaiseCapReached /\ chips[active] > ToCall
  /\ Accepted(requested, MinRaise, MaxRaise)
  /\ folded' = folded
  /\ Move(paid, MustAnswer \cup {active}, betsThisStreet + 1,
          IF increment > 0 THEN increment ELSE lastRaise)

\* A finished hand stays as it is.
Over == complete /\ UNCHANGED vars

Next ==
  \/ Fold
  \/ Check
  \/ Call
  \/ \E requested \in Amounts : Bet(requested) \/ Raise(requested)
  \/ Over

Spec == Init /\ [][Next]_vars

-----------------------------------------------------------------------------
\* The types of the variables.
TypeOK ==
  /\ hand \in Setups
  /\ street \in Streets /\ board \in 0..5
  /\ chips \in [Seats -> Nat] /\ won \in [Seats -> Nat] /\ rank \in [Seats -> Nat]
  /\ currentBet \in [Seats -> Nat] /\ totalBet \in [Seats -> Nat]
  /\ folded \subseteq Dealt /\ acted \subseteq Dealt /\ allIn \subseteq Dealt
  /\ active \in Dealt
  /\ pot \in Nat /\ betsThisStreet \in Nat /\ lastRaise \in Nat
  /\ complete \in BOOLEAN

\* No chip appears or disappears: what the seats hold and what is in the middle
\* is always what they brought, whichever pots and splits the hand ends in.
ChipConservation == Total(chips) + pot = Total(hand.stacks)

\* hasActed never outlives a bet it did not answer: a seat that can still act
\* and is marked as having acted has matched the highest bet.
ActedSeatsHaveMatched ==
  ~complete => \A s \in CanAct \cap acted : currentBet[s] = HighestBet

\* The turn is with a seat that is in the hand; only before the flop may it be
\* with a seat the blinds put all-in.
TurnIsLive ==
  ~complete => /\ active \in Live
               /\ active \in allIn => street = "PREFLOP" /\ acted = {}

\* Nobody sees the next card, or the showdown, cheaper than anybody else: when a
\* betting round ends, every seat with chips left has answered the last bet and
\* has put in as much over the hand as any other seat.
RoundEndsMatched ==
  [][street' # street =>
       /\ CanAct' \ {active} \subseteq acted
       /\ \A s \in CanAct' : \A t \in Seats : totalBet'[t] <= totalBet'[s]]_vars

\* The highest bet of a LIMIT street is bounded by the cap (the big blind is one
\* bet; BetSize = bigBlind on the first streets).
LimitStreetIsCapped ==
  hand.mode = "LIMIT" /\ hand.cap > 0 /\ hand.smallBet = hand.bigBlind =>
    HighestBet <= hand.cap * BetSize

-----------------------------------------------------------------------------
\* What a seat can win at most by its own stake, and what all others' bets leave
\* uncalled of it.
Matched(s)  == UpTo(totalBet, totalBet[s])
Uncalled(s) ==
  Max2(0, totalBet[s] - Highest([totalBet EXCEPT ![s] = 0]))

ShownDown == complete /\ street = "SHOWDOWN"

\* A live seat wins nothing from chips beyond its own stake while another live
\* seat put in more: that is the other seats' side pot.
StakeBoundsWinnings ==
  ShownDown => \A s, t \in Live : totalBet[s] < totalBet[t] => won[s] <= Matched(s)

\* A seat that beats every other live seat collects everything it matched, in
\* whatever pots that lies.
BestHandCollects ==
  ShownDown => \A s \in Live : (\A t \in Live \ {s} : rank[t] < rank[s])
                                 => won[s] >= Matched(s)

\* A seat still in the hand gets back what nobody called, whoever wins.
UncalledBetReturns ==
  ShownDown => \A s \in Live : won[s] >= Uncalled(s)

\* Of two seats with equal hands and equal stakes, the one further from the
\* dealer's left never takes more.
OddChipsGoLeft ==
  ShownDown => \A s, t \in Live :
    /\ rank[s] = rank[t] /\ totalBet[s] = totalBet[t]
    /\ StepsClockwise(hand.dealer, s) < StepsClockwise(hand.dealer, t)
    => won[s] >= won[t]

-----------------------------------------------------------------------------
\* Every hand ends: each move uses up chips behind (a bet or raise), a seat (a
\* fold), a seat's turn to act (a check or call), or a street, and none of them
\* gives back as much as it uses.  A seat that checks without being marked, a
\* street that opens twice or a raise of nothing would break this.
StreetsLeft ==
  IF street = "PREFLOP" THEN 3
  ELSE IF street = "FLOP" THEN 2
  ELSE IF street = "TURN" THEN 1 ELSE 0

MovesLeft ==
  IF complete THEN 0
  ELSE 1 + 7 * StreetsLeft + 6 * Total(chips) + Count(Live \ acted) + Count(Live)

HandMovesOn == [][MovesLeft' < MovesLeft]_vars

\* The hand keeps the promise of HandMoney.
Money == INSTANCE HandMoney WITH stacks <- chips, middle <- pot, settled <- complete
KeepsMoneyPromise == Money!Spec

-----------------------------------------------------------------------------
\* docs/SKILL.md (Pot-Limit): a raise puts in at most the call and the size of
\* the pot after that call, and a bet at most the pot.
PotLimitHolds ==
  [][LET paid == totalBet'[active] - totalBet[active] IN
     hand.mode = "POT_LIMIT" /\ paid > ToCall => paid <= ToCall + pot + ToCall]_vars
=============================================================================
