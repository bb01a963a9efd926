----------------------------- MODULE Strategies ------------------------------
(***************************************************************************)
(* What automatic players decide when it is their turn in a PokerHand: the  *)
(* strategies of the agent SDK (agent-sdk/src), which see what the server   *)
(* sends an agent, and the players of the scripts, which call the engine    *)
(* themselves.  Hole cards only matter by the tier the strategies sort them *)
(* into, and the seat to act may hold any.                                  *)
(* A choice that the engine rejects is not made again by either.  That a    *)
(* bet or raise need not name an amount is the engine's; docs/SKILL.md:913  *)
(* says it is refused.                                                      *)
(* An operator named for a mistake stands before the one it resembles;      *)
(* nothing uses it.                                                         *)
(***************************************************************************)
EXTENDS PokerHand, Sequences

NoAmount == -1
Choose(action, amount) == [action |-> action, amount |-> amount]
Plain(action) == Choose(action, NoAmount)

\* evaluateHandTier: from premium hands to weak ones.
Tiers == 1..5

\* The first of the plays, in the order given, that is open to the player.
FirstOf(plays, legal) ==
  plays[LowestSeat({i \in 1..Len(plays) : plays[i].action \in legal})]

CheckOrFold   == <<Plain("CHECK"), Plain("FOLD")>>
CallOrCheck   == <<Plain("CALL"), Plain("CHECK"), Plain("FOLD")>>
Aggressive(raise, bet) == <<raise, bet>> \o CallOrCheck

-----------------------------------------------------------------------------
\* getLegalActions of the engine.
LegalActions ==
  {"FOLD"}
  \cup (IF ToCall = 0 THEN {"CHECK"} ELSE {"CALL"})
  \cup {a \in {"BET"}   : ToCall = 0 /\ ~RaiseCapReached /\ chips[active] > 0}
  \cup {a \in {"RAISE"} : ToCall # 0 /\ ~RaiseCapReached /\ chips[active] > ToCall}

InferredWithoutMargin ==
  {"FOLD"}
  \cup (IF ToCall <= 0 THEN {"CHECK"} ELSE {"CALL"})
  \cup {a \in {"BET"}   : ToCall <= 0 /\ chips[active] > 0}
  \cup {a \in {"RAISE"} : ToCall > 0 /\ chips[active] >= ToCall}

\* inferLegalActions of the SDK, from the bets and chips of the STATE message: it
\* knows nothing of the cap on raises.
InferredActions ==
  {"FOLD"}
  \cup (IF ToCall <= 0 THEN {"CHECK"} ELSE {"CALL"})
  \cup {a \in {"BET"}   : ToCall <= 0 /\ chips[active] > 0}
  \cup {a \in {"RAISE"} : ToCall > 0 /\ chips[active] > ToCall}

\* What the engine makes of a choice.  A bet or raise without an amount is the
\* smallest one (`action.amount ?? ranges.minBet').
Hears(choice) ==
  LET Named(least) == IF choice.amount = NoAmount THEN least ELSE choice.amount IN
  /\ choice.action \in LegalActions
  /\ choice.action = "BET"   => Accepted(Named(MinBet), MinBet, MaxBet)
  /\ choice.action = "RAISE" => Accepted(Named(MinRaise), MinRaise, MaxRaise)

-----------------------------------------------------------------------------
(***************************************************************************)
(* The strategies, with the actions a player may take, and the range it     *)
(* takes the amounts from.  The server sends the SDK no range, so there it  *)
(* is 0 up to the stack.                                                    *)
(***************************************************************************)
SdkRange    == [minBet |-> 0, maxBet |-> chips[active],
                minRaise |-> 0, maxRaise |-> chips[active]]
EngineRange == [minBet |-> MinBet, maxBet |-> MaxBet,
                minRaise |-> MinRaise, maxRaise |-> MaxRaise]

CallingStation(legal) ==
  {FirstOf(<<Plain("CHECK"), Plain("CALL"), Plain("FOLD")>>, legal)}

\* Any action but a fold; the SDK names no amount.
RandomBot(legal) == {Plain(a) : a \in legal \ {"FOLD"}}

AggressiveBot(legal) == {FirstOf(Aggressive(Plain("RAISE"), Plain("BET")), legal)}

PercentOfPotCapped(percent, least, most) == Min2((pot * percent) \div 100, most)

\* A share of the pot, no more than the most and no less than the least amount.
PercentOfPot(percent, least, most) ==
  Max2(least, Min2((pot * percent) \div 100, most))

BetOfPot(percent, legal, range) ==
  FirstOf(Aggressive(
    Choose("RAISE", PercentOfPot(percent, range.minRaise, range.maxRaise)),
    Choose("BET", PercentOfPot(percent, range.minBet, range.maxBet))), legal)

TightAggressiveBot(legal, range) ==
  {IF tier <= 2 THEN BetOfPot(90, legal, range) ELSE FirstOf(CheckOrFold, legal)
     : tier \in Tiers}

PotControlBot(legal, range) ==
  {IF tier = 5 /\ "CALL" \in legal THEN Plain("FOLD") ELSE BetOfPot(50, legal, range)
     : tier \in Tiers}

ShortStackBot(legal, range) ==
  LET Push(most) == Min2(chips[active], most)
      push == Aggressive(Choose("RAISE", Push(range.maxRaise)),
                         Choose("BET", Push(range.maxBet)))
  IN  {FirstOf(IF tier <= 3 THEN push ELSE CheckOrFold, legal) : tier \in Tiers}

\* The scripts' own aggressive player takes the middle of the range, and their random
\* one least + r * (most - least), rounded down, with 0 <= r < 1.
DemoAggressive ==
  {FirstOf(Aggressive(Choose("RAISE", (MinRaise + MaxRaise) \div 2),
                      Choose("BET", (MinBet + MaxBet) \div 2)), LegalActions)}

Drawn(least, most) == {least} \cup (least..(most - 1)) \cup ((most + 1)..least)

DemoRandom ==
  {c \in RandomBot(LegalActions) : c.action \notin {"BET", "RAISE"}}
  \cup {Choose("BET", a) : a \in {b \in Drawn(MinBet, MaxBet) : "BET" \in LegalActions}}
  \cup {Choose("RAISE", a) :
          a \in {b \in Drawn(MinRaise, MaxRaise) : "RAISE" \in LegalActions}}

\* The players of demo-nolimit-6max.ts.
DemoChoices ==
  CallingStation(LegalActions) \cup DemoAggressive
  \cup TightAggressiveBot(LegalActions, EngineRange)
  \cup PotControlBot(LegalActions, EngineRange)
  \cup ShortStackBot(LegalActions, EngineRange) \cup DemoRandom

LooseAggressiveBot(legal, range) ==
  {IF tier <= 4 THEN BetOfPot(75, legal, range) ELSE FirstOf(CheckOrFold, legal)
     : tier \in Tiers}

\* The players of demo-6max-nolimit.ts: no short stack, but a loose one.
SixMaxChoices ==
  CallingStation(LegalActions) \cup DemoRandom \cup DemoAggressive
  \cup TightAggressiveBot(LegalActions, EngineRange)
  \cup LooseAggressiveBot(LegalActions, EngineRange)
  \cup PotControlBot(LegalActions, EngineRange)

\* Those of demo-20-hands.ts, which plays limit as well: there they name no amount.
TwentyHandsChoices ==
  CallingStation(LegalActions)
  \cup IF hand.mode = "LIMIT"
       THEN RandomBot(LegalActions) \cup AggressiveBot(LegalActions)
       ELSE DemoRandom \cup DemoAggressive

\* playHandsLocally of integration-test.ts sometimes takes the smallest raise or bet;
\* pickAction of benchmark.ts only does when there is nothing to check or call.
SmallestRaise == Choose("RAISE", MinRaise)
SmallestBet   == Choose("BET", MinBet)

IntegrationChoices ==
  LET passive == <<Plain("CHECK"), Plain("CALL"), Plain("FOLD")>>
  IN  {FirstOf(plays \o passive, LegalActions) :
         plays \in {<<>>, <<SmallestBet>>, <<SmallestRaise, SmallestBet>>}}

BenchmarkChoices ==
  {FirstOf(<<Plain("CHECK"), Plain("CALL"), SmallestBet, SmallestRaise, Plain("FOLD")>>,
           LegalActions)}

ScriptChoices ==
  TwentyHandsChoices
  \cup IF hand.mode = "NO_LIMIT"
       THEN DemoChoices \cup SixMaxChoices \cup IntegrationChoices \cup BenchmarkChoices
       ELSE {}

-----------------------------------------------------------------------------
\* No player of a script ever makes applyAction throw, which would end the script in
\* the middle of a hand: whatever its cards and draws, in the games the scripts play,
\* its choice is legal and its amount accepted.
ScriptsAreHeard == ~complete => \A c \in ScriptChoices : Hears(c)

Bets(choice) == choice.action \in {"BET", "RAISE"}

BelowRange(choice) ==
  hand.mode # "LIMIT" /\ choice.amount < (IF choice.action = "BET" THEN MinBet ELSE MinRaise)

AbovePotLimit(choice) ==
  /\ hand.mode = "POT_LIMIT"
  /\ choice.amount > (IF choice.action = "BET" THEN MaxBet ELSE MaxRaise)

\* Which choices of SDK agents are refused, in every mode and with any cards: an agent
\* that is refused waits in vain for another turn.  The guess of what is legal fails at
\* the raise cap and nowhere else, blinds and short all-ins included, so the calling
\* station is always heard and bets and raises without an amount are refused at the cap
\* only.  The guess of the range, 0 up to the stack, costs the two bots that bet a share
\* of the pot the turns where that share is below the least amount, and the one that
\* pushes those where the pot limits it.
SdkRefusals == ~complete =>
  /\ \A c \in CallingStation(InferredActions) : Hears(c)
  /\ \A c \in RandomBot(InferredActions) \cup AggressiveBot(InferredActions) :
       ~Hears(c) <=> Bets(c) /\ RaiseCapReached
  /\ \A c \in TightAggressiveBot(InferredActions, SdkRange)
               \cup PotControlBot(InferredActions, SdkRange) :
       ~Hears(c) <=> Bets(c) /\ (RaiseCapReached \/ BelowRange(c))
  /\ \A c \in ShortStackBot(InferredActions, SdkRange) :
       ~Hears(c) <=> Bets(c) /\ (RaiseCapReached \/ AbovePotLimit(c))
=============================================================================
