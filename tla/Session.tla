------------------------------ MODULE Session --------------------------------
(***************************************************************************)
(* A script plays hands with a fixed set of players: stacks and button are  *)
(* carried from hand to hand, and at the end the session is verified, for   *)
(* which hands are played once more by a second copy of the loop.  Four     *)
(* scripts (scripts/*.ts) do so and differ in what they verify.             *)
(* A hand is a function of its number (which gives the seeds), the stacks   *)
(* and the dealer, any function that does what PokerHand establishes: the   *)
(* players dealt in share what they brought.  The bots are Strategies, the  *)
(* chain of events HandHistory.                                             *)
(* An operator named for a mistake stands before the one it resembles;      *)
(* nothing uses it.                                                         *)
(***************************************************************************)
EXTENDS Positions, SequencesExt

CONSTANTS SessionSeats, StartingChips, NumHands, ReplayedHands

ASSUME SessionAssumption ==
  /\ SessionSeats \subseteq Seats /\ SessionSeats # {}
  /\ StartingChips \in Nat /\ NumHands \in Nat /\ ReplayedHands \in Nat

VARIABLES
  script,   \* which of the scripts it is
  pile,     \* chips: what every player has
  button,   \* dealerSeatIndex
  records,  \* of each hand: what it was dealt from, and the chips after it
  verdict   \* how the script exits

Scripts == {"no-limit demo", "20 hands", "6-max demo", "integration test"}

sessionVars == <<script, pile, button, records, verdict>>

SessionInit ==
  /\ script \in Scripts
  /\ pile = [s \in SessionSeats |-> StartingChips]
  /\ button = LowestSeat(SessionSeats)
  /\ records = <<>>
  /\ verdict = "playing"

PlayersWithChips(chips) == {s \in SessionSeats : chips[s] > 0}
EnoughPlayers(chips) == Cardinality(PlayersWithChips(chips)) >= 2

\* A dealer who is broke is replaced by the first player who is not.
DealerOf(chips, dealer) ==
  IF dealer \in PlayersWithChips(chips) THEN dealer ELSE LowestSeat(PlayersWithChips(chips))

\* What createInitialState is called with.
Deal(number, chips, dealer) ==
  [number |-> number, chips |-> chips, dealer |-> DealerOf(chips, dealer)]

AllChips(chips) == FoldSet(LAMBDA s, sum : chips[s] + sum, 0, SessionSeats)

Results(chips) ==
  {after \in [SessionSeats -> 0..AllChips(chips)] :
     /\ AllChips(after) = AllChips(chips)
     /\ \A s \in SessionSeats \ PlayersWithChips(chips) : after[s] = 0}

PlayHand ==
  /\ verdict = "playing"
  /\ Len(records) < NumHands /\ EnoughPlayers(pile)
  /\ LET deal == Deal(Len(records) + 1, pile, button) IN
     \E after \in Results(pile) :
       /\ pile' = after
       /\ button' = AdvanceDealer(PlayersWithChips(pile), deal.dealer)
       /\ records' = Append(records, [deal |-> deal, after |-> after])
  /\ UNCHANGED <<script, verdict>>

\* A hand that takes more moves than the script allows ends it.
Abort ==
  /\ verdict = "playing"
  /\ Len(records) < NumHands /\ EnoughPlayers(pile)
  /\ verdict' = "aborted"
  /\ UNCHANGED <<script, pile, button, records>>

-----------------------------------------------------------------------------
(***************************************************************************)
(* The second copy of the loop.  A hand dealt from the same arguments goes  *)
(* as it went the first time; of any other nothing is known.                *)
(***************************************************************************)
ButtonOfTheLeft(chips, after, dealer) == AdvanceDealer(PlayersWithChips(after), dealer)

\* The button goes on among the players of the hand, some of whom may be broke now.
ReplayedButton(chips, after, dealer) == AdvanceDealer(PlayersWithChips(chips), dealer)

ReplayHand(run, record) ==
  LET deal == Deal(run.number + 1, run.chips, run.dealer) IN
  IF ~run.matches \/ ~EnoughPlayers(run.chips) THEN run
  ELSE [number |-> run.number + 1,
        chips |-> record.after,
        dealer |-> ReplayedButton(run.chips, record.after, deal.dealer),
        matches |-> deal = record.deal]

\* The first n hands, played again.
ReplayMatches(n) ==
  FoldLeft(ReplayHand,
           [number |-> 0, chips |-> [s \in SessionSeats |-> StartingChips],
            dealer |-> LowestSeat(SessionSeats), matches |-> TRUE],
           SubSeq(records, 1, n)).matches

ChipsConserved ==
  /\ \A i \in 1..Len(records) :
       AllChips(records[i].deal.chips) = AllChips(records[i].after)
  /\ AllChips(pile) = Cardinality(SessionSeats) * StartingChips

-----------------------------------------------------------------------------
(***************************************************************************)
(* The end of the script, which exits 0 if this session `passes'.           *)
(***************************************************************************)
Verify(passes) ==
  /\ verdict = "playing"
  /\ Len(records) >= NumHands \/ ~EnoughPlayers(pile)
  /\ verdict' = IF passes THEN "pass" ELSE "fail"
  /\ UNCHANGED <<script, pile, button, records>>

AllPlayed == Len(records) >= NumHands
FirstHands == LowestSeat({ReplayedHands, Len(records)})

NoLimitPasses     == ChipsConserved /\ ReplayMatches(FirstHands) /\ AllPlayed
TwentyHandsPass   == ChipsConserved /\ ReplayMatches(Len(records)) /\ AllPlayed
SixMaxPasses      == ChipsConserved /\ AllPlayed
IntegrationPasses == AllPlayed /\ ChipsConserved /\ ReplayMatches(FirstHands)

NoLimitDemo     == script = "no-limit demo" /\ (PlayHand \/ Abort \/ Verify(NoLimitPasses))
TwentyHands     == script = "20 hands" /\ (PlayHand \/ Abort \/ Verify(TwentyHandsPass))
SixMaxDemo      == script = "6-max demo" /\ (PlayHand \/ Abort \/ Verify(SixMaxPasses))
IntegrationTest == script = "integration test" /\ (PlayHand \/ Abort \/ Verify(IntegrationPasses))

SessionNext == NoLimitDemo \/ TwentyHands \/ SixMaxDemo \/ IntegrationTest

SessionSpec == SessionInit /\ [][SessionNext]_sessionVars

-----------------------------------------------------------------------------
\* demo-nolimit-6max.ts, "Verify deterministic replay": a session only fails its own
\* checks because too few players have chips left.  The two copies of the loop deal
\* every hand from the same stacks and the same dealer, whoever went broke, and no hand
\* is dealt with a dealer who is not in it.
SessionVerifies ==
  /\ verdict = "fail" => Len(records) < NumHands
  /\ \A i \in 1..Len(records) :
       records[i].deal.dealer \in PlayersWithChips(records[i].deal.chips)
=============================================================================
