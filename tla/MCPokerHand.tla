---------------------------- MODULE MCPokerHand ------------------------------
(***************************************************************************)
(* Small hands for TLC: every betting mode, two to four players, seats with *)
(* gaps, stacks short enough that several side pots and odd chips arise.    *)
(***************************************************************************)
EXTENDS Strategies, HandReplay

\* The stacks of the seats: `at` maps some seats to chips.
StacksOf(at) == [s \in Seats |-> IF s \in DOMAIN at THEN at[s] ELSE 0]

Game(mode, ante, cap, dealer, at) ==
  [mode |-> mode, smallBlind |-> 1, bigBlind |-> 2,
   smallBet |-> IF mode = "LIMIT" THEN 2 ELSE 0,
   bigBet |-> IF mode = "LIMIT" THEN 4 ELSE 0,
   cap |-> cap, ante |-> ante, dealer |-> dealer, stacks |-> StacksOf(at)]

F3(a, x, b, y, c, z) == [s \in {a, b, c} |-> IF s = a THEN x ELSE IF s = b THEN y ELSE z]

\* Antes are smaller than every stack.
MCSetups ==
  { Game("NO_LIMIT", 0, 0, 0, F3(0, 3, 2, 5, 5, 4)),
    Game("POT_LIMIT", 0, 0, 2, F3(0, 8, 2, 7, 3, 3)),
    Game("LIMIT", 0, 3, 5, F3(1, 9, 4, 12, 5, 7)),
    Game("NO_LIMIT", 1, 0, 3, [s \in {1, 3} |-> IF s = 1 THEN 6 ELSE 2]),
    Game("NO_LIMIT", 0, 0, 1, [s \in {1, 2, 3, 4} |-> IF s = 4 THEN 5 ELSE s]) }

\* An ante that takes a whole stack: the dealer, first to act three-handed, is
\* all-in for more than anybody else can be.
BigAnteSetups == { Game("LIMIT", 3, 4, 0, F3(0, 3, 1, 1, 2, 1)) }

\* A stack far larger than the pot.
PotLimitSetups == { Game("POT_LIMIT", 0, 0, 0, [s \in {0, 1} |-> 20]) }

LargeAmounts == 0..25

MCAmounts == 0..9
MCRanks == 1..3
=============================================================================
