------------------------------ MODULE SidePots -------------------------------
(***************************************************************************)
(* Main pot, side pots and their distribution at showdown                   *)
(* (poker-engine/src/side-pots.ts, and finishHand of engine.ts).            *)
(*                                                                         *)
(* Definitions named for what they get wrong (BestAscending, ...) are        *)
(* mistakes one could make in the definition below them; nothing uses them. *)
(*                                                                         *)
(* The sums are written out over the six seats and the six possible all-in  *)
(* levels, so that facts about them are decidable for every stack size.     *)
(***************************************************************************)
EXTENDS Positions

\* The least all-in amount above `level`, or `level` when there is none: the
\* successor of a level in the sorted list of distinct all-in amounts.
NextLevel(totalBet, allIn, level) ==
  LET above == {totalBet[s] : s \in {t \in allIn : totalBet[t] > level}}
  IN  IF above = {} THEN level ELSE CHOOSE m \in above : \A k \in above : m <= k

\* The all-in levels in ascending order.  Six seats have at most six; when they
\* have fewer the last one repeats, and a repeated level makes an empty pot.
Levels(totalBet, allIn) ==
  LET Next(level) == NextLevel(totalBet, allIn, level)
      l1 == Next(0)   l2 == Next(l1)   l3 == Next(l2)
      l4 == Next(l3)  l5 == Next(l4)   l6 == Next(l5)
  IN  <<l1, l2, l3, l4, l5, l6>>

\* What all seats together have put in up to a level.
UpTo(totalBet, level) == Total([s \in Seats |-> Min2(totalBet[s], level)])

RestEligibleAtTop(totalBet, allIn, live, top) ==
  {s \in live : totalBet[s] >= top}

RestEligibleAnyway(totalBet, allIn, live, top) == live

\* Who may win what lies above the highest all-in level.
RestEligible(totalBet, allIn, live, top) ==
  {s \in live : allIn = {} \/ totalBet[s] > top}

\* The seven pots [amount, eligible]: one per all-in level, and the seventh for
\* what was put in above the highest level.  When nobody may win the seventh,
\* its chips go to the last of the others.
PotsOfLevels(totalBet, allIn, live, level) ==
  LET top   == level[6]
      rest  == Total(totalBet) - UpTo(totalBet, top)
      restEligible == RestEligible(totalBet, allIn, live, top)
      orphaned == IF restEligible = {} THEN rest ELSE 0
      Layer(lower, upper) ==
        [amount   |-> UpTo(totalBet, upper) - UpTo(totalBet, lower)
                        + (IF lower < upper /\ upper = top THEN orphaned ELSE 0),
         eligible |-> {s \in live : totalBet[s] >= upper}]
  IN  << Layer(0, level[1]),        Layer(level[1], level[2]),
         Layer(level[2], level[3]), Layer(level[3], level[4]),
         Layer(level[4], level[5]), Layer(level[5], level[6]),
         [amount |-> rest - orphaned, eligible |-> restEligible] >>

\* With no all-in every level is 0 and there is one pot, the seventh.
Pots(totalBet, allIn, live) ==
  PotsOfLevels(totalBet, allIn, live, Levels(totalBet, allIn))

-----------------------------------------------------------------------------
BestAscending(eligible, rank) ==
  {s \in eligible : \A t \in eligible : rank[t] >= rank[s]}

\* The eligible seats nobody eligible beats.  rank orders the hands; a higher
\* one wins.
Best(eligible, rank) ==
  {s \in eligible : \A t \in eligible : rank[t] <= rank[s]}

OddChipSeatAtDealer(dealer, winners) == FirstClockwise((dealer + 5) % 6, winners)

\* The winner closest to the dealer's left gets what cannot be split.
OddChipSeat(dealer, winners) == FirstClockwise(dealer, winners)

ShareRoundedDown(p, rank, dealer, s) ==
  LET winners == Best(p.eligible, rank)
  IN  IF s \notin winners THEN 0 ELSE p.amount \div Count(winners)

ShareRemainderToAll(p, rank, dealer, s) ==
  LET winners == Best(p.eligible, rank)
      n == Count(winners)
  IN  IF s \notin winners THEN 0 ELSE p.amount \div n + (p.amount % n)

\* What seat s takes of a pot: an equal share, and one winner the whole remainder.
\* A pot nobody is eligible for is skipped, and its chips reach no one.
Share(p, rank, dealer, s) ==
  LET winners == Best(p.eligible, rank)
      n == Count(winners)
  IN  IF p.amount = 0 \/ s \notin winners THEN 0
      ELSE p.amount \div n
             + IF s = OddChipSeat(dealer, winners) THEN p.amount % n ELSE 0

\* What each seat takes of seven pots.
PaidFrom(pot, rank, dealer) ==
  LET of(k, s) == Share(pot[k], rank, dealer, s)
  IN  [s \in Seats |-> of(1, s) + of(2, s) + of(3, s) + of(4, s)
                        + of(5, s) + of(6, s) + of(7, s)]

\* What finishHand pays each seat at showdown.
Winnings(totalBet, allIn, live, rank, dealer) ==
  PaidFrom(Pots(totalBet, allIn, live), rank, dealer)
=============================================================================
