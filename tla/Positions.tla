------------------------------ MODULE Positions ------------------------------
(***************************************************************************)
(* Seat arithmetic of the poker table (poker-engine/src/positions.ts).      *)
(* A table has six seats, 0..5, arranged clockwise in a circle; a hand is   *)
(* dealt to some of them, in general not to contiguous ones.  The code      *)
(* rotates a sorted array of the dealt seats; here the same order is the    *)
(* clockwise distance between seats.                                        *)
(***************************************************************************)
EXTENDS Integers

Seats == 0..5

\* The lesser and the greater of two numbers (Math.min, Math.max).
Min2(a, b) == IF a <= b THEN a ELSE b
Max2(a, b) == IF a >= b THEN a ELSE b

\* The sum, and the greatest value, of a function over the six seats.
Total(f) == f[0] + f[1] + f[2] + f[3] + f[4] + f[5]
Highest(f) ==
  Max2(f[0], Max2(f[1], Max2(f[2], Max2(f[3], Max2(f[4], f[5])))))

\* How many seats a set of seats holds.
Count(S) == Total([s \in Seats |-> IF s \in S THEN 1 ELSE 0])

\* A function that is 0 at every seat.
Nothing == [s \in Seats |-> 0]

\* Seats passed when going clockwise from the left neighbour of `from` to s:
\* 0 for the left neighbour, 5 for `from` itself.
StepsClockwise(from, s) == (s - from + 5) % 6

\* The first seat of S met when going clockwise from the left of `from`, which
\* is itself met last.
FirstClockwise(from, S) ==
  CHOOSE s \in S :
    \A t \in S : StepsClockwise(from, s) <= StepsClockwise(from, t)

-----------------------------------------------------------------------------
HeadsUp(dealt) == Count(dealt) = 2

\* Heads up, the dealer posts the small blind.
SmallBlindSeat(dealt, dealer) ==
  IF HeadsUp(dealt) THEN dealer ELSE FirstClockwise(dealer, dealt)

BigBlindSeat(dealt, dealer) ==
  FirstClockwise(SmallBlindSeat(dealt, dealer), dealt)

\* The seat after the big blind, whether or not it still has chips; the dealer
\* when two play.
FirstToActPreflop(dealt, dealer) ==
  IF HeadsUp(dealt) THEN dealer
  ELSE FirstClockwise(BigBlindSeat(dealt, dealer), dealt)

\* canAct are the seats that are neither folded nor all-in.
FirstToActPostflop(dealer, canAct) == FirstClockwise(dealer, canAct)

NextActiveSeat(current, canAct) == FirstClockwise(current, canAct \ {current})

LowestSeat(S) == CHOOSE s \in S : \A t \in S : s <= t

\* The button goes to the next seat that can be dealt in; from a seat that cannot
\* any more it goes to the lowest one.
AdvanceDealer(canDealIn, dealer) ==
  IF dealer \in canDealIn THEN FirstClockwise(dealer, canDealIn)
  ELSE LowestSeat(canDealIn)
=============================================================================
