--------------------------- MODULE ShowdownProofs ----------------------------
(***************************************************************************)
(* What decides a showdown: which five of seven cards are best              *)
(* (HandEvaluation), and what calculateSidePots and the distribution of     *)
(* the pots do with the chips (SidePots).  For every deck, every deal,      *)
(* every stack, every set of all-in seats and every outcome.                *)
(***************************************************************************)
EXTENDS SidePots, HandEvaluation, CommonProofs

\* Some seat of a set that is not empty has the greatest value of a function,
\* and some seat has the least.
LEMMA GreatestOf ==
  ASSUME NEW f \in [Seats -> Nat], NEW S \in SUBSET Seats, S # {}
  PROVE  \E s \in S : \A t \in S : f[t] <= f[s]
<1> DEFINE g == [s \in Seats |-> IF s \in S THEN f[s] + 1 ELSE 0]
<1>1. g \in [Seats -> Nat]  OBVIOUS
<1>2. PICK s \in Seats : g[s] = Highest(g) /\ \A t \in Seats : g[t] <= g[s]
  <2> HIDE DEF g
  <2> QED  BY <1>1, HighestIs
<1>3. s \in S  BY <1>2
<1>4. ASSUME NEW t \in S  PROVE f[t] <= f[s]
  <2>1. f[t] \in Nat /\ f[s] \in Nat  OBVIOUS
  <2>2. g[t] = f[t] + 1 /\ g[s] = f[s] + 1  BY <1>3
  <2> QED  BY <2>1, <2>2, <1>2
<1> QED  BY <1>3, <1>4

\* Of some seats there is one with the least value.
LEMMA LeastOf ==
  ASSUME NEW f \in [Seats -> Nat], NEW S \in SUBSET Seats, S # {}
  PROVE  \E s \in S : \A t \in S : f[s] <= f[t]
<1> DEFINE m == Highest(f)
           g == [s \in Seats |-> m - f[s]]
<1>1. m \in Nat /\ \A s \in Seats : f[s] <= m  BY HighestIs
<1>2. g \in [Seats -> Nat]
  <2> HIDE DEF m
  <2> QED  BY <1>1
<1>3. PICK s \in S : \A t \in S : g[t] <= g[s]
  <2> HIDE DEF g
  <2> QED  BY <1>2, GreatestOf
<1>4. ASSUME NEW t \in S  PROVE f[s] <= f[t]
  <2>1. f[t] \in Nat /\ f[s] \in Nat  OBVIOUS
  <2>2. g[t] = m - f[t] /\ g[s] = m - f[s] /\ g[t] <= g[s]  BY <1>3
  <2> HIDE DEF g, m
  <2> QED  BY <2>1, <2>2, <1>1
<1> QED  BY <1>4

-----------------------------------------------------------------------------
\* NextLevel is the successor of a level among the all-in amounts: it stays when
\* nobody is all-in for more, and otherwise it is the amount of an all-in seat,
\* with no all-in amount in between.
LEMMA NextLevelIs ==
  ASSUME NEW totalBet \in [Seats -> Nat], NEW allIn \in SUBSET Seats,
         NEW level \in Nat
  PROVE  LET next == NextLevel(totalBet, allIn, level) IN
         /\ next \in Nat
         /\ \/ /\ next = level
               /\ \A s \in allIn : totalBet[s] <= level
            \/ /\ next > level
               /\ \E s \in allIn : totalBet[s] = next
               /\ \A s \in allIn : totalBet[s] > level => totalBet[s] >= next
<1> DEFINE higher == {t \in allIn : totalBet[t] > level}
           above == {totalBet[s] : s \in higher}
           next == NextLevel(totalBet, allIn, level)
<1>1. next = IF above = {} THEN level
             ELSE CHOOSE m \in above : \A k \in above : m <= k
  BY DEF NextLevel
<1>2. CASE higher = {}
  <2>1. above = {} /\ \A s \in allIn : totalBet[s] <= level  BY <1>2
  <2> QED  BY <2>1, <1>1
<1>3. CASE higher # {}
  <2>1. PICK s \in higher : \A t \in higher : totalBet[s] <= totalBet[t]
    BY <1>3, LeastOf
  <2>2. totalBet[s] \in above /\ \A k \in above : totalBet[s] <= k  BY <2>1
  <2>3. next \in above /\ \A k \in above : next <= k  BY <2>2, <1>1
  <2>4. PICK t \in higher : totalBet[t] = next  BY <2>3
  <2>5. next \in Nat /\ next > level  BY <2>4
  <2>6. \A u \in allIn : totalBet[u] > level => totalBet[u] >= next
    <3> SUFFICES ASSUME NEW u \in allIn, totalBet[u] > level
                 PROVE  next <= totalBet[u]
      BY <2>5
    <3> QED  BY <2>3
  <2> HIDE DEF next
  <2>7. next > level /\ (\E u \in allIn : totalBet[u] = next)  BY <2>4, <2>5
  <2> QED  BY <2>5, <2>6, <2>7 DEF next
<1> QED  BY <1>2, <1>3

\* The six levels ascend from 0; a level that differs from the one below it is
\* the amount of an all-in seat; and six are enough: nobody is all-in for more
\* than the last.
LEMMA LevelsAre ==
  ASSUME NEW totalBet \in [Seats -> Nat], NEW allIn \in SUBSET Seats
  PROVE  LET l == Levels(totalBet, allIn) IN
         /\ \A k \in 1..6 : l[k] \in Nat
         /\ 0 <= l[1] /\ l[1] <= l[2] /\ l[2] <= l[3] /\ l[3] <= l[4]
         /\ l[4] <= l[5] /\ l[5] <= l[6]
         /\ 0 < l[1] => \E s \in allIn : totalBet[s] = l[1]
         /\ \A k \in 2..6 : l[k - 1] < l[k] => \E s \in allIn : totalBet[s] = l[k]
         /\ \A s \in allIn : totalBet[s] <= l[6]
<1> DEFINE N(l) == NextLevel(totalBet, allIn, l)
           l1 == N(0)   l2 == N(l1)   l3 == N(l2)
           l4 == N(l3)  l5 == N(l4)   l6 == N(l5)
           Above(low, high) ==
             \/ high = low /\ \A s \in allIn : totalBet[s] <= low
             \/ high > low /\ \E s \in allIn : totalBet[s] = high
<1>1. Levels(totalBet, allIn) = <<l1, l2, l3, l4, l5, l6>>  BY DEF Levels
<1>2. \A l \in Nat : N(l) \in Nat /\ Above(l, N(l))  BY NextLevelIs
<1>3. l1 \in Nat /\ Above(0, l1)  BY <1>2
<1>4. l2 \in Nat /\ Above(l1, l2)  BY <1>2, <1>3
<1>5. l3 \in Nat /\ Above(l2, l3)  BY <1>2, <1>4
<1>6. l4 \in Nat /\ Above(l3, l4)  BY <1>2, <1>5
<1>7. l5 \in Nat /\ Above(l4, l5)  BY <1>2, <1>6
<1>8. l6 \in Nat /\ Above(l5, l6)  BY <1>2, <1>7
<1> HIDE DEF l1, l2, l3, l4, l5, l6
<1>9. \A s \in allIn : totalBet[s] <= l6
  \* Otherwise the six levels and that amount are seven amounts of six seats.
  <2> SUFFICES ASSUME NEW s \in allIn, totalBet[s] > l6  PROVE FALSE
    BY <1>8
  <2>1. l6 > l5 /\ \E t \in allIn : totalBet[t] = l6  BY <1>7, <1>8
  <2>2. l5 > l4 /\ \E t \in allIn : totalBet[t] = l5  BY <1>6, <1>7, <2>1
  <2>3. l4 > l3 /\ \E t \in allIn : totalBet[t] = l4  BY <1>5, <1>6, <2>1, <2>2
  <2>4. l3 > l2 /\ \E t \in allIn : totalBet[t] = l3
    BY <1>4, <1>5, <2>1, <2>2, <2>3
  <2>5. l2 > l1 /\ \E t \in allIn : totalBet[t] = l2
    BY <1>3, <1>4, <2>1, <2>2, <2>3, <2>4
  <2>6. \E t \in allIn : totalBet[t] = l1
    BY <1>3, <2>1, <2>2, <2>3, <2>4, <2>5
  <2>7. l1 < l2 /\ l2 < l3 /\ l3 < l4 /\ l4 < l5 /\ l5 < l6 /\ l6 < totalBet[s]
    BY <2>1, <2>2, <2>3, <2>4, <2>5
  <2> DEFINE a0 == totalBet[0]  a1 == totalBet[1]  a2 == totalBet[2]
             a3 == totalBet[3]  a4 == totalBet[4]  a5 == totalBet[5]
             A == {a0, a1, a2, a3, a4, a5}
  <2>8. \A t \in allIn : totalBet[t] \in A  BY DEF Seats
  <2>9. /\ l1 \in A /\ l2 \in A /\ l3 \in A /\ l4 \in A /\ l5 \in A /\ l6 \in A
        /\ totalBet[s] \in A
    BY <2>1, <2>2, <2>3, <2>4, <2>5, <2>6, <2>8
  <2>10. /\ a0 \in Nat /\ a1 \in Nat /\ a2 \in Nat
         /\ a3 \in Nat /\ a4 \in Nat /\ a5 \in Nat /\ totalBet[s] \in Nat
    BY DEF Seats
  <2> HIDE DEF a0, a1, a2, a3, a4, a5
  <2> QED  BY <2>7, <2>9, <2>10, <1>3, <1>4, <1>5, <1>6, <1>7, <1>8
<1>10. \A k \in 1..6 : <<l1, l2, l3, l4, l5, l6>>[k] \in Nat
  BY <1>3, <1>4, <1>5, <1>6, <1>7, <1>8
<1>11. \A k \in 2..6 :
         <<l1, l2, l3, l4, l5, l6>>[k - 1] < <<l1, l2, l3, l4, l5, l6>>[k]
         => \E s \in allIn : totalBet[s] = <<l1, l2, l3, l4, l5, l6>>[k]
  BY <1>3, <1>4, <1>5, <1>6, <1>7, <1>8
<1> QED  BY <1>1, <1>3, <1>4, <1>5, <1>6, <1>7, <1>8, <1>9, <1>10, <1>11

-----------------------------------------------------------------------------
\* What is put in up to a level grows with the level, from nothing to everything.
LEMMA UpToIs ==
  ASSUME NEW totalBet \in [Seats -> Nat], NEW low \in Nat, NEW high \in Nat,
         low <= high
  PROVE  /\ UpTo(totalBet, low) \in Nat
         /\ UpTo(totalBet, low) <= UpTo(totalBet, high)
         /\ UpTo(totalBet, high) <= Total(totalBet)
         /\ UpTo(totalBet, 0) = 0
<1> DEFINE f(level) == [s \in Seats |-> Min2(totalBet[s], level)]
<1>1. /\ totalBet[0] \in Nat /\ totalBet[1] \in Nat /\ totalBet[2] \in Nat
      /\ totalBet[3] \in Nat /\ totalBet[4] \in Nat /\ totalBet[5] \in Nat
  BY DEF Seats
<1>2. \A a \in Nat : /\ Min2(a, low) \in Nat /\ Min2(a, low) <= Min2(a, high)
                     /\ Min2(a, high) \in Nat /\ Min2(a, high) <= a
                     /\ Min2(a, 0) = 0
  BY DEF Min2
<1>3. \A level : UpTo(totalBet, level) =
        Min2(totalBet[0], level) + Min2(totalBet[1], level)
          + Min2(totalBet[2], level) + Min2(totalBet[3], level)
          + Min2(totalBet[4], level) + Min2(totalBet[5], level)
  BY DEF UpTo, Total, Seats
<1> QED  BY <1>1, <1>2, <1>3 DEF Total

-----------------------------------------------------------------------------
\* The pots hold natural numbers of chips, and only live seats are eligible.
LEMMA PotsType ==
  ASSUME NEW totalBet \in [Seats -> Nat], NEW allIn \in SUBSET Seats,
         NEW live \in SUBSET Seats
  PROVE  \A k \in 1..7 :
           /\ Pots(totalBet, allIn, live)[k].amount \in Nat
           /\ Pots(totalBet, allIn, live)[k].eligible \in SUBSET live
<1> DEFINE l == Levels(totalBet, allIn)
           rest == Total(totalBet) - UpTo(totalBet, l[6])
           restEligible == RestEligible(totalBet, allIn, live, l[6])
           orphaned == IF restEligible = {} THEN rest ELSE 0
           Layer(lower, upper) ==
             [amount   |-> UpTo(totalBet, upper) - UpTo(totalBet, lower)
                             + (IF lower < upper /\ upper = l[6]
                                THEN orphaned ELSE 0),
              eligible |-> {s \in live : totalBet[s] >= upper}]
           last == [amount |-> rest - orphaned, eligible |-> restEligible]
<1>1. Pots(totalBet, allIn, live) =
        <<Layer(0, l[1]), Layer(l[1], l[2]), Layer(l[2], l[3]), Layer(l[3], l[4]),
          Layer(l[4], l[5]), Layer(l[5], l[6]), last>>
  BY DEF Pots, PotsOfLevels
<1>2. /\ l[1] \in Nat /\ l[2] \in Nat /\ l[3] \in Nat
      /\ l[4] \in Nat /\ l[5] \in Nat /\ l[6] \in Nat
      /\ 0 <= l[1] /\ l[1] <= l[2] /\ l[2] <= l[3] /\ l[3] <= l[4]
      /\ l[4] <= l[5] /\ l[5] <= l[6]
  <2> HIDE DEF l
  <2>1. \A k \in 1..6 : l[k] \in Nat  BY LevelsAre DEF l
  <2> QED  BY <2>1, LevelsAre DEF l
<1> HIDE DEF l
<1>3. rest \in Nat
  <2>1. Total(totalBet) \in Nat  BY TotalType
  <2>2. UpTo(totalBet, l[6]) \in Nat /\ UpTo(totalBet, l[6]) <= Total(totalBet)
    BY <1>2, UpToIs
  <2> QED  BY <2>1, <2>2
<1> HIDE DEF rest
<1>4. orphaned \in Nat /\ rest - orphaned \in Nat  BY <1>3
<1> HIDE DEF orphaned
<1>5. ASSUME NEW lower \in Nat, NEW upper \in Nat, lower <= upper
      PROVE  Layer(lower, upper).amount \in Nat
  <2>1. /\ UpTo(totalBet, lower) \in Nat /\ UpTo(totalBet, upper) \in Nat
        /\ UpTo(totalBet, lower) <= UpTo(totalBet, upper)
    BY <1>5, UpToIs
  <2> QED  BY <2>1, <1>4
<1>6. restEligible \in SUBSET live  BY DEF RestEligible
<1>7. \A lower, upper : Layer(lower, upper).eligible \in SUBSET live  OBVIOUS
<1>8. last.amount \in Nat /\ last.eligible \in SUBSET live  BY <1>4, <1>6
<1> DEFINE p == Pots(totalBet, allIn, live)
<1> SUFFICES ASSUME NEW k \in 1..7
             PROVE  p[k].amount \in Nat /\ p[k].eligible \in SUBSET live
  OBVIOUS
<1>9. CASE k = 7
  <2>1. p[k] = last  BY <1>1, <1>9
  <2> QED  BY <2>1, <1>8
<1>10. CASE k = 1
  <2>1. p[k] = Layer(0, l[1])  BY <1>1, <1>10
  <2> HIDE DEF Layer, p
  <2> QED  BY <2>1, <1>2, <1>5, <1>7
<1>11. CASE k \in 2..6
  <2> HIDE DEF Layer, last
  <2>1. p[k] = Layer(l[k - 1], l[k])  BY <1>1, <1>11
  <2>2. l[k - 1] \in Nat /\ l[k] \in Nat /\ l[k - 1] <= l[k]  BY <1>2, <1>11
  <2> HIDE DEF p
  <2> QED  BY <2>1, <2>2, <1>5, <1>7
<1> QED  BY <1>9, <1>10, <1>11

\* When every all-in seat is live and has put something in, the pots hold all
\* the chips that were put in, and some live seat is eligible for every pot that
\* is not empty.  finishHand of engine.ts skips a pot nobody is eligible for, so
\* this is what no chip being lost at showdown rests on.
LEMMA PotsHoldEverything ==
  ASSUME NEW totalBet \in [Seats -> Nat], NEW live \in SUBSET Seats, live # {},
         NEW allIn \in SUBSET live, \A s \in allIn : totalBet[s] > 0
  PROVE  LET p == Pots(totalBet, allIn, live) IN
         /\ p[1].amount + p[2].amount + p[3].amount + p[4].amount
              + p[5].amount + p[6].amount + p[7].amount = Total(totalBet)
         /\ \A k \in 1..7 : p[k].amount > 0 => p[k].eligible # {}
<1> DEFINE l == Levels(totalBet, allIn)
           U(level) == UpTo(totalBet, level)
           rest == Total(totalBet) - U(l[6])
           restEligible == RestEligible(totalBet, allIn, live, l[6])
           orphaned == IF restEligible = {} THEN rest ELSE 0
           Extra(lower, upper) ==
             IF lower < upper /\ upper = l[6] THEN orphaned ELSE 0
           Layer(lower, upper) ==
             [amount   |-> U(upper) - U(lower) + Extra(lower, upper),
              eligible |-> {s \in live : totalBet[s] >= upper}]
           last == [amount |-> rest - orphaned, eligible |-> restEligible]
           p == Pots(totalBet, allIn, live)
<1>1. p = <<Layer(0, l[1]), Layer(l[1], l[2]), Layer(l[2], l[3]), Layer(l[3], l[4]),
            Layer(l[4], l[5]), Layer(l[5], l[6]), last>>
  BY DEF Pots, PotsOfLevels
<1>2. /\ l[1] \in Nat /\ l[2] \in Nat /\ l[3] \in Nat
      /\ l[4] \in Nat /\ l[5] \in Nat /\ l[6] \in Nat
      /\ 0 <= l[1] /\ l[1] <= l[2] /\ l[2] <= l[3] /\ l[3] <= l[4]
      /\ l[4] <= l[5] /\ l[5] <= l[6]
      /\ 0 < l[1] => \E s \in allIn : totalBet[s] = l[1]
      /\ \A k \in 2..6 : l[k - 1] < l[k] => \E s \in allIn : totalBet[s] = l[k]
      /\ \A s \in allIn : totalBet[s] <= l[6]
  <2>0. allIn \in SUBSET Seats  OBVIOUS
  <2> HIDE DEF l
  <2>1. \A k \in 1..6 : l[k] \in Nat  BY <2>0, LevelsAre DEF l
  <2>2. /\ 0 <= l[1] /\ l[1] <= l[2] /\ l[2] <= l[3] /\ l[3] <= l[4]
        /\ l[4] <= l[5] /\ l[5] <= l[6]
    BY <2>0, LevelsAre DEF l
  <2>3. /\ 0 < l[1] => \E s \in allIn : totalBet[s] = l[1]
        /\ \A k \in 2..6 : l[k - 1] < l[k] => \E s \in allIn : totalBet[s] = l[k]
    BY <2>0, LevelsAre DEF l
  <2>4. \A s \in allIn : totalBet[s] <= l[6]  BY <2>0, LevelsAre DEF l
  <2> QED  BY <2>1, <2>2, <2>3, <2>4
<1> HIDE DEF l, p
<1>3. /\ \A level \in Nat : U(level) \in Nat /\ U(level) <= Total(totalBet)
      /\ U(0) = 0
      /\ \A low, high \in Nat : low <= high => U(low) <= U(high)
  BY UpToIs
<1>4. Total(totalBet) \in Nat  BY TotalType
<1> HIDE DEF U
<1>5. rest \in Nat
  <2>1. U(l[6]) \in Nat /\ U(l[6]) <= Total(totalBet)  BY <1>2, <1>3
  <2> QED  BY <2>1, <1>4
<1>6. orphaned # 0 => allIn # {} /\ l[6] > 0
  <2>1. orphaned # 0 => allIn # {}  BY DEF RestEligible
  <2>2. allIn # {} => l[6] > 0
    <3> SUFFICES ASSUME NEW s \in allIn  PROVE l[6] > 0
      OBVIOUS
    <3>1. totalBet[s] \in Nat /\ totalBet[s] > 0 /\ totalBet[s] <= l[6]  BY <1>2
    <3> QED  BY <3>1, <1>2
  <2> QED  BY <2>1, <2>2
<1>7. orphaned \in Nat  BY <1>5
<1>8. p[1].amount + p[2].amount + p[3].amount + p[4].amount
        + p[5].amount + p[6].amount + p[7].amount = Total(totalBet)
  <2> HIDE DEF restEligible
  <2>1. Extra(0, l[1]) + Extra(l[1], l[2]) + Extra(l[2], l[3]) + Extra(l[3], l[4])
          + Extra(l[4], l[5]) + Extra(l[5], l[6]) = orphaned
    <3> HIDE DEF orphaned
    <3> QED  BY <1>2, <1>6, <1>7
  <2>2. \A lower, upper \in Nat : Extra(lower, upper) \in Nat  BY <1>7
  <2> HIDE DEF Extra, orphaned
  <2>3. /\ p[1].amount = U(l[1]) - U(0) + Extra(0, l[1])
        /\ p[2].amount = U(l[2]) - U(l[1]) + Extra(l[1], l[2])
        /\ p[3].amount = U(l[3]) - U(l[2]) + Extra(l[2], l[3])
        /\ p[4].amount = U(l[4]) - U(l[3]) + Extra(l[3], l[4])
        /\ p[5].amount = U(l[5]) - U(l[4]) + Extra(l[4], l[5])
        /\ p[6].amount = U(l[6]) - U(l[5]) + Extra(l[5], l[6])
        /\ p[7].amount = rest - orphaned
    BY <1>1
  <2>4. U(l[1]) \in Nat /\ U(l[2]) \in Nat /\ U(l[3]) \in Nat /\ U(l[4]) \in Nat
        /\ U(l[5]) \in Nat /\ U(l[6]) \in Nat
    BY <1>2, <1>3
  <2>5. /\ Extra(0, l[1]) \in Nat /\ Extra(l[1], l[2]) \in Nat
        /\ Extra(l[2], l[3]) \in Nat /\ Extra(l[3], l[4]) \in Nat
        /\ Extra(l[4], l[5]) \in Nat /\ Extra(l[5], l[6]) \in Nat
    BY <1>2, <2>2
  <2> QED  BY <1>3, <1>4, <1>7, <2>1, <2>3, <2>4, <2>5
<1>9. ASSUME NEW lower \in Nat, NEW upper \in Nat,
             lower < upper => \E s \in allIn : totalBet[s] = upper,
             lower <= upper, Layer(lower, upper).amount > 0
      PROVE  Layer(lower, upper).eligible # {}
  <2>1. lower # upper
    <3> SUFFICES ASSUME lower = upper PROVE FALSE  OBVIOUS
    <3>1. Extra(lower, upper) = 0 /\ U(upper) - U(lower) = 0  BY <1>3
    <3> QED  BY <3>1, <1>9
  <2>2. PICK s \in allIn : totalBet[s] = upper  BY <2>1, <1>9
  <2> QED  BY <2>2
<1>10. last.amount > 0 => last.eligible # {}  BY <1>5
<1>11. ASSUME NEW k \in 1..7, p[k].amount > 0  PROVE p[k].eligible # {}
  <2> HIDE DEF Layer, last
  <2>1. CASE k = 7  BY <2>1, <1>1, <1>10, <1>11
  <2>2. CASE k = 1  BY <2>2, <1>1, <1>2, <1>9, <1>11
  <2>3. CASE k \in 2..6
    <3>1. p[k] = Layer(l[k - 1], l[k])  BY <2>3, <1>1
    <3>2. /\ l[k - 1] \in Nat /\ l[k] \in Nat /\ l[k - 1] <= l[k]
          /\ l[k - 1] < l[k] => \E s \in allIn : totalBet[s] = l[k]
      BY <2>3, <1>2
    <3> QED  BY <3>1, <3>2, <1>9, <1>11
  <2> QED  BY <2>1, <2>2, <2>3
<1> QED  BY <1>8, <1>11 DEF p

-----------------------------------------------------------------------------
\* Totals add up seat by seat.
LEMMA TotalOfSum ==
  ASSUME NEW f \in [Seats -> Nat], NEW g \in [Seats -> Nat]
  PROVE  Total([s \in Seats |-> f[s] + g[s]]) = Total(f) + Total(g)
<1>1. /\ f[0] \in Nat /\ f[1] \in Nat /\ f[2] \in Nat
      /\ f[3] \in Nat /\ f[4] \in Nat /\ f[5] \in Nat
      /\ g[0] \in Nat /\ g[1] \in Nat /\ g[2] \in Nat
      /\ g[3] \in Nat /\ g[4] \in Nat /\ g[5] \in Nat
  BY DEF Seats
<1> QED  BY <1>1 DEF Total, Seats

\* A common factor of six products.
LEMMA SixProducts ==
  ASSUME NEW q \in Nat,
         NEW c0 \in Nat, NEW c1 \in Nat, NEW c2 \in Nat,
         NEW c3 \in Nat, NEW c4 \in Nat, NEW c5 \in Nat
  PROVE  c0 * q + c1 * q + c2 * q + c3 * q + c4 * q + c5 * q
           = (c0 + c1 + c2 + c3 + c4 + c5) * q
OBVIOUS

\* A total of equal shares is their number times the share.
LEMMA TotalOfShares ==
  ASSUME NEW S, NEW q \in Nat
  PROVE  Total([s \in Seats |-> IF s \in S THEN q ELSE 0]) = Count(S) * q
<1> DEFINE c == [s \in Seats |-> IF s \in S THEN 1 ELSE 0]
           d == [s \in Seats |-> IF s \in S THEN q ELSE 0]
<1>1. ASSUME NEW s \in Seats  PROVE c[s] \in Nat /\ d[s] = c[s] * q
  <2>1. CASE s \in S  BY <2>1
  <2>2. CASE s \notin S  BY <2>2
  <2> QED  BY <2>1, <2>2
<1>2. Count(S) = c[0] + c[1] + c[2] + c[3] + c[4] + c[5]  BY DEF Count, Total
<1>3. Total(d) = d[0] + d[1] + d[2] + d[3] + d[4] + d[5]  BY DEF Total
<1> HIDE DEF c, d
<1>4. /\ c[0] \in Nat /\ c[1] \in Nat /\ c[2] \in Nat
      /\ c[3] \in Nat /\ c[4] \in Nat /\ c[5] \in Nat
      /\ d[0] = c[0] * q /\ d[1] = c[1] * q /\ d[2] = c[2] * q
      /\ d[3] = c[3] * q /\ d[4] = c[4] * q /\ d[5] = c[5] * q
  BY <1>1 DEF Seats
<1>5. c[0] * q + c[1] * q + c[2] * q + c[3] * q + c[4] * q + c[5] * q
        = (c[0] + c[1] + c[2] + c[3] + c[4] + c[5]) * q
  BY <1>4, SixProducts
<1>6. Total(d) = Count(S) * q  BY <1>2, <1>3, <1>4, <1>5
<1> QED  BY <1>6 DEF d

\* Division with remainder, for the numbers of winners there can be.
LEMMA DivideByWinners ==
  ASSUME NEW a \in Nat, NEW n \in 1..6
  PROVE  a \div n \in Nat /\ a % n \in Nat /\ a = n * (a \div n) + (a % n)
<1>1. CASE n = 1  BY <1>1
<1>2. CASE n = 2  BY <1>2
<1>3. CASE n = 3  BY <1>3
<1>4. CASE n = 4  BY <1>4
<1>5. CASE n = 5  BY <1>5
<1>6. CASE n = 6  BY <1>6
<1> QED  BY <1>1, <1>2, <1>3, <1>4, <1>5, <1>6

\* A total over one seat is what that seat has.
LEMMA TotalOfOne ==
  ASSUME NEW o \in Seats, NEW r \in Nat
  PROVE  Total([s \in Seats |-> IF s = o THEN r ELSE 0]) = r
BY DEF Total, Seats

\* A total grows by what one seat puts in.
LEMMA TotalOfMore ==
  ASSUME NEW f \in [Seats -> Nat], NEW o \in Seats, NEW r \in Nat
  PROVE  Total([f EXCEPT ![o] = @ + r]) = Total(f) + r
<1> DEFINE g == [f EXCEPT ![o] = @ + r]
           e(s) == IF s = o THEN r ELSE 0
<1>1. \A s \in Seats : f[s] \in Nat /\ g[s] = f[s] + e(s)  OBVIOUS
<1>2. e(0) + e(1) + e(2) + e(3) + e(4) + e(5) = r  BY DEF Seats
<1>3. \A s \in Seats : e(s) \in Nat  OBVIOUS
<1> HIDE DEF g, e
<1>4. /\ f[0] \in Nat /\ f[1] \in Nat /\ f[2] \in Nat
      /\ f[3] \in Nat /\ f[4] \in Nat /\ f[5] \in Nat
      /\ e(0) \in Nat /\ e(1) \in Nat /\ e(2) \in Nat
      /\ e(3) \in Nat /\ e(4) \in Nat /\ e(5) \in Nat
      /\ g[0] = f[0] + e(0) /\ g[1] = f[1] + e(1) /\ g[2] = f[2] + e(2)
      /\ g[3] = f[3] + e(3) /\ g[4] = f[4] + e(4) /\ g[5] = f[5] + e(5)
  BY <1>1, <1>3 DEF Seats
<1>5. Total(g) = Total(f) + r  BY <1>2, <1>4 DEF Total
<1> QED  BY <1>5 DEF g

\* A pot that somebody is eligible for is paid out to the last chip, whoever
\* ties; a pot that nobody is eligible for pays nothing.
LEMMA SharesAddUp ==
  ASSUME NEW p, p.amount \in Nat, p.eligible \in SUBSET Seats,
         NEW rank \in [Seats -> Nat], NEW dealer \in Seats
  PROVE  /\ \A s \in Seats : Share(p, rank, dealer, s) \in Nat
         /\ \A s \in Seats : s \notin p.eligible => Share(p, rank, dealer, s) = 0
         /\ Total([s \in Seats |-> Share(p, rank, dealer, s)])
              = IF p.eligible = {} THEN 0 ELSE p.amount
<1> DEFINE W == Best(p.eligible, rank)
           n == Count(W)
           q == p.amount \div n
           r == p.amount % n
           o == OddChipSeat(dealer, W)
           share == [s \in Seats |-> Share(p, rank, dealer, s)]
<1>1. W \in SUBSET p.eligible  BY DEF Best
<1>2. CASE p.amount = 0 \/ p.eligible = {}
  <2>1. \A s \in Seats : Share(p, rank, dealer, s) = 0
    BY <1>1, <1>2 DEF Share
  <2>2. Total(share) = 0  BY <2>1 DEF Total, Seats
  <2> QED  BY <2>1, <2>2, <1>2
<1>3. CASE p.amount # 0 /\ p.eligible # {}
  <2>1. W # {}
    <3>1. PICK s \in p.eligible : \A t \in p.eligible : rank[t] <= rank[s]
      BY <1>3, GreatestOf
    <3> QED  BY <3>1 DEF Best
  <2>2. o \in W  BY <2>1, <1>1, FirstClockwiseIn DEF OddChipSeat
  <2>3. n \in 1..6  BY <2>1, <1>1, CountType
  <2>4. q \in Nat /\ r \in Nat /\ p.amount = n * q + r
    <3> HIDE DEF n
    <3> QED  BY <2>3, DivideByWinners
  <2> DEFINE even == [s \in Seats |-> IF s \in W THEN q ELSE 0]
             odd  == [s \in Seats |-> IF s = o THEN r ELSE 0]
  <2>5. \A s \in Seats : Share(p, rank, dealer, s)
                           = IF s \in W THEN q + (IF s = o THEN r ELSE 0) ELSE 0
    BY <1>3 DEF Share
  <2> HIDE DEF W, n, q, r, o
  <2>6. ASSUME NEW s \in Seats
        PROVE  Share(p, rank, dealer, s) = even[s] + odd[s]
    <3>1. CASE s \in W  BY <3>1, <2>4, <2>5
    <3>2. CASE s \notin W
      <4>1. s # o  BY <3>2, <2>2
      <4> QED  BY <3>2, <4>1, <2>5
    <3> QED  BY <3>1, <3>2
  <2>7. even \in [Seats -> Nat] /\ odd \in [Seats -> Nat]  BY <2>4
  <2>8. Total(share) = Total(even) + Total(odd)
    <3>1. share = [s \in Seats |-> even[s] + odd[s]]  BY <2>6
    <3> HIDE DEF even, odd, share
    <3> QED  BY <3>1, <2>7, TotalOfSum
  <2>9. Total(even) = n * q  BY <2>4, TotalOfShares DEF n
  <2>10. o \in Seats  BY <2>2, <1>1
  <2>11. Total(odd) = r  BY <2>4, <2>10, TotalOfOne
  <2>12. Total(share) = p.amount  BY <2>4, <2>8, <2>9, <2>11
  <2>13. ASSUME NEW s \in Seats  PROVE Share(p, rank, dealer, s) \in Nat
    <3> HIDE DEF even, odd
    <3>1. even[s] \in Nat /\ odd[s] \in Nat  BY <2>7
    <3> QED  BY <2>6, <3>1
  <2>14. \A s \in Seats : s \notin p.eligible => Share(p, rank, dealer, s) = 0
    BY <1>1, <2>5
  <2> HIDE DEF share
  <2> QED  BY <1>3, <2>12, <2>13, <2>14 DEF share
<1> QED  BY <1>1, <1>2, <1>3
-----------------------------------------------------------------------------
\* What finishHand pays a seat is never negative.
THEOREM WinningsType ==
  ASSUME NEW totalBet \in [Seats -> Nat], NEW allIn \in SUBSET Seats,
         NEW live \in SUBSET Seats, NEW rank \in [Seats -> Nat],
         NEW dealer \in Seats
  PROVE  Winnings(totalBet, allIn, live, rank, dealer) \in [Seats -> Nat]
<1> DEFINE p == Pots(totalBet, allIn, live)
           of(k, s) == Share(p[k], rank, dealer, s)
<1>1. ASSUME NEW k \in 1..7, NEW s \in Seats  PROVE of(k, s) \in Nat
  <2>1. p[k].amount \in Nat /\ p[k].eligible \in SUBSET Seats  BY PotsType
  <2> HIDE DEF p
  <2> QED  BY <2>1, SharesAddUp
<1>2. Winnings(totalBet, allIn, live, rank, dealer) =
        [s \in Seats |-> of(1, s) + of(2, s) + of(3, s) + of(4, s)
                           + of(5, s) + of(6, s) + of(7, s)]
  BY DEF Winnings, PaidFrom
<1> HIDE DEF of
<1>3. \A s \in Seats : of(1, s) + of(2, s) + of(3, s) + of(4, s)
                         + of(5, s) + of(6, s) + of(7, s) \in Nat
  <2> TAKE s \in Seats
  <2>1. /\ of(1, s) \in Nat /\ of(2, s) \in Nat /\ of(3, s) \in Nat
        /\ of(4, s) \in Nat /\ of(5, s) \in Nat /\ of(6, s) \in Nat
        /\ of(7, s) \in Nat
    BY <1>1
  <2> QED  BY <2>1
<1> QED  BY <1>2, <1>3

\* What finishHand pays the seats is all of what was put in, when every all-in
\* seat is still live: the pots, the splits and the odd chips neither lose nor
\* make a chip.
THEOREM WinningsAddUp ==
  ASSUME NEW totalBet \in [Seats -> Nat], NEW live \in SUBSET Seats, live # {},
         NEW allIn \in SUBSET live, \A s \in allIn : totalBet[s] > 0,
         NEW rank \in [Seats -> Nat], NEW dealer \in Seats
  PROVE  Total(Winnings(totalBet, allIn, live, rank, dealer)) = Total(totalBet)
<1> DEFINE p == Pots(totalBet, allIn, live)
           f(k) == [s \in Seats |-> Share(p[k], rank, dealer, s)]
           w == Winnings(totalBet, allIn, live, rank, dealer)
<1>0. allIn \in SUBSET Seats  OBVIOUS
<1>1. \A k \in 1..7 : p[k].amount \in Nat /\ p[k].eligible \in SUBSET Seats
  <2>1. \A k \in 1..7 : p[k].amount \in Nat /\ p[k].eligible \in SUBSET live
    BY <1>0, PotsType
  <2> HIDE DEF p
  <2> QED  BY <2>1
<1>2. /\ p[1].amount + p[2].amount + p[3].amount + p[4].amount
           + p[5].amount + p[6].amount + p[7].amount = Total(totalBet)
      /\ \A k \in 1..7 : p[k].amount > 0 => p[k].eligible # {}
  BY PotsHoldEverything
<1>3. \A s \in Seats : w[s] = f(1)[s] + f(2)[s] + f(3)[s] + f(4)[s]
                                + f(5)[s] + f(6)[s] + f(7)[s]
  BY DEF Winnings, PaidFrom
<1> HIDE DEF p, w
<1>4. ASSUME NEW k \in 1..7
      PROVE  f(k) \in [Seats -> Nat] /\ Total(f(k)) = p[k].amount
  <2>1. p[k].amount \in Nat /\ p[k].eligible \in SUBSET Seats  BY <1>1
  <2>2. \A s \in Seats : Share(p[k], rank, dealer, s) \in Nat
    BY <2>1, SharesAddUp
  <2>3. Total(f(k)) = IF p[k].eligible = {} THEN 0 ELSE p[k].amount
    BY <2>1, SharesAddUp
  <2> QED  BY <1>2, <2>1, <2>2, <2>3
<1> HIDE DEF f
<1>5. Total(w) = Total(f(1)) + Total(f(2)) + Total(f(3)) + Total(f(4))
                   + Total(f(5)) + Total(f(6)) + Total(f(7))
  <2>1. /\ f(1) \in [Seats -> Nat] /\ f(2) \in [Seats -> Nat]
        /\ f(3) \in [Seats -> Nat] /\ f(4) \in [Seats -> Nat]
        /\ f(5) \in [Seats -> Nat] /\ f(6) \in [Seats -> Nat]
        /\ f(7) \in [Seats -> Nat]
    BY <1>4
  <2> DEFINE g2 == [s \in Seats |-> f(1)[s] + f(2)[s]]
  <2>2. g2 \in [Seats -> Nat] /\ Total(g2) = Total(f(1)) + Total(f(2))
    <3>1. f(1) \in [Seats -> Nat] /\ f(2) \in [Seats -> Nat]  BY <2>1
    <3>2. Total(g2) = Total(f(1)) + Total(f(2))  BY <3>1, TotalOfSum
    <3> QED  BY <3>1, <3>2
  <2> HIDE DEF g2
  <2> DEFINE g3 == [s \in Seats |-> g2[s] + f(3)[s]]
  <2>3. g3 \in [Seats -> Nat] /\ Total(g3) = Total(g2) + Total(f(3))
    <3>1. g2 \in [Seats -> Nat] /\ f(3) \in [Seats -> Nat]  BY <2>1, <2>2
    <3>2. Total(g3) = Total(g2) + Total(f(3))  BY <3>1, TotalOfSum
    <3> QED  BY <3>1, <3>2
  <2> HIDE DEF g3
  <2> DEFINE g4 == [s \in Seats |-> g3[s] + f(4)[s]]
  <2>4. g4 \in [Seats -> Nat] /\ Total(g4) = Total(g3) + Total(f(4))
    <3>1. g3 \in [Seats -> Nat] /\ f(4) \in [Seats -> Nat]  BY <2>1, <2>3
    <3>2. Total(g4) = Total(g3) + Total(f(4))  BY <3>1, TotalOfSum
    <3> QED  BY <3>1, <3>2
  <2> HIDE DEF g4
  <2> DEFINE g5 == [s \in Seats |-> g4[s] + f(5)[s]]
  <2>5. g5 \in [Seats -> Nat] /\ Total(g5) = Total(g4) + Total(f(5))
    <3>1. g4 \in [Seats -> Nat] /\ f(5) \in [Seats -> Nat]  BY <2>1, <2>4
    <3>2. Total(g5) = Total(g4) + Total(f(5))  BY <3>1, TotalOfSum
    <3> QED  BY <3>1, <3>2
  <2> HIDE DEF g5
  <2> DEFINE g6 == [s \in Seats |-> g5[s] + f(6)[s]]
  <2>6. g6 \in [Seats -> Nat] /\ Total(g6) = Total(g5) + Total(f(6))
    <3>1. g5 \in [Seats -> Nat] /\ f(6) \in [Seats -> Nat]  BY <2>1, <2>5
    <3>2. Total(g6) = Total(g5) + Total(f(6))  BY <3>1, TotalOfSum
    <3> QED  BY <3>1, <3>2
  <2> HIDE DEF g6
  <2> DEFINE g7 == [s \in Seats |-> g6[s] + f(7)[s]]
  <2>7. g7 \in [Seats -> Nat] /\ Total(g7) = Total(g6) + Total(f(7))
    <3>1. g6 \in [Seats -> Nat] /\ f(7) \in [Seats -> Nat]  BY <2>1, <2>6
    <3>2. Total(g7) = Total(g6) + Total(f(7))  BY <3>1, TotalOfSum
    <3> QED  BY <3>1, <3>2
  <2> HIDE DEF g7
  <2>8. \A s \in Seats : g7[s] = w[s]
    BY <1>3 DEF g2, g3, g4, g5, g6, g7
  <2>9. Total(g7) = Total(w)  BY <2>8 DEF Total, Seats
  <2> QED  BY <2>2, <2>3, <2>4, <2>5, <2>6, <2>7, <2>9
<1>6. /\ Total(f(1)) = p[1].amount /\ Total(f(2)) = p[2].amount
      /\ Total(f(3)) = p[3].amount /\ Total(f(4)) = p[4].amount
      /\ Total(f(5)) = p[5].amount /\ Total(f(6)) = p[6].amount
      /\ Total(f(7)) = p[7].amount
  BY <1>4
<1> QED  BY <1>2, <1>5, <1>6 DEF w
-----------------------------------------------------------------------------
(***************************************************************************)
(* Who gets what.                                                           *)
(***************************************************************************)
\* Levels l numbered from 0 and the pots p: layer k lies between level k - 1 and level
\* k, and no seat is all-in in between.  Only the highest layer may hold more than it
\* should, and that when nobody may win the rest.
Layered(l, p, totalBet, allIn, live) ==
  /\ l[0] = 0 /\ \A s \in allIn : totalBet[s] <= l[6]
  /\ p[7].eligible = RestEligible(totalBet, allIn, live, l[6])
  /\ p[7].eligible # {} => p[7].amount = Total(totalBet) - UpTo(totalBet, l[6])
  /\ \A k \in 1..6 :
       /\ l[k - 1] <= l[k]
       /\ l[k - 1] < l[k] => \E s \in allIn : totalBet[s] = l[k]
       /\ \A s \in allIn : totalBet[s] > l[k - 1] => totalBet[s] >= l[k]
       /\ p[k].eligible = {s \in live : totalBet[s] >= l[k]}
       /\ p[k].amount >= UpTo(totalBet, l[k]) - UpTo(totalBet, l[k - 1])
       /\ l[k] # l[6] \/ p[7].eligible # {} =>
            p[k].amount = UpTo(totalBet, l[k]) - UpTo(totalBet, l[k - 1])

\* The pots again, with the levels numbered from 0.
LEMMA PotsAre ==
  ASSUME NEW totalBet \in [Seats -> Nat], NEW allIn \in SUBSET Seats,
         NEW live \in SUBSET Seats
  PROVE  \E l \in [0..6 -> Nat] :
           Layered(l, Pots(totalBet, allIn, live), totalBet, allIn, live)
<1> DEFINE N(level) == NextLevel(totalBet, allIn, level)
           U(level) == UpTo(totalBet, level)
           L == Levels(totalBet, allIn)
           l == [k \in 0..6 |-> IF k = 0 THEN 0 ELSE L[k]]
           rest == Total(totalBet) - U(l[6])
           restEligible == RestEligible(totalBet, allIn, live, l[6])
           orphaned == IF restEligible = {} THEN rest ELSE 0
           Extra(lower, upper) ==
             IF lower < upper /\ upper = l[6] THEN orphaned ELSE 0
           Layer(lower, upper) ==
             [amount   |-> U(upper) - U(lower) + Extra(lower, upper),
              eligible |-> {s \in live : totalBet[s] >= upper}]
           p == Pots(totalBet, allIn, live)
<1>1. L \in [1..6 -> Nat] /\ \A k \in 1..6 : L[k] = N(l[k - 1])
  <2>1. \A k \in 1..6 : L[k] \in Nat  BY LevelsAre
  <2>2. L = <<N(0), N(N(0)), N(N(N(0))), N(N(N(N(0)))), N(N(N(N(N(0))))),
              N(N(N(N(N(N(0))))))>>
    BY DEF Levels
  <2> HIDE DEF N
  <2>3. \A k \in 1..6 : L[k] = IF k = 1 THEN N(0) ELSE N(L[k - 1])  BY <2>2
  <2>4. DOMAIN L = 1..6 /\ L = [k \in DOMAIN L |-> L[k]]  BY <2>2
  <2> HIDE DEF L
  <2> QED  BY <2>1, <2>3, <2>4
<1>2. p = <<Layer(0, L[1]), Layer(L[1], L[2]), Layer(L[2], L[3]), Layer(L[3], L[4]),
            Layer(L[4], L[5]), Layer(L[5], L[6]),
            [amount |-> rest - orphaned, eligible |-> restEligible]>>
  <2>1. l[6] = L[6]  OBVIOUS
  <2> QED  BY <2>1 DEF Pots, PotsOfLevels
<1> HIDE DEF L, N, Layer, p
<1>3. l \in [0..6 -> Nat] /\ l[0] = 0 /\ \A k \in 1..6 : l[k] = N(l[k - 1])
  BY <1>1
<1>4. \A k \in 1..6 : p[k] = Layer(l[k - 1], l[k])
  BY <1>2
<1>5. p[7].amount = rest - orphaned /\ p[7].eligible = restEligible
  BY <1>2
<1>6. \A s \in allIn : totalBet[s] <= l[6]
  <2>1. \A s \in allIn : totalBet[s] <= L[6]  BY LevelsAre DEF L
  <2> QED  BY <2>1
<1> HIDE DEF l
<1>7. /\ \A level \in Nat : U(level) \in Nat /\ U(level) <= Total(totalBet)
      /\ Total(totalBet) \in Nat
  BY UpToIs, TotalType
<1> HIDE DEF U
<1>8. rest \in Nat /\ orphaned \in Nat
  <2>1. l[6] \in Nat  BY <1>3
  <2> QED  BY <1>7, <2>1
<1>9. ASSUME NEW k \in 1..6
      PROVE  /\ l[k - 1] <= l[k]
             /\ l[k - 1] < l[k] => \E s \in allIn : totalBet[s] = l[k]
             /\ \A s \in allIn : totalBet[s] > l[k - 1] => totalBet[s] >= l[k]
  <2>1. l[k - 1] \in Nat /\ l[k] = N(l[k - 1])  BY <1>3
  <2>2. LET next == N(l[k - 1]) IN
        /\ next \in Nat
        /\ \/ /\ next = l[k - 1]
              /\ \A s \in allIn : totalBet[s] <= l[k - 1]
           \/ /\ next > l[k - 1]
              /\ \E s \in allIn : totalBet[s] = next
              /\ \A s \in allIn : totalBet[s] > l[k - 1] => totalBet[s] >= next
    BY <2>1, NextLevelIs DEF N
  <2>3. \A s \in allIn : totalBet[s] \in Nat  OBVIOUS
  <2> QED  BY <2>1, <2>2, <2>3
<1>10. ASSUME NEW k \in 1..6
       PROVE  /\ p[k].eligible = {s \in live : totalBet[s] >= l[k]}
              /\ p[k].amount >= U(l[k]) - U(l[k - 1])
              /\ l[k] # l[6] \/ p[7].eligible # {} => p[k].amount = U(l[k]) - U(l[k - 1])
  <2>1. /\ p[k].eligible = {s \in live : totalBet[s] >= l[k]}
        /\ p[k].amount = U(l[k]) - U(l[k - 1]) + Extra(l[k - 1], l[k])
    BY <1>4 DEF Layer
  <2>2. U(l[k]) \in Nat /\ U(l[k - 1]) \in Nat  BY <1>3, <1>7
  <2>3. Extra(l[k - 1], l[k]) \in Nat  BY <1>8
  <2>4. l[k] # l[6] \/ p[7].eligible # {} => Extra(l[k - 1], l[k]) = 0  BY <1>5
  <2> HIDE DEF Extra
  <2> QED  BY <2>1, <2>2, <2>3, <2>4
<1>11. p[7].eligible # {} => p[7].amount = rest  BY <1>5, <1>8
<1> QED  BY <1>3, <1>5, <1>6, <1>9, <1>10, <1>11 DEF U, p, Layered

\* The same with a function U for UpTo.
Ladder(l, U, p, totalBet, allIn, live) ==
  /\ \A level \in Nat : U[level] = UpTo(totalBet, level)
  /\ l[0] = 0 /\ \A s \in allIn : totalBet[s] <= l[6]
  /\ p[7].amount \in Nat
  /\ p[7].eligible = RestEligible(totalBet, allIn, live, l[6])
  /\ p[7].eligible # {} => p[7].amount = Total(totalBet) - U[l[6]]
  /\ \A k \in 1..6 :
       /\ l[k - 1] <= l[k]
       /\ l[k - 1] < l[k] => \E s \in allIn : totalBet[s] = l[k]
       /\ \A s \in allIn : totalBet[s] > l[k - 1] => totalBet[s] >= l[k]
       /\ p[k].amount \in Nat
       /\ p[k].eligible = {s \in live : totalBet[s] >= l[k]}
       /\ p[k].amount >= U[l[k]] - U[l[k - 1]]
       /\ l[k] # l[6] \/ p[7].eligible # {} =>
            p[k].amount = U[l[k]] - U[l[k - 1]]

\* Nobody takes more than a pot, and who beats the others takes all of it.
LEMMA ShareIs ==
  ASSUME NEW p, p.amount \in Nat, p.eligible \in SUBSET Seats,
         NEW rank \in [Seats -> Nat], NEW dealer \in Seats, NEW s \in Seats
  PROVE  /\ Share(p, rank, dealer, s) \in 0..p.amount
         /\ s \notin p.eligible => Share(p, rank, dealer, s) = 0
         /\ s \in p.eligible /\ (\A t \in p.eligible \ {s} : rank[t] < rank[s])
              => Share(p, rank, dealer, s) = p.amount
<1> DEFINE share == [t \in Seats |-> Share(p, rank, dealer, t)]
<1>1. share \in [Seats -> Nat]  BY SharesAddUp
<1>2. Total(share) = IF p.eligible = {} THEN 0 ELSE p.amount  BY SharesAddUp
<1>3. \A t \in Seats : t \notin p.eligible => share[t] = 0  BY SharesAddUp
<1>4. share[s] <= Total(share)
  <2> HIDE DEF share
  <2> QED  BY <1>1, TotalType
<1>5. share[s] = Share(p, rank, dealer, s)  OBVIOUS
<1>6. ASSUME s \in p.eligible, \A t \in p.eligible \ {s} : rank[t] < rank[s]
      PROVE  share[s] = p.amount
  <2>1. Best(p.eligible, rank) = {s}
    <3>1. \A t \in p.eligible : rank[t] \in Nat  OBVIOUS
    <3>2. s \in Best(p.eligible, rank)  BY <1>6, <3>1 DEF Best
    <3>3. \A t \in Best(p.eligible, rank) : t = s  BY <1>6, <3>1 DEF Best
    <3> QED  BY <3>2, <3>3
  <2>2. share = [t \in Seats |-> IF t = s THEN share[s] ELSE 0]
    <3>1. \A t \in Seats : t # s => share[t] = 0  BY <2>1 DEF Share
    <3> QED  BY <3>1
  <2> HIDE DEF share
  <2>3. Total(share) = share[s]
    <3>1. share[s] \in Nat  BY <1>1
    <3>2. Total([t \in Seats |-> IF t = s THEN share[s] ELSE 0]) = share[s]
      BY <3>1, TotalOfOne
    <3> QED  BY <2>2, <3>2
  <2> QED  BY <1>2, <1>6, <2>3
<1> HIDE DEF share
<1>7. share[s] \in Nat  BY <1>1
<1>8. share[s] <= p.amount  BY <1>2, <1>4, <1>7
<1> QED  BY <1>3, <1>5, <1>6, <1>7, <1>8

\* The pots of a hand are the rungs of a ladder of levels.
LEMMA LadderOfPots ==
  ASSUME NEW totalBet \in [Seats -> Nat], NEW allIn \in SUBSET Seats,
         NEW live \in SUBSET Seats
  PROVE  \E l \in [0..6 -> Nat], U \in [Nat -> Nat] :
           Ladder(l, U, Pots(totalBet, allIn, live), totalBet, allIn, live)
<1> DEFINE p == Pots(totalBet, allIn, live)
           U == [level \in Nat |-> UpTo(totalBet, level)]
<1>1. PICK l \in [0..6 -> Nat] : Layered(l, p, totalBet, allIn, live)  BY PotsAre
<1>2. \A k \in 1..7 : p[k].amount \in Nat  BY PotsType
<1> HIDE DEF p
<1>3. U \in [Nat -> Nat]  BY UpToIs
<1>4. \A level \in Nat : U[level] = UpTo(totalBet, level)  OBVIOUS
<1> HIDE DEF U
<1>5. \A k \in 0..6 : l[k] \in Nat  OBVIOUS
<1>6. ASSUME NEW k \in 1..6
      PROVE  /\ U[l[k]] = UpTo(totalBet, l[k]) /\ U[l[k - 1]] = UpTo(totalBet, l[k - 1])
             /\ p[k].amount \in Nat
  BY <1>2, <1>4, <1>5
<1>7. U[l[6]] = UpTo(totalBet, l[6]) /\ p[7].amount \in Nat  BY <1>2, <1>4, <1>5
<1>8. Ladder(l, U, p, totalBet, allIn, live)
  BY <1>1, <1>4, <1>6, <1>7 DEF Layered, Ladder
<1> QED  BY <1>3, <1>8 DEF p

\* What seat s takes of each of the seven pots p, and in all.
Takes(of, won, p, rank, dealer, s) ==
  /\ won = of[1] + of[2] + of[3] + of[4] + of[5] + of[6] + of[7]
  /\ \A k \in 1..7 :
       /\ of[k] = Share(p[k], rank, dealer, s)
       /\ of[k] <= p[k].amount
       /\ s \notin p[k].eligible => of[k] = 0
       /\ s \in p[k].eligible /\ (\A t \in p[k].eligible \ {s} : rank[t] < rank[s])
            => of[k] = p[k].amount

\* What a seat wins is the sum of its shares of the seven pots.
LEMMA WinningsAre ==
  ASSUME NEW totalBet \in [Seats -> Nat], NEW allIn \in SUBSET Seats,
         NEW live \in SUBSET Seats, NEW rank \in [Seats -> Nat], NEW dealer \in Seats,
         NEW s \in Seats
  PROVE  \E of \in [1..7 -> Nat] :
           Takes(of, Winnings(totalBet, allIn, live, rank, dealer)[s],
                 Pots(totalBet, allIn, live), rank, dealer, s)
<1> DEFINE p == Pots(totalBet, allIn, live)
           of == [k \in 1..7 |-> Share(p[k], rank, dealer, s)]
<1>1. Winnings(totalBet, allIn, live, rank, dealer)[s]
        = of[1] + of[2] + of[3] + of[4] + of[5] + of[6] + of[7]
  BY DEF Winnings, PaidFrom
<1>2. \A k \in 1..7 : p[k].amount \in Nat /\ p[k].eligible \in SUBSET Seats
  BY PotsType
<1> HIDE DEF p
<1>3. ASSUME NEW k \in 1..7
      PROVE  /\ of[k] \in 0..p[k].amount
             /\ s \notin p[k].eligible => of[k] = 0
             /\ s \in p[k].eligible /\ (\A t \in p[k].eligible \ {s} : rank[t] < rank[s])
                  => of[k] = p[k].amount
  BY <1>2, ShareIs
<1>4. \A k \in 1..7 : of[k] \in Nat /\ of[k] <= p[k].amount  BY <1>2, <1>3
<1>5. of \in [1..7 -> Nat]  BY <1>4
<1>6. \A k \in 1..7 : of[k] = Share(p[k], rank, dealer, s)  OBVIOUS
<1> HIDE DEF of
<1>7. Takes(of, Winnings(totalBet, allIn, live, rank, dealer)[s], p, rank, dealer, s)
  BY <1>1, <1>3, <1>4, <1>6 DEF Takes
<1> QED  BY <1>5, <1>7 DEF p

\* What a seat matches of each layer: c[k] is what it has matched up to level k.
\* The steps below compare the seat's takings with c[k] - c[k - 1], layer by layer.
LayersMatched(c, l, U, mine) ==
  /\ c[0] = 0
  /\ \A k \in 1..6 : /\ l[k] <= mine => c[k] = U[l[k]] /\ c[k - 1] = U[l[k - 1]]
                     /\ mine <= l[k - 1] => c[k] = c[k - 1]
                     /\ c[k - 1] <= c[k]
  /\ mine <= l[6] => c[6] = U[mine]
  /\ l[6] <= mine => c[6] = U[l[6]]

\* What the others put in up to a stake, level by level.
LEMMA MatchedIs ==
  ASSUME NEW totalBet \in [Seats -> Nat], NEW allIn, NEW live, NEW p,
         NEW l \in [0..6 -> Nat], NEW U \in [Nat -> Nat],
         Ladder(l, U, p, totalBet, allIn, live), NEW mine \in Nat
  PROVE  \E c \in [0..6 -> Nat] : LayersMatched(c, l, U, mine)
<1>0. \A level \in Nat : U[level] = UpTo(totalBet, level)  BY DEF Ladder
<1>1. ASSUME NEW low \in Nat, NEW high \in Nat, low <= high
      PROVE  U[low] <= U[high]
  <2>1. UpTo(totalBet, low) <= UpTo(totalBet, high)  BY <1>1, UpToIs
  <2> QED  BY <1>0, <2>1
<1> DEFINE c == [k \in 0..6 |-> U[Min2(l[k], mine)]]
<1>2. U[0] = 0
  <2>1. UpTo(totalBet, 0) = 0  BY UpToIs
  <2> QED  BY <2>1 DEF Ladder
<1>3. \A level \in Nat : /\ Min2(level, mine) \in Nat
                         /\ level <= mine => Min2(level, mine) = level
                         /\ mine <= level => Min2(level, mine) = mine
  BY DEF Min2
<1>4. \A k \in 0..6 : c[k] = U[Min2(l[k], mine)] /\ l[k] \in Nat  OBVIOUS
<1>5. c \in [0..6 -> Nat]  BY <1>3, <1>4
<1> HIDE DEF c
<1>6. c[0] = 0
  <2>1. l[0] = 0  BY DEF Ladder
  <2> QED  BY <1>2, <1>3, <1>4, <2>1
<1>7. ASSUME NEW k \in 1..6
      PROVE  /\ l[k] <= mine => c[k] = U[l[k]] /\ c[k - 1] = U[l[k - 1]]
             /\ mine <= l[k - 1] => c[k] = c[k - 1]
             /\ c[k - 1] <= c[k]
  <2>1. l[k - 1] <= l[k]  BY DEF Ladder
  <2>2. k - 1 \in 0..6 /\ k \in 0..6  OBVIOUS
  <2>3. /\ c[k] = U[Min2(l[k], mine)] /\ c[k - 1] = U[Min2(l[k - 1], mine)]
        /\ l[k] \in Nat /\ l[k - 1] \in Nat
    BY <1>4, <2>2
  <2>4. Min2(l[k - 1], mine) <= Min2(l[k], mine)
    BY <2>1, <2>3 DEF Min2
  <2>5. c[k - 1] <= c[k]  BY <1>1, <1>3, <2>3, <2>4
  <2> QED  BY <1>3, <2>1, <2>3, <2>5
<1>8. /\ mine <= l[6] => c[6] = U[mine]
      /\ l[6] <= mine => c[6] = U[l[6]]
  BY <1>3, <1>4
<1> QED  BY <1>5, <1>6, <1>7, <1>8 DEF LayersMatched

\* Sums of seven takings against the steps of c.
LEMMA AddedUp ==
  ASSUME NEW of \in [1..7 -> Nat], NEW c \in [0..6 -> Nat]
  PROVE  LET all == of[1] + of[2] + of[3] + of[4] + of[5] + of[6] + of[7] IN
         /\ all \in Nat
         /\ \A k \in 1..7 : all >= of[k]
         /\ (\A k \in 1..6 : of[k] <= c[k] - c[k - 1]) => all <= c[6] - c[0] + of[7]
         /\ (\A k \in 1..6 : of[k] >= c[k] - c[k - 1]) => all >= c[6] - c[0] + of[7]
<1>1. /\ of[1] \in Nat /\ of[2] \in Nat /\ of[3] \in Nat /\ of[4] \in Nat
      /\ of[5] \in Nat /\ of[6] \in Nat /\ of[7] \in Nat
  OBVIOUS
<1>2. /\ c[0] \in Nat /\ c[1] \in Nat /\ c[2] \in Nat /\ c[3] \in Nat
      /\ c[4] \in Nat /\ c[5] \in Nat /\ c[6] \in Nat
  OBVIOUS
<1> DEFINE all == of[1] + of[2] + of[3] + of[4] + of[5] + of[6] + of[7]
<1>3. all \in Nat  BY <1>1
<1>4. \A k \in 1..7 : all >= of[k]
  <2>1. all >= of[1] /\ all >= of[2] /\ all >= of[3] /\ all >= of[4] /\ all >= of[5]
        /\ all >= of[6] /\ all >= of[7]
    BY <1>1
  <2> HIDE DEF all
  <2> QED  BY <2>1
<1>5. ASSUME \A k \in 1..6 : of[k] <= c[k] - c[k - 1]
      PROVE  all <= c[6] - c[0] + of[7]
  <2>1. /\ of[1] <= c[1] - c[0] /\ of[2] <= c[2] - c[1] /\ of[3] <= c[3] - c[2]
        /\ of[4] <= c[4] - c[3] /\ of[5] <= c[5] - c[4] /\ of[6] <= c[6] - c[5]
    BY <1>5
  <2> QED  BY <1>1, <1>2, <2>1
<1>6. ASSUME \A k \in 1..6 : of[k] >= c[k] - c[k - 1]
      PROVE  all >= c[6] - c[0] + of[7]
  <2>1. /\ of[1] >= c[1] - c[0] /\ of[2] >= c[2] - c[1] /\ of[3] >= c[3] - c[2]
        /\ of[4] >= c[4] - c[3] /\ of[5] >= c[5] - c[4] /\ of[6] >= c[6] - c[5]
    BY <1>6
  <2> QED  BY <1>1, <1>2, <2>1
<1> QED  BY <1>3, <1>4, <1>5, <1>6

\* An all-in seat wins no more than it matched when a live seat put in more: it is
\* eligible for the layers up to its own stake alone.
THEOREM StakeBounds ==
  ASSUME NEW totalBet \in [Seats -> Nat], NEW allIn \in SUBSET Seats,
         NEW live \in SUBSET Seats, NEW rank \in [Seats -> Nat], NEW dealer \in Seats,
         NEW s \in live, s \in allIn, NEW t \in live, totalBet[s] < totalBet[t]
  PROVE  Winnings(totalBet, allIn, live, rank, dealer)[s] <= UpTo(totalBet, totalBet[s])
<1> DEFINE p == Pots(totalBet, allIn, live)
           mine == totalBet[s]
<1>1. PICK l \in [0..6 -> Nat], U \in [Nat -> Nat] :
         Ladder(l, U, p, totalBet, allIn, live)
  BY LadderOfPots
<1>2. PICK of \in [1..7 -> Nat] :
         Takes(of, Winnings(totalBet, allIn, live, rank, dealer)[s], p, rank, dealer, s)
  BY WinningsAre
<1> HIDE DEF p
<1>3. mine \in Nat  OBVIOUS
<1>4. PICK c \in [0..6 -> Nat] : LayersMatched(c, l, U, mine)  BY <1>1, <1>3, MatchedIs
<1>5. mine <= l[6] /\ totalBet[t] \in Nat /\ l[6] \in Nat  BY <1>1 DEF Ladder
<1>6. of[7] = 0
  <2>1. s \notin p[7].eligible  BY <1>1, <1>5 DEF Ladder, RestEligible
  <2> QED  BY <1>2, <2>1 DEF Takes
<1>7. ASSUME NEW k \in 1..6  PROVE of[k] <= c[k] - c[k - 1]
  <2>1. /\ l[k] \in Nat /\ l[k - 1] \in Nat /\ of[k] \in Nat
        /\ c[k] \in Nat /\ c[k - 1] \in Nat
    OBVIOUS
  <2>2. k \in 1..7  OBVIOUS
  <2>3. CASE mine < l[k]
    <3>1. s \notin p[k].eligible  BY <1>1, <1>3, <2>1, <2>3 DEF Ladder
    <3>2. of[k] = 0  BY <1>2, <2>2, <3>1 DEF Takes
    <3>3. c[k - 1] <= c[k]  BY <1>4 DEF LayersMatched
    <3> QED  BY <2>1, <3>2, <3>3
  <2>4. CASE l[k] <= mine
    <3>1. l[k] # l[6] \/ p[7].eligible # {}
      <4> SUFFICES ASSUME l[k] = l[6] PROVE t \in p[7].eligible  OBVIOUS
      <4>1. totalBet[t] > l[6]  BY <1>3, <1>5, <2>4
      <4> QED  BY <1>1, <4>1 DEF Ladder, RestEligible
    <3>2. p[k].amount = U[l[k]] - U[l[k - 1]]  BY <1>1, <3>1 DEF Ladder
    <3>3. c[k] = U[l[k]] /\ c[k - 1] = U[l[k - 1]]  BY <1>4, <2>4 DEF LayersMatched
    <3>4. of[k] <= p[k].amount  BY <1>2, <2>2 DEF Takes
    <3> QED  BY <3>2, <3>3, <3>4
  <2> QED  BY <1>3, <2>1, <2>3, <2>4
<1>8. c[0] = 0 /\ c[6] = U[mine] /\ U[mine] \in Nat  BY <1>3, <1>4, <1>5 DEF LayersMatched
<1>9. U[mine] = UpTo(totalBet, mine)  BY <1>1, <1>3 DEF Ladder
<1>10. of[1] + of[2] + of[3] + of[4] + of[5] + of[6] + of[7] <= c[6] - c[0] + of[7]
  BY <1>7, AddedUp
<1> QED  BY <1>2, <1>6, <1>8, <1>9, <1>10 DEF Takes

\* A seat that beats all other live seats collects what it matched, when it is
\* all-in or has put in as much as anybody.
THEOREM BestCollects ==
  ASSUME NEW totalBet \in [Seats -> Nat], NEW allIn \in SUBSET Seats,
         NEW live \in SUBSET Seats, NEW rank \in [Seats -> Nat], NEW dealer \in Seats,
         NEW s \in live, \A t \in live \ {s} : rank[t] < rank[s],
         s \in allIn \/ \A t \in Seats : totalBet[t] <= totalBet[s]
  PROVE  Winnings(totalBet, allIn, live, rank, dealer)[s] >= UpTo(totalBet, totalBet[s])
<1> DEFINE p == Pots(totalBet, allIn, live)
           mine == totalBet[s]
<1>1. PICK l \in [0..6 -> Nat], U \in [Nat -> Nat] :
         Ladder(l, U, p, totalBet, allIn, live)
  BY LadderOfPots
<1>2. PICK of \in [1..7 -> Nat] :
         Takes(of, Winnings(totalBet, allIn, live, rank, dealer)[s], p, rank, dealer, s)
  BY WinningsAre
<1>3. \A k \in 1..7 : p[k].eligible \in SUBSET live  BY PotsType
<1> HIDE DEF p
<1>4. mine \in Nat /\ l[6] \in Nat  OBVIOUS
<1>5. PICK c \in [0..6 -> Nat] : LayersMatched(c, l, U, mine)  BY <1>1, <1>4, MatchedIs
<1>6. ASSUME NEW k \in 1..7, s \in p[k].eligible  PROVE of[k] = p[k].amount
  <2>1. \A t \in p[k].eligible \ {s} : rank[t] < rank[s]  BY <1>3
  <2> QED  BY <1>2, <1>6, <2>1 DEF Takes
<1>7. ASSUME NEW k \in 1..6  PROVE of[k] >= c[k] - c[k - 1]
  <2>1. /\ l[k] \in Nat /\ l[k - 1] \in Nat /\ l[k - 1] <= l[k] /\ of[k] \in Nat
        /\ c[k] \in Nat /\ c[k - 1] \in Nat
    BY <1>1 DEF Ladder
  <2>2. k \in 1..7  OBVIOUS
  <2>3. CASE l[k] <= mine
    <3>1. s \in p[k].eligible  BY <1>1, <2>3 DEF Ladder
    <3>2. of[k] = p[k].amount  BY <1>6, <2>2, <3>1
    <3>3. c[k] = U[l[k]] /\ c[k - 1] = U[l[k - 1]]  BY <1>5, <2>3 DEF LayersMatched
    <3>4. p[k].amount >= U[l[k]] - U[l[k - 1]]  BY <1>1 DEF Ladder
    <3> QED  BY <3>2, <3>3, <3>4
  <2>4. CASE mine < l[k]
    <3>1. mine <= l[k - 1]
      <4>1. CASE s \in allIn
        <5>1. mine > l[k - 1] => mine >= l[k]  BY <1>1, <4>1 DEF Ladder
        <5> QED  BY <1>4, <2>1, <2>4, <5>1
      <4>2. CASE \A t \in Seats : totalBet[t] <= totalBet[s]
        <5> SUFFICES ASSUME l[k - 1] < l[k] PROVE FALSE  BY <1>4, <2>1, <2>4
        <5>1. PICK u \in allIn : totalBet[u] = l[k]  BY <1>1 DEF Ladder
        <5>2. totalBet[u] <= totalBet[s]  BY <4>2
        <5> QED  BY <1>4, <2>1, <2>4, <5>1, <5>2
      <4> QED  BY <4>1, <4>2
    <3>2. c[k] = c[k - 1]  BY <1>5, <3>1 DEF LayersMatched
    <3> QED  BY <2>1, <3>2
  <2> QED  BY <1>4, <2>1, <2>3, <2>4
<1>8. U[mine] = UpTo(totalBet, mine) /\ U[mine] \in Nat  BY <1>1, <1>4 DEF Ladder
<1>9. c[6] + of[7] >= U[mine]
  <2>1. c[6] \in Nat /\ of[7] \in Nat  OBVIOUS
  <2>2. CASE mine <= l[6]
    <3>1. c[6] = U[mine]  BY <1>5, <2>2 DEF LayersMatched
    <3> QED  BY <1>8, <2>1, <3>1
  <2>3. CASE mine > l[6]
    <3>1. s \in p[7].eligible  BY <1>1, <2>3 DEF Ladder, RestEligible
    <3>2. p[7].amount = Total(totalBet) - U[l[6]]  BY <1>1, <3>1 DEF Ladder
    <3>3. of[7] = p[7].amount  BY <1>6, <3>1
    <3>4. c[6] = U[l[6]]  BY <1>4, <1>5, <2>3 DEF LayersMatched
    <3>5. UpTo(totalBet, mine) <= Total(totalBet)
      <4>1. mine <= mine  BY <1>4
      <4> HIDE DEF mine
      <4> QED  BY <1>4, <4>1, UpToIs
    <3>6. Total(totalBet) \in Nat  BY TotalType
    <3> QED  BY <1>8, <2>1, <3>2, <3>3, <3>4, <3>5, <3>6
  <2> QED  BY <1>4, <2>2, <2>3
<1>10. c[0] = 0 /\ c[6] \in Nat /\ of[7] \in Nat  BY <1>5 DEF LayersMatched
<1>11. of[1] + of[2] + of[3] + of[4] + of[5] + of[6] + of[7] >= c[6] - c[0] + of[7]
  BY <1>7, AddedUp
<1>12. of[1] + of[2] + of[3] + of[4] + of[5] + of[6] + of[7] \in Nat  BY AddedUp
<1> DEFINE all == of[1] + of[2] + of[3] + of[4] + of[5] + of[6] + of[7]
<1> HIDE DEF all
<1>13. all >= c[6] - c[0] + of[7] /\ all \in Nat  BY <1>11, <1>12 DEF all
<1>14. Winnings(totalBet, allIn, live, rank, dealer)[s] = all  BY <1>2 DEF all, Takes
<1> QED  BY <1>8, <1>9, <1>10, <1>13, <1>14

\* A live seat that put in more than any other gets the difference back, whoever
\* wins: it lies in a layer, or in the rest, for which nobody else is eligible.
THEOREM UncalledReturns ==
  ASSUME NEW totalBet \in [Seats -> Nat], NEW allIn \in SUBSET Seats,
         NEW live \in SUBSET Seats, NEW rank \in [Seats -> Nat], NEW dealer \in Seats,
         NEW s \in live, live # {s}, NEW h \in Nat, h < totalBet[s],
         \A t \in Seats \ {s} : totalBet[t] <= h,
         \A t \in live \ {s} : t \in allIn
  PROVE  Winnings(totalBet, allIn, live, rank, dealer)[s] >= totalBet[s] - h
<1> DEFINE p == Pots(totalBet, allIn, live)
           mine == totalBet[s]
<1>1. PICK l \in [0..6 -> Nat], U \in [Nat -> Nat] :
         Ladder(l, U, p, totalBet, allIn, live)
  BY LadderOfPots
<1>2. PICK of \in [1..7 -> Nat] :
         Takes(of, Winnings(totalBet, allIn, live, rank, dealer)[s], p, rank, dealer, s)
  BY WinningsAre
<1> HIDE DEF p
<1>3. \A k \in 1..7 : p[k].eligible = {s} => of[k] = p[k].amount
  BY <1>2 DEF Takes
<1>4. mine \in Nat /\ h < mine /\ \A k \in 0..6 : l[k] \in Nat  OBVIOUS
<1>5. UpTo(totalBet, mine) = Total(totalBet)
      /\ UpTo(totalBet, mine) = UpTo(totalBet, h) + (mine - h)
  <2> DEFINE f == [u \in Seats |-> Min2(totalBet[u], h)]
  <2>1. f \in [Seats -> Nat]  BY DEF Min2
  <2>2. [u \in Seats |-> Min2(totalBet[u], mine)] = totalBet
    <3>1. \A u \in Seats : Min2(totalBet[u], mine) = totalBet[u]
      <4> TAKE u \in Seats
      <4>1. totalBet[u] \in Nat /\ totalBet[u] <= mine  BY <1>4
      <4> QED  BY <1>4, <4>1 DEF Min2
    <3> HIDE DEF mine
    <3> QED  BY <3>1
  <2>3. totalBet = [f EXCEPT ![s] = @ + (mine - h)]
    <3>1. f[s] = h  BY <1>4 DEF Min2
    <3>2. \A u \in Seats \ {s} : f[u] = totalBet[u]
      <4> TAKE u \in Seats \ {s}
      <4>1. totalBet[u] \in Nat /\ totalBet[u] <= h  OBVIOUS
      <4> QED  BY <4>1 DEF Min2
    <3> HIDE DEF f
    <3>3. f[s] + (mine - h) = mine  BY <1>4, <3>1
    <3> QED  BY <2>1, <3>2, <3>3
  <2>4. UpTo(totalBet, mine) = Total(totalBet) /\ UpTo(totalBet, h) = Total(f)
    BY <2>2 DEF UpTo
  <2> HIDE DEF f
  <2> DEFINE more == mine - h
  <2>5. more \in Nat  BY <1>4
  <2>6. totalBet = [f EXCEPT ![s] = @ + more]  BY <2>3
  <2> HIDE DEF more
  <2>7. Total([f EXCEPT ![s] = @ + more]) = Total(f) + more
    BY <2>1, <2>5, TotalOfMore
  <2>8. UpTo(totalBet, mine) = UpTo(totalBet, h) + more  BY <2>4, <2>6, <2>7
  <2> QED  BY <2>4, <2>8 DEF more
<1>6. /\ U[mine] = UpTo(totalBet, mine) /\ U[h] = UpTo(totalBet, h)
      /\ U[mine] \in Nat /\ U[h] \in Nat
  BY <1>1, <1>4 DEF Ladder
<1>7. ASSUME NEW level \in Nat, level <= h  PROVE U[level] <= U[h] /\ U[level] \in Nat
  <2>1. UpTo(totalBet, level) <= UpTo(totalBet, h)  BY <1>7, UpToIs
  <2> QED  BY <1>1, <2>1 DEF Ladder
<1> DEFINE all == of[1] + of[2] + of[3] + of[4] + of[5] + of[6] + of[7]
<1>8. all \in Nat /\ \A k \in 1..7 : all >= of[k]
  <2>1. [k \in 0..6 |-> 0] \in [0..6 -> Nat]  OBVIOUS
  <2> QED  BY <2>1, AddedUp
<1>9. Winnings(totalBet, allIn, live, rank, dealer)[s] = all  BY <1>2 DEF Takes
<1> HIDE DEF all
<1>10. CASE s \in allIn
  <2>1. mine <= l[6] /\ l[0] = 0  BY <1>1, <1>10 DEF Ladder
  <2>2. PICK k \in 1..6 : l[k - 1] <= h /\ h < l[k]
    <3>1. l[0] <= h /\ h < l[6]  BY <1>4, <2>1
    <3>2. /\ l[1] \in Nat /\ l[2] \in Nat /\ l[3] \in Nat
          /\ l[4] \in Nat /\ l[5] \in Nat /\ l[6] \in Nat
      BY <1>4
    <3> SUFFICES ASSUME \A k \in 1..6 : l[k - 1] <= h => ~(h < l[k])
                 PROVE  FALSE
      OBVIOUS
    <3>3. l[1] <= h  BY <3>1, <3>2
    <3>4. l[2] <= h  BY <3>2, <3>3
    <3>5. l[3] <= h  BY <3>2, <3>4
    <3>6. l[4] <= h  BY <3>2, <3>5
    <3>7. l[5] <= h  BY <3>2, <3>6
    <3> QED  BY <3>1, <3>2, <3>7
  <2>3. l[k] \in Nat /\ l[k - 1] \in Nat /\ k \in 1..7  BY <1>4
  <2>4. PICK u \in allIn : totalBet[u] = l[k]
    <3>1. l[k - 1] < l[k]  BY <2>2, <2>3
    <3> QED  BY <1>1, <3>1 DEF Ladder
  <2>5. l[k] = mine
    <3>1. u = s
      <4> SUFFICES ASSUME u # s PROVE FALSE  OBVIOUS
      <4>1. totalBet[u] <= h  OBVIOUS
      <4> QED  BY <2>2, <2>3, <2>4, <4>1
    <3> QED  BY <2>4, <3>1
  <2>6. p[k].eligible = {s}
    <3>1. \A v \in live : totalBet[v] >= mine <=> v = s
      <4> TAKE v \in live
      <4>1. totalBet[v] \in Nat /\ (v # s => totalBet[v] <= h)  OBVIOUS
      <4> QED  BY <1>4, <4>1
    <3>2. p[k].eligible = {v \in live : totalBet[v] >= mine}
      BY <1>1, <2>5 DEF Ladder
    <3> HIDE DEF mine
    <3> QED  BY <3>1, <3>2
  <2>7. of[k] = p[k].amount  BY <1>3, <2>3, <2>6
  <2>8. p[k].amount >= U[mine] - U[l[k - 1]]  BY <1>1, <2>5 DEF Ladder
  <2>9. U[l[k - 1]] <= U[h] /\ U[l[k - 1]] \in Nat  BY <1>7, <2>2, <2>3
  <2>10. of[k] \in Nat /\ all >= of[k]  BY <1>8, <2>3
  <2> HIDE DEF mine
  <2>11. of[k] >= mine - h  BY <1>4, <1>5, <1>6, <2>7, <2>8, <2>9, <2>10
  <2> QED  BY <1>4, <1>8, <1>9, <2>10, <2>11 DEF mine
<1>11. CASE s \notin allIn
  <2>1. l[6] <= h
    <3>1. \A u \in allIn : totalBet[u] <= h  BY <1>11
    <3>2. ASSUME NEW k \in 1..6, l[k - 1] <= h  PROVE l[k] <= h
      <4>1. l[k - 1] \in Nat /\ l[k] \in Nat  BY <1>4
      <4>2. l[k - 1] <= l[k]  BY <1>1 DEF Ladder
      <4>3. l[k - 1] < l[k] => \E u \in allIn : totalBet[u] = l[k]  BY <1>1 DEF Ladder
      <4> QED  BY <3>1, <3>2, <4>1, <4>2, <4>3
    <3>3. l[0] <= h  BY <1>1 DEF Ladder
    <3>4. l[1] <= h  BY <3>2, <3>3
    <3>5. l[2] <= h  BY <3>2, <3>4
    <3>6. l[3] <= h  BY <3>2, <3>5
    <3>7. l[4] <= h  BY <3>2, <3>6
    <3>8. l[5] <= h  BY <3>2, <3>7
    <3> QED  BY <3>2, <3>8
  <2>2. PICK t \in live : t # s /\ t \in allIn  OBVIOUS
  <2>3. p[7].eligible = {s}
    <3>1. \A u \in live \ {s} : ~(totalBet[u] > l[6])
      <4> TAKE u \in live \ {s}
      <4>1. totalBet[u] <= l[6]  BY <1>1 DEF Ladder
      <4>2. totalBet[u] \in Nat /\ l[6] \in Nat  BY <1>4
      <4> QED  BY <4>1, <4>2
    <3>2. totalBet[s] > l[6] /\ allIn # {}  BY <1>4, <2>1, <2>2
    <3>3. p[7].eligible = {u \in live : allIn = {} \/ totalBet[u] > l[6]}
      BY <1>1 DEF Ladder, RestEligible
    <3> QED  BY <3>1, <3>2, <3>3
  <2>4. p[7].amount = Total(totalBet) - U[l[6]]  BY <1>1, <2>3 DEF Ladder
  <2>5. of[7] = p[7].amount /\ of[7] \in Nat /\ all >= of[7]  BY <1>3, <1>8, <2>3
  <2>6. U[l[6]] <= U[h] /\ U[l[6]] \in Nat  BY <1>4, <1>7, <2>1
  <2> HIDE DEF mine
  <2>7. of[7] >= mine - h
    <3>1. of[7] = Total(totalBet) - U[l[6]]  BY <2>4, <2>5
    <3>2. Total(totalBet) = U[h] + (mine - h)  BY <1>5, <1>6
    <3> QED  BY <1>4, <1>6, <2>6, <3>1, <3>2
  <2> QED  BY <1>4, <1>8, <1>9, <2>5, <2>7 DEF mine
<1> QED  BY <1>10, <1>11

\* Of two live seats with the same stake and equal hands the one nearer to the
\* dealer's left wins at least as much: they split the same pots, and the odd chips
\* go to the nearest of the winners.
THEOREM NearerWinsMore ==
  ASSUME NEW totalBet \in [Seats -> Nat], NEW allIn \in SUBSET Seats,
         NEW live \in SUBSET Seats, NEW rank \in [Seats -> Nat], NEW dealer \in Seats,
         NEW s \in live, NEW t \in live, rank[s] = rank[t], totalBet[s] = totalBet[t],
         StepsClockwise(dealer, s) < StepsClockwise(dealer, t)
  PROVE  Winnings(totalBet, allIn, live, rank, dealer)[s]
           >= Winnings(totalBet, allIn, live, rank, dealer)[t]
<1> DEFINE p == Pots(totalBet, allIn, live)
<1>1. PICK l \in [0..6 -> Nat], U \in [Nat -> Nat] :
         Ladder(l, U, p, totalBet, allIn, live)
  BY LadderOfPots
<1>2. s \in Seats /\ t \in Seats  OBVIOUS
<1>3. \A k \in 1..7 : p[k].amount \in Nat /\ p[k].eligible \in SUBSET Seats
  BY PotsType
<1> HIDE DEF p
<1>4. PICK of \in [1..7 -> Nat] :
         Takes(of, Winnings(totalBet, allIn, live, rank, dealer)[s], p, rank, dealer, s)
  BY <1>2, WinningsAre DEF p
<1>5. PICK other \in [1..7 -> Nat] :
         Takes(other, Winnings(totalBet, allIn, live, rank, dealer)[t], p, rank, dealer, t)
  BY <1>2, WinningsAre DEF p
<1>6. \A k \in 1..7 : s \in p[k].eligible <=> t \in p[k].eligible
  <2>1. s \in p[7].eligible <=> t \in p[7].eligible  BY <1>1 DEF Ladder, RestEligible
  <2>2. \A k \in 1..6 : p[k].eligible = {u \in live : totalBet[u] >= l[k]}
    BY <1>1 DEF Ladder
  <2>3. \A k \in 1..6 : s \in p[k].eligible <=> t \in p[k].eligible  BY <2>2
  <2>4. \A k \in 1..7 : k \in 1..6 \/ k = 7  OBVIOUS
  <2> QED  BY <2>1, <2>3, <2>4
<1>7. ASSUME NEW k \in 1..7  PROVE of[k] >= other[k]
  <2> DEFINE W == Best(p[k].eligible, rank)
             q == p[k].amount \div Count(W)
             r == p[k].amount % Count(W)
  <2>1. W \in SUBSET Seats /\ (s \in W <=> t \in W)
    <3>1. p[k].eligible \in SUBSET Seats /\ (s \in p[k].eligible <=> t \in p[k].eligible)
      BY <1>3, <1>6
    <3> QED  BY <3>1 DEF Best
  <2>2. of[k] = Share(p[k], rank, dealer, s) /\ other[k] = Share(p[k], rank, dealer, t)
    BY <1>4, <1>5 DEF Takes
  <2>3. of[k] \in Nat /\ other[k] \in Nat  OBVIOUS
  <2>4. CASE p[k].amount = 0 \/ t \notin W
    <3>1. other[k] = 0  BY <2>2, <2>4 DEF Share
    <3> QED  BY <2>3, <3>1
  <2>5. CASE p[k].amount # 0 /\ t \in W
    <3>1. Count(W) \in 1..6
      <4> HIDE DEF W
      <4> QED  BY <2>1, <2>5, CountType
    <3>2. q \in Nat /\ r \in Nat
      <4>1. p[k].amount \in Nat  BY <1>3
      <4> HIDE DEF W
      <4> QED  BY <3>1, <4>1, DivideByWinners
    <3>3. t # OddChipSeat(dealer, W)
      <4> HIDE DEF W
      <4>1. StepsClockwise(dealer, OddChipSeat(dealer, W)) <= StepsClockwise(dealer, s)
        BY <2>1, <2>5, FirstClockwiseIn DEF OddChipSeat
      <4>2. StepsClockwise(dealer, s) \in 0..5 /\ StepsClockwise(dealer, t) \in 0..5
        BY StepsType
      <4> QED  BY <4>1, <4>2
    <3>4. other[k] = q + 0  BY <2>2, <2>5, <3>3 DEF Share
    <3>5. of[k] = q + (IF s = OddChipSeat(dealer, W) THEN r ELSE 0)
      BY <2>1, <2>2, <2>5 DEF Share
    <3> HIDE DEF q, r
    <3> QED  BY <3>2, <3>4, <3>5
  <2> QED  BY <2>4, <2>5
<1>8. /\ of[1] >= other[1] /\ of[2] >= other[2] /\ of[3] >= other[3] /\ of[4] >= other[4]
      /\ of[5] >= other[5] /\ of[6] >= other[6] /\ of[7] >= other[7]
  BY <1>7
<1>9. /\ of[1] \in Nat /\ of[2] \in Nat /\ of[3] \in Nat /\ of[4] \in Nat
      /\ of[5] \in Nat /\ of[6] \in Nat /\ of[7] \in Nat
      /\ other[1] \in Nat /\ other[2] \in Nat /\ other[3] \in Nat /\ other[4] \in Nat
      /\ other[5] \in Nat /\ other[6] \in Nat /\ other[7] \in Nat
  OBVIOUS
<1> QED  BY <1>4, <1>5, <1>8, <1>9 DEF Takes

-----------------------------------------------------------------------------
(***************************************************************************)
(* The best five of seven cards are what the rules of poker make of the     *)
(* seven.  First what lists of ranks are, what five cards can be, and what  *)
(* the rules see in seven.  Then, for any seven cards X:                    *)
(*   - no five of them beat ByTheRules(X) (NoneBeatsRules): the kind of     *)
(*     five is never above RulesKind(X), and of equal kind the ranks that   *)
(*     break ties are never higher at the first place where they differ;    *)
(*   - some five of them reach it (RulesReached);                           *)
(*   - so BestHand, which takes any hand that none beats, takes that one:   *)
(*     two such hands are of one kind, so of one length, so the same.       *)
(* DealInv, the inductive invariant of the deal, gives the seven cards.     *)
(***************************************************************************)
Cards == [rank : 2..14, suit : 1..4]

\* f lists the members of S, those with the higher keys first.
Lists(f, S, key) ==
  /\ f \in [1..Cardinality(S) -> S]
  /\ \A i, j \in 1..Cardinality(S) : i < j => key[f[i]] > key[f[j]]
  /\ \A v \in S : \E i \in 1..Cardinality(S) : f[i] = v

\* No two arguments have the same key.
Separates(key, S) == key \in [S -> Nat] /\ \A v, w \in S : key[v] = key[w] => v = w

\* Any finite set can be listed by a key.
LEMMA ListExists ==
  ASSUME NEW S, IsFiniteSet(S), NEW key, Separates(key, S)
  PROVE  \E f : Lists(f, S, key)
<1> DEFINE P == {n \in Nat : \A T \in SUBSET S : Cardinality(T) = n =>
                               \E f : Lists(f, T, key)}
<1>1. \A T \in SUBSET S : IsFiniteSet(T) /\ Cardinality(T) \in Nat
  BY FS_Subset, FS_CardinalityType
<1>2. 0 \in P
  <2> SUFFICES ASSUME NEW T \in SUBSET S, Cardinality(T) = 0 PROVE \E f : Lists(f, T, key)
    OBVIOUS
  <2>1. T = {}  BY <1>1, FS_EmptySet
  <2>2. Lists([i \in 1..0 |-> i], T, key)  BY <2>1 DEF Lists
  <2> QED  BY <2>2
<1>3. ASSUME NEW n \in Nat, n \in P PROVE n + 1 \in P
  <2> SUFFICES ASSUME NEW T \in SUBSET S, Cardinality(T) = n + 1
               PROVE  \E f : Lists(f, T, key)
    OBVIOUS
  <2>1. T # {}  BY <1>1, FS_EmptySet
  <2> DEFINE K == {key[v] : v \in T}
  <2>2. K \in SUBSET Nat /\ K # {}  BY <2>1 DEF Separates
  <2>3. PICK least \in K : \A k \in K : least <= k  BY <2>2, LeastNat
  <2>4. PICK v \in T : key[v] = least  BY <2>3
  <2>5. \A w \in T \ {v} : key[w] > key[v]
    <3> SUFFICES ASSUME NEW w \in T \ {v} PROVE key[w] > key[v]  OBVIOUS
    <3>1. key[w] \in Nat /\ key[v] \in Nat /\ key[w] # key[v]  BY DEF Separates
    <3>2. key[w] \in K  OBVIOUS
    <3>3. least <= key[w]  BY <2>3, <3>2
    <3> QED  BY <2>4, <3>1, <3>3
  <2>6. Cardinality(T \ {v}) = n  BY <1>1, FS_RemoveElement
  <2>7. PICK f : Lists(f, T \ {v}, key)  BY <1>3, <2>6
  <2> DEFINE g == [i \in 1..(n + 1) |-> IF i = n + 1 THEN v ELSE f[i]]
  <2>7a. /\ f \in [1..n -> T \ {v}]
         /\ \A i, j \in 1..n : i < j => key[f[i]] > key[f[j]]
         /\ \A w \in T \ {v} : \E i \in 1..n : f[i] = w
    BY <2>6, <2>7 DEF Lists
  <2>8. \A i \in 1..(n + 1) : \/ i = n + 1 /\ g[i] = v
                              \/ i \in 1..n /\ g[i] = f[i] /\ f[i] \in T \ {v}
    BY <2>7a
  <2>9. g \in [1..(n + 1) -> T]  BY <2>7a
  <2>10. \A w \in T : \E i \in 1..(n + 1) : g[i] = w
    <3> SUFFICES ASSUME NEW w \in T PROVE \E i \in 1..(n + 1) : g[i] = w  OBVIOUS
    <3>1. CASE w = v  BY <3>1, <2>8
    <3>2. CASE w # v
      <4>1. PICK i \in 1..n : f[i] = w  BY <2>7a, <3>2
      <4>2. i \in 1..(n + 1) /\ i # n + 1  OBVIOUS
      <4> QED  BY <4>1, <4>2, <2>8
    <3> QED  BY <3>1, <3>2
  <2> HIDE DEF g
  <2>11. ASSUME NEW i \in 1..(n + 1), NEW j \in 1..(n + 1), i < j
         PROVE  key[g[i]] > key[g[j]]
    <3>1. i \in 1..n /\ g[i] = f[i] /\ f[i] \in T \ {v}  BY <2>8, <2>11
    <3>2. CASE j = n + 1  BY <3>1, <3>2, <2>5, <2>8
    <3>3. CASE j \in 1..n  BY <3>1, <3>3, <2>7a, <2>8, <2>11
    <3> QED  BY <3>2, <3>3
  <2> QED  BY <2>9, <2>10, <2>11 DEF Lists
<1> HIDE DEF P
<1>4. Cardinality(S) \in P  BY <1>1, <1>2, <1>3, NumberInduction
<1> QED  BY <1>4 DEF P

\* Descending is that list.
LEMMA DescendingLists ==
  ASSUME NEW S, IsFiniteSet(S), NEW key, Separates(key, S)
  PROVE  Lists(Descending(key), S, key)
<1> DEFINE n == Cardinality(S)
           Above(v) == {w \in S : key[w] > key[v]}
<1>1. PICK f : Lists(f, S, key)  BY ListExists
<1>2. n \in Nat /\ DOMAIN key = S  BY FS_CardinalityType DEF Separates
<1>3. /\ f \in [1..n -> S]
      /\ \A i, j \in 1..n : i < j => key[f[i]] > key[f[j]]
      /\ \A v \in S : \E i \in 1..n : f[i] = v
  BY <1>1 DEF Lists
<1> HIDE DEF n
<1>4. ASSUME NEW i \in 1..n PROVE Cardinality(Above(f[i])) = i - 1
  <2> DEFINE T == Above(f[i])
             h == [j \in 1..(i - 1) |-> f[j]]
  <2>0. \A v \in S : key[v] \in Nat  BY DEF Separates
  <2>1. \A j \in 1..(i - 1) : j \in 1..n /\ j < i  BY <1>2
  <2>2. h \in [1..(i - 1) -> T]
    <3>1. \A j \in 1..(i - 1) : f[j] \in S /\ key[f[j]] > key[f[i]]
      BY <2>1, <1>3, <1>4
    <3> QED  BY <3>1
  <2>3. \A v \in T : \E j \in 1..(i - 1) : h[j] = v
    <3> SUFFICES ASSUME NEW v \in T PROVE \E j \in 1..(i - 1) : h[j] = v  OBVIOUS
    <3>1. PICK j \in 1..n : f[j] = v  BY <1>3
    <3>2. key[f[j]] > key[f[i]]  BY <3>1
    <3>3. key[f[j]] \in Nat /\ key[f[i]] \in Nat  BY <2>0, <1>3
    <3>4. j < i
      <4>1. CASE j = i  BY <3>2, <3>3, <4>1
      <4>2. CASE i < j  BY <3>2, <3>3, <4>2, <1>3
      <4> QED  BY <4>1, <4>2, <1>2
    <3>5. j \in 1..(i - 1)  BY <3>4, <1>2
    <3> QED  BY <3>1, <3>5
  <2>4. \A j, k \in 1..(i - 1) : h[j] = h[k] => j = k
    <3> SUFFICES ASSUME NEW j \in 1..(i - 1), NEW k \in 1..(i - 1), f[j] = f[k], j < k
                 PROVE  FALSE
      BY <2>1, <1>2
    <3>1. key[f[j]] > key[f[k]] /\ key[f[j]] \in Nat  BY <2>0, <2>1, <1>3
    <3> QED  BY <3>1
  <2> HIDE DEF h, T
  <2>5. ExistsBijection(1..(i - 1), T)
    <3>1. h \in Bijection(1..(i - 1), T)
      BY <2>2, <2>3, <2>4 DEF Bijection, Injection, Surjection, IsInjective
    <3> QED  BY <3>1 DEF ExistsBijection
  <2>6. IsFiniteSet(1..(i - 1)) /\ Cardinality(1..(i - 1)) = i - 1
    <3>1. 1 \in Int /\ i - 1 \in Int /\ i >= 1  BY <1>2
    <3>2. Cardinality(1..(i - 1)) = IF 1 > i - 1 THEN 0 ELSE (i - 1) - 1 + 1
      BY <3>1, FS_Interval
    <3>3. IsFiniteSet(1..(i - 1))  BY <3>1, FS_Interval
    <3> QED  BY <3>1, <3>2, <3>3
  <2>7. Cardinality(T) = i - 1  BY <2>5, <2>6, FS_Bijection
  <2> QED  BY <2>7 DEF T
<1>5. ASSUME NEW i \in 1..n
      PROVE  (CHOOSE v \in S : Cardinality(Above(v)) = i - 1) = f[i]
  <2> DEFINE c == CHOOSE v \in S : Cardinality(Above(v)) = i - 1
  <2>1. f[i] \in S /\ Cardinality(Above(f[i])) = i - 1  BY <1>3, <1>4
  <2>2. c \in S /\ Cardinality(Above(c)) = i - 1  BY <2>1
  <2>3. PICK k \in 1..n : f[k] = c  BY <2>2, <1>3
  <2>4. k - 1 = i - 1  BY <2>2, <2>3, <1>4
  <2> QED  BY <2>3, <2>4, <1>2
<1>6. Descending(key) = [i \in 1..n |-> f[i]]
  BY <1>2, <1>5 DEF Descending, n
<1>7. Descending(key) = f  BY <1>3, <1>6
<1> QED  BY <1>1, <1>7

\* Two lists of one set by one key are the same.
LEMMA ListUnique ==
  ASSUME NEW S, IsFiniteSet(S), NEW key, Separates(key, S),
         NEW f, NEW g, Lists(f, S, key), Lists(g, S, key)
  PROVE  f = g
<1> DEFINE n == Cardinality(S)
           T == {i \in 1..n : f[i] # g[i]}
<1>1. n \in Nat  BY FS_CardinalityType
<1>2. /\ f \in [1..n -> S]
      /\ \A i, j \in 1..n : i < j => key[f[i]] > key[f[j]]
      /\ \A v \in S : \E i \in 1..n : f[i] = v
      /\ g \in [1..n -> S]
      /\ \A i, j \in 1..n : i < j => key[g[i]] > key[g[j]]
      /\ \A v \in S : \E i \in 1..n : g[i] = v
  BY DEF Lists
<1>3. \A v \in S : key[v] \in Nat  BY DEF Separates
<1> HIDE DEF n
<1>4. SUFFICES ASSUME T # {} PROVE FALSE
  <2>1. \A i \in 1..n : f[i] = g[i]  BY <1>4
  <2>2. f = [i \in 1..n |-> f[i]] /\ g = [i \in 1..n |-> g[i]]  BY <1>2
  <2> QED  BY <2>1, <2>2
<1>5. T \in SUBSET Nat  BY <1>1
<1>6. PICK i \in T : \A j \in T : i <= j  BY <1>4, <1>5, LeastNat
<1>7. PICK j \in 1..n : f[j] = g[i]  BY <1>2
<1>8. PICK k \in 1..n : g[k] = f[i]  BY <1>2
<1>9. i \in 1..n /\ f[i] # g[i] /\ \A m \in 1..n : m < i => f[m] = g[m]
  BY <1>1, <1>6
<1>10. /\ key[f[i]] \in Nat /\ key[g[i]] \in Nat /\ key[f[j]] = key[g[i]]
       /\ key[g[k]] = key[f[i]]
  BY <1>2, <1>3, <1>7, <1>8, <1>9
<1>11. j > i
  <2>1. CASE j = i  BY <1>7, <1>9, <2>1
  <2>2. CASE j < i
    <3>1. g[j] = g[i] /\ key[g[j]] > key[g[i]]  BY <1>2, <1>7, <1>9, <2>2
    <3> QED  BY <3>1, <1>10
  <2> QED  BY <2>1, <2>2, <1>1, <1>9
<1>12. k > i
  <2>1. CASE k = i  BY <1>8, <1>9, <2>1
  <2>2. CASE k < i
    <3>1. f[k] = f[i] /\ key[f[k]] > key[f[i]]  BY <1>2, <1>8, <1>9, <2>2
    <3> QED  BY <3>1, <1>10
  <2> QED  BY <2>1, <2>2, <1>1, <1>9
<1>13. key[f[i]] > key[f[j]] /\ key[g[i]] > key[g[k]]
  BY <1>2, <1>9, <1>11, <1>12
<1> QED  BY <1>10, <1>13

-----------------------------------------------------------------------------
(***************************************************************************)
(* Counting cards.                                                          *)
(***************************************************************************)
OfRank(X, v) == {c \in X : c.rank = v}
Without(X, W) == {c \in X : c.rank \notin W}

\* The numbers from one to another are finitely many.
LEMMA Intervals ==
  \A a, b \in Int : /\ IsFiniteSet(a..b)
                    /\ a <= b => Cardinality(a..b) = b - a + 1
BY FS_Interval

\* Two cards of one rank and one suit are one card; a card has a rank and a suit.
LEMMA CardIs ==
  /\ \A c \in Cards : c.rank \in 2..14 /\ c.suit \in 1..4
  /\ \A c, d \in Cards : c.rank = d.rank /\ c.suit = d.suit => c = d
<1>1. ASSUME NEW c \in Cards PROVE c.rank \in 2..14 /\ c.suit \in 1..4
  BY DEF Cards
<1>2. ASSUME NEW c \in Cards, NEW d \in Cards, c.rank = d.rank, c.suit = d.suit
      PROVE  c = d
  <2>1. /\ c = [rank |-> c.rank, suit |-> c.suit]
        /\ d = [rank |-> d.rank, suit |-> d.suit]
    BY DEF Cards
  <2> QED  BY <1>2, <2>1
<1> QED  BY <1>1, <1>2

\* There are finitely many cards.
LEMMA CardsFinite == IsFiniteSet(Cards)
<1> DEFINE T == (2..14) \X (1..4)
           f == [c \in Cards |-> <<c.rank, c.suit>>]
<1>0. 1 \in Int /\ 2 \in Int /\ 4 \in Int /\ 14 \in Int  OBVIOUS
<1>1. IsFiniteSet(T)
  <2>1. IsFiniteSet(2..14) /\ IsFiniteSet(1..4)  BY <1>0, Intervals, Zenon
  <2> QED  BY <2>1, FS_Product
<1>2. f \in [Cards -> T]  BY CardIs
<1>3. \A c, d \in Cards : f[c] = f[d] => c = d  BY CardIs
<1>4. f \in Injection(Cards, T)
  <2> HIDE DEF f, T
  <2> QED  BY <1>2, <1>3 DEF Injection, IsInjective
<1> HIDE DEF f, T
<1> QED  BY <1>1, <1>4, FS_Injection

\* Sets of cards are finite, and at most four cards have one rank.
LEMMA SomeCards ==
  ASSUME NEW X \in SUBSET Cards
  PROVE  /\ IsFiniteSet(X) /\ Cardinality(X) \in Nat
         /\ Values(X) \in SUBSET (2..14) /\ IsFiniteSet(Values(X))
         /\ Cardinality(Values(X)) \in Nat
         /\ \A v : IsFiniteSet(OfRank(X, v)) /\ Held(X, v) = Cardinality(OfRank(X, v))
         /\ \A v : Held(X, v) \in 0..4 /\ (Held(X, v) > 0 <=> v \in Values(X))
<1>1. \A Y \in SUBSET Cards : IsFiniteSet(Y) /\ Cardinality(Y) \in Nat
  BY CardsFinite, FS_Subset, FS_CardinalityType
<1>2. Values(X) \in SUBSET (2..14)  BY CardIs DEF Values
<1>0. 1 \in Int /\ 2 \in Int /\ 4 \in Int /\ 14 \in Int  OBVIOUS
<1>3. IsFiniteSet(2..14)  BY <1>0, Intervals, Zenon
<1>4. IsFiniteSet(Values(X)) /\ Cardinality(Values(X)) \in Nat
  BY <1>2, <1>3, FS_Subset, FS_CardinalityType
<1>5. \A v : OfRank(X, v) \in SUBSET Cards /\ Held(X, v) = Cardinality(OfRank(X, v))
  BY DEF OfRank, Held
<1>6. ASSUME NEW v PROVE Held(X, v) \in 0..4 /\ (Held(X, v) > 0 <=> v \in Values(X))
  <2> DEFINE Y == OfRank(X, v)
             f == [c \in Y |-> c.suit]
  <2>1. f \in [Y -> 1..4]  BY CardIs, <1>5
  <2>2. \A c, d \in Y : f[c] = f[d] => c = d  BY CardIs, <1>5 DEF OfRank
  <2>3. f \in Injection(Y, 1..4)
    <3> HIDE DEF f, Y
    <3> QED  BY <2>1, <2>2 DEF Injection, IsInjective
  <2>4. IsFiniteSet(1..4) /\ Cardinality(1..4) = 4
    <3>1. IsFiniteSet(1..4)  BY <1>0, Intervals, Zenon
    <3>2. 1 <= 4 => Cardinality(1..4) = 4 - 1 + 1  BY <1>0, Intervals, Zenon
    <3> QED  BY <3>1, <3>2
  <2>5. Cardinality(Y) <= 4
    <3> HIDE DEF f, Y
    <3> QED  BY <2>3, <2>4, FS_Injection
  <2>6. Cardinality(Y) \in Nat /\ (Cardinality(Y) = 0 <=> Y = {})
    BY <1>1, <1>5, FS_EmptySet
  <2>7. Y # {} <=> v \in Values(X)  BY DEF OfRank, Values
  <2> HIDE DEF Y
  <2> QED  BY <1>5, <2>5, <2>6, <2>7 DEF Y
<1> QED  BY <1>1, <1>2, <1>4, <1>5, <1>6

\* Fewer cards hold no rank more often.
LEMMA FewerCards ==
  ASSUME NEW X \in SUBSET Cards, NEW Y \in SUBSET X
  PROVE  /\ Values(Y) \subseteq Values(X)
         /\ \A v : Held(Y, v) <= Held(X, v)
         /\ Cardinality(Y) <= Cardinality(X)
         /\ Y \in SUBSET Cards
<1>1. \A v : OfRank(Y, v) \subseteq OfRank(X, v)  BY DEF OfRank
<1>2. \A v : Cardinality(OfRank(Y, v)) <= Cardinality(OfRank(X, v))
  BY <1>1, SomeCards, FS_Subset
<1>3. Cardinality(Y) <= Cardinality(X)  BY SomeCards, FS_Subset
<1>4. Values(Y) \subseteq Values(X)  BY DEF Values
<1>5. \A v : /\ Held(Y, v) = Cardinality(OfRank(Y, v))
             /\ Held(X, v) = Cardinality(OfRank(X, v))
  <2>1. Y \in SUBSET Cards  OBVIOUS
  <2> QED  BY <2>1, SomeCards
<1> QED  BY <1>2, <1>3, <1>4, <1>5

\* The cards of other ranks than some are those of one more rank and the rest.
LEMMA TakeRank ==
  ASSUME NEW X \in SUBSET Cards, NEW W, NEW v, v \notin W
  PROVE  Cardinality(Without(X, W)) = Held(X, v) + Cardinality(Without(X, W \cup {v}))
<1> DEFINE A == OfRank(X, v)
           B == Without(X, W \cup {v})
<1>1. A \cup B = Without(X, W) /\ A \cap B = {}  BY DEF OfRank, Without
<1>2. A \in SUBSET Cards /\ B \in SUBSET Cards  BY DEF OfRank, Without
<1>3. /\ IsFiniteSet(A) /\ IsFiniteSet(B)
      /\ Cardinality(A) \in Nat /\ Cardinality(B) \in Nat
  BY <1>2, SomeCards
<1>4. Cardinality(A) = Held(X, v)  BY SomeCards
<1> HIDE DEF A, B
<1>5. Cardinality(A \cup B) = Cardinality(A) + Cardinality(B) - Cardinality(A \cap B)
  BY <1>3, FS_Union
<1>6. Cardinality({}) = 0  BY FS_EmptySet
<1>7. Cardinality(Without(X, W))
        = Held(X, v) + Cardinality(B)
  BY <1>1, <1>3, <1>4, <1>5, <1>6
<1> QED  BY <1>7 DEF B

\* All cards are those of no rank besides none; none are left beside all ranks.
LEMMA TakeAll ==
  ASSUME NEW X \in SUBSET Cards, NEW W
  PROVE  /\ Without(X, {}) = X
         /\ Cardinality(Without(X, W)) \in Nat
         /\ Values(X) \subseteq W <=> Cardinality(Without(X, W)) = 0
<1>1. Without(X, {}) = X  BY DEF Without
<1>2. Without(X, W) \in SUBSET Cards  BY DEF Without
<1>3. IsFiniteSet(Without(X, W)) /\ Cardinality(Without(X, W)) \in Nat
  BY <1>2, SomeCards
<1>4. Without(X, W) = {} <=> Values(X) \subseteq W  BY DEF Without, Values
<1> QED  BY <1>1, <1>3, <1>4, FS_EmptySet

\* Cards of different ranks: as many ranks as cards, each held once.
LEMMA RanksApart ==
  ASSUME NEW X \in SUBSET Cards
  PROVE  /\ Cardinality(Values(X)) <= Cardinality(X)
         /\ (\A c, d \in X : c.rank = d.rank => c = d)
              <=> Cardinality(Values(X)) = Cardinality(X)
         /\ (\A c, d \in X : c.rank = d.rank => c = d)
              <=> \A v \in Values(X) : Held(X, v) = 1
<1> DEFINE f == [c \in X |-> c.rank]
           Apart == \A c, d \in X : c.rank = d.rank => c = d
<1>1. f \in Surjection(X, Values(X))
  <2>1. f \in [X -> Values(X)]  BY DEF Values
  <2>2. \A v \in Values(X) : \E c \in X : f[c] = v  BY DEF Values
  <2> HIDE DEF f
  <2> QED  BY <2>1, <2>2 DEF Surjection
<1>2. Apart <=> f \in Injection(X, Values(X))
  BY <1>1 DEF Surjection, Injection, IsInjective
<1>3. /\ Cardinality(Values(X)) <= Cardinality(X)
      /\ Cardinality(Values(X)) = Cardinality(X) <=> f \in Injection(X, Values(X))
  <2> HIDE DEF f
  <2> QED  BY <1>1, SomeCards, FS_Surjection
<1>4. ASSUME Apart, NEW v \in Values(X) PROVE Held(X, v) = 1
  <2>1. PICK c \in X : c.rank = v  BY DEF Values
  <2>2. OfRank(X, v) = {c}  BY <1>4, <2>1 DEF OfRank
  <2>3. Cardinality({c}) = 1  BY FS_Singleton
  <2> QED  BY <2>2, <2>3, SomeCards
<1>5. ASSUME \A v \in Values(X) : Held(X, v) = 1, NEW c \in X, NEW d \in X,
             c.rank = d.rank
      PROVE  c = d
  <2>1. c.rank \in Values(X)  BY DEF Values
  <2>2. Cardinality(OfRank(X, c.rank)) = 1 /\ IsFiniteSet(OfRank(X, c.rank))
    BY <1>5, <2>1, SomeCards
  <2>3. PICK x : OfRank(X, c.rank) = {x}  BY <2>2, FS_Singleton
  <2>4. c \in OfRank(X, c.rank) /\ d \in OfRank(X, c.rank)  BY <1>5 DEF OfRank
  <2> QED  BY <2>3, <2>4
<1> QED  BY <1>2, <1>3, <1>4, <1>5

\* Some of a set, as many as wanted.
LEMMA SubsetOfSize ==
  ASSUME NEW S, IsFiniteSet(S), NEW m \in Nat, m <= Cardinality(S)
  PROVE  \E T \in SUBSET S : Cardinality(T) = m
<1> DEFINE n == Cardinality(S)
           P == {k \in Nat : k <= n => \E T \in SUBSET S : Cardinality(T) = k}
<1>1. n \in Nat  BY FS_CardinalityType
<1>2. 0 \in P  BY FS_EmptySet
<1>3. ASSUME NEW k \in Nat, k \in P PROVE k + 1 \in P
  <2> SUFFICES ASSUME k + 1 <= n PROVE \E T \in SUBSET S : Cardinality(T) = k + 1
    OBVIOUS
  <2>0. k <= n  BY <1>1
  <2>1. PICK T \in SUBSET S : Cardinality(T) = k  BY <1>3, <2>0
  <2>2. S # T  BY <2>1, <1>1
  <2>3. PICK x \in S : x \notin T  BY <2>2
  <2>4. IsFiniteSet(T)  BY FS_Subset
  <2>5. Cardinality(T \cup {x}) = k + 1  BY <2>1, <2>3, <2>4, FS_AddElement
  <2> QED  BY <2>5
<1> HIDE DEF P
<1>4. m \in P  BY <1>2, <1>3, NumberInduction
<1> QED  BY <1>4 DEF P

-----------------------------------------------------------------------------
(***************************************************************************)
(* What evaluate5 sees in five cards.                                       *)
(***************************************************************************)
CountKey(X) == [v \in Values(X) |-> 15 * Held(X, v) + v]

\* The ranks by count: each rank once, those held oftener first.
LEMMA ByCountLists ==
  ASSUME NEW X \in SUBSET Cards
  PROVE  /\ Separates(CountKey(X), Values(X))
         /\ Lists(ByCount(X), Values(X), CountKey(X))
         /\ ByCount(X) \in Seq(Values(X)) /\ Len(ByCount(X)) = Cardinality(Values(X))
         /\ \A i, j \in 1..Cardinality(Values(X)) : i < j =>
              /\ Held(X, ByCount(X)[i]) >= Held(X, ByCount(X)[j])
              /\ Held(X, ByCount(X)[i]) = Held(X, ByCount(X)[j])
                   => ByCount(X)[i] > ByCount(X)[j]
              /\ ByCount(X)[i] # ByCount(X)[j]
<1> DEFINE V == Values(X)
           key == CountKey(X)
           c == ByCount(X)
           n == Cardinality(V)
<1>1. \A v \in V : v \in 2..14 /\ Held(X, v) \in 0..4  BY SomeCards
<1>2. \A v \in V : key[v] = 15 * Held(X, v) + v  BY DEF CountKey
<1>3. \A v \in V : key[v] \in Nat  BY <1>1, <1>2
<1>4. key \in [V -> Nat]  BY <1>3 DEF CountKey
<1>5. ASSUME NEW v \in V, NEW w \in V, key[v] > key[w] \/ key[v] = key[w]
      PROVE  /\ Held(X, v) >= Held(X, w)
             /\ Held(X, v) = Held(X, w) => v >= w
             /\ key[v] = key[w] => v = w
  <2> HIDE DEF key, V
  <2> QED  BY <1>1, <1>2, <1>5
<1>6. Separates(key, V)
  <2> HIDE DEF key
  <2> QED  BY <1>4, <1>5 DEF Separates
<1>7. c = Descending(key)  BY DEF ByCount, CountKey
<1>8. Lists(c, V, key)
  <2> HIDE DEF key, c, V
  <2> QED  BY <1>6, <1>7, SomeCards, DescendingLists DEF V
<1>9. /\ n \in Nat /\ c \in [1..n -> V]
      /\ \A i, j \in 1..n : i < j => key[c[i]] > key[c[j]]
  BY <1>8, SomeCards DEF Lists
<1>10. c \in Seq(V) /\ Len(c) = n
  <2> HIDE DEF key, c, V, n
  <2> QED  BY <1>9, SequenceIs
<1>11. ASSUME NEW i \in 1..n, NEW j \in 1..n, i < j
       PROVE  /\ Held(X, c[i]) >= Held(X, c[j])
              /\ Held(X, c[i]) = Held(X, c[j]) => c[i] > c[j]
              /\ c[i] # c[j]
  <2>1. c[i] \in V /\ c[j] \in V /\ key[c[i]] > key[c[j]]  BY <1>9, <1>11
  <2>2. key[c[i]] \in Nat /\ key[c[j]] \in Nat  BY <2>1, <1>3
  <2>3. c[i] # c[j]  BY <2>1, <2>2
  <2>4. /\ Held(X, c[i]) >= Held(X, c[j])
        /\ Held(X, c[i]) = Held(X, c[j]) => c[i] >= c[j]
    BY <2>1, <1>5
  <2>5. c[i] \in 2..14 /\ c[j] \in 2..14  BY <2>1, <1>1
  <2> QED  BY <2>3, <2>4, <2>5
<1> QED  BY <1>6, <1>8, <1>10, <1>11

\* The ways five cards fall into ranks.
FiveShape(X) ==
  LET h(i) == Held(X, ByCount(X)[i])
      n == Cardinality(Values(X))
  IN  \/ n = 2 /\ h(1) = 4 /\ h(2) = 1
      \/ n = 2 /\ h(1) = 3 /\ h(2) = 2
      \/ n = 3 /\ h(1) = 3 /\ h(2) = 1 /\ h(3) = 1
      \/ n = 3 /\ h(1) = 2 /\ h(2) = 2 /\ h(3) = 1
      \/ n = 4 /\ h(1) = 2 /\ h(2) = 1 /\ h(3) = 1 /\ h(4) = 1
      \/ n = 5 /\ h(1) = 1 /\ h(2) = 1 /\ h(3) = 1 /\ h(4) = 1 /\ h(5) = 1

\* Five cards fall into ranks in one of these ways.
LEMMA FiveCards ==
  ASSUME NEW X \in SUBSET Cards, Cardinality(X) = 5
  PROVE  FiveShape(X)
<1> DEFINE V == Values(X)
           c == ByCount(X)
           n == Cardinality(V)
           h(i) == Held(X, c[i])
           W(k) == {c[i] : i \in 1..k}
           r(k) == Cardinality(Without(X, W(k)))
<1>1. /\ n \in Nat /\ c \in [1..n -> V]
      /\ \A v \in V : \E i \in 1..n : c[i] = v
  BY ByCountLists, SomeCards DEF Lists
<1>2. \A i, j \in 1..n : i < j => h(i) >= h(j) /\ c[i] # c[j]  BY ByCountLists
<1>3. \A i \in 1..n : h(i) \in 1..4
  <2> SUFFICES ASSUME NEW i \in 1..n PROVE h(i) \in 1..4  OBVIOUS
  <2>1. c[i] \in V  BY <1>1
  <2>2. h(i) \in 0..4 /\ h(i) > 0  BY <2>1, SomeCards
  <2> QED  BY <2>2
<1>4. r(0) = 5
  <2>1. W(0) = {}  OBVIOUS
  <2> QED  BY <2>1, TakeAll
<1>5. ASSUME NEW k \in Nat, k + 1 <= n PROVE r(k) = h(k + 1) + r(k + 1)
  <2>1. W(k + 1) = W(k) \cup {c[k + 1]}
    <3>1. 1..(k + 1) = (1..k) \cup {k + 1}  OBVIOUS
    <3> QED  BY <3>1
  <2>2. c[k + 1] \notin W(k)
    <3> SUFFICES ASSUME NEW i \in 1..k, c[i] = c[k + 1] PROVE FALSE  OBVIOUS
    <3>1. i \in 1..n /\ k + 1 \in 1..n /\ i < k + 1  BY <1>1, <1>5
    <3> QED  BY <3>1, <1>2
  <2> HIDE DEF c, W
  <2>3. Cardinality(Without(X, W(k)))
          = Held(X, c[k + 1]) + Cardinality(Without(X, W(k) \cup {c[k + 1]}))
    BY <2>2, TakeRank
  <2> QED  BY <2>1, <2>3
<1>6. ASSUME NEW k \in Nat PROVE r(k) \in Nat /\ (n <= k => r(k) = 0)
  <2>1. ASSUME n <= k PROVE V \subseteq W(k)
    <3> SUFFICES ASSUME NEW v \in V PROVE v \in W(k)  OBVIOUS
    <3>1. PICK i \in 1..n : c[i] = v  BY <1>1
    <3>2. i \in 1..k  BY <1>1, <2>1
    <3> QED  BY <3>1, <3>2
  <2> HIDE DEF c, W, V
  <2> QED  BY <2>1, TakeAll DEF V
<1> HIDE DEF c, n, V, h, W, r
<1>7. /\ 0 \in Nat /\ 1 \in Nat /\ 2 \in Nat /\ 3 \in Nat /\ 4 \in Nat /\ 5 \in Nat
      /\ 6 \in Nat
  OBVIOUS
<1>8. /\ 1 <= n => r(0) = h(1) + r(1) /\ h(1) \in 1..4
      /\ 2 <= n => r(1) = h(2) + r(2) /\ h(2) \in 1..4 /\ h(1) >= h(2)
      /\ 3 <= n => r(2) = h(3) + r(3) /\ h(3) \in 1..4 /\ h(2) >= h(3)
      /\ 4 <= n => r(3) = h(4) + r(4) /\ h(4) \in 1..4 /\ h(3) >= h(4)
      /\ 5 <= n => r(4) = h(5) + r(5) /\ h(5) \in 1..4 /\ h(4) >= h(5)
      /\ 6 <= n => r(5) = h(6) + r(6) /\ h(6) \in 1..4 /\ h(5) >= h(6)
  <2>1. \A k \in Nat : k + 1 <= n => r(k) = h(k + 1) + r(k + 1)  BY <1>5
  <2>2. \A i \in Nat : 1 <= i /\ i <= n => i \in 1..n  BY <1>1
  <2>3. /\ 1 <= n => r(0) = h(0 + 1) + r(0 + 1)
        /\ 2 <= n => r(1) = h(1 + 1) + r(1 + 1)
        /\ 3 <= n => r(2) = h(2 + 1) + r(2 + 1)
        /\ 4 <= n => r(3) = h(3 + 1) + r(3 + 1)
        /\ 5 <= n => r(4) = h(4 + 1) + r(4 + 1)
        /\ 6 <= n => r(5) = h(5 + 1) + r(5 + 1)
    BY <2>1, <1>7, <1>1
  <2>4. /\ 1 <= n => h(1) \in 1..4
        /\ 2 <= n => h(2) \in 1..4 /\ h(1) >= h(2)
        /\ 3 <= n => h(3) \in 1..4 /\ h(2) >= h(3)
        /\ 4 <= n => h(4) \in 1..4 /\ h(3) >= h(4)
        /\ 5 <= n => h(5) \in 1..4 /\ h(4) >= h(5)
        /\ 6 <= n => h(6) \in 1..4 /\ h(5) >= h(6)
    BY <1>1, <1>2, <1>3
  <2> QED  BY <2>3, <2>4
<1>9. /\ r(0) \in Nat /\ r(1) \in Nat /\ r(2) \in Nat /\ r(3) \in Nat /\ r(4) \in Nat
      /\ r(5) \in Nat /\ r(6) \in Nat
      /\ n <= 0 => r(0) = 0
      /\ n <= 1 => r(1) = 0
      /\ n <= 2 => r(2) = 0
      /\ n <= 3 => r(3) = 0
      /\ n <= 4 => r(4) = 0
      /\ n <= 5 => r(5) = 0
  BY <1>6, <1>7
<1>10. \/ n = 2 /\ h(1) = 4 /\ h(2) = 1
       \/ n = 2 /\ h(1) = 3 /\ h(2) = 2
       \/ n = 3 /\ h(1) = 3 /\ h(2) = 1 /\ h(3) = 1
       \/ n = 3 /\ h(1) = 2 /\ h(2) = 2 /\ h(3) = 1
       \/ n = 4 /\ h(1) = 2 /\ h(2) = 1 /\ h(3) = 1 /\ h(4) = 1
       \/ n = 5 /\ h(1) = 1 /\ h(2) = 1 /\ h(3) = 1 /\ h(4) = 1 /\ h(5) = 1
  <2>0. ASSUME n >= 6 PROVE FALSE
    <3>1. /\ r(0) = h(1) + r(1) /\ r(1) = h(2) + r(2) /\ r(2) = h(3) + r(3)
          /\ r(3) = h(4) + r(4) /\ r(4) = h(5) + r(5) /\ r(5) = h(6) + r(6)
          /\ h(1) >= 1 /\ h(2) >= 1 /\ h(3) >= 1 /\ h(4) >= 1 /\ h(5) >= 1 /\ h(6) >= 1
          /\ h(1) \in Nat /\ h(2) \in Nat /\ h(3) \in Nat /\ h(4) \in Nat
          /\ h(5) \in Nat /\ h(6) \in Nat
      BY <1>1, <1>8, <2>0
    <3>2. r(5) = 5 - (h(1) + h(2) + h(3) + h(4) + h(5))  BY <3>1, <1>4, <1>9
    <3> QED  BY <3>1, <3>2, <1>9
  <2>1. n \in 1..5
    <3>1. n # 0  BY <1>4, <1>9
    <3> QED  BY <3>1, <2>0, <1>1
  <2>2. CASE n = 1  BY <2>2, <1>4, <1>8, <1>9
  <2>3. CASE n = 2  BY <2>3, <1>4, <1>8, <1>9
  <2>4. CASE n = 3  BY <2>4, <1>4, <1>8, <1>9
  <2>5. CASE n = 4  BY <2>5, <1>4, <1>8, <1>9
  <2>6. CASE n = 5  BY <2>6, <1>4, <1>8, <1>9
  <2> QED  BY <2>1, <2>2, <2>3, <2>4, <2>5, <2>6
<1> QED  BY <1>10 DEF FiveShape, h, n, c, V

\* A set of one has one listing.
LEMMA ListOfOne ==
  ASSUME NEW t
  PROVE  SetToSeq({t}) = <<t>>
<1> DEFINE T == {t}
<1>1. IsFiniteSet(T) /\ Cardinality(T) = 1  BY FS_Singleton
<1>2. \E f \in [1..1 -> T] : IsInjective(f)
  <2>1. [i \in 1..1 |-> t] \in [1..1 -> T] /\ IsInjective([i \in 1..1 |-> t])
    BY DEF IsInjective
  <2> QED  BY <2>1
<1>3. SetToSeq(T) \in [1..1 -> T]
  <2> HIDE DEF T
  <2> QED  BY <1>1, <1>2 DEF SetToSeq
<1>4. SetToSeq(T) = [i \in 1..1 |-> t]  BY <1>3
<1>5. [i \in 1..1 |-> t] = <<t>>  OBVIOUS
<1> QED  BY <1>4, <1>5

\* The wheel has five ranks, of which the highest is the ace and the lowest the two.
LEMMA WheelIs ==
  LET wheel == {14, 5, 4, 3, 2}
  IN  /\ IsFiniteSet(wheel) /\ Cardinality(wheel) = 5
      /\ Max(wheel) = 14 /\ Min(wheel) = 2
<1> DEFINE w1 == {2}
           w2 == w1 \cup {3}
           w3 == w2 \cup {4}
           w4 == w3 \cup {5}
           w5 == w4 \cup {14}
<1>1. IsFiniteSet(w1) /\ Cardinality(w1) = 1  BY FS_Singleton
<1>2. IsFiniteSet(w2) /\ Cardinality(w2) = 2
  <2>1. 3 \notin w1  OBVIOUS
  <2> HIDE DEF w1
  <2> QED  BY <1>1, <2>1, FS_AddElement
<1>3. IsFiniteSet(w3) /\ Cardinality(w3) = 3
  <2>1. 4 \notin w2  OBVIOUS
  <2> HIDE DEF w2
  <2> QED  BY <1>2, <2>1, FS_AddElement
<1>4. IsFiniteSet(w4) /\ Cardinality(w4) = 4
  <2>1. 5 \notin w3  OBVIOUS
  <2> HIDE DEF w3
  <2> QED  BY <1>3, <2>1, FS_AddElement
<1>5. IsFiniteSet(w5) /\ Cardinality(w5) = 5
  <2>1. 14 \notin w4  OBVIOUS
  <2> HIDE DEF w4
  <2> QED  BY <1>4, <2>1, FS_AddElement
<1>6. w5 = {14, 5, 4, 3, 2}  OBVIOUS
<1>7. w5 \in SUBSET Nat /\ w5 # {}  OBVIOUS
<1> HIDE DEF w5
<1>8. /\ Max(w5) \in w5 /\ \A m \in w5 : Max(w5) >= m
      /\ Min(w5) \in w5 /\ \A m \in w5 : Min(w5) <= m
  BY <1>5, <1>7, MaxIs, MinIs
<1>9. Max(w5) = 14 /\ Min(w5) = 2  BY <1>6, <1>8
<1> QED  BY <1>5, <1>6, <1>9

\* StraightHigh finds at most one straight, in five ranks, and one that is there.
LEMMA StraightIs ==
  ASSUME NEW V \in SUBSET (2..14), StraightHigh(V) # {}
  PROVE  /\ Cardinality(V) = 5
         /\ \E t : StraightHigh(V) = {t}
                   /\ \A R \in SUBSET (2..14) : V \subseteq R => t \in Straights(R)
<1> DEFINE wheel == {14, 5, 4, 3, 2}
<1>1. CASE Cardinality(V) = 5 /\ Max(V) - Min(V) = 4
  <2>0. 2 \in Int /\ 14 \in Int  OBVIOUS
  <2>1. IsFiniteSet(2..14)  BY <2>0, Intervals, Zenon
  <2>2. IsFiniteSet(V) /\ V \in SUBSET Nat /\ V # {}
    <3>1. IsFiniteSet(V)  BY <2>1, FS_Subset
    <3> QED  BY <3>1, <1>1, FS_EmptySet
  <2>3. /\ Max(V) \in V /\ \A m \in V : Max(V) >= m
        /\ Min(V) \in V /\ \A m \in V : Min(V) <= m
    BY <2>2, MaxIs, MinIs
  <2> DEFINE t == Max(V)
             I == (t - 4)..t
  <2>4. StraightHigh(V) = {t}  BY <1>1 DEF StraightHigh
  <2>4a. Max(V) \in 2..14 /\ Min(V) \in 2..14  BY <2>3
  <2>4b. Max(V) \in Int /\ Min(V) \in Int  BY <2>4a
  <2>4c. Min(V) = t - 4  BY <2>4b, <1>1
  <2>5. t \in 2..14 /\ t - 4 \in 2..14  BY <2>4a, <2>4c
  <2>6. V \subseteq I
    <3> SUFFICES ASSUME NEW v \in V PROVE v \in I  OBVIOUS
    <3>1. Max(V) >= v /\ Min(V) <= v /\ v \in 2..14  BY <2>3
    <3> HIDE DEF t
    <3>2. t >= v /\ t - 4 <= v  BY <3>1, <2>4c DEF t
    <3> QED  BY <3>1, <3>2, <2>5
  <2>7. IsFiniteSet(I) /\ Cardinality(I) = 5
    <3>1. t - 4 \in Int /\ t \in Int /\ t - 4 <= t /\ t - (t - 4) + 1 = 5  BY <2>5
    <3> HIDE DEF t
    <3> QED  BY <3>1, Intervals
  <2>8. V = I
    <3> HIDE DEF I
    <3> QED  BY <1>1, <2>6, <2>7, FS_Subset
  <2> HIDE DEF t
  <2>9. ASSUME NEW R \in SUBSET (2..14), V \subseteq R PROVE t \in Straights(R)
    <3>1. t \in 5..14  BY <2>5
    <3> QED  BY <3>1, <2>8, <2>9 DEF Straights
  <2> QED  BY <1>1, <2>4, <2>9
<1>2. CASE ~(Cardinality(V) = 5 /\ Max(V) - Min(V) = 4)
  <2>1. V = wheel /\ StraightHigh(V) = {5}  BY <1>2 DEF StraightHigh
  <2>2. Cardinality(V) = 5  BY <2>1, WheelIs
  <2>3. ASSUME NEW R \in SUBSET (2..14), V \subseteq R PROVE 5 \in Straights(R)
    <3>1. 14 \in R /\ {5, 4, 3, 2} \subseteq R  BY <2>1, <2>3
    <3>2. (5 - 4)..5 \subseteq R \cup {1}
      <4>1. \A m \in (5 - 4)..5 : m \in {1, 2, 3, 4, 5}  OBVIOUS
      <4> QED  BY <3>1, <4>1
    <3> QED  BY <3>1, <3>2 DEF Straights
  <2> QED  BY <2>1, <2>2, <2>3
<1> QED  BY <1>1, <1>2

\* A straight that is there is found in some five of the ranks.
LEMMA StraightOf ==
  ASSUME NEW R \in SUBSET (2..14), NEW t \in Straights(R)
  PROVE  \E W \in SUBSET R : Cardinality(W) = 5 /\ StraightHigh(W) = {t}
<1> DEFINE wheel == {14, 5, 4, 3, 2}
           low == R \cup (IF 14 \in R THEN {1} ELSE {})
<1>1. t \in 5..14 /\ (t - 4)..t \subseteq low  BY DEF Straights
<1>2. CASE t > 5
  <2> DEFINE W == (t - 4)..t
  <2>1. t - 4 \in Int /\ t \in Int /\ t - 4 <= t /\ t - (t - 4) + 1 = 5  BY <1>1
  <2>2. IsFiniteSet(W) /\ Cardinality(W) = 5  BY <2>1, Intervals
  <2>3. W \in SUBSET R
    <3>1. \A m \in W : m # 1  BY <1>1, <1>2
    <3> QED  BY <3>1, <1>1
  <2>4. W \in SUBSET Nat /\ W # {}  BY <1>1
  <2>5. t \in W /\ t - 4 \in W /\ \A m \in W : t >= m /\ t - 4 <= m  BY <1>1
  <2> HIDE DEF W
  <2>6. /\ Max(W) \in W /\ \A m \in W : Max(W) >= m
        /\ Min(W) \in W /\ \A m \in W : Min(W) <= m
    BY <2>2, <2>4, MaxIs, MinIs
  <2>7. Max(W) = t /\ Min(W) = t - 4
    <3>1. Max(W) \in Nat /\ Min(W) \in Nat  BY <2>4, <2>6
    <3> QED  BY <2>1, <2>5, <2>6, <3>1
  <2>8. Max(W) - Min(W) = 4  BY <2>1, <2>7
  <2>9. StraightHigh(W) = {t}  BY <2>2, <2>7, <2>8 DEF StraightHigh
  <2> QED  BY <2>2, <2>3, <2>9
<1>3. CASE t = 5
  <2>1. 1 \in low /\ 2 \in low /\ 3 \in low /\ 4 \in low /\ 5 \in low
    <3>1. /\ 1 \in (5 - 4)..5 /\ 2 \in (5 - 4)..5 /\ 3 \in (5 - 4)..5
          /\ 4 \in (5 - 4)..5 /\ 5 \in (5 - 4)..5
      OBVIOUS
    <3> QED  BY <1>1, <1>3, <3>1
  <2>2. 1 \notin R  OBVIOUS
  <2>3. 14 \in R  BY <2>1, <2>2
  <2>4. wheel \in SUBSET R  BY <2>1, <2>3
  <2>5. Max(wheel) - Min(wheel) # 4  BY WheelIs
  <2>6. StraightHigh(wheel) = {5}  BY <2>5 DEF StraightHigh
  <2> QED  BY <1>3, <2>4, <2>6, WheelIs
<1> QED  BY <1>1, <1>2, <1>3

\* The kind of hand that five cards are, by how many ranks they have.
KindOf(X) ==
  LET n == Cardinality(Values(X))
      most == Held(X, ByCount(X)[1])
  IN  IF StraightHigh(Values(X)) # {} THEN IF IsFlush(X) THEN 8 ELSE 4
      ELSE IF n = 2 THEN IF most = 4 THEN 7 ELSE 6
      ELSE IF n = 3 THEN IF most = 3 THEN 3 ELSE 2
      ELSE IF n = 4 THEN 1
      ELSE IF IsFlush(X) THEN 5 ELSE 0

\* Cards of one suit have different ranks.
LEMMA SuitedApart ==
  ASSUME NEW X \in SUBSET Cards, NEW s, \A c \in X : c.suit = s
  PROVE  Cardinality(Values(X)) = Cardinality(X)
<1>1. \A c, d \in X : c.rank = d.rank => c = d  BY CardIs
<1> QED  BY <1>1, RanksApart

\* A flush is cards of one suit.
LEMMA FlushIs ==
  ASSUME NEW X \in SUBSET Cards, X # {}
  PROVE  IsFlush(X) <=> \E s \in 1..4 : \A c \in X : c.suit = s
<1> DEFINE T == {c.suit : c \in X}
<1>1. T \in SUBSET (1..4)  BY CardIs
<1>2. IsFiniteSet(T)
  <2>1. IsFiniteSet(1..4)
    <3>1. 1 \in Int /\ 4 \in Int  OBVIOUS
    <3> QED  BY <3>1, Intervals, Zenon
  <2> HIDE DEF T
  <2> QED  BY <1>1, <2>1, FS_Subset
<1>3. IsFlush(X) <=> Cardinality(T) = 1  BY DEF IsFlush
<1>4. Cardinality(T) = 1 <=> \E s : T = {s}
  <2> HIDE DEF T
  <2> QED  BY <1>2, FS_Singleton
<1>5. (\E s : T = {s}) <=> \E s \in 1..4 : \A c \in X : c.suit = s
  <2>1. ASSUME NEW s, T = {s} PROVE s \in 1..4 /\ \A c \in X : c.suit = s
    BY <1>1, <2>1
  <2>2. ASSUME NEW s \in 1..4, \A c \in X : c.suit = s PROVE T = {s}  BY <2>2
  <2> QED  BY <2>1, <2>2
<1> QED  BY <1>3, <1>4, <1>5

\* evaluate5 tells the kind, and breaks ties by the straight or the ranks by count.
LEMMA Evaluates ==
  ASSUME NEW X \in SUBSET Cards, Cardinality(X) = 5
  PROVE  /\ \A t : StraightHigh(Values(X)) = {t} => Evaluate5(X) = <<KindOf(X)>> \o <<t>>
         /\ StraightHigh(Values(X)) = {} => Evaluate5(X) = <<KindOf(X)>> \o ByCount(X)
         /\ IsFlush(X) => Cardinality(Values(X)) = 5
<1> DEFINE c == ByCount(X)
           n == Cardinality(Values(X))
           h(i) == Held(X, c[i])
           st == StraightHigh(Values(X))
<1>0. X # {}  BY FS_EmptySet, SomeCards
<1>1. FiveShape(X)  BY FiveCards
<1>2. IsFlush(X) => n = 5  BY <1>0, FlushIs, SuitedApart
<1>3. st # {} => n = 5  BY StraightIs, SomeCards
<1>4. \A t : SetToSeq({t}) = <<t>>  BY ListOfOne
<1> DEFINE kind ==
        IF st # {} THEN IF IsFlush(X) THEN 8 ELSE 4
        ELSE IF h(1) = 4 THEN 7
        ELSE IF h(1) = 3 THEN IF h(2) = 2 THEN 6 ELSE 3
        ELSE IF IsFlush(X) THEN 5
        ELSE IF h(1) = 2 THEN IF h(2) = 2 THEN 2 ELSE 1
        ELSE 0
<1>5. kind = KindOf(X)
  <2> HIDE DEF c, n, st, h
  <2>1. \/ n = 2 /\ h(1) = 4 /\ h(2) = 1
        \/ n = 2 /\ h(1) = 3 /\ h(2) = 2
        \/ n = 3 /\ h(1) = 3 /\ h(2) = 1
        \/ n = 3 /\ h(1) = 2 /\ h(2) = 2
        \/ n = 4 /\ h(1) = 2 /\ h(2) = 1
        \/ n = 5 /\ h(1) = 1 /\ h(2) = 1
    BY <1>1 DEF FiveShape, h, n, c
  <2>2. KindOf(X) =
          IF st # {} THEN IF IsFlush(X) THEN 8 ELSE 4
          ELSE IF n = 2 THEN IF h(1) = 4 THEN 7 ELSE 6
          ELSE IF n = 3 THEN IF h(1) = 3 THEN 3 ELSE 2
          ELSE IF n = 4 THEN 1
          ELSE IF IsFlush(X) THEN 5 ELSE 0
    BY DEF KindOf, n, h, st, c
  <2> QED  BY <1>2, <1>3, <2>1, <2>2
<1>6. Evaluate5(X) = <<kind>> \o (IF st # {} THEN SetToSeq(st) ELSE c)
  BY DEF Evaluate5
<1> HIDE DEF c, n, h, st, kind
<1>7. Evaluate5(X) = <<KindOf(X)>> \o (IF st # {} THEN SetToSeq(st) ELSE c)
  BY <1>5, <1>6
<1>8. \A t : st = {t} => Evaluate5(X) = <<KindOf(X)>> \o <<t>>  BY <1>4, <1>7
<1>9. st = {} => Evaluate5(X) = <<KindOf(X)>> \o c  BY <1>7
<1> QED  BY <1>2, <1>8, <1>9 DEF c, n, st

-----------------------------------------------------------------------------
(***************************************************************************)
(* What the rules see in all the cards.                                     *)
(***************************************************************************)
Flushes(X) == {InSuit(X, s) : s \in FlushSuits(X)}
Steel(X) == UNION {Straights(ranks) : ranks \in Flushes(X)}

\* Of seven cards, five or more are of one suit at most; their ranks are different.
LEMMA FlushesAre ==
  ASSUME NEW X \in SUBSET Cards, Cardinality(X) = 7, Flushes(X) # {}
  PROVE  \E F, Y : /\ Flushes(X) = {F} /\ Steel(X) = Straights(F) /\ UNION Flushes(X) = F
                   /\ F \in SUBSET (2..14) /\ F \subseteq Values(X)
                   /\ IsFiniteSet(F) /\ Cardinality(F) >= 5
                   /\ Y \in SUBSET X /\ Values(Y) = F
                   /\ \E s \in 1..4 : \A c \in Y : c.suit = s
<1> DEFINE Suited(s) == {c \in X : c.suit = s}
<1>1. PICK s \in FlushSuits(X) : TRUE  BY DEF Flushes
<1>2. \A r \in FlushSuits(X) : r \in 1..4 /\ Cardinality(Suited(r)) >= 5
  BY CardIs DEF FlushSuits
<1>3. \A r : /\ Suited(r) \in SUBSET X /\ Suited(r) \in SUBSET Cards
             /\ IsFiniteSet(Suited(r)) /\ Cardinality(Suited(r)) \in Nat
  BY SomeCards
<1>4. ASSUME NEW r \in FlushSuits(X), r # s PROVE FALSE
  <2> DEFINE A == Suited(s)
             B == Suited(r)
  <2>1. A \cap B = {} /\ A \cup B \in SUBSET X  BY <1>4
  <2>2. /\ IsFiniteSet(A) /\ IsFiniteSet(B)
        /\ Cardinality(A) \in Nat /\ Cardinality(B) \in Nat
        /\ Cardinality(A) >= 5 /\ Cardinality(B) >= 5
    BY <1>2, <1>3
  <2> HIDE DEF A, B
  <2>3. Cardinality(A \cup B) = Cardinality(A) + Cardinality(B) - Cardinality(A \cap B)
    BY <2>2, FS_Union
  <2>4. Cardinality(A \cup B) >= 10  BY <2>1, <2>2, <2>3, FS_EmptySet
  <2>5. Cardinality(A \cup B) <= 7
    <3>1. IsFiniteSet(X)  BY SomeCards
    <3> QED  BY <2>1, <3>1, FS_Subset
  <2>6. Cardinality(A \cup B) \in Nat  BY <2>1, SomeCards
  <2> QED  BY <2>4, <2>5, <2>6
<1> DEFINE F == InSuit(X, s)
           Y == Suited(s)
<1>5. Flushes(X) = {F}  BY <1>4 DEF Flushes
<1>6. Values(Y) = F  BY DEF InSuit
<1>7. Y \in SUBSET X /\ \A c \in Y : c.suit = s  OBVIOUS
<1> HIDE DEF F, Y
<1>8. Steel(X) = Straights(F) /\ UNION Flushes(X) = F  BY <1>5 DEF Steel
<1>9. F \in SUBSET (2..14) /\ F \subseteq Values(X) /\ IsFiniteSet(F)
  BY <1>6, <1>7, FewerCards, SomeCards
<1>10. Cardinality(F) = Cardinality(Y)  BY <1>6, <1>7, SuitedApart, FewerCards
<1>11. Cardinality(Y) >= 5  BY <1>2 DEF Y
<1> QED  BY <1>2, <1>5, <1>6, <1>7, <1>8, <1>9, <1>10, <1>11

\* The highest of some ranks, as many as wanted, in descending order.
LEMMA HighestValueIs ==
  ASSUME NEW R \in SUBSET (2..14), NEW n \in Nat, n <= Cardinality(R)
  PROVE  LET h == HighestValue(R, n)
         IN  /\ h \in Seq(R) /\ Len(h) = n
             /\ \A i, j \in 1..n : i < j => h[i] > h[j]
             /\ \A i \in 1..n : \A w \in R : w > h[i] => \E j \in 1..(i - 1) : h[j] = w
<1> DEFINE key == [v \in R |-> v]
           d == Descending(key)
           h == HighestValue(R, n)
           N == Cardinality(R)
<1>0. IsFiniteSet(R)
  <2>1. 2 \in Int /\ 14 \in Int  OBVIOUS
  <2> QED  BY <2>1, Intervals, FS_Subset
<1>1. key \in [R -> Nat]  OBVIOUS
<1>2. Separates(key, R)  BY <1>1 DEF Separates
<1>3. Lists(d, R, key)
  <2> HIDE DEF key
  <2> QED  BY <1>0, <1>2, DescendingLists
<1>4. N \in Nat  BY <1>0, FS_CardinalityType
<1>5. /\ d \in [1..N -> R]
      /\ \A i, j \in 1..N : i < j => key[d[i]] > key[d[j]]
      /\ \A v \in R : \E i \in 1..N : d[i] = v
  BY <1>3 DEF Lists
<1>6. h = SubSeq(d, 1, n)  BY DEF HighestValue
<1> HIDE DEF d
<1>7. \A i, j \in 1..N : d[i] \in R /\ (i < j => d[i] > d[j])  BY <1>5
<1> HIDE DEF h, N
<1>8. d \in Seq(R) /\ Len(d) = N  BY <1>4, <1>5, SequenceIs
<1>9. h \in Seq(R) /\ Len(h) = n /\ \A i \in 1..n : h[i] = d[i] /\ i \in 1..N
  <2>1. n <= N  BY DEF N
  <2>2. h = [i \in 1..n |-> d[i]]  BY <1>4, <1>6, <1>8, <2>1
  <2>3. \A i \in 1..n : i \in 1..N /\ d[i] \in R  BY <1>4, <1>7, <2>1
  <2>4. h \in [1..n -> R]  BY <2>2, <2>3
  <2> QED  BY <2>2, <2>3, <2>4, SequenceIs
<1>10. ASSUME NEW i \in 1..n, NEW w \in R, w > h[i] PROVE \E j \in 1..(i - 1) : h[j] = w
  <2>1. PICK j \in 1..N : d[j] = w  BY <1>5
  <2>2. h[i] = d[i] /\ i \in 1..N /\ d[i] \in 2..14 /\ w \in 2..14  BY <1>7, <1>9
  <2>3. j < i
    <3>1. CASE j = i  BY <1>10, <2>1, <2>2, <3>1
    <3>2. CASE i < j
      <4>1. d[i] > d[j]  BY <1>7, <2>2, <3>2
      <4> QED  BY <1>10, <2>1, <2>2, <4>1
    <3> QED  BY <3>1, <3>2, <1>4, <2>2
  <2>4. j \in 1..(i - 1) /\ j \in 1..n  BY <1>4, <2>3
  <2> QED  BY <2>1, <2>4, <1>9
<1>11. \A i, j \in 1..n : i < j => h[i] > h[j]  BY <1>7, <1>9
<1> QED  BY <1>9, <1>10, <1>11 DEF h

\* Ranks held once are as many as their cards.
LEMMA RestOnce ==
  ASSUME NEW X \in SUBSET Cards, NEW W,
         \A v \in Values(X) \ W : Held(X, v) <= 1
  PROVE  Cardinality(Values(X) \ W) = Cardinality(Without(X, W))
<1> DEFINE Y == Without(X, W)
<1>1. Y \in SUBSET X /\ Values(Y) = Values(X) \ W  BY DEF Without, Values
<1>2. \A v \in Values(Y) : Held(Y, v) = 1
  <2> SUFFICES ASSUME NEW v \in Values(Y) PROVE Held(Y, v) = 1  OBVIOUS
  <2>1. Held(X, v) <= 1  BY <1>1
  <2>2. Held(Y, v) <= Held(X, v) /\ Held(Y, v) \in 0..4 /\ Held(X, v) \in 0..4
        /\ Held(Y, v) > 0
    <3> HIDE DEF Y
    <3> QED  BY <1>1, FewerCards, SomeCards
  <2> QED  BY <2>1, <2>2
<1> HIDE DEF Y
<1>3. Cardinality(Values(Y)) = Cardinality(Y)  BY <1>1, <1>2, FewerCards, RanksApart
<1> QED  BY <1>1, <1>3 DEF Y

\* What seven cards have to have besides a rank or two.
LEMMA SevenCards ==
  ASSUME NEW X \in SUBSET Cards, Cardinality(X) = 7
  PROVE  /\ \A v : Values(X) \ {v} # {}
         /\ \A v : AtLeast(X, 4) = {} /\ AtLeast(X, 2) \subseteq {v}
                     => Cardinality(Values(X) \ {v}) >= 4
         /\ AtLeast(X, 2) = {} => Cardinality(Values(X)) = 7
         /\ \A v, w : AtLeast(X, 3) = {} => Values(X) \ {v, w} # {}
<1>1. \A v : Held(X, v) \in 0..4 /\ (Held(X, v) > 0 <=> v \in Values(X))  BY SomeCards
<1>2. \A W : Cardinality(Without(X, W)) \in Nat  BY TakeAll
<1>3. Without(X, {}) = X  BY TakeAll
<1>4. \A v : 7 = Held(X, v) + Cardinality(Without(X, {v}))
  <2> SUFFICES ASSUME NEW v PROVE 7 = Held(X, v) + Cardinality(Without(X, {v}))
    OBVIOUS
  <2>1. v \notin {} /\ {} \cup {v} = {v}  OBVIOUS
  <2>2. Cardinality(Without(X, {})) = Held(X, v) + Cardinality(Without(X, {} \cup {v}))
    BY <2>1, TakeRank
  <2> QED  BY <1>3, <2>1, <2>2
<1>5. ASSUME NEW v PROVE Values(X) \ {v} # {}
  <2>1. Cardinality(Without(X, {v})) # 0  BY <1>1, <1>2, <1>4
  <2>2. ~(Values(X) \subseteq {v})  BY <2>1, TakeAll
  <2> QED  BY <2>2
<1>6. ASSUME NEW v, AtLeast(X, 4) = {}, AtLeast(X, 2) \subseteq {v}
      PROVE  Cardinality(Values(X) \ {v}) >= 4
  <2>1. \A w \in Values(X) \ {v} : Held(X, w) <= 1  BY <1>1, <1>6 DEF AtLeast
  <2>2. Held(X, v) <= 3  BY <1>1, <1>6 DEF AtLeast
  <2>3. Cardinality(Values(X) \ {v}) = Cardinality(Without(X, {v}))  BY <2>1, RestOnce
  <2> QED  BY <1>1, <1>2, <1>4, <2>2, <2>3
<1>7. ASSUME AtLeast(X, 2) = {} PROVE Cardinality(Values(X)) = 7
  <2>1. \A w \in Values(X) \ {} : Held(X, w) <= 1  BY <1>1, <1>7 DEF AtLeast
  <2>2. Cardinality(Values(X) \ {}) = Cardinality(Without(X, {}))  BY <2>1, RestOnce
  <2>3. Values(X) \ {} = Values(X)  OBVIOUS
  <2> QED  BY <1>3, <2>2, <2>3
<1>8. ASSUME NEW v, NEW w, AtLeast(X, 3) = {} PROVE Values(X) \ {v, w} # {}
  <2>1. \A u : Held(X, u) <= 2  BY <1>1, <1>8 DEF AtLeast
  <2>2. CASE v = w  BY <1>5, <2>2
  <2>3. CASE v # w
    <3>1. w \notin {v} /\ {v} \cup {w} = {v, w}  BY <2>3
    <3>2. Cardinality(Without(X, {v})) = Held(X, w) + Cardinality(Without(X, {v} \cup {w}))
      BY <3>1, TakeRank
    <3>3. Cardinality(Without(X, {v, w})) # 0  BY <1>1, <1>2, <1>4, <2>1, <3>1, <3>2
    <3>4. ~(Values(X) \subseteq {v, w})  BY <3>3, TakeAll
    <3> QED  BY <3>4
  <2> QED  BY <2>2, <2>3
<1> QED  BY <1>5, <1>6, <1>7, <1>8

\* No rank of five, except for a kicker or two, is above the highest.
IsMax(m, S) == m \in S /\ \A u \in S : u <= m

\* The greatest of ranks.
LEMMA MaxOfRanks ==
  ASSUME NEW S \in SUBSET (2..14), S # {}
  PROVE  IsMax(Max(S), S)
<1>1. IsFiniteSet(S)
  <2>1. 2 \in Int /\ 14 \in Int  OBVIOUS
  <2> QED  BY <2>1, Intervals, FS_Subset
<1>2. S \in SUBSET Nat  OBVIOUS
<1>3. Max(S) \in S /\ \A m \in S : Max(S) >= m  BY <1>1, <1>2, MaxIs
<1> QED  BY <1>3 DEF IsMax

\* The rules' kind of hand.
RulesKind(X) ==
  LET quads == AtLeast(X, 4)   trips == AtLeast(X, 3)   pairs == AtLeast(X, 2)
  IN  IF Steel(X) # {} THEN 8
      ELSE IF quads # {} THEN 7
      ELSE IF trips # {} /\ pairs # {Max(trips)} THEN 6
      ELSE IF Flushes(X) # {} THEN 5
      ELSE IF Straights(Values(X)) # {} THEN 4
      ELSE IF trips # {} THEN 3
      ELSE IF Cardinality(pairs) >= 2 THEN 2
      ELSE IF pairs # {} THEN 1
      ELSE 0

\* What breaks ties by the rules.
RulesTies(X) ==
  LET all == Values(X)
      quads == AtLeast(X, 4)   trips == AtLeast(X, 3)   pairs == AtLeast(X, 2)
      two == HighestValue(pairs, 2)
  IN  IF Steel(X) # {} THEN <<Max(Steel(X))>>
      ELSE IF quads # {} THEN <<Max(quads), Max(all \ {Max(quads)})>>
      ELSE IF trips # {} /\ pairs # {Max(trips)}
        THEN <<Max(trips), Max(pairs \ {Max(trips)})>>
      ELSE IF Flushes(X) # {} THEN HighestValue(UNION Flushes(X), 5)
      ELSE IF Straights(all) # {} THEN <<Max(Straights(all))>>
      ELSE IF trips # {} THEN <<Max(trips)>> \o HighestValue(all \ trips, 2)
      ELSE IF Cardinality(pairs) >= 2 THEN two \o HighestValue(all \ ToSet(two), 1)
      ELSE IF pairs # {} THEN <<Max(pairs)>> \o HighestValue(all \ pairs, 3)
      ELSE HighestValue(all, 5)

\* What the kind and the ties by the rules amount to.
RulesMean(X, kind, ties) ==
  LET all == Values(X)
      quads == AtLeast(X, 4)   trips == AtLeast(X, 3)   pairs == AtLeast(X, 2)
      NoFull == \A t \in trips, p \in pairs : t = p
  IN  \/ kind = 8 /\ \E t : IsMax(t, Steel(X)) /\ ties = <<t>>
      \/ /\ kind = 7 /\ Steel(X) = {}
         /\ \E q, k : IsMax(q, quads) /\ IsMax(k, all \ {q}) /\ ties = <<q, k>>
      \/ /\ kind = 6 /\ Steel(X) = {} /\ quads = {}
         /\ \E t, p : IsMax(t, trips) /\ IsMax(p, pairs \ {t}) /\ ties = <<t, p>>
      \/ /\ kind = 5 /\ Steel(X) = {} /\ quads = {} /\ NoFull
         /\ Flushes(X) # {} /\ ties = HighestValue(UNION Flushes(X), 5)
      \/ /\ kind = 4 /\ quads = {} /\ NoFull /\ Flushes(X) = {}
         /\ \E t : IsMax(t, Straights(all)) /\ ties = <<t>>
      \/ /\ kind = 3 /\ quads = {} /\ Flushes(X) = {} /\ Straights(all) = {}
         /\ \E t : /\ trips = {t} /\ pairs = {t} /\ Cardinality(all \ {t}) >= 2
                   /\ ties = <<t>> \o HighestValue(all \ {t}, 2)
      \/ /\ kind = 2 /\ trips = {} /\ Flushes(X) = {} /\ Straights(all) = {}
         /\ Cardinality(pairs) >= 2
         /\ \E a, b : /\ IsMax(a, pairs) /\ IsMax(b, pairs \ {a})
                      /\ \E k : IsMax(k, all \ {a, b}) /\ ties = <<a, b, k>>
      \/ /\ kind = 1 /\ trips = {} /\ Flushes(X) = {} /\ Straights(all) = {}
         /\ \E p : /\ pairs = {p} /\ Cardinality(all \ {p}) >= 3
                   /\ ties = <<p>> \o HighestValue(all \ {p}, 3)
      \/ /\ kind = 0 /\ pairs = {} /\ Flushes(X) = {} /\ Straights(all) = {}
         /\ Cardinality(all) >= 5 /\ ties = HighestValue(all, 5)

\* The highest one and the highest two of some ranks.
LEMMA HighestFew ==
  ASSUME NEW R \in SUBSET (2..14)
  PROVE  /\ R # {} => \E a : IsMax(a, R) /\ HighestValue(R, 1) = <<a>>
         /\ Cardinality(R) >= 2 =>
              \E a, b : /\ IsMax(a, R) /\ IsMax(b, R \ {a})
                        /\ HighestValue(R, 2) = <<a, b>>
<1>0. IsFiniteSet(R) /\ Cardinality(R) \in Nat /\ (R = {} <=> Cardinality(R) = 0)
  <2>1. 2 \in Int /\ 14 \in Int  OBVIOUS
  <2>2. IsFiniteSet(R)  BY <2>1, Intervals, FS_Subset
  <2> QED  BY <2>2, FS_EmptySet, FS_CardinalityType
<1>1. ASSUME R # {} PROVE \E a : IsMax(a, R) /\ HighestValue(R, 1) = <<a>>
  <2> DEFINE h == HighestValue(R, 1)
  <2>0. Cardinality(R) # 0  BY <1>0, <1>1, Zenon
  <2>1. 1 \in Nat /\ 1 <= Cardinality(R)  BY <1>0, <2>0
  <2>2. /\ h \in Seq(R) /\ Len(h) = 1
        /\ \A i \in 1..1 : \A w \in R : w > h[i] => \E j \in 1..(i - 1) : h[j] = w
    BY <2>1, HighestValueIs
  <2> HIDE DEF h
  <2>3. h = <<h[1]>> /\ h[1] \in R  BY <2>2
  <2>4. \A w \in R : ~(w > h[1])
    <3>1. 1 \in 1..1 /\ \A j \in 1..(1 - 1) : FALSE  OBVIOUS
    <3> QED  BY <2>2, <3>1
  <2>5. IsMax(h[1], R)  BY <2>3, <2>4 DEF IsMax
  <2> QED  BY <2>3, <2>5 DEF h
<1>2. ASSUME Cardinality(R) >= 2
      PROVE  \E a, b : /\ IsMax(a, R) /\ IsMax(b, R \ {a})
                       /\ HighestValue(R, 2) = <<a, b>>
  <2> DEFINE h == HighestValue(R, 2)
  <2>2. /\ h \in Seq(R) /\ Len(h) = 2
        /\ \A i, j \in 1..2 : i < j => h[i] > h[j]
        /\ \A i \in 1..2 : \A w \in R : w > h[i] => \E j \in 1..(i - 1) : h[j] = w
    BY <1>2, HighestValueIs
  <2> HIDE DEF h
  <2>3. h = <<h[1], h[2]>> /\ h[1] \in R /\ h[2] \in R /\ h[1] > h[2]
    <3>1. h = <<h[1], h[2]>>  BY <2>2
    <3>2. h[1] \in R /\ h[2] \in R  BY <2>2
    <3>3. 1 \in 1..2 /\ 2 \in 1..2 /\ 1 < 2  OBVIOUS
    <3>4. h[1] > h[2]  BY <2>2, <3>3, Zenon
    <3> QED  BY <3>1, <3>2, <3>4
  <2>4. \A w \in R : ~(w > h[1])
    <3>1. 1 \in 1..2 /\ \A j \in 1..(1 - 1) : FALSE  OBVIOUS
    <3> QED  BY <2>2, <3>1
  <2>5. \A w \in R : w > h[2] => w = h[1]
    <3>1. 2 \in 1..2 /\ \A j \in 1..(2 - 1) : j = 1  OBVIOUS
    <3> QED  BY <2>2, <3>1
  <2>6. IsMax(h[1], R) /\ IsMax(h[2], R \ {h[1]})
    BY <2>3, <2>4, <2>5 DEF IsMax
  <2> QED  BY <2>3, <2>6 DEF h
<1> QED  BY <1>1, <1>2

\* One sequence after another, element by element.
LEMMA Concat ==
  ASSUME NEW T, NEW a \in Seq(T), NEW b \in Seq(T)
  PROVE  /\ a \o b \in Seq(T) /\ Len(a \o b) = Len(a) + Len(b)
         /\ \A i \in 1..Len(a) : (a \o b)[i] = a[i]
         /\ \A i \in 1..Len(b) : (a \o b)[Len(a) + i] = b[i]
OBVIOUS

\* Short sequences.
LEMMA Short ==
  /\ \A T : \A k, m \in T : <<k>> \in Seq(T) /\ <<k, m>> \in Seq(T)
  /\ \A k, m : <<k>> \o <<m>> = <<k, m>>
  /\ \A k, m, l : <<k>> \o <<m, l>> = <<k, m, l>>
  /\ \A k, m, l : <<m, l>> \o <<k>> = <<m, l, k>>
<1>a. \A T : \A k, m \in T : <<k>> \in Seq(T) /\ <<k, m>> \in Seq(T)
  <2>1. ASSUME NEW T, NEW k \in T, NEW m \in T
        PROVE  <<k>> \in Seq(T) /\ <<k, m>> \in Seq(T)
    OBVIOUS
  <2> QED  BY <2>1
<1>b. \A k, m : <<k>> \o <<m>> = <<k, m>>
  <2> SUFFICES ASSUME NEW k, NEW m PROVE <<k>> \o <<m>> = <<k, m>>
    BY Zenon
  <2> DEFINE T == {k, m}
             s == <<k>> \o <<m>>
  <2>1. /\ <<k>> \in Seq(T) /\ Len(<<k>>) = 1 /\ <<k>>[1] = k
        /\ <<m>> \in Seq(T) /\ Len(<<m>>) = 1 /\ <<m>>[1] = m
    OBVIOUS
  <2>2. s \in Seq(T) /\ Len(s) = 2 /\ s[1] = k /\ s[2] = m  BY <2>1, Concat
  <2> HIDE DEF s
  <2>3. s = <<k, m>>  BY <2>2
  <2> QED  BY <2>3 DEF s
<1>c. \A k, m, l : <<k>> \o <<m, l>> = <<k, m, l>>
  <2> SUFFICES ASSUME NEW k, NEW m, NEW l PROVE <<k>> \o <<m, l>> = <<k, m, l>>
    BY Zenon
  <2> DEFINE T == {k, m, l}
             s == <<k>> \o <<m, l>>
  <2>1. /\ <<k>> \in Seq(T) /\ Len(<<k>>) = 1 /\ <<k>>[1] = k
        /\ <<m, l>> \in Seq(T) /\ Len(<<m, l>>) = 2
        /\ <<m, l>>[1] = m /\ <<m, l>>[2] = l
    OBVIOUS
  <2>2. s \in Seq(T) /\ Len(s) = 3 /\ s[1] = k /\ s[2] = m /\ s[3] = l  BY <2>1, Concat
  <2> HIDE DEF s
  <2>3. s = <<k, m, l>>  BY <2>2
  <2> QED  BY <2>3 DEF s
<1>d. \A k, m, l : <<m, l>> \o <<k>> = <<m, l, k>>
  <2> SUFFICES ASSUME NEW k, NEW m, NEW l PROVE <<m, l>> \o <<k>> = <<m, l, k>>
    BY Zenon
  <2> DEFINE T == {k, m, l}
             s == <<m, l>> \o <<k>>
  <2>1. /\ <<k>> \in Seq(T) /\ Len(<<k>>) = 1 /\ <<k>>[1] = k
        /\ <<m, l>> \in Seq(T) /\ Len(<<m, l>>) = 2
        /\ <<m, l>>[1] = m /\ <<m, l>>[2] = l
    OBVIOUS
  <2>2. s \in Seq(T) /\ Len(s) = 3 /\ s[1] = m /\ s[2] = l /\ s[3] = k  BY <2>1, Concat
  <2> HIDE DEF s
  <2>3. s = <<m, l, k>>  BY <2>2
  <2> QED  BY <2>3 DEF s
<1> QED  BY <1>a, <1>b, <1>c, <1>d, Zenon

\* The rules in one expression are their kind and what breaks ties.
LEMMA RulesParts ==
  ASSUME NEW X \in SUBSET Cards, Cardinality(X) = 7
  PROVE  ByTheRules(X) = <<RulesKind(X)>> \o RulesTies(X)
<1> DEFINE all == Values(X)
           quads == AtLeast(X, 4)
           trips == AtLeast(X, 3)
           pairs == AtLeast(X, 2)
           two == HighestValue(pairs, 2)
           kickers == HighestValue(all \ ToSet(two), 1)
           st == Straights(all)
           high == HighestValue(all, 5)
           five == HighestValue(UNION Flushes(X), 5)
           besideTrips == HighestValue(all \ trips, 2)
           besidePair == HighestValue(all \ pairs, 3)
           rest == Max(all \ {Max(quads)})
           full == Max(pairs \ {Max(trips)})
           many == Cardinality(pairs) >= 2
           isFull == trips # {} /\ pairs # {Max(trips)}
<1>1. ByTheRules(X) =
        IF Steel(X) # {} THEN <<8, Max(Steel(X))>>
        ELSE IF quads # {} THEN <<7, Max(quads), rest>>
        ELSE IF isFull THEN <<6, Max(trips), full>>
        ELSE IF Flushes(X) # {} THEN <<5>> \o five
        ELSE IF st # {} THEN <<4, Max(st)>>
        ELSE IF trips # {} THEN <<3, Max(trips)>> \o besideTrips
        ELSE IF many THEN <<2>> \o two \o kickers
        ELSE IF pairs # {} THEN <<1, Max(pairs)>> \o besidePair
        ELSE <<0>> \o high
  BY DEF ByTheRules, Steel, Flushes
<1>2. RulesKind(X) =
        IF Steel(X) # {} THEN 8 ELSE IF quads # {} THEN 7 ELSE IF isFull THEN 6
        ELSE IF Flushes(X) # {} THEN 5 ELSE IF st # {} THEN 4
        ELSE IF trips # {} THEN 3 ELSE IF many THEN 2 ELSE IF pairs # {} THEN 1 ELSE 0
  BY DEF RulesKind
<1>3. RulesTies(X) =
        IF Steel(X) # {} THEN <<Max(Steel(X))>>
        ELSE IF quads # {} THEN <<Max(quads), rest>>
        ELSE IF isFull THEN <<Max(trips), full>>
        ELSE IF Flushes(X) # {} THEN five
        ELSE IF st # {} THEN <<Max(st)>>
        ELSE IF trips # {} THEN <<Max(trips)>> \o besideTrips
        ELSE IF many THEN two \o kickers
        ELSE IF pairs # {} THEN <<Max(pairs)>> \o besidePair
        ELSE high
  BY DEF RulesTies
<1>4. /\ all \in SUBSET (2..14) /\ Cardinality(all) \in Nat
      /\ quads \subseteq trips /\ trips \subseteq pairs /\ pairs \subseteq all
  BY SomeCards DEF AtLeast
<1>5. ASSUME quads = {}, ~isFull, trips # {}
      PROVE  besideTrips \in Seq(all) /\ Len(besideTrips) = 2
  <2>1. trips = pairs /\ pairs = {Max(trips)}  BY <1>4, <1>5, MaxOfRanks DEF IsMax
  <2>2. Cardinality(all \ trips) >= 4  BY <1>5, <2>1, SevenCards
  <2>3. all \ trips \in SUBSET (2..14) /\ Cardinality(all \ trips) \in Nat
    BY <1>4, SomeCards, FS_Difference, FS_CardinalityType
  <2> HIDE DEF all, trips
  <2>3a. 2 \in Nat /\ 2 <= Cardinality(all \ trips)  BY <2>2, <2>3
  <2>4. besideTrips \in Seq(all \ trips) /\ Len(besideTrips) = 2
    BY <2>3, <2>3a, HighestValueIs
  <2> QED  BY <2>4
<1>6. ASSUME many, trips = {}
      PROVE  two \in Seq(all) /\ kickers \in Seq(all)
  <2>1. PICK a, b : two = <<a, b>> /\ a \in pairs /\ b \in pairs
    BY <1>4, <1>6, HighestFew DEF IsMax
  <2>2. ToSet(two) = {a, b}  BY <2>1 DEF ToSet
  <2>3. all \ {a, b} # {}  BY <1>6, SevenCards
  <2>4. PICK k : k \in all \ {a, b} /\ kickers = <<k>>
    <3> HIDE DEF all, two
    <3> QED  BY <1>4, <2>2, <2>3, HighestFew DEF IsMax
  <2>5. a \in all /\ b \in all /\ k \in all  BY <1>4, <2>1, <2>4
  <2> HIDE DEF all, two, kickers
  <2> QED  BY <2>1, <2>4, <2>5, Short
<1>7. ASSUME pairs # {}, ~many, trips = {}
      PROVE  besidePair \in Seq(all) /\ Len(besidePair) = 3
  <2>1. \E p : pairs = {p}
    <3>1. IsFiniteSet(pairs) /\ Cardinality(pairs) \in Nat
      BY <1>4, SomeCards, FS_Subset, FS_CardinalityType
    <3>2. Cardinality(pairs) = 1  BY <1>7, <3>1, FS_EmptySet
    <3> QED  BY <3>1, <3>2, FS_Singleton
  <2>2. Cardinality(all \ pairs) >= 4
    <3>1. quads = {}  BY <1>4, <1>7
    <3> QED  BY <2>1, <3>1, SevenCards
  <2>3. all \ pairs \in SUBSET (2..14) /\ Cardinality(all \ pairs) \in Nat
    BY <1>4, SomeCards, FS_Difference, FS_CardinalityType
  <2> HIDE DEF all, pairs
  <2>3a. 3 \in Nat /\ 3 <= Cardinality(all \ pairs)  BY <2>2, <2>3
  <2>4. besidePair \in Seq(all \ pairs) /\ Len(besidePair) = 3
    BY <2>3, <2>3a, HighestValueIs
  <2> QED  BY <2>4
<1> HIDE DEF all, quads, trips, pairs, two, kickers, st, high, five, besideTrips,
             besidePair, rest, full, many, isFull
<1>8. ASSUME NEW T, NEW a \in Seq(T), NEW b \in Seq(T), NEW k \in T
      PROVE  <<k>> \o a \o b = <<k>> \o (a \o b)
  <2>1. <<k>> \in Seq(T)  BY Short
  <2> QED  BY <2>1, ConcatAssociative
<1>9. ASSUME NEW T, NEW s \in Seq(T), NEW k \in T, NEW m \in T
      PROVE  <<k, m>> \o s = <<k>> \o (<<m>> \o s)
  <2>1. <<k>> \o <<m>> = <<k, m>>  BY Short
  <2>2. <<k>> \in Seq(T) /\ <<m>> \in Seq(T)  BY Short
  <2>3. <<k>> \o <<m>> \o s = <<k>> \o (<<m>> \o s)  BY <2>2, ConcatAssociative
  <2> QED  BY <2>1, <2>3
<1>10. \A k, m : <<k>> \o <<m>> = <<k, m>>  BY Short
<1>11. \A k, m, l : <<k>> \o <<m, l>> = <<k, m, l>>  BY Short
<1>12. CASE Steel(X) # {}  BY <1>1, <1>2, <1>3, <1>10, <1>12
<1>13. CASE Steel(X) = {} /\ quads # {}  BY <1>1, <1>2, <1>3, <1>11, <1>13
<1>14. CASE Steel(X) = {} /\ quads = {} /\ isFull  BY <1>1, <1>2, <1>3, <1>11, <1>14
<1>15. CASE Steel(X) = {} /\ quads = {} /\ ~isFull /\ Flushes(X) # {}
  BY <1>1, <1>2, <1>3, <1>15
<1>16. CASE Steel(X) = {} /\ quads = {} /\ ~isFull /\ Flushes(X) = {} /\ st # {}
  BY <1>1, <1>2, <1>3, <1>10, <1>16
<1>17. CASE /\ Steel(X) = {} /\ quads = {} /\ ~isFull /\ Flushes(X) = {} /\ st = {}
            /\ trips # {}
  <2> DEFINE T == Int \cup all \cup {Max(trips)}
  <2>1. besideTrips \in Seq(T)  BY <1>5, <1>17
  <2>2. 3 \in T /\ Max(trips) \in T  OBVIOUS
  <2> HIDE DEF T
  <2>3. <<3, Max(trips)>> \o besideTrips = <<3>> \o (<<Max(trips)>> \o besideTrips)
    BY <1>9, <2>1, <2>2
  <2> QED  BY <1>1, <1>2, <1>3, <1>17, <2>3
<1>18. CASE /\ Steel(X) = {} /\ quads = {} /\ ~isFull /\ Flushes(X) = {} /\ st = {}
            /\ trips = {} /\ many
  <2> DEFINE T == Int \cup all
  <2>1. two \in Seq(T) /\ kickers \in Seq(T)  BY <1>6, <1>18
  <2>2. 2 \in T  OBVIOUS
  <2> HIDE DEF T
  <2>3. <<2>> \o two \o kickers = <<2>> \o (two \o kickers)  BY <1>8, <2>1, <2>2
  <2> QED  BY <1>1, <1>2, <1>3, <1>18, <2>3
<1>19. CASE /\ Steel(X) = {} /\ quads = {} /\ ~isFull /\ Flushes(X) = {} /\ st = {}
            /\ trips = {} /\ ~many /\ pairs # {}
  <2> DEFINE T == Int \cup all \cup {Max(pairs)}
  <2>1. besidePair \in Seq(T)  BY <1>7, <1>19
  <2>2. 1 \in T /\ Max(pairs) \in T  OBVIOUS
  <2> HIDE DEF T
  <2>3. <<1, Max(pairs)>> \o besidePair = <<1>> \o (<<Max(pairs)>> \o besidePair)
    BY <1>9, <2>1, <2>2
  <2> QED  BY <1>1, <1>2, <1>3, <1>19, <2>3
<1>20. CASE /\ Steel(X) = {} /\ quads = {} /\ ~isFull /\ Flushes(X) = {} /\ st = {}
            /\ trips = {} /\ ~many /\ pairs = {}
  BY <1>1, <1>2, <1>3, <1>20
<1> QED  BY <1>12, <1>13, <1>14, <1>15, <1>16, <1>17, <1>18, <1>19, <1>20

\* What the rules see is what they mean.
LEMMA RulesAre ==
  ASSUME NEW X \in SUBSET Cards, Cardinality(X) = 7
  PROVE  RulesMean(X, RulesKind(X), RulesTies(X))
<1> DEFINE all == Values(X)
           quads == AtLeast(X, 4)
           trips == AtLeast(X, 3)
           pairs == AtLeast(X, 2)
           isFull == trips # {} /\ pairs # {Max(trips)}
           two == HighestValue(pairs, 2)
           st == Straights(all)
           K == RulesKind(X)
           x == RulesTies(X)
<1>1. /\ all \in SUBSET (2..14) /\ IsFiniteSet(all) /\ Cardinality(all) \in Nat
      /\ quads \subseteq trips /\ trips \subseteq pairs /\ pairs \subseteq all
  BY SomeCards DEF AtLeast
<1>2. trips # {} => IsMax(Max(trips), trips)  BY <1>1, MaxOfRanks
<1>3. ~isFull => \A t \in trips, p \in pairs : t = p
  BY <1>1, <1>2 DEF IsMax
<1>4. Flushes(X) = {} => Steel(X) = {}  BY DEF Steel
<1>5. \A R : Straights(R) \in SUBSET (2..14)  BY DEF Straights
<1>6. Steel(X) \in SUBSET (2..14)  BY <1>5 DEF Steel
<1>7. CASE Steel(X) # {}
  <2>1. K = 8 /\ x = <<Max(Steel(X))>>  BY <1>7 DEF RulesKind, RulesTies
  <2>2. IsMax(Max(Steel(X)), Steel(X))  BY <1>6, <1>7, MaxOfRanks
  <2> QED  BY <2>1, <2>2 DEF RulesMean
<1>8. CASE Steel(X) = {} /\ quads # {}
  <2> DEFINE q == Max(quads)
             k == Max(all \ {q})
  <2>1. K = 7 /\ x = <<q, k>>  BY <1>8 DEF RulesKind, RulesTies
  <2>2. all \ {q} # {}  BY SevenCards
  <2>3. IsMax(q, quads)  BY <1>1, <1>8, MaxOfRanks
  <2>4. all \ {q} \in SUBSET (2..14)  BY <1>1
  <2>5. IsMax(k, all \ {q})
    <3> HIDE DEF q, all
    <3> QED  BY <2>2, <2>4, MaxOfRanks
  <2> HIDE DEF q, k
  <2> QED  BY <1>8, <2>1, <2>3, <2>5 DEF RulesMean
<1>9. CASE Steel(X) = {} /\ quads = {} /\ isFull
  <2> DEFINE t == Max(trips)
             p == Max(pairs \ {t})
  <2>1. K = 6 /\ x = <<t, p>>  BY <1>9 DEF RulesKind, RulesTies
  <2>2. pairs \ {t} # {}  BY <1>1, <1>2, <1>9 DEF IsMax
  <2>3. pairs \ {t} \in SUBSET (2..14)  BY <1>1
  <2>4. IsMax(p, pairs \ {t})
    <3> HIDE DEF t, pairs
    <3> QED  BY <2>2, <2>3, MaxOfRanks
  <2>5. IsMax(t, trips)  BY <1>2, <1>9
  <2> HIDE DEF t, p
  <2> QED  BY <1>9, <2>1, <2>4, <2>5 DEF RulesMean
<1>10. CASE Steel(X) = {} /\ quads = {} /\ ~isFull /\ Flushes(X) # {}
  <2>1. K = 5 /\ x = HighestValue(UNION Flushes(X), 5)
    BY <1>10 DEF RulesKind, RulesTies
  <2> QED  BY <1>3, <1>10, <2>1 DEF RulesMean
<1>11. CASE quads = {} /\ ~isFull /\ Flushes(X) = {} /\ st # {}
  <2>1. K = 4 /\ x = <<Max(st)>>  BY <1>4, <1>11 DEF RulesKind, RulesTies
  <2>2. IsMax(Max(st), st)  BY <1>5, <1>11, MaxOfRanks
  <2> QED  BY <1>3, <1>11, <2>1, <2>2 DEF RulesMean
<1>12. CASE quads = {} /\ ~isFull /\ Flushes(X) = {} /\ st = {} /\ trips # {}
  <2> DEFINE t == Max(trips)
  <2>1. K = 3 /\ x = <<t>> \o HighestValue(all \ trips, 2)
    BY <1>4, <1>12 DEF RulesKind, RulesTies
  <2>2. pairs = {t} /\ trips = {t}  BY <1>1, <1>2, <1>12 DEF IsMax
  <2>3. Cardinality(all \ {t}) >= 4  BY <1>12, <2>2, SevenCards
  <2>4. Cardinality(all \ {t}) \in Nat  BY <1>1, FS_RemoveElement, FS_CardinalityType
  <2>5. Cardinality(all \ {t}) >= 2  BY <2>3, <2>4
  <2> HIDE DEF t
  <2> QED  BY <1>12, <2>1, <2>2, <2>5 DEF RulesMean
<1>13. CASE /\ quads = {} /\ ~isFull /\ Flushes(X) = {} /\ st = {} /\ trips = {}
            /\ Cardinality(pairs) >= 2
  <2>1. K = 2 /\ x = two \o HighestValue(all \ ToSet(two), 1)
    BY <1>4, <1>13 DEF RulesKind, RulesTies
  <2>2. PICK a, b : two = <<a, b>> /\ IsMax(a, pairs) /\ IsMax(b, pairs \ {a})
    BY <1>1, <1>13, HighestFew
  <2>3. ToSet(two) = {a, b}  BY <2>2 DEF ToSet
  <2>4. all \ {a, b} # {} /\ all \ {a, b} \in SUBSET (2..14)  BY <1>1, <1>13, SevenCards
  <2>5. PICK k : IsMax(k, all \ {a, b}) /\ HighestValue(all \ {a, b}, 1) = <<k>>
    BY <2>4, HighestFew
  <2>6. x = <<a, b, k>>
    <3>1. x = <<a, b>> \o <<k>>  BY <2>1, <2>2, <2>3, <2>5
    <3>2. <<a, b>> \o <<k>> = <<a, b, k>>  BY Short
    <3> QED  BY <3>1, <3>2
  <2> QED  BY <1>13, <2>1, <2>2, <2>5, <2>6 DEF RulesMean
<1>14. CASE /\ quads = {} /\ ~isFull /\ Flushes(X) = {} /\ st = {} /\ trips = {}
            /\ ~(Cardinality(pairs) >= 2) /\ pairs # {}
  <2>1. K = 1 /\ x = <<Max(pairs)>> \o HighestValue(all \ pairs, 3)
    BY <1>4, <1>14 DEF RulesKind, RulesTies
  <2>2. PICK p : pairs = {p}
    <3>1. IsFiniteSet(pairs) /\ Cardinality(pairs) \in Nat
      BY <1>1, FS_Subset, FS_CardinalityType
    <3>2. Cardinality(pairs) = 1  BY <1>14, <3>1, FS_EmptySet
    <3> QED  BY <3>1, <3>2, FS_Singleton
  <2>3. Max(pairs) = p  BY <1>1, <1>14, <2>2, MaxOfRanks DEF IsMax
  <2>4. Cardinality(all \ {p}) >= 4  BY <1>14, <2>2, SevenCards
  <2>5. Cardinality(all \ {p}) \in Nat  BY <1>1, FS_RemoveElement, FS_CardinalityType
  <2>6. Cardinality(all \ {p}) >= 3  BY <2>4, <2>5
  <2> QED  BY <1>14, <2>1, <2>2, <2>3, <2>6 DEF RulesMean
<1>15. CASE /\ quads = {} /\ Flushes(X) = {} /\ st = {} /\ pairs = {}
  <2>1. trips = {} /\ ~isFull  BY <1>1, <1>15
  <2>2. ~(Cardinality(pairs) >= 2)  BY <1>15, FS_EmptySet
  <2>3. K = 0 /\ x = HighestValue(all, 5)
    BY <1>4, <1>15, <2>1, <2>2 DEF RulesKind, RulesTies
  <2>4. Cardinality(all) >= 5  BY <1>15, SevenCards
  <2> QED  BY <1>15, <2>3, <2>4 DEF RulesMean
<1> QED
  <2>1. \/ Steel(X) # {}
        \/ Steel(X) = {} /\ quads # {}
        \/ Steel(X) = {} /\ quads = {} /\ isFull
        \/ Steel(X) = {} /\ quads = {} /\ ~isFull /\ Flushes(X) # {}
        \/ quads = {} /\ ~isFull /\ Flushes(X) = {} /\ st # {}
        \/ quads = {} /\ ~isFull /\ Flushes(X) = {} /\ st = {} /\ trips # {}
        \/ quads = {} /\ ~isFull /\ Flushes(X) = {} /\ st = {} /\ trips = {}
    BY <1>4
  <2> HIDE DEF all, quads, trips, pairs, st, K, x
  <2> QED  BY <2>1, <1>7, <1>8, <1>9, <1>10, <1>11, <1>12, <1>13, <1>14, <1>15
         DEF K, x

-----------------------------------------------------------------------------
(***************************************************************************)
(* No five of the cards beat what the rules make of all.                    *)
(***************************************************************************)
\* As long as g agrees with x it is nowhere higher.
NoHigher(g, x) ==
  /\ Len(g) = Len(x)
  /\ \A i \in 1..Len(x) : (\A j \in 1..(i - 1) : g[j] = x[j]) => g[i] <= x[i]

\* A lower kind, or the same one with ties that are no higher, does not beat.
LEMMA Compared ==
  ASSUME NEW k \in Int, NEW K \in Int, NEW g \in Seq(Int), NEW x \in Seq(Int),
         k < K \/ (k = K /\ NoHigher(g, x))
  PROVE  ~Beats(<<k>> \o g, <<K>> \o x)
<1> DEFINE a == <<k>> \o g
           b == <<K>> \o x
<1>1. /\ <<k>> \in Seq(Int) /\ Len(<<k>>) = 1 /\ <<k>>[1] = k
      /\ <<K>> \in Seq(Int) /\ Len(<<K>>) = 1 /\ <<K>>[1] = K
  OBVIOUS
<1>2. /\ a \in Seq(Int) /\ Len(a) = 1 + Len(g) /\ a[1] = k
      /\ b \in Seq(Int) /\ Len(b) = 1 + Len(x) /\ b[1] = K
      /\ \A i \in 1..Len(g) : a[1 + i] = g[i]
      /\ \A i \in 1..Len(x) : b[1 + i] = x[i]
  BY <1>1, Concat
<1> HIDE DEF a, b
<1>3. SUFFICES ASSUME NEW i \in 1..Len(a) \cap 1..Len(b), a[i] > b[i],
                      \A j \in 1..(i - 1) : a[j] = b[j]
               PROVE  FALSE
  BY DEF Beats, a, b
<1>4. i \in Nat /\ i >= 1 /\ i <= Len(a) /\ i <= Len(b) /\ Len(g) \in Nat /\ Len(x) \in Nat
  BY <1>2
<1>5. CASE i = 1  BY <1>2, <1>3, <1>5
<1>6. CASE i > 1
  <2>1. 1 \in 1..(i - 1)  BY <1>4, <1>6
  <2>2. k = K  BY <1>2, <1>3, <2>1
  <2>3. NoHigher(g, x)  BY <2>2
  <2>4. i - 1 \in 1..Len(x) /\ i - 1 \in 1..Len(g)  BY <1>2, <1>4, <1>6
  <2>5. a[i] = g[i - 1] /\ b[i] = x[i - 1]
    <3>1. 1 + (i - 1) = i  BY <1>4
    <3> QED  BY <1>2, <2>4, <3>1
  <2>6. ASSUME NEW j \in 1..((i - 1) - 1) PROVE g[j] = x[j]
    <3>0. j \in Nat /\ j >= 1 /\ j <= i - 2  BY <1>4
    <3>1. 1 + j \in 1..(i - 1) /\ j \in 1..Len(g) /\ j \in 1..Len(x)
      <4>1. 1 + j \in 1..(i - 1)  BY <1>4, <3>0
      <4>2. i - 1 <= Len(g) /\ i - 1 <= Len(x)  BY <1>4, <2>4
      <4> QED  BY <1>4, <3>0, <4>1, <4>2
    <3>2. a[1 + j] = b[1 + j]  BY <1>3, <3>1
    <3> QED  BY <1>2, <3>1, <3>2
  <2>7. g[i - 1] <= x[i - 1]  BY <2>3, <2>4, <2>6 DEF NoHigher
  <2>8. g[i - 1] \in Int /\ x[i - 1] \in Int  BY <2>4
  <2> QED  BY <1>3, <2>5, <2>7, <2>8
<1> QED  BY <1>4, <1>5, <1>6

\* Different ranks of a set are never above its highest ones.
LEMMA Greedy ==
  ASSUME NEW R \in SUBSET (2..14), NEW n \in Nat, n <= Cardinality(R),
         NEW g, \A i \in 1..n : g[i] \in R,
         \A i, j \in 1..n : i < j => g[i] # g[j]
  PROVE  \A i \in 1..n :
           (\A j \in 1..(i - 1) : g[j] = HighestValue(R, n)[j])
             => g[i] <= HighestValue(R, n)[i]
<1> DEFINE h == HighestValue(R, n)
<1>1. /\ h \in Seq(R) /\ Len(h) = n
      /\ \A i \in 1..n : \A w \in R : w > h[i] => \E j \in 1..(i - 1) : h[j] = w
  BY HighestValueIs
<1> HIDE DEF h
<1>2. ASSUME NEW i \in 1..n, \A j \in 1..(i - 1) : g[j] = h[j] PROVE g[i] <= h[i]
  <2>0. h[i] \in R  BY <1>1, ElementOfSeq
  <2>1. h[i] \in 2..14 /\ g[i] \in R /\ g[i] \in 2..14  BY <2>0
  <2>2. ASSUME g[i] > h[i] PROVE FALSE
    <3>1. PICK j \in 1..(i - 1) : h[j] = g[i]  BY <1>1, <2>1, <2>2
    <3>2. g[j] = g[i] /\ j \in 1..n /\ j < i  BY <1>2, <3>1
    <3> QED  BY <3>2
  <2> QED  BY <2>1, <2>2
<1> QED  BY <1>2 DEF h

\* What five of the cards are, the rules see in all of them.
LEMMA FiveSeen ==
  ASSUME NEW X \in SUBSET Cards, Cardinality(X) = 7,
         NEW five \in SUBSET X, Cardinality(five) = 5
  PROVE  LET c == ByCount(five)
             n == Cardinality(Values(five))
             kind == KindOf(five)
             straight == StraightHigh(Values(five))
         IN  /\ Values(five) \subseteq Values(X)
             /\ kind \in 0..8
             /\ c \in Seq(Values(five)) /\ Len(c) = n
             /\ \A i \in 1..n : c[i] \in Values(five)
             /\ \A i, j \in 1..n : i < j => c[i] # c[j]
             /\ kind = 8 => \E t \in Steel(X) : straight = {t}
             /\ kind = 4 => \E t \in Straights(Values(X)) : straight = {t}
             /\ kind \notin {4, 8} => straight = {}
             /\ kind = 7 => n = 2 /\ c[1] \in AtLeast(X, 4)
             /\ kind = 6 => n = 2 /\ c[1] \in AtLeast(X, 3) /\ c[2] \in AtLeast(X, 2)
             /\ kind = 5 => n = 5 /\ Values(five) \subseteq UNION Flushes(X) /\ Flushes(X) # {}
             /\ kind = 3 => n = 3 /\ c[1] \in AtLeast(X, 3)
             /\ kind = 2 => n = 3 /\ c[1] \in AtLeast(X, 2) /\ c[2] \in AtLeast(X, 2)
             /\ kind = 1 => n = 4 /\ c[1] \in AtLeast(X, 2)
             /\ kind = 0 => n = 5
<1> DEFINE V == Values(five)
           c == ByCount(five)
           n == Cardinality(V)
           h(i) == Held(five, c[i])
           kind == KindOf(five)
           st == StraightHigh(V)
<1>1. five \in SUBSET Cards /\ V \subseteq Values(X) /\ \A v : Held(five, v) <= Held(X, v)
  BY FewerCards
<1>2. /\ V \in SUBSET (2..14) /\ n \in Nat
      /\ \A v : Held(five, v) \in 0..4 /\ Held(X, v) \in 0..4
  BY <1>1, SomeCards
<1>3. /\ c \in Seq(V) /\ Len(c) = n
      /\ \A i, j \in 1..n : i < j => c[i] # c[j]
  BY <1>1, ByCountLists
<1>4. \A i \in 1..n : c[i] \in V  BY <1>3, ElementOfSeq
<1>5. \A i \in 1..n : \A m \in 1..4 : h(i) >= m => c[i] \in AtLeast(X, m)
  <2> SUFFICES ASSUME NEW i \in 1..n, NEW m \in 1..4, h(i) >= m
               PROVE  c[i] \in AtLeast(X, m)
    OBVIOUS
  <2>1. Held(X, c[i]) >= m  BY <1>1, <1>2
  <2>2. c[i] \in Values(X)  BY <1>1, <1>4
  <2> QED  BY <2>1, <2>2 DEF AtLeast
<1>6. \/ n = 2 /\ h(1) = 4 /\ h(2) = 1
      \/ n = 2 /\ h(1) = 3 /\ h(2) = 2
      \/ n = 3 /\ h(1) = 3 /\ h(2) = 1
      \/ n = 3 /\ h(1) = 2 /\ h(2) = 2
      \/ n = 4 /\ h(1) = 2 /\ h(2) = 1
      \/ n = 5 /\ h(1) = 1 /\ h(2) = 1
  BY <1>1, FiveCards DEF FiveShape
<1>7. kind = IF st # {} THEN IF IsFlush(five) THEN 8 ELSE 4
             ELSE IF n = 2 THEN IF h(1) = 4 THEN 7 ELSE 6
             ELSE IF n = 3 THEN IF h(1) = 3 THEN 3 ELSE 2
             ELSE IF n = 4 THEN 1
             ELSE IF IsFlush(five) THEN 5 ELSE 0
  BY DEF KindOf
<1>8. \A R \in SUBSET (2..14) : V \subseteq R /\ st # {} =>
        \E t \in Straights(R) : st = {t}
  BY <1>2, StraightIs
<1>9. IsFlush(five) => \E F \in Flushes(X) : V \subseteq F /\ F \in SUBSET (2..14)
  <2> SUFFICES ASSUME IsFlush(five)
               PROVE  \E F \in Flushes(X) : V \subseteq F /\ F \in SUBSET (2..14)
    OBVIOUS
  <2>0. five # {}  BY FS_EmptySet
  <2>1. PICK s \in 1..4 : \A d \in five : d.suit = s  BY <1>1, <2>0, FlushIs
  <2> DEFINE Y == {d \in X : d.suit = s}
  <2>2. five \in SUBSET Y /\ Y \in SUBSET Cards /\ IsFiniteSet(Y)  BY <2>1, SomeCards
  <2>3. Cardinality(five) <= Cardinality(Y) /\ V \subseteq Values(Y)
        /\ Values(Y) \in SUBSET (2..14)
    <3> HIDE DEF Y
    <3> QED  BY <2>2, FewerCards, SomeCards
  <2>4. s \in {d.suit : d \in X}  BY <2>0, <2>1
  <2>5. s \in FlushSuits(X)  BY <2>3, <2>4 DEF FlushSuits
  <2>6. InSuit(X, s) \in Flushes(X) /\ InSuit(X, s) = Values(Y)
    BY <2>5 DEF Flushes, InSuit
  <2> QED  BY <2>3, <2>6
<1>10. Values(X) \in SUBSET (2..14)  BY SomeCards
<1> HIDE DEF V, c, n, h, kind, st
<1>11. kind = 8 => \E t \in Steel(X) : st = {t}
  <2> SUFFICES ASSUME kind = 8 PROVE \E t \in Steel(X) : st = {t}  OBVIOUS
  <2>1. st # {} /\ IsFlush(five)  BY <1>7
  <2>2. PICK F \in Flushes(X) : V \subseteq F /\ F \in SUBSET (2..14)  BY <1>9, <2>1
  <2>3. PICK t \in Straights(F) : st = {t}  BY <1>8, <2>1, <2>2
  <2> QED  BY <2>2, <2>3 DEF Steel
<1>12. kind = 4 => \E t \in Straights(Values(X)) : st = {t}
  BY <1>1, <1>7, <1>8, <1>10
<1>13. kind \in 0..8 /\ (kind \notin {4, 8} => st = {})  BY <1>7
<1>14. kind = 5 => n = 5 /\ V \subseteq UNION Flushes(X) /\ Flushes(X) # {}
  <2> SUFFICES ASSUME kind = 5
               PROVE  n = 5 /\ V \subseteq UNION Flushes(X) /\ Flushes(X) # {}
    OBVIOUS
  <2>1. n = 5 /\ IsFlush(five)  BY <1>6, <1>7
  <2> QED  BY <1>9, <2>1
<1>15. /\ kind = 7 => n = 2 /\ h(1) = 4
       /\ kind = 6 => n = 2 /\ h(1) = 3 /\ h(2) = 2
       /\ kind = 3 => n = 3 /\ h(1) = 3
       /\ kind = 2 => n = 3 /\ h(1) = 2 /\ h(2) = 2
       /\ kind = 1 => n = 4 /\ h(1) = 2
       /\ kind = 0 => n = 5
  BY <1>6, <1>7
<1>16. /\ 1 \in 1..4 /\ 2 \in 1..4 /\ 3 \in 1..4 /\ 4 \in 1..4
       /\ n >= 2 => 1 \in 1..n /\ 2 \in 1..n
  BY <1>2
<1>17. /\ kind = 7 => n = 2 /\ c[1] \in AtLeast(X, 4)
       /\ kind = 6 => n = 2 /\ c[1] \in AtLeast(X, 3) /\ c[2] \in AtLeast(X, 2)
       /\ kind = 3 => n = 3 /\ c[1] \in AtLeast(X, 3)
       /\ kind = 2 => n = 3 /\ c[1] \in AtLeast(X, 2) /\ c[2] \in AtLeast(X, 2)
       /\ kind = 1 => n = 4 /\ c[1] \in AtLeast(X, 2)
  BY <1>5, <1>15, <1>16
<1> QED
  BY <1>1, <1>3, <1>4, <1>11, <1>12, <1>13, <1>14, <1>15, <1>17
     DEF V, c, n, kind, st

\* A sequence of some things is one of more things.
LEMMA SeqWider ==
  ASSUME NEW S, NEW T, S \subseteq T, NEW s \in Seq(S)
  PROVE  s \in Seq(T)
OBVIOUS

\* After one rank that agrees, different ranks are not above the highest ones.
LEMMA TieAfter ==
  ASSUME NEW R \in SUBSET (2..14), NEW n \in Nat, n <= Cardinality(R),
         NEW t \in Int, NEW c \in Seq(Int), Len(c) = n + 1, c[1] = t,
         \A i \in 2..(n + 1) : c[i] \in R,
         \A i, j \in 1..(n + 1) : i < j => c[i] # c[j]
  PROVE  /\ NoHigher(c, <<t>> \o HighestValue(R, n))
         /\ <<t>> \o HighestValue(R, n) \in Seq(Int)
<1> DEFINE h == HighestValue(R, n)
           x == <<t>> \o h
           g == [i \in 1..n |-> c[i + 1]]
<1>0. h \in Seq(R) /\ Len(h) = n  BY HighestValueIs
<1>1. h \in Seq(Int)
  <2>1. R \subseteq Int  OBVIOUS
  <2> HIDE DEF h
  <2> QED  BY <1>0, <2>1, SeqWider
<1>2. <<t>> \in Seq(Int) /\ Len(<<t>>) = 1 /\ <<t>>[1] = t  OBVIOUS
<1> HIDE DEF h
<1>3. /\ x \in Seq(Int) /\ Len(x) = n + 1 /\ x[1] = t
      /\ \A i \in 1..n : x[1 + i] = h[i]
  BY <1>0, <1>1, <1>2, Concat
<1> HIDE DEF x
<1>4. \A i \in 1..n : g[i] = c[i + 1] /\ g[i] \in R /\ i + 1 \in 1..(n + 1)  OBVIOUS
<1>5. \A i, j \in 1..n : i < j => g[i] # g[j]
  <2> HIDE DEF g
  <2> QED  BY <1>4
<1> HIDE DEF g
<1>6. \A i \in 1..n : (\A j \in 1..(i - 1) : g[j] = h[j]) => g[i] <= h[i]
  BY <1>4, <1>5, Greedy DEF h
<1>7. ASSUME NEW i \in 1..(n + 1), \A j \in 1..(i - 1) : c[j] = x[j]
      PROVE  c[i] <= x[i]
  <2>1. CASE i = 1  BY <1>3, <2>1
  <2>2. CASE i > 1
    <3>1. i - 1 \in 1..n /\ (i - 1) + 1 = i /\ 1 + (i - 1) = i  BY <2>2
    <3>2. ASSUME NEW j \in 1..((i - 1) - 1) PROVE g[j] = h[j]
      <4>0. j \in Nat /\ j >= 1 /\ j <= i - 2  BY <2>2
      <4>1. j \in 1..n /\ j + 1 \in 1..(i - 1) /\ 1 + j = j + 1  BY <3>1, <4>0
      <4>2. c[j + 1] = x[j + 1]  BY <1>7, <4>1
      <4> QED  BY <1>3, <1>4, <4>1, <4>2
    <3>3. g[i - 1] <= h[i - 1]  BY <1>6, <3>1, <3>2
    <3> QED  BY <1>3, <1>4, <3>1, <3>3
  <2> QED  BY <2>1, <2>2
<1>8. NoHigher(c, x)  BY <1>3, <1>7 DEF NoHigher
<1> QED  BY <1>3, <1>8 DEF x, h

\* Nothing that five of the cards are beats what the rules make of all seven.
LEMMA NoneBeatsRules ==
  ASSUME NEW X \in SUBSET Cards, Cardinality(X) = 7,
         NEW five \in SUBSET X, Cardinality(five) = 5
  PROVE  ~Beats(Evaluate5(five), ByTheRules(X))
<1> DEFINE V == Values(five)
           c == ByCount(five)
           n == Cardinality(V)
           kind == KindOf(five)
           st == StraightHigh(V)
           all == Values(X)
           quads == AtLeast(X, 4)
           trips == AtLeast(X, 3)
           pairs == AtLeast(X, 2)
           K == RulesKind(X)
           x == RulesTies(X)
<1>1. five \in SUBSET Cards  BY FewerCards
<1>2. /\ V \subseteq all /\ all \in SUBSET (2..14) /\ n \in Nat
      /\ quads \subseteq trips /\ trips \subseteq pairs /\ pairs \subseteq all
      /\ Cardinality(all) \in Nat
  BY <1>1, SomeCards, FewerCards DEF AtLeast
<1>3. /\ kind \in 0..8
      /\ c \in Seq(V) /\ Len(c) = n
      /\ \A i \in 1..n : c[i] \in V
      /\ \A i, j \in 1..n : i < j => c[i] # c[j]
      /\ kind = 8 => \E t \in Steel(X) : st = {t}
      /\ kind = 4 => \E t \in Straights(all) : st = {t}
      /\ kind \notin {4, 8} => st = {}
      /\ kind = 7 => n = 2 /\ c[1] \in quads
      /\ kind = 6 => n = 2 /\ c[1] \in trips /\ c[2] \in pairs
      /\ kind = 5 => n = 5 /\ V \subseteq UNION Flushes(X) /\ Flushes(X) # {}
      /\ kind = 3 => n = 3 /\ c[1] \in trips
      /\ kind = 2 => n = 3 /\ c[1] \in pairs /\ c[2] \in pairs
      /\ kind = 1 => n = 4 /\ c[1] \in pairs
      /\ kind = 0 => n = 5
  BY FiveSeen
<1>4. /\ \A t : st = {t} => Evaluate5(five) = <<kind>> \o <<t>>
      /\ st = {} => Evaluate5(five) = <<kind>> \o c
  BY <1>1, Evaluates
<1>5. ByTheRules(X) = <<K>> \o x  BY RulesParts
<1>6. RulesMean(X, K, x)  BY RulesAre
<1>7. /\ Flushes(X) = {} => Steel(X) = {}
      /\ \A R : Straights(R) \in SUBSET (5..14)
      /\ Steel(X) \in SUBSET (5..14)
  BY DEF Steel, Straights
<1>8. \A i \in 1..n : c[i] \in 2..14  BY <1>2, <1>3
<1>9. c \in Seq(Int)
  <2>1. V \subseteq Int  BY <1>2
  <2> HIDE DEF V, c
  <2> QED  BY <1>3, <2>1, SeqWider
<1> HIDE DEF V, c, n, kind, st, all, quads, trips, pairs, K, x
<1>10. ASSUME NEW g \in Seq(Int), Evaluate5(five) = <<kind>> \o g, x \in Seq(Int),
              K \in Int, kind < K \/ (kind = K /\ NoHigher(g, x))
       PROVE  ~Beats(Evaluate5(five), ByTheRules(X))
  <2>1. kind \in Int  BY <1>3
  <2> QED  BY <1>5, <1>10, <2>1, Compared
<1>11. \E g \in Seq(Int) : Evaluate5(five) = <<kind>> \o g
         /\ (st = {} => g = c) /\ \A t : st = {t} => g = <<t>>
  <2>1. CASE st = {}  BY <1>4, <1>9, <2>1
  <2>2. CASE st # {}
    <3>1. PICK t \in Int : st = {t}  BY <1>3, <1>7, <2>2
    <3>2. <<t>> \in Seq(Int)  OBVIOUS
    <3>3. \A u : st = {u} => u = t  BY <3>1
    <3>4. Evaluate5(five) = <<kind>> \o <<t>>  BY <1>4, <3>1
    <3> QED  BY <2>2, <3>2, <3>3, <3>4
  <2> QED  BY <2>1, <2>2
<1>12. PICK g \in Seq(Int) : Evaluate5(five) = <<kind>> \o g
         /\ (st = {} => g = c) /\ \A t : st = {t} => g = <<t>>
  BY <1>11
<1>12a. ASSUME x \in Seq(Int), K \in Int, kind = K, NoHigher(g, x)
        PROVE  ~Beats(Evaluate5(five), ByTheRules(X))
  BY <1>10, <1>12, <1>12a
<1>12b. ASSUME x \in Seq(Int), K \in Int, kind < K
        PROVE  ~Beats(Evaluate5(five), ByTheRules(X))
  BY <1>10, <1>12, <1>12b
<1>13. \A t, u \in Int : t <= u => NoHigher(<<t>>, <<u>>)  BY DEF NoHigher
<1>14. \A t, u, k, m \in Int : t <= u /\ (t = u => k <= m)
                                 => NoHigher(<<t, k>>, <<u, m>>)
  BY DEF NoHigher
<1>15. CASE K = 8 /\ \E t : IsMax(t, Steel(X)) /\ x = <<t>>
  <2>1. PICK t : IsMax(t, Steel(X)) /\ x = <<t>>  BY <1>15
  <2>2. t \in Int  BY <1>7, <2>1 DEF IsMax
  <2>3. x \in Seq(Int)  BY <2>1, <2>2
  <2>4. CASE kind = 8
    <3>1. PICK u \in Steel(X) : st = {u}  BY <1>3, <2>4
    <3>2. u \in Int /\ u <= t /\ g = <<u>>
      <4>1. u \in Int  BY <1>7, <3>1
      <4>2. u <= t  BY <2>1, <3>1 DEF IsMax
      <4> QED  BY <1>12, <3>1, <4>1, <4>2
    <3>3. NoHigher(g, x)  BY <1>13, <2>1, <2>2, <3>2
    <3>9. K \in Int /\ kind = K  BY <1>15, <2>4
    <3> QED  BY <1>12a, <2>3, <3>3, <3>9
  <2>5. CASE kind # 8
    <3>1. kind < K /\ K \in Int  BY <1>3, <1>15, <2>5
    <3> QED  BY <1>12b, <2>3, <3>1
  <2> QED  BY <2>4, <2>5
<1>16. CASE /\ K = 7 /\ Steel(X) = {}
            /\ \E q, k : IsMax(q, quads) /\ IsMax(k, all \ {q}) /\ x = <<q, k>>
  <2>1. PICK q, k : IsMax(q, quads) /\ IsMax(k, all \ {q}) /\ x = <<q, k>>  BY <1>16
  <2>2. q \in Int /\ k \in Int  BY <1>2, <2>1 DEF IsMax
  <2>3. x \in Seq(Int)  BY <2>1, <2>2
  <2>4. CASE kind = 7
    <3>1. g = c /\ n = 2 /\ c[1] \in quads  BY <1>3, <1>12, <2>4
    <3>2. c = <<c[1], c[2]>> /\ c[1] \in Int /\ c[2] \in Int /\ c[1] # c[2]
          /\ c[2] \in all
      BY <1>2, <1>3, <1>9, <3>1
    <3>3. c[1] <= q /\ (c[1] = q => c[2] <= k)  BY <2>1, <3>1, <3>2 DEF IsMax
    <3>4. NoHigher(g, x)  BY <1>14, <2>1, <2>2, <3>1, <3>2, <3>3
    <3>9. K \in Int /\ kind = K  BY <1>16, <2>4
    <3> QED  BY <1>12a, <2>3, <3>4, <3>9
  <2>5. CASE kind # 7
    <3>1. kind # 8  BY <1>3, <1>16
    <3>2. kind < K /\ K \in Int  BY <1>3, <1>16, <2>5, <3>1
    <3> QED  BY <1>12b, <2>3, <3>2
  <2> QED  BY <2>4, <2>5
<1>17. CASE /\ K = 6 /\ Steel(X) = {} /\ quads = {}
            /\ \E t, p : IsMax(t, trips) /\ IsMax(p, pairs \ {t}) /\ x = <<t, p>>
  <2>1. PICK t, p : IsMax(t, trips) /\ IsMax(p, pairs \ {t}) /\ x = <<t, p>>  BY <1>17
  <2>2. t \in Int /\ p \in Int  BY <1>2, <2>1 DEF IsMax
  <2>3. x \in Seq(Int)  BY <2>1, <2>2
  <2>4. CASE kind = 6
    <3>1. g = c /\ n = 2 /\ c[1] \in trips /\ c[2] \in pairs  BY <1>3, <1>12, <2>4
    <3>2. c = <<c[1], c[2]>> /\ c[1] \in Int /\ c[2] \in Int /\ c[1] # c[2]
      BY <1>2, <1>3, <1>9, <3>1
    <3>3. c[1] <= t /\ (c[1] = t => c[2] <= p)  BY <2>1, <3>1, <3>2 DEF IsMax
    <3>4. NoHigher(g, x)  BY <1>14, <2>1, <2>2, <3>1, <3>2, <3>3
    <3>9. K \in Int /\ kind = K  BY <1>17, <2>4
    <3> QED  BY <1>12a, <2>3, <3>4, <3>9
  <2>5. CASE kind # 6
    <3>1. kind # 8 /\ kind # 7  BY <1>3, <1>17
    <3>2. kind < K /\ K \in Int  BY <1>3, <1>17, <2>5, <3>1
    <3> QED  BY <1>12b, <2>3, <3>2
  <2> QED  BY <2>4, <2>5
<1>18. ASSUME \A t \in trips, p \in pairs : t = p PROVE kind # 6
  <2> SUFFICES ASSUME kind = 6 PROVE FALSE  OBVIOUS
  <2>1. n = 2 /\ c[1] \in trips /\ c[2] \in pairs  BY <1>3
  <2>2. c[1] # c[2]  BY <1>3, <2>1
  <2> QED  BY <1>18, <2>1, <2>2
<1>19. CASE /\ K = 5 /\ Steel(X) = {} /\ quads = {} /\ \A t \in trips, p \in pairs : t = p
            /\ Flushes(X) # {} /\ x = HighestValue(UNION Flushes(X), 5)
  <2>1. PICK F : UNION Flushes(X) = F /\ F \in SUBSET (2..14) /\ Cardinality(F) >= 5
                 /\ IsFiniteSet(F)
    BY <1>19, FlushesAre
  <2>2. Cardinality(F) \in Nat /\ 5 <= Cardinality(F)  BY <2>1, FS_CardinalityType
  <2>3. x \in Seq(F) /\ Len(x) = 5  BY <1>19, <2>1, <2>2, HighestValueIs
  <2>4. x \in Seq(Int)
    <3>1. F \subseteq Int  BY <2>1
    <3> QED  BY <2>3, <3>1, SeqWider
  <2>5. CASE kind = 5
    <3>1. g = c /\ n = 5 /\ V \subseteq F  BY <1>3, <1>12, <2>1, <2>5
    <3>2. \A i \in 1..5 : c[i] \in F  BY <1>3, <3>1
    <3>3. \A i, j \in 1..5 : i < j => c[i] # c[j]  BY <1>3, <3>1
    <3>4. \A i \in 1..5 : (\A j \in 1..(i - 1) : c[j] = x[j]) => c[i] <= x[i]
      BY <1>19, <2>1, <2>2, <3>2, <3>3, Greedy
    <3>5. NoHigher(g, x)  BY <1>3, <2>3, <3>1, <3>4 DEF NoHigher
    <3>9. K \in Int /\ kind = K  BY <1>19, <2>5
    <3> QED  BY <1>12a, <2>4, <3>5, <3>9
  <2>6. CASE kind # 5
    <3>1. kind # 8 /\ kind # 7 /\ kind # 6  BY <1>3, <1>18, <1>19
    <3>2. kind < K /\ K \in Int  BY <1>3, <1>19, <2>6, <3>1
    <3> QED  BY <1>12b, <2>4, <3>2
  <2> QED  BY <2>5, <2>6
<1>20. CASE /\ K = 4 /\ quads = {} /\ (\A t \in trips, p \in pairs : t = p)
            /\ Flushes(X) = {} /\ \E t : IsMax(t, Straights(all)) /\ x = <<t>>
  <2>1. PICK t : IsMax(t, Straights(all)) /\ x = <<t>>  BY <1>20
  <2>2. t \in Int  BY <1>7, <2>1 DEF IsMax
  <2>3. x \in Seq(Int)  BY <2>1, <2>2
  <2>4. CASE kind = 4
    <3>1. PICK u \in Straights(all) : st = {u}  BY <1>3, <2>4
    <3>2. u \in Int /\ u <= t /\ g = <<u>>
      <4>1. u \in Int  BY <1>7, <3>1
      <4>2. u <= t  BY <2>1, <3>1 DEF IsMax
      <4> QED  BY <1>12, <3>1, <4>1, <4>2
    <3>3. NoHigher(g, x)  BY <1>13, <2>1, <2>2, <3>2
    <3>9. K \in Int /\ kind = K  BY <1>20, <2>4
    <3> QED  BY <1>12a, <2>3, <3>3, <3>9
  <2>5. CASE kind # 4
    <3>1. kind # 8 /\ kind # 7 /\ kind # 6 /\ kind # 5  BY <1>3, <1>7, <1>18, <1>20
    <3>2. kind < K /\ K \in Int  BY <1>3, <1>20, <2>5, <3>1
    <3> QED  BY <1>12b, <2>3, <3>2
  <2> QED  BY <2>4, <2>5
<1>21. CASE /\ K = 3 /\ quads = {} /\ Flushes(X) = {} /\ Straights(all) = {}
            /\ \E t : /\ trips = {t} /\ pairs = {t} /\ Cardinality(all \ {t}) >= 2
                      /\ x = <<t>> \o HighestValue(all \ {t}, 2)
  <2>1. PICK t : /\ trips = {t} /\ pairs = {t} /\ Cardinality(all \ {t}) >= 2
                 /\ x = <<t>> \o HighestValue(all \ {t}, 2)
    BY <1>21
  <2>2. t \in Int /\ all \ {t} \in SUBSET (2..14)  BY <1>2, <2>1
  <2>3. x \in Seq(Int)
    <3>1. HighestValue(all \ {t}, 2) \in Seq(all \ {t})  BY <2>1, <2>2, HighestValueIs
    <3>1a. all \ {t} \subseteq Int
      <4>1. 2..14 \subseteq Int  OBVIOUS
      <4> QED  BY <2>2, <4>1, Zenon
    <3>2. HighestValue(all \ {t}, 2) \in Seq(Int)  BY <3>1, <3>1a, SeqWider
    <3>3. <<t>> \in Seq(Int)  BY <2>2
    <3> QED  BY <2>1, <3>2, <3>3, Concat
  <2>4. CASE kind = 3
    <3>1. g = c /\ n = 3 /\ c[1] = t  BY <1>3, <1>12, <2>1, <2>4
    <3>2. \A i, j \in 1..(2 + 1) : i < j => c[i] # c[j]  BY <1>3, <3>1
    <3>3. \A i \in 2..(2 + 1) : c[i] \in all \ {t}
      <4> SUFFICES ASSUME NEW i \in 2..(2 + 1) PROVE c[i] \in all \ {t}  OBVIOUS
      <4>1. i \in 1..n /\ 1 \in 1..n /\ 1 < i  BY <3>1
      <4> QED  BY <1>2, <1>3, <3>1, <4>1
    <3>4. 2 \in Nat /\ 2 <= Cardinality(all \ {t}) /\ Len(c) = 2 + 1
      BY <1>3, <2>1, <3>1
    <3>5. NoHigher(g, x)  BY <1>9, <2>1, <2>2, <3>1, <3>2, <3>3, <3>4, TieAfter
    <3>9. K \in Int /\ kind = K  BY <1>21, <2>4
    <3> QED  BY <1>12a, <2>3, <3>5, <3>9
  <2>5. CASE kind # 3
    <3>1. \A a \in trips, p \in pairs : a = p  BY <2>1
    <3>2. kind # 8 /\ kind # 7 /\ kind # 6 /\ kind # 5 /\ kind # 4
      BY <1>3, <1>7, <1>18, <1>21, <3>1
    <3>3. kind < K /\ K \in Int  BY <1>3, <1>21, <2>5, <3>2
    <3> QED  BY <1>12b, <2>3, <3>3
  <2> QED  BY <2>4, <2>5
<1>22. CASE /\ K = 2 /\ trips = {} /\ Flushes(X) = {} /\ Straights(all) = {}
            /\ Cardinality(pairs) >= 2
            /\ \E a, b : /\ IsMax(a, pairs) /\ IsMax(b, pairs \ {a})
                         /\ \E k : IsMax(k, all \ {a, b}) /\ x = <<a, b, k>>
  <2>1. PICK a, b, k : /\ IsMax(a, pairs) /\ IsMax(b, pairs \ {a})
                       /\ IsMax(k, all \ {a, b}) /\ x = <<a, b, k>>
    BY <1>22
  <2>2. a \in Int /\ b \in Int /\ k \in Int  BY <1>2, <2>1 DEF IsMax
  <2>3. x \in Seq(Int)  BY <2>1, <2>2
  <2>4. CASE kind = 2
    <3>1. g = c /\ n = 3 /\ c[1] \in pairs /\ c[2] \in pairs  BY <1>3, <1>12, <2>4
    <3>2. 1 \in 1..3 /\ 2 \in 1..3 /\ 3 \in 1..3  OBVIOUS
    <3>3. c[1] # c[2] /\ c[1] # c[3] /\ c[2] # c[3] /\ c[3] \in all
      <4>1. c[1] # c[2] /\ c[1] # c[3] /\ c[2] # c[3]  BY <1>3, <3>1, <3>2
      <4>2. c[3] \in V  BY <1>3, <3>1, <3>2
      <4> QED  BY <1>2, <4>1, <4>2
    <3>4. /\ c[1] <= a /\ (c[1] = a => c[2] <= b)
          /\ c[1] = a /\ c[2] = b => c[3] <= k
      BY <2>1, <3>1, <3>3 DEF IsMax
    <3>5. Len(g) = 3 /\ Len(x) = 3 /\ x[1] = a /\ x[2] = b /\ x[3] = k
      BY <1>3, <2>1, <3>1
    <3>6. NoHigher(g, x)
      <4> SUFFICES ASSUME NEW i \in 1..3, \A j \in 1..(i - 1) : c[j] = x[j]
                   PROVE  c[i] <= x[i]
        BY <3>1, <3>5 DEF NoHigher
      <4>1. CASE i = 1  BY <3>4, <3>5, <4>1
      <4>2. CASE i = 2
        <5>1. 1 \in 1..(i - 1)  BY <4>2
        <5> QED  BY <3>4, <3>5, <4>2, <5>1
      <4>3. CASE i = 3
        <5>1. 1 \in 1..(i - 1) /\ 2 \in 1..(i - 1)  BY <4>3
        <5> QED  BY <3>4, <3>5, <4>3, <5>1
      <4> QED  BY <4>1, <4>2, <4>3
    <3>9. K \in Int /\ kind = K  BY <1>22, <2>4
    <3> QED  BY <1>12a, <2>3, <3>6, <3>9
  <2>5. CASE kind # 2
    <3>1. kind # 8 /\ kind # 7 /\ kind # 6 /\ kind # 5 /\ kind # 4 /\ kind # 3
      BY <1>2, <1>3, <1>7, <1>22
    <3>2. kind < K /\ K \in Int  BY <1>3, <1>22, <2>5, <3>1
    <3> QED  BY <1>12b, <2>3, <3>2
  <2> QED  BY <2>4, <2>5
<1>23. CASE /\ K = 1 /\ trips = {} /\ Flushes(X) = {} /\ Straights(all) = {}
            /\ \E p : /\ pairs = {p} /\ Cardinality(all \ {p}) >= 3
                      /\ x = <<p>> \o HighestValue(all \ {p}, 3)
  <2>1. PICK p : /\ pairs = {p} /\ Cardinality(all \ {p}) >= 3
                 /\ x = <<p>> \o HighestValue(all \ {p}, 3)
    BY <1>23
  <2>2. p \in Int /\ all \ {p} \in SUBSET (2..14)  BY <1>2, <2>1
  <2>3. x \in Seq(Int)
    <3>1. HighestValue(all \ {p}, 3) \in Seq(all \ {p})  BY <2>1, <2>2, HighestValueIs
    <3>1a. all \ {p} \subseteq Int
      <4>1. 2..14 \subseteq Int  OBVIOUS
      <4> QED  BY <2>2, <4>1, Zenon
    <3>2. HighestValue(all \ {p}, 3) \in Seq(Int)  BY <3>1, <3>1a, SeqWider
    <3>3. <<p>> \in Seq(Int)  BY <2>2
    <3> QED  BY <2>1, <3>2, <3>3, Concat
  <2>4. CASE kind = 1
    <3>1. g = c /\ n = 4 /\ c[1] = p  BY <1>3, <1>12, <2>1, <2>4
    <3>2. \A i, j \in 1..(3 + 1) : i < j => c[i] # c[j]  BY <1>3, <3>1
    <3>3. \A i \in 2..(3 + 1) : c[i] \in all \ {p}
      <4> SUFFICES ASSUME NEW i \in 2..(3 + 1) PROVE c[i] \in all \ {p}  OBVIOUS
      <4>1. i \in 1..n /\ 1 \in 1..n /\ 1 < i  BY <3>1
      <4> QED  BY <1>2, <1>3, <3>1, <4>1
    <3>4. 3 \in Nat /\ 3 <= Cardinality(all \ {p}) /\ Len(c) = 3 + 1
      BY <1>3, <2>1, <3>1
    <3>5. NoHigher(g, x)  BY <1>9, <2>1, <2>2, <3>1, <3>2, <3>3, <3>4, TieAfter
    <3>9. K \in Int /\ kind = K  BY <1>23, <2>4
    <3> QED  BY <1>12a, <2>3, <3>5, <3>9
  <2>5. CASE kind # 1
    <3>0. kind # 2
      <4>1. kind = 2 => n = 3 /\ c[1] # c[2]  BY <1>3
      <4> QED  BY <1>3, <2>1, <4>1
    <3>1. kind # 8 /\ kind # 7 /\ kind # 6 /\ kind # 5 /\ kind # 4 /\ kind # 3
      BY <1>2, <1>3, <1>7, <1>23
    <3>2. kind < K /\ K \in Int  BY <1>3, <1>23, <2>5, <3>0, <3>1
    <3> QED  BY <1>12b, <2>3, <3>2
  <2> QED  BY <2>4, <2>5
<1>24. CASE /\ K = 0 /\ pairs = {} /\ Flushes(X) = {} /\ Straights(all) = {}
            /\ Cardinality(all) >= 5 /\ x = HighestValue(all, 5)
  <2>1. x \in Seq(all) /\ Len(x) = 5  BY <1>2, <1>24, HighestValueIs
  <2>2. x \in Seq(Int)
    <3>1. all \subseteq Int  BY <1>2
    <3> QED  BY <2>1, <3>1, SeqWider
  <2>3. kind = 0
    <3>1. kind # 8 /\ kind # 7 /\ kind # 6 /\ kind # 5 /\ kind # 4 /\ kind # 3
          /\ kind # 2 /\ kind # 1
      BY <1>2, <1>3, <1>7, <1>24
    <3> QED  BY <1>3, <3>1
  <2>4. g = c /\ n = 5  BY <1>3, <1>12, <2>3
  <2>5. \A i \in 1..5 : c[i] \in all  BY <1>2, <1>3, <2>4
  <2>6. \A i, j \in 1..5 : i < j => c[i] # c[j]  BY <1>3, <2>4
  <2>7. 5 \in Nat /\ 5 <= Cardinality(all)  BY <1>2, <1>24
  <2>8. \A i \in 1..5 : (\A j \in 1..(i - 1) : c[j] = x[j]) => c[i] <= x[i]
    BY <1>2, <1>24, <2>5, <2>6, <2>7, Greedy
  <2>9. NoHigher(g, x)  BY <1>3, <2>1, <2>4, <2>8 DEF NoHigher
  <2>10. K \in Int /\ kind = K  BY <1>24, <2>3
  <2> QED  BY <1>12a, <2>2, <2>9, <2>10
<1> QED
  <2>1. \/ K = 8 /\ \E t : IsMax(t, Steel(X)) /\ x = <<t>>
        \/ /\ K = 7 /\ Steel(X) = {}
           /\ \E q, k : IsMax(q, quads) /\ IsMax(k, all \ {q}) /\ x = <<q, k>>
        \/ /\ K = 6 /\ Steel(X) = {} /\ quads = {}
           /\ \E t, p : IsMax(t, trips) /\ IsMax(p, pairs \ {t}) /\ x = <<t, p>>
        \/ /\ K = 5 /\ Steel(X) = {} /\ quads = {} /\ (\A t \in trips, p \in pairs : t = p)
           /\ Flushes(X) # {} /\ x = HighestValue(UNION Flushes(X), 5)
        \/ /\ K = 4 /\ quads = {} /\ (\A t \in trips, p \in pairs : t = p)
           /\ Flushes(X) = {} /\ \E t : IsMax(t, Straights(all)) /\ x = <<t>>
        \/ /\ K = 3 /\ quads = {} /\ Flushes(X) = {} /\ Straights(all) = {}
           /\ \E t : /\ trips = {t} /\ pairs = {t} /\ Cardinality(all \ {t}) >= 2
                     /\ x = <<t>> \o HighestValue(all \ {t}, 2)
        \/ /\ K = 2 /\ trips = {} /\ Flushes(X) = {} /\ Straights(all) = {}
           /\ Cardinality(pairs) >= 2
           /\ \E a, b : /\ IsMax(a, pairs) /\ IsMax(b, pairs \ {a})
                        /\ \E k : IsMax(k, all \ {a, b}) /\ x = <<a, b, k>>
        \/ /\ K = 1 /\ trips = {} /\ Flushes(X) = {} /\ Straights(all) = {}
           /\ \E p : /\ pairs = {p} /\ Cardinality(all \ {p}) >= 3
                     /\ x = <<p>> \o HighestValue(all \ {p}, 3)
        \/ /\ K = 0 /\ pairs = {} /\ Flushes(X) = {} /\ Straights(all) = {}
           /\ Cardinality(all) >= 5 /\ x = HighestValue(all, 5)
    BY <1>6 DEF RulesMean, all, quads, trips, pairs
  <2> QED
    BY <2>1, <1>15, <1>16, <1>17, <1>19, <1>20, <1>21, <1>22, <1>23, <1>24, Zenon

-----------------------------------------------------------------------------
(***************************************************************************)
(* Some five of the cards are what the rules make of all.                   *)
(***************************************************************************)
\* Cards of some ranks and cards of others.
LEMMA Joined ==
  ASSUME NEW A \in SUBSET Cards, NEW B \in SUBSET Cards, Values(A) \cap Values(B) = {}
  PROVE  /\ Cardinality(A \cup B) = Cardinality(A) + Cardinality(B)
         /\ Values(A \cup B) = Values(A) \cup Values(B)
         /\ \A v \in Values(A) : Held(A \cup B, v) = Held(A, v)
         /\ \A v \in Values(B) : Held(A \cup B, v) = Held(B, v)
<1>1. A \cap B = {}  BY DEF Values
<1>2. Cardinality(A \cup B) = Cardinality(A) + Cardinality(B)
  <2>1. IsFiniteSet(A) /\ IsFiniteSet(B) /\ Cardinality(A) \in Nat /\ Cardinality(B) \in Nat
    BY SomeCards
  <2>2. Cardinality(A \cup B) = Cardinality(A) + Cardinality(B) - Cardinality(A \cap B)
    BY <2>1, FS_Union
  <2>3. Cardinality(A \cap B) = 0  BY <1>1, FS_EmptySet
  <2> QED  BY <2>1, <2>2, <2>3
<1>3. Values(A \cup B) = Values(A) \cup Values(B)  BY DEF Values
<1>4. \A v \in Values(A) : OfRank(A \cup B, v) = OfRank(A, v)  BY DEF OfRank, Values
<1>5. \A v \in Values(B) : OfRank(A \cup B, v) = OfRank(B, v)  BY DEF OfRank, Values
<1>6. \A Z \in SUBSET Cards : \A v : Held(Z, v) = Cardinality(OfRank(Z, v))
  BY SomeCards
<1> QED  BY <1>2, <1>3, <1>4, <1>5, <1>6

\* To some of the cards, m of one more rank can be added that all have m of.
LEMMA AddRank ==
  ASSUME NEW X \in SUBSET Cards, NEW A \in SUBSET X, NEW v, v \notin Values(A),
         NEW m \in 1..4, m <= Held(X, v)
  PROVE  \E B \in SUBSET X :
           /\ Cardinality(B) = Cardinality(A) + m
           /\ Values(B) = Values(A) \cup {v}
           /\ Held(B, v) = m
           /\ \A w \in Values(A) : Held(B, w) = Held(A, w)
<1>1. IsFiniteSet(OfRank(X, v)) /\ Held(X, v) = Cardinality(OfRank(X, v))  BY SomeCards
<1>2. PICK Y \in SUBSET OfRank(X, v) : Cardinality(Y) = m  BY <1>1, SubsetOfSize
<1>3. Y \in SUBSET X /\ Y \in SUBSET Cards /\ A \in SUBSET Cards  BY DEF OfRank
<1>4. Y # {}  BY <1>2, FS_EmptySet
<1>5. Values(Y) = {v} /\ OfRank(Y, v) = Y  BY <1>2, <1>4 DEF Values, OfRank
<1>6. Held(Y, v) = m  BY <1>2, <1>3, <1>5, SomeCards
<1>7. Values(A) \cap Values(Y) = {}  BY <1>5
<1>8. /\ Cardinality(A \cup Y) = Cardinality(A) + m
      /\ Values(A \cup Y) = Values(A) \cup {v}
      /\ \A w \in Values(A) : Held(A \cup Y, w) = Held(A, w)
      /\ Held(A \cup Y, v) = m
  BY <1>2, <1>3, <1>5, <1>6, <1>7, Joined
<1> QED  BY <1>3, <1>8

\* To some of the cards, one each of other ranks can be added.
LEMMA AddKickers ==
  ASSUME NEW X \in SUBSET Cards, NEW A \in SUBSET X, NEW W \in SUBSET Values(X),
         W \cap Values(A) = {}
  PROVE  \E B \in SUBSET X :
           /\ Cardinality(B) = Cardinality(A) + Cardinality(W)
           /\ Values(B) = Values(A) \cup W
           /\ \A w \in W : Held(B, w) = 1
           /\ \A w \in Values(A) : Held(B, w) = Held(A, w)
<1> DEFINE Card(v) == CHOOSE c \in X : c.rank = v
           Y == {Card(v) : v \in W}
<1>1. \A v \in W : Card(v) \in X /\ Card(v).rank = v  BY DEF Values
<1> HIDE DEF Card
<1>2. Y \in SUBSET X /\ Values(Y) = W  BY <1>1 DEF Values
<1>3. \A c, d \in Y : c.rank = d.rank => c = d  BY <1>1
<1> HIDE DEF Y
<1>4. Y \in SUBSET Cards /\ A \in SUBSET Cards  BY <1>2
<1>5. Cardinality(Y) = Cardinality(W) /\ \A v \in W : Held(Y, v) = 1
  BY <1>2, <1>3, <1>4, RanksApart
<1>6. /\ Cardinality(A \cup Y) = Cardinality(A) + Cardinality(W)
      /\ Values(A \cup Y) = Values(A) \cup W
      /\ \A w \in Values(A) : Held(A \cup Y, w) = Held(A, w)
      /\ \A w \in W : Held(A \cup Y, w) = 1
  <2>1. Values(A) \cap Values(Y) = {}  BY <1>2
  <2>2. /\ Cardinality(A \cup Y) = Cardinality(A) + Cardinality(Y)
        /\ Values(A \cup Y) = Values(A) \cup Values(Y)
        /\ \A v \in Values(A) : Held(A \cup Y, v) = Held(A, v)
        /\ \A v \in Values(Y) : Held(A \cup Y, v) = Held(Y, v)
    BY <1>4, <2>1, Joined
  <2> QED  BY <1>2, <1>5, <2>2
<1> QED  BY <1>2, <1>6

\* Some cards of one rank, and nothing else.
LEMMA OnlyRank ==
  \A X \in SUBSET Cards : \A v \in Values(X) : \A m \in 1..4 : m <= Held(X, v) =>
    \E B \in SUBSET X : Cardinality(B) = m /\ Values(B) = {v} /\ Held(B, v) = m
<1> SUFFICES ASSUME NEW X \in SUBSET Cards, NEW v \in Values(X), NEW m \in 1..4,
                    m <= Held(X, v)
             PROVE  \E B \in SUBSET X :
                      Cardinality(B) = m /\ Values(B) = {v} /\ Held(B, v) = m
  OBVIOUS
<1>1. {} \in SUBSET X /\ Values({}) = {} /\ Cardinality({}) = 0
  BY FS_EmptySet DEF Values
<1>2. v \notin Values({})  BY <1>1
<1>3. PICK B \in SUBSET X : /\ Cardinality(B) = Cardinality({}) + m
                            /\ Values(B) = Values({}) \cup {v} /\ Held(B, v) = m
  <2>1. \A A \in SUBSET X : v \notin Values(A) =>
          \E B \in SUBSET X :
            /\ Cardinality(B) = Cardinality(A) + m
            /\ Values(B) = Values(A) \cup {v}
            /\ Held(B, v) = m
    BY AddRank
  <2> QED  BY <1>1, <1>2, <2>1, Zenon
<1> QED  BY <1>1, <1>3

\* One card of each of some ranks, and nothing else.
LEMMA OnlyKickers ==
  ASSUME NEW X \in SUBSET Cards, NEW W \in SUBSET Values(X)
  PROVE  \E B \in SUBSET X :
           Cardinality(B) = Cardinality(W) /\ Values(B) = W /\ \A w \in W : Held(B, w) = 1
<1>1. {} \in SUBSET X /\ Values({}) = {} /\ Cardinality({}) = 0
  BY FS_EmptySet DEF Values
<1>2. W \cap Values({}) = {}  BY <1>1
<1>3. PICK B \in SUBSET X : /\ Cardinality(B) = Cardinality({}) + Cardinality(W)
                            /\ Values(B) = Values({}) \cup W
                            /\ \A w \in W : Held(B, w) = 1
  <2>1. \A A \in SUBSET X : W \cap Values(A) = {} =>
          \E B \in SUBSET X :
            /\ Cardinality(B) = Cardinality(A) + Cardinality(W)
            /\ Values(B) = Values(A) \cup W
            /\ \A w \in W : Held(B, w) = 1
    BY AddKickers
  <2> QED  BY <1>1, <1>2, <2>1, Zenon
<1>4. Cardinality(W) \in Nat
  <2>1. W \in SUBSET (2..14)  BY SomeCards
  <2>2. 2 \in Int /\ 14 \in Int  OBVIOUS
  <2>3. IsFiniteSet(2..14)  BY <2>2, Intervals, Zenon
  <2> QED  BY <2>1, <2>3, FS_Subset, FS_CardinalityType
<1> QED  BY <1>1, <1>3, <1>4

\* The ranks of cards, listed as they count, are what ByCount lists.
LEMMA CountsAs ==
  ASSUME NEW X \in SUBSET Cards, NEW n \in Nat, NEW x \in Seq(Values(X)), Len(x) = n,
         \A v \in Values(X) : \E i \in 1..n : x[i] = v,
         \A i, j \in 1..n : i < j =>
           \/ Held(X, x[i]) > Held(X, x[j])
           \/ Held(X, x[i]) = Held(X, x[j]) /\ x[i] > x[j]
  PROVE  ByCount(X) = x /\ Cardinality(Values(X)) = n
<1> DEFINE V == Values(X)
           key == CountKey(X)
<1>1. V \in SUBSET (2..14) /\ IsFiniteSet(V) /\ \A v : Held(X, v) \in 0..4  BY SomeCards
<1>2. \A i \in 1..n : x[i] \in V  BY ElementOfSeq
<1>3. \A v \in V : key[v] = 15 * Held(X, v) + v /\ key[v] \in Nat
  <2> SUFFICES ASSUME NEW v \in V PROVE key[v] = 15 * Held(X, v) + v /\ key[v] \in Nat
    OBVIOUS
  <2>1. key[v] = 15 * Held(X, v) + v  BY DEF CountKey
  <2>2. v \in 2..14 /\ Held(X, v) \in 0..4  BY <1>1
  <2> QED  BY <2>1, <2>2
<1>4. ASSUME NEW i \in 1..n, NEW j \in 1..n, i < j PROVE key[x[i]] > key[x[j]]
  <2> DEFINE v == x[i]
             w == x[j]
             hv == Held(X, v)
             hw == Held(X, w)
  <2>1. v \in 2..14 /\ w \in 2..14 /\ hv \in 0..4 /\ hw \in 0..4  BY <1>1, <1>2
  <2>2. hv > hw \/ (hv = hw /\ v > w)  BY <1>4
  <2>3. key[v] = 15 * hv + v /\ key[w] = 15 * hw + w  BY <1>2, <1>3
  <2> HIDE DEF v, w, hv, hw, key
  <2>4. key[v] > key[w]  BY <2>1, <2>2, <2>3
  <2> QED  BY <2>4 DEF v, w
<1>5. \A i, j \in 1..n : x[i] = x[j] => i = j
  <2> SUFFICES ASSUME NEW i \in 1..n, NEW j \in 1..n, x[i] = x[j], i < j PROVE FALSE
    OBVIOUS
  <2>1. key[x[i]] > key[x[j]] /\ key[x[i]] \in Nat  BY <1>2, <1>3, <1>4
  <2> HIDE DEF key
  <2> QED  BY <2>1
<1> HIDE DEF key, V
<1>6. x \in [1..n -> V]  BY DEF V
<1>7. x \in Bijection(1..n, V)
  BY <1>5, <1>6 DEF Bijection, Injection, Surjection, IsInjective, V
<1>8. Cardinality(V) = n
  <2>1. IsFiniteSet(1..n) /\ Cardinality(1..n) = n
    <3>1. 1 \in Int /\ n \in Int  OBVIOUS
    <3>2. IsFiniteSet(1..n)  BY <3>1, Intervals
    <3>3. CASE n = 0
      <4>1. 1..n = {}  BY <3>3
      <4> QED  BY <3>2, <3>3, <4>1, FS_EmptySet
    <3>4. CASE n # 0
      <4>1. 1 <= n  BY <3>4
      <4>2. Cardinality(1..n) = n - 1 + 1  BY <3>1, <4>1, Intervals
      <4> QED  BY <3>2, <4>2
    <3> QED  BY <3>3, <3>4
  <2> QED  BY <1>7, <2>1, FS_Bijection DEF ExistsBijection
<1>9. Lists(x, V, key)  BY <1>4, <1>6, <1>8 DEF Lists, V
<1>10. Separates(key, V) /\ Lists(ByCount(X), V, key)  BY ByCountLists DEF V, key
<1>11. ByCount(X) = x  BY <1>1, <1>9, <1>10, ListUnique DEF V
<1> QED  BY <1>8, <1>11 DEF V

\* A list of all the ranks of some cards, in the order of ByCount.
InOrder(X, n, x) ==
  /\ \A v \in Values(X) : \E i \in 1..n : x[i] = v
  /\ \A i, j \in 1..n : i < j =>
       \/ Held(X, x[i]) > Held(X, x[j])
       \/ Held(X, x[i]) = Held(X, x[j]) /\ x[i] > x[j]

\* It is what ByCount returns.
LEMMA InOrderIs ==
  ASSUME NEW X \in SUBSET Cards, NEW n \in Nat, NEW x \in Seq(Values(X)), Len(x) = n,
         InOrder(X, n, x)
  PROVE  ByCount(X) = x /\ Cardinality(Values(X)) = n
BY CountsAs DEF InOrder

\* The highest ranks, taken together, are as many as wanted.
LEMMA TopRanks ==
  ASSUME NEW R \in SUBSET (2..14), NEW n \in Nat, n <= Cardinality(R)
  PROVE  LET h == HighestValue(R, n)
         IN  {h[i] : i \in 1..n} \in SUBSET R /\ Cardinality({h[i] : i \in 1..n}) = n
<1> DEFINE h == HighestValue(R, n)
           W == {h[i] : i \in 1..n}
<1>1. h \in Seq(R) /\ Len(h) = n /\ \A i, j \in 1..n : i < j => h[i] > h[j]
  BY HighestValueIs
<1> HIDE DEF h
<1>2. \A i \in 1..n : h[i] \in R /\ h[i] \in Int
  <2>1. \A i \in 1..n : h[i] \in R  BY <1>1, ElementOfSeq
  <2>2. R \subseteq Int  OBVIOUS
  <2> QED  BY <2>1, <2>2
<1>3. \A i, j \in 1..n : h[i] = h[j] => i = j
  <2> SUFFICES ASSUME NEW i \in 1..n, NEW j \in 1..n, h[i] = h[j], i < j PROVE FALSE
    OBVIOUS
  <2>1. h[i] > h[j] /\ h[i] \in Int /\ h[j] \in Int  BY <1>1, <1>2
  <2>2. h[i] # h[j]  BY <2>1
  <2> QED  BY <2>2
<1>4. h \in [1..n -> W]  BY <1>1
<1>5. h \in Bijection(1..n, W)
  BY <1>3, <1>4 DEF Bijection, Injection, Surjection, IsInjective
<1>6. IsFiniteSet(1..n) /\ Cardinality(1..n) = n
  <2>1. 1 \in Int /\ n \in Int  OBVIOUS
  <2>2. IsFiniteSet(1..n)  BY <2>1, Intervals
  <2>3. CASE n = 0
    <3>1. 1..n = {}  BY <2>3
    <3> QED  BY <2>2, <2>3, <3>1, FS_EmptySet
  <2>4. CASE n # 0
    <3>1. 1 <= n  BY <2>4
    <3>2. Cardinality(1..n) = n - 1 + 1  BY <2>1, <3>1, Intervals
    <3> QED  BY <2>2, <3>2
  <2> QED  BY <2>3, <2>4
<1> HIDE DEF W
<1>7. Cardinality(W) = n  BY <1>5, <1>6, FS_Bijection DEF ExistsBijection
<1>8. W \in SUBSET R  BY <1>2 DEF W
<1> QED  BY <1>7, <1>8 DEF W, h

\* Five cards: m of one rank, then the n highest others.
Grouped(X, five, v, m, n) ==
  /\ Cardinality(five) = 5
  /\ ByCount(five) = <<v>> \o HighestValue(Values(X) \ {v}, n)
  /\ Cardinality(Values(five)) = n + 1
  /\ Held(five, v) = m
  /\ ByCount(five)[1] = v

\* Cards held together and the highest others: trips or a pair with kickers.
LEMMA GroupAndKickers ==
  ASSUME NEW X \in SUBSET Cards, NEW v \in Values(X), NEW m \in 2..3, m <= Held(X, v),
         NEW n \in 2..3, n = 5 - m, n <= Cardinality(Values(X) \ {v})
  PROVE  \E five \in SUBSET X : Grouped(X, five, v, m, n)
<1> DEFINE R == Values(X) \ {v}
           h == HighestValue(R, n)
           W == {h[i] : i \in 1..n}
           x == <<v>> \o h
<1>0. n \in Nat /\ n \in 2..3 /\ m \in 1..4 /\ n + m = 5  OBVIOUS
<1>1. R \in SUBSET (2..14) /\ Values(X) \in SUBSET (2..14)  BY SomeCards
<1>1a. v \notin R /\ R \subseteq Values(X)  OBVIOUS
<1> HIDE DEF R
<1>2. /\ h \in Seq(R) /\ Len(h) = n
      /\ \A i, j \in 1..n : i < j => h[i] > h[j]
      /\ W \in SUBSET R /\ Cardinality(W) = n
  <2>1. n <= Cardinality(R)  BY DEF R
  <2>2. /\ h \in Seq(R) /\ Len(h) = n
        /\ \A i, j \in 1..n : i < j => h[i] > h[j]
    BY <1>0, <1>1, <2>1, HighestValueIs
  <2>3. W \in SUBSET R /\ Cardinality(W) = n
    BY <1>0, <1>1, <2>1, TopRanks
  <2> QED  BY <2>2, <2>3
<1> HIDE DEF h, W
<1>4. PICK A \in SUBSET X : Cardinality(A) = m /\ Values(A) = {v} /\ Held(A, v) = m
  <2>1. m \in 1..4  BY <1>0
  <2> QED  BY <2>1, OnlyRank
<1>5. PICK five \in SUBSET X :
        /\ Cardinality(five) = m + n /\ Values(five) = {v} \cup W
        /\ Held(five, v) = m /\ \A w \in W : Held(five, w) = 1
  <2>1. W \in SUBSET Values(X) /\ W \cap Values(A) = {}  BY <1>1a, <1>2, <1>4
  <2>2. PICK five \in SUBSET X :
          /\ Cardinality(five) = Cardinality(A) + Cardinality(W)
          /\ Values(five) = Values(A) \cup W
          /\ \A w \in W : Held(five, w) = 1
          /\ \A w \in Values(A) : Held(five, w) = Held(A, w)
    BY <2>1, AddKickers
  <2>3. Held(five, v) = m  BY <1>4, <2>2
  <2>4. Cardinality(five) = m + n /\ Values(five) = {v} \cup W  BY <1>2, <1>4, <2>2
  <2> QED  BY <2>2, <2>3, <2>4
<1>6. /\ <<v>> \in Seq(Values(five)) /\ Len(<<v>>) = 1 /\ <<v>>[1] = v
  <2>1. v \in Values(five)  BY <1>5
  <2> QED  BY <2>1
<1>7. h \in Seq(Values(five))
  <2>1. \A i \in 1..n : h[i] \in W  BY DEF W
  <2>2. h \in [1..n -> Values(five)]  BY <1>2, <1>5, <2>1
  <2> QED  BY <1>0, <2>2, SequenceIs
<1>8. /\ x \in Seq(Values(five)) /\ Len(x) = n + 1 /\ x[1] = v
      /\ \A i \in 1..n : x[1 + i] = h[i]
  <2> HIDE DEF x
  <2> QED  BY <1>0, <1>2, <1>6, <1>7, Concat DEF x
<1> HIDE DEF x
<1>9. ASSUME NEW i \in 1..(n + 1)
      PROVE  \/ i = 1 /\ x[i] = v /\ Held(five, x[i]) = m
             \/ i - 1 \in 1..n /\ x[i] = h[i - 1] /\ Held(five, x[i]) = 1
  <2>1. CASE i = 1  BY <1>5, <1>8, <2>1
  <2>2. CASE i # 1
    <3>1. i - 1 \in 1..n /\ 1 + (i - 1) = i  BY <1>0, <2>2
    <3>2. x[i] = h[i - 1]  BY <1>8, <3>1
    <3>3. h[i - 1] \in W  BY <3>1 DEF W
    <3> QED  BY <1>5, <3>1, <3>2, <3>3
  <2> QED  BY <2>1, <2>2
<1>10. \A w \in Values(five) : \E i \in 1..(n + 1) : x[i] = w
  <2> SUFFICES ASSUME NEW w \in Values(five) PROVE \E i \in 1..(n + 1) : x[i] = w
    OBVIOUS
  <2>1. CASE w = v
    <3>1. 1 \in 1..(n + 1)  BY <1>0
    <3> QED  BY <1>8, <2>1, <3>1
  <2>2. CASE w # v
    <3>1. PICK i \in 1..n : h[i] = w  BY <1>5, <2>2 DEF W
    <3>2. 1 + i \in 1..(n + 1)  BY <1>0
    <3> QED  BY <1>8, <3>1, <3>2
  <2> QED  BY <2>1, <2>2
<1>11. ASSUME NEW i \in 1..(n + 1), NEW j \in 1..(n + 1), i < j
       PROVE  \/ Held(five, x[i]) > Held(five, x[j])
              \/ Held(five, x[i]) = Held(five, x[j]) /\ x[i] > x[j]
  <2>1. j - 1 \in 1..n /\ x[j] = h[j - 1] /\ Held(five, x[j]) = 1
    <3>1. j # 1  BY <1>11
    <3> QED  BY <1>9, <3>1
  <2>2. CASE i = 1
    <3>1. Held(five, x[i]) = m  BY <1>9, <2>2, <1>0, <1>8, <1>5
    <3>2. m > 1  BY <1>0
    <3> QED  BY <2>1, <3>1, <3>2
  <2>3. CASE i # 1
    <3>1. i - 1 \in 1..n /\ x[i] = h[i - 1] /\ Held(five, x[i]) = 1  BY <1>9, <2>3
    <3>2. i - 1 < j - 1  BY <1>0, <1>11
    <3>3. h[i - 1] > h[j - 1]  BY <1>2, <2>1, <3>1, <3>2
    <3> QED  BY <2>1, <3>1, <3>3
  <2> QED  BY <2>2, <2>3
<1>12. ByCount(five) = x /\ Cardinality(Values(five)) = n + 1
  <2>1. five \in SUBSET Cards /\ n + 1 \in Nat  BY <1>0
  <2> QED  BY <1>8, <1>10, <1>11, <2>1, CountsAs
<1>13. Cardinality(five) = 5  BY <1>0, <1>5
<1> QED  BY <1>5, <1>8, <1>12, <1>13 DEF x, h, R, Grouped

\* One card each of the five highest ranks of some of the cards.
LEMMA FiveHighest ==
  ASSUME NEW X \in SUBSET Cards, NEW R, R = Values(X), 5 <= Cardinality(R)
  PROVE  \E five \in SUBSET X :
           /\ Cardinality(five) = 5
           /\ ByCount(five) = HighestValue(R, 5)
           /\ Cardinality(Values(five)) = 5
           /\ Values(five) \subseteq R
<1> DEFINE h == HighestValue(R, 5)
           W == {h[i] : i \in 1..5}
<1>1. R \in SUBSET (2..14) /\ 5 \in Nat  BY SomeCards
<1>2. /\ h \in Seq(R) /\ Len(h) = 5
      /\ \A i, j \in 1..5 : i < j => h[i] > h[j]
      /\ W \in SUBSET R /\ Cardinality(W) = 5
  BY <1>1, HighestValueIs, TopRanks
<1> HIDE DEF h, W
<1>4. PICK five \in SUBSET X :
        Cardinality(five) = 5 /\ Values(five) = W /\ \A w \in W : Held(five, w) = 1
  BY <1>2, OnlyKickers
<1>5. Cardinality(five) = 5 /\ Values(five) = W  BY <1>4
<1>6. \A i \in 1..5 : h[i] \in W  BY DEF W
<1>7. h \in Seq(Values(five))
  <2>1. h \in [1..5 -> W]  BY <1>2, <1>6
  <2> QED  BY <1>1, <1>5, <2>1, SequenceIs
<1>8. \A w \in Values(five) : \E i \in 1..5 : h[i] = w  BY <1>5 DEF W
<1>9. \A i, j \in 1..5 : i < j => Held(five, h[i]) = Held(five, h[j]) /\ h[i] > h[j]
  BY <1>2, <1>4, <1>6
<1>10. five \in SUBSET Cards  OBVIOUS
<1>11. ByCount(five) = h /\ Cardinality(Values(five)) = 5
  BY <1>1, <1>2, <1>7, <1>8, <1>9, <1>10, CountsAs
<1> QED  BY <1>2, <1>5, <1>11 DEF h

\* One card each of five ranks.
LEMMA FiveOf ==
  ASSUME NEW X \in SUBSET Cards, NEW W \in SUBSET Values(X), Cardinality(W) = 5
  PROVE  \E five \in SUBSET X : Cardinality(five) = 5 /\ Values(five) = W
BY OnlyKickers

\* Cards of two ranks, and nothing else.
LEMMA TwoRanks ==
  ASSUME NEW X \in SUBSET Cards, NEW u \in Values(X), NEW v \in Values(X),
         NEW k \in 1..4, NEW m \in 1..4,
         u # v, k <= Held(X, u), m <= Held(X, v)
  PROVE  \E five \in SUBSET X :
           /\ Cardinality(five) = k + m /\ Values(five) = {u, v}
           /\ Held(five, u) = k /\ Held(five, v) = m
<1>1. PICK A \in SUBSET X : Cardinality(A) = k /\ Values(A) = {u} /\ Held(A, u) = k
  BY OnlyRank, SMTT(30)
<1>2. PICK B \in SUBSET X : Cardinality(B) = m /\ Values(B) = {v} /\ Held(B, v) = m
  BY OnlyRank, SMTT(30)
<1>3. /\ Cardinality(A \cup B) = Cardinality(A) + Cardinality(B)
      /\ Values(A \cup B) = Values(A) \cup Values(B)
      /\ \A w \in Values(A) : Held(A \cup B, w) = Held(A, w)
      /\ \A w \in Values(B) : Held(A \cup B, w) = Held(B, w)
  <2>1. A \in SUBSET Cards /\ B \in SUBSET Cards /\ Values(A) \cap Values(B) = {}
    BY <1>1, <1>2
  <2> QED  BY <2>1, Joined
<1>4. Cardinality(A \cup B) = k + m /\ Values(A \cup B) = {u, v}  BY <1>1, <1>2, <1>3
<1>5. Held(A \cup B, u) = k /\ Held(A \cup B, v) = m  BY <1>1, <1>2, <1>3
<1>6. A \cup B \in SUBSET X  OBVIOUS
<1> QED  BY <1>4, <1>5, <1>6

\* Two pairs and a kicker, and nothing else.
LEMMA PairsAndKicker ==
  ASSUME NEW X \in SUBSET Cards,
         NEW a \in Values(X), NEW b \in Values(X), NEW k \in Values(X),
         a # b, k # a, k # b, 2 <= Held(X, a), 2 <= Held(X, b)
  PROVE  \E five \in SUBSET X :
           /\ Cardinality(five) = 5 /\ Values(five) = {a, b, k}
           /\ Held(five, a) = 2 /\ Held(five, b) = 2 /\ Held(five, k) = 1
<1>1. PICK A \in SUBSET X : /\ Cardinality(A) = 2 + 2 /\ Values(A) = {a, b}
                            /\ Held(A, a) = 2 /\ Held(A, b) = 2
  BY TwoRanks
<1>2. PICK B \in SUBSET X : Cardinality(B) = 1 /\ Values(B) = {k} /\ Held(B, k) = 1
  <2>1. 1 <= Held(X, k)  BY SomeCards
  <2> QED  BY <2>1, OnlyRank
<1>3. /\ Cardinality(A \cup B) = Cardinality(A) + Cardinality(B)
      /\ Values(A \cup B) = Values(A) \cup Values(B)
      /\ \A w \in Values(A) : Held(A \cup B, w) = Held(A, w)
      /\ \A w \in Values(B) : Held(A \cup B, w) = Held(B, w)
  <2>1. A \in SUBSET Cards /\ B \in SUBSET Cards /\ Values(A) \cap Values(B) = {}
    BY <1>1, <1>2
  <2> QED  BY <2>1, Joined
<1>4. Cardinality(A \cup B) = 5 /\ Values(A \cup B) = {a, b, k}  BY <1>1, <1>2, <1>3
<1>5. /\ Held(A \cup B, a) = 2 /\ Held(A \cup B, b) = 2 /\ Held(A \cup B, k) = 1
  BY <1>1, <1>2, <1>3
<1>6. A \cup B \in SUBSET X  OBVIOUS
<1> QED  BY <1>4, <1>5, <1>6

\* How two groups of cards are listed.
LEMMA GroupsListed ==
  ASSUME NEW X \in SUBSET Cards, NEW u \in Values(X), NEW v \in Values(X),
         Values(X) = {u, v}, Held(X, u) > Held(X, v)
  PROVE  ByCount(X) = <<u, v>> /\ Cardinality(Values(X)) = 2
<1> DEFINE x == <<u, v>>
<1>1. x \in Seq(Values(X)) /\ Len(x) = 2 /\ x[1] = u /\ x[2] = v  OBVIOUS
<1> HIDE DEF x
<1>2. \A w \in Values(X) : \E i \in 1..2 : x[i] = w  BY <1>1
<1>3. \A i, j \in 1..2 : i < j => Held(X, x[i]) > Held(X, x[j])
  <2> SUFFICES ASSUME NEW i \in 1..2, NEW j \in 1..2, i < j
               PROVE  Held(X, x[i]) > Held(X, x[j])
    OBVIOUS
  <2>1. i = 1 /\ j = 2  OBVIOUS
  <2> QED  BY <1>1, <2>1
<1>4. 2 \in Nat  OBVIOUS
<1>5. ByCount(X) = x /\ Cardinality(Values(X)) = 2
  <2>1. InOrder(X, 2, x)  BY <1>2, <1>3 DEF InOrder
  <2> HIDE <1>2, <1>3
  <2> QED  BY <1>1, <1>4, <2>1, InOrderIs
<1> QED  BY <1>5 DEF x

\* How two pairs and a kicker are listed.
LEMMA PairsListed ==
  ASSUME NEW X \in SUBSET Cards,
         NEW a \in Values(X), NEW b \in Values(X), NEW k \in Values(X),
         Values(X) = {a, b, k}, a > b,
         Held(X, a) = 2, Held(X, b) = 2, Held(X, k) = 1
  PROVE  ByCount(X) = <<a, b, k>> /\ Cardinality(Values(X)) = 3
<1> DEFINE x == <<a, b, k>>
<1>1. /\ x \in Seq(Values(X)) /\ Len(x) = 3
      /\ x[1] = a /\ x[2] = b /\ x[3] = k
  OBVIOUS
<1> HIDE DEF x
<1>2. \A w \in Values(X) : \E i \in 1..3 : x[i] = w  BY <1>1
<1>3. \A i, j \in 1..3 : i < j =>
        \/ Held(X, x[i]) > Held(X, x[j])
        \/ Held(X, x[i]) = Held(X, x[j]) /\ x[i] > x[j]
  <2> SUFFICES ASSUME NEW i \in 1..3, NEW j \in 1..3, i < j
               PROVE  \/ Held(X, x[i]) > Held(X, x[j])
                      \/ Held(X, x[i]) = Held(X, x[j]) /\ x[i] > x[j]
    OBVIOUS
  <2>1. (i = 1 /\ j = 2) \/ (i = 1 /\ j = 3) \/ (i = 2 /\ j = 3)  OBVIOUS
  <2> QED  BY <1>1, <2>1
<1>4. 3 \in Nat  OBVIOUS
<1>5. ByCount(X) = x /\ Cardinality(Values(X)) = 3
  <2>1. InOrder(X, 3, x)  BY <1>2, <1>3 DEF InOrder
  <2> HIDE <1>2, <1>3
  <2> QED  BY <1>1, <1>4, <2>1, InOrderIs
<1> QED  BY <1>5 DEF x

-----------------------------------------------------------------------------
(***************************************************************************)
(* Some five of the seven cards reach what the rules say.                   *)
(***************************************************************************)
Reached(X, kind, ties) ==
  \E five \in SUBSET X :
    Cardinality(five) = 5 /\ Evaluate5(five) = <<kind>> \o ties

\* A kind of hand, once the straight, the flush and the counts are known.
LEMMA KindFrom ==
  ASSUME NEW X \in SUBSET Cards, NEW five \in SUBSET X, Cardinality(five) = 5
  PROVE  LET n == Cardinality(Values(five))
             most == Held(five, ByCount(five)[1])
             straight == StraightHigh(Values(five))
         IN  /\ straight # {} /\ IsFlush(five) => KindOf(five) = 8
             /\ straight # {} /\ ~IsFlush(five) => KindOf(five) = 4
             /\ n = 2 /\ most = 4 => KindOf(five) = 7
             /\ n = 2 /\ most = 3 => KindOf(five) = 6
             /\ n = 3 /\ most = 3 => KindOf(five) = 3
             /\ n = 3 /\ most = 2 => KindOf(five) = 2
             /\ n = 4 => KindOf(five) = 1
             /\ n = 5 /\ straight = {} /\ IsFlush(five) => KindOf(five) = 5
             /\ n = 5 /\ straight = {} /\ ~IsFlush(five) => KindOf(five) = 0
             /\ n \in 2..4 => straight = {}
             /\ straight = {} => Evaluate5(five) = <<KindOf(five)>> \o ByCount(five)
             /\ \A t : straight = {t} => Evaluate5(five) = <<KindOf(five)>> \o <<t>>
<1> DEFINE n == Cardinality(Values(five))
           most == Held(five, ByCount(five)[1])
           straight == StraightHigh(Values(five))
<1>1. five \in SUBSET Cards  OBVIOUS
<1>2. n \in 2..4 => straight = {}  BY <1>1, SomeCards, StraightIs
<1>3. /\ straight = {} => Evaluate5(five) = <<KindOf(five)>> \o ByCount(five)
      /\ \A t : straight = {t} => Evaluate5(five) = <<KindOf(five)>> \o <<t>>
  BY <1>1, Evaluates
<1>4. KindOf(five) =
        IF straight # {} THEN IF IsFlush(five) THEN 8 ELSE 4
        ELSE IF n = 2 THEN IF most = 4 THEN 7 ELSE 6
        ELSE IF n = 3 THEN IF most = 3 THEN 3 ELSE 2
        ELSE IF n = 4 THEN 1
        ELSE IF IsFlush(five) THEN 5 ELSE 0
  BY DEF KindOf
<1> HIDE DEF n, most, straight
<1>5. /\ straight # {} /\ IsFlush(five) => KindOf(five) = 8
      /\ straight # {} /\ ~IsFlush(five) => KindOf(five) = 4
      /\ n = 2 /\ most = 4 => KindOf(five) = 7
      /\ n = 2 /\ most = 3 => KindOf(five) = 6
      /\ n = 3 /\ most = 3 => KindOf(five) = 3
      /\ n = 3 /\ most = 2 => KindOf(five) = 2
      /\ n = 4 => KindOf(five) = 1
      /\ n = 5 /\ straight = {} /\ IsFlush(five) => KindOf(five) = 5
      /\ n = 5 /\ straight = {} /\ ~IsFlush(five) => KindOf(five) = 0
  BY <1>2, <1>4
<1> QED  BY <1>2, <1>3, <1>5 DEF n, most, straight

\* A straight flush.
LEMMA SteelReached ==
  ASSUME NEW X \in SUBSET Cards, Cardinality(X) = 7, NEW t \in Steel(X)
  PROVE  Reached(X, 8, <<t>>)
<1>1. Flushes(X) # {}  BY DEF Steel
<1>2. PICK F, Y : /\ Steel(X) = Straights(F) /\ F \in SUBSET (2..14)
                  /\ Y \in SUBSET X /\ Values(Y) = F
                  /\ \E s \in 1..4 : \A c \in Y : c.suit = s
  BY <1>1, FlushesAre
<1>3. PICK W \in SUBSET F : Cardinality(W) = 5 /\ StraightHigh(W) = {t}
  BY <1>2, StraightOf
<1>4. PICK five \in SUBSET Y : Cardinality(five) = 5 /\ Values(five) = W
  <2>1. Y \in SUBSET Cards /\ W \in SUBSET Values(Y)  BY <1>2
  <2> QED  BY <1>3, <2>1, FiveOf
<1>5. five \in SUBSET X /\ five \in SUBSET Cards  BY <1>2
<1>6. five # {}  BY <1>4, FS_EmptySet
<1>7. IsFlush(five)  BY <1>2, <1>5, <1>6, FlushIs
<1>8. StraightHigh(Values(five)) = {t}  BY <1>3, <1>4
<1>9. KindOf(five) = 8  BY <1>4, <1>5, <1>7, <1>8, KindFrom
<1>10. Evaluate5(five) = <<8>> \o <<t>>  BY <1>4, <1>5, <1>8, <1>9, KindFrom
<1> QED  BY <1>4, <1>5, <1>10 DEF Reached

\* A straight that is no straight flush.
LEMMA StraightReached ==
  ASSUME NEW X \in SUBSET Cards, Cardinality(X) = 7, Flushes(X) = {},
         NEW t \in Straights(Values(X))
  PROVE  Reached(X, 4, <<t>>)
<1>1. Values(X) \in SUBSET (2..14)  BY SomeCards
<1>2. PICK W \in SUBSET Values(X) : Cardinality(W) = 5 /\ StraightHigh(W) = {t}
  BY <1>1, StraightOf
<1>3. PICK five \in SUBSET X : Cardinality(five) = 5 /\ Values(five) = W
  BY <1>2, FiveOf
<1>4. StraightHigh(Values(five)) = {t}  BY <1>2, <1>3
<1>5. ~IsFlush(five)
  <2>1. SUFFICES ASSUME IsFlush(five) PROVE FALSE  OBVIOUS
  <2>2. KindOf(five) = 8  BY <1>3, <1>4, <2>1, KindFrom
  <2>3. Steel(X) # {}  BY <1>3, <2>2, FiveSeen
  <2> QED  BY <2>3 DEF Steel
<1>6. KindOf(five) = 4  BY <1>3, <1>4, <1>5, KindFrom
<1>7. Evaluate5(five) = <<4>> \o <<t>>  BY <1>3, <1>4, <1>6, KindFrom
<1> QED  BY <1>3, <1>7 DEF Reached

\* A flush that is no straight flush.
LEMMA FlushReached ==
  ASSUME NEW X \in SUBSET Cards, Cardinality(X) = 7, Flushes(X) # {}, Steel(X) = {}
  PROVE  Reached(X, 5, HighestValue(UNION Flushes(X), 5))
<1>1. PICK F, Y : /\ Steel(X) = Straights(F) /\ UNION Flushes(X) = F
                  /\ F \in SUBSET (2..14) /\ Cardinality(F) >= 5 /\ IsFiniteSet(F)
                  /\ Y \in SUBSET X /\ Values(Y) = F
                  /\ \E s \in 1..4 : \A c \in Y : c.suit = s
  BY FlushesAre
<1>2. PICK five \in SUBSET Y :
        /\ Cardinality(five) = 5 /\ ByCount(five) = HighestValue(F, 5)
        /\ Cardinality(Values(five)) = 5 /\ Values(five) \subseteq F
  <2>1. Y \in SUBSET Cards /\ 5 <= Cardinality(F)
    <3>1. Cardinality(F) \in Nat  BY <1>1, FS_CardinalityType
    <3> QED  BY <1>1, <3>1
  <2> QED  BY <1>1, <2>1, FiveHighest
<1>3. five \in SUBSET X /\ five \in SUBSET Cards  BY <1>1
<1>4. five # {}  BY <1>2, FS_EmptySet
<1>5. IsFlush(five)  BY <1>1, <1>3, <1>4, FlushIs
<1>6. StraightHigh(Values(five)) = {}
  <2> SUFFICES ASSUME StraightHigh(Values(five)) # {} PROVE FALSE  OBVIOUS
  <2>1. Values(five) \in SUBSET (2..14)  BY <1>1, <1>2
  <2>2. PICK t : t \in Straights(F)  BY <1>1, <1>2, <2>1, StraightIs
  <2> QED  BY <1>1, <2>2
<1>7. KindOf(five) = 5  BY <1>2, <1>3, <1>5, <1>6, KindFrom
<1>8. Evaluate5(five) = <<5>> \o HighestValue(F, 5)
  BY <1>2, <1>3, <1>6, <1>7, KindFrom
<1> QED  BY <1>1, <1>2, <1>3, <1>8 DEF Reached

\* Five cards of one rank each, neither a straight nor a flush.
LEMMA HighCardReached ==
  ASSUME NEW X \in SUBSET Cards, Cardinality(X) = 7, Flushes(X) = {},
         Straights(Values(X)) = {}, Cardinality(Values(X)) >= 5
  PROVE  Reached(X, 0, HighestValue(Values(X), 5))
<1>1. 5 <= Cardinality(Values(X)) /\ Values(X) \in SUBSET (2..14)  BY SomeCards
<1>2. PICK five \in SUBSET X :
        /\ Cardinality(five) = 5 /\ ByCount(five) = HighestValue(Values(X), 5)
        /\ Cardinality(Values(five)) = 5 /\ Values(five) \subseteq Values(X)
  BY <1>1, FiveHighest
<1>3. StraightHigh(Values(five)) = {}
  <2> SUFFICES ASSUME StraightHigh(Values(five)) # {} PROVE FALSE  OBVIOUS
  <2>1. Values(five) \in SUBSET (2..14)  BY <1>1, <1>2
  <2>2. PICK t : t \in Straights(Values(X))  BY <1>1, <1>2, <2>1, StraightIs
  <2> QED  BY <2>2
<1>4. ~IsFlush(five)
  <2>1. SUFFICES ASSUME IsFlush(five) PROVE FALSE  OBVIOUS
  <2>2. KindOf(five) = 5  BY <1>2, <1>3, <2>1, KindFrom
  <2>3. Flushes(X) # {}  BY <1>2, <2>2, FiveSeen
  <2> QED  BY <2>3
<1>5. KindOf(five) = 0  BY <1>2, <1>3, <1>4, KindFrom
<1>6. Evaluate5(five) = <<0>> \o HighestValue(Values(X), 5)
  BY <1>2, <1>3, <1>5, KindFrom
<1> QED  BY <1>2, <1>6 DEF Reached

\* Four of a kind, and a full house.
LEMMA TwoRanksReached ==
  ASSUME NEW X \in SUBSET Cards, NEW u \in Values(X), NEW v \in Values(X),
         NEW k \in 3..4, k <= Held(X, u), 5 - k <= Held(X, v), u # v
  PROVE  Reached(X, k + 3, <<u, v>>)
<1>1. PICK five \in SUBSET X : /\ Cardinality(five) = 5 /\ Values(five) = {u, v}
                               /\ Held(five, u) = k /\ Held(five, v) = 5 - k
  <2>1. k \in 1..4 /\ 5 - k \in 1..4 /\ k + (5 - k) = 5  OBVIOUS
  <2> QED  BY <2>1, TwoRanks, SMTT(30)
<1>2. ByCount(five) = <<u, v>> /\ Cardinality(Values(five)) = 2
  <2>1. Held(five, u) > Held(five, v)  BY <1>1
  <2>2. five \in SUBSET Cards /\ u \in Values(five) /\ v \in Values(five)  BY <1>1
  <2> QED  BY <1>1, <2>1, <2>2, GroupsListed
<1>3. Held(five, ByCount(five)[1]) = k  BY <1>1, <1>2
<1>4. KindOf(five) = k + 3 /\ StraightHigh(Values(five)) = {}
  <2>1. StraightHigh(Values(five)) = {}
    <3>1. Cardinality(Values(five)) \in 2..4  BY <1>2
    <3> QED  BY <1>1, <3>1, KindFrom
  <2>2. k = 4 => KindOf(five) = 7  BY <1>1, <1>2, <1>3, KindFrom
  <2>3. k = 3 => KindOf(five) = 6  BY <1>1, <1>2, <1>3, KindFrom
  <2> QED  BY <2>1, <2>2, <2>3
<1>5. Evaluate5(five) = <<k + 3>> \o <<u, v>>  BY <1>1, <1>2, <1>4, KindFrom
<1> QED  BY <1>1, <1>5 DEF Reached

\* Two pairs.
LEMMA PairsReached ==
  ASSUME NEW X \in SUBSET Cards,
         NEW a \in Values(X), NEW b \in Values(X), NEW k \in Values(X),
         a > b, k # a, k # b, 2 <= Held(X, a), 2 <= Held(X, b)
  PROVE  Reached(X, 2, <<a, b, k>>)
<1>1. PICK five \in SUBSET X :
        /\ Cardinality(five) = 5 /\ Values(five) = {a, b, k}
        /\ Held(five, a) = 2 /\ Held(five, b) = 2 /\ Held(five, k) = 1
  <2>1. Values(X) \in SUBSET (2..14)  BY SomeCards
  <2>2. a # b  BY <2>1
  <2> QED  BY <2>2, PairsAndKicker
<1>2. ByCount(five) = <<a, b, k>> /\ Cardinality(Values(five)) = 3
  <2>1. /\ five \in SUBSET Cards
        /\ a \in Values(five) /\ b \in Values(five) /\ k \in Values(five)
    BY <1>1
  <2> QED  BY <1>1, <2>1, PairsListed
<1>3. Held(five, ByCount(five)[1]) = 2  BY <1>1, <1>2
<1>4. KindOf(five) = 2 /\ StraightHigh(Values(five)) = {}
  <2>1. Cardinality(Values(five)) \in 2..4  BY <1>2
  <2>2. StraightHigh(Values(five)) = {}  BY <1>1, <2>1, KindFrom
  <2>3. KindOf(five) = 2  BY <1>1, <1>2, <1>3, KindFrom
  <2> QED  BY <2>2, <2>3
<1>5. Evaluate5(five) = <<2>> \o <<a, b, k>>  BY <1>1, <1>2, <1>4, KindFrom
<1> QED  BY <1>1, <1>5 DEF Reached

\* Three of a kind, and a pair.
LEMMA GroupReached ==
  ASSUME NEW X \in SUBSET Cards, NEW v \in Values(X), NEW m \in 2..3, m <= Held(X, v),
         NEW n \in 2..3, n = 5 - m, n <= Cardinality(Values(X) \ {v})
  PROVE  Reached(X, 2 * m - 3, <<v>> \o HighestValue(Values(X) \ {v}, n))
<1>0. PICK five \in SUBSET X : Grouped(X, five, v, m, n)  BY GroupAndKickers
<1>1. /\ Cardinality(five) = 5
      /\ ByCount(five) = <<v>> \o HighestValue(Values(X) \ {v}, n)
      /\ Cardinality(Values(five)) = n + 1
      /\ Held(five, v) = m
      /\ ByCount(five)[1] = v
  BY <1>0 DEF Grouped
<1>2. n + 1 \in 2..4  OBVIOUS
<1>3. StraightHigh(Values(five)) = {}  BY <1>1, <1>2, KindFrom
<1>4. m = 3 => n + 1 = 3 /\ KindOf(five) = 3
  <2>1. m = 3 => n + 1 = 3  OBVIOUS
  <2> QED  BY <1>1, <2>1, KindFrom
<1>5. m = 2 => n + 1 = 4 /\ KindOf(five) = 1
  <2>1. m = 2 => n + 1 = 4  OBVIOUS
  <2> QED  BY <1>1, <2>1, KindFrom
<1>6. KindOf(five) = 2 * m - 3  BY <1>4, <1>5
<1>7. Evaluate5(five) = <<2 * m - 3>> \o (<<v>> \o HighestValue(Values(X) \ {v}, n))
  BY <1>1, <1>3, <1>6, KindFrom
<1> QED  BY <1>1, <1>7 DEF Reached

\* Some five of seven cards are what the rules make of all seven.
LEMMA RulesReached ==
  ASSUME NEW X \in SUBSET Cards, Cardinality(X) = 7
  PROVE  Reached(X, RulesKind(X), RulesTies(X))
<1> DEFINE all == Values(X)
           quads == AtLeast(X, 4)
           trips == AtLeast(X, 3)
           pairs == AtLeast(X, 2)
           K == RulesKind(X)
           ties == RulesTies(X)
<1>1. RulesMean(X, K, ties)  BY RulesAre
<1>2. /\ all \in SUBSET (2..14)
      /\ \A v \in quads : v \in all /\ 4 <= Held(X, v)
      /\ \A v \in trips : v \in all /\ 3 <= Held(X, v)
      /\ \A v \in pairs : v \in all /\ 2 <= Held(X, v)
      /\ \A v \in all : 1 <= Held(X, v)
  <2>1. \A v : Held(X, v) \in 0..4 /\ (Held(X, v) > 0 <=> v \in all)  BY SomeCards
  <2>2. all \in SUBSET (2..14)  BY SomeCards
  <2> QED  BY <2>1, <2>2 DEF AtLeast
<1>3. \/ K = 8 /\ \E t : IsMax(t, Steel(X)) /\ ties = <<t>>
      \/ K = 7 /\ \E q, k : IsMax(q, quads) /\ IsMax(k, all \ {q}) /\ ties = <<q, k>>
      \/ K = 6 /\ \E t, p : IsMax(t, trips) /\ IsMax(p, pairs \ {t}) /\ ties = <<t, p>>
      \/ K = 5 /\ Steel(X) = {} /\ Flushes(X) # {} /\ ties = HighestValue(UNION Flushes(X), 5)
      \/ K = 4 /\ Flushes(X) = {} /\ \E t : IsMax(t, Straights(all)) /\ ties = <<t>>
      \/ K = 3 /\ \E t : /\ trips = {t} /\ Cardinality(all \ {t}) >= 2
                         /\ ties = <<t>> \o HighestValue(all \ {t}, 2)
      \/ K = 2 /\ \E a, b, k : /\ IsMax(a, pairs) /\ IsMax(b, pairs \ {a})
                               /\ IsMax(k, all \ {a, b}) /\ ties = <<a, b, k>>
      \/ K = 1 /\ \E p : /\ pairs = {p} /\ Cardinality(all \ {p}) >= 3
                         /\ ties = <<p>> \o HighestValue(all \ {p}, 3)
      \/ K = 0 /\ Flushes(X) = {} /\ Straights(all) = {}
         /\ Cardinality(all) >= 5 /\ ties = HighestValue(all, 5)
  BY <1>1, Zenon DEF RulesMean
<1> HIDE DEF all, quads, trips, pairs, K, ties
<1>4. CASE K = 8 /\ \E t : IsMax(t, Steel(X)) /\ ties = <<t>>
  BY <1>4, SteelReached DEF IsMax, K, ties
<1>5. CASE K = 7 /\ \E q, k : IsMax(q, quads) /\ IsMax(k, all \ {q}) /\ ties = <<q, k>>
  <2>1. PICK q, k : q \in quads /\ k \in all \ {q} /\ ties = <<q, k>>  BY <1>5 DEF IsMax
  <2>2. /\ q \in Values(X) /\ k \in Values(X) /\ 4 <= Held(X, q) /\ 1 <= Held(X, k)
        /\ q # k
    BY <1>2, <2>1 DEF all
  <2>3. 4 \in 3..4 /\ 5 - 4 = 1 /\ 4 + 3 = 7  OBVIOUS
  <2>4. Reached(X, 7, <<q, k>>)  BY <2>2, <2>3, TwoRanksReached
  <2> QED  BY <1>5, <2>1, <2>4 DEF K, ties
<1>6. CASE K = 6 /\ \E t, p : IsMax(t, trips) /\ IsMax(p, pairs \ {t}) /\ ties = <<t, p>>
  <2>1. PICK t, p : t \in trips /\ p \in pairs \ {t} /\ ties = <<t, p>>  BY <1>6 DEF IsMax
  <2>2. /\ t \in Values(X) /\ p \in Values(X) /\ 3 <= Held(X, t) /\ 2 <= Held(X, p)
        /\ t # p
    BY <1>2, <2>1 DEF all
  <2>3. 3 \in 3..4 /\ 5 - 3 = 2 /\ 3 + 3 = 6  OBVIOUS
  <2>4. Reached(X, 6, <<t, p>>)  BY <2>2, <2>3, TwoRanksReached
  <2> QED  BY <1>6, <2>1, <2>4 DEF K, ties
<1>7. CASE /\ K = 5 /\ Steel(X) = {} /\ Flushes(X) # {}
           /\ ties = HighestValue(UNION Flushes(X), 5)
  BY <1>7, FlushReached DEF K, ties
<1>8. CASE K = 4 /\ Flushes(X) = {} /\ \E t : IsMax(t, Straights(all)) /\ ties = <<t>>
  BY <1>8, StraightReached DEF IsMax, K, ties, all
<1>9. CASE K = 3 /\ \E t : /\ trips = {t} /\ Cardinality(all \ {t}) >= 2
                           /\ ties = <<t>> \o HighestValue(all \ {t}, 2)
  <2>1. PICK t : /\ trips = {t} /\ Cardinality(all \ {t}) >= 2
                 /\ ties = <<t>> \o HighestValue(all \ {t}, 2)
    BY <1>9
  <2>2. t \in Values(X) /\ 3 <= Held(X, t)  BY <1>2, <2>1 DEF all
  <2>3. 2 <= Cardinality(Values(X) \ {t})
    <3>1. Cardinality(Values(X) \ {t}) \in Nat
      BY SomeCards, FS_Subset, FS_CardinalityType
    <3> QED  BY <2>1, <3>1 DEF all
  <2>4. 3 \in 2..3 /\ 2 \in 2..3 /\ 2 = 5 - 3 /\ 2 * 3 - 3 = 3  OBVIOUS
  <2>5. Reached(X, 3, <<t>> \o HighestValue(Values(X) \ {t}, 2))
    BY <2>2, <2>3, <2>4, GroupReached
  <2> QED  BY <1>9, <2>1, <2>5 DEF K, ties, all
<1>10. CASE K = 2 /\ \E a, b, k : /\ IsMax(a, pairs) /\ IsMax(b, pairs \ {a})
                                  /\ IsMax(k, all \ {a, b}) /\ ties = <<a, b, k>>
  <2>1. PICK a, b, k : /\ IsMax(a, pairs) /\ b \in pairs \ {a}
                       /\ k \in all \ {a, b} /\ ties = <<a, b, k>>
    BY <1>10 DEF IsMax
  <2>2. /\ a \in Values(X) /\ b \in Values(X) /\ k \in Values(X)
        /\ k # a /\ k # b /\ 2 <= Held(X, a) /\ 2 <= Held(X, b)
    BY <1>2, <2>1 DEF all, IsMax
  <2>3. a > b
    <3>1. b <= a /\ a # b  BY <2>1 DEF IsMax
    <3>2. a \in 2..14 /\ b \in 2..14  BY <1>2, <2>2 DEF all
    <3> QED  BY <3>1, <3>2
  <2>4. Reached(X, 2, <<a, b, k>>)  BY <2>2, <2>3, PairsReached
  <2> QED  BY <1>10, <2>1, <2>4 DEF K, ties
<1>11. CASE K = 1 /\ \E p : /\ pairs = {p} /\ Cardinality(all \ {p}) >= 3
                            /\ ties = <<p>> \o HighestValue(all \ {p}, 3)
  <2>1. PICK p : /\ pairs = {p} /\ Cardinality(all \ {p}) >= 3
                 /\ ties = <<p>> \o HighestValue(all \ {p}, 3)
    BY <1>11
  <2>2. p \in Values(X) /\ 2 <= Held(X, p)  BY <1>2, <2>1 DEF all
  <2>3. 3 <= Cardinality(Values(X) \ {p})
    <3>1. Cardinality(Values(X) \ {p}) \in Nat
      BY SomeCards, FS_Subset, FS_CardinalityType
    <3> QED  BY <2>1, <3>1 DEF all
  <2>4. 2 \in 2..3 /\ 3 \in 2..3 /\ 3 = 5 - 2 /\ 2 * 2 - 3 = 1  OBVIOUS
  <2>5. Reached(X, 1, <<p>> \o HighestValue(Values(X) \ {p}, 3))
    BY <2>2, <2>3, <2>4, GroupReached
  <2> QED  BY <1>11, <2>1, <2>5 DEF K, ties, all
<1>12. CASE /\ K = 0 /\ Flushes(X) = {} /\ Straights(all) = {}
            /\ Cardinality(all) >= 5 /\ ties = HighestValue(all, 5)
  BY <1>12, HighCardReached DEF K, ties, all
<1> QED  BY <1>3, <1>4, <1>5, <1>6, <1>7, <1>8, <1>9, <1>10, <1>11, <1>12

-----------------------------------------------------------------------------
(***************************************************************************)
(* The best hand.                                                           *)
(***************************************************************************)

\* Hands of the same length of which neither beats the other are the same.
LEMMA NeitherBeats ==
  ASSUME NEW a \in Seq(Int), NEW b \in Seq(Int), Len(a) = Len(b), ~Beats(a, b), ~Beats(b, a)
  PROVE  a = b
<1> SUFFICES ASSUME a # b PROVE FALSE  OBVIOUS
<1> DEFINE D == {i \in 1..Len(a) : a[i] # b[i]}
<1>1. D \in SUBSET Nat  OBVIOUS
<1>2. D # {}
  <2>1. SUFFICES ASSUME \A i \in 1..Len(a) : a[i] = b[i] PROVE FALSE  OBVIOUS
  <2> QED  BY <2>1
<1>3. PICK i \in D : \A j \in D : i <= j  BY <1>1, <1>2, LeastNat
<1>4. i \in 1..Len(a) /\ i \in 1..Len(b) /\ a[i] # b[i] /\ a[i] \in Int /\ b[i] \in Int
  BY <1>3
<1>5. \A j \in 1..(i - 1) : a[j] = b[j]
  <2> SUFFICES ASSUME NEW j \in 1..(i - 1), a[j] # b[j] PROVE FALSE  OBVIOUS
  <2>1. j \in 1..Len(a) /\ j < i  BY <1>4
  <2>2. j \in D  BY <2>1
  <2> QED  BY <1>3, <1>4, <2>1, <2>2
<1>6. ~(a[i] > b[i])  BY <1>4, <1>5 DEF Beats
<1>7. ~(b[i] > a[i])  BY <1>4, <1>5 DEF Beats
<1> QED  BY <1>4, <1>6, <1>7

\* How many ranks break the ties of a kind of hand.
TieLength(kind) ==
  IF kind \in {4, 8} THEN 1
  ELSE IF kind \in {6, 7} THEN 2
  ELSE IF kind \in {2, 3} THEN 3
  ELSE IF kind = 1 THEN 4
  ELSE 5

\* The kind leads, and decides how many follow.
LEMMA EvaluateShape ==
  ASSUME NEW X \in SUBSET Cards, Cardinality(X) = 7,
         NEW five \in SUBSET X, Cardinality(five) = 5
  PROVE  /\ Evaluate5(five) \in Seq(Int) /\ KindOf(five) \in 0..8
         /\ Evaluate5(five)[1] = KindOf(five)
         /\ Len(Evaluate5(five)) = 1 + TieLength(KindOf(five))
<1> DEFINE kind == KindOf(five)
           c == ByCount(five)
           n == Cardinality(Values(five))
           straight == StraightHigh(Values(five))
<1>1. /\ kind \in 0..8 /\ c \in Seq(Values(five)) /\ Len(c) = n
      /\ kind = 8 => \E t \in Steel(X) : straight = {t}
      /\ kind = 4 => \E t \in Straights(Values(X)) : straight = {t}
      /\ kind \notin {4, 8} => straight = {}
      /\ kind = 7 => n = 2
      /\ kind = 6 => n = 2
      /\ kind = 5 => n = 5
      /\ kind = 3 => n = 3
      /\ kind = 2 => n = 3
      /\ kind = 1 => n = 4
      /\ kind = 0 => n = 5
  BY FiveSeen
<1>2. /\ straight = {} => Evaluate5(five) = <<kind>> \o c
      /\ \A t : straight = {t} => Evaluate5(five) = <<kind>> \o <<t>>
  <2>1. five \in SUBSET Cards  OBVIOUS
  <2> QED  BY <2>1, Evaluates
<1>3. c \in Seq(Int)
  <2>1. five \in SUBSET Cards  OBVIOUS
  <2>2. Values(five) \in SUBSET (2..14)  BY <2>1, SomeCards
  <2>3. Values(five) \subseteq Int  BY <2>2
  <2> QED  BY <1>1, <2>3, SeqWider
<1>4. \A t : t \in Steel(X) \cup Straights(Values(X)) => t \in Int
  BY DEF Steel, Straights
<1> HIDE DEF kind, c, n, straight
<1>5. <<kind>> \in Seq(Int) /\ Len(<<kind>>) = 1 /\ <<kind>>[1] = kind  BY <1>1
<1>6. ASSUME NEW g \in Seq(Int), Evaluate5(five) = <<kind>> \o g, Len(g) = TieLength(kind)
      PROVE  /\ Evaluate5(five) \in Seq(Int) /\ Evaluate5(five)[1] = kind
             /\ Len(Evaluate5(five)) = 1 + TieLength(kind)
  <2> DEFINE k == <<kind>>
  <2>1. k \in Seq(Int) /\ Len(k) = 1 /\ k[1] = kind  BY <1>5
  <2> HIDE DEF k
  <2>2. 1 \in 1..Len(k)  BY <2>1
  <2>3. /\ k \o g \in Seq(Int) /\ Len(k \o g) = Len(k) + Len(g)
        /\ \A i \in 1..Len(k) : (k \o g)[i] = k[i]
    BY <2>1, Concat
  <2>4. Len(k \o g) = 1 + Len(g) /\ (k \o g)[1] = kind  BY <2>1, <2>2, <2>3
  <2> QED  BY <1>6, <2>3, <2>4 DEF k
<1>7. CASE kind \in {4, 8}
  <2>1. PICK t \in Int : straight = {t}  BY <1>1, <1>4, <1>7
  <2>2. <<t>> \in Seq(Int) /\ Len(<<t>>) = 1  OBVIOUS
  <2>3. TieLength(kind) = 1  BY <1>7 DEF TieLength
  <2> QED  BY <1>1, <1>2, <1>6, <2>1, <2>2, <2>3 DEF kind
<1>8. CASE kind \notin {4, 8}
  <2>1. TieLength(kind) = n  BY <1>1, <1>8 DEF TieLength
  <2> QED  BY <1>1, <1>2, <1>3, <1>6, <1>8, <2>1 DEF kind
<1> QED  BY <1>7, <1>8

\* The best five of seven cards are what the rules make of all seven.
LEMMA BestOfSeven ==
  ASSUME NEW X \in SUBSET Cards, Cardinality(X) = 7
  PROVE  BestHand(X) = ByTheRules(X)
<1> DEFINE hands == {Evaluate5(five) : five \in kSubset(5, X)}
           rules == ByTheRules(X)
<1>1. kSubset(5, X) = {five \in SUBSET X : Cardinality(five) = 5}  BY DEF kSubset
<1>2. rules \in hands
  <2>1. PICK five \in SUBSET X :
          Cardinality(five) = 5 /\ Evaluate5(five) = <<RulesKind(X)>> \o RulesTies(X)
    BY RulesReached DEF Reached
  <2>2. Evaluate5(five) = rules  BY <2>1, RulesParts
  <2> QED  BY <1>1, <2>1, <2>2
<1>3. \A g \in hands : ~Beats(g, rules)  BY <1>1, NoneBeatsRules
<1>4. ASSUME NEW h \in hands, \A g \in hands : ~Beats(g, h) PROVE h = rules
  <2>1. ~Beats(h, rules) /\ ~Beats(rules, h)  BY <1>2, <1>3, <1>4
  <2>2. PICK A \in SUBSET X : Cardinality(A) = 5 /\ h = Evaluate5(A)  BY <1>1
  <2>3. PICK B \in SUBSET X : Cardinality(B) = 5 /\ rules = Evaluate5(B)  BY <1>1, <1>2
  <2> HIDE DEF rules, hands
  <2>4. h \in Seq(Int) /\ KindOf(A) \in 0..8 /\ h[1] = KindOf(A)
        /\ Len(h) = 1 + TieLength(KindOf(A))
    BY <2>2, EvaluateShape
  <2>5. rules \in Seq(Int) /\ KindOf(B) \in 0..8 /\ rules[1] = KindOf(B)
        /\ Len(rules) = 1 + TieLength(KindOf(B))
    BY <2>3, EvaluateShape
  <2>6. \A kind \in 0..8 : TieLength(kind) \in Nat  BY DEF TieLength
  <2>7. 1 \in 1..Len(h) \cap 1..Len(rules)
    <3>1. TieLength(KindOf(A)) \in Nat /\ TieLength(KindOf(B)) \in Nat
      BY <2>4, <2>5, <2>6
    <3>2. Len(h) >= 1 /\ Len(rules) >= 1  BY <2>4, <2>5, <3>1
    <3> QED  BY <2>4, <2>5, <3>2
  <2>8. ~(h[1] > rules[1])  BY <2>1, <2>7 DEF Beats
  <2>9. ~(rules[1] > h[1])  BY <2>1, <2>7 DEF Beats
  <2>10. KindOf(A) = KindOf(B)  BY <2>4, <2>5, <2>8, <2>9
  <2> QED  BY <2>1, <2>4, <2>5, <2>10, NeitherBeats
<1> HIDE DEF hands, rules
<1>5. (CHOOSE h \in hands : \A g \in hands : ~Beats(g, h)) = rules
  BY <1>2, <1>3, <1>4
<1> QED  BY <1>5 DEF hands, rules, BestHand

\* Cards: two of them held or none, five on the board or none, none twice.
DealInv ==
  /\ deck \in SUBSET Cards /\ holeCards \in SUBSET Cards /\ community \in SUBSET Cards
  /\ holeCards # {} => Cardinality(holeCards) = 2
  /\ community # {} => holeCards # {} /\ Cardinality(community) = 5
  /\ holeCards \cap deck = {} /\ community \cap holeCards = {}

\* A deal begins so.
LEMMA DealInvInit == DealInit => DealInv
BY DeckAssumption DEF DealInit, DealInv, Cards

\* Dealing keeps it.
LEMMA DealInvNext == DealInv /\ [DealNext]_dealVars => DealInv'
<1> SUFFICES ASSUME DealInv, [DealNext]_dealVars PROVE DealInv'  OBVIOUS
<1>1. CASE DealHole
  <2>1. /\ holeCards' \in SUBSET deck /\ Cardinality(holeCards') = 2
        /\ deck' = deck \ holeCards' /\ community' = community
    BY <1>1 DEF DealHole, kSubset
  <2>2. community' = {}  BY <1>1, <2>1 DEF DealHole, DealInv
  <2> QED  BY <2>1, <2>2 DEF DealInv
<1>2. CASE DealCommunity
  <2>1. /\ community' \in SUBSET deck /\ Cardinality(community') = 5
        /\ deck' = deck \ community' /\ holeCards' = holeCards /\ holeCards # {}
    BY <1>2 DEF DealCommunity, kSubset
  <2> QED  BY <2>1 DEF DealInv
<1>3. CASE UNCHANGED dealVars  BY <1>3 DEF DealInv, dealVars
<1> QED  BY <1>1, <1>2, <1>3 DEF DealNext

\* The hole cards and the community cards are then seven cards.
LEMMA DealInvFollows == DealInv => BestHandFollowsTheRules
<1> SUFFICES ASSUME DealInv, community # {}
             PROVE  BestHand(holeCards \cup community) = ByTheRules(holeCards \cup community)
  BY DEF BestHandFollowsTheRules
<1>1. /\ holeCards \in SUBSET Cards /\ community \in SUBSET Cards
      /\ Cardinality(holeCards) = 2 /\ Cardinality(community) = 5
      /\ community \cap holeCards = {}
  BY DEF DealInv
<1>2. IsFiniteSet(holeCards) /\ IsFiniteSet(community)  BY <1>1, SomeCards
<1>3. Cardinality(holeCards \cup community)
        = Cardinality(holeCards) + Cardinality(community)
          - Cardinality(holeCards \cap community)
  BY <1>2, FS_Union
<1>4. Cardinality(holeCards \cap community) = 0
  <2>1. holeCards \cap community = {}  BY <1>1
  <2> QED  BY <2>1, FS_EmptySet
<1>5. Cardinality(holeCards \cup community) = 7  BY <1>1, <1>3, <1>4
<1>6. holeCards \cup community \in SUBSET Cards  BY <1>1
<1> QED  BY <1>5, <1>6, BestOfSeven

\* evaluateBestHand returns, of the 21 choices of five among the seven cards of a
\* player, the hand that the rules of poker find in the seven as a whole: whatever
\* the deck, in every deal.
THEOREM BestHandFollowsTheRulesAlways == DealSpec => []BestHandFollowsTheRules
<1>1. DealSpec => []DealInv  BY DealInvInit, DealInvNext, PTL DEF DealSpec
<1> QED  BY <1>1, DealInvFollows, PTL
=============================================================================
