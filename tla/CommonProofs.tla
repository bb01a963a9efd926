---------------------------- MODULE CommonProofs ----------------------------
(***************************************************************************)
(* What the proofs about several components rest on: the seat arithmetic of *)
(* Positions; induction over numbers and over finite sets; the folds and    *)
(* sums of the community modules; recursion on numbers; and what a filter   *)
(* picks out of a sequence.                                                 *)
(***************************************************************************)
EXTENDS Positions, Filtering, FiniteSetTheorems, SequenceTheorems, TLAPS

\* The clockwise distance, the order that positions.ts gets by rotating an array,
\* is a number from 0 to 5.
LEMMA StepsType ==
  \A from, s \in Seats : StepsClockwise(from, s) \in 0..5
BY DEF StepsClockwise, Seats

\* Different seats are at different clockwise distances.
LEMMA StepsInjective ==
  \A from, s, t \in Seats :
    StepsClockwise(from, s) = StepsClockwise(from, t) => s = t
BY DEF StepsClockwise, Seats

\* A set of numbers from 0 to 5 that is not empty has a least element.
LEMMA LeastOfSix ==
  ASSUME NEW K \in SUBSET (0..5), K # {}
  PROVE  \E k \in K : \A j \in K : k <= j
<1>1. CASE 0 \in K  BY <1>1
<1>2. CASE 0 \notin K /\ 1 \in K  BY <1>2
<1>3. CASE 0 \notin K /\ 1 \notin K /\ 2 \in K  BY <1>3
<1>4. CASE 0 \notin K /\ 1 \notin K /\ 2 \notin K /\ 3 \in K  BY <1>4
<1>5. CASE 0 \notin K /\ 1 \notin K /\ 2 \notin K /\ 3 \notin K /\ 4 \in K
  BY <1>5
<1>6. CASE 0 \notin K /\ 1 \notin K /\ 2 \notin K /\ 3 \notin K /\ 4 \notin K
  <2>1. \A k \in K : k = 5  BY <1>6
  <2>2. PICK k \in K : TRUE  OBVIOUS
  <2> QED  BY <2>1, <2>2
<1> QED  BY <1>1, <1>2, <1>3, <1>4, <1>5, <1>6

\* The search for the next seat finds one whenever there is one, and no seat of
\* the set is met before it.
LEMMA FirstClockwiseIn ==
  ASSUME NEW S \in SUBSET Seats, S # {}, NEW from \in Seats
  PROVE  /\ FirstClockwise(from, S) \in S
         /\ \A t \in S : StepsClockwise(from, FirstClockwise(from, S))
                           <= StepsClockwise(from, t)
<1> DEFINE K == {StepsClockwise(from, s) : s \in S}
<1>1. K \in SUBSET (0..5) /\ K # {}  BY StepsType
<1>2. PICK k \in K : \A j \in K : k <= j  BY <1>1, LeastOfSix
<1>3. PICK s \in S : StepsClockwise(from, s) = k  BY <1>2
<1>4. \A t \in S : StepsClockwise(from, s) <= StepsClockwise(from, t)
  BY <1>2, <1>3
<1> QED  BY <1>3, <1>4 DEF FirstClockwise

-----------------------------------------------------------------------------
\* Sums and counts over the seats are natural numbers.
LEMMA TotalType ==
  ASSUME NEW f \in [Seats -> Nat]
  PROVE  /\ Total(f) \in Nat
         /\ \A s \in Seats : f[s] <= Total(f)
<1>1. /\ f[0] \in Nat /\ f[1] \in Nat /\ f[2] \in Nat
      /\ f[3] \in Nat /\ f[4] \in Nat /\ f[5] \in Nat
  BY DEF Seats
<1> QED  BY <1>1 DEF Total, Seats

\* A count of seats is at most six, and positive when it counts a seat.
LEMMA CountType ==
  ASSUME NEW S
  PROVE  /\ Count(S) \in 0..6
         /\ \A s \in Seats : s \in S => Count(S) > 0
<1> DEFINE f == [s \in Seats |-> IF s \in S THEN 1 ELSE 0]
<1>1. \A s \in Seats : f[s] \in 0..1 /\ (s \in S => f[s] = 1)  OBVIOUS
<1>2. /\ f[0] \in 0..1 /\ f[1] \in 0..1 /\ f[2] \in 0..1
      /\ f[3] \in 0..1 /\ f[4] \in 0..1 /\ f[5] \in 0..1
  BY <1>1 DEF Seats
<1>3. Count(S) = f[0] + f[1] + f[2] + f[3] + f[4] + f[5]  BY DEF Count, Total
<1> HIDE DEF f
<1>4. Count(S) \in 0..6  BY <1>2, <1>3
<1>5. ASSUME NEW s \in Seats, s \in S  PROVE Count(S) > 0
  <2>1. f[s] = 1  BY <1>1, <1>5
  <2> QED  BY <2>1, <1>2, <1>3 DEF Seats
<1> QED  BY <1>4, <1>5

\* The highest bet is the bet of some seat, and no bet is higher.
LEMMA HighestIs ==
  ASSUME NEW f \in [Seats -> Nat]
  PROVE  /\ Highest(f) \in Nat
         /\ \A s \in Seats : f[s] <= Highest(f)
         /\ \E s \in Seats : f[s] = Highest(f)
<1>1. /\ f[0] \in Nat /\ f[1] \in Nat /\ f[2] \in Nat
      /\ f[3] \in Nat /\ f[4] \in Nat /\ f[5] \in Nat
  BY DEF Seats
<1>2. \A a, b \in Nat : /\ Max2(a, b) \in Nat /\ a <= Max2(a, b) /\ b <= Max2(a, b)
                        /\ Max2(a, b) \in {a, b}
  BY DEF Max2
<1> DEFINE h4 == Max2(f[4], f[5])
           h3 == Max2(f[3], h4)
           h2 == Max2(f[2], h3)
           h1 == Max2(f[1], h2)
           h0 == Max2(f[0], h1)
<1>3. h4 \in Nat /\ f[4] <= h4 /\ f[5] <= h4 /\ h4 \in {f[4], f[5]}
  BY <1>1, <1>2
<1>4. h3 \in Nat /\ f[3] <= h3 /\ h4 <= h3 /\ h3 \in {f[3], h4}
  BY <1>1, <1>2, <1>3
<1>5. h2 \in Nat /\ f[2] <= h2 /\ h3 <= h2 /\ h2 \in {f[2], h3}
  BY <1>1, <1>2, <1>4
<1>6. h1 \in Nat /\ f[1] <= h1 /\ h2 <= h1 /\ h1 \in {f[1], h2}
  BY <1>1, <1>2, <1>5
<1>7. h0 \in Nat /\ f[0] <= h0 /\ h1 <= h0 /\ h0 \in {f[0], h1}
  BY <1>1, <1>2, <1>6
<1>8. Highest(f) = h0  BY DEF Highest
<1> HIDE DEF h0, h1, h2, h3, h4
<1>9. \A s \in Seats : f[s] <= h0
  BY <1>1, <1>3, <1>4, <1>5, <1>6, <1>7 DEF Seats
<1>10. h0 \in {f[0], f[1], f[2], f[3], f[4], f[5]}
  BY <1>3, <1>4, <1>5, <1>6, <1>7
<1> QED  BY <1>7, <1>8, <1>9, <1>10 DEF Seats

-----------------------------------------------------------------------------
\* The blinds and the first to act are dealt in, whoever deals.
LEMMA PreflopSeats ==
  ASSUME NEW dealt \in SUBSET Seats, NEW dealer \in dealt
  PROVE  /\ SmallBlindSeat(dealt, dealer) \in dealt
         /\ BigBlindSeat(dealt, dealer) \in dealt
         /\ FirstToActPreflop(dealt, dealer) \in dealt
<1>1. \A from \in Seats : FirstClockwise(from, dealt) \in dealt
  BY FirstClockwiseIn
<1>2. SmallBlindSeat(dealt, dealer) \in dealt  BY <1>1 DEF SmallBlindSeat
<1>3. BigBlindSeat(dealt, dealer) \in dealt  BY <1>1, <1>2 DEF BigBlindSeat
<1>4. FirstToActPreflop(dealt, dealer) \in dealt
  BY <1>1, <1>3 DEF FirstToActPreflop
<1> QED  BY <1>2, <1>3, <1>4

\* Two seats are two, and when two play, whoever folds leaves the other.
LEMMA CountOfTwo ==
  ASSUME NEW a \in Seats, NEW b \in Seats, a # b
  PROVE  Count({a, b}) = 2
<1> DEFINE f == [s \in Seats |-> IF s \in {a, b} THEN 1 ELSE 0]
<1>1. \A s \in Seats : \/ s \in {a, b} /\ f[s] = 1
                       \/ s \notin {a, b} /\ f[s] = 0
  OBVIOUS
<1>2. Count({a, b}) = f[0] + f[1] + f[2] + f[3] + f[4] + f[5]  BY DEF Count, Total
<1> HIDE DEF f
<1> QED  BY <1>1, <1>2 DEF Seats

\* Heads up there is one seat besides either of the two.
LEMMA OtherOfTwo ==
  ASSUME NEW dealt \in SUBSET Seats, HeadsUp(dealt), NEW a \in dealt
  PROVE  \E b \in Seats : dealt \ {a} = {b}
<1> DEFINE f == [s \in Seats |-> IF s \in dealt THEN 1 ELSE 0]
<1>1. \A s \in Seats : \/ s \in dealt /\ f[s] = 1
                       \/ s \notin dealt /\ f[s] = 0
  OBVIOUS
<1>2. f[0] + f[1] + f[2] + f[3] + f[4] + f[5] = 2  BY DEF HeadsUp, Count, Total
<1> HIDE DEF f
<1>3. f[a] = 1 /\ \A s \in Seats : f[s] \in 0..1  BY <1>1
<1>4. PICK b \in Seats : b # a /\ f[b] = 1
  BY <1>2, <1>3 DEF Seats
<1>5. \A s \in Seats : f[s] = 1 => s = a \/ s = b
  BY <1>2, <1>3, <1>4 DEF Seats
<1> QED  BY <1>1, <1>3, <1>4, <1>5

\* When three or more play, the first to act before the flop posted no blind.
LEMMA FirstToActIsNoBlind ==
  ASSUME NEW dealt \in SUBSET Seats, NEW dealer \in dealt, dealt # {dealer},
         ~HeadsUp(dealt)
  PROVE  /\ FirstToActPreflop(dealt, dealer) # SmallBlindSeat(dealt, dealer)
         /\ FirstToActPreflop(dealt, dealer) # BigBlindSeat(dealt, dealer)
<1> DEFINE sb == SmallBlindSeat(dealt, dealer)
           bb == BigBlindSeat(dealt, dealer)
           first == FirstToActPreflop(dealt, dealer)
<1>1. sb \in dealt /\ bb \in dealt /\ first \in dealt  BY PreflopSeats
<1>2. bb = FirstClockwise(sb, dealt) /\ first = FirstClockwise(bb, dealt)
  BY DEF BigBlindSeat, FirstToActPreflop
<1> HIDE DEF sb, bb, first
<1>3. /\ \A t \in dealt : StepsClockwise(sb, bb) <= StepsClockwise(sb, t)
      /\ \A t \in dealt : StepsClockwise(bb, first) <= StepsClockwise(bb, t)
  BY <1>1, <1>2, FirstClockwiseIn
<1>4. PICK other \in dealt : other # sb
  BY <1>1
<1>5. sb # bb
  <2>1. StepsClockwise(sb, bb) <= StepsClockwise(sb, other)  BY <1>3
  <2> QED  BY <1>1, <1>4, <2>1 DEF StepsClockwise, Seats
<1>6. PICK third \in dealt : third # sb /\ third # bb
  <2> SUFFICES ASSUME dealt = {sb, bb}  PROVE FALSE
    BY <1>1
  <2>1. Count(dealt) = 2  BY <1>1, <1>5, CountOfTwo
  <2> QED  BY <2>1 DEF HeadsUp
<1>7. /\ StepsClockwise(sb, bb) <= StepsClockwise(sb, third)
      /\ StepsClockwise(bb, first) <= StepsClockwise(bb, third)
  BY <1>3
<1>8. first # bb
  BY <1>1, <1>6, <1>7 DEF StepsClockwise, Seats
<1>9. first # sb
  BY <1>1, <1>5, <1>6, <1>7 DEF StepsClockwise, Seats
<1> QED  BY <1>8, <1>9 DEF first, sb, bb

-----------------------------------------------------------------------------
(* Induction.  The library's induction theorems take an operator, which no prover
   here instantiates; these take the SET of what satisfies the formula. *)

\* A set of finite sets that is not empty has a member that includes no other.
LEMMA LeastSet ==
  ASSUME NEW S, NEW T \in SUBSET FiniteSubsetsOf(S), T # {}
  PROVE  \E A \in T : \A B \in T : B \subseteq A => B = A
<1> DEFINE R == StrictSubsetOrdering(S)
<1>1. IsWellFoundedOn(R, FiniteSubsetsOf(S))
  BY FS_StrictSubsetOrderingWellFounded
<1> HIDE DEF R
<1>2. PICK A \in T : \A B \in T : <<B, A>> \notin R  BY <1>1, WFMin
<1>3. \A B \in T : ~(B \subseteq A /\ B # A)
  BY <1>2 DEF R, StrictSubsetOrdering, FiniteSubsetsOf
<1> QED  BY <1>3

\* A set of natural numbers that is not empty has a least one.
LEMMA LeastNat ==
  ASSUME NEW T \in SUBSET Nat, T # {}
  PROVE  \E n \in T : \A m \in T : n <= m
<1> DEFINE F == {0..n : n \in T}
<1>1. \A n \in T : IsFiniteSet(0..n)  BY FS_Interval
<1>2. \A n \in T : 0..n \in FiniteSubsetsOf(Nat)  BY <1>1 DEF FiniteSubsetsOf
<1>2a. F \in SUBSET FiniteSubsetsOf(Nat) /\ F # {}  BY <1>2
<1>4. \A A \in F : \E n \in T : A = 0..n  OBVIOUS
<1>5. \A n \in T : 0..n \in F  OBVIOUS
<1> HIDE DEF F
<1>3. PICK A \in F : \A B \in F : B \subseteq A => B = A  BY <1>2a, LeastSet
<1>6. PICK n \in T : A = 0..n  BY <1>4
<1>7. ASSUME NEW m \in T, m < n PROVE FALSE
  <2>1. 0..m \in F /\ 0..m \subseteq A /\ n \notin 0..m /\ n \in A  BY <1>5, <1>6, <1>7
  <2> QED  BY <2>1, <1>3
<1> QED  BY <1>7

\* A set that holds 0 and, with a number, the next one, holds them all.
LEMMA NumberInduction ==
  ASSUME NEW P, 0 \in P, \A n \in Nat : n \in P => n + 1 \in P
  PROVE  Nat \subseteq P
<1> SUFFICES ASSUME NEW k \in Nat, k \notin P PROVE FALSE  OBVIOUS
<1> DEFINE T == {n \in Nat : n \notin P}
<1>1. PICK n \in T : \A m \in T : n <= m  BY LeastNat
<1>2. n # 0  BY <1>1
<1>3. n - 1 \in Nat /\ n - 1 \notin T  BY <1>1, <1>2
<1> QED  BY <1>1, <1>2, <1>3

\* A set that holds {} and, with a finite set, the set with one more element, holds
\* every finite set.
LEMMA SetInduction ==
  ASSUME NEW S, NEW P, {} \in P,
         \A T \in SUBSET S : \A x \in S :
           IsFiniteSet(T) /\ T \in P /\ x \notin T => T \cup {x} \in P
  PROVE  \A T \in SUBSET S : IsFiniteSet(T) => T \in P
<1> SUFFICES ASSUME NEW U \in SUBSET S, IsFiniteSet(U), U \notin P PROVE FALSE
  OBVIOUS
<1> DEFINE F == {T \in FiniteSubsetsOf(S) : T \notin P}
<1>1. U \in F /\ F \in SUBSET FiniteSubsetsOf(S)  BY DEF FiniteSubsetsOf
<1>0. \A B : B \in F <=> B \in SUBSET S /\ IsFiniteSet(B) /\ B \notin P
  BY DEF FiniteSubsetsOf
<1> HIDE DEF F
<1>2. PICK A \in F : \A B \in F : B \subseteq A => B = A  BY <1>1, LeastSet
<1>3. A \in SUBSET S /\ IsFiniteSet(A) /\ A \notin P  BY <1>0
<1>4. PICK x \in A : TRUE  BY <1>3
<1> DEFINE B == A \ {x}
<1>5. B \in SUBSET S /\ IsFiniteSet(B) /\ x \notin B /\ A = B \cup {x} /\ x \in S
  BY <1>3, FS_RemoveElement
<1>6. B \in P  BY <1>2, <1>5, <1>0
<1> QED  BY <1>3, <1>5, <1>6

-----------------------------------------------------------------------------
(* Folds.  The community modules' folds are recursive functions over the subsets of
   a set; `pick` is the order the elements are taken in. *)

\* h is the fold over every part of S.
FoldEquation(h, S, pick, base, step) ==
  h = [s \in SUBSET S |->
         IF s = {} THEN base ELSE step[<<pick[s], h[s \ {pick[s]}]>>]]

\* A fold over a finite set exists, and its values are those it may have.
LEMMA FoldExists ==
  ASSUME NEW S, IsFiniteSet(S), NEW V, NEW base \in V, NEW step \in [S \X V -> V],
         NEW pick, \A s \in SUBSET S : s # {} => pick[s] \in s
  PROVE  \E h \in [SUBSET S -> V] : FoldEquation(h, S, pick, base, step)
<1> DEFINE Small(n) == {s \in SUBSET S : Cardinality(s) <= n}
           Approx(n, h) ==
             \A s \in Small(n) :
               h[s] = IF s = {} THEN base ELSE step[<<pick[s], h[s \ {pick[s]}]>>]
           P == {n \in Nat : \E h \in [SUBSET S -> V] : Approx(n, h)}
<1>1. \A s \in SUBSET S : IsFiniteSet(s) /\ Cardinality(s) \in Nat
  BY FS_Subset, FS_CardinalityType
<1>2. 0 \in P
  <2>1. Small(0) \subseteq {{}}  BY <1>1, FS_EmptySet
  <2> DEFINE h == [s \in SUBSET S |-> base]
  <2>2. h \in [SUBSET S -> V] /\ Approx(0, h)  BY <2>1
  <2> QED  BY <2>2
<1>3. ASSUME NEW n \in Nat, n \in P PROVE n + 1 \in P
  <2>1. PICK g \in [SUBSET S -> V] : Approx(n, g)  BY <1>3
  <2> DEFINE h == [s \in SUBSET S |->
                     IF s = {} THEN base ELSE step[<<pick[s], g[s \ {pick[s]}]>>]]
  <2>2. h \in [SUBSET S -> V]  OBVIOUS
  <2>3. \A s \in Small(n) : h[s] = g[s]  BY <2>1
  <2>4. ASSUME NEW s \in Small(n + 1), s # {} PROVE s \ {pick[s]} \in Small(n)
    <3>1. pick[s] \in s  BY <2>4
    <3>2. Cardinality(s \ {pick[s]}) = Cardinality(s) - 1
      BY <1>1, <3>1, FS_RemoveElement
    <3> QED  BY <1>1, <3>2
  <2>5. Approx(n + 1, h)  BY <2>3, <2>4
  <2> HIDE DEF h, Approx
  <2> QED  BY <2>2, <2>5
<1> HIDE DEF P
<1>4. Nat \subseteq P  BY <1>2, <1>3, NumberInduction
<1>5. Cardinality(S) \in P  BY <1>1, <1>4
<1>6. PICK h \in [SUBSET S -> V] : Approx(Cardinality(S), h)  BY <1>5 DEF P
<1>7. \A s \in SUBSET S : s \in Small(Cardinality(S))  BY <1>1, FS_Subset
<1>8. FoldEquation(h, S, pick, base, step)
  BY <1>6, <1>7 DEF FoldEquation
<1> QED  BY <1>8

-----------------------------------------------------------------------------
(* Sums. *)

\* The sum of f over s, as the community modules define it.
SumOf(f, s) == MapThenSumSet(LAMBDA x : f[x], s)

\* h sums f over every part of S.
SumEquation(h, S, f) ==
  h = [s \in SUBSET S |->
         IF s = {} THEN 0
         ELSE f[CHOOSE x \in s : TRUE] + h[s \ {CHOOSE x \in s : TRUE}]]

\* The recursive function of a sum is there, takes integer values, and is the only one.
LEMMA SumFold ==
  ASSUME NEW S, IsFiniteSet(S), NEW f, \A x \in S : f[x] \in Int
  PROVE  /\ \E h \in [SUBSET S -> Int] : SumEquation(h, S, f)
         /\ \A g, h : SumEquation(g, S, f) /\ SumEquation(h, S, f) => g = h
<1> DEFINE pick == [s \in SUBSET S |-> CHOOSE x \in s : TRUE]
           step == [p \in S \X Int |-> f[p[1]] + p[2]]
<1>1. \A s \in SUBSET S : s # {} => pick[s] \in s  OBVIOUS
<1>2. step \in [S \X Int -> Int]  OBVIOUS
<1> DEFINE V == Int
           base == 0
<1>2a. base \in V /\ step \in [S \X V -> V]  BY <1>2
<1>3. PICK h \in [SUBSET S -> Int] : FoldEquation(h, S, pick, 0, step)
  <2> HIDE DEF pick, step, V, base
  <2>1. \E h \in [SUBSET S -> V] : FoldEquation(h, S, pick, base, step)
    BY <1>1, <1>2a, FoldExists
  <2> QED  BY <2>1 DEF V, base
<1>4. \A s \in SUBSET S : s # {} =>
        /\ pick[s] = CHOOSE x \in s : TRUE
        /\ (CHOOSE x \in s : TRUE) \in S
  OBVIOUS
<1>5. \A x \in S, v \in Int : step[<<x, v>>] = f[x] + v  OBVIOUS
<1> HIDE DEF pick, step
<1>6. \A s \in SUBSET S : s # {} => h[s \ {pick[s]}] \in Int  BY <1>3
<1>7. SumEquation(h, S, f)
  <2>1. \A s \in SUBSET S : s # {} =>
          h[s] = f[pick[s]] + h[s \ {pick[s]}]
    <3> SUFFICES ASSUME NEW s \in SUBSET S, s # {}
                 PROVE  h[s] = f[pick[s]] + h[s \ {pick[s]}]
      OBVIOUS
    <3>1. h[s] = step[<<pick[s], h[s \ {pick[s]}]>>]  BY <1>3 DEF FoldEquation
    <3>2. pick[s] \in S /\ h[s \ {pick[s]}] \in Int  BY <1>4, <1>6
    <3> QED  BY <3>1, <3>2, <1>5
  <2>2. h[{}] = 0  BY <1>3 DEF FoldEquation
  <2>3. \A s \in SUBSET S : h[s] =
          IF s = {} THEN 0
          ELSE f[CHOOSE x \in s : TRUE] + h[s \ {CHOOSE x \in s : TRUE}]
    BY <2>1, <2>2, <1>4
  <2>4. h = [s \in SUBSET S |-> h[s]]  BY <1>3
  <2> QED  BY <2>3, <2>4 DEF SumEquation
<1>8. ASSUME NEW g, NEW k, SumEquation(g, S, f), SumEquation(k, S, f)
      PROVE  g = k
  <2> DEFINE D == {s \in SUBSET S : g[s] # k[s]}
  <2>1. D = {}
    <3> SUFFICES ASSUME D # {} PROVE FALSE  OBVIOUS
    <3>1. D \in SUBSET FiniteSubsetsOf(S)  BY FS_Subset DEF FiniteSubsetsOf
    <3> HIDE DEF D
    <3>2. PICK A \in D : \A B \in D : B \subseteq A => B = A  BY <3>1, LeastSet
    <3>3. A \in SUBSET S /\ g[A] # k[A]  BY DEF D
    <3>4. A # {}  BY <3>3, <1>8 DEF SumEquation
    <3> DEFINE x == CHOOSE x \in A : TRUE
    <3>5. x \in A  BY <3>4
    <3>6. A \ {x} \notin D  BY <3>2, <3>5
    <3>7. g[A \ {x}] = k[A \ {x}]  BY <3>6, <3>3 DEF D
    <3>8. g[A] = f[x] + g[A \ {x}] /\ k[A] = f[x] + k[A \ {x}]
      BY <1>8, <3>3, <3>4 DEF SumEquation
    <3> QED  BY <3>3, <3>7, <3>8
  <2> QED  BY <2>1, <1>8 DEF SumEquation
<1> QED  BY <1>7, <1>8

\* h has the sums of f.
SumsAre(h, S, f) == \A T \in SUBSET S : SumOf(f, T) = h[T]

\* Every part of a set is summed by the same recursive function.
LEMMA SumIsFold ==
  ASSUME NEW S, IsFiniteSet(S), NEW f, \A x \in S : f[x] \in Int
  PROVE  \E h \in [SUBSET S -> Int] : SumEquation(h, S, f) /\ SumsAre(h, S, f)
<1>1. PICK h \in [SUBSET S -> Int] : SumEquation(h, S, f)  BY SumFold
<1>2. ASSUME NEW T \in SUBSET S PROVE SumOf(f, T) = h[T]
  <2> DEFINE g == CHOOSE k : SumEquation(k, T, f)
             r == [s \in SUBSET T |-> h[s]]
  <2>1. SumOf(f, T) = g[T]
    BY DEF SumOf, MapThenSumSet, MapThenFoldSet, SumEquation
  <2>2. IsFiniteSet(T)  BY FS_Subset
  <2>3. SumEquation(g, T, f)
    <3>1. \E k : SumEquation(k, T, f)  BY <2>2, SumFold
    <3> QED  BY <3>1
  <2>4. SumEquation(r, T, f)
    <3>1. \A s \in SUBSET T :
            /\ s \in SUBSET S
            /\ r[s] = h[s]
            /\ s # {} => r[s \ {CHOOSE x \in s : TRUE}] = h[s \ {CHOOSE x \in s : TRUE}]
      OBVIOUS
    <3>2. \A s \in SUBSET S : h[s] =
            IF s = {} THEN 0
            ELSE f[CHOOSE x \in s : TRUE] + h[s \ {CHOOSE x \in s : TRUE}]
      BY <1>1 DEF SumEquation
    <3>3. \A s \in SUBSET T : r[s] =
            IF s = {} THEN 0
            ELSE f[CHOOSE x \in s : TRUE] + r[s \ {CHOOSE x \in s : TRUE}]
      BY <3>1, <3>2
    <3> HIDE DEF g
    <3> QED  BY <3>3 DEF SumEquation
  <2> HIDE DEF g, r
  <2>5. g = r  BY <2>2, <2>3, <2>4, SumFold
  <2> QED  BY <2>1, <2>5 DEF r
<1> QED  BY <1>1, <1>2 DEF SumsAre

\* The empty sum is 0, sums of integers are integers, and one more element adds its value.
LEMMA SumFacts ==
  ASSUME NEW S, IsFiniteSet(S), NEW f, \A x \in S : f[x] \in Int
  PROVE  /\ SumOf(f, {}) = 0
         /\ \A T \in SUBSET S : SumOf(f, T) \in Int
         /\ \A T \in SUBSET S : \A x \in S \ T :
              SumOf(f, T \cup {x}) = SumOf(f, T) + f[x]
<1>1. PICK h \in [SUBSET S -> Int] : SumEquation(h, S, f) /\ SumsAre(h, S, f)
  BY SumIsFold
<1> DEFINE D == {T \in SUBSET S : \E x \in S \ T : h[T \cup {x}] # h[T] + f[x]}
           pick(s) == CHOOSE x \in s : TRUE
<1>2. \A s \in SUBSET S : s # {} =>
        /\ pick(s) \in s
        /\ h[s] = f[pick(s)] + h[s \ {pick(s)}]
        /\ h[s] \in Int /\ f[pick(s)] \in Int /\ h[s \ {pick(s)}] \in Int
  BY <1>1 DEF SumEquation
<1>3. D = {}
  <2> SUFFICES ASSUME D # {} PROVE FALSE  OBVIOUS
  <2>1. D \in SUBSET FiniteSubsetsOf(S)  BY FS_Subset DEF FiniteSubsetsOf
  <2> HIDE DEF D
  <2>2. PICK A \in D : \A B \in D : B \subseteq A => B = A  BY <2>1, LeastSet
  <2>3. A \in SUBSET S  BY DEF D
  <2>4. PICK x \in S \ A : h[A \cup {x}] # h[A] + f[x]  BY DEF D
  <2> DEFINE p == pick(A \cup {x})
  <2>5. /\ p \in A \cup {x}
        /\ h[A \cup {x}] = f[p] + h[(A \cup {x}) \ {p}]
    BY <1>2, <2>3, <2>4
  <2>6. f[x] \in Int /\ h[A] \in Int  BY <1>1, <2>3
  <2> HIDE DEF pick
  <2>7. p # x
    <3> SUFFICES ASSUME p = x PROVE FALSE  OBVIOUS
    <3> HIDE DEF p
    <3>1. (A \cup {x}) \ {p} = A  BY <2>4
    <3>2. h[A \cup {x}] = f[x] + h[A]  BY <3>1, <2>5
    <3> QED  BY <3>2, <2>4, <2>6
  <2> DEFINE B == A \ {p}
  <2>8. p \in A /\ p \in S /\ B \in SUBSET S /\ B # A /\ B \subseteq A /\ p \notin B
        /\ x \notin B /\ B \cup {p} = A /\ (A \cup {x}) \ {p} = B \cup {x}
    BY <2>3, <2>4, <2>5, <2>7
  <2> HIDE DEF p, B
  <2>9. B \notin D  BY <2>2, <2>8
  <2>10. h[B \cup {x}] = h[B] + f[x] /\ h[B \cup {p}] = h[B] + f[p]
    BY <2>8, <2>9 DEF D
  <2>11. h[B] \in Int /\ f[p] \in Int  BY <1>1, <2>8
  <2>12. h[A \cup {x}] = f[p] + (h[B] + f[x]) /\ h[A] = h[B] + f[p]
    BY <2>5, <2>8, <2>10
  <2> QED  BY <2>4, <2>6, <2>11, <2>12
<1>4. h[{}] = 0  BY <1>1 DEF SumEquation
<1> HIDE DEF pick
<1>5. \A T \in SUBSET S : \A x \in S \ T : T \cup {x} \in SUBSET S  OBVIOUS
<1>6. \A T \in SUBSET S : \A x \in S \ T : h[T \cup {x}] = h[T] + f[x]  BY <1>3
<1>7. \A T \in SUBSET S : SumOf(f, T) = h[T]  BY <1>1 DEF SumsAre
<1> HIDE DEF D
<1>8. SumOf(f, {}) = 0  BY <1>4, <1>7
<1>9. \A T \in SUBSET S : SumOf(f, T) \in Int  BY <1>1, <1>7
<1>10. \A T \in SUBSET S : \A x \in S \ T :
         SumOf(f, T \cup {x}) = SumOf(f, T) + f[x]
  BY <1>5, <1>6, <1>7
<1> QED  BY <1>8, <1>9, <1>10
-----------------------------------------------------------------------------
(* The least and the greatest of a set of numbers. *)

\* Min finds the least of a set of natural numbers.
LEMMA MinIs ==
  ASSUME NEW T \in SUBSET Nat, T # {}
  PROVE  Min(T) \in T /\ \A m \in T : Min(T) <= m
<1>1. \E n \in T : \A m \in T : n <= m  BY LeastNat
<1> QED  BY <1>1 DEF Min

\* Max finds the greatest of a finite set of natural numbers.
LEMMA MaxIs ==
  ASSUME NEW T \in SUBSET Nat, T # {}, IsFiniteSet(T)
  PROVE  Max(T) \in T /\ \A m \in T : Max(T) >= m
<1> DEFINE U == {n \in Nat : \A m \in T : m <= n}
<1>1. U # {}
  <2> DEFINE P == {B \in SUBSET Nat : \E n \in Nat : \A m \in B : m <= n}
  <2>1. {} \in P  OBVIOUS
  <2>2. ASSUME NEW B \in SUBSET Nat, NEW x \in Nat, B \in P PROVE B \cup {x} \in P
    <3>1. PICK n \in Nat : \A m \in B : m <= n  BY <2>2
    <3>2. n + x \in Nat /\ \A m \in B \cup {x} : m <= n + x  BY <3>1
    <3> QED  BY <3>2
  <2> HIDE DEF P
  <2>3. T \in P  BY <2>1, <2>2, SetInduction
  <2>4. \E n \in Nat : \A m \in T : m <= n  BY <2>3 DEF P
  <2> QED  BY <2>4
<1>2. PICK n \in U : \A k \in U : n <= k  BY <1>1, LeastNat
<1>3. n \in T
  <2> SUFFICES ASSUME n \notin T PROVE FALSE  OBVIOUS
  <2>1. PICK m \in T : TRUE  OBVIOUS
  <2>2. m <= n /\ m # n /\ m \in Nat /\ n \in Nat  BY <1>2
  <2>3. n - 1 \in Nat /\ \A k \in T : k <= n - 1  BY <2>2, <1>2
  <2> QED  BY <2>3, <1>2
<1>4. \E k \in T : \A m \in T : k >= m  BY <1>2, <1>3
<1> QED  BY <1>4 DEF Max

-----------------------------------------------------------------------------
(* Recursion on the numbers up to n. *)

\* f is defined by recursion up to n.
RecursionEquation(f, n, base, step) ==
  f[0] = base /\ \A i \in 1..n : f[i] = step[<<i, f[i - 1]>>]

\* A function defined from 0 to n, each value from the one before, exists.
LEMMA NumberRecursion ==
  ASSUME NEW n \in Nat, NEW V, NEW base \in V, NEW step \in [(1..n) \X V -> V]
  PROVE  \E f \in [0..n -> V] : RecursionEquation(f, n, base, step)
<1> DEFINE Upto(m, f) == f[0] = base /\ \A i \in 1..m : f[i] = step[<<i, f[i - 1]>>]
           P == {m \in Nat : m <= n => \E f \in [0..n -> V] : Upto(m, f)}
<1>1. 0 \in P
  <2>1. [i \in 0..n |-> base] \in [0..n -> V] /\ Upto(0, [i \in 0..n |-> base])
    OBVIOUS
  <2> QED  BY <2>1
<1>2. ASSUME NEW m \in Nat, m \in P PROVE m + 1 \in P
  <2> SUFFICES ASSUME m + 1 <= n PROVE \E f \in [0..n -> V] : Upto(m + 1, f)
    OBVIOUS
  <2>1. PICK g \in [0..n -> V] : Upto(m, g)  BY <1>2
  <2> DEFINE f == [g EXCEPT ![m + 1] = step[<<m + 1, g[m]>>]]
  <2>2. m \in 0..n /\ m + 1 \in 1..n /\ step[<<m + 1, g[m]>>] \in V  OBVIOUS
  <2>3. f \in [0..n -> V]  BY <2>2
  <2>4. f[m + 1] = step[<<m + 1, g[m]>>] /\ \A i \in 0..n : i # m + 1 => f[i] = g[i]
    BY <2>2
  <2> HIDE DEF f
  <2>5. Upto(m + 1, f)
    <3>1. f[0] = base  BY <2>1, <2>2, <2>4
    <3>2. ASSUME NEW i \in 1..(m + 1) PROVE f[i] = step[<<i, f[i - 1]>>]
      <4>1. i - 1 \in 0..n /\ i - 1 # m + 1 /\ f[i - 1] = g[i - 1]  BY <2>2, <2>4
      <4>2. CASE i = m + 1  BY <4>1, <4>2, <2>4
      <4>3. CASE i # m + 1
        <5>1. i \in 1..m /\ i \in 0..n  BY <4>3, <2>2
        <5> QED  BY <5>1, <4>1, <4>3, <2>1, <2>4
      <4> QED  BY <4>2, <4>3
    <3> QED  BY <3>1, <3>2
  <2> QED  BY <2>3, <2>5
<1> HIDE DEF P
<1>3. n \in P  BY <1>1, <1>2, NumberInduction
<1> QED  BY <1>3 DEF P, RecursionEquation

-----------------------------------------------------------------------------
(* What is picked out of a sequence. *)

\* k is what the first n of s have in S, in their order.
Picked(k, s, S, n) ==
  /\ \A a \in 1..Len(k) : k[a] \in S
  /\ \E at \in [1..Len(k) -> 1..n] :
       /\ \A a, b \in 1..Len(k) : a < b => at[a] < at[b]
       /\ \A a \in 1..Len(k) : k[a] = s[at[a]]
       /\ \A i \in 1..n : s[i] \in S => \E a \in 1..Len(k) : at[a] = i

\* One more member is picked, or not.
LEMMA PickedNext ==
  ASSUME NEW E, NEW s \in Seq(E), NEW S, NEW n \in Nat, n < Len(s),
         NEW k \in Seq(E), Picked(k, s, S, n)
  PROVE  /\ s[n + 1] \in S => /\ Append(k, s[n + 1]) \in Seq(E)
                               /\ Picked(Append(k, s[n + 1]), s, S, n + 1)
         /\ s[n + 1] \notin S => Picked(k, s, S, n + 1)
<1>1. PICK at \in [1..Len(k) -> 1..n] :
        /\ \A a, b \in 1..Len(k) : a < b => at[a] < at[b]
        /\ \A a \in 1..Len(k) : k[a] = s[at[a]]
        /\ \A i \in 1..n : s[i] \in S => \E a \in 1..Len(k) : at[a] = i
  BY DEF Picked
<1>2. s[n + 1] \in E /\ Len(k) \in Nat  OBVIOUS
<1>3. CASE s[n + 1] \in S
  <2> DEFINE m == Append(k, s[n + 1])
             on == [a \in 1..(Len(k) + 1) |-> IF a = Len(k) + 1 THEN n + 1 ELSE at[a]]
  <2>1. /\ m \in Seq(E) /\ Len(m) = Len(k) + 1 /\ m[Len(k) + 1] = s[n + 1]
        /\ \A a \in 1..Len(k) : m[a] = k[a]
    BY <1>2, AppendProperties
  <2>2. /\ on \in [1..(Len(k) + 1) -> 1..(n + 1)] /\ on[Len(k) + 1] = n + 1
        /\ \A a \in 1..Len(k) : on[a] = at[a] /\ at[a] \in 1..n
    <3>1. \A a \in 1..Len(k) : at[a] \in 1..n /\ at[a] \in 1..(n + 1) /\ a # Len(k) + 1
      BY <1>1, <1>2
    <3>2. Len(k) + 1 \in 1..(Len(k) + 1) /\ n + 1 \in 1..(n + 1)
          /\ \A a \in 1..(Len(k) + 1) : a # Len(k) + 1 => a \in 1..Len(k)
      BY <1>2
    <3> QED  BY <3>1, <3>2
  <2> HIDE DEF m, on
  <2>9. \A a \in 1..Len(m) : a = Len(k) + 1 \/ a \in 1..Len(k)  BY <1>2, <2>1
  <2>3. \A a \in 1..Len(m) : m[a] \in S  BY <1>3, <2>1, <2>9 DEF Picked
  <2>4. ASSUME NEW a \in 1..Len(m), NEW b \in 1..Len(m), a < b PROVE on[a] < on[b]
    <3>1. a \in 1..Len(k)  BY <2>4, <1>2, <2>1
    <3>2. CASE b = Len(k) + 1  BY <3>1, <3>2, <2>2
    <3>3. CASE b \in 1..Len(k)  BY <3>1, <3>3, <2>4, <1>1, <2>2
    <3> QED  BY <3>2, <3>3, <2>9
  <2>5. ASSUME NEW a \in 1..Len(m) PROVE m[a] = s[on[a]]
    <3>1. CASE a = Len(k) + 1  BY <3>1, <2>1, <2>2
    <3>2. CASE a # Len(k) + 1
      <4>1. a \in 1..Len(k)  BY <3>2, <2>9
      <4> QED  BY <4>1, <1>1, <2>1, <2>2
    <3> QED  BY <3>1, <3>2
  <2>6. \A i \in 1..(n + 1) : s[i] \in S => \E a \in 1..Len(m) : on[a] = i
    <3> SUFFICES ASSUME NEW i \in 1..(n + 1), s[i] \in S
                 PROVE  \E a \in 1..Len(m) : on[a] = i
      OBVIOUS
    <3>1. CASE i = n + 1  BY <3>1, <1>2, <2>1, <2>2
    <3>2. CASE i # n + 1
      <4>1. i \in 1..n  BY <3>2
      <4>2. PICK a \in 1..Len(k) : at[a] = i  BY <4>1, <1>1
      <4> QED  BY <4>2, <1>2, <2>1, <2>2
    <3> QED  BY <3>1, <3>2
  <2>7. on \in [1..Len(m) -> 1..(n + 1)]  BY <2>1, <2>2
  <2>8. Picked(m, s, S, n + 1)  BY <2>7, <2>3, <2>4, <2>5, <2>6 DEF Picked
  <2> QED  BY <1>3, <2>1, <2>8 DEF m
<1>4. CASE s[n + 1] \notin S
  <2>1. at \in [1..Len(k) -> 1..(n + 1)]  OBVIOUS
  <2>2. \A i \in 1..(n + 1) : s[i] \in S => \E a \in 1..Len(k) : at[a] = i
    BY <1>1, <1>4
  <2>3. Picked(k, s, S, n + 1)  BY <1>1, <2>1, <2>2 DEF Picked
  <2> QED  BY <1>4, <2>3
<1> QED  BY <1>3, <1>4

\* Those picks what is in S out of the whole sequence.
LEMMA ThosePicked ==
  ASSUME NEW E, NEW s \in Seq(E), NEW S
  PROVE  Those(s, S) \in Seq(E) /\ Picked(Those(s, S), s, S, Len(s))
<1> DEFINE V == Seq(E)
           base == <<>>
           step == [p \in (1..Len(s)) \X V |->
                      IF s[p[1]] \in S THEN Append(p[2], s[p[1]]) ELSE p[2]]
           Rec(f) == f = [i \in 0..Len(s) |->
                       IF i = 0 THEN <<>>
                       ELSE IF s[i] \in S THEN Append(f[i - 1], s[i]) ELSE f[i - 1]]
           kept == CHOOSE f : Rec(f)
<1>1. Len(s) \in Nat /\ \A i \in 1..Len(s) : s[i] \in E  OBVIOUS
<1>2. base \in V /\ step \in [(1..Len(s)) \X V -> V]  OBVIOUS
<1>3. \A i \in 1..Len(s), v \in V :
        step[<<i, v>>] = IF s[i] \in S THEN Append(v, s[i]) ELSE v
  OBVIOUS
<1>4. PICK f \in [0..Len(s) -> V] : RecursionEquation(f, Len(s), base, step)
  <2> HIDE DEF V, base, step
  <2> QED  BY <1>1, <1>2, NumberRecursion
<1>5. Rec(f)
  <2>1. \A i \in 1..Len(s) : i - 1 \in 0..Len(s)  BY <1>1
  <2>2. \A i \in 1..Len(s) : f[i - 1] \in V  BY <1>4, <2>1
  <2>3. f[0] = <<>>  BY <1>4 DEF RecursionEquation
  <2>4. \A i \in 1..Len(s) :
          f[i] = IF s[i] \in S THEN Append(f[i - 1], s[i]) ELSE f[i - 1]
    <3> HIDE DEF step, V
    <3> QED  BY <1>3, <1>4, <2>2 DEF RecursionEquation
  <2>5. \A i \in 0..Len(s) : i # 0 => i \in 1..Len(s)  BY <1>1
  <2>6. f = [i \in 0..Len(s) |-> f[i]]  BY <1>4
  <2> QED  BY <2>3, <2>4, <2>5, <2>6
<1>6. Rec(kept)  BY <1>5
<1>7. Those(s, S) = kept[Len(s)]  BY DEF Those
<1> HIDE DEF kept
<1>8. /\ kept[0] = <<>>
      /\ \A i \in 1..Len(s) :
           kept[i] = IF s[i] \in S THEN Append(kept[i - 1], s[i]) ELSE kept[i - 1]
  <2>1. 0 \in 0..Len(s) /\ \A i \in 1..Len(s) : i \in 0..Len(s) /\ i # 0  BY <1>1
  <2> QED  BY <1>6, <2>1
<1> HIDE DEF Rec, step, V, base
<1> DEFINE P == {n \in Nat : n <= Len(s) =>
                   kept[n] \in Seq(E) /\ Picked(kept[n], s, S, n)}
<1>9. 0 \in P
  <2>1. Len(<<>>) = 0 /\ <<>> \in Seq(E)  OBVIOUS
  <2>2. [a \in 1..0 |-> 0] \in [1..0 -> 1..0]  OBVIOUS
  <2>3. Picked(<<>>, s, S, 0)  BY <2>1, <2>2 DEF Picked
  <2> QED  BY <1>8, <2>1, <2>3
<1>10. ASSUME NEW n \in Nat, n \in P PROVE n + 1 \in P
  <2> SUFFICES ASSUME n + 1 <= Len(s)
               PROVE  kept[n + 1] \in Seq(E) /\ Picked(kept[n + 1], s, S, n + 1)
    OBVIOUS
  <2>1. n < Len(s) /\ kept[n] \in Seq(E) /\ Picked(kept[n], s, S, n)  BY <1>1, <1>10
  <2>2. kept[n + 1] = IF s[n + 1] \in S THEN Append(kept[n], s[n + 1]) ELSE kept[n]
    BY <1>1, <1>8
  <2> QED  BY <2>1, <2>2, PickedNext
<1> HIDE DEF P
<1>11. Len(s) \in P  BY <1>1, <1>9, <1>10, NumberInduction
<1> QED  BY <1>1, <1>7, <1>11 DEF P

\* A function on the first numbers is a sequence.
LEMMA SequenceIs ==
  ASSUME NEW n \in Nat, NEW T, NEW f \in [1..n -> T]
  PROVE  f \in Seq(T) /\ Len(f) = n
  OBVIOUS

\* A function on the numbers up to n is a sequence of whatever its values are.
LEMMA ListIs ==
  ASSUME NEW n \in Nat, NEW f, f = [i \in 1..n |-> f[i]]
  PROVE  f \in Seq({f[i] : i \in 1..n}) /\ Len(f) = n /\ DOMAIN f = 1..n
<1> DEFINE T == {f[i] : i \in 1..n}
<1>1. f \in [1..n -> T]  OBVIOUS
<1>2. DOMAIN f = 1..n  OBVIOUS
<1> HIDE DEF T
<1>3. f \in Seq(T) /\ Len(f) = n  BY <1>1, SequenceIs
<1> QED  BY <1>2, <1>3 DEF T

\* A finite set is listed by SetToSeq.
LEMMA SetToSeqIs ==
  ASSUME NEW T, IsFiniteSet(T)
  PROVE  SetToSeq(T) \in Seq(T)
<1>1. Cardinality(T) \in Nat /\ ExistsBijection(1..Cardinality(T), T)
  BY FS_CardinalityType
<1>2. \E f \in [1..Cardinality(T) -> T] : IsInjective(f)
  BY <1>1 DEF ExistsBijection, Bijection, Injection, IsInjective
<1>3. SetToSeq(T) \in [1..Cardinality(T) -> T]  BY <1>2 DEF SetToSeq
<1> QED  BY <1>1, <1>3, SequenceIs

-----------------------------------------------------------------------------
\* flat[i] is what the first i of the sequences make, one after the other.
Flattening(flat, seqs) ==
  /\ flat[1] = seqs[1]
  /\ \A i \in 2..Len(seqs) : flat[i] = flat[i - 1] \o seqs[i]
  /\ FlattenSeq(seqs) = flat[Len(seqs)]

\* FlattenSeq puts sequences one after the other.
LEMMA FlattenIs ==
  ASSUME NEW E, NEW seqs \in Seq(Seq(E)), seqs # <<>>
  PROVE  \E flat \in [1..Len(seqs) -> Seq(E)] : Flattening(flat, seqs)
<1> DEFINE V == Seq(E)
           m == Len(seqs) - 1
           base == seqs[1]
           step == [p \in (1..m) \X V |-> p[2] \o seqs[p[1] + 1]]
           Rec(f) == f = [i \in 1..Len(seqs) |->
                            IF i = 1 THEN seqs[i] ELSE f[i - 1] \o seqs[i]]
           flat == CHOOSE f : Rec(f)
<1>1. Len(seqs) \in Nat \ {0} /\ m \in Nat /\ \A i \in 1..Len(seqs) : seqs[i] \in V
  BY EmptySeq
<1>2. base \in V /\ step \in [(1..m) \X V -> V]
  <2>1. base \in V  BY <1>1
  <2>2. \A i \in 1..m, v \in V : v \o seqs[i + 1] \in V
    <3> SUFFICES ASSUME NEW i \in 1..m, NEW v \in V PROVE v \o seqs[i + 1] \in V
      OBVIOUS
    <3>1. seqs[i + 1] \in Seq(E)  BY <1>1
    <3> QED  BY <3>1, ConcatProperties
  <2> QED  BY <2>1, <2>2
<1>3. \A i \in 1..m, v \in V : step[<<i, v>>] = v \o seqs[i + 1]  OBVIOUS
<1>4. PICK g \in [0..m -> V] : RecursionEquation(g, m, base, step)
  <2> HIDE DEF V, m, base, step
  <2> QED  BY <1>1, <1>2, NumberRecursion
<1>5. PICK f : f = [i \in 1..Len(seqs) |-> g[i - 1]]  OBVIOUS
<1>6. f \in [1..Len(seqs) -> V]
  <2>1. \A i \in 1..Len(seqs) : i - 1 \in 0..m  BY <1>1
  <2>2. \A i \in 0..m : g[i] \in V  BY <1>4
  <2> HIDE DEF m, V
  <2>3. \A i \in 1..Len(seqs) : g[i - 1] \in V  BY <2>1, <2>2
  <2> QED  BY <1>5, <2>3
<1>7. Rec(f)
  <2>1. f[1] = seqs[1]  BY <1>1, <1>4, <1>5 DEF RecursionEquation
  <2>2. ASSUME NEW i \in 1..Len(seqs), i # 1 PROVE f[i] = f[i - 1] \o seqs[i]
    <3>1. i - 1 \in 1..m /\ i - 1 \in 1..Len(seqs) /\ (i - 1) + 1 = i  BY <1>1, <2>2
    <3>2. f[i] = g[i - 1] /\ f[i - 1] = g[(i - 1) - 1]  BY <1>5, <3>1
    <3>3. g[i - 1] = step[<<i - 1, g[(i - 1) - 1]>>]
      BY <1>4, <3>1 DEF RecursionEquation
    <3>4. f[i - 1] \in V  BY <1>6, <3>1
    <3> HIDE DEF step, V, m
    <3> QED  BY <3>1, <3>2, <3>3, <3>4, <1>3
  <2> QED  BY <1>5, <2>1, <2>2
<1>8. Rec(flat)  BY <1>7
<1>9. FlattenSeq(seqs) = flat[Len(seqs)]  BY <1>1 DEF FlattenSeq
<1>10. flat = f
  <2> SUFFICES \A i \in 1..Len(seqs) : flat[i] = f[i]
    <3>1. flat = [i \in 1..Len(seqs) |-> flat[i]]  BY <1>8
    <3>2. f = [i \in 1..Len(seqs) |-> f[i]]  BY <1>7
    <3> HIDE DEF flat, Rec
    <3> QED  BY <3>1, <3>2
  <2> HIDE DEF flat
  <2> DEFINE P == {n \in Nat : n + 1 <= Len(seqs) => flat[n + 1] = f[n + 1]}
  <2>1. 0 \in P  BY <1>1, <1>7, <1>8
  <2>2. ASSUME NEW n \in Nat, n \in P PROVE n + 1 \in P
    <3> SUFFICES ASSUME (n + 1) + 1 <= Len(seqs)
                 PROVE  flat[(n + 1) + 1] = f[(n + 1) + 1]
      OBVIOUS
    <3>1. /\ (n + 1) + 1 \in 1..Len(seqs) /\ (n + 1) + 1 # 1
          /\ ((n + 1) + 1) - 1 = n + 1 /\ flat[n + 1] = f[n + 1]
      BY <1>1, <2>2
    <3>2. flat[(n + 1) + 1] = flat[n + 1] \o seqs[(n + 1) + 1]  BY <3>1, <1>8
    <3>3. f[(n + 1) + 1] = f[n + 1] \o seqs[(n + 1) + 1]  BY <3>1, <1>7
    <3> QED  BY <3>1, <3>2, <3>3
  <2> HIDE DEF P
  <2>3. Nat \subseteq P  BY <2>1, <2>2, NumberInduction
  <2>4. ASSUME NEW i \in 1..Len(seqs) PROVE flat[i] = f[i]
    <3>1. i - 1 \in P /\ (i - 1) + 1 = i /\ i <= Len(seqs)  BY <2>3, <1>1
    <3> QED  BY <3>1 DEF P
  <2> QED  BY <2>4
<1>11. Flattening(f, seqs)
  <2>1. f[1] = seqs[1]  BY <1>1, <1>7
  <2>3. \A i \in 2..Len(seqs) : i \in 1..Len(seqs) /\ i # 1  BY <1>1
  <2>2. \A i \in 2..Len(seqs) : f[i] = f[i - 1] \o seqs[i]  BY <2>3, <1>7
  <2> HIDE DEF flat, Rec
  <2> QED  BY <2>1, <2>2, <1>9, <1>10 DEF Flattening
<1> QED  BY <1>6, <1>11 DEF V

\* What is picked of a whole sequence are its members in S.
LEMMA PickedAre ==
  ASSUME NEW E, NEW s \in Seq(E), NEW S, NEW k \in Seq(E), Picked(k, s, S, Len(s))
  PROVE  ToSet(k) = ToSet(s) \cap S
<1>1. PICK at \in [1..Len(k) -> 1..Len(s)] :
        /\ \A a \in 1..Len(k) : k[a] = s[at[a]]
        /\ \A i \in 1..Len(s) : s[i] \in S => \E a \in 1..Len(k) : at[a] = i
  BY DEF Picked
<1>2. DOMAIN k = 1..Len(k) /\ DOMAIN s = 1..Len(s)  OBVIOUS
<1>3. \A a \in 1..Len(k) : k[a] \in S /\ k[a] = s[at[a]] /\ at[a] \in 1..Len(s)
  BY <1>1 DEF Picked
<1>4. ASSUME NEW i \in 1..Len(s), s[i] \in S PROVE \E a \in 1..Len(k) : k[a] = s[i]
  BY <1>1, <1>4
<1>5. ASSUME NEW x \in ToSet(k) PROVE x \in ToSet(s) \cap S
  <2>1. PICK a \in 1..Len(k) : x = k[a]  BY <1>2, <1>5 DEF ToSet
  <2> QED  BY <2>1, <1>2, <1>3 DEF ToSet
<1>6. ASSUME NEW x \in ToSet(s), x \in S PROVE x \in ToSet(k)
  <2>1. PICK i \in 1..Len(s) : x = s[i]  BY <1>2, <1>6 DEF ToSet
  <2> QED  BY <2>1, <1>2, <1>4, <1>6 DEF ToSet
<1> QED  BY <1>5, <1>6
=============================================================================
