--------------------------- MODULE GameServerProofs ---------------------------
(***************************************************************************)
(* What a table on the game server keeps to, for every number of agents,    *)
(* buy-ins, requests and hands (game-server/src/table-actor.ts and          *)
(* ws-handler.ts).  ActorInv is what the operations of the actor keep, and  *)
(* ServerInv the inductive invariant of the whole.                          *)
(***************************************************************************)
EXTENDS GameServer, CommonProofs

\* The inductive invariant of the table actor.
ActorInv == ActorTypeOK /\ TimerIffHand /\ (HandIsOn => dealer \in Seats)

\* A request that moved a hand has used up its number, if it has one.
AppliedIsOld ==
  \A a \in applied : Numbered(a.request) => a.request.seq <= lastSeq[a.request.seat]

\* A request that moved the hand that is on is in the cache, if it has an id; the other
\* hands are over.
CachedFor(a) ==
  /\ a.hand <= handsPlayed
  /\ a.hand = handsPlayed => HandIsOn /\ (Named(a.request) => a.request \in answered)

AppliedIsCached == \A a \in applied : CachedFor(a)

\* The inductive invariant of the server.
ServerInv == ServerTypeOK /\ ActorInv /\ AppliedIsOld /\ AppliedIsCached

-----------------------------------------------------------------------------
\* The lowest seat of some seats is one of them.
LEMMA LowestSeatIn ==
  ASSUME NEW S \in SUBSET Seats, S # {}
  PROVE  LowestSeat(S) \in S
<1>1. \E s \in S : \A t \in S : s <= t
  <2>1. S \in SUBSET (0..5)  BY DEF Seats
  <2> QED  BY <2>1, LeastOfSix
<1> QED  BY <1>1 DEF LowestSeat

\* Among two seats or more there is one.
LEMMA SomeSeat ==
  ASSUME NEW S \in SUBSET Seats, Count(S) >= 2
  PROVE  S # {}
<1> SUFFICES ASSUME S = {} PROVE FALSE  OBVIOUS
<1> DEFINE f == [s \in Seats |-> IF s \in S THEN 1 ELSE 0]
<1>1. Count(S) = f[0] + f[1] + f[2] + f[3] + f[4] + f[5]  BY DEF Count, Total
<1>2. \A s \in Seats : f[s] = 0  OBVIOUS
<1> HIDE DEF f
<1> QED  BY <1>1, <1>2 DEF Seats

\* The seats of the table are among the six seats.
LEMMA TableSeats == ASSUME NEW s \in 0..(MaxSeats - 1)  PROVE s \in Seats
<1>1. MaxSeats \in 2..6  BY TableAssumption DEF TableAssumption
<1> QED  BY <1>1 DEF Seats

\* The seats with chips are seats.
LEMMA WithChipsAreSeats ==
  ASSUME ActorTypeOK, NEW stacks
  PROVE  WithChips(stacks) \in SUBSET Seats /\ WithChips(stacks) \subseteq taken
BY TableSeats DEF ActorTypeOK, WithChips

\* The button goes to a seat.
LEMMA ButtonIsSeat ==
  ASSUME ActorTypeOK, NEW stacks, dealer \in Seats
  PROVE  ButtonAfter(stacks) \in Seats
<1> DEFINE S == WithChips(stacks)
<1>1. S \in SUBSET Seats  BY WithChipsAreSeats
<1> HIDE DEF S
<1>2. CASE Count(S) >= 2
  <2>1. S # {}  BY <1>1, <1>2, SomeSeat
  <2>2. LowestSeat(S) \in S  BY <1>1, <2>1, LowestSeatIn
  <2>3. FirstClockwise(dealer, S) \in S  BY <1>1, <2>1, FirstClockwiseIn
  <2>4. AdvanceDealer(S, dealer) \in Seats  BY <1>1, <2>2, <2>3 DEF AdvanceDealer
  <2> QED  BY <1>2, <2>4 DEF ButtonAfter, S
<1>3. CASE ~(Count(S) >= 2)  BY <1>3 DEF ButtonAfter, S
<1> QED  BY <1>2, <1>3

-----------------------------------------------------------------------------
\* An agent that sits down.
LEMMA AddSeatKeeps ==
  ASSUME ActorInv, NEW buyIn \in BuyIns, AddSeat(buyIn)
  PROVE  ActorInv'
<1> DEFINE seat == LowestSeat(FreeSeats)
<1>1. /\ taken' = taken \cup {seat} /\ stack' = [stack EXCEPT ![seat] = buyIn]
      /\ FreeSeats # {}
      /\ UNCHANGED <<dealer, playing, turn, moves, timer, answered, lastSeq, handsPlayed>>
  BY DEF AddSeat, handVars
<1>2. FreeSeats \in SUBSET Seats  BY TableSeats DEF FreeSeats
<1>3. seat \in FreeSeats  BY <1>1, <1>2, LowestSeatIn
<1> HIDE DEF seat
<1>4. buyIn \in Nat  BY TableAssumption DEF TableAssumption
<1>5. stack' \in [Seats -> Nat]  BY <1>1, <1>2, <1>3, <1>4 DEF ActorInv, ActorTypeOK
<1>6. taken' \subseteq 0..(MaxSeats - 1)
  BY <1>1, <1>3 DEF ActorInv, ActorTypeOK, FreeSeats
<1>7. ActorTypeOK'  BY <1>1, <1>5, <1>6 DEF ActorInv, ActorTypeOK
<1> QED  BY <1>1, <1>7 DEF ActorInv, TimerIffHand, HandIsOn

\* A hand that starts.
LEMMA StartHandKeeps ==
  ASSUME ActorInv, StartHand
  PROVE  ActorInv'
<1> DEFINE S == WithChips(stack)
<1>1. /\ NextDealer \in S
      /\ dealer' = NextDealer /\ playing' = S
      /\ turn' = FirstToActPreflop(S, NextDealer)
      /\ moves' \in 1..MaxMoves /\ timer' = TRUE /\ answered' = {}
      /\ UNCHANGED <<taken, stack, lastSeq, handsPlayed>>
  BY DEF StartHand, DealerIsDealtIn
<1>2. S \in SUBSET Seats /\ S \subseteq taken  BY WithChipsAreSeats DEF ActorInv
<1> HIDE DEF S
<1>3. turn' \in S  BY <1>1, <1>2, PreflopSeats
<1>4. MaxMoves \in Nat  BY TableAssumption DEF TableAssumption
<1>5. turn' \in Seats /\ dealer' \in Seats /\ playing' \subseteq taken'
  BY <1>1, <1>2, <1>3
<1>6. ActorTypeOK'
  BY <1>1, <1>4, <1>5 DEF ActorInv, ActorTypeOK
<1>7. TimerIffHand'  BY <1>1, <1>3 DEF TimerIffHand, HandIsOn
<1> QED  BY <1>5, <1>6, <1>7 DEF ActorInv

\* What starts is a hand as HandStarted has it, the hand that HandAtTable compares
\* with the engine's.
LEMMA StartHandStarts ==
  ASSUME ActorInv, StartHand
  PROVE  HandStarted'
<1>1. /\ NextDealer \in WithChips(stack) /\ Count(WithChips(stack)) >= 2
      /\ dealer' = NextDealer /\ playing' = WithChips(stack)
      /\ turn' = FirstToActPreflop(WithChips(stack), NextDealer)
      /\ moves' \in 1..MaxMoves /\ timer' = TRUE
      /\ UNCHANGED <<taken, stack>>
  BY DEF StartHand, DealerIsDealtIn, CanStartHand
<1>2. WithChips(stack)' = WithChips(stack)  BY <1>1 DEF WithChips
<1> QED  BY <1>1, <1>2 DEF HandStarted

\* A move, of an agent or of the timer.
LEMMA MovedKeeps ==
  ASSUME ActorInv, Moved, UNCHANGED taken,
         answered' \subseteq Requests, lastSeq' \in [Seats -> Nat \cup {-1}]
  PROVE  ActorInv'
<1>1. HandIsOn /\ dealer \in Seats /\ playing \subseteq taken /\ taken \subseteq Seats
  BY TableSeats DEF Moved, ActorInv, ActorTypeOK
<1>2. CASE PlayOn
  <2>1. /\ moves' \in 1..(moves - 1) /\ turn' \in playing /\ timer' = TRUE
        /\ UNCHANGED <<stack, dealer, playing, handsPlayed>>
    BY <1>2 DEF PlayOn
  <2>2. moves' \in Nat  BY <2>1 DEF ActorInv, ActorTypeOK
  <2>3. turn' \in Seats  BY <1>1, <2>1
  <2>4. ActorTypeOK'  BY <2>1, <2>2, <2>3 DEF ActorInv, ActorTypeOK
  <2>5. TimerIffHand'  BY <1>1, <2>1 DEF TimerIffHand, HandIsOn
  <2> QED  BY <1>1, <2>1, <2>4, <2>5 DEF ActorInv
<1>3. CASE CompleteHand
  <2>1. PICK result \in [playing -> 0..Total(stack)] :
          /\ stack' = PaidOut(result)
          /\ dealer' = ButtonAfter(PaidOut(result))
    BY <1>3 DEF CompleteHand
  <2>2. /\ handsPlayed' = handsPlayed + 1 /\ playing' = {} /\ timer' = FALSE
        /\ moves' = 0 /\ UNCHANGED turn
    BY <1>3 DEF CompleteHand
  <2>3. stack \in [Seats -> Nat]  BY DEF ActorInv, ActorTypeOK
  <2>4. Total(stack) \in Nat  BY <2>3, TotalType
  <2>5. \A s \in playing : result[s] \in Nat  BY <2>4
  <2>6. stack' \in [Seats -> Nat]  BY <2>1, <2>3, <2>5 DEF PaidOut
  <2>7. dealer' \in Seats  BY <1>1, <2>1, ButtonIsSeat DEF ActorInv
  <2>8. handsPlayed' \in Nat  BY <2>2 DEF ActorInv, ActorTypeOK
  <2>9. ActorTypeOK'  BY <2>2, <2>6, <2>7, <2>8 DEF ActorInv, ActorTypeOK
  <2> QED  BY <2>2, <2>9 DEF ActorInv, TimerIffHand, HandIsOn
<1> QED  BY <1>2, <1>3 DEF Moved
-----------------------------------------------------------------------------
\* The initial states satisfy the invariant.
LEMMA InitGood == ASSUME ServerInit PROVE ServerInv
<1>1. Nothing \in [Seats -> Nat] /\ [s \in Seats |-> -1] \in [Seats -> Nat \cup {-1}]
  BY DEF Nothing
<1>2. [s \in Seats |-> 0] \in [Seats -> 0..MaxSeq]
  BY ServerAssumption DEF ServerAssumption
<1>3. ActorTypeOK
  BY <1>1 DEF ServerInit, ActorInit, ActorTypeOK
<1> QED  BY <1>2, <1>3
    DEF ServerInit, ActorInit, ServerInv, ServerTypeOK, ActorInv, TimerIffHand, HandIsOn,
        AppliedIsOld, AppliedIsCached

\* The requests of a hand that is over need no cache: so a hand may start, which clears
\* it, or the table be left as it is.
LEMMA StaysCached ==
  ASSUME ServerInv, UNCHANGED <<applied, handsPlayed>>,
         ~HandIsOn \/ UNCHANGED <<playing, answered>>
  PROVE  AppliedIsCached'
<1> SUFFICES ASSUME NEW a \in applied PROVE CachedFor(a)'  BY DEF AppliedIsCached
<1>1. CachedFor(a)  BY DEF ServerInv, AppliedIsCached
<1> QED  BY <1>1 DEF CachedFor, HandIsOn

\* A move keeps the requests of its hand in the cache, or ends the hand.
LEMMA MoveKeepsCached ==
  ASSUME ServerInv, Moved, answered \subseteq answered', NEW a, a.hand \in Nat,
         \/ CachedFor(a)
         \/ a.hand = handsPlayed /\ (Named(a.request) => a.request \in answered')
  PROVE  CachedFor(a)'
<1>1. handsPlayed \in Nat  BY DEF ServerInv, ServerTypeOK, ActorTypeOK
<1>2. Named(a.request)' <=> Named(a.request)  BY DEF Named
<1>3. CASE PlayOn
  <2>1. UNCHANGED <<playing, handsPlayed>> /\ HandIsOn  BY <1>3 DEF PlayOn, Moved
  <2> QED  BY <1>2, <2>1 DEF CachedFor, HandIsOn
<1>4. CASE CompleteHand
  <2>1. handsPlayed' = handsPlayed + 1  BY <1>4 DEF CompleteHand
  <2>2. a.hand <= handsPlayed  BY <1>1 DEF CachedFor
  <2> QED  BY <1>1, <2>1, <2>2 DEF CachedFor
<1> QED  BY <1>3, <1>4 DEF Moved

\* A timer that tries to start a hand.
LEMMA TryStartKeeps ==
  ASSUME ServerInv, TryStartHand, UNCHANGED applied
  PROVE  ActorInv' /\ AppliedIsOld' /\ AppliedIsCached' /\ announced' \in BOOLEAN
<1>1. CASE ~HandIsOn /\ StartHand /\ announced' = TRUE
  <2>1. UNCHANGED <<lastSeq, handsPlayed>>  BY <1>1 DEF StartHand
  <2>2. AppliedIsOld'  BY <2>1 DEF ServerInv, AppliedIsOld, Numbered
  <2>3. AppliedIsCached'  BY <1>1, <2>1, StaysCached
  <2>4. ActorInv'  BY <1>1, StartHandKeeps DEF ServerInv
  <2> QED  BY <1>1, <2>2, <2>3, <2>4
<1>2. CASE UNCHANGED <<actorVars, announced>>
  <2>1. AppliedIsCached'  BY <1>2, StaysCached DEF actorVars, handVars
  <2> QED
    BY <1>2, <2>1 DEF actorVars, handVars, ServerInv, ServerTypeOK, ActorInv, ActorTypeOK,
                      TimerIffHand, HandIsOn, AppliedIsOld, Numbered
<1> QED  BY <1>1, <1>2 DEF TryStartHand

\* A new sequence number is kept for its agent and is greater than the old one; where
\* there is none nothing is kept.
LEMMA SeqGrows ==
  ASSUME lastSeq \in [Seats -> Nat \cup {-1}], NEW r \in Requests, ~Replayed(r),
         NumberUsedUp(r)
  PROVE  /\ lastSeq' \in [Seats -> Nat \cup {-1}]
         /\ \A s \in Seats : lastSeq[s] <= lastSeq'[s]
         /\ Numbered(r) => r.seq <= lastSeq'[r.seat]
<1>1. r.seat \in Seats /\ r.seq \in Nat  BY DEF Requests
<1>2. lastSeq[r.seat] \in Nat \cup {-1}  BY <1>1
<1>3. \A s \in Seats : lastSeq[s] \in Nat \cup {-1}  OBVIOUS
<1>4. CASE ~Numbered(r)
  <2>1. lastSeq' = lastSeq  BY <1>4 DEF NumberUsedUp
  <2> QED  BY <1>3, <1>4, <2>1
<1>5. CASE Numbered(r)
  <2>1. ~(r.seq <= lastSeq[r.seat])  BY <1>5 DEF Replayed
  <2>2. lastSeq' = [lastSeq EXCEPT ![r.seat] = r.seq]  BY <1>5 DEF NumberUsedUp
  <2>3. lastSeq'[r.seat] = r.seq /\ \A s \in Seats \ {r.seat} : lastSeq'[s] = lastSeq[s]
    BY <1>1, <2>2
  <2>4. lastSeq[r.seat] <= r.seq  BY <1>1, <1>2, <2>1
  <2>5. \A s \in Seats : lastSeq[s] <= lastSeq'[s]  BY <1>3, <2>3, <2>4
  <2> QED  BY <1>1, <2>2, <2>3, <2>5
<1> QED  BY <1>4, <1>5

\* Sequence numbers that only grow leave applied requests old.
LEMMA OldStaysOld ==
  ASSUME AppliedIsOld, applied \subseteq Applications,
         lastSeq \in [Seats -> Nat \cup {-1}], lastSeq' \in [Seats -> Nat \cup {-1}],
         \A s \in Seats : lastSeq[s] <= lastSeq'[s]
  PROVE  \A a \in applied : Numbered(a.request) =>
           a.request.seq <= lastSeq'[a.request.seat]
<1> SUFFICES ASSUME NEW a \in applied, Numbered(a.request)
             PROVE  a.request.seq <= lastSeq'[a.request.seat]
  OBVIOUS
<1>1. a.request.seat \in Seats /\ a.request.seq \in Nat  BY DEF Applications, Requests
<1>2. lastSeq[a.request.seat] \in Nat \cup {-1} /\ lastSeq'[a.request.seat] \in Nat \cup {-1}
  BY <1>1
<1>3. a.request.seq <= lastSeq[a.request.seat]  BY DEF AppliedIsOld
<1>4. lastSeq[a.request.seat] <= lastSeq'[a.request.seat]  BY <1>1
<1> QED  BY <1>1, <1>2, <1>3, <1>4

\* A request the engine accepts moves the hand, and is old or cached from then on.
LEMMA AcceptKeeps ==
  ASSUME ServerInv, NEW r \in inFlight, Accept(r)
  PROVE  ServerInv'
<1> DEFINE new == [request |-> r, hand |-> handsPlayed]
<1>1. /\ r \in Requests /\ applied \subseteq Applications /\ answered \subseteq Requests
      /\ handsPlayed \in Nat
  BY DEF ServerInv, ServerTypeOK, ActorTypeOK
<1>2. /\ HandIsOn /\ ~Replayed(r) /\ Moved /\ UNCHANGED taken /\ NumberUsedUp(r)
      /\ answered' = answered \cup {q \in {r} : Named(q)}
  BY DEF Accept, AcceptAction
<1>3. /\ inFlight' = inFlight \ {r} /\ applied' = applied \cup {new}
      /\ announced' = TRUE /\ nextHand' = nextHand + (handsPlayed' - handsPlayed)
      /\ UNCHANGED <<autoStart, sent, registered>>
  BY DEF Accept, Received, HandNumber
<1>4. /\ new \in Applications /\ new.request = r /\ new.hand = handsPlayed
      /\ \A a \in Applications : a.hand \in Nat
  BY <1>1 DEF Applications
<1> HIDE DEF new
<1>5. lastSeq \in [Seats -> Nat \cup {-1}]  BY DEF ServerInv, ServerTypeOK, ActorTypeOK
<1>6. /\ lastSeq' \in [Seats -> Nat \cup {-1}]
      /\ \A s \in Seats : lastSeq[s] <= lastSeq'[s]
      /\ Numbered(r) => r.seq <= lastSeq'[r.seat]
  BY <1>1, <1>2, <1>5, SeqGrows
<1>7. /\ answered' \subseteq Requests /\ answered \subseteq answered'
      /\ Named(r) => r \in answered'
  BY <1>1, <1>2
<1>8. ActorInv'  BY <1>2, <1>6, <1>7, MovedKeeps DEF ServerInv
<1>9. handsPlayed' = handsPlayed \/ handsPlayed' = handsPlayed + 1
  BY <1>2 DEF Moved, PlayOn, CompleteHand
<1>10. nextHand' \in Nat
  BY <1>3, <1>9 DEF ServerInv, ServerTypeOK, ActorTypeOK
<1>11. AppliedIsOld'
  <2>1. \A a \in applied : Numbered(a.request) => a.request.seq <= lastSeq'[a.request.seat]
    BY <1>1, <1>5, <1>6, OldStaysOld DEF ServerInv
  <2> QED  BY <1>3, <1>4, <1>6, <2>1 DEF AppliedIsOld, Numbered
<1>12. AppliedIsCached'
  <2> SUFFICES ASSUME NEW a \in applied' PROVE CachedFor(a)'  BY DEF AppliedIsCached
  <2>1. CASE a \in applied
    <3>1. CachedFor(a) /\ a.hand \in Nat
      BY <1>1, <1>4, <2>1 DEF ServerInv, AppliedIsCached
    <3> QED  BY <1>2, <1>7, <3>1, MoveKeepsCached
  <2>2. CASE a = new
    <3>1. a.hand \in Nat /\ a.hand = handsPlayed /\ (Named(a.request) => a.request \in answered')
      BY <1>1, <1>4, <1>7, <2>2
    <3> QED  BY <1>2, <1>7, <3>1, MoveKeepsCached
  <2> QED  BY <1>3, <2>1, <2>2
<1>13. ServerTypeOK'
  BY <1>1, <1>3, <1>4, <1>8, <1>10 DEF ServerInv, ServerTypeOK, ActorInv
<1> QED  BY <1>8, <1>11, <1>12, <1>13 DEF ServerInv

\* A request the engine rejects uses up its sequence number.
LEMMA RejectKeeps ==
  ASSUME ServerInv, NEW r \in inFlight, Reject(r)
  PROVE  ServerInv'
<1>1. r \in Requests /\ applied \subseteq Applications
  BY DEF ServerInv, ServerTypeOK
<1>2. /\ ~Replayed(r) /\ NumberUsedUp(r)
      /\ UNCHANGED <<taken, stack, dealer, playing, turn, moves, timer, answered,
                     handsPlayed>>
  BY DEF Reject, RejectAction, handVars
<1>3. /\ inFlight' = inFlight \ {r}
      /\ UNCHANGED <<autoStart, sent, registered, nextHand, announced, applied>>
  BY DEF Reject, Received
<1>4. lastSeq \in [Seats -> Nat \cup {-1}]  BY DEF ServerInv, ServerTypeOK, ActorTypeOK
<1>5. /\ lastSeq' \in [Seats -> Nat \cup {-1}]
      /\ \A s \in Seats : lastSeq[s] <= lastSeq'[s]
  BY <1>1, <1>2, <1>4, SeqGrows
<1>6. ActorTypeOK'  BY <1>2, <1>5 DEF ServerInv, ServerTypeOK, ActorTypeOK
<1>7. ActorInv'
  BY <1>2, <1>6 DEF ServerInv, ActorInv, TimerIffHand, HandIsOn
<1>8. AppliedIsOld'
  <2>1. \A a \in applied : Numbered(a.request) => a.request.seq <= lastSeq'[a.request.seat]
    BY <1>1, <1>4, <1>5, OldStaysOld DEF ServerInv
  <2> QED  BY <1>3, <2>1 DEF AppliedIsOld, Numbered
<1>9. AppliedIsCached'  BY <1>2, <1>3, StaysCached
<1>10. ServerTypeOK'  BY <1>3, <1>6 DEF ServerInv, ServerTypeOK
<1> QED  BY <1>7, <1>8, <1>9, <1>10 DEF ServerInv

\* What a step leaves when it touches neither the actor nor what was applied.
LEMMA ActorUntouched ==
  ASSUME ServerInv, UNCHANGED <<actorVars, applied>>
  PROVE  ActorInv' /\ AppliedIsOld' /\ AppliedIsCached' /\ applied' \subseteq Applications
<1>1. ActorInv' /\ AppliedIsOld' /\ applied' \subseteq Applications
  BY DEF actorVars, handVars, ServerInv, ServerTypeOK, ActorInv, ActorTypeOK, TimerIffHand,
         HandIsOn, AppliedIsOld, Numbered
<1>2. AppliedIsCached'  BY StaysCached DEF actorVars, handVars
<1> QED  BY <1>1, <1>2

\* Every step keeps the invariant.
LEMMA NextKeeps ==
  ASSUME ServerInv, [ServerNext]_tableVars
  PROVE  ServerInv'
<1>1. CASE Join
  <2>1. /\ registered /\ UNCHANGED <<serverVars, agentVars>>
        /\ \E buyIn \in BuyIns : AddSeat(buyIn)
    BY <1>1 DEF Join
  <2>2. ActorInv'  BY <2>1, AddSeatKeeps DEF ServerInv
  <2>3. UNCHANGED <<lastSeq, playing, answered, handsPlayed, applied>>
    BY <2>1 DEF AddSeat, handVars, agentVars
  <2>4. AppliedIsOld'  BY <2>3 DEF ServerInv, AppliedIsOld, Numbered
  <2>5. AppliedIsCached'  BY <2>3, StaysCached
  <2> QED  BY <2>1, <2>2, <2>4, <2>5
      DEF ServerInv, ServerTypeOK, ActorInv, serverVars, agentVars
<1>2. ASSUME NEW s \in Seats, HandleHello(s)  PROVE ServerInv'
  <2>1. /\ autoStart' = TRUE
        /\ UNCHANGED <<actorVars, registered, nextHand, announced, sent, inFlight, applied>>
    BY <1>2 DEF HandleHello, agentVars
  <2>2. ActorInv' /\ AppliedIsOld' /\ AppliedIsCached' /\ applied' \subseteq Applications
    BY <2>1, ActorUntouched
  <2> QED  BY <2>1, <2>2 DEF ServerInv, ServerTypeOK, ActorInv
<1>3. ASSUME NEW s \in Seats, Send(s)  PROVE ServerInv'
  <2>1. /\ sent[s] < MaxSeq
        /\ sent' = [sent EXCEPT ![s] = @ + 1]
        /\ inFlight' = inFlight \cup {[seat |-> s, seq |-> sent[s] + 1]}
        /\ UNCHANGED <<actorVars, registered, autoStart, nextHand, announced, applied>>
    BY <1>3 DEF Send, serverVars
  <2>2. ActorInv' /\ AppliedIsOld' /\ AppliedIsCached' /\ applied' \subseteq Applications
    BY <2>1, ActorUntouched
  <2>3. MaxSeq \in Nat  BY ServerAssumption DEF ServerAssumption
  <2>4. sent \in [Seats -> 0..MaxSeq] /\ inFlight \subseteq Requests
    BY DEF ServerInv, ServerTypeOK
  <2>5. sent[s] + 1 \in 0..MaxSeq  BY <2>1, <2>3, <2>4
  <2>6. sent' \in [Seats -> 0..MaxSeq]  BY <2>1, <2>4, <2>5
  <2>7. inFlight' \subseteq Requests  BY <2>1, <2>4, <2>5 DEF Requests
  <2> QED  BY <2>1, <2>2, <2>6, <2>7 DEF ServerInv, ServerTypeOK, ActorInv
<1>4. ASSUME NEW s \in Seats, Resend(s)  PROVE ServerInv'
  <2>1. PICK seq \in 1..sent[s] : inFlight' = inFlight \cup {[seat |-> s, seq |-> seq]}
    BY <1>4 DEF Resend
  <2>2. UNCHANGED <<actorVars, registered, autoStart, nextHand, announced, sent, applied>>
    BY <1>4 DEF Resend, serverVars
  <2>3. ActorInv' /\ AppliedIsOld' /\ AppliedIsCached' /\ applied' \subseteq Applications
    BY <2>2, ActorUntouched
  <2>4. sent[s] \in Nat /\ inFlight \subseteq Requests  BY DEF ServerInv, ServerTypeOK
  <2>5. inFlight' \subseteq Requests  BY <2>1, <2>4 DEF Requests
  <2> QED  BY <2>2, <2>3, <2>5 DEF ServerInv, ServerTypeOK, ActorInv
<1>5. CASE AutoStartFires
  <2>1. /\ TryStartHand /\ autoStart' = FALSE
        /\ UNCHANGED <<registered, nextHand, sent, inFlight, applied>>
    BY <1>5 DEF AutoStartFires, agentVars
  <2>2. ActorInv' /\ AppliedIsOld' /\ AppliedIsCached' /\ announced' \in BOOLEAN
    BY <2>1, TryStartKeeps
  <2> QED  BY <2>1, <2>2 DEF ServerInv, ServerTypeOK, ActorInv
<1>6. CASE NextHandFires
  <2>1. /\ TryStartHand /\ nextHand > 0 /\ nextHand' = nextHand - 1
        /\ UNCHANGED <<registered, autoStart, sent, inFlight, applied>>
    BY <1>6 DEF NextHandFires, agentVars
  <2>2. ActorInv' /\ AppliedIsOld' /\ AppliedIsCached' /\ announced' \in BOOLEAN
    BY <2>1, TryStartKeeps
  <2>3. nextHand' \in Nat  BY <2>1 DEF ServerInv, ServerTypeOK
  <2> QED  BY <2>1, <2>2, <2>3 DEF ServerInv, ServerTypeOK, ActorInv
<1>7. CASE TimeoutFires
  <2>1. /\ Moved /\ UNCHANGED <<taken, answered, lastSeq>> /\ announced' = FALSE
        /\ UNCHANGED <<registered, autoStart, nextHand, sent, inFlight, applied>>
    BY <1>7 DEF TimeoutFires, HandleTimeout, agentVars
  <2>2. ActorInv'
    BY <2>1, MovedKeeps DEF ServerInv, ServerTypeOK, ActorTypeOK
  <2>3. AppliedIsOld'  BY <2>1 DEF ServerInv, AppliedIsOld, Numbered
  <2>4. AppliedIsCached'
    <3> SUFFICES ASSUME NEW a \in applied PROVE CachedFor(a)'  BY <2>1 DEF AppliedIsCached
    <3>1. CachedFor(a) /\ a.hand \in Nat
      BY DEF ServerInv, ServerTypeOK, AppliedIsCached, Applications
    <3> QED  BY <2>1, <3>1, MoveKeepsCached
  <2> QED  BY <2>1, <2>2, <2>3, <2>4 DEF ServerInv, ServerTypeOK, ActorInv
<1>8. ASSUME NEW r \in inFlight, Lose(r)  PROVE ServerInv'
  <2>1. /\ inFlight' = inFlight \ {r}
        /\ UNCHANGED <<actorVars, registered, autoStart, nextHand, announced, sent, applied>>
    BY <1>8 DEF Lose, serverVars
  <2>2. ActorInv' /\ AppliedIsOld' /\ AppliedIsCached' /\ applied' \subseteq Applications
    BY <2>1, ActorUntouched
  <2> QED  BY <2>1, <2>2 DEF ServerInv, ServerTypeOK, ActorInv
<1>9. ASSUME NEW r \in inFlight, Accept(r)  PROVE ServerInv'
  BY <1>9, AcceptKeeps
<1>10. ASSUME NEW r \in inFlight, Reject(r)  PROVE ServerInv'
  BY <1>10, RejectKeeps
<1>11. ASSUME NEW r \in inFlight, Refuse(r) \/ AckDuplicate(r)  PROVE ServerInv'
  <2>1. /\ inFlight' = inFlight \ {r} /\ announced' \in {announced, TRUE}
        /\ UNCHANGED <<actorVars, registered, autoStart, nextHand, sent, applied>>
    BY <1>11 DEF Refuse, AckDuplicate, Received
  <2>2. ActorInv' /\ AppliedIsOld' /\ AppliedIsCached' /\ applied' \subseteq Applications
    BY <2>1, ActorUntouched
  <2> QED  BY <2>1, <2>2 DEF ServerInv, ServerTypeOK, ActorInv
<1>12. ASSUME NEW r \in inFlight, TerminateTable(r)  PROVE ServerInv'
  <2>1. /\ inFlight' = inFlight \ {r} /\ registered' = FALSE /\ timer' = FALSE
        /\ ~HandIsOn
        /\ UNCHANGED <<taken, stack, dealer, playing, turn, moves, answered, lastSeq,
                       handsPlayed, autoStart, nextHand, announced, sent, applied>>
    BY <1>12 DEF TerminateTable, Received, Close
  <2>2. ActorInv'
    BY <2>1 DEF ServerInv, ActorInv, ActorTypeOK, TimerIffHand, HandIsOn
  <2>3. AppliedIsOld'  BY <2>1 DEF ServerInv, AppliedIsOld, Numbered
  <2>4. AppliedIsCached'  BY <2>1, StaysCached
  <2> QED  BY <2>1, <2>2, <2>3, <2>4 DEF ServerInv, ServerTypeOK, ActorInv
<1>13. CASE UNCHANGED tableVars
  <2>1. UNCHANGED <<actorVars, registered, autoStart, nextHand, announced, sent, inFlight,
                    applied>>
    BY <1>13 DEF tableVars, serverVars, agentVars
  <2>2. ActorInv' /\ AppliedIsOld' /\ AppliedIsCached' /\ applied' \subseteq Applications
    BY <2>1, ActorUntouched
  <2> QED  BY <2>1, <2>2 DEF ServerInv, ServerTypeOK, ActorInv
<1> QED
  BY <1>1, <1>2, <1>3, <1>4, <1>5, <1>6, <1>7, <1>8, <1>9, <1>10, <1>11, <1>12, <1>13
     DEF ServerNext, HandleAction
-----------------------------------------------------------------------------
\* What can happen to the seats, the chips and the hand in one step.
TableUntouched == UNCHANGED <<taken, stack, dealer, playing, turn, moves, handsPlayed>>

\* Every step is an agent sitting down, a hand starting where there is none, a move,
\* or leaves the table as it is.
LEMMA StepKinds ==
  ASSUME [ServerNext]_tableVars
  PROVE  \/ \E buyIn \in BuyIns : AddSeat(buyIn)
         \/ ~HandIsOn /\ StartHand
         \/ Moved /\ UNCHANGED taken
         \/ TableUntouched
<1>1. CASE Join  BY <1>1 DEF Join
<1>2. CASE AutoStartFires \/ NextHandFires
  <2>1. TryStartHand  BY <1>2 DEF AutoStartFires, NextHandFires
  <2> QED  BY <2>1 DEF TryStartHand, TableUntouched, actorVars, handVars
<1>3. CASE TimeoutFires
  BY <1>3 DEF TimeoutFires, HandleTimeout
<1>4. ASSUME NEW s \in Seats, HandleHello(s) \/ Send(s) \/ Resend(s)
      PROVE  TableUntouched
  BY <1>4 DEF HandleHello, Send, Resend, TableUntouched, actorVars, handVars
<1>5. ASSUME NEW r \in inFlight, Accept(r)  PROVE Moved /\ UNCHANGED taken
  BY <1>5 DEF Accept, AcceptAction
<1>6. ASSUME NEW r \in inFlight,
             Lose(r) \/ Reject(r) \/ Refuse(r) \/ AckDuplicate(r) \/ TerminateTable(r)
      PROVE  TableUntouched
  <2>1. CASE Lose(r) \/ Refuse(r) \/ AckDuplicate(r)
    BY <2>1 DEF Lose, Refuse, AckDuplicate, TableUntouched, actorVars, handVars
  <2>2. CASE Reject(r)
    BY <2>2 DEF Reject, RejectAction, TableUntouched, handVars
  <2>3. CASE TerminateTable(r)
    BY <2>3 DEF TerminateTable, Close, TableUntouched
  <2> QED  BY <1>6, <2>1, <2>2, <2>3
<1>7. CASE UNCHANGED tableVars
  BY <1>7 DEF tableVars, TableUntouched, actorVars, handVars
<1> QED  BY <1>1, <1>2, <1>3, <1>4, <1>5, <1>6, <1>7 DEF ServerNext, HandleAction

\* Sitting down takes a free seat.
LEMMA JoinTakesSeat ==
  ASSUME NEW buyIn \in BuyIns, AddSeat(buyIn)
  PROVE  taken' # taken
<1>1. FreeSeats \in SUBSET Seats /\ FreeSeats # {}  BY TableSeats DEF FreeSeats, AddSeat
<1>2. LowestSeat(FreeSeats) \in FreeSeats  BY <1>1, LowestSeatIn
<1>3. LowestSeat(FreeSeats) \notin taken  BY <1>2 DEF FreeSeats
<1> QED  BY <1>3 DEF AddSeat

\* A payout that gives the players what they had at stake keeps the chips on the table.
LEMMA PayoutKeepsTotal ==
  ASSUME stack \in [Seats -> Nat], playing \subseteq Seats,
         NEW result \in [playing -> Nat], AtStake(result) = AtStake(stack)
  PROVE  Total(PaidOut(result)) = Total(stack)
<1> DEFINE paid == [s \in Seats |-> IF s \in playing THEN result[s] ELSE 0]
           had  == [s \in Seats |-> IF s \in playing THEN stack[s] ELSE 0]
           new  == [s \in Seats |-> IF s \in playing THEN result[s] ELSE stack[s]]
<1>1. \A s \in Seats : paid[s] \in Nat /\ had[s] \in Nat /\ stack[s] \in Nat
                       /\ new[s] = stack[s] - had[s] + paid[s]
  OBVIOUS
<1>2. /\ AtStake(result) = paid[0] + paid[1] + paid[2] + paid[3] + paid[4] + paid[5]
      /\ AtStake(stack) = had[0] + had[1] + had[2] + had[3] + had[4] + had[5]
      /\ Total(PaidOut(result)) = new[0] + new[1] + new[2] + new[3] + new[4] + new[5]
  BY DEF AtStake, Total, PaidOut
<1>3. /\ Total(stack) = stack[0] + stack[1] + stack[2] + stack[3] + stack[4] + stack[5]
  BY DEF Total
<1> HIDE DEF paid, had, new
<1>4. /\ new[0] = stack[0] - had[0] + paid[0] /\ new[1] = stack[1] - had[1] + paid[1]
      /\ new[2] = stack[2] - had[2] + paid[2] /\ new[3] = stack[3] - had[3] + paid[3]
      /\ new[4] = stack[4] - had[4] + paid[4] /\ new[5] = stack[5] - had[5] + paid[5]
  BY <1>1 DEF Seats
<1>5. /\ paid[0] \in Int /\ paid[1] \in Int /\ paid[2] \in Int
      /\ paid[3] \in Int /\ paid[4] \in Int /\ paid[5] \in Int
  BY <1>1 DEF Seats
<1>6. /\ had[0] \in Int /\ had[1] \in Int /\ had[2] \in Int
      /\ had[3] \in Int /\ had[4] \in Int /\ had[5] \in Int
  BY <1>1 DEF Seats
<1>7. /\ stack[0] \in Int /\ stack[1] \in Int /\ stack[2] \in Int
      /\ stack[3] \in Int /\ stack[4] \in Int /\ stack[5] \in Int
  BY <1>1 DEF Seats
<1>8. paid[0] + paid[1] + paid[2] + paid[3] + paid[4] + paid[5]
        = had[0] + had[1] + had[2] + had[3] + had[4] + had[5]
  BY <1>2
<1>9. new[0] + new[1] + new[2] + new[3] + new[4] + new[5]
        = stack[0] + stack[1] + stack[2] + stack[3] + stack[4] + stack[5]
  BY <1>4, <1>5, <1>6, <1>7, <1>8
<1> QED  BY <1>2, <1>3, <1>9

\* The button goes to another seat than before, one with chips.
LEMMA ButtonGoesElsewhere ==
  ASSUME NEW S \in SUBSET Seats, Count(S) >= 2, dealer \in Seats
  PROVE  AdvanceDealer(S, dealer) \in S \ {dealer}
<1>1. S # {}  BY SomeSeat
<1>2. CASE dealer \notin S
  <2>1. LowestSeat(S) \in S  BY <1>1, LowestSeatIn
  <2> QED  BY <1>2, <2>1 DEF AdvanceDealer
<1>3. CASE dealer \in S
  <2> DEFINE f == [s \in Seats |-> IF s \in S THEN 1 ELSE 0]
             b == FirstClockwise(dealer, S)
  <2>1. PICK t \in S : t # dealer
    <3> SUFFICES ASSUME S = {dealer} PROVE FALSE  BY <1>3
    <3>1. \A s \in Seats : f[s] = IF s = dealer THEN 1 ELSE 0  OBVIOUS
    <3>2. Count(S) = f[0] + f[1] + f[2] + f[3] + f[4] + f[5]  BY DEF Count, Total
    <3> HIDE DEF f
    <3> QED  BY <3>1, <3>2 DEF Seats
  <2>2. b \in S /\ StepsClockwise(dealer, b) <= StepsClockwise(dealer, t)
    BY <1>1, <2>1, FirstClockwiseIn
  <2> HIDE DEF b
  <2>3. StepsClockwise(dealer, t) < StepsClockwise(dealer, dealer)
    BY <2>1 DEF StepsClockwise, Seats
  <2>4. StepsClockwise(dealer, b) \in 0..5 /\ StepsClockwise(dealer, t) \in 0..5
        /\ StepsClockwise(dealer, dealer) \in 0..5
    BY <2>1, <2>2, StepsType
  <2>5. b # dealer  BY <2>2, <2>3, <2>4
  <2> QED  BY <1>3, <2>2, <2>5 DEF AdvanceDealer, b
<1> QED  BY <1>2, <1>3
-----------------------------------------------------------------------------
\* The variables of a table on the game server have their types.
THEOREM ServerTypeCorrect == ServerSpec => []ServerTypeOK
<1>1. ServerInit => ServerInv  BY InitGood
<1>2. ServerInv /\ [ServerNext]_tableVars => ServerInv'  BY NextKeeps
<1>3. ServerInv => ServerTypeOK  BY DEF ServerInv
<1> QED  BY <1>1, <1>2, <1>3, PTL DEF ServerSpec

\* The action timer of a table is set exactly while a hand is on, and it acts for a
\* seat of the hand.
THEOREM TimerCorrect == ServerSpec => []TimerIffHand
<1>1. ServerInit => ServerInv  BY InitGood
<1>2. ServerInv /\ [ServerNext]_tableVars => ServerInv'  BY NextKeeps
<1>3. ServerInv => TimerIffHand  BY DEF ServerInv, ActorInv
<1> QED  BY <1>1, <1>2, <1>3, PTL DEF ServerSpec

\* A request that the server takes for handled.
Known(r) == (Numbered(r) /\ WasApplied(r)) \/ (Named(r) /\ AppliedIn(r, HandNumber))

\* One step of RetryMovesNothing: a numbered request that was applied is old, one with an
\* id that was applied in this hand is in the cache, and either can only be refused, or
\* acknowledged.
LEMMA RetryStep ==
  ASSUME ServerInv, [ServerNext]_tableVars, NEW r \in inFlight \ inFlight', Known(r)
  PROVE  MovesNoHand
<1>1. Replayed(r) \/ Duplicate(r)
  <2>1. CASE Numbered(r) /\ WasApplied(r)
    <3>1. PICK a \in applied : a.request = r  BY <2>1 DEF WasApplied
    <3>2. r.seq <= lastSeq[r.seat]  BY <2>1, <3>1 DEF ServerInv, AppliedIsOld
    <3> QED  BY <2>1, <3>2 DEF Replayed
  <2>2. CASE Named(r) /\ AppliedIn(r, HandNumber)
    <3> DEFINE a == [request |-> r, hand |-> handsPlayed]
    <3>1. a \in applied /\ a.request = r /\ a.hand = handsPlayed
      BY <2>2 DEF AppliedIn, HandNumber
    <3> HIDE DEF a
    <3>2. CachedFor(a)  BY <3>1 DEF ServerInv, AppliedIsCached
    <3>3. r \in answered  BY <2>2, <3>1, <3>2 DEF CachedFor
    <3> QED  BY <2>2, <3>3 DEF Duplicate
  <2> QED  BY <2>1, <2>2 DEF Known
<1>2. ~(Join \/ AutoStartFires \/ NextHandFires \/ TimeoutFires \/ UNCHANGED tableVars)
  BY DEF Join, AutoStartFires, NextHandFires, TimeoutFires, tableVars, agentVars
<1>3. ASSUME NEW s \in Seats, HandleHello(s) \/ Send(s) \/ Resend(s)  PROVE FALSE
  BY <1>3 DEF HandleHello, Send, Resend, agentVars
<1>4. PICK q \in inFlight : Lose(q) \/ HandleAction(q)
  BY <1>2, <1>3 DEF ServerNext
<1>5. q = r
  BY <1>4 DEF Lose, HandleAction, Accept, Reject, Refuse, AckDuplicate, TerminateTable,
              Received
<1>6. ~Accept(q) /\ ~Reject(q)
  BY <1>1, <1>5 DEF Accept, AcceptAction, Reject, RejectAction
<1>7. CASE Lose(q) \/ Refuse(q) \/ AckDuplicate(q)
  BY <1>7 DEF Lose, Refuse, AckDuplicate, actorVars, handVars, MovesNoHand
<1>8. CASE TerminateTable(q)
  BY <1>8 DEF TerminateTable, Close, MovesNoHand
<1> QED  BY <1>4, <1>6, <1>7, <1>8 DEF HandleAction

\* A repeated request moves no hand twice: one with a number never, one with an id not the
\* hand it has moved, whatever else its client and the other agents send.
THEOREM RetriesMoveNothing == ServerSpec => RetryMovesNothing
<1>1. ServerInit => ServerInv  BY InitGood
<1>2. ServerInv /\ [ServerNext]_tableVars => ServerInv'  BY NextKeeps
<1>3. ServerInv /\ [ServerNext]_tableVars =>
        \A r \in inFlight \ inFlight' :
          \/ Numbered(r) /\ WasApplied(r)
          \/ Named(r) /\ AppliedIn(r, HandNumber)
          => MovesNoHand
  BY RetryStep DEF Known
<1> QED  BY <1>1, <1>2, <1>3, PTL DEF ServerSpec, RetryMovesNothing

\* No timer deals a new hand over one that is still on.
THEOREM NoHandIsDealtOver == ServerSpec => HandIsNotDealtOver
<1>1. ASSUME [ServerNext]_tableVars, HandIsOn  PROVE playing' \in {playing, {}}
  <2>1. CASE \E buyIn \in BuyIns : AddSeat(buyIn)  BY <2>1 DEF AddSeat, handVars
  <2>2. CASE Moved  BY <2>2 DEF Moved, PlayOn, CompleteHand
  <2>3. CASE TableUntouched  BY <2>3 DEF TableUntouched
  <2> QED  BY <1>1, <2>1, <2>2, <2>3, StepKinds
<1>2. [ServerNext]_tableVars => (HandIsOn => playing' \in {playing, {}})  BY <1>1
<1> QED  BY <1>2, PTL DEF ServerSpec, HandIsNotDealtOver

\* Hands neither make nor lose chips: only a new agent changes how many there are.
THEOREM ChipsComeWithAgents == ServerSpec => OnlyJoinsBringChips
<1>1. ServerInit => ServerInv  BY InitGood
<1>2. ServerInv /\ [ServerNext]_tableVars => ServerInv'  BY NextKeeps
<1>3. ASSUME ServerInv, [ServerNext]_tableVars, taken' = taken  PROVE Total(stack') = Total(stack)
  <2>1. ~\E buyIn \in BuyIns : AddSeat(buyIn)  BY <1>3, JoinTakesSeat
  <2>2. CASE StartHand \/ TableUntouched  BY <2>2 DEF StartHand, TableUntouched
  <2>3. CASE PlayOn  BY <2>3 DEF PlayOn
  <2>4. CASE CompleteHand
    <3>1. PICK result \in [playing -> 0..Total(stack)] :
            AtStake(result) = AtStake(stack) /\ stack' = PaidOut(result)
      BY <2>4 DEF CompleteHand
    <3>2. stack \in [Seats -> Nat] /\ playing \subseteq Seats
      BY <1>3, TableSeats DEF ServerInv, ServerTypeOK, ActorTypeOK
    <3>3. result \in [playing -> Nat]  BY <3>2, TotalType
    <3> QED  BY <3>1, <3>2, <3>3, PayoutKeepsTotal
  <2> QED  BY <1>3, <2>1, <2>2, <2>3, <2>4, StepKinds DEF Moved
<1>4. ServerInv /\ [ServerNext]_tableVars => (taken' = taken => Total(stack') = Total(stack))
  BY <1>3
<1> QED  BY <1>1, <1>2, <1>4, PTL DEF ServerSpec, OnlyJoinsBringChips

\* After every hand that leaves two stacks the button moves, to a seat with chips.
THEOREM ButtonMoves == ServerSpec => ButtonMovesOn
<1>1. ServerInit => ServerInv  BY InitGood
<1>2. ServerInv /\ [ServerNext]_tableVars => ServerInv'  BY NextKeeps
<1>3. ASSUME ServerInv, [ServerNext]_tableVars, handsPlayed' # handsPlayed,
             Count(WithChips(stack)') >= 2
      PROVE  dealer' \in WithChips(stack)' /\ dealer' # dealer
  <2>1. HandIsOn /\ CompleteHand /\ UNCHANGED taken
    BY <1>3, StepKinds DEF AddSeat, StartHand, Moved, PlayOn, TableUntouched
  <2>2. PICK result \in [playing -> 0..Total(stack)] :
          stack' = PaidOut(result) /\ dealer' = ButtonAfter(PaidOut(result))
    BY <2>1 DEF CompleteHand
  <2>3. WithChips(stack)' = WithChips(PaidOut(result))  BY <2>1, <2>2 DEF WithChips
  <2>4. dealer' = AdvanceDealer(WithChips(stack)', dealer)
    BY <1>3, <2>2, <2>3 DEF ButtonAfter
  <2>5. WithChips(stack)' \in SUBSET Seats
    BY <1>3, <2>3, WithChipsAreSeats DEF ServerInv, ServerTypeOK
  <2>6. dealer \in Seats  BY <1>3, <2>1 DEF ServerInv, ActorInv
  <2> QED  BY <1>3, <2>4, <2>5, <2>6, ButtonGoesElsewhere
<1>4. ServerInv /\ [ServerNext]_tableVars =>
        (handsPlayed' # handsPlayed /\ Count(WithChips(stack)') >= 2
           => dealer' \in WithChips(stack)' /\ dealer' # dealer)
  BY <1>3
<1> QED  BY <1>1, <1>2, <1>4, PTL DEF ServerSpec, ButtonMovesOn
=============================================================================
