----------------------------- MODULE TableActor ------------------------------
(***************************************************************************)
(* The table actor of the game server (game-server/src/table-actor.ts): the *)
(* seats of one table and their chips, the button, the hand that is on, the *)
(* action timer, and what the actor remembers of the requests it has seen.  *)
(* The operations below are called by GameServer, which says when.          *)
(*                                                                         *)
(* Of a hand only what every hand does is kept (see HandAtTable): one seat  *)
(* has the turn, there are finitely many moves, and at the end the seats    *)
(* that were dealt in share exactly the chips they brought.  An agent is    *)
(* the seat it sits on: production code never calls removeSeat, so nobody   *)
(* leaves a seat.                                                           *)
(***************************************************************************)
EXTENDS Positions

CONSTANTS
  MaxSeats,  \* maxSeats of the table
  BuyIns,    \* the chips an agent may sit down with
  Carries,   \* the optional fields of its ACTIONs that each agent's client fills in
  MaxMoves   \* bound: the moves of a hand

\* The optional fields of an ACTION (schemas.ts).
Fields == {"seq", "requestId"}

ASSUME TableAssumption ==
  /\ MaxSeats \in 2..6 /\ BuyIns \subseteq Nat /\ MaxMoves \in Nat \ {0}
  /\ Carries \in [Seats -> SUBSET Fields]

NoSeat == -1

\* A request is one decision of an agent, the first, second and so on; its number and
\* its id are sent if the client fills them in, and are the same when it is repeated.
Requests == [seat : Seats, seq : Nat]

Numbered(request) == "seq" \in Carries[request.seat]
Named(request)    == "requestId" \in Carries[request.seat]

VARIABLES
  taken,        \* the seats somebody sits on
  stack,        \* the chips of each seat, as of the last hand that ended
  dealer,       \* the seat of the button, NoSeat before the first hand
  playing,      \* the seats dealt into the hand; {} when there is no hand
  turn,         \* the seat to act
  moves,        \* the moves the hand has left at most, none when it is over
  timer,        \* the action timer is set
  answered,     \* requestIdCache: the requests whose ids it has
  lastSeq,      \* seqPerSeat, -1 when there is none
  handsPlayed

handVars  == <<playing, turn, moves, timer>>
actorVars == <<taken, stack, dealer, handVars, answered, lastSeq, handsPlayed>>

ActorInit ==
  /\ taken = {} /\ stack = Nothing
  /\ dealer = NoSeat
  /\ playing = {} /\ turn = NoSeat /\ moves = 0 /\ timer = FALSE
  /\ answered = {} /\ lastSeq = [s \in Seats |-> -1]
  /\ handsPlayed = 0

-----------------------------------------------------------------------------
HandIsOn == playing # {}

\* The seats that can be dealt in.
WithChips(stacks) == {s \in taken : stacks[s] > 0}

FreeSeatsOfSix == Seats \ taken

FreeSeats == (0..(MaxSeats - 1)) \ taken

AddSeat(buyIn) ==
  LET seat == LowestSeat(FreeSeats) IN
  /\ FreeSeats # {}
  /\ taken' = taken \cup {seat}
  /\ stack' = [stack EXCEPT ![seat] = buyIn]
  /\ UNCHANGED <<dealer, handVars, answered, lastSeq, handsPlayed>>

CanStartHand == Count(WithChips(stack)) >= 2

\* The button of the next hand.  createInitialState throws unless that seat is
\* dealt in, and then startHand has changed nothing.
NextDealer == IF dealer = NoSeat THEN LowestSeat(WithChips(stack)) ELSE dealer
DealerIsDealtIn == NextDealer \in WithChips(stack)

StartHand ==
  /\ CanStartHand /\ DealerIsDealtIn
  /\ dealer' = NextDealer
  /\ playing' = WithChips(stack)
  /\ turn' = FirstToActPreflop(WithChips(stack), NextDealer)
  /\ moves' \in 1..MaxMoves
  /\ timer' = TRUE
  /\ answered' = {}
  /\ UNCHANGED <<taken, stack, lastSeq, handsPlayed>>

\* A hand as StartHand leaves it.
HandStarted ==
  /\ playing = WithChips(stack) /\ Count(playing) >= 2 /\ dealer \in playing
  /\ turn = FirstToActPreflop(playing, dealer)
  /\ moves \in 1..MaxMoves /\ timer = TRUE

-----------------------------------------------------------------------------
\* What an accepted move leads to: the turn passes and the timer starts again, or
\* the hand is over.
PlayOnTimerOff ==
  /\ moves' \in 1..(moves - 1)
  /\ turn' \in playing
  /\ timer' = FALSE
  /\ UNCHANGED <<stack, dealer, playing, handsPlayed>>

PlayOn ==
  /\ moves' \in 1..(moves - 1)
  /\ turn' \in playing
  /\ timer' = TRUE
  /\ UNCHANGED <<stack, dealer, playing, handsPlayed>>

ButtonFromOldStacks(stacks) ==
  IF Count(WithChips(stack)) >= 2 THEN AdvanceDealer(WithChips(stack), dealer)
  ELSE dealer

\* Where the button goes after a hand; with fewer than two stacks left it stays.
ButtonAfter(stacks) ==
  IF Count(WithChips(stacks)) >= 2 THEN AdvanceDealer(WithChips(stacks), dealer)
  ELSE dealer

PaidOutToPlayers(result) == [s \in Seats |-> IF s \in playing THEN result[s] ELSE 0]

\* The chips of the seats after a hand in which they end up with `result'.
PaidOut(result) == [s \in Seats |-> IF s \in playing THEN result[s] ELSE stack[s]]

AtStake(chips) == Total([s \in Seats |-> IF s \in playing THEN chips[s] ELSE 0])

CompleteHand ==
  \E result \in [playing -> 0..Total(stack)] :
    /\ AtStake(result) = AtStake(stack)
    /\ stack' = PaidOut(result)
    /\ dealer' = ButtonAfter(PaidOut(result))
    /\ handsPlayed' = handsPlayed + 1
    /\ playing' = {} /\ moves' = 0 /\ timer' = FALSE
    /\ UNCHANGED turn

Moved == HandIsOn /\ (PlayOn \/ CompleteHand)

-----------------------------------------------------------------------------
\* processAction: what it makes of a request of an agent.
Duplicate(request) == Named(request) /\ request \in answered
ReplayedSameSeq(request) == Numbered(request) /\ request.seq < lastSeq[request.seat]
Replayed(request)  == Numbered(request) /\ request.seq <= lastSeq[request.seat]

NumberUsedUp(request) ==
  lastSeq' = IF Numbered(request) THEN [lastSeq EXCEPT ![request.seat] = request.seq]
             ELSE lastSeq

\* The engine rejects the move: it is another seat's turn, or it is not legal.
\* Its sequence number, if it has one, is used up all the same.
RejectAction(request) ==
  /\ HandIsOn /\ ~Duplicate(request) /\ ~Replayed(request)
  /\ NumberUsedUp(request)
  /\ UNCHANGED <<taken, stack, dealer, handVars, answered, handsPlayed>>

AcceptAction(request) ==
  /\ HandIsOn /\ ~Duplicate(request) /\ ~Replayed(request)
  /\ request.seat = turn
  /\ Moved
  /\ NumberUsedUp(request)
  /\ answered' = answered \cup {r \in {request} : Named(r)}
  /\ UNCHANGED taken

\* The timer fires: the seat to act checks, or folds when it cannot.
HandleTimeout ==
  /\ timer
  /\ Moved
  /\ UNCHANGED <<taken, answered, lastSeq>>

Close ==
  /\ timer' = FALSE
  /\ UNCHANGED <<taken, stack, dealer, playing, turn, moves, answered, lastSeq,
                 handsPlayed>>

-----------------------------------------------------------------------------
\* The types of the actor's variables.
ActorTypeOK ==
  /\ taken \subseteq 0..(MaxSeats - 1) /\ stack \in [Seats -> Nat]
  /\ dealer \in Seats \cup {NoSeat}
  /\ playing \subseteq taken /\ turn \in Seats \cup {NoSeat}
  /\ moves \in Nat /\ timer \in BOOLEAN
  /\ answered \subseteq Requests /\ lastSeq \in [Seats -> Nat \cup {-1}]
  /\ handsPlayed \in Nat
=============================================================================
