------------------------------ MODULE BotPlayer ------------------------------
(***************************************************************************)
(* A bot of the lobby (lobby-api/src/bot-player.ts): an agent that connects *)
(* to the game server by itself, is told the state of its table, and        *)
(* decides with or without a language model.  Of the server there is what   *)
(* the bot is sent: WELCOME with its seat, STATE after each move that an    *)
(* agent makes, and HAND_COMPLETE.                                          *)
(*                                                                         *)
(* Messages arrive in order, and before the five seconds for a move are     *)
(* over; the language model may take longer.                                *)
(***************************************************************************)
EXTENDS Integers, Sequences, FiniteSets

CONSTANTS
  TableSeats,  \* the seats of the table: 0 up to some number
  BotSeat,     \* the bot's
  UsesAI       \* there is an API key

VARIABLES
  dealtIn,    \* the server: the seats in the hand, {} without one
  toAct,      \* and the seat to act
  inbox,      \* the messages on the way to the bot
  socket,     \* the bot: "new", "connecting", "open" or "closed"
  seatIndex,  \* as WELCOME said, -1 before
  current,    \* currentState, empty when it is null
  deciding,   \* what act works on while it awaits the model, empty otherwise
  moves       \* the ACTIONs on their way to the server

botVars == <<dealtIn, toAct, inbox, socket, seatIndex, current, deciding, moves>>
hand == <<dealtIn, toAct>>

\* What a player still has to put in: nothing, less than a fifth of the chips, or more.
Owed == {"nothing", "cheap", "dear"}

\* It equals no seat.
Undefined == -2

BotInit ==
  /\ dealtIn = {} /\ toAct = 0 /\ inbox = <<>>
  /\ socket = "new" /\ seatIndex = -1 /\ current = <<>>
  /\ deciding = <<>> /\ moves = <<>>

-----------------------------------------------------------------------------
(***************************************************************************)
(* The server.                                                              *)
(***************************************************************************)
SeatOrder(seats) ==
  [i \in 1..Cardinality(seats) |->
     CHOOSE s \in seats : Cardinality({r \in seats : r < s}) = i - 1]

\* A STATE message for the bot: `players' lists the seats dealt in without gaps, the
\* cards of others are taken out, and the seat to act is activePlayerSeatIndex.
State(seats, seat, owed, good) ==
  [type |-> "STATE",
   players |-> [i \in 1..Cardinality(seats) |->
                  [owes |-> owed[SeatOrder(seats)[i]],
                   good |-> good /\ SeatOrder(seats)[i] = BotSeat]],
   activePlayerSeatIndex |-> seat]

Broadcast(seats, seat) ==
  /\ dealtIn' = seats /\ toAct' = seat
  /\ \E owed \in [seats -> Owed], good \in BOOLEAN :
       inbox' = IF socket = "open" THEN Append(inbox, State(seats, seat, owed, good))
                ELSE inbox

Deal ==
  /\ dealtIn = {} /\ inbox = <<>> /\ socket = "open"
  /\ \E seats \in SUBSET TableSeats : Cardinality(seats) >= 2 /\
       \E seat \in seats : Broadcast(seats, seat)
  /\ UNCHANGED <<socket, seatIndex, current, deciding, moves>>

\* The hand goes on at another seat, or it is over.
Passes ==
  \/ \E seat \in dealtIn \ {toAct} : Broadcast(dealtIn, seat)
  \/ /\ dealtIn' = {}
     /\ inbox' = IF socket = "open" THEN Append(inbox, [type |-> "HAND_COMPLETE"]) ELSE inbox
     /\ UNCHANGED toAct

OtherMoves ==
  /\ toAct \in dealtIn \ {BotSeat} /\ inbox = <<>>
  /\ Passes
  /\ UNCHANGED <<socket, seatIndex, current, deciding, moves>>

\* Nobody is told what a timeout has done.
TimedOut ==
  /\ toAct \in dealtIn /\ inbox = <<>> /\ moves = <<>>
  /\ \/ toAct' \in dealtIn \ {toAct} /\ UNCHANGED dealtIn
     \/ dealtIn' = {} /\ UNCHANGED toAct
  /\ UNCHANGED <<inbox, socket, seatIndex, current, deciding, moves>>

\* The bot's ACTION, which is accepted when it is its turn.
BotMoves ==
  /\ moves # <<>>
  /\ moves' = Tail(moves)
  /\ \/ BotSeat \in dealtIn /\ toAct = BotSeat /\ Passes
     \/ ~(BotSeat \in dealtIn /\ toAct = BotSeat) /\ UNCHANGED <<hand, inbox>>
  /\ UNCHANGED <<socket, seatIndex, current, deciding>>

-----------------------------------------------------------------------------
(***************************************************************************)
(* The bot.                                                                 *)
(***************************************************************************)
Connecting ==
  /\ socket = "new"
  /\ socket' = "connecting"
  /\ UNCHANGED <<hand, inbox, seatIndex, current, deciding, moves>>

\* The socket opens, HELLO goes out, and the server sends WELCOME; or it does not
\* open within ten seconds.
Opened ==
  /\ socket = "connecting"
  /\ \/ socket' = "open" /\ inbox' = <<[type |-> "WELCOME"]>>
     \/ socket' = "closed" /\ UNCHANGED inbox
  /\ UNCHANGED <<hand, seatIndex, current, deciding, moves>>

Lost ==
  /\ socket = "open"
  /\ socket' = "closed" /\ inbox' = <<>>
  /\ UNCHANGED <<hand, seatIndex, current, deciding, moves>>

\* An object without the field gives undefined.
Field(object, name) == IF name \in DOMAIN object THEN object[name] ELSE Undefined

\* decideBasic.
DecideBasic(me) ==
  CASE me.owes = "nothing" -> "CHECK"
    [] me.owes = "cheap"   -> "CALL"
    [] me.owes = "dear"    -> IF me.good THEN "CALL" ELSE "FOLD"

\* parseAIResponse: one of the five actions, whatever the text; in the end it checks
\* or calls.
ParseAIResponse(me, text) ==
  IF text \in {"FOLD", "CHECK", "CALL", "BET", "RAISE"} THEN text
  ELSE IF me.owes = "nothing" THEN "CHECK" ELSE "CALL"

\* isMyTurn.
IsMyTurn(state) == Field(state, "activePlayerIndex") = seatIndex

\* `me' of processState: the player at the place in the list that the seat's number is.
Me(state) == state.players[seatIndex + 1]

\* act, up to its await or, without a key, to its end.
Act(me) ==
  IF UsesAI THEN deciding' = <<me>> /\ UNCHANGED moves
  ELSE moves' = Append(moves, DecideBasic(me)) /\ UNCHANGED deciding

ProcessState(state) ==
  IF seatIndex >= 0 /\ seatIndex + 1 \in DOMAIN state.players
  THEN /\ current' = <<Me(state)>>
       /\ IF IsMyTurn(state) THEN Act(Me(state)) ELSE UNCHANGED <<deciding, moves>>
  ELSE UNCHANGED <<current, deciding, moves>>

HandleMessage ==
  LET msg == Head(inbox) IN
  /\ inbox # <<>>
  /\ inbox' = Tail(inbox)
  /\ \/ /\ msg.type = "WELCOME"
        /\ seatIndex' = BotSeat
        /\ UNCHANGED <<current, deciding, moves>>
     \/ msg.type = "STATE" /\ ProcessState(msg) /\ UNCHANGED seatIndex
     \/ /\ msg.type = "HAND_COMPLETE"
        /\ current' = <<>>
        /\ UNCHANGED <<seatIndex, deciding, moves>>
  /\ UNCHANGED <<hand, socket>>

\* The model answers, or the call fails and the bot decides by itself.  Without its
\* socket act throws, which is logged.
ModelAnswers ==
  /\ deciding # <<>>
  /\ deciding' = <<>>
  /\ \E text \in {"FOLD", "CHECK", "CALL", "BET", "RAISE", "other", "error"} :
       moves' = IF socket # "open" THEN moves
                ELSE Append(moves, IF text = "error" THEN DecideBasic(deciding[1])
                                   ELSE ParseAIResponse(deciding[1], text))
  /\ UNCHANGED <<hand, inbox, socket, seatIndex, current>>

BotNext ==
  \/ Deal \/ OtherMoves \/ TimedOut \/ BotMoves
  \/ Connecting \/ Opened \/ Lost \/ HandleMessage \/ ModelAnswers

\* Messages arrive; hands are dealt, and go on.
BotFairness ==
  /\ WF_botVars(HandleMessage) /\ WF_botVars(ModelAnswers) /\ WF_botVars(BotMoves)
  /\ WF_botVars(Deal) /\ WF_botVars(OtherMoves) /\ WF_botVars(TimedOut)

BotSpec == BotInit /\ [][BotNext]_botVars /\ BotFairness

-----------------------------------------------------------------------------
\* The message the bot handles next says that it is to act.
Told ==
  /\ inbox # <<>> /\ Head(inbox).type = "STATE"
  /\ Head(inbox).activePlayerSeatIndex = BotSeat

\* bot-player.ts, of connect: "Connect to the game server and start playing."  A bot
\* that is told again and again that it is to act does so some time.
BotStartsPlaying == []<>Told => <>(moves # <<>>)
=============================================================================
