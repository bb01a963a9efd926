----------------------------- MODULE GameServer ------------------------------
(***************************************************************************)
(* One table on the game server (game-server/src/ws-handler.ts): agents say *)
(* HELLO, send ACTIONs and repeat requests; three kinds of timers start     *)
(* hands and act for agents that do not.  The table itself is TableActor.   *)
(*                                                                         *)
(* Node runs one callback at a time, and the rate limiter handleAction      *)
(* awaits is a map in memory, so a handler is one step.  An agent may have  *)
(* several connections and lose any of them, so ACTIONs in flight have no   *)
(* order and may never be handled.  A HELLO that is refused changes nothing.*)
(* Whether an ACTION has a sequence number and an id is up to the client:   *)
(* the agent SDK sends both, the bots of the lobby neither.                 *)
(***************************************************************************)
EXTENDS TableActor

CONSTANTS
  MaxSeq,   \* bound: the requests of an agent
  MaxHands  \* bound: the hands that are started

ASSUME ServerAssumption == MaxSeq \in Nat /\ MaxHands \in Nat

VARIABLES
  registered,  \* the table is in `tables'
  autoStart,   \* the auto-start timer is set
  nextHand,    \* the timers set for the hand after a finished one
  sent,        \* how many requests each agent has made
  inFlight,    \* the ACTIONs sent and not received
  announced,   \* the state of the hand was sent to all clients of the table
  applied      \* history: the requests that moved a hand, and which

serverVars == <<registered, autoStart, nextHand, announced>>
agentVars  == <<sent, inFlight, applied>>
tableVars == <<actorVars, serverVars, agentVars>>

\* Hands are told apart by how many were played before.
HandNumber == handsPlayed
Applications == [request : Requests, hand : Nat]

AppliedIn(request, hand) == [request |-> request, hand |-> hand] \in applied
WasApplied(request) == \E a \in applied : a.request = request

ServerInit ==
  /\ ActorInit
  /\ registered = TRUE /\ autoStart = FALSE /\ nextHand = 0 /\ announced = FALSE
  /\ sent = [s \in Seats |-> 0] /\ inFlight = {} /\ applied = {}

-----------------------------------------------------------------------------
\* The lobby seats an agent (POST /api/tables/:id/join, or a match).
Join ==
  /\ registered
  /\ \E buyIn \in BuyIns : AddSeat(buyIn)
  /\ UNCHANGED <<serverVars, agentVars>>

\* Every HELLO starts the auto-start timer afresh.  WELCOME goes to one client.
HandleHello(s) ==
  /\ registered /\ s \in taken
  /\ autoStart' = TRUE
  /\ UNCHANGED <<actorVars, registered, nextHand, announced, agentVars>>

\* An agent that has a seat makes a new request, with the next sequence number if its
\* client counts.
Send(s) ==
  /\ s \in taken /\ sent[s] < MaxSeq
  /\ sent' = [sent EXCEPT ![s] = @ + 1]
  /\ inFlight' = inFlight \cup {[seat |-> s, seq |-> sent[s] + 1]}
  /\ UNCHANGED <<actorVars, serverVars, applied>>

\* An agent that has had no ACK repeats a request, on any of its connections.
Resend(s) ==
  /\ \E seq \in 1..sent[s] : inFlight' = inFlight \cup {[seat |-> s, seq |-> seq]}
  /\ UNCHANGED <<actorVars, serverVars, sent, applied>>

\* The connection closes before the request is handled, or the request is refused
\* before the table sees it: too fast, or malformed.
Lose(request) ==
  /\ inFlight' = inFlight \ {request}
  /\ UNCHANGED <<actorVars, serverVars, sent, applied>>

-----------------------------------------------------------------------------
TryStartOverHand ==
  \/ registered /\ StartHand /\ announced' = TRUE
  \/ /\ ~(registered /\ CanStartHand /\ DealerIsDealtIn)
     /\ UNCHANGED <<actorVars, announced>>

\* tryStartHand.  When startHand throws, the error is logged and nothing else.
TryStartHand ==
  \/ registered /\ ~HandIsOn /\ StartHand /\ announced' = TRUE
  \/ /\ ~(registered /\ ~HandIsOn /\ CanStartHand /\ DealerIsDealtIn)
     /\ UNCHANGED <<actorVars, announced>>

AutoStartFires ==
  /\ autoStart /\ handsPlayed < MaxHands
  /\ TryStartHand
  /\ autoStart' = FALSE
  /\ UNCHANGED <<registered, nextHand, agentVars>>

NextHandFires ==
  /\ nextHand > 0 /\ handsPlayed < MaxHands
  /\ TryStartHand
  /\ nextHand' = nextHand - 1
  /\ UNCHANGED <<registered, autoStart, agentVars>>

\* The action timer of the table actor.  Nobody is sent what it did, and when it
\* ended the hand no timer is set for the next one.
TimeoutFires ==
  /\ HandleTimeout
  /\ announced' = FALSE
  /\ UNCHANGED <<registered, autoStart, nextHand, agentVars>>

-----------------------------------------------------------------------------
(***************************************************************************)
(* handleAction, with what processAction of the table makes of the request. *)
(***************************************************************************)
Received(request) ==
  /\ inFlight' = inFlight \ {request}
  /\ UNCHANGED <<autoStart, sent>>

\* The seat whose turn it is moves.  Everybody connected is sent the new state,
\* and a finished hand sets the timer for the next one.
Accept(request) ==
  /\ registered /\ Received(request)
  /\ AcceptAction(request)
  /\ applied' = applied \cup {[request |-> request, hand |-> HandNumber]}
  /\ announced' = TRUE
  /\ nextHand' = nextHand + (handsPlayed' - handsPlayed)
  /\ UNCHANGED registered

\* ERROR to the sender: the engine rejects the move.
Reject(request) ==
  /\ registered /\ Received(request)
  /\ RejectAction(request)
  /\ UNCHANGED <<registered, nextHand, announced, applied>>

\* ERROR to the sender: the table is gone, or the sequence number is not new.
Refuse(request) ==
  /\ Received(request)
  /\ ~registered \/ (HandIsOn /\ ~Duplicate(request) /\ Replayed(request))
  /\ UNCHANGED <<actorVars, registered, nextHand, announced, applied>>

\* A request the hand has already answered: ACK, and the state once more.
AckDuplicate(request) ==
  /\ registered /\ Received(request)
  /\ HandIsOn /\ Duplicate(request)
  /\ announced' = TRUE
  /\ UNCHANGED <<actorVars, registered, nextHand, applied>>

\* No hand is on: processAction throws what is not a PokerError, and the table is
\* closed and forgotten.
TerminateTable(request) ==
  /\ registered /\ Received(request)
  /\ ~HandIsOn
  /\ registered' = FALSE
  /\ Close
  /\ UNCHANGED <<nextHand, announced, applied>>

HandleAction(request) ==
  \/ Accept(request)
  \/ Reject(request)
  \/ Refuse(request)
  \/ AckDuplicate(request)
  \/ TerminateTable(request)

ServerNext ==
  \/ Join
  \/ \E s \in Seats : HandleHello(s) \/ Send(s) \/ Resend(s)
  \/ AutoStartFires
  \/ NextHandFires
  \/ TimeoutFires
  \/ \E request \in inFlight : Lose(request) \/ HandleAction(request)

\* The action timer is a setTimeout that nothing but a new move, the end of the
\* hand or the end of the table cancels.
ServerFairness == WF_tableVars(TimeoutFires)

ServerSpec == ServerInit /\ [][ServerNext]_tableVars /\ ServerFairness

-----------------------------------------------------------------------------
\* The types of the variables.
ServerTypeOK ==
  /\ ActorTypeOK
  /\ registered \in BOOLEAN /\ autoStart \in BOOLEAN /\ nextHand \in Nat
  /\ announced \in BOOLEAN
  /\ sent \in [Seats -> 0..MaxSeq]
  /\ inFlight \subseteq Requests /\ applied \subseteq Applications

\* The action timer is set exactly while a hand is on, through every move, timeout
\* and end of a hand, and it would act for a seat that is in the hand.
TimerIffHand ==
  /\ timer <=> HandIsOn
  /\ HandIsOn => turn \in playing

\* Hands only move chips between seats: the chips on the table change when an
\* agent sits down, also when it sits down in the middle of a hand, and never else.
OnlyJoinsBringChips == [][taken' = taken => Total(stack') = Total(stack)]_tableVars

\* A running hand is never dealt over, though the auto-start timer and the timers
\* of several finished hands may be pending at the same time.
HandIsNotDealtOver == [][HandIsOn => playing' \in {playing, {}}]_tableVars

\* After a hand that leaves two seats with chips the button is at another seat
\* than before, and that seat has chips.
ButtonMovesOn ==
  [][handsPlayed' # handsPlayed /\ Count(WithChips(stack)') >= 2
       => dealer' \in WithChips(stack)' /\ dealer' # dealer]_tableVars

\* A repeated request that is handled again leaves the hand alone, however late: one with
\* a number when it has moved any hand, one with an id when it has moved this hand, the
\* start of a hand clearing the cache of ids.  Nothing tells the repeat of a request
\* with neither from a new one.
MovesNoHand == UNCHANGED <<stack, dealer, playing, turn, moves, lastSeq>>

RetryMovesNothing ==
  [][\A r \in inFlight \ inFlight' :
       \/ Numbered(r) /\ WasApplied(r)
       \/ Named(r) /\ AppliedIn(r, HandNumber)
       => MovesNoHand]_tableVars

\* Every hand ends, whatever the agents do or fail to do.
HandsEnd == HandIsOn ~> ~HandIsOn

-----------------------------------------------------------------------------
\* docs/SKILL.md: "Reuse same requestId: Silently deduplicated (ignored)", whatever hand
\* the request was applied in.
RequestIdMovesOnce ==
  [][\A r \in inFlight \ inFlight' : Named(r) /\ WasApplied(r) => MovesNoHand]_tableVars

\* The same sentence, of the table: it survives the repeat.
RetryKeepsTable ==
  [][\A r \in inFlight \ inFlight' :
       Named(r) /\ WasApplied(r) => registered' = registered]_tableVars

\* docs/SKILL.md: "When a hand finishes (all streets complete or everyone folds), the
\* server sends HAND_COMPLETE"; docs/API_REFERENCE.md: "On HAND_COMPLETE -> next hand
\* starts automatically".  When a hand ends at a table that can play on, its outcome is
\* sent to all clients and some timer is going to start the next one.
FinishedHandIsFollowedUp ==
  [][registered /\ handsPlayed' # handsPlayed /\ CanStartHand'
       => announced' /\ (autoStart' \/ nextHand' > 0)]_tableVars

\* positions.ts: "Dealer left; pick first seat".  A table with two stacks and no
\* hand can start one: the button is at a seat that can be dealt in.
HandCanStart == ~HandIsOn /\ CanStartHand => DealerIsDealtIn
=============================================================================
