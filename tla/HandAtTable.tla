----------------------------- MODULE HandAtTable ------------------------------
(***************************************************************************)
(* A hand of the engine as the table actor sees it.  TableActor keeps of a  *)
(* hand only who plays it, whose turn it is, how many moves it may have     *)
(* left and the chips the seats end with; here the engine's hand            *)
(* (PokerHand) is mapped to these variables.                                *)
(***************************************************************************)
EXTENDS PokerHand

CONSTANT MaxMoves  \* the moves of a hand, see TableActor

\* The stacks as the actor has them: its own copy is behind until the hand is over.
SeatStacks == IF complete THEN chips ELSE hand.stacks

\* The button, which completeHand moves on when two stacks are left.
Button ==
  LET left == {s \in Dealt : chips[s] > 0} IN
  IF complete /\ Count(left) >= 2 THEN AdvanceDealer(left, hand.dealer) ELSE hand.dealer

Table == INSTANCE TableActor WITH
  MaxSeats <- 6, BuyIns <- Nat, Carries <- [s \in Seats |-> {}],
  taken <- Dealt, stack <- SeatStacks, dealer <- Button,
  playing <- IF complete THEN {} ELSE Dealt, turn <- active, moves <- MovesLeft,
  timer <- ~complete, answered <- {}, lastSeq <- Nothing,
  handsPlayed <- IF complete THEN 1 ELSE 0

\* A hand is to the actor what TableActor says: it is dealt as StartHand has it, and
\* every action the engine accepts passes the turn to a seat of the hand, with fewer
\* moves left, or completes the hand and shares out exactly what the seats brought
\* (table-actor.ts, startHand, processAction, handleTimeout and completeHand).
KeepsTablePromise ==
  Table!HandStarted /\ [][Table!Moved /\ UNCHANGED Dealt]_(Table!actorVars)
=============================================================================
