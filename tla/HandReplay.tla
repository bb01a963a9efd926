----------------------------- MODULE HandReplay ------------------------------
(***************************************************************************)
(* The replay of a recorded hand (hand-history/src/replay.ts).  The hand is *)
(* dealt again from the setup and the seed in the log, and every            *)
(* PLAYER_ACTION is applied again with the amount the log has of it, which  *)
(* is not the amount that was asked for but the chips that were put in.     *)
(* Folds, checks and calls take no amount.                                  *)
(***************************************************************************)
EXTENDS PokerHand

\* A bet or raise, as the actions Bet and Raise of PokerHand.
BetMove   == [fixed |-> BetSize, least |-> MinBet, most |-> MaxBet]
RaiseMove == [fixed |-> ToCall + BetSize, least |-> MinRaise, most |-> MaxRaise]

OpenMoves ==
  {m \in {BetMove} : ToCall = 0 /\ ~RaiseCapReached /\ chips[active] > 0}
  \cup {m \in {RaiseMove} : ToCall > 0 /\ ~RaiseCapReached /\ chips[active] > ToCall}

RecordedAsAsked(requested, move) == requested + 1

\* The amount of the PLAYER_ACTION event.
Recorded(requested, move) == PutIn(requested, move.fixed)

\* The move is made again from the log, in the state it was made in.
ReplaysAs(recorded, move) ==
  IF Accepted(recorded, move.least, move.most) THEN {PutIn(recorded, move.fixed)} ELSE {}

\* What the log says of a bet or raise makes the same move again, a bet of the fixed
\* size, an all-in below the smallest raise and one beyond the stack included.  A
\* pot-limit all-in beyond the largest raise is left out: it does not replay.
BetsReplay ==
  ~complete /\ hand.mode # "POT_LIMIT" =>
    \A move \in OpenMoves : \A requested \in Amounts :
      Accepted(requested, move.least, move.most) =>
        ReplaysAs(Recorded(requested, move), move) = {PutIn(requested, move.fixed)}
=============================================================================
