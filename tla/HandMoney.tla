------------------------------ MODULE HandMoney ------------------------------
(***************************************************************************)
(* What a hand promises about money, and nothing else: one seat at a time   *)
(* puts some of its chips into the pot, and once, at the end, the whole pot *)
(* goes back to the seats.  PokerHand implements this module.               *)
(***************************************************************************)
EXTENDS Positions

VARIABLES stacks, middle, settled

moneyVars == <<stacks, middle, settled>>

Init ==
  /\ stacks \in [Seats -> Nat]
  /\ middle \in Nat
  /\ settled = FALSE

After(s, amount) == [stacks EXCEPT ![s] = @ - amount]

Stake ==
  \E s \in Seats : \E amount \in 0..stacks[s] :
    /\ ~settled
    /\ stacks' = After(s, amount)
    /\ middle' = middle + amount
    /\ UNCHANGED settled

\* The pot is paid out in the same step as the last stake: nobody's chips go
\* down, and everything that was in play is still there.
Settle ==
  \E s \in Seats : \E amount \in 0..stacks[s] :
    /\ ~settled
    /\ \A t \in Seats : stacks'[t] >= After(s, amount)[t]
    /\ Total(stacks') = Total(stacks) + middle
    /\ middle' = 0
    /\ settled' = TRUE

Spec == Init /\ [][Stake \/ Settle]_moneyVars
=============================================================================
