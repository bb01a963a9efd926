------------------------------- MODULE Ledger --------------------------------
(***************************************************************************)
(* What a ledger of chips promises (adapters-ledger/src/types.ts): a        *)
(* transfer is booked at most once per reference, it moves its amount from  *)
(* one account to another, and no account but the house's is overdrawn.     *)
(***************************************************************************)
EXTENDS LedgerParties

VARIABLES
  booked,  \* the transfers that are booked
  holding  \* what each account holds

LedgerInit == booked = {} /\ holding = NothingHeld

Book(t) ==
  /\ \A old \in booked : old.ref # t.ref
  /\ t.amount > 0
  /\ t.from = House \/ holding[t.from] >= t.amount
  /\ booked' = booked \cup {t}
  /\ holding' = [a \in Accounts |-> holding[a]
                   + (IF a = t.to THEN t.amount ELSE 0) - (IF a = t.from THEN t.amount ELSE 0)]

LedgerNext == \E t \in booked' \ booked : Book(t)

LedgerSpec == LedgerInit /\ [][LedgerNext]_<<booked, holding>>
=============================================================================
