--------------------------- MODULE LedgerParties -----------------------------
(***************************************************************************)
(* The accounts and transfers of a chip ledger (adapters-ledger/src), and   *)
(* what a transfer does to balances.                                        *)
(***************************************************************************)
EXTENDS Integers

CONSTANTS
  Agents,   \* those who have accounts
  House,    \* HOUSE_AGENT_ID: the account that may be overdrawn
  Refs      \* the references of transfers

ASSUME HouseAssumption == House \notin Agents

Accounts == Agents \cup {House}

\* A transfer as it is asked for, and as it is booked.
Transfer == [ref : Refs, from : Accounts, to : Accounts, amount : Nat]

NothingHeld == [a \in Accounts |-> 0]

MovedFromCopies(held, t) ==
  [held EXCEPT ![t.from] = held[t.from] - t.amount, ![t.to] = held[t.to] + t.amount]

\* The balances after a transfer.  From an account to itself it moves nothing.
Moved(held, t) ==
  LET debited == [held EXCEPT ![t.from] = @ - t.amount]
  IN  [debited EXCEPT ![t.to] = @ + t.amount]

Covered(held, t) == t.from = House \/ held[t.from] >= t.amount
=============================================================================
