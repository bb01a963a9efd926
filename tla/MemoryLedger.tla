---------------------------- MODULE MemoryLedger -----------------------------
(***************************************************************************)
(* The ledger in memory (adapters-ledger/src/memory-ledger.ts).  Its methods *)
(* have no await in them, so a call is one step.  A call that throws, and   *)
(* one that returns the id of an earlier transfer, changes nothing: it is   *)
(* an action that is not enabled.                                           *)
(* The operator of LedgerParties that is named for a mistake is not used.   *)
(***************************************************************************)
EXTENDS LedgerParties

CONSTANT Asked  \* the transfers that are asked for

ASSUME AskedAssumption == Asked \subseteq Transfer

VARIABLES
  memAccounts,  \* who has an account
  memBalance,   \* the balances, 0 without an account
  txByRef       \* the transfers that were made

memVars == <<memAccounts, memBalance, txByRef>>

Promise == INSTANCE Ledger WITH booked <- txByRef, holding <- memBalance

MemInit ==
  /\ memAccounts = {House}
  /\ memBalance = NothingHeld
  /\ txByRef = {}

CreateAccount(agent) ==
  /\ memAccounts' = memAccounts \cup {agent}
  /\ UNCHANGED <<memBalance, txByRef>>

\* The reference is that of an earlier transfer: its id is returned, or the call
\* throws because it asks for something else.
Known(ref) == \E old \in txByRef : old.ref = ref

MakeTransfer(t) ==
  /\ ~Known(t.ref)
  /\ t.amount > 0
  /\ {t.from, t.to} \subseteq memAccounts
  /\ Covered(memBalance, t)
  /\ memBalance' = Moved(memBalance, t)
  /\ txByRef' = txByRef \cup {t}
  /\ UNCHANGED memAccounts

MemNext ==
  \/ \E agent \in Agents : CreateAccount(agent)
  \/ \E t \in Asked : MakeTransfer(t)

MemSpec == MemInit /\ [][MemNext]_memVars

-----------------------------------------------------------------------------
\* A transfer is booked once per reference, moves its amount and nothing else, also
\* from an account to itself, and overdraws nobody but the house, whatever is asked
\* for, again or in another order.
KeepsLedgerPromise == Promise!LedgerSpec
=============================================================================
