---------------------------- MODULE PostgresLedger ---------------------------
(***************************************************************************)
(* The ledger in PostgreSQL (adapters-ledger/src/postgres-ledger.ts).  A    *)
(* transfer is one transaction at the default isolation, READ COMMITTED:    *)
(* each of its statements sees what is committed when it runs, its writes   *)
(* lock their rows until it ends, and nothing of it is seen before the      *)
(* commit.  The balances it writes are computed from those it has read.     *)
(***************************************************************************)
EXTENDS LedgerParties, FiniteSetsExt

CONSTANTS
  Calls,     \* the calls of transfer, some of them at the same time
  Asks       \* what each call asks for

ASSUME CallsAssumption == Asks \in [Calls -> Transfer]

VARIABLES
  pgAccounts, \* chip_accounts: who has an account
  pgBalance,  \* chip_accounts: the committed balances
  pgTx,       \* chip_tx: the calls whose transfers are committed
  stage,      \* how far each call has come
  seenFrom,   \* the balance a call has read of the account it takes from
  seenTo,     \* and of the account it gives to
  seenTx,     \* history: what was committed when it read the first
  overlapped  \* history: accounts that two transfers were made on at a time

pgVars == <<pgAccounts, pgBalance, pgTx, stage, seenFrom, seenTo, seenTx, overlapped>>

Touched(t) == {t.from, t.to}

\* A call that is not "idle" or "done" is inside its transaction; from "debited"
\* on it holds the row of the account it takes from, "credited" both rows.
Inserted == {"inserted", "debited", "credited"}

HoldsRow(c, account) ==
  \/ stage[c] = "debited" /\ account = Asks[c].from
  \/ stage[c] = "credited" /\ account \in Touched(Asks[c])

RowIsFree(c, account) == \A other \in Calls \ {c} : ~HoldsRow(other, account)

PgInit ==
  /\ pgAccounts = {}
  /\ pgBalance = NothingHeld
  /\ pgTx = {}
  /\ stage = [c \in Calls |-> "idle"]
  /\ seenFrom = [c \in Calls |-> 0]
  /\ seenTo = [c \in Calls |-> 0]
  /\ seenTx = [c \in Calls |-> {}]
  /\ overlapped = {}

Reach(c, to) == stage' = [stage EXCEPT ![c] = to]

\* The look-up and the insert of createAccount are two statements, but agent_id is
\* UNIQUE: the later of two inserts fails.
PgCreateAccount(account) ==
  /\ pgAccounts' = pgAccounts \cup {account}
  /\ UNCHANGED <<pgBalance, pgTx, stage, seenFrom, seenTo, seenTx, overlapped>>

RefIsTaken(ref) == \E c \in pgTx : Asks[c].ref = ref

\* With a known reference the call returns the earlier id or throws.
BeginTransfer(c) ==
  /\ stage[c] = "idle"
  /\ Asks[c].amount > 0
  /\ Reach(c, IF RefIsTaken(Asks[c].ref) THEN "done" ELSE "fresh")
  /\ UNCHANGED <<pgAccounts, pgBalance, pgTx, seenFrom, seenTo, seenTx, overlapped>>

ReadFrom(c) ==
  /\ stage[c] = "fresh"
  /\ Reach(c, IF Asks[c].from \in pgAccounts THEN "from" ELSE "idle")
  /\ seenFrom' = [seenFrom EXCEPT ![c] = pgBalance[Asks[c].from]]
  /\ seenTx' = [seenTx EXCEPT ![c] = pgTx]
  /\ UNCHANGED <<pgAccounts, pgBalance, pgTx, seenTo, overlapped>>

AnyCover(c) == TRUE

\* The cover of the balance that was read.
PgCovered(c) == Asks[c].from = House \/ seenFrom[c] >= Asks[c].amount

ReadTo(c) ==
  /\ stage[c] = "from"
  /\ seenTo' = [seenTo EXCEPT ![c] = pgBalance[Asks[c].to]]
  /\ Reach(c, IF Asks[c].to \in pgAccounts /\ PgCovered(c) THEN "covered" ELSE "idle")
  /\ UNCHANGED <<pgAccounts, pgBalance, pgTx, seenFrom, seenTx, overlapped>>

NeverPending(ref) == FALSE

\* chip_tx.ref is UNIQUE: an insert waits for another transaction that has
\* inserted the reference, and fails if that one commits.
RefIsPending(ref) == \E c \in Calls : stage[c] \in Inserted /\ Asks[c].ref = ref

InsertTx(c) ==
  /\ stage[c] = "covered"
  /\ ~RefIsPending(Asks[c].ref)
  /\ Reach(c, IF RefIsTaken(Asks[c].ref) THEN "idle" ELSE "inserted")
  /\ UNCHANGED <<pgAccounts, pgBalance, pgTx, seenFrom, seenTo, seenTx, overlapped>>

UpdateFrom(c) ==
  /\ stage[c] = "inserted"
  /\ RowIsFree(c, Asks[c].from)
  /\ Reach(c, "debited")
  /\ UNCHANGED <<pgAccounts, pgBalance, pgTx, seenFrom, seenTo, seenTx, overlapped>>

UpdateTo(c) ==
  /\ stage[c] = "debited"
  /\ RowIsFree(c, Asks[c].to)
  /\ Reach(c, "credited")
  /\ UNCHANGED <<pgAccounts, pgBalance, pgTx, seenFrom, seenTo, seenTx, overlapped>>

\* The two absolute balances, the credit last: an account that pays itself is
\* left with the credit.
Written(c) ==
  [pgBalance EXCEPT ![Asks[c].from] = seenFrom[c] - Asks[c].amount,
                    ![Asks[c].to] = seenTo[c] + Asks[c].amount]

Commit(c) ==
  /\ stage[c] = "credited"
  /\ Reach(c, "done")
  /\ pgBalance' = Written(c)
  /\ pgTx' = pgTx \cup {c}
  /\ overlapped' = overlapped \cup
       {a \in Touched(Asks[c]) : \E d \in pgTx \ seenTx[c] : a \in Touched(Asks[d])}
  /\ UNCHANGED <<pgAccounts, seenFrom, seenTo, seenTx>>

\* The connection is lost, or the database ends the transaction for a deadlock.
\* What it did is rolled back; the caller may ask again.
RollBack(c) ==
  /\ stage[c] \notin {"idle", "done"}
  /\ Reach(c, "idle")
  /\ UNCHANGED <<pgAccounts, pgBalance, pgTx, seenFrom, seenTo, seenTx, overlapped>>

PgNext ==
  \/ \E account \in Accounts : PgCreateAccount(account)
  \/ \E c \in Calls :
       \/ BeginTransfer(c) \/ ReadFrom(c) \/ ReadTo(c) \/ InsertTx(c)
       \/ UpdateFrom(c) \/ UpdateTo(c) \/ Commit(c) \/ RollBack(c)

PgSpec == PgInit /\ [][PgNext]_pgVars

-----------------------------------------------------------------------------
\* A reference is booked once, however calls that name it overlap: the look-up
\* alone (line 78) lets two of them pass.
RefBookedOnce == \A c, d \in pgTx : Asks[c].ref = Asks[d].ref => c = d

\* However many transfers read the same balance before one of them writes, no
\* agent's balance is ever below zero (only updates are lost).
NobodyOverdrawn == \A a \in Agents : pgBalance[a] >= 0

\* What the transfers in the book add up to for an account.
AmountOf(calls) == MapThenSumSet(LAMBDA c : Asks[c].amount, calls)

BookSays(account) ==
  AmountOf({c \in pgTx : Asks[c].to = account}) - AmountOf({c \in pgTx : Asks[c].from = account})

\* types.ts: "Transfer chips from one agent to another (double-entry)".  A balance is
\* what the transfers in the book make it.
BalancesAreTheBook == \A a \in Accounts : pgBalance[a] = BookSays(a)

\* How far the code keeps to it: a balance differs from the book only where two
\* transfers overlapped on the account, or where it paid itself.
LostOnlyByOverlap == \A a \in Accounts :
  \/ pgBalance[a] = BookSays(a)
  \/ a \in overlapped
  \/ \E c \in pgTx : Touched(Asks[c]) = {a}
=============================================================================
