--------------------------- MODULE RecordsProofs ----------------------------
(***************************************************************************)
(* What is recorded of the play, for any agents, transfers, events and     *)
(* sessions: the ledger in memory keeps the promise of a ledger, and the   *)
(* one in PostgreSQL loses a transfer only to an overlap; the log of a     *)
(* hand is kept and its chain is the only one accepted; a session passes   *)
(* its own checks; the collusion scores are founded.                       *)
(***************************************************************************)
EXTENDS MemoryLedger, PostgresLedger, HandHistory, Session, Detectors, CommonProofs

(***************************************************************************)
(* The two ledgers (MemoryLedger, PostgresLedger): a reference is booked   *)
(* once and no agent is overdrawn, for any number of overlapping calls.    *)
(***************************************************************************)
\* The invariant: what is booked was asked for, balances are numbers, and only the
\* house has ever less than nothing.
MemInv ==
  /\ memAccounts \subseteq Accounts
  /\ memBalance \in [Accounts -> Int]
  /\ txByRef \subseteq Transfer
  /\ \A a \in Agents : memBalance[a] >= 0

\* A transfer moves its amount, in one go for two accounts and not at all for one.
LEMMA MovedIsBooked ==
  ASSUME NEW held, held \in [Accounts -> Int], NEW t, t \in Transfer
  PROVE  /\ Moved(held, t) \in [Accounts -> Int]
         /\ Moved(held, t) =
              [a \in Accounts |-> held[a]
                 + (IF a = t.to THEN t.amount ELSE 0) - (IF a = t.from THEN t.amount ELSE 0)]
<1> DEFINE debited == [held EXCEPT ![t.from] = @ - t.amount]
<1>1. t.from \in Accounts /\ t.to \in Accounts /\ t.amount \in Int
  BY DEF Transfer
<1>2. debited \in [Accounts -> Int]
  BY <1>1
<1>3. \A a \in Accounts : debited[a] = held[a] - (IF a = t.from THEN t.amount ELSE 0)
  BY <1>1
<1>4. Moved(held, t) = [debited EXCEPT ![t.to] = @ + t.amount]
  BY DEF Moved
<1>5. Moved(held, t) \in [Accounts -> Int]
  BY <1>1, <1>2, <1>4
<1>6. ASSUME NEW a \in Accounts
      PROVE  Moved(held, t)[a] = held[a]
               + (IF a = t.to THEN t.amount ELSE 0) - (IF a = t.from THEN t.amount ELSE 0)
  BY <1>1, <1>2, <1>3, <1>4
<1> QED
  BY <1>5, <1>6

\* A new ledger in memory.
LEMMA MemInitInv == ASSUME MemInit PROVE MemInv
<1>1. \A a \in Agents : a \in Accounts
  BY DEF Accounts
<1> QED
  BY <1>1 DEF MemInit, MemInv, NothingHeld, Accounts

\* Every call of the ledger in memory keeps MemInv.
LEMMA MemNextInv == ASSUME MemInv, [MemNext]_memVars PROVE MemInv'
<1>1. CASE UNCHANGED memVars
  BY <1>1 DEF MemInv, memVars
<1>2. ASSUME NEW agent \in Agents, CreateAccount(agent) PROVE MemInv'
  BY <1>2 DEF CreateAccount, MemInv, Accounts
<1>3. ASSUME NEW t \in Asked, MakeTransfer(t) PROVE MemInv'
  <2>1. /\ t \in Transfer /\ t.amount \in Nat
        /\ t.from \in Accounts /\ t.to \in Accounts
    BY AskedAssumption DEF Transfer
  <2>2. memBalance' \in [Accounts -> Int]
    BY <1>3, <2>1, MovedIsBooked DEF MakeTransfer, MemInv
  <2>3. ASSUME NEW a \in Agents PROVE memBalance'[a] >= 0
    <3>1. a \in Accounts /\ a # House
      BY HouseAssumption DEF Accounts
    <3>2. memBalance'[a] = memBalance[a]
            + (IF a = t.to THEN t.amount ELSE 0) - (IF a = t.from THEN t.amount ELSE 0)
      BY <1>3, <2>1, <3>1, MovedIsBooked DEF MakeTransfer, MemInv
    <3>3. a = t.from => memBalance[a] >= t.amount
      BY <1>3, <3>1 DEF MakeTransfer, Covered
    <3>4. memBalance[a] \in Int /\ memBalance[a] >= 0
      BY <3>1 DEF MemInv
    <3> QED
      BY <2>1, <3>2, <3>3, <3>4
  <2> QED
    BY <1>3, <2>1, <2>2, <2>3 DEF MakeTransfer, MemInv
<1> QED
  BY <1>1, <1>2, <1>3 DEF MemNext

\* Whatever is asked for, nobody but the house is ever overdrawn (memory-ledger.ts,
\* transfer).
THEOREM MemInvHolds == MemSpec => []MemInv
BY MemInitInv, MemNextInv, PTL DEF MemSpec

\* Every step of the ledger in memory books one transfer as the promise has it, or
\* none (memory-ledger.ts against types.ts): at most one for a reference, covered,
\* and moving its amount from one account to the other, which may be the same.
THEOREM LedgerPromiseKept == MemSpec => KeepsLedgerPromise
<1>1. MemInit => Promise!LedgerInit
  BY DEF MemInit, Promise!LedgerInit, NothingHeld, Promise!NothingHeld, Accounts,
         Promise!Accounts
<1>2. ASSUME MemInv, [MemNext]_memVars
      PROVE  [Promise!LedgerNext]_<<txByRef, memBalance>>
  <2>1. CASE UNCHANGED memVars
    BY <2>1 DEF memVars
  <2>2. ASSUME NEW agent \in Agents, CreateAccount(agent)
        PROVE  UNCHANGED <<txByRef, memBalance>>
    BY <2>2 DEF CreateAccount
  <2>3. ASSUME NEW t \in Asked, MakeTransfer(t) PROVE Promise!LedgerNext
    <3>1. t \in Transfer
      BY AskedAssumption
    <3>2. memBalance' = [a \in Accounts |-> memBalance[a]
            + (IF a = t.to THEN t.amount ELSE 0) - (IF a = t.from THEN t.amount ELSE 0)]
      BY <1>2, <2>3, <3>1, MovedIsBooked DEF MakeTransfer, MemInv
    <3>3. Promise!Book(t)
      BY <2>3, <3>2 DEF MakeTransfer, Known, Covered, Promise!Book, Accounts,
                        Promise!Accounts
    <3>4. t \in txByRef' \ txByRef
      BY <2>3 DEF MakeTransfer, Known
    <3> QED
      BY <3>3, <3>4 DEF Promise!LedgerNext
  <2> QED
    BY <1>2, <2>1, <2>2, <2>3 DEF MemNext
<1> QED
  BY <1>1, <1>2, MemInvHolds, PTL DEF MemSpec, KeepsLedgerPromise, Promise!LedgerSpec

-----------------------------------------------------------------------------
(***************************************************************************)
(* PostgreSQL.                                                              *)
(***************************************************************************)
Stages == {"idle", "fresh", "from", "covered", "inserted", "debited", "credited", "done"}

\* What the rows may hold, and which stage holds which row lock.
PgTypes ==
  /\ pgBalance \in [Accounts -> Int]
  /\ pgTx \subseteq Calls
  /\ stage \in [Calls -> Stages]
  /\ seenFrom \in [Calls -> Int]
  /\ seenTo \in [Calls -> Int]

\* The unique index: a reference belongs to one transaction at a time, and once that
\* is committed to no other.
RefsAreUnique ==
  /\ RefBookedOnce
  /\ \A c, d \in Calls :
       stage[c] \in Inserted /\ stage[d] \in Inserted /\ Asks[c].ref = Asks[d].ref => c = d
  /\ \A c \in Calls : stage[c] \in Inserted => ~RefIsTaken(Asks[c].ref)

\* What a call has read of an agent was never less than nothing, and from the test on
\* it covers the amount.  What the balance has become since does not matter, as the
\* call writes what it has computed from the one it read.
ReadsCover ==
  \A c \in Calls :
    /\ Asks[c].from \in Agents => seenFrom[c] >= 0
    /\ Asks[c].to \in Agents => seenTo[c] >= 0
    /\ stage[c] \in Inserted \cup {"covered"} => PgCovered(c)

\* The inductive invariant of the rows.
PgInv == PgTypes /\ RefsAreUnique /\ NobodyOverdrawn /\ ReadsCover

\* What a call asks for is a transfer between two accounts.
LEMMA AsksAreTransfers ==
  ASSUME NEW c \in Calls
  PROVE  /\ Asks[c].from \in Accounts /\ Asks[c].to \in Accounts
         /\ Asks[c].amount \in Nat
BY CallsAssumption DEF Transfer

\* The database before the first call.
LEMMA PgInitInv == ASSUME PgInit PROVE PgInv
<1>1. \A a \in Agents : a \in Accounts
  BY DEF Accounts
<1>2. PgTypes
  BY DEF PgInit, PgTypes, NothingHeld, Stages
<1>3. RefsAreUnique
  BY DEF PgInit, RefsAreUnique, RefBookedOnce, RefIsTaken, Inserted
<1>4. NobodyOverdrawn /\ ReadsCover
  BY <1>1 DEF PgInit, NobodyOverdrawn, ReadsCover, NothingHeld, Inserted
<1> QED
  BY <1>2, <1>3, <1>4 DEF PgInv

\* A step that leaves the books alone, and of a call only how far it has come, keeps
\* the invariant unless the call comes to have tested or inserted something.
LEMMA OnlyTheStageMoves ==
  ASSUME PgInv, NEW c \in Calls, NEW to \in Stages, Reach(c, to),
         UNCHANGED <<pgBalance, pgTx, seenFrom, seenTo>>,
         to \in Inserted \cup {"covered"} => PgCovered(c),
         to \in Inserted =>
           /\ ~RefIsTaken(Asks[c].ref)
           /\ stage[c] \in Inserted \/ ~RefIsPending(Asks[c].ref)
  PROVE  PgInv'
<1>1. /\ stage' \in [Calls -> Stages] /\ stage'[c] = to
      /\ \A d \in Calls \ {c} : stage'[d] = stage[d]
  BY DEF PgInv, PgTypes, Reach
<1>2. PgTypes'
  BY <1>1 DEF PgInv, PgTypes
<1>3. \A d \in Calls : PgCovered(d)' <=> PgCovered(d)
  BY DEF PgCovered
<1>4. ReadsCover'
  BY <1>1, <1>3 DEF PgInv, ReadsCover
<1>5. \A ref : RefIsTaken(ref)' <=> RefIsTaken(ref)
  BY DEF RefIsTaken
<1>6. RefsAreUnique'
  <2>1. RefBookedOnce'
    BY DEF PgInv, RefsAreUnique, RefBookedOnce
  <2>2. ASSUME NEW d \in Calls, stage'[d] \in Inserted
        PROVE  ~RefIsTaken(Asks[d].ref)
    BY <1>1, <2>2 DEF PgInv, RefsAreUnique
  <2>3. ASSUME NEW d \in Calls, NEW e \in Calls, Asks[d].ref = Asks[e].ref,
               stage'[d] \in Inserted, stage'[e] \in Inserted
        PROVE  d = e
    <3>1. CASE d # c /\ e # c
      BY <1>1, <2>3, <3>1 DEF PgInv, RefsAreUnique
    <3>2. CASE stage[c] \in Inserted
      BY <1>1, <2>3, <3>2 DEF PgInv, RefsAreUnique
    <3>3. CASE (d = c \/ e = c) /\ stage[c] \notin Inserted
      BY <1>1, <2>3, <3>3 DEF RefIsPending
    <3> QED
      BY <3>1, <3>2, <3>3
  <2> QED
    BY <1>5, <2>1, <2>2, <2>3 DEF RefsAreUnique
<1>7. NobodyOverdrawn'
  BY DEF PgInv, NobodyOverdrawn
<1> QED
  BY <1>2, <1>4, <1>6, <1>7 DEF PgInv

\* The read of a balance: what is read is a balance of the committed state.
LEMMA ReadFromInv == ASSUME PgInv, NEW c \in Calls, ReadFrom(c) PROVE PgInv'
<1> DEFINE t == Asks[c]
<1>1. t.from \in Accounts /\ pgBalance[t.from] \in Int
  BY AsksAreTransfers DEF PgInv, PgTypes
<1>2. /\ stage' \in [Calls -> Stages] /\ stage'[c] \in {"from", "idle"}
      /\ \A d \in Calls \ {c} : stage'[d] = stage[d]
  BY DEF ReadFrom, Reach, PgInv, PgTypes, Stages
<1>3. /\ seenFrom' \in [Calls -> Int] /\ seenFrom'[c] = pgBalance[t.from]
      /\ \A d \in Calls \ {c} : seenFrom'[d] = seenFrom[d]
  BY <1>1 DEF ReadFrom, PgInv, PgTypes
<1>4. UNCHANGED <<pgBalance, pgTx, seenTo>>
  BY DEF ReadFrom
<1>5. PgTypes'
  BY <1>2, <1>3, <1>4 DEF PgInv, PgTypes
<1>6. ReadsCover'
  BY <1>2, <1>3, <1>4 DEF PgInv, ReadsCover, NobodyOverdrawn, PgCovered, Inserted
<1>7. RefsAreUnique' /\ NobodyOverdrawn'
  BY <1>2, <1>4 DEF PgInv, RefsAreUnique, RefBookedOnce, RefIsTaken, NobodyOverdrawn, Inserted
<1> QED
  BY <1>5, <1>6, <1>7 DEF PgInv

\* Reading the payee's balance, and the test of the payer's, keep PgInv.
LEMMA ReadToInv == ASSUME PgInv, NEW c \in Calls, ReadTo(c) PROVE PgInv'
<1> DEFINE t == Asks[c]
<1>1. t.to \in Accounts /\ pgBalance[t.to] \in Int
  BY AsksAreTransfers DEF PgInv, PgTypes
<1>2. /\ stage' \in [Calls -> Stages] /\ stage'[c] \in {"covered", "idle"}
      /\ stage'[c] = "covered" => PgCovered(c)
      /\ \A d \in Calls \ {c} : stage'[d] = stage[d]
  BY DEF ReadTo, Reach, PgInv, PgTypes, Stages
<1>3. /\ seenTo' \in [Calls -> Int] /\ seenTo'[c] = pgBalance[t.to]
      /\ \A d \in Calls \ {c} : seenTo'[d] = seenTo[d]
  BY <1>1 DEF ReadTo, PgInv, PgTypes
<1>4. UNCHANGED <<pgBalance, pgTx, seenFrom>>
  BY DEF ReadTo
<1>5. PgTypes'
  BY <1>2, <1>3, <1>4 DEF PgInv, PgTypes
<1>6. ReadsCover'
  BY <1>2, <1>3, <1>4 DEF PgInv, ReadsCover, NobodyOverdrawn, PgCovered, Inserted
<1>7. RefsAreUnique' /\ NobodyOverdrawn'
  BY <1>2, <1>4 DEF PgInv, RefsAreUnique, RefBookedOnce, RefIsTaken, NobodyOverdrawn, Inserted
<1> QED
  BY <1>5, <1>6, <1>7 DEF PgInv

\* A commit writes balances that were computed earlier, and still keeps PgInv.
LEMMA CommitInv == ASSUME PgInv, NEW c \in Calls, Commit(c) PROVE PgInv'
<1> DEFINE t == Asks[c]
<1>1. /\ t.from \in Accounts /\ t.to \in Accounts /\ t.amount \in Nat
      /\ seenFrom[c] \in Int /\ seenTo[c] \in Int
  BY AsksAreTransfers DEF PgInv, PgTypes
<1>2. /\ stage[c] \in Inserted
      /\ stage' \in [Calls -> Stages] /\ stage'[c] = "done"
      /\ \A d \in Calls \ {c} : stage'[d] = stage[d]
  BY DEF Commit, Reach, PgInv, PgTypes, Stages, Inserted
<1>3. pgTx' = pgTx \cup {c} /\ UNCHANGED <<seenFrom, seenTo>>
  BY DEF Commit
<1>4. pgBalance' \in [Accounts -> Int]
  BY <1>1 DEF Commit, Written, PgInv, PgTypes
<1>5. PgTypes'
  BY <1>2, <1>3, <1>4 DEF PgInv, PgTypes
<1>6. RefsAreUnique'
  BY <1>2, <1>3 DEF PgInv, RefsAreUnique, RefBookedOnce, RefIsTaken, Inserted
<1>7. ReadsCover'
  BY <1>2, <1>3 DEF PgInv, ReadsCover, PgCovered, Inserted
<1>8. ASSUME NEW a \in Agents PROVE pgBalance'[a] >= 0
  <2>1. a \in Accounts /\ a # House
    BY HouseAssumption DEF Accounts
  <2>2. pgBalance'[a] = IF a = t.to THEN seenTo[c] + t.amount
                        ELSE IF a = t.from THEN seenFrom[c] - t.amount ELSE pgBalance[a]
    BY <1>1, <2>1 DEF Commit, Written, PgInv, PgTypes
  <2>3. CASE a = t.to
    BY <1>1, <2>2, <2>3 DEF PgInv, ReadsCover
  <2>4. CASE a # t.to /\ a = t.from
    BY <1>1, <1>2, <2>1, <2>2, <2>4 DEF PgInv, ReadsCover, PgCovered
  <2>5. CASE a # t.to /\ a # t.from
    BY <2>2, <2>5 DEF PgInv, NobodyOverdrawn
  <2> QED
    BY <2>3, <2>4, <2>5
<1> QED
  BY <1>5, <1>6, <1>7, <1>8 DEF PgInv, NobodyOverdrawn

\* Every statement of every transaction keeps PgInv.
LEMMA PgNextInv == ASSUME PgInv, [PgNext]_pgVars PROVE PgInv'
<1>1. CASE UNCHANGED pgVars
  BY <1>1 DEF pgVars, PgInv, PgTypes, RefsAreUnique, RefBookedOnce, RefIsTaken,
              NobodyOverdrawn, ReadsCover, PgCovered
<1>2. ASSUME NEW account \in Accounts, PgCreateAccount(account) PROVE PgInv'
  BY <1>2 DEF PgCreateAccount, PgInv, PgTypes, RefsAreUnique, RefBookedOnce, RefIsTaken,
              NobodyOverdrawn, ReadsCover, PgCovered
<1>3. ASSUME NEW c \in Calls, BeginTransfer(c) PROVE PgInv'
  <2>1. PICK to \in {"done", "fresh"} : Reach(c, to)
    BY <1>3 DEF BeginTransfer
  <2> QED
    BY <1>3, <2>1, OnlyTheStageMoves DEF BeginTransfer, Stages, Inserted
<1>4. ASSUME NEW c \in Calls, InsertTx(c) PROVE PgInv'
  <2>1. PgCovered(c)
    BY <1>4 DEF InsertTx, PgInv, ReadsCover
  <2>2. CASE RefIsTaken(Asks[c].ref)
    BY <1>4, <2>2, OnlyTheStageMoves DEF InsertTx, Stages, Inserted
  <2>3. CASE ~RefIsTaken(Asks[c].ref)
    BY <1>4, <2>1, <2>3, OnlyTheStageMoves DEF InsertTx, Stages, Inserted
  <2> QED
    BY <2>2, <2>3
<1>5. ASSUME NEW c \in Calls, UpdateFrom(c) PROVE PgInv'
  <2>1. PgCovered(c) /\ ~RefIsTaken(Asks[c].ref) /\ stage[c] \in Inserted
    BY <1>5 DEF UpdateFrom, PgInv, ReadsCover, RefsAreUnique, Inserted
  <2> QED
    BY <1>5, <2>1, OnlyTheStageMoves DEF UpdateFrom, Stages
<1>6. ASSUME NEW c \in Calls, UpdateTo(c) PROVE PgInv'
  <2>1. PgCovered(c) /\ ~RefIsTaken(Asks[c].ref) /\ stage[c] \in Inserted
    BY <1>6 DEF UpdateTo, PgInv, ReadsCover, RefsAreUnique, Inserted
  <2> QED
    BY <1>6, <2>1, OnlyTheStageMoves DEF UpdateTo, Stages
<1>7. ASSUME NEW c \in Calls, RollBack(c) PROVE PgInv'
  BY <1>7, OnlyTheStageMoves DEF RollBack, Stages, Inserted
<1> QED
  BY <1>1, <1>2, <1>3, <1>4, <1>5, <1>6, <1>7, ReadFromInv, ReadToInv, CommitInv DEF PgNext

\* However transactions overlap, references stay unique, nobody is overdrawn, and
\* what a call has read covers what it will write (postgres-ledger.ts, transfer).
THEOREM PgInvHolds == PgSpec => []PgInv
BY PgInitInv, PgNextInv, PTL DEF PgSpec

\* A reference is booked once, however many calls name it at the same time
\* (postgres-ledger.ts, transfer): that takes the index, the look-up is not enough.
THEOREM EachRefBookedOnce == PgSpec => []RefBookedOnce
<1>1. PgInv => RefBookedOnce
  BY DEF PgInv, RefsAreUnique
<1> QED
  BY <1>1, PgInvHolds, PTL

\* However transfers overlap, no agent is overdrawn (postgres-ledger.ts, transfer).
THEOREM NobodyIsOverdrawn == PgSpec => []NobodyOverdrawn
<1>1. PgInv => NobodyOverdrawn
  BY DEF PgInv
<1> QED
  BY <1>1, PgInvHolds, PTL

-----------------------------------------------------------------------------
(***************************************************************************)
(* The book.  A balance that a call has read stays what the book says of    *)
(* the account until another transfer on the account commits, which then is *)
(* an overlap when the call commits as well.                                *)
(***************************************************************************)
Amounts == [c \in Calls |-> Asks[c].amount]

\* AmountOf is the sum of the amounts.
LEMMA AmountIsSum ==
  ASSUME NEW T \in SUBSET Calls, IsFiniteSet(T)
  PROVE  AmountOf(T) = SumOf(Amounts, T)
<1> DEFINE E(h) == h = [s \in SUBSET T |->
                          IF s = {} THEN 0
                          ELSE Asks[CHOOSE x \in s : TRUE].amount
                                 + h[s \ {CHOOSE x \in s : TRUE}]]
           k == CHOOSE h : E(h)
           g == CHOOSE h : SumEquation(h, T, Amounts)
<1>1. AmountOf(T) = k[T]
  BY DEF AmountOf, MapThenSumSet, MapThenFoldSet
<1>2. SumOf(Amounts, T) = g[T]
  BY DEF SumOf, MapThenSumSet, MapThenFoldSet, SumEquation
<1>3. \A s \in SUBSET T : s # {} =>
        Amounts[CHOOSE x \in s : TRUE] = Asks[CHOOSE x \in s : TRUE].amount
  BY DEF Amounts
<1>4. \A h : E(h) <=> SumEquation(h, T, Amounts)
  BY <1>3 DEF SumEquation
<1>5. \A x \in T : Amounts[x] \in Int  BY CallsAssumption DEF Amounts, Transfer
<1> HIDE DEF E
<1>6. \E h : E(h)  BY <1>4, <1>5, SumFold
<1>7. SumEquation(k, T, Amounts)  BY <1>4, <1>6
<1>8. SumEquation(g, T, Amounts)  BY <1>5, SumFold
<1> HIDE DEF k, g
<1>9. k = g  BY <1>5, <1>7, <1>8, SumFold
<1> QED  BY <1>1, <1>2, <1>9

\* One more transfer adds its amount.
LEMMA AmountAdds ==
  ASSUME NEW T \in SUBSET Calls, IsFiniteSet(T), NEW c \in Calls, c \notin T
  PROVE  /\ AmountOf(T) \in Int
         /\ AmountOf(T \cup {c}) = AmountOf(T) + Asks[c].amount
<1> DEFINE S == T \cup {c}
<1>1. IsFiniteSet(S) /\ S \in SUBSET Calls  BY FS_AddElement
<1>2. \A x \in S : Amounts[x] \in Int
  BY <1>1, CallsAssumption DEF Amounts, Transfer
<1>3. T \in SUBSET S /\ c \in S \ T  OBVIOUS
<1>4. AmountOf(S) = SumOf(Amounts, S) /\ AmountOf(T) = SumOf(Amounts, T)
  BY <1>1, AmountIsSum
<1>5. SumOf(Amounts, T) \in Int /\ SumOf(Amounts, T \cup {c}) = SumOf(Amounts, T) + Amounts[c]
  <2> HIDE DEF S
  <2> QED  BY <1>1, <1>2, <1>3, SumFacts
<1>6. Amounts[c] = Asks[c].amount  BY DEF Amounts
<1> QED  BY <1>4, <1>5, <1>6

-----------------------------------------------------------------------------
\* The accounts that LostOnlyByOverlap says nothing of.
Spoilt(a) == a \in overlapped \/ \E c \in pgTx : Touched(Asks[c]) = {a}

\* Nobody has committed a transfer on an account since a call began to read.
Undisturbed(c, a) == \A d \in pgTx \ seenTx[c] : a \notin Touched(Asks[d])

\* The stages after the first read, and after both.
HasReadFrom == Inserted \cup {"from", "covered"}
HasReadBoth == Inserted \cup {"covered"}

\* A call has seen transfers that were committed.
BookTypes ==
  /\ pgTx \subseteq Calls /\ IsFiniteSet(pgTx) /\ seenTx \in [Calls -> SUBSET Calls]
  /\ \A c \in pgTx : stage[c] = "done"
  /\ \A c \in Calls : stage[c] \in HasReadFrom => seenTx[c] \subseteq pgTx

\* The balances say what the committed transfers add up to.
BalancesAreBooked == \A a \in Accounts : Spoilt(a) \/ pgBalance[a] = BookSays(a)

\* So does what a call has read, as long as nobody commits on the account.
ReadsAreBooked ==
  \A c \in Calls : \A a \in Accounts :
    Undisturbed(c, a) /\ ~Spoilt(a) =>
      /\ stage[c] \in HasReadFrom /\ a = Asks[c].from => seenFrom[c] = BookSays(a)
      /\ stage[c] \in HasReadBoth /\ a = Asks[c].to => seenTo[c] = BookSays(a)

\* The inductive invariant of the books, next to PgInv.
BookInv == BookTypes /\ BalancesAreBooked /\ ReadsAreBooked

\* Before the first transfer nothing is booked.
LEMMA BookInit == ASSUME PgInit PROVE BookInv
<1>1. pgTx = {} /\ IsFiniteSet({})  BY FS_EmptySet DEF PgInit
<1>2. BookTypes  BY <1>1 DEF PgInit, BookTypes, HasReadFrom, Inserted
<1>3. AmountOf({}) = 0
  <2>1. AmountOf({}) = SumOf(Amounts, {})  BY <1>1, AmountIsSum
  <2>2. SumOf(Amounts, {}) = 0  BY <1>1, SumFacts
  <2> QED  BY <2>1, <2>2
<1>4. \A a \in Accounts : BookSays(a) = 0
  <2> TAKE a \in Accounts
  <2>1. {c \in pgTx : Asks[c].to = a} = {} /\ {c \in pgTx : Asks[c].from = a} = {}
    BY <1>1
  <2> QED  BY <1>3, <2>1 DEF BookSays
<1>5. BalancesAreBooked  BY <1>4 DEF PgInit, BalancesAreBooked, NothingHeld
<1>6. ReadsAreBooked
  BY DEF PgInit, ReadsAreBooked, HasReadFrom, HasReadBoth, Inserted
<1> QED  BY <1>2, <1>5, <1>6 DEF BookInv

\* A statement that reads and writes no balance moves one call on.
LEMMA QuietStep ==
  ASSUME PgInv, BookInv, NEW c \in Calls, NEW to, Reach(c, to), stage[c] # "done",
         UNCHANGED <<pgBalance, pgTx, seenFrom, seenTo, seenTx, overlapped>>,
         to \in HasReadFrom => stage[c] \in HasReadFrom,
         to \in HasReadBoth => stage[c] \in HasReadBoth
  PROVE  BookInv'
<1>1. /\ stage'[c] = to /\ \A d \in Calls \ {c} : stage'[d] = stage[d]
  BY DEF PgInv, PgTypes, Reach
<1>2. \A a : BookSays(a)' = BookSays(a) /\ Spoilt(a)' = Spoilt(a)
  BY DEF BookSays, Spoilt
<1>3. \A d, a : Undisturbed(d, a)' <=> Undisturbed(d, a)  BY DEF Undisturbed
<1>4. \A d \in Calls : /\ stage'[d] \in HasReadFrom => stage[d] \in HasReadFrom
                       /\ stage'[d] \in HasReadBoth => stage[d] \in HasReadBoth
  BY <1>1
<1>5. BookTypes'
  <2>1. \A d \in pgTx : stage'[d] = "done"  BY <1>1 DEF BookInv, BookTypes
  <2> QED  BY <1>4, <2>1 DEF BookInv, BookTypes
<1>6. BalancesAreBooked'  BY <1>2 DEF BookInv, BalancesAreBooked
<1>7. ReadsAreBooked'
  <2> SUFFICES ASSUME NEW d \in Calls, NEW a \in Accounts,
                      Undisturbed(d, a), ~Spoilt(a)
               PROVE  /\ stage'[d] \in HasReadFrom /\ a = Asks[d].from =>
                           seenFrom[d] = BookSays(a)
                      /\ stage'[d] \in HasReadBoth /\ a = Asks[d].to =>
                           seenTo[d] = BookSays(a)
    BY <1>2, <1>3 DEF ReadsAreBooked
  <2> QED  BY <1>4 DEF BookInv, ReadsAreBooked
<1> QED  BY <1>5, <1>6, <1>7 DEF BookInv

\* A call that reads its first balance reads what is booked.
LEMMA ReadFromBook == ASSUME PgInv, BookInv, NEW c \in Calls, ReadFrom(c) PROVE BookInv'
<1>1. /\ stage'[c] \in {"from", "idle"} /\ \A d \in Calls \ {c} : stage'[d] = stage[d]
      /\ seenFrom'[c] = pgBalance[Asks[c].from]
      /\ \A d \in Calls \ {c} : seenFrom'[d] = seenFrom[d]
      /\ seenTx'[c] = pgTx /\ \A d \in Calls \ {c} : seenTx'[d] = seenTx[d]
      /\ UNCHANGED <<pgBalance, pgTx, seenTo, overlapped>> /\ stage[c] = "fresh"
  <2>1. stage \in [Calls -> Stages] /\ seenFrom \in [Calls -> Int]
    BY DEF PgInv, PgTypes
  <2>2. seenTx' = [seenTx EXCEPT ![c] = pgTx]  BY DEF ReadFrom
  <2> QED  BY <2>1, <2>2 DEF ReadFrom, Reach, BookInv, BookTypes
<1>2. \A a : BookSays(a)' = BookSays(a) /\ Spoilt(a)' = Spoilt(a)
  BY <1>1 DEF BookSays, Spoilt
<1>3. \A d \in Calls \ {c} : \A a : Undisturbed(d, a)' <=> Undisturbed(d, a)
  BY <1>1 DEF Undisturbed
<1>4. "from" \notin HasReadBoth /\ "idle" \notin HasReadBoth /\ "idle" \notin HasReadFrom
  BY DEF HasReadBoth, HasReadFrom, Inserted
<1>5. BookTypes'
  <2>1. \A d \in pgTx : d # c /\ d \in Calls  BY <1>1 DEF BookInv, BookTypes
  <2>2. seenTx' \in [Calls -> SUBSET Calls]
    <3>1. pgTx \in SUBSET Calls /\ seenTx \in [Calls -> SUBSET Calls]
      BY <2>1 DEF BookInv, BookTypes
    <3>2. seenTx' = [seenTx EXCEPT ![c] = pgTx]  BY DEF ReadFrom
    <3> QED  BY <3>1, <3>2
  <2> QED  BY <1>1, <2>1, <2>2 DEF BookInv, BookTypes
<1>6. BalancesAreBooked'  BY <1>1, <1>2 DEF BookInv, BalancesAreBooked
<1>7. ReadsAreBooked'
  <2> SUFFICES ASSUME NEW d \in Calls, NEW a \in Accounts,
                      Undisturbed(d, a)', ~Spoilt(a)
               PROVE  /\ stage'[d] \in HasReadFrom /\ a = Asks[d].from =>
                           seenFrom'[d] = BookSays(a)
                      /\ stage'[d] \in HasReadBoth /\ a = Asks[d].to =>
                           seenTo'[d] = BookSays(a)
    BY <1>2 DEF ReadsAreBooked
  <2>1. CASE d = c  BY <2>1, <1>1, <1>4 DEF BookInv, BalancesAreBooked
  <2>2. CASE d # c  BY <2>2, <1>1, <1>3 DEF BookInv, ReadsAreBooked
  <2> QED  BY <2>1, <2>2
<1> QED  BY <1>5, <1>6, <1>7 DEF BookInv

\* A call that reads its second balance reads what is booked.
LEMMA ReadToBook == ASSUME PgInv, BookInv, NEW c \in Calls, ReadTo(c) PROVE BookInv'
<1>1. /\ stage'[c] \in {"covered", "idle"} /\ \A d \in Calls \ {c} : stage'[d] = stage[d]
      /\ seenTo'[c] = pgBalance[Asks[c].to]
      /\ \A d \in Calls \ {c} : seenTo'[d] = seenTo[d]
      /\ UNCHANGED <<pgBalance, pgTx, seenFrom, seenTx, overlapped>> /\ stage[c] = "from"
  <2>1. stage \in [Calls -> Stages] /\ seenTo \in [Calls -> Int]
    BY DEF PgInv, PgTypes
  <2> QED  BY <2>1 DEF ReadTo, Reach
<1>2. \A a : BookSays(a)' = BookSays(a) /\ Spoilt(a)' = Spoilt(a)
  BY <1>1 DEF BookSays, Spoilt
<1>3. \A d, a : Undisturbed(d, a)' <=> Undisturbed(d, a)
  BY <1>1 DEF Undisturbed
<1>4. /\ "from" \in HasReadFrom /\ "covered" \in HasReadFrom
      /\ "idle" \notin HasReadBoth /\ "idle" \notin HasReadFrom
  BY DEF HasReadBoth, HasReadFrom, Inserted
<1>5. BookTypes'
  <2>1. \A d \in pgTx : d # c /\ d \in Calls  BY <1>1 DEF BookInv, BookTypes
  <2> QED  BY <1>1, <1>4, <2>1 DEF BookInv, BookTypes
<1>6. BalancesAreBooked'  BY <1>1, <1>2 DEF BookInv, BalancesAreBooked
<1>7. ReadsAreBooked'
  <2> SUFFICES ASSUME NEW d \in Calls, NEW a \in Accounts,
                      Undisturbed(d, a), ~Spoilt(a)
               PROVE  /\ stage'[d] \in HasReadFrom /\ a = Asks[d].from =>
                           seenFrom'[d] = BookSays(a)
                      /\ stage'[d] \in HasReadBoth /\ a = Asks[d].to =>
                           seenTo'[d] = BookSays(a)
    BY <1>2, <1>3 DEF ReadsAreBooked
  <2>1. CASE d = c
    BY <2>1, <1>1, <1>4 DEF BookInv, BalancesAreBooked, ReadsAreBooked
  <2>2. CASE d # c  BY <2>2, <1>1 DEF BookInv, ReadsAreBooked
  <2> QED  BY <2>1, <2>2
<1> QED  BY <1>5, <1>6, <1>7 DEF BookInv

\* What a commit adds to the book.
LEMMA CommitBooks ==
  ASSUME PgInv, BookInv, NEW c \in Calls, pgTx' = pgTx \cup {c}, c \notin pgTx,
         NEW a \in Accounts
  PROVE  BookSays(a)' = BookSays(a) + (IF a = Asks[c].to THEN Asks[c].amount ELSE 0)
                                    - (IF a = Asks[c].from THEN Asks[c].amount ELSE 0)
<1> DEFINE In  == {d \in pgTx : Asks[d].to = a}
           Out == {d \in pgTx : Asks[d].from = a}
<1>1. IsFiniteSet(pgTx) /\ pgTx \subseteq Calls  BY DEF BookInv, BookTypes
<1>2. /\ In \in SUBSET Calls /\ IsFiniteSet(In) /\ c \notin In
      /\ Out \in SUBSET Calls /\ IsFiniteSet(Out) /\ c \notin Out
  BY <1>1, FS_Subset
<1> DEFINE In2  == {d \in pgTx \cup {c} : Asks[d].to = a}
           Out2 == {d \in pgTx \cup {c} : Asks[d].from = a}
<1>3. /\ a = Asks[c].to => In2 = In \cup {c}
      /\ a # Asks[c].to => In2 = In
      /\ a = Asks[c].from => Out2 = Out \cup {c}
      /\ a # Asks[c].from => Out2 = Out
  OBVIOUS
<1>4. BookSays(a) = AmountOf(In) - AmountOf(Out)  BY DEF BookSays
<1>5. BookSays(a)' = AmountOf(In2) - AmountOf(Out2)  BY DEF BookSays
<1> HIDE DEF In, Out, In2, Out2
<1>6. /\ AmountOf(In) \in Int /\ AmountOf(In \cup {c}) = AmountOf(In) + Asks[c].amount
      /\ AmountOf(Out) \in Int /\ AmountOf(Out \cup {c}) = AmountOf(Out) + Asks[c].amount
  BY <1>2, AmountAdds
<1>7. Asks[c].amount \in Int  BY AsksAreTransfers
<1>8. AmountOf(In2) = AmountOf(In) + (IF a = Asks[c].to THEN Asks[c].amount ELSE 0)
  <2>1. CASE a = Asks[c].to
    <3>1. In2 = In \cup {c}  BY <1>3, <2>1
    <3>2. AmountOf(In2) = AmountOf(In \cup {c})  BY <3>1
    <3> QED  BY <1>6, <2>1, <3>2
  <2>2. CASE a # Asks[c].to
    <3>1. In2 = In  BY <1>3, <2>2
    <3>2. AmountOf(In2) = AmountOf(In)  BY <3>1
    <3> QED  BY <1>6, <2>2, <3>2
  <2> QED  BY <2>1, <2>2
<1>9. AmountOf(Out2) = AmountOf(Out) + (IF a = Asks[c].from THEN Asks[c].amount ELSE 0)
  <2>1. CASE a = Asks[c].from
    <3>1. Out2 = Out \cup {c}  BY <1>3, <2>1
    <3>2. AmountOf(Out2) = AmountOf(Out \cup {c})  BY <3>1
    <3> QED  BY <1>6, <2>1, <3>2
  <2>2. CASE a # Asks[c].from
    <3>1. Out2 = Out  BY <1>3, <2>2
    <3>2. AmountOf(Out2) = AmountOf(Out)  BY <3>1
    <3> QED  BY <1>6, <2>2, <3>2
  <2> QED  BY <2>1, <2>2
<1> QED  BY <1>4, <1>5, <1>6, <1>7, <1>8, <1>9

\* A commit: what it writes is what the book says from then on, unless it overlapped.
LEMMA CommitBook == ASSUME PgInv, BookInv, NEW c \in Calls, Commit(c) PROVE BookInv'
<1>1. /\ stage[c] = "credited" /\ stage'[c] = "done"
      /\ \A d \in Calls \ {c} : stage'[d] = stage[d]
      /\ pgBalance' = Written(c) /\ pgTx' = pgTx \cup {c}
      /\ overlapped \subseteq overlapped'
      /\ UNCHANGED <<seenFrom, seenTo, seenTx>>
  BY DEF Commit, Reach, PgInv, PgTypes
<1>2. c \notin pgTx /\ stage[c] \in HasReadFrom /\ stage[c] \in HasReadBoth
  BY <1>1 DEF BookInv, BookTypes, HasReadFrom, HasReadBoth, Inserted
<1>3. \A a \in Accounts : a \notin Touched(Asks[c]) => BookSays(a)' = BookSays(a)
  <2> SUFFICES ASSUME NEW a \in Accounts, a \notin Touched(Asks[c])
               PROVE  BookSays(a)' = BookSays(a)
    OBVIOUS
  <2>1. a # Asks[c].to /\ a # Asks[c].from  BY DEF Touched
  <2>2. BookSays(a)' = BookSays(a) + 0 - 0  BY <1>1, <1>2, <2>1, CommitBooks
  <2>3. BookSays(a) \in Int
    <3>1. /\ {d \in pgTx : Asks[d].to = a} \in SUBSET Calls
          /\ {d \in pgTx : Asks[d].from = a} \in SUBSET Calls
          /\ IsFiniteSet({d \in pgTx : Asks[d].to = a})
          /\ IsFiniteSet({d \in pgTx : Asks[d].from = a})
          /\ c \notin {d \in pgTx : Asks[d].to = a}
          /\ c \notin {d \in pgTx : Asks[d].from = a}
      BY <1>2, FS_Subset DEF BookInv, BookTypes
    <3>2. AmountOf({d \in pgTx : Asks[d].to = a}) \in Int
          /\ AmountOf({d \in pgTx : Asks[d].from = a}) \in Int
      BY <3>1, AmountAdds
    <3> QED  BY <3>2 DEF BookSays
  <2> QED  BY <2>2, <2>3
<1>4. \A a : Spoilt(a) => Spoilt(a)'  BY <1>1 DEF Spoilt
<1>5. BookTypes'
  <2>1. pgTx' \subseteq Calls /\ IsFiniteSet(pgTx')
    BY <1>1, FS_AddElement DEF BookInv, BookTypes
  <2>2. \A d \in pgTx' : stage'[d] = "done"  BY <1>1 DEF BookInv, BookTypes
  <2>3. "done" \notin HasReadFrom  BY DEF HasReadFrom, Inserted
  <2> QED  BY <1>1, <2>1, <2>2, <2>3 DEF BookInv, BookTypes
<1>6. BalancesAreBooked'
  <2> SUFFICES ASSUME NEW a \in Accounts, ~Spoilt(a)' PROVE pgBalance'[a] = BookSays(a)'
    BY DEF BalancesAreBooked
  <2>0. ~Spoilt(a) /\ pgBalance \in [Accounts -> Int]
    BY <1>4 DEF PgInv, PgTypes
  <2>1. CASE a \notin Touched(Asks[c])
    <3>1. pgBalance'[a] = pgBalance[a]  BY <1>1, <2>0, <2>1 DEF Written, Touched
    <3> QED  BY <1>3, <2>0, <2>1, <3>1 DEF BookInv, BalancesAreBooked
  <2>2. CASE a \in Touched(Asks[c])
    <3>1. Undisturbed(c, a)
      BY <2>2 DEF Undisturbed, Spoilt, Commit
    <3>2. Asks[c].from # Asks[c].to
      <4>1. Touched(Asks[c]) # {a}  BY <1>1 DEF Spoilt
      <4> QED  BY <4>1, <2>2 DEF Touched
    <3>3. /\ a = Asks[c].from => seenFrom[c] = BookSays(a)
          /\ a = Asks[c].to => seenTo[c] = BookSays(a)
      BY <1>2, <2>0, <3>1 DEF BookInv, ReadsAreBooked
    <3>4. /\ seenFrom[c] \in Int /\ seenTo[c] \in Int /\ Asks[c].amount \in Int
          /\ Asks[c].from \in Accounts /\ Asks[c].to \in Accounts
      BY AsksAreTransfers DEF PgInv, PgTypes
    <3>5. BookSays(a)' = BookSays(a) + (IF a = Asks[c].to THEN Asks[c].amount ELSE 0)
                                     - (IF a = Asks[c].from THEN Asks[c].amount ELSE 0)
      BY <1>1, <1>2, CommitBooks
    <3>6. CASE a = Asks[c].from
      <4>1. pgBalance'[a] = seenFrom[c] - Asks[c].amount
        BY <1>1, <2>0, <3>2, <3>4, <3>6 DEF Written
      <4> QED  BY <4>1, <3>2, <3>3, <3>4, <3>5, <3>6
    <3>7. CASE a = Asks[c].to
      <4>1. pgBalance'[a] = seenTo[c] + Asks[c].amount
        BY <1>1, <2>0, <3>2, <3>4, <3>7 DEF Written
      <4> QED  BY <4>1, <3>2, <3>3, <3>4, <3>5, <3>7
    <3> QED  BY <2>2, <3>6, <3>7 DEF Touched
  <2> QED  BY <2>1, <2>2
<1>7. ReadsAreBooked'
  <2> SUFFICES ASSUME NEW d \in Calls, NEW a \in Accounts,
                      Undisturbed(d, a)', ~Spoilt(a)',
                      stage'[d] \in HasReadFrom \/ stage'[d] \in HasReadBoth
               PROVE  /\ stage'[d] \in HasReadFrom /\ a = Asks[d].from =>
                           seenFrom[d] = BookSays(a)'
                      /\ stage'[d] \in HasReadBoth /\ a = Asks[d].to =>
                           seenTo[d] = BookSays(a)'
    BY <1>1 DEF ReadsAreBooked
  <2>1. d # c /\ stage'[d] = stage[d] /\ stage[d] \in HasReadFrom
    BY <1>1 DEF HasReadFrom, HasReadBoth, Inserted
  <2>2. seenTx[d] \subseteq pgTx  BY <2>1 DEF BookInv, BookTypes
  <2>3. c \in pgTx' \ seenTx'[d]  BY <1>1, <1>2, <2>2
  <2>4. a \notin Touched(Asks[c]) /\ Undisturbed(d, a)
    BY <1>1, <2>3 DEF Undisturbed
  <2> QED  BY <1>3, <1>4, <2>1, <2>4 DEF BookInv, ReadsAreBooked
<1> QED  BY <1>5, <1>6, <1>7 DEF BookInv

\* Every step of a transfer keeps the books.
LEMMA BookNext == ASSUME PgInv, BookInv, [PgNext]_pgVars PROVE BookInv'
<1>1. ASSUME UNCHANGED <<pgBalance, pgTx, stage, seenFrom, seenTo, seenTx, overlapped>>
      PROVE  BookInv'
  <2>1. \A a : BookSays(a)' = BookSays(a) /\ Spoilt(a)' = Spoilt(a)
    BY <1>1 DEF BookSays, Spoilt
  <2>2. \A d, a : Undisturbed(d, a)' <=> Undisturbed(d, a)  BY <1>1 DEF Undisturbed
  <2>3. BookTypes'  BY <1>1 DEF BookInv, BookTypes
  <2>4. BalancesAreBooked'  BY <1>1, <2>1 DEF BookInv, BalancesAreBooked
  <2>5. ReadsAreBooked'  BY <1>1, <2>1, <2>2 DEF BookInv, ReadsAreBooked
  <2> QED  BY <2>3, <2>4, <2>5 DEF BookInv
<1>2. ASSUME NEW account \in Accounts, PgCreateAccount(account) PROVE BookInv'
  BY <1>1, <1>2 DEF PgCreateAccount
<1>3. ASSUME NEW c \in Calls, BeginTransfer(c) PROVE BookInv'
  <2> DEFINE to == IF RefIsTaken(Asks[c].ref) THEN "done" ELSE "fresh"
  <2>1. Reach(c, to) /\ stage[c] # "done" /\ to \notin HasReadFrom /\ to \notin HasReadBoth
    BY <1>3 DEF BeginTransfer, HasReadFrom, HasReadBoth, Inserted
  <2> HIDE DEF to
  <2> QED  BY <1>3, <2>1, QuietStep DEF BeginTransfer
<1>4. ASSUME NEW c \in Calls, InsertTx(c) PROVE BookInv'
  <2> DEFINE to == IF RefIsTaken(Asks[c].ref) THEN "idle" ELSE "inserted"
  <2>1. Reach(c, to) /\ stage[c] # "done"
        /\ stage[c] \in HasReadFrom /\ stage[c] \in HasReadBoth
    BY <1>4 DEF InsertTx, HasReadFrom, HasReadBoth, Inserted
  <2> HIDE DEF to
  <2> QED  BY <1>4, <2>1, QuietStep DEF InsertTx
<1>5. ASSUME NEW c \in Calls, UpdateFrom(c) PROVE BookInv'
  <2>1. stage[c] # "done" /\ stage[c] \in HasReadFrom /\ stage[c] \in HasReadBoth
    BY <1>5 DEF UpdateFrom, HasReadFrom, HasReadBoth, Inserted
  <2> QED  BY <1>5, <2>1, QuietStep DEF UpdateFrom
<1>6. ASSUME NEW c \in Calls, UpdateTo(c) PROVE BookInv'
  <2>1. stage[c] # "done" /\ stage[c] \in HasReadFrom /\ stage[c] \in HasReadBoth
    BY <1>6 DEF UpdateTo, HasReadFrom, HasReadBoth, Inserted
  <2> QED  BY <1>6, <2>1, QuietStep DEF UpdateTo
<1>7. ASSUME NEW c \in Calls, RollBack(c) PROVE BookInv'
  <2>1. stage[c] # "done" /\ "idle" \notin HasReadFrom /\ "idle" \notin HasReadBoth
    BY <1>7 DEF RollBack, HasReadFrom, HasReadBoth, Inserted
  <2> QED  BY <1>7, <2>1, QuietStep DEF RollBack
<1>8. CASE UNCHANGED pgVars  BY <1>1, <1>8 DEF pgVars
<1> QED
  BY <1>2, <1>3, <1>4, <1>5, <1>6, <1>7, <1>8, ReadFromBook, ReadToBook, CommitBook
     DEF PgNext

\* BookInv is an invariant of the ledger in PostgreSQL.
THEOREM BookInvHolds == PgSpec => []BookInv
<1>1. PgInit => BookInv  BY BookInit
<1>2. PgInv /\ BookInv /\ [PgNext]_pgVars => BookInv'  BY BookNext
<1> QED  BY <1>1, <1>2, PgInvHolds, PTL DEF PgSpec

\* A balance differs from the book only where transfers overlapped on the account or
\* it paid itself, for any number of calls of transfer.
THEOREM OnlyOverlapLoses == PgSpec => []LostOnlyByOverlap
<1>1. BookInv => LostOnlyByOverlap
  BY DEF BookInv, BalancesAreBooked, LostOnlyByOverlap, Spoilt
<1> QED  BY <1>1, BookInvHolds, PTL

-----------------------------------------------------------------------------
(***************************************************************************)
(* The promise of a ledger, for the one in PostgreSQL: what is committed    *)
(* keeps it as long as no two transfers overlap on an account and none is   *)
(* from an account to itself.                                               *)
(***************************************************************************)
PgBooked == {Asks[c] : c \in pgTx}

PgPromise == INSTANCE Ledger WITH booked <- PgBooked, holding <- pgBalance

\* Another call has committed a transfer on an account of c since c began to read.
Overlaps(c) == \E a \in Touched(Asks[c]) : ~Undisturbed(c, a)

\* What is committed changes as the promise has it, or by a transfer that overlapped
\* or that pays the account it takes from (postgres-ledger.ts, transfer).
BrokenOnlyByOverlap ==
  [][\/ PgPromise!LedgerNext
     \/ \E c \in pgTx' \ pgTx : Overlaps(c) \/ Asks[c].from = Asks[c].to]_<<PgBooked, pgBalance>>

\* No transfer has overlapped another on an account, and none has paid itself.
NothingOverlapped ==
  overlapped = {} /\ \A c \in pgTx : Asks[c].from # Asks[c].to

\* The invariant: until another call commits on the account, what a call has read is
\* what the account still holds, and every call past the test of line 73 asks for chips.
ReadsAreFresh ==
  \A c \in Calls :
    /\ stage[c] \in HasReadFrom \cup {"fresh"} => Asks[c].amount > 0
    /\ stage[c] \in HasReadFrom /\ Undisturbed(c, Asks[c].from) =>
         seenFrom[c] = pgBalance[Asks[c].from]
    /\ stage[c] \in HasReadBoth /\ Undisturbed(c, Asks[c].to) =>
         seenTo[c] = pgBalance[Asks[c].to]

\* Nothing has been read before the first call.
LEMMA FreshInit == ASSUME PgInit PROVE ReadsAreFresh
BY DEF PgInit, ReadsAreFresh, HasReadFrom, HasReadBoth, Inserted

\* A statement that reads and writes no balance leaves what was read fresh.
LEMMA FreshQuiet ==
  ASSUME PgInv, ReadsAreFresh, NEW c \in Calls, NEW to, Reach(c, to),
         UNCHANGED <<pgBalance, pgTx, seenFrom, seenTo, seenTx>>,
         to \in HasReadFrom \cup {"fresh"} => Asks[c].amount > 0,
         to \in HasReadFrom => stage[c] \in HasReadFrom,
         to \in HasReadBoth => stage[c] \in HasReadBoth
  PROVE  ReadsAreFresh'
<1>1. /\ stage'[c] = to /\ \A d \in Calls \ {c} : stage'[d] = stage[d]
  BY DEF PgInv, PgTypes, Reach
<1>2. \A d, a : Undisturbed(d, a)' <=> Undisturbed(d, a)  BY DEF Undisturbed
<1> SUFFICES ASSUME NEW d \in Calls
             PROVE  /\ stage'[d] \in HasReadFrom \cup {"fresh"} => Asks[d].amount > 0
                    /\ stage'[d] \in HasReadFrom /\ Undisturbed(d, Asks[d].from) =>
                         seenFrom[d] = pgBalance[Asks[d].from]
                    /\ stage'[d] \in HasReadBoth /\ Undisturbed(d, Asks[d].to) =>
                         seenTo[d] = pgBalance[Asks[d].to]
  BY <1>2 DEF ReadsAreFresh
<1>3. CASE d = c  BY <1>1, <1>3 DEF ReadsAreFresh
<1>4. CASE d # c  BY <1>1, <1>4 DEF ReadsAreFresh
<1> QED  BY <1>3, <1>4

\* What a call reads is fresh when it reads it.
LEMMA FreshReadFrom ==
  ASSUME PgInv, BookInv, ReadsAreFresh, NEW c \in Calls, ReadFrom(c) PROVE ReadsAreFresh'
<1>1. /\ stage'[c] \in {"from", "idle"} /\ \A d \in Calls \ {c} : stage'[d] = stage[d]
      /\ seenFrom'[c] = pgBalance[Asks[c].from]
      /\ \A d \in Calls \ {c} : seenFrom'[d] = seenFrom[d] /\ seenTx'[d] = seenTx[d]
      /\ UNCHANGED <<pgBalance, pgTx, seenTo>> /\ stage[c] = "fresh"
  <2>1. stage \in [Calls -> Stages] /\ seenFrom \in [Calls -> Int]
    BY DEF PgInv, PgTypes
  <2>2. seenTx \in [Calls -> SUBSET Calls]  BY DEF BookInv, BookTypes
  <2>3. seenTx' = [seenTx EXCEPT ![c] = pgTx]  BY DEF ReadFrom
  <2> QED  BY <2>1, <2>2, <2>3 DEF ReadFrom, Reach
<1>2. \A d \in Calls \ {c} : \A a : Undisturbed(d, a)' <=> Undisturbed(d, a)
  BY <1>1 DEF Undisturbed
<1>3. stage'[c] \notin HasReadBoth  BY <1>1 DEF HasReadBoth, Inserted
<1>4. Asks[c].amount > 0  BY <1>1 DEF ReadsAreFresh
<1> SUFFICES ASSUME NEW d \in Calls
             PROVE  /\ stage'[d] \in HasReadFrom \cup {"fresh"} => Asks[d].amount > 0
                    /\ stage'[d] \in HasReadFrom /\ Undisturbed(d, Asks[d].from)' =>
                         seenFrom'[d] = pgBalance[Asks[d].from]
                    /\ stage'[d] \in HasReadBoth /\ Undisturbed(d, Asks[d].to)' =>
                         seenTo[d] = pgBalance[Asks[d].to]
  BY <1>1 DEF ReadsAreFresh
<1>5. CASE d = c  BY <1>1, <1>3, <1>4, <1>5
<1>6. CASE d # c  BY <1>1, <1>2, <1>6 DEF ReadsAreFresh
<1> QED  BY <1>5, <1>6

\* So is the second balance.
LEMMA FreshReadTo ==
  ASSUME PgInv, ReadsAreFresh, NEW c \in Calls, ReadTo(c) PROVE ReadsAreFresh'
<1>1. /\ stage'[c] \in {"covered", "idle"} /\ \A d \in Calls \ {c} : stage'[d] = stage[d]
      /\ seenTo'[c] = pgBalance[Asks[c].to]
      /\ \A d \in Calls \ {c} : seenTo'[d] = seenTo[d]
      /\ UNCHANGED <<pgBalance, pgTx, seenFrom, seenTx>> /\ stage[c] = "from"
  <2>1. stage \in [Calls -> Stages] /\ seenTo \in [Calls -> Int]
    BY DEF PgInv, PgTypes
  <2> QED  BY <2>1 DEF ReadTo, Reach
<1>2. \A d, a : Undisturbed(d, a)' <=> Undisturbed(d, a)  BY <1>1 DEF Undisturbed
<1>3. stage[c] \in HasReadFrom  BY <1>1 DEF HasReadFrom
<1> SUFFICES ASSUME NEW d \in Calls
             PROVE  /\ stage'[d] \in HasReadFrom \cup {"fresh"} => Asks[d].amount > 0
                    /\ stage'[d] \in HasReadFrom /\ Undisturbed(d, Asks[d].from) =>
                         seenFrom[d] = pgBalance[Asks[d].from]
                    /\ stage'[d] \in HasReadBoth /\ Undisturbed(d, Asks[d].to) =>
                         seenTo'[d] = pgBalance[Asks[d].to]
  BY <1>1, <1>2 DEF ReadsAreFresh
<1>4. CASE d = c  BY <1>1, <1>3, <1>4 DEF ReadsAreFresh
<1>5. CASE d # c  BY <1>1, <1>5 DEF ReadsAreFresh
<1> QED  BY <1>4, <1>5

\* A commit disturbs the reads of every other call on its two accounts, and no others.
LEMMA FreshCommit ==
  ASSUME PgInv, BookInv, ReadsAreFresh, NEW c \in Calls, Commit(c) PROVE ReadsAreFresh'
<1>1. /\ stage[c] = "credited" /\ stage'[c] = "done"
      /\ \A d \in Calls \ {c} : stage'[d] = stage[d]
      /\ pgBalance' = Written(c) /\ pgTx' = pgTx \cup {c}
      /\ UNCHANGED <<seenFrom, seenTo, seenTx>>
  BY DEF Commit, Reach, PgInv, PgTypes
<1>2. c \notin pgTx  BY <1>1 DEF BookInv, BookTypes
<1>3. \A a \in Accounts : a \notin Touched(Asks[c]) => pgBalance'[a] = pgBalance[a]
  BY <1>1 DEF Written, Touched, PgInv, PgTypes
<1> SUFFICES ASSUME NEW d \in Calls
             PROVE  /\ stage'[d] \in HasReadFrom \cup {"fresh"} => Asks[d].amount > 0
                    /\ stage'[d] \in HasReadFrom /\ Undisturbed(d, Asks[d].from)' =>
                         seenFrom[d] = pgBalance'[Asks[d].from]
                    /\ stage'[d] \in HasReadBoth /\ Undisturbed(d, Asks[d].to)' =>
                         seenTo[d] = pgBalance'[Asks[d].to]
  BY <1>1 DEF ReadsAreFresh
<1>4. CASE stage'[d] \notin HasReadFrom
  <2>1. stage'[d] \notin HasReadBoth  BY <1>4 DEF HasReadFrom, HasReadBoth
  <2>2. stage'[d] = "fresh" => d # c  BY <1>1
  <2> QED  BY <1>1, <1>4, <2>1, <2>2 DEF ReadsAreFresh
<1>5. CASE stage'[d] \in HasReadFrom
  <2>1. d # c /\ stage'[d] = stage[d]  BY <1>1, <1>5 DEF HasReadFrom, Inserted
  <2>2. c \in pgTx' \ seenTx'[d]
    BY <1>1, <1>2, <1>5, <2>1 DEF BookInv, BookTypes
  <2>3. \A a : Undisturbed(d, a)' => a \notin Touched(Asks[c]) /\ Undisturbed(d, a)
    BY <1>1, <2>2 DEF Undisturbed
  <2>4. Asks[d].from \in Accounts /\ Asks[d].to \in Accounts  BY AsksAreTransfers
  <2> QED  BY <1>3, <1>5, <2>1, <2>3, <2>4 DEF ReadsAreFresh
<1> QED  BY <1>4, <1>5

\* Every step of a transfer leaves what was read fresh until it is overlapped.
LEMMA FreshNext ==
  ASSUME PgInv, BookInv, ReadsAreFresh, [PgNext]_pgVars PROVE ReadsAreFresh'
<1>1. ASSUME UNCHANGED <<pgBalance, pgTx, stage, seenFrom, seenTo, seenTx>>
      PROVE  ReadsAreFresh'
  <2>1. \A d, a : Undisturbed(d, a)' <=> Undisturbed(d, a)  BY <1>1 DEF Undisturbed
  <2> QED  BY <1>1, <2>1 DEF ReadsAreFresh
<1>2. ASSUME NEW account \in Accounts, PgCreateAccount(account) PROVE ReadsAreFresh'
  BY <1>1, <1>2 DEF PgCreateAccount
<1>3. ASSUME NEW c \in Calls, BeginTransfer(c) PROVE ReadsAreFresh'
  <2> DEFINE to == IF RefIsTaken(Asks[c].ref) THEN "done" ELSE "fresh"
  <2>1. /\ Reach(c, to) /\ to \notin HasReadFrom /\ to \notin HasReadBoth
        /\ Asks[c].amount > 0
    BY <1>3 DEF BeginTransfer, HasReadFrom, HasReadBoth, Inserted
  <2> HIDE DEF to
  <2> QED  BY <1>3, <2>1, FreshQuiet DEF BeginTransfer
<1>4. ASSUME NEW c \in Calls, NEW to, Reach(c, to), stage[c] \in HasReadBoth,
             UNCHANGED <<pgBalance, pgTx, seenFrom, seenTo, seenTx>>
      PROVE  ReadsAreFresh'
  <2>1. stage[c] \in HasReadFrom  BY <1>4 DEF HasReadFrom, HasReadBoth
  <2>2. Asks[c].amount > 0  BY <2>1 DEF ReadsAreFresh
  <2> QED  BY <1>4, <2>1, <2>2, FreshQuiet
<1>5. ASSUME NEW c \in Calls, InsertTx(c) PROVE ReadsAreFresh'
  <2>1. stage[c] \in HasReadBoth  BY <1>5 DEF InsertTx, HasReadBoth
  <2> QED  BY <1>4, <1>5, <2>1 DEF InsertTx
<1>6. ASSUME NEW c \in Calls, UpdateFrom(c) \/ UpdateTo(c) PROVE ReadsAreFresh'
  <2>1. stage[c] \in HasReadBoth
    BY <1>6 DEF UpdateFrom, UpdateTo, HasReadBoth, Inserted
  <2> QED  BY <1>4, <1>6, <2>1 DEF UpdateFrom, UpdateTo
<1>7. ASSUME NEW c \in Calls, RollBack(c) PROVE ReadsAreFresh'
  <2>1. /\ "idle" \notin HasReadFrom \cup {"fresh"} /\ "idle" \notin HasReadBoth
    BY DEF HasReadFrom, HasReadBoth, Inserted
  <2> QED  BY <1>7, <2>1, FreshQuiet DEF RollBack
<1>8. CASE UNCHANGED pgVars  BY <1>1, <1>8 DEF pgVars
<1> QED
  BY <1>2, <1>3, <1>5, <1>6, <1>7, <1>8, FreshReadFrom, FreshReadTo, FreshCommit DEF PgNext

\* Until another call commits on an account, what a call has read of it stays true
\* (postgres-ledger.ts, lines 115 to 124).
THEOREM ReadsAreFreshHolds == PgSpec => []ReadsAreFresh
<1>1. PgInit => ReadsAreFresh  BY FreshInit
<1>2. PgInv /\ BookInv /\ ReadsAreFresh /\ [PgNext]_pgVars => ReadsAreFresh'  BY FreshNext
<1> QED  BY <1>1, <1>2, PgInvHolds, BookInvHolds, PTL DEF PgSpec

\* A commit that nothing overlapped books its transfer as the promise has it.
LEMMA AloneKeepsPromise ==
  ASSUME PgInv, BookInv, ReadsAreFresh, NEW c \in Calls, Commit(c),
         ~Overlaps(c), Asks[c].from # Asks[c].to
  PROVE  PgPromise!LedgerNext
<1> DEFINE t == Asks[c]
<1>1. /\ t.from \in Accounts /\ t.to \in Accounts /\ t.amount \in Nat
      /\ pgBalance \in [Accounts -> Int]
  BY AsksAreTransfers DEF PgInv, PgTypes
<1>2. stage[c] \in Inserted /\ stage[c] \in HasReadFrom /\ stage[c] \in HasReadBoth
  BY DEF Commit, Inserted, HasReadFrom, HasReadBoth
<1>3. Undisturbed(c, t.from) /\ Undisturbed(c, t.to)
  BY DEF Overlaps, Touched
<1>4. seenFrom[c] = pgBalance[t.from] /\ seenTo[c] = pgBalance[t.to] /\ t.amount > 0
  BY <1>2, <1>3 DEF ReadsAreFresh
<1>5. t.from = House \/ pgBalance[t.from] >= t.amount
  BY <1>2, <1>4 DEF PgInv, ReadsCover, PgCovered
<1>6. \A old \in PgBooked : old.ref # t.ref
  BY <1>2 DEF PgInv, RefsAreUnique, RefIsTaken, PgBooked
<1>7. PgBooked' = PgBooked \cup {t}
  BY DEF Commit, PgBooked
<1>8. pgBalance' = [a \in Accounts |-> pgBalance[a]
        + (IF a = t.to THEN t.amount ELSE 0) - (IF a = t.from THEN t.amount ELSE 0)]
  <2>1. pgBalance' \in [Accounts -> Int] /\ DOMAIN pgBalance' = Accounts
    BY <1>1, <1>4 DEF Commit, Written
  <2>2. ASSUME NEW a \in Accounts
        PROVE  pgBalance'[a] = pgBalance[a]
                 + (IF a = t.to THEN t.amount ELSE 0) - (IF a = t.from THEN t.amount ELSE 0)
    BY <1>1, <1>4 DEF Commit, Written
  <2> QED  BY <2>1, <2>2
<1> HIDE DEF t
<1>9. PgPromise!Book(t)
  BY <1>4, <1>5, <1>6, <1>7, <1>8 DEF PgPromise!Book, Accounts, PgPromise!Accounts
<1>10. t \in PgBooked' \ PgBooked  BY <1>6, <1>7
<1> QED  BY <1>9, <1>10 DEF PgPromise!LedgerNext

\* Only a commit changes what is committed, and it keeps the promise when alone.
LEMMA PgStepKeepsPromise ==
  ASSUME PgInv, BookInv, ReadsAreFresh, [PgNext]_pgVars
  PROVE  \/ UNCHANGED <<PgBooked, pgBalance>>
         \/ PgPromise!LedgerNext
         \/ \E c \in Calls : /\ Commit(c) /\ c \in pgTx' \ pgTx
                             /\ Overlaps(c) \/ Asks[c].from = Asks[c].to
<1>1. CASE UNCHANGED <<pgTx, pgBalance>>  BY <1>1 DEF PgBooked
<1>2. ASSUME NEW c \in Calls, Commit(c), ~(Overlaps(c) \/ Asks[c].from = Asks[c].to)
      PROVE  PgPromise!LedgerNext
  BY <1>2, AloneKeepsPromise
<1>3. ASSUME NEW c \in Calls, Commit(c) PROVE c \in pgTx' \ pgTx
  BY <1>3 DEF Commit, BookInv, BookTypes
<1>4. (\E c \in Calls : Commit(c)) \/ UNCHANGED <<pgTx, pgBalance>>
  BY DEF PgNext, pgVars, PgCreateAccount, BeginTransfer, ReadFrom, ReadTo, InsertTx,
         UpdateFrom, UpdateTo, RollBack
<1> QED  BY <1>1, <1>2, <1>3, <1>4

\* What is committed changes only as the promise of a ledger has it, or by a transfer
\* that overlapped or that pays the account it takes from (postgres-ledger.ts, transfer).
THEOREM OnlyOverlapBreaksPromise == PgSpec => BrokenOnlyByOverlap
<1>1. PgInv /\ BookInv /\ ReadsAreFresh /\ [PgNext]_pgVars =>
        [\/ PgPromise!LedgerNext
         \/ \E c \in pgTx' \ pgTx :
              Overlaps(c) \/ Asks[c].from = Asks[c].to]_<<PgBooked, pgBalance>>
  BY PgStepKeepsPromise
<1> QED
  BY <1>1, PgInvHolds, BookInvHolds, ReadsAreFreshHolds, PTL DEF PgSpec, BrokenOnlyByOverlap

\* While nothing overlaps and nobody pays himself, the ledger in PostgreSQL implements
\* the promise of a ledger (postgres-ledger.ts against types.ts).
THEOREM PgPromiseKept == PgSpec /\ []NothingOverlapped => PgPromise!LedgerSpec
<1>1. PgInit => PgPromise!LedgerInit
  BY DEF PgInit, PgBooked, PgPromise!LedgerInit, NothingHeld, PgPromise!NothingHeld,
         Accounts, PgPromise!Accounts
<1>2. ASSUME PgInv, BookInv, ReadsAreFresh, [PgNext]_pgVars, NothingOverlapped'
      PROVE  [PgPromise!LedgerNext]_<<PgBooked, pgBalance>>
  <2>1. ASSUME NEW c \in Calls, Commit(c), c \in pgTx'
        PROVE  ~Overlaps(c) /\ Asks[c].from # Asks[c].to
    BY <1>2, <2>1 DEF NothingOverlapped, Commit, Overlaps, Undisturbed
  <2> QED  BY <1>2, <2>1, PgStepKeepsPromise
<1> QED
  BY <1>1, <1>2, PgInvHolds, BookInvHolds, ReadsAreFreshHolds, PTL
     DEF PgSpec, PgPromise!LedgerSpec

-----------------------------------------------------------------------------
(***************************************************************************)
(* The log of a hand and its chain (HandHistory).                          *)
(***************************************************************************)
\* A list in the order of the numbers of its events.
Sorted(log) == \A m, n \in 1..Len(log) : m < n => log[m].seq <= log[n].seq

\* The sort leaves every event in the list, adds none, and puts the least number first.
LEMMA InOrderIs ==
  ASSUME LogAssumption, NEW log \in Seq(Event)
  PROVE  /\ InOrder(log) \in Seq(Event)
         /\ ToSet(InOrder(log)) = ToSet(log)
         /\ Sorted(InOrder(log))
<1> DEFINE N == MaxSeq + 1
           Of(n) == {e \in ToSet(log) : e.seq = n - 1}
           seqs == [n \in 1..N |-> Those(log, Of(n))]
<1>1. N \in Nat /\ N # 0  BY DEF LogAssumption
<1>2. \A n \in 1..N : Those(log, Of(n)) \in Seq(Event)
                      /\ ToSet(Those(log, Of(n))) = ToSet(log) \cap Of(n)
  <2> SUFFICES ASSUME NEW n \in 1..N
               PROVE  Those(log, Of(n)) \in Seq(Event)
                      /\ ToSet(Those(log, Of(n))) = ToSet(log) \cap Of(n)
    OBVIOUS
  <2> HIDE DEF Of
  <2>1. Those(log, Of(n)) \in Seq(Event) /\ Picked(Those(log, Of(n)), log, Of(n), Len(log))
    BY ThosePicked
  <2> QED  BY <2>1, PickedAre
<1>3. ToSet(log) \subseteq Event /\ \A e \in Event : e.seq \in Seqs
  <2>1. \A i \in DOMAIN log : log[i] \in Event  OBVIOUS
  <2>2. ToSet(log) \subseteq Event  BY <2>1 DEF ToSet
  <2> QED  BY <2>2 DEF Event
<1>3a. \A n \in 1..N : ToSet(seqs[n]) = {e \in ToSet(log) : e.seq = n - 1}  BY <1>2
<1>4. /\ seqs \in Seq(Seq(Event)) /\ Len(seqs) = N /\ seqs # <<>>
      /\ \A n \in 1..N : seqs[n] \in Seq(Event)
  <2>1. seqs \in [1..N -> Seq(Event)]  BY <1>2
  <2>3. \A n \in 1..N : seqs[n] \in Seq(Event)  BY <1>2
  <2> HIDE DEF seqs, N
  <2>2. seqs \in Seq(Seq(Event)) /\ Len(seqs) = N  BY <1>1, <2>1, SequenceIs
  <2> QED  BY <1>1, <2>2, <2>3
<1>5. InOrder(log) = FlattenSeq(seqs)  BY DEF InOrder
<1> HIDE DEF seqs, Of
<1>6. PICK flat \in [1..N -> Seq(Event)] : Flattening(flat, seqs)
  BY <1>4, FlattenIs
<1> DEFINE Good(k, n) == /\ ToSet(k) = {e \in ToSet(log) : e.seq <= n}
                         /\ Sorted(k)
           P == {n \in Nat : n < N => Good(flat[n + 1], n)}
<1>7. 0 \in P
  <2>1. flat[1] = seqs[1] /\ 1 \in 1..N  BY <1>1, <1>6 DEF Flattening
  <2>2. ToSet(flat[1]) = {e \in ToSet(log) : e.seq = 0}  BY <2>1, <1>3a
  <2>3. {e \in ToSet(log) : e.seq = 0} = {e \in ToSet(log) : e.seq <= 0}
    BY <1>3 DEF Seqs, LogAssumption
  <2>4. \A m \in 1..Len(flat[1]) : flat[1][m].seq = 0
    <3>1. flat[1] \in Seq(Event)  BY <1>6, <2>1
    <3>2. \A m \in 1..Len(flat[1]) : flat[1][m] \in ToSet(flat[1])
      BY <3>1 DEF ToSet
    <3> QED  BY <3>2, <2>2
  <2>5. Sorted(flat[1])  BY <2>4 DEF Sorted
  <2> QED  BY <2>2, <2>3, <2>5
<1>8. ASSUME NEW n \in Nat, n \in P PROVE n + 1 \in P
  <2> SUFFICES ASSUME n + 1 < N PROVE Good(flat[n + 2], n + 1)
    OBVIOUS
  <2> DEFINE k == flat[n + 1]
             s == seqs[n + 2]
  <2>1. n + 2 \in 2..N /\ n + 1 \in 1..N /\ (n + 2) - 1 = n + 1 /\ n + 2 \in 1..N
    BY <1>1
  <2>2. k \in Seq(Event) /\ s \in Seq(Event) /\ flat[n + 2] = k \o s
    BY <1>4, <1>6, <2>1 DEF Flattening
  <2>3. Good(k, n)  BY <1>1, <1>8
  <2>4. ToSet(s) = {e \in ToSet(log) : e.seq = n + 1}  BY <2>1, <1>3a
  <2> HIDE DEF k, s, P
  <2>5. /\ Len(k) \in Nat /\ Len(s) \in Nat /\ Len(k \o s) = Len(k) + Len(s)
        /\ k \o s \in Seq(Event)
        /\ \A i \in 1..Len(k) + Len(s) :
             (k \o s)[i] = IF i <= Len(k) THEN k[i] ELSE s[i - Len(k)]
    BY <2>2, ConcatProperties
  <2>6. /\ \A i \in 1..Len(k) : (k \o s)[i] = k[i] /\ i \in 1..Len(k) + Len(s)
        /\ \A i \in 1..Len(s) : (k \o s)[Len(k) + i] = s[i]
                                /\ Len(k) + i \in 1..Len(k) + Len(s)
        /\ \A i \in 1..Len(k) + Len(s) :
             i \in 1..Len(k) \/ \E j \in 1..Len(s) : i = Len(k) + j
    <3>1. \A i \in 1..Len(k) : i \in 1..Len(k) + Len(s) /\ i <= Len(k)  BY <2>5
    <3>2. \A i \in 1..Len(s) : /\ Len(k) + i \in 1..Len(k) + Len(s)
                               /\ ~(Len(k) + i <= Len(k)) /\ (Len(k) + i) - Len(k) = i
      BY <2>5
    <3>3. ASSUME NEW i \in 1..Len(k) + Len(s), i \notin 1..Len(k)
          PROVE  \E j \in 1..Len(s) : i = Len(k) + j
      <4>1. i - Len(k) \in 1..Len(s) /\ i = Len(k) + (i - Len(k))  BY <2>5, <3>3
      <4> QED  BY <4>1
    <3> QED  BY <3>1, <3>2, <3>3, <2>5
  <2>7. ToSet(k \o s) = ToSet(k) \cup ToSet(s)
    <3>1. /\ DOMAIN (k \o s) = 1..Len(k) + Len(s)
          /\ DOMAIN k = 1..Len(k) /\ DOMAIN s = 1..Len(s)
      BY <2>2, <2>5
    <3>2. ASSUME NEW x \in ToSet(k \o s) PROVE x \in ToSet(k) \cup ToSet(s)
      <4>1. PICK i \in 1..Len(k) + Len(s) : x = (k \o s)[i]
        BY <3>1, <3>2 DEF ToSet
      <4>2. CASE i \in 1..Len(k)
        <5>1. x = k[i]  BY <4>1, <4>2, <2>6
        <5> QED  BY <5>1, <4>2, <3>1 DEF ToSet
      <4>3. CASE i \notin 1..Len(k)
        <5>1. PICK j \in 1..Len(s) : i = Len(k) + j  BY <4>3, <2>6
        <5>2. x = s[j]  BY <5>1, <4>1, <2>6
        <5> QED  BY <5>2, <3>1 DEF ToSet
      <4> QED  BY <4>2, <4>3
    <3>3. ASSUME NEW x \in ToSet(k) PROVE x \in ToSet(k \o s)
      <4>1. PICK i \in 1..Len(k) : x = k[i]  BY <3>1, <3>3 DEF ToSet
      <4> QED  BY <4>1, <3>1, <2>6 DEF ToSet
    <3>4. ASSUME NEW x \in ToSet(s) PROVE x \in ToSet(k \o s)
      <4>1. PICK i \in 1..Len(s) : x = s[i]  BY <3>1, <3>4 DEF ToSet
      <4>2. PICK j \in 1..Len(k) + Len(s) : (k \o s)[j] = x
        <5>1. Len(k) + i \in 1..Len(k) + Len(s) /\ (k \o s)[Len(k) + i] = x
          BY <2>6, <4>1
        <5> QED  BY <5>1
      <4> QED  BY <4>2, <3>1 DEF ToSet
    <3> QED  BY <3>2, <3>3, <3>4
  <2>8. \A e \in ToSet(log) : e.seq \in Nat  BY <1>3 DEF Seqs, LogAssumption
  <2>9. ToSet(k \o s) = {e \in ToSet(log) : e.seq <= n + 1}
    BY <2>3, <2>4, <2>7, <2>8
  <2>10. /\ \A i \in 1..Len(k) : k[i].seq <= n /\ k[i].seq \in Nat
         /\ \A i \in 1..Len(s) : s[i].seq = n + 1
    <3>1. /\ \A i \in 1..Len(k) : k[i] \in ToSet(k)
          /\ \A i \in 1..Len(s) : s[i] \in ToSet(s)
      BY <2>2 DEF ToSet
    <3> QED  BY <3>1, <2>3, <2>4, <2>8
  <2>11. Sorted(k \o s)
    <3> SUFFICES ASSUME NEW i \in 1..Len(k) + Len(s), NEW j \in 1..Len(k) + Len(s), i < j
                 PROVE  (k \o s)[i].seq <= (k \o s)[j].seq
      BY <2>5 DEF Sorted
    <3>1. CASE j \in 1..Len(k)
      <4>1. i \in 1..Len(k)  BY <3>1, <2>5
      <4> QED  BY <3>1, <4>1, <2>3, <2>6 DEF Sorted
    <3>2. CASE j \notin 1..Len(k)
      <4>1. (k \o s)[j].seq = n + 1  BY <3>2, <2>6, <2>10
      <4>2. (k \o s)[i].seq = n + 1 \/ ((k \o s)[i].seq \in Nat /\ (k \o s)[i].seq <= n)
        BY <2>6, <2>10
      <4>3. PICK x, y : x = (k \o s)[i].seq /\ y = (k \o s)[j].seq  OBVIOUS
      <4>4. (x = n + 1 \/ (x \in Nat /\ x <= n)) /\ y = n + 1  BY <4>1, <4>2, <4>3
      <4>5. x <= y  BY <4>4
      <4> QED  BY <4>3, <4>5
    <3> QED  BY <3>1, <3>2
  <2> QED  BY <2>2, <2>9, <2>11
<1> HIDE DEF P
<1>9. MaxSeq \in P  BY <1>7, <1>8, NumberInduction DEF LogAssumption
<1>10. Good(flat[N], MaxSeq)  BY <1>1, <1>9 DEF P, LogAssumption
<1>11. InOrder(log) = flat[N]  BY <1>4, <1>5, <1>6 DEF Flattening
<1>12. {e \in ToSet(log) : e.seq <= MaxSeq} = ToSet(log)
  BY <1>3 DEF Seqs, LogAssumption
<1>13. N \in 1..N  BY <1>1
<1>14. flat[N] \in Seq(Event)  BY <1>6, <1>13
<1> HIDE DEF N
<1> QED  BY <1>10, <1>11, <1>12, <1>14

-----------------------------------------------------------------------------
\* What a log's chain is made of.
EntriesOf(log) == ToSet(BuildHashChain(log))

\* The log and the events shown are lists of events, and every entry of the chain
\* shown comes from the chain of some log.
HistoryTypes ==
  /\ stored \in Seq(Event) /\ shown \in Seq(Event)
  /\ chain \in Seq(UNION {EntriesOf(log) : log \in Seq(Event)})

\* The chain hash is there for every list, and every hash is that of the hash before
\* and of the event.
LEMMA ChainHashIs ==
  ASSUME NEW log \in Seq(Event)
  PROVE  /\ ChainHash(log)[0] = Genesis
         /\ \A n \in 1..Len(log) :
              ChainHash(log)[n] = <<ChainHash(log)[n - 1], HashEvent(log[n])>>
<1> DEFINE Rec(m, f) == f = [i \in 0..m |->
                               IF i = 0 THEN Genesis
                               ELSE ComputeChainHash(f[i - 1], HashEvent(log[i]))]
           P == {m \in Nat : \E f : Rec(m, f)}
           hash == CHOOSE f : Rec(Len(log), f)
<1>1. 0 \in P
  <2>1. Rec(0, [i \in 0..0 |-> Genesis])  OBVIOUS
  <2> QED  BY <2>1
<1>2. ASSUME NEW m \in Nat, m \in P PROVE m + 1 \in P
  <2>1. PICK f : Rec(m, f)  BY <1>2
  <2> DEFINE next == ComputeChainHash(f[m], HashEvent(log[m + 1]))
  <2>2. PICK g : g = [i \in 0..(m + 1) |-> IF i = m + 1 THEN next ELSE f[i]]  OBVIOUS
  <2>3. g[m + 1] = next /\ \A i \in 0..m : g[i] = f[i]
    <3>1. m + 1 \in 0..(m + 1) /\ \A i \in 0..m : i \in 0..(m + 1) /\ i # m + 1
      OBVIOUS
    <3> QED  BY <2>2, <3>1
  <2>4. \A i \in 0..(m + 1) :
          g[i] = IF i = 0 THEN Genesis
                 ELSE ComputeChainHash(g[i - 1], HashEvent(log[i]))
    <3> SUFFICES ASSUME NEW i \in 0..(m + 1)
                 PROVE  g[i] = IF i = 0 THEN Genesis
                               ELSE ComputeChainHash(g[i - 1], HashEvent(log[i]))
      OBVIOUS
    <3>1. CASE i = m + 1
      <4>1. i # 0 /\ i - 1 = m /\ m \in 0..m  BY <3>1
      <4> QED  BY <3>1, <4>1, <2>3
    <3>2. CASE i # m + 1
      <4>1. i \in 0..m /\ (i # 0 => i - 1 \in 0..m)  BY <3>2
      <4>2. f[i] = IF i = 0 THEN Genesis
                   ELSE ComputeChainHash(f[i - 1], HashEvent(log[i]))
        BY <4>1, <2>1
      <4> QED  BY <4>1, <4>2, <2>3
    <3> QED  BY <3>1, <3>2
  <2>5. g = [i \in 0..(m + 1) |-> g[i]]  BY <2>2
  <2>6. Rec(m + 1, g)  BY <2>4, <2>5
  <2>7. m + 1 \in Nat  OBVIOUS
  <2> HIDE DEF Rec
  <2> QED  BY <2>6, <2>7
<1> HIDE DEF P
<1>3. Len(log) \in P  BY <1>1, <1>2, NumberInduction
<1>4. Rec(Len(log), hash)
  <2>1. \E f : Rec(Len(log), f)  BY <1>3 DEF P
  <2> QED  BY <2>1
<1>5. ChainHash(log) = hash  BY DEF ChainHash
<1> HIDE DEF hash
<1>6. 0 \in 0..Len(log) /\ \A n \in 1..Len(log) : n \in 0..Len(log) /\ n # 0  OBVIOUS
<1> QED  BY <1>4, <1>5, <1>6 DEF ComputeChainHash

\* A chain has an entry for every event, which holds the event's hash and the chain
\* hashes before and after it.
LEMMA ChainIs ==
  ASSUME NEW log \in Seq(Event)
  PROVE  /\ Len(BuildHashChain(log)) = Len(log)
         /\ BuildHashChain(log) \in Seq(EntriesOf(log))
         /\ \A n \in 1..Len(log) : BuildHashChain(log)[n] =
              [seq |-> log[n].seq, eventHash |-> HashEvent(log[n]),
               previousHash |-> ChainHash(log)[n - 1], chainHash |-> ChainHash(log)[n]]
<1>1. Len(log) \in Nat  OBVIOUS
<1>2. PICK made : made = BuildHashChain(log)  OBVIOUS
<1>3. made = [n \in 1..Len(log) |-> made[n]]  BY <1>2 DEF BuildHashChain
<1>4. /\ made \in Seq({made[n] : n \in 1..Len(log)}) /\ Len(made) = Len(log)
      /\ DOMAIN made = 1..Len(log)
  BY <1>1, <1>3, ListIs
<1>5. EntriesOf(log) = {made[n] : n \in 1..Len(log)}
  BY <1>2, <1>4 DEF EntriesOf, ToSet
<1>6. \A n \in 1..Len(log) : BuildHashChain(log)[n] =
        [seq |-> log[n].seq, eventHash |-> HashEvent(log[n]),
         previousHash |-> ChainHash(log)[n - 1], chainHash |-> ChainHash(log)[n]]
  BY DEF BuildHashChain
<1> QED  BY <1>2, <1>4, <1>5, <1>6

\* An entry is what it says of its four fields.
LEMMA EntryIs ==
  ASSUME NEW e \in UNION {EntriesOf(log) : log \in Seq(Event)}
  PROVE  e = [seq |-> e.seq, eventHash |-> e.eventHash,
              previousHash |-> e.previousHash, chainHash |-> e.chainHash]
<1>1. PICK log \in Seq(Event) : e \in EntriesOf(log)  OBVIOUS
<1>2. DOMAIN BuildHashChain(log) = 1..Len(log)  BY DEF BuildHashChain
<1>3. PICK n \in 1..Len(log) : e = BuildHashChain(log)[n]
  BY <1>1, <1>2 DEF EntriesOf, ToSet
<1>4. e = [seq |-> log[n].seq, eventHash |-> HashEvent(log[n]),
           previousHash |-> ChainHash(log)[n - 1], chainHash |-> ChainHash(log)[n]]
  BY <1>3, ChainIs
<1> QED  BY <1>4

\* Only the chain that is made of a list of events is accepted with it.
LEMMA VerifiedIsBuilt ==
  ASSUME NEW log \in Seq(Event),
         NEW c \in Seq(UNION {EntriesOf(other) : other \in Seq(Event)})
  PROVE  VerifyHashChain(log, c) <=> c = BuildHashChain(log)
<1> DEFINE E == UNION {EntriesOf(other) : other \in Seq(Event)}
           L == Len(log)
<1> USE DEF ComputeChainHash
<1>1. L \in Nat /\ Len(c) \in Nat /\ \A n \in 1..Len(c) : c[n] \in E  OBVIOUS
<1>2. PICK h : h = ChainHash(log)  OBVIOUS
<1>3. h[0] = Genesis /\ \A n \in 1..L : h[n] = <<h[n - 1], HashEvent(log[n])>>
  BY <1>2, ChainHashIs
\* the terminal hash of the first n entries
<1>4. \A n \in 1..Len(c) :
        TerminalHash(SubSeq(c, 1, n - 1)) = IF n = 1 THEN Genesis ELSE c[n - 1].chainHash
  <2> SUFFICES ASSUME NEW n \in 1..Len(c)
               PROVE  TerminalHash(SubSeq(c, 1, n - 1))
                        = IF n = 1 THEN Genesis ELSE c[n - 1].chainHash
    OBVIOUS
  <2>1. \A i \in 1..(n - 1) : i \in 1..Len(c)  BY <1>1
  <2>2. \A i \in 1..(n - 1) : c[i] \in E  BY <1>1, <2>1
  <2>3. 1 \in Int /\ n - 1 \in Int /\ (n - 1) - 1 + 1 = n - 1  BY <1>1
  <2> HIDE DEF E
  <2>4. /\ SubSeq(c, 1, n - 1) \in Seq(E)
        /\ Len(SubSeq(c, 1, n - 1)) = IF 1 <= n - 1 THEN (n - 1) - 1 + 1 ELSE 0
        /\ \A i \in 1..((n - 1) - 1 + 1) : SubSeq(c, 1, n - 1)[i] = c[1 + i - 1]
    BY <2>2, <2>3, SubSeqProperties
  <2>5. CASE n = 1
    <3>1. SubSeq(c, 1, n - 1) = <<>>  BY <2>4, <2>5
    <3> QED  BY <2>5, <3>1 DEF TerminalHash
  <2>6. CASE n # 1
    <3>1. n - 1 >= 1 /\ n - 1 \in 1..(n - 1) /\ 1 + (n - 1) - 1 = n - 1  BY <2>6
    <3>2. Len(SubSeq(c, 1, n - 1)) = n - 1  BY <2>3, <2>4, <3>1
    <3>3. SubSeq(c, 1, n - 1)[n - 1] = c[n - 1]
      <4>1. SubSeq(c, 1, n - 1)[n - 1] = c[1 + (n - 1) - 1]  BY <2>3, <2>4, <3>1
      <4> QED  BY <4>1, <3>1
    <3>5. Len(<<>>) = 0  OBVIOUS
    <3>4. SubSeq(c, 1, n - 1) # <<>>
      <4> SUFFICES ASSUME SubSeq(c, 1, n - 1) = <<>> PROVE FALSE  OBVIOUS
      <4>1. n - 1 = 0  BY <3>2, <3>5
      <4> QED  BY <4>1, <3>1
    <3> QED  BY <2>6, <3>2, <3>3, <3>4 DEF TerminalHash, Last
  <2> QED  BY <2>5, <2>6
<1>5. ASSUME c = BuildHashChain(log) PROVE VerifyHashChain(log, c)
  <2>1. Len(c) = L /\ \A n \in 1..L : c[n] =
          [seq |-> log[n].seq, eventHash |-> HashEvent(log[n]),
           previousHash |-> h[n - 1], chainHash |-> h[n]]
    BY <1>2, <1>5, ChainIs
  <2>2. ASSUME NEW n \in 1..L
        PROVE  EntryHolds(log[n], c[n], TerminalHash(SubSeq(c, 1, n - 1)))
    <3> HIDE DEF L
    <3>0. n \in 1..Len(c)  BY <2>1
    <3>1. TerminalHash(SubSeq(c, 1, n - 1)) = h[n - 1]
      <4>1. CASE n = 1
        <5>1. TerminalHash(SubSeq(c, 1, n - 1)) = Genesis  BY <3>0, <4>1, <1>4
        <5>2. n - 1 = 0  BY <4>1
        <5> QED  BY <5>1, <5>2, <1>3
      <4>2. CASE n # 1
        <5>1. n - 1 \in 1..L  BY <4>2, <1>1
        <5>2. c[n - 1].chainHash = h[n - 1]  BY <5>1, <2>1
        <5> QED  BY <3>0, <4>2, <5>2, <1>4
      <4> QED  BY <4>1, <4>2
    <3>2. /\ c[n].seq = log[n].seq /\ c[n].eventHash = HashEvent(log[n])
          /\ c[n].previousHash = h[n - 1] /\ c[n].chainHash = h[n]
      BY <2>1
    <3> QED  BY <3>1, <3>2, <1>3 DEF EntryHolds
  <2> QED  BY <2>1, <2>2 DEF VerifyHashChain
<1>6. ASSUME VerifyHashChain(log, c) PROVE c = BuildHashChain(log)
  <2>1. /\ Len(c) = L
        /\ \A n \in 1..L : EntryHolds(log[n], c[n], TerminalHash(SubSeq(c, 1, n - 1)))
    BY <1>6 DEF VerifyHashChain
  <2> DEFINE P == {n \in Nat : n + 1 <= L => c[n + 1].chainHash = h[n + 1]}
  <2>2. 0 \in P
    <3> SUFFICES ASSUME 1 <= L PROVE c[1].chainHash = h[1]  OBVIOUS
    <3>1. 1 \in 1..L  BY <1>1
    <3>2. TerminalHash(SubSeq(c, 1, 1 - 1)) = Genesis  BY <3>1, <2>1, <1>4
    <3> HIDE DEF L
    <3>4. PICK m : m = 1  OBVIOUS
    <3>5. EntryHolds(log[m], c[m], Genesis)  BY <3>1, <3>2, <3>4, <2>1
    <3>6. c[m].chainHash = <<Genesis, HashEvent(log[m])>>  BY <3>5 DEF EntryHolds
    <3>7. h[m] = <<h[m - 1], HashEvent(log[m])>>
      BY <3>1, <3>4, <1>3
    <3>8. h[m - 1] = Genesis  BY <3>4, <1>3
    <3> QED  BY <3>4, <3>6, <3>7, <3>8
  <2>3. ASSUME NEW n \in Nat, n \in P PROVE n + 1 \in P
    <3> SUFFICES ASSUME n + 2 <= L PROVE c[n + 2].chainHash = h[n + 2]  OBVIOUS
    <3>1. n + 2 \in 1..L /\ n + 2 # 1 /\ (n + 2) - 1 = n + 1 /\ n + 1 <= L  BY <1>1
    <3>2. TerminalHash(SubSeq(c, 1, (n + 2) - 1)) = c[n + 1].chainHash
      BY <3>1, <2>1, <1>4
    <3>3. c[n + 1].chainHash = h[n + 1]  BY <2>3, <3>1
    <3> HIDE DEF L
    <3>4. PICK m : m = n + 2  OBVIOUS
    <3>5. EntryHolds(log[m], c[m], h[n + 1])  BY <3>1, <3>2, <3>3, <3>4, <2>1
    <3>6. c[m].chainHash = <<h[n + 1], HashEvent(log[m])>>  BY <3>5 DEF EntryHolds
    <3>7. h[m] = <<h[n + 1], HashEvent(log[m])>>  BY <3>1, <3>4, <1>3
    <3> QED  BY <3>4, <3>6, <3>7
  <2> HIDE DEF P
  <2>4. Nat \subseteq P  BY <2>2, <2>3, NumberInduction
  <2>5. ASSUME NEW n \in 1..L PROVE c[n].chainHash = h[n]
    <3>1. n - 1 \in P /\ (n - 1) + 1 = n /\ n <= L  BY <1>1, <2>4
    <3> QED  BY <3>1 DEF P
  <2>6. ASSUME NEW n \in 1..L PROVE c[n] = BuildHashChain(log)[n]
    <3>1. /\ c[n].seq = log[n].seq /\ c[n].eventHash = HashEvent(log[n])
          /\ c[n].previousHash = TerminalHash(SubSeq(c, 1, n - 1))
      BY <2>1 DEF EntryHolds
    <3>2. TerminalHash(SubSeq(c, 1, n - 1)) = h[n - 1]
      <4>1. CASE n = 1  BY <4>1, <2>1, <1>3, <1>4
      <4>2. CASE n # 1
        <5>1. n - 1 \in 1..L /\ n \in 1..Len(c)  BY <4>2, <2>1, <1>1
        <5> QED  BY <4>2, <5>1, <2>5, <1>4
      <4> QED  BY <4>1, <4>2
    <3>3. c[n] = [seq |-> c[n].seq, eventHash |-> c[n].eventHash,
                  previousHash |-> c[n].previousHash, chainHash |-> c[n].chainHash]
      BY <1>1, <2>1, EntryIs
    <3>4. BuildHashChain(log)[n] =
            [seq |-> log[n].seq, eventHash |-> HashEvent(log[n]),
             previousHash |-> h[n - 1], chainHash |-> h[n]]
      BY <1>2, ChainIs
    <3>5. c[n].chainHash = h[n] /\ c[n].previousHash = h[n - 1]  BY <3>1, <3>2, <2>5
    <3> QED  BY <3>1, <3>3, <3>4, <3>5
  <2>7. c = [n \in 1..L |-> c[n]]  BY <2>1
  <2>8. BuildHashChain(log) = [n \in 1..L |-> BuildHashChain(log)[n]]
    BY DEF BuildHashChain
  <2> QED  BY <2>6, <2>7, <2>8
<1> QED  BY <1>5, <1>6

-----------------------------------------------------------------------------
\* An append merges the new events into a log that holds all it held, in order.
LEMMA MergedIs ==
  ASSUME LogAssumption, stored \in Seq(Event), NEW events \in Batches
  PROVE  /\ Merged(events) \in Seq(Event) /\ ToSet(stored) \subseteq ToSet(Merged(events))
         /\ Sorted(Merged(events))
<1> DEFINE new == NewTo(events, stored)
<1>1. events \in Seq(Event)
  <2>1. PICK n \in 1..2 : events \in [1..n -> Event]  BY DEF Batches
  <2> QED  BY <2>1, SequenceIs
<1>2. new \in Seq(Event)  BY <1>1, ThosePicked DEF NewTo
<1> HIDE DEF new
<1>3. /\ stored \o new \in Seq(Event) /\ Len(stored \o new) = Len(stored) + Len(new)
      /\ \A i \in 1..Len(stored) + Len(new) :
           (stored \o new)[i] = IF i <= Len(stored) THEN stored[i] ELSE new[i - Len(stored)]
  BY <1>2, ConcatProperties
<1>4. ToSet(stored) \subseteq ToSet(stored \o new)
  <2> SUFFICES ASSUME NEW x \in ToSet(stored) PROVE x \in ToSet(stored \o new)
    OBVIOUS
  <2>1. PICK i \in 1..Len(stored) : x = stored[i]  BY DEF ToSet
  <2>2. i \in 1..Len(stored) + Len(new) /\ i <= Len(stored)  BY <1>2
  <2>3. DOMAIN (stored \o new) = 1..Len(stored) + Len(new)  BY <1>3
  <2> QED  BY <2>1, <2>2, <2>3, <1>3 DEF ToSet
<1>5. Merged(events) = InOrder(stored \o new)  BY DEF Merged, new
<1> QED  BY <1>3, <1>4, <1>5, InOrderIs

\* Every step keeps the types.
LEMMA HistoryTypesStep ==
  HistoryTypes /\ LogAssumption /\ [HistoryNext]_historyVars => HistoryTypes'
<1> SUFFICES ASSUME HistoryTypes, LogAssumption, [HistoryNext]_historyVars
             PROVE  HistoryTypes'
  OBVIOUS
<1> DEFINE E == UNION {EntriesOf(log) : log \in Seq(Event)}
<1>1. ASSUME NEW events \in Batches, AppendEvents(events) PROVE HistoryTypes'
  BY <1>1, MergedIs DEF HistoryTypes, AppendEvents
<1>2. ASSUME Seal PROVE HistoryTypes'
  <2>1. BuildHashChain(stored) \in Seq(EntriesOf(stored))  BY ChainIs DEF HistoryTypes
  <2>2. EntriesOf(stored) \subseteq E  BY DEF HistoryTypes
  <2> HIDE DEF E
  <2>3. BuildHashChain(stored) \in Seq(E)  BY <2>1, <2>2, SeqMonotonic
  <2> QED  BY <2>3, <1>2 DEF HistoryTypes, Seal, E
<1>3. ASSUME NEW n \in 1..Len(shown), LoseEvent(n) PROVE HistoryTypes'
  <2>1. RemoveAt(shown, n) \in Seq(Event)
    <3>1. shown \in Seq(Event) /\ Len(shown) \in Nat
          /\ \A i \in 1..Len(shown) : shown[i] \in Event
      BY DEF HistoryTypes
    <3>2. /\ \A i \in 1..(n - 1) : shown[i] \in Event
          /\ \A i \in (n + 1)..Len(shown) : shown[i] \in Event
      BY <3>1
    <3>3. 1 \in Int /\ n - 1 \in Int /\ n + 1 \in Int /\ Len(shown) \in Int  BY <3>1
    <3>4. SubSeq(shown, 1, n - 1) \in Seq(Event)  BY <3>2, <3>3, SubSeqProperties
    <3>5. SubSeq(shown, n + 1, Len(shown)) \in Seq(Event)
      BY <3>2, <3>3, SubSeqProperties
    <3> QED  BY <3>4, <3>5, ConcatProperties DEF RemoveAt
  <2> QED  BY <2>1, <1>3 DEF HistoryTypes, LoseEvent
<1>4. ASSUME NEW n \in 1..Len(shown), NEW event \in Event, AlterEvent(n, event)
      PROVE  HistoryTypes'
  <2>1. [shown EXCEPT ![n] = event] \in Seq(Event)  BY ExceptSeq DEF HistoryTypes
  <2> QED  BY <2>1, <1>4 DEF HistoryTypes, AlterEvent
<1>5. ASSUME NEW n \in 1..Len(chain), NEW other \in Batches, n <= Len(other),
             GraftEntry(n, other)
      PROVE  HistoryTypes'
  <2>1. other \in Seq(Event)
    <3>1. PICK m \in 1..2 : other \in [1..m -> Event]  BY DEF Batches
    <3> QED  BY <3>1, SequenceIs
  <2>2. n \in 1..Len(other) /\ n \in DOMAIN BuildHashChain(other)
    BY <1>5, <2>1 DEF BuildHashChain
  <2>3. BuildHashChain(other)[n] \in EntriesOf(other)  BY <2>2 DEF EntriesOf, ToSet
  <2>4. BuildHashChain(other)[n] \in E  BY <2>1, <2>3
  <2>5. chain \in Seq(E)  BY DEF HistoryTypes
  <2> HIDE DEF E
  <2>6. [chain EXCEPT ![n] = BuildHashChain(other)[n]] \in Seq(E)
    BY <2>4, <2>5, ExceptSeq
  <2> QED  BY <2>6, <1>5 DEF HistoryTypes, GraftEntry, E
<1>6. CASE UNCHANGED historyVars  BY <1>6 DEF HistoryTypes, historyVars
<1> QED  BY <1>1, <1>2, <1>3, <1>4, <1>5, <1>6 DEF HistoryNext

\* The types hold at the start.
LEMMA HistoryTypesInit == HistoryInit => HistoryTypes
BY EmptySeq DEF HistoryInit, HistoryTypes

\* hash-chain.ts: whatever damage is done to the events or to the chain, the chain is
\* accepted only if it is the one that is made of these events.
THEOREM ChainsAreUnique == HistorySpec => []OnlyItsChainIsAccepted
<1>1. HistoryTypes => OnlyItsChainIsAccepted
  BY VerifiedIsBuilt DEF HistoryTypes, OnlyItsChainIsAccepted
<1> QED  BY <1>1, HistoryTypesInit, HistoryTypesStep, LogAssumption, PTL DEF HistorySpec

\* memory-store.ts: a log never loses an event, and is always in order.
THEOREM LogsAreKept == HistorySpec => LogIsKept
<1>1. HistoryTypes /\ LogAssumption /\ [HistoryNext]_historyVars =>
        [/\ ToSet(stored) \subseteq ToSet(stored')
         /\ \A m, n \in 1..Len(stored') : m < n => stored'[m].seq <= stored'[n].seq]_stored
  <2> SUFFICES ASSUME HistoryTypes, LogAssumption, [HistoryNext]_historyVars,
                      stored' # stored
               PROVE  /\ ToSet(stored) \subseteq ToSet(stored')
                      /\ \A m, n \in 1..Len(stored') :
                           m < n => stored'[m].seq <= stored'[n].seq
    OBVIOUS
  <2>1. PICK events \in Batches : AppendEvents(events)
    BY DEF HistoryNext, historyVars, Seal, LoseEvent, AlterEvent, GraftEntry
  <2>2. /\ ToSet(stored) \subseteq ToSet(Merged(events))
        /\ Sorted(Merged(events))
    BY MergedIs DEF HistoryTypes
  <2>3. stored' = Merged(events)  BY <2>1 DEF AppendEvents
  <2> QED  BY <2>2, <2>3 DEF Sorted
<1> QED
  BY <1>1, HistoryTypesInit, HistoryTypesStep, LogAssumption, PTL DEF HistorySpec, LogIsKept

-----------------------------------------------------------------------------
(***************************************************************************)
(* The sessions of the scripts (Session).                                  *)
(***************************************************************************)
\* The seats are finitely many.
LEMMA SessionSeatsFinite ==
  ASSUME SessionAssumption
  PROVE  IsFiniteSet(SessionSeats)
<1>1. 0 \in Int /\ 5 \in Int  OBVIOUS
<1>2. IsFiniteSet(0..5)  BY <1>1, FS_Interval
<1> QED  BY <1>2, FS_Subset DEF SessionAssumption, Seats

\* AllChips sums what the players have.
LEMMA AllChipsIs ==
  ASSUME SessionAssumption, NEW chips \in [SessionSeats -> Nat]
  PROVE  AllChips(chips) = SumOf(chips, SessionSeats) /\ AllChips(chips) \in Int
<1>1. AllChips(chips) = SumOf(chips, SessionSeats)
  BY DEF AllChips, SumOf, FoldSet, MapThenSumSet, MapThenFoldSet
<1>2. \A x \in SessionSeats : chips[x] \in Int  OBVIOUS
<1>3. SumOf(chips, SessionSeats) \in Int  BY <1>2, SessionSeatsFinite, SumFacts
<1> QED  BY <1>1, <1>3

\* Who starts with the same chips has the number of players times as many together.
LEMMA StartIs ==
  ASSUME SessionAssumption
  PROVE  AllChips([s \in SessionSeats |-> StartingChips])
           = Cardinality(SessionSeats) * StartingChips
<1> DEFINE f == [s \in SessionSeats |-> StartingChips]
           P == {T \in SUBSET SessionSeats :
                   SumOf(f, T) = Cardinality(T) * StartingChips}
<1>1. /\ f \in [SessionSeats -> Nat]
      /\ \A x \in SessionSeats : f[x] \in Int
      /\ \A x \in SessionSeats : f[x] = StartingChips
  BY DEF SessionAssumption
<1> HIDE DEF f
<1>2. /\ SumOf(f, {}) = 0
      /\ \A T \in SUBSET SessionSeats : SumOf(f, T) \in Int
      /\ \A T \in SUBSET SessionSeats : \A x \in SessionSeats \ T :
           SumOf(f, T \cup {x}) = SumOf(f, T) + f[x]
  BY <1>1, SessionSeatsFinite, SumFacts
<1>3. {} \in P  BY <1>2, FS_EmptySet DEF SessionAssumption
<1>4. ASSUME NEW T \in SUBSET SessionSeats, NEW x \in SessionSeats,
             IsFiniteSet(T), T \in P, x \notin T
      PROVE  T \cup {x} \in P
  <2>1. Cardinality(T \cup {x}) = Cardinality(T) + 1 /\ Cardinality(T) \in Nat
    BY <1>4, FS_AddElement, FS_CardinalityType
  <2>2. SumOf(f, T \cup {x}) = SumOf(f, T) + StartingChips  BY <1>1, <1>2, <1>4
  <2>3. PICK c \in Nat : c = Cardinality(T)  BY <2>1
  <2>4. SumOf(f, T) = c * StartingChips  BY <1>4, <2>3
  <2>5. c * StartingChips + StartingChips = (c + 1) * StartingChips
    BY DEF SessionAssumption
  <2> QED  BY <2>1, <2>2, <2>3, <2>4, <2>5
<1> HIDE DEF P
<1>5. SessionSeats \in P  BY <1>3, <1>4, SessionSeatsFinite, SetInduction
<1>6. AllChips(f) = SumOf(f, SessionSeats)  BY <1>1, AllChipsIs
<1> QED  BY <1>5, <1>6 DEF P, f

\* The lowest of some seats is one of them.
LEMMA LowestSeatIs ==
  ASSUME NEW S \in SUBSET Seats, S # {}
  PROVE  LowestSeat(S) \in S
<1>1. \E s \in S : \A t \in S : s <= t  BY LeastOfSix DEF Seats
<1> QED  BY <1>1 DEF LowestSeat

\* A player who has chips is dealt in and is dealer; the button stays on a seat.
LEMMA DealersAre ==
  ASSUME SessionAssumption, NEW chips \in [SessionSeats -> Nat], EnoughPlayers(chips),
         NEW dealer \in Seats
  PROVE  /\ DealerOf(chips, dealer) \in PlayersWithChips(chips)
         /\ DealerOf(chips, dealer) \in Seats
         /\ AdvanceDealer(PlayersWithChips(chips), DealerOf(chips, dealer)) \in Seats
<1>1. PlayersWithChips(chips) \in SUBSET Seats
  BY DEF PlayersWithChips, SessionAssumption
<1>2. PlayersWithChips(chips) # {}
  <2> SUFFICES ASSUME PlayersWithChips(chips) = {} PROVE FALSE  OBVIOUS
  <2>1. Cardinality(PlayersWithChips(chips)) = 0  BY FS_EmptySet
  <2> QED  BY <2>1 DEF EnoughPlayers
<1>3. DealerOf(chips, dealer) \in PlayersWithChips(chips)
  BY <1>1, <1>2, LowestSeatIs DEF DealerOf
<1>4. FirstClockwise(DealerOf(chips, dealer), PlayersWithChips(chips)) \in Seats
  BY <1>1, <1>2, <1>3, FirstClockwiseIn
<1> QED  BY <1>1, <1>3, <1>4 DEF AdvanceDealer

-----------------------------------------------------------------------------
\* What a session may have: chips of every player, deals, hands, and runs of a replay.
Stacks == [SessionSeats -> Nat]
Deals == [number : Nat, chips : Stacks, dealer : Seats]
Hands == [deal : Deals, after : Stacks]
Runs == [number : Nat, chips : Stacks, dealer : Seats, matches : BOOLEAN]

\* What the players start with.
Start == [s \in SessionSeats |-> StartingChips]

\* What the next hand after the first i is dealt from: its stacks and its button.
StacksAfter(i) == IF i = 0 THEN Start ELSE records[i].after
ButtonAfter(i) ==
  IF i = 0 THEN LowestSeat(SessionSeats)
  ELSE AdvanceDealer(PlayersWithChips(records[i].deal.chips), records[i].deal.dealer)

\* Every hand was dealt from what the hand before left, and shared those chips.
Chained ==
  \A i \in 1..Len(records) :
    /\ EnoughPlayers(StacksAfter(i - 1))
    /\ records[i].deal = Deal(i, StacksAfter(i - 1), ButtonAfter(i - 1))
    /\ AllChips(records[i].after) = AllChips(StacksAfter(i - 1))

\* The inductive invariant: a session fails only when too few hands were played.
SessionInv ==
  /\ script \in Scripts /\ pile \in Stacks /\ button \in Seats
  /\ records \in Seq(Hands)
  /\ verdict \in {"playing", "aborted", "pass", "fail"}
  /\ Chained
  /\ pile = StacksAfter(Len(records)) /\ button = ButtonAfter(Len(records))
  /\ AllChips(pile) = Cardinality(SessionSeats) * StartingChips
  /\ verdict = "fail" => Len(records) < NumHands

\* A replayed hand leaves the replay in a state it may be in.
LEMMA ReplayStays ==
  ASSUME SessionAssumption, NEW run \in Runs, NEW record \in Hands
  PROVE  ReplayHand(run, record) \in Runs
<1> DEFINE deal == Deal(run.number + 1, run.chips, run.dealer)
<1>1. /\ run.number \in Nat /\ run.chips \in Stacks /\ run.dealer \in Seats
      /\ record.after \in Stacks
  BY DEF Runs, Hands
<1>2. CASE ~run.matches \/ ~EnoughPlayers(run.chips)  BY <1>2 DEF ReplayHand
<1>3. CASE run.matches /\ EnoughPlayers(run.chips)
  <2>1. deal.dealer = DealerOf(run.chips, run.dealer)  BY DEF Deal
  <2>2. ReplayedButton(run.chips, record.after, deal.dealer) \in Seats
    BY <1>1, <1>3, <2>1, DealersAre DEF ReplayedButton, Stacks
  <2>3. run.number + 1 \in Nat  BY <1>1
  <2>4. (deal = record.deal) \in BOOLEAN  OBVIOUS
  <2>5. ReplayHand(run, record) =
          [number |-> run.number + 1, chips |-> record.after,
           dealer |-> ReplayedButton(run.chips, record.after, deal.dealer),
           matches |-> deal = record.deal]
    BY <1>3 DEF ReplayHand
  <2> HIDE DEF deal
  <2> QED  BY <1>1, <2>2, <2>3, <2>4, <2>5 DEF Runs
<1> QED  BY <1>2, <1>3

\* The run of a replay after i hands, if it went as the session did.
RunAfter(i) ==
  [number |-> i, chips |-> StacksAfter(i), dealer |-> ButtonAfter(i), matches |-> TRUE]

\* A step of the replay follows the session.
LEMMA ReplayFollows ==
  ASSUME SessionAssumption, records \in Seq(Hands), Chained, NEW i \in 1..Len(records)
  PROVE  ReplayHand(RunAfter(i - 1), records[i]) = RunAfter(i)
<1> DEFINE run == RunAfter(i - 1)
           deal == Deal(run.number + 1, run.chips, run.dealer)
<1>1. /\ run.matches = TRUE /\ run.number + 1 = i /\ run.chips = StacksAfter(i - 1)
      /\ run.dealer = ButtonAfter(i - 1)
  BY DEF RunAfter
<1>2. EnoughPlayers(run.chips) /\ records[i].deal = deal  BY <1>1 DEF Chained
<1>3. deal.chips = run.chips  BY DEF Deal
<1>4. i # 0 /\ StacksAfter(i) = records[i].after
      /\ ButtonAfter(i)
           = AdvanceDealer(PlayersWithChips(records[i].deal.chips), records[i].deal.dealer)
  BY DEF StacksAfter, ButtonAfter
<1>5. ReplayHand(run, records[i]) =
        [number |-> run.number + 1, chips |-> records[i].after,
         dealer |-> ReplayedButton(run.chips, records[i].after, deal.dealer),
         matches |-> deal = records[i].deal]
  BY <1>1, <1>2 DEF ReplayHand
<1>6. ReplayedButton(run.chips, records[i].after, deal.dealer) = ButtonAfter(i)
  BY <1>2, <1>3, <1>4 DEF ReplayedButton
<1>7. (deal = records[i].deal) = TRUE  BY <1>2
<1> HIDE DEF run, deal
<1>8. ReplayHand(run, records[i]) =
        [number |-> i, chips |-> StacksAfter(i), dealer |-> ButtonAfter(i),
         matches |-> TRUE]
  BY <1>1, <1>4, <1>5, <1>6, <1>7
<1> QED  BY <1>8 DEF RunAfter, run

\* The replay of the first hands deals them as the session did.
LEMMA ReplayIs ==
  ASSUME SessionAssumption, records \in Seq(Hands), Chained, NEW n \in 0..Len(records)
  PROVE  ReplayMatches(n) = TRUE
<1> DEFINE D == 1..n
           s == SubSeq(records, 1, n)
           V == Runs
           base == [number |-> 0, chips |-> [p \in SessionSeats |-> StartingChips],
                    dealer |-> LowestSeat(SessionSeats), matches |-> TRUE]
           pick == [S \in SUBSET D |-> Max(S)]
           step == [p \in D \X V |-> ReplayHand(p[2], records[p[1]])]
           Rec(h) == h = [S \in SUBSET D |->
                       IF S = {} THEN base ELSE ReplayHand(h[S \ {Max(S)}], s[Max(S)])]
           replayed == CHOOSE h : Rec(h)
<1>1. Len(records) \in Nat /\ n \in Nat /\ n <= Len(records)
      /\ \A i \in D : records[i] \in Hands /\ i \in 1..Len(records)
  OBVIOUS
<1>2. DOMAIN s = D /\ \A i \in D : s[i] = records[i]
  <2>1. 1 \in Int /\ n \in Int /\ n - 1 + 1 = n  BY <1>1
  <2>2. \A i \in 1..n : records[i] \in Hands  BY <1>1
  <2>3. /\ s \in Seq(Hands) /\ Len(s) = IF 1 <= n THEN n - 1 + 1 ELSE 0
        /\ \A i \in 1..(n - 1 + 1) : s[i] = records[1 + i - 1]
    BY <2>1, <2>2, SubSeqProperties
  <2>4. Len(s) = n  BY <2>3, <1>1
  <2>5. \A i \in 1..n : 1 + i - 1 = i  BY <1>1
  <2> QED  BY <2>1, <2>3, <2>4, <2>5
<1>3. base \in V
  <2>1. LowestSeat(SessionSeats) \in Seats  BY LowestSeatIs DEF SessionAssumption
  <2>2. Start \in Stacks  BY DEF Start, Stacks, SessionAssumption
  <2> QED  BY <2>1, <2>2 DEF Runs, Start
<1>4. step \in [D \X V -> V]
  <2> SUFFICES ASSUME NEW i \in D, NEW run \in V PROVE ReplayHand(run, records[i]) \in V
    OBVIOUS
  <2> QED  BY <1>1, ReplayStays
<1>5. IsFiniteSet(D)  BY <1>1, FS_Interval
<1>6. \A S \in SUBSET D : S # {} => Max(S) \in S /\ \A i \in S : i <= Max(S)
  <2> SUFFICES ASSUME NEW S \in SUBSET D, S # {}
               PROVE  Max(S) \in S /\ \A i \in S : i <= Max(S)
    OBVIOUS
  <2>0. S \in SUBSET Nat  BY <1>1
  <2> HIDE DEF D
  <2>1. IsFiniteSet(S)  BY <1>5, FS_Subset
  <2>2. Max(S) \in S /\ \A i \in S : Max(S) >= i  BY <2>0, <2>1, MaxIs
  <2> QED  BY <2>0, <2>2
<1>7. \A S \in SUBSET D : S # {} => pick[S] \in S  BY <1>6
<1>8. \A i \in D, run \in V : step[<<i, run>>] = ReplayHand(run, records[i])  OBVIOUS
<1> HIDE DEF V, base, pick, step, s
<1>9. PICK h \in [SUBSET D -> V] : FoldEquation(h, D, pick, base, step)
  <2> HIDE DEF D
  <2> QED  BY <1>3, <1>4, <1>5, <1>7, FoldExists
<1>10. Rec(h)
  <2>1. h[{}] = base  BY <1>9 DEF FoldEquation
  <2>2. ASSUME NEW S \in SUBSET D, S # {}
        PROVE  h[S] = ReplayHand(h[S \ {Max(S)}], s[Max(S)])
    <3>1. pick[S] = Max(S) /\ Max(S) \in D /\ s[Max(S)] = records[Max(S)]
      BY <2>2, <1>2, <1>6 DEF pick
    <3>2. h[S \ {Max(S)}] \in V  BY <1>9
    <3>3. h[S] = step[<<Max(S), h[S \ {Max(S)}]>>]
      BY <1>9, <2>2, <3>1 DEF FoldEquation
    <3> QED  BY <1>8, <3>1, <3>2, <3>3
  <2>3. h = [S \in SUBSET D |-> h[S]]  BY <1>9
  <2> QED  BY <2>1, <2>2, <2>3
<1>11. Rec(replayed)  BY <1>10
<1>12. ReplayMatches(n) = replayed[D].matches
  BY <1>2 DEF ReplayMatches, FoldLeft, MapThenFoldSet, base, s
<1> HIDE DEF replayed
<1>13. /\ replayed[{}] = base
       /\ \A S \in SUBSET D : S # {} =>
            replayed[S] = ReplayHand(replayed[S \ {Max(S)}], s[Max(S)])
  BY <1>11
<1> HIDE DEF Rec
<1> DEFINE P == {m \in Nat : m <= n => replayed[1..m] = RunAfter(m)}
<1>14. 0 \in P
  <2>1. 1..0 = {}  OBVIOUS
  <2>2. base = RunAfter(0)  BY DEF base, RunAfter, StacksAfter, ButtonAfter, Start
  <2> QED  BY <1>13, <2>1, <2>2
<1>15. ASSUME NEW m \in Nat, m \in P PROVE m + 1 \in P
  <2> SUFFICES ASSUME m + 1 <= n PROVE replayed[1..(m + 1)] = RunAfter(m + 1)
    OBVIOUS
  <2>1. 1..(m + 1) \in SUBSET D /\ m + 1 \in 1..(m + 1) /\ 1..(m + 1) # {} /\ m + 1 \in D
    <3>1. \A i \in 1..(m + 1) : i \in D  BY <1>1
    <3>2. m + 1 \in 1..(m + 1)  OBVIOUS
    <3> QED  BY <3>1, <3>2
  <2>2. Max(1..(m + 1)) = m + 1
    <3>1. \A i \in 1..(m + 1) : i <= m + 1  OBVIOUS
    <3>2. Max(1..(m + 1)) \in 1..(m + 1) /\ m + 1 <= Max(1..(m + 1))  BY <1>6, <2>1
    <3> QED  BY <3>1, <3>2
  <2>3. (1..(m + 1)) \ {m + 1} = 1..m  OBVIOUS
  <2>4. replayed[1..m] = RunAfter(m)  BY <1>1, <1>15
  <2>5. replayed[1..(m + 1)] = ReplayHand(RunAfter(m), records[m + 1])
    BY <1>2, <1>13, <2>1, <2>2, <2>3, <2>4
  <2>6. m + 1 \in 1..Len(records) /\ (m + 1) - 1 = m  BY <1>1, <2>1
  <2> QED  BY <2>5, <2>6, ReplayFollows
<1> HIDE DEF P, D
<1>16. n \in P  BY <1>1, <1>14, <1>15, NumberInduction
<1> QED  BY <1>1, <1>12, <1>16 DEF P, D, RunAfter

-----------------------------------------------------------------------------
\* A session all of whose hands were played passes.
LEMMA PlayedPasses ==
  ASSUME SessionAssumption, SessionInv, AllPlayed
  PROVE  NoLimitPasses /\ TwentyHandsPass /\ SixMaxPasses /\ IntegrationPasses
<1>1. records \in Seq(Hands) /\ Chained /\ Len(records) \in Nat  BY DEF SessionInv
<1>2. ChipsConserved
  <2>1. \A i \in 1..Len(records) : records[i].deal.chips = StacksAfter(i - 1)
    <3> SUFFICES ASSUME NEW i \in 1..Len(records)
                 PROVE  records[i].deal.chips = StacksAfter(i - 1)
      OBVIOUS
    <3>1. records[i].deal = Deal(i, StacksAfter(i - 1), ButtonAfter(i - 1))
      BY DEF SessionInv, Chained
    <3> QED  BY <3>1 DEF Deal
  <2> QED  BY <2>1 DEF SessionInv, Chained, ChipsConserved
<1>3. FirstHands \in 0..Len(records)
  <2> DEFINE K == {ReplayedHands, Len(records)}
  <2>1. \E k \in K : \A j \in K : k <= j
    BY <1>1 DEF SessionAssumption
  <2>2. FirstHands \in K /\ \A j \in K : FirstHands <= j
    BY <2>1 DEF FirstHands, LowestSeat
  <2> QED  BY <1>1, <2>2 DEF SessionAssumption
<1>4. ReplayMatches(FirstHands)  BY <1>1, <1>3, ReplayIs
<1>5. ReplayMatches(Len(records))
  <2>1. Len(records) \in 0..Len(records)  BY <1>1
  <2> QED  BY <1>1, <2>1, ReplayIs
<1> QED
  BY <1>2, <1>4, <1>5
  DEF NoLimitPasses, TwentyHandsPass, SixMaxPasses, IntegrationPasses

\* A hand that is played goes on from what the hands before it left.
LEMMA PlayKeeps ==
  ASSUME SessionAssumption, SessionInv, PlayHand
  PROVE  SessionInv'
<1>0. PICK n : n = Len(records)  OBVIOUS
<1>1. /\ records \in Seq(Hands) /\ n \in Nat /\ n = Len(records) /\ pile \in Stacks /\ button \in Seats
      /\ EnoughPlayers(pile) /\ pile = StacksAfter(n) /\ button = ButtonAfter(n)
  BY <1>0 DEF SessionInv, PlayHand
<1>2. PICK deal : deal = Deal(n + 1, pile, button)  OBVIOUS
<1>3. PICK after \in Results(pile) :
        /\ pile' = after /\ button' = AdvanceDealer(PlayersWithChips(pile), deal.dealer)
        /\ records' = Append(records, [deal |-> deal, after |-> after])
  BY <1>0, <1>2 DEF PlayHand
<1>4. PICK hand : hand = [deal |-> deal, after |-> after]  OBVIOUS
<1>5. after \in Stacks /\ AllChips(after) = AllChips(pile)
  <2>1. AllChips(pile) \in Int  BY <1>1, AllChipsIs DEF Stacks
  <2> QED  BY <2>1 DEF Results, Stacks
<1>6. deal \in Deals /\ button' \in Seats
  <2>1. deal = [number |-> n + 1, chips |-> pile, dealer |-> DealerOf(pile, button)]
    BY <1>2 DEF Deal
  <2>2. DealerOf(pile, button) \in Seats
        /\ AdvanceDealer(PlayersWithChips(pile), DealerOf(pile, button)) \in Seats
    BY <1>1, DealersAre DEF Stacks
  <2> QED  BY <1>1, <1>3, <2>1, <2>2 DEF Deals
<1>7. hand \in Hands  BY <1>4, <1>5, <1>6 DEF Hands
<1>8. /\ records' \in Seq(Hands) /\ Len(records') = n + 1 /\ records'[n + 1] = hand
      /\ \A i \in 1..n : records'[i] = records[i]
  BY <1>1, <1>3, <1>4, <1>7, AppendProperties
<1>9. \A i \in 0..n : StacksAfter(i)' = StacksAfter(i) /\ ButtonAfter(i)' = ButtonAfter(i)
  <2> SUFFICES ASSUME NEW i \in 0..n
               PROVE  StacksAfter(i)' = StacksAfter(i) /\ ButtonAfter(i)' = ButtonAfter(i)
    OBVIOUS
  <2>1. i = 0 \/ (i \in 1..n /\ records'[i] = records[i])  BY <1>1, <1>8
  <2> QED  BY <2>1 DEF StacksAfter, ButtonAfter
<1>10. /\ StacksAfter(n + 1)' = after
       /\ ButtonAfter(n + 1)' = AdvanceDealer(PlayersWithChips(pile), deal.dealer)
  <2>1. n + 1 # 0 /\ hand.after = after /\ hand.deal = deal /\ deal.chips = pile
    BY <1>1, <1>2, <1>4 DEF Deal
  <2>2. records'[n + 1].after = after /\ records'[n + 1].deal = deal  BY <2>1, <1>8
  <2>3. StacksAfter(n + 1)' = records'[n + 1].after
        /\ ButtonAfter(n + 1)' = AdvanceDealer(PlayersWithChips(records'[n + 1].deal.chips),
                                                records'[n + 1].deal.dealer)
    BY <2>1 DEF StacksAfter, ButtonAfter
  <2> QED  BY <2>1, <2>2, <2>3
<1>11. Chained'
  <2> SUFFICES ASSUME NEW i \in 1..(n + 1)
               PROVE  /\ EnoughPlayers(StacksAfter(i - 1)')
                      /\ records'[i].deal
                           = Deal(i, StacksAfter(i - 1)', ButtonAfter(i - 1)')
                      /\ AllChips(records'[i].after) = AllChips(StacksAfter(i - 1)')
    BY <1>8 DEF Chained
  <2>1. CASE i \in 1..n
    <3>1. i - 1 \in 0..n  BY <1>1, <2>1
    <3>2. /\ EnoughPlayers(StacksAfter(i - 1))
          /\ records[i].deal = Deal(i, StacksAfter(i - 1), ButtonAfter(i - 1))
          /\ AllChips(records[i].after) = AllChips(StacksAfter(i - 1))
      BY <2>1, <1>1 DEF SessionInv, Chained
    <3> QED  BY <2>1, <3>1, <3>2, <1>8, <1>9
  <2>2. CASE i = n + 1
    <3>1. i - 1 = n /\ n \in 0..n  BY <1>1, <2>2
    <3>2. records'[i] = hand /\ hand.deal = deal /\ hand.after = after
      BY <1>4, <1>8, <2>2
    <3> QED  BY <2>2, <3>1, <3>2, <1>1, <1>2, <1>5, <1>9
  <2> QED  BY <1>1, <2>1, <2>2
<1>12. UNCHANGED <<script, verdict>> /\ verdict = "playing"  BY DEF PlayHand
<1>13. script' \in Scripts /\ verdict' = "playing"  BY <1>12 DEF SessionInv
<1>14. pile' \in Stacks /\ AllChips(pile') = Cardinality(SessionSeats) * StartingChips
  BY <1>3, <1>5 DEF SessionInv
<1>15. (pile = StacksAfter(Len(records)) /\ button = ButtonAfter(Len(records)))'
  <2>1. StacksAfter(Len(records))' = StacksAfter(n + 1)'
        /\ ButtonAfter(Len(records))' = ButtonAfter(n + 1)'
    BY <1>8 DEF StacksAfter, ButtonAfter
  <2> QED  BY <1>3, <1>10, <2>1
<1> QED  BY <1>6, <1>8, <1>11, <1>13, <1>14, <1>15 DEF SessionInv

\* The end of a script does not call a session bad whose hands were all played.
LEMMA VerifyKeeps ==
  ASSUME SessionAssumption, SessionInv, NEW passes \in BOOLEAN, AllPlayed => passes,
         Verify(passes)
  PROVE  SessionInv'
<1>1. verdict' = "pass" \/ (verdict' = "fail" /\ ~AllPlayed)  BY DEF Verify
<1>2. UNCHANGED <<script, pile, button, records>>  BY DEF Verify
<1>3. Len(records) \in Nat  BY DEF SessionInv
<1>4. verdict' \in {"playing", "aborted", "pass", "fail"}
      /\ (verdict' = "fail" => Len(records) < NumHands)
  BY <1>1, <1>3 DEF AllPlayed, SessionAssumption
<1>5. Chained' /\ (\A i : StacksAfter(i)' = StacksAfter(i) /\ ButtonAfter(i)' = ButtonAfter(i))
  BY <1>2 DEF SessionInv, Chained, StacksAfter, ButtonAfter
<1> QED  BY <1>2, <1>4, <1>5 DEF SessionInv

\* Every step of a session keeps the invariant.
LEMMA SessionStep ==
  SessionAssumption /\ SessionInv /\ [SessionNext]_sessionVars => SessionInv'
<1> SUFFICES ASSUME SessionAssumption, SessionInv, [SessionNext]_sessionVars
             PROVE  SessionInv'
  OBVIOUS
<1>1. CASE PlayHand  BY <1>1, PlayKeeps
<1>2. CASE Abort
  <2>1. UNCHANGED <<script, pile, button, records>> /\ verdict' = "aborted"
    BY <1>2 DEF Abort
  <2>2. Chained' /\ (\A i : StacksAfter(i)' = StacksAfter(i) /\ ButtonAfter(i)' = ButtonAfter(i))
    BY <2>1 DEF SessionInv, Chained, StacksAfter, ButtonAfter
  <2> QED  BY <2>1, <2>2 DEF SessionInv
<1>3. ASSUME NEW passes \in {NoLimitPasses, TwentyHandsPass, SixMaxPasses, IntegrationPasses},
             Verify(passes)
      PROVE  SessionInv'
  <2>1. passes \in BOOLEAN
    BY DEF NoLimitPasses, TwentyHandsPass, SixMaxPasses, IntegrationPasses
  <2>2. AllPlayed => passes  BY PlayedPasses
  <2> QED  BY <2>1, <2>2, <1>3, VerifyKeeps
<1>4. CASE UNCHANGED sessionVars
  BY <1>4 DEF SessionInv, sessionVars, Chained, StacksAfter, ButtonAfter
<1> QED
  BY <1>1, <1>2, <1>3, <1>4
  DEF SessionNext, NoLimitDemo, TwentyHands, SixMaxDemo, IntegrationTest

\* The invariant holds before the first hand.
LEMMA SessionStart == SessionAssumption /\ SessionInit => SessionInv
<1> SUFFICES ASSUME SessionAssumption, SessionInit PROVE SessionInv
  OBVIOUS
<1>1. LowestSeat(SessionSeats) \in Seats  BY LowestSeatIs DEF SessionAssumption
<1>2. Start \in Stacks  BY DEF Start, Stacks, SessionAssumption
<1>3. pile = Start /\ records = <<>> /\ Len(records) = 0 /\ records \in Seq(Hands)
  BY DEF SessionInit, Start
<1>4. Chained  BY <1>3 DEF Chained
<1>5. AllChips(pile) = Cardinality(SessionSeats) * StartingChips
  BY <1>3, StartIs DEF Start
<1> QED
  BY <1>1, <1>2, <1>3, <1>4, <1>5
  DEF SessionInit, SessionInv, StacksAfter, ButtonAfter, Scripts

\* A session of a script: the stacks and the button every hand was dealt from are those
\* the hand before it left.
THEOREM SessionsChain == SessionSpec => []SessionInv
BY SessionStart, SessionStep, SessionAssumption, PTL DEF SessionSpec

\* Scripts: a session whose hands were all played passes its checks, and every hand was
\* dealt with a dealer who is in it.
THEOREM SessionsVerify == SessionSpec => []SessionVerifies
<1>1. SessionAssumption /\ SessionInv => SessionVerifies
  <2> SUFFICES ASSUME SessionAssumption, SessionInv PROVE SessionVerifies
    OBVIOUS
  <2>1. ASSUME NEW i \in 1..Len(records)
        PROVE  records[i].deal.dealer \in PlayersWithChips(records[i].deal.chips)
    <3>1. records[i].deal = Deal(i, StacksAfter(i - 1), ButtonAfter(i - 1))
          /\ EnoughPlayers(StacksAfter(i - 1))
      BY DEF SessionInv, Chained
    <3>2. /\ records[i].deal.chips = StacksAfter(i - 1)
          /\ records[i].deal.dealer = DealerOf(StacksAfter(i - 1), ButtonAfter(i - 1))
      BY <3>1 DEF Deal
    <3>3. StacksAfter(i - 1) \in Stacks /\ ButtonAfter(i - 1) \in Seats
      <4>1. CASE i = 1
        <5>1. LowestSeat(SessionSeats) \in Seats  BY LowestSeatIs DEF SessionAssumption
        <5>2. Start \in Stacks  BY DEF Start, Stacks, SessionAssumption
        <5> QED  BY <4>1, <5>1, <5>2 DEF StacksAfter, ButtonAfter
      <4>2. CASE i # 1
        <5>0. Len(records) \in Nat /\ records \in Seq(Hands)  BY DEF SessionInv
        <5>1. PICK j : j = i - 1  OBVIOUS
        <5>2. j \in 1..Len(records) /\ j # 0 /\ j - 1 \in 0..Len(records)
          BY <4>2, <5>0, <5>1
        <5>3. records[j] \in Hands  BY <5>0, <5>2
        <5>4. /\ records[j].after \in Stacks /\ records[j].deal.dealer \in Seats
              /\ records[j].deal.chips \in Stacks
          BY <5>3 DEF Hands, Deals
        <5>5. EnoughPlayers(records[j].deal.chips)
          <6>1. /\ records[j].deal = Deal(j, StacksAfter(j - 1), ButtonAfter(j - 1))
                /\ EnoughPlayers(StacksAfter(j - 1))
            BY <5>2 DEF SessionInv, Chained
          <6> QED  BY <6>1 DEF Deal
        <5>6. AdvanceDealer(PlayersWithChips(records[j].deal.chips), records[j].deal.dealer)
                \in Seats
          <6> DEFINE S == PlayersWithChips(records[j].deal.chips)
          <6>1. S \in SUBSET Seats  BY DEF PlayersWithChips, SessionAssumption
          <6>2. S # {}
            <7> SUFFICES ASSUME S = {} PROVE FALSE  OBVIOUS
            <7>1. Cardinality(S) = 0  BY FS_EmptySet
            <7>2. Cardinality(S) >= 2  BY <5>5 DEF EnoughPlayers
            <7> HIDE DEF S
            <7> QED  BY <7>1, <7>2
          <6>3. LowestSeat(S) \in Seats  BY <6>1, <6>2, LowestSeatIs
          <6>4. FirstClockwise(records[j].deal.dealer, S) \in Seats
            BY <6>1, <6>2, <5>4, FirstClockwiseIn
          <6> QED  BY <6>3, <6>4 DEF AdvanceDealer
        <5> QED  BY <5>1, <5>2, <5>4, <5>6 DEF StacksAfter, ButtonAfter
      <4> QED  BY <4>1, <4>2
    <3> QED  BY <3>1, <3>2, <3>3, DealersAre DEF Stacks
  <2> QED  BY <2>1 DEF SessionInv, SessionVerifies
<1> QED  BY <1>1, SessionsChain, SessionAssumption, PTL

-----------------------------------------------------------------------------
(***************************************************************************)
(* The collusion detectors (Detectors).                                    *)
(***************************************************************************)
\* A sum of squares and the square of a sum.
Squares(f) == [x \in DOMAIN f |-> f[x] * f[x]]

\* One more number leaves n times the sum of the squares no less than the square of the
\* sum, and their difference covers how far the number is from the mean.
LEMMA SpreadGrows ==
  ASSUME NEW k \in Nat, NEW s \in Int, NEW q \in Int, NEW x \in Int,
         k * q - s * s >= 0
  PROVE  k * ((k + 1) * (q + x * x) - (s + x) * (s + x))
           >= ((k + 1) * x - (s + x)) * ((k + 1) * x - (s + x))
<1> DEFINE d == k * q - s * s
           v == (k + 1) * (q + x * x) - (s + x) * (s + x)
           z == (k + 1) * x - (s + x)
<1>1. z = k * x - s  OBVIOUS
<1>2. k * v = (k + 1) * d + (k * x - s) * (k * x - s)  OBVIOUS
<1>3. (k + 1) * d >= 0
  <2>1. d \in Int /\ d >= 0  OBVIOUS
  <2> HIDE DEF d
  <2> QED  BY <2>1
<1>4. PICK a \in Int, b \in Int, c \in Int :
        a = k * v /\ b = (k + 1) * d /\ c = (k * x - s) * (k * x - s)
  OBVIOUS
<1> HIDE DEF d, v, z
<1>5. a = b + c /\ b >= 0  BY <1>2, <1>3, <1>4
<1>6. a >= c  BY <1>5
<1>7. z * z = c  BY <1>1, <1>4
<1> QED  BY <1>4, <1>6, <1>7 DEF v, z

\* One more number keeps the square of the sum within the sum of the squares.
LEMMA CauchyStep ==
  ASSUME NEW k \in Nat, NEW s \in Int, NEW q \in Int, NEW x \in Int,
         k * q - s * s >= 0, \A p \in Int : k * (p * p) - 2 * (p * s) + q >= 0
  PROVE  /\ (k + 1) * (q + x * x) - (s + x) * (s + x) >= 0
         /\ \A p \in Int : (k + 1) * (p * p) - 2 * (p * (s + x)) + (q + x * x) >= 0
<1>0. \A z \in Int : z * z >= 0  OBVIOUS
<1>1. (k + 1) * (q + x * x) - (s + x) * (s + x)
        = (k * q - s * s) + (k * (x * x) - 2 * (x * s) + q)
  OBVIOUS
<1>2. k * (x * x) - 2 * (x * s) + q >= 0  OBVIOUS
<1>3. ASSUME NEW p \in Int
      PROVE  (k + 1) * (p * p) - 2 * (p * (s + x)) + (q + x * x) >= 0
  <2>1. (k + 1) * (p * p) - 2 * (p * (s + x)) + (q + x * x)
          = (k * (p * p) - 2 * (p * s) + q) + (p - x) * (p - x)
    OBVIOUS
  <2>2. k * (p * p) - 2 * (p * s) + q >= 0 /\ (p - x) * (p - x) >= 0  BY <1>0
  <2> QED  BY <2>1, <2>2
<1> QED  BY <1>1, <1>2, <1>3

\* Cauchy's inequality: n times the sum of n squares is no less than the square of the
\* sum.
LEMMA Cauchy ==
  ASSUME NEW S, IsFiniteSet(S), NEW f \in [S -> Int]
  PROVE  \A T \in SUBSET S :
           /\ Cardinality(T) * SumOf(Squares(f), T) - SumOf(f, T) * SumOf(f, T) >= 0
           /\ SumOf(f, T) \in Int /\ SumOf(Squares(f), T) \in Int
<1> DEFINE g == Squares(f)
           Holds(k, s, q) == /\ k * q - s * s >= 0
                             /\ \A p \in Int : k * (p * p) - 2 * (p * s) + q >= 0
           P == {T \in SUBSET S : Holds(Cardinality(T), SumOf(f, T), SumOf(g, T))}
<1>1. \A x \in S : f[x] \in Int /\ g[x] \in Int /\ g[x] = f[x] * f[x]
  BY DEF Squares
<1> HIDE DEF g
<1>2. /\ SumOf(f, {}) = 0
      /\ \A T \in SUBSET S : SumOf(f, T) \in Int
      /\ \A T \in SUBSET S : \A x \in S \ T : SumOf(f, T \cup {x}) = SumOf(f, T) + f[x]
  BY <1>1, SumFacts
<1>3. /\ SumOf(g, {}) = 0
      /\ \A T \in SUBSET S : SumOf(g, T) \in Int
      /\ \A T \in SUBSET S : \A x \in S \ T : SumOf(g, T \cup {x}) = SumOf(g, T) + g[x]
  BY <1>1, SumFacts
<1>4. {} \in P
  <2>1. Cardinality({}) = 0  BY FS_EmptySet
  <2>2. Holds(0, 0, 0)  OBVIOUS
  <2> HIDE DEF Holds
  <2> QED  BY <1>2, <1>3, <2>1, <2>2
<1>5. ASSUME NEW T \in SUBSET S, NEW x \in S, IsFiniteSet(T), T \in P, x \notin T
      PROVE  T \cup {x} \in P
  <2>1. Cardinality(T \cup {x}) = Cardinality(T) + 1 /\ Cardinality(T) \in Nat
    BY <1>5, FS_AddElement, FS_CardinalityType
  <2>2. PICK k \in Nat, s \in Int, q \in Int, y \in Int :
          k = Cardinality(T) /\ s = SumOf(f, T) /\ q = SumOf(g, T) /\ y = f[x]
    BY <1>1, <1>2, <1>3, <2>1
  <2>3. Holds(k, s, q)
    <3> HIDE DEF Holds
    <3> QED  BY <1>5, <2>2
  <2>4. Holds(k + 1, s + y, q + y * y)  BY <2>3, CauchyStep
  <2>5. SumOf(f, T \cup {x}) = s + y /\ SumOf(g, T \cup {x}) = q + y * y
    BY <1>1, <1>2, <1>3, <1>5, <2>2
  <2> HIDE DEF Holds
  <2> QED  BY <2>1, <2>2, <2>4, <2>5
<1> HIDE DEF P
<1>6. \A T \in SUBSET S : T \in P  BY <1>4, <1>5, FS_Subset, SetInduction
<1>7. \A T \in SUBSET S : Holds(Cardinality(T), SumOf(f, T), SumOf(g, T))
  BY <1>6 DEF P
<1>8. \A T \in SUBSET S : SumOf(f, T) \in Int /\ SumOf(g, T) \in Int  BY <1>2, <1>3
<1> QED  BY <1>7, <1>8 DEF g

\* Samuelson's inequality: no number of n is further from the mean than the root of n - 1
\* standard deviations.
LEMMA SpreadIsBounded ==
  ASSUME NEW S, IsFiniteSet(S), NEW f \in [S -> Int], NEW a \in S
  PROVE  LET n == Cardinality(S)
             sum == SumOf(f, S)
             variance == n * SumOf(Squares(f), S) - sum * sum
         IN  (n - 1) * variance >= (n * f[a] - sum) * (n * f[a] - sum)
<1> DEFINE T == S \ {a}
           g == Squares(f)
<1>1. T \in SUBSET S /\ IsFiniteSet(T) /\ a \in S \ T /\ T \cup {a} = S
  BY FS_Subset
<1>2. Cardinality(S) = Cardinality(T) + 1 /\ Cardinality(T) \in Nat
  <2>1. Cardinality(T) = Cardinality(S) - 1
    <3>1. Cardinality(S \ {a}) = IF a \in S THEN Cardinality(S) - 1 ELSE Cardinality(S)
      BY FS_RemoveElement
    <3> QED  BY <3>1
  <2>2. Cardinality(T) \in Nat /\ Cardinality(S) \in Nat  BY <1>1, FS_CardinalityType
  <2> QED  BY <2>1, <2>2
<1>3. \A x \in S : f[x] \in Int /\ g[x] \in Int /\ g[x] = f[x] * f[x]
  <2>1. DOMAIN f = S /\ \A x \in S : f[x] \in Int  OBVIOUS
  <2> QED  BY <2>1 DEF Squares
<1>4. /\ Cardinality(T) * SumOf(g, T) - SumOf(f, T) * SumOf(f, T) >= 0
      /\ SumOf(f, T) \in Int /\ SumOf(g, T) \in Int
  BY <1>1, Cauchy
<1> HIDE DEF g, T
<1>5. /\ SumOf(f, T \cup {a}) = SumOf(f, T) + f[a]
      /\ SumOf(g, T \cup {a}) = SumOf(g, T) + g[a]
  BY <1>1, <1>3, SumFacts
<1>6. PICK k \in Nat, s \in Int, q \in Int, x \in Int :
        k = Cardinality(T) /\ s = SumOf(f, T) /\ q = SumOf(g, T) /\ x = f[a]
  BY <1>2, <1>3, <1>4
<1>7. k * q - s * s >= 0  BY <1>4, <1>6
<1>8. k * ((k + 1) * (q + x * x) - (s + x) * (s + x))
        >= ((k + 1) * x - (s + x)) * ((k + 1) * x - (s + x))
  BY <1>7, SpreadGrows
<1>9. Cardinality(S) = k + 1 /\ Cardinality(S) - 1 = k  BY <1>2, <1>6
<1>10. SumOf(f, S) = s + x  BY <1>1, <1>5, <1>6
<1>11. SumOf(g, S) = q + x * x  BY <1>1, <1>3, <1>5, <1>6
<1> QED  BY <1>6, <1>8, <1>9, <1>10, <1>11 DEF g

-----------------------------------------------------------------------------
\* A set of positive numbers multiplies to at least each of them.
LEMMA ProductIs ==
  ASSUME NEW S \in SUBSET (Nat \ {0}), IsFiniteSet(S)
  PROVE  /\ ProductSet(S) \in Nat \ {0}
         /\ \A x \in S : ProductSet(S) >= x
<1> DEFINE V == Nat \ {0}
           base == 1
           pick == [s \in SUBSET S |-> CHOOSE x \in s : TRUE]
           step == [p \in S \X V |-> p[1] * p[2]]
           Rec(h) == h = [s \in SUBSET S |->
                       IF s = {} THEN 1
                       ELSE (CHOOSE x \in s : TRUE) * h[s \ {CHOOSE x \in s : TRUE}]]
           product == CHOOSE h : Rec(h)
<1>0. \A x, y \in V : x * y \in V /\ x * y >= x /\ x * y >= y
  <2> SUFFICES ASSUME NEW x \in V, NEW y \in V
               PROVE  x * y \in V /\ x * y >= x /\ x * y >= y
    OBVIOUS
  <2>1. (x - 1) * y >= 0 /\ (x - 1) * y = x * y - y  OBVIOUS
  <2>2. x * (y - 1) >= 0 /\ x * (y - 1) = x * y - x  OBVIOUS
  <2>3. x * y \in Int  OBVIOUS
  <2> QED  BY <2>1, <2>2, <2>3
<1>1. base \in V /\ step \in [S \X V -> V]
  <2>1. \A p \in S \X V : p[1] * p[2] \in V
    <3> SUFFICES ASSUME NEW x \in S, NEW v \in V PROVE x * v \in V  OBVIOUS
    <3> QED  BY <1>0
  <2>2. base \in V  OBVIOUS
  <2> HIDE DEF V
  <2> QED  BY <2>1, <2>2
<1>2. \A s \in SUBSET S : s # {} =>
        pick[s] = (CHOOSE x \in s : TRUE) /\ pick[s] \in s
  OBVIOUS
<1>3. \A x \in S, v \in V : step[<<x, v>>] = x * v  OBVIOUS
<1> HIDE DEF V, base, pick, step
<1>4. PICK h \in [SUBSET S -> V] : FoldEquation(h, S, pick, base, step)
  BY <1>1, <1>2, FoldExists
<1>5. Rec(h)
  <2>1. h[{}] = 1  BY <1>4 DEF FoldEquation, base
  <2>2. ASSUME NEW s \in SUBSET S, s # {}
        PROVE  h[s] = (CHOOSE x \in s : TRUE) * h[s \ {CHOOSE x \in s : TRUE}]
    <3>1. h[s] = step[<<pick[s], h[s \ {pick[s]}]>>]  BY <1>4, <2>2 DEF FoldEquation
    <3>2. h[s \ {pick[s]}] \in V /\ pick[s] \in S  BY <1>2, <1>4, <2>2
    <3> QED  BY <1>2, <1>3, <2>2, <3>1, <3>2
  <2>3. h = [s \in SUBSET S |-> h[s]]  BY <1>4
  <2> QED  BY <2>1, <2>2, <2>3
<1>6. Rec(product)
  <2>1. \E k : Rec(k)  BY <1>5
  <2> HIDE DEF Rec
  <2> QED  BY <2>1
<1>7. ProductSet(S) = product[S]
  BY DEF ProductSet, FoldSet, MapThenFoldSet
<1> HIDE DEF product
<1>8. /\ product[{}] = 1
      /\ \A s \in SUBSET S : s # {} =>
           product[s] = pick[s] * product[s \ {pick[s]}]
  BY <1>2, <1>6
<1> HIDE DEF Rec
<1> DEFINE Good(s) == product[s] \in V /\ \A x \in s : product[s] >= x
           D == {s \in SUBSET S : ~Good(s)}
<1>9. D = {}
  <2> SUFFICES ASSUME D # {} PROVE FALSE  OBVIOUS
  <2>1. D \in SUBSET FiniteSubsetsOf(S)  BY FS_Subset DEF FiniteSubsetsOf
  <2>2. \A A : A \in D <=> A \in SUBSET S /\ ~Good(A)  OBVIOUS
  <2> HIDE DEF D
  <2>3. PICK A \in D : \A B \in D : B \subseteq A => B = A  BY <2>1, LeastSet
  <2>4. A \in SUBSET S /\ ~Good(A)  BY <2>2
  <2>5. A # {}
    <3>1. Good({})  BY <1>8 DEF V
    <3> QED  BY <3>1, <2>4
  <2>6. PICK p, B : p \in A /\ p = pick[A] /\ B = A \ {p}  BY <1>2, <2>4, <2>5
  <2>7. B \in SUBSET S /\ B # A /\ B \subseteq A /\ p \in V  BY <2>4, <2>6 DEF V
  <2>8. Good(B)
    <3> HIDE DEF Good
    <3> QED  BY <2>2, <2>3, <2>7
  <2>9. product[A] = p * product[B]  BY <1>8, <2>4, <2>5, <2>6
  <2>10. product[A] \in V /\ product[A] >= p /\ product[A] >= product[B]
    BY <1>0, <2>7, <2>8, <2>9
  <2>11. ASSUME NEW x \in A PROVE product[A] >= x
    <3>1. CASE x = p  BY <3>1, <2>10
    <3>2. CASE x \in B
      <4>1. product[B] >= x /\ x \in Nat /\ product[A] \in Nat /\ product[B] \in Nat
        BY <2>4, <2>8, <2>10, <3>2 DEF V
      <4> QED  BY <4>1, <2>10
    <3> QED  BY <3>1, <3>2, <2>6
  <2> QED  BY <2>4, <2>10, <2>11
<1>10. S \in SUBSET S /\ S \notin D  BY <1>9
<1>11. Good(S)  BY <1>10
<1> QED  BY <1>7, <1>11 DEF V

-----------------------------------------------------------------------------
\* The agents, and what is counted of them.
DetectorTypes ==
  /\ agentHands \in [Watched \cup Crowd -> Nat]
  /\ agentWins \in [Watched \cup Crowd -> Nat]

\* The shares as a function.
Shares == [b \in Measured |-> Share(b)]

\* A number divided by one that is no greater.
LEMMA QuotientIs ==
  ASSUME NEW m \in Nat, NEW h \in Nat, h > 0, m >= h
  PROVE  m \div h \in Nat \ {0}
<1>1. m \div h \in Int /\ m \div h >= 0  OBVIOUS
<1>2. m \div h # 0  BY SMTT(30)
<1> QED  BY <1>1, <1>2

\* The shares are whole numbers, and so are their sums.
LEMMA SharesAre ==
  ASSUME DetectorAssumption, DetectorTypes
  PROVE  /\ IsFiniteSet(Measured) /\ Measured \subseteq DOMAIN agentHands
         /\ Shares \in [Measured -> Nat]
         /\ \A b \in Measured : agentWins[b] > 0 => Share(b) > 0
         /\ \A b \in Measured : agentWins[b] = 0 => Share(b) = 0
<1> DEFINE H == {agentHands[b] : b \in Measured}
           f == [b \in Measured |-> agentHands[b]]
<1>1. Measured \subseteq Watched \cup Crowd /\ IsFiniteSet(Measured)
  BY FS_Subset DEF Measured, DetectorAssumption, DetectorTypes
<1>2. \A b \in Measured : agentHands[b] \in Nat \ {0} /\ agentWins[b] \in Nat
  BY DEF Measured, DetectorAssumption, DetectorTypes
<1>3. IsFiniteSet(H)
  <2>1. f \in Surjection(Measured, H)  BY DEF Surjection
  <2> HIDE DEF H, f
  <2> QED  BY <2>1, <1>1, FS_Surjection
<1>4. ProductSet(H) \in Nat \ {0} /\ \A x \in H : ProductSet(H) >= x
  <2>1. H \in SUBSET (Nat \ {0})  BY <1>2
  <2> HIDE DEF H
  <2> QED  BY <2>1, <1>3, ProductIs
<1>5. ASSUME NEW b \in Measured
      PROVE  ProductSet(H) \div agentHands[b] \in Nat \ {0}
  <2>1. agentHands[b] \in H  OBVIOUS
  <2>2. PICK m \in Nat \ {0}, h \in Nat \ {0} :
          m = ProductSet(H) /\ h = agentHands[b] /\ m >= h
    BY <1>2, <1>4, <2>1
  <2>3. m \in Nat /\ h \in Nat /\ h > 0  OBVIOUS
  <2>4. m \div h \in Nat \ {0}  BY <2>2, <2>3, QuotientIs
  <2> QED  BY <2>2, <2>4
<1>6. ASSUME NEW b \in Measured
      PROVE  /\ Share(b) \in Nat /\ (agentWins[b] > 0 => Share(b) > 0)
             /\ (agentWins[b] = 0 => Share(b) = 0)
  <2>1. Share(b) = agentWins[b] * (ProductSet(H) \div agentHands[b])  BY DEF Share
  <2>2. PICK w \in Nat, d \in Nat \ {0} :
          w = agentWins[b] /\ d = ProductSet(H) \div agentHands[b]
    BY <1>2, <1>5
  <2>3. w * d \in Nat /\ (w > 0 => w * d > 0) /\ (w = 0 => w * d = 0)  OBVIOUS
  <2> QED  BY <2>1, <2>2, <2>3
<1> QED  BY <1>1, <1>6 DEF Shares, DetectorTypes

\* The sums that the detector takes are sums of the shares.
LEMMA ShareSumsAre ==
  ASSUME DetectorAssumption, DetectorTypes
  PROVE  /\ MapThenSumSet(Share, Measured) = SumOf(Shares, Measured)
         /\ MapThenSumSet(LAMBDA b : Share(b) * Share(b), Measured)
              = SumOf(Squares(Shares), Measured)
<1> DEFINE M == Measured
           E(h) == h = [s \in SUBSET M |->
                          IF s = {} THEN 0
                          ELSE Share(CHOOSE x \in s : TRUE)
                                 + h[s \ {CHOOSE x \in s : TRUE}]]
           k == CHOOSE h : E(h)
           E2(h) == h = [s \in SUBSET M |->
                           IF s = {} THEN 0
                           ELSE Share(CHOOSE x \in s : TRUE) * Share(CHOOSE x \in s : TRUE)
                                  + h[s \ {CHOOSE x \in s : TRUE}]]
           k2 == CHOOSE h : E2(h)
           g == CHOOSE h : SumEquation(h, M, Shares)
           g2 == CHOOSE h : SumEquation(h, M, Squares(Shares))
<1>1. MapThenSumSet(Share, Measured) = k[M]
  BY DEF MapThenSumSet, MapThenFoldSet
<1>2. MapThenSumSet(LAMBDA b : Share(b) * Share(b), Measured) = k2[M]
  BY DEF MapThenSumSet, MapThenFoldSet
<1>3. SumOf(Shares, M) = g[M] /\ SumOf(Squares(Shares), M) = g2[M]
  BY DEF SumOf, MapThenSumSet, MapThenFoldSet, SumEquation
<1>4. IsFiniteSet(M) /\ Shares \in [M -> Nat]  BY SharesAre
<1>5. \A x \in M : /\ Shares[x] = Share(x) /\ Squares(Shares)[x] = Share(x) * Share(x)
                   /\ Shares[x] \in Int /\ Squares(Shares)[x] \in Int
  <2>1. DOMAIN Shares = M /\ \A x \in M : Shares[x] \in Nat /\ Shares[x] = Share(x)
    BY <1>4 DEF Shares
  <2> QED  BY <2>1 DEF Squares
<1>6. \A s \in SUBSET M : s # {} => (CHOOSE x \in s : TRUE) \in M  OBVIOUS
<1> HIDE DEF M
<1>7. \A h : E(h) <=> SumEquation(h, M, Shares)
  BY <1>5, <1>6 DEF SumEquation
<1>8. \A h : E2(h) <=> SumEquation(h, M, Squares(Shares))
  BY <1>5, <1>6 DEF SumEquation
<1> HIDE DEF E, E2
<1>9. (\E h : E(h)) /\ \E h : E2(h)  BY <1>4, <1>5, <1>7, <1>8, SumFold
<1>10. SumEquation(k, M, Shares) /\ SumEquation(k2, M, Squares(Shares))
  BY <1>7, <1>8, <1>9
<1>11. SumEquation(g, M, Shares) /\ SumEquation(g2, M, Squares(Shares))
  BY <1>4, <1>5, SumFold
<1> HIDE DEF k, g, k2, g2
<1>12. k = g /\ k2 = g2  BY <1>4, <1>5, <1>10, <1>11, SumFold
<1> QED  BY <1>1, <1>2, <1>3, <1>12 DEF M

\* Among nine or fewer whose share counts nobody is an anomaly.
LEMMA FewAreNoAnomaly ==
  ASSUME DetectorAssumption, DetectorTypes, NEW a \in Watched, Cardinality(Measured) <= 9
  PROVE  ~Anomalous(a)
<1> SUFFICES ASSUME Anomalous(a) PROVE FALSE
  OBVIOUS
<1>1. a \in Measured
  BY DEF Anomalous, Measured, DetectorTypes
<1>2. IsFiniteSet(Measured) /\ Shares \in [Measured -> Int]
      /\ Shares[a] = Share(a)
  BY <1>1, SharesAre DEF Shares
<1>3. PICK n \in Nat, x \in Int, s \in Int, q \in Int :
        /\ n = Cardinality(Measured) /\ x = Shares[a]
        /\ s = SumOf(Shares, Measured) /\ q = SumOf(Squares(Shares), Measured)
  BY <1>1, <1>2, FS_CardinalityType, Cauchy
<1>4. /\ (n - 1) * (n * q - s * s) >= (n * x - s) * (n * x - s)
      /\ n * q - s * s >= 0
  BY <1>1, <1>2, <1>3, SpreadIsBounded, Cauchy
<1>5. Variance = n * q - s * s /\ Spread(a) = n * x - s
  BY <1>2, <1>3, ShareSumsAre DEF Variance, Spread
<1>6. Spread(a) * Spread(a) > 9 * Variance  BY DEF Anomalous
<1>7. PICK v \in Int, z \in Int : v = Variance /\ z = Spread(a) * Spread(a)
  BY <1>5
<1>8. (n - 1) * v >= z /\ v >= 0 /\ z > 9 * v /\ n <= 9
  BY <1>3, <1>4, <1>5, <1>6, <1>7
<1>9. (n - 1) * v <= 9 * v
  <2>1. (10 - n) * v >= 0 /\ (10 - n) * v = 9 * v - (n - 1) * v  BY <1>8
  <2> QED  BY <2>1
<1> QED  BY <1>8, <1>9

\* The only winner among eleven is an anomaly.
LEMMA OnlyWinnerIsAnomaly ==
  ASSUME DetectorAssumption, DetectorTypes, NEW a \in Watched,
         Cardinality(Measured) = 11, a \in Measured, agentWins[a] > 0,
         \A c \in Measured \ {a} : agentWins[c] = 0
  PROVE  Anomalous(a)
<1> DEFINE g == Squares(Shares)
           P == {T \in SUBSET (Measured \ {a}) : SumOf(Shares, T) = 0 /\ SumOf(g, T) = 0}
<1>1. /\ IsFiniteSet(Measured) /\ Shares \in [Measured -> Nat] /\ DOMAIN Shares = Measured
      /\ Shares[a] = Share(a) /\ Shares[a] > 0 /\ Shares[a] \in Int
      /\ \A c \in Measured \ {a} : Shares[c] = 0
  BY SharesAre DEF Shares
<1>2. \A c \in Measured : /\ Shares[c] \in Int /\ g[c] \in Int
                          /\ g[c] = Shares[c] * Shares[c]
  BY <1>1 DEF Squares
<1> HIDE DEF g, P
<1>2a. IsFiniteSet(Measured) /\ (\A c \in Measured : Shares[c] \in Int)
       /\ \A c \in Measured : g[c] \in Int
  BY <1>1, <1>2
<1>3. /\ SumOf(Shares, {}) = 0
      /\ \A T \in SUBSET Measured : \A x \in Measured \ T :
           SumOf(Shares, T \cup {x}) = SumOf(Shares, T) + Shares[x]
  BY <1>2a, SumFacts
<1>4. /\ SumOf(g, {}) = 0
      /\ \A T \in SUBSET Measured : \A x \in Measured \ T :
           SumOf(g, T \cup {x}) = SumOf(g, T) + g[x]
  BY <1>2a, SumFacts
<1>5. {} \in P  BY <1>3, <1>4 DEF P
<1>6. ASSUME NEW T \in SUBSET (Measured \ {a}), NEW x \in Measured \ {a},
             IsFiniteSet(T), T \in P, x \notin T
      PROVE  T \cup {x} \in P
  <2>1. Shares[x] = 0 /\ g[x] = 0 * 0  BY <1>1, <1>2
  <2>2. SumOf(Shares, T \cup {x}) = 0 + 0 /\ SumOf(g, T \cup {x}) = 0 + 0 * 0
    BY <1>3, <1>4, <1>6, <2>1 DEF P
  <2> QED  BY <2>2 DEF P
<1>7. Measured \ {a} \in P
  <2>1. IsFiniteSet(Measured \ {a})  BY <1>1, FS_Subset
  <2>2. \A T \in SUBSET (Measured \ {a}) : IsFiniteSet(T) => T \in P
    BY <1>5, <1>6, SetInduction
  <2> QED  BY <2>1, <2>2
<1>8. PICK x \in Int : x = Shares[a] /\ x > 0  BY <1>1
<1>9. SumOf(Shares, Measured) = x /\ SumOf(g, Measured) = x * x
  <2>1. (Measured \ {a}) \cup {a} = Measured /\ a \in Measured \ (Measured \ {a})
        /\ Measured \ {a} \in SUBSET Measured
    OBVIOUS
  <2>2. SumOf(Shares, Measured \ {a}) = 0 /\ SumOf(g, Measured \ {a}) = 0
    BY <1>7 DEF P
  <2>3. /\ SumOf(Shares, Measured) = SumOf(Shares, Measured \ {a}) + Shares[a]
        /\ SumOf(g, Measured) = SumOf(g, Measured \ {a}) + g[a]
    BY <1>3, <1>4, <2>1
  <2>4. g[a] = x * x  BY <1>2, <1>8
  <2> QED  BY <1>8, <2>2, <2>3, <2>4
<1>10. Variance = 11 * (x * x) - x * x /\ Spread(a) = 11 * x - x
  BY <1>1, <1>8, <1>9, ShareSumsAre DEF Variance, Spread, g
<1>11. x * x > 0 /\ (11 * x - x) * (11 * x - x) = 100 * (x * x)  BY <1>8
<1>12. Variance = 10 * (x * x) /\ Spread(a) * Spread(a) = 100 * (x * x)
  BY <1>10, <1>11
<1>13. PICK y \in Int : y = x * x /\ y > 0  BY <1>11
<1>14. Variance # 0 /\ Spread(a) * Spread(a) > 9 * Variance  BY <1>12, <1>13
<1>15. agentHands[a] >= MinHands  BY DEF Measured
<1> QED  BY <1>14, <1>15 DEF Anomalous

\* A pair has the same records, whichever of the two it takes first.
LEMMA DumpersAreSymmetric ==
  ASSUME NEW a, NEW b
  PROVE  Dumpers(a, b) = Dumpers(b, a)
<1>1. PairKey(a, b) = PairKey(b, a)  BY DEF PairKey
<1>2. ASSUME NEW agent PROVE FoldsStrong(a, b, agent) = FoldsStrong(b, a, agent)
  <2> HIDE DEF PairKey
  <2> QED  BY <1>1 DEF FoldsStrong, Records
<1>3. Records(a, b, LAMBDA r : TRUE) = Records(b, a, LAMBDA r : TRUE)
  BY <1>1 DEF Records
<1> QED  BY <1>2, <1>3 DEF Dumpers

\* The counts stay numbers.
LEMMA DetectorTypesStep ==
  DetectorAssumption /\ DetectorTypes /\ [DetectorNext]_detectorVars => DetectorTypes'
<1> SUFFICES ASSUME DetectorAssumption, DetectorTypes, [DetectorNext]_detectorVars
             PROVE  DetectorTypes'
  OBVIOUS
<1>1. ASSUME NEW agent \in Watched, NEW won \in BOOLEAN, AddResult(agent, won)
      PROVE  DetectorTypes'
  BY <1>1 DEF DetectorTypes, AddResult
<1>2. ASSUME NEW losers, CrowdLoses(losers) PROVE DetectorTypes'
  BY <1>2 DEF DetectorTypes, CrowdLoses, DetectorAssumption
<1>3. ASSUME NEW agent, NEW opponent, NEW strong, NEW folded,
             AddRecord(agent, opponent, strong, folded)
      PROVE  DetectorTypes'
  BY <1>3 DEF DetectorTypes, AddRecord
<1>4. CASE UNCHANGED detectorVars  BY <1>4 DEF DetectorTypes, detectorVars
<1> QED  BY <1>1, <1>2, <1>3, <1>4 DEF DetectorNext

\* The score of a pair is the same from both sides.
LEMMA ScoresAreSymmetric ==
  ASSUME NEW a, NEW b
  PROVE  RiskScore(a, b) = RiskScore(b, a)
<1>1. Dumpers(a, b) = Dumpers(b, a)  BY DumpersAreSymmetric
<1> QED  BY <1>1 DEF RiskScore

\* detectors.ts: the score of a pair does not depend on who is named first, is only that
\* of folded strong hands while nine or fewer have played enough, and shows the only
\* winner among eleven.
THEOREM ScoresAreFounded == DetectorSpec => []ScoreIsFounded
<1>1. DetectorAssumption /\ DetectorInit => DetectorTypes
  BY DEF DetectorInit, DetectorTypes
<1>2. DetectorAssumption /\ DetectorTypes => ScoreIsFounded
  <2> SUFFICES ASSUME DetectorAssumption, DetectorTypes,
                      NEW a \in Watched, NEW b \in Watched, a # b
               PROVE  /\ \A r, q \in CollusionReports({a, b}) : r = q
                      /\ Cardinality(Measured) <= 9 =>
                           RiskScore(a, b) = IF Dumpers(a, b) = {} THEN 0 ELSE 50
                      /\ Cardinality(Measured) = 11 /\ a \in Measured /\ agentWins[a] > 0
                           /\ (\A c \in Measured \ {a} : agentWins[c] = 0) =>
                             RiskScore(a, b) >= 30
    BY DEF ScoreIsFounded
  <2>1. ASSUME NEW r \in CollusionReports({a, b})
        PROVE  r = [pair |-> {a, b}, score |-> RiskScore(a, b)]
    <3>1. PICK p \in {a, b} \X {a, b} :
            p[1] # p[2] /\ r = [pair |-> {p[1], p[2]}, score |-> RiskScore(p[1], p[2])]
      BY <2>1 DEF CollusionReports
    <3>2. (p[1] = a /\ p[2] = b) \/ (p[1] = b /\ p[2] = a)  BY <3>1
    <3>3. {a, b} = {b, a} /\ RiskScore(a, b) = RiskScore(b, a)  BY ScoresAreSymmetric
    <3>4. {p[1], p[2]} = {a, b} /\ RiskScore(p[1], p[2]) = RiskScore(a, b)
      BY <3>2, <3>3
    <3> QED  BY <3>1, <3>4
  <2>2. ASSUME Cardinality(Measured) <= 9
        PROVE  RiskScore(a, b) = IF Dumpers(a, b) = {} THEN 0 ELSE 50
    <3>1. ~Anomalous(a) /\ ~Anomalous(b)  BY <2>2, FewAreNoAnomaly
    <3> QED  BY <3>1 DEF RiskScore
  <2>3. ASSUME Cardinality(Measured) = 11, a \in Measured, agentWins[a] > 0,
               \A c \in Measured \ {a} : agentWins[c] = 0
        PROVE  RiskScore(a, b) >= 30
    <3>1. Anomalous(a)  BY <2>3, OnlyWinnerIsAnomaly
    <3> QED  BY <3>1 DEF RiskScore
  <2> QED  BY <2>1, <2>2, <2>3
<1> QED  BY <1>1, <1>2, DetectorTypesStep, DetectorAssumption, PTL DEF DetectorSpec
=============================================================================
