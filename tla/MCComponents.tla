---------------------------- MODULE MCComponents -----------------------------
(***************************************************************************)
(* Small instances of the components that share no state, with a hand or    *)
(* with each other, explored side by side: `part' says which of them runs,  *)
(* and it never changes.                                                    *)
(***************************************************************************)
EXTENDS MemoryLedger, PostgresLedger, EventRingBuffer, RateLimiter, HandHistory,
        Detectors, HandEvaluation, Lobby, Connections, LobbyAuth, Session, TLC

CONSTANTS
  ann, bob, house,  \* agents, and the house
  r1, r2, r3,       \* references of transfers
  small, big,       \* groups of the lobby, of small and of big blinds
  s1, s2, t1, t2,   \* sockets and tables
  j1, j2,           \* joins
  Parts             \* those of AllParts that are explored

AllParts == {"memory ledger", "postgres ledger", "ring buffer", "rate limiter",
             "hand history", "detectors", "deal", "lobby", "connections", "auth", "session"}

VARIABLE part

MCVars == <<memVars, pgVars, ringVars, rateVars, historyVars, detectorVars, dealVars,
            lobbyVars, connectVars, authVars, sessionVars, part>>

MCInit ==
  /\ MemInit /\ PgInit /\ RingInit /\ RateInit /\ HistoryInit /\ DetectorInit /\ DealInit
  /\ LobbyInit /\ ConnectInit /\ AuthInit /\ SessionInit
  /\ part \in Parts
  /\ part # "deal" => deck = CHOOSE d \in Decks : TRUE
  /\ part # "session" => script = CHOOSE s \in Scripts : TRUE

MCNext ==
  /\ UNCHANGED part
  /\ \/ /\ part = "memory ledger" /\ MemNext
        /\ UNCHANGED <<pgVars, ringVars, rateVars, historyVars, detectorVars, dealVars,
                       lobbyVars, connectVars, authVars, sessionVars>>
     \/ /\ part = "postgres ledger" /\ PgNext
        /\ UNCHANGED <<memVars, ringVars, rateVars, historyVars, detectorVars, dealVars,
                       lobbyVars, connectVars, authVars, sessionVars>>
     \/ /\ part = "ring buffer" /\ RingNext
        /\ UNCHANGED <<memVars, pgVars, rateVars, historyVars, detectorVars, dealVars,
                       lobbyVars, connectVars, authVars, sessionVars>>
     \/ /\ part = "rate limiter" /\ RateNext
        /\ UNCHANGED <<memVars, pgVars, ringVars, historyVars, detectorVars, dealVars,
                       lobbyVars, connectVars, authVars, sessionVars>>
     \/ /\ part = "hand history" /\ HistoryNext
        /\ UNCHANGED <<memVars, pgVars, ringVars, rateVars, detectorVars, dealVars,
                       lobbyVars, connectVars, authVars, sessionVars>>
     \/ /\ part = "detectors" /\ DetectorNext
        /\ UNCHANGED <<memVars, pgVars, ringVars, rateVars, historyVars, dealVars,
                       lobbyVars, connectVars, authVars, sessionVars>>
     \/ /\ part = "deal" /\ DealNext
        /\ UNCHANGED <<memVars, pgVars, ringVars, rateVars, historyVars, detectorVars,
                       lobbyVars, connectVars, authVars, sessionVars>>
     \/ /\ part = "lobby" /\ LobbyNext
        /\ UNCHANGED <<memVars, pgVars, ringVars, rateVars, historyVars, detectorVars,
                       dealVars, connectVars, authVars, sessionVars>>
     \/ /\ part = "connections" /\ ConnectNext
        /\ UNCHANGED <<memVars, pgVars, ringVars, rateVars, historyVars, detectorVars,
                       dealVars, lobbyVars, authVars, sessionVars>>
     \/ /\ part = "auth" /\ AuthNext
        /\ UNCHANGED <<memVars, pgVars, ringVars, rateVars, historyVars, detectorVars,
                       dealVars, lobbyVars, connectVars, sessionVars>>
     \/ /\ part = "session" /\ SessionNext
        /\ UNCHANGED <<memVars, pgVars, ringVars, rateVars, historyVars, detectorVars,
                       dealVars, lobbyVars, connectVars, authVars>>

\* What the lobby and the connections assume; the others' steps never enable it.
MCSpec == MCInit /\ [][MCNext]_MCVars /\ LobbyFairness /\ ConnectFairness

-----------------------------------------------------------------------------
Pay(ref, from, to, amount) == [ref |-> ref, from |-> from, to |-> to, amount |-> amount]

\* Chips come from the house; a reference is used again for the same transfer and for
\* another; an account pays itself.
MCAsked == {Pay(r1, house, ann, 2), Pay(r1, house, bob, 2), Pay(r2, ann, bob, 1),
            Pay(r2, bob, house, 2), Pay(r3, ann, ann, 1), Pay(r3, bob, ann, 2)}

MCCalls == 1..4
MCAsks == <<Pay(r1, house, ann, 2), Pay(r2, ann, bob, 2), Pay(r2, ann, bob, 2),
            Pay(r3, ann, ann, 1)>>

\* Two that overlap, and no account pays itself.
MCTwoCalls == 1..2
MCTwoAsks == <<Pay(r1, house, ann, 2), Pay(r2, house, bob, 2)>>

MCRequests == 1..4
MCCrowd == 1..9

Card(rank, suit) == [rank |-> rank, suit |-> suit]

\* Straights, flushes and the wheel beside four fives; three pairs and two trips.
MCDecks ==
  {{Card(r, 1) : r \in 2..6} \cup {Card(14, 1), Card(14, 2), Card(5, 2), Card(5, 3),
                                   Card(5, 4)},
   {Card(13, 1), Card(13, 2), Card(9, 3), Card(9, 4), Card(7, 1), Card(7, 2), Card(7, 3),
    Card(9, 1), Card(2, 2), Card(11, 3)}}

MCSeatsOf == (small :> 2) @@ (big :> 2)

\* Two sockets of one agent: one for the first table, one for both.
MCOwner == (s1 :> ann) @@ (s2 :> ann)
MCAsksFor == (s1 :> {t1}) @@ (s2 :> {t1, t2})
MCStored == (t1 :> {ann}) @@ (t2 :> {})

MCJoinerOf == (j1 :> ann) @@ (j2 :> ann)
=============================================================================
