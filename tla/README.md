# A TLA+ model of agent-poker

agent-poker is a poker server whose players are programs. This directory models the
parts that decide who gets the chips and whether play goes on: the poker engine, the
table, the game server's requests, timers and connections, and around them the lobby, the
chip ledger, the bots, the hand history and the scripts. TLC checks the models on small
instances, and TLAPS proves the main safety properties for every table size, stack, bet,
request history and schedule.

## The system

| Part | State | Operations | Talks to |
|---|---|---|---|
| Poker engine (`packages/poker-engine`) | one `GameState`: street, bets, folded / acted / all-in marks, pot, turn | `createInitialState`, `applyAction`; pure functions on the state | called by the table actor |
| Table actor (`game-server/src/table-actor.ts`) | seats and chips, button, current hand, action timer, request cache, sequence numbers | `addSeat`, `startHand`, `processAction`, `handleTimeout`, `close` | engine; called by server and lobby in one process |
| Game server (`game-server/src/ws-handler.ts`) | tables, connections, auto-start timers, next-hand timers, event buffers | HELLO, ACTION, REFRESH_TOKEN, socket close, heartbeat, timers | agents over WebSocket, table actors, database |
| Event ring buffer, rate limiter | last events of a table; token buckets | `push`, `getEventsSince`; `tryConsume` | game server |
| Lobby (`apps/lobby-api`) | matchmaking queue, bot-fill timers, agents, logins | create and join tables, enqueue, match, fill with bots, log in | game server by calls, ledger, identity |
| Agent SDK (`packages/agent-sdk`) | sequence counter, last state, token | `connect`, HELLO, ACTION, login, strategies | game server over WebSocket, lobby over HTTP |
| Ledger (`packages/adapters-ledger`) | accounts and transfers | `createAccount`, `transfer` | database or memory |
| Hand history, anti-collusion | events of finished hands, hash chain; records of pairs | append, replay, verify, score | scripts, the lobby's report |
| Table store (`packages/database`) | tables and seats in Postgres | persist a seat, load a table | lobby writes, game server reads |
| Scripts (`scripts`) | a session of hands | play, replay, verify | engine, hand history |
| Identity, admin UI, deployment | agents; views | lookups | lobby |

What is hard here:

- money arithmetic in the engine: several all-in levels, odd chips, folds of
  contributors, blinds and antes larger than a stack;
- betting rounds, whose end depends on marks that later bets must take back;
- three kinds of timers that start hands or act for agents, next to requests that may be
  late, lost, repeated or out of order;
- two memories of requests (the request cache, cleared with every hand, and the sequence
  numbers, never cleared), each looked at only if the request has the field for it, and both
  fields are optional;
- awaits in HELLO, in matchmaking, in the rate limiter and in the ledger, across which the
  state changes.

What makes each part correct:

- engine: chips are conserved; each pot goes to the best of those who paid for it; a
  betting round ends when, and only when, everybody has answered the last bet; the turn is
  with a seat that can act; every hand ends;
- table and server: a request acts once, if it says which one it is; a running hand is
  never dealt over; the action
  timer runs exactly while a hand does; the button moves; silent agents cannot stop a hand;
  a table that can play on does; one agent's late message does not hurt the others;
- connections: an agent's connections stay within its limit; a table is loaded once; a
  peer that is gone is dropped;
- ring buffer: a delta is complete or a full state is sent;
- ledger: transfers conserve chips, are applied once per reference, never overdraw;
- lobby: a queued agent gets a table; a filled table is full; the database has the seats
  that the tables have; who can log in can join;
- players: what a script's player chooses is accepted, what an SDK agent chooses from its
  guess is refused in known cases only, and a recorded hand replays.

`PROJECT.json` lists the components with their status and every hazard at its line.

## Modules

| Module | Models | Depends on |
|---|---|---|
| `Positions` | seat arithmetic of `positions.ts` | |
| `SidePots` | `side-pots.ts`, and the split of a pot in `finishHand` | `Positions` |
| `PokerHand` | a hand: `createInitialState` is `Init`; FOLD, CHECK, CALL, BET, RAISE of `applyAction` | `SidePots` |
| `HandMoney` | what a hand promises about money, and no more (abstract) | `Positions` |
| `Strategies` | what the SDK's bots and the scripts' players choose in a state of a hand | `PokerHand` |
| `HandReplay` | the replay of recorded bets (`hand-history/src/replay.ts`) | `PokerHand` |
| `TableActor` | the operations of one table | `Positions` |
| `HandAtTable` | the engine's hand mapped to the variables of `TableActor` | `PokerHand`, `TableActor` |
| `GameServer` | the server around that table: agents, requests in flight, timers | `TableActor` |
| `Connections` | sockets, HELLO with its awaits, limits, heartbeat, tables loaded from the database, shutdown | |
| `EventRingBuffer`, `RateLimiter` | the two helpers of the server | |
| `Filtering` | `Array.prototype.filter` (external) | |
| `Lobby` | the queue, matches, bot filling, tables made and joined, and what is written to the database | `Filtering` |
| `LobbyAuth` | registration, login, tokens, and the SDK's join with its retry | |
| `BotPlayer` | a bot of the lobby and the messages it is sent | |
| `LedgerParties` | accounts and transfers | |
| `Ledger` | what a ledger promises (abstract) | `LedgerParties` |
| `MemoryLedger`, `PostgresLedger` | the two ledgers | `LedgerParties`, `Ledger` |
| `HandHistory` | the log of a hand and its hash chain | `Filtering` |
| `Detectors` | the collusion detectors and the report | |
| `HandEvaluation` | dealing, the value of five cards, the best of seven | |
| `Session` | the loops of the scripts that play a session and play it again | `Positions` |
| `MCPokerHand`, `MCGameServer`, `MCPlay`, `MCComponents` | instances for TLC: of hands, of a table, of both, of the rest | |
| `CommonProofs` | lemmas about seats, folds, sums, recursion and filtered lists, which the others cite | `Positions`, `Filtering` |
| `ShowdownProofs` | theorems about the best five of seven cards and about the pots | `CommonProofs` |
| `PokerHandProofs` | theorems about the hands | `ShowdownProofs` |
| `PlayersProofs` | what players choose and when it is refused, what is recorded replays, the hand is what the table takes it for | `PokerHandProofs` |
| `GameServerProofs`, `TransportProofs` | theorems about table and server; about connections, event buffer and rate limiter | `CommonProofs` |
| `RecordsProofs` | theorems about both ledgers, the hand history, the sessions and the detectors | `CommonProofs` |
| `LobbyProofs` | theorems about logins, queue, tables, bots and their rows | `CommonProofs` |

Operators named for a mistake (`CheckUnmarked`, `ReplayedSameSeq`, ...) stand before the
definition they get wrong. Nothing uses them; putting one in the place of the right one
breaks a property, which shows that the property is about that code.

### How `PokerHand` corresponds to the engine

| Model | Code |
|---|---|
| `chips`, `currentBet`, `totalBet`, `folded`, `acted`, `allIn` | the fields of `PlayerState`; the marks are sets of seats |
| `active`, `street`, `betsThisStreet`, `lastRaise`, `complete`, `pot` | the fields of `GameState`; until the end there is one pot |
| `hand` | the arguments of `createInitialState`; seats with 0 chips are not dealt in |
| `board` | how many community cards are dealt |
| `rank` | the order `compareHands` gives the live hands, chosen at showdown |
| `won` | what `finishHand` pays |
| `Move` and its four outcomes | the end of `applyAction`, `advanceStreet`, `finishHand` |

An action is a whole call of `applyAction`. What the engine rejects changes
nothing and is an action that is not enabled; a move after the end is `Over`. An amount an
agent leaves out is the least of its range and so among the amounts it may name. Cards are
abstracted to their number and the hands' ranks: the engine looks at cards in no other place,
and that the ranks are those of poker is what `HandEvaluation` is about. `SidePots` writes the loop over all-in levels as seven
pots, because six seats have at most six levels; levels that repeat make empty pots, and
the code makes none.

`Strategies` and `HandReplay` add no state. They say, in a state of a hand, what each
strategy would choose (as a set, over all tiers of hole cards and all draws of its random
numbers) and what the log makes of a bet. So the run of the hands checks them in every
state that any play reaches, not only in those the bots bring about. Every strategy of the
SDK is played in every mode, from what `client.ts` infers of a `STATE`: legal actions that
know nothing of the raise cap, and amounts from 0 up to the stack outside LIMIT.

### How `TableActor` and `GameServer` correspond to the server

| Model | Code |
|---|---|
| `taken`, `stack` | `seats`; an agent is the seat it has |
| `dealer` | `dealerSeatIndex`, -1 before the first hand |
| `playing`, `turn`, `moves` | `currentState`: who was dealt in, whose turn it is, and at most how many moves are left |
| `timer` | `actionTimer` |
| `answered`, `lastSeq` | `requestIdCache`, `seqPerSeat` |
| `registered` | the table is in `tables` |
| `autoStart`, `nextHand` | the entry in `autoStartTimers`; the pending 3-second timers |
| `announced` | the current state went to everybody by `broadcastState` |
| `inFlight`, `sent` | the network and the SDK's `seq`; the `requestId` of a request is the request itself |
| `Carries` | which of the optional `seq` and `requestId` (`schemas.ts`) the client of each agent fills in: the SDK both, the lobby's bots neither |
| `Numbered`, `Named` | `if (seq !== undefined)` and `if (requestId)` of `processAction` |
| `applied` | history: requests that moved a hand, each with the number of that hand |
| `Accept`, `Reject`, `Refuse`, `AckDuplicate`, `TerminateTable` | the ways through `handleAction` and `processAction` |

Of a hand, `TableActor` keeps what every hand does: one seat has the turn, there are
finitely many moves, and in the end the seats that were dealt in share exactly what they
brought. It lets any seat of the hand have the turn next, any move take as many of the moves
left as it likes or end the hand, and any division of the chips result: more than the engine
does, never less. That is a theorem (`TablePromiseKept`): `HandAtTable` maps the state of a
`PokerHand` to the variables of `TableActor`, the moves being `MovesLeft`, and there a hand
begins as `HandStarted` says and moves as `Moved` says. No run checks it: TLC would list all
divisions of the chips in every step.

A handler is one step: Node runs one callback at a time, and the only `await` in
`handleAction` is of a map in memory. Network: a request in flight may be handled at any
time, in any order, more than once (`Resend`), or never (`Lose`: the connection broke, the
request was too fast or malformed, or the agent had not said HELLO). Which connections an
agent has is not kept in this model, so a request is never refused *because* of a missing
HELLO, only
possibly lost. `GameServer` is of a server without a database and before its shutdown;
`Connections` has both.

### How `Connections` corresponds to the server

| Model | Code |
|---|---|
| `open`, `unopened`, `silent`, `ponged` | the `WebSocket`s; whether the peer answers; `pongReceived` |
| `clients`, `connCount`, `agentTables` | the maps of the same name (`agentConnectionCount`, `agentToTables`) |
| `inMemory`, `seatedAt` | `tables`: a table in memory is its *incarnation*, so that a handler can hold one that has been replaced in the map |
| `waiting` | the `handleHello` calls that await the database: `load`, `loaded` (the promise has resolved), `reload` |
| `rows` | the seats in the database |
| `HandleHello`, `LoadSucceeds`, `LoadFails`, `GoOn`, `ReloadEnds`, `ReloadFails` | the stretches of `handleHello` between its awaits, `loadTableFromDb`, `reloadSeatsFromDb` |
| `Disconnect`, `Heartbeat`, `TerminateTable`, `Shutdown`, `ForceClose` | the close handler, `setInterval`, the error path of ACTION, `gracefulStop` |

`LoadedWith` are the HELLOs that share a load through `pendingTableLoads`; they go on in
microtasks, before any other step (`Settled`).

### How the other modules correspond

| Module | State | Steps |
|---|---|---|
| `EventRingBuffer` | `buffer`, `nextEventId`; `happened` is history | `push`, `clear`; `TooOld` and `EventsSince` are the two results of `getEventsSince` |
| `RateLimiter` | a bucket is an object: `inStore` and `got` say who holds which one | `tryConsume` before and after its await; time in ticks of one refill |
| `Lobby` | `queue`, `tables`, `fillTimers`, `botCounter`; `handlers` are the calls that await the database, with the rows they still have to write; `stored...` are the rows that are written | `enqueue` with `tryMatch`, `dequeue`, `tryForcedMatch`, the match callback up to its first await, `createTable`, `join`, `fillTable` bot by bot, each write to the database, its failure |
| `LobbyAuth` | `known`, `outAt` (banned or forgotten), `accessToken` of each agent's `AgentAuth`, `joining`: how far each call of `joinTable` has come | `login`, the join, its retry after a 401, expiry, bans, a restart of a lobby that keeps agents in memory |
| `BotPlayer` | server: the hand and the messages on their way; bot: `seatIndex`, `currentState`, what it awaits the language model for | `processState`, `act`, `decideBasic`, `parseAIResponse` |
| `MemoryLedger` | accounts, balances, transfers by reference | a call is one step: no method has an await in it |
| `PostgresLedger` | committed rows, and for each call its `stage` and what it has read | one step for each statement at READ COMMITTED, row locks from the updates on, the unique index on references, commit, rollback at any point |
| `HandHistory` | `stored` events, and an events/chain pair that verification is shown | append, building a chain, damage to events or chain |
| `Detectors` | bag of records, hands and wins of agents | `addRecord`, `addResult`; the scores are operators |
| `HandEvaluation` | `deck`, `holeCards`, `community` | the deal; the evaluation is an operator |
| `Session` | `records` of the hands played, stacks and button of the first loop | a hand, an aborted hand, the verification; the second loop is a fold over the records |

`MCComponents` explores eleven of these side by side: they share no state with each other, so
one variable, `part`, chosen at the start and never changed, says which of them takes the
steps. A state
of the run is a state of one component with the others at rest, and a property of one is
checked in all the states of its component.

## Checking

| Run | Question | Result |
|---|---|---|
| `play` | hands: are chips, rounds, turns, pots and the end right, who is refused, do bets replay? table: do repeats, timers, chips and the button do what they should, and do hands end? | 22 properties hold |
| `hand_big_ante` | "chip conservation 100 %" (docs/SKILL.md) with antes as large as stacks? | violated |
| `hand_pot_limit` | is pot limit a limit (docs/SKILL.md)? | violated |
| `table_old_action` | is a reused `requestId` "silently deduplicated" (docs/SKILL.md) in the next hand? | violated |
| `table_retry` | and does the table survive a repeat that comes between two hands? | violated |
| `table_timeout` | "when a hand finishes the server sends `HAND_COMPLETE`" and the "next hand starts automatically" (docs/SKILL.md, docs/API_REFERENCE.md), if a timeout finished it? | violated |
| `table_button` | can a table with two stacks start a hand ("Dealer left; pick first seat")? | violated |
| `components` | do ledgers, buffer, limiter, history, detectors, evaluation, lobby, connections, logins and sessions keep what they are for? | 18 properties hold |
| `ledger_overlap` | is the Postgres ledger "double-entry" (README.md, types.ts): do balances add up to what is booked? | violated |
| `rate_burst` | "don't exceed 10 actions/sec" (docs/SKILL.md) when first calls overlap? | violated |
| `hash_payload` | does the hash cover the whole event (docs/SKILL.md, README.md)? | violated |
| `bots` | does a bot "connect to the game server and start playing" (bot-player.ts)? | violated |

The violated ones each check one claim of the documentation, a comment or a test against
what the code does; `PROJECT.json` explains them under "findings", and their properties stand
in the modules beside those that hold, which say how far the claim is kept:

- `RequestIdMovesOnce` fails and `RetryMovesNothing` holds: a repeat moves nothing in any hand
  if it has a number, and nothing in the same hand if it has an id. A request with neither
  cannot be told from a new one.
- `AgentKeepsLimit` fails and `BucketKeepsLimit` holds: each bucket keeps to the limit, but the
  first calls of an agent make one each if they overlap.
- `BalancesAreTheBook` fails; `OnlyOverlapLoses`, a theorem, says that nothing but an overlap
  on an account, or an account that pays itself, parts a balance from the book.
- `LogIsSealed` fails and `OnlyItsChainIsAccepted` holds: order, numbers, types and links are
  protected, payloads are not.

The properties, in the order of the hazards they are for:

- money: `ChipConservation`, `KeepsMoneyPromise` (the hand implements `HandMoney`),
  `StakeBoundsWinnings`, `BestHandCollects`, `UncalledBetReturns`, `OddChipsGoLeft`. The
  last four say in terms of stakes and ranks alone, without pots, what the side pots are
  for. `BestHandFollowsTheRules` compares the best of 21 choices of five cards with the
  rules of poker for all seven at once;
- rounds: `ActedSeatsHaveMatched`, `RoundEndsMatched`, `TurnIsLive`, `LimitStreetIsCapped`;
- termination of a hand: `HandMovesOn`, a measure that every move decreases;
- players and log: `ScriptsAreHeard`, `SdkRefusals`, `BetsReplay`, `SessionVerifies`,
  `OnlyItsChainIsAccepted`, `LogIsKept`;
- requests: `RetryMovesNothing`; timers: `TimerIffHand`, `HandIsNotDealtOver`, `HandsEnd`;
- table: `OnlyJoinsBringChips`, `ButtonMovesOn`;
- connections: `CountCoversClients`, `TableNotReplaced`, `SilentClientsAreDropped`,
  `DeltaIsComplete`, `BucketKeepsLimit`;
- lobby: `NoMatchWaits`, `FilledTableIsFull`, `RowsAreSeats`, `QueuedGetATable`,
  `LoginDecidesJoins`, `ScoreIsFounded`;
- ledger: `KeepsLedgerPromise` (the memory ledger implements `Ledger`), `RefBookedOnce`,
  `NobodyOverdrawn`. PostgreSQL's ledger does not implement `Ledger`:
  two transfers that overlap on an account lose an update. `PgPromiseKept`, a theorem, says
  that while nothing overlaps it does.

Three of them are exact about something that is not as one would have it:

- `SdkRefusals` lists the choices of SDK agents that the engine refuses, after which the agent
  waits until its time is up: bets and raises at the raise cap of LIMIT, of every strategy but
  the calling station (the repository's README has `AggressiveBot` call there); the shares of
  the pot of `TightAggressive` and `PotControl` when they are below the least amount; the
  push of `ShortStack` past the pot limit. A bet without an amount is not
  refused, though docs/SKILL.md calls the amount required: it is the least one.
- `DeltaIsComplete` has the edge of the buffer: whoever is fewer than `MaxSize` events behind
  and has seen any gets exactly what it missed. docs/SKILL.md promises it to one that is
  `MaxSize` behind too, and the buffer could serve it. A client that comes back with a number
  from before the buffer was cleared is not considered.
- `ScoreIsFounded` has the bound of the win-rate detector: of nine or fewer agents it finds
  none, whatever they win.

### Bounds

- `play` explores the hands and the table side by side, as `components` does its parts.
  Of hands there are five tables (`MCSetups`): no limit with three stacks all all-in at
  different levels; pot limit with a short third stack; limit with a cap and stacks that run
  out in the middle of a raise; heads up with an ante; four players, of whom the blinds put
  some all-in at once. Seats have gaps. `Amounts` 0..9 covers every legal amount of these
  stacks and one beyond (a larger one is the same all-in). `Ranks` 1..3: three hands can be
  in any order, with every tie. Side pots need three levels at most here; the proofs do not
  depend on any of this. Deadlock is checked: a hand can always move until it is `Over`; a
  table may rest, for with the bounds below its behaviours stop, and without agents it really
  does stand still.
- The table of `play` and of the four runs `table_...`: `MaxSeats` 3, so that a third agent can
  join in a running hand and the button
  has a choice; one agent whose requests have number and id, one with an id only, one with
  neither (`MCCarries`); one chip each (`BuyIns`), so that stacks are lost at once; `MaxMoves` 2, a
  move that leaves the hand on and one that ends it (1 in `table_timeout`, where the end is
  what matters); `MaxSeq` 1 request per agent, with any
  number of repeats (two agents' requests race; that a number grows is in the proofs for
  any number); `MaxHands` 2, so that a repeat can reach the hand after its own, with the
  cache cleared. The bounds are in the guards of `Send`, `AutoStartFires` and
  `NextHandFires`. In the runs `table_...` deadlock is not checked, as with them behaviours stop.
- `components`: deadlock is not checked, since a bounded component, and an idle one, stops.
  `ledger_overlap`, `rate_burst` and `hash_payload` explore one part each (`Parts`), the first
  with two calls only, the last with two payloads instead of one.
  - ledgers: two agents and the house; the transfers asked for use a reference again for the
    same transfer and for another one, overdraw, and pay an account from itself. On
    PostgreSQL four calls overlap: one that brings chips, two with the same reference and
    accounts, and one from an account to itself.
  - event buffer: size 2 and 4 events between clears, so that it overflows twice.
  - rate limiter: buckets of 2 and 4 overlapping calls within 3 refills: two calls can
    both find no bucket, and a third use one that was replaced.
  - hand history: two types of events, two sequence numbers (`MaxSeq` 1), logs of up to 2 events;
    verification is shown them with events altered or lost and with entries taken from the
    chains of other logs. Detectors: thresholds of 1 and 2, and a crowd of 7 or 9,
    the sizes on both sides of where three standard deviations become possible.
  - hand evaluation: every deal of seven from two decks of ten cards, one with straights
    and flushes around the ace and a four of a kind, one with two trips and three pairs.
  - lobby: two agents, one of them not in the database, two groups of two seats, two tables
    and two handlers at a time: a match can race a join, bots an agent, and each write fail.
  - connections: two sockets of one agent, two tables (one with rows, one without), a limit
    of 2 connections and 1 table, tables that come into memory twice, two HELLOs waiting at
    a time, so that HELLOs share a load, and a limit is passed or not while one waits.
  - logins: one agent with two calls of `joinTable` at a time, tokens that live for two
    units of five. Sessions: three seats with one chip each, so that players go broke, and
    up to four hands.
- `bots`: two seats, the bot without a language model; that suffices for the finding.

### Fairness

`PokerHand` assumes none: a player may never move, and ending is stated as a measure.
`GameServer` assumes weak fairness of `TimeoutFires` alone. The action timer is a
`setTimeout` of the process, cancelled only by a new move (which sets it again), the end of
the hand, or `close`. Nothing is assumed of agents, of the network or of the other timers.

`Lobby` assumes that time passes for what waits in the queue (`GrowOld`) and that
`tryForcedMatch` is called while it has something to do: it is on a `setInterval`. Nothing
is assumed of agents, of writes to the database or of the bots. `Connections` assumes the
same of the heartbeat, another `setInterval`, of the deadline of `gracefulStop`, and of the
microtasks that go on after a load. A database call may never come back. `BotPlayer` is
more generous (messages are delivered, hands are dealt, and the model answers), so that the
bot's silence in the run `bots` is the bot's doing. The other modules state no fairness.

## Proofs

All theorems are for every value of the constants: all setups that satisfy
`SetupsAssumption` (two to six seats, positive blinds, the big one not smaller, positive
bets in limit), all amounts and ranks that are natural numbers, tables of two to six seats,
any buy-ins, any number of requests and hands, of sockets, agents, calls and events, any
length of a log, size of a crowd or number of handlers that wait for the database. The
other assumptions (`HouseAssumption`, `AskedAssumption`, `CallsAssumption`,
`BufferAssumption`, `RateAssumption`, `TableAssumption`, `ServerAssumption`, `AuthAssumption`, `ConnectionsAssumption`,
`LobbyAssumption`, `LogAssumption`, `SessionAssumption`, `DetectorAssumption`,
`DeckAssumption`) say no more
than what kind of thing a constant is: that the house is not an agent, that a bot's number
is not a player, that a table has two to six seats, that a crowd is finite, that no deck
has a card twice or one of another rank or suit. Six
theorems have a hypothesis of their own, named below: `ChipsConserved`, `MoneyPromiseKept`,
`LimitIsCapped`, `ScriptsAlwaysHeard` with `SdkRefusalsAreThese`, `TablePromiseKept` and `PgPromiseKept`.

The engine:

- `HandInvHolds`: the inductive invariant `HandInv` of a hand, from which `TypeCorrect`,
  `ActedHaveMatched` and `TurnAlwaysLive` follow. Types and `ActedSeatsHaveMatched` are not
  inductive alone: a move subtracts from a stack and adds to a pot, so `HandInv` also says
  that a stack and what the seat put in are what it brought, which cards a street has, and
  that the seat with the turn is live.
- `ChipsConserved`: under `AntesLeaveChips` (no ante takes a whole stack). `MoneyInv` adds
  that a seat that is all-in has not folded. That is what keeps every pot eligible
  (`PotsHoldEverything`); then the pots hold all stakes, and shares and odd chips add up
  (`WinningsAddUp`), by arithmetic over six seats and six levels. The assumption is needed:
  without it the run `hand_big_ante` loses chips.
- `MoneyPromiseKept`: the engine implements `HandMoney`, step by step, under the same
  assumption.
- `LimitIsCapped`: what a seat has put in on a street is at most as many bets as the street
  has counted (`CapInv`), and the count stops at the cap. It needs `BigBetsAreBigger`, the
  bet of turn and river is not below that of the flop; the code does not check it.
- `RoundsEndMatched`: `FairInv` adds to `HandInv` that before the street in play all seats
  that can still act had put in the same, and nobody more. So bets that match on this street
  match over the hand. `StepsAreFair` first says of the five moves what they have in common:
  whoever is taken off `acted` has something to answer.
- `HandsMoveOn`: every move decreases `MovesLeft`, so every hand ends. A bet puts in chips,
  and the chips weigh more than all the marks it takes back; a check, call or fold takes a
  seat off those still to answer, provided that the seat to act is one of them. That needs
  the order of the seats: `OrderInv` adds to `HandInv` that going round from the seat to act,
  seats still to answer come before those that have (`TurnOrder`).
- `StakeBoundsAll`, `BestCollectsAll`, `UncalledComesBack`, `OddChipsGoLeftAll`: `FairInv`
  also says that what is paid at a showdown is `Winnings`, and that the seats that can still
  act have put in most. The rest is about `Winnings` alone (`ShowdownProofs`): the levels of
  the pots form a ladder (`LadderOfPots`), a pot holds what all seats put in between two of
  its rungs, a seat is eligible up to its own stake, and a share is at most the pot and all
  of it for the only best hand (`ShareIs`). Adding up over seven pots gives the four facts.
  They need no assumption on the antes: they hold even where chips of others are lost.

The showdown:

- `BestHandFollowsTheRulesAlways`: for any seven cards, what `evaluateBestHand` picks among the
  21 choices of five is what the rules say of the seven. `ByTheRules` never chooses five cards:
  it asks which ranks are held how often, which suit five times, and which straights there
  are. The invariant `DealInv` only gives the seven different cards; the argument is about
  `BestHand`, in three steps.
  - `NoneBeatsRules`: five cards fall into ranks in one of six ways (`FiveCards`), the rules see in
    seven whatever five of them are (`FiveSeen`), and of one kind the tie-breaking ranks of five
    are nowhere the first to be higher (`Greedy`). That seven cards have at most one suit
    five times (`FlushesAre`), and that two ranks four times do not fit, is counted.
  - `RulesReached`: in each of the nine cases there are five cards to show for it.
    `GroupAndKickers`, `TwoRanks` and `FiveHighest` pick them, and `CountsAs` says how
    `evaluate5` lists their ranks.
  - `BestOfSeven`: so no hand beats the one of the rules; and a hand that none beats is that one,
    as hands of one kind have the same number of ranks to compare (`EvaluateShape`).
    `compareHands` stops at the shorter list, so this is needed: of two lists of different lengths
    neither need beat the other.

The table and the server:

- `ServerInv`, the invariant of a table on the server: types, the timer, and what stops a
  repeat. `AppliedIsOld`: a request that moved a hand has used up its sequence number, if it
  has one. `AppliedIsCached`: a request that moved the hand which is on is in the cache, if it
  has an id. Neither would do for both: the cache is cleared with every hand, and a request
  need have no number. From it `ServerTypeCorrect`, `TimerCorrect`,
  `RetriesMoveNothing`, `ChipsComeWithAgents` and `ButtonMoves`; `NoHandIsDealtOver` needs
  no invariant but that there is no other way to change a hand (`StepKinds`).
- `ClientsAreCounted` and `TablesAreLoadedOnce`, from `ConnInv`: an agent has no more
  registered sockets than its count (`CountsCover`; it may have fewer: a socket that closes
  while its HELLO waits is counted for ever), a load is under way only for tables that are not in memory, and a
  handler holds an incarnation that has existed. The last two are what makes the second of
  two HELLOs for a table harmless.
- `DeltasAreComplete`, from `RingInv`: the buffer holds the last events there were, each under
  its number: all there were until it is full, and at least one if there was any. Without
  the last part an empty buffer would send an empty delta.

- `RateLimitHolds`, from `RateInv`: for *every* moment from which one counts, what a bucket
  has allowed since and what it still holds is within its size and its refills since. The
  property counts from one moment to now; only the statement with the tokens left in the
  bucket survives a step. It is per bucket: that an agent has one only is false.

The players and the log of a hand:

- `ScriptsAlwaysHeard` and `SdkRefusalsAreThese`, under `DefaultGames`: no cap on raises in no
  limit and a big blind of at most 2 in pot limit, as `DEFAULT_NL_CONFIG` and
  `DEFAULT_PL_CONFIG` of the engine's types have it; games of LIMIT may be any. The lemmas take
  the players one by one; what each chooses from an
  open range fits it (`FittingIsHeard`). That the range is open, its least amount not above
  its most, needs `RangeInv`: there are at least two chips in the pot, and the last raise is
  within the big blind or within the pot. The second theorem says of each SDK agent exactly
  when it is refused, in both directions. The hypothesis is needed: in pot limit, blinds that are
  larger and posted short make `getLegalActionRanges` give a range whose least is above its
  most, and players who choose within it are rejected.
- `TablePromiseKept`: the engine's hand implements what `TableActor` takes a hand for. It is
  here that the models of hand and table meet: `StartHandStarts` (`GameServerProofs`) says that
  `StartHand` leaves a hand as `HandStarted` has it, and this theorem that `Init` of a hand is
  such a state; then each move of the hand is a `Moved` of the table. `HandInv`, `OrderInv`
  and `MoneyInv` carry it: the seat with the turn was dealt in, `MovesLeft` falls and is above
  zero while the hand is on, the winnings are all that was put in and go to seats that were
  dealt in (`HandIsPaidOut`), and two of these are left at the least. Two hypotheses:
  `AntesLeaveChips`, as above, and `MovesSuffice`, that `MaxMoves` is enough for the stacks of
  the setups (the code has no such number; it only has to exist). Without either TLC finds
  a hand that the table does not expect.
- `BetsReplayAll`: what is recorded of a bet is again accepted and comes to the same chips.
- `ChainsAreUnique`: by induction over the chain, each entry's hash pins down the one before.
  `LogsAreKept`: a merge keeps what was stored and is sorted, since sorting by number is
  the concatenation of what has each number (`FlattenIs`).
- `SessionsVerify`, from `SessionInv`: every hand was dealt from the stacks and the button
  that the one before left (`Chained`). The second loop then derives the deals by
  recursion on the hands, and arrives at the same ones.

The ledgers and the detectors:

- `LedgerPromiseKept`: the memory ledger implements `Ledger`, with the transfers by reference as
  the book. `MemInv` says that balances are integers and what is booked was asked for.
- `EachRefBookedOnce`, `NobodyIsOverdrawn`, from `PgInv`. Uniqueness is not inductive on
  committed transfers alone: `RefsAreUnique` includes the inserts that wait for their commit.
  That nobody is overdrawn holds although balances are stale when they are written: a call
  writes what it has computed from the balance it has read, and `ReadsCover` says that this one
  covered the amount, whatever the balance has become since.
- `OnlyOverlapLoses`, from `BookInv`: not only the balances are what the committed transfers
  add up to; so is what a call has *read*, as long as nobody has committed on the account
  since it began (`ReadsAreBooked`). That is what the commit of this call rests on.
- `OnlyOverlapBreaksPromise` and `PgPromiseKept`: step by step PostgreSQL's ledger does what
  `Ledger` has, but for a commit after another call's commit on one of its accounts, or from an
  account to itself; so it implements `Ledger` while there are none of these. `BookInv` is not
  enough for this: it says nothing of accounts that an overlap has already spoilt, and these
  too must change by the amount. `ReadsAreFresh` says of every account that what a call has
  read of it is what it holds, until another call commits on it.
- `ScoresAreFounded`: no z-score of n numbers exceeds the root of n - 1 (`SpreadIsBounded`,
  from Cauchy's inequality, by induction over the crowd), and 3 * 3 > 9 - 1. The claim about a
  crowd of eleven is about *one* winner among them: with two, no score need be over 3.

The lobby:

- `JoinsAreDecidedByLogin`, from `AuthInv`: a token is of an agent that could log in when it
  was issued, and a join that is sent again has a token of that very moment.
- `NoMatchEverWaits`, `FilledTablesAreFull` and `RowsAlwaysSeats`, from `LobbyInv`. Handlers
  wait for the database while others go on, so the invariant says of each one that waits
  that the rows it has still to write are seats of its table (nobody ever leaves a seat),
  and of one that fills a table that it has a bot left for every empty seat
  (`HandlerIsRight`). A bot's number is above all that sit somewhere
  (`BotsAreCounted`), so it is refused only by a full table. Of a group nobody
  waits but one (`NobodyWaitsForAnother`): `tryMatch` takes the first two of the first group
  that has two, and since an enqueue adds one, there are never two such groups.

Sums, filters and merges are recursive functions in the community modules. What they compute
for every input is proved in `CommonProofs`, with induction over the numbers and over finite
sets derived from the library's well-founded orders: a set `P` takes the
place of the predicate (`NumberInduction`, `SetInduction`). For that reason the models
filter with `Those` and not with `SelectSeq`, whose definition the prover does not expand.

Only model-checked:

- liveness, which this prover does not do: `HandsEnd`, `QueuedGetATable`,
  `SilentClientsAreDropped`;
- everything the violated runs show.

## Not modelled

- Seat tokens and message schemas (JWT and zod): validation without state. A message that
  fails it is one that is lost. Token refresh only exchanges one valid token for another.
- The bandwidth limit of a socket, and which events spectators are sent.
- The admin UI: pages that fetch and lay out.
- What scripts measure and print, the HTTP and WebSocket calls of the integration test, and
  the statistics of the hands (VPIP and others).
- Of the replay the initial events and the comparison of results; of `assignPositions`, names
  of hands and evidence the texts.
- The SDK's reconnecting by itself: to the server it is another connection, which
  `Connections` has. How a bot is started again after an error.
- `removeSeat`, which no production code calls; deployment.
- Chips across a reload of a table: `GameServer` keeps chips and loads no table, `Connections`
  loads tables and keeps no chips. That a table loaded again has its buy-ins for chips is
  listed as a hazard, and no document promises otherwise.
- Which decision an ACTION answers: the protocol has no field for it. `GameServer` contains
  the behaviour (an ACTION delayed past a timeout moves the next turn of its seat), and no
  property forbids it.
