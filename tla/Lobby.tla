-------------------------------- MODULE Lobby --------------------------------
(***************************************************************************)
(* The lobby (lobby-api/src): agents queue for a match, matched agents are  *)
(* seated at a new table, a timer fills the empty seats with bots, and      *)
(* agents make and join tables of their own (matchmaking.ts, bot-fill.ts,   *)
(* routes.ts).  What it does is written to the database as it goes          *)
(* (database/src/table-store.ts).                                           *)
(*                                                                         *)
(* The lobby's handlers await the database and nothing else for long: its   *)
(* dynamic imports are of modules already loaded.  Between two awaits a     *)
(* handler is one step.  A request that is refused changes nothing.         *)
(* Operators named for a mistake stand before the one they resemble;        *)
(* nothing uses them.                                                       *)
(***************************************************************************)
EXTENDS Filtering

CONSTANTS
  Players,         \* the agents
  Registered,      \* those the database knows
  Groups,          \* what one can queue for: variant, blinds and maxSeats
  SeatsOf,         \* maxSeats of each group
  BotFillEnabled,  \* BOT_FILL_ENABLED
  MaxTables,       \* bound: the tables that are made
  MaxHandlers      \* bound: what agents and timers set going at a time

ASSUME LobbyAssumption ==
  /\ Registered \subseteq Players
  /\ Players \cap Nat = {}  \* bots are known by their number
  /\ SeatsOf \in [Groups -> 2..6]
  /\ BotFillEnabled \in BOOLEAN /\ MaxTables \in Nat /\ MaxHandlers \in Nat

MinPlayers == 2

VARIABLES
  queue,      \* who waits: [agent, group, old], `old' after the timeout
  tables,     \* the tables in memory: [size, at], `at' who sits on which seat
  handlers,   \* the handlers that await the database, one per table and kind
  fillTimers, \* the tables with a pending bot fill
  botCounter,
  filled,     \* history: the tables that were filled
  storedTables, storedAgents,  \* the rows of the database
  storedSeats                  \* and who has which seat of which table

storeVars == <<storedTables, storedAgents, storedSeats>>
lobbyVars == <<queue, tables, handlers, fillTimers, botCounter, filled, storeVars>>

LobbyInit ==
  /\ queue = <<>> /\ tables = <<>> /\ handlers = {} /\ fillTimers = {}
  /\ botCounter = 0 /\ filled = {}
  /\ storedTables = {} /\ storedAgents = Registered /\ storedSeats = <<>>

-----------------------------------------------------------------------------
(***************************************************************************)
(* Tables and their seats.                                                  *)
(***************************************************************************)
TakenSeats(table) == DOMAIN table.at
EmptySeats(table) == (0..(table.size - 1)) \ TakenSeats(table)
SitsAt(agent, table) == agent \in Range(table.at)

\* addSeat, which refuses an agent that sits there and a full table.
CanSit(agent, table) == EmptySeats(table) # {} /\ ~SitsAt(agent, table)
NextSeat(table) == Min(EmptySeats(table))
Seated(agent, table) ==
  [table EXCEPT !.at = [n \in DOMAIN table.at \cup {NextSeat(table)} |->
                          IF n \in DOMAIN table.at THEN table.at[n] ELSE agent]]

SeatAll(agents, size) ==
  FoldLeft(LAMBDA table, agent : Seated(agent, table), [size |-> size, at |-> <<>>], agents)

\* A seat a handler has to write.  A bot's row in agents is written first.
SeatRow(seat, agent, isBot) == [seat |-> seat, agent |-> agent, bot |-> isBot]

\* A handler that awaits the database: it may first have to write the table's row.
\* `left' counts the seats left for bots.
Handler(kind, t, rows, left) ==
  [kind |-> kind, table |-> t, rows |-> rows, left |-> left,
   newTable |-> kind \in {"match", "create"}]

-----------------------------------------------------------------------------
(***************************************************************************)
(* The queue.                                                               *)
(***************************************************************************)
Queued(agent) == \E i \in 1..Len(queue) : queue[i].agent = agent

InGroup(waiting, group) == Those(waiting, {e \in ToSet(waiting) : e.group = group})
Without(waiting, gone) == Those(waiting, ToSet(waiting) \ ToSet(gone))
FirstFew(entries, n) == SubSeq(entries, 1, IF Len(entries) < n THEN Len(entries) ELSE n)

TooFewForAMatch(waiting) ==
  {g \in Groups : Len(InGroup(waiting, g)) > MinPlayers}

\* The groups tryMatch can make a match of.
ReadyGroups(waiting) ==
  {g \in Groups : Len(InGroup(waiting, g)) >= MinPlayers}

\* The match callback up to its first await: a table, with the agents on its seats,
\* and a handler to write them.
MatchHandler(entries, t) ==
  Handler("match", t,
    [i \in 1..Len(entries) |-> SeatRow(i - 1, entries[i].agent, FALSE)],
    SeatsOf[entries[1].group] - Len(entries))

AgentsOf(entries) == [i \in 1..Len(entries) |-> entries[i].agent]

\* The callback for several matches at once, each a sequence of entries.
MatchesFound(matches) ==
  /\ tables' = tables \o [i \in 1..Len(matches) |->
                 SeatAll(AgentsOf(matches[i]), SeatsOf[matches[i][1].group])]
  /\ handlers' = handlers \cup
       {MatchHandler(matches[i], Len(tables) + i) : i \in 1..Len(matches)}

\* enqueue, with tryMatch.
Enqueue(agent, group) ==
  LET waiting == Append(queue, [agent |-> agent, group |-> group, old |-> FALSE])
      ready   == {i \in 1..Len(waiting) : waiting[i].group \in ReadyGroups(waiting)}
      matched == FirstFew(InGroup(waiting, waiting[Min(ready)].group), MinPlayers)
  IN  /\ ~Queued(agent)
      /\ IF ready = {} THEN queue' = waiting /\ UNCHANGED <<tables, handlers>>
         ELSE /\ queue' = Without(waiting, matched)
              /\ MatchesFound(<<matched>>)
      /\ UNCHANGED <<fillTimers, botCounter, filled, storeVars>>

Dequeue(agent) ==
  /\ Queued(agent)
  /\ queue' = Those(queue, {e \in ToSet(queue) : e.agent # agent})
  /\ UNCHANGED <<tables, handlers, fillTimers, botCounter, filled, storeVars>>

\* The time passes that makes an entry old.
GrowOld(i) ==
  /\ queue' = [queue EXCEPT ![i].old = TRUE]
  /\ UNCHANGED <<tables, handlers, fillTimers, botCounter, filled, storeVars>>

OldPairs == {g \in Groups : Len(InGroup(queue, g)) > 1 /\ InGroup(queue, g)[1].old}

\* The groups whose first entry has waited long enough.
OldGroups == {g \in Groups : InGroup(queue, g) # <<>> /\ InGroup(queue, g)[1].old}

\* tryForcedMatch.
ForcedMatch ==
  LET groups  == SetToSeq(OldGroups)
      matches == [i \in 1..Len(groups) |->
                    FirstFew(InGroup(queue, groups[i]), SeatsOf[groups[i]])]
  IN  /\ BotFillEnabled /\ OldGroups # {}
      /\ queue' = Without(queue, FlattenSeq(matches))
      /\ MatchesFound(matches)
      /\ UNCHANGED <<fillTimers, botCounter, filled, storeVars>>

-----------------------------------------------------------------------------
(***************************************************************************)
(* Tables that agents make and join.                                        *)
(***************************************************************************)
CreateTable(size) ==
  /\ tables' = Append(tables, [size |-> size, at |-> <<>>])
  /\ handlers' = handlers \cup {Handler("create", Len(tables) + 1, <<>>, 0)}
  /\ UNCHANGED <<queue, fillTimers, botCounter, filled, storeVars>>

SeatCountedFromOne(table) == Cardinality(TakenSeats(table)) + 1

\* The number of the seat a new agent has got, as it is written.
SeatTaken(table) == NextSeat(table)

Join(agent, t) ==
  /\ CanSit(agent, tables[t])
  /\ tables' = [tables EXCEPT ![t] = Seated(agent, @)]
  /\ handlers' = handlers \cup
       {Handler("join", t, <<SeatRow(SeatTaken(tables[t]), agent, FALSE)>>, 0)}
  /\ UNCHANGED <<queue, fillTimers, botCounter, filled, storeVars>>

-----------------------------------------------------------------------------
(***************************************************************************)
(* Bots.                                                                    *)
(***************************************************************************)
OneEmptySlotLess(table) == Cardinality(EmptySeats(table)) - 1

EmptySlots(table) == Cardinality(EmptySeats(table))

\* scheduleFill's timer: fillTable counts the empty seats.
FillFires(t) ==
  /\ fillTimers' = fillTimers \ {t}
  /\ handlers' = handlers \cup {Handler("fill", t, <<>>, EmptySlots(tables[t]))}
  /\ UNCHANGED <<queue, tables, botCounter, filled, storeVars>>

\* One bot of fillTable: a new one is seated, unless agents have taken the seats
\* meanwhile.
SeatBot(h) ==
  LET t   == h.table
      bot == botCounter + 1
      row == SeatRow(NextSeat(tables[t]), bot, TRUE)
  IN  /\ h.kind = "fill" /\ h.rows = <<>> /\ h.left > 0
      /\ botCounter' = bot
      /\ IF CanSit(bot, tables[t])
         THEN /\ tables' = [tables EXCEPT ![t] = Seated(bot, @)]
              /\ handlers' = (handlers \ {h}) \cup {Handler("fill", t, <<row>>, h.left - 1)}
         ELSE /\ handlers' = (handlers \ {h}) \cup {Handler("fill", t, <<>>, h.left - 1)}
              /\ UNCHANGED tables
      /\ UNCHANGED <<queue, fillTimers, filled, storeVars>>

\* The bots connect: to the game server they are agents like others.
FillEnds(h) ==
  /\ h.kind = "fill" /\ h.rows = <<>> /\ h.left = 0
  /\ handlers' = handlers \ {h}
  /\ filled' = filled \cup {h.table}
  /\ UNCHANGED <<queue, tables, fillTimers, botCounter, storeVars>>

-----------------------------------------------------------------------------
(***************************************************************************)
(* The database.  A write may fail, and it fails without the rows it        *)
(* refers to.                                                               *)
(***************************************************************************)
PersistTable(h) ==
  /\ h.newTable
  /\ storedTables' = storedTables \cup {h.table}
  /\ handlers' = (handlers \ {h}) \cup {[h EXCEPT !.newTable = FALSE]}
  /\ UNCHANGED <<queue, tables, fillTimers, botCounter, filled,
                 storedAgents, storedSeats>>

\* ensureAgent for a bot, then persistSeat, which replaces what was in the seat.
PersistSeat(h) ==
  LET row == h.rows[1]
      key == <<h.table, row.seat>>
  IN  /\ ~h.newTable /\ h.rows # <<>>
      /\ storedAgents' = storedAgents \cup (IF row.bot THEN {row.agent} ELSE {})
      /\ h.table \in storedTables /\ row.agent \in storedAgents'
      /\ storedSeats' = [k \in DOMAIN storedSeats \cup {key} |->
                           IF k = key THEN row.agent ELSE storedSeats[k]]
      /\ handlers' = (handlers \ {h}) \cup {[h EXCEPT !.rows = Tail(@)]}
      /\ UNCHANGED <<queue, tables, fillTimers, botCounter, filled, storedTables>>

\* An error is logged, and what is left of the handler's rows is not written.
PersistFails(h) ==
  /\ h.newTable \/ h.rows # <<>>
  /\ handlers' = (handlers \ {h}) \cup {[h EXCEPT !.rows = <<>>, !.newTable = FALSE]}
  /\ UNCHANGED <<queue, tables, fillTimers, botCounter, filled, storeVars>>

\* The rest of a handler.  Matched agents are told, and bots are due when the match
\* has left seats for them.
HandlerEnds(h) ==
  /\ h.kind # "fill" /\ ~h.newTable /\ h.rows = <<>>
  /\ handlers' = handlers \ {h}
  /\ fillTimers' = fillTimers \cup
       {t \in {h.table} : BotFillEnabled /\ h.kind = "match" /\ h.left > 0}
  /\ UNCHANGED <<queue, tables, botCounter, filled, storeVars>>

-----------------------------------------------------------------------------
RoomForATable == Len(tables) + Len(queue) < MaxTables
RoomForAHandler == Cardinality(handlers) < MaxHandlers

LobbyNext ==
  \/ \E agent \in Players, g \in Groups : RoomForATable /\ RoomForAHandler /\ Enqueue(agent, g)
  \/ \E agent \in Players : Dequeue(agent)
  \/ \E i \in 1..Len(queue) : GrowOld(i)
  \/ ForcedMatch
  \/ \E g \in Groups : RoomForATable /\ RoomForAHandler /\ CreateTable(SeatsOf[g])
  \/ \E agent \in Players, t \in 1..Len(tables) : RoomForAHandler /\ Join(agent, t)
  \/ \E t \in fillTimers : RoomForAHandler /\ FillFires(t)
  \/ \E h \in handlers :
       \/ SeatBot(h) \/ FillEnds(h)
       \/ PersistTable(h) \/ PersistSeat(h) \/ PersistFails(h) \/ HandlerEnds(h)

\* Time passes, and tryForcedMatch is called every ten seconds.
LobbyFairness ==
  /\ \A i \in 1..Cardinality(Players) : WF_lobbyVars(i <= Len(queue) /\ GrowOld(i))
  /\ WF_lobbyVars(ForcedMatch)

LobbySpec == LobbyInit /\ [][LobbyNext]_lobbyVars /\ LobbyFairness

-----------------------------------------------------------------------------
\* Nobody waits in the queue beside somebody to play with: an enqueue makes one match
\* at most, and that is always enough, withdrawals and forced matches included.
NoMatchWaits == \A g \in Groups : Len(InGroup(queue, g)) < MinPlayers

\* A filled table is full, though agents sit down while its bots are being seated,
\* and others have sat down since the match.
FilledTableIsFull == \A t \in filled : EmptySeats(tables[t]) = {}

\* A row of the database is a seat of the table in memory, whichever of the handlers
\* that write to a table fail and in whatever order their writes are made.
RowsAreSeats == \A key \in DOMAIN storedSeats :
  /\ key[2] \in TakenSeats(tables[key[1]])
  /\ tables[key[1]].at[key[2]] = storedSeats[key]

\* With bots, an agent does not wait for ever: it withdraws, or it is given a table,
\* alone if need be.
QueuedGetATable == \A agent \in Players : Queued(agent) ~> ~Queued(agent)
=============================================================================
