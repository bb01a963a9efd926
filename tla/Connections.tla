----------------------------- MODULE Connections -----------------------------
(***************************************************************************)
(* The connections of the game server (game-server/src/ws-handler.ts): a    *)
(* HELLO binds a socket to a table, which is loaded from the database when  *)
(* it is not in memory; a heartbeat drops sockets that are silent; a table  *)
(* may be terminated, and the server shut down.  What is played at a table  *)
(* is GameServer.                                                           *)
(*                                                                         *)
(* handleHello awaits the database twice, and whatever else may happen      *)
(* meanwhile.  A table in memory is its incarnation, 0 when there is none:  *)
(* a HELLO keeps hold of the one it has found.  An agent connects for       *)
(* itself, with tokens that have not expired; a HELLO with another is       *)
(* refused, like one for no table, and changes nothing.                     *)
(* Operators named for a mistake stand before the one they resemble;        *)
(* nothing uses them.                                                       *)
(***************************************************************************)
EXTENDS Integers, Sequences, FiniteSetsExt

CONSTANTS
  Sockets,              \* the connections that are ever opened
  Owner,                \* the agent of each
  Tables,
  AsksFor,              \* the tables its HELLOs are for
  Made,                 \* the tables that the lobby makes in this process
  Stored,               \* the rows of seats that there are at first
  MaxConnections,       \* MAX_CONNECTIONS_PER_AGENT
  MaxTablesPerAgent,    \* MAX_TABLES_PER_AGENT
  MaxIncarnations,      \* bound: how often tables come into memory
  MaxWaiting            \* bound: the HELLOs that wait at a time

Owners == {Owner[s] : s \in Sockets}

ASSUME ConnectionsAssumption ==
  /\ DOMAIN Owner = Sockets /\ AsksFor \in [Sockets -> SUBSET Tables]
  /\ Made \subseteq Tables
  /\ Stored \in [Tables -> SUBSET Owners]
  /\ MaxConnections \in Nat \ {0} /\ MaxTablesPerAgent \in Nat \ {0}
  /\ MaxIncarnations \in Nat /\ MaxWaiting \in Nat

VARIABLES
  phase,       \* the process: "up", "stopping" or "down"
  unopened, open,  \* the sockets not yet open, and those that are
  silent,      \* the open sockets whose peer no longer answers
  ponged,      \* pongReceived
  clients,     \* the table of each registered socket
  connCount,   \* agentConnectionCount
  agentTables, \* agentToTables
  inMemory,    \* `tables': the incarnation of each table
  seatedAt,    \* who has a seat at each incarnation
  waiting,     \* the HELLOs that await the database
  rows         \* in the database: who has a seat at each table

socketVars  == <<unopened, open, silent, ponged>>
clientVars  == <<clients, connCount, agentTables>>
loadVars    == <<inMemory, seatedAt>>
connectVars == <<phase, socketVars, clientVars, loadVars, waiting, rows>>

RegisteredSockets == DOMAIN clients

ConnectInit ==
  /\ phase = "up"
  /\ unopened = Sockets /\ open = {} /\ silent = {} /\ ponged = {}
  /\ clients = <<>>
  /\ connCount = [a \in Owners |-> 0]
  /\ agentTables = [a \in Owners |-> {}]
  /\ inMemory = [t \in Tables |-> IF t \in Made THEN 1 ELSE 0]
  /\ seatedAt = [t \in Tables |-> IF t \in Made THEN <<{}>> ELSE <<>>]
  /\ waiting = {}
  /\ rows = Stored

-----------------------------------------------------------------------------
(***************************************************************************)
(* Microtasks: the HELLOs that shared a load run on before anything else.   *)
(***************************************************************************)
Settled == \A h \in waiting : h.stage # "loaded"

\* The lobby seats an agent in memory, and it writes the row of a seat, or a lobby
\* in another process does.
TakeSeat(a, t) ==
  /\ phase # "down" /\ Settled /\ inMemory[t] # 0
  /\ seatedAt' = [seatedAt EXCEPT ![t][inMemory[t]] = @ \cup {a}]
  /\ UNCHANGED <<phase, socketVars, clientVars, inMemory, waiting, rows>>

StoreSeat(a, t) ==
  /\ phase # "down" /\ Settled
  /\ rows' = [rows EXCEPT ![t] = @ \cup {a}]
  /\ UNCHANGED <<phase, socketVars, clientVars, loadVars, waiting>>

-----------------------------------------------------------------------------
(***************************************************************************)
(* HELLO.                                                                   *)
(***************************************************************************)
\* The count and the tables are only looked at, and then changed, after all awaits.
CanRegister(s, t) ==
  LET a == Owner[s] IN
  /\ connCount[a] < MaxConnections
  /\ t \in agentTables[a] \/ Cardinality(agentTables[a]) < MaxTablesPerAgent

\* The socket may have been closed meanwhile.
Register(s, t) ==
  /\ clients' = [c \in RegisteredSockets \cup {s} |-> IF c = s THEN t ELSE clients[c]]
  /\ connCount' = [connCount EXCEPT ![Owner[s]] = @ + 1]
  /\ agentTables' = [agentTables EXCEPT ![Owner[s]] = @ \cup {t}]

\* The end of handleHello for a socket whose agent is seated.  WELCOME goes out on
\* an open socket only.
Admit(s, t) ==
  \/ CanRegister(s, t) /\ Register(s, t)
  \/ ~CanRegister(s, t) /\ UNCHANGED clientVars

IsSeated(s, t, incarnation) == Owner[s] \in seatedAt[t][incarnation]

Waiting(s, t, stage, incarnation) ==
  [socket |-> s, table |-> t, stage |-> stage, incarnation |-> incarnation]

HandleHello(s, t) ==
  /\ Settled /\ s \in open \ silent
  /\ \/ /\ inMemory[t] # 0 /\ IsSeated(s, t, inMemory[t])
        /\ Admit(s, t)
        /\ UNCHANGED waiting
     \/ /\ inMemory[t] # 0 /\ ~IsSeated(s, t, inMemory[t])
        /\ waiting' = waiting \cup {Waiting(s, t, "reload", inMemory[t])}
        /\ UNCHANGED clientVars
     \/ /\ inMemory[t] = 0
        /\ waiting' = waiting \cup {Waiting(s, t, "load", 0)}
        /\ UNCHANGED clientVars
  /\ UNCHANGED <<phase, socketVars, loadVars, rows>>

\* What the database tells of a table: who has a seat, with a token, at the moment.
LoadTableWithSeats(t) == rows[t]

LoadedAlone(h) == {h}

\* pendingTableLoads: HELLOs that wait for one table wait for the same load.
LoadedWith(h) == {g \in waiting : g.stage = "load" /\ g.table = h.table}

\* loadTableFromDb has its answer: the table is in memory, with the seats of its rows.
LoadSucceeds(h) ==
  LET t == h.table
      n == Len(seatedAt[t]) + 1
  IN  /\ Settled /\ h.stage = "load"
      /\ inMemory' = [inMemory EXCEPT ![t] = n]
      /\ seatedAt' = [seatedAt EXCEPT ![t] = Append(@, LoadTableWithSeats(t))]
      /\ waiting' = (waiting \ LoadedWith(h)) \cup
           {[g EXCEPT !.stage = "loaded", !.incarnation = n] : g \in LoadedWith(h)}
      /\ UNCHANGED <<phase, socketVars, clientVars, rows>>

\* The process ends, and with it all that is in memory.
ProcessEnds ==
  /\ phase' = "down"
  /\ unopened' = {} /\ open' = {} /\ silent' = {} /\ ponged' = {}
  /\ clients' = <<>>
  /\ connCount' = [a \in Owners |-> 0]
  /\ agentTables' = [a \in Owners |-> {}]
  /\ inMemory' = [t \in Tables |-> 0]
  /\ seatedAt' = [t \in Tables |-> <<>>]
  /\ waiting' = {}
  /\ UNCHANGED rows

\* The database fails.  The HELLOs are refused, but the promise of `finally' rejects
\* and nothing handles that: the lobby's process ends.
LoadFails(h) ==
  /\ Settled /\ h.stage = "load"
  /\ ProcessEnds

\* The HELLO runs on after the load.
GoOn(h) ==
  /\ h.stage = "loaded"
  /\ \/ /\ IsSeated(h.socket, h.table, h.incarnation)
        /\ Admit(h.socket, h.table)
        /\ waiting' = waiting \ {h}
     \/ /\ ~IsSeated(h.socket, h.table, h.incarnation)
        /\ waiting' = (waiting \ {h}) \cup {[h EXCEPT !.stage = "reload"]}
        /\ UNCHANGED clientVars
  /\ UNCHANGED <<phase, socketVars, loadVars, rows>>

\* The seats that reloadSeatsFromDb adds: those of the rows that are not in memory.
SeatsAdded(h) == LoadTableWithSeats(h.table) \ seatedAt[h.table][h.incarnation]

\* They go to the incarnation it was called with, even if that has been terminated.
\* The table has seats for all.  Who has been seated meanwhile is looked for only if
\* some seat was added, and is refused otherwise.
ReloadEnds(h) ==
  LET t == h.table IN
  /\ Settled /\ h.stage = "reload"
  /\ seatedAt' = [seatedAt EXCEPT ![t][h.incarnation] = @ \cup SeatsAdded(h)]
  /\ waiting' = waiting \ {h}
  /\ \/ SeatsAdded(h) # {} /\ Owner[h.socket] \in seatedAt'[t][h.incarnation] /\ Admit(h.socket, t)
     \/ SeatsAdded(h) = {} /\ UNCHANGED clientVars
     \/ Owner[h.socket] \notin seatedAt'[t][h.incarnation] /\ UNCHANGED clientVars
  /\ UNCHANGED <<phase, socketVars, inMemory, rows>>

\* An error is logged, and the HELLO is refused.
ReloadFails(h) ==
  /\ Settled /\ h.stage = "reload"
  /\ waiting' = waiting \ {h}
  /\ UNCHANGED <<phase, socketVars, clientVars, loadVars, rows>>

-----------------------------------------------------------------------------
(***************************************************************************)
(* Sockets open and close.                                                  *)
(***************************************************************************)
Connect(s) ==
  /\ phase = "up" /\ Settled
  /\ unopened' = unopened \ {s}
  /\ open' = open \cup {s}
  /\ ponged' = ponged \cup {s}
  /\ UNCHANGED <<phase, silent, clientVars, loadVars, waiting, rows>>

ClosedOf(a, closed) == {s \in closed \cap RegisteredSockets : Owner[s] = a}

CountForgotten(a, closed) == IF ClosedOf(a, closed) = {} THEN connCount[a] ELSE 0

\* The agent's count after these sockets have closed.
CountAfter(a, closed) ==
  LET left == connCount[a] - Cardinality(ClosedOf(a, closed))
  IN  IF left > 0 THEN left ELSE 0

\* The close handler of each of these sockets.
Close(closed) ==
  /\ open' = open \ closed
  /\ silent' = silent \ closed
  /\ clients' = [s \in RegisteredSockets \ closed |-> clients[s]]
  /\ connCount' = [a \in Owners |-> CountAfter(a, closed)]
  /\ agentTables' = [a \in Owners |->
                       agentTables[a] \ {clients[s] : s \in ClosedOf(a, closed)}]

Disconnect(s) ==
  /\ Settled
  /\ Close({s})
  /\ UNCHANGED <<phase, unopened, ponged, loadVars, waiting, rows>>

\* The peer is gone, and the connection does not notice.
FallSilent(s) ==
  /\ Settled
  /\ silent' = silent \cup {s}
  /\ UNCHANGED <<phase, unopened, open, ponged, clientVars, loadVars, waiting, rows>>

Pong(s) ==
  /\ Settled
  /\ ponged' = ponged \cup {s}
  /\ UNCHANGED <<phase, unopened, open, silent, clientVars, loadVars, waiting, rows>>

AllMarks == ponged

\* The marks that are left when a ping goes out.
MarksKept == ponged \ RegisteredSockets

\* Sockets that have not answered since the last heartbeat are closed; of a socket
\* that is closed already there is nothing to close.
Heartbeat ==
  /\ phase = "up" /\ Settled
  /\ Close((RegisteredSockets \ ponged) \cap open)
  /\ ponged' = MarksKept
  /\ UNCHANGED <<phase, unopened, loadVars, waiting, rows>>

\* A client's ACTION between two hands takes its table down (see GameServer); its
\* sockets stay.
TerminateTable(s) ==
  /\ Settled /\ s \in open \ silent
  /\ inMemory[clients[s]] # 0
  /\ inMemory' = [inMemory EXCEPT ![clients[s]] = 0]
  /\ UNCHANGED <<phase, socketVars, clientVars, seatedAt, waiting, rows>>

\* gracefulStop: no heartbeats and no connections from now on,
Shutdown ==
  /\ phase = "up" /\ Settled
  /\ phase' = "stopping"
  /\ UNCHANGED <<socketVars, clientVars, loadVars, waiting, rows>>

\* and when all clients have left, or at the deadline, the others are closed and the
\* process exits.
ForceClose == phase = "stopping" /\ Settled /\ ProcessEnds

-----------------------------------------------------------------------------
Incarnations == MapThenSumSet(LAMBDA t : Len(seatedAt[t]), Tables)

ConnectNext ==
  \/ \E a \in Owners, t \in Tables : TakeSeat(a, t) \/ StoreSeat(a, t)
  \/ \E s \in unopened : Connect(s)
  \/ \E s \in open : \E t \in AsksFor[s] : Cardinality(waiting) < MaxWaiting /\ HandleHello(s, t)
  \/ \E h \in waiting :
       \/ Incarnations < MaxIncarnations /\ LoadSucceeds(h)
       \/ LoadFails(h) \/ GoOn(h) \/ ReloadEnds(h) \/ ReloadFails(h)
  \/ \E s \in open : Disconnect(s) \/ FallSilent(s)
  \/ \E s \in open \ silent : Pong(s)
  \/ Heartbeat
  \/ \E s \in RegisteredSockets : TerminateTable(s)
  \/ Shutdown
  \/ ForceClose

\* setInterval, the deadline of gracefulStop, and microtasks, which always run.
ConnectFairness ==
  /\ WF_connectVars(Heartbeat)
  /\ WF_connectVars(ForceClose)
  /\ WF_connectVars(\E h \in waiting : GoOn(h))

ConnectSpec == ConnectInit /\ [][ConnectNext]_connectVars /\ ConnectFairness

-----------------------------------------------------------------------------
ClientsOf(a) == {s \in RegisteredSockets : Owner[s] = a}

\* No agent has more registered sockets than the limit, whatever happens between a
\* HELLO and its registration: every one of them is counted until it closes.
CountCoversClients == \A a \in Owners :
  Cardinality(ClientsOf(a)) <= connCount[a] /\ connCount[a] <= MaxConnections

\* A table in memory is never replaced by another: HELLOs that find it missing at the
\* same time must not each load it, or a hand and its players would be lost.
TableNotReplaced ==
  [][\A t \in Tables : inMemory[t] # 0 => inMemory'[t] \in {inMemory[t], 0}]_inMemory

\* A client whose peer is gone does not stay registered for ever.
SilentClientsAreDropped ==
  \A s \in Sockets : (s \in silent /\ s \in RegisteredSockets) ~> s \notin RegisteredSockets
=============================================================================
