-------------------------- MODULE TransportProofs ---------------------------
(***************************************************************************)
(* What stands between an agent and its table, for any sockets, agents,    *)
(* tables, limits and events: the count of connections covers the clients  *)
(* and no table in memory is loaded over; the event buffer sends all that  *)
(* was missed; the rate limiter accepts no more than a bucket and its      *)
(* refills allow.                                                          *)
(***************************************************************************)
EXTENDS Connections, EventRingBuffer, RateLimiter, CommonProofs

(***************************************************************************)
(* The connections (Connections).                                          *)
(***************************************************************************)
\* What the maps of the handler and its database may hold.
ConnTypeOK ==
  /\ open \subseteq Sockets /\ unopened \subseteq Sockets
  /\ inMemory \in [Tables -> Nat]
  /\ seatedAt \in [Tables -> Seq(SUBSET Owners)]
  /\ rows \in [Tables -> SUBSET Owners]
  /\ waiting \subseteq
       [socket : Sockets, table : Tables, stage : {"load", "loaded", "reload"},
        incarnation : Nat]

\* A reload is of an incarnation that was once in memory.
IncarnationsExist ==
  /\ \A t \in Tables : inMemory[t] <= Len(seatedAt[t])
  /\ \A h \in waiting : h.stage # "load" =>
       h.incarnation \in 1..Len(seatedAt[h.table])

\* A load is under way for tables that are not in memory only.
LoadsAreNeeded ==
  \A h \in waiting : h.stage = "load" => inMemory[h.table] = 0

\* What a close takes away from the count it takes away from the clients.
CountsCover ==
  /\ IsFiniteSet(RegisteredSockets) /\ RegisteredSockets \subseteq Sockets
  /\ connCount \in [Owners -> 0..MaxConnections]
  /\ \A a \in Owners : Cardinality(ClientsOf(a)) <= connCount[a]

\* The inductive invariant of the connections.
ConnInv == ConnTypeOK /\ IncarnationsExist /\ LoadsAreNeeded /\ CountsCover

\* A socket is of an agent.
LEMMA OwnersOwn == \A s \in Sockets : Owner[s] \in Owners
  BY DEF Owners

\* A process that has just started counts right.
LEMMA NobodyIsRegistered ==
  ASSUME clients = <<>>, connCount = [a \in Owners |-> 0]
  PROVE  CountsCover
<1>1. RegisteredSockets = {}
  BY DEF RegisteredSockets
<1>2. \A a \in Owners : ClientsOf(a) = {}
  BY <1>1 DEF ClientsOf
<1>3. MaxConnections \in Nat
  BY ConnectionsAssumption
<1>4. connCount \in [Owners -> 0..MaxConnections]
  BY <1>3
<1>5. \A a \in Owners : Cardinality(ClientsOf(a)) <= connCount[a]
  BY <1>2, FS_EmptySet
<1> QED
  BY <1>1, <1>4, <1>5, FS_EmptySet DEF CountsCover

\* Before the first socket.
LEMMA ConnInitInv == ASSUME ConnectInit PROVE ConnInv
<1>1. CountsCover
  BY NobodyIsRegistered DEF ConnectInit
<1>2. \A t \in Tables : seatedAt[t] \in Seq(SUBSET Owners)
  <2>1. {} \in SUBSET Owners
    OBVIOUS
  <2>2. <<{}>> \in Seq(SUBSET Owners) /\ <<>> \in Seq(SUBSET Owners)
    BY <2>1
  <2> QED
    BY <2>2 DEF ConnectInit
<1>3. \A t \in Tables : inMemory[t] <= Len(seatedAt[t])
  BY DEF ConnectInit
<1> QED
  BY <1>1, <1>2, <1>3, ConnectionsAssumption
  DEF ConnectInit, ConnInv, ConnTypeOK, IncarnationsExist, LoadsAreNeeded

-----------------------------------------------------------------------------
(***************************************************************************)
(* The counts.                                                              *)
(***************************************************************************)
LEMMA RegisterKeepsCounts ==
  ASSUME CountsCover, NEW s \in Sockets, NEW t, CanRegister(s, t), Register(s, t)
  PROVE  CountsCover'
<1>1. RegisteredSockets' = RegisteredSockets \cup {s}
  BY DEF Register, RegisteredSockets
<1>2. Owner[s] \in Owners /\ MaxConnections \in Nat
  BY OwnersOwn, ConnectionsAssumption
<1>3. connCount' \in [Owners -> 0..MaxConnections]
  BY <1>2 DEF Register, CanRegister, CountsCover
<1>4. IsFiniteSet(RegisteredSockets')
  BY <1>1, FS_AddElement DEF CountsCover
<1>5. ASSUME NEW a \in Owners
      PROVE  Cardinality(ClientsOf(a)') <= connCount'[a]
  <2>1. IsFiniteSet(ClientsOf(a))
    BY FS_Subset DEF CountsCover, ClientsOf
  <2>2. Cardinality(ClientsOf(a)) \in Nat /\ connCount[a] \in 0..MaxConnections
    BY <2>1, FS_CardinalityType DEF CountsCover
  <2>3. CASE a = Owner[s]
    <3>1. ClientsOf(a)' = ClientsOf(a) \cup {s}
      BY <1>1, <2>3 DEF ClientsOf
    <3>2. Cardinality(ClientsOf(a)') <= Cardinality(ClientsOf(a)) + 1
      BY <2>1, <2>2, <3>1, FS_AddElement
    <3>3. connCount'[a] = connCount[a] + 1
      BY <2>3 DEF Register, CountsCover
    <3>4. Cardinality(ClientsOf(a)') \in Nat
      BY <2>1, <3>1, FS_AddElement, FS_CardinalityType
    <3> QED
      BY <2>2, <3>2, <3>3, <3>4 DEF CountsCover
  <2>4. CASE a # Owner[s]
    <3>1. ClientsOf(a)' = ClientsOf(a)
      BY <1>1, <2>4 DEF ClientsOf
    <3>2. connCount'[a] = connCount[a]
      BY <2>4 DEF Register, CountsCover
    <3> QED
      BY <3>1, <3>2 DEF CountsCover
  <2> QED
    BY <2>3, <2>4
<1> QED
  BY <1>1, <1>3, <1>4, <1>5 DEF CountsCover

\* Registering a socket, or being refused at the limit, keeps the counts.
LEMMA AdmitKeepsCounts ==
  ASSUME CountsCover, NEW s \in Sockets, NEW t, Admit(s, t)
  PROVE  CountsCover'
<1>1. CASE UNCHANGED clientVars
  BY <1>1 DEF clientVars, CountsCover, RegisteredSockets, ClientsOf
<1> QED
  BY <1>1, RegisterKeepsCounts DEF Admit

\* Sockets that close keep the counts, each once, registered or not.
LEMMA CloseKeepsCounts ==
  ASSUME CountsCover, NEW closed, Close(closed)
  PROVE  CountsCover'
<1>1. RegisteredSockets' = RegisteredSockets \ closed
  BY DEF Close, RegisteredSockets
<1>2. IsFiniteSet(RegisteredSockets')
  BY <1>1, FS_Subset DEF CountsCover
<1>3. ASSUME NEW a \in Owners
      PROVE  /\ CountAfter(a, closed) \in 0..MaxConnections
             /\ Cardinality(ClientsOf(a)') <= CountAfter(a, closed)
  <2>1. IsFiniteSet(ClientsOf(a))
    BY FS_Subset DEF CountsCover, ClientsOf
  <2>2. ClosedOf(a, closed) = ClientsOf(a) \cap closed
    BY DEF ClosedOf, ClientsOf
  <2>3. ClientsOf(a)' = ClientsOf(a) \ closed
    BY <1>1 DEF ClientsOf
  <2>4. IsFiniteSet(ClosedOf(a, closed))
    BY <2>1, <2>2, FS_Subset
  <2>5. Cardinality(ClientsOf(a)')
          = Cardinality(ClientsOf(a)) - Cardinality(ClosedOf(a, closed))
    BY <2>1, <2>2, <2>3, FS_Difference
  <2>6. /\ Cardinality(ClientsOf(a)) \in Nat
        /\ Cardinality(ClosedOf(a, closed)) \in Nat
        /\ Cardinality(ClientsOf(a)) <= connCount[a]
        /\ connCount[a] \in 0..MaxConnections
    BY <2>1, <2>4, FS_CardinalityType DEF CountsCover
  <2>7. MaxConnections \in Nat
    BY ConnectionsAssumption
  <2> QED
    BY <2>5, <2>6, <2>7 DEF CountAfter
<1>4. connCount' \in [Owners -> 0..MaxConnections]
  BY <1>3 DEF Close
<1>5. \A a \in Owners : Cardinality(ClientsOf(a)') <= connCount'[a]
  BY <1>3 DEF Close
<1> QED
  BY <1>1, <1>2, <1>4, <1>5 DEF CountsCover

\* Every step keeps the counts.
LEMMA ConnNextCounts ==
  ASSUME ConnInv, [ConnectNext]_connectVars PROVE CountsCover'
<1> USE DEF ConnInv, ConnTypeOK
<1>1. CASE UNCHANGED clientVars
  BY <1>1 DEF clientVars, CountsCover, RegisteredSockets, ClientsOf
<1>2. ASSUME NEW s \in open, NEW t, HandleHello(s, t) PROVE CountsCover'
  BY <1>1, <1>2, AdmitKeepsCounts DEF HandleHello
<1>3. ASSUME NEW h \in waiting, GoOn(h) \/ ReloadEnds(h) PROVE CountsCover'
  <2>1. h.socket \in Sockets
    OBVIOUS
  <2> QED
    BY <1>1, <1>3, <2>1, AdmitKeepsCounts DEF GoOn, ReloadEnds
<1>4. CASE ProcessEnds
  <2>1. clients' = <<>> /\ connCount' = [a \in Owners |-> 0]
    BY <1>4 DEF ProcessEnds
  <2>2. RegisteredSockets' = {}
    BY <2>1 DEF RegisteredSockets
  <2>3. \A a \in Owners : ClientsOf(a)' = {}
    BY <2>2 DEF ClientsOf
  <2>4. MaxConnections \in Nat
    BY ConnectionsAssumption
  <2>5. connCount' \in [Owners -> 0..MaxConnections]
    BY <2>1, <2>4
  <2>6. ASSUME NEW a \in Owners PROVE Cardinality(ClientsOf(a)') <= connCount'[a]
    <3>1. ClientsOf(a)' = {}
      BY <2>3
    <3>2. Cardinality(ClientsOf(a)') = 0
      BY <3>1, FS_EmptySet
    <3> QED
      BY <2>1, <3>2
  <2> QED
    BY <2>2, <2>5, <2>6, FS_EmptySet DEF CountsCover
<1>5. ASSUME NEW s, Disconnect(s) PROVE CountsCover'
  BY <1>5, CloseKeepsCounts DEF Disconnect
<1>6. CASE Heartbeat
  BY <1>6, CloseKeepsCounts DEF Heartbeat
<1> HIDE DEF ConnInv, ConnTypeOK
<1>7. CASE UNCHANGED connectVars
  BY <1>1, <1>7 DEF connectVars
<1>8. CASE ConnectNext
  <2>1. ASSUME NEW a \in Owners, NEW t \in Tables, TakeSeat(a, t) \/ StoreSeat(a, t)
        PROVE  UNCHANGED clientVars
    BY <2>1 DEF TakeSeat, StoreSeat
  <2>2. ASSUME NEW s, Connect(s) \/ FallSilent(s) \/ Pong(s) \/ TerminateTable(s)
        PROVE  UNCHANGED clientVars
    BY <2>2 DEF Connect, FallSilent, Pong, TerminateTable
  <2>3. ASSUME NEW h \in waiting, LoadSucceeds(h) \/ ReloadFails(h)
        PROVE  UNCHANGED clientVars
    BY <2>3 DEF LoadSucceeds, ReloadFails
  <2>4. ASSUME Shutdown PROVE UNCHANGED clientVars
    BY <2>4 DEF Shutdown
  <2>5. ASSUME NEW h \in waiting, LoadFails(h) PROVE CountsCover'
    BY <1>4, <2>5 DEF LoadFails
  <2>6. ASSUME ForceClose PROVE CountsCover'
    BY <1>4, <2>6 DEF ForceClose
  <2> QED
    BY <1>1, <1>2, <1>3, <1>5, <1>6, <1>8, <2>1, <2>2, <2>3, <2>4, <2>5, <2>6
    DEF ConnectNext
<1> QED
  BY <1>7, <1>8

-----------------------------------------------------------------------------
(***************************************************************************)
(* Loading tables.                                                          *)
(***************************************************************************)
Loading == ConnTypeOK /\ IncarnationsExist /\ LoadsAreNeeded

\* Who is seated at an incarnation of a table does not change which there are.
LEMMA SeatingKeepsLoading ==
  ASSUME Loading, NEW t \in Tables, NEW n \in 1..Len(seatedAt[t]),
         NEW who \in SUBSET Owners,
         seatedAt' = [seatedAt EXCEPT ![t][n] = @ \cup who]
  PROVE  /\ seatedAt' \in [Tables -> Seq(SUBSET Owners)]
         /\ \A u \in Tables : Len(seatedAt'[u]) = Len(seatedAt[u])
<1> DEFINE seq == seatedAt[t]
           e == seq[n] \cup who
<1>1. seq \in Seq(SUBSET Owners)
  BY DEF Loading, ConnTypeOK
<1>2. e \in SUBSET Owners
  BY <1>1
<1>3. seatedAt' = [seatedAt EXCEPT ![t] = [seq EXCEPT ![n] = e]]
  BY DEF Loading, ConnTypeOK
<1>4. [seq EXCEPT ![n] = e] \in Seq(SUBSET Owners) /\ Len([seq EXCEPT ![n] = e]) = Len(seq)
  BY <1>1, <1>2, ExceptSeq
<1> QED
  BY <1>3, <1>4 DEF Loading, ConnTypeOK

\* A load that ends puts a new incarnation in memory.
LEMMA LoadKeepsLoading ==
  ASSUME Loading, NEW h \in waiting, LoadSucceeds(h) PROVE Loading'
<1> DEFINE t == h.table
           n == Len(seatedAt[t]) + 1
<1>1. t \in Tables /\ n \in Nat \ {0} /\ rows[t] \in SUBSET Owners
  BY DEF Loading, ConnTypeOK
<1>2. /\ inMemory' = [inMemory EXCEPT ![t] = n]
      /\ seatedAt' = [seatedAt EXCEPT ![t] = Append(@, rows[t])]
      /\ waiting' = (waiting \ LoadedWith(h)) \cup
           {[g EXCEPT !.stage = "loaded", !.incarnation = n] : g \in LoadedWith(h)}
      /\ UNCHANGED rows /\ open' = open /\ unopened' = unopened
  BY DEF LoadSucceeds, LoadTableWithSeats, socketVars
<1>3. seatedAt'[t] \in Seq(SUBSET Owners) /\ Len(seatedAt'[t]) = n
  <2>1. seatedAt[t] \in Seq(SUBSET Owners)
    BY <1>1 DEF Loading, ConnTypeOK
  <2>2. seatedAt'[t] = Append(seatedAt[t], rows[t])
    BY <1>1, <1>2 DEF Loading, ConnTypeOK
  <2> QED
    BY <1>1, <2>1, <2>2, AppendProperties
<1>4. \A u \in Tables \ {t} : seatedAt'[u] = seatedAt[u] /\ inMemory'[u] = inMemory[u]
  BY <1>2 DEF Loading, ConnTypeOK
<1>5. ASSUME NEW g \in waiting'
      PROVE  /\ g \in [socket : Sockets, table : Tables,
                       stage : {"load", "loaded", "reload"}, incarnation : Nat]
             /\ \/ g \in waiting \ LoadedWith(h)
                \/ g.table = t /\ g.stage = "loaded" /\ g.incarnation = n
  <2>1. CASE g \in waiting \ LoadedWith(h)
    BY <2>1 DEF Loading, ConnTypeOK
  <2>2. ASSUME NEW f \in LoadedWith(h),
               g = [f EXCEPT !.stage = "loaded", !.incarnation = n]
        PROVE  /\ g \in [socket : Sockets, table : Tables,
                         stage : {"load", "loaded", "reload"}, incarnation : Nat]
               /\ g.table = t /\ g.stage = "loaded" /\ g.incarnation = n
    BY <1>1, <2>2 DEF LoadedWith, Loading, ConnTypeOK
  <2> QED
    BY <1>2, <2>1, <2>2
<1>6. seatedAt' \in [Tables -> Seq(SUBSET Owners)]
  BY <1>1, <1>2, <1>3 DEF Loading, ConnTypeOK
<1>7. inMemory' \in [Tables -> Nat] /\ inMemory'[t] = n
  BY <1>1, <1>2 DEF Loading, ConnTypeOK
<1>8. ConnTypeOK'
  BY <1>2, <1>5, <1>6, <1>7 DEF Loading, ConnTypeOK
<1>9. IncarnationsExist'
  <2>1. \A u \in Tables : inMemory'[u] <= Len(seatedAt'[u])
    BY <1>1, <1>3, <1>4, <1>7 DEF Loading, IncarnationsExist
  <2>2. ASSUME NEW g \in waiting', g.stage # "load"
        PROVE  g.incarnation \in 1..Len(seatedAt'[g.table])
    <3>1. CASE g \in waiting \ LoadedWith(h)
      <4>1. g.incarnation \in 1..Len(seatedAt[g.table]) /\ g.table \in Tables
        BY <2>2, <3>1 DEF Loading, ConnTypeOK, IncarnationsExist
      <4>2. g.table = t => Len(seatedAt'[g.table]) = Len(seatedAt[g.table]) + 1
        BY <1>3
      <4>3. Len(seatedAt[g.table]) \in Nat
        BY <4>1 DEF Loading, ConnTypeOK
      <4> QED
        BY <1>4, <4>1, <4>2, <4>3
    <3>2. CASE g.table = t /\ g.incarnation = n
      BY <1>1, <1>3, <3>2
    <3> QED
      BY <1>5, <3>1, <3>2
  <2> QED
    BY <2>1, <2>2 DEF IncarnationsExist
<1>10. ASSUME NEW g \in waiting', g.stage = "load"
       PROVE  inMemory'[g.table] = 0
  <2>1. g \in waiting \ LoadedWith(h)
    BY <1>5, <1>10
  <2>2. g.table \in Tables \ {t}
    BY <1>10, <2>1 DEF LoadedWith, Loading, ConnTypeOK
  <2> QED
    BY <1>4, <1>10, <2>1, <2>2 DEF Loading, LoadsAreNeeded
<1> QED
  BY <1>8, <1>9, <1>10 DEF Loading, LoadsAreNeeded

\* A restart forgets every incarnation and every load.
LEMMA ProcessEndsLoading == ASSUME Loading, ProcessEnds PROVE Loading'
<1>1. \A t \in Tables : <<>> \in Seq(SUBSET Owners) /\ Len(<<>>) = 0
  OBVIOUS
<1>2. seatedAt' \in [Tables -> Seq(SUBSET Owners)]
  BY DEF ProcessEnds
<1>3. \A t \in Tables : inMemory'[t] <= Len(seatedAt'[t])
  BY DEF ProcessEnds
<1> QED
  BY <1>2, <1>3
  DEF ProcessEnds, Loading, ConnTypeOK, IncarnationsExist, LoadsAreNeeded

\* Steps that leave the tables as they are, and let HELLOs end, or wait for a reload.
LEMMA QuietKeepsLoading ==
  ASSUME Loading, UNCHANGED <<inMemory, rows, seatedAt>>,
         open' \subseteq Sockets, unopened' \subseteq Sockets,
         \A h \in waiting' : \/ h \in waiting
           \/ /\ h \in [socket : Sockets, table : Tables,
                        stage : {"load", "loaded", "reload"}, incarnation : Nat]
              /\ h.stage # "load" => h.incarnation \in 1..Len(seatedAt[h.table])
              /\ h.stage = "load" => inMemory[h.table] = 0
  PROVE  Loading'
  BY DEF Loading, ConnTypeOK, IncarnationsExist, LoadsAreNeeded

\* A HELLO loads a table only if it is not in memory.
LEMMA HelloKeepsLoading ==
  ASSUME Loading, NEW s \in open, NEW t \in Tables, HandleHello(s, t)
  PROVE  Loading'
<1>1. s \in Sockets /\ inMemory[t] \in Nat /\ inMemory[t] <= Len(seatedAt[t])
      /\ Len(seatedAt[t]) \in Nat
  BY DEF Loading, ConnTypeOK, IncarnationsExist
<1>2. ASSUME NEW h \in waiting', h \notin waiting
      PROVE  /\ h \in [socket : Sockets, table : Tables,
                       stage : {"load", "loaded", "reload"}, incarnation : Nat]
             /\ h.stage # "load" => h.incarnation \in 1..Len(seatedAt[h.table])
             /\ h.stage = "load" => inMemory[h.table] = 0
  <2>1. CASE h = Waiting(s, t, "reload", inMemory[t]) /\ inMemory[t] # 0
    BY <1>1, <2>1 DEF Waiting
  <2>2. CASE h = Waiting(s, t, "load", 0) /\ inMemory[t] = 0
    BY <1>1, <2>2 DEF Waiting
  <2> QED
    BY <1>2, <2>1, <2>2 DEF HandleHello
<1>3. UNCHANGED <<inMemory, rows, seatedAt, open, unopened>>
  BY DEF HandleHello, loadVars, socketVars
<1>4. open' \subseteq Sockets /\ unopened' \subseteq Sockets
  BY <1>3 DEF Loading, ConnTypeOK
<1> QED
  BY <1>2, <1>3, <1>4, QuietKeepsLoading

\* Going on after a load reloads the seats of the incarnation it found.
LEMMA GoOnKeepsLoading ==
  ASSUME Loading, NEW h \in waiting, GoOn(h) PROVE Loading'
<1>1. h \in [socket : Sockets, table : Tables,
             stage : {"load", "loaded", "reload"}, incarnation : Nat]
      /\ h.incarnation \in 1..Len(seatedAt[h.table])
  BY DEF GoOn, Loading, ConnTypeOK, IncarnationsExist
<1>2. ASSUME NEW g \in waiting', g \notin waiting
      PROVE  /\ g \in [socket : Sockets, table : Tables,
                       stage : {"load", "loaded", "reload"}, incarnation : Nat]
             /\ g.stage # "load" => g.incarnation \in 1..Len(seatedAt[g.table])
             /\ g.stage = "load" => inMemory[g.table] = 0
  <2>1. g = [h EXCEPT !.stage = "reload"]
    BY <1>2 DEF GoOn
  <2> QED
    BY <1>1, <2>1
<1>3. UNCHANGED <<inMemory, rows, seatedAt, open, unopened>>
  BY DEF GoOn, loadVars, socketVars
<1>4. open' \subseteq Sockets /\ unopened' \subseteq Sockets
  BY <1>3 DEF Loading, ConnTypeOK
<1> QED
  BY <1>2, <1>3, <1>4, QuietKeepsLoading

\* Seats come to incarnations that there have been.
LEMMA SeatsKeepLoading ==
  ASSUME Loading, NEW t \in Tables, NEW n \in 1..Len(seatedAt[t]),
         NEW who \in SUBSET Owners,
         seatedAt' = [seatedAt EXCEPT ![t][n] = @ \cup who],
         waiting' \subseteq waiting, UNCHANGED <<inMemory, rows, open, unopened>>
  PROVE  Loading'
<1>1. /\ seatedAt' \in [Tables -> Seq(SUBSET Owners)]
      /\ \A u \in Tables : Len(seatedAt'[u]) = Len(seatedAt[u])
  BY SeatingKeepsLoading
<1>2. \A h \in waiting' : h \in waiting /\ h.table \in Tables
  BY DEF Loading, ConnTypeOK
<1>3. ConnTypeOK'
  BY <1>1 DEF Loading, ConnTypeOK
<1>4. IncarnationsExist'
  BY <1>1, <1>2 DEF Loading, IncarnationsExist
<1>5. LoadsAreNeeded'
  BY <1>2 DEF Loading, LoadsAreNeeded
<1> QED
  BY <1>3, <1>4, <1>5 DEF Loading

\* A seat taken in memory.
LEMMA TakeSeatKeepsLoading ==
  ASSUME Loading, NEW a \in Owners, NEW t \in Tables, TakeSeat(a, t) PROVE Loading'
<1>1. inMemory[t] \in 1..Len(seatedAt[t])
  BY DEF Loading, ConnTypeOK, IncarnationsExist, TakeSeat
<1>2. seatedAt' = [seatedAt EXCEPT ![t][inMemory[t]] = @ \cup {a}]
      /\ UNCHANGED <<waiting, inMemory, rows, open, unopened>>
  BY DEF TakeSeat, socketVars
<1>3. waiting' \subseteq waiting /\ {a} \in SUBSET Owners
  BY <1>2
<1> DEFINE n == inMemory[t]
           who == {a}
<1>4. n \in 1..Len(seatedAt[t]) /\ who \in SUBSET Owners
      /\ seatedAt' = [seatedAt EXCEPT ![t][n] = @ \cup who]
  BY <1>1, <1>2, <1>3
<1> HIDE DEF n, who
<1> QED
  BY <1>2, <1>3, <1>4, SeatsKeepLoading

\* Seats loaded again.
LEMMA ReloadKeepsLoading ==
  ASSUME Loading, NEW h \in waiting, ReloadEnds(h) PROVE Loading'
<1>1. h.table \in Tables /\ h.incarnation \in 1..Len(seatedAt[h.table])
      /\ rows[h.table] \in SUBSET Owners
  BY DEF ReloadEnds, Loading, ConnTypeOK, IncarnationsExist
<1>2. seatedAt' = [seatedAt EXCEPT ![h.table][h.incarnation] = @ \cup rows[h.table]]
      /\ waiting' = waiting \ {h} /\ UNCHANGED <<inMemory, rows, open, unopened>>
  BY DEF ReloadEnds, SeatsAdded, LoadTableWithSeats, socketVars
<1> QED
  BY <1>1, <1>2, SeatsKeepLoading

\* Every step keeps Loading.
LEMMA ConnNextLoading == ASSUME ConnInv, [ConnectNext]_connectVars PROVE Loading'
<1>0. Loading /\ RegisteredSockets \subseteq Sockets
  BY DEF ConnInv, Loading, CountsCover
<1>1. CASE UNCHANGED connectVars
  BY <1>0, <1>1
  DEF connectVars, loadVars, socketVars, Loading, ConnTypeOK, IncarnationsExist, LoadsAreNeeded
<1>2. ASSUME NEW a \in Owners, NEW t \in Tables, StoreSeat(a, t) PROVE Loading'
  BY <1>0, <1>2
  DEF StoreSeat, loadVars, socketVars, Loading, ConnTypeOK, IncarnationsExist, LoadsAreNeeded
<1>3. ASSUME NEW s \in unopened, Connect(s) PROVE Loading'
  BY <1>0, <1>3, QuietKeepsLoading DEF Connect, loadVars, Loading, ConnTypeOK
<1>4. ASSUME NEW s \in open, NEW t \in AsksFor[s], HandleHello(s, t) PROVE Loading'
  <2>1. t \in Tables
    BY <1>0, <1>4, ConnectionsAssumption DEF Loading, ConnTypeOK
  <2> QED
    BY <1>0, <1>4, <2>1, HelloKeepsLoading
<1>5. ASSUME NEW h \in waiting, ReloadFails(h) PROVE Loading'
  BY <1>0, <1>5, QuietKeepsLoading
  DEF ReloadFails, loadVars, socketVars, Loading, ConnTypeOK
<1>6. ASSUME NEW s \in open, Disconnect(s) PROVE Loading'
  BY <1>0, <1>6, QuietKeepsLoading DEF Disconnect, Close, loadVars, Loading, ConnTypeOK
<1>7. ASSUME NEW s \in open, FallSilent(s) \/ Pong(s) PROVE Loading'
  BY <1>0, <1>7, QuietKeepsLoading DEF FallSilent, Pong, loadVars, Loading, ConnTypeOK
<1>8. CASE Heartbeat
  BY <1>0, <1>8, QuietKeepsLoading DEF Heartbeat, Close, loadVars, Loading, ConnTypeOK
<1>9. ASSUME NEW s \in RegisteredSockets, TerminateTable(s) PROVE Loading'
  <2>1. /\ inMemory' = [inMemory EXCEPT ![clients[s]] = 0]
        /\ UNCHANGED <<open, unopened, seatedAt, waiting, rows>>
    BY <1>9 DEF TerminateTable, socketVars
  <2>2. \A t \in Tables : inMemory'[t] \in {inMemory[t], 0}
    BY <1>0, <2>1 DEF Loading, ConnTypeOK
  <2>3. inMemory' \in [Tables -> Nat]
    BY <1>0, <2>1, <2>2 DEF Loading, ConnTypeOK
  <2>4. \A t \in Tables : Len(seatedAt[t]) \in Nat
    BY <1>0 DEF Loading, ConnTypeOK
  <2> QED
    BY <1>0, <2>1, <2>2, <2>3, <2>4
    DEF Loading, ConnTypeOK, IncarnationsExist, LoadsAreNeeded
<1>10. CASE Shutdown
  BY <1>0, <1>10
  DEF Shutdown, loadVars, socketVars, Loading, ConnTypeOK, IncarnationsExist, LoadsAreNeeded
<1>11. ASSUME NEW h \in waiting, LoadFails(h) PROVE Loading'
  BY <1>0, <1>11, ProcessEndsLoading DEF LoadFails
<1>12. CASE ForceClose
  BY <1>0, <1>12, ProcessEndsLoading DEF ForceClose
<1> QED
  BY <1>0, <1>1, <1>2, <1>3, <1>4, <1>5, <1>6, <1>7, <1>8, <1>9, <1>10, <1>11, <1>12,
     TakeSeatKeepsLoading, LoadKeepsLoading, GoOnKeepsLoading, ReloadKeepsLoading
  DEF ConnectNext

-----------------------------------------------------------------------------
\* Sockets are counted, and HELLOs wait for tables that are not there.
THEOREM ConnInvHolds == ConnectSpec => []ConnInv
<1>1. ASSUME ConnInv, [ConnectNext]_connectVars PROVE ConnInv'
  BY <1>1, ConnNextCounts, ConnNextLoading DEF ConnInv, Loading
<1> QED
  BY <1>1, ConnInitInv, PTL DEF ConnectSpec

\* No agent has more registered sockets than the limit: all are counted until they
\* close, whatever happens while a HELLO waits.
THEOREM ClientsAreCounted == ConnectSpec => []CountCoversClients
<1>1. ConnInv => CountCoversClients
  BY ConnectionsAssumption DEF ConnInv, CountsCover, CountCoversClients
<1> QED
  BY <1>1, ConnInvHolds, PTL

\* Of the HELLOs that find a table missing, however many and in whatever order, one
\* load puts it into memory.
THEOREM TablesAreLoadedOnce == ConnectSpec => TableNotReplaced
<1>1. ASSUME ConnInv, [ConnectNext]_connectVars, NEW t \in Tables, inMemory[t] # 0
      PROVE  inMemory'[t] \in {inMemory[t], 0}
  <2>1. ASSUME NEW h \in waiting, LoadSucceeds(h)
        PROVE  inMemory'[t] = inMemory[t]
    BY <1>1, <2>1 DEF LoadSucceeds, ConnInv, ConnTypeOK, LoadsAreNeeded
  <2>2. ASSUME NEW s, TerminateTable(s) PROVE inMemory'[t] \in {inMemory[t], 0}
    BY <2>2 DEF TerminateTable, ConnInv, ConnTypeOK
  <2>3. ASSUME ProcessEnds PROVE inMemory'[t] = 0
    BY <2>3 DEF ProcessEnds
  <2> QED
    BY <1>1, <2>1, <2>2, <2>3
    DEF ConnectNext, connectVars, loadVars, TakeSeat, StoreSeat, Connect, HandleHello,
        LoadFails, GoOn, ReloadEnds, ReloadFails, Disconnect, FallSilent, Pong, Heartbeat,
        Shutdown, ForceClose
<1>2. ASSUME ConnInv, [ConnectNext]_connectVars
      PROVE  [\A t \in Tables : inMemory[t] # 0 => inMemory'[t] \in {inMemory[t], 0}]_inMemory
  BY <1>1, <1>2
<1> QED
  BY <1>2, ConnInvHolds, PTL DEF ConnectSpec, TableNotReplaced

-----------------------------------------------------------------------------
(***************************************************************************)
(* The events of a table (EventRingBuffer).                                *)
(***************************************************************************)
Entries == [eventId : Nat, event : Events]

\* The entry of the n-th event since the buffer was new or cleared.
EntryOf(n) == [eventId |-> n, event |-> happened[n]]

\* How many events are no longer kept.
Dropped == Len(happened) - Len(buffer)

\* The invariant: the buffer holds the last events there were, each under its number,
\* and at least one if there was any.
RingInv ==
  /\ happened \in Seq(Events)
  /\ nextEventId = Len(happened) + 1
  /\ buffer \in Seq(Entries)
  /\ Len(buffer) <= Len(happened) /\ Len(buffer) <= MaxSize
  /\ Len(buffer) < MaxSize => Len(buffer) = Len(happened)
  /\ buffer = <<>> => happened = <<>>
  /\ \A i \in 1..Len(buffer) : buffer[i] = EntryOf(Dropped + i)

\* A new buffer.
LEMMA RingInitInv == ASSUME RingInit PROVE RingInv
BY BufferAssumption DEF RingInit, RingInv

\* A push, into a buffer with room or a full one, keeps the last events.
LEMMA PushKeepsLast ==
  ASSUME RingInv, NEW event \in Events, Push(event) PROVE RingInv'
<1> DEFINE entry == [eventId |-> nextEventId, event |-> event]
           all == Append(buffer, entry)
<1>1. /\ Len(happened) \in Nat /\ Len(buffer) \in Nat
      /\ nextEventId \in Nat /\ entry \in Entries
  BY DEF RingInv, Entries
<1>2. /\ happened' \in Seq(Events)
      /\ Len(happened') = Len(happened) + 1
      /\ happened'[Len(happened) + 1] = event
      /\ \A i \in 1..Len(happened) : happened'[i] = happened[i]
  BY AppendProperties DEF Push, RingInv
<1>3. /\ all \in Seq(Entries)
      /\ Len(all) = Len(buffer) + 1
      /\ all[Len(buffer) + 1] = entry
      /\ \A i \in 1..Len(buffer) : all[i] = buffer[i]
  <2> HIDE DEF entry
  <2> QED BY <1>1, AppendProperties DEF RingInv
<1>4. ASSUME NEW i \in 1..Len(all)
      PROVE  all[i] = [eventId |-> Dropped + i, event |-> happened'[Dropped + i]]
  <2>1. CASE i \in 1..Len(buffer)
    <3>1. Dropped + i \in 1..Len(happened)
      BY <1>1, <2>1 DEF Dropped, RingInv
    <3> HIDE DEF all
    <3> QED
      BY <1>2, <1>3, <2>1, <3>1 DEF RingInv, EntryOf
  <2>2. CASE i = Len(buffer) + 1
    <3>1. Dropped + i = Len(happened) + 1 /\ nextEventId = Len(happened) + 1
      BY <1>1, <2>2 DEF Dropped, RingInv
    <3> HIDE DEF all
    <3> QED
      BY <1>2, <1>3, <2>2, <3>1
  <2> QED
    BY <1>1, <1>3, <2>1, <2>2
<1>5. /\ nextEventId' = Len(happened') + 1
      /\ buffer' = IF Len(all) > MaxSize THEN Tail(all) ELSE all
  BY <1>1, <1>2 DEF Push, Trimmed, RingInv
<1>6. CASE Len(all) > MaxSize
  <2>1. Len(all) > 1
    BY <1>1, <1>3, <1>6, BufferAssumption
  <2>2. /\ Tail(all) \in Seq(Entries)
        /\ Len(Tail(all)) = Len(all) - 1
        /\ \A i \in 1..Len(Tail(all)) : Tail(all)[i] = all[i + 1]
    <3> HIDE DEF all
    <3>1. all # <<>>
      BY <1>1, <2>1
    <3> QED
      BY <1>3, <3>1, HeadTailProperties
  <2>3. buffer' = Tail(all)
    BY <1>5, <1>6
  <2>4. Len(buffer') = Len(buffer) /\ Dropped' = Dropped + 1 /\ buffer' # <<>>
    <3> HIDE DEF all
    <3>1. Len(buffer') = Len(buffer)
      BY <1>1, <1>3, <2>2, <2>3
    <3>2. Dropped' = Dropped + 1
      BY <1>1, <1>2, <3>1 DEF Dropped
    <3>3. Len(buffer') # 0
      BY <1>1, <1>3, <2>1, <3>1
    <3> QED
      BY <3>1, <3>2, <3>3
  <2>5. ASSUME NEW i \in 1..Len(buffer') PROVE buffer'[i] = EntryOf(Dropped + i)'
    <3>1. i + 1 \in 1..Len(all) /\ Dropped' + i = Dropped + (i + 1)
      BY <1>1, <1>3, <2>4 DEF Dropped
    <3> HIDE DEF all
    <3> QED
      BY <1>4, <2>2, <2>3, <3>1 DEF EntryOf
  <2>6. Len(buffer') <= Len(happened')
    BY <1>1, <1>2, <2>4 DEF RingInv
  <2>7. Len(buffer') = MaxSize /\ MaxSize \in Nat
    BY <1>1, <1>3, <1>6, <2>4, BufferAssumption DEF RingInv
  <2> HIDE DEF all
  <2> QED
    <3>1. Len(buffer') <= MaxSize /\ ~(Len(buffer') < MaxSize)
      BY <2>7
    <3> QED
      BY <1>2, <1>5, <2>2, <2>3, <2>4, <2>5, <2>6, <3>1 DEF RingInv
<1>7. CASE ~(Len(all) > MaxSize)
  <2>1. buffer' = all
    BY <1>5, <1>7
  <2>2. Dropped' = Dropped /\ Len(buffer') = Len(buffer) + 1 /\ buffer' # <<>>
    <3> HIDE DEF all
    <3>1. Len(buffer') = Len(buffer) + 1
      BY <1>3, <2>1
    <3>2. Dropped' = Dropped
      BY <1>1, <1>2, <3>1 DEF Dropped
    <3>3. Len(buffer') # 0
      BY <1>1, <3>1
    <3> QED
      BY <3>1, <3>2, <3>3
  <2>3. ASSUME NEW i \in 1..Len(buffer') PROVE buffer'[i] = EntryOf(Dropped + i)'
    <3> HIDE DEF all
    <3> QED
      BY <1>4, <2>1, <2>2 DEF EntryOf
  <2>4. /\ Len(buffer') <= MaxSize /\ Len(buffer) < MaxSize
        /\ Len(buffer') <= Len(happened') /\ Len(buffer') = Len(happened')
    BY <1>1, <1>2, <1>3, <1>7, <2>2, BufferAssumption DEF RingInv
  <2> HIDE DEF all
  <2> QED
    BY <1>1, <1>2, <1>3, <1>5, <2>1, <2>2, <2>3, <2>4 DEF RingInv
<1> QED
  BY <1>6, <1>7

\* Every call on the buffer keeps RingInv.
LEMMA RingNextInv == ASSUME RingInv, [RingNext]_ringVars PROVE RingInv'
<1>1. CASE UNCHANGED ringVars
  BY <1>1 DEF ringVars, RingInv, EntryOf, Dropped
<1>2. ASSUME NEW event \in Events, Push(event) PROVE RingInv'
  BY <1>2, PushKeepsLast
<1>3. CASE Clear
  BY <1>3, BufferAssumption DEF Clear, RingInv
<1> QED
  BY <1>1, <1>2, <1>3 DEF RingNext

\* The oldest event that is kept tells how many there were before it, and the buffer
\* is only too short for what happened when it is full.
LEMMA OldestIsKept ==
  ASSUME RingInv
  PROVE  /\ Len(happened) \in Nat /\ Len(buffer) \in Nat /\ Dropped \in Nat
         /\ Len(buffer) <= MaxSize /\ (Dropped > 0 => Len(buffer) = MaxSize)
         /\ \A i \in 1..Len(buffer) :
              buffer[i] = EntryOf(Dropped + i) /\ buffer[i].eventId = Dropped + i
         /\ buffer # <<>> => buffer[1].eventId = Dropped + 1 /\ Len(happened) > 0
<1>1. Len(happened) \in Nat /\ Len(buffer) \in Nat /\ Dropped \in Nat
  BY DEF RingInv, Dropped
<1>2. \A i \in 1..Len(buffer) :
        buffer[i] = EntryOf(Dropped + i) /\ buffer[i].eventId = Dropped + i
  BY DEF RingInv, EntryOf
<1>3. ASSUME buffer # <<>> PROVE buffer[1].eventId = Dropped + 1 /\ Len(happened) > 0
  <2>1. 1 \in 1..Len(buffer)
    BY <1>1, <1>3 DEF RingInv
  <2> QED
    BY <1>1, <1>2, <2>1 DEF Dropped
<1>4. Len(buffer) <= MaxSize /\ (Dropped > 0 => Len(buffer) = MaxSize)
  BY <1>1, BufferAssumption DEF RingInv, Dropped
<1> QED
  BY <1>1, <1>2, <1>3, <1>4

\* A buffer that is not too old for an agent gives it all that has happened since.
LEMMA NewEnoughIsComplete ==
  ASSUME RingInv, NEW lastSeen \in 0..Len(happened), ~TooOld(lastSeen)
  PROVE  EventsSince(lastSeen) = EventsAfter(lastSeen)
<1>1. Len(happened) \in Nat /\ Len(buffer) \in Nat /\ Dropped \in Nat
  BY OldestIsKept
<1>2. \A i \in 1..Len(buffer) :
        buffer[i] = EntryOf(Dropped + i) /\ buffer[i].eventId = Dropped + i
  BY OldestIsKept
<1>3. buffer # <<>> => lastSeen >= Dropped + 1
  BY <1>1, OldestIsKept DEF TooOld
<1>4. ASSUME NEW n \in (lastSeen + 1)..Len(happened)
      PROVE  EntryOf(n) \in EventsSince(lastSeen)
  <2>1. buffer # <<>>
    BY <1>1 DEF RingInv
  <2>2. n - Dropped \in 1..Len(buffer) /\ Dropped + (n - Dropped) = n /\ n > lastSeen
    BY <1>1, <1>3, <2>1 DEF Dropped
  <2>3. buffer[n - Dropped] = EntryOf(n) /\ buffer[n - Dropped].eventId = n
    BY <1>2, <2>2
  <2> QED
    BY <2>2, <2>3 DEF EventsSince
<1>5. ASSUME NEW i \in 1..Len(buffer), buffer[i].eventId > lastSeen
      PROVE  \E n \in (lastSeen + 1)..Len(happened) : buffer[i] = EntryOf(n)
  <2>1. Dropped + i \in (lastSeen + 1)..Len(happened)
    BY <1>1, <1>2, <1>5 DEF Dropped
  <2> QED
    BY <1>2, <2>1
<1>6. EventsAfter(lastSeen) = {EntryOf(n) : n \in (lastSeen + 1)..Len(happened)}
  BY DEF EventsAfter, EntryOf
<1> QED
  BY <1>4, <1>5, <1>6 DEF EventsSince

\* A buffer that holds the last events gives complete deltas, and to those it can.
LEMMA LastEventsAreComplete == ASSUME RingInv PROVE DeltaIsComplete
<1> SUFFICES ASSUME NEW lastSeen \in 0..Len(happened)
             PROVE
               \/ /\ happened = <<>> \/ (lastSeen > 0 /\ IsCloseBehind(lastSeen))
                  /\ ~TooOld(lastSeen) /\ EventsSince(lastSeen) = EventsAfter(lastSeen)
               \/ /\ happened # <<>> /\ (lastSeen = 0 \/ ~IsCloseBehind(lastSeen))
                  /\ TooOld(lastSeen)
  BY DEF DeltaIsComplete
<1>1. /\ Len(happened) \in Nat /\ Len(buffer) \in Nat /\ lastSeen \in Nat
      /\ Dropped = Len(happened) - Len(buffer) /\ MaxSize \in Nat
      /\ Len(buffer) <= MaxSize /\ (Dropped > 0 => Len(buffer) = MaxSize)
      /\ buffer # <<>> => buffer[1].eventId = Dropped + 1
  BY OldestIsKept, BufferAssumption DEF Dropped
<1>2. CASE happened = <<>>
  <2>1. buffer = <<>>
    BY <1>1, <1>2, OldestIsKept
  <2> QED
    BY <1>2, <2>1, NewEnoughIsComplete DEF TooOld
<1>3. CASE happened # <<>>
  <2>1. buffer # <<>>
    BY <1>3 DEF RingInv
  <2>2. TooOld(lastSeen) <=> lastSeen < Dropped + 1
    BY <1>1, <2>1 DEF TooOld
  <2>3. Dropped \in Nat
    BY OldestIsKept
  <2>4. TooOld(lastSeen) <=> lastSeen = 0 \/ ~IsCloseBehind(lastSeen)
    BY <1>1, <2>2, <2>3 DEF IsCloseBehind
  <2> QED
    BY <1>3, <2>4, NewEnoughIsComplete
<1> QED
  BY <1>2, <1>3

\* Whoever has seen some events and is fewer than MaxSize behind gets just those that
\* have happened since, everyone else is told to resync, however many there were
\* (event-ring-buffer.ts, getEventsSince).
THEOREM DeltasAreComplete == RingSpec => []DeltaIsComplete
<1>1. RingSpec => []RingInv
  BY RingInitInv, RingNextInv, PTL DEF RingSpec
<1> QED
  BY <1>1, LastEventsAreComplete, PTL

-----------------------------------------------------------------------------
(***************************************************************************)
(* The rate limiter (RateLimiter).                                         *)
(***************************************************************************)
LEMMA ProductGrows ==
  \A a, b, c \in Nat : a <= b => a * c <= b * c
<1>1. \A a, d, c \in Nat : (a + d) * c = a * c + d * c /\ d * c >= 0  OBVIOUS
<1> SUFFICES ASSUME NEW a \in Nat, NEW b \in Nat, NEW c \in Nat, a <= b
             PROVE  a * c <= b * c
  OBVIOUS
<1> DEFINE d == b - a
<1>2. d \in Nat /\ b = a + d  OBVIOUS
<1> HIDE DEF d
<1>3. b * c = a * c + d * c /\ d * c >= 0 BY <1>1, <1>2
<1>4. a * c \in Int /\ b * c \in Int /\ d * c \in Int BY <1>2
<1> QED  BY <1>3, <1>4

-----------------------------------------------------------------------------
\* The buckets are those of the calls that made one, and hold numbers.
RateTypeOK ==
  /\ ticks \in Nat
  /\ IsFiniteSet(Buckets) /\ Buckets \subseteq Requests
  /\ inStore \in Buckets \cup {NoBucket}
  /\ got \in [Requests -> Buckets \cup {NoBucket}]
  /\ asking \subseteq Requests
  /\ tokens \in [Buckets -> Nat]
  /\ lastRefill \in [Buckets -> 0..ticks]
  /\ IsFiniteSet(Allowed) /\ Allowed \subseteq Requests
  /\ allowedAt \in [Allowed -> Nat]

\* A call under way has no bucket of its own and was not allowed yet.
AskingIsOpen == asking \cap (Allowed \cup Buckets) = {}

\* A call that was allowed has a bucket, which is not refilled before it since.
AllowedHasBucket ==
  \A r \in Allowed : BucketOf(r) \in Buckets /\ allowedAt[r] <= lastRefill[BucketOf(r)]

\* What a bucket allowed since a moment and what it still holds is no more than it
\* can hold and was refilled with since.
RestIsBounded ==
  \A b \in Buckets : \A from \in 0..lastRefill[b] :
    Cardinality(TakenSince(b, from)) + tokens[b]
      <= MaxTokens + (lastRefill[b] - from) * RefillRate

\* The inductive invariant of the rate limiter.
RateInv == RateTypeOK /\ AskingIsOpen /\ AllowedHasBucket /\ RestIsBounded

\* Before the first call no bucket is there.
LEMMA RateInitInv == RateInit => RateInv
<1> SUFFICES ASSUME RateInit PROVE RateInv  OBVIOUS
<1>1. Buckets = {} /\ Allowed = {}  BY DEF RateInit, Buckets, Allowed
<1>2. IsFiniteSet({})  BY FS_EmptySet
<1>3. RateTypeOK  BY <1>1, <1>2 DEF RateTypeOK, RateInit, Buckets, Allowed
<1> QED
  BY <1>1, <1>3 DEF RateInv, RateInit, AskingIsOpen, AllowedHasBucket, RestIsBounded

\* Time that passes refills nothing by itself.
LEMMA TickKeepsRateInv ==
  ASSUME RateInv, Tick PROVE RateInv'
<1>1. Buckets' = Buckets /\ Allowed' = Allowed  BY DEF Tick, Buckets, Allowed
<1>2. RateTypeOK'
  <2>1. lastRefill' = lastRefill /\ ticks' = ticks + 1 /\ ticks \in Nat
        /\ lastRefill \in [Buckets -> 0..ticks]
    BY DEF RateInv, RateTypeOK, Tick
  <2>2. \A b \in Buckets : lastRefill[b] \in 0..(ticks + 1)  BY <2>1
  <2>3. lastRefill' \in [Buckets' -> 0..ticks']  BY <1>1, <2>1, <2>2
  <2> QED  BY <1>1, <2>1, <2>3 DEF RateInv, RateTypeOK, Tick
<1>3. \A r : BucketOf(r)' = BucketOf(r)  BY DEF BucketOf, Tick
<1>4. \A b, from : TakenSince(b, from)' = TakenSince(b, from)  BY <1>1, <1>3 DEF TakenSince, AllowedSince, Tick
<1>5. AskingIsOpen'  BY <1>1 DEF RateInv, AskingIsOpen, Tick
<1>6. AllowedHasBucket'  BY <1>1, <1>3 DEF RateInv, AllowedHasBucket, Tick
<1>7. RestIsBounded'  BY <1>1, <1>4 DEF RateInv, RestIsBounded, Tick
<1> QED  BY <1>2, <1>5, <1>6, <1>7 DEF RateInv

\* A call that looks its bucket up takes no token yet.
LEMMA AskKeepsRateInv ==
  ASSUME RateInv, NEW r \in Requests \ (asking \cup Allowed \cup Buckets), Ask(r)
  PROVE  RateInv'
<1>1. Buckets' = Buckets /\ Allowed' = Allowed  BY DEF Ask, Buckets, Allowed
<1>2. RateTypeOK'  BY <1>1 DEF RateInv, RateTypeOK, Ask
<1>3. \A q \in Allowed : BucketOf(q)' = BucketOf(q)
  BY DEF BucketOf, Ask, RateInv, RateTypeOK
<1>4. \A b, from : TakenSince(b, from)' = TakenSince(b, from)  BY <1>1, <1>3 DEF TakenSince, AllowedSince, Ask
<1>5. AskingIsOpen'  BY <1>1 DEF RateInv, AskingIsOpen, Ask
<1>6. AllowedHasBucket'  BY <1>1, <1>3 DEF RateInv, AllowedHasBucket, Ask
<1>7. RestIsBounded'  BY <1>1, <1>4 DEF RateInv, RestIsBounded, Ask
<1> QED  BY <1>2, <1>5, <1>6, <1>7 DEF RateInv

\* What a call makes of its bucket: the count of the calls it has allowed since a
\* moment and its tokens stay within the limit.
LEMMA ConsumeKeepsRateInv ==
  ASSUME RateInv, NEW r \in asking, Consume(r) PROVE RateInv'
<1> DEFINE b == BucketOf(r)
           held == IF got[r] = NoBucket THEN MaxTokens ELSE Refilled(b)
           left == IF held >= 1 THEN held - 1 ELSE held
<1>1. /\ ticks \in Nat /\ IsFiniteSet(Buckets) /\ Buckets \subseteq Requests
      /\ got \in [Requests -> Buckets \cup {NoBucket}] /\ r \in Requests
      /\ r \notin Buckets /\ r \notin Allowed
      /\ tokens \in [Buckets -> Nat] /\ lastRefill \in [Buckets -> 0..ticks]
      /\ MaxTokens \in Nat /\ MaxTokens >= 1 /\ RefillRate \in Nat
      /\ IsFiniteSet(Allowed) /\ Allowed \subseteq Requests
      /\ allowedAt \in [Allowed -> Nat]
  BY RateAssumption DEF RateInv, RateTypeOK, AskingIsOpen
<1>2. /\ tokens' = With(tokens, b, left) /\ lastRefill' = With(lastRefill, b, ticks)
      /\ inStore' = b /\ asking' = asking \ {r} /\ ticks' = ticks /\ got' = got
      /\ allowedAt' = IF held >= 1 THEN With(allowedAt, r, ticks) ELSE allowedAt
  BY DEF Consume, BucketOf
<1>3. /\ Buckets' = Buckets \cup {b}
      /\ Allowed' = IF held >= 1 THEN Allowed \cup {r} ELSE Allowed
  BY <1>2 DEF With, Buckets, Allowed
<1>4. /\ b \in Requests /\ (b \in Buckets \/ b = r)
      /\ got[r] = NoBucket <=> b \notin Buckets
  BY <1>1, RateAssumption DEF BucketOf
<1>5. /\ held \in Nat /\ left \in Nat /\ left <= held
      /\ held <= MaxTokens
      /\ b \in Buckets => held <= tokens[b] + (ticks - lastRefill[b]) * RefillRate
  <2>1. CASE b \notin Buckets  BY <2>1, <1>1, <1>4
  <2>2. CASE b \in Buckets
    <3>1. held = Refilled(b)  BY <2>2, <1>4
    <3>2. tokens[b] \in Nat /\ ticks - lastRefill[b] \in Nat  BY <2>2, <1>1
    <3> DEFINE more == (ticks - lastRefill[b]) * RefillRate
    <3>3. more \in Nat  BY <3>2, <1>1
    <3>4. held = IF tokens[b] + more < MaxTokens THEN tokens[b] + more ELSE MaxTokens
      BY <3>1 DEF Refilled
    <3> HIDE DEF more, held
    <3>5. held \in Nat /\ held <= MaxTokens /\ held <= tokens[b] + more
      BY <3>2, <3>3, <3>4, <1>1
    <3>6. left \in Nat /\ left <= held  BY <3>5
    <3> QED  BY <3>5, <3>6 DEF more
  <2> QED  BY <2>1, <2>2
<1> HIDE DEF b, held, left
<1>6. \A q : BucketOf(q)' = BucketOf(q)  BY <1>2 DEF BucketOf
<1>7. /\ \A c \in Buckets : c # b => tokens'[c] = tokens[c] /\ lastRefill'[c] = lastRefill[c]
      /\ tokens'[b] = left /\ lastRefill'[b] = ticks
      /\ \A q \in Allowed : allowedAt'[q] = allowedAt[q]
      /\ held >= 1 => allowedAt'[r] = ticks
  BY <1>1, <1>2 DEF With, Buckets, Allowed
<1>8. RateTypeOK'
  <2>1. IsFiniteSet(Buckets') /\ Buckets' \subseteq Requests
    BY <1>1, <1>3, <1>4, FS_AddElement
  <2>2. tokens' \in [Buckets' -> Nat]
    BY <1>1, <1>2, <1>3, <1>5 DEF With, Buckets
  <2>3. lastRefill' \in [Buckets' -> 0..ticks']
    <3>1. ticks \in 0..ticks  BY <1>1
    <3> QED  BY <1>1, <1>2, <1>3, <3>1 DEF With, Buckets
  <2>4. IsFiniteSet(Allowed') /\ Allowed' \subseteq Requests
    BY <1>1, <1>3, FS_AddElement
  <2>5. allowedAt' \in [Allowed' -> Nat]
    BY <1>1, <1>2, <1>3 DEF With, Allowed
  <2>6. inStore' \in Buckets' \cup {NoBucket}
        /\ got' \in [Requests -> Buckets' \cup {NoBucket}]
        /\ asking' \subseteq Requests /\ ticks' \in Nat
    BY <1>1, <1>2, <1>3 DEF RateInv, RateTypeOK
  <2> QED  BY <2>1, <2>2, <2>3, <2>4, <2>5, <2>6 DEF RateTypeOK
<1>9. AskingIsOpen'
  BY <1>1, <1>2, <1>3, <1>4 DEF RateInv, AskingIsOpen
<1>10. AllowedHasBucket'
  <2> SUFFICES ASSUME NEW q \in Allowed'
               PROVE  BucketOf(q) \in Buckets' /\ allowedAt'[q] <= lastRefill'[BucketOf(q)]
    BY <1>6 DEF AllowedHasBucket
  <2>1. CASE q \in Allowed
    <3>1. /\ BucketOf(q) \in Buckets /\ allowedAt[q] <= lastRefill[BucketOf(q)]
          /\ allowedAt'[q] = allowedAt[q] /\ allowedAt[q] \in Nat
          /\ lastRefill[BucketOf(q)] \in 0..ticks
      BY <2>1, <1>1, <1>7 DEF RateInv, AllowedHasBucket
    <3>2. lastRefill'[BucketOf(q)] >= lastRefill[BucketOf(q)]
      BY <3>1, <1>1, <1>7
    <3>3. lastRefill'[BucketOf(q)] \in Int  BY <3>1, <1>1, <1>7
    <3> QED  BY <3>1, <3>2, <3>3, <1>3
  <2>2. CASE q \notin Allowed
    <3>1. q = r /\ held >= 1  BY <2>2, <1>3
    <3>2. BucketOf(q) = b /\ allowedAt'[q] = ticks  BY <3>1, <1>7 DEF b
    <3> QED  BY <3>2, <1>1, <1>3, <1>7
  <2> QED  BY <2>1, <2>2
<1>11. RestIsBounded'
  <2> SUFFICES ASSUME NEW c \in Buckets', NEW from \in 0..lastRefill'[c]
               PROVE  Cardinality(TakenSince(c, from)') + tokens'[c]
                        <= MaxTokens + (lastRefill'[c] - from) * RefillRate
    BY DEF RestIsBounded
  <2>1. \A d : TakenSince(d, from) \subseteq Allowed  BY DEF TakenSince, AllowedSince
  <2>2. \A d : IsFiniteSet(TakenSince(d, from)) /\ Cardinality(TakenSince(d, from)) \in Nat
    BY <2>1, <1>1, FS_Subset, FS_CardinalityType
  <2>3. CASE c # b
    <3>1. c \in Buckets /\ tokens'[c] = tokens[c] /\ lastRefill'[c] = lastRefill[c]
      BY <2>3, <1>3, <1>7
    <3>2. TakenSince(c, from)' = TakenSince(c, from)
      BY <2>3, <1>1, <1>3, <1>6, <1>7 DEF TakenSince, AllowedSince, b
    <3> QED  BY <3>1, <3>2 DEF RateInv, RestIsBounded
  <2>4. CASE c = b
    <3>1. lastRefill'[c] = ticks /\ tokens'[c] = left /\ from \in 0..ticks
      BY <2>4, <1>7
    <3>2. TakenSince(c, from)' = IF held >= 1 THEN TakenSince(c, from) \cup {r} ELSE TakenSince(c, from)
      BY <2>4, <1>1, <1>3, <1>6, <1>7, <3>1 DEF TakenSince, AllowedSince, b
    <3>3. r \notin TakenSince(c, from)  BY <1>1 DEF TakenSince, AllowedSince
    <3>4. Cardinality(TakenSince(c, from)') =
            IF held >= 1 THEN Cardinality(TakenSince(c, from)) + 1 ELSE Cardinality(TakenSince(c, from))
      BY <2>2, <3>2, <3>3, FS_AddElement
    <3>5. Cardinality(TakenSince(c, from)') + tokens'[c] = Cardinality(TakenSince(c, from)) + held
      BY <2>2, <3>1, <3>4, <1>5 DEF left
    <3>6. CASE b \in Buckets /\ from <= lastRefill[b]
      <4>1. /\ lastRefill[b] \in 0..ticks /\ from \in 0..lastRefill[b]
            /\ tokens[b] \in Nat
        BY <3>1, <3>6, <1>1
      <4> DEFINE before == (lastRefill[b] - from) * RefillRate
                 after  == (ticks - lastRefill[b]) * RefillRate
      <4>2. Cardinality(TakenSince(b, from)) + tokens[b] <= MaxTokens + before
        BY <4>1, <3>6 DEF RateInv, RestIsBounded
      <4>3. held <= tokens[b] + after  BY <3>6, <1>5
      <4>4. (ticks - from) * RefillRate = before + after
        BY <4>1, <3>1, <1>1
      <4>5. before \in Int /\ after \in Int  BY <4>1, <3>1, <1>1
      <4> HIDE DEF before, after
      <4> QED  BY <2>2, <2>4, <3>1, <3>5, <4>1, <4>2, <4>3, <4>4, <4>5, <1>1, <1>5
    <3>7. CASE ~(b \in Buckets /\ from <= lastRefill[b])
      <4>1. TakenSince(b, from) = {}
        <5> SUFFICES ASSUME NEW q \in TakenSince(b, from) PROVE FALSE  OBVIOUS
        <5>1. /\ q \in Allowed /\ BucketOf(q) = b /\ allowedAt[q] >= from
              /\ b \in Buckets /\ allowedAt[q] <= lastRefill[b]
          BY DEF TakenSince, AllowedSince, RateInv, AllowedHasBucket
        <5>2. allowedAt[q] \in Nat /\ lastRefill[b] \in 0..ticks  BY <5>1, <1>1
        <5> QED  BY <5>1, <5>2, <3>1, <3>7
      <4>2. Cardinality(TakenSince(b, from)) = 0  BY <4>1, FS_EmptySet
      <4>3. (ticks - from) * RefillRate \in Nat  BY <3>1, <1>1
      <4> QED  BY <2>4, <3>1, <3>5, <4>2, <4>3, <1>1, <1>5
    <3> QED  BY <3>6, <3>7
  <2> QED  BY <2>3, <2>4
<1> QED  BY <1>8, <1>9, <1>10, <1>11 DEF RateInv

\* RateInv is an invariant.
THEOREM RateInvariant == RateSpec => []RateInv
<1>1. RateInit => RateInv  BY RateInitInv
<1>2. RateInv /\ [RateNext]_rateVars => RateInv'
  <2> SUFFICES ASSUME RateInv, [RateNext]_rateVars PROVE RateInv'  OBVIOUS
  <2>1. CASE Tick  BY <2>1, TickKeepsRateInv
  <2>2. ASSUME NEW r \in Requests \ (asking \cup Allowed \cup Buckets), Ask(r)
        PROVE  RateInv'
    BY <2>2, AskKeepsRateInv
  <2>3. ASSUME NEW r \in asking, Consume(r) PROVE RateInv'
    BY <2>3, ConsumeKeepsRateInv
  <2>4. CASE UNCHANGED rateVars
    <3>1. Buckets' = Buckets /\ Allowed' = Allowed /\ \A r : BucketOf(r)' = BucketOf(r)
      BY <2>4 DEF rateVars, Buckets, Allowed, BucketOf
    <3>2. \A b, from : TakenSince(b, from)' = TakenSince(b, from)
      BY <2>4, <3>1 DEF rateVars, TakenSince, AllowedSince
    <3>3. RateTypeOK'  BY <2>4, <3>1 DEF rateVars, RateInv, RateTypeOK
    <3>4. AskingIsOpen' /\ AllowedHasBucket'
      BY <2>4, <3>1 DEF rateVars, RateInv, AskingIsOpen, AllowedHasBucket
    <3>5. RestIsBounded'
      BY <2>4, <3>1, <3>2 DEF rateVars, RateInv, RestIsBounded
    <3> QED  BY <3>3, <3>4, <3>5 DEF RateInv
  <2> QED  BY <2>1, <2>2, <2>3, <2>4 DEF RateNext
<1> QED  BY <1>1, <1>2, PTL DEF RateSpec

\* No bucket allows more calls in a stretch of time than the limit says, however many
\* calls overlap on it (rate-limiter.ts, tryConsume).
THEOREM RateLimitHolds == RateSpec => []BucketKeepsLimit
<1>1. RateInv => BucketKeepsLimit
  <2> SUFFICES ASSUME RateInv, NEW b \in Buckets, NEW from \in 0..ticks
               PROVE  Cardinality(TakenSince(b, from)) <= Limit(from)
    BY DEF BucketKeepsLimit
  <2> DEFINE S == TakenSince(b, from)
             all == (ticks - from) * RefillRate
  <2>1. /\ ticks \in Nat /\ IsFiniteSet(Allowed)
        /\ tokens[b] \in Nat /\ lastRefill[b] \in 0..ticks
        /\ allowedAt \in [Allowed -> Nat]
        /\ MaxTokens \in Nat /\ RefillRate \in Nat
    BY RateAssumption DEF RateInv, RateTypeOK
  <2>2. all \in Nat /\ Limit(from) = MaxTokens + all  BY <2>1 DEF Limit
  <2>3. IsFiniteSet(S) /\ Cardinality(S) \in Nat
    BY <2>1, FS_Subset, FS_CardinalityType DEF TakenSince, AllowedSince
  <2>4. CASE from <= lastRefill[b]
    <3> DEFINE past == (lastRefill[b] - from) * RefillRate
    <3>1. Cardinality(S) + tokens[b] <= MaxTokens + past
      BY <2>1, <2>4 DEF RateInv, RestIsBounded
    <3>2. past <= all /\ past \in Int
      <4>1. lastRefill[b] - from \in Nat /\ ticks - from \in Nat
            /\ lastRefill[b] - from <= ticks - from
        BY <2>1, <2>4
      <4> QED  BY <4>1, <2>1, ProductGrows
    <3> HIDE DEF past, all
    <3> QED  BY <2>1, <2>2, <2>3, <3>1, <3>2
  <2>5. CASE ~(from <= lastRefill[b])
    <3>1. S = {}
      <4> SUFFICES ASSUME NEW r \in S PROVE FALSE  OBVIOUS
      <4>1. r \in Allowed /\ allowedAt[r] >= from /\ allowedAt[r] <= lastRefill[b]
        BY DEF TakenSince, AllowedSince, RateInv, AllowedHasBucket
      <4> QED  BY <4>1, <2>1, <2>5
    <3>2. Cardinality(S) = 0  BY <3>1, FS_EmptySet
    <3> HIDE DEF all
    <3> QED  BY <2>1, <2>2, <3>2
  <2> QED  BY <2>4, <2>5
<1> QED  BY <1>1, RateInvariant, PTL
=============================================================================
