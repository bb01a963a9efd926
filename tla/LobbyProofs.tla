---------------------------- MODULE LobbyProofs -----------------------------
(***************************************************************************)
(* The lobby, for any agents, groups, tables and calls under way at a      *)
(* time: a login decides a join; nobody waits in a queue who could be      *)
(* matched, a table that bots filled is full, and every seat has its row.  *)
(***************************************************************************)
EXTENDS Lobby, LobbyAuth, CommonProofs

(***************************************************************************)
(* Who may join (LobbyAuth).                                               *)
(***************************************************************************)
Stages == {"new", "login", "join", "relogin", "rejoin", "joined", "refused"}

\* Time, tokens and joins are what they may be.
AuthTypeOK ==
  /\ time \in Nat
  /\ known \subseteq Visitors
  /\ DOMAIN outAt \subseteq known
  /\ outAt \in [DOMAIN outAt -> Nat]
  /\ joining \in [Joins -> Stages]
  /\ DOMAIN accessToken = Visitors

\* A token is of an agent that could log in when it was issued.
TokensAreEarned ==
  \A a \in Visitors :
    \/ accessToken[a] = <<>>
    \/ \E issued \in Nat :
         /\ accessToken[a] = <<issued>> /\ issued <= time
         /\ a \in known
         /\ IsOut(a) => issued <= outAt[a]

\* A call that sends a join has a token, and the second time a new one.
JoinsHaveTokens ==
  \A j \in Joins :
    /\ joining[j] \in {"join", "relogin", "rejoin"} => accessToken[JoinerOf[j]] # <<>>
    /\ joining[j] = "rejoin" => accessToken[JoinerOf[j]] = <<time>>

\* The inductive invariant of logins and joins.
AuthInv == AuthTypeOK /\ TokensAreEarned /\ JoinsHaveTokens

\* Before the first call.
LEMMA AuthInitInv == ASSUME AuthInit PROVE AuthInv
  BY AuthAssumption
  DEF AuthInit, AuthInv, AuthTypeOK, TokensAreEarned, JoinsHaveTokens, Stages

\* Being banned or forgotten leaves the tokens there are behind the moment.
LEMMA ExcludedInv ==
  ASSUME AuthInv, UNCHANGED <<time, known, accessToken, joining>>,
         NEW Out, Out \subseteq known,
         outAt' = [a \in Out |-> IF IsOut(a) THEN outAt[a] ELSE time],
         DOMAIN outAt \subseteq Out
  PROVE  AuthInv'
<1>1. DOMAIN outAt' = Out
  OBVIOUS
<1>2. \A a \in Out : outAt'[a] \in Nat
  BY DEF AuthInv, AuthTypeOK, IsOut
<1>3. AuthTypeOK'
  BY <1>1, <1>2 DEF AuthInv, AuthTypeOK
<1>4. ASSUME NEW a \in Visitors, NEW issued \in Nat, issued <= time,
             IsOut(a) => issued <= outAt[a], IsOut(a)'
      PROVE  issued <= outAt'[a]
  BY <1>1, <1>4 DEF IsOut
<1>5. TokensAreEarned'
  BY <1>4 DEF AuthInv, TokensAreEarned
<1>6. JoinsHaveTokens'
  BY DEF AuthInv, JoinsHaveTokens
<1> QED
  BY <1>3, <1>5, <1>6 DEF AuthInv

\* A login, the first or the second of a call, keeps AuthInv.
LEMMA LoginInv ==
  ASSUME AuthInv, NEW j \in Joins, NEW from, NEW to, to \in {"join", "rejoin"},
         Login(j, from, to)
  PROVE  AuthInv'
<1> DEFINE a == JoinerOf[j]
<1>1. a \in Visitors
  BY AuthAssumption
<1>2. CASE Authenticates(a) /\ GoesOn(j, from, to)
           /\ accessToken' = [accessToken EXCEPT ![a] = <<time>>]
  <2>1. AuthTypeOK'
    BY <1>2 DEF Login, GoesOn, AuthInv, AuthTypeOK, Stages
  <2>2. TokensAreEarned'
    <3> SUFFICES ASSUME NEW b \in Visitors, accessToken'[b] # <<>>
                 PROVE  \E issued \in Nat :
                          /\ accessToken'[b] = <<issued>> /\ issued <= time'
                          /\ b \in known'
                          /\ IsOut(b)' => issued <= outAt'[b]
      BY DEF TokensAreEarned
    <3>1. CASE b = a
      BY <1>2, <3>1 DEF Login, Authenticates, AuthInv, AuthTypeOK, IsOut
    <3>2. CASE b # a
      <4>1. accessToken'[b] = accessToken[b]
        BY <1>1, <1>2, <3>2 DEF AuthInv, AuthTypeOK
      <4> QED
        BY <4>1 DEF Login, AuthInv, TokensAreEarned, IsOut
    <3> QED
      BY <3>1, <3>2
  <2>3. JoinsHaveTokens'
    BY <1>1, <1>2, AuthAssumption
    DEF Login, GoesOn, AuthInv, AuthTypeOK, JoinsHaveTokens, Stages
  <2> QED
    BY <2>1, <2>2, <2>3 DEF AuthInv
<1>3. CASE GoesOn(j, from, "refused") /\ UNCHANGED accessToken
  BY <1>3
  DEF Login, GoesOn, AuthInv, AuthTypeOK, TokensAreEarned, JoinsHaveTokens, IsOut, Stages
<1> QED
  BY <1>2, <1>3 DEF Login

\* The steps of a call that get no token.
LEMMA CallGoesOnInv ==
  ASSUME AuthInv, NEW j \in Joins, NEW from, NEW to \in Stages, GoesOn(j, from, to),
         to \in {"join", "relogin"} => accessToken[JoinerOf[j]] # <<>>,
         to # "rejoin",
         UNCHANGED <<time, known, outAt, accessToken>>
  PROVE  AuthInv'
  BY DEF GoesOn, AuthInv, AuthTypeOK, TokensAreEarned, JoinsHaveTokens, IsOut, Stages

\* Every step of a call, and every ban, keeps AuthInv.
LEMMA AuthNextInv == ASSUME AuthInv, [AuthNext]_authVars PROVE AuthInv'
<1>1. CASE UNCHANGED authVars
  BY <1>1 DEF authVars, AuthInv, AuthTypeOK, TokensAreEarned, JoinsHaveTokens, IsOut
<1>2. ASSUME NEW a \in Visitors \ known, RegisterAgent(a) PROVE AuthInv'
  BY <1>2 DEF RegisterAgent, AuthInv, AuthTypeOK, TokensAreEarned, JoinsHaveTokens, IsOut
<1>3. ASSUME NEW a \in Visitors, Ban(a) PROVE AuthInv'
  <2>1. \A b \in DOMAIN outAt \cup {a} :
          (IF b = a THEN time ELSE outAt[b]) = (IF IsOut(b) THEN outAt[b] ELSE time)
    BY <1>3 DEF Ban, Authenticates, IsOut
  <2>2. outAt' = [b \in DOMAIN outAt \cup {a} |-> IF IsOut(b) THEN outAt[b] ELSE time]
    BY <1>3, <2>1 DEF Ban, Exclude
  <2>3. DOMAIN outAt \cup {a} \subseteq known
    BY <1>3 DEF Ban, Authenticates, AuthInv, AuthTypeOK
  <2> QED
    BY <1>3, <2>2, <2>3, ExcludedInv DEF Ban, Exclude
<1>4. CASE Restart
  BY <1>4, ExcludedInv DEF Restart, AuthInv, AuthTypeOK
<1>5. ASSUME NEW j \in Joins, StartJoin(j) PROVE AuthInv'
  BY <1>5, CallGoesOnInv DEF StartJoin, Stages
<1>6. ASSUME NEW j \in Joins, CallAgain(j) PROVE AuthInv'
  BY <1>6, CallGoesOnInv DEF CallAgain, Stages
<1>7. ASSUME NEW j \in Joins,
             Login(j, "login", "join") \/ Login(j, "relogin", "rejoin")
      PROVE  AuthInv'
  BY <1>7, LoginInv
<1>8. ASSUME NEW j \in Joins, NEW stage \in {"join", "rejoin"}, SendJoin(j, stage)
      PROVE  AuthInv'
  <2>1. accessToken[JoinerOf[j]] # <<>>
    BY <1>8 DEF SendJoin, GoesOn, AuthInv, JoinsHaveTokens
  <2> QED
    BY <1>8, <2>1, CallGoesOnInv DEF SendJoin, AfterUnauthorized, Stages
<1>9. CASE TimePasses
  <2>1. time' \in Nat /\ time <= time'
    BY <1>9 DEF TimePasses, AuthInv, AuthTypeOK
  <2>2. AuthTypeOK' /\ JoinsHaveTokens'
    BY <1>9, <2>1 DEF TimePasses, AuthInv, AuthTypeOK, JoinsHaveTokens
  <2>3. TokensAreEarned'
    BY <1>9, <2>1 DEF TimePasses, AuthInv, AuthTypeOK, TokensAreEarned, IsOut
  <2> QED
    BY <2>2, <2>3 DEF AuthInv
<1> QED
  BY <1>1, <1>2, <1>3, <1>4, <1>5, <1>6, <1>7, <1>8, <1>9 DEF AuthNext

\* Tokens are earned, and a call that is refused with one has logged in anew.
THEOREM AuthInvHolds == AuthSpec => []AuthInv
  BY AuthInitInv, AuthNextInv, PTL DEF AuthSpec

\* How the step that ends a call decides it.
LEMMA JoinEndsByLogin ==
  ASSUME AuthInv, [AuthNext]_authVars, NEW j \in Joins
  PROVE  /\ Ends(j, "refused") => JoinerOf[j] \notin known \/ IsOut(JoinerOf[j])
         /\ Ends(j, "joined") =>
              /\ JoinerOf[j] \in known
              /\ IsOut(JoinerOf[j]) => time < outAt[JoinerOf[j]] + TokenLife
<1> DEFINE a == JoinerOf[j]
<1> USE DEF Ends
<1>1. a \in Visitors /\ TokenLife \in Nat \ {0}
  BY AuthAssumption
<1>2. SUFFICES ASSUME joining'[j] # joining[j]
               PROVE  /\ Ends(j, "refused") => a \notin known \/ IsOut(a)
                      /\ Ends(j, "joined") =>
                           /\ a \in known
                           /\ IsOut(a) => time < outAt[a] + TokenLife
  OBVIOUS
<1>3. ASSUME NEW i \in Joins, NEW from, NEW to, GoesOn(i, from, to)
      PROVE  i = j /\ joining[j] = from /\ joining'[j] = to
  BY <1>2, <1>3 DEF GoesOn, AuthInv, AuthTypeOK
<1>4. ASSUME NEW i \in Joins, NEW from, NEW to, to \notin {"refused", "joined"},
             Login(i, from, to)
      PROVE  joining'[j] # "joined" /\ (joining'[j] = "refused" => ~Authenticates(a))
  BY <1>3, <1>4 DEF Login
<1>5. ASSUME NEW i \in Joins, NEW stage \in {"join", "rejoin"}, SendJoin(i, stage)
      PROVE  /\ Ends(j, "refused") => a \notin known \/ IsOut(a)
             /\ Ends(j, "joined") =>
                  /\ a \in known
                  /\ IsOut(a) => time < outAt[a] + TokenLife
  <2>1. i = j /\ joining[j] = stage
        /\ joining'[j] = IF IsFresh(accessToken[a][1]) THEN "joined"
                         ELSE AfterUnauthorized(stage)
    BY <1>3, <1>5 DEF SendJoin
  <2>2. PICK issued \in Nat :
          /\ accessToken[a] = <<issued>> /\ issued <= time
          /\ a \in known
          /\ IsOut(a) => issued <= outAt[a]
    BY <1>1, <2>1 DEF AuthInv, JoinsHaveTokens, TokensAreEarned
  <2>3. stage = "rejoin" => issued = time
    BY <2>1, <2>2 DEF AuthInv, JoinsHaveTokens
  <2>4. accessToken[a][1] = issued
    BY <2>2
  <2>5. stage = "rejoin" => IsFresh(issued)
    BY <1>1, <2>3 DEF IsFresh, AuthInv, AuthTypeOK
  <2>6. IsFresh(issued) /\ IsOut(a) => time < outAt[a] + TokenLife
    <3>1. IsOut(a) => outAt[a] \in Nat
      BY DEF IsOut, AuthInv, AuthTypeOK
    <3> QED
      BY <1>1, <2>2, <3>1 DEF IsFresh, AuthInv, AuthTypeOK
  <2> QED
    BY <2>1, <2>2, <2>4, <2>5, <2>6 DEF AfterUnauthorized
<1>6. ASSUME NEW i \in Joins, StartJoin(i) \/ CallAgain(i)
      PROVE  joining'[j] \notin {"refused", "joined"}
  BY <1>3, <1>6 DEF StartJoin, CallAgain
<1>7. CASE \/ UNCHANGED authVars
           \/ \E b \in Visitors \ known : RegisterAgent(b)
           \/ \E b \in Visitors : Ban(b)
           \/ Restart
           \/ TimePasses
  BY <1>2, <1>7 DEF authVars, RegisterAgent, Ban, Exclude, Restart, TimePasses
<1>8. CASE \E i \in Joins :
             \/ StartJoin(i) \/ CallAgain(i)
             \/ joining[i] = "login" /\ Login(i, "login", "join")
             \/ joining[i] = "relogin" /\ Login(i, "relogin", "rejoin")
             \/ \E stage \in {"join", "rejoin"} : joining[i] = stage /\ SendJoin(i, stage)
  BY <1>4, <1>5, <1>6, <1>8 DEF Authenticates
<1> QED
  BY <1>7, <1>8 DEF AuthNext

\* No agent that could log in is refused, and one that could not is let in only
\* within the life of a token.
THEOREM JoinsAreDecidedByLogin == AuthSpec => LoginDecidesJoins
<1>1. ASSUME AuthInv, [AuthNext]_authVars
      PROVE  \A j \in Joins : LET a == JoinerOf[j] IN
               /\ Ends(j, "refused") => a \notin known \/ IsOut(a)
               /\ Ends(j, "joined") => a \in known /\ (IsOut(a) => time < outAt[a] + TokenLife)
  BY <1>1, JoinEndsByLogin
<1> QED
  BY <1>1, AuthInvHolds, PTL DEF AuthSpec, LoginDecidesJoins

-----------------------------------------------------------------------------
(***************************************************************************)
(* Seats and queues (Lobby).                                               *)
(***************************************************************************)
(* Seats. *)

\* The smallest number that is not taken, and it is taken then.
LEMMA SeatedIs ==
  ASSUME NEW table, NEW agent, table = [size |-> table.size, at |-> table.at],
         table.size \in Nat, EmptySeats(table) # {}
  PROVE  /\ NextSeat(table) \in EmptySeats(table)
         /\ \A n \in EmptySeats(table) : NextSeat(table) <= n
         /\ Seated(agent, table).size = table.size
         /\ Seated(agent, table) = [size |-> table.size, at |-> Seated(agent, table).at]
         /\ Seated(agent, table).at =
              [n \in TakenSeats(table) \cup {NextSeat(table)} |->
                 IF n \in TakenSeats(table) THEN table.at[n] ELSE agent]
<1>1. EmptySeats(table) \in SUBSET Nat  BY DEF EmptySeats
<1>2. /\ NextSeat(table) \in EmptySeats(table)
      /\ \A n \in EmptySeats(table) : NextSeat(table) <= n
  BY <1>1, MinIs DEF NextSeat
<1>3. Seated(agent, table) =
        [size |-> table.size,
         at |-> [n \in TakenSeats(table) \cup {NextSeat(table)} |->
                   IF n \in TakenSeats(table) THEN table.at[n] ELSE agent]]
  BY DEF Seated, TakenSeats
<1> QED  BY <1>2, <1>3

\* The agents a match gives a new table sit on seats 0, 1, 2 and so on.
LEMMA SeatAllIs ==
  ASSUME NEW A, NEW agents \in Seq(A), NEW size \in Nat, Len(agents) <= size
  PROVE  SeatAll(agents, size) =
           [size |-> size, at |-> [n \in 0..(Len(agents) - 1) |-> agents[n + 1]]]
<1> DEFINE D == 1..Len(agents)
           Spots == 0..(size - 1) \cup {Min({})}
           V == [size : {size}, at : UNION {[B -> A] : B \in SUBSET Spots}]
           base == [size |-> size, at |-> <<>>]
           pick == [s \in SUBSET D |-> Max(s)]
           step == [p \in D \X V |-> Seated(agents[p[1]], p[2])]
           Rec(h) == h = [s \in SUBSET D |->
                       IF s = {} THEN base ELSE Seated(agents[Max(s)], h[s \ {Max(s)}])]
           seatedBy == CHOOSE h : Rec(h)
<1>1. Len(agents) \in Nat /\ DOMAIN agents = D /\ \A i \in D : agents[i] \in A
  OBVIOUS
<1>2. IsFiniteSet(D)  BY <1>1, FS_Interval
<1>3. base \in V
  <2>1. <<>> \in [{} -> A] /\ {} \in SUBSET Spots  OBVIOUS
  <2> QED  BY <2>1
<1>4. step \in [D \X V -> V]
  <2> SUFFICES ASSUME NEW i \in D, NEW tb \in V PROVE Seated(agents[i], tb) \in V
    OBVIOUS
  <2>1. PICK B \in SUBSET Spots : tb.at \in [B -> A]  OBVIOUS
  <2>2. tb = [size |-> size, at |-> tb.at] /\ DOMAIN tb.at = B  BY <2>1
  <2>3. NextSeat(tb) \in Spots
    <3>1. EmptySeats(tb) \in SUBSET (0..(size - 1))  BY <2>2 DEF EmptySeats
    <3>2. CASE EmptySeats(tb) = {}  BY <3>2 DEF NextSeat
    <3>3. CASE EmptySeats(tb) # {}  BY <3>1, <3>3, MinIs DEF NextSeat
    <3> QED  BY <3>2, <3>3
  <2> HIDE DEF Spots
  <2>4. Seated(agents[i], tb).at \in [B \cup {NextSeat(tb)} -> A]
    BY <1>1, <2>1, <2>2 DEF Seated
  <2>5. Seated(agents[i], tb) = [size |-> size, at |-> Seated(agents[i], tb).at]
    BY <2>2 DEF Seated
  <2>6. B \cup {NextSeat(tb)} \in SUBSET Spots  BY <2>3
  <2> QED  BY <2>4, <2>5, <2>6
<1>5. \A s \in SUBSET D : s # {} => Max(s) \in s /\ \A n \in s : n <= Max(s)
  <2> SUFFICES ASSUME NEW s \in SUBSET D, s # {}
               PROVE  Max(s) \in s /\ \A n \in s : n <= Max(s)
    OBVIOUS
  <2>0. s \in SUBSET Nat  OBVIOUS
  <2> HIDE DEF D
  <2>1. IsFiniteSet(s) /\ s \in SUBSET Nat  BY <1>2, <2>0, FS_Subset
  <2>2. Max(s) \in s /\ \A n \in s : Max(s) >= n  BY <2>1, MaxIs
  <2> QED  BY <2>1, <2>2
<1>6. \A s \in SUBSET D : s # {} => pick[s] \in s  BY <1>5
<1>7. \A i \in D, tb \in V : step[<<i, tb>>] = Seated(agents[i], tb)  OBVIOUS
<1> HIDE DEF V, base, pick, step
<1>8. PICK h \in [SUBSET D -> V] : FoldEquation(h, D, pick, base, step)
  <2> HIDE DEF D
  <2> QED  BY <1>2, <1>3, <1>4, <1>6, FoldExists
<1>9. Rec(h)
  <2>1. h[{}] = base  BY <1>8 DEF FoldEquation
  <2>2. ASSUME NEW s \in SUBSET D, s # {}
        PROVE  h[s] = Seated(agents[Max(s)], h[s \ {Max(s)}])
    <3>1. pick[s] = Max(s) /\ Max(s) \in D  BY <2>2, <1>5 DEF pick
    <3>2. h[s \ {Max(s)}] \in V  BY <1>8
    <3>3. h[s] = step[<<Max(s), h[s \ {Max(s)}]>>]
      BY <1>8, <2>2, <3>1 DEF FoldEquation
    <3> QED  BY <1>7, <3>1, <3>2, <3>3
  <2>3. h = [s \in SUBSET D |-> h[s]]  BY <1>8
  <2> QED  BY <2>1, <2>2, <2>3
<1>10. Rec(seatedBy)  BY <1>9
<1>11. SeatAll(agents, size) = seatedBy[D]
  BY <1>1 DEF SeatAll, FoldLeft, MapThenFoldSet, base
<1> HIDE DEF seatedBy
<1>12. /\ seatedBy[{}] = base
       /\ \A s \in SUBSET D : s # {} =>
            seatedBy[s] = Seated(agents[Max(s)], seatedBy[s \ {Max(s)}])
  BY <1>10
<1> HIDE DEF Rec
<1> DEFINE Row(n) == [size |-> size, at |-> [i \in 0..(n - 1) |-> agents[i + 1]]]
           P == {n \in Nat : n <= Len(agents) => seatedBy[1..n] = Row(n)}
<1>13. 0 \in P
  <2>1. 1..0 = {} /\ 0..(0 - 1) = {}  OBVIOUS
  <2>2. [i \in {} |-> agents[i + 1]] = <<>>  OBVIOUS
  <2> QED  BY <1>12, <2>1, <2>2 DEF base
<1>14. ASSUME NEW n \in Nat, n \in P PROVE n + 1 \in P
  <2> SUFFICES ASSUME n + 1 <= Len(agents) PROVE seatedBy[1..(n + 1)] = Row(n + 1)
    OBVIOUS
  <2>1. 1..(n + 1) \in SUBSET D /\ n + 1 \in 1..(n + 1) /\ 1..(n + 1) # {}
    <3>1. \A m \in 1..(n + 1) : m \in D  BY <1>1
    <3> QED  BY <3>1
  <2>2. Max(1..(n + 1)) = n + 1
    <3>1. \A m \in 1..(n + 1) : m <= n + 1  OBVIOUS
    <3>2. Max(1..(n + 1)) \in 1..(n + 1) /\ n + 1 <= Max(1..(n + 1))  BY <1>5, <2>1
    <3> QED  BY <3>1, <3>2
  <2>3. (1..(n + 1)) \ {n + 1} = 1..n  OBVIOUS
  <2>4. seatedBy[1..n] = Row(n)  BY <1>1, <1>14
  <2>5. seatedBy[1..(n + 1)] = Seated(agents[n + 1], Row(n))
    BY <1>12, <2>1, <2>2, <2>3, <2>4
  <2>6. TakenSeats(Row(n)) = 0..(n - 1) /\ EmptySeats(Row(n)) = n..(size - 1)
    BY DEF TakenSeats, EmptySeats
  <2>7. n \in EmptySeats(Row(n)) /\ \A m \in EmptySeats(Row(n)) : n <= m
    <3>1. n \in n..(size - 1) /\ \A m \in n..(size - 1) : n <= m  BY <1>1
    <3> QED  BY <2>6, <3>1
  <2>8. Row(n) = [size |-> Row(n).size, at |-> Row(n).at] /\ Row(n).size = size
        /\ Row(n).at = [i \in 0..(n - 1) |-> agents[i + 1]]
    OBVIOUS
  <2>9. NextSeat(Row(n)) = n
    <3>1. NextSeat(Row(n)) \in EmptySeats(Row(n)) /\ NextSeat(Row(n)) <= n
      BY <2>7, <2>8, SeatedIs
    <3>2. NextSeat(Row(n)) \in Nat /\ n <= NextSeat(Row(n))  BY <3>1, <2>6, <2>7
    <3> QED  BY <3>1, <3>2
  <2>10. /\ Seated(agents[n + 1], Row(n)).at =
              [i \in TakenSeats(Row(n)) \cup {NextSeat(Row(n))} |->
                 IF i \in TakenSeats(Row(n)) THEN Row(n).at[i] ELSE agents[n + 1]]
         /\ Seated(agents[n + 1], Row(n)) =
              [size |-> size, at |-> Seated(agents[n + 1], Row(n)).at]
    <3> HIDE DEF Row
    <3> QED  BY <2>7, <2>8, SeatedIs
  <2>11. [i \in 0..(n - 1) \cup {n} |->
            IF i \in 0..(n - 1) THEN agents[i + 1] ELSE agents[n + 1]]
           = [i \in 0..n |-> agents[i + 1]]
    OBVIOUS
  <2>12. Seated(agents[n + 1], Row(n)).at = [i \in 0..n |-> agents[i + 1]]
    BY <2>6, <2>8, <2>9, <2>10, <2>11
  <2>13. (n + 1) - 1 = n  OBVIOUS
  <2>14. Row(n + 1) = [size |-> size, at |-> [i \in 0..n |-> agents[i + 1]]]
    BY <2>13
  <2> QED  BY <2>5, <2>10, <2>12, <2>14
<1> HIDE DEF P, D
<1>15. Len(agents) \in P  BY <1>1, <1>13, <1>14, NumberInduction
<1> QED  BY <1>1, <1>11, <1>15 DEF P, D

-----------------------------------------------------------------------------
(* The inductive invariant. *)
People == Players \cup Nat
\* What the queue, the tables, and the calls under way may hold.
Entries == [agent : Players, group : Groups, old : BOOLEAN]
Sizes == {SeatsOf[g] : g \in Groups}
Sittings(m) == UNION {[D -> People] : D \in SUBSET (0..(m - 1))}
Tables == UNION {[size : {m}, at : Sittings(m)] : m \in Sizes}
Rows == [seat : Nat, agent : People, bot : BOOLEAN]
HandlersOf(n) == [kind : {"match", "create", "join", "fill"}, table : 1..n,
                  rows : Seq(Rows), left : Int, newTable : BOOLEAN]

\* The types of the lobby.
LobbyTypes ==
  /\ queue \in Seq(Entries)
  /\ tables \in Seq(Tables)
  /\ handlers \in SUBSET HandlersOf(Len(tables))
  /\ fillTimers \in SUBSET (1..Len(tables)) /\ filled \in SUBSET (1..Len(tables))
  /\ botCounter \in Nat

\* A bot that sits at a table has been counted: the next one sits nowhere.
BotsAreCounted == \A t \in 1..Len(tables) : \A n \in TakenSeats(tables[t]) :
  tables[t].at[n] \in Players \cup (1..botCounter)

\* Of one group nobody waits but one.
NobodyWaitsForAnother == \A i, j \in 1..Len(queue) :
  queue[i].group = queue[j].group => i = j

\* An agent has this seat of the table.
SeatIs(t, seat, agent) == seat \in TakenSeats(tables[t]) /\ tables[t].at[seat] = agent

\* What a handler has still to write are seats of its table, and a fill has bots
\* left for the empty ones.
HandlerIsRight(h) ==
  /\ \A i \in 1..Len(h.rows) : SeatIs(h.table, h.rows[i].seat, h.rows[i].agent)
  /\ h.kind = "fill" => Cardinality(EmptySeats(tables[h.table])) <= h.left
\* Every handler under way is.
HandlersAreRight == \A h \in handlers : HandlerIsRight(h)

\* A seat in the store is one of the table in memory.
StoredAreSeats == \A key \in DOMAIN storedSeats :
  key[1] \in 1..Len(tables) /\ SeatIs(key[1], key[2], storedSeats[key])

\* The inductive invariant of the lobby.
LobbyInv == /\ LobbyTypes /\ BotsAreCounted /\ NobodyWaitsForAnother
            /\ HandlersAreRight /\ StoredAreSeats /\ FilledTableIsFull

-----------------------------------------------------------------------------
\* What a table is.
LEMMA TableIs ==
  ASSUME NEW tb
  PROVE  tb \in Tables <=>
           /\ tb = [size |-> tb.size, at |-> tb.at]
           /\ tb.size \in Sizes
           /\ tb.at \in [TakenSeats(tb) -> People]
           /\ TakenSeats(tb) \subseteq 0..(tb.size - 1)
<1>1. ASSUME tb \in Tables
      PROVE  /\ tb = [size |-> tb.size, at |-> tb.at] /\ tb.size \in Sizes
             /\ tb.at \in [TakenSeats(tb) -> People]
             /\ TakenSeats(tb) \subseteq 0..(tb.size - 1)
  <2>1. PICK m \in Sizes : tb \in [size : {m}, at : Sittings(m)]  BY <1>1 DEF Tables
  <2>2. tb.size = m /\ tb.at \in Sittings(m)  BY <2>1
  <2>3. PICK D \in SUBSET (0..(m - 1)) : tb.at \in [D -> People]  BY <2>2 DEF Sittings
  <2> QED  BY <2>1, <2>2, <2>3 DEF TakenSeats
<1>2. ASSUME tb = [size |-> tb.size, at |-> tb.at], tb.size \in Sizes,
             tb.at \in [TakenSeats(tb) -> People],
             TakenSeats(tb) \subseteq 0..(tb.size - 1)
      PROVE  tb \in Tables
  <2>1. tb.at \in Sittings(tb.size)  BY <1>2 DEF Sittings
  <2>2. tb \in [size : {tb.size}, at : Sittings(tb.size)]  BY <1>2, <2>1
  <2> QED  BY <1>2, <2>2 DEF Tables
<1> QED  BY <1>1, <1>2

\* The size of a table is a number, and its empty seats are finitely many.
LEMMA EmptyAreFew ==
  ASSUME NEW tb \in Tables
  PROVE  /\ tb.size \in 2..6
         /\ EmptySeats(tb) \in SUBSET (0..(tb.size - 1))
         /\ IsFiniteSet(EmptySeats(tb)) /\ Cardinality(EmptySeats(tb)) \in Nat
<1>1. tb.size \in 2..6  BY TableIs, LobbyAssumption DEF Sizes
<1>2. EmptySeats(tb) \in SUBSET (0..(tb.size - 1))  BY DEF EmptySeats
<1>3. IsFiniteSet(0..(tb.size - 1))  BY <1>1, FS_Interval
<1>4. IsFiniteSet(EmptySeats(tb))  BY <1>2, <1>3, FS_Subset
<1> QED  BY <1>1, <1>2, <1>4, FS_CardinalityType

\* The tables there were are there, and whoever sat sits where they sat.
SeatsStay ==
  /\ Len(tables) <= Len(tables')
  /\ \A t \in 1..Len(tables) :
       /\ tables'[t].size = tables[t].size
       /\ \A n \in TakenSeats(tables[t]) :
            n \in TakenSeats(tables'[t]) /\ tables'[t].at[n] = tables[t].at[n]

\* What was right of a handler is right while the seats stay.
LEMMA RightStaysRight ==
  ASSUME LobbyTypes, LobbyTypes', SeatsStay, NEW h \in handlers, HandlerIsRight(h)
  PROVE  HandlerIsRight(h)'
<1>1. h.table \in 1..Len(tables) /\ h.left \in Int  BY DEF LobbyTypes, HandlersOf
<1>2. h.table \in 1..Len(tables')  BY <1>1 DEF SeatsStay, LobbyTypes
<1>3. tables[h.table] \in Tables /\ tables'[h.table] \in Tables
  BY <1>1, <1>2 DEF LobbyTypes
<1>4. EmptySeats(tables'[h.table]) \in SUBSET EmptySeats(tables[h.table])
  BY <1>1 DEF SeatsStay, EmptySeats
<1>5. Cardinality(EmptySeats(tables'[h.table])) <= Cardinality(EmptySeats(tables[h.table]))
  BY <1>3, <1>4, EmptyAreFew, FS_Subset
<1>6. /\ Cardinality(EmptySeats(tables'[h.table])) \in Nat
      /\ Cardinality(EmptySeats(tables[h.table])) \in Nat
  BY <1>3, EmptyAreFew
<1>7. ASSUME h.kind = "fill" PROVE Cardinality(EmptySeats(tables'[h.table])) <= h.left
  BY <1>1, <1>5, <1>6, <1>7 DEF HandlerIsRight
<1>8. \A i \in 1..Len(h.rows) :
        SeatIs(h.table, h.rows[i].seat, h.rows[i].agent)'
  BY <1>1 DEF HandlerIsRight, SeatIs, SeatsStay
<1> QED  BY <1>7, <1>8 DEF HandlerIsRight

\* A step that moves nobody from a seat, whose new handlers are right.
LEMMA SeatsStayInv ==
  ASSUME LobbyInv, LobbyTypes', SeatsStay, BotsAreCounted', NobodyWaitsForAnother',
         UNCHANGED <<filled, storedSeats>>,
         \A h \in handlers' : h \in handlers \/ HandlerIsRight(h)'
  PROVE  LobbyInv'
<1>1. HandlersAreRight'
  <2> SUFFICES ASSUME NEW h \in handlers' PROVE HandlerIsRight(h)'
    BY DEF HandlersAreRight
  <2>1. CASE h \in handlers
    BY <2>1, RightStaysRight DEF LobbyInv, HandlersAreRight
  <2> QED  BY <2>1
<1>2. \A t \in 1..Len(tables) : t \in 1..Len(tables')
  BY DEF SeatsStay, LobbyInv, LobbyTypes
<1>3. StoredAreSeats'
  BY <1>2 DEF LobbyInv, StoredAreSeats, SeatIs, SeatsStay
<1>4. FilledTableIsFull'
  <2> SUFFICES ASSUME NEW t \in filled PROVE EmptySeats(tables'[t]) = {}
    BY DEF FilledTableIsFull
  <2>1. t \in 1..Len(tables)  BY DEF LobbyInv, LobbyTypes
  <2>2. EmptySeats(tables[t]) = {}  BY DEF LobbyInv, FilledTableIsFull
  <2> QED  BY <2>1, <2>2 DEF EmptySeats, SeatsStay
<1> QED  BY <1>1, <1>3, <1>4 DEF LobbyInv

\* An agent takes a seat.
LEMMA TakesASeat ==
  ASSUME LobbyTypes, NEW t \in 1..Len(tables), NEW agent \in People,
         CanSit(agent, tables[t]), tables' = [tables EXCEPT ![t] = Seated(agent, @)]
  PROVE  /\ tables' \in Seq(Tables) /\ Len(tables') = Len(tables) /\ SeatsStay
         /\ NextSeat(tables[t]) \in Nat
         /\ NextSeat(tables[t]) \in TakenSeats(tables'[t])
         /\ tables'[t].at[NextSeat(tables[t])] = agent
         /\ NextSeat(tables[t]) \in EmptySeats(tables[t])
         /\ EmptySeats(tables'[t]) = EmptySeats(tables[t]) \ {NextSeat(tables[t])}
         /\ \A u \in 1..Len(tables) : \A n \in TakenSeats(tables'[u]) :
              \/ n \in TakenSeats(tables[u]) /\ tables'[u].at[n] = tables[u].at[n]
              \/ u = t /\ tables'[u].at[n] = agent
<1> DEFINE tb == tables[t]
           new == Seated(agent, tb)
           seat == NextSeat(tb)
<1>1. tb \in Tables  BY DEF LobbyTypes
<1>2. /\ tb = [size |-> tb.size, at |-> tb.at] /\ tb.size \in Sizes
      /\ tb.at \in [TakenSeats(tb) -> People]
      /\ TakenSeats(tb) \subseteq 0..(tb.size - 1)
  BY <1>1, TableIs
<1>3. tb.size \in 2..6 /\ EmptySeats(tb) \in SUBSET (0..(tb.size - 1))
  BY <1>1, EmptyAreFew
<1>4. EmptySeats(tb) # {}  BY DEF CanSit
<1> HIDE DEF tb
<1>5. /\ seat \in EmptySeats(tb)
      /\ new.size = tb.size /\ new = [size |-> tb.size, at |-> new.at]
      /\ new.at = [n \in TakenSeats(tb) \cup {seat} |->
                     IF n \in TakenSeats(tb) THEN tb.at[n] ELSE agent]
  <2>1. tb.size \in Nat  BY <1>3
  <2>2. /\ NextSeat(tb) \in EmptySeats(tb)
        /\ Seated(agent, tb).size = tb.size
        /\ Seated(agent, tb) = [size |-> tb.size, at |-> Seated(agent, tb).at]
        /\ Seated(agent, tb).at =
             [n \in TakenSeats(tb) \cup {NextSeat(tb)} |->
                IF n \in TakenSeats(tb) THEN tb.at[n] ELSE agent]
    BY <1>2, <1>4, <2>1, SeatedIs
  <2> QED  BY <2>2
<1> HIDE DEF new, seat
<1>6. seat \in 0..(tb.size - 1) /\ seat \notin TakenSeats(tb)  BY <1>3, <1>5 DEF EmptySeats
<1>7. TakenSeats(new) = TakenSeats(tb) \cup {seat}  BY <1>5 DEF TakenSeats
<1>8. /\ new.at[seat] = agent
      /\ \A n \in TakenSeats(tb) : new.at[n] = tb.at[n]
  BY <1>5, <1>6
<1>9. new \in Tables
  <2>1. new.at \in [TakenSeats(new) -> People]  BY <1>2, <1>5, <1>7
  <2>2. TakenSeats(new) \subseteq 0..(new.size - 1)  BY <1>2, <1>5, <1>6, <1>7
  <2> QED  BY <1>2, <1>5, <2>1, <2>2, TableIs
<1>10. /\ tables' = [tables EXCEPT ![t] = new] /\ tables \in Seq(Tables)
       /\ \A u \in 1..Len(tables) : u # t => tables'[u] = tables[u]
       /\ tables'[t] = new /\ Len(tables') = Len(tables) /\ tables' \in Seq(Tables)
  <2>1. tables' = [tables EXCEPT ![t] = new]  BY DEF new, tb
  <2>2. tables \in Seq(Tables)  BY DEF LobbyTypes
  <2>3. [tables EXCEPT ![t] = new] \in Seq(Tables)  BY <1>9, <2>2, ExceptSeq
  <2>4. Len([tables EXCEPT ![t] = new]) = Len(tables)  BY <1>9, <2>2, ExceptSeq
  <2>5. \A u \in 1..Len(tables) :
          [tables EXCEPT ![t] = new][u] = IF u = t THEN new ELSE tables[u]
    BY <1>9, <2>2, ExceptSeq
  <2> QED  BY <2>1, <2>2, <2>3, <2>4, <2>5
<1>11. SeatsStay
  <2> SUFFICES ASSUME NEW u \in 1..Len(tables)
               PROVE  /\ tables'[u].size = tables[u].size
                      /\ \A n \in TakenSeats(tables[u]) :
                           /\ n \in TakenSeats(tables'[u])
                           /\ tables'[u].at[n] = tables[u].at[n]
    <3>1. Len(tables) <= Len(tables')  BY <1>10
    <3> QED  BY <3>1 DEF SeatsStay
  <2>1. CASE u = t  BY <2>1, <1>5, <1>7, <1>8, <1>10 DEF tb
  <2>2. CASE u # t  BY <2>2, <1>10
  <2> QED  BY <2>1, <2>2
<1>12. /\ NextSeat(tables[t]) \in TakenSeats(tables'[t])
       /\ tables'[t].at[NextSeat(tables[t])] = agent
  <2>1. seat \in TakenSeats(tables'[t]) /\ tables'[t].at[seat] = agent
    BY <1>7, <1>8, <1>10
  <2> QED  BY <2>1 DEF seat, tb
<1>13. EmptySeats(tables'[t]) = EmptySeats(tables[t]) \ {NextSeat(tables[t])}
  <2>1. EmptySeats(new) = EmptySeats(tb) \ {seat}  BY <1>5, <1>7 DEF EmptySeats
  <2> QED  BY <2>1, <1>10 DEF seat, tb
<1>14. ASSUME NEW u \in 1..Len(tables), NEW n \in TakenSeats(tables'[u])
       PROVE  \/ n \in TakenSeats(tables[u]) /\ tables'[u].at[n] = tables[u].at[n]
              \/ u = t /\ tables'[u].at[n] = agent
  <2>1. CASE u = t  BY <2>1, <1>7, <1>8, <1>10, <1>14 DEF tb
  <2>2. CASE u # t  BY <2>2, <1>10, <1>14
  <2> QED  BY <2>1, <2>2
<1>15. NextSeat(tables[t]) \in Nat /\ NextSeat(tables[t]) \in EmptySeats(tables[t])
  BY <1>5, <1>6 DEF seat, tb
<1> QED  BY <1>10, <1>11, <1>12, <1>13, <1>14, <1>15

-----------------------------------------------------------------------------
\* Two entries that are left in a queue were two entries of it, and were picked.
LEMMA LeftInQueue ==
  ASSUME NEW w \in Seq(Entries), NEW S
  PROVE  /\ Those(w, S) \in Seq(Entries)
         /\ \A i \in 1..Len(Those(w, S)) : Those(w, S)[i] \in S
         /\ \A i, j \in 1..Len(Those(w, S)) : i < j =>
              \E a, b \in 1..Len(w) :
                a < b /\ w[a] = Those(w, S)[i] /\ w[b] = Those(w, S)[j]
<1> DEFINE k == Those(w, S)
<1>1. k \in Seq(Entries) /\ Picked(k, w, S, Len(w))  BY ThosePicked
<1> HIDE DEF k
<1>2. PICK at \in [1..Len(k) -> 1..Len(w)] :
        /\ \A a, b \in 1..Len(k) : a < b => at[a] < at[b]
        /\ \A a \in 1..Len(k) : k[a] = w[at[a]]
  BY <1>1 DEF Picked
<1>3. \A i \in 1..Len(k) : at[i] \in 1..Len(w)  BY <1>2
<1>4. \A i \in 1..Len(k) : k[i] \in S  BY <1>1 DEF Picked
<1>5. \A i, j \in 1..Len(k) : i < j =>
        \E a, b \in 1..Len(w) : a < b /\ w[a] = k[i] /\ w[b] = k[j]
  BY <1>2, <1>3
<1> QED  BY <1>1, <1>4, <1>5 DEF k

\* The same of the queue after.
LEMMA QueueLeft ==
  ASSUME NEW w \in Seq(Entries), NEW S, queue' = Those(w, S)
  PROVE  /\ queue' \in Seq(Entries)
         /\ \A i \in 1..Len(queue') : queue'[i] \in S
         /\ \A i, j \in 1..Len(queue') : i < j =>
              \E a, b \in 1..Len(w) : a < b /\ w[a] = queue'[i] /\ w[b] = queue'[j]
<1> DEFINE k == Those(w, S)
<1>1. /\ k \in Seq(Entries)
      /\ \A i \in 1..Len(k) : k[i] \in S
      /\ \A i, j \in 1..Len(k) : i < j =>
           \E a, b \in 1..Len(w) : a < b /\ w[a] = k[i] /\ w[b] = k[j]
  BY LeftInQueue
<1>2. queue' = k  OBVIOUS
<1> HIDE DEF k
<1> QED  BY <1>1, <1>2

\* A group that two entries are of has at least two.
LEMMA TwoInGroup ==
  ASSUME NEW w \in Seq(Entries), NEW g
  PROVE  /\ InGroup(w, g) \in Seq(Entries)
         /\ \A i \in 1..Len(InGroup(w, g)) : InGroup(w, g)[i].group = g
         /\ \A i, j \in 1..Len(w) :
              i < j /\ w[i].group = g /\ w[j].group = g => Len(InGroup(w, g)) >= 2
         /\ \A i, j \in 1..Len(InGroup(w, g)) : i < j =>
              \E a, b \in 1..Len(w) :
                a < b /\ w[a] = InGroup(w, g)[i] /\ w[b] = InGroup(w, g)[j]
<1> DEFINE S == {e \in ToSet(w) : e.group = g}
           k == Those(w, S)
<1>1. InGroup(w, g) = k  BY DEF InGroup
<1>2. \A i \in 1..Len(w) : w[i].group = g => w[i] \in S  BY DEF ToSet
<1>3. \A x \in S : x.group = g  OBVIOUS
<1> HIDE DEF S
<1>4. k \in Seq(Entries) /\ Picked(k, w, S, Len(w))  BY ThosePicked
<1>5. /\ \A i \in 1..Len(k) : k[i] \in S
      /\ \A i, j \in 1..Len(k) : i < j =>
           \E a, b \in 1..Len(w) : a < b /\ w[a] = k[i] /\ w[b] = k[j]
  BY LeftInQueue
<1> HIDE DEF k
<1>6. PICK at \in [1..Len(k) -> 1..Len(w)] :
        \A i \in 1..Len(w) : w[i] \in S => \E a \in 1..Len(k) : at[a] = i
  BY <1>4 DEF Picked
<1>7. ASSUME NEW i \in 1..Len(w), NEW j \in 1..Len(w), i < j,
             w[i].group = g, w[j].group = g
      PROVE  Len(k) >= 2
  <2>1. PICK a \in 1..Len(k) : at[a] = i  BY <1>2, <1>6, <1>7
  <2>2. PICK b \in 1..Len(k) : at[b] = j  BY <1>2, <1>6, <1>7
  <2>3. a # b /\ Len(k) \in Nat  BY <2>1, <2>2, <1>4, <1>7
  <2> QED  BY <2>3
<1> QED  BY <1>1, <1>3, <1>4, <1>5, <1>7

\* The first few of a sequence.
LEMMA FirstFewAre ==
  ASSUME NEW k \in Seq(Entries), NEW n \in Nat
  PROVE  /\ FirstFew(k, n) \in Seq(Entries)
         /\ Len(FirstFew(k, n)) <= n
         /\ Len(FirstFew(k, n)) = IF Len(k) < n THEN Len(k) ELSE n
         /\ \A i \in 1..Len(FirstFew(k, n)) : FirstFew(k, n)[i] = k[i]
<1> DEFINE m == IF Len(k) < n THEN Len(k) ELSE n
<1>1. Len(k) \in Nat /\ m \in Nat /\ m <= n /\ \A i \in 1..m : k[i] \in Entries
  OBVIOUS
<1> HIDE DEF m
<1>2. /\ SubSeq(k, 1, m) \in Seq(Entries)
      /\ Len(SubSeq(k, 1, m)) = IF 1 <= m THEN m - 1 + 1 ELSE 0
      /\ \A i \in 1..(m - 1 + 1) : SubSeq(k, 1, m)[i] = k[1 + i - 1]
  BY <1>1, SubSeqProperties
<1>3. Len(SubSeq(k, 1, m)) = m  BY <1>1, <1>2
<1>4. \A i \in 1..m : SubSeq(k, 1, m)[i] = k[i]
  <2>1. \A i \in 1..m : i \in 1..(m - 1 + 1) /\ 1 + i - 1 = i  BY <1>1
  <2> QED  BY <1>2, <2>1
<1>5. FirstFew(k, n) = SubSeq(k, 1, m)  BY DEF FirstFew, m
<1> QED  BY <1>1, <1>2, <1>3, <1>4, <1>5 DEF m

\* A new table for matched agents, on seats 0, 1, 2 and so on.
LEMMA NewTableIs ==
  ASSUME NEW m \in Seq(Entries), m # <<>>, Len(m) <= SeatsOf[m[1].group],
         NEW tb, tb = SeatAll(AgentsOf(m), SeatsOf[m[1].group])
  PROVE  /\ tb \in Tables /\ TakenSeats(tb) = 0..(Len(m) - 1)
         /\ \A n \in 0..(Len(m) - 1) : tb.at[n] = m[n + 1].agent /\ tb.at[n] \in Players
<1> DEFINE size == SeatsOf[m[1].group]
<1>1. Len(m) \in Nat /\ 1 \in 1..Len(m) /\ \A i \in 1..Len(m) : m[i] \in Entries
  OBVIOUS
<1>2. \A i \in 1..Len(m) : m[i].agent \in Players /\ m[i].group \in Groups
  BY <1>1 DEF Entries
<1>3. size \in 2..6 /\ size \in Sizes  BY <1>1, <1>2, LobbyAssumption DEF Sizes
<1>4. /\ AgentsOf(m) \in Seq(Players) /\ Len(AgentsOf(m)) = Len(m)
      /\ \A i \in 1..Len(m) : AgentsOf(m)[i] = m[i].agent
  BY <1>1, <1>2 DEF AgentsOf
<1>5. tb = [size |-> size, at |-> [n \in 0..(Len(m) - 1) |-> AgentsOf(m)[n + 1]]]
  <2> HIDE DEF size
  <2>1. tb = SeatAll(AgentsOf(m), size) /\ Len(AgentsOf(m)) <= size /\ size \in Nat
    BY <1>3, <1>4 DEF size
  <2> QED  BY <1>4, <2>1, SeatAllIs
<1>6. \A n \in 0..(Len(m) - 1) : n + 1 \in 1..Len(m)  BY <1>1
<1> HIDE DEF size
<1>7. /\ tb.size = size /\ DOMAIN tb.at = 0..(Len(m) - 1)
      /\ tb.at = [n \in 0..(Len(m) - 1) |-> AgentsOf(m)[n + 1]]
      /\ tb = [size |-> tb.size, at |-> tb.at]
  BY <1>5
<1>8. \A n \in 0..(Len(m) - 1) : tb.at[n] = m[n + 1].agent /\ tb.at[n] \in Players
  BY <1>2, <1>4, <1>6, <1>7
<1>9. TakenSeats(tb) = 0..(Len(m) - 1)  BY <1>7 DEF TakenSeats
<1>10. tb.at \in [TakenSeats(tb) -> People]
  <2>1. \A n \in TakenSeats(tb) : tb.at[n] \in People  BY <1>8, <1>9 DEF People
  <2> QED  BY <1>7, <1>9, <2>1
<1>11. TakenSeats(tb) \subseteq 0..(tb.size - 1)
  <2>1. Len(m) <= size  BY DEF size
  <2> QED  BY <1>1, <1>3, <1>7, <1>9, <2>1
<1>12. tb \in Tables  BY <1>3, <1>7, <1>10, <1>11, TableIs
<1> QED  BY <1>8, <1>9, <1>12

-----------------------------------------------------------------------------
\* A group of entries that can be made a match of: a table's size at most.
FitsATable(m) == /\ m \in Seq(Entries) /\ m # <<>>
                 /\ Len(m) <= SeatsOf[m[1].group]

\* The tables of new matches are tables, and their handlers write their seats.
LEMMA MatchesAreRight ==
  ASSUME LobbyInv, NEW matches, matches \in Seq(Seq(Entries)),
         \A i \in 1..Len(matches) : FitsATable(matches[i]),
         MatchesFound(matches), UNCHANGED botCounter
  PROVE  /\ tables' \in Seq(Tables) /\ SeatsStay /\ BotsAreCounted'
         /\ handlers' \in SUBSET HandlersOf(Len(tables'))
         /\ \A h \in handlers' : h \in handlers \/ HandlerIsRight(h)'
<1> DEFINE n == Len(matches)
           l == Len(tables)
           newTables == [i \in 1..n |->
                           SeatAll(AgentsOf(matches[i]), SeatsOf[matches[i][1].group])]
<1>1. n \in Nat /\ l \in Nat /\ tables \in Seq(Tables)  BY DEF LobbyInv, LobbyTypes
<1>2. \A i \in 1..n :
        /\ matches[i] \in Seq(Entries) /\ matches[i] # <<>>
        /\ Len(matches[i]) \in Nat /\ Len(matches[i]) <= SeatsOf[matches[i][1].group]
  BY DEF FitsATable
<1>3. \A i \in 1..n :
        /\ newTables[i] \in Tables /\ TakenSeats(newTables[i]) = 0..(Len(matches[i]) - 1)
        /\ \A k \in 0..(Len(matches[i]) - 1) :
             /\ newTables[i].at[k] = matches[i][k + 1].agent
             /\ newTables[i].at[k] \in Players
  <2> SUFFICES ASSUME NEW i \in 1..n
               PROVE  /\ newTables[i] \in Tables
                      /\ TakenSeats(newTables[i]) = 0..(Len(matches[i]) - 1)
                      /\ \A k \in 0..(Len(matches[i]) - 1) :
                           /\ newTables[i].at[k] = matches[i][k + 1].agent
                           /\ newTables[i].at[k] \in Players
    OBVIOUS
  <2>1. newTables[i] = SeatAll(AgentsOf(matches[i]), SeatsOf[matches[i][1].group])
    OBVIOUS
  <2> HIDE DEF newTables
  <2> QED  BY <1>2, <2>1, NewTableIs
<1>4. newTables \in Seq(Tables) /\ Len(newTables) = n
  <2>1. newTables \in [1..n -> Tables]  BY <1>3
  <2> HIDE DEF newTables, n
  <2> QED  BY <1>1, <2>1, SequenceIs
<1>5. tables' = tables \o newTables  BY DEF MatchesFound
<1>6. handlers' = handlers \cup {MatchHandler(matches[i], l + i) : i \in 1..n}
  BY DEF MatchesFound
<1> HIDE DEF newTables
<1>7. /\ tables' \in Seq(Tables) /\ Len(tables') = l + n
      /\ \A t \in 1..l : tables'[t] = tables[t]
      /\ \A i \in 1..n : tables'[l + i] = newTables[i]
  <2> HIDE DEF l, n
  <2>1. /\ tables \o newTables \in Seq(Tables)
        /\ Len(tables \o newTables) = l + n
        /\ \A t \in 1..(l + n) :
             (tables \o newTables)[t] = IF t <= l THEN tables[t] ELSE newTables[t - l]
    BY <1>1, <1>4, ConcatProperties DEF l
  <2>2. \A t \in 1..l : t \in 1..(l + n) /\ t <= l  BY <1>1
  <2>3. \A i \in 1..n : l + i \in 1..(l + n) /\ ~(l + i <= l) /\ (l + i) - l = i
    BY <1>1
  <2> QED  BY <1>5, <2>1, <2>2, <2>3
<1>8. SeatsStay  BY <1>1, <1>7 DEF SeatsStay
<1>9. BotsAreCounted'
  <2> SUFFICES ASSUME NEW t \in 1..(l + n), NEW k \in TakenSeats(tables'[t])
               PROVE  tables'[t].at[k] \in Players \cup (1..botCounter)
    BY <1>7 DEF BotsAreCounted
  <2>1. CASE t <= l
    <3>1. t \in 1..l  BY <2>1, <1>1
    <3> QED  BY <3>1, <1>7 DEF LobbyInv, BotsAreCounted
  <2>2. CASE ~(t <= l)
    <3>1. t - l \in 1..n /\ t = l + (t - l)  BY <2>2, <1>1
    <3>2. tables'[t] = newTables[t - l]  BY <3>1, <1>7
    <3> QED  BY <3>1, <3>2, <1>3
  <2> QED  BY <2>1, <2>2
<1>10. ASSUME NEW i \in 1..n, NEW h, h = MatchHandler(matches[i], l + i)
       PROVE  h \in HandlersOf(l + n) /\ HandlerIsRight(h)'
  <2> DEFINE m == matches[i]
             rows == [k \in 1..Len(m) |-> SeatRow(k - 1, m[k].agent, FALSE)]
             left == SeatsOf[m[1].group] - Len(m)
  <2>1. /\ m \in Seq(Entries) /\ m # <<>> /\ Len(m) \in Nat /\ 1 \in 1..Len(m)
        /\ \A k \in 1..Len(m) : m[k] \in Entries
    BY <1>2
  <2>2. left \in Int
    <3>1. m[1].group \in Groups  BY <2>1 DEF Entries
    <3>2. SeatsOf[m[1].group] \in 2..6  BY <3>1, LobbyAssumption
    <3> HIDE DEF m
    <3> QED  BY <2>1, <3>2
  <2>3. h = [kind |-> "match", table |-> l + i, rows |-> rows, left |-> left,
             newTable |-> "match" \in {"match", "create"}]
    BY <1>10 DEF MatchHandler, Handler
  <2> HIDE DEF left
  <2>4. \A k \in 1..Len(m) : SeatRow(k - 1, m[k].agent, FALSE) \in Rows
    BY <2>1 DEF SeatRow, Rows, Entries, People
  <2>5. /\ rows \in Seq(Rows) /\ Len(rows) = Len(m)
        /\ \A k \in 1..Len(m) : rows[k].seat = k - 1 /\ rows[k].agent = m[k].agent
    <3>1. rows \in [1..Len(m) -> Rows]  BY <2>4
    <3>2. \A k \in 1..Len(m) : rows[k].seat = k - 1 /\ rows[k].agent = m[k].agent
      BY DEF SeatRow
    <3>3. Len(m) \in Nat  BY <2>1
    <3> HIDE DEF rows, m
    <3>4. rows \in Seq(Rows) /\ Len(rows) = Len(m)  BY <3>1, <3>3, SequenceIs
    <3> QED  BY <3>2, <3>4
  <2> HIDE DEF rows
  <2>6. l + i \in 1..(l + n)  BY <1>1
  <2>7. h \in HandlersOf(l + n)  BY <2>2, <2>3, <2>5, <2>6 DEF HandlersOf
  <2>8. tables'[l + i] = newTables[i]  BY <1>7
  <2>9. \A k \in 1..Len(m) : k - 1 \in 0..(Len(m) - 1) /\ (k - 1) + 1 = k  BY <2>1
  <2>10. \A k \in 1..Len(rows) : SeatIs(h.table, rows[k].seat, rows[k].agent)'
    <3> SUFFICES ASSUME NEW k \in 1..Len(m)
                 PROVE  /\ k - 1 \in TakenSeats(newTables[i])
                        /\ newTables[i].at[k - 1] = m[k].agent
      BY <2>3, <2>5, <2>8 DEF SeatIs
    <3> QED  BY <2>9, <1>3
  <2>11. HandlerIsRight(h)'  BY <2>3, <2>10 DEF HandlerIsRight
  <2> QED  BY <2>7, <2>11
<1>11. handlers' \in SUBSET HandlersOf(Len(tables'))
  <2>1. \A h \in HandlersOf(l) : h \in HandlersOf(l + n)
    <3>1. \A t \in 1..l : t \in 1..(l + n)  BY <1>1
    <3> QED  BY <3>1 DEF HandlersOf
  <2>2. handlers \in SUBSET HandlersOf(l)  BY DEF LobbyInv, LobbyTypes
  <2> QED  BY <1>6, <1>7, <1>10, <2>1, <2>2
<1>12. \A h \in handlers' : h \in handlers \/ HandlerIsRight(h)'
  BY <1>6, <1>10
<1> QED  BY <1>7, <1>8, <1>9, <1>11, <1>12

\* What is picked out of the queue leaves nobody with somebody to play with.
LEMMA PickedFromQueue ==
  ASSUME LobbyInv, NEW S, queue' = Those(queue, S)
  PROVE  queue' \in Seq(Entries) /\ NobodyWaitsForAnother'
<1>1. queue \in Seq(Entries)  BY DEF LobbyInv, LobbyTypes
<1>2. /\ queue' \in Seq(Entries)
      /\ \A i, j \in 1..Len(queue') : i < j =>
           \E a, b \in 1..Len(queue) : a < b /\ queue[a] = queue'[i] /\ queue[b] = queue'[j]
  BY <1>1, LeftInQueue
<1>3. ASSUME NEW i \in 1..Len(queue'), NEW j \in 1..Len(queue'), i < j
      PROVE  queue'[i].group # queue'[j].group
  <2>1. PICK a \in 1..Len(queue), b \in 1..Len(queue) :
          a < b /\ queue[a] = queue'[i] /\ queue[b] = queue'[j]
    BY <1>2, <1>3
  <2>2. a # b  BY <1>1, <2>1
  <2> QED  BY <2>1, <2>2 DEF LobbyInv, NobodyWaitsForAnother
<1>4. \A i, j \in 1..Len(queue') : i = j \/ i < j \/ j < i  BY <1>2
<1> QED  BY <1>2, <1>3, <1>4 DEF NobodyWaitsForAnother

-----------------------------------------------------------------------------
\* Nobody has queued or sat down.
LEMMA LobbyInitInv == ASSUME LobbyInit PROVE LobbyInv /\ RowsAreSeats
<1>1. LobbyTypes  BY DEF LobbyInit, LobbyTypes
<1>2. Len(tables) = 0 /\ Len(queue) = 0 /\ DOMAIN storedSeats = {}  BY DEF LobbyInit
<1>3. BotsAreCounted /\ NobodyWaitsForAnother /\ StoredAreSeats /\ RowsAreSeats
  BY <1>2 DEF BotsAreCounted, NobodyWaitsForAnother, StoredAreSeats, RowsAreSeats
<1>4. HandlersAreRight /\ FilledTableIsFull
  BY DEF LobbyInit, HandlersAreRight, FilledTableIsFull
<1> QED  BY <1>1, <1>3, <1>4 DEF LobbyInv

\* An enqueue that makes no match leaves nobody to play with: with two in a group a
\* match is made, and those two leave.
LEMMA EnqueueInv ==
  ASSUME LobbyInv, NEW agent \in Players, NEW group \in Groups, Enqueue(agent, group)
  PROVE  LobbyInv'
<1> DEFINE l == Len(queue)
           waiting == Append(queue, [agent |-> agent, group |-> group, old |-> FALSE])
           ready == {i \in 1..Len(waiting) : waiting[i].group \in ReadyGroups(waiting)}
           g == waiting[Min(ready)].group
           k == InGroup(waiting, g)
           matched == FirstFew(k, MinPlayers)
<1>1. queue \in Seq(Entries) /\ l \in Nat
      /\ [agent |-> agent, group |-> group, old |-> FALSE] \in Entries
  BY DEF LobbyInv, LobbyTypes, Entries
<1>2. /\ waiting \in Seq(Entries) /\ Len(waiting) = l + 1
      /\ \A i \in 1..l : waiting[i] = queue[i]
      /\ waiting[l + 1].group = group
  BY <1>1, AppendProperties
<1>3. IF ready = {} THEN queue' = waiting /\ UNCHANGED <<tables, handlers>>
      ELSE queue' = Without(waiting, matched) /\ MatchesFound(<<matched>>)
  BY DEF Enqueue
<1>4. UNCHANGED <<fillTimers, botCounter, filled, storedSeats>>
  BY DEF Enqueue, storeVars
<1> HIDE DEF waiting
<1>5. \A i \in 1..Len(waiting) : waiting[i].group \in Groups
  <2>1. \A i \in 1..Len(waiting) : waiting[i] \in Entries  BY <1>2
  <2> QED  BY <2>1 DEF Entries
<1>6. ASSUME NEW i \in 1..(l + 1), NEW j \in 1..(l + 1), i < j,
             waiting[i].group = waiting[j].group
      PROVE  j = l + 1 /\ i \in 1..l /\ waiting[i].group = group
  <2>1. i \in 1..l  BY <1>1, <1>6
  <2>2. CASE j \in 1..l
    BY <2>1, <2>2, <1>2, <1>6 DEF LobbyInv, NobodyWaitsForAnother
  <2>3. CASE j = l + 1  BY <2>1, <2>3, <1>2, <1>6
  <2> QED  BY <1>1, <2>2, <2>3
<1>7. CASE ready = {}
  <2>1. UNCHANGED <<tables, handlers>> /\ queue' = waiting  BY <1>3, <1>7
  <2>2. ASSUME NEW i \in 1..Len(waiting), NEW j \in 1..Len(waiting), i < j
        PROVE  waiting[i].group # waiting[j].group
    <3> SUFFICES ASSUME waiting[i].group = waiting[j].group PROVE FALSE  OBVIOUS
    <3>1. Len(InGroup(waiting, waiting[i].group)) >= 2  BY <1>2, <2>2, TwoInGroup
    <3>2. i \in ready  BY <3>1, <1>5 DEF ReadyGroups, MinPlayers
    <3> QED  BY <3>2, <1>7
  <2>3. \A i, j \in 1..Len(waiting) : i = j \/ i < j \/ j < i  BY <1>1, <1>2
  <2>4. NobodyWaitsForAnother'  BY <2>1, <2>2, <2>3 DEF NobodyWaitsForAnother
  <2>5. SeatsStay  BY <2>1 DEF SeatsStay, LobbyInv, LobbyTypes
  <2>6. LobbyTypes'  BY <1>2, <1>4, <2>1 DEF LobbyInv, LobbyTypes
  <2>7. BotsAreCounted'  BY <1>4, <2>1 DEF LobbyInv, BotsAreCounted
  <2> QED  BY <1>4, <2>1, <2>4, <2>5, <2>6, <2>7, SeatsStayInv
<1>8. CASE ready # {}
  <2>1. queue' = Without(waiting, matched) /\ MatchesFound(<<matched>>)
    BY <1>3, <1>8
  <2>2. Min(ready) \in ready
    <3>1. ready \in SUBSET Nat  OBVIOUS
    <3> HIDE DEF ready
    <3> QED  BY <1>8, <3>1, MinIs
  <2>3. g \in Groups /\ Len(k) >= 2
    BY <1>5, <2>2 DEF ReadyGroups, MinPlayers
  <2> HIDE DEF g, ready
  <2>4. /\ k \in Seq(Entries) /\ \A i \in 1..Len(k) : k[i].group = g
        /\ \A i, j \in 1..Len(k) : i < j =>
             \E a, b \in 1..Len(waiting) : a < b /\ waiting[a] = k[i] /\ waiting[b] = k[j]
    BY <1>2, TwoInGroup
  <2> HIDE DEF k
  <2>5. /\ matched \in Seq(Entries) /\ Len(matched) = 2
        /\ \A i \in 1..2 : matched[i] = k[i]
    <3>1. /\ FirstFew(k, 2) \in Seq(Entries)
          /\ Len(FirstFew(k, 2)) = IF Len(k) < 2 THEN Len(k) ELSE 2
          /\ \A i \in 1..Len(FirstFew(k, 2)) : FirstFew(k, 2)[i] = k[i]
      <4>1. 2 \in Nat /\ k \in Seq(Entries)  BY <2>4
      <4> HIDE DEF matched
      <4> QED  BY <4>1, FirstFewAre
    <3>2. Len(FirstFew(k, 2)) = 2  BY <2>3, <2>4, <3>1
    <3> QED  BY <3>1, <3>2 DEF MinPlayers
  <2> HIDE DEF matched
  <2>6. 1 \in 1..Len(k) /\ 2 \in 1..Len(k)  BY <2>3, <2>4
  <2>7. PICK a \in 1..Len(waiting), b \in 1..Len(waiting) :
          a < b /\ waiting[a] = matched[1] /\ waiting[b] = matched[2]
    <3>1. matched[1] = k[1] /\ matched[2] = k[2] /\ 1 < 2  BY <2>5
    <3> QED  BY <2>4, <2>6, <3>1
  <2>8. matched[1].group = g /\ matched[2].group = g  BY <2>4, <2>5, <2>6
  <2>9. a \in 1..l /\ g = group
    <3>1. a \in 1..(l + 1) /\ b \in 1..(l + 1) /\ a < b  BY <1>2, <2>7
    <3>2. waiting[a].group = waiting[b].group  BY <2>7, <2>8
    <3> QED  BY <3>1, <3>2, <1>6, <2>7, <2>8
  <2>10. FitsATable(matched)
    <3>1. SeatsOf[g] \in 2..6  BY <2>3, LobbyAssumption
    <3>2. matched # <<>> /\ matched \in Seq(Entries)  BY <2>5
    <3>3. Len(matched) <= SeatsOf[matched[1].group]  BY <3>1, <2>5, <2>8
    <3> QED  BY <3>2, <3>3 DEF FitsATable
  <2>11. /\ <<matched>> \in Seq(Seq(Entries)) /\ Len(<<matched>>) = 1
         /\ \A i \in 1..Len(<<matched>>) : FitsATable(<<matched>>[i])
    BY <2>5, <2>10
  <2>12. /\ tables' \in Seq(Tables) /\ SeatsStay /\ BotsAreCounted'
         /\ handlers' \in SUBSET HandlersOf(Len(tables'))
         /\ \A h \in handlers' : h \in handlers \/ HandlerIsRight(h)'
    BY <1>4, <2>1, <2>11, MatchesAreRight
  <2> DEFINE S == ToSet(waiting) \ ToSet(matched)
  <2>13. queue' = Those(waiting, S)  BY <2>1 DEF Without
  <2>14. matched[1] \notin S  BY <2>5 DEF ToSet
  <2> HIDE DEF S
  <2>15. /\ queue' \in Seq(Entries)
         /\ \A i \in 1..Len(queue') : queue'[i] \in S
         /\ \A i, j \in 1..Len(queue') : i < j =>
              \E c, d \in 1..Len(waiting) :
                c < d /\ waiting[c] = queue'[i] /\ waiting[d] = queue'[j]
    BY <1>2, <2>13, QueueLeft
  <2>16. ASSUME NEW i \in 1..Len(queue'), NEW j \in 1..Len(queue'), i < j
         PROVE  queue'[i].group # queue'[j].group
    <3> SUFFICES ASSUME queue'[i].group = queue'[j].group PROVE FALSE  OBVIOUS
    <3>1. PICK c \in 1..Len(waiting), d \in 1..Len(waiting) :
            c < d /\ waiting[c] = queue'[i] /\ waiting[d] = queue'[j]
      BY <2>15, <2>16
    <3>2. c \in 1..(l + 1) /\ d \in 1..(l + 1)  BY <1>2
    <3>3. c \in 1..l /\ waiting[c].group = group  BY <1>6, <3>1, <3>2
    <3>4. c = a
      <4>1. queue[c].group = queue[a].group  BY <1>2, <2>7, <2>8, <2>9, <3>3
      <4> QED  BY <4>1, <2>9, <3>3 DEF LobbyInv, NobodyWaitsForAnother
    <3>5. queue'[i] = matched[1]  BY <2>7, <3>1, <3>4
    <3>6. queue'[i] \in S
      <4>1. \A m \in 1..Len(queue') : queue'[m] \in S  BY <2>15
      <4> QED  BY <4>1
    <3> QED  BY <2>14, <3>5, <3>6
  <2>17. NobodyWaitsForAnother'
    <3>1. \A i, j \in 1..Len(queue') : i = j \/ i < j \/ j < i  BY <2>15
    <3> QED  BY <2>16, <3>1 DEF NobodyWaitsForAnother
  <2>18. Len(tables) <= Len(tables') /\ Len(tables) \in Nat /\ Len(tables') \in Nat
    BY <2>12 DEF SeatsStay, LobbyInv, LobbyTypes
  <2>19. LobbyTypes'
    BY <1>4, <2>12, <2>15, <2>18 DEF LobbyInv, LobbyTypes
  <2> QED  BY <1>4, <2>12, <2>17, <2>19, SeatsStayInv
<1> QED  BY <1>7, <1>8

\* A forced match takes whole groups, or as many of one as a table seats.
LEMMA ForcedMatchInv == ASSUME LobbyInv, ForcedMatch PROVE LobbyInv'
<1> DEFINE groups == SetToSeq(OldGroups)
           matches == [i \in 1..Len(groups) |->
                         FirstFew(InGroup(queue, groups[i]), SeatsOf[groups[i]])]
<1>1. /\ queue' = Without(queue, FlattenSeq(matches)) /\ MatchesFound(matches)
      /\ UNCHANGED <<fillTimers, botCounter, filled, storedSeats>>
  BY DEF ForcedMatch, storeVars
<1>2. queue \in Seq(Entries) /\ Len(queue) \in Nat  BY DEF LobbyInv, LobbyTypes
<1>3. IsFiniteSet(OldGroups)
  <2> DEFINE f == [i \in 1..Len(queue) |-> queue[i].group]
             named == {f[i] : i \in 1..Len(queue)}
  <2>1. IsFiniteSet(1..Len(queue))  BY <1>2, FS_Interval
  <2>2. IsFiniteSet(named)
    <3>1. f \in Surjection(1..Len(queue), named)  BY DEF Surjection
    <3> HIDE DEF f, named
    <3> QED  BY <2>1, <3>1, FS_Surjection
  <2>3. OldGroups \in SUBSET named
    <3> SUFFICES ASSUME NEW g \in OldGroups PROVE g \in named  OBVIOUS
    <3>1. InGroup(queue, g) # <<>>  BY DEF OldGroups
    <3>2. /\ InGroup(queue, g) \in Seq(Entries)
          /\ \A i \in 1..Len(InGroup(queue, g)) : InGroup(queue, g)[i].group = g
      BY <1>2, TwoInGroup
    <3>3. 1 \in 1..Len(InGroup(queue, g))  BY <3>1, <3>2
    <3> DEFINE S == {e \in ToSet(queue) : e.group = g}
    <3>4. InGroup(queue, g) = Those(queue, S)  BY DEF InGroup
    <3>5. InGroup(queue, g)[1] \in S
      <4> HIDE DEF S
      <4> QED  BY <1>2, <3>3, <3>4, LeftInQueue
    <3>6. PICK i \in 1..Len(queue) : queue[i].group = g  BY <1>2, <3>5 DEF ToSet
    <3> QED  BY <3>6
  <2> HIDE DEF named
  <2> QED  BY <2>2, <2>3, FS_Subset
<1>4. groups \in Seq(OldGroups)  BY <1>3, SetToSeqIs
<1> HIDE DEF groups
<1>5. ASSUME NEW i \in 1..Len(groups) PROVE FitsATable(matches[i])
  <2> DEFINE g == groups[i]
             m == FirstFew(InGroup(queue, g), SeatsOf[g])
  <2>1. g \in Groups /\ InGroup(queue, g) # <<>>  BY <1>4 DEF OldGroups
  <2>2. SeatsOf[g] \in 2..6  BY <2>1, LobbyAssumption
  <2>3. matches[i] = m  OBVIOUS
  <2> HIDE DEF g, matches
  <2>4. /\ InGroup(queue, g) \in Seq(Entries)
        /\ \A j \in 1..Len(InGroup(queue, g)) : InGroup(queue, g)[j].group = g
    BY <1>2, TwoInGroup
  <2>5. Len(InGroup(queue, g)) \in Nat \ {0}  BY <2>1, <2>4
  <2>6. /\ m \in Seq(Entries) /\ Len(m) <= SeatsOf[g]
        /\ Len(m) = IF Len(InGroup(queue, g)) < SeatsOf[g]
                    THEN Len(InGroup(queue, g)) ELSE SeatsOf[g]
        /\ \A j \in 1..Len(m) : m[j] = InGroup(queue, g)[j]
    <3>1. SeatsOf[g] \in Nat  BY <2>2
    <3> QED  BY <2>4, <3>1, FirstFewAre
  <2> HIDE DEF m
  <2>7. Len(m) \in Nat /\ Len(m) >= 1 /\ Len(m) <= Len(InGroup(queue, g))
    BY <2>2, <2>5, <2>6
  <2>8. m[1].group = g
    <3>1. 1 \in 1..Len(m) /\ 1 \in 1..Len(InGroup(queue, g))  BY <2>5, <2>7
    <3> QED  BY <2>4, <2>6, <3>1
  <2>9. m # <<>>  BY <2>7
  <2> QED  BY <2>3, <2>6, <2>8, <2>9 DEF FitsATable
<1>6. matches \in Seq(Seq(Entries)) /\ Len(matches) = Len(groups)
  <2>1. Len(groups) \in Nat  BY <1>4
  <2>2. \A i \in 1..Len(groups) : matches[i] \in Seq(Entries)  BY <1>5 DEF FitsATable
  <2>3. matches \in [1..Len(groups) -> Seq(Entries)]  BY <2>2
  <2> HIDE DEF matches
  <2> QED  BY <2>1, <2>3, SequenceIs
<1> HIDE DEF matches
<1>7. /\ tables' \in Seq(Tables) /\ SeatsStay /\ BotsAreCounted'
      /\ handlers' \in SUBSET HandlersOf(Len(tables'))
      /\ \A h \in handlers' : h \in handlers \/ HandlerIsRight(h)'
  BY <1>1, <1>5, <1>6, MatchesAreRight
<1>8. queue' \in Seq(Entries) /\ NobodyWaitsForAnother'
  BY <1>1, PickedFromQueue DEF Without
<1>9. Len(tables) <= Len(tables') /\ Len(tables) \in Nat /\ Len(tables') \in Nat
  BY <1>7 DEF SeatsStay, LobbyInv, LobbyTypes
<1>10. LobbyTypes'  BY <1>1, <1>7, <1>8, <1>9 DEF LobbyInv, LobbyTypes
<1> QED  BY <1>1, <1>7, <1>8, <1>10, SeatsStayInv

-----------------------------------------------------------------------------
\* A handler with one seat to write.
LEMMA OneRow ==
  ASSUME NEW n, NEW t \in 1..n, NEW kind \in {"join", "fill"}, NEW row \in Rows,
         NEW left \in Int
  PROVE  /\ Handler(kind, t, <<row>>, left) \in HandlersOf(n)
         /\ Handler(kind, t, <<row>>, left).kind = kind
         /\ Handler(kind, t, <<row>>, left).table = t
         /\ Handler(kind, t, <<row>>, left).left = left
         /\ Len(Handler(kind, t, <<row>>, left).rows) = 1
         /\ Handler(kind, t, <<row>>, left).rows[1] = row
<1>1. <<row>> \in Seq(Rows) /\ Len(<<row>>) = 1 /\ <<row>>[1] = row  OBVIOUS
<1> QED  BY <1>1 DEF Handler, HandlersOf

\* Steps that touch neither the tables, nor the queue's groups, nor what is stored.
LEMMA TablesStay ==
  ASSUME LobbyInv, UNCHANGED <<tables, botCounter>>
  PROVE  SeatsStay /\ BotsAreCounted'
  BY DEF LobbyInv, LobbyTypes, SeatsStay, BotsAreCounted

\* Agents that leave the queue, and entries that grow old.
LEMMA QueueInv ==
  ASSUME LobbyInv,
         \/ \E agent \in Players : Dequeue(agent)
         \/ \E i \in 1..Len(queue) : GrowOld(i)
  PROVE  LobbyInv'
<1>1. UNCHANGED <<tables, handlers, fillTimers, botCounter, filled, storedSeats>>
  BY DEF Dequeue, GrowOld, storeVars
<1>2. queue' \in Seq(Entries) /\ NobodyWaitsForAnother'
  <2>1. ASSUME NEW agent \in Players, Dequeue(agent)
        PROVE  queue' \in Seq(Entries) /\ NobodyWaitsForAnother'
    <3> DEFINE S == {e \in ToSet(queue) : e.agent # agent}
    <3>1. queue' = Those(queue, S)  BY <2>1 DEF Dequeue
    <3> HIDE DEF S
    <3> QED  BY <3>1, PickedFromQueue
  <2>2. ASSUME NEW i \in 1..Len(queue), GrowOld(i)
        PROVE  queue' \in Seq(Entries) /\ NobodyWaitsForAnother'
    <3>1. queue \in Seq(Entries) /\ queue[i] \in Entries  BY DEF LobbyInv, LobbyTypes
    <3> DEFINE aged == [queue[i] EXCEPT !.old = TRUE]
    <3>2. aged \in Entries /\ aged.group = queue[i].group  BY <3>1 DEF Entries
    <3>3. queue' = [queue EXCEPT ![i] = aged]  BY <2>2 DEF GrowOld
    <3> HIDE DEF aged
    <3>4. /\ queue' \in Seq(Entries) /\ Len(queue') = Len(queue)
          /\ \A j \in 1..Len(queue) : queue'[j] = IF j = i THEN aged ELSE queue[j]
      BY <3>1, <3>2, <3>3, ExceptSeq
    <3>5. \A j \in 1..Len(queue) : queue'[j].group = queue[j].group
      BY <3>2, <3>4
    <3> QED  BY <3>4, <3>5 DEF LobbyInv, NobodyWaitsForAnother
  <2> QED  BY <2>1, <2>2
<1>3. LobbyTypes'  BY <1>1, <1>2 DEF LobbyInv, LobbyTypes
<1> QED  BY <1>1, <1>2, <1>3, TablesStay, SeatsStayInv

\* A table that an agent makes is empty.
LEMMA CreateTableInv ==
  ASSUME LobbyInv, NEW g \in Groups, CreateTable(SeatsOf[g])
  PROVE  LobbyInv'
<1> DEFINE tb == [size |-> SeatsOf[g], at |-> <<>>]
<1> PICK h : h = Handler("create", Len(tables) + 1, <<>>, 0)  OBVIOUS
<1>1. /\ tables' = Append(tables, tb) /\ handlers' = handlers \cup {h}
      /\ UNCHANGED <<queue, fillTimers, botCounter, filled, storedSeats>>
  BY DEF CreateTable, storeVars
<1>2. tables \in Seq(Tables) /\ Len(tables) \in Nat  BY DEF LobbyInv, LobbyTypes
<1>3. TakenSeats(tb) = {}  BY DEF TakenSeats
<1>4. tb \in Tables
  <2>1. tb.at \in [{} -> People]  OBVIOUS
  <2>2. tb.size \in Sizes /\ tb = [size |-> tb.size, at |-> tb.at]  BY DEF Sizes
  <2> HIDE DEF tb
  <2> QED  BY <1>3, <2>1, <2>2, TableIs
<1>5. h \in HandlersOf(Len(tables) + 1) /\ h.kind = "create" /\ Len(h.rows) = 0
  BY <1>2 DEF Handler, HandlersOf
<1> HIDE DEF tb
<1>6. /\ tables' \in Seq(Tables) /\ Len(tables') = Len(tables) + 1
      /\ \A t \in 1..Len(tables) : tables'[t] = tables[t]
      /\ tables'[Len(tables) + 1] = tb
  BY <1>1, <1>2, <1>4, AppendProperties
<1>7. SeatsStay  BY <1>2, <1>6 DEF SeatsStay
<1>8. BotsAreCounted'
  <2>1. \A t \in 1..Len(tables') : t \in 1..Len(tables) \/ t = Len(tables) + 1
    BY <1>2, <1>6
  <2> QED  BY <1>1, <1>3, <1>6, <2>1 DEF LobbyInv, BotsAreCounted
<1>9. LobbyTypes'
  <2>1. \A x \in HandlersOf(Len(tables)) : x \in HandlersOf(Len(tables'))
    <3>1. \A t \in 1..Len(tables) : t \in 1..Len(tables')  BY <1>2, <1>6
    <3> QED  BY <3>1 DEF HandlersOf
  <2>2. handlers' \in SUBSET HandlersOf(Len(tables'))
    BY <1>1, <1>5, <1>6, <2>1 DEF LobbyInv, LobbyTypes
  <2> QED  BY <1>1, <1>2, <1>6, <2>2 DEF LobbyInv, LobbyTypes
<1>10. HandlerIsRight(h)'  BY <1>5 DEF HandlerIsRight
<1>11. NobodyWaitsForAnother'  BY <1>1 DEF LobbyInv, NobodyWaitsForAnother
<1> QED  BY <1>1, <1>7, <1>8, <1>9, <1>10, <1>11, SeatsStayInv

\* An agent that joins is written on the seat it has.
LEMMA JoinInv ==
  ASSUME LobbyInv, NEW agent \in Players, NEW t \in 1..Len(tables), Join(agent, t)
  PROVE  LobbyInv'
<1>10. PICK seat : seat = NextSeat(tables[t])  OBVIOUS
<1>11. PICK h : h = Handler("join", t, <<SeatRow(seat, agent, FALSE)>>, 0)  OBVIOUS
<1>1. /\ CanSit(agent, tables[t]) /\ tables' = [tables EXCEPT ![t] = Seated(agent, @)]
      /\ handlers' = handlers \cup {h}
      /\ UNCHANGED <<queue, fillTimers, botCounter, filled, storedSeats>>
  BY <1>10, <1>11 DEF Join, SeatTaken, storeVars
<1>2. LobbyTypes /\ agent \in People  BY DEF LobbyInv, People
<1>3. /\ tables' \in Seq(Tables) /\ Len(tables') = Len(tables) /\ SeatsStay
      /\ seat \in Nat /\ seat \in TakenSeats(tables'[t]) /\ tables'[t].at[seat] = agent
      /\ \A u \in 1..Len(tables) : \A n \in TakenSeats(tables'[u]) :
           \/ n \in TakenSeats(tables[u]) /\ tables'[u].at[n] = tables[u].at[n]
           \/ u = t /\ tables'[u].at[n] = agent
  <2>1. /\ tables' \in Seq(Tables) /\ Len(tables') = Len(tables) /\ SeatsStay
        /\ NextSeat(tables[t]) \in Nat /\ NextSeat(tables[t]) \in TakenSeats(tables'[t])
        /\ tables'[t].at[NextSeat(tables[t])] = agent
    BY <1>1, <1>2, TakesASeat
  <2>2. \A u \in 1..Len(tables) : \A n \in TakenSeats(tables'[u]) :
          \/ n \in TakenSeats(tables[u]) /\ tables'[u].at[n] = tables[u].at[n]
          \/ u = t /\ tables'[u].at[n] = agent
    BY <1>1, <1>2, TakesASeat
  <2> QED  BY <1>10, <2>1, <2>2
<1>4. SeatRow(seat, agent, FALSE) \in Rows
  BY <1>2, <1>3 DEF SeatRow, Rows
<1>5. /\ h \in HandlersOf(Len(tables)) /\ h.kind = "join" /\ h.table = t
      /\ Len(h.rows) = 1 /\ h.rows[1] = SeatRow(seat, agent, FALSE)
  <2> DEFINE row == SeatRow(seat, agent, FALSE)
             w == Handler("join", t, <<row>>, 0)
  <2>1. row \in Rows  BY <1>4
  <2>3. 0 \in Int /\ "join" \in {"join", "fill"}  OBVIOUS
  <2> HIDE DEF row
  <2>2. /\ w \in HandlersOf(Len(tables)) /\ w.kind = "join" /\ w.table = t
        /\ Len(w.rows) = 1 /\ w.rows[1] = row
    BY <2>1, <2>3, OneRow
  <2> QED  BY <1>11, <2>2 DEF row
<1>6. HandlerIsRight(h)'
  <2>1. h.rows[1].seat = seat /\ h.rows[1].agent = agent  BY <1>5 DEF SeatRow
  <2>2. \A i \in 1..Len(h.rows) : i = 1  BY <1>5
  <2> QED  BY <1>3, <1>5, <2>1, <2>2 DEF HandlerIsRight, SeatIs
<1>7. LobbyTypes'  BY <1>1, <1>3, <1>5 DEF LobbyInv, LobbyTypes
<1>8. BotsAreCounted'
  <2> SUFFICES ASSUME NEW u \in 1..Len(tables), NEW n \in TakenSeats(tables'[u])
               PROVE  tables'[u].at[n] \in Players \cup (1..botCounter)
    BY <1>1, <1>3 DEF BotsAreCounted
  <2> QED  BY <1>3 DEF LobbyInv, BotsAreCounted
<1>9. NobodyWaitsForAnother'  BY <1>1 DEF LobbyInv, NobodyWaitsForAnother
<1> QED  BY <1>1, <1>3, <1>6, <1>7, <1>8, <1>9, SeatsStayInv

\* A fill starts with as many bots as there are empty seats.
LEMMA FillFiresInv ==
  ASSUME LobbyInv, NEW t \in fillTimers, FillFires(t)
  PROVE  LobbyInv'
<1> PICK h : h = Handler("fill", t, <<>>, EmptySlots(tables[t]))  OBVIOUS
<1>1. /\ handlers' = handlers \cup {h} /\ fillTimers' = fillTimers \ {t}
      /\ UNCHANGED <<queue, tables, botCounter, filled, storedSeats>>
  BY DEF FillFires, storeVars
<1>2. t \in 1..Len(tables) /\ tables[t] \in Tables  BY DEF LobbyInv, LobbyTypes
<1>3. EmptySlots(tables[t]) \in Nat  BY <1>2, EmptyAreFew DEF EmptySlots
<1>4. h \in HandlersOf(Len(tables)) /\ h.table = t /\ Len(h.rows) = 0
      /\ h.left = EmptySlots(tables[t])
  BY <1>2, <1>3 DEF Handler, HandlersOf
<1>5. HandlerIsRight(h)'  BY <1>1, <1>3, <1>4 DEF HandlerIsRight, EmptySlots
<1>6. LobbyTypes'  BY <1>1, <1>4 DEF LobbyInv, LobbyTypes
<1>7. NobodyWaitsForAnother'  BY <1>1 DEF LobbyInv, NobodyWaitsForAnother
<1> QED  BY <1>1, <1>5, <1>6, <1>7, TablesStay, SeatsStayInv

\* The next bot takes the next seat, if there still is one: it sits nowhere yet.
LEMMA SeatBotInv ==
  ASSUME LobbyInv, NEW h \in handlers, SeatBot(h)
  PROVE  LobbyInv'
<1> DEFINE t == h.table
<1>8. PICK bot : bot = botCounter + 1  OBVIOUS
<1>9. PICK seat : seat = NextSeat(tables[t])  OBVIOUS
<1>10. PICK seated : seated = Handler("fill", t, <<SeatRow(seat, bot, TRUE)>>, h.left - 1)
  OBVIOUS
<1>11. PICK refused : refused = Handler("fill", t, <<>>, h.left - 1)  OBVIOUS
<1>1. /\ h.kind = "fill" /\ h.left > 0 /\ botCounter' = bot
      /\ IF CanSit(bot, tables[t])
         THEN /\ tables' = [tables EXCEPT ![t] = Seated(bot, @)]
              /\ handlers' = (handlers \ {h}) \cup {seated}
         ELSE handlers' = (handlers \ {h}) \cup {refused} /\ UNCHANGED tables
      /\ UNCHANGED <<queue, fillTimers, filled, storedSeats>>
  BY <1>8, <1>9, <1>10, <1>11 DEF SeatBot, storeVars
<1>2. /\ LobbyTypes /\ botCounter \in Nat /\ bot \in Nat /\ bot \in People
      /\ t \in 1..Len(tables) /\ tables[t] \in Tables /\ h.left \in Int
  BY <1>8 DEF LobbyInv, LobbyTypes, HandlersOf, People
<1>3. Cardinality(EmptySeats(tables[t])) <= h.left
  BY <1>1 DEF LobbyInv, HandlersAreRight, HandlerIsRight
<1>4. /\ IsFiniteSet(EmptySeats(tables[t]))
      /\ Cardinality(EmptySeats(tables[t])) \in Nat
  BY <1>2, EmptyAreFew
<1>5. NobodyWaitsForAnother'  BY <1>1 DEF LobbyInv, NobodyWaitsForAnother
<1>6. CASE CanSit(bot, tables[t])
  <2>1. /\ tables' \in Seq(Tables) /\ Len(tables') = Len(tables) /\ SeatsStay
        /\ seat \in Nat /\ seat \in TakenSeats(tables'[t]) /\ tables'[t].at[seat] = bot
        /\ seat \in EmptySeats(tables[t])
        /\ EmptySeats(tables'[t]) = EmptySeats(tables[t]) \ {seat}
        /\ \A u \in 1..Len(tables) : \A n \in TakenSeats(tables'[u]) :
             \/ n \in TakenSeats(tables[u]) /\ tables'[u].at[n] = tables[u].at[n]
             \/ u = t /\ tables'[u].at[n] = bot
    <3> HIDE DEF t
    <3>1. CanSit(bot, tables[t]) /\ tables' = [tables EXCEPT ![t] = Seated(bot, @)]
      BY <1>1, <1>6
    <3>2. /\ tables' \in Seq(Tables) /\ Len(tables') = Len(tables) /\ SeatsStay
          /\ NextSeat(tables[t]) \in Nat
          /\ NextSeat(tables[t]) \in TakenSeats(tables'[t])
          /\ tables'[t].at[NextSeat(tables[t])] = bot
          /\ NextSeat(tables[t]) \in EmptySeats(tables[t])
          /\ EmptySeats(tables'[t]) = EmptySeats(tables[t]) \ {NextSeat(tables[t])}
      BY <1>2, <3>1, TakesASeat
    <3>3. \A u \in 1..Len(tables) : \A n \in TakenSeats(tables'[u]) :
            \/ n \in TakenSeats(tables[u]) /\ tables'[u].at[n] = tables[u].at[n]
            \/ u = t /\ tables'[u].at[n] = bot
      BY <1>2, <3>1, TakesASeat
    <3> QED  BY <1>9, <3>2, <3>3
  <2>2. Cardinality(EmptySeats(tables'[t])) = Cardinality(EmptySeats(tables[t])) - 1
    <3> DEFINE empty == EmptySeats(tables[t])
    <3>1. IsFiniteSet(empty) /\ seat \in empty  BY <1>4, <2>1
    <3> HIDE DEF empty
    <3>2. Cardinality(empty \ {seat}) = Cardinality(empty) - 1
      BY <3>1, FS_RemoveElement
    <3> QED  BY <2>1, <3>2 DEF empty
  <2>3. SeatRow(seat, bot, TRUE) \in Rows  BY <1>2, <2>1 DEF SeatRow, Rows
  <2>4. /\ seated \in HandlersOf(Len(tables)) /\ seated.table = t
        /\ Len(seated.rows) = 1 /\ seated.left = h.left - 1
        /\ seated.rows[1] = SeatRow(seat, bot, TRUE)
    <3>1. h.left - 1 \in Int /\ t \in 1..Len(tables)  BY <1>2
    <3> DEFINE row == SeatRow(seat, bot, TRUE)
               left == h.left - 1
               w == Handler("fill", t, <<row>>, left)
    <3>2. row \in Rows /\ left \in Int /\ "fill" \in {"join", "fill"}  BY <2>3, <3>1
    <3> HIDE DEF row, left, t
    <3>3. /\ w \in HandlersOf(Len(tables)) /\ w.table = t
          /\ Len(w.rows) = 1 /\ w.left = left /\ w.rows[1] = row
      BY <3>1, <3>2, OneRow
    <3>4. seated = w  BY <1>10 DEF row, left, t
    <3> HIDE DEF w
    <3> QED  BY <3>3, <3>4 DEF row, left
  <2>5. seated.rows[1].seat = seat /\ seated.rows[1].agent = bot
    BY <2>4 DEF SeatRow
  <2>6. HandlerIsRight(seated)'
    <3>1. Cardinality(EmptySeats(tables'[t])) <= h.left - 1  BY <1>2, <1>3, <1>4, <2>2
    <3>2. \A i \in 1..Len(seated.rows) :
            SeatIs(seated.table, seated.rows[i].seat, seated.rows[i].agent)'
      <4>1. \A i \in 1..Len(seated.rows) : i = 1  BY <2>4
      <4>2. seat \in TakenSeats(tables'[t]) /\ tables'[t].at[seat] = bot  BY <2>1
      <4> HIDE DEF t
      <4> QED  BY <2>4, <2>5, <4>1, <4>2 DEF SeatIs
    <3> QED  BY <2>4, <3>1, <3>2 DEF HandlerIsRight
  <2>7. LobbyTypes'  BY <1>1, <1>2, <1>6, <2>1, <2>4 DEF LobbyTypes
  <2>8. BotsAreCounted'
    <3> SUFFICES ASSUME NEW u \in 1..Len(tables), NEW n \in TakenSeats(tables'[u])
                 PROVE  tables'[u].at[n] \in Players \cup (1..bot)
      BY <1>1, <2>1 DEF BotsAreCounted
    <3>1. \A k \in 1..botCounter : k \in 1..bot  BY <1>2, <1>8
    <3>2. bot \in 1..bot  BY <1>2, <1>8
    <3> QED  BY <2>1, <3>1, <3>2 DEF LobbyInv, BotsAreCounted
  <2>9. \A x \in handlers' : x \in handlers \/ HandlerIsRight(x)'  BY <1>1, <1>6, <2>6
  <2> QED  BY <1>1, <1>5, <2>1, <2>7, <2>8, <2>9, SeatsStayInv
<1>7. CASE ~CanSit(bot, tables[t])
  <2>1. UNCHANGED tables /\ handlers' = (handlers \ {h}) \cup {refused}
    BY <1>1, <1>7
  <2>2. ~SitsAt(bot, tables[t])
    <3> SUFFICES ASSUME SitsAt(bot, tables[t]) PROVE FALSE  OBVIOUS
    <3>1. PICK n \in TakenSeats(tables[t]) : tables[t].at[n] = bot
      BY DEF SitsAt, Range, TakenSeats
    <3>2. bot \in Players \cup (1..botCounter)
      BY <1>2, <3>1 DEF LobbyInv, BotsAreCounted
    <3>3. bot \notin Players /\ bot \notin 1..botCounter
      BY <1>2, <1>8, LobbyAssumption
    <3> QED  BY <3>2, <3>3
  <2>3. EmptySeats(tables[t]) = {}  BY <1>7, <2>2 DEF CanSit
  <2>4. Cardinality(EmptySeats(tables[t])) = 0  BY <2>3, FS_EmptySet
  <2>5. refused \in HandlersOf(Len(tables))  BY <1>2, <1>11 DEF Handler, HandlersOf
  <2>6. refused.table = t /\ Len(refused.rows) = 0 /\ refused.left = h.left - 1
    BY <1>11 DEF Handler
  <2>7. HandlerIsRight(refused)'
    BY <1>1, <1>2, <2>1, <2>4, <2>6 DEF HandlerIsRight
  <2>8. LobbyTypes'  BY <1>1, <1>2, <2>1, <2>5 DEF LobbyTypes
  <2>9. SeatsStay  BY <1>2, <2>1 DEF SeatsStay, LobbyTypes
  <2>10. BotsAreCounted'
    <3>1. \A k \in 1..botCounter : k \in 1..bot  BY <1>2, <1>8
    <3> QED  BY <1>1, <2>1, <3>1 DEF LobbyInv, BotsAreCounted
  <2> QED  BY <1>1, <1>5, <2>1, <2>7, <2>8, <2>9, <2>10, SeatsStayInv
<1> QED  BY <1>6, <1>7

-----------------------------------------------------------------------------
\* A filled table has had a bot for every seat that was empty.
LEMMA FillEndsInv ==
  ASSUME LobbyInv, NEW h \in handlers, FillEnds(h)
  PROVE  LobbyInv'
<1>1. /\ h.kind = "fill" /\ h.left = 0 /\ filled' = filled \cup {h.table}
      /\ handlers' = handlers \ {h}
      /\ UNCHANGED <<queue, tables, fillTimers, botCounter, storedSeats>>
  BY DEF FillEnds, storeVars
<1>2. h.table \in 1..Len(tables) /\ tables[h.table] \in Tables
  BY DEF LobbyInv, LobbyTypes, HandlersOf
<1>3. Cardinality(EmptySeats(tables[h.table])) <= 0
  BY <1>1 DEF LobbyInv, HandlersAreRight, HandlerIsRight
<1>4. EmptySeats(tables[h.table]) = {}
  <2>1. /\ IsFiniteSet(EmptySeats(tables[h.table]))
        /\ Cardinality(EmptySeats(tables[h.table])) \in Nat
    BY <1>2, EmptyAreFew
  <2>2. Cardinality(EmptySeats(tables[h.table])) = 0  BY <1>3, <2>1
  <2> QED  BY <2>1, <2>2, FS_EmptySet
<1>5. LobbyTypes'  BY <1>1, <1>2 DEF LobbyInv, LobbyTypes
<1>6. FilledTableIsFull'  BY <1>1, <1>4 DEF LobbyInv, FilledTableIsFull
<1>7. BotsAreCounted' /\ NobodyWaitsForAnother' /\ HandlersAreRight' /\ StoredAreSeats'
  BY <1>1 DEF LobbyInv, BotsAreCounted, NobodyWaitsForAnother, HandlersAreRight,
              HandlerIsRight, StoredAreSeats, SeatIs
<1> QED  BY <1>5, <1>6, <1>7 DEF LobbyInv

\* A handler that has written a table's row, has failed or has ended writes no seat that
\* it had not to write before.
LEMMA HandlerMovesInv ==
  ASSUME LobbyInv, NEW h \in handlers, PersistTable(h) \/ PersistFails(h) \/ HandlerEnds(h)
  PROVE  LobbyInv'
<1>1. h \in HandlersOf(Len(tables)) /\ HandlerIsRight(h)
  BY DEF LobbyInv, LobbyTypes, HandlersAreRight
<1>2. UNCHANGED <<queue, tables, botCounter, filled, storedSeats>>
  BY DEF PersistTable, PersistFails, HandlerEnds, storeVars
<1>3. PICK on : on = [h EXCEPT !.newTable = FALSE]  OBVIOUS
<1>4. PICK failed : failed = [h EXCEPT !.rows = <<>>, !.newTable = FALSE]  OBVIOUS
<1>5. /\ on \in HandlersOf(Len(tables)) /\ failed \in HandlersOf(Len(tables))
      /\ on.kind = h.kind /\ on.table = h.table /\ on.rows = h.rows /\ on.left = h.left
      /\ failed.kind = h.kind /\ failed.table = h.table /\ Len(failed.rows) = 0
      /\ failed.left = h.left
  <2>1. /\ on \in HandlersOf(Len(tables)) /\ on.kind = h.kind /\ on.table = h.table
        /\ on.rows = h.rows /\ on.left = h.left
    BY <1>1, <1>3 DEF HandlersOf
  <2>2. <<>> \in Seq(Rows) /\ Len(<<>>) = 0  OBVIOUS
  <2>3. /\ failed \in HandlersOf(Len(tables)) /\ failed.kind = h.kind
        /\ failed.table = h.table /\ failed.rows = <<>> /\ failed.left = h.left
    BY <1>1, <1>4, <2>2 DEF HandlersOf
  <2> QED  BY <2>1, <2>2, <2>3
<1>6. \A x \in handlers' : x \in handlers \/ x = on \/ x = failed
  BY <1>3, <1>4 DEF PersistTable, PersistFails, HandlerEnds
<1>7. HandlerIsRight(on)' /\ HandlerIsRight(failed)'
  BY <1>1, <1>2, <1>5 DEF HandlerIsRight, SeatIs
<1>8. fillTimers' \in SUBSET (1..Len(tables))
  <2>1. h.table \in 1..Len(tables)  BY <1>1 DEF HandlersOf
  <2> QED  BY <2>1 DEF PersistTable, PersistFails, HandlerEnds, storeVars, LobbyInv, LobbyTypes
<1>9. LobbyTypes'  BY <1>2, <1>5, <1>6, <1>8 DEF LobbyInv, LobbyTypes
<1>10. NobodyWaitsForAnother'  BY <1>2 DEF LobbyInv, NobodyWaitsForAnother
<1> QED  BY <1>2, <1>6, <1>7, <1>9, <1>10, TablesStay, SeatsStayInv

\* A row that is written is a seat.
LEMMA PersistSeatInv ==
  ASSUME LobbyInv, NEW h \in handlers, PersistSeat(h)
  PROVE  LobbyInv'
<1>1. PICK row : row = h.rows[1]  OBVIOUS
<1>2. PICK key : key = <<h.table, row.seat>>  OBVIOUS
<1>3. PICK rest : rest = [h EXCEPT !.rows = Tail(@)]  OBVIOUS
<1>4. /\ h.rows # <<>> /\ handlers' = (handlers \ {h}) \cup {rest}
      /\ storedSeats' = [k \in DOMAIN storedSeats \cup {key} |->
                           IF k = key THEN row.agent ELSE storedSeats[k]]
      /\ UNCHANGED <<queue, tables, fillTimers, botCounter, filled>>
  BY <1>1, <1>2, <1>3 DEF PersistSeat
<1>5. h \in HandlersOf(Len(tables)) /\ HandlerIsRight(h)
  BY DEF LobbyInv, LobbyTypes, HandlersAreRight
<1>6. h.rows \in Seq(Rows) /\ h.table \in 1..Len(tables)  BY <1>5 DEF HandlersOf
<1>7. 1 \in 1..Len(h.rows)  BY <1>4, <1>6
<1>8. SeatIs(h.table, row.seat, row.agent)  BY <1>1, <1>5, <1>7 DEF HandlerIsRight
<1>9. /\ Tail(h.rows) \in Seq(Rows) /\ Len(Tail(h.rows)) = Len(h.rows) - 1
      /\ \A i \in 1..Len(Tail(h.rows)) : Tail(h.rows)[i] = h.rows[i + 1]
  BY <1>4, <1>6, HeadTailProperties
<1>10. /\ rest \in HandlersOf(Len(tables)) /\ rest.kind = h.kind /\ rest.table = h.table
       /\ rest.rows = Tail(h.rows) /\ rest.left = h.left
  BY <1>3, <1>5, <1>9 DEF HandlersOf
<1>11. HandlerIsRight(rest)'
  <2>1. \A i \in 1..Len(Tail(h.rows)) : i + 1 \in 1..Len(h.rows)  BY <1>6, <1>9
  <2> QED  BY <1>4, <1>5, <1>9, <1>10, <2>1 DEF HandlerIsRight, SeatIs
<1>12. HandlersAreRight'
  BY <1>4, <1>11 DEF LobbyInv, HandlersAreRight, HandlerIsRight, SeatIs
<1>13. StoredAreSeats'
  <2> SUFFICES ASSUME NEW k \in DOMAIN storedSeats'
               PROVE  /\ k[1] \in 1..Len(tables)
                      /\ SeatIs(k[1], k[2], storedSeats'[k])
    BY <1>4 DEF StoredAreSeats, SeatIs
  <2>1. CASE k = key
    BY <2>1, <1>2, <1>4, <1>6, <1>8
  <2>2. CASE k # key
    BY <2>2, <1>4 DEF LobbyInv, StoredAreSeats
  <2> QED  BY <2>1, <2>2
<1>14. LobbyTypes'  BY <1>4, <1>10 DEF LobbyInv, LobbyTypes
<1>15. BotsAreCounted' /\ NobodyWaitsForAnother' /\ FilledTableIsFull'
  BY <1>4 DEF LobbyInv, BotsAreCounted, NobodyWaitsForAnother, FilledTableIsFull
<1> QED  BY <1>12, <1>13, <1>14, <1>15 DEF LobbyInv

\* Every step keeps the invariant.
LEMMA LobbyNextInv == ASSUME LobbyInv, [LobbyNext]_lobbyVars PROVE LobbyInv'
<1>1. ASSUME NEW agent \in Players, NEW g \in Groups, Enqueue(agent, g) PROVE LobbyInv'
  BY <1>1, EnqueueInv
<1>2. ASSUME \/ \E agent \in Players : Dequeue(agent)
             \/ \E i \in 1..Len(queue) : GrowOld(i)
      PROVE LobbyInv'
  BY <1>2, QueueInv
<1>3. ASSUME ForcedMatch PROVE LobbyInv'  BY <1>3, ForcedMatchInv
<1>4. ASSUME NEW g \in Groups, CreateTable(SeatsOf[g]) PROVE LobbyInv'
  BY <1>4, CreateTableInv
<1>5. ASSUME NEW agent \in Players, NEW t \in 1..Len(tables), Join(agent, t)
      PROVE LobbyInv'
  BY <1>5, JoinInv
<1>6. ASSUME NEW t \in fillTimers, FillFires(t) PROVE LobbyInv'  BY <1>6, FillFiresInv
<1>7. ASSUME NEW h \in handlers,
             \/ SeatBot(h) \/ FillEnds(h)
             \/ PersistTable(h) \/ PersistSeat(h) \/ PersistFails(h) \/ HandlerEnds(h)
      PROVE LobbyInv'
  BY <1>7, SeatBotInv, FillEndsInv, HandlerMovesInv, PersistSeatInv
<1>8. CASE UNCHANGED lobbyVars
  <2>1. UNCHANGED <<queue, tables, handlers, fillTimers, botCounter, filled, storedSeats>>
    BY <1>8 DEF lobbyVars, storeVars
  <2>2. LobbyTypes'  BY <2>1 DEF LobbyInv, LobbyTypes
  <2>3. NobodyWaitsForAnother'  BY <2>1 DEF LobbyInv, NobodyWaitsForAnother
  <2> QED  BY <2>1, <2>2, <2>3, TablesStay, SeatsStayInv
<1> QED  BY <1>1, <1>2, <1>3, <1>4, <1>5, <1>6, <1>7, <1>8 DEF LobbyNext

\* The inductive invariant of the lobby holds, for any groups, sizes of a table,
\* players and handlers under way.
THEOREM LobbyInvHolds == LobbySpec => []LobbyInv
<1>1. LobbyInit => LobbyInv  BY LobbyInitInv
<1>2. LobbyInv /\ [LobbyNext]_lobbyVars => LobbyInv'  BY LobbyNextInv
<1> QED  BY <1>1, <1>2, PTL DEF LobbySpec

\* Nobody is left in the queue who could be seated with another: each queue call
\* matches what it completes.
THEOREM NoMatchEverWaits == LobbySpec => []NoMatchWaits
<1>1. LobbyInv => NoMatchWaits
  <2> SUFFICES ASSUME LobbyInv, NEW g \in Groups, Len(InGroup(queue, g)) >= MinPlayers
               PROVE  FALSE
    <3>1. \A h \in Groups : LobbyInv => Len(InGroup(queue, h)) \in Nat
      BY TwoInGroup DEF LobbyInv, LobbyTypes
    <3> QED  BY <3>1 DEF NoMatchWaits, MinPlayers
  <2>1. queue \in Seq(Entries)  BY DEF LobbyInv, LobbyTypes
  <2>2. /\ \A i \in 1..Len(InGroup(queue, g)) : InGroup(queue, g)[i].group = g
        /\ \A i, j \in 1..Len(InGroup(queue, g)) : i < j =>
             \E a, b \in 1..Len(queue) :
               a < b /\ queue[a] = InGroup(queue, g)[i] /\ queue[b] = InGroup(queue, g)[j]
        /\ Len(InGroup(queue, g)) \in Nat
    BY <2>1, TwoInGroup
  <2>3. 1 \in 1..Len(InGroup(queue, g)) /\ 2 \in 1..Len(InGroup(queue, g)) /\ 1 < 2
    BY <2>2 DEF MinPlayers
  <2>4. PICK a \in 1..Len(queue), b \in 1..Len(queue) :
          a < b /\ queue[a] = InGroup(queue, g)[1] /\ queue[b] = InGroup(queue, g)[2]
    BY <2>2, <2>3
  <2>5. queue[a].group = g /\ queue[b].group = g  BY <2>2, <2>3, <2>4
  <2>6. a # b
    <3>1. a < b /\ a \in Nat /\ b \in Nat  BY <2>1, <2>4
    <3> QED  BY <3>1
  <2> QED  BY <2>5, <2>6 DEF LobbyInv, NobodyWaitsForAnother
<1> QED  BY <1>1, LobbyInvHolds, PTL

\* A table that the bots filled is full when their handler has ended, whoever joined
\* it meanwhile.
THEOREM FilledTablesAreFull == LobbySpec => []FilledTableIsFull
<1>1. LobbyInv => FilledTableIsFull  BY DEF LobbyInv
<1> QED  BY <1>1, LobbyInvHolds, PTL

\* The row of a seat in the store names the agent that sits there.
THEOREM RowsAlwaysSeats == LobbySpec => []RowsAreSeats
<1>1. LobbyInv => RowsAreSeats  BY DEF LobbyInv, StoredAreSeats, SeatIs, RowsAreSeats
<1> QED  BY <1>1, LobbyInvHolds, PTL
=============================================================================
