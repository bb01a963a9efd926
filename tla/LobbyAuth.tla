------------------------------ MODULE LobbyAuth ------------------------------
(***************************************************************************)
(* Who may act in the lobby: registration and login                         *)
(* (lobby-api/src/auth-routes.ts), the identity provider behind them        *)
(* (adapters-identity/src), the check of a request (auth.ts, jwt.ts), and   *)
(* the agent's side, AgentAuth (agent-sdk/src/auth.ts).                     *)
(*                                                                         *)
(* In production; elsewhere the lobby checks nothing.  An HTTP request with *)
(* its response is one step.  A token of an agent is the time it was        *)
(* issued, and it is not looked up again once it is signed.  The digits by  *)
(* which the database finds a key are taken to be those of one key only.    *)
(* An operator named for a mistake stands before the one it resembles;      *)
(* nothing uses it.                                                         *)
(***************************************************************************)
EXTENDS Naturals, Sequences

CONSTANTS
  Visitors,     \* the agents
  Joins,        \* the calls of joinTable
  JoinerOf,     \* the agent whose AgentAuth each is a call of
  KeepsAgents,  \* the identity provider is that of PostgreSQL
  TokenLife,    \* TTL of an agent's token
  MaxTime       \* bound: how long it lasts

ASSUME AuthAssumption ==
  /\ JoinerOf \in [Joins -> Visitors]
  /\ KeepsAgents \in BOOLEAN /\ TokenLife \in Nat \ {0} /\ MaxTime \in Nat

VARIABLES
  time,
  known,      \* the agents that have registered
  outAt,      \* when an agent was banned, or forgotten with its key
  accessToken,  \* of each AgentAuth, empty when there is none
  joining     \* how far each call has come

authVars == <<time, known, outAt, accessToken, joining>>

AuthInit ==
  /\ time = 0
  /\ known = {} /\ outAt = <<>>
  /\ accessToken = [a \in Visitors |-> <<>>]
  /\ joining = [j \in Joins |-> "new"]

IsOut(a) == a \in DOMAIN outAt

\* authenticate, with an agent's own key.
Authenticates(a) == a \in known /\ ~IsOut(a)

\* verifyAccessToken.
IsFresh(token) == time < token + TokenLife

RegisterAgent(a) ==
  /\ known' = known \cup {a}
  /\ UNCHANGED <<time, outAt, accessToken, joining>>

\* Its status in the database becomes `banned', or its key is lost with the memory of
\* the process.
Exclude(a) ==
  /\ outAt' = [b \in DOMAIN outAt \cup {a} |-> IF b = a THEN time ELSE outAt[b]]
  /\ UNCHANGED <<time, known, accessToken, joining>>

Ban(a) == Authenticates(a) /\ Exclude(a)

\* The lobby is started again.
Restart ==
  /\ ~KeepsAgents
  /\ outAt' = [a \in known |-> IF IsOut(a) THEN outAt[a] ELSE time]
  /\ UNCHANGED <<time, known, accessToken, joining>>

-----------------------------------------------------------------------------
(***************************************************************************)
(* AgentAuth.joinTable.                                                     *)
(***************************************************************************)
GoesOn(j, from, to) == joining[j] = from /\ joining' = [joining EXCEPT ![j] = to]

StartJoin(j) ==
  /\ GoesOn(j, "new", IF accessToken[JoinerOf[j]] = <<>> THEN "login" ELSE "join")
  /\ UNCHANGED <<time, known, outAt, accessToken>>

\* login.  When it throws the call ends.
Login(j, from, to) ==
  LET a == JoinerOf[j] IN
  /\ \/ /\ Authenticates(a) /\ GoesOn(j, from, to)
        /\ accessToken' = [accessToken EXCEPT ![a] = <<time>>]
     \/ ~Authenticates(a) /\ GoesOn(j, from, "refused") /\ UNCHANGED accessToken
  /\ UNCHANGED <<time, known, outAt>>

GivesUp(stage) == "refused"

\* A 401 makes the call log in once more, but not twice.
AfterUnauthorized(stage) == IF stage = "join" THEN "relogin" ELSE "refused"

\* The request, with the token that is cached now; another call may have changed it.
SendJoin(j, stage) ==
  LET token == accessToken[JoinerOf[j]][1] IN
  /\ GoesOn(j, stage, IF IsFresh(token) THEN "joined" ELSE AfterUnauthorized(stage))
  /\ UNCHANGED <<time, known, outAt, accessToken>>

CallAgain(j) ==
  /\ \E stage \in {"joined", "refused"} : GoesOn(j, stage, "new")
  /\ UNCHANGED <<time, known, outAt, accessToken>>

\* A retry follows its login within the life of a token.
TimePasses ==
  /\ time < MaxTime
  /\ \A j \in Joins : joining[j] # "rejoin"
  /\ time' = time + 1
  /\ UNCHANGED <<known, outAt, accessToken, joining>>

AuthNext ==
  \/ \E a \in Visitors \ known : RegisterAgent(a)
  \/ \E a \in Visitors : Ban(a)
  \/ Restart
  \/ \E j \in Joins :
       \/ StartJoin(j) \/ CallAgain(j)
       \/ joining[j] = "login" /\ Login(j, "login", "join")
       \/ joining[j] = "relogin" /\ Login(j, "relogin", "rejoin")
       \/ \E stage \in {"join", "rejoin"} : joining[j] = stage /\ SendJoin(j, stage)
  \/ TimePasses

AuthSpec == AuthInit /\ [][AuthNext]_authVars

-----------------------------------------------------------------------------
Ends(j, result) == joining[j] # result /\ joining'[j] = result

\* A join is refused to no agent that could log in, whenever its token expires and
\* whatever other joins of the agent are under way; and it is granted to an agent
\* that could not only within the life of a token.
LoginDecidesJoins ==
  [][\A j \in Joins : LET a == JoinerOf[j] IN
       /\ Ends(j, "refused") => a \notin known \/ IsOut(a)
       /\ Ends(j, "joined") => a \in known /\ (IsOut(a) => time < outAt[a] + TokenLife)
    ]_authVars
=============================================================================
