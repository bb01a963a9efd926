----------------------------- MODULE Detectors -------------------------------
(***************************************************************************)
(* The collusion detectors (anti-collusion/src/detectors.ts): one looks for *)
(* agents that fold strong hands against one opponent, one for agents whose *)
(* share of won hands is far from the mean; analyzeAgentPair scores a pair. *)
(* Two agents are watched, the crowd supplies the statistics.               *)
(* An operator named for a mistake stands before the one it resembles;      *)
(* nothing uses it.                                                         *)
(***************************************************************************)
EXTENDS Integers, Bags, FiniteSetsExt

CONSTANTS
  Watched, Crowd,             \* the agents, those of the crowd by number
  CrowdSizes,                 \* how many of the crowd have played
  MinRecords,                 \* a pair's records before it is judged: 10
  MinStrong,                  \* an agent's strong hands before it is judged: 5
  MinHands                    \* an agent's hands before its share counts: 20

ASSUME DetectorAssumption == IsFiniteSet(Watched \cup Crowd) /\ MinHands \in Nat \ {0}

VARIABLES
  pairRecords,  \* bag of records, each under the key of its pair
  agentHands,   \* hands played
  agentWins     \* and won

detectorVars == <<pairRecords, agentHands, agentWins>>

UnsortedKey(a, b) == <<a, b>>

PairKey(a, b) == {a, b}

DetectorInit ==
  /\ pairRecords = EmptyBag
  /\ agentHands = [a \in Watched \cup Crowd |-> 0]
  /\ agentWins = [a \in Watched \cup Crowd |-> 0]

\* `strong' stands for handStrength >= 0.6.
AddRecord(agent, opponent, strong, folded) ==
  /\ pairRecords' = pairRecords (+) SetToBag(
       {[key |-> PairKey(agent, opponent), agent |-> agent,
         strong |-> strong, folded |-> folded]})
  /\ UNCHANGED <<agentHands, agentWins>>

AddResult(agent, won) ==
  /\ agentHands' = [agentHands EXCEPT ![agent] = @ + 1]
  /\ agentWins' = [agentWins EXCEPT ![agent] = @ + IF won THEN 1 ELSE 0]
  /\ UNCHANGED pairRecords

\* addResult for agents of the crowd, until their shares count.
CrowdLoses(losers) ==
  /\ agentHands' = [a \in DOMAIN agentHands |->
                      IF a \in losers THEN MinHands ELSE agentHands[a]]
  /\ UNCHANGED <<pairRecords, agentWins>>

DetectorNext ==
  \/ \E agent, opponent \in Watched, strong, folded \in BOOLEAN :
       /\ agent # opponent /\ BagCardinality(pairRecords) < MinRecords
       /\ AddRecord(agent, opponent, strong, folded)
  \/ \E agent \in Watched, won \in BOOLEAN :
       agentHands[agent] < MinHands /\ AddResult(agent, won)
  \/ \E n \in CrowdSizes : CrowdLoses({c \in Crowd : c <= n})

DetectorSpec == DetectorInit /\ [][DetectorNext]_detectorVars

-----------------------------------------------------------------------------
\* How many records of the pair have the property.
Records(a, b, Has(_)) ==
  BagCardinality([r \in {q \in BagToSet(pairRecords) : q.key = PairKey(a, b) /\ Has(q)}
                    |-> pairRecords[r]])

\* More than three in ten of the strong hands were folded.
FoldsStrong(a, b, agent) ==
  LET held == Records(a, b, LAMBDA r : r.agent = agent /\ r.strong)
      laid == Records(a, b, LAMBDA r : r.agent = agent /\ r.strong /\ r.folded)
  IN  held >= MinStrong /\ 10 * laid > 3 * held

\* The agents a CHIP_DUMP flag of analyze(a, b) may name; it names one.
Dumpers(a, b) ==
  IF Records(a, b, LAMBDA r : TRUE) < MinRecords THEN {}
  ELSE {agent \in {a, b} : FoldsStrong(a, b, agent)}

-----------------------------------------------------------------------------
\* The agents whose share of wins counts, and with it the shares as whole numbers:
\* of the wins in a number of hands that all of them divide.
Measured == {a \in DOMAIN agentHands : agentHands[a] >= MinHands}
Share(a) == agentWins[a] * (ProductSet({agentHands[b] : b \in Measured}) \div agentHands[a])

Spread(a) == Cardinality(Measured) * Share(a) - MapThenSumSet(Share, Measured)

\* The variance of the shares, times n squared.
Variance ==
  LET n == Cardinality(Measured)
      sum == MapThenSumSet(Share, Measured)
  IN  n * MapThenSumSet(LAMBDA b : Share(b) * Share(b), Measured) - sum * sum

\* |z| > 3, squared; the rounding of the square root is left out.
Anomalous(agent) ==
  /\ agentHands[agent] >= MinHands
  /\ Cardinality(Measured) >= 3
  /\ Variance # 0
  /\ Spread(agent) * Spread(agent) > 9 * Variance

RiskScore(a, b) ==
  LET score == (IF Dumpers(a, b) # {} THEN 50 ELSE 0)
               + (IF Anomalous(a) THEN 30 ELSE 0) + (IF Anomalous(b) THEN 30 ELSE 0)
  IN  IF score > 100 THEN 100 ELSE score

HandsAnalyzed(a, b) == Records(a, b, LAMBDA r : TRUE)

\* GET /api/admin/collusion-report, with these agents at the tables: every pair of
\* them that anything is known of.
CollusionReports(agents) ==
  {[pair |-> {p[1], p[2]}, score |-> RiskScore(p[1], p[2])] :
     p \in {q \in agents \X agents :
        q[1] # q[2] /\ (RiskScore(q[1], q[2]) > 0 \/ HandsAnalyzed(q[1], q[2]) > 0)}}

-----------------------------------------------------------------------------
\* The report has one score for a pair, whichever of the two it takes first.  Among
\* nine or fewer whose share counts nobody is ever an anomaly, whatever they win, since
\* |z| cannot exceed the root of n - 1; the only winner among eleven is one.
ScoreIsFounded == \A a, b \in Watched : a # b =>
  /\ \A r, q \in CollusionReports({a, b}) : r = q
  /\ Cardinality(Measured) <= 9 =>
       RiskScore(a, b) = IF Dumpers(a, b) = {} THEN 0 ELSE 50
  /\ Cardinality(Measured) = 11 /\ a \in Measured /\ agentWins[a] > 0
       /\ (\A c \in Measured \ {a} : agentWins[c] = 0) => RiskScore(a, b) >= 30
=============================================================================
