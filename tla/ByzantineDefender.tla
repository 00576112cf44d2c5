-------------------------- MODULE ByzantineDefender --------------------------
(***************************************************************************)
(* The Byzantine defender (consensus/byzantine.go, ByzantineDefender).     *)
(*                                                                         *)
(* ValidateNode takes a report on the behaviour of a node and runs under   *)
(* the mutex bd.mu; between two calls time passes.  Scores are floats in   *)
(* the code; here they are integers, "Unit" to the point.  Only attacks    *)
(* the detector can report are considered, all of which go to              *)
(* handleGenericAttack.                                                    *)
(***************************************************************************)
EXTENDS Naturals, Integers, Sequences, FiniteSets, SequencesExt, GoMap

CONSTANTS
    Node,       \* addresses of nodes
    Behavior,   \* the reports that can be made on a node
    BanTime,    \* 24 hours
    MaxTime,    \* bound on the clock
    MaxReports  \* bound on the reports on one node

VARIABLES
    scores,     \* reputationSystem.scores: address |-> score and history
    nodeScores, \* address |-> score
    blacklist,  \* address |-> time
    suspiciousNodes,    \* address |-> number of attacks
    now         \* the clock

reputation == <<scores, nodeScores>>
vars == <<reputation, blacklist, suspiciousNodes, now>>

Unit == 1000
MaxScore == 100 * Unit
Neutral == 50 * Unit

\* NodeBehavior, of which the code does not read the rest; the participation
\* in percent.
NodeBehavior == [ValidBlocks : Nat, InvalidBlocks : Nat,
                 ValidTransactions : Nat, ConsensusParticipation : Nat,
                 DoubleVotes : Nat]

ASSUME DefenderAssumption ==
    /\ Behavior \subseteq NodeBehavior
    /\ BanTime \in Nat
    /\ MaxTime \in Nat
    /\ MaxReports \in Nat

Init ==
    /\ scores = EmptyMap
    /\ nodeScores = EmptyMap
    /\ blacklist = EmptyMap
    /\ suspiciousNodes = EmptyMap
    /\ now = 0
-----------------------------------------------------------------------------
\* Faults seeded to show that the properties can fail are named Faulty...
\* and stand just before the definition they alter.

\* DetectAttacks: the severities, fractions in the code, of the attacks.
DetectAttacks(b) ==
    (IF b.DoubleVotes > 0
     THEN << [num |-> b.DoubleVotes, den |-> 1] >> ELSE << >>)
    \o (IF b.InvalidBlocks > b.ValidBlocks
        THEN << [num |-> b.InvalidBlocks, den |-> b.ValidBlocks + 1] >>
        ELSE << >>)

\* calculateReputationDelta.  Half the severity of an attack is cut off to
\* whole parts of a unit.
CalculateReputationDelta(b) ==
    LET attacks == DetectAttacks(b)
        half(a) == (Unit * a.num) \div (2 * a.den)
    IN  100 * b.ValidBlocks + 10 * b.ValidTransactions
        + 2 * b.ConsensusParticipation
        - (IF Len(attacks) > 0 THEN half(attacks[1]) ELSE 0)
        - (IF Len(attacks) > 1 THEN half(attacks[2]) ELSE 0)
        - 300 * b.InvalidBlocks - Unit * b.DoubleVotes

\* A newcomer starts at the top.
FaultyGetReputation(n) ==
    IF Has(scores, n) THEN scores[n] ELSE [Score |-> MaxScore, Impacts |-> << >>]

\* GetReputation
GetReputation(n) ==
    IF Has(scores, n) THEN scores[n] ELSE [Score |-> Neutral, Impacts |-> << >>]

\* The limits are forgotten.
FaultyBounded(score) == score

\* A score out of bounds starts again.
FaultyBoundedReset(score) == IF score \in 0 .. MaxScore THEN score ELSE Neutral

\* The bounds of updateNodeReputation.
Bounded(score) ==
    IF score > MaxScore THEN MaxScore ELSE IF score < 0 THEN 0 ELSE score

\* updateNodeReputation
UpdateNodeReputation(n, delta) ==
    LET r == GetReputation(n)
        new == [Score |-> Bounded(r.Score + delta),
                Impacts |-> Append(r.Impacts, delta)]
    IN  /\ scores' = Put(scores, n, new)
        /\ nodeScores' = Put(nodeScores, n, new.Score)

\* Is the node blacklisted, for less than BanTime?
Banned(n) == Has(blacklist, n) /\ now - blacklist[n] < BanTime

\* The threshold of handleDoubleSpend is used.
FaultySevere(attack) == attack.num > 3 * attack.den

\* The attacks that handleGenericAttack blacklists a node for.
Severe(attack) == 10 * attack.num > 8 * attack.den

\* applyDefensiveMeasures, with handleGenericAttack for each attack, on the
\* blacklist from which an entry that has run out was deleted.
ApplyDefensiveMeasures(n, attacks) ==
    /\ suspiciousNodes' =
         IF attacks = << >> THEN suspiciousNodes
         ELSE Put(suspiciousNodes, n,
                  Len(attacks) + IF Has(suspiciousNodes, n)
                                 THEN suspiciousNodes[n] ELSE 0)
    /\ blacklist' =
         IF \E i \in DOMAIN attacks : Severe(attacks[i])
         THEN Put(blacklist, n, now) ELSE Delete(blacklist, n)
-----------------------------------------------------------------------------
\* The reports counted on a node.
Reports(n) == IF Has(scores, n) THEN Len(scores[n].Impacts) ELSE 0

\* ValidateNode
ValidateNode(n, b) ==
    /\ ~Banned(n)
    /\ Reports(n) < MaxReports
    /\ UpdateNodeReputation(n, CalculateReputationDelta(b))
    /\ ApplyDefensiveMeasures(n, DetectAttacks(b))
    /\ UNCHANGED now

\* ValidateNode of a blacklisted node: "node is blacklisted".
RefuseNode(n) == Banned(n) /\ UNCHANGED vars

TimePasses ==
    /\ now < MaxTime
    /\ now' = now + 1
    /\ UNCHANGED <<reputation, blacklist, suspiciousNodes>>

Next ==
    \/ \E n \in Node, b \in Behavior : ValidateNode(n, b)
    \/ \E n \in Node : RefuseNode(n)
    \/ TimePasses

Spec == Init /\ [][Next]_vars
-----------------------------------------------------------------------------
TotalScore == SumFunction(nodeScores)
NodeCount == Cardinality(DOMAIN nodeScores)

\* GetConsensusThreshold, in percent: more when calculateNetworkHealth is
\* under a half, less when it is over four fifths or nobody is known.
GetConsensusThreshold ==
    IF NodeCount = 0 \/ 10 * TotalScore > 8 * NodeCount * MaxScore THEN 62
    ELSE IF 2 * TotalScore < NodeCount * MaxScore THEN 77
    ELSE 67

\* Scores stay within their bounds in both maps, which agree.
TypeOK ==
    /\ IsMap(scores, Node, [Score : 0 .. MaxScore, Impacts : Seq(Int)])
    /\ nodeScores = [n \in DOMAIN scores |-> scores[n].Score]
    /\ IsMap(blacklist, DOMAIN suspiciousNodes, Nat)
    /\ IsMap(suspiciousNodes, DOMAIN scores, Nat)
    /\ now \in Nat

\* Every attack that ValidateNode detects is severe enough to blacklist the
\* node, and nothing is counted against it while it is blacklisted: the
\* suspicion of a node grows by no more than two in BanTime.
SuspicionSlow ==
    \A n \in DOMAIN suspiciousNodes :
        suspiciousNodes[n] * BanTime <= 2 * (now + BanTime)

\* The inductive form of SuspicionSlow: the entry of the blacklist, or the
\* clock when there is none, pays for the attacks counted.
IndInv ==
    /\ TypeOK
    /\ \A n \in DOMAIN blacklist : blacklist[n] <= now
    /\ \A n \in DOMAIN suspiciousNodes :
          suspiciousNodes[n] * BanTime <=
              2 * IF Has(blacklist, n) THEN blacklist[n] + BanTime ELSE now

\* A node of which every report was at least as good as the report on
\* another, one by one, has at least its score, although what exceeds the
\* bounds is lost.
FairComparison ==
    \A n, o \in DOMAIN scores :
        (/\ Len(scores[n].Impacts) = Len(scores[o].Impacts)
         /\ \A i \in DOMAIN scores[n].Impacts :
                scores[n].Impacts[i] >= scores[o].Impacts[i])
        => scores[n].Score >= scores[o].Score

\* A report that is not to the credit of a node, be it the first on it, never
\* makes GetConsensusThreshold ask for less.
BadReportsRaise ==
    [][(\E n \in Node : /\ Reports(n)' > Reports(n)
                        /\ Last(scores'[n].Impacts) <= 0)
       => GetConsensusThreshold' >= GetConsensusThreshold]_vars
=============================================================================
