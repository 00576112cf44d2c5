--------------------------- MODULE DefenderProofs ----------------------------
(***************************************************************************)
(* Scores keep within their bounds and follow from the reports, bad        *)
(* reports never lower the threshold, and a node is suspected at most      *)
(* twice in the time of a ban, for any nodes, reports and clock.           *)
(***************************************************************************)
EXTENDS ByzantineDefender, DataTheorems, SequenceTheorems

\* What DetectAttacks returns a sequence of.
Attack == [num : Nat, den : Nat \ {0}]

\* There is nothing to compare at the start.
LEMMA InitInv == Init => IndInv
BY DefenderAssumption DEF Init, IndInv, TypeOK, IsMap, EmptyMap

\* At most two attacks are detected, and each is severe.
LEMMA AttacksSevere ==
    ASSUME NEW b \in NodeBehavior
    PROVE  /\ DetectAttacks(b) \in Seq(Attack)
           /\ Len(DetectAttacks(b)) <= 2
           /\ \A i \in DOMAIN DetectAttacks(b) : Severe(DetectAttacks(b)[i])
<1> DEFINE votes == IF b.DoubleVotes > 0
                    THEN << [num |-> b.DoubleVotes, den |-> 1] >> ELSE << >>
           invalid == IF b.InvalidBlocks > b.ValidBlocks
                      THEN << [num |-> b.InvalidBlocks,
                               den |-> b.ValidBlocks + 1] >>
                      ELSE << >>
<1> USE DEF Attack
<1>1. /\ b.DoubleVotes \in Nat /\ b.InvalidBlocks \in Nat
      /\ b.ValidBlocks \in Nat
  BY DEF NodeBehavior
<1>2. \A a \in Attack : Severe(a) =>
        /\ <<a>> \in Seq(Attack)
        /\ Len(<<a>>) = 1
        /\ \A i \in DOMAIN <<a>> : Severe(<<a>>[i])
  OBVIOUS
<1>3. /\ votes \in Seq(Attack)
      /\ Len(votes) <= 1
      /\ \A i \in DOMAIN votes : Severe(votes[i])
  <2>1. CASE b.DoubleVotes > 0
    <3> DEFINE a == [num |-> b.DoubleVotes, den |-> 1]
    <3>1. a \in Attack /\ a.num = b.DoubleVotes /\ a.den = 1
      BY <1>1
    <3>2. Severe(a)
      BY <1>1, <2>1, <3>1 DEF Severe
    <3>3. votes = <<a>>
      BY <2>1
    <3> HIDE DEF a, votes, invalid
    <3>4. /\ <<a>> \in Seq(Attack)
          /\ Len(<<a>>) = 1
          /\ \A i \in DOMAIN <<a>> : Severe(<<a>>[i])
      BY <1>2, <3>1, <3>2
    <3> QED
      BY <3>3, <3>4
  <2>2. CASE ~ (b.DoubleVotes > 0)
    BY <2>2
  <2> QED
    BY <2>1, <2>2
<1>5. /\ invalid \in Seq(Attack)
      /\ Len(invalid) <= 1
      /\ \A i \in DOMAIN invalid : Severe(invalid[i])
  <2>1. CASE b.InvalidBlocks > b.ValidBlocks
    <3> DEFINE a == [num |-> b.InvalidBlocks, den |-> b.ValidBlocks + 1]
    <3>1. a \in Attack /\ a.num = b.InvalidBlocks /\ a.den = b.ValidBlocks + 1
      BY <1>1
    <3>2. Severe(a)
      BY <1>1, <2>1, <3>1 DEF Severe
    <3>3. invalid = <<a>>
      BY <2>1
    <3> HIDE DEF a, votes, invalid
    <3>4. /\ <<a>> \in Seq(Attack)
          /\ Len(<<a>>) = 1
          /\ \A i \in DOMAIN <<a>> : Severe(<<a>>[i])
      BY <1>2, <3>1, <3>2
    <3> QED
      BY <3>3, <3>4
  <2>2. CASE ~ (b.InvalidBlocks > b.ValidBlocks)
    BY <2>2
  <2> QED
    BY <2>1, <2>2
<1>4. DetectAttacks(b) = votes \o invalid
  BY DEF DetectAttacks
<1> HIDE DEF votes, invalid
<1> QED
  BY <1>3, <1>4, <1>5

\* The impact of a report is an integer.
LEMMA ImpactType ==
    ASSUME NEW b \in NodeBehavior
    PROVE  CalculateReputationDelta(b) \in Int
<1> DEFINE attacks == DetectAttacks(b)
           half(a) == (Unit * a.num) \div (2 * a.den)
<1>1. \A a \in Attack : half(a) \in Int
  <2> SUFFICES ASSUME NEW a \in Attack
               PROVE  half(a) \in Int
    OBVIOUS
  <2>1. Unit * a.num \in Int /\ 2 * a.den \in Nat \ {0}
    BY DEF Unit, Attack
  <2> QED
    BY <2>1
<1>2. attacks \in Seq(Attack)
  BY AttacksSevere
<1>3. /\ Len(attacks) > 0 => half(attacks[1]) \in Int
      /\ Len(attacks) > 1 => half(attacks[2]) \in Int
  <2>1. Len(attacks) \in Nat
        /\ \A i \in 1 .. Len(attacks) : attacks[i] \in Attack
    BY <1>2
  <2> HIDE DEF attacks, half
  <2> QED
    BY <1>1, <2>1
<1>4. CalculateReputationDelta(b) =
        100 * b.ValidBlocks + 10 * b.ValidTransactions
        + 2 * b.ConsensusParticipation
        - (IF Len(attacks) > 0 THEN half(attacks[1]) ELSE 0)
        - (IF Len(attacks) > 1 THEN half(attacks[2]) ELSE 0)
        - 300 * b.InvalidBlocks - Unit * b.DoubleVotes
  BY DEF CalculateReputationDelta
<1>5. \A f \in {"ValidBlocks", "ValidTransactions", "InvalidBlocks",
                 "ConsensusParticipation", "DoubleVotes"} : b[f] \in Nat
  BY DEF NodeBehavior
<1> DEFINE x == IF Len(attacks) > 0 THEN half(attacks[1]) ELSE 0
           y == IF Len(attacks) > 1 THEN half(attacks[2]) ELSE 0
<1>6. x \in Int /\ y \in Int
  <2> HIDE DEF attacks, half
  <2> QED
    BY <1>3
<1>7. CalculateReputationDelta(b) =
        100 * b.ValidBlocks + 10 * b.ValidTransactions
        + 2 * b.ConsensusParticipation - x - y
        - 300 * b.InvalidBlocks - Unit * b.DoubleVotes
  BY <1>4
<1> HIDE DEF x, y
<1> QED
  BY <1>5, <1>6, <1>7 DEF Unit

\* The score a node starts from is within the bounds.
LEMMA ScoreBounds == MaxScore \in Nat /\ Neutral \in 0 .. MaxScore
<1>1. MaxScore = 100000 /\ Neutral = 50000
  BY DEF MaxScore, Neutral, Unit
<1> QED
  BY <1>1

\* A bounded score is within the bounds.
LEMMA BoundedRange ==
    ASSUME NEW x \in Int
    PROVE  Bounded(x) \in 0 .. MaxScore
<1>1. MaxScore \in Nat
  BY ScoreBounds
<1> QED
  BY <1>1 DEF Bounded

\* updateNodeReputation keeps both maps of scores well typed and equal.
LEMMA ReputationType ==
    ASSUME TypeOK, NEW n \in Node, NEW d \in Int, UpdateNodeReputation(n, d)
    PROVE  /\ IsMap(scores', Node, [Score : 0 .. MaxScore, Impacts : Seq(Int)])
           /\ nodeScores' = [m \in DOMAIN scores' |-> scores'[m].Score]
           /\ DOMAIN scores' = DOMAIN scores \cup {n}
<1> DEFINE Rep == [Score : 0 .. MaxScore, Impacts : Seq(Int)]
           r == GetReputation(n)
           new == [Score |-> Bounded(r.Score + d), Impacts |-> Append(r.Impacts, d)]
<1>1. r \in Rep
  <2>1. CASE Has(scores, n)
    BY <2>1 DEF TypeOK, IsMap, GetReputation, Has
  <2>2. CASE ~ Has(scores, n)
    <3>1. r = [Score |-> Neutral, Impacts |-> << >>]
      BY <2>2 DEF GetReputation
    <3>2. Neutral \in 0 .. MaxScore
      BY ScoreBounds
    <3> QED
      BY <3>1, <3>2
  <2> QED
    BY <2>1, <2>2
<1>2. new \in Rep
  <2>1. Bounded(r.Score + d) \in 0 .. MaxScore
    <3>1. r.Score \in 0 .. MaxScore
      BY <1>1
    <3>2. r.Score + d \in Int
      <4> HIDE DEF r
      <4> QED
        BY <3>1
    <3> QED
      BY <3>2, BoundedRange
  <2> QED
    BY <1>1, <2>1
<1>3. scores' = Put(scores, n, new) /\ nodeScores' = Put(nodeScores, n, new.Score)
  BY DEF UpdateNodeReputation
<1> HIDE DEF r, new
<1>4. IsMap(scores', Node, Rep)
  BY <1>2, <1>3 DEF TypeOK, IsMap, Put
<1>5. DOMAIN scores' = DOMAIN scores \cup {n}
  BY <1>3 DEF Put
<1>6. nodeScores' = [m \in DOMAIN scores' |-> scores'[m].Score]
  BY <1>3 DEF TypeOK, Put
<1> QED
  BY <1>4, <1>5, <1>6

\* The count and the ban that a report leaves behind: an attack bans the node
\* from now on, any other report leaves it without a ban.
LEMMA Measures ==
    ASSUME IndInv, NEW n \in Node, NEW b \in NodeBehavior, ~Banned(n),
           ApplyDefensiveMeasures(n, DetectAttacks(b)), UNCHANGED now
    PROVE  \/ /\ UNCHANGED suspiciousNodes
              /\ blacklist' = Delete(blacklist, n)
           \/ \E k \in {1, 2} :
                 /\ suspiciousNodes' =
                      Put(suspiciousNodes, n,
                          k + IF Has(suspiciousNodes, n)
                              THEN suspiciousNodes[n] ELSE 0)
                 /\ blacklist' = Put(blacklist, n, now)
<1> DEFINE attacks == DetectAttacks(b)
<1>1. /\ attacks \in Seq(Attack) /\ Len(attacks) <= 2
      /\ \A i \in DOMAIN attacks : Severe(attacks[i])
  BY AttacksSevere
<1>2. CASE attacks = << >>
  BY <1>2 DEF ApplyDefensiveMeasures
<1>3. CASE attacks # << >>
  <2> HIDE DEF attacks
  <2>1. Len(attacks) \in {1, 2} /\ 1 \in DOMAIN attacks
    <3>1. Len(attacks) \in Nat /\ Len(attacks) # 0
          /\ DOMAIN attacks = 1 .. Len(attacks)
      BY <1>1, <1>3, EmptySeq
    <3> QED
      BY <1>1, <3>1
  <2>2. \E i \in DOMAIN attacks : Severe(attacks[i])
    BY <1>1, <2>1
  <2> QED
    BY <1>3, <2>1, <2>2 DEF ApplyDefensiveMeasures, attacks
<1> QED
  BY <1>2, <1>3

\* While a node without a ban, or whose ban has run out, is reported, the
\* clock pays for the attacks counted so far.
LEMMA ClockPays ==
    ASSUME IndInv, NEW n \in DOMAIN suspiciousNodes, ~Banned(n)
    PROVE  suspiciousNodes[n] * BanTime <= 2 * now
<1>1. suspiciousNodes[n] \in Nat /\ now \in Nat /\ BanTime \in Nat
  BY DefenderAssumption DEF IndInv, TypeOK, IsMap
<1>2. suspiciousNodes[n] * BanTime \in Nat
  BY <1>1
<1>3. CASE Has(blacklist, n)
  <2>1. blacklist[n] \in Nat /\ ~ (now - blacklist[n] < BanTime)
    BY <1>3 DEF IndInv, TypeOK, IsMap, Has, Banned
  <2>2. suspiciousNodes[n] * BanTime <= 2 * (blacklist[n] + BanTime)
    BY <1>3 DEF IndInv
  <2> QED
    BY <1>1, <1>2, <2>1, <2>2
<1>4. CASE ~ Has(blacklist, n)
  BY <1>4 DEF IndInv
<1> QED
  BY <1>3, <1>4

\* A report preserves the invariant.
LEMMA ValidateStep ==
    ASSUME IndInv, NEW n \in Node, NEW b \in Behavior, ValidateNode(n, b)
    PROVE  IndInv'
<1>1. b \in NodeBehavior /\ BanTime \in Nat
  BY DefenderAssumption
<1>2. /\ IsMap(scores', Node, [Score : 0 .. MaxScore, Impacts : Seq(Int)])
      /\ nodeScores' = [m \in DOMAIN scores' |-> scores'[m].Score]
      /\ DOMAIN scores' = DOMAIN scores \cup {n}
  <2>1. CalculateReputationDelta(b) \in Int
    BY <1>1, ImpactType
  <2>2. UpdateNodeReputation(n, CalculateReputationDelta(b)) /\ TypeOK
    BY DEF ValidateNode, IndInv
  <2> QED
    BY <2>1, <2>2, ReputationType
<1>3. ~Banned(n) /\ now' = now /\ now \in Nat
  BY DEF ValidateNode, IndInv, TypeOK
<1>4. \/ /\ UNCHANGED suspiciousNodes
         /\ blacklist' = Delete(blacklist, n)
      \/ \E k \in {1, 2} :
            /\ suspiciousNodes' =
                 Put(suspiciousNodes, n,
                     k + IF Has(suspiciousNodes, n)
                         THEN suspiciousNodes[n] ELSE 0)
            /\ blacklist' = Put(blacklist, n, now)
  BY <1>1, <1>3, Measures DEF ValidateNode
<1>5. CASE UNCHANGED suspiciousNodes /\ blacklist' = Delete(blacklist, n)
  <2>1. /\ DOMAIN blacklist' = DOMAIN blacklist \ {n}
        /\ \A m \in DOMAIN blacklist' : blacklist'[m] = blacklist[m]
        /\ IsMap(blacklist', DOMAIN suspiciousNodes', Nat)
    BY <1>5 DEF Delete, IndInv, TypeOK, IsMap
  <2>2. TypeOK'
    BY <1>2, <1>3, <1>5, <2>1 DEF IndInv, TypeOK, IsMap
  <2>3. \A m \in DOMAIN blacklist' : blacklist'[m] <= now'
    BY <1>3, <2>1 DEF IndInv
  <2>4. ASSUME NEW m \in DOMAIN suspiciousNodes'
        PROVE  suspiciousNodes'[m] * BanTime <=
                 2 * IF Has(blacklist', m) THEN blacklist'[m] + BanTime ELSE now'
    <3>1. CASE m = n
      BY <1>3, <1>5, <2>1, <3>1, ClockPays DEF Has
    <3>2. CASE m # n
      BY <1>3, <1>5, <2>1, <3>2 DEF Has, IndInv
    <3> QED
      BY <3>1, <3>2
  <2> QED
    BY <2>2, <2>3, <2>4 DEF IndInv
<1>6. ASSUME NEW k \in {1, 2},
             suspiciousNodes' = Put(suspiciousNodes, n,
                                    k + IF Has(suspiciousNodes, n)
                                        THEN suspiciousNodes[n] ELSE 0),
             blacklist' = Put(blacklist, n, now)
      PROVE  IndInv'
  <2> DEFINE old == IF Has(suspiciousNodes, n) THEN suspiciousNodes[n] ELSE 0
  <2>1. old \in Nat
    BY DEF IndInv, TypeOK, IsMap, Has
  <2>2. old * BanTime <= 2 * now
    <3>1. CASE Has(suspiciousNodes, n)
      BY <1>3, <3>1, ClockPays DEF Has
    <3>2. CASE ~ Has(suspiciousNodes, n)
      BY <1>1, <1>3, <3>2
    <3> QED
      BY <3>1, <3>2
  <2>3. suspiciousNodes' = Put(suspiciousNodes, n, k + old)
    BY <1>6
  <2> HIDE DEF old
  <2>4. /\ DOMAIN suspiciousNodes' = DOMAIN suspiciousNodes \cup {n}
        /\ suspiciousNodes'[n] = k + old
        /\ \A m \in DOMAIN suspiciousNodes \ {n} :
              suspiciousNodes'[m] = suspiciousNodes[m]
        /\ IsMap(suspiciousNodes', DOMAIN scores', Nat)
    BY <1>2, <2>1, <2>3 DEF Put, IndInv, TypeOK, IsMap
  <2>5. /\ DOMAIN blacklist' = DOMAIN blacklist \cup {n}
        /\ blacklist'[n] = now
        /\ \A m \in DOMAIN blacklist \ {n} : blacklist'[m] = blacklist[m]
        /\ IsMap(blacklist', DOMAIN suspiciousNodes', Nat)
    BY <1>3, <1>6, <2>4 DEF Put, IndInv, TypeOK, IsMap
  <2>6. TypeOK'
    BY <1>2, <1>3, <2>4, <2>5 DEF TypeOK
  <2>7. \A m \in DOMAIN blacklist' : blacklist'[m] <= now'
    BY <1>3, <2>5 DEF IndInv
  <2>8. ASSUME NEW m \in DOMAIN suspiciousNodes'
        PROVE  suspiciousNodes'[m] * BanTime <=
                 2 * IF Has(blacklist', m) THEN blacklist'[m] + BanTime ELSE now'
    <3>1. CASE m = n
      <4>1. (k + old) * BanTime = k * BanTime + old * BanTime
        BY <1>1, <2>1
      <4>2. k * BanTime <= 2 * BanTime
        BY <1>1
      <4>3. (k + old) * BanTime <= 2 * (now + BanTime)
        BY <1>1, <1>3, <2>1, <2>2, <4>1, <4>2
      <4> QED
        BY <2>4, <2>5, <3>1, <4>3 DEF Has
    <3>2. CASE m # n
      BY <1>3, <2>4, <2>5, <3>2 DEF Has, IndInv
    <3> QED
      BY <3>1, <3>2
  <2> QED
    BY <2>6, <2>7, <2>8 DEF IndInv
<1> QED
  BY <1>4, <1>5, <1>6

\* Every step preserves the invariant.
LEMMA NextInv == IndInv /\ [Next]_vars => IndInv'
<1> SUFFICES ASSUME IndInv, [Next]_vars
             PROVE  IndInv'
  OBVIOUS
<1>1. ASSUME NEW n \in Node, NEW b \in Behavior, ValidateNode(n, b)
      PROVE  IndInv'
  BY <1>1, ValidateStep
<1>2. CASE TimePasses
  <2>1. /\ now \in Nat /\ now' = now + 1 /\ BanTime \in Nat
        /\ UNCHANGED <<scores, nodeScores, blacklist, suspiciousNodes>>
    BY <1>2, DefenderAssumption DEF TimePasses, reputation, IndInv, TypeOK
  <2>2. TypeOK' /\ \A m \in DOMAIN blacklist' : blacklist'[m] <= now'
    BY <2>1 DEF IndInv, TypeOK, IsMap
  <2>3. ASSUME NEW m \in DOMAIN suspiciousNodes'
        PROVE  suspiciousNodes'[m] * BanTime <=
                 2 * IF Has(blacklist', m) THEN blacklist'[m] + BanTime ELSE now'
    <3>1. suspiciousNodes[m] \in Nat /\ suspiciousNodes[m] * BanTime \in Nat
      BY <2>1 DEF IndInv, TypeOK, IsMap
    <3>2. CASE Has(blacklist, m)
      BY <2>1, <3>2 DEF IndInv
    <3>3. CASE ~ Has(blacklist, m)
      BY <2>1, <3>1, <3>3 DEF IndInv
    <3> QED
      BY <3>2, <3>3
  <2> QED
    BY <2>2, <2>3 DEF IndInv
<1>3. CASE UNCHANGED vars
  BY <1>3 DEF vars, reputation, IndInv, TypeOK, IsMap, Has
<1> QED
  BY <1>1, <1>2, <1>3 DEF Next, RefuseNode

\* The invariant implies what it was strengthened from.
LEMMA PacedIsSlow == IndInv => SuspicionSlow
<1> SUFFICES ASSUME IndInv, NEW n \in DOMAIN suspiciousNodes
             PROVE  suspiciousNodes[n] * BanTime <= 2 * (now + BanTime)
  BY DEF SuspicionSlow
<1>1. /\ suspiciousNodes[n] * BanTime \in Nat
      /\ now \in Nat /\ BanTime \in Nat
  BY DefenderAssumption DEF IndInv, TypeOK, IsMap
<1>2. CASE Has(blacklist, n)
  <2>1. blacklist[n] \in Nat /\ blacklist[n] <= now
    BY <1>2 DEF IndInv, TypeOK, IsMap, Has
  <2>2. suspiciousNodes[n] * BanTime <= 2 * (blacklist[n] + BanTime)
    BY <1>2 DEF IndInv
  <2> QED
    BY <1>1, <2>1, <2>2
<1>3. CASE ~ Has(blacklist, n)
  <2>1. suspiciousNodes[n] * BanTime <= 2 * now
    BY <1>3 DEF IndInv
  <2> QED
    BY <1>1, <2>1
<1> QED
  BY <1>2, <1>3

-----------------------------------------------------------------------------
(* The threshold.                                                          *)

\* What GetConsensusThreshold makes of the number of nodes and their scores.
Threshold(count, total) ==
    IF count = 0 \/ 10 * total > 8 * count * MaxScore THEN 62
    ELSE IF 2 * total < count * MaxScore THEN 77
    ELSE 67

\* More is asked for when the same nodes have less in all.
LEMMA LessAsksMore ==
    ASSUME NEW count \in Nat, NEW total \in Nat, NEW less \in Nat, less <= total,
           count # 0
    PROVE  Threshold(count, less) >= Threshold(count, total)
BY DEF Threshold, MaxScore, Unit

\* More is asked for when a node joins that has half a score or less.
LEMMA NewcomerAsksMore ==
    ASSUME NEW count \in Nat, NEW total \in Nat, NEW score \in Nat,
           score <= Neutral
    PROVE  Threshold(count + 1, total + score) >= Threshold(count, total)
BY DEF Threshold, MaxScore, Neutral, Unit

\* The nodes with a score are finitely many.
FinitelyMany == IsFiniteSet(DOMAIN scores)

\* Only a report adds a score, and one.
LEMMA FiniteStep == FinitelyMany /\ [Next]_vars => FinitelyMany'
<1> SUFFICES ASSUME FinitelyMany, [Next]_vars PROVE FinitelyMany'
  OBVIOUS
<1>1. ASSUME NEW n \in Node, NEW b \in Behavior, ValidateNode(n, b)
      PROVE  FinitelyMany'
  <2>1. DOMAIN scores' = (DOMAIN scores) \cup {n}
    BY <1>1 DEF ValidateNode, UpdateNodeReputation, Put
  <2> QED
    BY <2>1, FS_AddElement DEF FinitelyMany
<1>2. CASE UNCHANGED scores
  BY <1>2 DEF FinitelyMany
<1> QED
  BY <1>1, <1>2 DEF Next, RefuseNode, TimePasses, vars, reputation

\* The number of nodes and the sum of their scores, as the threshold uses them.
LEMMA Totals ==
    ASSUME IndInv, FinitelyMany
    PROVE  /\ NodeCount \in Nat
           /\ TotalScore \in Nat
           /\ GetConsensusThreshold = Threshold(NodeCount, TotalScore)
           /\ TotalScore = SumFunctionOnSet(nodeScores, DOMAIN scores)
           /\ NodeCount = Cardinality(DOMAIN scores)
           /\ DOMAIN nodeScores = DOMAIN scores
           /\ \A n \in DOMAIN scores : nodeScores[n] \in Nat /\ nodeScores[n] \in Int
<1>1. DOMAIN nodeScores = DOMAIN scores
  BY DEF IndInv, TypeOK
<1>2. \A n \in DOMAIN scores : nodeScores[n] \in Nat
  BY DEF IndInv, TypeOK, IsMap
<1>3. IsFiniteSet(DOMAIN scores)
  BY DEF FinitelyMany
<1>4. TotalScore = SumFunctionOnSet(nodeScores, DOMAIN scores)
  BY <1>1 DEF TotalScore, SumFunction
<1>5. TotalScore \in Nat
  BY <1>2, <1>3, <1>4, SumNatural
<1>6. NodeCount \in Nat
  BY <1>1, <1>3, FS_CardinalityType DEF NodeCount
<1> QED
  BY <1>1, <1>2, <1>4, <1>5, <1>6 DEF NodeCount, GetConsensusThreshold, Threshold

\* A report that is not to the credit of the node, on a node with a score.
LEMMA KnownNodeLoses ==
    ASSUME IndInv, IndInv', FinitelyMany, NEW n \in DOMAIN scores,
           NEW s \in Nat, s <= scores[n].Score,
           nodeScores' = Put(nodeScores, n, s),
           DOMAIN scores' = DOMAIN scores
    PROVE  /\ NodeCount' = NodeCount
           /\ TotalScore' <= TotalScore
           /\ NodeCount # 0
<1> DEFINE D == DOMAIN scores
           R == (DOMAIN scores) \ {n}
<1>1. /\ TotalScore = SumFunctionOnSet(nodeScores, D)
      /\ NodeCount = Cardinality(D)
      /\ DOMAIN nodeScores = D
      /\ \A m \in D : nodeScores[m] \in Nat /\ nodeScores[m] \in Int
  BY Totals
<1>2. /\ nodeScores' = [m \in D |-> IF m = n THEN s ELSE nodeScores[m]]
      /\ DOMAIN nodeScores' = D
  BY <1>1 DEF Put
<1>3. TotalScore' = SumFunctionOnSet(nodeScores', D)
  BY <1>2 DEF TotalScore, SumFunction
<1>4. IsFiniteSet(D) /\ IsFiniteSet(R) /\ R = D \ {n} /\ n \in D
  BY FS_Subset DEF FinitelyMany
<1>5. nodeScores[n] = scores[n].Score
  BY DEF IndInv, TypeOK
<1>6. \A m \in D : nodeScores'[m] \in Int
  BY <1>1, <1>2
<1>7. \A m \in R : nodeScores[m] \in Int /\ nodeScores[m] = nodeScores'[m]
  BY <1>1, <1>2
<1> HIDE DEF D, R
<1>8. /\ SumFunctionOnSet(nodeScores, D) = nodeScores[n] + SumFunctionOnSet(nodeScores, D \ {n})
  BY <1>1, <1>4, SumRest
<1>9. SumFunctionOnSet(nodeScores', D) = nodeScores'[n] + SumFunctionOnSet(nodeScores', D \ {n})
  BY <1>4, <1>6, SumRest
<1>10. SumFunctionOnSet(nodeScores, R) = SumFunctionOnSet(nodeScores', R)
  BY <1>4, <1>7, SumSame
<1>11. SumFunctionOnSet(nodeScores, R) \in Int
  BY <1>4, <1>7, SumType
<1>12. nodeScores'[n] = s
  BY <1>2, <1>4
<1>13. Cardinality(D) # 0
  BY <1>4, FS_EmptySet
<1>14. NodeCount' = NodeCount
  BY <1>1, <1>2 DEF NodeCount
<1>15. nodeScores[n] \in Nat
  BY <1>1, <1>4
<1> QED
  BY <1>1, <1>3, <1>4, <1>5, <1>8, <1>9, <1>10, <1>11, <1>12, <1>13, <1>14, <1>15

\* The first report on a node.
LEMMA NewNodeJoins ==
    ASSUME IndInv, FinitelyMany, NEW n, n \notin DOMAIN scores, NEW s \in Nat,
           nodeScores' = Put(nodeScores, n, s)
    PROVE  /\ NodeCount' = NodeCount + 1
           /\ TotalScore' = TotalScore + s
<1> DEFINE D == DOMAIN scores
           E == (DOMAIN scores) \cup {n}
<1>1. /\ TotalScore = SumFunctionOnSet(nodeScores, D)
      /\ NodeCount = Cardinality(D)
      /\ DOMAIN nodeScores = D
      /\ \A m \in D : nodeScores[m] \in Nat /\ nodeScores[m] \in Int
      /\ TotalScore \in Nat
  BY Totals
<1>2. /\ nodeScores' = [m \in E |-> IF m = n THEN s ELSE nodeScores[m]]
      /\ DOMAIN nodeScores' = E
  BY <1>1 DEF Put
<1>3. TotalScore' = SumFunctionOnSet(nodeScores', E) /\ NodeCount' = Cardinality(E)
  BY <1>2 DEF TotalScore, SumFunction, NodeCount
<1>4. /\ IsFiniteSet(D) /\ IsFiniteSet(E) /\ n \in E /\ E \ {n} = D
      /\ Cardinality(E) = Cardinality(D) + 1
  BY FS_AddElement DEF FinitelyMany
<1>5. \A m \in E : nodeScores'[m] \in Int
  BY <1>1, <1>2
<1>6. \A m \in D : nodeScores[m] \in Int /\ nodeScores[m] = nodeScores'[m]
  BY <1>1, <1>2
<1>7. nodeScores'[n] = s
  BY <1>2
<1> HIDE DEF D, E
<1>8. SumFunctionOnSet(nodeScores', E) = nodeScores'[n] + SumFunctionOnSet(nodeScores', E \ {n})
  BY <1>4, <1>5, SumRest
<1>9. SumFunctionOnSet(nodeScores, D) = SumFunctionOnSet(nodeScores', D)
  BY <1>4, <1>6, SumSame
<1>10. SumFunctionOnSet(nodeScores', E) = s + SumFunctionOnSet(nodeScores, D)
  BY <1>4, <1>7, <1>8, <1>9
<1>11. TotalScore' = s + TotalScore
  BY <1>1, <1>3, <1>10
<1>12. NodeCount' = NodeCount + 1
  BY <1>1, <1>3, <1>4
<1>13. s + TotalScore = TotalScore + s
  BY <1>1
<1> QED
  BY <1>11, <1>12, <1>13

\* A bounded score is no more than a score that is within the bounds.
LEMMA BoundedLess ==
    ASSUME NEW x \in 0 .. MaxScore, NEW d \in Int, d <= 0
    PROVE  Bounded(x + d) <= x /\ Bounded(x + d) \in Nat
<1>1. MaxScore \in Nat
  BY ScoreBounds
<1> QED
  BY <1>1 DEF Bounded

\* A report on a node adds its impact to the history, and changes no other.
LEMMA ReportEffect ==
    ASSUME IndInv, NEW n \in Node, NEW b \in Behavior, ValidateNode(n, b)
    PROVE  LET r == GetReputation(n)
               d == CalculateReputationDelta(b)
           IN  /\ d \in Int
               /\ r.Score \in 0 .. MaxScore
               /\ r.Impacts \in Seq(Int)
               /\ scores' = Put(scores, n, [Score |-> Bounded(r.Score + d),
                                            Impacts |-> Append(r.Impacts, d)])
               /\ nodeScores' = Put(nodeScores, n, Bounded(r.Score + d))
               /\ Last(scores'[n].Impacts) = d
               /\ \A m \in Node : m # n => Reports(m)' = Reports(m)
<1> DEFINE r == GetReputation(n)
           d == CalculateReputationDelta(b)
           new == [Score |-> Bounded(r.Score + d), Impacts |-> Append(r.Impacts, d)]
<1>1. d \in Int
  BY DefenderAssumption, ImpactType
<1>2. r.Score \in 0 .. MaxScore /\ r.Impacts \in Seq(Int)
  <2>1. CASE Has(scores, n)
    BY <2>1 DEF IndInv, TypeOK, IsMap, GetReputation, Has
  <2>2. CASE ~ Has(scores, n)
    <3>1. r = [Score |-> Neutral, Impacts |-> << >>]
      BY <2>2 DEF GetReputation
    <3>2. Neutral \in 0 .. MaxScore
      BY ScoreBounds
    <3> QED
      BY <3>1, <3>2
  <2> QED
    BY <2>1, <2>2
<1>3. /\ scores' = Put(scores, n, new)
      /\ nodeScores' = Put(nodeScores, n, Bounded(r.Score + d))
  BY DEF ValidateNode, UpdateNodeReputation
<1>4. new.Impacts = Append(r.Impacts, d)
  OBVIOUS
<1> HIDE DEF r, d
<1>5. Last(Append(r.Impacts, d)) = d
  BY <1>1, <1>2 DEF Last
<1>6. scores'[n].Impacts = Append(r.Impacts, d)
  BY <1>3, <1>4 DEF Put
<1>7. \A m \in Node : m # n => Reports(m)' = Reports(m)
  <2> HIDE DEF new
  <2> QED
    BY <1>3 DEF Put, Reports, Has
<1> QED
  BY <1>1, <1>2, <1>3, <1>5, <1>6, <1>7 DEF r, d

\* A report that is not to the credit of the node leaves the threshold or
\* raises it.
LEMMA BadReportStep ==
    ASSUME IndInv, IndInv', FinitelyMany, FinitelyMany', NEW n \in Node, NEW b \in Behavior,
           ValidateNode(n, b), CalculateReputationDelta(b) <= 0
    PROVE  GetConsensusThreshold' >= GetConsensusThreshold
<1> DEFINE r == GetReputation(n)
           d == CalculateReputationDelta(b)
           s == Bounded(r.Score + d)
<1>1. /\ d \in Int /\ r.Score \in 0 .. MaxScore
      /\ nodeScores' = Put(nodeScores, n, s)
      /\ DOMAIN scores' = (DOMAIN scores) \cup {n}
  BY ReportEffect DEF Put
<1>2. s <= r.Score /\ s \in Nat
  BY <1>1, BoundedLess
<1>3. r.Score = IF n \in DOMAIN scores THEN scores[n].Score ELSE Neutral
  BY DEF GetReputation, Has
<1>4. /\ NodeCount \in Nat /\ TotalScore \in Nat
      /\ GetConsensusThreshold = Threshold(NodeCount, TotalScore)
  BY Totals
<1>5. /\ NodeCount' \in Nat /\ TotalScore' \in Nat
      /\ GetConsensusThreshold' = Threshold(NodeCount', TotalScore')
  <2>1. /\ NodeCount' \in Nat /\ TotalScore' \in Nat
    <3>1. DOMAIN nodeScores' = DOMAIN scores'
          /\ \A m \in DOMAIN scores' : nodeScores'[m] \in Nat
      BY DEF IndInv, TypeOK, IsMap
    <3>2. IsFiniteSet(DOMAIN scores')
      BY DEF FinitelyMany
    <3>3. /\ TotalScore' = SumFunctionOnSet(nodeScores', DOMAIN scores')
          /\ NodeCount' = Cardinality(DOMAIN scores')
      BY <3>1 DEF TotalScore, SumFunction, NodeCount
    <3> QED
      BY <3>1, <3>2, <3>3, SumNatural, FS_CardinalityType
  <2> QED
    BY <2>1 DEF GetConsensusThreshold, Threshold
<1> HIDE DEF r, d, s
<1>6. CASE n \in DOMAIN scores
  <2>1. NodeCount' = NodeCount /\ TotalScore' <= TotalScore /\ NodeCount # 0
    BY <1>1, <1>2, <1>3, <1>6, KnownNodeLoses
  <2> QED
    BY <1>4, <1>5, <2>1, LessAsksMore
<1>7. CASE n \notin DOMAIN scores
  <2>1. NodeCount' = NodeCount + 1 /\ TotalScore' = TotalScore + s
    BY <1>1, <1>2, <1>7, NewNodeJoins
  <2> QED
    BY <1>2, <1>3, <1>4, <1>5, <1>7, <2>1, NewcomerAsksMore
<1> QED
  BY <1>6, <1>7
-----------------------------------------------------------------------------
(* What the history of a node says of its score.                           *)

\* "t" tells how the impacts of the reports led to a score.
IsTrace(t, impacts) ==
    /\ t \in [0 .. Len(impacts) -> 0 .. MaxScore]
    /\ t[0] = Neutral
    /\ \A i \in 1 .. Len(impacts) : t[i] = Bounded(t[i - 1] + impacts[i])

\* Every score is what the impacts in its history led to.
ScoresExplained ==
    \A n \in DOMAIN scores :
        \E t : /\ IsTrace(t, scores[n].Impacts)
               /\ t[Len(scores[n].Impacts)] = scores[n].Score

\* One more report on a node.
LEMMA TraceExtends ==
    ASSUME NEW impacts \in Seq(Int), NEW t, IsTrace(t, impacts), NEW d \in Int
    PROVE  \E u : /\ IsTrace(u, Append(impacts, d))
                  /\ u[Len(impacts) + 1] = Bounded(t[Len(impacts)] + d)
<1> DEFINE k == Len(impacts)
           l == Append(impacts, d)
           new == Bounded(t[k] + d)
           u == [i \in 0 .. k + 1 |-> IF i <= k THEN t[i] ELSE new]
<1>1. /\ k \in Nat /\ Len(l) = k + 1
      /\ \A i \in 1 .. k : l[i] = impacts[i]
      /\ l[k + 1] = d
  OBVIOUS
<1>2. /\ t \in [0 .. k -> 0 .. MaxScore]
      /\ t[0] = Neutral
      /\ \A i \in 1 .. k : t[i] = Bounded(t[i - 1] + impacts[i])
  BY DEF IsTrace
<1> HIDE DEF k, l
<1>3. t[k] \in 0 .. MaxScore
  BY <1>1, <1>2
<1>4. t[k] + d \in Int
  BY <1>3
<1>5. new \in 0 .. MaxScore
  BY <1>4, BoundedRange
<1>6. /\ u \in [0 .. k + 1 -> 0 .. MaxScore]
      /\ \A i \in 0 .. k : u[i] = t[i]
      /\ u[k + 1] = new
  <2> HIDE DEF new
  <2> QED
    BY <1>1, <1>2, <1>5
<1> HIDE DEF u
<1>7. ASSUME NEW i \in 1 .. k + 1
      PROVE  u[i] = Bounded(u[i - 1] + l[i])
  <2>1. CASE i \in 1 .. k
    BY <1>1, <1>2, <1>6, <2>1
  <2>2. CASE i = k + 1
    BY <1>1, <1>6, <2>2
  <2> QED
    BY <1>1, <2>1, <2>2
<1>8. IsTrace(u, l)
  BY <1>1, <1>2, <1>6, <1>7 DEF IsTrace
<1> QED
  BY <1>6, <1>8 DEF k, l

\* The trace of no report.
LEMMA TraceStarts ==
    \E t : IsTrace(t, << >>) /\ t[Len(<< >>)] = Neutral
<1> DEFINE t == [i \in 0 .. 0 |-> Neutral]
<1>1. Neutral \in 0 .. MaxScore
  BY ScoreBounds
<1>2. IsTrace(t, << >>) /\ t[Len(<< >>)] = Neutral
  BY <1>1 DEF IsTrace
<1> QED
  BY <1>2

\* Every step keeps the scores explained.
LEMMA ExplainedStep == IndInv /\ ScoresExplained /\ [Next]_vars => ScoresExplained'
<1> SUFFICES ASSUME IndInv, ScoresExplained, [Next]_vars PROVE ScoresExplained'
  OBVIOUS
<1>1. ASSUME NEW n \in Node, NEW b \in Behavior, ValidateNode(n, b)
      PROVE  ScoresExplained'
  <2> DEFINE r == GetReputation(n)
             d == CalculateReputationDelta(b)
             new == [Score |-> Bounded(r.Score + d), Impacts |-> Append(r.Impacts, d)]
  <2>1. /\ d \in Int /\ r.Impacts \in Seq(Int)
        /\ scores' = Put(scores, n, new)
    BY <1>1, ReportEffect
  <2>2. \E t : IsTrace(t, r.Impacts) /\ t[Len(r.Impacts)] = r.Score
    <3>1. CASE Has(scores, n)
      BY <3>1 DEF GetReputation, ScoresExplained, Has
    <3>2. CASE ~ Has(scores, n)
      BY <3>2, TraceStarts DEF GetReputation
    <3> QED
      BY <3>1, <3>2
  <2>3. new.Score = Bounded(r.Score + d) /\ new.Impacts = Append(r.Impacts, d)
    OBVIOUS
  <2> HIDE DEF r, d, new
  <2>4. Len(Append(r.Impacts, d)) = Len(r.Impacts) + 1
    BY <2>1
  <2>5. \E u : IsTrace(u, new.Impacts) /\ u[Len(new.Impacts)] = new.Score
    <3>1. PICK t : IsTrace(t, r.Impacts) /\ t[Len(r.Impacts)] = r.Score
      BY <2>2
    <3>2. \E u : /\ IsTrace(u, Append(r.Impacts, d))
                 /\ u[Len(r.Impacts) + 1] = Bounded(t[Len(r.Impacts)] + d)
      BY <2>1, <3>1, TraceExtends
    <3> QED
      BY <2>3, <2>4, <3>1, <3>2
  <2>6. /\ DOMAIN scores' = (DOMAIN scores) \cup {n}
        /\ scores'[n] = new
        /\ \A m \in DOMAIN scores \ {n} : scores'[m] = scores[m]
    BY <2>1 DEF Put
  <2> QED
    BY <2>5, <2>6 DEF ScoresExplained
<1>2. CASE UNCHANGED scores
  BY <1>2 DEF ScoresExplained
<1> QED
  BY <1>1, <1>2 DEF Next, RefuseNode, TimePasses, vars, reputation

\* Cutting off at the bounds keeps the order.
LEMMA BoundedMonotone ==
    ASSUME NEW x \in Int, NEW y \in Int, x >= y
    PROVE  Bounded(x) >= Bounded(y)
<1>1. MaxScore \in Nat
  BY ScoreBounds
<1> QED
  BY <1>1 DEF Bounded

\* Impacts that are better one by one lead to a better score.
LEMMA TracesCompare ==
    ASSUME NEW a \in Seq(Int), NEW b \in Seq(Int), Len(a) = Len(b),
           \A i \in DOMAIN a : a[i] >= b[i],
           NEW t, IsTrace(t, a), NEW u, IsTrace(u, b)
    PROVE  t[Len(a)] >= u[Len(b)]
<1> DEFINE k == Len(a)
           G == {i \in 0 .. k : t[i] >= u[i]}
<1>1. k \in Nat /\ \A i \in 1 .. k : a[i] \in Int /\ b[i] \in Int /\ a[i] >= b[i]
  OBVIOUS
<1>2. /\ t \in [0 .. k -> 0 .. MaxScore]
      /\ u \in [0 .. k -> 0 .. MaxScore]
      /\ t[0] = Neutral /\ u[0] = Neutral
      /\ \A i \in 1 .. k : /\ t[i] = Bounded(t[i - 1] + a[i])
                           /\ u[i] = Bounded(u[i - 1] + b[i])
  BY DEF IsTrace
<1> HIDE DEF k
<1>3. \A i \in 0 .. k : t[i] \in Int /\ u[i] \in Int
  BY <1>2
<1>4. 0 \in G
  BY <1>1, <1>2 DEF Neutral, Unit
<1>5. ASSUME NEW i \in 1 .. k, i - 1 \in G
      PROVE  i \in G
  <2>1. i - 1 \in 0 .. k /\ t[i - 1] >= u[i - 1]
    BY <1>5
  <2>2. /\ t[i - 1] + a[i] \in Int /\ u[i - 1] + b[i] \in Int
        /\ t[i - 1] + a[i] >= u[i - 1] + b[i]
    BY <1>1, <1>3, <2>1
  <2>3. t[i] >= u[i]
    BY <1>2, <2>2, BoundedMonotone
  <2> QED
    BY <2>3
<1> HIDE DEF G
<1>6. \A i \in 0 .. k : i \in G
  BY <1>1, <1>4, <1>5, UptoInduction
<1>7. k \in G
  BY <1>1, <1>6
<1> QED
  BY <1>7 DEF G, k

\* Better reports, one by one, never lead to a worse score.
LEMMA ExplainedFair == IndInv /\ ScoresExplained => FairComparison
<1> SUFFICES ASSUME IndInv, ScoresExplained,
                    NEW n \in DOMAIN scores, NEW o \in DOMAIN scores,
                    Len(scores[n].Impacts) = Len(scores[o].Impacts),
                    \A i \in DOMAIN scores[n].Impacts :
                        scores[n].Impacts[i] >= scores[o].Impacts[i]
             PROVE  scores[n].Score >= scores[o].Score
  BY DEF FairComparison
<1>1. scores[n].Impacts \in Seq(Int) /\ scores[o].Impacts \in Seq(Int)
  BY DEF IndInv, TypeOK, IsMap
<1>2. PICK t : /\ IsTrace(t, scores[n].Impacts)
               /\ t[Len(scores[n].Impacts)] = scores[n].Score
  BY DEF ScoresExplained
<1>3. PICK u : /\ IsTrace(u, scores[o].Impacts)
               /\ u[Len(scores[o].Impacts)] = scores[o].Score
  BY DEF ScoresExplained
<1> QED
  BY <1>1, <1>2, <1>3, TracesCompare
-----------------------------------------------------------------------------
(* The theorems.                                                           *)

\* ValidateNode keeps every score within its bounds, the same in both maps,
\* and blacklists only nodes it has counted attacks of.
THEOREM ScoresBounded == Spec => []TypeOK
<1>1. IndInv => TypeOK
  BY DEF IndInv
<1> QED
  BY <1>1, InitInv, NextInv, PTL DEF Spec

\* Whatever is reported and whenever, ValidateNode adds at most two to the
\* suspicion of a node in the time of a ban.
THEOREM SuspicionPaced == Spec => []SuspicionSlow
BY PacedIsSlow, InitInv, NextInv, PTL DEF Spec

\* Every score is what the reports counted led to, and the nodes with a score
\* are finitely many.
THEOREM ScoresFromReports == Spec => [](IndInv /\ FinitelyMany /\ ScoresExplained)
<1>1. Init => FinitelyMany /\ ScoresExplained
  BY FS_EmptySet DEF Init, FinitelyMany, ScoresExplained, EmptyMap
<1> QED
  BY <1>1, InitInv, NextInv, FiniteStep, ExplainedStep, PTL DEF Spec

\* Nodes are compared by their reports alone: who was reported on at least as
\* well each time has at least the score.
THEOREM ComparisonFair == Spec => []FairComparison
BY ScoresFromReports, ExplainedFair, PTL

\* A report that is not to the credit of a node never lowers the threshold.
THEOREM BadReportsHeard == Spec => BadReportsRaise
<1>1. /\ IndInv /\ FinitelyMany /\ [Next]_vars
      => [(\E n \in Node : /\ Reports(n)' > Reports(n)
                           /\ Last(scores'[n].Impacts) <= 0)
          => GetConsensusThreshold' >= GetConsensusThreshold]_vars
  <2> SUFFICES ASSUME IndInv, FinitelyMany, [Next]_vars,
                      NEW n \in Node, Reports(n)' > Reports(n),
                      Last(scores'[n].Impacts) <= 0
               PROVE  GetConsensusThreshold' >= GetConsensusThreshold
    OBVIOUS
  <2>1. IndInv' /\ FinitelyMany'
    BY NextInv, FiniteStep
  <2>2. \A m \in Node : Reports(m) \in Nat
    BY DEF IndInv, TypeOK, IsMap, Reports, Has
  <2>3. PICK m \in Node, b \in Behavior : ValidateNode(m, b)
    <3>1. ~ UNCHANGED scores
      BY <2>2 DEF Reports, Has
    <3> QED
      BY <3>1 DEF Next, RefuseNode, TimePasses, vars, reputation
  <2>4. /\ Last(scores'[m].Impacts) = CalculateReputationDelta(b)
        /\ \A o \in Node : o # m => Reports(o)' = Reports(o)
    BY <2>3, ReportEffect
  <2>5. n = m
    BY <2>2, <2>4
  <2> QED
    BY <2>1, <2>3, <2>4, <2>5, BadReportStep
<1> QED
  BY <1>1, ScoresFromReports, PTL DEF Spec, BadReportsRaise
=============================================================================
