--------------------------- MODULE CAPOrchestrator ---------------------------
(***************************************************************************)
(* The CAP orchestrator (cap/orchestrator.go, cap/consistency_model.go).   *)
(*                                                                         *)
(* Three loops and the callers of ResolveConflict share co.mu, which each  *)
(* holds for one call.  monitorPartitions detects partitions before it     *)
(* takes the lock: "detected" is what it has in hand then.                 *)
(*                                                                         *)
(* PredictPartitionRisk and DetectPartitions are stubs that answer 0.1 and *)
(* "none"; here they answer what the network is like at that moment, which *)
(* includes the answers of the stubs.  Risks and severities are percents.  *)
(***************************************************************************)
EXTENDS ConflictResolver

CONSTANTS
    Risk,       \* the risks of a partition
    Partitions, \* the severities of the partitions there may be, as sequences
    Conflict    \* the conflicts that can be submitted

VARIABLES
    ConsistencyLevel,
    PartitionTolerance,
    thresholds,     \* ConsistencyTimeout, in seconds, and RetryAttempts
    telemetry,      \* have networkTelemetry and PartitionProbability been set?
    risk,           \* the network
    partitions,
    detected,       \* the partitions handlePartitions is about to be called with
    conflict,       \* the conflict whose result is being returned
    panicked        \* the process has ended in a panic

network == <<risk, partitions>>
profile == <<ConsistencyLevel, PartitionTolerance, thresholds>>
vars == <<profile, telemetry, network, detected, conflict, panicked>>

ASSUME CAPAssumption ==
    /\ Risk \subseteq 0 .. 100
    /\ Partitions \subseteq Seq(0 .. 100)
    /\ << >> \in Partitions
    /\ \A c \in Conflict :
           /\ c \in Seq(Range(c)) /\ Len(c) <= 4
           /\ \A i \in DOMAIN c : ConflictingState(c[i])

Thresholds(timeout, retries) ==
    [ConsistencyTimeout |-> timeout, RetryAttempts |-> retries]

\* NewCAPOrchestrator
Init ==
    /\ ConsistencyLevel = "Strong"
    /\ PartitionTolerance = 95
    /\ thresholds = Thresholds(5, 3)
    /\ telemetry = FALSE
    /\ risk \in Risk
    /\ partitions = << >>
    /\ detected = << >>
    /\ conflict = << >>
    /\ panicked = FALSE
-----------------------------------------------------------------------------
\* updateNetworkMetrics: the simulated measurements, always the same.
UpdateNetworkMetrics ==
    /\ ~panicked
    /\ telemetry' = TRUE
    /\ UNCHANGED <<profile, network, detected, conflict, panicked>>

\* calculateOptimalConsistency
CalculateOptimalConsistency(partitionRisk) ==
    IF partitionRisk > 70 THEN "Eventual"
    ELSE IF partitionRisk > 40 THEN "Causal"
    ELSE IF partitionRisk > 20 THEN "Session"
    ELSE "Strong"

\* adjustTimeoutsAndRetries, which leaves them alone for session consistency.
AdjustTimeoutsAndRetries(level) ==
    CASE level = "Strong"   -> Thresholds(5, 5)
      [] level = "Causal"   -> Thresholds(3, 3)
      [] level = "Eventual" -> Thresholds(1, 2)
      [] level = "Session"  -> thresholds

\* optimizeConsistencyLevel
OptimizeConsistencyLevel ==
    LET newLevel == CalculateOptimalConsistency(risk)
    IN  /\ ~panicked
        /\ newLevel # ConsistencyLevel
        /\ ConsistencyLevel' = newLevel
        /\ thresholds' = AdjustTimeoutsAndRetries(newLevel)
        /\ UNCHANGED <<PartitionTolerance, telemetry, network, detected,
                       conflict, panicked>>

\* monitorPartitions, up to its call of handlePartitions.
DetectPartitions ==
    /\ ~panicked
    /\ detected = << >>
    /\ partitions # << >>
    /\ detected' = partitions
    /\ UNCHANGED <<profile, telemetry, network, conflict, panicked>>

\* What was detected is handled again and again.
FaultyHandlePartitions ==
    /\ ~panicked
    /\ detected # << >>
    /\ ConsistencyLevel' = IF \E i \in DOMAIN detected : detected[i] > 80
                           THEN "Eventual" ELSE ConsistencyLevel
    /\ PartitionTolerance' = 100 - Last(detected)
    /\ UNCHANGED <<thresholds, telemetry, network, detected, conflict, panicked>>

\* handlePartitions.  The timeouts are not adjusted.
HandlePartitions ==
    /\ ~panicked
    /\ detected # << >>
    /\ ConsistencyLevel' = IF \E i \in DOMAIN detected : detected[i] > 80
                           THEN "Eventual" ELSE ConsistencyLevel
    /\ PartitionTolerance' = 100 - Last(detected)
    /\ detected' = << >>
    /\ UNCHANGED <<thresholds, telemetry, network, conflict, panicked>>

\* ResolveConflict; its result is Resolution(conflict').  Only of an empty
\* conflict there is no state to take.
ResolveConflict(c) ==
    /\ ~panicked
    /\ conflict = << >>
    /\ conflict' = c
    /\ panicked' = (c = << >>)
    /\ UNCHANGED <<profile, telemetry, network, detected>>

\* Its caller has the result, and the next call can be made.
ReturnResolved ==
    /\ conflict # << >>
    /\ conflict' = << >>
    /\ UNCHANGED <<profile, telemetry, network, detected, panicked>>

\* External: the network changes.
NetworkChanges ==
    /\ ~panicked
    /\ risk' \in Risk
    /\ partitions' \in Partitions
    /\ UNCHANGED <<profile, telemetry, detected, conflict, panicked>>

Next ==
    \/ UpdateNetworkMetrics
    \/ OptimizeConsistencyLevel
    \/ DetectPartitions
    \/ HandlePartitions
    \/ \E c \in Conflict : ResolveConflict(c)
    \/ ReturnResolved
    \/ NetworkChanges

\* The tickers of the loops go on, and a goroutine that waits for co.mu gets
\* it, since nobody keeps it.
Fairness == WF_vars(OptimizeConsistencyLevel) /\ WF_vars(HandlePartitions)

Spec == Init /\ [][Next]_vars /\ Fairness
-----------------------------------------------------------------------------
\* When the network settles down without partitions, the consistency level
\* settles down to the one its risk asks for, although a partition that was
\* detected before may be handled after it has gone.
RecoversFromPartitions ==
    \A r \in Risk :
        <>[](risk = r /\ partitions = << >>) =>
            <>[](ConsistencyLevel = CalculateOptimalConsistency(r) \/ panicked)

\* Timestamps differ, and a state that happens before another is older.
TimestampsCausal(states) ==
    \A i, j \in DOMAIN states :
        /\ i # j => states[i].Timestamp # states[j].Timestamp
        /\ HappensBefore(states[i].VectorClock, states[j].VectorClock)
            => states[i].Timestamp < states[j].Timestamp

\* Replicas that resolve the writes of several nodes agree, in whatever order
\* each of them has received the states, if no two timestamps are equal.
ReplicasAgree ==
    Cardinality(Nodes(conflict)) > 1 /\ TimestampsCausal(conflict) =>
        \A order \in SetToSeqs(Range(conflict)) :
            Resolution(order) = Resolution(conflict)

\* Resolution never takes a replica back in causal time: with clocks and
\* timestamps that fit, the resolved clock is not before the clock of any of
\* the states, be the writes concurrent, merged or in the wrong order.  (With
\* three states of one node causalStrategy, which sorts by a partial order,
\* can fall short.)
NoCausalRegress ==
    (/\ conflict # << >>
     /\ TimestampsCausal(conflict)
     /\ DetectConflictType(conflict) = "CausalViolation" => Len(conflict) <= 2)
    => \A i \in DOMAIN conflict :
          ~HappensBefore(Resolution(conflict).VectorClock,
                         conflict[i].VectorClock)
=============================================================================
