-------------------------- MODULE ConflictResolver ---------------------------
(***************************************************************************)
(* Conflict resolution (cap/conflict_resolver.go).                         *)
(*                                                                         *)
(* A conflict is a sequence of states, each with the node it comes from, a *)
(* value, a vector clock (a map from nodes to numbers) and a timestamp.    *)
(* conflictLog and vectorClocks of the resolver are never used.            *)
(***************************************************************************)
EXTENDS Naturals, Sequences, FiniteSets, SequencesExt, GoMap

\* ConflictingState and VectorClock
ConflictingState(s) ==
    /\ DOMAIN s = {"NodeID", "State", "VectorClock", "Timestamp"}
    /\ \A n \in DOMAIN s.VectorClock : s.VectorClock[n] \in Nat
    /\ s.Timestamp \in Nat

\* Faults seeded to show that the properties can fail are named Faulty...
\* and stand just before the definition they alter.

\* happensBefore.  A clock that only has more nodes than another does not come
\* after it.
HappensBefore(vc1, vc2) ==
    /\ \A n \in DOMAIN vc1 : Has(vc2, n) /\ vc1[n] <= vc2[n]
    /\ \E n \in DOMAIN vc1 : vc1[n] < vc2[n]

\* areClocksCausallyConsistent
AreClocksCausallyConsistent(vc1, vc2) ==
    \A n \in DOMAIN vc1 : Has(vc2, n) => vc1[n] <= vc2[n]

\* hasCausalViolation: only the clocks of earlier states are compared with
\* those of later ones.
HasCausalViolation(states) ==
    \E i, j \in DOMAIN states :
        /\ i < j
        /\ ~AreClocksCausallyConsistent(states[i].VectorClock,
                                        states[j].VectorClock)

Nodes(states) == {states[i].NodeID : i \in DOMAIN states}
Values(states) == {states[i].State : i \in DOMAIN states}

\* The nodes are not looked at.
FaultyDetectConflictType(states) ==
    CASE states = << >>                    -> "UnknownConflict"
      [] Cardinality(Values(states)) > 1   -> "PartitionDivergence"
      [] HasCausalViolation(states)        -> "CausalViolation"
      [] OTHER                             -> "ConcurrentWrite"

\* DetectConflictType.  The entropy of up to four values is over 0.8 when not
\* all of them are equal, and 0 when they are.
DetectConflictType(states) ==
    IF states = << >> THEN "UnknownConflict"
    ELSE IF Cardinality(Nodes(states)) > 1 THEN "ConcurrentWrite"
    ELSE IF Cardinality(Values(states)) > 1 THEN "PartitionDivergence"
    ELSE IF HasCausalViolation(states) THEN "CausalViolation"
    ELSE IF Len(states) > 1 THEN "ConcurrentWrite"
    ELSE "UnknownConflict"

\* sort.Slice on a short slice: each element moves to the left past those it
\* is less than, and stops at the first that it is not.  "less" is the set of
\* pairs that are in order.
Inserted(sorted, s, less) ==
    LET stop == {j \in DOMAIN sorted : <<s, sorted[j]>> \notin less}
        last == IF stop = {} THEN 0 ELSE Max(stop)
    IN  InsertAt(sorted, last + 1, s)

InsertionSort(states, less) ==
    FoldLeft(LAMBDA sorted, s : Inserted(sorted, s, less), << >>, states)

Resolved(state, clock) == [State |-> state, VectorClock |-> clock]

\* lastWriterWins
LastWriterWins(states) ==
    LET newer == {p \in Range(states) \X Range(states) :
                     p[1].Timestamp > p[2].Timestamp}
        winner == Head(InsertionSort(states, newer))
    IN  Resolved(winner.State, winner.VectorClock)

\* The clock of the last state wins.
FaultyMergeVectorClocks(states) ==
    [n \in UNION {DOMAIN states[i].VectorClock : i \in DOMAIN states} |->
        LET seen == {i \in DOMAIN states : Has(states[i].VectorClock, n)}
        IN  states[CHOOSE i \in seen : \A j \in seen : j <= i].VectorClock[n]]

\* mergeVectorClocks: the largest number of each node.
MergeVectorClocks(states) ==
    [n \in UNION {DOMAIN states[i].VectorClock : i \in DOMAIN states} |->
        LET numbers == {states[i].VectorClock[n] :
                          i \in {j \in DOMAIN states :
                                    Has(states[j].VectorClock, n)}}
        IN  CHOOSE m \in numbers : \A k \in numbers : k <= m]

\* mergeStrategy
MergeStrategy(states) == Resolved(states[1].State, MergeVectorClocks(states))

\* causalStrategy with sortByCausalOrder
CausalStrategy(states) ==
    LET before == {p \in Range(states) \X Range(states) :
                      HappensBefore(p[1].VectorClock, p[2].VectorClock)}
        winner == Last(InsertionSort(states, before))
    IN  Resolved(winner.State, winner.VectorClock)

\* What ResolveConflict makes of a conflict that is not empty.
\* ReconcileVectorClocks copies the clock of the result.
Resolution(states) ==
    LET type == DetectConflictType(states)
    IN  CASE type = "PartitionDivergence" -> MergeStrategy(states)
          [] type = "CausalViolation"     -> CausalStrategy(states)
          [] OTHER                        -> LastWriterWins(states)
=============================================================================
