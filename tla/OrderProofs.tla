----------------------------- MODULE OrderProofs -----------------------------
(***************************************************************************)
(* Orders that should not matter: those in which replicas receive the      *)
(* states of a conflict, and in which a Go map is iterated to make the     *)
(* accumulator of a state; and one that should, the causal one, which no   *)
(* resolution goes back in.  Also, what a zero-knowledge proof binds.      *)
(*                                                                         *)
(* What FoldLeft and Exp compute is proved by induction over prefixes and  *)
(* subsets (DataTheorems).                                                 *)
(***************************************************************************)
EXTENDS CAPOrchestrator, Crypto, DataTheorems, SequenceTheorems

\* "it" is the function by which InsertionSort is computed.
Sorts(it, states, less) ==
    it = [s \in SUBSET (DOMAIN states) |->
            IF s = {} THEN << >>
            ELSE LET x == Max(s) IN Inserted(it[s \ {x}], states[x], less)]

\* "r" is "sorted" with s after the first "last" elements.
PutAfter(r, sorted, last, s) ==
    /\ Len(r) = Len(sorted) + 1
    /\ \A i \in 1 .. last : r[i] = sorted[i]
    /\ r[last + 1] = s
    /\ \A i \in last + 2 .. Len(sorted) + 1 : r[i] = sorted[i - 1]

\* s stops after the first "last" elements.
StopsAfter(sorted, last, s, less) ==
    /\ last # 0 => <<s, sorted[last]>> \notin less
    /\ \A j \in last + 1 .. Len(sorted) : <<s, sorted[j]>> \in less

\* InsertAt.
LEMMA InsertAfter ==
    ASSUME NEW S, NEW sorted \in Seq(S), NEW s \in S,
           NEW last \in 0 .. Len(sorted)
    PROVE  /\ InsertAt(sorted, last + 1, s) \in Seq(S)
           /\ PutAfter(InsertAt(sorted, last + 1, s), sorted, last, s)
<1> DEFINE n == Len(sorted)
           left == SubSeq(sorted, 1, last)
           right == SubSeq(sorted, last + 1, n)
           one == <<s>>
           r == (left \o one) \o right
<1>1. n \in Nat /\ last \in Nat /\ last <= n
  OBVIOUS
<1>2. /\ left \in Seq(S) /\ Len(left) = last
      /\ \A i \in 1 .. last : left[i] = sorted[i]
  BY <1>1, SubSeqProperties
<1>3. /\ right \in Seq(S) /\ Len(right) = n - last
      /\ \A i \in 1 .. n - last : right[i] = sorted[last + i]
  BY <1>1, SubSeqProperties
<1>4. one \in Seq(S) /\ Len(one) = 1 /\ one[1] = s
  OBVIOUS
<1> HIDE DEF n, left, right, one
<1>5. /\ left \o one \in Seq(S)
      /\ Len(left \o one) = last + 1
      /\ \A i \in 1 .. last : (left \o one)[i] = left[i]
      /\ (left \o one)[last + 1] = s
  <2> DEFINE m == Len(left) + Len(one)
  <2>1. /\ left \o one \in Seq(S)
        /\ Len(left \o one) = m
        /\ \A i \in 1 .. m : (left \o one)[i] = IF i <= Len(left) THEN left[i]
                                                 ELSE one[i - Len(left)]
    BY <1>2, <1>4, ConcatProperties
  <2> QED
    BY <1>1, <1>2, <1>4, <2>1
<1> DEFINE begin == left \o one
<1>6. begin \in Seq(S) /\ Len(begin) = last + 1
  BY <1>5
<1> HIDE DEF begin
<1>7. /\ begin \o right \in Seq(S)
      /\ Len(begin \o right) = n + 1
      /\ \A i \in 1 .. last + 1 : (begin \o right)[i] = begin[i]
      /\ \A i \in last + 2 .. n + 1 :
            (begin \o right)[i] = right[i - (last + 1)]
  <2> DEFINE m == Len(begin) + Len(right)
  <2>1. /\ begin \o right \in Seq(S)
        /\ Len(begin \o right) = m
        /\ \A i \in 1 .. m :
              (begin \o right)[i] = IF i <= Len(begin) THEN begin[i]
                                    ELSE right[i - Len(begin)]
    BY <1>3, <1>6, ConcatProperties
  <2> QED
    BY <1>1, <1>3, <1>6, <2>1
<1>8. r = begin \o right
  BY DEF begin
<1>9. /\ \A i \in 1 .. last : r[i] = sorted[i]
      /\ r[last + 1] = s
  BY <1>1, <1>2, <1>5, <1>7, <1>8 DEF begin
<1>10. \A i \in last + 2 .. n + 1 : r[i] = sorted[i - 1]
  <2> TAKE i \in last + 2 .. n + 1
  <2>1. i - (last + 1) \in 1 .. n - last /\ last + (i - (last + 1)) = i - 1
    BY <1>1
  <2>2. r[i] = right[i - (last + 1)]
    BY <1>7, <1>8
  <2> QED
    BY <1>3, <2>1, <2>2
<1>11. InsertAt(sorted, last + 1, s) = r
  <2>1. (last + 1) - 1 = last
    BY <1>1
  <2> QED
    BY <2>1 DEF InsertAt, n, left, right, one
<1> HIDE DEF r
<1> QED
  BY <1>7, <1>8, <1>9, <1>10, <1>11 DEF PutAfter, n

\* An element is inserted where it stops.
LEMMA InsertedSomewhere ==
    ASSUME NEW S, NEW sorted \in Seq(S), NEW s \in S, NEW less
    PROVE  /\ Inserted(sorted, s, less) \in Seq(S)
           /\ \E last \in 0 .. Len(sorted) :
                 /\ PutAfter(Inserted(sorted, s, less), sorted, last, s)
                 /\ StopsAfter(sorted, last, s, less)
<1> DEFINE n == Len(sorted)
           stop == {j \in DOMAIN sorted : <<s, sorted[j]>> \notin less}
           last == IF stop = {} THEN 0 ELSE Max(stop)
<1>1. n \in Nat /\ DOMAIN sorted = 1 .. n
  OBVIOUS
<1>2. Inserted(sorted, s, less) = InsertAt(sorted, last + 1, s)
  BY DEF Inserted
<1> HIDE DEF n
<1>3. stop \in SUBSET (0 .. n)
  BY <1>1
<1>4. /\ last \in 0 .. n
      /\ last # 0 => last \in stop
      /\ \A j \in stop : j <= last
  <2>1. CASE stop = {}
    BY <1>1, <2>1
  <2>2. CASE stop # {}
    <3> HIDE DEF stop
    <3>1. Max(stop) \in stop /\ \A j \in stop : j <= Max(stop)
      BY <1>1, <1>3, <2>2, LargestNatural
    <3> QED
      BY <1>3, <2>2, <3>1
  <2> QED
    BY <2>1, <2>2
<1> HIDE DEF last
<1>5. \A j \in last + 1 .. n : <<s, sorted[j]>> \in less
  <2> TAKE j \in last + 1 .. n
  <2>1. j \in 1 .. n /\ ~(j <= last)
    BY <1>1, <1>4
  <2> QED
    BY <1>1, <1>4, <2>1
<1>6. last # 0 => <<s, sorted[last]>> \notin less
  BY <1>4
<1>7. StopsAfter(sorted, last, s, less)
  BY <1>5, <1>6 DEF StopsAfter, n
<1>8. last \in 0 .. Len(sorted)
  BY <1>4 DEF n
<1> QED
  BY <1>2, <1>7, <1>8, InsertAfter

\* "sorted" is the beginning of the slice after each insertion.
Insertions(sorted, states, less) ==
    /\ sorted[0] = << >>
    /\ \A i \in 1 .. Len(states) :
          sorted[i] = Inserted(sorted[i - 1], states[i], less)

\* The function by which InsertionSort is computed exists.
LEMMA SortsExists ==
    ASSUME NEW S, NEW states \in Seq(S), NEW less
    PROVE  \E it : Sorts(it, states, less)
<1> DEFINE n == Len(states)
           V == Seq(S)
           step == [p \in (1 .. n) \X V |-> Inserted(p[2], states[p[1]], less)]
<1>1. n \in Nat /\ DOMAIN states = 1 .. n /\ \A i \in 1 .. n : states[i] \in S
  OBVIOUS
<1> HIDE DEF n
<1>2. \A v \in V, x \in S : Inserted(v, x, less) \in V
  BY InsertedSomewhere
<1>3. << >> \in V
  OBVIOUS
<1> HIDE DEF V
<1>4. step \in [(1 .. n) \X V -> V]
  BY <1>1, <1>2
<1>5. \A i \in 1 .. n, v \in V : step[<<i, v>>] = Inserted(v, states[i], less)
  OBVIOUS
<1> HIDE DEF step
<1>6. PICK it \in [SUBSET (1 .. n) -> V] : FoldsLeft(it, n, << >>, step)
  BY <1>1, <1>3, <1>4, LeftIteration
<1>7. ASSUME NEW s \in SUBSET (1 .. n), s # {}
      PROVE  it[s] = Inserted(it[s \ {Max(s)}], states[Max(s)], less)
  <2>1. s \in SUBSET (0 .. n)
    OBVIOUS
  <2>2. Max(s) \in s
    BY <1>1, <1>7, <2>1, LargestNatural
  <2>3. it[s \ {Max(s)}] \in V
    BY <1>6
  <2>4. it[s] = step[<<Max(s), it[s \ {Max(s)}]>>]
    BY <1>6, <1>7 DEF FoldsLeft
  <2> QED
    BY <1>5, <2>2, <2>3, <2>4
<1>8. it[{}] = << >>
  BY <1>6 DEF FoldsLeft
<1>9. Sorts(it, states, less)
  BY <1>1, <1>6, <1>7, <1>8 DEF Sorts
<1> QED
  BY <1>9

\* InsertionSort inserts one state after the other.
LEMMA SortSteps ==
    ASSUME NEW S, NEW states \in Seq(S), NEW less
    PROVE  \E sorted \in [0 .. Len(states) -> Seq(S)] :
              /\ Insertions(sorted, states, less)
              /\ InsertionSort(states, less) = sorted[Len(states)]
<1> DEFINE n == Len(states)
           it == CHOOSE it : Sorts(it, states, less)
           sorted == [i \in 0 .. n |-> it[1 .. i]]
           G == {i \in 0 .. n : sorted[i] \in Seq(S)}
<1>1. n \in Nat /\ DOMAIN states = 1 .. n /\ \A i \in 1 .. n : states[i] \in S
  OBVIOUS
<1>2. InsertionSort(states, less) = it[1 .. n]
  BY <1>1 DEF InsertionSort, FoldLeft, MapThenFoldSet, Sorts
<1>3. Sorts(it, states, less)
  BY SortsExists
<1> HIDE DEF it, n
<1>4. sorted[0] = << >>
  <2>1. it[{}] = << >> /\ 1 .. 0 = {}
    BY <1>3 DEF Sorts
  <2> QED
    BY <1>1, <2>1
<1>5. ASSUME NEW i \in 1 .. n
      PROVE  sorted[i] = Inserted(sorted[i - 1], states[i], less)
  <2>1. i \in Nat /\ i > 0
    BY <1>1
  <2>2. 1 .. i # {} /\ Max(1 .. i) = i /\ (1 .. i) \ {i} = 1 .. i - 1
    BY <2>1, PrefixMax
  <2>3. 1 .. i \in SUBSET (DOMAIN states)
    BY <1>1
  <2>4. it[1 .. i] = Inserted(it[1 .. i - 1], states[i], less)
    BY <1>3, <2>2, <2>3 DEF Sorts
  <2>5. sorted[i] = it[1 .. i] /\ sorted[i - 1] = it[1 .. i - 1]
    BY <1>1
  <2> QED
    BY <2>4, <2>5
<1>6. sorted[n] = it[1 .. n]
  BY <1>1
<1>7. DOMAIN sorted = 0 .. n /\ sorted = [i \in 0 .. n |-> sorted[i]]
  OBVIOUS
<1> HIDE DEF sorted
<1>8. 0 \in G
  <2>1. sorted[0] \in Seq(S)
    BY <1>4
  <2>2. 0 \in 0 .. n
    BY <1>1
  <2> QED
    BY <2>1, <2>2
<1>9. ASSUME NEW i \in 1 .. n, i - 1 \in G
      PROVE  i \in G
  <2>1. sorted[i - 1] \in Seq(S)
    BY <1>9
  <2>2. Inserted(sorted[i - 1], states[i], less) \in Seq(S)
    <3> DEFINE before == sorted[i - 1]
    <3>1. before \in Seq(S) /\ states[i] \in S
      BY <1>1, <2>1
    <3> HIDE DEF before
    <3>2. Inserted(before, states[i], less) \in Seq(S)
      BY <3>1, InsertedSomewhere
    <3> QED
      BY <3>2 DEF before
  <2>3. i \in 0 .. n
    BY <1>1
  <2> QED
    BY <1>5, <2>2, <2>3
<1> HIDE DEF G
<1>10. \A i \in 0 .. n : i \in G
  BY <1>1, <1>8, <1>9, UptoInduction
<1>11. sorted \in [0 .. n -> Seq(S)]
  BY <1>7, <1>10 DEF G
<1>12. Insertions(sorted, states, less)
  BY <1>4, <1>5 DEF Insertions, n
<1> QED
  BY <1>2, <1>6, <1>11, <1>12 DEF n

\* "r" begins with a newest of its elements and of the first i states.
NewestFirst(r, i, states) ==
    /\ r # << >>
    /\ \A j \in DOMAIN r : r[j].Timestamp <= r[1].Timestamp
    /\ \A j \in 1 .. i : states[j].Timestamp <= r[1].Timestamp

\* The pairs that lastWriterWins sorts by.
Newer(states) ==
    {p \in Range(states) \X Range(states) : p[1].Timestamp > p[2].Timestamp}

\* One more state is inserted.
LEMMA NewestInserted ==
    ASSUME NEW states, states \in Seq(Range(states)),
           NEW i \in 1 .. Len(states),
           \A x \in Range(states) : x.Timestamp \in Nat,
           NEW r \in Seq(Range(states)),
           IF i = 1 THEN r = << >> ELSE NewestFirst(r, i - 1, states)
    PROVE  NewestFirst(Inserted(r, states[i], Newer(states)), i, states)
<1> DEFINE S == Range(states)
           s == states[i]
           new == Inserted(r, s, Newer(states))
           n == Len(r)
<1>1. /\ i \in Nat /\ i >= 1 /\ s \in S
      /\ \A j \in 1 .. i : states[j] \in S
  BY DEF Range
<1>2. /\ n \in Nat /\ DOMAIN r = 1 .. n
      /\ \A j \in 1 .. n : r[j] \in S /\ r[j].Timestamp \in Nat
  OBVIOUS
<1>3. \A x \in S : <<s, x>> \in Newer(states) <=> s.Timestamp > x.Timestamp
  BY <1>1 DEF Newer
<1>4. s.Timestamp \in Nat /\ \A j \in 1 .. i : states[j].Timestamp \in Nat
  BY <1>1
<1> HIDE DEF S, s
<1>5. /\ new \in Seq(S)
      /\ \E last \in 0 .. n : /\ PutAfter(new, r, last, s)
                              /\ StopsAfter(r, last, s, Newer(states))
  BY <1>1, InsertedSomewhere DEF S
<1> HIDE DEF new
<1>6. PICK last \in 0 .. n : /\ PutAfter(new, r, last, s)
                             /\ StopsAfter(r, last, s, Newer(states))
  BY <1>5
<1>7. /\ Len(new) = n + 1 /\ DOMAIN new = 1 .. n + 1
      /\ \A j \in 1 .. last : new[j] = r[j]
      /\ new[last + 1] = s
      /\ \A j \in last + 2 .. n + 1 : new[j] = r[j - 1]
  BY <1>5, <1>6 DEF PutAfter, n
<1>8. n = 0 => i = 1
  BY <1>1 DEF NewestFirst, n
<1>9. n > 0 => /\ \A j \in 1 .. n : r[j].Timestamp <= r[1].Timestamp
               /\ \A j \in 1 .. i - 1 : states[j].Timestamp <= r[1].Timestamp
  <2>1. n > 0 => i # 1
    BY <1>2 DEF n
  <2>2. i # 1 => NewestFirst(r, i - 1, states)
    OBVIOUS
  <2>3. NewestFirst(r, i - 1, states) =>
            /\ \A j \in DOMAIN r : r[j].Timestamp <= r[1].Timestamp
            /\ \A j \in 1 .. i - 1 : states[j].Timestamp <= r[1].Timestamp
    BY DEF NewestFirst
  <2> HIDE DEF n
  <2> QED
    BY <1>2, <2>1, <2>2, <2>3
<1> HIDE DEF n
<1>10. \A j \in 1 .. n + 1 : new[j] = s \/ \E k \in 1 .. n : new[j] = r[k]
  <2> TAKE j \in 1 .. n + 1
  <2>1. CASE j <= last
    BY <1>2, <1>7, <2>1
  <2>2. CASE j = last + 1
    BY <1>7, <2>2
  <2>3. CASE j > last + 1
    <3>1. j - 1 \in 1 .. n /\ new[j] = r[j - 1]
      BY <1>2, <1>7, <2>3
    <3> QED
      BY <3>1
  <2> QED
    BY <1>2, <2>1, <2>2, <2>3
<1>11. CASE last = 0
  <2>1. new[1] = s
    BY <1>7, <1>11
  <2>2. \A k \in 1 .. n : r[k].Timestamp < s.Timestamp
    <3> TAKE k \in 1 .. n
    <3>1. k \in last + 1 .. n
      BY <1>11
    <3>2. <<s, r[k]>> \in Newer(states)
      BY <1>6, <3>1 DEF StopsAfter, n
    <3> QED
      BY <1>2, <1>3, <1>4, <3>2
  <2>3. \A j \in 1 .. i : states[j].Timestamp <= s.Timestamp
    <3> TAKE j \in 1 .. i
    <3>1. CASE j = i
      BY <1>4, <3>1 DEF s
    <3>2. CASE j # i
      <4>1. j \in 1 .. i - 1 /\ n > 0 /\ 1 \in 1 .. n
        BY <1>1, <1>2, <1>8, <3>2
      <4>2. /\ states[j].Timestamp <= r[1].Timestamp
            /\ r[1].Timestamp < s.Timestamp
        BY <1>9, <2>2, <4>1
      <4> QED
        BY <1>2, <1>4, <4>1, <4>2
    <3> QED
      BY <3>1, <3>2
  <2>4. \A j \in 1 .. n + 1 : new[j].Timestamp <= s.Timestamp
    <3> TAKE j \in 1 .. n + 1
    <3>1. CASE new[j] = s
      BY <1>4, <3>1
    <3>2. ASSUME NEW k \in 1 .. n, new[j] = r[k]
          PROVE  new[j].Timestamp <= s.Timestamp
      BY <1>2, <1>4, <2>2, <3>2
    <3> QED
      BY <1>10, <3>1, <3>2
  <2>5. new # << >>
    BY <1>2, <1>7
  <2>6. NewestFirst(new, i, states)
    BY <1>7, <2>1, <2>3, <2>4, <2>5 DEF NewestFirst
  <2> QED
    BY <2>6 DEF new, s
<1>12. CASE last # 0
  <2>1. new[1] = r[1] /\ n > 0 /\ last \in 1 .. n /\ 1 \in 1 .. n
    BY <1>2, <1>7, <1>12
  <2>2. s.Timestamp <= r[last].Timestamp
    BY <1>2, <1>3, <1>4, <1>6, <1>12, <2>1 DEF StopsAfter
  <2>3. s.Timestamp <= r[1].Timestamp
    BY <1>2, <1>4, <1>9, <2>1, <2>2
  <2>4. \A j \in 1 .. i : states[j].Timestamp <= r[1].Timestamp
    <3> TAKE j \in 1 .. i
    <3>1. CASE j = i
      BY <2>3, <3>1 DEF s
    <3>2. CASE j # i
      <4>1. j \in 1 .. i - 1
        BY <1>1, <3>2
      <4> QED
        BY <1>9, <2>1, <4>1
    <3> QED
      BY <3>1, <3>2
  <2>5. \A j \in 1 .. n + 1 : new[j].Timestamp <= r[1].Timestamp
    <3> TAKE j \in 1 .. n + 1
    <3>1. CASE new[j] = s
      BY <2>3, <3>1
    <3>2. ASSUME NEW k \in 1 .. n, new[j] = r[k]
          PROVE  new[j].Timestamp <= r[1].Timestamp
      BY <1>9, <2>1, <3>2
    <3> QED
      BY <1>10, <3>1, <3>2
  <2>6. new # << >>
    BY <1>2, <1>7
  <2>7. NewestFirst(new, i, states)
    BY <1>7, <2>1, <2>4, <2>5, <2>6 DEF NewestFirst
  <2> QED
    BY <2>7 DEF new, s
<1> QED
  BY <1>2, <1>11, <1>12

Winner(states) == Head(InsertionSort(states, Newer(states)))

\* lastWriterWins takes a newest state.
LEMMA NewestWins ==
    ASSUME NEW states, states \in Seq(Range(states)), states # << >>,
           \A x \in Range(states) : x.Timestamp \in Nat
    PROVE  /\ Winner(states) \in Range(states)
           /\ \A x \in Range(states) : x.Timestamp <= Winner(states).Timestamp
<1> DEFINE S == Range(states)
           n == Len(states)
           less == Newer(states)
<1>1. n \in Nat /\ n >= 1 /\ S = {states[i] : i \in 1 .. n}
  BY DEF Range
<1>2. \E sorted \in [0 .. n -> Seq(S)] :
        /\ Insertions(sorted, states, less)
        /\ InsertionSort(states, less) = sorted[n]
  <2> HIDE DEF less
  <2> QED
    BY SortSteps
<1> HIDE DEF n
<1>3. PICK sorted \in [0 .. n -> Seq(S)] :
        /\ Insertions(sorted, states, less)
        /\ InsertionSort(states, less) = sorted[n]
  BY <1>2
<1> DEFINE G == {i \in 0 .. n : i # 0 => NewestFirst(sorted[i], i, states)}
<1>4. 0 \in G
  BY <1>1
<1>5. ASSUME NEW i \in 1 .. n, i - 1 \in G
      PROVE  i \in G
  <2> DEFINE r == sorted[i - 1]
  <2>1. i - 1 \in 0 .. n /\ i \in 0 .. n /\ (i = 1 <=> i - 1 = 0)
    BY <1>1
  <2>2. IF i = 1 THEN r = << >> ELSE NewestFirst(r, i - 1, states)
    BY <1>3, <1>5, <2>1 DEF Insertions
  <2>3. sorted[i] = Inserted(r, states[i], less)
    BY <1>3 DEF Insertions, n
  <2>4. r \in Seq(S)
    BY <2>1
  <2> HIDE DEF r
  <2>5. NewestFirst(Inserted(r, states[i], less), i, states)
    BY <2>2, <2>4, NewestInserted DEF n
  <2> QED
    BY <2>1, <2>3, <2>5
<1> HIDE DEF G
<1>6. n \in G
  <2>1. \A i \in 0 .. n : i \in G
    BY <1>1, <1>4, <1>5, UptoInduction
  <2> QED
    BY <1>1, <2>1
<1> DEFINE r == sorted[n]
<1>7. NewestFirst(r, n, states) /\ r \in Seq(S) /\ Winner(states) = Head(r)
  BY <1>1, <1>3, <1>6 DEF G, Winner
<1> HIDE DEF r
<1>8. Head(r) = r[1] /\ r[1] \in S
  BY <1>7 DEF NewestFirst
<1> QED
  BY <1>1, <1>7, <1>8 DEF NewestFirst

\* Every order of the states has the same states.
LEMMA SameStates ==
    ASSUME NEW states, states \in Seq(Range(states)),
           NEW order \in SetToSeqs(Range(states))
    PROVE  order \in Seq(Range(states)) /\ Range(order) = Range(states)
<1> DEFINE S == Range(states)
           n == Cardinality(S)
           D == 1 .. n
<1>1. IsFiniteSet(S)
  <2> DEFINE E == 1 .. Len(states)
  <2>1. states \in Surjection(E, S)
    BY DEF Surjection, Range
  <2>2. IsFiniteSet(E)
    BY FS_Interval
  <2> HIDE DEF E, S
  <2> QED
    BY <2>1, <2>2, FS_Surjection
<1> HIDE DEF S
<1>2. n \in Nat
  BY <1>1, FS_CardinalityType
<1>3. /\ order \in [D -> S]
      /\ \A i, j \in D : i # j => order[i] # order[j]
  BY DEF SetToSeqs, S
<1> HIDE DEF n
<1>4. order \in Seq(S)
  BY <1>2, <1>3
<1>5. IsFiniteSet(D) /\ Cardinality(D) = n
  BY <1>2, FS_Interval
<1>6. order \in Injection(D, S)
  BY <1>3 DEF Injection, IsInjective
<1> HIDE DEF D
<1>7. order \in Surjection(D, S)
  BY <1>1, <1>5, <1>6, FS_Injection DEF n
<1>8. Range(order) = S
  BY <1>3, <1>7 DEF Surjection, Range
<1> QED
  BY <1>4, <1>8 DEF S

\* lastWriterWins returns the newest state.
LEMMA LastWriter ==
    ASSUME NEW states
    PROVE  LastWriterWins(states)
             = Resolved(Winner(states).State, Winner(states).VectorClock)
BY DEF LastWriterWins, Winner, Newer

\* The writes of several nodes are resolved by their times.
LEMMA ConcurrentWrites ==
    ASSUME NEW states, states # << >>, Cardinality(Nodes(states)) > 1
    PROVE  Resolution(states) = LastWriterWins(states)
<1>1. DetectConflictType(states) = "ConcurrentWrite"
  BY DEF DetectConflictType
<1> QED
  BY <1>1 DEF Resolution

\* Two orders of the same states, of which no two have one time, are resolved
\* alike.
LEMMA OrderIrrelevant ==
    ASSUME NEW states, states \in Seq(Range(states)),
           \A x \in Range(states) : x.Timestamp \in Nat,
           Cardinality(Nodes(states)) > 1, TimestampsCausal(states),
           NEW order \in SetToSeqs(Range(states))
    PROVE  Resolution(order) = Resolution(states)
<1>1. order \in Seq(Range(order)) /\ Range(order) = Range(states)
  BY SameStates
<1>2. Nodes(order) = Nodes(states)
  <2>1. \A s : Nodes(s) = {x.NodeID : x \in Range(s)}
    BY DEF Nodes, Range
  <2> QED
    BY <1>1, <2>1
<1>3. states # << >> /\ order # << >>
  <2>1. \A s : s = << >> => Nodes(s) = {}
    BY DEF Nodes
  <2>2. Cardinality({}) = 0
    BY FS_EmptySet
  <2>3. \A s : Cardinality(Nodes(s)) > 1 => Nodes(s) # {}
    <3>1. \A T : T = {} => Cardinality(T) = 0
      BY <2>2
    <3>2. ~ (0 > 1)
      OBVIOUS
    <3> QED
      BY <3>1, <3>2, Zenon
  <2>4. Nodes(states) # {}
    BY <2>3, Zenon
  <2> QED
    BY <1>2, <2>1, <2>4, Zenon
<1>4. /\ Winner(states) \in Range(states)
      /\ \A x \in Range(states) : x.Timestamp <= Winner(states).Timestamp
  BY <1>3, NewestWins
<1>5. /\ Winner(order) \in Range(states)
      /\ \A x \in Range(states) : x.Timestamp <= Winner(order).Timestamp
  BY <1>1, <1>3, NewestWins
<1>6. Winner(order) = Winner(states)
  <2> DEFINE a == Winner(order)
             b == Winner(states)
  <2>1. a.Timestamp \in Nat /\ b.Timestamp \in Nat
    BY <1>4, <1>5
  <2>2. a.Timestamp = b.Timestamp
    <3>1. a.Timestamp <= b.Timestamp /\ b.Timestamp <= a.Timestamp
      BY <1>4, <1>5
    <3> HIDE DEF a, b
    <3> QED
      BY <2>1, <3>1
  <2>3. PICK i, j \in DOMAIN states : a = states[i] /\ b = states[j]
    BY <1>4, <1>5 DEF Range
  <2> HIDE DEF a, b
  <2>4. i = j
    BY <2>2, <2>3 DEF TimestampsCausal
  <2> QED
    BY <2>3, <2>4 DEF a, b
<1>7. /\ Resolution(order) = LastWriterWins(order)
      /\ Resolution(states) = LastWriterWins(states)
  BY <1>2, <1>3, ConcurrentWrites
<1> QED
  BY <1>6, <1>7, LastWriter

\* The conflict is one that can be submitted.
ConflictInv == conflict = << >> \/ conflict \in Conflict

\* No step leaves those.
LEMMA ConflictNext == ConflictInv /\ [Next]_vars => ConflictInv'
BY DEF ConflictInv, Next, vars, profile, network, UpdateNetworkMetrics,
       OptimizeConsistencyLevel, DetectPartitions, HandlePartitions,
       ResolveConflict, ReturnResolved, NetworkChanges

\* What there is in a conflict.
LEMMA ConflictStates ==
    ASSUME ConflictInv
    PROVE  /\ conflict \in Seq(Range(conflict))
           /\ Len(conflict) \in 0 .. 4
           /\ \A i \in DOMAIN conflict : ConflictingState(conflict[i])
<1>1. CASE conflict = << >>
  BY <1>1
<1>2. CASE conflict \in Conflict
  <2>1. /\ conflict \in Seq(Range(conflict))
        /\ Len(conflict) <= 4
        /\ \A i \in DOMAIN conflict : ConflictingState(conflict[i])
    BY <1>2, CAPAssumption
  <2>2. Len(conflict) \in Nat
    BY <2>1, LenProperties
  <2>3. \A n \in Nat : n <= 4 => n \in 0 .. 4
    OBVIOUS
  <2> QED
    BY <2>1, <2>2, <2>3, Zenon
<1> QED
  BY <1>1, <1>2 DEF ConflictInv

\* ResolveConflict agrees on them.
LEMMA InvAgree == ConflictInv => ReplicasAgree
<1> SUFFICES ASSUME ConflictInv, Cardinality(Nodes(conflict)) > 1,
                    TimestampsCausal(conflict),
                    NEW order \in SetToSeqs(Range(conflict))
             PROVE  Resolution(order) = Resolution(conflict)
  BY DEF ReplicasAgree
<1>1. conflict \in Seq(Range(conflict))
  BY ConflictStates
<1>2. \A x \in Range(conflict) : x.Timestamp \in Nat
  BY ConflictStates DEF Range, ConflictingState
<1> QED
  BY <1>1, <1>2, OrderIrrelevant

\* Replicas that receive the writes of several nodes in any order agree, if no
\* two have the same time: ResolveConflict takes the newest.
THEOREM ReplicasAgreeAlways == Spec => []ReplicasAgree
<1>1. Init => ConflictInv
  BY DEF Init, ConflictInv
<1> QED
  BY <1>1, ConflictNext, InvAgree, PTL DEF Spec

\* Finitely many numbers have an upper bound.
LEMMA UpperBound ==
    ASSUME NEW n \in Nat, NEW f \in [1 .. n -> Nat]
    PROVE  \E b \in Nat : \A i \in 1 .. n : f[i] <= b
<1> DEFINE G == {k \in 0 .. n : \E b \in Nat : \A i \in 1 .. k : f[i] <= b}
<1>1. 0 \in G
  <2>1. \A i \in 1 .. 0 : f[i] <= 0
    OBVIOUS
  <2> QED
    BY <2>1
<1>2. ASSUME NEW k \in 1 .. n, k - 1 \in G
      PROVE  k \in G
  <2>1. PICK b \in Nat : \A i \in 1 .. k - 1 : f[i] <= b
    BY <1>2
  <2> DEFINE c == IF f[k] > b THEN f[k] ELSE b
  <2>2. f[k] \in Nat /\ c \in Nat /\ f[k] <= c /\ b <= c
    OBVIOUS
  <2> HIDE DEF c
  <2>3. \A i \in 1 .. k : f[i] <= c
    <3> TAKE i \in 1 .. k
    <3>1. CASE i = k
      BY <2>2, <3>1
    <3>2. CASE i # k
      <4>1. i \in 1 .. k - 1 /\ f[i] \in Nat
        BY <3>2
      <4>2. f[i] <= b
        BY <2>1, <4>1
      <4> QED
        BY <2>2, <4>1, <4>2
    <3> QED
      BY <3>1, <3>2
  <2> QED
    BY <2>2, <2>3
<1>3. \A k \in 0 .. n : k \in G
  <2> HIDE DEF G
  <2> QED
    BY <1>1, <1>2, UptoInduction
<1> HIDE DEF G
<1>4. n \in G
  <2>1. n \in 0 .. n
    OBVIOUS
  <2> QED
    BY <1>3, <2>1
<1> QED
  BY <1>4 DEF G

\* The clocks of states.
Clocked(states) ==
    \A i \in DOMAIN states : \A n \in DOMAIN states[i].VectorClock :
        states[i].VectorClock[n] \in Nat

\* The merged clock is nowhere behind that of a state.
LEMMA MergedClock ==
    ASSUME NEW S, NEW states \in Seq(S), Clocked(states),
           NEW i \in DOMAIN states, NEW n \in DOMAIN states[i].VectorClock
    PROVE  /\ n \in DOMAIN MergeVectorClocks(states)
           /\ MergeVectorClocks(states)[n] \in Nat
           /\ MergeVectorClocks(states)[n] >= states[i].VectorClock[n]
<1> DEFINE clock(k) == states[k].VectorClock
           seen == {j \in DOMAIN states : Has(clock(j), n)}
           numbers == {clock(k)[n] : k \in seen}
           f == [k \in 1 .. Len(states) |->
                   IF k \in seen THEN clock(k)[n] ELSE 0]
<1>1. Len(states) \in Nat /\ DOMAIN states = 1 .. Len(states)
  OBVIOUS
<1>2. \A k \in seen : clock(k)[n] \in Nat
  BY DEF Clocked, Has
<1>3. f \in [1 .. Len(states) -> Nat]
  BY <1>2
<1>4. PICK b \in Nat : \A k \in 1 .. Len(states) : f[k] <= b
  <2> HIDE DEF f
  <2> QED
    BY <1>1, <1>3, UpperBound
<1>5. \A k \in seen : clock(k)[n] <= b
  BY <1>1, <1>4
<1>6. numbers \in SUBSET (0 .. b)
  BY <1>2, <1>5
<1>7. i \in seen /\ clock(i)[n] \in numbers
  BY DEF Has
<1>8. \E m \in numbers : \A k \in numbers : k <= m
  <2> HIDE DEF numbers
  <2> QED
    BY <1>6, <1>7, LargestNatural
<1> DEFINE largest == CHOOSE m \in numbers : \A k \in numbers : k <= m
<1>9. largest \in numbers /\ \A k \in numbers : k <= largest
  <2> HIDE DEF numbers
  <2> QED
    BY <1>8
<1>10. /\ n \in DOMAIN MergeVectorClocks(states)
       /\ MergeVectorClocks(states)[n] = largest
  BY DEF MergeVectorClocks
<1> HIDE DEF largest
<1>11. clock(i)[n] <= largest /\ largest \in Nat /\ clock(i)[n] \in Nat
  BY <1>6, <1>7, <1>9
<1> QED
  BY <1>10, <1>11

\* Nothing happens before what happens before it.
LEMMA HappensBeforeOrder ==
    ASSUME NEW c, \A n \in DOMAIN c : c[n] \in Nat,
           NEW d, \A n \in DOMAIN d : d[n] \in Nat
    PROVE  /\ ~HappensBefore(c, c)
           /\ HappensBefore(c, d) => ~HappensBefore(d, c)
<1>1. ~HappensBefore(c, c)
  BY DEF HappensBefore
<1>2. ASSUME HappensBefore(c, d), HappensBefore(d, c) PROVE FALSE
  <2>1. PICK n \in DOMAIN c : c[n] < d[n]
    BY <1>2 DEF HappensBefore
  <2>2. n \in DOMAIN d /\ d[n] <= c[n]
    BY <1>2, <2>1 DEF HappensBefore, Has
  <2>3. c[n] \in Nat /\ d[n] \in Nat
    BY <2>2
  <2> QED
    BY <2>1, <2>2, <2>3
<1> QED
  BY <1>1, <1>2

\* Of two states causalStrategy takes one that does not happen before the
\* other.
LEMMA LaterOfTwo ==
    ASSUME NEW S, NEW states \in Seq(S), Len(states) = 2, Clocked(states)
    PROVE  \A i \in DOMAIN states :
              ~HappensBefore(CausalStrategy(states).VectorClock,
                             states[i].VectorClock)
<1> DEFINE before == {p \in Range(states) \X Range(states) :
                         HappensBefore(p[1].VectorClock, p[2].VectorClock)}
           s1 == states[1]
           s2 == states[2]
           sort == InsertionSort(states, before)
<1>1. CausalStrategy(states)
        = Resolved(Last(sort).State, Last(sort).VectorClock)
  BY DEF CausalStrategy
<1>2. DOMAIN states = {1, 2} /\ s1 \in S /\ s2 \in S
  OBVIOUS
<1>3. <<s2, s1>> \in before <=> HappensBefore(s2.VectorClock, s1.VectorClock)
  BY <1>2 DEF Range
<1>4. /\ ~HappensBefore(s1.VectorClock, s1.VectorClock)
      /\ ~HappensBefore(s2.VectorClock, s2.VectorClock)
      /\ HappensBefore(s2.VectorClock, s1.VectorClock) =>
            ~HappensBefore(s1.VectorClock, s2.VectorClock)
  BY <1>2, HappensBeforeOrder DEF Clocked
<1> HIDE DEF before
<1>5. PICK sorted \in [0 .. 2 -> Seq(S)] :
        /\ sorted[0] = << >>
        /\ sorted[1] = Inserted(sorted[0], s1, before)
        /\ sorted[2] = Inserted(sorted[1], s2, before)
        /\ sort = sorted[2]
  <2>1. PICK sorted \in [0 .. Len(states) -> Seq(S)] :
          Insertions(sorted, states, before) /\ sort = sorted[Len(states)]
    BY SortSteps
  <2> QED
    BY <2>1 DEF Insertions
<1>6. Len(sorted[1]) = 1 /\ sorted[1][1] = s1 /\ sorted[1] \in Seq(S)
  <2>1. PICK last \in 0 .. Len(sorted[0]) :
          PutAfter(sorted[1], sorted[0], last, s1)
    BY <1>2, <1>5, InsertedSomewhere
  <2> QED
    BY <1>5, <2>1 DEF PutAfter
<1>7. PICK last \in 0 .. Len(sorted[1]) :
        /\ PutAfter(sorted[2], sorted[1], last, s2)
        /\ StopsAfter(sorted[1], last, s2, before)
  BY <1>2, <1>5, <1>6, InsertedSomewhere
<1>8. Len(sorted[2]) = 2
  BY <1>6, <1>7 DEF PutAfter
<1>9. Last(sort) = sorted[2][2]
  BY <1>5, <1>8 DEF Last
<1> HIDE DEF s1, s2, sort
<1>10. CASE last = 0
  <2> DEFINE one == sorted[1]
             two == sorted[2]
  <2>1. /\ Len(one) = 1 /\ one[1] = s1 /\ 2 \in 0 + 2 .. Len(one) + 1
        /\ 1 \in 0 + 1 .. Len(one)
    BY <1>6
  <2>2. PutAfter(two, one, 0, s2) /\ StopsAfter(one, 0, s2, before)
    BY <1>7, <1>10
  <2> HIDE DEF one, two
  <2>3. two[2] = one[2 - 1]
    BY <2>1, <2>2 DEF PutAfter
  <2>4. <<s2, one[1]>> \in before
    BY <2>1, <2>2 DEF StopsAfter
  <2>5. sorted[2][2] = s1 /\ <<s2, s1>> \in before
    BY <2>1, <2>3, <2>4 DEF two
  <2> QED
    BY <1>1, <1>2, <1>3, <1>4, <1>9, <2>5 DEF Resolved, s1, s2
<1>11. CASE last = 1
  <2> DEFINE one == sorted[1]
             two == sorted[2]
  <2>1. one[1] = s1
    BY <1>6
  <2>2. PutAfter(two, one, 1, s2) /\ StopsAfter(one, 1, s2, before)
    BY <1>7, <1>11
  <2> HIDE DEF one, two
  <2>3. two[1 + 1] = s2
    BY <2>2 DEF PutAfter
  <2>4. <<s2, one[1]>> \notin before
    BY <2>2 DEF StopsAfter
  <2>5. sorted[2][2] = s2 /\ <<s2, s1>> \notin before
    BY <2>1, <2>3, <2>4 DEF two
  <2> QED
    BY <1>1, <1>2, <1>3, <1>4, <1>9, <2>5 DEF Resolved, s1, s2
<1> QED
  BY <1>6, <1>10, <1>11

\* A newest state does not happen before another, if timestamps fit the clocks.
LEMMA NewestNotBefore ==
    ASSUME NEW states, TimestampsCausal(states), NEW w \in Range(states),
           \A x \in Range(states) : x.Timestamp \in Nat,
           \A x \in Range(states) : x.Timestamp <= w.Timestamp,
           NEW i \in DOMAIN states
    PROVE  ~HappensBefore(w.VectorClock, states[i].VectorClock)
<1>1. PICK k \in DOMAIN states : w = states[k]
  BY DEF Range
<1>2. states[i] \in Range(states)
  BY DEF Range
<1>3. /\ states[i].Timestamp \in Nat /\ w.Timestamp \in Nat
      /\ states[i].Timestamp <= w.Timestamp
  BY <1>2
<1>4. HappensBefore(w.VectorClock, states[i].VectorClock)
        => w.Timestamp < states[i].Timestamp
  BY <1>1 DEF TimestampsCausal
<1> QED
  BY <1>3, <1>4

\* A clock that is nowhere behind another does not happen before it.
LEMMA NotBehind ==
    ASSUME NEW c, NEW d,
           \A n \in DOMAIN d : d[n] \in Nat,
           \A n \in DOMAIN d : n \in DOMAIN c /\ c[n] \in Nat /\ c[n] >= d[n]
    PROVE  ~HappensBefore(c, d)
<1> SUFFICES ASSUME HappensBefore(c, d) PROVE FALSE
  OBVIOUS
<1>1. PICK n \in DOMAIN c : c[n] < d[n]
  BY DEF HappensBefore
<1>2. n \in DOMAIN d
  BY DEF HappensBefore, Has
<1> QED
  BY <1>1, <1>2

\* A causal violation takes two states.
LEMMA ViolationOfTwo ==
    ASSUME NEW S, NEW states \in Seq(S), Len(states) <= 2,
           DetectConflictType(states) = "CausalViolation"
    PROVE  Len(states) = 2
<1>1. HasCausalViolation(states)
  BY DEF DetectConflictType
<1>2. PICK i, j \in DOMAIN states : i < j
  BY <1>1 DEF HasCausalViolation
<1>3. Len(states) \in Nat /\ DOMAIN states = 1 .. Len(states)
  OBVIOUS
<1>4. i \in Nat /\ j \in Nat /\ 1 <= i /\ j <= Len(states)
  BY <1>2, <1>3
<1> QED
  BY <1>2, <1>3, <1>4

\* ResolveConflict is not behind any state of them.
LEMMA InvNoRegress == ConflictInv => NoCausalRegress
<1> SUFFICES ASSUME ConflictInv, conflict # << >>, TimestampsCausal(conflict),
                    DetectConflictType(conflict) = "CausalViolation"
                        => Len(conflict) <= 2,
                    NEW i \in DOMAIN conflict
             PROVE  ~HappensBefore(Resolution(conflict).VectorClock,
                                   conflict[i].VectorClock)
  BY DEF NoCausalRegress
<1> DEFINE S == Range(conflict)
           clock == conflict[i].VectorClock
           type == DetectConflictType(conflict)
<1>1. /\ conflict \in Seq(S)
      /\ \A j \in DOMAIN conflict : ConflictingState(conflict[j])
  BY ConflictStates
<1>2. Clocked(conflict)
  BY <1>1 DEF Clocked, ConflictingState
<1>3. \A x \in S : x.Timestamp \in Nat
  BY <1>1 DEF Range, ConflictingState
<1>4. CASE type = "PartitionDivergence"
  <2> DEFINE merged == MergeVectorClocks(conflict)
  <2>1. Resolution(conflict).VectorClock = merged
    BY <1>4 DEF Resolution, MergeStrategy, Resolved
  <2>2. \A n \in DOMAIN clock : /\ n \in DOMAIN merged /\ merged[n] \in Nat
                                /\ merged[n] >= clock[n]
    <3> HIDE DEF S
    <3> QED
      BY <1>1, <1>2, MergedClock
  <2>3. \A n \in DOMAIN clock : clock[n] \in Nat
    BY <1>2 DEF Clocked
  <2> HIDE DEF merged, clock
  <2>4. ~HappensBefore(merged, clock)
    BY <2>2, <2>3, NotBehind
  <2> QED
    BY <2>1, <2>4 DEF clock
<1>5. CASE type = "CausalViolation"
  <2>1. Resolution(conflict) = CausalStrategy(conflict)
    BY <1>5 DEF Resolution
  <2>2. Len(conflict) = 2
    <3> HIDE DEF S
    <3> QED
      BY <1>1, <1>5, ViolationOfTwo
  <2>3. ~HappensBefore(CausalStrategy(conflict).VectorClock, clock)
    <3> HIDE DEF S
    <3> QED
      BY <1>1, <1>2, <2>2, LaterOfTwo
  <2> QED
    BY <2>1, <2>3
<1>6. CASE type # "PartitionDivergence" /\ type # "CausalViolation"
  <2> DEFINE w == Winner(conflict)
  <2>1. Resolution(conflict) = LastWriterWins(conflict)
    BY <1>6 DEF Resolution
  <2>2. Resolution(conflict).VectorClock = w.VectorClock
    BY <2>1, LastWriter DEF Resolved
  <2>3. w \in S /\ \A x \in S : x.Timestamp <= w.Timestamp
    BY <1>1, <1>3, NewestWins
  <2> HIDE DEF w
  <2>4. ~HappensBefore(w.VectorClock, clock)
    BY <1>3, <2>3, NewestNotBefore
  <2> QED
    BY <2>2, <2>4
<1> QED
  BY <1>4, <1>5, <1>6

\* Resolution never takes a replica back in causal time: neither the newest
\* state, nor the merged clock, nor the second of two states in causal order
\* happens before a state of the conflict.
THEOREM NoRegress == Spec => []NoCausalRegress
<1>1. Init => ConflictInv
  BY DEF Init, ConflictInv
<1> QED
  BY <1>1, ConflictNext, InvNoRegress, PTL DEF Spec
-----------------------------------------------------------------------------
(* Exp: the powers modulo m.                                               *)
\* p computes the powers of b up to the n-th, as Exp does.
Powers(p, b, n, m) ==
    p = [i \in 0 .. n |-> IF i = 0 THEN 1 ELSE (b * p[i - 1]) % m]

\* There is such a sequence, of natural numbers.
LEMMA PowersExist ==
    ASSUME NEW b \in Nat, NEW n \in Nat, NEW m \in Nat \ {0}
    PROVE  \E p : Powers(p, b, n, m) /\ \A i \in 0 .. n : p[i] \in Nat
<1> DEFINE step == [q \in (1 .. n) \X Nat |-> (b * q[2]) % m]
<1>1. \A v \in Nat : (b * v) % m \in Nat
  <2> TAKE v \in Nat
  <2>1. b * v \in Nat
    OBVIOUS
  <2> QED
    BY <2>1
<1>2. step \in [(1 .. n) \X Nat -> Nat] /\ 1 \in Nat
  BY <1>1
<1>3. \A i \in 1 .. n, v \in Nat : step[<<i, v>>] = (b * v) % m
  OBVIOUS
<1> HIDE DEF step
<1>4. PICK it \in [SUBSET (1 .. n) -> Nat] : FoldsLeft(it, n, 1, step)
  BY <1>2, LeftIteration
<1> DEFINE p == [i \in 0 .. n |-> it[1 .. i]]
<1>5. p[0] = 1
  <2>1. 1 .. 0 = {}
    OBVIOUS
  <2>2. it[{}] = 1
    BY <1>4 DEF FoldsLeft
  <2> QED
    BY <2>1, <2>2
<1>6. ASSUME NEW i \in 1 .. n
      PROVE  p[i] = (b * p[i - 1]) % m
  <2>1. /\ i \in Nat /\ i > 0 /\ i - 1 \in 0 .. n
        /\ 1 .. i - 1 \in SUBSET (1 .. n)
    OBVIOUS
  <2>2. 1 .. i # {} /\ Max(1 .. i) = i /\ (1 .. i) \ {i} = 1 .. i - 1
    BY <2>1, PrefixMax
  <2>3. it[1 .. i] = step[<<i, it[1 .. i - 1]>>]
    BY <1>4, <2>1, <2>2 DEF FoldsLeft
  <2>4. it[1 .. i - 1] \in Nat
    BY <2>1
  <2>5. it[1 .. i] = (b * it[1 .. i - 1]) % m
    BY <1>3, <2>3, <2>4
  <2>6. p[i] = it[1 .. i] /\ p[i - 1] = it[1 .. i - 1]
    BY <2>1
  <2> QED
    BY <2>5, <2>6
<1>7. \A i \in 0 .. n : p[i] \in Nat
  BY <1>4
<1>8. DOMAIN p = 0 .. n /\ p = [i \in 0 .. n |-> p[i]]
  OBVIOUS
<1> HIDE DEF p
<1>9. ASSUME NEW i \in 0 .. n
      PROVE  p[i] = IF i = 0 THEN 1 ELSE (b * p[i - 1]) % m
  <2>1. CASE i = 0
    BY <1>5, <2>1
  <2>2. CASE i # 0
    <3>1. i \in 1 .. n
      BY <2>2
    <3> QED
      BY <1>6, <2>2, <3>1
  <2> QED
    BY <2>1, <2>2
<1>10. Powers(p, b, n, m)
  BY <1>8, <1>9, Zenon DEF Powers
<1> QED
  BY <1>7, <1>10

\* There is one sequence of powers.
LEMMA PowersUnique ==
    ASSUME NEW b, NEW m, NEW n \in Nat, NEW k \in Nat, NEW p, NEW q,
           Powers(p, b, n, m), Powers(q, b, k, m)
    PROVE  \A i \in 0 .. n : i <= k => p[i] = q[i]
<1> DEFINE G == {i \in 0 .. n : i <= k => p[i] = q[i]}
<1>1. 0 \in G
  BY DEF Powers
<1>2. ASSUME NEW i \in 1 .. n, i - 1 \in G
      PROVE  i \in G
  <2>1. CASE i <= k
    <3>1. p[i - 1] = q[i - 1]
      BY <1>2, <2>1
    <3>2. p[i] = (b * p[i - 1]) % m /\ q[i] = (b * q[i - 1]) % m
      BY <2>1 DEF Powers
    <3> QED
      BY <3>1, <3>2
  <2>2. CASE ~(i <= k)
    BY <2>2
  <2> QED
    BY <2>1, <2>2
<1> HIDE DEF G
<1>3. \A i \in 0 .. n : i \in G
  BY <1>1, <1>2, UptoInduction
<1> QED
  BY <1>3 DEF G

\* What Exp computes.
LEMMA ExpPowers ==
    ASSUME NEW b \in Nat, NEW n \in Nat, NEW m \in Nat \ {0}
    PROVE  \E p : /\ Powers(p, b, n, m)
                  /\ Exp(b, n, m) = p[n]
                  /\ p[n] \in Nat
<1> DEFINE p == CHOOSE p : Powers(p, b, n, m)
<1>1. Exp(b, n, m) = p[n]
  BY DEF Exp, Powers
<1>2. PICK q : Powers(q, b, n, m) /\ \A i \in 0 .. n : q[i] \in Nat
  BY PowersExist
<1>3. Powers(p, b, n, m)
  BY <1>2
<1> HIDE DEF p
<1>4. n \in 0 .. n /\ n <= n
  OBVIOUS
<1>5. p[n] = q[n]
  BY <1>2, <1>3, <1>4, PowersUnique
<1> QED
  BY <1>1, <1>2, <1>3, <1>4, <1>5

\* Exp, one multiplication after the other.
LEMMA ExpSteps ==
    ASSUME NEW b \in Nat, NEW m \in Nat \ {0}
    PROVE  /\ Exp(b, 0, m) = 1
           /\ \A n \in Nat :
                 /\ Exp(b, n, m) \in Nat
                 /\ Exp(b, n + 1, m) = (b * Exp(b, n, m)) % m
<1>0. \A n \in Nat : \E p : /\ Powers(p, b, n, m)
                             /\ Exp(b, n, m) = p[n]
                             /\ p[n] \in Nat
  BY ExpPowers
<1>1. Exp(b, 0, m) = 1
  <2>1. PICK p : Powers(p, b, 0, m) /\ Exp(b, 0, m) = p[0]
    BY <1>0
  <2> QED
    BY <2>1 DEF Powers
<1>2. ASSUME NEW n \in Nat
      PROVE  /\ Exp(b, n, m) \in Nat
             /\ Exp(b, n + 1, m) = (b * Exp(b, n, m)) % m
  <2>1. /\ n + 1 \in Nat /\ n \in 0 .. n /\ n <= n + 1 /\ (n + 1) - 1 = n
        /\ n + 1 \in 0 .. n + 1
    OBVIOUS
  <2>2. PICK p : Powers(p, b, n, m) /\ Exp(b, n, m) = p[n] /\ p[n] \in Nat
    BY <1>0
  <2>3. PICK q : Powers(q, b, n + 1, m) /\ Exp(b, n + 1, m) = q[n + 1]
    BY <1>0, <2>1
  <2>4. p[n] = q[n]
    BY <2>1, <2>2, <2>3, PowersUnique
  <2>5. q[n + 1] = (b * q[n]) % m
    BY <2>1, <2>3 DEF Powers
  <2> QED
    BY <2>2, <2>3, <2>4, <2>5
<1> QED
  BY <1>1, <1>2

\* A factor may be reduced first.
LEMMA ReduceFactor ==
    ASSUME NEW x \in Nat, NEW y \in Nat
    PROVE  (x * (y % 257)) % 257 = (x * y) % 257
<1> DEFINE q == y \div 257
           r == y % 257
<1>1. q \in Nat /\ r \in Nat /\ y = 257 * q + r
  OBVIOUS
<1>2. x * q \in Nat /\ x * r \in Nat
  BY <1>1
<1> HIDE DEF q, r
<1>3. x * y = 257 * (x * q) + x * r
  BY <1>1
<1>4. \A k, a \in Nat : (257 * k + a) % 257 = a % 257
  OBVIOUS
<1>5. (257 * (x * q) + x * r) % 257 = (x * r) % 257
  BY <1>2, <1>4
<1> QED
  BY <1>3, <1>5 DEF r

\* The power in the accumulator.
Power(b, n) == Exp(b, n, 257)

\* One multiplication after the other.
LEMMA PowerSteps ==
    ASSUME NEW b \in Nat
    PROVE  /\ Power(b, 0) = 1
           /\ \A n \in Nat : /\ Power(b, n) \in Nat
                             /\ Power(b, n + 1) = (b * Power(b, n)) % 257
<1>1. \A m \in Nat \ {0} :
         /\ Exp(b, 0, m) = 1
         /\ \A n \in Nat : /\ Exp(b, n, m) \in Nat
                           /\ Exp(b, n + 1, m) = (b * Exp(b, n, m)) % m
  BY ExpSteps
<1>2. 257 \in Nat \ {0}
  OBVIOUS
<1>3. /\ Exp(b, 0, 257) = 1
      /\ \A n \in Nat : /\ Exp(b, n, 257) \in Nat
                        /\ Exp(b, n + 1, 257) = (b * Exp(b, n, 257)) % 257
  BY <1>1, <1>2
<1> QED
  BY <1>3 DEF Power

\* The power of a product is the product of the powers.
LEMMA PowerOfProduct ==
    ASSUME NEW b \in Nat, NEW c \in Nat, NEW n \in Nat
    PROVE  Power((b * c) % 257, n) = (Power(b, n) * Power(c, n)) % 257
<1> DEFINE d == (b * c) % 257
           G == {i \in 0 .. n :
                   Power(d, i) = (Power(b, i) * Power(c, i)) % 257}
<1>0. b * c \in Nat
  OBVIOUS
<1>1. d \in Nat
  BY <1>0
<1>2. 0 \in G
  <2>1. Power(d, 0) = 1
    <3> HIDE DEF d
    <3> QED
      BY <1>1, PowerSteps
  <2>2. Power(b, 0) = 1 /\ Power(c, 0) = 1
    BY PowerSteps
  <2> QED
    BY <2>1, <2>2
<1>3. ASSUME NEW i \in 1 .. n, i - 1 \in G
      PROVE  i \in G
  <2> DEFINE k == i - 1
             u == Power(b, k)
             v == Power(c, k)
  <2>1. k \in Nat /\ i = k + 1
    OBVIOUS
  <2>2. Power(d, k) = (u * v) % 257
    BY <1>3
  <2> HIDE DEF d, k
  <2>3. /\ Power(d, i) = (d * Power(d, k)) % 257
        /\ u \in Nat /\ Power(b, i) = (b * u) % 257
        /\ v \in Nat /\ Power(c, i) = (c * v) % 257
    <3>1. \A x \in Nat : /\ Power(x, k) \in Nat
                         /\ Power(x, k + 1) = (x * Power(x, k)) % 257
      BY <2>1, PowerSteps
    <3> QED
      BY <1>1, <2>1, <3>1
  <2> HIDE DEF u, v
  <2>4. /\ u * v \in Nat /\ b * u \in Nat /\ c * v \in Nat
        /\ (b * u) * (c * v) = (b * c) * (u * v)
    BY <2>3
  <2>5. (d * ((u * v) % 257)) % 257 = (d * (u * v)) % 257
    BY <1>1, <2>4, ReduceFactor
  <2>6. (d * (u * v)) % 257 = ((u * v) * (b * c)) % 257
    <3>1. ((u * v) * ((b * c) % 257)) % 257 = ((u * v) * (b * c)) % 257
      BY <1>0, <2>4, ReduceFactor
    <3>2. d * (u * v) = (u * v) * d
      BY <1>1, <2>4
    <3> QED
      BY <3>1, <3>2 DEF d
  <2>7. (((b * u) % 257) * ((c * v) % 257)) % 257 = ((b * u) * (c * v)) % 257
    <3> DEFINE x == b * u
               y == c * v
               x1 == x % 257
    <3>1. x \in Nat /\ y \in Nat /\ x1 \in Nat
      BY <2>4
    <3>2. (x1 * (y % 257)) % 257 = (x1 * y) % 257
      <4> HIDE DEF x, y, x1
      <4> QED
        BY <3>1, ReduceFactor
    <3>3. (y * (x % 257)) % 257 = (y * x) % 257
      <4> HIDE DEF x, y, x1
      <4> QED
        BY <3>1, ReduceFactor
    <3> HIDE DEF x, y
    <3>4. x1 * y = y * x1 /\ y * x = x * y
      BY <3>1
    <3>5. (x1 * (y % 257)) % 257 = (x * y) % 257
      BY <3>2, <3>3, <3>4
    <3> QED
      BY <3>5 DEF x, y, x1
  <2>8. (u * v) * (b * c) = (b * c) * (u * v)
    BY <1>0, <2>4
  <2>9. Power(d, i) = (Power(b, i) * Power(c, i)) % 257
    BY <2>2, <2>3, <2>4, <2>5, <2>6, <2>7, <2>8
  <2>10. i \in 0 .. n
    OBVIOUS
  <2> QED
    BY <2>9, <2>10
<1> HIDE DEF G
<1>4. \A i \in 0 .. n : i \in G
  BY <1>2, <1>3, UptoInduction
<1>5. n \in G
  BY <1>4
<1> QED
  BY <1>5 DEF G

\* Which of two exponents comes first does not matter.
LEMMA PowersCommute ==
    ASSUME NEW b \in Nat, NEW m \in Nat, NEW n \in Nat
    PROVE  Power(Power(b, m), n) = Power(Power(b, n), m)
<1> DEFINE G == {i \in 0 .. m : Power(Power(b, i), n) = Power(Power(b, n), i)}
           a == Power(b, n)
<1>0. a \in Nat
  BY PowerSteps
<1> HIDE DEF a
<1>1. Power(1, n) = 1
  <2> DEFINE H == {i \in 0 .. n : Power(1, i) = 1}
  <2>1. 0 \in H
    BY PowerSteps
  <2>2. ASSUME NEW i \in 1 .. n, i - 1 \in H
        PROVE  i \in H
    <3>1. i - 1 \in Nat /\ (i - 1) + 1 = i /\ Power(1, i - 1) = 1 /\ 1 \in Nat
      BY <2>2
    <3>2. Power(1, (i - 1) + 1) = (1 * Power(1, i - 1)) % 257
      BY <3>1, PowerSteps
    <3> QED
      BY <3>1, <3>2
  <2> HIDE DEF H
  <2>3. \A i \in 0 .. n : i \in H
    BY <2>1, <2>2, UptoInduction
  <2>4. n \in H
    BY <2>3
  <2> QED
    BY <2>4 DEF H
<1>2. 0 \in G
  <2>1. Power(b, 0) = 1 /\ Power(a, 0) = 1
    BY <1>0, PowerSteps
  <2> QED
    BY <1>1, <2>1 DEF a
<1>3. ASSUME NEW i \in 1 .. m, i - 1 \in G
      PROVE  i \in G
  <2> DEFINE k == i - 1
             u == Power(b, k)
  <2>1. k \in Nat /\ i = k + 1 /\ i \in 0 .. m
    OBVIOUS
  <2>2. Power(u, n) = Power(a, k)
    BY <1>3 DEF a
  <2> HIDE DEF k
  <2>3. /\ u \in Nat /\ Power(b, i) = (b * u) % 257
        /\ Power(a, i) = (a * Power(a, k)) % 257
    <3>1. \A x \in Nat : /\ Power(x, k) \in Nat
                         /\ Power(x, k + 1) = (x * Power(x, k)) % 257
      BY <2>1, PowerSteps
    <3> QED
      BY <1>0, <2>1, <3>1
  <2> HIDE DEF u
  <2>4. Power((b * u) % 257, n) = (a * Power(u, n)) % 257
    BY <2>3, PowerOfProduct DEF a
  <2>5. Power(Power(b, i), n) = Power(a, i)
    BY <2>2, <2>3, <2>4
  <2> QED
    BY <2>1, <2>5 DEF a
<1> HIDE DEF G
<1>4. \A i \in 0 .. m : i \in G
  BY <1>2, <1>3, UptoInduction
<1>5. m \in G
  BY <1>4
<1> QED
  BY <1>5 DEF G

-----------------------------------------------------------------------------
(* The accumulator.                                                        *)
\* 101 has no factors.
LEMMA OneHundredOne == IsPrime(101)
<1>1. \A q \in 2 .. 100 : \A d \in 2 .. 10 : d * q # 101
  <2>1. \A q \in 2 .. 100 : 2 * q # 101 /\ 3 * q # 101 /\ 4 * q # 101
    OBVIOUS
  <2>2. \A q \in 2 .. 100 : 5 * q # 101 /\ 6 * q # 101 /\ 7 * q # 101
    OBVIOUS
  <2>3. \A q \in 2 .. 100 : 8 * q # 101 /\ 9 * q # 101 /\ 10 * q # 101
    OBVIOUS
  <2> TAKE q \in 2 .. 100
  <2> TAKE d \in 2 .. 10
  <2>4. d \in {2, 3, 4, 5, 6, 7, 8, 9, 10}
    OBVIOUS
  <2> QED
    BY <2>1, <2>2, <2>3, <2>4
<1>2. ASSUME NEW d \in 2 .. 100, 101 % d = 0
      PROVE  FALSE
  <2> DEFINE q == 101 \div d
  <2>1. q \in Nat /\ 101 = d * q
    BY <1>2
  <2> HIDE DEF q
  <2>2. q \in 2 .. 100
    BY <2>1
  <2>3. d <= 10 \/ q <= 10
    <3>1. d > 10 /\ q > 10 => d * q >= 11 * 11
      BY <2>2
    <3> QED
      BY <2>1, <2>2, <3>1
  <2>4. d * q = q * d
    BY <2>2
  <2>5. CASE d <= 10
    BY <1>1, <2>1, <2>2, <2>5
  <2>6. CASE q <= 10
    BY <1>1, <2>1, <2>2, <2>4, <2>6
  <2> QED
    BY <2>3, <2>5, <2>6
<1> QED
  BY <1>2 DEF IsPrime

\* hashToPrime returns a number, for the search ends at 101.
LEMMA PrimeNumber ==
    ASSUME NEW element \in Nat
    PROVE  HashToPrime(element) \in Nat
<1> DEFINE start == (element % 100) + 2
           N == {p \in start .. 101 : IsPrime(p)}
<1>1. start \in 2 .. 101
  OBVIOUS
<1> HIDE DEF start
<1>2. 101 \in N /\ N \in SUBSET Nat
  BY <1>1, OneHundredOne
<1>3. PICK p \in N : \A k \in N : p <= k
  <2> HIDE DEF N
  <2> QED
    BY <1>2, LeastNatural
<1>4. p \in start .. 101 /\ IsPrime(p)
  BY <1>3
<1>5. \A q \in start .. p - 1 : ~IsPrime(q)
  <2> TAKE q \in start .. p - 1
  <2>1. q \in start .. 101 /\ ~(p <= q)
    BY <1>1, <1>4
  <2> QED
    BY <1>3, <2>1
<1> DEFINE Found(r) == /\ r \in start .. 101
                       /\ IsPrime(r)
                       /\ \A q \in start .. r - 1 : ~IsPrime(q)
<1>6. HashToPrime(element) = CHOOSE r : Found(r)
  BY DEF HashToPrime, start
<1>7. Found(p)
  BY <1>4, <1>5
<1>8. Found(CHOOSE r : Found(r))
  <2> HIDE DEF Found
  <2> QED
    BY <1>7
<1> QED
  BY <1>1, <1>6, <1>8

\* The accumulator of each set of elements: whichever comes last.
Accumulators(V, D) ==
    /\ V[{}] = Start
    /\ \A s \in SUBSET D : \A x \in s : V[s] = Accumulated(V[s \ {x}], x)

\* There is one accumulator for each set, since the powers commute.
LEMMA AccumulatorsExist ==
    ASSUME NEW D, IsFiniteSet(D), D \subseteq Nat
    PROVE  \E V : Accumulators(V, D)
<1> DEFINE step == [p \in D \X Nat |-> Accumulated(p[2], p[1])]
           pick == [s \in SUBSET D |-> CHOOSE x \in s : TRUE]
<1>1. \A x, v \in Nat : /\ Accumulated(v, x) = Power(v, HashToPrime(x))
                        /\ HashToPrime(x) \in Nat
  BY PrimeNumber DEF Accumulated, Power, Modulus
<1>2. \A x, v \in Nat : Accumulated(v, x) \in Nat
  BY <1>1, PowerSteps
<1>3. step \in [D \X Nat -> Nat] /\ Picks(pick, D)
  BY <1>2 DEF Picks
<1>4. \A x \in D, v \in Nat : step[<<x, v>>] = Accumulated(v, x)
  OBVIOUS
<1> HIDE DEF step, pick
<1>5. Commutes(step, D, Nat)
  <2> SUFFICES ASSUME NEW x \in D, NEW y \in D, NEW v \in Nat
               PROVE  step[<<x, step[<<y, v>>]>>] = step[<<y, step[<<x, v>>]>>]
    BY DEF Commutes
  <2> DEFINE m == HashToPrime(x)
             n == HashToPrime(y)
  <2>1. /\ x \in Nat /\ y \in Nat /\ m \in Nat /\ n \in Nat
        /\ Accumulated(v, x) = Power(v, m)
        /\ Accumulated(v, y) = Power(v, n)
    BY <1>1
  <2>2. Power(v, m) \in Nat /\ Power(v, n) \in Nat
    BY <1>2, <2>1
  <2>3. /\ Accumulated(Power(v, n), x) = Power(Power(v, n), m)
        /\ Accumulated(Power(v, m), y) = Power(Power(v, m), n)
    BY <1>1, <2>1, <2>2
  <2> HIDE DEF m, n
  <2>4. Power(Power(v, n), m) = Power(Power(v, m), n)
    BY <2>1, PowersCommute
  <2> QED
    BY <1>4, <2>1, <2>2, <2>3, <2>4
<1>6. PICK V \in [SUBSET D -> Nat] : Folds(V, D, Start, pick, step)
  <2>1. Start \in Nat
    BY DEF Start
  <2> QED
    BY <1>3, <2>1, Iteration
<1>7. AnyFirst(V, D, step)
  BY <1>3, <1>5, <1>6, FoldsAnyFirst
<1>8. V[{}] = Start
  BY <1>6 DEF Folds
<1>9. \A s \in SUBSET D : \A x \in s : V[s] = Accumulated(V[s \ {x}], x)
  <2> TAKE s \in SUBSET D
  <2> TAKE x \in s
  <2>1. V[s \ {x}] \in Nat /\ x \in D
    OBVIOUS
  <2> QED
    BY <1>4, <1>7, <2>1 DEF AnyFirst
<1> QED
  BY <1>8, <1>9 DEF Accumulators

\* The value after the first i of the elements a have been added: the witness
\* of the next, or the value now.
Reached(v, w, a, i) == IF i < Len(a) THEN w[a[i + 1]] ELSE v

FirstOf(a, i) == {a[j] : j \in 1 .. i}

\* A copy with value v and witnesses w has added the elements a.
Copy(v, w, a) ==
    /\ a \in Seq(Elements)
    /\ DOMAIN w = FirstOf(a, Len(a))
    /\ \A j, k \in 1 .. Len(a) : a[j] = a[k] => j = k
    /\ Reached(v, w, a, 0) = Start
    /\ \A i \in 1 .. Len(a) :
          Reached(v, w, a, i) = Accumulated(Reached(v, w, a, i - 1), a[i])

\* NewAccumulator.
LEMMA NewCopy == Copy(Start, EmptyMap, << >>)
BY DEF Copy, FirstOf, Reached, EmptyMap

\* Add.
LEMMA AddCopy ==
    ASSUME NEW v, NEW w, NEW a, Copy(v, w, a),
           NEW e \in Elements, e \notin DOMAIN w
    PROVE  Copy(Accumulated(v, e), Put(w, e, v), Append(a, e))
<1> DEFINE n == Len(a)
           v1 == Accumulated(v, e)
           w1 == Put(w, e, v)
           a1 == Append(a, e)
<1>1. a \in Seq(Elements) /\ n \in Nat
  BY DEF Copy
<1>2. /\ a1 \in Seq(Elements) /\ Len(a1) = n + 1 /\ a1[n + 1] = e
      /\ \A i \in 1 .. n : a1[i] = a[i]
  BY <1>1
<1>3. /\ DOMAIN w = FirstOf(a, n)
      /\ \A i \in 1 .. n : a[i] # e
  BY DEF Copy, FirstOf
<1>4. /\ DOMAIN w1 = DOMAIN w \cup {e} /\ w1[e] = v
      /\ \A x \in DOMAIN w : w1[x] = w[x]
  BY DEF Put
<1> HIDE DEF a1, w1
<1>5. DOMAIN w1 = FirstOf(a1, n + 1)
  <2>1. FirstOf(a1, n + 1) = FirstOf(a, n) \cup {e}
    BY <1>1, <1>2 DEF FirstOf
  <2> QED
    BY <1>3, <1>4, <2>1
<1>6. \A j, k \in 1 .. n + 1 : a1[j] = a1[k] => j = k
  <2>1. \A j, k \in 1 .. n : a[j] = a[k] => j = k
    BY DEF Copy
  <2> TAKE j, k \in 1 .. n + 1
  <2>2. CASE j \in 1 .. n /\ k \in 1 .. n
    BY <1>2, <2>1, <2>2
  <2>3. CASE j = n + 1 /\ k \in 1 .. n
    BY <1>2, <1>3, <2>3
  <2>4. CASE j \in 1 .. n /\ k = n + 1
    BY <1>2, <1>3, <2>4
  <2> QED
    BY <1>1, <2>2, <2>3, <2>4
<1>7. ASSUME NEW i \in 0 .. n
      PROVE  Reached(v1, w1, a1, i) = Reached(v, w, a, i)
  <2>1. i < n + 1 /\ i + 1 \in 1 .. n + 1
    BY <1>1
  <2>2. Reached(v1, w1, a1, i) = w1[a1[i + 1]]
    BY <1>2, <2>1 DEF Reached
  <2>3. CASE i < n
    <3>1. i + 1 \in 1 .. n /\ a[i + 1] \in DOMAIN w
      BY <1>1, <1>3, <2>3 DEF FirstOf
    <3> QED
      BY <1>2, <1>4, <2>2, <2>3, <3>1 DEF Reached
  <2>4. CASE i = n
    BY <1>1, <1>2, <1>4, <2>2, <2>4 DEF Reached
  <2> QED
    BY <1>1, <2>3, <2>4
<1>8. Reached(v1, w1, a1, n + 1) = v1 /\ Reached(v, w, a, n) = v
  BY <1>1, <1>2 DEF Reached
<1>9. Reached(v1, w1, a1, 0) = Start
  BY <1>1, <1>7 DEF Copy
<1>10. ASSUME NEW i \in 1 .. n + 1
       PROVE  Reached(v1, w1, a1, i)
                = Accumulated(Reached(v1, w1, a1, i - 1), a1[i])
  <2>1. i - 1 \in 0 .. n
    BY <1>1
  <2>2. Reached(v1, w1, a1, i - 1) = Reached(v, w, a, i - 1)
    BY <1>7, <2>1
  <2>3. CASE i \in 1 .. n
    <3>1. Reached(v, w, a, i) = Accumulated(Reached(v, w, a, i - 1), a[i])
      BY <2>3 DEF Copy
    <3>2. Reached(v1, w1, a1, i) = Reached(v, w, a, i)
      BY <1>1, <1>7, <2>3
    <3> QED
      BY <1>2, <2>2, <2>3, <3>1, <3>2
  <2>4. CASE i = n + 1
    <3>1. (n + 1) - 1 = n
      BY <1>1
    <3> QED
      BY <1>2, <1>8, <2>2, <2>4, <3>1
  <2> QED
    BY <1>1, <2>3, <2>4
<1> HIDE DEF v1
<1>11. Copy(v1, w1, a1)
  BY <1>2, <1>5, <1>6, <1>9, <1>10 DEF Copy
<1> QED
  BY <1>11 DEF v1, w1, a1

\* What a copy reaches depends on what it has added, and not on the order.
LEMMA CopyReaches ==
    ASSUME NEW v, NEW w, NEW a, Copy(v, w, a), NEW n \in 0 .. Len(a),
           NEW V, Accumulators(V, FirstOf(a, n))
    PROVE  Reached(v, w, a, n) = V[FirstOf(a, n)]
<1> DEFINE G == {i \in 0 .. n : Reached(v, w, a, i) = V[FirstOf(a, i)]}
<1>1. Len(a) \in Nat /\ n \in Nat
  BY DEF Copy
<1>2. 0 \in G
  <2>1. FirstOf(a, 0) = {}
    BY DEF FirstOf
  <2>2. Reached(v, w, a, 0) = Start
    BY DEF Copy
  <2>3. V[FirstOf(a, 0)] = Start
    BY <2>1 DEF Accumulators
  <2>4. 0 \in 0 .. n
    BY <1>1
  <2> QED
    BY <2>2, <2>3, <2>4
<1>3. ASSUME NEW i \in 1 .. n, i - 1 \in G
      PROVE  i \in G
  <2>1. i \in 1 .. Len(a) /\ i - 1 \in 0 .. n /\ i \in 0 .. n
    BY <1>1
  <2>2. /\ FirstOf(a, i) \in SUBSET FirstOf(a, n)
        /\ a[i] \in FirstOf(a, i)
        /\ FirstOf(a, i) \ {a[i]} = FirstOf(a, i - 1)
    <3>1. \A j \in 1 .. i - 1 : a[j] # a[i] /\ j \in 1 .. i
      BY <1>1, <2>1 DEF Copy
    <3>2. 1 .. i = (1 .. i - 1) \cup {i} /\ 1 .. i \subseteq 1 .. n
      BY <1>1, <2>1
    <3> QED
      BY <3>1, <3>2 DEF FirstOf
  <2>3. V[FirstOf(a, i)] = Accumulated(V[FirstOf(a, i - 1)], a[i])
    BY <2>2 DEF Accumulators
  <2>4. Reached(v, w, a, i) = Accumulated(Reached(v, w, a, i - 1), a[i])
    BY <2>1 DEF Copy
  <2>5. Reached(v, w, a, i - 1) = V[FirstOf(a, i - 1)]
    BY <1>3
  <2> QED
    BY <2>1, <2>3, <2>4, <2>5
<1> HIDE DEF G
<1>4. \A i \in 0 .. n : i \in G
  BY <1>1, <1>2, <1>3, UptoInduction
<1>5. n \in G
  BY <1>1, <1>4
<1> QED
  BY <1>5 DEF G

\* Two copies that have added the same elements have reached the same value.
LEMMA CopiesAgree ==
    ASSUME Elements \subseteq Nat,
           NEW v, NEW w, NEW a, Copy(v, w, a), NEW m \in 0 .. Len(a),
           NEW u, NEW x, NEW b, Copy(u, x, b), NEW n \in 0 .. Len(b),
           FirstOf(a, m) = FirstOf(b, n)
    PROVE  Reached(v, w, a, m) = Reached(u, x, b, n)
<1> DEFINE D == FirstOf(a, m)
<1>1. Len(a) \in Nat /\ a \in Seq(Elements)
  BY DEF Copy
<1>2. D \subseteq Nat
  <2>1. \A i \in 1 .. m : a[i] \in Elements
    BY <1>1
  <2> QED
    BY <2>1 DEF FirstOf
<1>3. IsFiniteSet(D)
  <2> DEFINE E == 1 .. m
             f == [i \in E |-> a[i]]
  <2>1. IsFiniteSet(E)
    BY FS_Interval
  <2>2. D = {f[i] : i \in E}
    BY DEF FirstOf
  <2>3. f \in Surjection(E, D)
    BY <2>2 DEF Surjection
  <2> HIDE DEF E, D, f
  <2> QED
    BY <2>1, <2>3, FS_Surjection
<1> HIDE DEF D
<1>4. PICK V : Accumulators(V, D)
  BY <1>2, <1>3, AccumulatorsExist
<1>5. Accumulators(V, FirstOf(a, m)) /\ Accumulators(V, FirstOf(b, n))
  BY <1>4 DEF D
<1>6. Reached(v, w, a, m) = V[FirstOf(a, m)]
  BY <1>5, CopyReaches
<1>7. Reached(u, x, b, n) = V[FirstOf(b, n)]
  BY <1>5, CopyReaches
<1> QED
  BY <1>6, <1>7

\* Every copy has added its elements.
CopiesInv ==
    /\ DOMAIN value = Copies
    /\ DOMAIN witnesses = Copies
    /\ DOMAIN added = Copies
    /\ \A c \in Copies : Copy(value[c], witnesses[c], added[c])

\* Copies begin with nothing.
LEMMA CopiesInit == CryptoInit => CopiesInv
BY NewCopy DEF CryptoInit, CopiesInv

\* Every step leaves copies that have added their elements.
LEMMA CopiesNext == CopiesInv /\ [CryptoNext]_cryptoVars => CopiesInv'
<1> SUFFICES ASSUME CopiesInv, [CryptoNext]_cryptoVars
             PROVE  CopiesInv'
  OBVIOUS
<1>1. ASSUME NEW c \in Copies, NEW e \in Elements, Add(c, e)
      PROVE  CopiesInv'
  <2>1. e \notin DOMAIN witnesses[c]
    BY <1>1 DEF Add, Has
  <2>2. /\ value'[c] = Accumulated(value[c], e)
        /\ witnesses'[c] = Put(witnesses[c], e, value[c])
        /\ added'[c] = Append(added[c], e)
    BY <1>1 DEF Add, CopiesInv
  <2>3. Copy(value'[c], witnesses'[c], added'[c])
    BY <2>1, <2>2, AddCopy DEF CopiesInv
  <2>4. /\ DOMAIN value' = Copies
        /\ DOMAIN witnesses' = Copies
        /\ DOMAIN added' = Copies
        /\ \A d \in Copies \ {c} : /\ value'[d] = value[d]
                                   /\ witnesses'[d] = witnesses[d]
                                   /\ added'[d] = added[d]
    BY <1>1 DEF Add, CopiesInv
  <2> QED
    BY <2>3, <2>4 DEF CopiesInv
<1>2. ASSUME NEW c \in Copies, NewAccumulator(c)
      PROVE  CopiesInv'
  <2>1. Copy(value'[c], witnesses'[c], added'[c])
    BY <1>2, NewCopy DEF NewAccumulator, CopiesInv
  <2>2. /\ DOMAIN value' = Copies
        /\ DOMAIN witnesses' = Copies
        /\ DOMAIN added' = Copies
        /\ \A d \in Copies \ {c} : /\ value'[d] = value[d]
                                   /\ witnesses'[d] = witnesses[d]
                                   /\ added'[d] = added[d]
    BY <1>2 DEF NewAccumulator, CopiesInv
  <2> QED
    BY <2>1, <2>2 DEF CopiesInv
<1>3. ASSUME NEW x \in Secrets, GenerateProof(x)
      PROVE  CopiesInv'
  BY <1>3 DEF GenerateProof, CopiesInv
<1>4. CASE UNCHANGED cryptoVars
  BY <1>4 DEF cryptoVars, CopiesInv
<1> QED
  BY <1>1, <1>2, <1>3, <1>4 DEF CryptoNext

\* The invariant implies the property.
LEMMA CopiesSameRoot ==
    ASSUME Elements \subseteq Nat, CopiesInv
    PROVE  SameRoot
<1> SUFFICES ASSUME NEW c \in Copies, NEW d \in Copies,
                    NEW x \in Computed(c), NEW y \in Computed(d),
                    x[1] = y[1]
             PROVE  x[2] = y[2]
  BY DEF SameRoot
<1>1. PICK m \in 0 .. Len(added[c]) :
        x = <<FirstOf(added[c], m),
              Reached(value[c], witnesses[c], added[c], m)>>
  BY DEF Computed, FirstOf, Reached
<1>2. PICK n \in 0 .. Len(added[d]) :
        y = <<FirstOf(added[d], n),
              Reached(value[d], witnesses[d], added[d], n)>>
  BY DEF Computed, FirstOf, Reached
<1>3. FirstOf(added[c], m) = FirstOf(added[d], n)
  BY <1>1, <1>2
<1>4. /\ Copy(value[c], witnesses[c], added[c])
      /\ Copy(value[d], witnesses[d], added[d])
  BY DEF CopiesInv
<1>5. Reached(value[c], witnesses[c], added[c], m)
        = Reached(value[d], witnesses[d], added[d], n)
  BY <1>3, <1>4, CopiesAgree
<1> QED
  BY <1>1, <1>2, <1>5

\* Add, in updateAccumulator, for any copies and any elements: copies that have
\* added the same elements have the same value and the same witnesses, in
\* whatever order the Go map gave the elements to each of them.
THEOREM SameRootAlways == CryptoSpec => []SameRoot
<1>1. Elements \subseteq Nat
  BY CryptoAssumption
<1>2. CopiesInv => SameRoot
  BY <1>1, CopiesSameRoot
<1> QED
  BY <1>2, CopiesInit, CopiesNext, PTL DEF CryptoSpec

-----------------------------------------------------------------------------
(* Zero-knowledge proofs.                                                  *)
\* The powers of 5, from the 0th on; the cubes of 1 .. 22; the statements that
\* proofs with the responses 0 .. 10 are accepted for: modulo 23.
PowersOf5 == <<1, 5, 2, 10, 4, 20, 8, 17, 16, 11, 9, 22, 18, 21, 13, 19, 3,
               15, 6, 7, 12, 14>>
Cubes == <<1, 8, 4, 18, 10, 9, 21, 6, 16, 11, 20, 3, 12, 7, 17, 2, 14, 13, 5,
           19, 15, 22>>
Statements == <<20, 12, 21, 8, 14, 13, 17, 1, 19, 16, 5>>

\* The powers of 5 repeat themselves.
LEMMA NextPowerOf5 ==
    \A k \in 0 .. 21 :
        PowersOf5[((k + 1) % 22) + 1] = (5 * PowersOf5[k + 1]) % 23
BY DEF PowersOf5

\* Exp with the generator 5 is found in the table.
LEMMA ExpOf5 ==
    ASSUME NEW n \in Nat
    PROVE  Exp(5, n, 23) = PowersOf5[(n % 22) + 1]
<1> DEFINE G == {i \in 0 .. n : Exp(5, i, 23) = PowersOf5[(i % 22) + 1]}
<1>1. /\ Exp(5, 0, 23) = 1
      /\ \A i \in Nat : Exp(5, i + 1, 23) = (5 * Exp(5, i, 23)) % 23
  <2>1. 5 \in Nat /\ 23 \in Nat \ {0}
    OBVIOUS
  <2> QED
    BY <2>1, ExpSteps
<1>2. 0 \in G
  BY <1>1 DEF PowersOf5
<1>3. ASSUME NEW i \in 1 .. n, i - 1 \in G
      PROVE  i \in G
  <2> DEFINE k == (i - 1) % 22
  <2>1. /\ k \in 0 .. 21 /\ (k + 1) % 22 = i % 22
        /\ i - 1 \in Nat /\ (i - 1) + 1 = i /\ i \in 0 .. n
    OBVIOUS
  <2>2. Exp(5, i - 1, 23) = PowersOf5[k + 1]
    BY <1>3
  <2>3. Exp(5, i, 23) = (5 * Exp(5, i - 1, 23)) % 23
    BY <1>1, <2>1
  <2> HIDE DEF k
  <2>4. PowersOf5[((k + 1) % 22) + 1] = (5 * PowersOf5[k + 1]) % 23
    BY <2>1, NextPowerOf5
  <2> QED
    BY <2>1, <2>2, <2>3, <2>4
<1> HIDE DEF G
<1>4. \A i \in 0 .. n : i \in G
  BY <1>2, <1>3, UptoInduction
<1>5. n \in G
  BY <1>4
<1> QED
  BY <1>5 DEF G

\* Exp with the challenge 3 is found in the table.
LEMMA ExpCube ==
    ASSUME NEW z \in 1 .. 22
    PROVE  Exp(z, 3, 23) = Cubes[z]
<1> DEFINE e(n) == Exp(z, n, 23)
<1>1. e(0) = 1 /\ \A n \in Nat : e(n + 1) = (z * e(n)) % 23
  <2>1. z \in Nat /\ 23 \in Nat \ {0}
    OBVIOUS
  <2> QED
    BY <2>1, ExpSteps
<1> HIDE DEF e
<1>2. e(1) = (z * 1) % 23
  <2>1. 0 \in Nat /\ 0 + 1 = 1
    OBVIOUS
  <2> QED
    BY <1>1, <2>1
<1>3. e(1) = z
  BY <1>2
<1>4. e(2) = (z * z) % 23
  <2>1. 1 \in Nat /\ 1 + 1 = 2
    OBVIOUS
  <2> QED
    BY <1>1, <1>3, <2>1
<1>5. e(3) = (z * ((z * z) % 23)) % 23
  <2>1. 2 \in Nat /\ 2 + 1 = 3
    OBVIOUS
  <2> QED
    BY <1>1, <1>4, <2>1
<1>6. (z * ((z * z) % 23)) % 23 = Cubes[z]
  BY DEF Cubes
<1> QED
  BY <1>5, <1>6 DEF e

\* A response fits one statement.
LEMMA OneStatement ==
    \A r \in 0 .. 10 : \A z \in 1 .. 22 :
        PowersOf5[r + 1] = (17 * Cubes[z]) % 23 <=> z = Statements[r + 1]
BY DEF PowersOf5, Cubes, Statements

\* Which secrets have the power of themselves as that statement.
LEMMA OwnStatement ==
    \A k \in 0 .. 21 :
        PowersOf5[k + 1] = Statements[((7 + 3 * k) % 11) + 1]
            <=> ((7 + 3 * k) \div 11) % 2 = 0
BY DEF PowersOf5, Statements

\* Every proof is one that GenerateProof makes.
ProofInv == \E x \in Nat : proof = ProofOf(x)

\* GenerateProof makes the proof for its secret.
LEMMA ProofNext ==
    ASSUME Secrets \subseteq Nat
    PROVE  ProofInv /\ [CryptoNext]_cryptoVars => ProofInv'
BY DEF ProofInv, CryptoNext, cryptoVars, Add, NewAccumulator,
       GenerateProof

\* VerifyProof accepts the proof for one statement, that of its response.
LEMMA AcceptedStatement ==
    ASSUME NEW x \in Nat, NEW z \in 1 .. 22
    PROVE  VerifyProof(ProofOf(x), z)
             <=> z = Statements[((7 + 3 * (x % 22)) % 11) + 1]
<1> DEFINE k == x % 22
           r == (7 + 3 * k) % 11
           p == ProofOf(x)
<1>1. k \in 0 .. 21 /\ r \in 0 .. 10 /\ (7 + 3 * x) % 11 = r
  <2> DEFINE q == x \div 22
  <2>1. q \in Nat /\ k \in 0 .. 21 /\ x = 22 * q + k
    OBVIOUS
  <2> HIDE DEF q, k
  <2>2. 7 + 3 * x = 11 * (6 * q) + (7 + 3 * k)
    BY <2>1
  <2>3. (7 + 3 * x) % 11 = (7 + 3 * k) % 11
    BY <2>1, <2>2
  <2>4. (7 + 3 * k) % 11 \in 0 .. 10
    BY <2>1
  <2> QED
    BY <2>1, <2>3, <2>4
<1>2. Exp(5, 7, 23) = 17
  <2>1. 7 \in Nat /\ (7 % 22) + 1 = 8
    OBVIOUS
  <2>2. Exp(5, 7, 23) = PowersOf5[8]
    BY <2>1, ExpOf5
  <2> QED
    BY <2>2 DEF PowersOf5
<1> HIDE DEF k
<1>3. Exp(5, r, 23) = PowersOf5[r + 1]
  <2> HIDE DEF r
  <2>1. r \in Nat /\ r % 22 = r
    BY <1>1
  <2>2. Exp(5, r, 23) = PowersOf5[(r % 22) + 1]
    BY <2>1, ExpOf5
  <2> QED
    BY <2>1, <2>2
<1>4. p.Commitment = 17 /\ p.Challenge = 3 /\ p.Response = r
  BY <1>1, <1>2 DEF ProofOf, Generator, Prime, Order
<1> HIDE DEF p
<1>5. VerifyProof(p, z) <=> PowersOf5[r + 1] = (17 * Cubes[z]) % 23
  BY <1>3, <1>4, ExpCube DEF VerifyProof, Generator, Prime
<1> HIDE DEF r
<1>6. VerifyProof(p, z) <=> z = Statements[r + 1]
  BY <1>1, <1>5, OneStatement
<1> QED
  BY <1>6 DEF p, r, k

\* "Test with wrong statement", for every secret: a proof is accepted for one
\* statement at most.
THEOREM StatementUniqueAlways == CryptoSpec => []StatementUnique
<1>1. Secrets \subseteq Nat
  BY CryptoAssumption
<1>2. CryptoInit => ProofInv
  BY DEF CryptoInit, ProofInv
<1>3. ProofInv /\ [CryptoNext]_cryptoVars => ProofInv'
  BY <1>1, ProofNext
<1>4. ProofInv => StatementUnique
  <2>1. Prime - 1 = 22
    BY DEF Prime
  <2> QED
    BY <2>1, AcceptedStatement DEF ProofInv, StatementUnique
<1> QED
  BY <1>2, <1>3, <1>4, PTL DEF CryptoSpec

\* VerifyProof accepts the proof of a secret for the statement of that secret,
\* the power of the generator, exactly when the reduction modulo 11 has taken
\* an even number of times 11 away from the response: 5 to the 11th is -1.
THEOREM WhenProofVerifies ==
    ASSUME NEW x \in Nat
    PROVE  VerifyProof(ProofOf(x), Exp(Generator, x, Prime))
             <=> ((7 + 3 * x) \div 11) % 2 = 0
<1> DEFINE k == x % 22
           q == x \div 22
<1>1. q \in Nat /\ k \in 0 .. 21 /\ x = 22 * q + k
  OBVIOUS
<1>2. Exp(Generator, x, Prime) = PowersOf5[k + 1]
  BY ExpOf5 DEF Generator, Prime
<1> HIDE DEF q, k
<1>3. PowersOf5[k + 1] \in 1 .. 22
  BY <1>1 DEF PowersOf5
<1>4. VerifyProof(ProofOf(x), PowersOf5[k + 1])
        <=> PowersOf5[k + 1] = Statements[((7 + 3 * k) % 11) + 1]
  BY <1>3, AcceptedStatement DEF k
<1>5. PowersOf5[k + 1] = Statements[((7 + 3 * k) % 11) + 1]
        <=> ((7 + 3 * k) \div 11) % 2 = 0
  BY <1>1, OwnStatement
<1>6. ((7 + 3 * x) \div 11) % 2 = ((7 + 3 * k) \div 11) % 2
  <2> DEFINE d == (7 + 3 * k) \div 11
  <2>1. d \in Nat /\ 7 + 3 * x = 11 * (6 * q) + (7 + 3 * k)
    BY <1>1
  <2>2. (7 + 3 * x) \div 11 = 6 * q + d
    BY <1>1, <2>1
  <2> HIDE DEF d
  <2>3. (6 * q + d) % 2 = d % 2
    BY <1>1, <2>1
  <2> QED
    BY <2>2, <2>3 DEF d
<1> QED
  BY <1>2, <1>4, <1>5, <1>6
=============================================================================
