---------------------------- MODULE DataTheorems ----------------------------
(***************************************************************************)
(* Facts about the data of the models, for use by the other proofs: maps,  *)
(* induction over numbers and finite sets, folds and sums.                 *)
(*                                                                         *)
(* The induction theorems of the library take the property to be proved as *)
(* an operator.  Here it is the set of those that have it, so that the     *)
(* first-order provers can use them; they follow from the library's facts  *)
(* about well-founded orders.                                              *)
(***************************************************************************)
EXTENDS GoMap, FiniteSetTheorems, FiniteSetsExt, Functions, Sequences, TLAPS

(***************************************************************************)
(* Maps                                                                    *)
(***************************************************************************)
\* m[k] = v makes k present and leaves every other key as it was.
LEMMA PutValue ==
    ASSUME NEW m, NEW k, NEW v
    PROVE  /\ DOMAIN Put(m, k, v) = (DOMAIN m) \cup {k}
           /\ Put(m, k, v)[k] = v
           /\ \A x \in DOMAIN m : x # k => Put(m, k, v)[x] = m[x]
BY DEF Put

\* m[k] = v keeps a map a map.
LEMMA PutIsMap ==
    ASSUME NEW K, NEW V, NEW m, NEW k \in K, NEW v \in V, IsMap(m, K, V)
    PROVE  IsMap(Put(m, k, v), K, V)
BY DEF IsMap, Put

\* delete(m, k) removes k and leaves every other key as it was.
LEMMA DeleteValue ==
    ASSUME NEW m, NEW k
    PROVE  /\ DOMAIN Delete(m, k) = (DOMAIN m) \ {k}
           /\ \A x \in DOMAIN m : x # k => Delete(m, k)[x] = m[x]
BY DEF Delete

\* delete(m, k) keeps a map a map.
LEMMA DeleteIsMap ==
    ASSUME NEW K, NEW V, NEW m, NEW k, IsMap(m, K, V)
    PROVE  IsMap(Delete(m, k), K, V)
BY DEF IsMap, Delete

\* The empty map is a map, with no key.
LEMMA EmptyIsMap ==
    ASSUME NEW K, NEW V
    PROVE  IsMap(EmptyMap, K, V) /\ DOMAIN EmptyMap = {}
BY DEF IsMap, EmptyMap

\* Every entry of a map has the key and the value type of the map.
LEMMA MapEntry ==
    ASSUME NEW K, NEW V, NEW m, IsMap(m, K, V), NEW k \in DOMAIN m
    PROVE  k \in K /\ m[k] \in V
BY DEF IsMap

(***************************************************************************)
(* Induction                                                               *)
(***************************************************************************)
\* The least element of a set of natural numbers.
LEMMA LeastNatural ==
    ASSUME NEW N \in SUBSET Nat, N # {}
    PROVE  \E m \in N : \A k \in N : m <= k
<1>1. IsWellFoundedOn(OpToRel(<, Nat), Nat)
  BY NatLessThanWellFounded, Zenon
<1>2. PICK m \in N : \A k \in N : <<k, m>> \notin OpToRel(<, Nat)
  BY <1>1, WFMin
<1>3. \A k \in N : ~(k < m)
  BY <1>2 DEF OpToRel
<1> QED
  BY <1>3

\* The largest element of a bounded set of natural numbers.
LEMMA LargestNatural ==
    ASSUME NEW n \in Nat, NEW N \in SUBSET (0 .. n), N # {}
    PROVE  /\ Max(N) \in N
           /\ \A k \in N : k <= Max(N)
<1> DEFINE B == {b \in Nat : \A k \in N : k <= b}
<1>1. B \in SUBSET Nat /\ n \in B
  OBVIOUS
<1>2. PICK m \in B : \A b \in B : m <= b
  <2> HIDE DEF B
  <2> QED
    BY <1>1, LeastNatural
<1>3. m \in N
  <2> SUFFICES ASSUME m \notin N PROVE FALSE
    OBVIOUS
  <2>1. \A k \in N : k <= m /\ k # m /\ k \in Nat /\ m \in Nat
    BY <1>2
  <2>2. m - 1 \in Nat /\ \A k \in N : k <= m - 1
    <3> PICK k \in N : TRUE
      OBVIOUS
    <3>1. k \in Nat /\ m \in Nat /\ k <= m /\ k # m
      BY <2>1
    <3> QED
      BY <2>1, <3>1
  <2>3. m - 1 \in B
    BY <2>2
  <2> QED
    BY <1>2, <2>3
<1>4. \A k \in N : m >= k
  BY <1>2
<1> QED
  BY <1>3, <1>4 DEF Max

\* Induction over the numbers up to n.
LEMMA UptoInduction ==
    ASSUME NEW n \in Nat, NEW G, 0 \in G,
           \A i \in 1 .. n : i - 1 \in G => i \in G
    PROVE  \A i \in 0 .. n : i \in G
<1> DEFINE Bad == {i \in 0 .. n : i \notin G}
<1>1. SUFFICES ASSUME Bad # {} PROVE FALSE
  OBVIOUS
<1>2. Bad \in SUBSET Nat
  OBVIOUS
<1>3. PICK m \in Bad : \A k \in Bad : m <= k
  <2> HIDE DEF Bad
  <2> QED
    BY <1>1, <1>2, LeastNatural
<1>4. m \in 1 .. n /\ m - 1 \in 0 .. n /\ m - 1 \notin Bad
  BY <1>3
<1> QED
  BY <1>3, <1>4

\* A smallest one among the subsets of a finite set.
LEMMA SmallestSubset ==
    ASSUME NEW S, IsFiniteSet(S), NEW F \in SUBSET (SUBSET S), F # {}
    PROVE  \E m \in F : \A t \in F : t \subseteq m => t = m
<1>1. IsWellFoundedOn(StrictSubsetOrdering(S), FiniteSubsetsOf(S))
  BY FS_StrictSubsetOrderingWellFounded
<1>2. F \subseteq FiniteSubsetsOf(S)
  BY FS_FiniteSubsetsOfFinite
<1>3. PICK m \in F : \A t \in F : <<t, m>> \notin StrictSubsetOrdering(S)
  BY <1>1, <1>2, WFMin
<1> QED
  BY <1>3 DEF StrictSubsetOrdering

(***************************************************************************)
(* Folds and sums                                                          *)
(***************************************************************************)
\* "pick" chooses an element of every set but the empty one.
Picks(pick, D) == \A s \in SUBSET D : s # {} => pick[s] \in s

\* "it" folds "step" over the subsets of D, in the order in which "pick"
\* chooses their elements.
Folds(it, D, base, pick, step) ==
    \A s \in SUBSET D :
        it[s] = IF s = {} THEN base ELSE step[<<pick[s], it[s \ {pick[s]}]>>]

\* Induction over the subsets of a finite set.
LEMMA SetInduction ==
    ASSUME NEW S, IsFiniteSet(S), NEW G,
           \A s \in SUBSET S : (\A x \in s : s \ {x} \in G) => s \in G
    PROVE  \A s \in SUBSET S : s \in G
<1> DEFINE Bad == {s \in SUBSET S : s \notin G}
<1>1. SUFFICES ASSUME Bad # {} PROVE FALSE
  OBVIOUS
<1>2. Bad \in SUBSET (SUBSET S)
  OBVIOUS
<1>3. PICK s \in Bad : \A t \in Bad : t \subseteq s => t = s
  <2> HIDE DEF Bad
  <2> QED
    BY <1>1, <1>2, SmallestSubset
<1>4. \A x \in s : s \ {x} \in G
  BY <1>3
<1> QED
  BY <1>4

\* What is folded over a finite set, one element after the other, exists.
LEMMA Iteration ==
    ASSUME NEW D, IsFiniteSet(D), NEW V, NEW base \in V,
           NEW pick, Picks(pick, D),
           NEW step \in [D \X V -> V]
    PROVE  \E it \in [SUBSET D -> V] : Folds(it, D, base, pick, step)
<1> DEFINE Next(it) == [s \in SUBSET D |->
                          IF s = {} THEN base
                          ELSE step[<<pick[s], it[s \ {pick[s]}]>>]]
           Upto(it, n) == \A s \in SUBSET D :
                             Cardinality(s) <= n => it[s] = Next(it)[s]
           Missing == {n \in Nat : ~ \E it \in [SUBSET D -> V] : Upto(it, n)}
<1>1. ASSUME NEW it \in [SUBSET D -> V]
      PROVE  Next(it) \in [SUBSET D -> V]
  <2>1. ASSUME NEW s \in SUBSET D, s # {}
        PROVE  step[<<pick[s], it[s \ {pick[s]}]>>] \in V
    <3>1. pick[s] \in D /\ s \ {pick[s]} \in SUBSET D
      BY <2>1 DEF Picks
    <3> QED
      BY <3>1
  <2> QED
    BY <2>1
<1>2. \A s \in SUBSET D : IsFiniteSet(s) /\ Cardinality(s) \in Nat
  BY FS_Subset, FS_CardinalityType
<1>3. 0 \notin Missing
  <2> DEFINE it == [s \in SUBSET D |-> base]
  <2>1. \A s \in SUBSET D : Cardinality(s) <= 0 => s = {}
    BY <1>2, FS_EmptySet
  <2>2. it \in [SUBSET D -> V] /\ Upto(it, 0)
    BY <2>1
  <2> QED
    BY <2>2
<1>4. ASSUME NEW n \in Nat, n \notin Missing
      PROVE  n + 1 \notin Missing
  <2>1. PICK it \in [SUBSET D -> V] : Upto(it, n)
    BY <1>4
  <2>2. ASSUME NEW s \in SUBSET D, Cardinality(s) <= n + 1
        PROVE  Next(it)[s] = Next(Next(it))[s]
    <3>1. CASE s = {}
      BY <3>1
    <3>2. CASE s # {}
      <4> DEFINE r == s \ {pick[s]}
      <4>1. pick[s] \in s /\ r \in SUBSET D
        BY <3>2 DEF Picks
      <4>2. Cardinality(r) <= n
        BY <1>2, <2>2, <4>1, FS_RemoveElement
      <4>3. it[r] = Next(it)[r]
        BY <2>1, <4>1, <4>2
      <4> HIDE DEF r
      <4>4. Next(it)[s] = step[<<pick[s], it[r]>>]
        BY <3>2 DEF r
      <4>5. Next(Next(it))[s] = step[<<pick[s], Next(it)[r]>>]
        BY <3>2 DEF r
      <4> QED
        BY <4>3, <4>4, <4>5
    <3> QED
      BY <3>1, <3>2
  <2>3. Upto(Next(it), n + 1)
    BY <2>2
  <2> QED
    BY <1>1, <2>3
<1>5. Missing = {}
  <2>1. SUFFICES ASSUME Missing # {} PROVE FALSE
    OBVIOUS
  <2>2. PICK m \in Missing : \A k \in Missing : m <= k
    BY <2>1, LeastNatural
  <2>3. m \in Nat /\ m # 0
    BY <1>3
  <2> HIDE DEF Missing
  <2>4. m - 1 \in Nat /\ (m - 1) + 1 = m
    BY <2>3
  <2>5. m - 1 \notin Missing
    BY <2>2, <2>4
  <2> QED
    BY <1>4, <2>4, <2>5
<1>6. PICK it \in [SUBSET D -> V] : Upto(it, Cardinality(D))
  <2>1. Cardinality(D) \in Nat
    BY <1>2
  <2> QED
    BY <1>5, <2>1
<1>7. \A s \in SUBSET D : Cardinality(s) <= Cardinality(D)
  BY FS_Subset
<1> QED
  BY <1>6, <1>7 DEF Folds

\* "step" may be applied to the elements in any order.
Commutes(step, D, V) ==
    \A x, y \in D : \A v \in V :
        step[<<x, step[<<y, v>>]>>] = step[<<y, step[<<x, v>>]>>]

\* Whichever element of a set comes last, "it" applies "step" to it.
AnyFirst(it, D, step) ==
    \A s \in SUBSET D : \A x \in s : it[s] = step[<<x, it[s \ {x}]>>]

\* What is folded does not depend on which element is chosen last.
LEMMA FoldsAnyFirst ==
    ASSUME NEW D, IsFiniteSet(D), NEW V, NEW base, NEW pick, Picks(pick, D),
           NEW step \in [D \X V -> V], Commutes(step, D, V),
           NEW it \in [SUBSET D -> V], Folds(it, D, base, pick, step)
    PROVE  AnyFirst(it, D, step)
<1> DEFINE Any(s) == \A x \in s : it[s] = step[<<x, it[s \ {x}]>>]
           G == {s \in SUBSET D : Any(s)}
<1>1. ASSUME NEW s \in SUBSET D, \A x \in s : s \ {x} \in G, NEW x \in s
      PROVE  it[s] = step[<<x, it[s \ {x}]>>]
  <2> DEFINE y == pick[s]
             r == s \ {x, y}
  <2>1. y \in s /\ it[s] = step[<<y, it[s \ {y}]>>]
    BY DEF Picks, Folds
  <2>2. CASE x = y
    BY <2>1, <2>2
  <2>3. CASE x # y
    <3>1. Any(s \ {y}) /\ Any(s \ {x})
      BY <1>1, <2>1
    <3>2. /\ (s \ {y}) \ {x} = r
          /\ (s \ {x}) \ {y} = r
          /\ x \in s \ {y}
          /\ y \in s \ {x}
          /\ r \in SUBSET D
      BY <2>1, <2>3
    <3> HIDE DEF y
    <3>3. /\ it[s \ {y}] = step[<<x, it[r]>>]
          /\ it[s \ {x}] = step[<<y, it[r]>>]
      <4>1. it[s \ {y}] = step[<<x, it[(s \ {y}) \ {x}]>>]
        BY <3>1, <3>2
      <4>2. it[s \ {x}] = step[<<y, it[(s \ {x}) \ {y}]>>]
        BY <3>1, <3>2
      <4> HIDE DEF r
      <4> QED
        BY <3>2, <4>1, <4>2
    <3>4. it[r] \in V /\ x \in D /\ y \in D
      BY <2>1, <3>2
    <3>5. step[<<y, step[<<x, it[r]>>]>>] = step[<<x, step[<<y, it[r]>>]>>]
      BY <3>4 DEF Commutes
    <3> QED
      BY <2>1, <3>3, <3>5
  <2> QED
    BY <2>2, <2>3
<1>2. \A s \in SUBSET D : (\A x \in s : s \ {x} \in G) => s \in G
  BY <1>1
<1>3. \A s \in SUBSET D : s \in G
  <2> HIDE DEF G
  <2> QED
    BY <1>2, SetInduction
<1> QED
  BY <1>3 DEF AnyFirst

\* "it" folds "step" over the numbers up to n, from the first to the last, as
\* FoldLeft does over the elements of a sequence of length n.
FoldsLeft(it, n, base, step) ==
    \A s \in SUBSET (1 .. n) :
        it[s] = IF s = {} THEN base ELSE step[<<Max(s), it[s \ {Max(s)}]>>]

\* There is such a function.
LEMMA LeftIteration ==
    ASSUME NEW n \in Nat, NEW V, NEW base \in V, NEW step \in [(1 .. n) \X V -> V]
    PROVE  \E it \in [SUBSET (1 .. n) -> V] : FoldsLeft(it, n, base, step)
<1> DEFINE D == 1 .. n
           pick == [s \in SUBSET D |-> Max(s)]
<1>1. \A s \in SUBSET D : s # {} => Max(s) \in s
  <2> TAKE s \in SUBSET D
  <2>1. s \in SUBSET (0 .. n)
    OBVIOUS
  <2> QED
    BY <2>1, LargestNatural
<1>2. Picks(pick, D)
  BY <1>1 DEF Picks
<1>3. IsFiniteSet(D)
  BY FS_Interval
<1>4. \A s \in SUBSET D : pick[s] = Max(s)
  OBVIOUS
<1> HIDE DEF pick
<1>5. step \in [D \X V -> V]
  OBVIOUS
<1> HIDE DEF D
<1>6. \E it \in [SUBSET D -> V] : Folds(it, D, base, pick, step)
  BY <1>2, <1>3, <1>5, Iteration, Zenon
<1>7. \A it : Folds(it, D, base, pick, step) => FoldsLeft(it, n, base, step)
  BY <1>4 DEF Folds, FoldsLeft, D
<1> QED
  BY <1>6, <1>7 DEF D

\* The numbers up to i are those up to i - 1, and i.
LEMMA PrefixMax ==
    ASSUME NEW i \in Nat, i > 0
    PROVE  /\ 1 .. i # {}
           /\ Max(1 .. i) = i
           /\ (1 .. i) \ {i} = 1 .. i - 1
<1>1. i \in 1 .. i /\ (1 .. i) \ {i} = 1 .. i - 1
  OBVIOUS
<1>2. /\ Max(1 .. i) \in 1 .. i
      /\ \A k \in 1 .. i : k <= Max(1 .. i)
  <2>1. 1 .. i \in SUBSET (0 .. i) /\ 1 .. i # {}
    BY <1>1
  <2> QED
    BY <2>1, LargestNatural
<1> QED
  BY <1>1, <1>2

-----------------------------------------------------------------------------
\* "it" is the function by which SumFunctionOnSet computes the sum of f over S.
Sums(it, f, S) ==
    it = [s \in SUBSET S |->
            IF s = {} THEN 0
            ELSE LET x == CHOOSE x \in s : TRUE IN f[x] + it[s \ {x}]]

LEMMA SumsExist ==
    ASSUME NEW S, IsFiniteSet(S), NEW f, \A x \in S : f[x] \in Int
    PROVE  \E it : Sums(it, f, S)
<1> DEFINE pick == [s \in SUBSET S |-> CHOOSE x \in s : TRUE]
           step == [p \in S \X Int |-> f[p[1]] + p[2]]
<1>1. Picks(pick, S)
  BY DEF Picks
<1>2. step \in [S \X Int -> Int]
  OBVIOUS
<1> HIDE DEF pick, step
<1>3. PICK it \in [SUBSET S -> Int] : Folds(it, S, 0, pick, step)
  <2>1. 0 \in Int
    OBVIOUS
  <2> QED
    BY <1>1, <1>2, <2>1, Iteration, Zenon
<1>4. ASSUME NEW s \in SUBSET S, s # {}
      PROVE  it[s] = LET x == CHOOSE x \in s : TRUE IN f[x] + it[s \ {x}]
  <2> DEFINE x == CHOOSE x \in s : TRUE
  <2>1. pick[s] = x
    BY DEF pick
  <2>2. x \in S /\ s \ {x} \in SUBSET S
    BY <1>4
  <2> HIDE DEF x
  <2>3. it[s] = step[<<x, it[s \ {x}]>>] /\ it[s \ {x}] \in Int
    BY <1>3, <1>4, <2>1, <2>2 DEF Folds
  <2>4. it[s] = f[x] + it[s \ {x}]
    BY <2>2, <2>3 DEF step
  <2> QED
    BY <2>4 DEF x
<1>5. it = [s \in SUBSET S |->
            IF s = {} THEN 0
            ELSE LET x == CHOOSE x \in s : TRUE IN f[x] + it[s \ {x}]]
  BY <1>3, <1>4 DEF Folds
<1> QED
  BY <1>5 DEF Sums

\* The sums of f over the subsets of S: one element and the rest, whichever
\* element comes first.
IsSum(it, f, S) ==
    /\ it \in [SUBSET S -> Int]
    /\ it[{}] = 0
    /\ \A s \in SUBSET S : \A x \in s : it[s] = f[x] + it[s \ {x}]

\* The order in which SumFunctionOnSet chooses the elements does not matter.
LEMMA SumsAnyFirst ==
    ASSUME NEW S, IsFiniteSet(S), NEW f, \A x \in S : f[x] \in Int,
           NEW it, Sums(it, f, S)
    PROVE  IsSum(it, f, S)
<1> DEFINE First(s) == CHOOSE x \in s : TRUE
<1>1. /\ DOMAIN it = SUBSET S
      /\ it = [s \in SUBSET S |-> it[s]]
      /\ it[{}] = 0
  BY DEF Sums
<1>2. ASSUME NEW s \in SUBSET S, s # {}
      PROVE  /\ First(s) \in s
             /\ it[s] = f[First(s)] + it[s \ {First(s)}]
  BY <1>2 DEF Sums
<1> HIDE DEF First
<1>3. \A s \in SUBSET S : it[s] \in Int
  <2> DEFINE G == {s \in SUBSET S : it[s] \in Int}
  <2>1. ASSUME NEW s \in SUBSET S, \A x \in s : s \ {x} \in G
        PROVE  s \in G
    <3>1. CASE s = {}
      BY <1>1, <3>1
    <3>2. CASE s # {}
      <4>1. First(s) \in S /\ it[s \ {First(s)}] \in Int
        BY <1>2, <2>1, <3>2
      <4>2. f[First(s)] \in Int /\ it[s] = f[First(s)] + it[s \ {First(s)}]
        BY <1>2, <3>2, <4>1
      <4>3. it[s] \in Int
        BY <4>1, <4>2
      <4> QED
        BY <4>3
    <3> QED
      BY <3>1, <3>2
  <2> HIDE DEF G
  <2>2. \A s \in SUBSET S : s \in G
    BY <2>1, SetInduction
  <2> QED
    BY <2>2 DEF G
<1> DEFINE pick == [s \in SUBSET S |-> First(s)]
           step == [p \in S \X Int |-> f[p[1]] + p[2]]
<1>4. \A x \in S, v \in Int : f[x] \in Int /\ step[<<x, v>>] = f[x] + v
  OBVIOUS
<1>5. Picks(pick, S)
  BY <1>2 DEF Picks
<1>6. step \in [S \X Int -> Int]
  BY <1>4
<1>7. it \in [SUBSET S -> Int]
  BY <1>1, <1>3
<1> HIDE DEF step
<1>8. Folds(it, S, 0, pick, step)
  <2> SUFFICES ASSUME NEW s \in SUBSET S, s # {}
               PROVE  it[s] = step[<<First(s), it[s \ {First(s)}]>>]
    BY <1>1 DEF Folds
  <2>1. First(s) \in S /\ it[s \ {First(s)}] \in Int
    BY <1>2, <1>3
  <2> QED
    BY <1>2, <1>4, <2>1
<1>9. Commutes(step, S, Int)
  BY <1>4 DEF Commutes
<1> HIDE DEF pick
<1>10. AnyFirst(it, S, step)
  BY <1>5, <1>6, <1>7, <1>8, <1>9, FoldsAnyFirst
<1>11. ASSUME NEW s \in SUBSET S, NEW x \in s
       PROVE  it[s] = f[x] + it[s \ {x}]
  <2>1. x \in S /\ it[s \ {x}] \in Int
    BY <1>3
  <2> QED
    BY <1>4, <1>10, <2>1 DEF AnyFirst
<1> QED
  BY <1>1, <1>3, <1>11 DEF IsSum

\* What SumFunctionOnSet returns.
LEMMA SumOnSet ==
    ASSUME NEW S, IsFiniteSet(S), NEW f, \A x \in S : f[x] \in Int
    PROVE  \E it : IsSum(it, f, S) /\ SumFunctionOnSet(f, S) = it[S]
<1>1. SumFunctionOnSet(f, S) = (CHOOSE it : Sums(it, f, S))[S]
  BY DEF SumFunctionOnSet, FoldFunctionOnSet, MapThenFoldSet, Sums
<1>2. Sums(CHOOSE it : Sums(it, f, S), f, S)
  BY SumsExist
<1>3. IsSum(CHOOSE it : Sums(it, f, S), f, S)
  BY <1>2, SumsAnyFirst
<1> QED
  BY <1>1, <1>3

\* The sum depends on the elements summed up alone.
LEMMA SumsUnique ==
    ASSUME NEW S, NEW R, NEW f, NEW g, NEW it, NEW jt,
           IsSum(it, f, S), IsSum(jt, g, R),
           NEW T, IsFiniteSet(T), T \subseteq S, T \subseteq R,
           \A x \in T : f[x] = g[x]
    PROVE  it[T] = jt[T]
<1> DEFINE G == {s \in SUBSET T : it[s] = jt[s]}
<1>1. ASSUME NEW s \in SUBSET T, \A x \in s : s \ {x} \in G
      PROVE  s \in G
  <2>1. CASE s = {}
    BY <2>1 DEF IsSum
  <2>2. ASSUME NEW x \in s
        PROVE  it[s] = jt[s]
    <3>1. it[s] = f[x] + it[s \ {x}] /\ jt[s] = g[x] + jt[s \ {x}]
      BY <2>2 DEF IsSum
    <3>2. it[s \ {x}] = jt[s \ {x}] /\ f[x] = g[x]
      BY <1>1, <2>2
    <3> QED
      BY <3>1, <3>2
  <2> QED
    BY <2>1, <2>2
<1> HIDE DEF G
<1>2. \A s \in SUBSET T : s \in G
  BY <1>1, SetInduction
<1> QED
  BY <1>2 DEF G

-----------------------------------------------------------------------------
\* The sum over no element.
LEMMA SumEmpty ==
    ASSUME NEW f
    PROVE  SumFunctionOnSet(f, {}) = 0
<1>1. \E it : IsSum(it, f, {}) /\ SumFunctionOnSet(f, {}) = it[{}]
  BY SumOnSet, FS_EmptySet
<1> QED
  BY <1>1 DEF IsSum

\* The sum over a finite set of integers is one.
LEMMA SumType ==
    ASSUME NEW S, IsFiniteSet(S), NEW f, \A x \in S : f[x] \in Int
    PROVE  SumFunctionOnSet(f, S) \in Int
<1>1. \E it : IsSum(it, f, S) /\ SumFunctionOnSet(f, S) = it[S]
  BY SumOnSet
<1> QED
  BY <1>1 DEF IsSum

\* One element and the rest.
LEMMA SumRest ==
    ASSUME NEW S, IsFiniteSet(S), NEW f, \A x \in S : f[x] \in Int, NEW x \in S
    PROVE  SumFunctionOnSet(f, S) = f[x] + SumFunctionOnSet(f, S \ {x})
<1> DEFINE R == S \ {x}
<1>1. IsFiniteSet(R) /\ \A y \in R : f[y] \in Int
  BY FS_RemoveElement
<1> HIDE DEF R
<1>2. PICK it : IsSum(it, f, S) /\ SumFunctionOnSet(f, S) = it[S]
  BY SumOnSet
<1>3. PICK jt : IsSum(jt, f, R) /\ SumFunctionOnSet(f, R) = jt[R]
  BY <1>1, SumOnSet
<1>4. it[R] = jt[R]
  <2>1. R \subseteq S /\ R \subseteq R
    BY DEF R
  <2> QED
    BY <1>1, <1>2, <1>3, <2>1, SumsUnique
<1>5. it[S] = f[x] + it[R]
  BY <1>2 DEF IsSum, R
<1> QED
  BY <1>2, <1>3, <1>4, <1>5 DEF R

\* Functions that are equal on a set have the same sum over it.
LEMMA SumSame ==
    ASSUME NEW S, IsFiniteSet(S), NEW f, NEW g,
           \A x \in S : f[x] \in Int /\ f[x] = g[x]
    PROVE  SumFunctionOnSet(f, S) = SumFunctionOnSet(g, S)
<1>1. (\A x \in S : f[x] \in Int) /\ (\A x \in S : g[x] \in Int)
  OBVIOUS
<1>2. PICK it : IsSum(it, f, S) /\ SumFunctionOnSet(f, S) = it[S]
  BY <1>1, SumOnSet
<1>3. PICK jt : IsSum(jt, g, S) /\ SumFunctionOnSet(g, S) = jt[S]
  BY <1>1, SumOnSet
<1>4. it[S] = jt[S]
  BY <1>1, <1>2, <1>3, SumsUnique
<1> QED
  BY <1>2, <1>3, <1>4

\* The sum of natural numbers.
LEMMA SumNatural ==
    ASSUME NEW S, IsFiniteSet(S), NEW f, \A x \in S : f[x] \in Nat
    PROVE  SumFunctionOnSet(f, S) \in Nat
<1>1. \A x \in S : f[x] \in Int
  OBVIOUS
<1>2. PICK it : IsSum(it, f, S) /\ SumFunctionOnSet(f, S) = it[S]
  BY <1>1, SumOnSet
<1> DEFINE G == {s \in SUBSET S : it[s] \in Nat}
<1>3. ASSUME NEW s \in SUBSET S, \A x \in s : s \ {x} \in G
      PROVE  s \in G
  <2>1. CASE s = {}
    BY <1>2, <2>1 DEF IsSum
  <2>2. ASSUME NEW x \in s
        PROVE  it[s] \in Nat
    <3>1. it[s] = f[x] + it[s \ {x}]
      BY <1>2, <2>2 DEF IsSum
    <3>2. it[s \ {x}] \in Nat /\ f[x] \in Nat
      BY <1>3, <2>2
    <3> QED
      BY <3>1, <3>2
  <2> QED
    BY <2>1, <2>2
<1> HIDE DEF G
<1>4. \A s \in SUBSET S : s \in G
  BY <1>3, SetInduction
<1> QED
  BY <1>2, <1>4 DEF G
=============================================================================
