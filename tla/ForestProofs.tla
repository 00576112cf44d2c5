---------------------------- MODULE ForestProofs -----------------------------
(***************************************************************************)
(* Ids of shards are never given twice, no leaf is ever lost, the tree of  *)
(* the shards stays a tree, and the proofs that are given for keys lead to *)
(* the roots of their shards, for any readers, keys, loads and bounds.     *)
(***************************************************************************)
EXTENDS MerkleForest, DataTheorems, SequenceTheorems, TLAPS

\* The leaves there can be.
Hash == {Leaf(x) : x \in Key \cup Data}
            \cup UNION {Range(leaves) : leaves \in InitialLeaves}

ShardType == [Leaves : Seq(Hash), Load : Nat, ParentShard : Nat]

\* Some shard has an id that no shard, and no node of the tree, exceeds.  This
\* is what makes generateShardID right although it only looks at the shards:
\* a merge removes the largest id only when it makes a larger one.
LargestIsShard ==
    \E m \in DOMAIN shards :
        /\ \A id \in DOMAIN shards : id <= m
        /\ \A id \in DOMAIN nodes : id <= m

IndInv ==
    /\ IsMap(shards, Nat, ShardType)
    /\ DOMAIN nodes \subseteq Nat
    /\ LargestIsShard

\* A step only adds leaves, and gives ids above all that there were.
LeavesKept == AllLeaves(shards) \subseteq AllLeaves(shards')
IdsFresh ==
    \A id \in DOMAIN shards' \ DOMAIN shards :
        \A old \in DOMAIN nodes \cup DOMAIN shards : id > old

\* The forest starts with the root shard.
LEMMA InitInv == Init => IndInv
<1> SUFFICES ASSUME Init PROVE IndInv
  OBVIOUS
<1>1. PICK leaves \in InitialLeaves : shards = Put(EmptyMap, 0, Shard(leaves, 0, 0))
  BY DEF Init
<1>2. leaves \in Seq(Hash)
  <2>1. leaves \in Seq(Range(leaves)) /\ Range(leaves) \subseteq Hash
    BY ForestAssumption DEF Hash
  <2> QED
    BY <2>1
<1>3. Shard(leaves, 0, 0) \in ShardType
  BY <1>2 DEF Shard, ShardType
<1>4. IsMap(shards, Nat, ShardType) /\ DOMAIN shards = {0}
  BY <1>1, <1>3 DEF IsMap, Put, EmptyMap
<1>5. DOMAIN nodes = {0}
  BY DEF Init, Put, EmptyMap
<1> QED
  BY <1>4, <1>5 DEF IndInv, LargestIsShard

\* generateShardID gives the number after the largest.
LEMMA FreshId ==
    ASSUME IndInv
    PROVE  /\ GenerateShardID \in Nat
           /\ \A id \in DOMAIN shards \cup DOMAIN nodes : id < GenerateShardID
<1> DEFINE largest == Max(DOMAIN shards)
<1>1. DOMAIN shards \subseteq Nat /\ DOMAIN nodes \subseteq Nat
  BY DEF IndInv, IsMap
<1>2. PICK m \in DOMAIN shards : /\ \A id \in DOMAIN shards : id <= m
                                 /\ \A id \in DOMAIN nodes : id <= m
  BY DEF IndInv, LargestIsShard
<1>3. \A id \in DOMAIN shards : m >= id
  BY <1>1, <1>2
<1>4. largest \in DOMAIN shards /\ \A id \in DOMAIN shards : largest >= id
  BY <1>3 DEF Max
<1>5. GenerateShardID = largest + 1
  BY DEF GenerateShardID
<1> HIDE DEF largest
<1> QED
  BY <1>1, <1>2, <1>4, <1>5

\* Where one shard with a new id is stored, every other entry may stay or go:
\* the new id is the largest.
LEMMA StoredIsLargest ==
    ASSUME IndInv, NEW shard \in ShardType, NEW rest, IsMap(rest, Nat, ShardType),
           DOMAIN rest \subseteq DOMAIN shards,
           shards' = Put(rest, GenerateShardID, shard),
           DOMAIN nodes' \subseteq DOMAIN nodes \cup {GenerateShardID}
    PROVE  IndInv' /\ IdsFresh
<1>1. /\ GenerateShardID \in Nat
      /\ \A id \in DOMAIN shards \cup DOMAIN nodes : id < GenerateShardID
  BY FreshId
<1>2. IsMap(shards', Nat, ShardType)
  BY <1>1, PutIsMap
<1>3. DOMAIN shards' = DOMAIN rest \cup {GenerateShardID}
  BY PutValue
<1>4. DOMAIN nodes' \subseteq Nat
  BY <1>1 DEF IndInv
<1>5. \A id \in DOMAIN shards \cup DOMAIN nodes : id \in Nat
  BY DEF IndInv, IsMap
<1>6. IdsFresh
  BY <1>1, <1>3, <1>5 DEF IdsFresh
<1>7. LargestIsShard'
  <2>1. \A id \in DOMAIN shards' : id <= GenerateShardID
    BY <1>1, <1>3, <1>5
  <2>2. \A id \in DOMAIN nodes' : id <= GenerateShardID
    BY <1>1, <1>5
  <2> QED
    BY <1>3, <2>1, <2>2 DEF LargestIsShard
<1> QED
  BY <1>2, <1>4, <1>6, <1>7 DEF IndInv

\* Where no id comes or goes the invariant needs only the types.
LEMMA SameIds ==
    ASSUME IndInv, IsMap(shards', Nat, ShardType),
           DOMAIN shards' = DOMAIN shards, nodes' = nodes
    PROVE  IndInv' /\ IdsFresh
BY DEF IndInv, LargestIsShard, IdsFresh

\* A map that keeps, for each shard, the leaves in some shard loses none.
LEMMA KeptSomewhere ==
    ASSUME \A id \in DOMAIN shards : \E id2 \in DOMAIN shards' :
               Range(shards[id].Leaves) \subseteq Range(shards'[id2].Leaves)
    PROVE  LeavesKept
BY DEF LeavesKept, AllLeaves

\* A split stores one shard and touches no other.
LEMMA SplitStep ==
    ASSUME IndInv, NEW id \in DOMAIN shards, SplitShard(id)
    PROVE  IndInv' /\ IdsFresh /\ LeavesKept
<1> DEFINE child == GenerateShardID
           mid == Len(shards[id].Leaves) \div 2
           leaves == SubSeq(shards[id].Leaves, mid + 1, Len(shards[id].Leaves))
           shard == Shard(leaves, shards[id].Load \div 2, id)
<1>1. shards' = Put(shards, child, shard)
  BY DEF SplitShard, SplitState
<1>2. shards[id] \in ShardType /\ id \in Nat
  BY MapEntry DEF IndInv
<1>3. shards[id].Leaves \in Seq(Hash) /\ shards[id].Load \in Nat
  BY <1>2 DEF ShardType
<1>4. mid \in Nat /\ leaves \in Seq(Hash)
  <2>1. \A n \in Nat : n \div 2 \in Nat /\ n \div 2 <= n
    OBVIOUS
  <2>2. Len(shards[id].Leaves) \in Nat
    BY <1>3
  <2>3. mid \in Nat
    BY <2>1, <2>2
  <2>4. \A seq \in Seq(Hash), i \in Nat : SubSeq(seq, i + 1, Len(seq)) \in Seq(Hash)
    BY SubSeqProperties
  <2> QED
    BY <1>3, <2>3, <2>4
<1>5. shard \in ShardType
  BY <1>2, <1>3, <1>4 DEF Shard, ShardType
<1>6. DOMAIN nodes' \subseteq DOMAIN nodes \cup {child}
  <2>1. AddChildNodes(id, child, child)
    BY DEF SplitShard
  <2>2. CASE id \notin nodeMap
    BY <2>1, <2>2 DEF AddChildNodes, tree
  <2>3. CASE id \in nodeMap
    <3> DEFINE parents == [nodes EXCEPT ![id].Children = <<child, child>>]
    <3>1. nodes' = Put(parents, child, [Parent |-> id, Children |-> << >>])
      BY <2>1, <2>3 DEF AddChildNodes
    <3>2. DOMAIN parents = DOMAIN nodes
      OBVIOUS
    <3> HIDE DEF parents, child
    <3> QED
      BY <3>1, <3>2 DEF Put
  <2> QED
    BY <2>2, <2>3
<1>7. \A x \in DOMAIN shards : x \in DOMAIN shards' /\ shards'[x] = shards[x]
  <2>1. child \notin DOMAIN shards
    BY FreshId DEF IndInv, IsMap
  <2> HIDE DEF child, shard
  <2> QED
    BY <1>1, <2>1 DEF Put
<1> HIDE DEF child, mid, leaves, shard
<1>8. IsMap(shards, Nat, ShardType)
  BY DEF IndInv
<1>9. LeavesKept
  BY <1>7, KeptSomewhere
<1> QED
  BY <1>1, <1>5, <1>6, <1>8, <1>9, StoredIsLargest DEF child

\* A merge stores one shard with the leaves of the two it removes.
LEMMA MergeStep ==
    ASSUME IndInv, MergeShards
    PROVE  IndInv' /\ IdsFresh /\ LeavesKept
<1> DEFINE id1 == Head(operations)[1]
           id2 == Head(operations)[2]
           merged == GenerateShardID
           shard == Shard(shards[id1].Leaves \o shards[id2].Leaves,
                          shards[id1].Load + shards[id2].Load, 0)
           rest == Delete(Delete(shards, id1), id2)
<1>1. /\ id1 \in DOMAIN shards
      /\ id2 \in DOMAIN shards
      /\ shards' = Put(rest, merged, shard)
      /\ ReplaceNodes(id1, id2, merged)
  BY DEF MergeShards
<1>2. /\ shards[id1] \in ShardType
      /\ shards[id2] \in ShardType
  BY <1>1, MapEntry DEF IndInv
<1>3. /\ shards[id1].Leaves \in Seq(Hash)
      /\ shards[id2].Leaves \in Seq(Hash)
      /\ shards[id1].Load + shards[id2].Load \in Nat
  BY <1>2 DEF ShardType
<1> HIDE DEF id1, id2, merged
<1>4. /\ shard \in ShardType
      /\ shard.Leaves = shards[id1].Leaves \o shards[id2].Leaves
  <2> DEFINE leaves == shards[id1].Leaves \o shards[id2].Leaves
             load == shards[id1].Load + shards[id2].Load
  <2>1. leaves \in Seq(Hash) /\ load \in Nat
    BY <1>3, ConcatProperties
  <2>2. shard = [Leaves |-> leaves, Load |-> load, ParentShard |-> 0]
    BY DEF Shard
  <2> HIDE DEF leaves, load, shard
  <2>3. shard \in ShardType /\ shard.Leaves = leaves
    BY <2>1, <2>2 DEF ShardType
  <2> QED
    BY <2>3 DEF leaves
<1> HIDE DEF shard
<1>5. IsMap(rest, Nat, ShardType) /\ DOMAIN rest \subseteq DOMAIN shards
  BY DEF IndInv, IsMap, Delete
<1>6. DOMAIN nodes' \subseteq DOMAIN nodes \cup {merged}
  <2> DEFINE parent == nodes[id1].Parent
             joins == {id1, id2} \subseteq nodeMap /\ nodes[id2].Parent = parent
             parents == [nodes EXCEPT ![parent].Children =
                           Append(OtherChildren(@, {id1, id2}), merged)]
  <2>1. CASE ~joins
    BY <1>1, <2>1 DEF ReplaceNodes, tree
  <2>2. CASE joins
    <3>1. nodes' = Put(parents, merged, [Parent |-> parent, Children |-> << >>])
      BY <1>1, <2>2 DEF ReplaceNodes
    <3>2. DOMAIN parents = DOMAIN nodes
      OBVIOUS
    <3> HIDE DEF parents, parent
    <3> QED
      BY <3>1, <3>2 DEF Put
  <2> QED
    BY <2>1, <2>2
<1>7. LeavesKept
  <2> SUFFICES ASSUME NEW id \in DOMAIN shards
               PROVE  \E x \in DOMAIN shards' :
                        Range(shards[id].Leaves) \subseteq Range(shards'[x].Leaves)
    BY KeptSomewhere
  <2>1. merged \in DOMAIN shards' /\ shards'[merged] = shard
    BY <1>1 DEF Put
  <2>2. CASE id \in {id1, id2}
    <3>1. Range(shard.Leaves) = Range(shards[id1].Leaves) \cup Range(shards[id2].Leaves)
      BY <1>3, <1>4, RangeConcatenation
    <3> QED
      BY <2>1, <2>2, <3>1
  <2>3. CASE id \notin {id1, id2}
    <3>1. merged \notin DOMAIN shards
      BY FreshId DEF IndInv, IsMap, merged
    <3>2. id \in DOMAIN shards' /\ shards'[id] = shards[id]
      BY <1>1, <2>3, <3>1 DEF Put, Delete
    <3> QED
      BY <3>2
  <2> QED
    BY <2>2, <2>3
<1> HIDE DEF rest
<1> QED
  BY <1>1, <1>4, <1>5, <1>6, <1>7, StoredIsLargest DEF merged

\* AddLeaf appends, in some of the shards.
LEMMA AddLeafStep ==
    ASSUME IndInv, NEW ids, NEW leaf \in Hash, AddLeaf(ids, leaf), UNCHANGED tree
    PROVE  IndInv' /\ IdsFresh /\ LeavesKept
<1>1. DOMAIN shards' = DOMAIN shards
  BY DEF AddLeaf
<1>2. ASSUME NEW id \in DOMAIN shards
      PROVE  /\ shards'[id] \in ShardType
             /\ Range(shards[id].Leaves) \subseteq Range(shards'[id].Leaves)
  <2>1. shards[id] \in ShardType
    BY MapEntry DEF IndInv
  <2>2. shards[id].Leaves \in Seq(Hash) /\ <<leaf>> \in Seq(Hash)
    BY <2>1 DEF ShardType
  <2>3. CASE id \in ids
    <3>1. shards'[id] = [shards[id] EXCEPT !.Leaves = Append(@, leaf)]
      BY <2>3 DEF AddLeaf
    <3>2. /\ shards'[id].Leaves = Append(shards[id].Leaves, leaf)
          /\ shards'[id] \in ShardType
      <4> DEFINE old == shards[id]
                 leaves == Append(old.Leaves, leaf)
      <4>1. leaves \in Seq(Hash)
        BY <2>2, AppendProperties
      <4>2. shards'[id] = [old EXCEPT !.Leaves = leaves]
        BY <3>1
      <4> HIDE DEF old, leaves
      <4>3. old \in ShardType
        BY <2>1 DEF old
      <4>4. shards'[id].Leaves = leaves /\ shards'[id] \in ShardType
        BY <4>1, <4>2, <4>3 DEF ShardType
      <4> QED
        BY <4>4 DEF leaves, old
    <3>3. Append(shards[id].Leaves, leaf) = shards[id].Leaves \o <<leaf>>
      BY <2>2, AppendIsConcat
    <3>4. Range(shards[id].Leaves \o <<leaf>>)
            = Range(shards[id].Leaves) \cup Range(<<leaf>>)
      BY <2>2, RangeConcatenation
    <3> QED
      BY <3>2, <3>3, <3>4
  <2>4. CASE id \notin ids
    <3>1. shards'[id] = shards[id]
      BY <2>4 DEF AddLeaf
    <3> QED
      BY <2>1, <3>1
  <2> QED
    BY <2>3, <2>4
<1>3. IsMap(shards', Nat, ShardType)
  <2>1. shards' = [id \in DOMAIN shards |-> shards'[id]]
    BY DEF AddLeaf
  <2>2. DOMAIN shards \subseteq Nat
    BY DEF IndInv, IsMap
  <2> QED
    BY <1>1, <1>2, <2>1, <2>2 DEF IsMap
<1>4. LeavesKept
  BY <1>1, <1>2, KeptSomewhere
<1> QED
  BY <1>1, <1>3, <1>4, SameIds DEF tree

\* A measured load changes no leaf.
LEMMA SetLoadStep ==
    ASSUME IndInv, NEW id \in DOMAIN shards, NEW load \in Load, SetLoad(id, load)
    PROVE  IndInv' /\ IdsFresh /\ LeavesKept
<1>1. /\ shards' = [shards EXCEPT ![id].Load = load]
      /\ nodes' = nodes
      /\ load \in Nat
  BY ForestAssumption DEF SetLoad, tree
<1>2. shards \in [DOMAIN shards -> ShardType] /\ DOMAIN shards \subseteq Nat
  BY DEF IndInv, IsMap
<1>3. DOMAIN shards' = DOMAIN shards /\ IsMap(shards', Nat, ShardType)
  BY <1>1, <1>2 DEF IsMap, ShardType
<1>4. \A x \in DOMAIN shards : shards'[x].Leaves = shards[x].Leaves
  BY <1>1, <1>2 DEF ShardType
<1>5. LeavesKept
  BY <1>3, <1>4, KeptSomewhere
<1> QED
  BY <1>1, <1>3, <1>5, SameIds

\* Everything else leaves shards and tree alone.
LEMMA IdleStep ==
    ASSUME IndInv, UNCHANGED <<shards, nodes>>
    PROVE  IndInv' /\ IdsFresh /\ LeavesKept
BY DEF IndInv, LargestIsShard, IdsFresh, LeavesKept, AllLeaves

\* Every step keeps the invariant and every leaf, and gives fresh ids.
LEMMA NextStep == IndInv /\ [Next]_vars => IndInv' /\ IdsFresh /\ LeavesKept
<1> SUFFICES ASSUME IndInv, [Next]_vars PROVE IndInv' /\ IdsFresh /\ LeavesKept
  OBVIOUS
<1>1. CASE \E id \in DOMAIN shards : SplitShard(id)
  BY <1>1, SplitStep
<1>2. CASE MergeShards
  BY <1>2, MergeStep
<1>3. ASSUME NEW r \in Reader, NEW id, NEW key \in Key, AddKey(r, id, key)
      PROVE  IndInv' /\ IdsFresh /\ LeavesKept
  BY <1>3, AddLeafStep DEF AddKey, Hash
<1>4. ASSUME NEW ids \in ShardLists, NEW leaf \in Data, CrossShardOperation(ids, leaf)
      PROVE  IndInv' /\ IdsFresh /\ LeavesKept
  BY <1>4, AddLeafStep DEF CrossShardOperation, Hash
<1>5. CASE \E id \in DOMAIN shards, load \in Load : SetLoad(id, load)
  BY <1>5, SetLoadStep
<1>6. CASE \/ AnalyzeShardLoads \/ MergeFails \/ IntervalEnds \/ UNCHANGED vars
           \/ \E r \in Reader : ReturnProof(r)
  BY <1>6, IdleStep
     DEF AnalyzeShardLoads, MergeFails, IntervalEnds, ReturnProof, tree, vars
<1> QED
  BY <1>1, <1>2, <1>3, <1>4, <1>5, <1>6 DEF Next

\* The largest id that there ever was belongs to a shard, and every shard has
\* its type.
THEOREM Invariant == Spec => []IndInv
<1>1. IndInv /\ [Next]_vars => IndInv'
  BY NextStep
<1> QED
  BY <1>1, InitInv, PTL DEF Spec

\* generateShardID never gives an id that a shard or a node had before, in
\* whatever order shards are split and merged.
THEOREM IdsFreshAlways == Spec => IdsNeverReused
<1>1. IndInv /\ [Next]_vars =>
        [\A id \in DOMAIN shards' \ DOMAIN shards :
            \A old \in DOMAIN nodes \cup DOMAIN shards : id > old]_vars
  BY NextStep DEF IdsFresh
<1> QED
  BY <1>1, Invariant, PTL DEF Spec, IdsNeverReused

\* Splits, merges that succeed or fail half way, and concurrent readers never
\* remove a leaf from the forest.
THEOREM LeavesNeverLost == Spec => NothingLost
<1>1. IndInv /\ [Next]_vars => [AllLeaves(shards) \subseteq AllLeaves(shards')]_vars
  BY NextStep DEF LeavesKept
<1> QED
  BY <1>1, Invariant, PTL DEF Spec, NothingLost
-----------------------------------------------------------------------------
\* "it" is the function by which OtherChildren is computed.
Keeps(it, children, ids) ==
    it = [s \in SUBSET (DOMAIN children) |->
            IF s = {} THEN << >>
            ELSE LET x == Max(s)
                 IN  IF children[x] \in ids THEN it[s \ {x}]
                     ELSE Append(it[s \ {x}], children[x])]

\* The function exists.
LEMMA KeepsExists ==
    ASSUME NEW V, NEW children \in Seq(V), NEW ids
    PROVE  \E it : Keeps(it, children, ids)
<1> DEFINE n == Len(children)
           S == Seq(V)
           step == [p \in (1 .. n) \X S |->
                      IF children[p[1]] \in ids THEN p[2]
                      ELSE Append(p[2], children[p[1]])]
<1>1. n \in Nat /\ DOMAIN children = 1 .. n /\ \A i \in 1 .. n : children[i] \in V
  OBVIOUS
<1> HIDE DEF n
<1>2. \A v \in S, x \in V : Append(v, x) \in S
  OBVIOUS
<1>3. << >> \in S
  OBVIOUS
<1> HIDE DEF S
<1>4. step \in [(1 .. n) \X S -> S]
  BY <1>1, <1>2
<1>5. \A i \in 1 .. n, v \in S :
         step[<<i, v>>] = IF children[i] \in ids THEN v ELSE Append(v, children[i])
  OBVIOUS
<1> HIDE DEF step
<1>6. PICK it \in [SUBSET (1 .. n) -> S] : FoldsLeft(it, n, << >>, step)
  BY <1>1, <1>3, <1>4, LeftIteration
<1>7. ASSUME NEW s \in SUBSET (1 .. n), s # {}
      PROVE  /\ Max(s) \in s
             /\ it[s] = IF children[Max(s)] \in ids THEN it[s \ {Max(s)}]
                        ELSE Append(it[s \ {Max(s)}], children[Max(s)])
  <2>1. s \in SUBSET (0 .. n)
    OBVIOUS
  <2>2. Max(s) \in s
    BY <1>1, <1>7, <2>1, LargestNatural
  <2>3. it[s \ {Max(s)}] \in S
    BY <1>6
  <2>4. it[s] = step[<<Max(s), it[s \ {Max(s)}]>>]
    BY <1>6, <1>7 DEF FoldsLeft
  <2> QED
    BY <1>5, <2>2, <2>3, <2>4
<1>8. it[{}] = << >>
  BY <1>6 DEF FoldsLeft
<1>9. Keeps(it, children, ids)
  BY <1>1, <1>6, <1>7, <1>8 DEF Keeps
<1> QED
  BY <1>9

\* One more child.
LEMMA KeepsOne ==
    ASSUME NEW V, NEW C, NEW ids, NEW kept \in Seq(V), NEW child \in V, child \in C,
           Range(kept) \subseteq C \ ids
    PROVE  LET new == IF child \in ids THEN kept ELSE Append(kept, child)
           IN  new \in Seq(V) /\ Range(new) \subseteq C \ ids
<1>1. CASE child \in ids
  BY <1>1
<1>2. CASE child \notin ids
  <2> DEFINE last == <<child>>
  <2>1. /\ Append(kept, child) \in Seq(V)
        /\ Append(kept, child) = kept \o last
    BY AppendProperties, AppendIsConcat
  <2>2. Range(kept \o last) = Range(kept) \cup Range(last)
    <3>1. last \in Seq(V)
      OBVIOUS
    <3> HIDE DEF last
    <3> QED
      BY <3>1, RangeConcatenation
  <2>3. Range(last) = {child}
    BY DEF Range
  <2> HIDE DEF last
  <2> QED
    BY <1>2, <2>1, <2>2, <2>3
<1> QED
  BY <1>1, <1>2

\* What is kept are the children that are not in "ids".
LEMMA OthersKept ==
    ASSUME NEW V, NEW children \in Seq(V), NEW ids
    PROVE  /\ OtherChildren(children, ids) \in Seq(V)
           /\ Range(OtherChildren(children, ids)) \subseteq Range(children) \ ids
<1> DEFINE n == Len(children)
           it == CHOOSE it : Keeps(it, children, ids)
           kept == [i \in 0 .. n |-> it[1 .. i]]
           C == Range(children)
           G == {i \in 0 .. n : kept[i] \in Seq(V) /\ Range(kept[i]) \subseteq C \ ids}
<1>1. n \in Nat /\ DOMAIN children = 1 .. n
      /\ \A i \in 1 .. n : children[i] \in V /\ children[i] \in C
  BY DEF Range
<1>2. OtherChildren(children, ids) = it[1 .. n]
  BY <1>1 DEF OtherChildren, FoldLeft, MapThenFoldSet, Keeps
<1>3. Keeps(it, children, ids)
  BY KeepsExists
<1> HIDE DEF it, n
<1>4. kept[0] = << >>
  <2>1. it[{}] = << >> /\ 1 .. 0 = {}
    BY <1>3 DEF Keeps
  <2> QED
    BY <1>1, <2>1
<1>5. ASSUME NEW i \in 1 .. n
      PROVE  kept[i] = IF children[i] \in ids THEN kept[i - 1]
                       ELSE Append(kept[i - 1], children[i])
  <2>1. i \in Nat /\ i > 0
    BY <1>1
  <2>2. 1 .. i # {} /\ Max(1 .. i) = i /\ (1 .. i) \ {i} = 1 .. i - 1
    BY <2>1, PrefixMax
  <2>3. 1 .. i \in SUBSET (DOMAIN children)
    BY <1>1
  <2>4. it[1 .. i] = IF children[i] \in ids THEN it[1 .. i - 1]
                     ELSE Append(it[1 .. i - 1], children[i])
    BY <1>3, <2>2, <2>3 DEF Keeps
  <2>5. kept[i] = it[1 .. i] /\ kept[i - 1] = it[1 .. i - 1]
    BY <1>1
  <2> QED
    BY <2>4, <2>5
<1>6. kept[n] = it[1 .. n]
  BY <1>1
<1> HIDE DEF kept, C
<1>7. 0 \in G
  <2>1. kept[0] \in Seq(V) /\ Range(kept[0]) = {}
    BY <1>4 DEF Range
  <2>2. 0 \in 0 .. n
    BY <1>1
  <2> QED
    BY <2>1, <2>2
<1>8. ASSUME NEW i \in 1 .. n, i - 1 \in G
      PROVE  i \in G
  <2>1. kept[i - 1] \in Seq(V) /\ Range(kept[i - 1]) \subseteq C \ ids
    BY <1>8
  <2>2. children[i] \in V /\ children[i] \in C
    BY <1>1
  <2> DEFINE before == kept[i - 1]
             child == children[i]
             new == IF child \in ids THEN before ELSE Append(before, child)
  <2>3. new \in Seq(V) /\ Range(new) \subseteq C \ ids
    <3> HIDE DEF before, child
    <3>1. before \in Seq(V) /\ Range(before) \subseteq C \ ids
      BY <2>1 DEF before
    <3>2. child \in V /\ child \in C
      BY <2>2 DEF child
    <3> QED
      BY <3>1, <3>2, KeepsOne, Zenon
  <2>4. kept[i] = new
    BY <1>5
  <2>5. i \in 0 .. n
    BY <1>1
  <2> HIDE DEF new
  <2> QED
    BY <2>3, <2>4, <2>5
<1> HIDE DEF G
<1>9. \A i \in 0 .. n : i \in G
  BY <1>1, <1>7, <1>8, UptoInduction
<1>10. n \in G
  BY <1>1, <1>9
<1> QED
  BY <1>2, <1>6, <1>10 DEF G, C

\* The tree after a node with a new id is stored under "parent", whose list of
\* children becomes "list", and the nodes "gone", children of "parent", leave.
LEMMA NodeStored ==
    ASSUME TreeInv, NEW parent \in DOMAIN nodes, NEW fresh \in Nat,
           fresh \notin DOMAIN nodes, NEW gone \in SUBSET nodeMap,
           \A x \in gone : nodes[x].Parent = parent,
           NEW list \in Seq(Nat),
           \A x \in Range(list) :
              \/ x = fresh
              \/ parent \in nodeMap => x \in nodeMap \ gone /\ nodes[x].Parent = parent,
           nodes' = Put([nodes EXCEPT ![parent].Children = list], fresh,
                        [Parent |-> parent, Children |-> << >>]),
           nodeMap' = (nodeMap \ gone) \cup {fresh}
    PROVE  TreeInv'
<1> DEFINE changed == [nodes EXCEPT ![parent].Children = list]
           new == [Parent |-> parent, Children |-> << >>]
<1>1. IsMap(nodes, Nat, ForestNode) /\ nodeMap \subseteq DOMAIN nodes
  BY DEF TreeInv
<1>2. new \in ForestNode /\ new.Parent = parent /\ new.Children = << >>
  BY <1>1 DEF ForestNode, IsMap
<1>3. /\ DOMAIN changed = DOMAIN nodes
      /\ \A x \in DOMAIN nodes :
            /\ changed[x] \in ForestNode
            /\ changed[x].Parent = nodes[x].Parent
            /\ changed[x].Children = IF x = parent THEN list ELSE nodes[x].Children
  <2>1. DOMAIN changed = DOMAIN nodes
    OBVIOUS
  <2>2. ASSUME NEW x \in DOMAIN nodes
        PROVE  /\ changed[x] \in ForestNode
               /\ changed[x].Parent = nodes[x].Parent
               /\ changed[x].Children = IF x = parent THEN list ELSE nodes[x].Children
    <3>1. nodes[x] \in ForestNode
      BY <1>1, MapEntry
    <3>2. CASE x = parent
      <4>1. changed[x] = [nodes[x] EXCEPT !.Children = list]
        BY <3>2
      <4> HIDE DEF changed
      <4> QED
        BY <3>1, <3>2, <4>1 DEF ForestNode
    <3>3. CASE x # parent
      <4>1. changed[x] = nodes[x]
        BY <3>3
      <4> HIDE DEF changed
      <4> QED
        BY <3>1, <3>3, <4>1
    <3> QED
      BY <3>2, <3>3
  <2> QED
    BY <2>1, <2>2
<1> HIDE DEF changed, new
<1>4. nodes' = Put(changed, fresh, new)
  BY DEF changed, new
<1>5. /\ DOMAIN nodes' = DOMAIN nodes \cup {fresh}
      /\ nodes'[fresh] = new
      /\ \A x \in DOMAIN nodes : nodes'[x] = changed[x]
  BY <1>3, <1>4 DEF Put
<1>6. IsMap(nodes', Nat, ForestNode)
  <2>1. nodes' = [x \in DOMAIN nodes' |-> nodes'[x]]
    BY <1>4 DEF Put
  <2>2. \A x \in DOMAIN nodes' : nodes'[x] \in ForestNode
    BY <1>2, <1>3, <1>5
  <2>3. DOMAIN nodes' \subseteq Nat
    BY <1>1, <1>5 DEF IsMap
  <2> QED
    BY <2>1, <2>2, <2>3 DEF IsMap
<1>7. nodeMap' \subseteq DOMAIN nodes'
  BY <1>1, <1>5
<1>8. \A x \in DOMAIN nodes' :
         nodes'[x].Parent \in DOMAIN nodes' \/ (x = 0 /\ nodes'[x].Parent = NoParent)
  <2> SUFFICES ASSUME NEW x \in DOMAIN nodes'
               PROVE  nodes'[x].Parent \in DOMAIN nodes' \/ (x = 0 /\ nodes'[x].Parent = NoParent)
    OBVIOUS
  <2>1. CASE x = fresh
    BY <1>2, <1>5, <2>1
  <2>2. CASE x \in DOMAIN nodes
    <3>1. nodes'[x].Parent = nodes[x].Parent
      BY <1>3, <1>5, <2>2
    <3>2. nodes[x].Parent \in DOMAIN nodes \/ (x = 0 /\ nodes[x].Parent = NoParent)
      BY <2>2 DEF TreeInv
    <3> QED
      BY <1>5, <3>1, <3>2
  <2> QED
    BY <1>5, <2>1, <2>2
<1>9. ChildrenInTree'
  <2> SUFFICES ASSUME NEW id \in nodeMap', NEW i \in DOMAIN nodes'[id].Children
               PROVE  /\ nodes'[id].Children[i] \in nodeMap'
                      /\ nodes'[nodes'[id].Children[i]].Parent = id
    BY DEF ChildrenInTree
  <2> DEFINE child == nodes'[id].Children[i]
  <2>1. id # fresh
    BY <1>2, <1>5
  <2>2. id \in nodeMap /\ id \in DOMAIN nodes
    BY <1>1, <2>1
  <2>3. CASE id = parent
    <3>1. nodes'[id].Children = list
      BY <1>3, <1>5, <2>2, <2>3
    <3>2. child \in Range(list)
      BY <3>1 DEF Range
    <3> HIDE DEF child
    <3>3. CASE child = fresh
      <4>1. child \in nodeMap' /\ nodes'[child].Parent = id
        BY <1>2, <1>5, <2>3, <3>3
      <4> QED
        BY <4>1 DEF child
    <3>4. CASE child # fresh
      <4>1. child \in nodeMap \ gone /\ nodes[child].Parent = parent
        BY <2>2, <2>3, <3>2, <3>4
      <4>2. child \in nodeMap' /\ nodes'[child].Parent = id
        BY <1>1, <1>3, <1>5, <2>3, <4>1
      <4> QED
        BY <4>2 DEF child
    <3> QED
      BY <3>3, <3>4
  <2>4. CASE id # parent
    <3>1. nodes'[id].Children = nodes[id].Children
      BY <1>3, <1>5, <2>2, <2>4
    <3>2. child = nodes[id].Children[i] /\ i \in DOMAIN nodes[id].Children
      BY <3>1
    <3>3. child \in nodeMap /\ nodes[child].Parent = id
      BY <2>2, <3>2 DEF TreeInv, ChildrenInTree
    <3> HIDE DEF child
    <3>4. child \notin gone
      BY <2>4, <3>3
    <3>5. child \in nodeMap' /\ nodes'[child].Parent = id
      BY <1>1, <1>3, <1>5, <3>3, <3>4
    <3> QED
      BY <3>5 DEF child
  <2> QED
    BY <2>3, <2>4
<1> QED
  BY <1>6, <1>7, <1>8, <1>9 DEF TreeInv

\* The tree starts with its root.
LEMMA InitTree == Init => TreeInv /\ MergesOfTwo
<1> SUFFICES ASSUME Init PROVE TreeInv /\ MergesOfTwo
  OBVIOUS
<1>1. /\ DOMAIN nodes = {0}
      /\ nodes = [x \in {0} |-> [Parent |-> NoParent, Children |-> << >>]]
      /\ nodeMap = {0}
      /\ operations = << >>
  BY DEF Init, Put, EmptyMap
<1>2. /\ nodes[0].Parent = NoParent
      /\ nodes[0].Children = << >>
      /\ nodes[0] \in ForestNode
  BY <1>1 DEF ForestNode
<1>3. IsMap(nodes, Nat, ForestNode)
  BY <1>1, <1>2 DEF IsMap
<1>4. ChildrenInTree
  BY <1>1, <1>2 DEF ChildrenInTree
<1>5. MergesOfTwo
  BY <1>1 DEF MergesOfTwo
<1> QED
  BY <1>1, <1>2, <1>3, <1>4, <1>5 DEF TreeInv

\* Where the tree stays as it is, so does what is known of it.
LEMMA SameTree == TreeInv /\ UNCHANGED tree => TreeInv'
BY DEF TreeInv, ChildrenInTree, tree

\* A split makes a new child, twice in the list of its parent.
LEMMA SplitTree ==
    ASSUME IndInv, TreeInv, NEW id \in DOMAIN shards, SplitShard(id)
    PROVE  TreeInv'
<1> DEFINE child == GenerateShardID
<1>1. AddChildNodes(id, child, child)
  BY DEF SplitShard
<1>2. child \in Nat /\ child \notin DOMAIN nodes
  BY FreshId DEF IndInv
<1> HIDE DEF child
<1>3. CASE id \notin nodeMap
  BY <1>1, <1>3, SameTree DEF AddChildNodes
<1>4. CASE id \in nodeMap
  <2> DEFINE list == <<child, child>>
  <2>1. /\ nodes' = Put([nodes EXCEPT ![id].Children = list], child,
                        [Parent |-> id, Children |-> << >>])
        /\ nodeMap' = (nodeMap \ {}) \cup {child}
    BY <1>1, <1>4 DEF AddChildNodes
  <2>2. list \in Seq(Nat)
    BY <1>2
  <2>3. \A x \in Range(list) : x = child
    BY DEF Range
  <2>4. id \in DOMAIN nodes
    BY <1>4 DEF TreeInv
  <2> HIDE DEF list
  <2> QED
    BY <1>2, <2>1, <2>2, <2>3, <2>4, NodeStored
<1> QED
  BY <1>3, <1>4

\* A merge puts a new child in the place of two.
LEMMA MergeTree ==
    ASSUME IndInv, TreeInv, MergesOfTwo, MergeShards
    PROVE  TreeInv'
<1> DEFINE id1 == Head(operations)[1]
           id2 == Head(operations)[2]
           merged == GenerateShardID
           parent == nodes[id1].Parent
           gone == {id1, id2}
           joins == gone \subseteq nodeMap /\ nodes[id2].Parent = parent
<1>1. ReplaceNodes(id1, id2, merged)
  BY DEF MergeShards
<1>2. merged \in Nat /\ merged \notin DOMAIN nodes
  BY FreshId DEF IndInv
<1>3. id1 # id2
  BY DEF MergesOfTwo, MergeShards
<1> HIDE DEF id1, id2, merged
<1>4. CASE ~joins
  BY <1>1, <1>4, SameTree DEF ReplaceNodes
<1>5. CASE joins
  <2> DEFINE others == OtherChildren(nodes[parent].Children, gone)
             list == Append(others, merged)
  <2>1. nodeMap \subseteq DOMAIN nodes
    BY DEF TreeInv
  <2>2. parent \in DOMAIN nodes
    BY <1>3, <1>5, <2>1 DEF TreeInv
  <2>3. nodes[parent] \in ForestNode
    BY <2>2, MapEntry DEF TreeInv
  <2>4. nodes[parent].Children \in Seq(Nat)
    BY <2>3 DEF ForestNode
  <2> HIDE DEF parent
  <2>5. others \in Seq(Nat) /\ Range(others) \subseteq Range(nodes[parent].Children) \ gone
    BY <2>4, OthersKept
  <2>6. nodes' = Put([nodes EXCEPT ![parent].Children = list], merged,
                     [Parent |-> parent, Children |-> << >>])
    BY <1>1, <1>5 DEF ReplaceNodes, parent
  <2>7. nodeMap' = (nodeMap \ gone) \cup {merged}
    BY <1>1, <1>5 DEF ReplaceNodes, parent
  <2>8. gone \in SUBSET nodeMap /\ \A x \in gone : nodes[x].Parent = parent
    BY <1>5 DEF parent
  <2> HIDE DEF others, gone
  <2>9. list \in Seq(Nat) /\ Range(list) \subseteq Range(others) \cup {merged}
    <3>1. list \in Seq(Nat)
      BY <1>2, <2>5, AppendProperties
    <3>2. /\ DOMAIN list = 1 .. Len(others) + 1
          /\ \A i \in 1 .. Len(others) : list[i] = others[i] /\ i \in DOMAIN others
          /\ list[Len(others) + 1] = merged
      BY <2>5
    <3>3. Len(others) \in Nat
      BY <2>5
    <3> HIDE DEF list
    <3> QED
      BY <3>1, <3>2, <3>3 DEF Range
  <2> HIDE DEF list
  <2>10. ASSUME NEW x \in Range(list), x # merged, parent \in nodeMap
         PROVE  x \in nodeMap \ gone /\ nodes[x].Parent = parent
    <3>1. x \in Range(nodes[parent].Children) /\ x \notin gone
      BY <2>5, <2>9, <2>10
    <3>2. x \in nodeMap /\ nodes[x].Parent = parent
      BY <2>10, <3>1 DEF TreeInv, ChildrenInTree, Range
    <3> QED
      BY <3>1, <3>2
  <2> QED
    BY <1>2, <2>2, <2>6, <2>7, <2>8, <2>9, <2>10, NodeStored
<1> QED
  BY <1>4, <1>5

\* AnalyzeShardLoads asks only for merges of two different shards.
LEMMA AnalyzeMerges ==
    ASSUME IndInv, AnalyzeShardLoads
    PROVE  MergesOfTwo'
<1> DEFINE found == {id \in Underloaded : MergeCandidates(id) # {}}
<1>1. PICK f \in [found -> UNION {MergeCandidates(id) : id \in found}] :
        /\ \A id \in found : f[id] \in MergeCandidates(id)
        /\ \E order \in SetToSeqs({id \in found : f[id] # 0}) :
              operations' = [i \in DOMAIN order |-> <<order[i], f[order[i]]>>]
  BY DEF AnalyzeShardLoads, Merges
<1> DEFINE S == {id \in found : f[id] # 0}
           n == Cardinality(S)
<1>2. PICK order \in SetToSeqs(S) :
        operations' = [i \in DOMAIN order |-> <<order[i], f[order[i]]>>]
  BY <1>1
<1>3. DOMAIN shards \subseteq Nat
  BY DEF IndInv, IsMap
<1>4. \A id \in S : id \in DOMAIN shards /\ f[id] \in DOMAIN shards /\ f[id] # id
  BY <1>1 DEF Underloaded, MergeCandidates
<1>5. n \in Nat
  <2>1. PICK m \in DOMAIN shards : \A id \in DOMAIN shards : id <= m
    BY DEF IndInv, LargestIsShard
  <2>2. S \subseteq 0 .. m /\ m \in Nat
    BY <1>3, <1>4, <2>1
  <2> HIDE DEF S
  <2>3. IsFiniteSet(0 .. m)
    BY <2>2, FS_Interval
  <2>4. IsFiniteSet(S)
    BY <2>2, <2>3, FS_Subset
  <2> QED
    BY <2>4, FS_CardinalityType
<1>6. order \in [1 .. n -> S]
  BY DEF SetToSeqs
<1> HIDE DEF S, n, found
<1>7. /\ operations' = [i \in 1 .. n |-> <<order[i], f[order[i]]>>]
      /\ \A i \in 1 .. n : order[i] \in S
  BY <1>2, <1>6
<1>8. \A i \in 1 .. n : <<order[i], f[order[i]]>> \in Nat \X Nat
  BY <1>3, <1>4, <1>7
<1>9. operations' \in Seq(Nat \X Nat) /\ DOMAIN operations' = 1 .. n
  BY <1>5, <1>7, <1>8
<1>10. \A i \in DOMAIN operations' : operations'[i][1] # operations'[i][2]
  BY <1>4, <1>7, <1>9
<1> QED
  BY <1>9, <1>10 DEF MergesOfTwo

\* The rest of the merges are merges of two.
LEMMA RestOfMerges ==
    ASSUME MergesOfTwo, operations # << >>, operations' = Tail(operations)
    PROVE  MergesOfTwo'
<1> DEFINE Pair == Nat \X Nat
           rest == Tail(operations)
<1>1. operations \in Seq(Pair)
  BY DEF MergesOfTwo
<1> HIDE DEF Pair
<1>2. /\ rest \in Seq(Pair)
      /\ Len(rest) = Len(operations) - 1
      /\ \A i \in 1 .. Len(rest) : rest[i] = operations[i + 1]
  BY <1>1, HeadTailProperties
<1>3. DOMAIN operations = 1 .. Len(operations) /\ DOMAIN rest = 1 .. Len(rest)
      /\ Len(operations) \in Nat
  BY <1>1, <1>2
<1>4. operations' = rest
  OBVIOUS
<1> HIDE DEF rest
<1>5. ASSUME NEW i \in DOMAIN operations'
      PROVE  operations'[i][1] # operations'[i][2]
  <2>1. i \in 1 .. Len(rest) /\ i + 1 \in DOMAIN operations
    BY <1>2, <1>3, <1>4
  <2> QED
    BY <1>2, <1>4, <2>1 DEF MergesOfTwo
<1> QED
  BY <1>2, <1>4, <1>5 DEF MergesOfTwo, Pair

\* Every step keeps what is known of the tree.
LEMMA TreeStep == IndInv /\ TreeInv /\ MergesOfTwo /\ [Next]_vars => TreeInv' /\ MergesOfTwo'
<1> SUFFICES ASSUME IndInv, TreeInv, MergesOfTwo, [Next]_vars
             PROVE  TreeInv' /\ MergesOfTwo'
  OBVIOUS
<1>1. MergesOfTwo /\ UNCHANGED operations => MergesOfTwo'
  BY DEF MergesOfTwo
<1>2. CASE \E id \in DOMAIN shards : SplitShard(id)
  <2>1. UNCHANGED operations
    BY <1>2 DEF SplitShard
  <2> QED
    BY <1>1, <1>2, <2>1, SplitTree
<1>3. CASE AnalyzeShardLoads
  BY <1>3, SameTree, AnalyzeMerges DEF AnalyzeShardLoads
<1>4. CASE MergeShards
  <2>1. operations # << >> /\ operations' = Tail(operations)
    BY <1>4 DEF MergeShards
  <2> QED
    BY <1>4, <2>1, MergeTree, RestOfMerges
<1>5. CASE MergeFails
  <2>1. UNCHANGED tree /\ operations' = << >>
    BY <1>5 DEF MergeFails
  <2>2. MergesOfTwo'
    BY <2>1 DEF MergesOfTwo
  <2> QED
    BY <2>1, <2>2, SameTree
<1>6. CASE UNCHANGED <<tree, operations>>
  BY <1>1, <1>6, SameTree
<1>7. CASE \/ \E r \in Reader, id \in UNION ShardLists, key \in Key : AddKey(r, id, key)
           \/ \E r \in Reader : ReturnProof(r)
           \/ \E ids \in ShardLists, leaf \in Data : CrossShardOperation(ids, leaf)
           \/ \E id \in DOMAIN shards, load \in Load : SetLoad(id, load)
           \/ IntervalEnds
           \/ UNCHANGED vars
  <2>1. UNCHANGED <<tree, operations>>
    BY <1>7 DEF AddKey, ReturnProof, CrossShardOperation, SetLoad, IntervalEnds, vars
  <2> QED
    BY <1>6, <2>1
<1> QED
  BY <1>2, <1>3, <1>4, <1>5, <1>7 DEF Next

\* The tree of the shards stays a tree: whatever is split and merged, the
\* children of a node in the tree are in it and name it as their parent.
THEOREM ChildrenListed == Spec => []ChildrenInTree
<1>1. Init => TreeInv /\ MergesOfTwo
  BY InitTree
<1>2. IndInv /\ (TreeInv /\ MergesOfTwo) /\ [Next]_vars => (TreeInv /\ MergesOfTwo)'
  BY TreeStep
<1>3. TreeInv => ChildrenInTree
  BY DEF TreeInv
<1> QED
  BY <1>1, <1>2, <1>3, Invariant, PTL DEF Spec

-----------------------------------------------------------------------------
(***************************************************************************)
(* The tree of a shard and its proofs                                      *)
(***************************************************************************)
\* What is halved again and again.
LEMMA HalvedStep ==
    ASSUME NEW n \in Nat, NEW i
    PROVE  /\ Halved(i, n) = [k \in 0 .. n |-> Halved(i, n)[k]]
           /\ Halved(i, n)[0] = i
           /\ \A k \in 1 .. n : Halved(i, n)[k] = (Halved(i, n)[k - 1] + 1) \div 2
<1> DEFINE Value(half, k) == IF k = 0 THEN i ELSE (half[k - 1] + 1) \div 2
           G == {m \in Nat : \E half : half = [k \in 0 .. m |-> Value(half, k)]}
<1>1. 0 \in G
  <2> DEFINE half == [k \in 0 .. 0 |-> i]
  <2>1. half = [k \in 0 .. 0 |-> Value(half, k)]
    OBVIOUS
  <2> HIDE DEF half, Value
  <2> QED
    BY <2>1
<1>2. ASSUME NEW m \in 1 .. n, m - 1 \in G PROVE m \in G
  <2> PICK half : half = [k \in 0 .. m - 1 |-> Value(half, k)]
    BY <1>2
  <2> DEFINE longer == [k \in 0 .. m |-> IF k = m THEN Value(half, m) ELSE half[k]]
  <2>1. \A k \in 0 .. m : longer[k] = Value(longer, k)
    <3> TAKE k \in 0 .. m
    <3>1. CASE k = 0
      BY <3>1
    <3>2. CASE k # 0
      <4>1. k - 1 \in 0 .. m /\ k - 1 # m /\ (k # m => k \in 0 .. m - 1)
        BY <3>2
      <4>2. longer[k - 1] = half[k - 1]
        BY <4>1
      <4> QED
        BY <3>2, <4>1, <4>2
    <3> QED
      BY <3>1, <3>2
  <2>2. longer = [k \in 0 .. m |-> Value(longer, k)]
    BY <2>1
  <2> HIDE DEF longer, Value
  <2> QED
    BY <2>2
<1>3. n \in G
  <2>1. \A m \in 0 .. n : m \in G
    <3> HIDE DEF G
    <3> QED
      BY <1>1, <1>2, UptoInduction, Zenon
  <2>2. n \in 0 .. n
    OBVIOUS
  <2> QED
    BY <2>1, <2>2
<1>4. PICK half : half = [k \in 0 .. n |-> Value(half, k)]
  BY <1>3
<1>5. Halved(i, n) = [k \in 0 .. n |-> Value(Halved(i, n), k)]
  BY <1>4 DEF Halved
<1> HIDE DEF G
<1> DEFINE h == Halved(i, n)
<1>6. \A k \in 0 .. n : h[k] = Value(h, k)
  BY <1>5
<1>7. h = [k \in 0 .. n |-> h[k]]
  BY <1>5
<1>8. h[0] = i
  BY <1>6
<1>9. \A k \in 1 .. n : h[k] = (h[k - 1] + 1) \div 2
  BY <1>6
<1> QED
  BY <1>7, <1>8, <1>9, Zenon

Parents(level, width) ==
    [i \in 1 .. (width + 1) \div 2 |->
        ComputeHash(level[2 * i - 1],
                    level[IF 2 * i <= width THEN 2 * i ELSE 2 * i - 1])]

\* Each level of the tree is made from the one below.
LEMMA LevelStep ==
    ASSUME NEW leaves, Len(leaves) \in Nat
    PROVE  /\ BuildTree(leaves)[0] = leaves
           /\ \A k \in 1 .. Len(leaves) :
                 BuildTree(leaves)[k] =
                     Parents(BuildTree(leaves)[k - 1], Widths(leaves)[k - 1])
<1> DEFINE n == Len(leaves)
           width == Widths(leaves)
           Row(level, k) ==
               [i \in 1 .. width[k] |->
                  ComputeHash(level[k - 1][2 * i - 1],
                              level[k - 1][IF 2 * i <= width[k - 1]
                                           THEN 2 * i ELSE 2 * i - 1])]
           Value(level, k) == IF k = 0 THEN leaves ELSE Row(level, k)
           G == {m \in Nat : \E level : level = [k \in 0 .. m |-> Value(level, k)]}
<1> n \in Nat
  OBVIOUS
<1> HIDE DEF n
<1>1. 0 \in G
  <2> DEFINE level == [k \in 0 .. 0 |-> leaves]
  <2>1. level = [k \in 0 .. 0 |-> Value(level, k)]
    OBVIOUS
  <2> HIDE DEF level, Value
  <2> QED
    BY <2>1
<1>2. ASSUME NEW m \in 1 .. n, m - 1 \in G PROVE m \in G
  <2> PICK level : level = [k \in 0 .. m - 1 |-> Value(level, k)]
    BY <1>2
  <2> DEFINE longer == [k \in 0 .. m |-> IF k = m THEN Value(level, m) ELSE level[k]]
  <2>1. \A k \in 0 .. m : longer[k] = Value(longer, k)
    <3> TAKE k \in 0 .. m
    <3>1. CASE k = 0
      BY <3>1
    <3>2. CASE k # 0
      <4>1. k - 1 \in 0 .. m /\ k - 1 # m /\ (k # m => k \in 0 .. m - 1)
        BY <3>2
      <4>2. longer[k - 1] = level[k - 1]
        BY <4>1
      <4> QED
        BY <3>2, <4>1, <4>2
    <3> QED
      BY <3>1, <3>2
  <2>2. longer = [k \in 0 .. m |-> Value(longer, k)]
    BY <2>1
  <2> HIDE DEF longer, Value
  <2> QED
    BY <2>2
<1>3. n \in G
  <2>1. \A m \in 0 .. n : m \in G
    <3> HIDE DEF G
    <3> QED
      BY <1>1, <1>2, UptoInduction, Zenon
  <2>2. n \in 0 .. n
    OBVIOUS
  <2> QED
    BY <2>1, <2>2
<1>4. PICK level : level = [k \in 0 .. n |-> Value(level, k)]
  BY <1>3
<1>5. BuildTree(leaves) = [k \in 0 .. n |-> Value(BuildTree(leaves), k)]
  BY <1>4 DEF BuildTree, n
<1> HIDE DEF G
<1> DEFINE h == BuildTree(leaves)
<1>6. \A k \in 0 .. n : h[k] = Value(h, k)
  BY <1>5
<1> HIDE DEF h
<1>7. h[0] = leaves
  <2>1. 0 \in 0 .. n
    OBVIOUS
  <2> HIDE DEF Row
  <2> QED
    BY <1>6, <2>1
<1>8. ASSUME NEW k \in 1 .. n PROVE h[k] = Parents(h[k - 1], width[k - 1])
  <2>1. width[k] = (width[k - 1] + 1) \div 2
    BY HalvedStep DEF Widths, n
  <2>2. h[k] = Row(h, k)
    BY <1>6
  <2> HIDE DEF width
  <2> QED
    BY <2>1, <2>2 DEF Parents
<1> QED
  BY <1>7, <1>8 DEF h, n

\* The hash met after each node of a path.
Climbed(path, start, hash) ==
    /\ hash[0] = start
    /\ \A k \in 1 .. Len(path) :
          hash[k] = IF path[k].Position = "Left"
                    THEN ComputeHash(path[k].Hash, hash[k - 1])
                    ELSE ComputeHash(hash[k - 1], path[k].Hash)

\* Traverse goes up node by node.
LEMMA TraverseStep ==
    ASSUME NEW path, NEW start, Len(path) \in Nat
    PROVE  \E hash : /\ Climbed(path, start, hash)
                     /\ Traverse(path, start) = hash[Len(path)]
<1> DEFINE n == Len(path)
           Value(hash, k) ==
               IF k = 0 THEN start
               ELSE IF path[k].Position = "Left"
                    THEN ComputeHash(path[k].Hash, hash[k - 1])
                    ELSE ComputeHash(hash[k - 1], path[k].Hash)
           G == {m \in Nat : \E hash : hash = [k \in 0 .. m |-> Value(hash, k)]}
<1> n \in Nat
  OBVIOUS
<1> HIDE DEF n
<1>1. 0 \in G
  <2> DEFINE hash == [k \in 0 .. 0 |-> start]
  <2>1. hash = [k \in 0 .. 0 |-> Value(hash, k)]
    OBVIOUS
  <2> HIDE DEF hash, Value
  <2> QED
    BY <2>1
<1>2. ASSUME NEW m \in 1 .. n, m - 1 \in G PROVE m \in G
  <2> PICK hash : hash = [k \in 0 .. m - 1 |-> Value(hash, k)]
    BY <1>2
  <2> DEFINE longer == [k \in 0 .. m |-> IF k = m THEN Value(hash, m) ELSE hash[k]]
  <2>1. \A k \in 0 .. m : longer[k] = Value(longer, k)
    <3> TAKE k \in 0 .. m
    <3>1. CASE k = 0
      BY <3>1
    <3>2. CASE k # 0
      <4>1. k - 1 \in 0 .. m /\ k - 1 # m /\ (k # m => k \in 0 .. m - 1)
        BY <3>2
      <4>2. longer[k - 1] = hash[k - 1]
        BY <4>1
      <4> QED
        BY <3>2, <4>1, <4>2
    <3> QED
      BY <3>1, <3>2
  <2>2. longer = [k \in 0 .. m |-> Value(longer, k)]
    BY <2>1
  <2> HIDE DEF longer, Value
  <2> QED
    BY <2>2
<1>3. n \in G
  <2>1. \A m \in 0 .. n : m \in G
    <3> HIDE DEF G
    <3> QED
      BY <1>1, <1>2, UptoInduction, Zenon
  <2>2. n \in 0 .. n
    OBVIOUS
  <2> QED
    BY <2>1, <2>2
<1>4. \E hash : hash = [k \in 0 .. n |-> Value(hash, k)]
  BY <1>3
<1> DEFINE chosen == CHOOSE hash : hash = [k \in 0 .. n |-> Value(hash, k)]
<1>5. chosen = [k \in 0 .. n |-> Value(chosen, k)]
  BY <1>4
<1>6. Traverse(path, start) = chosen[n]
  BY DEF Traverse, n
<1> HIDE DEF G, chosen
<1>7. \A k \in 0 .. n : chosen[k] = Value(chosen, k)
  BY <1>5
<1>8. Climbed(path, start, chosen)
  BY <1>7 DEF Climbed, n
<1> QED
  BY <1>6, <1>8 DEF n

\* Halving makes the number of nodes less as long as it is not 1.
LEMMA WidthsFall ==
    ASSUME NEW leaves, Len(leaves) \in Nat \ {0}
    PROVE  /\ \A k \in 0 .. Len(leaves) : Widths(leaves)[k] \in Nat \ {0}
           /\ Widths(leaves)[Len(leaves)] = 1
<1> DEFINE n == Len(leaves)
           width == Widths(leaves)
           G == {k \in 0 .. n : /\ width[k] \in Nat \ {0}
                                /\ width[k] = 1 \/ width[k] <= n - k}
<1>1. /\ n \in Nat \ {0}
      /\ width[0] = n
      /\ \A k \in 1 .. n : width[k] = (width[k - 1] + 1) \div 2
  BY HalvedStep DEF Widths
<1> HIDE DEF n, width
<1>2. 0 \in G
  BY <1>1
<1>3. \A k \in 1 .. n : k - 1 \in G => k \in G
  <2> SUFFICES ASSUME NEW k \in 1 .. n, k - 1 \in G PROVE k \in G
    OBVIOUS
  <2> DEFINE w == width[k - 1]
  <2>1. w \in Nat \ {0} /\ (w = 1 \/ w <= n - (k - 1))
    OBVIOUS
  <2>2. width[k] = (w + 1) \div 2
    BY <1>1
  <2> HIDE DEF w
  <2>3. width[k] \in Nat \ {0} /\ (w = 1 => width[k] = 1) /\ (w # 1 => width[k] <= w - 1)
    BY <2>1, <2>2
  <2> QED
    BY <2>1, <2>3, <1>1
<1>4. \A k \in 0 .. n : k \in G
  <2>1. n \in Nat
    BY <1>1
  <2> HIDE DEF G
  <2> QED
    BY <1>2, <1>3, <2>1, UptoInduction, Zenon
<1>5. \A k \in 0 .. n : width[k] \in Nat \ {0} /\ (width[k] = 1 \/ width[k] <= n - k)
  BY <1>4
<1>6. width[n] = 1
  BY <1>1, <1>5
<1> QED
  BY <1>5, <1>6 DEF n, width

\* Six halvings of a number up to 64 leave at most 1.
LEMMA SixHalvings ==
    ASSUME NEW w0 \in Nat, w0 <= 64,
           NEW w1, NEW w2, NEW w3, NEW w4, NEW w5, NEW w6,
           w1 = (w0 + 1) \div 2, w2 = (w1 + 1) \div 2, w3 = (w2 + 1) \div 2,
           w4 = (w3 + 1) \div 2, w5 = (w4 + 1) \div 2, w6 = (w5 + 1) \div 2
    PROVE  w6 \in Nat /\ w6 <= 1
<1>1. w1 \in Nat /\ w1 <= 32
  OBVIOUS
<1>2. w2 \in Nat /\ w2 <= 16
  BY <1>1
<1>3. w3 \in Nat /\ w3 <= 8
  BY <1>2
<1>4. w4 \in Nat /\ w4 <= 4
  BY <1>3
<1>5. w5 \in Nat /\ w5 <= 2
  BY <1>4
<1> QED
  BY <1>5

\* The level of the root is the first of one node, and at most the sixth for
\* up to 64 leaves.
LEMMA RootLevel ==
    ASSUME NEW leaves, Len(leaves) \in Nat \ {0}
    PROVE  LET depth == Depth(Widths(leaves))
           IN  /\ depth \in 0 .. Len(leaves)
               /\ Widths(leaves)[depth] = 1
               /\ Len(leaves) <= 64 => depth <= 6
<1> DEFINE n == Len(leaves)
           width == Widths(leaves)
           depth == Depth(width)
           Single == {k \in 0 .. n : width[k] = 1}
<1>1. n \in Nat \ {0} /\ \A k \in 0 .. n : width[k] \in Nat \ {0}
  BY WidthsFall
<1>2. n \in Single
  BY <1>1, WidthsFall
<1>3. DOMAIN width = 0 .. n
  BY <1>1, HalvedStep DEF Widths
<1>4. width[0] = n /\ \A k \in 1 .. n : width[k] = (width[k - 1] + 1) \div 2
  BY <1>1, HalvedStep DEF Widths
<1> HIDE DEF n, width
<1>5. PICK first \in Single : \A k \in Single : first <= k
  <2>1. Single \in SUBSET Nat
    BY <1>1
  <2> HIDE DEF Single
  <2> QED
    BY <1>2, <2>1, LeastNatural
<1>6. /\ depth \in 0 .. n
      /\ width[depth] = 1
      /\ \A k \in 0 .. n : k < depth => width[k] # 1
  <2>1. /\ first \in 0 .. n
        /\ width[first] = 1
        /\ \A k \in 0 .. n : k < first => width[k] # 1
    BY <1>1, <1>5
  <2> QED
    BY <2>1, <1>3 DEF Depth
<1> HIDE DEF depth
<1>7. ASSUME n <= 64 PROVE depth <= 6
  <2>1. CASE n < 6
    BY <2>1, <1>1, <1>6
  <2>2. CASE n >= 6
    <3>1. 1 \in 1 .. n /\ 2 \in 1 .. n /\ 3 \in 1 .. n /\ 4 \in 1 .. n /\ 5 \in 1 .. n /\ 6 \in 1 .. n
      BY <2>2, <1>1
    <3>2. /\ width[1] = (width[0] + 1) \div 2
          /\ width[2] = (width[1] + 1) \div 2
          /\ width[3] = (width[2] + 1) \div 2
          /\ width[4] = (width[3] + 1) \div 2
          /\ width[5] = (width[4] + 1) \div 2
          /\ width[6] = (width[5] + 1) \div 2
      BY <3>1, <1>4
    <3>3. width[0] \in Nat /\ width[0] <= 64
      BY <1>1, <1>4, <1>7
    <3>7. width[6] \in Nat /\ width[6] <= 1
      BY <3>2, <3>3, SixHalvings
    <3>8. width[6] = 1
      BY <3>1, <3>7, <1>1
    <3> QED
      BY <3>1, <3>8, <1>1, <1>6
  <2> QED
    BY <2>1, <2>2, <1>1
<1> QED
  BY <1>6, <1>7 DEF n, width, depth

\* The places above a leaf are in their levels.
LEMMA PlaceInLevel ==
    ASSUME NEW leaves, Len(leaves) \in Nat, NEW d \in 0 .. Len(leaves),
           NEW i \in 1 .. Len(leaves)
    PROVE  \A k \in 0 .. d : Halved(i, d)[k] \in 1 .. Widths(leaves)[k]
<1> DEFINE n == Len(leaves)
           width == Widths(leaves)
           place == Halved(i, d)
           G == {k \in 0 .. d : place[k] \in 1 .. width[k] /\ width[k] \in Nat}
<1>1. n \in Nat /\ d \in 0 .. n /\ i \in 1 .. n /\ d \in Nat
  OBVIOUS
<1>2. width[0] = n /\ \A k \in 1 .. n : width[k] = (width[k - 1] + 1) \div 2
  BY HalvedStep DEF Widths
<1>3. place[0] = i /\ \A k \in 1 .. d : place[k] = (place[k - 1] + 1) \div 2
  BY <1>1, HalvedStep
<1> HIDE DEF n, width, place
<1>4. 0 \in G
  BY <1>1, <1>2, <1>3
<1>5. ASSUME NEW k \in 1 .. d, k - 1 \in G PROVE k \in G
  <2> DEFINE w == width[k - 1]
             p == place[k - 1]
  <2>1. w \in Nat /\ p \in 1 .. w
    BY <1>5
  <2>2. width[k] = (w + 1) \div 2 /\ place[k] = (p + 1) \div 2
    BY <1>1, <1>2, <1>3
  <2> HIDE DEF w, p
  <2>3. width[k] \in Nat /\ place[k] \in 1 .. width[k]
    BY <2>1, <2>2
  <2> QED
    BY <2>3
<1>6. \A k \in 0 .. d : k \in G
  <2> HIDE DEF G
  <2> QED
    BY <1>1, <1>4, <1>5, UptoInduction, Zenon
<1> QED
  BY <1>6 DEF width, place

\* The last occurrence of a leaf.
LEMMA LastOccurrence ==
    ASSUME NEW leaves, Len(leaves) \in Nat, NEW i \in 1 .. Len(leaves)
    PROVE  LET last == SelectLastInSeq(leaves, LAMBDA l : l = leaves[i])
           IN  last \in 1 .. Len(leaves) /\ leaves[last] = leaves[i]
<1> DEFINE I == {j \in 1 .. Len(leaves) : leaves[j] = leaves[i]}
<1>1. i \in I /\ I \in SUBSET (0 .. Len(leaves))
  OBVIOUS
<1>2. SelectLastInSeq(leaves, LAMBDA l : l = leaves[i]) = Max(I)
  BY <1>1 DEF SelectLastInSeq
<1>3. Max(I) \in I
  <2> HIDE DEF I
  <2> QED
    BY <1>1, LargestNatural
<1> QED
  BY <1>2, <1>3

\* The hash above a node is that of the node and its sibling.
LEMMA ParentHash ==
    ASSUME NEW row, NEW w \in Nat, NEW p \in 1 .. w
    PROVE  Parents(row, w)[(p + 1) \div 2] =
               IF p % 2 = 0 THEN ComputeHash(row[SiblingPlace(p, w)], row[p])
               ELSE ComputeHash(row[p], row[SiblingPlace(p, w)])
<1> DEFINE i == (p + 1) \div 2
<1>1. i \in 1 .. (w + 1) \div 2
  OBVIOUS
<1>2. Parents(row, w)[i] =
         ComputeHash(row[2 * i - 1], row[IF 2 * i <= w THEN 2 * i ELSE 2 * i - 1])
  BY <1>1 DEF Parents
<1>3. CASE p % 2 = 0
  <2>1. 2 * i = p
    BY <1>3
  <2>2. 2 * i - 1 = p - 1 /\ 2 * i <= w /\ SiblingPlace(p, w) = p - 1
    BY <2>1, <1>3 DEF SiblingPlace
  <2> HIDE DEF i
  <2> QED
    BY <1>2, <1>3, <2>1, <2>2 DEF i
<1>4. CASE p % 2 # 0
  <2>1. 2 * i = p + 1
    BY <1>4
  <2>2. /\ 2 * i - 1 = p
        /\ SiblingPlace(p, w) = IF 2 * i <= w THEN 2 * i ELSE 2 * i - 1
    BY <2>1, <1>4 DEF SiblingPlace
  <2> HIDE DEF i
  <2> QED
    BY <1>2, <1>4, <2>2 DEF i
<1> QED
  BY <1>3, <1>4

\* The whole path of a leaf leads to the root, and is of the depth of the tree.
LEMMA WholePath ==
    ASSUME NEW leaves, Len(leaves) \in Nat, NEW i \in 1 .. Len(leaves)
    PROVE  LET proof == GenerateProof(leaves, leaves[i])
               depth == Depth(Widths(leaves))
           IN  /\ Traverse(proof.Path, leaves[i]) = proof.Root
               /\ Len(proof.Path) = depth
               /\ proof.Path = [k \in 1 .. depth |-> proof.Path[k]]
<1> DEFINE n == Len(leaves)
           leaf == leaves[i]
           width == Widths(leaves)
           level == BuildTree(leaves)
           depth == Depth(width)
           last == SelectLastInSeq(leaves, LAMBDA l : l = leaf)
           place == Halved(last, depth)
           sibling(k) == level[k][SiblingPlace(place[k], width[k])]
           path == [k \in 1 .. depth |->
                      [Hash |-> sibling(k - 1),
                       Position |->
                         IF place[k - 1] % 2 = 0 /\ ~(k = 1 /\ sibling(0) = leaf)
                         THEN "Left" ELSE "Right"]]
<1>1. GenerateProof(leaves, leaf) = [Path |-> path, Root |-> level[depth][1]]
  BY DEF GenerateProof
<1>2. n \in Nat \ {0}
  OBVIOUS
<1>3. last \in 1 .. n /\ leaves[last] = leaf
  BY LastOccurrence
<1>4. depth \in 0 .. n /\ width[depth] = 1
  BY <1>2, RootLevel
<1>5. /\ level[0] = leaves
      /\ \A k \in 1 .. n : level[k] = Parents(level[k - 1], width[k - 1])
  BY <1>2, LevelStep
<1> HIDE DEF depth, width, level, last, n
<1>6. \A k \in 0 .. depth : place[k] \in 1 .. width[k]
  BY <1>2, <1>3, <1>4, PlaceInLevel DEF n, width
<1>7. place[0] = last /\ \A k \in 1 .. depth : place[k] = (place[k - 1] + 1) \div 2
  BY <1>4, <1>2, HalvedStep
<1>8. \A k \in 0 .. depth : width[k] \in Nat
  BY <1>2, <1>4, WidthsFall DEF n, width
<1>9. Len(path) = depth /\ depth \in Nat
  BY <1>2, <1>4
<1> HIDE DEF place
<1>10. PICK hash : Climbed(path, leaf, hash) /\ Traverse(path, leaf) = hash[depth]
  <2> HIDE DEF path, leaf
  <2> QED
    BY <1>9, TraverseStep
<1> DEFINE G == {k \in 0 .. depth : hash[k] = level[k][place[k]]}
<1>11. 0 \in G
  BY <1>3, <1>5, <1>7, <1>9, <1>10 DEF Climbed
<1>12. ASSUME NEW k \in 1 .. depth, k - 1 \in G PROVE k \in G
  <2> DEFINE p == place[k - 1]
             w == width[k - 1]
             row == level[k - 1]
             left == path[k].Position = "Left"
  <2>1. k - 1 \in 0 .. depth /\ k \in 1 .. n /\ k \in 0 .. depth
    BY <1>2, <1>4, <1>9
  <2>2. w \in Nat /\ p \in 1 .. w /\ hash[k - 1] = row[p]
    BY <1>6, <1>8, <1>12, <2>1
  <2>3. level[k] = Parents(row, w) /\ place[k] = (p + 1) \div 2
    BY <1>5, <1>7, <2>1
  <2>4. level[k][place[k]] =
           IF p % 2 = 0 THEN ComputeHash(row[SiblingPlace(p, w)], row[p])
           ELSE ComputeHash(row[p], row[SiblingPlace(p, w)])
    <3> HIDE DEF p, w, row
    <3> QED
      BY <2>2, <2>3, ParentHash
  <2>5. path[k].Hash = row[SiblingPlace(p, w)]
    OBVIOUS
  <2>6. hash[k] = IF left THEN ComputeHash(path[k].Hash, hash[k - 1])
                  ELSE ComputeHash(hash[k - 1], path[k].Hash)
    <3> HIDE DEF path
    <3> QED
      BY <1>9, <1>10 DEF Climbed
  <2>7. left <=> p % 2 = 0 /\ ~(k = 1 /\ sibling(0) = leaf)
    OBVIOUS
  <2>8. k = 1 /\ sibling(0) = leaf => row[SiblingPlace(p, w)] = row[p]
    BY <1>3, <1>5, <1>7
  <2>9. hash[k] = level[k][place[k]]
    <3> HIDE DEF left, p, w, row, path, sibling
    <3> QED
      BY <2>2, <2>4, <2>5, <2>6, <2>7, <2>8
  <2> QED
    BY <2>1, <2>9
<1>13. \A k \in 0 .. depth : k \in G
  <2> HIDE DEF G
  <2> QED
    BY <1>9, <1>11, <1>12, UptoInduction, Zenon
<1>14. place[depth] = 1
  BY <1>4, <1>6, <1>9
<1>15. Traverse(path, leaf) = level[depth][1]
  BY <1>9, <1>10, <1>13, <1>14
<1> HIDE DEF path
<1> QED
  BY <1>1, <1>9, <1>15 DEF path, depth, width

\* The numbers up to i.
LEMMA CountUpto ==
    ASSUME NEW n \in Nat, NEW i \in 1 .. n
    PROVE  Cardinality({h \in 1 .. n : h <= i}) = i
<1>1. {h \in 1 .. n : h <= i} = 1 .. i
  OBVIOUS
<1>2. Cardinality(1 .. i) = i
  <2> DEFINE count == IF 1 > i THEN 0 ELSE i - 1 + 1
  <2>1. 1 \in Int /\ i \in Int
    OBVIOUS
  <2>2. Cardinality(1 .. i) = count
    BY <2>1, FS_Interval, Zenon
  <2>3. count = i
    OBVIOUS
  <2> HIDE DEF count
  <2> QED
    BY <2>2, <2>3
<1> QED
  BY <1>1, <1>2, Zenon

\* No node of a short path is left out.
LEMMA ShortPathKept ==
    ASSUME NEW path, Len(path) \in Nat, Len(path) <= 6,
           path = [k \in 1 .. Len(path) |-> path[k]]
    PROVE  SamplePath(path) = path
<1> DEFINE n == Len(path)
           kept == {i \in DOMAIN path : i \in {1, n} \/ ShouldSample(i - 1, n)}
           picked(j) == CHOOSE i \in kept : Cardinality({h \in kept : h <= i}) = j
<1>1. n \in Nat /\ n <= 6 /\ path = [k \in 1 .. n |-> path[k]]
  OBVIOUS
<1>2. CASE n <= 3
  BY <1>2 DEF SamplePath
<1>3. CASE ~(n <= 3)
  <2>1. SamplePath(path) = [j \in 1 .. Cardinality(kept) |-> path[picked(j)]]
    BY <1>3 DEF SamplePath
  <2> HIDE DEF n
  <2>2. \A i \in 1 .. n : i \in {1, n} \/ ShouldSample(i - 1, n)
    <3>1. n \in {4, 5, 6}
      BY <1>1, <1>3
    <3> QED
      BY <3>1 DEF ShouldSample
  <2>3. DOMAIN path = 1 .. n
    BY <1>1
  <2>4. kept = 1 .. n
    BY <2>2, <2>3
  <2>5. Cardinality(kept) = n
    <3>1. n \in 1 .. n /\ {h \in 1 .. n : h <= n} = 1 .. n
      BY <1>1, <1>3
    <3>2. Cardinality({h \in 1 .. n : h <= n}) = n
      BY <1>1, <3>1, CountUpto, Zenon
    <3> QED
      BY <2>4, <3>1, <3>2, Zenon
  <2> HIDE DEF kept
  <2>6. ASSUME NEW j \in 1 .. n PROVE picked(j) = j
    <3>1. \A i \in 1 .. n : Cardinality({h \in 1 .. n : h <= i}) = i
      BY <1>1, CountUpto
    <3>2. \A i \in kept : Cardinality({h \in kept : h <= i}) = i
      BY <2>4, <3>1, Zenon
    <3>3. j \in kept
      BY <2>4
    <3> QED
      BY <3>2, <3>3
  <2> HIDE DEF picked
  <2>7. SamplePath(path) = [j \in 1 .. n |-> path[j]]
    BY <2>1, <2>5, <2>6
  <2> QED
    BY <1>1, <2>7
<1> QED
  BY <1>2, <1>3

\* The compressed path of a leaf of a small tree leads to the root.
LEMMA ShortPath ==
    ASSUME NEW leaves, Len(leaves) \in Nat, NEW i \in 1 .. Len(leaves), Len(leaves) <= 64
    PROVE  LET proof == CompressProof(GenerateProof(leaves, leaves[i]))
           IN  Traverse(proof.Path, leaves[i]) = proof.Root
<1> DEFINE proof == GenerateProof(leaves, leaves[i])
           depth == Depth(Widths(leaves))
<1>1. depth \in Nat /\ depth <= 6
  <2>1. Len(leaves) \in Nat \ {0}
    OBVIOUS
  <2> QED
    BY <2>1, RootLevel
<1>2. /\ Traverse(proof.Path, leaves[i]) = proof.Root
      /\ Len(proof.Path) = depth
      /\ proof.Path = [k \in 1 .. depth |-> proof.Path[k]]
  BY WholePath
<1>3. proof = [Path |-> proof.Path, Root |-> proof.Root]
  BY DEF GenerateProof
<1> HIDE DEF proof, depth
<1>4. SamplePath(proof.Path) = proof.Path
  BY <1>1, <1>2, ShortPathKept
<1>5. /\ CompressProof(proof).Path = proof.Path
      /\ CompressProof(proof).Root = proof.Root
  BY <1>3, <1>4 DEF CompressProof
<1> QED
  BY <1>2, <1>5 DEF proof

\* While a proof is asked for nothing is merged, and its key is in its shard.
ReadersInv ==
    /\ readers = [r \in Reader |-> readers[r]]
    /\ operations # << >> => \A r \in Reader : readers[r] = NoKey
    /\ \A r \in Reader :
          LET call == readers[r]
          IN  call # NoKey => /\ call.Shard \in DOMAIN shards
                              /\ call.Key \in Range(shards[call.Shard].Leaves)

\* A key that is added goes to the end of its shard, and others keep theirs.
LEMMA AddKeyReaders ==
    ASSUME IndInv, ReadersInv, NEW r \in Reader, NEW id, NEW key \in Key,
           AddKey(r, id, key)
    PROVE  ReadersInv'
<1> DEFINE leaf == Leaf(key)
<1>1. /\ id \in DOMAIN shards
      /\ shards' = [s \in DOMAIN shards |->
                      IF s \in {id} THEN [shards[s] EXCEPT !.Leaves = Append(@, leaf)]
                                    ELSE shards[s]]
      /\ readers' = [readers EXCEPT ![r] = [Shard |-> id, Key |-> leaf]]
      /\ operations' = << >>
  BY DEF AddKey, AddLeaf
<1>2. \A s \in DOMAIN shards : shards[s] \in ShardType
  BY DEF IndInv, IsMap
<1> HIDE DEF leaf
<1>3. /\ leaf \in Range(shards'[id].Leaves)
      /\ Range(shards[id].Leaves) \subseteq Range(shards'[id].Leaves)
  <2> DEFINE old == shards[id].Leaves
  <2>1. old \in Seq(Hash) /\ leaf \in Hash
    BY <1>1, <1>2 DEF ShardType, Hash, leaf
  <2>2. shards'[id].Leaves = Append(old, leaf)
    BY <1>1, <1>2 DEF ShardType
  <2> HIDE DEF old
  <2>3. Range(Append(old, leaf)) = Range(old) \cup {leaf}
    <3>1. Append(old, leaf) = old \o <<leaf>> /\ <<leaf>> \in Seq(Hash)
      BY <2>1, AppendIsConcat
    <3>2. Range(old \o <<leaf>>) = Range(old) \cup Range(<<leaf>>)
      BY <2>1, <3>1, RangeConcatenation
    <3>3. Range(<<leaf>>) = {leaf}
      BY DEF Range
    <3> QED
      BY <3>1, <3>2, <3>3
  <2> QED
    BY <2>2, <2>3 DEF old
<1>4. DOMAIN shards' = DOMAIN shards
  BY <1>1
<1>5. \A s \in DOMAIN shards : Range(shards[s].Leaves) \subseteq Range(shards'[s].Leaves)
  BY <1>1, <1>3
<1>6. readers' = [q \in Reader |-> readers'[q]]
  BY <1>1 DEF ReadersInv
<1>7. /\ readers'[r] = [Shard |-> id, Key |-> leaf]
      /\ \A q \in Reader \ {r} : readers'[q] = readers[q]
  BY <1>1 DEF ReadersInv
<1>8. ASSUME NEW q \in Reader, readers'[q] # NoKey
      PROVE  /\ readers'[q].Shard \in DOMAIN shards'
             /\ readers'[q].Key \in Range(shards'[readers'[q].Shard].Leaves)
  <2>1. CASE q = r
    <3>1. readers'[q].Shard = id /\ readers'[q].Key = leaf
      BY <2>1, <1>7
    <3> QED
      BY <3>1, <1>1, <1>3, <1>4
  <2>2. CASE q # r
    BY <2>2, <1>4, <1>5, <1>7, <1>8 DEF ReadersInv
  <2> QED
    BY <2>1, <2>2
<1> QED
  BY <1>1, <1>6, <1>8 DEF ReadersInv

\* Nothing else touches a shard while a proof is asked for.
LEMMA ReadersStep == IndInv /\ ReadersInv /\ [Next]_vars => ReadersInv'
<1> SUFFICES ASSUME IndInv, ReadersInv, [Next]_vars PROVE ReadersInv'
  OBVIOUS
<1>1. ASSUME Unlocked, UNCHANGED readers PROVE ReadersInv'
  BY <1>1 DEF Unlocked, ReadersInv
<1>2. CASE \E id \in DOMAIN shards : SplitShard(id)
  BY <1>1, <1>2 DEF SplitShard
<1>3. CASE AnalyzeShardLoads
  BY <1>1, <1>3 DEF AnalyzeShardLoads
<1>4. CASE MergeShards \/ MergeFails
  BY <1>4 DEF MergeShards, MergeFails, ReadersInv
<1>5. ASSUME NEW r \in Reader, NEW id \in UNION ShardLists, NEW key \in Key,
             AddKey(r, id, key)
      PROVE  ReadersInv'
  BY <1>5, AddKeyReaders
<1>6. ASSUME NEW r \in Reader, ReturnProof(r) PROVE ReadersInv'
  BY <1>6 DEF ReturnProof, ReadersInv
<1>7. CASE \E ids \in ShardLists, leaf \in Data : CrossShardOperation(ids, leaf)
  BY <1>1, <1>7 DEF CrossShardOperation
<1>8. CASE \E id \in DOMAIN shards, load \in Load : SetLoad(id, load)
  BY <1>1, <1>8 DEF SetLoad
<1>9. CASE IntervalEnds \/ UNCHANGED vars
  BY <1>9 DEF IntervalEnds, ReadersInv, vars
<1> QED
  BY <1>2, <1>3, <1>4, <1>5, <1>6, <1>7, <1>8, <1>9 DEF Next

\* The key is a leaf of its shard, and the shard is small.
LEMMA ReadersPaths == IndInv /\ ReadersInv => PathsLeadToRoot
<1> SUFFICES ASSUME IndInv, ReadersInv, NEW r \in Reader,
                    readers[r] # NoKey, Len(shards[readers[r].Shard].Leaves) <= 64
             PROVE  /\ readers[r].Key \in Range(shards[readers[r].Shard].Leaves)
                    /\ Traverse(Proof(r).Path, readers[r].Key) = Proof(r).Root
  BY DEF PathsLeadToRoot
<1> DEFINE leaves == shards[readers[r].Shard].Leaves
<1>1. readers[r].Shard \in DOMAIN shards /\ readers[r].Key \in Range(leaves)
  BY DEF ReadersInv
<1>2. leaves \in Seq(Hash)
  BY <1>1 DEF IndInv, IsMap, ShardType
<1>3. PICK i \in 1 .. Len(leaves) : readers[r].Key = leaves[i]
  BY <1>1, <1>2 DEF Range
<1>4. Len(leaves) \in Nat /\ Len(leaves) <= 64
  BY <1>2
<1>5. Proof(r) = CompressProof(GenerateProof(leaves, leaves[i]))
  BY <1>3 DEF Proof
<1> HIDE DEF leaves
<1>6. Traverse(Proof(r).Path, leaves[i]) = Proof(r).Root
  BY <1>4, <1>5, ShortPath
<1> QED
  BY <1>1, <1>3, <1>6 DEF leaves

\* The proof GenerateProof returns leads from the key to the root of its shard,
\* for any number of readers and any tree of up to 64 leaves: compression drops
\* nothing of a path of at most six nodes.
THEOREM PathsLead == Spec => []PathsLeadToRoot
<1>1. Init => ReadersInv
  BY DEF Init, ReadersInv
<1>2. Spec => []ReadersInv
  BY <1>1, ReadersStep, Invariant, PTL DEF Spec
<1> QED
  BY <1>2, Invariant, ReadersPaths, PTL
=============================================================================
