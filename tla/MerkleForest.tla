---------------------------- MODULE MerkleForest -----------------------------
(***************************************************************************)
(* The forest of shards (merkle/adaptive_merkle_forest.go), the tree of    *)
(* their ids and the rebalancer (merkle/shard.go).                         *)
(*                                                                         *)
(* DynamicShardRebalancing and CrossShardOperation hold the write lock of  *)
(* amf.mu, GenerateProof the read lock: while a rebalancing is under way   *)
(* ("operations" is not empty) nothing else happens, but several readers   *)
(* add their keys and then ask for their proofs in any order.              *)
(*                                                                         *)
(* Loads are in thousandths.  Nothing in the program sets a load; its      *)
(* tests do.  A shard is made just before its id is taken, so that those   *)
(* older than the rebalance interval are the ones with the lower ids.      *)
(***************************************************************************)
EXTENDS MerkleTree, FiniteSetsExt, GoMap

CONSTANTS
    Reader,         \* goroutines that call GenerateProof
    NoKey,          \* what an idle reader has
    Key,            \* the leaves of their keys
    Data,           \* the leaves of cross-shard operations
    InitialLeaves,  \* the leaves the root shard can start with
    ShardLists,     \* the sets of shards that are asked for
    Load,           \* the loads that are measured
    MaxShards,      \* bound on the number of shards
    MaxAdded,       \* bound on the leaves that are added
    MaxMeasured     \* bound on the loads that are measured

VARIABLES
    shards,     \* id |-> Leaves, Load, ParentShard
    nodes,      \* the nodes ever made: id |-> Parent, Children
    nodeMap,    \* the ids in shardTree.NodeMap
    operations, \* the rest of the merges to be executed: <<id, id>>
    readers,    \* reader |-> shard and key of its call, or NoKey
    settled,    \* the number of ids whose last rebalancing is long ago
    added,      \* the leaves added so far
    measured    \* the loads measured so far

tree == <<nodes, nodeMap>>
bounds == <<added, measured>>
vars == <<shards, tree, operations, readers, settled, bounds>>

NoParent == -1      \* the nil parent of the root node

ASSUME ForestAssumption ==
    /\ Load \subseteq Nat
    /\ MaxShards \in Nat
    /\ MaxAdded \in Nat
    /\ MaxMeasured \in Nat
    /\ \A leaves \in InitialLeaves : leaves \in Seq(Range(leaves))

Shard(leaves, load, parent) ==
    [Leaves |-> leaves, Load |-> load, ParentShard |-> parent]

\* NewAdaptiveMerkleForest and, so that large trees are met at once, the keys
\* of earlier calls of GenerateProof.
Init ==
    /\ \E leaves \in InitialLeaves : shards = Put(EmptyMap, 0, Shard(leaves, 0, 0))
    /\ nodes = Put(EmptyMap, 0, [Parent |-> NoParent, Children |-> << >>])
    /\ nodeMap = {0}
    /\ operations = << >>
    /\ readers = [r \in Reader |-> NoKey]
    /\ settled = 0
    /\ added = 0
    /\ measured = 0
-----------------------------------------------------------------------------
\* Faults seeded to show that the properties can fail are named Faulty...
\* and stand just before the definition they alter.

\* The number of shards is taken for the next id.
FaultyGenerateShardID == Cardinality(DOMAIN shards)

\* generateShardID
GenerateShardID == Max(DOMAIN shards) + 1

\* Nobody else holds amf.mu.
Unlocked == operations = << >> /\ \A r \in Reader : readers[r] = NoKey

Overloaded == {id \in DOMAIN shards : shards[id].Load > 900}

\* The leaves move to the children.
FaultySplitState(id, child, mid) ==
    LET s == shards[id]
    IN  Put([shards EXCEPT ![id].Leaves = << >>], child,
            Shard(SubSeq(s.Leaves, mid + 1, Len(s.Leaves)), s.Load \div 2, id))

\* splitShard on the shards.  Both children are given their ids before either
\* is stored, so that they get the same one and only the right child, with the
\* second half of the leaves, stays.  The parent keeps its leaves.
SplitState(id, child, mid) ==
    LET s == shards[id]
    IN  Put(shards, child,
            Shard(SubSeq(s.Leaves, mid + 1, Len(s.Leaves)), s.Load \div 2, id))

\* AddChildNodes
AddChildNodes(id, left, right) ==
    IF id \notin nodeMap THEN UNCHANGED tree
    ELSE /\ nodes' = Put([nodes EXCEPT ![id].Children = <<left, right>>], right,
                         [Parent |-> id, Children |-> << >>])
         /\ nodeMap' = nodeMap \cup {left, right}

\* DynamicShardRebalancing when some shard is overloaded: the first that the
\* iteration meets is split, and nothing else is done.
SplitShard(id) ==
    /\ Unlocked
    /\ id \in Overloaded
    /\ Cardinality(DOMAIN shards) < MaxShards
    /\ LET child == GenerateShardID
       IN  /\ shards' = SplitState(id, child, Len(shards[id].Leaves) \div 2)
           /\ AddChildNodes(id, child, child)
    /\ UNCHANGED <<operations, readers, settled, bounds>>
-----------------------------------------------------------------------------
\* What findMergeCandidate can return: the shards with the same parent that
\* leave room.  0 means "none" to its caller, and root is a candidate.
MergeCandidates(id) ==
    {c \in DOMAIN shards \ {id} :
        /\ shards[c].ParentShard = shards[id].ParentShard
        /\ shards[c].Load + shards[id].Load < 800}

\* The shards AnalyzeShardLoads looks for a candidate for.
Underloaded == {id \in DOMAIN shards : id < settled /\ shards[id].Load < 200}

\* The merges AnalyzeShardLoads can ask for, in the order of its iteration.
Merges ==
    LET found == {id \in Underloaded : MergeCandidates(id) # {}}
        targets == {f \in [found -> UNION {MergeCandidates(id) : id \in found}] :
                       \A id \in found : f[id] \in MergeCandidates(id)}
    IN  UNION { { [i \in DOMAIN order |-> <<order[i], f[order[i]]>>] :
                     order \in SetToSeqs({id \in found : f[id] # 0}) } :
                f \in targets }

\* DynamicShardRebalancing when no shard is overloaded: AnalyzeShardLoads.
AnalyzeShardLoads ==
    /\ Unlocked
    /\ Overloaded = {}
    /\ operations' \in Merges
    /\ UNCHANGED <<shards, tree, readers, settled, bounds>>

\* The loop that keeps the other children.
OtherChildren(children, ids) ==
    FoldLeft(LAMBDA kept, child : IF child \in ids THEN kept
                                                   ELSE Append(kept, child),
             << >>, children)

\* The nodes that are merged stay among the children of their parent.
FaultyReplaceNodes(id1, id2, merged) ==
    LET parent == nodes[id1].Parent
    IN  IF ~({id1, id2} \subseteq nodeMap /\ nodes[id2].Parent = parent)
        THEN UNCHANGED tree
        ELSE /\ nodes' = Put([nodes EXCEPT ![parent].Children =
                                  Append(@, merged)],
                             merged, [Parent |-> parent, Children |-> << >>])
             /\ nodeMap' = (nodeMap \ {id1, id2}) \cup {merged}

\* ReplaceNodes.  Nothing is done for a shard that is not in the tree, nor for
\* two that are children of different nodes.
ReplaceNodes(id1, id2, merged) ==
    LET parent == nodes[id1].Parent
    IN  IF ~({id1, id2} \subseteq nodeMap /\ nodes[id2].Parent = parent)
        THEN UNCHANGED tree
        ELSE /\ nodes' = Put([nodes EXCEPT ![parent].Children =
                                  Append(OtherChildren(@, {id1, id2}), merged)],
                             merged, [Parent |-> parent, Children |-> << >>])
             /\ nodeMap' = (nodeMap \ {id1, id2}) \cup {merged}

\* mergeShards, of the next of the operations.  The new shard has no parent,
\* which is the same as the parent 0.
MergeShards ==
    /\ operations # << >>
    /\ LET id1 == Head(operations)[1]
           id2 == Head(operations)[2]
           merged == GenerateShardID
       IN  /\ {id1, id2} \subseteq DOMAIN shards
           /\ shards' = Put(Delete(Delete(shards, id1), id2), merged,
                            Shard(shards[id1].Leaves \o shards[id2].Leaves,
                                  shards[id1].Load + shards[id2].Load, 0))
           /\ ReplaceNodes(id1, id2, merged)
    /\ operations' = Tail(operations)
    /\ UNCHANGED <<readers, settled, bounds>>

\* mergeShards of a shard that an earlier merge has removed: an error, and the
\* rest of the operations is dropped.
MergeFails ==
    /\ operations # << >>
    /\ \E i \in {1, 2} : Head(operations)[i] \notin DOMAIN shards
    /\ operations' = << >>
    /\ UNCHANGED <<shards, tree, readers, settled, bounds>>
-----------------------------------------------------------------------------
\* AddLeaf and ApplyOperation: the leaf is appended, and the tree rebuilt.
AddLeaf(ids, leaf) ==
    /\ added < MaxAdded
    /\ added' = added + 1
    /\ UNCHANGED measured
    /\ shards' = [id \in DOMAIN shards |->
                    IF id \in ids THEN [shards[id] EXCEPT !.Leaves = Append(@, leaf)]
                                  ELSE shards[id]]

\* GenerateProof, up to the moment the key is in the tree.
AddKey(r, id, key) ==
    /\ operations = << >>
    /\ readers[r] = NoKey
    /\ id \in DOMAIN shards
    /\ AddLeaf({id}, Leaf(key))
    /\ readers' = [readers EXCEPT ![r] = [Shard |-> id, Key |-> Leaf(key)]]
    /\ UNCHANGED <<tree, operations, settled>>

\* The proof GenerateProof goes on to make for a reader.
Proof(r) ==
    CompressProof(GenerateProof(shards[readers[r].Shard].Leaves, readers[r].Key))

\* GenerateProof returns the proof.
ReturnProof(r) ==
    /\ readers[r] # NoKey
    /\ readers' = [readers EXCEPT ![r] = NoKey]
    /\ UNCHANGED <<shards, tree, operations, settled, bounds>>

\* CrossShardOperation, for a list of different shards.  With one that is
\* missing it does nothing.
CrossShardOperation(ids, leaf) ==
    /\ Unlocked
    /\ ids \subseteq DOMAIN shards
    /\ AddLeaf(ids, Leaf(leaf))
    /\ UNCHANGED <<tree, operations, readers, settled>>

\* External: the load of a shard is measured.
SetLoad(id, load) ==
    /\ Unlocked
    /\ id \in DOMAIN shards
    /\ measured < MaxMeasured
    /\ measured' = measured + 1
    /\ shards' = [shards EXCEPT ![id].Load = load]
    /\ UNCHANGED <<tree, operations, readers, settled, added>>

\* The rebalance interval of the older shards ends.
IntervalEnds ==
    /\ operations = << >>
    /\ \E id \in DOMAIN shards : settled <= id /\ settled' = id + 1
    /\ UNCHANGED <<shards, tree, operations, readers, bounds>>

Next ==
    \/ \E id \in DOMAIN shards : SplitShard(id)
    \/ AnalyzeShardLoads
    \/ MergeShards
    \/ MergeFails
    \/ \E r \in Reader, id \in UNION ShardLists, key \in Key : AddKey(r, id, key)
    \/ \E r \in Reader : ReturnProof(r)
    \/ \E ids \in ShardLists, leaf \in Data : CrossShardOperation(ids, leaf)
    \/ \E id \in DOMAIN shards, load \in Load : SetLoad(id, load)
    \/ IntervalEnds

Spec == Init /\ [][Next]_vars
-----------------------------------------------------------------------------
AllLeaves(s) == UNION {Range(s[id].Leaves) : id \in DOMAIN s}

\* No leaf is ever lost from the forest: not by a split, of which one half is
\* overwritten by the other, and not by merges that fail half way.
NothingLost == [][AllLeaves(shards) \subseteq AllLeaves(shards')]_vars

\* generateShardID, which knows only the shards there are now, never gives an
\* id that any shard had before.
IdsNeverReused ==
    [][\A id \in DOMAIN shards' \ DOMAIN shards :
          \A old \in DOMAIN nodes \cup DOMAIN shards : id > old]_vars

\* The children of a node in the tree are in the tree and name it as their
\* parent, whatever has been split and merged, and in whatever order.
ChildrenInTree ==
    \A id \in nodeMap : \A i \in DOMAIN nodes[id].Children :
        LET child == nodes[id].Children[i]
        IN  child \in nodeMap /\ nodes[child].Parent = id

\* Why: only the root has no parent, merges are of two shards, and every node
\* has its type.
ForestNode == [Parent : Nat \cup {NoParent}, Children : Seq(Nat)]

MergesOfTwo ==
    /\ operations \in Seq(Nat \X Nat)
    /\ \A i \in DOMAIN operations : operations[i][1] # operations[i][2]

TreeInv ==
    /\ IsMap(nodes, Nat, ForestNode)
    /\ nodeMap \subseteq DOMAIN nodes
    /\ \A id \in DOMAIN nodes :
          nodes[id].Parent \in DOMAIN nodes \/ (id = 0 /\ nodes[id].Parent = NoParent)
    /\ ChildrenInTree

\* In a tree of up to 64 leaves the key is found, although other readers add
\* theirs in between, and the compressed path leads from it to the root.
PathsLeadToRoot ==
    \A r \in Reader :
        LET call == readers[r]
        IN  call # NoKey /\ Len(shards[call.Shard].Leaves) <= 64 =>
               /\ call.Key \in Range(shards[call.Shard].Leaves)
               /\ Traverse(Proof(r).Path, call.Key) = Proof(r).Root
=============================================================================
