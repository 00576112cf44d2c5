------------------------------ MODULE MCForest -------------------------------
(***************************************************************************)
(* An instance of MerkleForest: root shards with no, a few and 62 leaves,  *)
(* so that proofs of the greatest length that survives the compression     *)
(* occur, and loads for two splits and merges that depend on each other.   *)
(***************************************************************************)
EXTENDS MerkleForest

MCInitialLeaves == { << >>, <<Leaf(3), Leaf(1), Leaf(4)>>,
                     [i \in 1 .. 62 |-> Leaf(i + 10)] }
MCShardLists == {{0}, {0, 2}}
Readers == Permutations(Reader)
=============================================================================
