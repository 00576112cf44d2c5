----------------------------- MODULE MerkleTree ------------------------------
(***************************************************************************)
(* The state tree of a shard and its proofs (merkle/shard.go, MerkleTree;  *)
(* merkle/proof.go), as operators on the sequence of its leaves: the tree  *)
(* is built anew from them whenever a leaf is added.                       *)
(*                                                                         *)
(* A hash is a tuple: of one element for a leaf, of the two hashes that    *)
(* were hashed together for an inner node.  Different inputs therefore     *)
(* have different hashes.                                                  *)
(***************************************************************************)
EXTENDS Naturals, Sequences, FiniteSets, SequencesExt

Leaf(x) == <<x>>
ComputeHash(l, r) == <<l, r>>

\* A number of nodes, or the place of one, at a level and at the n levels above.
Halved(i, n) ==
    LET half[k \in 0 .. n] == IF k = 0 THEN i ELSE (half[k - 1] + 1) \div 2
    IN  half

\* The number of nodes at each level; the leaves are level 0.
Widths(leaves) == Halved(Len(leaves), Len(leaves))

\* The level of the root: the first of one node.
Depth(width) == CHOOSE k \in DOMAIN width :
                   width[k] = 1 /\ \A h \in DOMAIN width : h < k => width[h] # 1

\* buildTree: the hashes of each level.  The last node of an odd level is
\* paired with itself.
BuildTree(leaves) ==
    LET width == Widths(leaves)
        level[k \in 0 .. Len(leaves)] ==
          IF k = 0 THEN leaves
          ELSE [i \in 1 .. width[k] |->
                  ComputeHash(level[k - 1][2 * i - 1],
                              level[k - 1][IF 2 * i <= width[k - 1]
                                           THEN 2 * i ELSE 2 * i - 1])]
    IN  level

\* The last node of an odd level is paired with the first.
FaultySiblingPlace(i, width) ==
    IF i % 2 = 0 THEN i - 1 ELSE IF i < width THEN i + 1 ELSE 1

\* The place of the sibling of the i-th node of a level.
SiblingPlace(i, width) ==
    IF i % 2 = 0 THEN i - 1 ELSE IF i < width THEN i + 1 ELSE i

\* GenerateProof of MerkleTree, for a leaf of the tree.  The node of a leaf
\* that occurs more than once has the parent of its last occurrence, of which
\* it is the left child if it is both.
GenerateProof(leaves, leaf) ==
    LET level == BuildTree(leaves)
        width == Widths(leaves)
        depth == Depth(width)
        place == Halved(SelectLastInSeq(leaves, LAMBDA l : l = leaf), depth)
        sibling(k) == level[k][SiblingPlace(place[k], width[k])]
    IN  [Path |-> [k \in 1 .. depth |->
                     [Hash |-> sibling(k - 1),
                      Position |->
                        IF place[k - 1] % 2 = 0 /\ ~(k = 1 /\ sibling(0) = leaf)
                        THEN "Left" ELSE "Right"]],
         Root |-> level[depth][1]]

\* shouldSample: 1 - index / totalLength > 1 - 0.7.
ShouldSample(index, totalLength) == 10 * index < 7 * totalLength

\* SamplePath.  Indices start at 0 in the code, and at 1 here.
SamplePath(path) ==
    IF Len(path) <= 3 THEN path
    ELSE LET kept == {i \in DOMAIN path : \/ i \in {1, Len(path)}
                                          \/ ShouldSample(i - 1, Len(path))}
         IN  [j \in 1 .. Cardinality(kept) |->
                 path[CHOOSE i \in kept :
                         Cardinality({h \in kept : h <= i}) = j]]

\* CompressProof.  DecompressProof gives the path back as it is.
CompressProof(proof) == [proof EXCEPT !.Path = SamplePath(@)]

\* The way of Verify along the path, from the hash it starts with.
Traverse(path, start) ==
    LET hash[k \in 0 .. Len(path)] ==
          IF k = 0 THEN start
          ELSE IF path[k].Position = "Left"
               THEN ComputeHash(path[k].Hash, hash[k - 1])
               ELSE ComputeHash(hash[k - 1], path[k].Hash)
    IN  hash[Len(path)]
=============================================================================
