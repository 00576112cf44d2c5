----------------------------- MODULE BlockTree ------------------------------
(***************************************************************************)
(* What the block store promises: a tree of blocks rooted at genesis that  *)
(* only grows, one block at a time, each below a block already in it.      *)
(***************************************************************************)
EXTENDS Core, GoMap

VARIABLE tree       \* hash |-> block

Init == tree = Put(EmptyMap, Genesis.hash, Genesis)

Grow(b) ==
    /\ ~Has(tree, b.hash)
    /\ Has(tree, b.prev)
    /\ tree' = Put(tree, b.hash, b)

Next == \E b \in Block : Grow(b)

Spec == Init /\ [][Next]_tree
=============================================================================
