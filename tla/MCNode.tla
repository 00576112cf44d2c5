------------------------------- MODULE MCNode -------------------------------
(***************************************************************************)
(* An instance of Node: two peers that send the same two or four blocks    *)
(* and a transaction that two of the blocks carry.                         *)
(***************************************************************************)
EXTENDS Node

MCHash == {"g", "h1", "h2", "h3", "h4", "t1"}
MCAddress == {"alice", "bob"}

T(id, from, to, value, nonce) ==
    [id |-> id, from |-> from, to |-> to, value |-> value, nonce |-> nonce,
     signed |-> TRUE]
Pay == T("t1", "alice", "bob", 1, 0)
MCTransaction == {Pay}

B(hash, prev, height, txs) ==
    [hash |-> hash, version |-> 1, height |-> height, prev |-> prev,
     difficulty |-> 1, txs |-> txs]
MCBlock == { B("h1", "g", 1, <<Pay>>), B("h2", "h1", 2, << >>) }
\* ... one that carries a transaction again, and one at a height that archives.
MCBlock4 == MCBlock \cup { B("h3", "h1", 2, <<Pay>>), B("h4", "h2", 3, << >>) }

MCInitialAccounts ==
    { [a \in {"alice"} |-> [balance |-> 2, nonce |-> 0]] }
MCTime == {100}
RootsOfHashSize == {31, 32}
RootsExact == {32}
=============================================================================
