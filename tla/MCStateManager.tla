-------------------------- MODULE MCStateManager ----------------------------
(***************************************************************************)
(* An instance of StateManager: two accounts and a third one to be         *)
(* created, chained transfers in one block, a transfer to oneself, a       *)
(* replay, an overdraft, and heights that trigger compression and          *)
(* archival.                                                               *)
(***************************************************************************)
EXTENDS StateManager

MCHash == {"g", "b1", "b2", "b3", "b4", "t"}
HashOf == <<"b1", "b2", "b3", "b4">>
MCAddress == {"alice", "bob", "carol"}

T(from, to, value, nonce) ==
    [id |-> "t", from |-> from, to |-> to, value |-> value, nonce |-> nonce,
     signed |-> TRUE]

Pay     == T("alice", "bob", 2, 0)      \* empties alice
PayBack == T("bob", "carol", 3, 0)      \* needs what alice paid
Self    == T("carol", "carol", 1, 0)    \* to oneself
Again   == T("alice", "bob", 0, 1)
MCTransaction == {Pay, PayBack, Self, Again}

B(height, txs) ==
    [hash |-> HashOf[height], version |-> 1, height |-> height, prev |-> "g",
     difficulty |-> 1, txs |-> txs]

MCBlock == { B(1, << >>),
             B(1, <<Pay, PayBack>>),
             B(1, <<Pay, Pay>>),        \* fails half way
             B(2, <<Pay>>),             \* compresses
             B(3, <<Self, Again>>),
             B(3, <<PayBack, Self>>),
             B(4, << >>) }              \* compresses and archives

MCInitialAccounts ==
    { EmptyMap,
      [a \in {"alice", "bob"} |->
          [balance |-> IF a = "alice" THEN 2 ELSE 1, nonce |-> 0]] }

MCTime == {100, 101}

RootsOfHashSize == {31, 32}         \* with a modulus of 32 bytes
=============================================================================
