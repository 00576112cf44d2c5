--------------------------- MODULE MCBlockchain -----------------------------
(***************************************************************************)
(* An instance of Blockchain: a chain of three blocks with a fork, a block *)
(* that skips a height, invalid blocks, two blocks with one header, and    *)
(* blocks that take the height counter to its end and past it.             *)
(***************************************************************************)
EXTENDS Blockchain

MCHash == {"g", "h1", "h2", "h3", "h4", "h5", "h6", "h7", "w1", "w2", "w3",
           "w4", "x", "t"}
MCAddress == {"alice", "bob"}

Tx == [id |-> "t", from |-> "alice", to |-> "bob", value |-> 1, nonce |-> 0,
       signed |-> TRUE]
UnsignedTx == [Tx EXCEPT !.signed = FALSE]
MCTransaction == {Tx, UnsignedTx}

B(hash, prev, height, version, txs) ==
    [hash |-> hash, version |-> version, height |-> height, prev |-> prev,
     difficulty |-> 1, txs |-> txs]

MCBlock ==
    { B("h1", "g",  1, 1, << >>),
      B("h2", "h1", 2, 1, << >>),
      B("h2", "h1", 2, 1, <<Tx>>),         \* same header, other transactions
      B("h3", "h1", 2, 1, << >>),          \* a fork, waiting for h1 like h2
      B("h4", "h2", 3, 0, << >>),          \* version 0
      B("h5", "h1", 3, 1, <<UnsignedTx>>), \* skips height 2, invalid payload
      B("h6", "h4", 2, 1, << >>),          \* height below its parent's
      B("h7", "h3", 3, 1, << >>),          \* a child of the fork
      B("w1", "h2", 4, 1, << >>),          \* the largest height, as an orphan
      B("w2", "w1", 3, 1, << >>),          \* ... and blocks below it again
      B("w3", "w2", 2, 1, << >>),
      B("w4", "x",  0, 1, << >>),          \* accepted once the counter wraps
      B("w4", "x",  0, 1, <<Tx>>) }

MCMaxUint64 == 4
=============================================================================
