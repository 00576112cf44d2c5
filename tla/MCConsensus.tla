----------------------------- MODULE MCConsensus -----------------------------
(***************************************************************************)
(* An instance of HybridConsensus: two addresses, two blocks of one        *)
(* height, and scores small enough for both their limits to be met.        *)
(***************************************************************************)
EXTENDS HybridConsensus

MCHash == {"g", "h1", "h2"}
MCAddress == {"v1", "v2"}

B(hash, version) ==
    [hash |-> hash, version |-> version, height |-> 1, prev |-> "g",
     difficulty |-> 1, txs |-> << >>]
MCBlock == {B("h1", 1), B("h2", 2)}

\* Votes of v1, commits of two blocks of which one is proposed, ...
Votes(validator, hash, valid) ==
    [type : {"vote"}, sender : {"v1"}, recent : {TRUE}, validator : {validator},
     hash : {hash}, isValid : valid]
Blocks(types, sender, recent, blocks) ==
    [type : types, sender : {sender}, recent : {recent}, block : blocks]

\* ... and what the validation refuses (a zero sender is that of the own votes),
\* or the decoding leaves of a payload that is none.
MCMessage ==
    Votes("v1", "h1", BOOLEAN)
    \cup Blocks({"commit"}, "v1", TRUE, MCBlock)
    \cup Blocks({"proposal"}, "v1", TRUE, {B("h1", 1)})
    \cup Blocks({"commit"}, "v1", FALSE, {B("h1", 1)})
    \cup [type : {"", "unknown"}, sender : {"v1"}, recent : {TRUE}]
    \cup Votes("zero", ZeroHash, {FALSE})
    \cup Blocks({"commit"}, "v1", TRUE, {NoBlock})
=============================================================================
