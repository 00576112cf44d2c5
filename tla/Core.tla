-------------------------------- MODULE Core --------------------------------
(***************************************************************************)
(* The data every component exchanges (core/types.go, core/block.go).      *)
(*                                                                         *)
(* A block is a record of the header fields some component reads, its      *)
(* transactions, and the hash of its header.  Fields no component ever     *)
(* reads (the roots, the nonce, the shard links) only matter in that they  *)
(* make two headers different, which the field "hash" already says.        *)
(***************************************************************************)
EXTENDS Naturals, Sequences

CONSTANTS
    Hash,       \* header hashes and transaction ids
    ZeroHash,   \* Hash{}, the value of a hash field nobody set
    NoHash,     \* not a hash: "no hash"
    Address,    \* account addresses
    ZeroAddress,\* Address{}
    Transaction,\* the transactions that can be submitted
    Block,      \* the blocks that can be submitted
    GenesisHash,\* the hash of the genesis header
    MaxUint64   \* largest value of a uint64 (2^64 - 1 in the code)

\* Uint64 arithmetic wraps around.
Uint64 == 0 .. MaxUint64
Inc(n) == (n + 1) % (MaxUint64 + 1)

\* Transactions as core.Transaction declares them.  "signed" stands for
\* len(Signature) > 0, the only thing read of the signature.
TransactionType == [id     : Hash \cup {ZeroHash},
                    from   : Address \cup {ZeroAddress},
                    to     : Address \cup {ZeroAddress},
                    value  : Uint64,
                    nonce  : Uint64,
                    signed : BOOLEAN]

BlockType == [hash       : Hash,
              version    : Nat,
              height     : Uint64,
              prev       : Hash \cup {ZeroHash},
              difficulty : Nat,
              txs        : Seq(Transaction)]

\* What BlockHeader.Hash() hashes of the fields above.  The transactions are
\* not among them, and nothing ties the Merkle root, which is, to them.
HashedFields(b) == <<b.version, b.height, b.prev, b.difficulty>>

ASSUME MaxUint64Assumption == MaxUint64 \in Nat /\ MaxUint64 > 0

ASSUME ZeroAssumption == /\ ZeroHash \notin Hash
                         /\ NoHash \notin Hash \cup {ZeroHash}
                         /\ ZeroAddress \notin Address
                         /\ GenesisHash \in Hash

ASSUME BlockAssumption == Block \subseteq BlockType

ASSUME TransactionAssumption == Transaction \subseteq TransactionType

\* createGenesisBlock
Genesis == [hash |-> GenesisHash, version |-> 1, height |-> 0,
            prev |-> ZeroHash, difficulty |-> 1, txs |-> << >>]

\* SHA-256 is taken to be free of collisions: equal hashes, equal headers, and
\* no header contains its own hash.
ASSUME HashAssumption ==
    /\ \A b, c \in Block \cup {Genesis} :
            b.hash = c.hash => HashedFields(b) = HashedFields(c)
    /\ \A b \in Block : b.hash # b.prev
=============================================================================
