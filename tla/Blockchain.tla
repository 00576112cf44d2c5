----------------------------- MODULE Blockchain -----------------------------
(***************************************************************************)
(* The block store (core/blockchain.go).                                   *)
(*                                                                         *)
(* Every operation runs under the mutex bc.mu.  AddBlock keeps it while    *)
(* processOrphanBlocks adopts a chain of waiting orphans; "cursor" is that *)
(* recursion: the hash whose orphan is to be looked up next, NoHash when   *)
(* the mutex is free.  No other operation can start in between, so the     *)
(* actions from AppendBlock to ReleaseLock are one call of AddBlock.       *)
(***************************************************************************)
EXTENDS Core, GoMap

VARIABLES
    blocks,         \* hash |-> block
    heightToHash,   \* height |-> hash
    currentHeight,
    orphanBlocks,   \* hash of the missing parent |-> block
    cursor          \* hash being passed to processOrphanBlocks, or NoHash

vars == <<blocks, heightToHash, currentHeight, orphanBlocks, cursor>>

\* NewBlockchain: the genesis block, added by addBlock.
Init ==
    /\ blocks = Put(EmptyMap, Genesis.hash, Genesis)
    /\ heightToHash = Put(EmptyMap, Genesis.height, Genesis.hash)
    /\ currentHeight = 0
    /\ orphanBlocks = EmptyMap
    /\ cursor = NoHash
-----------------------------------------------------------------------------
\* Faults seeded to show that the properties can fail are named Faulty...
\* and stand just before the definition they alter.

\* The parent is looked for by its height.
FaultyMissingParent(b) == b.height > 0 /\ ~Has(heightToHash, b.height - 1)

\* validateBlock, first part: is the parent unknown?
MissingParent(b) == b.height > 0 /\ ~Has(blocks, b.prev)

\* validateBlockHeader.  "early" is the outcome of comparing the timestamp
\* with time.Now() + 300.
ValidateBlockHeader(b, early) ==
    /\ b.version # 0
    /\ ~early
    /\ b.difficulty # 0

\* validateTransaction
ValidateTransaction(tx) ==
    /\ tx.id # ZeroHash
    /\ tx.from # ZeroAddress
    /\ tx.to # ZeroAddress
    /\ tx.signed

\* The height check is forgotten.
FaultyAcceptableAnyHeight(b, early) ==
    /\ ValidateBlockHeader(b, early)
    /\ \A i \in DOMAIN b.txs : ValidateTransaction(b.txs[i])

\* The height check lets lower heights pass.
FaultyAcceptableLower(b, early) ==
    /\ FaultyAcceptableAnyHeight(b, early)
    /\ b.height <= Inc(currentHeight)

\* validateBlock, second part, and the height check of AddBlock.
Acceptable(b, early) ==
    /\ ValidateBlockHeader(b, early)
    /\ \A i \in DOMAIN b.txs : ValidateTransaction(b.txs[i])
    /\ b.height = Inc(currentHeight)

\* The height is not compared with the current one.
FaultyInsertHeight(b) ==
    /\ blocks' = Put(blocks, b.hash, b)
    /\ heightToHash' = Put(heightToHash, b.height, b.hash)
    /\ currentHeight' = b.height
    /\ cursor' = b.hash

\* The block is indexed at the next height instead of its own.
FaultyInsertIndex(b) ==
    /\ blocks' = Put(blocks, b.hash, b)
    /\ heightToHash' = Put(heightToHash, Inc(currentHeight), b.hash)
    /\ currentHeight' = IF b.height > currentHeight THEN b.height
                                                    ELSE currentHeight
    /\ cursor' = b.hash

\* processOrphanBlocks is not called.
FaultyInsertNoCascade(b) ==
    /\ blocks' = Put(blocks, b.hash, b)
    /\ heightToHash' = Put(heightToHash, b.height, b.hash)
    /\ currentHeight' = IF b.height > currentHeight THEN b.height
                                                    ELSE currentHeight
    /\ cursor' = NoHash

\* addBlock, up to its call of processOrphanBlocks.
InsertBlock(b) ==
    /\ blocks' = Put(blocks, b.hash, b)
    /\ heightToHash' = Put(heightToHash, b.height, b.hash)
    /\ currentHeight' = IF b.height > currentHeight THEN b.height
                                                    ELSE currentHeight
    /\ cursor' = b.hash
-----------------------------------------------------------------------------
\* AddBlock of a block whose parent is unknown: kept, and an error returned.
StoreOrphan(b) ==
    /\ cursor = NoHash
    /\ MissingParent(b)
    /\ orphanBlocks' = Put(orphanBlocks, b.prev, b)
    /\ UNCHANGED <<blocks, heightToHash, currentHeight, cursor>>

\* AddBlock of an acceptable block.
AppendBlock(b, early) ==
    /\ cursor = NoHash
    /\ ~MissingParent(b)
    /\ Acceptable(b, early)
    /\ InsertBlock(b)
    /\ UNCHANGED orphanBlocks

\* AddBlock of any other block: an error is returned.
RejectBlock(b, early) ==
    /\ cursor = NoHash
    /\ ~MissingParent(b)
    /\ ~Acceptable(b, early)
    /\ UNCHANGED vars

\* processOrphanBlocks finds an orphan of the block just added: it goes from
\* the orphans to addBlock, without any validation.
AdoptOrphan ==
    /\ cursor # NoHash
    /\ Has(orphanBlocks, cursor)
    /\ orphanBlocks' = Delete(orphanBlocks, cursor)
    /\ InsertBlock(orphanBlocks[cursor])

\* The unlock is missing.
FaultyReleaseNever ==
    /\ cursor # NoHash
    /\ ~Has(orphanBlocks, cursor)
    /\ UNCHANGED vars

\* processOrphanBlocks finds none: all the calls return and AddBlock unlocks.
\* (The second lookup, after the recursive addBlock, finds nothing either:
\* the first one has removed the only orphan with that key.)
ReleaseLock ==
    /\ cursor # NoHash
    /\ ~Has(orphanBlocks, cursor)
    /\ cursor' = NoHash
    /\ UNCHANGED <<blocks, heightToHash, currentHeight, orphanBlocks>>

Next ==
    \/ \E b \in Block : StoreOrphan(b)
    \/ \E b \in Block, early \in BOOLEAN : AppendBlock(b, early)
    \/ \E b \in Block, early \in BOOLEAN : RejectBlock(b, early)
    \/ AdoptOrphan
    \/ ReleaseLock

\* A goroutine that holds the mutex keeps running; nobody is obliged to
\* submit a block.
Fairness == WF_vars(AdoptOrphan) /\ WF_vars(ReleaseLock)

Spec == Init /\ [][Next]_vars /\ Fairness
-----------------------------------------------------------------------------
\* GetBlockByHeight, for a height that is indexed.
GetBlockByHeight(h) == blocks[heightToHash[h]]

\* The height counter has not reached the largest uint64.  Past that point
\* AddBlock expects height 0, for which validateBlock checks no parent, and
\* some of the properties below are lost.
NoWrap == currentHeight < MaxUint64

\* Only submitted blocks and genesis are stored, heights stay in uint64, and
\* processOrphanBlocks is only ever called with the hash of a block.
TypeOK ==
    /\ IsMap(blocks, Hash, Block \cup {Genesis})
    /\ IsMap(heightToHash, Uint64, Hash)
    /\ currentHeight \in Uint64
    /\ IsMap(orphanBlocks, Hash \cup {ZeroHash}, Block)
    /\ cursor \in Hash \cup {NoHash}

\* Every block is stored under its own hash, and every waiting orphan under
\* the hash of the parent it waits for.
KeyedByHash ==
    /\ \A h \in DOMAIN blocks : blocks[h].hash = h
    /\ \A p \in DOMAIN orphanBlocks : /\ orphanBlocks[p].prev = p
                                      /\ orphanBlocks[p].height > 0

\* GetBlockByHeight never returns a nil block, nor one of another height,
\* whatever was adopted or overwritten in between.
IndexSound ==
    \A h \in DOMAIN heightToHash :
        /\ Has(blocks, heightToHash[h])
        /\ GetBlockByHeight(h).height = h

\* GetCurrentHeight is the largest height of any stored block, and a block of
\* that height can be fetched, even when orphans of arbitrary heights are
\* adopted in one cascade.
HeightIsMax ==
    /\ Has(heightToHash, currentHeight)
    /\ \A h \in DOMAIN blocks : blocks[h].height <= currentHeight

\* The stored blocks are closed under "parent of", back to genesis: a chain
\* never has a dangling link, in whatever order its blocks arrived.
ParentClosed ==
    NoWrap => \A h \in DOMAIN blocks :
                 h # GenesisHash => Has(blocks, blocks[h].prev)

\* Between two calls no orphan waits for a block that is already stored: the
\* cascade of processOrphanBlocks leaves none behind.
NoOrphanLeftBehind ==
    \A p \in DOMAIN orphanBlocks : Has(blocks, p) => p = cursor

\* While orphans are adopted, the block just added is stored and has no child
\* yet: the block adopted next is new to the store, and its recursion never
\* comes back to a block already there.
CursorIsLeaf ==
    cursor # NoHash =>
        /\ Has(blocks, cursor)
        /\ NoWrap => \A h \in DOMAIN blocks : blocks[h].prev # cursor

\* Height 0 keeps answering with the genesis block.
GenesisKept ==
    NoWrap => Has(heightToHash, 0) /\ heightToHash[0] = GenesisHash

\* The invariant that is inductive.
IndInv ==
    /\ TypeOK
    /\ KeyedByHash
    /\ IndexSound
    /\ HeightIsMax
    /\ ParentClosed
    /\ NoOrphanLeftBehind
    /\ CursorIsLeaf
    /\ GenesisKept

\* A stored block is never replaced or dropped, although addBlock does not
\* look whether its hash is taken and blocks that differ only in their
\* transactions have the same hash.
BlocksImmutable ==
    [][NoWrap => \A h \in DOMAIN blocks :
                    Has(blocks', h) /\ blocks'[h] = blocks[h]]_vars

\* The height never goes down.
HeightMonotone == [][currentHeight' >= currentHeight]_vars

\* The cascade ends, so AddBlock returns and the mutex becomes free.
CascadeEnds == (cursor # NoHash) ~> (cursor = NoHash)

BT == INSTANCE BlockTree WITH tree <- blocks

\* Until the height counter has reached its end, the block store is a tree
\* that only grows: the insertion order, orphans and cascades do not show.
ImplementsBlockTree ==
    /\ BT!Init
    /\ [][NoWrap => BT!Next \/ UNCHANGED blocks]_vars
=============================================================================
