-------------------------- MODULE BlockchainProofs --------------------------
(***************************************************************************)
(* The block store is correct for every set of blocks that may be          *)
(* submitted, in every order, and for every width of the height counter.   *)
(***************************************************************************)
EXTENDS Blockchain, DataTheorems

\* The fields of a block that the proofs use.
LEMMA BlockFields ==
    ASSUME NEW b \in Block
    PROVE  /\ b.hash \in Hash
           /\ b.height \in Uint64
           /\ b.prev \in Hash \cup {ZeroHash}
           /\ b.hash # b.prev
BY BlockAssumption, HashAssumption DEF BlockType

\* The genesis block, likewise.
LEMMA GenesisFields ==
    /\ Genesis.hash = GenesisHash
    /\ GenesisHash \in Hash
    /\ Genesis.height = 0
    /\ Genesis.height \in Uint64
    /\ Genesis.prev = ZeroHash
    /\ Genesis.prev \notin Hash
    /\ Genesis.hash # Genesis.prev
BY ZeroAssumption, MaxUint64Assumption DEF Genesis, Uint64

\* Two headers with one hash have one height and one parent.
LEMMA HashDetermines ==
    ASSUME NEW b \in Block \cup {Genesis}, NEW c \in Block \cup {Genesis},
           b.hash = c.hash
    PROVE  b.height = c.height /\ b.prev = c.prev
<1>1. HashedFields(b) = HashedFields(c)
  BY HashAssumption
<1>2. /\ HashedFields(b)[2] = b.height /\ HashedFields(c)[2] = c.height
      /\ HashedFields(b)[3] = b.prev   /\ HashedFields(c)[3] = c.prev
  BY DEF HashedFields
<1> QED
  BY <1>1, <1>2
-----------------------------------------------------------------------------
(* Type correctness.                                                       *)

\* addBlock of a submitted block keeps the maps well typed.
LEMMA InsertTypeOK ==
    ASSUME TypeOK, NEW b \in Block, InsertBlock(b)
    PROVE  /\ IsMap(blocks', Hash, Block \cup {Genesis})
           /\ IsMap(heightToHash', Uint64, Hash)
           /\ currentHeight' \in Uint64
           /\ cursor' \in Hash \cup {NoHash}
<1>1. b.hash \in Hash /\ b.height \in Uint64
  BY BlockFields
<1>2. IsMap(blocks', Hash, Block \cup {Genesis})
  BY <1>1, PutIsMap DEF TypeOK, InsertBlock
<1>3. IsMap(heightToHash', Uint64, Hash)
  BY <1>1, PutIsMap DEF TypeOK, InsertBlock
<1> QED
  BY <1>1, <1>2, <1>3 DEF TypeOK, InsertBlock

\* The variables have their types initially ...
LEMMA TypeCorrectInit == Init => TypeOK
<1> SUFFICES ASSUME Init PROVE TypeOK
  OBVIOUS
<1>1. IsMap(blocks, Hash, Block \cup {Genesis})
  BY EmptyIsMap, PutIsMap, GenesisFields DEF Init
<1>2. IsMap(heightToHash, Uint64, Hash)
  BY EmptyIsMap, PutIsMap, GenesisFields DEF Init
<1>3. IsMap(orphanBlocks, Hash \cup {ZeroHash}, Block)
  BY EmptyIsMap DEF Init
<1>4. currentHeight \in Uint64 /\ cursor \in Hash \cup {NoHash}
  BY GenesisFields DEF Init
<1> QED
  BY <1>1, <1>2, <1>3, <1>4 DEF TypeOK

\* ... and every step preserves them.
LEMMA TypeCorrectNext == TypeOK /\ [Next]_vars => TypeOK'
<1> SUFFICES ASSUME TypeOK, [Next]_vars PROVE TypeOK'
  OBVIOUS
<1>1. CASE \E b \in Block : StoreOrphan(b)
  <2> PICK b \in Block : StoreOrphan(b)
    BY <1>1
  <2>1. IsMap(orphanBlocks', Hash \cup {ZeroHash}, Block)
    BY BlockFields, PutIsMap DEF TypeOK, StoreOrphan
  <2> QED
    BY <2>1 DEF TypeOK, StoreOrphan
<1>2. CASE \E b \in Block, early \in BOOLEAN : AppendBlock(b, early)
  BY <1>2, InsertTypeOK DEF TypeOK, AppendBlock
<1>3. CASE \E b \in Block, early \in BOOLEAN : RejectBlock(b, early)
  BY <1>3 DEF TypeOK, RejectBlock, vars
<1>4. CASE AdoptOrphan
  <2>1. orphanBlocks[cursor] \in Block
    BY <1>4, MapEntry DEF TypeOK, AdoptOrphan, Has
  <2>2. IsMap(orphanBlocks', Hash \cup {ZeroHash}, Block)
    BY <1>4, DeleteIsMap DEF TypeOK, AdoptOrphan
  <2> QED
    BY <1>4, <2>1, <2>2, InsertTypeOK DEF TypeOK, AdoptOrphan
<1>5. CASE ReleaseLock
  BY <1>5 DEF TypeOK, ReleaseLock
<1>6. CASE UNCHANGED vars
  BY <1>6 DEF TypeOK, vars
<1> QED
  BY <1>1, <1>2, <1>3, <1>4, <1>5, <1>6 DEF Next

\* The variables keep their types in every behaviour of the block store.
THEOREM TypeCorrect == Spec => []TypeOK
BY TypeCorrectInit, TypeCorrectNext, PTL DEF Spec
-----------------------------------------------------------------------------
(* The inductive invariant.                                                *)

\* addBlock keeps the index, the height and the keys consistent, whatever
\* block it is given, even one whose hash is already stored.
LEMMA InsertConsistent ==
    ASSUME TypeOK, KeyedByHash, IndexSound, HeightIsMax,
           NEW b \in Block, InsertBlock(b)
    PROVE  /\ \A h \in DOMAIN blocks' : blocks'[h].hash = h
           /\ IndexSound'
           /\ HeightIsMax'
           /\ currentHeight' >= currentHeight
<1> USE BlockFields DEF Has
<1>1. /\ DOMAIN blocks' = (DOMAIN blocks) \cup {b.hash}
      /\ blocks'[b.hash] = b
      /\ \A h \in DOMAIN blocks : h # b.hash => blocks'[h] = blocks[h]
  BY DEF InsertBlock, Put
<1>2. /\ DOMAIN heightToHash' = (DOMAIN heightToHash) \cup {b.height}
      /\ heightToHash'[b.height] = b.hash
      /\ \A h \in DOMAIN heightToHash :
              h # b.height => heightToHash'[h] = heightToHash[h]
  BY DEF InsertBlock, Put
<1>3. /\ b.height \in Nat
      /\ currentHeight \in Nat
      /\ \A h \in DOMAIN blocks : blocks[h].height \in Nat
  <2>1. \A h \in DOMAIN blocks : blocks[h] \in Block \cup {Genesis}
    BY MapEntry DEF TypeOK
  <2>2. \A c \in Block \cup {Genesis} : c.height \in Uint64
    BY GenesisFields
  <2> QED
    BY <2>1, <2>2, MaxUint64Assumption DEF TypeOK, Uint64
<1>4. \A h \in DOMAIN blocks' : blocks'[h].hash = h
  BY <1>1 DEF KeyedByHash
<1>5. IndexSound'
  <2> SUFFICES ASSUME NEW h \in DOMAIN heightToHash'
               PROVE  /\ heightToHash'[h] \in DOMAIN blocks'
                      /\ blocks'[heightToHash'[h]].height = h
    BY DEF IndexSound, GetBlockByHeight
  <2>1. CASE h = b.height
    BY <2>1, <1>1, <1>2
  <2>2. CASE h # b.height
    <3>1. /\ heightToHash'[h] = heightToHash[h]
          /\ heightToHash[h] \in DOMAIN blocks
          /\ blocks[heightToHash[h]].height = h
      BY <2>2, <1>2 DEF IndexSound, GetBlockByHeight
    <3>2. heightToHash[h] # b.hash
      <4> SUFFICES ASSUME heightToHash[h] = b.hash PROVE FALSE
        OBVIOUS
      <4>1. blocks[b.hash] \in Block \cup {Genesis} /\ blocks[b.hash].hash = b.hash
        BY <3>1, MapEntry DEF TypeOK, KeyedByHash
      <4> QED
        BY <4>1, <3>1, <2>2, HashDetermines
    <3> QED
      BY <3>1, <3>2, <1>1
  <2> QED
    BY <2>1, <2>2
<1>6. HeightIsMax' /\ currentHeight' >= currentHeight
  BY <1>1, <1>2, <1>3 DEF HeightIsMax, InsertBlock
<1> QED
  BY <1>4, <1>5, <1>6

\* addBlock of a new block below a stored one keeps the links of the chain,
\* and makes that block a leaf.
LEMMA InsertLinked ==
    ASSUME IndInv, NEW b \in Block, InsertBlock(b),
           NoWrap => /\ Has(blocks, b.prev)
                     /\ ~Has(blocks, b.hash)
                     /\ b.height > 0
    PROVE  ParentClosed' /\ CursorIsLeaf' /\ GenesisKept'
<1> USE BlockFields DEF Has, IndInv
<1>1. /\ DOMAIN blocks' = (DOMAIN blocks) \cup {b.hash}
      /\ blocks'[b.hash] = b
      /\ \A h \in DOMAIN blocks : h # b.hash => blocks'[h] = blocks[h]
      /\ cursor' = b.hash
  BY DEF InsertBlock, Put
<1>2. NoWrap' => NoWrap
  <2>1. currentHeight' >= currentHeight
    BY InsertConsistent
  <2>2. currentHeight \in Nat /\ currentHeight' \in Nat
    BY InsertTypeOK, MaxUint64Assumption DEF TypeOK, Uint64
  <2> QED
    BY <2>1, <2>2, MaxUint64Assumption DEF NoWrap
<1>3. ParentClosed'
  BY <1>1, <1>2 DEF ParentClosed
<1>4. CursorIsLeaf'
  <2> SUFFICES ASSUME NoWrap, NEW h \in DOMAIN blocks'
               PROVE  blocks'[h].prev # b.hash
    BY <1>1, <1>2 DEF CursorIsLeaf
  <2>1. CASE h = b.hash
    BY <2>1, <1>1
  <2>2. CASE h # b.hash
    <3>1. h \in DOMAIN blocks /\ blocks'[h] = blocks[h]
      BY <2>2, <1>1
    <3>2. CASE h = GenesisHash
      <4>1. blocks[h] \in Block \cup {Genesis} /\ blocks[h].hash = Genesis.hash
        BY <3>1, <3>2, MapEntry, GenesisFields DEF TypeOK, KeyedByHash
      <4>2. blocks[h].prev = Genesis.prev
        BY <4>1, HashDetermines
      <4> QED
        BY <3>1, <4>2, GenesisFields
    <3>3. CASE h # GenesisHash
      BY <3>1, <3>3 DEF ParentClosed
    <3> QED
      BY <3>2, <3>3
  <2> QED
    BY <2>1, <2>2
<1>5. GenesisKept'
  BY <1>2 DEF GenesisKept, InsertBlock, Put
<1> QED
  BY <1>3, <1>4, <1>5

\* A block that AddBlock accepts is new, and goes below a stored one.
LEMMA AppendIsNew ==
    ASSUME IndInv, NoWrap, NEW b \in Block, NEW early \in BOOLEAN,
           AppendBlock(b, early)
    PROVE  Has(blocks, b.prev) /\ ~Has(blocks, b.hash) /\ b.height > 0
<1> USE DEF IndInv
<1>1. b.height = currentHeight + 1 /\ currentHeight \in Nat
  BY MaxUint64Assumption
     DEF AppendBlock, Acceptable, Inc, NoWrap, TypeOK, Uint64
<1>2. b.height > 0 /\ Has(blocks, b.prev)
  BY <1>1 DEF AppendBlock, MissingParent
<1>3. ~Has(blocks, b.hash)
  <2> SUFFICES ASSUME b.hash \in DOMAIN blocks PROVE FALSE
    BY DEF Has
  <2>1. blocks[b.hash] \in Block \cup {Genesis} /\ blocks[b.hash].hash = b.hash
    BY MapEntry DEF TypeOK, KeyedByHash
  <2>2. blocks[b.hash].height = b.height
    BY <2>1, HashDetermines
  <2> QED
    BY <1>1, <2>2 DEF HeightIsMax
<1> QED
  BY <1>2, <1>3

\* So is an orphan that processOrphanBlocks adopts.
LEMMA AdoptIsNew ==
    ASSUME IndInv, NoWrap, AdoptOrphan
    PROVE  /\ Has(blocks, orphanBlocks[cursor].prev)
           /\ ~Has(blocks, orphanBlocks[cursor].hash)
           /\ orphanBlocks[cursor].height > 0
<1> DEFINE o == orphanBlocks[cursor]
<1> USE DEF IndInv
<1>1. /\ o \in Block
      /\ o.prev = cursor
      /\ o.height > 0
      /\ cursor # NoHash
      /\ cursor \in DOMAIN blocks
  BY MapEntry DEF TypeOK, KeyedByHash, AdoptOrphan, Has, CursorIsLeaf
<1>2. o.hash \notin DOMAIN blocks
  <2> SUFFICES ASSUME o.hash \in DOMAIN blocks PROVE FALSE
    OBVIOUS
  <2>1. blocks[o.hash] \in Block \cup {Genesis} /\ blocks[o.hash].hash = o.hash
    BY MapEntry DEF TypeOK, KeyedByHash
  <2>2. blocks[o.hash].prev = cursor
    BY <1>1, <2>1, HashDetermines
  <2> QED
    BY <1>1, <2>2 DEF CursorIsLeaf
<1> QED
  BY <1>1, <1>2 DEF Has

\* The invariant holds initially.
LEMMA InitInv == Init => IndInv
<1> SUFFICES ASSUME Init PROVE IndInv
  OBVIOUS
<1>1. TypeOK
  BY TypeCorrectInit
<1>2. /\ DOMAIN blocks = {GenesisHash} /\ blocks[GenesisHash] = Genesis
      /\ DOMAIN heightToHash = {0} /\ heightToHash[0] = GenesisHash
      /\ currentHeight = 0
      /\ DOMAIN orphanBlocks = {}
      /\ cursor = NoHash
  BY GenesisFields DEF Init, Put, EmptyMap
<1> QED
  BY <1>1, <1>2, GenesisFields
     DEF IndInv, KeyedByHash, IndexSound, GetBlockByHeight, HeightIsMax,
         ParentClosed, NoOrphanLeftBehind, CursorIsLeaf, GenesisKept, Has

\* Every step preserves the invariant.
LEMMA NextInv == IndInv /\ [Next]_vars => IndInv'
<1> SUFFICES ASSUME IndInv, [Next]_vars PROVE IndInv'
  OBVIOUS
<1>1. TypeOK'
  BY TypeCorrectNext DEF IndInv
<1>2. CASE \E b \in Block : StoreOrphan(b)
  <2> PICK b \in Block : StoreOrphan(b)
    BY <1>2
  <2>1. /\ DOMAIN orphanBlocks' = (DOMAIN orphanBlocks) \cup {b.prev}
        /\ orphanBlocks'[b.prev] = b
        /\ \A p \in DOMAIN orphanBlocks :
                p # b.prev => orphanBlocks'[p] = orphanBlocks[p]
        /\ UNCHANGED <<blocks, heightToHash, currentHeight, cursor>>
        /\ b.height > 0 /\ ~Has(blocks, b.prev)
    BY DEF StoreOrphan, Put, MissingParent
  <2>2. KeyedByHash'
    BY <2>1 DEF IndInv, KeyedByHash
  <2>3. NoOrphanLeftBehind'
    BY <2>1 DEF IndInv, NoOrphanLeftBehind, Has
  <2> QED
    BY <1>1, <2>1, <2>2, <2>3
       DEF IndInv, IndexSound, GetBlockByHeight, HeightIsMax, ParentClosed,
           CursorIsLeaf, GenesisKept, NoWrap
<1>3. CASE \E b \in Block, early \in BOOLEAN : AppendBlock(b, early)
  <2> PICK b \in Block, early \in BOOLEAN : AppendBlock(b, early)
    BY <1>3
  <2>1. InsertBlock(b) /\ UNCHANGED orphanBlocks /\ cursor = NoHash
    BY DEF AppendBlock
  <2>2. /\ \A h \in DOMAIN blocks' : blocks'[h].hash = h
        /\ IndexSound' /\ HeightIsMax'
    BY <2>1, InsertConsistent DEF IndInv
  <2>3. ParentClosed' /\ CursorIsLeaf' /\ GenesisKept'
    BY <2>1, AppendIsNew, InsertLinked
  <2>4. KeyedByHash'
    BY <2>1, <2>2 DEF IndInv, KeyedByHash
  <2>5. NoOrphanLeftBehind'
    <3>1. DOMAIN blocks' = (DOMAIN blocks) \cup {b.hash} /\ cursor' = b.hash
      BY <2>1 DEF InsertBlock, Put
    <3>2. \A p \in DOMAIN orphanBlocks : p \notin DOMAIN blocks
      <4>1. \A p \in DOMAIN orphanBlocks : p # NoHash
        BY MapEntry, ZeroAssumption DEF IndInv, TypeOK
      <4> QED
        BY <4>1, <2>1 DEF IndInv, NoOrphanLeftBehind, Has
    <3> QED
      BY <2>1, <3>1, <3>2 DEF NoOrphanLeftBehind, Has
  <2> QED
    BY <1>1, <2>2, <2>3, <2>4, <2>5 DEF IndInv
<1>4. CASE \E b \in Block, early \in BOOLEAN : RejectBlock(b, early)
  BY <1>1, <1>4 DEF RejectBlock, vars, IndInv, KeyedByHash, IndexSound,
     GetBlockByHeight, HeightIsMax, ParentClosed, NoOrphanLeftBehind,
     CursorIsLeaf, GenesisKept, NoWrap
<1>5. CASE AdoptOrphan
  <2> DEFINE o == orphanBlocks[cursor]
  <2>1. o \in Block /\ InsertBlock(o)
    BY <1>5, MapEntry DEF IndInv, TypeOK, AdoptOrphan, Has
  <2>2. /\ DOMAIN orphanBlocks' = (DOMAIN orphanBlocks) \ {cursor}
        /\ \A p \in DOMAIN orphanBlocks' : orphanBlocks'[p] = orphanBlocks[p]
    BY <1>5 DEF AdoptOrphan, Delete
  <2>3. /\ \A h \in DOMAIN blocks' : blocks'[h].hash = h
        /\ IndexSound' /\ HeightIsMax'
    BY <2>1, InsertConsistent DEF IndInv
  <2>4. ParentClosed' /\ CursorIsLeaf' /\ GenesisKept'
    BY <1>5, <2>1, AdoptIsNew, InsertLinked
  <2>5. KeyedByHash'
    BY <2>2, <2>3 DEF IndInv, KeyedByHash
  <2>6. NoOrphanLeftBehind'
    <3>1. DOMAIN blocks' = (DOMAIN blocks) \cup {o.hash} /\ cursor' = o.hash
      BY <2>1 DEF InsertBlock, Put
    <3> QED
      BY <2>2, <3>1 DEF IndInv, NoOrphanLeftBehind, Has
  <2> QED
    BY <1>1, <2>3, <2>4, <2>5, <2>6 DEF IndInv
<1>6. CASE ReleaseLock
  <2>1. NoOrphanLeftBehind'
    BY <1>6 DEF IndInv, NoOrphanLeftBehind, ReleaseLock, Has
  <2> QED
    BY <1>1, <1>6, <2>1 DEF ReleaseLock, IndInv, KeyedByHash, IndexSound,
       GetBlockByHeight, HeightIsMax, ParentClosed, CursorIsLeaf,
       GenesisKept, NoWrap
<1>7. CASE UNCHANGED vars
  BY <1>1, <1>7 DEF vars, IndInv, KeyedByHash, IndexSound,
     GetBlockByHeight, HeightIsMax, ParentClosed, NoOrphanLeftBehind,
     CursorIsLeaf, GenesisKept, NoWrap
<1> QED
  BY <1>2, <1>3, <1>4, <1>5, <1>6, <1>7 DEF Next
-----------------------------------------------------------------------------
(* The theorems.                                                           *)

\* The invariant holds in every behaviour.
THEOREM Invariant == Spec => []IndInv
BY InitInv, NextInv, PTL DEF Spec

\* GetBlockByHeight never returns a missing block or one of another height.
THEOREM IndexCorrect == Spec => []IndexSound
BY Invariant, PTL DEF IndInv

\* The current height is that of the highest stored block.
THEOREM HeightCorrect == Spec => []HeightIsMax
BY Invariant, PTL DEF IndInv

\* In whatever order the blocks arrived, the stored ones form chains back to
\* genesis, until the height counter is at its largest value.
THEOREM ChainsLinked == Spec => []ParentClosed
BY Invariant, PTL DEF IndInv

\* Height 0 answers with the genesis block, until the height counter is at its
\* largest value.
THEOREM GenesisStays == Spec => []GenesisKept
BY Invariant, PTL DEF IndInv

\* Between two calls of AddBlock no orphan waits for a stored block.
THEOREM OrphansAdopted == Spec => []NoOrphanLeftBehind
BY Invariant, PTL DEF IndInv

\* A step changes no stored block.
LEMMA StepKeepsBlocks ==
    ASSUME IndInv, [Next]_vars, NoWrap
    PROVE  \A h \in DOMAIN blocks : Has(blocks', h) /\ blocks'[h] = blocks[h]
<1>1. CASE \E b \in Block, early \in BOOLEAN : AppendBlock(b, early)
  <2> PICK b \in Block, early \in BOOLEAN : AppendBlock(b, early)
    BY <1>1
  <2>1. ~Has(blocks, b.hash)
    BY AppendIsNew
  <2> QED
    BY <2>1 DEF AppendBlock, InsertBlock, Put, Has
<1>2. CASE AdoptOrphan
  <2>1. ~Has(blocks, orphanBlocks[cursor].hash)
    BY <1>2, AdoptIsNew
  <2> QED
    BY <1>2, <2>1 DEF AdoptOrphan, InsertBlock, Put, Has
<1>3. CASE UNCHANGED blocks
  BY <1>3 DEF Has
<1> QED
  BY <1>1, <1>2, <1>3 DEF Next, StoreOrphan, RejectBlock, ReleaseLock, vars

\* No step ever replaces or drops a stored block, until the height counter is
\* at its largest value.
THEOREM StoreAppendOnly == Spec => BlocksImmutable
<1>1. IndInv /\ [Next]_vars
        => [NoWrap => \A h \in DOMAIN blocks :
                         Has(blocks', h) /\ blocks'[h] = blocks[h]]_vars
  BY StepKeepsBlocks
<1> QED
  BY <1>1, Invariant, PTL DEF Spec, BlocksImmutable

\* A step does not lower the height.
LEMMA StepKeepsHeight ==
    ASSUME IndInv, [Next]_vars
    PROVE  currentHeight' >= currentHeight
<1>1. currentHeight \in Nat /\ \A b \in Block : b.height \in Nat
  BY BlockFields, MaxUint64Assumption DEF IndInv, TypeOK, Uint64
<1>2. CASE \E b \in Block, early \in BOOLEAN : AppendBlock(b, early)
  BY <1>1, <1>2 DEF AppendBlock, InsertBlock
<1>3. CASE AdoptOrphan
  <2>1. orphanBlocks[cursor] \in Block
    BY <1>3, MapEntry DEF IndInv, TypeOK, AdoptOrphan, Has
  <2> QED
    BY <1>1, <1>3, <2>1 DEF AdoptOrphan, InsertBlock
<1>4. CASE UNCHANGED currentHeight
  BY <1>1, <1>4
<1> QED
  BY <1>2, <1>3, <1>4 DEF Next, StoreOrphan, RejectBlock, ReleaseLock, vars

\* The height counter never goes down, not even when it wraps.
THEOREM HeightNeverDrops == Spec => HeightMonotone
<1>1. IndInv /\ [Next]_vars => [currentHeight' >= currentHeight]_vars
  BY StepKeepsHeight
<1> QED
  BY <1>1, Invariant, PTL DEF Spec, HeightMonotone
-----------------------------------------------------------------------------
(* The refinement.                                                         *)

\* The block store implements the tree that only grows, until the height
\* counter is at its largest value.
THEOREM BlockTreeRefinement == Spec => ImplementsBlockTree
<1>1. Init => BT!Init
  BY DEF Init, BT!Init, Put, BT!Put, EmptyMap, BT!EmptyMap, Genesis, BT!Genesis
<1>2. IndInv /\ [Next]_vars => [NoWrap => BT!Next \/ UNCHANGED blocks]_vars
  <2> SUFFICES ASSUME IndInv, Next, NoWrap PROVE BT!Next \/ UNCHANGED blocks
    OBVIOUS
  <2> USE DEF BT!Next, BT!Grow, BT!Put, Put, BT!Has, Has, InsertBlock
  <2>1. CASE \E b \in Block, early \in BOOLEAN : AppendBlock(b, early)
    <3> PICK b \in Block, early \in BOOLEAN : AppendBlock(b, early)
      BY <2>1
    <3>1. Has(blocks, b.prev) /\ ~Has(blocks, b.hash)
      BY AppendIsNew
    <3> QED
      BY <3>1 DEF AppendBlock
  <2>2. CASE AdoptOrphan
    <3>1. orphanBlocks[cursor] \in Block
      BY <2>2, MapEntry DEF IndInv, TypeOK, AdoptOrphan
    <3>2. /\ Has(blocks, orphanBlocks[cursor].prev)
          /\ ~Has(blocks, orphanBlocks[cursor].hash)
      BY <2>2, AdoptIsNew
    <3> QED
      BY <2>2, <3>1, <3>2 DEF AdoptOrphan
  <2>3. CASE UNCHANGED blocks
    BY <2>3
  <2> QED
    BY <2>1, <2>2, <2>3 DEF Next, StoreOrphan, RejectBlock, ReleaseLock, vars
<1> QED
  BY <1>1, <1>2, Invariant, PTL DEF Spec, ImplementsBlockTree
=============================================================================
