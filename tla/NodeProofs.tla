----------------------------- MODULE NodeProofs -----------------------------
(***************************************************************************)
(* For any number of peers, any blocks and any interleaving of the         *)
(* goroutines: no block is applied to the state twice, only applied blocks *)
(* are passed on, the store is used as Blockchain specifies, the state     *)
(* never runs ahead of the chain, and no transaction is applied twice.     *)
(* Then, for any connections: the table of the peers is right, and no      *)
(* connection leaks.                                                       *)
(***************************************************************************)
EXTENDS Node, Peers, TLAPS

\* The height of a block that peers can send is a uint64.
LEMMA BlockHeight ==
    ASSUME NEW b \in Block
    PROVE  b.height \in Uint64
BY BlockAssumption DEF BlockType

\* A goroutine other than those inside AddBlock and UpdateState cannot disturb
\* the invariant.
LEMMA Elsewhere ==
    ASSUME IndInv, NEW t \in Thread, NEW a \in Label,
           a \notin {"addBlock", "adoptOrphans", "updateState", "applying"},
           pc' = [pc EXCEPT ![t] = a],
           DOMAIN job' = Thread,
           \A u \in Thread \ {t} : job'[u] = job[u],
           UNCHANGED <<currentHeight, orphanBlocks, stateHistory, update>>
    PROVE  IndInv'
<1>1. pc' \in [Thread -> Label] /\ pc'[t] = a
      /\ \A u \in Thread \ {t} : pc'[u] = pc[u]
  BY DEF IndInv
<1>2. HeightTypes'
  BY <1>1 DEF IndInv, HeightTypes, AboutToApply
<1>3. OneUpdater'
  BY <1>1 DEF IndInv, OneUpdater
<1>4. HeightsHandedOut'
  BY <1>1 DEF IndInv, HeightsHandedOut, AboutToApply
<1>5. BlockAppliedOnce'
  BY <1>1 DEF IndInv, BlockAppliedOnce, AboutToApply, Has
<1> QED
  BY <1>1, <1>2, <1>3, <1>4, <1>5 DEF IndInv

\* A goroutine starts on a block.
LEMMA StartBlock ==
    ASSUME IndInv, NEW t \in Thread, NEW b, b.height \in Uint64,
           Start(t, "addBlock", b), UNCHANGED <<chainVars, stateVars>>
    PROVE  IndInv'
<1>1. /\ pc' \in [Thread -> Label] /\ DOMAIN job' = Thread
      /\ pc'[t] = "addBlock" /\ job'[t] = b
      /\ \A u \in Thread \ {t} : pc'[u] = pc[u] /\ job'[u] = job[u]
      /\ UNCHANGED <<currentHeight, orphanBlocks, stateHistory, update>>
  BY DEF IndInv, Start, Label, chainVars, stateVars
<1>2. HeightTypes'
  BY <1>1 DEF IndInv, HeightTypes, AboutToApply
<1>3. OneUpdater'
  BY <1>1 DEF IndInv, OneUpdater
<1>4. HeightsHandedOut'
  BY <1>1 DEF IndInv, HeightsHandedOut, AboutToApply
<1>5. BlockAppliedOnce'
  BY <1>1 DEF IndInv, BlockAppliedOnce, AboutToApply, Has
<1> QED
  BY <1>1, <1>2, <1>3, <1>4, <1>5 DEF IndInv

\* AddBlock returns an error.
LEMMA AddBlockFailsInv ==
    ASSUME IndInv, NEW t \in Thread, AddBlockFails(t)
    PROVE  IndInv'
<1>1. /\ pc' \in [Thread -> Label] /\ DOMAIN job' = Thread
      /\ pc[t] = "addBlock" /\ pc'[t] = "idle"
      /\ \A u \in Thread \ {t} : pc'[u] = pc[u] /\ job'[u] = job[u]
      /\ UNCHANGED <<currentHeight, stateHistory, update>>
  BY DEF IndInv, AddBlockFails, At, Return, Start, Label, stateVars,
     Chain!StoreOrphan, Chain!RejectBlock, Chain!vars
<1>2. \A p \in DOMAIN orphanBlocks' : orphanBlocks'[p].height \in Uint64
  <2>1. job[t].height \in Uint64
    BY <1>1 DEF IndInv, HeightTypes
  <2>2. CASE Chain!StoreOrphan(job[t])
    BY <2>1, <2>2 DEF IndInv, HeightTypes, Chain!StoreOrphan, Chain!Put
  <2>3. CASE UNCHANGED orphanBlocks
    BY <2>3 DEF IndInv, HeightTypes
  <2> QED
    BY <2>2, <2>3 DEF AddBlockFails, Chain!RejectBlock, Chain!vars
<1>3. HeightTypes'
  BY <1>1, <1>2 DEF IndInv, HeightTypes, AboutToApply
<1>4. OneUpdater'
  BY <1>1 DEF IndInv, OneUpdater
<1>5. HeightsHandedOut'
  BY <1>1 DEF IndInv, HeightsHandedOut, AboutToApply
<1>6. BlockAppliedOnce'
  BY <1>1 DEF IndInv, BlockAppliedOnce, AboutToApply, Has
<1> QED
  BY <1>1, <1>3, <1>4, <1>5, <1>6 DEF IndInv

\* AddBlock accepts a block: its height is one that nobody has had before.
LEMMA AddBlockInv ==
    ASSUME IndInv, NEW t \in Thread, AddBlock(t)
    PROVE  IndInv'
<1>1. /\ pc' \in [Thread -> Label] /\ DOMAIN job' = Thread
      /\ pc[t] = "addBlock" /\ pc'[t] = "adoptOrphans"
      /\ \A u \in Thread \ {t} : pc'[u] = pc[u]
      /\ UNCHANGED <<job, orphanBlocks, stateHistory, update>>
  BY DEF IndInv, AddBlock, At, Goto, Label, stateVars, Chain!AppendBlock
<1>2. /\ job[t].height = Chain!Inc(currentHeight)
      /\ currentHeight' = IF job[t].height > currentHeight THEN job[t].height
                                                           ELSE currentHeight
  BY DEF AddBlock, Chain!AppendBlock, Chain!Acceptable, Chain!InsertBlock
<1>3. /\ job[t].height \in Uint64 /\ currentHeight \in Uint64
      /\ currentHeight' \in Uint64
      /\ currentHeight' < MaxUint64 =>
            /\ currentHeight < MaxUint64
            /\ job[t].height = currentHeight + 1
            /\ currentHeight' = currentHeight + 1
  <2>1. job[t].height \in Uint64 /\ currentHeight \in Uint64
    BY <1>1 DEF IndInv, HeightTypes
  <2> QED
    BY <1>2, <2>1, MaxUint64Assumption DEF Uint64, Chain!Inc
<1>4. HeightTypes'
  BY <1>1, <1>3 DEF IndInv, HeightTypes, AboutToApply
<1>5. OneUpdater'
  BY <1>1 DEF IndInv, OneUpdater
<1>6. HeightsHandedOut'
  BY <1>1, <1>3, MaxUint64Assumption
     DEF IndInv, HeightTypes, HeightsHandedOut, AboutToApply, Uint64
<1>7. BlockAppliedOnce'
  <2> SUFFICES ASSUME currentHeight' < MaxUint64
               PROVE  \A v \in Thread : AboutToApply(v)' =>
                        /\ job[v].height \notin DOMAIN stateHistory
                        /\ \A u \in Thread \ {v} :
                              AboutToApply(u)' => job[u].height # job[v].height
    BY <1>1 DEF BlockAppliedOnce, Has
  <2>1. job[t].height \notin DOMAIN stateHistory
    BY <1>3, MaxUint64Assumption DEF IndInv, HeightsHandedOut, Uint64
  <2>2. \A u \in Thread : AboutToApply(u) => job[u].height # job[t].height
    BY <1>3, MaxUint64Assumption
       DEF IndInv, HeightsHandedOut, HeightTypes, Uint64
  <2> QED
    BY <1>1, <1>3, <2>1, <2>2 DEF IndInv, BlockAppliedOnce, AboutToApply, Has
<1> QED
  BY <1>1, <1>4, <1>5, <1>6, <1>7 DEF IndInv

\* An orphan is adopted: the current height can only go up.
LEMMA AdoptOrphanInv ==
    ASSUME IndInv, NEW t \in Thread, AdoptOrphan(t)
    PROVE  IndInv'
<1>1. UNCHANGED <<pc, job, stateHistory, update>>
  BY DEF AdoptOrphan, stateVars
<1>2. /\ currentHeight \in Uint64 /\ currentHeight' \in Uint64
      /\ currentHeight' >= currentHeight
  <2>1. orphanBlocks[cursor].height \in Uint64 /\ currentHeight \in Uint64
    BY DEF AdoptOrphan, Chain!AdoptOrphan, Chain!Has, IndInv, HeightTypes
  <2> QED
    BY <2>1, MaxUint64Assumption
       DEF AdoptOrphan, Chain!AdoptOrphan, Chain!InsertBlock, Uint64
<1>3. \A p \in DOMAIN orphanBlocks' : orphanBlocks'[p].height \in Uint64
  BY DEF AdoptOrphan, Chain!AdoptOrphan, Chain!Delete, IndInv, HeightTypes
<1>4. HeightTypes'
  BY <1>1, <1>2, <1>3 DEF IndInv, HeightTypes, AboutToApply
<1>5. OneUpdater'
  BY <1>1 DEF IndInv, OneUpdater
<1>6. HeightsHandedOut' /\ BlockAppliedOnce'
  BY <1>1, <1>2, MaxUint64Assumption
     DEF IndInv, HeightTypes, HeightsHandedOut, BlockAppliedOnce, AboutToApply,
         Has, Uint64
<1> QED
  BY <1>1, <1>4, <1>5, <1>6 DEF IndInv

\* The goroutine stays among those that are about to apply a block.
LEMMA StillAboutToApply ==
    ASSUME IndInv, NEW t \in Thread, NEW a \in {"updateState", "applying"},
           AboutToApply(t), pc' = [pc EXCEPT ![t] = a],
           UNCHANGED <<job, currentHeight, orphanBlocks, stateHistory>>,
           OneUpdater'
    PROVE  IndInv'
<1>1. /\ pc' \in [Thread -> Label]
      /\ \A u \in Thread : pc'[u] = IF u = t THEN a ELSE pc[u]
  BY DEF IndInv, Label
<1>2. HeightTypes'
  BY <1>1 DEF IndInv, HeightTypes, AboutToApply
<1>3. HeightsHandedOut'
  BY <1>1 DEF IndInv, HeightsHandedOut, AboutToApply
<1>4. BlockAppliedOnce'
  BY <1>1 DEF IndInv, BlockAppliedOnce, AboutToApply, Has
<1> QED
  BY <1>1, <1>2, <1>3, <1>4 DEF IndInv

\* AddBlock has adopted its last orphan and releases bc.mu.
LEMMA BlockAddedInv ==
    ASSUME IndInv, NEW t \in Thread, BlockAdded(t)
    PROVE  IndInv'
<1>1. /\ pc[t] = "adoptOrphans" /\ pc' = [pc EXCEPT ![t] = "updateState"]
      /\ UNCHANGED <<job, currentHeight, orphanBlocks, stateHistory, update>>
  BY DEF BlockAdded, At, Goto, stateVars, Chain!ReleaseLock
<1>2. OneUpdater'
  BY <1>1 DEF IndInv, OneUpdater
<1> QED
  BY <1>1, <1>2, StillAboutToApply DEF AboutToApply

\* UpdateState begins: sm.mu was free, so nobody else is inside.
LEMMA BeginUpdateInv ==
    ASSUME IndInv, NEW t \in Thread, BeginUpdate(t)
    PROVE  IndInv'
<1>1. /\ pc[t] = "updateState" /\ pc' = [pc EXCEPT ![t] = "applying"]
      /\ UNCHANGED <<job, currentHeight, orphanBlocks, stateHistory>>
      /\ update = State!NoUpdate
      /\ update' = [block |-> job[t], next |-> 1, copy |-> accounts,
                    log |-> committed]
  BY DEF BeginUpdate, At, Goto, chainVars, State!BeginUpdate, State!store
<1>2. \A u \in Thread : pc[u] # "applying"
  <2> SUFFICES ASSUME NEW u \in Thread, pc[u] = "applying"
               PROVE  FALSE
    OBVIOUS
  <2>1. DOMAIN update = {"block", "next", "copy", "log"}
    BY DEF IndInv, OneUpdater
  <2> QED
    BY <1>1, <2>1 DEF State!NoUpdate
<1>3. \A u \in Thread : pc'[u] = "applying" => u = t
  BY <1>1, <1>2 DEF IndInv
<1>4. OneUpdater'
  BY <1>1, <1>3 DEF OneUpdater
<1> QED
  BY <1>1, <1>4, StillAboutToApply DEF AboutToApply

\* applyTransaction only changes the copy.
LEMMA ApplyTransactionInv ==
    ASSUME IndInv, NEW t \in Thread, ApplyTransaction(t)
    PROVE  IndInv'
<1>1. /\ pc[t] = "applying"
      /\ UNCHANGED <<pc, job, currentHeight, orphanBlocks, stateHistory>>
      /\ \E n, c, l : update' = [update EXCEPT !.next = n, !.copy = c, !.log = l]
  BY DEF ApplyTransaction, At, chainVars, State!ApplyTransaction, State!store
<1>2. OneUpdater'
  <2>1. update = [block |-> job[t], next |-> update.next,
                  copy |-> update.copy, log |-> update.log]
    BY <1>1 DEF IndInv, OneUpdater
  <2>2. update' = [block |-> job[t], next |-> update'.next,
                   copy |-> update'.copy, log |-> update'.log]
    <3>1. PICK n, c, l : update' = [update EXCEPT !.next = n, !.copy = c, !.log = l]
      BY <1>1
    <3>2. PICK n0, c0, l0 :
            update = [block |-> job[t], next |-> n0, copy |-> c0, log |-> l0]
      BY <2>1
    <3>3. update' = [block |-> job[t], next |-> n, copy |-> c, log |-> l]
      BY <3>1, <3>2
    <3> QED
      BY <3>3
  <2>3. \A u \in Thread : pc[u] = "applying" => u = t
    BY <1>1 DEF IndInv, OneUpdater
  <2> QED
    BY <1>1, <2>2, <2>3 DEF OneUpdater
<1> QED
  BY <1>1, <1>2 DEF IndInv, HeightTypes, HeightsHandedOut, BlockAppliedOnce,
                    AboutToApply, Has

\* UpdateState is over, one way or the other: the goroutine leaves, and the
\* height of its block may have entered the history.
LEMMA LeaveUpdate ==
    ASSUME IndInv, NEW t \in Thread, NEW a \in {"idle", "removeTransactions"},
           pc[t] = "applying", pc' = [pc EXCEPT ![t] = a],
           DOMAIN job' = Thread,
           \A u \in Thread \ {t} : job'[u] = job[u],
           UNCHANGED <<currentHeight, orphanBlocks>>,
           DOMAIN stateHistory' \subseteq DOMAIN stateHistory \cup {job[t].height}
    PROVE  IndInv'
<1>1. /\ pc' \in [Thread -> Label]
      /\ pc'[t] = a
      /\ \A u \in Thread \ {t} : pc'[u] = pc[u]
  BY DEF IndInv, Label
<1>2. HeightTypes'
  BY <1>1 DEF IndInv, HeightTypes, AboutToApply
<1>3. \A u \in Thread : pc'[u] # "applying"
  BY <1>1 DEF IndInv, OneUpdater
<1>4. OneUpdater'
  BY <1>3 DEF OneUpdater
<1>5. HeightsHandedOut'
  BY <1>1 DEF IndInv, HeightTypes, HeightsHandedOut, AboutToApply
<1>6. BlockAppliedOnce'
  BY <1>1 DEF IndInv, BlockAppliedOnce, AboutToApply, Has
<1> QED
  BY <1>1, <1>2, <1>4, <1>5, <1>6 DEF IndInv

\* UpdateState returns an error or panics: nothing enters the history.
LEMMA UpdateStateFailsInv ==
    ASSUME IndInv, NEW t \in Thread, UpdateStateFails(t)
    PROVE  IndInv'
<1>1. /\ pc[t] = "applying" /\ pc' = [pc EXCEPT ![t] = "idle"]
      /\ DOMAIN job' = Thread
      /\ \A u \in Thread \ {t} : job'[u] = job[u]
      /\ UNCHANGED <<currentHeight, orphanBlocks>>
  BY DEF IndInv, UpdateStateFails, At, Return, Start, chainVars
<1>2. UNCHANGED stateHistory
  BY DEF UpdateStateFails, State!AbortUpdate, State!Panic,
         State!FailToArchive, State!store
<1> QED
  BY <1>1, <1>2, LeaveUpdate

\* UpdateState enters the height of the block into the history; no other
\* goroutine has a block of that height.
LEMMA CommitUpdateInv ==
    ASSUME IndInv, NEW t \in Thread, CommitUpdate(t)
    PROVE  IndInv'
<1>1. /\ pc[t] = "applying" /\ pc' = [pc EXCEPT ![t] = "removeTransactions"]
      /\ UNCHANGED <<job, currentHeight, orphanBlocks>>
  BY DEF CommitUpdate, At, Goto, chainVars
<1>2. update.block = job[t]
  BY <1>1 DEF IndInv, OneUpdater
<1>3. DOMAIN stateHistory' \subseteq DOMAIN stateHistory \cup {job[t].height}
  <2>1. PICK v : stateHistory' = State!Put(stateHistory, update.block.height, v)
    BY DEF CommitUpdate, State!CommitUpdate
  <2> QED
    BY <1>2, <2>1 DEF State!Put
<1> QED
  BY <1>1, <1>3, LeaveUpdate DEF IndInv

\* A new node satisfies the invariant.
LEMMA InitInv == Init => IndInv
<1> SUFFICES ASSUME Init
             PROVE  IndInv
  OBVIOUS
<1>1. /\ pc \in [Thread -> Label] /\ DOMAIN job = Thread
      /\ \A t \in Thread : pc[t] = "idle"
  BY DEF Init, Label
<1>2. /\ currentHeight \in Uint64
      /\ DOMAIN orphanBlocks = {} /\ DOMAIN stateHistory = {}
  BY MaxUint64Assumption DEF Init, Chain!Init, State!Init, Chain!EmptyMap,
                             State!EmptyMap, Uint64
<1> QED
  BY <1>1, <1>2 DEF IndInv, HeightTypes, OneUpdater, HeightsHandedOut,
                    BlockAppliedOnce, AboutToApply, Has

\* Every step of every goroutine preserves the invariant.
LEMMA NextInv == IndInv /\ [Next]_vars => IndInv'
<1> SUFFICES ASSUME IndInv, [Next]_vars
             PROVE  IndInv'
  OBVIOUS
<1> USE DEF Label
<1>1. ASSUME NEW t \in Peer, Receive(t)
      PROVE  IndInv'
  <2>1. ASSUME NEW b \in Block, ReceiveBlock(t, b)
        PROVE  IndInv'
    BY <2>1, BlockHeight, StartBlock DEF ReceiveBlock, Thread
  <2>2. ASSUME NEW tx \in Transaction, ReceiveTransaction(t, tx)
        PROVE  IndInv'
    BY <2>2, Elsewhere
       DEF ReceiveTransaction, Start, IndInv, chainVars, stateVars, Thread
  <2> QED
    BY <1>1, <2>1, <2>2 DEF Receive
<1>2. ASSUME NEW t \in Thread, Step(t)
      PROVE  IndInv'
  <2>1. CASE AddTransaction(t)
    <3>1. PICK a \in {"idle", "broadcast"} : pc' = [pc EXCEPT ![t] = a]
      BY <2>1 DEF AddTransaction, Return, Start, Goto
    <3> QED
      BY <2>1, <3>1, Elsewhere
         DEF AddTransaction, Return, Start, Goto, IndInv, chainVars, stateVars
  <2>2. CASE RemoveTransaction(t)
    BY <2>2, Elsewhere DEF RemoveTransaction, At, IndInv, chainVars, stateVars
  <2>3. CASE AllRemoved(t)
    BY <2>3, Elsewhere DEF AllRemoved, Goto, IndInv, chainVars, stateVars
  <2>4. CASE Broadcast(t)
    BY <2>4, Elsewhere DEF Broadcast, Return, Start, IndInv, chainVars, stateVars
  <2> QED
    BY <1>2, <2>1, <2>2, <2>3, <2>4, AddBlockFailsInv, AddBlockInv,
       AdoptOrphanInv, BlockAddedInv, BeginUpdateInv, ApplyTransactionInv,
       UpdateStateFailsInv, CommitUpdateInv
       DEF Step
<1>3. CASE TakePending
  <2>1. PICK batch : Start(Main, "makeBlock", [txs |-> batch])
    BY <1>3 DEF TakePending
  <2> QED
    BY <1>3, <2>1, Elsewhere
       DEF TakePending, Start, IndInv, chainVars, stateVars, Thread
<1>4. CASE MakeBlock
  <2>1. PendingBlock(job[Main].txs).height \in Uint64
    BY MaxUint64Assumption DEF PendingBlock, Inc, IndInv, HeightTypes, Uint64
  <2> QED
    BY <1>4, <2>1, StartBlock DEF MakeBlock, Thread
<1>5. CASE UNCHANGED vars
  BY <1>5 DEF vars, chainVars, stateVars, IndInv, HeightTypes, OneUpdater,
              HeightsHandedOut, BlockAppliedOnce, AboutToApply, Has
<1> QED
  BY <1>1, <1>2, <1>3, <1>4, <1>5 DEF Next

\* ProcessBlock, in any number of goroutines: heights are handed out once, in
\* increasing order, and one goroutine at a time is inside UpdateState.
THEOREM Invariant == Spec => []IndInv
BY InitInv, NextInv, PTL DEF Spec

\* ProcessBlock never applies a block to the state twice, although it releases
\* bc.mu before it takes sm.mu and any number of peers may send the block.
THEOREM AppliedOnce == Spec => []BlockAppliedOnce
<1>1. IndInv => BlockAppliedOnce
  BY DEF IndInv
<1> QED
  BY <1>1, Invariant, PTL
-----------------------------------------------------------------------------
(* What is passed on to the peers.                                         *)

\* The goroutine has had its block stored; it has had its block applied.
BlockStored(t) == \/ AboutToApply(t)
                  \/ pc[t] = "removeTransactions"
                  \/ pc[t] = "broadcast" /\ "txs" \in DOMAIN job[t]
BlockApplied(t) == \/ pc[t] = "removeTransactions"
                   \/ pc[t] = "broadcast" /\ "txs" \in DOMAIN job[t]

\* What a goroutine has in hand, and what is true of it.
InHand(t) ==
    /\ pc[t] = "addTransaction" => "txs" \notin DOMAIN job[t]
    /\ pc[t] = "addBlock" \/ BlockStored(t) => {"hash", "height"} \subseteq DOMAIN job[t]
    /\ BlockStored(t) => Has(blocks, job[t].hash)
    /\ BlockApplied(t) => Has(stateHistory, job[t].height)

AllInHand == \A t \in Thread : InHand(t)

\* Neither the store nor the history ever forgets.
Grows ==
    /\ DOMAIN blocks \subseteq DOMAIN blocks'
    /\ DOMAIN stateHistory \subseteq DOMAIN stateHistory'

\* What is true of the goroutines that do not move stays true.
LEMMA OthersInHand ==
    ASSUME AllInHand, Grows, NEW t \in Thread, InHand(t)',
           \A u \in Thread \ {t} : pc'[u] = pc[u] /\ job'[u] = job[u]
    PROVE  AllInHand'
BY DEF AllInHand, Grows, InHand, BlockStored, BlockApplied, AboutToApply, Has

\* A goroutine that starts on something, or returns.
LEMMA StartInHand ==
    ASSUME IndInv, AllInHand, NEW t \in Thread, NEW a, NEW w, Start(t, a, w), Grows,
           \/ a \in {"idle", "makeBlock"}
           \/ a = "addTransaction" /\ "txs" \notin DOMAIN w
           \/ a = "addBlock" /\ {"hash", "height"} \subseteq DOMAIN w
    PROVE  AllInHand'
<1>1. /\ pc'[t] = a /\ job'[t] = w
      /\ \A u \in Thread \ {t} : pc'[u] = pc[u] /\ job'[u] = job[u]
  BY DEF Start, IndInv
<1>2. InHand(t)'
  BY <1>1 DEF InHand, BlockStored, BlockApplied, AboutToApply
<1> QED
  BY <1>1, <1>2, OthersInHand

\* Peers send blocks and transactions, and no transaction has transactions.
LEMMA MessageInHand ==
    /\ \A tx \in Transaction : "txs" \notin DOMAIN tx
    /\ \A b \in Block : {"hash", "height"} \subseteq DOMAIN b
BY TransactionAssumption, BlockAssumption DEF TransactionType, BlockType

\* ProcessTransaction has a transaction in hand all the way.
LEMMA AddTransactionInHand ==
    ASSUME IndInv, AllInHand, NEW t \in Thread, AddTransaction(t)
    PROVE  AllInHand'
<1>1. Grows /\ pc[t] = "addTransaction" /\ InHand(t)
  BY DEF AddTransaction, At, Grows, chainVars, stateVars, AllInHand
<1>2. CASE Full
  BY <1>1, <1>2, StartInHand DEF AddTransaction, Return
<1>3. CASE ~Full
  <2>1. /\ pc'[t] = "broadcast" /\ job' = job
        /\ \A u \in Thread \ {t} : pc'[u] = pc[u]
    BY <1>3 DEF AddTransaction, Goto, IndInv
  <2>2. InHand(t)'
    BY <1>1, <2>1 DEF InHand, BlockStored, BlockApplied, AboutToApply
  <2> QED
    BY <1>1, <2>1, <2>2, OthersInHand
<1> QED
  BY <1>2, <1>3

\* ProcessBlock has a block in hand, which AddBlock stores.
LEMMA AddBlockInHand ==
    ASSUME IndInv, AllInHand, NEW t \in Thread,
           AddBlockFails(t) \/ AddBlock(t) \/ AdoptOrphan(t) \/ BlockAdded(t)
    PROVE  AllInHand'
<1>1. CASE AddBlockFails(t)
  <2>1. Grows /\ Start(t, "idle", NoJob)
    BY <1>1 DEF AddBlockFails, Grows, Return, stateVars, Chain!StoreOrphan,
                Chain!RejectBlock, Chain!vars
  <2> QED
    BY <2>1, StartInHand
<1>2. CASE AddBlock(t)
  <2>1. /\ pc[t] = "addBlock" /\ pc'[t] = "adoptOrphans" /\ job' = job
        /\ \A u \in Thread \ {t} : pc'[u] = pc[u]
        /\ UNCHANGED stateHistory
        /\ blocks' = Chain!Put(blocks, job[t].hash, job[t])
    BY <1>2 DEF AddBlock, At, Goto, IndInv, stateVars, Chain!AppendBlock,
                Chain!InsertBlock
  <2>2. Grows /\ Has(blocks', job[t].hash)
    BY <2>1 DEF Grows, Has, Chain!Put
  <2>3. InHand(t)'
    BY <2>1, <2>2 DEF AllInHand, InHand, BlockStored, BlockApplied, AboutToApply, Has
  <2> QED
    BY <2>1, <2>2, <2>3, OthersInHand
<1>3. CASE AdoptOrphan(t)
  <2>1. UNCHANGED <<pc, job, stateHistory>> /\ DOMAIN blocks \subseteq DOMAIN blocks'
    BY <1>3 DEF AdoptOrphan, stateVars, Chain!AdoptOrphan, Chain!InsertBlock,
                Chain!Put
  <2> QED
    BY <2>1 DEF AllInHand, InHand, BlockStored, BlockApplied, AboutToApply, Has
<1>4. CASE BlockAdded(t)
  <2>1. /\ pc[t] = "adoptOrphans" /\ pc'[t] = "updateState" /\ job' = job
        /\ \A u \in Thread \ {t} : pc'[u] = pc[u]
        /\ UNCHANGED <<blocks, stateHistory>>
    BY <1>4 DEF BlockAdded, At, Goto, IndInv, stateVars, Chain!ReleaseLock
  <2>2. InHand(t)'
    BY <2>1 DEF AllInHand, InHand, BlockStored, BlockApplied, AboutToApply, Has
  <2> QED
    BY <2>1, <2>2, OthersInHand DEF Grows
<1> QED
  BY <1>1, <1>2, <1>3, <1>4

\* UpdateState enters the height of the block it was called with.
LEMMA UpdateInHand ==
    ASSUME IndInv, AllInHand, NEW t \in Thread,
           BeginUpdate(t) \/ ApplyTransaction(t) \/ UpdateStateFails(t) \/ CommitUpdate(t)
    PROVE  AllInHand'
<1>1. CASE BeginUpdate(t)
  <2>1. /\ pc[t] = "updateState" /\ pc'[t] = "applying" /\ job' = job
        /\ \A u \in Thread \ {t} : pc'[u] = pc[u]
        /\ UNCHANGED <<blocks, stateHistory>>
    BY <1>1 DEF BeginUpdate, At, Goto, IndInv, chainVars, State!BeginUpdate, State!store
  <2>2. InHand(t)'
    BY <2>1 DEF AllInHand, InHand, BlockStored, BlockApplied, AboutToApply, Has
  <2> QED
    BY <2>1, <2>2, OthersInHand DEF Grows
<1>2. CASE ApplyTransaction(t)
  <2>1. UNCHANGED <<pc, job, blocks, stateHistory>>
    BY <1>2 DEF ApplyTransaction, chainVars, State!ApplyTransaction, State!store
  <2> QED
    BY <2>1 DEF AllInHand, InHand, BlockStored, BlockApplied, AboutToApply, Has
<1>3. CASE UpdateStateFails(t)
  <2>1. Grows /\ Start(t, "idle", NoJob)
    BY <1>3 DEF UpdateStateFails, Grows, Return, chainVars, State!AbortUpdate,
                State!Panic, State!FailToArchive, State!store
  <2> QED
    BY <2>1, StartInHand
<1>4. CASE CommitUpdate(t)
  <2>1. /\ pc[t] = "applying" /\ pc'[t] = "removeTransactions" /\ job' = job
        /\ \A u \in Thread \ {t} : pc'[u] = pc[u]
        /\ UNCHANGED blocks
    BY <1>4 DEF CommitUpdate, At, Goto, IndInv, chainVars
  <2>2. update.block = job[t]
    BY <2>1 DEF IndInv, OneUpdater
  <2>3. Grows /\ Has(stateHistory', job[t].height)
    <3>1. PICK v : stateHistory' = State!Put(stateHistory, update.block.height, v)
      BY <1>4 DEF CommitUpdate, State!CommitUpdate
    <3> QED
      BY <2>1, <2>2, <3>1 DEF Grows, Has, State!Put
  <2>4. InHand(t)'
    BY <2>1, <2>3 DEF AllInHand, InHand, BlockStored, BlockApplied, AboutToApply, Has
  <2> QED
    BY <2>1, <2>3, <2>4, OthersInHand
<1> QED
  BY <1>1, <1>2, <1>3, <1>4

\* The transactions of the block in hand are used up, the block stays.
LEMMA RemoveInHand ==
    ASSUME IndInv, AllInHand, NEW t \in Thread,
           RemoveTransaction(t) \/ AllRemoved(t) \/ Broadcast(t)
    PROVE  AllInHand'
<1>1. CASE RemoveTransaction(t)
  <2>1. /\ pc[t] = "removeTransactions" /\ pc' = pc
        /\ job' = [job EXCEPT ![t].txs = Tail(@)]
        /\ UNCHANGED <<blocks, stateHistory>>
    BY <1>1 DEF RemoveTransaction, At, chainVars, stateVars
  <2>2. {"hash", "height"} \subseteq DOMAIN job[t]
    BY <2>1 DEF AllInHand, InHand, BlockStored
  <2>3. /\ job'[t].hash = job[t].hash /\ job'[t].height = job[t].height
        /\ DOMAIN job'[t] = DOMAIN job[t]
        /\ \A u \in Thread \ {t} : job'[u] = job[u]
    BY <2>1, <2>2 DEF IndInv
  <2>4. InHand(t)'
    BY <2>1, <2>3 DEF AllInHand, InHand, BlockStored, BlockApplied, AboutToApply, Has
  <2> QED
    BY <2>1, <2>3, <2>4, OthersInHand DEF Grows
<1>2. CASE AllRemoved(t)
  <2>1. /\ pc[t] = "removeTransactions" /\ pc'[t] = "broadcast" /\ job' = job
        /\ \A u \in Thread \ {t} : pc'[u] = pc[u]
        /\ UNCHANGED <<blocks, stateHistory>>
    BY <1>2 DEF AllRemoved, At, Goto, IndInv, chainVars, stateVars
  <2>2. InHand(t)'
    BY <2>1 DEF AllInHand, InHand, BlockStored, BlockApplied, AboutToApply, Has
  <2> QED
    BY <2>1, <2>2, OthersInHand DEF Grows
<1>3. CASE Broadcast(t)
  <2>1. Grows /\ Start(t, "idle", NoJob)
    BY <1>3 DEF Broadcast, Grows, Return, chainVars, stateVars
  <2> QED
    BY <2>1, StartInHand
<1> QED
  BY <1>1, <1>2, <1>3

\* Every step keeps what is true of what the goroutines have in hand.
LEMMA NextInHand == IndInv /\ AllInHand /\ [Next]_vars => AllInHand'
<1> SUFFICES ASSUME IndInv, AllInHand, [Next]_vars PROVE AllInHand'
  OBVIOUS
<1>1. ASSUME NEW t \in Peer, Receive(t) PROVE AllInHand'
  <2>1. ASSUME NEW b \in Block, ReceiveBlock(t, b) PROVE AllInHand'
    BY <2>1, MessageInHand, StartInHand
       DEF ReceiveBlock, Thread, Grows, chainVars, stateVars
  <2>2. ASSUME NEW tx \in Transaction, ReceiveTransaction(t, tx) PROVE AllInHand'
    BY <2>2, MessageInHand, StartInHand
       DEF ReceiveTransaction, Thread, Grows, chainVars, stateVars
  <2> QED
    BY <1>1, <2>1, <2>2 DEF Receive
<1>2. ASSUME NEW t \in Thread, Step(t) PROVE AllInHand'
  BY <1>2, AddTransactionInHand, AddBlockInHand, UpdateInHand, RemoveInHand DEF Step
<1>3. CASE TakePending
  <2>1. PICK batch : Start(Main, "makeBlock", [txs |-> batch])
    BY <1>3 DEF TakePending
  <2> QED
    BY <1>3, <2>1, StartInHand DEF TakePending, Thread, Grows, chainVars, stateVars
<1>4. CASE MakeBlock
  <2> DEFINE b == PendingBlock(job[Main].txs)
  <2>1. {"hash", "height"} \subseteq DOMAIN b
    BY DEF PendingBlock
  <2>2. Start(Main, "addBlock", b) /\ Grows /\ Main \in Thread
    BY <1>4 DEF MakeBlock, Thread, Grows, chainVars, stateVars
  <2> HIDE DEF b
  <2> QED
    BY <2>1, <2>2, StartInHand
<1>5. CASE UNCHANGED vars
  BY <1>5 DEF vars, chainVars, stateVars, AllInHand, InHand, BlockStored,
              BlockApplied, AboutToApply, Has
<1> QED
  BY <1>1, <1>2, <1>3, <1>4, <1>5 DEF Next

\* ProcessBlock passes a block on only when it is stored and applied, although
\* AddBlock and UpdateState can fail and other goroutines run in between.
THEOREM PassedOnApplied == Spec => []BroadcastsApplied
<1>1. Init => AllInHand
  BY DEF Init, AllInHand, InHand, BlockStored, BlockApplied, AboutToApply
<1>2. AllInHand => BroadcastsApplied
  BY DEF AllInHand, InHand, BlockStored, BlockApplied, BroadcastsApplied
<1> QED
  BY <1>1, <1>2, Invariant, NextInHand, PTL DEF Spec
-----------------------------------------------------------------------------
(* The block store of a node is that of Blockchain.                        *)

\* The orphans that can ever be adopted: those mainLoop makes have no parent.
AdoptableOrphans ==
    [p \in DOMAIN orphanBlocks \ {ZeroHash} |-> orphanBlocks[p]]
Store == INSTANCE Blockchain WITH orphanBlocks <- AdoptableOrphans

\* Many goroutines use the block store as one caller would that submits the
\* blocks peers have sent: what Blockchain promises holds in a node.  It holds
\* because the block store refuses every block of mainLoop, which is not what
\* mainLoop makes them for.
StoreUndisturbed == Store!Init /\ [][Store!Next]_(Store!vars)

\* The theorems about Blockchain, for the store as it is in a node.
Proved == INSTANCE BlockchainProofs WITH orphanBlocks <- AdoptableOrphans

\* They hold under the assumptions on the constants.
LEMMA ProvedInit == Proved!Init => Proved!IndInv
BY Proved!InitInv, MaxUint64Assumption, ZeroAssumption, BlockAssumption,
   TransactionAssumption, HashAssumption
DEF BlockType, TransactionType, HashedFields, Genesis, Uint64,
    Proved!BlockType, Proved!TransactionType, Proved!HashedFields,
    Proved!Genesis, Proved!Uint64

LEMMA ProvedNext ==
    ASSUME Proved!IndInv, [Proved!Next]_(Proved!vars)
    PROVE  /\ Proved!IndInv'
           /\ currentHeight' >= currentHeight
           /\ Proved!NoWrap => \A h \in DOMAIN blocks :
                 Proved!Has(blocks', h) /\ blocks'[h] = blocks[h]
BY Proved!NextInv, Proved!StepKeepsHeight, Proved!StepKeepsBlocks,
   MaxUint64Assumption, ZeroAssumption, BlockAssumption,
   TransactionAssumption, HashAssumption
DEF BlockType, TransactionType, HashedFields, Genesis, Uint64,
    Proved!BlockType, Proved!TransactionType, Proved!HashedFields,
    Proved!Genesis, Proved!Uint64

\* Both instances of Blockchain are the same.
LEMMA SameInit == Store!Init <=> Proved!Init
BY DEF Store!Init, Proved!Init, Store!Put, Proved!Put, Store!EmptyMap,
       Proved!EmptyMap, Store!Genesis, Proved!Genesis

LEMMA SameNext == [Store!Next]_(Store!vars) <=> [Proved!Next]_(Proved!vars)
BY DEF Store!Next, Proved!Next, Store!vars, Proved!vars,
       Store!StoreOrphan, Proved!StoreOrphan, Store!AppendBlock,
       Proved!AppendBlock, Store!RejectBlock, Proved!RejectBlock,
       Store!AdoptOrphan, Proved!AdoptOrphan, Store!ReleaseLock,
       Proved!ReleaseLock, Store!InsertBlock, Proved!InsertBlock,
       Store!MissingParent, Proved!MissingParent, Store!Acceptable,
       Proved!Acceptable, Store!ValidateBlockHeader,
       Proved!ValidateBlockHeader, Store!ValidateTransaction,
       Proved!ValidateTransaction, Store!Put, Proved!Put, Store!Delete,
       Proved!Delete, Store!Has, Proved!Has, Store!Inc, Proved!Inc

\* A block that AddBlock may be called with: a peer has sent it, or mainLoop
\* has made it.
Submitted(b) == b \in Block \/ (b.version = 0 /\ b.prev = ZeroHash)

\* What AddBlock does is seen by those who do not look at the orphans that wait
\* for the zero hash as a step of the store, or not at all.
StoreStep == [Proved!Next]_(Proved!vars)

\* A block without parent is filed where nobody looks.
LEMMA OrphanStored ==
    ASSUME NEW b, Submitted(b), Chain!StoreOrphan(b)
    PROVE  StoreStep
<1>1. /\ cursor = NoHash /\ b.height > 0 /\ b.prev \notin DOMAIN blocks
      /\ orphanBlocks' = [x \in DOMAIN orphanBlocks \cup {b.prev} |->
                              IF x = b.prev THEN b ELSE orphanBlocks[x]]
      /\ UNCHANGED <<blocks, heightToHash, currentHeight, cursor>>
  BY DEF Chain!StoreOrphan, Chain!MissingParent, Chain!Has, Chain!Put
<1>2. CASE b.prev = ZeroHash
  <2>1. AdoptableOrphans' = AdoptableOrphans
    BY <1>1, <1>2 DEF AdoptableOrphans
  <2> QED
    BY <1>1, <2>1 DEF StoreStep, Proved!vars
<1>3. CASE b \in Block /\ b.prev # ZeroHash
  <2>1. AdoptableOrphans' = [x \in DOMAIN AdoptableOrphans \cup {b.prev} |->
                                 IF x = b.prev THEN b ELSE AdoptableOrphans[x]]
    BY <1>1, <1>3 DEF AdoptableOrphans
  <2>2. Proved!StoreOrphan(b)
    BY <1>1, <2>1 DEF Proved!StoreOrphan, Proved!MissingParent, Proved!Has,
                      Proved!Put
  <2> QED
    BY <1>3, <2>2 DEF StoreStep, Proved!Next
<1> QED
  BY <1>2, <1>3 DEF Submitted

\* A block that is refused changes nothing.
LEMMA BlockRejected ==
    ASSUME NEW b, NEW early, Chain!RejectBlock(b, early)
    PROVE  StoreStep
BY DEF Chain!RejectBlock, Chain!vars, StoreStep, Proved!vars, AdoptableOrphans

\* A block of mainLoop has version 0, so that only one of a peer is accepted.
LEMMA BlockAppended ==
    ASSUME NEW b, NEW early \in BOOLEAN, Submitted(b), Chain!AppendBlock(b, early)
    PROVE  StoreStep /\ b \in Block
<1>1. b.version # 0
  BY DEF Chain!AppendBlock, Chain!Acceptable, Chain!ValidateBlockHeader
<1>2. b \in Block
  BY <1>1 DEF Submitted
<1>3. UNCHANGED AdoptableOrphans
  BY DEF Chain!AppendBlock, AdoptableOrphans
<1>4. Proved!AppendBlock(b, early)
  BY <1>3
  DEF Chain!AppendBlock, Chain!Acceptable, Chain!ValidateBlockHeader,
      Chain!ValidateTransaction, Chain!MissingParent, Chain!InsertBlock,
      Chain!Put, Chain!Has, Chain!Inc,
      Proved!AppendBlock, Proved!Acceptable, Proved!ValidateBlockHeader,
      Proved!ValidateTransaction, Proved!MissingParent, Proved!InsertBlock,
      Proved!Put, Proved!Has, Proved!Inc
<1> QED
  BY <1>2, <1>4 DEF StoreStep, Proved!Next

\* The cascade never comes to the zero hash, which is the hash of no block.
LEMMA OrphanAdopted ==
    ASSUME Proved!IndInv, Chain!AdoptOrphan
    PROVE  StoreStep
<1>1. cursor # ZeroHash
  BY ZeroAssumption DEF Proved!IndInv, Proved!TypeOK, Chain!AdoptOrphan
<1>2. /\ cursor # NoHash /\ cursor \in DOMAIN orphanBlocks
      /\ orphanBlocks' = [x \in DOMAIN orphanBlocks \ {cursor} |-> orphanBlocks[x]]
  BY DEF Chain!AdoptOrphan, Chain!Has, Chain!Delete
<1>3. /\ cursor \in DOMAIN AdoptableOrphans
      /\ AdoptableOrphans[cursor] = orphanBlocks[cursor]
      /\ AdoptableOrphans' =
            [x \in DOMAIN AdoptableOrphans \ {cursor} |-> AdoptableOrphans[x]]
  BY <1>1, <1>2 DEF AdoptableOrphans
<1>4. Proved!InsertBlock(AdoptableOrphans[cursor])
  BY <1>3 DEF Chain!AdoptOrphan, Chain!InsertBlock, Chain!Put,
              Proved!InsertBlock, Proved!Put
<1>5. Proved!AdoptOrphan
  BY <1>2, <1>3, <1>4 DEF Proved!AdoptOrphan, Proved!Has, Proved!Delete
<1> QED
  BY <1>5 DEF StoreStep, Proved!Next

\* The last of the calls returns.
LEMMA LockReleased ==
    ASSUME Chain!ReleaseLock
    PROVE  StoreStep
<1>1. cursor \notin DOMAIN AdoptableOrphans /\ UNCHANGED AdoptableOrphans
  BY DEF Chain!ReleaseLock, Chain!Has, AdoptableOrphans
<1>2. Proved!ReleaseLock
  BY <1>1 DEF Chain!ReleaseLock, Proved!ReleaseLock, Proved!Has
<1> QED
  BY <1>2 DEF StoreStep, Proved!Next

\* What a goroutine in AddBlock or UpdateState works on, and what is true of it.
Working(t) ==
    /\ pc[t] = "addBlock" => Submitted(job[t])
    /\ AboutToApply(t) =>
         /\ job[t] \in Block
         /\ Has(heightToHash, job[t].height)
         /\ currentHeight < MaxUint64 => TxsStored(job[t].txs, blocks)
    /\ pc[t] = "applying" =>
         /\ update.next \in Nat \ {0}
         /\ update.log \in Seq(Transaction)
         /\ currentHeight < MaxUint64 => TxsStored(update.log, blocks)

\* What has been applied came from the chain.
AppliedFromChain == StateFromChain /\ committed \in Seq(Transaction)

Follows ==
    /\ Proved!IndInv
    /\ \A t \in Thread : Working(t)
    /\ AppliedFromChain

\* The store grows.
StoreGrows ==
    /\ currentHeight' < MaxUint64 => currentHeight < MaxUint64
    /\ DOMAIN heightToHash \subseteq DOMAIN heightToHash'
    /\ currentHeight < MaxUint64 =>
         \A h \in DOMAIN blocks : Has(blocks', h) /\ blocks'[h] = blocks[h]

LEMMA StepGrows ==
    ASSUME Proved!IndInv, StoreStep
    PROVE  Proved!IndInv' /\ StoreGrows
<1>1. currentHeight \in Nat /\ currentHeight' \in Nat /\ MaxUint64 \in Nat
  BY ProvedNext, MaxUint64Assumption
     DEF StoreStep, Proved!IndInv, Proved!TypeOK, Proved!Uint64
<1>2. currentHeight' < MaxUint64 => currentHeight < MaxUint64
  BY <1>1, ProvedNext DEF StoreStep
<1>3. DOMAIN heightToHash \subseteq DOMAIN heightToHash'
  BY DEF StoreStep, Proved!Next, Proved!vars, Proved!StoreOrphan,
         Proved!AppendBlock, Proved!RejectBlock, Proved!AdoptOrphan,
         Proved!ReleaseLock, Proved!InsertBlock, Proved!Put
<1> QED
  BY <1>2, <1>3, ProvedNext DEF StoreGrows, StoreStep, Proved!NoWrap,
                                Proved!Has, Has

\* Transactions stay where they are stored.
LEMMA TxsStay ==
    ASSUME NEW txs, NEW store, NEW larger, TxsStored(txs, store),
           \A h \in DOMAIN store : Has(larger, h) /\ larger[h] = store[h]
    PROVE  TxsStored(txs, larger)
BY DEF TxsStored, Has

\* What is true of a goroutine that does not move stays true.
LEMMA StaysWorking ==
    ASSUME StoreGrows, NEW u \in Thread, Working(u),
           pc'[u] = pc[u], job'[u] = job[u],
           pc[u] = "applying" => update' = update
    PROVE  Working(u)'
<1>1. ASSUME NEW txs, currentHeight' < MaxUint64,
             currentHeight < MaxUint64 => TxsStored(txs, blocks)
      PROVE  TxsStored(txs, blocks')
  BY <1>1, TxsStay DEF StoreGrows
<1>2. pc[u] = "addBlock" => Submitted(job[u])'
  BY DEF Working, Submitted
<1>3. AboutToApply(u) =>
        /\ job'[u] \in Block
        /\ Has(heightToHash', job'[u].height)
        /\ currentHeight' < MaxUint64 => TxsStored(job'[u].txs, blocks')
  BY <1>1 DEF Working, StoreGrows, Has
<1>4. pc[u] = "applying" =>
        /\ update'.next \in Nat \ {0}
        /\ update'.log \in Seq(Transaction)
        /\ currentHeight' < MaxUint64 => TxsStored(update'.log, blocks')
  BY <1>1 DEF Working
<1> QED
  BY <1>2, <1>3, <1>4 DEF Working, AboutToApply

\* Nothing is applied, and one goroutine moves.
LEMMA OneMoves ==
    ASSUME Follows, StoreStep, NEW t \in Thread, Working(t)',
           \A u \in Thread \ {t} :
               /\ pc'[u] = pc[u] /\ job'[u] = job[u]
               /\ pc[u] = "applying" => update' = update,
           UNCHANGED <<stateHistory, committed>>
    PROVE  Follows'
<1>1. Proved!IndInv' /\ StoreGrows
  BY StepGrows DEF Follows
<1>2. AppliedFromChain'
  <2>1. currentHeight' < MaxUint64 => TxsStored(committed, blocks')
    BY <1>1, TxsStay DEF Follows, AppliedFromChain, StateFromChain, StoreGrows
  <2> QED
    BY <1>1, <2>1 DEF Follows, AppliedFromChain, StateFromChain, StoreGrows, Has
<1> QED
  BY <1>1, <1>2, StaysWorking DEF Follows

\* A goroutine returns, or goes where it does not work on a block, or starts
\* on a block.
LEMMA LeavesOrStarts ==
    ASSUME Follows, IndInv, StoreStep, NEW t \in Thread, NEW a,
           pc' = [pc EXCEPT ![t] = a],
           \/ a \notin {"addBlock", "adoptOrphans", "updateState", "applying"}
           \/ a = "addBlock" /\ Submitted(job'[t]),
           \A u \in Thread \ {t} :
               /\ job'[u] = job[u]
               /\ pc[u] = "applying" => update' = update,
           UNCHANGED <<stateHistory, committed>>
    PROVE  Follows'
<1>1. pc'[t] = a /\ \A u \in Thread \ {t} : pc'[u] = pc[u]
  BY DEF IndInv
<1>2. Working(t)'
  BY <1>1, ZeroAssumption DEF Working, AboutToApply, Submitted
<1> QED
  BY <1>1, <1>2, OneMoves

\* The store does not move.
LEMMA StoreIdle == UNCHANGED chainVars => StoreStep
BY DEF chainVars, StoreStep, Proved!vars, AdoptableOrphans

\* AddBlock.
LEMMA AddBlockFollows ==
    ASSUME Follows, IndInv, NEW t \in Thread, AddBlock(t)
    PROVE  StoreStep /\ Follows'
<1>1. PICK early \in BOOLEAN : Chain!AppendBlock(job[t], early)
  BY DEF AddBlock
<1>2. /\ pc[t] = "addBlock" /\ pc'[t] = "adoptOrphans" /\ job' = job
      /\ \A u \in Thread \ {t} : pc'[u] = pc[u]
      /\ UNCHANGED <<stateHistory, committed, update>>
  BY DEF AddBlock, At, Goto, IndInv, stateVars
<1>3. StoreStep /\ job[t] \in Block
  BY <1>1, <1>2, BlockAppended DEF Follows, Working
<1>4. /\ Has(heightToHash', job[t].height)
      /\ Has(blocks', job[t].hash) /\ blocks'[job[t].hash] = job[t]
  BY <1>1 DEF Chain!AppendBlock, Chain!InsertBlock, Chain!Put, Has
<1>5. TxsStored(job[t].txs, blocks')
  BY <1>4 DEF TxsStored, Has
<1>6. Working(t)'
  BY <1>2, <1>3, <1>4, <1>5 DEF Working, AboutToApply
<1> QED
  BY <1>2, <1>3, <1>6, OneMoves

\* The rest of AddBlock, with the orphans.
LEMMA CascadeFollows ==
    ASSUME Follows, IndInv, NEW t \in Thread,
           AddBlockFails(t) \/ AdoptOrphan(t) \/ BlockAdded(t)
    PROVE  StoreStep /\ Follows'
<1>1. CASE AddBlockFails(t)
  <2>1. Submitted(job[t])
    BY <1>1 DEF Follows, Working, AddBlockFails, At
  <2>2. StoreStep
    BY <1>1, <2>1, OrphanStored, BlockRejected DEF AddBlockFails
  <2>3. /\ pc' = [pc EXCEPT ![t] = "idle"]
        /\ \A u \in Thread \ {t} : job'[u] = job[u]
        /\ UNCHANGED <<stateHistory, committed, update>>
    BY <1>1 DEF AddBlockFails, Return, Start, IndInv, stateVars
  <2> QED
    BY <2>2, <2>3, LeavesOrStarts
<1>2. CASE AdoptOrphan(t)
  <2>1. StoreStep /\ UNCHANGED <<pc, job, stateHistory, committed, update>>
    BY <1>2, OrphanAdopted DEF AdoptOrphan, Follows, stateVars
  <2>2. Working(t)'
    BY <2>1, StepGrows, StaysWorking DEF Follows
  <2> QED
    BY <2>1, <2>2, OneMoves
<1>3. CASE BlockAdded(t)
  <2>1. /\ pc[t] = "adoptOrphans" /\ pc'[t] = "updateState" /\ job' = job
        /\ \A u \in Thread \ {t} : pc'[u] = pc[u]
        /\ UNCHANGED <<stateHistory, committed, update>>
        /\ UNCHANGED <<blocks, heightToHash, currentHeight>>
    BY <1>3 DEF BlockAdded, At, Goto, IndInv, stateVars, Chain!ReleaseLock
  <2>2. StoreStep
    BY <1>3, LockReleased DEF BlockAdded
  <2>3. Working(t)'
    BY <2>1 DEF Follows, Working, AboutToApply, Has
  <2> QED
    BY <2>1, <2>2, <2>3, OneMoves
<1> QED
  BY <1>1, <1>2, <1>3

\* A transaction of the block in hand joins the log of the update.
LEMMA ApplyFollows ==
    ASSUME Follows, IndInv, NEW t \in Thread, ApplyTransaction(t)
    PROVE  Follows'
<1>1. /\ pc[t] = "applying"
      /\ UNCHANGED <<pc, job, blocks, heightToHash, currentHeight, stateHistory,
                     committed>>
      /\ State!Applying /\ State!ApplyTransaction
  BY DEF ApplyTransaction, At, chainVars, State!ApplyTransaction, State!store,
         State!history
<1>2. /\ job[t] \in Block
      /\ update.block = job[t]
      /\ update.next \in Nat \ {0} /\ update.next <= Len(job[t].txs)
      /\ update.log \in Seq(Transaction)
  BY <1>1 DEF Follows, Working, AboutToApply, IndInv, OneUpdater, State!Applying
<1>3. /\ job[t].txs \in Seq(Transaction)
      /\ update.next \in DOMAIN job[t].txs
      /\ job[t].txs[update.next] \in Transaction
  BY <1>2, BlockAssumption DEF BlockType
<1> DEFINE tx == job[t].txs[update.next]
<1>4. update'.next = update.next + 1 /\ update'.log = Append(update.log, tx)
  <2>1. DOMAIN update = {"block", "next", "copy", "log"}
    BY <1>1 DEF IndInv, OneUpdater
  <2> QED
    BY <1>1, <1>2, <2>1 DEF State!ApplyTransaction, State!CurrentTx
<1>5. currentHeight < MaxUint64 => TxsStored(Append(update.log, tx), blocks)
  <2> SUFFICES ASSUME currentHeight < MaxUint64,
                      NEW i \in DOMAIN Append(update.log, tx)
               PROVE  \E h \in DOMAIN blocks : \E k \in DOMAIN blocks[h].txs :
                          blocks[h].txs[k] = Append(update.log, tx)[i]
    BY DEF TxsStored
  <2>1. TxsStored(job[t].txs, blocks) /\ TxsStored(update.log, blocks)
    BY <1>1 DEF Follows, Working, AboutToApply
  <2>2. CASE i \in DOMAIN update.log
    <3>1. Append(update.log, tx)[i] = update.log[i]
      BY <1>2, <2>2
    <3> QED
      BY <2>1, <2>2, <3>1 DEF TxsStored
  <2>3. CASE i \notin DOMAIN update.log
    <3>1. Append(update.log, tx)[i] = tx
      BY <1>2, <2>3
    <3> QED
      BY <1>3, <2>1, <3>1 DEF TxsStored
  <2> QED
    BY <2>2, <2>3
<1>6. update'.log \in Seq(Transaction) /\ update'.next \in Nat \ {0}
  BY <1>2, <1>3, <1>4
<1>7. currentHeight < MaxUint64 => TxsStored(update'.log, blocks)
  BY <1>4, <1>5
<1>8. Working(t)'
  BY <1>1, <1>6, <1>7 DEF Follows, Working, AboutToApply, Has
<1>9. \A u \in Thread \ {t} : pc[u] # "applying"
  BY <1>1 DEF IndInv, OneUpdater
<1>10. StoreStep
  BY StoreIdle DEF ApplyTransaction
<1> QED
  BY <1>1, <1>8, <1>9, <1>10, OneMoves

\* UpdateState, besides.
LEMMA UpdateFollows ==
    ASSUME Follows, IndInv, NEW t \in Thread,
           BeginUpdate(t) \/ UpdateStateFails(t) \/ CommitUpdate(t)
    PROVE  Follows'
<1>1. StoreStep /\ UNCHANGED <<blocks, heightToHash, currentHeight>>
  BY StoreIdle DEF BeginUpdate, UpdateStateFails, CommitUpdate, chainVars
<1>2. CASE BeginUpdate(t)
  <2>1. /\ pc[t] = "updateState" /\ pc'[t] = "applying" /\ job' = job
        /\ \A u \in Thread \ {t} : pc'[u] = pc[u]
        /\ UNCHANGED <<stateHistory, committed>>
        /\ update = State!NoUpdate
        /\ update'.next = 1 /\ update'.log = committed
    BY <1>2 DEF BeginUpdate, At, Goto, IndInv, State!BeginUpdate, State!store,
                State!history
  <2>2. \A u \in Thread : pc[u] # "applying"
    <3> SUFFICES ASSUME NEW u \in Thread, pc[u] = "applying" PROVE FALSE
      OBVIOUS
    <3>1. DOMAIN update = {"block", "next", "copy", "log"}
      BY DEF IndInv, OneUpdater
    <3> QED
      BY <2>1, <3>1 DEF State!NoUpdate
  <2>3. Working(t)'
    BY <1>1, <2>1 DEF Follows, Working, AboutToApply, AppliedFromChain,
                      StateFromChain, Has
  <2> QED
    BY <1>1, <2>1, <2>2, <2>3, OneMoves
<1>3. CASE UpdateStateFails(t)
  <2>1. /\ pc[t] = "applying" /\ pc' = [pc EXCEPT ![t] = "idle"]
        /\ \A u \in Thread \ {t} : job'[u] = job[u]
        /\ UNCHANGED <<stateHistory, committed>>
    BY <1>3 DEF UpdateStateFails, At, Return, Start, IndInv, State!AbortUpdate,
                State!Panic, State!FailToArchive, State!store, State!history
  <2>2. \A u \in Thread \ {t} : pc[u] # "applying"
    BY <2>1 DEF IndInv, OneUpdater
  <2> QED
    BY <1>1, <2>1, <2>2, LeavesOrStarts
<1>4. CASE CommitUpdate(t)
  <2>1. /\ pc[t] = "applying" /\ pc'[t] = "removeTransactions" /\ job' = job
        /\ \A u \in Thread \ {t} : pc'[u] = pc[u]
        /\ committed' = update.log
    BY <1>4 DEF CommitUpdate, At, Goto, IndInv, State!CommitUpdate
  <2>2. update.block = job[t] /\ \A u \in Thread \ {t} : pc[u] # "applying"
    BY <2>1 DEF IndInv, OneUpdater
  <2>3. DOMAIN stateHistory' = DOMAIN stateHistory \cup {job[t].height}
    <3>1. PICK v : stateHistory' = State!Put(stateHistory, update.block.height, v)
      BY <1>4 DEF CommitUpdate, State!CommitUpdate
    <3> QED
      BY <2>2, <3>1 DEF State!Put
  <2>4. AppliedFromChain'
    BY <1>1, <2>1, <2>3 DEF Follows, Working, AboutToApply, AppliedFromChain,
                            StateFromChain, Has
  <2>5. Working(t)'
    BY <2>1 DEF Working, AboutToApply
  <2>6. \A u \in Thread \ {t} : Working(u)'
    BY <1>1, <2>1, <2>2, StepGrows, StaysWorking DEF Follows
  <2> QED
    BY <1>1, <2>4, <2>5, <2>6, StepGrows DEF Follows
<1> QED
  BY <1>2, <1>3, <1>4

\* The other steps of a goroutine, and what it receives.
LEMMA ElsewhereFollows ==
    ASSUME Follows, IndInv, NEW t \in Thread,
           \/ AddTransaction(t) \/ RemoveTransaction(t) \/ AllRemoved(t)
           \/ Broadcast(t) \/ Receive(t)
    PROVE  Follows'
<1>1. /\ StoreStep
      /\ UNCHANGED <<stateHistory, committed, update>>
  BY StoreIdle
     DEF AddTransaction, RemoveTransaction, AllRemoved, Broadcast, Receive,
         ReceiveBlock, ReceiveTransaction, stateVars
<1>2. CASE \E b \in Block : ReceiveBlock(t, b)
  BY <1>1, <1>2, LeavesOrStarts DEF ReceiveBlock, Start, Submitted, IndInv
<1>3. CASE RemoveTransaction(t)
  <2>1. /\ pc[t] = "removeTransactions" /\ pc' = pc
        /\ \A u \in Thread \ {t} : job'[u] = job[u]
    BY <1>3 DEF RemoveTransaction, At, IndInv
  <2>2. Working(t)'
    BY <2>1 DEF Working, AboutToApply
  <2> QED
    BY <1>1, <2>1, <2>2, OneMoves
<1>4. CASE \/ AddTransaction(t) \/ AllRemoved(t) \/ Broadcast(t)
           \/ \E tx \in Transaction : ReceiveTransaction(t, tx)
  <2>1. \E a \in {"idle", "broadcast", "addTransaction"} :
            pc' = [pc EXCEPT ![t] = a]
    BY <1>4 DEF AddTransaction, AllRemoved, Broadcast, ReceiveTransaction,
                Goto, Return, Start
  <2>2. \A u \in Thread \ {t} : job'[u] = job[u]
    BY <1>4 DEF AddTransaction, AllRemoved, Broadcast, ReceiveTransaction,
                Goto, Return, Start, IndInv
  <2> QED
    BY <1>1, <2>1, <2>2, LeavesOrStarts
<1> QED
  BY <1>2, <1>3, <1>4 DEF Receive

\* mainLoop makes a block without parent and version.
LEMMA MainFollows ==
    ASSUME Follows, IndInv, TakePending \/ MakeBlock
    PROVE  Follows'
<1>1. /\ StoreStep
      /\ UNCHANGED <<stateHistory, committed, update>>
      /\ Main \in Thread
  BY StoreIdle DEF TakePending, MakeBlock, stateVars, Thread
<1>2. CASE TakePending
  BY <1>1, <1>2, LeavesOrStarts DEF TakePending, Start, IndInv
<1>3. CASE MakeBlock
  <2> DEFINE b == PendingBlock(job[Main].txs)
  <2>1. Submitted(b)
    BY DEF PendingBlock, Submitted
  <2>2. pc' = [pc EXCEPT ![Main] = "addBlock"] /\ job' = [job EXCEPT ![Main] = b]
    BY <1>3 DEF MakeBlock, Start
  <2> HIDE DEF b
  <2>3. job'[Main] = b /\ \A u \in Thread \ {Main} : job'[u] = job[u]
    BY <1>1, <2>2 DEF IndInv
  <2> QED
    BY <1>1, <2>1, <2>2, <2>3, LeavesOrStarts
<1> QED
  BY <1>2, <1>3

\* Every step of a node is a step of the store, or none, and the state follows.
LEMMA NextFollows ==
    ASSUME Follows, IndInv, [Next]_vars
    PROVE  StoreStep /\ Follows'
<1>1. ASSUME NEW t \in Peer, Receive(t)
      PROVE  StoreStep /\ Follows'
  <2>1. StoreStep
    BY <1>1, StoreIdle DEF Receive, ReceiveBlock, ReceiveTransaction
  <2> QED
    BY <1>1, <2>1, ElsewhereFollows DEF Thread
<1>2. ASSUME NEW t \in Thread, Step(t)
      PROVE  StoreStep /\ Follows'
  <2>1. CASE AddBlock(t) \/ AddBlockFails(t) \/ AdoptOrphan(t) \/ BlockAdded(t)
    BY <2>1, AddBlockFollows, CascadeFollows
  <2>2. CASE \/ BeginUpdate(t) \/ ApplyTransaction(t) \/ UpdateStateFails(t)
             \/ CommitUpdate(t)
    <3>1. StoreStep
      BY <2>2, StoreIdle DEF BeginUpdate, ApplyTransaction, UpdateStateFails,
                             CommitUpdate
    <3> QED
      BY <2>2, <3>1, ApplyFollows, UpdateFollows
  <2>3. CASE \/ AddTransaction(t) \/ RemoveTransaction(t) \/ AllRemoved(t)
             \/ Broadcast(t)
    <3>1. StoreStep
      BY <2>3, StoreIdle DEF AddTransaction, RemoveTransaction, AllRemoved,
                             Broadcast
    <3> QED
      BY <2>3, <3>1, ElsewhereFollows
  <2> QED
    BY <1>2, <2>1, <2>2, <2>3 DEF Step
<1>3. CASE TakePending \/ MakeBlock
  BY <1>3, StoreIdle, MainFollows DEF TakePending, MakeBlock
<1>4. CASE UNCHANGED vars
  <2>1. StoreStep
    BY <1>4, StoreIdle DEF vars
  <2>2. UNCHANGED <<pc, job, update, stateHistory, committed>>
    BY <1>4 DEF vars, stateVars
  <2>3. Main \in Thread
    BY DEF Thread
  <2>4. Working(Main)'
    BY <2>1, <2>2, <2>3, StepGrows, StaysWorking DEF Follows
  <2> QED
    BY <2>1, <2>2, <2>3, <2>4, OneMoves
<1> QED
  BY <1>1, <1>2, <1>3, <1>4 DEF Next

\* A new node.
LEMMA InitFollows == Init => Follows /\ Proved!Init
<1> SUFFICES ASSUME Init PROVE Follows /\ Proved!Init
  OBVIOUS
<1>1. /\ Chain!Init
      /\ \A t \in Thread : pc[t] = "idle"
      /\ stateHistory = State!EmptyMap /\ committed = << >>
  BY DEF Init, State!Init
<1>2. AdoptableOrphans = Chain!EmptyMap
  BY <1>1 DEF AdoptableOrphans, Chain!Init, Chain!EmptyMap
<1>3. Proved!Init
  BY <1>1, <1>2
     DEF Chain!Init, Proved!Init, Chain!EmptyMap, Proved!EmptyMap,
         Chain!Put, Proved!Put, Chain!Genesis, Proved!Genesis
<1>4. \A t \in Thread : Working(t)
  BY <1>1 DEF Working, AboutToApply
<1>5. AppliedFromChain
  BY <1>1 DEF AppliedFromChain, StateFromChain, TxsStored, State!EmptyMap
<1> QED
  BY <1>3, <1>4, <1>5, ProvedInit DEF Follows

\* ProcessBlock, in any number of goroutines, and processPendingTransactions:
\* the store goes through steps of Blockchain alone, with the blocks that peers
\* have sent, and so everything proved about Blockchain holds in a node.
THEOREM StoreRefinement == Spec => StoreUndisturbed
<1>1. Init => Store!Init
  BY InitFollows, SameInit
<1>2. Follows /\ IndInv /\ [Next]_vars => Follows' /\ [Store!Next]_(Store!vars)
  BY NextFollows, SameNext DEF StoreStep
<1>3. Init => Follows
  BY InitFollows
<1> QED
  BY <1>1, <1>2, <1>3, Invariant, PTL DEF Spec, StoreUndisturbed

\* ProcessBlock applies to the state what is in the chain only, although the
\* store is unlocked before the state is locked.
THEOREM StateFollowsChain == Spec => []StateFromChain
<1>1. Init => Follows
  BY InitFollows
<1>2. Follows /\ IndInv /\ [Next]_vars => Follows'
  BY NextFollows
<1>3. Follows => StateFromChain
  BY DEF Follows, AppliedFromChain
<1> QED
  BY <1>1, <1>2, <1>3, Invariant, PTL DEF Spec
-----------------------------------------------------------------------------
(* The world state of a node is that of StateManager.                      *)

\* The theorems about StateManager, for the state of a node.
World == INSTANCE StateManagerProofs

\* They hold under the assumptions on the constants.
LEMMA WorldInit == World!Init => World!IndInv
BY World!InitInv, MaxUint64Assumption, ZeroAssumption, BlockAssumption,
   TransactionAssumption, HashAssumption, WorldAssumption
DEF BlockType, TransactionType, HashedFields, Genesis, Uint64,
    World!BlockType, World!TransactionType, World!HashedFields,
    World!Genesis, World!Uint64, World!IsAccounts, World!IsMap,
    World!AccountState, World!AccountAddress, State!IsAccounts, State!IsMap,
    State!AccountState, State!AccountAddress, State!Uint64,
    World!IsFiniteSet, IsFiniteSet

LEMMA WorldNext == World!IndInv /\ [World!Next]_(World!vars) => World!IndInv'
BY World!NextInv, MaxUint64Assumption, ZeroAssumption, BlockAssumption,
   TransactionAssumption, HashAssumption, WorldAssumption
DEF BlockType, TransactionType, HashedFields, Genesis, Uint64,
    World!BlockType, World!TransactionType, World!HashedFields,
    World!Genesis, World!Uint64, World!IsAccounts, World!IsMap,
    World!AccountState, World!AccountAddress, State!IsAccounts, State!IsMap,
    State!AccountState, State!AccountAddress, State!Uint64,
    World!IsFiniteSet, IsFiniteSet

\* Goroutines take turns in UpdateState, and call it with blocks peers sent.
LEMMA WorldSteps ==
    ASSUME Follows, [Next]_vars
    PROVE  [World!Next]_(World!vars)
<1>1. CASE UNCHANGED stateVars
  BY <1>1 DEF stateVars, World!vars, World!store, World!history
<1>2. ASSUME NEW t \in Thread, BeginUpdate(t)
      PROVE  World!Next
  <2>1. job[t] \in Block
    BY <1>2 DEF BeginUpdate, At, Follows, Working, AboutToApply
  <2>2. World!BeginUpdate(job[t])
    BY <1>2 DEF BeginUpdate, State!BeginUpdate, World!BeginUpdate,
                State!NoUpdate, World!NoUpdate, State!store, World!store,
                State!history, World!history
  <2> QED
    BY <2>1, <2>2 DEF World!Next
<1>3. ASSUME NEW t \in Thread, ApplyTransaction(t)
      PROVE  World!Next
  BY <1>3, Zenon DEF ApplyTransaction, State!ApplyTransaction, World!ApplyTransaction,
     State!Applying, World!Applying, State!NoUpdate, World!NoUpdate,
     State!CurrentTx, World!CurrentTx, State!CanApply, World!CanApply,
     State!Transfer, World!Transfer, State!Debit, World!Debit, State!Credit,
     World!Credit, State!Put, World!Put, State!Has, World!Has, State!Inc,
     World!Inc, State!Plus, World!Plus, State!store, World!store,
     State!history, World!history, World!Next, World!Proceed
<1>4. ASSUME NEW t \in Thread, UpdateStateFails(t)
      PROVE  World!Next
  BY <1>4, Zenon DEF UpdateStateFails, State!AbortUpdate, World!AbortUpdate,
     State!Panic, World!Panic, State!FailToArchive, World!FailToArchive,
     State!Applying, World!Applying, State!Applied, World!Applied,
     State!NoUpdate, World!NoUpdate, State!CurrentTx, World!CurrentTx,
     State!CanApply, World!CanApply, State!Has, World!Has, State!RootTooShort,
     World!RootTooShort, State!RootFits, World!RootFits, State!ArchiveFails,
     World!ArchiveFails, State!WithCompressed, World!WithCompressed,
     State!CompressWorldState, World!CompressWorldState, State!Put, World!Put,
     State!store, World!store, State!history, World!history, World!Next,
     World!Proceed
<1>5. ASSUME NEW t \in Thread, CommitUpdate(t)
      PROVE  World!Next
  <2>1. PICK now \in Time, order \in State!IterationOrders(update.copy) :
            State!CommitUpdate(order, now)
    BY <1>5 DEF CommitUpdate
  <2>2. order \in World!IterationOrders(update.copy)
    BY DEF State!IterationOrders, World!IterationOrders, State!Cardinality,
           World!Cardinality
  <2>3. World!Applied /\ World!CommitUpdate(order, now)
    BY <2>1 DEF State!CommitUpdate, World!CommitUpdate, State!Applied,
       World!Applied, State!NoUpdate, World!NoUpdate, State!RootFits,
       World!RootFits, State!ArchiveFails, World!ArchiveFails,
       State!CalculateStateRoot, World!CalculateStateRoot,
       State!SerializeAccountState, World!SerializeAccountState,
       State!SaveState, World!SaveState, State!WithCompressed,
       World!WithCompressed, State!CompressWorldState,
       World!CompressWorldState, State!WithArchived, World!WithArchived,
       State!Put, World!Put
  <2> QED
    BY <2>2, <2>3 DEF World!Next, World!Proceed
<1>6. ASSUME NEW t \in Thread, Step(t)
      PROVE  World!Next \/ UNCHANGED stateVars
  BY <1>2, <1>3, <1>4, <1>5, <1>6
     DEF Step, AddTransaction, AddBlockFails, AddBlock, AdoptOrphan,
         BlockAdded, RemoveTransaction, AllRemoved, Broadcast
<1>7. CASE \/ \E t \in Peer : Receive(t)
           \/ TakePending \/ MakeBlock \/ UNCHANGED vars
  BY <1>1, <1>7 DEF Receive, ReceiveBlock, ReceiveTransaction, TakePending,
                    MakeBlock, vars
<1> QED
  BY <1>1, <1>6, <1>7 DEF Next

\* ProcessBlock in any number of goroutines, and ProcessTransaction, whatever
\* is left in the mempool: UpdateState applies no transaction twice.
THEOREM TransactionsOnce == Spec => []NoReplay
<1>1. Init => Follows /\ World!IndInv
  <2>1. Init => World!Init
    BY DEF Init, State!Init, World!Init, State!EmptyMap, World!EmptyMap,
           State!NoUpdate, World!NoUpdate
  <2> QED
    BY <2>1, InitFollows, WorldInit
<1>2. Follows /\ World!IndInv /\ IndInv /\ [Next]_vars
        => Follows' /\ World!IndInv'
  BY NextFollows, WorldSteps, WorldNext
<1>3. World!IndInv => NoReplay
  BY DEF World!IndInv, World!NoReplay, World!Unrepeated, NoReplay,
         State!NoReplay, State!Unrepeated
<1> QED
  BY <1>1, <1>2, <1>3, Invariant, PTL DEF Spec
-----------------------------------------------------------------------------
(***************************************************************************)
(* The connections of the node, its Start and its Stop: the table of peers *)
(* holds exactly what it should, for any number of connections and any     *)
(* node ids.                                                               *)
(***************************************************************************)

\* Where the goroutine of a connection can be.
Goroutine ==
    {"none", "dial", "handshake", "register", "handle", "close", "done"}

\* A node that has not been started satisfies the invariant.
LEMMA InitConnections == PeersInit => PeersInv
<1> SUFFICES ASSUME PeersInit PROVE PeersInv
  OBVIOUS
<1>1. TypeOK
  BY PeersAssumption DEF PeersInit, TypeOK, IsMap, EmptyMap
<1>2. DOMAIN peers = {} /\ open = {}
  BY DEF PeersInit, EmptyMap
<1> QED
  BY <1>1, <1>2, PeersAssumption
     DEF PeersInv, EntriesHandled,
         NothingLeaked, HandledIsRegistered, PeersInit, NotLaunched

\* Start, Stop and the loops, but for what they close.
LEMMA ConnectionsUnchanged ==
    ASSUME PeersInv, TypeOK', NotLaunched',
           UNCHANGED <<peers, connPc, open>>
    PROVE  PeersInv'
BY DEF PeersInv, EntriesHandled, NothingLeaked,
       HandledIsRegistered, Sole, Has

\* Connections are closed, and perhaps forgotten.
LEMMA SomeClosed ==
    ASSUME PeersInv, TypeOK', NotLaunched', UNCHANGED connPc,
           NEW C, open' = open \ C,
           DOMAIN peers' \subseteq DOMAIN peers,
           \A i \in DOMAIN peers' : peers'[i] = peers[i],
           \A i \in DOMAIN peers \ DOMAIN peers' : peers[i] \in C
    PROVE  PeersInv'
<1>1. EntriesHandled' /\ NothingLeaked'
  BY DEF PeersInv, EntriesHandled, NothingLeaked
<1>2. HandledIsRegistered'
  BY DEF PeersInv, HandledIsRegistered, Sole, Has
<1> QED
  BY <1>1, <1>2 DEF PeersInv

\* A connection moves on, before it is in the table.
LEMMA BeforeTable ==
    ASSUME PeersInv, TypeOK', NotLaunched', NEW c \in Conn,
           NEW a \in Goroutine,
           connPc[c] \in {"none", "dial", "handshake"}, a # "handle",
           connPc' = [connPc EXCEPT ![c] = a], UNCHANGED peers,
           open' \subseteq open \cup {c},
           open \subseteq open' \cup {c},
           c \in open' => a \in {"handshake", "register"}
    PROVE  PeersInv'
<1>1. connPc'[c] = a /\ \A d \in Conn \ {c} : connPc'[d] = connPc[d]
  BY DEF PeersInv, TypeOK
<1>2. EntriesHandled' /\ NothingLeaked'
  BY <1>1
     DEF PeersInv, TypeOK, IsMap, EntriesHandled,
         NothingLeaked
<1>3. ASSUME NEW d \in open', connPc'[d] = "handle", Sole(d)'
      PROVE  Has(peers, Remote[d]) /\ peers[Remote[d]] = d
  <2>1. d \in open \ {c} /\ connPc[d] = "handle" /\ d \in Conn
    BY <1>1, <1>3 DEF PeersInv, TypeOK
  <2>2. Sole(d)
    BY <1>1, <1>3, <2>1 DEF Sole
  <2> QED
    BY <2>1, <2>2 DEF PeersInv, HandledIsRegistered
<1> QED
  BY <1>2, <1>3 DEF PeersInv, HandledIsRegistered, Has

\* A connection enters the table, possibly in the place of another.
LEMMA RegisterInv ==
    ASSUME PeersInv, TypeOK', NotLaunched',
           NEW c \in Conn, Register(c)
    PROVE  PeersInv'
<1>1. /\ connPc[c] = "register" /\ connPc'[c] = "handle"
      /\ \A d \in Conn \ {c} : connPc'[d] = connPc[d]
      /\ open' = open /\ Remote[c] \in NodeID
  BY PeersAssumption DEF Register, PeersInv, TypeOK
<1>2. /\ DOMAIN peers' = DOMAIN peers \cup {Remote[c]}
      /\ peers'[Remote[c]] = c
      /\ \A i \in DOMAIN peers \ {Remote[c]} : peers'[i] = peers[i]
  BY DEF Register, Put
<1>3. \A i \in DOMAIN peers : peers[i] \in Conn
  BY DEF PeersInv, TypeOK, IsMap
<1>4. EntriesHandled' /\ NothingLeaked'
  BY <1>1, <1>2, <1>3
     DEF PeersInv, TypeOK, EntriesHandled, NothingLeaked
<1>5. ASSUME NEW d \in open', connPc'[d] = "handle", Sole(d)'
      PROVE  Has(peers', Remote[d]) /\ peers'[Remote[d]] = d
  <2>0. d \in Conn
    BY <1>1 DEF PeersInv, TypeOK
  <2>1. CASE d = c
    BY <1>2, <2>1 DEF Has
  <2>2. CASE d # c
    <3>1. Remote[c] # Remote[d]
      BY <1>1, <1>5, <2>0, <2>2 DEF Sole
    <3>2. Sole(d)
      BY <1>1, <1>5, <2>0, <2>2, <3>1 DEF Sole
    <3>3. Has(peers, Remote[d]) /\ peers[Remote[d]] = d
      BY <1>1, <1>5, <2>0, <2>2, <3>2 DEF PeersInv, HandledIsRegistered
    <3> QED
      BY <1>2, <3>1, <3>3 DEF Has
  <2> QED
    BY <2>1, <2>2
<1> QED
  BY <1>4, <1>5 DEF PeersInv, HandledIsRegistered

\* disconnectPeer removes the entry of the node, whoever it belongs to.
LEMMA ReceiveFailsInv ==
    ASSUME PeersInv, TypeOK', NotLaunched', NEW c \in Conn,
           ReceiveFails(c)
    PROVE  PeersInv'
<1>1. /\ connPc[c] = "handle" /\ connPc'[c] = "close"
      /\ \A d \in Conn \ {c} : connPc'[d] = connPc[d]
      /\ open' = open
  BY DEF ReceiveFails, PeersInv, TypeOK
<1>2. /\ DOMAIN peers' = DOMAIN peers \ {Remote[c]}
      /\ \A i \in DOMAIN peers' : peers'[i] = peers[i]
  BY DEF ReceiveFails, Delete
<1>3. \A i \in DOMAIN peers : peers[i] \in Conn
  BY DEF PeersInv, TypeOK, IsMap
<1>4. EntriesHandled' /\ NothingLeaked'
  BY <1>1, <1>2, <1>3
     DEF PeersInv, TypeOK, EntriesHandled, NothingLeaked
<1>5. ASSUME NEW d \in open', connPc'[d] = "handle", Sole(d)'
      PROVE  Has(peers', Remote[d]) /\ peers'[Remote[d]] = d
  <2>1. d \in Conn \ {c} /\ connPc[d] = "handle"
    BY <1>1, <1>5 DEF PeersInv, TypeOK
  <2>2. Remote[c] # Remote[d]
    BY <1>1, <1>5, <2>1 DEF Sole
  <2>3. Sole(d)
    BY <1>1, <1>5, <2>1, <2>2 DEF Sole
  <2> QED
    BY <1>1, <1>2, <2>1, <2>2, <2>3
       DEF PeersInv, HandledIsRegistered, Has
<1> QED
  BY <1>4, <1>5 DEF PeersInv, HandledIsRegistered

\* disconnectPeer closes the connection.
LEMMA CloseInv ==
    ASSUME PeersInv, TypeOK', NotLaunched', NEW c \in Conn,
           Close(c)
    PROVE  PeersInv'
<1>1. /\ connPc[c] = "close" /\ connPc'[c] = "done"
      /\ \A d \in Conn \ {c} : connPc'[d] = connPc[d]
      /\ open' = open \ {c} /\ peers' = peers
  BY DEF Close, PeersInv, TypeOK
<1>2. EntriesHandled' /\ NothingLeaked'
  BY <1>1
     DEF PeersInv, TypeOK, IsMap, EntriesHandled,
         NothingLeaked
<1>3. HandledIsRegistered'
  BY <1>1
     DEF PeersInv, TypeOK, HandledIsRegistered, Sole, Has
<1> QED
  BY <1>2, <1>3 DEF PeersInv

\* No step leaves the types.
LEMMA PeersTypes == TypeOK /\ [PeersNext]_peersVars => TypeOK'
<1> SUFFICES ASSUME TypeOK, [PeersNext]_peersVars
             PROVE  TypeOK'
  OBVIOUS
<1> USE DEF TypeOK
<1>1. CASE StartStep
  BY <1>1
     DEF StartStep, BeginStart, Listen, StartP2P, Launch,
         loops, connections
<1>2. CASE StopStep
  BY <1>2
     DEF StopStep, BeginStop, CloseStopChan, StopP2P,
         StopSync, ClosePeers, loops, connections
<1>3. CASE LoopStep
  <2>1. CASE UpdatePeerConnections
    BY <2>1 DEF UpdatePeerConnections, node, loops, IsMap
  <2>2. CASE ~UpdatePeerConnections
    BY <1>3, <2>2
       DEF LoopStep, CheckStop, AcceptFails, MainLoopEnds,
           SyncLoopEnds, Synchronize, Synchronized, MapRace,
           node, loops, connections
  <2> QED
    BY <2>1, <2>2
<1>4. ASSUME NEW c \in Conn, ConnStep(c)
      PROVE  TypeOK'
  <2>1. CASE Register(c)
    BY <2>1, PeersAssumption
       DEF Register, Put, IsMap, node,
           loops
  <2>2. CASE ReceiveFails(c)
    BY <2>2 DEF ReceiveFails, Delete, IsMap, node, loops
  <2>3. CASE ~Register(c) /\ ~ReceiveFails(c)
    BY <1>4, <2>3
       DEF ConnStep, Accept, Dial, Handshake,
           HandshakeFails, ReceiveMessage, Close, GoStale, node,
           loops
  <2> QED
    BY <2>1, <2>2, <2>3
<1>5. CASE UNCHANGED peersVars
  BY <1>5 DEF peersVars, node, loops, connections
<1> QED
  BY <1>1, <1>2, <1>3, <1>4, <1>5 DEF PeersNext

\* Nothing is dialled before the last step of Start.
LEMMA NotLaunchedInv ==
    TypeOK /\ NotLaunched /\ [PeersNext]_peersVars => NotLaunched'
<1> SUFFICES ASSUME TypeOK, NotLaunched, [PeersNext]_peersVars
             PROVE  NotLaunched'
  OBVIOUS
<1> USE PeersAssumption DEF NotLaunched
<1>1. CASE StartStep
  BY <1>1
     DEF StartStep, BeginStart, Listen, StartP2P, Launch,
         connections
<1>2. CASE StopStep
  BY <1>2
     DEF StopStep, BeginStop, CloseStopChan, StopP2P,
         StopSync, ClosePeers, connections
<1>3. CASE LoopStep
  BY <1>3
     DEF LoopStep, CheckStop, AcceptFails, MainLoopEnds,
         SyncLoopEnds, UpdatePeerConnections, Synchronize,
         Synchronized, MapRace, node, connections
<1>4. ASSUME NEW c \in Conn, ConnStep(c)
      PROVE  NotLaunched'
  <2>1. UNCHANGED starting
    BY <1>4
       DEF ConnStep, Accept, Dial, Handshake,
           HandshakeFails, Register, ReceiveMessage, ReceiveFails,
           Close, GoStale, node
  <2>2. \A d \in Conn \ {c} : connPc'[d] = connPc[d]
    BY <1>4
       DEF TypeOK, ConnStep, Accept, Dial, Handshake,
           HandshakeFails, Register, ReceiveMessage, ReceiveFails,
           Close, GoStale
  <2>3. connPc[c] # "none" \/ c \notin Bootstrap
    BY <1>4
       DEF ConnStep, Accept, Dial, Handshake,
           HandshakeFails, Register, ReceiveMessage, ReceiveFails,
           Close, GoStale
  <2> QED
    BY <2>1, <2>2, <2>3
<1>5. CASE UNCHANGED peersVars
  BY <1>5 DEF peersVars, node, connections
<1> QED
  BY <1>1, <1>2, <1>3, <1>4, <1>5 DEF PeersNext

\* Every step preserves the invariant.
LEMMA NextConnections == PeersInv /\ [PeersNext]_peersVars => PeersInv'
<1> SUFFICES ASSUME PeersInv, [PeersNext]_peersVars
             PROVE  PeersInv'
  OBVIOUS
<1>0. TypeOK' /\ NotLaunched'
  BY PeersTypes, NotLaunchedInv DEF PeersInv
<1>1. CASE StartStep
  <2>1. CASE Launch
    <3>1. /\ UNCHANGED <<peers, open>>
          /\ \A c \in Conn : connPc'[c] = IF c \in Bootstrap THEN "dial" ELSE connPc[c]
          /\ \A c \in Bootstrap : connPc[c] = "none"
      BY <2>1 DEF Launch, PeersInv, NotLaunched
    <3>2. EntriesHandled' /\ NothingLeaked'
      BY <3>1
         DEF PeersInv, TypeOK, IsMap, EntriesHandled,
             NothingLeaked
    <3>3. HandledIsRegistered'
      BY <3>1
         DEF PeersInv, TypeOK, HandledIsRegistered, Sole,
             Has
    <3> QED
      BY <1>0, <3>2, <3>3 DEF PeersInv
  <2>2. CASE ~Launch
    BY <1>0, <1>1, <2>2, ConnectionsUnchanged
       DEF StartStep, BeginStart, Listen, StartP2P,
           connections
  <2> QED
    BY <2>1, <2>2
<1>2. CASE StopStep
  <2>1. CASE ClosePeers
    BY <1>0, <2>1, SomeClosed DEF ClosePeers
  <2>2. CASE ~ClosePeers
    BY <1>0, <1>2, <2>2, ConnectionsUnchanged
       DEF StopStep, BeginStop, CloseStopChan, StopP2P,
           StopSync, connections
  <2> QED
    BY <2>1, <2>2
<1>3. CASE LoopStep
  <2>1. CASE UpdatePeerConnections
    <3> DEFINE C == {peers[i] : i \in Inactive}
    <3>1. /\ UNCHANGED connPc /\ open' = open \ C
          /\ DOMAIN peers' = DOMAIN peers \ Inactive
          /\ \A i \in DOMAIN peers' : peers'[i] = peers[i]
      BY <2>1 DEF UpdatePeerConnections
    <3>2. \A i \in DOMAIN peers \ DOMAIN peers' : peers[i] \in C
      BY <3>1
    <3> HIDE DEF C
    <3> QED
      BY <1>0, <3>1, <3>2, SomeClosed
  <2>2. CASE ~UpdatePeerConnections
    BY <1>0, <1>3, <2>2, ConnectionsUnchanged
       DEF LoopStep, CheckStop, AcceptFails, MainLoopEnds,
           SyncLoopEnds, Synchronize, Synchronized, MapRace,
           connections
  <2> QED
    BY <2>1, <2>2
<1>4. ASSUME NEW c \in Conn, ConnStep(c)
      PROVE  PeersInv'
  <2>1. CASE Accept(c)
    BY <1>0, <2>1, BeforeTable DEF Accept, Goroutine
  <2>2. CASE Dial(c)
    <3>1. c \notin open
      BY <2>2 DEF Dial, PeersInv, NothingLeaked
    <3> QED
      BY <1>0, <2>2, <3>1, BeforeTable DEF Dial, Goroutine
  <2>3. CASE Handshake(c)
    BY <1>0, <2>3, BeforeTable DEF Handshake, Goroutine
  <2>4. CASE HandshakeFails(c)
    BY <1>0, <2>4, BeforeTable DEF HandshakeFails, Goroutine
  <2>5. CASE ReceiveMessage(c) \/ GoStale(c)
    BY <1>0, <2>5, ConnectionsUnchanged DEF ReceiveMessage, GoStale
  <2> QED
    BY <1>0, <1>4, <2>1, <2>2, <2>3, <2>4, <2>5, RegisterInv, ReceiveFailsInv,
       CloseInv
       DEF ConnStep
<1>5. CASE UNCHANGED peersVars
  BY <1>0, <1>5, ConnectionsUnchanged DEF peersVars, connections
<1> QED
  BY <1>1, <1>2, <1>3, <1>4, <1>5 DEF PeersNext

\* The peers table and the connections stay consistent, whatever comes up,
\* breaks or is closed, and wherever Start and Stop are.
THEOREM PeersInvariant == PeersSpec => []PeersInv
BY InitConnections, NextConnections, PTL DEF PeersSpec

\* The steps of connections, of Start and Stop and of the loops keep every
\* variable in its type.
THEOREM PeersTypeCorrect == PeersSpec => []TypeOK
<1>1. PeersInv => TypeOK
  BY DEF PeersInv
<1> QED
  BY <1>1, PeersInvariant, PTL

\* n.peers never holds a connection whose handlePeer has ended, although
\* disconnectPeer deletes by id and connections with one id replace each other.
THEOREM TableHandled == PeersSpec => []EntriesHandled
<1>1. PeersInv => EntriesHandled
  BY DEF PeersInv
<1> QED
  BY <1>1, PeersInvariant, PTL

\* Every goroutine that ends has closed its connection.
THEOREM NoLeaks == PeersSpec => []NothingLeaked
<1>1. PeersInv => NothingLeaked
  BY DEF PeersInv
<1> QED
  BY <1>1, PeersInvariant, PTL

\* A node with one connection is in n.peers as long as that is open.
THEOREM TableComplete == PeersSpec => []HandledIsRegistered
<1>1. PeersInv => HandledIsRegistered
  BY DEF PeersInv
<1> QED
  BY <1>1, PeersInvariant, PTL
=============================================================================
