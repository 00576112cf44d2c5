-------------------------------- MODULE Node --------------------------------
(***************************************************************************)
(* How a node processes blocks and transactions (network/node.go).         *)
(*                                                                         *)
(* Every peer has a goroutine, handlePeer, that processes the messages of  *)
(* that peer one by one, and mainLoop is one more goroutine that makes     *)
(* blocks from the mempool.  They share the block store, the world state   *)
(* and the mempool, each behind a lock of its own; no lock covers          *)
(* ProcessBlock or ProcessTransaction as a whole.  An action is what a     *)
(* goroutine does under one lock, or one step of a longer critical section *)
(* (AddBlock with its cascade, UpdateState with its loop).                 *)
(***************************************************************************)
EXTENDS Core, GoMap, FiniteSets

CONSTANTS
    Peer,           \* the peers that are connected
    Main,           \* the goroutine of mainLoop
    MempoolSize,    \* 10000 in the code
    BatchSize,      \* 100 in the code
    NoJob           \* nothing to work on

\* Of StateManager.
CONSTANTS InitialAccounts, Time, CompressEvery, ArchiveEvery, RootLengths,
          HashBytes

VARIABLES blocks, heightToHash, currentHeight, orphanBlocks, cursor
VARIABLES accounts, stateRoot, timestamp, stateHistory, stateDB, archivedData,
          update, panicked, committed, stateAt
VARIABLES
    mempool,        \* transaction id |-> transaction
    pc,             \* where each goroutine is
    job             \* what it works on: a block, a transaction, a batch

Chain == INSTANCE Blockchain
State == INSTANCE StateManager

chainVars == <<blocks, heightToHash, currentHeight, orphanBlocks, cursor>>
stateVars == <<accounts, stateRoot, timestamp, stateHistory, stateDB,
               archivedData, update, panicked, committed, stateAt>>
vars == <<chainVars, stateVars, mempool, pc, job>>

Thread == Peer \cup {Main}

ASSUME NodeAssumption == /\ Main \notin Peer
                         /\ MempoolSize \in Nat
                         /\ BatchSize \in Nat \ {0}

\* What StateManager assumes of its constants.
ASSUME WorldAssumption ==
    /\ \A m \in InitialAccounts : State!IsAccounts(m)
    /\ Time \subseteq Nat
    /\ CompressEvery \in Nat \ {0}
    /\ ArchiveEvery \in Nat \ {0}
    /\ RootLengths \subseteq Nat
    /\ HashBytes \in Nat
    /\ IsFiniteSet(Address)

\* NewNode.
Init ==
    /\ Chain!Init
    /\ State!Init
    /\ mempool = EmptyMap
    /\ pc = [t \in Thread |-> "idle"]
    /\ job = [t \in Thread |-> NoJob]
-----------------------------------------------------------------------------
\* Goroutine t is at a, in a process that has not died.
At(t, a) == pc[t] = a /\ ~panicked
Goto(t, a) == pc' = [pc EXCEPT ![t] = a] /\ UNCHANGED job
\* It starts on w, or returns.
Start(t, a, w) == pc' = [pc EXCEPT ![t] = a] /\ job' = [job EXCEPT ![t] = w]
Return(t) == Start(t, "idle", NoJob)
-----------------------------------------------------------------------------
(* ProcessTransaction.                                                     *)

\* validateTransaction, against the state of the moment.  (GetCurrentState
\* waits for an update in progress.)
ValidateTransaction(tx) ==
    /\ update = State!NoUpdate
    /\ Has(accounts, tx.from)
    /\ accounts[tx.from].balance >= tx.value
    /\ tx.nonce = accounts[tx.from].nonce

\* A "transaction" message; one that is not valid is dropped.
ReceiveTransaction(t, tx) ==
    /\ At(t, "idle")
    /\ ValidateTransaction(tx)
    /\ Start(t, "addTransaction", tx)
    /\ UNCHANGED <<chainVars, stateVars, mempool>>

\* Mempool.AddTransaction; a full mempool is an error.
Full == Cardinality(DOMAIN mempool) >= MempoolSize

AddTransaction(t) ==
    /\ At(t, "addTransaction")
    /\ IF Full THEN /\ Return(t)
                    /\ UNCHANGED mempool
               ELSE /\ mempool' = Put(mempool, job[t].id, job[t])
                    /\ Goto(t, "broadcast")
    /\ UNCHANGED <<chainVars, stateVars>>
-----------------------------------------------------------------------------
(* ProcessBlock.  consensus.ValidateBlock accepts every block.             *)

\* A "block" message.
ReceiveBlock(t, b) ==
    /\ At(t, "idle")
    /\ Start(t, "addBlock", b)
    /\ UNCHANGED <<chainVars, stateVars, mempool>>

\* Faults seeded to show that the properties can fail are named Faulty...
\* and stand just before the definition they alter.

\* The error is logged and the block processed nevertheless.
FaultyAddBlockFails(t) ==
    /\ At(t, "addBlock")
    /\ \/ Chain!StoreOrphan(job[t])
       \/ \E early \in BOOLEAN : Chain!RejectBlock(job[t], early)
    /\ Goto(t, "updateState")
    /\ UNCHANGED <<stateVars, mempool>>

\* AddBlock returns an error: the block is an orphan, or not acceptable.
AddBlockFails(t) ==
    /\ At(t, "addBlock")
    /\ \/ Chain!StoreOrphan(job[t])
       \/ \E early \in BOOLEAN : Chain!RejectBlock(job[t], early)
    /\ Return(t)
    /\ UNCHANGED <<stateVars, mempool>>

\* AddBlock adds the block, then the orphans that waited for it.
AddBlock(t) ==
    /\ At(t, "addBlock")
    /\ \E early \in BOOLEAN : Chain!AppendBlock(job[t], early)
    /\ Goto(t, "adoptOrphans")
    /\ UNCHANGED <<stateVars, mempool>>

AdoptOrphan(t) ==
    /\ At(t, "adoptOrphans")
    /\ Chain!AdoptOrphan
    /\ UNCHANGED <<stateVars, mempool, pc, job>>

\* bc.mu is not released.
FaultyBlockAdded(t) ==
    /\ At(t, "adoptOrphans")
    /\ ~Has(orphanBlocks, cursor)
    /\ Goto(t, "updateState")
    /\ UNCHANGED <<chainVars, stateVars, mempool>>

BlockAdded(t) ==
    /\ At(t, "adoptOrphans")
    /\ Chain!ReleaseLock
    /\ Goto(t, "updateState")
    /\ UNCHANGED <<stateVars, mempool>>

\* UpdateState.
BeginUpdate(t) ==
    /\ At(t, "updateState")
    /\ State!BeginUpdate(job[t])
    /\ Goto(t, "applying")
    /\ UNCHANGED <<chainVars, mempool>>

ApplyTransaction(t) ==
    /\ At(t, "applying")
    /\ State!ApplyTransaction
    /\ UNCHANGED <<chainVars, mempool, pc, job>>

\* The error is logged and the block passed on.
FaultyUpdateStateFails(t) ==
    /\ At(t, "applying")
    /\ \/ State!AbortUpdate
       \/ \E now \in Time : State!FailToArchive(now)
    /\ Goto(t, "removeTransactions")
    /\ UNCHANGED <<chainVars, mempool>>

\* It fails: ProcessBlock returns, the block stays in the chain.
UpdateStateFails(t) ==
    /\ At(t, "applying")
    /\ \/ State!AbortUpdate
       \/ State!Panic
       \/ \E now \in Time : State!FailToArchive(now)
    /\ Return(t)
    /\ UNCHANGED <<chainVars, mempool>>

CommitUpdate(t) ==
    /\ At(t, "applying")
    /\ State!Applied
    /\ \E now \in Time, order \in State!IterationOrders(update.copy) :
          State!CommitUpdate(order, now)
    /\ Goto(t, "removeTransactions")
    /\ UNCHANGED <<chainVars, mempool>>

\* Mempool.RemoveTransaction, for each transaction of the block in turn.
RemoveTransaction(t) ==
    /\ At(t, "removeTransactions")
    /\ job[t].txs # << >>
    /\ mempool' = Delete(mempool, Head(job[t].txs).id)
    /\ job' = [job EXCEPT ![t].txs = Tail(@)]
    /\ UNCHANGED <<chainVars, stateVars, pc>>

AllRemoved(t) ==
    /\ At(t, "removeTransactions")
    /\ job[t].txs = << >>
    /\ Goto(t, "broadcast")
    /\ UNCHANGED <<chainVars, stateVars, mempool>>

\* broadcastBlock, broadcastTransaction: the sends are left to others.
Broadcast(t) ==
    /\ At(t, "broadcast")
    /\ Return(t)
    /\ UNCHANGED <<chainVars, stateVars, mempool>>
-----------------------------------------------------------------------------
(* processPendingTransactions, every second.                               *)

\* GetTransactions: a batch of the mempool, in the order of some iteration.
Batches ==
    LET n == IF Cardinality(DOMAIN mempool) < BatchSize
             THEN Cardinality(DOMAIN mempool) ELSE BatchSize
        Choices == {ids \in [1 .. n -> DOMAIN mempool] :
                       \A i, j \in 1 .. n : ids[i] = ids[j] => i = j}
    IN  {[i \in 1 .. n |-> mempool[ids[i]]] : ids \in Choices}

TakePending ==
    /\ At(Main, "idle")
    /\ mempool # EmptyMap
    /\ \E batch \in Batches : Start(Main, "makeBlock", [txs |-> batch])
    /\ UNCHANGED <<chainVars, stateVars, mempool>>

\* The block made of a batch.  Version, PrevBlockHash and Difficulty are not
\* set; its hash is never computed.
PendingBlock(batch) ==
    [hash |-> NoHash, version |-> 0, height |-> Inc(currentHeight),
     prev |-> ZeroHash, difficulty |-> 0, txs |-> batch]

MakeBlock ==
    /\ At(Main, "makeBlock")
    /\ cursor = NoHash
    /\ Start(Main, "addBlock", PendingBlock(job[Main].txs))
    /\ UNCHANGED <<chainVars, stateVars, mempool>>
-----------------------------------------------------------------------------
\* The goroutine goes on with what it is processing.
Step(t) ==
    \/ AddTransaction(t)
    \/ AddBlockFails(t) \/ AddBlock(t) \/ AdoptOrphan(t) \/ BlockAdded(t)
    \/ BeginUpdate(t) \/ ApplyTransaction(t) \/ UpdateStateFails(t)
    \/ CommitUpdate(t)
    \/ RemoveTransaction(t) \/ AllRemoved(t)
    \/ Broadcast(t)

Receive(t) ==
    \/ \E b \in Block : ReceiveBlock(t, b)
    \/ \E tx \in Transaction : ReceiveTransaction(t, tx)

Next ==
    \/ \E t \in Peer : Receive(t)
    \/ \E t \in Thread : Step(t)
    \/ TakePending
    \/ MakeBlock

\* Goroutines keep running and the ticker of mainLoop keeps ticking; nobody
\* has to send a message.
Fairness ==
    /\ \A t \in Thread : WF_vars(Step(t))
    /\ WF_vars(TakePending)
    /\ WF_vars(MakeBlock)

Spec == Init /\ [][Next]_vars /\ Fairness
-----------------------------------------------------------------------------
\* The block a goroutine is about to apply, or is applying, to the state.
AboutToApply(t) == pc[t] \in {"adoptOrphans", "updateState", "applying"}

Label == {"idle", "addTransaction", "broadcast", "addBlock", "adoptOrphans",
          "updateState", "applying", "removeTransactions", "makeBlock"}

\* A block is applied to the state at most once, although several peers send
\* it at the same time and nothing holds a lock from AddBlock to UpdateState.
BlockAppliedOnce ==
    currentHeight < MaxUint64 =>
        \A t \in Thread : AboutToApply(t) =>
            /\ ~Has(stateHistory, job[t].height)
            /\ \A u \in Thread \ {t} :
                  AboutToApply(u) => job[u].height # job[t].height

\* Why: heights are handed out by AddBlock in increasing order, and only one
\* goroutine at a time is inside UpdateState.
HeightTypes ==
    /\ currentHeight \in Uint64
    /\ \A p \in DOMAIN orphanBlocks : orphanBlocks[p].height \in Uint64
    /\ \A t \in Thread : pc[t] = "addBlock" \/ AboutToApply(t) =>
                             job[t].height \in Uint64

OneUpdater ==
    \A t \in Thread : pc[t] = "applying" =>
        /\ update = [block |-> job[t], next |-> update.next,
                     copy |-> update.copy, log |-> update.log]
        /\ \A u \in Thread : pc[u] = "applying" => u = t

HeightsHandedOut ==
    currentHeight < MaxUint64 =>
        /\ \A h \in DOMAIN stateHistory : h \in Uint64 /\ h <= currentHeight
        /\ \A t \in Thread : AboutToApply(t) => job[t].height <= currentHeight

IndInv ==
    /\ pc \in [Thread -> Label] /\ DOMAIN job = Thread
    /\ HeightTypes
    /\ OneUpdater
    /\ HeightsHandedOut
    /\ BlockAppliedOnce

\* The transactions are all in blocks of a store.
TxsStored(txs, store) ==
    \A i \in DOMAIN txs : \E h \in DOMAIN store :
        \E k \in DOMAIN store[h].txs : store[h].txs[k] = txs[i]

\* The state is never ahead of the chain: whatever was applied came with a
\* stored block, until the height counter is at its largest value.
StateFromChain ==
    /\ \A h \in DOMAIN stateHistory : Has(heightToHash, h)
    /\ currentHeight < MaxUint64 => TxsStored(committed, blocks)

\* A block is passed on to the peers only when it is stored and applied.
BroadcastsApplied ==
    \A t \in Thread :
        pc[t] = "broadcast" /\ "txs" \in DOMAIN job[t] =>
            /\ Has(blocks, job[t].hash)
            /\ Has(stateHistory, job[t].height)

\* No transaction is applied twice, though two peers may submit it in different
\* blocks, a block with it may be applied between its validation and its
\* insertion in the mempool, and it then stays there.
NoReplay == State!NoReplay

\* Every goroutine comes back for the next message, or the process ends: the
\* locks are never waited for in a circle.
AlwaysReturns == \A t \in Thread : pc[t] # "idle" ~> pc[t] = "idle" \/ panicked
-----------------------------------------------------------------------------
\* What comments say, and the code does not do.

Quiet == \A t \in Thread : pc[t] = "idle"

\* "ProcessBlock processes a new block", "Update state": when all is quiet,
\* every stored block has been applied to the state.
ChainApplied ==
    Quiet => \A h \in DOMAIN blocks :
                h # GenesisHash => Has(stateHistory, blocks[h].height)
=============================================================================
