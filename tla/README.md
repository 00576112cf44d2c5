# A formal model of blockchain-advanced

This directory holds TLA+ models of the Go program in `src/`: what its
components do, which properties were checked with TLC on small instances, and
which were proved with TLAPS for every instance. The repository has no
documentation besides its comments and tests, so the intent that the models
are held against comes from those.

## 1. The system

A node (`main.go`) is one process. It owns a block store, a world state, a
consensus engine, a mempool, a table of peers and a Merkle forest that stays empty.
Each connection to a peer has a goroutine that processes the messages of that
peer one after the other; `mainLoop`, `syncLoop`, `acceptConnections` and the
consensus loop are further goroutines. The components are protected by one
mutex each; nothing holds two of them, and no lock covers the processing of a
block or a transaction as a whole.

| component | state | operations | talks to |
|---|---|---|---|
| block store, `core/blockchain.go` | `blocks`, `heightToHash`, `currentHeight`, `orphanBlocks`, all under `bc.mu` | `AddBlock` (validation, orphans, cascade), getters | called by the node and by sync |
| world state, `state/*.go` | `currentState`, `stateHistory`, the database, the archive, under `sm.mu` | `UpdateState`, `GetState`, `GetCurrentState` | called by the node; uses the accumulator |
| node, `network/node.go` | mempool, running goroutines | `ProcessBlock`, `ProcessTransaction`, `processPendingTransactions` | all of the above |
| peers and lifecycle, `node.go`, `p2p.go`, `sync.go` | `peers`, `running`, the listener, stop channels, connections | `Start`, `Stop`, accept, dial, handshake, disconnect, `updatePeerConnections`, `synchronize` | the network, the operating system |
| consensus, `consensus/hybrid_consensus.go` | epoch, leader, prepared and committed blocks, reputations, under `hc.mu` | rounds, proposals, votes, commits | called by the node; sends its own votes to itself |
| Byzantine defender, `consensus/byzantine.go` | scores, suspicion, blacklist, under `bd.mu` | `ValidateNode`, `GetConsensusThreshold` | called by the tests only |
| Merkle forest, `merkle/*.go` | shards, the tree of their ids, under `amf.mu` | split, merge, `GenerateProof`, `CrossShardOperation` | `mainLoop` asks it to rebalance, but nothing adds to it; the rest is called by the tests |
| CAP orchestrator, `cap/*.go` | consistency level, timeouts, telemetry, under `co.mu`; vector clocks of conflicts | three loops, `ResolveConflict` | called by the tests only |
| cryptography, `crypto/*.go` | value and witnesses of an accumulator | accumulate; prove, verify; VRF, signatures, commitments | state (accumulator), consensus (VRF) |

What is hard about it, and what a test hardly reaches:

* **Order of arrival.** Blocks arrive before their parents, twice, as forks, or
  with the same header and other transactions. `processOrphanBlocks` and
  `addBlock` call each other under the mutex.
* **Interleaving.** Two peers send the same block; `bc.mu` is released before
  `sm.mu` is taken. A transaction is validated against one state and stored
  after another has replaced it. Stop runs while Start or a handshake is under
  way. `synchronize` iterates over a map that others write.
* **Failure half way.** The third transaction of a block does not apply; the
  state cannot be archived; `UpdateState` fails after `AddBlock` succeeded.
* **Numbers.** Heights and nonces wrap around; a transfer to oneself works on
  one account through two pointers; a root is converted to an array of 32 bytes.
* **Progress.** Every error path gives its lock back; a proposal sends a vote to
  the engine that is processing it; an accept loop must see that it is stopped;
  a consistency level lowered for a partition must rise again.
* **Stale knowledge.** A ban runs out between two reports; a partition has gone
  when it is handled; a reader adds its key to a tree that others rebuild; an id
  is computed before the last one is stored.
* **Order that should not matter.** Replicas receive the states of a conflict in
  different orders; an accumulator is built by ranging over a Go map.

`PROJECT.json` lists these hazards at their lines, with the properties that
watch over them.

## 2. Modules

| module | models | remarks |
|---|---|---|
| `Core` | transactions, blocks, genesis, header hashes, uint64 | no state |
| `GoMap` | Go's built-in maps | no state |
| `Blockchain` | the block store | refines `BlockTree` |
| `BlockTree` | abstract: a tree of blocks that only grows | |
| `StateManager` | `UpdateState`, `GetState`, archive and compression | |
| `Node` | the goroutines that process blocks and transactions | instantiates `Blockchain` and `StateManager` on its own variables |
| `Peers` | connections, the peers table, Start, Stop, the loops | |
| `HybridConsensus` | consensus engine and reputations | |
| `ByzantineDefender` | scores, suspicion, blacklist and its expiry | |
| `MerkleTree` | the tree of a shard, its proofs and their compression | operators |
| `MerkleForest` | shards, the tree of ids, rebalancing, concurrent proofs | extends `MerkleTree` |
| `ConflictResolver` | kinds of conflict, vector clocks, strategies | operators |
| `CAPOrchestrator` | the loops of the orchestrator, `ResolveConflict` | extends `ConflictResolver` |
| `Crypto` | the accumulator and the proofs of `zkp.go` | the numbers of the code |
| `MC...` | the instances TLC checks | |
| `DataTheorems` | lemmas about maps, folds, sums and induction | used by the proofs |
| `...Proofs` | theorems and their lemmas | `NodeProofs` is also about `Peers`; `OrderProofs` is about `CAPOrchestrator` and `Crypto` |

### Core, GoMap

A block is a record of the header fields that some component reads, its
transactions, and the hash of its header. `HashAssumption` says that SHA-256
has no collisions: equal hashes, equal headers. It does not say equal blocks:
the transactions are not hashed, and nothing compares the Merkle root with them.
A Go map is a function on the keys present; `Put`, `Delete` and `Has` are the
three things the code does with it.

### Blockchain

The five variables are the fields of the struct, and `cursor` is the recursion
of `processOrphanBlocks`: the hash whose orphan is looked up next, or `NoHash`
when `bc.mu` is free. `StoreOrphan`, `AppendBlock` and `RejectBlock` are the
three outcomes of `AddBlock`; after `AppendBlock` only `AdoptOrphan` and
`ReleaseLock` are possible, so the whole call is one critical section. The
comparison of the timestamp with the clock is a free choice (`early`).

`AddBlock` looks the parent up before it validates anything, so an orphan is
stored, and later adopted, unchecked: neither its height nor its contents.
That is why `currentHeight` can jump, and why `HeightIsMax` and `IndexSound`
are not obvious. `NoWrap` in some of the properties excludes states in which
the counter has reached the largest uint64: from there `AddBlock` expects
height 0, for which no parent is needed.

### StateManager

`update` is the call of `UpdateState` in progress, with its copy of the
accounts and the transaction it is at; `sm.mu` is held while it is not
`NoUpdate`. `ApplyTransaction` is one turn of the loop, `AbortUpdate`,
`Panic` and `FailToArchive` are the ways it ends early, and `CommitUpdate` is
the rest of the function in one step (root, compression, archive, database,
history, the swap of the states). Map iteration order is a free choice;
`CalculateStateRoot` hashes what the code hashes: addresses in the order of
the iteration, and for each account what `json.Marshal` leaves of a struct
that cannot be marshalled, which is nothing. `committed` and `stateAt` are
history variables.

`RootLengths` are the lengths `accumulator.Root()` can have. The accumulator
computes modulo 257, so the lengths are 1 and 2, and `core.Hash(root)` panics
for every block whose transactions apply: theorem `NothingApplied` says that
then no block is ever applied. To check the rest of `UpdateState` as well, the
runs, those of `Node` included, assume a modulus of the size of a hash, for
which the lengths are 32 and, for small values, 31: there both the panic and the
normal course are explored.

### Node

`Node` runs the actions of `Blockchain` and `StateManager` in the goroutines of
`handlePeer` (one for each peer) and `mainLoop`. `pc` and `job` say where a
goroutine is and what it works on. One action is what a goroutine does under one
lock, so everything that can happen between two locks does happen: between
`AddBlock` and `UpdateState`, between the validation of a transaction and
its insertion in the mempool, between two removals from the mempool. The block
`mainLoop` makes has no parent, version or difficulty, as in the code.
A panic ends all goroutines. `consensus.ValidateBlock` accepts every block.

What mainLoop's block comes to is an orphan filed under the zero hash, time and
again. That every stored block is applied, which comments of `node.go` say, does
not hold; it stands at the end of the module (`ChainApplied`), with a run. What
else a comment promises and the code does not do is in section 5.

### Peers

One goroutine for each connection (`connPc[c]`: from `dial` or accept through
`handshake`, `register`, `handle` and `close` to `done`), Start, Stop, the
accept loop, `mainLoop` and `syncLoop`. `peers` is keyed by the node id that
the other side presents (`Remote`), so that two connections to one node share
an entry. `stale` stands for five minutes of silence. `MapRace` is the outcome
of iterating a map while another goroutine writes it: the runtime may end the
process.

### HybridConsensus

Each peer's goroutine holds `hc.mu` (`mu`) while it processes a message; the
votes of the node itself wait in `ownVotes`. `SelectLeader` may choose any
validator: which one the VRF and the weights choose depends on the order in
which a map is iterated. `hasQuorum` is `TRUE`, as in the code, so that no
agreement between committed blocks can hold and none is stated: a commit needs
no votes. `good` and `bad` count votes and are history.

A message can have no type or an unknown one: the first is refused by the
validation, the second by the default of the switch (`RefuseType`). `ToVote`,
`ToProposal` and `ToCommit` drop the errors of `json.Unmarshal`, so that a
payload that does not decode gives a vote of the zero address for the zero hash,
which is counted, or a block that is nil (`NoBlock`), on which the process ends
in a panic while `hc.mu` is held (`Panic`, `panicked`).

### ByzantineDefender

`ValidateNode` is one critical section, so one action: refusal while the node is
blacklisted (`RefuseNode`), the change of the score, detection and defence.
`scores` and `nodeScores` are the two maps of the reputation system; a score is
a float in the code and an integer here, in thousandths of a point (`Unit`), and
a report of half an attack is cut off to those. `Impacts` is the history the
code keeps. Whatever `DetectAttacks` reports goes to `handleGenericAttack`: the
handlers of the attacks it never names (double spend, sybil, eclipse, long
range) are dead code. `now` is the clock, which only passes between calls.

### MerkleTree, MerkleForest

`MerkleTree` gives the tree and its proofs as functions of the leaves, from
which `AddLeaf` builds everything anew, level by level as `buildTree` does. Hashes are nested pairs, so there are no
collisions. `GenerateProof` follows the parent pointers of the leaf node, which
for equal leaves are those of the last one; `SamplePath` is the compression.

`shards` is the map `amf.shards`; `nodes` and `nodeMap` are the tree of ids, with
the nodes that have left it, since parents still point to them. `SplitShard`,
`AnalyzeShardLoads`, `MergeShards` and `MergeFails` are
`DynamicShardRebalancing`: `operations` is the rest of its list, and while it is
not empty the write lock is held. `AddKey` and `ReturnProof` are the two halves
of `GenerateProof`, which writes under the read lock: other readers add their
keys in between. Loads, in thousandths, are set from outside, as in the tests;
which candidate and which order is met in a map iteration is a free choice.
The root can start with many leaves, as after as many earlier calls.
A shard id is a uint32 in the code and a natural number here: the largest is not
reached in fewer than four thousand million operations.

### ConflictResolver, CAPOrchestrator

`ConflictResolver` classifies a sequence of states and resolves it; the entropy
of the values is replaced by what it is compared for (up to four states), and
`sort.Slice` by the insertion sort it is for short slices. In `CAPOrchestrator`
each loop is an action for what it does under `co.mu`; `monitorPartitions`
detects before it locks, so `detected` is what it has in hand and may be out of
date. The two stubs that answer for the network answer freely. `conflict`
holds the conflict between the call of `ResolveConflict` and its return;
an empty one panics.

### Crypto

`Add` and `NewAccumulator` are the loop of `updateAccumulator` for one world
state, in several copies; `added` is history. An element is the number its hash
is reduced to a prime from. `GenerateProof` makes a proof of any secret.
The moduli (257, 23, 11) and the constants (7, 3) are those of the code.

## 3. What TLC checks

All runs take less than five minutes with two workers.

| run | result | question |
|---|---|---|
| `block_store` | pass | does the store stay a growing tree with a sound index, in whatever order blocks arrive and up to the end of the height counter, and does each cascade end? |
| `state` | pass | no replay, no half block, no coin lost, the database in step, the lock given back |
| `node` | pass | is no block and no transaction applied twice, the state never ahead of the chain, only applied blocks passed on, and does every goroutine come back, with two peers and `mainLoop`? |
| `peers` | pass | does the table name exactly the connections that are served, does nothing leak, do the loops end? |
| `consensus` | pass | are scores and epochs explained by the messages, and does every call return unless the process ends? |
| `defender` | pass | are scores bounded and fair, is suspicion paced by the bans, does a bad report never lower the threshold? |
| `forest` | pass | are ids fresh, is no leaf lost, does the tree of ids stay closed, do proofs lead to the root, through splits, merges and concurrent readers? |
| `cap` | pass | do replicas agree whatever order states arrive in, does no resolution go back in causal time, does the consistency level recover from partitions? |
| `crypto` | pass | do root and witnesses depend on the set of elements only, is no proof accepted for two statements? |
| `state_height` | violation | "GetState retrieves state at a specific height": for an earlier height it can return the current accounts, because roots do not depend on balances |
| `node_applied` | violation | "ProcessBlock processes a new block", "Update state": adopted orphans, and blocks whose update failed, are never applied |
| `crypto_proof` | violation | two tests expect the proof of the secret 2 to verify for its own statement: it is refused |

**Bounds, and why they are enough.** *Blocks:* thirteen, with a fork, two blocks
for one parent, two pairs with one header, gaps in the heights, heights below
the parent's, and invalid headers and payloads; with `MaxUint64 = 4` the counter
reaches its end and passes it. *State:* three accounts of which one is created
by a transfer; blocks that apply, fail at their second transaction, pay the
sender itself, repeat a transaction, and fall on heights that compress (every
2nd), archive (every 4th) or both; two times. *Node:* two peers and `mainLoop`
with four blocks (two of one height, one that repeats a transaction, one at
a height that archives), one transaction and a mempool of one; a third peer
adds no new pair of goroutines, and the theorems cover any number. *Peers:*
three connections, two of them to one node. *Consensus:* two peers, two blocks, one
validator; scores between 0 and 4, starting at 3,
with reward 1 and penalty 2, so that two votes go past the upper limit, and two
past the lower; `VoteBound` limits the votes counted, of all
addresses together, and `EpochBound` the commits, before more messages come in, so
that with two peers each can be passed by one. Messages of no and of an unknown
type, one out of date, a vote that did not decode and a commit without a block
are among those sent. *Defender:* two nodes, since the properties
compare two; a ban of two ticks and a clock of four, so that a ban is renewed
after it has run out; three reports on a node, enough to reach both limits and
all three thresholds. *Forest:* up to three shards (two splits, or a split and
merges that use each other's shards up), four measured loads, two added leaves
by two readers, and root trees of 0, 3 and 62 leaves: 64 leaves are the most a
compressed path survives. *CAP:* every sequence of up to three of seven states,
two of one time; one risk for each consistency level; a partition list of two
severities on both sides of the limit. *Crypto:* two copies, four elements with
the primes 2, 11 (twice) and 101; all secrets below the order 22 of the
generator.

**Deadlock** is not checked where the system may stop: after a panic (of
`UpdateState`, of a conflict without states, of a block that is nil), when a node
has stopped, or when the bounds on time, reports or leaves end the run.

**Fairness.** *Blockchain, StateManager:* a goroutine that holds the mutex
keeps running. *Node:* each goroutine keeps running and the ticker keeps
ticking; nobody has to send anything. Waiting for a lock needs no more than weak
fairness here since in the runs with liveness the competition for a lock ends.
*Peers:* goroutines run, reading from a closed connection fails, a select that
finds its stop channel closed does not choose the ticker for ever; a remote
node may be silent for ever, and no fairness is assumed of handshakes or
of `synchronize`, which writes without a deadline. *HybridConsensus:* strong
fairness for taking `hc.mu`, since Go's mutexes do not let a waiter starve.
*CAPOrchestrator:* weak fairness for `OptimizeConsistencyLevel` and
`HandlePartitions`: their tickers go on, and nobody keeps `co.mu`; the network
may change as it likes, and `RecoversFromPartitions` only speaks of runs in which
it settles down. The other modules need no fairness.

**Mutants.** The operators named `Faulty...` stand before the definition they
alter. Each is a plausible mistake in that code (a dropped guard, a missing
reset, an unlock forgotten), and each makes a property of a run fail.

## 4. What is proved

The theorems hold for all values of the constants that satisfy the named
assumptions: any blocks, accounts, peers, connections, reports, keys and times.

* **`BlockchainProofs`.** `IndInv` is the conjunction of the type invariant,
  `KeyedByHash`, `IndexSound`, `HeightIsMax`, `ParentClosed`,
  `NoOrphanLeftBehind`, `CursorIsLeaf` and `GenesisKept`. None is inductive
  alone: that a block just adopted is new (and so overwrites nothing) follows
  from `CursorIsLeaf`, for which an orphan that is stored already would have
  had its parent stored, against `NoOrphanLeftBehind`; for a block just appended
  it follows from `HeightIsMax`, because a stored block with the same hash would
  have the same height. From it: the index, the height, the closure under
  parents, the genesis block (`GenesisStays`), no orphan left behind; that no
  block is ever replaced (`StoreAppendOnly`), that the height never drops, and
  that the store implements `BlockTree` until the height counter is at its end
  (`BlockTreeRefinement`). Assumed: no hash collisions.
* **`StateManagerProofs`.** `NoReplay` needs `NoncesSpent` (every nonce used is
  below its sender's counter), for the copy of the update in progress too, and
  `LogFollows` (what the copy has applied is the beginning of its block).
  `TypeCorrect` contains that no balance underflows. `BlocksAtomic` and
  `DatabaseCorrect` follow from the same invariant. `TransferMovesCoins` says
  what a transfer does to two balances, and `TransferKeepsSupply` that it leaves
  the sum over all accounts as it was: the sum is split into sender, receiver and
  the rest. From it follows `CoinsConserved`, with `SupplyInCopy`: as long as the
  supply fits into a uint64 the copy of an update in progress has the same
  supply, so no credit wraps. `GetStateErrs` says how far the error of the run
  `state_height` goes: when `GetState` answers with other accounts than those of
  its height, they are the current ones, with the same addresses. It rests on
  `ArchiveInv`: only the empty state is ever archived, and it is what is then
  given back (`EmptyStays`: nobody can pay in it, so it stays empty), and a root,
  although it does not depend on balances, tells which addresses there are
  (`RootsTell`). `NothingApplied` is about the modulus 257 as it is: when no root
  is as long as a hash, nothing is ever stored, committed or written.
* **`NodeProofs`.** `AppliedOnce`: for any number of peers no block is applied
  twice, although no lock spans `AddBlock` and `UpdateState`. The invariant says
  why: `AddBlock` hands out heights in increasing order, one goroutine for each
  height (`HeightsHandedOut`), and one at a time is inside `UpdateState`
  (`OneUpdater`). `PassedOnApplied`: what is broadcast is stored and applied.
  Its invariant says for each goroutine what it has in hand at each place
  (`InHand`): after `AddBlock` a stored block, after `UpdateState` an applied
  one. The others cannot spoil it, since the store and the history only grow.
  `StoreRefinement`: seen through the mapping `Store` (the store without the
  orphans filed under the zero hash) each step of a node is a step of
  `Blockchain` for a caller who hands it the blocks of the peers, or a stutter.
  It holds because the store refuses every block of `mainLoop` (its version is 0),
  which is not what `mainLoop` makes them for (section 5), and because a cascade
  never comes to the zero hash (`Working`). `StateFollowsChain` takes
  what `BlockchainProofs` shows through this mapping: a stored block is not
  replaced, and so the transactions applied from it stay in the chain.
  `TransactionsOnce` does the same with the state: each step of a node is a step
  of `StateManager`, called with the blocks of the peers, or leaves the state
  alone (`WorldSteps`), so the invariant of `StateManagerProofs` holds in a node.
  The second part of the module is about `Peers`: the table names only
  connections that are served, under the right id (`TableHandled`); nothing
  leaks (`NoLeaks`); a node with a single connection is in the table as long as
  it is open (`TableComplete`). The invariant adds that nothing is dialled before
  the last step of Start.
* **`HybridConsensusProofs`.** Types, among them that a score never leaves its
  limits; and `ScoresExplained`, for any limits and weights: with the types the
  property is inductive, one case for a valid vote and one for an invalid one.
  `EpochsCounted`: never more committed blocks than epochs, whichever block is
  committed how often. Its hypothesis, that the epoch counter has not reached
  the largest uint64, is needed: there the counter starts again at 0.
* **`DefenderProofs`.** Scores are bounded and the two maps agree
  (`ScoresBounded`); a node is suspected at most twice in each ban
  (`SuspicionPaced`). `SuspicionSlow` is not inductive: the invariant says what
  pays for the attacks counted, which is the ban that is running, or the clock
  when there is none. It rests on `AttacksSevere`: whatever `DetectAttacks`
  reports is severe enough for the blacklist, so every counted attack bans.
  `ComparisonFair` is about whole histories: every score is the end of a trace
  that the impacts of the reports lead through (`ScoresExplained`), and two
  traces of which one has the better impacts stay in order, since cutting off at
  0 and at the maximum is monotone. `BadReportsHeard` compares the average before
  and after a report: a known node loses (`KnownNodeLoses`), a new one joins with
  less than the neutral score (`NewNodeJoins`), and the threshold falls in the
  average.
* **`ForestProofs`.** `generateShardID` looks only at the shards there are now.
  That it never gives an id twice (`IdsFreshAlways`) follows from
  `LargestIsShard`: the largest id ever given is that of a shard, since a merge
  only removes it when it stores a larger one. With fresh ids no entry is
  overwritten, and so no leaf is lost by splits and merges (`LeavesNeverLost`).
  `ChildrenListed`: by `TreeInv` every node in the tree but the root has its
  parent among the nodes, so that replacing two children of one parent closes the
  tree again; the loop that copies the other children keeps exactly those
  (`OthersKept`), and a merge is always of two different shards (`MergesOfTwo`).
  `PathsLead`: `ReadersInv` says that a key asked for stays in its shard, whatever
  other readers add, because shards are merged and split only when nobody reads.
  The rest is about the tree: the widths of the levels are halved until 1, which
  takes at most six levels up to 64 leaves (`RootLevel`), the hash reached after
  k nodes of the path is that of the k-th ancestor (`WholePath`), and the
  compression keeps every node of a path of at most six (`ShortPathKept`).
* **`OrderProofs`.** What does not depend on an order. `ReplicasAgreeAlways`:
  the sort by time ends with the newest state (`NewestWins`, by induction over the
  insertions), whatever the order was (`SameStates`); the classification of a
  conflict depends on the set of states only (`OrderIrrelevant`). `NoRegress` goes
  through the three strategies: the newest state is not before another
  (`NewestNotBefore`), a merged clock is not less than any it was merged from
  (`MergedClock`), and of two states the sort takes the later (`LaterOfTwo`).
  `SameRootAlways`, about `Crypto`: powers of powers commute
  (`PowersCommute`), so there is one accumulator for each set of elements
  (`AccumulatorsExist`) and every copy reaches it, with every witness on the way
  (`CopyReaches`). `StatementUniqueAlways`, for every natural number as secret: of
  the statements just one has the cube that a response asks for
  (`OneStatement`), since 3 has no factor in common with 22. `WhenProofVerifies`
  says for which secrets a proof is accepted for its own statement: the powers of 5
  modulo 23 repeat after 22 (`ExpOf5`), the response is reduced modulo 11, so
  the proof is right when an even multiple of 11 is lost, and is refused else.
* **`DataTheorems`.** What the others need of maps, sums and folds. The induction
  theorems of the library take a predicate as their parameter, which the provers
  cannot instantiate; here induction is over the set of the numbers, or of the
  subsets, that have the property (`UptoInduction`, `SetInduction`, from
  `LeastNatural`). With it, what is defined recursively exists (`Iteration`,
  `SumsExist`), and a fold whose steps commute does not depend on the order in
  which the elements are picked (`FoldsAnyFirst`).

Every invariant and action property of the passing runs is a theorem. Only
model-checked are the liveness properties (`CascadeEnds`, `UpdateReturns`,
`AlwaysReturns`, `LoopsEnd`, `ClosedLeave`, `CallsReturn`,
`RecoversFromPartitions`), which are beyond the prover, and the violations of
section 3, which are single behaviours.

## 5. Observations that are not runs

The first of each group disagree with a comment or a test, quoted here; the runs
of section 3 that end in a violation are three more of these.

*Chain and state*

* "addBlock adds a validated block to the chain" (`blockchain.go:155`): a block
  whose parent is missing is filed before its header and transactions are looked
  at (`blockchain.go:94`), and adopted without that being made up for (`:178`).
* `state_test.go:48` expects `UpdateState` of a valid transfer to succeed. With
  the modulus 257 (`accumulator.go:24`) it panics at `state_manager.go:106`;
  theorem `NothingApplied`.
* A second orphan of one parent replaces the first, and nothing limits their
  number. Adopted orphans may leave gaps in the heights; past the largest uint64
  `AddBlock` accepts a second block of height 0.
* `Archive` files states under their time, and `Retrieve` asks for a height.

*Node and consensus*

* "Process pending transactions" (`node.go:308`, `:517`): the block made of them
  has no parent, version or difficulty (`:526`). It is refused every time and
  filed as an orphan, and its transactions stay in the mempool.
* "Remove processed transactions from mempool" (`node.go:384`): a transaction
  that was validated before a block with it was applied can be added after the
  removal. It then stays, although it is never applied again (`NoReplay`).
* "StateSnapshot represents a state at a specific height" (`state_manager.go:46`):
  `bc.mu` is released before `sm.mu` is taken (`node.go:375`, `:380`), so a child
  can be applied before its parent, and the snapshot of the parent's height is
  then one of a state that has the child's transfers in it.
* "Check if 2/3+ validators have voted" (`hybrid_consensus.go:383`): `hasQuorum`
  returns true, and one commit message of anybody commits a block.
* The node's own votes have the zero address as their sender and are refused;
  nothing fills the set of validators. A consensus message without a block ends
  the process.
* Of two connections to one node the end of one takes the other out of the
  table, which goes on being served (`node.go:497`).
* A connection that registers (`node.go:198`) after Stop has closed those in the
  table (`node.go:236`) stays open. `Start` that fails leaves `running` set;
  Start, Stop, Start, Stop closes a closed channel; `MaxPeers` is never
  enforced; the answer to `getblocks` has no handler.
* The first report on a node brings it into the average: a good one, but not
  good enough, can raise the consensus threshold.

*Merkle forest*

* "generateShardID generates a unique shard ID" (`adaptive_merkle_forest.go:273`):
  a split asks for both ids before either shard is stored (`:117`, `:128`), so both
  children get one id and `amf.shards` keeps the right one only.
* "ReplaceNodes replaces two nodes with a merged node" (`shard.go:92`): the root
  and a child of it, which both have `ParentShard` 0, can be merged. Their parents
  in the tree differ, so `ReplaceNodes` returns at once (`:100`) while the
  shards are gone: their nodes stay in the tree.
* No proof that `GenerateProof` issues is accepted by `VerifyProof`, and
  `merkle_test.go:56` expects that: the filter does not hold the key, and the
  leaf that is added is the hash of the key where `VerifyProof` starts from the
  hash of key and value. Beyond 64 leaves the compression also drops nodes that
  are needed.
* A split leaves the parent its leaves and its load: it is split again each
  time.
* Nothing can reach `Rollback`.

*CAP and cryptography*

* "Take the causally latest state" (`conflict_resolver.go:187`): `sort.Slice` is
  given a partial order (`:267`), and of three states of one node, two of them
  concurrent with the third, the state taken can happen before another.
* `handlePartitions` lowers the level and leaves the timeouts; so does the
  change to session consistency. The initial retries for strong consistency are
  3, and 5 after it is entered again.
* `ReconcileVectorClocks` ("Merge all vector clocks") copies the clock of the
  result. A conflict without states panics. Replicas may differ over states of
  equal times.
* A witness of the accumulator is stale after the next `Add`; `TestAccumulator`
  verifies one.
* A proof that is refused for its own statement is one for the negative of it.
  The proof does not depend on the state root. `TestZKP` takes a statement that
  is not a power for its secret.
* `SignData` joins r and s without padding (`utils.go:28`), and
  `VerifySignature` refuses what is shorter than 64 bytes.

## 6. Not modelled

Formatting, logging, JSON and gob layout, gzip, benchmarks. Curve arithmetic
(VRF, ECDSA), commitments and plain hashing have no state and are out of TLC's
reach; the VRF's choice of a leader is a free choice in `HybridConsensus`. The
filter of the forest only gains bits. `Prune`, `handleGetBlocks`,
`handleGetData`, `VerifyProof` and `GetAllLeaves` only read. Contracts, shard
states and storage of the world state are maps that nothing fills. The
second start of a node is not considered, nor are messages to the node itself whose
payload does not decode: `handleMessage` returns an error before anything else.

What could still be done: an abstract ledger that `StateManager` implements,
and for the liveness properties the part the prover can do, that the steps that
are waited for come nearer to their end.
