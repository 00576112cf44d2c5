---------------------------- MODULE StateManager ----------------------------
(***************************************************************************)
(* The world state (state/state_manager.go, archival.go, compression.go).  *)
(*                                                                         *)
(* UpdateState holds sm.mu from its first to its last line and works on a  *)
(* copy of the accounts.  "update" is the call in progress: its block, the *)
(* transaction it is at, and the copy.  The code never creates a contract, *)
(* a shard state, contract code or storage, so these are left out.         *)
(***************************************************************************)
EXTENDS Core, GoMap, FiniteSets, Functions

CONSTANTS
    InitialAccounts,    \* account maps the state may be given at start
    Time,               \* seconds since 1970, as time.Now().Unix() gives them
    CompressEvery,      \* 1000 in the code
    ArchiveEvery,       \* 10000 in the code
    RootLengths,        \* the values of len(accumulator.Root()), a number
                        \*   without leading zeros: 1 and 2 in the code,
                        \*   whose accumulator computes modulo 257; up to
                        \*   32 for a modulus of the size of a hash
    HashBytes           \* 32, the length of a core.Hash

VARIABLES
    accounts,       \* sm.currentState.Accounts
    stateRoot,      \* sm.currentState.StateRoot
    timestamp,      \* sm.currentState.Timestamp
    stateHistory,   \* height |-> StateSnapshot
    stateDB,        \* the keys of the database, by kind
    archivedData,   \* StateArchive: time |-> accounts
    update,         \* the call of UpdateState in progress, or NoUpdate
    panicked        \* the process has died in a panic

\* History variables, which no code keeps.
VARIABLES
    committed,      \* the transactions applied so far, in order
    stateAt         \* height |-> the accounts that block led to

store == <<stateHistory, stateDB, archivedData>>
history == <<committed, stateAt>>
vars == <<accounts, stateRoot, timestamp, store, update, panicked, history>>

\* No call of UpdateState is in progress.
NoUpdate == [idle |-> TRUE]

AccountAddress == Address \cup {ZeroAddress}
AccountState == [balance : Uint64, nonce : Uint64]
IsAccounts(m) == IsMap(m, AccountAddress, AccountState)

ASSUME StateAssumption ==
    /\ \A m \in InitialAccounts : IsAccounts(m)
    /\ Time \subseteq Nat
    /\ CompressEvery \in Nat \ {0}
    /\ ArchiveEvery \in Nat \ {0}
    /\ RootLengths \subseteq Nat
    /\ HashBytes \in Nat

\* An address has 20 bytes.
ASSUME AddressAssumption == IsFiniteSet(Address)
-----------------------------------------------------------------------------
\* NewStateManager, and the accounts its user puts into GetCurrentState().
Init ==
    /\ accounts \in InitialAccounts
    /\ stateRoot = ZeroHash
    /\ timestamp \in Time
    /\ stateHistory = EmptyMap
    /\ stateDB = [root |-> ZeroHash, accounts |-> {}, compressed |-> EmptyMap]
    /\ archivedData = EmptyMap
    /\ update = NoUpdate
    /\ panicked = FALSE
    /\ committed = << >>
    /\ stateAt = EmptyMap
-----------------------------------------------------------------------------
\* Uint64 addition.
Plus(m, n) == (m + n) % (MaxUint64 + 1)

\* Faults seeded to show that the properties can fail are named Faulty...
\* and stand just before the definition they alter.

\* The nonce is not checked.
FaultyCanApplyNonce(acc, tx) ==
    Has(acc, tx.from) /\ acc[tx.from].balance >= tx.value

\* The balance is not checked.
FaultyCanApplyBalance(acc, tx) ==
    Has(acc, tx.from) /\ tx.nonce = acc[tx.from].nonce

\* The three checks of applyTransaction.
CanApply(acc, tx) ==
    /\ Has(acc, tx.from)
    /\ tx.nonce = acc[tx.from].nonce
    /\ acc[tx.from].balance >= tx.value

\* The effect of applyTransaction.  Sender and receiver may be one account.
Debit(acc, tx) ==
    [acc EXCEPT ![tx.from] = [balance |-> @.balance - tx.value,
                              nonce   |-> Inc(@.nonce)]]

Credit(acc, tx) ==
    LET receiver == IF Has(acc, tx.to) THEN acc[tx.to]
                                       ELSE [balance |-> 0, nonce |-> 0]
    IN  Put(acc, tx.to, [receiver EXCEPT !.balance = Plus(@, tx.value)])

\* The receiver's balance is read before the sender is debited.
FaultyTransfer(acc, tx) ==
    LET balance == IF Has(acc, tx.to) THEN acc[tx.to].balance ELSE 0
    IN  [Credit(Debit(acc, tx), tx)
            EXCEPT ![tx.to].balance = Plus(balance, tx.value)]

Transfer(acc, tx) == Credit(Debit(acc, tx), tx)

\* serializeAccountState: json.Marshal cannot encode a map whose keys are
\* arrays, and the error is dropped, so that nothing of the account is left.
SerializeAccountState(account) == << >>

\* calculateStateRoot: the hash of what it ranges over, in the order in which
\* the map was iterated.  (A hash is taken to be the value it is computed of.)
CalculateStateRoot(acc, order) ==
    [i \in DOMAIN order |-> <<order[i], SerializeAccountState(acc[order[i]])>>]

\* The orders in which a map can be iterated.
IterationOrders(m) ==
    {order \in [1 .. Cardinality(DOMAIN m) -> DOMAIN m] :
        \A i, j \in DOMAIN order : order[i] = order[j] => i = j}

\* CompressWorldState: the accounts as text, without the types of their fields.
\* (Writing to memory does not fail, and gzip loses nothing.)
CompressWorldState(acc) ==
    [a \in DOMAIN acc |-> <<acc[a].balance, acc[a].nonce>>]

\* compressState: the old state, under the second it is written at.
WithCompressed(db, height, now) ==
    IF height % CompressEvery = 0
    THEN [db EXCEPT !.compressed = Put(@, now, CompressWorldState(accounts))]
    ELSE db

\* The state that is about to be replaced is saved.
FaultySaveState(db, root, acc) ==
    [db EXCEPT !.root = stateRoot, !.accounts = @ \cup DOMAIN accounts]

\* saveState.  Entries of the database are never deleted.
SaveState(db, root, acc) ==
    [db EXCEPT !.root = root, !.accounts = @ \cup DOMAIN acc]

\* StateArchive.Archive: json.Marshal fails on any account, as above.
ArchiveFails(height) == height % ArchiveEvery = 0 /\ DOMAIN accounts # {}

WithArchived(height) ==
    IF height % ArchiveEvery = 0 THEN Put(archivedData, timestamp, accounts)
                                 ELSE archivedData
\* updateAccumulator, whose root is converted to a core.Hash.  Root() is the
\* accumulator's number without leading zeros, so its length varies; the
\* conversion of a slice to a longer array panics.
RootFits     == \E length \in RootLengths : length >= HashBytes
RootTooShort == \E length \in RootLengths : length < HashBytes
-----------------------------------------------------------------------------
\* UpdateState(b), up to copyState.
BeginUpdate(b) ==
    /\ update = NoUpdate
    /\ ~panicked
    /\ update' = [block |-> b, next |-> 1, copy |-> accounts, log |-> committed]
    /\ UNCHANGED <<accounts, stateRoot, timestamp, store, panicked, history>>

\* The transaction the loop is at, if there is one left.
Applying == ~panicked /\ update # NoUpdate /\ update.next <= Len(update.block.txs)
Applied  == ~panicked /\ update # NoUpdate /\ update.next > Len(update.block.txs)
CurrentTx == update.block.txs[update.next]

ApplyTransaction ==
    /\ Applying
    /\ CanApply(update.copy, CurrentTx)
    /\ update' = [update EXCEPT !.next = @ + 1,
                                !.copy = Transfer(@, CurrentTx),
                                !.log  = Append(@, CurrentTx)]
    /\ UNCHANGED <<accounts, stateRoot, timestamp, store, panicked, history>>

\* A transaction that does not apply is skipped.
FaultyAbortSkips ==
    /\ Applying
    /\ ~CanApply(update.copy, CurrentTx)
    /\ update' = [update EXCEPT !.next = @ + 1]
    /\ UNCHANGED <<accounts, stateRoot, timestamp, store, panicked, history>>

\* The error path keeps the lock.
FaultyAbortKeepsLock ==
    /\ Applying
    /\ ~CanApply(update.copy, CurrentTx)
    /\ UNCHANGED vars

\* A transaction does not apply: an error is returned and the copy forgotten.
AbortUpdate ==
    /\ Applying
    /\ ~CanApply(update.copy, CurrentTx)
    /\ update' = NoUpdate
    /\ UNCHANGED <<accounts, stateRoot, timestamp, store, panicked, history>>

\* core.Hash(accumulator.Root()) panics.  Nobody recovers: the process ends.
Panic ==
    /\ Applied
    /\ RootTooShort
    /\ panicked' = TRUE
    /\ update' = NoUpdate
    /\ UNCHANGED <<accounts, stateRoot, timestamp, store, history>>

\* The old state cannot be archived: an error is returned, after compressState.
FailToArchive(now) ==
    /\ Applied
    /\ RootFits
    /\ ArchiveFails(update.block.height)
    /\ now >= timestamp
    /\ stateDB' = WithCompressed(stateDB, update.block.height, now)
    /\ update' = NoUpdate
    /\ UNCHANGED <<accounts, stateRoot, timestamp, stateHistory, archivedData,
                   panicked, history>>

\* The rest of UpdateState.
CommitUpdate(order, now) ==
    /\ Applied
    /\ RootFits
    /\ LET height == update.block.height
           root   == CalculateStateRoot(update.copy, order)
       IN  /\ ~ArchiveFails(height)
           /\ now >= timestamp
           /\ stateDB' = SaveState(WithCompressed(stateDB, height, now),
                                   root, update.copy)
           /\ archivedData' = WithArchived(height)
           /\ accounts' = update.copy
           /\ stateRoot' = root
           /\ timestamp' = now
           /\ stateHistory' =
                Put(stateHistory, height,
                    [root       |-> root,
                     compressed |-> height % CompressEvery = 0,
                     archived   |-> height % ArchiveEvery = 0])
           /\ stateAt' = Put(stateAt, height, update.copy)
    /\ committed' = update.log
    /\ update' = NoUpdate
    /\ UNCHANGED panicked

\* A step of the call in progress.
Proceed ==
    \/ ApplyTransaction
    \/ AbortUpdate
    \/ Panic
    \/ \E now \in Time : FailToArchive(now)
    \/ /\ Applied
       /\ \E now \in Time, order \in IterationOrders(update.copy) :
             CommitUpdate(order, now)

Next == (\E b \in Block : BeginUpdate(b)) \/ Proceed

\* The goroutine in UpdateState keeps running.
Spec == Init /\ [][Next]_vars /\ WF_vars(Proceed)
-----------------------------------------------------------------------------
\* StateArchive.Retrieve: the archive is searched for a time equal to the height.
Retrieve(height) == {archivedData[t] : t \in DOMAIN archivedData \cap {height}}

\* Always an error.
DecompressWorldState == {}

\* GetState(height), for a height in the history: the state it returns, or
\* nothing when it returns an error.
GetState(height) ==
    LET snapshot == stateHistory[height]
    IN  CASE snapshot.archived -> Retrieve(height)
          [] ~snapshot.archived /\ snapshot.compressed -> DecompressWorldState
          [] OTHER -> IF snapshot.root = stateRoot THEN {accounts} ELSE {}

Root == {ZeroHash} \cup Seq(AccountAddress \X {<< >>})
Snapshot == [root : Root, compressed : BOOLEAN, archived : BOOLEAN]

IsDatabase(db) ==
    /\ db = [root |-> db.root, accounts |-> db.accounts,
             compressed |-> db.compressed]
    /\ db.root \in Root
    /\ db.accounts \subseteq AccountAddress
    /\ DOMAIN db.compressed \subseteq Time

IsUpdate(u) ==
    /\ u = [block |-> u.block, next |-> u.next, copy |-> u.copy, log |-> u.log]
    /\ u.block \in Block
    /\ u.next \in 1 .. Len(u.block.txs) + 1
    /\ IsAccounts(u.copy)
    /\ u.log \in Seq(Transaction)

\* Balances and nonces stay in uint64 (the subtraction of applyTransaction
\* never underflows), and the call in progress is one of UpdateState.
TypeOK ==
    /\ IsAccounts(accounts)
    /\ stateRoot \in Root
    /\ timestamp \in Time
    /\ IsMap(stateHistory, Uint64, Snapshot)
    /\ IsDatabase(stateDB)
    /\ DOMAIN archivedData \subseteq Time
    /\ update # NoUpdate => IsUpdate(update)
    /\ panicked \in BOOLEAN
    /\ committed \in Seq(Transaction)
    /\ DOMAIN stateAt = DOMAIN stateHistory

\* Until a nonce wraps around: no two applied transactions of one sender have
\* the same nonce, in whatever blocks and however often they were submitted.
Unrepeated(log) ==
    (\A i \in DOMAIN log : log[i].nonce < MaxUint64) =>
        \A i, j \in DOMAIN log :
            log[i].from = log[j].from /\ log[i].nonce = log[j].nonce => i = j

NoReplay == Unrepeated(committed)

\* Why: the nonces in use are below the sender's counter, in the current state
\* and in the copy an update works on.
SpentBelow(acc, log) ==
    (\A i \in DOMAIN log : log[i].nonce < MaxUint64) =>
        \A i \in DOMAIN log : /\ Has(acc, log[i].from)
                              /\ log[i].nonce < acc[log[i].from].nonce

NoncesSpent ==
    /\ SpentBelow(accounts, committed)
    /\ update # NoUpdate => SpentBelow(update.copy, update.log)

\* Why: the log of an update is that of the current state followed by the
\* transactions of the block applied so far.
LogFollows ==
    update # NoUpdate =>
        update.log = committed \o SubSeq(update.block.txs, 1, update.next - 1)

\* The accounts change only by all the transactions of a block, in order; a
\* reader of GetCurrentState never sees half a block.
WholeBlocks ==
    [][accounts' # accounts => committed' = committed \o update.block.txs]_vars

\* No coin is created or lost by a transfer, also one to the sender itself,
\* as long as all of them together fit into a uint64.
TotalBalance(acc) == SumFunction([a \in DOMAIN acc |-> acc[a].balance])

SupplyConserved ==
    [][TotalBalance(accounts) <= MaxUint64 =>
          TotalBalance(accounts') = TotalBalance(accounts)]_vars

\* Whatever failed on the way, the database holds the root and the accounts
\* of the current state once a block has been applied.
DatabaseCurrent ==
    stateHistory # EmptyMap => /\ stateDB.root = stateRoot
                               /\ stateDB.accounts = DOMAIN accounts

\* The copy an update works on has the coins of the current state.
SupplyInCopy ==
    update # NoUpdate /\ TotalBalance(accounts) <= MaxUint64 =>
        TotalBalance(update.copy) = TotalBalance(accounts)

\* Why: an empty state stays empty, since nobody can pay, so that only empty
\* states are archived.
EmptyStays ==
    /\ \A t \in DOMAIN archivedData : archivedData[t] = EmptyMap
    /\ \A h \in DOMAIN stateHistory :
           stateHistory[h].archived => stateAt[h] = EmptyMap
    /\ update # NoUpdate /\ accounts = EmptyMap => update.copy = EmptyMap

\* The accounts a state root was computed of.
RootAccounts(root) == {root[i][1] : i \in DOMAIN root}

\* Why: a root tells which accounts there are, and the current state is the one
\* after some block of the history.
RootsTell ==
    /\ \A h \in DOMAIN stateHistory :
           RootAccounts(stateHistory[h].root) = DOMAIN stateAt[h]
    /\ stateHistory # EmptyMap =>
           /\ RootAccounts(stateRoot) = DOMAIN accounts
           /\ \E h \in DOMAIN stateAt : accounts = stateAt[h]

ArchiveInv == SupplyInCopy /\ EmptyStays /\ RootsTell

\* The invariant that is inductive, and on which ArchiveInv rests.
IndInv ==
    /\ TypeOK
    /\ NoncesSpent
    /\ NoReplay
    /\ update # NoUpdate => Unrepeated(update.log)
    /\ LogFollows
    /\ DatabaseCurrent
    /\ stateDB.accounts \subseteq DOMAIN accounts
    /\ update # NoUpdate => DOMAIN accounts \subseteq DOMAIN update.copy

\* Every call of UpdateState returns (or takes the process down).
UpdateReturns == (update # NoUpdate) ~> (update = NoUpdate)
-----------------------------------------------------------------------------
\* What a comment says, and the code does not do.

\* "GetState retrieves state at a specific height", when it does not return an
\* error: the accounts the block of that height led to, and not those of
\* another height.
StateAtHeight ==
    \A h \in DOMAIN stateHistory : GetState(h) \subseteq {stateAt[h]}
=============================================================================
