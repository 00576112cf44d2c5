------------------------- MODULE StateManagerProofs -------------------------
(***************************************************************************)
(* The state manager is correct for every set of blocks and transactions,  *)
(* every initial state and every length of the accumulator's root.         *)
(***************************************************************************)
EXTENDS StateManager, DataTheorems

\* The fields of a block and of a transaction that the proofs use.
LEMMA BlockFields ==
    ASSUME NEW b \in Block
    PROVE  b.height \in Uint64 /\ b.txs \in Seq(Transaction)
BY BlockAssumption DEF BlockType

\* The types of the fields of a transaction.
LEMMA TransactionFields ==
    ASSUME NEW tx \in Transaction
    PROVE  /\ tx.from \in AccountAddress
           /\ tx.to \in AccountAddress
           /\ tx.value \in Uint64
           /\ tx.nonce \in Uint64
BY TransactionAssumption DEF TransactionType, AccountAddress

\* The transaction an update is at is one of the submitted ones.
LEMMA CurrentTxType ==
    ASSUME TypeOK, Applying
    PROVE  /\ CurrentTx \in Transaction
           /\ update.next \in 1 .. Len(update.block.txs)
<1>1. IsUpdate(update)
  BY DEF TypeOK, Applying
<1>2. update.block.txs \in Seq(Transaction)
  BY <1>1, BlockFields DEF IsUpdate
<1>3. update.next \in 1 .. Len(update.block.txs)
  BY <1>1, <1>2 DEF IsUpdate, Applying
<1> QED
  BY <1>2, <1>3 DEF CurrentTx

\* Uint64 arithmetic stays in range.
LEMMA UintArithmetic ==
    ASSUME NEW m \in Uint64, NEW n \in Uint64
    PROVE  /\ Inc(m) \in Uint64
           /\ Plus(m, n) \in Uint64
           /\ n <= m => m - n \in Uint64
           /\ m < MaxUint64 => Inc(m) = m + 1
           /\ m + n <= MaxUint64 => Plus(m, n) = m + n
BY MaxUint64Assumption DEF Uint64, Inc, Plus
-----------------------------------------------------------------------------
(* What a transfer does.                                                   *)

\* The sender's account after the debit, and all the others.
LEMMA DebitEffect ==
    ASSUME NEW acc, IsAccounts(acc), NEW tx \in Transaction, CanApply(acc, tx)
    PROVE  /\ IsAccounts(Debit(acc, tx))
           /\ DOMAIN Debit(acc, tx) = DOMAIN acc
           /\ tx.from \in DOMAIN acc
           /\ Debit(acc, tx)[tx.from].balance = acc[tx.from].balance - tx.value
           /\ Debit(acc, tx)[tx.from].nonce = Inc(acc[tx.from].nonce)
           /\ \A a \in DOMAIN acc : a # tx.from => Debit(acc, tx)[a] = acc[a]
<1>1. acc[tx.from] \in AccountState
  BY MapEntry DEF IsAccounts, CanApply, Has
<1>2. [balance |-> acc[tx.from].balance - tx.value,
       nonce |-> Inc(acc[tx.from].nonce)] \in AccountState
  BY <1>1, TransactionFields, UintArithmetic DEF AccountState, CanApply
<1> QED
  BY <1>1, <1>2 DEF Debit, IsAccounts, IsMap, CanApply, Has

\* The receiver's account after the credit, and all the others.
LEMMA CreditEffect ==
    ASSUME NEW acc, IsAccounts(acc), NEW tx \in Transaction
    PROVE  /\ IsAccounts(Credit(acc, tx))
           /\ DOMAIN Credit(acc, tx) = (DOMAIN acc) \cup {tx.to}
           /\ Credit(acc, tx)[tx.to].nonce
                = IF Has(acc, tx.to) THEN acc[tx.to].nonce ELSE 0
           /\ Credit(acc, tx)[tx.to].balance
                = Plus(IF Has(acc, tx.to) THEN acc[tx.to].balance ELSE 0,
                       tx.value)
           /\ \A a \in DOMAIN acc : a # tx.to => Credit(acc, tx)[a] = acc[a]
<1> DEFINE r == IF Has(acc, tx.to) THEN acc[tx.to] ELSE [balance |-> 0, nonce |-> 0]
           r1 == [r EXCEPT !.balance = Plus(r.balance, tx.value)]
<1>1. tx.to \in AccountAddress /\ tx.value \in Uint64
  BY TransactionFields
<1>2. r \in AccountState
  <2>1. CASE Has(acc, tx.to)
    BY <2>1, MapEntry DEF IsAccounts, Has
  <2>2. CASE ~Has(acc, tx.to)
    BY <2>2, MaxUint64Assumption DEF AccountState, Uint64
  <2> QED
    BY <2>1, <2>2
<1>3. Plus(r.balance, tx.value) \in Uint64
  BY <1>1, <1>2, UintArithmetic DEF AccountState
<1>4. /\ r1 \in AccountState
      /\ r1.nonce = r.nonce
      /\ r1.balance = Plus(r.balance, tx.value)
  BY <1>2, <1>3 DEF AccountState
<1>5. Credit(acc, tx) = Put(acc, tx.to, r1)
  BY DEF Credit
<1>6. IsAccounts(Put(acc, tx.to, r1))
  BY <1>1, <1>4, PutIsMap DEF IsAccounts
<1>7. /\ DOMAIN Put(acc, tx.to, r1) = (DOMAIN acc) \cup {tx.to}
      /\ Put(acc, tx.to, r1)[tx.to] = r1
      /\ \A a \in DOMAIN acc : a # tx.to => Put(acc, tx.to, r1)[a] = acc[a]
  BY DEF Put
<1> QED
  BY <1>4, <1>5, <1>6, <1>7

\* The nonces after a transfer: one more for the sender, none changed else.
LEMMA TransferEffect ==
    ASSUME NEW acc, IsAccounts(acc), NEW tx \in Transaction, CanApply(acc, tx)
    PROVE  /\ IsAccounts(Transfer(acc, tx))
           /\ DOMAIN Transfer(acc, tx) = (DOMAIN acc) \cup {tx.to}
           /\ Transfer(acc, tx)[tx.from].nonce = Inc(acc[tx.from].nonce)
           /\ \A a \in DOMAIN acc :
                  a # tx.from => Transfer(acc, tx)[a].nonce = acc[a].nonce
<1> DEFINE d == Debit(acc, tx)
<1>1. /\ IsAccounts(d)
      /\ DOMAIN d = DOMAIN acc
      /\ d[tx.from].nonce = Inc(acc[tx.from].nonce)
      /\ \A a \in DOMAIN acc : a # tx.from => d[a] = acc[a]
      /\ tx.from \in DOMAIN acc
  BY DebitEffect
<1> HIDE DEF d
<1>2. /\ IsAccounts(Credit(d, tx))
      /\ DOMAIN Credit(d, tx) = (DOMAIN d) \cup {tx.to}
      /\ Credit(d, tx)[tx.to].nonce = IF Has(d, tx.to) THEN d[tx.to].nonce ELSE 0
      /\ \A a \in DOMAIN d : a # tx.to => Credit(d, tx)[a] = d[a]
  BY <1>1, CreditEffect
<1>3. Transfer(acc, tx) = Credit(d, tx)
  BY DEF Transfer, d
<1> QED
  BY <1>1, <1>2, <1>3 DEF Has

\* A transfer moves the amount: what the sender has less, the receiver has
\* more, nobody else is touched, and a transfer to oneself changes nothing.
THEOREM TransferMovesCoins ==
    ASSUME NEW acc, IsAccounts(acc), NEW tx \in Transaction, CanApply(acc, tx),
           Has(acc, tx.to),
           acc[tx.to].balance + tx.value <= MaxUint64
    PROVE  LET new == Transfer(acc, tx)
           IN  /\ tx.from # tx.to =>
                     /\ new[tx.from].balance + tx.value = acc[tx.from].balance
                     /\ new[tx.to].balance = acc[tx.to].balance + tx.value
               /\ tx.from = tx.to =>
                     new[tx.from].balance = acc[tx.from].balance
               /\ \A a \in DOMAIN acc \ {tx.from, tx.to} : new[a] = acc[a]
<1> DEFINE d == Debit(acc, tx)
<1>1. /\ IsAccounts(d)
      /\ DOMAIN d = DOMAIN acc
      /\ d[tx.from].balance = acc[tx.from].balance - tx.value
      /\ \A a \in DOMAIN acc : a # tx.from => d[a] = acc[a]
      /\ tx.from \in DOMAIN acc
  BY DebitEffect
<1> HIDE DEF d
<1>2. /\ acc[tx.from].balance \in Uint64
      /\ acc[tx.to].balance \in Uint64
      /\ d[tx.to].balance \in Uint64
      /\ tx.value \in Uint64
      /\ tx.value <= acc[tx.from].balance
  <2>1. /\ acc[tx.from] \in AccountState
        /\ acc[tx.to] \in AccountState
        /\ d[tx.to] \in AccountState
    BY <1>1, MapEntry DEF Has, IsAccounts
  <2>2. acc[tx.from].balance >= tx.value
    BY DEF CanApply
  <2> QED
    BY <2>1, <2>2, TransactionFields, MaxUint64Assumption DEF AccountState, Uint64
<1>3. /\ Credit(d, tx)[tx.to].balance = Plus(d[tx.to].balance, tx.value)
      /\ \A a \in DOMAIN d : a # tx.to => Credit(d, tx)[a] = d[a]
  BY <1>1, CreditEffect DEF Has
<1>4. d[tx.to].balance + tx.value <= MaxUint64
  BY <1>1, <1>2, MaxUint64Assumption DEF Has, Uint64
<1>5. Credit(d, tx)[tx.to].balance = d[tx.to].balance + tx.value
  BY <1>2, <1>3, <1>4, UintArithmetic
<1>6. Transfer(acc, tx) = Credit(d, tx)
  BY DEF Transfer, d
<1> QED
  BY <1>1, <1>2, <1>3, <1>5, <1>6, MaxUint64Assumption DEF Has, Uint64
-----------------------------------------------------------------------------
(* The coins of all accounts together.                                     *)

\* The balances that are summed up.
Balances(acc) == [a \in DOMAIN acc |-> acc[a].balance]

\* Accounts are finitely many, and their balances are natural numbers.
LEMMA BalancesType ==
    ASSUME NEW acc, IsAccounts(acc)
    PROVE  /\ IsFiniteSet(DOMAIN acc)
           /\ DOMAIN Balances(acc) = DOMAIN acc
           /\ \A a \in DOMAIN acc : Balances(acc)[a] \in Nat
                                    /\ Balances(acc)[a] \in Int
                                    /\ Balances(acc)[a] = acc[a].balance
           /\ TotalBalance(acc) = SumFunctionOnSet(Balances(acc), DOMAIN acc)
           /\ TotalBalance(acc) \in Nat
<1>1. DOMAIN acc \subseteq AccountAddress
  BY DEF IsAccounts, IsMap
<1>2. IsFiniteSet(DOMAIN acc)
  BY <1>1, AddressAssumption, FS_AddElement, FS_Subset DEF AccountAddress
<1>3. \A a \in DOMAIN acc : acc[a] \in AccountState
  BY MapEntry DEF IsAccounts
<1>4. \A a \in DOMAIN acc : Balances(acc)[a] \in Nat
  BY <1>3, MaxUint64Assumption DEF Balances, AccountState, Uint64
<1>5. TotalBalance(acc) = SumFunctionOnSet(Balances(acc), DOMAIN acc)
  BY DEF TotalBalance, SumFunction, Balances
<1>6. TotalBalance(acc) \in Nat
  BY <1>2, <1>4, <1>5, SumNatural
<1> QED
  BY <1>2, <1>4, <1>5, <1>6 DEF Balances

\* The balance of one account, which may be new, and the total of the others.
BalanceOf(acc, a) == IF Has(acc, a) THEN acc[a].balance ELSE 0
RestOf(acc, a) == SumFunctionOnSet(Balances(acc), (DOMAIN acc) \ {a})

LEMMA TotalSplit ==
    ASSUME NEW acc, IsAccounts(acc), NEW a
    PROVE  /\ TotalBalance(acc) = BalanceOf(acc, a) + RestOf(acc, a)
           /\ BalanceOf(acc, a) \in Nat
           /\ RestOf(acc, a) \in Nat
<1> DEFINE D == DOMAIN acc
           f == Balances(acc)
<1>1. /\ IsFiniteSet(D)
      /\ \A x \in D : f[x] \in Nat
      /\ \A x \in D : f[x] \in Int
      /\ \A x \in D : f[x] = acc[x].balance
      /\ TotalBalance(acc) = SumFunctionOnSet(f, D)
      /\ TotalBalance(acc) \in Nat
  BY BalancesType
<1>2. RestOf(acc, a) = SumFunctionOnSet(f, D \ {a})
  BY DEF RestOf
<1>3. BalanceOf(acc, a) = IF a \in D THEN acc[a].balance ELSE 0
  BY DEF BalanceOf, Has
<1> HIDE DEF D, f
<1>4. IsFiniteSet(D \ {a}) /\ \A x \in D \ {a} : f[x] \in Nat
  BY <1>1, FS_Subset
<1>5. SumFunctionOnSet(f, D \ {a}) \in Nat
  BY <1>4, SumNatural
<1>6. CASE a \in D
  <2>1. SumFunctionOnSet(f, D) = f[a] + SumFunctionOnSet(f, D \ {a})
    BY <1>1, <1>6, SumRest
  <2> QED
    BY <1>1, <1>2, <1>3, <1>5, <1>6, <2>1
<1>7. CASE a \notin D
  <2>1. D \ {a} = D
    BY <1>7
  <2> QED
    BY <1>1, <1>2, <1>3, <1>5, <1>7, <2>1
<1> QED
  BY <1>6, <1>7

\* The others are not touched.
LEMMA RestSame ==
    ASSUME NEW old, IsAccounts(old), NEW new, IsAccounts(new), NEW a,
           (DOMAIN old) \ {a} = (DOMAIN new) \ {a},
           \A x \in (DOMAIN old) \ {a} : old[x] = new[x]
    PROVE  RestOf(old, a) = RestOf(new, a)
<1> DEFINE D == (DOMAIN old) \ {a}
           f == Balances(old)
           g == Balances(new)
<1>1. IsFiniteSet(D)
  BY BalancesType, FS_Subset
<1>2. /\ \A x \in DOMAIN old : f[x] \in Int /\ f[x] = old[x].balance
      /\ \A x \in DOMAIN new : g[x] = new[x].balance
  BY BalancesType
<1>3. \A x \in D : f[x] \in Int /\ f[x] = g[x]
  BY <1>2
<1>4. RestOf(old, a) = SumFunctionOnSet(f, D) /\ RestOf(new, a) = SumFunctionOnSet(g, D)
  BY DEF RestOf
<1> HIDE DEF D, f, g
<1>5. SumFunctionOnSet(f, D) = SumFunctionOnSet(g, D)
  BY <1>1, <1>3, SumSame
<1> QED
  BY <1>4, <1>5

\* A transfer neither creates nor loses coins: what the sender pays, the
\* receiver gets, be it the sender itself or a new account, and the sum of two
\* balances does not overflow when all of them together do not.
THEOREM TransferKeepsSupply ==
    ASSUME NEW acc, IsAccounts(acc), NEW tx \in Transaction, CanApply(acc, tx),
           TotalBalance(acc) <= MaxUint64
    PROVE  TotalBalance(Transfer(acc, tx)) = TotalBalance(acc)
<1> DEFINE d == Debit(acc, tx)
           new == Credit(d, tx)
<1>1. /\ IsAccounts(d)
      /\ DOMAIN d = DOMAIN acc
      /\ d[tx.from].balance = acc[tx.from].balance - tx.value
      /\ \A a \in DOMAIN acc : a # tx.from => d[a] = acc[a]
      /\ tx.from \in DOMAIN acc
  BY DebitEffect
<1>2. tx.value \in Uint64 /\ tx.value \in Nat /\ tx.value <= acc[tx.from].balance
  <2>1. acc[tx.from] \in AccountState
    BY <1>1, MapEntry DEF IsAccounts
  <2> QED
    BY <2>1, TransactionFields, MaxUint64Assumption DEF AccountState, Uint64, CanApply
<1>3. Transfer(acc, tx) = new
  BY DEF Transfer
<1> HIDE DEF d
<1>4. /\ IsAccounts(new)
      /\ DOMAIN new = (DOMAIN d) \cup {tx.to}
      /\ new[tx.to].balance = Plus(BalanceOf(d, tx.to), tx.value)
      /\ \A a \in DOMAIN d : a # tx.to => new[a] = d[a]
  BY <1>1, CreditEffect DEF BalanceOf
<1> HIDE DEF new
<1>5. TotalBalance(acc) = TotalBalance(d) + tx.value
  <2>1. RestOf(acc, tx.from) = RestOf(d, tx.from)
    BY <1>1, RestSame
  <2>2. /\ TotalBalance(acc) = BalanceOf(acc, tx.from) + RestOf(acc, tx.from)
        /\ BalanceOf(acc, tx.from) \in Nat
        /\ RestOf(acc, tx.from) \in Nat
    BY TotalSplit
  <2>3. TotalBalance(d) = BalanceOf(d, tx.from) + RestOf(d, tx.from)
    BY <1>1, TotalSplit
  <2>4. BalanceOf(d, tx.from) = BalanceOf(acc, tx.from) - tx.value
    BY <1>1 DEF BalanceOf, Has
  <2> QED
    BY <1>2, <2>1, <2>2, <2>3, <2>4
<1>6. /\ TotalBalance(d) = BalanceOf(d, tx.to) + RestOf(d, tx.to)
      /\ BalanceOf(d, tx.to) \in Nat
      /\ RestOf(d, tx.to) \in Nat
  BY <1>1, TotalSplit
<1>7. new[tx.to].balance = BalanceOf(d, tx.to) + tx.value
  <2>1. BalanceOf(d, tx.to) + tx.value <= MaxUint64
    BY <1>2, <1>5, <1>6, MaxUint64Assumption
  <2>2. BalanceOf(d, tx.to) \in Uint64
    BY <1>2, <1>6, <2>1, MaxUint64Assumption DEF Uint64
  <2> QED
    BY <1>2, <1>4, <2>1, <2>2, UintArithmetic
<1>8. RestOf(d, tx.to) = RestOf(new, tx.to)
  BY <1>1, <1>4, RestSame
<1>9. TotalBalance(new) = BalanceOf(new, tx.to) + RestOf(new, tx.to)
  BY <1>4, TotalSplit
<1>10. BalanceOf(new, tx.to) = new[tx.to].balance
  BY <1>4 DEF BalanceOf, Has
<1> QED
  BY <1>2, <1>3, <1>5, <1>6, <1>7, <1>8, <1>9, <1>10
-----------------------------------------------------------------------------
(* Type correctness.                                                       *)

\* Whatever the order of the iteration, the root is a root.
LEMMA RootType ==
    ASSUME NEW acc, IsAccounts(acc), NEW order \in IterationOrders(acc)
    PROVE  CalculateStateRoot(acc, order) \in Root
<1> DEFINE n == Cardinality(DOMAIN acc)
<1>1. DOMAIN acc \subseteq AccountAddress
  BY DEF IsAccounts, IsMap
<1>2. IsFiniteSet(AccountAddress)
  BY AddressAssumption, FS_AddElement DEF AccountAddress
<1>3. n \in Nat
  BY <1>1, <1>2, FS_Subset, FS_CardinalityType
<1>4. order \in [1 .. n -> AccountAddress]
  BY <1>1 DEF IterationOrders
<1> HIDE DEF n
<1>5. CalculateStateRoot(acc, order)
        = [i \in 1 .. n |-> <<order[i], << >> >>]
  BY <1>4 DEF CalculateStateRoot, SerializeAccountState
<1>6. [i \in 1 .. n |-> <<order[i], << >> >>]
        \in [1 .. n -> AccountAddress \X {<< >>}]
  BY <1>4
<1> QED
  BY <1>3, <1>5, <1>6 DEF Root

\* The end of UpdateState keeps the types.
LEMMA CommitTypeOK ==
    ASSUME TypeOK, NEW now \in Time, Applied,
           NEW order \in IterationOrders(update.copy), CommitUpdate(order, now)
    PROVE  TypeOK'
<1> DEFINE height == update.block.height
           root   == CalculateStateRoot(update.copy, order)
           snapshot == [root       |-> root,
                        compressed |-> height % CompressEvery = 0,
                        archived   |-> height % ArchiveEvery = 0]
<1>1. /\ IsUpdate(update)
      /\ IsAccounts(update.copy)
      /\ height \in Uint64
      /\ root \in Root
      /\ update.log \in Seq(Transaction)
  BY BlockFields, RootType DEF TypeOK, Applied, IsUpdate
<1>2. snapshot \in Snapshot
  BY <1>1 DEF Snapshot
<1>3. /\ accounts' = update.copy /\ stateRoot' = root /\ timestamp' = now
      /\ stateHistory' = Put(stateHistory, height, snapshot)
      /\ stateDB' = SaveState(WithCompressed(stateDB, height, now), root, update.copy)
      /\ archivedData' = WithArchived(height)
      /\ stateAt' = Put(stateAt, height, update.copy)
      /\ update' = NoUpdate /\ UNCHANGED panicked
      /\ committed' = update.log
  BY DEF CommitUpdate
<1> HIDE DEF height, root, snapshot
<1>4. IsMap(stateHistory', Uint64, Snapshot)
  BY <1>1, <1>2, <1>3, PutIsMap DEF TypeOK
<1>5. DOMAIN stateAt' = DOMAIN stateHistory'
  BY <1>3 DEF TypeOK, Put
<1>6. IsDatabase(stateDB')
  <2> DEFINE db == WithCompressed(stateDB, height, now)
  <2>1. IsDatabase(db)
    BY DEF TypeOK, IsDatabase, WithCompressed, Put
  <2> HIDE DEF db
  <2>2. stateDB' = [db EXCEPT !.root = root,
                             !.accounts = db.accounts \cup DOMAIN update.copy]
    BY <1>3 DEF SaveState, db
  <2>3. DOMAIN update.copy \subseteq AccountAddress
    BY <1>1 DEF IsAccounts, IsMap
  <2> QED
    BY <1>1, <2>1, <2>2, <2>3 DEF IsDatabase
<1>7. DOMAIN archivedData' \subseteq Time
  BY <1>3 DEF TypeOK, WithArchived, Put
<1> QED
  BY <1>1, <1>3, <1>4, <1>5, <1>6, <1>7 DEF TypeOK

\* The variables have their types initially ...
LEMMA TypeCorrectInit == Init => TypeOK
<1> SUFFICES ASSUME Init PROVE TypeOK
  OBVIOUS
<1>1. IsMap(stateHistory, Uint64, Snapshot)
  BY EmptyIsMap DEF Init
<1>2. DOMAIN stateHistory = {} /\ DOMAIN stateAt = {} /\ DOMAIN archivedData = {}
  BY DEF Init, EmptyMap
<1>3. IsDatabase(stateDB)
  BY DEF Init, IsDatabase, EmptyMap, Root
<1>4. IsAccounts(accounts)
  BY StateAssumption DEF Init
<1>5. stateRoot \in Root /\ timestamp \in Time /\ update = NoUpdate
  BY DEF Init, Root
<1>6. committed \in Seq(Transaction)
  BY DEF Init
<1>7. panicked \in BOOLEAN
  BY DEF Init
<1> QED
  BY <1>1, <1>2, <1>3, <1>4, <1>5, <1>6, <1>7 DEF TypeOK

\* ... and every step preserves them.
LEMMA TypeCorrectNext == TypeOK /\ [Next]_vars => TypeOK'
<1> SUFFICES ASSUME TypeOK, [Next]_vars PROVE TypeOK'
  OBVIOUS
<1>1. CASE \E b \in Block : BeginUpdate(b)
  <2> PICK b \in Block : BeginUpdate(b)
    BY <1>1
  <2>1. IsUpdate(update')
    BY BlockFields DEF BeginUpdate, IsUpdate, TypeOK
  <2> QED
    BY <2>1 DEF TypeOK, BeginUpdate, store, history
<1>2. CASE ApplyTransaction
  <2>1. IsUpdate(update) /\ CurrentTx \in Transaction
        /\ update.next \in 1 .. Len(update.block.txs)
        /\ update.block.txs \in Seq(Transaction)
    BY <1>2, CurrentTxType, BlockFields
       DEF TypeOK, ApplyTransaction, Applying, IsUpdate
  <2>2. IsAccounts(Transfer(update.copy, CurrentTx))
    BY <1>2, <2>1, TransferEffect DEF ApplyTransaction, IsUpdate
  <2>3. update' = [block |-> update.block, next |-> update.next + 1,
                   copy |-> Transfer(update.copy, CurrentTx),
                   log |-> Append(update.log, CurrentTx)]
    BY <1>2, <2>1 DEF ApplyTransaction, IsUpdate
  <2>4. IsUpdate(update')
    BY <2>1, <2>2, <2>3 DEF IsUpdate
  <2> QED
    BY <1>2, <2>4 DEF TypeOK, ApplyTransaction, store, history
<1>3. CASE AbortUpdate
  BY <1>3 DEF TypeOK, AbortUpdate, store, history
<1>4. CASE Panic
  BY <1>4 DEF TypeOK, Panic, store, history
<1>5. CASE \E now \in Time : FailToArchive(now)
  <2> PICK now \in Time : FailToArchive(now)
    BY <1>5
  <2>1. IsDatabase(stateDB')
    BY DEF FailToArchive, TypeOK, IsDatabase, WithCompressed, Put
  <2> QED
    BY <2>1 DEF TypeOK, FailToArchive, history
<1>6. CASE Applied /\ \E now \in Time, order \in IterationOrders(update.copy) :
                         CommitUpdate(order, now)
  BY <1>6, CommitTypeOK
<1>7. CASE UNCHANGED vars
  BY <1>7 DEF TypeOK, vars, store, history
<1> QED
  BY <1>1, <1>2, <1>3, <1>4, <1>5, <1>6, <1>7 DEF Next, Proceed

\* The variables keep their types in every behaviour.
THEOREM TypeCorrect == Spec => []TypeOK
BY TypeCorrectInit, TypeCorrectNext, PTL DEF Spec
-----------------------------------------------------------------------------
(* The inductive invariant.                                                *)

\* Applying a transaction keeps the nonces of the log below the counters and
\* the log free of repetitions.
LEMMA SpentStep ==
    ASSUME NEW acc, IsAccounts(acc), NEW log \in Seq(Transaction),
           SpentBelow(acc, log), Unrepeated(log),
           NEW tx \in Transaction, CanApply(acc, tx)
    PROVE  /\ SpentBelow(Transfer(acc, tx), Append(log, tx))
           /\ Unrepeated(Append(log, tx))
<1> DEFINE new == Transfer(acc, tx)
           l == Append(log, tx)
           n == Len(log)
<1>1. /\ n \in Nat
      /\ DOMAIN log = 1 .. n
      /\ DOMAIN l = 1 .. n + 1
      /\ \A i \in 1 .. n : l[i] = log[i]
      /\ l[n + 1] = tx
  OBVIOUS
<1>2. /\ DOMAIN new = (DOMAIN acc) \cup {tx.to}
      /\ new[tx.from].nonce = Inc(acc[tx.from].nonce)
      /\ \A a \in DOMAIN acc : a # tx.from => new[a].nonce = acc[a].nonce
  BY TransferEffect
<1>3. /\ tx.from \in DOMAIN acc
      /\ tx.nonce = acc[tx.from].nonce
      /\ tx.nonce \in Uint64
  BY TransactionFields DEF CanApply, Has
<1>4. \A i \in 1 .. n : log[i] \in Transaction /\ log[i].nonce \in Uint64
  BY <1>1, TransactionFields
<1>5. \A a \in DOMAIN acc : acc[a].nonce \in Uint64
  <2>1. \A a \in DOMAIN acc : acc[a] \in AccountState
    BY MapEntry DEF IsAccounts
  <2> QED
    BY <2>1 DEF AccountState
<1> HIDE DEF new, l, n
<1>6. SUFFICES ASSUME \A i \in 1 .. n + 1 : l[i].nonce < MaxUint64
               PROVE  /\ \A i \in 1 .. n + 1 :
                            l[i].from \in DOMAIN new
                            /\ l[i].nonce < new[l[i].from].nonce
                      /\ \A i, j \in 1 .. n + 1 :
                            l[i].from = l[j].from /\ l[i].nonce = l[j].nonce
                               => i = j
  BY <1>1 DEF SpentBelow, Unrepeated, Has, new, l
<1>7. \A i \in 1 .. n : log[i].nonce < MaxUint64
  BY <1>1, <1>6
<1>8. /\ \A i \in 1 .. n : /\ log[i].from \in DOMAIN acc
                          /\ log[i].nonce < acc[log[i].from].nonce
      /\ \A i, j \in 1 .. n :
            log[i].from = log[j].from /\ log[i].nonce = log[j].nonce => i = j
  BY <1>1, <1>7 DEF SpentBelow, Unrepeated, Has
<1>9. tx.nonce < MaxUint64 /\ new[tx.from].nonce = tx.nonce + 1
  <2>1. tx.nonce < MaxUint64
    BY <1>1, <1>6
  <2>2. Inc(tx.nonce) = tx.nonce + 1
    BY <1>3, <2>1, UintArithmetic
  <2> QED
    BY <1>2, <1>3, <2>1, <2>2
<1>10. \A i \in 1 .. n + 1 : /\ l[i].from \in DOMAIN new
                            /\ l[i].nonce < new[l[i].from].nonce
  <2> TAKE i \in 1 .. n + 1
  <2>1. CASE i = n + 1
    BY <2>1, <1>1, <1>2, <1>3, <1>9 DEF Uint64
  <2>2. CASE i \in 1 .. n /\ log[i].from = tx.from
    BY <2>2, <1>1, <1>2, <1>3, <1>4, <1>8, <1>9 DEF Uint64
  <2>3. CASE i \in 1 .. n /\ log[i].from # tx.from
    BY <2>3, <1>1, <1>2, <1>8
  <2> QED
    BY <1>1, <2>1, <2>2, <2>3
<1>11. \A i, j \in 1 .. n + 1 :
          l[i].from = l[j].from /\ l[i].nonce = l[j].nonce => i = j
  <2> SUFFICES ASSUME NEW i \in 1 .. n + 1, NEW j \in 1 .. n + 1,
                      l[i].from = l[j].from, l[i].nonce = l[j].nonce, i # j
               PROVE  FALSE
    OBVIOUS
  <2>1. \A k \in 1 .. n : log[k].from = tx.from => log[k].nonce # tx.nonce
    BY <1>3, <1>4, <1>5, <1>8, MaxUint64Assumption DEF Uint64
  <2>2. CASE i \in 1 .. n /\ j \in 1 .. n
    BY <2>2, <1>1, <1>8
  <2>3. CASE i = n + 1 /\ j \in 1 .. n
    BY <2>1, <2>3, <1>1
  <2>4. CASE i \in 1 .. n /\ j = n + 1
    BY <2>1, <2>4, <1>1
  <2> QED
    BY <1>1, <2>2, <2>3, <2>4
<1> QED
  BY <1>10, <1>11

\* One more transaction of the block in the log.
LEMMA PrefixStep ==
    ASSUME NEW c \in Seq(Transaction), NEW t \in Seq(Transaction),
           NEW n \in 1 .. Len(t)
    PROVE  Append(c \o SubSeq(t, 1, n - 1), t[n]) = c \o SubSeq(t, 1, n)
OBVIOUS

\* A whole block of transactions.
LEMMA WholeSeq ==
    ASSUME NEW t \in Seq(Transaction)
    PROVE  SubSeq(t, 1, Len(t)) = t /\ SubSeq(t, 1, 0) = << >>
OBVIOUS

\* The invariant holds initially.
LEMMA InitInv == Init => IndInv
<1> SUFFICES ASSUME Init PROVE IndInv
  OBVIOUS
<1>1. TypeOK
  BY TypeCorrectInit
<1>2. NoncesSpent /\ NoReplay /\ update = NoUpdate
  BY DEF Init, NoncesSpent, SpentBelow, NoReplay, Unrepeated
<1>3. LogFollows /\ DatabaseCurrent /\ stateDB.accounts = {}
  BY DEF Init, LogFollows, DatabaseCurrent
<1> QED
  BY <1>1, <1>2, <1>3 DEF IndInv

\* The end of UpdateState preserves the invariant.
LEMMA CommitInv ==
    ASSUME IndInv, TypeOK', NEW now \in Time, Applied,
           NEW order \in IterationOrders(update.copy), CommitUpdate(order, now)
    PROVE  IndInv'
<1> DEFINE height == update.block.height
           root   == CalculateStateRoot(update.copy, order)
           db     == WithCompressed(stateDB, height, now)
<1>1. /\ accounts' = update.copy /\ committed' = update.log
      /\ stateRoot' = root /\ update' = NoUpdate
      /\ stateDB' = SaveState(db, root, update.copy)
      /\ update # NoUpdate
  BY DEF CommitUpdate, Applied
<1>2. db = [root |-> db.root, accounts |-> db.accounts,
            compressed |-> db.compressed]
      /\ db.accounts = stateDB.accounts
  BY DEF IndInv, TypeOK, IsDatabase, WithCompressed
<1> HIDE DEF height, root, db
<1>3. stateDB'.root = root
      /\ stateDB'.accounts = stateDB.accounts \cup DOMAIN update.copy
  BY <1>1, <1>2 DEF SaveState
<1>4. stateDB'.accounts = DOMAIN accounts'
  BY <1>1, <1>3 DEF IndInv
<1>5. NoncesSpent' /\ NoReplay'
  BY <1>1 DEF IndInv, NoncesSpent, SpentBelow, NoReplay, Unrepeated, Has
<1>6. LogFollows' /\ DatabaseCurrent'
  BY <1>1, <1>3, <1>4 DEF LogFollows, DatabaseCurrent
<1> QED
  BY <1>1, <1>4, <1>5, <1>6 DEF IndInv

\* Every step preserves the invariant.
LEMMA NextInv == IndInv /\ [Next]_vars => IndInv'
<1> SUFFICES ASSUME IndInv, [Next]_vars PROVE IndInv'
  OBVIOUS
<1>1. TypeOK /\ TypeOK'
  BY TypeCorrectNext DEF IndInv
<1>2. CASE \E b \in Block : BeginUpdate(b)
  <2> PICK b \in Block : BeginUpdate(b)
    BY <1>2
  <2>1. /\ update' = [block |-> b, next |-> 1, copy |-> accounts, log |-> committed]
        /\ UNCHANGED <<accounts, stateRoot, stateHistory, stateDB, committed>>
    BY DEF BeginUpdate, store, history
  <2>2. b.txs \in Seq(Transaction) /\ committed \in Seq(Transaction)
    BY <1>1, BlockFields DEF TypeOK
  <2>3. committed = committed \o SubSeq(b.txs, 1, 1 - 1)
    BY <2>2
  <2>4. LogFollows'
    BY <2>1, <2>3 DEF LogFollows
  <2> QED
    BY <1>1, <2>1, <2>4 DEF IndInv, NoncesSpent, SpentBelow, NoReplay,
       Unrepeated, DatabaseCurrent, Has
<1>3. CASE ApplyTransaction
  <2>1. /\ update # NoUpdate
        /\ CurrentTx \in Transaction
        /\ update.next \in 1 .. Len(update.block.txs)
        /\ CanApply(update.copy, CurrentTx)
        /\ UNCHANGED <<accounts, stateRoot, stateHistory, stateDB, committed>>
    BY <1>1, <1>3, CurrentTxType DEF ApplyTransaction, Applying, store, history
  <2>2. IsUpdate(update) /\ update.block.txs \in Seq(Transaction)
    BY <1>1, <2>1, BlockFields DEF TypeOK, IsUpdate
  <2>3. update' = [block |-> update.block, next |-> update.next + 1,
                   copy |-> Transfer(update.copy, CurrentTx),
                   log |-> Append(update.log, CurrentTx)]
    BY <1>3, <2>2 DEF ApplyTransaction, IsUpdate
  <2>4. /\ SpentBelow(Transfer(update.copy, CurrentTx), Append(update.log, CurrentTx))
        /\ Unrepeated(Append(update.log, CurrentTx))
    BY <2>1, <2>2, SpentStep DEF IndInv, NoncesSpent, IsUpdate
  <2>5. NoncesSpent' /\ NoReplay' /\ Unrepeated(update'.log)
    <3>1. SpentBelow(update'.copy, update'.log) /\ Unrepeated(update'.log)
      BY <2>3, <2>4
    <3>2. SpentBelow(accounts, committed)' /\ NoReplay'
      BY <2>1 DEF IndInv, NoncesSpent, NoReplay, SpentBelow, Unrepeated, Has
    <3> QED
      BY <3>1, <3>2 DEF NoncesSpent
  <2>6. LogFollows'
    <3>1. Append(update.log, CurrentTx)
            = committed \o SubSeq(update.block.txs, 1, update.next)
      <4>1. update.log = committed \o SubSeq(update.block.txs, 1, update.next - 1)
        BY <2>1 DEF IndInv, LogFollows
      <4>2. committed \in Seq(Transaction)
        BY <1>1 DEF TypeOK
      <4>3. update.block.txs \in Seq(Transaction)
            /\ update.next \in 1 .. Len(update.block.txs)
        BY <2>1, <2>2
      <4>4. CurrentTx = update.block.txs[update.next]
        BY DEF CurrentTx
      <4> QED
        BY <4>1, <4>2, <4>3, <4>4, PrefixStep
    <3>2. (update.next + 1) - 1 = update.next
      BY <2>1
    <3> QED
      BY <2>1, <2>3, <3>1, <3>2 DEF LogFollows
  <2>7. DOMAIN accounts \subseteq DOMAIN Transfer(update.copy, CurrentTx)
    <3>1. DOMAIN Transfer(update.copy, CurrentTx)
            = (DOMAIN update.copy) \cup {CurrentTx.to}
      BY <2>1, <2>2, TransferEffect DEF IsUpdate
    <3> QED
      BY <2>1, <3>1 DEF IndInv
  <2> QED
    BY <1>1, <2>1, <2>3, <2>5, <2>6, <2>7 DEF IndInv, DatabaseCurrent
<1>4. CASE AbortUpdate \/ Panic
  BY <1>1, <1>4 DEF AbortUpdate, Panic, store, history, IndInv, NoncesSpent,
     SpentBelow, NoReplay, Unrepeated, LogFollows, DatabaseCurrent, Has
<1>5. CASE \E now \in Time : FailToArchive(now)
  <2> PICK now \in Time : FailToArchive(now)
    BY <1>5
  <2>1. stateDB'.root = stateDB.root /\ stateDB'.accounts = stateDB.accounts
    BY <1>1 DEF FailToArchive, WithCompressed, TypeOK, IsDatabase
  <2> QED
    BY <1>1, <2>1 DEF FailToArchive, history, IndInv, NoncesSpent,
       SpentBelow, NoReplay, Unrepeated, LogFollows, DatabaseCurrent, Has
<1>6. CASE Applied /\ \E now \in Time, order \in IterationOrders(update.copy) :
                         CommitUpdate(order, now)
  BY <1>1, <1>6, CommitInv
<1>7. CASE UNCHANGED vars
  BY <1>1, <1>7 DEF vars, store, history, IndInv, NoncesSpent, SpentBelow,
     NoReplay, Unrepeated, LogFollows, DatabaseCurrent, Has
<1> QED
  BY <1>2, <1>3, <1>4, <1>5, <1>6, <1>7 DEF Next, Proceed
-----------------------------------------------------------------------------
(* What the archive and the roots say of the past.                         *)

\* An account map without accounts is the empty one, and nobody can pay in it.
LEMMA NoAccounts ==
    ASSUME NEW acc, IsAccounts(acc)
    PROVE  /\ DOMAIN acc = {} => acc = EmptyMap
           /\ acc = EmptyMap => \A tx : ~CanApply(acc, tx)
BY DEF IsAccounts, IsMap, EmptyMap, CanApply, Has

\* Whatever the order of the iteration, the root tells which accounts there are.
LEMMA RootTells ==
    ASSUME NEW acc, IsAccounts(acc), NEW order \in IterationOrders(acc)
    PROVE  RootAccounts(CalculateStateRoot(acc, order)) = DOMAIN acc
<1> DEFINE D == DOMAIN acc
           n == Cardinality(D)
           root == CalculateStateRoot(acc, order)
<1>1. IsFiniteSet(D) /\ n \in Nat
  BY BalancesType, FS_CardinalityType
<1>2. /\ order \in [1 .. n -> D]
      /\ \A i, j \in DOMAIN order : order[i] = order[j] => i = j
  BY DEF IterationOrders
<1>3. /\ DOMAIN root = DOMAIN order
      /\ \A i \in DOMAIN order : root[i][1] = order[i]
  BY DEF CalculateStateRoot
<1> HIDE DEF D, n, root
<1>4. IsFiniteSet(1 .. n) /\ Cardinality(1 .. n) = n
  BY <1>1, FS_Interval
<1>5. order \in Injection(1 .. n, D)
  BY <1>2 DEF Injection, IsInjective
<1>6. order \in Surjection(1 .. n, D)
  BY <1>1, <1>4, <1>5, FS_Injection DEF n
<1>7. RootAccounts(root) = {order[i] : i \in 1 .. n}
  BY <1>2, <1>3 DEF RootAccounts
<1>8. \A a \in D : \E i \in 1 .. n : order[i] = a
  BY <1>6 DEF Surjection
<1>9. RootAccounts(root) = D
  BY <1>2, <1>7, <1>8
<1> QED
  BY <1>9 DEF D, root

\* The end of UpdateState.
LEMMA CommitArchive ==
    ASSUME IndInv, ArchiveInv, NEW now \in Time, Applied,
           NEW order \in IterationOrders(update.copy), CommitUpdate(order, now)
    PROVE  ArchiveInv'
<1> DEFINE height == update.block.height
           root   == CalculateStateRoot(update.copy, order)
           snapshot == [root       |-> root,
                        compressed |-> height % CompressEvery = 0,
                        archived   |-> height % ArchiveEvery = 0]
<1>1. /\ update # NoUpdate
      /\ IsAccounts(update.copy)
      /\ IsAccounts(accounts)
      /\ DOMAIN stateAt = DOMAIN stateHistory
  BY DEF IndInv, TypeOK, IsUpdate, Applied
<1>2. /\ accounts' = update.copy /\ stateRoot' = root
      /\ stateHistory' = Put(stateHistory, height, snapshot)
      /\ archivedData' = WithArchived(height)
      /\ stateAt' = Put(stateAt, height, update.copy)
      /\ update' = NoUpdate
      /\ ~ArchiveFails(height)
  BY DEF CommitUpdate
<1>3. RootAccounts(root) = DOMAIN update.copy
  BY <1>1, RootTells
<1>4. snapshot.root = root /\ (snapshot.archived <=> height % ArchiveEvery = 0)
  OBVIOUS
<1> HIDE DEF height, root, snapshot
<1>5. /\ DOMAIN stateHistory' = (DOMAIN stateHistory) \cup {height}
      /\ DOMAIN stateAt' = (DOMAIN stateHistory) \cup {height}
      /\ stateHistory'[height] = snapshot
      /\ stateAt'[height] = update.copy
      /\ \A h \in DOMAIN stateHistory \ {height} :
            stateHistory'[h] = stateHistory[h] /\ stateAt'[h] = stateAt[h]
  BY <1>1, <1>2 DEF Put
<1>6. height % ArchiveEvery = 0 => accounts = EmptyMap /\ update.copy = EmptyMap
  BY <1>1, <1>2, NoAccounts DEF ArchiveFails, ArchiveInv, EmptyStays
<1>7. EmptyStays'
  <2>1. \A t \in DOMAIN archivedData' : archivedData'[t] = EmptyMap
    BY <1>2, <1>6 DEF ArchiveInv, EmptyStays, WithArchived, Put
  <2>2. \A h \in DOMAIN stateHistory' :
           stateHistory'[h].archived => stateAt'[h] = EmptyMap
    BY <1>4, <1>5, <1>6 DEF ArchiveInv, EmptyStays
  <2> QED
    BY <1>2, <2>1, <2>2 DEF EmptyStays
<1>8. RootsTell'
  <2>1. \A h \in DOMAIN stateHistory' :
           RootAccounts(stateHistory'[h].root) = DOMAIN stateAt'[h]
    BY <1>3, <1>4, <1>5 DEF ArchiveInv, RootsTell
  <2>2. RootAccounts(stateRoot') = DOMAIN accounts'
    BY <1>2, <1>3
  <2>3. \E h \in DOMAIN stateAt' : accounts' = stateAt'[h]
    BY <1>2, <1>5
  <2> QED
    BY <2>1, <2>2, <2>3 DEF RootsTell, RootAccounts
<1>9. SupplyInCopy'
  BY <1>2 DEF SupplyInCopy
<1> QED
  BY <1>7, <1>8, <1>9 DEF ArchiveInv

\* Every step preserves the invariant.
LEMMA NextArchive == IndInv /\ ArchiveInv /\ [Next]_vars => ArchiveInv'
<1> SUFFICES ASSUME IndInv, ArchiveInv, [Next]_vars PROVE ArchiveInv'
  OBVIOUS
<1>1. CASE \E b \in Block : BeginUpdate(b)
  <2> PICK b \in Block : BeginUpdate(b)
    BY <1>1
  <2>1. /\ update'.copy = accounts
        /\ UNCHANGED <<accounts, stateRoot, stateHistory, archivedData, stateAt>>
    BY DEF BeginUpdate, store, history
  <2> QED
    BY <2>1 DEF ArchiveInv, SupplyInCopy, EmptyStays, RootsTell, RootAccounts
<1>2. CASE ApplyTransaction
  <2>1. /\ update # NoUpdate
        /\ CurrentTx \in Transaction
        /\ CanApply(update.copy, CurrentTx)
        /\ UNCHANGED <<accounts, stateRoot, stateHistory, archivedData, stateAt>>
    BY <1>2, CurrentTxType
       DEF ApplyTransaction, Applying, store, history, IndInv
  <2>2. IsUpdate(update) /\ IsAccounts(update.copy)
    BY <2>1 DEF IndInv, TypeOK, IsUpdate
  <2>3. update'.copy = Transfer(update.copy, CurrentTx)
    BY <1>2, <2>2 DEF ApplyTransaction, IsUpdate
  <2>4. accounts # EmptyMap
    BY <2>1, <2>2, NoAccounts DEF ArchiveInv, EmptyStays
  <2>5. EmptyStays'
    BY <2>1, <2>4 DEF ArchiveInv, EmptyStays
  <2>6. SupplyInCopy'
    <3> SUFFICES ASSUME TotalBalance(accounts) <= MaxUint64
                 PROVE  TotalBalance(update'.copy) = TotalBalance(accounts)
      BY <2>1 DEF SupplyInCopy
    <3>1. TotalBalance(update.copy) = TotalBalance(accounts)
      BY <2>1 DEF ArchiveInv, SupplyInCopy
    <3> QED
      BY <2>1, <2>2, <2>3, <3>1, TransferKeepsSupply
  <2> QED
    BY <2>1, <2>5, <2>6 DEF ArchiveInv, RootsTell, RootAccounts
<1>3. CASE AbortUpdate \/ Panic \/ \E now \in Time : FailToArchive(now)
  <2>1. /\ update' = NoUpdate
        /\ UNCHANGED <<accounts, stateRoot, stateHistory, archivedData, stateAt>>
    BY <1>3 DEF AbortUpdate, Panic, FailToArchive, store, history
  <2> QED
    BY <2>1 DEF ArchiveInv, SupplyInCopy, EmptyStays, RootsTell, RootAccounts
<1>4. CASE Applied /\ \E now \in Time, order \in IterationOrders(update.copy) :
                         CommitUpdate(order, now)
  BY <1>4, CommitArchive
<1>5. CASE UNCHANGED vars
  BY <1>5 DEF vars, store, history, ArchiveInv,
     SupplyInCopy, EmptyStays, RootsTell, RootAccounts
<1> QED
  BY <1>1, <1>2, <1>3, <1>4, <1>5 DEF Next, Proceed
-----------------------------------------------------------------------------
(* The theorems.                                                           *)

\* The invariant holds in every behaviour.
THEOREM Invariant == Spec => []IndInv
BY InitInv, NextInv, PTL DEF Spec

\* No transaction is ever applied twice, until a nonce wraps around.
THEOREM NothingReplayed == Spec => []NoReplay
BY Invariant, PTL DEF IndInv

\* The database holds the root and the accounts of the current state.
THEOREM DatabaseCorrect == Spec => []DatabaseCurrent
BY Invariant, PTL DEF IndInv

\* The accounts change by whole blocks only.
THEOREM BlocksAtomic == Spec => WholeBlocks
<1>1. IndInv /\ [Next]_vars
        => [accounts' # accounts => committed' = committed \o update.block.txs]_vars
  <2> SUFFICES ASSUME IndInv, [Next]_vars, accounts' # accounts
               PROVE  committed' = committed \o update.block.txs
    OBVIOUS
  <2>1. Applied /\ committed' = update.log
    BY DEF Next, Proceed, BeginUpdate, ApplyTransaction, AbortUpdate, Panic,
       FailToArchive, CommitUpdate, vars
  <2>2. /\ update.block.txs \in Seq(Transaction)
        /\ update.next = Len(update.block.txs) + 1
        /\ update # NoUpdate
    BY <2>1, BlockFields DEF IndInv, TypeOK, IsUpdate, Applied
  <2>3. update.next - 1 = Len(update.block.txs)
    BY <2>2
  <2> QED
    BY <2>1, <2>2, <2>3, WholeSeq DEF IndInv, LogFollows
<1> QED
  BY <1>1, Invariant, PTL DEF Spec, WholeBlocks

\* The copy keeps the coins, archives are empty, and roots tell the accounts.
THEOREM ArchiveInvariant == Spec => []ArchiveInv
<1>1. Init => ArchiveInv
  BY DEF Init, ArchiveInv, SupplyInCopy, EmptyStays, RootsTell, EmptyMap
<1> QED
  BY <1>1, NextArchive, Invariant, PTL DEF Spec

\* No coin is created or lost.
THEOREM CoinsConserved == Spec => SupplyConserved
<1>1. IndInv /\ ArchiveInv /\ [Next]_vars
        => [TotalBalance(accounts) <= MaxUint64 =>
              TotalBalance(accounts') = TotalBalance(accounts)]_vars
  <2> SUFFICES ASSUME ArchiveInv, [Next]_vars, TotalBalance(accounts) <= MaxUint64
               PROVE  TotalBalance(accounts') = TotalBalance(accounts)
    OBVIOUS
  <2>1. CASE accounts' = accounts
    BY <2>1
  <2>2. CASE accounts' # accounts
    <3>1. update # NoUpdate /\ accounts' = update.copy
      BY <2>2 DEF Next, Proceed, BeginUpdate, ApplyTransaction, AbortUpdate,
         Panic, FailToArchive, CommitUpdate, vars, Applied
    <3> QED
      BY <3>1 DEF ArchiveInv, SupplyInCopy
  <2> QED
    BY <2>1, <2>2
<1> QED
  BY <1>1, Invariant, ArchiveInvariant, PTL DEF Spec, SupplyConserved

\* When no root of the accumulator is as long as a hash, which is so with the
\* modulus 257 of NewAccumulator, the conversion core.Hash(accumulator.Root())
\* panics for every block whose transactions apply: no block is ever applied,
\* and none of the checks of UpdateState that come later is ever made.
NothingStored ==
    /\ stateHistory = EmptyMap /\ committed = << >>
    /\ accounts \in InitialAccounts
    /\ archivedData = EmptyMap /\ stateDB.root = ZeroHash

THEOREM NothingApplied ==
    ASSUME \A length \in RootLengths : length < HashBytes
    PROVE  Spec => []NothingStored
<1>1. ~RootFits
  BY StateAssumption DEF RootFits
<1>2. Init => NothingStored
  BY DEF Init, NothingStored
<1>3. NothingStored /\ [Next]_vars => NothingStored'
  BY <1>1 DEF NothingStored, Next, Proceed, BeginUpdate, ApplyTransaction,
     AbortUpdate, Panic, FailToArchive, CommitUpdate, vars, store, history
<1> QED
  BY <1>2, <1>3, PTL DEF Spec

\* The one way in which GetState can be wrong about a height that it answers: it
\* gives the current accounts instead, which have the same addresses.  What it
\* takes from the archive is right.
WrongStateIsCurrent ==
    \A h \in DOMAIN stateHistory : \A acc \in GetState(h) :
        acc # stateAt[h] =>
            /\ ~stateHistory[h].archived
            /\ acc = accounts
            /\ DOMAIN acc = DOMAIN stateAt[h]

THEOREM GetStateErrs == Spec => []WrongStateIsCurrent
<1>1. ArchiveInv => WrongStateIsCurrent
  <2> SUFFICES ASSUME ArchiveInv,
                      NEW h \in DOMAIN stateHistory, NEW acc \in GetState(h),
                      acc # stateAt[h]
               PROVE  /\ ~stateHistory[h].archived
                      /\ acc = accounts
                      /\ DOMAIN acc = DOMAIN stateAt[h]
    BY DEF WrongStateIsCurrent
  <2>1. ~stateHistory[h].archived
    <3>1. CASE stateHistory[h].archived
      <4>1. acc \in Retrieve(h)
        BY <3>1 DEF GetState
      <4> QED
        BY <3>1, <4>1 DEF Retrieve, ArchiveInv, EmptyStays
    <3> QED
      BY <3>1
  <2>2. acc = accounts /\ stateHistory[h].root = stateRoot
    BY <2>1 DEF GetState, DecompressWorldState
  <2>3. stateHistory # EmptyMap
    BY DEF EmptyMap
  <2> QED
    BY <2>1, <2>2, <2>3 DEF ArchiveInv, RootsTell
<1> QED
  BY <1>1, ArchiveInvariant, PTL
=============================================================================
