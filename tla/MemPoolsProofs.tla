---------------------------- MODULE MemPoolsProofs ----------------------------
(***************************************************************************)
(* Proofs about the two pools of waiting transactions.  TxMemPool, for     *)
(* every set of transactions, addresses and readers: the two indexes agree *)
(* whenever the lock of the pool is free, and a reader that holds no lock  *)
(* still gets an answer that is right.  ContractsMemPool, for every set of *)
(* transactions and every capacity of the queue: what the two goroutines   *)
(* of the pool can do to each other's lists.                               *)
(***************************************************************************)
EXTENDS TxMemPool, ContractsMemPool, TLAPS, FiniteSetTheorems

-----------------------------------------------------------------------------
(* TxMemPool. *)

\* What the index by address says of an address.
InSet(a) == IF txsByAddress[a] = NoSet THEN {} ELSE sets[txsByAddress[a]]

\* The call that holds the lock.
WriterInv ==
    /\ op = "none" => tx = None /\ todo = {}
    /\ op # "none" => tx \in Txs /\ todo \subseteq Parties(tx)
    /\ op = "add" => tx \in txsByHash
    /\ op = "remove" => tx \notin txsByHash
    /\ emptied # NoAddress =>
         op = "remove" /\ emptied \notin todo /\ InSet(emptied) = {} /\ txsByAddress[emptied] # NoSet

\* No two addresses share a set, and no set that will be made is in the index.
SetsApart ==
    /\ \A a \in Addresses : txsByAddress[a] <= made
    /\ \A a, b \in Addresses :
         txsByAddress[a] = txsByAddress[b] /\ txsByAddress[a] # NoSet => a = b

\* The two indexes differ at most in the transaction of the call that holds
\* the lock, and there only for the addresses it has yet to visit.
NearlyAgree ==
    \A a \in Addresses :
        /\ InSet(a) \ {tx} = TxsOf(a) \ {tx}
        /\ a \notin todo => InSet(a) = TxsOf(a)
        /\ txsByAddress[a] # NoSet => InSet(a) # {} \/ a = emptied

PoolInv == TypeOK /\ WriterInv /\ SetsApart /\ NearlyAgree

\* What a reader relies on between its two steps.
ReaderInv ==
    \A r \in Readers :
        rpc[r] # "idle" =>
            /\ raddr[r] \in Addresses /\ res[r] = {}
            /\ txsByHash \cup ({tx} \ {None}) \subseteq possible[r]
            /\ stable[r] \subseteq txsByHash
            /\ op = "remove" => tx \notin stable[r]
            /\ rpc[r] = "lookup" => \A t \in stable[r] : raddr[r] \in Parties(t) => t \in InSet(raddr[r])
            /\ rpc[r] = "read" =>
                 /\ rset[r] \in 1..made
                 /\ \A b \in Addresses : txsByAddress[b] = rset[r] => b = raddr[r]
                 /\ \A t \in stable[r] : raddr[r] \in Parties(t) => t \in sets[rset[r]]
                 /\ \A t \in sets[rset[r]] : t \in possible[r] /\ raddr[r] \in Parties(t)

USE DEF NoSet

-----------------------------------------------------------------------------
(* The writers. *)

\* The pool is empty at first.
LEMMA InitPoolInv == Init => PoolInv
<1> SUFFICES ASSUME Init PROVE PoolInv OBVIOUS
<1> USE TxMemPoolAssumption
<1>1. TypeOK BY DEF Init, TypeOK
<1>2. WriterInv BY DEF Init, WriterInv
<1>3. SetsApart BY DEF Init, SetsApart
<1>4. NearlyAgree BY DEF Init, NearlyAgree, InSet, TxsOf
<1> QED BY <1>1, <1>2, <1>3, <1>4 DEF PoolInv

\* A transaction is indexed for addresses.
LEMMA PartiesAreAddresses == \A t \in Txs : Parties(t) \subseteq Addresses
BY TxMemPoolAssumption DEF Parties

\* AddTransaction opens a gap between the indexes, for its own transaction.
LEMMA AddTransactionPoolInv == ASSUME NEW t \in Txs PROVE PoolInv /\ AddTransaction(t) => PoolInv'
<1> SUFFICES ASSUME PoolInv, AddTransaction(t) PROVE PoolInv' OBVIOUS
<1> USE TxMemPoolAssumption DEF PoolInv
<1>1. /\ op = "none" /\ op' = "add" /\ tx' = t /\ todo' = Parties(t) /\ txsByHash' = txsByHash \cup {t}
      /\ possible' = [r \in Readers |-> possible[r] \cup {t}]
      /\ UNCHANGED <<txsByAddress, sets, made, emptied, rpc, raddr, rset, res, stable>>
  BY DEF AddTransaction, readerVars
<1>2. tx = None /\ todo = {} /\ emptied = NoAddress BY <1>1 DEF WriterInv
<1>3. TypeOK' BY <1>1, PartiesAreAddresses DEF TypeOK
<1>4. WriterInv' BY <1>1, <1>2 DEF WriterInv
<1>5. SetsApart' BY <1>1 DEF SetsApart
<1>6. NearlyAgree'
  <2> SUFFICES ASSUME NEW a \in Addresses
               PROVE  /\ InSet(a)' \ {t} = TxsOf(a)' \ {t}
                      /\ a \notin Parties(t) => InSet(a)' = TxsOf(a)'
                      /\ txsByAddress[a] # NoSet => InSet(a)' # {} \/ a = emptied
    BY <1>1 DEF NearlyAgree
  <2>1. InSet(a)' = InSet(a) BY <1>1 DEF InSet
  <2>2. TxsOf(a)' = TxsOf(a) \cup (IF a \in Parties(t) THEN {t} ELSE {}) BY <1>1 DEF TxsOf
  <2>3. InSet(a) = TxsOf(a) /\ (txsByAddress[a] # NoSet => InSet(a) # {} \/ a = emptied)
    BY <1>2 DEF NearlyAgree
  <2> QED BY <2>1, <2>2, <2>3
<1> QED BY <1>3, <1>4, <1>5, <1>6

\* RemoveTransaction does the same.
LEMMA RemoveTransactionPoolInv == ASSUME NEW t \in Txs PROVE PoolInv /\ RemoveTransaction(t) => PoolInv'
<1> SUFFICES ASSUME PoolInv, RemoveTransaction(t) PROVE PoolInv' OBVIOUS
<1> USE TxMemPoolAssumption DEF PoolInv
<1>1. /\ op = "none" /\ op' = "remove" /\ tx' = t /\ todo' = Parties(t) /\ txsByHash' = txsByHash \ {t}
      /\ stable' = [r \in Readers |-> stable[r] \ {t}]
      /\ UNCHANGED <<txsByAddress, sets, made, emptied, rpc, raddr, rset, res, possible>>
  BY DEF RemoveTransaction, readerVars
<1>2. tx = None /\ todo = {} /\ emptied = NoAddress BY <1>1 DEF WriterInv
<1>3. TypeOK' BY <1>1, PartiesAreAddresses DEF TypeOK
<1>4. WriterInv' BY <1>1, <1>2 DEF WriterInv
<1>5. SetsApart' BY <1>1 DEF SetsApart
<1>6. NearlyAgree'
  <2> SUFFICES ASSUME NEW a \in Addresses
               PROVE  /\ InSet(a)' \ {t} = TxsOf(a)' \ {t}
                      /\ a \notin Parties(t) => InSet(a)' = TxsOf(a)'
                      /\ txsByAddress[a] # NoSet => InSet(a)' # {} \/ a = emptied
    BY <1>1 DEF NearlyAgree
  <2>1. InSet(a)' = InSet(a) BY <1>1 DEF InSet
  <2>2. TxsOf(a)' = TxsOf(a) \ {t} /\ (a \notin Parties(t) => t \notin TxsOf(a)) BY <1>1 DEF TxsOf
  <2>3. InSet(a) = TxsOf(a) /\ (txsByAddress[a] # NoSet => InSet(a) # {} \/ a = emptied)
    BY <1>2 DEF NearlyAgree
  <2> QED BY <2>1, <2>2, <2>3
<1> QED BY <1>3, <1>4, <1>5, <1>6

\* addAddressTx changes what the index says of its address and of no other.
LEMMA AddAddressTxEffect ==
    ASSUME PoolInv, NEW a \in Addresses, AddAddressTx(a)
    PROVE  /\ InSet(a)' = InSet(a) \cup {tx}
           /\ \A b \in Addresses \ {a} : InSet(b)' = InSet(b) /\ txsByAddress'[b] = txsByAddress[b]
           /\ txsByAddress'[a] # NoSet
           /\ txsByAddress'[a] = txsByAddress[a] \/ txsByAddress'[a] = made + 1
           /\ \A s \in 1..made : sets'[s] = sets[s] \/ (s = txsByAddress[a] /\ sets'[s] = sets[s] \cup {tx})
           /\ SetsApart'
           /\ made <= made' /\ made' \in 0..MaxSets
           /\ txsByAddress' \in [Addresses -> 0..MaxSets] /\ sets' \in [1..MaxSets -> SUBSET Txs]
<1> USE TxMemPoolAssumption DEF PoolInv
<1>1. tx \in Txs BY DEF AddAddressTx, WriterInv
<1>2. /\ txsByAddress \in [Addresses -> 0..MaxSets] /\ sets \in [1..MaxSets -> SUBSET Txs] /\ made \in 0..MaxSets
  BY DEF TypeOK
<1>3. CASE txsByAddress[a] # NoSet
  <2>1. /\ sets' = [sets EXCEPT ![txsByAddress[a]] = @ \cup {tx}]
        /\ made' = made /\ txsByAddress' = txsByAddress
    BY <1>3 DEF AddAddressTx
  <2>2. txsByAddress[a] \in 1..MaxSets BY <1>2, <1>3
  <2>3. InSet(a)' = InSet(a) \cup {tx} BY <1>2, <1>3, <2>1, <2>2 DEF InSet
  <2>4. \A b \in Addresses \ {a} : InSet(b)' = InSet(b) /\ txsByAddress'[b] = txsByAddress[b]
    <3> SUFFICES ASSUME NEW b \in Addresses \ {a} PROVE InSet(b)' = InSet(b) BY <2>1
    <3>1. txsByAddress[b] # NoSet => txsByAddress[b] \in 1..MaxSets /\ txsByAddress[b] # txsByAddress[a]
      BY <1>2, <1>3 DEF SetsApart
    <3> QED BY <3>1, <2>1, <1>2 DEF InSet
  <2>5. SetsApart' BY <2>1 DEF SetsApart
  <2>6. sets' \in [1..MaxSets -> SUBSET Txs] BY <1>1, <1>2, <2>1, <2>2
  <2>7. \A s \in 1..made : sets'[s] = sets[s] \/ (s = txsByAddress[a] /\ sets'[s] = sets[s] \cup {tx})
    BY <1>2, <2>1
  <2> QED BY <1>2, <1>3, <2>1, <2>3, <2>4, <2>5, <2>6, <2>7
<1>4. CASE txsByAddress[a] = NoSet
  <2>1. /\ made < MaxSets /\ made' = made + 1
        /\ sets' = [sets EXCEPT ![made + 1] = {tx}]
        /\ txsByAddress' = [txsByAddress EXCEPT ![a] = made + 1]
    BY <1>4 DEF AddAddressTx
  <2>2. made + 1 \in 1..MaxSets /\ made + 1 # NoSet BY <1>2, <2>1
  <2>3. InSet(a)' = {tx} /\ InSet(a) = {} BY <1>2, <1>4, <2>1, <2>2 DEF InSet
  <2>4. \A b \in Addresses \ {a} : InSet(b)' = InSet(b) /\ txsByAddress'[b] = txsByAddress[b]
    <3> SUFFICES ASSUME NEW b \in Addresses \ {a} PROVE InSet(b)' = InSet(b) BY <1>2, <2>1
    <3>1. txsByAddress[b] # NoSet => txsByAddress[b] \in 1..MaxSets /\ txsByAddress[b] # made + 1
      BY <1>2 DEF SetsApart
    <3> QED BY <3>1, <2>1, <1>2 DEF InSet
  <2>5. SetsApart' BY <1>2, <2>1 DEF SetsApart
  <2>6. sets' \in [1..MaxSets -> SUBSET Txs] BY <1>1, <1>2, <2>1, <2>2
  <2>7. \A s \in 1..made : sets'[s] = sets[s] BY <1>2, <2>1
  <2>8. txsByAddress'[a] = made + 1 /\ made <= made' /\ made' \in 0..MaxSets
        /\ txsByAddress' \in [Addresses -> 0..MaxSets]
    BY <1>2, <2>1, <2>2
  <2> QED BY <2>2, <2>3, <2>4, <2>5, <2>6, <2>7, <2>8
<1> QED BY <1>3, <1>4

\* addAddressTx closes the gap for one address.
LEMMA AddAddressTxPoolInv == ASSUME NEW a \in Addresses PROVE PoolInv /\ AddAddressTx(a) => PoolInv'
<1> SUFFICES ASSUME PoolInv, AddAddressTx(a) PROVE PoolInv' OBVIOUS
<1> USE TxMemPoolAssumption DEF PoolInv
<1>1. /\ op = "add" /\ a \in todo /\ todo' = todo \ {a}
      /\ UNCHANGED <<txsByHash, op, tx, emptied, rpc, raddr, rset, res, stable, possible>>
  BY DEF AddAddressTx, Turn, readerVars, histVars
<1>2. /\ InSet(a)' = InSet(a) \cup {tx}
      /\ \A b \in Addresses \ {a} : InSet(b)' = InSet(b) /\ txsByAddress'[b] = txsByAddress[b]
      /\ txsByAddress'[a] # NoSet
      /\ SetsApart'
      /\ made' \in 0..MaxSets
      /\ txsByAddress' \in [Addresses -> 0..MaxSets] /\ sets' \in [1..MaxSets -> SUBSET Txs]
  BY AddAddressTxEffect
<1>3. TypeOK' BY <1>1, <1>2 DEF TypeOK
<1>4. emptied = NoAddress /\ tx \in txsByHash /\ a \in Parties(tx) BY <1>1 DEF WriterInv
<1>5. WriterInv' BY <1>1, <1>4 DEF WriterInv
<1>6. NearlyAgree'
  <2> SUFFICES ASSUME NEW b \in Addresses
               PROVE  /\ InSet(b)' \ {tx} = TxsOf(b)' \ {tx}
                      /\ b \notin todo' => InSet(b)' = TxsOf(b)'
                      /\ txsByAddress'[b] # NoSet => InSet(b)' # {} \/ b = emptied
    BY <1>1 DEF NearlyAgree
  <2>1. TxsOf(b)' = TxsOf(b) BY <1>1 DEF TxsOf
  <2>2. CASE b = a
    <3>1. tx \in TxsOf(a) BY <1>4 DEF TxsOf
    <3>2. InSet(a) \ {tx} = TxsOf(a) \ {tx} BY DEF NearlyAgree
    <3> QED BY <1>2, <2>1, <2>2, <3>1, <3>2
  <2>3. CASE b # a BY <1>1, <1>2, <2>1, <2>3 DEF NearlyAgree
  <2> QED BY <2>2, <2>3
<1> QED BY <1>2, <1>3, <1>5, <1>6

\* removeByAddressAndHash takes the transaction from the set of its address.
LEMMA RemoveByAddressEffect ==
    ASSUME PoolInv, NEW a \in Addresses, RemoveByAddressAndHash(a)
    PROVE  /\ InSet(a)' = InSet(a) \ {tx}
           /\ \A b \in Addresses \ {a} : InSet(b)' = InSet(b)
           /\ txsByAddress' = txsByAddress /\ made' = made
           /\ \A s \in 1..MaxSets : sets'[s] = sets[s] \/ sets'[s] = sets[s] \ {tx}
           /\ sets' \in [1..MaxSets -> SUBSET Txs]
           /\ IF txsByAddress[a] # NoSet /\ InSet(a)' = {} THEN emptied' = a ELSE emptied' = NoAddress
<1> USE TxMemPoolAssumption DEF PoolInv
<1>1. txsByAddress \in [Addresses -> 0..MaxSets] /\ sets \in [1..MaxSets -> SUBSET Txs] BY DEF TypeOK
<1>2. txsByAddress' = txsByAddress /\ made' = made /\ emptied = NoAddress BY DEF RemoveByAddressAndHash
<1>3. CASE txsByAddress[a] = NoSet
  <2>1. sets' = sets /\ emptied' = NoAddress BY <1>2, <1>3 DEF RemoveByAddressAndHash
  <2>2. InSet(a) = {} /\ \A b \in Addresses : InSet(b)' = InSet(b) BY <1>2, <1>3, <2>1 DEF InSet
  <2> QED BY <1>1, <1>2, <1>3, <2>1, <2>2
<1>4. CASE txsByAddress[a] # NoSet
  <2>1. /\ sets' = [sets EXCEPT ![txsByAddress[a]] = @ \ {tx}]
        /\ emptied' = IF sets[txsByAddress[a]] \subseteq {tx} THEN a ELSE NoAddress
    BY <1>4 DEF RemoveByAddressAndHash
  <2>2. txsByAddress[a] \in 1..MaxSets BY <1>1, <1>4
  <2>3. InSet(a) = sets[txsByAddress[a]] /\ InSet(a)' = InSet(a) \ {tx}
    BY <1>1, <1>2, <1>4, <2>1, <2>2 DEF InSet
  <2>4. ASSUME NEW b \in Addresses \ {a} PROVE InSet(b)' = InSet(b)
    <3>1. txsByAddress[b] # NoSet => txsByAddress[b] \in 1..MaxSets /\ txsByAddress[b] # txsByAddress[a]
      BY <1>1, <1>4 DEF SetsApart
    <3> QED BY <3>1, <2>1, <1>1, <1>2 DEF InSet
  <2>5. \A s \in 1..MaxSets : sets'[s] = sets[s] \/ sets'[s] = sets[s] \ {tx} BY <1>1, <2>1
  <2>6. sets' \in [1..MaxSets -> SUBSET Txs] BY <1>1, <2>1, <2>2
  <2>7. InSet(a)' = {} <=> sets[txsByAddress[a]] \subseteq {tx} BY <2>3
  <2> QED BY <1>2, <1>4, <2>1, <2>3, <2>4, <2>5, <2>6, <2>7
<1> QED BY <1>3, <1>4

\* removeByAddressAndHash closes the gap for one address, and leaves an empty
\* set in the index only for the moment until it is dropped.
LEMMA RemoveByAddressPoolInv == ASSUME NEW a \in Addresses PROVE PoolInv /\ RemoveByAddressAndHash(a) => PoolInv'
<1> SUFFICES ASSUME PoolInv, RemoveByAddressAndHash(a) PROVE PoolInv' OBVIOUS
<1> USE TxMemPoolAssumption DEF PoolInv
<1>1. /\ op = "remove" /\ a \in todo /\ todo' = todo \ {a} /\ emptied = NoAddress
      /\ UNCHANGED <<txsByHash, op, tx, rpc, raddr, rset, res, stable, possible>>
  BY DEF RemoveByAddressAndHash, Turn, readerVars, histVars
<1>2. /\ InSet(a)' = InSet(a) \ {tx}
      /\ \A b \in Addresses \ {a} : InSet(b)' = InSet(b)
      /\ txsByAddress' = txsByAddress /\ made' = made
      /\ sets' \in [1..MaxSets -> SUBSET Txs]
      /\ IF txsByAddress[a] # NoSet /\ InSet(a)' = {} THEN emptied' = a ELSE emptied' = NoAddress
  BY RemoveByAddressEffect
<1>3. TypeOK' BY <1>1, <1>2 DEF TypeOK
<1>4. tx \notin txsByHash BY <1>1 DEF WriterInv
<1>5. WriterInv'
  <2>1. emptied' # NoAddress => /\ emptied' = a /\ txsByAddress[a] # NoSet /\ InSet(a)' = {} BY <1>2
  <2>2. emptied' # NoAddress => InSet(emptied)' = {} BY <2>1 DEF InSet
  <2> QED BY <1>1, <1>2, <1>4, <2>1, <2>2 DEF WriterInv
<1>6. SetsApart' BY <1>2 DEF SetsApart
<1>7. NearlyAgree'
  <2> SUFFICES ASSUME NEW b \in Addresses
               PROVE  /\ InSet(b)' \ {tx} = TxsOf(b)' \ {tx}
                      /\ b \notin todo' => InSet(b)' = TxsOf(b)'
                      /\ txsByAddress[b] # NoSet => InSet(b)' # {} \/ b = emptied'
    BY <1>1, <1>2 DEF NearlyAgree
  <2>1. TxsOf(b)' = TxsOf(b) /\ tx \notin TxsOf(b) BY <1>1, <1>4 DEF TxsOf
  <2>2. CASE b = a
    <3>1. InSet(a) \ {tx} = TxsOf(a) \ {tx} BY DEF NearlyAgree
    <3> QED BY <1>2, <2>1, <2>2, <3>1
  <2>3. CASE b # a BY <1>1, <1>2, <2>1, <2>3 DEF NearlyAgree, TypeOK
  <2> QED BY <2>2, <2>3
<1> QED BY <1>3, <1>5, <1>6, <1>7

\* Dropping an empty set from the index does not change what the index says.
LEMMA DeleteEmptiedPoolInv == PoolInv /\ DeleteEmptied => PoolInv'
<1> SUFFICES ASSUME PoolInv, DeleteEmptied PROVE PoolInv' OBVIOUS
<1> USE TxMemPoolAssumption DEF PoolInv
<1>1. /\ emptied # NoAddress /\ emptied' = NoAddress
      /\ txsByAddress' = [txsByAddress EXCEPT ![emptied] = NoSet]
      /\ UNCHANGED <<txsByHash, sets, made, op, tx, todo, rpc, raddr, rset, res, stable, possible>>
  BY DEF DeleteEmptied, readerVars, histVars
<1>2. emptied \in Addresses /\ InSet(emptied) = {} BY <1>1 DEF TypeOK, WriterInv
<1>3. \A b \in Addresses : InSet(b)' = InSet(b) BY <1>1, <1>2 DEF InSet, TypeOK
<1>4. \A b \in Addresses : TxsOf(b)' = TxsOf(b) BY <1>1 DEF TxsOf
<1>5. TypeOK' BY <1>1, <1>2 DEF TypeOK
<1>6. WriterInv' BY <1>1 DEF WriterInv
<1>7. SetsApart' BY <1>1, <1>2 DEF SetsApart, TypeOK
<1>8. NearlyAgree' BY <1>1, <1>2, <1>3, <1>4 DEF NearlyAgree, TypeOK
<1> QED BY <1>5, <1>6, <1>7, <1>8

\* A call returns when no gap is left.
LEMMA ReturnPoolInv == PoolInv /\ Return => PoolInv'
<1> SUFFICES ASSUME PoolInv, Return PROVE PoolInv' OBVIOUS
<1> USE TxMemPoolAssumption DEF PoolInv
<1>1. /\ op' = "none" /\ tx' = None /\ todo = {} /\ emptied = NoAddress
      /\ UNCHANGED <<txsByHash, txsByAddress, sets, made, todo, emptied, rpc, raddr, rset, res, stable, possible>>
  BY DEF Return, poolVars, readerVars, histVars
<1>2. \A b \in Addresses : InSet(b)' = InSet(b) /\ TxsOf(b)' = TxsOf(b) BY <1>1 DEF InSet, TxsOf
<1>3. TypeOK' BY <1>1 DEF TypeOK
<1>4. WriterInv' BY <1>1 DEF WriterInv
<1>5. SetsApart' BY <1>1 DEF SetsApart
<1>6. NearlyAgree' BY <1>1, <1>2 DEF NearlyAgree
<1> QED BY <1>3, <1>4, <1>5, <1>6

\* Readers write nothing of the pool.
LEMMA UnchangedPoolInv ==
    ASSUME PoolInv, UNCHANGED <<poolVars, writerVars>>,
           rpc' \in [Readers -> {"idle", "lookup", "read"}], raddr' \in [Readers -> Addresses \cup {NoAddress}],
           rset' \in [Readers -> 0..MaxSets], res' \in [Readers -> SUBSET Txs],
           stable' \in [Readers -> SUBSET Txs], possible' \in [Readers -> SUBSET Txs]
    PROVE  PoolInv'
<1> USE DEF PoolInv, poolVars, writerVars
<1>1. \A b \in Addresses : InSet(b)' = InSet(b) /\ TxsOf(b)' = TxsOf(b) BY DEF InSet, TxsOf
<1>2. TypeOK' BY DEF TypeOK
<1>3. WriterInv' BY DEF WriterInv, InSet
<1>4. SetsApart' BY DEF SetsApart
<1>5. NearlyAgree' BY <1>1 DEF NearlyAgree
<1> QED BY <1>2, <1>3, <1>4, <1>5

\* GetAddressTransactions begins: it takes nothing but its own notes.
LEMMA CallPoolInv ==
    ASSUME NEW r \in Readers, NEW a \in Addresses PROVE PoolInv /\ Call(r, a) => PoolInv'
<1> SUFFICES ASSUME PoolInv, Call(r, a) PROVE PoolInv' OBVIOUS
<1>1. /\ UNCHANGED <<poolVars, writerVars>> /\ rset' = rset
      /\ rpc' = [rpc EXCEPT ![r] = "lookup"] /\ raddr' = [raddr EXCEPT ![r] = a]
      /\ res' = [res EXCEPT ![r] = {}]
      /\ stable' = [stable EXCEPT ![r] = txsByHash \ {tx}]
      /\ possible' = [possible EXCEPT ![r] = txsByHash \cup ({tx} \ {None})]
  BY DEF Call, InPool
<1>2. TypeOK BY DEF PoolInv
<1>3. txsByHash \cup ({tx} \ {None}) \subseteq Txs BY <1>2 DEF TypeOK
<1> QED BY <1>1, <1>2, <1>3, UnchangedPoolInv DEF TypeOK

\* The reader finds the set of its address, which has one number of the pool's.
LEMMA LookupPoolInv == ASSUME NEW r \in Readers PROVE PoolInv /\ ReaderInv /\ Lookup(r) => PoolInv'
<1> SUFFICES ASSUME PoolInv, ReaderInv, Lookup(r) PROVE PoolInv' OBVIOUS
<1>1. /\ UNCHANGED <<poolVars, writerVars>> /\ raddr' = raddr /\ res' = res /\ stable' = stable /\ possible' = possible
      /\ rpc' = [rpc EXCEPT ![r] = IF txsByAddress[raddr[r]] = NoSet THEN "idle" ELSE "read"]
      /\ rset' = [rset EXCEPT ![r] = txsByAddress[raddr[r]]]
  BY DEF Lookup, histVars
<1>2. TypeOK BY DEF PoolInv
<1>3. raddr[r] \in Addresses BY DEF Lookup, ReaderInv
<1>4. txsByAddress[raddr[r]] \in 0..MaxSets BY <1>2, <1>3 DEF TypeOK
<1> QED BY <1>1, <1>2, <1>4, UnchangedPoolInv DEF TypeOK

\* The reader copies some of a set of transactions.
LEMMA AllPoolInv ==
    ASSUME NEW r \in Readers, NEW count PROVE PoolInv /\ ReaderInv /\ All(r, count) => PoolInv'
<1> SUFFICES ASSUME PoolInv, ReaderInv, All(r, count) PROVE PoolInv' OBVIOUS
<1> USE TxMemPoolAssumption
<1>1. /\ UNCHANGED <<poolVars, writerVars>> /\ raddr' = raddr /\ rset' = rset /\ possible' = possible
      /\ rpc' = [rpc EXCEPT ![r] = "idle"]
  BY DEF All
<1>2. TypeOK BY DEF PoolInv
<1>3. rset[r] \in 1..MaxSets BY <1>2 DEF All, ReaderInv, TypeOK
<1>4. PICK s \in SUBSET sets[rset[r]] :
        /\ res' = [res EXCEPT ![r] = s]
        /\ stable' = stable \/ stable' = [stable EXCEPT ![r] = {}]
  BY DEF All
<1>5. s \subseteq Txs BY <1>2, <1>3 DEF TypeOK
<1> QED BY <1>1, <1>2, <1>4, <1>5, UnchangedPoolInv DEF TypeOK

\* Every step keeps the two indexes in step.
LEMMA NextPoolInv == PoolInv /\ ReaderInv /\ [Next]_vars => PoolInv'
<1> SUFFICES ASSUME PoolInv, ReaderInv, [Next]_vars PROVE PoolInv' OBVIOUS
<1>1. CASE Writer
  BY <1>1, AddTransactionPoolInv, RemoveTransactionPoolInv, AddAddressTxPoolInv, RemoveByAddressPoolInv,
     DeleteEmptiedPoolInv, ReturnPoolInv DEF Writer
<1>2. ASSUME NEW r \in Readers, Reader(r) PROVE PoolInv'
  BY <1>2, CallPoolInv, LookupPoolInv, AllPoolInv DEF Reader
<1>3. CASE UNCHANGED vars
  <2>1. TypeOK BY DEF PoolInv
  <2> QED BY <1>3, <2>1, UnchangedPoolInv DEF vars, readerVars, histVars, TypeOK
<1> QED BY <1>1, <1>2, <1>3 DEF Next

-----------------------------------------------------------------------------
(* The readers. *)

ReaderSafe == ReaderInv /\ ReadersSeeThePool

\* Nobody reads at first.
LEMMA InitReaderSafe == Init => ReaderSafe
BY DEF Init, ReaderSafe, ReaderInv, ReadersSeeThePool, ReadersMissNothing, ReadersSeeOnlyThePool

\* A step of a writer that takes nothing away from what a reader counts on.
LEMMA WriterReaderSafe ==
    ASSUME PoolInv, ReaderSafe, UNCHANGED <<rpc, raddr, rset, res>>,
           \A r \in Readers : stable'[r] \subseteq stable[r] /\ possible[r] \subseteq possible'[r],
           \A r \in Readers : rpc[r] # "idle" =>
              /\ txsByHash' \cup ({tx'} \ {None}) \subseteq possible'[r]
              /\ stable'[r] \subseteq txsByHash'
              /\ op' = "remove" => tx' \notin stable'[r]
              /\ rpc[r] = "lookup" => \A t \in stable'[r] : t \in InSet(raddr[r]) => t \in InSet(raddr[r])'
              /\ rpc[r] = "read" =>
                   /\ rset[r] \in 1..made'
                   /\ \A b \in Addresses : txsByAddress'[b] = rset[r] => b = raddr[r]
                   /\ \A t \in stable'[r] : t \in sets[rset[r]] => t \in sets'[rset[r]]
                   /\ \A t \in sets'[rset[r]] : t \in possible'[r] /\ raddr[r] \in Parties(t)
    PROVE  ReaderSafe'
<1> USE DEF ReaderSafe
<1>1. ReaderInv'
  <2> SUFFICES ASSUME NEW r \in Readers, rpc[r] # "idle"
               PROVE  /\ raddr[r] \in Addresses /\ res[r] = {}
                      /\ rpc[r] = "lookup" => \A t \in stable'[r] : raddr[r] \in Parties(t) => t \in InSet(raddr[r])'
                      /\ rpc[r] = "read" => \A t \in stable'[r] : raddr[r] \in Parties(t) => t \in sets'[rset[r]]
    BY DEF ReaderInv, InSet
  <2> QED BY DEF ReaderInv
<1>2. ReadersMissNothing' BY DEF ReadersSeeThePool, ReadersMissNothing
<1>3. ReadersSeeOnlyThePool' BY DEF ReadersSeeThePool, ReadersSeeOnlyThePool
<1> QED BY <1>1, <1>2, <1>3 DEF ReadersSeeThePool

\* A transaction on its way in counts as possibly seen.
LEMMA AddTransactionReaderSafe ==
    ASSUME NEW t \in Txs PROVE PoolInv /\ ReaderSafe /\ AddTransaction(t) => ReaderSafe'
<1> SUFFICES ASSUME PoolInv, ReaderSafe, AddTransaction(t) PROVE ReaderSafe' OBVIOUS
<1>1. /\ op' = "add" /\ tx' = t /\ txsByHash' = txsByHash \cup {t}
      /\ \A r \in Readers : possible'[r] = possible[r] \cup {t}
      /\ UNCHANGED <<txsByAddress, sets, made, rpc, raddr, rset, res, stable>>
  BY DEF AddTransaction, readerVars
<1>2. \A a : InSet(a)' = InSet(a) BY <1>1 DEF InSet
<1> QED BY <1>1, <1>2, WriterReaderSafe DEF ReaderSafe, ReaderInv

\* A transaction on its way out is no longer counted on.
LEMMA RemoveTransactionReaderSafe ==
    ASSUME NEW t \in Txs PROVE PoolInv /\ ReaderSafe /\ RemoveTransaction(t) => ReaderSafe'
<1> SUFFICES ASSUME PoolInv, ReaderSafe, RemoveTransaction(t) PROVE ReaderSafe' OBVIOUS
<1>1. /\ t \in txsByHash /\ op' = "remove" /\ tx' = t /\ txsByHash' = txsByHash \ {t}
      /\ \A r \in Readers : stable'[r] = stable[r] \ {t}
      /\ UNCHANGED <<txsByAddress, sets, made, rpc, raddr, rset, res, possible>>
  BY DEF RemoveTransaction, readerVars
<1>2. \A a : InSet(a)' = InSet(a) BY <1>1 DEF InSet
<1> QED BY <1>1, <1>2, WriterReaderSafe DEF ReaderSafe, ReaderInv

\* A set that a reader holds is the one of the reader's address or of none, so
\* what joins it belongs to that address; a new set is nobody's yet.
LEMMA AddAddressTxReaderSafe ==
    ASSUME NEW a \in Addresses PROVE PoolInv /\ ReaderSafe /\ AddAddressTx(a) => ReaderSafe'
<1> SUFFICES ASSUME PoolInv, ReaderSafe, AddAddressTx(a) PROVE ReaderSafe' OBVIOUS
<1> USE TxMemPoolAssumption
<1>1. /\ op = "add" /\ a \in todo
      /\ UNCHANGED <<txsByHash, op, tx, emptied, rpc, raddr, rset, res, stable, possible>>
  BY DEF AddAddressTx, Turn, readerVars, histVars
<1>2. tx \in Txs /\ tx # None /\ a \in Parties(tx) BY <1>1 DEF PoolInv, WriterInv
<1>3. /\ InSet(a)' = InSet(a) \cup {tx}
      /\ \A b \in Addresses \ {a} : InSet(b)' = InSet(b) /\ txsByAddress'[b] = txsByAddress[b]
      /\ txsByAddress'[a] = txsByAddress[a] \/ txsByAddress'[a] = made + 1
      /\ \A s \in 1..made : sets'[s] = sets[s] \/ (s = txsByAddress[a] /\ sets'[s] = sets[s] \cup {tx})
      /\ made <= made' /\ made' \in 0..MaxSets /\ made \in 0..MaxSets
  BY AddAddressTxEffect DEF PoolInv, TypeOK
<1>4. ASSUME NEW r \in Readers, rpc[r] # "idle"
      PROVE  /\ txsByHash \cup ({tx} \ {None}) \subseteq possible[r]
             /\ stable[r] \subseteq txsByHash
             /\ op = "remove" => tx \notin stable[r]
             /\ raddr[r] \in Addresses
    BY <1>4 DEF ReaderSafe, ReaderInv
<1>5. ASSUME NEW r \in Readers, rpc[r] = "lookup", NEW t \in InSet(raddr[r]) PROVE t \in InSet(raddr[r])'
  BY <1>1, <1>3, <1>4, <1>5 DEF InSet
<1>6. ASSUME NEW r \in Readers, rpc[r] = "read"
      PROVE  /\ rset[r] \in 1..made'
             /\ \A b \in Addresses : txsByAddress'[b] = rset[r] => b = raddr[r]
             /\ \A t \in sets[rset[r]] : t \in sets'[rset[r]]
             /\ \A t \in sets'[rset[r]] : t \in possible[r] /\ raddr[r] \in Parties(t)
  <2>1. /\ rset[r] \in 1..made
        /\ \A b \in Addresses : txsByAddress[b] = rset[r] => b = raddr[r]
        /\ \A t \in sets[rset[r]] : t \in possible[r] /\ raddr[r] \in Parties(t)
    BY <1>6 DEF ReaderSafe, ReaderInv
  <2>2. rset[r] \in 1..made' /\ rset[r] # made + 1 BY <2>1, <1>3
  <2>3. \A b \in Addresses : txsByAddress'[b] = rset[r] => b = raddr[r] BY <2>1, <2>2, <1>3
  <2>4. tx \in possible[r] BY <1>2, <1>4, <1>6
  <2> QED BY <2>1, <2>2, <2>3, <2>4, <1>2, <1>3
<1> QED BY <1>1, <1>4, <1>5, <1>6, WriterReaderSafe

\* Only the transaction on its way out leaves a set that a reader holds.
LEMMA RemoveByAddressReaderSafe ==
    ASSUME NEW a \in Addresses PROVE PoolInv /\ ReaderSafe /\ RemoveByAddressAndHash(a) => ReaderSafe'
<1> SUFFICES ASSUME PoolInv, ReaderSafe, RemoveByAddressAndHash(a) PROVE ReaderSafe' OBVIOUS
<1> USE TxMemPoolAssumption
<1>1. /\ op = "remove"
      /\ UNCHANGED <<txsByHash, op, tx, rpc, raddr, rset, res, stable, possible>>
  BY DEF RemoveByAddressAndHash, readerVars, histVars
<1>2. /\ InSet(a)' = InSet(a) \ {tx}
      /\ \A b \in Addresses \ {a} : InSet(b)' = InSet(b)
      /\ txsByAddress' = txsByAddress /\ made' = made
      /\ \A s \in 1..MaxSets : sets'[s] = sets[s] \/ sets'[s] = sets[s] \ {tx}
      /\ made \in 0..MaxSets
  BY RemoveByAddressEffect DEF PoolInv, TypeOK
<1>3. ASSUME NEW r \in Readers, rpc[r] # "idle"
      PROVE  /\ txsByHash \cup ({tx} \ {None}) \subseteq possible[r]
             /\ stable[r] \subseteq txsByHash
             /\ tx \notin stable[r]
             /\ raddr[r] \in Addresses
    BY <1>1, <1>3 DEF ReaderSafe, ReaderInv
<1>4. ASSUME NEW r \in Readers, rpc[r] = "lookup", NEW t \in stable[r], t \in InSet(raddr[r])
      PROVE  t \in InSet(raddr[r])'
  BY <1>1, <1>2, <1>3, <1>4 DEF InSet
<1>5. ASSUME NEW r \in Readers, rpc[r] = "read"
      PROVE  /\ rset[r] \in 1..made'
             /\ \A b \in Addresses : txsByAddress'[b] = rset[r] => b = raddr[r]
             /\ \A t \in stable[r] : t \in sets[rset[r]] => t \in sets'[rset[r]]
             /\ \A t \in sets'[rset[r]] : t \in possible[r] /\ raddr[r] \in Parties(t)
  <2>1. /\ rset[r] \in 1..made /\ rset[r] \in 1..MaxSets
        /\ \A b \in Addresses : txsByAddress[b] = rset[r] => b = raddr[r]
        /\ \A t \in sets[rset[r]] : t \in possible[r] /\ raddr[r] \in Parties(t)
    BY <1>2, <1>5 DEF ReaderSafe, ReaderInv
  <2>2. sets'[rset[r]] = sets[rset[r]] \/ sets'[rset[r]] = sets[rset[r]] \ {tx} BY <2>1, <1>2
  <2>3. tx \notin stable[r] BY <1>3, <1>5
  <2> QED BY <2>1, <2>2, <2>3, <1>2
<1> QED BY <1>1, <1>3, <1>4, <1>5, WriterReaderSafe

\* The set that leaves the index is empty, so nobody misses anything in it.
LEMMA DeleteEmptiedReaderSafe == PoolInv /\ ReaderSafe /\ DeleteEmptied => ReaderSafe'
<1> SUFFICES ASSUME PoolInv, ReaderSafe, DeleteEmptied PROVE ReaderSafe' OBVIOUS
<1> USE TxMemPoolAssumption
<1>1. /\ emptied # NoAddress
      /\ txsByAddress' = [txsByAddress EXCEPT ![emptied] = NoSet]
      /\ UNCHANGED <<txsByHash, sets, made, op, tx, rpc, raddr, rset, res, stable, possible>>
  BY DEF DeleteEmptied, readerVars, histVars
<1>2. /\ emptied \in Addresses /\ InSet(emptied) = {} /\ made \in 0..MaxSets
      /\ txsByAddress \in [Addresses -> 0..MaxSets]
  BY <1>1 DEF PoolInv, TypeOK, WriterInv
<1>3. \A b \in Addresses : InSet(b)' = InSet(b) BY <1>1, <1>2 DEF InSet
<1>4. ASSUME NEW r \in Readers, rpc[r] = "read", NEW b \in Addresses, txsByAddress'[b] = rset[r]
      PROVE  b = raddr[r]
  <2>1. rset[r] # NoSet BY <1>2, <1>4 DEF ReaderSafe, ReaderInv
  <2>2. txsByAddress[b] = rset[r] BY <1>1, <1>2, <1>4, <2>1
  <2> QED BY <2>2, <1>4 DEF ReaderSafe, ReaderInv
<1>5. ASSUME NEW r \in Readers, rpc[r] # "idle" PROVE raddr[r] \in Addresses
  BY <1>5 DEF ReaderSafe, ReaderInv
<1>6. ASSUME NEW r \in Readers, rpc[r] = "lookup" PROVE InSet(raddr[r])' = InSet(raddr[r])
  BY <1>1, <1>3, <1>5, <1>6 DEF InSet
<1> QED BY <1>1, <1>4, <1>6, WriterReaderSafe DEF ReaderSafe, ReaderInv

\* The call that returns touches no set.
LEMMA ReturnReaderSafe == PoolInv /\ ReaderSafe /\ Return => ReaderSafe'
<1> SUFFICES ASSUME PoolInv, ReaderSafe, Return PROVE ReaderSafe' OBVIOUS
<1>1. /\ op' = "none" /\ tx' = None
      /\ UNCHANGED <<txsByHash, txsByAddress, sets, made, rpc, raddr, rset, res, stable, possible>>
  BY DEF Return, poolVars, readerVars, histVars
<1>2. \A a : InSet(a)' = InSet(a) BY <1>1 DEF InSet
<1> QED BY <1>1, <1>2, WriterReaderSafe DEF ReaderSafe, ReaderInv

\* A step of one reader is nothing to the others.
LEMMA OtherReaders ==
    ASSUME NEW r \in Readers, ReaderSafe, UNCHANGED <<poolVars, writerVars>>,
           \A q \in Readers \ {r} :
              /\ rpc'[q] = rpc[q] /\ raddr'[q] = raddr[q] /\ rset'[q] = rset[q] /\ res'[q] = res[q]
              /\ stable'[q] = stable[q] /\ possible'[q] = possible[q],
           rpc'[r] # "idle" =>
              /\ raddr'[r] \in Addresses /\ res'[r] = {}
              /\ txsByHash \cup ({tx} \ {None}) \subseteq possible'[r]
              /\ stable'[r] \subseteq txsByHash
              /\ op = "remove" => tx \notin stable'[r]
              /\ rpc'[r] = "lookup" => \A t \in stable'[r] : raddr'[r] \in Parties(t) => t \in InSet(raddr[r])'
              /\ rpc'[r] = "read" =>
                   /\ rset'[r] \in 1..made
                   /\ \A b \in Addresses : txsByAddress[b] = rset'[r] => b = raddr'[r]
                   /\ \A t \in stable'[r] : raddr'[r] \in Parties(t) => t \in sets[rset'[r]]
                   /\ \A t \in sets[rset'[r]] : t \in possible'[r] /\ raddr'[r] \in Parties(t),
           rpc'[r] = "idle" => {t \in stable'[r] : raddr'[r] \in Parties(t)} \subseteq res'[r],
           res'[r] \subseteq {t \in possible'[r] : raddr'[r] \in Parties(t)}
    PROVE  ReaderSafe'
<1> USE DEF ReaderSafe, poolVars, writerVars
<1>1. ASSUME NEW q \in Readers, q # r PROVE InSet(raddr[q])' = InSet(raddr[q]) BY <1>1 DEF InSet
<1>2. ReaderInv' BY <1>1 DEF ReaderInv
<1>3. ReadersMissNothing' BY DEF ReadersSeeThePool, ReadersMissNothing
<1>4. ReadersSeeOnlyThePool' BY DEF ReadersSeeThePool, ReadersSeeOnlyThePool
<1> QED BY <1>2, <1>3, <1>4 DEF ReadersSeeThePool

\* What is in the pool when the call begins is in the set of its address.
LEMMA CallReaderSafe ==
    ASSUME NEW r \in Readers, NEW a \in Addresses PROVE PoolInv /\ ReaderSafe /\ Call(r, a) => ReaderSafe'
<1> SUFFICES ASSUME PoolInv, ReaderSafe, Call(r, a) PROVE ReaderSafe' OBVIOUS
<1>t. TypeOK BY DEF PoolInv
<1>1. /\ UNCHANGED <<poolVars, writerVars>>
      /\ \A q \in Readers \ {r} :
            /\ rpc'[q] = rpc[q] /\ raddr'[q] = raddr[q] /\ rset'[q] = rset[q] /\ res'[q] = res[q]
            /\ stable'[q] = stable[q] /\ possible'[q] = possible[q]
      /\ rpc'[r] = "lookup" /\ raddr'[r] = a /\ res'[r] = {}
      /\ stable'[r] = txsByHash \ {tx}
      /\ possible'[r] = txsByHash \cup ({tx} \ {None})
  BY <1>t DEF Call, InPool, TypeOK
<1>2. \A t \in txsByHash \ {tx} : a \in Parties(t) => t \in InSet(a)
  BY DEF PoolInv, NearlyAgree, TxsOf
<1>3. InSet(raddr[r])' = InSet(a) BY <1>1 DEF InSet, poolVars
<1> QED BY <1>1, <1>2, <1>3, OtherReaders

\* The set found in the index is the one of the address; when there is none,
\* nothing of the address stayed in the pool.
LEMMA LookupReaderSafe == ASSUME NEW r \in Readers PROVE PoolInv /\ ReaderSafe /\ Lookup(r) => ReaderSafe'
<1> SUFFICES ASSUME PoolInv, ReaderSafe, Lookup(r) PROVE ReaderSafe' OBVIOUS
<1> USE TxMemPoolAssumption
<1>t. TypeOK BY DEF PoolInv
<1> DEFINE a == raddr[r]
<1>1. /\ UNCHANGED <<poolVars, writerVars>> /\ UNCHANGED <<raddr, res, stable, possible>>
      /\ \A q \in Readers \ {r} : rpc'[q] = rpc[q] /\ rset'[q] = rset[q]
      /\ rpc'[r] = IF txsByAddress[a] = NoSet THEN "idle" ELSE "read"
      /\ rset'[r] = txsByAddress[a]
  BY <1>t DEF Lookup, TypeOK, histVars
<1>2. /\ a \in Addresses /\ res[r] = {}
      /\ txsByHash \cup ({tx} \ {None}) \subseteq possible[r]
      /\ stable[r] \subseteq txsByHash
      /\ op = "remove" => tx \notin stable[r]
      /\ \A t \in stable[r] : a \in Parties(t) => t \in InSet(a)
  BY DEF Lookup, ReaderSafe, ReaderInv
<1> HIDE DEF a
<1>3. CASE txsByAddress[a] = NoSet
  <2>1. InSet(a) = {} BY <1>3 DEF InSet
  <2>2. rpc'[r] = "idle" /\ raddr'[r] = a /\ res'[r] = {} /\ stable'[r] = stable[r] BY <1>1, <1>2, <1>3 DEF a
  <2> QED BY <1>1, <1>2, <2>1, <2>2, OtherReaders
<1>4. CASE txsByAddress[a] # NoSet
  <2>1. InSet(a) = sets[txsByAddress[a]] BY <1>4 DEF InSet
  <2>2. txsByAddress[a] \in 1..made BY <1>t, <1>2, <1>4 DEF PoolInv, SetsApart, TypeOK
  <2>3. \A b \in Addresses : txsByAddress[b] = txsByAddress[a] => b = a BY <1>2, <1>4 DEF PoolInv, SetsApart
  <2>4. \A t \in InSet(a) : t \in TxsOf(a) \/ (t = tx /\ a \in todo) BY <1>2 DEF PoolInv, NearlyAgree
  <2>5. \A t \in InSet(a) : t \in possible[r] /\ a \in Parties(t)
    <3>1. TxsOf(a) \subseteq txsByHash /\ \A t \in TxsOf(a) : a \in Parties(t) BY DEF TxsOf
    <3>2. a \in todo => tx # None /\ a \in Parties(tx) BY DEF PoolInv, WriterInv
    <3> QED BY <2>4, <3>1, <3>2, <1>2
  <2>6. rpc'[r] = "read" /\ raddr'[r] = a /\ res'[r] = {} /\ stable'[r] = stable[r] /\ possible'[r] = possible[r]
        /\ rset'[r] = txsByAddress[a]
    BY <1>1, <1>2, <1>4 DEF a
  <2> QED BY <1>1, <1>2, <2>1, <2>2, <2>3, <2>5, <2>6, OtherReaders
<1> QED BY <1>3, <1>4

\* An answer that is not cut off is the whole set.
LEMMA AllReaderSafe ==
    ASSUME NEW r \in Readers, NEW count \in 0..Cardinality(Txs)
    PROVE  PoolInv /\ ReaderSafe /\ All(r, count) => ReaderSafe'
<1> SUFFICES ASSUME PoolInv, ReaderSafe, All(r, count) PROVE ReaderSafe' OBVIOUS
<1> USE TxMemPoolAssumption
<1>t. TypeOK BY DEF PoolInv
<1> DEFINE S == sets[rset[r]]
<1>1. /\ rset[r] \in 1..MaxSets /\ raddr[r] \in Addresses
      /\ \A t \in stable[r] : raddr[r] \in Parties(t) => t \in S
      /\ \A t \in S : t \in possible[r] /\ raddr[r] \in Parties(t)
  BY <1>t DEF All, ReaderSafe, ReaderInv, TypeOK
<1>2. S \subseteq Txs BY <1>t, <1>1 DEF TypeOK
<1>3. PICK s \in SUBSET S :
        /\ Cardinality(s) = IF count < Cardinality(S) THEN count ELSE Cardinality(S)
        /\ res' = [res EXCEPT ![r] = s]
        /\ stable' = IF Cardinality(s) < count THEN stable ELSE [stable EXCEPT ![r] = {}]
  BY DEF All
<1>4. /\ UNCHANGED <<poolVars, writerVars>> /\ UNCHANGED <<raddr, rset, possible>>
      /\ rpc' = [rpc EXCEPT ![r] = "idle"]
  BY DEF All
<1> HIDE DEF S
<1>5. IsFiniteSet(S) /\ Cardinality(S) \in Nat /\ Cardinality(Txs) \in Nat
  BY <1>2, FS_Subset, FS_CardinalityType
<1>6. count \in Int BY <1>5
<1>7. Cardinality(s) < count => Cardinality(s) = Cardinality(S) BY <1>3, <1>5, <1>6
<1>8. Cardinality(s) < count => s = S BY <1>3, <1>5, <1>7, FS_Subset
<1>9. {t \in stable'[r] : raddr[r] \in Parties(t)} \subseteq s
  <2>1. CASE Cardinality(s) < count BY <1>1, <1>3, <1>8, <2>1
  <2>2. CASE ~(Cardinality(s) < count)
    <3>1. stable'[r] = {} BY <1>t, <1>3, <2>2 DEF TypeOK
    <3> QED BY <3>1
  <2> QED BY <2>1, <2>2
<1>10. res'[r] = s /\ rpc'[r] = "idle" BY <1>t, <1>3, <1>4 DEF TypeOK
<1>11. ASSUME NEW q \in Readers \ {r} PROVE rpc'[q] = rpc[q] /\ res'[q] = res[q] /\ stable'[q] = stable[q]
  BY <1>t, <1>3, <1>4 DEF TypeOK
<1> QED BY <1>1, <1>4, <1>9, <1>10, <1>11, OtherReaders

\* Every step keeps what readers rely on, and their answers right.
LEMMA NextReaderSafe == PoolInv /\ ReaderSafe /\ [Next]_vars => ReaderSafe'
<1> SUFFICES ASSUME PoolInv, ReaderSafe, [Next]_vars PROVE ReaderSafe' OBVIOUS
<1>1. CASE Writer
  BY <1>1, AddTransactionReaderSafe, RemoveTransactionReaderSafe, AddAddressTxReaderSafe,
     RemoveByAddressReaderSafe, DeleteEmptiedReaderSafe, ReturnReaderSafe DEF Writer
<1>2. ASSUME NEW r \in Readers, Reader(r) PROVE ReaderSafe'
  BY <1>2, CallReaderSafe, LookupReaderSafe, AllReaderSafe DEF Reader
<1>3. CASE UNCHANGED vars
  <2> USE <1>3 DEF vars, poolVars, writerVars, readerVars, histVars
  <2>1. ReaderInv' BY DEF ReaderSafe, ReaderInv, InSet
  <2>2. ReadersSeeThePool'
    BY DEF ReaderSafe, ReadersSeeThePool, ReadersMissNothing, ReadersSeeOnlyThePool
  <2> QED BY <2>1, <2>2 DEF ReaderSafe
<1> QED BY <1>1, <1>2, <1>3 DEF Next

\* The two indexes of the pool agree whenever the lock of the pool is free,
\* and no address keeps an empty set: whatever AddTransaction and
\* RemoveTransaction are called for and in whatever order.
THEOREM IndexesAreSoundAlways == Spec => []IndexesAreSound
<1>1. Init => PoolInv /\ ReaderSafe BY InitPoolInv, InitReaderSafe
<1>2. (PoolInv /\ ReaderSafe) /\ [Next]_vars => (PoolInv /\ ReaderSafe)'
  BY NextPoolInv, NextReaderSafe DEF ReaderSafe
<1>3. PoolInv => IndexesAreSound
  <2> SUFFICES ASSUME PoolInv, op = "none", NEW a \in Addresses
               PROVE  IF txsByAddress[a] = NoSet THEN TxsOf(a) = {}
                      ELSE TxsOf(a) # {} /\ sets[txsByAddress[a]] = TxsOf(a)
    BY DEF IndexesAreSound, IndexesAgree, PoolInv
  <2>1. todo = {} /\ emptied = NoAddress BY DEF PoolInv, WriterInv
  <2>2. InSet(a) = TxsOf(a) /\ (txsByAddress[a] # NoSet => InSet(a) # {})
    BY <2>1, TxMemPoolAssumption DEF PoolInv, NearlyAgree
  <2> QED BY <2>2 DEF InSet
<1> QED BY <1>1, <1>2, <1>3, PTL DEF Spec

\* GetAddressTransactions, which holds no lock between finding the set of an
\* address and reading it, answers everything of the address that stayed in
\* the pool during the call and nothing that was not there, for any number of
\* readers.
THEOREM ReadersSeeThePoolAlways == Spec => []ReadersSeeThePool
<1>1. Init => PoolInv /\ ReaderSafe BY InitPoolInv, InitReaderSafe
<1>2. (PoolInv /\ ReaderSafe) /\ [Next]_vars => (PoolInv /\ ReaderSafe)'
  BY NextPoolInv, NextReaderSafe DEF ReaderSafe
<1>3. ReaderSafe => ReadersSeeThePool BY DEF ReaderSafe
<1> QED BY <1>1, <1>2, <1>3, PTL DEF Spec

-----------------------------------------------------------------------------
(* ContractsMemPool. *)

\* What is in a queue after a transaction has joined it.
LEMMA AppendRange ==
    ASSUME NEW S, NEW s \in Seq(S), NEW e \in S
    PROVE  /\ Append(s, e) \in Seq(S) /\ Len(Append(s, e)) = Len(s) + 1
           /\ \A i \in 1..Len(s) : Append(s, e)[i] = s[i]
           /\ Append(s, e)[Len(s) + 1] = e
           /\ Range(Append(s, e)) = Range(s) \cup {e}
<1>1. /\ Append(s, e) \in Seq(S) /\ Len(Append(s, e)) = Len(s) + 1
      /\ \A i \in 1..Len(s) : Append(s, e)[i] = s[i]
      /\ Append(s, e)[Len(s) + 1] = e
      /\ DOMAIN s = 1..Len(s) /\ DOMAIN Append(s, e) = 1..(Len(s) + 1) /\ Len(s) \in Nat
  OBVIOUS
<1>2. Range(Append(s, e)) \subseteq Range(s) \cup {e} BY <1>1 DEF Range
<1>3. Range(s) \subseteq Range(Append(s, e)) BY <1>1 DEF Range
<1>4. e \in Range(Append(s, e)) BY <1>1 DEF Range
<1> QED BY <1>1, <1>2, <1>3, <1>4

\* What is in a queue after its first transaction has left it.
LEMMA TailRange ==
    ASSUME NEW S, NEW s \in Seq(S), s # <<>>
    PROVE  /\ Tail(s) \in Seq(S) /\ Len(Tail(s)) = Len(s) - 1 /\ Head(s) \in S
           /\ Len(s) \in Nat /\ Len(s) > 0 /\ Head(s) = s[1]
           /\ \A i \in 1..Len(Tail(s)) : Tail(s)[i] = s[i + 1]
           /\ Range(Tail(s)) \subseteq Range(s) /\ Head(s) \in Range(s)
<1>1. /\ Tail(s) \in Seq(S) /\ Len(Tail(s)) = Len(s) - 1 /\ Head(s) \in S
      /\ Len(s) \in Nat /\ Len(s) > 0 /\ Head(s) = s[1]
      /\ \A i \in 1..Len(Tail(s)) : Tail(s)[i] = s[i + 1]
      /\ DOMAIN s = 1..Len(s) /\ DOMAIN Tail(s) = 1..(Len(s) - 1)
  OBVIOUS
<1>2. Range(Tail(s)) \subseteq Range(s) BY <1>1 DEF Range
<1>3. Head(s) \in Range(s) BY <1>1 DEF Range
<1> QED BY <1>1, <1>2, <1>3

-----------------------------------------------------------------------------
\* The worker has a transaction exactly while it is at work, and only a
\* deployment is listed in two steps.
WorkerInv ==
    /\ wpc = "idle" <=> cur = NoTx
    /\ wpc = "apply" => Kind[cur] = "deploy"

\* What is listed where.
ListsInv ==
    /\ \A t \in oracleVotingDeploys : Kind[t] = "deploy"
    /\ \A t \in ContractTxs : contractByTx[t] # NoTx => contractByTx[t] = Target[t] /\ Kind[t] # "plain"

\* A transaction that has left the mempool while the queue or the worker has it
\* has been overtaken by its removal; so has one that is queued again while
\* its earlier self is still there, or still listed.
QueueInv ==
    /\ \A t \in Pending \ {NoTx} : t \in pool \/ t \in overtaken
    /\ \A i, j \in 1..Len(txChan) : i # j /\ txChan[i] = txChan[j] => txChan[i] \in overtaken
    /\ cur \in Range(txChan) => cur \in overtaken
    /\ \A t \in oracleVotingDeploys :
         t \in Range(txChan) \/ (t = cur /\ wpc = "process") => t \in overtaken
    /\ removing # NoTx =>
         /\ removing \notin pool
         /\ removing \in oracleVotingDeploys => removing \in overtaken

ContractInv == ContractListsAreSound /\ WorkerInv /\ ListsInv /\ QueueInv

USE DEF ContractInv, ContractListsAreSound

\* Nothing is queued or listed at first.
LEMMA InitContractInv == ContractInit => ContractInv
<1> SUFFICES ASSUME ContractInit PROVE ContractInv OBVIOUS
<1> USE ContractsMemPoolAssumption DEF ContractInit
<1>1. ContractTypeOK BY DEF ContractTypeOK
<1>2. Listed = {} BY DEF Listed
<1>3. MapsAgree BY DEF MapsAgree
<1>4. Range(txChan) = {} BY DEF Range
<1>5. LeaksOnlyWhenOvertaken /\ DeploysAreListedTwice /\ ListsInv
  BY <1>2 DEF LeaksOnlyWhenOvertaken, DeploysAreListedTwice, ListsInv
<1>6. WorkerInv BY DEF WorkerInv
<1>7. QueueInv BY <1>4 DEF QueueInv, Pending
<1> QED BY <1>1, <1>3, <1>5, <1>6, <1>7

\* A transaction that joins the queue while an earlier self of it is queued,
\* at work or listed is one that its removal has overtaken.
LEMMA ProcessTxContractInv == ASSUME NEW t \in ContractTxs PROVE ContractInv /\ ProcessTx(t) => ContractInv'
<1> SUFFICES ASSUME ContractInv, ProcessTx(t) PROVE ContractInv' OBVIOUS
<1> USE ContractsMemPoolAssumption
<1>1. /\ t \notin pool /\ t # removing /\ events' = events + 1 /\ events < MaxEvents /\ pool' = pool \cup {t}
      /\ UNCHANGED <<cur, wpc, removing, oracleVotingDeploys, txsByContract, contractByTx, overtaken>>
  BY DEF ProcessTx, indexVars
<1>2. /\ txChan \in Seq(ContractTxs) /\ events \in 0..MaxEvents
      /\ txChan' = IF Len(txChan) < QueueSize THEN Append(txChan, t) ELSE txChan
      /\ refused' = IF Len(txChan) < QueueSize THEN refused \ {t} ELSE refused \cup {t}
  BY DEF ProcessTx, ContractTypeOK
<1>3. /\ txChan' \in Seq(ContractTxs) /\ Len(txChan') <= QueueSize
      /\ Range(txChan') \subseteq Range(txChan) \cup {t}
      /\ \/ txChan' = txChan
         \/ /\ Len(txChan') = Len(txChan) + 1
            /\ \A i \in 1..Len(txChan) : txChan'[i] = txChan[i]
            /\ txChan'[Len(txChan) + 1] = t
  <2>1. CASE Len(txChan) < QueueSize
    <3>1. txChan' = Append(txChan, t) /\ Len(txChan) \in Nat BY <1>2, <2>1
    <3> QED BY <1>2, <2>1, <3>1, AppendRange
  <2>2. CASE ~(Len(txChan) < QueueSize)
    <3>1. txChan' = txChan BY <1>2, <2>2
    <3> QED BY <1>2, <3>1 DEF ContractTypeOK
  <2> QED BY <2>1, <2>2
<1>4. ContractTypeOK'
  <2>1. refused' \subseteq ContractTxs BY <1>2 DEF ContractTypeOK
  <2>2. events' \in 0..MaxEvents BY <1>1, <1>2
  <2> QED BY <1>1, <1>3, <2>1, <2>2 DEF ContractTypeOK
<1>5. Listed' = Listed BY <1>1 DEF Listed
<1>6. LeaksOnlyWhenOvertaken' BY <1>1, <1>5 DEF LeaksOnlyWhenOvertaken
<1>7. MapsAgree' /\ DeploysAreListedTwice' /\ WorkerInv' /\ ListsInv'
  BY <1>1 DEF MapsAgree, DeploysAreListedTwice, WorkerInv, ListsInv
<1>8. t \in Listed => t \in overtaken BY <1>1 DEF LeaksOnlyWhenOvertaken
<1>9. t \in Pending => t \in overtaken BY <1>1 DEF QueueInv
<1>10. QueueInv'
  <2>1. \A u \in Pending' \ {NoTx} : u \in pool' \/ u \in overtaken'
    BY <1>1, <1>3 DEF QueueInv, Pending
  <2>2. \A i \in 1..Len(txChan) : txChan[i] \in Range(txChan) BY <1>2 DEF Range
  <2>3. \A i, j \in 1..Len(txChan') : i # j /\ txChan'[i] = txChan'[j] => txChan'[i] \in overtaken'
    <3>1. CASE txChan' = txChan BY <1>1, <3>1 DEF QueueInv
    <3>2. CASE /\ Len(txChan') = Len(txChan) + 1
               /\ \A i \in 1..Len(txChan) : txChan'[i] = txChan[i]
               /\ txChan'[Len(txChan) + 1] = t
      <4> SUFFICES ASSUME NEW i \in 1..Len(txChan'), NEW j \in 1..Len(txChan'), i # j, txChan'[i] = txChan'[j]
                   PROVE  txChan'[i] \in overtaken
        BY <1>1
      <4>0. Len(txChan) \in Nat BY <1>2
      <4>1. CASE i \in 1..Len(txChan) /\ j \in 1..Len(txChan) BY <3>2, <4>1 DEF QueueInv
      <4>2. CASE i = Len(txChan) + 1
        <5>1. j \in 1..Len(txChan) BY <3>2, <4>0, <4>2
        <5>2. t \in Range(txChan) BY <2>2, <3>2, <4>2, <5>1
        <5> QED BY <5>2, <1>9, <3>2, <4>2 DEF Pending
      <4>3. CASE j = Len(txChan) + 1
        <5>1. i \in 1..Len(txChan) BY <3>2, <4>0, <4>3
        <5>2. t \in Range(txChan) BY <2>2, <3>2, <4>3, <5>1
        <5> QED BY <5>2, <1>9, <3>2, <4>3 DEF Pending
      <4> QED BY <3>2, <4>0, <4>1, <4>2, <4>3
    <3> QED BY <1>3, <3>1, <3>2
  <2>4. cur' \in Range(txChan') => cur' \in overtaken' BY <1>1, <1>3, <1>9 DEF QueueInv, Pending
  <2>5. \A u \in oracleVotingDeploys' :
           u \in Range(txChan') \/ (u = cur' /\ wpc' = "process") => u \in overtaken'
    BY <1>1, <1>3, <1>8 DEF QueueInv, Listed
  <2>6. removing' # NoTx => /\ removing' \notin pool'
                            /\ removing' \in oracleVotingDeploys' => removing' \in overtaken'
    BY <1>1 DEF QueueInv
  <2> QED BY <2>1, <2>3, <2>4, <2>5, <2>6 DEF QueueInv
<1> QED BY <1>4, <1>6, <1>7, <1>10

\* The first half of RemoveTx: the transaction may stay in the other index
\* while it is being removed.
LEMMA RemoveDeployTxContractInv ==
    ASSUME NEW t \in ContractTxs PROVE ContractInv /\ RemoveDeployTx(t) => ContractInv'
<1> SUFFICES ASSUME ContractInv, RemoveDeployTx(t) PROVE ContractInv' OBVIOUS
<1> USE ContractsMemPoolAssumption
<1>1. /\ t \in pool /\ removing = NoTx /\ pool' = pool \ {t} /\ removing' = t
      /\ oracleVotingDeploys' = IF Kind[t] = "deploy" THEN oracleVotingDeploys \ {t} ELSE oracleVotingDeploys
      /\ overtaken' = IF t \in Pending THEN overtaken \cup {t} ELSE overtaken \ {t}
      /\ UNCHANGED <<events, txChan, cur, wpc, txsByContract, contractByTx, refused>>
  BY DEF RemoveDeployTx
<1>2. oracleVotingDeploys' = oracleVotingDeploys \ {t}
  BY <1>1 DEF ListsInv
<1>3. /\ \A u : u # t => (u \in overtaken' <=> u \in overtaken)
      /\ t \in Pending => t \in overtaken'
      /\ overtaken' \subseteq ContractTxs
  BY <1>1 DEF ContractTypeOK
<1>4. ContractTypeOK' BY <1>1, <1>2, <1>3 DEF ContractTypeOK
<1>5. Listed' \subseteq Listed /\ Listed \subseteq ContractTxs BY <1>1, <1>2 DEF Listed, ContractTypeOK
<1>6. LeaksOnlyWhenOvertaken'
  <2> SUFFICES ASSUME NEW u \in Listed, u # t PROVE u \in pool' \/ u \in overtaken'
    BY <1>1, <1>5 DEF LeaksOnlyWhenOvertaken
  <2>1. u \in pool \/ u = NoTx \/ u \in overtaken BY <1>1 DEF LeaksOnlyWhenOvertaken
  <2> QED BY <2>1, <1>1, <1>3, <1>5
<1>7. MapsAgree' /\ WorkerInv' BY <1>1 DEF MapsAgree, WorkerInv
<1>8. ListsInv' BY <1>1, <1>2 DEF ListsInv
<1>9. DeploysAreListedTwice' BY <1>1, <1>2, <1>3 DEF DeploysAreListedTwice, ContractTypeOK
<1>10. QueueInv'
  <2>0. /\ \A i \in 1..Len(txChan) : txChan[i] \in Range(txChan)
        /\ Pending' = Pending /\ Range(txChan') = Range(txChan) /\ Range(txChan) \subseteq Pending /\ cur \in Pending
    BY <1>1 DEF Range, Pending, ContractTypeOK
  <2>1. \A u \in Pending' \ {NoTx} : u \in pool' \/ u \in overtaken'
    BY <1>1, <1>3, <2>0 DEF QueueInv
  <2>2. \A u \in Pending : u \in overtaken => u \in overtaken' BY <1>3
  <2>3. \A i, j \in 1..Len(txChan') : i # j /\ txChan'[i] = txChan'[j] => txChan'[i] \in overtaken'
    BY <1>1, <2>0, <2>2 DEF QueueInv
  <2>4. cur' \in Range(txChan') => cur' \in overtaken' BY <1>1, <2>0, <2>2 DEF QueueInv
  <2>5. \A u \in oracleVotingDeploys' :
           u \in Range(txChan') \/ (u = cur' /\ wpc' = "process") => u \in overtaken'
    BY <1>1, <1>2, <2>0, <2>2 DEF QueueInv
  <2>6. removing' # NoTx => /\ removing' \notin pool'
                            /\ removing' \in oracleVotingDeploys' => removing' \in overtaken'
    BY <1>1, <1>2
  <2> QED BY <2>1, <2>3, <2>4, <2>5, <2>6 DEF QueueInv
<1> QED BY <1>4, <1>6, <1>7, <1>8, <1>9, <1>10

\* The second half of RemoveTx leaves nothing of the transaction, unless the
\* worker has listed it again.
LEMMA RemoveAddressContractInv == ContractInv /\ RemoveAddressContractTx => ContractInv'
<1> SUFFICES ASSUME ContractInv, RemoveAddressContractTx PROVE ContractInv' OBVIOUS
<1> USE ContractsMemPoolAssumption
<1> DEFINE t == removing
<1>1. /\ t # NoTx /\ removing' = NoTx
      /\ UNCHANGED <<pool, events, txChan, cur, wpc, oracleVotingDeploys, overtaken, refused>>
  BY DEF RemoveAddressContractTx
<1>2. t \in ContractTxs BY <1>1 DEF ContractTypeOK
<1>3. /\ contractByTx \in [ContractTxs -> Contracts \cup {NoTx}]
      /\ txsByContract \in [Contracts -> SUBSET ContractTxs]
  BY DEF ContractTypeOK
<1>4. /\ contractByTx' = [contractByTx EXCEPT ![t] = NoTx]
      /\ txsByContract' \in [Contracts -> SUBSET ContractTxs]
      /\ \A c \in Contracts : txsByContract'[c] = txsByContract[c] \ {t}
  <2>1. CASE contractByTx[t] = NoTx
    <3>1. contractByTx' = contractByTx /\ txsByContract' = txsByContract
      BY <2>1 DEF RemoveAddressContractTx
    <3>2. contractByTx = [contractByTx EXCEPT ![t] = NoTx] BY <1>2, <1>3, <2>1
    <3>3. \A c \in Contracts : t \notin txsByContract[c] BY <1>2, <2>1 DEF MapsAgree
    <3> QED BY <1>3, <3>1, <3>2, <3>3
  <2>2. CASE contractByTx[t] # NoTx
    <3>1. IsContractTx(t) \/ Kind[t] = "send" BY <1>2, <2>2 DEF ListsInv, IsContractTx
    <3>2. /\ contractByTx' = [contractByTx EXCEPT ![t] = NoTx]
          /\ txsByContract' = [txsByContract EXCEPT ![contractByTx[t]] = @ \ {t}]
      BY <2>2, <3>1 DEF RemoveAddressContractTx
    <3>3. \A c \in Contracts : c # contractByTx[t] => t \notin txsByContract[c] BY <1>2 DEF MapsAgree
    <3>4. contractByTx[t] \in Contracts BY <1>2, <1>3, <2>2
    <3> QED BY <1>3, <3>2, <3>3, <3>4
  <2> QED BY <2>1, <2>2
<1>5. \A u \in ContractTxs : contractByTx'[u] = IF u = t THEN NoTx ELSE contractByTx[u] BY <1>3, <1>4
<1> HIDE DEF t
<1>6. ContractTypeOK' BY <1>1, <1>3, <1>4, <1>2 DEF ContractTypeOK
<1>7. MapsAgree' BY <1>4, <1>5 DEF MapsAgree
<1>8. t \in oracleVotingDeploys => t \in overtaken BY <1>1 DEF QueueInv, t
<1>9. LeaksOnlyWhenOvertaken'
  <2> SUFFICES ASSUME NEW u \in Listed' PROVE u \in pool \/ u \in overtaken
    BY <1>1 DEF LeaksOnlyWhenOvertaken
  <2>1. u \in Listed /\ (u = t => u \in oracleVotingDeploys) BY <1>1, <1>4 DEF Listed
  <2> QED BY <2>1, <1>8 DEF LeaksOnlyWhenOvertaken, t
<1>10. DeploysAreListedTwice'
  <2> SUFFICES ASSUME NEW u \in oracleVotingDeploys PROVE u = cur \/ u \in overtaken \/ contractByTx'[u] = Target[u]
    BY <1>1 DEF DeploysAreListedTwice
  <2>1. CASE u = t BY <2>1, <1>8
  <2>2. CASE u # t
    <3>1. u \in ContractTxs BY DEF ContractTypeOK
    <3> QED BY <2>2, <3>1, <1>5 DEF DeploysAreListedTwice, t
  <2> QED BY <2>1, <2>2
<1>11. WorkerInv' BY <1>1 DEF WorkerInv
<1>12. ListsInv' BY <1>1, <1>5 DEF ListsInv
<1>13. QueueInv' BY <1>1 DEF QueueInv, Pending
<1> QED BY <1>6, <1>7, <1>9, <1>10, <1>11, <1>12, <1>13

\* The worker takes the first transaction of the queue.
LEMMA ReceiveContractInv == ContractInv /\ Receive => ContractInv'
<1> SUFFICES ASSUME ContractInv, Receive PROVE ContractInv' OBVIOUS
<1> USE ContractsMemPoolAssumption
<1>1. /\ wpc = "idle" /\ txChan # <<>> /\ cur' = Head(txChan) /\ txChan' = Tail(txChan) /\ wpc' = "process"
      /\ UNCHANGED <<pool, events, removing, oracleVotingDeploys, txsByContract, contractByTx, overtaken, refused>>
  BY DEF Receive, indexVars
<1>2. txChan \in Seq(ContractTxs) /\ Len(txChan) <= QueueSize BY DEF ContractTypeOK
<1>3. /\ txChan' \in Seq(ContractTxs) /\ Len(txChan') = Len(txChan) - 1 /\ cur' \in ContractTxs
      /\ Len(txChan) \in Nat /\ Len(txChan) > 0 /\ cur' = txChan[1]
      /\ \A i \in 1..Len(txChan') : txChan'[i] = txChan[i + 1]
      /\ Range(txChan') \subseteq Range(txChan) /\ cur' \in Range(txChan)
  BY <1>1, <1>2, TailRange
<1>4. cur = NoTx BY <1>1 DEF WorkerInv
<1>5. ContractTypeOK'
  <2>1. Len(txChan') <= QueueSize
    <3> DEFINE n == Len(txChan')
    <3>1. n = Len(txChan) - 1 BY <1>3
    <3> HIDE DEF n
    <3>2. n <= QueueSize BY <3>1, <1>2, <1>3
    <3> QED BY <3>2 DEF n
  <2> QED BY <1>1, <1>3, <2>1 DEF ContractTypeOK
<1>6. LeaksOnlyWhenOvertaken' BY <1>1 DEF LeaksOnlyWhenOvertaken, Listed
<1>7. MapsAgree' /\ ListsInv' BY <1>1 DEF MapsAgree, ListsInv
<1>8. DeploysAreListedTwice' BY <1>1, <1>4 DEF DeploysAreListedTwice, ContractTypeOK
<1>9. WorkerInv' BY <1>1, <1>3 DEF WorkerInv
<1>10. QueueInv'
  <2>1. Pending' \subseteq Pending BY <1>3 DEF Pending
  <2>2. \A u \in Pending' \ {NoTx} : u \in pool' \/ u \in overtaken' BY <1>1, <2>1 DEF QueueInv
  <2>3. ASSUME NEW i \in 1..Len(txChan'), NEW j \in 1..Len(txChan'), i # j, txChan'[i] = txChan'[j]
        PROVE  txChan'[i] \in overtaken
    <3>0. i \in 1..(Len(txChan) - 1) /\ j \in 1..(Len(txChan) - 1) BY <1>3
    <3>1. i + 1 \in 1..Len(txChan) /\ j + 1 \in 1..Len(txChan) /\ i + 1 # j + 1 BY <3>0, <2>3, <1>3
    <3>2. txChan'[i] = txChan[i + 1] /\ txChan'[j] = txChan[j + 1] BY <1>3
    <3> QED BY <3>1, <3>2, <2>3 DEF QueueInv
  <2>4. ASSUME cur' \in Range(txChan') PROVE cur' \in overtaken
    <3>1. PICK i \in DOMAIN txChan' : cur' = txChan'[i] BY <2>4 DEF Range
    <3>2. i \in 1..(Len(txChan) - 1) /\ i \in 1..Len(txChan') BY <1>3
    <3>3. i + 1 \in 1..Len(txChan) /\ 1 \in 1..Len(txChan) /\ i + 1 # 1 BY <3>2, <1>3
    <3>4. txChan[i + 1] = txChan[1] BY <1>3, <3>1, <3>2
    <3> QED BY <3>3, <3>4, <1>3 DEF QueueInv
  <2>5. \A u \in oracleVotingDeploys' :
           u \in Range(txChan') \/ (u = cur' /\ wpc' = "process") => u \in overtaken'
    BY <1>1, <1>3 DEF QueueInv
  <2>6. removing' # NoTx => /\ removing' \notin pool'
                            /\ removing' \in oracleVotingDeploys' => removing' \in overtaken'
    BY <1>1 DEF QueueInv
  <2> QED BY <1>1, <2>2, <2>3, <2>4, <2>5, <2>6 DEF QueueInv
<1> QED BY <1>5, <1>6, <1>7, <1>8, <1>9, <1>10

\* A transaction that is not listed is forgotten by the worker.
LEMMA SkipContractInv == ContractInv /\ Skip => ContractInv'
<1> SUFFICES ASSUME ContractInv, Skip PROVE ContractInv' OBVIOUS
<1> USE ContractsMemPoolAssumption
<1>1. /\ wpc = "process" /\ refused' = refused \cup {cur} /\ cur' = NoTx /\ wpc' = "idle"
      /\ UNCHANGED <<pool, events, txChan, removing, oracleVotingDeploys, txsByContract, contractByTx, overtaken>>
  BY DEF Skip, Done, indexVars
<1>2. cur \in ContractTxs BY <1>1 DEF WorkerInv, ContractTypeOK
<1>3. ContractTypeOK' BY <1>1, <1>2 DEF ContractTypeOK
<1>4. LeaksOnlyWhenOvertaken' BY <1>1 DEF LeaksOnlyWhenOvertaken, Listed
<1>5. MapsAgree' /\ ListsInv' /\ WorkerInv' BY <1>1 DEF MapsAgree, ListsInv, WorkerInv
<1>6. cur \in oracleVotingDeploys => cur \in overtaken BY <1>1 DEF QueueInv
<1>7. DeploysAreListedTwice' BY <1>1, <1>6 DEF DeploysAreListedTwice
<1>8. NoTx \notin Range(txChan)
  BY DEF ContractTypeOK, Range
<1>9. QueueInv'
  <2>1. \A u \in Pending' \ {NoTx} : u \in pool' \/ u \in overtaken' BY <1>1 DEF QueueInv, Pending
  <2> QED BY <1>1, <1>8, <2>1 DEF QueueInv
<1> QED BY <1>3, <1>4, <1>5, <1>7, <1>9

\* A deployment is listed in the first index, and the worker goes on with it.
LEMMA ApplyDeployContractInv == ContractInv /\ ApplyDeployTx => ContractInv'
<1> SUFFICES ASSUME ContractInv, ApplyDeployTx PROVE ContractInv' OBVIOUS
<1> USE ContractsMemPoolAssumption
<1>1. /\ wpc = "process" /\ Kind[cur] = "deploy" /\ wpc' = "apply"
      /\ oracleVotingDeploys' = oracleVotingDeploys \cup {cur}
      /\ UNCHANGED <<pool, events, txChan, cur, removing, txsByContract, contractByTx, overtaken, refused>>
  BY DEF ApplyDeployTx
<1>2. cur \in ContractTxs /\ cur # NoTx BY <1>1 DEF WorkerInv, ContractTypeOK
<1>3. cur \in pool \/ cur \in overtaken BY <1>2 DEF QueueInv, Pending
<1>4. ContractTypeOK' BY <1>1, <1>2 DEF ContractTypeOK
<1>5. LeaksOnlyWhenOvertaken' BY <1>1, <1>3 DEF LeaksOnlyWhenOvertaken, Listed
<1>6. MapsAgree' /\ ListsInv' /\ WorkerInv' BY <1>1, <1>2 DEF MapsAgree, ListsInv, WorkerInv
<1>7. DeploysAreListedTwice' BY <1>1 DEF DeploysAreListedTwice
<1>8. QueueInv'
  <2>1. /\ \A u \in Pending' \ {NoTx} : u \in pool' \/ u \in overtaken'
        /\ \A i, j \in 1..Len(txChan') : i # j /\ txChan'[i] = txChan'[j] => txChan'[i] \in overtaken'
        /\ cur' \in Range(txChan') => cur' \in overtaken'
    BY <1>1 DEF QueueInv, Pending
  <2>2. \A u \in oracleVotingDeploys' :
           u \in Range(txChan') \/ (u = cur' /\ wpc' = "process") => u \in overtaken'
    BY <1>1 DEF QueueInv
  <2>3. removing' # NoTx => /\ removing' \notin pool'
                            /\ removing' \in oracleVotingDeploys' => removing' \in overtaken'
    BY <1>1, <1>3 DEF QueueInv
  <2> QED BY <2>1, <2>2, <2>3 DEF QueueInv
<1> QED BY <1>4, <1>5, <1>6, <1>7, <1>8

\* The transaction is listed for its contract, in both maps.
LEMMA ApplyTxSentContractInv == ContractInv /\ ApplyTxSentToContract => ContractInv'
<1> SUFFICES ASSUME ContractInv, ApplyTxSentToContract PROVE ContractInv' OBVIOUS
<1> USE ContractsMemPoolAssumption
<1>1. /\ wpc = "apply" \/ (wpc = "process" /\ Kind[cur] \in {"contract", "send"})
      /\ cur' = NoTx /\ wpc' = "idle"
      /\ contractByTx' = [contractByTx EXCEPT ![cur] = Target[cur]]
      /\ txsByContract' = [txsByContract EXCEPT ![Target[cur]] = @ \cup {cur}]
      /\ UNCHANGED <<pool, events, txChan, removing, oracleVotingDeploys, overtaken, refused>>
  BY DEF ApplyTxSentToContract, Done
<1>2. cur \in ContractTxs /\ cur # NoTx /\ Target[cur] \in Contracts /\ Kind[cur] # "plain"
  BY <1>1 DEF WorkerInv, ContractTypeOK
<1>3. cur \in pool \/ cur \in overtaken BY <1>2 DEF QueueInv, Pending
<1>4. /\ contractByTx \in [ContractTxs -> Contracts \cup {NoTx}]
      /\ txsByContract \in [Contracts -> SUBSET ContractTxs]
  BY DEF ContractTypeOK
<1>5. /\ contractByTx' \in [ContractTxs -> Contracts \cup {NoTx}]
      /\ txsByContract' \in [Contracts -> SUBSET ContractTxs]
      /\ \A u \in ContractTxs : contractByTx'[u] = IF u = cur THEN Target[cur] ELSE contractByTx[u]
      /\ \A c \in Contracts : txsByContract'[c] = IF c = Target[cur] THEN txsByContract[c] \cup {cur} ELSE txsByContract[c]
  BY <1>1, <1>2, <1>4
<1>6. ContractTypeOK' BY <1>1, <1>5 DEF ContractTypeOK
<1>7. LeaksOnlyWhenOvertaken'
  <2>1. Listed' \subseteq Listed \cup {cur} BY <1>1, <1>5 DEF Listed
  <2> QED BY <1>1, <1>3, <2>1 DEF LeaksOnlyWhenOvertaken
<1>8. MapsAgree' BY <1>2, <1>5 DEF MapsAgree, ListsInv
<1>9. ListsInv' BY <1>1, <1>2, <1>5 DEF ListsInv
<1>10. WorkerInv' BY <1>1 DEF WorkerInv
<1>11. DeploysAreListedTwice'
  <2> SUFFICES ASSUME NEW u \in oracleVotingDeploys
               PROVE  u = removing \/ u \in overtaken \/ contractByTx'[u] = Target[u]
    BY <1>1 DEF DeploysAreListedTwice
  <2>1. u \in ContractTxs BY DEF ContractTypeOK
  <2> QED BY <2>1, <1>5 DEF DeploysAreListedTwice
<1>12. QueueInv'
  <2>0. NoTx \notin Range(txChan) BY DEF ContractTypeOK, Range
  <2>1. \A u \in Pending' \ {NoTx} : u \in pool' \/ u \in overtaken' BY <1>1 DEF QueueInv, Pending
  <2> QED BY <1>1, <2>0, <2>1 DEF QueueInv
<1> QED BY <1>6, <1>7, <1>8, <1>9, <1>10, <1>11, <1>12

\* Every step of the two goroutines preserves the invariant.
LEMMA NextContractInv == ContractInv /\ [ContractNext]_contractVars => ContractInv'
<1> SUFFICES ASSUME ContractInv, [ContractNext]_contractVars PROVE ContractInv' OBVIOUS
<1>1. CASE Worker
  BY <1>1, ReceiveContractInv, SkipContractInv, ApplyDeployContractInv, ApplyTxSentContractInv DEF Worker
<1>2. CASE Node
  BY <1>2, ProcessTxContractInv, RemoveDeployTxContractInv, RemoveAddressContractInv DEF Node
<1>3. CASE UNCHANGED contractVars
  <2> USE <1>3 DEF contractVars, indexVars
  <2>1. ContractTypeOK' /\ MapsAgree' /\ DeploysAreListedTwice'
    BY DEF ContractTypeOK, MapsAgree, DeploysAreListedTwice
  <2>2. LeaksOnlyWhenOvertaken' BY DEF LeaksOnlyWhenOvertaken, Listed
  <2>3. WorkerInv' /\ ListsInv' /\ QueueInv' BY DEF WorkerInv, ListsInv, QueueInv, Pending
  <2> QED BY <2>1, <2>2, <2>3
<1> QED BY <1>1, <1>2, <1>3 DEF ContractNext

\* However the worker of the contracts pool and RemoveTx interleave, the two
\* maps of addressContractTxs agree, a deployment is in both indexes, and a
\* transaction that has left the mempool stays listed only when its removal
\* overtook it in the queue or in the worker.
THEOREM ContractListsAreSoundAlways == ContractSpec => []ContractListsAreSound
<1>1. ContractInv => ContractListsAreSound OBVIOUS
<1> QED BY <1>1, InitContractInv, NextContractInv, PTL DEF ContractSpec

=============================================================================
