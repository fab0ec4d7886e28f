------------------------------ MODULE TxMemPool ------------------------------
(***************************************************************************)
(* The transactions of the node's mempool as the API serves them:          *)
(* core/holder/transaction/mempool_txs.go.  The pool keeps two indexes, by *)
(* hash and by address; each has a lock of its own, and so has the set of  *)
(* transactions of an address (a txsByHashWrapper).  Writers hold the lock *)
(* of the pool, readers do not: a reader looks up the set of an address,   *)
(* lets go of the index and then reads the set, which the writer may have  *)
(* emptied, dropped from the index and replaced by another meanwhile.      *)
(*                                                                         *)
(* Abstractions.  A step is what happens under one lock; what a writer     *)
(* only reads, or does to a set that is not in the index yet, is part of   *)
(* its next visible step.  The sets are numbered in the order in which     *)
(* they are made.  Calls come in any order and for any transaction.        *)
(***************************************************************************)
EXTENDS Integers, FiniteSets

CONSTANTS
    Txs, Addresses, Readers,
    Sender,   \* the sender of each transaction
    To,       \* the receiver of each transaction, NoAddress when it has none
    NoAddress,
    None,     \* no transaction
    MaxSets   \* bound: how many sets of transactions are ever made

ASSUME TxMemPoolAssumption ==
    /\ Sender \in [Txs -> Addresses]
    /\ To \in [Txs -> Addresses \cup {NoAddress}]
    /\ NoAddress \notin Addresses
    /\ None \notin Txs /\ IsFiniteSet(Txs)
    /\ MaxSets \in Nat

NoSet == 0

VARIABLES
    txsByHash,    \* the transactions in the index by hash
    txsByAddress, \* the set of each address in the index, or NoSet
    sets,         \* what is in each set
    made,         \* how many sets have been made
    op, tx,       \* the call that holds the lock of the pool, its transaction
    todo,         \* the addresses it has yet to index the transaction for
    emptied,      \* the address whose set it has just emptied
    rpc,          \* of each reader: "idle", "lookup", "read"
    raddr, rset,  \* the address it asks for, the set it has found
    res,          \* what it has returned
    stable,       \* history: in the pool since the call began
    possible      \* history: in the pool at some time since the call began

poolVars   == <<txsByHash, txsByAddress, sets, made>>
writerVars == <<op, tx, todo, emptied>>
readerVars == <<rpc, raddr, rset, res>>
histVars   == <<stable, possible>>
vars       == <<poolVars, writerVars, readerVars, histVars>>

\* The addresses a transaction is indexed for (a transaction to its own sender
\* is added and removed twice, the second time without any effect).
Parties(t) == {Sender[t]} \cup ({To[t]} \ {NoAddress})

\* The sender comes before the receiver.
Turn(a) == a \in todo /\ (Sender[tx] \in todo => a = Sender[tx])

\* The transactions whose call of AddTransaction has returned and whose call
\* of RemoveTransaction has not begun.
InPool == txsByHash \ {tx}

-----------------------------------------------------------------------------
(* Writers: AddTransaction and RemoveTransaction hold the lock of the pool. *)

\* txsByHash.add
AddTransaction(t) ==
    /\ op = "none"
    /\ op' = "add" /\ tx' = t /\ todo' = Parties(t)
    /\ txsByHash' = txsByHash \cup {t}
    /\ possible' = [r \in Readers |-> possible[r] \cup {t}]
    /\ UNCHANGED <<txsByAddress, sets, made, emptied, readerVars, stable>>

\* Mutant: the set of the address is always a new one.
AddAddressTxToNewSet(a) ==
    /\ op = "add" /\ Turn(a)
    /\ todo' = todo \ {a}
    /\ made < MaxSets
    /\ made' = made + 1
    /\ sets' = [sets EXCEPT ![made + 1] = {tx}]
    /\ txsByAddress' = [txsByAddress EXCEPT ![a] = made + 1]
    /\ UNCHANGED <<txsByHash, op, tx, emptied, readerVars, histVars>>

\* addAddressTx: the transaction joins the set of the address, or a new set
\* joins the index.
AddAddressTx(a) ==
    /\ op = "add" /\ Turn(a)
    /\ todo' = todo \ {a}
    /\ IF txsByAddress[a] # NoSet
       THEN /\ sets' = [sets EXCEPT ![txsByAddress[a]] = @ \cup {tx}]
            /\ UNCHANGED <<made, txsByAddress>>
       ELSE /\ made < MaxSets
            /\ made' = made + 1
            /\ sets' = [sets EXCEPT ![made + 1] = {tx}]
            /\ txsByAddress' = [txsByAddress EXCEPT ![a] = made + 1]
    /\ UNCHANGED <<txsByHash, op, tx, emptied, readerVars, histVars>>

\* A transaction that is not in the pool is left alone.
RemoveTransaction(t) ==
    /\ op = "none"
    /\ t \in txsByHash
    /\ op' = "remove" /\ tx' = t /\ todo' = Parties(t)
    /\ txsByHash' = txsByHash \ {t}
    /\ stable' = [r \in Readers |-> stable[r] \ {t}]
    /\ UNCHANGED <<txsByAddress, sets, made, emptied, readerVars, possible>>

\* Mutant: the set of the address is dropped without a look at what is left.
RemoveByAddressAlways(a) ==
    /\ op = "remove" /\ Turn(a) /\ emptied = NoAddress
    /\ todo' = todo \ {a}
    /\ IF txsByAddress[a] = NoSet
       THEN UNCHANGED <<sets, emptied>>
       ELSE /\ sets' = [sets EXCEPT ![txsByAddress[a]] = @ \ {tx}]
            /\ emptied' = a
    /\ UNCHANGED <<txsByHash, txsByAddress, made, op, tx, readerVars, histVars>>

\* removeByAddressAndHash takes it from the set of the address, and looks
\* whether something is left there.
RemoveByAddressAndHash(a) ==
    /\ op = "remove" /\ Turn(a) /\ emptied = NoAddress
    /\ todo' = todo \ {a}
    /\ IF txsByAddress[a] = NoSet
       THEN UNCHANGED <<sets, emptied>>
       ELSE /\ sets' = [sets EXCEPT ![txsByAddress[a]] = @ \ {tx}]
            /\ emptied' = IF sets[txsByAddress[a]] \subseteq {tx} THEN a ELSE NoAddress
    /\ UNCHANGED <<txsByHash, txsByAddress, made, op, tx, readerVars, histVars>>

\* An empty set leaves the index.
DeleteEmptied ==
    /\ emptied # NoAddress
    /\ txsByAddress' = [txsByAddress EXCEPT ![emptied] = NoSet]
    /\ emptied' = NoAddress
    /\ UNCHANGED <<txsByHash, sets, made, op, tx, todo, readerVars, histVars>>

Return ==
    /\ op # "none" /\ todo = {} /\ emptied = NoAddress
    /\ op' = "none" /\ tx' = None
    /\ UNCHANGED <<poolVars, todo, emptied, readerVars, histVars>>

-----------------------------------------------------------------------------
(* Readers: GetAddressTransactions. *)

Call(r, a) ==
    /\ rpc[r] = "idle"
    /\ rpc' = [rpc EXCEPT ![r] = "lookup"]
    /\ raddr' = [raddr EXCEPT ![r] = a]
    /\ res' = [res EXCEPT ![r] = {}]
    /\ stable' = [stable EXCEPT ![r] = InPool]
    /\ possible' = [possible EXCEPT ![r] = txsByHash \cup ({tx} \ {None})]
    /\ UNCHANGED <<poolVars, writerVars, rset>>

\* txsByAddressWrapper.get: an address that is not in the index has nothing.
Lookup(r) ==
    /\ rpc[r] = "lookup"
    /\ rset' = [rset EXCEPT ![r] = txsByAddress[raddr[r]]]
    /\ rpc' = [rpc EXCEPT ![r] = IF txsByAddress[raddr[r]] = NoSet THEN "idle" ELSE "read"]
    /\ UNCHANGED <<poolVars, writerVars, raddr, res, histVars>>

\* all(count): as many of the set as are asked for, in the order of a Go map.
\* An answer that is cut off promises nothing about the rest.
All(r, count) ==
    /\ rpc[r] = "read"
    /\ \E s \in SUBSET sets[rset[r]] :
        /\ Cardinality(s) = IF count < Cardinality(sets[rset[r]]) THEN count
                            ELSE Cardinality(sets[rset[r]])
        /\ res' = [res EXCEPT ![r] = s]
        /\ stable' = IF Cardinality(s) < count THEN stable ELSE [stable EXCEPT ![r] = {}]
    /\ rpc' = [rpc EXCEPT ![r] = "idle"]
    /\ UNCHANGED <<poolVars, writerVars, raddr, rset, possible>>

-----------------------------------------------------------------------------

Init ==
    /\ txsByHash = {}
    /\ txsByAddress = [a \in Addresses |-> NoSet]
    /\ sets = [s \in 1..MaxSets |-> {}]
    /\ made = 0
    /\ op = "none" /\ tx = None /\ todo = {} /\ emptied = NoAddress
    /\ rpc = [r \in Readers |-> "idle"]
    /\ raddr = [r \in Readers |-> NoAddress]
    /\ rset = [r \in Readers |-> NoSet]
    /\ res = [r \in Readers |-> {}]
    /\ stable = [r \in Readers |-> {}]
    /\ possible = [r \in Readers |-> {}]

Writer ==
    \/ \E t \in Txs : AddTransaction(t) \/ RemoveTransaction(t)
    \/ \E a \in Addresses : AddAddressTx(a) \/ RemoveByAddressAndHash(a)
    \/ DeleteEmptied \/ Return

Reader(r) ==
    \/ \E a \in Addresses : Call(r, a)
    \/ Lookup(r)
    \/ \E count \in 0..Cardinality(Txs) : All(r, count)

Next == Writer \/ \E r \in Readers : Reader(r)

Spec == Init /\ [][Next]_vars

-----------------------------------------------------------------------------

TypeOK ==
    /\ txsByHash \subseteq Txs
    /\ txsByAddress \in [Addresses -> 0..MaxSets]
    /\ sets \in [1..MaxSets -> SUBSET Txs]
    /\ made \in 0..MaxSets
    /\ op \in {"none", "add", "remove"}
    /\ tx \in Txs \cup {None}
    /\ todo \subseteq Addresses /\ emptied \in Addresses \cup {NoAddress}
    /\ rpc \in [Readers -> {"idle", "lookup", "read"}]
    /\ raddr \in [Readers -> Addresses \cup {NoAddress}]
    /\ rset \in [Readers -> 0..MaxSets]
    /\ res \in [Readers -> SUBSET Txs]
    /\ stable \in [Readers -> SUBSET Txs] /\ possible \in [Readers -> SUBSET Txs]

\* The transactions of the pool that belong to an address.
TxsOf(a) == {t \in txsByHash : a \in Parties(t)}

\* Whenever no call holds the lock of the pool, the index by address is exactly
\* the index by hash grouped by address, and no set of it is empty: the pool
\* does not grow with addresses that have left it.
IndexesAgree ==
    op = "none" => \A a \in Addresses :
        IF txsByAddress[a] = NoSet THEN TxsOf(a) = {}
        ELSE TxsOf(a) # {} /\ sets[txsByAddress[a]] = TxsOf(a)

\* The indexes of the pool are sound under concurrent calls of AddTransaction
\* and RemoveTransaction: a call holds the lock or leaves them in agreement,
\* and no set outlives its last transaction in them.
IndexesAreSound == TypeOK /\ IndexesAgree

\* GetAddressTransactions does not miss a transaction that is in the pool from
\* the beginning of the call to its end, although the set it reads may have
\* left the index in between (unless the answer is cut off by the count).
ReadersMissNothing == \A r \in Readers :
    rpc[r] = "idle" => {t \in stable[r] : raddr[r] \in Parties(t)} \subseteq res[r]

\* GetAddressTransactions returns only transactions of the address, and only
\* such as were in the pool, or on their way in or out, during the call.
ReadersSeeOnlyThePool == \A r \in Readers :
    res[r] \subseteq {t \in possible[r] : raddr[r] \in Parties(t)}

\* GetAddressTransactions, which reads a set that may have left the index,
\* answers what a reader of the pool may expect: everything that stayed
\* during the call, and nothing that was not there.
ReadersSeeThePool == ReadersMissNothing /\ ReadersSeeOnlyThePool
=============================================================================
