--------------------------- MODULE ContractCalls ---------------------------
(***************************************************************************)
(* What the statistics collector gathers while the virtual machine runs    *)
(* the contract of a transaction (core/stats/collector.go).  A contract    *)
(* may call others; every running call has a cache of its own, keyed by    *)
(* the balances of that call, for the balance updates and the burnt coins  *)
(* it causes.  A call that succeeds is imported into the cache of its      *)
(* caller, one that fails is dropped; the receipt of the transaction moves *)
(* what is left into the statistics of the block, if it succeeded.         *)
(*                                                                         *)
(* The virtual machine is external: a call sees the balances of its caller *)
(* at the moment it starts, and the caller takes over the balances of a    *)
(* call that succeeds.                                                     *)
(***************************************************************************)
EXTENDS Integers, Sequences, SequencesExt, FiniteSetsExt

CONSTANTS
    Holders,       \* addresses of contracts and of the sender
    Sender,        \* the sender of the transactions
    MaxDepth,      \* bound: calls running at a time
    MaxOps,        \* bound: operations of the virtual machine in the block
    MaxContractTxs \* bound: contract transactions in the block

ASSUME ContractAssumption == /\ Sender \in Holders
                             /\ MaxDepth \in Nat \ {0} /\ MaxOps \in Nat /\ MaxContractTxs \in Nat

VARIABLES
    stateBalances, \* the node's balances
    calls,         \* the running calls, the last one on top; <<>>: no contract is running
    txNo,          \* number of the transaction being applied
    stage,         \* "idle", "running", "done": its contract has not started, runs, is over
    txUpdates,     \* c.pending.tx.contractBalanceUpdates
    txBurnt,       \* c.pending.tx.contractBurntCoins
    txSuccess,     \* whether the contract of the transaction succeeded
    statUpdates,   \* c.stats.BalanceUpdates
    statBurnt,     \* c.stats.BurntCoinsByAddr
    txBalances,    \* c.stats.ContractTxsBalanceUpdates
    vmOps,         \* operations so far
    burntByCode,   \* history: coins that the successful calls burnt
    rewritten      \* history: see Rewrites

callVars == <<stateBalances, calls, txNo, stage, txUpdates, txBurnt, txSuccess,
              statUpdates, statBurnt, txBalances, vmOps, burntByCode, rewritten>>

StartBalance == 2

\* A contractBalanceUpdate.
Update == [addr : Holders, old : Nat, new : Nat]
Changed == {u \in Update : u.old # u.new}
Of(a) == {u \in Update : u.addr = a}

\* The updates of a list that are in a set.
Filter(list, kept) ==
    LET upTo[n \in 0..Len(list)] ==
            IF n = 0 THEN <<>>
            ELSE IF list[n] \in kept THEN Append(upTo[n - 1], list[n]) ELSE upTo[n - 1]
    IN  upTo[Len(list)]

\* A call: its balances, its balanceUpdateCache (updates, and where the update of
\* an address is), its burntCoinsCache, and its share of the two histories.
NewCall(balances) ==
    [balances |-> balances, updates |-> <<>>, updateOf |-> <<>>,
     coins |-> <<>>, coinsOf |-> <<>>, burnt |-> 0, rewritten |-> {}]

Top == calls[Len(calls)]
Enter(f, x, y) == [z \in DOMAIN f \cup {x} |-> IF z = x THEN y ELSE f[z]]

\* Mutant: a later update starts from where the address is.
addUpdateAnew(call, addr, new) ==
    IF addr \in DOMAIN call.updateOf
    THEN [call EXCEPT !.updates[call.updateOf[addr]] =
                          [addr |-> addr, old |-> call.balances[addr], new |-> new]]
    ELSE [call EXCEPT !.updates  = Append(@, [addr |-> addr, old |-> call.balances[addr], new |-> new]),
                      !.updateOf = Enter(@, addr, Len(call.updates) + 1)]

\* balanceUpdateCache.add, with updateBalanceUpdate: the first update of an
\* address keeps the balance it started from, later ones move its end.
addUpdate(call, addr, new) ==
    IF addr \in DOMAIN call.updateOf
    THEN [call EXCEPT !.updates[call.updateOf[addr]].new = new]
    ELSE [call EXCEPT !.updates  = Append(@, [addr |-> addr, old |-> call.balances[addr], new |-> new]),
                      !.updateOf = Enter(@, addr, Len(call.updates) + 1)]

\* burntCoinsCache.add.
addCoins(call, addr, amount) ==
    IF amount = 0 THEN call
    ELSE IF addr \in DOMAIN call.coinsOf
    THEN [call EXCEPT !.coins[call.coinsOf[addr]].amount = @ + amount]
    ELSE [call EXCEPT !.coins   = Append(@, [addr |-> addr, amount |-> amount]),
                      !.coinsOf = Enter(@, addr, Len(call.coins) + 1)]

\* The two importFrom: the entries of the call are appended, the index of the
\* caller still leads to its own entries only.
importFrom(caller, call) ==
    [caller EXCEPT !.balances  = call.balances,
                   !.updates   = @ \o call.updates,
                   !.coins     = @ \o call.coins,
                   !.burnt     = @ + call.burnt,
                   !.rewritten = @ \cup call.rewritten]

\* A call writes to an address after a call it made has written to it too.
Rewrites(call, addr) ==
    /\ addr \in DOMAIN call.updateOf
    /\ \E i \in DOMAIN call.updates : i > call.updateOf[addr] /\ call.updates[i].addr = addr

-----------------------------------------------------------------------------
VmStep ==
    /\ stage = "running"
    /\ vmOps < MaxOps
    /\ vmOps' = vmOps + 1
    /\ UNCHANGED <<stateBalances, txNo, stage, txUpdates, txBurnt, txSuccess, statUpdates,
                   statBurnt, txBalances, burntByCode, rewritten>>

\* The transaction's contract starts (external).
StartContract ==
    /\ stage = "idle"
    /\ txNo < MaxContractTxs
    /\ txNo' = txNo + 1
    /\ stage' = "running"
    /\ calls' = <<NewCall(stateBalances)>>
    /\ UNCHANGED <<stateBalances, txUpdates, txBurnt, txSuccess, statUpdates, statBurnt,
                   txBalances, vmOps, burntByCode, rewritten>>

\* The running contract calls another one (external).
CallContract ==
    /\ VmStep
    /\ Len(calls) < MaxDepth
    /\ calls' = Append(calls, NewCall(Top.balances))

AddContractBalanceUpdate(addr, new) ==
    /\ VmStep
    /\ new # Top.balances[addr]
    /\ calls' = [calls EXCEPT ![Len(calls)] =
                    [addUpdate(Top, addr, new) EXCEPT
                        !.balances[addr] = new,
                        !.rewritten = IF Rewrites(Top, addr) THEN @ \cup {addr} ELSE @]]

\* The contract burns what an address has: AddContractBurntCoins, then the
\* update of its balance.
AddContractBurntCoins(addr) ==
    LET amount == Top.balances[addr]
        burnt  == addCoins(Top, addr, amount)
    IN  /\ VmStep
        /\ amount > 0
        /\ calls' = [calls EXCEPT ![Len(calls)] =
                        [addUpdate(burnt, addr, 0) EXCEPT
                            !.balances[addr] = 0,
                            !.burnt = @ + amount,
                            !.rewritten = IF Rewrites(Top, addr) THEN @ \cup {addr} ELSE @]]

\* A nested call ends; ApplyContractBalanceUpdates(cache, parent) if it succeeded.
ReturnFromCall(success) ==
    /\ stage = "running"
    /\ Len(calls) > 1
    /\ LET caller == Len(calls) - 1
       IN  calls' = [SubSeq(calls, 1, caller) EXCEPT
                        ![caller] = IF success THEN importFrom(@, Top) ELSE @]
    /\ UNCHANGED <<stateBalances, txNo, stage, txUpdates, txBurnt, txSuccess, statUpdates,
                   statBurnt, txBalances, vmOps, burntByCode, rewritten>>

\* The first call ends; ApplyContractBalanceUpdates(cache, nil) if it succeeded.
FinishContract(success) ==
    /\ stage = "running"
    /\ Len(calls) = 1
    /\ stage' = "done"
    /\ txSuccess' = success
    /\ calls' = <<>>
    /\ IF success
       THEN /\ txUpdates' = txUpdates \o Top.updates
            /\ txBurnt' = txBurnt \o Top.coins
            /\ stateBalances' = Top.balances
            /\ burntByCode' = burntByCode + Top.burnt
            /\ rewritten' = rewritten \cup Top.rewritten
       ELSE UNCHANGED <<txUpdates, txBurnt, stateBalances, burntByCode, rewritten>>
    /\ UNCHANGED <<txNo, statUpdates, statBurnt, txBalances, vmOps>>

\* AddContractTerminationBurntCoins: a terminated contract returns less than its
\* stake.  It is not cached: only an embedded contract, which calls no other, ends so.
AddContractTerminationBurntCoins(addr, stake, refund) ==
    /\ stage = "running" /\ Len(calls) = 1 /\ txBurnt = <<>>
    /\ txBurnt' = IF stake = refund THEN txBurnt
                  ELSE Append(txBurnt, [addr |-> addr, amount |-> stake - refund])
    /\ calls' = [calls EXCEPT ![1].burnt = @ + (stake - refund)]
    /\ vmOps < MaxOps /\ vmOps' = vmOps + 1
    /\ UNCHANGED <<stateBalances, txNo, stage, txUpdates, txSuccess, statUpdates, statBurnt,
                   txBalances, burntByCode, rewritten>>

\* The rows of a transaction in ContractTxsBalanceUpdates: one of the sender,
\* empty (here 0, 0) unless its balance changed, and one per other update.
TxBalanceRows(changed) ==
    LET ofSender == Filter(changed, Of(Sender))
        senderRow == IF ofSender = <<>> THEN [addr |-> Sender, old |-> 0, new |-> 0] ELSE Last(ofSender)
    IN  <<senderRow>> \o Filter(changed, Update \ Of(Sender))

\* The receipt of a transaction; a deployment that failed has no rows.
AddTxReceipt(isDeploy) ==
    /\ stage = "done"
    /\ LET changed == IF txSuccess THEN Filter(txUpdates, Changed) ELSE <<>>
       IN  /\ statUpdates' = statUpdates \o changed
           /\ statBurnt' = statBurnt \o IF txSuccess THEN txBurnt ELSE <<>>
           /\ txBalances' = IF isDeploy /\ ~txSuccess THEN txBalances
                            ELSE Append(txBalances, [tx |-> txNo, rows |-> TxBalanceRows(changed)])
    /\ stage' = "applied"
    /\ UNCHANGED <<stateBalances, calls, txNo, txUpdates, txBurnt, txSuccess, vmOps, burntByCode, rewritten>>

\* CompleteApplyingTx, then BeginApplyingTx of the next one: a new pending transaction.
NextTx ==
    /\ stage = "applied"
    /\ stage' = "idle"
    /\ txUpdates' = <<>> /\ txBurnt' = <<>>
    /\ txSuccess' = FALSE
    /\ UNCHANGED <<stateBalances, calls, txNo, statUpdates, statBurnt, txBalances, vmOps,
                   burntByCode, rewritten>>

CallInit ==
    /\ stateBalances = [a \in Holders |-> StartBalance]
    /\ calls = <<>> /\ txNo = 0 /\ stage = "idle"
    /\ txUpdates = <<>> /\ txBurnt = <<>> /\ txSuccess = FALSE
    /\ statUpdates = <<>> /\ statBurnt = <<>> /\ txBalances = <<>>
    /\ vmOps = 0 /\ burntByCode = 0 /\ rewritten = {}

CallNext ==
    \/ StartContract \/ CallContract \/ NextTx
    \/ \E isDeploy \in BOOLEAN : AddTxReceipt(isDeploy)
    \/ \E a \in Holders, new \in 0..StartBalance + 1 : AddContractBalanceUpdate(a, new)
    \/ \E a \in Holders : AddContractBurntCoins(a)
    \/ \E success \in BOOLEAN : ReturnFromCall(success) \/ FinishContract(success)
    \/ \E refund \in 0..1 : AddContractTerminationBurntCoins(Sender, 1, refund)

-----------------------------------------------------------------------------
(* Types; the index of a running call (balanceUpdateCache) leads to updates   *)
(* of the address, also after it has imported those of other calls.           *)
CallTypeOK ==
    /\ stateBalances \in [Holders -> Nat]
    /\ stage \in {"idle", "running", "done", "applied"}
    /\ Len(calls) <= MaxDepth /\ (calls = <<>>) = (stage # "running")
    /\ txNo \in 0..MaxContractTxs /\ vmOps \in 0..MaxOps /\ rewritten \subseteq Holders
    /\ \A i \in DOMAIN statUpdates : statUpdates[i].addr \in Holders
    /\ \A i \in DOMAIN calls : \A a \in DOMAIN calls[i].updateOf :
          calls[i].updates[calls[i].updateOf[a]].addr = a

\* Where the updates of an address in a list lead from a balance; Gap if one of
\* them does not start where the one before ended.
Gap == -1
BalanceAfter(list, a, balance) ==
    LET after[n \in 0..Len(list)] ==
            IF n = 0 THEN balance
            ELSE IF list[n].addr # a THEN after[n - 1]
            ELSE IF list[n].old = after[n - 1] THEN list[n].new ELSE Gap
    IN  after[Len(list)]

\* The coins of a list.
CoinsIn(list) ==
    LET upTo[n \in 0..Len(list)] == IF n = 0 THEN 0 ELSE upTo[n - 1] + list[n].amount
    IN  upTo[Len(list)]

\* The rows of the transactions, put together.
RowsOfTxs(txs) ==
    LET upTo[n \in 0..Len(txs)] == IF n = 0 THEN <<>> ELSE upTo[n - 1] \o txs[n].rows
    IN  upTo[Len(txs)]

(* Between two transactions the contract updates of an address lead without  *)
(* a gap from its balance before the block to its balance now, although they *)
(* come from nested calls some of which failed.  The exception is an address *)
(* that a call wrote to again after a call it made had: importFrom leaves    *)
(* the index of the caller alone, and the later write changes the caller's   *)
(* first update, behind which the one of the nested call stays.              *)
ContractUpdatesChain ==
    stage \in {"idle", "applied"} =>
        \A a \in Holders \ rewritten : BalanceAfter(statUpdates, a, StartBalance) = stateBalances[a]

(* The coins recorded as burnt are those the successful calls burnt: nothing *)
(* of a failed call or of a failed transaction, nothing twice, nothing of    *)
(* the transaction before.                                                   *)
ContractBurntCoinsAreRecorded ==
    stage \in {"idle", "applied"} => CoinsIn(statBurnt) = burntByCode

(* The rows kept per transaction name every address whose balance the        *)
(* transaction changed, and put together they are the updates of the block.  *)
TxRowsCoverUpdates ==
    stage \in {"idle", "applied"} =>
        \A a \in Holders \ {Sender} : Filter(RowsOfTxs(txBalances), Of(a)) = Filter(statUpdates, Of(a))

\* What is collected of a contract transaction (ApplyContractBalanceUpdates,
\* AddTxReceipt) is exact however its calls nest and whichever of them fail:
\* its updates chain, its burnt coins are recorded and its rows cover its
\* updates.
ContractStatsAreExact ==
    /\ CallTypeOK
    /\ ContractUpdatesChain
    /\ ContractBurntCoinsAreRecorded
    /\ TxRowsCoverUpdates
=============================================================================
