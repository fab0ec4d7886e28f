------------------------------- MODULE UndoLog -------------------------------
(***************************************************************************)
(* The undo log of the database: the table "changes" and the tables it     *)
(* protects.  Tables that hold only a current value cannot be cut at a     *)
(* height when reset_to takes blocks back, so every update of a row first  *)
(* logs the value it replaces (save_token_balance_updates,                 *)
(* update_balance_update_summary, update_mining_reward_summary), every     *)
(* saved block drops the entries that are old enough (the end of           *)
(* save_addrs_and_txs) and reset_changes_to replays the rest backwards.    *)
(*                                                                         *)
(* Saving a block and resetting are one transaction each.  Their steps are *)
(* modelled one by one on a working copy that a failure throws away.       *)
(*                                                                         *)
(* Abstractions.  A key is a row of one of the three tables; a value is a  *)
(* natural number (the six columns of balance_update_summaries and the two *)
(* of mining_reward_summaries move together and are one value here).       *)
(***************************************************************************)
EXTENDS Integers

CONSTANTS
    TokenKeys,    \* rows of token_balances
    SummaryKeys,  \* rows of balance_update_summaries
    MiningKeys,   \* rows of mining_reward_summaries
    ChangesBlocksCount, \* for how many blocks the log is kept
    MaxHeight,    \* bound: the highest block
    MaxValue,     \* bound: the greatest value of a row
    MaxChanges    \* bound: how many entries are ever logged

ASSUME UndoLogAssumption ==
    /\ TokenKeys \cap (SummaryKeys \cup MiningKeys) = {}
    /\ SummaryKeys \cap MiningKeys = {}
    /\ ChangesBlocksCount \in Nat \ {0}
    /\ MaxHeight \in Nat /\ MaxValue \in Nat /\ MaxChanges \in Nat

Keys   == TokenKeys \cup SummaryKeys \cup MiningKeys
NoRow  == -1
Rows   == [Keys -> {NoRow} \cup 0..MaxValue]
Change == [id : 1..MaxChanges, height : 1..MaxHeight, key : Keys, prev : {NoRow} \cup 0..MaxValue]

VARIABLES
    last,     \* the last saved block
    table,    \* the rows of the three tables
    changes,  \* the table "changes" with the tables that detail it
    nextId,   \* the sequence of changes.id (never taken back)
    tx,       \* the transaction: "none", "save" or "reset"
    target,   \* its block: the one being saved, or the one to reset to
    wtable, wchanges, \* what the transaction sees
    snap,     \* history: the table after each saved block
    floor     \* history: the entries up to this height have been dropped

vars == <<last, table, changes, nextId, tx, target, wtable, wchanges, snap, floor>>

-----------------------------------------------------------------------------

Begin(kind, block) ==
    /\ tx = "none"
    /\ tx' = kind
    /\ target' = block
    /\ wtable' = table
    /\ wchanges' = changes
    /\ UNCHANGED <<last, table, changes, nextId, snap, floor>>

BeginSave == last < MaxHeight /\ Begin("save", last + 1)

\* The transaction is over and this is what the database holds.
End(l, t, c) ==
    /\ tx' = "none" /\ target' = 0
    /\ last' = l
    /\ table' = t /\ wtable' = t
    /\ changes' = c /\ wchanges' = c

\* A failed statement, a lost connection or a crash: nothing is kept.
Rollback ==
    /\ tx # "none"
    /\ End(last, table, changes)
    /\ UNCHANGED <<nextId, snap, floor>>

\* Write a row and log what it replaces.
Put(k, v) ==
    /\ nextId <= MaxChanges
    /\ wtable' = [wtable EXCEPT ![k] = v]
    /\ wchanges' = wchanges \cup {[id |-> nextId, height |-> target, key |-> k, prev |-> wtable[k]]}
    /\ nextId' = nextId + 1
    /\ UNCHANGED <<last, table, changes, tx, target, snap, floor>>

\* save_token_balance_updates: a zero balance deletes the row; where there is
\* no row it is nothing and is not logged.
SaveTokenBalanceUpdate(k, balance) ==
    /\ tx = "save"
    /\ ~(wtable[k] = NoRow /\ balance = 0)
    /\ Put(k, IF balance = 0 THEN NoRow ELSE balance)

\* What a summary row holds after an increase.
Increased(v, diff) == (IF v = NoRow THEN 0 ELSE v) + diff

\* update_balance_update_summary: an update that changes nothing is skipped.
UpdateBalanceUpdateSummary(k, diff) ==
    /\ tx = "save"
    /\ diff # 0
    /\ Increased(wtable[k], diff) <= MaxValue
    /\ Put(k, Increased(wtable[k], diff))

\* update_mining_reward_summary: logged even if the reward is zero.
UpdateMiningRewardSummary(k, amount) ==
    /\ tx = "save"
    /\ Increased(wtable[k], amount) <= MaxValue
    /\ Put(k, Increased(wtable[k], amount))

\* The entries that survive the save of block h.
Kept(c, h) == {e \in c : e.height > h - ChangesBlocksCount}

CommitSave ==
    /\ tx = "save"
    /\ End(target, wtable, Kept(wchanges, target))
    /\ snap' = [snap EXCEPT ![target] = wtable]
    /\ floor' = IF target - ChangesBlocksCount > floor THEN target - ChangesBlocksCount ELSE floor
    /\ UNCHANGED nextId

-----------------------------------------------------------------------------

BeginReset(p) == p < last /\ Begin("reset", p)

\* The newest entry above the target: reset_changes_to goes by id, downwards.
Newest(e) ==
    /\ e \in wchanges
    /\ e.height > target
    /\ \A d \in wchanges : d.height > target => d.id <= e.id

\* Mutant: the row that the change inserted stays.
UndoneUpdatesOnly(e) ==
    IF e.prev = NoRow THEN wtable[e.key]
    ELSE IF e.key \in TokenKeys \/ wtable[e.key] # NoRow THEN e.prev ELSE NoRow

\* reset_token_balances_changes writes the row back whether it is there or not
\* (on conflict do update); the two summaries only update a row that is there.
Undone(e) ==
    IF e.prev = NoRow \/ e.key \in TokenKeys \/ wtable[e.key] # NoRow THEN e.prev ELSE NoRow

UndoChange ==
    /\ tx = "reset"
    /\ \E e \in wchanges :
        /\ Newest(e)
        /\ wtable' = [wtable EXCEPT ![e.key] = Undone(e)]
        /\ wchanges' = wchanges \ {e}
    /\ UNCHANGED <<last, table, changes, nextId, tx, target, snap, floor>>

CommitReset ==
    /\ tx = "reset"
    /\ \A e \in wchanges : e.height <= target
    /\ End(target, wtable, wchanges)
    /\ UNCHANGED <<nextId, snap, floor>>

-----------------------------------------------------------------------------

Init ==
    /\ last = 0
    /\ table = [k \in Keys |-> NoRow]
    /\ changes = {}
    /\ nextId = 1
    /\ tx = "none" /\ target = 0
    /\ wtable = table /\ wchanges = {}
    /\ snap = [h \in 0..MaxHeight |-> [k \in Keys |-> NoRow]]
    /\ floor = 0

Update ==
    \/ \E k \in TokenKeys, b \in 0..MaxValue : SaveTokenBalanceUpdate(k, b)
    \/ \E k \in SummaryKeys, d \in 0..MaxValue : UpdateBalanceUpdateSummary(k, d)
    \/ \E k \in MiningKeys, a \in 0..MaxValue : UpdateMiningRewardSummary(k, a)

Reset == (\E p \in 0..MaxHeight : BeginReset(p)) \/ UndoChange \/ CommitReset

Next == BeginSave \/ Update \/ CommitSave \/ Reset \/ Rollback

Spec == Init /\ [][Next]_vars

-----------------------------------------------------------------------------

TypeOK ==
    /\ last \in 0..MaxHeight
    /\ table \in Rows /\ wtable \in Rows
    /\ changes \subseteq Change /\ wchanges \subseteq Change
    /\ nextId \in 1..(MaxChanges + 1)
    /\ tx \in {"none", "save", "reset"}
    /\ target \in 0..MaxHeight
    /\ snap \in [0..MaxHeight -> Rows]
    /\ floor \in 0..MaxHeight

\* After any number of saves, failures and resets the tables hold exactly what
\* they held when the last block was saved: the backward replay of "changes"
\* is exact as long as the height it goes back to has not left the log.  Below
\* that height reset_to does not refuse and does not restore.
TablesFollowBlocks == tx = "none" /\ last >= floor => table = snap[last]
=============================================================================
