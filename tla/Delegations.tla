---------------------------- MODULE Delegations ----------------------------
(***************************************************************************)
(* Delegations and pools: what the indexer detects of them in a block      *)
(* (indexer/delegation.go), the tables delegations, pool_sizes and         *)
(* pools_summary, which are kept up to date one switch at a time           *)
(* (save_delegation_switches, update_pool_sizes), and delegation_history   *)
(* with its undo log (update_delegation_history and                        *)
(* reset_delegation_history_changes).                                      *)
(*                                                                         *)
(* The node is external.  It keeps for every identity its delegatee and    *)
(* whether it is validated, and a list of switches waiting for the next    *)
(* block with the flag IdentityUpdate, where each is applied or dropped.   *)
(* Its size of a pool counts the pool's validated members.                 *)
(*                                                                         *)
(* Abstractions: a null column is 0 or NoReason; undelegation_tx_id, which *)
(* comes with its reason, and birth_epoch are left out.                    *)
(***************************************************************************)
EXTENDS Integers, Sequences, FiniteSets, SequencesExt

CONSTANTS
  Delegator, Pool,     \* addresses that delegate, addresses delegated to
  NoOne,               \* no delegatee
  ChangesBlocksCount,  \* for how many blocks the undo log is kept
  MaxHeight,           \* bound: recorded blocks
  MaxResets,           \* bound: calls of reset_to
  MaxTx,               \* bound: delegation transactions
  MaxChanged           \* bound: identities a block kills or changes

ASSUME DelegationsAssumption ==
  /\ Delegator \cap Pool = {} /\ NoOne \notin Delegator \cup Pool
  /\ IsFiniteSet(Delegator) /\ IsFiniteSet(Pool)
  /\ ChangesBlocksCount \in Nat \ {0}
  /\ {MaxHeight, MaxResets, MaxTx, MaxChanged} \subseteq Nat

NoReason == "none"
NoRow    == -1

VARIABLES
  node,      \* the node's state: [delegatee, valid, waiting]
  pools,     \* [delegations, sizes, summary]: the three tables
  history,   \* delegation_history, a set of rows
  changes,   \* the undo log of the history, oldest first
  snap,      \* history: node and history table after each recorded block
  floor,     \* history: log entries up to this height have been dropped
  restored,  \* the tables emptied by reset_to have been filled again
  txs,       \* the number of delegation transactions recorded so far
  resets

vars == <<node, pools, history, changes, snap, floor, restored, txs, resets>>

Height == Len(snap)
Without(table, gone) == [k \in DOMAIN table \ gone |-> table[k]]
With(table, k, v) == [j \in DOMAIN table \cup {k} |-> IF j = k THEN v ELSE table[j]]

-----------------------------------------------------------------------------
(* The node. *)

PoolSize(n, p) ==
  Cardinality({a \in Delegator : n.delegatee[a] = p /\ a \in n.valid})
    + (IF p \in n.valid THEN 1 ELSE 0)

IsPool(n, p) == \E a \in Delegator : n.delegatee[a] = p

\* The state after a block with the flag IdentityUpdate: the waiting switches
\* that are not dropped are applied, the killed identities and the removed
\* transitive delegations lose their delegatee.
AfterUpdate(n, killed, dropped, removed, flipped) ==
  [delegatee |-> [a \in Delegator |->
      IF a \in killed \cup removed THEN NoOne
      ELSE IF a \in DOMAIN n.waiting \ dropped THEN n.waiting[a]
      ELSE n.delegatee[a]],
   valid   |-> ((n.valid \cup flipped) \ (n.valid \cap flipped)) \ killed,
   waiting |-> Without(n.waiting, DOMAIN n.waiting)]

-----------------------------------------------------------------------------
(* Detection: indexer/delegation.go.  A switch is [who, to]; a history
   update is [who, tx, dblock, reason, ublock]. *)

Update(who, tx, dblock, reason, ublock) ==
  [who |-> who, tx |-> tx, dblock |-> dblock, reason |-> reason, ublock |-> ublock]

\* detectDelegationSwitch finds nothing only if there is no delegatee before
\* and after: the two delegatees are compared as pointers into two states, so
\* an unchanged delegatee is a switch to itself.
Detected(a, prev, new) == prev.delegatee[a] # NoOne \/ new.delegatee[a] # NoOne

KilledUpdate(a, h) == Update(a, 0, 0, "killed", h)

\* buildDelegationHistoryUpdate, or the failure to apply the switch.
SwitchUpdate(a, prev, new, h) ==
  CASE ~Detected(a, prev, new)      -> Update(a, 0, h, "applyingFailure", h)
    [] new.delegatee[a] # NoOne     -> Update(a, 0, h, NoReason, 0)
    [] OTHER                        -> Update(a, 0, 0, NoReason, h)

\* The senders of the block's own transactions that are left once the killed
\* and the waiting ones are handled.  An undelegation without effect, unlike a
\* delegation, is not a failure.
LeftOver(sent, handled, prev, new) ==
  {a \in Delegator \ handled :
     \E i \in DOMAIN sent : sent[i].who = a /\ (Detected(a, prev, new) \/ sent[i].to # NoOne)}

\* The switches of the killed identities that delegated, then of the candidates
\* (the waiting ones and what is left over) where one is detected, then of the
\* removed transitive delegations.
DelegationSwitches(killed, candidates, removed, new) ==
  LET to(a) == [who |-> a, to |-> new.delegatee[a]]
      undelegated(a) == [who |-> a, to |-> NoOne]
  IN  [i \in DOMAIN killed |-> undelegated(killed[i])]
        \o [i \in DOMAIN candidates |-> to(candidates[i])]
        \o [i \in DOMAIN removed |-> undelegated(removed[i])]

HistoryUpdates(killed, candidates, removed, prev, new, h) ==
  [i \in DOMAIN killed |-> KilledUpdate(killed[i], h)]
    \o [i \in DOMAIN candidates |-> SwitchUpdate(candidates[i], prev, new, h)]
    \o [i \in DOMAIN removed |-> Update(removed[i], 0, 0, "transitive", h)]

\* Mutant: only the pools of the switched delegators.
SwitchedPools(switches, changed, prev, new) ==
  LET affected == {switches[i].who : i \in DOMAIN switches} IN
  {prev.delegatee[a] : a \in affected \cap Delegator}
    \cup {new.delegatee[a] : a \in affected \cap Delegator}

\* detectPoolSizeUpdates: the pools whose size is written again, from the
\* delegators switched and the addresses whose state changed.
PoolsToUpdate(switches, changed, prev, new) ==
  LET affected == {switches[i].who : i \in DOMAIN switches} \cup changed IN
  {p \in changed \cap Pool : IsPool(prev, p) \/ IsPool(new, p)}
    \cup {prev.delegatee[a] : a \in affected \cap Delegator}
    \cup {new.delegatee[a] : a \in affected \cap Delegator}

-----------------------------------------------------------------------------
(* The tables delegations, pool_sizes and pools_summary. *)

\* The delegator's row goes; with its last delegator the pool goes too.
Leave(t, a) ==
  IF a \notin DOMAIN t.delegations THEN t
  ELSE LET p == t.delegations[a] IN
       IF t.sizes[p].total = 1
       THEN [delegations |-> Without(t.delegations, {a}),
             sizes       |-> Without(t.sizes, {p}),
             summary     |-> IF t.summary = NoRow THEN NoRow ELSE t.summary - 1]
       ELSE [t EXCEPT !.delegations = Without(@, {a}), !.sizes[p].total = @ - 1]

\* A new pool starts with size 0 and counts in the summary.
Join(t, a, p) ==
  IF p \in DOMAIN t.sizes
  THEN [t EXCEPT !.delegations = With(@, a, p), !.sizes[p].total = @ + 1]
  ELSE [delegations |-> With(t.delegations, a, p),
        sizes       |-> With(t.sizes, p, [total |-> 1, size |-> 0]),
        summary     |-> IF t.summary = NoRow THEN 1 ELSE t.summary + 1]

SaveSwitch(t, s) ==
  IF s.to = NoOne THEN Leave(t, s.who) ELSE Join(Leave(t, s.who), s.who, s.to)

\* The tables after each of the switches, which are saved one by one.
SaveSwitches(t, switches) ==
  LET after[i \in 0 .. Len(switches)] ==
        IF i = 0 THEN t ELSE SaveSwitch(after[i - 1], switches[i])
  IN  after

SavePools(switches, changed, prev, new) ==
  LET t == SaveSwitches(pools, switches)[Len(switches)]
      some == PoolsToUpdate(switches, changed, prev, new)
  IN  [t EXCEPT !.sizes = [p \in DOMAIN t.sizes |->
         IF p \in some THEN [t.sizes[p] EXCEPT !.size = PoolSize(new, p)]
                       ELSE t.sizes[p]]]

-----------------------------------------------------------------------------
(* delegation_history and its log.  A log entry is [height, row]; that of an
   inserted row has every column null but the delegator and transaction. *)

Actual(rows, who) == {r \in rows : r.who = who /\ r.actual}

Coalesce(new, old, null) == IF new # null THEN new ELSE old

IsOver(dblock, reason, ublock) ==
  (ublock # 0 \/ dblock = 0) /\ reason # NoReason

Merged(r, u) ==
  LET dblock == Coalesce(u.dblock, r.dblock, 0)
      reason == Coalesce(u.reason, r.reason, NoReason)
      ublock == Coalesce(u.ublock, r.ublock, 0)
  IN  [r EXCEPT !.dblock = dblock, !.reason = reason, !.ublock = ublock,
                !.actual = ~IsOver(dblock, reason, ublock)]

Row(u, actual) ==
  [who |-> u.who, tx |-> u.tx, dblock |-> u.dblock, reason |-> u.reason,
   ublock |-> u.ublock, actual |-> actual]

\* The log entry of an inserted row.
Inserted(u) == Row(Update(u.who, u.tx, 0, NoReason, 0), FALSE)

\* The order in which an insertion logs its two changes.
LoggedByInsertion(u, replaced) == Append(replaced, Inserted(u))

\* update_delegation_history, on d = [rows, log] of block h.
UpdateHistory(d, u, h) ==
  LET replaced == SetToSeq(Actual(d.rows, u.who))
      logged(rows) == [i \in 1 .. Len(rows) |-> [height |-> h, row |-> rows[i]]]
      others == d.rows \ Actual(d.rows, u.who)
  IN
  IF u.tx # 0
  THEN [rows |-> others \cup {Row(u, TRUE)}
                   \cup {[r EXCEPT !.actual = FALSE] : r \in Actual(d.rows, u.who)},
        log  |-> d.log \o logged(LoggedByInsertion(u, replaced))]
  ELSE [rows |-> others \cup {Merged(r, u) : r \in Actual(d.rows, u.who)},
        log  |-> d.log \o logged(replaced)]

\* The history and its log after each of the updates of a block.
UpdateAll(rows, log, updates, h) ==
  LET after[i \in 0 .. Len(updates)] ==
        IF i = 0 THEN [rows |-> rows, log |-> log]
        ELSE UpdateHistory(after[i - 1], updates[i], h)
  IN  after

\* Mutant: the flag is_actual is not restored.
RestoredButNotActual(r, e) == [e EXCEPT !.actual = r.actual]

\* The columns an undone update gets back.
RestoredRow(r, e) == e

\* reset_delegation_history_changes
Undo(rows, e) ==
  LET same == {r \in rows : r.who = e.row.who /\ r.tx = e.row.tx} IN
  IF e.row.dblock = 0 /\ e.row.reason = NoReason /\ e.row.ublock = 0 /\ ~e.row.actual
  THEN rows \ same
  ELSE (rows \ same) \cup {RestoredRow(r, e.row) : r \in same}

\* The history after each of the changes is undone, the last one first.
Undone(rows, log) ==
  LET after[n \in 0 .. Len(log)] ==
        IF n = 0 THEN rows ELSE Undo(after[n - 1], log[Len(log) + 1 - n])
  IN  after

UndoLast(n) == Undone(history, changes)[n]

\* How many of the changes, which are logged block after block, are of the blocks
\* up to p: those that reset_to keeps, and those that are dropped as too old.
UpTo(log, p) == Cardinality({i \in DOMAIN log : log[i].height <= p})

-----------------------------------------------------------------------------
(* Blocks. *)

EmptyPools == [delegations |-> [a \in {} |-> NoOne], sizes |-> [p \in {} |-> 0],
               summary |-> NoRow]

\* The node's state below block 1: nobody delegates.
Genesis == [delegatee |-> [a \in Delegator |-> NoOne],
            valid     |-> Delegator \cup Pool,
            waiting   |-> [a \in {} |-> NoOne]]

Init ==
  /\ node = Genesis
  /\ pools = EmptyPools
  /\ history = {}
  /\ changes = << >>
  /\ snap = << >>
  /\ floor = 0
  /\ restored = TRUE
  /\ txs = 0
  /\ resets = 0

\* What every saved block ends with: the history and its log, from which the
\* entries that are too old are dropped.
Commit(new, updates) ==
  LET h == Height + 1
      d == UpdateAll(history, changes, updates, h)[Len(updates)]
      oldest == h - ChangesBlocksCount
  IN
  /\ restored
  /\ h <= MaxHeight
  /\ node' = new
  /\ history' = d.rows
  /\ changes' = SubSeq(d.log, UpTo(d.log, oldest) + 1, Len(d.log))
  /\ floor' = IF oldest > floor THEN oldest ELSE floor
  /\ snap' = Append(snap, [node |-> new, history |-> d.rows])
  /\ UNCHANGED <<restored, resets>>

\* The update collectDelegationHistoryUpdate makes of a transaction.
TxUpdate(a, to) ==
  IF to # NoOne THEN Update(a, txs + 1, 0, NoReason, 0)
                ELSE Update(a, 0, 0, "undelegation", 0)

\* A block without the flag IdentityUpdate and with one transaction, DelegateTx
\* or UndelegateTx: the switch has to wait.
SaveTxBlock(a, to) ==
  /\ txs < MaxTx
  /\ to # node.delegatee[a]
  /\ Commit([node EXCEPT !.waiting = With(@, a, to)], <<TxUpdate(a, to)>>)
  /\ txs' = txs + 1
  /\ UNCHANGED pools

\* A block with the flag, which applies or drops what waits and what it sends
\* itself (at most one transaction here).  removed are the transitive
\* delegations the node removes, flipped the identities whose validation
\* status changes.  The killed come in the order of a map; the order of the
\* others is left open too.
SaveUpdateBlock(sent, killed, dropped, removed, flipped) ==
  LET toApply == IF sent = << >> THEN node
                 ELSE [node EXCEPT !.waiting = With(@, sent[1].who, sent[1].to)]
      new == AfterUpdate(toApply, killed, dropped, removed, flipped)
      own == [i \in 1 .. Len(sent) |-> TxUpdate(sent[i].who, sent[i].to)]
      leaving == {a \in killed : node.delegatee[a] # NoOne}
      candidates == (DOMAIN node.waiting \ killed)
                      \cup LeftOver(sent, killed \cup DOMAIN node.waiting, node, new)
      switched == {a \in candidates : Detected(a, node, new)}
  IN
  /\ txs + Len(sent) <= MaxTx
  /\ \E ks \in SetToSeqs(leaving), rs \in SetToSeqs(removed) :
       /\ \E ss \in SetToSeqs(switched) :
            pools' = SavePools(DelegationSwitches(ks, ss, rs, new), killed \cup flipped, node, new)
       /\ \E cs \in SetToSeqs(candidates) :
            Commit(new, own \o HistoryUpdates(ks, cs, rs, node, new, Height + 1))
  /\ txs' = txs + Len(sent)

\* reset_to(p): the log is replayed backwards, the three tables are emptied,
\* and the indexer goes on from block p of the node.
ResetTo(p) ==
  /\ resets < MaxResets
  /\ p \in floor .. Height - 1
  /\ history' = UndoLast(Len(changes) - UpTo(changes, p))
  /\ changes' = SubSeq(changes, 1, UpTo(changes, p))
  /\ snap' = SubSeq(snap, 1, p)
  /\ node' = IF p = 0 THEN Genesis ELSE snap[p].node
  /\ pools' = EmptyPools
  /\ restored' = FALSE
  /\ resets' = resets + 1
  /\ UNCHANGED <<floor, txs>>

\* collectIdentityData and save_restored_data.
Restore ==
  LET delegating == {a \in Delegator : node.delegatee[a] # NoOne}
      used == {node.delegatee[a] : a \in delegating}
  IN
  /\ ~restored
  /\ restored' = TRUE
  /\ pools' = [delegations |-> [a \in delegating |-> node.delegatee[a]],
               sizes |-> [p \in used |->
                  [total |-> Cardinality({a \in delegating : node.delegatee[a] = p}),
                   size  |-> PoolSize(node, p)]],
               summary |-> Cardinality(used)]
  /\ UNCHANGED <<node, history, changes, snap, floor, txs, resets>>

\* Whatever the node may do in a block with the flag.
UpdateBlock ==
  \E sent \in {<< >>} \cup {<<[who |-> a, to |-> p]>> :
                               a \in Delegator, p \in Pool \cup {NoOne}},
     killed \in SUBSET Delegator, dropped \in SUBSET Delegator,
     removed \in SUBSET {a \in Delegator : node.delegatee[a] # NoOne},
     flipped \in SUBSET (Delegator \cup Pool) :
    /\ Cardinality(killed \cup flipped) <= MaxChanged
    /\ dropped \subseteq DOMAIN node.waiting \cup {t.who : t \in ToSet(sent)}
    /\ SaveUpdateBlock(sent, killed, dropped, removed, flipped)

Next ==
  \/ \E a \in Delegator, to \in Pool \cup {NoOne} : SaveTxBlock(a, to)
  \/ UpdateBlock
  \/ \E p \in 0 .. MaxHeight : ResetTo(p)
  \/ Restore

Spec == Init /\ [][Next]_vars

-----------------------------------------------------------------------------
(* Properties. *)

\* The tables have the shape of their columns.
TypeOK ==
  /\ node.delegatee \in [Delegator -> Pool \cup {NoOne}]
  /\ node.valid \subseteq Delegator \cup Pool
  /\ DOMAIN node.waiting \subseteq Delegator
  /\ DOMAIN pools.delegations \subseteq Delegator
  /\ DOMAIN pools.sizes \subseteq Pool
  /\ \A p \in DOMAIN pools.sizes :
       /\ pools.sizes[p].total \in 1 .. Cardinality(Delegator)
       /\ pools.sizes[p].size \in 0 .. Cardinality(Delegator) + 1
  /\ pools.summary \in {NoRow} \cup 0 .. Cardinality(Pool)
  /\ floor \in 0 .. MaxHeight /\ Height <= MaxHeight
  /\ restored \in BOOLEAN /\ txs \in 0 .. MaxTx /\ resets \in 0 .. MaxResets

\* The incrementally kept tables agree with the node after every block and
\* after every reset and restore: delegations has the node's delegatees,
\* total_delegated counts them, size is the node's size of the pool (although
\* it is written only for the pools detectPoolSizeUpdates finds affected), and
\* pools_summary counts the pools.
PoolsMirrorNode ==
  restored =>
    LET d == pools.delegations IN
    /\ \A a \in Delegator :
         node.delegatee[a] = IF a \in DOMAIN d THEN d[a] ELSE NoOne
    /\ DOMAIN pools.sizes = {d[a] : a \in DOMAIN d}
    /\ \A p \in DOMAIN pools.sizes :
         /\ pools.sizes[p].total = Cardinality({a \in DOMAIN d : d[a] = p})
         /\ pools.sizes[p].size = PoolSize(node, p)
    /\ pools.summary = Cardinality(DOMAIN pools.sizes)
         \/ (pools.summary = NoRow /\ DOMAIN pools.sizes = {})

\* The tables of delegations and pools, kept up block by block
\* (save_delegation_switches, update_pool_sizes) and wiped and restored by a
\* reset, are well formed and say what the node's state says.
PoolTablesAreSound == TypeOK /\ PoolsMirrorNode

\* From every state, reset_to to any block the log still reaches gives back
\* the delegation history as it was after that block, although an insertion is
\* told from an update only by the null columns of its log entry.
HistoryIsRecoverable ==
  \A p \in floor .. Height :
    UndoLast(Len(changes) - UpTo(changes, p)) = IF p = 0 THEN {} ELSE snap[p].history

\* No delegator ever has two actual rows, not even half-way through a replay
\* of the log: the unique index would refuse the block, or the whole reset.
OneActualRow ==
  \A n \in 0 .. Len(changes), a \in Delegator :
    Cardinality(Actual(UndoLast(n), a)) <= 1

\* The delegation history can be taken back at any time
\* (reset_delegation_history_changes), and the replay of the log never stops
\* at the unique index of actual rows.
HistoryGoesBack == HistoryIsRecoverable /\ OneActualRow
=============================================================================
