# A TLA+ model of the Idena indexer

The Idena indexer embeds an Idena node, receives every block the node commits,
and writes what it finds to a PostgreSQL database that an explorer reads.
Beside the blocks it follows the mempool, loads flips, and serves a small API.
This directory models the parts of it in which several things can happen in an
order nobody tested: forks, crashes, failing transactions, goroutines that
share indexes or fields, and callbacks whose effects are merged in place. TLC
checks the models on small instances; TLAPS proves the most important
properties for every instance.

## 1. Inventory

| Component | State | Operations | What makes it correct |
|---|---|---|---|
| Block indexing loop (`indexer/indexer.go`) | `state.lastIndexedHeight`, `firstBlockHeight`, `restore` | `indexBlock`, `resetTo`, `loadState`, `saveData`, `applyOnState` | the table of blocks mirrors the node's chain, without holes; every block is indexed, but for a reset the database refuses |
| Node and listener (`incoming/`) | the chain (external) | commit a block, roll back, start at a height, new genesis | calls the handler synchronously, after its own commit |
| Restorer (`core/restore`) | – | `Restore` | the wiped tables reproduce the node's state |
| Database (`db/`, `resources/scripts/indexer`) | blocks, balances, ... | `Save`, `ResetTo`, each one transaction | a reset gives back the state of an earlier block |
| Undo log (`resetChanges.sql`, `tokens.sql`, `addressSummaries.sql`) | `changes` and its detail tables | log, prune, replay | replay is exact inside the window |
| Balance updates (`save_balance_updates`, `reset_balance_updates_to`) | `balance_updates`, `latest_committee_reward_balance_updates` | append, grow in place, shrink | rows of an address form a chain, also after resets |
| Mempool transactions (`core/holder/transaction`) | index by hash, index by address, a set per address | add, remove, read | indexes agree; readers see the pool |
| Contract transactions (`core/mempool/contracts_pool.go`) | a queue and two indexes | queue, run, list, remove | nothing stays listed that has left |
| Mempool action times (`core/mempool/mempool.go`) | four channels, four caches, four tables | receive, cache, take, save, put back | nothing is lost or doubled |
| Flip loader (`core/flip/flip_loader.go`) | two channels, `flips.size` | submit, take, load, retry | the block indexer is never stopped; every flip gets its size |
| Flip content loader (`core/flip/flip_content_loader.go`) | `flips_queue`, `flips_data`, a batch | queue at the end of an epoch, select, load, save, give up | no flip is forgotten, the queue drains |
| Delegations and pools (`indexer/delegation.go`, `savePools.sql`) | `delegations`, `pool_sizes`, `pools_summary`, `delegation_history` | detect, switch, count, log, undo, restore | the tables agree with the node; the history goes back exactly |
| Statistics collector, balances (`core/stats/collector.go`) | pending rows, rows of the block, links between rows, burnt coins | `Begin...BalanceUpdate`, `CompleteBalanceUpdate` | the rows of an address chain; nothing is lost between rewards and pools |
| Statistics collector, contracts | a cache per running call, the pending transaction | `AddContract...`, `ApplyContractBalanceUpdates`, `AddTxReceipt` | what fails leaves nothing, what succeeds is recorded once |
| Oracle votings (`collector.go`, `indexer/oracle_voting.go`, `saveContractsSummaries.sql`) | pending events, votings in memory, state of a voting in the tables | events, receipt, `applyOnState`, load | memory and tables agree on the actual votings |
| Tokens (`collector_contract.go`) | updates of the block | `applyTxReceipt`, `detectTokens` | one current row per holder |
| Rewards and epoch results (`collector.go`, `indexer.go`, `rewards.go`, `validation_summary.go`) | rewards, totals, pools, bounds, summaries | `Add...Reward`, `detectEpochResult` | lists and totals agree with what was given |
| Vote counting tracker (`core/mempool/vote_counting_tracker.go`) | four channels, tables and their predecessors | submit or drop, save until it works, turn over | what was taken is saved as it was reported |
| Peers tracker (`core/mempool/peers_tracker.go`) | a channel, a cache with expiry | add, handle, count, save | only living peers are counted |
| Upgrade voting (`indexer/upgrade_voting.go`, `upgradeVotingHistory.sql`) | votes held, history, its extract, a queue | save, reset, refresh | the extract spans the history, also after resets |
| Data service (`data/service.go`) | four unlocked fields, rows of `data` | events, observe, postpone, refresh | once per period unless a round outruns it, never during a validation |
| Online identities (`core/holder/online`), paged API (`core/api`) | eight unlocked fields | `update`, `set`, pages | fields fit together; a list read in pages is whole |
| Contract verification, state holders, migrations, words, log | – | | not modelled, see section 6 |

**Interaction.** The node publishes `AddBlockEvent` on its bus and the handler
runs on the node's goroutine; nothing else moves the chain meanwhile. But the
node and the indexer commit to two stores, so a crash can fall between them.
Mempool events reach the transaction pool and the contracts pool from the same
bus; both serve API goroutines. The block handler hands the flips of a saved
block to the flip loader over a bounded channel; the content loader meets the
block handler only in the tables. `mempool.go` and the trackers have goroutines
of their own and share only the database lock. The statistics collector is
called by the node while it applies a block, and read by `indexBlock` once the
block is committed; at the end of an epoch `detectEpochResult` joins what it
holds with the states before and after the block. The data service and the
upgrade refresher hear of blocks from `indexBlock`; the former reads its
fields, the latter its tables, while the next block or reset goes on. The API
reads the cache of online identities while the updater replaces it.

**Hard behaviours.** A crash between two commits; a commit whose answer is
lost; a fork while the database is ahead; a hard fork with a new genesis;
current-value tables that must go back in time; a row that grows in place; a
removal that overtakes the insertion it is about; a reader that holds a set
its writer has dropped; caches refilled behind what has arrived meanwhile;
fields written and read one by one without a lock; maps the node goes on
filling; a refresh that a reset overtakes; unsigned heights that wrap; rewards
merged into rows that others are linked to; nested calls of which some fail;
memory and tables that each have a rule of their own. The list, line by line, is
under `hazards` in `PROJECT.json`.

## 2. Modules

### BlockIndexing (composes node, loop, restorer and `reset_to`), BlockStore

`chain`, `head` and `genesis` are the node's; `blocks` and `balances` the
database's; `last`, `first`, `genesisBlock` and `restore` the memory of the
process, which `Crash` clears. `pc` is the place in `indexBlock`:

| Action | Code |
|---|---|
| `NodeAddBlock` | the event handler of `NewListener`, entry of `indexBlock` |
| `NodeRollback`, `NewGenesis` | external: the node takes blocks back, or is released with another genesis |
| `ResetTo` | the branch `block.Height() < heightToIndex`: `reset_to`, `loadState`, the flag |
| `Matched` | the other two branches, up to the choice of a genesis block |
| `SaveGenesis`, `SaveBlock` | `saveData` of the genesis block, of the block |
| `SaveGenesisUnacked`, `SaveBlockUnacked` | the same commit, with its answer lost |
| `Restore` | the `restore` branch and `Restorer.Restore` |
| `ApplyOnState` | `applyOnState` to the return |
| `Crash`, `Start` | the process dies; `Start` and `StartWithHeight` |

A block is a number, new for every block ever committed, so that two blocks of
one height differ. `balances` stands for the tables that `reset_to` wipes
(`balances`, `birthdays`, `pool_sizes`, ...) and names the block whose state
they reproduce. A database call that fails before its commit changes nothing
and is retried: a stuttering step.

`reset_to` takes the committee rewards back first, and may be refused there.
`rewards` holds the heights whose changes are kept (those of the last
`BlocksCount` blocks) and `grown` the heights after which a row of
`balance_updates` has grown; a block may reward nobody, start rows or extend
any row of before. `RewardsRefuse` is the pair of exceptions of
`reset_balance_updates_to`, and `ResetAllowed` adds the height below which the
table has nothing. The loop asks again for a refused reset, without end and
without another outcome: `ResetInDoubt` is the second state, beside the save
whose answer was lost (`SaveInDoubt`), that `EveryBlockIsIndexed` has to leave
out. What the refusal depends on, row by row, and which forks it spares is the
subject of `CommitteeRewards`.

`stale` and `tainted` are history variables: they record what was already wrong
when the process started.

`BlockStore` is the abstract specification of the table `blocks`: a stack, of
which rows are only pushed on top and popped from the top. `StoreIsAStack` is
the refinement, with `rows <- blocks`.

### UndoLog

Three tables that hold a current value only, and the table `changes`. Every
write logs the value it replaces (`Put`); saving a block drops entries older
than the window (`Kept`); a reset replays entries from the newest downwards
(`UndoChange`). The three kinds of key keep the differences of the three
procedures: a zero token balance deletes the row, a summary that does not
change is not logged, a mining reward always is; undoing a token entry
inserts or updates, undoing a summary only updates. A transaction works on
`wtable` and `wchanges`, which `Rollback` throws away at any statement.

### CommitteeRewards

`rows[a]` is `balance_updates` of one address in the order of ids. Rewards of
the same share extend the last row (`SaveCommitteeReward`); the history keeps
what each block added, for `BlocksCount` blocks. `Refused` is the pair of
exceptions of `reset_balance_updates_to`, `Shrunk` its loop. `state` holds the
node's balances after each block, from which an update takes its old balance;
every update makes a balance of its own, so equality of balances is identity.
One weakness of the code shows in `CommitteeRowsAreExact`: a row that is shrunk
after its earlier records were dropped is left without `last_block_height`, and
the exceptions compare that column with the height to reset to, which is never
true of a null. A later and deeper reset is then not refused, though the records
it would need are gone (`Overlooked`); the row stays too long, and the next row of
the address does not start where it ends (`check_balances.go` panics on such a
gap). `misled` remembers that this has happened; until then the rows are exact.

### TxMemPool

One step per lock. `AddTransaction` and `RemoveTransaction` begin the two
writers, which then work address by address under the lock of the pool
(`AddAddressTx`, `RemoveByAddressAndHash`, `DeleteEmptied`, `Return`). A reader
(`Call`, `Lookup`, `All`) finds the set of an address under the lock of the
index and reads it under the lock of the set. Sets are objects with identity:
an address that leaves the index and comes back gets another one.

### ContractsMemPool

`ProcessTx` queues or drops; the worker (`Receive`, `Skip`, `ApplyDeployTx`,
`ApplyTxSentToContract`) runs and lists; `RemoveDeployTx` and
`RemoveAddressContractTx` are the two halves of `RemoveTx`, under two locks. A
run of the virtual machine succeeds or not.

### MemPoolIndexer

A channel, a listener and a cache per kind of action; the saver takes the
caches one by one (`Take`), writes them (`Save`, or `Fail`, which may come
before or after the commit) and puts them back (`PutBack`). `Destroy` is the
last save, `Restart` the loss of everything in memory.

### FlipContent

`blocks` records which flips each block submits and which block ends an epoch;
`SaveLastBlock` is the call of `update_flips_queue` in `save_epoch_result`,
`ResetTo` the part of `reset_to` that cuts `flips_queue` and `flips_data` by
epoch. The loader's three steps are `GetFlipsToLoadContent` (the select),
`GetFlipContent` (IPFS, per flip, outside any transaction) and
`SaveFlipsContent` (the transaction of the whole batch). `content` says what
the loader makes of a flip, which its author decides: it can be saved; or it
decodes to something without an error that the database then refuses (an empty
list gives a flip without a cid, a list without pictures a null where
`jsonb_array_length` wants an array); or a type assertion panics (in `parseFlip`,
or in `FlipContent.Value` when the batch is written), and the process starts
anew (`Panic`). Times are relative to the clock. Three weaknesses of the code
show in the properties' exceptions:

* a batch that a `reset_to` overtakes may store the content of a flip whose
  epoch is then finished a second time; the flip is queued again, and every
  batch with it is refused by the primary key of `flips_data`
  (`OnlyOvertakenGoAstray`, `QueueDrains`);
* a `reset_to` that stops exactly at an epoch's last block removes the queue
  and the contents of that epoch, and nothing queues them again
  (`discarded` in `NothingForgotten`);
* one flip that is refused or panics takes its whole batch with it, each time:
  no attempt is counted, the same rows stay the oldest, and the batches do not
  get past them (`BatchIsPoisoned` in `QueueDrains`).

### FlipLoader

`submitting` is where the block handler is in `loadFlips`, `headers` the
channel of ten, `retrying` what `loadLoop` still has to hand over, `processing`
and `looked` where `processLoop` is between its two selects. A failed load is
dropped (`LoadFails`); only `WakeUp`, the hourly query, brings it back.

### Delegations

The node is external: `AfterUpdate` says what a block with the flag
`IdentityUpdate` does to delegatees and validation status. `DelegationSwitches`,
`HistoryUpdates` and `PoolsToUpdate` are the detection in
`indexer/delegation.go`; `SaveSwitch` and `UpdateHistory` are one round of the
loops of `save_delegation_switches` and `save_delegation_history_updates`,
`SaveSwitches` and `UpdateAll` the loops, over the block's items in any order
Go's maps may give. `Undo` is `reset_delegation_history_changes`, `Undone` the loop
of `reset_changes_to` over it; which entries it takes is a count by height
(`UpTo`), because the log grows block after block. It deletes its detail row from
`token_balances_changes` instead of `delegation_history_changes`; the row that
stays is never read, because the ids of `changes` are never used again.

### BalanceUpdates

One block, seen as a sequence of brackets: the node calls
`Begin...BalanceUpdate` for some addresses (`pendingRows`), changes their
accounts, and calls `CompleteBalanceUpdate`. `DelegatedRewardRows` splits the
reward of a delegator into three rows, `handleMultipleBalanceUpdate` merges a
repeated reward into the row it has (`rowOf`), and `updateLinkedBalanceUpdates`
shifts the rows linked to it. An account has a balance, a stake and a penalty,
which stands for the two penalty columns. External is the order in which the
node applies a block (`PhaseOf`): rewards of one kind are not interrupted by
others, which is what makes growing a row in place sound. `BurntDust` is the loop
of `CompleteBalanceUpdate` that burns cleared dust. `Sums` holds the sum of a list,
in which `CoinsAreAccounted` counts the coins of the accounts and the burnt ones.

### ContractCalls

The running calls of a contract transaction are a stack; each has the caches of
`collector.go` (`addUpdate`, `addCoins`). A call that succeeds is imported into
its caller (`importFrom`), a failed one is dropped; `AddTxReceipt` moves the
rest into the block. One weakness shows in `ContractUpdatesChain`: `importFrom`
does not touch the caller's index, so a caller that writes to an address after
a call it made did changes its own first update, and the chain of that address
breaks (`rewritten`).

### OracleVotings

The events of all embedded contracts (`AddOracleVotingEvent`, ...) are kept in
the pending transaction and recorded by a successful receipt
(`applyEmbeddedContractTxReceipt`). Of a voting the model keeps the state in
`sorted_oracle_voting_contracts` (`SavedState`), its counting block, and
whether it is in memory (`holder`). `LoadStateAt` is a restart or a reset.
What memory and tables disagree on is exactly one case (`reported`): a voting
reported as ready to be prolonged leaves memory, and its counting block makes
it actual in the tables again, possibly in the same block. A load that finds a
voting ready to be prolonged leaves it out in the same way.

### TokenBalances

`updates` is the collector's list; a receipt announces holders (`AnnouncedBy`),
`add` forgets the balance of one that is announced again, and the contract is
asked for what is missing. `BalanceAnswer` keeps the three outcomes of a call:
an answer, a failure (asked again with the next receipt), and an undecodable
answer, whose error is wrapped around nil and which becomes a balance of zero
(`misread`). Holders are the raw bytes of an event, of which two may stand for
one address (`AddressOf`).

### EpochRewards, EpochResult (extends EpochRewards)

`EpochRewards` has one action per reward callback; `rules` is the upgrade whose
rules hold. `given` is what the node gave, the reference the lists and totals
are compared with. `EpochResult` then goes through the identities in any order:
`ConvertIdentity` is the callback of `detectEpochResult`, with the eight
`calculate...RewardSummary` functions, `CompleteEpochResult` the rest. Weights
and shares count as 1, so an amount missed is a number of shares; counts of
flips are bytes (`Byte`), and so is the number of flips an identity may make. What
is said of an identity is an input, within what the node allows (`Consistent`): a
rewarded flip has a number its author's flips reach.

### VoteCounting

`Submit` puts an event on its channel or drops it; `tallies` are the node's
maps, which go on growing after the event was queued. The worker takes from any
channel, converts, and saves until it gets an answer; `SaveAnswerLost` is the
save that commits and still fails, which the code repeats. Timestamps only order
the events of a kind; `SavedAsReported` compares the rows with the events taken as
sets, and their order by the timestamps. A vote carries the upgrade its voter
chose, a `uint32`, and the procedures cast it to an integer: an event with a vote
of `OversizedVotes` is refused each time it is saved (`Storable`), and the worker
repeats it for ever (`WorkerIsStuck`, the exception of `EverythingIsTracked`),
while the channels fill and drop what comes. `DeleteOldData` turns the tables of all kinds over by the rounds of the results
(`SpansRange`): results of the last `BlockRange` rounds stay, whereas a step or
a proposal of a recent round may go with the older ones.

### PeersTracker

`AddPeersData` has a guard for the full channel: the node waits. `track` is
split at its two calls of the cache, between which `handlePeers` may put more
peers. Time is counted in hours, a retry after a minute is the same hour.

### UpgradeVoting

`SaveBlockVotes` is the part of a block that adds to the history and queues a
refresh, `ResetVotesTo` the procedure `reset_upgrade_voting_history_to`. A
refresh is `TakeRefresh`, then per upgrade `ReadInfo`, `ReadHistory`,
`WriteShort`. `Shift` keeps the unsigned subtraction, modulo `Word`. `Idx`
rounds half up on whole numbers where the code uses `float32`. A refresh that a
reset overtakes writes rows of removed blocks (`shortOvertaken`); the next
refresh replaces them.

### DataService

`fields` is the state of the service; `writing` the assignments the handlers
still have to make, one per step. `CurrentEpochEvent` replaces the whole state
at once. The observer reads the period, the height and the height of the epoch
in three steps, with writes in between, and then decides. External is the chain:
an epoch begins when a validation has ended.

A round takes the time once, when it begins, and decides by it; the procedures
run one after the other, so that a refresh may come much later. `refreshed` keeps
both times of every refresh. The next refresh is due in the period after the one
the round began in: a round that begins at 10:59 and refreshes at 11:01 stores
11:00, and the item is refreshed again within hour 11. `RefreshesAreSpaced` says
by the clock how far this goes: at most twice in an hour or a day, and twice only
if the first of the two rounds began before it. Data of an epoch has no such
case (`EpochsAreRefreshedOnce`).

### OnlineIdentities

`update` builds all fields from one state of the node: `Visited` holds what the
callback (`Visit`) has built after each of the identities, in the order of their
addresses, and `Sorted` is the three calls of `sort.Slice`. `set` assigns the fields
one per step,
and each field remembers the update it is from. A client (`ReadPage`) follows
the tokens of one list, over updates if it must.

## 3. Runs

Each property has a mutant of a mapped definition (`mutants` in
`PROJECT.json`; the mutated forms stand before the definitions, marked
"Mutant") that TLC finds to violate it. A property with a list in parentheses
is the conjunction of the named parts in its module, each with a comment of
its own; the parts about one promise of a component are checked as one.

| Run | Bounds | Shows |
|---|---|---|
| `block_indexing` | heights 1..5, 7 blocks ever, new genesis at 2..5, committee changes of 2 blocks kept | `TypeOK`, `MirrorsNode`, `HeightsFit` (`NoHoles`, `NeverAheadOfExpected`), `BalancesFollowState`, `StoreIsAStack`, `EveryBlockIsIndexed` |
| `balances_check` | 3 heights, 5 blocks | **violated**: `StateAndDbBalancesAgree` |
| `restore_flag` | 3 heights, 5 blocks | **violated**: `BalancesAgreeOnSameFork` |
| `resets` | undo log: 4 blocks, window 2, one row of each table, 4 entries; rewards: 5 blocks, window 3, 2 addresses, 2 shares, 7 saves (5 where both addresses are rewarded) | `TablesFollowBlocks`, `CommitteeRowsAreExact` (`CommitteeTypeOK`, `RowsFollowBlocks`, `NoBalanceUpdateGap`), `ShortForksAreAccepted` |
| `mem_pools` | transactions: 3, of 2 addresses, 1 reader, 5 sets; contracts: one transaction of each kind, queue of 2, 4 events | `IndexesAreSound` (`TypeOK`, `IndexesAgree`), `ReadersSeeThePool` (`ReadersMissNothing`, `ReadersSeeOnlyThePool`), `ContractListsAreSound` (`ContractTypeOK`, `LeaksOnlyWhenOvertaken`, `MapsAgree`, `DeploysAreListedTwice`), `EveryQueuedTxIsListed` |
| `mem_pool_indexer` | 2 kinds, 1 key, channels of 1, 3 actions | `NothingIsLostOrDoubled` (`TypeOK`, `NothingIsLost`, `NothingIsDoubled`), `EveryActionIsRecorded` |
| `flip_content` | 2 flips, one of any content, batch of 2, 2 attempts, 3 blocks, 2 resets, 1 lost batch | `QueueFollowsBlocks` (`TypeOK`, `QueuedByRecordedBlock`, `NothingForgotten`), `OnlyOvertakenGoAstray`, `QueueDrains` |
| `flip_loader` | 2 flips, channel of 1, retry of 1, 2 blocks, 1 reset, 1 restart | `IndexerProceeds`, `EveryFlipIsSized` |
| `delegations` | 2 delegators, 2 pools (symmetric), 3 blocks, log of 2, 2 transactions, 1 reset | `PoolTablesAreSound` (`TypeOK`, `PoolsMirrorNode`), `HistoryGoesBack` (`HistoryIsRecoverable`, `OneActualRow`) |
| `services` | votes: 2 hashes, one of them with a vote too large to store, 2 rounds, channels of 1, 3 events, 1 lost answer; peers: 2, channel of 2, 6 hours; upgrades: 2, 4 heights, 2 items, queue of 1, 1 reset; data: 2 items, 3 blocks, 1 reset, 4 times; online: 3 identities, 2 updates, pages of 1 | `VotesAreSaved` (`VoteTypeOK`, `SavedAsReported`), `RecentResultsAreKept`, `EverythingIsTracked`, `CountedAreLive`, `SummaryFollowsHistory` (`UpgradeTypeOK`, `ItemsMatchHistory`, `ShortSpansHistory`), `StaleSummaryIsRefreshed`, `RefreshesAreInTime` (`DataTypeOK`, `RefreshesAvoidValidation`, `RefreshesAreSpaced`, `EpochsAreRefreshedOnce`), `PagesCoverTheList`, `OnlineCacheIsSound` (`OnlineTypeOK`, `OnlineCountMatchesValidators`, `ListsMatchTheState`, `MinerWeightsAreSorted`) |
| `stats_collector` | balances: 2 delegators and a pool, 4 brackets; calls: 2 addresses, depth 3, 5 operations, 2 transactions; votings: 1, of 2 blocks, 4 heights, 2 transactions a block, 1 reset; tokens: 1 token, 3 raw holders, 3 receipts | `BalanceRowsAreSound` (`BalanceTypeOK`, `RowsChain`, `RewardsAreAttributed`), `CoinsAreAccounted`, `ContractStatsAreExact` (`CallTypeOK`, `ContractUpdatesChain`, `ContractBurntCoinsAreRecorded`, `TxRowsCoverUpdates`), `VotingStatsAreExact` (`VotingTypeOK`, `EventsBelongToTheirTx`, `StaleOnlyWithinBlock`), `VotingsAgreeWithTables` (`HolderIsActual`, `MissedOnlyIfReported`), `TokenRowsAreSound` (`TokenTypeOK`, `TokenRowsAreCurrent`, `MissingOnlyIfMisread`) |
| `epoch_results` | 2 identities with four fates, 1 pool, 2 rewards, 3 sets of rules, flips of 5 | `RewardListsAddUp` (`RewardsTypeOK`, `RewardsAddUp`, `PoolRewardsAddUp`, `MiningRewardsAddUp`), `FlipRewardsAddUp` (`FlipsAreListedOnce`, `FlipCountsAddUp`), `EpochRowsAgree` (`ResultTypeOK`, `EarnedIsGiven`, `EveryRewardedHasARow`, `BoundsBracketRewards`, `PoolsOfEpochAgree`) |

**Sums.** `resets`, `mem_pools`, `services` and `stats_collector` each check
several components that share no state. A variable chosen at the start says
which of them a behaviour belongs to, and the others stay as they are: the
state space is the sum of theirs. Nothing is said about their interleaving,
and nothing could be, as no step of one reads what another writes.

**Why the bounds are enough.** In `block_indexing` seven blocks give a chain,
a fork of two blocks, and a new genesis at, above and below the last row, with
a crash between any two steps; with the changes of two blocks kept, a fork of
one block goes through and a deeper one may be refused. In the two logs
the heights exceed the window, so that entries leave it before a reset, and
resets can be repeated; a window of 3 lets a reset take two rewards of one row
back at once, and seven saves on five heights let a row lose its last height, grow
again and be overlooked. In
`mem_pools` five sets let an address leave and come back while a reader
still holds its old set; the bound on sets only stops further additions. There
the queue of 2 is overflown by 4 events.
In `flip_content` two resets of up to three blocks let an epoch be finished, taken
back and finished again while a batch is in flight; a flip of any content can
share its batch with one that could be saved. In `flip_loader` a block
with two flips finds a channel with room for one, and a retry of one flip has
to serve two. In `delegations` three blocks with a log of two let entries be
dropped, and one block may kill, apply, drop and remove at once.
In `services` every channel can be full, a lost answer doubles a row, a reset
goes below the height of a summary so that the height wraps, the chain enters
and leaves a validation while the observer reads (three blocks let it enter one
and end its epoch, or start in one and be quiet again in the next epoch, and a
reset take the epoch back), a round lasts into the next
period, data of an epoch is refreshed in two epochs, and the pool of the online
cache comes between its two delegators, so that one of them is met first. In
`stats_collector` four brackets allow two rewards of one kind with a third
address between them; three levels of calls let a call be imported twice; four
heights allow a voting to start, reach its counting block, be prolonged and be
reset. In `epoch_results` two rewards are the least that can be merged, and
two identities the least that can share a pool or a class of age; five flips
are more than the three required.
Deadlock is not checked where the bound itself stops the system: everywhere
but in the runs of `MCBlockIndexing` and `MCMemPoolIndexer`.

**Fairness.** `BlockIndexing`: weak fairness of the handler, whose retries are
unbounded, with a database that answers in the end. It gives nothing to a reset
that the database refuses, which is not enabled, and does not cover `Start`:
nobody promises a restart. `ContractsMemPool`: weak fairness of the worker
goroutine. `MemPoolIndexer`: weak fairness of the listeners and the saver's
loop, and strong fairness of `Save`, which says that the database does not
refuse for ever. `FlipContent`: weak fairness of the loader's loop and of time;
a request to IPFS ends, with or without an answer; nothing is promised of a flip
that panics. `FlipLoader`: weak fairness
of the three goroutines and strong fairness of the second select's choice,
which Go makes at random. That IPFS answers for a flip that is asked for again
and again (`IpfsAnswers`) is a premise of `EveryFlipIsSized` alone;
`IndexerProceeds` holds with an IPFS that never delivers. `VoteCounting`: weak
fairness of the worker and of `SaveSucceeds`; the code repeats a save for ever,
and the database answers in the end, though with a refusal each time where a vote
cannot be stored.

## 4. What the two violations mean

`checkBalances` (optional in the configuration) panics after a block when the
database's balances differ from the node's state. Two crashes lead there:

* `balances_check`: the node rolls back, commits a block of another fork, and
  the process dies before the indexer has reset. At the next start the heights
  agree, `indexBlock` compares only heights, and the old fork's row stays.
  `MirrorsNode` and `BalancesFollowState` hold with exactly this exception.
* `restore_flag`: the process dies after `reset_to` and before `Restore`. The
  flag that asks for the restore was in memory only.

## 5. Proofs

Eight modules hold the proofs; each extends the modules it is about. A theorem
holds for every value of the constants that the modules' named assumptions
admit; the bounds (`Max...`) are among these constants. The assumptions say that
sizes are natural numbers and, where a proof needs more: the transactions of
`TxMemPool`, the addresses of `Delegations`, the tokens and the upgrades and their
voters are finitely many; `KindOrder` of `MemPoolIndexer` names each kind once;
`Expiration` of `PeersTracker` is positive (three hours in the code); the items
of `DataService` are finitely many and `HeightWord` exceeds any height plus
`BlocksAfterValidation` (2^64 in the code), as `Word` does in `UpgradeVoting`; the
number of flips an identity of `EpochResult` may make is a byte; and the node of
`OnlineIdentities` iterates over each address once, with states of the type
`NodeStateOK` names. Every proof has one lemma per action.

What the code computes in a loop is a recursive function on the numbers up to a
length in the model. Such a function is proved to exist and to obey its equation,
and what the loop leaves behind is shown by induction: the set of the numbers for
which the claim holds contains zero and with each number the next, so it has no
least number outside (`NatInd` and the like). The invariant of the loop is an
operator of its own in each case.

`BlockIndexingProofs`, along three layers, each resting on the one before:

* `TypeCorrect`, `MirrorsNodeAlways`. `MirrorsNode` is not inductive: it speaks
  of `pc = "idle"` only. `IndInv` adds `ChainShape` (the chain is contiguous from
  the genesis to the head) and `Agreement` (what the rows below the handler's
  position are at each `pc`). The lemma `LastHeight` characterizes `max(height)`
  through a greatest-element lemma.
* `HeightsFitAlways`. `TableInv` says that `lastIndexedHeight` is the top row
  where `indexBlock` decides by it (`LastIsTop`), that the table has no hole
  (`RowsShape`), and where the node's head is relative to the top at each `pc`
  (`Position`).
* `BalancesFollowStateAlways`. `BalancesInv`: the balances are those of the top
  row if that is the node's block (`TopIsReproduced`), and the row below the block
  being handled is the node's, or a restore is on its way (`ParentIsNodes`).
  `BlocksRefineStack` shows with `TableInv` that every step is a step of
  `BlockStore` or leaves the table alone.

`ResetsProofs`:

* Of the undo log, `UndoLogTypeCorrect` (the type invariant `TypeOK` of `UndoLog`,
  which needs no run beside its proof) and `ReplayIsExact` for every window, every
  set of rows and every bound. The inductive invariant says of the committed log
  and of the working copy alike (`LogInv`): entries are in the order of ids and
  heights (`Ordered`); a row that an entry says existed is there when it is undone,
  so that "update only" suffices (`RowsPresent`); and undoing all entries above any
  height inside the window gives the snapshot of that height (`Restorable`), stated
  without recursion, through the oldest entry of each key above that height.
* Of the committee rewards, `ShortForksAreAcceptedAlways`, from `RecordsCover`: if
  every block rewards somebody, every block above the dropped part of the history
  has left a record, resets included.
* `CommitteeRowsAreExactAlways`, from `RewardsInv`: the records of a row explain
  its counts and heights (`RowsInv`), the balances of an address's rows follow one
  another (`Chained`), and taking back what lies above a height gives the rows of
  that height up to what the dropped records forgot (`Back`, `SnapOK`). The
  invariant of the loop over the updates of a block is `Follow`.

`MemPoolsProofs` proves `IndexesAreSoundAlways` and `ReadersSeeThePoolAlways`.
`PoolInv` says how far the two indexes differ while a writer is at work
(`NearlyAgree`: in the addresses it has yet to visit, and in the set it has just
emptied) and that no two addresses share a set (`SetsApart`). `ReaderInv` says
what a reader may rely on between its two steps: the set it found may have left
the index, but then nothing of it stayed in the pool. Of the contract
transactions it proves `ContractListsAreSoundAlways`. `QueueInv` is the
strengthening: a transaction that is queued or run and not in the pool, or is
queued twice, or is queued while still listed, has been overtaken.

`MemPoolIndexerProofs` proves `NothingIsLostOrDoubledAlways`. `SaverInv` says
which kinds the saver holds at each of its steps, `Stamped` that no action is
from the future, `PlacesInv` that channel, hand, cache and batch of a kind hold
different actions. `PutBack` keeps the last of these because the batch and the
cache it is put behind are two of the places.

`FlipsProofs` proves `QueueFollowsBlocksAlways` and
`OnlyOvertakenGoAstrayAlways` of the flip content. `ChainInv`: a flip is submitted
in one block and queued by the last block of its own epoch, which rests on lemmas
on how epochs grow along the chain and survive a reset (`EpochsGrow`, `EpochsStay`,
`KeyedEpochs`). `BatchInv`: outside the overtaken flips the batch agrees with the
rows; inside them the row has at most the attempts the batch remembers. Of the
epoch results it proves `FlipRewardsAddUpAlways`, from `FlipsInv`: no count of flips
leaves its byte (`FlipNumbers`), and who has extra flips got the reward that lists
them under the rules in force (`ExtraListed`), so that what the summary of an
identity counts is what is rewarded and missed.

`CollectorProofs` proves `VotingStatsAreExactAlways` and
`VotingsAgreeWithTablesAlways`, for every set of votings, members and kinds of
events. `VotingInv` ties three things together: what the pending transaction holds
is from its own event (`PendingInv`); a voting is in the lists of a block if and
only if a transaction of the block did that to it (`ListsInv`); and at each point of
a block the status of a voting, its row and its place in memory fit together
(`StatusInv`), also in what a reset goes back to (`TablesInv`). It also proves
`TokenRowsAreSoundAlways`, for every set of tokens and every `AddressOf`. `TokenInv`
keeps one entry for a contract and an address in the collector's list (`Unique`), and
says of each that it has a balance that is current, or is among those that
changed silently or were misread. And it proves `ContractStatsAreExactAlways`, from
`CallInv`, which follows the stack of calls: the updates of a running call lead from
the balances of its caller to its own (`LeadsFrom`), its indexes lead to its own
entries (`IndexOK`), its coins add up to what it burnt. So a call that succeeds can be
put behind the list of its caller without a gap, except where the caller writes again
to what the call wrote (`rewritten`); `BlockInv` says the same of the block, with the
receipt that is due. It assumes that at least one call can run (`MaxDepth` positive).
Of the balance updates it proves `CoinsAreAccountedAlways`, for any finite set of
addresses. `CoinInv` adds the pending rows to the balance: from `BeginDustClearing`
to `CompleteBalanceUpdate` the dust is in no account and not yet burnt (`DustDue`),
and it is cleared in a bracket of its own (`DustAlone`), so that completing any other
bracket burns nothing. Each step changes one account or two, and the sum over the
accounts moves with their worth (`CoinsChange`, `CoinsOfTwo`).
The loops are handled once and for all: `LoopIsFold` shows that a recursive
function over a list is the fold of its body, and `ListInd` is induction along the
list. On them rest what filters, sums and changes in place do to a list
(`FilterFacts`, `CoinsInReplace`, `BalanceAfterReplace`, ...).

`DelegationsProofs` proves two things of the delegations.

* `PoolTablesAreSoundAlways`, from `PoolsInv`: the tables mirror the node's
  delegatees (`Exact`), counts included, or are empty until they are restored. The
  loops over the switches of a block are followed one switch at a time
  (`SwitchList`, `Mirrors`).
* `HistoryGoesBackAlways`, from `HistoryInv`: the log of changes is a ladder of good
  tables (`Ladder`: each is the one above it with one change undone; `Good`: at most
  one actual row per delegator, none from the future), it is sorted by height, and
  its rungs at the ends of the blocks are the tables the blocks left, down to the
  oldest block whose changes are kept.

`ServicesProofs` has a part for each of the services.

* `CountedAreLiveAlways`: the cache holds a peer exactly until its time is over,
  and nothing expired while the tracker counts (`PeersInv`).
* `RecentResultsAreKeptAlways`: the rounds of the results are in order through
  the channel, the hand and the rows, repeated saves included (`ResultsInv`), so
  that what is turned over lies below the last `BlockRange` rounds.
* `VotesAreSavedAlways`, from `VoteInv`: of each kind, what is saved and what waits
  are together what the channel took, in its order and with as many repetitions as
  answers were lost (`KindInv`).
* `SummaryFollowsHistoryAlways` and the step property `StaleSummaryIsRefreshedAlways`,
  from `UpgradeInv`: a refresh that no reset overtook is about a block that is there
  with its votes (`RefreshesInv`), and what it has read and not yet written is in
  order and spans the history (`RowsInv`). The rows that `Idx` selects stay in order
  and keep the ends.
* `RefreshesAreInTimeAlways`: each field is that of the last block or, while it
  is unwritten, of the one before (`FieldsInv`). If the chain has not been quiet
  since the observer's first read, all blocks since are of one calm stretch after
  a validation, so that heights and epoch height fit together whichever blocks
  they were read from, and the unsigned difference does not wrap (`ReadingInv`).
  The next time of an item lies past the period the round of its last refresh
  began in (`NextTimeInv`), also when it is postponed. The last refresh of an item
  was over when the round at work began, or is of that round, which does not meet
  the item again (`LastRefreshInv`), so the times of rounds and refreshes alternate
  (`RefreshesInOrder`): a third refresh in one period would belong to a round that
  began in it after another had stored the period that follows. It takes the clock
  as one that does not go back.
* `OnlineCacheIsSoundAlways` and `PagesCoverTheListAlways`, from `OnlineInv`: the
  fields that `set` has assigned are those of the last update and the others those
  of the one before (`CacheInv`), and what a client has read of a list is the list up
  to its token, as long as it is the same list (`ClientInv`). The invariant of the
  loop over the identities is `AccOK`: after some of them, the weights are in order
  and add up, a pool's totals are those of the identities visited so far and of the
  pool itself, every validated identity visited is listed once, and the count of
  those online is the size of the online validators. `Sorted` permutes the lists
  (`Descending`), which changes none of it.

Only model-checked: liveness (fairness is out of the prover's reach), and the
invariants `BalanceRowsAreSound`, `RewardListsAddUp` and `EpochRowsAgree`. They speak of tables that filters and folds
over sequences and sets compute, whose library definitions the prover cannot unfold.

## 6. Not modelled

* The formatting of node data into rows (`convertIncomingData`,
  `postgres_types.go`, `types.go` of the database) has no control of its own; in
  `BlockIndexing` a block is its identity.
* Of the collector: totals, counters and lists that a callback only sets or
  appends to (fees, gas, minted coins, penalties in seconds, transfers of kill
  and activation transactions).
* `address_states`, whose flag `is_actual` `reset_to` sets by height, and the
  undo of the oracle voting tables.
* The averages of the online cache and the rounding of `Idx`: floats.
* Contract verification: single statements on a queue in the database around an
  external compiler. State and contract holders: read-only views. The other
  handlers of the API, the server, migrations, words, monitoring and logging
  keep no state worth a property.
* Readers of a single index under a single lock.

## 7. Plan

Proofs: the invariants of the collector that are only model-checked, once the
folds over the rows of an address and over the rewards are recursive functions as
in `ContractCalls`. Models: `address_states`, and the
oracle voting tables as further clients of the undo log.
