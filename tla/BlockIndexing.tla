---------------------------- MODULE BlockIndexing ----------------------------
(***************************************************************************)
(* The block indexing loop: Indexer.indexBlock of indexer/indexer.go, the  *)
(* part of the database it decides by (the table "blocks" and the tables   *)
(* that reset_to wipes and the Restorer fills again), the node that feeds  *)
(* it, and the crash of the whole process at any point.                    *)
(*                                                                         *)
(* The node runs in the same process and calls the handler synchronously   *)
(* from its event bus, after it has committed the block to its own store:  *)
(* node and indexer never move at the same time, but the two stores are    *)
(* committed separately and a crash can fall between the two commits.      *)
(*                                                                         *)
(* Abstractions.  A block is a number: every block the node ever commits,  *)
(* a genesis included, gets the next one, so that two blocks of the same   *)
(* height on two forks differ.  The data a block carries is left out; the  *)
(* table "balances" is represented by the block whose state it reproduces, *)
(* or Partial when it reproduces no state.  Of the committee rewards only  *)
(* what decides whether they let a reset pass is here (the rows themselves *)
(* are the subject of CommitteeRewards): the heights whose changes are     *)
(* kept, and the heights after which a row of balance_updates has grown.   *)
(* Which blocks reward somebody, which row a reward extends and which last *)
(* heights a reset gives back to the rows is open.                         *)
(*                                                                         *)
(* A database call that fails before its commit changes nothing and is     *)
(* tried again (waitForRetry): it is a stuttering step, and so is a reset  *)
(* that the database refuses.  A commit whose acknowledgement is lost is   *)
(* not.                                                                    *)
(***************************************************************************)
EXTENDS Integers

CONSTANTS
    MaxHeight,         \* bound: the highest block height
    MaxBlocks,         \* bound: how many blocks the node ever commits
    FirstGenesis,      \* height of the genesis block of the first start
    NewGenesisHeights, \* heights at which a new genesis may be introduced
    BlocksCount,       \* for how many blocks changes of committee rows are kept
    RestoreInitially   \* the configuration option of the same name

ASSUME BlockIndexingAssumption ==
    /\ MaxHeight \in Nat
    /\ MaxBlocks \in Nat \ {0}
    /\ FirstGenesis \in 1..MaxHeight
    /\ NewGenesisHeights \subseteq 1..MaxHeight
    /\ BlocksCount \in Nat \ {0}
    /\ RestoreInitially \in BOOLEAN

Heights == 1..MaxHeight
Blocks  == 1..MaxBlocks
NoBlock == 0
Partial == 0

VARIABLES
    chain,    \* node: the block at each height of its chain, NoBlock elsewhere
    head,     \* node: height of its head
    genesis,  \* node: height of the genesis block it is configured with
    fresh,    \* the next block number
    blocks,   \* database: table "blocks", the block stored at each height
    balances, \* database: the block whose state the wiped tables reproduce
    rewards,  \* database: the heights in latest_committee_reward_balance_updates
    grown,    \* database: the heights after which a row that was there has grown
    pc,       \* where the handler is
    last,     \* memory: state.lastIndexedHeight
    first,    \* memory: firstBlockHeight, 0 while not initialized
    genesisBlock, \* memory: is the local variable genesisBlock set?
    restore,  \* memory: the flag "restore"
    stale,    \* history: rows that disagreed with the node when it started
    tainted,  \* history: balances had no way to be complete at the start
    genesisIds \* history: every genesis block there has been

nodeVars == <<chain, head, genesis, fresh>>
dbVars   == <<blocks, balances, rewards, grown>>
memVars  == <<last, first, genesisBlock, restore>>
histVars == <<stale, tainted, genesisIds>>
vars     == <<nodeVars, dbVars, pc, memVars, histVars>>

Handling == {"check", "genesis", "restore", "save", "apply"}

-----------------------------------------------------------------------------
(* Database. *)

\* maxHeight.sql: the greatest height in the table, 0 when it is empty.
GetLastHeight(b) ==
    IF \A h \in Heights : b[h] = NoBlock
    THEN 0
    ELSE CHOOSE h \in Heights :
            /\ b[h] # NoBlock
            /\ \A k \in Heights : b[k] # NoBlock => k <= h

\* Mutant: only the first row above the height is deleted.
CutOne(f, p) == [h \in Heights |-> IF h = p + 1 THEN NoBlock ELSE f[h]]

\* The rows of a table of heights that reset_to leaves.
CutTo(f, p) == [h \in Heights |-> IF h > p THEN NoBlock ELSE f[h]]

\* The two exceptions of reset_balance_updates_to: a row has grown after the
\* height, and the kept changes begin above it or there are none.
RewardsRefuse(p) == p \in grown /\ \A r \in rewards : r > p

\* reset_to takes the committee rewards back first, and refuses a height below
\* the one before its first row (in an empty table min(height) is null and
\* nothing is refused).
ResetAllowed(p) ==
    /\ ~RewardsRefuse(p)
    /\ \A h \in Heights :
          (blocks[h] # NoBlock /\ \A k \in Heights : blocks[k] # NoBlock => h <= k) => p >= h - 1

\* The changes of the blocks above the height are taken back and dropped; a row
\* that stays has the last height of an earlier change, or none.
ResetRewardsTo(p) ==
    /\ rewards' = {r \in rewards : r <= p}
    /\ grown' \in SUBSET {q \in grown : q < p}

\* The kept changes after save_balances of a block.
KeptRewards(s, h) == {r \in s : r > h - BlocksCount}

\* A block rewards nobody, or its rewards start rows of their own, or they
\* extend a row that is there since an earlier block.
SaveRewards(h) ==
    \/ rewards' = KeptRewards(rewards, h) /\ UNCHANGED grown
    \/ \E since \in 1..h :
          /\ since < h => blocks[since] # NoBlock
          /\ rewards' = KeptRewards(rewards \cup {h}, h)
          /\ grown' = grown \cup since..(h - 1)

-----------------------------------------------------------------------------
(* The node (external): it extends its chain by one block and publishes it, *)
(* or drops the top of its chain before it adopts another fork.             *)

\* indexBlock is entered from the event the node publishes for the block;
\* initFirstBlockHeight runs before the loop.
InitFirstBlockHeight(l) == IF l = 0 THEN genesis ELSE 1

NodeAddBlock ==
    /\ pc = "idle"
    /\ head < MaxHeight
    /\ fresh <= MaxBlocks
    /\ head' = head + 1
    /\ chain' = [chain EXCEPT ![head + 1] = fresh]
    /\ fresh' = fresh + 1
    /\ first' = IF first = 0 THEN InitFirstBlockHeight(last) ELSE first
    /\ pc' = "check"
    /\ UNCHANGED <<genesis, dbVars, last, genesisBlock, restore, histVars>>

NodeRollback(p) ==
    /\ pc = "idle"
    /\ p \in genesis..(head - 1)
    /\ head' = p
    /\ chain' = CutTo(chain, p)
    /\ UNCHANGED <<genesis, fresh, dbVars, pc, memVars, histVars>>

-----------------------------------------------------------------------------
(* The handler.  The block it indexes is the head of the node's chain. *)

HeightToIndex == last + 1 + (IF genesisBlock THEN 1 ELSE 0)

\* The block follows the genesis block and is not the first one of the table.
FirstAfterNewGenesis == head # first /\ head = genesis + 1

HeightToReset == IF FirstAfterNewGenesis THEN head - 2 ELSE head - 1

\* Mutant: a block that is below the expected one is skipped.
SkipLowerBlock ==
    /\ pc = "check"
    /\ head < HeightToIndex
    /\ pc' = "idle"
    /\ UNCHANGED <<nodeVars, dbVars, memVars, histVars>>

\* Mutant: the state is not loaded again after the reset.
ResetToWithoutReload ==
    /\ pc = "check"
    /\ head < HeightToIndex
    /\ ResetAllowed(HeightToReset)
    /\ blocks' = CutTo(blocks, HeightToReset)
    /\ balances' = Partial
    /\ ResetRewardsTo(HeightToReset)
    /\ genesisBlock' = (genesisBlock \/ FirstAfterNewGenesis)
    /\ restore' = (restore \/ head # first)
    /\ UNCHANGED <<nodeVars, pc, last, first, histVars>>

\* Mutant: the reset does not ask for a restore.
ResetToWithoutRestore ==
    /\ pc = "check"
    /\ head < HeightToIndex
    /\ ResetAllowed(HeightToReset)
    /\ blocks' = CutTo(blocks, HeightToReset)
    /\ balances' = Partial
    /\ ResetRewardsTo(HeightToReset)
    /\ last' = GetLastHeight(blocks')
    /\ first' = InitFirstBlockHeight(last')
    /\ genesisBlock' = (genesisBlock \/ FirstAfterNewGenesis)
    /\ UNCHANGED <<nodeVars, pc, restore, histVars>>

\* The block is below the expected one: a fork, or a new genesis.  reset_to is
\* one transaction; the state is loaded again from what it left.
ResetTo ==
    /\ pc = "check"
    /\ head < HeightToIndex
    /\ ResetAllowed(HeightToReset)
    /\ blocks' = CutTo(blocks, HeightToReset)
    /\ balances' = Partial
    /\ ResetRewardsTo(HeightToReset)
    /\ last' = GetLastHeight(blocks')
    /\ first' = InitFirstBlockHeight(last')
    /\ genesisBlock' = (genesisBlock \/ FirstAfterNewGenesis)
    /\ restore' = (restore \/ head # first')
    /\ UNCHANGED <<nodeVars, pc, histVars>>

\* Mutant: the genesis block is not indexed before the block that follows it.
MatchedWithoutGenesis ==
    /\ pc = "check"
    /\ head >= HeightToIndex
    /\ head > HeightToIndex => head = genesis + 1
    /\ pc' = "restore"
    /\ UNCHANGED <<nodeVars, dbVars, memVars, histVars>>

\* The block is the expected one, or it is above it and follows the genesis
\* block, which then has to be indexed first (anything else is a panic).
Matched ==
    /\ pc = "check"
    /\ head >= HeightToIndex
    /\ head > HeightToIndex => head = genesis + 1
    /\ genesisBlock' = (genesisBlock \/ head > HeightToIndex)
    /\ pc' = IF genesisBlock' THEN "genesis" ELSE "restore"
    /\ UNCHANGED <<nodeVars, dbVars, last, first, restore, histVars>>

\* The transaction of saveData for the genesis block.  Only the first block of
\* a table carries all accounts; a later genesis carries no balance change.
CommitGenesis ==
    /\ pc = "genesis"
    /\ blocks[genesis] = NoBlock
    /\ blocks' = [blocks EXCEPT ![genesis] = chain[genesis]]
    /\ balances' = IF genesis = first THEN chain[genesis] ELSE balances
    /\ rewards' = KeptRewards(rewards, genesis)
    /\ tainted' = (tainted /\ genesis # first)
    /\ UNCHANGED <<nodeVars, grown, last, first, restore, stale, genesisIds>>

SaveGenesis == CommitGenesis /\ genesisBlock' = FALSE /\ pc' = "restore"

\* The commit happened and its answer was lost: the next try meets its own row
\* (the primary key of "blocks") and fails, and so does every other.
SaveGenesisUnacked == CommitGenesis /\ UNCHANGED <<genesisBlock, pc>>

\* Restorer.Restore takes the state below the node's head and fills the tables.
Restore ==
    /\ pc = "restore"
    /\ balances' = IF restore THEN chain[head - 1] ELSE balances
    /\ tainted' = (tainted /\ ~restore)
    /\ restore' = FALSE
    /\ pc' = "save"
    /\ UNCHANGED <<nodeVars, blocks, rewards, grown, last, first, genesisBlock, stale, genesisIds>>

\* The transaction of saveData: the row of the block, and the balances that
\* changed between the state of its parent and its own.
CommitBlock ==
    /\ pc = "save"
    /\ blocks[head] = NoBlock
    /\ blocks' = [blocks EXCEPT ![head] = chain[head]]
    /\ balances' = IF balances = chain[head - 1] THEN chain[head] ELSE Partial
    /\ SaveRewards(head)
    /\ UNCHANGED <<nodeVars, memVars, histVars>>

SaveBlock == CommitBlock /\ pc' = "apply"

SaveBlockUnacked == CommitBlock /\ UNCHANGED pc

\* loadFlips, applyOnState and the events of the block; the handler returns.
ApplyOnState ==
    /\ pc = "apply"
    /\ last' = head
    /\ pc' = "idle"
    /\ UNCHANGED <<nodeVars, dbVars, first, genesisBlock, restore, histVars>>

-----------------------------------------------------------------------------
(* The process. *)

Crash ==
    /\ pc # "down"
    /\ pc' = "down"
    /\ last' = 0 /\ first' = 0 /\ genesisBlock' = FALSE /\ restore' = FALSE
    /\ tainted' = (tainted \/ restore)
    /\ UNCHANGED <<nodeVars, dbVars, stale, genesisIds>>

\* A release of the node with a new genesis block (a hard fork): its chain
\* starts again there, from a state of its own.
NewGenesis(g) ==
    /\ pc = "down"
    /\ g > genesis
    /\ fresh <= MaxBlocks
    /\ genesis' = g
    /\ head' = g
    /\ chain' = [h \in Heights |-> IF h = g THEN fresh ELSE NoBlock]
    /\ fresh' = fresh + 1
    /\ genesisIds' = genesisIds \cup {fresh}
    /\ UNCHANGED <<dbVars, pc, memVars, stale, tainted>>

\* Mutant: the node drops its genesis block too.
StartAtLast(l) == l

\* The height the node keeps: StartWithHeight drops what is above the expected
\* head, and never the genesis block.
StartHeight(l) == IF head <= l THEN head ELSE IF l > genesis THEN l ELSE genesis

Start ==
    /\ pc = "down"
    /\ last' = GetLastHeight(blocks)
    /\ head' = StartHeight(last')
    /\ chain' = CutTo(chain, head')
    /\ restore' = RestoreInitially
    /\ pc' = "idle"
    /\ stale' = {blocks[h] : h \in {k \in Heights :
                    chain'[k] # NoBlock /\ blocks[k] # NoBlock /\ blocks[k] # chain'[k]}}
    /\ tainted' = (tainted \/ (last' # 0 /\ head' >= last' /\ blocks[last'] # chain'[last']))
    /\ UNCHANGED <<genesis, fresh, dbVars, first, genesisBlock, genesisIds>>

-----------------------------------------------------------------------------

Init ==
    /\ genesis = FirstGenesis
    /\ head = FirstGenesis
    /\ chain = [h \in Heights |-> IF h = FirstGenesis THEN 1 ELSE NoBlock]
    /\ fresh = 2
    /\ blocks = [h \in Heights |-> NoBlock]
    /\ balances = Partial
    /\ rewards = {} /\ grown = {}
    /\ pc = "down"
    /\ last = 0 /\ first = 0 /\ genesisBlock = FALSE /\ restore = FALSE
    /\ stale = {} /\ tainted = FALSE /\ genesisIds = {1}

Node == NodeAddBlock \/ \E p \in Heights : NodeRollback(p)

Handler == ResetTo \/ Matched \/ SaveGenesis \/ Restore \/ SaveBlock \/ ApplyOnState

Lost == SaveGenesisUnacked \/ SaveBlockUnacked

Process == Crash \/ Start \/ \E g \in NewGenesisHeights : NewGenesis(g)

Next == Node \/ Handler \/ Lost \/ Process

Spec == Init /\ [][Next]_vars

\* The handler runs to its end unless the process dies: its retries are
\* unbounded and the database is assumed to answer in the end.  Fairness gives
\* nothing to a reset that the database refuses, which is not enabled.
FairSpec == Spec /\ WF_vars(Handler)

-----------------------------------------------------------------------------

TypeOK ==
    /\ chain \in [Heights -> 0..MaxBlocks]
    /\ head \in Heights /\ genesis \in Heights
    /\ fresh \in 1..(MaxBlocks + 1)
    /\ blocks \in [Heights -> 0..MaxBlocks]
    /\ balances \in 0..MaxBlocks
    /\ rewards \subseteq Heights /\ grown \subseteq 0..MaxHeight
    /\ pc \in Handling \cup {"idle", "down"}
    /\ last \in 0..MaxHeight /\ first \in 0..MaxHeight
    /\ genesisBlock \in BOOLEAN /\ restore \in BOOLEAN
    /\ stale \subseteq Blocks
    /\ tainted \in BOOLEAN
    /\ genesisIds \subseteq Blocks

\* Between two blocks every row of the database that has a counterpart in the
\* node's chain is that block, unless the row already disagreed with the node
\* when the process started: running the loop never introduces a divergence,
\* whatever forks and new genesis blocks it meets (indexBlock compares heights
\* only, never the parent hash).
MirrorsNode ==
    pc = "idle" => \A h \in Heights :
        (blocks[h] # NoBlock /\ chain[h] # NoBlock /\ blocks[h] # chain[h]) => blocks[h] \in stale

\* A row whose height has no row below it is the row of a genesis block: no
\* block is ever skipped, although reset_to, the retries of saveData and the
\* genesis branches all move the expected height.
NoHoles == \A h \in Heights \ {1} :
    (blocks[h] # NoBlock /\ blocks[h - 1] = NoBlock) => blocks[h] \in genesisIds

\* The panic "Incoming block height=%d is greater than expected %d" cannot be
\* reached: every block the node delivers is at most one above the last row,
\* or is the first one after the genesis block.
NeverAheadOfExpected ==
    pc = "check" /\ head > HeightToIndex => head = genesis + 1

\* The heights of the tables and of indexBlock fit together, whatever
\* reset_to, the retries of saveData and the genesis branches do to them: the
\* tables have no hole, and no block comes from above the expected height.
HeightsFit == NoHoles /\ NeverAheadOfExpected

\* When the indexer has caught up with the node, the wiped-and-restored tables
\* reproduce the node's state, unless the process started with no way to know
\* that they did not: it had died between reset_to and Restore, or its last row
\* was not the node's block.
BalancesFollowState ==
    pc = "idle" /\ last = head => balances = chain[head] \/ tainted

\* What checkBalances asserts at the end of every call of indexBlock
\* (check_balances.go: the panic "state and db balances check failed").
StateAndDbBalancesAgree == pc = "apply" => balances = chain[head]

\* The same assertion where no row disagreed with the node when the process
\* started, so that only the flag "restore" decides.
BalancesAgreeOnSameFork == stale = {} => StateAndDbBalancesAgree

\* The handler cannot leave this state: it saves again what is already there.
SaveInDoubt ==
    \/ pc = "save" /\ blocks[head] # NoBlock
    \/ pc = "genesis" /\ blocks[genesis] # NoBlock

\* Nor this one: the fork or the new genesis goes back to a height after which
\* committee rows have grown, and no kept change is as old as that.
ResetInDoubt == pc = "check" /\ head < HeightToIndex /\ RewardsRefuse(HeightToReset)

\* Every block the node delivers is indexed, unless the process dies, the answer
\* to a commit is lost, or the block asks for a reset below the kept changes of
\* the committee rewards (see CommitteeRewards for the forks that never do):
\* no other combination of reset, genesis and restore keeps the retry loop of
\* indexBlock going round for ever.
EveryBlockIsIndexed ==
    pc = "check" ~> (pc = "idle" /\ last = head) \/ pc = "down" \/ SaveInDoubt \/ ResetInDoubt

\* The table "blocks" is a stack: see BlockStore.
Store == INSTANCE BlockStore WITH rows <- blocks
StoreIsAStack == Store!Spec
=============================================================================
