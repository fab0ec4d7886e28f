-------------------------- MODULE CommitteeRewards --------------------------
(***************************************************************************)
(* The table "balance_updates".  Rewards of the committee come with nearly *)
(* every block, so a run of them with the same share is one row that grows *)
(* in place (save_committee_reward_balance_update); what each block added  *)
(* to it is kept for some blocks in the table                              *)
(* latest_committee_reward_balance_updates (here "history"), from which    *)
(* reset_balance_updates_to shrinks the rows again.                        *)
(*                                                                         *)
(* Abstractions.  The rows of an address are a sequence in the order of    *)
(* their ids.  A balance is a number that no other update has produced, so *)
(* two balances are equal only if they are the same one; the stake and the *)
(* penalty are written and undone exactly as the balance, the payment of a *)
(* penalty is added up and taken back as the count is, and all are left    *)
(* out.  Saving a block and resetting are one transaction and one step.    *)
(* The old balance of an update comes from the state of the node, which    *)
(* has gone back to the same block by itself when the database is reset.   *)
(***************************************************************************)
EXTENDS Integers, Sequences, FiniteSets

CONSTANTS
    Addresses,
    Shares,       \* the values of the committee reward share
    BlocksCount,  \* for how many blocks the history is kept
    MaxRewardHeight, \* bound: the highest block
    MaxSaves      \* bound: how many blocks are ever saved

ASSUME CommitteeRewardsAssumption ==
    /\ Addresses # {} /\ Shares # {}
    /\ BlocksCount \in Nat \ {0}
    /\ MaxRewardHeight \in Nat /\ MaxSaves \in Nat

Null == 0   \* SQL null, for a height, a share or a count

VARIABLES
    rewardEveryBlock, \* of the chain: every block rewards somebody (never changes)
    lastSaved, \* the last saved block
    rows,      \* balance_updates: the rows of each address
    history,   \* latest_committee_reward_balance_updates, by address
    state,     \* node: the balance of each address after each block
    saves,     \* how many blocks have been saved
    rowSnap,   \* history variable: the rows after each saved block
    rowFloor,  \* history variable: the records above this height are all there
    misled     \* history variable: a reset has overlooked a row

committeeVars ==
    <<rewardEveryBlock, lastSaved, rows, history, state, saves, rowSnap, rowFloor, misled>>

\* The updates a block can bring to the balance of an address, in their order:
\* transactions and penalties come before the rewards of the committee, the
\* rewards of an epoch after them.
Effects == {<<>>, <<"other">>, <<"committee">>, <<"other", "committee">>, <<"committee", "other">>}

SaveOther(s, h, old, new) ==
    Append(s, [reason |-> "other", old |-> old, new |-> new, height |-> h,
               lastHeight |-> Null, share |-> Null, count |-> Null])

\* A row after one more reward.
Grown(x, new, h) == [x EXCEPT !.new = new, !.count = @ + 1, !.lastHeight = h]

\* The latest row grows if it is a committee row of the same share.
SaveCommitteeReward(s, h, old, new, share) ==
    IF s # <<>> /\ s[Len(s)].reason = "committee" /\ s[Len(s)].share = share
    THEN [s EXCEPT ![Len(s)] = Grown(@, new, h)]
    ELSE Append(s, [reason |-> "committee", old |-> old, new |-> new, height |-> h,
                    lastHeight |-> h, share |-> share, count |-> 1])

SaveBalanceUpdate(s, reason, h, old, new, share) ==
    IF reason = "committee" THEN SaveCommitteeReward(s, h, old, new, share)
    ELSE SaveOther(s, h, old, new)

\* The balance after the n-th update of a block, which started from balance b
\* and whose updates produce the balances after v.
BalanceAfter(n, b, v) == IF n = 0 THEN b ELSE v + n

\* The rows of an address after each of the updates of block h.
SaveBalanceUpdates(s, effect, h, b, v, share) ==
    LET after[n \in 0..Len(effect)] ==
            IF n = 0 THEN s
            ELSE SaveBalanceUpdate(after[n - 1], effect[n], h, BalanceAfter(n - 1, b, v),
                                   BalanceAfter(n, b, v), share)
    IN  after

\* What save_committee_reward_balance_update writes to the history.
CommitteeRecords(s, effect, h, b, v, share) ==
    LET after == SaveBalanceUpdates(s, effect, h, b, v, share)
    IN  {[height |-> h, old |-> BalanceAfter(n - 1, b, v), row |-> Len(after[n])] :
            n \in {m \in DOMAIN effect : effect[m] = "committee"}}

\* Mutant: the window is one block short.
KeptRecordsShort(records, h) == {r \in records : r.height > h - BlocksCount + 1}

\* The records that save_balances leaves after block h.
KeptRecords(records, h) == {r \in records : r.height > h - BlocksCount}

SaveBlock(effects, share) ==
    LET h == lastSaved + 1
        v == 2 * saves
    IN  /\ h <= MaxRewardHeight /\ saves < MaxSaves
        /\ rewardEveryBlock => \E a \in Addresses, n \in 1..2 :
              n \in DOMAIN effects[a] /\ effects[a][n] = "committee"
        /\ lastSaved' = h
        /\ UNCHANGED <<rewardEveryBlock, misled>>
        /\ saves' = saves + 1
        /\ rows' = [a \in Addresses |->
              LET after == SaveBalanceUpdates(rows[a], effects[a], h, state[lastSaved][a], v, share)
              IN  after[Len(effects[a])]]
        /\ history' = [a \in Addresses |->
              KeptRecords(history[a] \cup
                   CommitteeRecords(rows[a], effects[a], h, state[lastSaved][a], v, share), h)]
        /\ state' = [state EXCEPT ![h] = [a \in Addresses |->
              BalanceAfter(Len(effects[a]), state[lastSaved][a], v)]]
        /\ rowSnap' = [rowSnap EXCEPT ![h] = rows']
        /\ rowFloor' = IF h - BlocksCount > rowFloor THEN h - BlocksCount ELSE rowFloor

-----------------------------------------------------------------------------

\* Some row that stays has grown after block p.
GrownAfter(p) == \E a \in Addresses : \E i \in DOMAIN rows[a] :
    rows[a][i].height <= p /\ rows[a][i].lastHeight > p

Records == UNION {history[a] : a \in Addresses}

\* The two exceptions of reset_balance_updates_to: there is no history, or it
\* starts above the height to reset to.
Refused(p) == GrownAfter(p) /\ \A r \in Records : r.height > p

\* A row whose last height an earlier reset has lost (null is not above p) may
\* have grown after block p, and its records be gone: Refused does not see it.
Overlooked(p) ==
    /\ p < rowFloor
    /\ \E a \in Addresses : \E i \in DOMAIN rows[a] :
         rows[a][i].reason = "committee" /\ rows[a][i].height <= p /\ rows[a][i].lastHeight = Null

\* The rows of the blocks up to p.
Staying(s, p) == SubSeq(s, 1, Cardinality({i \in DOMAIN s : s[i].height <= p}))

\* Mutant: the loop goes from the oldest record to the newest.
ShrunkOldestFirst(row, i, records, p) ==
    LET above == {r \in records : r.row = i /\ r.height > p}
        below == {r.height : r \in {q \in records : q.height <= p}}
    IN  IF above = {} THEN row
        ELSE LET newest == CHOOSE r \in above : \A q \in above : r.height >= q.height
             IN  [row EXCEPT !.new = newest.old, !.count = @ - Cardinality(above),
                             !.lastHeight = IF below = {} THEN Null
                                            ELSE CHOOSE h \in below : \A k \in below : k <= h]

\* The loop of reset_balance_updates_to over the records above p, the newest
\* first: what it leaves of row i is what the oldest of them found there.
Shrunk(row, i, records, p) ==
    LET above == {r \in records : r.row = i /\ r.height > p}
        below == {r.height : r \in {q \in records : q.height <= p}}
    IN  IF above = {} THEN row
        ELSE LET oldest == CHOOSE r \in above : \A q \in above : r.height <= q.height
             IN  [row EXCEPT !.new = oldest.old,
                             !.count = @ - Cardinality(above),
                             !.lastHeight = IF below = {} THEN Null
                                            ELSE CHOOSE h \in below : \A k \in below : k <= h]

\* The records of the blocks up to p.
RecordsUpTo(records, p) == {r \in records : r.height <= p}

ResetBalanceUpdatesTo(p) ==
    /\ p < lastSaved
    /\ ~Refused(p)
    /\ lastSaved' = p
    /\ rows' = [a \in Addresses |->
                  LET s == Staying(rows[a], p)
                  IN  [i \in DOMAIN s |-> Shrunk(s[i], i, history[a], p)]]
    /\ history' = [a \in Addresses |-> RecordsUpTo(history[a], p)]
    /\ state' = [h \in 0..MaxRewardHeight |-> state[IF h > p THEN 0 ELSE h]]
    /\ rowSnap' = [h \in 0..MaxRewardHeight |-> rowSnap[IF h > p THEN 0 ELSE h]]
    /\ rowFloor' = IF p < rowFloor THEN p ELSE rowFloor
    /\ misled' = (misled \/ Overlooked(p))
    /\ UNCHANGED <<rewardEveryBlock, saves>>

-----------------------------------------------------------------------------

CommitteeInit ==
    /\ rewardEveryBlock \in BOOLEAN
    /\ lastSaved = 0
    /\ rows = [a \in Addresses |-> <<>>]
    /\ history = [a \in Addresses |-> {}]
    /\ state = [h \in 0..MaxRewardHeight |-> [a \in Addresses |-> 0]]
    /\ saves = 0
    /\ rowSnap = [h \in 0..MaxRewardHeight |-> [a \in Addresses |-> <<>>]]
    /\ rowFloor = 0
    /\ misled = FALSE

\* One block, of one of these effects and shares, or a reset.
CommitteeNext(blockEffects, shares) ==
    \/ \E effects \in blockEffects, share \in shares : SaveBlock(effects, share)
    \/ \E p \in 0..MaxRewardHeight : ResetBalanceUpdatesTo(p)

-----------------------------------------------------------------------------

Row == [reason : {"other", "committee"}, old : Nat, new : Nat, height : 1..MaxRewardHeight,
        lastHeight : 0..MaxRewardHeight, share : Shares \cup {Null}, count : Nat]

\* Types; every record of the history belongs to a block and a row that are there.
CommitteeTypeOK ==
    /\ lastSaved \in 0..MaxRewardHeight /\ rowFloor \in 0..lastSaved
    /\ saves \in 0..MaxSaves
    /\ \A a \in Addresses : \A i \in DOMAIN rows[a] : rows[a][i] \in Row
    /\ state \in [0..MaxRewardHeight -> [Addresses -> 0..(2 * MaxSaves)]]
    /\ \A a \in Addresses : history[a] \subseteq
          [height : 1..lastSaved, old : Nat, row : DOMAIN rows[a]]

\* The same row, but for the height of its last reward, which a reset loses
\* (leaves null) when the record of that reward has been dropped.
SameRow(x, y) ==
    /\ [x EXCEPT !.lastHeight = y.lastHeight] = y
    /\ x.lastHeight = y.lastHeight \/ (x.lastHeight = Null /\ y.lastHeight <= rowFloor)

\* A reset that is not refused leaves every row as it was after that block,
\* whatever mixture of growing rows, interrupted runs and earlier resets came
\* before, in the window and below it, unless it has overlooked a row.
RowsFollowBlocks ==
    ~misled => \A a \in Addresses :
        /\ DOMAIN rows[a] = DOMAIN rowSnap[lastSaved][a]
        /\ \A i \in DOMAIN rows[a] : SameRow(rows[a][i], rowSnap[lastSaved][a][i])

\* The updates of an address form a chain: each row starts from the balance
\* the one before ended with (BalanceUpdateGapCnt, which checkBalances panics
\* on), after resets too.
NoBalanceUpdateGap ==
    ~misled => \A a \in Addresses : \A i \in DOMAIN rows[a] \ {1} :
        rows[a][i].old = rows[a][i - 1].new

\* The growing rows of committee rewards stay exact through saves and resets
\* (save_committee_reward_balance_update, reset_balance_updates_to): a reset
\* gives back the rows of its block, and the rows of an address chain.
CommitteeRowsAreExact == CommitteeTypeOK /\ RowsFollowBlocks /\ NoBalanceUpdateGap

\* No reset inside the window is refused when every block rewards somebody:
\* the indexer, which retries a refused reset for ever, is not stopped by a
\* fork shorter than the window.
ShortForksAreAccepted ==
    rewardEveryBlock => \A p \in 0..MaxRewardHeight : rowFloor < p /\ p < lastSaved => ~Refused(p)
=============================================================================
