---------------------------- MODULE UpgradeVoting ----------------------------
(***************************************************************************)
(* The history of the votes for an upgrade and its thinned-out copy        *)
(* (indexer/upgrade_voting.go, core/holder/upgrade/voting.go,              *)
(* db/postgres_upgrades_history.go and the procedures of                   *)
(* init/procedures/upgradeVotingHistory.sql).                              *)
(*                                                                         *)
(* The block loop saves with a block the votes for each active upgrade and *)
(* then queues a refresh of the short history, or drops it if the queue is *)
(* full.  Another goroutine takes the refreshes one by one: it reads how   *)
(* many items the history has and when the short one was last made, reads  *)
(* the history, picks ShortHistoryItems of it and writes them, in three    *)
(* separate transactions.  The block loop may reset blocks between any two *)
(* of them.                                                                *)
(***************************************************************************)
EXTENDS Naturals, Sequences, FiniteSets, FiniteSetsExt, SequencesExt

CONSTANTS
  Upgrades,           \* consensus versions, numbers
  CurrentVersion,
  VotersOfUpgrades,   \* the nodes that vote
  ShortHistoryItems,
  ShortHistoryMinShift,
  UpgradeQueueSize,   \* the capacity of upgradeVotingHistoryCtx.queue
  Word,               \* 2^64, the modulus of the heights
  MaxTip,             \* bound: heights of blocks
  MaxUpgradeResets    \* bound: calls of resetTo

NoUpgrade == 0

ASSUME UpgradeVotingAssumption ==
  /\ Upgrades \subseteq Nat \ {NoUpgrade}
  /\ IsFiniteSet(Upgrades) /\ IsFiniteSet(VotersOfUpgrades)
  /\ ShortHistoryItems \in Nat \ {0, 1}
  /\ {ShortHistoryMinShift, UpgradeQueueSize, MaxTip, MaxUpgradeResets,
      CurrentVersion} \subseteq Nat
  /\ Word \in Nat /\ Word > 2 * MaxTip + ShortHistoryMinShift

VARIABLES
  tip,           \* the last recorded block
  resets,        \* resets so far; a row carries the number of resets before it
  heldVotes,     \* the holder's copy: upgrade -> number of votes
  voteHistory,   \* table upgrade_voting_history: upgrade -> its rows
  voteItems,     \* upgrade_voting_history_summary.items
  short,         \* table upgrade_voting_short_history, in the order of heights
  shortInfo,     \* upgrade_voting_short_history_summary
  refreshes,     \* the queue of refreshes
  refresher,     \* the refresh in work: [todo, height, pc, rows, overtaken]
  shortOvertaken \* history: the refresh that wrote the short history of this
                 \* upgrade was overtaken by a reset

upgradeVars == <<tip, resets, heldVotes, voteHistory, voteItems, short, shortInfo,
                 refreshes, refresher, shortOvertaken>>

NoInfo  == [lastHeight |-> 0, lastStep |-> 0]
Waiting == [todo |-> << >>, height |-> 0, pc |-> "take", rows |-> << >>,
            overtaken |-> FALSE]

UpgradeInit ==
  /\ tip = 0
  /\ resets = 0
  /\ heldVotes = [u \in Upgrades |-> 0]
  /\ voteHistory = [u \in Upgrades |-> {}]
  /\ voteItems = [u \in Upgrades |-> 0]
  /\ short = [u \in Upgrades |-> << >>]
  /\ shortInfo = [u \in Upgrades |-> NoInfo]
  /\ refreshes = << >>
  /\ refresher = Waiting
  /\ shortOvertaken = [u \in Upgrades |-> FALSE]

-----------------------------------------------------------------------------
(* The holder of the votes, every ten seconds. *)

CountVotes(votes) ==
  [u \in Upgrades |-> Cardinality({n \in VotersOfUpgrades : votes[n] = u})]

UpdateHeldVotes(votes) ==
  /\ heldVotes' = CountVotes(votes)
  /\ heldVotes' # heldVotes
  /\ UNCHANGED <<tip, resets, voteHistory, voteItems, short, shortInfo, refreshes,
                 refresher, shortOvertaken>>

-----------------------------------------------------------------------------
(* The block loop. *)

\* The upgrades voted for that are to come and whose voting is open.
detectUpgradeVotes(active) ==
  {u \in Upgrades : heldVotes[u] > 0 /\ u > CurrentVersion /\ u \in active}

\* The refresh is dropped if the queue is full.
Queued(refresh) ==
  IF Len(refreshes) < UpgradeQueueSize THEN Append(refreshes, refresh) ELSE refreshes

\* save_upgrades_votes within the block's transaction, then the refresh is queued.
SaveBlockVotes(active) ==
  LET h  == tip + 1
      us == detectUpgradeVotes(active)
  IN
  /\ h <= MaxTip
  /\ tip' = h
  /\ voteHistory' = [u \in Upgrades |->
       IF u \in us THEN voteHistory[u] \cup {[height |-> h, fork |-> resets]}
       ELSE voteHistory[u]]
  /\ voteItems' = [u \in Upgrades |-> voteItems[u] + (IF u \in us THEN 1 ELSE 0)]
  /\ refreshes' = Queued([upgrades |-> SetToSeq(us), height |-> h, overtaken |-> FALSE])
  /\ UNCHANGED <<resets, heldVotes, short, shortInfo, refresher, shortOvertaken>>

Above(rows, p) == {r \in rows : r.height > p}

\* The counter is decremented for every row that goes.
ItemsAfterReset(u, p) == voteItems[u] - Cardinality(Above(voteHistory[u], p))

\* Mutant: the short history is left to the next refresh.
KeepShort(u, p) == FALSE

\* The short history goes as a whole if one of its rows does.
DropsShort(u, p) == Above(Range(short[u]), p) # {}

\* reset_upgrade_voting_history_to(p), while refreshes wait or are in work.
ResetVotesTo(p) ==
  /\ p < tip
  /\ resets < MaxUpgradeResets
  /\ tip' = p
  /\ resets' = resets + 1
  /\ voteItems' = [u \in Upgrades |-> ItemsAfterReset(u, p)]
  /\ voteHistory' = [u \in Upgrades |-> voteHistory[u] \ Above(voteHistory[u], p)]
  /\ short' = [u \in Upgrades |-> IF DropsShort(u, p) THEN << >> ELSE short[u]]
  /\ shortInfo' = [u \in Upgrades |-> IF DropsShort(u, p) THEN NoInfo ELSE shortInfo[u]]
  /\ shortOvertaken' = [u \in Upgrades |-> shortOvertaken[u] /\ ~DropsShort(u, p)]
  /\ refreshes' = [i \in DOMAIN refreshes |->
       [refreshes[i] EXCEPT !.overtaken = @ \/ refreshes[i].height > p]]
  /\ refresher' = [refresher EXCEPT !.overtaken =
       @ \/ refresher.height > p \/ Above(Range(refresher.rows), p) # {}]
  /\ UNCHANGED heldVotes

-----------------------------------------------------------------------------
(* loopRefreshUpgradeVotingHistorySummaries. *)

TakeRefresh ==
  /\ refresher.todo = << >>
  /\ refreshes # << >>
  /\ refreshes' = Tail(refreshes)
  /\ refresher' = [todo |-> Head(refreshes).upgrades, height |-> Head(refreshes).height,
                   pc |-> "info", rows |-> << >>, overtaken |-> Head(refreshes).overtaken]
  /\ UNCHANGED <<tip, resets, heldVotes, voteHistory, voteItems, short, shortInfo,
                 shortOvertaken>>

\* On with the next upgrade of the block.
Finished == [refresher EXCEPT !.todo = Tail(@), !.pc = "info", !.rows = << >>]

\* Mutant: the difference of the heights is cut off at zero.
SignedShift(u) ==
  IF refresher.height < shortInfo[u].lastHeight THEN 0
  ELSE refresher.height - shortInfo[u].lastHeight

\* height - info.LastHeight on uint64.
Shift(u) == (refresher.height + Word - shortInfo[u].lastHeight) % Word

TooSoon(u) == Shift(u) < ShortHistoryMinShift \/ Shift(u) < shortInfo[u].lastStep

\* GetUpgradeVotingShortHistoryInfo and the check of what it returns.
ReadInfo(fails) ==
  /\ refresher.todo # << >>
  /\ refresher.pc = "info"
  /\ LET u == Head(refresher.todo) IN
       refresher' = IF fails \/ ShortHistoryItems >= voteItems[u] \/ TooSoon(u)
                      THEN Finished ELSE [refresher EXCEPT !.pc = "history"]
  /\ UNCHANGED <<tip, resets, heldVotes, voteHistory, voteItems, short, shortInfo,
                 refreshes, shortOvertaken>>

\* ORDER BY block_height: the rows of an upgrade have heights of their own.
InOrder(rows) ==
  CHOOSE s \in [1 .. Cardinality(rows) -> rows] :
    \A i, j \in 1 .. Cardinality(rows) : i < j => s[i].height < s[j].height

\* GetUpgradeVotingHistory.
ReadHistory(fails) ==
  /\ refresher.pc = "history"
  /\ LET rows == InOrder(voteHistory[Head(refresher.todo)]) IN
       refresher' = IF fails \/ Len(rows) <= ShortHistoryItems
                      THEN Finished
                      ELSE [refresher EXCEPT !.pc = "write", !.rows = rows]
  /\ UNCHANGED <<tip, resets, heldVotes, voteHistory, voteItems, short, shortInfo,
                 refreshes, shortOvertaken>>

\* The index of the i-th item: i * (n - 1) / (items - 1), rounded half up.
Idx(i, n) ==
  (2 * i * (n - 1) + ShortHistoryItems - 1) \div (2 * (ShortHistoryItems - 1))

Pick(rows) == [i \in 1 .. ShortHistoryItems |-> rows[Idx(i - 1, Len(rows)) + 1]]

LastStep(n) == Idx(ShortHistoryItems - 1, n) - Idx(ShortHistoryItems - 2, n)

\* UpdateUpgradeVotingShortHistory: the old rows go, the new ones are inserted.
WriteShort(fails) ==
  /\ refresher.pc = "write"
  /\ LET u == Head(refresher.todo)
         n == Len(refresher.rows)
     IN
     IF fails THEN UNCHANGED <<short, shortInfo, shortOvertaken>>
     ELSE /\ short' = [short EXCEPT ![u] = Pick(refresher.rows)]
          /\ shortInfo' = [shortInfo EXCEPT ![u] =
               [lastHeight |-> refresher.height, lastStep |-> LastStep(n)]]
          /\ shortOvertaken' = [shortOvertaken EXCEPT ![u] = refresher.overtaken]
  /\ refresher' = Finished
  /\ UNCHANGED <<tip, resets, heldVotes, voteHistory, voteItems, refreshes>>

-----------------------------------------------------------------------------
UpgradeNext ==
  \/ \E votes \in [VotersOfUpgrades -> Upgrades \cup {NoUpgrade}] : UpdateHeldVotes(votes)
  \/ \E active \in SUBSET Upgrades : SaveBlockVotes(active)
  \/ \E p \in 0 .. MaxTip : ResetVotesTo(p)
  \/ TakeRefresh
  \/ \E fails \in BOOLEAN : ReadInfo(fails) \/ ReadHistory(fails) \/ WriteShort(fails)

-----------------------------------------------------------------------------
(* Properties. *)

\* The queue stays within its capacity and no index leaves the history.
UpgradeTypeOK ==
  /\ tip \in 0 .. MaxTip
  /\ resets \in 0 .. MaxUpgradeResets
  /\ heldVotes \in [Upgrades -> 0 .. Cardinality(VotersOfUpgrades)]
  /\ \A u \in Upgrades :
       /\ \A r \in voteHistory[u] : r.height \in 1 .. tip
       /\ Len(short[u]) \in {0, ShortHistoryItems}
       /\ shortInfo[u].lastHeight \in 0 .. MaxTip
  /\ Len(refreshes) <= UpgradeQueueSize
  /\ refresher.pc \in {"take", "info", "history", "write"}

\* The counter that decides whether a short history is needed agrees with the
\* history, which the resets (reset_upgrade_voting_history_to) cut back row by row.
ItemsMatchHistory ==
  \A u \in Upgrades : voteItems[u] = Cardinality(voteHistory[u])

\* The short history runs from the first row of the history to one not older
\* than the block it was made for, in strict order, and holds rows of the history
\* only, unless a reset overtook the refresh that wrote it: refresh reads and
\* writes in separate transactions.
ShortSpansHistory ==
  \A u \in Upgrades :
    short[u] # << >> /\ ~shortOvertaken[u] =>
      /\ Range(short[u]) \subseteq voteHistory[u]
      /\ \A r \in voteHistory[u] : short[u][1].height <= r.height
      /\ \A i \in 2 .. ShortHistoryItems : short[u][i - 1].height < short[u][i].height
      /\ short[u][ShortHistoryItems].height >= shortInfo[u].lastHeight
      /\ shortInfo[u].lastHeight <= tip

\* What is derived from the history of votes follows it through resets
\* (save_upgrades_votes, reset_upgrade_voting_history_to,
\* refreshUpgradeVotingHistorySummary): the counter of its items and the
\* short history.
SummaryFollowsHistory == UpgradeTypeOK /\ ItemsMatchHistory /\ ShortSpansHistory

\* A summary made for a block that a reset has removed does not suppress the
\* refreshes of the heights below it: the difference of the unsigned heights in
\* refreshUpgradeVotingHistorySummary wraps to a large number.
StaleSummaryIsRefreshed ==
  [][\A u \in Upgrades :
       (/\ refresher.todo # << >> /\ Head(refresher.todo) = u
        /\ shortInfo[u].lastHeight > refresher.height
        /\ voteItems[u] > ShortHistoryItems
        /\ ReadInfo(FALSE))
       => refresher'.pc = "history"]_upgradeVars
=============================================================================
