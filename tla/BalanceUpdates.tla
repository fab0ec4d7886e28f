--------------------------- MODULE BalanceUpdates ---------------------------
(***************************************************************************)
(* The balance updates that the statistics collector gathers while the     *)
(* node applies one block (core/stats/collector.go).  The node calls       *)
(* Begin...BalanceUpdate, changes the accounts of the addresses it named,  *)
(* and calls CompleteBalanceUpdate; the collector turns each such bracket  *)
(* into rows "address, reason, old, new".  Rows of a repeated reward are   *)
(* merged in place, and a reward that is paid out to a delegatee becomes   *)
(* three rows, kept consistent by links between the rows of an address.    *)
(*                                                                         *)
(* An account is a record [bal, stake, pen, killed]; "pen" stands for      *)
(* Penalty and PenaltySeconds, which the collector treats alike.           *)
(* The node is external: it applies a block in phases, so the brackets of  *)
(* a reason whose rows are merged are not interrupted by other brackets,   *)
(* and a reward that goes through a pool has a part for the balance (the   *)
(* collector tells the two sides apart by whose balance changed).          *)
(***************************************************************************)
EXTENDS Integers, Sequences, FiniteSets, SequencesExt, FiniteSetsExt, Sums

CONSTANTS
    Accounts,      \* addresses
    PoolAccounts,  \* those that others delegate to; a pool does not delegate
    RewardParts,   \* the rewards considered: pairs of a balance and a stake part
    MaxBrackets    \* bound: Begin ... Complete pairs in the block; one whose rows
                   \* are not merged counts twice

ASSUME BracketsAssumption == /\ IsFiniteSet(Accounts) /\ PoolAccounts \subseteq Accounts
                             /\ RewardParts \subseteq (Nat \ {0}) \X Nat
                             /\ MaxBrackets \in Nat

VARIABLES
    accounts,      \* the node's state: address -> account
    phase,         \* index of the phase the node is in
    pendingRows,   \* c.pending.balanceUpdates
    rows,          \* c.stats.BalanceUpdates
    rowOf,         \* c.pending.balanceUpdatesByReasonAndAddr: <<reason, address>> -> row
    linkToPrev,    \* c.pending.linkedBalanceUpdatesByNext: row -> the row before it
    linkToNext,    \* c.pending.linkedBalanceUpdatesByPrev: row -> the row after it
    burntRows,     \* c.stats.BurntCoinsByAddr, in order
    brackets,      \* Begin calls so far, as MaxBrackets counts them
    earned,        \* history: epoch reward to the balance, by who earned it
    supply         \* history: coins the accounts had and got from the node

balanceVars == <<accounts, phase, pendingRows, rows, rowOf, linkToPrev, linkToNext,
                 burntRows, brackets, earned, supply>>
mergeVars   == <<rows, rowOf, linkToPrev, linkToNext>>

Reasons == {"Tx", "VerifiedStakeTransfer", "EpochReward", "DelegatorEpochReward",
            "DelegateeEpochReward", "FailedValidation", "EpochPenaltyReset",
            "IdentityClearing", "DustClearing", "ProposerReward", "CommitteeReward"}

\* The order in which the node applies the parts of a block (external).
PhaseOf(reason) ==
    CASE reason = "Tx"                    -> 1
      [] reason = "VerifiedStakeTransfer" -> 2
      [] reason = "EpochReward"           -> 3
      [] reason = "ProposerReward"        -> 5
      [] reason = "CommitteeReward"       -> 6
      [] OTHER                            -> 4

\* What the collector reads of an account: a killed identity has no stake and
\* no penalty (getStakeIfNotKilled, getPenaltyIfNotKilled and ...Seconds...).
View(account) ==
    [bal   |-> account.bal,
     stake |-> IF account.killed THEN 0 ELSE account.stake,
     pen   |-> IF account.killed THEN 0 ELSE account.pen]

BalanceRow(addr, reason, old, new, payment) ==
    [addr |-> addr, reason |-> reason, old |-> old, new |-> new, payment |-> payment]

-----------------------------------------------------------------------------
(* The collector's merging of rows, over a record of its four tables.       *)

Tables == [rows |-> rows, rowOf |-> rowOf, prev |-> linkToPrev, next |-> linkToNext]

SetTables(t) ==
    /\ rows' = t.rows
    /\ rowOf' = t.rowOf
    /\ linkToPrev' = t.prev
    /\ linkToNext' = t.next

isBalanceOrStakeOrPenaltyChanged(row) == row.old # row.new \/ row.payment > 0
isBalanceChanged(row) == row.old.bal # row.new.bal

\* The new value of row i shrinks by the change of the row after it, which is
\* then moved so that it starts where row i ends.
Shift(value, delta) == [value EXCEPT !.bal = @ + delta.bal, !.stake = @ + delta.stake]
Diff(a, b) == [bal |-> a.bal - b.bal, stake |-> a.stake - b.stake]

\* Mutant: the linked row stays behind.
NoLinks(t, i) == t

updateLinkedBalanceUpdates(t, i) ==
    IF t.rows[i].reason \notin {"EpochReward", "DelegatorEpochReward", "DelegateeEpochReward"}
    THEN t
    ELSE IF i \in DOMAIN t.prev
    THEN LET before == t.rows[t.prev[i]].new
         IN  [t EXCEPT !.rows[i].old.bal = before.bal, !.rows[i].old.stake = before.stake]
    ELSE IF i \in DOMAIN t.next
    THEN LET next   == t.rows[t.next[i]]
             newEnd == Shift(t.rows[i].new, Diff(next.old, next.new))
         IN  [t EXCEPT !.rows[i].new = newEnd,
                       !.rows[t.next[i]].new = Shift(@, Diff(newEnd, next.old)),
                       !.rows[t.next[i]].old = [@ EXCEPT !.bal = newEnd.bal, !.stake = newEnd.stake]]
    ELSE t

\* The row that a new row of an epoch reward is linked behind: one of the same
\* address, of the other side of the payment to a delegatee.
RowsToLink(t, row) ==
    LET has(reason) == <<reason, row.addr>> \in DOMAIN t.rowOf
    IN  CASE row.reason = "EpochReward" /\ has("DelegatorEpochReward") -> {"DelegatorEpochReward"}
          [] row.reason = "EpochReward" /\ ~has("DelegatorEpochReward")
                                        /\ has("DelegateeEpochReward") -> {"DelegateeEpochReward"}
          [] row.reason \in {"DelegatorEpochReward", "DelegateeEpochReward"}
                                        /\ has("EpochReward")          -> {"EpochReward"}
          [] OTHER -> {}

Put(f, x, y) == [z \in DOMAIN f \cup {x} |-> IF z = x THEN y ELSE f[z]]

\* Where balanceUpdatesByReasonAndAddr has the row.
KeyOf(row) == <<row.reason, row.addr>>

\* handleMultipleBalanceUpdate, and the append of its callers when it returns false.
handleMultipleBalanceUpdate(t, row) ==
    LET key == KeyOf(row)
        i   == t.rowOf[key]
        n   == Len(t.rows) + 1
        merged == IF row.reason = "DelegatorEpochReward"
                  THEN row
                  ELSE [t.rows[i] EXCEPT !.new = row.new, !.payment = @ + row.payment]
        before == {t.rowOf[<<reason, row.addr>>] : reason \in RowsToLink(t, row)}
        linked == [rows  |-> Append(t.rows, row),
                   rowOf |-> Put(t.rowOf, key, n),
                   prev  |-> IF before = {} THEN t.prev ELSE Put(t.prev, n, Max(before)),
                   next  |-> IF before = {} THEN t.next ELSE Put(t.next, Max(before), n)]
    IN  IF key \in DOMAIN t.rowOf
        THEN updateLinkedBalanceUpdates([t EXCEPT !.rows[i] = merged], i)
        ELSE updateLinkedBalanceUpdates(linked, n)

-----------------------------------------------------------------------------
(* Begin...BalanceUpdate                                                    *)

\* addPendingBalanceUpdate.  A potential payment of a penalty counts only for
\* an address that has one.
addPendingBalanceUpdate(addr, reason, payment) ==
    LET view == View(accounts[addr])
    IN  BalanceRow(addr, reason, view, view, IF view.pen > 0 THEN payment ELSE 0)

addBurntCoins(addr, amount, reason) ==
    IF amount = 0 THEN <<>> ELSE <<[addr |-> addr, amount |-> amount, reason |-> reason]>>

MergedReasons == {"EpochReward", "CommitteeReward", "VerifiedStakeTransfer"}

Begin(reason, newRows) ==
    /\ pendingRows = <<>>
    /\ brackets' = brackets + (IF reason \in MergedReasons THEN 1 ELSE 2)
    /\ brackets' <= MaxBrackets
    /\ phase <= PhaseOf(reason)
    /\ phase' = PhaseOf(reason)
    /\ pendingRows' = newRows
    /\ UNCHANGED mergeVars

TwoRows(reason, first, second, payment) ==
    <<addPendingBalanceUpdate(first, reason, payment)>> \o
        IF first = second THEN <<>> ELSE <<addPendingBalanceUpdate(second, reason, 0)>>

\* A transaction from sender to "to" that pays, or burns, an amount; "payee" is
\* the recipient or one of the additional addresses the node passes.
BeginTxBalanceUpdate(sender, to, payee, burn) ==
    /\ accounts[sender].bal >= 1
    /\ Begin("Tx", TwoRows("Tx", sender, to, 0) \o
                   IF payee \in {sender, to} THEN <<>> ELSE <<addPendingBalanceUpdate(payee, "Tx", 0)>>)
    /\ LET paid == [accounts EXCEPT ![sender].bal = @ - 1]
       IN  accounts' = IF burn THEN paid ELSE [paid EXCEPT ![payee].bal = @ + 1]
    /\ burntRows' = burntRows \o IF burn THEN addBurntCoins(sender, 1, "BurnTx") ELSE <<>>
    /\ UNCHANGED <<earned, supply>>

BeginVerifiedStakeTransferBalanceUpdate(from, to) ==
    /\ ~accounts[from].killed /\ ~accounts[to].killed
    /\ Begin("VerifiedStakeTransfer", TwoRows("VerifiedStakeTransfer", from, to, 0))
    /\ accounts' = LET stake == accounts[from].stake
                   IN  [[accounts EXCEPT ![from].stake = 0] EXCEPT ![to].stake = @ + stake]
    /\ UNCHANGED <<burntRows, earned, supply>>

\* Mutant: a stake added to a killed identity disappears.
NotBurnt(addr, amount) == <<>>

\* AfterAddStake: a stake added to a killed identity is burnt at once.
AfterAddStake(addr, amount) ==
    IF accounts[addr].killed THEN addBurntCoins(addr, amount, "Killed") ELSE <<>>

Reward(reason, balanceDest, stakeDest, balance, stake, payment) ==
    /\ Begin(reason, TwoRows(reason, balanceDest, stakeDest, payment))
    /\ accounts' = [[accounts EXCEPT ![balanceDest].bal = @ + balance,
                                     ![balanceDest].pen = IF payment > 0 THEN 0 ELSE @]
                              EXCEPT ![stakeDest].stake = @ + stake]
    /\ burntRows' = burntRows \o AfterAddStake(stakeDest, stake)
    /\ supply' = supply + balance + stake

BeginEpochRewardBalanceUpdate(balanceDest, stakeDest, balance, stake) ==
    /\ Reward("EpochReward", balanceDest, stakeDest, balance, stake, 0)
    /\ earned' = [earned EXCEPT ![stakeDest] = @ + balance]

BeginProposerRewardBalanceUpdate(balanceDest, stakeDest, balance, stake, payment) ==
    /\ Reward("ProposerReward", balanceDest, stakeDest, balance, stake, payment)
    /\ UNCHANGED earned

BeginCommitteeRewardBalanceUpdate(balanceDest, stakeDest, balance, stake, payment) ==
    /\ Reward("CommitteeReward", balanceDest, stakeDest, balance, stake, payment)
    /\ UNCHANGED earned

BeginEpochPenaltyResetBalanceUpdate(addr) ==
    /\ Begin("EpochPenaltyReset", <<addPendingBalanceUpdate(addr, "EpochPenaltyReset", 0)>>)
    /\ accounts' = [accounts EXCEPT ![addr].pen = 0]
    /\ UNCHANGED <<burntRows, earned, supply>>

\* A failed validation kills; the node reports the stake with AddKilledBurntCoins.
BeginFailedValidationBalanceUpdate(addr) ==
    /\ Begin("FailedValidation", <<addPendingBalanceUpdate(addr, "FailedValidation", 0)>>)
    /\ accounts' = [accounts EXCEPT ![addr].killed = TRUE]
    /\ burntRows' = burntRows \o addBurntCoins(addr, View(accounts[addr]).stake, "Killed")
    /\ UNCHANGED <<earned, supply>>

BeginIdentityClearingBalanceUpdate(addr) ==
    /\ Begin("IdentityClearing", <<addPendingBalanceUpdate(addr, "IdentityClearing", 0)>>)
    /\ accounts' = [accounts EXCEPT ![addr].killed = TRUE, ![addr].stake = 0, ![addr].pen = 0]
    /\ burntRows' = burntRows \o addBurntCoins(addr, View(accounts[addr]).stake, "Killed")
    /\ UNCHANGED <<earned, supply>>

BeginDustClearingBalanceUpdate(addr) ==
    /\ Begin("DustClearing", <<addPendingBalanceUpdate(addr, "DustClearing", 0)>>)
    /\ accounts' = [accounts EXCEPT ![addr].bal = 0]
    /\ UNCHANGED <<burntRows, earned, supply>>

-----------------------------------------------------------------------------
(* CompleteBalanceUpdate                                                    *)

completeBalanceUpdates ==
    [i \in DOMAIN pendingRows |-> [pendingRows[i] EXCEPT !.new = View(accounts[pendingRows[i].addr])]]

\* The reward of a delegator: what it earns, what it hands over, what the
\* delegatee receives.  The side whose balance did not change is the delegator.
DelegatedRewardRows(done) ==
    LET delegator == IF isBalanceChanged(done[1]) THEN done[2] ELSE done[1]
        delegatee == IF isBalanceChanged(done[1]) THEN done[1] ELSE done[2]
        passed    == delegatee.new.bal - delegatee.old.bal
        peak      == [delegator.new EXCEPT !.bal = delegator.old.bal + passed]
    IN  <<BalanceRow(delegator.addr, "EpochReward", delegator.old, peak, 0),
          BalanceRow(delegator.addr, "DelegatorEpochReward", peak, delegator.new, 0),
          [delegatee EXCEPT !.reason = "DelegateeEpochReward"]>>

IsDelegatedReward(done) ==
    /\ Len(done) = 2
    /\ done[1].reason = "EpochReward" /\ done[2].reason = "EpochReward"
    /\ done[1].addr # done[2].addr

CollectRow(t, row) ==
    IF row.reason \in MergedReasons \cup {"DelegatorEpochReward", "DelegateeEpochReward"}
    THEN handleMultipleBalanceUpdate(t, row)
    ELSE [t EXCEPT !.rows = Append(@, row)]

\* The dust that the changed rows have cleared.
BurntDust(done) ==
    LET upTo[n \in 0..Len(done)] ==
            IF n = 0 THEN <<>>
            ELSE IF done[n].reason = "DustClearing" /\ isBalanceOrStakeOrPenaltyChanged(done[n])
            THEN upTo[n - 1] \o addBurntCoins(done[n].addr, done[n].old.bal, "DustClearing")
            ELSE upTo[n - 1]
    IN  upTo[Len(done)]

CompleteBalanceUpdate ==
    /\ pendingRows # <<>>
    /\ LET done    == completeBalanceUpdates
           changed == SelectSeq(done, isBalanceOrStakeOrPenaltyChanged)
       IN  /\ SetTables(FoldLeft(CollectRow, Tables,
                                 IF IsDelegatedReward(done) THEN DelegatedRewardRows(done) ELSE changed))
           /\ burntRows' = burntRows \o BurntDust(done)
    /\ pendingRows' = <<>>
    /\ UNCHANGED <<accounts, phase, brackets, earned, supply>>

-----------------------------------------------------------------------------
\* Before the block every address has a balance, a stake and a penalty.
StartAccount == [bal |-> 1, stake |-> 1, pen |-> 1, killed |-> FALSE]

BalanceInit ==
    /\ accounts = [a \in Accounts |-> StartAccount]
    /\ phase = 1
    /\ pendingRows = <<>> /\ rows = <<>> /\ burntRows = <<>>
    /\ rowOf = <<>> /\ linkToPrev = <<>> /\ linkToNext = <<>>
    /\ brackets = 0
    /\ earned = [a \in Accounts |-> 0]
    /\ supply = 2 * Cardinality(Accounts)

\* A reward of x goes to its owner or through a pool.
Destinations == {<<a, a>> : a \in Accounts} \cup (PoolAccounts \X (Accounts \ PoolAccounts))

BalanceNext ==
    \/ \E sender, to, payee \in Accounts, burn \in BOOLEAN : BeginTxBalanceUpdate(sender, to, payee, burn)
    \/ \E from, to \in Accounts : BeginVerifiedStakeTransferBalanceUpdate(from, to)
    \/ \E d \in Destinations, parts \in RewardParts :
          \/ BeginEpochRewardBalanceUpdate(d[1], d[2], parts[1], parts[2])
          \/ \E payment \in 0..1 :
                \/ BeginProposerRewardBalanceUpdate(d[1], d[2], parts[1], parts[2], payment)
                \/ BeginCommitteeRewardBalanceUpdate(d[1], d[2], parts[1], parts[2], payment)
    \/ \E a \in Accounts :
          \/ BeginFailedValidationBalanceUpdate(a)
          \/ BeginEpochPenaltyResetBalanceUpdate(a)
          \/ BeginIdentityClearingBalanceUpdate(a)
          \/ BeginDustClearingBalanceUpdate(a)
    \/ CompleteBalanceUpdate

-----------------------------------------------------------------------------
RowsOf(a) == SelectSeq(rows, LAMBDA row: row.addr = a)

Gain(a, reason) ==
    FoldLeft(LAMBDA sum, row: IF row.reason = reason THEN sum + row.new.bal - row.old.bal ELSE sum,
             0, RowsOf(a))

\* The coins of the rows of burnt coins, and those of the accounts.
Burnt == SumOfList([i \in DOMAIN burntRows |-> burntRows[i].amount])
Worth(account) == View(account).bal + View(account).stake
AccountList == SetToSeq(Accounts)
Coins == SumOfList([i \in DOMAIN AccountList |-> Worth(accounts[AccountList[i]])])

(* Types; the index of the rows (balanceUpdatesByReasonAndAddr) leads to rows *)
(* of its reason and address.                                                 *)
BalanceTypeOK ==
    /\ accounts \in [Accounts -> [bal : Nat, stake : Nat, pen : Nat, killed : BOOLEAN]]
    /\ phase \in 1..6 /\ brackets \in 0..MaxBrackets
    /\ \A i \in DOMAIN rows : rows[i].addr \in Accounts /\ rows[i].reason \in Reasons
    /\ \A key \in DOMAIN rowOf :
          rowOf[key] \in DOMAIN rows /\ rows[rowOf[key]].reason = key[1] /\ rows[rowOf[key]].addr = key[2]

(* Between two brackets the rows of every address, in the order they are     *)
(* saved, lead without a gap from its account before the block to its account *)
(* now, whatever was merged into rows written long before: the check that     *)
(* checkBalances makes on the database ("balance update gap cnt").            *)
RowsChain ==
    pendingRows = <<>> =>
        \A a \in Accounts :
            LET path == <<View(StartAccount)>> \o [i \in DOMAIN RowsOf(a) |-> RowsOf(a)[i].new]
            IN  /\ \A i \in DOMAIN RowsOf(a) : RowsOf(a)[i].old = path[i]
                /\ Last(path) = View(accounts[a])

(* The epoch rewards are attributed to who earned them: the EpochReward rows  *)
(* of an address sum up to what it earned, although a delegator's balance     *)
(* never moved, and what the delegators hand over is what the pools receive.  *)
RewardsAreAttributed ==
    pendingRows = <<>> =>
        /\ \A a \in Accounts : Gain(a, "EpochReward") = earned[a]
        /\ MapThenSumSet(LAMBDA a: Gain(a, "DelegateeEpochReward") + Gain(a, "DelegatorEpochReward"), Accounts) = 0

\* The balance updates collected for a block are a ledger of it
\* (addPendingBalanceUpdate, CompleteBalanceUpdate): the rows of an address
\* chain, and a reward is in the row of the one who received it.
BalanceRowsAreSound == BalanceTypeOK /\ RowsChain /\ RewardsAreAttributed

(* Every coin is in an account or in the rows of burnt coins, once: killed    *)
(* stakes, stakes added to the killed, dust and burn transactions.            *)
CoinsAreAccounted == pendingRows = <<>> => Coins + Burnt = supply
=============================================================================
