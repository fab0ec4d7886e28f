---------------------------- MODULE ResetsProofs ----------------------------
(***************************************************************************)
(* Proofs about what a reset takes back.  The backward replay of the undo  *)
(* log (UndoLog) is exact, for every set of rows, every window and every   *)
(* number of blocks and updates; no fork inside the window of the rewards  *)
(* of the committee (CommitteeRewards) is refused, and the rows of rewards *)
(* are shrunk exactly.                                                     *)
(***************************************************************************)
EXTENDS UndoLog, CommitteeRewards, TLAPS, FiniteSetTheorems, WellFoundedInduction

-----------------------------------------------------------------------------
(* UndoLog. *)

\* A log: ids are distinct, later ids belong to no earlier block, and no entry
\* is newer than block h or than the sequence.
Ordered(C, h) ==
    /\ \A c \in C : c.id < nextId /\ c.height <= h
    /\ \A c, d \in C : c.id = d.id => c = d
    /\ \A c, d \in C : c.id < d.id => c.height <= d.height

\* A summary row that is in the log is in the table, and every entry for it but
\* the first one replaced a row (so the UPDATE that undoes it finds one).
RowsPresent(T, C) ==
    \A c \in C : c.key \notin TokenKeys =>
        /\ T[c.key] # NoRow
        /\ \A d \in C : d.key = c.key /\ c.id < d.id => d.prev # NoRow

\* e is the first entry for row k above block p.
First(C, p, k, e) ==
    /\ e.key = k /\ e.height > p
    /\ \A d \in C : d.key = k /\ d.height > p => e.id <= d.id

\* Taking the blocks above p back would restore what row k held after block p.
Restorable(T, C, p) ==
    \A k \in Keys :
        /\ (\A c \in C : c.key = k => c.height <= p) => T[k] = snap[p][k]
        /\ \A e \in C : First(C, p, k, e) => e.prev = snap[p][k]

LogInv(T, C, h, top) ==
    /\ Ordered(C, h)
    /\ RowsPresent(T, C)
    /\ \A p \in 0..MaxHeight : floor <= p /\ p <= top => Restorable(T, C, p)

IndInv ==
    /\ TypeOK
    /\ LogInv(table, changes, last, last)
    /\ tx = "save" => target = last + 1 /\ LogInv(wtable, wchanges, target, last)
    /\ tx = "reset" => target < last /\ LogInv(wtable, wchanges, last, target)

USE UndoLogAssumption DEF NoRow

\* The empty database satisfies the inductive invariant.
LEMMA InitIndInv == Init => IndInv
<1> SUFFICES ASSUME Init PROVE IndInv OBVIOUS
<1> USE DEF Init
<1>1. TypeOK BY DEF TypeOK, Rows
<1>2. LogInv(table, changes, last, last)
  BY DEF LogInv, Ordered, RowsPresent, Restorable, First
<1> QED BY <1>1, <1>2 DEF IndInv

\* Logging an update leaves every earlier block restorable.
LEMMA PutLogInv ==
    ASSUME TypeOK, tx = "save", target = last + 1, LogInv(wtable, wchanges, target, last),
           NEW k \in Keys, NEW v \in {NoRow} \cup 0..MaxValue, k \notin TokenKeys => v # NoRow,
           Put(k, v)
    PROVE  TypeOK' /\ LogInv(wtable, wchanges, target, last)'
<1> DEFINE n == [id |-> nextId, height |-> target, key |-> k, prev |-> wtable[k]]
<1>1. /\ nextId <= MaxChanges /\ nextId' = nextId + 1
      /\ wchanges' = wchanges \cup {n}
      /\ wtable' = [wtable EXCEPT ![k] = v]
      /\ UNCHANGED <<last, table, changes, tx, target, snap, floor>>
  BY DEF Put
<1>2. target \in 1..MaxHeight BY DEF TypeOK
<1>3. n \in Change /\ n.id = nextId /\ n.height = target /\ n.key = k /\ n.prev = wtable[k]
  BY <1>1, <1>2 DEF TypeOK, Change, Rows
<1> HIDE DEF n
<1>4. wtable' \in Rows /\ wtable'[k] = v /\ \A j \in Keys : j # k => wtable'[j] = wtable[j]
  BY <1>1 DEF TypeOK, Rows
<1>5. wchanges' \subseteq Change BY <1>1, <1>3 DEF TypeOK
<1>6. TypeOK' BY <1>1, <1>4, <1>5 DEF TypeOK
<1>7. \A c \in wchanges : c \in Change /\ c.id \in Nat /\ c.height \in Nat /\ c.key \in Keys /\ c.id < n.id
  BY <1>3 DEF TypeOK, Change, LogInv, Ordered
<1>8. Ordered(wchanges, target)'
  BY <1>1, <1>3, <1>7 DEF Ordered, LogInv, TypeOK
<1>9. RowsPresent(wtable, wchanges)'
  BY <1>1, <1>3, <1>4, <1>7 DEF RowsPresent, LogInv, TypeOK
<1>10. ASSUME NEW p \in 0..MaxHeight, floor <= p, p <= last
       PROVE  Restorable(wtable, wchanges, p)'
  <2>1. Restorable(wtable, wchanges, p) BY <1>10 DEF LogInv
  <2>2. n.height > p BY <1>3, <1>10 DEF TypeOK
  <2>3. ASSUME NEW j \in Keys, \A c \in wchanges' : c.key = j => c.height <= p
        PROVE  wtable'[j] = snap'[p][j]
    <3>1. j # k BY <1>1, <1>3, <2>2, <2>3 DEF TypeOK
    <3> QED BY <1>1, <1>4, <2>1, <2>3, <3>1 DEF Restorable
  <2>4. ASSUME NEW j \in Keys, NEW e \in wchanges', First(wchanges', p, j, e)
        PROVE  e.prev = snap'[p][j]
    <3>1. CASE e \in wchanges
      <4>1. First(wchanges, p, j, e) BY <1>1, <2>4 DEF First
      <4> QED BY <1>1, <2>1, <3>1, <4>1 DEF Restorable
    <3>2. CASE e = n
      <4>1. j = k BY <1>3, <2>4, <3>2 DEF First
      <4>2. \A c \in wchanges : c.key = k => ~(c.height > p)
        BY <1>1, <1>7, <1>3, <2>4, <3>2, <4>1 DEF First, TypeOK
      <4>3. \A c \in wchanges : c.key = k => c.height <= p BY <4>2, <1>7
      <4> QED BY <1>1, <1>3, <2>1, <3>2, <4>1, <4>3 DEF Restorable
    <3> QED BY <1>1, <3>1, <3>2
  <2> QED BY <2>3, <2>4 DEF Restorable
<1> QED BY <1>1, <1>6, <1>8, <1>9, <1>10 DEF LogInv

\* A transaction starts from the committed tables.
LEMMA BeginIndInv ==
    ASSUME IndInv, BeginSave \/ \E p \in 0..MaxHeight : BeginReset(p)
    PROVE  IndInv'
<1>1. CASE BeginSave
  <2>1. /\ tx' = "save" /\ target' = last + 1 /\ wtable' = table /\ wchanges' = changes
        /\ last < MaxHeight
        /\ UNCHANGED <<last, table, changes, nextId, snap, floor>>
    BY <1>1 DEF BeginSave, Begin
  <2>2. TypeOK' BY <2>1 DEF IndInv, TypeOK
  <2>3. LogInv(table, changes, last, last)'
    BY <2>1 DEF IndInv, LogInv, Ordered, RowsPresent, Restorable, First
  <2>4. \A c \in changes : c.height \in Nat BY DEF IndInv, TypeOK, Change
  <2>5. Ordered(wchanges, target)' BY <2>1, <2>4 DEF IndInv, LogInv, Ordered, TypeOK
  <2>6. LogInv(wtable, wchanges, target, last)'
    BY <2>1, <2>5 DEF IndInv, LogInv, RowsPresent, Restorable, First
  <2> QED BY <2>1, <2>2, <2>3, <2>6 DEF IndInv
<1>2. ASSUME NEW p \in 0..MaxHeight, BeginReset(p) PROVE IndInv'
  <2>1. /\ tx' = "reset" /\ target' = p /\ wtable' = table /\ wchanges' = changes
        /\ p < last
        /\ UNCHANGED <<last, table, changes, nextId, snap, floor>>
    BY <1>2 DEF BeginReset, Begin
  <2>2. TypeOK' BY <2>1 DEF IndInv, TypeOK
  <2>3. LogInv(table, changes, last, last)'
    BY <2>1 DEF IndInv, LogInv, Ordered, RowsPresent, Restorable, First
  <2>4. Ordered(wchanges, last)' /\ RowsPresent(wtable, wchanges)'
    BY <2>1 DEF IndInv, LogInv, Ordered, RowsPresent
  <2>5. \A q \in 0..MaxHeight : (floor <= q /\ q <= target)' => Restorable(wtable, wchanges, q)'
    BY <2>1 DEF IndInv, LogInv, Restorable, First, TypeOK
  <2>6. LogInv(wtable, wchanges, last, target)' BY <2>1, <2>4, <2>5 DEF LogInv
  <2> QED BY <2>1, <2>2, <2>3, <2>6 DEF IndInv
<1> QED BY <1>1, <1>2

\* Each of the three kinds of update logs what it replaces.
LEMMA UpdateIndInv == ASSUME IndInv, Update PROVE IndInv'
<1> DEFINE Logged == \E k \in Keys, v \in {NoRow} \cup 0..MaxValue :
                        tx = "save" /\ (k \notin TokenKeys => v # NoRow) /\ Put(k, v)
<1>1. Logged
  <2>1. ASSUME NEW k \in TokenKeys, NEW b \in 0..MaxValue, SaveTokenBalanceUpdate(k, b)
        PROVE  Logged
    <3>1. k \in Keys BY DEF Keys
    <3> DEFINE v == IF b = 0 THEN NoRow ELSE b
    <3>2. v \in {NoRow} \cup 0..MaxValue OBVIOUS
    <3>3. tx = "save" /\ Put(k, v) BY <2>1 DEF SaveTokenBalanceUpdate
    <3> QED BY <3>1, <3>2, <3>3
  <2>2. ASSUME NEW k \in SummaryKeys \cup MiningKeys, NEW d \in 0..MaxValue, tx = "save",
               Increased(wtable[k], d) <= MaxValue, Put(k, Increased(wtable[k], d))
        PROVE  Logged
    <3>1. k \in Keys /\ k \notin TokenKeys BY DEF Keys
    <3>2. wtable[k] \in {NoRow} \cup 0..MaxValue BY <3>1 DEF IndInv, TypeOK, Rows
    <3>3. Increased(wtable[k], d) \in 0..MaxValue BY <2>2, <3>2 DEF Increased
    <3> QED BY <2>2, <3>1, <3>3
  <2> HIDE DEF Logged
  <2>3. ASSUME NEW k \in SummaryKeys, NEW d \in 0..MaxValue, UpdateBalanceUpdateSummary(k, d)
        PROVE  Logged
    BY <2>2, <2>3 DEF UpdateBalanceUpdateSummary
  <2>4. ASSUME NEW k \in MiningKeys, NEW d \in 0..MaxValue, UpdateMiningRewardSummary(k, d)
        PROVE  Logged
    BY <2>2, <2>4 DEF UpdateMiningRewardSummary
  <2> QED BY <2>1, <2>3, <2>4 DEF Update
<1>2. PICK k \in Keys, v \in {NoRow} \cup 0..MaxValue :
         tx = "save" /\ (k \notin TokenKeys => v # NoRow) /\ Put(k, v)
  BY <1>1
<1>3. TypeOK' /\ LogInv(wtable, wchanges, target, last)' BY <1>2, PutLogInv DEF IndInv
<1>4. UNCHANGED <<last, table, changes, tx, target, snap, floor>> /\ nextId' = nextId + 1
  BY <1>2 DEF Put
<1>5. \A c \in changes : c.id \in Nat BY DEF IndInv, TypeOK, Change
<1>6. Ordered(changes, last)' BY <1>4, <1>5 DEF IndInv, LogInv, Ordered, TypeOK
<1>7. LogInv(table, changes, last, last)'
  BY <1>4, <1>6 DEF IndInv, LogInv, RowsPresent, Restorable, First
<1> QED BY <1>2, <1>3, <1>4, <1>7 DEF IndInv

\* Dropping the entries that have left the window keeps the blocks inside it
\* restorable.
LEMMA CommitSaveIndInv == ASSUME IndInv, CommitSave PROVE IndInv'
<1> DEFINE kept == Kept(wchanges, target)
<1>1. /\ tx = "save" /\ tx' = "none" /\ last' = target /\ target' = 0
      /\ table' = wtable /\ wtable' = wtable /\ changes' = kept /\ wchanges' = kept
      /\ snap' = [snap EXCEPT ![target] = wtable]
      /\ floor' = IF target - ChangesBlocksCount > floor THEN target - ChangesBlocksCount ELSE floor
      /\ UNCHANGED nextId
  BY DEF CommitSave, End
<1>2. target = last + 1 /\ LogInv(wtable, wchanges, target, last) BY <1>1 DEF IndInv
<1>3. kept \subseteq wchanges /\ \A c \in wchanges : c.height > floor' => c \in kept
  <2>1. \A c \in wchanges : c.height \in Nat BY DEF IndInv, TypeOK, Change
  <2> QED BY <1>1, <2>1 DEF Kept, IndInv, TypeOK
<1> HIDE DEF kept
<1>4. TypeOK' BY <1>1, <1>3 DEF IndInv, TypeOK
<1>5. Ordered(changes, last)' BY <1>1, <1>2, <1>3 DEF LogInv, Ordered
<1>6. RowsPresent(table, changes)' BY <1>1, <1>2, <1>3 DEF LogInv, RowsPresent
<1>7. \A c \in wchanges : c.height \in Nat /\ c.height <= target
  BY <1>2 DEF LogInv, Ordered, IndInv, TypeOK, Change
<1>8. ASSUME NEW p \in 0..MaxHeight, floor' <= p, p <= last'
      PROVE  Restorable(table, changes, p)'
  <2>1. CASE p = target
    <3>1. snap'[p] = wtable BY <1>1, <2>1 DEF IndInv, TypeOK
    <3>2. \A e \in changes' : ~(e.height > p) BY <1>1, <1>3, <1>7, <2>1
    <3> QED BY <1>1, <3>1, <3>2 DEF Restorable, First
  <2>2. CASE p # target
    <3>1. p <= last /\ floor <= p BY <1>1, <1>2, <1>8, <2>2 DEF IndInv, TypeOK
    <3>2. Restorable(wtable, wchanges, p) BY <1>2, <3>1 DEF LogInv
    <3>3. snap'[p] = snap[p] BY <1>1, <2>2 DEF IndInv, TypeOK
    <3>4. \A c \in wchanges : c.height > p => c \in kept
      BY <1>3, <1>7, <1>8, <1>4 DEF TypeOK
    <3>5. ASSUME NEW k \in Keys, \A c \in kept : c.key = k => c.height <= p
          PROVE  wtable[k] = snap[p][k]
      <4>1. \A c \in wchanges : c.key = k => c.height <= p BY <1>3, <1>7, <3>4, <3>5
      <4> QED BY <3>2, <4>1 DEF Restorable
    <3>6. ASSUME NEW k \in Keys, NEW e \in kept, First(kept, p, k, e)
          PROVE  e.prev = snap[p][k]
      <4>1. First(wchanges, p, k, e) BY <3>4, <3>6 DEF First
      <4> QED BY <1>3, <3>2, <4>1 DEF Restorable
    <3> QED BY <1>1, <3>3, <3>5, <3>6 DEF Restorable
  <2> QED BY <2>1, <2>2
<1> QED BY <1>1, <1>4, <1>5, <1>6, <1>8 DEF IndInv, LogInv

\* Undoing the newest entry leaves the blocks up to the target restorable.
LEMMA UndoChangeIndInv == ASSUME IndInv, UndoChange PROVE IndInv'
<1>1. PICK e \in wchanges :
         /\ Newest(e)
         /\ wtable' = [wtable EXCEPT ![e.key] = Undone(e)]
         /\ wchanges' = wchanges \ {e}
  BY DEF UndoChange
<1>2. tx = "reset" /\ UNCHANGED <<last, table, changes, nextId, tx, target, snap, floor>>
  BY DEF UndoChange
<1>3. target < last /\ LogInv(wtable, wchanges, last, target) BY <1>2 DEF IndInv
<1>4. \A c \in wchanges : c \in Change /\ c.id \in Nat /\ c.height \in Nat /\ c.key \in Keys
                          /\ c.prev \in {NoRow} \cup 0..MaxValue
  BY DEF IndInv, TypeOK, Change
<1>5. Undone(e) = e.prev BY <1>3 DEF Undone, LogInv, RowsPresent
<1>6. /\ wtable' \in Rows /\ wtable'[e.key] = e.prev
      /\ \A k \in Keys : k # e.key => wtable'[k] = wtable[k]
  BY <1>1, <1>4, <1>5 DEF IndInv, TypeOK, Rows
<1>7. TypeOK' BY <1>1, <1>2, <1>6 DEF IndInv, TypeOK
<1>8. Ordered(wchanges, last)' BY <1>1, <1>2, <1>3 DEF LogInv, Ordered
<1>9. \A d \in wchanges : d.height > target => d.id <= e.id BY <1>1 DEF Newest
<1>10. e.height > target BY <1>1 DEF Newest
<1>11. \A d \in wchanges : d # e => d.id < e.id
  <2> SUFFICES ASSUME NEW d \in wchanges, d # e, ~(d.id < e.id) PROVE FALSE OBVIOUS
  <2>1. d.id # e.id BY <1>3 DEF LogInv, Ordered
  <2>2. e.id < d.id BY <1>4, <2>1
  <2>3. e.height <= d.height BY <1>3, <2>2 DEF LogInv, Ordered
  <2>4. d.height > target BY <1>4, <1>10, <2>3 DEF IndInv, TypeOK
  <2> QED BY <1>4, <1>9, <2>2, <2>4
<1>12. RowsPresent(wtable, wchanges)'
  BY <1>1, <1>2, <1>3, <1>4, <1>6, <1>11 DEF LogInv, RowsPresent
<1>13. ASSUME NEW p \in 0..MaxHeight, floor <= p, p <= target
       PROVE  Restorable(wtable, wchanges, p)'
  <2>1. Restorable(wtable, wchanges, p) BY <1>3, <1>13 DEF LogInv
  <2>2. e.height > p BY <1>4, <1>10, <1>13 DEF IndInv, TypeOK
  <2>3. ASSUME NEW k \in Keys, \A c \in wchanges' : c.key = k => c.height <= p
        PROVE  wtable'[k] = snap[p][k]
    <3>1. CASE k # e.key
      <4>1. \A c \in wchanges : c.key = k => c.height <= p BY <1>1, <2>3, <3>1
      <4> QED BY <1>6, <2>1, <3>1, <4>1 DEF Restorable
    <3>2. CASE k = e.key
      <4>1. First(wchanges, p, k, e) BY <1>1, <1>4, <2>2, <2>3, <3>2 DEF First
      <4> QED BY <1>6, <2>1, <3>2, <4>1 DEF Restorable
    <3> QED BY <3>1, <3>2
  <2>4. ASSUME NEW k \in Keys, NEW c \in wchanges', First(wchanges', p, k, c)
        PROVE  c.prev = snap[p][k]
    <3>1. c \in wchanges /\ c # e BY <1>1
    <3>2. First(wchanges, p, k, c) BY <1>1, <1>4, <1>11, <2>4, <3>1 DEF First
    <3> QED BY <2>1, <3>1, <3>2 DEF Restorable
  <2> QED BY <1>2, <2>3, <2>4 DEF Restorable
<1>14. LogInv(wtable, wchanges, last, target)' BY <1>2, <1>8, <1>12, <1>13 DEF LogInv
<1>15. LogInv(table, changes, last, last)'
  BY <1>2 DEF IndInv, LogInv, Ordered, RowsPresent, Restorable, First
<1> QED BY <1>2, <1>3, <1>7, <1>14, <1>15 DEF IndInv

\* When no entry above the target is left, the tables are those of the target.
LEMMA CommitResetIndInv == ASSUME IndInv, CommitReset PROVE IndInv'
<1>1. /\ tx = "reset" /\ tx' = "none" /\ last' = target /\ target' = 0
      /\ table' = wtable /\ wtable' = wtable /\ changes' = wchanges /\ wchanges' = wchanges
      /\ UNCHANGED <<nextId, snap, floor>>
      /\ \A e \in wchanges : e.height <= target
  BY DEF CommitReset, End
<1>2. TypeOK' BY <1>1 DEF IndInv, TypeOK
<1>3. LogInv(table, changes, last, last)'
  BY <1>1 DEF IndInv, LogInv, Ordered, RowsPresent, Restorable, First
<1> QED BY <1>1, <1>2, <1>3 DEF IndInv

\* A failed transaction leaves the committed tables.
LEMMA RollbackIndInv == ASSUME IndInv, Rollback PROVE IndInv'
<1>1. /\ tx' = "none" /\ target' = 0 /\ wtable' = table /\ wchanges' = changes
      /\ UNCHANGED <<last, table, changes, nextId, snap, floor>>
  BY DEF Rollback, End
<1>2. TypeOK' BY <1>1 DEF IndInv, TypeOK
<1>3. LogInv(table, changes, last, last)'
  BY <1>1 DEF IndInv, LogInv, Ordered, RowsPresent, Restorable, First
<1> QED BY <1>1, <1>2, <1>3 DEF IndInv

\* Every step of the database preserves the inductive invariant.
LEMMA NextIndInv == IndInv /\ [Next]_vars => IndInv'
<1> SUFFICES ASSUME IndInv, [Next]_vars PROVE IndInv' OBVIOUS
<1>1. CASE UNCHANGED vars
  BY <1>1 DEF vars, IndInv, TypeOK, LogInv, Ordered, RowsPresent, Restorable, First
<1>2. CASE Next
  BY <1>2, BeginIndInv, UpdateIndInv, CommitSaveIndInv, UndoChangeIndInv, CommitResetIndInv,
     RollbackIndInv DEF Next, Reset
<1> QED BY <1>1, <1>2

\* The tables, the log and the working copies keep their types.
THEOREM UndoLogTypeCorrect == Spec => []TypeOK
<1>1. IndInv => TypeOK BY DEF IndInv
<1> QED BY <1>1, InitIndInv, NextIndInv, PTL DEF Spec

\* reset_changes_to is exact: whatever was saved, failed and taken back before,
\* the tables hold what they held when the last block was saved, unless the
\* last reset went below the part of the log that has been dropped.
THEOREM ReplayIsExact == Spec => []TablesFollowBlocks
<1>1. IndInv => TablesFollowBlocks
  <2> SUFFICES ASSUME IndInv, last >= floor PROVE table = snap[last]
    BY DEF TablesFollowBlocks
  <2>1. Restorable(table, changes, last) BY DEF IndInv, LogInv, TypeOK
  <2>2. \A k \in Keys : table[k] = snap[last][k]
    BY <2>1 DEF Restorable, IndInv, LogInv, Ordered
  <2>3. table \in Rows /\ snap[last] \in Rows BY DEF IndInv, TypeOK
  <2> QED BY <2>2, <2>3 DEF Rows
<1> QED BY <1>1, InitIndInv, NextIndInv, PTL DEF Spec

-----------------------------------------------------------------------------
(* CommitteeRewards. *)

\* Every block above the dropped part of the history has left a record.
RecordAt(p) == \E a \in Addresses : \E r \in history[a] : r.height = p

RecordsCover ==
    /\ lastSaved \in Nat /\ rowFloor \in Nat
    /\ rewardEveryBlock => \A p \in 1..lastSaved : rowFloor < p => RecordAt(p)

\* There is no block at first.
LEMMA InitRecordsCover == CommitteeInit => RecordsCover
BY DEF CommitteeInit, RecordsCover

\* A block adds a record of its own height and drops those that leave the
\* window, which is where the floor moves to.
LEMMA SaveBlockRecordsCover ==
    ASSUME RecordsCover, NEW effects, NEW share, SaveBlock(effects, share)
    PROVE  RecordsCover'
<1> DEFINE h == lastSaved + 1
           v == 2 * saves
           added(a) == CommitteeRecords(rows[a], effects[a], h, state[lastSaved][a], v, share)
<1>1. lastSaved' = h /\ rewardEveryBlock' = rewardEveryBlock
      /\ rowFloor' = (IF h - BlocksCount > rowFloor THEN h - BlocksCount ELSE rowFloor)
      /\ history' = [a \in Addresses |-> KeptRecords(history[a] \cup added(a), h)]
  BY DEF SaveBlock
<1>2. lastSaved \in Nat /\ rowFloor \in Nat /\ BlocksCount \in Nat /\ BlocksCount > 0 /\ h \in Nat
  BY CommitteeRewardsAssumption DEF RecordsCover
<1>3. rowFloor' \in Nat /\ rowFloor' >= rowFloor /\ rowFloor' >= h - BlocksCount BY <1>1, <1>2
<1>4. rewardEveryBlock => \E a \in Addresses : \E r \in added(a) : r.height = h
  <2> SUFFICES ASSUME rewardEveryBlock PROVE \E a \in Addresses : \E r \in added(a) : r.height = h OBVIOUS
  <2>1. PICK a \in Addresses, n \in 1..2 : n \in DOMAIN effects[a] /\ effects[a][n] = "committee"
    BY DEF SaveBlock
  <2> DEFINE b == state[lastSaved][a]
             after == SaveBalanceUpdates(rows[a], effects[a], h, b, v, share)
             r == [height |-> h, old |-> BalanceAfter(n - 1, b, v), row |-> Len(after[n])]
  <2>2. r \in added(a) BY <2>1, Zenon DEF CommitteeRecords
  <2>3. r.height = h OBVIOUS
  <2> QED BY <2>2, <2>3
<1> HIDE DEF added, h
<1>5. ASSUME NEW p \in Nat, p > rowFloor', NEW a \in Addresses, NEW r \in history[a] \cup added(a), r.height = p
      PROVE  RecordAt(p)'
  <2>1. p > h - BlocksCount BY <1>2, <1>3, <1>5
  <2>2. r \in KeptRecords(history[a] \cup added(a), h) BY <1>5, <2>1 DEF KeptRecords
  <2>3. r \in history'[a] BY <1>1, <2>2
  <2> QED BY <1>5, <2>3 DEF RecordAt
<1>6. ASSUME rewardEveryBlock, NEW p \in 1..h, rowFloor' < p PROVE RecordAt(p)'
  <2>1. p \in Nat /\ p > rowFloor BY <1>2, <1>3, <1>6
  <2>2. CASE p = h BY <1>4, <1>5, <1>6, <2>1, <2>2
  <2>3. CASE p \in 1..lastSaved
    <3>1. PICK a \in Addresses : \E r \in history[a] : r.height = p
      BY <1>6, <2>1, <2>3 DEF RecordsCover, RecordAt
    <3> QED BY <1>5, <1>6, <2>1, <3>1
  <2>4. p = h \/ p \in 1..lastSaved BY <1>2 DEF h
  <2> QED BY <2>2, <2>3, <2>4
<1> QED BY <1>1, <1>2, <1>3, <1>6 DEF RecordsCover

\* A reset keeps the records of the blocks that stay.
LEMMA ResetRecordsCover ==
    ASSUME RecordsCover, NEW p \in 0..MaxRewardHeight, ResetBalanceUpdatesTo(p)
    PROVE  RecordsCover'
<1>1. p < lastSaved /\ lastSaved' = p /\ UNCHANGED rewardEveryBlock
      /\ rowFloor' = (IF p < rowFloor THEN p ELSE rowFloor)
      /\ history' = [a \in Addresses |-> RecordsUpTo(history[a], p)]
  BY DEF ResetBalanceUpdatesTo
<1>2. p \in Nat /\ lastSaved \in Nat BY CommitteeRewardsAssumption DEF RecordsCover
<1>3. ASSUME rewardEveryBlock, NEW q \in 1..p, rowFloor' < q PROVE RecordAt(q)'
  <2>1. q \in 1..lastSaved /\ q <= p /\ rowFloor < q BY <1>1, <1>2, <1>3 DEF RecordsCover
  <2>2. PICK a \in Addresses : \E r \in history[a] : r.height = q BY <1>3, <2>1 DEF RecordsCover, RecordAt
  <2>3. PICK r \in history[a] : r.height = q BY <2>2
  <2>4. r \in history'[a] BY <1>1, <2>1, <2>3 DEF RecordsUpTo
  <2> QED BY <2>3, <2>4 DEF RecordAt
<1>4. rowFloor' \in Nat BY <1>1, <1>2 DEF RecordsCover
<1> QED BY <1>1, <1>2, <1>3, <1>4 DEF RecordsCover

\* No fork shorter than the window stops the indexer when every block rewards
\* somebody, for every window, every set of addresses and shares and whatever
\* the blocks bring (the exceptions of reset_balance_updates_to are not raised).
THEOREM ShortForksAreAcceptedAlways ==
    ASSUME NEW blockEffects, NEW shares
    PROVE  CommitteeInit /\ [][CommitteeNext(blockEffects, shares)]_committeeVars => []ShortForksAreAccepted
<1>1. RecordsCover /\ [CommitteeNext(blockEffects, shares)]_committeeVars => RecordsCover'
  <2> SUFFICES ASSUME RecordsCover, [CommitteeNext(blockEffects, shares)]_committeeVars PROVE RecordsCover'
    OBVIOUS
  <2>1. ASSUME NEW effects \in blockEffects, NEW share \in shares, SaveBlock(effects, share) PROVE RecordsCover'
    BY <2>1, SaveBlockRecordsCover
  <2>2. ASSUME NEW p \in 0..MaxRewardHeight, ResetBalanceUpdatesTo(p) PROVE RecordsCover'
    BY <2>2, ResetRecordsCover
  <2>3. CASE UNCHANGED committeeVars BY <2>3 DEF committeeVars, RecordsCover, RecordAt
  <2> QED BY <2>1, <2>2, <2>3 DEF CommitteeNext
<1>2. RecordsCover => ShortForksAreAccepted
  <2> SUFFICES ASSUME RecordsCover, rewardEveryBlock, NEW p \in 0..MaxRewardHeight, rowFloor < p, p < lastSaved
               PROVE  ~Refused(p)
    BY DEF ShortForksAreAccepted
  <2>1. p \in 1..lastSaved BY CommitteeRewardsAssumption DEF RecordsCover
  <2>2. PICK a \in Addresses : \E r \in history[a] : r.height = p BY <2>1 DEF RecordsCover, RecordAt
  <2>3. PICK r \in history[a] : r.height = p BY <2>2
  <2>4. r \in Records BY <2>3 DEF Records
  <2>5. ~(r.height > p) BY <2>1, <2>3
  <2> QED BY <2>4, <2>5 DEF Refused
<1> QED BY <1>1, <1>2, InitRecordsCover, PTL

-----------------------------------------------------------------------------
(* CommitteeRewards: the rows. *)

\* A set of numbers that is not empty has a least one.
LEMMA LeastOf == ASSUME NEW T, T \subseteq Nat, T # {} PROVE \E x \in T : \A y \in T : x <= y
<1> DEFINE L == OpToRel(<, Nat)
<1>1. IsWellFoundedOn(L, Nat) BY NatLessThanWellFounded
<1>2. \A y, x \in Nat : <<y, x>> \in L <=> y < x BY DEF OpToRel
<1> HIDE DEF L
<1>3. PICK x \in T : \A y \in T : ~(<<y, x>> \in L) BY <1>1, WFMin
<1>4. ASSUME NEW y \in T PROVE x <= y
  <2>1. <<y, x>> \notin L BY <1>3
  <2>2. x \in Nat /\ y \in Nat OBVIOUS
  <2>3. ~(y < x) BY <1>2, <2>1, <2>2
  <2> QED BY <2>2, <2>3
<1> QED BY <1>4

\* A set of numbers up to m that is not empty has a greatest one.
LEMMA GreatestOf == ASSUME NEW m \in Nat, NEW T, T \subseteq 0..m, T # {} PROVE \E x \in T : \A y \in T : y <= x
<1> DEFINE U == {n \in Nat : \A y \in T : y <= n}
<1>1. m \in U OBVIOUS
<1>2. PICK u \in U : \A n \in U : u <= n
  <2>1. U \subseteq Nat /\ U # {} BY <1>1
  <2> HIDE DEF U
  <2> QED BY <2>1, LeastOf
<1>3. u \in Nat /\ \A y \in T : y <= u BY <1>2
<1>4. u \in T
  <2> SUFFICES ASSUME u \notin T PROVE FALSE OBVIOUS
  <2>1. \A y \in T : y \in Nat /\ y < u BY <1>3
  <2>2. u > 0
    <3>1. PICK y \in T : TRUE OBVIOUS
    <3>2. y \in Nat /\ y < u BY <2>1
    <3> QED BY <1>3, <3>2
  <2>3. u - 1 \in Nat /\ \A y \in T : y <= u - 1 BY <1>3, <2>1, <2>2
  <2>4. u - 1 \in U BY <2>3
  <2> QED BY <1>2, <1>3, <2>4
<1> QED BY <1>3, <1>4

\* The records that row i has left above block p.
RecordsAbove(R, i, p) == {r \in R : r.row = i /\ r.height > p}

\* Row i of an address with the records R after block h, when the records above
\* block f are all there: one that began or grew above f has the record of it,
\* and none has more records than rewards.
RowOK(x, i, R, f, h) ==
    /\ x.height <= h /\ x.lastHeight <= h
    /\ x.reason = "other" => x.lastHeight = Null
    /\ x.lastHeight # Null => x.height <= x.lastHeight
    /\ x.reason = "committee" /\ x.height > f => \E r \in R : r.row = i /\ r.height = x.height
    /\ x.lastHeight > f => \E r \in R : r.row = i /\ r.height = x.lastHeight
    /\ Cardinality(RecordsAbove(R, i, 0)) <= x.count

\* A record belongs to the row that was the last one at its block.
RecordOK(r, s) ==
    /\ s[r.row].reason = "committee" /\ s[r.row].height <= r.height /\ r.height <= s[r.row].lastHeight
    /\ \A i \in 1..Len(s) : r.row < i => r.height <= s[i].height

\* The rows of an address, in the order of the blocks, with its records.
RowsInv(s, R, f, h) ==
    /\ s \in Seq(Row)
    /\ IsFiniteSet(R) /\ R \subseteq [height : (f + 1)..h, old : Nat, row : 1..Len(s)]
    /\ \A i \in 1..Len(s) : RowOK(s[i], i, R, f, h)
    /\ \A i, j \in 1..Len(s) : i < j => s[i].height <= s[j].height
    /\ \A r \in R : RecordOK(r, s)
    /\ \A r, q \in R : r.height = q.height => r = q

\* SameRow for the floor f.
Same(x, y, f) ==
    /\ [x EXCEPT !.lastHeight = y.lastHeight] = y
    /\ x.lastHeight = y.lastHeight \/ (x.lastHeight = Null /\ y.lastHeight <= f)

\* l is the height of the last reward, as far as the records B tell.
LastUpTo(B, f, l) ==
    IF B = {} THEN l <= f ELSE (\E r \in B : r.height = l) /\ \A r \in B : r.height <= l

\* A row that is x now was y after block p: the oldest of its records A above p
\* holds what it ended with, B are the records of the address up to p.  Below
\* the floor only a row that has not grown since is known.
RowBack(x, A, B, f, p, y) ==
    /\ x.reason = y.reason /\ x.old = y.old /\ x.height = y.height /\ x.share = y.share
    /\ p >= f =>
         /\ x.count - Cardinality(A) = y.count
         /\ A = {} => Same(x, y, f)
         /\ \A o \in A : (\A q \in A : o.height <= q.height) => y.new = o.old
         /\ A # {} => LastUpTo(B, f, y.lastHeight)
    /\ p < f /\ (x.reason = "other" \/ (x.lastHeight # Null /\ x.lastHeight <= p)) => Same(x, y, f)

\* The rows s go back to the rows t of block p.
Back(s, R, f, p, t) ==
    /\ Len(t) <= Len(s)
    /\ \A i \in 1..Len(s) : i <= Len(t) <=> s[i].height <= p
    /\ \A i \in 1..Len(t) : RowBack(s[i], RecordsAbove(R, i, p), RecordsUpTo(R, p), f, p, t[i])

\* The rows chain, and end with balance b.
Chained(s, b) ==
    /\ \A i \in 2..Len(s) : s[i].old = s[i - 1].new
    /\ s # <<>> => s[Len(s)].new = b

\* The rows s go back to the rows t of block p, which end with balance b.
SnapOK(s, R, f, p, t, b) ==
    /\ Back(s, R, f, p, t)
    /\ Chained(t, b)
    /\ \A i \in 1..Len(t) : t[i].reason = "other" => t[i].lastHeight = Null

\* The inductive invariant.
RewardsInv ==
    /\ lastSaved \in 0..MaxRewardHeight /\ rowFloor \in 0..lastSaved
    /\ saves \in 0..MaxSaves /\ misled \in BOOLEAN
    /\ state \in [0..MaxRewardHeight -> [Addresses -> 0..(2 * MaxSaves)]]
    /\ DOMAIN rows = Addresses /\ DOMAIN history = Addresses
    /\ rowSnap \in [0..MaxRewardHeight -> [Addresses -> Seq(Row)]]
    /\ \A a \in Addresses : RowsInv(rows[a], history[a], rowFloor, lastSaved)
    /\ ~misled => \A a \in Addresses, p \in 0..lastSaved :
         SnapOK(rows[a], history[a], rowFloor, p, rowSnap[p][a], state[p][a])

\* What the fields of a row are.
LEMMA RowFields ==
    ASSUME NEW x \in Row
    PROVE  /\ x.reason \in {"other", "committee"} /\ x.old \in Nat /\ x.new \in Nat
           /\ x.height \in Nat /\ x.height > 0 /\ x.height \in 1..MaxRewardHeight
           /\ x.lastHeight \in Nat /\ x.lastHeight \in 0..MaxRewardHeight
           /\ x.share \in Shares \cup {Null} /\ x.count \in Nat
BY CommitteeRewardsAssumption DEF Row

\* Rows that are the same agree in every field but the last height.
LEMMA SameFields ==
    ASSUME NEW x \in Row, NEW y \in Row, NEW f \in Nat
    PROVE  Same(x, y, f) <=>
             /\ x.reason = y.reason /\ x.old = y.old /\ x.new = y.new /\ x.height = y.height
             /\ x.share = y.share /\ x.count = y.count
             /\ x.lastHeight = y.lastHeight \/ (x.lastHeight = Null /\ y.lastHeight <= f)
<1> DEFINE z == [x EXCEPT !.lastHeight = y.lastHeight]
<1>1. /\ z \in Row /\ z.reason = x.reason /\ z.old = x.old /\ z.new = x.new /\ z.height = x.height
      /\ z.share = x.share /\ z.count = x.count /\ z.lastHeight = y.lastHeight
  BY DEF Row
<1> HIDE DEF z
<1>2. z = y <=> /\ z.reason = y.reason /\ z.old = y.old /\ z.new = y.new /\ z.height = y.height
                /\ z.share = y.share /\ z.count = y.count /\ z.lastHeight = y.lastHeight
  BY <1>1 DEF Row
<1>3. Same(x, y, f) <=> z = y /\ (x.lastHeight = y.lastHeight \/ (x.lastHeight = Null /\ y.lastHeight <= f))
  BY DEF Same, z
<1> QED BY <1>1, <1>2, <1>3

\* What the fields of a record are.
LEMMA RecordFields ==
    ASSUME NEW s, NEW R, NEW f \in Nat, NEW h \in Nat, RowsInv(s, R, f, h), NEW r \in R
    PROVE  /\ r.height \in Nat /\ r.height > f /\ r.height <= h /\ r.old \in Nat
           /\ r.row \in 1..Len(s) /\ r.row \in Nat /\ s[r.row] \in Row
           /\ RecordOK(r, s) /\ RowOK(s[r.row], r.row, R, f, h)
<1>1. r \in [height : (f + 1)..h, old : Nat, row : 1..Len(s)] /\ s \in Seq(Row) /\ RecordOK(r, s) BY DEF RowsInv
<1>2. r.height \in (f + 1)..h /\ r.old \in Nat /\ r.row \in 1..Len(s) BY <1>1
<1>3. Len(s) \in Nat /\ s[r.row] \in Row BY <1>1, <1>2
<1>4. RowOK(s[r.row], r.row, R, f, h) BY <1>2 DEF RowsInv
<1> QED BY <1>1, <1>2, <1>3, <1>4

\* The records up to block p stay the same when a later block adds one.
LEMMA SameRecordsUpTo ==
    ASSUME NEW R, NEW N, NEW p, \A r \in N : ~(r.height <= p)
    PROVE  RecordsUpTo(R \cup N, p) = RecordsUpTo(R, p)
BY DEF RecordsUpTo

\* A block appends a row: what was true of the others stays true.
LEMMA AppendRow ==
    ASSUME NEW s, NEW R, NEW f \in Nat, NEW h \in Nat, h > 0, f < h, RowsInv(s, R, f, h),
           NEW n \in Row, n.height = h, NEW N,
           NEW e \in [height : Nat, old : Nat, row : Nat], e.height = h, e.row = Len(s) + 1,
           \/ N = {} /\ n.reason = "other" /\ n.lastHeight = Null
           \/ /\ N = {e} /\ n.reason = "committee" /\ n.lastHeight = h /\ n.count = 1
              /\ \A r \in R : r.height # h
    PROVE  /\ RowsInv(Append(s, n), R \cup N, f, h)
           /\ \A p \in Nat, t \in Seq(Row) :
                p < h /\ Back(s, R, f, p, t) => Back(Append(s, n), R \cup N, f, p, t)
<1> DEFINE w == Append(s, n)
           k == Len(s) + 1
           M == R \cup N
<1>1. s \in Seq(Row) /\ Len(s) \in Nat /\ IsFiniteSet(R) BY DEF RowsInv
<1>2. /\ w \in Seq(Row) /\ Len(w) = k /\ w[k] = n
      /\ \A i \in 1..Len(s) : w[i] = s[i] /\ i \in 1..k /\ s[i] \in Row /\ i # k /\ i \in Nat
  BY <1>1
<1>3. \A i \in 1..k : i \in 1..Len(s) \/ i = k BY <1>1
<1>4. N = {} \/ N = {e} OBVIOUS
<1>5. \A r \in N : r = e BY <1>4
<1>6. \A r \in R : /\ r.height \in Nat /\ r.height > f /\ r.height <= h /\ r.old \in Nat
                   /\ r.row \in 1..Len(s) /\ RecordOK(r, s)
  BY RecordFields
<1>7. k \in Nat /\ k = Len(s) + 1 /\ k \in 1..k BY <1>1
<1>8. M = R \cup N OBVIOUS
<1> HIDE DEF w, k, M
<1>9. IsFiniteSet(M)
  <2>1. IsFiniteSet(N)
    <3>1. IsFiniteSet({e}) BY FS_Singleton
    <3>2. IsFiniteSet({}) BY FS_EmptySet
    <3> QED BY <1>4, <3>1, <3>2
  <2> QED BY <1>1, <1>8, <2>1, FS_Union
<1>10. M \subseteq [height : (f + 1)..h, old : Nat, row : 1..Len(w)]
  <2>1. R \subseteq [height : (f + 1)..h, old : Nat, row : 1..Len(s)] BY DEF RowsInv
  <2>2. R \subseteq [height : (f + 1)..h, old : Nat, row : 1..Len(w)] BY <1>2, <2>1
  <2>3. e \in [height : (f + 1)..h, old : Nat, row : 1..Len(w)]
    <3>1. e.row \in 1..Len(w) BY <1>2, <1>7
    <3>2. e.height \in (f + 1)..h OBVIOUS
    <3> QED BY <3>1, <3>2
  <2> QED BY <1>5, <1>8, <2>2, <2>3
<1>11. \A p : \A i \in 1..Len(s) : RecordsAbove(M, i, p) = RecordsAbove(R, i, p)
  <2> SUFFICES ASSUME NEW p, NEW i \in 1..Len(s) PROVE RecordsAbove(M, i, p) = RecordsAbove(R, i, p) OBVIOUS
  <2>1. \A r \in N : r.row # i BY <1>2, <1>5, <1>7
  <2> QED BY <1>8, <2>1 DEF RecordsAbove
<1>12. ASSUME NEW i \in 1..Len(s) PROVE RowOK(w[i], i, M, f, h)
  <2>1. RowOK(s[i], i, R, f, h) BY DEF RowsInv
  <2>2. RecordsAbove(M, i, 0) = RecordsAbove(R, i, 0) BY <1>11
  <2> QED BY <1>2, <1>8, <2>1, <2>2 DEF RowOK
<1>13. RowOK(w[k], k, M, f, h)
  <2>1. RecordsAbove(M, k, 0) = N
    <3>1. \A r \in R : r.row # k BY <1>2, <1>6
    <3>2. \A r \in N : r.row = k /\ r.height > 0 BY <1>5, <1>7
    <3> QED BY <1>8, <3>1, <3>2 DEF RecordsAbove
  <2>2. Cardinality(N) <= n.count
    <3>1. CASE N = {}
      <4>1. Cardinality(N) = 0 BY <3>1, FS_EmptySet
      <4> QED BY <4>1, RowFields
    <3>2. CASE N = {e}
      <4>1. Cardinality(N) = 1 BY <3>2, FS_Singleton
      <4> QED BY <3>2, <4>1
    <3> QED BY <1>4, <3>1, <3>2
  <2>3. n.reason = "committee" => e \in M /\ e.row = k /\ n.lastHeight = h BY <1>7, <1>8
  <2>4. n.reason = "other" => n.lastHeight = Null OBVIOUS
  <2>5. n.lastHeight <= h /\ (n.lastHeight # Null => n.height <= n.lastHeight) BY DEF Null
  <2>6. n.reason \in {"other", "committee"} BY RowFields
  <2>7. n.lastHeight > f => n.reason = "committee" BY <2>4, <2>6 DEF Null
  <2> QED BY <1>2, <2>1, <2>2, <2>3, <2>4, <2>5, <2>7 DEF RowOK
<1>14. ASSUME NEW i \in 1..k, NEW j \in 1..k, i < j PROVE w[i].height <= w[j].height
  <2>1. i \in 1..Len(s) BY <1>1, <1>7, <1>14
  <2>2. CASE j \in 1..Len(s) BY <1>2, <1>14, <2>1, <2>2 DEF RowsInv
  <2>3. CASE j = k
    <3>1. s[i].height <= h BY <2>1 DEF RowsInv, RowOK
    <3> QED BY <1>2, <2>1, <2>3, <3>1
  <2> QED BY <1>3, <2>2, <2>3
<1>15. ASSUME NEW r \in R PROVE RecordOK(r, w)
  <2>1. RecordOK(r, s) /\ r.row \in 1..Len(s) /\ r.height <= h BY <1>6
  <2>2. ASSUME NEW i \in 1..Len(w), r.row < i PROVE r.height <= w[i].height
    <3>1. i \in 1..Len(s) \/ i = k BY <1>2, <1>3
    <3>2. CASE i \in 1..Len(s) BY <1>2, <2>1, <2>2, <3>2 DEF RecordOK
    <3>3. CASE i = k BY <1>2, <2>1, <3>3
    <3> QED BY <3>1, <3>2, <3>3
  <2> QED BY <1>2, <2>1, <2>2 DEF RecordOK
<1>16. ASSUME N = {e} PROVE RecordOK(e, w)
  <2>1. w[e.row] = n /\ n.reason = "committee" /\ n.lastHeight = h BY <1>2, <1>7, <1>16
  <2>2. \A i \in 1..Len(w) : ~(e.row < i) BY <1>2, <1>7
  <2> QED BY <2>1, <2>2 DEF RecordOK
<1>17. \A r, q \in M : r.height = q.height => r = q
  <2>1. \A r, q \in R : r.height = q.height => r = q BY DEF RowsInv
  <2> QED BY <1>8, <2>1
<1>18. RowsInv(w, M, f, h)
  <2>1. \A i \in 1..Len(w) : RowOK(w[i], i, M, f, h) BY <1>2, <1>3, <1>12, <1>13
  <2>2. \A r \in M : RecordOK(r, w) BY <1>4, <1>8, <1>15, <1>16
  <2> QED BY <1>2, <1>9, <1>10, <1>14, <1>17, <2>1, <2>2 DEF RowsInv
<1>19. ASSUME NEW p \in Nat, NEW t \in Seq(Row), p < h, Back(s, R, f, p, t) PROVE Back(w, M, f, p, t)
  <2>1. Len(t) \in Nat /\ Len(t) <= Len(s) /\ Len(t) <= Len(w) BY <1>1, <1>2, <1>7, <1>19 DEF Back
  <2>2. ASSUME NEW i \in 1..Len(w) PROVE i <= Len(t) <=> w[i].height <= p
    <3>1. CASE i \in 1..Len(s) BY <1>2, <1>19, <3>1 DEF Back
    <3>2. CASE i = k BY <1>1, <1>2, <1>7, <1>19, <2>1, <3>2
    <3> QED BY <1>2, <1>3, <3>1, <3>2
  <2>3. RecordsUpTo(M, p) = RecordsUpTo(R, p)
    <3>1. \A r \in N : ~(r.height <= p) BY <1>5, <1>19
    <3> QED BY <1>8, <3>1, SameRecordsUpTo
  <2>4. ASSUME NEW i \in 1..Len(t)
        PROVE  RowBack(w[i], RecordsAbove(M, i, p), RecordsUpTo(M, p), f, p, t[i])
    <3>1. i \in 1..Len(s) BY <1>1, <2>1
    <3>2. w[i] = s[i] /\ RecordsAbove(M, i, p) = RecordsAbove(R, i, p) BY <1>2, <1>11, <3>1
    <3> QED BY <1>19, <2>3, <3>2 DEF Back
  <2> QED BY <2>1, <2>2, <2>4 DEF Back
<1> QED BY <1>18, <1>19 DEF w, M

\* The last row, if it has no record above block p, tells the height of the last
\* reward up to p as the records do.
LEMMA LastKnown ==
    ASSUME NEW s, NEW R, NEW f \in Nat, NEW h \in Nat, RowsInv(s, R, f, h), NEW k, k = Len(s), k \in 1..Len(s),
           s[k].reason = "committee", NEW p \in Nat, f <= p, RecordsAbove(R, k, p) = {},
           NEW y \in Row, Same(s[k], y, f)
    PROVE  LastUpTo(RecordsUpTo(R, p), f, y.lastHeight)
<1> DEFINE l == s[k].lastHeight
           B == RecordsUpTo(R, p)
<1>1. s \in Seq(Row) /\ Len(s) \in Nat /\ s[k] \in Row /\ RowOK(s[k], k, R, f, h) BY DEF RowsInv
<1>2. l \in Nat /\ s[k].height \in Nat /\ s[k].height > 0 /\ y.lastHeight \in Nat BY <1>1, RowFields
<1>3. l = y.lastHeight \/ (l = Null /\ y.lastHeight <= f) BY <1>1, SameFields
<1>4. \A r \in R : /\ r.height \in Nat /\ r.height > f /\ r.row \in 1..Len(s) /\ r.row \in Nat /\ RecordOK(r, s)
  BY RecordFields
<1>5. \A r \in R : \/ r.row = k /\ r.height <= l
                   \/ r.row < k /\ r.height <= s[k].height
  BY <1>1, <1>4 DEF RecordOK
<1>6. CASE l > f
  <2>1. PICK r \in R : r.row = k /\ r.height = l BY <1>1, <1>6 DEF RowOK
  <2>2. ~(r.height > p) BY <2>1 DEF RecordsAbove
  <2>3. r \in B BY <1>4, <2>2 DEF RecordsUpTo
  <2>4. s[k].height <= l BY <1>1, <1>2, <1>6 DEF RowOK, Null
  <2>5. \A q \in B : q.height <= l
    <3>1. \A q \in B : q \in R BY DEF RecordsUpTo
    <3> QED BY <1>2, <1>4, <1>5, <2>4, <3>1
  <2>6. y.lastHeight = l BY <1>3, <1>6 DEF Null
  <2> QED BY <2>1, <2>3, <2>5, <2>6 DEF LastUpTo
<1>7. CASE ~(l > f)
  <2>1. R = {}
    <3> SUFFICES ASSUME NEW q \in R PROVE FALSE OBVIOUS
    <3>1. q.row # k BY <1>2, <1>4, <1>5, <1>7
    <3>2. s[k].height > f BY <1>2, <1>4, <1>5, <3>1
    <3>3. PICK r \in R : r.row = k /\ r.height = s[k].height BY <1>1, <3>2 DEF RowOK
    <3> QED BY <1>2, <1>4, <1>5, <1>7, <3>3
  <2>2. B = {} BY <2>1 DEF RecordsUpTo
  <2>3. y.lastHeight <= f BY <1>2, <1>3, <1>7
  <2> QED BY <2>2, <2>3 DEF LastUpTo
<1> QED BY <1>6, <1>7

\* What a row is that has grown by one reward.
LEMMA GrownRow ==
    ASSUME NEW x \in Row, NEW v \in Nat, NEW h \in 0..MaxRewardHeight,
           NEW z, z = Grown(x, v, h)
    PROVE  /\ z \in Row /\ z.new = v /\ z.count = x.count + 1 /\ z.lastHeight = h
           /\ z.reason = x.reason /\ z.old = x.old /\ z.height = x.height /\ z.share = x.share
<1>1. x.count \in Nat BY RowFields
<1>2. /\ z.new = v /\ z.count = x.count + 1 /\ z.lastHeight = h
      /\ z.reason = x.reason /\ z.old = x.old /\ z.height = x.height /\ z.share = x.share
  BY DEF Row, Grown
<1>3. z = [reason |-> x.reason, old |-> x.old, new |-> v, height |-> x.height, lastHeight |-> h,
           share |-> x.share, count |-> x.count + 1]
  BY DEF Row, Grown
<1>4. z \in Row BY <1>1, <1>3, RowFields DEF Row
<1> QED BY <1>2, <1>4

\* What the rows are when one has been replaced.
LEMMA ReplacedRow ==
    ASSUME NEW s \in Seq(Row), NEW k, k \in 1..Len(s), NEW z \in Row, NEW w, w = [s EXCEPT ![k] = z]
    PROVE  /\ w \in Seq(Row) /\ Len(w) = Len(s) /\ w[k] = z
           /\ \A i \in 1..Len(s) : i # k => w[i] = s[i]
OBVIOUS

\* Taking one more record away from one more reward makes no difference.
LEMMA OneMore ==
    ASSUME NEW a \in Nat, NEW c \in Nat, NEW z, NEW d, z = a + 1, d = c + 1
    PROVE  z - d = a - c /\ (c <= a => d <= z)
OBVIOUS

\* The rows w are the rows s, but that row k has grown to z at block h.
GrowsTo(s, k, h, w, z) ==
    /\ Len(w) = Len(s) /\ \A i \in 1..Len(s) : i # k => w[i] = s[i]
    /\ w[k] = z /\ z.count = s[k].count + 1 /\ z.lastHeight = h
    /\ z.reason = s[k].reason /\ z.old = s[k].old /\ z.height = s[k].height /\ z.share = s[k].share

\* A committee reward grows the last row: the rows of every earlier block can
\* still be had back, because the record of it says what the row held before.
LEMMA GrowRow ==
    ASSUME NEW s, NEW R, NEW f \in Nat, NEW h \in Nat, h > 0, f < h, h <= MaxRewardHeight, RowsInv(s, R, f, h),
           NEW k, k = Len(s), k \in 1..Len(s), s[k].reason = "committee",
           \A r \in R : r.height # h,
           NEW w \in Seq(Row), NEW z, GrowsTo(s, k, h, w, z),
           NEW e \in [height : Nat, old : Nat, row : Nat], e.height = h, e.row = k
    PROVE  /\ RowsInv(w, R \cup {e}, f, h)
           /\ Chained(s, e.old) => \A p \in Nat, t \in Seq(Row) :
                p < h /\ Back(s, R, f, p, t) => Back(w, R \cup {e}, f, p, t)
<1> DEFINE M == R \cup {e}
           x == s[k]
<1>1. s \in Seq(Row) /\ Len(s) \in Nat /\ x \in Row /\ IsFiniteSet(R) /\ RowOK(x, k, R, f, h) BY DEF RowsInv
<1>2. w \in Seq(Row) /\ Len(w) = Len(s) /\ \A i \in 1..Len(s) : i # k => w[i] = s[i]
  BY DEF GrowsTo
<1>3. /\ z.count = x.count + 1 /\ z.lastHeight = h /\ z.reason = x.reason /\ z.old = x.old
      /\ z.height = x.height /\ z.share = x.share
  BY DEF GrowsTo
<1>30. w[k] = z BY DEF GrowsTo
<1>4. \A r \in R : /\ r.height \in Nat /\ r.height > f /\ r.height <= h /\ r.height < h /\ r.old \in Nat
                   /\ r.row \in 1..Len(s) /\ r.row \in Nat /\ RecordOK(r, s)
  BY RecordFields
<1>5. M = R \cup {e} /\ e \in M /\ e \notin R BY <1>4
<1>6. \A i \in 1..Len(s) : i # k => i < k BY <1>1
<1> HIDE DEF M, x
<1>7. IsFiniteSet(M) BY <1>1, <1>5, FS_AddElement
<1>8. M \subseteq [height : (f + 1)..h, old : Nat, row : 1..Len(w)]
  <2>1. R \subseteq [height : (f + 1)..h, old : Nat, row : 1..Len(w)] BY <1>2 DEF RowsInv
  <2>2. e \in [height : (f + 1)..h, old : Nat, row : 1..Len(w)]
    <3>1. e.row \in 1..Len(w) /\ e.height \in (f + 1)..h BY <1>2
    <3> QED BY <3>1
  <2> QED BY <1>5, <2>1, <2>2
<1>9. \A p : \A i \in 1..Len(s) : i # k => RecordsAbove(M, i, p) = RecordsAbove(R, i, p) BY <1>5 DEF RecordsAbove
<1>10. \A p \in Nat : p < h => RecordsAbove(M, k, p) = RecordsAbove(R, k, p) \cup {e} BY <1>5 DEF RecordsAbove
<1>11. \A p : IsFiniteSet(RecordsAbove(R, k, p)) /\ e \notin RecordsAbove(R, k, p)
  <2>1. \A p : RecordsAbove(R, k, p) \in SUBSET R BY DEF RecordsAbove
  <2> QED BY <1>1, <1>5, <2>1, FS_Subset
<1>12. \A p \in Nat : p < h => Cardinality(RecordsAbove(M, k, p)) = Cardinality(RecordsAbove(R, k, p)) + 1
                               /\ Cardinality(RecordsAbove(R, k, p)) \in Nat
  <2> SUFFICES ASSUME NEW p \in Nat, p < h
               PROVE  Cardinality(RecordsAbove(M, k, p)) = Cardinality(RecordsAbove(R, k, p)) + 1
                      /\ Cardinality(RecordsAbove(R, k, p)) \in Nat
    OBVIOUS
  <2> DEFINE A == RecordsAbove(R, k, p)
  <2>1. IsFiniteSet(A) /\ e \notin A /\ RecordsAbove(M, k, p) = A \cup {e} BY <1>10, <1>11
  <2> HIDE DEF A
  <2>2. Cardinality(A \cup {e}) = Cardinality(A) + 1 BY <2>1, FS_AddElement
  <2>3. Cardinality(A) \in Nat BY <2>1, FS_CardinalityType
  <2> QED BY <2>1, <2>2, <2>3 DEF A
<1>13. ASSUME NEW i \in 1..Len(s) PROVE RowOK(w[i], i, M, f, h)
  <2>1. RowOK(s[i], i, R, f, h) BY DEF RowsInv
  <2>2. CASE i # k
    <3>1. RecordsAbove(M, i, 0) = RecordsAbove(R, i, 0) /\ w[i] = s[i] BY <1>2, <1>9, <2>2
    <3> QED BY <1>5, <2>1, <3>1 DEF RowOK
  <2>3. CASE i = k
    <3>1. Cardinality(RecordsAbove(R, k, 0)) <= x.count BY <1>1 DEF RowOK
    <3>2. x.count \in Nat /\ x.height \in Nat BY <1>1, RowFields
    <3>3. Cardinality(RecordsAbove(M, k, 0)) <= z.count
      <4>1. Cardinality(RecordsAbove(M, k, 0)) = Cardinality(RecordsAbove(R, k, 0)) + 1
            /\ Cardinality(RecordsAbove(R, k, 0)) \in Nat
        BY <1>12
      <4> QED BY <1>3, <3>1, <3>2, <4>1, OneMore
    <3>4. x.height <= h /\ (x.height > f => \E r \in R : r.row = k /\ r.height = x.height)
      BY <1>1 DEF RowOK, x
    <3>5. z.reason = "committee" BY <1>3 DEF x
    <3>6. RowOK(z, k, M, f, h) BY <1>3, <1>5, <3>3, <3>4, <3>5 DEF RowOK
    <3> QED BY <1>30, <2>3, <3>6
  <2> QED BY <2>2, <2>3
<1>14. \A i \in 1..Len(s) : w[i].height = s[i].height BY <1>30, <1>2, <1>3 DEF x
<1>15. ASSUME NEW r \in R PROVE RecordOK(r, w)
  <2>1. RecordOK(r, s) /\ r.row \in 1..Len(s) /\ r.height <= h BY <1>4
  <2>2. CASE r.row = k BY <1>30, <1>2, <1>3, <1>14, <2>1, <2>2 DEF RecordOK, x
  <2>3. CASE r.row # k BY <1>2, <1>14, <2>1, <2>3 DEF RecordOK
  <2> QED BY <2>2, <2>3
<1>16. RecordOK(e, w)
  <2>1. x.height <= h BY <1>1 DEF RowOK
  <2>2. \A i \in 1..Len(w) : ~(e.row < i) BY <1>1, <1>2
  <2>3. z.reason = "committee" BY <1>3 DEF x
  <2> QED BY <1>30, <1>3, <2>1, <2>2, <2>3 DEF RecordOK
<1>17. RowsInv(w, M, f, h)
  <2>1. \A r \in M : RecordOK(r, w) BY <1>5, <1>15, <1>16
  <2>2. \A r, q \in M : r.height = q.height => r = q
    <3>1. \A r, q \in R : r.height = q.height => r = q BY DEF RowsInv
    <3> QED BY <1>5, <3>1
  <2>3. \A i, j \in 1..Len(w) : i < j => w[i].height <= w[j].height BY <1>2, <1>14 DEF RowsInv
  <2> QED BY <1>2, <1>7, <1>8, <1>13, <2>1, <2>2, <2>3 DEF RowsInv
<1>18. ASSUME Chained(s, e.old), NEW p \in Nat, NEW t \in Seq(Row), p < h, Back(s, R, f, p, t)
       PROVE  Back(w, M, f, p, t)
  <2>1. Len(t) \in Nat /\ Len(t) <= Len(s) BY <1>18 DEF Back
  <2>2. RecordsUpTo(M, p) = RecordsUpTo(R, p) BY <1>5, <1>18 DEF RecordsUpTo
  <2>3. ASSUME NEW i \in 1..Len(t)
        PROVE  RowBack(w[i], RecordsAbove(M, i, p), RecordsUpTo(M, p), f, p, t[i])
    <3>1. i \in 1..Len(s) /\ RowBack(s[i], RecordsAbove(R, i, p), RecordsUpTo(R, p), f, p, t[i])
      BY <1>1, <1>18, <2>1 DEF Back
    <3>2. CASE i # k BY <1>2, <1>9, <2>2, <3>1, <3>2
    <3>3. CASE i = k
      <4> DEFINE A == RecordsAbove(R, k, p)
                 B == RecordsUpTo(R, p)
                 y == t[k]
      <4>1. RowBack(x, A, B, f, p, y) /\ y \in Row BY <3>1, <3>3 DEF x
      <4>2. z.lastHeight > p /\ z.lastHeight # Null /\ z.reason = "committee" BY <1>3, <1>18 DEF x, Null
      <4>3. ASSUME p >= f
            PROVE  /\ z.count - Cardinality(A \cup {e}) = y.count
                   /\ A \cup {e} # {}
                   /\ \A o \in A \cup {e} : (\A q \in A \cup {e} : o.height <= q.height) => y.new = o.old
                   /\ LastUpTo(B, f, y.lastHeight)
        <5>1. z.count - Cardinality(A \cup {e}) = y.count
          <6>1. Cardinality(A \cup {e}) = Cardinality(A) + 1 /\ Cardinality(A) \in Nat BY <1>10, <1>12, <1>18
          <6>2. x.count - Cardinality(A) = y.count /\ x.count \in Nat BY <1>1, <4>1, <4>3, RowFields DEF RowBack
          <6> HIDE DEF A, B, y
          <6>3. z.count = x.count + 1 BY <1>3
          <6> QED BY <6>1, <6>2, <6>3, OneMore
        <5>2. CASE A = {}
          <6>1. Same(x, y, f) BY <4>1, <4>3, <5>2 DEF RowBack
          <6>2. y.new = x.new BY <1>1, <4>1, <6>1, SameFields
          <6>3. s # << >> BY <1>1
          <6>4. x.new = e.old BY <1>18, <6>3 DEF Chained, x
          <6>5. LastUpTo(B, f, y.lastHeight) BY <4>1, <4>3, <5>2, <6>1, LastKnown DEF x
          <6>6. \A o \in A \cup {e} : y.new = o.old BY <5>2, <6>2, <6>4
          <6> QED BY <5>1, <6>5, <6>6
        <5>3. CASE A # {}
          <6>1. LastUpTo(B, f, y.lastHeight) BY <4>1, <4>3, <5>3 DEF RowBack
          <6>2. \A q \in A : q \in R /\ q.height \in Nat /\ q.height < h BY <1>4 DEF RecordsAbove
          <6>3. ASSUME NEW o \in A \cup {e}, \A q \in A \cup {e} : o.height <= q.height PROVE y.new = o.old
            <7>1. o \in A BY <5>3, <6>2, <6>3
            <7> QED BY <4>1, <4>3, <6>3, <7>1 DEF RowBack
          <6> QED BY <5>1, <6>1, <6>3
        <5> QED BY <5>2, <5>3
      <4>4. RecordsAbove(M, k, p) = A \cup {e} BY <1>10, <1>18
      <4>5. x.reason = y.reason /\ x.old = y.old /\ x.height = y.height /\ x.share = y.share
        BY <4>1 DEF RowBack
      <4> HIDE DEF A, B, y
      <4>6. ~(z.lastHeight <= p) BY <1>3, <1>18
      <4>7. RowBack(z, A \cup {e}, B, f, p, y) BY <1>3, <4>2, <4>3, <4>5, <4>6 DEF RowBack
      <4> QED BY <1>30, <2>2, <3>3, <4>4, <4>7 DEF B, y
    <3> QED BY <3>2, <3>3
  <2>4. \A i \in 1..Len(w) : i <= Len(t) <=> w[i].height <= p BY <1>2, <1>14, <1>18 DEF Back
  <2> QED BY <1>2, <2>1, <2>3, <2>4 DEF Back
<1> QED BY <1>2, <1>3, <1>17, <1>18 DEF M

\* A row that starts from the balance of the last one prolongs the chain.
LEMMA AppendChained ==
    ASSUME NEW s \in Seq(Row), NEW b, Chained(s, b), NEW n \in Row, n.old = b
    PROVE  Chained(Append(s, n), n.new)
<1> DEFINE w == Append(s, n)
<1>1. Len(s) \in Nat /\ w \in Seq(Row) /\ Len(w) = Len(s) + 1 /\ w[Len(s) + 1] = n
      /\ \A i \in 1..Len(s) : w[i] = s[i]
  OBVIOUS
<1> HIDE DEF w
<1>2. ASSUME NEW i \in 2..Len(w) PROVE w[i].old = w[i - 1].new
  <2>1. CASE i \in 2..Len(s)
    <3>1. i \in 1..Len(s) /\ i - 1 \in 1..Len(s) BY <1>1, <2>1
    <3> QED BY <1>1, <2>1, <3>1 DEF Chained
  <2>2. CASE i = Len(s) + 1
    <3>1. Len(s) \in 1..Len(s) /\ i - 1 = Len(s) BY <1>1, <2>2
    <3>2. s # << >> BY <3>1
    <3> QED BY <1>1, <2>2, <3>1, <3>2 DEF Chained
  <2> QED BY <1>1, <2>1, <2>2
<1>3. Chained(w, n.new) BY <1>1, <1>2 DEF Chained
<1> QED BY <1>3 DEF w

\* So does the last row, when it grows.
LEMMA GrowChained ==
    ASSUME NEW s \in Seq(Row), NEW b, Chained(s, b), NEW w \in Seq(Row), Len(w) = Len(s),
           NEW k, k = Len(s), k \in 1..Len(s), \A i \in 1..Len(s) : i # k => w[i] = s[i], w[k].old = s[k].old
    PROVE  Chained(w, w[k].new)
<1>1. Len(s) \in Nat OBVIOUS
<1>2. ASSUME NEW i \in 2..Len(w) PROVE w[i].old = w[i - 1].new
  <2>1. i \in 1..Len(s) /\ i - 1 \in 1..Len(s) /\ i - 1 # k BY <1>1
  <2>2. w[i - 1] = s[i - 1] /\ w[i].old = s[i].old BY <2>1
  <2> QED BY <2>2 DEF Chained
<1> QED BY <1>2 DEF Chained

\* The record of an update, if it is a committee reward.
RecordOf(reason, h, b, w) == IF reason = "committee" THEN {[height |-> h, old |-> b, row |-> Len(w)]} ELSE {}

\* What the rows s with the records R become in block h, from balance b on: the
\* rows w with the records M, and balance c.
Saved(s, R, b, w, M, c, f, h) ==
    /\ RowsInv(w, M, f, h)
    /\ Chained(s, b) => Chained(w, c)
    /\ Chained(s, b) => \A p \in Nat, t \in Seq(Row) : p < h /\ Back(s, R, f, p, t) => Back(w, M, f, p, t)

\* Saving one update after another.
LEMMA SavedTwice ==
    ASSUME NEW s, NEW R, NEW b, NEW w, NEW M, NEW c, NEW x, NEW K, NEW d, NEW f, NEW h,
           Saved(s, R, b, w, M, c, f, h), Saved(w, M, c, x, K, d, f, h)
    PROVE  Saved(s, R, b, x, K, d, f, h)
BY DEF Saved

\* One update of block h, and the record of it if it is a committee reward.
LEMMA OneUpdate ==
    ASSUME NEW s, NEW R, NEW f \in Nat, NEW h \in Nat, h > 0, f < h, h <= MaxRewardHeight, RowsInv(s, R, f, h),
           NEW reason \in {"other", "committee"}, reason = "committee" => \A r \in R : r.height # h,
           NEW b \in Nat, NEW v \in Nat, NEW share \in Shares
    PROVE  LET w == SaveBalanceUpdate(s, reason, h, b, v, share)
           IN  Saved(s, R, b, w, R \cup RecordOf(reason, h, b, w), v, f, h)
<1> DEFINE w == SaveBalanceUpdate(s, reason, h, b, v, share)
           N == RecordOf(reason, h, b, w)
<1>0. w = SaveBalanceUpdate(s, reason, h, b, v, share)
      /\ N = IF reason = "committee" THEN {[height |-> h, old |-> b, row |-> Len(w)]} ELSE {}
  BY DEF RecordOf
<1> SUFFICES /\ RowsInv(w, R \cup N, f, h)
             /\ Chained(s, b) => Chained(w, v)
             /\ Chained(s, b) => \A p \in Nat, t \in Seq(Row) :
                  p < h /\ Back(s, R, f, p, t) => Back(w, R \cup N, f, p, t)
  BY DEF Saved
<1> HIDE DEF w, N
<1>1. s \in Seq(Row) /\ Len(s) \in Nat BY DEF RowsInv
<1>2. h \in 1..MaxRewardHeight /\ h \in 0..MaxRewardHeight BY CommitteeRewardsAssumption
<1>3. CASE reason = "other"
  <2> DEFINE n == [reason |-> "other", old |-> b, new |-> v, height |-> h,
                   lastHeight |-> Null, share |-> Null, count |-> Null]
             e == [height |-> h, old |-> b, row |-> Len(s) + 1]
  <2>1. n \in Row BY <1>2, CommitteeRewardsAssumption DEF Row, Null
  <2>2. n.height = h /\ n.reason = "other" /\ n.lastHeight = Null /\ n.old = b /\ n.new = v OBVIOUS
  <2>3. e \in [height : Nat, old : Nat, row : Nat] /\ e.height = h /\ e.row = Len(s) + 1 BY <1>1
  <2>4. w = Append(s, n) /\ N = {} BY <1>0, <1>3 DEF SaveBalanceUpdate, SaveOther
  <2> HIDE DEF n, e
  <2>5. /\ RowsInv(Append(s, n), R \cup N, f, h)
        /\ \A p \in Nat, t \in Seq(Row) : p < h /\ Back(s, R, f, p, t) => Back(Append(s, n), R \cup N, f, p, t)
    BY <2>1, <2>2, <2>3, <2>4, AppendRow
  <2>6. Chained(s, b) => Chained(Append(s, n), v) BY <1>1, <2>1, <2>2, AppendChained
  <2> QED BY <2>4, <2>5, <2>6
<1>4. CASE reason = "committee" /\ ~(s # <<>> /\ s[Len(s)].reason = "committee" /\ s[Len(s)].share = share)
  <2> DEFINE n == [reason |-> "committee", old |-> b, new |-> v, height |-> h,
                   lastHeight |-> h, share |-> share, count |-> 1]
             e == [height |-> h, old |-> b, row |-> Len(s) + 1]
  <2>1. n \in Row BY <1>2 DEF Row
  <2>2. n.height = h /\ n.reason = "committee" /\ n.lastHeight = h /\ n.old = b /\ n.new = v /\ n.count = 1 OBVIOUS
  <2>3. e \in [height : Nat, old : Nat, row : Nat] /\ e.height = h /\ e.row = Len(s) + 1 BY <1>1
  <2>4. w = Append(s, n) BY <1>0, <1>4 DEF SaveBalanceUpdate, SaveCommitteeReward
  <2>5. Len(w) = Len(s) + 1
    <3> HIDE DEF n
    <3> QED BY <1>1, <2>1, <2>4
  <2>6. N = {e} BY <1>0, <1>4, <2>5
  <2> HIDE DEF n, e
  <2>7. /\ RowsInv(Append(s, n), R \cup N, f, h)
        /\ \A p \in Nat, t \in Seq(Row) : p < h /\ Back(s, R, f, p, t) => Back(Append(s, n), R \cup N, f, p, t)
    BY <1>4, <2>1, <2>2, <2>3, <2>6, AppendRow
  <2>8. Chained(s, b) => Chained(Append(s, n), v) BY <1>1, <2>1, <2>2, AppendChained
  <2> QED BY <2>4, <2>7, <2>8
<1>5. CASE reason = "committee" /\ s # <<>> /\ s[Len(s)].reason = "committee" /\ s[Len(s)].share = share
  <2> DEFINE k == Len(s)
             x == s[k]
             z == Grown(x, v, h)
             e == [height |-> h, old |-> b, row |-> k]
  <2>1. k \in 1..Len(s) /\ k = Len(s) /\ x \in Row
    <3>1. Len(s) # 0 BY <1>1, <1>5
    <3> QED BY <1>1, <3>1
  <2>2. w = [s EXCEPT ![k] = z]
    <3>1. w = SaveCommitteeReward(s, h, b, v, share) BY <1>0, <1>5 DEF SaveBalanceUpdate
    <3> QED BY <1>5, <3>1, Zenon DEF SaveCommitteeReward
  <2>3. /\ z \in Row /\ z.new = v /\ z.count = x.count + 1 /\ z.lastHeight = h
        /\ z.reason = x.reason /\ z.old = x.old /\ z.height = x.height /\ z.share = x.share
    <3> HIDE DEF x, k
    <3>1. z = Grown(x, v, h) OBVIOUS
    <3> HIDE DEF z
    <3>2. x \in Row BY <2>1
    <3>3. h \in 0..MaxRewardHeight BY <1>2
    <3> QED BY <3>1, <3>2, <3>3, GrownRow
  <2>4. e \in [height : Nat, old : Nat, row : Nat] /\ e.height = h /\ e.old = b /\ e.row = k BY <1>1
  <2> HIDE DEF z, e
  <2>5. /\ w \in Seq(Row) /\ Len(w) = Len(s) /\ w[k] = z
        /\ \A i \in 1..Len(s) : i # k => w[i] = s[i]
    BY <1>1, <2>1, <2>2, <2>3, ReplacedRow
  <2>6. N = {e} BY <1>0, <1>5, <2>5 DEF e
  <2>7. s[k].reason = "committee" /\ x = s[k] /\ (\A r \in R : r.height # h) BY <1>5
  <2> HIDE DEF k, e, z, x
  <2>8. /\ RowsInv(w, R \cup {e}, f, h)
        /\ Chained(s, b) => \A p \in Nat, t \in Seq(Row) :
             p < h /\ Back(s, R, f, p, t) => Back(w, R \cup {e}, f, p, t)
    <3>1. GrowsTo(s, k, h, w, z) BY <2>3, <2>5, <2>7 DEF GrowsTo
    <3>2. k = Len(s) /\ k \in 1..Len(s) /\ s[k].reason = "committee" BY <2>1, <2>7
    <3>3. \A r \in R : r.height # h BY <2>7
    <3>4. w \in Seq(Row) BY <2>5
    <3>5. e \in [height : Nat, old : Nat, row : Nat] /\ e.height = h /\ e.old = b /\ e.row = k BY <2>4
    <3> QED BY <3>1, <3>2, <3>3, <3>4, <3>5, GrowRow
  <2>9. Chained(s, b) => Chained(w, v)
    <3>1. w[k].old = s[k].old /\ w[k].new = v BY <2>3, <2>5, <2>7
    <3> QED BY <1>1, <2>1, <2>5, <3>1, GrowChained
  <2> QED BY <2>6, <2>8, <2>9
<1> QED BY <1>3, <1>4, <1>5

\* The shapes of the updates of a block.
LEMMA EffectShapes ==
    ASSUME NEW effect \in Effects
    PROVE  /\ Len(effect) \in 0..2 /\ DOMAIN effect = 1..Len(effect)
           /\ Len(effect) >= 1 => effect[1] \in {"other", "committee"}
           /\ Len(effect) >= 2 => effect[2] \in {"other", "committee"} /\ ~(effect[1] = "committee" /\ effect[2] = "committee")
<1>1. CASE effect = <<>> BY <1>1
<1>2. CASE effect = <<"other">> BY <1>2
<1>3. CASE effect = <<"committee">> BY <1>3
<1>4. CASE effect = <<"other", "committee">> BY <1>4
<1>5. CASE effect = <<"committee", "other">> BY <1>5
<1> QED BY <1>1, <1>2, <1>3, <1>4, <1>5 DEF Effects

\* The rows after each of at most two updates of a block.
Unrolled(s, effect, h, b, v, share, after) ==
    /\ after[0] = s
    /\ Len(effect) >= 1 => after[1] = SaveBalanceUpdate(s, effect[1], h, b, v + 1, share)
    /\ Len(effect) >= 2 => after[2] = SaveBalanceUpdate(after[1], effect[2], h, v + 1, v + 2, share)

\* SaveBalanceUpdates makes one update after the other.
LEMMA UpdatesUnrolled ==
    ASSUME NEW s, NEW effect \in Effects, NEW h, NEW b \in Nat, NEW v \in Nat, NEW share
    PROVE  Unrolled(s, effect, h, b, v, share, SaveBalanceUpdates(s, effect, h, b, v, share))
<1>0. PICK m : m = Len(effect) OBVIOUS
<1>a. PICK after : after = SaveBalanceUpdates(s, effect, h, b, v, share) OBVIOUS
<1>b. m \in 0..2 BY <1>0, EffectShapes
<1> SUFFICES /\ after[0] = s
             /\ m >= 1 => after[1] = SaveBalanceUpdate(s, effect[1], h, b, v + 1, share)
             /\ m >= 2 => after[2] = SaveBalanceUpdate(after[1], effect[2], h, v + 1, v + 2, share)
  BY <1>0, <1>a DEF Unrolled
<1> USE <1>0, <1>b
<1> DEFINE Eq(g) == g = [n \in 0..Len(effect) |->
                           IF n = 0 THEN s
                           ELSE SaveBalanceUpdate(g[n - 1], effect[n], h, BalanceAfter(n - 1, b, v),
                                                  BalanceAfter(n, b, v), share)]
           s1 == SaveBalanceUpdate(s, effect[1], h, BalanceAfter(0, b, v), BalanceAfter(1, b, v), share)
           s2 == SaveBalanceUpdate(s1, effect[2], h, BalanceAfter(1, b, v), BalanceAfter(2, b, v), share)
           G  == [n \in 0..m |-> IF n = 0 THEN s ELSE IF n = 1 THEN s1 ELSE s2]
<1>1. Eq(G)
  <2> DEFINE F == [n \in 0..m |-> IF n = 0 THEN s
                                  ELSE SaveBalanceUpdate(G[n - 1], effect[n], h, BalanceAfter(n - 1, b, v),
                                                         BalanceAfter(n, b, v), share)]
  <2>1. ASSUME NEW n \in 0..m PROVE G[n] = F[n]
    <3>1. CASE n = 0 BY <3>1
    <3>2. CASE n = 1
      <4>1. 0 \in 0..m /\ 1 \in 0..m /\ n - 1 = 0 BY <3>2
      <4>2. G[0] = s /\ G[1] = s1 BY <4>1
      <4>3. F[1] = SaveBalanceUpdate(G[0], effect[1], h, BalanceAfter(0, b, v), BalanceAfter(1, b, v), share)
        BY <4>1
      <4> QED BY <3>2, <4>2, <4>3
    <3>3. CASE n = 2
      <4>1. 1 \in 0..m /\ 2 \in 0..m /\ n - 1 = 1 BY <3>3
      <4>2. G[1] = s1 /\ G[2] = s2 BY <4>1
      <4>3. F[2] = SaveBalanceUpdate(G[1], effect[2], h, BalanceAfter(1, b, v), BalanceAfter(2, b, v), share)
        BY <4>1
      <4> QED BY <3>3, <4>2, <4>3
    <3> QED BY <3>1, <3>2, <3>3
  <2>2. G = [n \in 0..m |-> G[n]] /\ F = [n \in 0..m |-> F[n]] OBVIOUS
  <2> HIDE DEF G, F
  <2>3. G = F BY <2>1, <2>2
  <2> QED BY <2>3 DEF F
<1>2. after = CHOOSE g : Eq(g) BY <1>a DEF SaveBalanceUpdates
<1> HIDE DEF G
<1>3. Eq(after)
  <2>1. \E g : Eq(g) BY <1>1
  <2> HIDE DEF Eq
  <2> QED BY <1>2, <2>1
<1>4. after[0] = s BY <1>3
<1>5. ASSUME m >= 1 PROVE after[1] = SaveBalanceUpdate(s, effect[1], h, BalanceAfter(0, b, v), BalanceAfter(1, b, v), share)
  <2>1. 1 \in 0..Len(effect) BY <1>5
  <2>2. after[1] = SaveBalanceUpdate(after[0], effect[1], h, BalanceAfter(0, b, v), BalanceAfter(1, b, v), share)
    BY <1>3, <2>1
  <2> QED BY <1>4, <2>2
<1>6. ASSUME m >= 2 PROVE after[2] = SaveBalanceUpdate(after[1], effect[2], h, BalanceAfter(1, b, v), BalanceAfter(2, b, v), share)
  <2>1. 2 \in 0..Len(effect) BY <1>6
  <2> QED BY <1>3, <2>1
<1>7. BalanceAfter(0, b, v) = b /\ BalanceAfter(1, b, v) = v + 1 /\ BalanceAfter(2, b, v) = v + 2
  BY DEF BalanceAfter
<1> QED BY <1>4, <1>5, <1>6, <1>7

\* The records of at most two updates of a block.
UnrolledRecords(effect, h, b, v, after) ==
    (IF Len(effect) >= 1 THEN RecordOf(effect[1], h, b, after[1]) ELSE {})
      \cup (IF Len(effect) >= 2 THEN RecordOf(effect[2], h, v + 1, after[2]) ELSE {})

\* CommitteeRecords are the records of the updates.
LEMMA RecordsUnrolled ==
    ASSUME NEW s, NEW effect \in Effects, NEW h, NEW b \in Nat, NEW v \in Nat, NEW share
    PROVE  CommitteeRecords(s, effect, h, b, v, share) =
             UnrolledRecords(effect, h, b, v, SaveBalanceUpdates(s, effect, h, b, v, share))
<1>0. PICK m : m = Len(effect) OBVIOUS
<1>a. PICK after : after = SaveBalanceUpdates(s, effect, h, b, v, share) OBVIOUS
<1>b. PICK N : N = CommitteeRecords(s, effect, h, b, v, share) OBVIOUS
<1>c. m \in 0..2 /\ DOMAIN effect = 1..m BY <1>0, EffectShapes
<1> SUFFICES N = (IF m >= 1 THEN RecordOf(effect[1], h, b, after[1]) ELSE {})
                   \cup (IF m >= 2 THEN RecordOf(effect[2], h, v + 1, after[2]) ELSE {})
  BY <1>0, <1>a, <1>b DEF UnrolledRecords
<1> DEFINE rec(n) == [height |-> h, old |-> BalanceAfter(n - 1, b, v), row |-> Len(after[n])]
<1>1. N = {rec(n) : n \in {n \in 1..m : effect[n] = "committee"}} BY <1>a, <1>b, <1>c DEF CommitteeRecords
<1>2. rec(1) = [height |-> h, old |-> b, row |-> Len(after[1])] BY DEF BalanceAfter
<1>3. rec(2) = [height |-> h, old |-> v + 1, row |-> Len(after[2])] BY DEF BalanceAfter
<1> HIDE DEF rec
<1>4. CASE m = 0
  <2>1. 1..m = {} BY <1>4
  <2> QED BY <1>1, <1>4, <2>1
<1>5. CASE m = 1
  <2>1. 1..m = {1} BY <1>5
  <2>2. N = IF effect[1] = "committee" THEN {rec(1)} ELSE {} BY <1>1, <2>1
  <2>3. N = RecordOf(effect[1], h, b, after[1]) BY <1>2, <2>2 DEF RecordOf
  <2>4. m >= 1 /\ ~(m >= 2) BY <1>5
  <2>5. (IF m >= 1 THEN RecordOf(effect[1], h, b, after[1]) ELSE {}) = RecordOf(effect[1], h, b, after[1]) BY <2>4
  <2>6. (IF m >= 2 THEN RecordOf(effect[2], h, v + 1, after[2]) ELSE {}) = {} BY <2>4
  <2> QED BY <2>3, <2>5, <2>6
<1>6. CASE m = 2
  <2>1. 1..m = {1, 2} BY <1>6
  <2>2. N = (IF effect[1] = "committee" THEN {rec(1)} ELSE {}) \cup (IF effect[2] = "committee" THEN {rec(2)} ELSE {})
    BY <1>1, <2>1
  <2> QED BY <1>2, <1>3, <1>6, <2>2 DEF RecordOf
<1> QED BY <1>4, <1>5, <1>6, <1>c

\* The updates of block h to the rows of an address, and the records of them.
LEMMA BlockUpdates ==
    ASSUME NEW s, NEW R, NEW f \in Nat, NEW h \in Nat, h > 0, f < h, h <= MaxRewardHeight, RowsInv(s, R, f, h),
           \A r \in R : r.height # h,
           NEW effect \in Effects, NEW b \in Nat, NEW v \in Nat, NEW share \in Shares,
           NEW after, after = SaveBalanceUpdates(s, effect, h, b, v, share),
           NEW N, N = CommitteeRecords(s, effect, h, b, v, share)
    PROVE  Saved(s, R, b, after[Len(effect)], R \cup N, BalanceAfter(Len(effect), b, v), f, h)
<1>0. PICK m : m = Len(effect) OBVIOUS
<1>1. /\ m \in 0..2 /\ DOMAIN effect = 1..m
      /\ m >= 1 => effect[1] \in {"other", "committee"}
      /\ m >= 2 => effect[2] \in {"other", "committee"} /\ ~(effect[1] = "committee" /\ effect[2] = "committee")
  BY <1>0, EffectShapes
<1>2. m \in 0..2 BY <1>1
<1>3. /\ after[0] = s
      /\ m >= 1 => after[1] = SaveBalanceUpdate(s, effect[1], h, b, v + 1, share)
      /\ m >= 2 => after[2] = SaveBalanceUpdate(after[1], effect[2], h, v + 1, v + 2, share)
  BY <1>0, UpdatesUnrolled DEF Unrolled
<1>5. N = (IF m >= 1 THEN RecordOf(effect[1], h, b, after[1]) ELSE {})
            \cup (IF m >= 2 THEN RecordOf(effect[2], h, v + 1, after[2]) ELSE {})
  BY <1>0, RecordsUnrolled DEF UnrolledRecords
<1>6. CASE m = 0
  <2>1. R \cup N = R BY <1>5, <1>6
  <2>2. after[m] = s /\ BalanceAfter(m, b, v) = b BY <1>3, <1>6 DEF BalanceAfter
  <2>3. Saved(s, R, b, s, R, b, f, h) BY DEF Saved
  <2> QED BY <1>0, <2>1, <2>2, <2>3
<1>7. ASSUME m >= 1 PROVE Saved(s, R, b, after[1], R \cup RecordOf(effect[1], h, b, after[1]), v + 1, f, h)
  <2>1. PICK v1 : v1 = v + 1 OBVIOUS
  <2>2. PICK reason : reason = effect[1] OBVIOUS
  <2>3. PICK w : w = after[1] OBVIOUS
  <2>4. w = SaveBalanceUpdate(s, reason, h, b, v1, share) BY <1>3, <1>7, <2>1, <2>2, <2>3
  <2>5. reason \in {"other", "committee"} BY <1>1, <1>7, <2>2
  <2>6. v1 \in Nat BY <2>1
  <2>7. Saved(s, R, b, w, R \cup RecordOf(reason, h, b, w), v1, f, h) BY <2>4, <2>5, <2>6, OneUpdate
  <2> QED BY <2>1, <2>2, <2>3, <2>7
<1>8. CASE m = 1
  <2>1. m >= 1 /\ ~(m >= 2) BY <1>8
  <2>2. N = RecordOf(effect[1], h, b, after[1])
    <3>1. (IF m >= 1 THEN RecordOf(effect[1], h, b, after[1]) ELSE {}) = RecordOf(effect[1], h, b, after[1]) BY <2>1
    <3>2. (IF m >= 2 THEN RecordOf(effect[2], h, v + 1, after[2]) ELSE {}) = {} BY <2>1
    <3> QED BY <1>5, <3>1, <3>2
  <2>3. BalanceAfter(m, b, v) = v + 1 BY <1>8 DEF BalanceAfter
  <2>4. Saved(s, R, b, after[1], R \cup RecordOf(effect[1], h, b, after[1]), v + 1, f, h) BY <1>7, <2>1
  <2> QED BY <1>0, <1>8, <2>2, <2>3, <2>4
<1>9. CASE m = 2
  <2>1. m >= 1 /\ m >= 2 BY <1>9
  <2>2. PICK b1 : b1 = v + 1 OBVIOUS
  <2>3. PICK v1 : v1 = v + 2 OBVIOUS
  <2>4. PICK reason : reason = effect[2] OBVIOUS
  <2>5. PICK s1 : s1 = after[1] OBVIOUS
  <2>6. PICK w : w = after[2] OBVIOUS
  <2>7. PICK R1 : R1 = R \cup RecordOf(effect[1], h, b, s1) OBVIOUS
  <2>8. Saved(s, R, b, s1, R1, b1, f, h) BY <1>7, <2>1, <2>2, <2>5, <2>7
  <2>9. RowsInv(s1, R1, f, h) BY <2>8 DEF Saved
  <2>10. w = SaveBalanceUpdate(s1, reason, h, b1, v1, share) BY <1>3, <2>1, <2>2, <2>3, <2>4, <2>5, <2>6
  <2>11. reason \in {"other", "committee"} BY <1>1, <2>1, <2>4
  <2>12. reason = "committee" => \A r \in R1 : r.height # h
    <3>1. reason = "committee" => effect[1] # "committee" BY <1>1, <2>1, <2>4
    <3>2. effect[1] # "committee" => RecordOf(effect[1], h, b, s1) = {} BY DEF RecordOf
    <3> QED BY <2>7, <3>1, <3>2
  <2>13. b1 \in Nat /\ v1 \in Nat BY <2>2, <2>3
  <2>14. Saved(s1, R1, b1, w, R1 \cup RecordOf(reason, h, b1, w), v1, f, h)
    BY <2>9, <2>10, <2>11, <2>12, <2>13, OneUpdate
  <2>15. R \cup N = R1 \cup RecordOf(reason, h, b1, w)
    <3>1. (IF m >= 1 THEN RecordOf(effect[1], h, b, after[1]) ELSE {}) = RecordOf(effect[1], h, b, s1) BY <2>1, <2>5
    <3>2. (IF m >= 2 THEN RecordOf(effect[2], h, v + 1, after[2]) ELSE {}) = RecordOf(reason, h, b1, w)
      BY <2>1, <2>2, <2>4, <2>6
    <3>3. N = RecordOf(effect[1], h, b, s1) \cup RecordOf(reason, h, b1, w) BY <1>5, <3>1, <3>2
    <3> QED BY <2>7, <3>3
  <2>16. BalanceAfter(m, b, v) = v1 BY <1>9, <2>3 DEF BalanceAfter
  <2>17. Saved(s, R, b, w, R \cup N, v1, f, h) BY <2>8, <2>14, <2>15, SavedTwice
  <2> QED BY <1>0, <1>9, <2>6, <2>16, <2>17
<1>10. m = 0 \/ m = 1 \/ m = 2 BY <1>2
<1> QED BY <1>6, <1>8, <1>9, <1>10

\* The rows of a block are rows at the next one, which has no record yet.
LEMMA NextBlockRows ==
    ASSUME NEW s, NEW R, NEW f \in Nat, NEW g \in Nat, NEW h \in Nat, f <= g, g < h, RowsInv(s, R, f, g)
    PROVE  RowsInv(s, R, f, h) /\ \A r \in R : r.height # h
<1>1. \A r \in R : r.height \in Nat /\ r.height <= g /\ r.height > f /\ r.old \in Nat /\ r.row \in 1..Len(s)
  BY RecordFields
<1>2. R \subseteq [height : (f + 1)..h, old : Nat, row : 1..Len(s)]
  <2>1. R \subseteq [height : (f + 1)..g, old : Nat, row : 1..Len(s)] BY DEF RowsInv
  <2>2. (f + 1)..g \subseteq (f + 1)..h OBVIOUS
  <2> QED BY <2>1, <2>2
<1>3. ASSUME NEW i \in 1..Len(s) PROVE RowOK(s[i], i, R, f, h)
  <2>1. RowOK(s[i], i, R, f, g) /\ s \in Seq(Row) BY DEF RowsInv
  <2>2. s[i] \in Row BY <2>1
  <2>3. s[i].height \in Nat /\ s[i].lastHeight \in Nat BY <2>2, RowFields
  <2>4. s[i].height <= g /\ s[i].lastHeight <= g BY <2>1 DEF RowOK
  <2>5. s[i].height <= h /\ s[i].lastHeight <= h BY <2>3, <2>4
  <2> QED BY <2>1, <2>5 DEF RowOK
<1>4. RowsInv(s, R, f, h) BY <1>2, <1>3 DEF RowsInv
<1> QED BY <1>1, <1>4

\* What is the same above a floor is the same above a higher one.
LEMMA SameHigher ==
    ASSUME NEW x \in Row, NEW y \in Row, NEW f \in Nat, NEW k \in Nat, f <= k, Same(x, y, f)
    PROVE  Same(x, y, k)
<1>1. y.lastHeight \in Nat BY RowFields
<1> QED BY <1>1, SameFields

\* Dropping the records up to block k leaves rows of the floor k.
LEMMA DropRows ==
    ASSUME NEW s, NEW R, NEW f \in Nat, NEW h \in Nat, RowsInv(s, R, f, h),
           NEW k \in Nat, f <= k, k <= h, NEW K, K = {r \in R : r.height > k}
    PROVE  RowsInv(s, K, k, h)
<1>1. \A r \in R : r.height \in Nat /\ r.height <= h /\ r.height > f /\ r.old \in Nat /\ r.row \in 1..Len(s)
  BY RecordFields
<1>2. s \in Seq(Row) /\ IsFiniteSet(R) /\ R \subseteq [height : (f + 1)..h, old : Nat, row : 1..Len(s)] BY DEF RowsInv
<1>3. K \subseteq R OBVIOUS
<1>4. IsFiniteSet(K) BY <1>2, <1>3, FS_Subset
<1>5. K \subseteq [height : (k + 1)..h, old : Nat, row : 1..Len(s)]
  <2> SUFFICES ASSUME NEW r \in K PROVE r \in [height : (k + 1)..h, old : Nat, row : 1..Len(s)] OBVIOUS
  <2>1. r \in [height : (f + 1)..h, old : Nat, row : 1..Len(s)] BY <1>2, <1>3
  <2>2. r.height \in (k + 1)..h BY <1>1
  <2> QED BY <2>1, <2>2
<1>6. ASSUME NEW i \in 1..Len(s) PROVE RowOK(s[i], i, K, k, h)
  <2>1. RowOK(s[i], i, R, f, h) /\ s[i] \in Row BY <1>2 DEF RowsInv
  <2>2. s[i].height \in Nat /\ s[i].lastHeight \in Nat /\ s[i].count \in Nat BY <2>1, RowFields
  <2>3. s[i].reason = "committee" /\ s[i].height > k => \E r \in K : r.row = i /\ r.height = s[i].height
    BY <2>1, <2>2 DEF RowOK
  <2>4. s[i].lastHeight > k => \E r \in K : r.row = i /\ r.height = s[i].lastHeight
    BY <2>1, <2>2 DEF RowOK
  <2>5. Cardinality(RecordsAbove(K, i, 0)) <= s[i].count
    <3>1. RecordsAbove(K, i, 0) \subseteq RecordsAbove(R, i, 0) BY <1>3 DEF RecordsAbove
    <3>2. RecordsAbove(R, i, 0) \subseteq R BY DEF RecordsAbove
    <3>3. IsFiniteSet(RecordsAbove(R, i, 0)) BY <1>2, <3>2, FS_Subset
    <3>4. /\ Cardinality(RecordsAbove(K, i, 0)) <= Cardinality(RecordsAbove(R, i, 0))
          /\ IsFiniteSet(RecordsAbove(K, i, 0))
      BY <3>1, <3>3, FS_Subset
    <3>5. Cardinality(RecordsAbove(K, i, 0)) \in Nat /\ Cardinality(RecordsAbove(R, i, 0)) \in Nat
      BY <3>3, <3>4, FS_CardinalityType
    <3>6. Cardinality(RecordsAbove(R, i, 0)) <= s[i].count BY <2>1 DEF RowOK
    <3> QED BY <2>2, <3>4, <3>5, <3>6
  <2> QED BY <2>1, <2>3, <2>4, <2>5 DEF RowOK
<1> QED BY <1>2, <1>3, <1>4, <1>5, <1>6 DEF RowsInv

\* The height of the last reward is known as well from the records above k.
LEMMA LastHigher ==
    ASSUME NEW B, NEW f \in Nat, NEW k \in Nat, f <= k, NEW l \in Nat, LastUpTo(B, f, l),
           \A r \in B : r.height \in Nat, NEW C, C = {r \in B : r.height > k}
    PROVE  LastUpTo(C, k, l)
<1>1. CASE C = {}
  <2>1. CASE B = {} BY <1>1, <2>1 DEF LastUpTo
  <2>2. CASE B # {}
    <3>1. PICK r \in B : r.height = l BY <2>2 DEF LastUpTo
    <3>2. ~(r.height > k) BY <1>1
    <3>3. l <= k BY <3>1, <3>2
    <3> QED BY <1>1, <3>3 DEF LastUpTo
  <2> QED BY <2>1, <2>2
<1>2. CASE C # {}
  <2>1. PICK c \in C : TRUE BY <1>2
  <2>2. c \in B /\ c.height > k OBVIOUS
  <2>3. PICK r \in B : r.height = l BY <2>2 DEF LastUpTo
  <2>4. \A q \in B : q.height <= l BY <2>2 DEF LastUpTo
  <2>5. r.height > k BY <2>2, <2>3, <2>4
  <2>6. r \in C BY <2>5
  <2> QED BY <1>2, <2>3, <2>4, <2>6 DEF LastUpTo
<1> QED BY <1>1, <1>2

\* The rows go back to the same rows when records are dropped.
LEMMA DropBack ==
    ASSUME NEW s, NEW R, NEW f \in Nat, NEW h \in Nat, RowsInv(s, R, f, h),
           NEW k \in Nat, f <= k, k <= h, NEW K, K = {r \in R : r.height > k},
           NEW p \in Nat, NEW t \in Seq(Row), Back(s, R, f, p, t)
    PROVE  Back(s, K, k, p, t)
<1>1. \A r \in R : /\ r.height \in Nat /\ r.height <= h /\ r.height > f /\ r.old \in Nat
                   /\ r.row \in 1..Len(s) /\ RecordOK(r, s)
  BY RecordFields
<1>2. s \in Seq(Row) /\ Len(s) \in Nat /\ Len(t) \in Nat /\ Len(t) <= Len(s) BY DEF RowsInv, Back
<1>3. ASSUME NEW i \in 1..Len(t)
      PROVE  RowBack(s[i], RecordsAbove(K, i, p), RecordsUpTo(K, p), k, p, t[i])
  <2>1. PICK x : x = s[i] OBVIOUS
  <2>2. PICK y : y = t[i] OBVIOUS
  <2>3. PICK A : A = RecordsAbove(R, i, p) OBVIOUS
  <2>4. PICK B : B = RecordsUpTo(R, p) OBVIOUS
  <2>5. x \in Row /\ y \in Row /\ i \in 1..Len(s) BY <1>2, <2>1, <2>2
  <2>6. RowBack(x, A, B, f, p, y) BY <2>1, <2>2, <2>3, <2>4 DEF Back
  <2>7. x.lastHeight \in Nat /\ y.lastHeight \in Nat BY <2>5, RowFields
  <2>8. Same(x, y, f) => Same(x, y, k) BY <2>5, SameHigher
  <2>9. A # {} => x.reason = "committee" /\ x.lastHeight > p
    <3> SUFFICES ASSUME NEW r \in A PROVE x.reason = "committee" /\ x.lastHeight > p OBVIOUS
    <3>1. r \in R /\ r.row = i /\ r.height > p BY <2>3 DEF RecordsAbove
    <3>2. x.reason = "committee" /\ r.height <= x.lastHeight BY <1>1, <2>1, <3>1 DEF RecordOK
    <3> QED BY <1>1, <2>7, <3>1, <3>2
  <2>10. CASE p >= k
    <3>1. RecordsAbove(K, i, p) = A BY <1>1, <2>3, <2>10 DEF RecordsAbove
    <3>2. PICK C : C = RecordsUpTo(K, p) OBVIOUS
    <3>3. C = {r \in B : r.height > k} BY <2>4, <3>2 DEF RecordsUpTo
    <3>4. \A r \in B : r.height \in Nat BY <1>1, <2>4 DEF RecordsUpTo
    <3>5. LastUpTo(B, f, y.lastHeight) => LastUpTo(C, k, y.lastHeight) BY <2>7, <3>3, <3>4, LastHigher
    <3>6. p >= f /\ ~(p < k) BY <2>10
    <3>7. RowBack(x, A, C, k, p, y) BY <2>6, <2>8, <3>5, <3>6 DEF RowBack
    <3> QED BY <2>1, <2>2, <3>1, <3>2, <3>7
  <2>11. CASE p < k
    <3>1. ASSUME x.reason = "other" \/ (x.lastHeight # Null /\ x.lastHeight <= p) PROVE Same(x, y, k)
      <4>1. A = {} BY <2>7, <2>9, <3>1
      <4>2. Same(x, y, f)
        <5>1. CASE p >= f BY <2>6, <4>1, <5>1 DEF RowBack
        <5>2. CASE p < f BY <2>6, <3>1, <5>2 DEF RowBack
        <5> QED BY <5>1, <5>2
      <4> QED BY <2>8, <4>2
    <3>2. ~(p >= k) BY <2>11
    <3>3. x.reason = y.reason /\ x.old = y.old /\ x.height = y.height /\ x.share = y.share BY <2>6 DEF RowBack
    <3> QED BY <2>1, <2>2, <3>1, <3>2, <3>3 DEF RowBack
  <2> QED BY <2>10, <2>11
<1> QED BY <1>3 DEF Back

\* The rows go back to themselves.
LEMMA NewBack ==
    ASSUME NEW s, NEW R, NEW f \in Nat, NEW h \in Nat, RowsInv(s, R, f, h)
    PROVE  Back(s, R, f, h, s)
<1>1. s \in Seq(Row) /\ Len(s) \in Nat BY DEF RowsInv
<1>2. \A r \in R : r.height \in Nat /\ r.height <= h BY RecordFields
<1>3. ASSUME NEW i \in 1..Len(s)
      PROVE  s[i].height <= h /\ RowBack(s[i], RecordsAbove(R, i, h), RecordsUpTo(R, h), f, h, s[i])
  <2>1. RecordsAbove(R, i, h) = {} BY <1>2 DEF RecordsAbove
  <2>2. PICK x : x = s[i] OBVIOUS
  <2>3. x \in Row BY <1>1, <2>2
  <2>4. Same(x, x, f) BY <2>3, SameFields
  <2>5. Cardinality({}) = 0 BY FS_EmptySet
  <2>6. x.count \in Nat BY <2>3, RowFields
  <2>7. x.count - Cardinality({}) = x.count BY <2>5, <2>6
  <2>8. RowBack(x, {}, RecordsUpTo(R, h), f, h, x) BY <2>4, <2>7 DEF RowBack
  <2>9. x.height <= h BY <2>2 DEF RowsInv, RowOK
  <2> QED BY <2>1, <2>2, <2>8, <2>9
<1> QED BY <1>1, <1>3 DEF Back

\* The rows that a reset to block q leaves are the first ones.
LEMMA StayingRows ==
    ASSUME NEW s \in Seq(Row), NEW q \in Nat, \A i, j \in 1..Len(s) : i < j => s[i].height <= s[j].height
    PROVE  \E m \in 0..Len(s) : /\ Staying(s, q) = SubSeq(s, 1, m)
                                /\ \A i \in 1..Len(s) : i <= m <=> s[i].height <= q
<1> DEFINE D == {i \in DOMAIN s : s[i].height <= q}
<1>1. Len(s) \in Nat /\ DOMAIN s = 1..Len(s) OBVIOUS
<1>2. \A i \in 1..Len(s) : s[i].height \in Nat
  <2> SUFFICES ASSUME NEW i \in 1..Len(s) PROVE s[i].height \in Nat OBVIOUS
  <2>1. s[i] \in Row OBVIOUS
  <2> QED BY <2>1, RowFields
<1>3. D = {i \in 1..Len(s) : s[i].height <= q} BY <1>1
<1>4. \E m \in 0..Len(s) : D = 1..m /\ \A i \in 1..Len(s) : i <= m <=> s[i].height <= q
  <2> HIDE DEF D
  <2>1. CASE \A i \in 1..Len(s) : s[i].height <= q
    <3>1. D = 1..Len(s) BY <1>3, <2>1
    <3>2. Len(s) \in 0..Len(s) /\ \A i \in 1..Len(s) : i <= Len(s) BY <1>1
    <3> QED BY <2>1, <3>1, <3>2
  <2>2. CASE \E i \in 1..Len(s) : ~(s[i].height <= q)
    <3>1. PICK T : T = {i \in 1..Len(s) : ~(s[i].height <= q)} OBVIOUS
    <3>2. T \subseteq Nat /\ T # {} BY <1>1, <2>2, <3>1
    <3>3. PICK x \in T : \A y \in T : x <= y BY <3>2, LeastOf
    <3>4. x \in 1..Len(s) /\ ~(s[x].height <= q) BY <3>1
    <3>5. PICK m : m = x - 1 OBVIOUS
    <3>6. m \in 0..Len(s) BY <1>1, <3>4, <3>5
    <3>7. ASSUME NEW i \in 1..Len(s) PROVE i <= m <=> s[i].height <= q
      <4>1. CASE i <= m
        <5>1. i \notin T BY <1>1, <3>3, <3>4, <3>5, <4>1
        <5> QED BY <3>1, <4>1, <5>1
      <4>2. CASE ~(i <= m)
        <5>1. i = x \/ x < i BY <1>1, <3>4, <3>5, <4>2
        <5>2. s[x].height <= s[i].height BY <1>2, <3>4, <5>1
        <5>3. ~(s[i].height <= q) BY <1>2, <3>4, <5>2
        <5> QED BY <4>2, <5>3
      <4> QED BY <4>1, <4>2
    <3>8. D = 1..m BY <1>1, <1>3, <3>6, <3>7
    <3> QED BY <3>6, <3>7, <3>8
  <2> QED BY <2>1, <2>2
<1>5. PICK m \in 0..Len(s) : D = 1..m /\ \A i \in 1..Len(s) : i <= m <=> s[i].height <= q BY <1>4
<1>6. Cardinality(1..m) = m
  <2>1. m \in Int /\ 1 \in Int /\ m >= 0 BY <1>1
  <2>2. Cardinality(1..m) = IF 1 > m THEN 0 ELSE m - 1 + 1 BY <2>1, FS_Interval
  <2> QED BY <2>1, <2>2
<1>7. Staying(s, q) = SubSeq(s, 1, m) BY <1>5, <1>6 DEF Staying
<1> QED BY <1>5, <1>7

\* What reset_balance_updates_to leaves of row x, whose records above the block
\* are A; B are the records of the address up to the block.
Shrinks(x, A, B, z) ==
    /\ z \in Row
    /\ z.reason = x.reason /\ z.old = x.old /\ z.height = x.height /\ z.share = x.share
    /\ z.count = x.count - Cardinality(A)
    /\ A = {} => z = x
    /\ A # {} => \E o \in A : (\A r \in A : o.height <= r.height) /\ z.new = o.old
    /\ A # {} /\ B = {} => z.lastHeight = Null
    /\ A # {} /\ B # {} => (\E r \in B : r.height = z.lastHeight) /\ \A r \in B : r.height <= z.lastHeight

\* Shrunk shrinks a row.
LEMMA ShrunkShrinks ==
    ASSUME NEW s, NEW R, NEW f \in Nat, NEW h \in Nat, h <= MaxRewardHeight, RowsInv(s, R, f, h), NEW q \in Nat,
           NEW i \in 1..Len(s)
    PROVE  Shrinks(s[i], RecordsAbove(R, i, q), RecordsUpTo(R, q), Shrunk(s[i], i, R, q))
<1>1. PICK x : x = s[i] OBVIOUS
<1>2. PICK A : A = RecordsAbove(R, i, q) OBVIOUS
<1>3. PICK B : B = RecordsUpTo(R, q) OBVIOUS
<1>4. PICK z : z = Shrunk(x, i, R, q) OBVIOUS
<1>5. x \in Row /\ RowOK(x, i, R, f, h) /\ IsFiniteSet(R) BY <1>1 DEF RowsInv
<1>6. \A r \in R : r.height \in Nat /\ r.height <= h /\ r.old \in Nat BY RecordFields
<1>7. A \subseteq R /\ B \subseteq R BY <1>2, <1>3 DEF RecordsAbove, RecordsUpTo
<1>8. IsFiniteSet(A) BY <1>5, <1>7, FS_Subset
<1>9. Cardinality(A) \in Nat /\ Cardinality(A) <= x.count /\ x.count \in Nat
  <2>1. PICK A0 : A0 = RecordsAbove(R, i, 0) OBVIOUS
  <2>2. A0 \subseteq R BY <2>1 DEF RecordsAbove
  <2>3. IsFiniteSet(A0) BY <1>5, <2>2, FS_Subset
  <2>4. A \subseteq A0
    <3>1. \A r \in A : r \in R /\ r.row = i /\ r.height > q BY <1>2 DEF RecordsAbove
    <3>2. \A r \in A : r.height > 0 BY <1>6, <3>1
    <3> QED BY <2>1, <3>1, <3>2 DEF RecordsAbove
  <2>5. Cardinality(A) <= Cardinality(A0) BY <2>3, <2>4, FS_Subset
  <2>6. Cardinality(A) \in Nat /\ Cardinality(A0) \in Nat BY <1>8, <2>3, FS_CardinalityType
  <2>7. Cardinality(A0) <= x.count BY <1>5, <2>1 DEF RowOK
  <2>8. x.count \in Nat BY <1>5, RowFields
  <2> QED BY <2>5, <2>6, <2>7, <2>8
<1>10. CASE A = {}
  <2>1. z = x BY <1>2, <1>4, <1>10 DEF Shrunk, RecordsAbove
  <2>2. Cardinality({}) = 0 BY FS_EmptySet
  <2>3. x.count = x.count - Cardinality(A) BY <1>9, <1>10, <2>2
  <2>4. Shrinks(x, A, B, z) BY <1>5, <1>10, <2>1, <2>3 DEF Shrinks
  <2> QED BY <1>1, <1>2, <1>3, <1>4, <2>4
<1>11. CASE A # {}
  <2>1. PICK o : o = CHOOSE r \in A : \A a \in A : r.height <= a.height OBVIOUS
  <2>2. PICK H : H = {r.height : r \in B} OBVIOUS
  <2>3. PICK l : l = IF H = {} THEN Null ELSE CHOOSE y \in H : \A k \in H : k <= y OBVIOUS
  <2>4. z = [x EXCEPT !.new = o.old, !.count = @ - Cardinality(A), !.lastHeight = l]
    <3>1. A = {r \in R : r.row = i /\ r.height > q} BY <1>2 DEF RecordsAbove
    <3>2. B = {r \in R : r.height <= q} BY <1>3 DEF RecordsUpTo
    <3> DEFINE above == {r \in R : r.row = i /\ r.height > q}
               below == {r.height : r \in {e \in R : e.height <= q}}
               old   == CHOOSE r \in above : \A e \in above : r.height <= e.height
               top   == IF below = {} THEN Null ELSE CHOOSE y \in below : \A k \in below : k <= y
    <3>3. z = IF above = {} THEN x
              ELSE [x EXCEPT !.new = old.old, !.count = @ - Cardinality(above), !.lastHeight = top]
      BY <1>4 DEF Shrunk
    <3>4. above = A /\ below = H BY <2>2, <3>1, <3>2
    <3>5. old = CHOOSE r \in above : \A e \in above : r.height <= e.height OBVIOUS
    <3>6. top = IF below = {} THEN Null ELSE CHOOSE y \in below : \A k \in below : k <= y OBVIOUS
    <3> HIDE DEF above, below, old, top
    <3>7. old = o BY <2>1, <3>4, <3>5
    <3>8. top = l BY <2>3, <3>4, <3>6
    <3> QED BY <1>11, <3>3, <3>4, <3>7, <3>8
  <2>5. o \in A /\ \A a \in A : o.height <= a.height
    <3>1. PICK T : T = {r.height : r \in A} OBVIOUS
    <3>2. T \subseteq Nat /\ T # {} BY <1>6, <1>7, <1>11, <3>1
    <3>3. PICK y \in T : \A k \in T : y <= k BY <3>2, LeastOf
    <3>4. PICK r \in A : r.height = y BY <3>1, <3>3
    <3>5. \A a \in A : r.height <= a.height BY <3>1, <3>3, <3>4
    <3>6. \E e \in A : \A a \in A : e.height <= a.height BY <3>4, <3>5
    <3> QED BY <2>1, <3>6
  <2>6. H # {} => l \in H /\ \A k \in H : k <= l
    <3> SUFFICES ASSUME H # {} PROVE l \in H /\ \A k \in H : k <= l OBVIOUS
    <3>1. H \subseteq 0..h BY <1>6, <1>7, <2>2
    <3>2. \E y \in H : \A k \in H : k <= y BY <3>1, GreatestOf
    <3>3. l = CHOOSE y \in H : \A k \in H : k <= y BY <2>3
    <3> QED BY <3>2, <3>3
  <2>7. B = {} => l = Null BY <2>2, <2>3
  <2>8. B # {} => (\E r \in B : r.height = l) /\ \A r \in B : r.height <= l
    <3>1. B # {} => H # {} BY <2>2
    <3> QED BY <2>2, <2>6, <3>1
  <2>9. l \in 0..MaxRewardHeight
    <3>1. CASE B = {} BY <2>7, <3>1, CommitteeRewardsAssumption DEF Null
    <3>2. CASE B # {}
      <4>1. PICK r \in B : r.height = l BY <2>8, <3>2
      <4>2. r.height \in Nat /\ r.height <= h BY <1>6, <1>7
      <4> QED BY <4>1, <4>2, CommitteeRewardsAssumption
    <3> QED BY <3>1, <3>2
  <2>10. o.old \in Nat BY <1>6, <1>7, <2>5
  <2>11. PICK c : c = Cardinality(A) OBVIOUS
  <2>12. PICK new : new = o.old OBVIOUS
  <2>13. /\ z \in Row /\ z.new = new /\ z.count = x.count - c /\ z.lastHeight = l
         /\ z.reason = x.reason /\ z.old = x.old /\ z.height = x.height /\ z.share = x.share
    <3>1. new \in Nat /\ c \in Nat /\ c <= x.count BY <1>9, <2>10, <2>11, <2>12
    <3>2. z = [x EXCEPT !.new = new, !.count = @ - c, !.lastHeight = l] BY <2>4, <2>11, <2>12
    <3>3. x.count - c \in Nat BY <1>9, <3>1
    <3> QED BY <1>5, <2>9, <3>1, <3>2, <3>3 DEF Row
  <2>14. Shrinks(x, A, B, z) BY <1>11, <2>5, <2>7, <2>8, <2>11, <2>12, <2>13 DEF Shrinks
  <2> QED BY <1>1, <1>2, <1>3, <1>4, <2>14
<1> QED BY <1>10, <1>11

\* The rows w are what a reset to block q leaves of the rows s with the records R.
ResetsTo(s, R, q, w) ==
    /\ w \in Seq(Row) /\ Len(w) \in 0..Len(s)
    /\ \A i \in 1..Len(s) : i <= Len(w) <=> s[i].height <= q
    /\ \A i \in 1..Len(w) : Shrinks(s[i], RecordsAbove(R, i, q), RecordsUpTo(R, q), w[i])

\* So are the rows of ResetBalanceUpdatesTo.
LEMMA ResetRows ==
    ASSUME NEW s, NEW R, NEW f \in Nat, NEW h \in Nat, h <= MaxRewardHeight, RowsInv(s, R, f, h), NEW q \in Nat
    PROVE  ResetsTo(s, R, q, [i \in DOMAIN Staying(s, q) |-> Shrunk(Staying(s, q)[i], i, R, q)])
<1>1. s \in Seq(Row) /\ Len(s) \in Nat BY DEF RowsInv
<1>2. \A i, j \in 1..Len(s) : i < j => s[i].height <= s[j].height BY DEF RowsInv
<1>3. PICK m \in 0..Len(s) : /\ Staying(s, q) = SubSeq(s, 1, m)
                             /\ \A i \in 1..Len(s) : i <= m <=> s[i].height <= q
  BY <1>1, <1>2, StayingRows
<1>4. PICK y : y = Staying(s, q) OBVIOUS
<1>5. DOMAIN y = 1..m /\ \A i \in 1..m : y[i] = s[i] /\ i \in 1..Len(s) BY <1>1, <1>3, <1>4
<1>6. PICK w : w = [i \in DOMAIN y |-> Shrunk(y[i], i, R, q)] OBVIOUS
<1>7. w = [i \in 1..m |-> Shrunk(s[i], i, R, q)]
  <2>1. w = [i \in 1..m |-> Shrunk(y[i], i, R, q)] BY <1>5, <1>6
  <2> QED BY <1>5, <2>1
<1>8. \A i \in 1..m : Shrinks(s[i], RecordsAbove(R, i, q), RecordsUpTo(R, q), w[i])
  <2> SUFFICES ASSUME NEW i \in 1..m PROVE Shrinks(s[i], RecordsAbove(R, i, q), RecordsUpTo(R, q), w[i]) OBVIOUS
  <2>1. i \in 1..Len(s) BY <1>5
  <2>2. w[i] = Shrunk(s[i], i, R, q) BY <1>7
  <2> QED BY <2>1, <2>2, ShrunkShrinks
<1>9. \A i \in 1..m : w[i] \in Row BY <1>8 DEF Shrinks
<1>10. w \in Seq(Row) /\ Len(w) = m
  <2>1. w \in [1..m -> Row] BY <1>7, <1>9
  <2>2. m \in Nat BY <1>1
  <2> QED BY <2>1, <2>2
<1>11. ResetsTo(s, R, q, w) BY <1>3, <1>8, <1>10 DEF ResetsTo
<1> QED BY <1>4, <1>6, <1>11

\* The records of a row above p are those up to q and those above q.
Splits(R, i, p, q) ==
    /\ RecordsAbove(RecordsUpTo(R, q), i, p) = RecordsAbove(R, i, p) \ RecordsAbove(R, i, q)
    /\ RecordsAbove(R, i, q) \subseteq RecordsAbove(R, i, p)
    /\ Cardinality(RecordsAbove(R, i, p)) \in Nat /\ Cardinality(RecordsAbove(R, i, q)) \in Nat
    /\ Cardinality(RecordsAbove(RecordsUpTo(R, q), i, p))
         = Cardinality(RecordsAbove(R, i, p)) - Cardinality(RecordsAbove(R, i, q))

\* They are, for p <= q.
LEMMA SplitRecords ==
    ASSUME NEW s, NEW R, NEW f \in Nat, NEW h \in Nat, RowsInv(s, R, f, h), NEW i,
           NEW p \in Nat, NEW q \in Nat, p <= q
    PROVE  Splits(R, i, p, q)
<1>1. \A r \in R : r.height \in Nat BY RecordFields
<1>2. PICK A : A = RecordsAbove(R, i, q) OBVIOUS
<1>3. PICK C : C = RecordsAbove(R, i, p) OBVIOUS
<1>4. RecordsAbove(RecordsUpTo(R, q), i, p) = C \ A BY <1>1, <1>2, <1>3 DEF RecordsAbove, RecordsUpTo
<1>5. A \subseteq C BY <1>1, <1>2, <1>3 DEF RecordsAbove
<1>6. C \subseteq R /\ A \subseteq R BY <1>2, <1>3 DEF RecordsAbove
<1>7. IsFiniteSet(R) BY DEF RowsInv
<1>8. IsFiniteSet(C) /\ IsFiniteSet(A) BY <1>6, <1>7, FS_Subset
<1>9. Cardinality(C) \in Nat /\ Cardinality(A) \in Nat BY <1>8, FS_CardinalityType
<1>10. Cardinality(C \ A) = Cardinality(C) - Cardinality(C \cap A) BY <1>8, FS_Difference
<1>11. C \cap A = A BY <1>5
<1> QED BY <1>2, <1>3, <1>4, <1>5, <1>9, <1>10, <1>11 DEF Splits

\* Before a record of row i above block q the records up to q are of that row,
\* or no later than its first block.
LEMMA OnlyRow ==
    ASSUME NEW s, NEW R, NEW f \in Nat, NEW h \in Nat, RowsInv(s, R, f, h), NEW q \in Nat, NEW i \in 1..Len(s),
           NEW a \in R, a.row = i, a.height > q, NEW r \in R, r.height <= q
    PROVE  r.row = i \/ r.height <= s[i].height
<1>1. a.height \in Nat /\ RecordOK(a, s) BY RecordFields
<1>2. r.height \in Nat /\ RecordOK(r, s) /\ r.row \in 1..Len(s) /\ s[r.row] \in Row BY RecordFields
<1>3. s[r.row].height \in Nat BY <1>2, RowFields
<1>4. Len(s) \in Nat BY DEF RowsInv
<1>5. CASE r.row < i BY <1>2, <1>5 DEF RecordOK
<1>6. CASE i < r.row
  <2>1. a.height <= s[r.row].height BY <1>1, <1>2, <1>6 DEF RecordOK
  <2>2. s[r.row].height <= r.height BY <1>2 DEF RecordOK
  <2> QED BY <1>1, <1>2, <1>3, <2>1, <2>2
<1> QED BY <1>2, <1>4, <1>5, <1>6

\* A row after a reset to a block that is not below the floor.
LEMMA ResetRowOK ==
    ASSUME NEW s, NEW R, NEW f \in Nat, NEW h \in Nat, RowsInv(s, R, f, h), NEW q \in Nat, f <= q,
           NEW i \in 1..Len(s), s[i].height <= q,
           NEW z, Shrinks(s[i], RecordsAbove(R, i, q), RecordsUpTo(R, q), z)
    PROVE  RowOK(z, i, RecordsUpTo(R, q), f, q)
<1>1. PICK x : x = s[i] OBVIOUS
<1>2. PICK A : A = RecordsAbove(R, i, q) OBVIOUS
<1>3. PICK B : B = RecordsUpTo(R, q) OBVIOUS
<1>4. x \in Row /\ RowOK(x, i, R, f, h) BY <1>1 DEF RowsInv
<1>5. Shrinks(x, A, B, z) BY <1>1, <1>2, <1>3
<1>6. z \in Row /\ z.reason = x.reason /\ z.height = x.height /\ z.height <= q BY <1>1, <1>5 DEF Shrinks
<1>7. \A r \in R : r.height \in Nat /\ r.height > f /\ RecordOK(r, s) BY RecordFields
<1>8. \A r \in B : r \in R /\ r.height <= q BY <1>3 DEF RecordsUpTo
<1>9. \A r \in R : r.height <= q => r \in B BY <1>3 DEF RecordsUpTo
<1>10. \A r \in A : r \in R /\ r.row = i /\ r.height > q BY <1>2 DEF RecordsAbove
<1>11. \A r \in R : r.row = i /\ r.height > q => r \in A BY <1>2 DEF RecordsAbove
<1>12. x.height \in Nat /\ x.lastHeight \in Nat /\ z.lastHeight \in Nat /\ x.count \in Nat BY <1>4, <1>6, RowFields
<1>13. A # {} => x.reason = "committee" BY <1>1, <1>7, <1>10 DEF RecordOK
<1>14. x.reason = "committee" /\ x.height > f => \E r \in B : r.row = i /\ r.height = x.height
  <2> SUFFICES ASSUME x.reason = "committee", x.height > f PROVE \E r \in B : r.row = i /\ r.height = x.height OBVIOUS
  <2>1. PICK r \in R : r.row = i /\ r.height = x.height BY <1>4 DEF RowOK
  <2>2. r.height <= q BY <1>6, <2>1
  <2> QED BY <1>9, <2>1, <2>2
<1>15. Cardinality(RecordsAbove(B, i, 0)) <= z.count
  <2>1. PICK n : n = Cardinality(RecordsAbove(R, i, 0)) OBVIOUS
  <2>2. PICK k : k = Cardinality(A) OBVIOUS
  <2>3. n \in Nat /\ k \in Nat /\ Cardinality(RecordsAbove(B, i, 0)) = n - k
    <3>1. PICK p : p = 0 OBVIOUS
    <3>2. p \in Nat /\ p <= q BY <3>1
    <3>3. Splits(R, i, p, q) BY <3>2, SplitRecords
    <3> QED BY <1>2, <1>3, <2>1, <2>2, <3>1, <3>3 DEF Splits
  <2>4. n <= x.count BY <1>4, <2>1 DEF RowOK
  <2>5. z.count = x.count - k BY <1>5, <2>2 DEF Shrinks
  <2> QED BY <1>12, <2>3, <2>4, <2>5
<1>16. CASE A = {}
  <2>1. z = x BY <1>5, <1>16 DEF Shrinks
  <2>2. x.lastHeight > f => \E r \in B : r.row = i /\ r.height = x.lastHeight /\ x.lastHeight <= q
    <3> SUFFICES ASSUME x.lastHeight > f
                 PROVE  \E r \in B : r.row = i /\ r.height = x.lastHeight /\ x.lastHeight <= q
      OBVIOUS
    <3>1. PICK r \in R : r.row = i /\ r.height = x.lastHeight BY <1>4 DEF RowOK
    <3>2. ~(r.height > q) BY <1>11, <1>16, <3>1
    <3>3. r.height <= q BY <1>7, <3>2
    <3> QED BY <1>9, <3>1, <3>3
  <2>3. x.lastHeight <= q BY <1>12, <2>2
  <2>4. RowOK(x, i, B, f, q) BY <1>4, <1>6, <1>14, <1>15, <2>1, <2>2, <2>3 DEF RowOK
  <2> QED BY <1>3, <2>1, <2>4
<1>17. CASE A # {}
  <2>1. PICK a \in A : TRUE BY <1>17
  <2>2. x.reason = "committee" BY <1>13, <1>17
  <2>3. CASE B = {}
    <3>1. z.lastHeight = Null BY <1>5, <1>17, <2>3 DEF Shrinks
    <3>2. z.lastHeight <= q /\ ~(z.lastHeight > f) BY <3>1 DEF Null
    <3>3. RowOK(z, i, B, f, q) BY <1>6, <1>14, <1>15, <3>1, <3>2 DEF RowOK
    <3> QED BY <1>3, <3>3
  <2>4. CASE B # {}
    <3>1. PICK r \in B : r.height = z.lastHeight BY <1>5, <1>17, <2>4 DEF Shrinks
    <3>2. \A e \in B : e.height <= z.lastHeight BY <1>5, <1>17, <2>4 DEF Shrinks
    <3>3. r \in R /\ r.height <= q /\ r.height > f BY <1>7, <1>8, <3>1
    <3>4. z.lastHeight <= q /\ z.lastHeight > f BY <3>1, <3>3
    <3>5. x.height <= z.lastHeight
      <4>1. CASE x.height > f BY <1>14, <2>2, <3>2, <4>1
      <4>2. CASE ~(x.height > f) BY <1>12, <3>4, <4>2
      <4> QED BY <4>1, <4>2
    <3>6. r.row = i
      <4> SUFFICES ASSUME r.row # i PROVE FALSE OBVIOUS
      <4>1. a \in R /\ a.row = i /\ a.height > q BY <1>10, <2>1
      <4>2. r.row = i \/ r.height <= s[i].height BY <3>3, <4>1, OnlyRow
      <4>3. r.height <= x.height BY <1>1, <4>2
      <4>4. x.height > f /\ r.height = x.height BY <1>7, <1>12, <3>1, <3>3, <3>5, <4>3
      <4>5. PICK e \in B : e.row = i /\ e.height = x.height BY <1>14, <2>2, <4>4
      <4>6. e = r BY <1>8, <3>3, <4>4, <4>5 DEF RowsInv
      <4> QED BY <4>5, <4>6
    <3>7. RowOK(z, i, B, f, q) BY <1>6, <1>12, <1>14, <1>15, <2>2, <3>1, <3>4, <3>5, <3>6 DEF RowOK
    <3> QED BY <1>3, <3>7
  <2> QED BY <2>3, <2>4
<1> QED BY <1>16, <1>17

\* The rows after a reset to a block that is not below the floor.
LEMMA ResetRowsInv ==
    ASSUME NEW s, NEW R, NEW f \in Nat, NEW h \in Nat, RowsInv(s, R, f, h), NEW q \in Nat, f <= q,
           NEW w, ResetsTo(s, R, q, w)
    PROVE  RowsInv(w, RecordsUpTo(R, q), f, q)
<1>1. PICK B : B = RecordsUpTo(R, q) OBVIOUS
<1>2. /\ s \in Seq(Row) /\ Len(s) \in Nat /\ IsFiniteSet(R)
      /\ R \subseteq [height : (f + 1)..h, old : Nat, row : 1..Len(s)]
  BY DEF RowsInv
<1>3. w \in Seq(Row) /\ Len(w) \in Nat /\ Len(w) <= Len(s) BY <1>2 DEF ResetsTo
<1>4. \A i \in 1..Len(w) : i \in 1..Len(s) BY <1>2, <1>3
<1>5. \A r \in R : /\ r.height \in Nat /\ r.height > f /\ r.old \in Nat
                   /\ r.row \in 1..Len(s) /\ s[r.row] \in Row /\ RecordOK(r, s)
  BY RecordFields
<1>6. \A r \in B : r \in R /\ r.height <= q BY <1>1 DEF RecordsUpTo
<1>7. IsFiniteSet(B)
  <2>1. B \subseteq R BY <1>6
  <2> QED BY <1>2, <2>1, FS_Subset
<1>8. \A i \in 1..Len(w) : /\ Shrinks(s[i], RecordsAbove(R, i, q), B, w[i])
                           /\ w[i].height = s[i].height /\ w[i].reason = s[i].reason
                           /\ s[i] \in Row /\ w[i] \in Row /\ s[i].height <= q
  BY <1>1, <1>2, <1>4 DEF ResetsTo, Shrinks
<1>9. \A r \in B : r.row \in 1..Len(w)
  <2> SUFFICES ASSUME NEW r \in B PROVE r.row \in 1..Len(w) OBVIOUS
  <2>1. r.row \in 1..Len(s) /\ s[r.row] \in Row /\ RecordOK(r, s) /\ r.height \in Nat /\ r.height <= q BY <1>5, <1>6
  <2>2. s[r.row].height \in Nat BY <2>1, RowFields
  <2>3. s[r.row].height <= q BY <2>1, <2>2 DEF RecordOK
  <2>4. r.row <= Len(w) BY <2>1, <2>3 DEF ResetsTo
  <2> QED BY <1>3, <2>1, <2>4
<1>10. B \subseteq [height : (f + 1)..q, old : Nat, row : 1..Len(w)]
  <2> SUFFICES ASSUME NEW r \in B PROVE r \in [height : (f + 1)..q, old : Nat, row : 1..Len(w)] OBVIOUS
  <2>1. r \in [height : (f + 1)..h, old : Nat, row : 1..Len(s)] BY <1>2, <1>6
  <2>2. r.height \in (f + 1)..q BY <1>5, <1>6
  <2>3. r.row \in 1..Len(w) BY <1>9
  <2> QED BY <2>1, <2>2, <2>3
<1>11. ASSUME NEW i \in 1..Len(w) PROVE RowOK(w[i], i, B, f, q)
  <2>1. PICK z : z = w[i] OBVIOUS
  <2>2. Shrinks(s[i], RecordsAbove(R, i, q), RecordsUpTo(R, q), z) BY <1>1, <1>8, <2>1
  <2>3. i \in 1..Len(s) /\ s[i].height <= q BY <1>4, <1>8
  <2> QED BY <1>1, <2>1, <2>2, <2>3, ResetRowOK
<1>12. \A i, j \in 1..Len(w) : i < j => w[i].height <= w[j].height BY <1>4, <1>8 DEF RowsInv
<1>13. ASSUME NEW r \in B PROVE RecordOK(r, w)
  <2>1. PICK i : i = r.row OBVIOUS
  <2>2. i \in 1..Len(w) BY <1>9, <2>1
  <2>3. RecordOK(r, s) BY <1>5, <1>6
  <2>4. r.height <= w[i].lastHeight
    <3>1. Shrinks(s[i], RecordsAbove(R, i, q), B, w[i]) BY <1>8, <2>2
    <3>2. CASE RecordsAbove(R, i, q) = {}
      <4>1. w[i] = s[i] BY <3>1, <3>2 DEF Shrinks
      <4> QED BY <2>1, <2>3, <4>1 DEF RecordOK
    <3>3. CASE RecordsAbove(R, i, q) # {} BY <3>1, <3>3 DEF Shrinks
    <3> QED BY <3>2, <3>3
  <2>5. w[i].reason = "committee" /\ w[i].height <= r.height BY <1>8, <2>1, <2>2, <2>3 DEF RecordOK
  <2>6. \A j \in 1..Len(w) : r.row < j => r.height <= w[j].height BY <1>4, <1>8, <2>3 DEF RecordOK
  <2> QED BY <2>1, <2>4, <2>5, <2>6 DEF RecordOK
<1>14. \A r, e \in B : r.height = e.height => r = e BY <1>6 DEF RowsInv
<1>15. RowsInv(w, B, f, q) BY <1>3, <1>7, <1>10, <1>11, <1>12, <1>13, <1>14 DEF RowsInv
<1> QED BY <1>1, <1>15

\* Row i goes back to the same rows after a reset to a block that is not below
\* the floor.
LEMMA ResetRowBack ==
    ASSUME NEW s, NEW R, NEW f \in Nat, NEW h \in Nat, RowsInv(s, R, f, h), NEW q \in Nat, f <= q,
           NEW p \in Nat, p <= q, NEW i \in 1..Len(s), s[i].height <= p,
           NEW z, Shrinks(s[i], RecordsAbove(R, i, q), RecordsUpTo(R, q), z),
           NEW y \in Row, RowBack(s[i], RecordsAbove(R, i, p), RecordsUpTo(R, p), f, p, y)
    PROVE  RowBack(z, RecordsAbove(RecordsUpTo(R, q), i, p), RecordsUpTo(RecordsUpTo(R, q), p), f, p, y)
<1>1. PICK x : x = s[i] OBVIOUS
<1>2. PICK A : A = RecordsAbove(R, i, q) OBVIOUS
<1>3. PICK B : B = RecordsUpTo(R, q) OBVIOUS
<1>4. PICK C : C = RecordsAbove(R, i, p) OBVIOUS
<1>5. PICK D : D = RecordsUpTo(R, p) OBVIOUS
<1>6. PICK E : E = RecordsAbove(B, i, p) OBVIOUS
<1>7. \A r \in R : /\ r.height \in Nat /\ r.height > f /\ r.old \in Nat
                   /\ r.row \in 1..Len(s) /\ s[r.row] \in Row /\ RecordOK(r, s)
  BY RecordFields
<1>8. x \in Row /\ z \in Row BY <1>1 DEF RowsInv, Shrinks
<1>9. /\ x.count \in Nat /\ x.lastHeight \in Nat /\ x.height \in Nat
      /\ z.count \in Nat /\ z.lastHeight \in Nat /\ y.lastHeight \in Nat /\ y.count \in Nat
  BY <1>8, RowFields
<1>10. Shrinks(x, A, B, z) /\ RowBack(x, C, D, f, p, y) BY <1>1, <1>2, <1>3, <1>4, <1>5
<1>11. RecordsUpTo(B, p) = D
  <2>1. \A r \in R : r.height <= p => r.height <= q BY <1>7
  <2> QED BY <1>3, <1>5, <2>1 DEF RecordsUpTo
<1>12. Splits(R, i, p, q) BY SplitRecords
<1>13. /\ E = C \ A /\ A \subseteq C
       /\ Cardinality(C) \in Nat /\ Cardinality(A) \in Nat /\ Cardinality(E) = Cardinality(C) - Cardinality(A)
  BY <1>2, <1>3, <1>4, <1>6, <1>12 DEF Splits
<1>14. \A r \in A : r \in R /\ r.row = i /\ r.height > q BY <1>2 DEF RecordsAbove
<1>15. \A r \in C : r \in R /\ r.row = i /\ r.height > p BY <1>4 DEF RecordsAbove
<1>16. \A r \in E : r \in C /\ r \notin A /\ r.height <= q
  <2>1. \A r \in E : r \in C /\ r \notin A BY <1>13
  <2>2. \A r \in R : r.row = i /\ r.height > q => r \in A BY <1>2 DEF RecordsAbove
  <2> QED BY <1>7, <1>15, <2>1, <2>2
<1>17. z.reason = x.reason /\ z.old = x.old /\ z.height = x.height /\ z.share = x.share
       /\ z.count = x.count - Cardinality(A)
  BY <1>10 DEF Shrinks
<1>18. x.reason = y.reason /\ x.old = y.old /\ x.height = y.height /\ x.share = y.share BY <1>10 DEF RowBack
<1>19. A # {} => x.reason = "committee" BY <1>1, <1>7, <1>14 DEF RecordOK
<1>20. A = {} => z = x BY <1>10 DEF Shrinks
<1>21. CASE p < f
  <2>1. ASSUME z.reason = "other" \/ (z.lastHeight # Null /\ z.lastHeight <= p) PROVE Same(z, y, f)
    <3>1. CASE A = {}
      <4>1. z = x BY <1>20, <3>1
      <4> QED BY <1>10, <1>21, <2>1, <4>1 DEF RowBack
    <3>2. CASE A # {}
      <4>1. z.lastHeight # Null /\ z.lastHeight <= p BY <1>17, <1>19, <2>1, <3>2
      <4>2. B # {} BY <1>10, <3>2, <4>1 DEF Shrinks
      <4>3. PICK r \in B : r.height = z.lastHeight BY <1>10, <3>2, <4>2 DEF Shrinks
      <4>4. r \in R BY <1>3 DEF RecordsUpTo
      <4>5. r.height > f /\ r.height \in Nat BY <1>7, <4>4
      <4> QED BY <1>21, <4>1, <4>3, <4>5
    <3> QED BY <3>1, <3>2
  <2>2. ~(p >= f) BY <1>21
  <2>3. RowBack(z, E, D, f, p, y) BY <1>17, <1>18, <2>1, <2>2 DEF RowBack
  <2> QED BY <1>3, <1>6, <1>11, <2>3
<1>22. CASE p >= f
  <2>1. /\ x.count - Cardinality(C) = y.count
        /\ C = {} => Same(x, y, f)
        /\ C # {} => LastUpTo(D, f, y.lastHeight)
    BY <1>10, <1>22 DEF RowBack
  <2>2. \A o \in C : (\A e \in C : o.height <= e.height) => y.new = o.old BY <1>10, <1>22 DEF RowBack
  <2>3. z.count - Cardinality(E) = y.count BY <1>9, <1>13, <1>17, <2>1
  <2>4. ASSUME E = {} PROVE Same(z, y, f)
    <3>1. A = C BY <1>13, <2>4
    <3>2. CASE A = {}
      <4>1. z = x BY <1>20, <3>2
      <4> QED BY <2>1, <3>1, <3>2, <4>1
    <3>3. CASE A # {}
      <4>1. PICK o \in A : (\A e \in A : o.height <= e.height) /\ z.new = o.old BY <1>10, <3>3 DEF Shrinks
      <4>2. y.new = z.new BY <2>2, <3>1, <4>1
      <4>3. y.count = z.count BY <1>17, <2>1, <3>1
      <4>4. B = D
        <5>1. \A r \in D : r \in B BY <1>3, <1>5, <1>7 DEF RecordsUpTo
        <5>2. ASSUME NEW r \in B PROVE r \in D
          <6>1. r \in R /\ r.height <= q /\ r.height \in Nat BY <1>3, <1>7 DEF RecordsUpTo
          <6>2. o \in R /\ o.row = i /\ o.height > q BY <1>14, <4>1
          <6>3. r.row = i \/ r.height <= s[i].height BY <6>1, <6>2, OnlyRow
          <6>4. r.row = i => r.height <= p
            <7>1. r.row = i /\ r.height > p => r \in C BY <1>4, <6>1 DEF RecordsAbove
            <7>2. r \notin C BY <1>14, <3>1, <6>1
            <7> QED BY <6>1, <7>1, <7>2
          <6>5. r.height <= p BY <1>1, <1>9, <6>1, <6>3, <6>4
          <6> QED BY <1>5, <6>1, <6>5 DEF RecordsUpTo
        <5> QED BY <5>1, <5>2
      <4>5. LastUpTo(D, f, y.lastHeight) BY <2>1, <3>1, <3>3
      <4>6. z.lastHeight = y.lastHeight \/ (z.lastHeight = Null /\ y.lastHeight <= f)
        <5>1. CASE D = {}
          <6>1. z.lastHeight = Null BY <1>10, <3>3, <4>4, <5>1 DEF Shrinks
          <6>2. y.lastHeight <= f BY <4>5, <5>1 DEF LastUpTo
          <6> QED BY <6>1, <6>2
        <5>2. CASE D # {}
          <6>1. PICK r \in D : r.height = y.lastHeight BY <4>5, <5>2 DEF LastUpTo
          <6>2. PICK e \in D : e.height = z.lastHeight BY <1>10, <3>3, <4>4, <5>2 DEF Shrinks
          <6>3. r.height <= z.lastHeight BY <1>10, <3>3, <4>4, <5>2 DEF Shrinks
          <6>4. e.height <= y.lastHeight BY <4>5, <5>2 DEF LastUpTo
          <6> QED BY <1>9, <6>1, <6>2, <6>3, <6>4
        <5> QED BY <5>1, <5>2
      <4> QED BY <1>8, <1>17, <1>18, <4>2, <4>3, <4>6, SameFields
    <3> QED BY <3>2, <3>3
  <2>5. ASSUME NEW o \in E, \A e \in E : o.height <= e.height PROVE y.new = o.old
    <3>1. o \in C /\ o.height <= q /\ o.height \in Nat BY <1>7, <1>15, <1>16
    <3>2. ASSUME NEW e \in C PROVE o.height <= e.height
      <4>1. CASE e \in A
        <5>1. e.height > q /\ e.height \in Nat BY <1>7, <1>14, <4>1
        <5> QED BY <3>1, <5>1
      <4>2. CASE e \notin A BY <1>13, <2>5, <4>2
      <4> QED BY <4>1, <4>2
    <3> QED BY <2>2, <3>1, <3>2
  <2>6. E # {} => LastUpTo(D, f, y.lastHeight) BY <1>16, <2>1
  <2>7. ~(p < f) BY <1>22
  <2>8. RowBack(z, E, D, f, p, y) BY <1>17, <1>18, <2>3, <2>4, <2>5, <2>6, <2>7 DEF RowBack
  <2> QED BY <1>3, <1>6, <1>11, <2>8
<1> QED BY <1>21, <1>22

\* The rows go back to the same rows after a reset to a block that is not below
\* the floor.
LEMMA ResetBack ==
    ASSUME NEW s, NEW R, NEW f \in Nat, NEW h \in Nat, RowsInv(s, R, f, h), NEW q \in Nat, f <= q,
           NEW w, ResetsTo(s, R, q, w), NEW p \in Nat, p <= q, NEW t \in Seq(Row), Back(s, R, f, p, t)
    PROVE  Back(w, RecordsUpTo(R, q), f, p, t)
<1>1. s \in Seq(Row) /\ Len(s) \in Nat /\ Len(t) \in Nat BY DEF RowsInv
<1>2. w \in Seq(Row) /\ Len(w) \in Nat /\ Len(w) <= Len(s) BY <1>1 DEF ResetsTo
<1>3. \A i \in 1..Len(w) : i \in 1..Len(s) /\ w[i].height = s[i].height BY <1>1, <1>2 DEF ResetsTo, Shrinks
<1>4. Len(t) <= Len(w)
  <2>1. CASE Len(t) = 0 BY <1>1, <1>2, <2>1
  <2>2. CASE Len(t) # 0
    <3>1. Len(t) \in 1..Len(s) BY <1>1, <2>2 DEF Back
    <3>2. s[Len(t)].height <= p BY <1>1, <3>1 DEF Back
    <3>3. s[Len(t)] \in Row BY <1>1, <3>1
    <3>4. s[Len(t)].height \in Nat BY <3>3, RowFields
    <3>5. s[Len(t)].height <= q BY <3>2, <3>4
    <3> QED BY <3>1, <3>5 DEF ResetsTo
  <2> QED BY <2>1, <2>2
<1>5. \A i \in 1..Len(w) : i <= Len(t) <=> w[i].height <= p BY <1>3 DEF Back
<1>6. ASSUME NEW i \in 1..Len(t)
      PROVE  RowBack(w[i], RecordsAbove(RecordsUpTo(R, q), i, p), RecordsUpTo(RecordsUpTo(R, q), p), f, p, t[i])
  <2>1. PICK z : z = w[i] OBVIOUS
  <2>2. PICK y : y = t[i] OBVIOUS
  <2>3. i \in 1..Len(w) /\ i \in 1..Len(s) BY <1>1, <1>2, <1>4
  <2>4. s[i].height <= p BY <1>1, <2>3 DEF Back
  <2>5. Shrinks(s[i], RecordsAbove(R, i, q), RecordsUpTo(R, q), z) BY <2>1, <2>3 DEF ResetsTo
  <2>6. y \in Row /\ RowBack(s[i], RecordsAbove(R, i, p), RecordsUpTo(R, p), f, p, y) BY <2>2 DEF Back
  <2>7. RowBack(z, RecordsAbove(RecordsUpTo(R, q), i, p), RecordsUpTo(RecordsUpTo(R, q), p), f, p, y)
    BY <2>3, <2>4, <2>5, <2>6, ResetRowBack
  <2> QED BY <2>1, <2>2, <2>7
<1> QED BY <1>4, <1>5, <1>6 DEF Back

\* The rows after a reset below the floor that no staying row has grown after.
LEMMA DeepResetRows ==
    ASSUME NEW s, NEW R, NEW f \in Nat, NEW h \in Nat, RowsInv(s, R, f, h), NEW q \in Nat, q < f,
           NEW w, ResetsTo(s, R, q, w), \A i \in 1..Len(s) : s[i].height <= q => ~(s[i].lastHeight > q)
    PROVE  /\ RecordsUpTo(R, q) = {} /\ \A i \in 1..Len(w) : w[i] = s[i] /\ i \in 1..Len(s)
           /\ RowsInv(w, {}, q, q)
<1>1. s \in Seq(Row) /\ Len(s) \in Nat BY DEF RowsInv
<1>2. w \in Seq(Row) /\ Len(w) \in Nat /\ Len(w) <= Len(s) BY <1>1 DEF ResetsTo
<1>3. \A r \in R : r.height \in Nat /\ r.height > f /\ RecordOK(r, s) BY RecordFields
<1>4. RecordsUpTo(R, q) = {} BY <1>3 DEF RecordsUpTo
<1>6. ASSUME NEW i \in 1..Len(w) PROVE w[i] = s[i] /\ i \in 1..Len(s) /\ s[i] \in Row /\ RowOK(s[i], i, {}, q, q)
  <2>1. i \in 1..Len(s) /\ s[i] \in Row /\ s[i].height <= q BY <1>1, <1>2 DEF ResetsTo
  <2>2. s[i].lastHeight \in Nat /\ s[i].height \in Nat /\ s[i].count \in Nat BY <2>1, RowFields
  <2>3. s[i].lastHeight <= q /\ ~(s[i].height > q) /\ ~(s[i].lastHeight > q) BY <2>1, <2>2
  <2>4. RecordsAbove(R, i, q) = {}
    <3> SUFFICES ASSUME NEW r \in R, r.row = i, r.height > q PROVE FALSE BY DEF RecordsAbove
    <3>1. r.height <= s[i].lastHeight /\ r.height \in Nat BY <1>3 DEF RecordOK
    <3> QED BY <2>2, <2>3, <3>1
  <2>5. w[i] = s[i] BY <2>4 DEF ResetsTo, Shrinks
  <2>6. RowOK(s[i], i, R, f, h) BY <2>1 DEF RowsInv
  <2>7. Cardinality(RecordsAbove({}, i, 0)) <= s[i].count
    <3>1. Cardinality({}) = 0 BY FS_EmptySet
    <3>2. RecordsAbove({}, i, 0) = {} BY DEF RecordsAbove
    <3>3. 0 <= s[i].count BY <2>2
    <3> QED BY <3>1, <3>2, <3>3
  <2>8. RowOK(s[i], i, {}, q, q) BY <2>1, <2>3, <2>6, <2>7 DEF RowOK
  <2> QED BY <2>1, <2>5, <2>8
<1>7. \A i, j \in 1..Len(w) : i < j => w[i].height <= w[j].height BY <1>6 DEF RowsInv
<1>8. IsFiniteSet({}) BY FS_EmptySet
<1>9. \A i \in 1..Len(w) : RowOK(w[i], i, {}, q, q) BY <1>6
<1>10. RowsInv(w, {}, q, q) BY <1>2, <1>7, <1>8, <1>9 DEF RowsInv
<1> QED BY <1>4, <1>6, <1>10

\* So they go back to the same rows, if no last height of them was lost before.
LEMMA DeepResetBack ==
    ASSUME NEW s, NEW R, NEW f \in Nat, NEW h \in Nat, RowsInv(s, R, f, h), NEW q \in Nat, q < f,
           NEW w, ResetsTo(s, R, q, w), \A i \in 1..Len(s) : s[i].height <= q => ~(s[i].lastHeight > q),
           \A i \in 1..Len(s) : ~(s[i].reason = "committee" /\ s[i].height <= q /\ s[i].lastHeight = Null),
           NEW p \in Nat, p <= q, NEW t \in Seq(Row), Back(s, R, f, p, t),
           \A i \in 1..Len(t) : t[i].reason = "other" => t[i].lastHeight = Null
    PROVE  Back(w, {}, q, p, t)
<1>1. s \in Seq(Row) /\ Len(s) \in Nat /\ Len(t) \in Nat BY DEF RowsInv
<1>2. w \in Seq(Row) /\ Len(w) \in Nat /\ Len(w) <= Len(s) BY <1>1 DEF ResetsTo
<1>3. \A i \in 1..Len(w) : w[i] = s[i] /\ i \in 1..Len(s) BY DeepResetRows
<1>4. Len(t) <= Len(w)
  <2>1. CASE Len(t) = 0 BY <1>1, <1>2, <2>1
  <2>2. CASE Len(t) # 0
    <3>1. Len(t) \in 1..Len(s) BY <1>1, <2>2 DEF Back
    <3>2. s[Len(t)].height <= p BY <1>1, <3>1 DEF Back
    <3>3. s[Len(t)] \in Row BY <1>1, <3>1
    <3>4. s[Len(t)].height \in Nat BY <3>3, RowFields
    <3>5. s[Len(t)].height <= q BY <3>2, <3>4
    <3> QED BY <3>1, <3>5 DEF ResetsTo
  <2> QED BY <2>1, <2>2
<1>5. \A i \in 1..Len(w) : i <= Len(t) <=> w[i].height <= p BY <1>3 DEF Back
<1>6. ASSUME NEW i \in 1..Len(t)
      PROVE  RowBack(w[i], RecordsAbove({}, i, p), RecordsUpTo({}, p), q, p, t[i])
  <2>1. PICK x : x = s[i] OBVIOUS
  <2>2. PICK y : y = t[i] OBVIOUS
  <2>3. i \in 1..Len(w) /\ i \in 1..Len(s) BY <1>1, <1>2, <1>4
  <2>4. x = w[i] /\ x \in Row /\ y \in Row BY <1>1, <1>3, <2>1, <2>2, <2>3
  <2>5. /\ x.lastHeight \in Nat /\ y.lastHeight \in Nat /\ x.count \in Nat /\ x.height \in Nat
        /\ x.reason \in {"other", "committee"}
    BY <2>4, RowFields
  <2>6. RowBack(x, RecordsAbove(R, i, p), RecordsUpTo(R, p), f, p, y) BY <2>1, <2>2 DEF Back
  <2>7. x.reason = y.reason /\ x.old = y.old /\ x.height = y.height /\ x.share = y.share BY <2>6 DEF RowBack
  <2>8. x.height <= q
    <3>1. x.height <= p BY <1>1, <2>1, <2>3 DEF Back
    <3> QED BY <2>5, <3>1
  <2>9. x.reason = "committee" => x.lastHeight # Null BY <2>1, <2>3, <2>8
  <2>10. ASSUME x.reason = "other" \/ (x.lastHeight # Null /\ x.lastHeight <= p) PROVE Same(x, y, q)
    <3>1. p < f BY <1>1
    <3>2. Same(x, y, f) BY <2>6, <2>10, <3>1 DEF RowBack
    <3>3. /\ x.new = y.new /\ x.count = y.count
          /\ x.lastHeight = y.lastHeight \/ (x.lastHeight = Null /\ y.lastHeight <= f)
      BY <2>4, <3>2, SameFields
    <3>4. x.lastHeight = Null => y.lastHeight = Null BY <2>2, <2>5, <2>7, <2>9
    <3>5. x.lastHeight = y.lastHeight BY <3>3, <3>4
    <3> QED BY <2>4, <2>7, <3>3, <3>5, SameFields
  <2>11. RecordsAbove({}, i, p) = {} /\ RecordsUpTo({}, p) = {} BY DEF RecordsAbove, RecordsUpTo
  <2>12. CASE p < q
    <3>1. ~(p >= q) BY <2>12
    <3>2. RowBack(x, {}, {}, q, p, y) BY <2>7, <2>10, <3>1 DEF RowBack
    <3> QED BY <2>2, <2>4, <2>11, <3>2
  <2>13. CASE p = q
    <3>1. x.lastHeight <= q
      <4>1. ~(x.lastHeight > q) BY <2>1, <2>3, <2>8
      <4> QED BY <2>5, <4>1
    <3>2. x.reason = "other" \/ (x.lastHeight # Null /\ x.lastHeight <= p) BY <2>5, <2>9, <2>13, <3>1
    <3>3. Same(x, y, q) BY <2>10, <3>2
    <3>4. x.count = y.count BY <2>4, <3>3, SameFields
    <3>5. Cardinality({}) = 0 BY FS_EmptySet
    <3>6. x.count - Cardinality({}) = y.count BY <2>5, <3>4, <3>5
    <3>7. ~(p < q) BY <2>13
    <3>8. RowBack(x, {}, {}, q, p, y) BY <2>7, <3>3, <3>6, <3>7 DEF RowBack
    <3> QED BY <2>2, <2>4, <2>11, <3>8
  <2> QED BY <2>12, <2>13
<1> QED BY <1>4, <1>5, <1>6 DEF Back

\* After the last block the rows are those of the block, but for last heights
\* that are not known any more.
LEMMA BackNow ==
    ASSUME NEW s, NEW R, NEW f \in Nat, NEW h \in Nat, f <= h, RowsInv(s, R, f, h), NEW t \in Seq(Row), Back(s, R, f, h, t)
    PROVE  /\ Len(s) = Len(t)
           /\ \A i \in 1..Len(s) : /\ Same(s[i], t[i], f)
                                   /\ s[i] \in Row /\ t[i] \in Row /\ s[i].old = t[i].old /\ s[i].new = t[i].new
<1>1. s \in Seq(Row) /\ Len(s) \in Nat /\ Len(t) \in Nat BY DEF RowsInv
<1>2. \A r \in R : r.height \in Nat /\ r.height <= h BY RecordFields
<1>3. \A i \in 1..Len(s) : i <= Len(t) BY DEF RowsInv, RowOK, Back
<1>4. Len(s) = Len(t)
  <2>1. Len(t) <= Len(s) BY DEF Back
  <2>2. CASE Len(s) = 0 BY <1>1, <2>1, <2>2
  <2>3. CASE Len(s) # 0
    <3>1. Len(s) \in 1..Len(s) BY <1>1, <2>3
    <3> QED BY <1>1, <1>3, <2>1, <3>1
  <2> QED BY <2>2, <2>3
<1>5. ASSUME NEW i \in 1..Len(s)
      PROVE  /\ Same(s[i], t[i], f)
             /\ s[i] \in Row /\ t[i] \in Row /\ s[i].old = t[i].old /\ s[i].new = t[i].new
  <2>1. RecordsAbove(R, i, h) = {} BY <1>2 DEF RecordsAbove
  <2>2. i \in 1..Len(t) BY <1>4
  <2>3. RowBack(s[i], RecordsAbove(R, i, h), RecordsUpTo(R, h), f, h, t[i]) BY <2>2 DEF Back
  <2>4. h >= f OBVIOUS
  <2>5. Same(s[i], t[i], f) BY <2>1, <2>3, <2>4 DEF RowBack
  <2>6. s[i] \in Row /\ t[i] \in Row BY <1>1, <2>2
  <2>7. s[i].old = t[i].old /\ s[i].new = t[i].new BY <2>5, <2>6, SameFields
  <2> QED BY <2>5, <2>6, <2>7
<1> QED BY <1>4, <1>5

\* So they chain as those of the block do.
LEMMA ChainedNow ==
    ASSUME NEW s, NEW R, NEW f \in Nat, NEW h \in Nat, f <= h, RowsInv(s, R, f, h), NEW t \in Seq(Row), Back(s, R, f, h, t),
           NEW b, Chained(t, b)
    PROVE  Chained(s, b)
<1>1. Len(s) = Len(t) /\ \A i \in 1..Len(s) : s[i].old = t[i].old /\ s[i].new = t[i].new BY BackNow
<1>2. s \in Seq(Row) /\ Len(s) \in Nat BY DEF RowsInv
<1>3. ASSUME NEW i \in 2..Len(s) PROVE s[i].old = s[i - 1].new
  <2>1. i \in 1..Len(s) /\ i - 1 \in 1..Len(s) BY <1>2
  <2>2. t[i].old = t[i - 1].new BY <1>1 DEF Chained
  <2> QED BY <1>1, <2>1, <2>2
<1>4. s # <<>> => s[Len(s)].new = b
  <2> SUFFICES ASSUME s # <<>> PROVE s[Len(s)].new = b OBVIOUS
  <2>1. Len(s) # 0 BY <1>2
  <2>2. Len(s) \in 1..Len(s) BY <1>2, <2>1
  <2>3. t # <<>> BY <1>1, <2>1
  <2>4. t[Len(t)].new = b BY <2>3 DEF Chained
  <2> QED BY <1>1, <2>2, <2>4
<1> QED BY <1>3, <1>4 DEF Chained

\* The rows w of block h, with the records K, follow the rows s of the block g
\* before, with the records R.
Follow(s, R, f, b, g, w, K, k, c, h) ==
    \A u \in Seq(Row) : SnapOK(s, R, f, g, u, b) =>
        /\ SnapOK(w, K, k, h, w, c)
        /\ \A p \in 0..g, t \in Seq(Row) : \A d : SnapOK(s, R, f, p, t, d) => SnapOK(w, K, k, p, t, d)

\* A block is saved for one address: w are its rows, M its records and c its
\* balance, and the records above k are kept.
LEMMA SaveAddress ==
    ASSUME NEW s, NEW R, NEW f \in Nat, NEW g \in Nat, NEW h \in Nat, f <= g, h = g + 1,
           RowsInv(s, R, f, g), NEW b, NEW w, NEW M, NEW c, Saved(s, R, b, w, M, c, f, h),
           NEW k \in Nat, f <= k, k <= h
    PROVE  LET K == {r \in M : r.height > k}
           IN  RowsInv(w, K, k, h) /\ Follow(s, R, f, b, g, w, K, k, c, h)
<1>1. PICK K : K = {r \in M : r.height > k} OBVIOUS
<1>2. RowsInv(w, M, f, h) BY DEF Saved
<1>3. RowsInv(w, K, k, h) BY <1>1, <1>2, DropRows
<1>4. ASSUME NEW u \in Seq(Row), SnapOK(s, R, f, g, u, b)
      PROVE  /\ SnapOK(w, K, k, h, w, c)
             /\ \A p \in 0..g, t \in Seq(Row) : \A d : SnapOK(s, R, f, p, t, d) => SnapOK(w, K, k, p, t, d)
  <2>1. Back(s, R, f, g, u) /\ Chained(u, b) BY <1>4 DEF SnapOK
  <2>2. Chained(s, b) BY <2>1, ChainedNow
  <2>3. Chained(w, c) BY <2>2 DEF Saved
  <2>4. Back(w, K, k, h, w) BY <1>3, NewBack
  <2>5. \A i \in 1..Len(w) : w[i].reason = "other" => w[i].lastHeight = Null BY <1>3 DEF RowsInv, RowOK
  <2>6. SnapOK(w, K, k, h, w, c) BY <2>3, <2>4, <2>5 DEF SnapOK
  <2>7. ASSUME NEW p \in 0..g, NEW t \in Seq(Row), NEW d, SnapOK(s, R, f, p, t, d) PROVE SnapOK(w, K, k, p, t, d)
    <3>1. Back(s, R, f, p, t) BY <2>7 DEF SnapOK
    <3>2. p \in Nat /\ p < h OBVIOUS
    <3>3. Back(w, M, f, p, t) BY <2>2, <3>1, <3>2 DEF Saved
    <3>4. Back(w, K, k, p, t) BY <1>1, <1>2, <3>2, <3>3, DropBack
    <3> QED BY <2>7, <3>4 DEF SnapOK
  <2> QED BY <2>6, <2>7
<1>5. Follow(s, R, f, b, g, w, K, k, c, h) BY <1>4 DEF Follow
<1> QED BY <1>1, <1>3, <1>5

\* A reset to block q for one address: k is the floor after it.
LEMMA ResetAddress ==
    ASSUME NEW s, NEW R, NEW f \in Nat, NEW h \in Nat, RowsInv(s, R, f, h), NEW q \in Nat, q < h,
           NEW w, ResetsTo(s, R, q, w), NEW k \in Nat, k = (IF q < f THEN q ELSE f),
           q < f => \A i \in 1..Len(s) : s[i].height <= q => ~(s[i].lastHeight > q)
    PROVE  /\ RowsInv(w, RecordsUpTo(R, q), k, q)
           /\ (q < f => \A i \in 1..Len(s) :
                          ~(s[i].reason = "committee" /\ s[i].height <= q /\ s[i].lastHeight = Null))
              => \A p \in 0..q, t \in Seq(Row) : \A d : SnapOK(s, R, f, p, t, d) => SnapOK(w, RecordsUpTo(R, q), k, p, t, d)
<1>1. CASE f <= q
  <2>1. k = f BY <1>1
  <2>2. RowsInv(w, RecordsUpTo(R, q), f, q) BY <1>1, ResetRowsInv
  <2>3. ASSUME NEW p \in 0..q, NEW t \in Seq(Row), NEW d, SnapOK(s, R, f, p, t, d)
        PROVE  SnapOK(w, RecordsUpTo(R, q), f, p, t, d)
    <3>1. Back(s, R, f, p, t) BY <2>3 DEF SnapOK
    <3>2. p \in Nat /\ p <= q OBVIOUS
    <3>3. Back(w, RecordsUpTo(R, q), f, p, t) BY <1>1, <3>1, <3>2, ResetBack
    <3> QED BY <2>3, <3>3 DEF SnapOK
  <2> QED BY <2>1, <2>2, <2>3
<1>2. CASE q < f
  <2>1. k = q BY <1>2
  <2>2. \A i \in 1..Len(s) : s[i].height <= q => ~(s[i].lastHeight > q) BY <1>2
  <2>3. RecordsUpTo(R, q) = {} /\ RowsInv(w, {}, q, q) BY <1>2, <2>2, DeepResetRows
  <2>4. ASSUME \A i \in 1..Len(s) : ~(s[i].reason = "committee" /\ s[i].height <= q /\ s[i].lastHeight = Null),
               NEW p \in 0..q, NEW t \in Seq(Row), NEW d, SnapOK(s, R, f, p, t, d)
        PROVE  SnapOK(w, {}, q, p, t, d)
    <3>1. Back(s, R, f, p, t) BY <2>4 DEF SnapOK
    <3>2. \A i \in 1..Len(t) : t[i].reason = "other" => t[i].lastHeight = Null BY <2>4 DEF SnapOK
    <3>3. p \in Nat /\ p <= q OBVIOUS
    <3>4. Back(w, {}, q, p, t) BY <1>2, <2>2, <2>4, <3>1, <3>2, <3>3, DeepResetBack
    <3> QED BY <2>4, <3>4 DEF SnapOK
  <2> QED BY <1>2, <2>1, <2>3, <2>4
<1> QED BY <1>1, <1>2

\* The empty database satisfies the inductive invariant.
LEMMA InitRewardsInv == CommitteeInit => RewardsInv
<1> SUFFICES ASSUME CommitteeInit PROVE RewardsInv OBVIOUS
<1>1. 0 \in 0..MaxRewardHeight /\ 0 \in 0..(2 * MaxSaves) /\ 0 \in 0..MaxSaves BY CommitteeRewardsAssumption
<1>2. RowsInv(<<>>, {}, 0, 0)
  <2>1. IsFiniteSet({}) BY FS_EmptySet
  <2>2. <<>> \in Seq(Row) /\ Len(<<>>) = 0 /\ 1..0 = {} OBVIOUS
  <2> QED BY <2>1, <2>2 DEF RowsInv
<1>3. Back(<<>>, {}, 0, 0, <<>>)
  <2>1. Len(<<>>) = 0 /\ 1..0 = {} OBVIOUS
  <2> QED BY <2>1 DEF Back
<1>4. SnapOK(<<>>, {}, 0, 0, <<>>, 0)
  <2>1. Len(<<>>) = 0 /\ 1..0 = {} /\ 2..0 = {} OBVIOUS
  <2> QED BY <1>3, <2>1 DEF SnapOK, Chained
<1>5. /\ lastSaved = 0 /\ rowFloor = 0 /\ saves = 0 /\ misled = FALSE
      /\ rows = [a \in Addresses |-> <<>>] /\ history = [a \in Addresses |-> {}]
      /\ state = [h \in 0..MaxRewardHeight |-> [a \in Addresses |-> 0]]
      /\ rowSnap = [h \in 0..MaxRewardHeight |-> [a \in Addresses |-> <<>>]]
  BY DEF CommitteeInit
<1>6. rowSnap \in [0..MaxRewardHeight -> [Addresses -> Seq(Row)]]
  <2>1. <<>> \in Seq(Row) OBVIOUS
  <2> QED BY <1>5, <2>1
<1>7. state \in [0..MaxRewardHeight -> [Addresses -> 0..(2 * MaxSaves)]] BY <1>1, <1>5
<1>8. \A a \in Addresses : RowsInv(rows[a], history[a], rowFloor, lastSaved) BY <1>2, <1>5
<1>9. \A a \in Addresses, p \in 0..lastSaved : SnapOK(rows[a], history[a], rowFloor, p, rowSnap[p][a], state[p][a])
  <2> SUFFICES ASSUME NEW a \in Addresses, NEW p \in 0..lastSaved
               PROVE  SnapOK(rows[a], history[a], rowFloor, p, rowSnap[p][a], state[p][a])
    OBVIOUS
  <2>1. p = 0 BY <1>5
  <2>2. rows[a] = <<>> /\ history[a] = {} /\ rowSnap[p][a] = <<>> /\ state[p][a] = 0 BY <1>1, <1>5, <2>1
  <2> QED BY <1>4, <1>5, <2>1, <2>2
<1>10. DOMAIN rows = Addresses /\ DOMAIN history = Addresses BY <1>5
<1>11. lastSaved = 0 /\ rowFloor = 0 /\ saves = 0 BY <1>5
<1>12. lastSaved \in 0..MaxRewardHeight /\ rowFloor \in 0..lastSaved /\ saves \in 0..MaxSaves BY <1>1, <1>11
<1>13. misled \in BOOLEAN BY <1>5
<1> QED BY <1>6, <1>7, <1>8, <1>9, <1>10, <1>12, <1>13 DEF RewardsInv

\* The balance after a block is one of its own or the one before.
LEMMA BalanceBound ==
    ASSUME NEW n \in 0..2, NEW b \in 0..(2 * MaxSaves), NEW m \in 0..MaxSaves, m < MaxSaves, NEW v, v = 2 * m
    PROVE  v \in Nat /\ BalanceAfter(n, b, v) \in 0..(2 * MaxSaves)
<1>1. m \in Nat /\ MaxSaves \in Nat /\ b \in Nat BY CommitteeRewardsAssumption
<1>2. v \in Nat /\ v + 2 <= 2 * MaxSaves BY <1>1
<1>3. CASE n = 0 BY <1>2, <1>3 DEF BalanceAfter
<1>4. CASE n # 0
  <2>1. BalanceAfter(n, b, v) = v + n BY <1>4 DEF BalanceAfter
  <2> QED BY <1>1, <1>2, <2>1
<1> QED BY <1>2, <1>3, <1>4

\* SaveBlock preserves the inductive invariant.
LEMMA SaveBlockRewardsInv ==
    ASSUME RewardsInv, NEW effects \in [Addresses -> Effects], NEW share \in Shares, SaveBlock(effects, share)
    PROVE  RewardsInv'
<1>1. PICK g : g = lastSaved OBVIOUS
<1>2. PICK h : h = lastSaved + 1 OBVIOUS
<1>3. PICK v : v = 2 * saves OBVIOUS
<1>4. PICK f : f = rowFloor OBVIOUS
<1>5. PICK k : k = IF h - BlocksCount > f THEN h - BlocksCount ELSE f OBVIOUS
<1>6. /\ g \in 0..MaxRewardHeight /\ f \in 0..g /\ saves \in 0..MaxSaves /\ misled \in BOOLEAN
      /\ state \in [0..MaxRewardHeight -> [Addresses -> 0..(2 * MaxSaves)]]
      /\ rowSnap \in [0..MaxRewardHeight -> [Addresses -> Seq(Row)]]
  BY <1>1, <1>4 DEF RewardsInv
<1>7. /\ h <= MaxRewardHeight /\ saves < MaxSaves /\ lastSaved' = h /\ misled' = misled /\ saves' = saves + 1
      /\ rowFloor' = k
  BY <1>2, <1>4, <1>5 DEF SaveBlock
<1>8. /\ g \in Nat /\ f \in Nat /\ h \in Nat /\ h = g + 1 /\ f <= g /\ k \in Nat /\ f <= k /\ k <= h
      /\ h \in 0..MaxRewardHeight
  BY <1>1, <1>2, <1>5, <1>6, <1>7, CommitteeRewardsAssumption
<1> DEFINE after(a) == SaveBalanceUpdates(rows[a], effects[a], h, state[g][a], v, share)
           N(a)     == CommitteeRecords(rows[a], effects[a], h, state[g][a], v, share)
           c(a)     == BalanceAfter(Len(effects[a]), state[g][a], v)
<1>9. rows' = [a \in Addresses |-> after(a)[Len(effects[a])]] BY <1>1, <1>2, <1>3 DEF SaveBlock
<1>10. history' = [a \in Addresses |-> KeptRecords(history[a] \cup N(a), h)] BY <1>1, <1>2, <1>3 DEF SaveBlock
<1>11. state' = [state EXCEPT ![h] = [a \in Addresses |-> c(a)]] BY <1>1, <1>2, <1>3 DEF SaveBlock
<1>12. rowSnap' = [rowSnap EXCEPT ![h] = rows'] BY <1>2 DEF SaveBlock
<1>13. \A a \in Addresses : Saved(rows[a], history[a], state[g][a], rows'[a], history[a] \cup N(a), c(a), f, h)
         \/ ~RowsInv(rows[a], history[a], f, h)
  <2> SUFFICES ASSUME NEW a \in Addresses, RowsInv(rows[a], history[a], f, h)
               PROVE  Saved(rows[a], history[a], state[g][a], rows'[a], history[a] \cup N(a), c(a), f, h)
    OBVIOUS
  <2>1. PICK s : s = rows[a] OBVIOUS
  <2>2. PICK R : R = history[a] OBVIOUS
  <2>3. PICK effect : effect = effects[a] OBVIOUS
  <2>4. PICK b : b = state[g][a] OBVIOUS
  <2>5. PICK t : t = SaveBalanceUpdates(s, effect, h, b, v, share) OBVIOUS
  <2>6. PICK K : K = CommitteeRecords(s, effect, h, b, v, share) OBVIOUS
  <2>7. effect \in Effects BY <2>3
  <2>8. b \in Nat /\ v \in Nat
    <3>1. b \in 0..(2 * MaxSaves) BY <1>6, <2>4
    <3>2. saves \in Nat BY <1>6
    <3> QED BY <1>3, <3>1, <3>2
  <2>9. RowsInv(s, R, f, h) BY <2>1, <2>2
  <2>10. \A r \in R : r.height # h
    <3>1. RowsInv(s, R, f, g) BY <1>1, <1>4, <2>1, <2>2 DEF RewardsInv
    <3>2. g < h BY <1>8
    <3> QED BY <1>8, <3>1, <3>2, NextBlockRows
  <2>11. h > 0 /\ f < h /\ f \in Nat /\ h \in Nat /\ h <= MaxRewardHeight BY <1>7, <1>8
  <2>12. Saved(s, R, b, t[Len(effect)], R \cup K, BalanceAfter(Len(effect), b, v), f, h)
    <3> HIDE DEF after, N, c
    <3> QED BY <2>5, <2>6, <2>7, <2>8, <2>9, <2>10, <2>11, BlockUpdates
  <2>13. rows'[a] = t[Len(effect)] BY <1>9, <2>1, <2>3, <2>4, <2>5
  <2>14. N(a) = K /\ c(a) = BalanceAfter(Len(effect), b, v) BY <2>1, <2>3, <2>4, <2>6
  <2> HIDE DEF after, N, c
  <2> QED BY <2>1, <2>2, <2>4, <2>12, <2>13, <2>14
<1>14. ASSUME NEW a \in Addresses PROVE c(a) \in 0..(2 * MaxSaves)
  <2>1. PICK n : n = Len(effects[a]) OBVIOUS
  <2>2. PICK b : b = state[g][a] OBVIOUS
  <2>3. effects[a] \in Effects OBVIOUS
  <2>4. n \in 0..2 BY <2>1, <2>3, EffectShapes
  <2>5. b \in 0..(2 * MaxSaves) BY <1>6, <2>2
  <2>6. PICK m : m = saves OBVIOUS
  <2>7. m \in 0..MaxSaves /\ m < MaxSaves /\ v = 2 * m BY <1>3, <1>6, <1>7, <2>6
  <2>8. BalanceAfter(n, b, v) \in 0..(2 * MaxSaves) BY <2>4, <2>5, <2>7, BalanceBound
  <2> QED BY <2>1, <2>2, <2>8
<1> HIDE DEF after, N, c
<1>15. ASSUME NEW a \in Addresses
       PROVE  /\ RowsInv(rows'[a], history'[a], k, h)
              /\ ~misled => /\ SnapOK(rows'[a], history'[a], k, h, rows'[a], c(a))
                            /\ \A p \in 0..g : SnapOK(rows'[a], history'[a], k, p, rowSnap[p][a], state[p][a])
  <2>1. PICK s : s = rows[a] OBVIOUS
  <2>2. PICK R : R = history[a] OBVIOUS
  <2>3. PICK b : b = state[g][a] OBVIOUS
  <2>4. PICK w : w = rows'[a] OBVIOUS
  <2>5. PICK M : M = N(a) OBVIOUS
  <2>6. PICK d : d = c(a) OBVIOUS
  <2>7. PICK K : K = history'[a] OBVIOUS
  <2>8. RowsInv(s, R, f, g) BY <1>1, <1>4, <2>1, <2>2 DEF RewardsInv
  <2>9. RowsInv(s, R, f, h) => Saved(s, R, b, w, R \cup M, d, f, h)
    BY <1>13, <2>1, <2>2, <2>3, <2>4, <2>5, <2>6
  <2>10. K = {r \in R \cup M : r.height > k}
    <3>1. K = {r \in R \cup M : r.height > h - BlocksCount}
      BY <1>10, <2>2, <2>5, <2>7 DEF KeptRecords
    <3>2. ASSUME NEW r \in R \cup M PROVE r.height > h - BlocksCount <=> r.height > k
      <4>1. RowsInv(s, R, f, h)
        <5>1. g < h BY <1>8
        <5> QED BY <1>8, <2>8, <5>1, NextBlockRows
      <4>2. PICK L : L = R \cup M OBVIOUS
      <4>3. RowsInv(w, L, f, h) BY <2>9, <4>1, <4>2 DEF Saved
      <4>4. r \in L BY <4>2
      <4>5. r.height \in Nat /\ r.height > f BY <1>8, <4>3, <4>4, RecordFields
      <4> QED BY <1>5, <1>8, <4>5, CommitteeRewardsAssumption
    <3> QED BY <3>1, <3>2
  <2>11. RowsInv(w, K, k, h) /\ Follow(s, R, f, b, g, w, K, k, d, h)
    <3>1. h = g + 1 /\ f <= g /\ f <= k /\ k <= h BY <1>8
    <3>2. g \in Nat /\ f \in Nat /\ h \in Nat /\ k \in Nat BY <1>8
    <3>3. PICK L : L = R \cup M OBVIOUS
    <3>4. Saved(s, R, b, w, L, d, f, h)
      <4>1. g < h BY <1>8
      <4>2. RowsInv(s, R, f, h) BY <1>8, <2>8, <4>1, NextBlockRows
      <4> QED BY <2>9, <3>3, <4>2
    <3>5. K = {r \in L : r.height > k} BY <2>10, <3>3
    <3> QED BY <2>8, <3>1, <3>2, <3>4, <3>5, SaveAddress
  <2>12. ASSUME ~misled
         PROVE  /\ SnapOK(w, K, k, h, w, d)
                /\ \A p \in 0..g : SnapOK(w, K, k, p, rowSnap[p][a], state[p][a])
    <3>1. \A p \in 0..g : SnapOK(s, R, f, p, rowSnap[p][a], state[p][a]) /\ rowSnap[p][a] \in Seq(Row)
      <4>1. \A p \in 0..g : SnapOK(s, R, f, p, rowSnap[p][a], state[p][a])
        BY <1>1, <1>4, <2>1, <2>2, <2>12 DEF RewardsInv
      <4>2. \A p \in 0..g : p \in 0..MaxRewardHeight BY <1>6, CommitteeRewardsAssumption
      <4> QED BY <1>6, <4>1, <4>2
    <3>2. g \in 0..g BY <1>8
    <3>3. SnapOK(s, R, f, g, rowSnap[g][a], b) /\ rowSnap[g][a] \in Seq(Row) BY <2>3, <3>1, <3>2
    <3> QED BY <2>11, <3>1, <3>3 DEF Follow
  <2> QED BY <2>4, <2>6, <2>7, <2>11, <2>12
<1>16. \A a \in Addresses : rows'[a] \in Seq(Row) BY <1>15 DEF RowsInv
<1>17. rowSnap' \in [0..MaxRewardHeight -> [Addresses -> Seq(Row)]]
  <2>1. rows' \in [Addresses -> Seq(Row)] BY <1>9, <1>16
  <2> QED BY <1>6, <1>12, <2>1
<1>18. state' \in [0..MaxRewardHeight -> [Addresses -> 0..(2 * MaxSaves)]]
  <2>1. [a \in Addresses |-> c(a)] \in [Addresses -> 0..(2 * MaxSaves)] BY <1>14
  <2> QED BY <1>6, <1>11, <2>1
<1>19. ASSUME ~misled', NEW a \in Addresses, NEW p \in 0..h
       PROVE  SnapOK(rows'[a], history'[a], k, p, rowSnap'[p][a], state'[p][a])
  <2>1. ~misled BY <1>7, <1>19
  <2>2. CASE p = h
    <3>1. rowSnap'[p][a] = rows'[a] BY <1>6, <1>8, <1>12, <2>2
    <3>2. state'[p][a] = c(a) BY <1>6, <1>8, <1>11, <2>2
    <3> QED BY <1>15, <2>1, <2>2, <3>1, <3>2
  <2>3. CASE p # h
    <3>1. p \in 0..g /\ p \in 0..MaxRewardHeight BY <1>6, <1>8, <2>3, CommitteeRewardsAssumption
    <3>2. rowSnap'[p] = rowSnap[p] /\ state'[p] = state[p] BY <1>6, <1>11, <1>12, <2>3, <3>1
    <3> QED BY <1>15, <2>1, <3>1, <3>2
  <2> QED BY <2>2, <2>3
<1>20. DOMAIN rows' = Addresses /\ DOMAIN history' = Addresses BY <1>9, <1>10
<1>21. /\ lastSaved' \in 0..MaxRewardHeight /\ rowFloor' \in 0..lastSaved'
       /\ saves' \in 0..MaxSaves /\ misled' \in BOOLEAN
  BY <1>6, <1>7, <1>8, CommitteeRewardsAssumption
<1> QED BY <1>7, <1>15, <1>17, <1>18, <1>19, <1>20, <1>21 DEF RewardsInv

\* ResetBalanceUpdatesTo preserves the inductive invariant.
LEMMA ResetRewardsInv ==
    ASSUME RewardsInv, NEW q \in 0..MaxRewardHeight, ResetBalanceUpdatesTo(q)
    PROVE  RewardsInv'
<1>1. PICK h : h = lastSaved OBVIOUS
<1>2. PICK f : f = rowFloor OBVIOUS
<1>3. PICK k : k = IF q < f THEN q ELSE f OBVIOUS
<1>4. /\ h \in 0..MaxRewardHeight /\ f \in 0..h /\ saves \in 0..MaxSaves /\ misled \in BOOLEAN
      /\ state \in [0..MaxRewardHeight -> [Addresses -> 0..(2 * MaxSaves)]]
      /\ rowSnap \in [0..MaxRewardHeight -> [Addresses -> Seq(Row)]]
  BY <1>1, <1>2 DEF RewardsInv
<1>5. q < h /\ ~Refused(q) /\ lastSaved' = q /\ rowFloor' = k /\ saves' = saves
  BY <1>1, <1>2, <1>3 DEF ResetBalanceUpdatesTo
<1>6. misled' = (misled \/ Overlooked(q)) BY DEF ResetBalanceUpdatesTo
<1>7. /\ q \in Nat /\ h \in Nat /\ h <= MaxRewardHeight /\ f \in Nat /\ k \in Nat /\ k <= q
  BY <1>3, <1>4, CommitteeRewardsAssumption
<1>8. rows' = [a \in Addresses |->
                 [i \in DOMAIN Staying(rows[a], q) |-> Shrunk(Staying(rows[a], q)[i], i, history[a], q)]]
  BY DEF ResetBalanceUpdatesTo
<1>9. history' = [a \in Addresses |-> RecordsUpTo(history[a], q)] BY DEF ResetBalanceUpdatesTo
<1>10. /\ state' = [e \in 0..MaxRewardHeight |-> state[IF e > q THEN 0 ELSE e]]
       /\ rowSnap' = [e \in 0..MaxRewardHeight |-> rowSnap[IF e > q THEN 0 ELSE e]]
  BY DEF ResetBalanceUpdatesTo
<1>11. \A a \in Addresses : RowsInv(rows[a], history[a], f, h) BY <1>1, <1>2 DEF RewardsInv
<1>12. \A a \in Addresses : ResetsTo(rows[a], history[a], q, rows'[a])
  <2> SUFFICES ASSUME NEW a \in Addresses PROVE ResetsTo(rows[a], history[a], q, rows'[a]) OBVIOUS
  <2>1. PICK s : s = rows[a] OBVIOUS
  <2>2. PICK R : R = history[a] OBVIOUS
  <2>3. RowsInv(s, R, f, h) BY <1>11, <2>1, <2>2
  <2>4. ResetsTo(s, R, q, [i \in DOMAIN Staying(s, q) |-> Shrunk(Staying(s, q)[i], i, R, q)])
    BY <1>7, <2>3, ResetRows
  <2> QED BY <1>8, <2>1, <2>2, <2>4
<1>13. ASSUME q < f, NEW a \in Addresses, NEW i \in 1..Len(rows[a]), rows[a][i].height <= q
       PROVE  ~(rows[a][i].lastHeight > q)
  <2>1. \A r \in Records : r.height > q
    <3> SUFFICES ASSUME NEW r \in Records PROVE r.height > q OBVIOUS
    <3>1. PICK d \in Addresses : r \in history[d] BY DEF Records
    <3>2. PICK s : s = rows[d] OBVIOUS
    <3>3. PICK R : R = history[d] OBVIOUS
    <3>4. RowsInv(s, R, f, h) /\ r \in R BY <1>11, <3>1, <3>2, <3>3
    <3>5. r.height \in Nat /\ r.height > f BY <1>7, <3>4, RecordFields
    <3> QED BY <1>7, <1>13, <3>5
  <2>2. ~GrownAfter(q) BY <1>5, <2>1 DEF Refused
  <2>3. rows[a] \in Seq(Row) BY <1>11 DEF RowsInv
  <2>4. i \in DOMAIN rows[a] BY <2>3
  <2> QED BY <1>13, <2>2, <2>4 DEF GrownAfter
<1>14. ASSUME ~misled'
       PROVE  ~misled /\ (q < f => \A a \in Addresses : \A i \in 1..Len(rows[a]) :
                ~(rows[a][i].reason = "committee" /\ rows[a][i].height <= q /\ rows[a][i].lastHeight = Null))
  <2>1. ~misled /\ ~Overlooked(q) BY <1>6, <1>14
  <2>2. ASSUME q < f, NEW a \in Addresses, NEW i \in 1..Len(rows[a])
        PROVE  ~(rows[a][i].reason = "committee" /\ rows[a][i].height <= q /\ rows[a][i].lastHeight = Null)
    <3>1. rows[a] \in Seq(Row) BY <1>11 DEF RowsInv
    <3>2. i \in DOMAIN rows[a] BY <3>1
    <3> QED BY <1>2, <2>1, <2>2, <3>2 DEF Overlooked
  <2> QED BY <2>1, <2>2
<1>15. ASSUME NEW a \in Addresses
       PROVE  /\ RowsInv(rows'[a], history'[a], k, q)
              /\ ~misled' => \A p \in 0..q : SnapOK(rows'[a], history'[a], k, p, rowSnap[p][a], state[p][a])
  <2>1. PICK s : s = rows[a] OBVIOUS
  <2>2. PICK R : R = history[a] OBVIOUS
  <2>3. PICK w : w = rows'[a] OBVIOUS
  <2>4. RowsInv(s, R, f, h) /\ ResetsTo(s, R, q, w) BY <1>11, <1>12, <2>1, <2>2, <2>3
  <2>5. q < f => \A i \in 1..Len(s) : s[i].height <= q => ~(s[i].lastHeight > q) BY <1>13, <2>1
  <2>6. /\ RowsInv(w, RecordsUpTo(R, q), k, q)
        /\ (q < f => \A i \in 1..Len(s) :
                       ~(s[i].reason = "committee" /\ s[i].height <= q /\ s[i].lastHeight = Null))
           => \A p \in 0..q, t \in Seq(Row) : \A d : SnapOK(s, R, f, p, t, d) => SnapOK(w, RecordsUpTo(R, q), k, p, t, d)
    <3>1. q \in Nat /\ f \in Nat /\ h \in Nat /\ k \in Nat /\ q < h BY <1>5, <1>7
    <3> QED BY <1>3, <2>4, <2>5, <3>1, ResetAddress
  <2>7. history'[a] = RecordsUpTo(R, q) BY <1>9, <2>2
  <2>8. ASSUME ~misled', NEW p \in 0..q PROVE SnapOK(w, RecordsUpTo(R, q), k, p, rowSnap[p][a], state[p][a])
    <3>1. ~misled BY <1>14, <2>8
    <3>2. q < f => \A i \in 1..Len(s) :
                     ~(s[i].reason = "committee" /\ s[i].height <= q /\ s[i].lastHeight = Null)
      BY <1>14, <2>1, <2>8
    <3>3. p \in 0..h /\ p \in 0..MaxRewardHeight BY <1>5, <1>7, CommitteeRewardsAssumption
    <3>4. SnapOK(s, R, f, p, rowSnap[p][a], state[p][a]) BY <1>1, <1>2, <2>1, <2>2, <3>1, <3>3 DEF RewardsInv
    <3>5. rowSnap[p][a] \in Seq(Row) BY <1>4, <3>3
    <3> QED BY <2>6, <3>2, <3>4, <3>5
  <2> QED BY <2>3, <2>6, <2>7, <2>8
<1>16. \A e \in 0..MaxRewardHeight : (IF e > q THEN 0 ELSE e) \in 0..MaxRewardHeight BY CommitteeRewardsAssumption
<1>17. /\ state' \in [0..MaxRewardHeight -> [Addresses -> 0..(2 * MaxSaves)]]
       /\ rowSnap' \in [0..MaxRewardHeight -> [Addresses -> Seq(Row)]]
  BY <1>4, <1>10, <1>16
<1>18. ASSUME ~misled', NEW a \in Addresses, NEW p \in 0..q
       PROVE  SnapOK(rows'[a], history'[a], k, p, rowSnap'[p][a], state'[p][a])
  <2>1. p \in 0..MaxRewardHeight /\ ~(p > q) BY <1>7, CommitteeRewardsAssumption
  <2>2. rowSnap'[p] = rowSnap[p] /\ state'[p] = state[p] BY <1>10, <2>1
  <2> QED BY <1>15, <1>18, <2>2
<1>19. DOMAIN rows' = Addresses /\ DOMAIN history' = Addresses BY <1>8, <1>9
<1>20. lastSaved' \in 0..MaxRewardHeight /\ rowFloor' \in 0..lastSaved' /\ saves' \in 0..MaxSaves
  BY <1>4, <1>5, <1>7
<1>21. misled' \in BOOLEAN BY <1>4, <1>6 DEF Overlooked
<1> QED BY <1>5, <1>15, <1>17, <1>18, <1>19, <1>20, <1>21 DEF RewardsInv

\* The inductive invariant says that the rows are exact.
LEMMA RewardsInvExact == RewardsInv => CommitteeRowsAreExact
<1> SUFFICES ASSUME RewardsInv PROVE CommitteeRowsAreExact OBVIOUS
<1>1. /\ lastSaved \in 0..MaxRewardHeight /\ rowFloor \in 0..lastSaved /\ saves \in 0..MaxSaves
      /\ state \in [0..MaxRewardHeight -> [Addresses -> 0..(2 * MaxSaves)]]
      /\ rowSnap \in [0..MaxRewardHeight -> [Addresses -> Seq(Row)]]
  BY DEF RewardsInv
<1>2. \A a \in Addresses : RowsInv(rows[a], history[a], rowFloor, lastSaved) BY DEF RewardsInv
<1>3. \A a \in Addresses : rows[a] \in Seq(Row) /\ Len(rows[a]) \in Nat /\ DOMAIN rows[a] = 1..Len(rows[a])
  BY <1>2 DEF RowsInv
<1>4. lastSaved \in Nat /\ rowFloor \in Nat /\ rowFloor <= lastSaved BY <1>1, CommitteeRewardsAssumption
<1>5. CommitteeTypeOK
  <2>1. \A a \in Addresses : \A i \in DOMAIN rows[a] : rows[a][i] \in Row BY <1>3
  <2>2. ASSUME NEW a \in Addresses
        PROVE  history[a] \subseteq [height : 1..lastSaved, old : Nat, row : DOMAIN rows[a]]
    <3>1. history[a] \subseteq [height : (rowFloor + 1)..lastSaved, old : Nat, row : 1..Len(rows[a])]
      BY <1>2 DEF RowsInv
    <3>2. (rowFloor + 1)..lastSaved \subseteq 1..lastSaved BY <1>4
    <3>3. DOMAIN rows[a] = 1..Len(rows[a]) BY <1>3
    <3> QED BY <3>1, <3>2, <3>3
  <2> QED BY <1>1, <2>1, <2>2 DEF CommitteeTypeOK
<1>6. ASSUME ~misled, NEW a \in Addresses
      PROVE  /\ Len(rows[a]) = Len(rowSnap[lastSaved][a]) /\ rowSnap[lastSaved][a] \in Seq(Row)
             /\ \A i \in 1..Len(rows[a]) : Same(rows[a][i], rowSnap[lastSaved][a][i], rowFloor)
             /\ Chained(rows[a], state[lastSaved][a])
  <2>1. PICK s : s = rows[a] OBVIOUS
  <2>2. PICK R : R = history[a] OBVIOUS
  <2>3. PICK t : t = rowSnap[lastSaved][a] OBVIOUS
  <2>4. PICK b : b = state[lastSaved][a] OBVIOUS
  <2>5. PICK h : h = lastSaved OBVIOUS
  <2>6. PICK f : f = rowFloor OBVIOUS
  <2>7. RowsInv(s, R, f, h) /\ h \in Nat /\ f \in Nat /\ f <= h BY <1>2, <1>4, <2>1, <2>2, <2>5, <2>6
  <2>8. t \in Seq(Row) BY <1>1, <2>3
  <2>9. SnapOK(s, R, f, h, t, b)
    <3>1. lastSaved \in 0..lastSaved BY <1>4
    <3> QED BY <1>6, <2>1, <2>2, <2>3, <2>4, <2>5, <2>6, <3>1 DEF RewardsInv
  <2>10. Back(s, R, f, h, t) /\ Chained(t, b) BY <2>9 DEF SnapOK
  <2>11. Len(s) = Len(t) /\ \A i \in 1..Len(s) : Same(s[i], t[i], f) BY <2>7, <2>8, <2>10, BackNow
  <2>12. Chained(s, b) BY <2>7, <2>8, <2>10, ChainedNow
  <2> QED BY <2>1, <2>3, <2>4, <2>6, <2>8, <2>11, <2>12
<1>7. RowsFollowBlocks
  <2> SUFFICES ASSUME ~misled, NEW a \in Addresses
               PROVE  /\ DOMAIN rows[a] = DOMAIN rowSnap[lastSaved][a]
                      /\ \A i \in DOMAIN rows[a] : SameRow(rows[a][i], rowSnap[lastSaved][a][i])
    BY DEF RowsFollowBlocks
  <2>1. DOMAIN rows[a] = DOMAIN rowSnap[lastSaved][a] BY <1>3, <1>6
  <2>2. \A i \in DOMAIN rows[a] : Same(rows[a][i], rowSnap[lastSaved][a][i], rowFloor) BY <1>3, <1>6
  <2> QED BY <2>1, <2>2 DEF Same, SameRow
<1>8. NoBalanceUpdateGap
  <2> SUFFICES ASSUME ~misled, NEW a \in Addresses, NEW i \in DOMAIN rows[a] \ {1}
               PROVE  rows[a][i].old = rows[a][i - 1].new
    BY DEF NoBalanceUpdateGap
  <2>1. i \in 2..Len(rows[a]) BY <1>3
  <2> QED BY <1>6, <2>1 DEF Chained
<1> QED BY <1>5, <1>7, <1>8 DEF CommitteeRowsAreExact

\* The rows of the rewards of the committee are exact through every sequence of
\* saves and resets, for every window, every set of addresses and shares and
\* every bound on the blocks: reset_balance_updates_to gives back the rows of
\* its block from the history, and the rows of an address chain.
THEOREM CommitteeRowsAreExactAlways ==
    CommitteeInit /\ [][CommitteeNext([Addresses -> Effects], Shares)]_committeeVars => []CommitteeRowsAreExact
<1>1. RewardsInv /\ [CommitteeNext([Addresses -> Effects], Shares)]_committeeVars => RewardsInv'
  <2> SUFFICES ASSUME RewardsInv, [CommitteeNext([Addresses -> Effects], Shares)]_committeeVars PROVE RewardsInv'
    OBVIOUS
  <2>1. ASSUME NEW effects \in [Addresses -> Effects], NEW share \in Shares, SaveBlock(effects, share)
        PROVE  RewardsInv'
    BY <2>1, SaveBlockRewardsInv
  <2>2. ASSUME NEW p \in 0..MaxRewardHeight, ResetBalanceUpdatesTo(p) PROVE RewardsInv'
    BY <2>2, ResetRewardsInv
  <2>3. CASE UNCHANGED committeeVars BY <2>3 DEF committeeVars, RewardsInv
  <2> QED BY <2>1, <2>2, <2>3 DEF CommitteeNext
<1> QED BY <1>1, InitRewardsInv, RewardsInvExact, PTL
=============================================================================
