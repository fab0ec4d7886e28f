-------------------------- MODULE CollectorProofs --------------------------
(***************************************************************************)
(* Proofs about what the statistics collector gathers of a block.          *)
(* Embedded contracts: it is that of the successful transactions, and the  *)
(* votings in memory agree with the tables through blocks, resets and      *)
(* restarts. Tokens: one row for each holder that an event announced, with *)
(* the balance of the last of them. Calls: what is recorded of balances    *)
(* and burnt coins is exact however they nest. Balance updates: every coin *)
(* is in an account or in the rows of burnt coins.                         *)
(***************************************************************************)
EXTENDS OracleVotings, TokenBalances, ContractCalls, BalanceUpdates, TLAPS,
        FiniteSetTheorems, SequenceTheorems, WellFoundedInduction

DbStates == {NotDeployed, Pending, Voting, Completed, Counting, Terminated, CanBeProlonged}
RunningStates == {Voting, Counting, CanBeProlonged}
Statuses == {"absent", "pending", "started", "over"}

DidRow == [tx : Nat, voting : Votings, kind : EventKinds]
VotingRow == [tx : Nat, voting : Votings, kind : EventKinds, stake : {0, 1}]
Draw == [drawn : SUBSET Members, due : SUBSET Members]
Saved == [status : [Votings -> Statuses], validated : SUBSET Members,
          db : [Votings -> DbStates], counting : [Votings -> Nat]]

VotingTypes ==
    /\ status \in [Votings -> Statuses] /\ validated \in SUBSET Members
    /\ height \in Nat /\ height >= 1 /\ height <= MaxVotingHeight + 1
    /\ tx \in Votings \cup {NoTx} /\ txsInBlock \in Nat
    /\ cachedMembers \in SUBSET SUBSET Members
    /\ recorded \in Seq(VotingRow) /\ newActual \in Seq(Votings) /\ newNotActual \in Seq(Votings)
    /\ committees \in Seq(Draw) /\ happened \in SUBSET DidRow
    /\ holder \in SUBSET Votings /\ reported \in SUBSET Votings
    /\ dbState \in [Votings -> DbStates] /\ countingBlock \in [Votings -> Nat]
    /\ saved \in Seq(Saved) /\ Len(saved) = height - 1

\* The pending transaction holds the one event that its contract reported.
PendingEvent(kind, stake) ==
    /\ tx # NoTx
    /\ events = [k \in {kind} |-> stake]
    /\ contractDid = {[tx |-> txsInBlock, voting |-> tx, kind |-> kind]}
    /\ Possible(tx, kind)
    /\ stake = 1 => kind \in DeployKinds

PendingInv ==
    \/ events = <<>> /\ contractDid = {}
    \/ \E kind \in EventKinds, stake \in {0, 1} : PendingEvent(kind, stake)

\* The lists of the collector say what happened.
StatsInv ==
    /\ EventsBelongToTheirTx
    /\ \A i \in DOMAIN recorded : recorded[i].stake = 1 => recorded[i].kind \in DeployKinds
    /\ StaleOnlyWithinBlock
    /\ committees = <<>> => cachedMembers = {}

\* A transaction of the block did this to the voting.
Did(v, kind) == \E row \in happened : row.voting = v /\ row.kind = kind

ListsInv ==
    /\ \A v \in Votings : v \in Range(newActual) <=>
          Did(v, "OracleVotingCallStart") \/ Did(v, "OracleVotingCallProlongation")
    /\ \A v \in Votings : v \in Range(newNotActual) <=>
          Did(v, "OracleVotingCallFinish") \/ Did(v, "OracleVotingTermination")

\* A voting and its row in the tables when no block is under way.
RowFits(s, db) ==
    \/ s = "absent" /\ db = NotDeployed
    \/ s = "pending" /\ db = Pending
    \/ s = "started" /\ db \in RunningStates
    \/ s = "over" /\ db \in {Completed, Terminated}

\* What the block did to a voting explains how the chain differs from the tables.
StatusInv(v) ==
    LET deployed   == Did(v, "OracleVotingDeploy")
        started    == Did(v, "OracleVotingCallStart")
        finished   == Did(v, "OracleVotingCallFinish")
        prolonged  == Did(v, "OracleVotingCallProlongation")
        terminated == Did(v, "OracleVotingTermination")
    IN  /\ deployed => dbState[v] = NotDeployed
        /\ started => dbState[v] \in {NotDeployed, Pending}
        /\ finished => ~prolonged
        /\ prolonged => started \/ dbState[v] \in RunningStates
        /\ status[v] \in {"absent", "pending"} => ~started /\ ~finished /\ ~prolonged /\ ~terminated
        /\ status[v] = "absent" => ~deployed /\ dbState[v] = NotDeployed
        /\ status[v] = "pending" => deployed \/ dbState[v] = Pending
        /\ status[v] = "started" => /\ ~finished /\ ~terminated
                                    /\ started \/ dbState[v] \in RunningStates
        /\ status[v] = "over" => \/ finished \/ terminated
                                 \/ /\ dbState[v] \in {Completed, Terminated}
                                    /\ ~prolonged

TablesInv ==
    /\ HolderIsActual /\ MissedOnlyIfReported
    /\ \A v \in Votings : dbState[v] = CanBeProlonged => v \in reported
    /\ \A i \in DOMAIN saved : \A v \in Votings : RowFits(saved[i].status[v], saved[i].db[v])

VotingInv ==
    /\ VotingTypes /\ PendingInv /\ StatsInv /\ ListsInv /\ TablesInv
    /\ \A v \in Votings : StatusInv(v)

-----------------------------------------------------------------------------
(* Operators. *)

\* There is nothing to record without an event.
LEMMA SetToSeqEmpty == SetToSeq({}) = <<>>
<1>1. Cardinality({}) = 0 BY FS_EmptySet
<1>2. \A f \in [1..0 -> {}] : f \in Seq({}) /\ Len(f) = 0 OBVIOUS
<1>3. \A f \in [1..0 -> {}] : f = <<>> /\ IsInjective(f) BY <1>2 DEF IsInjective
<1>4. <<>> \in [1..0 -> {}] OBVIOUS
<1>5. SetToSeq({}) \in [1..0 -> {}] BY <1>1, <1>3, <1>4 DEF SetToSeq
<1> QED BY <1>3, <1>5

\* The one event of a transaction is recorded as one row.
LEMMA SetToSeqSingle == ASSUME NEW x PROVE SetToSeq({x}) = <<x>>
<1>1. Cardinality({x}) = 1 BY FS_Singleton
<1>2. ASSUME NEW f \in [1..1 -> {x}] PROVE f = <<x>>
  <2>1. 1..1 = {1} OBVIOUS
  <2>2. f[1] = x BY <2>1
  <2>3. f \in Seq({x}) /\ Len(f) = 1 OBVIOUS
  <2> QED BY <2>2, <2>3
<1>3. <<x>> \in [1..1 -> {x}] OBVIOUS
<1>4. \A f \in [1..1 -> {x}] : IsInjective(f) BY DEF IsInjective
<1>5. SetToSeq({x}) \in [1..1 -> {x}] BY <1>1, <1>3, <1>4 DEF SetToSeq
<1> QED BY <1>2, <1>5

\* What a list holds after an append.
LEMMA RangeAppend ==
    ASSUME NEW S, NEW s \in Seq(S), NEW x \in S PROVE Range(Append(s, x)) = Range(s) \cup {x}
<1> DEFINE n == Len(s)
<1>1. n \in Nat /\ DOMAIN s = 1..n OBVIOUS
<1>2. Append(s, x) \in Seq(S) /\ DOMAIN Append(s, x) = 1..(n + 1) OBVIOUS
<1>3. \A i \in 1..n : Append(s, x)[i] = s[i] OBVIOUS
<1>4. Append(s, x)[n + 1] = x OBVIOUS
<1> HIDE DEF n
<1>5. 1..(n + 1) = (1..n) \cup {n + 1} BY <1>1
<1> QED BY <1>1, <1>2, <1>3, <1>4, <1>5 DEF Range

\* ... and of the concatenation with one row.
LEMMA AppendAsConcat == ASSUME NEW S, NEW s \in Seq(S), NEW x \in S PROVE s \o <<x>> = Append(s, x)
OBVIOUS

\* A finite set as a list: each element has one place in it.
LEMMA PlacesInList ==
    ASSUME NEW S, IsFiniteSet(S)
    PROVE  /\ SetToSeq(S) \in Seq(S) /\ Len(SetToSeq(S)) = Cardinality(S)
           /\ \A x \in S : \E j \in 1..Len(SetToSeq(S)) :
                 SetToSeq(S)[j] = x /\ \A i \in 1..Len(SetToSeq(S)) : i # j => SetToSeq(S)[i] # x
<1>1. Cardinality(S) \in Nat /\ ExistsBijection(1..Cardinality(S), S) BY FS_CardinalityType
<1>2. PICK f \in Bijection(1..Cardinality(S), S) : TRUE BY <1>1 DEF ExistsBijection
<1>3. f \in [1..Cardinality(S) -> S] /\ \A a, b \in 1..Cardinality(S) : f[a] = f[b] => a = b
  BY <1>2 DEF Bijection, Injection, IsInjective
<1>4. IsInjective(f) BY <1>3 DEF IsInjective
<1>5. PICK n \in Nat : n = Cardinality(S) BY <1>1
<1>6. PICK s : s = SetToSeq(S) OBVIOUS
<1>7. s \in [1..n -> S] /\ IsInjective(s) BY <1>3, <1>4, <1>5, <1>6 DEF SetToSeq
<1>8. s \in Injection(1..n, S) BY <1>7 DEF Injection, IsInjective
<1>9. s \in Surjection(1..n, S)
  <2>1. IsFiniteSet(1..n) /\ Cardinality(1..n) = n BY <1>5, FS_Interval
  <2> QED BY <1>5, <1>8, <2>1, FS_Injection
<1>10. s \in Seq(S) /\ Len(s) = n BY <1>5, <1>7
<1>11. \A i, j \in 1..n : s[i] = s[j] => i = j BY <1>7 DEF IsInjective
<1>12. \A x \in S : \E j \in 1..n : s[j] = x BY <1>9 DEF Surjection
<1> QED BY <1>5, <1>6, <1>10, <1>11, <1>12

-----------------------------------------------------------------------------
(* The initial state and the steps within a transaction. *)

\* The chain begins with no voting, and nothing is collected.
LEMMA InitVotingInv == VotingInit => VotingInv
<1> SUFFICES ASSUME VotingInit PROVE VotingInv OBVIOUS
<1> USE VotingAssumption
<1>1. VotingTypes BY DEF VotingInit, VotingTypes, DbStates, Statuses
<1>2. PendingInv BY DEF VotingInit, PendingInv
<1>3. Range(recorded) = {} /\ Range(newActual) = {} /\ Range(newNotActual) = {}
      /\ DOMAIN recorded = {} /\ DOMAIN committees = {} /\ DOMAIN saved = {}
  BY DEF VotingInit, Range
<1>4. StatsInv BY <1>3 DEF VotingInit, StatsInv, EventsBelongToTheirTx, StaleOnlyWithinBlock
<1>5. \A v, k : ~Did(v, k) BY DEF VotingInit, Did
<1>6. ListsInv BY <1>3, <1>5 DEF ListsInv
<1>7. \A v \in Votings : dbState[v] = NotDeployed /\ status[v] = "absent" BY DEF VotingInit
<1>8. ActualOracleVotings(dbState) = {}
  BY <1>7 DEF ActualOracleVotings, NotDeployed, Voting, Counting
<1>9. TablesInv
  BY <1>3, <1>7, <1>8 DEF VotingInit, TablesInv, HolderIsActual, MissedOnlyIfReported, NotDeployed, CanBeProlonged
<1>10. \A v \in Votings : StatusInv(v) BY <1>5, <1>7 DEF StatusInv
<1> QED BY <1>1, <1>2, <1>4, <1>6, <1>9, <1>10 DEF VotingInv

\* The parts that read only what a step leaves alone.
LEMMA VotingFrame ==
    ASSUME VotingInv, UNCHANGED <<recorded, newActual, newNotActual, committees, cachedMembers, happened,
                                  status, height, dbVars>>
    PROVE  StatsInv' /\ ListsInv' /\ TablesInv' /\ (\A v \in Votings : StatusInv(v)')
<1> USE DEF VotingInv, dbVars
<1>1. StatsInv' BY DEF StatsInv, EventsBelongToTheirTx, StaleOnlyWithinBlock
<1>2. ListsInv' BY DEF ListsInv, Did
<1>3. TablesInv' BY DEF TablesInv, HolderIsActual, MissedOnlyIfReported, ActualOracleVotings
<1>4. ASSUME NEW v \in Votings PROVE StatusInv(v)' BY DEF StatusInv, Did
<1> QED BY <1>1, <1>2, <1>3, <1>4

\* A transaction begins.
LEMMA BeginVotingInv == ASSUME VotingInv, NEW v \in Votings, BeginApplyingTx(v) PROVE VotingInv'
<1>1. UNCHANGED <<recorded, newActual, newNotActual, committees, cachedMembers, happened, status, height, dbVars>>
      /\ validated' = validated
  BY DEF BeginApplyingTx, chainVars
<1>2. tx' = v /\ events' = <<>> /\ contractDid' = {} /\ txsInBlock' = txsInBlock + 1 BY DEF BeginApplyingTx
<1>3. VotingTypes' BY <1>1, <1>2 DEF VotingInv, VotingTypes, dbVars
<1>4. PendingInv' BY <1>2 DEF PendingInv
<1> QED BY <1>1, <1>3, <1>4, VotingFrame DEF VotingInv

\* A contract reports an event that it can report in its state.
LEMMA ReportVotingInv == ASSUME VotingInv, NEW kind, ReportEvent(kind) PROVE VotingInv'
<1>1. UNCHANGED <<recorded, newActual, newNotActual, committees, cachedMembers, happened, status, height, dbVars>>
      /\ UNCHANGED <<validated, tx, txsInBlock>>
  BY DEF ReportEvent, chainVars, statsVars
<1>2. VotingTypes' BY <1>1 DEF VotingInv, VotingTypes, dbVars
<1>3. Possible(tx, kind)' BY <1>1 DEF ReportEvent, Possible
<1>4. kind \in EventKinds /\ tx # NoTx /\ events' = [k \in {kind} |-> 0]
      /\ contractDid' = {[tx |-> txsInBlock, voting |-> tx, kind |-> kind]}
  BY DEF ReportEvent
<1>5. PendingEvent(kind, 0)' BY <1>1, <1>3, <1>4 DEF PendingEvent
<1>6. PendingInv' BY <1>4, <1>5 DEF PendingInv
<1> QED BY <1>1, <1>2, <1>6, VotingFrame DEF VotingInv

\* The stake of a deployment is filled in.
LEMMA StakeVotingInv == ASSUME VotingInv, AddContractStake PROVE VotingInv'
<1>1. UNCHANGED <<recorded, newActual, newNotActual, committees, cachedMembers, happened, status, height, dbVars>>
      /\ UNCHANGED <<validated, tx, txsInBlock, contractDid>>
  BY DEF AddContractStake, chainVars, statsVars
<1>2. VotingTypes' BY <1>1 DEF VotingInv, VotingTypes, dbVars
<1>3. PICK k \in Staked : events' = [events EXCEPT ![k] = 1] BY DEF AddContractStake
<1>4. k \in DOMAIN events /\ k \in DeployKinds BY DEF Staked
<1>5. PICK kind \in EventKinds, stake \in {0, 1} : PendingEvent(kind, stake)
  BY <1>4 DEF VotingInv, PendingInv
<1>6. k = kind BY <1>4, <1>5 DEF PendingEvent
<1>7. events' = [j \in {kind} |-> 1] BY <1>3, <1>5, <1>6 DEF PendingEvent
<1>8. Possible(tx, kind)' BY <1>1, <1>5 DEF PendingEvent, Possible
<1>9. PendingEvent(kind, 1)' BY <1>1, <1>4, <1>5, <1>6, <1>7, <1>8 DEF PendingEvent
<1>10. PendingInv' BY <1>9 DEF PendingInv
<1> QED BY <1>1, <1>2, <1>10, VotingFrame DEF VotingInv

\* An identity is validated or killed between transactions.
LEMMA IdentityVotingInv == ASSUME VotingInv, NEW m \in Members, ChangeIdentity(m) PROVE VotingInv'
<1>1. UNCHANGED <<recorded, newActual, newNotActual, committees, cachedMembers, happened, status, height, dbVars>>
      /\ UNCHANGED <<tx, txsInBlock, events, contractDid>>
  BY DEF ChangeIdentity, statsVars
<1>2. validated' \in SUBSET Members BY DEF ChangeIdentity, VotingInv, VotingTypes
<1>3. VotingTypes' BY <1>1, <1>2 DEF VotingInv, VotingTypes, dbVars
<1>4. PendingInv' BY <1>1 DEF VotingInv, PendingInv, PendingEvent, Possible
<1> QED BY <1>1, <1>3, <1>4, VotingFrame DEF VotingInv

-----------------------------------------------------------------------------
(* The receipt of a transaction. *)

\* The kinds of events that change what a voting is.
StateKinds == {"OracleVotingDeploy", "OracleVotingCallStart", "OracleVotingCallFinish",
               "OracleVotingCallProlongation", "OracleVotingTermination"}

\* What a contract that reported an event was like, and what it is like then.
LEMMA StatusStep ==
    ASSUME NEW kind, Possible(tx, kind)
    PROVE  /\ kind = "OracleVotingDeploy" => status[tx] = "absent" /\ NewStatus(kind) = "pending"
           /\ kind = "OracleVotingCallStart" => status[tx] = "pending" /\ NewStatus(kind) = "started"
           /\ kind = "OracleVotingCallFinish" => /\ status[tx] = "started" /\ NewStatus(kind) = "over"
                                                 /\ ~Did(tx, "OracleVotingCallProlongation")
           /\ kind = "OracleVotingCallProlongation" => status[tx] = "started" /\ NewStatus(kind) = status[tx]
           /\ kind = "OracleVotingTermination" => status[tx] \in {"started", "over"} /\ NewStatus(kind) = "over"
           /\ kind \notin StateKinds => NewStatus(kind) = status[tx]
<1>1. CASE kind = "OracleVotingDeploy" BY <1>1 DEF Possible, NewStatus, StateKinds
<1>2. CASE kind = "OracleVotingCallStart" BY <1>2 DEF Possible, NewStatus, StateKinds
<1>3. CASE kind = "OracleVotingCallFinish" BY <1>3 DEF Possible, NewStatus, StateKinds, Did, OracleVotingKinds
<1>4. CASE kind = "OracleVotingCallProlongation" BY <1>4 DEF Possible, NewStatus, StateKinds, OracleVotingKinds
<1>5. CASE kind = "OracleVotingTermination" BY <1>5 DEF Possible, NewStatus, StateKinds
<1>6. CASE kind \notin StateKinds BY <1>6 DEF NewStatus, StateKinds
<1> QED BY <1>1, <1>2, <1>3, <1>4, <1>5, <1>6 DEF StateKinds

\* A receipt that records nothing: the transaction failed, or reported nothing.
LEMMA EmptyReceiptVotingInv ==
    ASSUME VotingInv, NEW success \in BOOLEAN, AddTxReceiptAndComplete(success),
           ~success \/ (events = <<>> /\ contractDid = {})
    PROVE  VotingInv'
<1>1. UNCHANGED <<validated, height, txsInBlock, dbVars>> /\ tx' = NoTx /\ events' = <<>> /\ contractDid' = {}
  BY DEF AddTxReceiptAndComplete
<1>2. UNCHANGED <<recorded, newActual, newNotActual, committees, cachedMembers, happened, status>>
  <2>1. CASE ~success BY <2>1 DEF AddTxReceiptAndComplete, Applied
  <2>2. CASE success
    <3>1. events = <<>> /\ contractDid = {} BY <2>2
    <3>2. DOMAIN events = {} BY <3>1
    <3>3. applyEmbeddedContractTxReceipt BY <2>2 DEF AddTxReceiptAndComplete, Applied
    <3>4. {[tx |-> txsInBlock, voting |-> tx, kind |-> k, stake |-> events[k]] : k \in DOMAIN events} = {}
      BY <3>2
    <3>5. recorded' = recorded \o <<>> BY <3>3, <3>4, SetToSeqEmpty DEF applyEmbeddedContractTxReceipt
    <3>6. recorded' = recorded BY <3>5 DEF VotingInv, VotingTypes
    <3>7. UNCHANGED <<newActual, newNotActual, committees, cachedMembers>>
      BY <3>2, <3>3 DEF applyEmbeddedContractTxReceipt, DrawsCommittee
    <3>8. happened' = happened BY <2>2, <3>1 DEF AddTxReceiptAndComplete
    <3>9. status' = [status EXCEPT ![tx] = status[tx]] BY <2>2, <3>1 DEF AddTxReceiptAndComplete
    <3>10. status' = status BY <3>9 DEF VotingInv, VotingTypes
    <3> QED BY <3>6, <3>7, <3>8, <3>10
  <2> QED BY <2>1, <2>2
<1>3. VotingTypes' BY <1>1, <1>2 DEF VotingInv, VotingTypes, dbVars
<1>4. PendingInv' BY <1>1 DEF PendingInv
<1> QED BY <1>1, <1>2, <1>3, <1>4, VotingFrame DEF VotingInv

\* What the receipt of a successful transaction with an event does.
ReceiptStep(kind, stake) ==
    /\ tx \in Votings /\ kind \in EventKinds /\ stake \in {0, 1}
    /\ stake = 1 => kind \in DeployKinds
    /\ Possible(tx, kind)
    /\ recorded' = Append(recorded, [tx |-> txsInBlock, voting |-> tx, kind |-> kind, stake |-> stake])
    /\ newActual' = IF kind \in {"OracleVotingCallStart", "OracleVotingCallProlongation"}
                    THEN Append(newActual, tx) ELSE newActual
    /\ newNotActual' = IF kind \in {"OracleVotingCallFinish", "OracleVotingTermination"}
                       THEN Append(newNotActual, tx) ELSE newNotActual
    /\ \/ UNCHANGED <<committees, cachedMembers>>
       \/ /\ committees' = Append(committees, [drawn |-> getOracleVotingCommittee, due |-> validated])
          /\ cachedMembers' = {getOracleVotingCommittee}
    /\ happened' = happened \cup {[tx |-> txsInBlock, voting |-> tx, kind |-> kind]}
    /\ status' = [status EXCEPT ![tx] = NewStatus(kind)]
    /\ UNCHANGED <<validated, height, txsInBlock, dbVars>>
    /\ tx' = NoTx /\ events' = <<>> /\ contractDid' = {}

\* The code's receipt is such a step.
LEMMA ReceiptIsStep ==
    ASSUME VotingInv, AddTxReceiptAndComplete(TRUE),
           NEW kind \in EventKinds, NEW stake \in {0, 1}, PendingEvent(kind, stake)
    PROVE  ReceiptStep(kind, stake)
<1> DEFINE r == [tx |-> txsInBlock, voting |-> tx, kind |-> kind, stake |-> stake]
           d == [tx |-> txsInBlock, voting |-> tx, kind |-> kind]
<1>1. applyEmbeddedContractTxReceipt BY DEF AddTxReceiptAndComplete, Applied
<1>2. DOMAIN events = {kind} /\ events[kind] = stake BY DEF PendingEvent
<1>3. tx \in Votings BY DEF PendingEvent, VotingInv, VotingTypes
<1>4. {[tx |-> txsInBlock, voting |-> tx, kind |-> k, stake |-> events[k]] : k \in DOMAIN events} = {r}
  BY <1>2
<1>5. r \in VotingRow BY <1>3 DEF VotingRow, VotingInv, VotingTypes
<1>6. recorded' = recorded \o <<r>>
  BY <1>1, <1>4, SetToSeqSingle DEF applyEmbeddedContractTxReceipt
<1>7. recorded' = Append(recorded, r) BY <1>5, <1>6, AppendAsConcat DEF VotingInv, VotingTypes
<1>8. DrawsCommittee <=> kind \in {"OracleVotingCallStart", "OracleVotingCallProlongation"}
  BY <1>2 DEF DrawsCommittee
<1>9. DOMAIN events \cap {"OracleVotingCallFinish", "OracleVotingTermination"} # {}
      <=> kind \in {"OracleVotingCallFinish", "OracleVotingTermination"}
  BY <1>2
<1>10. contractDid = {d} /\ d.kind = kind BY DEF PendingEvent
<1>11. (CHOOSE x \in contractDid : TRUE) = d BY <1>10
<1>12. contractDid # {} BY <1>10
<1>13. status' = [status EXCEPT ![tx] = NewStatus(kind)] BY <1>10, <1>11, <1>12 DEF AddTxReceiptAndComplete
<1>14. happened' = happened \cup {d} BY <1>10 DEF AddTxReceiptAndComplete
<1>15. newActual' = IF kind \in {"OracleVotingCallStart", "OracleVotingCallProlongation"}
                    THEN Append(newActual, tx) ELSE newActual
  BY <1>1, <1>8 DEF applyEmbeddedContractTxReceipt
<1>16. newNotActual' = IF kind \in {"OracleVotingCallFinish", "OracleVotingTermination"}
                       THEN Append(newNotActual, tx) ELSE newNotActual
  BY <1>1, <1>9 DEF applyEmbeddedContractTxReceipt
<1>17. \/ UNCHANGED <<committees, cachedMembers>>
       \/ /\ committees' = Append(committees, [drawn |-> getOracleVotingCommittee, due |-> validated])
          /\ cachedMembers' = {getOracleVotingCommittee}
  BY <1>1 DEF applyEmbeddedContractTxReceipt
<1>18. UNCHANGED <<validated, height, txsInBlock, dbVars>> /\ tx' = NoTx /\ events' = <<>> /\ contractDid' = {}
  BY DEF AddTxReceiptAndComplete
<1>19. Possible(tx, kind) /\ (stake = 1 => kind \in DeployKinds) BY DEF PendingEvent
<1> QED BY <1>3, <1>7, <1>13, <1>14, <1>15, <1>16, <1>17, <1>18, <1>19 DEF ReceiptStep

\* A successful transaction that reported an event is recorded with it, and
\* the voting has moved on as the event says.
LEMMA ReceiptVotingInv ==
    ASSUME VotingInv, NEW kind, NEW stake, ReceiptStep(kind, stake) PROVE VotingInv'
<1> DEFINE r == [tx |-> txsInBlock, voting |-> tx, kind |-> kind, stake |-> stake]
           d == [tx |-> txsInBlock, voting |-> tx, kind |-> kind]
           draw == [drawn |-> getOracleVotingCommittee, due |-> validated]
           Key(x) == [tx |-> x.tx, voting |-> x.voting, kind |-> x.kind]
<1>0. VotingTypes /\ PendingInv /\ StatsInv /\ ListsInv /\ TablesInv BY DEF VotingInv
<1>1. /\ tx \in Votings /\ kind \in EventKinds /\ stake \in {0, 1} /\ (stake = 1 => kind \in DeployKinds)
      /\ recorded' = Append(recorded, r) /\ happened' = happened \cup {d}
      /\ UNCHANGED <<validated, height, txsInBlock, dbVars>>
      /\ tx' = NoTx /\ events' = <<>> /\ contractDid' = {}
  BY DEF ReceiptStep
<1>2. r \in VotingRow /\ d \in DidRow BY <1>0, <1>1 DEF VotingRow, DidRow, VotingTypes
<1>3. getOracleVotingCommittee \in SUBSET Members
  BY <1>0 DEF getOracleVotingCommittee, VotingTypes
<1>4. draw \in Draw BY <1>0, <1>3 DEF Draw, VotingTypes
<1> HIDE DEF r, d, draw
<1>5. \/ UNCHANGED <<committees, cachedMembers>>
      \/ committees' = Append(committees, draw) /\ cachedMembers' = {getOracleVotingCommittee}
  BY DEF ReceiptStep, draw
<1>6. recorded' \in Seq(VotingRow) /\ happened' \in SUBSET DidRow BY <1>0, <1>1, <1>2 DEF VotingTypes
<1>7. committees' \in Seq(Draw) /\ cachedMembers' \in SUBSET SUBSET Members
  <2>1. committees \in Seq(Draw) /\ cachedMembers \in SUBSET SUBSET Members BY <1>0 DEF VotingTypes
  <2>2. Append(committees, draw) \in Seq(Draw) BY <1>4, <2>1
  <2>3. {getOracleVotingCommittee} \in SUBSET SUBSET Members BY <1>3
  <2> QED BY <1>5, <2>1, <2>2, <2>3
<1>8. newActual' \in Seq(Votings) /\ newNotActual' \in Seq(Votings)
  BY <1>0, <1>1 DEF ReceiptStep, VotingTypes
<1>9. status[tx] \in Statuses BY <1>0, <1>1 DEF VotingTypes
<1>10. NewStatus(kind) \in Statuses BY <1>9 DEF NewStatus, Statuses
<1>11. status' = [status EXCEPT ![tx] = NewStatus(kind)] BY DEF ReceiptStep
<1>12. status' \in [Votings -> Statuses] BY <1>0, <1>10, <1>11 DEF VotingTypes
<1>13. VotingTypes' BY <1>0, <1>1, <1>6, <1>7, <1>8, <1>12 DEF VotingTypes, dbVars
<1>14. PendingInv' BY <1>1 DEF PendingInv
<1>15. StatsInv'
  <2>1. EventsBelongToTheirTx'
    <3>1. Range(recorded') = Range(recorded) \cup {r} BY <1>0, <1>1, <1>2, RangeAppend DEF VotingTypes
    <3>2. Key(r) = d BY DEF r, d
    <3> DEFINE ks == {Key(x) : x \in Range(recorded)}
    <3>3. ks = happened BY <1>0 DEF StatsInv, EventsBelongToTheirTx
    <3>4. {Key(x) : x \in Range(recorded')} = ks \cup {Key(r)} BY <3>1
    <3>5. {Key(x) : x \in Range(recorded')} = happened' BY <1>1, <3>2, <3>3, <3>4
    <3> QED BY <3>5 DEF EventsBelongToTheirTx
  <2>2. ASSUME NEW i \in DOMAIN recorded', recorded'[i].stake = 1 PROVE recorded'[i].kind \in DeployKinds
    <3>1. CASE i = Len(recorded) + 1
      <4>1. recorded'[i] = r BY <1>0, <1>1, <1>2, <3>1 DEF VotingTypes
      <4> QED BY <1>1, <2>2, <4>1 DEF r
    <3>2. CASE i # Len(recorded) + 1
      <4>1. recorded \in Seq(VotingRow) BY <1>0 DEF VotingTypes
      <4>2. PICK n \in Nat : n = Len(recorded) /\ DOMAIN recorded = 1..n BY <4>1
      <4>3. recorded' = Append(recorded, r) BY <1>1
      <4>4. DOMAIN recorded' = 1..(n + 1) BY <4>1, <4>2, <4>3
      <4>5. i \in 1..n BY <2>2, <3>2, <4>2, <4>4
      <4>6. recorded'[i] = recorded[i] BY <4>1, <4>2, <4>3, <4>5
      <4> QED BY <1>0, <2>2, <4>2, <4>5, <4>6 DEF StatsInv
    <3> QED BY <3>1, <3>2
  <2>3. StaleOnlyWithinBlock' /\ (committees' = <<>> => cachedMembers' = {})
    <3>1. CASE UNCHANGED <<committees, cachedMembers>> BY <1>0, <3>1 DEF StatsInv, StaleOnlyWithinBlock
    <3>2. CASE committees' = Append(committees, draw)
      <4>1. Len(committees') = Len(committees) + 1 /\ Len(committees) \in Nat BY <1>0, <1>4, <3>2 DEF VotingTypes
      <4>2. committees' # <<>> BY <4>1
      <4>3. ASSUME NEW i \in DOMAIN committees', committees'[i].drawn # committees'[i].due PROVE i > 1
        <5>1. CASE i = Len(committees) + 1
          <6>1. committees'[i] = draw BY <1>0, <1>4, <3>2, <5>1 DEF VotingTypes
          <6>2. getOracleVotingCommittee # validated BY <4>3, <6>1 DEF draw
          <6>3. committees # <<>> BY <1>0, <6>2 DEF StatsInv, getOracleVotingCommittee
          <6>4. Len(committees) # 0 BY <1>0, <6>3 DEF VotingTypes
          <6> QED BY <4>1, <5>1, <6>4
        <5>2. CASE i # Len(committees) + 1
          <6>1. i \in DOMAIN committees /\ committees'[i] = committees[i]
            BY <1>0, <1>4, <3>2, <5>2 DEF VotingTypes
          <6> QED BY <1>0, <4>3, <6>1 DEF StatsInv, StaleOnlyWithinBlock
        <5> QED BY <5>1, <5>2
      <4> QED BY <4>2, <4>3 DEF StaleOnlyWithinBlock
    <3> QED BY <1>5, <3>1, <3>2
  <2> QED BY <2>1, <2>2, <2>3 DEF StatsInv
<1>16. d.voting = tx /\ d.kind = kind BY DEF d
<1>17. ASSUME NEW v, NEW k PROVE Did(v, k)' <=> Did(v, k) \/ (v = tx /\ k = kind)
  BY <1>1, <1>16 DEF Did
<1>18. ListsInv'
  <2>1. /\ kind \in {"OracleVotingCallStart", "OracleVotingCallProlongation"} =>
           Range(newActual') = Range(newActual) \cup {tx}
        /\ kind \notin {"OracleVotingCallStart", "OracleVotingCallProlongation"} => newActual' = newActual
    BY <1>0, <1>1, RangeAppend DEF ReceiptStep, VotingTypes
  <2>2. /\ kind \in {"OracleVotingCallFinish", "OracleVotingTermination"} =>
           Range(newNotActual') = Range(newNotActual) \cup {tx}
        /\ kind \notin {"OracleVotingCallFinish", "OracleVotingTermination"} => newNotActual' = newNotActual
    BY <1>0, <1>1, RangeAppend DEF ReceiptStep, VotingTypes
  <2> QED BY <1>0, <1>17, <2>1, <2>2 DEF ListsInv
<1>19. TablesInv'
  BY <1>0, <1>1 DEF TablesInv, HolderIsActual, MissedOnlyIfReported, ActualOracleVotings, dbVars
<1>20. ASSUME NEW v \in Votings PROVE StatusInv(v)'
  <2>0. StatusInv(v) /\ UNCHANGED dbState BY <1>1 DEF VotingInv, dbVars
  <2>1. CASE v # tx
    <3>1. status'[v] = status[v] BY <1>0, <1>11, <2>1 DEF VotingTypes
    <3>2. \A k : Did(v, k)' <=> Did(v, k) BY <1>17, <2>1
    <3> QED BY <2>0, <3>1, <3>2 DEF StatusInv
  <2>2. CASE v = tx
    <3>1. status'[v] = NewStatus(kind) BY <1>0, <1>11, <2>2 DEF VotingTypes
    <3>2. \A k : Did(v, k)' <=> Did(v, k) \/ k = kind BY <1>17, <2>2
    <3>3. Possible(tx, kind) BY DEF ReceiptStep
    <3>4. status[v] \in Statuses /\ dbState[v] \in DbStates BY <1>0 DEF VotingTypes
    <3> USE DEF NotDeployed, Pending, Voting, Completed, Counting, Terminated, CanBeProlonged, RunningStates, DbStates
    <3>5. CASE kind = "OracleVotingDeploy"
      <4>1. status[v] = "absent" /\ status'[v] = "pending" BY <2>2, <3>1, <3>3, <3>5, StatusStep
      <4> QED BY <2>0, <3>2, <3>4, <3>5, <4>1 DEF StatusInv
    <3>6. CASE kind = "OracleVotingCallStart"
      <4>1. status[v] = "pending" /\ status'[v] = "started" BY <2>2, <3>1, <3>3, <3>6, StatusStep
      <4> QED BY <2>0, <3>2, <3>4, <3>6, <4>1 DEF StatusInv
    <3>7. CASE kind = "OracleVotingCallFinish"
      <4>1. status[v] = "started" /\ status'[v] = "over" /\ ~Did(v, "OracleVotingCallProlongation")
        BY <2>2, <3>1, <3>3, <3>7, StatusStep
      <4> QED BY <2>0, <3>2, <3>4, <3>7, <4>1 DEF StatusInv
    <3>8. CASE kind = "OracleVotingCallProlongation"
      <4>1. status[v] = "started" /\ status'[v] = "started" BY <2>2, <3>1, <3>3, <3>8, StatusStep
      <4> QED BY <2>0, <3>2, <3>4, <3>8, <4>1 DEF StatusInv
    <3>9. CASE kind = "OracleVotingTermination"
      <4>1. status[v] \in {"started", "over"} /\ status'[v] = "over" BY <2>2, <3>1, <3>3, <3>9, StatusStep
      <4> QED BY <2>0, <3>2, <3>4, <3>9, <4>1 DEF StatusInv
    <3>10. CASE kind \notin StateKinds
      <4>1. status'[v] = status[v] BY <2>2, <3>1, <3>3, <3>10, StatusStep
      <4>2. \A k \in StateKinds : Did(v, k)' <=> Did(v, k) BY <3>2, <3>10
      <4> QED BY <2>0, <4>1, <4>2 DEF StatusInv, StateKinds
    <3> QED BY <3>5, <3>6, <3>7, <3>8, <3>9, <3>10 DEF StateKinds
  <2> QED BY <2>1, <2>2
<1> QED BY <1>13, <1>14, <1>15, <1>18, <1>19, <1>20 DEF VotingInv

-----------------------------------------------------------------------------
(* The block is indexed, and the state is loaded again. *)

\* The lists that save_block gets name the votings that the block did this to.
LEMMA RecordedIsDid == ASSUME VotingInv, NEW v, NEW k PROVE v \in Recorded(k) <=> Did(v, k)
<1>1. {[tx |-> r.tx, voting |-> r.voting, kind |-> r.kind] : r \in Range(recorded)} = happened
  BY DEF VotingInv, StatsInv, EventsBelongToTheirTx
<1>2. v \in Recorded(k) <=> \E r \in Range(recorded) : r.voting = v /\ r.kind = k
  BY DEF Recorded, Range
<1>3. ASSUME NEW r \in Range(recorded), r.voting = v, r.kind = k PROVE Did(v, k)
  <2>1. [tx |-> r.tx, voting |-> r.voting, kind |-> r.kind] \in happened BY <1>1
  <2> QED BY <1>3, <2>1 DEF Did
<1>4. ASSUME Did(v, k) PROVE \E r \in Range(recorded) : r.voting = v /\ r.kind = k
  <2>1. PICK d \in happened : d.voting = v /\ d.kind = k BY <1>4 DEF Did
  <2>2. PICK r \in Range(recorded) : d = [tx |-> r.tx, voting |-> r.voting, kind |-> r.kind] BY <1>1
  <2> QED BY <2>1, <2>2
<1> QED BY <1>2, <1>3, <1>4

\* What is true of a block that has just begun: nothing is collected.
LEMMA FreshBlock ==
    ASSUME recorded' = <<>>, newActual' = <<>>, newNotActual' = <<>>, committees' = <<>>,
           cachedMembers' = {}, happened' = {}
    PROVE  StatsInv' /\ ListsInv' /\ (\A v, k : ~Did(v, k)')
<1>1. Range(recorded') = {} /\ Range(newActual') = {} /\ Range(newNotActual') = {}
      /\ DOMAIN recorded' = {} /\ DOMAIN committees' = {}
  BY DEF Range
<1>2. StatsInv' BY <1>1 DEF StatsInv, EventsBelongToTheirTx, StaleOnlyWithinBlock
<1>3. \A v, k : ~Did(v, k)' BY DEF Did
<1>4. ListsInv' BY <1>1, <1>3 DEF ListsInv
<1> QED BY <1>2, <1>3, <1>4

\* What save_block makes of the row of a voting.
LEMMA SavedRow ==
    ASSUME VotingInv, NEW v \in Votings, NEW prolongable \in SUBSET Votings, NEW restarts \in SUBSET Votings,
           IndexVotingBlock(prolongable, restarts)
    PROVE  LET toProlong == detectOracleVotingsToProlong(prolongable)
               new == SavedState(v, restarts, toProlong)
           IN  /\ RowFits(status[v], new)
               /\ new \in DbStates
               /\ new = CanBeProlonged => v \in toProlong \/ (dbState[v] = CanBeProlonged /\ v \notin Range(newActual))
               /\ v \in applyOnState(toProlong) => new \in {Voting, Counting}
               /\ new \in {Voting, Counting} /\ v \notin applyOnState(toProlong) =>
                     /\ new = Counting /\ countingBlock'[v] <= height
                     /\ v \in toProlong \/ (v \in reported /\ v \notin Range(newActual))
<1> DEFINE toProlong == detectOracleVotingsToProlong(prolongable)
           new == SavedState(v, restarts, toProlong)
           de == Did(v, "OracleVotingDeploy")
           st == Did(v, "OracleVotingCallStart")
           fi == Did(v, "OracleVotingCallFinish")
           pr == Did(v, "OracleVotingCallProlongation")
           te == Did(v, "OracleVotingTermination")
           db == dbState[v]
           cb == countingBlock'[v]
           offered == IF v \in toProlong THEN CanBeProlonged
                      ELSE IF te THEN Terminated
                      ELSE IF pr THEN (IF v \in restarts \/ cb > height THEN Voting ELSE Counting)
                      ELSE IF fi THEN Completed
                      ELSE IF st THEN Voting
                      ELSE IF de THEN Pending
                      ELSE db
<1>1. new = IF offered \in {Voting, CanBeProlonged} /\ cb = height THEN Counting ELSE offered
  BY RecordedIsDid DEF SavedState
<1>2. StatusInv(v) /\ status[v] \in Statuses /\ db \in DbStates BY DEF VotingInv, VotingTypes
<1>3. v \in toProlong => status[v] = "started" /\ v \in holder /\ ~pr
  BY RecordedIsDid DEF IndexVotingBlock, detectOracleVotingsToProlong
<1>4. (v \in Range(newActual) <=> st \/ pr) /\ (v \in Range(newNotActual) <=> fi \/ te) BY DEF VotingInv, ListsInv
<1>5. v \in applyOnState(toProlong) <=>
        (v \in holder \/ v \in Range(newActual)) /\ v \notin Range(newNotActual) /\ v \notin toProlong
  BY DEF applyOnState
<1>6. v \in holder => db \in {Voting, Counting}
  BY DEF VotingInv, TablesInv, HolderIsActual, ActualOracleVotings
<1>7. db \in {Voting, Counting} /\ v \notin holder => v \in reported /\ db = Counting /\ countingBlock[v] < height
  BY DEF VotingInv, TablesInv, MissedOnlyIfReported, ActualOracleVotings
<1>8. db = CanBeProlonged => v \in reported BY DEF VotingInv, TablesInv
<1>9. v \in restarts => pr BY RecordedIsDid DEF IndexVotingBlock
<1>10. ~st /\ ~pr => cb = countingBlock[v] BY <1>9, RecordedIsDid DEF IndexVotingBlock
<1>11. height \in Nat /\ countingBlock[v] \in Nat BY DEF VotingInv, VotingTypes
<1>12. /\ de => db = NotDeployed
       /\ st => db \in {NotDeployed, Pending}
       /\ fi => ~pr
       /\ pr => st \/ db \in RunningStates
       /\ status[v] \in {"absent", "pending"} => ~st /\ ~fi /\ ~pr /\ ~te
       /\ status[v] = "absent" => ~de /\ db = NotDeployed
       /\ status[v] = "pending" => de \/ db = Pending
       /\ status[v] = "started" => ~fi /\ ~te /\ (st \/ db \in RunningStates)
       /\ status[v] = "over" => fi \/ te \/ (db \in {Completed, Terminated} /\ ~pr)
  BY <1>2 DEF StatusInv
<1> HIDE DEF toProlong, new, de, st, fi, pr, te, db, cb
<1> USE DEF NotDeployed, Pending, Voting, Completed, Counting, Terminated, CanBeProlonged, RunningStates, DbStates
<1>13. RowFits(status[v], new)
  <2>1. CASE status[v] = "absent" BY <1>1, <1>3, <1>12, <2>1 DEF RowFits
  <2>2. CASE status[v] = "pending" BY <1>1, <1>3, <1>12, <2>2 DEF RowFits
  <2>3. CASE status[v] = "started" BY <1>1, <1>3, <1>12, <2>3 DEF RowFits
  <2>4. CASE status[v] = "over" BY <1>1, <1>3, <1>12, <2>4 DEF RowFits
  <2> QED BY <1>2, <2>1, <2>2, <2>3, <2>4 DEF Statuses
<1>14. new \in DbStates BY <1>13 DEF RowFits
<1>15. new = CanBeProlonged => v \in toProlong \/ (db = CanBeProlonged /\ v \notin Range(newActual))
  BY <1>1, <1>4
<1>16. v \in applyOnState(toProlong) => new \in {Voting, Counting}
  BY <1>1, <1>4, <1>5, <1>6, <1>12
<1>17. ASSUME new \in {Voting, Counting}, v \notin applyOnState(toProlong)
       PROVE  /\ new = Counting /\ cb <= height
              /\ v \in toProlong \/ (v \in reported /\ v \notin Range(newActual))
  <2>1. status[v] = "started" /\ ~fi /\ ~te BY <1>12, <1>13, <1>17 DEF RowFits
  <2>2. CASE v \in toProlong
    <3>1. offered = CanBeProlonged BY <2>2
    <3>2. cb = height /\ new = Counting BY <1>1, <1>17, <3>1
    <3> QED BY <1>11, <2>2, <3>2
  <2>3. CASE v \notin toProlong
    <3>1. v \notin holder /\ ~st /\ ~pr BY <1>4, <1>5, <1>17, <2>1, <2>3
    <3>2. cb = countingBlock[v] /\ db \in RunningStates BY <1>10, <1>12, <2>1, <3>1
    <3>3. offered = db BY <1>12, <2>1, <2>3, <3>1, <3>2
    <3>4. CASE db = CanBeProlonged
      <4>1. cb = height /\ new = Counting BY <1>1, <1>17, <3>3, <3>4
      <4> QED BY <1>4, <1>8, <1>11, <3>1, <3>4, <4>1
    <3>5. CASE db \in {Voting, Counting}
      <4>1. v \in reported /\ db = Counting /\ cb < height BY <1>7, <3>1, <3>2, <3>5
      <4>2. new = Counting BY <1>1, <3>3, <4>1
      <4> QED BY <1>4, <1>11, <3>1, <3>2, <4>1, <4>2
    <3> QED BY <3>2, <3>4, <3>5
  <2> QED BY <2>2, <2>3
<1> QED BY <1>13, <1>14, <1>15, <1>16, <1>17 DEF toProlong, new, db, cb

\* The block is saved, the state follows it, and the next block begins.
LEMMA IndexVotingInv ==
    ASSUME VotingInv, NEW prolongable \in SUBSET Votings, NEW restarts \in SUBSET Votings,
           IndexVotingBlock(prolongable, restarts)
    PROVE  VotingInv'
<1> DEFINE toProlong == detectOracleVotingsToProlong(prolongable)
           entry == [status |-> status, validated |-> validated, db |-> dbState', counting |-> countingBlock']
<1> USE VotingAssumption
<1>0. VotingTypes /\ TablesInv BY DEF VotingInv
<1>1. /\ height <= MaxVotingHeight /\ height' = height + 1
      /\ dbState' = [v \in Votings |-> SavedState(v, restarts, toProlong)]
      /\ holder' = applyOnState(toProlong)
      /\ reported' = (reported \ Range(newActual)) \cup toProlong
      /\ saved' = Append(saved, entry)
      /\ txsInBlock' = 0 /\ UNCHANGED <<status, validated, tx, events, contractDid>> /\ tx = NoTx
  BY DEF IndexVotingBlock
<1>2. recorded' = <<>> /\ newActual' = <<>> /\ newNotActual' = <<>> /\ committees' = <<>>
      /\ cachedMembers' = {} /\ happened' = {}
  BY DEF IndexVotingBlock, EnableCollecting
<1>3. StatsInv' /\ ListsInv' /\ (\A v, k : ~Did(v, k)') BY <1>2, FreshBlock
<1>4. ASSUME NEW v \in Votings
      PROVE  /\ RowFits(status[v], dbState'[v]) /\ dbState'[v] \in DbStates
             /\ dbState'[v] = CanBeProlonged => v \in toProlong \/ (dbState[v] = CanBeProlonged /\ v \notin Range(newActual))
             /\ v \in holder' => dbState'[v] \in {Voting, Counting}
             /\ dbState'[v] \in {Voting, Counting} /\ v \notin holder' =>
                   /\ dbState'[v] = Counting /\ countingBlock'[v] <= height
                   /\ v \in toProlong \/ (v \in reported /\ v \notin Range(newActual))
  <2>1. dbState'[v] = SavedState(v, restarts, toProlong) BY <1>1
  <2> HIDE DEF toProlong
  <2> QED BY <1>1, <2>1, SavedRow DEF toProlong
<1>5. countingBlock' \in [Votings -> Nat]
  <2>1. height + VotingDuration \in Nat /\ countingBlock \in [Votings -> Nat] BY <1>0 DEF VotingTypes
  <2> QED BY <2>1 DEF IndexVotingBlock
<1>6. dbState' \in [Votings -> DbStates] BY <1>1, <1>4
<1>7. toProlong \subseteq holder BY DEF detectOracleVotingsToProlong
<1> HIDE DEF toProlong
<1>8. Range(newActual) \subseteq Votings BY <1>0 DEF Range, VotingTypes
<1>9. holder' \in SUBSET Votings /\ reported' \in SUBSET Votings BY <1>0, <1>1, <1>7, <1>8 DEF VotingTypes, applyOnState
<1>10. entry \in Saved BY <1>0, <1>5, <1>6 DEF Saved, VotingTypes
<1>11. entry.status = status /\ entry.db = dbState' OBVIOUS
<1> HIDE DEF entry
<1>12. saved' \in Seq(Saved) /\ Len(saved') = Len(saved) + 1 BY <1>0, <1>1, <1>10 DEF VotingTypes
<1>13. VotingTypes'
  <2>1. height' \in Nat /\ height' >= 1 /\ height' <= MaxVotingHeight + 1 /\ Len(saved') = height' - 1
    BY <1>0, <1>1, <1>12 DEF VotingTypes
  <2>2. recorded' \in Seq(VotingRow) /\ newActual' \in Seq(Votings) /\ newNotActual' \in Seq(Votings)
        /\ committees' \in Seq(Draw) /\ happened' \in SUBSET DidRow /\ cachedMembers' \in SUBSET SUBSET Members
    BY <1>2
  <2> QED BY <1>0, <1>1, <1>5, <1>6, <1>9, <1>12, <2>1, <2>2 DEF VotingTypes
<1>14. PendingInv'
  <2>1. events = <<>> /\ contractDid = {} BY <1>1 DEF VotingInv, PendingInv, PendingEvent
  <2> QED BY <1>1, <2>1 DEF PendingInv
<1>15. TablesInv'
  <2>1. HolderIsActual' BY <1>4, <1>9 DEF HolderIsActual, ActualOracleVotings
  <2>2. MissedOnlyIfReported'
    <3>1. ASSUME NEW v \in Votings, dbState'[v] \in {Voting, Counting}, v \notin holder'
          PROVE  v \in reported' /\ dbState'[v] = Counting /\ countingBlock'[v] < height'
      <4>1. /\ dbState'[v] = Counting /\ countingBlock'[v] <= height
            /\ v \in toProlong \/ (v \in reported /\ v \notin Range(newActual))
        BY <1>4, <3>1
      <4>2. countingBlock'[v] \in Nat /\ height \in Nat BY <1>0, <1>5 DEF VotingTypes
      <4> QED BY <1>1, <4>1, <4>2
    <3> QED BY <3>1 DEF MissedOnlyIfReported, ActualOracleVotings
  <2>3. ASSUME NEW v \in Votings, dbState'[v] = CanBeProlonged PROVE v \in reported'
    BY <1>0, <1>1, <1>4, <2>3 DEF TablesInv
  <2>4. ASSUME NEW i \in DOMAIN saved', NEW v \in Votings
        PROVE  RowFits(saved'[i].status[v], saved'[i].db[v])
    <3>1. CASE i = Len(saved) + 1
      <4>1. saved'[i] = entry BY <1>0, <1>1, <1>10, <3>1 DEF VotingTypes
      <4> QED BY <1>4, <1>11, <4>1
    <3>2. CASE i # Len(saved) + 1
      <4>1. i \in DOMAIN saved /\ saved'[i] = saved[i]
        <5>1. saved \in Seq(Saved) /\ saved' = Append(saved, entry) BY <1>0, <1>1 DEF VotingTypes
        <5>2. i \in 1..Len(saved) BY <1>12, <3>2
        <5> QED BY <1>10, <5>1, <5>2
      <4> QED BY <1>0, <4>1 DEF TablesInv
    <3> QED BY <3>1, <3>2
  <2> QED BY <2>1, <2>2, <2>3, <2>4 DEF TablesInv
<1>16. ASSUME NEW v \in Votings PROVE StatusInv(v)'
  <2>1. RowFits(status[v], dbState[v])' BY <1>1, <1>4
  <2>2. (\A k : ~Did(v, k))' BY <1>3
  <2>3. (RowFits(status[v], dbState[v]) /\ (\A k : ~Did(v, k)) => StatusInv(v))'
    BY DEF RowFits, StatusInv, RunningStates, NotDeployed, Pending, Voting, Completed, Counting, Terminated,
           CanBeProlonged
  <2> QED BY <2>1, <2>2, <2>3
<1> QED BY <1>3, <1>13, <1>14, <1>15, <1>16 DEF VotingInv

\* The state is loaded from the tables of an earlier block, or of the last.
LEMMA LoadVotingInv ==
    ASSUME VotingInv, NEW h \in 1..MaxVotingHeight, LoadStateAt(h) PROVE VotingInv'
<1> DEFINE s == saved[h]
<1> USE VotingAssumption
<1>0. VotingTypes /\ TablesInv BY DEF VotingInv
<1>1. /\ status' = s.status /\ validated' = s.validated /\ dbState' = s.db /\ countingBlock' = s.counting
      /\ holder' = ActualOracleVotings(s.db)
      /\ reported' = {v \in Votings : s.db[v] = CanBeProlonged}
      /\ saved' = SubSeq(saved, 1, h) /\ height' = h + 1 /\ txsInBlock' = 0
      /\ tx' = NoTx /\ events' = <<>> /\ contractDid' = {} /\ h \in 1..Len(saved)
  BY DEF LoadStateAt
<1>2. recorded' = <<>> /\ newActual' = <<>> /\ newNotActual' = <<>> /\ committees' = <<>>
      /\ cachedMembers' = {} /\ happened' = {}
  BY DEF LoadStateAt, EnableCollecting
<1>3. StatsInv' /\ ListsInv' /\ (\A v, k : ~Did(v, k)') BY <1>2, FreshBlock
<1>4. s \in Saved BY <1>0, <1>1 DEF VotingTypes
<1>5. \A v \in Votings : RowFits(s.status[v], s.db[v])
  <2>1. saved \in Seq(Saved) /\ h \in 1..Len(saved) BY <1>0, <1>1 DEF VotingTypes
  <2>2. h \in DOMAIN saved BY <2>1
  <2> QED BY <1>0, <2>2 DEF TablesInv
<1>6. saved \in Seq(Saved) /\ h \in Nat BY <1>0 DEF VotingTypes
<1> HIDE DEF s, Saved
<1>7. saved' \in Seq(Saved) /\ Len(saved') = h /\ \A i \in DOMAIN saved' : i \in DOMAIN saved /\ saved'[i] = saved[i]
  <2>1. h \in 1..Len(saved) /\ saved' = SubSeq(saved, 1, h) BY <1>1
  <2>2. DOMAIN saved' = 1..h /\ Len(saved') = h BY <1>6, <2>1
  <2>3. \A i \in 1..h : i \in DOMAIN saved /\ saved'[i] = saved[i] BY <1>6, <2>1
  <2>4. saved' \in Seq(Saved) BY <1>6, <2>1
  <2> QED BY <2>2, <2>3, <2>4
<1>8. VotingTypes'
  <2>1. status' \in [Votings -> Statuses] /\ validated' \in SUBSET Members /\ dbState' \in [Votings -> DbStates]
        /\ countingBlock' \in [Votings -> Nat]
    BY <1>1, <1>4 DEF Saved
  <2>2. height' \in Nat /\ height' >= 1 /\ height' <= MaxVotingHeight + 1 /\ Len(saved') = height' - 1
    BY <1>1, <1>7
  <2>3. recorded' \in Seq(VotingRow) /\ newActual' \in Seq(Votings) /\ newNotActual' \in Seq(Votings)
        /\ committees' \in Seq(Draw) /\ happened' \in SUBSET DidRow /\ cachedMembers' \in SUBSET SUBSET Members
    BY <1>2
  <2>4. holder' \in SUBSET Votings /\ reported' \in SUBSET Votings BY <1>1 DEF ActualOracleVotings
  <2> QED BY <1>1, <1>7, <2>1, <2>2, <2>3, <2>4 DEF VotingTypes
<1>9. PendingInv' BY <1>1 DEF PendingInv
<1>10. TablesInv'
  BY <1>0, <1>1, <1>7 DEF TablesInv, HolderIsActual, MissedOnlyIfReported, ActualOracleVotings
<1>11. ASSUME NEW v \in Votings PROVE StatusInv(v)'
  <2>1. RowFits(status[v], dbState[v])' BY <1>1, <1>5
  <2>2. (\A k : ~Did(v, k))' BY <1>3
  <2>3. (RowFits(status[v], dbState[v]) /\ (\A k : ~Did(v, k)) => StatusInv(v))'
    BY DEF RowFits, StatusInv, RunningStates, NotDeployed, Pending, Voting, Completed, Counting, Terminated,
           CanBeProlonged
  <2> QED BY <2>1, <2>2, <2>3
<1> QED BY <1>3, <1>8, <1>9, <1>10, <1>11 DEF VotingInv

\* Every step keeps the invariant.
LEMMA NextVotingInv == VotingInv /\ [VotingNext]_votingVars => VotingInv'
<1> SUFFICES ASSUME VotingInv, [VotingNext]_votingVars PROVE VotingInv' OBVIOUS
<1>1. ASSUME NEW success \in BOOLEAN, AddTxReceiptAndComplete(success) PROVE VotingInv'
  <2>1. CASE ~success \/ (events = <<>> /\ contractDid = {}) BY <1>1, <2>1, EmptyReceiptVotingInv
  <2>2. CASE success /\ ~(events = <<>> /\ contractDid = {})
    <3>1. PICK kind \in EventKinds, stake \in {0, 1} : PendingEvent(kind, stake)
      BY <2>2 DEF VotingInv, PendingInv
    <3>2. AddTxReceiptAndComplete(TRUE) BY <1>1, <2>2
    <3>3. ReceiptStep(kind, stake) BY <3>1, <3>2, ReceiptIsStep
    <3> QED BY <3>3, ReceiptVotingInv
  <2> QED BY <2>1, <2>2
<1>2. CASE AddOracleVotingEvent BY <1>2, ReportVotingInv DEF AddOracleVotingEvent
<1>3. CASE AddOracleLockEvent BY <1>3, ReportVotingInv DEF AddOracleLockEvent
<1>4. CASE AddRefundableOracleLockEvent BY <1>4, ReportVotingInv DEF AddRefundableOracleLockEvent
<1>5. CASE AddMultisigEvent BY <1>5, ReportVotingInv DEF AddMultisigEvent
<1>6. CASE AddTimeLockEvent BY <1>6, ReportVotingInv DEF AddTimeLockEvent
<1>7. CASE UNCHANGED votingVars
  <2>1. UNCHANGED <<recorded, newActual, newNotActual, committees, cachedMembers, happened, status, height, dbVars>>
        /\ UNCHANGED <<validated, tx, txsInBlock, events, contractDid>>
    BY <1>7 DEF votingVars, dbVars
  <2>2. VotingTypes' BY <2>1 DEF VotingInv, VotingTypes, dbVars
  <2>3. PendingInv' BY <2>1 DEF VotingInv, PendingInv, PendingEvent, Possible
  <2> QED BY <2>1, <2>2, <2>3, VotingFrame DEF VotingInv
<1> QED BY <1>1, <1>2, <1>3, <1>4, <1>5, <1>6, <1>7, BeginVotingInv, StakeVotingInv, IdentityVotingInv,
           IndexVotingInv, LoadVotingInv DEF VotingNext

\* What the collector has of the embedded contracts (AddTxReceipt) is that of
\* the successful transactions of the block, for any number of contracts,
\* transactions and blocks, and no committee is older than its block.
THEOREM VotingStatsAreExactAlways == VotingInit /\ [][VotingNext]_votingVars => []VotingStatsAreExact
<1> USE VotingAssumption
<1>1. VotingInv => VotingStatsAreExact
  <2> SUFFICES ASSUME VotingInv PROVE VotingStatsAreExact OBVIOUS
  <2>1. VotingTypeOK BY DEF VotingInv, VotingTypes, StatsInv, VotingTypeOK, Statuses, DbStates
  <2> QED BY <2>1 DEF VotingInv, StatsInv, VotingStatsAreExact
<1> QED BY <1>1, InitVotingInv, NextVotingInv, PTL

\* The votings held in memory (applyOnState, loadState) are actual in the
\* tables, and lack an actual one only if it was reported as ready to be
\* prolonged and its counting block has come.
THEOREM VotingsAgreeWithTablesAlways == VotingInit /\ [][VotingNext]_votingVars => []VotingsAgreeWithTables
<1>1. VotingInv => VotingsAgreeWithTables BY DEF VotingInv, TablesInv, VotingsAgreeWithTables
<1> QED BY <1>1, InitVotingInv, NextVotingInv, PTL

-----------------------------------------------------------------------------
(* Loops over lists. *)

\* A set of numbers has a least one.
LEMMA LeastNat == ASSUME NEW T, T \subseteq Nat, T # {} PROVE \E x \in T : \A y \in T : x <= y
<1> DEFINE R == OpToRel(<,Nat)
<1>1. IsWellFoundedOn(R, Nat) BY NatLessThanWellFounded
<1>2. \A y, x \in Nat : <<y, x>> \in R <=> y < x BY DEF OpToRel
<1> HIDE DEF R
<1>3. PICK x \in T : \A y \in T : ~(<<y, x>> \in R) BY <1>1, WFMin
<1>4. ASSUME NEW y \in T PROVE x <= y
  <2>1. <<y, x>> \notin R BY <1>3
  <2>2. x \in Nat /\ y \in Nat OBVIOUS
  <2>3. ~(y < x) BY <1>2, <2>1, <2>2
  <2> QED BY <2>2, <2>3
<1> QED BY <1>4

\* A set that has zero and with each number the next has all of them.
LEMMA NatInd == ASSUME NEW P, 0 \in P, \A n \in Nat : n \in P => n + 1 \in P PROVE Nat \subseteq P
<1> SUFFICES ASSUME Nat \ P # {} PROVE FALSE OBVIOUS
<1>1. PICK x \in Nat \ P : \A y \in Nat \ P : x <= y BY LeastNat
<1>2. x # 0 BY <1>1
<1>3. x - 1 \in Nat /\ (x - 1) + 1 = x /\ ~(x <= x - 1) BY <1>2
<1>4. x - 1 \in P BY <1>1, <1>3
<1> QED BY <1>3, <1>4

\* A list that is not empty is a list and its last entry.
LEMMA LastApart ==
    ASSUME NEW E, NEW s \in Seq(E), s # <<>>
    PROVE  \E t \in Seq(E), x \in E : s = Append(t, x) /\ Len(s) = Len(t) + 1
<1>1. Len(s) \in Nat /\ Len(s) # 0 /\ DOMAIN s = 1..Len(s) /\ \A i \in 1..Len(s) : s[i] \in E OBVIOUS
<1>10. Len(s) - 1 \in Nat /\ Len(s) = (Len(s) - 1) + 1 BY <1>1
<1>2. PICK n : n \in Nat /\ n = Len(s) - 1 /\ Len(s) = n + 1 BY <1>10
<1>3. PICK t : t = [i \in 1..n |-> s[i]] OBVIOUS
<1>4. t \in Seq(E) /\ Len(t) = n /\ \A i \in 1..n : t[i] = s[i] BY <1>1, <1>2, <1>3
<1>5. PICK x \in E : x = s[n + 1] BY <1>1, <1>2
<1>11. Append(t, x) \in Seq(E) BY <1>4
<1>6. PICK u : u \in Seq(E) /\ u = Append(t, x) BY <1>11
<1>7. Len(u) = n + 1 /\ u[n + 1] = x /\ \A i \in 1..n : u[i] = t[i] BY <1>4, <1>6
<1>8. ASSUME NEW i \in 1..(n + 1) PROVE u[i] = s[i]
  <2>1. CASE i = n + 1 BY <1>5, <1>7, <2>1
  <2>2. CASE i # n + 1
    <3>1. i \in 1..n BY <1>2, <2>2
    <3> QED BY <1>4, <1>7, <3>1
  <2> QED BY <2>1, <2>2
<1>12. Len(u) = Len(s) /\ \A i \in 1..Len(u) : u[i] = s[i] BY <1>2, <1>7, <1>8
<1>9. u = s BY <1>6, <1>12, SeqEqual
<1> QED BY <1>2, <1>4, <1>6, <1>9

\* A set that has the empty list and with each list its extensions has all lists.
LEMMA ListInd ==
    ASSUME NEW E, NEW P, <<>> \in P, \A s \in Seq(E), x \in E : s \in P => Append(s, x) \in P
    PROVE  Seq(E) \subseteq P
<1> DEFINE Q == {n \in Nat : \A s \in Seq(E) : Len(s) = n => s \in P}
<1>1. 0 \in Q
  <2>1. \A s \in Seq(E) : Len(s) = 0 => s = <<>> OBVIOUS
  <2> QED BY <2>1
<1>2. ASSUME NEW n \in Nat, n \in Q PROVE n + 1 \in Q
  <2>1. SUFFICES ASSUME NEW s \in Seq(E), Len(s) = n + 1 PROVE s \in P BY <1>2
  <2>2. s # <<>> BY <2>1
  <2>3. PICK t \in Seq(E), x \in E : s = Append(t, x) /\ Len(s) = Len(t) + 1 BY <2>2, LastApart
  <2>4. Len(t) = n BY <2>1, <2>3
  <2> QED BY <1>2, <2>3, <2>4
<1>3. Nat \subseteq Q
  <2> HIDE DEF Q
  <2> QED BY <1>1, <1>2, NatInd
<1>4. ASSUME NEW s \in Seq(E) PROVE s \in P
  <2>1. Len(s) \in Nat OBVIOUS
  <2> QED BY <1>3, <2>1
<1> QED BY <1>4

\* What a loop with the body F has made of b after each entry of s.
IsFold(g, F, b, s) == g = [n \in 0..Len(s) |-> IF n = 0 THEN b ELSE F[<<g[n - 1], s[n]>>]]

\* ... and in the end.
Fold(F, b, s) == (CHOOSE g : IsFold(g, F, b, s))[Len(s)]

\* The body of a loop leads from a value and an entry to a value.
Body(F, V, E) == F \in [V \X E -> V]

\* There is such a function.
LEMMA FoldExists ==
    ASSUME NEW V, NEW E, NEW F, Body(F, V, E), NEW b \in V, NEW s \in Seq(E)
    PROVE  \E g \in [0..Len(s) -> V] : IsFold(g, F, b, s)
<1> DEFINE P == {t \in Seq(E) : \E g \in [0..Len(t) -> V] : IsFold(g, F, b, t)}
<1>1. <<>> \in P
  <2>1. PICK g : g = [n \in 0..0 |-> b] OBVIOUS
  <2>2. Len(<<>>) = 0 /\ <<>> \in Seq(E) OBVIOUS
  <2>3. \A n \in 0..0 : n = 0 OBVIOUS
  <2>4. IsFold(g, F, b, <<>>) /\ g \in [0..0 -> V] BY <2>1, <2>2, <2>3 DEF IsFold
  <2> QED BY <2>2, <2>4
<1>2. ASSUME NEW t \in Seq(E), NEW x \in E, t \in P PROVE Append(t, x) \in P
  <2>1. PICK g \in [0..Len(t) -> V] : IsFold(g, F, b, t) BY <1>2
  <2>2. PICK m \in Nat : m = Len(t) OBVIOUS
  <2>12. Append(t, x) \in Seq(E) OBVIOUS
  <2>3. PICK u : u \in Seq(E) /\ u = Append(t, x) BY <2>12
  <2>4. Len(u) = m + 1 /\ u[m + 1] = x /\ \A i \in 1..m : u[i] = t[i] BY <2>2, <2>3
  <2>5. g[m] \in V /\ \A k \in 0..m : g[k] \in V BY <2>1, <2>2
  <2>13. F[<<g[m], x>>] \in V BY <2>5 DEF Body
  <2>6. PICK v : v \in V /\ v = F[<<g[m], x>>] BY <2>13
  <2>7. PICK h : h = [k \in 0..(m + 1) |-> IF k = m + 1 THEN v ELSE g[k]] OBVIOUS
  <2>8. ASSUME NEW k \in 0..(m + 1) PROVE h[k] = (IF k = 0 THEN b ELSE F[<<h[k - 1], u[k]>>]) /\ h[k] \in V
    <3>1. CASE k = m + 1
      <4>1. k # 0 /\ k - 1 = m /\ m \in 0..(m + 1) /\ m # m + 1 BY <3>1
      <4>2. h[k] = v /\ h[k - 1] = g[m] BY <2>7, <3>1, <4>1
      <4> QED BY <2>4, <2>6, <3>1, <4>1, <4>2
    <3>2. CASE k # m + 1
      <4>1. k \in 0..m /\ h[k] = g[k] BY <2>7, <3>2
      <4>2. g[k] = IF k = 0 THEN b ELSE F[<<g[k - 1], t[k]>>] BY <2>1, <2>2, <4>1 DEF IsFold
      <4>3. k # 0 => k - 1 \in 0..(m + 1) /\ k - 1 # m + 1 /\ k \in 1..m BY <4>1
      <4>4. k # 0 => h[k - 1] = g[k - 1] /\ u[k] = t[k] BY <2>4, <2>7, <4>3
      <4>5. g[k] \in V BY <2>5, <4>1
      <4> QED BY <4>1, <4>2, <4>4, <4>5
    <3> QED BY <3>1, <3>2
  <2>9. DOMAIN h = 0..(m + 1) /\ h = [k \in 0..(m + 1) |-> h[k]] BY <2>7
  <2>10. IsFold(h, F, b, u) BY <2>4, <2>8, <2>9 DEF IsFold
  <2>11. h \in [0..(m + 1) -> V] BY <2>8, <2>9
  <2> QED BY <2>3, <2>4, <2>10, <2>11
<1>3. Seq(E) \subseteq P
  <2> HIDE DEF P
  <2> QED BY <1>1, <1>2, ListInd
<1> QED BY <1>3

\* Two loops agree as long as their lists do.
LEMMA FoldsAgree ==
    ASSUME NEW F, NEW b, NEW s, NEW t, NEW g, NEW h, IsFold(g, F, b, s), IsFold(h, F, b, t),
           NEW m \in Nat, Len(s) \in Nat, Len(t) \in Nat, m <= Len(s), m <= Len(t), \A i \in 1..m : s[i] = t[i]
    PROVE  \A k \in 0..m : g[k] = h[k]
<1> DEFINE P == {k \in Nat : k <= m => g[k] = h[k]}
<1>1. g[0] = b /\ h[0] = b BY DEF IsFold
<1>2. ASSUME NEW k \in Nat, k \in P, k + 1 <= m PROVE g[k + 1] = h[k + 1]
  <2>1. k + 1 \in 0..Len(s) /\ k + 1 \in 0..Len(t) /\ k + 1 # 0 /\ (k + 1) - 1 = k /\ k + 1 \in 1..m /\ k <= m
    BY <1>2
  <2>2. g[k + 1] = F[<<g[k], s[k + 1]>>] BY <2>1 DEF IsFold
  <2>3. h[k + 1] = F[<<h[k], t[k + 1]>>] BY <2>1 DEF IsFold
  <2> QED BY <1>2, <2>1, <2>2, <2>3
<1>3. 0 \in P /\ \A k \in Nat : k \in P => k + 1 \in P BY <1>1, <1>2
<1>4. Nat \subseteq P
  <2> HIDE DEF P
  <2> QED BY <1>3, NatInd
<1>5. \A k \in 0..m : k \in Nat /\ k <= m OBVIOUS
<1> QED BY <1>4, <1>5

\* What a loop makes of the empty list and of one with another entry.
LEMMA FoldFacts ==
    ASSUME NEW V, NEW E, NEW F, Body(F, V, E), NEW b \in V, NEW s \in Seq(E)
    PROVE  /\ Fold(F, b, <<>>) = b /\ Fold(F, b, s) \in V
           /\ \A x \in E : Fold(F, b, Append(s, x)) = F[<<Fold(F, b, s), x>>]
<1>1. ASSUME NEW t \in Seq(E) PROVE \E g : IsFold(g, F, b, t) /\ Fold(F, b, t) = g[Len(t)]
  <2>1. PICK g : IsFold(g, F, b, t) BY FoldExists
  <2>2. IsFold(CHOOSE h : IsFold(h, F, b, t), F, b, t) BY <2>1
  <2> QED BY <2>2 DEF Fold
<1>2. PICK g \in [0..Len(s) -> V] : IsFold(g, F, b, s) BY FoldExists
<1>3. PICK h : IsFold(h, F, b, s) /\ Fold(F, b, s) = h[Len(s)] BY <1>1
<1>4. Len(s) \in Nat /\ Len(s) \in 0..Len(s) OBVIOUS
<1>5. g[Len(s)] = h[Len(s)]
  <2>1. \A k \in 0..Len(s) : g[k] = h[k] BY <1>2, <1>3, <1>4, FoldsAgree
  <2> QED BY <1>4, <2>1
<1>6. Fold(F, b, s) \in V BY <1>2, <1>3, <1>4, <1>5
<1>7. Fold(F, b, <<>>) = b
  <2>1. <<>> \in Seq(E) /\ Len(<<>>) = 0 /\ 0 \in 0..0 OBVIOUS
  <2>2. PICK e : IsFold(e, F, b, <<>>) /\ Fold(F, b, <<>>) = e[Len(<<>>)] BY <1>1, <2>1
  <2> QED BY <2>1, <2>2 DEF IsFold
<1>8. ASSUME NEW x \in E PROVE Fold(F, b, Append(s, x)) = F[<<Fold(F, b, s), x>>]
  <2>8. Append(s, x) \in Seq(E) OBVIOUS
  <2>1. PICK u : u \in Seq(E) /\ u = Append(s, x) BY <2>8
  <2>2. PICK m \in Nat : m = Len(s) OBVIOUS
  <2>3. Len(u) = m + 1 /\ u[m + 1] = x /\ \A i \in 1..m : s[i] = u[i] BY <2>1, <2>2
  <2>4. PICK e : IsFold(e, F, b, u) /\ Fold(F, b, u) = e[Len(u)] BY <1>1, <2>1
  <2>5. m \in 0..m /\ m + 1 \in 0..(m + 1) /\ m + 1 # 0 /\ (m + 1) - 1 = m /\ m <= m + 1 /\ m <= m OBVIOUS
  <2>6. h[m] = e[m]
    <3>1. \A k \in 0..m : h[k] = e[k] BY <1>3, <2>2, <2>3, <2>4, <2>5, FoldsAgree
    <3> QED BY <2>5, <3>1
  <2>7. e[m + 1] = F[<<e[m], u[m + 1]>>] BY <2>3, <2>4, <2>5 DEF IsFold
  <2> QED BY <1>3, <2>1, <2>2, <2>3, <2>4, <2>6, <2>7
<1> QED BY <1>6, <1>7, <1>8

\* A loop over no entries leaves its first value.
LEMMA FoldEmpty == ASSUME NEW V, NEW E, NEW F, Body(F, V, E), NEW b \in V PROVE Fold(F, b, <<>>) = b
<1>1. PICK s : s \in Seq(E)
  <2>1. <<>> \in Seq(E) OBVIOUS
  <2> QED BY <2>1
<1>2. Fold(F, b, <<>>) = b BY <1>1, FoldFacts
<1> QED BY <1>2

\* A loop ends with one of the values of its body.
LEMMA FoldValue ==
    ASSUME NEW V, NEW E, NEW F, Body(F, V, E), NEW b \in V, NEW s \in Seq(E) PROVE Fold(F, b, s) \in V
BY FoldFacts

\* Another entry runs the body once more.
LEMMA FoldAppend ==
    ASSUME NEW V, NEW E, NEW F, Body(F, V, E), NEW b \in V, NEW s \in Seq(E), NEW x \in E
    PROVE  Fold(F, b, Append(s, x)) = F[<<Fold(F, b, s), x>>]
BY FoldFacts

\* f goes on as the loop does.
GoesOn(f, F, V, s) == \A n \in 1..Len(s) : f[n - 1] \in V => f[n] = F[<<f[n - 1], s[n]>>]

\* ... and ends as it does.
LEMMA LoopIsFold ==
    ASSUME NEW V, NEW E, NEW F, Body(F, V, E), NEW b \in V, NEW s \in Seq(E), NEW f, f[0] = b, GoesOn(f, F, V, s)
    PROVE  f[Len(s)] = Fold(F, b, s)
<1>1. PICK g \in [0..Len(s) -> V] : IsFold(g, F, b, s) BY FoldExists
<1>2. Len(s) \in Nat /\ Len(s) \in 0..Len(s) OBVIOUS
<1> DEFINE P == {n \in Nat : n <= Len(s) => f[n] = g[n]}
<1>3. 0 \in P BY <1>1, <1>2 DEF IsFold
<1>4. ASSUME NEW n \in Nat, n \in P PROVE n + 1 \in P
  <2>1. SUFFICES ASSUME n + 1 <= Len(s) PROVE f[n + 1] = g[n + 1] OBVIOUS
  <2>2. n + 1 \in 0..Len(s) /\ n + 1 # 0 /\ (n + 1) - 1 = n /\ n <= Len(s) /\ n \in 0..Len(s) /\ n + 1 \in 1..Len(s)
    BY <1>2, <2>1
  <2>3. f[n] = g[n] /\ g[n] \in V BY <1>1, <1>4, <2>2
  <2>4. g[n + 1] = F[<<g[n], s[n + 1]>>] BY <1>1, <2>2 DEF IsFold
  <2>5. f[(n + 1) - 1] \in V => f[n + 1] = F[<<f[(n + 1) - 1], s[n + 1]>>] BY <2>2 DEF GoesOn
  <2> QED BY <2>2, <2>3, <2>4, <2>5
<1>5. Nat \subseteq P
  <2> HIDE DEF P
  <2> QED BY <1>3, <1>4, NatInd
<1>6. f[Len(s)] = g[Len(s)] BY <1>2, <1>5
<1>7. IsFold(CHOOSE h : IsFold(h, F, b, s), F, b, s) BY <1>1
<1>8. \A k \in 0..Len(s) : g[k] = (CHOOSE h : IsFold(h, F, b, s))[k] BY <1>1, <1>2, <1>7, FoldsAgree
<1> QED BY <1>2, <1>6, <1>8 DEF Fold

-----------------------------------------------------------------------------
(* Token balances: the operators. *)

TokenAmounts == 0..MaxTokenBalance

TokenRow ==
    {r \in [contract : Tokens, address : {AddressOf(x) : x \in RawHolders}, raw : RawHolders,
            balance : TokenAmounts \cup {NoBalance}] : r.address = AddressOf(r.raw)}

TokenLists == Seq(TokenRow)

\* What an event announces.
Announcement == {r \in TokenRow : r.balance = NoBalance}

\* One row for a contract and an address.
Unique(list) == \A i, j \in DOMAIN list : SameRow(list[i], list[j]) => i = j

\* The rows of a list stay, with their balances or without.
Follows(list, new) ==
    /\ Len(list) <= Len(new)
    /\ \A i \in 1..Len(list) :
          /\ new[i].contract = list[i].contract /\ new[i].address = list[i].address /\ new[i].raw = list[i].raw
          /\ new[i].balance \in {NoBalance, list[i].balance}
    /\ \A i \in 1..Len(new) : i > Len(list) => new[i].balance = NoBalance

\* Who is announced has no balance.
Forgotten(list, announced) ==
    \A u \in Range(announced), i \in 1..Len(list) : SameRow(u, list[i]) => list[i].balance = NoBalance

\* A balance is a number or nil.
LEMMA TokenRowFields ==
    ASSUME NEW r \in TokenRow
    PROVE  /\ r.contract \in Tokens /\ r.raw \in RawHolders /\ r.address = AddressOf(r.raw)
           /\ r.balance \in TokenAmounts \cup {NoBalance}
           /\ \A b \in TokenAmounts \cup {NoBalance} : [r EXCEPT !.balance = b] \in TokenRow
           /\ \A b : /\ [r EXCEPT !.balance = b].contract = r.contract
                     /\ [r EXCEPT !.balance = b].address = r.address
                     /\ [r EXCEPT !.balance = b].raw = r.raw /\ [r EXCEPT !.balance = b].balance = b
BY DEF TokenRow

\* add keeps one row for a contract and an address.
LEMMA AddKeeps ==
    ASSUME NEW list \in Seq(TokenRow), Unique(list), NEW u \in Announcement, NEW new, new = add(list, u)
    PROVE  /\ new \in Seq(TokenRow) /\ Unique(new) /\ Follows(list, new)
           /\ \A i \in 1..Len(new) : SameRow(u, new[i]) => new[i].balance = NoBalance
<1>1. u \in TokenRow /\ u.balance = NoBalance BY DEF Announcement
<1>2. Len(list) \in Nat /\ DOMAIN list = 1..Len(list) /\ \A i \in 1..Len(list) : list[i] \in TokenRow OBVIOUS
<1>3. CASE \E i \in DOMAIN list : SameRow(list[i], u)
  <2>1. new = [i \in 1..Len(list) |-> IF SameRow(list[i], u) THEN [list[i] EXCEPT !.balance = NoBalance] ELSE list[i]]
    BY <1>2, <1>3 DEF add
  <2>2. ASSUME NEW i \in 1..Len(list)
        PROVE  /\ new[i] \in TokenRow
               /\ new[i].contract = list[i].contract /\ new[i].address = list[i].address /\ new[i].raw = list[i].raw
               /\ new[i].balance \in {NoBalance, list[i].balance}
               /\ SameRow(list[i], u) => new[i].balance = NoBalance
    <3>1. PICK r : r = list[i] OBVIOUS
    <3>2. r \in TokenRow BY <1>2, <3>1
    <3>3. CASE SameRow(r, u)
      <4>1. new[i] = [r EXCEPT !.balance = NoBalance] BY <2>1, <3>1, <3>3
      <4> QED BY <3>1, <3>2, <4>1, TokenRowFields
    <3>4. CASE ~SameRow(r, u)
      <4>1. new[i] = r BY <2>1, <3>1, <3>4
      <4> QED BY <3>1, <3>2, <3>4, <4>1
    <3> QED BY <3>3, <3>4
  <2>3. new \in Seq(TokenRow) /\ Len(new) = Len(list) /\ DOMAIN new = 1..Len(list) BY <1>2, <2>1, <2>2
  <2>4. \A i, j \in 1..Len(list) : SameRow(new[i], new[j]) => SameRow(list[i], list[j]) BY <2>2 DEF SameRow
  <2>5. Unique(new) BY <1>2, <2>3, <2>4 DEF Unique
  <2>6. Follows(list, new) BY <1>2, <2>2, <2>3 DEF Follows
  <2>7. \A i \in 1..Len(list) : SameRow(u, new[i]) => SameRow(list[i], u) BY <2>2 DEF SameRow
  <2> QED BY <2>2, <2>3, <2>5, <2>6, <2>7
<1>4. CASE ~\E i \in DOMAIN list : SameRow(list[i], u)
  <2>1. new = Append(list, u) BY <1>4 DEF add
  <2>2. /\ new \in Seq(TokenRow) /\ Len(new) = Len(list) + 1 /\ DOMAIN new = 1..(Len(list) + 1)
        /\ new[Len(list) + 1] = u /\ \A i \in 1..Len(list) : new[i] = list[i]
    BY <1>1, <2>1
  <2>3. PICK n : n \in Nat /\ n = Len(list) BY <1>2
  <2>4. \A i \in 1..(n + 1) : i \in 1..n \/ i = n + 1 BY <2>3
  <2>5. \A i \in 1..n : ~SameRow(new[i], u) /\ ~SameRow(u, new[i]) BY <1>2, <1>4, <2>2, <2>3 DEF SameRow
  <2>6. Unique(new) BY <1>2, <2>2, <2>3, <2>4, <2>5 DEF Unique
  <2>7. Follows(list, new)
    <3>1. \A i \in 1..(n + 1) : i > n => i = n + 1 BY <2>3
    <3>2. n <= n + 1 BY <2>3
    <3> QED BY <1>1, <2>2, <2>3, <3>1, <3>2 DEF Follows
  <2> QED BY <1>1, <2>2, <2>3, <2>4, <2>5, <2>6, <2>7
<1> QED BY <1>3, <1>4

\* The body of the loop over the announced.
AddBody == [p \in Seq(TokenRow) \X Announcement |-> add(p[1], p[2])]

\* add leads from lists to lists.
LEMMA AddIsList == ASSUME NEW list \in Seq(TokenRow), NEW u \in Announcement PROVE add(list, u) \in Seq(TokenRow)
<1>1. u \in TokenRow BY DEF Announcement
<1>2. DOMAIN list = 1..Len(list) /\ \A i \in 1..Len(list) : list[i] \in TokenRow OBVIOUS
<1>3. PICK f : f = [i \in 1..Len(list) |-> IF SameRow(list[i], u) THEN [list[i] EXCEPT !.balance = NoBalance] ELSE list[i]]
  OBVIOUS
<1>4. ASSUME NEW i \in 1..Len(list) PROVE f[i] \in TokenRow BY <1>2, <1>3, TokenRowFields
<1>5. f \in Seq(TokenRow) BY <1>3, <1>4
<1>6. add(list, u) = f \/ add(list, u) = Append(list, u) BY <1>2, <1>3 DEF add
<1> QED BY <1>1, <1>5, <1>6

\* addAll is that loop.
LEMMA AddAllFold ==
    ASSUME NEW list \in Seq(TokenRow), NEW s \in Seq(Announcement)
    PROVE  addAll(list, s) = Fold(AddBody, list, s)
<1> DEFINE Is(f) == f = [n \in 0..Len(s) |-> IF n = 0 THEN list ELSE add(f[n - 1], s[n])]
<1>1. Body(AddBody, TokenLists, Announcement) BY AddIsList DEF AddBody, Body, TokenLists
<1>2. \A v \in Seq(TokenRow), u \in Announcement : AddBody[<<v, u>>] = add(v, u) BY DEF AddBody
<1>3. Len(s) \in Nat /\ \A i \in 1..Len(s) : s[i] \in Announcement OBVIOUS
<1>10. list \in TokenLists BY DEF TokenLists
<1>4. PICK g \in [0..Len(s) -> TokenLists] : IsFold(g, AddBody, list, s) BY <1>1, <1>10, FoldExists
<1>5. ASSUME NEW n \in 0..Len(s) PROVE g[n] = IF n = 0 THEN list ELSE add(g[n - 1], s[n])
  <2>1. g[n] = IF n = 0 THEN list ELSE AddBody[<<g[n - 1], s[n]>>] BY <1>4 DEF IsFold
  <2>2. CASE n # 0
    <3>1. n - 1 \in 0..Len(s) /\ n \in 1..Len(s) BY <1>3, <2>2
    <3>2. g[n - 1] \in TokenLists BY <1>4, <3>1
    <3> QED BY <1>2, <1>3, <2>1, <2>2, <3>1, <3>2 DEF TokenLists
  <2> QED BY <2>1, <2>2
<1>6. Is(g) BY <1>4, <1>5
<1>7. PICK f : Is(f) /\ addAll(list, s) = f[Len(s)]
  <2>1. Is(CHOOSE f : Is(f)) BY <1>6
  <2>2. addAll(list, s) = (CHOOSE f : Is(f))[Len(s)] BY DEF addAll
  <2> QED BY <2>1, <2>2
<1>8. f[0] = list /\ \A n \in 1..Len(s) : f[n] = add(f[n - 1], s[n]) BY <1>3, <1>7
<1>9. GoesOn(f, AddBody, TokenLists, s) BY <1>2, <1>3, <1>8 DEF GoesOn, TokenLists
<1>11. addAll(list, s) = f[Len(s)] BY <1>7
<1> HIDE DEF Is
<1>12. f[Len(s)] = Fold(AddBody, list, s)
  <2>1. f[0] = list BY <1>8
  <2> QED BY <1>1, <1>9, <1>10, <2>1, LoopIsFold
<1> QED BY <1>11, <1>12

\* What is true of a list after the announced have been added.
Added(list, s, v) == v \in Seq(TokenRow) /\ Unique(v) /\ Follows(list, v) /\ Forgotten(v, s)

\* Follows goes through several additions.
LEMMA FollowsOn ==
    ASSUME NEW u \in Seq(TokenRow), NEW v \in Seq(TokenRow), NEW w \in Seq(TokenRow), Follows(u, v), Follows(v, w)
    PROVE  Follows(u, w)
<1>1. Len(u) \in Nat /\ Len(v) \in Nat /\ Len(w) \in Nat OBVIOUS
<1>2. Len(u) <= Len(v) /\ Len(v) <= Len(w) BY DEF Follows
<1>3. ASSUME NEW i \in 1..Len(u)
      PROVE  /\ w[i].contract = u[i].contract /\ w[i].address = u[i].address /\ w[i].raw = u[i].raw
             /\ w[i].balance \in {NoBalance, u[i].balance}
  <2>1. i \in 1..Len(v) BY <1>1, <1>2
  <2> QED BY <2>1 DEF Follows
<1>4. ASSUME NEW i \in 1..Len(w), i > Len(u) PROVE w[i].balance = NoBalance
  <2>1. CASE i > Len(v) BY <2>1 DEF Follows
  <2>2. CASE ~(i > Len(v))
    <3>1. i \in 1..Len(v) BY <1>1, <2>2
    <3>2. v[i].balance = NoBalance /\ w[i].balance \in {NoBalance, v[i].balance} BY <1>4, <3>1 DEF Follows
    <3> QED BY <3>2
  <2> QED BY <2>1, <2>2
<1>5. Len(u) <= Len(w) BY <1>1, <1>2
<1> QED BY <1>3, <1>4, <1>5 DEF Follows

\* The entries of a list with one more.
LEMMA AppendRange ==
    ASSUME NEW S, NEW s \in Seq(S), NEW x \in S
    PROVE  /\ Range(Append(s, x)) = Range(s) \cup {x} /\ Append(s, x) \in Seq(S)
           /\ Len(Append(s, x)) = Len(s) + 1 /\ Append(s, x)[Len(s) + 1] = x
           /\ \A i \in 1..Len(s) : Append(s, x)[i] = s[i]
<1>1. PICK n : n \in Nat /\ n = Len(s) OBVIOUS
<1>2. PICK t : t = Append(s, x) OBVIOUS
<1>3. t \in Seq(S) /\ Len(t) = n + 1 /\ DOMAIN t = 1..(n + 1) /\ DOMAIN s = 1..n BY <1>1, <1>2
<1>4. t[n + 1] = x /\ \A i \in 1..n : t[i] = s[i] BY <1>1, <1>2
<1>5. 1..(n + 1) = (1..n) \cup {n + 1} BY <1>1
<1>6. Range(t) = Range(s) \cup {x} BY <1>3, <1>4, <1>5 DEF Range
<1> QED BY <1>1, <1>2, <1>3, <1>4, <1>6

\* addAll keeps the rows, without the balances that were announced.
LEMMA AddAllKeeps ==
    ASSUME NEW list \in Seq(TokenRow), Unique(list), NEW s \in Seq(Announcement)
    PROVE  Added(list, s, addAll(list, s))
<1> DEFINE P == {t \in Seq(Announcement) : Added(list, t, Fold(AddBody, list, t))}
<1>1. Body(AddBody, TokenLists, Announcement) BY AddIsList DEF AddBody, Body, TokenLists
<1>6. list \in TokenLists BY DEF TokenLists
<1>2. <<>> \in P
  <2>1. <<>> \in Seq(Announcement) /\ Range(<<>>) = {} BY DEF Range
  <2>2. Fold(AddBody, list, <<>>) = list BY <1>1, <1>6, FoldEmpty
  <2>3. Len(list) \in Nat /\ \A i \in 1..Len(list) : ~(i > Len(list)) OBVIOUS
  <2>4. Follows(list, list) BY <2>3 DEF Follows
  <2>5. Forgotten(list, <<>>) BY <2>1 DEF Forgotten
  <2> QED BY <2>1, <2>2, <2>4, <2>5 DEF Added
<1>3. ASSUME NEW t \in Seq(Announcement), NEW x \in Announcement, t \in P PROVE Append(t, x) \in P
  <2>1. PICK v : v = Fold(AddBody, list, t) OBVIOUS
  <2>2. v \in Seq(TokenRow) /\ Added(list, t, v) BY <1>3, <2>1 DEF Added
  <2>3. PICK w : w = add(v, x) OBVIOUS
  <2>4. Fold(AddBody, list, Append(t, x)) = w
    <3>1. Fold(AddBody, list, Append(t, x)) = AddBody[<<v, x>>] BY <1>1, <1>6, <2>1, FoldAppend
    <3> QED BY <2>2, <2>3, <3>1 DEF AddBody
  <2>5. /\ w \in Seq(TokenRow) /\ Unique(w) /\ Follows(v, w)
        /\ \A i \in 1..Len(w) : SameRow(x, w[i]) => w[i].balance = NoBalance
    BY <2>2, <2>3, AddKeeps DEF Added
  <2>6. Follows(list, w) BY <2>2, <2>5, FollowsOn DEF Added
  <2>7. Append(t, x) \in Seq(Announcement) /\ Range(Append(t, x)) = Range(t) \cup {x} BY AppendRange
  <2>8. ASSUME NEW u \in Range(t), NEW i \in 1..Len(w), SameRow(u, w[i]) PROVE w[i].balance = NoBalance
    <3>1. CASE i > Len(v) BY <2>5, <3>1 DEF Follows
    <3>2. CASE ~(i > Len(v))
      <4>0. Len(v) \in Nat BY <2>2
      <4>1. i \in 1..Len(v) BY <3>2, <4>0
      <4>2. /\ w[i].contract = v[i].contract /\ w[i].address = v[i].address
            /\ w[i].balance \in {NoBalance, v[i].balance}
        BY <2>5, <4>1 DEF Follows
      <4>3. SameRow(u, v[i]) BY <2>8, <4>2 DEF SameRow
      <4>4. v[i].balance = NoBalance BY <2>2, <4>1, <4>3 DEF Added, Forgotten
      <4> QED BY <4>2, <4>4
    <3> QED BY <3>1, <3>2
  <2>9. Forgotten(w, Append(t, x)) BY <2>5, <2>7, <2>8 DEF Forgotten
  <2>10. Added(list, Append(t, x), w) BY <2>5, <2>6, <2>9 DEF Added
  <2> QED BY <2>4, <2>7, <2>10
<1>4. Seq(Announcement) \subseteq P
  <2> HIDE DEF P
  <2> QED BY <1>2, <1>3, ListInd
<1>5. Added(list, s, Fold(AddBody, list, s)) BY <1>4
<1> QED BY <1>5, AddAllFold

\* The body of the loop that collects the rows with a balance.
KeepBody == [p \in Seq(TokenRow) \X TokenRow |-> IF p[2].balance = NoBalance THEN p[1] ELSE Append(p[1], p[2])]

\* RowsWithBalance is that loop.
LEMMA RowsWithBalanceFold ==
    ASSUME NEW s \in Seq(TokenRow) PROVE RowsWithBalance(s) = Fold(KeepBody, <<>>, s)
<1>0. PICK e : e = <<>> OBVIOUS
<1>20. e \in TokenLists /\ e \in Seq(TokenRow) BY <1>0 DEF TokenLists
<1> DEFINE Is(f) == f = [n \in 0..Len(s) |-> IF n = 0 THEN e
                           ELSE IF s[n].balance = NoBalance THEN f[n - 1] ELSE Append(f[n - 1], s[n])]
<1>1. Body(KeepBody, TokenLists, TokenRow) BY DEF KeepBody, Body, TokenLists
<1>2. \A v \in Seq(TokenRow), u \in TokenRow :
        KeepBody[<<v, u>>] = IF u.balance = NoBalance THEN v ELSE Append(v, u)
  BY DEF KeepBody
<1>3. Len(s) \in Nat /\ (\A i \in 1..Len(s) : s[i] \in TokenRow) OBVIOUS
<1>4. PICK g \in [0..Len(s) -> TokenLists] : IsFold(g, KeepBody, e, s) BY <1>20, <1>1, FoldExists
<1>5. ASSUME NEW n \in 0..Len(s)
      PROVE  g[n] = IF n = 0 THEN e ELSE IF s[n].balance = NoBalance THEN g[n - 1] ELSE Append(g[n - 1], s[n])
  <2>1. g[n] = IF n = 0 THEN e ELSE KeepBody[<<g[n - 1], s[n]>>] BY <1>4 DEF IsFold
  <2>2. CASE n # 0
    <3>1. n - 1 \in 0..Len(s) /\ n \in 1..Len(s) BY <1>3, <2>2
    <3>2. g[n - 1] \in TokenLists BY <1>4, <3>1
    <3> QED BY <1>2, <1>3, <2>1, <2>2, <3>1, <3>2 DEF TokenLists
  <2> QED BY <2>1, <2>2
<1>6. Is(g) BY <1>4, <1>5
<1>7. PICK f : Is(f) /\ RowsWithBalance(s) = f[Len(s)]
  <2>1. Is(CHOOSE f : Is(f)) BY <1>6
  <2>2. RowsWithBalance(s) = (CHOOSE f : Is(f))[Len(s)] BY <1>0 DEF RowsWithBalance
  <2> QED BY <2>1, <2>2
<1>10. f[0] = e
  <2>1. 0 \in 0..Len(s) BY <1>3
  <2> QED BY <1>7, <2>1
<1>8. \A n \in 1..Len(s) : f[n] = IF s[n].balance = NoBalance THEN f[n - 1] ELSE Append(f[n - 1], s[n])
  <2>1. \A n \in 1..Len(s) : n \in 0..Len(s) /\ n # 0 BY <1>3
  <2> QED BY <1>7, <2>1
<1>9. GoesOn(f, KeepBody, TokenLists, s) BY <1>2, <1>3, <1>8 DEF GoesOn, TokenLists
<1>11. f[Len(s)] = Fold(KeepBody, e, s) BY <1>1, <1>9, <1>10, <1>20, LoopIsFold
<1> QED BY <1>0, <1>7, <1>11

\* The rows with a balance, one for each that the list has.
Kept(s, v) ==
    /\ v \in Seq(TokenRow) /\ Unique(v)
    /\ Range(v) = {r \in Range(s) : r.balance # NoBalance}

\* RowsWithBalance gives these.
LEMMA RowsWithBalanceKeeps ==
    ASSUME NEW s \in Seq(TokenRow), Unique(s) PROVE Kept(s, RowsWithBalance(s))
<1>0. PICK e : e = <<>> OBVIOUS
<1>20. e \in TokenLists /\ e \in Seq(TokenRow) BY <1>0 DEF TokenLists
<1> DEFINE P == {t \in Seq(TokenRow) : Unique(t) => Kept(t, Fold(KeepBody, e, t))}
<1>1. Body(KeepBody, TokenLists, TokenRow) BY DEF KeepBody, Body, TokenLists
<1>2. e \in P
  <2>1. e \in Seq(TokenRow) /\ Range(e) = {} /\ DOMAIN e = {} BY <1>0, <1>20 DEF Range
  <2>2. Fold(KeepBody, e, e) = e BY <1>0, <1>1, <1>20, FoldEmpty
  <2>3. Unique(e) BY <2>1 DEF Unique
  <2> QED BY <2>1, <2>2, <2>3 DEF Kept
<1>3. ASSUME NEW t \in Seq(TokenRow), NEW x \in TokenRow, t \in P PROVE Append(t, x) \in P
  <2>1. PICK u : u = Append(t, x) OBVIOUS
  <2>2. u \in Seq(TokenRow) /\ Range(u) = Range(t) \cup {x} /\ Len(u) = Len(t) + 1
        /\ u[Len(t) + 1] = x /\ \A i \in 1..Len(t) : u[i] = t[i]
    BY <2>1, AppendRange
  <2>3. SUFFICES ASSUME Unique(u) PROVE Kept(u, Fold(KeepBody, e, u)) BY <2>1, <2>2
  <2>4. PICK m : m \in Nat /\ m = Len(t) OBVIOUS
  <2>5. DOMAIN u = 1..(m + 1) /\ DOMAIN t = 1..m /\ m + 1 \in 1..(m + 1)
        /\ \A i \in 1..m : i \in 1..(m + 1) /\ i # m + 1
    BY <2>2, <2>4
  <2>6. Unique(t) BY <2>2, <2>3, <2>4, <2>5 DEF Unique
  <2>7. \A i \in 1..m : ~SameRow(t[i], x) /\ ~SameRow(x, t[i]) BY <2>2, <2>3, <2>4, <2>5 DEF Unique
  <2>8. PICK v : v = Fold(KeepBody, e, t) OBVIOUS
  <2>9. Kept(t, v) /\ v \in Seq(TokenRow) BY <1>3, <2>6, <2>8 DEF Kept
  <2>10. Fold(KeepBody, e, u) = IF x.balance = NoBalance THEN v ELSE Append(v, x)
    <3>1. e \in TokenLists BY <1>20
    <3>2. Fold(KeepBody, e, u) = KeepBody[<<v, x>>] BY <1>1, <2>1, <2>8, <3>1, FoldAppend
    <3> QED BY <2>9, <3>2 DEF KeepBody
  <2>11. CASE x.balance = NoBalance BY <2>2, <2>9, <2>10, <2>11 DEF Kept
  <2>12. CASE x.balance # NoBalance
    <3>1. PICK w : w = Append(v, x) OBVIOUS
    <3>2. w \in Seq(TokenRow) /\ Range(w) = Range(v) \cup {x} /\ Len(w) = Len(v) + 1
          /\ w[Len(v) + 1] = x /\ \A i \in 1..Len(v) : w[i] = v[i]
      BY <2>9, <3>1, AppendRange
    <3>3. PICK k : k \in Nat /\ k = Len(v) BY <2>9
    <3>4. ASSUME NEW i \in 1..k PROVE ~SameRow(w[i], x) /\ ~SameRow(x, w[i])
      <4>6. w[i] = v[i] BY <3>2, <3>3
      <4>7. Range(v) = {v[j] : j \in 1..k} BY <2>9, <3>3 DEF Range
      <4>1. v[i] \in Range(v) /\ w[i] = v[i] BY <4>6, <4>7
      <4>3. v[i] \in Range(t) BY <2>9, <4>1 DEF Kept
      <4>4. Range(t) = {t[j] : j \in 1..m} BY <2>5 DEF Range
      <4>5. v[i] \in {t[j] : j \in 1..m} BY <4>3, <4>4
      <4>2. PICK j \in 1..m : v[i] = t[j] BY <4>5
      <4> QED BY <2>7, <4>1, <4>2
    <3>5. DOMAIN w = 1..(k + 1) /\ DOMAIN v = 1..k /\ \A i \in 1..(k + 1) : i \in 1..k \/ i = k + 1
      BY <2>9, <3>2, <3>3
    <3>6. Unique(v) BY <2>9 DEF Kept
    <3>7. Unique(w) BY <3>2, <3>3, <3>4, <3>5, <3>6 DEF Unique
    <3>8. Range(w) = {r \in Range(u) : r.balance # NoBalance} BY <2>2, <2>9, <2>12, <3>2 DEF Kept
    <3> QED BY <2>10, <2>12, <3>1, <3>2, <3>7, <3>8 DEF Kept
  <2> QED BY <2>11, <2>12
<1>4. Seq(TokenRow) \subseteq P
  <2> HIDE DEF P
  <2> QED BY <1>0, <1>2, <1>3, ListInd
<1> QED BY <1>0, <1>4, RowsWithBalanceFold

Announcements == Seq(Announcement)

\* What the bytes of a holder announce.
LEMMA DetectOne ==
    ASSUME NEW raw \in RawHolders, NEW contract \in Tokens
    PROVE  detectTokenBalanceUpdate(raw, contract) \in Announcements
<1>1. PICK r : r = [contract |-> contract, address |-> AddressOf(raw), raw |-> raw, balance |-> NoBalance] OBVIOUS
<1>2. r \in Announcement BY <1>1 DEF Announcement, TokenRow
<1>3. <<r>> \in Seq(Announcement) /\ <<>> \in Seq(Announcement) BY <1>2
<1>4. detectTokenBalanceUpdate(raw, contract) = <<r>> \/ detectTokenBalanceUpdate(raw, contract) = <<>>
  BY <1>1 DEF detectTokenBalanceUpdate
<1> QED BY <1>3, <1>4 DEF Announcements

\* What an event announces.
LEMMA DetectEvent == ASSUME NEW event \in TokenEvents PROVE detectTokenBalanceUpdates(event) \in Announcements
<1>0. <<>> \in Announcements /\ \A s, t \in Announcements : s \o t \in Announcements BY DEF Announcements
<1>1. event.contract \in Tokens /\ event.name \in {"transfer", "airdrop"} BY DEF TokenEvents
<1>2. CASE \E a, b \in RawHolders : event.data = <<a, b, "amount">> /\ event.name = "transfer"
  <2>1. PICK a, b \in RawHolders : event.data = <<a, b, "amount">> BY <1>2
  <2>2. event.data[1] = a /\ event.data[2] = b /\ Len(event.data) = 3 BY <2>1
  <2>3. detectTokenBalanceUpdates(event)
          = detectTokenBalanceUpdate(a, event.contract) \o detectTokenBalanceUpdate(b, event.contract)
    BY <1>2, <2>2 DEF detectTokenBalanceUpdates
  <2> QED BY <1>0, <1>1, <2>3, DetectOne
<1>3. CASE \E a \in RawHolders : event.data = <<a, "amount">>
  <2>1. PICK a \in RawHolders : event.data = <<a, "amount">> BY <1>3
  <2>2. event.data[1] = a /\ Len(event.data) = 2 BY <2>1
  <2>3. detectTokenBalanceUpdates(event) \in {detectTokenBalanceUpdate(a, event.contract), <<>>}
    BY <1>1, <2>2 DEF detectTokenBalanceUpdates
  <2> QED BY <1>0, <1>1, <2>3, DetectOne
<1> QED BY <1>2, <1>3 DEF TokenEvents

\* The body of the loop over the events.
EventBody == [p \in Announcements \X TokenEvents |-> p[1] \o detectTokenBalanceUpdates(p[2])]

\* What the events of a receipt announce are announcements.
LEMMA DetectAll == ASSUME NEW s \in Seq(TokenEvents) PROVE AnnouncedIn(s) \in Announcements
<1>0. PICK e : e = <<>> OBVIOUS
<1>20. e \in Announcements BY <1>0 DEF Announcements
<1> DEFINE Is(f) == f = [n \in 0..Len(s) |-> IF n = 0 THEN e ELSE f[n - 1] \o detectTokenBalanceUpdates(s[n])]
<1>1. Body(EventBody, Announcements, TokenEvents)
  <2>1. \A t, u \in Announcements : t \o u \in Announcements BY DEF Announcements
  <2> QED BY <2>1, DetectEvent DEF EventBody, Body
<1>2. \A v \in Announcements, u \in TokenEvents : EventBody[<<v, u>>] = v \o detectTokenBalanceUpdates(u)
  BY DEF EventBody
<1>3. Len(s) \in Nat /\ \A i \in 1..Len(s) : s[i] \in TokenEvents OBVIOUS
<1>4. PICK g \in [0..Len(s) -> Announcements] : IsFold(g, EventBody, e, s) BY <1>1, <1>20, FoldExists
<1>5. ASSUME NEW n \in 0..Len(s) PROVE g[n] = IF n = 0 THEN e ELSE g[n - 1] \o detectTokenBalanceUpdates(s[n])
  <2>1. g[n] = IF n = 0 THEN e ELSE EventBody[<<g[n - 1], s[n]>>] BY <1>4 DEF IsFold
  <2>2. CASE n # 0
    <3>1. n - 1 \in 0..Len(s) /\ n \in 1..Len(s) BY <1>3, <2>2
    <3>2. g[n - 1] \in Announcements BY <1>4, <3>1
    <3> QED BY <1>2, <1>3, <2>1, <2>2, <3>1, <3>2
  <2> QED BY <2>1, <2>2
<1>6. Is(g) BY <1>4, <1>5
<1>7. PICK f : Is(f) /\ AnnouncedIn(s) = f[Len(s)]
  <2>1. Is(CHOOSE f : Is(f)) BY <1>6
  <2>2. AnnouncedIn(s) = (CHOOSE f : Is(f))[Len(s)] BY <1>0 DEF AnnouncedIn
  <2> QED BY <2>1, <2>2
<1>8. \A n \in 1..Len(s) : f[n] = f[n - 1] \o detectTokenBalanceUpdates(s[n])
  <2>1. \A n \in 1..Len(s) : n \in 0..Len(s) /\ n # 0 BY <1>3
  <2> QED BY <1>7, <2>1
<1>9. GoesOn(f, EventBody, Announcements, s) BY <1>2, <1>3, <1>8 DEF GoesOn
<1>10. f[0] = e
  <2>1. 0 \in 0..Len(s) BY <1>3
  <2> QED BY <1>7, <2>1
<1>11. f[Len(s)] = Fold(EventBody, e, s) BY <1>1, <1>9, <1>10, <1>20, LoopIsFold
<1>12. Fold(EventBody, e, s) \in Announcements BY <1>1, <1>20, FoldValue
<1> QED BY <1>7, <1>11, <1>12

\* What a receipt announces.
LEMMA ReceiptAnnounces == ASSUME NEW receipt \in Receipts PROVE AnnouncedBy(receipt) \in Announcements
<1>1. CASE receipt.method = "burn" /\ receipt.events = <<>> /\ receipt.from \in RawHolders /\ receipt.contract \in Tokens
  BY <1>1, DetectOne DEF AnnouncedBy
<1>2. CASE receipt.method = "call" /\ \E e \in TokenEvents : receipt.events = <<e>>
  <2>1. receipt.events \in Seq(TokenEvents) BY <1>2
  <2>2. AnnouncedBy(receipt) = AnnouncedIn(receipt.events) BY <1>2 DEF AnnouncedBy
  <2> QED BY <2>1, <2>2, DetectAll
<1> QED BY <1>1, <1>2 DEF Receipts

-----------------------------------------------------------------------------
(* Token balances: the steps. *)

TokenKey(r) == <<r.contract, r.raw>>

\* A row without a balance was misread, one with a balance is right, or its
\* reading is known to have gone wrong or to be overtaken.
RowInv(r, balances, silent, wrong) ==
    IF r.balance = NoBalance THEN TokenKey(r) \in wrong
    ELSE TokenKey(r) \in silent \cup wrong \/ r.balance = balances[TokenKey(r)]

TokenInv ==
    /\ tokenBalances \in [TokenKeys -> TokenAmounts]
    /\ updates \in Seq(TokenRow) /\ Unique(updates)
    /\ balanceRows = RowsWithBalance(updates)
    /\ tokens \in Seq(Tokens)
    /\ \A i \in 1..Len(updates) : RowInv(updates[i], tokenBalances, unannounced, misread)

\* No receipts yet.
LEMMA InitTokenInv == TokenInit => TokenInv
<1> SUFFICES ASSUME TokenInit PROVE TokenInv OBVIOUS
<1>1. updates = <<>> /\ balanceRows = <<>> /\ tokens = <<>> /\ tokenBalances = [k \in TokenKeys |-> 0] BY DEF TokenInit
<1>2. 0 \in TokenAmounts BY TokenAssumption DEF TokenAmounts
<1>3. tokenBalances \in [TokenKeys -> TokenAmounts] BY <1>1, <1>2
<1>4. PICK e : e = <<>> OBVIOUS
<1>5. e \in Seq(TokenRow) /\ e \in Seq(Tokens) /\ DOMAIN e = {} /\ Len(e) = 0 BY <1>4
<1>6. Unique(e) BY <1>5 DEF Unique
<1>7. Kept(e, RowsWithBalance(e)) BY <1>5, <1>6, RowsWithBalanceKeeps
<1>8. Range(RowsWithBalance(e)) = {} /\ RowsWithBalance(e) \in Seq(TokenRow) BY <1>5, <1>7 DEF Kept, Range
<1>9. PICK w : w = RowsWithBalance(e) OBVIOUS
<1>10. \A i \in DOMAIN w : w[i] \in Range(w) BY DEF Range
<1>11. DOMAIN w = {} /\ w \in Seq(TokenRow) BY <1>8, <1>9, <1>10
<1>12. w = <<>> BY <1>11
<1>13. \A i \in 1..0 : FALSE OBVIOUS
<1> QED BY <1>1, <1>3, <1>4, <1>5, <1>6, <1>9, <1>12, <1>13 DEF TokenInv

\* What a receipt leaves, whatever it announced and whatever the answer was.
LEMMA ReceiptTokenInv ==
    ASSUME TokenInv, NEW receipt, AnnouncedBy(receipt) \in Announcements, NEW answer \in Answers,
           tokenBalances' \in [TokenKeys -> TokenAmounts], tokens' \in Seq(Tokens),
           applyTxReceipt(receipt, answer)
    PROVE  TokenInv'
<1>1. PICK s : s \in Seq(Announcement) /\ s = AnnouncedBy(receipt) BY DEF Announcements
<1>2. PICK v : v = addAll(updates, s) OBVIOUS
<1>3. Added(updates, s, v) BY <1>1, <1>2, AddAllKeeps DEF TokenInv
<1>4. v \in Seq(TokenRow) /\ Unique(v) /\ Follows(updates, v) /\ Forgotten(v, s) BY <1>3 DEF Added
<1>5. PICK m : m \in Nat /\ m = Len(v) BY <1>4
<1>6. DOMAIN v = 1..m /\ \A i \in 1..m : v[i] \in TokenRow BY <1>4, <1>5
<1>7. PICK w : w = [i \in 1..m |-> IF v[i].balance = NoBalance
                                  THEN [v[i] EXCEPT !.balance = BalanceAnswer(v[i], answer)] ELSE v[i]]
  OBVIOUS
<1>8. PICK A : A = {TokenKey(r) : r \in {x \in Range(v) : x.balance = NoBalance}} OBVIOUS
<1>9. PICK N : N = {TokenKey(r) : r \in {x \in Range(v) : \E u \in Range(s) : SameRow(u, x)}} OBVIOUS
<1>10. /\ updates' = w /\ balanceRows' = RowsWithBalance(w)
       /\ misread' = IF answer = "ok" THEN misread \ A ELSE misread \cup A
       /\ unannounced' = (unannounced \cup {k \in TokenKeys : tokenBalances'[k] # tokenBalances[k]}) \ (A \cup N)
  BY <1>1, <1>2, <1>6, <1>7, <1>8, <1>9 DEF applyTxReceipt, TokenKey
<1>11. ASSUME NEW i \in 1..m, v[i].balance = NoBalance
       PROVE  /\ w[i] \in TokenRow /\ w[i].contract = v[i].contract /\ w[i].address = v[i].address
              /\ RowInv(w[i], tokenBalances', unannounced', misread')
  <2>1. PICK r : r = v[i] /\ r \in TokenRow BY <1>6
  <2>2. PICK b : b = BalanceAnswer(r, answer) OBVIOUS
  <2>3. TokenKey(r) \in A BY <1>6, <1>8, <1>11, <2>1 DEF Range
  <2>4. TokenKey(r) \in TokenKeys /\ tokenBalances'[TokenKey(r)] \in TokenAmounts
    BY <2>1, TokenRowFields DEF TokenKey, TokenKeys
  <2>5. /\ answer = "ok" => b = tokenBalances'[TokenKey(r)]
        /\ answer = "garbled" => b = 0
        /\ answer = "failed" => b = NoBalance
    BY <2>2 DEF BalanceAnswer, TokenKey
  <2>6. 0 \in TokenAmounts /\ NoBalance \notin TokenAmounts BY TokenAssumption DEF TokenAmounts, NoBalance
  <2>7. answer = "ok" \/ answer = "garbled" \/ answer = "failed" BY DEF Answers
  <2>8. b \in TokenAmounts \cup {NoBalance} BY <2>4, <2>5, <2>6, <2>7
  <2>9. PICK q : q = [r EXCEPT !.balance = b] OBVIOUS
  <2>10. w[i] = q BY <1>7, <1>11, <2>1, <2>2, <2>9
  <2>11. q \in TokenRow /\ q.contract = r.contract /\ q.address = r.address /\ q.raw = r.raw /\ q.balance = b
    <3>1. \A x \in TokenAmounts \cup {NoBalance} : [r EXCEPT !.balance = x] \in TokenRow BY <2>1, TokenRowFields
    <3>2. q \in TokenRow BY <2>8, <2>9, <3>1
    <3> QED BY <2>1, <2>9, <3>2 DEF TokenRow
  <2>12. TokenKey(q) = TokenKey(r) BY <2>11 DEF TokenKey
  <2>13. answer # "ok" => TokenKey(q) \in misread' BY <1>10, <2>3, <2>12
  <2>14. RowInv(q, tokenBalances', unannounced', misread')
    BY <2>4, <2>5, <2>6, <2>7, <2>11, <2>12, <2>13 DEF RowInv
  <2> QED BY <2>1, <2>10, <2>11, <2>14
<1>12. ASSUME NEW i \in 1..m, v[i].balance # NoBalance
       PROVE  w[i] = v[i] /\ RowInv(w[i], tokenBalances', unannounced', misread')
  <2>1. PICK r : r = v[i] /\ r \in TokenRow BY <1>6
  <2>2. w[i] = r BY <1>7, <1>12, <2>1
  <2>3. i \in 1..Len(updates)
    <3>1. ~(i > Len(updates)) BY <1>4, <1>5, <1>12 DEF Follows
    <3>2. Len(updates) \in Nat BY DEF TokenInv
    <3> QED BY <3>1, <3>2
  <2>4. PICK q : q = updates[i] OBVIOUS
  <2>5. r.contract = q.contract /\ r.raw = q.raw /\ r.balance = q.balance
    BY <1>4, <1>12, <2>1, <2>3, <2>4 DEF Follows
  <2>6. TokenKey(r) = TokenKey(q) BY <2>5 DEF TokenKey
  <2>7. RowInv(q, tokenBalances, unannounced, misread) BY <2>3, <2>4 DEF TokenInv
  <2>8. ASSUME NEW x \in Range(v), TokenKey(x) = TokenKey(r) PROVE x = r
    <3>1. PICK j \in 1..m : x = v[j] BY <1>6 DEF Range
    <3>2. x \in TokenRow /\ x.contract = r.contract /\ x.raw = r.raw BY <1>6, <2>8, <3>1 DEF TokenKey
    <3>3. SameRow(x, r) BY <2>1, <3>2, TokenRowFields DEF SameRow
    <3>4. i = j BY <1>4, <1>6, <2>1, <3>1, <3>3 DEF Unique
    <3> QED BY <2>1, <3>1, <3>4
  <2>9. TokenKey(r) \notin A BY <1>8, <1>12, <2>1, <2>8
  <2>10. TokenKey(r) \notin N
    <3>1. SUFFICES ASSUME TokenKey(r) \in N PROVE FALSE OBVIOUS
    <3>2. PICK x \in Range(v) : TokenKey(x) = TokenKey(r) /\ \E u \in Range(s) : SameRow(u, x) BY <1>9, <3>1
    <3>3. x = r BY <2>8, <3>2
    <3>4. v[i].balance = NoBalance BY <1>4, <1>5, <2>1, <3>2, <3>3 DEF Forgotten
    <3> QED BY <1>12, <3>4
  <2>11. TokenKey(r) \in TokenKeys BY <2>1, TokenRowFields DEF TokenKey, TokenKeys
  <2>12. TokenKey(r) \in unannounced \cup misread \/ r.balance = tokenBalances[TokenKey(r)]
    BY <1>12, <2>1, <2>5, <2>6, <2>7 DEF RowInv
  <2>13. TokenKey(r) \in misread => TokenKey(r) \in misread' BY <1>10, <2>9
  <2>14. TokenKey(r) \in unannounced \/ tokenBalances'[TokenKey(r)] # tokenBalances[TokenKey(r)] => TokenKey(r) \in unannounced'
    BY <1>10, <2>9, <2>10, <2>11
  <2>15. RowInv(r, tokenBalances', unannounced', misread') BY <1>12, <2>1, <2>12, <2>13, <2>14 DEF RowInv
  <2> QED BY <2>1, <2>2, <2>15
<1>13. \A i \in 1..m : w[i] \in TokenRow /\ w[i].contract = v[i].contract /\ w[i].address = v[i].address
  BY <1>6, <1>11, <1>12
<1>14. w \in Seq(TokenRow) /\ Len(w) = m /\ DOMAIN w = 1..m BY <1>5, <1>7, <1>13
<1>15. \A i, j \in 1..m : SameRow(w[i], w[j]) => SameRow(v[i], v[j]) BY <1>13 DEF SameRow
<1>16. Unique(w) BY <1>4, <1>6, <1>14, <1>15 DEF Unique
<1>17. \A i \in 1..m : RowInv(w[i], tokenBalances', unannounced', misread') BY <1>11, <1>12
<1> QED BY <1>10, <1>14, <1>16, <1>17 DEF TokenInv

\* Every step keeps the invariant.
LEMMA NextTokenInv == TokenInv /\ [TokenNext]_tokenVars => TokenInv'
<1> SUFFICES ASSUME TokenInv, [TokenNext]_tokenVars PROVE TokenInv' OBVIOUS
<1>1. ASSUME NEW receipt \in Receipts, NEW answer \in Answers, NEW key \in TokenKeys, NEW balance \in 0..MaxTokenBalance,
             AddTokenTxReceipt(receipt, [tokenBalances EXCEPT ![key] = balance], answer)
      PROVE  TokenInv'
  <2>1. tokenBalances' \in [TokenKeys -> TokenAmounts] BY <1>1 DEF AddTokenTxReceipt, TokenInv, TokenAmounts
  <2>2. tokens' \in Seq(Tokens) BY <1>1 DEF AddTokenTxReceipt, TokenInv
  <2>3. applyTxReceipt(receipt, answer) BY <1>1 DEF AddTokenTxReceipt
  <2>4. AnnouncedBy(receipt) \in Announcements BY ReceiptAnnounces
  <2> QED BY <2>1, <2>2, <2>3, <2>4, ReceiptTokenInv
<1>2. ASSUME NEW contracts \in SUBSET Tokens, NEW info, NEW answer \in Answers, AddDeployTxReceipt(contracts, info, answer)
      PROVE  TokenInv'
  <2>1. tokenBalances' \in [TokenKeys -> TokenAmounts] BY <1>2 DEF AddDeployTxReceipt, TokenInv
  <2>2. tokens' \in Seq(Tokens)
    <3>1. PICK S : S = {c \in contracts : InfoDetects(info)} OBVIOUS
    <3>2. S \subseteq Tokens /\ IsFiniteSet(S) BY <3>1, TokenAssumption, FS_Subset
    <3>3. SetToSeq(S) \in Seq(S) BY <3>2, PlacesInList
    <3>4. SetToSeq(S) \in Seq(Tokens) BY <3>2, <3>3
    <3>5. tokens' = tokens \o SetToSeq(S) BY <1>2, <3>1 DEF AddDeployTxReceipt, detectTokens
    <3> QED BY <3>4, <3>5 DEF TokenInv
  <2>3. PICK receipt : receipt = [method |-> "deploy", from |-> "none", contract |-> "none", events |-> <<>>] OBVIOUS
  <2>4. applyTxReceipt(receipt, answer) BY <1>2, <2>3 DEF AddDeployTxReceipt
  <2>5. AnnouncedBy(receipt) = AnnouncedIn(<<>>) BY <2>3 DEF AnnouncedBy
  <2>6. <<>> \in Seq(TokenEvents) OBVIOUS
  <2>7. AnnouncedBy(receipt) \in Announcements BY <2>5, <2>6, DetectAll
  <2> QED BY <2>1, <2>2, <2>4, <2>7, ReceiptTokenInv
<1>3. CASE UNCHANGED tokenVars BY <1>3 DEF tokenVars, TokenInv
<1> QED BY <1>1, <1>2, <1>3 DEF TokenNext

\* The list of a block has at most one row for a contract and an address, which
\* says what the contract answered last, and an announced holder is missing only
\* if its last reading failed, for every number of contracts and holders and
\* every way in which events spell a holder (applyTxReceipt).
THEOREM TokenRowsAreSoundAlways == TokenInit /\ [][TokenNext]_tokenVars => []TokenRowsAreSound
<1>1. TokenInv => TokenRowsAreSound
  <2> SUFFICES ASSUME TokenInv PROVE TokenRowsAreSound OBVIOUS
  <2>1. Kept(updates, balanceRows) BY RowsWithBalanceKeeps DEF TokenInv
  <2>2. Unique(balanceRows) /\ balanceRows \in Seq(TokenRow)
        /\ Range(balanceRows) = {r \in Range(updates) : r.balance # NoBalance}
    BY <2>1 DEF Kept
  <2>3. updates \in Seq(TokenRow) /\ tokens \in Seq(Tokens) BY DEF TokenInv
  <2>4. \A r \in Range(updates) : r \in TokenRow /\ RowInv(r, tokenBalances, unannounced, misread)
    BY <2>3 DEF TokenInv, Range
  <2>5. TokenTypeOK
    <3>1. \A r \in Range(balanceRows) : r.balance \in 0..MaxTokenBalance
      BY <2>2, <2>4, TokenRowFields DEF TokenAmounts
    <3>2. Range(tokens) \subseteq Tokens BY <2>3 DEF Range
    <3> QED BY <3>1, <3>2 DEF TokenTypeOK, TokenInv, TokenAmounts
  <2>6. TokenRowsAreCurrent
    <3>1. \A r \in Range(balanceRows) : TokenKey(r) \in unannounced \cup misread \/ r.balance = tokenBalances[TokenKey(r)]
      BY <2>2, <2>4 DEF RowInv
    <3> QED BY <2>2, <3>1 DEF TokenRowsAreCurrent, Unique, TokenKey
  <2>7. MissingOnlyIfMisread
    <3>1. ASSUME NEW u \in Range(updates), u.balance # NoBalance PROVE \E r \in Range(balanceRows) : SameRow(r, u)
      BY <2>2, <3>1 DEF SameRow
    <3>2. ASSUME NEW u \in Range(updates), u.balance = NoBalance PROVE <<u.contract, u.raw>> \in misread
      BY <2>4, <3>2 DEF RowInv, TokenKey
    <3> QED BY <3>1, <3>2 DEF MissingOnlyIfMisread
  <2> QED BY <2>5, <2>6, <2>7 DEF TokenRowsAreSound
<1> QED BY <1>1, InitTokenInv, NextTokenInv, PTL

-----------------------------------------------------------------------------
(* Contract calls: the loops. *)

\* Coins that an address has burnt.
BurntCoins == [addr : Holders, amount : Nat]
UpdateLists == Seq(Update)

\* The rows of a transaction.
TxRows == [tx : Nat, rows : UpdateLists]

\* The body of the loop of Filter.
FilterBody(kept) == [p \in UpdateLists \X Update |-> IF p[2] \in kept THEN Append(p[1], p[2]) ELSE p[1]]

\* Filter is that loop.
LEMMA FilterFold ==
    ASSUME NEW kept, NEW s \in Seq(Update) PROVE Filter(s, kept) = Fold(FilterBody(kept), <<>>, s)
<1>0. PICK e : e = <<>> OBVIOUS
<1>20. e \in UpdateLists /\ e \in Seq(Update) BY <1>0 DEF UpdateLists
<1> DEFINE Is(f) == f = [n \in 0..Len(s) |-> IF n = 0 THEN e
                           ELSE IF s[n] \in kept THEN Append(f[n - 1], s[n]) ELSE f[n - 1]]
<1>1. Body(FilterBody(kept), UpdateLists, Update) BY DEF FilterBody, Body, UpdateLists
<1>2. \A v \in UpdateLists, u \in Update : FilterBody(kept)[<<v, u>>] = IF u \in kept THEN Append(v, u) ELSE v
  BY DEF FilterBody
<1>3. Len(s) \in Nat /\ (\A i \in 1..Len(s) : s[i] \in Update) OBVIOUS
<1>4. PICK g \in [0..Len(s) -> UpdateLists] : IsFold(g, FilterBody(kept), e, s) BY <1>20, <1>1, FoldExists
<1>5. ASSUME NEW n \in 0..Len(s)
      PROVE  g[n] = IF n = 0 THEN e ELSE IF s[n] \in kept THEN Append(g[n - 1], s[n]) ELSE g[n - 1]
  <2>1. g[n] = IF n = 0 THEN e ELSE FilterBody(kept)[<<g[n - 1], s[n]>>] BY <1>4 DEF IsFold
  <2>2. CASE n # 0
    <3>1. n - 1 \in 0..Len(s) /\ n \in 1..Len(s) BY <1>3, <2>2
    <3>2. g[n - 1] \in UpdateLists BY <1>4, <3>1
    <3>3. s[n] \in Update BY <1>3, <3>1
    <3> QED BY <1>2, <2>1, <2>2, <3>2, <3>3
  <2> QED BY <2>1, <2>2
<1>6. Is(g) BY <1>4, <1>5
<1>7. PICK f : Is(f) /\ Filter(s, kept) = f[Len(s)]
  <2>1. Is(CHOOSE f : Is(f)) BY <1>6
  <2>2. Filter(s, kept) = (CHOOSE f : Is(f))[Len(s)] BY <1>0, Zenon DEF Filter
  <2> QED BY <2>1, <2>2
<1>10. f[0] = e
  <2>1. 0 \in 0..Len(s) BY <1>3
  <2> QED BY <1>7, <2>1
<1>8. \A n \in 1..Len(s) : f[n] = IF s[n] \in kept THEN Append(f[n - 1], s[n]) ELSE f[n - 1]
  <2>1. \A n \in 1..Len(s) : n \in 0..Len(s) /\ n # 0 BY <1>3
  <2> QED BY <1>7, <2>1
<1>9. GoesOn(f, FilterBody(kept), UpdateLists, s)
  <2>1. ASSUME NEW n \in 1..Len(s), f[n - 1] \in UpdateLists PROVE f[n] = FilterBody(kept)[<<f[n - 1], s[n]>>]
    <3>1. s[n] \in Update BY <1>3
    <3> QED BY <1>2, <1>8, <2>1, <3>1
  <2> QED BY <2>1 DEF GoesOn
<1>11. f[Len(s)] = Fold(FilterBody(kept), e, s) BY <1>1, <1>9, <1>10, <1>20, LoopIsFold
<1> QED BY <1>0, <1>7, <1>11

\* The updates kept of a list, one update after the other.
LEMMA FilterFacts ==
    ASSUME NEW kept, NEW s \in Seq(Update)
    PROVE  /\ Filter(<<>>, kept) = <<>> /\ Filter(s, kept) \in UpdateLists
           /\ \A x \in Update : Filter(Append(s, x), kept) = IF x \in kept THEN Append(Filter(s, kept), x) ELSE Filter(s, kept)
<1>0. PICK e : e = <<>> OBVIOUS
<1>20. e \in UpdateLists /\ e \in Seq(Update) BY <1>0 DEF UpdateLists
<1>1. Body(FilterBody(kept), UpdateLists, Update) BY DEF FilterBody, Body, UpdateLists
<1>2. Filter(e, kept) = e
  <2>1. Fold(FilterBody(kept), e, <<>>) = e BY <1>1, <1>20, FoldEmpty
  <2>2. Filter(e, kept) = Fold(FilterBody(kept), <<>>, e) BY <1>20, FilterFold
  <2> QED BY <1>0, <2>1, <2>2
<1>3. Filter(s, kept) = Fold(FilterBody(kept), e, s) BY <1>0, FilterFold
<1>4. Filter(s, kept) \in UpdateLists BY <1>1, <1>3, <1>20, FoldValue
<1>5. ASSUME NEW x \in Update PROVE Filter(Append(s, x), kept) = IF x \in kept THEN Append(Filter(s, kept), x) ELSE Filter(s, kept)
  <2>1. PICK t : t = Append(s, x) OBVIOUS
  <2>2. t \in Seq(Update) BY <2>1
  <2>3. Filter(t, kept) = Fold(FilterBody(kept), e, t) BY <1>0, <2>2, FilterFold
  <2>8. PICK F : F = FilterBody(kept) OBVIOUS
  <2>9. Body(F, UpdateLists, Update) /\ e \in UpdateLists BY <1>1, <1>20, <2>8
  <2>10. Fold(F, e, Append(s, x)) = F[<<Fold(F, e, s), x>>] BY <2>9, FoldAppend
  <2>4. Fold(FilterBody(kept), e, t) = FilterBody(kept)[<<Fold(FilterBody(kept), e, s), x>>] BY <2>1, <2>8, <2>10
  <2>5. PICK v : v = Filter(s, kept) OBVIOUS
  <2>6. Filter(t, kept) = FilterBody(kept)[<<v, x>>] /\ v \in UpdateLists BY <1>3, <1>4, <2>3, <2>4, <2>5
  <2>7. FilterBody(kept)[<<v, x>>] = IF x \in kept THEN Append(v, x) ELSE v BY <2>6 DEF FilterBody
  <2> QED BY <2>1, <2>5, <2>6, <2>7
<1> QED BY <1>0, <1>2, <1>4, <1>5

\* The body of the loop of BalanceAfter.
BalanceBody(a) == [p \in Int \X Update |-> IF p[2].addr # a THEN p[1] ELSE IF p[2].old = p[1] THEN p[2].new ELSE Gap]

\* BalanceAfter is that loop.
LEMMA BalanceAfterFold ==
    ASSUME NEW a, NEW b \in Int, NEW s \in Seq(Update) PROVE BalanceAfter(s, a, b) = Fold(BalanceBody(a), b, s)
<1>20. b \in Int OBVIOUS
<1> DEFINE Is(f) == f = [n \in 0..Len(s) |-> IF n = 0 THEN b
                           ELSE IF s[n].addr # a THEN f[n - 1] ELSE IF s[n].old = f[n - 1] THEN s[n].new ELSE Gap]
<1>1. Body(BalanceBody(a), Int, Update) BY DEF BalanceBody, Body, Update, Gap
<1>2. \A v \in Int, u \in Update : BalanceBody(a)[<<v, u>>] = IF u.addr # a THEN v ELSE IF u.old = v THEN u.new ELSE Gap
  BY DEF BalanceBody
<1>3. Len(s) \in Nat /\ (\A i \in 1..Len(s) : s[i] \in Update) OBVIOUS
<1>4. PICK g \in [0..Len(s) -> Int] : IsFold(g, BalanceBody(a), b, s) BY <1>20, <1>1, FoldExists
<1>5. ASSUME NEW n \in 0..Len(s)
      PROVE  g[n] = IF n = 0 THEN b ELSE IF s[n].addr # a THEN g[n - 1] ELSE IF s[n].old = g[n - 1] THEN s[n].new ELSE Gap
  <2>1. g[n] = IF n = 0 THEN b ELSE BalanceBody(a)[<<g[n - 1], s[n]>>] BY <1>4 DEF IsFold
  <2>2. CASE n # 0
    <3>1. n - 1 \in 0..Len(s) /\ n \in 1..Len(s) BY <1>3, <2>2
    <3>2. g[n - 1] \in Int BY <1>4, <3>1
    <3>3. s[n] \in Update BY <1>3, <3>1
    <3> QED BY <1>2, <2>1, <2>2, <3>2, <3>3
  <2> QED BY <2>1, <2>2
<1>6. Is(g) BY <1>4, <1>5
<1>7. PICK f : Is(f) /\ BalanceAfter(s, a, b) = f[Len(s)]
  <2>1. Is(CHOOSE f : Is(f)) BY <1>6
  <2>2. BalanceAfter(s, a, b) = (CHOOSE f : Is(f))[Len(s)] BY Zenon DEF BalanceAfter
  <2> QED BY <2>1, <2>2
<1>10. f[0] = b
  <2>1. 0 \in 0..Len(s) BY <1>3
  <2> QED BY <1>7, <2>1
<1>8. \A n \in 1..Len(s) : f[n] = IF s[n].addr # a THEN f[n - 1] ELSE IF s[n].old = f[n - 1] THEN s[n].new ELSE Gap
  <2>1. \A n \in 1..Len(s) : n \in 0..Len(s) /\ n # 0 BY <1>3
  <2> QED BY <1>7, <2>1
<1>9. GoesOn(f, BalanceBody(a), Int, s)
  <2>1. ASSUME NEW n \in 1..Len(s), f[n - 1] \in Int PROVE f[n] = BalanceBody(a)[<<f[n - 1], s[n]>>]
    <3>1. s[n] \in Update BY <1>3
    <3> QED BY <1>2, <1>8, <2>1, <3>1
  <2> QED BY <2>1 DEF GoesOn
<1>11. BalanceAfter(s, a, b) = f[Len(s)] BY <1>7
<1> HIDE DEF Is
<1>12. f[Len(s)] = Fold(BalanceBody(a), b, s)
  <2>1. PICK F : F = BalanceBody(a) OBVIOUS
  <2>2. Body(F, Int, Update) /\ GoesOn(f, F, Int, s) BY <1>1, <1>9, <2>1
  <2>3. f[Len(s)] = Fold(F, b, s) BY <1>10, <1>20, <2>2, LoopIsFold
  <2> QED BY <2>1, <2>3
<1> QED BY <1>11, <1>12

\* Where a list leads, one update after the other.
LEMMA BalanceAfterFacts ==
    ASSUME NEW a, NEW b \in Int, NEW s \in Seq(Update)
    PROVE  /\ BalanceAfter(<<>>, a, b) = b /\ BalanceAfter(s, a, b) \in Int
           /\ \A x \in Update : BalanceAfter(Append(s, x), a, b) = IF x.addr # a THEN BalanceAfter(s, a, b) ELSE IF x.old = BalanceAfter(s, a, b) THEN x.new ELSE Gap
<1>0. PICK e : e = <<>> OBVIOUS
<1>20. b \in Int /\ e \in Seq(Update) BY <1>0
<1>1. Body(BalanceBody(a), Int, Update) BY DEF BalanceBody, Body, Update, Gap
<1>2. BalanceAfter(e, a, b) = b
  <2>1. Fold(BalanceBody(a), b, <<>>) = b BY <1>1, <1>20, FoldEmpty
  <2>2. BalanceAfter(e, a, b) = Fold(BalanceBody(a), b, e) BY <1>20, BalanceAfterFold
  <2> QED BY <1>0, <2>1, <2>2
<1>3. BalanceAfter(s, a, b) = Fold(BalanceBody(a), b, s) BY <1>0, BalanceAfterFold
<1>4. BalanceAfter(s, a, b) \in Int BY <1>1, <1>3, <1>20, FoldValue
<1>5. ASSUME NEW x \in Update PROVE BalanceAfter(Append(s, x), a, b) = IF x.addr # a THEN BalanceAfter(s, a, b) ELSE IF x.old = BalanceAfter(s, a, b) THEN x.new ELSE Gap
  <2>1. PICK t : t = Append(s, x) OBVIOUS
  <2>2. t \in Seq(Update) BY <2>1
  <2>3. BalanceAfter(t, a, b) = Fold(BalanceBody(a), b, t) BY <1>0, <2>2, BalanceAfterFold
  <2>8. PICK F : F = BalanceBody(a) OBVIOUS
  <2>9. Body(F, Int, Update) /\ b \in Int BY <1>1, <1>20, <2>8
  <2>10. Fold(F, b, Append(s, x)) = F[<<Fold(F, b, s), x>>] BY <2>9, FoldAppend
  <2>4. Fold(BalanceBody(a), b, t) = BalanceBody(a)[<<Fold(BalanceBody(a), b, s), x>>] BY <2>1, <2>8, <2>10
  <2>5. PICK v : v = BalanceAfter(s, a, b) OBVIOUS
  <2>6. BalanceAfter(t, a, b) = BalanceBody(a)[<<v, x>>] /\ v \in Int BY <1>3, <1>4, <2>3, <2>4, <2>5
  <2>7. BalanceBody(a)[<<v, x>>] = IF x.addr # a THEN v ELSE IF x.old = v THEN x.new ELSE Gap BY <2>6 DEF BalanceBody
  <2> QED BY <2>1, <2>5, <2>6, <2>7
<1> QED BY <1>0, <1>2, <1>4, <1>5

\* One more update: it leads on from where the list led, or there is a gap.
LEMMA BalanceAfterAppend ==
    ASSUME NEW a, NEW b \in Int, NEW s \in Seq(Update), NEW x \in Update
    PROVE  BalanceAfter(Append(s, x), a, b) =
             IF x.addr # a THEN BalanceAfter(s, a, b) ELSE IF x.old = BalanceAfter(s, a, b) THEN x.new ELSE Gap
<1>1. PICK c : c = BalanceAfter(s, a, b) OBVIOUS
<1>2. \A y \in Update : BalanceAfter(Append(s, y), a, b) = IF y.addr # a THEN c ELSE IF y.old = c THEN y.new ELSE Gap
  BY <1>1, BalanceAfterFacts
<1> QED BY <1>1, <1>2

\* The body of the loop of CoinsIn.
CoinsBody == [p \in Nat \X BurntCoins |-> p[1] + p[2].amount]

\* CoinsIn is that loop.
LEMMA CoinsInFold ==
    ASSUME NEW s \in Seq(BurntCoins) PROVE CoinsIn(s) = Fold(CoinsBody, 0, s)
<1>20. 0 \in Nat OBVIOUS
<1> DEFINE Is(f) == f = [n \in 0..Len(s) |-> IF n = 0 THEN 0
                           ELSE f[n - 1] + s[n].amount]
<1>1. Body(CoinsBody, Nat, BurntCoins) BY DEF CoinsBody, Body, BurntCoins
<1>2. \A v \in Nat, u \in BurntCoins : CoinsBody[<<v, u>>] = v + u.amount
  BY DEF CoinsBody
<1>3. Len(s) \in Nat /\ (\A i \in 1..Len(s) : s[i] \in BurntCoins) OBVIOUS
<1>4. PICK g \in [0..Len(s) -> Nat] : IsFold(g, CoinsBody, 0, s) BY <1>20, <1>1, FoldExists
<1>5. ASSUME NEW n \in 0..Len(s)
      PROVE  g[n] = IF n = 0 THEN 0 ELSE g[n - 1] + s[n].amount
  <2>1. g[n] = IF n = 0 THEN 0 ELSE CoinsBody[<<g[n - 1], s[n]>>] BY <1>4 DEF IsFold
  <2>2. CASE n # 0
    <3>1. n - 1 \in 0..Len(s) /\ n \in 1..Len(s) BY <1>3, <2>2
    <3>2. g[n - 1] \in Nat BY <1>4, <3>1
    <3>3. s[n] \in BurntCoins BY <1>3, <3>1
    <3> QED BY <1>2, <2>1, <2>2, <3>2, <3>3
  <2> QED BY <2>1, <2>2
<1>6. Is(g) BY <1>4, <1>5
<1>7. PICK f : Is(f) /\ CoinsIn(s) = f[Len(s)]
  <2>1. Is(CHOOSE f : Is(f)) BY <1>6
  <2>2. CoinsIn(s) = (CHOOSE f : Is(f))[Len(s)] BY Zenon DEF CoinsIn
  <2> QED BY <2>1, <2>2
<1>10. f[0] = 0
  <2>1. 0 \in 0..Len(s) BY <1>3
  <2> QED BY <1>7, <2>1
<1>8. \A n \in 1..Len(s) : f[n] = f[n - 1] + s[n].amount
  <2>1. \A n \in 1..Len(s) : n \in 0..Len(s) /\ n # 0 BY <1>3
  <2> QED BY <1>7, <2>1
<1>9. GoesOn(f, CoinsBody, Nat, s)
  <2>1. ASSUME NEW n \in 1..Len(s), f[n - 1] \in Nat PROVE f[n] = CoinsBody[<<f[n - 1], s[n]>>]
    <3>1. s[n] \in BurntCoins BY <1>3
    <3> QED BY <1>2, <1>8, <2>1, <3>1
  <2> QED BY <2>1 DEF GoesOn
<1>11. CoinsIn(s) = f[Len(s)] BY <1>7
<1> HIDE DEF Is
<1>12. f[Len(s)] = Fold(CoinsBody, 0, s)
  <2>1. PICK F : F = CoinsBody OBVIOUS
  <2>2. Body(F, Nat, BurntCoins) /\ GoesOn(f, F, Nat, s) BY <1>1, <1>9, <2>1
  <2>3. f[Len(s)] = Fold(F, 0, s) BY <1>10, <1>20, <2>2, LoopIsFold
  <2> QED BY <2>1, <2>3
<1> QED BY <1>11, <1>12

\* The sum of a list, one entry after the other.
LEMMA CoinsInFacts ==
    ASSUME NEW s \in Seq(BurntCoins)
    PROVE  /\ CoinsIn(<<>>) = 0 /\ CoinsIn(s) \in Nat
           /\ \A x \in BurntCoins : CoinsIn(Append(s, x)) = CoinsIn(s) + x.amount
<1>0. PICK e : e = <<>> OBVIOUS
<1>20. 0 \in Nat /\ e \in Seq(BurntCoins) BY <1>0
<1>1. Body(CoinsBody, Nat, BurntCoins) BY DEF CoinsBody, Body, BurntCoins
<1>2. CoinsIn(e) = 0
  <2>1. Fold(CoinsBody, 0, <<>>) = 0 BY <1>1, <1>20, FoldEmpty
  <2>2. CoinsIn(e) = Fold(CoinsBody, 0, e) BY <1>20, CoinsInFold
  <2> QED BY <1>0, <2>1, <2>2
<1>3. CoinsIn(s) = Fold(CoinsBody, 0, s) BY <1>0, CoinsInFold
<1>4. CoinsIn(s) \in Nat BY <1>1, <1>3, <1>20, FoldValue
<1>5. ASSUME NEW x \in BurntCoins PROVE CoinsIn(Append(s, x)) = CoinsIn(s) + x.amount
  <2>1. PICK t : t = Append(s, x) OBVIOUS
  <2>2. t \in Seq(BurntCoins) BY <2>1
  <2>3. CoinsIn(t) = Fold(CoinsBody, 0, t) BY <1>0, <2>2, CoinsInFold
  <2>8. PICK F : F = CoinsBody OBVIOUS
  <2>9. Body(F, Nat, BurntCoins) /\ 0 \in Nat BY <1>1, <1>20, <2>8
  <2>10. Fold(F, 0, Append(s, x)) = F[<<Fold(F, 0, s), x>>] BY <2>9, FoldAppend
  <2>4. Fold(CoinsBody, 0, t) = CoinsBody[<<Fold(CoinsBody, 0, s), x>>] BY <2>1, <2>8, <2>10
  <2>5. PICK v : v = CoinsIn(s) OBVIOUS
  <2>6. CoinsIn(t) = CoinsBody[<<v, x>>] /\ v \in Nat BY <1>3, <1>4, <2>3, <2>4, <2>5
  <2>7. CoinsBody[<<v, x>>] = v + x.amount BY <2>6 DEF CoinsBody
  <2> QED BY <2>1, <2>5, <2>6, <2>7
<1> QED BY <1>0, <1>2, <1>4, <1>5

\* The body of the loop of RowsOfTxs.
RowsBody == [p \in UpdateLists \X TxRows |-> p[1] \o p[2].rows]

\* RowsOfTxs is that loop.
LEMMA RowsOfTxsFold ==
    ASSUME NEW s \in Seq(TxRows) PROVE RowsOfTxs(s) = Fold(RowsBody, <<>>, s)
<1>0. PICK e : e = <<>> OBVIOUS
<1>20. e \in UpdateLists /\ e \in Seq(Update) BY <1>0 DEF UpdateLists
<1> DEFINE Is(f) == f = [n \in 0..Len(s) |-> IF n = 0 THEN e
                           ELSE f[n - 1] \o s[n].rows]
<1>1. Body(RowsBody, UpdateLists, TxRows) BY DEF RowsBody, Body, UpdateLists, TxRows
<1>2. \A v \in UpdateLists, u \in TxRows : RowsBody[<<v, u>>] = v \o u.rows
  BY DEF RowsBody
<1>3. Len(s) \in Nat /\ (\A i \in 1..Len(s) : s[i] \in TxRows) OBVIOUS
<1>4. PICK g \in [0..Len(s) -> UpdateLists] : IsFold(g, RowsBody, e, s) BY <1>20, <1>1, FoldExists
<1>5. ASSUME NEW n \in 0..Len(s)
      PROVE  g[n] = IF n = 0 THEN e ELSE g[n - 1] \o s[n].rows
  <2>1. g[n] = IF n = 0 THEN e ELSE RowsBody[<<g[n - 1], s[n]>>] BY <1>4 DEF IsFold
  <2>2. CASE n # 0
    <3>1. n - 1 \in 0..Len(s) /\ n \in 1..Len(s) BY <1>3, <2>2
    <3>2. g[n - 1] \in UpdateLists BY <1>4, <3>1
    <3>3. s[n] \in TxRows BY <1>3, <3>1
    <3> QED BY <1>2, <2>1, <2>2, <3>2, <3>3
  <2> QED BY <2>1, <2>2
<1>6. Is(g) BY <1>4, <1>5
<1>7. PICK f : Is(f) /\ RowsOfTxs(s) = f[Len(s)]
  <2>1. Is(CHOOSE f : Is(f)) BY <1>6
  <2>2. RowsOfTxs(s) = (CHOOSE f : Is(f))[Len(s)] BY <1>0, Zenon DEF RowsOfTxs
  <2> QED BY <2>1, <2>2
<1>10. f[0] = e
  <2>1. 0 \in 0..Len(s) BY <1>3
  <2> QED BY <1>7, <2>1
<1>8. \A n \in 1..Len(s) : f[n] = f[n - 1] \o s[n].rows
  <2>1. \A n \in 1..Len(s) : n \in 0..Len(s) /\ n # 0 BY <1>3
  <2> QED BY <1>7, <2>1
<1>9. GoesOn(f, RowsBody, UpdateLists, s)
  <2>1. ASSUME NEW n \in 1..Len(s), f[n - 1] \in UpdateLists PROVE f[n] = RowsBody[<<f[n - 1], s[n]>>]
    <3>1. s[n] \in TxRows BY <1>3
    <3> QED BY <1>2, <1>8, <2>1, <3>1
  <2> QED BY <2>1 DEF GoesOn
<1>11. f[Len(s)] = Fold(RowsBody, e, s) BY <1>1, <1>9, <1>10, <1>20, LoopIsFold
<1> QED BY <1>0, <1>7, <1>11

\* The rows of the transactions, one transaction after the other.
LEMMA RowsOfTxsFacts ==
    ASSUME NEW s \in Seq(TxRows)
    PROVE  /\ RowsOfTxs(<<>>) = <<>> /\ RowsOfTxs(s) \in UpdateLists
           /\ \A x \in TxRows : RowsOfTxs(Append(s, x)) = RowsOfTxs(s) \o x.rows
<1>0. PICK e : e = <<>> OBVIOUS
<1>20. e \in UpdateLists /\ e \in Seq(TxRows) BY <1>0 DEF UpdateLists
<1>1. Body(RowsBody, UpdateLists, TxRows) BY DEF RowsBody, Body, UpdateLists, TxRows
<1>2. RowsOfTxs(e) = e
  <2>1. Fold(RowsBody, e, <<>>) = e BY <1>1, <1>20, FoldEmpty
  <2>2. RowsOfTxs(e) = Fold(RowsBody, <<>>, e) BY <1>20, RowsOfTxsFold
  <2> QED BY <1>0, <2>1, <2>2
<1>3. RowsOfTxs(s) = Fold(RowsBody, e, s) BY <1>0, RowsOfTxsFold
<1>4. RowsOfTxs(s) \in UpdateLists BY <1>1, <1>3, <1>20, FoldValue
<1>5. ASSUME NEW x \in TxRows PROVE RowsOfTxs(Append(s, x)) = RowsOfTxs(s) \o x.rows
  <2>1. PICK t : t = Append(s, x) OBVIOUS
  <2>2. t \in Seq(TxRows) BY <2>1
  <2>3. RowsOfTxs(t) = Fold(RowsBody, e, t) BY <1>0, <2>2, RowsOfTxsFold
  <2>8. PICK F : F = RowsBody OBVIOUS
  <2>9. Body(F, UpdateLists, TxRows) /\ e \in UpdateLists BY <1>1, <1>20, <2>8
  <2>10. Fold(F, e, Append(s, x)) = F[<<Fold(F, e, s), x>>] BY <2>9, FoldAppend
  <2>4. Fold(RowsBody, e, t) = RowsBody[<<Fold(RowsBody, e, s), x>>] BY <2>1, <2>8, <2>10
  <2>5. PICK v : v = RowsOfTxs(s) OBVIOUS
  <2>6. RowsOfTxs(t) = RowsBody[<<v, x>>] /\ v \in UpdateLists BY <1>3, <1>4, <2>3, <2>4, <2>5
  <2>7. RowsBody[<<v, x>>] = v \o x.rows BY <2>6 DEF RowsBody
  <2> QED BY <2>1, <2>5, <2>6, <2>7
<1> QED BY <1>0, <1>2, <1>4, <1>5

\* A list behind another grows with its entries.
LEMMA ConcatAppend ==
    ASSUME NEW E, NEW s \in Seq(E), NEW t \in Seq(E), NEW x \in E
    PROVE  s \o Append(t, x) = Append(s \o t, x) /\ s \o t \in Seq(E)
<1>1. PICK u : u = <<x>> OBVIOUS
<1>2. u \in Seq(E) BY <1>1
<1>3. Append(t, x) = t \o u BY <1>1, AppendIsConcat
<1>4. PICK w : w = s \o t OBVIOUS
<1>5. w \in Seq(E) BY <1>4
<1>6. Append(w, x) = w \o u BY <1>1, <1>5, AppendIsConcat
<1>7. (s \o t) \o u = s \o (t \o u) BY <1>2, ConcatAssociative
<1> QED BY <1>3, <1>4, <1>5, <1>6, <1>7

\* Filtering two lists one behind the other.
LEMMA FilterConcat ==
    ASSUME NEW kept, NEW s \in Seq(Update), NEW t \in Seq(Update)
    PROVE  Filter(s \o t, kept) = Filter(s, kept) \o Filter(t, kept)
<1>0. PICK e : e = <<>> OBVIOUS
<1>20. e \in Seq(Update) BY <1>0
<1> DEFINE P == {u \in Seq(Update) : Filter(s \o u, kept) = Filter(s, kept) \o Filter(u, kept)}
<1>1. PICK v : v = Filter(s, kept) /\ v \in Seq(Update) BY FilterFacts DEF UpdateLists
<1>2. e \in P
  <2>1. s \o e = s /\ v \o e = v BY <1>0, <1>1
  <2>2. Filter(e, kept) = e BY <1>0, FilterFacts
  <2> QED BY <1>1, <1>20, <2>1, <2>2
<1>3. ASSUME NEW u \in Seq(Update), NEW x \in Update, u \in P PROVE Append(u, x) \in P
  <2>1. PICK w : w = Filter(u, kept) /\ w \in Seq(Update) BY FilterFacts DEF UpdateLists
  <2>2. PICK y : y = s \o u /\ y \in Seq(Update) BY ConcatAppend
  <2>3. s \o Append(u, x) = Append(y, x) BY <2>2, ConcatAppend
  <2>4. Filter(Append(y, x), kept) = IF x \in kept THEN Append(Filter(y, kept), x) ELSE Filter(y, kept)
    BY <2>2, FilterFacts
  <2>5. Filter(y, kept) = v \o w BY <1>1, <1>3, <2>1, <2>2
  <2>6. Filter(Append(u, x), kept) = IF x \in kept THEN Append(w, x) ELSE w BY <2>1, FilterFacts
  <2>7. v \o Append(w, x) = Append(v \o w, x) BY <1>1, <2>1, ConcatAppend
  <2>8. Filter(s \o Append(u, x), kept) = v \o Filter(Append(u, x), kept) BY <2>3, <2>4, <2>5, <2>6, <2>7
  <2>9. Append(u, x) \in Seq(Update) OBVIOUS
  <2> QED BY <1>1, <2>8, <2>9
<1>4. Seq(Update) \subseteq P
  <2> HIDE DEF P
  <2> QED BY <1>0, <1>2, <1>3, ListInd
<1> QED BY <1>4

\* What is kept of a list was kept of more of it.
LEMMA FilterTwice ==
    ASSUME NEW kept, NEW wide, \A x \in Update : x \in kept => x \in wide, NEW s \in Seq(Update)
    PROVE  Filter(Filter(s, wide), kept) = Filter(s, kept)
<1>0. PICK e : e = <<>> OBVIOUS
<1>20. e \in Seq(Update) BY <1>0
<1> DEFINE P == {u \in Seq(Update) : Filter(Filter(u, wide), kept) = Filter(u, kept)}
<1>2. e \in P
  <2>1. Filter(e, kept) = e /\ Filter(e, wide) = e BY <1>0, FilterFacts
  <2> QED BY <1>20, <2>1
<1>3. ASSUME NEW u \in Seq(Update), NEW x \in Update, u \in P PROVE Append(u, x) \in P
  <2>1. PICK w : w = Filter(u, wide) /\ w \in Seq(Update) BY FilterFacts DEF UpdateLists
  <2>2. Filter(Append(u, x), wide) = IF x \in wide THEN Append(w, x) ELSE w BY <2>1, FilterFacts
  <2>3. Filter(Append(w, x), kept) = IF x \in kept THEN Append(Filter(w, kept), x) ELSE Filter(w, kept)
    BY <2>1, FilterFacts
  <2>4. Filter(Append(u, x), kept) = IF x \in kept THEN Append(Filter(u, kept), x) ELSE Filter(u, kept)
    BY FilterFacts
  <2>5. Filter(w, kept) = Filter(u, kept) BY <1>3, <2>1
  <2>6. Append(u, x) \in Seq(Update) OBVIOUS
  <2> QED BY <2>2, <2>3, <2>4, <2>5, <2>6
<1>4. Seq(Update) \subseteq P
  <2> HIDE DEF P
  <2> QED BY <1>0, <1>2, <1>3, ListInd
<1> QED BY <1>4

\* What is kept is in the set.
LEMMA FilterKeeps ==
    ASSUME NEW kept, NEW s \in Seq(Update), NEW K, K = {x \in Update : x \in kept}
    PROVE  Filter(s, kept) \in Seq(K)
<1>0. PICK e : e = <<>> OBVIOUS
<1>20. e \in Seq(Update) /\ e \in Seq(K) BY <1>0
<1> DEFINE P == {u \in Seq(Update) : Filter(u, kept) \in Seq(K)}
<1>2. e \in P
  <2>1. Filter(e, kept) = e BY <1>0, FilterFacts
  <2> QED BY <1>20, <2>1
<1>3. ASSUME NEW u \in Seq(Update), NEW x \in Update, u \in P PROVE Append(u, x) \in P
  <2>1. PICK w : w = Filter(u, kept) /\ w \in Seq(K) BY <1>3
  <2>2. Filter(Append(u, x), kept) = IF x \in kept THEN Append(w, x) ELSE w BY <2>1, FilterFacts
  <2>3. Append(u, x) \in Seq(Update) OBVIOUS
  <2>4. x \in kept => x \in K OBVIOUS
  <2>5. x \in K => Append(w, x) \in Seq(K) BY <2>1
  <2>6. Filter(Append(u, x), kept) \in Seq(K) BY <2>1, <2>2, <2>4, <2>5
  <2> QED BY <2>3, <2>6
<1>4. Seq(Update) \subseteq P
  <2> HIDE DEF P
  <2> QED BY <1>0, <1>2, <1>3, ListInd
<1> QED BY <1>4

\* One list goes on where the one before it led.
LEMMA BalanceAfterConcat ==
    ASSUME NEW a, NEW b \in Int, NEW s \in Seq(Update), NEW t \in Seq(Update)
    PROVE  BalanceAfter(s \o t, a, b) = BalanceAfter(t, a, BalanceAfter(s, a, b))
<1>0. PICK e : e = <<>> OBVIOUS
<1>20. e \in Seq(Update) BY <1>0
<1>1. PICK c \in Int : c = BalanceAfter(s, a, b) BY BalanceAfterFacts
<1> DEFINE P == {u \in Seq(Update) : BalanceAfter(s \o u, a, b) = BalanceAfter(u, a, c)}
<1>2. e \in P
  <2>1. s \o e = s BY <1>0
  <2>2. BalanceAfter(e, a, c) = c BY <1>0, <1>1, BalanceAfterFacts
  <2> QED BY <1>1, <1>20, <2>1, <2>2
<1>3. ASSUME NEW u \in Seq(Update), NEW x \in Update, u \in P PROVE Append(u, x) \in P
  <2>2. PICK y \in Seq(Update) : y = s \o u BY ConcatAppend
  <2>3. s \o Append(u, x) = Append(y, x) BY <2>2, ConcatAppend
  <2>4. PICK d : d = BalanceAfter(y, a, b) OBVIOUS
  <2>1. \A z \in Update : BalanceAfter(Append(y, z), a, b) = IF z.addr # a THEN BalanceAfter(y, a, b)
                              ELSE IF z.old = BalanceAfter(y, a, b) THEN z.new ELSE Gap
    BY BalanceAfterFacts
  <2>5. BalanceAfter(Append(y, x), a, b) = IF x.addr # a THEN d ELSE IF x.old = d THEN x.new ELSE Gap
    BY <2>1, <2>4
  <2>6. d = BalanceAfter(u, a, c) BY <1>3, <2>2, <2>4
  <2>7. BalanceAfter(Append(u, x), a, c) = IF x.addr # a THEN d ELSE IF x.old = d THEN x.new ELSE Gap
    BY <1>1, <2>6, BalanceAfterFacts
  <2>8. Append(u, x) \in Seq(Update) OBVIOUS
  <2> QED BY <2>3, <2>5, <2>7, <2>8
<1>4. Seq(Update) \subseteq P
  <2> HIDE DEF P
  <2> QED BY <1>0, <1>2, <1>3, ListInd
<1> QED BY <1>1, <1>4

\* Updates that change nothing may be left out of a list without gaps.
LEMMA BalanceAfterChanged ==
    ASSUME NEW a, NEW b \in Int, NEW s \in Seq(Update), BalanceAfter(s, a, b) # Gap
    PROVE  BalanceAfter(Filter(s, Changed), a, b) = BalanceAfter(s, a, b)
<1>0. PICK e : e = <<>> OBVIOUS
<1>20. e \in Seq(Update) BY <1>0
<1> DEFINE P == {u \in Seq(Update) : BalanceAfter(u, a, b) # Gap =>
                                       BalanceAfter(Filter(u, Changed), a, b) = BalanceAfter(u, a, b)}
<1>2. e \in P
  <2>2. Filter(e, Changed) = e BY <1>0, FilterFacts
  <2> QED BY <1>20, <2>2
<1>3. ASSUME NEW u \in Seq(Update), NEW x \in Update, u \in P PROVE Append(u, x) \in P
  <2>1. Append(u, x) \in Seq(Update) OBVIOUS
  <2>2. SUFFICES ASSUME BalanceAfter(Append(u, x), a, b) # Gap
                 PROVE BalanceAfter(Filter(Append(u, x), Changed), a, b) = BalanceAfter(Append(u, x), a, b)
    BY <2>1
  <2>3. PICK d : d = BalanceAfter(u, a, b) OBVIOUS
  <2>4. BalanceAfter(Append(u, x), a, b) = IF x.addr # a THEN d ELSE IF x.old = d THEN x.new ELSE Gap
    BY <2>3, BalanceAfterFacts
  <2>5. x.old # Gap /\ x.new # Gap BY DEF Update, Gap
  <2>6. d # Gap BY <2>2, <2>4, <2>5
  <2>7. PICK w : w = Filter(u, Changed) /\ w \in Seq(Update) BY FilterFacts DEF UpdateLists
  <2>8. Filter(Append(u, x), Changed) = IF x \in Changed THEN Append(w, x) ELSE w BY <2>7, FilterFacts
  <2>9. BalanceAfter(w, a, b) = d BY <1>3, <2>3, <2>6, <2>7
  <2>10. BalanceAfter(Append(w, x), a, b) = IF x.addr # a THEN d ELSE IF x.old = d THEN x.new ELSE Gap
    BY <2>7, <2>9, BalanceAfterFacts
  <2>11. x \notin Changed => x.old = x.new BY DEF Changed
  <2> QED BY <2>2, <2>4, <2>8, <2>9, <2>10, <2>11
<1>4. Seq(Update) \subseteq P
  <2> HIDE DEF P
  <2> QED BY <1>0, <1>2, <1>3, ListInd
<1> QED BY <1>4

\* The coins of two lists.
LEMMA CoinsInConcat ==
    ASSUME NEW s \in Seq(BurntCoins), NEW t \in Seq(BurntCoins)
    PROVE  CoinsIn(s \o t) = CoinsIn(s) + CoinsIn(t)
<1>0. PICK e : e = <<>> OBVIOUS
<1>20. e \in Seq(BurntCoins) BY <1>0
<1>1. PICK c \in Nat : c = CoinsIn(s) BY CoinsInFacts
<1> DEFINE P == {u \in Seq(BurntCoins) : CoinsIn(s \o u) = c + CoinsIn(u)}
<1>2. e \in P
  <2>1. s \o e = s BY <1>0
  <2>2. CoinsIn(e) = 0 BY <1>0, CoinsInFacts
  <2>3. CoinsIn(s \o e) = c BY <1>1, <2>1
  <2>4. c + 0 = c OBVIOUS
  <2>5. CoinsIn(s \o e) = c + CoinsIn(e) BY <2>2, <2>3, <2>4
  <2> QED BY <1>20, <2>5
<1>3. ASSUME NEW u \in Seq(BurntCoins), NEW x \in BurntCoins, u \in P PROVE Append(u, x) \in P
  <2>2. PICK y : y = s \o u /\ y \in Seq(BurntCoins) BY ConcatAppend
  <2>3. s \o Append(u, x) = Append(y, x) BY <2>2, ConcatAppend
  <2>4. PICK d \in Nat : d = CoinsIn(u) BY CoinsInFacts
  <2>5. CoinsIn(Append(y, x)) = (c + d) + x.amount BY <1>3, <2>2, <2>4, CoinsInFacts
  <2>6. CoinsIn(Append(u, x)) = d + x.amount BY <2>4, CoinsInFacts
  <2>7. x.amount \in Nat BY DEF BurntCoins
  <2>8. Append(u, x) \in Seq(BurntCoins) OBVIOUS
  <2>9. (c + d) + x.amount = c + (d + x.amount) BY <2>7
  <2>10. CoinsIn(s \o Append(u, x)) = c + CoinsIn(Append(u, x)) BY <2>3, <2>5, <2>6, <2>9
  <2> QED BY <2>8, <2>10
<1>4. Seq(BurntCoins) \subseteq P
  <2> HIDE DEF P
  <2> QED BY <1>0, <1>2, <1>3, ListInd
<1> QED BY <1>1, <1>4

\* The balances of an update are none that a gap leads to.
LEMMA UpdateFields ==
    ASSUME NEW x \in Update PROVE x.addr \in Holders /\ x.old \in Nat /\ x.new \in Nat /\ x.old # Gap /\ x.new # Gap
<1>1. x.addr \in Holders /\ x.old \in Nat /\ x.new \in Nat BY DEF Update
<1> QED BY <1>1 DEF Gap

\* A list with another entry at one place is as before but for that entry.
LEMMA ReplaceFacts ==
    ASSUME NEW E, NEW s \in Seq(E), NEW j \in 1..Len(s), NEW y \in E
    PROVE  /\ ReplaceAt(s, j, y) \in Seq(E) /\ Len(ReplaceAt(s, j, y)) = Len(s)
           /\ \A i \in 1..Len(s) : ReplaceAt(s, j, y)[i] = IF i = j THEN y ELSE s[i]
BY DEF ReplaceAt

\* The entry changed is the last one, or not.
LEMMA ReplaceAppend ==
    ASSUME NEW E, NEW s \in Seq(E), NEW x \in E, NEW y \in E, NEW j \in 1..(Len(s) + 1)
    PROVE  ReplaceAt(Append(s, x), j, y) = IF j = Len(s) + 1 THEN Append(s, y) ELSE Append(ReplaceAt(s, j, y), x)
<1>1. PICK m \in Nat : m = Len(s) OBVIOUS
<1>2. PICK t : t = Append(s, x) OBVIOUS
<1>3. t \in Seq(E) /\ Len(t) = m + 1 /\ t[m + 1] = x /\ \A i \in 1..m : t[i] = s[i] BY <1>1, <1>2
<1>4. PICK v : v = ReplaceAt(t, j, y) OBVIOUS
<1>5. v \in Seq(E) /\ Len(v) = m + 1 /\ \A i \in 1..(m + 1) : v[i] = IF i = j THEN y ELSE t[i]
  <2>1. j \in 1..Len(t) BY <1>1, <1>3
  <2>2. /\ ReplaceAt(t, j, y) \in Seq(E) /\ Len(ReplaceAt(t, j, y)) = Len(t)
        /\ \A i \in 1..Len(t) : ReplaceAt(t, j, y)[i] = IF i = j THEN y ELSE t[i]
    BY <1>3, <2>1 DEF ReplaceAt
  <2> QED BY <1>3, <1>4, <2>2
<1>6. CASE j = m + 1
  <2>1. PICK w : w = Append(s, y) OBVIOUS
  <2>2. w \in Seq(E) /\ Len(w) = m + 1 /\ w[m + 1] = y /\ \A i \in 1..m : w[i] = s[i] BY <1>1, <2>1
  <2>3. ASSUME NEW i \in 1..(m + 1) PROVE v[i] = w[i]
    <3>1. i = m + 1 \/ (i \in 1..m /\ i # m + 1) OBVIOUS
    <3> QED BY <1>3, <1>5, <1>6, <2>2, <3>1
  <2>5. Len(v) = Len(w) /\ \A i \in 1..Len(v) : v[i] = w[i] BY <1>5, <2>2, <2>3
  <2>4. v = w BY <1>5, <2>2, <2>5, SeqEqual
  <2> QED BY <1>1, <1>2, <1>4, <1>6, <2>1, <2>4
<1>7. CASE j # m + 1
  <2>6. j \in 1..m BY <1>1, <1>7
  <2>7. PICK u : u = ReplaceAt(s, j, y) OBVIOUS
  <2>9. j \in 1..Len(s) BY <1>1, <2>6
  <2>10. /\ ReplaceAt(s, j, y) \in Seq(E) /\ Len(ReplaceAt(s, j, y)) = Len(s)
         /\ \A i \in 1..Len(s) : ReplaceAt(s, j, y)[i] = IF i = j THEN y ELSE s[i]
    BY <2>9 DEF ReplaceAt
  <2>8. u \in Seq(E) /\ Len(u) = m /\ \A i \in 1..m : u[i] = IF i = j THEN y ELSE s[i]
    BY <1>1, <2>7, <2>10
  <2>1. PICK w : w = Append(u, x) OBVIOUS
  <2>2. w \in Seq(E) /\ Len(w) = m + 1 /\ w[m + 1] = x /\ \A i \in 1..m : w[i] = u[i] BY <2>8, <2>1
  <2>3. ASSUME NEW i \in 1..(m + 1) PROVE v[i] = w[i]
    <3>1. i = m + 1 \/ (i \in 1..m /\ i # m + 1) OBVIOUS
    <3> QED BY <1>3, <1>5, <1>7, <2>2, <2>8, <3>1
  <2>5. Len(v) = Len(w) /\ \A i \in 1..Len(v) : v[i] = w[i] BY <1>5, <2>2, <2>3
  <2>4. v = w BY <1>5, <2>2, <2>5, SeqEqual
  <2> QED BY <1>1, <1>2, <1>4, <1>7, <2>1, <2>4, <2>7
<1> QED BY <1>6, <1>7

\* The last update of an address moves where the list leads it, and no other.
LEMMA BalanceAfterReplace ==
    ASSUME NEW a, NEW b \in Int, NEW s \in Seq(Update), NEW j \in 1..Len(s), NEW y \in Update,
           y.addr = s[j].addr, y.old = s[j].old
    PROVE  /\ y.addr # a => BalanceAfter(ReplaceAt(s, j, y), a, b) = BalanceAfter(s, a, b)
           /\ (/\ y.addr = a /\ BalanceAfter(s, a, b) # Gap
               /\ \A i \in 1..Len(s) : i > j => s[i].addr # a)
              => BalanceAfter(ReplaceAt(s, j, y), a, b) = y.new
<1>0. PICK e : e = <<>> OBVIOUS
<1>20. e \in Seq(Update) /\ Len(e) = 0 BY <1>0
<1>30. ASSUME NEW u \in Seq(Update), NEW v \in Update
       PROVE  BalanceAfter(Append(u, v), a, b) =
                IF v.addr # a THEN BalanceAfter(u, a, b) ELSE IF v.old = BalanceAfter(u, a, b) THEN v.new ELSE Gap
  BY BalanceAfterAppend
<1> DEFINE Same(u, k, z) == z.addr = u[k].addr /\ z.old = u[k].old
           IsLast(u, k) == \A i \in 1..Len(u) : i > k => u[i].addr # a
           Other(u, k, z) == z.addr # a => BalanceAfter(ReplaceAt(u, k, z), a, b) = BalanceAfter(u, a, b)
           Own(u, k, z) == (z.addr = a /\ BalanceAfter(u, a, b) # Gap /\ IsLast(u, k))
                           => BalanceAfter(ReplaceAt(u, k, z), a, b) = z.new
           P == {u \in Seq(Update) : \A k \in 1..Len(u), z \in Update :
                   Same(u, k, z) => Other(u, k, z) /\ Own(u, k, z)}
<1>2. e \in P BY <1>20
<1>3. ASSUME NEW u \in Seq(Update), NEW x \in Update, u \in P PROVE Append(u, x) \in P
  <2>0. Append(u, x) \in Seq(Update) OBVIOUS
  <2>1. PICK t \in Seq(Update) : t = Append(u, x) BY <2>0
  <2>2. PICK m \in Nat : m = Len(u) OBVIOUS
  <2>3. Len(t) = m + 1 /\ t[m + 1] = x /\ \A i \in 1..m : t[i] = u[i] BY <2>1, <2>2
  <2>4. SUFFICES ASSUME NEW k \in 1..(m + 1), NEW z \in Update, Same(t, k, z) PROVE Other(t, k, z) /\ Own(t, k, z)
    BY <2>1, <2>3
  <2>5. PICK d : d = BalanceAfter(u, a, b) OBVIOUS
  <2>6. BalanceAfter(t, a, b) = IF x.addr # a THEN d ELSE IF x.old = d THEN x.new ELSE Gap
    BY <1>30, <2>1, <2>5
  <2>7. x.old # Gap /\ x.new # Gap BY UpdateFields
  <2>8. CASE k = m + 1
    <3>1. z.addr = x.addr /\ z.old = x.old BY <2>3, <2>4, <2>8
    <3>2. ReplaceAt(t, k, z) = Append(u, z) BY <2>1, <2>2, <2>8, ReplaceAppend
    <3>3. BalanceAfter(ReplaceAt(t, k, z), a, b) = IF z.addr # a THEN d ELSE IF z.old = d THEN z.new ELSE Gap
      BY <1>30, <2>5, <3>2
    <3> QED BY <2>6, <3>1, <3>3
  <2>9. CASE k # m + 1
    <3>1. k \in 1..m BY <2>9
    <3>2. PICK w : w = ReplaceAt(u, k, z) OBVIOUS
    <3>3. w \in Seq(Update) BY <2>2, <3>1, <3>2, ReplaceFacts
    <3>4. ReplaceAt(t, k, z) = Append(w, x) BY <2>1, <2>2, <2>9, <3>2, ReplaceAppend
    <3>5. PICK f : f = BalanceAfter(w, a, b) OBVIOUS
    <3>6. BalanceAfter(ReplaceAt(t, k, z), a, b) = IF x.addr # a THEN f ELSE IF x.old = f THEN x.new ELSE Gap
      BY <1>30, <3>3, <3>4, <3>5
    <3>7. Same(u, k, z) BY <2>3, <2>4, <3>1
    <3>8. Other(u, k, z) /\ Own(u, k, z) BY <1>3, <2>2, <3>1, <3>7
    <3>9. ASSUME z.addr # a PROVE BalanceAfter(ReplaceAt(t, k, z), a, b) = BalanceAfter(t, a, b)
      BY <2>5, <2>6, <3>2, <3>5, <3>6, <3>8, <3>9
    <3>10. ASSUME z.addr = a, BalanceAfter(t, a, b) # Gap, IsLast(t, k)
           PROVE  BalanceAfter(ReplaceAt(t, k, z), a, b) = z.new
      <4>1. m + 1 \in 1..(m + 1) /\ m + 1 > k BY <3>1
      <4>2. x.addr # a BY <2>3, <3>10, <4>1
      <4>3. d # Gap BY <2>6, <3>10, <4>2
      <4>4. \A i \in 1..m : i \in 1..(m + 1) OBVIOUS
      <4>5. IsLast(u, k) BY <2>2, <2>3, <3>10, <4>4
      <4>6. f = z.new BY <2>5, <3>2, <3>5, <3>8, <3>10, <4>3, <4>5
      <4> QED BY <3>6, <4>2, <4>6
    <3> QED BY <3>9, <3>10
  <2> QED BY <2>8, <2>9
<1>4. Seq(Update) \subseteq P
  <2> HIDE DEF P
  <2> QED BY <1>0, <1>2, <1>3, ListInd
<1>5. Other(s, j, y) /\ Own(s, j, y)
  <2>1. s \in P BY <1>4
  <2>2. Same(s, j, y) OBVIOUS
  <2> QED BY <2>1, <2>2
<1> QED BY <1>5

\* Other coins in one place of a list.
LEMMA CoinsInReplace ==
    ASSUME NEW s \in Seq(BurntCoins), NEW j \in 1..Len(s), NEW y \in BurntCoins
    PROVE  CoinsIn(ReplaceAt(s, j, y)) + s[j].amount = CoinsIn(s) + y.amount
<1>0. PICK e : e = <<>> OBVIOUS
<1>20. e \in Seq(BurntCoins) /\ Len(e) = 0 BY <1>0
<1> DEFINE P == {u \in Seq(BurntCoins) : \A k \in 1..Len(u), z \in BurntCoins :
                   CoinsIn(ReplaceAt(u, k, z)) + u[k].amount = CoinsIn(u) + z.amount}
<1>2. e \in P BY <1>20
<1>3. ASSUME NEW u \in Seq(BurntCoins), NEW x \in BurntCoins, u \in P PROVE Append(u, x) \in P
  <2>0. Append(u, x) \in Seq(BurntCoins) OBVIOUS
  <2>1. PICK t \in Seq(BurntCoins) : t = Append(u, x) BY <2>0
  <2>2. PICK m \in Nat : m = Len(u) OBVIOUS
  <2>3. Len(t) = m + 1 /\ t[m + 1] = x /\ \A i \in 1..m : t[i] = u[i] BY <2>1, <2>2
  <2>4. SUFFICES ASSUME NEW k \in 1..(m + 1), NEW z \in BurntCoins
                 PROVE  CoinsIn(ReplaceAt(t, k, z)) + t[k].amount = CoinsIn(t) + z.amount
    BY <2>1, <2>3
  <2>5. PICK d \in Nat : d = CoinsIn(u) BY CoinsInFacts
  <2>6. CoinsIn(t) = d + x.amount BY <2>1, <2>5, CoinsInFacts
  <2>7. x.amount \in Nat /\ z.amount \in Nat BY DEF BurntCoins
  <2>8. CASE k = m + 1
    <3>2. ReplaceAt(t, k, z) = Append(u, z) BY <2>1, <2>2, <2>8, ReplaceAppend
    <3>3. CoinsIn(ReplaceAt(t, k, z)) = d + z.amount BY <2>5, <3>2, CoinsInFacts
    <3> QED BY <2>3, <2>6, <2>7, <2>8, <3>3
  <2>9. CASE k # m + 1
    <3>1. k \in 1..m BY <2>9
    <3>2. PICK w : w = ReplaceAt(u, k, z) OBVIOUS
    <3>3. w \in Seq(BurntCoins) BY <2>2, <3>1, <3>2, ReplaceFacts
    <3>4. ReplaceAt(t, k, z) = Append(w, x) BY <2>1, <2>2, <2>9, <3>2, ReplaceAppend
    <3>5. PICK f \in Nat : f = CoinsIn(w) BY <3>3, CoinsInFacts
    <3>6. CoinsIn(ReplaceAt(t, k, z)) = f + x.amount BY <3>3, <3>4, <3>5, CoinsInFacts
    <3>7. f + u[k].amount = d + z.amount BY <1>3, <2>2, <2>5, <3>1, <3>2, <3>5
    <3>8. t[k] = u[k] BY <2>3, <3>1
    <3>11. u[k] \in BurntCoins BY <2>2, <3>1
    <3>9. u[k].amount \in Nat BY <3>11 DEF BurntCoins
    <3>12. PICK p \in Nat, q \in Nat, r \in Nat : p = u[k].amount /\ q = x.amount /\ r = z.amount BY <2>7, <3>9
    <3>13. f + p = d + r BY <3>7, <3>12
    <3>14. (f + q) + p = (d + q) + r BY <3>13
    <3>10. (f + x.amount) + u[k].amount = (d + x.amount) + z.amount BY <3>12, <3>14
    <3> QED BY <2>6, <3>6, <3>8, <3>10
  <2> QED BY <2>8, <2>9
<1>4. Seq(BurntCoins) \subseteq P
  <2> HIDE DEF P
  <2> QED BY <1>0, <1>2, <1>3, ListInd
<1> QED BY <1>4

-----------------------------------------------------------------------------
(* Contract calls: what stays true. *)

Indexes == UNION {[D -> Nat] : D \in SUBSET Holders}
CallRecord ==
    [balances : [Holders -> Nat], updates : UpdateLists, updateOf : Indexes, coins : Seq(BurntCoins),
     coinsOf : Indexes, burnt : Nat, rewritten : SUBSET Holders]

\* The indexes of a call lead to its entries.
IndexOK(c) ==
    /\ \A a \in DOMAIN c.updateOf : c.updateOf[a] \in 1..Len(c.updates) /\ c.updates[c.updateOf[a]].addr = a
    /\ \A a \in DOMAIN c.coinsOf : c.coinsOf[a] \in 1..Len(c.coins)

\* Its updates lead from the balances it started with to those it has.
LeadsFrom(c, base) ==
    \A a \in Holders \ c.rewritten : BalanceAfter(c.updates, a, base[a]) = c.balances[a]

Base(i) == IF i = 1 THEN stateBalances ELSE calls[i - 1].balances

\* What the call of a terminated contract has burnt is in the transaction.
AtTermination(i) == IF i = 1 THEN CoinsIn(txBurnt) ELSE 0

CallTypes ==
    /\ stateBalances \in [Holders -> Nat] /\ calls \in Seq(CallRecord)
    /\ txNo \in 0..MaxContractTxs /\ vmOps \in 0..MaxOps
    /\ stage \in {"idle", "running", "done", "applied"}
    /\ txUpdates \in UpdateLists /\ txBurnt \in Seq(BurntCoins) /\ txSuccess \in BOOLEAN
    /\ statUpdates \in UpdateLists /\ statBurnt \in Seq(BurntCoins) /\ txBalances \in Seq(TxRows)
    /\ burntByCode \in Nat /\ rewritten \in SUBSET Holders
    /\ Len(calls) <= MaxDepth /\ ((calls = <<>>) <=> (stage # "running"))

CallsInv ==
    \A i \in 1..Len(calls) :
        /\ IndexOK(calls[i]) /\ LeadsFrom(calls[i], Base(i))
        /\ CoinsIn(calls[i].coins) + AtTermination(i) = calls[i].burnt

\* A receipt is due that records what the transaction did.
Due == stage = "done" /\ txSuccess

BlockInv ==
    /\ stage \in {"idle", "running"} => txUpdates = <<>>
    /\ stage = "idle" => txBurnt = <<>>
    /\ CoinsIn(statBurnt) + (IF Due THEN CoinsIn(txBurnt) ELSE 0) = burntByCode
    /\ \A a \in Holders \ rewritten :
          BalanceAfter(IF Due THEN statUpdates \o txUpdates ELSE statUpdates, a, StartBalance) = stateBalances[a]
    /\ \A a \in Holders \ {Sender} : Filter(RowsOfTxs(txBalances), Of(a)) = Filter(statUpdates, Of(a))

CallInv == CallTypes /\ CallsInv /\ BlockInv

\* The fields of a call.
LEMMA CallFields ==
    ASSUME NEW c \in CallRecord
    PROVE  /\ c.balances \in [Holders -> Nat] /\ c.updates \in Seq(Update) /\ c.updateOf \in Indexes
           /\ c.coins \in Seq(BurntCoins) /\ c.coinsOf \in Indexes /\ c.burnt \in Nat /\ c.rewritten \subseteq Holders
BY DEF CallRecord, UpdateLists

\* An index with an entry more.
LEMMA EnterFacts ==
    ASSUME NEW f \in Indexes, NEW a \in Holders, NEW k \in Nat
    PROVE  /\ Enter(f, a, k) \in Indexes /\ DOMAIN Enter(f, a, k) = DOMAIN f \cup {a}
           /\ Enter(f, a, k)[a] = k /\ \A x \in DOMAIN f : x # a => Enter(f, a, k)[x] = f[x]
<1>1. PICK D \in SUBSET Holders : f \in [D -> Nat] BY DEF Indexes
<1>2. PICK g : g = Enter(f, a, k) OBVIOUS
<1>3. g = [z \in D \cup {a} |-> IF z = a THEN k ELSE f[z]] BY <1>1, <1>2 DEF Enter
<1>4. g \in [D \cup {a} -> Nat] BY <1>1, <1>3
<1>5. D \cup {a} \in SUBSET Holders OBVIOUS
<1>6. g \in Indexes BY <1>4, <1>5 DEF Indexes
<1> QED BY <1>1, <1>2, <1>3, <1>6

\* What addUpdate leaves alone.
KeptByUpdate(c, d) ==
    /\ d \in CallRecord /\ d.balances = c.balances /\ d.coins = c.coins /\ d.coinsOf = c.coinsOf
    /\ d.burnt = c.burnt /\ d.rewritten = c.rewritten

\* The first update of an address is appended.
LEMMA AddUpdateFirst ==
    ASSUME NEW c \in CallRecord, NEW a \in Holders, NEW new \in Nat, a \notin DOMAIN c.updateOf
    PROVE  /\ KeptByUpdate(c, addUpdate(c, a, new))
           /\ addUpdate(c, a, new).updates = Append(c.updates, [addr |-> a, old |-> c.balances[a], new |-> new])
           /\ addUpdate(c, a, new).updateOf = Enter(c.updateOf, a, Len(c.updates) + 1)
<1>1. PICK u : u = [addr |-> a, old |-> c.balances[a], new |-> new] OBVIOUS
<1>2. c.balances[a] \in Nat BY CallFields
<1>3. u \in Update BY <1>1, <1>2 DEF Update
<1>4. Append(c.updates, u) \in UpdateLists BY <1>3, CallFields DEF UpdateLists
<1>5. Len(c.updates) + 1 \in Nat BY CallFields
<1>6. PICK f : f = Enter(c.updateOf, a, Len(c.updates) + 1) OBVIOUS
<1>7. f \in Indexes BY <1>5, <1>6, CallFields, EnterFacts
<1>8. PICK s \in UpdateLists : s = Append(c.updates, u) BY <1>4
<1>9. addUpdate(c, a, new) = [c EXCEPT !.updates = s, !.updateOf = f] BY <1>1, <1>6, <1>8 DEF addUpdate
<1> QED BY <1>1, <1>6, <1>7, <1>8, <1>9 DEF KeptByUpdate, CallRecord

\* A later one moves the end of the first.
LEMMA AddUpdateLater ==
    ASSUME NEW c \in CallRecord, IndexOK(c), NEW a \in Holders, NEW new \in Nat, a \in DOMAIN c.updateOf
    PROVE  /\ KeptByUpdate(c, addUpdate(c, a, new))
           /\ \E y \in Update : /\ y.addr = a /\ y.new = new /\ y.old = c.updates[c.updateOf[a]].old
                                /\ addUpdate(c, a, new).updates = ReplaceAt(c.updates, c.updateOf[a], y)
           /\ addUpdate(c, a, new).updateOf = c.updateOf
<1>1. PICK k \in 1..Len(c.updates) : k = c.updateOf[a] /\ c.updates[k].addr = a BY DEF IndexOK
<1>2. PICK s \in Seq(Update) : s = c.updates BY CallFields
<1>3. PICK z : z = s[k] OBVIOUS
<1>4. z \in Update BY <1>2, <1>3
<1>5. PICK y : y = [z EXCEPT !.new = new] OBVIOUS
<1>6. y \in Update /\ y.addr = z.addr /\ y.new = new /\ y.old = z.old BY <1>4, <1>5 DEF Update
<1>7. PICK w : w = ReplaceAt(s, k, y) OBVIOUS
<1>8. w \in Seq(Update) BY <1>2, <1>6, <1>7 DEF ReplaceAt
<1>9. addUpdate(c, a, new) = [c EXCEPT !.updates[k].new = new] BY <1>1 DEF addUpdate
<1>10. [c EXCEPT !.updates[k].new = new] = [c EXCEPT !.updates = [s EXCEPT ![k] = [z EXCEPT !.new = new]]]
  BY <1>2, <1>3
<1>11. addUpdate(c, a, new) = [c EXCEPT !.updates = w] BY <1>5, <1>7, <1>9, <1>10 DEF ReplaceAt
<1>12. KeptByUpdate(c, addUpdate(c, a, new)) /\ addUpdate(c, a, new).updates = w /\ addUpdate(c, a, new).updateOf = c.updateOf
  BY <1>8, <1>11 DEF KeptByUpdate, CallRecord, UpdateLists
<1>13. y.addr = a /\ y.old = c.updates[c.updateOf[a]].old BY <1>1, <1>2, <1>3, <1>6
<1> QED BY <1>1, <1>2, <1>6, <1>7, <1>12, <1>13

\* After an update the indexes lead to the entries, and the updates to the new
\* balance; for the others as before.
LEMMA AddUpdateFacts ==
    ASSUME NEW c \in CallRecord, IndexOK(c), NEW base \in [Holders -> Nat], LeadsFrom(c, base),
           NEW a \in Holders, NEW new \in Nat
    PROVE  /\ KeptByUpdate(c, addUpdate(c, a, new)) /\ IndexOK(addUpdate(c, a, new))
           /\ \A x \in Holders \ c.rewritten : x # a =>
                 BalanceAfter(addUpdate(c, a, new).updates, x, base[x]) = c.balances[x]
           /\ (a \notin c.rewritten /\ ~Rewrites(c, a)) =>
                 BalanceAfter(addUpdate(c, a, new).updates, a, base[a]) = new
<1>1. PICK s \in Seq(Update) : s = c.updates BY CallFields
<1>2. PICK d : d = addUpdate(c, a, new) OBVIOUS
<1>3. \A x \in Holders \ c.rewritten : BalanceAfter(s, x, base[x]) = c.balances[x] BY <1>1 DEF LeadsFrom
<1>4. \A x \in Holders : base[x] \in Int /\ c.balances[x] \in Nat BY CallFields
<1>5. PICK m \in Nat : m = Len(s) OBVIOUS
<1>6. CASE a \notin DOMAIN c.updateOf
  <2>1. PICK u : u = [addr |-> a, old |-> c.balances[a], new |-> new] OBVIOUS
  <2>2. u \in Update /\ u.addr = a /\ u.old = c.balances[a] /\ u.new = new BY <1>4, <2>1 DEF Update
  <2>3. KeptByUpdate(c, d) /\ d.updates = Append(s, u) /\ d.updateOf = Enter(c.updateOf, a, m + 1)
    BY <1>1, <1>2, <1>5, <1>6, <2>1, AddUpdateFirst
  <2>20. PICK n \in Nat : n = m + 1 OBVIOUS
  <2>21. PICK g \in Indexes : g = c.updateOf BY CallFields
  <2>4. PICK f : f = Enter(c.updateOf, a, m + 1) OBVIOUS
  <2>5. /\ DOMAIN f = DOMAIN c.updateOf \cup {a} /\ f[a] = m + 1
        /\ \A x \in DOMAIN c.updateOf : x # a => f[x] = c.updateOf[x]
    <3>1. /\ Enter(g, a, n) \in Indexes /\ DOMAIN Enter(g, a, n) = DOMAIN g \cup {a}
          /\ Enter(g, a, n)[a] = n /\ \A x \in DOMAIN g : x # a => Enter(g, a, n)[x] = g[x]
      BY EnterFacts
    <3> QED BY <2>4, <2>20, <2>21, <3>1
  <2>6. PICK t : t = Append(s, u) OBVIOUS
  <2>7. Len(t) = m + 1 /\ t[m + 1] = u /\ \A i \in 1..m : t[i] = s[i] BY <1>5, <2>2, <2>6
  <2>8. ASSUME NEW x \in DOMAIN f PROVE f[x] \in 1..(m + 1) /\ t[f[x]].addr = x
    <3>1. CASE x = a BY <2>2, <2>5, <2>7, <3>1
    <3>2. CASE x # a
      <4>1. x \in DOMAIN c.updateOf /\ f[x] = c.updateOf[x] BY <2>5, <3>2
      <4>2. f[x] \in 1..m /\ s[f[x]].addr = x BY <1>1, <1>5, <4>1 DEF IndexOK
      <4> QED BY <2>7, <4>2
    <3> QED BY <3>1, <3>2
  <2>9. IndexOK(d) BY <2>3, <2>4, <2>6, <2>7, <2>8 DEF IndexOK, KeptByUpdate
  <2>10. ASSUME NEW x \in Holders
         PROVE  BalanceAfter(t, x, base[x]) =
                   IF a # x THEN BalanceAfter(s, x, base[x])
                   ELSE IF c.balances[a] = BalanceAfter(s, x, base[x]) THEN new ELSE Gap
    <3>1. \A y \in Update : BalanceAfter(Append(s, y), x, base[x]) =
             IF y.addr # x THEN BalanceAfter(s, x, base[x])
             ELSE IF y.old = BalanceAfter(s, x, base[x]) THEN y.new ELSE Gap
      BY <1>4, BalanceAfterFacts
    <3> QED BY <2>2, <2>6, <3>1
  <2> QED BY <1>2, <1>3, <2>3, <2>6, <2>9, <2>10
<1>7. CASE a \in DOMAIN c.updateOf
  <2>1. PICK k \in 1..m : k = c.updateOf[a] /\ s[k].addr = a BY <1>1, <1>5, <1>7 DEF IndexOK
  <2>2. KeptByUpdate(c, d) /\ d.updateOf = c.updateOf BY <1>2, <1>7, AddUpdateLater
  <2>3. PICK y \in Update : y.addr = a /\ y.new = new /\ y.old = s[k].old /\ d.updates = ReplaceAt(s, k, y)
    BY <1>1, <1>2, <1>7, <2>1, AddUpdateLater
  <2>4. PICK t : t = ReplaceAt(s, k, y) OBVIOUS
  <2>5. Len(t) = m /\ \A i \in 1..m : t[i] = IF i = k THEN y ELSE s[i] BY <1>5, <2>1, <2>3, <2>4 DEF ReplaceAt
  <2>6. \A x \in DOMAIN c.updateOf : c.updateOf[x] \in 1..m /\ s[c.updateOf[x]].addr = x BY <1>1, <1>5 DEF IndexOK
  <2>7. \A x \in DOMAIN c.updateOf : t[c.updateOf[x]].addr = x BY <2>1, <2>3, <2>5, <2>6
  <2>8. IndexOK(d) BY <2>2, <2>3, <2>4, <2>5, <2>6, <2>7 DEF IndexOK, KeptByUpdate
  <2>9. ASSUME NEW x \in Holders \ c.rewritten, x # a PROVE BalanceAfter(t, x, base[x]) = c.balances[x]
    <3>1. BalanceAfter(ReplaceAt(s, k, y), x, base[x]) = BalanceAfter(s, x, base[x])
      BY <1>4, <1>5, <2>1, <2>3, <2>9, BalanceAfterReplace
    <3> QED BY <1>3, <2>4, <3>1
  <2>10. ASSUME a \notin c.rewritten, ~Rewrites(c, a) PROVE BalanceAfter(t, a, base[a]) = new
    <3>1. \A i \in 1..m : i > k => s[i].addr # a
      <4>1. DOMAIN s = 1..m BY <1>5
      <4> QED BY <1>1, <1>7, <2>1, <2>10, <4>1 DEF Rewrites
    <3>2. BalanceAfter(s, a, base[a]) # Gap
      <4>1. BalanceAfter(s, a, base[a]) \in Nat BY <1>3, <1>4, <2>10
      <4> QED BY <4>1 DEF Gap
    <3>3. BalanceAfter(ReplaceAt(s, k, y), a, base[a]) = y.new
      BY <1>4, <1>5, <2>1, <2>3, <3>1, <3>2, BalanceAfterReplace
    <3> QED BY <2>3, <2>4, <3>3
  <2> QED BY <1>2, <2>2, <2>3, <2>4, <2>8, <2>9, <2>10
<1> QED BY <1>6, <1>7

\* What addCoins leaves alone.
KeptByCoins(c, d) ==
    /\ d \in CallRecord /\ d.balances = c.balances /\ d.updates = c.updates /\ d.updateOf = c.updateOf
    /\ d.burnt = c.burnt /\ d.rewritten = c.rewritten

\* Coins are added once.
LEMMA AddCoinsFacts ==
    ASSUME NEW c \in CallRecord, IndexOK(c), NEW a \in Holders, NEW amount \in Nat
    PROVE  /\ KeptByCoins(c, addCoins(c, a, amount)) /\ IndexOK(addCoins(c, a, amount))
           /\ CoinsIn(addCoins(c, a, amount).coins) = CoinsIn(c.coins) + amount
<1>1. PICK s \in Seq(BurntCoins) : s = c.coins BY CallFields
<1>2. PICK d : d = addCoins(c, a, amount) OBVIOUS
<1>3. PICK m \in Nat : m = Len(s) OBVIOUS
<1>4. PICK v \in Nat : v = CoinsIn(s) BY CoinsInFacts
<1>5. CASE amount = 0
  <2>1. d = c BY <1>2, <1>5 DEF addCoins
  <2>2. v + amount = v BY <1>5
  <2> QED BY <1>1, <1>2, <1>4, <2>1, <2>2 DEF KeptByCoins
<1>6. CASE amount # 0 /\ a \notin DOMAIN c.coinsOf
  <2>1. PICK u \in BurntCoins : u = [addr |-> a, amount |-> amount] BY DEF BurntCoins
  <2>2. Append(s, u) \in Seq(BurntCoins) OBVIOUS
  <2>3. PICK t \in Seq(BurntCoins) : t = Append(s, u) BY <2>2
  <2>20. PICK n \in Nat : n = m + 1 OBVIOUS
  <2>21. PICK g \in Indexes : g = c.coinsOf BY CallFields
  <2>4. PICK f : f = Enter(c.coinsOf, a, m + 1) OBVIOUS
  <2>5. /\ f \in Indexes /\ DOMAIN f = DOMAIN c.coinsOf \cup {a} /\ f[a] = m + 1
        /\ \A x \in DOMAIN c.coinsOf : x # a => f[x] = c.coinsOf[x]
    <3>1. /\ Enter(g, a, n) \in Indexes /\ DOMAIN Enter(g, a, n) = DOMAIN g \cup {a}
          /\ Enter(g, a, n)[a] = n /\ \A x \in DOMAIN g : x # a => Enter(g, a, n)[x] = g[x]
      BY EnterFacts
    <3> QED BY <2>4, <2>20, <2>21, <3>1
  <2>6. d = [c EXCEPT !.coins = t, !.coinsOf = f] BY <1>1, <1>2, <1>3, <1>6, <2>1, <2>3, <2>4 DEF addCoins
  <2>7. KeptByCoins(c, d) /\ d.coins = t /\ d.coinsOf = f BY <2>3, <2>5, <2>6 DEF KeptByCoins, CallRecord
  <2>8. Len(t) = m + 1 BY <1>3, <2>3
  <2>9. \A x \in DOMAIN c.coinsOf : c.coinsOf[x] \in 1..m BY <1>1, <1>3 DEF IndexOK
  <2>10. \A x \in DOMAIN f : f[x] \in 1..(m + 1) BY <2>5, <2>9
  <2>11. IndexOK(d) BY <2>7, <2>8, <2>10 DEF IndexOK, KeptByCoins
  <2>12. CoinsIn(t) = v + amount BY <1>4, <2>1, <2>3, CoinsInFacts
  <2> QED BY <1>1, <1>2, <1>4, <2>7, <2>11, <2>12
<1>7. CASE amount # 0 /\ a \in DOMAIN c.coinsOf
  <2>1. PICK k \in 1..m : k = c.coinsOf[a] BY <1>1, <1>3, <1>7 DEF IndexOK
  <2>2. PICK z \in BurntCoins : z = s[k] BY <1>3
  <2>3. z.amount \in Nat BY DEF BurntCoins
  <2>4. PICK y : y = [z EXCEPT !.amount = z.amount + amount] OBVIOUS
  <2>17. PICK r \in Nat : r = z.amount + amount BY <2>3
  <2>18. y = [z EXCEPT !.amount = r] BY <2>4, <2>17
  <2>19. y \in BurntCoins /\ y.amount = r BY <2>18 DEF BurntCoins
  <2>5. y \in BurntCoins /\ y.amount = z.amount + amount BY <2>17, <2>19
  <2>6. PICK w : w = ReplaceAt(s, k, y) OBVIOUS
  <2>7. w \in Seq(BurntCoins) /\ Len(w) = m BY <1>3, <2>5, <2>6 DEF ReplaceAt
  <2>8. d = [c EXCEPT !.coins[k].amount = @ + amount] BY <1>2, <1>7, <2>1 DEF addCoins
  <2>9. [c EXCEPT !.coins[k].amount = @ + amount]
        = [c EXCEPT !.coins = [s EXCEPT ![k] = [z EXCEPT !.amount = z.amount + amount]]]
    BY <1>1, <2>2
  <2>10. d = [c EXCEPT !.coins = w] BY <2>4, <2>6, <2>8, <2>9 DEF ReplaceAt
  <2>11. KeptByCoins(c, d) /\ d.coins = w /\ d.coinsOf = c.coinsOf BY <2>7, <2>10 DEF KeptByCoins, CallRecord
  <2>12. IndexOK(d) BY <1>1, <1>3, <2>7, <2>11 DEF IndexOK, KeptByCoins
  <2>13. CoinsIn(ReplaceAt(s, k, y)) + z.amount = CoinsIn(s) + y.amount BY <1>3, <2>2, <2>5, CoinsInReplace
  <2>14. PICK p \in Nat, q \in Nat : p = CoinsIn(w) /\ q = z.amount BY <2>3, <2>7, CoinsInFacts
  <2>15. p + q = v + (q + amount) BY <1>4, <2>5, <2>6, <2>13, <2>14
  <2>16. p = v + amount BY <2>15
  <2> QED BY <1>1, <1>2, <1>4, <2>11, <2>12, <2>14, <2>16
<1> QED BY <1>5, <1>6, <1>7

-----------------------------------------------------------------------------
(* Contract calls: the steps. *)

\* A new call has written nothing.
LEMMA NewCallFacts ==
    ASSUME NEW b \in [Holders -> Nat]
    PROVE  /\ NewCall(b) \in CallRecord /\ IndexOK(NewCall(b)) /\ LeadsFrom(NewCall(b), b)
           /\ CoinsIn(NewCall(b).coins) = 0 /\ NewCall(b).burnt = 0
<1>0. PICK e : e = <<>> OBVIOUS
<1>1. e \in Seq(Update) /\ e \in Seq(BurntCoins) /\ DOMAIN e = {} BY <1>0
<1>2. e \in [{} -> Nat] BY <1>0
<1>3. e \in Indexes
  <2>1. {} \in SUBSET Holders OBVIOUS
  <2> QED BY <1>2, <2>1 DEF Indexes
<1>4. PICK c : c = NewCall(b) OBVIOUS
<1>5. c = [balances |-> b, updates |-> e, updateOf |-> e, coins |-> e, coinsOf |-> e, burnt |-> 0, rewritten |-> {}]
  BY <1>0, <1>4 DEF NewCall
<1>6. c \in CallRecord BY <1>1, <1>3, <1>5 DEF CallRecord, UpdateLists
<1>7. IndexOK(c) BY <1>1, <1>5 DEF IndexOK
<1>8. ASSUME NEW a \in Holders PROVE BalanceAfter(e, a, b[a]) = b[a]
  <2>1. b[a] \in Int OBVIOUS
  <2> QED BY <1>0, <1>1, <2>1, BalanceAfterFacts
<1>9. LeadsFrom(c, b) BY <1>5, <1>8 DEF LeadsFrom
<1>10. CoinsIn(e) = 0 BY <1>0, <1>1, CoinsInFacts
<1> QED BY <1>4, <1>5, <1>6, <1>7, <1>9, <1>10

\* No contract runs, and nothing is due.
LEMMA InitCallInv == CallInit => CallInv
<1> SUFFICES ASSUME CallInit PROVE CallInv OBVIOUS
<1> USE ContractAssumption
<1>0. PICK e : e = <<>> OBVIOUS
<1>1. e \in Seq(CallRecord) /\ e \in Seq(Update) /\ e \in Seq(BurntCoins) /\ e \in Seq(TxRows) /\ Len(e) = 0 BY <1>0
<1>2. calls = e /\ txUpdates = e /\ txBurnt = e /\ statUpdates = e /\ statBurnt = e /\ txBalances = e
  BY <1>0 DEF CallInit
<1>3. CallTypes
  <2>1. stateBalances \in [Holders -> Nat] BY DEF CallInit, StartBalance
  <2>2. stage = "idle" /\ txNo = 0 /\ vmOps = 0 /\ burntByCode = 0 /\ rewritten = {} /\ txSuccess = FALSE BY DEF CallInit
  <2>3. 0 \in 0..MaxContractTxs /\ 0 \in 0..MaxOps /\ Len(e) <= MaxDepth BY <1>1
  <2>4. e \in UpdateLists BY <1>1 DEF UpdateLists
  <2>5. calls = <<>> BY <1>0, <1>2
  <2> QED BY <1>1, <1>2, <2>1, <2>2, <2>3, <2>4, <2>5 DEF CallTypes
<1>4. CallsInv BY <1>1, <1>2 DEF CallsInv
<1>5. BlockInv
  <2>1. ~Due BY DEF Due, CallInit
  <2>2. CoinsIn(statBurnt) = 0 BY <1>0, <1>1, <1>2, CoinsInFacts
  <2>3. \A a : BalanceAfter(statUpdates, a, StartBalance) = StartBalance
    <3>1. StartBalance \in Int BY DEF StartBalance
    <3> QED BY <1>0, <1>1, <1>2, <3>1, BalanceAfterFacts
  <2>4. RowsOfTxs(txBalances) = e BY <1>0, <1>1, <1>2, RowsOfTxsFacts
  <2>5. \A a : Filter(RowsOfTxs(txBalances), Of(a)) = Filter(statUpdates, Of(a)) BY <1>2, <2>4
  <2>6. burntByCode = 0 /\ \A a \in Holders : stateBalances[a] = StartBalance BY DEF CallInit
  <2>7. stage = "idle" BY DEF CallInit
  <2> QED BY <1>0, <1>2, <2>1, <2>2, <2>3, <2>5, <2>6, <2>7 DEF BlockInv
<1> QED BY <1>3, <1>4, <1>5 DEF CallInv

\* The running calls are typed.
LEMMA TopFacts ==
    ASSUME CallInv, stage = "running"
    PROVE  /\ Len(calls) \in Nat /\ Len(calls) # 0 /\ Len(calls) \in 1..Len(calls)
           /\ \A i \in 1..Len(calls) : calls[i] \in CallRecord /\ Base(i) \in [Holders -> Nat]
           /\ Top = calls[Len(calls)] /\ Top \in CallRecord /\ IndexOK(Top) /\ LeadsFrom(Top, Base(Len(calls)))
           /\ CoinsIn(Top.coins) + AtTermination(Len(calls)) = Top.burnt
           /\ \A i \in 1..Len(calls) : AtTermination(i) \in Nat
<1>1. calls \in Seq(CallRecord) /\ calls # <<>> /\ stateBalances \in [Holders -> Nat] BY DEF CallInv, CallTypes
<1>2. PICK n \in Nat : n = Len(calls) BY <1>1
<1>3. n # 0 /\ n \in 1..n BY <1>1, <1>2
<1>4. \A i \in 1..n : calls[i] \in CallRecord BY <1>1, <1>2
<1>5. ASSUME NEW i \in 1..n PROVE Base(i) \in [Holders -> Nat]
  <2>1. CASE i = 1 BY <1>1, <2>1 DEF Base
  <2>2. CASE i # 1
    <3>1. i - 1 \in 1..n BY <2>2
    <3>2. calls[i - 1].balances \in [Holders -> Nat] BY <1>4, <3>1, CallFields
    <3> QED BY <2>2, <3>2 DEF Base
  <2> QED BY <2>1, <2>2
<1>6. Top = calls[n] BY <1>2 DEF Top
<1>7. IndexOK(calls[n]) /\ LeadsFrom(calls[n], Base(n)) /\ CoinsIn(calls[n].coins) + AtTermination(n) = calls[n].burnt
  BY <1>2, <1>3 DEF CallInv, CallsInv
<1>8. CoinsIn(txBurnt) \in Nat
  <2>1. txBurnt \in Seq(BurntCoins) BY DEF CallInv, CallTypes
  <2> QED BY <2>1, CoinsInFacts
<1>9. \A i \in 1..n : AtTermination(i) \in Nat BY <1>8 DEF AtTermination
<1> QED BY <1>2, <1>3, <1>4, <1>5, <1>6, <1>7, <1>9

\* The statistics do not change while a contract runs.
LEMMA BlockFrame ==
    ASSUME CallInv, stage = "running", stage' = "running",
           UNCHANGED <<stateBalances, txUpdates, statUpdates, statBurnt, txBalances, burntByCode, rewritten>>
    PROVE  BlockInv'
<1>1. ~Due /\ ~Due' BY DEF Due
<1> QED BY <1>1 DEF CallInv, BlockInv

\* A step of the running call that changes this call alone.
LEMMA TopStep ==
    ASSUME CallInv, VmStep, NEW c \in CallRecord, IndexOK(c), LeadsFrom(c, Base(Len(calls))),
           CoinsIn(c.coins) + AtTermination(Len(calls)) = c.burnt,
           calls' = [calls EXCEPT ![Len(calls)] = c]
    PROVE  CallInv'
<1> USE ContractAssumption
<1>1. stage = "running" /\ vmOps < MaxOps /\ vmOps' = vmOps + 1
      /\ UNCHANGED <<stateBalances, txNo, stage, txUpdates, txBurnt, txSuccess, statUpdates,
                     statBurnt, txBalances, burntByCode, rewritten>>
  BY DEF VmStep
<1>2. PICK n \in Nat : n = Len(calls) /\ n # 0 /\ n \in 1..n BY <1>1, TopFacts
<1>3. calls \in Seq(CallRecord) BY DEF CallInv, CallTypes
<1>4. calls' \in Seq(CallRecord) /\ Len(calls') = n BY <1>2, <1>3
<1>5. \A i \in 1..n : calls'[i] = IF i = n THEN c ELSE calls[i] BY <1>2, <1>3
<1>6. CallTypes'
  <2>1. vmOps' \in 0..MaxOps BY <1>1 DEF CallInv, CallTypes
  <2>2. calls' # <<>> BY <1>2, <1>4
  <2>3. Len(calls') <= MaxDepth BY <1>2, <1>4 DEF CallInv, CallTypes
  <2>4. /\ stateBalances \in [Holders -> Nat] /\ txNo \in 0..MaxContractTxs
        /\ stage \in {"idle", "running", "done", "applied"}
        /\ txUpdates \in UpdateLists /\ txBurnt \in Seq(BurntCoins) /\ txSuccess \in BOOLEAN
        /\ statUpdates \in UpdateLists /\ statBurnt \in Seq(BurntCoins) /\ txBalances \in Seq(TxRows)
        /\ burntByCode \in Nat /\ rewritten \in SUBSET Holders
    BY DEF CallInv, CallTypes
  <2> QED BY <1>1, <1>4, <2>1, <2>2, <2>3, <2>4 DEF CallTypes
<1>7. CallsInv'
  <2>1. SUFFICES ASSUME NEW i \in 1..n
                 PROVE  /\ IndexOK(calls'[i]) /\ LeadsFrom(calls'[i], Base(i)')
                        /\ CoinsIn(calls'[i].coins) + AtTermination(i)' = calls'[i].burnt
    BY <1>4 DEF CallsInv
  <2>2. AtTermination(i)' = AtTermination(i) BY <1>1 DEF AtTermination
  <2>3. Base(i)' = Base(i)
    <3>1. CASE i = 1 BY <1>1, <3>1 DEF Base
    <3>2. CASE i # 1
      <4>1. i - 1 \in 1..n /\ i - 1 # n BY <3>2
      <4> QED BY <1>5, <3>2, <4>1 DEF Base
    <3> QED BY <3>1, <3>2
  <2>4. IndexOK(calls[i]) /\ LeadsFrom(calls[i], Base(i)) /\ CoinsIn(calls[i].coins) + AtTermination(i) = calls[i].burnt
    BY <1>2 DEF CallInv, CallsInv
  <2> QED BY <1>2, <1>5, <2>2, <2>3, <2>4
<1>8. BlockInv' BY <1>1, BlockFrame
<1> QED BY <1>6, <1>7, <1>8 DEF CallInv

\* A contract writes a balance.
LEMMA UpdateCallInv ==
    ASSUME CallInv, NEW a \in Holders, NEW new \in Nat, AddContractBalanceUpdate(a, new) PROVE CallInv'
<1>1. VmStep /\ stage = "running" BY DEF AddContractBalanceUpdate, VmStep
<1>2. PICK n : n = Len(calls) OBVIOUS
<1>3. PICK base \in [Holders -> Nat] : base = Base(n) BY <1>1, <1>2, TopFacts
<1>4. Top \in CallRecord /\ IndexOK(Top) /\ LeadsFrom(Top, base)
      /\ CoinsIn(Top.coins) + AtTermination(n) = Top.burnt
  BY <1>1, <1>2, <1>3, TopFacts
<1>5. PICK d : d = addUpdate(Top, a, new) OBVIOUS
<1>6. /\ KeptByUpdate(Top, d) /\ IndexOK(d)
      /\ \A x \in Holders \ Top.rewritten : x # a => BalanceAfter(d.updates, x, base[x]) = Top.balances[x]
      /\ (a \notin Top.rewritten /\ ~Rewrites(Top, a)) => BalanceAfter(d.updates, a, base[a]) = new
  BY <1>4, <1>5, AddUpdateFacts
<1>7. PICK r : r = IF Rewrites(Top, a) THEN Top.rewritten \cup {a} ELSE Top.rewritten OBVIOUS
<1>8. PICK b : b = [Top.balances EXCEPT ![a] = new] OBVIOUS
<1>9. r \in SUBSET Holders BY <1>4, <1>7, CallFields
<1>10. Top.balances \in [Holders -> Nat] BY <1>4, CallFields
<1>11. b \in [Holders -> Nat] BY <1>8, <1>10
<1>12. PICK c : c = [d EXCEPT !.balances = b, !.rewritten = r] OBVIOUS
<1>13. calls' = [calls EXCEPT ![n] = c]
  <2>1. calls' = [calls EXCEPT ![n] = [d EXCEPT !.balances[a] = new,
                     !.rewritten = IF Rewrites(Top, a) THEN @ \cup {a} ELSE @]]
    BY <1>2, <1>5 DEF AddContractBalanceUpdate
  <2>2. [d EXCEPT !.balances[a] = new, !.rewritten = IF Rewrites(Top, a) THEN @ \cup {a} ELSE @]
        = [d EXCEPT !.balances = b, !.rewritten = r]
    BY <1>6, <1>7, <1>8 DEF KeptByUpdate, CallRecord
  <2> QED BY <1>12, <2>1, <2>2
<1>14. c \in CallRecord /\ c.balances = b /\ c.rewritten = r /\ c.updates = d.updates /\ c.updateOf = d.updateOf
       /\ c.coins = Top.coins /\ c.coinsOf = d.coinsOf /\ c.burnt = Top.burnt
  BY <1>6, <1>9, <1>11, <1>12 DEF KeptByUpdate, CallRecord
<1>15. IndexOK(c)
  <2>1. IndexOK(d) /\ d.coins = Top.coins BY <1>6 DEF KeptByUpdate
  <2> QED BY <1>14, <2>1 DEF IndexOK
<1>16. LeadsFrom(c, base)
  <2>1. SUFFICES ASSUME NEW x \in Holders, x \notin r PROVE BalanceAfter(d.updates, x, base[x]) = b[x]
    BY <1>14 DEF LeadsFrom
  <2>2. x \notin Top.rewritten BY <1>7, <2>1
  <2>3. CASE x = a
    <3>1. ~Rewrites(Top, a) BY <1>7, <2>1, <2>3
    <3> QED BY <1>6, <1>8, <1>10, <2>2, <2>3, <3>1
  <2>4. CASE x # a BY <1>6, <1>8, <1>10, <2>2, <2>4
  <2> QED BY <2>3, <2>4
<1>17. CoinsIn(c.coins) + AtTermination(n) = c.burnt BY <1>4, <1>14
<1> QED BY <1>1, <1>2, <1>3, <1>13, <1>14, <1>15, <1>16, <1>17, TopStep

\* A contract burns what an address has.
LEMMA BurnCallInv == ASSUME CallInv, NEW a \in Holders, AddContractBurntCoins(a) PROVE CallInv'
<1>1. VmStep /\ stage = "running" BY DEF AddContractBurntCoins, VmStep
<1>2. PICK n : n = Len(calls) OBVIOUS
<1>3. PICK base \in [Holders -> Nat] : base = Base(n) BY <1>1, <1>2, TopFacts
<1>4. Top \in CallRecord /\ IndexOK(Top) /\ LeadsFrom(Top, base)
      /\ CoinsIn(Top.coins) + AtTermination(n) = Top.burnt /\ AtTermination(n) \in Nat
  BY <1>1, <1>2, <1>3, TopFacts
<1>10. Top.balances \in [Holders -> Nat] BY <1>4, CallFields
<1>20. PICK amount \in Nat : amount = Top.balances[a] BY <1>10
<1>21. PICK q : q = addCoins(Top, a, amount) OBVIOUS
<1>22. KeptByCoins(Top, q) /\ IndexOK(q) /\ CoinsIn(q.coins) = CoinsIn(Top.coins) + amount
  BY <1>4, <1>20, <1>21, AddCoinsFacts
<1>23. q \in CallRecord /\ q.balances = Top.balances /\ q.updates = Top.updates /\ q.updateOf = Top.updateOf
       /\ q.burnt = Top.burnt /\ q.rewritten = Top.rewritten
  BY <1>22 DEF KeptByCoins
<1>24. LeadsFrom(q, base) BY <1>4, <1>23 DEF LeadsFrom
<1>25. Rewrites(q, a) <=> Rewrites(Top, a) BY <1>23 DEF Rewrites
<1>5. PICK d : d = addUpdate(q, a, 0) OBVIOUS
<1>6. /\ KeptByUpdate(q, d) /\ IndexOK(d)
      /\ \A x \in Holders \ q.rewritten : x # a => BalanceAfter(d.updates, x, base[x]) = q.balances[x]
      /\ (a \notin q.rewritten /\ ~Rewrites(q, a)) => BalanceAfter(d.updates, a, base[a]) = 0
  BY <1>5, <1>22, <1>23, <1>24, AddUpdateFacts
<1>26. d \in CallRecord /\ d.balances = Top.balances /\ d.rewritten = Top.rewritten /\ d.burnt = Top.burnt
       /\ d.coins = q.coins /\ d.coinsOf = q.coinsOf
  BY <1>6, <1>23 DEF KeptByUpdate
<1>7. PICK r : r = IF Rewrites(Top, a) THEN Top.rewritten \cup {a} ELSE Top.rewritten OBVIOUS
<1>8. PICK b : b = [Top.balances EXCEPT ![a] = 0] OBVIOUS
<1>9. r \in SUBSET Holders BY <1>4, <1>7, CallFields
<1>11. b \in [Holders -> Nat] BY <1>8, <1>10
<1>27. Top.burnt \in Nat BY <1>4, CallFields
<1>28. PICK total \in Nat : total = Top.burnt + amount BY <1>27
<1>12. PICK c : c = [d EXCEPT !.balances = b, !.burnt = total, !.rewritten = r] OBVIOUS
<1>13. calls' = [calls EXCEPT ![n] = c]
  <2>1. calls' = [calls EXCEPT ![n] = [d EXCEPT !.balances[a] = 0, !.burnt = @ + amount,
                     !.rewritten = IF Rewrites(Top, a) THEN @ \cup {a} ELSE @]]
    BY <1>2, <1>5, <1>20, <1>21 DEF AddContractBurntCoins
  <2>2. [d EXCEPT !.balances[a] = 0, !.burnt = @ + amount, !.rewritten = IF Rewrites(Top, a) THEN @ \cup {a} ELSE @]
        = [d EXCEPT !.balances = b, !.burnt = total, !.rewritten = r]
    BY <1>7, <1>8, <1>26, <1>28 DEF CallRecord
  <2> QED BY <1>12, <2>1, <2>2
<1>14. c \in CallRecord /\ c.balances = b /\ c.rewritten = r /\ c.updates = d.updates /\ c.updateOf = d.updateOf
       /\ c.coins = q.coins /\ c.coinsOf = d.coinsOf /\ c.burnt = total
  BY <1>9, <1>11, <1>12, <1>26, <1>28 DEF CallRecord
<1>15. IndexOK(c)
  <2>1. IndexOK(d) /\ d.coins = c.coins BY <1>6, <1>14, <1>26
  <2> QED BY <1>14, <2>1 DEF IndexOK
<1>16. LeadsFrom(c, base)
  <2>1. SUFFICES ASSUME NEW x \in Holders, x \notin r PROVE BalanceAfter(d.updates, x, base[x]) = b[x]
    BY <1>14 DEF LeadsFrom
  <2>2. x \notin Top.rewritten BY <1>7, <2>1
  <2>3. CASE x = a
    <3>1. ~Rewrites(q, a) BY <1>7, <1>25, <2>1, <2>3
    <3> QED BY <1>6, <1>8, <1>10, <1>23, <2>2, <2>3, <3>1
  <2>4. CASE x # a BY <1>6, <1>8, <1>10, <1>23, <2>2, <2>4
  <2> QED BY <2>3, <2>4
<1>17. CoinsIn(c.coins) + AtTermination(n) = c.burnt
  <2>1. PICK v \in Nat : v = CoinsIn(Top.coins)
    <3>1. Top.coins \in Seq(BurntCoins) BY <1>4, CallFields
    <3> QED BY <3>1, CoinsInFacts
  <2>2. PICK w \in Nat : w = AtTermination(n) BY <1>4
  <2>3. v + w = Top.burnt BY <1>4, <2>1, <2>2
  <2>4. (v + amount) + w = total BY <1>27, <1>28, <2>3
  <2> QED BY <1>14, <1>22, <2>1, <2>2, <2>4
<1> QED BY <1>1, <1>2, <1>3, <1>13, <1>14, <1>15, <1>16, <1>17, TopStep

\* The types of what a step of the contract leaves alone.
BlockTypes ==
    /\ stateBalances \in [Holders -> Nat] /\ txNo \in 0..MaxContractTxs
    /\ txUpdates \in UpdateLists /\ txBurnt \in Seq(BurntCoins) /\ txSuccess \in BOOLEAN
    /\ statUpdates \in UpdateLists /\ statBurnt \in Seq(BurntCoins) /\ txBalances \in Seq(TxRows)
    /\ burntByCode \in Nat /\ rewritten \in SUBSET Holders

\* The contract of a transaction starts.
LEMMA StartCallInv == ASSUME CallInv, StartContract PROVE CallInv'
<1> USE ContractAssumption
<1>1. PICK c : c = NewCall(stateBalances) OBVIOUS
<1>2. stateBalances \in [Holders -> Nat] BY DEF CallInv, CallTypes
<1>3. c \in CallRecord /\ IndexOK(c) /\ LeadsFrom(c, stateBalances) /\ CoinsIn(c.coins) = 0 /\ c.burnt = 0
  BY <1>1, <1>2, NewCallFacts
<1>10. <<c>> \in Seq(CallRecord) BY <1>3
<1>11. PICK s \in Seq(CallRecord) : s = <<c>> BY <1>10
<1>4. s = <<c>> /\ Len(s) = 1 /\ s[1] = c BY <1>11
<1>5. calls' = s /\ stage = "idle" /\ stage' = "running" /\ txNo < MaxContractTxs /\ txNo' = txNo + 1
      /\ UNCHANGED <<stateBalances, txUpdates, txBurnt, txSuccess, statUpdates, statBurnt,
                     txBalances, vmOps, burntByCode, rewritten>>
  BY <1>1, <1>4 DEF StartContract
<1>6. CallTypes'
  <2>1. BlockTypes /\ vmOps \in 0..MaxOps BY DEF CallInv, CallTypes, BlockTypes
  <2>2. txNo' \in 0..MaxContractTxs BY <1>5, <2>1 DEF BlockTypes
  <2>3. s # <<>> /\ Len(s) <= MaxDepth BY <1>4
  <2> QED BY <1>5, <2>1, <2>2, <2>3 DEF CallTypes, BlockTypes
<1>7. CallsInv'
  <2>1. txBurnt = <<>> BY <1>5 DEF CallInv, BlockInv
  <2>2. CoinsIn(txBurnt) = 0
    <3>1. txBurnt \in Seq(BurntCoins) BY DEF CallInv, CallTypes
    <3> QED BY <2>1, <3>1, CoinsInFacts
  <2>3. Base(1)' = stateBalances /\ AtTermination(1)' = 0 BY <1>5, <2>2 DEF Base, AtTermination
  <2>4. \A i \in 1..Len(s) : i = 1 BY <1>4
  <2>5. 0 + 0 = 0 OBVIOUS
  <2> QED BY <1>3, <1>4, <1>5, <2>3, <2>4, <2>5 DEF CallsInv
<1>8. BlockInv'
  <2>1. ~Due /\ ~Due' BY <1>5 DEF Due
  <2> QED BY <1>5, <2>1 DEF CallInv, BlockInv
<1> QED BY <1>6, <1>7, <1>8 DEF CallInv

\* A contract calls another one.
LEMMA CallCallInv == ASSUME CallInv, CallContract PROVE CallInv'
<1> USE ContractAssumption
<1>1. stage = "running" /\ vmOps < MaxOps /\ vmOps' = vmOps + 1 /\ Len(calls) < MaxDepth
      /\ UNCHANGED <<stateBalances, txNo, stage, txUpdates, txBurnt, txSuccess, statUpdates,
                     statBurnt, txBalances, burntByCode, rewritten>>
      /\ calls' = Append(calls, NewCall(Top.balances))
  BY DEF CallContract, VmStep
<1>2. PICK n \in Nat : n = Len(calls) /\ n # 0 /\ n \in 1..n BY <1>1, TopFacts
<1>3. PICK b : b = Top.balances OBVIOUS
<1>4. b \in [Holders -> Nat] /\ Top = calls[n] BY <1>1, <1>2, <1>3, TopFacts, CallFields
<1>5. PICK c : c = NewCall(b) OBVIOUS
<1>6. c \in CallRecord /\ IndexOK(c) /\ LeadsFrom(c, b) /\ CoinsIn(c.coins) = 0 /\ c.burnt = 0
  BY <1>4, <1>5, NewCallFacts
<1>7. calls \in Seq(CallRecord) BY DEF CallInv, CallTypes
<1>8. calls' = Append(calls, c) BY <1>1, <1>3, <1>5
<1>9. calls' \in Seq(CallRecord) /\ Len(calls') = n + 1 /\ calls'[n + 1] = c /\ \A i \in 1..n : calls'[i] = calls[i]
  BY <1>2, <1>6, <1>7, <1>8
<1>10. CallTypes'
  <2>1. BlockTypes /\ vmOps \in 0..MaxOps /\ stage \in {"idle", "running", "done", "applied"}
    BY DEF CallInv, CallTypes, BlockTypes
  <2>2. vmOps' \in 0..MaxOps BY <1>1, <2>1
  <2>3. calls' # <<>> /\ Len(calls') <= MaxDepth BY <1>1, <1>2, <1>9
  <2> QED BY <1>1, <1>9, <2>1, <2>2, <2>3 DEF CallTypes, BlockTypes
<1>11. CallsInv'
  <2>1. SUFFICES ASSUME NEW i \in 1..(n + 1)
                 PROVE  /\ IndexOK(calls'[i]) /\ LeadsFrom(calls'[i], Base(i)')
                        /\ CoinsIn(calls'[i].coins) + AtTermination(i)' = calls'[i].burnt
    BY <1>9 DEF CallsInv
  <2>2. AtTermination(i)' = AtTermination(i) BY <1>1 DEF AtTermination
  <2>3. CASE i = n + 1
    <3>1. i # 1 /\ i - 1 = n BY <1>2, <2>3
    <3>2. Base(i)' = b BY <1>2, <1>3, <1>4, <1>9, <3>1 DEF Base
    <3>3. AtTermination(i) = 0 /\ 0 + 0 = 0 BY <3>1 DEF AtTermination
    <3> QED BY <1>6, <1>9, <2>2, <2>3, <3>2, <3>3
  <2>4. CASE i # n + 1
    <3>1. i \in 1..n BY <2>4
    <3>2. Base(i)' = Base(i)
      <4>1. CASE i = 1 BY <1>1, <4>1 DEF Base
      <4>2. CASE i # 1
        <5>1. i - 1 \in 1..n BY <3>1, <4>2
        <5> QED BY <1>9, <4>2, <5>1 DEF Base
      <4> QED BY <4>1, <4>2
    <3>3. IndexOK(calls[i]) /\ LeadsFrom(calls[i], Base(i)) /\ CoinsIn(calls[i].coins) + AtTermination(i) = calls[i].burnt
      BY <1>2, <3>1 DEF CallInv, CallsInv
    <3> QED BY <1>9, <2>2, <3>1, <3>2, <3>3
  <2> QED BY <2>3, <2>4
<1>12. BlockInv' BY <1>1, BlockFrame
<1> QED BY <1>10, <1>11, <1>12 DEF CallInv

\* A call that is imported goes on where its caller was.
LEMMA ImportFacts ==
    ASSUME NEW p \in CallRecord, NEW c \in CallRecord, NEW base \in [Holders -> Nat],
           IndexOK(p), LeadsFrom(p, base), LeadsFrom(c, p.balances), CoinsIn(c.coins) = c.burnt
    PROVE  /\ importFrom(p, c) \in CallRecord /\ IndexOK(importFrom(p, c)) /\ LeadsFrom(importFrom(p, c), base)
           /\ CoinsIn(importFrom(p, c).coins) = CoinsIn(p.coins) + c.burnt
           /\ importFrom(p, c).burnt = p.burnt + c.burnt
<1>1. PICK s \in Seq(Update) : s = p.updates BY CallFields
<1>2. PICK t \in Seq(Update) : t = c.updates BY CallFields
<1>3. PICK k \in Seq(BurntCoins) : k = p.coins BY CallFields
<1>4. PICK l \in Seq(BurntCoins) : l = c.coins BY CallFields
<1>17. s \o t \in Seq(Update) /\ k \o l \in Seq(BurntCoins) OBVIOUS
<1>5. PICK st \in Seq(Update) : st = s \o t BY <1>17
<1>6. PICK kl \in Seq(BurntCoins) : kl = k \o l BY <1>17
<1>7. PICK n \in Nat : n = p.burnt + c.burnt
  <2>1. p.burnt \in Nat /\ c.burnt \in Nat BY CallFields
  <2> QED BY <2>1
<1>8. PICK r \in SUBSET Holders : r = p.rewritten \cup c.rewritten BY CallFields
<1>9. PICK b \in [Holders -> Nat] : b = c.balances BY CallFields
<1>10. PICK d : d = importFrom(p, c) OBVIOUS
<1>11. d = [p EXCEPT !.balances = b, !.updates = st, !.coins = kl, !.burnt = n, !.rewritten = r]
  BY <1>1, <1>2, <1>3, <1>4, <1>5, <1>6, <1>7, <1>8, <1>9, <1>10 DEF importFrom, CallRecord
<1>12. /\ d \in CallRecord /\ d.balances = b /\ d.updates = st /\ d.coins = kl /\ d.burnt = n /\ d.rewritten = r
       /\ d.updateOf = p.updateOf /\ d.coinsOf = p.coinsOf
  BY <1>11 DEF CallRecord, UpdateLists
<1>13. IndexOK(d)
  <2>1. PICK m \in Nat, j \in Nat : m = Len(s) /\ j = Len(t) OBVIOUS
  <2>2. Len(st) = m + j /\ \A i \in 1..m : st[i] = s[i] BY <1>5, <2>1
  <2>3. PICK q \in Nat, o \in Nat : q = Len(k) /\ o = Len(l) OBVIOUS
  <2>4. Len(kl) = q + o BY <1>6, <2>3
  <2>5. \A a \in DOMAIN p.updateOf : p.updateOf[a] \in 1..m /\ s[p.updateOf[a]].addr = a BY <1>1, <2>1 DEF IndexOK
  <2>6. \A a \in DOMAIN p.coinsOf : p.coinsOf[a] \in 1..q BY <1>3, <2>3 DEF IndexOK
  <2>7. \A i \in 1..m : i \in 1..(m + j) OBVIOUS
  <2>8. \A i \in 1..q : i \in 1..(q + o) OBVIOUS
  <2>9. \A a \in DOMAIN p.updateOf : p.updateOf[a] \in 1..Len(st) /\ st[p.updateOf[a]].addr = a
    BY <2>2, <2>5, <2>7
  <2>10. \A a \in DOMAIN p.coinsOf : p.coinsOf[a] \in 1..Len(kl) BY <2>4, <2>6, <2>8
  <2> QED BY <1>12, <2>9, <2>10 DEF IndexOK
<1>14. ASSUME NEW a \in Holders \ r PROVE BalanceAfter(st, a, base[a]) = b[a]
  <2>1. a \notin p.rewritten /\ a \notin c.rewritten BY <1>8
  <2>2. BalanceAfter(s, a, base[a]) = p.balances[a] BY <1>1, <2>1 DEF LeadsFrom
  <2>3. BalanceAfter(t, a, p.balances[a]) = b[a] BY <1>2, <1>9, <2>1 DEF LeadsFrom
  <2>4. base[a] \in Int OBVIOUS
  <2>5. BalanceAfter(s \o t, a, base[a]) = BalanceAfter(t, a, BalanceAfter(s, a, base[a])) BY <2>4, BalanceAfterConcat
  <2> QED BY <1>5, <2>2, <2>3, <2>5
<1>15. LeadsFrom(d, base) BY <1>12, <1>14 DEF LeadsFrom
<1>16. CoinsIn(kl) = CoinsIn(k) + CoinsIn(l) BY <1>6, CoinsInConcat
<1> QED BY <1>3, <1>4, <1>7, <1>10, <1>12, <1>13, <1>15, <1>16

\* A nested call ends.
LEMMA ReturnCallInv == ASSUME CallInv, NEW success \in BOOLEAN, ReturnFromCall(success) PROVE CallInv'
<1> USE ContractAssumption
<1>1. stage = "running" /\ Len(calls) > 1
      /\ UNCHANGED <<stateBalances, txNo, stage, txUpdates, txBurnt, txSuccess, statUpdates,
                     statBurnt, txBalances, vmOps, burntByCode, rewritten>>
  BY DEF ReturnFromCall
<1>2. calls \in Seq(CallRecord) BY DEF CallInv, CallTypes
<1>20. Len(calls) - 1 \in Nat /\ Len(calls) - 1 >= 1 /\ Len(calls) = (Len(calls) - 1) + 1 BY <1>1, <1>2
<1>3. PICK n \in Nat : n = Len(calls) - 1 /\ n >= 1 /\ Len(calls) = n + 1 BY <1>20
<1>4. Top = calls[n + 1] BY <1>3 DEF Top
<1>5. \A i \in 1..(n + 1) : calls[i] \in CallRecord /\ Base(i) \in [Holders -> Nat] /\ AtTermination(i) \in Nat
  BY <1>1, <1>3, TopFacts
<1>6. \A i \in 1..(n + 1) : /\ IndexOK(calls[i]) /\ LeadsFrom(calls[i], Base(i))
                            /\ CoinsIn(calls[i].coins) + AtTermination(i) = calls[i].burnt
  BY <1>3 DEF CallInv, CallsInv
<1>21. n \in 1..(n + 1) /\ n + 1 \in 1..(n + 1) /\ n \in 1..n /\ n + 1 # 1 /\ (n + 1) - 1 = n BY <1>3
<1>7. PICK p \in CallRecord : p = calls[n] BY <1>5, <1>21
<1>8. PICK c \in CallRecord : c = calls[n + 1] BY <1>5, <1>21
<1>9. PICK base \in [Holders -> Nat] : base = Base(n) BY <1>5, <1>21
<1>10. PICK w \in Nat : w = AtTermination(n) BY <1>5, <1>21
<1>11. IndexOK(p) /\ LeadsFrom(p, base) /\ CoinsIn(p.coins) + w = p.burnt BY <1>6, <1>7, <1>9, <1>10, <1>21
<1>12. PICK v \in Nat : v = CoinsIn(c.coins)
  <2>1. c.coins \in Seq(BurntCoins) BY CallFields
  <2> QED BY <2>1, CoinsInFacts
<1>13. LeadsFrom(c, p.balances) /\ CoinsIn(c.coins) = c.burnt
  <2>1. Base(n + 1) = p.balances /\ AtTermination(n + 1) = 0 BY <1>7, <1>21 DEF Base, AtTermination
  <2>2. CoinsIn(c.coins) + AtTermination(n + 1) = c.burnt /\ LeadsFrom(c, Base(n + 1)) BY <1>6, <1>8, <1>21
  <2>3. v + 0 = v OBVIOUS
  <2> QED BY <1>12, <2>1, <2>2, <2>3
<1>14. PICK d : d = IF success THEN importFrom(p, c) ELSE p OBVIOUS
<1>15. d \in CallRecord /\ IndexOK(d) /\ LeadsFrom(d, base) /\ CoinsIn(d.coins) + w = d.burnt
  <2>1. CASE ~success BY <1>11, <1>14, <2>1
  <2>2. CASE success
    <3>1. /\ d \in CallRecord /\ IndexOK(d) /\ LeadsFrom(d, base)
          /\ CoinsIn(d.coins) = CoinsIn(p.coins) + c.burnt /\ d.burnt = p.burnt + c.burnt
      BY <1>11, <1>13, <1>14, <2>2, ImportFacts
    <3>2. PICK x \in Nat : x = CoinsIn(p.coins)
      <4>1. p.coins \in Seq(BurntCoins) BY CallFields
      <4> QED BY <4>1, CoinsInFacts
    <3>3. x + w = p.burnt /\ v = c.burnt BY <1>11, <1>12, <1>13, <3>2
    <3>4. (x + v) + w = (x + w) + v OBVIOUS
    <3> QED BY <3>1, <3>2, <3>3, <3>4
  <2> QED BY <2>1, <2>2
<1>16. PICK s : s = SubSeq(calls, 1, n) OBVIOUS
<1>17. s \in Seq(CallRecord) /\ Len(s) = n /\ \A i \in 1..n : s[i] = calls[i] BY <1>2, <1>3, <1>16
<1>18. calls' = [s EXCEPT ![n] = d]
  <2>1. calls' = [SubSeq(calls, 1, n) EXCEPT ![n] = IF success THEN importFrom(@, Top) ELSE @]
    BY <1>3 DEF ReturnFromCall
  <2>2. s[n] = p BY <1>7, <1>17, <1>21
  <2> QED BY <1>4, <1>8, <1>14, <1>16, <2>1, <2>2
<1>19. calls' \in Seq(CallRecord) /\ Len(calls') = n /\ \A i \in 1..n : calls'[i] = IF i = n THEN d ELSE calls[i]
  BY <1>15, <1>17, <1>18, <1>21
<1>22. CallTypes'
  <2>1. BlockTypes /\ vmOps \in 0..MaxOps /\ stage \in {"idle", "running", "done", "applied"} /\ Len(calls) <= MaxDepth
    BY DEF CallInv, CallTypes, BlockTypes
  <2>3. calls' # <<>> /\ Len(calls') <= MaxDepth BY <1>3, <1>19, <2>1
  <2> QED BY <1>1, <1>19, <2>1, <2>3 DEF CallTypes, BlockTypes
<1>23. CallsInv'
  <2>1. SUFFICES ASSUME NEW i \in 1..n
                 PROVE  /\ IndexOK(calls'[i]) /\ LeadsFrom(calls'[i], Base(i)')
                        /\ CoinsIn(calls'[i].coins) + AtTermination(i)' = calls'[i].burnt
    BY <1>19 DEF CallsInv
  <2>2. AtTermination(i)' = AtTermination(i) BY <1>1 DEF AtTermination
  <2>3. Base(i)' = Base(i)
    <3>1. CASE i = 1 BY <1>1, <3>1 DEF Base
    <3>2. CASE i # 1
      <4>1. i - 1 \in 1..n /\ i - 1 # n BY <3>2
      <4> QED BY <1>19, <3>2, <4>1 DEF Base
    <3> QED BY <3>1, <3>2
  <2>4. i \in 1..(n + 1) OBVIOUS
  <2> QED BY <1>6, <1>9, <1>10, <1>15, <1>19, <2>2, <2>3, <2>4
<1>24. BlockInv' BY <1>1, BlockFrame
<1> QED BY <1>22, <1>23, <1>24 DEF CallInv

\* A contract is terminated.
LEMMA TerminationCallInv ==
    ASSUME CallInv, NEW refund \in 0..1, AddContractTerminationBurntCoins(Sender, 1, refund) PROVE CallInv'
<1> USE ContractAssumption
<1>1. stage = "running" /\ Len(calls) = 1 /\ txBurnt = <<>> /\ vmOps < MaxOps /\ vmOps' = vmOps + 1
      /\ UNCHANGED <<stateBalances, txNo, stage, txUpdates, txSuccess, statUpdates, statBurnt,
                     txBalances, burntByCode, rewritten>>
  BY DEF AddContractTerminationBurntCoins
<1>2. PICK k \in Nat : k = 1 - refund OBVIOUS
<1>3. txBurnt \in Seq(BurntCoins) /\ calls \in Seq(CallRecord) BY DEF CallInv, CallTypes
<1>4. CoinsIn(txBurnt) = 0 BY <1>1, <1>3, CoinsInFacts
<1>5. txBurnt' \in Seq(BurntCoins) /\ CoinsIn(txBurnt') = k
  <2>1. CASE refund = 1
    <3>1. txBurnt' = txBurnt BY <2>1 DEF AddContractTerminationBurntCoins
    <3>2. k = 0 BY <1>2, <2>1
    <3> QED BY <1>3, <1>4, <3>1, <3>2
  <2>2. CASE refund # 1
    <3>1. PICK u \in BurntCoins : u = [addr |-> Sender, amount |-> k] BY DEF BurntCoins
    <3>2. txBurnt' = Append(txBurnt, u) BY <1>2, <2>2, <3>1 DEF AddContractTerminationBurntCoins
    <3>3. CoinsIn(Append(txBurnt, u)) = CoinsIn(txBurnt) + u.amount BY <1>3, CoinsInFacts
    <3>4. 0 + k = k OBVIOUS
    <3>5. txBurnt' \in Seq(BurntCoins) BY <1>3, <3>2
    <3> QED BY <1>4, <3>1, <3>2, <3>3, <3>4, <3>5
  <2> QED BY <2>1, <2>2
<1>6. PICK c \in CallRecord : c = calls[1] BY <1>1, <1>3
<1>7. c.burnt \in Nat BY CallFields
<1>8. PICK total \in Nat : total = c.burnt + k BY <1>7
<1>9. PICK d : d = [c EXCEPT !.burnt = total] OBVIOUS
<1>10. /\ d \in CallRecord /\ d.burnt = total /\ d.balances = c.balances /\ d.updates = c.updates /\ d.coins = c.coins
       /\ d.updateOf = c.updateOf /\ d.coinsOf = c.coinsOf /\ d.rewritten = c.rewritten
  BY <1>8, <1>9 DEF CallRecord
<1>11. calls' = [calls EXCEPT ![1] = d]
  <2>1. calls' = [calls EXCEPT ![1].burnt = @ + (1 - refund)] BY DEF AddContractTerminationBurntCoins
  <2> QED BY <1>2, <1>3, <1>6, <1>8, <1>9, <2>1
<1>16. 1 \in 1..Len(calls) BY <1>1
<1>12. calls' \in Seq(CallRecord) /\ Len(calls') = 1 /\ calls'[1] = d
  <2>1. [calls EXCEPT ![1] = d] \in Seq(CallRecord) BY <1>3, <1>10, <1>16
  <2>2. Len([calls EXCEPT ![1] = d]) = Len(calls) /\ [calls EXCEPT ![1] = d][1] = d BY <1>3, <1>16
  <2> QED BY <1>1, <1>11, <2>1, <2>2
<1>13. CallTypes'
  <2>1. BlockTypes /\ vmOps \in 0..MaxOps /\ stage \in {"idle", "running", "done", "applied"}
    BY DEF CallInv, CallTypes, BlockTypes
  <2>2. vmOps' \in 0..MaxOps BY <1>1, <2>1
  <2>3. calls' # <<>> /\ Len(calls') <= MaxDepth BY <1>12
  <2> QED BY <1>1, <1>5, <1>12, <2>1, <2>2, <2>3 DEF CallTypes, BlockTypes
<1>14. CallsInv'
  <2>1. 1 \in 1..Len(calls) BY <1>1
  <2>2. IndexOK(c) /\ LeadsFrom(c, Base(1)) /\ CoinsIn(c.coins) + AtTermination(1) = c.burnt
    BY <1>6, <2>1 DEF CallInv, CallsInv
  <2>3. IndexOK(d) /\ LeadsFrom(d, Base(1)) BY <1>10, <2>2 DEF IndexOK, LeadsFrom
  <2>4. Base(1)' = Base(1) BY <1>1 DEF Base
  <2>5. AtTermination(1) = 0 /\ AtTermination(1)' = k BY <1>4, <1>5 DEF AtTermination
  <2>6. PICK v \in Nat : v = CoinsIn(c.coins)
    <3>1. c.coins \in Seq(BurntCoins) BY CallFields
    <3> QED BY <3>1, CoinsInFacts
  <2>7. v = c.burnt BY <2>2, <2>5, <2>6
  <2>8. CoinsIn(d.coins) + AtTermination(1)' = d.burnt BY <1>8, <1>10, <2>5, <2>6, <2>7
  <2>9. \A i \in 1..Len(calls') : i = 1 BY <1>12
  <2> QED BY <1>12, <2>3, <2>4, <2>8, <2>9 DEF CallsInv
<1>15. BlockInv' BY <1>1, BlockFrame
<1> QED BY <1>13, <1>14, <1>15 DEF CallInv

\* The first call ends.
LEMMA FinishCallInv == ASSUME CallInv, NEW success \in BOOLEAN, FinishContract(success) PROVE CallInv'
<1> USE ContractAssumption
<1>1. stage = "running" /\ Len(calls) = 1 /\ stage' = "done" /\ txSuccess' = success /\ calls' = <<>>
      /\ UNCHANGED <<txNo, statUpdates, statBurnt, txBalances, vmOps>>
  BY DEF FinishContract
<1>2. PICK c \in CallRecord : c = Top BY <1>1, TopFacts
<1>3. LeadsFrom(c, stateBalances) /\ CoinsIn(c.coins) + CoinsIn(txBurnt) = c.burnt
  <2>1. LeadsFrom(c, Base(1)) /\ CoinsIn(c.coins) + AtTermination(1) = c.burnt BY <1>1, <1>2, TopFacts
  <2> QED BY <2>1 DEF Base, AtTermination
<1>4. BlockTypes /\ vmOps \in 0..MaxOps BY DEF CallInv, CallTypes, BlockTypes
<1>5. ~Due /\ txUpdates = <<>> BY <1>1 DEF CallInv, BlockInv, Due
<1>6. CoinsIn(statBurnt) + 0 = burntByCode BY <1>5 DEF CallInv, BlockInv
<1>7. \A a \in Holders \ rewritten : BalanceAfter(statUpdates, a, StartBalance) = stateBalances[a]
  BY <1>5 DEF CallInv, BlockInv
<1>8. PICK y \in Nat : y = CoinsIn(statBurnt)
  <2>1. statBurnt \in Seq(BurntCoins) BY <1>4 DEF BlockTypes
  <2> QED BY <2>1, CoinsInFacts
<1>9. y = burntByCode
  <2>1. y + 0 = y OBVIOUS
  <2> QED BY <1>6, <1>8, <2>1
<1>10. CASE ~success
  <2>1. UNCHANGED <<txUpdates, txBurnt, stateBalances, burntByCode, rewritten>> BY <1>10 DEF FinishContract
  <2>2. CallTypes'
    <3>1. <<>> \in Seq(CallRecord) /\ Len(<<>>) = 0 OBVIOUS
    <3> QED BY <1>1, <1>4, <2>1, <3>1 DEF CallTypes, BlockTypes
  <2>3. CallsInv' BY <1>1 DEF CallsInv
  <2>4. ~Due' BY <1>1, <1>10 DEF Due
  <2>5. BlockInv' BY <1>1, <1>5, <2>1, <2>4 DEF CallInv, BlockInv
  <2> QED BY <2>2, <2>3, <2>5 DEF CallInv
<1>11. CASE success
  <2>1. /\ txUpdates' = txUpdates \o c.updates /\ txBurnt' = txBurnt \o c.coins /\ stateBalances' = c.balances
        /\ burntByCode' = burntByCode + c.burnt /\ rewritten' = rewritten \cup c.rewritten
    BY <1>2, <1>11 DEF FinishContract
  <2>2. PICK t \in Seq(Update) : t = c.updates BY CallFields
  <2>3. PICK l \in Seq(BurntCoins) : l = c.coins BY CallFields
  <2>4. PICK k \in Seq(BurntCoins) : k = txBurnt BY <1>4 DEF BlockTypes
  <2>5. txUpdates' = t
    <3>1. <<>> \o t = t OBVIOUS
    <3> QED BY <1>5, <2>1, <2>2, <3>1
  <2>6. txBurnt' = k \o l /\ k \o l \in Seq(BurntCoins) BY <2>1, <2>3, <2>4
  <2>7. c.burnt \in Nat /\ c.rewritten \subseteq Holders /\ c.balances \in [Holders -> Nat] BY CallFields
  <2>8. CallTypes'
    <3>1. <<>> \in Seq(CallRecord) /\ Len(<<>>) = 0 OBVIOUS
    <3>2. burntByCode' \in Nat BY <1>4, <2>1, <2>7 DEF BlockTypes
    <3>3. rewritten' \in SUBSET Holders BY <1>4, <2>1, <2>7 DEF BlockTypes
    <3>4. txUpdates' \in UpdateLists BY <2>5 DEF UpdateLists
    <3> QED BY <1>1, <1>4, <2>1, <2>6, <2>7, <3>1, <3>2, <3>3, <3>4 DEF CallTypes, BlockTypes
  <2>9. CallsInv' BY <1>1 DEF CallsInv
  <2>10. Due' BY <1>1, <1>11 DEF Due
  <2>11. CoinsIn(statBurnt)' + CoinsIn(txBurnt)' = burntByCode'
    <3>1. CoinsIn(k \o l) = CoinsIn(k) + CoinsIn(l) BY CoinsInConcat
    <3>2. PICK m \in Nat, n \in Nat : m = CoinsIn(k) /\ n = CoinsIn(l) BY CoinsInFacts
    <3>3. n + m = c.burnt BY <1>3, <2>3, <2>4, <3>2
    <3>4. y + (m + n) = y + (n + m) OBVIOUS
    <3>5. burntByCode' = y + (n + m) BY <1>9, <2>1, <3>3
    <3>6. CoinsIn(statBurnt)' = y /\ CoinsIn(txBurnt)' = m + n BY <1>1, <1>8, <2>6, <3>1, <3>2
    <3> QED BY <3>4, <3>5, <3>6
  <2>12. ASSUME NEW a \in Holders \ rewritten'
         PROVE  BalanceAfter(statUpdates \o t, a, StartBalance) = stateBalances'[a]
    <3>1. a \in Holders \ rewritten /\ a \notin c.rewritten BY <2>1
    <3>2. BalanceAfter(statUpdates, a, StartBalance) = stateBalances[a] BY <1>7, <3>1
    <3>3. BalanceAfter(t, a, stateBalances[a]) = c.balances[a] BY <1>3, <2>2, <3>1 DEF LeadsFrom
    <3>4. StartBalance \in Int BY DEF StartBalance
    <3>5. statUpdates \in Seq(Update) BY <1>4 DEF BlockTypes, UpdateLists
    <3>6. BalanceAfter(statUpdates \o t, a, StartBalance) = BalanceAfter(t, a, BalanceAfter(statUpdates, a, StartBalance))
      BY <3>4, <3>5, BalanceAfterConcat
    <3> QED BY <2>1, <3>2, <3>3, <3>6
  <2>13. \A a \in Holders \ {Sender} : Filter(RowsOfTxs(txBalances), Of(a)) = Filter(statUpdates, Of(a))
    BY DEF CallInv, BlockInv
  <2>14. BlockInv' BY <1>1, <2>5, <2>10, <2>11, <2>12, <2>13 DEF BlockInv
  <2> QED BY <2>8, <2>9, <2>14 DEF CallInv
<1> QED BY <1>10, <1>11

\* The rows of a transaction name the updates of each address but the sender's.
LEMMA RowsNameUpdates ==
    ASSUME NEW s \in Seq(Update)
    PROVE  /\ TxBalanceRows(s) \in Seq(Update)
           /\ \A a \in Holders \ {Sender} : Filter(TxBalanceRows(s), Of(a)) = Filter(s, Of(a))
<1> USE ContractAssumption
<1>1. PICK o : o = Filter(s, Of(Sender)) OBVIOUS
<1>2. PICK K : K = {x \in Update : x \in Of(Sender)} OBVIOUS
<1>3. o \in Seq(K) BY <1>1, <1>2, FilterKeeps
<1>4. PICK r : r = IF o = <<>> THEN [addr |-> Sender, old |-> 0, new |-> 0] ELSE Last(o) OBVIOUS
<1>5. r \in Update /\ r.addr = Sender
  <2>1. CASE o = <<>> BY <1>4, <2>1 DEF Update
  <2>2. CASE o # <<>>
    <3>1. Len(o) \in Nat /\ Len(o) # 0 BY <1>3, <2>2
    <3>2. Len(o) \in 1..Len(o) BY <3>1
    <3>3. o[Len(o)] \in K BY <1>3, <3>2
    <3>4. r = o[Len(o)] BY <1>4, <2>2 DEF Last
    <3> QED BY <1>2, <3>3, <3>4 DEF Of
  <2> QED BY <2>1, <2>2
<1>6. PICK e : e = <<>> OBVIOUS
<1>7. e \in Seq(Update) BY <1>6
<1>8. PICK h : h = <<r>> OBVIOUS
<1>9. h \in Seq(Update) /\ h = Append(e, r) BY <1>5, <1>6, <1>8
<1>10. PICK v : v = Filter(s, Update \ Of(Sender)) OBVIOUS
<1>11. v \in Seq(Update) BY <1>10, FilterFacts DEF UpdateLists
<1>12. TxBalanceRows(s) = h \o v BY <1>1, <1>4, <1>8, <1>10 DEF TxBalanceRows
<1>13. h \o v \in Seq(Update) BY <1>9, <1>11
<1>14. ASSUME NEW a \in Holders \ {Sender} PROVE Filter(h \o v, Of(a)) = Filter(s, Of(a))
  <2>1. Filter(h \o v, Of(a)) = Filter(h, Of(a)) \o Filter(v, Of(a)) BY <1>9, <1>11, FilterConcat
  <2>2. Filter(h, Of(a)) = e
    <3>1. r \notin Of(a) BY <1>5 DEF Of
    <3>2. Filter(Append(e, r), Of(a)) = IF r \in Of(a) THEN Append(Filter(e, Of(a)), r) ELSE Filter(e, Of(a))
      BY <1>5, <1>7, FilterFacts
    <3>3. Filter(e, Of(a)) = e BY <1>6, <1>7, FilterFacts
    <3> QED BY <1>9, <3>1, <3>2, <3>3
  <2>3. Filter(v, Of(a)) = Filter(s, Of(a))
    <3>1. \A x \in Update : x \in Of(a) => x \in Update \ Of(Sender) BY DEF Of
    <3>2. Filter(Filter(s, Update \ Of(Sender)), Of(a)) = Filter(s, Of(a)) BY <3>1, FilterTwice
    <3> QED BY <1>10, <3>2
  <2>4. PICK w \in Seq(Update) : w = Filter(s, Of(a)) BY FilterFacts DEF UpdateLists
  <2>5. e \o w = w BY <1>6
  <2> QED BY <2>1, <2>2, <2>3, <2>4, <2>5
<1> QED BY <1>12, <1>13, <1>14

\* A receipt moves what the transaction did into the statistics of the block.
LEMMA ReceiptCallInv == ASSUME CallInv, NEW isDeploy \in BOOLEAN, AddTxReceipt(isDeploy) PROVE CallInv'
<1> USE ContractAssumption
<1>1. stage = "done" /\ stage' = "applied"
      /\ UNCHANGED <<stateBalances, calls, txNo, txUpdates, txBurnt, txSuccess, vmOps, burntByCode, rewritten>>
  BY DEF AddTxReceipt
<1>2. BlockTypes /\ vmOps \in 0..MaxOps /\ calls \in Seq(CallRecord) /\ Len(calls) <= MaxDepth /\ calls = <<>>
  BY <1>1 DEF CallInv, CallTypes, BlockTypes
<1>3. PICK t \in Seq(Update) : t = txUpdates BY <1>2 DEF BlockTypes, UpdateLists
<1>4. PICK s \in Seq(Update) : s = statUpdates BY <1>2 DEF BlockTypes, UpdateLists
<1>5. PICK e : e = <<>> OBVIOUS
<1>6. e \in Seq(Update) /\ e \in Seq(BurntCoins) BY <1>5
<1>7. PICK ch : ch = IF txSuccess THEN Filter(t, Changed) ELSE e OBVIOUS
<1>8. ch \in Seq(Update)
  <2>1. Filter(t, Changed) \in Seq(Update) BY FilterFacts DEF UpdateLists
  <2> QED BY <1>6, <1>7, <2>1
<1>9. PICK bc : bc = IF txSuccess THEN txBurnt ELSE e OBVIOUS
<1>10. bc \in Seq(BurntCoins) BY <1>2, <1>6, <1>9 DEF BlockTypes
<1>11. PICK row : row = [tx |-> txNo, rows |-> TxBalanceRows(ch)] OBVIOUS
<1>12. row \in TxRows /\ row.rows = TxBalanceRows(ch)
  <2>1. TxBalanceRows(ch) \in UpdateLists BY <1>8, RowsNameUpdates DEF UpdateLists
  <2>2. txNo \in Nat BY <1>2 DEF BlockTypes
  <2> QED BY <1>11, <2>1, <2>2 DEF TxRows
<1>13. /\ statUpdates' = s \o ch /\ statBurnt' = statBurnt \o bc
       /\ txBalances' = IF isDeploy /\ ~txSuccess THEN txBalances ELSE Append(txBalances, row)
  BY <1>3, <1>4, <1>5, <1>7, <1>9, <1>11 DEF AddTxReceipt
<1>14. s \o ch \in Seq(Update) BY <1>8
<1>15. statBurnt \in Seq(BurntCoins) /\ statBurnt \o bc \in Seq(BurntCoins) BY <1>2, <1>10 DEF BlockTypes
<1>16. txBalances \in Seq(TxRows) /\ Append(txBalances, row) \in Seq(TxRows) BY <1>2, <1>12 DEF BlockTypes
<1>17. CallTypes'
  <2>1. statUpdates' \in UpdateLists BY <1>13, <1>14 DEF UpdateLists
  <2> QED BY <1>1, <1>2, <1>13, <1>15, <1>16, <2>1 DEF CallTypes, BlockTypes
<1>18. CallsInv' BY <1>1 DEF CallInv, CallsInv, Base, AtTermination
<1>19. ~Due' /\ (Due <=> txSuccess) BY <1>1 DEF Due
<1>20. CoinsIn(statBurnt') = burntByCode
  <2>1. CoinsIn(statBurnt \o bc) = CoinsIn(statBurnt) + CoinsIn(bc) BY <1>10, <1>15, CoinsInConcat
  <2>2. CoinsIn(statBurnt) + (IF Due THEN CoinsIn(txBurnt) ELSE 0) = burntByCode BY DEF CallInv, BlockInv
  <2>3. CoinsIn(e) = 0 BY <1>5, <1>6, CoinsInFacts
  <2>4. CoinsIn(bc) = IF Due THEN CoinsIn(txBurnt) ELSE 0 BY <1>9, <1>19, <2>3
  <2> QED BY <1>13, <2>1, <2>2, <2>4
<1>21. ASSUME NEW a \in Holders \ rewritten PROVE BalanceAfter(s \o ch, a, StartBalance) = stateBalances[a]
  <2>1. BalanceAfter(IF Due THEN statUpdates \o txUpdates ELSE statUpdates, a, StartBalance) = stateBalances[a]
    BY DEF CallInv, BlockInv
  <2>2. CASE ~Due
    <3>1. s \o e = s BY <1>5
    <3> QED BY <1>4, <1>7, <1>19, <2>1, <2>2, <3>1
  <2>3. CASE Due
    <3>1. StartBalance \in Int BY DEF StartBalance
    <3>2. PICK b \in Int : b = BalanceAfter(s, a, StartBalance) BY <3>1, BalanceAfterFacts
    <3>3. BalanceAfter(s \o t, a, StartBalance) = BalanceAfter(t, a, b) BY <3>1, <3>2, BalanceAfterConcat
    <3>4. BalanceAfter(t, a, b) = stateBalances[a] BY <1>3, <1>4, <2>1, <2>3, <3>3
    <3>5. BalanceAfter(t, a, b) # Gap
      <4>1. stateBalances[a] \in Nat BY <1>2 DEF BlockTypes
      <4> QED BY <3>4, <4>1 DEF Gap
    <3>6. BalanceAfter(Filter(t, Changed), a, b) = BalanceAfter(t, a, b) BY <3>5, BalanceAfterChanged
    <3>7. BalanceAfter(s \o ch, a, StartBalance) = BalanceAfter(ch, a, b) BY <1>8, <3>1, <3>2, BalanceAfterConcat
    <3>8. ch = Filter(t, Changed) BY <1>7, <1>19, <2>3
    <3> QED BY <3>4, <3>6, <3>7, <3>8
  <2> QED BY <2>2, <2>3
<1>22. ASSUME NEW a \in Holders \ {Sender} PROVE Filter(RowsOfTxs(txBalances'), Of(a)) = Filter(s \o ch, Of(a))
  <2>1. Filter(RowsOfTxs(txBalances), Of(a)) = Filter(s, Of(a)) BY <1>4 DEF CallInv, BlockInv
  <2>2. Filter(s \o ch, Of(a)) = Filter(s, Of(a)) \o Filter(ch, Of(a)) BY <1>8, FilterConcat
  <2>3. CASE isDeploy /\ ~txSuccess
    <3>1. ch = e /\ s \o e = s BY <1>5, <1>7, <2>3
    <3> QED BY <1>13, <2>1, <2>3, <3>1
  <2>4. CASE ~(isDeploy /\ ~txSuccess)
    <3>1. PICK all \in Seq(Update) : all = RowsOfTxs(txBalances) BY <1>16, RowsOfTxsFacts DEF UpdateLists
    <3>2. PICK new \in Seq(Update) : new = TxBalanceRows(ch) BY <1>8, RowsNameUpdates
    <3>3. RowsOfTxs(Append(txBalances, row)) = all \o new BY <1>12, <1>16, <3>1, <3>2, RowsOfTxsFacts
    <3>4. Filter(all \o new, Of(a)) = Filter(all, Of(a)) \o Filter(new, Of(a)) BY FilterConcat
    <3>5. Filter(new, Of(a)) = Filter(ch, Of(a)) BY <1>8, <3>2, RowsNameUpdates
    <3> QED BY <1>13, <2>1, <2>2, <2>4, <3>1, <3>3, <3>4, <3>5
  <2> QED BY <2>3, <2>4
<1>23. BlockInv'
  <2>1. statUpdates' = s \o ch BY <1>13
  <2>2. CoinsIn(statBurnt') + 0 = burntByCode
    <3>1. burntByCode \in Nat BY <1>2 DEF BlockTypes
    <3> QED BY <1>20, <3>1
  <2> QED BY <1>1, <1>19, <1>21, <1>22, <2>1, <2>2 DEF BlockInv
<1> QED BY <1>17, <1>18, <1>23 DEF CallInv

\* The next transaction begins with nothing of this one.
LEMMA NextTxCallInv == ASSUME CallInv, NextTx PROVE CallInv'
<1>1. stage = "applied" /\ stage' = "idle" /\ txUpdates' = <<>> /\ txBurnt' = <<>> /\ txSuccess' = FALSE
      /\ UNCHANGED <<stateBalances, calls, txNo, statUpdates, statBurnt, txBalances, vmOps, burntByCode, rewritten>>
  BY DEF NextTx
<1>2. BlockTypes /\ vmOps \in 0..MaxOps /\ calls \in Seq(CallRecord) /\ Len(calls) <= MaxDepth /\ calls = <<>>
  BY <1>1 DEF CallInv, CallTypes, BlockTypes
<1>3. CallTypes'
  <2>1. <<>> \in Seq(Update) /\ <<>> \in Seq(BurntCoins) OBVIOUS
  <2>2. txUpdates' \in UpdateLists /\ txBurnt' \in Seq(BurntCoins) BY <1>1, <2>1 DEF UpdateLists
  <2> QED BY <1>1, <1>2, <2>2 DEF CallTypes, BlockTypes
<1>4. CallsInv'
  <2>1. \A i \in 1..Len(calls) : FALSE BY <1>2
  <2> QED BY <1>1, <2>1 DEF CallsInv
<1>5. BlockInv'
  <2>1. ~Due /\ ~Due' BY <1>1 DEF Due
  <2> QED BY <1>1, <2>1 DEF CallInv, BlockInv
<1> QED BY <1>3, <1>4, <1>5 DEF CallInv

\* Every step.
LEMMA NextCallInv == CallInv /\ [CallNext]_callVars => CallInv'
<1> SUFFICES ASSUME CallInv, [CallNext]_callVars PROVE CallInv' OBVIOUS
<1>1. CASE StartContract BY <1>1, StartCallInv
<1>2. CASE CallContract BY <1>2, CallCallInv
<1>3. CASE NextTx BY <1>3, NextTxCallInv
<1>4. ASSUME NEW isDeploy \in BOOLEAN, AddTxReceipt(isDeploy) PROVE CallInv' BY <1>4, ReceiptCallInv
<1>5. ASSUME NEW a \in Holders, NEW new \in 0..StartBalance + 1, AddContractBalanceUpdate(a, new) PROVE CallInv'
  <2>1. new \in Nat BY DEF StartBalance
  <2> QED BY <1>5, <2>1, UpdateCallInv
<1>6. ASSUME NEW a \in Holders, AddContractBurntCoins(a) PROVE CallInv' BY <1>6, BurnCallInv
<1>7. ASSUME NEW success \in BOOLEAN, ReturnFromCall(success) PROVE CallInv' BY <1>7, ReturnCallInv
<1>8. ASSUME NEW success \in BOOLEAN, FinishContract(success) PROVE CallInv' BY <1>8, FinishCallInv
<1>9. ASSUME NEW refund \in 0..1, AddContractTerminationBurntCoins(Sender, 1, refund) PROVE CallInv'
  BY <1>9, TerminationCallInv
<1>10. CASE UNCHANGED callVars
  <2>1. UNCHANGED <<stateBalances, calls, txNo, stage, txUpdates, txBurnt, txSuccess,
                    statUpdates, statBurnt, txBalances, vmOps, burntByCode, rewritten>>
    BY <1>10 DEF callVars
  <2>2. CallTypes' BY <2>1 DEF CallInv, CallTypes
  <2>3. CallsInv' BY <2>1 DEF CallInv, CallsInv, Base, AtTermination
  <2>4. BlockInv' BY <2>1 DEF CallInv, BlockInv, Due
  <2> QED BY <2>2, <2>3, <2>4 DEF CallInv
<1> QED BY <1>1, <1>2, <1>3, <1>4, <1>5, <1>6, <1>7, <1>8, <1>9, <1>10 DEF CallNext

\* Between two transactions nothing is due, so that the statistics are exact.
LEMMA CallInvImplies == ASSUME CallInv PROVE ContractStatsAreExact
<1>1. CallTypeOK
  <2>1. ASSUME NEW i \in DOMAIN calls, NEW a \in DOMAIN calls[i].updateOf
        PROVE  calls[i].updates[calls[i].updateOf[a]].addr = a
    <3>1. calls \in Seq(CallRecord) BY DEF CallInv, CallTypes
    <3>2. i \in 1..Len(calls) BY <3>1
    <3> QED BY <3>2 DEF CallInv, CallsInv, IndexOK
  <2>2. ASSUME NEW i \in DOMAIN statUpdates PROVE statUpdates[i].addr \in Holders
    <3>1. statUpdates \in Seq(Update) BY DEF CallInv, CallTypes, UpdateLists
    <3>2. statUpdates[i] \in Update BY <3>1
    <3> QED BY <3>2, UpdateFields
  <2>3. (calls = <<>>) = (stage # "running") BY DEF CallInv, CallTypes
  <2> QED BY <2>1, <2>2, <2>3 DEF CallInv, CallTypes, CallTypeOK
<1>2. SUFFICES ASSUME stage \in {"idle", "applied"}
               PROVE  ContractUpdatesChain /\ ContractBurntCoinsAreRecorded /\ TxRowsCoverUpdates
  BY <1>1 DEF ContractStatsAreExact, ContractUpdatesChain, ContractBurntCoinsAreRecorded, TxRowsCoverUpdates
<1>3. ~Due BY <1>2 DEF Due
<1>4. ContractUpdatesChain BY <1>3 DEF CallInv, BlockInv, ContractUpdatesChain
<1>5. ContractBurntCoinsAreRecorded
  <2>1. statBurnt \in Seq(BurntCoins) BY DEF CallInv, CallTypes
  <2>2. PICK y \in Nat : y = CoinsIn(statBurnt) BY <2>1, CoinsInFacts
  <2>3. y + 0 = burntByCode BY <1>3, <2>2 DEF CallInv, BlockInv
  <2>4. y = burntByCode BY <2>3
  <2> QED BY <2>2, <2>4 DEF ContractBurntCoinsAreRecorded
<1>6. TxRowsCoverUpdates BY DEF CallInv, BlockInv, TxRowsCoverUpdates
<1> QED BY <1>4, <1>5, <1>6

\* However the calls of contracts nest and whichever of them fail
\* (ApplyContractBalanceUpdates, AddTxReceipt), the updates recorded of an address
\* chain, unless a call wrote to it again after one it made; the burnt coins are
\* those of the successful calls, and the rows per transaction cover the updates.
THEOREM ContractStatsAreExactAlways == CallInit /\ [][CallNext]_callVars => []ContractStatsAreExact
<1>1. CallInit => CallInv BY InitCallInv
<1>2. CallInv /\ [CallNext]_callVars => CallInv' BY NextCallInv
<1>3. CallInv => ContractStatsAreExact BY CallInvImplies
<1> QED BY <1>1, <1>2, <1>3, PTL

-----------------------------------------------------------------------------
(* Sums. *)

\* The body of the loop of SumOfList.
SumBody == [p \in Int \X Int |-> p[1] + p[2]]

\* The sums of the first entries, the last of them the sum of the list.
IsSum(g, s) ==
    /\ g[0] = 0 /\ \A n \in 1..Len(s) : g[n - 1] \in Int /\ g[n] = g[n - 1] + s[n]
    /\ SumOfList(s) = g[Len(s)] /\ g[Len(s)] \in Int

\* A list of integers has a sum.
LEMMA SumLoop == ASSUME NEW s \in Seq(Int) PROVE \E g : IsSum(g, s)
<1> DEFINE Is(f) == f = [n \in 0..Len(s) |-> IF n = 0 THEN 0 ELSE f[n - 1] + s[n]]
<1>1. Body(SumBody, Int, Int) BY DEF SumBody, Body
<1>2. \A v, u \in Int : SumBody[<<v, u>>] = v + u BY DEF SumBody
<1>3. Len(s) \in Nat /\ (\A i \in 1..Len(s) : s[i] \in Int) OBVIOUS
<1>20. 0 \in Int OBVIOUS
<1>4. PICK g \in [0..Len(s) -> Int] : IsFold(g, SumBody, 0, s) BY <1>20, <1>1, FoldExists
<1>5. ASSUME NEW n \in 0..Len(s) PROVE g[n] = IF n = 0 THEN 0 ELSE g[n - 1] + s[n]
  <2>1. g[n] = IF n = 0 THEN 0 ELSE SumBody[<<g[n - 1], s[n]>>] BY <1>4 DEF IsFold
  <2>2. CASE n # 0
    <3>1. n - 1 \in 0..Len(s) /\ n \in 1..Len(s) BY <1>3, <2>2
    <3>2. g[n - 1] \in Int BY <1>4, <3>1
    <3>3. s[n] \in Int BY <1>3, <3>1
    <3> QED BY <1>2, <2>1, <2>2, <3>2, <3>3
  <2> QED BY <2>1, <2>2
<1>6. Is(g) BY <1>4, <1>5
<1>7. PICK f : Is(f) /\ SumOfList(s) = f[Len(s)]
  <2>1. Is(CHOOSE f : Is(f)) BY <1>6
  <2>2. SumOfList(s) = (CHOOSE f : Is(f))[Len(s)] BY Zenon DEF SumOfList
  <2> QED BY <2>1, <2>2
<1>8. f[0] = 0
  <2>1. 0 \in 0..Len(s) BY <1>3
  <2> QED BY <1>7, <2>1
<1>9. \A n \in 1..Len(s) : f[n] = f[n - 1] + s[n]
  <2>1. \A n \in 1..Len(s) : n \in 0..Len(s) /\ n # 0 BY <1>3
  <2> QED BY <1>7, <2>1
<1> DEFINE P == {n \in Nat : n <= Len(s) => f[n] \in Int}
<1>10. 0 \in P BY <1>8
<1>11. ASSUME NEW n \in Nat, n \in P PROVE n + 1 \in P
  <2>1. SUFFICES ASSUME n + 1 <= Len(s) PROVE f[n + 1] \in Int OBVIOUS
  <2>2. n <= Len(s) /\ n + 1 \in 1..Len(s) /\ (n + 1) - 1 = n BY <1>3, <2>1
  <2>3. f[n] \in Int /\ s[n + 1] \in Int BY <1>3, <1>11, <2>2
  <2>4. f[n + 1] = f[(n + 1) - 1] + s[n + 1] BY <1>9, <2>2
  <2> QED BY <2>2, <2>3, <2>4
<1>12. Nat \subseteq P
  <2> HIDE DEF P
  <2> QED BY <1>10, <1>11, NatInd
<1>13. \A n \in 0..Len(s) : f[n] \in Int
  <2>1. \A n \in 0..Len(s) : n \in Nat /\ n <= Len(s) BY <1>3
  <2> QED BY <1>12, <2>1
<1>14. \A n \in 1..Len(s) : n - 1 \in 0..Len(s) BY <1>3
<1>15. Len(s) \in 0..Len(s) BY <1>3
<1> QED BY <1>7, <1>8, <1>9, <1>13, <1>14, <1>15 DEF IsSum

\* The sum of a list is an integer, that of none is zero.
LEMMA SumInt == ASSUME NEW s \in Seq(Int) PROVE SumOfList(s) \in Int /\ (Len(s) = 0 => SumOfList(s) = 0)
<1>1. PICK g : IsSum(g, s) BY SumLoop
<1> QED BY <1>1 DEF IsSum

\* Two lists with the same entries up to m have the same sums up to it.
LEMMA SumsAgree ==
    ASSUME NEW s \in Seq(Int), NEW t \in Seq(Int), NEW m \in Nat, m <= Len(s), m <= Len(t),
           \A i \in 1..m : s[i] = t[i], NEW g, NEW h, IsSum(g, s), IsSum(h, t)
    PROVE  g[m] = h[m]
<1> DEFINE P == {n \in Nat : n <= m => g[n] = h[n]}
<1>1. 0 \in P BY DEF IsSum
<1>2. ASSUME NEW n \in Nat, n \in P PROVE n + 1 \in P
  <2>1. SUFFICES ASSUME n + 1 <= m PROVE g[n + 1] = h[n + 1] OBVIOUS
  <2>2. n <= m /\ n + 1 \in 1..m /\ n + 1 \in 1..Len(s) /\ n + 1 \in 1..Len(t) /\ (n + 1) - 1 = n BY <2>1
  <2>3. g[n + 1] = g[n] + s[n + 1] BY <2>2 DEF IsSum
  <2>4. h[n + 1] = h[n] + t[n + 1] BY <2>2 DEF IsSum
  <2>5. g[n] = h[n] /\ s[n + 1] = t[n + 1] BY <1>2, <2>2
  <2> QED BY <2>3, <2>4, <2>5
<1>3. Nat \subseteq P
  <2> HIDE DEF P
  <2> QED BY <1>1, <1>2, NatInd
<1>4. m \in P BY <1>3
<1> QED BY <1>4

\* One entry more.
LEMMA SumMore ==
    ASSUME NEW s \in Seq(Int), NEW t \in Seq(Int), Len(t) = Len(s) + 1, \A i \in 1..Len(s) : s[i] = t[i]
    PROVE  SumOfList(t) = SumOfList(s) + t[Len(t)]
<1>1. PICK g : IsSum(g, s) BY SumLoop
<1>2. PICK h : IsSum(h, t) BY SumLoop
<1>3. PICK m \in Nat : m = Len(s) OBVIOUS
<1>4. m <= Len(t) /\ m <= Len(s) /\ Len(t) \in 1..Len(t) /\ Len(t) - 1 = m BY <1>3
<1>5. \A i \in 1..m : s[i] = t[i] BY <1>3
<1>6. g[m] = h[m] BY <1>1, <1>2, <1>4, <1>5, SumsAgree
<1>7. h[Len(t)] = h[m] + t[Len(t)] BY <1>2, <1>4 DEF IsSum
<1> QED BY <1>1, <1>2, <1>3, <1>6, <1>7 DEF IsSum

\* Another entry in one place.
LEMMA SumOther ==
    ASSUME NEW s \in Seq(Int), NEW t \in Seq(Int), Len(t) = Len(s), NEW j \in 1..Len(s),
           \A i \in 1..Len(s) : i # j => s[i] = t[i]
    PROVE  SumOfList(t) + s[j] = SumOfList(s) + t[j]
<1>1. PICK g : IsSum(g, s) BY SumLoop
<1>2. PICK h : IsSum(h, t) BY SumLoop
<1>3. PICK m \in Nat : m = Len(s) OBVIOUS
<1>4. PICK x \in Int, y \in Int : x = s[j] /\ y = t[j]
  <2>1. s[j] \in Int /\ t[j] \in Int OBVIOUS
  <2> QED BY <2>1
<1>5. j - 1 \in Nat /\ j - 1 <= m /\ (\A i \in 1..(j - 1) : i \in 1..m /\ i # j) BY <1>3
<1>6. g[j - 1] = h[j - 1]
  <2>1. \A i \in 1..(j - 1) : s[i] = t[i] BY <1>3, <1>5
  <2> QED BY <1>1, <1>2, <1>3, <1>5, <2>1, SumsAgree
<1> DEFINE P == {n \in Nat : n <= m - j => h[j + n] + x = g[j + n] + y /\ h[j + n] \in Int /\ g[j + n] \in Int}
<1>7. 0 \in P
  <2>1. j \in 1..Len(s) /\ j \in 1..Len(t) /\ j + 0 = j OBVIOUS
  <2>2. g[j] = g[j - 1] + x /\ g[j - 1] \in Int BY <1>1, <1>4, <2>1 DEF IsSum
  <2>3. h[j] = h[j - 1] + y /\ h[j - 1] \in Int BY <1>2, <1>4, <2>1 DEF IsSum
  <2>4. PICK p \in Int : p = g[j - 1] BY <2>2
  <2>5. g[j] = p + x /\ h[j] = p + y BY <1>6, <2>2, <2>3, <2>4
  <2>6. (p + y) + x = (p + x) + y /\ p + y \in Int /\ p + x \in Int OBVIOUS
  <2>7. h[j] + x = g[j] + y /\ h[j] \in Int /\ g[j] \in Int BY <2>5, <2>6
  <2> QED BY <2>1, <2>7
<1>8. ASSUME NEW n \in Nat, n \in P PROVE n + 1 \in P
  <2>1. SUFFICES ASSUME n + 1 <= m - j
                 PROVE  h[j + (n + 1)] + x = g[j + (n + 1)] + y /\ h[j + (n + 1)] \in Int /\ g[j + (n + 1)] \in Int
    OBVIOUS
  <2>2. PICK k \in Nat : k = j + (n + 1) OBVIOUS
  <2>3. n <= m - j /\ k \in 1..Len(s) /\ k \in 1..Len(t) /\ k - 1 = j + n /\ k # j BY <1>3, <2>1, <2>2
  <2>4. s[k] = t[k] /\ s[k] \in Int BY <2>3
  <2>5. g[k] = g[k - 1] + s[k] BY <1>1, <2>3 DEF IsSum
  <2>6. h[k] = h[k - 1] + t[k] BY <1>2, <2>3 DEF IsSum
  <2>7. h[k - 1] + x = g[k - 1] + y /\ h[k - 1] \in Int /\ g[k - 1] \in Int BY <1>8, <2>3
  <2>8. PICK p \in Int, q \in Int, z \in Int : p = h[k - 1] /\ q = g[k - 1] /\ z = s[k] BY <2>4, <2>7
  <2>10. p + x = q + y BY <2>7, <2>8
  <2>9. (p + z) + x = (q + z) + y /\ p + z \in Int /\ q + z \in Int BY <2>10
  <2>11. g[k] = q + z /\ h[k] = p + z BY <2>4, <2>5, <2>6, <2>8
  <2> QED BY <2>2, <2>9, <2>11
<1>9. Nat \subseteq P
  <2> HIDE DEF P
  <2> QED BY <1>7, <1>8, NatInd
<1>10. m - j \in Nat /\ j + (m - j) = m BY <1>3
<1>11. m - j \in P BY <1>9, <1>10
<1>12. h[m] + x = g[m] + y BY <1>10, <1>11
<1> QED BY <1>1, <1>2, <1>3, <1>4, <1>12 DEF IsSum

\* Entries that are all twos, or all nothing.
LEMMA SumTwos ==
    ASSUME NEW s \in Seq(Int) PROVE  /\ (\A i \in 1..Len(s) : s[i] = 2) => SumOfList(s) = 2 * Len(s)
                                     /\ (\A i \in 1..Len(s) : s[i] = 0) => SumOfList(s) = 0
                                     /\ (\A i \in 1..Len(s) : s[i] \in Nat) => SumOfList(s) \in Nat
<1>1. PICK g : IsSum(g, s) BY SumLoop
<1>2. Len(s) \in Nat /\ Len(s) <= Len(s) OBVIOUS
<1> DEFINE P == {n \in Nat : n <= Len(s) =>
                   /\ (\A i \in 1..Len(s) : s[i] = 2) => g[n] = 2 * n
                   /\ (\A i \in 1..Len(s) : s[i] = 0) => g[n] = 0
                   /\ (\A i \in 1..Len(s) : s[i] \in Nat) => g[n] \in Nat}
<1>3. 0 \in P BY <1>1 DEF IsSum
<1>4. ASSUME NEW n \in Nat, n \in P PROVE n + 1 \in P
  <2>1. SUFFICES ASSUME n + 1 <= Len(s)
                 PROVE  /\ (\A i \in 1..Len(s) : s[i] = 2) => g[n + 1] = 2 * (n + 1)
                        /\ (\A i \in 1..Len(s) : s[i] = 0) => g[n + 1] = 0
                        /\ (\A i \in 1..Len(s) : s[i] \in Nat) => g[n + 1] \in Nat
    OBVIOUS
  <2>2. n <= Len(s) /\ n + 1 \in 1..Len(s) /\ (n + 1) - 1 = n BY <2>1
  <2>3. g[n + 1] = g[n] + s[n + 1] BY <1>1, <2>2 DEF IsSum
  <2>4. ASSUME \A i \in 1..Len(s) : s[i] = 2 PROVE g[n + 1] = 2 * (n + 1)
    <3>1. g[n] = 2 * n /\ s[n + 1] = 2 BY <1>4, <2>2, <2>4
    <3> QED BY <2>3, <3>1
  <2>5. ASSUME \A i \in 1..Len(s) : s[i] = 0 PROVE g[n + 1] = 0
    <3>1. g[n] = 0 /\ s[n + 1] = 0 BY <1>4, <2>2, <2>5
    <3> QED BY <2>3, <3>1
  <2>6. ASSUME \A i \in 1..Len(s) : s[i] \in Nat PROVE g[n + 1] \in Nat
    <3>1. g[n] \in Nat /\ s[n + 1] \in Nat BY <1>4, <2>2, <2>6
    <3> QED BY <2>3, <3>1
  <2> QED BY <2>4, <2>5, <2>6
<1>5. Nat \subseteq P
  <2> HIDE DEF P
  <2> QED BY <1>3, <1>4, NatInd
<1>6. Len(s) \in P BY <1>2, <1>5
<1> QED BY <1>1, <1>2, <1>6 DEF IsSum

-----------------------------------------------------------------------------
(* Balance updates: every coin is somewhere. *)

Account == [bal : Nat, stake : Nat, pen : Nat, killed : BOOLEAN]
AccountView == [bal : Nat, stake : Nat, pen : Nat]
PendingRow == [addr : Accounts, reason : Reasons, old : AccountView, new : AccountView, payment : Nat]
BurntRow == [addr : Accounts, amount : Nat, reason : {"BurnTx", "Killed", "DustClearing"}]

CoinsOf(f) == SumOfList([i \in DOMAIN AccountList |-> Worth(f[AccountList[i]])])
BurntOf(list) == SumOfList([i \in DOMAIN list |-> list[i].amount])

\* What an account has, in the eyes of the collector.
LEMMA WorthOfAccount ==
    ASSUME NEW x \in Account
    PROVE  /\ View(x) \in AccountView /\ View(x).bal = x.bal /\ Worth(x) \in Nat
           /\ Worth(x) = x.bal + (IF x.killed THEN 0 ELSE x.stake)
           /\ View(x).stake = (IF x.killed THEN 0 ELSE x.stake)
<1>1. x.bal \in Nat /\ x.stake \in Nat /\ x.pen \in Nat BY DEF Account
<1>2. View(x).bal = x.bal /\ View(x).stake = (IF x.killed THEN 0 ELSE x.stake) BY DEF View
<1>3. View(x) \in AccountView BY <1>1 DEF View, AccountView
<1> QED BY <1>1, <1>2, <1>3 DEF Worth

\* The coins of the accounts are an amount, and change with one account.
LEMMA CoinsChange ==
    ASSUME NEW f \in [Accounts -> Account], NEW g \in [Accounts -> Account], NEW a \in Accounts,
           \A b \in Accounts : b # a => g[b] = f[b]
    PROVE  CoinsOf(f) \in Int /\ CoinsOf(g) \in Int /\ CoinsOf(g) + Worth(f[a]) = CoinsOf(f) + Worth(g[a])
<1>1. IsFiniteSet(Accounts) BY BracketsAssumption
<1>2. PICK l : l = AccountList OBVIOUS
<1>3. l \in Seq(Accounts) /\ \E j \in 1..Len(l) : l[j] = a /\ \A i \in 1..Len(l) : i # j => l[i] # a
  BY <1>1, <1>2, PlacesInList DEF AccountList
<1>4. PICK j \in 1..Len(l) : l[j] = a /\ \A i \in 1..Len(l) : i # j => l[i] # a BY <1>3
<1>5. PICK n \in Nat : n = Len(l) /\ DOMAIN l = 1..n BY <1>3
<1>6. PICK s : s = [i \in 1..n |-> Worth(f[l[i]])] OBVIOUS
<1>7. PICK t : t = [i \in 1..n |-> Worth(g[l[i]])] OBVIOUS
<1>8. \A i \in 1..n : l[i] \in Accounts BY <1>3, <1>5
<1>9. \A i \in 1..n : Worth(f[l[i]]) \in Int /\ Worth(g[l[i]]) \in Int
  <2> SUFFICES ASSUME NEW i \in 1..n PROVE Worth(f[l[i]]) \in Int /\ Worth(g[l[i]]) \in Int OBVIOUS
  <2>1. f[l[i]] \in Account /\ g[l[i]] \in Account BY <1>8
  <2>2. Worth(f[l[i]]) \in Nat /\ Worth(g[l[i]]) \in Nat BY <2>1, WorthOfAccount
  <2> QED BY <2>2
<1>10. s \in Seq(Int) /\ t \in Seq(Int) /\ Len(s) = n /\ Len(t) = n BY <1>6, <1>7, <1>9
<1>11. \A i \in 1..Len(s) : i # j => s[i] = t[i]
  <2> SUFFICES ASSUME NEW i \in 1..n, i # j PROVE s[i] = t[i] BY <1>10
  <2>1. l[i] # a /\ l[i] \in Accounts BY <1>4, <1>5, <1>8
  <2>2. g[l[i]] = f[l[i]] BY <2>1
  <2> QED BY <1>6, <1>7, <2>2
<1>12. j \in 1..Len(s) BY <1>5, <1>10
<1>13. SumOfList(t) + s[j] = SumOfList(s) + t[j] BY <1>10, <1>11, <1>12, SumOther
<1>14. CoinsOf(f) = SumOfList(s) /\ CoinsOf(g) = SumOfList(t) BY <1>2, <1>5, <1>6, <1>7 DEF CoinsOf
<1>15. s[j] = Worth(f[a]) /\ t[j] = Worth(g[a]) BY <1>4, <1>5, <1>6, <1>7
<1> QED BY <1>10, <1>13, <1>14, <1>15, SumInt

\* Coins burnt, at the end of the list.
LEMMA BurntMore ==
    ASSUME NEW list \in Seq(BurntRow), NEW a \in Accounts, NEW n \in Nat, NEW r \in {"BurnTx", "Killed", "DustClearing"}
    PROVE  /\ list \o addBurntCoins(a, n, r) \in Seq(BurntRow)
           /\ BurntOf(list) \in Int /\ BurntOf(list \o addBurntCoins(a, n, r)) = BurntOf(list) + n
<1>1. PICK s : s = [i \in DOMAIN list |-> list[i].amount] OBVIOUS
<1>2. PICK m \in Nat : m = Len(list) /\ DOMAIN list = 1..m OBVIOUS
<1>3. \A i \in 1..m : list[i].amount \in Nat
  <2>1. \A i \in 1..m : list[i] \in BurntRow BY <1>2
  <2> QED BY <2>1 DEF BurntRow
<1>4. s \in Seq(Int) /\ Len(s) = m BY <1>1, <1>2, <1>3
<1>5. BurntOf(list) = SumOfList(s) BY <1>1 DEF BurntOf
<1>6. SumOfList(s) \in Int BY <1>4, SumInt
<1>7. CASE n = 0
  <2>1. list \o addBurntCoins(a, n, r) = list BY <1>7 DEF addBurntCoins
  <2>2. BurntOf(list) \in Int /\ BurntOf(list) = BurntOf(list) + 0 BY <1>5, <1>6
  <2> QED BY <1>7, <2>1, <2>2
<1>8. CASE n # 0
  <2>1. PICK x : x = [addr |-> a, amount |-> n, reason |-> r] OBVIOUS
  <2>2. x \in BurntRow /\ x.amount = n BY <2>1 DEF BurntRow
  <2>3. addBurntCoins(a, n, r) = <<x>> BY <1>8, <2>1 DEF addBurntCoins
  <2>4. PICK u : u = list \o <<x>> OBVIOUS
  <2>5. u \in Seq(BurntRow) /\ Len(u) = m + 1 /\ u[m + 1] = x /\ \A i \in 1..m : u[i] = list[i] BY <1>2, <2>2, <2>4
  <2>6. PICK t : t = [i \in 1..(m + 1) |-> u[i].amount] OBVIOUS
  <2>7. t[m + 1] = n /\ \A i \in 1..m : t[i] = list[i].amount BY <2>2, <2>5, <2>6
  <2>8. \A i \in 1..(m + 1) : i \in 1..m \/ i = m + 1 OBVIOUS
  <2>9. \A i \in 1..(m + 1) : t[i] \in Int BY <1>3, <2>7, <2>8
  <2>10. t \in Seq(Int) /\ Len(t) = m + 1 BY <2>6, <2>9
  <2>11. \A i \in 1..Len(s) : s[i] = t[i] BY <1>1, <1>2, <1>4, <2>7
  <2>12. SumOfList(t) = SumOfList(s) + t[Len(t)] BY <1>4, <2>10, <2>11, SumMore
  <2>13. DOMAIN u = 1..(m + 1) BY <2>5
  <2>14. BurntOf(u) = SumOfList(t) BY <2>6, <2>13 DEF BurntOf
  <2> QED BY <1>5, <1>6, <2>3, <2>4, <2>5, <2>7, <2>10, <2>12, <2>14
<1> QED BY <1>7, <1>8

\* The dust that is being cleared is not yet among the burnt coins.
IsDust(list) == Len(list) = 1 /\ list[1].reason = "DustClearing"
DustDue(list) == IF IsDust(list) THEN list[1].old.bal ELSE 0

CoinTypes ==
    /\ accounts \in [Accounts -> Account] /\ pendingRows \in Seq(PendingRow)
    /\ burntRows \in Seq(BurntRow) /\ supply \in Int

\* Dust is cleared in a bracket of its own.
DustAlone(list, f) ==
    /\ \A i \in 1..Len(list) : list[i].reason = "DustClearing" => IsDust(list)
    /\ IsDust(list) => f[list[1].addr].bal = 0

CoinInv ==
    /\ CoinTypes /\ DustAlone(pendingRows, accounts)
    /\ CoinsOf(accounts) + BurntOf(burntRows) + DustDue(pendingRows) = supply

\* The invariant says what is to be shown.
LEMMA CoinInvSuffices == CoinInv => CoinsAreAccounted
<1> SUFFICES ASSUME CoinInv, pendingRows = <<>> PROVE Coins + Burnt = supply BY DEF CoinsAreAccounted
<1>1. Coins = CoinsOf(accounts) /\ Burnt = BurntOf(burntRows) BY DEF Coins, CoinsOf, Burnt, BurntOf
<1>2. PICK e : e = <<>> OBVIOUS
<1>3. Len(e) = 0 BY <1>2
<1>4. DustDue(pendingRows) = 0 BY <1>2, <1>3 DEF DustDue, IsDust
<1>5. BurntOf(burntRows) \in Int
  <2>1. burntRows \in Seq(BurntRow) BY DEF CoinInv, CoinTypes
  <2>2. [i \in DOMAIN burntRows |-> burntRows[i].amount] \in Seq(Int)
    <3>1. \A i \in DOMAIN burntRows : burntRows[i] \in BurntRow BY <2>1
    <3>2. \A i \in DOMAIN burntRows : burntRows[i].amount \in Int BY <3>1 DEF BurntRow
    <3> QED BY <2>1, <3>2
  <2> QED BY <2>2, SumInt DEF BurntOf
<1>6. CoinsOf(accounts) + BurntOf(burntRows) + 0 = supply BY <1>4 DEF CoinInv
<1>7. CoinsOf(accounts) \in Int
  <2>1. accounts \in [Accounts -> Account] BY DEF CoinInv, CoinTypes
  <2>2. CASE Accounts = {}
    <3>1. AccountList \in Seq(Accounts) BY BracketsAssumption, PlacesInList DEF AccountList
    <3>2. \A i \in DOMAIN AccountList : AccountList[i] \in Accounts BY <3>1
    <3>3. [i \in DOMAIN AccountList |-> Worth(accounts[AccountList[i]])] \in Seq(Int) BY <2>2, <3>1, <3>2
    <3> QED BY <3>3, SumInt DEF CoinsOf
  <2>3. CASE Accounts # {}
    <3>1. PICK a \in Accounts : TRUE BY <2>3
    <3> QED BY <2>1, CoinsChange
  <2> QED BY <2>2, <2>3
<1> QED BY <1>1, <1>5, <1>6, <1>7

\* A pending row of an address.
LEMMA PendingOne ==
    ASSUME CoinTypes, NEW a \in Accounts, NEW r \in Reasons, NEW p \in Nat
    PROVE  /\ addPendingBalanceUpdate(a, r, p) \in PendingRow
           /\ addPendingBalanceUpdate(a, r, p).reason = r /\ addPendingBalanceUpdate(a, r, p).addr = a
           /\ addPendingBalanceUpdate(a, r, p).old.bal = accounts[a].bal
<1>1. accounts[a] \in Account BY DEF CoinTypes
<1>2. View(accounts[a]) \in AccountView /\ View(accounts[a]).bal = accounts[a].bal BY <1>1, WorthOfAccount
<1>3. PICK v \in AccountView : v = View(accounts[a]) BY <1>2
<1>4. PICK q \in Nat : q = IF v.pen > 0 THEN p ELSE 0 OBVIOUS
<1>5. addPendingBalanceUpdate(a, r, p) = [addr |-> a, reason |-> r, old |-> v, new |-> v, payment |-> q]
  BY <1>3, <1>4 DEF addPendingBalanceUpdate, BalanceRow
<1> QED BY <1>2, <1>3, <1>5 DEF PendingRow

\* Rows of one reason.
RowsFor(list, r) == list \in Seq(PendingRow) /\ \A i \in 1..Len(list) : list[i].reason = r

\* Those of two addresses.
LEMMA PendingTwo ==
    ASSUME CoinTypes, NEW a \in Accounts, NEW b \in Accounts, NEW r \in Reasons, NEW p \in Nat
    PROVE  RowsFor(TwoRows(r, a, b, p), r)
<1>1. PICK x \in PendingRow : x = addPendingBalanceUpdate(a, r, p) /\ x.reason = r BY PendingOne
<1>2. PICK y \in PendingRow : y = addPendingBalanceUpdate(b, r, 0) /\ y.reason = r BY PendingOne
<1>3. CASE a = b
  <2>1. TwoRows(r, a, b, p) = <<x>> BY <1>1, <1>3 DEF TwoRows
  <2> QED BY <1>1, <2>1 DEF RowsFor
<1>4. CASE a # b
  <2>1. TwoRows(r, a, b, p) = <<x>> \o <<y>> BY <1>1, <1>2, <1>4 DEF TwoRows
  <2>2. PICK u : u = <<x>> \o <<y>> OBVIOUS
  <2>3. u \in Seq(PendingRow) /\ Len(u) = 2 /\ u[1] = x /\ u[2] = y BY <1>1, <1>2, <2>2
  <2>4. \A i \in 1..2 : i = 1 \/ i = 2 OBVIOUS
  <2> QED BY <1>1, <1>2, <2>1, <2>2, <2>3, <2>4 DEF RowsFor
<1> QED BY <1>3, <1>4

\* The rows of other reasons need nothing.
LEMMA NoDust ==
    ASSUME NEW list, NEW r, RowsFor(list, r), r # "DustClearing", NEW f
    PROVE  list \in Seq(PendingRow) /\ DustAlone(list, f) /\ DustDue(list) = 0
<1>1. ~IsDust(list)
  <2>1. SUFFICES ASSUME Len(list) = 1, list[1].reason = "DustClearing" PROVE FALSE BY DEF IsDust
  <2>2. 1 \in 1..Len(list) BY <2>1
  <2> QED BY <2>1, <2>2 DEF RowsFor
<1> QED BY <1>1 DEF RowsFor, DustAlone, DustDue

\* A bracket begins when no rows are pending.
LEMMA BeginInv ==
    ASSUME CoinInv, NEW reason, NEW newRows, Begin(reason, newRows)
    PROVE  /\ CoinTypes /\ pendingRows' = newRows
           /\ CoinsOf(accounts) + BurntOf(burntRows) = supply
           /\ CoinsOf(accounts) \in Int \/ Accounts = {}
<1>1. pendingRows = <<>> /\ pendingRows' = newRows BY DEF Begin
<1>2. CoinsAreAccounted BY CoinInvSuffices
<1>3. Coins = CoinsOf(accounts) /\ Burnt = BurntOf(burntRows) BY DEF Coins, CoinsOf, Burnt, BurntOf
<1>4. CoinsOf(accounts) \in Int \/ Accounts = {}
  <2>1. SUFFICES ASSUME NEW a \in Accounts PROVE CoinsOf(accounts) \in Int OBVIOUS
  <2>2. accounts \in [Accounts -> Account] BY DEF CoinInv, CoinTypes
  <2> QED BY <2>2, CoinsChange
<1> QED BY <1>1, <1>2, <1>3, <1>4 DEF CoinInv, CoinsAreAccounted

\* Two accounts change.
LEMMA CoinsOfTwo ==
    ASSUME NEW f \in [Accounts -> Account], NEW g \in [Accounts -> Account], NEW a \in Accounts, NEW b \in Accounts,
           a # b, \A c \in Accounts : c # a /\ c # b => g[c] = f[c]
    PROVE  CoinsOf(g) + Worth(f[a]) + Worth(f[b]) = CoinsOf(f) + Worth(g[a]) + Worth(g[b])
<1>1. PICK h : h = [f EXCEPT ![a] = g[a]] OBVIOUS
<1>2. h \in [Accounts -> Account] /\ h[a] = g[a] /\ h[b] = f[b] /\ \A c \in Accounts : c # a => h[c] = f[c] BY <1>1
<1>3. PICK p \in Int, q \in Int : p = CoinsOf(f) /\ q = CoinsOf(h) /\ q + Worth(f[a]) = p + Worth(h[a])
  BY <1>2, CoinsChange
<1>4. \A c \in Accounts : c # b => g[c] = h[c]
  <2> SUFFICES ASSUME NEW c \in Accounts, c # b PROVE g[c] = h[c] OBVIOUS
  <2>1. CASE c = a BY <1>2, <2>1
  <2>2. CASE c # a BY <1>2, <2>2
  <2> QED BY <2>1, <2>2
<1>5. PICK r \in Int : r = CoinsOf(g) /\ r + Worth(h[b]) = q + Worth(g[b]) BY <1>2, <1>3, <1>4, CoinsChange
<1>6. PICK u \in Int, v \in Int, x \in Int, y \in Int :
        u = Worth(f[a]) /\ v = Worth(f[b]) /\ x = Worth(g[a]) /\ y = Worth(g[b])
  <2>1. f[a] \in Account /\ f[b] \in Account /\ g[a] \in Account /\ g[b] \in Account OBVIOUS
  <2>2. Worth(f[a]) \in Nat /\ Worth(f[b]) \in Nat /\ Worth(g[a]) \in Nat /\ Worth(g[b]) \in Nat
    BY <2>1, WorthOfAccount
  <2> QED BY <2>2
<1>7. q + u = p + x /\ r + v = q + y BY <1>2, <1>3, <1>5, <1>6
<1>8. r + u + v = p + x + y BY <1>7
<1> QED BY <1>3, <1>5, <1>6, <1>8

\* The dust that is due is an amount.
LEMMA DustIsAmount == ASSUME NEW list \in Seq(PendingRow) PROVE DustDue(list) \in Int
<1>1. CASE ~IsDust(list) BY <1>1 DEF DustDue
<1>2. CASE IsDust(list)
  <2>1. Len(list) = 1 BY <1>2 DEF IsDust
  <2>2. 1 \in 1..Len(list) BY <2>1
  <2>3. list[1] \in PendingRow BY <2>2
  <2>4. list[1].old.bal \in Nat BY <2>3 DEF PendingRow, AccountView
  <2> QED BY <1>2, <2>4 DEF DustDue
<1> QED BY <1>1, <1>2

\* The accounts, the burnt coins and the supply change together.
LEMMA AccountsChange ==
    ASSUME CoinInv, NEW reason, NEW newRows, Begin(reason, newRows), NEW a \in Accounts, NEW n \in Nat,
           NEW r \in {"BurnTx", "Killed", "DustClearing"},
           accounts' \in [Accounts -> Account], burntRows' = burntRows \o addBurntCoins(a, n, r), supply' \in Int,
           newRows \in Seq(PendingRow), DustAlone(newRows, accounts'),
           CoinsOf(accounts') + n + DustDue(newRows) + supply = CoinsOf(accounts) + supply'
    PROVE  CoinInv'
<1>1. CoinTypes /\ pendingRows' = newRows /\ CoinsOf(accounts) + BurntOf(burntRows) = supply BY BeginInv
<1>2. accounts \in [Accounts -> Account] /\ burntRows \in Seq(BurntRow) /\ supply \in Int BY <1>1 DEF CoinTypes
<1>3. PICK c \in Int, d \in Int : c = CoinsOf(accounts) /\ d = CoinsOf(accounts')
  <2>1. CoinsOf(accounts) \in Int /\ CoinsOf(accounts') \in Int BY <1>2, CoinsChange
  <2> QED BY <2>1
<1>4. PICK b \in Int : b = BurntOf(burntRows) /\ BurntOf(burntRows') = b + n /\ burntRows' \in Seq(BurntRow)
  BY <1>2, BurntMore
<1>6. DustDue(newRows) \in Int
  <2>1. newRows \in Seq(PendingRow) OBVIOUS
  <2> QED BY <2>1, DustIsAmount
<1>7. PICK z \in Int : z = DustDue(newRows) BY <1>6
<1>8. PICK p \in Int, q \in Int : p = supply /\ q = supply' BY <1>2
<1>9. c + b = p /\ d + n + z + p = c + q BY <1>1, <1>3, <1>4, <1>7, <1>8
<1>10. d + (b + n) + z = q BY <1>9
<1>11. CoinTypes' BY <1>1, <1>4 DEF CoinTypes
<1> QED BY <1>1, <1>3, <1>4, <1>7, <1>8, <1>10, <1>11 DEF CoinInv

\* No coin is burnt.
LEMMA NothingBurnt == ASSUME burntRows \in Seq(BurntRow), NEW a, NEW r
                      PROVE  burntRows \o addBurntCoins(a, 0, r) = burntRows
BY DEF addBurntCoins

\* The accounts and the supply change together.
LEMMA AccountsMove ==
    ASSUME CoinInv, NEW reason, NEW newRows, Begin(reason, newRows), NEW a \in Accounts,
           accounts' \in [Accounts -> Account], burntRows' = burntRows, supply' \in Int,
           newRows \in Seq(PendingRow), DustAlone(newRows, accounts'),
           CoinsOf(accounts') + DustDue(newRows) + supply = CoinsOf(accounts) + supply'
    PROVE  CoinInv'
<1>1. CoinTypes BY DEF CoinInv
<1>2. burntRows \in Seq(BurntRow) /\ accounts \in [Accounts -> Account] BY <1>1 DEF CoinTypes
<1>3. PICK k \in Nat : k = 0 OBVIOUS
<1>4. burntRows' = burntRows \o addBurntCoins(a, k, "Killed") BY <1>2, <1>3, NothingBurnt
<1>5. CoinsOf(accounts') + k + DustDue(newRows) + supply = CoinsOf(accounts) + supply'
  <2>1. CoinsOf(accounts') \in Int BY <1>2, CoinsChange
  <2>2. CoinsOf(accounts') + k = CoinsOf(accounts') BY <1>3, <2>1
  <2> QED BY <2>2
<1> QED BY <1>4, <1>5, AccountsChange

\* A transaction moves or burns a coin.
LEMMA TxCoins ==
    ASSUME CoinInv, NEW sender \in Accounts, NEW to \in Accounts, NEW payee \in Accounts, NEW burn \in BOOLEAN,
           BeginTxBalanceUpdate(sender, to, payee, burn)
    PROVE  CoinInv'
<1> DEFINE newRows == TwoRows("Tx", sender, to, 0) \o
                      IF payee \in {sender, to} THEN <<>> ELSE <<addPendingBalanceUpdate(payee, "Tx", 0)>>
           paid == [accounts EXCEPT ![sender].bal = @ - 1]
           next == IF burn THEN paid ELSE [paid EXCEPT ![payee].bal = @ + 1]
           n == IF burn THEN 1 ELSE 0
<1>1. /\ accounts[sender].bal >= 1 /\ Begin("Tx", newRows) /\ accounts' = next
      /\ burntRows' = burntRows \o IF burn THEN addBurntCoins(sender, 1, "BurnTx") ELSE <<>>
      /\ supply' = supply
  BY DEF BeginTxBalanceUpdate
<1>2. CoinTypes BY DEF CoinInv
<1>3. RowsFor(newRows, "Tx")
  <2>1. "Tx" \in Reasons BY DEF Reasons
  <2>2. RowsFor(TwoRows("Tx", sender, to, 0), "Tx") BY <1>2, <2>1, PendingTwo
  <2>3. PICK s : s = TwoRows("Tx", sender, to, 0) OBVIOUS
  <2>4. s \in Seq(PendingRow) /\ \A i \in 1..Len(s) : s[i].reason = "Tx" BY <2>2, <2>3 DEF RowsFor
  <2>5. PICK x \in PendingRow : x = addPendingBalanceUpdate(payee, "Tx", 0) /\ x.reason = "Tx" BY <1>2, <2>1, PendingOne
  <2>6. CASE payee \in {sender, to}
    <3>1. newRows = s BY <2>3, <2>4, <2>6
    <3> QED BY <2>4, <3>1 DEF RowsFor
  <2>7. CASE payee \notin {sender, to}
    <3>1. newRows = s \o <<x>> BY <2>3, <2>5, <2>7
    <3>2. PICK u : u = s \o <<x>> OBVIOUS
    <3>3. u \in Seq(PendingRow) /\ Len(u) = Len(s) + 1 /\ u[Len(s) + 1] = x /\ \A i \in 1..Len(s) : u[i] = s[i]
      BY <2>4, <3>2
    <3>4. \A i \in 1..(Len(s) + 1) : i \in 1..Len(s) \/ i = Len(s) + 1 BY <2>4
    <3>5. \A i \in 1..Len(u) : u[i].reason = "Tx" BY <2>4, <2>5, <3>3, <3>4
    <3> QED BY <3>1, <3>2, <3>3, <3>5 DEF RowsFor
  <2> QED BY <2>6, <2>7
<1> HIDE DEF newRows
<1>4. newRows \in Seq(PendingRow) /\ DustAlone(newRows, next) /\ DustDue(newRows) = 0 BY <1>3, NoDust
<1>5. accounts \in [Accounts -> Account] /\ burntRows \in Seq(BurntRow) /\ supply \in Int BY <1>2 DEF CoinTypes
<1>6. accounts[sender] \in Account /\ accounts[sender].bal - 1 \in Nat /\ accounts[payee] \in Account
  <2>1. accounts[sender] \in Account /\ accounts[payee] \in Account BY <1>5
  <2>2. accounts[sender].bal \in Nat BY <2>1 DEF Account
  <2> QED BY <1>1, <2>1, <2>2
<1>7. /\ paid \in [Accounts -> Account] /\ paid[sender] = [accounts[sender] EXCEPT !.bal = accounts[sender].bal - 1]
      /\ \A a \in Accounts : a # sender => paid[a] = accounts[a]
  <2>1. [accounts[sender] EXCEPT !.bal = accounts[sender].bal - 1] \in Account BY <1>6 DEF Account
  <2>2. paid = [accounts EXCEPT ![sender] = [accounts[sender] EXCEPT !.bal = accounts[sender].bal - 1]] OBVIOUS
  <2> QED BY <1>5, <2>1, <2>2
<1>8. Worth(paid[sender]) + 1 = Worth(accounts[sender]) /\ Worth(paid[sender]) \in Nat /\ Worth(accounts[sender]) \in Nat
  <2>1. paid[sender].bal = accounts[sender].bal - 1 /\ paid[sender].killed = accounts[sender].killed
        /\ paid[sender].stake = accounts[sender].stake /\ paid[sender] \in Account
    BY <1>6, <1>7 DEF Account
  <2>2. /\ Worth(paid[sender]) = paid[sender].bal + (IF paid[sender].killed THEN 0 ELSE paid[sender].stake)
        /\ Worth(accounts[sender]) = accounts[sender].bal + (IF accounts[sender].killed THEN 0 ELSE accounts[sender].stake)
        /\ Worth(paid[sender]) \in Nat /\ Worth(accounts[sender]) \in Nat
    BY <1>6, <2>1, WorthOfAccount
  <2>3. accounts[sender].bal \in Nat /\ accounts[sender].stake \in Nat BY <1>6 DEF Account
  <2> QED BY <2>1, <2>2, <2>3
<1> HIDE DEF paid
<1>9. CoinsOf(accounts) \in Int /\ CoinsOf(paid) \in Int /\ CoinsOf(paid) + 1 = CoinsOf(accounts)
  <2>1. CoinsOf(accounts) \in Int /\ CoinsOf(paid) \in Int
        /\ CoinsOf(paid) + Worth(accounts[sender]) = CoinsOf(accounts) + Worth(paid[sender])
    BY <1>5, <1>7, CoinsChange
  <2> QED BY <1>8, <2>1
<1>10. CASE burn
  <2>1. accounts' = paid /\ burntRows' = burntRows \o addBurntCoins(sender, 1, "BurnTx") BY <1>1, <1>10
  <2>2. CoinsOf(accounts') + 1 + DustDue(newRows) + supply = CoinsOf(accounts) + supply' BY <1>1, <1>4, <1>5, <1>9, <2>1
  <2>3. DustAlone(newRows, accounts') BY <1>3, NoDust
  <2> QED BY <1>1, <1>4, <1>5, <1>7, <2>1, <2>2, <2>3, AccountsChange
<1>11. CASE ~burn
  <2>1. accounts' = [paid EXCEPT ![payee].bal = @ + 1] /\ burntRows' = burntRows \o <<>> BY <1>1, <1>11
  <2>2. paid[payee] \in Account BY <1>7
  <2>3. PICK x : x = [paid[payee] EXCEPT !.bal = paid[payee].bal + 1] OBVIOUS
  <2>4. x \in Account /\ x.bal = paid[payee].bal + 1 /\ x.stake = paid[payee].stake /\ x.killed = paid[payee].killed
        /\ paid[payee].bal \in Nat /\ paid[payee].stake \in Nat
    BY <2>2, <2>3 DEF Account
  <2>5. Worth(x) = Worth(paid[payee]) + 1 /\ Worth(x) \in Nat /\ Worth(paid[payee]) \in Nat
    <3>1. /\ Worth(paid[payee]) = paid[payee].bal + (IF paid[payee].killed THEN 0 ELSE paid[payee].stake)
          /\ Worth(x) = x.bal + (IF x.killed THEN 0 ELSE x.stake) /\ Worth(x) \in Nat /\ Worth(paid[payee]) \in Nat
      BY <2>2, <2>4, WorthOfAccount
    <3> QED BY <2>4, <3>1
  <2>6. accounts' = [paid EXCEPT ![payee] = x] BY <2>1, <2>3
  <2>7. accounts' \in [Accounts -> Account] /\ accounts'[payee] = x /\ \A a \in Accounts : a # payee => accounts'[a] = paid[a]
    BY <1>7, <2>4, <2>6
  <2>8. CoinsOf(accounts') \in Int /\ CoinsOf(accounts') + Worth(paid[payee]) = CoinsOf(paid) + Worth(x)
    BY <1>7, <2>7, CoinsChange
  <2>9. CoinsOf(accounts') = CoinsOf(accounts) BY <1>9, <2>5, <2>8
  <2>10. burntRows' = burntRows BY <1>5, <2>1
  <2>11. CoinsOf(accounts') + DustDue(newRows) + supply = CoinsOf(accounts) + supply' BY <1>1, <1>4, <1>5, <1>9, <2>9
  <2>12. DustAlone(newRows, accounts') BY <1>3, NoDust
  <2>14. supply' \in Int /\ accounts' \in [Accounts -> Account] BY <1>1, <1>5, <2>7
  <2> QED BY <1>1, <1>4, <2>10, <2>11, <2>12, <2>14, AccountsMove
<1> QED BY <1>10, <1>11

\* The stake of one identity goes to another.
LEMMA TransferCoins ==
    ASSUME CoinInv, NEW from \in Accounts, NEW to \in Accounts, BeginVerifiedStakeTransferBalanceUpdate(from, to)
    PROVE  CoinInv'
<1> DEFINE reason == "VerifiedStakeTransfer"
           newRows == TwoRows(reason, from, to, 0)
           stake == accounts[from].stake
           first == [accounts EXCEPT ![from].stake = 0]
<1>1. /\ ~accounts[from].killed /\ ~accounts[to].killed /\ Begin(reason, newRows)
      /\ accounts' = [first EXCEPT ![to].stake = @ + stake] /\ burntRows' = burntRows /\ supply' = supply
  BY DEF BeginVerifiedStakeTransferBalanceUpdate
<1>2. CoinTypes BY DEF CoinInv
<1>3. RowsFor(newRows, reason) BY <1>2, PendingTwo DEF Reasons
<1>4. newRows \in Seq(PendingRow) /\ DustAlone(newRows, accounts') /\ DustDue(newRows) = 0 BY <1>3, NoDust
<1> HIDE DEF newRows
<1>5. accounts \in [Accounts -> Account] /\ supply \in Int BY <1>2 DEF CoinTypes
<1>6. accounts[from] \in Account /\ accounts[to] \in Account /\ stake \in Nat /\ accounts[to].stake \in Nat
  <2>1. accounts[from] \in Account /\ accounts[to] \in Account BY <1>5
  <2> QED BY <2>1 DEF Account
<1>7. first \in [Accounts -> Account]
  <2>1. [accounts[from] EXCEPT !.stake = 0] \in Account BY <1>6 DEF Account
  <2>2. first = [accounts EXCEPT ![from] = [accounts[from] EXCEPT !.stake = 0]] OBVIOUS
  <2> QED BY <1>5, <2>1, <2>2
<1>8. PICK y : y = [first[to] EXCEPT !.stake = first[to].stake + stake] OBVIOUS
<1>9. accounts' = [first EXCEPT ![to] = y] BY <1>1, <1>8
<1>10. first[to] \in Account /\ first[to].stake \in Nat
  <2>1. first[to] \in Account BY <1>7
  <2> QED BY <2>1 DEF Account
<1>11. y \in Account BY <1>6, <1>8, <1>10 DEF Account
<1>12. accounts' \in [Accounts -> Account] BY <1>7, <1>9, <1>11
<1>13. CoinsOf(accounts') = CoinsOf(accounts)
  <2>1. CASE from = to
    <3>1. first[to] = [accounts[to] EXCEPT !.stake = 0] BY <1>5, <2>1
    <3>2. y = accounts[to] BY <1>6, <1>8, <2>1, <3>1 DEF Account
    <3>3. accounts' = accounts
      <4>1. \A a \in Accounts : accounts'[a] = accounts[a] BY <1>5, <1>7, <1>9, <2>1, <3>2
      <4> QED BY <1>5, <1>12, <4>1
    <3> QED BY <3>3
  <2>2. CASE from # to
    <3>1. first[to] = accounts[to] /\ first[from] = [accounts[from] EXCEPT !.stake = 0] BY <1>5, <2>2
    <3>2. /\ accounts'[to] = y /\ accounts'[from] = first[from]
          /\ \A a \in Accounts : a # from /\ a # to => accounts'[a] = accounts[a]
      BY <1>5, <1>7, <1>9, <2>2
    <3>3. /\ Worth(accounts[from]) = accounts[from].bal + stake /\ Worth(accounts[to]) = accounts[to].bal + accounts[to].stake
          /\ Worth(accounts'[from]) = accounts[from].bal /\ Worth(accounts'[to]) = accounts[to].bal + (accounts[to].stake + stake)
      <4>1. /\ first[from].bal = accounts[from].bal /\ first[from].stake = 0 /\ first[from].killed = accounts[from].killed
            /\ first[from] \in Account
        BY <1>5, <1>6, <1>7, <3>1 DEF Account
      <4>2. y.bal = accounts[to].bal /\ y.stake = accounts[to].stake + stake /\ y.killed = accounts[to].killed
        BY <1>6, <1>8, <3>1 DEF Account
      <4>3. accounts[from].bal \in Nat BY <1>6 DEF Account
      <4>4. Worth(accounts[from]) = accounts[from].bal + stake /\ Worth(accounts[to]) = accounts[to].bal + accounts[to].stake
        BY <1>1, <1>6, WorthOfAccount
      <4>5. Worth(first[from]) = first[from].bal + (IF first[from].killed THEN 0 ELSE first[from].stake)
        BY <4>1, WorthOfAccount
      <4>6. Worth(y) = y.bal + (IF y.killed THEN 0 ELSE y.stake) BY <1>11, WorthOfAccount
      <4>7. accounts[from].killed = FALSE /\ accounts[to].killed = FALSE
        <5>1. accounts[from].killed \in BOOLEAN /\ accounts[to].killed \in BOOLEAN BY <1>6 DEF Account
        <5> QED BY <1>1, <5>1
      <4>8. Worth(first[from]) = accounts[from].bal + 0 BY <4>1, <4>5, <4>7
      <4>9. Worth(first[from]) = accounts[from].bal BY <4>3, <4>8
      <4>10. Worth(y) = accounts[to].bal + (accounts[to].stake + stake) BY <4>2, <4>6, <4>7
      <4> QED BY <3>2, <4>4, <4>9, <4>10
    <3>4. CoinsOf(accounts') + Worth(accounts[from]) + Worth(accounts[to])
            = CoinsOf(accounts) + Worth(accounts'[from]) + Worth(accounts'[to])
      BY <1>5, <1>12, <2>2, <3>2, CoinsOfTwo
    <3>5. CoinsOf(accounts') \in Int /\ CoinsOf(accounts) \in Int BY <1>5, <1>12, CoinsChange
    <3>6. PICK p \in Int, q \in Int, k \in Nat, m \in Nat, st \in Nat, tt \in Nat :
            p = CoinsOf(accounts') /\ q = CoinsOf(accounts) /\ k = accounts[from].bal /\ m = accounts[to].bal
            /\ st = stake /\ tt = accounts[to].stake
      <4>1. accounts[from].bal \in Nat /\ accounts[to].bal \in Nat BY <1>6 DEF Account
      <4> QED BY <1>6, <3>5, <4>1
    <3>7. p + (k + st) + (m + tt) = q + k + (m + (tt + st)) BY <3>3, <3>4, <3>6
    <3>8. p = q BY <3>7
    <3> QED BY <3>6, <3>8
  <2> QED BY <2>1, <2>2
<1>14. CoinsOf(accounts') \in Int BY <1>5, <1>12, CoinsChange
<1>15. CoinsOf(accounts') + DustDue(newRows) + supply = CoinsOf(accounts) + supply' BY <1>1, <1>4, <1>5, <1>13, <1>14
<1>16. supply' \in Int BY <1>1, <1>5
<1> QED BY <1>1, <1>4, <1>12, <1>15, <1>16, AccountsMove

\* A reward adds to the supply what it pays, and burns the stake of a killed identity.
LEMMA RewardCoins ==
    ASSUME CoinInv, NEW reason \in Reasons, reason # "DustClearing", NEW a \in Accounts, NEW b \in Accounts,
           NEW balance \in Nat, NEW stake \in Nat, NEW payment \in Nat, Reward(reason, a, b, balance, stake, payment)
    PROVE  CoinInv'
<1> DEFINE newRows == TwoRows(reason, a, b, payment)
           n == IF accounts[b].killed THEN stake ELSE 0
<1>1. /\ Begin(reason, newRows)
      /\ accounts' = [[accounts EXCEPT ![a].bal = @ + balance, ![a].pen = IF payment > 0 THEN 0 ELSE @]
                                EXCEPT ![b].stake = @ + stake]
      /\ burntRows' = burntRows \o AfterAddStake(b, stake) /\ supply' = supply + balance + stake
  BY DEF Reward
<1>2. CoinTypes BY DEF CoinInv
<1>3. RowsFor(newRows, reason) BY <1>2, PendingTwo
<1>4. newRows \in Seq(PendingRow) /\ DustAlone(newRows, accounts') /\ DustDue(newRows) = 0 BY <1>3, NoDust
<1> HIDE DEF newRows
<1>5. accounts \in [Accounts -> Account] /\ supply \in Int /\ burntRows \in Seq(BurntRow) BY <1>2 DEF CoinTypes
<1>6. PICK x : x = [accounts[a] EXCEPT !.bal = accounts[a].bal + balance,
                                       !.pen = IF payment > 0 THEN 0 ELSE accounts[a].pen] OBVIOUS
<1>7. accounts[a] \in Account /\ accounts[b] \in Account BY <1>5
<1>8. x \in Account /\ x.bal = accounts[a].bal + balance /\ x.stake = accounts[a].stake /\ x.killed = accounts[a].killed
      /\ accounts[a].bal \in Nat /\ accounts[a].stake \in Nat
  <2>1. accounts[a].bal \in Nat /\ accounts[a].stake \in Nat /\ accounts[a].pen \in Nat BY <1>7 DEF Account
  <2>2. PICK p \in Nat : p = IF payment > 0 THEN 0 ELSE accounts[a].pen BY <2>1
  <2>3. PICK m \in Nat : m = accounts[a].bal + balance BY <2>1
  <2>4. x = [accounts[a] EXCEPT !.bal = m, !.pen = p] BY <1>6, <2>2, <2>3
  <2>5. x \in Account /\ x.bal = m /\ x.stake = accounts[a].stake /\ x.killed = accounts[a].killed
    BY <1>7, <2>4 DEF Account
  <2> QED BY <2>1, <2>3, <2>5
<1>9. PICK h : h = [accounts EXCEPT ![a] = x] OBVIOUS
<1>10. h \in [Accounts -> Account] /\ h[a] = x /\ \A c \in Accounts : c # a => h[c] = accounts[c] BY <1>5, <1>8, <1>9
<1>11. PICK y : y = [h[b] EXCEPT !.stake = h[b].stake + stake] OBVIOUS
<1>12. h[b] \in Account BY <1>10
<1>13. y \in Account /\ y.bal = h[b].bal /\ y.stake = h[b].stake + stake /\ y.killed = h[b].killed
       /\ h[b].bal \in Nat /\ h[b].stake \in Nat
  BY <1>11, <1>12 DEF Account
<1>14. accounts' = [h EXCEPT ![b] = y]
  <2>1. h = [accounts EXCEPT ![a].bal = @ + balance, ![a].pen = IF payment > 0 THEN 0 ELSE @] BY <1>5, <1>6, <1>9
  <2> QED BY <1>1, <1>11, <2>1
<1>15. accounts' \in [Accounts -> Account] /\ accounts'[b] = y /\ \A c \in Accounts : c # b => accounts'[c] = h[c]
  BY <1>10, <1>13, <1>14
<1>16. PICK p \in Int, q \in Int, r \in Int : p = CoinsOf(accounts) /\ q = CoinsOf(h) /\ r = CoinsOf(accounts')
         /\ q + Worth(accounts[a]) = p + Worth(x) /\ r + Worth(h[b]) = q + Worth(y)
  <2>1. CoinsOf(accounts) \in Int /\ CoinsOf(h) \in Int /\ CoinsOf(h) + Worth(accounts[a]) = CoinsOf(accounts) + Worth(h[a])
    BY <1>5, <1>10, CoinsChange
  <2>2. CoinsOf(accounts') \in Int /\ CoinsOf(accounts') + Worth(h[b]) = CoinsOf(h) + Worth(accounts'[b])
    BY <1>10, <1>15, CoinsChange
  <2> QED BY <1>10, <1>15, <2>1, <2>2
<1>17. Worth(x) = Worth(accounts[a]) + balance /\ Worth(accounts[a]) \in Nat
  <2>1. /\ Worth(x) = x.bal + (IF x.killed THEN 0 ELSE x.stake) /\ Worth(accounts[a]) \in Nat
        /\ Worth(accounts[a]) = accounts[a].bal + (IF accounts[a].killed THEN 0 ELSE accounts[a].stake)
    BY <1>7, <1>8, WorthOfAccount
  <2> QED BY <1>8, <2>1
<1>18. h[b].killed = accounts[b].killed
  <2>1. CASE a = b BY <1>8, <1>10, <2>1
  <2>2. CASE a # b BY <1>10, <2>2
  <2> QED BY <2>1, <2>2
<1>19. Worth(y) + n = Worth(h[b]) + stake /\ Worth(h[b]) \in Nat /\ Worth(y) \in Nat
  <2>1. /\ Worth(y) = y.bal + (IF y.killed THEN 0 ELSE y.stake) /\ Worth(h[b]) \in Nat /\ Worth(y) \in Nat
        /\ Worth(h[b]) = h[b].bal + (IF h[b].killed THEN 0 ELSE h[b].stake)
    BY <1>12, <1>13, WorthOfAccount
  <2> QED BY <1>13, <1>18, <2>1
<1>20. n \in Nat OBVIOUS
<1>21. burntRows' = burntRows \o addBurntCoins(b, n, "Killed")
  <2>1. AfterAddStake(b, stake) = addBurntCoins(b, n, "Killed")
    <3>1. CASE accounts[b].killed BY <3>1 DEF AfterAddStake
    <3>2. CASE ~accounts[b].killed BY <3>2 DEF AfterAddStake, addBurntCoins
    <3> QED BY <3>1, <3>2
  <2> QED BY <1>1, <2>1
<1> HIDE DEF n
<1>22. PICK u \in Nat, v \in Nat, w \in Nat, k \in Nat : u = Worth(accounts[a]) /\ v = Worth(h[b]) /\ w = Worth(y) /\ k = n
  BY <1>17, <1>19, <1>20
<1>23. q + u = p + (u + balance) /\ r + v = q + w /\ w + k = v + stake BY <1>16, <1>17, <1>19, <1>22
<1>24. r + k = p + balance + stake BY <1>23
<1>25. CoinsOf(accounts') + n + DustDue(newRows) + supply = CoinsOf(accounts) + supply'
  <2>1. PICK m \in Int : m = supply BY <1>5
  <2>2. supply' = m + balance + stake BY <1>1, <2>1
  <2>3. r + k + 0 + m = p + (m + balance + stake) BY <1>24
  <2>4. CoinsOf(accounts') = r /\ n = k /\ DustDue(newRows) = 0 /\ CoinsOf(accounts) = p BY <1>4, <1>16, <1>22
  <2> QED BY <2>1, <2>2, <2>3, <2>4
<1>26. supply' \in Int BY <1>1, <1>5
<1> QED BY <1>1, <1>4, <1>15, <1>20, <1>21, <1>25, <1>26, AccountsChange

\* One row of an address.
LEMMA PendingSingle ==
    ASSUME CoinTypes, NEW a \in Accounts, NEW r \in Reasons
    PROVE  RowsFor(<<addPendingBalanceUpdate(a, r, 0)>>, r)
<1>1. PICK x \in PendingRow : x = addPendingBalanceUpdate(a, r, 0) /\ x.reason = r BY PendingOne
<1>2. <<x>> \in Seq(PendingRow) /\ \A i \in 1..Len(<<x>>) : <<x>>[i].reason = r BY <1>1
<1> QED BY <1>1, <1>2 DEF RowsFor

\* One account changes.
LEMMA OneAccount ==
    ASSUME CoinInv, NEW a \in Accounts, NEW x \in Account, accounts' = [accounts EXCEPT ![a] = x]
    PROVE  /\ accounts' \in [Accounts -> Account] /\ accounts'[a] = x /\ supply \in Int
           /\ \E p \in Int, q \in Int, u \in Nat, v \in Nat :
                 /\ p = CoinsOf(accounts) /\ q = CoinsOf(accounts') /\ u = Worth(accounts[a]) /\ v = Worth(x)
                 /\ q + u = p + v
<1>1. accounts \in [Accounts -> Account] /\ supply \in Int BY DEF CoinInv, CoinTypes
<1>2. accounts' \in [Accounts -> Account] /\ accounts'[a] = x /\ \A b \in Accounts : b # a => accounts'[b] = accounts[b]
  BY <1>1
<1>3. CoinsOf(accounts) \in Int /\ CoinsOf(accounts') \in Int
      /\ CoinsOf(accounts') + Worth(accounts[a]) = CoinsOf(accounts) + Worth(accounts'[a])
  BY <1>1, <1>2, CoinsChange
<1>4. Worth(accounts[a]) \in Nat /\ Worth(x) \in Nat
  <2>1. accounts[a] \in Account BY <1>1
  <2> QED BY <2>1, WorthOfAccount
<1> QED BY <1>1, <1>2, <1>3, <1>4

\* A penalty is no coin.
LEMMA PenaltyCoins ==
    ASSUME CoinInv, NEW a \in Accounts, BeginEpochPenaltyResetBalanceUpdate(a)
    PROVE  CoinInv'
<1> DEFINE newRows == <<addPendingBalanceUpdate(a, "EpochPenaltyReset", 0)>>
<1>1. /\ Begin("EpochPenaltyReset", newRows) /\ accounts' = [accounts EXCEPT ![a].pen = 0]
      /\ burntRows' = burntRows /\ supply' = supply
  BY DEF BeginEpochPenaltyResetBalanceUpdate
<1>2. CoinTypes BY DEF CoinInv
<1>3. RowsFor(newRows, "EpochPenaltyReset") BY <1>2, PendingSingle DEF Reasons
<1> HIDE DEF newRows
<1>4. newRows \in Seq(PendingRow) /\ DustAlone(newRows, accounts') /\ DustDue(newRows) = 0 BY <1>3, NoDust
<1>5. PICK x : x = [accounts[a] EXCEPT !.pen = 0] OBVIOUS
<1>6. accounts' = [accounts EXCEPT ![a] = x] BY <1>1, <1>5
<1>7. accounts[a] \in Account BY <1>2 DEF CoinTypes
<1>8. x \in Account /\ x.bal = accounts[a].bal /\ x.stake = accounts[a].stake /\ x.killed = accounts[a].killed
  BY <1>5, <1>7 DEF Account
<1>9. Worth(x) = Worth(accounts[a])
  <2>1. Worth(x) = x.bal + (IF x.killed THEN 0 ELSE x.stake) BY <1>8, WorthOfAccount
  <2>2. Worth(accounts[a]) = accounts[a].bal + (IF accounts[a].killed THEN 0 ELSE accounts[a].stake)
    BY <1>7, WorthOfAccount
  <2> QED BY <1>8, <2>1, <2>2
<1>10. accounts' \in [Accounts -> Account] /\ supply \in Int BY <1>6, <1>8, OneAccount
<1>11. CoinsOf(accounts') + DustDue(newRows) + supply = CoinsOf(accounts) + supply'
  <2>1. PICK p \in Int, q \in Int, u \in Nat, v \in Nat :
          /\ p = CoinsOf(accounts) /\ q = CoinsOf(accounts') /\ u = Worth(accounts[a]) /\ v = Worth(x) /\ q + u = p + v
    BY <1>6, <1>8, OneAccount
  <2>2. PICK m \in Int : m = supply BY <1>10
  <2>3. q + 0 + m = p + m BY <1>9, <2>1
  <2> QED BY <1>1, <1>4, <2>1, <2>2, <2>3
<1>12. supply' \in Int BY <1>1, <1>10
<1> QED BY <1>1, <1>4, <1>10, <1>11, <1>12, AccountsMove

\* The stake of an identity that is killed is burnt.
LEMMA KillCoins ==
    ASSUME CoinInv, NEW a \in Accounts, NEW reason \in Reasons, reason # "DustClearing", NEW x \in Account,
           Begin(reason, <<addPendingBalanceUpdate(a, reason, 0)>>), accounts' = [accounts EXCEPT ![a] = x],
           x.killed, x.bal = accounts[a].bal, supply' = supply,
           burntRows' = burntRows \o addBurntCoins(a, View(accounts[a]).stake, "Killed")
    PROVE  CoinInv'
<1> DEFINE newRows == <<addPendingBalanceUpdate(a, reason, 0)>>
<1>1. CoinTypes BY DEF CoinInv
<1>2. RowsFor(newRows, reason) BY <1>1, PendingSingle
<1>3. newRows \in Seq(PendingRow) /\ DustAlone(newRows, accounts') /\ DustDue(newRows) = 0 BY <1>2, NoDust
<1>4. Begin(reason, newRows) OBVIOUS
<1> HIDE DEF newRows
<1>5. accounts[a] \in Account BY <1>1 DEF CoinTypes
<1>6. PICK n \in Nat : n = View(accounts[a]).stake /\ Worth(accounts[a]) = accounts[a].bal + n
  <2>1. View(accounts[a]).stake = (IF accounts[a].killed THEN 0 ELSE accounts[a].stake) BY <1>5, WorthOfAccount
  <2>2. Worth(accounts[a]) = accounts[a].bal + (IF accounts[a].killed THEN 0 ELSE accounts[a].stake)
    BY <1>5, WorthOfAccount
  <2>3. View(accounts[a]) \in AccountView BY <1>5, WorthOfAccount
  <2>4. View(accounts[a]).stake \in Nat BY <2>3 DEF AccountView
  <2> QED BY <2>1, <2>2, <2>4
<1>7. PICK k \in Nat : k = accounts[a].bal BY <1>5 DEF Account
<1>8. Worth(x) = k
  <2>1. Worth(x) = x.bal + (IF x.killed THEN 0 ELSE x.stake) BY WorthOfAccount
  <2>2. Worth(x) = k + 0 BY <1>7, <2>1
  <2> QED BY <2>2
<1>9. accounts' \in [Accounts -> Account] /\ supply \in Int BY OneAccount
<1>10. CoinsOf(accounts') + n + DustDue(newRows) + supply = CoinsOf(accounts) + supply'
  <2>1. PICK p \in Int, q \in Int, u \in Nat, v \in Nat :
          /\ p = CoinsOf(accounts) /\ q = CoinsOf(accounts') /\ u = Worth(accounts[a]) /\ v = Worth(x) /\ q + u = p + v
    BY OneAccount
  <2>2. PICK m \in Int : m = supply BY <1>9
  <2>3. q + (k + n) = p + k BY <1>6, <1>7, <1>8, <2>1
  <2>4. q + n + 0 + m = p + m BY <2>3
  <2> QED BY <1>3, <2>1, <2>2, <2>4
<1>11. supply' \in Int BY <1>9
<1> QED BY <1>3, <1>4, <1>6, <1>9, <1>10, <1>11, AccountsChange

\* So it is after a failed validation
LEMMA FailedCoins ==
    ASSUME CoinInv, NEW a \in Accounts, BeginFailedValidationBalanceUpdate(a)
    PROVE  CoinInv'
<1>1. PICK x : x = [accounts[a] EXCEPT !.killed = TRUE] OBVIOUS
<1>2. accounts[a] \in Account BY DEF CoinInv, CoinTypes
<1>3. x \in Account /\ x.killed /\ x.bal = accounts[a].bal BY <1>1, <1>2 DEF Account
<1>4. /\ Begin("FailedValidation", <<addPendingBalanceUpdate(a, "FailedValidation", 0)>>)
      /\ accounts' = [accounts EXCEPT ![a] = x] /\ supply' = supply
      /\ burntRows' = burntRows \o addBurntCoins(a, View(accounts[a]).stake, "Killed")
  BY <1>1 DEF BeginFailedValidationBalanceUpdate
<1>5. "FailedValidation" \in Reasons BY DEF Reasons
<1> QED BY <1>3, <1>4, <1>5, KillCoins

\* and when an identity is cleared.
LEMMA ClearingCoins ==
    ASSUME CoinInv, NEW a \in Accounts, BeginIdentityClearingBalanceUpdate(a)
    PROVE  CoinInv'
<1>1. PICK x : x = [accounts[a] EXCEPT !.killed = TRUE, !.stake = 0, !.pen = 0] OBVIOUS
<1>2. accounts[a] \in Account BY DEF CoinInv, CoinTypes
<1>3. x \in Account /\ x.killed /\ x.bal = accounts[a].bal BY <1>1, <1>2 DEF Account
<1>4. /\ Begin("IdentityClearing", <<addPendingBalanceUpdate(a, "IdentityClearing", 0)>>)
      /\ supply' = supply
      /\ burntRows' = burntRows \o addBurntCoins(a, View(accounts[a]).stake, "Killed")
      /\ accounts' = [accounts EXCEPT ![a].killed = TRUE, ![a].stake = 0, ![a].pen = 0]
  BY DEF BeginIdentityClearingBalanceUpdate
<1>5. accounts' = [accounts EXCEPT ![a] = x] BY <1>1, <1>4
<1>6. "IdentityClearing" \in Reasons BY DEF Reasons
<1> QED BY <1>3, <1>4, <1>5, <1>6, KillCoins

\* Dust that is cleared is due until the bracket is completed.
LEMMA DustCoins ==
    ASSUME CoinInv, NEW a \in Accounts, BeginDustClearingBalanceUpdate(a)
    PROVE  CoinInv'
<1>1. PICK y : y = addPendingBalanceUpdate(a, "DustClearing", 0) OBVIOUS
<1>2. /\ Begin("DustClearing", <<y>>) /\ accounts' = [accounts EXCEPT ![a].bal = 0]
      /\ burntRows' = burntRows /\ supply' = supply
  BY <1>1 DEF BeginDustClearingBalanceUpdate
<1>3. CoinTypes BY DEF CoinInv
<1>4. y \in PendingRow /\ y.reason = "DustClearing" /\ y.addr = a /\ y.old.bal = accounts[a].bal
  BY <1>1, <1>3, PendingOne DEF Reasons
<1>5. accounts[a] \in Account BY <1>3 DEF CoinTypes
<1>6. PICK x : x = [accounts[a] EXCEPT !.bal = 0] OBVIOUS
<1>7. accounts' = [accounts EXCEPT ![a] = x] BY <1>2, <1>6
<1>8. x \in Account /\ x.bal = 0 /\ x.stake = accounts[a].stake /\ x.killed = accounts[a].killed
  BY <1>5, <1>6 DEF Account
<1>9. PICK newRows : newRows = <<y>> OBVIOUS
<1>10. newRows \in Seq(PendingRow) /\ Len(newRows) = 1 /\ newRows[1] = y BY <1>4, <1>9
<1>11. IsDust(newRows) BY <1>4, <1>10 DEF IsDust
<1>12. DustDue(newRows) = accounts[a].bal BY <1>4, <1>10, <1>11 DEF DustDue
<1>13. accounts' \in [Accounts -> Account] /\ accounts'[a] = x /\ supply \in Int BY <1>7, <1>8, OneAccount
<1>14. DustAlone(newRows, accounts') BY <1>4, <1>8, <1>10, <1>11, <1>13 DEF DustAlone
<1>15. PICK k \in Nat, n \in Nat : k = accounts[a].bal /\ n = (IF accounts[a].killed THEN 0 ELSE accounts[a].stake)
  BY <1>5 DEF Account
<1>16. Worth(accounts[a]) = k + n /\ Worth(x) = n
  <2>1. Worth(accounts[a]) = k + n BY <1>5, <1>15, WorthOfAccount
  <2>2. Worth(x) = x.bal + (IF x.killed THEN 0 ELSE x.stake) BY <1>8, WorthOfAccount
  <2>3. Worth(x) = 0 + n BY <1>8, <1>15, <2>2
  <2> QED BY <2>1, <2>3
<1>17. CoinsOf(accounts') + DustDue(newRows) + supply = CoinsOf(accounts) + supply'
  <2>1. PICK p \in Int, q \in Int, u \in Nat, v \in Nat :
          /\ p = CoinsOf(accounts) /\ q = CoinsOf(accounts') /\ u = Worth(accounts[a]) /\ v = Worth(x) /\ q + u = p + v
    BY <1>7, <1>8, OneAccount
  <2>2. PICK m \in Int : m = supply BY <1>13
  <2>3. q + (k + n) = p + n BY <1>16, <2>1
  <2>4. q + k + m = p + m BY <2>3
  <2> QED BY <1>2, <1>12, <1>15, <2>1, <2>2, <2>4
<1>18. supply' \in Int /\ Begin("DustClearing", newRows) BY <1>2, <1>9, <1>13
<1> QED BY <1>2, <1>10, <1>13, <1>14, <1>17, <1>18, AccountsMove

\* The completed rows are the pending ones, with what the accounts have now.
LEMMA CompletedRows ==
    ASSUME CoinTypes, NEW i \in 1..Len(pendingRows)
    PROVE  /\ completeBalanceUpdates[i] = [pendingRows[i] EXCEPT !.new = View(accounts[pendingRows[i].addr])]
           /\ completeBalanceUpdates[i].reason = pendingRows[i].reason
           /\ completeBalanceUpdates[i].addr = pendingRows[i].addr
           /\ completeBalanceUpdates[i].old = pendingRows[i].old
           /\ Len(completeBalanceUpdates) = Len(pendingRows)
<1>1. pendingRows \in Seq(PendingRow) BY DEF CoinTypes
<1>2. pendingRows[i] \in PendingRow BY <1>1
<1>3. PICK v : v = View(accounts[pendingRows[i].addr]) OBVIOUS
<1>4. completeBalanceUpdates[i] = [pendingRows[i] EXCEPT !.new = v] BY <1>1, <1>3 DEF completeBalanceUpdates
<1>5. DOMAIN completeBalanceUpdates = 1..Len(pendingRows) BY <1>1 DEF completeBalanceUpdates
<1>6. Len(completeBalanceUpdates) = Len(pendingRows)
  <2>1. PICK n \in Nat : n = Len(pendingRows) BY <1>1
  <2>2. PICK f : f = completeBalanceUpdates OBVIOUS
  <2>3. f = [k \in 1..n |-> f[k]] BY <1>1, <2>1, <2>2 DEF completeBalanceUpdates
  <2>4. Len([k \in 1..n |-> f[k]]) = n BY <2>1
  <2> QED BY <2>1, <2>2, <2>3, <2>4
<1> QED BY <1>2, <1>3, <1>4, <1>6 DEF PendingRow

\* The loop over the completed rows, when none of them is of dust
LEMMA NoDustIsBurnt ==
    ASSUME NEW done, Len(done) \in Nat, \A i \in 1..Len(done) : done[i].reason # "DustClearing"
    PROVE  BurntDust(done) = <<>>
<1> DEFINE Is(f) == f = [n \in 0..Len(done) |->
                IF n = 0 THEN <<>>
                ELSE IF done[n].reason = "DustClearing" /\ isBalanceOrStakeOrPenaltyChanged(done[n])
                THEN f[n - 1] \o addBurntCoins(done[n].addr, done[n].old.bal, "DustClearing")
                ELSE f[n - 1]]
<1>1. PICK g : g = [n \in 0..Len(done) |-> <<>>] OBVIOUS
<1>2. Is(g)
  <2>1. ASSUME NEW n \in 0..Len(done), n # 0 PROVE n \in 1..Len(done) /\ n - 1 \in 0..Len(done) BY <2>1
  <2>2. ASSUME NEW n \in 0..Len(done)
        PROVE  g[n] = IF n = 0 THEN <<>>
                      ELSE IF done[n].reason = "DustClearing" /\ isBalanceOrStakeOrPenaltyChanged(done[n])
                      THEN g[n - 1] \o addBurntCoins(done[n].addr, done[n].old.bal, "DustClearing")
                      ELSE g[n - 1]
    <3>1. CASE n = 0 BY <1>1, <3>1
    <3>2. CASE n # 0
      <4>1. n \in 1..Len(done) /\ n - 1 \in 0..Len(done) BY <2>1, <3>2
      <4>2. done[n].reason # "DustClearing" /\ g[n] = <<>> /\ g[n - 1] = <<>> BY <1>1, <4>1
      <4> QED BY <3>2, <4>2
    <3> QED BY <3>1, <3>2
  <2> QED BY <1>1, <2>2
<1>3. PICK f : Is(f) /\ BurntDust(done) = f[Len(done)]
  <2>1. Is(CHOOSE f : Is(f)) BY <1>2
  <2>2. BurntDust(done) = (CHOOSE f : Is(f))[Len(done)] BY Zenon DEF BurntDust
  <2> QED BY <2>1, <2>2
<1>4. f[0] = <<>>
  <2>1. 0 \in 0..Len(done) OBVIOUS
  <2> QED BY <1>3, <2>1
<1>5. \A n \in 1..Len(done) : f[n] = f[n - 1]
  <2> SUFFICES ASSUME NEW n \in 1..Len(done) PROVE f[n] = f[n - 1] OBVIOUS
  <2>1. n \in 0..Len(done) /\ n # 0 /\ done[n].reason # "DustClearing" OBVIOUS
  <2> QED BY <1>3, <2>1
<1> DEFINE P == {n \in Nat : n <= Len(done) => f[n] = <<>>}
<1>6. 0 \in P BY <1>4
<1>7. ASSUME NEW n \in Nat, n \in P PROVE n + 1 \in P
  <2>1. SUFFICES ASSUME n + 1 <= Len(done) PROVE f[n + 1] = <<>> OBVIOUS
  <2>2. n <= Len(done) /\ n + 1 \in 1..Len(done) /\ (n + 1) - 1 = n BY <2>1
  <2>3. f[n + 1] = f[(n + 1) - 1] BY <1>5, <2>2
  <2> QED BY <1>7, <2>2, <2>3
<1>8. Nat \subseteq P
  <2> HIDE DEF P
  <2> QED BY <1>6, <1>7, NatInd
<1>9. Len(done) \in P /\ Len(done) <= Len(done) BY <1>8
<1> QED BY <1>3, <1>9

\* and when dust is the only one.
LEMMA DustIsBurnt ==
    ASSUME NEW done, Len(done) = 1, NEW row, row = done[1], row.reason = "DustClearing"
    PROVE  BurntDust(done) = <<>> \o IF isBalanceOrStakeOrPenaltyChanged(row)
                                     THEN addBurntCoins(row.addr, row.old.bal, "DustClearing") ELSE <<>>
<1> DEFINE Is(f) == f = [n \in 0..Len(done) |->
                IF n = 0 THEN <<>>
                ELSE IF done[n].reason = "DustClearing" /\ isBalanceOrStakeOrPenaltyChanged(done[n])
                THEN f[n - 1] \o addBurntCoins(done[n].addr, done[n].old.bal, "DustClearing")
                ELSE f[n - 1]]
<1>1. PICK one : one = <<>> \o addBurntCoins(row.addr, row.old.bal, "DustClearing") OBVIOUS
<1>2. PICK g : g = [n \in 0..Len(done) |-> IF n = 0 THEN <<>>
                                           ELSE IF isBalanceOrStakeOrPenaltyChanged(row) THEN one ELSE <<>>]
  OBVIOUS
<1>3. \A n \in 0..Len(done) : n # 0 => n = 1 /\ n - 1 = 0 /\ 0 \in 0..Len(done) OBVIOUS
<1>4. Is(g)
  <2>1. ASSUME NEW n \in 0..Len(done)
        PROVE  g[n] = IF n = 0 THEN <<>>
                      ELSE IF done[n].reason = "DustClearing" /\ isBalanceOrStakeOrPenaltyChanged(done[n])
                      THEN g[n - 1] \o addBurntCoins(done[n].addr, done[n].old.bal, "DustClearing")
                      ELSE g[n - 1]
    <3>1. CASE n = 0 BY <1>2, <3>1
    <3>2. CASE n # 0
      <4>1. n = 1 /\ n - 1 = 0 /\ 0 \in 0..Len(done) /\ done[n] = row BY <1>3, <3>2
      <4>2. g[n - 1] = <<>> BY <1>2, <4>1
      <4>3. g[n] = IF isBalanceOrStakeOrPenaltyChanged(row) THEN one ELSE <<>> BY <1>2, <3>2
      <4>4. g[n - 1] \o addBurntCoins(done[n].addr, done[n].old.bal, "DustClearing") = one BY <1>1, <4>1, <4>2
      <4>5. done[n].reason = "DustClearing" /\ isBalanceOrStakeOrPenaltyChanged(done[n]) = isBalanceOrStakeOrPenaltyChanged(row)
        BY <4>1
      <4>6. CASE isBalanceOrStakeOrPenaltyChanged(row)
        <5>1. isBalanceOrStakeOrPenaltyChanged(done[n]) BY <4>1, <4>6
        <5> QED BY <3>2, <4>3, <4>4, <4>5, <4>6, <5>1
      <4>7. CASE ~isBalanceOrStakeOrPenaltyChanged(row)
        <5>1. ~isBalanceOrStakeOrPenaltyChanged(done[n]) BY <4>1, <4>7
        <5> QED BY <3>2, <4>2, <4>3, <4>7, <5>1
      <4> QED BY <4>6, <4>7
    <3> QED BY <3>1, <3>2
  <2> QED BY <1>2, <2>1
<1>5. PICK f : Is(f) /\ BurntDust(done) = f[Len(done)]
  <2>1. Is(CHOOSE f : Is(f)) BY <1>4
  <2>2. BurntDust(done) = (CHOOSE f : Is(f))[Len(done)] BY Zenon DEF BurntDust
  <2> QED BY <2>1, <2>2
<1>6. 0 \in 0..Len(done) /\ 1 \in 0..Len(done) /\ 1 - 1 = 0 OBVIOUS
<1>7. f[0] = <<>> BY <1>5, <1>6
<1>8. f[1] = IF row.reason = "DustClearing" /\ isBalanceOrStakeOrPenaltyChanged(row)
             THEN f[0] \o addBurntCoins(row.addr, row.old.bal, "DustClearing") ELSE f[0]
  <2>1. PICK k : k = 1 OBVIOUS
  <2>2. k \in 0..Len(done) /\ k # 0 /\ k - 1 = 0 /\ done[k] = row BY <2>1
  <2>3. f[k] = IF done[k].reason = "DustClearing" /\ isBalanceOrStakeOrPenaltyChanged(done[k])
               THEN f[k - 1] \o addBurntCoins(done[k].addr, done[k].old.bal, "DustClearing") ELSE f[k - 1]
    BY <1>5, <2>2
  <2> QED BY <2>1, <2>2, <2>3
<1>9. BurntDust(done) = f[1] BY <1>5
<1>10. CASE isBalanceOrStakeOrPenaltyChanged(row) BY <1>7, <1>8, <1>9, <1>10
<1>11. CASE ~isBalanceOrStakeOrPenaltyChanged(row)
  <2>1. BurntDust(done) = <<>> BY <1>7, <1>8, <1>9, <1>11
  <2>2. <<>> \o <<>> = <<>> OBVIOUS
  <2> QED BY <1>11, <2>1, <2>2
<1> QED BY <1>10, <1>11

\* A bracket that is completed burns the dust that was due.
LEMMA CompleteCoins == ASSUME CoinInv, CompleteBalanceUpdate PROVE CoinInv'
<1>1. /\ CoinTypes /\ DustAlone(pendingRows, accounts)
      /\ CoinsOf(accounts) + BurntOf(burntRows) + DustDue(pendingRows) = supply
  BY DEF CoinInv
<1>2. PICK done : done = completeBalanceUpdates OBVIOUS
<1>3. /\ burntRows' = burntRows \o BurntDust(done) /\ pendingRows' = <<>> /\ accounts' = accounts /\ supply' = supply
  BY <1>2 DEF CompleteBalanceUpdate
<1>4. burntRows \in Seq(BurntRow) /\ pendingRows \in Seq(PendingRow) /\ accounts \in [Accounts -> Account] /\ pendingRows # <<>>
      /\ supply \in Int
  BY <1>1 DEF CoinTypes, CompleteBalanceUpdate
<1>5. PICK n \in Nat : n = Len(pendingRows) /\ n # 0 BY <1>4
<1>6. Len(done) = n /\ \A i \in 1..n : /\ done[i].reason = pendingRows[i].reason /\ done[i].old = pendingRows[i].old
                                       /\ done[i].addr = pendingRows[i].addr
                                       /\ done[i].new = View(accounts[pendingRows[i].addr])
  <2>1. 1 \in 1..n BY <1>5
  <2>2. Len(done) = n BY <1>1, <1>2, <1>5, <2>1, CompletedRows
  <2>3. ASSUME NEW i \in 1..n PROVE done[i].new = View(accounts[pendingRows[i].addr])
    <3>1. done[i] = [pendingRows[i] EXCEPT !.new = View(accounts[pendingRows[i].addr])]
      BY <1>1, <1>2, <1>5, CompletedRows
    <3>2. pendingRows[i] \in PendingRow BY <1>4, <1>5
    <3> QED BY <3>1, <3>2 DEF PendingRow
  <2> QED BY <1>1, <1>2, <1>5, <2>2, <2>3, CompletedRows
<1>7. PICK d \in Nat, a \in Accounts : /\ burntRows' = burntRows \o addBurntCoins(a, d, "DustClearing")
                                       /\ d = DustDue(pendingRows)
  <2>1. pendingRows[1] \in PendingRow BY <1>4, <1>5
  <2>2. PICK a \in Accounts, k \in Nat : a = pendingRows[1].addr /\ k = pendingRows[1].old.bal
    BY <2>1 DEF PendingRow, AccountView
  <2>3. CASE IsDust(pendingRows)
    <3>1. n = 1 /\ pendingRows[1].reason = "DustClearing" BY <1>5, <2>3 DEF IsDust
    <3>2. PICK row : row = done[1] OBVIOUS
    <3>3. row.reason = "DustClearing" /\ row.addr = a /\ row.old.bal = k /\ row.new = View(accounts[a])
          /\ row.old = pendingRows[1].old
      BY <1>6, <2>2, <3>1, <3>2
    <3>4. accounts[a].bal = 0 BY <1>1, <2>2, <2>3 DEF DustAlone
    <3>5. row.new.bal = 0 BY <3>3, <3>4 DEF View
    <3>6. DustDue(pendingRows) = k BY <2>2, <2>3 DEF DustDue
    <3>7. BurntDust(done) = <<>> \o IF isBalanceOrStakeOrPenaltyChanged(row)
                                    THEN addBurntCoins(row.addr, row.old.bal, "DustClearing") ELSE <<>>
      BY <1>6, <3>1, <3>2, <3>3, DustIsBurnt
    <3>8. CASE isBalanceOrStakeOrPenaltyChanged(row)
      <4>1. BurntDust(done) = <<>> \o addBurntCoins(a, k, "DustClearing") BY <3>3, <3>7, <3>8
      <4>2. <<>> \o addBurntCoins(a, k, "DustClearing") = addBurntCoins(a, k, "DustClearing") BY DEF addBurntCoins
      <4> QED BY <1>3, <3>6, <4>1, <4>2
    <3>9. CASE ~isBalanceOrStakeOrPenaltyChanged(row)
      <4>1. row.old = row.new BY <3>9 DEF isBalanceOrStakeOrPenaltyChanged
      <4>2. k = 0 BY <3>3, <3>5, <4>1
      <4>3. BurntDust(done) = <<>> \o <<>> BY <3>7, <3>9
      <4>4. addBurntCoins(a, k, "DustClearing") = <<>> \o <<>> BY <4>2 DEF addBurntCoins
      <4> QED BY <1>3, <3>6, <4>3, <4>4
    <3> QED BY <3>8, <3>9
  <2>4. CASE ~IsDust(pendingRows)
    <3>1. \A i \in 1..n : done[i].reason # "DustClearing" BY <1>1, <1>5, <1>6, <2>4 DEF DustAlone
    <3>2. Len(done) \in Nat BY <1>6
    <3>3. BurntDust(done) = <<>> BY <1>6, <3>1, <3>2, NoDustIsBurnt
    <3>4. PICK z \in Nat : z = 0 OBVIOUS
    <3>5. DustDue(pendingRows) = z BY <2>4, <3>4 DEF DustDue
    <3>6. addBurntCoins(a, z, "DustClearing") = <<>> BY <3>4 DEF addBurntCoins
    <3> QED BY <1>3, <3>3, <3>5, <3>6
  <2> QED BY <2>3, <2>4
<1>8. PICK b \in Int : b = BurntOf(burntRows) /\ BurntOf(burntRows') = b + d /\ burntRows' \in Seq(BurntRow)
  BY <1>4, <1>7, BurntMore
<1>9. PICK e : e = <<>> OBVIOUS
<1>10. Len(e) = 0 /\ e \in Seq(PendingRow) BY <1>9
<1>11. ~IsDust(e) BY <1>10 DEF IsDust
<1>12. DustDue(e) = 0 BY <1>11 DEF DustDue
<1>13. DustAlone(e, accounts') BY <1>10, <1>11 DEF DustAlone
<1>14. CoinTypes' BY <1>3, <1>4, <1>8 DEF CoinTypes
<1>15. CoinsOf(accounts) \in Int BY <1>4, CoinsChange
<1>16. CoinsOf(accounts) + (b + d) + 0 = supply
  <2>1. PICK p \in Int : p = CoinsOf(accounts) BY <1>15
  <2>2. p + b + d = supply BY <1>1, <1>7, <1>8, <2>1
  <2>3. p + (b + d) + 0 = p + b + d OBVIOUS
  <2> QED BY <2>1, <2>2, <2>3
<1> QED BY <1>3, <1>8, <1>9, <1>12, <1>13, <1>14, <1>16 DEF CoinInv

\* Before the block every address has a coin of each kind.
LEMMA StartCoins == ASSUME BalanceInit PROVE CoinInv
<1>1. /\ accounts = [a \in Accounts |-> StartAccount] /\ pendingRows = <<>> /\ burntRows = <<>>
      /\ supply = 2 * Cardinality(Accounts)
  BY DEF BalanceInit
<1>2. StartAccount \in Account /\ StartAccount.bal = 1 /\ StartAccount.stake = 1 /\ StartAccount.killed = FALSE
  BY DEF StartAccount, Account
<1>3. Worth(StartAccount) = 2
  <2>1. Worth(StartAccount) = 1 + 1 BY <1>2, WorthOfAccount
  <2> QED BY <2>1
<1>4. PICK l : l = AccountList OBVIOUS
<1>5. l \in Seq(Accounts) /\ Len(l) = Cardinality(Accounts) BY <1>4, BracketsAssumption, PlacesInList DEF AccountList
<1>6. PICK n \in Nat : n = Len(l) /\ DOMAIN l = 1..n /\ n = Cardinality(Accounts) BY <1>5
<1>7. PICK s : s = [i \in 1..n |-> Worth(accounts[l[i]])] OBVIOUS
<1>8. ASSUME NEW i \in 1..n PROVE s[i] = 2
  <2>1. l[i] \in Accounts BY <1>5, <1>6
  <2>2. accounts[l[i]] = StartAccount BY <1>1, <2>1
  <2> QED BY <1>3, <1>7, <2>2
<1>9. s \in Seq(Int) /\ Len(s) = n BY <1>7, <1>8
<1>10. SumOfList(s) = 2 * n BY <1>8, <1>9, SumTwos
<1>11. CoinsOf(accounts) = 2 * n BY <1>4, <1>6, <1>7, <1>10 DEF CoinsOf
<1>12. BurntOf(burntRows) = 0
  <2>1. PICK e : e = <<>> OBVIOUS
  <2>2. PICK t : t = [i \in DOMAIN e |-> e[i].amount] OBVIOUS
  <2>3. t \in Seq(Int) /\ Len(t) = 0 BY <2>1, <2>2
  <2> QED BY <1>1, <2>1, <2>2, <2>3, SumInt DEF BurntOf
<1>13. PICK e : e = <<>> OBVIOUS
<1>14. Len(e) = 0 /\ e \in Seq(PendingRow) /\ e \in Seq(BurntRow) BY <1>13
<1>15. ~IsDust(e) BY <1>14 DEF IsDust
<1>16. DustDue(e) = 0 /\ DustAlone(e, accounts) BY <1>14, <1>15 DEF DustDue, DustAlone
<1>17. CoinTypes
  <2>1. accounts \in [Accounts -> Account] BY <1>1, <1>2
  <2>2. supply = 2 * n /\ supply \in Int BY <1>1, <1>6
  <2> QED BY <1>1, <1>13, <1>14, <2>1, <2>2 DEF CoinTypes
<1>18. 2 * n + 0 + 0 = 2 * n OBVIOUS
<1> QED BY <1>1, <1>6, <1>11, <1>12, <1>13, <1>16, <1>17, <1>18 DEF CoinInv

\* Every step keeps the coins.
LEMMA CoinStep == ASSUME CoinInv, BalanceNext PROVE CoinInv'
<1>1. CASE \E sender, to, payee \in Accounts, burn \in BOOLEAN : BeginTxBalanceUpdate(sender, to, payee, burn)
  BY <1>1, TxCoins
<1>2. CASE \E from, to \in Accounts : BeginVerifiedStakeTransferBalanceUpdate(from, to)
  BY <1>2, TransferCoins
<1>3. ASSUME NEW d \in Destinations, NEW parts \in RewardParts, NEW payment \in 0..1,
             \/ BeginEpochRewardBalanceUpdate(d[1], d[2], parts[1], parts[2])
             \/ BeginProposerRewardBalanceUpdate(d[1], d[2], parts[1], parts[2], payment)
             \/ BeginCommitteeRewardBalanceUpdate(d[1], d[2], parts[1], parts[2], payment)
      PROVE  CoinInv'
  <2>1. PICK a \in Accounts, b \in Accounts : a = d[1] /\ b = d[2] BY BracketsAssumption DEF Destinations
  <2>2. PICK x \in Nat, y \in Nat : x = parts[1] /\ y = parts[2] BY BracketsAssumption
  <2>3. PICK k \in Nat : k = 0 OBVIOUS
  <2>4. PICK p \in Nat : p = payment OBVIOUS
  <2>5. CASE BeginEpochRewardBalanceUpdate(d[1], d[2], parts[1], parts[2])
    <3>1. Reward("EpochReward", a, b, x, y, k) BY <2>1, <2>2, <2>3, <2>5 DEF BeginEpochRewardBalanceUpdate
    <3>2. "EpochReward" \in Reasons BY DEF Reasons
    <3> QED BY <3>1, <3>2, RewardCoins
  <2>6. CASE BeginProposerRewardBalanceUpdate(d[1], d[2], parts[1], parts[2], payment)
    <3>1. Reward("ProposerReward", a, b, x, y, p) BY <2>1, <2>2, <2>4, <2>6 DEF BeginProposerRewardBalanceUpdate
    <3>2. "ProposerReward" \in Reasons BY DEF Reasons
    <3> QED BY <3>1, <3>2, RewardCoins
  <2>7. CASE BeginCommitteeRewardBalanceUpdate(d[1], d[2], parts[1], parts[2], payment)
    <3>1. Reward("CommitteeReward", a, b, x, y, p) BY <2>1, <2>2, <2>4, <2>7 DEF BeginCommitteeRewardBalanceUpdate
    <3>2. "CommitteeReward" \in Reasons BY DEF Reasons
    <3> QED BY <3>1, <3>2, RewardCoins
  <2> QED BY <1>3, <2>5, <2>6, <2>7
<1>4. ASSUME NEW a \in Accounts,
             \/ BeginFailedValidationBalanceUpdate(a) \/ BeginEpochPenaltyResetBalanceUpdate(a)
             \/ BeginIdentityClearingBalanceUpdate(a) \/ BeginDustClearingBalanceUpdate(a)
      PROVE  CoinInv'
  BY <1>4, FailedCoins, PenaltyCoins, ClearingCoins, DustCoins
<1>5. CASE CompleteBalanceUpdate BY <1>5, CompleteCoins
<1>6. 0 \in 0..1 OBVIOUS
<1> QED BY <1>1, <1>2, <1>3, <1>4, <1>5, <1>6 DEF BalanceNext

\* Whatever the block does - transactions, stakes that move, rewards through pools, identities
\* killed and dust cleared - every coin is in an account or, once, in the rows of burnt coins
\* (AfterAddStake, AddKilledBurntCoins, CompleteBalanceUpdate).
THEOREM CoinsAreAccountedAlways == BalanceInit /\ [][BalanceNext]_balanceVars => []CoinsAreAccounted
<1>1. BalanceInit => CoinInv BY StartCoins
<1>2. CoinInv /\ [BalanceNext]_balanceVars => CoinInv'
  <2> SUFFICES ASSUME CoinInv, [BalanceNext]_balanceVars PROVE CoinInv' OBVIOUS
  <2>1. CASE BalanceNext BY <2>1, CoinStep
  <2>2. CASE UNCHANGED balanceVars
    <3>1. accounts' = accounts /\ pendingRows' = pendingRows /\ burntRows' = burntRows /\ supply' = supply
      BY <2>2 DEF balanceVars
    <3>2. CoinTypes' = CoinTypes BY <3>1 DEF CoinTypes
    <3> QED BY <3>1, <3>2 DEF CoinInv
  <2> QED BY <2>1, <2>2
<1>3. CoinInv => CoinsAreAccounted BY CoinInvSuffices
<1> QED BY <1>1, <1>2, <1>3, PTL
=============================================================================
