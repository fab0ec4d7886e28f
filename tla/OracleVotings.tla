--------------------------- MODULE OracleVotings ---------------------------
(***************************************************************************)
(* The embedded contracts, followed from the virtual machine to the tables *)
(* of oracle votings.  The collector (core/stats/collector.go) keeps what  *)
(* a contract reports in the pending transaction and moves it into the     *)
(* statistics of the block when the receipt says success; for a voting     *)
(* that starts or is prolonged it draws the committee, from identities it  *)
(* reads once per block.  The indexer (indexer/state.go, indexer.go) holds *)
(* the set of actual votings in memory, asks the virtual machine which of  *)
(* them can be prolonged, saves that, and reloads the set from the         *)
(* database after a restart or a reset (selectActualOracleVotings.sql).    *)
(*                                                                         *)
(* The payload of the events is left out: no property depends on it.       *)
(* External: the node and its contracts.  A voting is deployed, started,   *)
(* possibly prolonged, then finished or terminated; only a started one can *)
(* be prolonged, and one that is has no result yet, so that it is neither  *)
(* prolonged again nor finished in the same block (save_block applies      *)
(* finishes before prolongations, whatever the order of the transactions). *)
(***************************************************************************)
EXTENDS Integers, Sequences, SequencesExt, FiniteSetsExt

CONSTANTS
    Votings,          \* addresses of oracle voting contracts
    Members,          \* identities that a committee may be drawn from
    EventKinds,       \* the events considered, a subset of AllEventKinds
    VotingDuration,   \* blocks from the start of a voting to its counting block
    MaxVotingHeight,  \* bound: height of the chain
    MaxVotingTxs,     \* bound: contract transactions in a block
    MaxVotingResets   \* bound: forks and restarts

VARIABLES
    status,           \* the chain: voting -> "absent", "pending", "started", "over"
    validated,        \* the chain: the identities that are Newbie or better
    height,           \* the block being applied
    tx,               \* c.pending.tx: the voting it goes to, or NoTx
    events,           \* fields of c.pending.tx: kind -> stake, 0 if none
    contractDid,      \* history: what the contract of the transaction did
    cachedMembers,    \* c.pending.identitiesByAddr: {} before the first use, then {the identities}
    recorded,         \* the contract lists of c.stats: <<[tx, kind, stake]>>
    newActual,        \* c.stats.NewActualOracleVotingContracts
    newNotActual,     \* c.stats.NewNotActualOracleVotingContracts
    committees,       \* the committees of the block: <<[drawn, due]>>
    txsInBlock,       \* contract transactions of the block so far
    happened,         \* history: what the successful transactions of the block did
    holder,           \* actualOracleVotingHolder.contracts
    dbState,          \* sorted_oracle_voting_contracts: state by voting
    countingBlock,    \* ... and counting_block
    saved,            \* chain and tables after every block, for a fork
    reported,         \* history: votings reported as ready to be prolonged, and not read back as actual since
    votingResets      \* forks and restarts so far

votingVars == <<status, validated, height, tx, events, contractDid, cachedMembers, recorded, newActual,
                newNotActual, committees, txsInBlock, happened, holder, dbState, countingBlock,
                saved, reported, votingResets>>
chainVars == <<status, validated, height>>
statsVars == <<recorded, newActual, newNotActual, committees, cachedMembers, txsInBlock, happened>>
dbVars    == <<holder, dbState, countingBlock, saved, reported, votingResets>>

NoTx == "none"

\* States of sorted_oracle_voting_contracts.
NotDeployed == -1
Pending     == 0
Voting      == 1
Completed   == 2
Counting    == 3
Terminated  == 4
CanBeProlonged == 6

DeployKinds == {"OracleVotingDeploy", "OracleLockDeploy", "RefundableOracleLockDeploy",
                "MultisigDeploy", "TimeLockDeploy"}

OracleVotingKinds == {"OracleVotingDeploy", "OracleVotingCallStart", "OracleVotingCallVoteProof",
                      "OracleVotingCallVote", "OracleVotingCallFinish", "OracleVotingCallProlongation",
                      "OracleVotingCallAddStake", "OracleVotingTermination"}
OracleLockKinds == {"OracleLockDeploy", "OracleLockCallPush", "OracleLockCallCheckOracleVoting",
                    "OracleLockTermination"}
RefundableOracleLockKinds == {"RefundableOracleLockDeploy", "RefundableOracleLockCallDeposit",
                              "RefundableOracleLockCallPush", "RefundableOracleLockCallRefund",
                              "RefundableOracleLockTermination"}
MultisigKinds == {"MultisigDeploy", "MultisigCallAdd", "MultisigCallSend", "MultisigCallPush",
                  "MultisigTermination"}
TimeLockKinds == {"TimeLockDeploy", "TimeLockCallTransfer", "TimeLockTermination"}

AllEventKinds == OracleVotingKinds \cup OracleLockKinds \cup RefundableOracleLockKinds
                 \cup MultisigKinds \cup TimeLockKinds

ASSUME VotingAssumption ==
    /\ NoTx \notin Votings
    /\ EventKinds \subseteq AllEventKinds
    /\ VotingDuration \in Nat /\ MaxVotingHeight \in Nat
    /\ MaxVotingTxs \in Nat /\ MaxVotingResets \in Nat

-----------------------------------------------------------------------------
(* The transactions of a block                                              *)

BeginApplyingTx(v) ==
    /\ tx = NoTx
    /\ height <= MaxVotingHeight
    /\ txsInBlock < MaxVotingTxs
    /\ tx' = v
    /\ events' = <<>> /\ contractDid' = {}
    /\ txsInBlock' = txsInBlock + 1
    /\ UNCHANGED <<chainVars, recorded, newActual, newNotActual, committees, cachedMembers, happened, dbVars>>

\* What the contract at v can report in its state (external).
Possible(v, kind) ==
    /\ kind = "OracleVotingDeploy" => status[v] = "absent"
    /\ kind = "OracleVotingCallStart" => status[v] = "pending"
    /\ kind = "OracleVotingTermination" => status[v] \in {"started", "over"}
    /\ kind \in OracleVotingKinds \ {"OracleVotingDeploy", "OracleVotingCallStart", "OracleVotingTermination"} =>
          status[v] = "started"
    /\ kind \in {"OracleVotingCallFinish", "OracleVotingCallProlongation"} =>
          \A row \in happened : ~(row.voting = v /\ row.kind = "OracleVotingCallProlongation")

ReportEvent(kind) ==
    /\ tx # NoTx
    /\ events = <<>>
    /\ kind \in EventKinds
    /\ Possible(tx, kind)
    /\ events' = [k \in {kind} |-> 0]
    /\ contractDid' = {[tx |-> txsInBlock, voting |-> tx, kind |-> kind]}
    /\ UNCHANGED <<chainVars, tx, statsVars, dbVars>>

AddOracleVotingEvent == \E kind \in OracleVotingKinds : ReportEvent(kind)
AddOracleLockEvent == \E kind \in OracleLockKinds : ReportEvent(kind)
AddRefundableOracleLockEvent == \E kind \in RefundableOracleLockKinds : ReportEvent(kind)
AddMultisigEvent == \E kind \in MultisigKinds : ReportEvent(kind)
AddTimeLockEvent == \E kind \in TimeLockKinds : ReportEvent(kind)

\* The fields that AddContractStake fills in.
Staked == DOMAIN events \cap DeployKinds

AddContractStake ==
    /\ tx # NoTx
    /\ \E kind \in Staked :
          /\ events[kind] = 0
          /\ events' = [events EXCEPT ![kind] = 1]
    /\ UNCHANGED <<chainVars, tx, contractDid, statsVars, dbVars>>

\* The whole network is selected: committeeSize = networkSize.
getOracleVotingCommittee == IF cachedMembers = {} THEN validated ELSE CHOOSE m \in cachedMembers : TRUE

\* A start and a prolongation set oracleVotingCommitteeStartCtx.
DrawsCommittee == DOMAIN events \cap {"OracleVotingCallStart", "OracleVotingCallProlongation"} # {}

\* What the transaction does to the voting (external).
NewStatus(kind) ==
    CASE kind = "OracleVotingDeploy"    -> "pending"
      [] kind = "OracleVotingCallStart" -> "started"
      [] kind \in {"OracleVotingCallFinish", "OracleVotingTermination"} -> "over"
      [] OTHER -> status[tx]

\* AddTxReceipt of a successful transaction: applyEmbeddedContractTxReceipt.
applyEmbeddedContractTxReceipt ==
    LET rows == {[tx |-> txsInBlock, voting |-> tx, kind |-> k, stake |-> events[k]] : k \in DOMAIN events}
    IN  /\ recorded' = recorded \o SetToSeq(rows)
        /\ newActual' = IF DrawsCommittee THEN Append(newActual, tx) ELSE newActual
        /\ newNotActual' = IF DOMAIN events \cap {"OracleVotingCallFinish", "OracleVotingTermination"} # {}
                           THEN Append(newNotActual, tx) ELSE newNotActual
        /\ IF DrawsCommittee
           THEN /\ committees' = Append(committees, [drawn |-> getOracleVotingCommittee, due |-> validated])
                /\ cachedMembers' = {getOracleVotingCommittee}
           ELSE UNCHANGED <<committees, cachedMembers>>

\* Mutant: a failed transaction counts too.
AppliedAlways(success) == TRUE

\* What AddTxReceipt takes over of the pending transaction.
Applied(success) == success

\* AddTxReceipt, then CompleteApplyingTx; what a successful contract did stays done.
AddTxReceiptAndComplete(success) ==
    /\ tx # NoTx
    /\ IF Applied(success)
       THEN applyEmbeddedContractTxReceipt
       ELSE UNCHANGED <<recorded, newActual, newNotActual, committees, cachedMembers>>
    /\ IF success
       THEN /\ happened' = happened \cup contractDid
            /\ status' = [status EXCEPT ![tx] =
                  IF contractDid = {} THEN @ ELSE NewStatus((CHOOSE d \in contractDid : TRUE).kind)]
       ELSE UNCHANGED <<happened, status>>
    /\ tx' = NoTx
    /\ events' = <<>> /\ contractDid' = {}
    /\ UNCHANGED <<validated, height, txsInBlock, dbVars>>

\* A transaction kills or validates an identity (external).
ChangeIdentity(m) ==
    /\ tx = NoTx
    /\ height <= MaxVotingHeight
    /\ validated' = (validated \ {m}) \cup ({m} \ validated)
    /\ UNCHANGED <<status, height, tx, events, contractDid, statsVars, dbVars>>

-----------------------------------------------------------------------------
(* The block is indexed                                                     *)

Recorded(kind) == {recorded[i].voting : i \in {j \in DOMAIN recorded : recorded[j].kind = kind}}

\* save_block: deploys, starts, finishes, prolongations and terminations in this
\* order, then the votings to prolong, then the votings whose counting begins.
\* A prolongation restarts the voting, or (no start block) only goes on with it.
SavedState(v, restarts, toProlong) ==
    LET prolonged == v \in Recorded("OracleVotingCallProlongation")
        deployed == IF v \in Recorded("OracleVotingDeploy") THEN Pending ELSE dbState[v]
        started  == IF v \in Recorded("OracleVotingCallStart") THEN Voting ELSE deployed
        finished == IF v \in Recorded("OracleVotingCallFinish") THEN Completed ELSE started
        goesOn   == IF prolonged
                    THEN IF v \in restarts \/ countingBlock'[v] > height THEN Voting ELSE Counting
                    ELSE finished
        ended    == IF v \in Recorded("OracleVotingTermination") THEN Terminated ELSE goesOn
        offered  == IF v \in toProlong THEN CanBeProlonged ELSE ended
    IN  IF offered \in {Voting, CanBeProlonged} /\ countingBlock'[v] = height THEN Counting ELSE offered

detectOracleVotingsToProlong(prolongable) == holder \cap prolongable

\* Mutant: votings that are over stay.
KeepOver(toProlong) == (holder \cup Range(newActual)) \ toProlong

\* applyOnState.
applyOnState(toProlong) == ((holder \cup Range(newActual)) \ Range(newNotActual)) \ toProlong

\* CompleteCollecting, then EnableCollecting of the next block.
EnableCollecting ==
    /\ recorded' = <<>> /\ newActual' = <<>> /\ newNotActual' = <<>>
    /\ committees' = <<>> /\ cachedMembers' = {}

\* convertIncomingData looks for votings to prolong with the set of before the
\* block; saveData; applyOnState; the collector starts the next block anew.
IndexVotingBlock(prolongable, restarts) ==
    LET toProlong == detectOracleVotingsToProlong(prolongable)
    IN  /\ tx = NoTx
        /\ height <= MaxVotingHeight
        /\ prolongable \subseteq {v \in Votings : status[v] = "started"} \ Recorded("OracleVotingCallProlongation")
        /\ restarts \subseteq Recorded("OracleVotingCallProlongation")
        /\ countingBlock' = [v \in Votings |->
              IF v \in Recorded("OracleVotingCallStart") \cup restarts
              THEN height + VotingDuration ELSE countingBlock[v]]
        /\ dbState' = [v \in Votings |-> SavedState(v, restarts, toProlong)]
        /\ holder' = applyOnState(toProlong)
        /\ reported' = (reported \ Range(newActual)) \cup toProlong
        /\ height' = height + 1
        /\ saved' = Append(saved, [status |-> status, validated |-> validated,
                                   db |-> dbState', counting |-> countingBlock'])
        /\ EnableCollecting
        /\ txsInBlock' = 0 /\ happened' = {}
        /\ UNCHANGED <<status, validated, tx, events, contractDid, votingResets>>

\* selectActualOracleVotings.sql.
ActualOracleVotings(states) == {v \in Votings : states[v] \in {Voting, Counting}}

\* loadState after a restart (h = height - 1) or after a reset to h: the block
\* that was being applied starts anew on the chain of height h.
LoadStateAt(h) ==
    /\ votingResets < MaxVotingResets
    /\ h \in 1..Len(saved)
    /\ LET s == saved[h]
       IN  /\ status' = s.status /\ validated' = s.validated
           /\ dbState' = s.db /\ countingBlock' = s.counting
           /\ holder' = ActualOracleVotings(s.db)
           /\ reported' = {v \in Votings : s.db[v] = CanBeProlonged}
    /\ saved' = SubSeq(saved, 1, h)
    /\ height' = h + 1
    /\ tx' = NoTx /\ events' = <<>> /\ contractDid' = {}
    /\ EnableCollecting
    /\ txsInBlock' = 0 /\ happened' = {}
    /\ votingResets' = votingResets + 1

VotingInit ==
    /\ status = [v \in Votings |-> "absent"]
    /\ validated = Members
    /\ height = 1
    /\ tx = NoTx /\ events = <<>> /\ contractDid = {}
    /\ recorded = <<>> /\ newActual = <<>> /\ newNotActual = <<>>
    /\ committees = <<>> /\ cachedMembers = {}
    /\ txsInBlock = 0 /\ happened = {}
    /\ holder = {} /\ reported = {}
    /\ dbState = [v \in Votings |-> NotDeployed]
    /\ countingBlock = [v \in Votings |-> 0]
    /\ saved = <<>> /\ votingResets = 0

VotingNext ==
    \/ \E v \in Votings : BeginApplyingTx(v)
    \/ AddOracleVotingEvent \/ AddOracleLockEvent \/ AddRefundableOracleLockEvent
    \/ AddMultisigEvent \/ AddTimeLockEvent \/ AddContractStake
    \/ \E success \in BOOLEAN : AddTxReceiptAndComplete(success)
    \/ \E m \in Members : ChangeIdentity(m)
    \/ \E prolongable, restarts \in SUBSET Votings : IndexVotingBlock(prolongable, restarts)
    \/ \E h \in 1..MaxVotingHeight : LoadStateAt(h)

-----------------------------------------------------------------------------
(* Types; only a deployment is recorded with a stake (AddContractStake).      *)
VotingTypeOK ==
    /\ status \in [Votings -> {"absent", "pending", "started", "over"}]
    /\ validated \subseteq Members
    /\ height \in 1..MaxVotingHeight + 1 /\ Len(saved) = height - 1
    /\ tx \in Votings \cup {NoTx}
    /\ \A i \in DOMAIN recorded : recorded[i].stake = 1 => recorded[i].kind \in DeployKinds
    /\ holder \subseteq Votings /\ reported \subseteq Votings
    /\ dbState \in [Votings -> {NotDeployed, Pending, Voting, Completed, Counting, Terminated, CanBeProlonged}]

(* The statistics of the block hold what its successful transactions did and  *)
(* nothing else: no event of a failed transaction, and none of the one before *)
(* (the events stay in the pending transaction until the receipt decides).    *)
EventsBelongToTheirTx ==
    {[tx |-> r.tx, voting |-> r.voting, kind |-> r.kind] : r \in Range(recorded)} = happened

(* The first committee of a block is drawn from the identities of that moment; *)
(* a later one may be stale, since the identities are read once per block, but *)
(* never older than the block.                                                 *)
StaleOnlyWithinBlock ==
    \A i \in DOMAIN committees : committees[i].drawn # committees[i].due => i > 1

\* What is collected of the embedded contracts (AddOracleVotingDeploy and its
\* kin, AddTxReceipt) is that of the successful transactions of the block,
\* and a committee is never drawn from identities older than the block.
VotingStatsAreExact == VotingTypeOK /\ EventsBelongToTheirTx /\ StaleOnlyWithinBlock

(* The votings held in memory are votings that the tables call actual, so the  *)
(* indexer never asks about one that is finished or terminated, across         *)
(* restarts and forks.                                                         *)
HolderIsActual == holder \subseteq ActualOracleVotings(dbState)

(* What memory and tables disagree on: a voting once reported as ready to be   *)
(* prolonged is dropped from memory, but the tables make it actual again when  *)
(* its counting block comes, in the same block even.  A restart or a reset     *)
(* reads it back only if that block is past: a load that finds it ready to be  *)
(* prolonged leaves it out, and it is lacked from its counting block on.       *)
MissedOnlyIfReported ==
    \A v \in ActualOracleVotings(dbState) \ holder :
        v \in reported /\ dbState[v] = Counting /\ countingBlock[v] < height

\* The holder of oracle votings agrees with the tables through blocks, resets
\* and restarts (applyOnState, loadState): it holds only actual votings, and
\* lacks an actual one only if that was reported as ready to be prolonged, to
\* this process or to one before it.
VotingsAgreeWithTables == HolderIsActual /\ MissedOnlyIfReported
=============================================================================
