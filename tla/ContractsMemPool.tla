-------------------------- MODULE ContractsMemPool --------------------------
(***************************************************************************)
(* The contract transactions that wait in the node's mempool:              *)
(* core/mempool/contracts_pool.go.  A new transaction is queued            *)
(* (ProcessTx) and run on a worker goroutine, which lists it in up to two  *)
(* indexes; a removed one is taken from the indexes at once (RemoveTx), on *)
(* the goroutine of the node.  So a removal can overtake the transaction   *)
(* it is about: it is then listed after it has left, and nothing takes it  *)
(* away again.                                                             *)
(*                                                                         *)
(* Abstractions.  The sender is a part of the transaction, so the index by *)
(* sender and contract is the one by contract.  A run of the virtual       *)
(* machine (external) succeeds or not.                                     *)
(***************************************************************************)
EXTENDS Integers, Sequences, SequencesExt

CONSTANTS
    ContractTxs, Contracts, NoTx,
    Kind,      \* "deploy" (of an oracle voting), "contract", "send" or "plain"
    Target,    \* the contract that a transaction deploys, calls or pays
    QueueSize, \* the capacity of txChan
    MaxEvents  \* bound: how often a transaction enters the node's mempool

ASSUME ContractsMemPoolAssumption ==
    /\ Kind \in [ContractTxs -> {"deploy", "contract", "send", "plain"}]
    /\ Target \in [ContractTxs -> Contracts]
    /\ NoTx \notin ContractTxs \cup Contracts
    /\ QueueSize \in Nat /\ MaxEvents \in Nat

VARIABLES
    pool,      \* node: the transactions of its mempool
    events,    \* node: how many have entered it
    txChan,    \* the queue of the worker
    cur, wpc,  \* worker: its transaction, and where it is
    removing,  \* node: the transaction whose RemoveTx is half done
    oracleVotingDeploys,  \* the listed deployments
    txsByContract,        \* the listed transactions of each contract
    contractByTx,         \* contractAddressesByTxHash
    overtaken, \* history: its last removal came while the worker still had it
    refused    \* history: it was dropped, or its last run did not list it

indexVars == <<oracleVotingDeploys, txsByContract, contractByTx>>
contractVars ==
    <<pool, events, txChan, cur, wpc, removing, indexVars, overtaken, refused>>

IsContractTx(t) == Kind[t] \in {"deploy", "contract"}

Pending == Range(txChan) \cup {cur}

-----------------------------------------------------------------------------
(* The node's events. *)

\* NewTxEvent: ProcessTx queues the transaction, or drops it when the queue is
\* full.
ProcessTx(t) ==
    /\ t \notin pool /\ t # removing
    /\ events < MaxEvents
    /\ events' = events + 1
    /\ pool' = pool \cup {t}
    /\ txChan' = IF Len(txChan) < QueueSize THEN Append(txChan, t) ELSE txChan
    /\ refused' = IF Len(txChan) < QueueSize THEN refused \ {t} ELSE refused \cup {t}
    /\ UNCHANGED <<cur, wpc, removing, indexVars, overtaken>>

\* RemovedMemPoolTxEvent: RemoveTx takes it from the one index, under one lock,
RemoveDeployTx(t) ==
    /\ t \in pool /\ removing = NoTx
    /\ pool' = pool \ {t}
    /\ oracleVotingDeploys' = IF Kind[t] = "deploy" THEN oracleVotingDeploys \ {t}
                              ELSE oracleVotingDeploys
    /\ removing' = t
    /\ overtaken' = IF t \in Pending THEN overtaken \cup {t} ELSE overtaken \ {t}
    /\ UNCHANGED <<events, txChan, cur, wpc, txsByContract, contractByTx, refused>>

\* Mutant: transfers to a contract are forgotten.
RemoveContractTxOnly ==
    /\ removing # NoTx
    /\ IF IsContractTx(removing) /\ contractByTx[removing] # NoTx
       THEN /\ contractByTx' = [contractByTx EXCEPT ![removing] = NoTx]
            /\ txsByContract' = [txsByContract EXCEPT ![contractByTx[removing]] = @ \ {removing}]
       ELSE UNCHANGED <<contractByTx, txsByContract>>
    /\ removing' = NoTx
    /\ UNCHANGED <<pool, events, txChan, cur, wpc, oracleVotingDeploys, overtaken, refused>>

\* and from the other, under another.
RemoveAddressContractTx ==
    /\ removing # NoTx
    /\ IF (IsContractTx(removing) \/ Kind[removing] = "send") /\ contractByTx[removing] # NoTx
       THEN /\ contractByTx' = [contractByTx EXCEPT ![removing] = NoTx]
            /\ txsByContract' = [txsByContract EXCEPT ![contractByTx[removing]] = @ \ {removing}]
       ELSE UNCHANGED <<contractByTx, txsByContract>>
    /\ removing' = NoTx
    /\ UNCHANGED <<pool, events, txChan, cur, wpc, oracleVotingDeploys, overtaken, refused>>

-----------------------------------------------------------------------------
(* The worker. *)

Receive ==
    /\ wpc = "idle" /\ txChan # <<>>
    /\ cur' = Head(txChan)
    /\ txChan' = Tail(txChan)
    /\ wpc' = "process"
    /\ UNCHANGED <<pool, events, removing, indexVars, overtaken, refused>>

\* The worker is done with its transaction.
Done == cur' = NoTx /\ wpc' = "idle"

\* Mutant: a transaction that cannot be processed is tried again for ever.
SkipNever == wpc = "process" /\ UNCHANGED contractVars

\* No contract is involved, the run fails or there is no state to run it on.
Skip ==
    /\ wpc = "process"
    /\ refused' = refused \cup {cur}
    /\ Done
    /\ UNCHANGED <<pool, events, txChan, removing, indexVars, overtaken>>

\* processContractTx of a deployment that succeeds: applyDeployTx lists it.
ApplyDeployTx ==
    /\ wpc = "process" /\ Kind[cur] = "deploy"
    /\ oracleVotingDeploys' = oracleVotingDeploys \cup {cur}
    /\ wpc' = "apply"
    /\ UNCHANGED <<pool, events, txChan, cur, removing, txsByContract, contractByTx, overtaken, refused>>

\* applyTxSentToContract, after a run that succeeds or for a transfer to the
\* address of a contract.
ApplyTxSentToContract ==
    /\ \/ wpc = "apply"
       \/ wpc = "process" /\ Kind[cur] \in {"contract", "send"}
    /\ contractByTx' = [contractByTx EXCEPT ![cur] = Target[cur]]
    /\ txsByContract' = [txsByContract EXCEPT ![Target[cur]] = @ \cup {cur}]
    /\ Done
    /\ UNCHANGED <<pool, events, txChan, removing, oracleVotingDeploys, overtaken, refused>>

-----------------------------------------------------------------------------

ContractInit ==
    /\ pool = {} /\ events = 0
    /\ txChan = <<>>
    /\ cur = NoTx /\ wpc = "idle"
    /\ removing = NoTx
    /\ oracleVotingDeploys = {}
    /\ txsByContract = [c \in Contracts |-> {}]
    /\ contractByTx = [t \in ContractTxs |-> NoTx]
    /\ overtaken = {} /\ refused = {}

Worker == Receive \/ Skip \/ ApplyDeployTx \/ ApplyTxSentToContract

Node == (\E t \in ContractTxs : ProcessTx(t) \/ RemoveDeployTx(t)) \/ RemoveAddressContractTx

ContractNext == Worker \/ Node

ContractSpec == ContractInit /\ [][ContractNext]_contractVars

-----------------------------------------------------------------------------

ContractTypeOK ==
    /\ pool \subseteq ContractTxs /\ events \in 0..MaxEvents
    /\ txChan \in Seq(ContractTxs) /\ Len(txChan) <= QueueSize
    /\ cur \in ContractTxs \cup {NoTx} /\ wpc \in {"idle", "process", "apply"}
    /\ removing \in ContractTxs \cup {NoTx}
    /\ oracleVotingDeploys \subseteq ContractTxs
    /\ txsByContract \in [Contracts -> SUBSET ContractTxs]
    /\ contractByTx \in [ContractTxs -> Contracts \cup {NoTx}]
    /\ overtaken \subseteq ContractTxs /\ refused \subseteq ContractTxs

Listed == oracleVotingDeploys \cup UNION {txsByContract[c] : c \in Contracts}

\* A transaction that has left the mempool is listed only while its removal is
\* under way, or if the removal overtook it in the queue or in the worker:
\* under every other interleaving of the two goroutines nothing leaks.
LeaksOnlyWhenOvertaken == \A t \in Listed : t \in pool \/ t = removing \/ t \in overtaken

\* The two maps of addressContractTxs always agree, so that remove finds what
\* add has stored.
MapsAgree == \A t \in ContractTxs, c \in Contracts :
    t \in txsByContract[c] <=> contractByTx[t] = c

\* A deployment that the worker is not working on is listed in both indexes or
\* in neither, unless its removal is half done or overtook it.
DeploysAreListedTwice == \A t \in oracleVotingDeploys :
    t = cur \/ t = removing \/ t \in overtaken \/ contractByTx[t] = Target[t]

\* The lists of contract transactions are sound while startListening's worker
\* and RemoveTx interleave: the maps agree, a deployment is in both indexes,
\* and what has left the mempool stays listed only if its removal overtook
\* it.
ContractListsAreSound ==
    /\ ContractTypeOK
    /\ LeaksOnlyWhenOvertaken
    /\ MapsAgree
    /\ DeploysAreListedTwice

\* Every queued transaction that stays in the mempool is listed, unless its run
\* fails: the queue is drained whatever the node adds and removes meanwhile.
EveryQueuedTxIsListed == \A t \in ContractTxs :
    t \in Range(txChan) ~> t \in Listed \/ t \in refused \/ t \notin pool
=============================================================================
