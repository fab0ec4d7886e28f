----------------------------- MODULE MCMemPools -----------------------------
(***************************************************************************)
(* The two caches of the mempool, for TLC.  They hear of the same          *)
(* transactions and share no state: a behaviour is one of the cache "txs"  *)
(* or of the cache "contracts", the other one stays as it is.              *)
(*                                                                         *)
(* Transactions: three between two addresses, one from the first to the    *)
(* second, one to nobody and one back.  Readers do not act on each other,  *)
(* so one of them sees all there is to see.                                *)
(* Contract transactions: a deployment, a call of the same contract, a     *)
(* transfer to it and a transaction without a receiver; a queue of two     *)
(* that can be full; each can enter the mempool again after it has left it.*)
(***************************************************************************)
EXTENDS TxMemPool, ContractsMemPool

CONSTANTS t1, t2, t3, a1, a2, d, k, s, p, c1

VARIABLE memPool \* the cache of this behaviour

MCSender == t1 :> a1 @@ t2 :> a1 @@ t3 :> a2
MCTo     == t1 :> a2 @@ t2 :> NoAddress @@ t3 :> a1

MCKind   == d :> "deploy" @@ k :> "contract" @@ s :> "send" @@ p :> "plain"
MCTarget == d :> c1 @@ k :> c1 @@ s :> c1 @@ p :> c1

MCInit == Init /\ ContractInit /\ memPool \in {"txs", "contracts"}

MCNext ==
  /\ UNCHANGED memPool
  /\ \/ memPool = "txs" /\ Next /\ UNCHANGED contractVars
     \/ memPool = "contracts" /\ ContractNext /\ UNCHANGED vars

MCSpec == MCInit /\ [][MCNext]_<<memPool, vars, contractVars>> /\ WF_contractVars(Worker)
=============================================================================
