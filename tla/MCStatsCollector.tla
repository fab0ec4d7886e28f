-------------------------- MODULE MCStatsCollector --------------------------
(***************************************************************************)
(* What the statistics collector gathers while the node executes a block,  *)
(* for TLC: balance updates, the nested calls of contracts, the events of  *)
(* oracle votings or the balances of tokens.  The collector keeps them in  *)
(* different fields, so a behaviour is one of the four and the others stay *)
(* in their initial states.                                                *)
(***************************************************************************)
EXTENDS BalanceUpdates, ContractCalls, OracleVotings, TokenBalances

CONSTANTS d1, d2, p1

VARIABLE collected \* what this behaviour collects

\* Two delegators of one pool; an epoch reward with a part for the balance,
\* and one that goes to the stake alone.
MCAccounts == {d1, d2, p1}
MCPools == {p1}
MCParts == {<<1, 1>>, <<2, 0>>}

\* Oracle votings in full but for the votes, which are kept as starts are, and
\* one kind of each other embedded contract.
MCKinds ==
  (OracleVotingKinds \ {"OracleVotingCallVote", "OracleVotingCallVoteProof"}) \cup
  {"TimeLockDeploy", "OracleLockCallPush", "RefundableOracleLockCallDeposit", "MultisigCallSend"}

\* Two spellings of one holder, and one that is no address.
MCAddressOf(raw) == IF raw = "0" THEN EmptyAddress ELSE "A"

Balances == collected = "balances"
CallsOf  == collected = "calls"
VotingsOf == collected = "votings"
TokensOf == collected = "tokens"

MCInit ==
  /\ BalanceInit /\ CallInit /\ VotingInit /\ TokenInit
  /\ collected \in {"balances", "calls", "votings", "tokens"}

MCNext ==
  /\ UNCHANGED collected
  /\ \/ Balances  /\ BalanceNext /\ UNCHANGED <<callVars, votingVars, tokenVars>>
     \/ CallsOf   /\ CallNext    /\ UNCHANGED <<balanceVars, votingVars, tokenVars>>
     \/ VotingsOf /\ VotingNext  /\ UNCHANGED <<balanceVars, callVars, tokenVars>>
     \/ TokensOf  /\ TokenNext   /\ UNCHANGED <<balanceVars, callVars, votingVars>>

MCSpec == MCInit /\ [][MCNext]_<<collected, balanceVars, callVars, votingVars, tokenVars>>
=============================================================================
