----------------------------- MODULE MCServices -----------------------------
(***************************************************************************)
(* Model checking the services that run beside the block loop.  They share *)
(* no state, so each behaviour is one of a single service, chosen at the   *)
(* start: the others stay in their initial states, and the state space is  *)
(* the sum of theirs, not the product.                                     *)
(***************************************************************************)
EXTENDS VoteCounting, PeersTracker, UpgradeVoting, DataService, OnlineIdentities

VARIABLE service \* the service of this behaviour

MCQueueCapacity == [k \in VoteKinds |-> 1]

\* One of the two votes cannot be stored.
MCOversizedVotes == {<<"i", "a">>}

\* Data of an hour, and data of an epoch that waits for less than a unit of time
\* (half an hour), so that it is refreshed in several epochs.
MCItems == [hourly |-> [period |-> 2, delay |-> {}], epochal |-> [period |-> 0, delay |-> {0}]]

\* Three identities: c may be the pool of a and of b, and comes between them.
MCNodeAddresses == <<"a", "c", "b">>
MCIdentityA == [validated : {TRUE}, delegatee : {"c", "none"}, online : BOOLEAN,
                stake : {{2}}, activity : {1}]
MCIdentityB == [validated : BOOLEAN, delegatee : {"c", "none"}, online : {FALSE},
                stake : {{}, {2}}, activity : {0}]
MCIdentityC == [validated : BOOLEAN, delegatee : {"none"}, online : BOOLEAN,
                stake : {{1}}, activity : {2}]
MCNodeStates ==
  {w \in {[a |-> x, b |-> y, c |-> z] : x \in MCIdentityA, y \in MCIdentityB,
                                        z \in MCIdentityC} :
     NodeStateOK(w) /\ w.a.online = (w.a.delegatee = "none")
       /\ (w.b.validated <=> w.b.stake # {}) /\ (w.b.validated \/ w.b.delegatee = "c")}

Votes    == service = "votes"
PeersOf  == service = "peers"
Upgrade  == service = "upgrade"
Data     == service = "data"
Online   == service = "online"

MCInit ==
  /\ VoteInit /\ PeersInit /\ UpgradeInit /\ DataInit /\ OnlineInit
  /\ service \in {"votes", "peers", "upgrade", "data", "online"}
  /\ Votes \/ voteRows["result"] = << >>

MCNext ==
  /\ UNCHANGED service
  /\ \/ Votes   /\ VoteNext    /\ UNCHANGED <<peersVars, upgradeVars, dataVars, onlineVars>>
     \/ PeersOf /\ PeersNext   /\ UNCHANGED <<voteVars, upgradeVars, dataVars, onlineVars>>
     \/ Upgrade /\ UpgradeNext /\ UNCHANGED <<voteVars, peersVars, dataVars, onlineVars>>
     \/ Data    /\ DataNext    /\ UNCHANGED <<voteVars, peersVars, upgradeVars, onlineVars>>
     \/ Online  /\ OnlineNext  /\ UNCHANGED <<voteVars, peersVars, upgradeVars, dataVars>>

MCSpec ==
  /\ MCInit
  /\ [][MCNext]_<<service, voteVars, peersVars, upgradeVars, dataVars, onlineVars>>
  /\ VoteFairness
=============================================================================
