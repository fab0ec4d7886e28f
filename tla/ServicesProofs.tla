--------------------------- MODULE ServicesProofs ---------------------------
(***************************************************************************)
(* Proofs about the services beside the block loop: the count of the peers *)
(* (PeersTracker), the votes that are saved and the results that are kept  *)
(* (VoteCounting), the data that is refreshed (DataService), the summary   *)
(* of the votes for upgrades (UpgradeVoting) and the cache of identities   *)
(* and its pages (OnlineIdentities).                                       *)
(***************************************************************************)
EXTENDS PeersTracker, VoteCounting, DataService, UpgradeVoting, OnlineIdentities,
        TLAPS, FiniteSetTheorems, SequenceTheorems, WellFoundedInduction

-----------------------------------------------------------------------------
(* PeersTracker. *)

\* A peer that was seen is in the cache until its time is over, and there is
\* none in the cache whose time is over once the tracker has dropped them.
PeersInv ==
    /\ hour \in Nat /\ peersCache \in [Peers -> Nat] /\ seen \in [Peers -> SUBSET Nat]
    /\ \A p \in Peers :
         /\ \A h \in seen[p] : peersCache[p] = h + Expiration \/ (peersCache[p] = 0 /\ h + Expiration <= hour)
         /\ peersCache[p] # 0 => seen[p] # {}
         /\ tracker = "count" => peersCache[p] = 0 \/ peersCache[p] > hour

\* No peer has been seen yet.
LEMMA InitPeersInv == PeersInit => PeersInv
BY DEF PeersInit, PeersInv

\* Neither the hours nor the handler nor the tracker breaks the cache.
LEMMA NextPeersInv == PeersInv /\ [PeersNext]_peersVars => PeersInv'
<1> SUFFICES ASSUME PeersInv, [PeersNext]_peersVars PROVE PeersInv' OBVIOUS
<1> USE PeersAssumption
<1>1. CASE Hour
  <2>1. hour' = hour + 1 /\ tracker' = tracker /\ tracker # "count" /\ UNCHANGED <<peersCache, seen>>
    BY <1>1 DEF Hour
  <2>2. hour' \in Nat /\ hour \in Nat /\ hour <= hour' BY <2>1 DEF PeersInv
  <2>3. ASSUME NEW p \in Peers, NEW h \in seen[p]
        PROVE  peersCache[p] = h + Expiration \/ (peersCache[p] = 0 /\ h + Expiration <= hour')
    <3>1. h \in Nat BY DEF PeersInv
    <3>2. peersCache[p] = h + Expiration \/ (peersCache[p] = 0 /\ h + Expiration <= hour) BY DEF PeersInv
    <3> QED BY <2>2, <3>1, <3>2
  <2> QED BY <2>1, <2>2, <2>3 DEF PeersInv
<1>2. ASSUME NEW ps \in SUBSET Peers, AddPeersData(ps) PROVE PeersInv' BY <1>2 DEF AddPeersData, PeersInv
<1>3. CASE handlePeers
  <2>1. PICK ps : /\ peersCache' = [p \in Peers |-> IF p \in ps THEN hour + Expiration ELSE peersCache[p]]
                  /\ seen' = [p \in Peers |-> IF p \in ps THEN {hour} ELSE seen[p]]
                  /\ UNCHANGED <<hour, tracker>>
    BY <1>3 DEF handlePeers
  <2>2. hour \in Nat /\ hour + Expiration \in Nat /\ hour + Expiration > hour BY DEF PeersInv
  <2>3. peersCache' \in [Peers -> Nat] /\ seen' \in [Peers -> SUBSET Nat] BY <2>1, <2>2 DEF PeersInv
  <2>4. ASSUME NEW p \in Peers
        PROVE  /\ \A h \in seen'[p] : peersCache'[p] = h + Expiration \/ (peersCache'[p] = 0 /\ h + Expiration <= hour)
               /\ peersCache'[p] # 0 => seen'[p] # {}
               /\ tracker = "count" => peersCache'[p] = 0 \/ peersCache'[p] > hour
    <3>1. CASE p \in ps
      <4>1. peersCache'[p] = hour + Expiration /\ seen'[p] = {hour} BY <2>1, <3>1
      <4> QED BY <2>2, <4>1
    <3>2. CASE p \notin ps
      <4>1. peersCache'[p] = peersCache[p] /\ seen'[p] = seen[p] BY <2>1, <3>2
      <4> QED BY <4>1 DEF PeersInv
    <3> QED BY <3>1, <3>2
  <2> QED BY <2>1, <2>2, <2>3, <2>4 DEF PeersInv
<1>4. CASE WakeUpTracker BY <1>4 DEF WakeUpTracker, PeersInv
<1>5. CASE DeleteExpired
  <2>1. /\ peersCache' = [p \in Peers |-> IF peersCache[p] > hour THEN peersCache[p] ELSE 0]
        /\ UNCHANGED <<hour, seen>>
    BY <1>5 DEF DeleteExpired
  <2>2. peersCache' \in [Peers -> Nat] BY <2>1 DEF PeersInv
  <2>3. ASSUME NEW p \in Peers
        PROVE  /\ \A h \in seen[p] : peersCache'[p] = h + Expiration \/ (peersCache'[p] = 0 /\ h + Expiration <= hour)
               /\ peersCache'[p] # 0 => seen[p] # {}
               /\ peersCache'[p] = 0 \/ peersCache'[p] > hour
    <3>1. CASE peersCache[p] > hour
      <4>1. peersCache'[p] = peersCache[p] BY <2>1, <3>1
      <4> QED BY <3>1, <4>1 DEF PeersInv
    <3>2. CASE ~(peersCache[p] > hour)
      <4>1. peersCache'[p] = 0 BY <2>1, <3>2
      <4>2. ASSUME NEW h \in seen[p] PROVE h + Expiration <= hour
        <5>1. h \in Nat /\ hour \in Nat /\ peersCache[p] \in Nat BY DEF PeersInv
        <5>2. peersCache[p] = h + Expiration \/ (peersCache[p] = 0 /\ h + Expiration <= hour) BY DEF PeersInv
        <5> QED BY <3>2, <5>1, <5>2
      <4> QED BY <4>1, <4>2
    <3> QED BY <3>1, <3>2
  <2> QED BY <2>1, <2>2, <2>3 DEF PeersInv
<1>6. CASE CountPeers BY <1>6 DEF CountPeers, PeersInv
<1>7. ASSUME NEW fails \in BOOLEAN, SavePeersCount(fails) PROVE PeersInv' BY <1>7 DEF SavePeersCount, PeersInv
<1>8. CASE UNCHANGED peersVars BY <1>8 DEF peersVars, PeersInv
<1> QED BY <1>1, <1>2, <1>3, <1>4, <1>5, <1>6, <1>7, <1>8 DEF PeersNext

\* The count that is saved is that of the peers seen within the last hours, for
\* every set of peers and every expiration (track and handlePeers of
\* peers_tracker.go).
THEOREM CountedAreLiveAlways == PeersInit /\ [][PeersNext]_peersVars => CountedAreLive
<1>1. ASSUME PeersInv, [PeersNext]_peersVars, CountPeers
      PROVE  counted' = Cardinality({p \in Peers : \E h \in seen[p] : hour - h < Expiration})
  <2>1. counted' = Cardinality({p \in Peers : peersCache[p] # 0}) /\ tracker = "count"
    BY <1>1 DEF CountPeers, ItemCount
  <2>2. ASSUME NEW p \in Peers PROVE peersCache[p] # 0 <=> \E h \in seen[p] : hour - h < Expiration
    <3>1. hour \in Nat /\ peersCache[p] \in Nat /\ \A h \in seen[p] : h \in Nat BY <1>1 DEF PeersInv
    <3>2. ASSUME peersCache[p] # 0 PROVE \E h \in seen[p] : hour - h < Expiration
      <4>1. PICK h \in seen[p] : TRUE BY <1>1, <3>2 DEF PeersInv
      <4>2. peersCache[p] = h + Expiration /\ peersCache[p] > hour BY <1>1, <2>1, <3>2, <4>1 DEF PeersInv
      <4>3. hour - h < Expiration BY <3>1, <4>1, <4>2, PeersAssumption
      <4> QED BY <4>1, <4>3
    <3>3. ASSUME NEW h \in seen[p], hour - h < Expiration PROVE peersCache[p] # 0
      <4>1. peersCache[p] = h + Expiration \/ (peersCache[p] = 0 /\ h + Expiration <= hour) BY <1>1 DEF PeersInv
      <4> QED BY <3>1, <3>3, <4>1, PeersAssumption
    <3> QED BY <3>2, <3>3
  <2>3. {p \in Peers : peersCache[p] # 0} = {p \in Peers : \E h \in seen[p] : hour - h < Expiration} BY <2>2
  <2> QED BY <2>1, <2>3
<1>2. PeersInv /\ [PeersNext]_peersVars =>
        [CountPeers => counted' = Cardinality({p \in Peers : \E h \in seen[p] : hour - h < Expiration})]_peersVars
  BY <1>1
<1> QED BY <1>2, InitPeersInv, NextPeersInv, PTL DEF CountedAreLive

-----------------------------------------------------------------------------
(* VoteCounting. *)

IsSeq(s) == \E S : s \in Seq(S)

\* The rounds of some events are in order and not after the round r.
RoundsInOrder(s, r) ==
    /\ \A i \in DOMAIN s : s[i].round \in Nat /\ s[i].round <= r
    /\ \A i, j \in DOMAIN s : i < j => s[i].round <= s[j].round

\* Every round of s is before r, or is r.
RoundsUpTo(s, r) == \A i \in DOMAIN s : s[i].round <= r

SavedResults == voteRows["result"]
WaitingResults == voteQueues["result"]

\* The results are counted, queued, taken and saved in the order of the rounds.
ResultsInv ==
    /\ round \in Nat
    /\ voteRows \in [VoteKinds -> Range(voteRows)] /\ voteQueues \in [VoteKinds -> Range(voteQueues)]
    /\ moved \in [VoteKinds -> Nat] /\ deleted \in [VoteKinds -> Nat]
    /\ \A k \in VoteKinds : IsSeq(voteRows[k])
    /\ IsSeq(SavedResults) /\ IsSeq(WaitingResults)
    /\ RoundsInOrder(SavedResults, round) /\ RoundsInOrder(WaitingResults, round)
    /\ \A j \in DOMAIN WaitingResults :
         "round" \in DOMAIN WaitingResults[j] /\ RoundsUpTo(SavedResults, WaitingResults[j].round)
    /\ tracked # << >> /\ tracked[1].kind = "result" =>
         /\ "round" \in DOMAIN tracked[1].event
         /\ tracked[1].event.round \in Nat /\ tracked[1].event.round <= round
         /\ RoundsUpTo(SavedResults, tracked[1].event.round)
         /\ \A j \in DOMAIN WaitingResults : tracked[1].event.round <= WaitingResults[j].round
    /\ tracked # << >> => tracked[1].kind \in VoteKinds
    /\ deleted["result"] <= moved["result"] /\ moved["result"] <= Len(SavedResults)
    /\ RecentResultsAreKept

\* One more event at the end of a sequence.
LEMMA OneMore ==
    ASSUME NEW s, IsSeq(s), NEW e
    PROVE  /\ IsSeq(Append(s, e)) /\ Len(s) \in Nat /\ DOMAIN s = 1 .. Len(s)
           /\ Len(Append(s, e)) = Len(s) + 1 /\ DOMAIN Append(s, e) = 1 .. (Len(s) + 1)
           /\ \A i \in 1 .. Len(s) : Append(s, e)[i] = s[i]
           /\ Append(s, e)[Len(s) + 1] = e
<1>1. PICK S : s \in Seq(S) BY DEF IsSeq
<1>2. PICK T : T = S \cup {e} OBVIOUS
<1>3. Len(s) \in Nat /\ DOMAIN s = 1 .. Len(s) /\ \A i \in 1 .. Len(s) : s[i] \in S BY <1>1
<1>4. s \in Seq(T) /\ e \in T
  <2>1. s \in [1 .. Len(s) -> T] BY <1>1, <1>2, <1>3
  <2> QED BY <1>2, <1>3, <2>1
<1>5. Append(s, e) \in Seq(T) BY <1>4
<1> QED BY <1>3, <1>4, <1>5 DEF IsSeq

\* One event less, at the start of a sequence.
LEMMA OneLess ==
    ASSUME NEW s, IsSeq(s), s # << >>
    PROVE  /\ IsSeq(Tail(s)) /\ Len(s) \in Nat \ {0} /\ DOMAIN s = 1 .. Len(s) /\ Head(s) = s[1]
           /\ DOMAIN Tail(s) = 1 .. (Len(s) - 1)
           /\ \A i \in 1 .. (Len(s) - 1) : Tail(s)[i] = s[i + 1]
<1>1. PICK S : s \in Seq(S) BY DEF IsSeq
<1>2. Tail(s) \in Seq(S) BY <1>1
<1> QED BY <1>1, <1>2 DEF IsSeq

\* An event of a round not before the others, at the end of them.
LEMMA RoundsGrow ==
    ASSUME NEW s, IsSeq(s), NEW r, RoundsInOrder(s, r), NEW e,
           e.round \in Nat, e.round <= r, RoundsUpTo(s, e.round)
    PROVE  IsSeq(Append(s, e)) /\ RoundsInOrder(Append(s, e), r)
<1> DEFINE t == Append(s, e)
           n == Len(s)
<1>1. /\ IsSeq(t) /\ n \in Nat /\ DOMAIN s = 1 .. n /\ DOMAIN t = 1 .. (n + 1)
      /\ \A i \in 1 .. n : t[i] = s[i]
      /\ t[n + 1] = e
  BY OneMore
<1> HIDE DEF t, n
<1>2. ASSUME NEW i \in DOMAIN t PROVE t[i].round \in Nat /\ t[i].round <= r
  <2>1. CASE i = n + 1 BY <1>1, <2>1
  <2>2. CASE i # n + 1
    <3>1. i \in 1 .. n BY <1>1, <2>2
    <3> QED BY <1>1, <3>1 DEF RoundsInOrder
  <2> QED BY <2>1, <2>2
<1>3. ASSUME NEW i \in DOMAIN t, NEW j \in DOMAIN t, i < j PROVE t[i].round <= t[j].round
  <2>1. i \in 1 .. n BY <1>1, <1>3
  <2>2. CASE j = n + 1 BY <1>1, <2>1, <2>2 DEF RoundsUpTo
  <2>3. CASE j # n + 1
    <3>1. j \in 1 .. n BY <1>1, <2>3
    <3> QED BY <1>1, <1>3, <2>1, <3>1 DEF RoundsInOrder
  <2> QED BY <2>2, <2>3
<1>4. IsSeq(t) /\ RoundsInOrder(t, r) BY <1>1, <1>2, <1>3 DEF RoundsInOrder
<1> QED BY <1>4 DEF t

\* The tables start empty or with one result, which may be in an old table.
LEMMA InitResultsInv == VoteInit => ResultsInv
<1> SUFFICES ASSUME VoteInit PROVE ResultsInv OBVIOUS
<1> DEFINE row == [timestamp |-> 1, round |-> 1, votes |-> {}, valid |-> TRUE]
<1>1. "result" \in VoteKinds BY DEF VoteKinds
<1>2. PICK old \in {<< >>, <<row>>} :
        /\ voteRows = [k \in VoteKinds |-> IF k = "result" THEN old ELSE << >>]
        /\ moved = [k \in VoteKinds |-> Len(voteRows[k])]
  BY DEF VoteInit
<1>3. IsSeq(<< >>) /\ IsSeq(<<row>>)
  <2>1. << >> \in Seq({row}) /\ <<row>> \in Seq({row}) OBVIOUS
  <2> QED BY <2>1 DEF IsSeq
<1>4. SavedResults = old /\ WaitingResults = << >> BY <1>1, <1>2 DEF VoteInit, SavedResults, WaitingResults
<1>5. /\ voteRows \in [VoteKinds -> Range(voteRows)] /\ voteQueues \in [VoteKinds -> Range(voteQueues)]
      /\ deleted \in [VoteKinds -> Nat] /\ deleted["result"] = 0 /\ round = 1 /\ tracked = << >>
  BY <1>1, <1>2 DEF VoteInit, Range
<1>6. \A k \in VoteKinds : IsSeq(voteRows[k]) /\ Len(voteRows[k]) \in Nat BY <1>2, <1>3
<1>7. moved \in [VoteKinds -> Nat] /\ moved["result"] = Len(SavedResults)
  BY <1>1, <1>2, <1>6 DEF SavedResults
<1>8. Len(SavedResults) \in Nat /\ IsSeq(SavedResults) /\ IsSeq(WaitingResults) BY <1>1, <1>3, <1>4, <1>6 DEF SavedResults
<1>9. RoundsInOrder(SavedResults, 1) /\ RoundsInOrder(WaitingResults, 1) BY <1>4 DEF RoundsInOrder
<1>10. RecentResultsAreKept BY <1>5 DEF RecentResultsAreKept
<1> QED BY <1>4, <1>5, <1>6, <1>7, <1>8, <1>9, <1>10 DEF ResultsInv

\* A step that leaves the results, wherever they are, and may add a round.
LEMMA ResultsStay ==
    ASSUME ResultsInv, SavedResults' = SavedResults, WaitingResults' = WaitingResults,
           round' \in {round, round + 1}, UNCHANGED <<moved, deleted>>,
           voteRows' = voteRows, voteQueues' \in [VoteKinds -> Range(voteQueues')],
           tracked' = tracked \/ tracked' = << >>
             \/ (tracked'[1].kind \in VoteKinds /\ tracked'[1].kind # "result")
    PROVE  ResultsInv'
<1>1. round' \in Nat /\ round \in Nat /\ round <= round' BY DEF ResultsInv
<1>2. ASSUME NEW s, RoundsInOrder(s, round) PROVE RoundsInOrder(s, round')
  <2>1. ASSUME NEW i \in DOMAIN s PROVE s[i].round \in Nat /\ s[i].round <= round' BY <1>1, <1>2 DEF RoundsInOrder
  <2> QED BY <1>2, <2>1 DEF RoundsInOrder
<1>3. RoundsInOrder(SavedResults, round') /\ RoundsInOrder(WaitingResults, round') BY <1>2 DEF ResultsInv
<1>4. RecentResultsAreKept' BY DEF ResultsInv, RecentResultsAreKept
<1>5. tracked' # << >> /\ tracked'[1].kind = "result" =>
         /\ "round" \in DOMAIN tracked'[1].event
         /\ tracked'[1].event.round \in Nat /\ tracked'[1].event.round <= round'
         /\ RoundsUpTo(SavedResults, tracked'[1].event.round)
         /\ \A j \in DOMAIN WaitingResults : tracked'[1].event.round <= WaitingResults[j].round
  <2> SUFFICES ASSUME tracked' = tracked, tracked # << >>, tracked[1].kind = "result"
               PROVE  /\ "round" \in DOMAIN tracked[1].event
                      /\ tracked[1].event.round \in Nat /\ tracked[1].event.round <= round'
                      /\ RoundsUpTo(SavedResults, tracked[1].event.round)
                      /\ \A j \in DOMAIN WaitingResults : tracked[1].event.round <= WaitingResults[j].round
    OBVIOUS
  <2>1. tracked[1].event.round \in Nat /\ tracked[1].event.round <= round BY DEF ResultsInv
  <2>2. tracked[1].event.round <= round' BY <1>1, <2>1
  <2> QED BY <2>1, <2>2 DEF ResultsInv
<1>6. tracked' # << >> => tracked'[1].kind \in VoteKinds BY DEF ResultsInv
<1> QED BY <1>1, <1>3, <1>4, <1>5, <1>6 DEF ResultsInv

\* A submission queues the result of the node's round, behind those before.
LEMMA SubmitResultsInv ==
    ASSUME NEW k \in VoteKinds, NEW votes, NEW valid PROVE ResultsInv /\ Submit(k, votes, valid) => ResultsInv'
<1> SUFFICES ASSUME ResultsInv, Submit(k, votes, valid) PROVE ResultsInv' OBVIOUS
<1> DEFINE e == [timestamp |-> Len(accepted[k]) + 1, round |-> round, votes |-> votes, valid |-> valid]
<1>0. "result" \in VoteKinds BY DEF VoteKinds
<1>1. /\ UNCHANGED <<round, tracked, voteRows, moved, deleted>>
      /\ voteQueues' = [voteQueues EXCEPT ![k] = IF Len(@) < QueueCapacity[k] THEN Append(@, e) ELSE @]
  BY DEF Submit, Enqueue
<1>2. e.round = round /\ "round" \in DOMAIN e OBVIOUS
<1> HIDE DEF e
<1>3. voteQueues' \in [VoteKinds -> Range(voteQueues')] BY <1>1 DEF ResultsInv, Range
<1>4. SavedResults' = SavedResults BY <1>1 DEF SavedResults
<1>5. CASE WaitingResults' = WaitingResults BY <1>1, <1>3, <1>4, <1>5, ResultsStay
<1>6. CASE WaitingResults' # WaitingResults
  <2>1. WaitingResults' = Append(WaitingResults, e)
    BY <1>0, <1>1, <1>6 DEF ResultsInv, WaitingResults
  <2> DEFINE w == WaitingResults
             n == Len(w)
             u == Append(w, e)
  <2>2. /\ n \in Nat /\ DOMAIN w = 1 .. n /\ DOMAIN u = 1 .. (n + 1)
        /\ \A i \in 1 .. n : u[i] = w[i]
        /\ u[n + 1] = e
    BY OneMore DEF ResultsInv
  <2>3. round \in Nat /\ round <= round /\ RoundsUpTo(SavedResults, round) /\ RoundsUpTo(w, round)
    BY DEF ResultsInv, RoundsInOrder, RoundsUpTo
  <2>4. IsSeq(u) /\ RoundsInOrder(u, round) BY <1>2, <2>3, RoundsGrow DEF ResultsInv
  <2> HIDE DEF u, n
  <2>5. ASSUME NEW j \in DOMAIN u
        PROVE  /\ "round" \in DOMAIN u[j] /\ RoundsUpTo(SavedResults, u[j].round)
               /\ tracked # << >> /\ tracked[1].kind = "result" => tracked[1].event.round <= u[j].round
    <3>1. CASE j = n + 1 BY <1>2, <2>2, <2>3, <3>1 DEF ResultsInv
    <3>2. CASE j # n + 1
      <4>1. j \in 1 .. n BY <2>2, <3>2
      <4> QED BY <2>2, <4>1 DEF ResultsInv
    <3> QED BY <3>1, <3>2
  <2>6. WaitingResults' = u BY <2>1 DEF u
  <2>7. RecentResultsAreKept' BY <1>1 DEF ResultsInv, RecentResultsAreKept
  <2> QED BY <1>1, <1>3, <1>4, <2>4, <2>5, <2>6, <2>7 DEF ResultsInv
<1> QED BY <1>5, <1>6

\* The worker takes the oldest result of the channel.
LEMMA TakeResultsInv == ResultsInv /\ Take("result") => ResultsInv'
<1> SUFFICES ASSUME ResultsInv, Take("result") PROVE ResultsInv' OBVIOUS
<1> DEFINE w == WaitingResults
           n == Len(w)
           u == Tail(w)
<1>0. "result" \in VoteKinds BY DEF VoteKinds
<1>1. /\ w # << >> /\ UNCHANGED <<round, voteRows, moved, deleted>>
      /\ tracked' = <<[kind |-> "result", event |-> Head(w)]>>
      /\ voteQueues' = [voteQueues EXCEPT !["result"] = Tail(@)]
  BY DEF Take, WaitingResults
<1>2. voteQueues' \in [VoteKinds -> Range(voteQueues')] BY <1>1 DEF ResultsInv, Range
<1>3. SavedResults' = SavedResults BY <1>1 DEF SavedResults
<1>4. WaitingResults' = u BY <1>0, <1>1 DEF ResultsInv, WaitingResults
<1>5. /\ IsSeq(u) /\ n \in Nat \ {0} /\ DOMAIN w = 1 .. n /\ Head(w) = w[1]
      /\ DOMAIN u = 1 .. (n - 1) /\ \A i \in 1 .. (n - 1) : u[i] = w[i + 1]
  BY <1>1, OneLess DEF ResultsInv
<1>6. tracked'[1].event = w[1] /\ tracked'[1].kind = "result" BY <1>1, <1>5
<1> HIDE DEF w, n, u
<1>7. /\ RoundsInOrder(w, round)
      /\ \A j \in 1 .. n : "round" \in DOMAIN w[j] /\ RoundsUpTo(SavedResults, w[j].round)
  BY <1>5 DEF ResultsInv, w
<1>8. RoundsInOrder(u, round) /\ \A j \in DOMAIN u : w[1].round <= u[j].round
  <2>1. ASSUME NEW i \in DOMAIN u
        PROVE  u[i].round \in Nat /\ u[i].round <= round /\ w[1].round <= u[i].round
    <3>1. i + 1 \in DOMAIN w /\ 1 \in DOMAIN w /\ 1 < i + 1 /\ u[i] = w[i + 1] BY <1>5
    <3> QED BY <1>7, <3>1 DEF RoundsInOrder
  <2>2. ASSUME NEW i \in DOMAIN u, NEW j \in DOMAIN u, i < j PROVE u[i].round <= u[j].round
    <3>1. i + 1 \in DOMAIN w /\ j + 1 \in DOMAIN w /\ i + 1 < j + 1 /\ u[i] = w[i + 1] /\ u[j] = w[j + 1]
      BY <1>5, <2>2
    <3> QED BY <1>7, <3>1 DEF RoundsInOrder
  <2> QED BY <2>1, <2>2 DEF RoundsInOrder
<1>9. ASSUME NEW j \in DOMAIN u PROVE "round" \in DOMAIN u[j] /\ RoundsUpTo(SavedResults, u[j].round)
  <2>1. j + 1 \in 1 .. n /\ u[j] = w[j + 1] BY <1>5
  <2> QED BY <1>7, <2>1
<1>10. /\ "round" \in DOMAIN w[1] /\ w[1].round \in Nat /\ w[1].round <= round
       /\ RoundsUpTo(SavedResults, w[1].round)
  <2>1. 1 \in 1 .. n /\ 1 \in DOMAIN w BY <1>5
  <2> QED BY <1>7, <2>1 DEF RoundsInOrder
<1>11. RecentResultsAreKept' BY <1>1 DEF ResultsInv, RecentResultsAreKept
<1> QED BY <1>0, <1>1, <1>2, <1>3, <1>4, <1>5, <1>6, <1>8, <1>9, <1>10, <1>11 DEF ResultsInv

\* A save puts the event in hand behind the rows; it may be repeated.
LEMMA InsertResultsInv ==
    ASSUME ResultsInv, tracked # << >>, Insert, tracked' \in {tracked, << >>},
           UNCHANGED <<round, voteQueues, moved, deleted>>
    PROVE  ResultsInv'
<1> DEFINE k == tracked[1].kind
           e == ConvertEvent(tracked[1].event)
           s == SavedResults
           n == Len(s)
           t == Append(s, e)
<1>0. "result" \in VoteKinds BY DEF VoteKinds
<1>1. voteRows' = [voteRows EXCEPT ![k] = Append(@, e)] /\ k \in VoteKinds BY DEF Insert, ResultsInv
<1>2. WaitingResults' = WaitingResults BY DEF WaitingResults
<1>3. voteRows' \in [VoteKinds -> Range(voteRows')] BY <1>1 DEF ResultsInv, Range
<1>4. ASSUME NEW j \in VoteKinds PROVE IsSeq(voteRows'[j])
  <2>1. IsSeq(voteRows[j]) BY DEF ResultsInv
  <2> HIDE DEF e, k
  <2>2. voteRows'[j] = voteRows[j] \/ voteRows'[j] = Append(voteRows[j], e) BY <1>1 DEF ResultsInv
  <2>3. IsSeq(Append(voteRows[j], e)) BY <2>1, OneMore
  <2> QED BY <2>1, <2>2, <2>3
<1>5. CASE k # "result"
  <2>1. SavedResults' = SavedResults BY <1>0, <1>1, <1>5 DEF ResultsInv, SavedResults
  <2>2. RecentResultsAreKept' BY <2>1 DEF ResultsInv, RecentResultsAreKept, SavedResults
  <2> QED BY <1>1, <1>2, <1>3, <1>5, <1>4, <2>1, <2>2 DEF ResultsInv
<1>6. CASE k = "result"
  <2>1. SavedResults' = t BY <1>0, <1>1, <1>6 DEF ResultsInv, SavedResults
  <2>2. e.round = tracked[1].event.round BY <1>6 DEF ResultsInv, ConvertEvent
  <2> HIDE DEF e
  <2>3. /\ tracked[1].event.round \in Nat /\ tracked[1].event.round <= round
        /\ RoundsUpTo(s, tracked[1].event.round)
        /\ \A j \in DOMAIN WaitingResults : tracked[1].event.round <= WaitingResults[j].round
    BY <1>6 DEF ResultsInv
  <2>4. /\ n \in Nat /\ DOMAIN s = 1 .. n /\ DOMAIN t = 1 .. (n + 1)
        /\ Len(t) = n + 1 /\ \A i \in 1 .. n : t[i] = s[i]
        /\ t[n + 1] = e
    BY OneMore DEF ResultsInv
  <2>5. IsSeq(t) /\ RoundsInOrder(t, round) BY <2>2, <2>3, RoundsGrow DEF ResultsInv
  <2> HIDE DEF t, n, s
  <2>6. ASSUME NEW r, RoundsUpTo(s, r), e.round <= r PROVE RoundsUpTo(t, r)
    <3> SUFFICES ASSUME NEW i \in DOMAIN t PROVE t[i].round <= r BY DEF RoundsUpTo
    <3>1. CASE i = n + 1 BY <2>4, <2>6, <3>1
    <3>2. CASE i # n + 1
      <4>1. i \in 1 .. n BY <2>4, <3>2
      <4> QED BY <2>4, <2>6, <4>1 DEF RoundsUpTo
    <3> QED BY <3>1, <3>2
  <2>7. \A j \in DOMAIN WaitingResults : RoundsUpTo(t, WaitingResults[j].round)
    BY <2>2, <2>3, <2>6 DEF ResultsInv, s
  <2>8. e.round <= e.round BY <2>2, <2>3
  <2>9. RoundsUpTo(t, tracked[1].event.round) BY <2>2, <2>3, <2>6, <2>8
  <2>10. deleted["result"] <= moved["result"] /\ moved["result"] <= Len(t)
    <3>1. moved["result"] \in Nat /\ deleted["result"] \in Nat BY <1>0 DEF ResultsInv
    <3>2. deleted["result"] <= moved["result"] /\ moved["result"] <= n BY DEF ResultsInv, n, s
    <3> QED BY <2>4, <3>1, <3>2
  <2>11. RecentResultsAreKept'
    <3> SUFFICES ASSUME NEW i \in 1 .. deleted["result"]
                 PROVE  \E j \in DOMAIN t : t[i].round + BlockRange <= t[j].round
      BY <2>1 DEF RecentResultsAreKept, SavedResults
    <3>1. PICK j \in DOMAIN s : s[i].round + BlockRange <= s[j].round
      BY DEF ResultsInv, RecentResultsAreKept, s, SavedResults
    <3>2. deleted["result"] \in Nat /\ moved["result"] \in Nat BY <1>0 DEF ResultsInv
    <3>3. deleted["result"] <= moved["result"] /\ moved["result"] <= n BY DEF ResultsInv, n, s
    <3>4. i \in 1 .. n BY <2>4, <3>2, <3>3
    <3>5. j \in DOMAIN t /\ t[j] = s[j] /\ t[i] = s[i] BY <2>4, <3>1, <3>4
    <3> QED BY <3>1, <3>5
  <2> QED BY <1>1, <1>2, <1>3, <1>4, <2>1, <2>3, <2>5, <2>7, <2>9, <2>10, <2>11 DEF ResultsInv
<1> QED BY <1>5, <1>6

\* What is dropped was counted before everything that is current, where two
\* results are BlockRange rounds apart.
LEMMA DeleteOldResultsInv == ResultsInv /\ DeleteOldData => ResultsInv'
<1> SUFFICES ASSUME ResultsInv, DeleteOldData PROVE ResultsInv' OBVIOUS
<1> DEFINE s == SavedResults
           n == Len(s)
           m == moved["result"]
           c == SubSeq(s, m + 1, n)
<1>0. "result" \in VoteKinds BY DEF VoteKinds
<1>1. /\ tracked = << >> /\ SpansRange(c) /\ deleted' = moved
      /\ moved' = [k \in VoteKinds |-> Len(voteRows[k])]
      /\ UNCHANGED <<round, voteQueues, tracked, voteRows>>
  BY DEF DeleteOldData, Current, SavedResults
<1>2. SavedResults' = s /\ WaitingResults' = WaitingResults BY <1>1 DEF SavedResults, WaitingResults
<1>3. PICK S : s \in Seq(S) BY DEF ResultsInv, IsSeq
<1>4. n \in Nat /\ DOMAIN s = 1 .. n /\ m \in Nat /\ m <= n BY <1>0, <1>3 DEF ResultsInv
<1>5. deleted'["result"] = m /\ moved'["result"] = n BY <1>0, <1>1 DEF SavedResults
<1>6. moved' \in [VoteKinds -> Nat]
  <2>1. \A k \in VoteKinds : IsSeq(voteRows[k]) BY DEF ResultsInv
  <2>2. \A k \in VoteKinds : Len(voteRows[k]) \in Nat BY <2>1, OneMore
  <2> QED BY <1>1, <2>2
<1>7. /\ DOMAIN c = 1 .. (n - m)
      /\ \A i \in 1 .. (n - m) : c[i] = s[m + i] /\ m + i \in 1 .. n
  <2> HIDE DEF s, m
  <2>1. m + 1 \in 1 .. n + 1 /\ n \in Nat BY <1>4
  <2> QED BY <1>3, <1>4, <2>1
<1>8. RecentResultsAreKept'
  <2> HIDE DEF c, s, n, m
  <2> SUFFICES ASSUME NEW i \in 1 .. m PROVE \E j \in DOMAIN s : s[i].round + BlockRange <= s[j].round
    BY <1>1, <1>5 DEF RecentResultsAreKept, s, SavedResults
  <2>1. PICK a \in DOMAIN c, b \in DOMAIN c : c[a].round + BlockRange <= c[b].round BY <1>1 DEF SpansRange
  <2>2. /\ c[a] = s[m + a] /\ m + a \in 1 .. n /\ c[b] = s[m + b] /\ m + b \in 1 .. n /\ a \in Nat \ {0}
    BY <1>4, <1>7, <2>1
  <2>3. i \in DOMAIN s /\ m + a \in DOMAIN s /\ m + b \in DOMAIN s /\ i < m + a BY <1>4, <2>2
  <2>4. RoundsInOrder(s, round) BY DEF ResultsInv, s
  <2>5. /\ s[i].round <= s[m + a].round /\ s[i].round \in Nat
        /\ s[m + a].round \in Nat /\ s[m + b].round \in Nat
    BY <2>3, <2>4 DEF RoundsInOrder
  <2>6. s[m + a].round + BlockRange <= s[m + b].round BY <2>1, <2>2
  <2>7. BlockRange \in Nat BY VoteCountingAssumption
  <2>8. s[i].round + BlockRange <= s[m + b].round BY <2>5, <2>6, <2>7
  <2> QED BY <2>3, <2>8
<1>9. deleted'["result"] <= moved'["result"] /\ moved'["result"] <= Len(SavedResults') BY <1>2, <1>4, <1>5
<1>10. deleted' \in [VoteKinds -> Nat] BY <1>1 DEF ResultsInv
<1> QED BY <1>1, <1>2, <1>6, <1>8, <1>9, <1>10 DEF ResultsInv

\* Every step of the node and of the worker keeps the order of the rounds.
LEMMA NextResultsInv == ResultsInv /\ [VoteNext]_voteVars => ResultsInv'
<1> SUFFICES ASSUME ResultsInv, [VoteNext]_voteVars PROVE ResultsInv' OBVIOUS
<1>0. VoteKinds = {"step", "result", "proof", "block"} BY DEF VoteKinds
<1>1. voteQueues \in [VoteKinds -> Range(voteQueues)] BY DEF ResultsInv
<1>2. ASSUME NEW h \in VotedHashes, NEW v \in Voters, CountVote(h, v) PROVE ResultsInv'
  <2>1. UNCHANGED <<round, voteQueues, tracked, voteRows, moved, deleted>> BY <1>2 DEF CountVote
  <2>2. SavedResults' = SavedResults /\ WaitingResults' = WaitingResults BY <2>1 DEF SavedResults, WaitingResults
  <2> QED BY <1>1, <2>1, <2>2, ResultsStay
<1>3. CASE NextRound
  <2>1. round' = round + 1 /\ UNCHANGED <<voteQueues, tracked, voteRows, moved, deleted>> BY <1>3 DEF NextRound
  <2>2. SavedResults' = SavedResults /\ WaitingResults' = WaitingResults BY <2>1 DEF SavedResults, WaitingResults
  <2> QED BY <1>1, <2>1, <2>2, ResultsStay
<1>4. CASE SubmitVoteCountingStepResultEvent
  BY <1>0, <1>4, SubmitResultsInv DEF SubmitVoteCountingStepResultEvent
<1>5. CASE SubmitVoteCountingResultEvent
  BY <1>0, <1>5, SubmitResultsInv DEF SubmitVoteCountingResultEvent
<1>6. ASSUME NEW valid \in BOOLEAN, SubmitProofProposalEvent(valid) PROVE ResultsInv'
  BY <1>0, <1>6, SubmitResultsInv DEF SubmitProofProposalEvent
<1>7. CASE SubmitBlockProposalEvent
  BY <1>0, <1>7, SubmitResultsInv DEF SubmitBlockProposalEvent
<1>8. ASSUME NEW k \in VoteKinds \ {"result"},
             UNCHANGED <<round, voteRows, moved, deleted>>,
             voteQueues' = [voteQueues EXCEPT ![k] = Tail(@)],
             tracked' = << >> \/ (tracked'[1].kind = k)
      PROVE  ResultsInv'
  <2>1. SavedResults' = SavedResults BY <1>8 DEF SavedResults
  <2>2. WaitingResults' = WaitingResults BY <1>0, <1>1, <1>8 DEF WaitingResults
  <2>3. voteQueues' \in [VoteKinds -> Range(voteQueues')] BY <1>1, <1>8 DEF Range
  <2>4. tracked' = << >> \/ (tracked'[1].kind \in VoteKinds /\ tracked'[1].kind # "result") BY <1>8
  <2> QED BY <1>8, <2>1, <2>2, <2>3, <2>4, ResultsStay
<1>9. ASSUME NEW k \in VoteKinds \ {"result"}, Take(k) PROVE ResultsInv'
  <2>1. /\ UNCHANGED <<round, voteRows, moved, deleted>> /\ voteQueues' = [voteQueues EXCEPT ![k] = Tail(@)]
        /\ tracked' = <<[kind |-> k, event |-> Head(voteQueues[k])]>>
    BY <1>9 DEF Take
  <2>2. tracked'[1].kind = k BY <2>1
  <2> QED BY <1>8, <2>1, <2>2
<1>10. CASE TakeProofProposal
  <2>1. /\ UNCHANGED <<round, voteRows, moved, deleted>> /\ voteQueues' = [voteQueues EXCEPT !["proof"] = Tail(@)]
        /\ \/ tracked' = << >>
           \/ tracked' = <<[kind |-> "proof", event |-> Head(voteQueues["proof"])]>>
    BY <1>10 DEF TakeProofProposal
  <2>2. tracked' = << >> \/ tracked'[1].kind = "proof" BY <2>1
  <2> QED BY <1>0, <1>8, <2>1, <2>2
<1>11. CASE Track
  BY <1>0, <1>9, <1>10, <1>11, TakeResultsInv DEF Track, TakeCountingStep, TakeCounting, TakeBlockProposal
<1>12. CASE SaveSucceeds BY <1>12, InsertResultsInv DEF SaveSucceeds
<1>13. CASE SaveAnswerLost BY <1>13, InsertResultsInv DEF SaveAnswerLost
<1>14. CASE DeleteOldData BY <1>14, DeleteOldResultsInv
<1>15. CASE UNCHANGED voteVars
  <2>1. UNCHANGED <<round, voteQueues, tracked, voteRows, moved, deleted>> BY <1>15 DEF voteVars
  <2>2. SavedResults' = SavedResults /\ WaitingResults' = WaitingResults BY <2>1 DEF SavedResults, WaitingResults
  <2> QED BY <1>1, <2>1, <2>2, ResultsStay
<1> QED BY <1>2, <1>3, <1>4, <1>5, <1>6, <1>7, <1>11, <1>12, <1>13, <1>14, <1>15 DEF VoteNext

\* No result of the last BlockRange rounds is ever dropped, for every range,
\* every capacity of the channels and however often saves are repeated (track
\* of vote_counting_tracker.go and delete_old_vote_counting_data).
THEOREM RecentResultsAreKeptAlways == VoteInit /\ [][VoteNext]_voteVars => []RecentResultsAreKept
<1>1. ResultsInv => RecentResultsAreKept BY DEF ResultsInv
<1> QED BY <1>1, InitResultsInv, NextResultsInv, PTL

-----------------------------------------------------------------------------
(* VoteCounting: what the channels took is saved. *)

VoteEvent == [timestamp : Nat, round : Nat, votes : [VotedHashes -> SUBSET Voters], valid : BOOLEAN]

VoteRow == {ConvertEvent(e) : e \in VoteEvent}

\* What is saved of one kind, what waits and what its channel took: the events
\* that wait or were taken are no newer than the last one taken.
KindInv(saved, waiting, taken, lost) ==
  /\ saved \in Seq(VoteRow) /\ waiting \in Seq(VoteEvent) /\ taken \in Seq(VoteEvent)
  /\ \A i \in DOMAIN taken : taken[i].timestamp <= Len(taken)
  /\ \A i \in DOMAIN waiting : waiting[i].timestamp <= Len(taken)
  /\ lost \in Nat
  /\ SavedInOrder(saved, waiting, taken, lost)

\* An event keeps its timestamp when it becomes a row.
LEMMA RowTimestamp ==
    ASSUME NEW e \in VoteEvent
    PROVE  ConvertEvent(e).timestamp = e.timestamp /\ e.timestamp \in Nat /\ e.valid \in BOOLEAN
BY DEF VoteEvent, ConvertEvent

\* The rows due are those of the valid events.
LEMMA RowsDueAre ==
    ASSUME NEW q, NEW r
    PROVE  r \in RowsDue(q) <=> \E i \in DOMAIN q : q[i].valid /\ r = ConvertEvent(q[i])
<1>1. RowsDue(q) = {ConvertEvent(e) : e \in {x \in Range(q) : x.valid}} BY DEF RowsDue, ConvertEvent
<1>2. Range(q) = {q[i] : i \in DOMAIN q} BY DEF Range
<1> QED BY <1>1, <1>2

\* There are finitely many of them, and each has the timestamp of its event.
LEMMA RowsDueFinite ==
    ASSUME NEW q \in Seq(VoteEvent)
    PROVE  /\ IsFiniteSet(RowsDue(q)) /\ Cardinality(RowsDue(q)) \in Nat
           /\ \A r \in RowsDue(q) : \E i \in DOMAIN q : r.timestamp = q[i].timestamp
<1>1. Len(q) \in Nat /\ DOMAIN q = 1 .. Len(q) OBVIOUS
<1>2. IsFiniteSet(1 .. Len(q)) BY <1>1, FS_Interval
<1>3. IsFiniteSet({ConvertEvent(q[i]) : i \in 1 .. Len(q)})
  <2> DEFINE T == {ConvertEvent(q[i]) : i \in 1 .. Len(q)}
             f == [i \in 1 .. Len(q) |-> ConvertEvent(q[i])]
  <2>1. f \in Surjection(1 .. Len(q), T) BY DEF Surjection
  <2> HIDE DEF f
  <2> QED BY <1>2, <2>1, FS_Surjection
<1>4. RowsDue(q) \subseteq {ConvertEvent(q[i]) : i \in 1 .. Len(q)} BY <1>1, RowsDueAre
<1>5. IsFiniteSet(RowsDue(q)) BY <1>3, <1>4, FS_Subset
<1>6. ASSUME NEW r \in RowsDue(q) PROVE \E i \in DOMAIN q : r.timestamp = q[i].timestamp
  <2>1. PICK i \in DOMAIN q : r = ConvertEvent(q[i]) BY RowsDueAre
  <2>2. q[i] \in VoteEvent BY <1>1
  <2> QED BY <2>1, <2>2, RowTimestamp
<1> QED BY <1>5, <1>6, FS_CardinalityType

\* One more event at the end.
LEMMA RowsDueAppend ==
    ASSUME NEW q \in Seq(VoteEvent), NEW e \in VoteEvent
    PROVE  RowsDue(Append(q, e)) = IF e.valid THEN RowsDue(q) \cup {ConvertEvent(e)} ELSE RowsDue(q)
<1> DEFINE a == Append(q, e)
<1>1. /\ Len(q) \in Nat /\ DOMAIN q = 1 .. Len(q) /\ DOMAIN a = 1 .. (Len(q) + 1)
      /\ a[Len(q) + 1] = e /\ \A i \in 1 .. Len(q) : a[i] = q[i]
  OBVIOUS
<1> HIDE DEF a
<1>2. ASSUME NEW r PROVE r \in RowsDue(a) <=> (r \in RowsDue(q) \/ (e.valid /\ r = ConvertEvent(e)))
  <2>1. ASSUME r \in RowsDue(a) PROVE r \in RowsDue(q) \/ (e.valid /\ r = ConvertEvent(e))
    <3>1. PICK i \in DOMAIN a : a[i].valid /\ r = ConvertEvent(a[i]) BY <2>1, RowsDueAre
    <3>2. CASE i = Len(q) + 1 BY <1>1, <3>1, <3>2
    <3>3. CASE i # Len(q) + 1
      <4>1. i \in DOMAIN q /\ a[i] = q[i] BY <1>1, <3>3
      <4> QED BY <3>1, <4>1, RowsDueAre
    <3> QED BY <3>2, <3>3
  <2>2. ASSUME r \in RowsDue(q) PROVE r \in RowsDue(a)
    <3>1. PICK i \in DOMAIN q : q[i].valid /\ r = ConvertEvent(q[i]) BY <2>2, RowsDueAre
    <3>2. i \in DOMAIN a /\ a[i] = q[i] BY <1>1
    <3> QED BY <3>1, <3>2, RowsDueAre
  <2>3. ASSUME e.valid, r = ConvertEvent(e) PROVE r \in RowsDue(a)
    <3>1. Len(q) + 1 \in DOMAIN a BY <1>1
    <3> QED BY <1>1, <2>3, <3>1, RowsDueAre
  <2> QED BY <2>1, <2>2, <2>3
<1> QED BY <1>2 DEF a

\* The first event and the rest.
LEMMA RowsDueHead ==
    ASSUME NEW q \in Seq(VoteEvent), q # << >>
    PROVE  /\ Tail(q) \in Seq(VoteEvent) /\ q[1] \in VoteEvent
           /\ Len(Tail(q)) = Len(q) - 1 /\ Len(q) \in Nat \ {0}
           /\ \A i \in DOMAIN Tail(q) : i + 1 \in DOMAIN q /\ i \in Nat \ {0} /\ Tail(q)[i] = q[i + 1]
           /\ RowsDue(q) = IF q[1].valid THEN RowsDue(Tail(q)) \cup {ConvertEvent(q[1])} ELSE RowsDue(Tail(q))
<1> DEFINE t == Tail(q)
<1>1. /\ Len(q) \in Nat \ {0} /\ DOMAIN q = 1 .. Len(q) /\ DOMAIN t = 1 .. (Len(q) - 1)
      /\ \A i \in 1 .. (Len(q) - 1) : t[i] = q[i + 1]
      /\ t \in Seq(VoteEvent) /\ Len(t) = Len(q) - 1
  OBVIOUS
<1>2. q[1] \in VoteEvent BY <1>1
<1> HIDE DEF t
<1>3. ASSUME NEW r PROVE r \in RowsDue(q) <=> (r \in RowsDue(t) \/ (q[1].valid /\ r = ConvertEvent(q[1])))
  <2>1. ASSUME r \in RowsDue(q) PROVE r \in RowsDue(t) \/ (q[1].valid /\ r = ConvertEvent(q[1]))
    <3>1. PICK i \in DOMAIN q : q[i].valid /\ r = ConvertEvent(q[i]) BY <2>1, RowsDueAre
    <3>2. CASE i = 1 BY <3>1, <3>2
    <3>3. CASE i # 1
      <4>1. i - 1 \in DOMAIN t /\ t[i - 1] = q[(i - 1) + 1] /\ (i - 1) + 1 = i BY <1>1, <3>3
      <4>2. t[i - 1] = q[i] BY <4>1
      <4> QED BY <3>1, <4>1, <4>2, RowsDueAre
    <3> QED BY <3>2, <3>3
  <2>2. ASSUME r \in RowsDue(t) PROVE r \in RowsDue(q)
    <3>1. PICK i \in DOMAIN t : t[i].valid /\ r = ConvertEvent(t[i]) BY <2>2, RowsDueAre
    <3>2. i + 1 \in DOMAIN q /\ t[i] = q[i + 1] BY <1>1
    <3> QED BY <3>1, <3>2, RowsDueAre
  <2>3. ASSUME q[1].valid, r = ConvertEvent(q[1]) PROVE r \in RowsDue(q)
    <3>1. 1 \in DOMAIN q BY <1>1
    <3> QED BY <2>3, <3>1, RowsDueAre
  <2> QED BY <2>1, <2>2, <2>3
<1>4. RowsDue(q) = IF q[1].valid THEN RowsDue(t) \cup {ConvertEvent(q[1])} ELSE RowsDue(t) BY <1>3
<1>5. \A i \in DOMAIN t : i + 1 \in DOMAIN q /\ i \in Nat \ {0} /\ t[i] = q[i + 1] BY <1>1
<1> QED BY <1>1, <1>2, <1>4, <1>5 DEF t

\* What KindInv says of the timestamps: the rows that are due or saved are no
\* newer than the last event taken.
LEMMA KindTimestamps ==
    ASSUME NEW w, NEW t, NEW s, NEW lost, KindInv(w, t, s, lost)
    PROVE  /\ w \in Seq(VoteRow) /\ t \in Seq(VoteEvent) /\ s \in Seq(VoteEvent) /\ lost \in Nat
           /\ Len(w) \in Nat /\ Len(t) \in Nat /\ Len(s) \in Nat
           /\ DOMAIN w = 1 .. Len(w) /\ DOMAIN t = 1 .. Len(t) /\ DOMAIN s = 1 .. Len(s)
           /\ \A i \in DOMAIN t : t[i].timestamp \in Nat /\ t[i].timestamp <= Len(s)
           /\ \A r \in RowsDue(s) : r.timestamp \in Nat /\ r.timestamp <= Len(s)
           /\ \A i \in DOMAIN w : w[i] \in RowsDue(s)
<1>1. /\ w \in Seq(VoteRow) /\ t \in Seq(VoteEvent) /\ s \in Seq(VoteEvent) /\ lost \in Nat
      /\ \A i \in DOMAIN s : s[i].timestamp <= Len(s)
      /\ \A i \in DOMAIN t : t[i].timestamp <= Len(s)
      /\ Range(w) \cup RowsDue(t) = RowsDue(s)
  BY DEF KindInv, SavedInOrder
<1>2. /\ Len(w) \in Nat /\ Len(t) \in Nat /\ Len(s) \in Nat
      /\ DOMAIN w = 1 .. Len(w) /\ DOMAIN t = 1 .. Len(t) /\ DOMAIN s = 1 .. Len(s)
  BY <1>1
<1>3. ASSUME NEW i \in DOMAIN t PROVE t[i].timestamp \in Nat
  <2>1. t[i] \in VoteEvent BY <1>1, <1>2
  <2> QED BY <2>1, RowTimestamp
<1>4. ASSUME NEW r \in RowsDue(s) PROVE r.timestamp \in Nat /\ r.timestamp <= Len(s)
  <2>1. PICK i \in DOMAIN s : r.timestamp = s[i].timestamp BY <1>1, RowsDueFinite
  <2>2. s[i] \in VoteEvent BY <1>1, <1>2
  <2>3. s[i].timestamp \in Nat BY <2>2, RowTimestamp
  <2> QED BY <1>1, <2>1, <2>3
<1>5. ASSUME NEW i \in DOMAIN w PROVE w[i] \in RowsDue(s)
  <2>1. w[i] \in Range(w) BY DEF Range
  <2> QED BY <1>1, <2>1
<1> QED BY <1>1, <1>2, <1>3, <1>4, <1>5

\* A channel takes one event more.
LEMMA KindTakes ==
    ASSUME NEW w, NEW t, NEW s, NEW lost, KindInv(w, t, s, lost),
           NEW e \in VoteEvent, e.timestamp = Len(s) + 1
    PROVE  KindInv(w, Append(t, e), Append(s, e), lost)
<1> DEFINE a == Append(t, e)
           b == Append(s, e)
           r == ConvertEvent(e)
<1>1. /\ w \in Seq(VoteRow) /\ t \in Seq(VoteEvent) /\ s \in Seq(VoteEvent) /\ lost \in Nat
      /\ Len(w) \in Nat /\ Len(t) \in Nat /\ Len(s) \in Nat
      /\ DOMAIN w = 1 .. Len(w) /\ DOMAIN t = 1 .. Len(t) /\ DOMAIN s = 1 .. Len(s)
      /\ \A i \in DOMAIN t : t[i].timestamp \in Nat /\ t[i].timestamp <= Len(s)
      /\ \A x \in RowsDue(s) : x.timestamp \in Nat /\ x.timestamp <= Len(s)
      /\ \A i \in DOMAIN w : w[i] \in RowsDue(s)
  BY KindTimestamps
<1>2. /\ a \in Seq(VoteEvent) /\ DOMAIN a = 1 .. (Len(t) + 1) /\ a[Len(t) + 1] = e
      /\ \A i \in 1 .. Len(t) : a[i] = t[i]
  BY <1>1
<1>3. /\ b \in Seq(VoteEvent) /\ DOMAIN b = 1 .. (Len(s) + 1) /\ b[Len(s) + 1] = e /\ Len(b) = Len(s) + 1
      /\ \A i \in 1 .. Len(s) : b[i] = s[i]
  BY <1>1
<1>4. /\ RowsDue(a) = IF e.valid THEN RowsDue(t) \cup {r} ELSE RowsDue(t)
      /\ RowsDue(b) = IF e.valid THEN RowsDue(s) \cup {r} ELSE RowsDue(s)
  BY <1>1, RowsDueAppend
<1>5. r.timestamp = Len(s) + 1 BY RowTimestamp
<1>6. SavedInOrder(w, t, s, lost) /\ \A i \in DOMAIN s : s[i].timestamp <= Len(s) BY DEF KindInv
<1> HIDE DEF a, b, r
<1>7. r \notin RowsDue(s) BY <1>1, <1>5
<1>8. r \notin RowsDue(t) BY <1>6, <1>7 DEF SavedInOrder
<1>9. \A i \in DOMAIN b : b[i].timestamp <= Len(b)
  <2> SUFFICES ASSUME NEW i \in DOMAIN b PROVE b[i].timestamp <= Len(b) OBVIOUS
  <2>1. CASE i = Len(s) + 1 BY <1>1, <1>3, <2>1
  <2>2. CASE i # Len(s) + 1
    <3>1. i \in DOMAIN s /\ b[i] = s[i] BY <1>1, <1>3, <2>2
    <3>2. s[i] \in VoteEvent BY <1>1, <3>1
    <3>3. s[i].timestamp \in Nat BY <3>2, RowTimestamp
    <3> QED BY <1>1, <1>3, <1>6, <3>1, <3>3
  <2> QED BY <2>1, <2>2
<1>10. \A i \in DOMAIN a : i = Len(t) + 1 \/ (i \in DOMAIN t /\ a[i] = t[i]) BY <1>1, <1>2
<1>11. \A i \in DOMAIN a : a[i].timestamp <= Len(b)
  <2> SUFFICES ASSUME NEW i \in DOMAIN a PROVE a[i].timestamp <= Len(b) OBVIOUS
  <2>1. CASE i = Len(t) + 1 BY <1>1, <1>2, <1>3, <2>1
  <2>2. CASE i \in DOMAIN t /\ a[i] = t[i] BY <1>1, <1>3, <2>2
  <2> QED BY <1>10, <2>1, <2>2
<1>12. Range(w) \cup RowsDue(a) = RowsDue(b) BY <1>4, <1>6 DEF SavedInOrder
<1>13. \A i, j \in DOMAIN w : i < j => w[i].timestamp <= w[j].timestamp BY <1>6 DEF SavedInOrder
<1>14. \A i \in DOMAIN w, j \in DOMAIN a : w[i].timestamp <= a[j].timestamp
  <2> SUFFICES ASSUME NEW i \in DOMAIN w, NEW j \in DOMAIN a PROVE w[i].timestamp <= a[j].timestamp OBVIOUS
  <2>1. CASE j = Len(t) + 1
    <3>1. w[i].timestamp \in Nat /\ w[i].timestamp <= Len(s) BY <1>1
    <3> QED BY <1>1, <1>2, <2>1, <3>1
  <2>2. CASE j \in DOMAIN t /\ a[j] = t[j] BY <1>6, <2>2 DEF SavedInOrder
  <2> QED BY <1>10, <2>1, <2>2
<1>15. \A i, j \in DOMAIN a : i < j => a[i].timestamp < a[j].timestamp
  <2> SUFFICES ASSUME NEW i \in DOMAIN a, NEW j \in DOMAIN a, i < j PROVE a[i].timestamp < a[j].timestamp OBVIOUS
  <2>1. i # Len(t) + 1 BY <1>1, <1>2
  <2>2. i \in DOMAIN t /\ a[i] = t[i] BY <1>10, <2>1
  <2>3. CASE j = Len(t) + 1
    <3>1. t[i].timestamp \in Nat /\ t[i].timestamp <= Len(s) BY <1>1, <2>2
    <3> QED BY <1>1, <1>2, <2>2, <2>3, <3>1
  <2>4. CASE j \in DOMAIN t /\ a[j] = t[j] BY <1>6, <2>2, <2>4 DEF SavedInOrder
  <2> QED BY <1>10, <2>3, <2>4
<1>16. Len(w) + Cardinality(RowsDue(a)) <= Cardinality(RowsDue(b)) + lost
  <2>1. /\ IsFiniteSet(RowsDue(s)) /\ Cardinality(RowsDue(s)) \in Nat
        /\ IsFiniteSet(RowsDue(t)) /\ Cardinality(RowsDue(t)) \in Nat
    BY <1>1, RowsDueFinite
  <2>2. Len(w) + Cardinality(RowsDue(t)) <= Cardinality(RowsDue(s)) + lost BY <1>6 DEF SavedInOrder
  <2>3. CASE e.valid
    <3>1. RowsDue(a) = RowsDue(t) \cup {r} /\ RowsDue(b) = RowsDue(s) \cup {r} BY <1>4, <2>3
    <3>2. Cardinality(RowsDue(t) \cup {r}) = Cardinality(RowsDue(t)) + 1 BY <1>8, <2>1, FS_AddElement
    <3>3. Cardinality(RowsDue(s) \cup {r}) = Cardinality(RowsDue(s)) + 1 BY <1>7, <2>1, FS_AddElement
    <3> QED BY <1>1, <2>1, <2>2, <3>1, <3>2, <3>3
  <2>4. CASE ~e.valid BY <1>4, <2>2, <2>4
  <2> QED BY <2>3, <2>4
<1>17. SavedInOrder(w, a, b, lost) BY <1>12, <1>13, <1>14, <1>15, <1>16 DEF SavedInOrder
<1>18. KindInv(w, a, b, lost) BY <1>1, <1>2, <1>3, <1>9, <1>11, <1>17 DEF KindInv
<1> QED BY <1>18 DEF a, b

\* A proof that cannot be converted is skipped.
LEMMA KindSkips ==
    ASSUME NEW w, NEW t, NEW s, NEW lost, KindInv(w, t, s, lost), t # << >>, ~t[1].valid
    PROVE  KindInv(w, Tail(t), s, lost)
<1> DEFINE a == Tail(t)
<1>1. /\ w \in Seq(VoteRow) /\ t \in Seq(VoteEvent) /\ s \in Seq(VoteEvent) /\ lost \in Nat
      /\ \A i \in DOMAIN s : s[i].timestamp <= Len(s)
      /\ \A i \in DOMAIN t : t[i].timestamp <= Len(s)
      /\ SavedInOrder(w, t, s, lost)
  BY DEF KindInv
<1>2. /\ a \in Seq(VoteEvent) /\ RowsDue(a) = RowsDue(t)
      /\ \A i \in DOMAIN a : i + 1 \in DOMAIN t /\ i \in Nat /\ a[i] = t[i + 1]
  BY <1>1, RowsDueHead
<1> HIDE DEF a
<1>3. \A i \in DOMAIN a : a[i].timestamp <= Len(s) BY <1>1, <1>2
<1>4. \A i \in DOMAIN w, j \in DOMAIN a : w[i].timestamp <= a[j].timestamp BY <1>1, <1>2 DEF SavedInOrder
<1>5. \A i, j \in DOMAIN a : i < j => a[i].timestamp < a[j].timestamp
  <2> SUFFICES ASSUME NEW i \in DOMAIN a, NEW j \in DOMAIN a, i < j PROVE a[i].timestamp < a[j].timestamp OBVIOUS
  <2>1. i + 1 < j + 1 BY <1>2
  <2> QED BY <1>1, <1>2, <2>1 DEF SavedInOrder
<1>6. SavedInOrder(w, a, s, lost) BY <1>1, <1>2, <1>4, <1>5 DEF SavedInOrder
<1>7. KindInv(w, a, s, lost) BY <1>1, <1>2, <1>3, <1>6 DEF KindInv
<1> QED BY <1>7 DEF a

\* The event in hand is saved, and let go of or, when the answer is lost, kept.
LEMMA KindSaves ==
    ASSUME NEW w, NEW t, NEW s, NEW lost, KindInv(w, t, s, lost), t # << >>, t[1].valid
    PROVE  /\ KindInv(Append(w, ConvertEvent(t[1])), Tail(t), s, lost)
           /\ KindInv(Append(w, ConvertEvent(t[1])), t, s, lost + 1)
<1> DEFINE a == Tail(t)
           r == ConvertEvent(t[1])
           v == Append(w, r)
<1>1. /\ w \in Seq(VoteRow) /\ t \in Seq(VoteEvent) /\ s \in Seq(VoteEvent) /\ lost \in Nat
      /\ Len(w) \in Nat /\ Len(t) \in Nat /\ Len(s) \in Nat
      /\ DOMAIN w = 1 .. Len(w) /\ DOMAIN t = 1 .. Len(t) /\ DOMAIN s = 1 .. Len(s)
      /\ \A i \in DOMAIN t : t[i].timestamp \in Nat /\ t[i].timestamp <= Len(s)
      /\ \A x \in RowsDue(s) : x.timestamp \in Nat /\ x.timestamp <= Len(s)
      /\ \A i \in DOMAIN w : w[i] \in RowsDue(s)
  BY KindTimestamps
<1>2. SavedInOrder(w, t, s, lost) /\ \A i \in DOMAIN s : s[i].timestamp <= Len(s) BY DEF KindInv
<1>3. /\ a \in Seq(VoteEvent) /\ RowsDue(t) = RowsDue(a) \cup {r} /\ t[1] \in VoteEvent /\ Len(t) \in Nat \ {0}
      /\ \A i \in DOMAIN a : i + 1 \in DOMAIN t /\ i \in Nat \ {0} /\ a[i] = t[i + 1]
  BY <1>1, RowsDueHead
<1>4. r \in VoteRow /\ r.timestamp = t[1].timestamp BY <1>3, RowTimestamp DEF VoteRow
<1> HIDE DEF a, r
<1>5. /\ v \in Seq(VoteRow) /\ DOMAIN v = 1 .. (Len(w) + 1) /\ Len(v) = Len(w) + 1
      /\ v[Len(w) + 1] = r /\ \A i \in 1 .. Len(w) : v[i] = w[i]
  BY <1>1, <1>4
<1> HIDE DEF v
<1>6. 1 \in DOMAIN t BY <1>1, <1>3
<1>7. \A i \in DOMAIN v : (i = Len(w) + 1 /\ v[i] = r) \/ (i \in DOMAIN w /\ v[i] = w[i]) BY <1>1, <1>5
<1>8. Range(v) = Range(w) \cup {r}
  <2>1. Range(v) \subseteq Range(w) \cup {r} BY <1>7 DEF Range
  <2>2. ASSUME NEW x \in Range(w) PROVE x \in Range(v)
    <3>1. PICK i \in DOMAIN w : x = w[i] BY DEF Range
    <3>2. i \in DOMAIN v /\ v[i] = x BY <1>1, <1>5, <3>1
    <3> QED BY <3>2 DEF Range
  <2>3. r \in Range(v)
    <3>1. Len(w) + 1 \in DOMAIN v BY <1>1, <1>5
    <3> QED BY <1>5, <3>1 DEF Range
  <2> QED BY <2>1, <2>2, <2>3
<1>9. \A i \in DOMAIN a : a[i].timestamp <= Len(s) BY <1>1, <1>3
<1>10. \A i, j \in DOMAIN v : i < j => v[i].timestamp <= v[j].timestamp
  <2> SUFFICES ASSUME NEW i \in DOMAIN v, NEW j \in DOMAIN v, i < j PROVE v[i].timestamp <= v[j].timestamp OBVIOUS
  <2>1. i # Len(w) + 1 BY <1>1, <1>5
  <2>2. i \in DOMAIN w /\ v[i] = w[i] BY <1>7, <2>1
  <2>3. CASE j = Len(w) + 1
    <3>1. w[i].timestamp <= t[1].timestamp BY <1>2, <1>6, <2>2 DEF SavedInOrder
    <3> QED BY <1>4, <1>5, <2>2, <2>3, <3>1
  <2>4. CASE j # Len(w) + 1
    <3>1. j \in DOMAIN w /\ v[j] = w[j] BY <1>7, <2>4
    <3> QED BY <1>2, <2>2, <3>1 DEF SavedInOrder
  <2> QED BY <2>3, <2>4
<1>11. \A i \in DOMAIN v, j \in DOMAIN t : v[i].timestamp <= t[j].timestamp
  <2> SUFFICES ASSUME NEW i \in DOMAIN v, NEW j \in DOMAIN t PROVE v[i].timestamp <= t[j].timestamp OBVIOUS
  <2>1. CASE i = Len(w) + 1 /\ v[i] = r
    <3>1. t[j].timestamp \in Nat BY <1>1
    <3>2. CASE j = 1 BY <1>4, <2>1, <3>1, <3>2
    <3>3. CASE j # 1
      <4>1. 1 < j BY <1>1, <3>3
      <4>2. t[1].timestamp < t[j].timestamp BY <1>2, <1>6, <4>1 DEF SavedInOrder
      <4>3. t[1].timestamp \in Nat BY <1>1, <1>6
      <4> QED BY <1>4, <2>1, <3>1, <4>2, <4>3
    <3> QED BY <3>2, <3>3
  <2>2. CASE i \in DOMAIN w /\ v[i] = w[i] BY <1>2, <2>2 DEF SavedInOrder
  <2> QED BY <1>7, <2>1, <2>2
<1>12. \A i \in DOMAIN v, j \in DOMAIN a : v[i].timestamp <= a[j].timestamp BY <1>3, <1>11
<1>13. \A i, j \in DOMAIN a : i < j => a[i].timestamp < a[j].timestamp
  <2> SUFFICES ASSUME NEW i \in DOMAIN a, NEW j \in DOMAIN a, i < j PROVE a[i].timestamp < a[j].timestamp OBVIOUS
  <2>1. i + 1 < j + 1 BY <1>3
  <2> QED BY <1>2, <1>3, <2>1 DEF SavedInOrder
<1>14. r \notin RowsDue(a)
  <2> SUFFICES ASSUME r \in RowsDue(a) PROVE FALSE OBVIOUS
  <2>1. PICK i \in DOMAIN a : r.timestamp = a[i].timestamp BY <1>3, RowsDueFinite
  <2>2. i + 1 \in DOMAIN t /\ 1 < i + 1 /\ a[i] = t[i + 1] BY <1>3
  <2>3. t[1].timestamp < t[i + 1].timestamp BY <1>2, <1>6, <2>2 DEF SavedInOrder
  <2>4. t[1].timestamp \in Nat BY <1>1, <1>6
  <2> QED BY <1>4, <2>1, <2>2, <2>3, <2>4
<1>15. /\ IsFiniteSet(RowsDue(a)) /\ Cardinality(RowsDue(a)) \in Nat
       /\ Cardinality(RowsDue(s)) \in Nat /\ Cardinality(RowsDue(t)) \in Nat
  BY <1>1, <1>3, RowsDueFinite
<1>16. Cardinality(RowsDue(t)) = Cardinality(RowsDue(a)) + 1
  <2>1. Cardinality(RowsDue(a) \cup {r}) = Cardinality(RowsDue(a)) + 1 BY <1>14, <1>15, FS_AddElement
  <2> QED BY <1>3, <2>1
<1>17. Len(w) + Cardinality(RowsDue(t)) <= Cardinality(RowsDue(s)) + lost BY <1>2 DEF SavedInOrder
<1>18. Len(v) + Cardinality(RowsDue(a)) <= Cardinality(RowsDue(s)) + lost BY <1>1, <1>5, <1>15, <1>16, <1>17
<1>19. Len(v) + Cardinality(RowsDue(t)) <= Cardinality(RowsDue(s)) + (lost + 1) BY <1>1, <1>5, <1>15, <1>17
<1>20. Range(w) \cup RowsDue(t) = RowsDue(s) BY <1>2 DEF SavedInOrder
<1>21. Range(v) \cup RowsDue(a) = RowsDue(s) /\ Range(v) \cup RowsDue(t) = RowsDue(s) BY <1>3, <1>8, <1>20
<1>22. \A i, j \in DOMAIN t : i < j => t[i].timestamp < t[j].timestamp BY <1>2 DEF SavedInOrder
<1>23. SavedInOrder(v, a, s, lost) BY <1>10, <1>12, <1>13, <1>18, <1>21 DEF SavedInOrder
<1>24. SavedInOrder(v, t, s, lost + 1) BY <1>10, <1>11, <1>19, <1>21, <1>22 DEF SavedInOrder
<1>25. KindInv(v, a, s, lost) BY <1>1, <1>2, <1>3, <1>5, <1>9, <1>23 DEF KindInv
<1>26. lost + 1 \in Nat /\ \A i \in DOMAIN t : t[i].timestamp <= Len(s) BY <1>1
<1>27. KindInv(v, t, s, lost + 1) BY <1>1, <1>2, <1>5, <1>24, <1>26 DEF KindInv
<1> QED BY <1>25, <1>27 DEF a, r, v

\* An answer lost for another kind changes nothing for this one.
LEMMA KindStays ==
    ASSUME NEW w, NEW t, NEW s, NEW lost, KindInv(w, t, s, lost)
    PROVE  KindInv(w, t, s, lost + 1)
<1>1. /\ w \in Seq(VoteRow) /\ t \in Seq(VoteEvent) /\ s \in Seq(VoteEvent) /\ lost \in Nat
      /\ \A i \in DOMAIN s : s[i].timestamp <= Len(s)
      /\ \A i \in DOMAIN t : t[i].timestamp <= Len(s)
      /\ SavedInOrder(w, t, s, lost)
  BY DEF KindInv
<1>2. Cardinality(RowsDue(t)) \in Nat /\ Cardinality(RowsDue(s)) \in Nat /\ Len(w) \in Nat BY <1>1, RowsDueFinite
<1>3. Len(w) + Cardinality(RowsDue(t)) <= Cardinality(RowsDue(s)) + lost BY <1>1 DEF SavedInOrder
<1>4. Len(w) + Cardinality(RowsDue(t)) <= Cardinality(RowsDue(s)) + (lost + 1) BY <1>1, <1>2, <1>3
<1>5. SavedInOrder(w, t, s, lost + 1) BY <1>1, <1>4 DEF SavedInOrder
<1>6. lost + 1 \in Nat BY <1>1
<1> QED BY <1>1, <1>5, <1>6 DEF KindInv

\* The events, the tables and the channels are what their types say, and every
\* kind is saved in order.
VoteInv ==
  /\ round \in 1 .. MaxRound
  /\ tallies \in [1 .. MaxRound -> [VotedHashes -> SUBSET Voters]]
  /\ voteQueues \in [VoteKinds -> Seq(VoteEvent)]
  /\ \A k \in VoteKinds : Len(voteQueues[k]) <= QueueCapacity[k]
  /\ \/ tracked = << >>
     \/ \E k \in VoteKinds, e \in VoteEvent : tracked = <<[kind |-> k, event |-> e]>>
  /\ voteRows \in [VoteKinds -> Seq(VoteRow)]
  /\ accepted \in [VoteKinds -> Seq(VoteEvent)]
  /\ moved \in [VoteKinds -> Nat] /\ deleted \in [VoteKinds -> Nat]
  /\ \A k \in VoteKinds : deleted[k] <= moved[k] /\ moved[k] <= Len(voteRows[k])
  /\ lostAnswers \in 0 .. MaxLostAnswers
  /\ \A k \in VoteKinds : KindInv(voteRows[k], Unsaved(k), accepted[k], lostAnswers)

\* A sequence is its head and its tail, and one event in front of a queue moves
\* neither the end of the queue nor anything in it.
LEMMA InFront ==
    ASSUME NEW q \in Seq(VoteEvent), NEW e \in VoteEvent, NEW x \in VoteEvent
    PROVE  /\ << >> \o q = q
           /\ q # << >> => <<Head(q)>> \o Tail(q) = q
           /\ <<x>> \o q # << >> /\ (<<x>> \o q)[1] = x /\ Tail(<<x>> \o q) = q
           /\ <<x>> \o Append(q, e) = Append(<<x>> \o q, e)
<1>1. << >> \o q = q OBVIOUS
<1>2. q # << >> => <<Head(q)>> \o Tail(q) = q OBVIOUS
<1>3. <<x>> \o q # << >> /\ (<<x>> \o q)[1] = x OBVIOUS
<1>4. Tail(<<x>> \o q) = q OBVIOUS
<1>5. <<x>> \o Append(q, e) = Append(<<x>> \o q, e) OBVIOUS
<1> QED BY <1>1, <1>2, <1>3, <1>4, <1>5

\* What waits of a kind, as Unsaved says it of the state.
InHand(hand, q, k) ==
  (IF hand # << >> /\ hand[1].kind = k THEN <<hand[1].event>> ELSE << >>) \o q

\* It is the queue when nothing is in hand,
LEMMA NoneInHand == ASSUME NEW k, NEW q \in Seq(VoteEvent) PROVE InHand(<< >>, q, k) = q
<1>1. << >> \o q = q OBVIOUS
<1> QED BY <1>1 DEF InHand

\* and when the event in hand is of another kind,
LEMMA OtherInHand ==
    ASSUME NEW k, NEW q \in Seq(VoteEvent), NEW h, h[1].kind # k
    PROVE  InHand(h, q, k) = q
<1>1. << >> \o q = q OBVIOUS
<1> QED BY <1>1 DEF InHand

\* and the queue behind the event in hand otherwise.
LEMMA OneInHand ==
    ASSUME NEW k, NEW q \in Seq(VoteEvent), NEW e, NEW h, h = <<[kind |-> k, event |-> e]>>
    PROVE  InHand(h, q, k) = <<e>> \o q
<1>1. h # << >> /\ h[1].kind = k /\ h[1].event = e OBVIOUS
<1> QED BY <1>1 DEF InHand

\* The votes of a record are replaced.
LEMMA OtherVotes ==
    ASSUME NEW a, NEW b, NEW c, NEW d, NEW x
    PROVE  [[timestamp |-> a, round |-> b, votes |-> c, valid |-> d] EXCEPT !.votes = x]
             = [timestamp |-> a, round |-> b, votes |-> x, valid |-> d]
OBVIOUS

\* At the start nothing waits.
LEMMA InitVoteInv == VoteInit => VoteInv
<1> SUFFICES ASSUME VoteInit PROVE VoteInv OBVIOUS
<1> DEFINE row == [timestamp |-> 1, round |-> 1, votes |-> {}, valid |-> TRUE]
           ev == [timestamp |-> 1, round |-> 1, votes |-> NoVotes, valid |-> TRUE]
<1>1. NoVotes \in [VotedHashes -> SUBSET Voters] BY DEF NoVotes
<1>2. ev \in VoteEvent BY <1>1 DEF VoteEvent
<1>3. ConvertEvent(ev) = row
  <2>1. Listed(NoVotes) = {} BY DEF Listed, NoVotes
  <2>2. ev.votes = NoVotes OBVIOUS
  <2>3. ConvertEvent(ev) = [ev EXCEPT !.votes = {}] BY <2>1, <2>2 DEF ConvertEvent
  <2>4. [ev EXCEPT !.votes = {}] = row BY OtherVotes
  <2> QED BY <2>3, <2>4
<1>4. row \in VoteRow BY <1>2, <1>3 DEF VoteRow
<1>5. PICK old \in {<< >>, <<row>>} :
        /\ voteRows = [k \in VoteKinds |-> IF k = "result" THEN old ELSE << >>]
        /\ moved = [k \in VoteKinds |-> Len(voteRows[k])]
        /\ accepted = [k \in VoteKinds |->
                        [i \in DOMAIN voteRows[k] |-> [voteRows[k][i] EXCEPT !.votes = NoVotes]]]
  BY DEF VoteInit
<1>6. ASSUME NEW k \in VoteKinds
      PROVE  \/ voteRows[k] = << >> /\ accepted[k] = << >>
             \/ voteRows[k] = <<row>> /\ accepted[k] = <<ev>>
  <2>1. accepted[k] = [i \in DOMAIN voteRows[k] |-> [voteRows[k][i] EXCEPT !.votes = NoVotes]] BY <1>5
  <2>2. voteRows[k] = << >> \/ voteRows[k] = <<row>> BY <1>5
  <2>3. CASE voteRows[k] = << >> BY <2>1, <2>3
  <2>4. CASE voteRows[k] = <<row>>
    <3>1. DOMAIN voteRows[k] = 1 .. 1 /\ voteRows[k][1] = row BY <2>4
    <3>2. [row EXCEPT !.votes = NoVotes] = ev BY OtherVotes
    <3> HIDE DEF ev, row
    <3>3. accepted[k] = [i \in 1 .. 1 |-> ev] BY <2>1, <3>1, <3>2
    <3>4. <<ev>> = [i \in 1 .. 1 |-> ev] OBVIOUS
    <3> QED BY <2>4, <3>3, <3>4
  <2> QED BY <2>2, <2>3, <2>4
<1> HIDE DEF row, ev
<1>7. /\ tracked = << >> /\ voteQueues = [k \in VoteKinds |-> << >>] /\ lostAnswers = 0
      /\ deleted = [k \in VoteKinds |-> 0] /\ round = 1 /\ tallies = [r \in 1 .. MaxRound |-> NoVotes]
  BY DEF VoteInit
<1>8. ASSUME NEW k \in VoteKinds PROVE KindInv(voteRows[k], << >>, accepted[k], 0)
  <2>1. RowsDue(<< >>) = {} BY DEF RowsDue, Range
  <2>2. Cardinality({}) = 0 BY FS_EmptySet
  <2>3. CASE voteRows[k] = << >> /\ accepted[k] = << >>
    <3>1. Range(<< >>) = {} BY DEF Range
    <3>2. DOMAIN << >> = {} /\ Len(<< >>) = 0 OBVIOUS
    <3>3. Len(<< >>) + Cardinality(RowsDue(<< >>)) <= Cardinality(RowsDue(<< >>)) + 0
      <4>1. Cardinality(RowsDue(<< >>)) = 0 BY <2>1, <2>2
      <4>2. PICK c : c = Cardinality(RowsDue(<< >>)) OBVIOUS
      <4>3. PICK m : m = Len(<< >>) OBVIOUS
      <4>4. m + c <= c + 0 BY <3>2, <4>1, <4>2, <4>3
      <4> QED BY <4>2, <4>3, <4>4
    <3>4. SavedInOrder(<< >>, << >>, << >>, 0) BY <2>1, <3>1, <3>2, <3>3 DEF SavedInOrder
    <3> QED BY <2>3, <3>4 DEF KindInv
  <2>4. CASE voteRows[k] = <<row>> /\ accepted[k] = <<ev>>
    <3>1. <<ev>> \in Seq(VoteEvent) /\ DOMAIN <<ev>> = {1} /\ <<ev>>[1] = ev /\ Len(<<ev>>) = 1 BY <1>2
    <3>2. <<row>> \in Seq(VoteRow) /\ DOMAIN <<row>> = {1} /\ <<row>>[1] = row /\ Len(<<row>>) = 1 BY <1>4
    <3>3. ev.timestamp = 1 /\ ev.valid /\ row.timestamp = 1 BY DEF ev, row
    <3>4. RowsDue(<<ev>>) = {row} BY <1>3, <3>1, <3>3, RowsDueAre
    <3>5. Range(<<row>>) = {row} BY <3>2 DEF Range
    <3>6. Cardinality({row}) = 1 BY FS_Singleton
    <3>7. SavedInOrder(<<row>>, << >>, <<ev>>, 0)
      <4>1. Range(<<row>>) \cup RowsDue(<< >>) = RowsDue(<<ev>>) BY <2>1, <3>4, <3>5
      <4>2. \A i, j \in DOMAIN <<row>> : i < j => <<row>>[i].timestamp <= <<row>>[j].timestamp BY <3>2
      <4>3. DOMAIN << >> = {} OBVIOUS
      <4>4. Len(<<row>>) + Cardinality(RowsDue(<< >>)) <= Cardinality(RowsDue(<<ev>>)) + 0
        <5>1. Cardinality(RowsDue(<< >>)) = 0 /\ Cardinality(RowsDue(<<ev>>)) = 1 BY <2>1, <2>2, <3>4, <3>6
        <5>2. PICK c : c = Cardinality(RowsDue(<< >>)) OBVIOUS
        <5>3. PICK m : m = Len(<<row>>) OBVIOUS
        <5>4. PICK d : d = Cardinality(RowsDue(<<ev>>)) OBVIOUS
        <5>5. m = 1 /\ c = 0 /\ d = 1 BY <3>2, <5>1, <5>2, <5>3, <5>4
        <5>6. m + c <= d + 0 BY <5>5
        <5> QED BY <5>2, <5>3, <5>4, <5>6
      <4> QED BY <4>1, <4>2, <4>3, <4>4 DEF SavedInOrder
    <3>8. \A i \in DOMAIN <<ev>> : <<ev>>[i].timestamp <= Len(<<ev>>) BY <3>1, <3>3
    <3>9. KindInv(<<row>>, << >>, <<ev>>, 0) BY <3>1, <3>2, <3>7, <3>8 DEF KindInv
    <3> QED BY <2>4, <3>9
  <2> QED BY <1>6, <2>3, <2>4
<1>9. ASSUME NEW k \in VoteKinds PROVE Unsaved(k) = << >>
  <2>1. voteQueues[k] = << >> BY <1>7
  <2>2. << >> \o << >> = << >> OBVIOUS
  <2> QED BY <1>7, <2>1, <2>2 DEF Unsaved
<1>10. \A k \in VoteKinds : KindInv(voteRows[k], Unsaved(k), accepted[k], lostAnswers) BY <1>7, <1>8, <1>9
<1>11. \A k \in VoteKinds : voteRows[k] \in Seq(VoteRow) /\ accepted[k] \in Seq(VoteEvent) BY <1>8 DEF KindInv
<1>12. voteRows \in [VoteKinds -> Seq(VoteRow)] /\ accepted \in [VoteKinds -> Seq(VoteEvent)] BY <1>5, <1>11
<1>13. \A k \in VoteKinds : Len(voteRows[k]) \in Nat BY <1>11
<1>14. moved \in [VoteKinds -> Nat] /\ \A k \in VoteKinds : deleted[k] <= moved[k] /\ moved[k] <= Len(voteRows[k])
  BY <1>5, <1>7, <1>13
<1>15. /\ voteQueues \in [VoteKinds -> Seq(VoteEvent)] /\ deleted \in [VoteKinds -> Nat]
       /\ \A k \in VoteKinds : Len(voteQueues[k]) <= QueueCapacity[k]
  BY <1>7, VoteCountingAssumption
<1>16. /\ round \in 1 .. MaxRound /\ lostAnswers \in 0 .. MaxLostAnswers
       /\ tallies \in [1 .. MaxRound -> [VotedHashes -> SUBSET Voters]]
  BY <1>1, <1>7, VoteCountingAssumption
<1> QED BY <1>7, <1>10, <1>12, <1>14, <1>15, <1>16 DEF VoteInv

\* A kind whose rows, queue and events stay as they are keeps its invariant,
\* whatever else is in hand.
LEMMA OtherKind ==
    ASSUME VoteInv, NEW j \in VoteKinds,
           voteRows'[j] = voteRows[j], accepted'[j] = accepted[j], Unsaved(j)' = Unsaved(j),
           lostAnswers' = lostAnswers \/ lostAnswers' = lostAnswers + 1
    PROVE  KindInv(voteRows'[j], Unsaved(j)', accepted'[j], lostAnswers')
<1>1. KindInv(voteRows[j], Unsaved(j), accepted[j], lostAnswers) BY DEF VoteInv
<1>2. KindInv(voteRows[j], Unsaved(j), accepted[j], lostAnswers + 1) BY <1>1, KindStays
<1> QED BY <1>1, <1>2

\* The node's own steps change what it counts and nothing else.
LEMMA NodeVoteInv ==
    ASSUME VoteInv, round' \in 1 .. MaxRound,
           tallies' \in [1 .. MaxRound -> [VotedHashes -> SUBSET Voters]],
           UNCHANGED <<voteQueues, tracked, voteRows, moved, deleted, lostAnswers, accepted>>
    PROVE  VoteInv'
<1>1. ASSUME NEW k \in VoteKinds PROVE KindInv(voteRows'[k], Unsaved(k)', accepted'[k], lostAnswers')
  <2>1. Unsaved(k)' = Unsaved(k) BY DEF Unsaved
  <2> QED BY <2>1, OtherKind
<1> QED BY <1>1 DEF VoteInv

\* An event submitted is dropped or waits last.
LEMMA SubmitVoteInv ==
    ASSUME VoteInv, NEW k \in VoteKinds, NEW votes \in [VotedHashes -> SUBSET Voters], NEW valid \in BOOLEAN,
           Submit(k, votes, valid)
    PROVE  VoteInv'
<1> DEFINE e == [timestamp |-> Len(accepted[k]) + 1, round |-> round, votes |-> votes, valid |-> valid]
<1>1. /\ voteQueues' = [voteQueues EXCEPT ![k] = IF Len(@) < QueueCapacity[k] THEN Append(@, e) ELSE @]
      /\ accepted' = IF Len(voteQueues[k]) < QueueCapacity[k] THEN [accepted EXCEPT ![k] = Append(@, e)] ELSE accepted
      /\ UNCHANGED <<round, tallies, tracked, voteRows, moved, deleted, lostAnswers>>
  BY DEF Submit, Enqueue
<1>2. /\ voteQueues \in [VoteKinds -> Seq(VoteEvent)] /\ accepted \in [VoteKinds -> Seq(VoteEvent)]
      /\ round \in 1 .. MaxRound /\ QueueCapacity[k] \in Nat /\ MaxRound \in Nat
      /\ \A j \in VoteKinds : Len(voteQueues[j]) <= QueueCapacity[j]
  BY VoteCountingAssumption DEF VoteInv
<1>3. voteQueues[k] \in Seq(VoteEvent) /\ accepted[k] \in Seq(VoteEvent) BY <1>2
<1>4. Len(accepted[k]) \in Nat /\ Len(voteQueues[k]) \in Nat BY <1>3
<1>5. e \in VoteEvent /\ e.timestamp = Len(accepted[k]) + 1 BY <1>2, <1>4 DEF VoteEvent
<1> HIDE DEF e
<1>6. CASE ~(Len(voteQueues[k]) < QueueCapacity[k])
  <2>1. voteQueues' = voteQueues /\ accepted' = accepted BY <1>1, <1>2, <1>6
  <2> QED BY <1>1, <2>1, NodeVoteInv DEF VoteInv
<1>7. CASE Len(voteQueues[k]) < QueueCapacity[k]
  <2>1. /\ voteQueues' = [voteQueues EXCEPT ![k] = Append(@, e)] /\ accepted' = [accepted EXCEPT ![k] = Append(@, e)]
    BY <1>1, <1>7
  <2>2. /\ voteQueues'[k] = Append(voteQueues[k], e) /\ accepted'[k] = Append(accepted[k], e)
        /\ \A j \in VoteKinds \ {k} : voteQueues'[j] = voteQueues[j] /\ accepted'[j] = accepted[j]
    BY <1>2, <2>1
  <2>3. /\ Append(voteQueues[k], e) \in Seq(VoteEvent) /\ Append(accepted[k], e) \in Seq(VoteEvent)
        /\ Len(Append(voteQueues[k], e)) = Len(voteQueues[k]) + 1
    BY <1>3, <1>5
  <2>4. voteQueues' \in [VoteKinds -> Seq(VoteEvent)] /\ accepted' \in [VoteKinds -> Seq(VoteEvent)]
    BY <1>2, <2>1, <2>3
  <2>5. \A j \in VoteKinds : Len(voteQueues'[j]) <= QueueCapacity[j]
    <3> SUFFICES ASSUME NEW j \in VoteKinds PROVE Len(voteQueues'[j]) <= QueueCapacity[j] OBVIOUS
    <3>1. CASE j = k BY <1>2, <1>4, <1>7, <2>2, <2>3, <3>1
    <3>2. CASE j # k BY <1>2, <2>2, <3>2
    <3> QED BY <3>1, <3>2
  <2>6. Unsaved(k)' = Append(Unsaved(k), e)
    <3>1. Unsaved(k) = InHand(tracked, voteQueues[k], k) /\ Unsaved(k)' = InHand(tracked, Append(voteQueues[k], e), k)
      BY <1>1, <2>2 DEF Unsaved, InHand
    <3>2. CASE tracked = << >>
      <4>1. InHand(<< >>, voteQueues[k], k) = voteQueues[k] BY <1>3, NoneInHand
      <4>2. InHand(<< >>, Append(voteQueues[k], e), k) = Append(voteQueues[k], e) BY <2>3, NoneInHand
      <4> QED BY <3>1, <3>2, <4>1, <4>2
    <3>3. ASSUME NEW j \in VoteKinds, NEW x \in VoteEvent, tracked = <<[kind |-> j, event |-> x]>>
          PROVE  Unsaved(k)' = Append(Unsaved(k), e)
      <4>1. CASE j = k
        <5>0. tracked = <<[kind |-> k, event |-> x]>> BY <3>3, <4>1
        <5>1. InHand(tracked, voteQueues[k], k) = <<x>> \o voteQueues[k] BY <1>3, <5>0, OneInHand
        <5>3. InHand(tracked, Append(voteQueues[k], e), k) = <<x>> \o Append(voteQueues[k], e) BY <2>3, <5>0, OneInHand
        <5>2. <<x>> \o Append(voteQueues[k], e) = Append(<<x>> \o voteQueues[k], e) BY <1>3, <1>5, InFront
        <5> QED BY <3>1, <5>1, <5>2, <5>3
      <4>2. CASE j # k
        <5>0. tracked[1].kind # k BY <3>3, <4>2
        <5>1. InHand(tracked, voteQueues[k], k) = voteQueues[k] BY <1>3, <5>0, OtherInHand
        <5>2. InHand(tracked, Append(voteQueues[k], e), k) = Append(voteQueues[k], e) BY <2>3, <5>0, OtherInHand
        <5> QED BY <3>1, <5>1, <5>2
      <4> QED BY <4>1, <4>2
    <3> QED BY <3>2, <3>3 DEF VoteInv
  <2>7. KindInv(voteRows'[k], Unsaved(k)', accepted'[k], lostAnswers')
    <3>1. KindInv(voteRows[k], Unsaved(k), accepted[k], lostAnswers) BY DEF VoteInv
    <3>2. KindInv(voteRows[k], Append(Unsaved(k), e), Append(accepted[k], e), lostAnswers) BY <1>5, <3>1, KindTakes
    <3> QED BY <1>1, <2>2, <2>6, <3>2
  <2>8. ASSUME NEW j \in VoteKinds PROVE KindInv(voteRows'[j], Unsaved(j)', accepted'[j], lostAnswers')
    <3>1. CASE j = k BY <2>7, <3>1
    <3>2. CASE j # k
      <4>1. voteQueues'[j] = voteQueues[j] /\ accepted'[j] = accepted[j] BY <2>2, <3>2
      <4>2. Unsaved(j)' = Unsaved(j) BY <1>1, <4>1 DEF Unsaved
      <4> QED BY <1>1, <4>1, <4>2, OtherKind
    <3> QED BY <3>1, <3>2
  <2> QED BY <1>1, <2>4, <2>5, <2>8 DEF VoteInv
<1> QED BY <1>6, <1>7

\* The worker takes the first event of a channel in hand, or skips a proof that
\* cannot be converted.
LEMMA TakeVoteInv ==
    ASSUME VoteInv, NEW k \in VoteKinds, tracked = << >>, voteQueues[k] # << >>,
           \/ tracked' = <<[kind |-> k, event |-> Head(voteQueues[k])]>>
           \/ tracked' = << >> /\ ~Head(voteQueues[k]).valid,
           voteQueues' = [voteQueues EXCEPT ![k] = Tail(@)],
           UNCHANGED <<round, tallies, voteRows, moved, deleted, lostAnswers, accepted>>
    PROVE  VoteInv'
<1> DEFINE q == voteQueues[k]
           e == Head(q)
<1>1. /\ voteQueues \in [VoteKinds -> Seq(VoteEvent)] /\ QueueCapacity[k] \in Nat
      /\ \A j \in VoteKinds : Len(voteQueues[j]) <= QueueCapacity[j]
  BY VoteCountingAssumption DEF VoteInv
<1>2. q \in Seq(VoteEvent) /\ q # << >> BY <1>1
<1>3. voteQueues'[k] = Tail(q) /\ \A j \in VoteKinds \ {k} : voteQueues'[j] = voteQueues[j] BY <1>1
<1> HIDE DEF q
<1>4. /\ Tail(q) \in Seq(VoteEvent) /\ q[1] \in VoteEvent /\ e = q[1]
      /\ Len(Tail(q)) = Len(q) - 1 /\ Len(q) \in Nat \ {0}
  BY <1>2, RowsDueHead
<1>5. voteQueues' \in [VoteKinds -> Seq(VoteEvent)] BY <1>1, <1>4 DEF q
<1>6. \A j \in VoteKinds : Len(voteQueues'[j]) <= QueueCapacity[j]
  <2> SUFFICES ASSUME NEW j \in VoteKinds PROVE Len(voteQueues'[j]) <= QueueCapacity[j] OBVIOUS
  <2>1. CASE j = k
    <3>1. Len(q) <= QueueCapacity[k] BY <1>1 DEF q
    <3> QED BY <1>1, <1>3, <1>4, <2>1, <3>1
  <2>2. CASE j # k BY <1>1, <1>3, <2>2
  <2> QED BY <2>1, <2>2
<1>7. tracked' = <<[kind |-> k, event |-> e]>> \/ (tracked' = << >> /\ ~e.valid) BY DEF q
<1> HIDE DEF e
<1>8. Unsaved(k) = q
  <2>1. Unsaved(k) = InHand(<< >>, q, k) BY DEF Unsaved, InHand, q
  <2> QED BY <1>2, <2>1, NoneInHand
<1>9. KindInv(voteRows[k], q, accepted[k], lostAnswers) BY <1>8 DEF VoteInv
<1>10. KindInv(voteRows'[k], Unsaved(k)', accepted'[k], lostAnswers')
  <2>1. Unsaved(k)' = InHand(tracked', Tail(q), k) BY <1>3 DEF Unsaved, InHand
  <2>2. CASE tracked' = <<[kind |-> k, event |-> e]>>
    <3>1. Unsaved(k)' = <<e>> \o Tail(q) BY <1>4, <2>1, <2>2, OneInHand
    <3>2. <<Head(q)>> \o Tail(q) = q BY <1>2, <1>4, InFront
    <3> QED BY <1>9, <3>1, <3>2 DEF e
  <2>3. CASE tracked' = << >> /\ ~e.valid
    <3>1. Unsaved(k)' = Tail(q) BY <1>4, <2>1, <2>3, NoneInHand
    <3>2. KindInv(voteRows[k], Tail(q), accepted[k], lostAnswers) BY <1>2, <1>4, <1>9, <2>3, KindSkips
    <3> QED BY <3>1, <3>2
  <2> QED BY <1>7, <2>2, <2>3
<1>11. ASSUME NEW j \in VoteKinds PROVE KindInv(voteRows'[j], Unsaved(j)', accepted'[j], lostAnswers')
  <2>1. CASE j = k BY <1>10, <2>1
  <2>2. CASE j # k
    <3>1. voteQueues'[j] = voteQueues[j] /\ voteQueues[j] \in Seq(VoteEvent) BY <1>1, <1>3, <2>2
    <3>2. Unsaved(j) = InHand(<< >>, voteQueues[j], j) /\ Unsaved(j)' = InHand(tracked', voteQueues[j], j)
      BY <3>1 DEF Unsaved, InHand
    <3>3. InHand(<< >>, voteQueues[j], j) = voteQueues[j] BY <3>1, NoneInHand
    <3>4. ASSUME tracked' = <<[kind |-> k, event |-> e]>> PROVE InHand(tracked', voteQueues[j], j) = voteQueues[j]
      <4>1. tracked'[1].kind # j BY <2>2, <3>4
      <4> QED BY <3>1, <4>1, OtherInHand
    <3>5. Unsaved(j)' = Unsaved(j) BY <1>7, <3>2, <3>3, <3>4
    <3> QED BY <3>5, OtherKind
  <2> QED BY <2>1, <2>2
<1>12. tracked' = << >> \/ \E j \in VoteKinds, x \in VoteEvent : tracked' = <<[kind |-> j, event |-> x]>> BY <1>4, <1>7
<1> QED BY <1>5, <1>6, <1>11, <1>12 DEF VoteInv

\* A save puts the row of the event in hand last; the event is let go of, or
\* the answer is lost and the event stays.
LEMMA SaveVoteInv ==
    ASSUME VoteInv, tracked # << >>, tracked[1].event.valid, Insert,
           \/ tracked' = << >> /\ lostAnswers' = lostAnswers
           \/ tracked' = tracked /\ lostAnswers' = lostAnswers + 1 /\ lostAnswers < MaxLostAnswers,
           UNCHANGED <<round, tallies, voteQueues, moved, deleted, accepted>>
    PROVE  VoteInv'
<1>1. PICK k \in VoteKinds, e \in VoteEvent : tracked = <<[kind |-> k, event |-> e]>> BY DEF VoteInv
<1>2. tracked[1].kind = k /\ tracked[1].event = e BY <1>1
<1> DEFINE q == voteQueues[k]
           r == ConvertEvent(e)
<1>3. voteRows' = [voteRows EXCEPT ![k] = Append(@, r)] /\ e.valid BY <1>2 DEF Insert
<1>4. /\ voteQueues \in [VoteKinds -> Seq(VoteEvent)] /\ voteRows \in [VoteKinds -> Seq(VoteRow)]
      /\ moved \in [VoteKinds -> Nat] /\ lostAnswers \in 0 .. MaxLostAnswers /\ MaxLostAnswers \in Nat
      /\ \A j \in VoteKinds : deleted[j] <= moved[j] /\ moved[j] <= Len(voteRows[j])
  BY VoteCountingAssumption DEF VoteInv
<1>5. /\ voteRows'[k] = Append(voteRows[k], r) /\ \A j \in VoteKinds \ {k} : voteRows'[j] = voteRows[j]
      /\ q \in Seq(VoteEvent) /\ voteRows[k] \in Seq(VoteRow)
  BY <1>3, <1>4
<1>6. r \in VoteRow BY DEF VoteRow
<1> HIDE DEF q, r
<1>7. Append(voteRows[k], r) \in Seq(VoteRow) /\ Len(Append(voteRows[k], r)) = Len(voteRows[k]) + 1 BY <1>5, <1>6
<1>8. voteRows' \in [VoteKinds -> Seq(VoteRow)] BY <1>3, <1>4, <1>7
<1>9. \A j \in VoteKinds : deleted[j] <= moved[j] /\ moved[j] <= Len(voteRows'[j])
  <2> SUFFICES ASSUME NEW j \in VoteKinds PROVE moved[j] <= Len(voteRows'[j]) BY <1>4
  <2>1. CASE j = k
    <3>1. Len(voteRows[k]) \in Nat /\ moved[k] \in Nat /\ moved[k] <= Len(voteRows[k]) BY <1>4, <1>5
    <3> QED BY <1>5, <1>7, <2>1, <3>1
  <2>2. CASE j # k BY <1>4, <1>5, <2>2
  <2> QED BY <2>1, <2>2
<1>10. lostAnswers' \in 0 .. MaxLostAnswers BY <1>4
<1>11. Unsaved(k) = <<e>> \o q
  <2>1. Unsaved(k) = InHand(tracked, q, k) BY DEF Unsaved, InHand, q
  <2> QED BY <1>1, <1>5, <2>1, OneInHand
<1>12. /\ <<e>> \o q # << >> /\ (<<e>> \o q)[1] = e /\ Tail(<<e>> \o q) = q BY <1>5, InFront
<1>13. KindInv(voteRows'[k], Unsaved(k)', accepted'[k], lostAnswers')
  <2>0. PICK t : t = <<e>> \o q OBVIOUS
  <2>1. KindInv(voteRows[k], t, accepted[k], lostAnswers) BY <1>11, <2>0 DEF VoteInv
  <2>2. t # << >> /\ t[1] = e /\ Tail(t) = q /\ t[1].valid BY <1>3, <1>12, <2>0
  <2>3. /\ KindInv(Append(voteRows[k], ConvertEvent(t[1])), Tail(t), accepted[k], lostAnswers)
        /\ KindInv(Append(voteRows[k], ConvertEvent(t[1])), t, accepted[k], lostAnswers + 1)
    BY <2>1, <2>2, KindSaves
  <2>4. CASE tracked' = << >> /\ lostAnswers' = lostAnswers
    <3>1. Unsaved(k)' = InHand(<< >>, q, k) BY <2>4 DEF Unsaved, InHand, q
    <3>2. Unsaved(k)' = q BY <1>5, <3>1, NoneInHand
    <3> QED BY <1>5, <2>2, <2>3, <2>4, <3>2 DEF r
  <2>5. CASE tracked' = tracked /\ lostAnswers' = lostAnswers + 1
    <3>1. Unsaved(k)' = t BY <1>11, <2>0, <2>5 DEF Unsaved
    <3> QED BY <1>5, <2>2, <2>3, <2>5, <3>1 DEF r
  <2> QED BY <2>4, <2>5
<1>14. ASSUME NEW j \in VoteKinds PROVE KindInv(voteRows'[j], Unsaved(j)', accepted'[j], lostAnswers')
  <2>1. CASE j = k BY <1>13, <2>1
  <2>2. CASE j # k
    <3>1. voteQueues[j] \in Seq(VoteEvent) /\ voteRows'[j] = voteRows[j] /\ tracked[1].kind # j
      BY <1>2, <1>4, <1>5, <2>2
    <3>2. Unsaved(j) = InHand(tracked, voteQueues[j], j) /\ Unsaved(j)' = InHand(tracked', voteQueues[j], j)
      BY DEF Unsaved, InHand
    <3>3. InHand(tracked, voteQueues[j], j) = voteQueues[j] BY <3>1, OtherInHand
    <3>4. InHand(<< >>, voteQueues[j], j) = voteQueues[j] BY <3>1, NoneInHand
    <3>5. Unsaved(j)' = Unsaved(j) BY <3>2, <3>3, <3>4
    <3> QED BY <3>1, <3>5, OtherKind
  <2> QED BY <2>1, <2>2
<1> QED BY <1>1, <1>8, <1>9, <1>10, <1>14 DEF VoteInv

\* Turning the tables over moves what was saved, and no row changes.
LEMMA DeleteOldVoteInv == ASSUME VoteInv, DeleteOldData PROVE VoteInv'
<1>1. /\ deleted' = moved /\ moved' = [k \in VoteKinds |-> Len(voteRows[k])]
      /\ UNCHANGED <<round, tallies, voteQueues, tracked, voteRows, lostAnswers, accepted>>
  BY DEF DeleteOldData
<1>2. ASSUME NEW k \in VoteKinds PROVE KindInv(voteRows'[k], Unsaved(k)', accepted'[k], lostAnswers')
  <2>1. Unsaved(k)' = Unsaved(k) BY <1>1 DEF Unsaved
  <2> QED BY <1>1, <2>1, OtherKind
<1>3. \A k \in VoteKinds : Len(voteRows[k]) \in Nat /\ moved[k] \in Nat /\ moved[k] <= Len(voteRows[k])
  BY DEF VoteInv
<1>4. /\ moved' \in [VoteKinds -> Nat] /\ deleted' \in [VoteKinds -> Nat]
      /\ \A k \in VoteKinds : deleted'[k] <= moved'[k] /\ moved'[k] <= Len(voteRows'[k])
  BY <1>1, <1>3 DEF VoteInv
<1> QED BY <1>1, <1>2, <1>4 DEF VoteInv

\* No step of the node or of the worker breaks the order or loses an event.
LEMMA NextVoteInv == VoteInv /\ [VoteNext]_voteVars => VoteInv'
<1> SUFFICES ASSUME VoteInv, [VoteNext]_voteVars PROVE VoteInv' OBVIOUS
<1>0. VoteKinds = {"step", "result", "proof", "block"} BY DEF VoteKinds
<1>1. /\ round \in 1 .. MaxRound /\ MaxRound \in Nat
      /\ tallies \in [1 .. MaxRound -> [VotedHashes -> SUBSET Voters]]
  BY VoteCountingAssumption DEF VoteInv
<1>2. ASSUME NEW h \in VotedHashes, NEW v \in Voters, CountVote(h, v) PROVE VoteInv'
  <2>1. /\ tallies' = [tallies EXCEPT ![round][h] = @ \cup {v}]
        /\ UNCHANGED <<round, voteQueues, tracked, voteRows, moved, deleted, lostAnswers, accepted>>
    BY <1>2 DEF CountVote
  <2>2. tallies' \in [1 .. MaxRound -> [VotedHashes -> SUBSET Voters]] BY <1>1, <2>1
  <2> QED BY <1>1, <2>1, <2>2, NodeVoteInv
<1>3. CASE NextRound
  <2>1. /\ round' = round + 1 /\ round < MaxRound
        /\ UNCHANGED <<tallies, voteQueues, tracked, voteRows, moved, deleted, lostAnswers, accepted>>
    BY <1>3 DEF NextRound
  <2>2. round' \in 1 .. MaxRound BY <1>1, <2>1
  <2> QED BY <1>1, <2>1, <2>2, NodeVoteInv
<1>4. tallies[round] \in [VotedHashes -> SUBSET Voters] /\ NoVotes \in [VotedHashes -> SUBSET Voters]
  BY <1>1 DEF NoVotes
<1>5. CASE SubmitVoteCountingStepResultEvent
  BY <1>0, <1>4, <1>5, SubmitVoteInv DEF SubmitVoteCountingStepResultEvent
<1>6. CASE SubmitVoteCountingResultEvent BY <1>0, <1>4, <1>6, SubmitVoteInv DEF SubmitVoteCountingResultEvent
<1>7. ASSUME NEW valid \in BOOLEAN, SubmitProofProposalEvent(valid) PROVE VoteInv'
  BY <1>0, <1>4, <1>7, SubmitVoteInv DEF SubmitProofProposalEvent
<1>8. CASE SubmitBlockProposalEvent BY <1>0, <1>4, <1>8, SubmitVoteInv DEF SubmitBlockProposalEvent
<1>9. ASSUME NEW k \in VoteKinds, Take(k) PROVE VoteInv' BY <1>9, TakeVoteInv DEF Take
<1>10. CASE TakeProofProposal
  <2>1. /\ tracked = << >> /\ voteQueues["proof"] # << >>
        /\ voteQueues' = [voteQueues EXCEPT !["proof"] = Tail(@)]
        /\ UNCHANGED <<round, tallies, voteRows, moved, deleted, lostAnswers, accepted>>
    BY <1>10 DEF TakeProofProposal
  <2>2. \/ tracked' = <<[kind |-> "proof", event |-> Head(voteQueues["proof"])]>>
        \/ tracked' = << >> /\ ~Head(voteQueues["proof"]).valid
    BY <1>10 DEF TakeProofProposal
  <2>3. "proof" \in VoteKinds BY <1>0
  <2> QED BY <2>1, <2>2, <2>3, TakeVoteInv
<1>11. CASE Track
  BY <1>0, <1>9, <1>10, <1>11 DEF Track, TakeCountingStep, TakeCounting, TakeBlockProposal
<1>12. CASE SaveSucceeds BY <1>12, SaveVoteInv DEF SaveSucceeds
<1>13. CASE SaveAnswerLost BY <1>13, SaveVoteInv DEF SaveAnswerLost
<1>14. CASE DeleteOldData BY <1>14, DeleteOldVoteInv
<1>15. CASE UNCHANGED voteVars BY <1>1, <1>15, NodeVoteInv DEF voteVars
<1> QED BY <1>2, <1>3, <1>5, <1>6, <1>7, <1>8, <1>11, <1>12, <1>13, <1>14, <1>15 DEF VoteNext

\* Whatever the voters, the hashes and the capacities of the channels, and
\* however many answers are lost: what a channel took is saved in its order and
\* as it was reported, and repeated only for a lost answer (the Submit...
\* methods, track and the save procedures).
THEOREM VotesAreSavedAlways == VoteInit /\ [][VoteNext]_voteVars => []VotesAreSaved
<1>1. VoteInv => VotesAreSaved
  <2> SUFFICES ASSUME VoteInv PROVE VotesAreSaved OBVIOUS
  <2>1. SavedAsReported BY DEF VoteInv, KindInv, SavedAsReported
  <2>2. Len(tracked) <= 1
    <3>1. CASE tracked = << >> BY <3>1
    <3>2. ASSUME NEW k \in VoteKinds, NEW e \in VoteEvent, tracked = <<[kind |-> k, event |-> e]>>
          PROVE  Len(tracked) <= 1
      BY <3>2
    <3> QED BY <3>1, <3>2 DEF VoteInv
  <2>3. VoteTypeOK BY <2>2 DEF VoteInv, VoteTypeOK
  <2> QED BY <2>1, <2>3 DEF VotesAreSaved
<1> QED BY <1>1, InitVoteInv, NextVoteInv, PTL

-----------------------------------------------------------------------------
(* DataService. *)

BlockData == [height : Nat, epoch : Nat, epochHeight : Nat, validation : BOOLEAN]

\* What the handlers have yet to write is the end of this list.
Unwritten == {<< >>, <<"validation">>, <<"height", "validation">>,
              <<"epochHeight", "height", "validation">>,
              <<"epoch", "epochHeight", "height", "validation">>}

Holds(w, x) == \E i \in DOMAIN w : w[i] = x

FieldNames == {"height", "epoch", "epochHeight", "validation"}

Newest == blocks[Len(blocks)]
Second == blocks[Len(blocks) - 1]

\* A block after the validation but not yet BlocksAfterValidation past it.
Calm(b) == ~b.validation /\ b.height - b.epochHeight < BlocksAfterValidation

\* The fields are those of the last block and, where they are unwritten, those
\* of the one before; a validation does not follow on a calm block.
FieldsInv ==
    /\ blocks \in Seq(BlockData)
    /\ Len(blocks) <= MaxBlocks
    /\ \A i \in 1 .. Len(blocks) : blocks[i].height = i /\ blocks[i].epochHeight <= i
    /\ \A i \in 1 .. Len(blocks) - 1 : Calm(blocks[i]) =>
         ~blocks[i + 1].validation /\ blocks[i + 1].epochHeight = blocks[i].epochHeight
    /\ writing \in Unwritten
    /\ writing # << >> => Len(blocks) > 1
    /\ blocks = << >> => fields = << >>
    /\ blocks # << >> =>
         /\ fields = <<fields[1]>> /\ fields[1] \in BlockData
         /\ \A x \in FieldNames :
              fields[1][x] = IF Holds(writing, x) THEN Second[x] ELSE Newest[x]

\* Between the reads of the observer: if the chain has not been quiet since,
\* the last block is still of the epoch whose validation is just over.
ReadingInv ==
    /\ observer.pc # "sleep" => fields # << >>
    /\ observer.pc \in {"height", "epochHeight"} /\ ~sawQuiet =>
         /\ Calm(Newest)
         /\ writing # << >> => Second.epochHeight = Newest.epochHeight
         /\ fields[1].epochHeight = Newest.epochHeight
         /\ Newest.epochHeight <= fields[1].height
         /\ observer.pc = "epochHeight" =>
              Newest.epochHeight <= observer.height /\ observer.height <= Newest.height

ObserverData == [pc : {"sleep", "item", "height", "epochHeight", "decide"},
                 todo : Seq(DOMAIN Items), at : Nat, height : Nat, epoch : Nat,
                 isValidation : BOOLEAN]

\* The observer and what it has read.
ObserverInv ==
    /\ observer \in ObserverData
    /\ now \in 0 .. MaxNow /\ observer.at <= now
    /\ observer.pc # "sleep" => observer.todo # << >>

\* What is recorded of a refresh of data of a day or an hour, and of any.
TimedData   == {d \in [began : Nat, at : Nat] : d.began <= d.at}
RefreshData == TimedData \cup Nat
RefreshOf(i) == IF Items[i].period > 0 THEN TimedData ELSE Nat

\* The end of the day or the hour of a time.
EndOf(i, t) == t - (t % Items[i].period) + Items[i].period

\* Data refreshed as d is not due again in the period of its round, or in its
\* epoch, if it is to be refreshed at these times and in these epochs.
DueAfter(i, d, times, epochs) ==
    IF Items[i].period > 0
    THEN times # {} /\ \A t \in times : t >= EndOf(i, d.began)
    ELSE \E e \in epochs : d < e

\* Of two refreshes the later one is of a later period, by the beginnings of their
\* rounds, and of a round that began after the earlier one; or of a later epoch.
Before(i, d, e) ==
    IF Items[i].period > 0
    THEN PeriodOf(i, d.began) < PeriodOf(i, e.began) /\ d.at <= e.began
    ELSE d < e

LastOf(s) == s[Len(s)]

NextTimeInv ==
    /\ refreshTime \in [DOMAIN Items -> SUBSET Nat] /\ refreshEpoch \in [DOMAIN Items -> SUBSET Nat]
    /\ refreshed \in [DOMAIN Items -> Seq(RefreshData)]
    /\ \A i \in DOMAIN Items : refreshed[i] # << >> =>
         DueAfter(i, LastOf(refreshed[i]), refreshTime[i], refreshEpoch[i])

RefreshesInOrder ==
    \A i \in DOMAIN Items :
      /\ \A k \in 1 .. Len(refreshed[i]) : refreshed[i][k] \in RefreshOf(i)
      /\ \A j, k \in 1 .. Len(refreshed[i]) : j < k => Before(i, refreshed[i][j], refreshed[i][k])

\* The last refresh is over, and was over when the round began unless it is of it.
LastRefreshInv ==
    \A i \in DOMAIN Items : Items[i].period > 0 /\ refreshed[i] # << >> =>
      /\ LastOf(refreshed[i]).at <= now
      /\ observer.pc # "sleep" => \/ LastOf(refreshed[i]).at <= observer.at
                                 \/ LastOf(refreshed[i]).began = observer.at

RefreshInv == FieldsInv /\ ReadingInv /\ ObserverInv /\ NextTimeInv
              /\ RefreshesAvoidValidation /\ RefreshesInOrder /\ LastRefreshInv

\* What an Assignments list holds, after NewEpochEvent and without it.
LEMMA AssignmentsOf ==
    /\ Assignments(TRUE) = <<"epoch", "epochHeight", "height", "validation">>
    /\ Assignments(FALSE) = <<"height", "validation">>
<1> DEFINE S == {"epoch", "epochHeight", "height", "validation"}
           s == <<"epoch", "epochHeight">> \o <<"height", "validation">>
           t == <<"epoch", "epochHeight", "height", "validation">>
<1>1. s \in Seq(S) /\ t \in Seq(S) /\ Len(s) = 4 /\ Len(t) = 4 OBVIOUS
<1>2. s[1] = "epoch" /\ s[2] = "epochHeight" /\ s[3] = "height" /\ s[4] = "validation" OBVIOUS
<1>3. t[1] = "epoch" /\ t[2] = "epochHeight" /\ t[3] = "height" /\ t[4] = "validation" OBVIOUS
<1>4. << >> \o <<"height", "validation">> = <<"height", "validation">> OBVIOUS
<1> HIDE DEF s, t, S
<1>5. s = t BY <1>1, <1>2, <1>3
<1> QED BY <1>4, <1>5 DEF Assignments, s, t

\* Every block goes on from the block p (BlockOn), and a calm block is followed
\* by one of the same epoch outside a validation (MayFollow).
LEMMA BlockOnFits ==
    ASSUME FieldsInv, NEW p \in 0 .. Len(blocks), NEW validation \in BOOLEAN, NEW finished \in BOOLEAN,
           MayFollow(p, validation, finished)
    PROVE  LET b == BlockOn(p, validation, finished) IN
           /\ b \in BlockData /\ b.height = p + 1 /\ b.epochHeight <= p + 1
           /\ p > 0 /\ ~finished => b.epoch = blocks[p].epoch /\ b.epochHeight = blocks[p].epochHeight
           /\ p > 0 /\ Calm(blocks[p]) =>
                ~finished /\ ~b.validation /\ b.epochHeight = blocks[p].epochHeight
<1> DEFINE b == BlockOn(p, validation, finished)
           old == IF p = 0 THEN [height |-> 0, epoch |-> 1, epochHeight |-> 0, validation |-> FALSE]
                  ELSE blocks[p]
<1>1. p \in Nat /\ Len(blocks) \in Nat BY DEF FieldsInv
<1>2. old \in BlockData /\ old.epochHeight <= p
  <2>1. CASE p = 0 BY <2>1 DEF BlockData
  <2>2. CASE p > 0
    <3>1. p \in 1 .. Len(blocks) BY <1>1, <2>2
    <3>2. blocks[p] \in BlockData BY <3>1 DEF FieldsInv
    <3> QED BY <3>1, <3>2, <2>2 DEF FieldsInv
  <2> QED BY <1>1, <2>1, <2>2
<1>3. b = [height |-> p + 1, epoch |-> IF finished THEN old.epoch + 1 ELSE old.epoch,
           epochHeight |-> IF finished THEN p + 1 ELSE old.epochHeight, validation |-> validation]
  BY DEF BlockOn
<1>4. old.epoch \in Nat /\ old.epochHeight \in Nat BY <1>2 DEF BlockData
<1> HIDE DEF b
<1>5. p > 0 => old = blocks[p] BY <1>1
<1>6. p > 0 /\ Calm(blocks[p]) => ~finished /\ ~validation
  <2> SUFFICES ASSUME p > 0, Calm(blocks[p]) PROVE ~finished /\ ~validation OBVIOUS
  <2>1. old.height \in Nat BY <1>2 DEF BlockData
  <2>2. ~Quiet(blocks[p]) BY <1>4, <1>5, <2>1, DataServiceAssumption DEF Calm, Quiet
  <2> QED BY <2>2 DEF MayFollow, Calm
<1> HIDE DEF old
<1>7. b \in BlockData /\ b.height = p + 1 /\ b.epochHeight <= p + 1
  BY <1>1, <1>2, <1>3, <1>4 DEF BlockData
<1>8. p > 0 /\ ~finished => b.epoch = blocks[p].epoch /\ b.epochHeight = blocks[p].epochHeight
  BY <1>3, <1>5
<1>9. b.validation = validation BY <1>3
<1> QED BY <1>6, <1>7, <1>8, <1>9 DEF b

\* Which fields each end of the list holds.
LEMMA HoldsTable ==
    ASSUME NEW x
    PROVE  /\ ~Holds(<< >>, x)
           /\ Holds(<<"validation">>, x) <=> x = "validation"
           /\ Holds(<<"height", "validation">>, x) <=> x \in {"height", "validation"}
           /\ Holds(<<"epochHeight", "height", "validation">>, x)
                <=> x \in {"epochHeight", "height", "validation"}
           /\ Holds(<<"epoch", "epochHeight", "height", "validation">>, x) <=> x \in FieldNames
<1>1. ~Holds(<< >>, x) BY DEF Holds
<1>2. Holds(<<"validation">>, x) <=> x = "validation"
  <2> DEFINE w == <<"validation">>
  <2>1. DOMAIN w = 1 .. 1 /\ w[1] = "validation" OBVIOUS
  <2> HIDE DEF w
  <2>2. Holds(w, x) <=> x = "validation" BY <2>1 DEF Holds
  <2> QED BY <2>2 DEF w
<1>3. Holds(<<"height", "validation">>, x) <=> x \in {"height", "validation"}
  <2> DEFINE w == <<"height", "validation">>
  <2>1. DOMAIN w = 1 .. 2 /\ w[1] = "height" /\ w[2] = "validation" OBVIOUS
  <2> HIDE DEF w
  <2>2. Holds(w, x) <=> x \in {"height", "validation"} BY <2>1 DEF Holds
  <2> QED BY <2>2 DEF w
<1>4. Holds(<<"epochHeight", "height", "validation">>, x) <=> x \in {"epochHeight", "height", "validation"}
  <2> DEFINE w == <<"epochHeight", "height", "validation">>
  <2>1. DOMAIN w = 1 .. 3 /\ w[1] = "epochHeight" /\ w[2] = "height" /\ w[3] = "validation" OBVIOUS
  <2> HIDE DEF w
  <2>2. Holds(w, x) <=> x \in {"epochHeight", "height", "validation"} BY <2>1 DEF Holds
  <2> QED BY <2>2 DEF w
<1>5. Holds(<<"epoch", "epochHeight", "height", "validation">>, x) <=> x \in FieldNames
  <2> DEFINE w == <<"epoch", "epochHeight", "height", "validation">>
  <2>1. DOMAIN w = 1 .. 4 /\ w[1] = "epoch" /\ w[2] = "epochHeight" /\ w[3] = "height" /\ w[4] = "validation" OBVIOUS
  <2> HIDE DEF w
  <2>2. Holds(w, x) <=> x \in FieldNames BY <2>1 DEF Holds, FieldNames
  <2> QED BY <2>2 DEF w
<1> QED BY <1>1, <1>2, <1>3, <1>4, <1>5

\* Writing the first unwritten field leaves the rest.
LEMMA RestIsUnwritten ==
    ASSUME NEW w \in Unwritten, w # << >>
    PROVE  /\ Tail(w) \in Unwritten
           /\ Head(w) \in FieldNames
           /\ \A x \in FieldNames : Holds(Tail(w), x) <=> Holds(w, x) /\ x # Head(w)
<1>1. CASE w = <<"validation">>
  <2>1. Head(w) = "validation" /\ Tail(w) = << >> BY <1>1
  <2> QED BY <1>1, <2>1, HoldsTable DEF Unwritten, FieldNames
<1>2. CASE w = <<"height", "validation">>
  <2>1. Head(w) = "height" /\ Tail(w) = <<"validation">> BY <1>2
  <2> QED BY <1>2, <2>1, HoldsTable DEF Unwritten, FieldNames
<1>3. CASE w = <<"epochHeight", "height", "validation">>
  <2>1. Head(w) = "epochHeight" /\ Tail(w) = <<"height", "validation">> BY <1>3
  <2> QED BY <1>3, <2>1, HoldsTable DEF Unwritten, FieldNames
<1>4. CASE w = <<"epoch", "epochHeight", "height", "validation">>
  <2>1. Head(w) = "epoch" /\ Tail(w) = <<"epochHeight", "height", "validation">> BY <1>4
  <2> QED BY <1>4, <2>1, HoldsTable DEF Unwritten, FieldNames
<1> QED BY <1>1, <1>2, <1>3, <1>4 DEF Unwritten

\* The chain stays in order when a block goes on top of the first p.
LEMMA ChainGoesOn ==
    ASSUME FieldsInv, NEW p \in 0 .. Len(blocks), p < MaxBlocks,
           NEW validation \in BOOLEAN, NEW finished \in BOOLEAN, MayFollow(p, validation, finished),
           blocks' = Append(SubSeq(blocks, 1, p), BlockOn(p, validation, finished))
    PROVE  /\ blocks' \in Seq(BlockData) /\ Len(blocks') = p + 1 /\ Len(blocks') <= MaxBlocks
           /\ blocks'[p + 1] = BlockOn(p, validation, finished)
           /\ \A i \in 1 .. p : blocks'[i] = blocks[i]
           /\ \A i \in 1 .. Len(blocks') : blocks'[i].height = i /\ blocks'[i].epochHeight <= i
           /\ \A i \in 1 .. Len(blocks') - 1 : Calm(blocks'[i]) =>
                ~blocks'[i + 1].validation /\ blocks'[i + 1].epochHeight = blocks'[i].epochHeight
<1> DEFINE b == BlockOn(p, validation, finished)
           s == SubSeq(blocks, 1, p)
           D == BlockData
<1>1. blocks \in Seq(D) /\ Len(blocks) \in Nat /\ p \in Nat BY DEF FieldsInv
<1>2. b \in D BY BlockOnFits
<1> HIDE DEF b, D
<1>3. s \in Seq(D) /\ Len(s) = p /\ \A i \in 1 .. p : s[i] = blocks[i] BY <1>1
<1> HIDE DEF s
<1>4. blocks' = Append(s, b) BY DEF s, b
<1>5. blocks' \in Seq(D) /\ Len(blocks') = p + 1 /\ blocks'[p + 1] = b /\ \A i \in 1 .. p : blocks'[i] = s[i]
  <2>1. Append(s, b) \in Seq(D) /\ Len(Append(s, b)) = Len(s) + 1 /\ Append(s, b)[Len(s) + 1] = b
    BY <1>2, <1>3
  <2>2. \A i \in 1 .. Len(s) : Append(s, b)[i] = s[i] BY <1>2, <1>3
  <2> QED BY <1>3, <1>4, <2>1, <2>2
<1>6. \A i \in 1 .. p : blocks'[i] = blocks[i] BY <1>3, <1>5
<1>7. Len(blocks') <= MaxBlocks BY <1>1, <1>5, DataServiceAssumption
<1>8. \A i \in 1 .. Len(blocks') : blocks'[i].height = i /\ blocks'[i].epochHeight <= i
  <2> TAKE i \in 1 .. Len(blocks')
  <2>1. CASE i = p + 1 BY <2>1, <1>5, BlockOnFits DEF b
  <2>2. CASE i \in 1 .. p BY <2>2, <1>1, <1>6 DEF FieldsInv
  <2> QED BY <1>1, <1>5, <2>1, <2>2
<1>9. \A i \in 1 .. Len(blocks') - 1 : Calm(blocks'[i]) =>
         ~blocks'[i + 1].validation /\ blocks'[i + 1].epochHeight = blocks'[i].epochHeight
  <2> SUFFICES ASSUME NEW i \in 1 .. p, Calm(blocks'[i])
               PROVE ~blocks'[i + 1].validation /\ blocks'[i + 1].epochHeight = blocks'[i].epochHeight
    <3>1. Len(blocks') - 1 = p BY <1>1, <1>5
    <3> QED BY <3>1
  <2>1. Calm(blocks[i]) BY <1>6
  <2>2. CASE i = p
    <3>1. p > 0 BY <1>1, <2>2
    <3> QED BY <2>1, <2>2, <3>1, <1>5, <1>6, BlockOnFits DEF b
  <2>3. CASE i < p
    <3>1. i \in 1 .. Len(blocks) - 1 /\ i + 1 \in 1 .. p BY <1>1, <2>3
    <3>2. ~blocks[i + 1].validation /\ blocks[i + 1].epochHeight = blocks[i].epochHeight
      BY <2>1, <3>1 DEF FieldsInv
    <3> QED BY <3>1, <3>2, <1>6
  <2> QED BY <1>1, <2>2, <2>3
<1> QED BY <1>5, <1>6, <1>7, <1>8, <1>9 DEF b, D

\* What the handlers have not written after a block on top of the chain.
LEMMA IndexBlockFields ==
    ASSUME FieldsInv, NEW validation \in BOOLEAN, NEW finished \in BOOLEAN,
           IndexBlock(validation, finished)
    PROVE  FieldsInv' /\ Second' = Newest /\ (Calm(Newest) => Newest'.epochHeight = Newest.epochHeight)
           /\ (Calm(Newest) => ~Newest'.validation) /\ Newest' \in BlockData
<1> DEFINE p == Len(blocks)
           b == BlockOn(p, validation, finished)
<1>1. p \in Nat /\ p > 0 /\ p \in 0 .. Len(blocks) /\ p < MaxBlocks BY DEF FieldsInv, IndexBlock
<1>2. writing = << >> /\ MayFollow(p, validation, finished) /\ fields' = fields
      /\ blocks' = Append(blocks, b) /\ writing' = Assignments(finished)
  BY DEF IndexBlock
<1>3. SubSeq(blocks, 1, p) = blocks
  <2> DEFINE D == BlockData
  <2>1. blocks \in Seq(D) BY DEF FieldsInv
  <2> HIDE DEF D
  <2> QED BY <2>1
<1>4. /\ blocks' \in Seq(BlockData) /\ Len(blocks') = p + 1 /\ Len(blocks') <= MaxBlocks
      /\ blocks'[p + 1] = b
      /\ \A i \in 1 .. p : blocks'[i] = blocks[i]
      /\ \A i \in 1 .. Len(blocks') : blocks'[i].height = i /\ blocks'[i].epochHeight <= i
      /\ \A i \in 1 .. Len(blocks') - 1 : Calm(blocks'[i]) =>
           ~blocks'[i + 1].validation /\ blocks'[i + 1].epochHeight = blocks'[i].epochHeight
  BY <1>1, <1>2, <1>3, ChainGoesOn
<1>5. /\ b \in BlockData
      /\ ~finished => b.epoch = blocks[p].epoch /\ b.epochHeight = blocks[p].epochHeight
      /\ Calm(blocks[p]) => ~b.validation /\ b.epochHeight = blocks[p].epochHeight
  BY <1>1, <1>2, BlockOnFits
<1> HIDE DEF b
<1>6. Newest' = b BY <1>4 DEF Newest
<1>7. Second' = Newest
  <2>1. Len(blocks') - 1 = p BY <1>1, <1>4
  <2>2. p \in 1 .. p BY <1>1
  <2> QED BY <2>1, <2>2, <1>4 DEF Newest, Second
<1>8. writing' \in Unwritten /\ Len(blocks') > 1
  <2>1. Assignments(TRUE) \in Unwritten /\ Assignments(FALSE) \in Unwritten BY AssignmentsOf DEF Unwritten
  <2>2. finished = TRUE \/ finished = FALSE OBVIOUS
  <2>3. Len(blocks') > 1 BY <1>1, <1>4
  <2> QED BY <1>2, <2>1, <2>2, <2>3
<1>9. blocks # << >> /\ blocks' # << >>
  BY <1>1, <1>2, <1>4
<1>10. fields = <<fields[1]>> /\ fields[1] \in BlockData /\ \A x \in FieldNames : fields[1][x] = Newest[x]
  BY <1>2, <1>9, HoldsTable DEF FieldsInv
<1>11. \A x \in FieldNames : fields'[1][x] = IF Holds(writing', x) THEN Second'[x] ELSE Newest'[x]
  <2>1. CASE finished
    <3>1. writing' = <<"epoch", "epochHeight", "height", "validation">> BY <2>1, <1>2, AssignmentsOf
    <3> QED BY <3>1, <1>2, <1>7, <1>10, HoldsTable
  <2>2. CASE ~finished
    <3>1. writing' = <<"height", "validation">> BY <2>2, <1>2, AssignmentsOf
    <3>2. \A x : Holds(writing', x) <=> x \in {"height", "validation"} BY <3>1, HoldsTable
    <3>3. Newest'["epoch"] = Newest["epoch"] /\ Newest'["epochHeight"] = Newest["epochHeight"]
      BY <2>2, <1>5, <1>6 DEF Newest
    <3> QED BY <3>2, <3>3, <1>2, <1>7, <1>10 DEF FieldNames
  <2> QED BY <2>1, <2>2
<1>12. FieldsInv' BY <1>2, <1>4, <1>8, <1>9, <1>10, <1>11 DEF FieldsInv
<1> QED BY <1>5, <1>6, <1>7, <1>12 DEF Newest

\* After a start or a reset the fields are those of the new block at once.
LEMMA IndexAfterResetFields ==
    ASSUME FieldsInv, NEW p \in 0 .. MaxBlocks, NEW validation \in BOOLEAN, NEW finished \in BOOLEAN,
           IndexAfterReset(p, validation, finished)
    PROVE  FieldsInv' /\ fields' # << >>
<1> DEFINE b == BlockOn(p, validation, finished)
<1>1. p \in 0 .. Len(blocks)
  <2>1. Len(blocks) \in Nat /\ p \in Nat BY DataServiceAssumption DEF FieldsInv
  <2>2. CASE blocks = << >> BY <2>1, <2>2 DEF IndexAfterReset
  <2>3. CASE blocks # << >> BY <2>1, <2>3 DEF IndexAfterReset
  <2> QED BY <2>2, <2>3
<1>2. p < MaxBlocks /\ writing = << >> /\ writing' = << >> /\ MayFollow(p, validation, finished)
      /\ blocks' = Append(SubSeq(blocks, 1, p), b) /\ fields' = <<b>>
  BY DEF IndexAfterReset
<1>3. b \in BlockData BY <1>1, <1>2, BlockOnFits
<1>4. /\ blocks' \in Seq(BlockData) /\ Len(blocks') = p + 1 /\ Len(blocks') <= MaxBlocks
      /\ blocks'[p + 1] = b
      /\ \A i \in 1 .. Len(blocks') : blocks'[i].height = i /\ blocks'[i].epochHeight <= i
      /\ \A i \in 1 .. Len(blocks') - 1 : Calm(blocks'[i]) =>
           ~blocks'[i + 1].validation /\ blocks'[i + 1].epochHeight = blocks'[i].epochHeight
  BY <1>1, <1>2, ChainGoesOn
<1> HIDE DEF b
<1>5. fields'[1] = b /\ fields' # << >> /\ fields' = <<fields'[1]>> BY <1>2
<1>6. Newest' = b BY <1>4 DEF Newest
<1>7. \A x \in FieldNames : fields'[1][x] = IF Holds(writing', x) THEN Second'[x] ELSE Newest'[x]
  BY <1>2, <1>5, <1>6, HoldsTable
<1>8. blocks' # << >> BY <1>1, <1>4
<1>9. writing' \in Unwritten BY <1>2 DEF Unwritten
<1> QED BY <1>2, <1>3, <1>4, <1>5, <1>7, <1>8, <1>9 DEF FieldsInv

\* An assignment of a handler writes a field of the last block.
LEMMA WriteFieldFields ==
    ASSUME FieldsInv, WriteField
    PROVE  /\ FieldsInv' /\ Newest' = Newest /\ Second' = Second /\ fields' # << >>
           /\ \A x \in FieldNames : fields'[1][x] \in {fields[1][x], Newest[x]}
<1> DEFINE h == Head(writing)
           g == [fields[1] EXCEPT ![h] = Last(blocks)[h]]
<1>1. writing \in Unwritten /\ writing # << >> /\ writing' = Tail(writing) /\ blocks' = blocks
      /\ fields' = <<g>> /\ Len(blocks) > 1
  BY DEF FieldsInv, WriteField
<1>2. h \in FieldNames /\ writing' \in Unwritten
      /\ \A x \in FieldNames : Holds(writing', x) <=> Holds(writing, x) /\ x # h
  BY <1>1, RestIsUnwritten
<1> HIDE DEF h
<1>3. blocks # << >> /\ Last(blocks) = Newest BY <1>1 DEF Last, Newest
<1>4. Newest \in BlockData
  <2> DEFINE D == BlockData
  <2>1. blocks \in Seq(D) BY DEF FieldsInv
  <2> HIDE DEF D
  <2>2. Len(blocks) \in 1 .. Len(blocks) BY <1>1, <2>1
  <2>3. blocks[Len(blocks)] \in D BY <2>1, <2>2
  <2> QED BY <2>3 DEF D, Newest
<1>5. fields[1] \in BlockData /\ \A x \in FieldNames : fields[1][x] = IF Holds(writing, x) THEN Second[x] ELSE Newest[x]
  BY <1>3 DEF FieldsInv
<1>6. DOMAIN fields[1] = FieldNames BY <1>5 DEF BlockData, FieldNames
<1>7. g = [x \in FieldNames |-> IF x = h THEN Newest[h] ELSE fields[1][x]] BY <1>3, <1>6
<1>8. g \in BlockData
  <2>1. CASE h = "height" BY <1>4, <1>5, <1>7, <2>1 DEF BlockData, FieldNames
  <2>2. CASE h = "epoch" BY <1>4, <1>5, <1>7, <2>2 DEF BlockData, FieldNames
  <2>3. CASE h = "epochHeight" BY <1>4, <1>5, <1>7, <2>3 DEF BlockData, FieldNames
  <2>4. CASE h = "validation" BY <1>4, <1>5, <1>7, <2>4 DEF BlockData, FieldNames
  <2> QED BY <1>2, <2>1, <2>2, <2>3, <2>4 DEF FieldNames
<1>9. \A x \in FieldNames : g[x] = IF x = h THEN Newest[h] ELSE fields[1][x] BY <1>7
<1> HIDE DEF g
<1>10. fields'[1] = g /\ fields' # << >> /\ fields' = <<fields'[1]>> BY <1>1
<1>11. Newest' = Newest /\ Second' = Second BY <1>1 DEF Newest, Second
<1>12. \A x \in FieldNames : fields'[1][x] = IF Holds(writing', x) THEN Second'[x] ELSE Newest'[x]
  BY <1>2, <1>5, <1>9, <1>10, <1>11
<1>13. FieldsInv' BY <1>1, <1>2, <1>3, <1>8, <1>10, <1>12 DEF FieldsInv
<1> QED BY <1>9, <1>10, <1>11, <1>13

\* A row of the state that is rewritten without a refresh.
LEMMA UpdateKeepsNextTime ==
    ASSUME NextTimeInv, RefreshesInOrder, NEW i \in DOMAIN Items, NEW t \in Nat, UpdateRefreshTime(i, t),
           refreshed[i] # << >> => DueAfter(i, LastOf(refreshed[i]), {t}, refreshEpoch[i])
    PROVE  NextTimeInv' /\ RefreshesInOrder'
<1>1. refreshTime' = [refreshTime EXCEPT ![i] = {t}] /\ refreshEpoch' = refreshEpoch /\ refreshed' = refreshed
  BY DEF UpdateRefreshTime
<1>2. RefreshesInOrder' BY <1>1 DEF RefreshesInOrder, Before, PeriodOf
<1>3. refreshTime' \in [DOMAIN Items -> SUBSET Nat] BY <1>1 DEF NextTimeInv
<1>4. ASSUME NEW j \in DOMAIN Items, refreshed[j] # << >>
      PROVE  DueAfter(j, LastOf(refreshed[j]), refreshTime'[j], refreshEpoch[j])
  <2>1. CASE j = i
    <3>1. refreshTime'[i] = {t} BY <1>1 DEF NextTimeInv
    <3> QED BY <1>4, <2>1, <3>1
  <2>2. CASE j # i
    <3>1. refreshTime'[j] = refreshTime[j] BY <1>1, <2>2 DEF NextTimeInv
    <3> QED BY <1>4, <3>1 DEF NextTimeInv
  <2> QED BY <2>1, <2>2
<1> QED BY <1>1, <1>2, <1>3, <1>4 DEF NextTimeInv, DueAfter, LastOf, EndOf

\* Refreshes that are after one another.
LEMMA BeforeIsTransitive ==
    ASSUME NEW i \in DOMAIN Items, NEW d \in RefreshOf(i), NEW e \in RefreshOf(i), NEW f \in RefreshOf(i),
           Before(i, d, e), Before(i, e, f)
    PROVE  Before(i, d, f)
<1>1. CASE Items[i].period > 0
  <2>1. d \in TimedData /\ e \in TimedData /\ f \in TimedData BY <1>1 DEF RefreshOf
  <2>2. d.began \in Nat /\ e.began \in Nat /\ f.began \in Nat /\ d.at \in Nat /\ e.at \in Nat /\ e.began <= e.at
    BY <2>1 DEF TimedData
  <2>3. Items[i].period \in Nat BY DataServiceAssumption
  <2>4. PeriodOf(i, d.began) \in Nat /\ PeriodOf(i, e.began) \in Nat /\ PeriodOf(i, f.began) \in Nat
    BY <1>1, <2>2, <2>3 DEF PeriodOf
  <2>5. /\ PeriodOf(i, d.began) < PeriodOf(i, e.began) /\ d.at <= e.began
        /\ PeriodOf(i, e.began) < PeriodOf(i, f.began) /\ e.at <= f.began
    BY <1>1 DEF Before
  <2> HIDE DEF PeriodOf
  <2>6. PeriodOf(i, d.began) < PeriodOf(i, f.began) BY <2>4, <2>5
  <2>7. d.at <= f.began BY <2>2, <2>5
  <2> QED BY <1>1, <2>6, <2>7 DEF Before
<1>2. CASE ~(Items[i].period > 0) BY <1>2 DEF RefreshOf, Before
<1> QED BY <1>1, <1>2

\* A refresh in a period or epoch after the last one.
LEMMA RefreshKeepsNextTime ==
    ASSUME NextTimeInv, RefreshesInOrder, NEW i \in DOMAIN Items, NEW times \in SUBSET Nat,
           NEW epochs \in SUBSET Nat, NEW n \in RefreshOf(i), Refresh(i, times, epochs, n),
           refreshed[i] # << >> => Before(i, LastOf(refreshed[i]), n),
           DueAfter(i, n, times, epochs)
    PROVE  NextTimeInv' /\ RefreshesInOrder'
<1> DEFINE old(j) == refreshed[j]
           new(j) == refreshed'[j]
<1>1. refreshTime' = [refreshTime EXCEPT ![i] = times] /\ refreshEpoch' = [refreshEpoch EXCEPT ![i] = epochs]
      /\ refreshed' = [refreshed EXCEPT ![i] = Append(@, n)]
  BY DEF Refresh
<1>2. refreshTime \in [DOMAIN Items -> SUBSET Nat] /\ refreshEpoch \in [DOMAIN Items -> SUBSET Nat]
      /\ refreshed \in [DOMAIN Items -> Seq(RefreshData)]
  BY DEF NextTimeInv
<1>3. old(i) \in Seq(RefreshData) /\ Len(old(i)) \in Nat /\ n \in RefreshData
  BY <1>2 DEF RefreshOf, RefreshData
<1>4. new(i) = Append(old(i), n) /\ refreshTime'[i] = times /\ refreshEpoch'[i] = epochs BY <1>1, <1>2
<1>5. ASSUME NEW j \in DOMAIN Items, j # i
      PROVE  new(j) = old(j) /\ refreshTime'[j] = refreshTime[j] /\ refreshEpoch'[j] = refreshEpoch[j]
  BY <1>1, <1>2, <1>5
<1>6. Append(old(i), n) \in Seq(RefreshData) BY <1>3
<1>7. refreshTime' \in [DOMAIN Items -> SUBSET Nat] /\ refreshEpoch' \in [DOMAIN Items -> SUBSET Nat]
  BY <1>1, <1>2
<1>8. refreshed' \in [DOMAIN Items -> Seq(RefreshData)] BY <1>1, <1>2, <1>6
<1> DEFINE last == LastOf(old(i))
<1>9. /\ \A j \in DOMAIN Items : \A k \in 1 .. Len(old(j)) : old(j)[k] \in RefreshOf(j)
      /\ \A j \in DOMAIN Items : \A k, m \in 1 .. Len(old(j)) : k < m => Before(j, old(j)[k], old(j)[m])
      /\ old(i) # << >> => Before(i, last, n)
  BY DEF RefreshesInOrder, old
<1> HIDE DEF old, new, last
<1>10. Len(new(i)) = Len(old(i)) + 1 /\ new(i)[Len(old(i)) + 1] = n /\ \A k \in 1 .. Len(old(i)) : new(i)[k] = old(i)[k]
  BY <1>3, <1>4
<1>11. \A k \in 1 .. Len(old(i)) : Before(i, old(i)[k], n)
  <2> SUFFICES ASSUME NEW k \in 1 .. Len(old(i)) PROVE Before(i, old(i)[k], n) OBVIOUS
  <2>1. Len(old(i)) \in 1 .. Len(old(i)) /\ old(i) # << >> /\ last = old(i)[Len(old(i))] BY <1>3 DEF last, LastOf
  <2>2. old(i)[k] \in RefreshOf(i) /\ last \in RefreshOf(i) /\ Before(i, last, n) BY <1>9, <2>1
  <2>3. CASE k = Len(old(i)) BY <2>1, <2>2, <2>3
  <2>4. CASE k # Len(old(i))
    <3>1. k < Len(old(i)) BY <1>3, <2>4
    <3>2. Before(i, old(i)[k], last) BY <1>9, <2>1, <3>1
    <3> QED BY <2>2, <3>2, BeforeIsTransitive
  <2> QED BY <2>3, <2>4
<1>12. ASSUME NEW j \in DOMAIN Items
       PROVE  /\ \A k \in 1 .. Len(new(j)) : new(j)[k] \in RefreshOf(j)
              /\ \A k, m \in 1 .. Len(new(j)) : k < m => Before(j, new(j)[k], new(j)[m])
  <2>1. CASE j # i BY <1>5, <1>9, <2>1
  <2>2. CASE j = i
    <3>1. \A k \in 1 .. Len(new(i)) : k \in 1 .. Len(old(i)) \/ k = Len(old(i)) + 1 BY <1>3, <1>10
    <3>2. \A k, m \in 1 .. Len(new(i)) : k < m => k \in 1 .. Len(old(i)) BY <1>3, <1>10
    <3>3. \A k \in 1 .. Len(new(i)) : new(i)[k] \in RefreshOf(i) BY <1>9, <1>10, <3>1
    <3>4. \A k, m \in 1 .. Len(new(i)) : k < m => Before(i, new(i)[k], new(i)[m])
      BY <1>9, <1>10, <1>11, <3>1, <3>2
    <3> QED BY <2>2, <3>3, <3>4
  <2> QED BY <2>1, <2>2
<1>13. ASSUME NEW j \in DOMAIN Items, new(j) # << >>
       PROVE  DueAfter(j, LastOf(new(j)), refreshTime'[j], refreshEpoch'[j])
  <2>1. CASE j = i
    <3>1. LastOf(new(i)) = n BY <1>10 DEF LastOf
    <3> QED BY <1>4, <2>1, <3>1
  <2>2. CASE j # i
    <3>1. old(j) # << >> => DueAfter(j, LastOf(old(j)), refreshTime[j], refreshEpoch[j])
      BY DEF NextTimeInv, old
    <3> QED BY <1>5, <1>13, <2>2, <3>1
  <2> QED BY <2>1, <2>2
<1>14. RefreshesInOrder' BY <1>12 DEF RefreshesInOrder, new, Before, PeriodOf
<1>15. \A j \in DOMAIN Items : refreshed'[j] # << >> =>
          DueAfter(j, LastOf(refreshed'[j]), refreshTime'[j], refreshEpoch'[j])
  BY <1>13 DEF new
<1> QED BY <1>7, <1>8, <1>14, <1>15 DEF NextTimeInv, DueAfter, LastOf, EndOf

\* A time past the end of the period of a is in a later period.
LEMMA PeriodsGrow ==
    ASSUME NEW a \in Nat, NEW b \in Nat, NEW p \in Nat, p > 0, b > a - (a % p) + p
    PROVE  a \div p < b \div p
OBVIOUS

\* Rounding a time down to its period (Truncate).
LEMMA PeriodRange ==
    ASSUME NEW a \in Nat, NEW p \in Nat, p > 0
    PROVE  a % p \in Nat /\ a % p < p /\ a % p <= a /\ a - (a % p) \in Nat /\ a \div p \in Nat
OBVIOUS

LEMMA EndIsNat ==
    ASSUME NEW i \in DOMAIN Items, Items[i].period > 0, NEW a \in Nat
    PROVE  EndOf(i, a) \in Nat
<1>1. Items[i].period \in Nat BY DataServiceAssumption
<1> QED BY <1>1, PeriodRange DEF EndOf

\* The item that is checked, and the delay it has.
LEMMA ItemIsListed ==
    ASSUME ObserverInv, observer.pc # "sleep"
    PROVE  Item \in DOMAIN Items /\ Items[Item].period \in Nat /\ Delay(Item) \in Nat
<1>1. observer.todo \in Seq(DOMAIN Items) /\ observer.todo # << >> BY DEF ObserverInv, ObserverData
<1> HIDE DEF ObserverInv
<1>2. Item \in DOMAIN Items BY <1>1 DEF Item
<1>3. Items[Item].period \in Nat /\ Items[Item].delay \subseteq Nat BY <1>2, DataServiceAssumption
<1>4. Delay(Item) \in Nat
  <2>1. CASE Items[Item].delay = {} BY <2>1 DEF Delay
  <2>2. CASE Items[Item].delay # {}
    <3>1. (CHOOSE d \in Items[Item].delay : TRUE) \in Items[Item].delay BY <2>2
    <3> QED BY <1>3, <2>2, <3>1 DEF Delay
  <2> QED BY <2>1, <2>2
<1> QED BY <1>2, <1>3, <1>4

\* What a round does when an item is done.
LEMMA NextItemTypes ==
    ASSUME ObserverInv, observer.pc # "sleep"
    PROVE  /\ NextItem \in ObserverData /\ NextItem.at <= now /\ NextItem.pc \in {"sleep", "item"}
           /\ NextItem.pc # "sleep" => NextItem.todo # << >> /\ NextItem.at = observer.at
<1>1. observer \in ObserverData /\ observer.todo # << >> /\ observer.at <= now /\ now \in Nat
  BY DataServiceAssumption DEF ObserverInv
<1>2. CASE Len(observer.todo) = 1
  <2>1. << >> \in Seq(DOMAIN Items) OBVIOUS
  <2>2. Sleeping \in ObserverData BY <2>1 DEF Sleeping, ObserverData
  <2>3. Sleeping.at = 0 /\ Sleeping.pc = "sleep" BY DEF Sleeping
  <2> QED BY <1>1, <1>2, <2>2, <2>3 DEF NextItem
<1>3. CASE Len(observer.todo) # 1
  <2> DEFINE s == observer.todo
             I == DOMAIN Items
  <2>1. s \in Seq(I) BY <1>1 DEF ObserverData
  <2> HIDE DEF I
  <2>2. Tail(s) \in Seq(I) /\ Len(Tail(s)) = Len(s) - 1 /\ Len(s) \in Nat BY <1>1, <2>1
  <2> DEFINE t == Tail(s)
  <2> HIDE DEF t
  <2>3. Len(t) \in Nat /\ Len(t) # 0 BY <1>3, <2>2, <2>1 DEF t
  <2>4. t # << >> BY <2>3
  <2>5. NextItem = [observer EXCEPT !.pc = "item", !.todo = t, !.height = 0, !.epoch = 0, !.isValidation = FALSE]
    BY <1>3 DEF NextItem, t
  <2>6. t \in Seq(DOMAIN Items) BY <2>2 DEF t, I
  <2>7. NextItem \in ObserverData BY <1>1, <2>5, <2>6 DEF ObserverData
  <2>8. NextItem.at = observer.at /\ NextItem.pc = "item" /\ NextItem.todo = t BY <1>1, <2>5 DEF ObserverData
  <2> QED BY <1>1, <2>4, <2>7, <2>8 DEF t
<1> QED BY <1>2, <1>3

\* Data of a day or an hour is decided.
LEMMA DecidePeriodNextTime ==
    ASSUME ObserverInv, NextTimeInv, LastRefreshInv, RefreshesInOrder, NEW fails \in BOOLEAN, DecidePeriod(fails)
    PROVE  NextTimeInv' /\ RefreshesInOrder'
<1> DEFINE i == Item
           p == Items[i].period
           at == observer.at
           same == UNCHANGED <<refreshTime, refreshEpoch, refreshed>>
           put == UpdateRefreshTime(i, Truncated(i) + Delay(i))
           later == UpdateRefreshTime(i, at + PostponedBy)
           new == [began |-> at, at |-> now]
           done == Refresh(i, {NextRefreshTime(i)}, {}, new)
<1>1. observer.pc = "decide" /\ p > 0 BY DEF DecidePeriod
<1>2. i \in DOMAIN Items /\ p \in Nat /\ Delay(i) \in Nat BY <1>1, ItemIsListed
<1>3. at \in Nat /\ PostponedBy \in Nat /\ now \in Nat /\ at <= now
  BY DataServiceAssumption DEF ObserverInv, ObserverData
<1>4. Truncated(i) \in Nat /\ Truncated(i) = at - (at % p) /\ at \div p \in Nat /\ at % p \in Nat
  BY <1>1, <1>2, <1>3, PeriodRange DEF Truncated
<1>5. \/ same
      \/ refreshTime[i] = {} /\ put
      \/ Due(i) /\ later
      \/ Due(i) /\ done
  <2> HIDE DEF i, p, at, same, put, later, new, done
  <2>1. CASE fails \/ (refreshTime[i] # {} /\ ~Due(i)) BY <2>1 DEF DecidePeriod, same, i
  <2>2. CASE ~fails /\ refreshTime[i] = {} /\ Items[i].delay # {} BY <2>2 DEF DecidePeriod, put, i
  <2>3. CASE ~fails /\ Due(i) /\ ~(refreshTime[i] = {} /\ Items[i].delay # {})
    BY <2>3 DEF DecidePeriod, later, new, done, i, p, at
  <2>4. refreshTime[i] = {} => Due(i) BY DEF Due
  <2> QED BY <2>1, <2>2, <2>3, <2>4
<1> DEFINE last == LastOf(refreshed[i])
<1>6. refreshed[i] # << >> => DueAfter(i, last, refreshTime[i], refreshEpoch[i])
  BY <1>2 DEF NextTimeInv
<1>7. refreshTime[i] \subseteq Nat BY <1>2 DEF NextTimeInv
<1>8. refreshed[i] # << >> => last \in TimedData /\ last.began \in Nat /\ last.at \in Nat
  <2> SUFFICES ASSUME refreshed[i] # << >> PROVE last \in TimedData BY DEF TimedData
  <2>1. refreshed[i] \in Seq(RefreshData) BY <1>2 DEF NextTimeInv
  <2>2. Len(refreshed[i]) \in 1 .. Len(refreshed[i]) BY <2>1
  <2>3. last \in RefreshOf(i) BY <1>2, <2>2 DEF RefreshesInOrder, LastOf
  <2> QED BY <1>1, <2>3 DEF RefreshOf
<1>9. refreshed[i] # << >> /\ Due(i) => at > EndOf(i, last.began)
  <2> SUFFICES ASSUME refreshed[i] # << >>, Due(i) PROVE at > EndOf(i, last.began) OBVIOUS
  <2>1. PICK t \in refreshTime[i] : TRUE BY <1>1, <1>6 DEF DueAfter
  <2>2. t \in Nat /\ t < at BY <2>1, <1>7 DEF Due
  <2>3. t >= EndOf(i, last.began) BY <1>1, <1>6, <2>1 DEF DueAfter
  <2> DEFINE e == EndOf(i, last.began)
  <2>4. e \in Nat BY <1>1, <1>2, <1>8, EndIsNat
  <2> HIDE DEF e, at
  <2>5. at > e BY <1>3, <2>2, <2>3, <2>4 DEF e
  <2> QED BY <2>5 DEF e
<1>10. refreshed[i] # << >> => last.at <= at \/ last.began = at
  BY <1>1, <1>2 DEF LastRefreshInv
<1> HIDE DEF i, p, at, last
<1>11. CASE same BY <1>11 DEF NextTimeInv, RefreshesInOrder, Before, PeriodOf, DueAfter, EndOf, LastOf
<1>12. CASE refreshTime[i] = {} /\ put
  <2>1. refreshed[i] = << >> BY <1>1, <1>6, <1>12 DEF DueAfter, p
  <2>2. Truncated(i) + Delay(i) \in Nat BY <1>2, <1>4
  <2> QED BY <1>2, <1>12, <2>1, <2>2, UpdateKeepsNextTime
<1>13. CASE Due(i) /\ later
  <2>1. at + PostponedBy \in Nat BY <1>3
  <2>2. refreshed[i] # << >> => DueAfter(i, last, {at + PostponedBy}, refreshEpoch[i])
    <3> SUFFICES ASSUME refreshed[i] # << >> PROVE DueAfter(i, last, {at + PostponedBy}, refreshEpoch[i])
      OBVIOUS
    <3> DEFINE e == EndOf(i, last.began)
    <3>1. at > e BY <1>9, <1>13
    <3>2. e \in Nat BY <1>1, <1>2, <1>8, EndIsNat DEF p
    <3> HIDE DEF e
    <3>3. at + PostponedBy >= e BY <1>3, <3>1, <3>2
    <3> QED BY <1>1, <3>3 DEF DueAfter, p, e
  <2> QED BY <1>2, <1>13, <2>1, <2>2, UpdateKeepsNextTime DEF last
<1>14. CASE Due(i) /\ done
  <2>1. NextRefreshTime(i) \in Nat /\ NextRefreshTime(i) >= at - (at % p) + p
    BY <1>2, <1>3, <1>4 DEF NextRefreshTime, p
  <2>2. new \in TimedData /\ new.began = at BY <1>3 DEF TimedData
  <2>3. new \in RefreshOf(i) BY <1>1, <2>2 DEF RefreshOf, p
  <2>4. refreshed[i] # << >> => Before(i, last, new)
    <3> SUFFICES ASSUME refreshed[i] # << >> PROVE Before(i, last, new) OBVIOUS
    <3> DEFINE b == last.began
    <3>1. b \in Nat /\ at > b - (b % p) + p BY <1>8, <1>9, <1>14 DEF EndOf, p
    <3> HIDE DEF b
    <3>2. b \div p < at \div p BY <1>1, <1>2, <1>3, <3>1, PeriodsGrow
    <3>3. b # at
      <4>1. b % p \in Nat /\ b % p < p BY <1>1, <1>2, <3>1, PeriodRange
      <4> QED BY <1>2, <1>3, <3>1, <4>1
    <3>4. last.at <= at BY <1>10, <3>3 DEF b
    <3> QED BY <1>1, <2>2, <3>2, <3>4 DEF Before, PeriodOf, p, b
  <2>5. DueAfter(i, new, {NextRefreshTime(i)}, {}) BY <1>1, <2>1, <2>2 DEF DueAfter, EndOf, p
  <2> HIDE DEF new
  <2> QED BY <1>2, <1>4, <1>14, <2>1, <2>3, <2>4, <2>5, RefreshKeepsNextTime DEF last
<1> QED BY <1>5, <1>12, <1>13, <1>14, <1>11

\* Data of an epoch is decided.
LEMMA DecideEpochNextTime ==
    ASSUME ObserverInv, NextTimeInv, RefreshesInOrder, NEW fails \in BOOLEAN, DecideEpoch(fails)
    PROVE  NextTimeInv' /\ RefreshesInOrder'
<1> DEFINE i == Item
           n == observer.epoch
           same == UNCHANGED <<refreshTime, refreshEpoch, refreshed>>
           put == UpdateRefreshTime(i, observer.at + Delay(i))
           done == Refresh(i, {}, {NextEpoch(n)}, n)
<1>1. observer.pc = "decide" /\ Items[i].period = 0 BY DEF DecideEpoch
<1>2. i \in DOMAIN Items /\ Delay(i) \in Nat BY <1>1, ItemIsListed
<1>3. observer.at \in Nat /\ n \in Nat BY DEF ObserverInv, ObserverData
<1>4. refreshEpoch[i] \subseteq Nat BY <1>2 DEF NextTimeInv
<1> HIDE DEF i, n, same, put, done
<1>5. \/ same
      \/ put
      \/ (\A e \in refreshEpoch[i] : n >= e) /\ done
  <2>1. (\E e \in refreshEpoch[i] : n < e) <=> ~\A e \in refreshEpoch[i] : n >= e BY <1>3, <1>4
  <2>2. CASE fails \/ \E e \in refreshEpoch[i] : n < e BY <2>1, <2>2 DEF DecideEpoch, same, i, n
  <2>3. CASE ~fails /\ \A e \in refreshEpoch[i] : n >= e BY <2>1, <2>3 DEF DecideEpoch, same, put, done, i, n
  <2> QED BY <2>1, <2>2, <2>3
<1> DEFINE last == LastOf(refreshed[i])
<1>6. refreshed[i] # << >> => DueAfter(i, last, refreshTime[i], refreshEpoch[i])
  BY <1>2 DEF NextTimeInv
<1>7. refreshed[i] # << >> => \E e \in refreshEpoch[i] : last < e BY <1>1, <1>6 DEF DueAfter, i
<1>8. CASE same BY <1>8 DEF same, NextTimeInv, RefreshesInOrder, Before, PeriodOf, DueAfter, EndOf, LastOf
<1>9. CASE put
  <2>1. observer.at + Delay(i) \in Nat BY <1>2, <1>3
  <2>2. refreshed[i] # << >> => DueAfter(i, last, {observer.at + Delay(i)}, refreshEpoch[i])
    BY <1>1, <1>7 DEF DueAfter, i
  <2> QED BY <1>2, <1>9, <2>1, <2>2, UpdateKeepsNextTime DEF put
<1>10. CASE (\A e \in refreshEpoch[i] : n >= e) /\ done
  <2>1. NextEpoch(n) \in Nat /\ n < NextEpoch(n) BY <1>3 DEF NextEpoch
  <2>2. DueAfter(i, n, {}, {NextEpoch(n)}) BY <1>1, <2>1 DEF DueAfter, i
  <2>3. refreshed[i] # << >> => last \in Nat
    <3>1. refreshed[i] \in Seq(RefreshData) BY <1>2 DEF NextTimeInv
    <3>2. refreshed[i] # << >> => Len(refreshed[i]) \in 1 .. Len(refreshed[i]) BY <3>1
    <3>3. refreshed[i] # << >> => last \in RefreshOf(i) BY <1>2, <3>2 DEF RefreshesInOrder, LastOf
    <3> QED BY <1>1, <3>3 DEF RefreshOf, i
  <2>4. refreshed[i] # << >> => last < n
    <3> HIDE DEF last
    <3> QED BY <1>3, <1>4, <1>7, <1>10, <2>3
  <2>5. n \in RefreshOf(i) BY <1>1, <1>3 DEF RefreshOf, i
  <2>6. refreshed[i] # << >> => Before(i, last, n) BY <1>1, <2>4 DEF Before, i
  <2> QED BY <1>2, <1>10, <2>1, <2>2, <2>5, <2>6, RefreshKeepsNextTime DEF done
<1> QED BY <1>5, <1>8, <1>9, <1>10

\* What the decision adds to the refreshes of an item, by the time of the round
\* and the time now.
LEMMA DecideRecords ==
    ASSUME ObserverInv, NextTimeInv, NEW fails \in BOOLEAN, DecidePeriod(fails) \/ DecideEpoch(fails),
           NEW j \in DOMAIN Items, Items[j].period > 0
    PROVE  \/ refreshed'[j] = refreshed[j]
           \/ LastOf(refreshed'[j]) = [began |-> observer.at, at |-> now]
<1> DEFINE i == Item
           new == [began |-> observer.at, at |-> now]
<1> HIDE DEF i, new
<1>1. refreshed \in [DOMAIN Items -> Seq(RefreshData)] BY DEF NextTimeInv
<1>2. CASE DecidePeriod(fails)
  <2>1. refreshed' = refreshed \/ Refresh(i, {NextRefreshTime(i)}, {}, new)
    <3>1. CASE fails \/ (refreshTime[i] # {} /\ ~Due(i)) BY <1>2, <3>1 DEF DecidePeriod, i
    <3>2. CASE ~fails /\ refreshTime[i] = {} /\ Items[i].delay # {}
      BY <1>2, <3>2 DEF DecidePeriod, UpdateRefreshTime, i
    <3>3. CASE ~fails /\ Due(i) /\ ~(refreshTime[i] = {} /\ Items[i].delay # {})
      BY <1>2, <3>3 DEF DecidePeriod, UpdateRefreshTime, i, new
    <3>4. refreshTime[i] = {} => Due(i) BY DEF Due
    <3> QED BY <3>1, <3>2, <3>3, <3>4
  <2>2. CASE refreshed' = refreshed BY <2>2
  <2>3. CASE Refresh(i, {NextRefreshTime(i)}, {}, new)
    <3>1. refreshed' = [refreshed EXCEPT ![i] = Append(@, new)] BY <2>3 DEF Refresh
    <3>2. j # i => refreshed'[j] = refreshed[j] BY <1>1, <3>1
    <3>3. j = i => refreshed'[j] = Append(refreshed[j], new) BY <1>1, <3>1
    <3>4. LastOf(Append(refreshed[j], new)) = new
      <4>1. refreshed[j] \in Seq(RefreshData \cup {new}) BY <1>1
      <4> QED BY <4>1 DEF LastOf
    <3> QED BY <3>2, <3>3, <3>4 DEF new
  <2> QED BY <2>1, <2>2, <2>3
<1>3. CASE DecideEpoch(fails)
  <2>1. Items[i].period = 0 BY <1>3 DEF DecideEpoch, i
  <2>2. j # i BY <2>1
  <2>3. i \in DOMAIN Items BY <1>3, ItemIsListed DEF DecideEpoch, i
  <2>4. observer.epoch \in Nat /\ refreshEpoch[i] \subseteq Nat BY <2>3 DEF ObserverInv, ObserverData, NextTimeInv
  <2>5. (\E e \in refreshEpoch[i] : observer.epoch < e) \/ \A e \in refreshEpoch[i] : observer.epoch >= e
    BY <2>4
  <2>6. refreshed' = refreshed \/ \E n : refreshed' = [refreshed EXCEPT ![i] = Append(@, n)]
    BY <1>3, <2>5 DEF DecideEpoch, UpdateRefreshTime, Refresh, i
  <2> QED BY <1>1, <2>2, <2>6
<1> QED BY <1>2, <1>3

\* The last two blocks, and which of them the fields are those of.
LEMMA FieldFacts ==
    ASSUME FieldsInv, fields # << >>
    PROVE  /\ Newest \in BlockData /\ Newest.epochHeight <= Newest.height /\ fields[1] \in BlockData
           /\ writing # << >> =>
                /\ Second \in BlockData /\ Newest.height = Second.height + 1
                /\ Second.epochHeight <= Second.height
                /\ Calm(Second) => ~Newest.validation /\ Newest.epochHeight = Second.epochHeight
                /\ fields[1].validation = Second.validation
           /\ writing = << >> => \A x \in FieldNames : fields[1][x] = Newest[x]
           /\ fields[1].height = Newest.height \/ (writing # << >> /\ fields[1].height = Second.height)
           /\ fields[1].epochHeight = Newest.epochHeight
                \/ (writing # << >> /\ fields[1].epochHeight = Second.epochHeight)
<1> DEFINE D == BlockData
           n == Len(blocks)
<1>1. blocks \in Seq(D) /\ n \in Nat BY DEF FieldsInv
<1>2. blocks # << >> BY DEF FieldsInv
<1> HIDE DEF D
<1>3. n \in 1 .. n BY <1>1, <1>2
<1>4. Newest \in D /\ Newest.height = n /\ Newest.epochHeight <= n
  <2>1. blocks[n] \in D BY <1>1, <1>3
  <2> QED BY <1>3, <2>1 DEF FieldsInv, Newest
<1>5. writing # << >> =>
        /\ Second \in D /\ n = Second.height + 1 /\ Second.epochHeight <= Second.height
        /\ Calm(Second) => ~Newest.validation /\ Newest.epochHeight = Second.epochHeight
  <2> SUFFICES ASSUME writing # << >>
               PROVE  /\ Second \in D /\ n = Second.height + 1 /\ Second.epochHeight <= Second.height
                      /\ Calm(Second) => ~Newest.validation /\ Newest.epochHeight = Second.epochHeight
    OBVIOUS
  <2>1. n - 1 \in 1 .. n /\ n - 1 \in 1 .. n - 1 /\ (n - 1) + 1 = n BY <1>1 DEF FieldsInv
  <2>2. blocks[n - 1] \in D BY <1>1, <2>1
  <2>3. blocks[n - 1].height = n - 1 /\ blocks[n - 1].epochHeight <= n - 1 BY <2>1 DEF FieldsInv
  <2>4. Calm(blocks[n - 1]) => ~blocks[n].validation /\ blocks[n].epochHeight = blocks[n - 1].epochHeight
    <3>1. Calm(blocks[n - 1]) => ~blocks[(n - 1) + 1].validation
                                  /\ blocks[(n - 1) + 1].epochHeight = blocks[n - 1].epochHeight
      BY <2>1 DEF FieldsInv
    <3> QED BY <2>1, <3>1
  <2> QED BY <2>1, <2>2, <2>3, <2>4 DEF Second, Newest
<1>6. fields[1] \in BlockData /\ \A x \in FieldNames : fields[1][x] = IF Holds(writing, x) THEN Second[x] ELSE Newest[x]
  BY <1>2 DEF FieldsInv
<1>7. writing = << >> => \A x \in FieldNames : ~Holds(writing, x) BY HoldsTable
<1>8. writing # << >> => Holds(writing, "validation")
  <2>1. writing \in Unwritten BY DEF FieldsInv
  <2> QED BY <2>1, HoldsTable DEF Unwritten, FieldNames
<1>9. {"height", "epochHeight", "validation"} \subseteq FieldNames BY DEF FieldNames
<1>10. writing # << >> => fields[1].validation = Second.validation BY <1>6, <1>8, <1>9
<1>11. writing = << >> => \A x \in FieldNames : fields[1][x] = Newest[x] BY <1>6, <1>7
<1>12. fields[1].height = Newest.height \/ (writing # << >> /\ fields[1].height = Second.height)
  BY <1>6, <1>7, <1>9
<1>13. fields[1].epochHeight = Newest.epochHeight \/ (writing # << >> /\ fields[1].epochHeight = Second.epochHeight)
  BY <1>6, <1>7, <1>9
<1> QED BY <1>4, <1>5, <1>6, <1>10, <1>11, <1>12, <1>13 DEF D

\* A block that is not quiet and not of a validation is calm.
LEMMA CalmOrQuiet ==
    ASSUME NEW b \in BlockData, ~b.validation, ~Quiet(b)
    PROVE  Calm(b)
BY DataServiceAssumption DEF BlockData, Calm, Quiet

\* The invariant at the start.
LEMMA InitRefreshInv == DataInit => RefreshInv
<1> SUFFICES ASSUME DataInit PROVE RefreshInv OBVIOUS
<1>1. FieldsInv
  <2>1. blocks \in Seq(BlockData) /\ Len(blocks) = 0 BY DEF DataInit
  <2> QED BY <2>1, DataServiceAssumption DEF DataInit, FieldsInv, Unwritten
<1>2. observer = Sleeping /\ observer.pc = "sleep" /\ observer.at = 0 BY DEF DataInit, Sleeping
<1>3. ReadingInv /\ RefreshesAvoidValidation BY <1>2 DEF ReadingInv, RefreshesAvoidValidation
<1>4. << >> \in Seq(DOMAIN Items) OBVIOUS
<1>5. Sleeping \in ObserverData BY <1>4 DEF Sleeping, ObserverData
<1>6. ObserverInv BY <1>2, <1>5, DataServiceAssumption DEF ObserverInv, DataInit
<1>7. \A i \in DOMAIN Items : refreshed[i] = << >> BY DEF DataInit
<1>8. << >> \in Seq(Nat) OBVIOUS
<1>9. NextTimeInv BY <1>7, <1>8 DEF DataInit, NextTimeInv
<1>10. RefreshesInOrder
  <2>1. \A i \in DOMAIN Items : Len(refreshed[i]) = 0 BY <1>7
  <2> QED BY <2>1 DEF RefreshesInOrder
<1>11. LastRefreshInv BY <1>7 DEF LastRefreshInv
<1> QED BY <1>1, <1>3, <1>6, <1>9, <1>10, <1>11 DEF RefreshInv

\* The last refresh of data of a day or an hour.
LEMMA LastIsTimed ==
    ASSUME NextTimeInv, RefreshesInOrder, NEW i \in DOMAIN Items, Items[i].period > 0, refreshed[i] # << >>
    PROVE  LastOf(refreshed[i]) \in TimedData /\ LastOf(refreshed[i]).at \in Nat
<1>1. refreshed[i] \in Seq(RefreshData) BY DEF NextTimeInv
<1>2. Len(refreshed[i]) \in 1 .. Len(refreshed[i]) BY <1>1
<1>3. LastOf(refreshed[i]) \in RefreshOf(i) BY <1>2 DEF RefreshesInOrder, LastOf
<1>4. LastOf(refreshed[i]) \in TimedData BY <1>3 DEF RefreshOf
<1> QED BY <1>4 DEF TimedData

\* The last refresh stays what it was while its round goes on and time passes.
LEMMA LastRefreshStays ==
    ASSUME NextTimeInv, RefreshesInOrder, LastRefreshInv, now \in Nat, now' \in Nat, now <= now',
           refreshed' = refreshed,
           observer'.pc # "sleep" => observer.pc # "sleep" /\ observer'.at = observer.at
    PROVE  LastRefreshInv'
<1> SUFFICES ASSUME NEW i \in DOMAIN Items, Items[i].period > 0, refreshed[i] # << >>
             PROVE  /\ LastOf(refreshed[i]).at <= now'
                    /\ observer'.pc # "sleep" => \/ LastOf(refreshed[i]).at <= observer'.at
                                                \/ LastOf(refreshed[i]).began = observer'.at
  BY DEF LastRefreshInv, LastOf
<1> DEFINE last == LastOf(refreshed[i])
<1>1. last.at \in Nat BY LastIsTimed
<1>2. last.at <= now /\ (observer.pc # "sleep" => last.at <= observer.at \/ last.began = observer.at)
  BY DEF LastRefreshInv
<1> HIDE DEF last
<1>3. last.at <= now' BY <1>1, <1>2
<1> QED BY <1>2, <1>3 DEF last

\* Actions of the handlers leave what only the observer changes.
LEMMA HandlersKeep ==
    ASSUME ObserverInv, NextTimeInv, RefreshesInOrder, LastRefreshInv, RefreshesAvoidValidation,
           UNCHANGED <<now, refreshTime, refreshEpoch, observer, refreshed>>,
           sawQuiet => sawQuiet'
    PROVE  /\ ObserverInv' /\ NextTimeInv' /\ RefreshesInOrder' /\ LastRefreshInv'
           /\ RefreshesAvoidValidation'
<1>1. ObserverInv' BY DEF ObserverInv
<1>2. NextTimeInv' BY DEF NextTimeInv
<1>3. RefreshesInOrder' BY DEF RefreshesInOrder
<1>4. RefreshesAvoidValidation' BY DEF RefreshesAvoidValidation, Item
<1>5. LastRefreshInv' BY DEF LastRefreshInv
<1> QED BY <1>1, <1>2, <1>3, <1>4, <1>5

\* A block on top of the chain, between two reads of the observer.
LEMMA IndexBlockRefreshInv ==
    ASSUME RefreshInv, NEW validation \in BOOLEAN, NEW finished \in BOOLEAN,
           IndexBlock(validation, finished)
    PROVE  RefreshInv'
<1> USE DEF RefreshInv
<1>1. FieldsInv' /\ Second' = Newest /\ (Calm(Newest) => Newest'.epochHeight = Newest.epochHeight)
      /\ (Calm(Newest) => ~Newest'.validation) /\ Newest' \in BlockData
  BY IndexBlockFields
<1>2. fields' = fields /\ observer' = observer /\ (sawQuiet => sawQuiet')
      /\ UNCHANGED <<now, refreshTime, refreshEpoch, observer, refreshed>>
  BY DEF IndexBlock
<1>3. ObserverInv' /\ NextTimeInv' /\ RefreshesInOrder' /\ LastRefreshInv' /\ RefreshesAvoidValidation'
  BY <1>2, HandlersKeep
<1>4. ReadingInv'
  <2>1. observer'.pc # "sleep" => fields' # << >> BY <1>2 DEF ReadingInv
  <2> SUFFICES ASSUME observer.pc \in {"height", "epochHeight"}, ~sawQuiet'
               PROVE  /\ Calm(Newest') /\ Second'.epochHeight = Newest'.epochHeight
                      /\ fields[1].epochHeight = Newest'.epochHeight
                      /\ Newest'.epochHeight <= fields[1].height
                      /\ observer.pc = "epochHeight" =>
                           Newest'.epochHeight <= observer.height /\ observer.height <= Newest'.height
    BY <1>2, <2>1 DEF ReadingInv, Calm
  <2>2. ~sawQuiet BY <1>2
  <2>3. /\ fields # << >> /\ Calm(Newest) /\ fields[1].epochHeight = Newest.epochHeight
        /\ Newest.epochHeight <= fields[1].height
        /\ observer.pc = "epochHeight" =>
             Newest.epochHeight <= observer.height /\ observer.height <= Newest.height
    BY <2>2 DEF ReadingInv
  <2>4. Last(blocks') = Newest' BY DEF Last, Newest
  <2>5. ~Quiet(Newest') BY <2>4 DEF IndexBlock
  <2>6. Calm(Newest') BY <1>1, <2>3, <2>5, CalmOrQuiet
  <2>7. Newest.height \in Nat /\ Newest'.height = Newest.height + 1
    <3>1. Newest \in BlockData BY <2>3, FieldFacts
    <3>2. Newest.height = Len(blocks) /\ Newest'.height = Len(blocks') /\ Len(blocks') = Len(blocks) + 1
      <4>1. Len(blocks) \in 1 .. Len(blocks) /\ blocks \in Seq(BlockData) BY DEF FieldsInv, IndexBlock
      <4>2. Len(blocks') = Len(blocks) + 1 BY <4>1 DEF IndexBlock
      <4>3. Len(blocks') \in 1 .. Len(blocks') BY <4>1, <4>2
      <4>4. Newest'.height = Len(blocks') BY <1>1, <4>3 DEF FieldsInv, Newest
      <4>5. Newest.height = Len(blocks) BY <4>1 DEF FieldsInv, Newest
      <4> QED BY <4>2, <4>4, <4>5
    <3> QED BY <3>1, <3>2 DEF BlockData
  <2>8. observer.height \in Nat BY DEF ObserverInv, ObserverData
  <2> QED BY <1>1, <2>3, <2>6, <2>7, <2>8
<1> QED BY <1>1, <1>3, <1>4

\* The first block after a start or a reset, between two reads of the observer.
LEMMA IndexAfterResetRefreshInv ==
    ASSUME RefreshInv, NEW p \in 0 .. MaxBlocks, NEW validation \in BOOLEAN, NEW finished \in BOOLEAN,
           IndexAfterReset(p, validation, finished)
    PROVE  RefreshInv'
<1> USE DEF RefreshInv
<1>1. FieldsInv' /\ fields' # << >> BY IndexAfterResetFields
<1>2. sawQuiet' /\ UNCHANGED <<now, refreshTime, refreshEpoch, observer, refreshed>>
  BY DEF IndexAfterReset
<1>3. ObserverInv' /\ NextTimeInv' /\ RefreshesInOrder' /\ LastRefreshInv' /\ RefreshesAvoidValidation'
  BY <1>2, HandlersKeep
<1>4. ReadingInv' BY <1>1, <1>2 DEF ReadingInv
<1> QED BY <1>1, <1>3, <1>4

\* A field that a handler writes between two reads of the observer.
LEMMA WriteFieldRefreshInv ==
    ASSUME RefreshInv, WriteField
    PROVE  RefreshInv'
<1> USE DEF RefreshInv
<1>1. /\ FieldsInv' /\ Newest' = Newest /\ Second' = Second /\ fields' # << >>
      /\ \A x \in FieldNames : fields'[1][x] \in {fields[1][x], Newest[x]}
  BY WriteFieldFields
<1>2. sawQuiet' = sawQuiet /\ observer' = observer /\ UNCHANGED <<now, refreshTime, refreshEpoch, observer, refreshed>>
      /\ writing # << >>
  BY DEF WriteField
<1>3. ObserverInv' /\ NextTimeInv' /\ RefreshesInOrder' /\ LastRefreshInv' /\ RefreshesAvoidValidation'
  BY <1>2, HandlersKeep
<1>4. fields'[1].height \in {fields[1].height, Newest.height}
      /\ fields'[1].epochHeight \in {fields[1].epochHeight, Newest.epochHeight}
  BY <1>1 DEF FieldNames
<1>5. ReadingInv'
  <2> SUFFICES ASSUME observer.pc \in {"height", "epochHeight"}, ~sawQuiet
               PROVE  /\ Calm(Newest) /\ Second.epochHeight = Newest.epochHeight
                      /\ fields'[1].epochHeight = Newest.epochHeight
                      /\ Newest.epochHeight <= fields'[1].height
                      /\ observer.pc = "epochHeight" =>
                           Newest.epochHeight <= observer.height /\ observer.height <= Newest.height
    BY <1>1, <1>2 DEF ReadingInv, Calm
  <2>1. /\ fields # << >> /\ Calm(Newest) /\ Second.epochHeight = Newest.epochHeight
        /\ fields[1].epochHeight = Newest.epochHeight /\ Newest.epochHeight <= fields[1].height
        /\ observer.pc = "epochHeight" =>
             Newest.epochHeight <= observer.height /\ observer.height <= Newest.height
    BY <1>2 DEF ReadingInv
  <2>2. Newest.epochHeight <= Newest.height BY <2>1, FieldFacts
  <2> QED BY <1>4, <2>1, <2>2
<1> QED BY <1>1, <1>3, <1>5

\* Reads of the observer leave the chain, the fields and the table.
LEMMA ReadsKeep ==
    ASSUME RefreshInv, UNCHANGED <<blocks, fields, writing, refreshTime, refreshEpoch, refreshed>>
    PROVE  FieldsInv' /\ NextTimeInv' /\ RefreshesInOrder' /\ Newest' = Newest /\ Second' = Second
<1> USE DEF RefreshInv
<1>1. Newest' = Newest /\ Second' = Second BY DEF Newest, Second
<1>2. FieldsInv' BY <1>1 DEF FieldsInv, Calm
<1>3. NextTimeInv' BY DEF NextTimeInv, DueAfter, EndOf, LastOf
<1>4. RefreshesInOrder' BY DEF RefreshesInOrder, Before, PeriodOf
<1> QED BY <1>1, <1>2, <1>3, <1>4

\* A round begins.
LEMMA GetDataListRefreshInv ==
    ASSUME RefreshInv, GetDataList
    PROVE  RefreshInv'
<1> DEFINE I == DOMAIN Items
           s == SetToSeq(I)
<1>1. s \in Seq(I) /\ s # << >>
  <2>1. IsFiniteSet(I) /\ I # {} BY DataServiceAssumption DEF GetDataList
  <2> HIDE DEF I
  <2>2. Cardinality(I) \in Nat /\ Cardinality(I) # 0 BY <2>1, FS_CardinalityType, FS_EmptySet
  <2>3. \E f \in [1 .. Cardinality(I) -> I] : \A a, b \in DOMAIN f : f[a] = f[b] => a = b
    <3>1. ExistsBijection(1 .. Cardinality(I), I) BY <2>1, FS_CardinalityType
    <3>2. PICK f \in Bijection(1 .. Cardinality(I), I) : TRUE BY <3>1 DEF ExistsBijection
    <3>3. f \in [1 .. Cardinality(I) -> I] /\ \A a, b \in 1 .. Cardinality(I) : f[a] = f[b] => a = b
      BY <3>2 DEF Bijection, Injection, IsInjective
    <3>4. DOMAIN f = 1 .. Cardinality(I) BY <3>3
    <3> QED BY <3>3, <3>4
  <2>4. s \in [1 .. Cardinality(I) -> I] BY <2>3 DEF SetToSeq, IsInjective
  <2>5. s \in Seq(I) /\ Len(s) = Cardinality(I) BY <2>2, <2>4
  <2> QED BY <2>2, <2>5
<1> HIDE DEF s, I
<1>2. observer' = [Sleeping EXCEPT !.pc = "item", !.todo = s, !.at = now] /\ fields # << >>
      /\ UNCHANGED <<blocks, fields, writing, now, refreshTime, refreshEpoch, refreshed>>
  BY DEF GetDataList, s, I
<1>3. observer'.pc = "item" /\ observer'.todo = s /\ observer'.at = now BY <1>2 DEF Sleeping
<1>4. now \in 0 .. MaxNow /\ now \in Nat BY DataServiceAssumption DEF RefreshInv, ObserverInv
<1>5. observer' \in ObserverData BY <1>1, <1>2, <1>4 DEF Sleeping, ObserverData, I
<1>6. ObserverInv' BY <1>1, <1>2, <1>3, <1>4, <1>5 DEF ObserverInv
<1>7. ReadingInv' /\ RefreshesAvoidValidation' BY <1>2, <1>3 DEF ReadingInv, RefreshesAvoidValidation
<1>8. LastRefreshInv' BY <1>2, <1>3, <1>4 DEF RefreshInv, LastRefreshInv, LastOf, GetDataList
<1> QED BY <1>2, <1>6, <1>7, <1>8, ReadsKeep DEF RefreshInv

\* isValidation reads the period: unless the chain is quiet, the last block and
\* the one whose fields are still there are calm.
LEMMA ReadPeriodRefreshInv ==
    ASSUME RefreshInv, ReadPeriod
    PROVE  RefreshInv'
<1> DEFINE v == fields[1].validation
           pc == IF v THEN "decide" ELSE "height"
<1>1. observer.pc = "item" /\ observer' = [observer EXCEPT !.pc = pc, !.isValidation = v]
      /\ UNCHANGED <<blocks, fields, writing, now, refreshTime, refreshEpoch, refreshed>>
      /\ (~sawQuiet' => ~Quiet(Last(blocks)) /\ (writing # << >> => ~Quiet(blocks[Len(blocks) - 1])))
  BY DEF ReadPeriod, ObserverTurns
<1>2. FieldsInv' /\ NextTimeInv' /\ RefreshesInOrder' /\ Newest' = Newest /\ Second' = Second
  BY <1>1, ReadsKeep
<1>3. fields # << >> BY <1>1 DEF RefreshInv, ReadingInv
<1>4. v \in BOOLEAN BY <1>3, FieldFacts DEF RefreshInv, BlockData
<1>5. observer \in ObserverData /\ observer.todo # << >> /\ observer.at <= now /\ now \in 0 .. MaxNow
  BY <1>1 DEF RefreshInv, ObserverInv
<1> HIDE DEF v
<1>6. observer' \in ObserverData /\ observer'.pc = pc /\ observer'.isValidation = v
      /\ observer'.todo = observer.todo /\ observer'.at = observer.at
  BY <1>1, <1>4, <1>5 DEF ObserverData
<1>7. ObserverInv' BY <1>1, <1>5, <1>6 DEF ObserverInv
<1>8. RefreshesAvoidValidation' BY <1>4, <1>6 DEF RefreshesAvoidValidation
<1>9. ReadingInv'
  <2>1. observer'.pc # "sleep" => fields' # << >> BY <1>1, <1>3
  <2>2. observer'.pc # "epochHeight" BY <1>6
  <2> SUFFICES ASSUME ~v, ~sawQuiet'
               PROVE  /\ Calm(Newest)
                      /\ writing # << >> => Second.epochHeight = Newest.epochHeight
                      /\ fields[1].epochHeight = Newest.epochHeight
                      /\ Newest.epochHeight <= fields[1].height
    BY <1>1, <1>2, <1>6, <2>1, <2>2 DEF ReadingInv, Calm
  <2>3. ~Quiet(Newest) /\ (writing # << >> => ~Quiet(Second)) BY <1>1 DEF Newest, Second, Last
  <2>4. FieldsInv BY DEF RefreshInv
  <2>5. CASE writing = << >>
    <3>1. fields[1].validation = Newest.validation BY <1>3, <2>4, <2>5, FieldFacts DEF FieldNames
    <3>2. Calm(Newest) BY <1>3, <2>3, <2>4, <3>1, FieldFacts, CalmOrQuiet DEF v
    <3>3. fields[1].height = Newest.height /\ fields[1].epochHeight = Newest.epochHeight
          /\ Newest.epochHeight <= Newest.height
      BY <1>3, <2>4, <2>5, FieldFacts
    <3> QED BY <2>5, <3>2, <3>3
  <2>6. CASE writing # << >>
    <3>1. /\ Newest \in BlockData /\ Newest.epochHeight <= Newest.height
          /\ Second \in BlockData /\ Newest.height = Second.height + 1
          /\ Second.epochHeight <= Second.height
          /\ Calm(Second) => ~Newest.validation /\ Newest.epochHeight = Second.epochHeight
          /\ fields[1].validation = Second.validation
          /\ fields[1].height = Newest.height \/ fields[1].height = Second.height
          /\ fields[1].epochHeight = Newest.epochHeight \/ fields[1].epochHeight = Second.epochHeight
      BY <1>3, <2>4, <2>6, FieldFacts
    <3>2. Calm(Second) BY <2>3, <2>6, <3>1, CalmOrQuiet DEF v
    <3>3. Calm(Newest) BY <2>3, <3>1, <3>2, CalmOrQuiet
    <3> QED BY <3>1, <3>2, <3>3
  <2> QED BY <2>5, <2>6
<1>10. LastRefreshInv' BY <1>1, <1>5, <1>6, LastRefreshStays, DataServiceAssumption DEF RefreshInv
<1> QED BY <1>2, <1>7, <1>8, <1>9, <1>10 DEF RefreshInv

\* isValidation reads the height.
LEMMA ReadHeightRefreshInv ==
    ASSUME RefreshInv, ReadHeight
    PROVE  RefreshInv'
<1>1. observer.pc = "height" /\ observer' = [observer EXCEPT !.pc = "epochHeight", !.height = fields[1].height]
      /\ UNCHANGED <<blocks, fields, writing, now, refreshTime, refreshEpoch, refreshed, sawQuiet>>
  BY DEF ReadHeight, ObserverTurns
<1>2. FieldsInv' /\ NextTimeInv' /\ RefreshesInOrder' /\ Newest' = Newest /\ Second' = Second
  BY <1>1, ReadsKeep
<1>3. fields # << >> /\ FieldsInv BY <1>1 DEF RefreshInv, ReadingInv
<1>4. fields[1] \in BlockData BY <1>3, FieldFacts
<1>5. observer \in ObserverData /\ observer.todo # << >> /\ observer.at <= now /\ now \in 0 .. MaxNow
  BY <1>1 DEF RefreshInv, ObserverInv
<1>6. observer' \in ObserverData /\ observer'.pc = "epochHeight" /\ observer'.height = fields[1].height
      /\ observer'.todo = observer.todo /\ observer'.at = observer.at
  BY <1>1, <1>4, <1>5 DEF ObserverData, BlockData
<1>7. ObserverInv' BY <1>1, <1>5, <1>6 DEF ObserverInv
<1>8. RefreshesAvoidValidation' BY <1>6 DEF RefreshesAvoidValidation
<1>9. fields[1].height <= Newest.height
  <2>1. /\ Newest \in BlockData /\ (writing # << >> => Second \in BlockData /\ Newest.height = Second.height + 1)
        /\ fields[1].height = Newest.height \/ (writing # << >> /\ fields[1].height = Second.height)
    BY <1>3, FieldFacts
  <2>2. CASE fields[1].height = Newest.height BY <2>1, <2>2 DEF BlockData
  <2>3. CASE writing # << >> /\ fields[1].height = Second.height BY <2>1, <2>3 DEF BlockData
  <2> QED BY <2>1, <2>2, <2>3
<1>10. ReadingInv' BY <1>1, <1>2, <1>6, <1>9 DEF RefreshInv, ReadingInv, Calm
<1>11. LastRefreshInv' BY <1>1, <1>5, <1>6, LastRefreshStays, DataServiceAssumption DEF RefreshInv
<1> QED BY <1>2, <1>7, <1>8, <1>10, <1>11 DEF RefreshInv

\* A difference below the word is not wrapped.
LEMMA DifferenceFits ==
    ASSUME NEW h \in Nat, NEW e \in Nat, NEW w \in Nat, e <= h, h - e < w
    PROVE  (h + w - e) % w = h - e
<1> DEFINE d == h - e
<1>1. d \in Nat /\ h + w - e = d + w OBVIOUS
<1> HIDE DEF d
<1>2. d < w BY DEF d
<1>3. (d + w) % w = d BY <1>1, <1>2
<1> QED BY <1>1, <1>3 DEF d

\* isValidation subtracts: unless the chain was quiet since the first read, the
\* difference is that of two heights of one calm stretch.
LEMMA ReadEpochHeightRefreshInv ==
    ASSUME RefreshInv, ReadEpochHeight
    PROVE  RefreshInv'
<1> DEFINE e == fields[1].epochHeight
           h == observer.height
           v == (h + HeightWord - e) % HeightWord < BlocksAfterValidation
<1>1. observer.pc = "epochHeight" /\ observer' = [observer EXCEPT !.pc = "decide", !.isValidation = v]
      /\ UNCHANGED <<blocks, fields, writing, now, refreshTime, refreshEpoch, refreshed, sawQuiet>>
  BY DEF ReadEpochHeight, ObserverTurns
<1>2. FieldsInv' /\ NextTimeInv' /\ RefreshesInOrder' /\ Newest' = Newest /\ Second' = Second
  BY <1>1, ReadsKeep
<1>3. fields # << >> /\ FieldsInv BY <1>1 DEF RefreshInv, ReadingInv
<1>4. observer \in ObserverData /\ observer.todo # << >> /\ observer.at <= now /\ now \in 0 .. MaxNow
  BY <1>1 DEF RefreshInv, ObserverInv
<1>5. v \in BOOLEAN OBVIOUS
<1>6. ~sawQuiet => v
  <2> SUFFICES ASSUME ~sawQuiet PROVE v OBVIOUS
  <2>1. Calm(Newest) /\ e = Newest.epochHeight /\ e <= h /\ h <= Newest.height
    BY <1>1 DEF RefreshInv, ReadingInv
  <2>2. h \in Nat BY <1>4 DEF ObserverData
  <2>3. e \in Nat /\ Newest.height \in Nat BY <1>3, <2>1, FieldFacts DEF BlockData
  <2>4. Newest.height - e < BlocksAfterValidation BY <2>1 DEF Calm
  <2>5. BlocksAfterValidation \in Nat /\ HeightWord \in Nat /\ BlocksAfterValidation < HeightWord
    BY DataServiceAssumption
  <2> HIDE DEF e, h
  <2>6. h - e < BlocksAfterValidation /\ h - e < HeightWord BY <2>1, <2>2, <2>3, <2>4, <2>5
  <2>7. (h + HeightWord - e) % HeightWord = h - e BY <2>1, <2>2, <2>3, <2>5, <2>6, DifferenceFits
  <2> QED BY <2>6, <2>7
<1> HIDE DEF v
<1>7. observer' \in ObserverData /\ observer'.pc = "decide" /\ observer'.isValidation = v
      /\ observer'.todo = observer.todo /\ observer'.at = observer.at
  BY <1>1, <1>4, <1>5 DEF ObserverData
<1>8. ObserverInv' BY <1>1, <1>4, <1>7 DEF ObserverInv
<1>9. RefreshesAvoidValidation' BY <1>1, <1>6, <1>7 DEF RefreshesAvoidValidation
<1>10. ReadingInv' BY <1>1, <1>3, <1>7 DEF ReadingInv
<1>11. LastRefreshInv' BY <1>1, <1>4, <1>7, LastRefreshStays, DataServiceAssumption DEF RefreshInv
<1> QED BY <1>2, <1>8, <1>9, <1>10, <1>11 DEF RefreshInv

\* The observer reads the epoch.
LEMMA ReadEpochRefreshInv ==
    ASSUME RefreshInv, ReadEpoch
    PROVE  RefreshInv'
<1>1. observer.pc = "item" /\ observer' = [observer EXCEPT !.pc = "decide", !.epoch = fields[1].epoch]
      /\ UNCHANGED <<blocks, fields, writing, now, refreshTime, refreshEpoch, refreshed, sawQuiet>>
      /\ Items[Item].period = 0
  BY DEF ReadEpoch, ObserverTurns
<1>2. FieldsInv' /\ NextTimeInv' /\ RefreshesInOrder' BY <1>1, ReadsKeep
<1>3. fields # << >> /\ FieldsInv BY <1>1 DEF RefreshInv, ReadingInv
<1>4. fields[1] \in BlockData BY <1>3, FieldFacts
<1>5. observer \in ObserverData /\ observer.todo # << >> /\ observer.at <= now /\ now \in 0 .. MaxNow
  BY <1>1 DEF RefreshInv, ObserverInv
<1>6. observer' \in ObserverData /\ observer'.pc = "decide"
      /\ observer'.todo = observer.todo /\ observer'.at = observer.at
  BY <1>1, <1>4, <1>5 DEF ObserverData, BlockData
<1>7. ObserverInv' BY <1>1, <1>5, <1>6 DEF ObserverInv
<1>8. Item' = Item BY <1>6 DEF Item
<1>9. RefreshesAvoidValidation' BY <1>1, <1>8 DEF RefreshesAvoidValidation
<1>10. ReadingInv' BY <1>1, <1>3, <1>6 DEF ReadingInv
<1>11. LastRefreshInv' BY <1>1, <1>5, <1>6, LastRefreshStays, DataServiceAssumption DEF RefreshInv
<1> QED BY <1>2, <1>7, <1>9, <1>10, <1>11 DEF RefreshInv

\* The observer decides on an item and goes on.
LEMMA DecideRefreshInv ==
    ASSUME RefreshInv, NEW fails \in BOOLEAN, DecidePeriod(fails) \/ DecideEpoch(fails)
    PROVE  RefreshInv'
<1>1. observer.pc = "decide" /\ observer' = NextItem /\ UNCHANGED <<blocks, fields, writing, now>>
  BY DEF DecidePeriod, DecideEpoch
<1>2. NextTimeInv' /\ RefreshesInOrder' BY DecidePeriodNextTime, DecideEpochNextTime DEF RefreshInv
<1>3. Newest' = Newest /\ Second' = Second BY <1>1 DEF Newest, Second
<1>4. FieldsInv' BY <1>1, <1>3 DEF RefreshInv, FieldsInv, Calm
<1>5. /\ observer' \in ObserverData /\ observer'.at <= now /\ observer'.pc \in {"sleep", "item"}
      /\ observer'.pc # "sleep" => observer'.todo # << >> /\ observer'.at = observer.at
  BY <1>1, NextItemTypes DEF RefreshInv
<1>6. ObserverInv' BY <1>1, <1>5 DEF RefreshInv, ObserverInv
<1>7. fields # << >> BY <1>1 DEF RefreshInv, ReadingInv
<1>8. ReadingInv' /\ RefreshesAvoidValidation' BY <1>1, <1>5, <1>7 DEF ReadingInv, RefreshesAvoidValidation
<1>9. LastRefreshInv'
  <2> SUFFICES ASSUME NEW i \in DOMAIN Items, Items[i].period > 0, refreshed'[i] # << >>
               PROVE  /\ LastOf(refreshed'[i]).at <= now'
                      /\ observer'.pc # "sleep" => \/ LastOf(refreshed'[i]).at <= observer'.at
                                                  \/ LastOf(refreshed'[i]).began = observer'.at
    BY DEF LastRefreshInv, LastOf
  <2>1. now' = now /\ now \in Nat BY <1>1, DataServiceAssumption DEF RefreshInv, ObserverInv
  <2>2. CASE refreshed'[i] = refreshed[i] BY <1>1, <1>5, <2>1, <2>2 DEF RefreshInv, LastRefreshInv
  <2>3. CASE LastOf(refreshed'[i]) = [began |-> observer.at, at |-> now] BY <1>5, <2>1, <2>3
  <2> QED BY <2>2, <2>3, DecideRecords DEF RefreshInv
<1> QED BY <1>2, <1>4, <1>6, <1>8, <1>9 DEF RefreshInv

\* Time passes.
LEMMA TickRefreshInv ==
    ASSUME RefreshInv, Tick
    PROVE  RefreshInv'
<1>1. now < MaxNow /\ now' = now + 1 /\ UNCHANGED <<blocks, fields, writing, observer, sawQuiet>>
      /\ UNCHANGED <<blocks, fields, writing, refreshTime, refreshEpoch, refreshed>>
  BY DEF Tick
<1>2. FieldsInv' /\ NextTimeInv' /\ RefreshesInOrder' /\ Newest' = Newest /\ Second' = Second
  BY <1>1, ReadsKeep
<1>3. observer.at \in Nat /\ now \in Nat BY DataServiceAssumption DEF RefreshInv, ObserverInv, ObserverData
<1>4. now' \in 0 .. MaxNow /\ observer.at <= now'
  BY <1>1, <1>3, DataServiceAssumption DEF RefreshInv, ObserverInv
<1>5. ObserverInv' BY <1>1, <1>4 DEF RefreshInv, ObserverInv
<1>6. RefreshesAvoidValidation' BY <1>1 DEF RefreshInv, RefreshesAvoidValidation, Item
<1>7. ReadingInv' BY <1>1, <1>2 DEF RefreshInv, ReadingInv, Calm
<1>8. LastRefreshInv' BY <1>1, <1>3, LastRefreshStays DEF RefreshInv
<1> QED BY <1>2, <1>5, <1>6, <1>7, <1>8 DEF RefreshInv

\* The invariant is kept by every step.
LEMMA NextRefreshInv == RefreshInv /\ [DataNext]_dataVars => RefreshInv'
<1> SUFFICES ASSUME RefreshInv, [DataNext]_dataVars PROVE RefreshInv' OBVIOUS
<1>1. ASSUME NEW validation \in BOOLEAN, NEW finished \in BOOLEAN, IndexBlock(validation, finished)
      PROVE  RefreshInv'
  BY <1>1, IndexBlockRefreshInv
<1>2. ASSUME NEW validation \in BOOLEAN, NEW finished \in BOOLEAN, NEW p \in 0 .. MaxBlocks,
             IndexAfterReset(p, validation, finished)
      PROVE  RefreshInv'
  BY <1>2, IndexAfterResetRefreshInv
<1>3. CASE WriteField BY <1>3, WriteFieldRefreshInv
<1>4. CASE Tick BY <1>4, TickRefreshInv
<1>5. CASE GetDataList BY <1>5, GetDataListRefreshInv
<1>6. CASE ReadPeriod BY <1>6, ReadPeriodRefreshInv
<1>7. CASE ReadHeight BY <1>7, ReadHeightRefreshInv
<1>8. CASE ReadEpochHeight BY <1>8, ReadEpochHeightRefreshInv
<1>9. CASE ReadEpoch BY <1>9, ReadEpochRefreshInv
<1>10. ASSUME NEW fails \in BOOLEAN, DecidePeriod(fails) \/ DecideEpoch(fails) PROVE RefreshInv'
  BY <1>10, DecideRefreshInv
<1>11. CASE UNCHANGED dataVars
  <2>1. UNCHANGED <<blocks, fields, writing, refreshTime, refreshEpoch, refreshed, observer, now, sawQuiet>>
    BY <1>11 DEF dataVars
  <2>2. FieldsInv' /\ NextTimeInv' /\ RefreshesInOrder' /\ Newest' = Newest /\ Second' = Second
    BY <2>1, ReadsKeep
  <2>3. ObserverInv' BY <2>1 DEF RefreshInv, ObserverInv
  <2>4. RefreshesAvoidValidation' BY <2>1 DEF RefreshInv, RefreshesAvoidValidation, Item
  <2>5. ReadingInv' BY <2>1, <2>2 DEF RefreshInv, ReadingInv, Calm
  <2>6. LastRefreshInv' BY <2>1 DEF RefreshInv, LastRefreshInv
  <2> QED BY <2>2, <2>3, <2>4, <2>5, <2>6 DEF RefreshInv
<1> QED BY <1>1, <1>2, <1>3, <1>4, <1>5, <1>6, <1>7, <1>8, <1>9, <1>10, <1>11 DEF DataNext

\* The invariant gives the type invariant: once nothing is unwritten, the fields
\* are those of the last block.
LEMMA RefreshTypes == RefreshInv => DataTypeOK
<1> SUFFICES ASSUME RefreshInv PROVE DataTypeOK OBVIOUS
<1>1. writing = << >> /\ blocks # << >> => fields = <<Last(blocks)>>
  <2> SUFFICES ASSUME writing = << >>, blocks # << >> PROVE fields = <<Last(blocks)>> OBVIOUS
  <2>1. fields = <<fields[1]>> /\ FieldsInv BY DEF RefreshInv, FieldsInv
  <2>2. fields # << >> BY <2>1
  <2>3. fields[1] \in BlockData /\ Newest \in BlockData /\ \A x \in FieldNames : fields[1][x] = Newest[x]
    BY <2>1, <2>2, FieldFacts
  <2>4. fields[1] = Newest BY <2>3 DEF BlockData, FieldNames
  <2> QED BY <2>1, <2>4 DEF Newest, Last
<1>2. Len(blocks) <= MaxBlocks BY DEF RefreshInv, FieldsInv
<1>3. now \in 0 .. MaxNow /\ observer.at <= now BY DEF RefreshInv, ObserverInv
<1>4. observer.pc \in {"sleep", "item", "height", "epochHeight", "decide"}
  BY DEF RefreshInv, ObserverInv, ObserverData
<1> QED BY <1>1, <1>2, <1>3, <1>4 DEF DataTypeOK

\* Times that are not decreasing are in periods that are not.
LEMMA PeriodsStay ==
    ASSUME NEW i \in DOMAIN Items, Items[i].period > 0, NEW a \in Nat, NEW b \in Nat, a <= b
    PROVE  PeriodOf(i, a) \in Nat /\ PeriodOf(i, b) \in Nat /\ PeriodOf(i, a) <= PeriodOf(i, b)
<1>1. Items[i].period \in Nat BY DataServiceAssumption
<1> QED BY <1>1 DEF PeriodOf

\* By the times of the refreshes: a third one in a period, or a second one after a
\* round that began in it, would be of a round that began before the last one was
\* over or in the same period as its round.
LEMMA RefreshesSpaced == NextTimeInv /\ RefreshesInOrder => RefreshesAreSpaced /\ EpochsAreRefreshedOnce
<1> SUFFICES ASSUME NextTimeInv, RefreshesInOrder PROVE RefreshesAreSpaced /\ EpochsAreRefreshedOnce OBVIOUS
<1>1. ASSUME NEW i \in DOMAIN Items PROVE DOMAIN refreshed[i] = 1 .. Len(refreshed[i]) /\ Len(refreshed[i]) \in Nat
  <2>1. refreshed[i] \in Seq(RefreshData) BY DEF NextTimeInv
  <2> QED BY <2>1
<1>2. ASSUME NEW i \in DOMAIN Items, Items[i].period > 0, NEW j \in DOMAIN refreshed[i],
             NEW k \in DOMAIN refreshed[i], j < k,
             PeriodOf(i, refreshed[i][j].at) = PeriodOf(i, refreshed[i][k].at)
      PROVE  k = j + 1 /\ PeriodOf(i, refreshed[i][j].began) < PeriodOf(i, refreshed[i][j].at)
  <2> DEFINE done == refreshed[i]
  <2>1. j \in 1 .. Len(done) /\ k \in 1 .. Len(done) /\ j \in Nat /\ k \in Nat BY <1>1, <1>2
  <2>2. ASSUME NEW m \in 1 .. Len(done)
        PROVE  done[m].began \in Nat /\ done[m].at \in Nat /\ done[m].began <= done[m].at
    BY <1>2, <2>2 DEF RefreshesInOrder, RefreshOf, TimedData
  <2>3. ASSUME NEW m \in 1 .. Len(done), NEW n \in 1 .. Len(done), m < n
        PROVE  PeriodOf(i, done[m].began) < PeriodOf(i, done[n].began) /\ done[m].at <= done[n].began
    BY <1>2, <2>3 DEF RefreshesInOrder, Before
  <2> HIDE DEF done
  <2>4. /\ PeriodOf(i, done[j].began) < PeriodOf(i, done[k].began)
        /\ PeriodOf(i, done[k].began) <= PeriodOf(i, done[k].at)
        /\ PeriodOf(i, done[j].began) \in Nat /\ PeriodOf(i, done[k].began) \in Nat
        /\ PeriodOf(i, done[k].at) \in Nat
    BY <1>2, <2>1, <2>2, <2>3, PeriodsStay
  <2>5. PeriodOf(i, done[j].at) = PeriodOf(i, done[k].at) BY <1>2 DEF done
  <2>6. PeriodOf(i, done[j].began) < PeriodOf(i, done[j].at) BY <2>4, <2>5
  <2>7. k = j + 1
    <3> SUFFICES ASSUME k # j + 1 PROVE FALSE OBVIOUS
    <3> DEFINE m == j + 1
    <3>1. m \in 1 .. Len(done) /\ j < m /\ m < k BY <1>2, <2>1
    <3> HIDE DEF m
    <3>2. done[j].at <= done[m].began /\ PeriodOf(i, done[m].began) < PeriodOf(i, done[k].began)
      BY <2>1, <2>3, <3>1
    <3>3. done[j].at \in Nat /\ done[m].began \in Nat BY <2>1, <2>2, <3>1
    <3>4. /\ PeriodOf(i, done[j].at) <= PeriodOf(i, done[m].began)
          /\ PeriodOf(i, done[j].at) \in Nat /\ PeriodOf(i, done[m].began) \in Nat
      BY <1>2, <3>2, <3>3, PeriodsStay
    <3> QED BY <2>4, <2>5, <3>2, <3>4
  <2> QED BY <2>6, <2>7 DEF done
<1>3. ASSUME NEW i \in DOMAIN Items, Items[i].period = 0, NEW j \in DOMAIN refreshed[i],
             NEW k \in DOMAIN refreshed[i], j < k
      PROVE  refreshed[i][j] < refreshed[i][k]
  BY <1>1, <1>3 DEF RefreshesInOrder, Before
<1> QED BY <1>2, <1>3 DEF RefreshesAreSpaced, EpochsAreRefreshedOnce

\* The observer refreshes data neither around a validation nor, but for a round
\* that outruns its day or hour, twice in it by the clock, and data of an epoch
\* once for every epoch it reads, for every list of data, every width of the
\* heights and however its reads and refreshes fall between the writes of the
\* handlers and the ticks of the clock (observe and isValidation of
\* data/service.go).
THEOREM RefreshesAreInTimeAlways == DataInit /\ [][DataNext]_dataVars => []RefreshesAreInTime
<1>1. RefreshInv => RefreshesAreInTime
  BY RefreshTypes, RefreshesSpaced DEF RefreshInv, RefreshesAreInTime
<1> QED BY <1>1, InitRefreshInv, NextRefreshInv, PTL

-----------------------------------------------------------------------------
(* UpgradeVoting. *)

-----------------------------------------------------------------------------
(* Induction. *)

\* A set of numbers that is not empty has a least one.
LEMMA LeastNat == ASSUME NEW T, T \subseteq Nat, T # {} PROVE \E x \in T : \A y \in T : x <= y
<1> DEFINE R == OpToRel(<,Nat)
<1>1. IsWellFoundedOn(R, Nat) BY NatLessThanWellFounded
<1>2. \A y, x \in Nat : <<y, x>> \in R <=> y < x BY DEF OpToRel
<1> HIDE DEF R
<1>3. PICK x \in T : \A y \in T : ~(<<y, x>> \in R) BY <1>1, WFMin
<1>4. ASSUME NEW y \in T PROVE x <= y
  <2>1. <<y, x>> \notin R BY <1>3
  <2>2. x \in Nat /\ y \in Nat OBVIOUS
  <2>3. ~(y < x) BY <1>2, <2>1, <2>2
  <2> QED BY <2>2, <2>3
<1> QED BY <1>4

\* A set that has 0, and with every number the next, has them all.
LEMMA NatInd == ASSUME NEW P, 0 \in P, \A n \in Nat : n \in P => n + 1 \in P PROVE Nat \subseteq P
<1> SUFFICES ASSUME Nat \ P # {} PROVE FALSE OBVIOUS
<1>1. PICK x \in Nat \ P : \A y \in Nat \ P : x <= y BY LeastNat
<1>2. x # 0 BY <1>1
<1>3. x - 1 \in Nat /\ (x - 1) + 1 = x /\ ~(x <= x - 1) BY <1>2
<1>4. x - 1 \in P BY <1>1, <1>3
<1> QED BY <1>3, <1>4

-----------------------------------------------------------------------------
(* The rows in order. *)

HistoryRow == [height : Nat, fork : Nat]

\* Rows of one upgrade: no more than a row for a block.
RowSet(R, b) ==
    /\ R \subseteq HistoryRow /\ IsFiniteSet(R)
    /\ \A r \in R : r.height \in 1 .. b
    /\ \A r, q \in R : r.height = q.height => r = q

Ordered(s, n) == \A i, j \in 1 .. n : i < j => s[i].height < s[j].height

\* One of the rows is the newest.
LEMMA NewestRow ==
    ASSUME NEW b \in Nat, NEW R, RowSet(R, b), R # {}
    PROVE  \E r \in R : \A q \in R : q.height <= r.height
<1> DEFINE T == {m \in Nat : \A r \in R : r.height <= m}
<1>1. \A r \in R : r.height \in Nat /\ r.height >= 1 /\ r.height <= b BY DEF RowSet
<1>2. b \in T BY <1>1
<1>3. PICK m \in T : \A y \in T : m <= y BY <1>2, LeastNat
<1>4. m \in Nat /\ \A r \in R : r.height <= m OBVIOUS
<1>5. m # 0 BY <1>1, <1>4
<1>6. m - 1 \in Nat /\ ~(m <= m - 1) BY <1>4, <1>5
<1>7. m - 1 \notin T BY <1>3, <1>6
<1>8. PICK r \in R : ~(r.height <= m - 1) BY <1>6, <1>7
<1>9. r.height = m BY <1>1, <1>4, <1>6, <1>8
<1> QED BY <1>4, <1>9

\* The rows can be put in order.
LEMMA OrderExists ==
    ASSUME NEW b \in Nat, NEW R, RowSet(R, b)
    PROVE  \E s \in [1 .. Cardinality(R) -> R] : Ordered(s, Cardinality(R))
<1> DEFINE P == {n \in Nat : \A S \in SUBSET HistoryRow : RowSet(S, b) /\ Cardinality(S) = n =>
                                \E s \in [1 .. n -> S] : Ordered(s, n)}
<1>1. 0 \in P
  <2>1. ASSUME NEW S PROVE \E s \in [1 .. 0 -> S] : Ordered(s, 0)
    <3>1. <<>> \in [1 .. 0 -> S] OBVIOUS
    <3>2. Ordered(<<>>, 0) BY DEF Ordered
    <3> QED BY <3>1, <3>2
  <2> QED BY <2>1
<1>2. ASSUME NEW n \in Nat, n \in P PROVE n + 1 \in P
  <2> SUFFICES ASSUME NEW S \in SUBSET HistoryRow, RowSet(S, b), Cardinality(S) = n + 1
               PROVE  \E s \in [1 .. (n + 1) -> S] : Ordered(s, n + 1)
    OBVIOUS
  <2>1. IsFiniteSet(S) BY DEF RowSet
  <2>2. S # {} BY <2>1, FS_EmptySet
  <2>3. PICK r \in S : \A q \in S : q.height <= r.height BY <2>2, NewestRow
  <2>4. IsFiniteSet(S \ {r}) /\ Cardinality(S \ {r}) = n BY <2>1, FS_RemoveElement
  <2>5. RowSet(S \ {r}, b) BY <2>4 DEF RowSet
  <2>6. PICK s \in [1 .. n -> S \ {r}] : Ordered(s, n) BY <1>2, <2>4, <2>5
  <2> DEFINE t == [i \in 1 .. (n + 1) |-> IF i = n + 1 THEN r ELSE s[i]]
  <2>7. \A i \in 1 .. (n + 1) : i # n + 1 => i \in 1 .. n OBVIOUS
  <2>8. t \in [1 .. (n + 1) -> S] BY <2>7
  <2>9. ASSUME NEW i \in 1 .. (n + 1), NEW j \in 1 .. (n + 1), i < j PROVE t[i].height < t[j].height
    <3>1. i \in 1 .. n /\ t[i] = s[i] BY <2>9
    <3>2. CASE j = n + 1
      <4>1. t[j] = r /\ s[i] \in S /\ s[i] # r BY <3>1, <3>2
      <4>2. s[i].height <= r.height /\ s[i].height # r.height BY <2>3, <4>1 DEF RowSet
      <4>3. s[i].height \in Nat /\ r.height \in Nat BY <4>1 DEF HistoryRow
      <4> QED BY <3>1, <4>1, <4>2, <4>3
    <3>3. CASE j # n + 1
      <4>1. j \in 1 .. n /\ t[j] = s[j] BY <2>7, <3>3
      <4> QED BY <2>6, <2>9, <3>1, <4>1 DEF Ordered
    <3> QED BY <3>2, <3>3
  <2>10. Ordered(t, n + 1) BY <2>9 DEF Ordered
  <2> QED BY <2>8, <2>10
<1>3. Nat \subseteq P BY <1>1, <1>2, NatInd
<1>4. Cardinality(R) \in Nat BY FS_CardinalityType DEF RowSet
<1>5. Cardinality(R) \in P BY <1>3, <1>4
<1> QED BY <1>5 DEF RowSet

\* GetUpgradeVotingHistory returns every row, in order.
LEMMA InOrderRows ==
    ASSUME NEW b \in Nat, NEW R, RowSet(R, b)
    PROVE  /\ InOrder(R) \in Seq(R) /\ Len(InOrder(R)) = Cardinality(R) /\ Cardinality(R) \in Nat
           /\ Ordered(InOrder(R), Cardinality(R))
           /\ \A r \in R : \E i \in 1 .. Cardinality(R) : InOrder(R)[i] = r
<1> DEFINE n == Cardinality(R)
           s == InOrder(R)
<1>1. \E x \in [1 .. n -> R] : Ordered(x, n) BY OrderExists
<1>2. s = CHOOSE x \in [1 .. n -> R] : Ordered(x, n) BY DEF InOrder, Ordered
<1>3. IsFiniteSet(R) /\ n \in Nat BY FS_CardinalityType DEF RowSet
<1> HIDE DEF n, s
<1>4. s \in [1 .. n -> R] /\ Ordered(s, n) BY <1>1, <1>2
<1>5. s \in Seq(R) /\ Len(s) = n BY <1>3, <1>4
<1>6. ASSUME NEW r \in R, \A i \in 1 .. n : s[i] # r PROVE FALSE
  <2>1. s \in [1 .. n -> R \ {r}] BY <1>4, <1>6
  <2>2. IsFiniteSet(R \ {r}) /\ Cardinality(R \ {r}) = n - 1 BY <1>3, FS_RemoveElement DEF n
  <2>3. IsFiniteSet(1 .. n) /\ Cardinality(1 .. n) = n
    <3>1. 1 \in Int /\ n \in Int BY <1>3
    <3>2. IsFiniteSet(1 .. n) /\ Cardinality(1 .. n) = IF 1 > n THEN 0 ELSE n - 1 + 1 BY <3>1, FS_Interval
    <3> QED BY <1>3, <3>2
  <2>4. n - 1 < n BY <1>3
  <2>5. PICK i, j \in 1 .. n : i # j /\ s[i] = s[j]
    <3> DEFINE A == 1 .. n
               B == R \ {r}
    <3>1. IsFiniteSet(A) /\ IsFiniteSet(B) /\ Cardinality(B) < Cardinality(A) /\ s \in [A -> B]
      BY <2>1, <2>2, <2>3, <2>4
    <3> HIDE DEF A, B
    <3>2. \E x, y \in A : x # y /\ s[x] = s[y] BY <3>1, FS_PigeonHole
    <3> QED BY <3>2 DEF A
  <2>6. s[i].height < s[j].height \/ s[j].height < s[i].height
    <3>1. i < j \/ j < i BY <1>3, <2>5
    <3> QED BY <1>4, <3>1 DEF Ordered
  <2>7. s[i].height \in Nat BY <1>4 DEF RowSet, HistoryRow
  <2> QED BY <2>5, <2>6, <2>7
<1> QED BY <1>3, <1>4, <1>5, <1>6 DEF n, s

\* There are no more rows than blocks.
LEMMA RowsAreFew == ASSUME NEW b \in Nat, NEW R, RowSet(R, b) PROVE Cardinality(R) \in Nat /\ Cardinality(R) <= b
<1> DEFINE A == 1 .. b
           f == [r \in R |-> r.height]
<1>1. IsFiniteSet(R) /\ Cardinality(R) \in Nat BY FS_CardinalityType DEF RowSet
<1>2. IsFiniteSet(A) /\ Cardinality(A) = b
  <2>1. 1 \in Int /\ b \in Int OBVIOUS
  <2>2. IsFiniteSet(1 .. b) /\ Cardinality(1 .. b) = IF 1 > b THEN 0 ELSE b - 1 + 1 BY <2>1, FS_Interval
  <2> QED BY <2>2
<1>3. f \in [R -> A] BY DEF RowSet
<1>4. \A r, q \in R : f[r] = f[q] => r = q BY DEF RowSet
<1> HIDE DEF A, f
<1>5. f \in Injection(R, A) BY <1>3, <1>4 DEF Injection, IsInjective
<1>6. Cardinality(R) <= Cardinality(A) BY <1>2, <1>5, FS_Injection
<1> QED BY <1>1, <1>2, <1>6

-----------------------------------------------------------------------------
(* The indexes of the items. *)

\* A quotient and its remainder.
LEMMA Quotient ==
    ASSUME NEW a \in Nat, NEW m \in Nat, m > 0
    PROVE  a \div m \in Nat /\ m * (a \div m) <= a /\ a < m * (a \div m) + m
OBVIOUS

\* Numbers that are a divisor apart have different quotients.
LEMMA QuotientsGrow ==
    ASSUME NEW a \in Nat, NEW c \in Nat, NEW m \in Nat, m > 0, c >= a + m
    PROVE  a \div m < c \div m
<1> DEFINE q == a \div m
           r == c \div m
<1>1. q \in Nat /\ m * q <= a BY Quotient
<1>2. r \in Nat /\ c < m * r + m BY Quotient
<1> HIDE DEF q, r
<1>3. m * q \in Nat /\ m * r \in Nat BY <1>1, <1>2
<1>4. m * q < m * r BY <1>1, <1>2, <1>3
<1>5. r <= q => m * r <= m * q BY <1>1, <1>2
<1> QED BY <1>1, <1>2, <1>3, <1>4, <1>5 DEF q, r

\* The product that the items are picked by grows by n - 1 with each.
LEMMA ProductStep ==
    ASSUME NEW i \in Nat, NEW j \in Nat, i < j, NEW x \in Nat
    PROVE  i * x \in Nat /\ j * x \in Nat /\ j * x >= i * x + x
<1>1. i * x \in Nat /\ j * x \in Nat OBVIOUS
<1>2. j - i \in Nat /\ j - i >= 1 OBVIOUS
<1>3. j * x = i * x + (j - i) * x OBVIOUS
<1>4. (j - i) * x >= x BY <1>2
<1>5. (j - i) * x \in Nat BY <1>2
<1> QED BY <1>1, <1>3, <1>4, <1>5

\* The first item is the first row, the last the last, and no row is picked twice.
LEMMA IdxRange ==
    ASSUME NEW n \in Nat, n > ShortHistoryItems
    PROVE  /\ Idx(0, n) = 0 /\ Idx(ShortHistoryItems - 1, n) = n - 1
           /\ \A i \in 0 .. (ShortHistoryItems - 1) : Idx(i, n) \in 0 .. (n - 1)
           /\ \A i, j \in 0 .. (ShortHistoryItems - 1) : i < j => Idx(i, n) < Idx(j, n)
<1> DEFINE k == ShortHistoryItems - 1
           m == 2 * k
           x == n - 1
           A(i) == 2 * i * x + k
<1>1. k \in Nat /\ k >= 1 /\ x \in Nat /\ x > k /\ m \in Nat /\ m > 0 /\ m = 2 * k
  BY UpgradeVotingAssumption
<1>2. \A i : Idx(i, n) = (2 * i * (n - 1) + ShortHistoryItems - 1) \div (2 * (ShortHistoryItems - 1)) BY DEF Idx
<1>3. ASSUME NEW i \in Nat PROVE A(i) \in Nat /\ A(i) = 2 * (i * x) + k /\ Idx(i, n) = A(i) \div m
  <2>1. 2 * i * x = 2 * (i * x) /\ i * x \in Nat BY <1>1
  <2>2. 2 * i * (n - 1) + ShortHistoryItems - 1 = A(i) BY <2>1, UpgradeVotingAssumption
  <2> QED BY <1>1, <1>2, <2>1, <2>2
<1> HIDE DEF k, m, x, A
<1>4. ASSUME NEW i \in Nat, NEW j \in Nat, i < j PROVE Idx(i, n) < Idx(j, n)
  <2>1. i * x \in Nat /\ j * x \in Nat /\ j * x >= i * x + x BY <1>1, <1>4, ProductStep
  <2> DEFINE ix == i * x
             jx == j * x
             a == A(i)
             c == A(j)
  <2>2. a \in Nat /\ a = 2 * ix + k /\ Idx(i, n) = a \div m BY <1>3
  <2>3. c \in Nat /\ c = 2 * jx + k /\ Idx(j, n) = c \div m BY <1>3
  <2>4. ix \in Nat /\ jx \in Nat /\ jx >= ix + x BY <2>1
  <2> HIDE DEF ix, jx, a, c
  <2>5. c >= a + m BY <1>1, <2>2, <2>3, <2>4
  <2>6. a \div m < c \div m BY <1>1, <2>2, <2>3, <2>5, QuotientsGrow
  <2> QED BY <2>2, <2>3, <2>6
<1>5. ASSUME NEW i \in Nat PROVE Idx(i, n) \in Nat
  <2>1. A(i) \in Nat /\ Idx(i, n) = A(i) \div m BY <1>3
  <2>2. A(i) \div m \in Nat BY <1>1, <2>1, Quotient
  <2> QED BY <2>1, <2>2
<1>6. Idx(0, n) = 0
  <2>1. 0 * x = 0 BY <1>1
  <2>2. A(0) = k BY <1>1, <1>3, <2>1
  <2>3. k \div m = 0 BY <1>1
  <2> QED BY <1>3, <2>2, <2>3
<1>7. Idx(k, n) = x
  <2>1. A(k) = m * x + k
    <3>1. k * x \in Nat /\ m * x = 2 * (k * x) BY <1>1
    <3> QED BY <1>1, <1>3, <3>1
  <2> DEFINE q == A(k) \div m
  <2>2. q \in Nat /\ m * q <= A(k) /\ A(k) < m * q + m BY <1>1, <1>3, Quotient
  <2> HIDE DEF q
  <2>3. m * q \in Nat /\ m * x \in Nat BY <1>1, <2>2
  <2>4. ~(q < x)
    <3> SUFFICES ASSUME q < x PROVE FALSE OBVIOUS
    <3>1. q * m \in Nat /\ x * m \in Nat /\ x * m >= q * m + m BY <1>1, <2>2, ProductStep
    <3>2. q * m = m * q /\ x * m = m * x BY <1>1, <2>2
    <3> QED BY <1>1, <2>1, <2>2, <2>3, <3>1, <3>2
  <2>5. ~(x < q)
    <3> SUFFICES ASSUME x < q PROVE FALSE OBVIOUS
    <3>1. q * m \in Nat /\ x * m \in Nat /\ q * m >= x * m + m BY <1>1, <2>2, ProductStep
    <3>2. q * m = m * q /\ x * m = m * x BY <1>1, <2>2
    <3> QED BY <1>1, <2>1, <2>2, <2>3, <3>1, <3>2
  <2>6. q = x BY <1>1, <2>2, <2>4, <2>5
  <2> QED BY <1>1, <1>3, <2>6 DEF q
<1>8. ASSUME NEW i \in 0 .. (ShortHistoryItems - 1) PROVE Idx(i, n) \in 0 .. (n - 1)
  <2>1. i \in Nat /\ i <= k BY <1>1 DEF k
  <2>2. Idx(i, n) \in Nat /\ Idx(i, n) <= x
    <3>1. CASE i = k BY <1>1, <1>7, <3>1
    <3>2. CASE i < k
      <4>1. Idx(i, n) < x BY <1>1, <1>4, <1>7, <2>1, <3>2
      <4> QED BY <1>1, <1>5, <2>1, <4>1
    <3> QED BY <1>1, <2>1, <3>1, <3>2
  <2> QED BY <2>2 DEF x
<1>9. \A i \in 0 .. (ShortHistoryItems - 1) : i \in Nat BY UpgradeVotingAssumption
<1> QED BY <1>4, <1>6, <1>7, <1>8, <1>9 DEF k, x

\* The step between the last two items is one of the history.
LEMMA LastStepRange ==
    ASSUME NEW n \in Nat, n > ShortHistoryItems PROVE LastStep(n) \in 0 .. n
<1>1. ShortHistoryItems - 1 \in 0 .. (ShortHistoryItems - 1) /\ ShortHistoryItems - 2 \in 0 .. (ShortHistoryItems - 1)
      /\ ShortHistoryItems - 2 < ShortHistoryItems - 1
  BY UpgradeVotingAssumption
<1>2. Idx(ShortHistoryItems - 1, n) \in 0 .. (n - 1) /\ Idx(ShortHistoryItems - 2, n) \in 0 .. (n - 1)
      /\ Idx(ShortHistoryItems - 2, n) < Idx(ShortHistoryItems - 1, n)
  BY <1>1, IdxRange
<1> QED BY <1>2 DEF LastStep

-----------------------------------------------------------------------------
(* The invariant. *)

RefreshRequest == [upgrades : Seq(Upgrades), height : 0 .. MaxTip, overtaken : BOOLEAN]
RefresherState == [todo : Seq(Upgrades), height : 0 .. MaxTip, pc : {"take", "info", "history", "write"},
                   rows : Seq(HistoryRow), overtaken : BOOLEAN]

UpgradeTypes ==
    /\ tip \in 0 .. MaxTip /\ resets \in 0 .. MaxUpgradeResets
    /\ heldVotes \in [Upgrades -> 0 .. Cardinality(VotersOfUpgrades)]
    /\ voteHistory \in [Upgrades -> SUBSET HistoryRow] /\ voteItems \in [Upgrades -> Nat]
    /\ short \in [Upgrades -> Seq(HistoryRow)]
    /\ shortInfo \in [Upgrades -> [lastHeight : 0 .. MaxTip, lastStep : 0 .. MaxTip]]
    /\ shortOvertaken \in [Upgrades -> BOOLEAN]
    /\ refreshes \in Seq(RefreshRequest) /\ Len(refreshes) <= UpgradeQueueSize
    /\ refresher \in RefresherState

HistoryInv == \A u \in Upgrades : RowSet(voteHistory[u], tip) /\ voteItems[u] = Cardinality(voteHistory[u])

\* A refresh that no reset overtook: its block is there, with its votes.
HasRowsAt(us, h, t, history) == h <= t /\ \A u \in Range(us) : \E r \in history[u] : r.height = h

RefreshesInv ==
    /\ \A i \in DOMAIN refreshes : ~refreshes[i].overtaken => HasRowsAt(refreshes[i].upgrades, refreshes[i].height, tip, voteHistory)
    /\ ~refresher.overtaken => HasRowsAt(refresher.todo, refresher.height, tip, voteHistory)
    /\ refresher.pc \in {"history", "write"} => refresher.todo # << >>

\* What was read of a history and is not yet written: more rows than items, in
\* order, from the first row of the history to one not older than the block.
RowsInv ==
    refresher.pc = "write" =>
      /\ Len(refresher.rows) > ShortHistoryItems /\ Len(refresher.rows) <= MaxTip
      /\ Ordered(refresher.rows, Len(refresher.rows))
      /\ ~refresher.overtaken =>
           /\ Range(refresher.rows) \subseteq voteHistory[Head(refresher.todo)]
           /\ \A r \in voteHistory[Head(refresher.todo)] : refresher.rows[1].height <= r.height
           /\ refresher.rows[Len(refresher.rows)].height >= refresher.height

ShortLengths == \A u \in Upgrades : Len(short[u]) \in {0, ShortHistoryItems}

UpgradeInv == UpgradeTypes /\ HistoryInv /\ RefreshesInv /\ RowsInv /\ ShortLengths /\ ShortSpansHistory

\* The bounds are numbers.
LEMMA UpgradeBounds ==
    /\ ShortHistoryItems \in Nat /\ ShortHistoryItems >= 2
    /\ ShortHistoryMinShift \in Nat /\ UpgradeQueueSize \in Nat /\ MaxTip \in Nat /\ MaxUpgradeResets \in Nat
    /\ Word \in Nat /\ Word > 2 * MaxTip + ShortHistoryMinShift
    /\ IsFiniteSet(Upgrades) /\ IsFiniteSet(VotersOfUpgrades)
BY UpgradeVotingAssumption

\* No block, no votes.
LEMMA InitUpgradeInv == UpgradeInit => UpgradeInv
<1> SUFFICES ASSUME UpgradeInit PROVE UpgradeInv OBVIOUS
<1> USE UpgradeBounds
<1>1. Cardinality(VotersOfUpgrades) \in Nat /\ Cardinality({}) = 0 /\ IsFiniteSet({})
  BY FS_CardinalityType, FS_EmptySet
<1>2. UpgradeTypes
  <2>1. refresher \in RefresherState BY DEF UpgradeInit, Waiting, RefresherState
  <2>2. NoInfo \in [lastHeight : 0 .. MaxTip, lastStep : 0 .. MaxTip] BY DEF NoInfo
  <2>3. refreshes \in Seq(RefreshRequest) /\ Len(refreshes) = 0 BY DEF UpgradeInit
  <2>4. short \in [Upgrades -> Seq(HistoryRow)] BY DEF UpgradeInit
  <2> QED BY <1>1, <2>1, <2>2, <2>3, <2>4 DEF UpgradeInit, UpgradeTypes
<1>3. HistoryInv BY <1>1 DEF UpgradeInit, HistoryInv, RowSet
<1>4. refresher.todo = << >> /\ refresher.height = 0 /\ refresher.pc = "take" BY DEF UpgradeInit, Waiting
<1>5. Range(<< >>) = {} BY DEF Range
<1>6. RefreshesInv BY <1>4, <1>5 DEF UpgradeInit, RefreshesInv, HasRowsAt
<1>7. RowsInv BY <1>4 DEF RowsInv
<1>8. \A u \in Upgrades : short[u] = << >> BY DEF UpgradeInit
<1>9. ShortLengths /\ ShortSpansHistory BY <1>8 DEF ShortLengths, ShortSpansHistory
<1> QED BY <1>2, <1>3, <1>6, <1>7, <1>9 DEF UpgradeInv

\* The holder counts the votes anew.
LEMMA HeldUpgradeInv ==
    ASSUME UpgradeInv, NEW votes, UpdateHeldVotes(votes) PROVE UpgradeInv'
<1>1. UNCHANGED <<tip, resets, voteHistory, voteItems, short, shortInfo, refreshes, refresher, shortOvertaken>>
      /\ heldVotes' = CountVotes(votes)
  BY DEF UpdateHeldVotes
<1>2. ASSUME NEW u \in Upgrades
      PROVE  Cardinality({n \in VotersOfUpgrades : votes[n] = u}) \in 0 .. Cardinality(VotersOfUpgrades)
  <2> DEFINE V == {n \in VotersOfUpgrades : votes[n] = u}
  <2>1. V \in SUBSET VotersOfUpgrades /\ IsFiniteSet(VotersOfUpgrades) BY UpgradeBounds
  <2> HIDE DEF V
  <2>2. IsFiniteSet(V) /\ Cardinality(V) <= Cardinality(VotersOfUpgrades) BY <2>1, FS_Subset
  <2>3. Cardinality(V) \in Nat /\ Cardinality(VotersOfUpgrades) \in Nat BY <2>1, <2>2, FS_CardinalityType
  <2> QED BY <2>2, <2>3 DEF V
<1>3. heldVotes' \in [Upgrades -> 0 .. Cardinality(VotersOfUpgrades)] BY <1>1, <1>2 DEF CountVotes
<1>4. UpgradeTypes' BY <1>1, <1>3 DEF UpgradeInv, UpgradeTypes
<1>5. HistoryInv' /\ RefreshesInv' BY <1>1 DEF UpgradeInv, HistoryInv, RefreshesInv, HasRowsAt
<1>6. RowsInv' /\ ShortLengths' /\ ShortSpansHistory'
  BY <1>1 DEF UpgradeInv, RowsInv, ShortLengths, ShortSpansHistory
<1> QED BY <1>4, <1>5, <1>6 DEF UpgradeInv

\* The upgrades of a block are refreshed in some order.
LEMMA SeqOfUpgrades ==
    ASSUME NEW U \in SUBSET Upgrades PROVE SetToSeq(U) \in Seq(Upgrades) /\ Range(SetToSeq(U)) \subseteq U
<1>1. IsFiniteSet(U) BY UpgradeBounds, FS_Subset
<1>2. Cardinality(U) \in Nat /\ ExistsBijection(1 .. Cardinality(U), U) BY <1>1, FS_CardinalityType
<1>3. PICK f \in Bijection(1 .. Cardinality(U), U) : TRUE BY <1>2 DEF ExistsBijection
<1>4. f \in [1 .. Cardinality(U) -> U] /\ \A a, b \in 1 .. Cardinality(U) : f[a] = f[b] => a = b
  BY <1>3 DEF Bijection, Injection, IsInjective
<1>5. DOMAIN f = 1 .. Cardinality(U) BY <1>4
<1>6. \E g \in [1 .. Cardinality(U) -> U] : IsInjective(g) BY <1>4, <1>5 DEF IsInjective
<1>7. SetToSeq(U) \in [1 .. Cardinality(U) -> U] BY <1>6 DEF SetToSeq
<1> QED BY <1>2, <1>7 DEF Range

\* A block is saved: a row at its height is newer than all others.
LEMMA SaveUpgradeInv ==
    ASSUME UpgradeInv, NEW active, SaveBlockVotes(active) PROVE UpgradeInv'
<1> DEFINE h == tip + 1
           us == detectUpgradeVotes(active)
           row == [height |-> h, fork |-> resets]
           request == [upgrades |-> SetToSeq(us), height |-> h, overtaken |-> FALSE]
<1> USE UpgradeBounds
<1>0. UpgradeTypes /\ HistoryInv /\ RefreshesInv /\ RowsInv /\ ShortLengths /\ ShortSpansHistory BY DEF UpgradeInv
<1>1. /\ h <= MaxTip /\ tip' = h
      /\ voteHistory' = [u \in Upgrades |-> IF u \in us THEN voteHistory[u] \cup {row} ELSE voteHistory[u]]
      /\ voteItems' = [u \in Upgrades |-> voteItems[u] + (IF u \in us THEN 1 ELSE 0)]
      /\ refreshes' = Queued(request)
      /\ UNCHANGED <<resets, heldVotes, short, shortInfo, refresher, shortOvertaken>>
  BY DEF SaveBlockVotes
<1>2. tip \in Nat /\ h \in 0 .. MaxTip /\ h > tip /\ h \in Nat /\ h >= 1 BY <1>0, <1>1 DEF UpgradeTypes
<1>3. us \in SUBSET Upgrades BY DEF detectUpgradeVotes
<1>4. row \in HistoryRow /\ row.height = h BY <1>0, <1>2 DEF HistoryRow, UpgradeTypes
<1>5. request \in RefreshRequest BY <1>2, <1>3, SeqOfUpgrades DEF RefreshRequest
<1>6. request.height = h /\ request.upgrades = SetToSeq(us) /\ Range(request.upgrades) \subseteq us
  BY <1>3, SeqOfUpgrades
<1> HIDE DEF us, row, request
<1>7. ASSUME NEW u \in Upgrades
      PROVE  /\ voteHistory[u] \subseteq voteHistory'[u]
             /\ \A r \in voteHistory'[u] : r \in voteHistory[u] \/ r.height = h
             /\ u \in us => row \in voteHistory'[u]
             /\ voteHistory'[u] \in SUBSET HistoryRow
             /\ RowSet(voteHistory'[u], h) /\ voteItems'[u] = Cardinality(voteHistory'[u])
  <2>1. RowSet(voteHistory[u], tip) /\ voteItems[u] = Cardinality(voteHistory[u]) BY <1>0 DEF HistoryInv
  <2>2. CASE u \in us
    <3>1. voteHistory'[u] = voteHistory[u] \cup {row} /\ voteItems'[u] = voteItems[u] + 1 BY <1>1, <2>2
    <3>2. \A r \in voteHistory[u] : r.height \in Nat /\ r.height >= 1 /\ r.height < h BY <1>2, <2>1 DEF RowSet
    <3>3. row \notin voteHistory[u] BY <1>2, <1>4, <3>2
    <3>4. IsFiniteSet(voteHistory[u] \cup {row})
          /\ Cardinality(voteHistory[u] \cup {row}) = Cardinality(voteHistory[u]) + 1
      BY <2>1, <3>3, FS_AddElement DEF RowSet
    <3>5. \A r \in voteHistory'[u] : r.height \in 1 .. h BY <1>2, <1>4, <3>1, <3>2
    <3>6. \A r, q \in voteHistory'[u] : r.height = q.height => r = q BY <1>2, <1>4, <2>1, <3>1, <3>2 DEF RowSet
    <3>7. voteHistory'[u] \in SUBSET HistoryRow BY <1>4, <2>1, <3>1 DEF RowSet
    <3> QED BY <1>4, <2>1, <3>1, <3>4, <3>5, <3>6, <3>7 DEF RowSet
  <2>3. CASE u \notin us
    <3>1. voteHistory'[u] = voteHistory[u] /\ voteItems'[u] = voteItems[u]
      <4>1. voteItems[u] \in Nat BY <1>0 DEF UpgradeTypes
      <4> QED BY <1>1, <2>3, <4>1
    <3>2. RowSet(voteHistory[u], h) BY <1>2, <2>1 DEF RowSet
    <3> QED BY <2>1, <2>3, <3>1, <3>2 DEF RowSet
  <2> QED BY <2>2, <2>3
<1>8. refreshes' \in Seq(RefreshRequest) /\ Len(refreshes') <= UpgradeQueueSize
      /\ \A i \in DOMAIN refreshes' : (i \in DOMAIN refreshes /\ refreshes'[i] = refreshes[i]) \/ refreshes'[i] = request
  <2>1. refreshes \in Seq(RefreshRequest) /\ Len(refreshes) <= UpgradeQueueSize BY <1>0 DEF UpgradeTypes
  <2>2. CASE Len(refreshes) < UpgradeQueueSize
    <3>1. refreshes' = Append(refreshes, request) BY <1>1, <2>2 DEF Queued
    <3> HIDE DEF RefreshRequest
    <3>2. refreshes' \in Seq(RefreshRequest) /\ Len(refreshes') = Len(refreshes) + 1 BY <1>5, <2>1, <3>1
    <3>3. ASSUME NEW i \in DOMAIN refreshes'
          PROVE  (i \in DOMAIN refreshes /\ refreshes'[i] = refreshes[i]) \/ refreshes'[i] = request
      BY <1>5, <2>1, <3>1
    <3> QED BY <2>1, <2>2, <3>2, <3>3
  <2>3. CASE ~(Len(refreshes) < UpgradeQueueSize) BY <1>1, <2>1, <2>3 DEF Queued
  <2> QED BY <2>2, <2>3
<1>9. UpgradeTypes'
  <2>1. voteItems' \in [Upgrades -> Nat] BY <1>0, <1>1 DEF UpgradeTypes
  <2>2. voteHistory' \in [Upgrades -> SUBSET HistoryRow] BY <1>1, <1>7
  <2> QED BY <1>0, <1>1, <1>2, <1>8, <2>1, <2>2 DEF UpgradeTypes
<1>10. HistoryInv' BY <1>1, <1>7 DEF HistoryInv
<1>11. ASSUME NEW s \in Seq(Upgrades), NEW x \in Nat, HasRowsAt(s, x, tip, voteHistory)
       PROVE  HasRowsAt(s, x, tip', voteHistory')
  <2>1. \A u \in Range(s) : u \in Upgrades BY DEF Range
  <2> QED BY <1>1, <1>2, <1>7, <1>11, <2>1 DEF HasRowsAt
<1>12. RefreshesInv'
  <2>1. ASSUME NEW i \in DOMAIN refreshes', ~refreshes'[i].overtaken
        PROVE  HasRowsAt(refreshes'[i].upgrades, refreshes'[i].height, tip', voteHistory')
    <3>1. CASE i \in DOMAIN refreshes /\ refreshes'[i] = refreshes[i]
      <4>1. refreshes[i] \in RefreshRequest BY <1>0, <3>1 DEF UpgradeTypes
      <4>2. refreshes[i].upgrades \in Seq(Upgrades) /\ refreshes[i].height \in Nat BY <4>1 DEF RefreshRequest
      <4>3. HasRowsAt(refreshes[i].upgrades, refreshes[i].height, tip, voteHistory) BY <1>0, <2>1, <3>1 DEF RefreshesInv
      <4>4. HasRowsAt(refreshes[i].upgrades, refreshes[i].height, tip', voteHistory') BY <1>11, <4>2, <4>3
      <4> QED BY <3>1, <4>4
    <3>2. CASE refreshes'[i] = request
      <4>1. \A u \in Range(request.upgrades) : \E r \in voteHistory'[u] : r.height = h
        BY <1>3, <1>4, <1>6, <1>7
      <4>2. HasRowsAt(request.upgrades, request.height, tip', voteHistory')
        <5>1. h <= tip' BY <1>1, <1>2
        <5>2. \A u \in Range(request.upgrades) : \E r \in voteHistory'[u] : r.height = request.height BY <1>6, <4>1
        <5> QED BY <1>6, <5>1, <5>2 DEF HasRowsAt
      <4> QED BY <3>2, <4>2
    <3> QED BY <1>8, <3>1, <3>2
  <2>2. ~refresher'.overtaken => HasRowsAt(refresher.todo, refresher.height, tip', voteHistory')
    <3>1. refresher.todo \in Seq(Upgrades) /\ refresher.height \in Nat BY <1>0 DEF UpgradeTypes, RefresherState
    <3>2. ~refresher.overtaken => HasRowsAt(refresher.todo, refresher.height, tip, voteHistory) BY <1>0 DEF RefreshesInv
    <3> QED BY <1>1, <1>11, <3>1, <3>2
  <2> QED BY <1>0, <1>1, <2>1, <2>2 DEF RefreshesInv
<1>13. RowsInv'
  <2> SUFFICES ASSUME refresher.pc = "write"
               PROVE  /\ Len(refresher.rows) > ShortHistoryItems /\ Len(refresher.rows) <= MaxTip
                      /\ Ordered(refresher.rows, Len(refresher.rows))
                      /\ ~refresher.overtaken =>
                           /\ Range(refresher.rows) \subseteq voteHistory'[Head(refresher.todo)]
                           /\ \A r \in voteHistory'[Head(refresher.todo)] : refresher.rows[1].height <= r.height
                           /\ refresher.rows[Len(refresher.rows)].height >= refresher.height
    BY <1>1 DEF RowsInv
  <2> DEFINE rs == refresher.rows
             u == Head(refresher.todo)
  <2>1. u \in Upgrades BY <1>0 DEF RefreshesInv, UpgradeTypes, RefresherState
  <2>2. rs \in Seq(HistoryRow) BY <1>0 DEF UpgradeTypes, RefresherState
  <2>3. /\ Len(rs) > ShortHistoryItems /\ Len(rs) <= MaxTip /\ Ordered(rs, Len(rs))
        /\ ~refresher.overtaken =>
             /\ Range(rs) \subseteq voteHistory[u]
             /\ \A r \in voteHistory[u] : rs[1].height <= r.height
             /\ rs[Len(rs)].height >= refresher.height
    BY <1>0 DEF RowsInv
  <2> HIDE DEF rs, u
  <2>4. ASSUME ~refresher.overtaken, NEW r \in voteHistory'[u] PROVE rs[1].height <= r.height
    <3>1. rs[1] \in Range(rs) BY <2>2, <2>3 DEF Range
    <3>2. rs[1] \in voteHistory[u] BY <2>3, <2>4, <3>1
    <3>3. rs[1].height \in Nat /\ rs[1].height <= tip BY <1>0, <2>1, <3>2 DEF HistoryInv, RowSet
    <3>4. r \in voteHistory[u] \/ r.height = h BY <1>7, <2>1
    <3> QED BY <1>2, <2>3, <2>4, <3>3, <3>4
  <2>5. ~refresher.overtaken => Range(rs) \subseteq voteHistory'[u] BY <1>7, <2>1, <2>3
  <2> QED BY <2>3, <2>4, <2>5 DEF rs, u
<1>14. ShortLengths' BY <1>0, <1>1 DEF ShortLengths
<1>15. ShortSpansHistory'
  <2> SUFFICES ASSUME NEW u \in Upgrades, short[u] # << >>, ~shortOvertaken[u]
               PROVE  /\ Range(short[u]) \subseteq voteHistory'[u]
                      /\ \A r \in voteHistory'[u] : short[u][1].height <= r.height
                      /\ \A i \in 2 .. ShortHistoryItems : short[u][i - 1].height < short[u][i].height
                      /\ short[u][ShortHistoryItems].height >= shortInfo[u].lastHeight
                      /\ shortInfo[u].lastHeight <= h
    BY <1>1 DEF ShortSpansHistory
  <2>1. /\ Range(short[u]) \subseteq voteHistory[u]
        /\ \A r \in voteHistory[u] : short[u][1].height <= r.height
        /\ \A i \in 2 .. ShortHistoryItems : short[u][i - 1].height < short[u][i].height
        /\ short[u][ShortHistoryItems].height >= shortInfo[u].lastHeight
        /\ shortInfo[u].lastHeight <= tip
    BY <1>0 DEF ShortSpansHistory
  <2>2. short[u] \in Seq(HistoryRow) /\ Len(short[u]) # 0 BY <1>0 DEF UpgradeTypes
  <2>3. short[u][1] \in voteHistory[u] BY <2>1, <2>2 DEF Range
  <2>4. short[u][1].height \in Nat /\ short[u][1].height <= tip BY <1>0, <2>3 DEF HistoryInv, RowSet
  <2>5. ASSUME NEW r \in voteHistory'[u] PROVE short[u][1].height <= r.height
    <3>1. r \in voteHistory[u] \/ r.height = h BY <1>7
    <3> QED BY <1>2, <2>1, <2>4, <3>1
  <2>6. shortInfo[u].lastHeight \in Nat BY <1>0 DEF UpgradeTypes
  <2> QED BY <1>2, <1>7, <2>1, <2>5, <2>6
<1> QED BY <1>9, <1>10, <1>12, <1>13, <1>14, <1>15 DEF UpgradeInv

\* A reset removes the rows above p, and marks what it overtakes.
LEMMA ResetUpgradeInv ==
    ASSUME UpgradeInv, NEW p \in 0 .. MaxTip, ResetVotesTo(p) PROVE UpgradeInv'
<1> USE UpgradeBounds
<1>0. UpgradeTypes /\ HistoryInv /\ RefreshesInv /\ RowsInv /\ ShortLengths /\ ShortSpansHistory BY DEF UpgradeInv
<1>1. /\ p < tip /\ resets < MaxUpgradeResets /\ tip' = p /\ resets' = resets + 1 /\ heldVotes' = heldVotes
      /\ voteItems' = [u \in Upgrades |-> ItemsAfterReset(u, p)]
      /\ voteHistory' = [u \in Upgrades |-> voteHistory[u] \ Above(voteHistory[u], p)]
      /\ short' = [u \in Upgrades |-> IF DropsShort(u, p) THEN << >> ELSE short[u]]
      /\ shortInfo' = [u \in Upgrades |-> IF DropsShort(u, p) THEN NoInfo ELSE shortInfo[u]]
      /\ shortOvertaken' = [u \in Upgrades |-> shortOvertaken[u] /\ ~DropsShort(u, p)]
      /\ refreshes' = [i \in DOMAIN refreshes |->
           [refreshes[i] EXCEPT !.overtaken = refreshes[i].overtaken \/ refreshes[i].height > p]]
      /\ refresher' = [refresher EXCEPT !.overtaken =
           refresher.overtaken \/ refresher.height > p \/ Above(Range(refresher.rows), p) # {}]
  BY DEF ResetVotesTo
<1>2. p \in Nat /\ tip \in Nat BY <1>0 DEF UpgradeTypes
<1>3. ASSUME NEW u \in Upgrades
      PROVE  /\ \A r : r \in voteHistory'[u] <=> r \in voteHistory[u] /\ r.height <= p
             /\ RowSet(voteHistory'[u], p) /\ voteItems'[u] = Cardinality(voteHistory'[u]) /\ voteItems'[u] \in Nat
  <2> DEFINE H == voteHistory[u]
             A == Above(H, p)
  <2>1. RowSet(H, tip) /\ voteItems[u] = Cardinality(H) BY <1>0 DEF HistoryInv
  <2>2. voteHistory'[u] = H \ A /\ voteItems'[u] = voteItems[u] - Cardinality(A) BY <1>1 DEF ItemsAfterReset
  <2>3. A \subseteq H /\ (\A r \in H : r.height \in Nat) BY <2>1 DEF Above, RowSet, HistoryRow
  <2>4. \A r : r \in H \ A <=> r \in H /\ r.height <= p BY <1>2, <2>3 DEF Above
  <2> HIDE DEF H, A
  <2>5. H \cap A = A BY <2>3
  <2>6. IsFiniteSet(H \ A) /\ Cardinality(H \ A) = Cardinality(H) - Cardinality(A)
    <3>1. IsFiniteSet(H) BY <2>1 DEF RowSet
    <3>2. Cardinality(H \ A) = Cardinality(H) - Cardinality(H \cap A) BY <3>1, FS_Difference
    <3>3. IsFiniteSet(H \ A) BY <3>1, FS_Difference
    <3> QED BY <2>5, <3>2, <3>3
  <2>7. Cardinality(H \ A) \in Nat BY <2>6, FS_CardinalityType
  <2>8. RowSet(H \ A, p) BY <1>2, <2>1, <2>4, <2>6 DEF RowSet
  <2> QED BY <2>1, <2>2, <2>4, <2>6, <2>7, <2>8 DEF H
<1>4. ASSUME NEW s \in Seq(Upgrades), NEW x \in Nat, HasRowsAt(s, x, tip, voteHistory), ~(x > p)
      PROVE  HasRowsAt(s, x, tip', voteHistory')
  <2>1. \A u \in Range(s) : u \in Upgrades BY DEF Range
  <2>2. x <= p BY <1>2, <1>4
  <2> QED BY <1>1, <1>3, <1>4, <2>1, <2>2 DEF HasRowsAt
<1>5. refreshes' \in Seq(RefreshRequest) /\ Len(refreshes') = Len(refreshes)
      /\ \A i \in DOMAIN refreshes' :
           /\ i \in DOMAIN refreshes
           /\ refreshes'[i].upgrades = refreshes[i].upgrades /\ refreshes'[i].height = refreshes[i].height
           /\ refreshes'[i].overtaken <=> refreshes[i].overtaken \/ refreshes[i].height > p
  <2>1. refreshes \in Seq(RefreshRequest) BY <1>0 DEF UpgradeTypes
  <2>2. DOMAIN refreshes = 1 .. Len(refreshes) /\ Len(refreshes) \in Nat BY <2>1
  <2>3. ASSUME NEW i \in DOMAIN refreshes
        PROVE  /\ refreshes'[i] \in RefreshRequest
               /\ refreshes'[i].upgrades = refreshes[i].upgrades /\ refreshes'[i].height = refreshes[i].height
               /\ refreshes'[i].overtaken <=> refreshes[i].overtaken \/ refreshes[i].height > p
    <3> DEFINE o == refreshes[i].overtaken \/ refreshes[i].height > p
    <3>1. refreshes[i] \in RefreshRequest BY <2>1
    <3>2. refreshes'[i] = [refreshes[i] EXCEPT !.overtaken = o] BY <1>1
    <3>3. o \in BOOLEAN OBVIOUS
    <3> HIDE DEF o
    <3>4. refreshes'[i] \in RefreshRequest BY <3>1, <3>2, <3>3 DEF RefreshRequest
    <3>5. refreshes'[i].overtaken = o /\ refreshes'[i].upgrades = refreshes[i].upgrades
          /\ refreshes'[i].height = refreshes[i].height
      BY <3>1, <3>2 DEF RefreshRequest
    <3> QED BY <3>4, <3>5 DEF o
  <2>4. DOMAIN refreshes' = DOMAIN refreshes BY <1>1
  <2> HIDE DEF RefreshRequest
  <2>5. refreshes' = [i \in 1 .. Len(refreshes) |-> refreshes'[i]] BY <1>1, <2>2
  <2>6. \A i \in 1 .. Len(refreshes) : refreshes'[i] \in RefreshRequest BY <2>2, <2>3
  <2>7. refreshes' \in [1 .. Len(refreshes) -> RefreshRequest] BY <2>5, <2>6
  <2>8. refreshes' \in Seq(RefreshRequest) /\ Len(refreshes') = Len(refreshes) BY <2>2, <2>7
  <2> QED BY <2>3, <2>4, <2>8
<1>6. /\ refresher' \in RefresherState
      /\ refresher'.todo = refresher.todo /\ refresher'.height = refresher.height
      /\ refresher'.pc = refresher.pc /\ refresher'.rows = refresher.rows
      /\ refresher'.overtaken <=>
           refresher.overtaken \/ refresher.height > p \/ Above(Range(refresher.rows), p) # {}
  <2> DEFINE o == refresher.overtaken \/ refresher.height > p \/ Above(Range(refresher.rows), p) # {}
  <2>1. refresher \in RefresherState BY <1>0 DEF UpgradeTypes
  <2>2. refresher' = [refresher EXCEPT !.overtaken = o] /\ o \in BOOLEAN BY <1>1
  <2> HIDE DEF o
  <2>3. refresher' \in RefresherState BY <2>1, <2>2 DEF RefresherState
  <2>4. /\ refresher'.todo = refresher.todo /\ refresher'.height = refresher.height
        /\ refresher'.pc = refresher.pc /\ refresher'.rows = refresher.rows /\ refresher'.overtaken = o
    BY <2>1, <2>2 DEF RefresherState
  <2> QED BY <2>3, <2>4 DEF o
<1>7. UpgradeTypes'
  <2>1. NoInfo \in [lastHeight : 0 .. MaxTip, lastStep : 0 .. MaxTip] BY DEF NoInfo
  <2>2. shortInfo' \in [Upgrades -> [lastHeight : 0 .. MaxTip, lastStep : 0 .. MaxTip]]
    BY <1>0, <1>1, <2>1 DEF UpgradeTypes
  <2>3. short' \in [Upgrades -> Seq(HistoryRow)]
    <3>1. << >> \in Seq(HistoryRow) OBVIOUS
    <3> QED BY <1>0, <1>1, <3>1 DEF UpgradeTypes
  <2>4. voteHistory' \in [Upgrades -> SUBSET HistoryRow] BY <1>1, <1>3 DEF RowSet
  <2>5. voteItems' \in [Upgrades -> Nat] BY <1>1, <1>3
  <2>6. shortOvertaken' \in [Upgrades -> BOOLEAN] BY <1>1
  <2>7. tip' \in 0 .. MaxTip /\ resets' \in 0 .. MaxUpgradeResets BY <1>0, <1>1 DEF UpgradeTypes
  <2> QED BY <1>0, <1>1, <1>5, <1>6, <2>2, <2>3, <2>4, <2>5, <2>6, <2>7 DEF UpgradeTypes
<1>8. HistoryInv' BY <1>1, <1>3 DEF HistoryInv
<1>9. RefreshesInv'
  <2>1. ASSUME NEW i \in DOMAIN refreshes', ~refreshes'[i].overtaken
        PROVE  HasRowsAt(refreshes'[i].upgrades, refreshes'[i].height, tip', voteHistory')
    <3>1. i \in DOMAIN refreshes /\ ~refreshes[i].overtaken /\ ~(refreshes[i].height > p) BY <1>5, <2>1
    <3>2. refreshes[i].upgrades \in Seq(Upgrades) /\ refreshes[i].height \in Nat
      <4>1. refreshes[i] \in RefreshRequest BY <1>0, <3>1 DEF UpgradeTypes
      <4> QED BY <4>1 DEF RefreshRequest
    <3>3. HasRowsAt(refreshes[i].upgrades, refreshes[i].height, tip, voteHistory) BY <1>0, <3>1 DEF RefreshesInv
    <3>4. HasRowsAt(refreshes[i].upgrades, refreshes[i].height, tip', voteHistory') BY <1>4, <3>1, <3>2, <3>3
    <3> QED BY <1>5, <3>4
  <2>2. ASSUME ~refresher'.overtaken PROVE HasRowsAt(refresher'.todo, refresher'.height, tip', voteHistory')
    <3>1. ~refresher.overtaken /\ ~(refresher.height > p) BY <1>6, <2>2
    <3>2. refresher.todo \in Seq(Upgrades) /\ refresher.height \in Nat BY <1>0 DEF UpgradeTypes, RefresherState
    <3>3. HasRowsAt(refresher.todo, refresher.height, tip, voteHistory) BY <1>0, <3>1 DEF RefreshesInv
    <3>4. HasRowsAt(refresher.todo, refresher.height, tip', voteHistory') BY <1>4, <3>1, <3>2, <3>3
    <3> QED BY <1>6, <3>4
  <2> QED BY <1>0, <1>6, <2>1, <2>2 DEF RefreshesInv
<1>10. RowsInv'
  <2> DEFINE rs == refresher.rows
             u == Head(refresher.todo)
  <2> SUFFICES ASSUME refresher.pc = "write"
               PROVE  /\ Len(rs) > ShortHistoryItems /\ Len(rs) <= MaxTip /\ Ordered(rs, Len(rs))
                      /\ ~refresher'.overtaken =>
                           /\ Range(rs) \subseteq voteHistory'[u]
                           /\ \A r \in voteHistory'[u] : rs[1].height <= r.height
                           /\ rs[Len(rs)].height >= refresher.height
    BY <1>6 DEF RowsInv
  <2>1. u \in Upgrades BY <1>0 DEF RefreshesInv, UpgradeTypes, RefresherState
  <2>2. /\ Len(rs) > ShortHistoryItems /\ Len(rs) <= MaxTip /\ Ordered(rs, Len(rs))
        /\ ~refresher.overtaken =>
             /\ Range(rs) \subseteq voteHistory[u]
             /\ \A r \in voteHistory[u] : rs[1].height <= r.height
             /\ rs[Len(rs)].height >= refresher.height
    BY <1>0 DEF RowsInv
  <2>3. rs \in Seq(HistoryRow) BY <1>0 DEF UpgradeTypes, RefresherState
  <2> HIDE DEF rs, u
  <2>4. ASSUME ~refresher'.overtaken, NEW r \in Range(rs) PROVE r \in voteHistory'[u]
    <3>1. Above(Range(rs), p) = {} /\ ~refresher.overtaken BY <1>6, <2>4 DEF rs
    <3>2. r \in voteHistory[u] BY <2>2, <2>4, <3>1
    <3>3. r.height \in Nat BY <1>0, <2>1, <3>2 DEF HistoryInv, RowSet, HistoryRow
    <3>4. r.height <= p BY <1>2, <3>1, <3>3 DEF Above
    <3> QED BY <1>3, <2>1, <3>2, <3>4
  <2>5. ~refresher'.overtaken => ~refresher.overtaken BY <1>6
  <2>6. \A r \in voteHistory'[u] : r \in voteHistory[u] BY <1>3, <2>1
  <2> QED BY <2>2, <2>4, <2>5, <2>6
<1>11. ShortLengths'
  <2>1. Len(<< >>) = 0 OBVIOUS
  <2> QED BY <1>0, <1>1, <2>1 DEF ShortLengths
<1>12. ShortSpansHistory'
  <2> SUFFICES ASSUME NEW u \in Upgrades, short'[u] # << >>, ~shortOvertaken'[u]
               PROVE  /\ Range(short'[u]) \subseteq voteHistory'[u]
                      /\ \A r \in voteHistory'[u] : short'[u][1].height <= r.height
                      /\ \A i \in 2 .. ShortHistoryItems : short'[u][i - 1].height < short'[u][i].height
                      /\ short'[u][ShortHistoryItems].height >= shortInfo'[u].lastHeight
                      /\ shortInfo'[u].lastHeight <= tip'
    BY DEF ShortSpansHistory
  <2>1. ~DropsShort(u, p) BY <1>1
  <2>2. short'[u] = short[u] /\ shortInfo'[u] = shortInfo[u] /\ ~shortOvertaken[u] BY <1>1, <2>1
  <2>3. /\ Range(short[u]) \subseteq voteHistory[u]
        /\ \A r \in voteHistory[u] : short[u][1].height <= r.height
        /\ \A i \in 2 .. ShortHistoryItems : short[u][i - 1].height < short[u][i].height
        /\ short[u][ShortHistoryItems].height >= shortInfo[u].lastHeight
    BY <1>0, <2>2 DEF ShortSpansHistory
  <2>4. short[u] \in Seq(HistoryRow) /\ Len(short[u]) = ShortHistoryItems
    BY <1>0, <2>2 DEF UpgradeTypes, ShortLengths
  <2>5. \A r \in Range(short[u]) : r.height \in Nat /\ r.height <= p
    <3>1. \A r \in Range(short[u]) : r \in HistoryRow BY <2>4 DEF Range
    <3> QED BY <1>2, <2>1, <3>1 DEF DropsShort, Above, HistoryRow
  <2>6. short[u][ShortHistoryItems] \in Range(short[u]) BY <2>4 DEF Range
  <2>7. shortInfo[u].lastHeight \in Nat BY <1>0 DEF UpgradeTypes
  <2>8. shortInfo[u].lastHeight <= p BY <1>2, <2>3, <2>5, <2>6, <2>7
  <2>9. Range(short[u]) \subseteq voteHistory'[u] BY <1>3, <2>3, <2>5
  <2>10. \A r \in voteHistory'[u] : short[u][1].height <= r.height BY <1>3, <2>3
  <2> QED BY <1>1, <2>2, <2>3, <2>8, <2>9, <2>10
<1> QED BY <1>7, <1>8, <1>9, <1>10, <1>11, <1>12 DEF UpgradeInv

\* On with the next upgrade: the refresh stays what it was.
LEMMA FinishedRefresh ==
    ASSUME UpgradeInv, refresher.todo # << >>, refresher' = Finished, UNCHANGED <<tip, voteHistory, refreshes>>
    PROVE  refresher' \in RefresherState /\ RefreshesInv' /\ RowsInv'
<1>0. UpgradeTypes /\ RefreshesInv BY DEF UpgradeInv
<1>1. refresher \in RefresherState BY <1>0 DEF UpgradeTypes
<1>2. refresher.todo \in Seq(Upgrades) BY <1>1 DEF RefresherState
<1>3. Tail(refresher.todo) \in Seq(Upgrades) BY <1>2
<1>4. Range(Tail(refresher.todo)) \subseteq Range(refresher.todo) BY <1>2 DEF Range
<1>5. << >> \in Seq(HistoryRow) OBVIOUS
<1>6. /\ refresher'.todo = Tail(refresher.todo) /\ refresher'.height = refresher.height
      /\ refresher'.pc = "info" /\ refresher'.overtaken = refresher.overtaken
  BY <1>1 DEF Finished, RefresherState
<1>7. refresher' \in RefresherState BY <1>1, <1>3, <1>5 DEF Finished, RefresherState
<1>8. ~refresher'.overtaken => HasRowsAt(refresher'.todo, refresher'.height, tip', voteHistory')
  <2>1. ~refresher.overtaken => HasRowsAt(refresher.todo, refresher.height, tip, voteHistory) BY <1>0 DEF RefreshesInv
  <2> QED BY <1>4, <1>6, <2>1 DEF HasRowsAt
<1>9. refresher'.pc \notin {"history", "write"} BY <1>6
<1>10. RefreshesInv' BY <1>0, <1>8, <1>9 DEF RefreshesInv
<1>11. RowsInv' BY <1>6 DEF RowsInv
<1> QED BY <1>7, <1>10, <1>11

\* A step of the refresher that touches no table.
LEMMA RefresherStep ==
    ASSUME UpgradeInv, refresher' \in RefresherState, RefreshesInv', RowsInv',
           refreshes' \in Seq(RefreshRequest), Len(refreshes') <= UpgradeQueueSize,
           UNCHANGED <<tip, resets, heldVotes, voteHistory, voteItems, short, shortInfo, shortOvertaken>>
    PROVE  UpgradeInv'
<1>1. UpgradeTypes' BY DEF UpgradeInv, UpgradeTypes
<1>2. HistoryInv' /\ ShortLengths' /\ ShortSpansHistory' BY DEF UpgradeInv, HistoryInv, ShortLengths, ShortSpansHistory
<1> QED BY <1>1, <1>2 DEF UpgradeInv

\* The next refresh of the queue is taken.
LEMMA TakeUpgradeInv == ASSUME UpgradeInv, TakeRefresh PROVE UpgradeInv'
<1> USE UpgradeBounds
<1>0. UpgradeTypes /\ RefreshesInv BY DEF UpgradeInv
<1> DEFINE first == Head(refreshes)
<1>1. /\ refreshes # << >> /\ refreshes' = Tail(refreshes)
      /\ refresher' = [todo |-> first.upgrades, height |-> first.height,
                       pc |-> "info", rows |-> << >>, overtaken |-> first.overtaken]
      /\ UNCHANGED <<tip, resets, heldVotes, voteHistory, voteItems, short, shortInfo, shortOvertaken>>
  BY DEF TakeRefresh
<1>2. refreshes \in Seq(RefreshRequest) /\ Len(refreshes) <= UpgradeQueueSize BY <1>0 DEF UpgradeTypes
<1>3. /\ refreshes' \in Seq(RefreshRequest) /\ Len(refreshes') <= UpgradeQueueSize
      /\ 1 \in DOMAIN refreshes /\ first = refreshes[1] /\ first \in RefreshRequest
      /\ \A i \in DOMAIN refreshes' : i + 1 \in DOMAIN refreshes /\ refreshes'[i] = refreshes[i + 1]
  <2> HIDE DEF RefreshRequest
  <2> QED BY <1>1, <1>2
<1> HIDE DEF first
<1>4. << >> \in Seq(HistoryRow) OBVIOUS
<1>5. refresher' \in RefresherState BY <1>1, <1>3, <1>4 DEF RefreshRequest, RefresherState
<1>6. refresher'.todo = first.upgrades /\ refresher'.height = first.height
      /\ refresher'.pc = "info" /\ refresher'.overtaken = first.overtaken
  BY <1>1
<1>7. ~first.overtaken => HasRowsAt(first.upgrades, first.height, tip, voteHistory) BY <1>0, <1>3 DEF RefreshesInv
<1>8. ~refresher'.overtaken => HasRowsAt(refresher'.todo, refresher'.height, tip', voteHistory') BY <1>1, <1>6, <1>7
<1>9. \A i \in DOMAIN refreshes' :
        ~refreshes'[i].overtaken => HasRowsAt(refreshes'[i].upgrades, refreshes'[i].height, tip', voteHistory')
  BY <1>0, <1>1, <1>3 DEF RefreshesInv
<1>10. RefreshesInv' BY <1>6, <1>8, <1>9 DEF RefreshesInv
<1>11. RowsInv' BY <1>6 DEF RowsInv
<1> QED BY <1>1, <1>3, <1>5, <1>10, <1>11, RefresherStep

\* The refresher reads what it needs to decide.
LEMMA InfoUpgradeInv == ASSUME UpgradeInv, NEW fails, ReadInfo(fails) PROVE UpgradeInv'
<1>0. UpgradeTypes /\ RefreshesInv BY DEF UpgradeInv
<1>1. /\ refresher.todo # << >> /\ refresher.pc = "info"
      /\ refresher' = Finished \/ refresher' = [refresher EXCEPT !.pc = "history"]
      /\ UNCHANGED <<tip, resets, heldVotes, voteHistory, voteItems, short, shortInfo, refreshes, shortOvertaken>>
  BY DEF ReadInfo
<1>2. refresher \in RefresherState /\ refreshes \in Seq(RefreshRequest) /\ Len(refreshes) <= UpgradeQueueSize
  BY <1>0 DEF UpgradeTypes
<1>3. refresher' \in RefresherState /\ RefreshesInv' /\ RowsInv'
  <2>1. CASE refresher' = Finished BY <1>1, <2>1, FinishedRefresh
  <2>2. CASE refresher' = [refresher EXCEPT !.pc = "history"]
    <3>1. refresher' \in RefresherState BY <1>2, <2>2 DEF RefresherState
    <3>2. /\ refresher'.todo = refresher.todo /\ refresher'.height = refresher.height
          /\ refresher'.pc = "history" /\ refresher'.overtaken = refresher.overtaken
      BY <1>2, <2>2 DEF RefresherState
    <3>3. RefreshesInv' BY <1>0, <1>1, <3>2 DEF RefreshesInv
    <3> QED BY <3>1, <3>2, <3>3 DEF RowsInv
  <2> QED BY <1>1, <2>1, <2>2
<1> QED BY <1>1, <1>2, <1>3, RefresherStep

\* The rows that GetUpgradeVotingHistory returns go from the first row to the last.
LEMMA InOrderSpans ==
    ASSUME NEW b \in Nat, NEW R, RowSet(R, b), NEW r \in R
    PROVE  InOrder(R)[1].height <= r.height /\ r.height <= InOrder(R)[Len(InOrder(R))].height
<1> DEFINE s == InOrder(R)
           n == Cardinality(R)
<1>1. s \in Seq(R) /\ Len(s) = n /\ n \in Nat /\ Ordered(s, n) BY InOrderRows
<1>2. PICK i \in 1 .. n : s[i] = r BY InOrderRows
<1> HIDE DEF s, n
<1>3. 1 \in 1 .. n /\ n \in 1 .. n BY <1>1, <1>2
<1>4. s[1] \in R /\ s[n] \in R BY <1>1, <1>3
<1>5. s[1].height \in Nat /\ s[n].height \in Nat /\ r.height \in Nat BY <1>4 DEF RowSet, HistoryRow
<1>6. i = 1 \/ 1 < i BY <1>1, <1>2
<1>7. i = n \/ i < n BY <1>1, <1>2
<1>8. s[1].height <= r.height BY <1>1, <1>2, <1>3, <1>5, <1>6 DEF Ordered
<1>9. r.height <= s[n].height BY <1>1, <1>2, <1>3, <1>5, <1>7 DEF Ordered
<1> QED BY <1>1, <1>8, <1>9 DEF s, n

\* The refresher reads the history.
LEMMA ReadUpgradeInv == ASSUME UpgradeInv, NEW fails, ReadHistory(fails) PROVE UpgradeInv'
<1> USE UpgradeBounds
<1>0. UpgradeTypes /\ HistoryInv /\ RefreshesInv BY DEF UpgradeInv
<1> DEFINE u == Head(refresher.todo)
           R == voteHistory[u]
           rows == InOrder(R)
<1>1. /\ refresher.pc = "history"
      /\ refresher' = Finished \/ (Len(rows) > ShortHistoryItems
                                   /\ refresher' = [refresher EXCEPT !.pc = "write", !.rows = rows])
      /\ UNCHANGED <<tip, resets, heldVotes, voteHistory, voteItems, short, shortInfo, refreshes, shortOvertaken>>
  <2>1. /\ refresher.pc = "history"
        /\ refresher' = Finished \/ (~(Len(rows) <= ShortHistoryItems)
                                     /\ refresher' = [refresher EXCEPT !.pc = "write", !.rows = rows])
        /\ UNCHANGED <<tip, resets, heldVotes, voteHistory, voteItems, short, shortInfo, refreshes, shortOvertaken>>
    BY DEF ReadHistory
  <2>2. refresher.todo # << >> BY <1>0, <2>1 DEF RefreshesInv
  <2>3. u \in Upgrades BY <1>0, <2>2 DEF UpgradeTypes, RefresherState
  <2>4. tip \in Nat /\ RowSet(R, tip) BY <1>0, <2>3 DEF UpgradeTypes, HistoryInv
  <2> HIDE DEF u, R
  <2>5. Len(rows) \in Nat BY <2>4, InOrderRows
  <2> QED BY <2>1, <2>5
<1>2. refresher \in RefresherState /\ refreshes \in Seq(RefreshRequest) /\ Len(refreshes) <= UpgradeQueueSize
  BY <1>0 DEF UpgradeTypes
<1>3. refresher.todo # << >> /\ refresher.todo \in Seq(Upgrades) BY <1>0, <1>1, <1>2 DEF RefreshesInv, RefresherState
<1>4. u \in Upgrades /\ u \in Range(refresher.todo) BY <1>3 DEF Range
<1>5. tip \in Nat /\ tip <= MaxTip /\ RowSet(R, tip) BY <1>0, <1>4 DEF UpgradeTypes, HistoryInv
<1>6. refresher' \in RefresherState /\ RefreshesInv' /\ RowsInv'
  <2>1. CASE refresher' = Finished BY <1>1, <1>3, <2>1, FinishedRefresh
  <2>2. CASE Len(rows) > ShortHistoryItems /\ refresher' = [refresher EXCEPT !.pc = "write", !.rows = rows]
    <3> HIDE DEF R, rows
    <3>1. rows \in Seq(R) /\ Len(rows) = Cardinality(R) /\ Ordered(rows, Len(rows)) BY <1>5, InOrderRows DEF rows
    <3>2. Len(rows) <= MaxTip BY <1>5, <3>1, RowsAreFew
    <3>3. R \subseteq HistoryRow BY <1>5 DEF RowSet
    <3>4. rows \in Seq(HistoryRow) BY <3>1, <3>3
    <3>5. refresher' \in RefresherState BY <1>2, <2>2, <3>4 DEF RefresherState
    <3>6. /\ refresher'.todo = refresher.todo /\ refresher'.height = refresher.height /\ refresher'.pc = "write"
          /\ refresher'.overtaken = refresher.overtaken /\ refresher'.rows = rows
      BY <1>2, <2>2 DEF RefresherState
    <3>7. RefreshesInv' BY <1>0, <1>1, <1>3, <3>6 DEF RefreshesInv
    <3>8. Range(rows) \subseteq R BY <3>1 DEF Range
    <3>9. \A r \in R : rows[1].height <= r.height /\ r.height <= rows[Len(rows)].height
      BY <1>5, InOrderSpans DEF rows
    <3>10. ~refresher.overtaken => rows[Len(rows)].height >= refresher.height
      <4> SUFFICES ASSUME ~refresher.overtaken PROVE rows[Len(rows)].height >= refresher.height OBVIOUS
      <4>1. PICK r \in R : r.height = refresher.height BY <1>0, <1>4 DEF RefreshesInv, HasRowsAt, R
      <4>2. refresher.height <= rows[Len(rows)].height BY <3>9, <4>1
      <4>3. Len(rows) \in 1 .. Len(rows) BY <2>2, <3>1
      <4>4. rows[Len(rows)] \in HistoryRow BY <3>4, <4>3
      <4>5. rows[Len(rows)].height \in Nat /\ refresher.height \in Nat BY <1>2, <4>4 DEF HistoryRow, RefresherState
      <4> QED BY <4>2, <4>5
    <3>11. voteHistory'[Head(refresher'.todo)] = R BY <1>1, <3>6 DEF R
    <3>12. RowsInv' BY <2>2, <3>1, <3>2, <3>6, <3>8, <3>9, <3>10, <3>11 DEF RowsInv
    <3> QED BY <3>5, <3>7, <3>12
  <2> QED BY <1>1, <2>1, <2>2
<1> QED BY <1>1, <1>2, <1>6, RefresherStep

\* The items picked of a longer history are rows of it, in strict order, from its
\* first to its last.
LEMMA PickSpans ==
    ASSUME NEW rows \in Seq(HistoryRow), Len(rows) > ShortHistoryItems, Ordered(rows, Len(rows))
    PROVE  /\ Pick(rows) \in Seq(HistoryRow) /\ Len(Pick(rows)) = ShortHistoryItems
           /\ Range(Pick(rows)) \subseteq Range(rows)
           /\ Pick(rows)[1] = rows[1] /\ Pick(rows)[ShortHistoryItems] = rows[Len(rows)]
           /\ \A i \in 2 .. ShortHistoryItems : Pick(rows)[i - 1].height < Pick(rows)[i].height
<1> USE UpgradeBounds
<1> DEFINE n == Len(rows)
           k == ShortHistoryItems
           s == Pick(rows)
           ix(i) == Idx(i - 1, n) + 1
<1>1. n \in Nat /\ k \in Nat /\ k >= 2 /\ n > k OBVIOUS
<1>2. DOMAIN rows = 1 .. n OBVIOUS
<1>3. s = [i \in 1 .. k |-> rows[ix(i)]] BY DEF Pick
<1>4. /\ Idx(0, n) = 0 /\ Idx(k - 1, n) = n - 1
      /\ \A i \in 0 .. (k - 1) : Idx(i, n) \in 0 .. (n - 1)
      /\ \A i, j \in 0 .. (k - 1) : i < j => Idx(i, n) < Idx(j, n)
  BY <1>1, IdxRange
<1>5. ASSUME NEW i \in 1 .. k PROVE ix(i) \in 1 .. n
  <2>1. i - 1 \in 0 .. (k - 1) BY <1>1
  <2>2. Idx(i - 1, n) \in 0 .. (n - 1) BY <1>4, <2>1
  <2> QED BY <1>1, <2>2
<1>6. ix(1) = 1 /\ ix(k) = n
  <2>1. 1 - 1 = 0 OBVIOUS
  <2>2. ix(1) = 1 BY <1>4, <2>1
  <2>3. ix(k) = n BY <1>1, <1>4
  <2> QED BY <2>2, <2>3
<1>7. ASSUME NEW i \in 2 .. k PROVE i - 1 \in 1 .. k /\ i \in 1 .. k /\ ix(i - 1) < ix(i)
  <2>1. i - 2 \in 0 .. (k - 1) /\ i - 1 \in 0 .. (k - 1) /\ i - 2 < i - 1 BY <1>1
  <2>2. Idx(i - 2, n) \in 0 .. (n - 1) /\ Idx(i - 1, n) \in 0 .. (n - 1) BY <1>4, <2>1
  <2>3. Idx(i - 2, n) < Idx(i - 1, n) BY <1>4, <2>1
  <2>4. (i - 1) - 1 = i - 2 OBVIOUS
  <2>5. ix(i - 1) = Idx(i - 2, n) + 1 BY <2>4
  <2> QED BY <1>1, <2>2, <2>3, <2>5
<1> HIDE DEF n, k, s, ix
<1>8. rows \in [1 .. n -> HistoryRow] BY <1>2 DEF n
<1>9. \A i \in 1 .. k : s[i] = rows[ix(i)] /\ s[i] \in HistoryRow BY <1>3, <1>5, <1>8
<1>10. s \in [1 .. k -> HistoryRow] BY <1>3, <1>5, <1>8
<1>11. s \in Seq(HistoryRow) /\ Len(s) = k BY <1>1, <1>10
<1>12. Range(s) \subseteq Range(rows)
  <2>1. \A i \in 1 .. k : s[i] \in Range(rows) BY <1>2, <1>5, <1>9 DEF Range
  <2> QED BY <1>10, <2>1 DEF Range
<1>13. s[1] = rows[1] /\ s[k] = rows[n] BY <1>1, <1>6, <1>9
<1>14. ASSUME NEW i \in 2 .. k PROVE s[i - 1].height < s[i].height
  <2>1. i - 1 \in 1 .. k /\ i \in 1 .. k /\ ix(i - 1) < ix(i) BY <1>7
  <2>2. ix(i - 1) \in 1 .. n /\ ix(i) \in 1 .. n BY <1>5, <2>1
  <2>3. Ordered(rows, n) BY DEF n
  <2>4. rows[ix(i - 1)].height < rows[ix(i)].height BY <2>1, <2>2, <2>3 DEF Ordered
  <2> QED BY <1>9, <2>1, <2>4
<1> QED BY <1>11, <1>12, <1>13, <1>14 DEF n, k, s

\* The refresher writes the short history of its upgrade.
LEMMA WriteUpgradeInv == ASSUME UpgradeInv, NEW fails, WriteShort(fails) PROVE UpgradeInv'
<1> USE UpgradeBounds
<1>0. UpgradeTypes /\ HistoryInv /\ RefreshesInv /\ RowsInv /\ ShortLengths /\ ShortSpansHistory BY DEF UpgradeInv
<1> DEFINE u == Head(refresher.todo)
           rows == refresher.rows
           info == [lastHeight |-> refresher.height, lastStep |-> LastStep(Len(rows))]
<1>1. /\ refresher.pc = "write" /\ refresher' = Finished
      /\ UNCHANGED <<tip, resets, heldVotes, voteHistory, voteItems, refreshes>>
      /\ \/ UNCHANGED <<short, shortInfo, shortOvertaken>>
         \/ /\ short' = [short EXCEPT ![u] = Pick(rows)]
            /\ shortInfo' = [shortInfo EXCEPT ![u] = info]
            /\ shortOvertaken' = [shortOvertaken EXCEPT ![u] = refresher.overtaken]
  BY DEF WriteShort
<1>2. refresher \in RefresherState /\ refreshes \in Seq(RefreshRequest) /\ Len(refreshes) <= UpgradeQueueSize
  BY <1>0 DEF UpgradeTypes
<1>3. refresher.todo # << >> BY <1>0, <1>1 DEF RefreshesInv
<1>4. u \in Upgrades /\ u \in Range(refresher.todo) BY <1>2, <1>3 DEF RefresherState, Range
<1>5. refresher' \in RefresherState /\ RefreshesInv' /\ RowsInv' BY <1>1, <1>3, FinishedRefresh
<1>6. CASE UNCHANGED <<short, shortInfo, shortOvertaken>> BY <1>1, <1>2, <1>5, <1>6, RefresherStep
<1>7. CASE /\ short' = [short EXCEPT ![u] = Pick(rows)]
           /\ shortInfo' = [shortInfo EXCEPT ![u] = info]
           /\ shortOvertaken' = [shortOvertaken EXCEPT ![u] = refresher.overtaken]
  <2>1. /\ rows \in Seq(HistoryRow) /\ Len(rows) > ShortHistoryItems /\ Len(rows) <= MaxTip
        /\ Ordered(rows, Len(rows))
        /\ ~refresher.overtaken =>
             /\ Range(rows) \subseteq voteHistory[u]
             /\ \A r \in voteHistory[u] : rows[1].height <= r.height
             /\ rows[Len(rows)].height >= refresher.height
    BY <1>0, <1>1, <1>2 DEF RowsInv, RefresherState
  <2>2. refresher.height \in 0 .. MaxTip /\ refresher.overtaken \in BOOLEAN BY <1>2 DEF RefresherState
  <2>3. ~refresher.overtaken => refresher.height <= tip BY <1>0 DEF RefreshesInv, HasRowsAt
  <2> HIDE DEF u, rows
  <2> DEFINE s == Pick(rows)
  <2>4. /\ s \in Seq(HistoryRow) /\ Len(s) = ShortHistoryItems
        /\ Range(s) \subseteq Range(rows)
        /\ s[1] = rows[1] /\ s[ShortHistoryItems] = rows[Len(rows)]
        /\ \A i \in 2 .. ShortHistoryItems : s[i - 1].height < s[i].height
    BY <2>1, PickSpans
  <2>5. LastStep(Len(rows)) \in 0 .. MaxTip
    <3>1. Len(rows) \in Nat BY <2>1
    <3>2. LastStep(Len(rows)) \in 0 .. Len(rows) BY <2>1, <3>1, LastStepRange
    <3> QED BY <2>1, <3>1, <3>2
  <2>6. info \in [lastHeight : 0 .. MaxTip, lastStep : 0 .. MaxTip] /\ info.lastHeight = refresher.height
    BY <2>2, <2>5
  <2> HIDE DEF s, info
  <2>7. /\ short \in [Upgrades -> Seq(HistoryRow)] /\ shortOvertaken \in [Upgrades -> BOOLEAN]
        /\ shortInfo \in [Upgrades -> [lastHeight : 0 .. MaxTip, lastStep : 0 .. MaxTip]]
    BY <1>0 DEF UpgradeTypes
  <2>8. short'[u] = s /\ shortInfo'[u] = info /\ shortOvertaken'[u] = refresher.overtaken
    BY <1>4, <1>7, <2>7 DEF s
  <2>9. \A v \in Upgrades : v # u =>
          short'[v] = short[v] /\ shortInfo'[v] = shortInfo[v] /\ shortOvertaken'[v] = shortOvertaken[v]
    BY <1>7, <2>7
  <2>10. UpgradeTypes'
    <3>1. short' \in [Upgrades -> Seq(HistoryRow)] BY <1>7, <2>4, <2>7 DEF s
    <3>2. shortInfo' \in [Upgrades -> [lastHeight : 0 .. MaxTip, lastStep : 0 .. MaxTip]] BY <1>7, <2>6, <2>7
    <3>3. shortOvertaken' \in [Upgrades -> BOOLEAN] BY <1>7, <2>2, <2>7
    <3> QED BY <1>0, <1>1, <1>5, <3>1, <3>2, <3>3 DEF UpgradeTypes
  <2>11. HistoryInv' BY <1>0, <1>1 DEF HistoryInv
  <2>12. ShortLengths'
    <3>1. \A v \in Upgrades : v = u \/ v # u OBVIOUS
    <3> QED BY <1>0, <2>4, <2>8, <2>9, <3>1 DEF ShortLengths
  <2>13. ShortSpansHistory'
    <3> SUFFICES ASSUME NEW v \in Upgrades, short'[v] # << >>, ~shortOvertaken'[v]
                 PROVE  /\ Range(short'[v]) \subseteq voteHistory'[v]
                        /\ \A r \in voteHistory'[v] : short'[v][1].height <= r.height
                        /\ \A i \in 2 .. ShortHistoryItems : short'[v][i - 1].height < short'[v][i].height
                        /\ short'[v][ShortHistoryItems].height >= shortInfo'[v].lastHeight
                        /\ shortInfo'[v].lastHeight <= tip'
      BY DEF ShortSpansHistory
    <3>1. CASE v = u
      <4>1. ~refresher.overtaken BY <2>8, <3>1
      <4>2. Range(s) \subseteq voteHistory[u] BY <2>1, <2>4, <4>1
      <4>3. \A r \in voteHistory[u] : s[1].height <= r.height BY <2>1, <2>4, <4>1
      <4>4. s[ShortHistoryItems].height >= info.lastHeight BY <2>1, <2>4, <2>6, <4>1
      <4>5. info.lastHeight <= tip BY <2>3, <2>6, <4>1
      <4>6. short'[v] = s /\ shortInfo'[v] = info /\ voteHistory'[v] = voteHistory[u] /\ tip' = tip
        BY <1>1, <2>8, <3>1
      <4> QED BY <2>4, <4>2, <4>3, <4>4, <4>5, <4>6
    <3>2. CASE v # u
      <4>1. short'[v] = short[v] /\ shortInfo'[v] = shortInfo[v] /\ ~shortOvertaken[v] BY <2>9, <3>2
      <4> QED BY <1>0, <1>1, <4>1 DEF ShortSpansHistory
    <3> QED BY <3>1, <3>2
  <2> QED BY <1>5, <2>10, <2>11, <2>12, <2>13 DEF UpgradeInv
<1> QED BY <1>1, <1>6, <1>7

\* Every step keeps the invariant.
LEMMA NextUpgradeInv == UpgradeInv /\ [UpgradeNext]_upgradeVars => UpgradeInv'
<1> SUFFICES ASSUME UpgradeInv, [UpgradeNext]_upgradeVars PROVE UpgradeInv' OBVIOUS
<1>1. ASSUME NEW votes \in [VotersOfUpgrades -> Upgrades \cup {NoUpgrade}], UpdateHeldVotes(votes) PROVE UpgradeInv'
  BY <1>1, HeldUpgradeInv
<1>2. ASSUME NEW active \in SUBSET Upgrades, SaveBlockVotes(active) PROVE UpgradeInv' BY <1>2, SaveUpgradeInv
<1>3. ASSUME NEW p \in 0 .. MaxTip, ResetVotesTo(p) PROVE UpgradeInv' BY <1>3, ResetUpgradeInv
<1>4. CASE TakeRefresh BY <1>4, TakeUpgradeInv
<1>5. ASSUME NEW fails \in BOOLEAN, ReadInfo(fails) PROVE UpgradeInv' BY <1>5, InfoUpgradeInv
<1>6. ASSUME NEW fails \in BOOLEAN, ReadHistory(fails) PROVE UpgradeInv' BY <1>6, ReadUpgradeInv
<1>7. ASSUME NEW fails \in BOOLEAN, WriteShort(fails) PROVE UpgradeInv' BY <1>7, WriteUpgradeInv
<1>8. CASE UNCHANGED upgradeVars
  BY <1>8 DEF upgradeVars, UpgradeInv, UpgradeTypes, HistoryInv, RefreshesInv, RowsInv, ShortLengths,
              ShortSpansHistory
<1> QED BY <1>1, <1>2, <1>3, <1>4, <1>5, <1>6, <1>7, <1>8 DEF UpgradeNext

\* The summary tables follow the history of votes through resets, whatever the
\* refresher (loopRefreshUpgradeVotingHistorySummaries) was doing when a reset came.
THEOREM SummaryFollowsHistoryAlways == UpgradeInit /\ [][UpgradeNext]_upgradeVars => []SummaryFollowsHistory
<1>1. UpgradeInv => SummaryFollowsHistory
  <2> SUFFICES ASSUME UpgradeInv PROVE SummaryFollowsHistory OBVIOUS
  <2>0. UpgradeTypes /\ HistoryInv /\ ShortLengths /\ ShortSpansHistory BY DEF UpgradeInv
  <2>1. UpgradeTypeOK
    <3>1. \A u \in Upgrades : \A r \in voteHistory[u] : r.height \in 1 .. tip BY <2>0 DEF HistoryInv, RowSet
    <3>2. \A u \in Upgrades : Len(short[u]) \in {0, ShortHistoryItems} BY <2>0 DEF ShortLengths
    <3>3. \A u \in Upgrades : shortInfo[u].lastHeight \in 0 .. MaxTip BY <2>0 DEF UpgradeTypes
    <3>4. refresher.pc \in {"take", "info", "history", "write"} BY <2>0 DEF UpgradeTypes, RefresherState
    <3>5. /\ tip \in 0 .. MaxTip /\ resets \in 0 .. MaxUpgradeResets
          /\ heldVotes \in [Upgrades -> 0 .. Cardinality(VotersOfUpgrades)]
          /\ Len(refreshes) <= UpgradeQueueSize
      BY <2>0 DEF UpgradeTypes
    <3> QED BY <3>1, <3>2, <3>3, <3>4, <3>5 DEF UpgradeTypeOK
  <2>2. ItemsMatchHistory BY <2>0 DEF HistoryInv, ItemsMatchHistory
  <2> QED BY <2>0, <2>1, <2>2 DEF SummaryFollowsHistory
<1> QED BY <1>1, InitUpgradeInv, NextUpgradeInv, PTL

\* A summary of a removed block is made anew by the first refresh below it: the
\* difference of the heights wraps to a number greater than any step.
THEOREM StaleSummaryIsRefreshedAlways == UpgradeInit /\ [][UpgradeNext]_upgradeVars => StaleSummaryIsRefreshed
<1> DEFINE A == \A u \in Upgrades :
                  (/\ refresher.todo # << >> /\ Head(refresher.todo) = u
                   /\ shortInfo[u].lastHeight > refresher.height
                   /\ voteItems[u] > ShortHistoryItems
                   /\ ReadInfo(FALSE))
                  => refresher'.pc = "history"
<1>1. UpgradeInv => A
  <2> SUFFICES ASSUME UpgradeInv, NEW u \in Upgrades, Head(refresher.todo) = u,
                      shortInfo[u].lastHeight > refresher.height, voteItems[u] > ShortHistoryItems, ReadInfo(FALSE)
               PROVE  refresher'.pc = "history"
    OBVIOUS
  <2> USE UpgradeBounds
  <2>0. UpgradeTypes BY DEF UpgradeInv
  <2> DEFINE l == shortInfo[u].lastHeight
             h == refresher.height
             z == shortInfo[u].lastStep
  <2>1. refresher \in RefresherState /\ shortInfo[u] \in [lastHeight : 0 .. MaxTip, lastStep : 0 .. MaxTip]
        /\ voteItems[u] \in Nat
    BY <2>0 DEF UpgradeTypes
  <2>2. l \in Nat /\ l <= MaxTip /\ z \in Nat /\ z <= MaxTip /\ h \in Nat /\ h < l BY <2>1 DEF RefresherState
  <2>3. Shift(u) = (h + Word - l) % Word BY DEF Shift
  <2> HIDE DEF l, h, z
  <2>4. h + Word - l \in Nat /\ h + Word - l < Word /\ h + Word - l > MaxTip + ShortHistoryMinShift BY <2>2
  <2>5. Shift(u) = h + Word - l BY <2>3, <2>4
  <2>6. Shift(u) \in Nat /\ ~(Shift(u) < ShortHistoryMinShift) /\ ~(Shift(u) < z) BY <2>2, <2>4, <2>5
  <2>7. ~TooSoon(u) BY <2>6 DEF TooSoon, z
  <2>8. ~(ShortHistoryItems >= voteItems[u]) BY <2>1
  <2>9. refresher' = [refresher EXCEPT !.pc = "history"] BY <2>7, <2>8 DEF ReadInfo
  <2> QED BY <2>1, <2>9 DEF RefresherState
<1>2. UpgradeInv /\ [UpgradeNext]_upgradeVars => [A]_upgradeVars BY <1>1
<1>3. UpgradeInit /\ [][UpgradeNext]_upgradeVars => []UpgradeInv BY InitUpgradeInv, NextUpgradeInv, PTL
<1>4. UpgradeInit /\ [][UpgradeNext]_upgradeVars => [][A]_upgradeVars
  <2> HIDE DEF A
  <2> QED BY <1>2, <1>3, PTL
<1> QED BY <1>4 DEF StaleSummaryIsRefreshed

-----------------------------------------------------------------------------
(* OnlineIdentities: sums and pages. *)

\* g is the recursion of the sum of f over the subsets of T.
Taken(s) == CHOOSE x \in s : TRUE
IsIter(g, f, T) ==
    g = [s \in SUBSET T |-> IF s = {} THEN 0 ELSE f[Taken(s)] + g[s \ {Taken(s)}]]
Iter(f, T) == CHOOSE g : IsIter(g, f, T)

\* The sum of the community modules is that recursion.
LEMMA SumIs == ASSUME NEW f, NEW S PROVE SumFunctionOnSet(f, S) = Iter(f, S)[S]
BY DEF SumFunctionOnSet, FoldFunctionOnSet, MapThenFoldSet, Iter, IsIter, Taken

\* What is taken is of the set.
LEMMA AnyIn == ASSUME NEW s, s # {} PROVE Taken(s) \in s
BY DEF Taken

\* The sets that are smaller.
LEMMA Smaller ==
    ASSUME NEW s, IsFiniteSet(s), NEW x \in s
    PROVE  IsFiniteSet(s \ {x}) /\ Cardinality(s) \in Nat /\ Cardinality(s \ {x}) \in Nat
           /\ Cardinality(s) = Cardinality(s \ {x}) + 1
<1>1. IsFiniteSet(s \ {x}) /\ Cardinality(s \ {x}) = Cardinality(s) - 1 BY FS_RemoveElement
<1>2. Cardinality(s) \in Nat /\ Cardinality(s \ {x}) \in Nat BY <1>1, FS_CardinalityType
<1> QED BY <1>1, <1>2

\* Two recursions agree on the sets they share.
LEMMA IterUnique ==
    ASSUME NEW f, NEW S, NEW T, NEW g, NEW h, IsIter(g, f, S), IsIter(h, f, T),
           NEW s, IsFiniteSet(s), s \subseteq S, s \subseteq T
    PROVE  g[s] = h[s]
<1> DEFINE P == {n \in Nat : \A r \in SUBSET s : Cardinality(r) = n => g[r] = h[r]}
<1>0. \A r \in SUBSET s : IsFiniteSet(r) BY FS_Subset
<1>00. \A r \in SUBSET s : /\ g[r] = IF r = {} THEN 0 ELSE f[Taken(r)] + g[r \ {Taken(r)}]
                           /\ h[r] = IF r = {} THEN 0 ELSE f[Taken(r)] + h[r \ {Taken(r)}]
  <2> SUFFICES ASSUME NEW r \in SUBSET s PROVE 
          /\ g[r] = IF r = {} THEN 0 ELSE f[Taken(r)] + g[r \ {Taken(r)}]
          /\ h[r] = IF r = {} THEN 0 ELSE f[Taken(r)] + h[r \ {Taken(r)}] OBVIOUS
  <2>1. r \in SUBSET S /\ r \in SUBSET T OBVIOUS
  <2> QED BY <2>1 DEF IsIter
<1>1. 0 \in P
  <2>1. \A r \in SUBSET s : Cardinality(r) = 0 => r = {} BY <1>0, FS_EmptySet
  <2> QED BY <2>1, <1>00
<1>2. ASSUME NEW n \in Nat, n \in P PROVE n + 1 \in P
  <2>1. ASSUME NEW r \in SUBSET s, Cardinality(r) = n + 1 PROVE g[r] = h[r]
    <3>1. r # {} BY <2>1, FS_EmptySet
    <3>2. PICK x : x = Taken(r) /\ x \in r BY <3>1, AnyIn
    <3>3. Cardinality(r \ {x}) = n BY <3>2, <2>1, <1>0, Smaller
    <3>4. g[r \ {x}] = h[r \ {x}] BY <3>3, <1>2
    <3> QED BY <1>00, <3>1, <3>2, <3>4
  <2> QED BY <2>1
<1> HIDE DEF P
<1>3. Nat \subseteq P BY <1>1, <1>2, NatInd
<1>4. Cardinality(s) \in Nat BY FS_CardinalityType
<1>5. Cardinality(s) \in P BY <1>3, <1>4
<1> QED BY <1>5 DEF P

\* There is a recursion for every finite set.
LEMMA IterExists ==
    ASSUME NEW f, NEW S, IsFiniteSet(S)
    PROVE  IsIter(Iter(f, S), f, S)
<1> DEFINE P == {n \in Nat : \A r \in SUBSET S : Cardinality(r) = n => \E g : IsIter(g, f, r)}
<1>0. \A r \in SUBSET S : IsFiniteSet(r) BY FS_Subset
<1>1. 0 \in P
  <2>1. \A r \in SUBSET S : Cardinality(r) = 0 => r = {} BY <1>0, FS_EmptySet
  <2>2. IsIter([s \in SUBSET {} |-> 0], f, {})
    <3>1. \A s \in SUBSET {} : s = {} OBVIOUS
    <3> DEFINE g == [s \in SUBSET {} |-> 0]
    <3>2. g = [s \in SUBSET {} |-> IF s = {} THEN 0 ELSE f[Taken(s)] + g[s \ {Taken(s)}]] BY <3>1
    <3> QED BY <3>2 DEF IsIter
  <2> QED BY <2>1, <2>2
<1>2. ASSUME NEW n \in Nat, n \in P PROVE n + 1 \in P
  <2> SUFFICES ASSUME NEW r \in SUBSET S, Cardinality(r) = n + 1 PROVE \E g : IsIter(g, f, r) OBVIOUS
  <2>1. r # {} BY FS_EmptySet
  <2>2. ASSUME NEW x \in r PROVE IsIter(Iter(f, r \ {x}), f, r \ {x})
    <3>1. Cardinality(r \ {x}) = n BY <1>0, Smaller
    <3>2. r \ {x} \in SUBSET S OBVIOUS
    <3>3. \E g : IsIter(g, f, r \ {x}) BY <3>1, <3>2, <1>2
    <3> QED BY <3>3 DEF Iter
  <2>a. ASSUME NEW s \in SUBSET r, s # r PROVE \E x \in r : x \notin s
    <3>1. s \subseteq r /\ ~(r \subseteq s) BY <2>a
    <3> QED BY <3>1
  <2> DEFINE Out(s) == CHOOSE x \in r : x \notin s
  <2>3. ASSUME NEW s \in SUBSET r, s # r PROVE Out(s) \in r /\ s \subseteq r \ {Out(s)}
    <3>1. \E x \in r : x \notin s BY <2>3, <2>a
    <3>2. Out(s) \in r /\ Out(s) \notin s BY <3>1
    <3> QED BY <3>2
  <2> HIDE DEF Out
  <2> DEFINE V == [s \in (SUBSET r) \ {r} |-> Iter(f, r \ {Out(s)})[s]]
             g == [s \in SUBSET r |-> IF s = r THEN f[Taken(r)] + V[r \ {Taken(r)}] ELSE V[s]]
  <2>4. ASSUME NEW s \in SUBSET r, s # r
        PROVE  V[s] = IF s = {} THEN 0 ELSE f[Taken(s)] + V[s \ {Taken(s)}]
    <3> HIDE DEF g
    <3>1. PICK o : o = Out(s) /\ o \in r /\ s \subseteq r \ {o} BY <2>3, <2>4
    <3>2. PICK i : i = Iter(f, r \ {o}) /\ IsIter(i, f, r \ {o}) BY <2>2, <3>1
    <3>3. V[s] = i[s] BY <2>4, <3>1, <3>2
    <3>4. s \in SUBSET (r \ {o}) BY <3>1
    <3>5. i[s] = IF s = {} THEN 0 ELSE f[Taken(s)] + i[s \ {Taken(s)}] BY <3>2, <3>4 DEF IsIter
    <3>6. CASE s = {} BY <3>3, <3>5, <3>6
    <3>7. CASE s # {}
      <4>1. PICK x : x = Taken(s) /\ x \in s BY <3>7, AnyIn
      <4>2. PICK q : q = s \ {x} OBVIOUS
      <4>3. q \in SUBSET r /\ q # r /\ q \subseteq r \ {o} BY <3>1, <4>1, <4>2
      <4>4. PICK u : u = Out(q) /\ u \in r /\ q \subseteq r \ {u} BY <2>3, <4>3
      <4>5. PICK k : k = Iter(f, r \ {u}) /\ IsIter(k, f, r \ {u}) BY <2>2, <4>4
      <4>6. V[q] = k[q]
        <5>1. q \in (SUBSET r) \ {r} BY <4>3
        <5> QED BY <5>1, <4>4, <4>5
      <4>7. IsFiniteSet(q) BY <4>3, <1>0
      <4>8. k[q] = i[q] BY <4>3, <4>4, <4>5, <3>2, <4>7, IterUnique
      <4> QED BY <3>3, <3>5, <3>7, <4>1, <4>2, <4>6, <4>8
    <3> QED BY <3>6, <3>7
  <2>5. ASSUME NEW s \in SUBSET r PROVE g[s] = IF s = {} THEN 0 ELSE f[Taken(s)] + g[s \ {Taken(s)}]
    <3> HIDE DEF V
    <3>1. CASE s = r
      <4>1. PICK x : x = Taken(r) /\ x \in r BY <2>1, AnyIn
      <4>2. r \ {x} \in SUBSET r /\ r \ {x} # r BY <4>1
      <4>3. g[r \ {x}] = V[r \ {x}] BY <4>2
      <4> QED BY <3>1, <2>1, <4>1, <4>3
    <3>2. CASE s # r
      <4>1. g[s] = V[s] BY <3>2
      <4>2. CASE s = {} BY <4>1, <4>2, <2>4, <3>2
      <4>3. CASE s # {}
        <5>1. PICK x : x = Taken(s) /\ x \in s BY <4>3, AnyIn
        <5>2. s \ {x} \in SUBSET r /\ s \ {x} # r BY <5>1
        <5>3. g[s \ {x}] = V[s \ {x}] BY <5>2
        <5>4. V[s] = f[x] + V[s \ {x}] BY <2>4, <3>2, <4>3, <5>1
        <5> QED BY <4>1, <4>3, <5>1, <5>3, <5>4
      <4> QED BY <4>2, <4>3
    <3> QED BY <3>1, <3>2
  <2> HIDE DEF V
  <2>6. PICK d : d = g OBVIOUS
  <2>7. d = [s \in SUBSET r |-> d[s]] BY <2>6
  <2>8. \A s \in SUBSET r : d[s] = IF s = {} THEN 0 ELSE f[Taken(s)] + d[s \ {Taken(s)}] BY <2>5, <2>6
  <2>9. IsIter(d, f, r)
    <3> HIDE DEF g
    <3> QED BY <2>7, <2>8 DEF IsIter
  <2> QED BY <2>9
<1> HIDE DEF P
<1>3. Nat \subseteq P BY <1>1, <1>2, NatInd
<1>4. Cardinality(S) \in Nat BY FS_CardinalityType
<1>5. Cardinality(S) \in P BY <1>3, <1>4
<1>6. \E g : IsIter(g, f, S) BY <1>5 DEF P
<1> QED BY <1>6 DEF Iter

\* The sum of nothing, and how the recursion takes one number after the other.
LEMMA SumUnfold ==
    ASSUME NEW f, NEW S, IsFiniteSet(S)
    PROVE  /\ S = {} => SumFunctionOnSet(f, S) = 0
           /\ S # {} => SumFunctionOnSet(f, S) = f[Taken(S)] + SumFunctionOnSet(f, S \ {Taken(S)})
<1>1. PICK g : g = Iter(f, S) /\ IsIter(g, f, S) BY IterExists
<1>2. SumFunctionOnSet(f, S) = g[S] BY <1>1, SumIs
<1>3. g[S] = IF S = {} THEN 0 ELSE f[Taken(S)] + g[S \ {Taken(S)}] BY <1>1 DEF IsIter
<1>4. CASE S # {}
  <2>1. PICK x : x = Taken(S) /\ x \in S BY <1>4, AnyIn
  <2>2. IsFiniteSet(S \ {x}) BY <2>1, FS_RemoveElement
  <2>3. PICK h : h = Iter(f, S \ {x}) /\ IsIter(h, f, S \ {x}) BY <2>2, IterExists
  <2>4. SumFunctionOnSet(f, S \ {x}) = h[S \ {x}] BY <2>3, SumIs
  <2>5. h[S \ {x}] = g[S \ {x}] BY <1>1, <2>2, <2>3, IterUnique
  <2> QED BY <1>2, <1>3, <1>4, <2>1, <2>4, <2>5
<1> QED BY <1>2, <1>3, <1>4

\* The sum of numbers is a number.
LEMMA SumInt ==
    ASSUME NEW f, NEW S, IsFiniteSet(S), \A x \in S : f[x] \in Int
    PROVE  SumFunctionOnSet(f, S) \in Int
<1> DEFINE P == {n \in Nat : \A r \in SUBSET S : Cardinality(r) = n => SumFunctionOnSet(f, r) \in Int}
<1>0. \A r \in SUBSET S : IsFiniteSet(r) BY FS_Subset
<1>1. 0 \in P
  <2>1. \A r \in SUBSET S : Cardinality(r) = 0 => r = {} BY <1>0, FS_EmptySet
  <2>2. IsFiniteSet({}) BY FS_EmptySet
  <2>3. SumFunctionOnSet(f, {}) = 0 BY <2>2, SumUnfold
  <2> QED BY <2>1, <2>3
<1>2. ASSUME NEW n \in Nat, n \in P PROVE n + 1 \in P
  <2> SUFFICES ASSUME NEW r \in SUBSET S, Cardinality(r) = n + 1 PROVE SumFunctionOnSet(f, r) \in Int OBVIOUS
  <2>1. r # {} BY FS_EmptySet
  <2>2. PICK x : x = Taken(r) /\ x \in r BY <2>1, AnyIn
  <2>3. Cardinality(r \ {x}) = n BY <1>0, <2>2, Smaller
  <2>4. SumFunctionOnSet(f, r \ {x}) \in Int BY <2>3, <1>2
  <2>5. SumFunctionOnSet(f, r) = f[x] + SumFunctionOnSet(f, r \ {x}) BY <1>0, <2>1, <2>2, SumUnfold
  <2> QED BY <2>2, <2>4, <2>5
<1> HIDE DEF P
<1>3. Nat \subseteq P BY <1>1, <1>2, NatInd
<1>4. Cardinality(S) \in Nat BY FS_CardinalityType
<1>5. Cardinality(S) \in P BY <1>3, <1>4
<1> QED BY <1>5 DEF P

\* It does not matter which number is taken first.
LEMMA SumTake ==
    ASSUME NEW f, NEW S, IsFiniteSet(S), \A x \in S : f[x] \in Int, NEW y \in S
    PROVE  SumFunctionOnSet(f, S) = f[y] + SumFunctionOnSet(f, S \ {y})
<1> DEFINE Sm(r) == SumFunctionOnSet(f, r)
           P == {n \in Nat : \A r \in SUBSET S : Cardinality(r) = n => \A z \in r : Sm(r) = f[z] + Sm(r \ {z})}
<1>0. \A r \in SUBSET S : IsFiniteSet(r) BY FS_Subset
<1>00. \A r \in SUBSET S : Sm(r) \in Int BY <1>0, SumInt
<1>000. ASSUME NEW r \in SUBSET S, r # {} PROVE Sm(r) = f[Taken(r)] + Sm(r \ {Taken(r)})
  BY <1>0, <1>000, SumUnfold
<1> HIDE DEF Sm
<1>1. 0 \in P
  <2>1. \A r \in SUBSET S : Cardinality(r) = 0 => r = {} BY <1>0, FS_EmptySet
  <2> QED BY <2>1
<1>2. ASSUME NEW n \in Nat, n \in P PROVE n + 1 \in P
  <2> SUFFICES ASSUME NEW r \in SUBSET S, Cardinality(r) = n + 1, NEW z \in r PROVE Sm(r) = f[z] + Sm(r \ {z})
    OBVIOUS
  <2>1. r # {} OBVIOUS
  <2>2. PICK x : x = Taken(r) /\ x \in r BY <2>1, AnyIn
  <2>3. Sm(r) = f[x] + Sm(r \ {x}) BY <1>000, <2>1, <2>2
  <2>4. CASE x = z BY <2>3, <2>4
  <2>5. CASE x # z
    <3>0. IsFiniteSet(r) BY <1>0
    <3>1. ASSUME NEW e \in r PROVE Cardinality(r \ {e}) = n
      <4>1. Cardinality(r \ {e}) \in Nat /\ Cardinality(r) = Cardinality(r \ {e}) + 1 BY <3>0, Smaller
      <4>2. Cardinality(r) = n + 1 OBVIOUS
      <4> HIDE DEF P
      <4> QED BY <4>1, <4>2
    <3>2. PICK a : a = r \ {x} /\ a \in SUBSET S /\ z \in a BY <2>2, <2>5
    <3>3. PICK b : b = r \ {z} /\ b \in SUBSET S /\ x \in b BY <2>2, <2>5
    <3>4. Sm(a) = f[z] + Sm(a \ {z}) BY <1>2, <2>2, <3>1, <3>2
    <3>5. Sm(b) = f[x] + Sm(b \ {x}) BY <1>2, <3>1, <3>3
    <3>6. PICK c : c = a \ {z} /\ c = b \ {x} /\ c \in SUBSET S
      <4>1. a \ {z} = b \ {x} BY <3>2, <3>3
      <4>2. a \ {z} \in SUBSET S BY <3>2
      <4> QED BY <4>1, <4>2
    <3>7. Sm(c) \in Int /\ f[x] \in Int /\ f[z] \in Int BY <1>00, <3>6, <2>2
    <3>8. Sm(r) = f[x] + (f[z] + Sm(c)) BY <2>3, <3>2, <3>4, <3>6
    <3>9. Sm(b) = f[x] + Sm(c) BY <3>5, <3>6
    <3> QED BY <3>3, <3>7, <3>8, <3>9
  <2> QED BY <2>4, <2>5
<1> HIDE DEF P
<1>3. Nat \subseteq P BY <1>1, <1>2, NatInd
<1>4. Cardinality(S) \in Nat BY FS_CardinalityType
<1>5. Cardinality(S) \in P BY <1>3, <1>4
<1> QED BY <1>5 DEF P, Sm

\* One more number.
LEMMA SumAdd ==
    ASSUME NEW f, NEW S, IsFiniteSet(S), NEW y, y \notin S, \A x \in S \cup {y} : f[x] \in Int
    PROVE  SumFunctionOnSet(f, S \cup {y}) = SumFunctionOnSet(f, S) + f[y]
<1>1. PICK T : T = S \cup {y} OBVIOUS
<1>2. IsFiniteSet(T) /\ y \in T /\ T \ {y} = S BY <1>1, FS_AddElement
<1>3. \A x \in T : f[x] \in Int BY <1>1
<1>4. SumFunctionOnSet(f, T) = f[y] + SumFunctionOnSet(f, T \ {y}) BY <1>2, <1>3, SumTake
<1>5. SumFunctionOnSet(f, S) \in Int /\ f[y] \in Int BY <1>1, <1>3, SumInt
<1>6. SumFunctionOnSet(f, T) = f[y] + SumFunctionOnSet(f, S) BY <1>2, <1>4
<1>7. SumFunctionOnSet(f, T) = SumFunctionOnSet(f, S) + f[y] BY <1>5, <1>6
<1> QED BY <1>1, <1>7

\* Functions that agree have the same sum.
LEMMA SumSame ==
    ASSUME NEW f, NEW g, NEW S, IsFiniteSet(S), \A x \in S : f[x] = g[x]
    PROVE  SumFunctionOnSet(f, S) = SumFunctionOnSet(g, S)
<1> DEFINE P == {n \in Nat : \A r \in SUBSET S : Cardinality(r) = n => SumFunctionOnSet(f, r) = SumFunctionOnSet(g, r)}
<1>0. \A r \in SUBSET S : IsFiniteSet(r) BY FS_Subset
<1>1. 0 \in P
  <2>1. \A r \in SUBSET S : Cardinality(r) = 0 => r = {} BY <1>0, FS_EmptySet
  <2>2. IsFiniteSet({}) BY FS_EmptySet
  <2>3. SumFunctionOnSet(f, {}) = 0 /\ SumFunctionOnSet(g, {}) = 0 BY <2>2, SumUnfold
  <2> QED BY <2>1, <2>3
<1>2. ASSUME NEW n \in Nat, n \in P PROVE n + 1 \in P
  <2> SUFFICES ASSUME NEW r \in SUBSET S, Cardinality(r) = n + 1
               PROVE  SumFunctionOnSet(f, r) = SumFunctionOnSet(g, r)
    OBVIOUS
  <2>1. r # {} BY FS_EmptySet
  <2>2. PICK x : x = Taken(r) /\ x \in r BY <2>1, AnyIn
  <2>3. Cardinality(r \ {x}) = n BY <1>0, <2>2, Smaller
  <2>4. SumFunctionOnSet(f, r \ {x}) = SumFunctionOnSet(g, r \ {x}) BY <2>3, <1>2
  <2>5. SumFunctionOnSet(f, r) = f[x] + SumFunctionOnSet(f, r \ {x}) BY <1>0, <2>1, <2>2, SumUnfold
  <2>6. SumFunctionOnSet(g, r) = g[x] + SumFunctionOnSet(g, r \ {x}) BY <1>0, <2>1, <2>2, SumUnfold
  <2>7. f[x] = g[x] BY <2>2
  <2> QED BY <2>4, <2>5, <2>6, <2>7
<1> HIDE DEF P
<1>3. Nat \subseteq P BY <1>1, <1>2, NatInd
<1>4. Cardinality(S) \in Nat BY FS_CardinalityType
<1>5. Cardinality(S) \in P BY <1>3, <1>4
<1> QED BY <1>5 DEF P

-----------------------------------------------------------------------------
(* Pages. *)

\* g flattens the first n of the pages step by step, as FlattenSeq does.
FlatTo(g, pages, n) == g = [i \in 1 .. n |-> IF i = 1 THEN pages[i] ELSE g[i - 1] \o pages[i]]

\* Two such recursions agree where their pages do.
LEMMA FlatUnique ==
    ASSUME NEW m \in Nat, NEW n \in Nat, NEW k \in Nat, NEW p, NEW q, NEW g, NEW h,
           FlatTo(g, p, n), FlatTo(h, q, k), m <= n, m <= k, m > 0,
           \A i \in 1 .. m : p[i] = q[i]
    PROVE  g[m] = h[m]
<1> DEFINE P == {j \in Nat : j + 1 <= m => g[j + 1] = h[j + 1]}
<1>1. ASSUME NEW i \in 1 .. m
      PROVE  /\ g[i] = IF i = 1 THEN p[i] ELSE g[i - 1] \o p[i]
             /\ h[i] = IF i = 1 THEN q[i] ELSE h[i - 1] \o q[i]
  <2>1. i \in 1 .. n /\ i \in 1 .. k OBVIOUS
  <2> QED BY <2>1 DEF FlatTo
<1>2. 0 \in P
  <2>1. 1 \in 1 .. m OBVIOUS
  <2>2. g[1] = p[1] /\ h[1] = q[1] BY <1>1, <2>1
  <2> QED BY <2>1, <2>2
<1>3. ASSUME NEW j \in Nat, j \in P PROVE j + 1 \in P
  <2> SUFFICES ASSUME (j + 1) + 1 <= m PROVE g[(j + 1) + 1] = h[(j + 1) + 1] BY <1>3
  <2>1. g[j + 1] = h[j + 1] BY <1>3
  <2>2. PICK i \in 1 .. m : i = (j + 1) + 1 /\ i # 1 /\ i - 1 = j + 1 OBVIOUS
  <2>3. g[i] = g[j + 1] \o p[i] /\ h[i] = h[j + 1] \o q[i] BY <1>1, <2>2
  <2> QED BY <2>1, <2>2, <2>3
<1> HIDE DEF P
<1>4. Nat \subseteq P BY <1>2, <1>3, NatInd
<1>5. m - 1 \in P /\ (m - 1) + 1 = m BY <1>4
<1> QED BY <1>5 DEF P

\* There is one for any pages.
LEMMA FlatExists == ASSUME NEW p, NEW m \in Nat PROVE \E g : FlatTo(g, p, m)
<1> DEFINE P == {n \in Nat : \E g : FlatTo(g, p, n)}
<1>1. 0 \in P
  <2>1. FlatTo([i \in 1 .. 0 |-> << >>], p, 0)
    <3>1. \A i \in 1 .. 0 : FALSE OBVIOUS
    <3> QED BY <3>1 DEF FlatTo
  <2> QED BY <2>1
<1>2. ASSUME NEW n \in Nat, n \in P PROVE n + 1 \in P
  <2>1. PICK g : FlatTo(g, p, n) BY <1>2
  <2>2. \A i \in 1 .. n : g[i] = IF i = 1 THEN p[i] ELSE g[i - 1] \o p[i] BY <2>1 DEF FlatTo
  <2>8. ASSUME NEW i \in 1 .. n PROVE (i = 1 => g[i] = p[i]) /\ (i # 1 => g[i] = g[i - 1] \o p[i]) BY <2>2
  <2> DEFINE k == [i \in 1 .. n + 1 |-> IF i <= n THEN g[i] ELSE IF i = 1 THEN p[i] ELSE g[i - 1] \o p[i]]
  <2>9. ASSUME NEW i \in 1 .. n PROVE k[i] = g[i] OBVIOUS
  <2>3. ASSUME NEW i \in 1 .. n + 1 PROVE k[i] = IF i = 1 THEN p[i] ELSE k[i - 1] \o p[i]
    <3>1. CASE i = 1
      <4>1. CASE i <= n
        <5>1. i \in 1 .. n BY <4>1
        <5> QED BY <2>8, <2>9, <3>1, <5>1
      <4>2. CASE ~(i <= n) BY <3>1, <4>2
      <4> QED BY <4>1, <4>2
    <3>2. CASE i # 1 /\ i <= n
      <4>0. i \in 1 .. n /\ i - 1 \in 1 .. n BY <3>2
      <4>1. k[i] = g[i] /\ k[i - 1] = g[i - 1] BY <2>9, <4>0
      <4> HIDE DEF k
      <4>2. g[i] = g[i - 1] \o p[i] BY <2>8, <3>2, <4>0
      <4> QED BY <3>2, <4>1, <4>2
    <3>3. CASE i # 1 /\ i = n + 1
      <4>1. i - 1 \in 1 .. n /\ ~(i <= n) BY <3>3
      <4>2. k[i] = g[i - 1] \o p[i] BY <3>3, <4>1
      <4>3. k[i - 1] = g[i - 1] BY <2>9, <4>1
      <4> HIDE DEF k
      <4> QED BY <3>3, <4>2, <4>3
    <3> QED BY <3>1, <3>2, <3>3
  <2>4. PICK d : d = k OBVIOUS
  <2>5. d = [i \in 1 .. n + 1 |-> d[i]] BY <2>4
  <2>6. \A i \in 1 .. n + 1 : d[i] = IF i = 1 THEN p[i] ELSE d[i - 1] \o p[i] BY <2>3, <2>4
  <2> HIDE DEF k
  <2>7. FlatTo(d, p, n + 1) BY <2>5, <2>6 DEF FlatTo
  <2> QED BY <2>7
<1> HIDE DEF P
<1>3. Nat \subseteq P BY <1>1, <1>2, NatInd
<1>4. m \in P BY <1>3
<1> QED BY <1>4 DEF P

\* FlattenSeq is its last value.
LEMMA FlattenIs ==
    ASSUME NEW p, Len(p) \in Nat, Len(p) # 0, NEW g, FlatTo(g, p, Len(p))
    PROVE  FlattenSeq(p) = g[Len(p)]
<1> DEFINE f == CHOOSE f : FlatTo(f, p, Len(p))
<1>1. FlatTo(f, p, Len(p)) BY FlatExists
<1>2. FlattenSeq(p) = f[Len(p)] BY DEF FlattenSeq, FlatTo
<1>3. PICK e : e = f /\ FlatTo(e, p, Len(p)) BY <1>1
<1> HIDE DEF f
<1>4. e[Len(p)] = g[Len(p)] BY <1>3, FlatUnique
<1> QED BY <1>2, <1>3, <1>4

\* One more page.
LEMMA FlattenAppend ==
    ASSUME NEW S, NEW p \in Seq(S), NEW e \in S
    PROVE  FlattenSeq(p \o <<e>>) = IF p = << >> THEN e ELSE FlattenSeq(p) \o e
<1>1. PICK q : q = p \o <<e>> OBVIOUS
<1>2. Len(q) = Len(p) + 1 /\ q[Len(p) + 1] = e BY <1>1
<1>3. \A i \in 1 .. Len(p) : q[i] = p[i] BY <1>1
<1>4. Len(p) \in Nat OBVIOUS
<1>5. Len(q) \in Nat /\ Len(q) # 0 BY <1>2, <1>4
<1>6. PICK g : FlatTo(g, q, Len(q)) BY <1>5, FlatExists
<1>7. FlattenSeq(q) = g[Len(q)] BY <1>5, <1>6, FlattenIs
<1>8. g[Len(q)] = IF Len(q) = 1 THEN q[Len(q)] ELSE g[Len(q) - 1] \o q[Len(q)]
  <2>1. Len(q) \in 1 .. Len(q) BY <1>5
  <2> QED BY <1>6, <2>1 DEF FlatTo
<1>9. g[Len(q)] = IF Len(p) = 0 THEN e ELSE g[Len(p)] \o e
  <2>1. Len(q) - 1 = Len(p) /\ (Len(q) = 1 <=> Len(p) = 0) /\ q[Len(q)] = e BY <1>2, <1>4
  <2> QED BY <1>8, <2>1
<1>10. CASE p = << >>
  <2>1. Len(p) = 0 BY <1>10
  <2> QED BY <1>1, <1>7, <1>9, <1>10, <2>1
<1>11. CASE p # << >>
  <2>1. Len(p) # 0 /\ Len(p) > 0 BY <1>11
  <2>2. PICK h : FlatTo(h, p, Len(p)) BY <1>4, FlatExists
  <2>3. FlattenSeq(p) = h[Len(p)] BY <1>4, <2>1, <2>2, FlattenIs
  <2>4. Len(p) <= Len(q) /\ Len(p) <= Len(p) BY <1>2, <1>4
  <2>5. g[Len(p)] = h[Len(p)] BY <1>3, <1>4, <1>5, <1>6, <2>1, <2>2, <2>4, FlatUnique
  <2> QED BY <1>1, <1>7, <1>9, <1>11, <2>1, <2>3, <2>5
<1> QED BY <1>10, <1>11

-----------------------------------------------------------------------------
(* What update builds: the order of the lists. *)

\* p is an order of the keys of S, the greater ones first.
Down(p, key) == \A i, j \in DOMAIN p : i < j => key[p[i]] >= key[p[j]]

\* The orders of a finite set have each of its elements.
LEMMA OrderOfKeys ==
    ASSUME NEW S, IsFiniteSet(S), NEW f \in SetToSeqs(S)
    PROVE  /\ f \in Seq(S) /\ Len(f) = Cardinality(S)
           /\ \A x \in S : \E i \in 1 .. Len(f) : f[i] = x
           /\ \A i, j \in 1 .. Len(f) : i # j => f[i] # f[j]
<1> DEFINE D == 1 .. Cardinality(S)
<1>1. Cardinality(S) \in Nat BY FS_CardinalityType
<1>2. f \in [D -> S] /\ \A i, j \in D : i # j => f[i] # f[j] BY DEF SetToSeqs
<1>3. f \in Seq(S) /\ Len(f) = Cardinality(S) BY <1>1, <1>2
<1>4. f \in Injection(D, S) BY <1>2 DEF Injection, IsInjective
<1>5. IsFiniteSet(D) /\ Cardinality(D) = Cardinality(S)
  <2>1. IsFiniteSet(D) /\ Cardinality(D) = IF 1 > Cardinality(S) THEN 0 ELSE Cardinality(S) - 1 + 1
    BY <1>1, FS_Interval
  <2> QED BY <1>1, <2>1
<1> HIDE DEF D
<1>6. f \in Surjection(D, S) BY <1>4, <1>5, FS_Injection
<1>7. D = 1 .. Len(f) BY <1>3 DEF D
<1> QED BY <1>2, <1>3, <1>6, <1>7 DEF Surjection

\* Keys that are numbers can be put in descending order.
LEMMA DescendingExists ==
    ASSUME NEW S, IsFiniteSet(S), NEW key, \A x \in S : key[x] \in Nat
    PROVE  \E p \in SetToSeqs(S) : Down(p, key)
<1> DEFINE P == {n \in Nat : \A r \in SUBSET S : Cardinality(r) = n => \E p \in SetToSeqs(r) : Down(p, key)}
<1>0. \A r \in SUBSET S : IsFiniteSet(r) BY FS_Subset
<1>1. 0 \in P
  <2>1. SUFFICES ASSUME NEW r \in SUBSET S, Cardinality(r) = 0 PROVE \E p \in SetToSeqs(r) : Down(p, key)
    OBVIOUS
  <2>2. << >> \in SetToSeqs(r) BY <2>1 DEF SetToSeqs
  <2>3. Down(<< >>, key) BY DEF Down
  <2> QED BY <2>2, <2>3
<1>2. ASSUME NEW n \in Nat, n \in P PROVE n + 1 \in P
  <2>1. SUFFICES ASSUME NEW r \in SUBSET S, Cardinality(r) = n + 1
                 PROVE  \E p \in SetToSeqs(r) : Down(p, key)
    OBVIOUS
  <2>2. r # {} BY <1>0, <2>1, FS_EmptySet
  <2>3. PICK m \in r : \A x \in r : key[m] <= key[x]
    <3> DEFINE T == {key[x] : x \in r}
    <3>1. T \subseteq Nat /\ T # {} BY <2>2
    <3>2. PICK t \in T : \A y \in T : t <= y BY <3>1, LeastNat
    <3> QED BY <3>2
  <2>4. PICK q : q = r \ {m} OBVIOUS
  <2>5. IsFiniteSet(q) /\ Cardinality(q) = n /\ q \in SUBSET S
    <3>1. IsFiniteSet(r) BY <1>0
    <3>2. Cardinality(r) = Cardinality(r \ {m}) + 1 /\ Cardinality(r \ {m}) \in Nat BY <3>1, Smaller
    <3> QED BY <1>0, <2>1, <2>4, <3>2
  <2>6. PICK p \in SetToSeqs(q) : Down(p, key) BY <1>2, <2>5
  <2>7. p \in [1 .. n -> q] /\ \A i, j \in 1 .. n : i # j => p[i] # p[j] BY <2>5 DEF SetToSeqs
  <2>8. PICK s : s = [i \in 1 .. n + 1 |-> IF i = n + 1 THEN m ELSE p[i]] OBVIOUS
  <2>9. s \in [1 .. n + 1 -> r] BY <2>4, <2>7, <2>8
  <2>10. \A i, j \in 1 .. n + 1 : i # j => s[i] # s[j] BY <2>4, <2>7, <2>8
  <2>11. s \in SetToSeqs(r) BY <2>1, <2>9, <2>10 DEF SetToSeqs
  <2>12. Down(s, key)
    <3> SUFFICES ASSUME NEW i \in 1 .. n + 1, NEW j \in 1 .. n + 1, i < j PROVE key[s[i]] >= key[s[j]]
      BY <2>9 DEF Down
    <3>1. i \in 1 .. n /\ s[i] = p[i] /\ p[i] \in r BY <2>4, <2>7, <2>8
    <3>2. CASE j = n + 1
      <4>1. s[j] = m BY <2>8, <3>2
      <4>2. key[m] <= key[p[i]] /\ key[m] \in Nat /\ key[p[i]] \in Nat BY <2>3, <3>1
      <4> QED BY <3>1, <4>1, <4>2
    <3>3. CASE j # n + 1
      <4>1. j \in 1 .. n /\ s[j] = p[j] BY <2>8, <3>3
      <4>2. DOMAIN p = 1 .. n BY <2>7
      <4> QED BY <2>6, <3>1, <4>1, <4>2 DEF Down
    <3> QED BY <3>2, <3>3
  <2> QED BY <2>11, <2>12
<1>3. Nat \subseteq P
  <2> HIDE DEF P
  <2> QED BY <1>1, <1>2, NatInd
<1>4. Cardinality(S) \in P BY <1>3, FS_CardinalityType
<1> QED BY <1>4

\* A sorted list has the entries of the list it is made of, at other places.
SameEntries(d, s) ==
  /\ Len(d) = Len(s)
  /\ \E p \in [1 .. Len(s) -> 1 .. Len(s)] :
       /\ \A i \in 1 .. Len(s) : d[i] = s[p[i]]
       /\ \A i, j \in 1 .. Len(s) : i # j => p[i] # p[j]
       /\ \A k \in 1 .. Len(s) : \E i \in 1 .. Len(s) : p[i] = k

\* What sort.Slice makes of a list.
LEMMA SortedList ==
    ASSUME NEW S, NEW s \in Seq(S), NEW key, DOMAIN key = DOMAIN s, \A i \in DOMAIN s : key[i] \in Nat
    PROVE  /\ Descending(s, key) \in Seq(S) /\ SameEntries(Descending(s, key), s)
<1>1. PICK n \in Nat : n = Len(s) /\ DOMAIN s = 1 .. n OBVIOUS
<1>2. IsFiniteSet(1 .. n) /\ Cardinality(1 .. n) = n
  <2>1. IsFiniteSet(1 .. n) /\ Cardinality(1 .. n) = IF 1 > n THEN 0 ELSE n - 1 + 1 BY FS_Interval
  <2> QED BY <2>1
<1>3. PICK p : p = Order(key) OBVIOUS
<1>4. p \in SetToSeqs(1 .. n)
  <2>1. \E q \in SetToSeqs(DOMAIN key) : Down(q, key) BY <1>1, <1>2, DescendingExists
  <2>2. p = CHOOSE q \in SetToSeqs(DOMAIN key) : Down(q, key) BY <1>3 DEF Order, Down
  <2> QED BY <1>1, <2>1, <2>2
<1>5. /\ p \in Seq(1 .. n) /\ Len(p) = n /\ \A x \in 1 .. n : \E i \in 1 .. Len(p) : p[i] = x
      /\ \A i, j \in 1 .. Len(p) : i # j => p[i] # p[j]
  BY <1>2, <1>4, OrderOfKeys
<1>6. PICK d : d = Descending(s, key) OBVIOUS
<1>7. d = [i \in 1 .. n |-> s[p[i]]] BY <1>1, <1>3, <1>6 DEF Descending
<1>8. \A i \in 1 .. n : p[i] \in 1 .. n BY <1>5
<1>9. d \in Seq(S) /\ Len(d) = n BY <1>1, <1>7, <1>8
<1>10. p \in [1 .. n -> 1 .. n] BY <1>2, <1>4 DEF SetToSeqs
<1>11. SameEntries(d, s) BY <1>1, <1>5, <1>7, <1>9, <1>10 DEF SameEntries
<1> QED BY <1>6, <1>9, <1>11

-----------------------------------------------------------------------------
(* What update builds: the weights of the miners. *)

Ascending(s) == \A i, j \in 1 .. Len(s) : i < j => s[i] <= s[j]

\* sort.Search finds its place.
LEMMA FirstGreaterIs ==
    ASSUME NEW s \in Seq(Nat), NEW v \in Nat, NEW n, n = FirstGreater(s, v)
    PROVE  /\ n \in 1 .. Len(s) + 1
           /\ \A i \in 1 .. n - 1 : s[i] <= v
           /\ n <= Len(s) => s[n] > v
<1> DEFINE Is(m) == (\A i \in 1 .. m - 1 : s[i] <= v) /\ (m <= Len(s) => s[m] > v)
           G == {i \in 1 .. Len(s) : s[i] > v}
<1>0. Len(s) \in Nat /\ \A i \in 1 .. Len(s) : s[i] \in Nat OBVIOUS
<1>1. \E m \in 1 .. Len(s) + 1 : Is(m)
  <2>1. CASE G = {}
    <3>1. Is(Len(s) + 1)
      <4>1. \A i \in 1 .. Len(s) : s[i] <= v BY <1>0, <2>1
      <4>2. (Len(s) + 1) - 1 = Len(s) /\ ~(Len(s) + 1 <= Len(s)) BY <1>0
      <4> QED BY <4>1, <4>2
    <3>2. Len(s) + 1 \in 1 .. Len(s) + 1 BY <1>0
    <3> QED BY <3>1, <3>2
  <2>2. CASE G # {}
    <3>1. G \subseteq Nat OBVIOUS
    <3>2. PICK m \in G : \A y \in G : m <= y BY <2>2, <3>1, LeastNat
    <3>3. m \in 1 .. Len(s) /\ s[m] > v BY <3>2
    <3>4. ASSUME NEW i \in 1 .. m - 1 PROVE s[i] <= v
      <4>1. i \in 1 .. Len(s) /\ i < m BY <1>0, <3>3
      <4>2. i \notin G BY <3>2, <3>3, <4>1
      <4> QED BY <1>0, <4>1, <4>2
    <3>5. m \in 1 .. Len(s) + 1 BY <1>0, <3>3
    <3> QED BY <3>3, <3>4, <3>5
  <2> QED BY <2>1, <2>2
<1>2. n = CHOOSE m \in 1 .. Len(s) + 1 : Is(m) BY DEF FirstGreater
<1> HIDE DEF Is
<1>3. n \in 1 .. Len(s) + 1 /\ Is(n) BY <1>1, <1>2
<1> QED BY <1>3 DEF Is

\* What is at each place afterwards.
LEMMA AddedAt ==
    ASSUME NEW s \in Seq(Nat), NEW v \in Nat, NEW n, n = FirstGreater(s, v), NEW r, r = addToSorted(s, v)
    PROVE  /\ r \in Seq(Nat) /\ Len(r) = Len(s) + 1
           /\ n \in 1 .. Len(r)
           /\ \A i \in 1 .. Len(r) : r[i] = IF i < n THEN s[i] ELSE IF i = n THEN v ELSE s[i - 1]
<1>00. n \in 1 .. Len(s) + 1 BY FirstGreaterIs
<1>0. Len(s) \in Nat /\ n \in 1 .. Len(s) + 1 /\ n - 1 \in Nat /\ n \in Int /\ n - 1 \in Int BY <1>00
<1>1. PICK a : a = SubSeq(s, 1, n - 1) OBVIOUS
<1>2. PICK c : c = SubSeq(s, n, Len(s)) OBVIOUS
<1>3. /\ a \in Seq(Nat) /\ Len(a) = n - 1 /\ \A i \in 1 .. n - 1 : a[i] = s[i]
  <2>1. \A i \in 1 .. n - 1 : s[i] \in Nat BY <1>0
  <2>2. /\ a \in Seq(Nat) /\ Len(a) = IF 1 <= n - 1 THEN (n - 1) - 1 + 1 ELSE 0
        /\ \A i \in 1 .. (n - 1) - 1 + 1 : a[i] = s[1 + i - 1]
    BY <1>0, <1>1, <2>1, SubSeqProperties
  <2> QED BY <1>0, <2>2
<1>4. /\ c \in Seq(Nat) /\ Len(c) = Len(s) - n + 1 /\ \A i \in 1 .. Len(s) - n + 1 : c[i] = s[n + i - 1]
  <2>1. \A i \in n .. Len(s) : s[i] \in Nat BY <1>0
  <2>2. /\ c \in Seq(Nat) /\ Len(c) = IF n <= Len(s) THEN Len(s) - n + 1 ELSE 0
        /\ \A i \in 1 .. Len(s) - n + 1 : c[i] = s[n + i - 1]
    BY <1>0, <1>2, <2>1, SubSeqProperties
  <2> QED BY <1>0, <2>2
<1>5. r = (a \o <<v>>) \o c BY <1>1, <1>2 DEF addToSorted, InsertAt
<1>6. PICK b : b = a \o <<v>> OBVIOUS
<1>7. b \in Seq(Nat) /\ Len(b) = n /\ (\A i \in 1 .. n - 1 : b[i] = s[i]) /\ b[n] = v
  <2>1. <<v>> \in Seq(Nat) /\ Len(<<v>>) = 1 /\ <<v>>[1] = v OBVIOUS
  <2>2. /\ b \in Seq(Nat) /\ Len(b) = Len(a) + Len(<<v>>)
        /\ \A i \in 1 .. Len(a) + Len(<<v>>) : b[i] = IF i <= Len(a) THEN a[i] ELSE <<v>>[i - Len(a)]
    BY <1>3, <1>6, <2>1, ConcatProperties
  <2>3. \A i \in 1 .. n : b[i] = IF i <= n - 1 THEN a[i] ELSE <<v>>[i - (n - 1)]
    <3>1. Len(a) + Len(<<v>>) = n BY <1>0, <1>3, <2>1
    <3> QED BY <1>3, <2>2, <3>1
  <2>4. n \in 1 .. n /\ ~(n <= n - 1) /\ n - (n - 1) = 1 BY <1>0
  <2>5. b[n] = v BY <2>1, <2>3, <2>4
  <2>6. \A i \in 1 .. n - 1 : i \in 1 .. n /\ i <= n - 1 BY <1>0
  <2> QED BY <1>0, <1>3, <2>1, <2>2, <2>3, <2>5, <2>6
<1>8. r \in Seq(Nat) /\ Len(r) = Len(s) + 1 /\ \A i \in 1 .. Len(r) : r[i] = IF i <= n THEN b[i] ELSE c[i - n]
  <2>0. r = b \o c BY <1>5, <1>6
  <2>00. b \in Seq(Nat) /\ c \in Seq(Nat) BY <1>4, <1>7
  <2>1. /\ r \in Seq(Nat) /\ Len(r) = Len(b) + Len(c)
        /\ \A i \in 1 .. Len(b) + Len(c) : r[i] = IF i <= Len(b) THEN b[i] ELSE c[i - Len(b)]
    BY <2>0, <2>00, ConcatProperties
  <2>2. Len(b) + Len(c) = Len(s) + 1 BY <1>0, <1>4, <1>7
  <2> QED BY <1>7, <2>1, <2>2
<1>9. \A i \in 1 .. Len(r) : r[i] = IF i <= n THEN b[i] ELSE c[i - n] BY <1>8
<1>10. ASSUME NEW i \in 1 .. Len(r) PROVE r[i] = IF i < n THEN s[i] ELSE IF i = n THEN v ELSE s[i - 1]
  <2>0. i \in Int /\ i >= 1 /\ i <= Len(s) + 1 BY <1>0, <1>8
  <2>1. CASE i <= n
    <3>1. r[i] = b[i] BY <1>9, <2>1
    <3>2. CASE i = n BY <1>0, <1>7, <3>1, <3>2
    <3>3. CASE i < n
      <4>1. i \in 1 .. n - 1 BY <1>0, <2>0, <3>3
      <4> QED BY <1>7, <3>1, <3>3, <4>1
    <3> QED BY <1>0, <2>0, <2>1, <3>2, <3>3
  <2>2. CASE i > n
    <3>0. PICK L \in Nat : L = Len(s) BY <1>0
    <3>00. n \in Int /\ i \in Int /\ i > n /\ i <= L + 1 BY <1>0, <2>0, <2>2, <3>0
    <3>000. i - n \in 1 .. L - n + 1 BY <3>00
    <3>0000. n + (i - n) - 1 = i - 1 BY <3>00
    <3>1. ~(i <= n) /\ ~(i < n) /\ i # n BY <3>00
    <3>2. PICK m : m = i - n OBVIOUS
    <3>3. c[m] = s[n + m - 1] BY <1>4, <3>0, <3>000, <3>2
    <3>4. r[i] = c[m] BY <1>9, <3>1, <3>2
    <3> QED BY <3>0000, <3>1, <3>2, <3>3, <3>4
  <2> QED BY <1>0, <1>8, <2>1, <2>2
<1> QED BY <1>0, <1>8, <1>10

\* The sum of the first entries of a list.
SumTo(s, k) == SumFunctionOnSet(s, 1 .. k)

\* One entry more.
LEMMA SumToNext ==
    ASSUME NEW s \in Seq(Nat), NEW k \in Nat, k + 1 <= Len(s)
    PROVE  /\ SumTo(s, k + 1) = SumTo(s, k) + s[k + 1]
           /\ SumTo(s, k) \in Int /\ s[k + 1] \in Nat
<1>1. 1 .. k + 1 = (1 .. k) \cup {k + 1} /\ k + 1 \notin 1 .. k OBVIOUS
<1>2. \A x \in 1 .. k + 1 : s[x] \in Int OBVIOUS
<1>3. IsFiniteSet(1 .. k) BY FS_Interval
<1>4. SumFunctionOnSet(s, (1 .. k) \cup {k + 1}) = SumFunctionOnSet(s, 1 .. k) + s[k + 1]
  <2>1. PICK T : T = 1 .. k OBVIOUS
  <2>2. PICK y : y = k + 1 OBVIOUS
  <2>3. \A x \in T \cup {y} : s[x] \in Int BY <1>1, <1>2, <2>1, <2>2
  <2>4. y \notin T /\ IsFiniteSet(T) BY <1>1, <1>3, <2>1, <2>2
  <2>5. SumFunctionOnSet(s, T \cup {y}) = SumFunctionOnSet(s, T) + s[y] BY <2>3, <2>4, SumAdd
  <2> QED BY <2>1, <2>2, <2>5
<1>5. SumFunctionOnSet(s, 1 .. k) \in Int BY <1>1, <1>2, <1>3, SumInt
<1>6. s[k + 1] \in Nat OBVIOUS
<1> QED BY <1>1, <1>4, <1>5, <1>6 DEF SumTo

\* The sum of a list is that of all its entries.
LEMMA SumOfList ==
    ASSUME NEW s \in Seq(Nat)
    PROVE  SumFunction(s) = SumTo(s, Len(s)) /\ SumTo(s, 0) = 0 /\ SumFunction(s) \in Int
<1>1. DOMAIN s = 1 .. Len(s) /\ Len(s) \in Nat OBVIOUS
<1>2. 1 .. 0 = {} OBVIOUS
<1>3. IsFiniteSet({}) BY FS_EmptySet
<1>4. SumFunctionOnSet(s, {}) = 0 BY <1>3, SumUnfold
<1>5. SumFunction(s) = SumFunctionOnSet(s, DOMAIN s) BY DEF SumFunction, FoldFunction, SumFunctionOnSet
<1>6. IsFiniteSet(1 .. Len(s)) /\ \A x \in 1 .. Len(s) : s[x] \in Int BY <1>1, FS_Interval
<1>7. SumFunctionOnSet(s, 1 .. Len(s)) \in Int BY <1>6, SumInt
<1> QED BY <1>1, <1>2, <1>4, <1>5, <1>7 DEF SumTo

\* The sum grows by the value, the order stays.
LEMMA AddedSum ==
    ASSUME NEW s \in Seq(Nat), NEW v \in Nat, NEW r, r = addToSorted(s, v)
    PROVE  SumFunction(r) = SumFunction(s) + v
<1>1. PICK n : n = FirstGreater(s, v) OBVIOUS
<1>2. /\ r \in Seq(Nat) /\ Len(r) = Len(s) + 1 /\ n \in 1 .. Len(r)
      /\ \A i \in 1 .. Len(r) : r[i] = IF i < n THEN s[i] ELSE IF i = n THEN v ELSE s[i - 1]
  BY <1>1, AddedAt
<1>3. PICK L \in Nat : L = Len(s) OBVIOUS
<1> DEFINE A(k) == SumTo(r, k)
           B(k) == SumTo(s, k)
           P == {k \in Nat : k <= L + 1 => A(k) = IF k < n THEN B(k) ELSE B(k - 1) + v}
<1>4. \A k \in Nat : k + 1 <= L + 1 => A(k + 1) = A(k) + r[k + 1] /\ A(k) \in Int /\ r[k + 1] \in Nat
  BY <1>2, <1>3, SumToNext
<1>5. \A k \in Nat : k + 1 <= L => B(k + 1) = B(k) + s[k + 1] /\ B(k) \in Int /\ s[k + 1] \in Nat
  BY <1>3, SumToNext
<1>6. A(0) = 0 /\ B(0) = 0 BY <1>2, SumOfList
<1>7. SumFunction(r) = A(L + 1) /\ SumFunction(s) = B(L) BY <1>2, <1>3, SumOfList
<1>8. n \in 1 .. L + 1 BY <1>2, <1>3
<1> HIDE DEF A, B
<1>9. 0 \in P BY <1>6, <1>8
<1>10. ASSUME NEW k \in Nat, k \in P PROVE k + 1 \in P
  <2>1. SUFFICES ASSUME k + 1 <= L + 1 PROVE A(k + 1) = IF k + 1 < n THEN B(k + 1) ELSE B((k + 1) - 1) + v
    OBVIOUS
  <2>2. A(k + 1) = A(k) + r[k + 1] BY <1>4, <2>1
  <2>3. A(k) = IF k < n THEN B(k) ELSE B(k - 1) + v BY <1>10, <2>1
  <2>4. k + 1 \in 1 .. Len(r) BY <1>2, <1>3, <2>1
  <2>5. r[k + 1] = IF k + 1 < n THEN s[k + 1] ELSE IF k + 1 = n THEN v ELSE s[(k + 1) - 1] BY <1>2, <2>4
  <2>6. CASE k + 1 < n
    <3>1. k + 1 <= L /\ k < n BY <1>8, <2>6
    <3>2. B(k + 1) = B(k) + s[k + 1] BY <1>5, <3>1
    <3> QED BY <2>2, <2>3, <2>5, <2>6, <3>1, <3>2
  <2>7. CASE k + 1 = n
    <3>1. k < n /\ ~(k + 1 < n) /\ (k + 1) - 1 = k BY <2>7
    <3> QED BY <2>2, <2>3, <2>5, <2>7, <3>1
  <2>8. CASE k + 1 > n
    <3>1. /\ k - 1 \in Nat /\ (k - 1) + 1 <= L /\ (k - 1) + 1 = k /\ (k + 1) - 1 = k
          /\ ~(k + 1 < n) /\ k + 1 # n /\ ~(k < n)
      BY <1>8, <2>1, <2>8
    <3>2. B(k) = B(k - 1) + s[k] /\ B(k - 1) \in Int /\ s[k] \in Nat BY <1>5, <3>1
    <3>3. A(k) = B(k - 1) + v /\ A(k + 1) = A(k) + s[k] BY <2>2, <2>3, <2>5, <3>1
    <3>4. A(k + 1) = B(k) + v BY <3>2, <3>3
    <3> QED BY <3>1, <3>4
  <2> QED BY <1>8, <2>6, <2>7, <2>8
<1>11. L + 1 \in P
  <2> HIDE DEF P
  <2>1. Nat \subseteq P BY <1>9, <1>10, NatInd
  <2> QED BY <2>1
<1>12. A(L + 1) = IF L + 1 < n THEN B(L + 1) ELSE B((L + 1) - 1) + v BY <1>11
<1>13. ~(L + 1 < n) /\ (L + 1) - 1 = L BY <1>8
<1> QED BY <1>7, <1>12, <1>13

\* The list stays in order, and its last entry is the greatest.
LEMMA AddedOrder ==
    ASSUME NEW s \in Seq(Nat), NEW v \in Nat, NEW r, r = addToSorted(s, v), Ascending(s)
    PROVE  /\ r \in Seq(Nat) /\ Len(r) = Len(s) + 1 /\ Ascending(r)
           /\ s = << >> => r[Len(r)] = v
           /\ s # << >> => r[Len(r)] = IF v > s[Len(s)] THEN v ELSE s[Len(s)]
<1>1. PICK n : n = FirstGreater(s, v) OBVIOUS
<1>2. /\ r \in Seq(Nat) /\ Len(r) = Len(s) + 1 /\ n \in 1 .. Len(r)
      /\ \A i \in 1 .. Len(r) : r[i] = IF i < n THEN s[i] ELSE IF i = n THEN v ELSE s[i - 1]
  BY <1>1, AddedAt
<1>3. PICK L \in Nat : L = Len(s) OBVIOUS
<1>4. n \in 1 .. L + 1 /\ (\A i \in 1 .. n - 1 : s[i] <= v) /\ (n <= L => s[n] > v)
  BY <1>1, <1>3, FirstGreaterIs
<1>5. \A i \in 1 .. L : s[i] \in Nat BY <1>3
<1>6. \A i, j \in 1 .. L : i < j => s[i] <= s[j] BY <1>3 DEF Ascending
<1>7. \A i \in 1 .. L + 1 : r[i] = IF i < n THEN s[i] ELSE IF i = n THEN v ELSE s[i - 1] BY <1>2, <1>3
<1>8. ASSUME NEW i \in n .. L PROVE v < s[i]
  <2>1. n \in 1 .. L /\ i \in 1 .. L /\ s[n] > v BY <1>4
  <2>2. i = n \/ s[n] <= s[i] BY <1>4, <1>6, <2>1
  <2> QED BY <1>5, <2>1, <2>2
<1>9. ASSUME NEW i \in 1 .. L + 1, NEW j \in 1 .. L + 1, i < j PROVE r[i] <= r[j]
  <2>1. CASE j < n
    <3>1. i < n /\ i \in 1 .. L /\ j \in 1 .. L BY <1>4, <1>9, <2>1
    <3>2. r[i] = s[i] /\ r[j] = s[j] BY <1>7, <2>1, <3>1
    <3> QED BY <1>6, <1>9, <3>1, <3>2
  <2>2. CASE j = n
    <3>1. i < n /\ i \in 1 .. n - 1 /\ ~(j < n) BY <1>4, <1>9, <2>2
    <3>2. r[i] = s[i] /\ r[j] = v BY <1>7, <2>2, <3>1
    <3> QED BY <1>4, <3>1, <3>2
  <2>3. CASE j > n
    <3>1. j - 1 \in n .. L /\ j - 1 \in 1 .. L /\ r[j] = s[j - 1] BY <1>4, <1>7, <2>3
    <3>2. v < s[j - 1] BY <1>8, <3>1
    <3>3. CASE i < n
      <4>1. i \in 1 .. n - 1 /\ i \in 1 .. L BY <1>4, <3>3
      <4>2. r[i] = s[i] /\ s[i] <= v BY <1>4, <1>7, <3>3, <4>1
      <4> QED BY <1>5, <3>1, <3>2, <4>1, <4>2
    <3>4. CASE i = n
      <4>1. r[i] = v BY <1>7, <3>4
      <4> QED BY <1>5, <3>1, <3>2, <4>1
    <3>5. CASE i > n
      <4>1. i - 1 \in 1 .. L /\ i - 1 < j - 1 /\ r[i] = s[i - 1] BY <1>4, <1>7, <1>9, <3>5
      <4> QED BY <1>6, <3>1, <4>1
    <3> QED BY <1>4, <3>3, <3>4, <3>5
  <2> QED BY <1>4, <2>1, <2>2, <2>3
<1>10. Ascending(r) BY <1>2, <1>3, <1>9 DEF Ascending
<1>11. Len(r) = L + 1 /\ L + 1 \in 1 .. L + 1 BY <1>2, <1>3
<1>12. CASE s = << >>
  <2>1. L = 0 BY <1>3, <1>12
  <2>2. n = L + 1 BY <1>4, <2>1
  <2> QED BY <1>2, <1>7, <1>10, <1>11, <1>12, <2>2
<1>13. CASE s # << >>
  <2>1. L \in 1 .. L /\ s[L] \in Nat BY <1>3, <1>5, <1>13
  <2>2. CASE n = L + 1
    <3>1. r[L + 1] = v BY <1>7, <1>11, <2>2
    <3>2. L \in 1 .. n - 1 BY <2>1, <2>2
    <3>3. s[L] <= v BY <1>4, <3>2
    <3>4. v = IF v > s[L] THEN v ELSE s[L] BY <2>1, <3>3
    <3> QED BY <1>2, <1>3, <1>10, <1>11, <1>13, <3>1, <3>4
  <2>3. CASE n # L + 1
    <3>1. L \in n .. L /\ ~(L + 1 < n) /\ (L + 1) - 1 = L BY <1>4, <2>3
    <3>2. v < s[L] BY <1>8, <3>1
    <3>3. r[L + 1] = s[L] BY <1>7, <1>11, <2>3, <3>1
    <3>4. s[L] = IF v > s[L] THEN v ELSE s[L] BY <2>1, <3>2
    <3> QED BY <1>2, <1>3, <1>10, <1>11, <1>13, <3>3, <3>4
  <2> QED BY <2>2, <2>3
<1> QED BY <1>12, <1>13

-----------------------------------------------------------------------------
(* What update builds: one identity after the other. *)

Identities == Len(NodeAddresses)

\* The identities met so far.
Seen(n) == {NodeAddresses[i] : i \in 1 .. n}

\* The identities are met one after the other, each once.
LEMMA AddressFacts ==
    /\ Identities \in Nat /\ Addr = Seen(Identities) /\ IsFiniteSet(Addr) /\ Seen(0) = {}
    /\ \A n \in 1 .. Identities : /\ NodeAddresses[n] \in Addr /\ NodeAddresses[n] \notin Seen(n - 1)
                         /\ Seen(n) = Seen(n - 1) \cup {NodeAddresses[n]}
<1>1. NodeAddresses \in Seq(Addr) /\ IsInjective(NodeAddresses) BY OnlineIdentitiesAssumption
<1>2. Identities \in Nat /\ DOMAIN NodeAddresses = 1 .. Identities BY <1>1 DEF Identities
<1>3. Addr = Seen(Identities) BY <1>2 DEF Addr, Range, Seen
<1>4. IsFiniteSet(Addr)
  <2>1. IsFiniteSet(1 .. Identities) BY <1>2, FS_Interval
  <2>2. PICK f : f = [i \in 1 .. Identities |-> NodeAddresses[i]] OBVIOUS
  <2>3. f \in Surjection(1 .. Identities, Addr) BY <1>3, <2>2 DEF Surjection, Seen
  <2> QED BY <2>1, <2>3, FS_Surjection
<1>5. ASSUME NEW n \in 1 .. Identities
      PROVE  /\ NodeAddresses[n] \in Addr /\ NodeAddresses[n] \notin Seen(n - 1)
             /\ Seen(n) = Seen(n - 1) \cup {NodeAddresses[n]}
  <2>1. NodeAddresses[n] \in Addr BY <1>3 DEF Seen
  <2>2. \A i \in 1 .. n - 1 : i \in 1 .. Identities /\ i # n BY <1>2
  <2>3. \A i \in 1 .. n - 1 : NodeAddresses[i] # NodeAddresses[n]
    BY <1>1, <1>2, <2>2 DEF IsInjective
  <2>4. 1 .. n = (1 .. n - 1) \cup {n} BY <1>2
  <2> QED BY <2>1, <2>3, <2>4 DEF Seen
<1>6. Seen(0) = {} BY DEF Seen
<1> QED BY <1>2, <1>3, <1>4, <1>5, <1>6

IdentityRow       == [address : Addr, delegatee : Addr \cup {NoAddress}]
ValidatorRow == [address : Addr, size : Nat, online : BOOLEAN]
PoolRow      == [address : Addr, total : Nat, validated : Nat]
StakingRow   == [weight : Nat, miners : Seq(Nat), minersWeight : Nat, max : Nat]
FieldsRow ==
  [identities : Seq(IdentityRow), identitiesPerAddress : SUBSET IdentityRow, onlineCount : Int,
   validators : Seq(ValidatorRow), onlineValidators : Seq(ValidatorRow), staking : StakingRow,
   forkCommitteeSize : Nat, poolsPerAddress : SUBSET PoolRow, delegatees : SUBSET Addr]

\* What is known of a state of the node.
Node(w, a) ==
  /\ w[a].validated \in BOOLEAN /\ w[a].delegatee \in Addr \cup {NoAddress} /\ w[a].online \in BOOLEAN
  /\ w[a].stake \in SUBSET Nat /\ w[a].activity \in Nat
  /\ \A x, y \in w[a].stake : x = y
  /\ w[a].delegatee # NoAddress => w[a].delegatee # a
  /\ w[a].delegatee # NoAddress => w[w[a].delegatee].delegatee = NoAddress
  /\ w[a].online => IsPool(w, a) \/ (w[a].validated /\ w[a].delegatee = NoAddress)

\* What the assumption says of one address.
LEMMA NodeFacts == ASSUME NEW w \in NodeStates, NEW a \in Addr PROVE Node(w, a)
<1>1. NodeStateOK(w) BY OnlineIdentitiesAssumption
<1>2. w[a] \in [validated : BOOLEAN, delegatee : Addr \cup {NoAddress}, online : BOOLEAN,
                stake : SUBSET Nat, activity : Nat] BY <1>1 DEF NodeStateOK
<1>3. /\ w[a].validated \in BOOLEAN /\ w[a].delegatee \in Addr \cup {NoAddress} /\ w[a].online \in BOOLEAN
      /\ w[a].stake \in SUBSET Nat /\ w[a].activity \in Nat
  BY <1>2
<1>4. /\ \A x, y \in w[a].stake : x = y
      /\ w[a].delegatee # NoAddress => w[a].delegatee # a
      /\ w[a].delegatee # NoAddress => w[w[a].delegatee].delegatee = NoAddress
      /\ w[a].online => IsPool(w, a) \/ (w[a].validated /\ w[a].delegatee = NoAddress)
  BY <1>1 DEF NodeStateOK
<1> QED BY <1>3, <1>4 DEF Node

\* A stake is a number, and 0 for nil.
LEMMA StakeFacts ==
    ASSUME NEW w \in NodeStates, NEW a \in Addr
    PROVE  /\ StakeOf(w, a) \in Nat /\ Validated(w, a) \in Nat
           /\ w[a].stake = {} => StakeOf(w, a) = 0 /\ Validated(w, a) = 0
<1>1. w[a].stake \in SUBSET Nat /\ \A x, y \in w[a].stake : x = y BY NodeFacts DEF Node
<1>2. PICK s : s = w[a].stake OBVIOUS
<1>3. ASSUME s # {} PROVE Max(s) \in Nat
  <2>1. PICK x \in s : TRUE BY <1>3
  <2>2. x \in Nat /\ \A y \in s : x >= y BY <1>1, <1>2
  <2>3. \E z \in s : \A y \in s : z >= y BY <2>2
  <2>4. Max(s) \in s BY <2>3 DEF Max
  <2> QED BY <1>1, <1>2, <2>4
<1>4. StakeOf(w, a) \in Nat BY <1>2, <1>3 DEF StakeOf
<1>5. w[a].stake = {} => StakeOf(w, a) = 0 BY DEF StakeOf
<1> QED BY <1>4, <1>5 DEF Validated

\* A pool has a member.
LEMMA SizeFacts ==
    ASSUME NEW w, NEW a
    PROVE  PoolSize(w, a) \in Nat /\ (IsPool(w, a) => PoolSize(w, a) # 0)
<1>1. PICK S : S = {d \in Addr : w[d].validated /\ (w[d].delegatee = a \/ d = a)} OBVIOUS
<1>2. IsFiniteSet(S) BY <1>1, AddressFacts, FS_Subset
<1>3. Cardinality(S) \in Nat BY <1>2, FS_CardinalityType
<1>4. IsPool(w, a) => S # {} BY <1>1 DEF IsPool
<1>5. S # {} => Cardinality(S) # 0 BY <1>2, FS_EmptySet
<1>6. PoolSize(w, a) = Cardinality(S) BY <1>1 DEF PoolSize
<1> QED BY <1>3, <1>4, <1>5, <1>6

\* The weights.
StakingOK(st) ==
  /\ st \in StakingRow
  /\ Ascending(st.miners)
  /\ SumFunction(st.miners) = st.minersWeight
  /\ st.minersWeight <= st.weight
  /\ st.miners = << >> => st.max = 0
  /\ st.miners # << >> => st.miners[Len(st.miners)] = st.max

\* addToSorted and the sums beside it keep the weights in step.
LEMMA StakingStep ==
    ASSUME NEW w \in NodeStates, NEW a \in Addr, NEW st, StakingOK(st)
    PROVE  StakingOK(AddStaking(w, a, st))
<1>1. PICK v \in Nat : v = StakeOf(w, a) BY StakeFacts
<1>2. PICK m \in BOOLEAN : m = (w[a].online \/ (w[a].delegatee # NoAddress /\ w[w[a].delegatee].online))
  <2>1. (w[a].online \/ (w[a].delegatee # NoAddress /\ w[w[a].delegatee].online)) \in BOOLEAN OBVIOUS
  <2> QED BY <2>1
<1>3. st \in StakingRow /\ st.weight \in Nat /\ st.miners \in Seq(Nat) /\ st.minersWeight \in Nat /\ st.max \in Nat
  BY DEF StakingOK, StakingRow
<1>4. PICK r : r = addToSorted(st.miners, v) OBVIOUS
<1>5. /\ r \in Seq(Nat) /\ Len(r) = Len(st.miners) + 1 /\ Ascending(r)
      /\ st.miners = << >> => r[Len(r)] = v
      /\ st.miners # << >> => r[Len(r)] = IF v > st.miners[Len(st.miners)] THEN v ELSE st.miners[Len(st.miners)]
  BY <1>3, <1>4, AddedOrder DEF StakingOK
<1>6. SumFunction(r) = SumFunction(st.miners) + v BY <1>3, <1>4, AddedSum
<1>7. CASE ~w[a].validated BY <1>7 DEF AddStaking
<1>8. CASE w[a].validated /\ m
  <2>1. PICK x : x = AddStaking(w, a, st) OBVIOUS
  <2>2. x = [weight |-> st.weight + v, miners |-> r, minersWeight |-> st.minersWeight + v,
             max |-> IF v > st.max THEN v ELSE st.max]
    BY <1>1, <1>2, <1>4, <1>8, <2>1 DEF AddStaking
  <2>3. st.weight + v \in Nat /\ st.minersWeight + v \in Nat /\ (IF v > st.max THEN v ELSE st.max) \in Nat
    BY <1>3
  <2>4. x \in StakingRow BY <1>5, <2>2, <2>3 DEF StakingRow
  <2>5. SumFunction(x.miners) = x.minersWeight BY <1>6, <2>2 DEF StakingOK
  <2>6. x.minersWeight <= x.weight BY <1>3, <2>2 DEF StakingOK
  <2>7. x.miners # << >>
    <3>1. Len(r) # 0 BY <1>3, <1>5
    <3> QED BY <2>2, <3>1
  <2>8. x.miners[Len(x.miners)] = x.max
    <3>1. CASE st.miners = << >>
      <4>1. st.max = 0 BY <3>1 DEF StakingOK
      <4>2. (IF v > st.max THEN v ELSE st.max) = v BY <4>1
      <4> QED BY <1>5, <2>2, <3>1, <4>2
    <3>2. CASE st.miners # << >>
      <4>1. st.miners[Len(st.miners)] = st.max BY <3>2 DEF StakingOK
      <4> QED BY <1>5, <2>2, <3>2, <4>1
    <3> QED BY <3>1, <3>2
  <2>9. Ascending(x.miners) BY <1>5, <2>2
  <2> QED BY <2>1, <2>4, <2>5, <2>6, <2>7, <2>8, <2>9 DEF StakingOK
<1>9. CASE w[a].validated /\ ~m
  <2>1. PICK x : x = AddStaking(w, a, st) OBVIOUS
  <2>2. x = [weight |-> st.weight + v, miners |-> st.miners, minersWeight |-> st.minersWeight + 0,
             max |-> st.max]
    BY <1>1, <1>2, <1>9, <2>1 DEF AddStaking
  <2>3. st.weight + v \in Nat /\ st.minersWeight + 0 = st.minersWeight BY <1>3
  <2>4. x \in StakingRow BY <1>3, <2>2, <2>3 DEF StakingRow
  <2>5. x.minersWeight <= x.weight BY <1>3, <2>2, <2>3 DEF StakingOK
  <2>6. x.miners = st.miners /\ x.minersWeight = st.minersWeight /\ x.max = st.max BY <2>2, <2>3
  <2> QED BY <2>1, <2>4, <2>5, <2>6 DEF StakingOK
<1>10. w[a].validated \in BOOLEAN BY NodeFacts DEF Node
<1> QED BY <1>7, <1>8, <1>9, <1>10

\* The stakes of the delegators of q that have been met.
Delegators(w, n, q) == {a \in Seen(n) : w[a].delegatee = q}
StakeFn(w)     == [a \in Addr |-> StakeOf(w, a)]
ValidatedFn(w) == [a \in Addr |-> Validated(w, a)]
TotalOf(w, n, q)     == SumFunctionOnSet(StakeFn(w), Delegators(w, n, q))
ValidatedOf(w, n, q) == SumFunctionOnSet(ValidatedFn(w), Delegators(w, n, q))

PoolsOK(w, n, pools) ==
  /\ pools \subseteq PoolRow
  /\ \A q \in Addr :
       \/ PoolOf(pools, q) = {} /\ TotalOf(w, n, q) = 0 /\ ValidatedOf(w, n, q) = 0
       \/ PoolOf(pools, q) = {[address |-> q, total |-> StakeOf(w, q) + TotalOf(w, n, q),
                               validated |-> Validated(w, q) + ValidatedOf(w, n, q)]}

\* The sums are those before and the stake of a new delegator.
LEMMA DelegatorSums ==
    ASSUME NEW w \in NodeStates, NEW n \in 1 .. Identities, NEW a, a = NodeAddresses[n], NEW q \in Addr
    PROVE  /\ TotalOf(w, n - 1, q) \in Int /\ ValidatedOf(w, n - 1, q) \in Int
           /\ w[a].delegatee = q => /\ TotalOf(w, n, q) = TotalOf(w, n - 1, q) + StakeOf(w, a)
                                    /\ ValidatedOf(w, n, q) = ValidatedOf(w, n - 1, q) + Validated(w, a)
           /\ w[a].delegatee # q => /\ TotalOf(w, n, q) = TotalOf(w, n - 1, q)
                                    /\ ValidatedOf(w, n, q) = ValidatedOf(w, n - 1, q)
<1>1. a \in Addr /\ a \notin Seen(n - 1) /\ Seen(n) = Seen(n - 1) \cup {a} BY AddressFacts
<1>2. Seen(n - 1) \subseteq Addr
  <2>1. \A i \in 1 .. n - 1 : i \in 1 .. Identities BY AddressFacts
  <2> QED BY <2>1, AddressFacts DEF Seen
<1>3. PICK D : D = Delegators(w, n - 1, q) OBVIOUS
<1>4. D \subseteq Addr /\ a \notin D BY <1>1, <1>2, <1>3 DEF Delegators
<1>5. IsFiniteSet(D) BY <1>4, AddressFacts, FS_Subset
<1>6. PICK f : f = StakeFn(w) OBVIOUS
<1>7. PICK g : g = ValidatedFn(w) OBVIOUS
<1>8. \A x \in Addr : f[x] = StakeOf(w, x) /\ g[x] = Validated(w, x) BY <1>6, <1>7 DEF StakeFn, ValidatedFn
<1>9. \A x \in Addr : f[x] \in Int /\ g[x] \in Int BY <1>8, StakeFacts
<1>10. \A x \in D \cup {a} : f[x] \in Int BY <1>1, <1>4, <1>9
<1>11. \A x \in D \cup {a} : g[x] \in Int BY <1>1, <1>4, <1>9
<1>12. SumFunctionOnSet(f, D \cup {a}) = SumFunctionOnSet(f, D) + f[a] BY <1>4, <1>5, <1>10, SumAdd
<1>13. SumFunctionOnSet(g, D \cup {a}) = SumFunctionOnSet(g, D) + g[a] BY <1>4, <1>5, <1>11, SumAdd
<1>14. SumFunctionOnSet(f, D) \in Int
  <2>1. \A x \in D : f[x] \in Int BY <1>10
  <2> QED BY <1>5, <2>1, SumInt
<1>15. SumFunctionOnSet(g, D) \in Int
  <2>1. \A x \in D : g[x] \in Int BY <1>11
  <2> QED BY <1>5, <2>1, SumInt
<1>16. w[a].delegatee = q => Delegators(w, n, q) = D \cup {a} BY <1>1, <1>3 DEF Delegators
<1>17. w[a].delegatee # q => Delegators(w, n, q) = D BY <1>1, <1>3 DEF Delegators
<1>18. f[a] = StakeOf(w, a) /\ g[a] = Validated(w, a) BY <1>1, <1>8
<1> QED BY <1>3, <1>6, <1>7, <1>12, <1>13, <1>14, <1>15, <1>16, <1>17, <1>18 DEF TotalOf, ValidatedOf

\* A delegator is added to its pool and to no other.
LEMMA PoolsStep ==
    ASSUME NEW w \in NodeStates, NEW n \in 1 .. Identities, NEW a, a = NodeAddresses[n], NEW pools,
           PoolsOK(w, n - 1, pools)
    PROVE  PoolsOK(w, n, AddToPool(w, a, pools))
<1>1. a \in Addr /\ Node(w, a) BY AddressFacts, NodeFacts
<1>2. PICK p : p = w[a].delegatee OBVIOUS
<1>3. PICK s : s = StakeOf(w, a) /\ s \in Nat BY <1>1, StakeFacts
<1>4. PICK v : v = Validated(w, a) /\ v \in Nat BY <1>1, StakeFacts
<1>5. PICK new : new = AddToPool(w, a, pools) OBVIOUS
<1>6. CASE p = NoAddress \/ w[a].stake = {}
  <2>1. new = pools BY <1>2, <1>5, <1>6 DEF AddToPool
  <2>2. ASSUME NEW q \in Addr
        PROVE  TotalOf(w, n, q) = TotalOf(w, n - 1, q) /\ ValidatedOf(w, n, q) = ValidatedOf(w, n - 1, q)
    <3>1. CASE p # q BY <1>2, <3>1, DelegatorSums
    <3>2. CASE p = q
      <4>1. w[a].stake = {} BY <1>6, <3>2, OnlineIdentitiesAssumption
      <4>2. s = 0 /\ v = 0 BY <1>1, <1>3, <1>4, <4>1, StakeFacts
      <4>3. TotalOf(w, n - 1, q) \in Int /\ ValidatedOf(w, n - 1, q) \in Int BY DelegatorSums
      <4>4. TotalOf(w, n, q) = TotalOf(w, n - 1, q) + s /\ ValidatedOf(w, n, q) = ValidatedOf(w, n - 1, q) + v
        BY <1>2, <1>3, <1>4, <3>2, DelegatorSums
      <4> QED BY <4>2, <4>3, <4>4
    <3> QED BY <3>1, <3>2
  <2> QED BY <1>5, <2>1, <2>2 DEF PoolsOK
<1>7. CASE p # NoAddress /\ w[a].stake # {}
  <2>1. p \in Addr BY <1>1, <1>2, <1>7 DEF Node
  <2>2. PICK T \in Int : T = TotalOf(w, n - 1, p) BY <2>1, DelegatorSums
  <2>3. PICK V \in Int : V = ValidatedOf(w, n - 1, p) BY <2>1, DelegatorSums
  <2>4. PICK ps : ps = StakeOf(w, p) /\ ps \in Nat BY <2>1, StakeFacts
  <2>5. PICK pv : pv = Validated(w, p) /\ pv \in Nat BY <2>1, StakeFacts
  <2>6. PICK old : old = IF PoolOf(pools, p) = {} THEN [total |-> ps, validated |-> pv]
                         ELSE CHOOSE q \in PoolOf(pools, p) : TRUE
    OBVIOUS
  <2>7. old.total = ps + T /\ old.validated = pv + V /\ old.total \in Nat /\ old.validated \in Nat
    <3>1. CASE PoolOf(pools, p) = {}
      <4>1. TotalOf(w, n - 1, p) = 0 /\ ValidatedOf(w, n - 1, p) = 0 BY <2>1, <3>1 DEF PoolsOK
      <4>2. T = 0 /\ V = 0 BY <2>2, <2>3, <4>1
      <4>3. old.total = ps /\ old.validated = pv BY <2>6, <3>1
      <4> QED BY <2>4, <2>5, <4>2, <4>3
    <3>2. CASE PoolOf(pools, p) # {}
      <4>1. PICK row : row = [address |-> p, total |-> ps + T, validated |-> pv + V] OBVIOUS
      <4>2. PoolOf(pools, p) = {row} BY <2>1, <2>2, <2>3, <2>4, <2>5, <3>2, <4>1 DEF PoolsOK
      <4>3. old = row BY <2>6, <4>2
      <4>4. row \in PoolRow BY <4>2 DEF PoolsOK, PoolOf
      <4>5. row.total = ps + T /\ row.validated = pv + V BY <4>1
      <4>6. row.total \in Nat /\ row.validated \in Nat BY <4>4 DEF PoolRow
      <4> QED BY <4>3, <4>5, <4>6
    <3> QED BY <3>1, <3>2
  <2>8. PICK row : row = [address |-> p, total |-> old.total + s, validated |-> old.validated + v] OBVIOUS
  <2>9. new = (pools \ PoolOf(pools, p)) \cup {row}
    BY <1>2, <1>3, <1>4, <1>5, <1>7, <2>4, <2>5, <2>6, <2>8 DEF AddToPool
  <2>10. row \in PoolRow /\ row.address = p
    <3>1. old.total + s \in Nat /\ old.validated + v \in Nat BY <1>3, <1>4, <2>7
    <3> QED BY <2>1, <2>8, <3>1 DEF PoolRow
  <2>11. new \subseteq PoolRow BY <2>9, <2>10 DEF PoolsOK
  <2>12. PoolOf(new, p) = {row} BY <2>9, <2>10 DEF PoolOf
  <2>13. TotalOf(w, n, p) = T + s /\ ValidatedOf(w, n, p) = V + v
    BY <1>2, <1>3, <1>4, <2>1, <2>2, <2>3, DelegatorSums
  <2>14. old.total + s = ps + (T + s) /\ old.validated + v = pv + (V + v)
    BY <1>3, <1>4, <2>4, <2>5, <2>7
  <2>15. row = [address |-> p, total |-> StakeOf(w, p) + TotalOf(w, n, p),
                validated |-> Validated(w, p) + ValidatedOf(w, n, p)]
    BY <2>4, <2>5, <2>8, <2>13, <2>14
  <2>16. ASSUME NEW q \in Addr, q # p
         PROVE  \/ PoolOf(new, q) = {} /\ TotalOf(w, n, q) = 0 /\ ValidatedOf(w, n, q) = 0
                \/ PoolOf(new, q) = {[address |-> q, total |-> StakeOf(w, q) + TotalOf(w, n, q),
                                      validated |-> Validated(w, q) + ValidatedOf(w, n, q)]}
    <3>1. PoolOf(new, q) = PoolOf(pools, q) BY <2>9, <2>10, <2>16 DEF PoolOf
    <3>2. TotalOf(w, n, q) = TotalOf(w, n - 1, q) /\ ValidatedOf(w, n, q) = ValidatedOf(w, n - 1, q)
      BY <1>2, <2>16, DelegatorSums
    <3> QED BY <3>1, <3>2 DEF PoolsOK
  <2> QED BY <1>5, <2>11, <2>12, <2>15, <2>16 DEF PoolsOK
<1> QED BY <1>6, <1>7

\* The identity as it is in the state.
Own(w, a)   == [address |-> a, delegatee |-> w[a].delegatee]
OwnOf(w, S) == {Own(w, a) : a \in {b \in S : w[b].validated}}

ListsOK(w, n, acc) ==
  /\ Range(acc.identities) = acc.identitiesPerAddress
  /\ acc.identitiesPerAddress = OwnOf(w, Seen(n))
  /\ \A i, j \in 1 .. Len(acc.identities) : i # j => acc.identities[i] # acc.identities[j]
  /\ \A d \in acc.delegatees : \E a \in Addr : w[a].delegatee = d

SizeFn == [v \in ValidatorRow |-> v.size]

OnlineOK(w, n, acc) ==
  /\ \A v \in Range(acc.onlineValidators) : v.address \in Seen(n)
  /\ acc.onlineCount = SumFunctionOnSet(SizeFn, Range(acc.onlineValidators))

Met(w, a, acc)      == acc.delegatees \cup ({w[a].delegatee} \ {NoAddress})
ListedAs(w, a, ds)  == [address |-> a, delegatee |-> IF a \in ds THEN NoAddress ELSE w[a].delegatee]

AfterVisit(w, a, acc, x, ds, id) ==
  /\ x = [identities |-> x.identities, identitiesPerAddress |-> x.identitiesPerAddress,
          onlineCount |-> x.onlineCount, validators |-> x.validators,
          onlineValidators |-> x.onlineValidators, staking |-> x.staking,
          forkCommitteeSize |-> x.forkCommitteeSize, poolsPerAddress |-> x.poolsPerAddress,
          delegatees |-> x.delegatees]
  /\ x.identities = IF w[a].validated THEN Append(acc.identities, id) ELSE acc.identities
  /\ x.identitiesPerAddress = IF w[a].validated THEN acc.identitiesPerAddress \cup {id}
                              ELSE acc.identitiesPerAddress
  /\ x.onlineCount = acc.onlineCount + (IF ~w[a].online THEN 0
                                        ELSE IF IsPool(w, a) THEN PoolSize(w, a) ELSE 1)
  /\ x.validators = acc.validators \o buildValidator(w, a)
  /\ x.onlineValidators = acc.onlineValidators \o (IF w[a].online THEN buildValidator(w, a) ELSE << >>)
  /\ x.staking = AddStaking(w, a, acc.staking)
  /\ x.forkCommitteeSize = acc.forkCommitteeSize
  /\ x.poolsPerAddress = AddToPool(w, a, acc.poolsPerAddress)
  /\ x.delegatees = ds

\* What one call of the callback leaves.
LEMMA VisitIs ==
    ASSUME NEW w, NEW a, NEW acc \in FieldsRow, NEW x, x = Visit(w, a, acc),
           NEW ds, ds = Met(w, a, acc), NEW id, id = ListedAs(w, a, ds)
    PROVE  AfterVisit(w, a, acc, x, ds, id)
BY DEF Visit, FieldsRow, AfterVisit, Met, ListedAs

\* Whoever is online is a validator, of the size by which update counts it.
LEMMA ValidatorFacts ==
    ASSUME NEW w \in NodeStates, NEW a \in Addr, NEW v, v = buildValidator(w, a)
    PROVE  /\ v \in Seq(ValidatorRow)
           /\ w[a].online => \E r \in ValidatorRow : /\ v = <<r>> /\ r.address = a
                                                     /\ r.size = IF IsPool(w, a) THEN PoolSize(w, a) ELSE 1
<1>1. Node(w, a) BY NodeFacts
<1>2. PoolSize(w, a) \in Nat /\ (IsPool(w, a) => PoolSize(w, a) # 0) BY SizeFacts
<1>3. PICK size : size = IF IsPool(w, a) THEN PoolSize(w, a)
                         ELSE IF w[a].validated /\ w[a].delegatee = NoAddress THEN 1 ELSE 0
  OBVIOUS
<1>4. size \in Nat BY <1>2, <1>3
<1>5. PICK r : r = [address |-> a, size |-> size, online |-> w[a].online] OBVIOUS
<1>6. r \in ValidatorRow BY <1>1, <1>4, <1>5 DEF ValidatorRow, Node
<1>7. v = IF size = 0 THEN << >> ELSE <<r>> BY <1>3, <1>5 DEF buildValidator
<1>8. v \in Seq(ValidatorRow) BY <1>6, <1>7
<1>9. w[a].online => size # 0 /\ size = IF IsPool(w, a) THEN PoolSize(w, a) ELSE 1
  BY <1>1, <1>2, <1>3 DEF Node
<1> QED BY <1>5, <1>6, <1>7, <1>8, <1>9

\* The entries of a list; a list that repeats none has as many.
LEMMA RangeFinite ==
    ASSUME NEW S, NEW s \in Seq(S)
    PROVE  /\ IsFiniteSet(Range(s)) /\ Range(s) \subseteq S
           /\ \A i \in 1 .. Len(s) : s[i] \in Range(s)
           /\ \A y \in Range(s) : \E i \in 1 .. Len(s) : s[i] = y
           /\ (\A i, j \in 1 .. Len(s) : i # j => s[i] # s[j]) => Cardinality(Range(s)) = Len(s)
<1>1. DOMAIN s = 1 .. Len(s) /\ Len(s) \in Nat OBVIOUS
<1>2. Range(s) = {s[i] : i \in 1 .. Len(s)} BY <1>1 DEF Range
<1>3. IsFiniteSet(1 .. Len(s)) /\ Cardinality(1 .. Len(s)) = Len(s)
  <2>1. IsFiniteSet(1 .. Len(s)) /\ Cardinality(1 .. Len(s)) = IF 1 > Len(s) THEN 0 ELSE Len(s) - 1 + 1
    BY <1>1, FS_Interval
  <2> QED BY <1>1, <2>1
<1>4. PICK f : f = [i \in 1 .. Len(s) |-> s[i]] OBVIOUS
<1>5. f \in Surjection(1 .. Len(s), Range(s)) BY <1>2, <1>4 DEF Surjection
<1>6. /\ IsFiniteSet(Range(s))
      /\ Cardinality(Range(s)) = Cardinality(1 .. Len(s)) <=> f \in Injection(1 .. Len(s), Range(s))
  BY <1>3, <1>5, FS_Surjection
<1>7. ASSUME \A i, j \in 1 .. Len(s) : i # j => s[i] # s[j] PROVE f \in Injection(1 .. Len(s), Range(s))
  <2>1. f \in [1 .. Len(s) -> Range(s)] BY <1>5 DEF Surjection
  <2>2. IsInjective(f) BY <1>4, <1>7, <2>1 DEF IsInjective
  <2> QED BY <2>1, <2>2 DEF Injection
<1>8. Range(s) \subseteq S BY <1>2
<1> QED BY <1>2, <1>3, <1>6, <1>7, <1>8

Appended(S, s, e, t) ==
  /\ t \in Seq(S) /\ Len(t) = Len(s) + 1 /\ Len(s) \in Nat /\ t[Len(s) + 1] = e
  /\ \A i \in 1 .. Len(s) : t[i] = s[i]
  /\ Range(t) = Range(s) \cup {e}

\* One entry more.
LEMMA RangeAppend ==
    ASSUME NEW S, NEW s \in Seq(S), NEW e \in S
    PROVE  Appended(S, s, e, Append(s, e))
<1>0. PICK t : t = Append(s, e) OBVIOUS
<1>1. /\ t \in Seq(S) /\ Len(t) = Len(s) + 1 /\ Len(s) \in Nat /\ t[Len(s) + 1] = e
      /\ \A i \in 1 .. Len(s) : t[i] = s[i]
  BY <1>0, AppendProperties
<1>2. Range(s) = {s[i] : i \in 1 .. Len(s)} /\ Range(t) = {t[i] : i \in 1 .. Len(t)}
  BY <1>1 DEF Range
<1>3. 1 .. Len(t) = (1 .. Len(s)) \cup {Len(s) + 1} BY <1>1
<1>4. Range(t) = Range(s) \cup {e} BY <1>1, <1>2, <1>3
<1> QED BY <1>0, <1>1, <1>4 DEF Appended

\* The identity is listed as it is in the state: a pool delegates to nobody.
LEMMA ListsStep ==
    ASSUME NEW w \in NodeStates, NEW n \in 1 .. Identities, NEW a, a = NodeAddresses[n], NEW acc \in FieldsRow,
           ListsOK(w, n - 1, acc), NEW x, x = Visit(w, a, acc)
    PROVE  /\ x.identities \in Seq(IdentityRow) /\ x.identitiesPerAddress \subseteq IdentityRow
           /\ x.delegatees \subseteq Addr /\ ListsOK(w, n, x)
<1>1. a \in Addr /\ a \notin Seen(n - 1) /\ Seen(n) = Seen(n - 1) \cup {a} /\ Node(w, a)
  BY AddressFacts, NodeFacts
<1>2. PICK ds : ds = Met(w, a, acc) OBVIOUS
<1>3. PICK id : id = ListedAs(w, a, ds) OBVIOUS
<1>0. AfterVisit(w, a, acc, x, ds, id) BY <1>2, <1>3, VisitIs
<1>4. /\ x.identities = IF w[a].validated THEN Append(acc.identities, id) ELSE acc.identities
      /\ x.identitiesPerAddress = IF w[a].validated THEN acc.identitiesPerAddress \cup {id}
                                  ELSE acc.identitiesPerAddress
      /\ x.delegatees = ds
  BY <1>0 DEF AfterVisit
<1>5. acc.identities \in Seq(IdentityRow) /\ acc.identitiesPerAddress \subseteq IdentityRow /\ acc.delegatees \subseteq Addr
  BY DEF FieldsRow
<1>6. ds \subseteq Addr /\ \A d \in ds : \E b \in Addr : w[b].delegatee = d
  BY <1>1, <1>2, <1>5 DEF Node, ListsOK, Met
<1>7. id = Own(w, a)
  <2>1. ASSUME a \in ds PROVE w[a].delegatee = NoAddress
    <3>1. PICK b \in Addr : w[b].delegatee = a BY <1>6, <2>1
    <3>2. Node(w, b) /\ a # NoAddress BY <1>1, NodeFacts, OnlineIdentitiesAssumption
    <3> QED BY <3>1, <3>2 DEF Node
  <2> QED BY <1>3, <2>1 DEF Own, ListedAs
<1>8. id \in IdentityRow BY <1>1, <1>7 DEF Own, IdentityRow, Node
<1>9. CASE ~w[a].validated
  <2>1. x.identities = acc.identities /\ x.identitiesPerAddress = acc.identitiesPerAddress BY <1>4, <1>9
  <2>2. OwnOf(w, Seen(n)) = OwnOf(w, Seen(n - 1)) BY <1>1, <1>9 DEF OwnOf
  <2>3. ListsOK(w, n, x)
    <3>1. PICK ids : ids = acc.identities OBVIOUS
    <3>2. PICK per : per = acc.identitiesPerAddress OBVIOUS
    <3>3. Range(ids) = per /\ per = OwnOf(w, Seen(n)) /\ \A i, j \in 1 .. Len(ids) : i # j => ids[i] # ids[j]
      BY <2>2, <3>1, <3>2 DEF ListsOK
    <3>4. x.identities = ids /\ x.identitiesPerAddress = per /\ x.delegatees = ds BY <1>4, <2>1, <3>1, <3>2
    <3> QED BY <1>6, <3>3, <3>4 DEF ListsOK
  <2> QED BY <1>4, <1>5, <1>6, <2>1, <2>3
<1>10. CASE w[a].validated
  <2>1. PICK s : s = acc.identities OBVIOUS
  <2>2. PICK t : t = x.identities OBVIOUS
  <2>3. s \in Seq(IdentityRow) /\ t = Append(s, id) BY <1>4, <1>5, <1>10, <2>1, <2>2
  <2>4. /\ t \in Seq(IdentityRow) /\ Len(t) = Len(s) + 1 /\ Len(s) \in Nat /\ t[Len(s) + 1] = id
        /\ \A i \in 1 .. Len(s) : t[i] = s[i]
        /\ Range(t) = Range(s) \cup {id}
    <3>1. Appended(IdentityRow, s, id, Append(s, id)) BY <1>8, <2>3, RangeAppend
    <3>2. Appended(IdentityRow, s, id, t) BY <2>3, <3>1
    <3> QED BY <3>2 DEF Appended
  <2>5. \A i \in 1 .. Len(s) : s[i] \in Range(s) BY <2>3, RangeFinite
  <2>6. 1 .. Len(t) = (1 .. Len(s)) \cup {Len(s) + 1} BY <2>4
  <2>7. Range(t) = Range(s) \cup {id} BY <2>4
  <2>8. OwnOf(w, Seen(n)) = OwnOf(w, Seen(n - 1)) \cup {id} BY <1>1, <1>7, <1>10 DEF OwnOf
  <2>9. \A r \in Range(s) : r.address # a
    BY <1>1, <2>1 DEF ListsOK, OwnOf, Own
  <2>10. id.address = a BY <1>3 DEF ListedAs
  <2>11. \A i \in 1 .. Len(s) : s[i] # id BY <2>5, <2>9, <2>10
  <2>12. \A i, j \in 1 .. Len(s) : i # j => s[i] # s[j] BY <2>1 DEF ListsOK
  <2>13. \A i, j \in 1 .. Len(t) : i # j => t[i] # t[j] BY <2>4, <2>6, <2>11, <2>12
  <2>14. Range(s) = acc.identitiesPerAddress /\ acc.identitiesPerAddress = OwnOf(w, Seen(n - 1))
    BY <2>1 DEF ListsOK
  <2>15. x.identitiesPerAddress = acc.identitiesPerAddress \cup {id} BY <1>4, <1>10
  <2>16. ListsOK(w, n, x)
    <3>1. PICK per : per = x.identitiesPerAddress OBVIOUS
    <3>2. Range(t) = per /\ per = OwnOf(w, Seen(n)) BY <2>7, <2>8, <2>14, <2>15, <3>1
    <3>3. x.identities = t /\ x.identitiesPerAddress = per /\ x.delegatees = ds BY <1>4, <2>2, <3>1
    <3> QED BY <1>6, <2>13, <3>2, <3>3 DEF ListsOK
  <2> QED BY <1>4, <1>5, <1>6, <1>8, <2>2, <2>4, <2>15, <2>16
<1> QED BY <1>9, <1>10

\* The count and the online validators grow together.
LEMMA OnlineStep ==
    ASSUME NEW w \in NodeStates, NEW n \in 1 .. Identities, NEW a, a = NodeAddresses[n], NEW acc \in FieldsRow,
           OnlineOK(w, n - 1, acc), NEW x, x = Visit(w, a, acc)
    PROVE  /\ x.validators \in Seq(ValidatorRow) /\ x.onlineValidators \in Seq(ValidatorRow)
           /\ x.onlineCount \in Int /\ OnlineOK(w, n, x)
<1>1. a \in Addr /\ a \notin Seen(n - 1) /\ Seen(n) = Seen(n - 1) \cup {a} /\ Node(w, a)
  BY AddressFacts, NodeFacts
<1>2. PICK v : v = buildValidator(w, a) OBVIOUS
<1>3. PICK c : c = IF IsPool(w, a) THEN PoolSize(w, a) ELSE 1 OBVIOUS
<1>4. /\ x.onlineCount = acc.onlineCount + (IF ~w[a].online THEN 0 ELSE c)
      /\ x.validators = acc.validators \o v
      /\ x.onlineValidators = acc.onlineValidators \o (IF w[a].online THEN v ELSE << >>)
  <2>1. PICK ds : ds = Met(w, a, acc) OBVIOUS
  <2>2. PICK id : id = ListedAs(w, a, ds) OBVIOUS
  <2>3. AfterVisit(w, a, acc, x, ds, id) BY <2>1, <2>2, VisitIs
  <2> QED BY <1>2, <1>3, <2>3 DEF AfterVisit
<1>5. PICK s : s = acc.onlineValidators OBVIOUS
<1>6. s \in Seq(ValidatorRow) /\ acc.validators \in Seq(ValidatorRow) /\ acc.onlineCount \in Int
  BY <1>5 DEF FieldsRow
<1>7. v \in Seq(ValidatorRow) BY <1>1, <1>2, ValidatorFacts
<1>8. x.validators \in Seq(ValidatorRow) BY <1>4, <1>6, <1>7
<1>9. c \in Nat BY <1>3, SizeFacts
<1>10. CASE ~w[a].online
  <2>1. x.onlineValidators = s BY <1>4, <1>5, <1>6, <1>10
  <2>2. x.onlineCount = acc.onlineCount BY <1>4, <1>6, <1>10
  <2> QED BY <1>1, <1>5, <1>6, <1>8, <2>1, <2>2 DEF OnlineOK
<1>11. CASE w[a].online
  <2>1. PICK r \in ValidatorRow : v = <<r>> /\ r.address = a /\ r.size = c
    BY <1>1, <1>2, <1>3, <1>11, ValidatorFacts
  <2>2. PICK t : t = x.onlineValidators OBVIOUS
  <2>3. t = s \o <<r>> BY <1>4, <1>5, <1>11, <2>1, <2>2
  <2>4. t \in Seq(ValidatorRow) BY <1>6, <2>3
  <2>5. Range(t) = Range(s) \cup {r}
    <3>1. t = Append(s, r) BY <1>6, <2>3, AppendIsConcat
    <3>2. Appended(ValidatorRow, s, r, Append(s, r)) BY <1>6, RangeAppend
    <3> QED BY <3>1, <3>2 DEF Appended
  <2>6. PICK R : R = Range(s) OBVIOUS
  <2>7. IsFiniteSet(R) /\ R \subseteq ValidatorRow BY <1>6, <2>6, RangeFinite
  <2>8. r \notin R BY <1>1, <1>5, <2>1, <2>6 DEF OnlineOK
  <2>9. PICK f : f = SizeFn OBVIOUS
  <2>10. \A y \in ValidatorRow : f[y] = y.size /\ f[y] \in Int BY <2>9 DEF SizeFn, ValidatorRow
  <2>11. \A y \in R \cup {r} : f[y] \in Int BY <2>7, <2>10
  <2>12. SumFunctionOnSet(f, R \cup {r}) = SumFunctionOnSet(f, R) + f[r] BY <2>7, <2>8, <2>11, SumAdd
  <2>13. f[r] = c BY <2>1, <2>10
  <2>14. acc.onlineCount = SumFunctionOnSet(f, R) BY <1>5, <2>6, <2>9 DEF OnlineOK
  <2>15. x.onlineCount = SumFunctionOnSet(f, R \cup {r}) BY <1>4, <1>11, <2>12, <2>13, <2>14
  <2>16. x.onlineCount \in Int BY <1>4, <1>6, <1>9, <1>11
  <2>17. \A y \in Range(t) : y.address \in Seen(n) BY <1>1, <1>5, <2>1, <2>5, <2>6 DEF OnlineOK
  <2>18. x.onlineCount = SumFunctionOnSet(SizeFn, Range(t)) BY <2>5, <2>6, <2>9, <2>15
  <2> QED BY <1>8, <2>2, <2>4, <2>16, <2>17, <2>18 DEF OnlineOK
<1> QED BY <1>1, <1>10, <1>11

\* What has been built at each identity up to the m-th.
IsRun(g, w, m) == g = [n \in 0 .. m |-> IF n = 0 THEN Nothing ELSE Visit(w, NodeAddresses[n], g[n - 1])]

\* The recursion over the identities is a function.
LEMMA RunExists == ASSUME NEW w, NEW m \in Nat PROVE \E g : IsRun(g, w, m)
<1> DEFINE P == {n \in Nat : \E g : IsRun(g, w, n)}
<1>1. 0 \in P
  <2>1. PICK g : g = [n \in 0 .. 0 |-> Nothing] OBVIOUS
  <2>2. \A n \in 0 .. 0 : n = 0 OBVIOUS
  <2>3. IsRun(g, w, 0) BY <2>1, <2>2 DEF IsRun
  <2> QED BY <2>3
<1>2. ASSUME NEW n \in Nat, n \in P PROVE n + 1 \in P
  <2>1. PICK g : IsRun(g, w, n) BY <1>2
  <2>2. PICK v : v = Visit(w, NodeAddresses[n + 1], g[n]) OBVIOUS
  <2>3. PICK h : h = [k \in 0 .. n + 1 |-> IF k = n + 1 THEN v ELSE g[k]] OBVIOUS
  <2>4. ASSUME NEW k \in 0 .. n + 1
        PROVE  h[k] = IF k = 0 THEN Nothing ELSE Visit(w, NodeAddresses[k], h[k - 1])
    <3>1. CASE k = n + 1
      <4>1. k # 0 /\ k - 1 = n /\ n \in 0 .. n + 1 /\ n # n + 1 BY <3>1
      <4>2. h[k] = v /\ h[k - 1] = g[n] BY <2>3, <3>1, <4>1
      <4> QED BY <2>2, <3>1, <4>1, <4>2
    <3>2. CASE k # n + 1
      <4>1. k \in 0 .. n /\ h[k] = g[k] BY <2>3, <3>2
      <4>2. g[k] = IF k = 0 THEN Nothing ELSE Visit(w, NodeAddresses[k], g[k - 1]) BY <2>1, <4>1 DEF IsRun
      <4>3. k # 0 => k - 1 \in 0 .. n + 1 /\ k - 1 # n + 1 BY <4>1
      <4>4. k # 0 => h[k - 1] = g[k - 1] BY <2>3, <4>3
      <4> QED BY <4>1, <4>2, <4>4
    <3> QED BY <3>1, <3>2
  <2>5. DOMAIN h = 0 .. n + 1 /\ h = [k \in 0 .. n + 1 |-> h[k]] BY <2>3
  <2>6. IsRun(h, w, n + 1) BY <2>4, <2>5 DEF IsRun
  <2> QED BY <2>6
<1>3. Nat \subseteq P
  <2> HIDE DEF P
  <2> QED BY <1>1, <1>2, NatInd
<1> QED BY <1>3

\* Visited is that function.
LEMMA VisitedIs == ASSUME NEW w PROVE IsRun(Visited(w), w, Identities)
<1>1. \E g : IsRun(g, w, Identities) BY AddressFacts, RunExists
<1>2. Visited(w) = CHOOSE g : IsRun(g, w, Identities) BY DEF Visited, IsRun, Identities
<1> QED BY <1>1, <1>2

AccOK(w, n, acc) ==
  /\ acc \in FieldsRow
  /\ StakingOK(acc.staking)
  /\ PoolsOK(w, n, acc.poolsPerAddress)
  /\ ListsOK(w, n, acc)
  /\ OnlineOK(w, n, acc)

\* No weights yet.
LEMMA NothingStaking == StakingOK(Nothing.staking)
<1>1. PICK st : st = Nothing.staking OBVIOUS
<1>2. st = [weight |-> 0, miners |-> << >>, minersWeight |-> 0, max |-> 0] BY <1>1 DEF Nothing
<1>5. << >> \in Seq(Nat) /\ Len(<< >>) = 0 OBVIOUS
<1>3. st \in StakingRow BY <1>2, <1>5 DEF StakingRow
<1>4. st.miners = << >> /\ st.minersWeight = 0 /\ st.weight = 0 /\ st.max = 0 BY <1>2
<1>6. SumFunction(<< >>) = 0 BY <1>5, SumOfList
<1>7. Ascending(<< >>) BY DEF Ascending
<1> QED BY <1>1, <1>3, <1>4, <1>6, <1>7 DEF StakingOK

\* Before the first identity.
LEMMA NothingOK == ASSUME NEW w \in NodeStates PROVE AccOK(w, 0, Nothing)
<1>1. Nothing \in FieldsRow
  <2>1. << >> \in Seq(IdentityRow) /\ << >> \in Seq(ValidatorRow) /\ << >> \in Seq(Nat) OBVIOUS
  <2>2. [weight |-> 0, miners |-> << >>, minersWeight |-> 0, max |-> 0] \in StakingRow BY <2>1 DEF StakingRow
  <2> QED BY <2>1, <2>2 DEF Nothing, FieldsRow
<1>2. IsFiniteSet({}) BY FS_EmptySet
<1>3. \A f : SumFunctionOnSet(f, {}) = 0 BY <1>2, SumUnfold
<1>4. StakingOK(Nothing.staking) BY NothingStaking
<1>5. PoolsOK(w, 0, Nothing.poolsPerAddress)
  <2>1. Nothing.poolsPerAddress = {} BY DEF Nothing
  <2>2. \A q : Delegators(w, 0, q) = {} BY AddressFacts DEF Delegators
  <2>3. \A q : TotalOf(w, 0, q) = 0 /\ ValidatedOf(w, 0, q) = 0 BY <1>3, <2>2 DEF TotalOf, ValidatedOf
  <2>4. \A q : PoolOf({}, q) = {} BY DEF PoolOf
  <2> QED BY <2>1, <2>3, <2>4 DEF PoolsOK
<1>6. Range(<< >>) = {} BY DEF Range
<1>7. ListsOK(w, 0, Nothing)
  <2>1. Nothing.identities = << >> /\ Nothing.identitiesPerAddress = {} /\ Nothing.delegatees = {} BY DEF Nothing
  <2>2. OwnOf(w, Seen(0)) = {} BY AddressFacts DEF OwnOf
  <2>3. Len(<< >>) = 0 OBVIOUS
  <2> QED BY <1>6, <2>1, <2>2, <2>3 DEF ListsOK
<1>8. OnlineOK(w, 0, Nothing)
  <2>1. Nothing.onlineValidators = << >> /\ Nothing.onlineCount = 0 BY DEF Nothing
  <2> QED BY <1>3, <1>6, <2>1 DEF OnlineOK
<1> QED BY <1>1, <1>4, <1>5, <1>7, <1>8 DEF AccOK

\* One identity more.
LEMMA VisitOK ==
    ASSUME NEW w \in NodeStates, NEW n \in 1 .. Identities, NEW a, a = NodeAddresses[n], NEW acc, AccOK(w, n - 1, acc),
           NEW x, x = Visit(w, a, acc)
    PROVE  AccOK(w, n, x)
<1>0. acc \in FieldsRow /\ a \in Addr BY AddressFacts DEF AccOK
<1>1. PICK ds : ds = Met(w, a, acc) OBVIOUS
<1>2. PICK id : id = ListedAs(w, a, ds) OBVIOUS
<1>3. AfterVisit(w, a, acc, x, ds, id) BY <1>0, <1>1, <1>2, VisitIs
<1>4. /\ x.identities \in Seq(IdentityRow) /\ x.identitiesPerAddress \subseteq IdentityRow
      /\ x.delegatees \subseteq Addr /\ ListsOK(w, n, x)
  BY <1>0, ListsStep DEF AccOK
<1>5. /\ x.validators \in Seq(ValidatorRow) /\ x.onlineValidators \in Seq(ValidatorRow)
      /\ x.onlineCount \in Int /\ OnlineOK(w, n, x)
  BY <1>0, OnlineStep DEF AccOK
<1>6. StakingOK(x.staking)
  <2>1. PICK st : st = acc.staking OBVIOUS
  <2>2. StakingOK(st) BY <2>1 DEF AccOK
  <2>3. StakingOK(AddStaking(w, a, st)) BY <1>0, <2>2, StakingStep
  <2>4. x.staking = AddStaking(w, a, st) BY <1>3, <2>1 DEF AfterVisit
  <2> QED BY <2>3, <2>4
<1>7. PoolsOK(w, n, x.poolsPerAddress)
  <2>1. PICK ps : ps = acc.poolsPerAddress OBVIOUS
  <2>2. PoolsOK(w, n - 1, ps) BY <2>1 DEF AccOK
  <2>3. PoolsOK(w, n, AddToPool(w, a, ps)) BY <2>2, PoolsStep
  <2>4. x.poolsPerAddress = AddToPool(w, a, ps) BY <1>3, <2>1 DEF AfterVisit
  <2> QED BY <2>3, <2>4
<1>8. x.forkCommitteeSize \in Nat
  <2>1. x.forkCommitteeSize = acc.forkCommitteeSize BY <1>3 DEF AfterVisit
  <2> QED BY <1>0, <2>1 DEF FieldsRow
<1>9. x.staking \in StakingRow /\ x.poolsPerAddress \subseteq PoolRow BY <1>6, <1>7 DEF StakingOK, PoolsOK
<1>10. x = [identities |-> x.identities, identitiesPerAddress |-> x.identitiesPerAddress,
            onlineCount |-> x.onlineCount, validators |-> x.validators,
            onlineValidators |-> x.onlineValidators, staking |-> x.staking,
            forkCommitteeSize |-> x.forkCommitteeSize, poolsPerAddress |-> x.poolsPerAddress,
            delegatees |-> x.delegatees] BY <1>3 DEF AfterVisit
<1>11. x \in FieldsRow BY <1>4, <1>5, <1>8, <1>9, <1>10 DEF FieldsRow
<1> QED BY <1>4, <1>5, <1>6, <1>7, <1>11 DEF AccOK

\* After the last identity.
LEMMA VisitedOK == ASSUME NEW w \in NodeStates PROVE AccOK(w, Identities, Visited(w)[Identities])
<1>1. PICK g : g = Visited(w) OBVIOUS
<1>2. IsRun(g, w, Identities) /\ Identities \in Nat BY <1>1, VisitedIs, AddressFacts
<1>3. \A n \in 0 .. Identities : g[n] = IF n = 0 THEN Nothing ELSE Visit(w, NodeAddresses[n], g[n - 1])
  BY <1>2 DEF IsRun
<1> DEFINE P == {n \in Nat : n <= Identities => AccOK(w, n, g[n])}
<1>4. 0 \in P
  <2>1. 0 \in 0 .. Identities BY <1>2
  <2>2. g[0] = Nothing BY <1>3, <2>1
  <2> QED BY <2>2, NothingOK
<1>5. ASSUME NEW n \in Nat, n \in P PROVE n + 1 \in P
  <2>1. SUFFICES ASSUME n + 1 <= Identities PROVE AccOK(w, n + 1, g[n + 1]) OBVIOUS
  <2>2. n + 1 \in 1 .. Identities /\ n + 1 \in 0 .. Identities /\ (n + 1) - 1 = n /\ n <= Identities /\ n + 1 # 0 BY <1>2, <2>1
  <2>3. PICK a : a = NodeAddresses[n + 1] OBVIOUS
  <2>4. PICK acc : acc = g[n] OBVIOUS
  <2>5. PICK x : x = Visit(w, a, acc) OBVIOUS
  <2>6. PICK m : m = n + 1 OBVIOUS
  <2>7. AccOK(w, m - 1, acc) BY <1>5, <2>2, <2>4, <2>6
  <2>8. m \in 1 .. Identities /\ a = NodeAddresses[m] BY <2>2, <2>3, <2>6
  <2>9. AccOK(w, m, x) BY <2>5, <2>7, <2>8, VisitOK
  <2>10. g[n + 1] = x BY <1>3, <2>2, <2>3, <2>4, <2>5
  <2> QED BY <2>6, <2>9, <2>10
<1>6. Identities \in P
  <2> HIDE DEF P
  <2>1. Nat \subseteq P BY <1>4, <1>5, NatInd
  <2> QED BY <1>2, <2>1
<1> QED BY <1>1, <1>2, <1>6

-----------------------------------------------------------------------------
(* What update builds: the lists in their order. *)

Entry == IdentityRow \cup ValidatorRow

AfterSort(w, acc, x, ids, vals, onls) ==
  /\ x = [identities |-> ids, identitiesPerAddress |-> acc.identitiesPerAddress,
          onlineCount |-> acc.onlineCount, validators |-> vals, onlineValidators |-> onls,
          staking |-> acc.staking, forkCommitteeSize |-> ForkCommitteeSize(w),
          poolsPerAddress |-> acc.poolsPerAddress, delegatees |-> acc.delegatees]
  /\ ids = Descending(acc.identities, Activities(w, acc.identities))
  /\ vals = Descending(acc.validators, Sizes(acc.validators))
  /\ onls = Descending(acc.onlineValidators, Sizes(acc.onlineValidators))

\* What the sorts leave.
LEMMA SortedIs ==
    ASSUME NEW w, NEW acc \in FieldsRow
    PROVE  \E ids, vals, onls : AfterSort(w, acc, Sorted(w, acc), ids, vals, onls)
<1>1. PICK ids : ids = Descending(acc.identities, Activities(w, acc.identities))
  OBVIOUS
<1>2. PICK vals : vals = Descending(acc.validators, Sizes(acc.validators))
  OBVIOUS
<1>3. PICK onls : onls = Descending(acc.onlineValidators, Sizes(acc.onlineValidators))
  OBVIOUS
<1>4. PICK x : x = Sorted(w, acc) OBVIOUS
<1>5. /\ x = [identities |-> x.identities, identitiesPerAddress |-> x.identitiesPerAddress,
              onlineCount |-> x.onlineCount, validators |-> x.validators,
              onlineValidators |-> x.onlineValidators, staking |-> x.staking,
              forkCommitteeSize |-> x.forkCommitteeSize, poolsPerAddress |-> x.poolsPerAddress,
              delegatees |-> x.delegatees]
      /\ x.identitiesPerAddress = acc.identitiesPerAddress /\ x.onlineCount = acc.onlineCount
      /\ x.staking = acc.staking /\ x.poolsPerAddress = acc.poolsPerAddress /\ x.delegatees = acc.delegatees
      /\ x.forkCommitteeSize = ForkCommitteeSize(w)
      /\ x.identities = Descending(acc.identities, Activities(w, acc.identities))
      /\ x.validators = Descending(acc.validators, Sizes(acc.validators))
      /\ x.onlineValidators = Descending(acc.onlineValidators, Sizes(acc.onlineValidators))
  BY <1>4 DEF Sorted, FieldsRow
<1> QED BY <1>1, <1>2, <1>3, <1>4, <1>5 DEF AfterSort

\* Other places, the same entries.
LEMMA SameRange ==
    ASSUME NEW S, NEW s \in Seq(S), NEW d \in Seq(S), SameEntries(d, s)
    PROVE  /\ Range(d) = Range(s)
           /\ (\A i, j \in 1 .. Len(s) : i # j => s[i] # s[j]) => (\A i, j \in 1 .. Len(d) : i # j => d[i] # d[j])
<1>1. PICK p \in [1 .. Len(s) -> 1 .. Len(s)] :
        /\ \A i \in 1 .. Len(s) : d[i] = s[p[i]]
        /\ \A i, j \in 1 .. Len(s) : i # j => p[i] # p[j]
        /\ \A k \in 1 .. Len(s) : \E i \in 1 .. Len(s) : p[i] = k
  BY DEF SameEntries
<1>2. Len(d) = Len(s) /\ DOMAIN d = 1 .. Len(s) /\ DOMAIN s = 1 .. Len(s) BY DEF SameEntries
<1>3. \A i \in 1 .. Len(s) : p[i] \in 1 .. Len(s) OBVIOUS
<1>4. \A y : y \in Range(d) <=> \E i \in 1 .. Len(s) : y = d[i] BY <1>2 DEF Range
<1>5. \A y : y \in Range(s) <=> \E i \in 1 .. Len(s) : y = s[i] BY <1>2 DEF Range
<1>6. ASSUME NEW y \in Range(d) PROVE y \in Range(s)
  <2>1. PICK i \in 1 .. Len(s) : y = d[i] BY <1>4
  <2>2. y = s[p[i]] /\ p[i] \in 1 .. Len(s) BY <1>1, <1>3, <2>1
  <2> QED BY <1>5, <2>2
<1>7. ASSUME NEW y \in Range(s) PROVE y \in Range(d)
  <2>1. PICK k \in 1 .. Len(s) : y = s[k] BY <1>5
  <2>2. PICK i \in 1 .. Len(s) : p[i] = k BY <1>1
  <2>3. y = d[i] BY <1>1, <2>1, <2>2
  <2> QED BY <1>4, <2>3
<1>8. Range(d) = Range(s) BY <1>6, <1>7
<1>9. ASSUME \A i, j \in 1 .. Len(s) : i # j => s[i] # s[j], NEW i \in 1 .. Len(s), NEW j \in 1 .. Len(s), i # j
      PROVE  d[i] # d[j]
  <2>1. p[i] # p[j] /\ p[i] \in 1 .. Len(s) /\ p[j] \in 1 .. Len(s) BY <1>1, <1>3, <1>9
  <2>2. s[p[i]] # s[p[j]] BY <1>9, <2>1
  <2> QED BY <1>1, <2>2
<1> QED BY <1>2, <1>8, <1>9

\* Sorting loses nothing.
LEMMA SortedOK ==
    ASSUME NEW w \in NodeStates, NEW acc, AccOK(w, Identities, acc)
    PROVE  AccOK(w, Identities, Sorted(w, acc))
<1>0. acc \in FieldsRow BY DEF AccOK
<1>1. PICK x : x = Sorted(w, acc) OBVIOUS
<1>2. PICK ids, vals, onls : AfterSort(w, acc, x, ids, vals, onls) BY <1>0, <1>1, SortedIs
<1>3. PICK s : s = acc.identities OBVIOUS
<1>4. PICK t : t = acc.onlineValidators OBVIOUS
<1>5. PICK u : u = acc.validators OBVIOUS
<1>6. s \in Seq(IdentityRow) /\ t \in Seq(ValidatorRow) /\ u \in Seq(ValidatorRow)
  BY <1>0, <1>3, <1>4, <1>5 DEF FieldsRow
<1>7. ids \in Seq(IdentityRow) /\ SameEntries(ids, s)
  <2>1. PICK key : key = Activities(w, s) OBVIOUS
  <2>7. \A i \in DOMAIN s : s[i] \in IdentityRow BY <1>6
  <2>2. \A i \in DOMAIN s : s[i].address \in Addr BY <2>7 DEF IdentityRow
  <2>3. \A i \in DOMAIN s : w[s[i].address].activity \in Nat BY <2>2, NodeFacts DEF Node
  <2>4. DOMAIN key = DOMAIN s /\ \A i \in DOMAIN s : key[i] \in Nat BY <2>1, <2>3 DEF Activities
  <2>5. Descending(s, key) \in Seq(IdentityRow) /\ SameEntries(Descending(s, key), s) BY <1>6, <2>4, SortedList
  <2>6. ids = Descending(s, key) BY <1>2, <1>3, <2>1 DEF AfterSort
  <2> QED BY <2>5, <2>6
<1>8. onls \in Seq(ValidatorRow) /\ SameEntries(onls, t)
  <2>1. PICK key : key = Sizes(t) OBVIOUS
  <2>7. \A i \in DOMAIN t : t[i] \in ValidatorRow BY <1>6
  <2>2. \A i \in DOMAIN t : t[i].size \in Nat BY <2>7 DEF ValidatorRow
  <2>4. DOMAIN key = DOMAIN t /\ \A i \in DOMAIN t : key[i] \in Nat BY <2>1, <2>2 DEF Sizes
  <2>5. Descending(t, key) \in Seq(ValidatorRow) /\ SameEntries(Descending(t, key), t) BY <1>6, <2>4, SortedList
  <2>6. onls = Descending(t, key) BY <1>2, <1>4, <2>1 DEF AfterSort
  <2> QED BY <2>5, <2>6
<1>9. vals \in Seq(ValidatorRow)
  <2>1. PICK key : key = Sizes(u) OBVIOUS
  <2>7. \A i \in DOMAIN u : u[i] \in ValidatorRow BY <1>6
  <2>2. \A i \in DOMAIN u : u[i].size \in Nat BY <2>7 DEF ValidatorRow
  <2>4. DOMAIN key = DOMAIN u /\ \A i \in DOMAIN u : key[i] \in Nat BY <2>1, <2>2 DEF Sizes
  <2>5. Descending(u, key) \in Seq(ValidatorRow) /\ SameEntries(Descending(u, key), u) BY <1>6, <2>4, SortedList
  <2>6. vals = Descending(u, key) BY <1>2, <1>5, <2>1 DEF AfterSort
  <2> QED BY <2>5, <2>6
<1>10. PICK size : size = ForkCommitteeSize(w) OBVIOUS
<1>11. size \in Nat
  <2>1. IsFiniteSet({a \in Addr : w[a].online}) BY AddressFacts, FS_Subset
  <2> QED BY <1>10, <2>1, FS_CardinalityType DEF ForkCommitteeSize
<1>12. x = [identities |-> ids, identitiesPerAddress |-> acc.identitiesPerAddress,
            onlineCount |-> acc.onlineCount, validators |-> vals, onlineValidators |-> onls,
            staking |-> acc.staking, forkCommitteeSize |-> size,
            poolsPerAddress |-> acc.poolsPerAddress, delegatees |-> acc.delegatees]
  BY <1>2, <1>10 DEF AfterSort
<1>13. x \in FieldsRow BY <1>0, <1>7, <1>8, <1>9, <1>11, <1>12 DEF FieldsRow
<1>14. /\ x.identities = ids /\ x.identitiesPerAddress = acc.identitiesPerAddress
       /\ x.onlineCount = acc.onlineCount /\ x.onlineValidators = onls
       /\ x.staking = acc.staking /\ x.poolsPerAddress = acc.poolsPerAddress /\ x.delegatees = acc.delegatees
  BY <1>12
<1>15. /\ Range(ids) = Range(s)
       /\ (\A i, j \in 1 .. Len(s) : i # j => s[i] # s[j]) => (\A i, j \in 1 .. Len(ids) : i # j => ids[i] # ids[j])
  BY <1>6, <1>7, SameRange
<1>16. Range(onls) = Range(t) BY <1>6, <1>8, SameRange
<1>17. ListsOK(w, Identities, x)
  <2>1. /\ Range(s) = acc.identitiesPerAddress /\ acc.identitiesPerAddress = OwnOf(w, Seen(Identities))
        /\ \A i, j \in 1 .. Len(s) : i # j => s[i] # s[j]
        /\ \A d \in acc.delegatees : \E a \in Addr : w[a].delegatee = d
    BY <1>3 DEF AccOK, ListsOK
  <2> QED BY <1>14, <1>15, <2>1 DEF ListsOK
<1>18. OnlineOK(w, Identities, x)
  <2>1. /\ \A v \in Range(t) : v.address \in Seen(Identities)
        /\ acc.onlineCount = SumFunctionOnSet(SizeFn, Range(t))
    BY <1>4 DEF AccOK, OnlineOK
  <2> QED BY <1>14, <1>16, <2>1 DEF OnlineOK
<1>19. StakingOK(x.staking) /\ PoolsOK(w, Identities, x.poolsPerAddress) BY <1>14 DEF AccOK
<1> QED BY <1>1, <1>13, <1>17, <1>18, <1>19 DEF AccOK

\* The sum over a set of what a function of that set gives.
LEMMA SumFunctionIs == ASSUME NEW f PROVE SumFunction(f) = SumFunctionOnSet(f, DOMAIN f)
BY DEF SumFunction, FoldFunction, SumFunctionOnSet

\* The number online is the size of the online validators.
CountOK(count, s) == count = SumFunction([v \in Range(s) |-> v.size])

\* The count is the sum over the set of online validators.
LEMMA CountIs ==
    ASSUME NEW w, NEW n, NEW f \in FieldsRow, OnlineOK(w, n, f)
    PROVE  CountOK(f.onlineCount, f.onlineValidators)
<1>1. PICK R : R = Range(f.onlineValidators) OBVIOUS
<1>2. f.onlineValidators \in Seq(ValidatorRow) BY DEF FieldsRow
<1>3. IsFiniteSet(R) /\ R \subseteq ValidatorRow BY <1>1, <1>2, RangeFinite
<1>4. PICK g : g = [v \in R |-> v.size] OBVIOUS
<1>5. PICK h : h = SizeFn OBVIOUS
<1>6. \A v \in R : g[v] = h[v] BY <1>3, <1>4, <1>5 DEF SizeFn
<1>7. SumFunctionOnSet(g, R) = SumFunctionOnSet(h, R) BY <1>3, <1>6, SumSame
<1>8. SumFunction(g) = SumFunctionOnSet(g, R)
  <2>1. DOMAIN g = R BY <1>4
  <2>2. SumFunction(g) = SumFunctionOnSet(g, DOMAIN g) BY SumFunctionIs
  <2> QED BY <2>1, <2>2
<1>9. f.onlineCount = SumFunctionOnSet(h, R) BY <1>1, <1>5 DEF OnlineOK
<1>10. f.onlineCount = SumFunction(g) BY <1>7, <1>8, <1>9
<1> QED BY <1>1, <1>4, <1>10 DEF CountOK

\* A pool's total is the sum over its members.
LEMMA PoolSums ==
    ASSUME NEW w \in NodeStates, NEW f, AccOK(w, Identities, f), NEW p \in f.poolsPerAddress,
           NEW M, M = {a \in Addr : w[a].delegatee = p.address \/ a = p.address}
    PROVE  /\ p.total = SumFunction([a \in M |-> StakeOf(w, a)])
           /\ p.validated = SumFunction([a \in M |-> Validated(w, a)])
<1>1. PICK q : q = p.address OBVIOUS
<1>2. PoolsOK(w, Identities, f.poolsPerAddress) BY DEF AccOK
<1>3. p \in PoolRow /\ q \in Addr BY <1>1, <1>2 DEF PoolsOK, PoolRow
<1>4. p \in PoolOf(f.poolsPerAddress, q) BY <1>1 DEF PoolOf
<1>5. PoolOf(f.poolsPerAddress, q) = {[address |-> q, total |-> StakeOf(w, q) + TotalOf(w, Identities, q),
                                       validated |-> Validated(w, q) + ValidatedOf(w, Identities, q)]}
  BY <1>2, <1>3, <1>4 DEF PoolsOK
<1>6. p.total = StakeOf(w, q) + TotalOf(w, Identities, q) /\ p.validated = Validated(w, q) + ValidatedOf(w, Identities, q)
  <2>1. p = [address |-> q, total |-> StakeOf(w, q) + TotalOf(w, Identities, q),
             validated |-> Validated(w, q) + ValidatedOf(w, Identities, q)] BY <1>4, <1>5
  <2> QED BY <2>1
<1>7. PICK D : D = Delegators(w, Identities, q) OBVIOUS
<1>8. D = {a \in Addr : w[a].delegatee = q} BY <1>7, AddressFacts DEF Delegators
<1>9. q \notin D
  <2>1. Node(w, q) /\ q # NoAddress BY <1>3, NodeFacts, OnlineIdentitiesAssumption
  <2> QED BY <1>8, <2>1 DEF Node
<1>10. M = D \cup {q} BY <1>1, <1>3, <1>8
<1>11. IsFiniteSet(D) /\ D \subseteq Addr BY <1>8, AddressFacts, FS_Subset
<1>12. ASSUME NEW g, \A x \in Addr : g[x] \in Nat
       PROVE  SumFunctionOnSet(g, M) = SumFunctionOnSet(g, D) + g[q] /\ SumFunctionOnSet(g, D) \in Int
  <2>1. \A x \in D \cup {q} : g[x] \in Int BY <1>3, <1>11, <1>12
  <2>2. SumFunctionOnSet(g, D \cup {q}) = SumFunctionOnSet(g, D) + g[q] BY <1>9, <1>11, <2>1, SumAdd
  <2>3. \A x \in D : g[x] \in Int BY <2>1
  <2>4. SumFunctionOnSet(g, D) \in Int BY <1>11, <2>3, SumInt
  <2> QED BY <1>10, <2>2, <2>4
<1>13. IsFiniteSet(M) /\ M \subseteq Addr BY <1>3, <1>10, <1>11, FS_AddElement
<1>14. p.total = SumFunction([a \in M |-> StakeOf(w, a)])
  <2>1. PICK g : g = StakeFn(w) OBVIOUS
  <2>2. \A x \in Addr : g[x] = StakeOf(w, x) /\ g[x] \in Nat BY <2>1, StakeFacts DEF StakeFn
  <2>3. SumFunctionOnSet(g, M) = SumFunctionOnSet(g, D) + g[q] /\ SumFunctionOnSet(g, D) \in Int BY <1>12, <2>2
  <2>4. PICK h : h = [a \in M |-> StakeOf(w, a)] OBVIOUS
  <2>5. DOMAIN h = M /\ \A x \in M : h[x] = g[x] BY <1>13, <2>2, <2>4
  <2>6. SumFunctionOnSet(h, M) = SumFunctionOnSet(g, M) BY <1>13, <2>5, SumSame
  <2>7. SumFunction(h) = SumFunctionOnSet(h, M)
    <3>1. SumFunction(h) = SumFunctionOnSet(h, DOMAIN h) BY SumFunctionIs
    <3> QED BY <2>5, <3>1
  <2>8. TotalOf(w, Identities, q) = SumFunctionOnSet(g, D) BY <1>7, <2>1 DEF TotalOf
  <2>9. g[q] = StakeOf(w, q) /\ g[q] \in Nat BY <1>3, <2>2
  <2>10. p.total = SumFunctionOnSet(g, D) + g[q] BY <1>6, <2>3, <2>8, <2>9
  <2> QED BY <2>3, <2>4, <2>6, <2>7, <2>10
<1>15. p.validated = SumFunction([a \in M |-> Validated(w, a)])
  <2>1. PICK g : g = ValidatedFn(w) OBVIOUS
  <2>2. \A x \in Addr : g[x] = Validated(w, x) /\ g[x] \in Nat BY <2>1, StakeFacts DEF ValidatedFn
  <2>3. SumFunctionOnSet(g, M) = SumFunctionOnSet(g, D) + g[q] /\ SumFunctionOnSet(g, D) \in Int BY <1>12, <2>2
  <2>4. PICK h : h = [a \in M |-> Validated(w, a)] OBVIOUS
  <2>5. DOMAIN h = M /\ \A x \in M : h[x] = g[x] BY <1>13, <2>2, <2>4
  <2>6. SumFunctionOnSet(h, M) = SumFunctionOnSet(g, M) BY <1>13, <2>5, SumSame
  <2>7. SumFunction(h) = SumFunctionOnSet(h, M)
    <3>1. SumFunction(h) = SumFunctionOnSet(h, DOMAIN h) BY SumFunctionIs
    <3> QED BY <2>5, <3>1
  <2>8. ValidatedOf(w, Identities, q) = SumFunctionOnSet(g, D) BY <1>7, <2>1 DEF ValidatedOf
  <2>9. g[q] = Validated(w, q) /\ g[q] \in Nat BY <1>3, <2>2
  <2>10. p.validated = SumFunctionOnSet(g, D) + g[q] BY <1>6, <2>3, <2>8, <2>9
  <2> QED BY <2>3, <2>4, <2>6, <2>7, <2>10
<1> QED BY <1>14, <1>15

MatchesState(w, f) ==
    /\ Range(f.identities) = f.identitiesPerAddress
    /\ f.identitiesPerAddress = {[address |-> a, delegatee |-> w[a].delegatee] :
                                   a \in {b \in Addr : w[b].validated}}
    /\ Len(f.identities) = Cardinality(f.identitiesPerAddress)
    /\ \A p \in f.poolsPerAddress :
         LET members == {a \in Addr : w[a].delegatee = p.address \/ a = p.address} IN
         /\ p.total = SumFunction([a \in members |-> StakeOf(w, a)])
         /\ p.validated = SumFunction([a \in members |-> Validated(w, a)])

\* So the lists match the state.
LEMMA AccMatches ==
    ASSUME NEW w \in NodeStates, NEW f, AccOK(w, Identities, f)
    PROVE  MatchesState(w, f)
<1>1. f \in FieldsRow /\ ListsOK(w, Identities, f) BY DEF AccOK
<1>2. PICK s : s = f.identities OBVIOUS
<1>3. s \in Seq(IdentityRow) BY <1>1, <1>2 DEF FieldsRow
<1>4. /\ Range(s) = f.identitiesPerAddress /\ f.identitiesPerAddress = OwnOf(w, Seen(Identities))
      /\ \A i, j \in 1 .. Len(s) : i # j => s[i] # s[j]
  BY <1>1, <1>2 DEF ListsOK
<1>5. Cardinality(Range(s)) = Len(s) BY <1>3, <1>4, RangeFinite
<1>6. OwnOf(w, Seen(Identities)) = {[address |-> a, delegatee |-> w[a].delegatee] : a \in {b \in Addr : w[b].validated}}
  BY AddressFacts DEF OwnOf, Own
<1>7. ASSUME NEW p \in f.poolsPerAddress
      PROVE  LET members == {a \in Addr : w[a].delegatee = p.address \/ a = p.address} IN
             /\ p.total = SumFunction([a \in members |-> StakeOf(w, a)])
             /\ p.validated = SumFunction([a \in members |-> Validated(w, a)])
  <2>1. PICK M : M = {a \in Addr : w[a].delegatee = p.address \/ a = p.address} OBVIOUS
  <2>2. /\ p.total = SumFunction([a \in M |-> StakeOf(w, a)])
        /\ p.validated = SumFunction([a \in M |-> Validated(w, a)])
    BY <2>1, PoolSums
  <2> QED BY <2>1, <2>2
<1>8. Range(f.identities) = f.identitiesPerAddress /\ Len(f.identities) = Cardinality(f.identitiesPerAddress)
  BY <1>2, <1>4, <1>5
<1>9. f.identitiesPerAddress = {[address |-> a, delegatee |-> w[a].delegatee] : a \in {b \in Addr : w[b].validated}}
  BY <1>4, <1>6
<1> QED BY <1>7, <1>8, <1>9 DEF MatchesState

-----------------------------------------------------------------------------
(* Reading page by page. *)

\* A client that has read one version of a list only has read it up to its token.
ReadSoFar(c, version, all) ==
  /\ c.token \in Nat /\ c.got \in Seq(Seq(Entry)) /\ c.got # << >> /\ c.of # {} /\ c.of \subseteq 0 .. version
  /\ \A i \in 2 .. Len(c.got) : c.got[i] = << >> => \E x, y \in c.of : x # y
  /\ c.of = {version} => /\ FlattenSeq(c.got) = SubSeq(all, 1, IF c.token = 0 THEN Len(all) ELSE c.token)
                         /\ c.token = 0 \/ c.token < Len(all)

\* The page that is read.
Page(all, start) == SubSeq(all, start + 1, Min({Len(all), start + PageSize}))

\* A page continues the list and the token points behind it.
LEMMA PageFacts ==
    ASSUME NEW all \in Seq(Entry), NEW start \in Nat, NEW next, next = IF HasNext(all, start) THEN start + PageSize ELSE 0
    PROVE  /\ Page(all, start) \in Seq(Entry) /\ next \in Nat
           /\ start < Len(all) => Page(all, start) # << >>
           /\ start <= Len(all) => /\ SubSeq(all, 1, start) \o Page(all, start)
                                        = SubSeq(all, 1, IF next = 0 THEN Len(all) ELSE next)
                                   /\ next = 0 \/ next < Len(all)
<1>0. PageSize \in Nat /\ PageSize # 0 BY OnlineIdentitiesAssumption
<1>1. PICK L \in Nat : L = Len(all) OBVIOUS
<1>2. PICK m : m = Min({Len(all), start + PageSize}) OBVIOUS
<1>3. m = IF L <= start + PageSize THEN L ELSE start + PageSize
  <2>1. PICK S : S = {L, start + PageSize} OBVIOUS
  <2>2. \E x \in S : \A y \in S : x <= y BY <1>0, <2>1
  <2>3. Min(S) \in S /\ \A y \in S : Min(S) <= y BY <2>2 DEF Min
  <2> QED BY <1>0, <1>1, <1>2, <2>1, <2>3
<1>4. m \in Nat /\ m <= L BY <1>0, <1>3
<1>5. PICK page : page = Page(all, start) OBVIOUS
<1>6. page = SubSeq(all, start + 1, m) BY <1>2, <1>5 DEF Page
<1>7. start + 1 \in Int /\ m \in Int /\ \A i \in start + 1 .. m : all[i] \in Entry BY <1>1, <1>4
<1>8. page \in Seq(Entry) /\ Len(page) = IF start + 1 <= m THEN m - (start + 1) + 1 ELSE 0
  BY <1>6, <1>7, SubSeqProperties
<1>9. start < L => page # << >>
  <2>1. start < L => start + 1 <= m BY <1>0, <1>3
  <2>2. start < L => Len(page) > 0 BY <1>4, <1>8, <2>1
  <2> QED BY <1>8, <2>2
<1>10. next \in Nat BY <1>0
<1>11. next = IF L > start + PageSize THEN start + PageSize ELSE 0 BY <1>1 DEF HasNext
<1>12. (IF next = 0 THEN L ELSE next) = m /\ (next = 0 \/ next < L) BY <1>0, <1>3, <1>11
<1>13. ASSUME start <= L PROVE SubSeq(all, 1, start) \o page = SubSeq(all, 1, m)
  <2>1. 1 \in 1 .. L + 1 /\ start \in 1 - 1 .. L /\ m \in start .. L BY <1>0, <1>3, <1>13
  <2>2. SubSeq(all, 1, start) \o SubSeq(all, start + 1, m) = SubSeq(all, 1, m)
    BY <1>1, <2>1, ConcatAdjacentSubSeq
  <2> QED BY <1>6, <2>2
<1> QED BY <1>1, <1>5, <1>8, <1>9, <1>10, <1>12, <1>13

\* A client starts.
LEMMA FirstPage ==
    ASSUME NEW all \in Seq(Entry), NEW version \in Nat, NEW next, next = IF HasNext(all, 0) THEN 0 + PageSize ELSE 0,
           NEW c, c.token = next, c.got = << >> \o <<Page(all, 0)>>, c.of = {} \cup {version}
    PROVE  ReadSoFar(c, version, all)
<1>1. PICK page : page = Page(all, 0) OBVIOUS
<1>2. /\ page \in Seq(Entry) /\ next \in Nat
      /\ 0 <= Len(all) => /\ SubSeq(all, 1, 0) \o page = SubSeq(all, 1, IF next = 0 THEN Len(all) ELSE next)
                          /\ next = 0 \/ next < Len(all)
  BY <1>1, PageFacts
<1>3. 0 <= Len(all) OBVIOUS
<1>4. SubSeq(all, 1, 0) = << >> BY SubSeqEmpty
<1>5. << >> \o page = page BY <1>2, ConcatEmptySeq
<1>6. page = SubSeq(all, 1, IF next = 0 THEN Len(all) ELSE next) BY <1>2, <1>3, <1>4, <1>5
<1>7. << >> \in Seq(Seq(Entry)) OBVIOUS
<1>8. FlattenSeq(<< >> \o <<page>>) = page BY <1>2, <1>7, FlattenAppend
<1>9. PICK got : got = << >> \o <<page>> OBVIOUS
<1>10. got = <<page>> BY <1>9
<1>11. got \in Seq(Seq(Entry)) /\ Len(got) = 1 /\ got # << >> BY <1>2, <1>10
<1>12. c.got = got /\ c.of = {version} BY <1>1, <1>9
<1>13. FlattenSeq(got) = page BY <1>8, <1>9
<1>14. 2 .. 1 = {} OBVIOUS
<1>15. {version} \subseteq 0 .. version /\ {version} # {} OBVIOUS
<1> QED BY <1>2, <1>3, <1>6, <1>11, <1>12, <1>13, <1>14, <1>15 DEF ReadSoFar

\* A client goes on with its token.
LEMMA NextPage ==
    ASSUME NEW all \in Seq(Entry), NEW version \in Nat, NEW c, ReadSoFar(c, version, all), c.token # 0,
           NEW next, next = IF HasNext(all, c.token) THEN c.token + PageSize ELSE 0,
           NEW d, d.token = next, d.got = c.got \o <<Page(all, c.token)>>, d.of = c.of \cup {version}
    PROVE  ReadSoFar(d, version, all)
<1>0. PICK start \in Nat : start = c.token BY DEF ReadSoFar
<1>1. PICK page : page = Page(all, start) OBVIOUS
<1>2. /\ page \in Seq(Entry) /\ next \in Nat
      /\ start < Len(all) => page # << >>
      /\ start <= Len(all) => /\ SubSeq(all, 1, start) \o page = SubSeq(all, 1, IF next = 0 THEN Len(all) ELSE next)
                              /\ next = 0 \/ next < Len(all)
  BY <1>0, <1>1, PageFacts
<1>3. PICK got : got = c.got OBVIOUS
<1>4. got \in Seq(Seq(Entry)) /\ got # << >> BY <1>3 DEF ReadSoFar
<1>5. PICK all2 : all2 = got \o <<page>> OBVIOUS
<1>6. /\ all2 \in Seq(Seq(Entry)) /\ Len(all2) = Len(got) + 1 /\ Len(got) \in Nat
      /\ all2[Len(got) + 1] = page /\ \A i \in 1 .. Len(got) : all2[i] = got[i]
  <2>1. all2 = Append(got, page) BY <1>2, <1>4, <1>5, AppendIsConcat
  <2>2. Appended(Seq(Entry), got, page, Append(got, page)) BY <1>2, <1>4, RangeAppend
  <2> QED BY <2>1, <2>2 DEF Appended
<1>7. FlattenSeq(all2) = FlattenSeq(got) \o page BY <1>2, <1>4, <1>5, FlattenAppend
<1>8. PICK of : of = c.of OBVIOUS
<1>9. of # {} /\ of \subseteq 0 .. version BY <1>8 DEF ReadSoFar
<1>10. PICK new : new = of \cup {version} OBVIOUS
<1>11. new # {} /\ new \subseteq 0 .. version BY <1>9, <1>10
<1>12. CASE of = {version}
  <2>1. FlattenSeq(got) = SubSeq(all, 1, start) /\ start < Len(all)
    BY <1>0, <1>3, <1>8, <1>12 DEF ReadSoFar
  <2>2. start <= Len(all) BY <2>1
  <2>3. page # << >> BY <1>2, <2>1
  <2>4. FlattenSeq(all2) = SubSeq(all, 1, IF next = 0 THEN Len(all) ELSE next) /\ (next = 0 \/ next < Len(all))
    BY <1>2, <1>7, <2>1, <2>2
  <2>5. ASSUME NEW i \in 2 .. Len(all2), all2[i] = << >> PROVE \E x, y \in new : x # y
    <3>1. i # Len(got) + 1 BY <1>6, <2>3, <2>5
    <3>2. i \in 2 .. Len(got) /\ i \in 1 .. Len(got) BY <1>6, <3>1
    <3>3. got[i] = << >> BY <1>6, <2>5, <3>2
    <3>4. \E x, y \in of : x # y BY <1>3, <1>8, <3>2, <3>3 DEF ReadSoFar
    <3> QED BY <1>10, <3>4
  <2>6. d.got = all2 /\ d.of = new BY <1>0, <1>1, <1>3, <1>5, <1>8, <1>10
  <2>7. all2 # << >> BY <1>6
  <2> QED BY <1>2, <1>6, <1>11, <2>4, <2>5, <2>6, <2>7 DEF ReadSoFar
<1>13. CASE of # {version}
  <2>0. PICK v \in of : v # version BY <1>9, <1>13
  <2>1. \E x, y \in new : x # y
    <3>1. v \in new /\ version \in new BY <1>10
    <3> QED BY <2>0, <3>1
  <2>2. new # {version} BY <2>1
  <2>3. d.got = all2 /\ d.of = new BY <1>0, <1>1, <1>3, <1>5, <1>8, <1>10
  <2>4. all2 # << >> BY <1>6
  <2> QED BY <1>2, <1>6, <1>11, <2>1, <2>2, <2>3, <2>4 DEF ReadSoFar
<1> QED BY <1>12, <1>13

-----------------------------------------------------------------------------
(* The cache and its client. *)

Lists == {"identities", "validators", "onlineValidators"}

\* The order in which set assigns the fields.
LEMMA CacheFieldFacts ==
    /\ CacheFields \in Seq(Range(CacheFields)) /\ Len(CacheFields) = 8 /\ DOMAIN CacheFields = 1 .. 8
    /\ CacheFields[1] = "identities" /\ CacheFields[3] = "onlineCount" /\ CacheFields[4] = "validators"
    /\ CacheFields[5] = "onlineValidators"
    /\ \A i \in 1 .. 8 : CacheFields[i] \in Range(CacheFields)
    /\ \A i, j \in 1 .. 8 : CacheFields[i] = CacheFields[j] => i = j
<1>1. /\ CacheFields[1] = "identities" /\ CacheFields[2] = "identitiesPerAddress"
      /\ CacheFields[3] = "onlineCount" /\ CacheFields[4] = "validators"
      /\ CacheFields[5] = "onlineValidators" /\ CacheFields[6] = "staking"
      /\ CacheFields[7] = "forkCommitteeSize" /\ CacheFields[8] = "poolsPerAddress"
  BY DEF CacheFields
<1>2. Len(CacheFields) = 8 /\ DOMAIN CacheFields = 1 .. 8 BY DEF CacheFields
<1>3. \A i \in 1 .. 8 : CacheFields[i] \in Range(CacheFields) BY <1>2 DEF Range
<1>4. CacheFields \in Seq(Range(CacheFields))
  <2>1. CacheFields = [i \in 1 .. 8 |-> CacheFields[i]] BY DEF CacheFields
  <2> QED BY <1>3, <2>1
<1>5. \A i \in 1 .. 8 : i = 1 \/ i = 2 \/ i = 3 \/ i = 4 \/ i = 5 \/ i = 6 \/ i = 7 \/ i = 8 OBVIOUS
<1>6. \A i, j \in 1 .. 8 : CacheFields[i] = CacheFields[j] => i = j BY <1>1, <1>5
<1> QED BY <1>1, <1>2, <1>3, <1>4, <1>6

\* set has assigned the fields before k, from what was built last.
CacheInv(k) ==
  /\ k \in 1 .. 9 /\ (k < 9 => updates >= 1)
  /\ setting = SubSeq(CacheFields, k, 8)
  /\ DOMAIN cache = Range(CacheFields)
  /\ \A i \in 1 .. 8 : cache[CacheFields[i]].update = IF i < k THEN updates ELSE updates - 1
  /\ \A i \in 1 .. 8 : i < k => cache[CacheFields[i]].value = built.fields[CacheFields[i]]

BuiltOK(b) ==
  /\ b.fields \in FieldsRow
  /\ StakingOK(b.fields.staking)
  /\ CountOK(b.fields.onlineCount, b.fields.onlineValidators)
  /\ \A w \in Range(b.state) : MatchesState(w, b.fields)

CountInv ==
  cache["onlineCount"].update = cache["onlineValidators"].update =>
    CountOK(cache["onlineCount"].value, cache["onlineValidators"].value)

ListsInv == \A l \in Lists : cache[l].value \in Seq(Entry)

ClientInv ==
  \/ client = NoClient
  \/ /\ client.list \in Lists
     /\ ReadSoFar(client, cache[client.list].update, cache[client.list].value)

OnlineInv ==
  /\ updates \in 0 .. MaxUpdates
  /\ \E k : CacheInv(k)
  /\ BuiltOK(built)
  /\ CountInv
  /\ ListsInv
  /\ ClientInv

\* What update hands over to set.
LEMMA BuiltFacts ==
    ASSUME NEW w \in NodeStates
    PROVE  BuiltOK([fields |-> Sorted(w, Visited(w)[Identities]), state |-> <<w>>])
<1>1. PICK acc : acc = Visited(w)[Identities] OBVIOUS
<1>2. PICK f : f = Sorted(w, acc) OBVIOUS
<1>3. AccOK(w, Identities, acc) BY <1>1, VisitedOK
<1>4. AccOK(w, Identities, f) BY <1>2, <1>3, SortedOK
<1>5. f \in FieldsRow /\ StakingOK(f.staking) /\ OnlineOK(w, Identities, f) BY <1>4 DEF AccOK
<1>6. CountOK(f.onlineCount, f.onlineValidators) BY <1>5, CountIs
<1>7. MatchesState(w, f) BY <1>4, AccMatches
<1>8. PICK b : b = [fields |-> f, state |-> <<w>>] OBVIOUS
<1>9. b.fields = f /\ b.state = <<w>> BY <1>8
<1>10. Range(<<w>>) = {w} BY DEF Range
<1>11. BuiltOK(b) BY <1>5, <1>6, <1>7, <1>9, <1>10 DEF BuiltOK
<1> QED BY <1>1, <1>2, <1>8, <1>11

\* The lists among the fields.
LEMMA BuiltLists ==
    ASSUME NEW f \in FieldsRow, NEW l \in Lists
    PROVE  f[l] \in Seq(Entry)
<1>1. f.identities \in Seq(IdentityRow) /\ f.validators \in Seq(ValidatorRow) /\ f.onlineValidators \in Seq(ValidatorRow)
  BY DEF FieldsRow
<1>2. Seq(IdentityRow) \subseteq Seq(Entry) /\ Seq(ValidatorRow) \subseteq Seq(Entry)
  <2>1. IdentityRow \subseteq Entry /\ ValidatorRow \subseteq Entry BY DEF Entry
  <2> QED BY <2>1
<1>3. l = "identities" \/ l = "validators" \/ l = "onlineValidators" BY DEF Lists
<1> QED BY <1>1, <1>2, <1>3

\* The constructor's cache.
LEMMA InitOnlineInv == OnlineInit => OnlineInv
<1> SUFFICES ASSUME OnlineInit PROVE OnlineInv OBVIOUS
<1>1. updates = 0 /\ MaxUpdates \in Nat BY OnlineIdentitiesAssumption DEF OnlineInit
<1>2. \A f \in Range(CacheFields) : cache[f].value = Nothing[f] /\ cache[f].update = 0 BY DEF OnlineInit
<1>3. CacheInv(9)
  <2>1. SubSeq(CacheFields, 9, 8) = << >> BY SubSeqEmpty
  <2>2. setting = << >> /\ built.fields = Nothing /\ DOMAIN cache = Range(CacheFields) BY DEF OnlineInit
  <2> QED BY <1>1, <1>2, <2>1, <2>2, CacheFieldFacts DEF CacheInv
<1>4. Nothing \in FieldsRow /\ StakingOK(Nothing.staking)
  <2>1. << >> \in Seq(IdentityRow) /\ << >> \in Seq(ValidatorRow) /\ << >> \in Seq(Nat) OBVIOUS
  <2>2. [weight |-> 0, miners |-> << >>, minersWeight |-> 0, max |-> 0] \in StakingRow BY <2>1 DEF StakingRow
  <2>3. Nothing \in FieldsRow BY <2>1, <2>2 DEF Nothing, FieldsRow
  <2>4. StakingOK(Nothing.staking) BY NothingStaking
  <2> QED BY <2>3, <2>4
<1>5. CountOK(Nothing.onlineCount, Nothing.onlineValidators)
  <2>1. Nothing.onlineCount = 0 /\ Nothing.onlineValidators = << >> BY DEF Nothing
  <2>2. PICK g : g = [v \in Range(<< >>) |-> v.size] OBVIOUS
  <2>3. DOMAIN g = {} BY <2>2 DEF Range
  <2>4. SumFunction(g) = SumFunctionOnSet(g, DOMAIN g) BY SumFunctionIs
  <2>5. IsFiniteSet({}) BY FS_EmptySet
  <2>6. SumFunctionOnSet(g, {}) = 0 BY <2>5, SumUnfold
  <2> QED BY <2>1, <2>2, <2>3, <2>4, <2>6 DEF CountOK
<1>6. BuiltOK(built)
  <2>1. built.fields = Nothing /\ built.state = << >> BY DEF OnlineInit
  <2>2. Range(<< >>) = {} BY DEF Range
  <2> QED BY <1>4, <1>5, <2>1, <2>2 DEF BuiltOK
<1>7. /\ "onlineCount" \in Range(CacheFields) /\ "onlineValidators" \in Range(CacheFields)
      /\ \A l \in Lists : l \in Range(CacheFields)
  <2>1. /\ CacheFields[1] = "identities" /\ CacheFields[3] = "onlineCount" /\ CacheFields[4] = "validators"
        /\ CacheFields[5] = "onlineValidators" /\ 1 \in 1 .. 8 /\ 3 \in 1 .. 8 /\ 4 \in 1 .. 8 /\ 5 \in 1 .. 8
    BY CacheFieldFacts
  <2> QED BY <2>1, CacheFieldFacts DEF Lists
<1>8. CountInv BY <1>2, <1>5, <1>7 DEF CountInv
<1>9. ListsInv BY <1>2, <1>4, <1>7, BuiltLists DEF ListsInv
<1>10. ClientInv BY DEF ClientInv, OnlineInit
<1> QED BY <1>1, <1>3, <1>6, <1>8, <1>9, <1>10 DEF OnlineInv

\* update touches only what it builds.
LEMMA UpdateStep == ASSUME OnlineInv, NEW w \in NodeStates, update(w) PROVE OnlineInv'
<1>1. PICK k : CacheInv(k) BY DEF OnlineInv
<1>2. /\ setting = << >> /\ updates < MaxUpdates /\ updates' = updates + 1 /\ setting' = CacheFields
      /\ cache' = cache /\ client' = client /\ updates \in 0 .. MaxUpdates /\ MaxUpdates \in Nat
  BY OnlineIdentitiesAssumption DEF update, OnlineInv
<1>3. k = 9
  <2>1. SUFFICES ASSUME k \in 1 .. 8 PROVE FALSE BY <1>1 DEF CacheInv
  <2>2. 8 \in k .. Len(CacheFields) /\ k \in 1 .. Len(CacheFields) BY <2>1, CacheFieldFacts
  <2>3. \A i \in k .. 8 : CacheFields[i] \in Range(CacheFields) BY <2>1, CacheFieldFacts
  <2>4. Len(SubSeq(CacheFields, k, 8)) = IF k <= 8 THEN 8 - k + 1 ELSE 0
    BY <2>1, <2>3, SubSeqProperties
  <2>5. Len(setting) = 8 - k + 1 BY <1>1, <2>1, <2>4 DEF CacheInv
  <2>6. Len(setting) = 0 BY <1>2
  <2> QED BY <2>1, <2>5, <2>6
<1>4. CacheInv(1)'
  <2>1. SubSeq(CacheFields, 1, 8) = CacheFields BY CacheFieldFacts, SubSeqFull
  <2>2. \A i \in 1 .. 8 : cache[CacheFields[i]].update = updates
    <3>1. \A i \in 1 .. 8 : i < k BY <1>3
    <3> QED BY <1>1, <3>1 DEF CacheInv
  <2>3. updates' - 1 = updates /\ updates' >= 1 BY <1>2
  <2>4. \A i \in 1 .. 8 : ~(i < 1) OBVIOUS
  <2>5. \A i \in 1 .. 8 : cache'[CacheFields[i]].update = updates' - 1 BY <1>2, <2>2, <2>3
  <2>6. DOMAIN cache' = Range(CacheFields) BY <1>1, <1>2 DEF CacheInv
  <2> QED BY <1>2, <2>1, <2>3, <2>4, <2>5, <2>6 DEF CacheInv
<1>5. BuiltOK(built')
  <2>1. built' = [fields |-> Sorted(w, Visited(w)[Identities]), state |-> <<w>>] BY DEF update, Identities
  <2>2. BuiltOK([fields |-> Sorted(w, Visited(w)[Identities]), state |-> <<w>>]) BY BuiltFacts
  <2> QED BY <2>1, <2>2
<1>6. CountInv' /\ ListsInv' /\ ClientInv' BY <1>2 DEF OnlineInv, CountInv, ListsInv, ClientInv
<1>7. updates' \in 0 .. MaxUpdates BY <1>2
<1> QED BY <1>4, <1>5, <1>6, <1>7 DEF OnlineInv

\* A newer version: the client has read an older one.
LEMMA NewVersion ==
    ASSUME NEW c, NEW version \in Nat, NEW all, NEW new, ReadSoFar(c, version, all)
    PROVE  ReadSoFar(c, version + 1, new)
<1>1. c.of \subseteq 0 .. version + 1 /\ c.of # {version + 1} BY DEF ReadSoFar
<1> QED BY <1>1 DEF ReadSoFar

\* set assigns one field.
LEMMA SetStep == ASSUME OnlineInv, set PROVE OnlineInv'
<1>1. PICK k : CacheInv(k) BY DEF OnlineInv
<1>2. /\ setting # << >> /\ setting' = Tail(setting) /\ built' = built /\ updates' = updates /\ client' = client
      /\ updates \in Nat
  BY DEF set, OnlineInv
<1>3. k \in 1 .. 8 /\ k + 1 \in 1 .. 9 /\ updates >= 1
  <2>1. k \in 1 .. 9 /\ (k < 9 => updates >= 1) BY <1>1 DEF CacheInv
  <2>2. SubSeq(CacheFields, 9, 8) = << >> BY SubSeqEmpty
  <2>3. k # 9 BY <1>1, <1>2, <2>2 DEF CacheInv
  <2> QED BY <2>1, <2>3
<1>4. PICK h : h = CacheFields[k] OBVIOUS
<1>5. Head(setting) = h /\ Tail(setting) = SubSeq(CacheFields, k + 1, 8)
  <2>1. k \in 1 .. Len(CacheFields) /\ 8 \in k .. Len(CacheFields) BY <1>3, CacheFieldFacts
  <2>2. Head(SubSeq(CacheFields, k, 8)) = CacheFields[k] /\ Tail(SubSeq(CacheFields, k, 8)) = SubSeq(CacheFields, k + 1, 8)
    BY <2>1, CacheFieldFacts, HeadTailOfSubSeq
  <2> QED BY <1>1, <1>4, <2>2 DEF CacheInv
<1>6. h \in Range(CacheFields) BY <1>3, <1>4, CacheFieldFacts
<1>7. PICK val : val = built.fields[h] OBVIOUS
<1>8. /\ DOMAIN cache' = Range(CacheFields)
      /\ cache'[h].value = val /\ cache'[h].update = updates
      /\ \A f \in Range(CacheFields) : f # h => cache'[f] = cache[f]
  <2>1. cache' = [cache EXCEPT ![h] = [value |-> val, update |-> updates]] BY <1>5, <1>7 DEF set
  <2>2. DOMAIN cache = Range(CacheFields) BY <1>1 DEF CacheInv
  <2>3. cache'[h] = [value |-> val, update |-> updates] BY <1>6, <2>1, <2>2
  <2> QED BY <2>1, <2>2, <2>3
<1>9. \A i \in 1 .. 8 : CacheFields[i] = h <=> i = k BY <1>3, <1>4, CacheFieldFacts
<1>10. ASSUME NEW i \in 1 .. 8, i # k PROVE cache'[CacheFields[i]] = cache[CacheFields[i]]
  BY <1>8, <1>9, <1>10, CacheFieldFacts
<1>11. CacheInv(k + 1)'
  <2>1. ASSUME NEW i \in 1 .. 8
        PROVE  /\ cache'[CacheFields[i]].update = IF i < k + 1 THEN updates ELSE updates - 1
               /\ i < k + 1 => cache'[CacheFields[i]].value = built.fields[CacheFields[i]]
    <3>1. CASE i = k
      <4>1. i < k + 1 /\ CacheFields[i] = h BY <1>3, <1>4, <3>1
      <4> QED BY <1>7, <1>8, <4>1
    <3>2. CASE i # k
      <4>1. i < k + 1 <=> i < k BY <1>3, <3>2
      <4>2. cache'[CacheFields[i]] = cache[CacheFields[i]] BY <1>10, <3>2
      <4>3. /\ cache[CacheFields[i]].update = IF i < k THEN updates ELSE updates - 1
            /\ i < k => cache[CacheFields[i]].value = built.fields[CacheFields[i]]
        BY <1>1 DEF CacheInv
      <4> QED BY <4>1, <4>2, <4>3
    <3> QED BY <3>1, <3>2
  <2> QED BY <1>2, <1>3, <1>5, <1>8, <2>1 DEF CacheInv
<1>12. built.fields \in FieldsRow /\ CountOK(built.fields.onlineCount, built.fields.onlineValidators)
  BY DEF OnlineInv, BuiltOK
<1>13. /\ CacheFields[3] = "onlineCount" /\ CacheFields[5] = "onlineValidators" /\ 3 \in 1 .. 8 /\ 5 \in 1 .. 8
  BY CacheFieldFacts
<1>14. CountInv'
  <2>1. CASE k = 5
    <3>1. 3 # k /\ 3 < k BY <2>1
    <3>2. cache'["onlineCount"] = cache["onlineCount"] BY <1>10, <1>13, <3>1
    <3>3. cache["onlineCount"].value = built.fields["onlineCount"] BY <1>1, <1>13, <3>1 DEF CacheInv
    <3>4. cache'["onlineValidators"].value = built.fields["onlineValidators"] BY <1>4, <1>7, <1>8, <1>13, <2>1
    <3> QED BY <1>12, <3>2, <3>3, <3>4 DEF CountInv
  <2>2. CASE k = 3
    <3>1. 5 # k /\ ~(5 < k) BY <2>2
    <3>2. cache'["onlineValidators"] = cache["onlineValidators"] BY <1>10, <1>13, <3>1
    <3>3. cache["onlineValidators"].update = updates - 1 BY <1>1, <1>13, <3>1 DEF CacheInv
    <3>4. cache'["onlineCount"].update = updates BY <1>4, <1>8, <1>13, <2>2
    <3>5. updates # updates - 1 BY <1>2
    <3> QED BY <3>2, <3>3, <3>4, <3>5 DEF CountInv
  <2>3. CASE k # 3 /\ k # 5
    <3>1. cache'["onlineValidators"] = cache["onlineValidators"] /\ cache'["onlineCount"] = cache["onlineCount"]
      BY <1>10, <1>13, <2>3
    <3> QED BY <3>1 DEF CountInv, OnlineInv
  <2> QED BY <2>1, <2>2, <2>3
<1>15. \A l \in Lists : \E i \in 1 .. 8 : l = CacheFields[i]
  <2>1. 1 \in 1 .. 8 /\ 4 \in 1 .. 8 /\ 5 \in 1 .. 8 OBVIOUS
  <2> QED BY <2>1, CacheFieldFacts DEF Lists
<1>16. ListsInv'
  <2> SUFFICES ASSUME NEW l \in Lists PROVE cache'[l].value \in Seq(Entry) BY DEF ListsInv
  <2>1. CASE l = h BY <1>7, <1>8, <1>12, <2>1, BuiltLists
  <2>2. CASE l # h
    <3>1. PICK i \in 1 .. 8 : l = CacheFields[i] BY <1>15
    <3>2. cache'[l] = cache[l] BY <1>9, <1>10, <2>2, <3>1
    <3> QED BY <3>2 DEF ListsInv, OnlineInv
  <2> QED BY <2>1, <2>2
<1>17. ClientInv'
  <2>1. CASE client = NoClient BY <1>2, <2>1 DEF ClientInv
  <2>2. CASE client # NoClient
    <3>1. PICK l \in Lists : l = client.list BY <2>2 DEF ClientInv, OnlineInv
    <3>2. PICK v : v = cache[l].update OBVIOUS
    <3>3. PICK all : all = cache[l].value OBVIOUS
    <3>4. ReadSoFar(client, v, all) BY <2>2, <3>1, <3>2, <3>3 DEF ClientInv, OnlineInv
    <3>5. PICK i \in 1 .. 8 : l = CacheFields[i] BY <1>15
    <3>6. CASE l = h
      <4>0. i = k BY <1>9, <3>5, <3>6
      <4>1. i = k /\ ~(i < k) BY <1>3, <4>0
      <4>2. v = updates - 1 BY <1>1, <3>2, <3>5, <4>1 DEF CacheInv
      <4>3. v \in Nat /\ v + 1 = updates BY <1>2, <1>3, <4>2
      <4>4. ReadSoFar(client, v + 1, val) BY <3>4, <4>3, NewVersion
      <4>5. cache'[l].update = v + 1 /\ cache'[l].value = val BY <1>8, <3>6, <4>3
      <4> QED BY <1>2, <3>1, <4>4, <4>5 DEF ClientInv
    <3>7. CASE l # h
      <4>1. cache'[l] = cache[l] BY <1>9, <1>10, <3>5, <3>7
      <4> QED BY <1>2, <3>1, <3>2, <3>3, <3>4, <4>1 DEF ClientInv
    <3> QED BY <3>6, <3>7
  <2> QED BY <2>1, <2>2
<1>18. BuiltOK(built') /\ updates' \in 0 .. MaxUpdates BY <1>2 DEF OnlineInv
<1> QED BY <1>11, <1>14, <1>16, <1>17, <1>18 DEF OnlineInv

\* Only the client moves.
LEMMA ClientStep ==
    ASSUME OnlineInv, cache' = cache, built' = built, setting' = setting, updates' = updates, ClientInv'
    PROVE  OnlineInv'
BY DEF OnlineInv, CacheInv, CountInv, ListsInv

\* A page is read.
LEMMA ReadStep == ASSUME OnlineInv, NEW list \in Lists, ReadPage(list) PROVE OnlineInv'
<1>1. cache' = cache /\ built' = built /\ setting' = setting /\ updates' = updates BY DEF ReadPage
<1>2. PICK all : all = cache[list].value OBVIOUS
<1>3. PICK v : v = cache[list].update OBVIOUS
<1>4. all \in Seq(Entry) BY <1>2 DEF OnlineInv, ListsInv
<1>5. v \in Nat
  <2>1. PICK k : CacheInv(k) BY DEF OnlineInv
  <2>2. 1 \in 1 .. 8 /\ 4 \in 1 .. 8 /\ 5 \in 1 .. 8 OBVIOUS
  <2>3. PICK i \in 1 .. 8 : list = CacheFields[i] BY <2>2, CacheFieldFacts DEF Lists
  <2>4. v = IF i < k THEN updates ELSE updates - 1 BY <1>3, <2>1, <2>3 DEF CacheInv
  <2>5. updates \in Nat BY DEF OnlineInv
  <2>6. k \in 1 .. 9 /\ (k < 9 => updates >= 1) BY <2>1 DEF CacheInv
  <2> QED BY <2>4, <2>5, <2>6
<1>6. CASE client = NoClient
  <2>1. PICK next : next = IF HasNext(all, 0) THEN 0 + PageSize ELSE 0 OBVIOUS
  <2>2. client.got = << >> /\ client.of = {} BY <1>6 DEF NoClient
  <2>3. client' = [list |-> list, token |-> next, got |-> << >> \o <<Page(all, 0)>>, of |-> {} \cup {v}]
    BY <1>2, <1>3, <1>6, <2>1, <2>2 DEF ReadPage, Page
  <2>4. PICK c : c = client' OBVIOUS
  <2>5. c.list = list /\ c.token = next /\ c.got = << >> \o <<Page(all, 0)>> /\ c.of = {} \cup {v} BY <2>3, <2>4
  <2>6. ReadSoFar(c, v, all) BY <1>4, <1>5, <2>1, <2>5, FirstPage
  <2>7. ClientInv' BY <1>1, <1>2, <1>3, <2>4, <2>5, <2>6 DEF ClientInv
  <2> QED BY <1>1, <2>7, ClientStep
<1>7. CASE client # NoClient
  <2>1. client.list = list /\ client.token # 0 BY <1>7 DEF ReadPage
  <2>2. PICK c : c = client OBVIOUS
  <2>3. ReadSoFar(c, v, all) BY <1>2, <1>3, <1>7, <2>1, <2>2 DEF OnlineInv, ClientInv
  <2>4. PICK next : next = IF HasNext(all, c.token) THEN c.token + PageSize ELSE 0 OBVIOUS
  <2>5. client' = [list |-> list, token |-> next, got |-> c.got \o <<Page(all, c.token)>>, of |-> c.of \cup {v}]
    BY <1>2, <1>3, <1>7, <2>2, <2>4 DEF ReadPage, Page
  <2>6. PICK d : d = client' OBVIOUS
  <2>7. d.list = list /\ d.token = next /\ d.got = c.got \o <<Page(all, c.token)>> /\ d.of = c.of \cup {v}
    BY <2>5, <2>6
  <2>8. c.token # 0 BY <2>1, <2>2
  <2>9. ReadSoFar(d, v, all) BY <1>4, <1>5, <2>3, <2>4, <2>7, <2>8, NextPage
  <2>10. ClientInv' BY <1>1, <1>2, <1>3, <2>6, <2>7, <2>9 DEF ClientInv
  <2> QED BY <1>1, <2>10, ClientStep
<1> QED BY <1>6, <1>7

\* No step breaks the invariant.
LEMMA NextOnlineInv == OnlineInv /\ [OnlineNext]_onlineVars => OnlineInv'
<1> SUFFICES ASSUME OnlineInv, [OnlineNext]_onlineVars PROVE OnlineInv' OBVIOUS
<1>1. CASE \E w \in NodeStates : update(w) BY <1>1, UpdateStep
<1>2. CASE set BY <1>2, SetStep
<1>3. "identities" \in Lists /\ "validators" \in Lists /\ "onlineValidators" \in Lists BY DEF Lists
<1>4. CASE GetOnlineIdentities BY <1>3, <1>4, ReadStep DEF GetOnlineIdentities
<1>5. CASE Validators BY <1>3, <1>5, ReadStep DEF Validators
<1>6. CASE OnlineValidators BY <1>3, <1>6, ReadStep DEF OnlineValidators
<1>7. CASE EndOfList
  <2>1. cache' = cache /\ built' = built /\ setting' = setting /\ updates' = updates /\ client' = NoClient
    BY <1>7 DEF EndOfList
  <2>2. ClientInv' BY <2>1 DEF ClientInv
  <2> QED BY <2>1, <2>2, ClientStep
<1>8. CASE UNCHANGED onlineVars
  <2>1. cache' = cache /\ built' = built /\ setting' = setting /\ updates' = updates /\ client' = client
    BY <1>8 DEF onlineVars
  <2>2. ClientInv' BY <2>1 DEF ClientInv, OnlineInv
  <2> QED BY <2>1, <2>2, ClientStep
<1> QED BY <1>1, <1>2, <1>4, <1>5, <1>6, <1>7, <1>8 DEF OnlineNext

\* A client that reads a list to its end while no update replaces it gets every
\* entry once and in order, and no empty page on the way, for every list, every
\* size of the page and wherever the assignments of set fall between the pages.
THEOREM PagesCoverTheListAlways == OnlineInit /\ [][OnlineNext]_onlineVars => []PagesCoverTheList
<1>1. OnlineInv => PagesCoverTheList
  <2> SUFFICES ASSUME OnlineInv PROVE PagesCoverTheList OBVIOUS
  <2>1. CASE client = NoClient
    <3>1. client.got = << >> /\ Len(<< >>) = 0 BY <2>1 DEF NoClient
    <3>2. 2 .. 0 = {} OBVIOUS
    <3> QED BY <2>1, <3>1, <3>2 DEF PagesCoverTheList
  <2>2. CASE client # NoClient
    <3>1. PICK l \in Lists : l = client.list BY <2>2 DEF ClientInv, OnlineInv
    <3>2. PICK v : v = cache[l].update OBVIOUS
    <3>3. PICK all : all = cache[l].value OBVIOUS
    <3>4. ReadSoFar(client, v, all) BY <2>2, <3>1, <3>2, <3>3 DEF ClientInv, OnlineInv
    <3>5. all \in Seq(Entry) BY <3>3 DEF OnlineInv, ListsInv
    <3>6. PICK of : of = client.of OBVIOUS
    <3>7. IsFiniteSet(of)
      <4>0. PICK k : CacheInv(k) BY DEF OnlineInv
      <4>1. updates \in Nat BY DEF OnlineInv
      <4>2. 1 \in 1 .. 8 /\ 4 \in 1 .. 8 /\ 5 \in 1 .. 8 OBVIOUS
      <4>3. PICK i \in 1 .. 8 : l = CacheFields[i] BY <4>2, CacheFieldFacts DEF Lists
      <4>4. v = IF i < k THEN updates ELSE updates - 1 BY <3>2, <4>0, <4>3 DEF CacheInv
      <4>5. v \in Int BY <4>1, <4>4
      <4>6. IsFiniteSet(0 .. v) BY <4>5, FS_Interval
      <4>7. of \subseteq 0 .. v BY <3>4, <3>6 DEF ReadSoFar
      <4> QED BY <4>6, <4>7, FS_Subset
    <3>8. ASSUME NEW x \in of, NEW y \in of, x # y PROVE Cardinality(of) > 1
      <4>1. Cardinality(of) \in Nat BY <3>7, FS_CardinalityType
      <4>2. Cardinality(of) # 0 BY <3>7, FS_EmptySet
      <4>3. Cardinality(of) # 1
        <5>1. Cardinality(of) = 1 => \E z : of = {z} BY <3>7, FS_Singleton
        <5> QED BY <3>8, <5>1
      <4> QED BY <4>1, <4>2, <4>3
    <3>9. \A i \in 2 .. Len(client.got) : client.got[i] = << >> => Cardinality(client.of) > 1
      <4>1. \A i \in 2 .. Len(client.got) : client.got[i] = << >> => \E x, y \in of : x # y
        BY <3>4, <3>6 DEF ReadSoFar
      <4> QED BY <3>6, <3>8, <4>1
    <3>10. ASSUME client.token = 0, client.of = {cache[client.list].update}
           PROVE  FlattenSeq(client.got) = cache[client.list].value
      <4>1. client.of = {v} BY <3>1, <3>2, <3>10
      <4>2. FlattenSeq(client.got) = SubSeq(all, 1, Len(all)) BY <3>4, <3>10, <4>1 DEF ReadSoFar
      <4>3. SubSeq(all, 1, Len(all)) = all BY <3>5, SubSeqFull
      <4> QED BY <3>1, <3>3, <4>2, <4>3
    <3> QED BY <3>9, <3>10 DEF PagesCoverTheList
  <2> QED BY <2>1, <2>2
<1> QED BY <1>1, InitOnlineInv, NextOnlineInv, PTL

\* What an update of the cache computes is what the node's state says, for every
\* state of the node and every number of identities: those online are counted
\* once, a pool met first as somebody's delegatee is listed once, stakes are
\* summed per pool once, and the weights of the miners are in order.
THEOREM OnlineCacheIsSoundAlways == OnlineInit /\ [][OnlineNext]_onlineVars => []OnlineCacheIsSound
<1>1. OnlineInv => OnlineCacheIsSound
  <2> SUFFICES ASSUME OnlineInv PROVE OnlineCacheIsSound OBVIOUS
  <2>1. OnlineTypeOK
    <3>1. PICK k : CacheInv(k) BY DEF OnlineInv
    <3>2. updates \in 0 .. MaxUpdates /\ updates \in Nat /\ k \in 1 .. 9 BY <3>1 DEF OnlineInv, CacheInv
    <3>3. ASSUME NEW i \in 1 .. 8, NEW j \in 1 .. 8, i < j
          PROVE  cache[CacheFields[i]].update - cache[CacheFields[j]].update \in {0, 1}
      <4>1. PICK a : a = cache[CacheFields[i]].update OBVIOUS
      <4>2. PICK b : b = cache[CacheFields[j]].update OBVIOUS
      <4>3. a = (IF i < k THEN updates ELSE updates - 1) /\ b = (IF j < k THEN updates ELSE updates - 1)
        BY <3>1, <4>1, <4>2 DEF CacheInv
      <4>4. a - b = 0 \/ a - b = 1 BY <3>2, <3>3, <4>3
      <4> QED BY <4>1, <4>2, <4>4
    <3> QED BY <3>2, <3>3, CacheFieldFacts DEF OnlineTypeOK
  <2>2. OnlineCountMatchesValidators BY DEF OnlineInv, CountInv, CountOK, OnlineCountMatchesValidators
  <2>3. BuiltOK(built) BY DEF OnlineInv
  <2>4. ListsMatchTheState BY <2>3 DEF BuiltOK, MatchesState, ListsMatchTheState
  <2>5. MinerWeightsAreSorted
    <3>1. PICK st : st = built.fields.staking OBVIOUS
    <3>2. StakingOK(st) BY <2>3, <3>1 DEF BuiltOK
    <3>3. st.miners \in Seq(Nat) BY <3>2 DEF StakingOK, StakingRow
    <3>4. ASSUME NEW i \in 2 .. Len(st.miners) PROVE st.miners[i - 1] <= st.miners[i]
      <4>1. i - 1 \in 1 .. Len(st.miners) /\ i \in 1 .. Len(st.miners) /\ i - 1 < i BY <3>3
      <4> QED BY <3>2, <4>1 DEF StakingOK, Ascending
    <3>5. st.miners # << >> => Last(st.miners) = st.max BY <3>2 DEF StakingOK, Last
    <3> QED BY <3>1, <3>2, <3>4, <3>5 DEF MinerWeightsAreSorted, StakingOK
  <2> QED BY <2>1, <2>2, <2>4, <2>5 DEF OnlineCacheIsSound
<1> QED BY <1>1, InitOnlineInv, NextOnlineInv, PTL
=============================================================================
