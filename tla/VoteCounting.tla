---------------------------- MODULE VoteCounting ----------------------------
(***************************************************************************)
(* Recording the votes the node counts                                     *)
(* (core/mempool/vote_counting_tracker.go).                                *)
(*                                                                         *)
(* The node reports, while it runs the consensus of a round, every count   *)
(* of votes, its result, and the proposals of proofs and blocks.  The four *)
(* Submit functions run on the node's own goroutine and must not block:    *)
(* each puts the event on a bounded channel or drops it.  What the node    *)
(* goes on changing is copied first.  One goroutine takes from all four    *)
(* channels, converts the event and repeats its save until the database    *)
(* says it is done, which it never does of a vote with an upgrade that     *)
(* does not fit the table; once a minute it lets the database turn the     *)
(* tables over.                                                            *)
(***************************************************************************)
EXTENDS Naturals, Sequences, FiniteSets, Functions, FiniteSetsExt

CONSTANTS
  Voters,
  VotedHashes,     \* the hashes of blocks that may be voted for
  OversizedVotes,  \* hash and voter of the votes whose upgrade, a uint32 their voter
                   \* chose, is more than the integer of the tables holds
  QueueCapacity,   \* the capacities of the four channels
  BlockRange,      \* blockRange, the rounds the tables must span
  MaxRound,        \* bound: rounds of the node
  MaxVoteEvents,   \* bound: events the channels take
  MaxVotes,        \* bound: votes the node counts
  MaxLostAnswers   \* bound: saves that commit and still return an error

VoteKinds == {"step", "result", "proof", "block"}

ASSUME VoteCountingAssumption ==
  /\ OversizedVotes \subseteq VotedHashes \X Voters
  /\ QueueCapacity \in [VoteKinds -> Nat]
  /\ MaxRound \in Nat \ {0}
  /\ {MaxVoteEvents, MaxVotes, MaxLostAnswers, BlockRange} \subseteq Nat

VARIABLES
  round,       \* the node's round
  tallies,     \* round -> hash -> who voted for it: the node's maps, which it
               \* goes on filling
  voteQueues,  \* kind -> its channel
  tracked,     \* the event track is saving, a sequence of at most one
  voteRows,    \* kind -> every row inserted, oldest first
  moved,       \* kind -> how many of them are in an _old table or dropped
  deleted,     \* kind -> how many of them are dropped
  lostAnswers,
  accepted     \* history: kind -> the events the channel took, as they were then

voteVars == <<round, tallies, voteQueues, tracked, voteRows, moved,
              deleted, lostAnswers, accepted>>

NoVotes == [h \in VotedHashes |-> {}]

\* The process starts on empty tables, or on tables turned over before, with a
\* result of the node's round among what they hold.
VoteInit ==
  /\ round = 1
  /\ tallies = [r \in 1 .. MaxRound |-> NoVotes]
  /\ voteQueues = [k \in VoteKinds |-> << >>]
  /\ tracked = << >>
  /\ \E old \in {<< >>, <<[timestamp |-> 1, round |-> 1, votes |-> {}, valid |-> TRUE]>>} :
       /\ voteRows = [k \in VoteKinds |-> IF k = "result" THEN old ELSE << >>]
       /\ moved = [k \in VoteKinds |-> Len(voteRows[k])]
       /\ accepted = [k \in VoteKinds |->
                        [i \in DOMAIN voteRows[k] |-> [voteRows[k][i] EXCEPT !.votes = NoVotes]]]
  /\ deleted = [k \in VoteKinds |-> 0]
  /\ lostAnswers = 0

-----------------------------------------------------------------------------
(* The node. *)

\* A map of votes as one list.
Listed(votes) == {vote \in VotedHashes \X Voters : vote[2] \in votes[vote[1]]}

CountVote(h, v) ==
  /\ v \notin tallies[round][h]
  /\ SumFunction([r \in DOMAIN tallies |-> Cardinality(Listed(tallies[r]))]) < MaxVotes
  /\ tallies' = [tallies EXCEPT ![round][h] = @ \cup {v}]
  /\ UNCHANGED <<round, voteQueues, tracked, voteRows, moved, deleted, lostAnswers,
                 accepted>>

NextRound ==
  /\ round < MaxRound
  /\ round' = round + 1
  /\ UNCHANGED <<tallies, voteQueues, tracked, voteRows, moved,
                 deleted, lostAnswers, accepted>>

\* select with a default: a full channel drops the event.
Enqueue(k, e) ==
  voteQueues' = [voteQueues EXCEPT ![k] =
                   IF Len(@) < QueueCapacity[k] THEN Append(@, e) ELSE @]

\* An event has a timestamp, which here only orders the events of its kind.
Submit(k, votes, valid) ==
  LET e == [timestamp |-> Len(accepted[k]) + 1, round |-> round,
            votes |-> votes, valid |-> valid]
  IN
  /\ SumFunction([j \in VoteKinds |-> Len(accepted[j])]) < MaxVoteEvents
  /\ Enqueue(k, e)
  /\ accepted' = IF Len(voteQueues[k]) < QueueCapacity[k]
                   THEN [accepted EXCEPT ![k] = Append(@, e)] ELSE accepted
  /\ UNCHANGED <<round, tallies, tracked, voteRows, moved, deleted, lostAnswers>>

\* The maps of votes are copied down to the single votes.
SubmitVoteCountingStepResultEvent == Submit("step", tallies[round], TRUE)

\* So are the sets of validators and the votes of the certificate.
SubmitVoteCountingResultEvent == Submit("result", tallies[round], TRUE)

\* The event of a proof is passed on as it is; its public key may be wrong.
SubmitProofProposalEvent(valid) == Submit("proof", NoVotes, valid)

SubmitBlockProposalEvent == Submit("block", NoVotes, TRUE)

-----------------------------------------------------------------------------
(* track. *)

Take(k) ==
  /\ tracked = << >>
  /\ voteQueues[k] # << >>
  /\ tracked' = <<[kind |-> k, event |-> Head(voteQueues[k])]>>
  /\ voteQueues' = [voteQueues EXCEPT ![k] = Tail(@)]
  /\ UNCHANGED <<round, tallies, voteRows, moved, deleted, lostAnswers,
                 accepted>>

TakeCountingStep == Take("step")

TakeCounting == Take("result")

TakeBlockProposal == Take("block")

\* Mutant: a proof that cannot be converted stays in the worker's hands.
HoldProof ==
  Take("proof")

\* handleProofProposal: a proof that cannot be converted is skipped.
TakeProofProposal ==
  /\ tracked = << >>
  /\ voteQueues["proof"] # << >>
  /\ LET e == Head(voteQueues["proof"]) IN
       tracked' = IF e.valid THEN <<[kind |-> "proof", event |-> e]>> ELSE << >>
  /\ voteQueues' = [voteQueues EXCEPT !["proof"] = Tail(@)]
  /\ UNCHANGED <<round, tallies, voteRows, moved, deleted, lostAnswers,
                 accepted>>

\* Mutant: the event shares the node's map of votes.
ConvertShared(e) == [e EXCEPT !.votes = Listed(tallies[e.round])]

\* The votes of all hashes in one list, with the timestamp of the submission.
ConvertEvent(e) == [e EXCEPT !.votes = Listed(@)]

Insert == voteRows' = [voteRows EXCEPT ![tracked[1].kind] =
                         Append(@, ConvertEvent(tracked[1].event))]

\* The procedures of the step and of the result cast the upgrade of every vote to
\* an integer, which fails each time they are repeated.
Storable(e) == Listed(e.votes) \cap OversizedVotes = {}

\* The save procedures insert with no key that a repetition would violate.
SaveSucceeds ==
  /\ tracked # << >>
  /\ tracked[1].event.valid /\ Storable(tracked[1].event)
  /\ Insert
  /\ tracked' = << >>
  /\ UNCHANGED <<round, tallies, voteQueues, moved, deleted,
                 lostAnswers, accepted>>

\* The procedure has committed, its answer is lost: the save is repeated.
SaveAnswerLost ==
  /\ tracked # << >>
  /\ tracked[1].event.valid /\ Storable(tracked[1].event)
  /\ lostAnswers < MaxLostAnswers
  /\ lostAnswers' = lostAnswers + 1
  /\ Insert
  /\ UNCHANGED <<round, tallies, voteQueues, tracked, moved, deleted,
                 accepted>>

\* Mutant: the range is one round short.
AnyTooOld(current) ==
  \E i, j \in DOMAIN current :
    current[i].round + BlockRange <= current[j].round + 1

\* Some result is BlockRange rounds behind the last one.
SpansRange(current) ==
  \E i, j \in DOMAIN current : current[i].round + BlockRange <= current[j].round

Current(k) == SubSeq(voteRows[k], moved[k] + 1, Len(voteRows[k]))

\* delete_old_vote_counting_data: the _old tables are dropped and the current
\* ones, of all kinds, take their place.
DeleteOldData ==
  /\ tracked = << >>
  /\ SpansRange(Current("result"))
  /\ deleted' = moved
  /\ moved' = [k \in VoteKinds |-> Len(voteRows[k])]
  /\ UNCHANGED <<round, tallies, voteQueues, tracked, voteRows,
                 lostAnswers, accepted>>

-----------------------------------------------------------------------------
\* track's select, with one of the channels ready.
Track ==
  TakeCountingStep \/ TakeCounting \/ TakeProofProposal \/ TakeBlockProposal

VoteNext ==
  \/ \E h \in VotedHashes, v \in Voters : CountVote(h, v)
  \/ NextRound
  \/ SubmitVoteCountingStepResultEvent
  \/ SubmitVoteCountingResultEvent
  \/ \E valid \in BOOLEAN : SubmitProofProposalEvent(valid)
  \/ SubmitBlockProposalEvent
  \/ Track
  \/ SaveSucceeds
  \/ SaveAnswerLost
  \/ DeleteOldData

\* The worker runs, and a save that is repeated for ever succeeds at last if its
\* data can be stored.
VoteFairness == WF_voteVars(Track) /\ WF_voteVars(SaveSucceeds)

-----------------------------------------------------------------------------
(* Properties. *)

\* The channels stay within their capacities whatever the worker does.
VoteTypeOK ==
  /\ round \in 1 .. MaxRound
  /\ tallies \in [1 .. MaxRound -> [VotedHashes -> SUBSET Voters]]
  /\ \A k \in VoteKinds : Len(voteQueues[k]) <= QueueCapacity[k]
  /\ Len(tracked) <= 1
  /\ \A k \in VoteKinds : deleted[k] <= moved[k] /\ moved[k] <= Len(voteRows[k])
  /\ lostAnswers \in 0 .. MaxLostAnswers

\* The event of this kind that track has in hand, and those in the channel.
Unsaved(k) ==
  (IF tracked # << >> /\ tracked[1].kind = k THEN <<tracked[1].event>> ELSE << >>) \o voteQueues[k]

\* The rows that events, as they were reported, should become.
RowsDue(events) ==
  {[e EXCEPT !.votes = Listed(@)] : e \in {x \in Range(events) : x.valid}}

\* The rows saved of the events that a channel took, while some wait.
SavedInOrder(saved, waiting, taken, lost) ==
  /\ Range(saved) \cup RowsDue(waiting) = RowsDue(taken)
  /\ \A i, j \in DOMAIN saved : i < j => saved[i].timestamp <= saved[j].timestamp
  /\ \A i \in DOMAIN saved, j \in DOMAIN waiting : saved[i].timestamp <= waiting[j].timestamp
  /\ \A i, j \in DOMAIN waiting : i < j => waiting[i].timestamp < waiting[j].timestamp
  /\ Len(saved) + Cardinality(RowsDue(waiting)) <= Cardinality(RowsDue(taken)) + lost

\* What a channel took (SubmitVoteCounting...Event) is saved in its order and as
\* it was when it was reported, though the node has gone on filling its maps,
\* and it is saved twice only if the answer to a save was lost.
SavedAsReported ==
  \A k \in VoteKinds : SavedInOrder(voteRows[k], Unsaved(k), accepted[k], lostAnswers)

\* What the channels took is saved as it was reported (the Submit... methods,
\* the conversions and the saving loops of vote_counting_tracker.go), with
\* the channels within their capacities.
VotesAreSaved == VoteTypeOK /\ SavedAsReported

\* Turning the tables over (deleteOldData) never drops a result of the last
\* BlockRange rounds, although everything older than one result may go at once.
RecentResultsAreKept ==
  \A i \in 1 .. deleted["result"] :
    \E j \in DOMAIN voteRows["result"] :
      voteRows["result"][i].round + BlockRange <= voteRows["result"][j].round

Idle == tracked = << >> /\ \A k \in VoteKinds : voteQueues[k] = << >>

\* The event in the worker's hands is refused whenever it is saved.
WorkerIsStuck == tracked # << >> /\ ~Storable(tracked[1].event)

\* Once the node reports no more, everything in the channels is saved or skipped
\* in the end (track): no kind starves behind another, and no event keeps the
\* worker busy for ever but one with a vote that the tables cannot hold.
EverythingIsTracked == ~Idle ~> Idle \/ WorkerIsStuck
=============================================================================
