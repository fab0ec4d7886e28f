---------------------------- MODULE FlipContent ----------------------------
(***************************************************************************)
(* Loading the content of flips (core/flip/flip_content_loader.go) against *)
(* the table flips_queue, which the block that ends an epoch fills         *)
(* (update_flips_queue) and which reset_to cuts.                           *)
(*                                                                         *)
(* The loader is one goroutine.  It selects a batch of due rows, asks IPFS *)
(* for each flip without holding anything in the database, and then writes *)
(* the whole batch in one transaction.  Blocks are saved and removed by    *)
(* the block indexer meanwhile, so that a batch may be written long after  *)
(* the rows it was selected from are gone.                                 *)
(*                                                                         *)
(* What a flip decrypts to is its author's choice and never changes.  Only *)
(* what the loader makes of it is told apart: most can be decoded and      *)
(* saved; an empty list decodes to a flip without a cid, and one without   *)
(* pictures to a null where an array is expected, both without an error    *)
(* until the database refuses them; and a list of the wrong shape panics   *)
(* (in parseFlip, or in FlipContent.Value when the batch is written, which *)
(* is put at the same place: nothing of the batch is kept in either case). *)
(*                                                                         *)
(* Timestamps are kept relative to the clock: "wait" is the row's          *)
(* next_attempt_timestamp minus now, cut at -MaxOverdue.                   *)
(***************************************************************************)
EXTENDS Integers, Sequences, FiniteSets

Contents == {"readable", "refused", "panics"}

CONSTANTS
  Flip,           \* flip cids
  FlipContents,   \* what the flips may contain: functions from Flip to Contents
  BatchSize,      \* config.FlipContentLoader.BatchSize
  AttemptsLimit,  \* config.FlipContentLoader.AttemptsLimit
  RetryInterval,  \* config.FlipContentLoader.RetryIntervalMin, in ticks
  FirstDelay,     \* the 30 minutes update_flips_queue adds, in ticks
  MaxOverdue,     \* bound: how far a row's age is told apart
  MaxHeight,      \* bound: recorded blocks
  MaxResets,      \* bound: calls of reset_to
  MaxInterrupts   \* bound: restarts and failed writes of a batch

ASSUME FlipContentAssumption ==
  /\ FlipContents \subseteq [Flip -> Contents]
  /\ BatchSize \in Nat \ {0}
  /\ AttemptsLimit \in Nat \ {0}
  /\ RetryInterval \in Nat
  /\ FirstDelay \in Nat
  /\ MaxOverdue \in Nat \ {0}
  /\ {MaxHeight, MaxResets, MaxInterrupts} \subseteq Nat

VARIABLES
  blocks,     \* the recorded blocks: the flips each submits, whether it ends
              \* its epoch and, if so, the flips whose keys are known by then
  queue,      \* flips_queue: cid -> [attempts, wait]
  data,       \* the flips with a row in flips_data
  batch,      \* the rows selected by the loader: cid -> attempts
  results,    \* the flips of the batch already tried: cid -> [ok, wait]
  content,    \* of the flips: what the loader makes of each (never changes)
  givenUp,    \* history: the flips dropped at the attempts limit
  early,      \* history: those dropped though their row had attempts left
  discarded,  \* history: the flips of an epoch whose last block is kept, and
              \* whose rows reset_to removed nevertheless
  overtaken,  \* history: the flips that were in the batch during a reset_to
  resets,     \* how often reset_to was called
  interrupts  \* how often the loader lost its batch

loader  == <<batch, results, interrupts>>
history == <<givenUp, early, discarded, overtaken>>
vars    == <<blocks, queue, data, loader, history, resets, content>>

Rows    == [attempts : 0 .. AttemptsLimit - 1,
            wait : -MaxOverdue .. (RetryInterval + FirstDelay)]
Results == [ok : BOOLEAN, wait : -MaxOverdue .. RetryInterval]

EmptyTable == [f \in {} |-> {}]
Without(table, gone) == [f \in DOMAIN table \ gone |-> table[f]]

-----------------------------------------------------------------------------
(* The chain as the database records it. *)

Heights     == 1 .. Len(blocks)
EpochOf(h)  == Cardinality({g \in 1 .. h - 1 : blocks[g].last})
Flips       == UNION {blocks[h].flips : h \in Heights}
FlipsFrom(e) == UNION {blocks[h].flips : h \in {g \in Heights : EpochOf(g) >= e}}
Keyed       == UNION {blocks[h].keyed : h \in Heights}

Init ==
  /\ blocks = << >>
  /\ queue = EmptyTable
  /\ data = {}
  /\ batch = EmptyTable
  /\ results = EmptyTable
  /\ content \in FlipContents
  /\ givenUp = {}
  /\ early = {}
  /\ discarded = {}
  /\ overtaken = {}
  /\ resets = 0
  /\ interrupts = 0

\* A block that does not end an epoch.
SaveBlock(new) ==
  /\ Len(blocks) < MaxHeight
  /\ new \subseteq Flip \ Flips
  /\ blocks' = Append(blocks, [flips |-> new, last |-> FALSE, keyed |-> {}])
  /\ UNCHANGED <<queue, data, loader, history, resets, content>>

\* The rows update_flips_queue inserts for the flips of the current epoch
\* whose key is known.  The timestamp comes from the block: a block indexed
\* long after it was made is due at once.
Enqueued(keyed, delay) ==
  [f \in DOMAIN queue \cup keyed |->
     IF f \in keyed THEN [attempts |-> 0, wait |-> delay] ELSE queue[f]]

\* The block that ends the epoch; no flips are submitted that late.  The unique
\* index over cid refuses it when a row for one of its flips is already queued.
SaveLastBlock(keyed, delay) ==
  /\ Len(blocks) < MaxHeight
  /\ keyed \subseteq FlipsFrom(EpochOf(Len(blocks) + 1))
  /\ keyed \cap DOMAIN queue = {}
  /\ blocks' = Append(blocks, [flips |-> {}, last |-> TRUE, keyed |-> keyed])
  /\ queue' = Enqueued(keyed, delay)
  /\ UNCHANGED <<data, loader, history, resets, content>>

\* Mutant: one epoch too few ("b.epoch > l_epoch").
RemovedLater(p) == FlipsFrom(EpochOf(p) + 1)

\* The flips reset_to(p) removes from flips_queue and flips_data: those of the
\* epoch of block p and of the later ones.
Removed(p) == FlipsFrom(EpochOf(p))

ResetTo(p) ==
  LET gone == Removed(p) IN
  /\ resets < MaxResets
  /\ p < Len(blocks)
  /\ queue' = Without(queue, gone)
  /\ data' = data \ gone
  /\ blocks' = SubSeq(blocks, 1, p)
  /\ givenUp' = givenUp \ gone
  /\ early' = early \ gone
  /\ discarded' = (discarded \ gone)
                    \cup (IF p > 0 THEN blocks[p].keyed ELSE {})
  /\ overtaken' = (overtaken \ gone) \cup DOMAIN batch
  /\ resets' = resets + 1
  /\ UNCHANGED <<loader, content>>

-----------------------------------------------------------------------------
(* The loader. *)

Due == {f \in DOMAIN queue : queue[f].wait < 0}

\* "order by next_attempt_timestamp limit $2"
IsFirstOfDue(some) ==
  /\ some \subseteq Due
  /\ \/ Cardinality(some) = BatchSize
     \/ Cardinality(some) < BatchSize /\ some = Due
  /\ \A f \in some, g \in Due \ some : queue[f].wait <= queue[g].wait

GetFlipsToLoadContent ==
  /\ batch = EmptyTable
  /\ Due # {}
  /\ \E some \in SUBSET Due :
       /\ IsFirstOfDue(some)
       /\ batch' = [f \in some |-> queue[f].attempts]
  /\ UNCHANGED <<blocks, queue, data, results, interrupts, history, resets, content>>

\* getFlipContent asks IPFS, decrypts and decodes the answer: it may fail.
GetFlipContent(f, ok) ==
  /\ f \in DOMAIN batch \ DOMAIN results
  /\ ok => content[f] # "panics"
  /\ results' = [g \in DOMAIN results \cup {f} |->
                   IF g = f THEN [ok |-> ok, wait |-> RetryInterval]
                            ELSE results[g]]
  /\ UNCHANGED <<blocks, queue, data, batch, interrupts, history, resets, content>>

\* A type assertion of parseFlip ends the process, and the batch is lost with
\* it: the next start selects the same rows, whose attempts were not counted.
Panic ==
  /\ \E f \in DOMAIN batch \ DOMAIN results : content[f] = "panics"
  /\ batch' = EmptyTable
  /\ results' = EmptyTable
  /\ UNCHANGED <<blocks, queue, data, interrupts, history, resets, content>>

Loaded == {f \in DOMAIN results : results[f].ok}
Failed == DOMAIN results \ Loaded

\* handleFlips decides with the number of attempts the batch was selected with.
AttemptsLimitReached(f) == batch[f] + 1 = AttemptsLimit

GaveUp == {f \in Failed : AttemptsLimitReached(f)}

\* save_flips_content fails as a whole when a loaded flip is no longer
\* recorded or has no cid (flip_tx_id is null), already has its row in
\* flips_data, or has no pictures (jsonb_array_length of a null).
Refused ==
  \/ Loaded \ Flips # {}
  \/ Loaded \cap data # {}
  \/ \E f \in Loaded : content[f] = "refused"

\* Mutant: the rows of the loaded flips stay.
QueueKeepsLoaded ==
  [f \in DOMAIN queue \ GaveUp |->
     IF f \in Failed
     THEN [attempts |-> queue[f].attempts + 1, wait |-> results[f].wait]
     ELSE queue[f]]

\* Mutant: only the time of a failed flip's row is updated.
QueueCountsNothing ==
  [f \in DOMAIN queue \ (GaveUp \cup Loaded) |->
     IF f \in Failed THEN [queue[f] EXCEPT !.wait = results[f].wait]
                     ELSE queue[f]]

\* A failed flip's row counts the attempt and gets its new time; the rows of
\* the flips that reached the limit and of the loaded ones are deleted.
QueueAfterSave ==
  [f \in DOMAIN queue \ (GaveUp \cup Loaded) |->
     IF f \in Failed
     THEN [attempts |-> queue[f].attempts + 1, wait |-> results[f].wait]
     ELSE queue[f]]

SaveFlipsContent ==
  /\ batch # EmptyTable
  /\ DOMAIN results = DOMAIN batch
  /\ IF Refused
     THEN UNCHANGED <<queue, data, givenUp, early>>
     ELSE /\ queue' = QueueAfterSave
          /\ data' = data \cup Loaded
          /\ givenUp' = givenUp \cup (GaveUp \cap DOMAIN queue)
          /\ early' = early \cup {f \in GaveUp \cap DOMAIN queue :
                                    queue[f].attempts + 1 < AttemptsLimit}
  /\ batch' = EmptyTable
  /\ results' = EmptyTable
  /\ UNCHANGED <<blocks, interrupts, discarded, overtaken, resets, content>>

\* A restart of the process, or a database error while the batch is written.
LoseBatch ==
  /\ interrupts < MaxInterrupts
  /\ batch # EmptyTable
  /\ batch' = EmptyTable
  /\ results' = EmptyTable
  /\ interrupts' = interrupts + 1
  /\ UNCHANGED <<blocks, queue, data, history, resets, content>>

Earlier(w) == IF w > -MaxOverdue THEN w - 1 ELSE w

Tick ==
  /\ \/ \E f \in DOMAIN queue : Earlier(queue[f].wait) # queue[f].wait
     \/ \E f \in DOMAIN results : Earlier(results[f].wait) # results[f].wait
  /\ queue' = [f \in DOMAIN queue |-> [queue[f] EXCEPT !.wait = Earlier(@)]]
  /\ results' = [f \in DOMAIN results |-> [results[f] EXCEPT !.wait = Earlier(@)]]
  /\ UNCHANGED <<blocks, data, batch, interrupts, history, resets, content>>

-----------------------------------------------------------------------------
LoadSome == \E f \in Flip, ok \in BOOLEAN : GetFlipContent(f, ok)

Next ==
  \/ \E new \in SUBSET Flip : SaveBlock(new)
  \/ \E keyed \in SUBSET Flip, delay \in {-MaxOverdue, FirstDelay} :
       SaveLastBlock(keyed, delay)
  \/ \E p \in 0 .. MaxHeight : ResetTo(p)
  \/ GetFlipsToLoadContent
  \/ LoadSome
  \/ Panic
  \/ SaveFlipsContent
  \/ LoseBatch
  \/ Tick

\* The loader's goroutine runs, requests to IPFS end one way or the other, and
\* time passes.  No request need ever succeed, no block need ever come.
Fairness ==
  /\ WF_vars(GetFlipsToLoadContent)
  /\ WF_vars(LoadSome)
  /\ WF_vars(SaveFlipsContent)
  /\ WF_vars(Tick)

Spec == Init /\ [][Next]_vars /\ Fairness

-----------------------------------------------------------------------------
(* Properties. *)

\* The tables and the loader's batch have the shape of their columns; in
\* particular no row's counter of attempts reaches the limit, which "==" in
\* handleFlips would then step over.
TypeOK ==
  /\ blocks \in Seq([flips : SUBSET Flip, last : BOOLEAN, keyed : SUBSET Flip])
  /\ DOMAIN queue \subseteq Flip
  /\ \A f \in DOMAIN queue : queue[f] \in Rows
  /\ data \subseteq Flip
  /\ DOMAIN batch \subseteq Flip
  /\ \A f \in DOMAIN batch : batch[f] \in 0 .. AttemptsLimit - 1
  /\ DOMAIN results \subseteq DOMAIN batch
  /\ \A f \in DOMAIN results : results[f] \in Results
  /\ content \in FlipContents
  /\ UNION {givenUp, early, discarded, overtaken} \subseteq Flip
  /\ resets \in 0 .. MaxResets
  /\ interrupts \in 0 .. MaxInterrupts

\* Every queued flip was queued by an epoch's last block that is still
\* recorded: a reset_to into an epoch, however often its blocks are replaced,
\* leaves no row behind that the epoch's new last block would collide with
\* (the unique index would refuse that block for ever).
QueuedByRecordedBlock == DOMAIN queue \subseteq Keyed

\* No flip of a finished epoch whose key is known is forgotten: it waits in
\* flips_queue, has its content, used up its attempts, or was discarded by a
\* reset_to that stopped exactly at the epoch's last block (which removes the
\* rows of an epoch whose result it keeps, and nothing queues them again).
NothingForgotten ==
  Keyed \subseteq DOMAIN queue \cup data \cup givenUp \cup discarded

\* flips_queue follows the recorded epochs through update_flips_queue,
\* reset_to and save_flips_content: it keeps no row of an epoch that was
\* reset and forgets no flip of one that was not.
QueueFollowsBlocks == TypeOK /\ QueuedByRecordedBlock /\ NothingForgotten

\* Only a batch that a reset_to overtook does harm: without one, no queued
\* flip already has its content (its batch would be refused every time, with
\* every other flip in it), and none is given up before its last attempt.
OnlyOvertakenGoAstray == (DOMAIN queue \cap data) \cup early \subseteq overtaken

\* The batch holds a flip that cannot be decoded or saved, yet is not counted
\* as failed: if IPFS keeps delivering it, every such batch is refused or
\* panics, and the same rows are selected again.
BatchIsPoisoned == \E f \in DOMAIN batch : content[f] # "readable"

\* Every queued flip leaves the queue, whatever IPFS answers, unless a row
\* whose content is already there or a flip whose content cannot be saved
\* blocks the batches.
QueueDrains ==
  \A f \in Flip :
    f \in DOMAIN queue ~>
      f \notin DOMAIN queue \/ DOMAIN queue \cap data # {} \/ BatchIsPoisoned
=============================================================================
