----------------------------- MODULE FlipLoader -----------------------------
(***************************************************************************)
(* Loading the sizes of flips (core/flip/flip_loader.go).                  *)
(*                                                                         *)
(* Three goroutines meet on two channels.  The block indexer, after it has *)
(* saved a block, submits the block's flips to the bounded channel         *)
(* "headers" and is blocked while it is full (loadFlips, SubmitToLoad).    *)
(* loadLoop wakes every hour, selects flips of the node's epoch that have  *)
(* no size, and hands them one by one over the unbuffered channel          *)
(* "headersToRetry".  processLoop takes from both, headers first, asks     *)
(* IPFS and writes the size; a failure is only logged.  What is in the     *)
(* channels does not survive a restart.                                    *)
(***************************************************************************)
EXTENDS Naturals, Sequences, FiniteSets

CONSTANTS
  Flip,         \* flip cids
  NoFlip,       \* processLoop holds no header
  ChanSize,     \* capacity of l.headers
  FlipsToRetry, \* flipsToRetry, the limit of the query
  MaxHeight,    \* bound: recorded blocks
  MaxResets,    \* bound: calls of reset_to
  MaxRestarts   \* bound: restarts of the process

ASSUME FlipLoaderAssumption ==
  /\ NoFlip \notin Flip
  /\ {ChanSize, FlipsToRetry} \subseteq Nat \ {0}
  /\ {MaxHeight, MaxResets, MaxRestarts} \subseteq Nat

VARIABLES
  chain,      \* for each recorded block, whether it ends its epoch
  rows,       \* table flips: cid -> [at, sized, deleted]; heights, 0 for none
  lottery,    \* the node has reached the flip lottery of its epoch
  submitting, \* the flips of the last saved block loadFlips has yet to submit
  headers,    \* channel l.headers
  retrying,   \* the cids loadLoop has yet to hand over
  looked,     \* processLoop is in its second select
  processing, \* the header processLoop is working on
  resets,
  restarts

db    == <<chain, rows, lottery, resets>>
tasks == <<submitting, headers, retrying, looked, processing>>
vars  == <<db, tasks, restarts>>

\* The sequences of n different members of S.
Listings(S, n) ==
  {s \in [1 .. n -> S] : \A i, j \in 1 .. n : s[i] = s[j] => i = j}

EpochOf(h) == Cardinality({g \in 1 .. h - 1 : chain[g]})
NodeEpoch  == EpochOf(Len(chain) + 1)

Init ==
  /\ chain = << >>
  /\ rows = [f \in {} |-> {}]
  /\ lottery = FALSE
  /\ submitting = << >>
  /\ headers = << >>
  /\ retrying = << >>
  /\ looked = FALSE
  /\ processing = NoFlip
  /\ resets = 0
  /\ restarts = 0

-----------------------------------------------------------------------------
(* The block indexer.  It handles a block only once the flips of the one
   before are submitted: submitting = << >> guards every step of its own. *)

\* A block that submits the flips of the sequence new and deletes those of old.
SaveBlock(new, old, last) ==
  LET h == Len(chain) + 1
      added == {new[i] : i \in 1 .. Len(new)}
  IN
  /\ submitting = << >>
  /\ h <= MaxHeight
  /\ added \cap DOMAIN rows = {}
  /\ old \subseteq {f \in DOMAIN rows : rows[f].deleted = 0}
  /\ chain' = Append(chain, last)
  /\ rows' = [f \in DOMAIN rows \cup added |->
                CASE f \in added -> [at |-> h, sized |-> FALSE, deleted |-> 0]
                  [] f \in old   -> [rows[f] EXCEPT !.deleted = h]
                  [] OTHER       -> rows[f]]
  /\ submitting' = new
  /\ lottery' = (lottery /\ ~last)
  /\ UNCHANGED <<headers, retrying, looked, processing, resets, restarts>>

StartLottery ==
  /\ ~lottery
  /\ lottery' = TRUE
  /\ UNCHANGED <<chain, rows, tasks, resets, restarts>>

\* reset_to(p): rows of removed blocks go, deletions by removed blocks are
\* undone, sizes of the rows that stay are kept.
ResetTo(p) ==
  /\ submitting = << >>
  /\ resets < MaxResets
  /\ p < Len(chain)
  /\ chain' = SubSeq(chain, 1, p)
  /\ rows' = [f \in {g \in DOMAIN rows : rows[g].at <= p} |->
                [rows[f] EXCEPT !.deleted = IF @ > p THEN 0 ELSE @]]
  /\ lottery' \in BOOLEAN
  /\ resets' = resets + 1
  /\ UNCHANGED <<tasks, restarts>>

SubmitToLoad ==
  /\ submitting # << >>
  /\ Len(headers) < ChanSize
  /\ headers' = Append(headers, Head(submitting))
  /\ submitting' = Tail(submitting)
  /\ UNCHANGED <<db, retrying, looked, processing, restarts>>

-----------------------------------------------------------------------------
(* processLoop. *)

\* Either select may take a header.
TakeHeader ==
  /\ processing = NoFlip
  /\ headers # << >>
  /\ processing' = Head(headers)
  /\ headers' = Tail(headers)
  /\ looked' = FALSE
  /\ UNCHANGED <<db, submitting, retrying, restarts>>

\* The first select finds no header and falls through.
FallThrough ==
  /\ processing = NoFlip
  /\ headers = << >>
  /\ ~looked
  /\ looked' = TRUE
  /\ UNCHANGED <<db, submitting, headers, retrying, processing, restarts>>

\* The second select, with loadLoop at its send.
TakeRetry ==
  /\ processing = NoFlip
  /\ looked
  /\ retrying # << >>
  /\ processing' = Head(retrying)
  /\ retrying' = Tail(retrying)
  /\ looked' = FALSE
  /\ UNCHANGED <<db, submitting, headers, restarts>>

\* processHeader when IPFS answers: "UPDATE flips SET size ... AND size = 0",
\* which touches no row if the flip's block is gone.
SaveFlipSize(f) ==
  /\ processing = f
  /\ rows' = [g \in DOMAIN rows |->
                IF g = f THEN [rows[g] EXCEPT !.sized = TRUE] ELSE rows[g]]
  /\ processing' = NoFlip
  /\ UNCHANGED <<chain, lottery, resets, submitting, headers, retrying, looked,
                 restarts>>

\* Mutant: a failed header is put back if the channel has room.
RequeueFailed(f) ==
  /\ processing = f
  /\ processing' = NoFlip
  /\ headers' = IF Len(headers) < ChanSize THEN Append(headers, f) ELSE headers
  /\ UNCHANGED <<db, submitting, retrying, looked, restarts>>

\* processHeader when it does not, or when the size cannot be written.
LoadFails(f) ==
  /\ processing = f
  /\ processing' = NoFlip
  /\ UNCHANGED <<db, submitting, headers, retrying, looked, restarts>>

-----------------------------------------------------------------------------
(* loadLoop. *)

\* Mutant: flips of the epoch before the node's.
PreviousEpochFlips ==
  {f \in DOMAIN rows : /\ EpochOf(rows[f].at) + 1 = NodeEpoch
                       /\ ~rows[f].sized
                       /\ rows[f].deleted = 0}

EpochFlipsWithoutSize ==
  {f \in DOMAIN rows : /\ EpochOf(rows[f].at) = NodeEpoch
                       /\ ~rows[f].sized
                       /\ rows[f].deleted = 0}

\* The hour has passed: at most FlipsToRetry flips, in no particular order.
WakeUp ==
  /\ retrying = << >>
  /\ ~lottery
  /\ \E n \in 1 .. FlipsToRetry :
       /\ n <= Cardinality(EpochFlipsWithoutSize)
       /\ n = FlipsToRetry \/ n = Cardinality(EpochFlipsWithoutSize)
       /\ retrying' \in Listings(EpochFlipsWithoutSize, n)
  /\ UNCHANGED <<db, submitting, headers, looked, processing, restarts>>

\* A restart: what was submitted, selected or being loaded is lost.
Restart ==
  /\ restarts < MaxRestarts
  /\ submitting' = << >>
  /\ headers' = << >>
  /\ retrying' = << >>
  /\ looked' = FALSE
  /\ processing' = NoFlip
  /\ restarts' = restarts + 1
  /\ UNCHANGED db

-----------------------------------------------------------------------------
Process == \E f \in Flip : SaveFlipSize(f) \/ LoadFails(f)

Next ==
  \/ \E n \in 0 .. Cardinality(Flip) :
       \E new \in Listings(Flip, n), old \in SUBSET Flip, last \in BOOLEAN :
         SaveBlock(new, old, last)
  \/ StartLottery
  \/ \E p \in 0 .. MaxHeight : ResetTo(p)
  \/ SubmitToLoad
  \/ TakeHeader
  \/ FallThrough
  \/ TakeRetry
  \/ Process
  \/ WakeUp
  \/ Restart

\* The goroutines run, every request to IPFS ends, with or without the flip,
\* and a select that is entered again and again takes each ready case at last.
Fairness ==
  /\ WF_vars(SubmitToLoad)
  /\ WF_vars(TakeHeader)
  /\ WF_vars(FallThrough)
  /\ SF_vars(TakeRetry)
  /\ WF_vars(Process)
  /\ WF_vars(WakeUp)

Spec == Init /\ [][Next]_vars /\ Fairness

-----------------------------------------------------------------------------
(* Properties. *)

\* The flip loader never stops the block indexer: loadFlips gets every flip of
\* the block into the bounded channel even if no flip can ever be loaded.
IndexerProceeds == submitting # << >> ~> submitting = << >>

\* A recorded flip of the node's epoch that still has to get its size.
Awaited(f) ==
  /\ f \in DOMAIN rows
  /\ ~rows[f].sized /\ rows[f].deleted = 0
  /\ ~ \E h \in rows[f].at .. Len(chain) : chain[h]

\* The network answers for a flip that is asked for again and again.
IpfsAnswers == \A f \in Flip : SF_vars(SaveFlipSize(f))

\* If IPFS answers at last, a flip gets its size although the first request
\* failed, or its header was lost with the process before or after it was
\* submitted: the hourly retry finds it while it is recorded, not deleted, and
\* its epoch is the node's and before the lottery.
EveryFlipIsSized ==
  IpfsAnswers => \A f \in Flip : Awaited(f) ~> ~Awaited(f) \/ lottery
=============================================================================
