--------------------------- MODULE MemPoolIndexer ---------------------------
(***************************************************************************)
(* The times at which validation actions are seen in the mempool:          *)
(* core/mempool/mempool.go and save_mem_pool_data.  Four kinds of actions  *)
(* (flip key packages, flip keys, answer hashes, short answers) go the     *)
(* same way, each through a channel, a listener goroutine and a cache of   *)
(* its own; the saver takes the caches one after the other, writes what it *)
(* got in one transaction and puts it back when that fails.  Destroy saves *)
(* once more when the node has stopped.                                    *)
(*                                                                         *)
(* Abstractions.  An action is a key (address and epoch) and the time it   *)
(* was stamped with.                                                       *)
(***************************************************************************)
EXTENDS Integers, Sequences, SequencesExt

CONSTANTS
    KindOrder, \* the kinds of actions, in the order the saver takes them
    Keys,      \* the addresses and epochs of valid actions
    Invalid,   \* the key of an action whose signature names no sender
    QueueSize, \* the capacity of the channels
    MaxActions \* bound: how many actions are published

ASSUME MemPoolIndexerAssumption ==
    /\ KindOrder \in Seq(Range(KindOrder)) /\ IsInjective(KindOrder)
    /\ Invalid \notin Keys
    /\ QueueSize \in Nat \ {0} /\ MaxActions \in Nat

Kinds  == Range(KindOrder)
NoTime == 0

VARIABLES
    clock,   \* how many actions have been published
    chan,    \* the channel of each kind
    hand,    \* what each listener has received and not yet cached
    cache,   \* the cache of each kind
    spc,     \* where saveData is
    taken,   \* of how many kinds the saver has emptied, or refilled, the cache
    batch,   \* what it has taken of each kind
    closing, \* has Destroy been called?
    table,   \* database: the time recorded for each kind and key
    seen     \* history: the valid keys published since the process started

memVars   == <<chan, hand, cache>>
saverVars == <<spc, taken, batch, closing>>
vars      == <<clock, memVars, saverVars, table, seen>>

Nothing == [k \in Kinds |-> <<>>]

-----------------------------------------------------------------------------

\* The handler of the node's event: it blocks while the channel is full.
Publish(k, key) ==
    /\ ~closing
    /\ clock < MaxActions
    /\ Len(chan[k]) < QueueSize
    /\ clock' = clock + 1
    /\ chan' = [chan EXCEPT ![k] = Append(@, [key |-> key, time |-> clock + 1])]
    /\ seen' = [seen EXCEPT ![k] = (@ \cup {key}) \ {Invalid}]
    /\ UNCHANGED <<hand, cache, saverVars, table>>

\* An action without a sender is logged and forgotten.
Receive(k) ==
    /\ hand[k] = <<>> /\ chan[k] # <<>>
    /\ hand' = [hand EXCEPT ![k] = IF Head(chan[k]).key = Invalid THEN <<>> ELSE <<Head(chan[k])>>]
    /\ chan' = [chan EXCEPT ![k] = Tail(@)]
    /\ UNCHANGED <<clock, cache, saverVars, table, seen>>

\* add...Timestamp, under the lock of the cache.
AddTimestamp(k) ==
    /\ hand[k] # <<>>
    /\ cache' = [cache EXCEPT ![k] = @ \o hand[k]]
    /\ hand' = [hand EXCEPT ![k] = <<>>]
    /\ UNCHANGED <<clock, chan, saverVars, table, seen>>

-----------------------------------------------------------------------------
(* saveData, under the lock of the indexer. *)

BeginSave ==
    /\ spc = "idle" /\ ~closing
    /\ spc' = "take" /\ taken' = 0
    /\ UNCHANGED <<clock, memVars, batch, closing, table, seen>>

Destroy ==
    /\ spc = "idle" /\ ~closing
    /\ spc' = "take" /\ taken' = 0
    /\ closing' = TRUE
    /\ UNCHANGED <<clock, memVars, batch, table, seen>>

\* Mutant: every getter empties the first cache.
TakeFirst ==
    /\ spc = "take" /\ taken < Len(KindOrder)
    /\ LET k == KindOrder[1]
       IN  /\ batch' = [batch EXCEPT ![k] = @ \o cache[k]]
           /\ cache' = [cache EXCEPT ![k] = <<>>]
    /\ taken' = taken + 1
    /\ UNCHANGED <<clock, chan, hand, spc, closing, table, seen>>

\* get...TimestampsToSave: take the whole cache of the next kind.
Take ==
    /\ spc = "take" /\ taken < Len(KindOrder)
    /\ LET k == KindOrder[taken + 1]
       IN  /\ batch' = [batch EXCEPT ![k] = cache[k]]
           /\ cache' = [cache EXCEPT ![k] = <<>>]
    /\ taken' = taken + 1
    /\ UNCHANGED <<clock, chan, hand, spc, closing, table, seen>>

\* The tables after the transaction: the first row of a key stays.
Inserted == [k \in Kinds |-> [key \in Keys |->
    LET mine == {i \in DOMAIN batch[k] : batch[k][i].key = key}
    IN  IF table[k][key] = NoTime /\ mine # {} THEN batch[k][Min(mine)].time ELSE table[k][key]]]

\* The transaction commits and its answer arrives; an empty batch needs none.
Save ==
    /\ spc = "take" /\ taken = Len(KindOrder)
    /\ table' = Inserted
    /\ batch' = Nothing
    /\ spc' = "idle"
    /\ UNCHANGED <<clock, memVars, taken, closing, seen>>

\* It fails, and the answer does not say whether before or after the commit.
Fail ==
    /\ spc = "take" /\ taken = Len(KindOrder) /\ batch # Nothing
    /\ table' \in {table, Inserted}
    /\ spc' = "back" /\ taken' = 0
    /\ UNCHANGED <<clock, memVars, batch, closing, seen>>

\* Mutant: what could not be saved replaces what has come in meanwhile.
PutBackOver ==
    /\ spc = "back"
    /\ LET k == KindOrder[taken + 1]
       IN  /\ cache' = [cache EXCEPT ![k] = batch[k]]
           /\ batch' = [batch EXCEPT ![k] = <<>>]
    /\ taken' = taken + 1
    /\ spc' = IF taken' = Len(KindOrder) THEN "idle" ELSE "back"
    /\ UNCHANGED <<clock, chan, hand, closing, table, seen>>

\* add...Timestamps: what could not be saved joins the cache again, behind
\* what has come in meanwhile.
PutBack ==
    /\ spc = "back"
    /\ LET k == KindOrder[taken + 1]
       IN  /\ cache' = [cache EXCEPT ![k] = @ \o batch[k]]
           /\ batch' = [batch EXCEPT ![k] = <<>>]
    /\ taken' = taken + 1
    /\ spc' = IF taken' = Len(KindOrder) THEN "idle" ELSE "back"
    /\ UNCHANGED <<clock, chan, hand, closing, table, seen>>

-----------------------------------------------------------------------------

\* The process ends, with Destroy or without it, and starts again.
Restart ==
    /\ chan' = Nothing /\ hand' = Nothing /\ cache' = Nothing /\ batch' = Nothing
    /\ spc' = "idle" /\ taken' = 0 /\ closing' = FALSE
    /\ seen' = [k \in Kinds |-> {}]
    /\ UNCHANGED <<clock, table>>

Init ==
    /\ clock = 0
    /\ chan = Nothing /\ hand = Nothing /\ cache = Nothing /\ batch = Nothing
    /\ spc = "idle" /\ taken = 0 /\ closing = FALSE
    /\ table = [k \in Kinds |-> [key \in Keys |-> NoTime]]
    /\ seen = [k \in Kinds |-> {}]

Listener(k) == Receive(k) \/ AddTimestamp(k)

Saver == BeginSave \/ Take \/ Save \/ PutBack

Next ==
    \/ \E k \in Kinds : Listener(k) \/ \E key \in Keys \cup {Invalid} : Publish(k, key)
    \/ Saver \/ Fail \/ Destroy \/ Restart

Spec == Init /\ [][Next]_vars

\* The goroutines run, and the database does not refuse for ever.
FairSpec ==
    /\ Spec
    /\ \A k \in Kinds : WF_vars(Listener(k))
    /\ WF_vars(BeginSave \/ Take \/ PutBack) /\ SF_vars(Save)

-----------------------------------------------------------------------------

Action == [key : Keys \cup {Invalid}, time : 1..MaxActions]

TypeOK ==
    /\ clock \in 0..MaxActions
    /\ chan \in [Kinds -> Seq(Action)] /\ \A k \in Kinds : Len(chan[k]) <= QueueSize
    /\ hand \in [Kinds -> Seq(Action)] /\ cache \in [Kinds -> Seq(Action)]
    /\ batch \in [Kinds -> Seq(Action)]
    /\ spc \in {"idle", "take", "back"} /\ taken \in 0..Len(KindOrder)
    /\ closing \in BOOLEAN
    /\ table \in [Kinds -> [Keys -> 0..MaxActions]]
    /\ seen \in [Kinds -> SUBSET Keys]

\* The actions of a kind that the process holds.
Held(k) == Range(chan[k]) \cup Range(hand[k]) \cup Range(cache[k]) \cup Range(batch[k])

\* As long as the process lives, every action it was told of is recorded or on
\* its way, wherever the saver is and whatever the database has answered.
NothingIsLost == \A k \in Kinds : \A key \in seen[k] :
    table[k][key] # NoTime \/ \E a \in Held(k) : a.key = key

\* No action is counted twice: it is in one place of the pipeline only, after
\* any number of failed saves and refills.
NothingIsDoubled == \A k \in Kinds :
    LET line == chan[k] \o hand[k] \o cache[k] \o batch[k]
    IN  \A i, j \in DOMAIN line : line[i].time = line[j].time => i = j

\* Every action the process was told of is in exactly one place of the
\* pipeline, from the listeners to the table, after any number of refused
\* saves (saveData) and refills.
NothingIsLostOrDoubled == TypeOK /\ NothingIsLost /\ NothingIsDoubled

\* Every action is recorded in the end, unless the process ends first.
EveryActionIsRecorded == \A k \in Kinds, key \in Keys :
    key \in seen[k] ~> table[k][key] # NoTime \/ key \notin seen[k] \/ closing
=============================================================================
