----------------------------- MODULE DataService -----------------------------
(***************************************************************************)
(* The service that refreshes derived data (data/service.go,               *)
(* db/postgres_data.go).                                                   *)
(*                                                                         *)
(* The block loop publishes where the chain is, and the handlers of its    *)
(* events write it to the four fields of the service's state with no lock: *)
(* all at once in a new state after a start or a reset (CurrentEpochEvent) *)
(* and otherwise field by field (NewEpochEvent, NewBlockEvent).  Once a    *)
(* minute the observer goes through the list of data, reads some of the    *)
(* fields one by one and decides what to refresh: data of a day or an hour *)
(* not during a validation nor shortly after it, data of an epoch once for *)
(* every epoch it reads.  A round takes the time once, when it begins, and *)
(* decides by it, but a procedure runs when those of the items before it   *)
(* are done, which may be much later: Tick may come anywhere between.      *)
(***************************************************************************)
EXTENDS Naturals, Sequences, FiniteSets, SequencesExt

CONSTANTS
  Items,                 \* name -> [period, delay]; period 0 stands for the epoch
  BlocksAfterValidation, \* blocksAfterValidation
  PostponedBy,           \* minutesAfterValidation, in units of time
  HeightWord,            \* 2^64
  MaxBlocks,             \* bound: height of the chain
  MaxForks,              \* bound: resets
  MaxNow                 \* bound: time

ASSUME DataServiceAssumption ==
  /\ IsFiniteSet(DOMAIN Items)
  /\ \A i \in DOMAIN Items : Items[i].period \in Nat /\ Items[i].delay \subseteq Nat
  /\ {BlocksAfterValidation, PostponedBy, MaxBlocks, MaxForks, MaxNow} \subseteq Nat
  /\ HeightWord \in Nat /\ HeightWord > MaxBlocks + BlocksAfterValidation

VARIABLES
  blocks,      \* what each recorded block says: [height, epoch, epochHeight, validation]
  forks,       \* resets so far
  fields,      \* service.state, a sequence: empty before the first event
  writing,     \* the fields the handlers of the block's events have yet to write
  now,
  refreshTime, \* table data_state: name -> refresh_time, {} if null
  refreshEpoch,
  observer,    \* the observer's goroutine, see Sleeping
  refreshed,   \* history: name -> its refreshes: the time the round began with and
               \* the time of the refresh, or the epoch that was read
  sawQuiet     \* history: since the observer began to read the fields, the chain
               \* was outside a validation, or was reset

dataVars == <<blocks, forks, fields, writing, now, refreshTime, refreshEpoch,
              observer, refreshed, sawQuiet>>

\* pc, the names still to be checked, the time of this round, and what was read.
Sleeping == [pc |-> "sleep", todo |-> << >>, at |-> 0, height |-> 0, epoch |-> 0,
             isValidation |-> FALSE]

DataInit ==
  /\ blocks = << >>
  /\ forks = 0
  /\ fields = << >>
  /\ writing = << >>
  /\ now = 0
  /\ refreshTime = [i \in DOMAIN Items |-> {}]
  /\ refreshEpoch = [i \in DOMAIN Items |-> {}]
  /\ observer = Sleeping
  /\ refreshed = [i \in DOMAIN Items |-> << >>]
  /\ sawQuiet = FALSE

Quiet(b) == ~b.validation /\ b.height - b.epochHeight >= BlocksAfterValidation

-----------------------------------------------------------------------------
(* The block loop and the handlers of its events. *)

\* A block on top of the block p: it may end the validation and with it the epoch.
BlockOn(p, validation, finished) ==
  LET old == IF p = 0 THEN [height |-> 0, epoch |-> 1, epochHeight |-> 0,
                            validation |-> FALSE]
             ELSE blocks[p]
  IN [height |-> p + 1,
      epoch |-> IF finished THEN old.epoch + 1 ELSE old.epoch,
      epochHeight |-> IF finished THEN p + 1 ELSE old.epochHeight,
      validation |-> validation]

\* The node ends an epoch with its validation, and the next one comes long after.
MayFollow(p, validation, finished) ==
  /\ finished => p > 0 /\ blocks[p].validation /\ ~validation
  /\ p > 0 /\ blocks[p].validation => validation \/ finished
  /\ p > 0 /\ validation => blocks[p].validation \/ Quiet(blocks[p])

\* Mutant: the period before the height.
PeriodFirst(finished) ==
  (IF finished THEN <<"epoch", "epochHeight">> ELSE << >>) \o <<"validation", "height">>

\* The order of the assignments in the handlers of NewEpochEvent and NewBlockEvent.
Assignments(finished) ==
  (IF finished THEN <<"epoch", "epochHeight">> ELSE << >>) \o <<"height", "validation">>

IndexBlock(validation, finished) ==
  LET p == Len(blocks) IN
  /\ p > 0 /\ p < MaxBlocks
  /\ writing = << >>
  /\ MayFollow(p, validation, finished)
  /\ blocks' = Append(blocks, BlockOn(p, validation, finished))
  /\ writing' = Assignments(finished)
  /\ sawQuiet' = (sawQuiet \/ Quiet(Last(blocks')))
  /\ UNCHANGED <<forks, fields, now, refreshTime, refreshEpoch, observer, refreshed>>

\* The first block after a start or a reset to p: CurrentEpochEvent carries the
\* node's head, which is this block, and its own events then change nothing.
IndexAfterReset(p, validation, finished) ==
  /\ p < MaxBlocks
  /\ writing = << >>
  /\ IF blocks = << >> THEN p = 0 /\ forks' = forks
     ELSE p < Len(blocks) /\ forks < MaxForks /\ forks' = forks + 1
  /\ MayFollow(p, validation, finished)
  /\ LET b == BlockOn(p, validation, finished) IN
       /\ blocks' = Append(SubSeq(blocks, 1, p), b)
       /\ fields' = <<b>>
  /\ sawQuiet' = TRUE
  /\ UNCHANGED <<writing, now, refreshTime, refreshEpoch, observer, refreshed>>

\* One assignment; after the last one the fields are those of the block.
WriteField ==
  /\ writing # << >>
  /\ writing' = Tail(writing)
  /\ fields' = <<[fields[1] EXCEPT ![Head(writing)] = Last(blocks)[Head(writing)]]>>
  /\ UNCHANGED <<blocks, forks, now, refreshTime, refreshEpoch, observer,
                 refreshed, sawQuiet>>

Tick ==
  /\ now < MaxNow
  /\ now' = now + 1
  /\ UNCHANGED <<blocks, forks, fields, writing, refreshTime, refreshEpoch,
                 observer, refreshed, sawQuiet>>

-----------------------------------------------------------------------------
(* observe. *)

\* A round begins: the state is there, and the list can be read and has items.
GetDataList ==
  /\ observer.pc = "sleep"
  /\ fields # << >> /\ DOMAIN Items # {}
  /\ observer' = [Sleeping EXCEPT !.pc = "item", !.todo = SetToSeq(DOMAIN Items),
                                  !.at = now]
  /\ UNCHANGED <<blocks, forks, fields, writing, now, refreshTime, refreshEpoch,
                 refreshed, sawQuiet>>

ObserverTurns(new) ==
  /\ observer' = new
  /\ UNCHANGED <<blocks, forks, fields, writing, now, refreshTime, refreshEpoch,
                 refreshed>>

Item == Head(observer.todo)

\* The item is done.
NextItem ==
  IF Len(observer.todo) = 1 THEN Sleeping
  ELSE [observer EXCEPT !.pc = "item", !.todo = Tail(@), !.height = 0, !.epoch = 0,
                        !.isValidation = FALSE]

\* isValidation: the period decides alone if it is that of a validation.
ReadPeriod ==
  /\ observer.pc = "item" /\ Items[Item].period > 0
  /\ ObserverTurns([observer EXCEPT !.pc = IF fields[1].validation THEN "decide" ELSE "height",
                                    !.isValidation = fields[1].validation])
  /\ sawQuiet' = \/ Quiet(Last(blocks))
                 \/ writing # << >> /\ Quiet(blocks[Len(blocks) - 1])

ReadHeight ==
  /\ observer.pc = "height"
  /\ ObserverTurns([observer EXCEPT !.pc = "epochHeight", !.height = fields[1].height])
  /\ UNCHANGED sawQuiet

\* height - epochHeight on uint64.
ReadEpochHeight ==
  /\ observer.pc = "epochHeight"
  /\ ObserverTurns([observer EXCEPT !.pc = "decide",
       !.isValidation = (observer.height + HeightWord - fields[1].epochHeight) % HeightWord
                        < BlocksAfterValidation])
  /\ UNCHANGED sawQuiet

Delay(i) == IF Items[i].delay = {} THEN 0 ELSE CHOOSE d \in Items[i].delay : TRUE
Due(i)   == \A t \in refreshTime[i] : t < observer.at
Truncated(i) == observer.at - (observer.at % Items[i].period)

\* UpdateRefreshTime leaves the epoch of the row.
UpdateRefreshTime(i, t) ==
  /\ refreshTime' = [refreshTime EXCEPT ![i] = {t}]
  /\ UNCHANGED <<refreshEpoch, refreshed>>

\* Refresh: the procedure and the row of the state, in one transaction.
Refresh(i, times, epochs, done) ==
  /\ refreshTime' = [refreshTime EXCEPT ![i] = times]
  /\ refreshEpoch' = [refreshEpoch EXCEPT ![i] = epochs]
  /\ refreshed' = [refreshed EXCEPT ![i] = Append(@, done)]

NextRefreshTime(i) == Truncated(i) + Items[i].period + Delay(i)

\* The rest of a day's or an hour's item; fails says that the database refuses.
DecidePeriod(fails) ==
  LET i == Item IN
  /\ observer.pc = "decide" /\ Items[i].period > 0
  /\ observer' = NextItem
  /\ CASE fails \/ (refreshTime[i] # {} /\ ~Due(i)) ->
            UNCHANGED <<refreshTime, refreshEpoch, refreshed>>
       [] ~fails /\ refreshTime[i] = {} /\ Items[i].delay # {} ->
            UpdateRefreshTime(i, Truncated(i) + Delay(i))
       [] ~fails /\ Due(i) /\ ~(refreshTime[i] = {} /\ Items[i].delay # {}) ->
            IF observer.isValidation THEN UpdateRefreshTime(i, observer.at + PostponedBy)
            ELSE Refresh(i, {NextRefreshTime(i)}, {}, [began |-> observer.at, at |-> now])
  /\ UNCHANGED <<blocks, forks, fields, writing, now, sawQuiet>>

ReadEpoch ==
  /\ observer.pc = "item" /\ Items[Item].period = 0
  /\ ObserverTurns([observer EXCEPT !.pc = "decide", !.epoch = fields[1].epoch])
  /\ UNCHANGED sawQuiet

NextEpoch(e) == e + 1

\* The rest of an epoch's item.
DecideEpoch(fails) ==
  LET i == Item IN
  /\ observer.pc = "decide" /\ Items[i].period = 0
  /\ observer' = NextItem
  /\ CASE fails \/ \E e \in refreshEpoch[i] : observer.epoch < e ->
            UNCHANGED <<refreshTime, refreshEpoch, refreshed>>
       [] ~fails /\ \A e \in refreshEpoch[i] : observer.epoch >= e ->
            IF refreshTime[i] = {} /\ Items[i].delay # {}
              THEN UpdateRefreshTime(i, observer.at + Delay(i))
            ELSE IF Due(i)
              THEN Refresh(i, {}, {NextEpoch(observer.epoch)}, observer.epoch)
            ELSE UNCHANGED <<refreshTime, refreshEpoch, refreshed>>
  /\ UNCHANGED <<blocks, forks, fields, writing, now, sawQuiet>>

-----------------------------------------------------------------------------
DataNext ==
  \/ \E validation, finished \in BOOLEAN :
       \/ IndexBlock(validation, finished)
       \/ \E p \in 0 .. MaxBlocks : IndexAfterReset(p, validation, finished)
  \/ WriteField
  \/ Tick
  \/ GetDataList
  \/ ReadPeriod
  \/ ReadHeight
  \/ ReadEpochHeight
  \/ ReadEpoch
  \/ \E fails \in BOOLEAN : DecidePeriod(fails) \/ DecideEpoch(fails)

-----------------------------------------------------------------------------
(* Properties. *)

\* The fields are those of the last block once its events are handled.
DataTypeOK ==
  /\ Len(blocks) <= MaxBlocks
  /\ writing = << >> /\ blocks # << >> => fields = <<Last(blocks)>>
  /\ now \in 0 .. MaxNow
  /\ observer.pc \in {"sleep", "item", "height", "epochHeight", "decide"}
  /\ observer.at <= now

\* Data of a day or an hour is refreshed (observe) only if the chain has been out
\* of the validation, and BlocksAfterValidation blocks past it, since the observer
\* began to look, or was reset meanwhile: neither the fields of two blocks read
\* together nor the unsigned difference height - epochHeight of a half-written
\* epoch can hide a validation.
RefreshesAvoidValidation ==
  observer.pc = "decide" /\ Items[Item].period > 0 /\ ~observer.isValidation
    => sawQuiet

\* The day or the hour of a time.
PeriodOf(i, t) == t \div Items[i].period

\* By the clock, data of a day or an hour is refreshed (observe, Refresh) at most
\* twice in it, whatever is postponed or fails: twice only if the first of the
\* two rounds began before that day or hour and outran it, so that the next time
\* it stored was the day's or the hour's own beginning.
RefreshesAreSpaced ==
  \A i \in DOMAIN Items : Items[i].period > 0 =>
    LET done == refreshed[i] IN
    \A j, k \in DOMAIN done : j < k /\ PeriodOf(i, done[j].at) = PeriodOf(i, done[k].at) =>
      k = j + 1 /\ PeriodOf(i, done[j].began) < PeriodOf(i, done[j].at)

\* Data of an epoch is refreshed once for every epoch the observer reads, and
\* never for an earlier one, though a reset takes the epochs back.
EpochsAreRefreshedOnce ==
  \A i \in DOMAIN Items : Items[i].period = 0 =>
    \A j, k \in DOMAIN refreshed[i] : j < k => refreshed[i][j] < refreshed[i][k]

\* observe refreshes data neither around a validation nor, but for a round that
\* outruns its hour or day, twice in its period, though it reads the fields of
\* the state one by one while the handlers write them.
RefreshesAreInTime ==
  DataTypeOK /\ RefreshesAvoidValidation /\ RefreshesAreSpaced /\ EpochsAreRefreshedOnce
=============================================================================
