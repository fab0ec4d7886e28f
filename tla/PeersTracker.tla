---------------------------- MODULE PeersTracker ----------------------------
(***************************************************************************)
(* Counting the peers of the node (core/mempool/peers_tracker.go).         *)
(*                                                                         *)
(* The node publishes its connections from time to time.  AddPeersData,    *)
(* on the node's goroutine, puts them on a bounded channel and blocks      *)
(* while it is full; handlePeers moves them to a cache in which a peer     *)
(* lives for three hours after it was last put; track, after a first       *)
(* sleep of three hours, drops what has expired, counts the cache and      *)
(* saves the count, every hour, or a minute later if the save fails.       *)
(* Time is counted in hours.                                               *)
(***************************************************************************)
EXTENDS Naturals, Sequences, FiniteSets

CONSTANTS
  Peers,
  PeersQueueSize, \* the capacity of peersDataQueue
  Expiration,     \* expiration, in hours; the period is one hour
  MaxHours,       \* bound: hours that pass
  MaxPublished    \* bound: lists of connections the node publishes

ASSUME PeersAssumption ==
  /\ {PeersQueueSize, MaxHours, MaxPublished} \subseteq Nat
  /\ Expiration \in Nat \ {0}

VARIABLES
  hour,        \* hours since the start
  published,   \* lists of connections published so far
  peersQueue,  \* channel peersDataQueue
  peersCache,  \* peer -> the hour it expires, 0 if the cache has no such item
  tracker,     \* what track does: sleep, delete, count, save
  alarm,       \* the hour track wakes up
  counted,     \* the count in track's hands
  seen         \* history: peer -> the hour it was last put, if any

peersVars == <<hour, published, peersQueue, peersCache, tracker, alarm, counted,
               seen>>

PeersInit ==
  /\ hour = 0
  /\ published = 0
  /\ peersQueue = << >>
  /\ peersCache = [p \in Peers |-> 0]
  /\ tracker = "sleep"
  /\ alarm = Expiration
  /\ counted = 0
  /\ seen = [p \in Peers |-> {}]

\* An hour passes while track sleeps or the database is slow; a goroutine that
\* can go on does not take an hour.
Hour ==
  /\ hour < MaxHours
  /\ tracker = "save" \/ (tracker = "sleep" /\ hour < alarm)
  /\ peersQueue = << >>
  /\ hour' = hour + 1
  /\ UNCHANGED <<published, peersQueue, peersCache, tracker, alarm, counted,
                 seen>>

AddPeersData(ps) ==
  /\ published < MaxPublished
  /\ Len(peersQueue) < PeersQueueSize
  /\ published' = published + 1
  /\ peersQueue' = Append(peersQueue, ps)
  /\ UNCHANGED <<hour, peersCache, tracker, alarm, counted, seen>>

\* Set renews the expiration of a peer the cache knows.
handlePeers ==
  /\ peersQueue # << >>
  /\ peersQueue' = Tail(peersQueue)
  /\ LET ps == Head(peersQueue) IN
       /\ peersCache' = [p \in Peers |-> IF p \in ps THEN hour + Expiration
                                         ELSE peersCache[p]]
       /\ seen' = [p \in Peers |-> IF p \in ps THEN {hour} ELSE seen[p]]
  /\ UNCHANGED <<hour, published, tracker, alarm, counted>>

WakeUpTracker ==
  /\ tracker = "sleep"
  /\ hour >= alarm
  /\ tracker' = "delete"
  /\ UNCHANGED <<hour, published, peersQueue, peersCache, alarm, counted,
                 seen>>

\* Mutant: expired peers wait for the cache's own cleaning.
KeepExpired ==
  /\ tracker = "delete"
  /\ tracker' = "count"
  /\ UNCHANGED <<hour, published, peersQueue, peersCache, alarm, counted,
                 seen>>

DeleteExpired ==
  /\ tracker = "delete"
  /\ tracker' = "count"
  /\ peersCache' = [p \in Peers |-> IF peersCache[p] > hour THEN peersCache[p] ELSE 0]
  /\ UNCHANGED <<hour, published, peersQueue, alarm, counted, seen>>

ItemCount == Cardinality({p \in Peers : peersCache[p] # 0})

CountPeers ==
  /\ tracker = "count"
  /\ tracker' = "save"
  /\ counted' = ItemCount
  /\ UNCHANGED <<hour, published, peersQueue, peersCache, alarm, seen>>

\* The count is inserted, or fails and is taken again within the hour.
SavePeersCount(fails) ==
  /\ tracker = "save"
  /\ tracker' = "sleep"
  /\ alarm' = IF fails THEN hour ELSE hour + 1
  /\ UNCHANGED <<hour, published, peersQueue, peersCache, counted, seen>>

PeersNext ==
  \/ Hour
  \/ \E ps \in SUBSET Peers : AddPeersData(ps)
  \/ handlePeers
  \/ WakeUpTracker
  \/ DeleteExpired
  \/ CountPeers
  \/ \E fails \in BOOLEAN : SavePeersCount(fails)

-----------------------------------------------------------------------------
(* Properties. *)

\* The count that is saved is that of the peers seen within the last three
\* hours, whatever handlePeers puts into the cache between track's two calls.
CountedAreLive ==
  [][CountPeers => counted' = Cardinality({p \in Peers :
                                \E h \in seen[p] : hour - h < Expiration})]_peersVars
=============================================================================
