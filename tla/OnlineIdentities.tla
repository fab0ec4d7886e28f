-------------------------- MODULE OnlineIdentities --------------------------
(***************************************************************************)
(* The cache of identities, validators, stakes and pools and the paged     *)
(* reading of it (core/holder/online/online.go, core/api/api.go).          *)
(*                                                                         *)
(* Once a minute the updater takes a read-only state of the node's head,   *)
(* goes over its identities in the order of their addresses and builds the *)
(* eight fields of the cache; set then assigns them one by one, with no    *)
(* lock.  The API reads a field at a time; it hands out lists page by page *)
(* with a token that is the index of the next entry, so that an update may *)
(* come between two pages.                                                 *)
(***************************************************************************)
EXTENDS Naturals, Sequences, FiniteSets, FiniteSetsExt, SequencesExt, Functions

CONSTANTS
  NodeAddresses, \* the addresses in their order, a sequence
  NodeStates,    \* states of the node: address -> [validated, delegatee, online,
                 \* stake, activity], see NodeStateOK
  NoAddress,
  PageSize,      \* count, the page a client asks for
  MaxUpdates     \* bound: updates of the cache

Addr == Range(NodeAddresses)

IsPool(w, a)   == \E d \in Addr : w[d].validated /\ w[d].delegatee = a
PoolSize(w, a) == Cardinality({d \in Addr : w[d].validated /\ (w[d].delegatee = a \/ d = a)})

\* What the node sees to: a stake is a number or nil, a pool delegates to nobody,
\* and online are pools and validated identities that do not delegate.
NodeStateOK(w) ==
  /\ w \in [Addr -> [validated : BOOLEAN, delegatee : Addr \cup {NoAddress}, online : BOOLEAN,
                     stake : SUBSET Nat, activity : Nat]]
  /\ \A a \in Addr :
       /\ \A x, y \in w[a].stake : x = y
       /\ w[a].delegatee # NoAddress => w[a].delegatee # a
       /\ w[a].delegatee # NoAddress => w[w[a].delegatee].delegatee = NoAddress
       /\ w[a].online => IsPool(w, a) \/ (w[a].validated /\ w[a].delegatee = NoAddress)

ASSUME OnlineIdentitiesAssumption ==
  /\ NodeAddresses \in Seq(Addr) /\ IsInjective(NodeAddresses)
  /\ NoAddress \notin Addr
  /\ \A w \in NodeStates : NodeStateOK(w)
  /\ PageSize \in Nat \ {0} /\ MaxUpdates \in Nat

CacheFields == <<"identities", "identitiesPerAddress", "onlineCount", "validators",
                 "onlineValidators", "staking", "forkCommitteeSize", "poolsPerAddress">>

VARIABLES
  cache,     \* field -> its value and the update it comes from
  built,     \* what update has built for set, the state it was built from
  setting,   \* the fields set has yet to assign
  updates,   \* updates so far
  client     \* a client that reads a list page by page

onlineVars == <<cache, built, setting, updates, client>>

Nothing == [identities |-> << >>, identitiesPerAddress |-> {}, onlineCount |-> 0,
            validators |-> << >>, onlineValidators |-> << >>,
            staking |-> [weight |-> 0, miners |-> << >>, minersWeight |-> 0, max |-> 0],
            forkCommitteeSize |-> 0, poolsPerAddress |-> {}, delegatees |-> {}]

NoClient == [list |-> "none", token |-> 0, got |-> << >>, of |-> {}]

\* The constructor sets empty fields before it starts the updater.
OnlineInit ==
  /\ cache = [f \in Range(CacheFields) |-> [value |-> Nothing[f], update |-> 0]]
  /\ built = [fields |-> Nothing, state |-> << >>]
  /\ setting = << >>
  /\ updates = 0
  /\ client = NoClient

-----------------------------------------------------------------------------
(* update. *)

StakeOf(w, a) == IF w[a].stake = {} THEN 0 ELSE Max(w[a].stake)

\* buildValidator: nothing for who is neither a pool nor validates alone.
buildValidator(w, a) ==
  LET size == IF IsPool(w, a) THEN PoolSize(w, a)
              ELSE IF w[a].validated /\ w[a].delegatee = NoAddress THEN 1 ELSE 0
  IN IF size = 0 THEN << >> ELSE <<[address |-> a, size |-> size, online |-> w[a].online]>>

\* Where sort.Search finds the first greater value.
FirstGreater(values, value) ==
  CHOOSE n \in 1 .. Len(values) + 1 :
    /\ \A i \in 1 .. n - 1 : values[i] <= value
    /\ n <= Len(values) => values[n] > value

\* The value goes before the first greater one.
addToSorted(values, value) == InsertAt(values, FirstGreater(values, value), value)

\* The weights: of all who validated, and of those who mine, alone or in a pool.
AddStaking(w, a, st) ==
  LET weight == StakeOf(w, a)
      mines  == w[a].online \/ (w[a].delegatee # NoAddress /\ w[w[a].delegatee].online)
  IN IF ~w[a].validated THEN st
     ELSE [weight |-> st.weight + weight,
           miners |-> IF mines THEN addToSorted(st.miners, weight) ELSE st.miners,
           minersWeight |-> st.minersWeight + (IF mines THEN weight ELSE 0),
           max |-> IF mines /\ weight > st.max THEN weight ELSE st.max]

PoolOf(pools, p) == {q \in pools : q.address = p}
Validated(w, a)  == IF w[a].validated THEN StakeOf(w, a) ELSE 0

\* Mutant: a pool's own stake is added with every delegator.
AddOwnAgain(w, a, pools) ==
  LET p   == w[a].delegatee
      old == IF PoolOf(pools, p) = {} THEN [total |-> 0, validated |-> 0]
             ELSE CHOOSE q \in PoolOf(pools, p) : TRUE
  IN IF p = NoAddress \/ w[a].stake = {} THEN pools
     ELSE (pools \ PoolOf(pools, p)) \cup
          {[address |-> p, total |-> old.total + StakeOf(w, p) + StakeOf(w, a),
            validated |-> old.validated + Validated(w, p) + Validated(w, a)]}

\* A delegator's stake is added to its pool, which starts with its own.
AddToPool(w, a, pools) ==
  LET p   == w[a].delegatee
      old == IF PoolOf(pools, p) = {}
               THEN [total |-> StakeOf(w, p), validated |-> Validated(w, p)]
             ELSE CHOOSE q \in PoolOf(pools, p) : TRUE
  IN IF p = NoAddress \/ w[a].stake = {} THEN pools
     ELSE (pools \ PoolOf(pools, p)) \cup
          {[address |-> p, total |-> old.total + StakeOf(w, a),
            validated |-> old.validated + Validated(w, a)]}

\* The callback of IterateOverIdentities.  An identity met before as the
\* delegatee of another is listed as it was built then, with no delegatee.
Visit(w, a, acc) ==
  LET v          == buildValidator(w, a)
      delegatees == acc.delegatees \cup ({w[a].delegatee} \ {NoAddress})
      identity   == [address |-> a,
                     delegatee |-> IF a \in delegatees THEN NoAddress ELSE w[a].delegatee]
  IN [acc EXCEPT
        !.staking = AddStaking(w, a, @),
        !.validators = @ \o v,
        !.onlineValidators = @ \o (IF w[a].online THEN v ELSE << >>),
        !.poolsPerAddress = AddToPool(w, a, @),
        !.onlineCount = @ + (IF ~w[a].online THEN 0
                             ELSE IF IsPool(w, a) THEN PoolSize(w, a) ELSE 1),
        !.delegatees = delegatees,
        !.identities = IF w[a].validated THEN Append(@, identity) ELSE @,
        !.identitiesPerAddress = IF w[a].validated THEN @ \cup {identity} ELSE @]

\* What has been built after each of the identities.
Visited(w) ==
  LET after[n \in 0 .. Len(NodeAddresses)] ==
        IF n = 0 THEN Nothing ELSE Visit(w, NodeAddresses[n], after[n - 1])
  IN  after

\* sort.Slice: the entries with greater keys first, those of one key in any order.
\* Key gives the key of each index.
Order(key) ==
  CHOOSE p \in SetToSeqs(DOMAIN key) : \A i, j \in DOMAIN p : i < j => key[p[i]] >= key[p[j]]
Descending(s, key) == [i \in DOMAIN s |-> s[Order(key)[i]]]

Activities(w, s) == [i \in DOMAIN s |-> w[s[i].address].activity]
Sizes(s)         == [i \in DOMAIN s |-> s[i].size]

\* The node's own number; it follows who is online.
ForkCommitteeSize(w) == Cardinality({a \in Addr : w[a].online})

\* The last active first, who never was active last; validators by size.
Sorted(w, acc) ==
  [acc EXCEPT
     !.forkCommitteeSize = ForkCommitteeSize(w),
     !.identities = Descending(@, Activities(w, @)),
     !.validators = Descending(@, Sizes(@)),
     !.onlineValidators = Descending(@, Sizes(@))]

\* One pass over a read-only state of the head; no head, no update.
update(w) ==
  /\ setting = << >>
  /\ updates < MaxUpdates
  /\ updates' = updates + 1
  /\ built' = [fields |-> Sorted(w, Visited(w)[Len(NodeAddresses)]), state |-> <<w>>]
  /\ setting' = CacheFields
  /\ UNCHANGED <<cache, client>>

\* set: the next assignment.
set ==
  /\ setting # << >>
  /\ cache' = [cache EXCEPT ![Head(setting)] =
                 [value |-> built.fields[Head(setting)], update |-> updates]]
  /\ setting' = Tail(setting)
  /\ UNCHANGED <<built, updates, client>>

-----------------------------------------------------------------------------
(* The API: a client reads a list to its end. *)

\* Mutant: a token also when the page ends with the list.
AlwaysToken(all, start) == Len(all) >= start + PageSize

\* There is a next page.
HasNext(all, start) == Len(all) > start + PageSize

\* Entries start .. start + count - 1 of the list as it is now.
ReadPage(list) ==
  LET all   == cache[list].value
      start == IF client = NoClient THEN 0 ELSE client.token
      page  == SubSeq(all, start + 1, Min({Len(all), start + PageSize}))
  IN
  /\ client = NoClient \/ (client.list = list /\ client.token # 0)
  /\ client' = [list |-> list,
                token |-> IF HasNext(all, start) THEN start + PageSize ELSE 0,
                got |-> client.got \o <<page>>,
                of |-> client.of \cup {cache[list].update}]
  /\ UNCHANGED <<cache, built, setting, updates>>

GetOnlineIdentities == ReadPage("identities")

Validators == ReadPage("validators")

OnlineValidators == ReadPage("onlineValidators")

\* The client has the last page and starts anew some day.
EndOfList ==
  /\ client # NoClient /\ client.token = 0
  /\ client' = NoClient
  /\ UNCHANGED <<cache, built, setting, updates>>

-----------------------------------------------------------------------------
OnlineNext ==
  \/ \E w \in NodeStates : update(w)
  \/ set
  \/ GetOnlineIdentities
  \/ Validators
  \/ OnlineValidators
  \/ EndOfList

-----------------------------------------------------------------------------
(* Properties. *)

\* A field is never older than one that set assigns after it, nor by more than
\* one update newer: readers mix at most two neighbouring updates.
OnlineTypeOK ==
  /\ updates \in 0 .. MaxUpdates
  /\ \A i, j \in DOMAIN CacheFields :
       i < j => cache[CacheFields[i]].update - cache[CacheFields[j]].update \in {0, 1}

\* Every page but an empty list's only one has an entry, and a client that reads
\* a list to its end (GetOnlineIdentities, Validators, OnlineValidators) while no
\* update replaces it gets every entry once and in order.
PagesCoverTheList ==
  /\ \A i \in 2 .. Len(client.got) : client.got[i] = << >> => Cardinality(client.of) > 1
  /\ client # NoClient /\ client.token = 0 /\ client.of = {cache[client.list].update}
       => FlattenSeq(client.got) = cache[client.list].value

\* The number of those online (GetOnlineCount) is the size of all online
\* validators, though update counts the one by the status of an address and the
\* other by its validation and delegation, and readers may mix both.
OnlineCountMatchesValidators ==
  cache["onlineCount"].update = cache["onlineValidators"].update =>
    cache["onlineCount"].value
      = SumFunction([v \in Range(cache["onlineValidators"].value) |-> v.size])

\* Every validated identity is listed once and with its own delegatee, a pool
\* met first as somebody's delegatee included, and the totals of a pool are its
\* own stake and that of its delegators, each counted once (update).
ListsMatchTheState ==
  \A w \in Range(built.state) :
    LET f == built.fields IN
    /\ Range(f.identities) = f.identitiesPerAddress
    /\ f.identitiesPerAddress = {[address |-> a, delegatee |-> w[a].delegatee] :
                                   a \in {b \in Addr : w[b].validated}}
    /\ Len(f.identities) = Cardinality(f.identitiesPerAddress)
    /\ \A p \in f.poolsPerAddress :
         LET members == {a \in Addr : w[a].delegatee = p.address \/ a = p.address} IN
         /\ p.total = SumFunction([a \in members |-> StakeOf(w, a)])
         /\ p.validated = SumFunction([a \in members |-> Validated(w, a)])

\* The weights of the miners, from which the averages are sampled by index, are in
\* order, add up to the miners' weight and end with the greatest (addToSorted).
MinerWeightsAreSorted ==
  LET st == built.fields.staking IN
  /\ \A i \in 2 .. Len(st.miners) : st.miners[i - 1] <= st.miners[i]
  /\ SumFunction(st.miners) = st.minersWeight
  /\ st.miners # << >> => Last(st.miners) = st.max
  /\ st.minersWeight <= st.weight

\* What one update of the cache computes describes the node's state it was
\* computed from (update, set): the number online, the identities, the pools
\* and the weights of the miners.
OnlineCacheIsSound ==
    /\ OnlineTypeOK
    /\ OnlineCountMatchesValidators
    /\ ListsMatchTheState
    /\ MinerWeightsAreSorted
=============================================================================
