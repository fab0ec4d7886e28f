------------------------ MODULE MemPoolIndexerProofs ------------------------
(***************************************************************************)
(* Proofs about MemPoolIndexer, for every number of kinds, of keys and of  *)
(* actions and every capacity of the channels: no action is lost or        *)
(* doubled on its way to the tables, whatever the database answers.        *)
(***************************************************************************)
EXTENDS MemPoolIndexer, TLAPS, WellFoundedInduction

\* No two actions of a sequence, or of two, carry the same time.
Distinct(s) == \A i, j \in DOMAIN s : s[i].time = s[j].time => i = j
Apart(s, t) == \A i \in DOMAIN s, j \in DOMAIN t : s[i].time # t[j].time

\* The four places of the pipeline share no action, and none has one twice.
Places(c, h, s, b) ==
    /\ Distinct(c) /\ Distinct(h) /\ Distinct(s) /\ Distinct(b)
    /\ Apart(c, h) /\ Apart(c, s) /\ Apart(c, b) /\ Apart(h, s) /\ Apart(h, b) /\ Apart(s, b)

\* What the saver has taken, or put back, so far.
SaverInv ==
    /\ spc = "idle" => batch = Nothing
    /\ spc = "take" => \A i \in 1..Len(KindOrder) : i > taken => batch[KindOrder[i]] = <<>>
    /\ spc = "back" => /\ taken < Len(KindOrder)
                       /\ \A i \in 1..Len(KindOrder) : i <= taken => batch[KindOrder[i]] = <<>>

\* An action was stamped before now.
Stamped == \A k \in Kinds : \A a \in Held(k) : a.time <= clock

PlacesInv == \A k \in Kinds : Places(chan[k], hand[k], cache[k], batch[k])

PipelineInv == TypeOK /\ NothingIsLost /\ SaverInv /\ Stamped /\ PlacesInv

-----------------------------------------------------------------------------
(* Sequences of actions. *)

\* What is in a sequence made of two, and when it has nothing twice.
LEMMA Concatenation ==
    ASSUME NEW S, NEW s \in Seq(S), NEW t \in Seq(S)
    PROVE  /\ s \o t \in Seq(S)
           /\ Range(s \o t) = Range(s) \cup Range(t)
           /\ Distinct(s \o t) <=> Distinct(s) /\ Distinct(t) /\ Apart(s, t)
<1>1. /\ s \o t \in Seq(S) /\ DOMAIN s = 1..Len(s) /\ DOMAIN t = 1..Len(t)
      /\ Len(s) \in Nat /\ Len(t) \in Nat /\ Len(s \o t) = Len(s) + Len(t)
      /\ DOMAIN (s \o t) = 1..(Len(s) + Len(t))
      /\ \A i \in 1..(Len(s) + Len(t)) : (s \o t)[i] = IF i <= Len(s) THEN s[i] ELSE t[i - Len(s)]
  OBVIOUS
<1>2. /\ \A i \in 1..Len(s) : i \in 1..(Len(s) + Len(t)) /\ (s \o t)[i] = s[i]
      /\ \A j \in 1..Len(t) : Len(s) + j \in 1..(Len(s) + Len(t)) /\ (s \o t)[Len(s) + j] = t[j]
      /\ \A i \in 1..(Len(s) + Len(t)) : i \in 1..Len(s) \/ i - Len(s) \in 1..Len(t)
  BY <1>1
<1>3. Range(s \o t) \subseteq Range(s) \cup Range(t)
  <2> SUFFICES ASSUME NEW i \in 1..(Len(s) + Len(t)) PROVE (s \o t)[i] \in Range(s) \cup Range(t)
    BY <1>1 DEF Range
  <2>1. CASE i <= Len(s)
    <3>1. i \in 1..Len(s) /\ (s \o t)[i] = s[i] BY <2>1, <1>1
    <3> QED BY <3>1, <1>1 DEF Range
  <2>2. CASE ~(i <= Len(s))
    <3>1. i - Len(s) \in 1..Len(t) /\ (s \o t)[i] = t[i - Len(s)] BY <2>2, <1>1
    <3> QED BY <3>1, <1>1 DEF Range
  <2> QED BY <2>1, <2>2
<1>4. Range(s) \subseteq Range(s \o t) /\ Range(t) \subseteq Range(s \o t)
  <2>1. ASSUME NEW i \in 1..Len(s) PROVE s[i] \in Range(s \o t) BY <1>1, <1>2 DEF Range
  <2>2. ASSUME NEW j \in 1..Len(t) PROVE t[j] \in Range(s \o t)
    <3>1. Len(s) + j \in DOMAIN (s \o t) /\ (s \o t)[Len(s) + j] = t[j] BY <1>1, <1>2
    <3> QED BY <3>1 DEF Range
  <2> QED BY <2>1, <2>2, <1>1 DEF Range
<1>5. ASSUME Distinct(s), Distinct(t), Apart(s, t) PROVE Distinct(s \o t)
  <2> SUFFICES ASSUME NEW i \in 1..(Len(s) + Len(t)), NEW j \in 1..(Len(s) + Len(t)),
                      (s \o t)[i].time = (s \o t)[j].time
               PROVE  i = j
    BY <1>1 DEF Distinct
  <2>1. CASE i <= Len(s) /\ j <= Len(s)
    <3>1. i \in DOMAIN s /\ j \in DOMAIN s /\ (s \o t)[i] = s[i] /\ (s \o t)[j] = s[j] BY <2>1, <1>1
    <3> QED BY <3>1, <1>5 DEF Distinct
  <2>2. CASE i <= Len(s) /\ ~(j <= Len(s))
    <3>1. i \in DOMAIN s /\ j - Len(s) \in DOMAIN t /\ (s \o t)[i] = s[i] /\ (s \o t)[j] = t[j - Len(s)]
      BY <2>2, <1>1
    <3> QED BY <3>1, <1>5 DEF Apart
  <2>3. CASE ~(i <= Len(s)) /\ j <= Len(s)
    <3>1. j \in DOMAIN s /\ i - Len(s) \in DOMAIN t /\ (s \o t)[j] = s[j] /\ (s \o t)[i] = t[i - Len(s)]
      BY <2>3, <1>1
    <3> QED BY <3>1, <1>5 DEF Apart
  <2>4. CASE ~(i <= Len(s)) /\ ~(j <= Len(s))
    <3>1. /\ i - Len(s) \in DOMAIN t /\ j - Len(s) \in DOMAIN t
          /\ (s \o t)[i] = t[i - Len(s)] /\ (s \o t)[j] = t[j - Len(s)]
      BY <2>4, <1>1
    <3>2. i - Len(s) = j - Len(s) BY <3>1, <1>5 DEF Distinct
    <3> QED BY <3>2, <1>1
  <2> QED BY <2>1, <2>2, <2>3, <2>4
<1>6. ASSUME Distinct(s \o t) PROVE Distinct(s) /\ Distinct(t) /\ Apart(s, t)
  <2>1. Distinct(s) BY <1>1, <1>2, <1>6 DEF Distinct
  <2>2. Distinct(t)
    <3> SUFFICES ASSUME NEW i \in 1..Len(t), NEW j \in 1..Len(t), t[i].time = t[j].time PROVE i = j
      BY <1>1 DEF Distinct
    <3>1. /\ Len(s) + i \in DOMAIN (s \o t) /\ (s \o t)[Len(s) + i] = t[i]
          /\ Len(s) + j \in DOMAIN (s \o t) /\ (s \o t)[Len(s) + j] = t[j]
      BY <1>1, <1>2
    <3>2. Len(s) + i = Len(s) + j BY <3>1, <1>6 DEF Distinct
    <3> QED BY <3>2, <1>1
  <2>3. Apart(s, t)
    <3> SUFFICES ASSUME NEW i \in 1..Len(s), NEW j \in 1..Len(t), s[i].time = t[j].time PROVE FALSE
      BY <1>1 DEF Apart
    <3>1. /\ i \in DOMAIN (s \o t) /\ (s \o t)[i] = s[i]
          /\ Len(s) + j \in DOMAIN (s \o t) /\ (s \o t)[Len(s) + j] = t[j]
      BY <1>1, <1>2
    <3>2. i = Len(s) + j BY <3>1, <1>6 DEF Distinct
    <3> QED BY <3>2, <1>1
  <2> QED BY <2>1, <2>2, <2>3
<1> QED BY <1>1, <1>3, <1>4, <1>5, <1>6

\* Being apart is a matter of what is in the sequences.
LEMMA ApartByRange ==
    ASSUME NEW s, NEW t
    PROVE  Apart(s, t) <=> \A a \in Range(s), b \in Range(t) : a.time # b.time
BY DEF Apart, Range

\* A sequence without its first action.
LEMMA HeadAndTail ==
    ASSUME NEW S, NEW s \in Seq(S), s # <<>>
    PROVE  /\ Tail(s) \in Seq(S) /\ Head(s) \in S /\ Len(Tail(s)) = Len(s) - 1 /\ Len(s) \in Nat
           /\ Range(s) = {Head(s)} \cup Range(Tail(s))
           /\ Distinct(s) => Distinct(Tail(s)) /\ Apart(Tail(s), <<Head(s)>>)
<1>1. /\ Tail(s) \in Seq(S) /\ Head(s) \in S /\ Len(Tail(s)) = Len(s) - 1 /\ Len(s) \in Nat /\ Len(s) > 0
      /\ DOMAIN s = 1..Len(s) /\ DOMAIN Tail(s) = 1..(Len(s) - 1) /\ Head(s) = s[1]
      /\ \A i \in 1..(Len(s) - 1) : Tail(s)[i] = s[i + 1]
  OBVIOUS
<1>2. Range(s) = {Head(s)} \cup Range(Tail(s))
  <2>1. Head(s) \in Range(s) BY <1>1 DEF Range
  <2>2. Range(Tail(s)) \subseteq Range(s) BY <1>1 DEF Range
  <2>3. ASSUME NEW i \in 1..Len(s) PROVE s[i] \in {Head(s)} \cup Range(Tail(s))
    <3>1. CASE i = 1 BY <3>1, <1>1
    <3>2. CASE i # 1
      <4>1. i - 1 \in DOMAIN Tail(s) /\ Tail(s)[i - 1] = s[i] BY <3>2, <1>1
      <4> QED BY <4>1 DEF Range
    <3> QED BY <3>1, <3>2
  <2> QED BY <2>1, <2>2, <2>3, <1>1 DEF Range
<1>3. ASSUME Distinct(s) PROVE Distinct(Tail(s)) /\ Apart(Tail(s), <<Head(s)>>)
  <2>1. Distinct(Tail(s))
    <3> SUFFICES ASSUME NEW i \in 1..(Len(s) - 1), NEW j \in 1..(Len(s) - 1), Tail(s)[i].time = Tail(s)[j].time
                 PROVE  i = j
      BY <1>1 DEF Distinct
    <3>1. i + 1 \in DOMAIN s /\ j + 1 \in DOMAIN s /\ s[i + 1].time = s[j + 1].time BY <1>1
    <3>2. i + 1 = j + 1 BY <3>1, <1>3 DEF Distinct
    <3> QED BY <3>2, <1>1
  <2>2. ASSUME NEW i \in 1..(Len(s) - 1) PROVE Tail(s)[i].time # s[1].time
    <3>1. i + 1 \in DOMAIN s /\ 1 \in DOMAIN s /\ i + 1 # 1 BY <1>1
    <3> QED BY <3>1, <1>1, <1>3 DEF Distinct
  <2> QED BY <2>1, <2>2, <1>1 DEF Apart
<1> QED BY <1>1, <1>2, <1>3

\* A sequence of none or one has nothing twice.
LEMMA ShortSequences ==
    /\ Range(<<>>) = {} /\ Distinct(<<>>)
    /\ \A a : Range(<<a>>) = {a} /\ Distinct(<<a>>)
BY DEF Range, Distinct

\* A non-empty set of positions has a first one.
LEMMA FirstPosition ==
    ASSUME NEW n \in Nat, NEW P, P \subseteq 1..n, P # {}
    PROVE  Min(P) \in P
<1>1. P \subseteq Nat OBVIOUS
<1>2. PICK m \in P : \A y \in P : ~(<<y, m>> \in OpToRel(<, Nat))
  BY <1>1, NatLessThanWellFounded, WFMin
<1>3. ASSUME NEW y \in P PROVE m <= y
  <2>1. y \in Nat /\ m \in Nat BY <1>1
  <2>2. ~(<<y, m>> \in OpToRel(<, Nat)) BY <1>2
  <2>3. ~(y < m) BY <2>1, <2>2 DEF OpToRel
  <2> QED BY <2>1, <2>3
<1>4. \E x \in P : \A y \in P : x =< y BY <1>3
<1> QED BY <1>4 DEF Min

-----------------------------------------------------------------------------
(* The steps of the pipeline. *)

\* Every kind is the kind of one turn of the saver.
LEMMA KindsInOrder ==
    /\ \A i \in 1..Len(KindOrder) : KindOrder[i] \in Kinds
    /\ \A k \in Kinds : \E i \in 1..Len(KindOrder) : k = KindOrder[i]
    /\ \A i, j \in 1..Len(KindOrder) : KindOrder[i] = KindOrder[j] => i = j
    /\ Len(KindOrder) \in Nat
<1>1. DOMAIN KindOrder = 1..Len(KindOrder) /\ Len(KindOrder) \in Nat BY MemPoolIndexerAssumption
<1> QED BY <1>1, MemPoolIndexerAssumption DEF Kinds, Range, IsInjective

\* Nothing in any place.
LEMMA NothingIsEmpty ==
    /\ Nothing \in [Kinds -> Seq(Action)]
    /\ \A k \in Kinds : Nothing[k] = <<>>
BY DEF Nothing

\* The process starts with nothing.
LEMMA InitPipelineInv == Init => PipelineInv
<1> SUFFICES ASSUME Init PROVE PipelineInv OBVIOUS
<1> USE MemPoolIndexerAssumption, NothingIsEmpty, KindsInOrder
<1>1. TypeOK
  <2>1. \A k \in Kinds : Len(chan[k]) <= QueueSize BY DEF Init
  <2>2. /\ chan \in [Kinds -> Seq(Action)] /\ hand \in [Kinds -> Seq(Action)]
        /\ cache \in [Kinds -> Seq(Action)] /\ batch \in [Kinds -> Seq(Action)]
    BY DEF Init
  <2>3. table \in [Kinds -> [Keys -> 0..MaxActions]] BY DEF Init, NoTime
  <2>4. clock \in 0..MaxActions /\ taken \in 0..Len(KindOrder) BY DEF Init
  <2>5. seen \in [Kinds -> SUBSET Keys] BY DEF Init
  <2>6. spc \in {"idle", "take", "back"} /\ closing \in BOOLEAN BY DEF Init
  <2> QED BY <2>1, <2>2, <2>3, <2>4, <2>5, <2>6 DEF TypeOK
<1>2. NothingIsLost BY DEF Init, NothingIsLost
<1>3. SaverInv BY DEF Init, SaverInv
<1>4. \A k \in Kinds : Held(k) = {} BY ShortSequences DEF Init, Held
<1>5. Stamped BY <1>4 DEF Stamped
<1>6. PlacesInv BY DEF Init, PlacesInv, Places, Distinct, Apart
<1> QED BY <1>1, <1>2, <1>3, <1>5, <1>6 DEF PipelineInv

\* A step that moves actions around, and drops invalid ones at most.
LEMMA MovesAround ==
    ASSUME PipelineInv, UNCHANGED <<clock, table, seen>>,
           \A k \in Kinds : Held(k)' \subseteq Held(k) /\ \A a \in Held(k) : a.key # Invalid => a \in Held(k)'
    PROVE  NothingIsLost' /\ Stamped'
<1>1. Stamped' BY DEF PipelineInv, Stamped
<1>2. NothingIsLost'
  <2> SUFFICES ASSUME NEW k \in Kinds, NEW key \in seen[k], table[k][key] = NoTime
               PROVE  \E a \in Held(k)' : a.key = key
    BY DEF NothingIsLost
  <2>1. key # Invalid BY MemPoolIndexerAssumption DEF PipelineInv, TypeOK
  <2>2. PICK a \in Held(k) : a.key = key BY DEF PipelineInv, NothingIsLost
  <2> QED BY <2>1, <2>2
<1> QED BY <1>1, <1>2

\* A new action has a time that no other has.
LEMMA PublishPipelineInv ==
    ASSUME NEW k \in Kinds, NEW key \in Keys \cup {Invalid} PROVE PipelineInv /\ Publish(k, key) => PipelineInv'
<1> SUFFICES ASSUME PipelineInv, Publish(k, key) PROVE PipelineInv' OBVIOUS
<1> USE MemPoolIndexerAssumption
<1> DEFINE a == [key |-> key, time |-> clock + 1]
<1>1. /\ clock < MaxActions /\ Len(chan[k]) < QueueSize /\ clock' = clock + 1
      /\ chan' = [chan EXCEPT ![k] = Append(@, a)]
      /\ seen' = [seen EXCEPT ![k] = (@ \cup {key}) \ {Invalid}]
      /\ UNCHANGED <<hand, cache, spc, taken, batch, closing, table>>
  BY DEF Publish, saverVars
<1>2. TypeOK BY DEF PipelineInv
<1>3. a \in Action /\ a.time = clock + 1 /\ a.key = key /\ clock \in Nat /\ clock + 1 \in Nat
  BY <1>1, <1>2 DEF TypeOK, Action
<1> HIDE DEF a
<1>4. chan[k] \in Seq(Action) /\ <<a>> \in Seq(Action) BY <1>2, <1>3 DEF TypeOK
<1>5. chan'[k] = chan[k] \o <<a>> /\ \A j \in Kinds \ {k} : chan'[j] = chan[j]
  BY <1>1, <1>2, <1>3, <1>4 DEF TypeOK
<1>6. /\ chan'[k] \in Seq(Action) /\ Range(chan'[k]) = Range(chan[k]) \cup {a}
      /\ Distinct(chan'[k]) <=> Distinct(chan[k]) /\ Apart(chan[k], <<a>>)
  <2>1. Range(<<a>>) = {a} /\ Distinct(<<a>>) BY ShortSequences
  <2>2. PICK t \in Seq(Action) : t = <<a>> BY <1>4
  <2>3. /\ chan[k] \o t \in Seq(Action) /\ Range(chan[k] \o t) = Range(chan[k]) \cup Range(t)
        /\ Distinct(chan[k] \o t) <=> Distinct(chan[k]) /\ Distinct(t) /\ Apart(chan[k], t)
    BY <1>4, Concatenation
  <2> QED BY <1>5, <2>1, <2>2, <2>3, Zenon
<1>7. Held(k)' = Held(k) \cup {a} /\ \A j \in Kinds \ {k} : Held(j)' = Held(j)
  BY <1>1, <1>5, <1>6 DEF Held
<1>8. \A j \in Kinds : \A b \in Held(j) : b.time \in Int /\ b.time <= clock
  <2>1. \A j \in Kinds : Held(j) \subseteq Action BY <1>2 DEF TypeOK, Held, Range
  <2> QED BY <2>1 DEF PipelineInv, Stamped, Action
<1>9. TypeOK'
  <2>1. Len(chan'[k]) = Len(chan[k]) + 1 /\ Len(chan[k]) \in Nat BY <1>4, <1>5
  <2>2. Len(chan'[k]) <= QueueSize
    <3> DEFINE n == Len(chan'[k])
    <3>1. n = Len(chan[k]) + 1 BY <2>1
    <3> HIDE DEF n
    <3>2. n <= QueueSize BY <3>1, <2>1, <1>1
    <3> QED BY <3>2 DEF n
  <2>3. chan' \in [Kinds -> Seq(Action)] /\ \A j \in Kinds : Len(chan'[j]) <= QueueSize
    BY <1>1, <1>2, <1>5, <1>6, <2>2 DEF TypeOK
  <2>4. seen' \in [Kinds -> SUBSET Keys] BY <1>1, <1>2 DEF TypeOK
  <2>5. clock' \in 0..MaxActions BY <1>1, <1>2 DEF TypeOK
  <2> QED BY <1>1, <1>2, <2>3, <2>4, <2>5 DEF TypeOK
<1>10. NothingIsLost'
  <2> SUFFICES ASSUME NEW j \in Kinds, NEW x \in seen'[j] PROVE table[j][x] # NoTime \/ \E b \in Held(j)' : b.key = x
    BY <1>1 DEF NothingIsLost
  <2>1. x \in seen[j] \/ (j = k /\ x = key) BY <1>1, <1>2 DEF TypeOK
  <2>2. CASE x \in seen[j] BY <2>2, <1>7 DEF PipelineInv, NothingIsLost
  <2>3. CASE j = k /\ x = key BY <2>3, <1>3, <1>7
  <2> QED BY <2>1, <2>2, <2>3
<1>11. SaverInv' BY <1>1 DEF PipelineInv, SaverInv
<1>12. Stamped' BY <1>1, <1>3, <1>7, <1>8 DEF Stamped
<1>13. PlacesInv'
  <2>1. \A b \in Held(k) : b.time # a.time BY <1>3, <1>8
  <2>2. /\ Apart(chan[k], <<a>>)
        /\ Apart(chan[k], hand[k]) => Apart(chan'[k], hand[k])
        /\ Apart(chan[k], cache[k]) => Apart(chan'[k], cache[k])
        /\ Apart(chan[k], batch[k]) => Apart(chan'[k], batch[k])
    BY <2>1, <1>6, ApartByRange, ShortSequences DEF Held
  <2>3. Places(chan'[k], hand[k], cache[k], batch[k]) BY <1>6, <2>2 DEF PipelineInv, PlacesInv, Places
  <2> QED BY <1>1, <1>5, <2>3 DEF PipelineInv, PlacesInv
<1> QED BY <1>9, <1>10, <1>11, <1>12, <1>13 DEF PipelineInv

\* A listener takes the first action of its channel, or forgets it.
LEMMA ReceivePipelineInv == ASSUME NEW k \in Kinds PROVE PipelineInv /\ Receive(k) => PipelineInv'
<1> SUFFICES ASSUME PipelineInv, Receive(k) PROVE PipelineInv' OBVIOUS
<1> USE MemPoolIndexerAssumption
<1> DEFINE a == Head(chan[k])
           h == IF a.key = Invalid THEN <<>> ELSE <<a>>
<1>1. /\ hand[k] = <<>> /\ chan[k] # <<>>
      /\ hand' = [hand EXCEPT ![k] = h] /\ chan' = [chan EXCEPT ![k] = Tail(@)]
      /\ UNCHANGED <<clock, cache, spc, taken, batch, closing, table, seen>>
  BY DEF Receive, saverVars
<1>2. TypeOK BY DEF PipelineInv
<1>3. chan[k] \in Seq(Action) BY <1>2 DEF TypeOK
<1>4. /\ Tail(chan[k]) \in Seq(Action) /\ a \in Action
      /\ Len(Tail(chan[k])) = Len(chan[k]) - 1 /\ Len(chan[k]) \in Nat
      /\ Range(chan[k]) = {a} \cup Range(Tail(chan[k]))
      /\ Distinct(chan[k]) => Distinct(Tail(chan[k])) /\ Apart(Tail(chan[k]), <<a>>)
  BY <1>1, <1>3, HeadAndTail
<1>5. h \in Seq(Action) /\ Range(h) \subseteq {a} /\ (a.key # Invalid => a \in Range(h)) /\ Distinct(h)
  BY <1>4, ShortSequences
<1>6. /\ chan'[k] = Tail(chan[k]) /\ hand'[k] = h
      /\ \A j \in Kinds \ {k} : chan'[j] = chan[j] /\ hand'[j] = hand[j]
  BY <1>1, <1>2 DEF TypeOK
<1> HIDE DEF a, h
<1>7. Range(hand[k]) = {} BY <1>1, ShortSequences
<1>8. \A j \in Kinds : Held(j)' \subseteq Held(j) /\ \A b \in Held(j) : b.key # Invalid => b \in Held(j)'
  BY <1>1, <1>4, <1>5, <1>6, <1>7 DEF Held
<1>9. TypeOK'
  <2>1. Len(Tail(chan[k])) <= QueueSize
    <3> DEFINE n == Len(Tail(chan[k]))
    <3>1. n = Len(chan[k]) - 1 /\ Len(chan[k]) \in Nat BY <1>4
    <3> HIDE DEF n
    <3>2. n <= QueueSize BY <3>1, <1>2 DEF TypeOK
    <3> QED BY <3>2 DEF n
  <2>2. chan' \in [Kinds -> Seq(Action)] /\ hand' \in [Kinds -> Seq(Action)] BY <1>1, <1>2, <1>4, <1>5 DEF TypeOK
  <2>3. \A j \in Kinds : Len(chan'[j]) <= QueueSize BY <1>2, <1>6, <2>1 DEF TypeOK
  <2> QED BY <1>1, <1>2, <2>2, <2>3 DEF TypeOK
<1>10. NothingIsLost' /\ Stamped' BY <1>1, <1>8, MovesAround
<1>11. SaverInv' BY <1>1 DEF PipelineInv, SaverInv
<1>12. PlacesInv'
  <2>1. Places(chan[k], hand[k], cache[k], batch[k]) BY DEF PipelineInv, PlacesInv
  <2>2. Apart(Tail(chan[k]), <<a>>) /\ Distinct(Tail(chan[k])) BY <1>4, <2>1 DEF Places
  <2>3. /\ Apart(Tail(chan[k]), cache[k]) /\ Apart(h, cache[k])
        /\ Apart(Tail(chan[k]), batch[k]) /\ Apart(h, batch[k])
    BY <1>4, <1>5, <2>1, ApartByRange DEF Places
  <2>4. Apart(Tail(chan[k]), h) BY <1>5, <2>2, ApartByRange, ShortSequences
  <2>5. Places(Tail(chan[k]), h, cache[k], batch[k]) BY <1>5, <2>1, <2>2, <2>3, <2>4 DEF Places
  <2> QED BY <1>1, <1>6, <2>5 DEF PipelineInv, PlacesInv
<1> QED BY <1>9, <1>10, <1>11, <1>12 DEF PipelineInv

\* What a listener has in hand joins the cache.
LEMMA AddTimestampPipelineInv == ASSUME NEW k \in Kinds PROVE PipelineInv /\ AddTimestamp(k) => PipelineInv'
<1> SUFFICES ASSUME PipelineInv, AddTimestamp(k) PROVE PipelineInv' OBVIOUS
<1>1. /\ cache' = [cache EXCEPT ![k] = @ \o hand[k]] /\ hand' = [hand EXCEPT ![k] = <<>>]
      /\ UNCHANGED <<clock, chan, spc, taken, batch, closing, table, seen>>
  BY DEF AddTimestamp, saverVars
<1>2. TypeOK BY DEF PipelineInv
<1>3. cache[k] \in Seq(Action) /\ hand[k] \in Seq(Action) BY <1>2 DEF TypeOK
<1>4. /\ cache[k] \o hand[k] \in Seq(Action)
      /\ Range(cache[k] \o hand[k]) = Range(cache[k]) \cup Range(hand[k])
      /\ Distinct(cache[k] \o hand[k]) <=> Distinct(cache[k]) /\ Distinct(hand[k]) /\ Apart(cache[k], hand[k])
  BY <1>3, Concatenation
<1>5. /\ cache'[k] = cache[k] \o hand[k] /\ hand'[k] = <<>>
      /\ \A j \in Kinds \ {k} : cache'[j] = cache[j] /\ hand'[j] = hand[j]
  BY <1>1, <1>2 DEF TypeOK
<1>6. Range(hand'[k]) = {} /\ Distinct(hand'[k]) BY <1>5, ShortSequences
<1>7. \A j \in Kinds : Held(j)' = Held(j) BY <1>1, <1>4, <1>5, <1>6 DEF Held
<1>8. TypeOK'
  <2>1. cache' \in [Kinds -> Seq(Action)] /\ hand' \in [Kinds -> Seq(Action)] BY <1>1, <1>2, <1>4 DEF TypeOK
  <2> QED BY <1>1, <1>2, <2>1 DEF TypeOK
<1>9. NothingIsLost' /\ Stamped' BY <1>1, <1>7, MovesAround
<1>10. SaverInv' BY <1>1 DEF PipelineInv, SaverInv
<1>11. PlacesInv'
  <2>1. Places(chan[k], hand[k], cache[k], batch[k]) BY DEF PipelineInv, PlacesInv
  <2>2. Apart(cache[k], hand[k]) BY <2>1, ApartByRange DEF Places
  <2>3. Apart(chan[k], cache'[k]) /\ Apart(cache'[k], batch[k]) BY <1>4, <1>5, <2>1, ApartByRange DEF Places
  <2>4. Apart(chan[k], hand'[k]) /\ Apart(hand'[k], cache'[k]) /\ Apart(hand'[k], batch[k])
    BY <1>6, ApartByRange
  <2>5. Places(chan[k], hand'[k], cache'[k], batch[k])
    BY <1>4, <1>5, <1>6, <2>1, <2>2, <2>3, <2>4 DEF Places
  <2> QED BY <1>1, <1>5, <2>5 DEF PipelineInv, PlacesInv
<1> QED BY <1>8, <1>9, <1>10, <1>11 DEF PipelineInv

\* A save begins with nothing taken.
LEMMA BeginPipelineInv == PipelineInv /\ (BeginSave \/ Destroy) => PipelineInv'
<1> SUFFICES ASSUME PipelineInv, BeginSave \/ Destroy PROVE PipelineInv' OBVIOUS
<1>1. /\ spc = "idle" /\ spc' = "take" /\ taken' = 0 /\ closing' \in {closing, TRUE}
      /\ UNCHANGED <<clock, chan, hand, cache, batch, table, seen>>
  BY DEF BeginSave, Destroy, memVars
<1>2. TypeOK'
  <2>1. TypeOK BY DEF PipelineInv
  <2>2. taken' \in 0..Len(KindOrder) BY <1>1, KindsInOrder
  <2>3. closing' \in BOOLEAN BY <1>1, <2>1, Zenon DEF TypeOK
  <2> QED BY <1>1, <2>1, <2>2, <2>3 DEF TypeOK
<1>3. \A j \in Kinds : Held(j)' = Held(j) BY <1>1 DEF Held
<1>4. NothingIsLost' /\ Stamped' BY <1>1, <1>3, MovesAround
<1>5. SaverInv'
  <2>1. \A i \in 1..Len(KindOrder) : batch[KindOrder[i]] = <<>>
    BY <1>1, KindsInOrder, NothingIsEmpty DEF PipelineInv, SaverInv
  <2> QED BY <1>1, <2>1 DEF SaverInv
<1>6. PlacesInv' BY <1>1 DEF PipelineInv, PlacesInv
<1> QED BY <1>2, <1>4, <1>5, <1>6 DEF PipelineInv

\* The cache of the next kind goes to a place that is empty.
LEMMA TakePipelineInv == PipelineInv /\ Take => PipelineInv'
<1> SUFFICES ASSUME PipelineInv, Take PROVE PipelineInv' OBVIOUS
<1> DEFINE k == KindOrder[taken + 1]
<1>1. /\ spc = "take" /\ taken < Len(KindOrder) /\ taken' = taken + 1
      /\ batch' = [batch EXCEPT ![k] = cache[k]] /\ cache' = [cache EXCEPT ![k] = <<>>]
      /\ UNCHANGED <<clock, chan, hand, spc, closing, table, seen>>
  BY DEF Take
<1>2. TypeOK BY DEF PipelineInv
<1>3. taken \in Nat /\ taken + 1 \in 1..Len(KindOrder) BY <1>1, <1>2, KindsInOrder DEF TypeOK
<1>4. k \in Kinds /\ \A i \in 1..Len(KindOrder) : i > taken + 1 => KindOrder[i] # k
  BY <1>3, KindsInOrder
<1>5. batch[k] = <<>> BY <1>1, <1>3 DEF PipelineInv, SaverInv
<1> HIDE DEF k
<1>6. /\ batch'[k] = cache[k] /\ cache'[k] = <<>>
      /\ \A j \in Kinds \ {k} : batch'[j] = batch[j] /\ cache'[j] = cache[j]
  BY <1>1, <1>2, <1>4 DEF TypeOK
<1>7. Range(batch[k]) = {} /\ Range(cache'[k]) = {} /\ Distinct(cache'[k]) BY <1>5, <1>6, ShortSequences
<1>8. \A j \in Kinds : Held(j)' = Held(j) BY <1>1, <1>6, <1>7 DEF Held
<1>9. TypeOK'
  <2>1. batch' \in [Kinds -> Seq(Action)] /\ cache' \in [Kinds -> Seq(Action)] BY <1>1, <1>2, <1>4 DEF TypeOK
  <2>2. taken' \in 0..Len(KindOrder) BY <1>1, <1>3, KindsInOrder
  <2> QED BY <1>1, <1>2, <2>1, <2>2 DEF TypeOK
<1>10. NothingIsLost' /\ Stamped' BY <1>1, <1>8, MovesAround
<1>11. SaverInv'
  <2>1. ASSUME NEW i \in 1..Len(KindOrder), i > taken + 1 PROVE batch'[KindOrder[i]] = <<>>
    <3>1. KindOrder[i] \in Kinds \ {k} /\ i > taken BY <1>3, <1>4, <2>1, KindsInOrder
    <3> QED BY <3>1, <1>1, <1>6 DEF PipelineInv, SaverInv
  <2> QED BY <1>1, <2>1 DEF SaverInv
<1>12. PlacesInv'
  <2>1. Places(chan[k], hand[k], cache[k], batch[k]) BY <1>4 DEF PipelineInv, PlacesInv
  <2>2. Apart(chan[k], cache'[k]) /\ Apart(hand[k], cache'[k]) /\ Apart(cache'[k], batch'[k])
    BY <1>7, ApartByRange
  <2>3. Places(chan[k], hand[k], cache'[k], batch'[k]) BY <1>6, <1>7, <2>1, <2>2 DEF Places
  <2> QED BY <1>1, <1>6, <2>3 DEF PipelineInv, PlacesInv
<1> QED BY <1>9, <1>10, <1>11, <1>12 DEF PipelineInv

\* The transaction records an action for every key of the batch, and no row of
\* an earlier save is touched.
LEMMA InsertedRows ==
    ASSUME TypeOK
    PROVE  /\ Inserted \in [Kinds -> [Keys -> 0..MaxActions]]
           /\ \A k \in Kinds, key \in Keys : table[k][key] # NoTime => Inserted[k][key] = table[k][key]
           /\ \A k \in Kinds, key \in Keys : (\E a \in Range(batch[k]) : a.key = key) => Inserted[k][key] # NoTime
<1> DEFINE mine(k, key) == {i \in DOMAIN batch[k] : batch[k][i].key = key}
           row(k, key) == IF table[k][key] = NoTime /\ mine(k, key) # {}
                          THEN batch[k][Min(mine(k, key))].time ELSE table[k][key]
<1>1. ASSUME NEW k \in Kinds, NEW key \in Keys PROVE Inserted[k][key] = row(k, key) BY DEF Inserted
<1>2. ASSUME NEW k \in Kinds, NEW key \in Keys, mine(k, key) # {}
      PROVE  batch[k][Min(mine(k, key))].time \in 1..MaxActions
  <2>1. batch[k] \in Seq(Action) BY DEF TypeOK
  <2>2. DOMAIN batch[k] = 1..Len(batch[k]) /\ Len(batch[k]) \in Nat BY <2>1
  <2>3. mine(k, key) \subseteq 1..Len(batch[k]) BY <2>2
  <2>4. Min(mine(k, key)) \in mine(k, key) BY <1>2, <2>2, <2>3, FirstPosition
  <2>5. \A i \in 1..Len(batch[k]) : batch[k][i] \in Action BY <2>1, <2>2
  <2> HIDE DEF mine
  <2>6. PICK m \in 1..Len(batch[k]) : m = Min(mine(k, key)) BY <2>3, <2>4
  <2>7. batch[k][m].time \in 1..MaxActions BY <2>5 DEF Action
  <2> QED BY <2>6, <2>7
<1>3. ASSUME NEW k \in Kinds, NEW key \in Keys
      PROVE  /\ row(k, key) \in 0..MaxActions
             /\ table[k][key] # NoTime => row(k, key) = table[k][key]
             /\ mine(k, key) # {} => row(k, key) # NoTime
  <2>1. table[k][key] \in 0..MaxActions BY DEF TypeOK
  <2> HIDE DEF mine
  <2>2. CASE table[k][key] = NoTime /\ mine(k, key) # {}
    <3>1. row(k, key) \in 1..MaxActions BY <1>2, <2>2
    <3> QED BY <2>2, <3>1, MemPoolIndexerAssumption DEF NoTime
  <2>3. CASE ~(table[k][key] = NoTime /\ mine(k, key) # {})
    <3>1. row(k, key) = table[k][key] BY <2>3
    <3> QED BY <2>1, <2>3, <3>1
  <2> QED BY <2>2, <2>3
<1>4. ASSUME NEW k \in Kinds, NEW key \in Keys, NEW a \in Range(batch[k]), a.key = key PROVE mine(k, key) # {}
  BY <1>4 DEF Range
<1>5. Inserted = [k \in Kinds |-> [key \in Keys |-> row(k, key)]] BY DEF Inserted
<1> HIDE DEF row, mine
<1>6. Inserted \in [Kinds -> [Keys -> 0..MaxActions]] BY <1>3, <1>5
<1> QED BY <1>1, <1>3, <1>4, <1>6

\* After a save everything that was in the batch is recorded.
LEMMA SavePipelineInv == PipelineInv /\ Save => PipelineInv'
<1> SUFFICES ASSUME PipelineInv, Save PROVE PipelineInv' OBVIOUS
<1>1. /\ table' = Inserted /\ batch' = Nothing /\ spc' = "idle"
      /\ UNCHANGED <<clock, chan, hand, cache, taken, closing, seen>>
  BY DEF Save, memVars
<1>2. TypeOK BY DEF PipelineInv
<1>3. TypeOK' BY <1>1, <1>2, InsertedRows, NothingIsEmpty DEF TypeOK
<1>4. \A k \in Kinds : batch'[k] = <<>> /\ Range(batch'[k]) = {} /\ Distinct(batch'[k])
  BY <1>1, NothingIsEmpty, ShortSequences
<1>5. \A k \in Kinds : Held(k)' = Range(chan[k]) \cup Range(hand[k]) \cup Range(cache[k]) BY <1>1, <1>4 DEF Held
<1>6. NothingIsLost'
  <2> SUFFICES ASSUME NEW k \in Kinds, NEW key \in seen[k]
               PROVE  table'[k][key] # NoTime \/ \E a \in Held(k)' : a.key = key
    BY <1>1 DEF NothingIsLost
  <2>1. key \in Keys BY <1>2 DEF TypeOK
  <2>2. CASE table[k][key] # NoTime BY <1>1, <1>2, <2>1, <2>2, InsertedRows
  <2>3. CASE \E a \in Range(batch[k]) : a.key = key BY <1>1, <1>2, <2>1, <2>3, InsertedRows
  <2>4. CASE \E a \in Range(chan[k]) \cup Range(hand[k]) \cup Range(cache[k]) : a.key = key BY <1>5, <2>4
  <2> QED BY <2>2, <2>3, <2>4 DEF PipelineInv, NothingIsLost, Held
<1>7. SaverInv' BY <1>1 DEF SaverInv
<1>8. Stamped' BY <1>1, <1>5 DEF PipelineInv, Stamped, Held
<1>9. PlacesInv'
  <2> SUFFICES ASSUME NEW k \in Kinds PROVE Places(chan[k], hand[k], cache[k], batch'[k])
    BY <1>1 DEF PlacesInv
  <2>1. Places(chan[k], hand[k], cache[k], batch[k]) BY DEF PipelineInv, PlacesInv
  <2>2. Apart(chan[k], batch'[k]) /\ Apart(hand[k], batch'[k]) /\ Apart(cache[k], batch'[k])
    BY <1>4, ApartByRange
  <2> QED BY <1>4, <2>1, <2>2 DEF Places
<1> QED BY <1>3, <1>6, <1>7, <1>8, <1>9 DEF PipelineInv

\* A save that fails may have been committed or not: either way nothing is lost.
LEMMA FailPipelineInv == PipelineInv /\ Fail => PipelineInv'
<1> SUFFICES ASSUME PipelineInv, Fail PROVE PipelineInv' OBVIOUS
<1>1. /\ batch # Nothing /\ table' \in {table, Inserted} /\ spc' = "back" /\ taken' = 0
      /\ UNCHANGED <<clock, chan, hand, cache, batch, closing, seen>>
  BY DEF Fail, memVars
<1>2. TypeOK BY DEF PipelineInv
<1>3. TypeOK'
  <2>1. Inserted \in [Kinds -> [Keys -> 0..MaxActions]] BY <1>2, InsertedRows
  <2>2. table' \in [Kinds -> [Keys -> 0..MaxActions]] BY <1>1, <1>2, <2>1 DEF TypeOK
  <2>3. taken' \in 0..Len(KindOrder) BY <1>1, KindsInOrder
  <2> QED BY <1>1, <1>2, <2>2, <2>3 DEF TypeOK
<1>4. \A k \in Kinds : Held(k)' = Held(k) BY <1>1 DEF Held
<1>5. NothingIsLost'
  <2> SUFFICES ASSUME NEW k \in Kinds, NEW key \in seen[k], table[k][key] # NoTime PROVE table'[k][key] # NoTime
    BY <1>1, <1>4 DEF PipelineInv, NothingIsLost
  <2>1. key \in Keys BY <1>2 DEF TypeOK
  <2> QED BY <1>1, <1>2, <2>1, InsertedRows
<1>6. SaverInv'
  <2>1. Len(KindOrder) # 0
    <3> SUFFICES ASSUME Len(KindOrder) = 0 PROVE FALSE OBVIOUS
    <3>1. Kinds = {} BY KindsInOrder
    <3>2. batch \in [Kinds -> Seq(Action)] /\ Nothing \in [Kinds -> Seq(Action)]
      BY <1>2, NothingIsEmpty DEF TypeOK
    <3> QED BY <1>1, <3>1, <3>2
  <2> QED BY <1>1, <2>1, KindsInOrder DEF SaverInv
<1>7. Stamped' BY <1>1, <1>4 DEF PipelineInv, Stamped
<1>8. PlacesInv' BY <1>1 DEF PipelineInv, PlacesInv
<1> QED BY <1>3, <1>5, <1>6, <1>7, <1>8 DEF PipelineInv

\* What was not saved goes from the batch behind what has come in meanwhile.
LEMMA PutBackPipelineInv == PipelineInv /\ PutBack => PipelineInv'
<1> SUFFICES ASSUME PipelineInv, PutBack PROVE PipelineInv' OBVIOUS
<1> DEFINE k == KindOrder[taken + 1]
<1>1. /\ spc = "back" /\ taken' = taken + 1 /\ spc' = IF taken' = Len(KindOrder) THEN "idle" ELSE "back"
      /\ cache' = [cache EXCEPT ![k] = @ \o batch[k]] /\ batch' = [batch EXCEPT ![k] = <<>>]
      /\ UNCHANGED <<clock, chan, hand, closing, table, seen>>
  BY DEF PutBack
<1>2. TypeOK BY DEF PipelineInv
<1>3. taken < Len(KindOrder) BY <1>1 DEF PipelineInv, SaverInv
<1>4. taken \in Nat /\ taken + 1 \in 1..Len(KindOrder) BY <1>2, <1>3, KindsInOrder DEF TypeOK
<1>5. k \in Kinds BY <1>4, KindsInOrder
<1>6. \A i \in 1..Len(KindOrder) : i <= taken + 1 => i <= taken \/ KindOrder[i] = k BY <1>4
<1> HIDE DEF k
<1>7. cache[k] \in Seq(Action) /\ batch[k] \in Seq(Action) BY <1>2, <1>5 DEF TypeOK
<1>8. /\ cache[k] \o batch[k] \in Seq(Action)
      /\ Range(cache[k] \o batch[k]) = Range(cache[k]) \cup Range(batch[k])
      /\ Distinct(cache[k] \o batch[k]) <=> Distinct(cache[k]) /\ Distinct(batch[k]) /\ Apart(cache[k], batch[k])
  BY <1>7, Concatenation
<1>9. /\ cache'[k] = cache[k] \o batch[k] /\ batch'[k] = <<>>
      /\ \A j \in Kinds \ {k} : cache'[j] = cache[j] /\ batch'[j] = batch[j]
  BY <1>1, <1>2, <1>5 DEF TypeOK
<1>10. Range(batch'[k]) = {} /\ Distinct(batch'[k]) BY <1>9, ShortSequences
<1>11. \A j \in Kinds : Held(j)' = Held(j) BY <1>1, <1>8, <1>9, <1>10 DEF Held
<1>12. batch' \in [Kinds -> Seq(Action)] /\ cache' \in [Kinds -> Seq(Action)]
  BY <1>1, <1>2, <1>5, <1>8 DEF TypeOK
<1>13. TypeOK'
  <2>1. taken' \in 0..Len(KindOrder) BY <1>1, <1>4, KindsInOrder
  <2>2. spc' \in {"idle", "take", "back"} BY <1>1
  <2> QED BY <1>1, <1>2, <1>12, <2>1, <2>2 DEF TypeOK
<1>14. NothingIsLost' /\ Stamped' BY <1>1, <1>11, MovesAround
<1>15. \A i \in 1..Len(KindOrder) : i <= taken + 1 => batch'[KindOrder[i]] = <<>>
  <2> SUFFICES ASSUME NEW i \in 1..Len(KindOrder), i <= taken + 1 PROVE batch'[KindOrder[i]] = <<>> OBVIOUS
  <2>1. CASE KindOrder[i] = k BY <2>1, <1>9
  <2>2. CASE KindOrder[i] # k
    <3>1. i <= taken /\ KindOrder[i] \in Kinds \ {k} BY <1>6, <2>2, KindsInOrder
    <3> QED BY <3>1, <1>1, <1>9 DEF PipelineInv, SaverInv
  <2> QED BY <2>1, <2>2
<1>16. SaverInv'
  <2>1. CASE taken + 1 = Len(KindOrder)
    <3>1. spc' = "idle" BY <1>1, <2>1
    <3>2. \A i \in 1..Len(KindOrder) : i <= taken + 1 BY <2>1, KindsInOrder
    <3>3. \A j \in Kinds : batch'[j] = <<>> BY <1>15, <3>2, KindsInOrder
    <3>4. batch' = Nothing BY <1>12, <3>3, NothingIsEmpty
    <3> QED BY <3>1, <3>4 DEF SaverInv
  <2>2. CASE taken + 1 # Len(KindOrder)
    <3>1. spc' = "back" /\ taken + 1 < Len(KindOrder) BY <1>1, <1>4, <2>2, KindsInOrder
    <3> QED BY <1>1, <1>15, <3>1 DEF SaverInv
  <2> QED BY <2>1, <2>2
<1>17. PlacesInv'
  <2>1. Places(chan[k], hand[k], cache[k], batch[k]) BY <1>5 DEF PipelineInv, PlacesInv
  <2>2. Apart(chan[k], cache'[k]) /\ Apart(hand[k], cache'[k]) BY <1>8, <1>9, <2>1, ApartByRange DEF Places
  <2>3. Apart(chan[k], batch'[k]) /\ Apart(hand[k], batch'[k]) /\ Apart(cache'[k], batch'[k])
    BY <1>10, ApartByRange
  <2>4. Places(chan[k], hand[k], cache'[k], batch'[k]) BY <1>8, <1>9, <1>10, <2>1, <2>2, <2>3 DEF Places
  <2> QED BY <1>1, <1>9, <2>4 DEF PipelineInv, PlacesInv
<1> QED BY <1>13, <1>14, <1>16, <1>17 DEF PipelineInv

\* A new process starts with empty places and the tables of the old one.
LEMMA RestartPipelineInv == PipelineInv /\ Restart => PipelineInv'
<1> SUFFICES ASSUME PipelineInv, Restart PROVE PipelineInv' OBVIOUS
<1>1. /\ chan' = Nothing /\ hand' = Nothing /\ cache' = Nothing /\ batch' = Nothing
      /\ spc' = "idle" /\ taken' = 0 /\ closing' = FALSE /\ seen' = [k \in Kinds |-> {}]
      /\ UNCHANGED <<clock, table>>
  BY DEF Restart
<1>2. \A k \in Kinds : chan'[k] = <<>> /\ hand'[k] = <<>> /\ cache'[k] = <<>> /\ batch'[k] = <<>>
  BY <1>1, NothingIsEmpty
<1>3. TypeOK'
  <2>1. TypeOK BY DEF PipelineInv
  <2>2. /\ chan' \in [Kinds -> Seq(Action)] /\ hand' \in [Kinds -> Seq(Action)]
        /\ cache' \in [Kinds -> Seq(Action)] /\ batch' \in [Kinds -> Seq(Action)]
    BY <1>1, NothingIsEmpty
  <2>3. \A k \in Kinds : Len(chan'[k]) <= QueueSize BY <1>2, MemPoolIndexerAssumption
  <2>4. taken' \in 0..Len(KindOrder) BY <1>1, KindsInOrder
  <2>5. seen' \in [Kinds -> SUBSET Keys] /\ closing' \in BOOLEAN BY <1>1
  <2> QED BY <1>1, <2>1, <2>2, <2>3, <2>4, <2>5 DEF TypeOK
<1>4. \A k \in Kinds : Held(k)' = {} BY <1>2, ShortSequences DEF Held
<1>5. NothingIsLost' /\ Stamped' BY <1>1, <1>4 DEF NothingIsLost, Stamped
<1>6. SaverInv' BY <1>1 DEF SaverInv
<1>7. PlacesInv' BY <1>2 DEF PlacesInv, Places, Distinct, Apart
<1> QED BY <1>3, <1>5, <1>6, <1>7 DEF PipelineInv

\* Every step of the listeners, the saver and the process keeps the invariant.
LEMMA NextPipelineInv == PipelineInv /\ [Next]_vars => PipelineInv'
<1> SUFFICES ASSUME PipelineInv, [Next]_vars PROVE PipelineInv' OBVIOUS
<1>1. ASSUME NEW k \in Kinds, Listener(k) PROVE PipelineInv'
  BY <1>1, ReceivePipelineInv, AddTimestampPipelineInv DEF Listener
<1>2. ASSUME NEW k \in Kinds, NEW key \in Keys \cup {Invalid}, Publish(k, key) PROVE PipelineInv'
  BY <1>2, PublishPipelineInv
<1>3. CASE Saver BY <1>3, BeginPipelineInv, TakePipelineInv, SavePipelineInv, PutBackPipelineInv DEF Saver
<1>4. CASE Fail BY <1>4, FailPipelineInv
<1>5. CASE Destroy BY <1>5, BeginPipelineInv
<1>6. CASE Restart BY <1>6, RestartPipelineInv
<1>7. CASE UNCHANGED vars
  <2>1. UNCHANGED <<clock, chan, hand, cache, spc, taken, batch, closing, table, seen>>
    BY <1>7 DEF vars, memVars, saverVars
  <2>2. \A k \in Kinds : Held(k)' = Held(k) BY <2>1 DEF Held
  <2>3. TypeOK' BY <2>1 DEF PipelineInv, TypeOK
  <2>4. NothingIsLost' /\ Stamped' BY <2>1, <2>2, MovesAround
  <2>5. SaverInv' BY <2>1 DEF PipelineInv, SaverInv
  <2>6. PlacesInv' BY <2>1 DEF PipelineInv, PlacesInv
  <2> QED BY <2>3, <2>4, <2>5, <2>6 DEF PipelineInv
<1> QED BY <1>1, <1>2, <1>3, <1>4, <1>5, <1>6, <1>7 DEF Next

\* Places that share nothing make a line in which nothing is twice.
LEMMA PlacesMakeALine == TypeOK /\ PlacesInv => NothingIsDoubled
<1> SUFFICES ASSUME TypeOK, PlacesInv, NEW k \in Kinds
             PROVE  Distinct(chan[k] \o hand[k] \o cache[k] \o batch[k])
  BY DEF NothingIsDoubled, Distinct
<1>1. PICK c \in Seq(Action), h \in Seq(Action), s \in Seq(Action), b \in Seq(Action) :
          c = chan[k] /\ h = hand[k] /\ s = cache[k] /\ b = batch[k]
  BY DEF TypeOK
<1>2. Places(c, h, s, b) BY <1>1 DEF PlacesInv
<1>3. PICK l \in Seq(Action) : l = c \o h /\ Range(l) = Range(c) \cup Range(h) /\ Distinct(l)
  BY <1>2, Concatenation DEF Places
<1>4. Apart(l, s) BY <1>2, <1>3, ApartByRange DEF Places
<1>5. PICK m \in Seq(Action) : m = l \o s /\ Range(m) = Range(l) \cup Range(s) /\ Distinct(m)
  <2>1. Distinct(l) /\ Distinct(s) BY <1>2, <1>3 DEF Places
  <2>2. /\ l \o s \in Seq(Action) /\ Range(l \o s) = Range(l) \cup Range(s)
        /\ Distinct(l \o s) <=> Distinct(l) /\ Distinct(s) /\ Apart(l, s)
    BY Concatenation
  <2> QED BY <1>4, <2>1, <2>2
<1>6. Apart(m, b) BY <1>2, <1>3, <1>5, ApartByRange DEF Places
<1>7. Distinct(m \o b) BY <1>2, <1>5, <1>6, Concatenation DEF Places
<1> QED BY <1>1, <1>3, <1>5, <1>7

\* Every validation action that a living process was told of is recorded or in
\* exactly one place on its way to the table, for every number of kinds, keys
\* and refused saves (mempool.go, saveData and the four caches).
THEOREM NothingIsLostOrDoubledAlways == Spec => []NothingIsLostOrDoubled
<1>1. PipelineInv => NothingIsLostOrDoubled
  BY PlacesMakeALine DEF PipelineInv, NothingIsLostOrDoubled
<1> QED BY <1>1, InitPipelineInv, NextPipelineInv, PTL DEF Spec
=============================================================================
