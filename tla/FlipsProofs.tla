---------------------------- MODULE FlipsProofs ----------------------------
(***************************************************************************)
(* Proofs about flips, for every value of the constants.                   *)
(*                                                                         *)
(* FlipContent: flips_queue follows the recorded blocks, and only a batch  *)
(* that a reset_to overtook does harm.                                     *)
(*                                                                         *)
(* EpochResult: the rewarded flips of an author are listed once under      *)
(* every rule, and with the missed ones they add up to the flips that      *)
(* could be rewarded: the bytes of calculateFlipsRewardSummary and         *)
(* calculateExtraFlipsRewardSummary never wrap around.                     *)
(***************************************************************************)
EXTENDS FlipContent, EpochResult, FiniteSetTheorems, TLAPS

-----------------------------------------------------------------------------
(* The contents of flips. *)

\* A flip is submitted once, and queued by the last block of its own epoch.
ChainInv ==
    /\ \A g, h \in Heights : \A f \in blocks[g].flips : f \in blocks[h].flips => g = h
    /\ \A h \in Heights : \A f \in blocks[h].keyed :
           /\ blocks[h].last
           /\ \E g \in 1..h : EpochOf(g) >= EpochOf(h) /\ f \in blocks[g].flips

\* What the loader knows of a flip of its batch: the row may have been queued
\* anew since, with fewer attempts, but only when a reset_to came in between.
BatchInv == \A f \in DOMAIN batch :
    /\ f \in DOMAIN queue => queue[f].attempts <= batch[f]
    /\ f \notin overtaken => f \in DOMAIN queue /\ batch[f] = queue[f].attempts /\ f \notin data

\* The content of a flip of no recorded epoch comes from an overtaken batch.
DataInv == data \ overtaken \subseteq Keyed

FlipInv == QueueFollowsBlocks /\ OnlyOvertakenGoAstray /\ ChainInv /\ BatchInv /\ DataInv

-----------------------------------------------------------------------------
(* Epochs. *)

\* The epochs of the blocks do not decrease, and a last block ends its own.
LEMMA EpochsGrow ==
    ASSUME NEW g \in Nat, NEW h \in Nat, g <= h
    PROVE  /\ EpochOf(g) \in Nat /\ EpochOf(h) \in Nat /\ EpochOf(g) <= EpochOf(h)
           /\ 1 <= g /\ g < h /\ blocks[g].last => EpochOf(g) < EpochOf(h)
<1> DEFINE G == {i \in 1 .. g - 1 : blocks[i].last}
           H == {i \in 1 .. h - 1 : blocks[i].last}
<1>1. EpochOf(g) = Cardinality(G) /\ EpochOf(h) = Cardinality(H) BY DEF EpochOf
<1>2. G \in SUBSET (1 .. g - 1) /\ H \in SUBSET (1 .. h - 1) /\ G \in SUBSET H OBVIOUS
<1>3. 1 <= g /\ g < h /\ blocks[g].last => g \in H /\ g \notin G OBVIOUS
<1>4. 1 \in Int /\ g - 1 \in Int /\ h - 1 \in Int OBVIOUS
<1> HIDE DEF G, H
<1>5. IsFiniteSet(1 .. g - 1) /\ IsFiniteSet(1 .. h - 1) BY <1>4, FS_Interval
<1>6. IsFiniteSet(G) /\ IsFiniteSet(H) BY <1>2, <1>5, FS_Subset
<1>7. Cardinality(G) \in Nat /\ Cardinality(H) \in Nat BY <1>6, FS_CardinalityType
<1>8. Cardinality(G) <= Cardinality(H) /\ (Cardinality(H) = Cardinality(G) => H = G) BY <1>2, <1>6, FS_Subset
<1> QED BY <1>1, <1>3, <1>7, <1>8

\* The epoch of a block is a matter of the blocks before it.
LEMMA EpochsStay ==
    ASSUME NEW h \in Nat, \A i \in 1 .. h - 1 : blocks'[i] = blocks[i]
    PROVE  EpochOf(h)' = EpochOf(h)
<1>1. {i \in 1 .. h - 1 : blocks'[i].last} = {i \in 1 .. h - 1 : blocks[i].last} OBVIOUS
<1> QED BY <1>1 DEF EpochOf

\* The queued flips of a recorded epoch, seen from any height p: those of the
\* last blocks after p are flips of p's epoch or of later ones, and those of
\* the last blocks before p are not.
LEMMA KeyedEpochs ==
    ASSUME TypeOK, ChainInv, NEW p \in Nat,
           NEW h \in Heights, NEW f \in blocks[h].keyed
    PROVE  /\ h > p => f \in FlipsFrom(EpochOf(p))
           /\ h < p => f \notin FlipsFrom(EpochOf(p))
<1>1. Len(blocks) \in Nat /\ h \in Nat /\ 1 <= h /\ h <= Len(blocks) BY DEF TypeOK, Heights
<1>2. PICK g \in 1..h : EpochOf(g) >= EpochOf(h) /\ f \in blocks[g].flips BY DEF ChainInv
<1>3. g \in Nat /\ g \in Heights /\ g <= h BY <1>1, <1>2 DEF Heights
<1>4. EpochOf(g) \in Nat /\ EpochOf(h) \in Nat /\ EpochOf(g) <= EpochOf(h) BY <1>1, <1>3, EpochsGrow
<1>5. ASSUME h > p PROVE f \in FlipsFrom(EpochOf(p))
  <2>1. EpochOf(p) \in Nat /\ EpochOf(p) <= EpochOf(h) BY <1>1, <1>5, EpochsGrow
  <2>2. EpochOf(g) >= EpochOf(p) BY <1>2, <1>4, <2>1
  <2> QED BY <1>2, <1>3, <2>2 DEF FlipsFrom
<1>6. ASSUME h < p, f \in FlipsFrom(EpochOf(p)) PROVE FALSE
  <2>1. EpochOf(p) \in Nat /\ EpochOf(h) < EpochOf(p) BY <1>1, <1>6, EpochsGrow DEF ChainInv
  <2>2. PICK q \in Heights : EpochOf(q) >= EpochOf(p) /\ f \in blocks[q].flips BY <1>6 DEF FlipsFrom
  <2>3. q = g BY <1>2, <1>3, <2>2 DEF ChainInv
  <2> QED BY <1>4, <2>1, <2>2, <2>3
<1> QED BY <1>5, <1>6

-----------------------------------------------------------------------------
(* The steps of the block indexer. *)

\* The database starts empty.
LEMMA InitFlipInv == Init => FlipInv
<1> SUFFICES ASSUME Init PROVE FlipInv OBVIOUS
<1>1. DOMAIN EmptyTable = {} BY DEF EmptyTable
<1>2. Heights = {} BY DEF Init, Heights
<1>3. TypeOK
  <2>1. blocks \in Seq([flips : SUBSET Flip, last : BOOLEAN, keyed : SUBSET Flip]) BY DEF Init
  <2>2. resets \in 0 .. MaxResets /\ interrupts \in 0 .. MaxInterrupts BY FlipContentAssumption DEF Init
  <2> QED BY <1>1, <2>1, <2>2 DEF Init, TypeOK
<1>4. QueueFollowsBlocks
  BY <1>1, <1>2, <1>3 DEF Init, QueueFollowsBlocks, QueuedByRecordedBlock, NothingForgotten, Keyed
<1>5. OnlyOvertakenGoAstray /\ BatchInv /\ DataInv
  BY <1>1 DEF Init, OnlyOvertakenGoAstray, BatchInv, DataInv
<1>6. ChainInv BY <1>2 DEF ChainInv
<1> QED BY <1>4, <1>5, <1>6 DEF FlipInv

\* A block on top of the recorded ones, whose flips are new and whose queued
\* flips are of its own epoch.
LEMMA OneMoreBlock ==
    ASSUME TypeOK, ChainInv,
           NEW b \in [flips : SUBSET Flip, last : BOOLEAN, keyed : SUBSET Flip],
           blocks' = Append(blocks, b),
           b.flips \cap Flips = {},
           b.keyed \subseteq FlipsFrom(EpochOf(Len(blocks) + 1)),
           b.keyed # {} => b.last
    PROVE  /\ blocks' \in Seq([flips : SUBSET Flip, last : BOOLEAN, keyed : SUBSET Flip])
           /\ Keyed' = Keyed \cup b.keyed
           /\ ChainInv'
<1> DEFINE Block == [flips : SUBSET Flip, last : BOOLEAN, keyed : SUBSET Flip]
           top == Len(blocks) + 1
<1>1. blocks \in Seq(Block) /\ Len(blocks) \in Nat /\ top \in Nat BY DEF TypeOK
<1>2. blocks' \in Seq(Block) BY <1>1
<1>3. /\ Len(blocks') = top /\ blocks'[top] = b
      /\ \A i \in 1..Len(blocks) : blocks'[i] = blocks[i]
  BY <1>1
<1>4. Heights' = 1..top BY <1>3 DEF Heights
<1>5. Heights' = Heights \cup {top} /\ top \notin Heights /\ \A i \in Heights : blocks'[i] = blocks[i]
  BY <1>1, <1>3, <1>4 DEF Heights
<1>6. Keyed' = Keyed \cup b.keyed
  <2>1. \A f : f \in Keyed' <=> \E h \in Heights \cup {top} : f \in blocks'[h].keyed BY <1>5, Zenon DEF Keyed
  <2>2. \A f : f \in Keyed <=> \E h \in Heights : f \in blocks[h].keyed BY Zenon DEF Keyed
  <2> HIDE DEF top
  <2> QED BY <1>3, <1>5, <2>1, <2>2
<1>7. \A h \in 1..top : EpochOf(h)' = EpochOf(h)
  <2> SUFFICES ASSUME NEW h \in 1..top PROVE EpochOf(h)' = EpochOf(h) OBVIOUS
  <2>1. h \in Nat /\ \A i \in 1 .. h - 1 : blocks'[i] = blocks[i] BY <1>1, <1>3
  <2> QED BY <2>1, EpochsStay
<1>8. ASSUME NEW g \in Heights', NEW h \in Heights', NEW f \in blocks'[g].flips, f \in blocks'[h].flips
      PROVE  g = h
  <2> HIDE DEF top
  <2>0. \A i \in Heights : f \in blocks'[i].flips => f \in Flips
    <3>1. \A i \in Heights : f \in blocks[i].flips => f \in Flips BY Zenon DEF Flips
    <3> QED BY <1>5, <3>1
  <2>1. CASE g \in Heights /\ h \in Heights BY <1>5, <1>8, <2>1 DEF ChainInv
  <2>2. CASE g = top /\ h \in Heights BY <1>3, <1>8, <2>0, <2>2
  <2>3. CASE g \in Heights /\ h = top BY <1>3, <1>8, <2>0, <2>3
  <2>4. CASE g = top /\ h = top BY <2>4
  <2> QED BY <1>5, <2>1, <2>2, <2>3, <2>4
<1>9. ASSUME NEW h \in Heights', NEW f \in blocks'[h].keyed
      PROVE  /\ blocks'[h].last
             /\ \E g \in 1..h : EpochOf(g)' >= EpochOf(h)' /\ f \in blocks'[g].flips
  <2>1. CASE h \in Heights
    <3>1. blocks'[h] = blocks[h] BY <1>5, <2>1
    <3>2. blocks[h].last /\ \E g \in 1..h : EpochOf(g) >= EpochOf(h) /\ f \in blocks[g].flips
      BY <1>9, <2>1, <3>1 DEF ChainInv
    <3>3. PICK g \in 1..h : EpochOf(g) >= EpochOf(h) /\ f \in blocks[g].flips BY <3>2
    <3>4. g \in Heights /\ g \in 1..top /\ h \in 1..top BY <1>1, <2>1 DEF Heights
    <3> QED BY <1>5, <1>7, <3>1, <3>2, <3>3, <3>4
  <2>2. CASE h = top
    <3>1. f \in b.keyed /\ b.last BY <1>3, <1>9, <2>2
    <3>2. PICK g \in Heights : EpochOf(g) >= EpochOf(top) /\ f \in blocks[g].flips BY <3>1 DEF FlipsFrom
    <3>3. g \in 1..h /\ g \in 1..top /\ h \in 1..top BY <1>1, <2>2 DEF Heights
    <3> QED BY <1>3, <1>5, <1>7, <2>2, <3>1, <3>2, <3>3
  <2> QED BY <1>5, <2>1, <2>2
<1>10. ChainInv' BY <1>8, <1>9 DEF ChainInv
<1> QED BY <1>2, <1>6, <1>10

\* A block inside an epoch queues nothing.
LEMMA SaveBlockFlipInv == ASSUME NEW new \in SUBSET Flip PROVE FlipInv /\ SaveBlock(new) => FlipInv'
<1> SUFFICES ASSUME FlipInv, SaveBlock(new) PROVE FlipInv' OBVIOUS
<1> DEFINE b == [flips |-> new, last |-> FALSE, keyed |-> {}]
<1>1. /\ new \subseteq Flip \ Flips /\ blocks' = Append(blocks, b)
      /\ UNCHANGED <<queue, data, batch, results, interrupts, givenUp, early, discarded, overtaken, resets, content>>
  BY DEF SaveBlock, loader, history
<1>2. TypeOK /\ ChainInv BY DEF FlipInv, QueueFollowsBlocks
<1>3. /\ b \in [flips : SUBSET Flip, last : BOOLEAN, keyed : SUBSET Flip]
      /\ b.flips \cap Flips = {} /\ b.keyed = {}
  BY <1>1
<1> HIDE DEF b
<1>4. /\ blocks' \in Seq([flips : SUBSET Flip, last : BOOLEAN, keyed : SUBSET Flip])
      /\ Keyed' = Keyed /\ ChainInv'
  <2>1. b.keyed \subseteq FlipsFrom(EpochOf(Len(blocks) + 1)) /\ (b.keyed # {} => b.last) BY <1>3
  <2> QED BY <1>1, <1>2, <1>3, <2>1, OneMoreBlock
<1>5. TypeOK' BY <1>1, <1>2, <1>4 DEF TypeOK
<1>6. QueueFollowsBlocks'
  BY <1>1, <1>4, <1>5 DEF FlipInv, QueueFollowsBlocks, QueuedByRecordedBlock, NothingForgotten
<1>7. OnlyOvertakenGoAstray' BY <1>1 DEF FlipInv, OnlyOvertakenGoAstray
<1>8. BatchInv' BY <1>1 DEF FlipInv, BatchInv
<1>9. DataInv' BY <1>1, <1>4 DEF FlipInv, DataInv
<1> QED BY <1>4, <1>6, <1>7, <1>8, <1>9 DEF FlipInv

\* The last block of an epoch queues flips that no recorded block has queued:
\* their content, if there is any, comes from an overtaken batch.
LEMMA SaveLastBlockFlipInv ==
    ASSUME NEW keyed \in SUBSET Flip, NEW delay \in {-MaxOverdue, FirstDelay}
    PROVE  FlipInv /\ SaveLastBlock(keyed, delay) => FlipInv'
<1> SUFFICES ASSUME FlipInv, SaveLastBlock(keyed, delay) PROVE FlipInv' OBVIOUS
<1> DEFINE b == [flips |-> {}, last |-> TRUE, keyed |-> keyed]
           row == [attempts |-> 0, wait |-> delay]
<1>1. /\ keyed \subseteq FlipsFrom(EpochOf(Len(blocks) + 1)) /\ keyed \cap DOMAIN queue = {}
      /\ blocks' = Append(blocks, b) /\ queue' = Enqueued(keyed, delay)
      /\ UNCHANGED <<data, batch, results, interrupts, givenUp, early, discarded, overtaken, resets, content>>
  BY DEF SaveLastBlock, loader, history
<1>2. TypeOK /\ ChainInv BY DEF FlipInv, QueueFollowsBlocks
<1>3. /\ b \in [flips : SUBSET Flip, last : BOOLEAN, keyed : SUBSET Flip]
      /\ b.flips \cap Flips = {} /\ b.keyed = keyed /\ b.last
  OBVIOUS
<1>4. row \in Rows /\ row.attempts = 0 BY FlipContentAssumption DEF Rows
<1> HIDE DEF b
<1>5. /\ blocks' \in Seq([flips : SUBSET Flip, last : BOOLEAN, keyed : SUBSET Flip])
      /\ Keyed' = Keyed \cup keyed /\ ChainInv'
  <2>1. b.keyed \subseteq FlipsFrom(EpochOf(Len(blocks) + 1)) /\ (b.keyed # {} => b.last) BY <1>1, <1>3
  <2> QED BY <1>1, <1>2, <1>3, <2>1, OneMoreBlock
<1>6. /\ DOMAIN queue' = DOMAIN queue \cup keyed
      /\ \A f \in keyed : queue'[f] = row
      /\ \A f \in DOMAIN queue : queue'[f] = queue[f]
  BY <1>1 DEF Enqueued
<1> HIDE DEF row
<1>7. TypeOK' BY <1>1, <1>2, <1>4, <1>5, <1>6 DEF TypeOK
<1>8. QueueFollowsBlocks'
  BY <1>1, <1>5, <1>6, <1>7 DEF FlipInv, QueueFollowsBlocks, QueuedByRecordedBlock, NothingForgotten
<1>9. keyed \cap data \subseteq overtaken
  <2> SUFFICES ASSUME NEW f \in keyed, f \in data, f \notin overtaken PROVE FALSE OBVIOUS
  <2>1. Len(blocks) \in Nat /\ Len(blocks) + 1 \in Nat BY <1>2 DEF TypeOK
  <2>2. PICK h \in Heights : f \in blocks[h].keyed BY DEF FlipInv, DataInv, Keyed
  <2>3. h < Len(blocks) + 1 BY <2>1 DEF Heights
  <2>4. f \notin FlipsFrom(EpochOf(Len(blocks) + 1)) BY <1>2, <2>1, <2>2, <2>3, KeyedEpochs
  <2> QED BY <1>1, <2>4
<1>10. OnlyOvertakenGoAstray' BY <1>1, <1>6, <1>9 DEF FlipInv, OnlyOvertakenGoAstray
<1>11. BatchInv'
  <2> SUFFICES ASSUME NEW f \in DOMAIN batch
               PROVE  /\ f \in DOMAIN queue' => queue'[f].attempts <= batch[f]
                      /\ f \notin overtaken => f \in DOMAIN queue' /\ batch[f] = queue'[f].attempts /\ f \notin data
    BY <1>1 DEF BatchInv
  <2>1. batch[f] \in Nat BY <1>2, FlipContentAssumption DEF TypeOK
  <2>2. CASE f \in DOMAIN queue BY <1>6, <2>2 DEF FlipInv, BatchInv
  <2>3. CASE f \notin DOMAIN queue
    <3>1. f \in overtaken BY <2>3 DEF FlipInv, BatchInv
    <3>2. f \in DOMAIN queue' => queue'[f].attempts = 0 BY <1>4, <1>6, <2>3
    <3> QED BY <2>1, <3>1, <3>2
  <2> QED BY <2>2, <2>3
<1>12. DataInv' BY <1>1, <1>5 DEF FlipInv, DataInv
<1> QED BY <1>5, <1>8, <1>10, <1>11, <1>12 DEF FlipInv

\* The blocks up to p.
LEMMA FewerBlocks ==
    ASSUME TypeOK, ChainInv, NEW p \in Nat, p < Len(blocks), blocks' = SubSeq(blocks, 1, p)
    PROVE  /\ blocks' \in Seq([flips : SUBSET Flip, last : BOOLEAN, keyed : SUBSET Flip])
           /\ Heights' = 1..p /\ 1..p \subseteq Heights
           /\ \A i \in 1..p : blocks'[i] = blocks[i]
           /\ ChainInv'
<1> DEFINE Block == [flips : SUBSET Flip, last : BOOLEAN, keyed : SUBSET Flip]
<1>1. blocks \in Seq(Block) /\ Len(blocks) \in Nat BY DEF TypeOK
<1>2. blocks' \in Seq(Block) /\ Len(blocks') = p /\ \A i \in 1..p : blocks'[i] = blocks[i]
  <2> HIDE DEF Block
  <2>1. 1..p \subseteq 1..Len(blocks) BY <1>1
  <2>2. \A i \in 1..p : blocks[i] \in Block BY <1>1, <2>1
  <2> QED BY <1>1, <2>1, <2>2
<1>3. Heights' = 1..p BY <1>2 DEF Heights
<1>4. 1..p \subseteq Heights BY <1>1 DEF Heights
<1>5. \A h \in 1..p : EpochOf(h)' = EpochOf(h)
  <2> SUFFICES ASSUME NEW h \in 1..p PROVE EpochOf(h)' = EpochOf(h) OBVIOUS
  <2>1. h \in Nat /\ \A i \in 1 .. h - 1 : blocks'[i] = blocks[i] BY <1>2
  <2> QED BY <2>1, EpochsStay
<1>6. ASSUME NEW g \in Heights', NEW h \in Heights', NEW f \in blocks'[g].flips, f \in blocks'[h].flips
      PROVE  g = h
  BY <1>2, <1>3, <1>4, <1>6 DEF ChainInv
<1>7. ASSUME NEW h \in Heights', NEW f \in blocks'[h].keyed
      PROVE  /\ blocks'[h].last
             /\ \E g \in 1..h : EpochOf(g)' >= EpochOf(h)' /\ f \in blocks'[g].flips
  <2>1. h \in Heights /\ h \in 1..p /\ blocks'[h] = blocks[h] BY <1>2, <1>3, <1>4
  <2>2. PICK g \in 1..h : EpochOf(g) >= EpochOf(h) /\ f \in blocks[g].flips BY <1>7, <2>1 DEF ChainInv
  <2>3. g \in 1..p /\ blocks'[g] = blocks[g] BY <1>2, <2>1, <2>2
  <2>4. blocks[h].last BY <1>7, <2>1 DEF ChainInv
  <2> QED BY <1>5, <2>1, <2>2, <2>3, <2>4
<1>8. ChainInv' BY <1>6, <1>7 DEF ChainInv
<1> QED BY <1>2, <1>3, <1>4, <1>8

\* A reset to p removes the flips of p's epoch: every queued flip of a block
\* above p is among them, and no queued flip of a block below p.
LEMMA ResetToFlipInv == ASSUME NEW p \in Nat PROVE FlipInv /\ ResetTo(p) => FlipInv'
<1> SUFFICES ASSUME FlipInv, ResetTo(p) PROVE FlipInv' OBVIOUS
<1> DEFINE gone == FlipsFrom(EpochOf(p))
<1>1. /\ resets < MaxResets /\ p < Len(blocks)
      /\ queue' = Without(queue, gone) /\ data' = data \ gone
      /\ blocks' = SubSeq(blocks, 1, p)
      /\ givenUp' = givenUp \ gone /\ early' = early \ gone
      /\ discarded' = (discarded \ gone) \cup (IF p > 0 THEN blocks[p].keyed ELSE {})
      /\ overtaken' = (overtaken \ gone) \cup DOMAIN batch
      /\ resets' = resets + 1 /\ UNCHANGED <<batch, results, interrupts, content>>
  BY DEF ResetTo, Removed, loader
<1>2. TypeOK /\ ChainInv BY DEF FlipInv, QueueFollowsBlocks
<1>3. /\ blocks' \in Seq([flips : SUBSET Flip, last : BOOLEAN, keyed : SUBSET Flip])
      /\ Heights' = 1..p /\ 1..p \subseteq Heights
      /\ \A i \in 1..p : blocks'[i] = blocks[i]
      /\ ChainInv'
  BY <1>1, <1>2, FewerBlocks
<1>4. ASSUME NEW h \in Heights, NEW f \in blocks[h].keyed
      PROVE  (h > p => f \in gone) /\ (h < p => f \notin gone)
  BY <1>2, KeyedEpochs
<1> HIDE DEF gone
<1>5. DOMAIN queue' = DOMAIN queue \ gone /\ \A f \in DOMAIN queue' : queue'[f] = queue[f]
  BY <1>1 DEF Without
<1>6. \A f : f \in Keyed <=> \E h \in Heights : f \in blocks[h].keyed BY Zenon DEF Keyed
<1>7. \A f : f \in Keyed' <=> \E h \in 1..p : f \in blocks[h].keyed
  <2>1. \A f : f \in Keyed' <=> \E h \in 1..p : f \in blocks'[h].keyed BY <1>3, Zenon DEF Keyed
  <2> QED BY <1>3, <2>1
<1>8. Keyed \ gone \subseteq Keyed'
  <2> SUFFICES ASSUME NEW f \in Keyed, f \notin gone PROVE f \in Keyed' OBVIOUS
  <2>1. PICK h \in Heights : f \in blocks[h].keyed BY <1>6
  <2>2. h \in Nat /\ 1 <= h /\ ~(h > p) BY <1>4, <2>1 DEF Heights
  <2>3. h \in 1..p BY <2>2
  <2> QED BY <1>7, <2>1, <2>3
<1>9. Keyed' \subseteq Keyed /\ Keyed' \cap gone \subseteq discarded'
  <2> SUFFICES ASSUME NEW f \in Keyed' PROVE f \in Keyed /\ (f \in gone => f \in discarded') OBVIOUS
  <2>1. PICK h \in 1..p : f \in blocks[h].keyed BY <1>7
  <2>2. h \in Heights BY <1>3
  <2>3. f \in Keyed BY <1>6, <2>1, <2>2
  <2>4. ASSUME f \in gone PROVE f \in discarded'
    <3>1. ~(h < p) BY <1>4, <2>1, <2>2, <2>4
    <3>2. h = p /\ p > 0 BY <2>1, <3>1
    <3> QED BY <1>1, <2>1, <3>2
  <2> QED BY <2>3, <2>4
<1>10. TypeOK'
  <2>1. UNION {givenUp', early', discarded', overtaken'} \subseteq Flip
    <3>1. p > 0 => p \in 1..Len(blocks) BY <1>1
    <3>2. p > 0 => blocks[p].keyed \subseteq Flip
      <4> DEFINE Block == [flips : SUBSET Flip, last : BOOLEAN, keyed : SUBSET Flip]
      <4>1. \A b \in Block : b.keyed \subseteq Flip OBVIOUS
      <4>2. blocks \in Seq(Block) BY <1>2 DEF TypeOK
      <4> HIDE DEF Block
      <4>3. \A i \in 1..Len(blocks) : blocks[i] \in Block BY <4>2
      <4> QED BY <3>1, <4>1, <4>3
    <3>3. /\ givenUp \subseteq Flip /\ early \subseteq Flip /\ discarded \subseteq Flip
          /\ overtaken \subseteq Flip /\ DOMAIN batch \subseteq Flip
      BY <1>2 DEF TypeOK
    <3>4. givenUp' \subseteq Flip /\ early' \subseteq Flip /\ discarded' \subseteq Flip /\ overtaken' \subseteq Flip
      BY <1>1, <3>2, <3>3
    <3> QED BY <3>4
  <2>2. resets' \in 0 .. MaxResets BY <1>1, <1>2, FlipContentAssumption DEF TypeOK
  <2> QED BY <1>1, <1>2, <1>3, <1>5, <2>1, <2>2 DEF TypeOK
<1>11. QueueFollowsBlocks'
  <2>1. DOMAIN queue' \subseteq Keyed'
    BY <1>5, <1>8 DEF FlipInv, QueueFollowsBlocks, QueuedByRecordedBlock
  <2>2. ASSUME NEW f \in Keyed' PROVE f \in DOMAIN queue' \cup data' \cup givenUp' \cup discarded'
    <3>1. f \in DOMAIN queue \cup data \cup givenUp \cup discarded
      BY <1>9 DEF FlipInv, QueueFollowsBlocks, NothingForgotten
    <3>2. CASE f \in gone BY <1>9, <3>2
    <3>3. CASE f \notin gone BY <1>1, <1>5, <3>1, <3>3
    <3> QED BY <3>2, <3>3
  <2> QED BY <1>10, <2>1, <2>2 DEF QueueFollowsBlocks, QueuedByRecordedBlock, NothingForgotten
<1>12. OnlyOvertakenGoAstray' BY <1>1, <1>5 DEF FlipInv, OnlyOvertakenGoAstray
<1>13. BatchInv' BY <1>1, <1>5 DEF FlipInv, BatchInv
<1>14. DataInv' BY <1>1, <1>8 DEF FlipInv, DataInv
<1> QED BY <1>3, <1>11, <1>12, <1>13, <1>14 DEF FlipInv

-----------------------------------------------------------------------------
(* The steps of the loader. *)

\* The loader leaves the blocks alone.
LEMMA SameBlocks ==
    ASSUME ChainInv, blocks' = blocks
    PROVE  Keyed' = Keyed /\ Flips' = Flips /\ ChainInv'
<1>1. Heights' = Heights BY DEF Heights
<1>2. Keyed' = Keyed /\ Flips' = Flips BY <1>1 DEF Keyed, Flips
<1>3. \A h : EpochOf(h)' = EpochOf(h) BY DEF EpochOf
<1>4. ASSUME NEW h \in Heights, NEW f \in blocks[h].keyed
      PROVE  \E g \in 1..h : EpochOf(g)' >= EpochOf(h)' /\ f \in blocks[g].flips
  BY <1>3 DEF ChainInv
<1> QED BY <1>1, <1>2, <1>4 DEF ChainInv

\* A batch is selected from rows whose content is not there yet, unless they
\* were overtaken.
LEMMA GetFlipsFlipInv == FlipInv /\ GetFlipsToLoadContent => FlipInv'
<1> SUFFICES ASSUME FlipInv, GetFlipsToLoadContent PROVE FlipInv' OBVIOUS
<1>1. UNCHANGED <<blocks, queue, data, results, interrupts, givenUp, early, discarded, overtaken, resets, content>>
  BY DEF GetFlipsToLoadContent, history
<1>2. PICK some \in SUBSET Due : batch' = [f \in some |-> queue[f].attempts] BY DEF GetFlipsToLoadContent
<1>3. batch = EmptyTable BY DEF GetFlipsToLoadContent
<1>4. TypeOK BY DEF FlipInv, QueueFollowsBlocks
<1>5. DOMAIN batch' \subseteq DOMAIN queue /\ \A f \in DOMAIN batch' : batch'[f] = queue[f].attempts
  BY <1>2 DEF Due
<1>6. DOMAIN results = {} BY <1>3, <1>4 DEF TypeOK, EmptyTable
<1>7. \A f \in DOMAIN queue : queue[f].attempts \in 0 .. AttemptsLimit - 1 BY <1>4 DEF TypeOK, Rows
<1>8. TypeOK' BY <1>1, <1>4, <1>5, <1>6, <1>7 DEF TypeOK
<1>9. Keyed' = Keyed /\ ChainInv' BY <1>1, SameBlocks DEF FlipInv
<1>10. QueueFollowsBlocks'
  BY <1>1, <1>8, <1>9 DEF FlipInv, QueueFollowsBlocks, QueuedByRecordedBlock, NothingForgotten
<1>11. OnlyOvertakenGoAstray' BY <1>1 DEF FlipInv, OnlyOvertakenGoAstray
<1>12. BatchInv'
  <2> SUFFICES ASSUME NEW f \in DOMAIN batch'
               PROVE  /\ queue[f].attempts <= batch'[f]
                      /\ f \notin overtaken => f \in DOMAIN queue /\ batch'[f] = queue[f].attempts /\ f \notin data
    BY <1>1 DEF BatchInv
  <2>1. f \in DOMAIN queue /\ batch'[f] = queue[f].attempts /\ queue[f].attempts \in Int BY <1>5, <1>7, FlipContentAssumption
  <2>2. f \notin overtaken => f \notin data BY <2>1 DEF FlipInv, OnlyOvertakenGoAstray
  <2> QED BY <2>1, <2>2
<1>13. DataInv' BY <1>1, <1>9 DEF FlipInv, DataInv
<1> QED BY <1>9, <1>10, <1>11, <1>12, <1>13 DEF FlipInv

\* A flip is asked for, whatever the answer.
LEMMA GetFlipContentFlipInv ==
    ASSUME NEW f \in Flip, NEW ok \in BOOLEAN PROVE FlipInv /\ GetFlipContent(f, ok) => FlipInv'
<1> SUFFICES ASSUME FlipInv, GetFlipContent(f, ok) PROVE FlipInv' OBVIOUS
<1> DEFINE r == [ok |-> ok, wait |-> RetryInterval]
<1>1. /\ f \in DOMAIN batch
      /\ results' = [g \in DOMAIN results \cup {f} |-> IF g = f THEN r ELSE results[g]]
      /\ UNCHANGED <<blocks, queue, data, batch, interrupts, givenUp, early, discarded, overtaken, resets, content>>
  BY DEF GetFlipContent, history
<1>2. TypeOK BY DEF FlipInv, QueueFollowsBlocks
<1>3. r \in Results BY FlipContentAssumption DEF Results
<1> HIDE DEF r
<1>4. TypeOK'
  <2>1. DOMAIN results' = DOMAIN results \cup {f} /\ \A g \in DOMAIN results' : results'[g] \in Results
    BY <1>1, <1>2, <1>3 DEF TypeOK
  <2> QED BY <1>1, <1>2, <2>1 DEF TypeOK
<1>5. Keyed' = Keyed /\ ChainInv' BY <1>1, SameBlocks DEF FlipInv
<1>6. QueueFollowsBlocks'
  BY <1>1, <1>4, <1>5 DEF FlipInv, QueueFollowsBlocks, QueuedByRecordedBlock, NothingForgotten
<1>7. OnlyOvertakenGoAstray' BY <1>1 DEF FlipInv, OnlyOvertakenGoAstray
<1>8. BatchInv' BY <1>1 DEF FlipInv, BatchInv
<1>9. DataInv' BY <1>1, <1>5 DEF FlipInv, DataInv
<1> QED BY <1>5, <1>6, <1>7, <1>8, <1>9 DEF FlipInv

\* What the batch says of its rows: a row that failed and was not given up has
\* an attempt left, since no row has more attempts than the batch knows of.
LEMMA SaveFlipsFlipInv == FlipInv /\ SaveFlipsContent => FlipInv'
<1> SUFFICES ASSUME FlipInv, SaveFlipsContent PROVE FlipInv' OBVIOUS
<1>1. /\ DOMAIN results = DOMAIN batch /\ batch' = EmptyTable /\ results' = EmptyTable
      /\ UNCHANGED <<blocks, interrupts, discarded, overtaken, resets, content>>
  BY DEF SaveFlipsContent
<1>2. DOMAIN batch' = {} /\ DOMAIN results' = {} BY <1>1 DEF EmptyTable
<1>3. TypeOK BY DEF FlipInv, QueueFollowsBlocks
<1>4. Keyed' = Keyed /\ ChainInv' BY <1>1, SameBlocks DEF FlipInv
<1>5. BatchInv' BY <1>2 DEF BatchInv
<1>6. CASE Refused
  <2>1. UNCHANGED <<queue, data, givenUp, early>> BY <1>6 DEF SaveFlipsContent
  <2>2. TypeOK' BY <1>1, <1>2, <1>3, <2>1 DEF TypeOK
  <2>3. QueueFollowsBlocks'
    BY <1>1, <1>4, <2>1, <2>2 DEF FlipInv, QueueFollowsBlocks, QueuedByRecordedBlock, NothingForgotten
  <2>4. OnlyOvertakenGoAstray' BY <1>1, <2>1 DEF FlipInv, OnlyOvertakenGoAstray
  <2>5. DataInv' BY <1>1, <1>4, <2>1 DEF FlipInv, DataInv
  <2> QED BY <1>4, <1>5, <2>3, <2>4, <2>5 DEF FlipInv
<1>7. CASE ~Refused
  <2>1. /\ queue' = QueueAfterSave /\ data' = data \cup Loaded
        /\ givenUp' = givenUp \cup (GaveUp \cap DOMAIN queue)
        /\ early' = early \cup {f \in GaveUp \cap DOMAIN queue : queue[f].attempts + 1 < AttemptsLimit}
    BY <1>7 DEF SaveFlipsContent
  <2>2. /\ Loaded \subseteq DOMAIN batch /\ GaveUp \subseteq DOMAIN batch /\ Failed = DOMAIN batch \ Loaded
        /\ \A f \in GaveUp : f \in Failed /\ batch[f] + 1 = AttemptsLimit
        /\ \A f \in Failed \ GaveUp : batch[f] + 1 # AttemptsLimit
    BY <1>1 DEF Loaded, Failed, GaveUp, AttemptsLimitReached
  <2>3. DOMAIN queue' = DOMAIN queue \ (GaveUp \cup Loaded) BY <2>1 DEF QueueAfterSave
  <2>4. ASSUME NEW f \in DOMAIN queue' PROVE queue'[f] \in Rows
    <3>1. f \in DOMAIN queue /\ f \notin GaveUp \cup Loaded /\ queue[f] \in Rows BY <1>3, <2>3, <2>4 DEF TypeOK
    <3>2. CASE f \in Failed
      <4>1. f \in DOMAIN batch /\ f \in DOMAIN results BY <1>1, <2>2, <3>2
      <4>2. queue'[f] = [attempts |-> queue[f].attempts + 1, wait |-> results[f].wait]
        BY <2>1, <3>1, <3>2 DEF QueueAfterSave
      <4>3. batch[f] \in 0 .. AttemptsLimit - 1 /\ batch[f] + 1 # AttemptsLimit /\ queue[f].attempts <= batch[f]
        BY <1>3, <2>2, <3>1, <3>2, <4>1 DEF TypeOK, FlipInv, BatchInv
      <4>4. queue[f].attempts \in 0 .. AttemptsLimit - 1 BY <3>1 DEF Rows
      <4>5. queue[f].attempts + 1 \in 0 .. AttemptsLimit - 1 BY <4>3, <4>4, FlipContentAssumption
      <4>6. results[f].wait \in -MaxOverdue .. RetryInterval BY <1>3, <4>1 DEF TypeOK, Results
      <4>7. results[f].wait \in -MaxOverdue .. (RetryInterval + FirstDelay) BY <4>6, FlipContentAssumption
      <4> QED BY <4>2, <4>5, <4>7 DEF Rows
    <3>3. CASE f \notin Failed
      <4>1. queue'[f] = queue[f] BY <2>1, <3>1, <3>3 DEF QueueAfterSave
      <4> QED BY <3>1, <4>1
    <3> QED BY <3>2, <3>3
  <2>5. DOMAIN batch \subseteq Flip BY <1>3 DEF TypeOK
  <2>6. TypeOK'
    <3>1. givenUp' \subseteq Flip /\ early' \subseteq Flip BY <1>3, <2>1, <2>2, <2>5 DEF TypeOK
    <3>2. UNION {givenUp', early', discarded', overtaken'} \subseteq Flip BY <1>1, <1>3, <3>1 DEF TypeOK
    <3>3. DOMAIN queue' \subseteq Flip /\ data' \subseteq Flip BY <1>3, <2>1, <2>2, <2>3, <2>5 DEF TypeOK
    <3> QED BY <1>1, <1>2, <1>3, <2>4, <3>2, <3>3 DEF TypeOK
  <2>7. DOMAIN queue' \subseteq Keyed' /\ Keyed' \subseteq DOMAIN queue' \cup data' \cup givenUp' \cup discarded'
    BY <1>1, <1>4, <2>1, <2>3 DEF FlipInv, QueueFollowsBlocks, QueuedByRecordedBlock, NothingForgotten
  <2>8. QueueFollowsBlocks' BY <2>6, <2>7 DEF QueueFollowsBlocks, QueuedByRecordedBlock, NothingForgotten
  <2>9. ASSUME NEW f \in GaveUp \cap DOMAIN queue, queue[f].attempts + 1 < AttemptsLimit PROVE f \in overtaken
    <3>1. f \in DOMAIN batch /\ batch[f] + 1 = AttemptsLimit BY <2>2
    <3>2. batch[f] # queue[f].attempts BY <2>9, <3>1, FlipContentAssumption
    <3> QED BY <3>1, <3>2 DEF FlipInv, BatchInv
  <2>10. OnlyOvertakenGoAstray'
    <3>1. DOMAIN queue' \cap data' \subseteq overtaken BY <2>1, <2>3 DEF FlipInv, OnlyOvertakenGoAstray
    <3>2. early' \subseteq overtaken BY <2>1, <2>9 DEF FlipInv, OnlyOvertakenGoAstray
    <3> QED BY <1>1, <3>1, <3>2 DEF OnlyOvertakenGoAstray
  <2>11. DataInv'
    <3> SUFFICES ASSUME NEW f \in data', f \notin overtaken PROVE f \in Keyed BY <1>1, <1>4 DEF DataInv
    <3>1. CASE f \in data BY <3>1 DEF FlipInv, DataInv
    <3>2. CASE f \in Loaded
      <4>1. f \in DOMAIN queue BY <2>2, <3>2 DEF FlipInv, BatchInv
      <4> QED BY <4>1 DEF FlipInv, QueueFollowsBlocks, QueuedByRecordedBlock
    <3> QED BY <2>1, <3>1, <3>2
  <2> QED BY <1>4, <1>5, <2>8, <2>10, <2>11 DEF FlipInv
<1> QED BY <1>6, <1>7

\* Nothing but the batch is lost with it.
LEMMA LoseBatchFlipInv == FlipInv /\ LoseBatch => FlipInv'
<1> SUFFICES ASSUME FlipInv, LoseBatch PROVE FlipInv' OBVIOUS
<1>1. /\ interrupts < MaxInterrupts /\ interrupts' = interrupts + 1
      /\ batch' = EmptyTable /\ results' = EmptyTable
      /\ UNCHANGED <<blocks, queue, data, givenUp, early, discarded, overtaken, resets, content>>
  BY DEF LoseBatch, history
<1>2. DOMAIN batch' = {} /\ DOMAIN results' = {} BY <1>1 DEF EmptyTable
<1>3. TypeOK'
  <2>1. TypeOK BY DEF FlipInv, QueueFollowsBlocks
  <2>2. interrupts' \in 0 .. MaxInterrupts BY <1>1, <2>1, FlipContentAssumption DEF TypeOK
  <2> QED BY <1>1, <1>2, <2>1, <2>2 DEF TypeOK
<1>4. Keyed' = Keyed /\ ChainInv' BY <1>1, SameBlocks DEF FlipInv
<1>5. QueueFollowsBlocks'
  BY <1>1, <1>3, <1>4 DEF FlipInv, QueueFollowsBlocks, QueuedByRecordedBlock, NothingForgotten
<1>6. OnlyOvertakenGoAstray' BY <1>1 DEF FlipInv, OnlyOvertakenGoAstray
<1>7. BatchInv' BY <1>2 DEF BatchInv
<1>8. DataInv' BY <1>1, <1>4 DEF FlipInv, DataInv
<1> QED BY <1>4, <1>5, <1>6, <1>7, <1>8 DEF FlipInv

\* A panic loses the batch and nothing of the database.
LEMMA PanicFlipInv == FlipInv /\ Panic => FlipInv'
<1> SUFFICES ASSUME FlipInv, Panic PROVE FlipInv' OBVIOUS
<1>1. /\ batch' = EmptyTable /\ results' = EmptyTable
      /\ UNCHANGED <<blocks, queue, data, interrupts, givenUp, early, discarded, overtaken, resets, content>>
  BY DEF Panic, history
<1>2. DOMAIN batch' = {} /\ DOMAIN results' = {} BY <1>1 DEF EmptyTable
<1>3. TypeOK' BY <1>1, <1>2 DEF FlipInv, QueueFollowsBlocks, TypeOK
<1>4. Keyed' = Keyed /\ ChainInv' BY <1>1, SameBlocks DEF FlipInv
<1>5. QueueFollowsBlocks'
  BY <1>1, <1>3, <1>4 DEF FlipInv, QueueFollowsBlocks, QueuedByRecordedBlock, NothingForgotten
<1>6. OnlyOvertakenGoAstray' BY <1>1 DEF FlipInv, OnlyOvertakenGoAstray
<1>7. BatchInv' BY <1>2 DEF BatchInv
<1>8. DataInv' BY <1>1, <1>4 DEF FlipInv, DataInv
<1> QED BY <1>4, <1>5, <1>6, <1>7, <1>8 DEF FlipInv

\* Time changes nothing but the waiting.
LEMMA TickFlipInv == FlipInv /\ Tick => FlipInv'
<1> SUFFICES ASSUME FlipInv, Tick PROVE FlipInv' OBVIOUS
<1>1. /\ queue' = [f \in DOMAIN queue |-> [queue[f] EXCEPT !.wait = Earlier(@)]]
      /\ results' = [f \in DOMAIN results |-> [results[f] EXCEPT !.wait = Earlier(@)]]
      /\ UNCHANGED <<blocks, data, batch, interrupts, givenUp, early, discarded, overtaken, resets, content>>
  BY DEF Tick, history
<1>2. TypeOK BY DEF FlipInv, QueueFollowsBlocks
<1>3. \A n \in Int : \A w \in -MaxOverdue .. n : Earlier(w) \in -MaxOverdue .. n
  BY FlipContentAssumption DEF Earlier
<1>4. /\ DOMAIN queue' = DOMAIN queue
      /\ \A f \in DOMAIN queue : queue'[f] \in Rows /\ queue'[f].attempts = queue[f].attempts
  <2> SUFFICES ASSUME NEW f \in DOMAIN queue PROVE queue'[f] \in Rows /\ queue'[f].attempts = queue[f].attempts
    BY <1>1
  <2>1. queue[f] \in Rows /\ queue'[f] = [queue[f] EXCEPT !.wait = Earlier(@)] BY <1>1, <1>2 DEF TypeOK
  <2>2. Earlier(queue[f].wait) \in -MaxOverdue .. (RetryInterval + FirstDelay)
    BY <1>3, <2>1, FlipContentAssumption DEF Rows
  <2> QED BY <2>1, <2>2 DEF Rows
<1>5. DOMAIN results' = DOMAIN results /\ \A f \in DOMAIN results : results'[f] \in Results
  <2> SUFFICES ASSUME NEW f \in DOMAIN results PROVE results'[f] \in Results BY <1>1
  <2>1. results[f] \in Results /\ results'[f] = [results[f] EXCEPT !.wait = Earlier(@)] BY <1>1, <1>2 DEF TypeOK
  <2>2. Earlier(results[f].wait) \in -MaxOverdue .. RetryInterval
    BY <1>3, <2>1, FlipContentAssumption DEF Results
  <2> QED BY <2>1, <2>2 DEF Results
<1>6. TypeOK' BY <1>1, <1>2, <1>4, <1>5 DEF TypeOK
<1>7. Keyed' = Keyed /\ ChainInv' BY <1>1, SameBlocks DEF FlipInv
<1>8. QueueFollowsBlocks'
  BY <1>1, <1>4, <1>6, <1>7 DEF FlipInv, QueueFollowsBlocks, QueuedByRecordedBlock, NothingForgotten
<1>9. OnlyOvertakenGoAstray' BY <1>1, <1>4 DEF FlipInv, OnlyOvertakenGoAstray
<1>10. BatchInv' BY <1>1, <1>4 DEF FlipInv, BatchInv
<1>11. DataInv' BY <1>1, <1>7 DEF FlipInv, DataInv
<1> QED BY <1>7, <1>8, <1>9, <1>10, <1>11 DEF FlipInv

\* Every step of the block indexer and of the loader keeps the invariant.
LEMMA NextFlipInv == FlipInv /\ [Next]_vars => FlipInv'
<1> SUFFICES ASSUME FlipInv, [Next]_vars PROVE FlipInv' OBVIOUS
<1>1. ASSUME NEW new \in SUBSET Flip, SaveBlock(new) PROVE FlipInv' BY <1>1, SaveBlockFlipInv
<1>2. ASSUME NEW keyed \in SUBSET Flip, NEW delay \in {-MaxOverdue, FirstDelay}, SaveLastBlock(keyed, delay)
      PROVE  FlipInv'
  BY <1>2, SaveLastBlockFlipInv
<1>3. ASSUME NEW p \in 0 .. MaxHeight, ResetTo(p) PROVE FlipInv' BY <1>3, ResetToFlipInv
<1>4. CASE GetFlipsToLoadContent BY <1>4, GetFlipsFlipInv
<1>5. CASE LoadSome BY <1>5, GetFlipContentFlipInv DEF LoadSome
<1>6. CASE SaveFlipsContent BY <1>6, SaveFlipsFlipInv
<1>7. CASE LoseBatch BY <1>7, LoseBatchFlipInv
<1>8. CASE Tick BY <1>8, TickFlipInv
<1>10. CASE Panic BY <1>10, PanicFlipInv
<1>9. CASE UNCHANGED vars
  <2>1. UNCHANGED <<blocks, queue, data, batch, results, interrupts, givenUp, early, discarded, overtaken, resets, content>>
    BY <1>9 DEF vars, loader, history
  <2>2. TypeOK' BY <2>1 DEF FlipInv, QueueFollowsBlocks, TypeOK
  <2>3. Keyed' = Keyed /\ ChainInv' BY <2>1, SameBlocks DEF FlipInv
  <2>4. QueueFollowsBlocks'
    BY <2>1, <2>2, <2>3 DEF FlipInv, QueueFollowsBlocks, QueuedByRecordedBlock, NothingForgotten
  <2>5. OnlyOvertakenGoAstray' /\ BatchInv' /\ DataInv'
    BY <2>1, <2>3 DEF FlipInv, OnlyOvertakenGoAstray, BatchInv, DataInv
  <2> QED BY <2>3, <2>4, <2>5 DEF FlipInv
<1> QED BY <1>1, <1>2, <1>3, <1>4, <1>5, <1>6, <1>7, <1>8, <1>9, <1>10 DEF Next

\* flips_queue keeps no row of an epoch that was reset, forgets no flip of one
\* that was not, and counts no row past the limit of attempts, however blocks
\* are replaced while the loader holds a batch (update_flips_queue, reset_to,
\* save_flips_content).
THEOREM QueueFollowsBlocksAlways == Spec => []QueueFollowsBlocks
<1>1. FlipInv => QueueFollowsBlocks BY DEF FlipInv
<1> QED BY <1>1, InitFlipInv, NextFlipInv, PTL DEF Spec

\* A batch that no reset_to overtook is written as it was selected: no queued
\* flip has its content already, and none is given up before its last attempt
\* (handleFlips, save_flips_content).
THEOREM OnlyOvertakenGoAstrayAlways == Spec => []OnlyOvertakenGoAstray
<1>1. FlipInv => OnlyOvertakenGoAstray BY DEF FlipInv
<1> QED BY <1>1, InitFlipInv, NextFlipInv, PTL DEF Spec

-----------------------------------------------------------------------------
(* Lists of flips. *)

\* Two lists of different flips make one.
LEMMA ConcatLists ==
    ASSUME NEW S, NEW s \in Seq(S), NEW t \in Seq(S), IsInjective(s), IsInjective(t), Range(s) \cap Range(t) = {}
    PROVE  /\ s \o t \in Seq(S) /\ IsInjective(s \o t)
           /\ Range(s \o t) = Range(s) \cup Range(t)
<1> DEFINE m == Len(s)
           n == Len(t)
           st == s \o t
<1>1. m \in Nat /\ n \in Nat /\ DOMAIN s = 1 .. m /\ DOMAIN t = 1 .. n OBVIOUS
<1>2. st \in Seq(S) /\ Len(st) = m + n /\ DOMAIN st = 1 .. (m + n) OBVIOUS
<1>3. \A i \in 1 .. m : st[i] = s[i] OBVIOUS
<1>4. \A i \in 1 .. (m + n) : i \notin 1 .. m => i - m \in 1 .. n /\ st[i] = t[i - m] OBVIOUS
<1>5. \A j \in 1 .. n : m + j \in 1 .. (m + n) /\ st[m + j] = t[j] OBVIOUS
<1> HIDE DEF m, n, st
<1>6. \A i \in 1 .. m : i \in 1 .. (m + n) BY <1>1
<1>7. Range(st) \subseteq Range(s) \cup Range(t) BY <1>1, <1>2, <1>3, <1>4 DEF Range
<1>8. Range(s) \cup Range(t) \subseteq Range(st)
  <2>1. Range(s) \subseteq Range(st) BY <1>1, <1>2, <1>3, <1>6 DEF Range
  <2>2. Range(t) \subseteq Range(st)
    <3> SUFFICES ASSUME NEW j \in 1 .. n PROVE t[j] \in Range(st) BY <1>1 DEF Range
    <3> QED BY <1>2, <1>5 DEF Range
  <2> QED BY <2>1, <2>2
<1>9. ASSUME NEW i \in 1 .. (m + n), NEW j \in 1 .. (m + n), st[i] = st[j] PROVE i = j
  <2>1. CASE i \in 1 .. m /\ j \in 1 .. m BY <1>1, <1>3, <1>9, <2>1 DEF IsInjective
  <2>2. CASE i \notin 1 .. m /\ j \notin 1 .. m
    <3>1. i - m \in 1 .. n /\ j - m \in 1 .. n /\ t[i - m] = t[j - m] BY <1>4, <1>9, <2>2
    <3>2. i - m = j - m BY <1>1, <3>1 DEF IsInjective
    <3> QED BY <1>1, <3>2
  <2>3. CASE i \in 1 .. m /\ j \notin 1 .. m
    <3>1. s[i] \in Range(s) /\ j - m \in 1 .. n /\ s[i] = t[j - m] BY <1>1, <1>3, <1>4, <1>9, <2>3 DEF Range
    <3>2. t[j - m] \in Range(t) BY <1>1, <3>1 DEF Range
    <3> QED BY <3>1, <3>2
  <2>4. CASE i \notin 1 .. m /\ j \in 1 .. m
    <3>1. s[j] \in Range(s) /\ i - m \in 1 .. n /\ s[j] = t[i - m] BY <1>1, <1>3, <1>4, <1>9, <2>4 DEF Range
    <3>2. t[i - m] \in Range(t) BY <1>1, <3>1 DEF Range
    <3> QED BY <3>1, <3>2
  <2> QED BY <2>1, <2>2, <2>3, <2>4
<1> QED BY <1>2, <1>7, <1>8, <1>9 DEF IsInjective, st

OwnFlip == Recipients \X Nat

\* The flips that are announced have the numbers from the first to the last.
LEMMA NumberedFlips ==
    ASSUME NEW a \in Recipients, NEW first \in {1, 4}, NEW last \in Nat, first <= last + 1,
           NEW s, s = FlipsOf(a, first, last)
    PROVE  /\ s \in Seq(OwnFlip) /\ IsInjective(s) /\ Len(s) = last - first + 1
           /\ \A f \in Range(s) : f[1] = a /\ f[2] \in first .. last
<1> DEFINE n == last - first + 1
<1>1. n \in Nat OBVIOUS
<1>2. s = [i \in 1 .. n |-> <<a, first + i - 1>>] BY DEF FlipsOf
<1>3. ASSUME NEW i \in 1 .. n PROVE first + i - 1 \in first .. last /\ first + i - 1 \in Nat OBVIOUS
<1>4. \A i, j \in 1 .. n : first + i - 1 = first + j - 1 => i = j OBVIOUS
<1> HIDE DEF n
<1>5. s \in [1 .. n -> OwnFlip] BY <1>2, <1>3 DEF OwnFlip
<1>6. s \in Seq(OwnFlip) /\ Len(s) = n
  <2> HIDE DEF OwnFlip
  <2> QED BY <1>1, <1>5
<1>7. IsInjective(s)
  <2>1. \A i \in 1 .. n : s[i][2] = first + i - 1 BY <1>2
  <2> QED BY <1>4, <1>5, <2>1 DEF IsInjective
<1>8. \A f \in Range(s) : f[1] = a /\ f[2] \in first .. last BY <1>2, <1>3 DEF Range
<1> QED BY <1>6, <1>7, <1>8 DEF n

\* An author has no more flips than numbers.
LEMMA FlipsAreFew ==
    ASSUME NEW S \in SUBSET OwnFlip, NEW a, NEW lo \in Nat, NEW hi \in Nat,
           \A f \in S : f[1] = a /\ f[2] \in lo .. hi
    PROVE  /\ IsFiniteSet(S) /\ Cardinality(S) \in Nat
           /\ Cardinality(S) <= IF lo > hi THEN 0 ELSE hi - lo + 1
<1> DEFINE A == lo .. hi
           g == [f \in S |-> f[2]]
<1>1. IsFiniteSet(A) /\ Cardinality(A) = IF lo > hi THEN 0 ELSE hi - lo + 1
  <2>1. lo \in Int /\ hi \in Int OBVIOUS
  <2> QED BY <2>1, FS_Interval
<1>2. g \in [S -> A] OBVIOUS
<1>3. \A x, y \in S : g[x] = g[y] => x = y BY DEF OwnFlip
<1> HIDE DEF A, g
<1>4. g \in Injection(S, A) BY <1>2, <1>3 DEF Injection, IsInjective
<1>5. IsFiniteSet(S) /\ Cardinality(S) <= Cardinality(A) BY <1>1, <1>4, FS_Injection
<1>6. Cardinality(S) \in Nat BY <1>5, FS_CardinalityType
<1> QED BY <1>1, <1>5, <1>6

-----------------------------------------------------------------------------
(* The invariant. *)

AllTypes == RewardTypes \cup MiningTypes
GivenReward == [from : Recipients, to : Recipients, type : AllTypes, amount : Nat \X Nat]

\* The basic flips have the numbers from 1, since upgrade 10 up to 3; the extra
\* ones those from 4.
FlipNumbers ==
    /\ basicFlips \in Seq(OwnFlip) /\ extraFlips \in Seq(OwnFlip)
    /\ IsInjective(basicFlips) /\ IsInjective(extraFlips)
    /\ \A f \in Range(basicFlips) : f[2] >= 1 /\ (rules # "before10" => f[2] <= 3)
    /\ \A f \in Range(extraFlips) : f[2] >= 4 /\ rules # "before10"

\* Who has extra flips has got the reward that lists them.
ExtraListed ==
    \A f \in Range(extraFlips) :
        /\ rules = "upgrade11" => \E b \in Range(basicFlips) : b[1] = f[1]
        /\ rules = "upgrade10" => \E g \in Range(given) : g.to = f[1] /\ g.type = "ExtraFlips"

FlipsInv ==
    /\ rules \in {"before10", "upgrade10", "upgrade11"} /\ given \in Seq(GivenReward)
    /\ FlipNumbers /\ ExtraListed
    /\ phase = "rewards" => summaries = <<>>
    /\ DOMAIN summaries \subseteq DOMAIN iterated
    /\ FlipCountsAddUp

\* The empty lists.
LEMMA InitFlipsInv == ResultInit => FlipsInv
<1> SUFFICES ASSUME ResultInit PROVE FlipsInv OBVIOUS
<1>1. /\ rules \in {"before10", "upgrade10", "upgrade11"} /\ given = <<>> /\ basicFlips = <<>>
      /\ extraFlips = <<>> /\ summaries = <<>>
  BY DEF ResultInit, RewardsInit
<1>2. <<>> \in Seq(OwnFlip) /\ <<>> \in Seq(GivenReward) OBVIOUS
<1>3. DOMAIN <<>> = {} OBVIOUS
<1>4. IsInjective(<<>>) /\ Range(<<>>) = {} BY <1>3 DEF IsInjective, Range
<1>5. FlipNumbers /\ ExtraListed BY <1>1, <1>2, <1>4 DEF FlipNumbers, ExtraListed
<1>6. FlipCountsAddUp BY <1>1, <1>3 DEF FlipCountsAddUp
<1> QED BY <1>1, <1>2, <1>5, <1>6 DEF FlipsInv

\* What the calls do to the history of what was given.
LEMMA GiveStep ==
    ASSUME FlipsInv, NEW from \in Recipients, NEW to \in Recipients, NEW type \in AllTypes,
           NEW amount \in Nat \X Nat, Give(from, to, type, amount)
    PROVE  /\ rules' = rules /\ given' \in Seq(GivenReward)
           /\ Range(given) \subseteq Range(given')
           /\ \E g \in Range(given') : g.to = to /\ g.type = type
<1> DEFINE g == [from |-> from, to |-> to, type |-> type, amount |-> amount]
<1>1. given' = Append(given, g) /\ rules' = rules BY DEF Give
<1>2. g \in GivenReward /\ g.to = to /\ g.type = type BY DEF GivenReward
<1>3. given \in Seq(GivenReward) BY DEF FlipsInv
<1> HIDE DEF g, GivenReward
<1>4. given' \in Seq(GivenReward) /\ Len(given') = Len(given) + 1 BY <1>1, <1>2, <1>3
<1>5. \A i \in DOMAIN given : i \in DOMAIN given' /\ given'[i] = given[i] BY <1>1, <1>2, <1>3
<1>6. Len(given') \in DOMAIN given' /\ given'[Len(given')] = g BY <1>1, <1>2, <1>3, <1>4
<1>7. g \in Range(given') BY <1>6 DEF Range
<1>8. Range(given) \subseteq Range(given') BY <1>5 DEF Range
<1> QED BY <1>1, <1>2, <1>4, <1>7, <1>8

\* A reward that lists no flips.
LEMMA NoFlipsStep ==
    ASSUME FlipsInv, phase = "rewards", UNCHANGED resultVars, UNCHANGED <<basicFlips, extraFlips>>,
           rules' = rules, given' \in Seq(GivenReward), Range(given) \subseteq Range(given')
    PROVE  FlipsInv'
<1>1. FlipNumbers /\ ExtraListed /\ summaries = <<>> BY DEF FlipsInv
<1>2. FlipNumbers' BY <1>1 DEF FlipNumbers
<1>3. ExtraListed' BY <1>1 DEF ExtraListed
<1>4. phase' = "rewards" /\ summaries' = <<>> BY <1>1 DEF resultVars
<1>5. FlipCountsAddUp' BY <1>4 DEF FlipCountsAddUp
<1>6. DOMAIN summaries' \subseteq DOMAIN iterated' BY DEF resultVars, FlipsInv
<1> QED BY <1>2, <1>3, <1>4, <1>5, <1>6 DEF FlipsInv

\* A reward that lists flips: it keeps the two parts that speak of the lists.
LEMMA FlipsStep ==
    ASSUME FlipsInv, phase = "rewards", UNCHANGED resultVars, FlipNumbers', ExtraListed',
           rules' = rules, given' \in Seq(GivenReward)
    PROVE  FlipsInv'
<1>1. phase' = "rewards" /\ summaries' = <<>> BY DEF resultVars, FlipsInv
<1>2. FlipCountsAddUp' BY <1>1 DEF FlipCountsAddUp
<1>3. DOMAIN summaries' \subseteq DOMAIN iterated' BY DEF resultVars, FlipsInv
<1> QED BY <1>1, <1>2, <1>3 DEF FlipsInv

\* AddFlipsBasicReward: an author that has no basic flips has no extra ones that
\* this reward may list again.
LEMMA BasicFlipsInv ==
    ASSUME FlipsInv, phase = "rewards", UNCHANGED resultVars,
           NEW to \in Recipients, NEW from \in Recipients, NEW amount \in Amounts, NEW count \in FlipCounts,
           AddFlipsBasicReward(from, to, amount, count)
    PROVE  FlipsInv'
<1> DEFINE flips == BasicAnnounced(to, count)
<1>0. FlipNumbers /\ ExtraListed BY DEF FlipsInv
<1>1. /\ \A f \in Range(basicFlips) : f[1] # to
      /\ Give(from, to, "Flips", amount) /\ ListBasicFlips(flips)
  BY DEF AddFlipsBasicReward, AddEpochReward
<1>2. amount \in Nat \X Nat /\ count \in Nat /\ "Flips" \in AllTypes
  BY RewardsAssumption DEF AllTypes, RewardTypes, MergedTypes
<1>3. /\ rules' = rules /\ given' \in Seq(GivenReward) /\ Range(given) \subseteq Range(given')
  BY <1>1, <1>2, GiveStep
<1>4. PICK n \in Nat : flips = FlipsOf(to, 1, n) /\ (rules = "upgrade10" => n <= 3)
  <2>1. CASE rules = "upgrade10" /\ count > 3
    <3>1. flips = FlipsOf(to, 1, 3) BY <2>1 DEF BasicAnnounced
    <3> QED BY <3>1
  <2>2. CASE ~(rules = "upgrade10" /\ count > 3)
    <3>1. flips = FlipsOf(to, 1, count) BY <2>2 DEF BasicAnnounced
    <3> QED BY <1>2, <2>2, <3>1
  <2> QED BY <2>1, <2>2
<1>5. /\ flips \in Seq(OwnFlip) /\ IsInjective(flips) /\ Len(flips) = n
      /\ \A f \in Range(flips) : f[1] = to /\ f[2] \in 1 .. n
  <2>1. 1 <= n + 1 /\ n - 1 + 1 = n /\ 1 \in {1, 4} BY <1>4
  <2>2. flips = FlipsOf(to, 1, n) BY <1>4
  <2> HIDE DEF flips
  <2> QED BY <2>1, <2>2, NumberedFlips
<1> HIDE DEF flips
<1>6. CASE rules # "upgrade11" \/ Len(flips) <= 3
  <2>1. basicFlips' = basicFlips \o flips /\ extraFlips' = extraFlips BY <1>1, <1>6 DEF ListBasicFlips
  <2>2. Range(basicFlips) \cap Range(flips) = {} BY <1>1, <1>5
  <2>3. /\ basicFlips' \in Seq(OwnFlip) /\ IsInjective(basicFlips')
        /\ Range(basicFlips') = Range(basicFlips) \cup Range(flips)
    <3> HIDE DEF OwnFlip
    <3> QED BY <1>0, <1>5, <2>1, <2>2, ConcatLists DEF FlipNumbers
  <2>4. \A f \in Range(flips) : f[2] >= 1 /\ (rules # "before10" => f[2] <= 3)
    <3>1. rules # "before10" => n <= 3 BY <1>4, <1>5, <1>6 DEF FlipsInv
    <3> QED BY <1>4, <1>5, <3>1
  <2>5. FlipNumbers' BY <1>0, <1>3, <2>1, <2>3, <2>4 DEF FlipNumbers
  <2>6. ExtraListed' BY <1>0, <1>3, <2>1, <2>3 DEF ExtraListed
  <2> QED BY <1>3, <2>5, <2>6, FlipsStep
<1>7. CASE ~(rules # "upgrade11" \/ Len(flips) <= 3)
  <2> DEFINE b == SubSeq(flips, 1, 3)
             e == SubSeq(flips, 4, Len(flips))
  <2>1. rules = "upgrade11" /\ n > 3 BY <1>4, <1>5, <1>7
  <2>2. basicFlips' = basicFlips \o b /\ extraFlips' = extraFlips \o e BY <1>1, <1>7 DEF ListBasicFlips
  <2>3. b = FlipsOf(to, 1, 3)
    <3>1. flips = [i \in 1 .. n |-> <<to, i>>] BY <1>4 DEF FlipsOf
    <3>2. FlipsOf(to, 1, 3) = [i \in 1 .. 3 |-> <<to, i>>] BY DEF FlipsOf
    <3>3. b = [i \in 1 .. 3 |-> flips[i]] BY <1>4, <1>5, <2>1
    <3>4. \A i \in 1 .. 3 : flips[i] = <<to, i>> BY <1>4, <2>1, <3>1
    <3> HIDE DEF b
    <3> QED BY <3>2, <3>3, <3>4
  <2>4. e = FlipsOf(to, 4, n)
    <3>1. flips = [i \in 1 .. n |-> <<to, i>>] BY <1>4 DEF FlipsOf
    <3>2. FlipsOf(to, 4, n) = [i \in 1 .. (n - 3) |-> <<to, i + 3>>] BY <1>4 DEF FlipsOf
    <3>3. e = [i \in 1 .. (n - 3) |-> flips[i + 3]] BY <1>4, <1>5, <2>1
    <3>4. \A i \in 1 .. (n - 3) : flips[i + 3] = <<to, i + 3>> BY <1>4, <3>1
    <3> QED BY <3>2, <3>3, <3>4
  <2>5. b \in Seq(OwnFlip) /\ IsInjective(b) /\ Len(b) = 3 /\ \A f \in Range(b) : f[1] = to /\ f[2] \in 1 .. 3
    <3>1. 1 <= 3 + 1 /\ 3 - 1 + 1 = 3 /\ 1 \in {1, 4} /\ 3 \in Nat OBVIOUS
    <3> HIDE DEF b
    <3>2. ASSUME NEW m \in Nat, m = 3
          PROVE  b \in Seq(OwnFlip) /\ IsInjective(b) /\ Len(b) = m /\ \A f \in Range(b) : f[1] = to /\ f[2] \in 1 .. m
      <4>1. b = FlipsOf(to, 1, m) /\ 1 <= m + 1 /\ m - 1 + 1 = m BY <2>3, <3>2
      <4> QED BY <3>1, <4>1, NumberedFlips
    <3> QED BY <3>1, <3>2
  <2>6. e \in Seq(OwnFlip) /\ IsInjective(e) /\ \A f \in Range(e) : f[1] = to /\ f[2] \in 4 .. n
    <3>1. 4 <= n + 1 /\ 4 \in {1, 4} BY <1>4, <2>1
    <3> HIDE DEF e
    <3> QED BY <1>4, <2>4, <3>1, NumberedFlips
  <2> HIDE DEF b, e
  <2>7. Range(basicFlips) \cap Range(b) = {} BY <1>1, <2>5
  <2>8. Range(extraFlips) \cap Range(e) = {} BY <1>0, <1>1, <2>1, <2>6 DEF ExtraListed
  <2>9. /\ basicFlips' \in Seq(OwnFlip) /\ IsInjective(basicFlips')
        /\ Range(basicFlips') = Range(basicFlips) \cup Range(b)
    <3> HIDE DEF OwnFlip
    <3> QED BY <1>0, <2>2, <2>5, <2>7, ConcatLists DEF FlipNumbers
  <2>10. /\ extraFlips' \in Seq(OwnFlip) /\ IsInjective(extraFlips')
         /\ Range(extraFlips') = Range(extraFlips) \cup Range(e)
    <3> HIDE DEF OwnFlip
    <3> QED BY <1>0, <2>2, <2>6, <2>8, ConcatLists DEF FlipNumbers
  <2>11. FlipNumbers'
    <3>1. \A f \in Range(b) : f[2] >= 1 /\ f[2] <= 3 BY <2>5
    <3>2. \A f \in Range(e) : f[2] >= 4 BY <1>4, <2>6
    <3> QED BY <1>0, <1>3, <2>1, <2>9, <2>10, <3>1, <3>2 DEF FlipNumbers
  <2>12. \E f \in Range(basicFlips') : f[1] = to
    <3>1. b[1] \in Range(b) BY <2>5 DEF Range
    <3> QED BY <2>5, <2>9, <3>1
  <2>13. ExtraListed' BY <1>0, <1>3, <2>1, <2>6, <2>9, <2>10, <2>12 DEF ExtraListed
  <2> QED BY <1>3, <2>11, <2>13, FlipsStep
<1> QED BY <1>6, <1>7

\* AddFlipsExtraReward: an author gets it once, and since upgrade 11 it lists nothing.
LEMMA ExtraFlipsInv ==
    ASSUME FlipsInv, phase = "rewards", UNCHANGED resultVars,
           NEW to \in Recipients, NEW from \in Recipients, NEW amount \in Amounts, NEW count \in FlipCounts,
           AddFlipsExtraReward(from, to, amount, count)
    PROVE  FlipsInv'
<1> DEFINE flips == ExtraAnnounced(to, count)
<1>0. FlipNumbers /\ ExtraListed /\ rules \in {"before10", "upgrade10", "upgrade11"} BY DEF FlipsInv
<1>1. /\ rules # "before10" /\ count > 3
      /\ \A g \in Range(given) : ~(g.to = to /\ g.type = "ExtraFlips")
      /\ Give(from, to, "ExtraFlips", amount)
      /\ extraFlips' = IF rules = "upgrade11" THEN extraFlips ELSE extraFlips \o flips
      /\ basicFlips' = basicFlips
  BY DEF AddFlipsExtraReward, AddEpochReward, ListExtraFlips
<1>2. amount \in Nat \X Nat /\ count \in Nat /\ "ExtraFlips" \in AllTypes
  BY RewardsAssumption DEF AllTypes, RewardTypes, MergedTypes
<1>3. /\ rules' = rules /\ given' \in Seq(GivenReward) /\ Range(given) \subseteq Range(given')
      /\ \E g \in Range(given') : g.to = to /\ g.type = "ExtraFlips"
  BY <1>1, <1>2, GiveStep
<1>4. flips \in Seq(OwnFlip) /\ IsInjective(flips) /\ \A f \in Range(flips) : f[1] = to /\ f[2] \in 4 .. count
  <2>1. 4 <= count + 1 /\ 4 \in {1, 4} BY <1>1, <1>2
  <2>2. flips = FlipsOf(to, 4, count) BY DEF ExtraAnnounced
  <2> HIDE DEF flips
  <2> QED BY <1>2, <2>1, <2>2, NumberedFlips
<1> HIDE DEF flips
<1>5. CASE rules = "upgrade11"
  <2>1. extraFlips' = extraFlips BY <1>1, <1>5
  <2> QED BY <1>1, <1>3, <2>1, NoFlipsStep
<1>6. CASE rules # "upgrade11"
  <2>1. extraFlips' = extraFlips \o flips /\ rules = "upgrade10" BY <1>0, <1>1, <1>6
  <2>2. Range(extraFlips) \cap Range(flips) = {} BY <1>0, <1>1, <1>4, <2>1 DEF ExtraListed
  <2>3. /\ extraFlips' \in Seq(OwnFlip) /\ IsInjective(extraFlips')
        /\ Range(extraFlips') = Range(extraFlips) \cup Range(flips)
    <3> HIDE DEF OwnFlip
    <3> QED BY <1>0, <1>4, <2>1, <2>2, ConcatLists DEF FlipNumbers
  <2>4. \A f \in Range(flips) : f[2] >= 4 BY <1>2, <1>4
  <2>5. FlipNumbers' BY <1>0, <1>1, <1>3, <2>3, <2>4 DEF FlipNumbers
  <2>6. ExtraListed' BY <1>0, <1>3, <1>4, <2>1, <2>3 DEF ExtraListed
  <2> QED BY <1>3, <2>5, <2>6, FlipsStep
<1> QED BY <1>5, <1>6

\* The other rewards list no flips.
LEMMA OtherReward ==
    ASSUME FlipsInv, phase = "rewards", UNCHANGED resultVars, UNCHANGED <<basicFlips, extraFlips>>,
           NEW from \in Recipients, NEW to \in Recipients, NEW type \in AllTypes, NEW amount \in Nat \X Nat,
           Give(from, to, type, amount)
    PROVE  FlipsInv'
<1>1. rules' = rules /\ given' \in Seq(GivenReward) /\ Range(given) \subseteq Range(given') BY GiveStep
<1> QED BY <1>1, NoFlipsStep

\* Every reward keeps the invariant.
LEMMA RewardsFlipsInv ==
    ASSUME FlipsInv, phase = "rewards", RewardsNext, UNCHANGED resultVars PROVE FlipsInv'
<1>0. \A amount \in Amounts : amount \in Nat \X Nat /\ <<0, amount[2]>> \in Nat \X Nat /\ <<amount[1], 0>> \in Nat \X Nat
  BY RewardsAssumption
<1>1. Pools \subseteq Recipients /\ Ages \subseteq 0 .. 3 BY RewardsAssumption
<1>2. ASSUME NEW to \in Recipients, NEW amount \in Amounts, NEW from \in Pools \cup {to},
             \/ AddValidationReward(from, to, amount)
             \/ AddCandidateReward(from, to, amount)
             \/ AddStakingReward(from, to, amount)
             \/ \E count \in FlipCounts : AddFlipsBasicReward(from, to, amount, count)
             \/ \E count \in FlipCounts : AddFlipsExtraReward(from, to, amount, count)
             \/ \E idx \in ReportedIdxs : AddReportedFlipsReward(from, to, amount, idx)
             \/ \E age \in Ages, winner, hasTx \in BOOLEAN :
                  AddInvitationsReward(from, to, amount, age, winner, hasTx)
             \/ AddProposerReward(from, to, amount)
             \/ AddFinalCommitteeReward(from, to, amount)
      PROVE  FlipsInv'
  <2>1. from \in Recipients /\ amount \in Nat \X Nat BY <1>0, <1>1
  <2>2. CASE AddValidationReward(from, to, amount)
    <3>1. Give(from, to, "Validation", amount) /\ UNCHANGED <<basicFlips, extraFlips>>
      BY <2>2 DEF AddValidationReward, AddEpochReward, rewardedVars
    <3>2. "Validation" \in AllTypes BY DEF AllTypes, RewardTypes, MergedTypes
    <3> QED BY <2>1, <3>1, <3>2, OtherReward
  <2>3. CASE AddCandidateReward(from, to, amount)
    <3>1. Give(from, to, "Candidate", amount) /\ UNCHANGED <<basicFlips, extraFlips>>
      BY <2>3 DEF AddCandidateReward, AddEpochReward, rewardedVars
    <3>2. "Candidate" \in AllTypes BY DEF AllTypes, RewardTypes
    <3> QED BY <2>1, <3>1, <3>2, OtherReward
  <2>4. CASE AddStakingReward(from, to, amount)
    <3>1. Give(from, to, "Staking", amount) /\ UNCHANGED <<basicFlips, extraFlips>>
      BY <2>4 DEF AddStakingReward, AddEpochReward, rewardedVars
    <3>2. "Staking" \in AllTypes BY DEF AllTypes, RewardTypes
    <3> QED BY <2>1, <3>1, <3>2, OtherReward
  <2>5. ASSUME NEW count \in FlipCounts, AddFlipsBasicReward(from, to, amount, count) PROVE FlipsInv'
    BY <2>1, <2>5, BasicFlipsInv
  <2>6. ASSUME NEW count \in FlipCounts, AddFlipsExtraReward(from, to, amount, count) PROVE FlipsInv'
    BY <2>1, <2>6, ExtraFlipsInv
  <2>7. ASSUME NEW idx \in ReportedIdxs, AddReportedFlipsReward(from, to, amount, idx) PROVE FlipsInv'
    <3>1. Give(from, to, "ReportedFlips", amount) /\ UNCHANGED <<basicFlips, extraFlips>>
      BY <2>7 DEF AddReportedFlipsReward, AddEpochReward
    <3>2. "ReportedFlips" \in AllTypes BY DEF AllTypes, RewardTypes, MergedTypes
    <3> QED BY <2>1, <3>1, <3>2, OtherReward
  <2>8. ASSUME NEW age \in Ages, NEW winner \in BOOLEAN, NEW hasTx \in BOOLEAN,
               AddInvitationsReward(from, to, amount, age, winner, hasTx)
        PROVE  FlipsInv'
    <3> DEFINE type == determineInvitationsRewardType(age, winner)
    <3>1. Give(from, to, type, amount) /\ UNCHANGED <<basicFlips, extraFlips>>
      BY <2>8 DEF AddInvitationsReward, AddEpochReward
    <3>2. type \in AllTypes
      <4>1. age \in 0 .. 3 BY <1>1
      <4>2. DOMAIN InvitationTypes = 1 .. 3 BY DEF InvitationTypes
      <4>3. age > 0 => InvitationTypes[age] \in Range(InvitationTypes) BY <4>1, <4>2 DEF Range
      <4>4. Range(InvitationTypes) \cup {"SavedInvite", "SavedInviteWin"} \subseteq AllTypes
        BY DEF AllTypes, RewardTypes, MergedTypes
      <4> QED BY <4>3, <4>4 DEF determineInvitationsRewardType
    <3> HIDE DEF type
    <3> QED BY <2>1, <3>1, <3>2, OtherReward
  <2>9. CASE AddProposerReward(from, to, amount)
    <3>1. Give(from, to, "Proposer", amount) /\ UNCHANGED <<basicFlips, extraFlips>>
      BY <2>9 DEF AddProposerReward, epochVars, rewardedVars
    <3>2. "Proposer" \in AllTypes BY DEF AllTypes, MiningTypes
    <3> QED BY <2>1, <3>1, <3>2, OtherReward
  <2>10. CASE AddFinalCommitteeReward(from, to, amount)
    <3>1. Give(from, to, "Committee", amount) /\ UNCHANGED <<basicFlips, extraFlips>>
      BY <2>10 DEF AddFinalCommitteeReward, epochVars, rewardedVars
    <3>2. "Committee" \in AllTypes BY DEF AllTypes, MiningTypes
    <3> QED BY <2>1, <3>1, <3>2, OtherReward
  <2> QED BY <1>2, <2>2, <2>3, <2>4, <2>5, <2>6, <2>7, <2>8, <2>9, <2>10
<1>3. ASSUME NEW addr \in Recipients, NEW amount \in Amounts, NEW age \in Ages \ {0},
             AddInviteeReward(addr, amount[2], age)
      PROVE  FlipsInv'
  <2>1. Give(addr, addr, InviteeTypes[age], <<0, amount[2]>>) /\ UNCHANGED <<basicFlips, extraFlips>>
    BY <1>3 DEF AddInviteeReward, AddEpochReward
  <2>2. InviteeTypes[age] \in AllTypes
    <3>1. age \in 1 .. 3 BY <1>1
    <3>2. DOMAIN InviteeTypes = 1 .. 3 BY DEF InviteeTypes
    <3>3. InviteeTypes[age] \in Range(InviteeTypes) BY <3>1, <3>2 DEF Range
    <3> QED BY <3>3 DEF AllTypes, RewardTypes
  <2> QED BY <1>0, <2>1, <2>2, OtherReward
<1>4. ASSUME NEW addr \in Recipients, NEW amount \in Amounts, NEW type \in FundTypes,
             AddFundReward(addr, amount[1], type)
      PROVE  FlipsInv'
  <2>1. Give(addr, addr, type, <<amount[1], 0>>) /\ UNCHANGED <<basicFlips, extraFlips>>
    BY <1>4 DEF AddFundReward, rewardedVars
  <2>2. type \in AllTypes BY DEF AllTypes, RewardTypes
  <2> QED BY <1>0, <2>1, <2>2, OtherReward
<1> QED BY <1>2, <1>3, <1>4 DEF RewardsNext

\* The counts of an identity whose rewarded flips are among those it may have made.
LEMMA CountsOfIdentity ==
    ASSUME FlipsInv, NEW a, NEW id \in IdentityInputs, Consistent(a, id)
    PROVE  LET basic == RewardedCount(basicFlips, a)
               extra == RewardedCount(extraFlips, a)
           IN  /\ basic \in Nat /\ extra \in Nat /\ id.available \in 0 .. 255
               /\ basic + extra <= id.available
               /\ rules = "upgrade10" => basic <= 3
               /\ id.available > 3 => extra <= id.available - 3
<1> DEFINE B == {f \in Range(basicFlips) : f[1] = a}
           E == {f \in Range(extraFlips) : f[1] = a}
           n == id.available
<1>0. FlipNumbers /\ rules \in {"before10", "upgrade10", "upgrade11"} BY DEF FlipsInv
<1>1. n \in Nat /\ n <= 255 BY ResultAssumption
<1>2. B \in SUBSET OwnFlip /\ E \in SUBSET OwnFlip BY <1>0 DEF FlipNumbers, Range
<1>3. \A f \in B : f[1] = a /\ f[2] \in Nat /\ f[2] >= 1 /\ f[2] <= n /\ (rules # "before10" => f[2] <= 3)
  BY <1>0, <1>2 DEF FlipNumbers, Consistent, OwnFlip
<1>4. \A f \in E : f[1] = a /\ f[2] \in Nat /\ f[2] >= 4 /\ f[2] <= n /\ rules # "before10"
  BY <1>0, <1>2 DEF FlipNumbers, Consistent, OwnFlip
<1> HIDE DEF B, E, n
<1> DEFINE top == IF rules # "before10" /\ n > 3 THEN 3 ELSE n
<1>5. top \in Nat /\ top <= n /\ (rules # "before10" => top <= 3) /\ (rules # "before10" /\ n > 3 => top = 3)
  BY <1>1
<1>6. \A f \in B : f[1] = a /\ f[2] \in 1 .. top BY <1>1, <1>3
<1> HIDE DEF top
<1>7. Cardinality(B) \in Nat /\ Cardinality(B) <= top
  <2>1. ASSUME NEW one \in Nat, one = 1 PROVE Cardinality(B) \in Nat /\ Cardinality(B) <= IF one > top THEN 0 ELSE top - one + 1
    <3>1. \A f \in B : f[1] = a /\ f[2] \in one .. top BY <1>6, <2>1
    <3> QED BY <1>2, <1>5, <3>1, FlipsAreFew
  <2>2. Cardinality(B) \in Nat /\ Cardinality(B) <= IF 1 > top THEN 0 ELSE top - 1 + 1 BY <2>1
  <2> QED BY <1>5, <2>2
<1>8. Cardinality(E) \in Nat /\ Cardinality(E) <= (IF n > 3 THEN n - 3 ELSE 0)
  <2>1. ASSUME NEW four \in Nat, four = 4 PROVE Cardinality(E) \in Nat /\ Cardinality(E) <= IF four > n THEN 0 ELSE n - four + 1
    <3>1. \A f \in E : f[1] = a /\ f[2] \in four .. n BY <1>1, <1>4, <2>1
    <3> QED BY <1>1, <1>2, <3>1, FlipsAreFew
  <2>2. Cardinality(E) \in Nat /\ Cardinality(E) <= IF 4 > n THEN 0 ELSE n - 4 + 1 BY <2>1
  <2> QED BY <1>1, <2>2
<1>9. rules = "before10" => Cardinality(E) = 0
  <2>1. rules = "before10" => E = {} BY <1>4
  <2> QED BY <2>1, FS_EmptySet
<1>10. Cardinality(B) + Cardinality(E) <= n BY <1>1, <1>5, <1>7, <1>8, <1>9
<1>11. RewardedCount(basicFlips, a) = Cardinality(B) /\ RewardedCount(extraFlips, a) = Cardinality(E)
  BY DEF RewardedCount, B, E
<1> QED BY <1>1, <1>5, <1>7, <1>8, <1>10, <1>11 DEF n

\* Differences that stay above zero are bytes.
LEMMA NoWrap ==
    ASSUME NEW n \in 0 .. 255, NEW b \in Nat, NEW e \in Nat, b + e <= n
    PROVE  /\ b <= 3 => Byte(3 - b) = 3 - b
           /\ Byte(n - (b + e)) = n - b - e
           /\ n > 3 /\ e <= n - 3 => Byte(n - 3 - e) = n - 3 - e
<1>1. \A k \in 0 .. 255 : Byte(k) = k BY DEF Byte
<1>2. n - (b + e) \in 0 .. 255 /\ n - (b + e) = n - b - e OBVIOUS
<1>3. b <= 3 => 3 - b \in 0 .. 255 OBVIOUS
<1>4. n > 3 /\ e <= n - 3 => n - 3 - e \in 0 .. 255 OBVIOUS
<1> QED BY <1>1, <1>2, <1>3, <1>4

\* An identity is converted: its counts are those of the bytes.
LEMMA ConvertFlipsInv ==
    ASSUME FlipsInv, NEW addr \in Identities, NEW id \in IdentityInputs, ConvertIdentity(addr, id)
    PROVE  FlipsInv'
<1> DEFINE new == calculateValidationRewardSummaries(addr, id)
           basic(a) == RewardedCount(basicFlips, a)
           extra(a) == RewardedCount(extraFlips, a)
<1>1. /\ phase = "identities" /\ phase' = phase /\ Consistent(addr, id)
      /\ iterated' = Set(iterated, addr, id) /\ summaries' = Set(summaries, addr, new)
      /\ rules' = rules /\ given' = given /\ basicFlips' = basicFlips /\ extraFlips' = extraFlips
  BY DEF ConvertIdentity, rewardVars
<1>2. FlipNumbers' /\ ExtraListed' BY <1>1 DEF FlipsInv, FlipNumbers, ExtraListed
<1>3. \A a : RewardedCount(basicFlips, a)' = basic(a) /\ RewardedCount(extraFlips, a)' = extra(a)
  BY <1>1 DEF RewardedCount
<1>4. /\ basic(addr) \in Nat /\ extra(addr) \in Nat /\ id.available \in 0 .. 255
      /\ basic(addr) + extra(addr) <= id.available
      /\ rules = "upgrade10" => basic(addr) <= 3
      /\ id.available > 3 => extra(addr) <= id.available - 3
  BY <1>1, CountsOfIdentity
<1>5. /\ new.flips.missed = IF id.available = 0 THEN 0
                            ELSE IF rules = "upgrade10" THEN Byte(3 - basic(addr))
                            ELSE Byte(id.available - (basic(addr) + extra(addr)))
      /\ new.extraFlips.missed = IF id.staked /\ id.available > 3
                                 THEN Byte(id.available - 3 - extra(addr)) ELSE 0
  BY DEF calculateValidationRewardSummaries, calculateFlipsRewardSummary, calculateExtraFlipsRewardSummary, requiredFlips
<1> HIDE DEF new, basic, extra
<1>7. /\ id.available > 0 => new.flips.missed = IF rules = "upgrade10" THEN 3 - basic(addr)
                                                ELSE id.available - basic(addr) - extra(addr)
      /\ id.staked /\ id.available > 3 => new.extraFlips.missed = id.available - 3 - extra(addr)
  <2>1. /\ rules = "upgrade10" => Byte(3 - basic(addr)) = 3 - basic(addr)
        /\ Byte(id.available - (basic(addr) + extra(addr))) = id.available - basic(addr) - extra(addr)
        /\ id.available > 3 => Byte(id.available - 3 - extra(addr)) = id.available - 3 - extra(addr)
    BY <1>4, NoWrap
  <2>2. id.available > 0 => id.available # 0 BY <1>4
  <2> QED BY <1>5, <2>1, <2>2
<1>8. FlipCountsAddUp'
  <2> SUFFICES ASSUME NEW a \in DOMAIN summaries'
               PROVE  /\ iterated'[a].available > 0 =>
                           summaries'[a].flips.missed =
                             IF rules = "upgrade10" THEN 3 - basic(a) ELSE iterated'[a].available - basic(a) - extra(a)
                      /\ iterated'[a].staked /\ iterated'[a].available > 3 =>
                           summaries'[a].extraFlips.missed = iterated'[a].available - 3 - extra(a)
    BY <1>1, <1>3 DEF FlipCountsAddUp, requiredFlips
  <2>1. CASE a = addr
    <3>1. summaries'[a] = new /\ iterated'[a] = id BY <1>1, <2>1 DEF Set
    <3> QED BY <1>7, <2>1, <3>1
  <2>2. CASE a # addr
    <3>1. a \in DOMAIN summaries /\ summaries'[a] = summaries[a] BY <1>1, <2>2 DEF Set
    <3>2. a \in DOMAIN iterated BY <3>1 DEF FlipsInv
    <3>3. iterated'[a] = iterated[a] BY <1>1, <2>2, <3>2 DEF Set
    <3> QED BY <3>1, <3>3 DEF FlipsInv, FlipCountsAddUp, basic, extra, requiredFlips
  <2> QED BY <2>1, <2>2
<1>9. (phase = "rewards" => summaries = <<>>)' BY <1>1
<1>10. DOMAIN summaries' \subseteq DOMAIN iterated' BY <1>1 DEF FlipsInv, Set
<1> QED BY <1>1, <1>2, <1>8, <1>9, <1>10 DEF FlipsInv

\* Every step keeps the invariant.
LEMMA NextFlipsInv == FlipsInv /\ [ResultNext]_<<rewardVars, resultVars>> => FlipsInv'
<1> SUFFICES ASSUME FlipsInv, [ResultNext]_<<rewardVars, resultVars>> PROVE FlipsInv' OBVIOUS
<1>1. CASE phase = "rewards" /\ RewardsNext /\ UNCHANGED resultVars BY <1>1, RewardsFlipsInv
<1>2. ASSUME UNCHANGED <<rules, given, basicFlips, extraFlips, iterated, summaries>>, phase' = "rewards" => phase = "rewards"
      PROVE  FlipsInv'
  <2>1. FlipNumbers' /\ ExtraListed' BY <1>2 DEF FlipsInv, FlipNumbers, ExtraListed
  <2>2. FlipCountsAddUp' BY <1>2 DEF FlipsInv, FlipCountsAddUp, RewardedCount
  <2> QED BY <1>2, <2>1, <2>2 DEF FlipsInv
<1>3. CASE detectEpochRewards BY <1>2, <1>3 DEF detectEpochRewards, rewardVars
<1>4. ASSUME NEW addr \in Identities, NEW id \in IdentityInputs, ConvertIdentity(addr, id) PROVE FlipsInv'
  BY <1>4, ConvertFlipsInv
<1>5. CASE CompleteEpochResult BY <1>2, <1>5 DEF CompleteEpochResult, rewardVars
<1>6. CASE UNCHANGED <<rewardVars, resultVars>> BY <1>2, <1>6 DEF rewardVars, resultVars
<1> QED BY <1>1, <1>3, <1>4, <1>5, <1>6 DEF ResultNext

\* Under every rule a rewarded flip is listed once, and rewarded and missed flips
\* (calculateFlipsRewardSummary, calculateExtraFlipsRewardSummary) add up, however
\* the basic and the extra rewards of an author arrive.
THEOREM FlipRewardsAddUpAlways ==
    ResultInit /\ [][ResultNext]_<<rewardVars, resultVars>> => []FlipRewardsAddUp
<1>1. FlipsInv => FlipRewardsAddUp
  <2> SUFFICES ASSUME FlipsInv PROVE FlipsAreListedOnce /\ FlipCountsAddUp BY DEF FlipRewardsAddUp
  <2>0. FlipNumbers /\ FlipCountsAddUp BY DEF FlipsInv
  <2>1. Range(basicFlips) \cap Range(extraFlips) = {}
    <3> SUFFICES ASSUME NEW f \in Range(basicFlips), f \in Range(extraFlips) PROVE FALSE OBVIOUS
    <3>1. f[2] <= 3 /\ f[2] >= 4 BY <2>0 DEF FlipNumbers
    <3>2. f[2] \in Nat BY <2>0 DEF FlipNumbers, Range, OwnFlip
    <3> QED BY <3>1, <3>2
  <2>2. IsInjective(basicFlips \o extraFlips)
    <3> HIDE DEF OwnFlip
    <3> QED BY <2>0, <2>1, ConcatLists DEF FlipNumbers
  <2> QED BY <2>0, <2>2 DEF FlipsAreListedOnce, IsInjective
<1> QED BY <1>1, InitFlipsInv, NextFlipsInv, PTL
=============================================================================
