------------------------- MODULE BlockIndexingProofs -------------------------
(***************************************************************************)
(* Proofs about BlockIndexing, for every bound, every first genesis and    *)
(* every set of new genesis heights.                                       *)
(***************************************************************************)
EXTENDS BlockIndexing, TLAPS, WellFoundedInduction

USE DEF Heights, NoBlock, Partial

\* A non-empty set of natural numbers with an upper bound has a greatest
\* element: what makes max(height) of a non-empty table well defined.
LEMMA GreatestElement ==
    ASSUME NEW N \in Nat, NEW S, S \subseteq 1..N, S # {}
    PROVE  \E x \in S : \A y \in S : y <= x
<1> DEFINE T == {n \in Nat : \E x \in S : n = N - x}
<1>1. T \subseteq Nat /\ T # {}
  <2>1. PICK x \in S : TRUE OBVIOUS
  <2>2. x \in 1..N OBVIOUS
  <2>3. N - x \in T BY <2>1, <2>2
  <2> QED BY <2>3
<1>2. PICK n \in T : \A m \in T : ~(<<m, n>> \in OpToRel(<, Nat))
  BY <1>1, NatLessThanWellFounded, WFMin
<1>3. PICK x \in S : n = N - x OBVIOUS
<1>4. ASSUME NEW y \in S PROVE y <= x
  <2>1. x \in 1..N /\ y \in 1..N OBVIOUS
  <2>2. N - y \in T BY <2>1
  <2>3. ~(<<N - y, n>> \in OpToRel(<, Nat)) BY <2>2, <1>2
  <2>4. ~(N - y < n) BY <2>3, <2>2 DEF OpToRel
  <2> QED BY <2>4, <2>1, <1>3
<1> QED BY <1>4

\* What maxHeight.sql returns for any table of blocks.
LEMMA LastHeight ==
    ASSUME NEW b \in [Heights -> 0..MaxBlocks]
    PROVE  /\ GetLastHeight(b) \in 0..MaxHeight
           /\ GetLastHeight(b) = 0 <=> \A h \in Heights : b[h] = NoBlock
           /\ GetLastHeight(b) # 0 => /\ GetLastHeight(b) \in Heights
                                      /\ b[GetLastHeight(b)] # NoBlock
           /\ \A h \in Heights : b[h] # NoBlock => h <= GetLastHeight(b)
<1> USE BlockIndexingAssumption
<1>1. CASE \A h \in Heights : b[h] = NoBlock
  <2>1. GetLastHeight(b) = 0 BY <1>1, Zenon DEF GetLastHeight
  <2> QED BY <1>1, <2>1
<1>2. CASE ~\A h \in Heights : b[h] = NoBlock
  <2> DEFINE S == {h \in Heights : b[h] # NoBlock}
  <2>1. S \subseteq 1..MaxHeight /\ S # {} BY <1>2
  <2>2. PICK x \in S : \A y \in S : y <= x BY <2>1, GreatestElement
  <2>3. \E h \in Heights : b[h] # NoBlock /\ \A k \in Heights : b[k] # NoBlock => k <= h
    BY <2>2
  <2> DEFINE m == CHOOSE h \in Heights : b[h] # NoBlock /\ \A k \in Heights : b[k] # NoBlock => k <= h
  <2>4. m \in Heights /\ b[m] # NoBlock /\ \A k \in Heights : b[k] # NoBlock => k <= m BY <2>3
  <2>5. GetLastHeight(b) = m BY <1>2 DEF GetLastHeight
  <2> HIDE DEF m
  <2> QED BY <2>4, <2>5
<1> QED BY <1>1, <1>2

\* What a reset or a rollback leaves of a table of heights.
LEMMA CutToType ==
    ASSUME NEW f, f \in [Heights -> 0..MaxBlocks], NEW p, p \in Int
    PROVE  /\ CutTo(f, p) \in [Heights -> 0..MaxBlocks]
           /\ \A h \in Heights : CutTo(f, p)[h] = IF h > p THEN NoBlock ELSE f[h]
BY BlockIndexingAssumption DEF CutTo

-----------------------------------------------------------------------------
\* The node's chain has a block at every height from the genesis block to its
\* head and nowhere else, and the block being handled is above the genesis.
ChainShape ==
    /\ genesis <= head
    /\ \A h \in Heights : chain[h] # NoBlock <=> genesis <= h /\ h <= head
    /\ pc \in Handling => genesis < head

\* A row that disagrees with the node is one the process started with, or the
\* one that the block being handled is about to replace.
Agreement ==
    pc # "down" => \A h \in Heights :
        (blocks[h] # NoBlock /\ chain[h] # NoBlock /\ blocks[h] # chain[h])
        => \/ blocks[h] \in stale
           \/ h = head /\ pc \in {"check", "genesis", "restore", "save"}

IndInv == TypeOK /\ ChainShape /\ Agreement

USE DEF Blocks, Handling

RewardsTypeOK == rewards \subseteq Heights /\ grown \subseteq 0..MaxHeight

\* The kept changes and the grown rows stay within the heights of the table.
LEMMA RewardsType ==
    ASSUME RewardsTypeOK, NEW h \in Heights, NEW p \in 0..MaxHeight
    PROVE  /\ SaveRewards(h) => RewardsTypeOK'
           /\ ResetRewardsTo(p) => RewardsTypeOK'
           /\ rewards' = KeptRewards(rewards, h) /\ UNCHANGED grown => RewardsTypeOK'
<1> USE BlockIndexingAssumption DEF RewardsTypeOK
<1>1. ASSUME SaveRewards(h) PROVE RewardsTypeOK'
  <2>1. CASE rewards' = KeptRewards(rewards, h) /\ UNCHANGED grown BY <2>1 DEF KeptRewards
  <2>2. CASE \E since \in 1..h : /\ rewards' = KeptRewards(rewards \cup {h}, h)
                                 /\ grown' = grown \cup since..(h - 1)
    <3>1. PICK since \in 1..h : /\ rewards' = KeptRewards(rewards \cup {h}, h)
                                /\ grown' = grown \cup since..(h - 1)
      BY <2>2
    <3>2. since..(h - 1) \subseteq 0..MaxHeight OBVIOUS
    <3> QED BY <3>1, <3>2 DEF KeptRewards
  <2> QED BY <1>1, <2>1, <2>2 DEF SaveRewards
<1>2. ASSUME ResetRewardsTo(p) PROVE RewardsTypeOK' BY <1>2 DEF ResetRewardsTo
<1>3. ASSUME rewards' = KeptRewards(rewards, h), UNCHANGED grown PROVE RewardsTypeOK'
  BY <1>3 DEF KeptRewards
<1> QED BY <1>1, <1>2, <1>3

\* The first start satisfies the inductive invariant.
LEMMA InitIndInv == Init => IndInv
<1> SUFFICES ASSUME Init PROVE IndInv OBVIOUS
<1> USE BlockIndexingAssumption
<1>1. chain \in [Heights -> 0..MaxBlocks] /\ blocks \in [Heights -> 0..MaxBlocks] BY DEF Init
<1>2. head \in Heights /\ genesis \in Heights /\ fresh \in 1..(MaxBlocks + 1) /\ balances \in 0..MaxBlocks
  BY DEF Init
<1>3. stale \subseteq 1..MaxBlocks /\ genesisIds \subseteq 1..MaxBlocks BY DEF Init
<1>4. last \in 0..MaxHeight /\ first \in 0..MaxHeight BY DEF Init
<1>5. genesisBlock \in BOOLEAN /\ restore \in BOOLEAN /\ tainted \in BOOLEAN BY DEF Init
<1>6. pc \in Handling \cup {"idle", "down"} BY DEF Init
<1>a. rewards \subseteq Heights /\ grown \subseteq 0..MaxHeight BY DEF Init
<1>7. TypeOK BY <1>1, <1>2, <1>3, <1>4, <1>5, <1>6, <1>a DEF TypeOK
<1>8. ChainShape BY DEF Init, ChainShape
<1>9. Agreement BY DEF Init, Agreement
<1> QED BY <1>7, <1>8, <1>9 DEF IndInv

\* The node extends its chain: the new height has no row yet, or the handler
\* that now begins will drop it.
LEMMA NodeAddBlockIndInv == IndInv /\ NodeAddBlock => IndInv'
<1> SUFFICES ASSUME IndInv, NodeAddBlock PROVE IndInv' OBVIOUS
<1> USE BlockIndexingAssumption DEF IndInv
<1>1. TypeOK' BY DEF TypeOK, NodeAddBlock, InitFirstBlockHeight, dbVars, histVars
<1>2. ChainShape' BY DEF TypeOK, ChainShape, NodeAddBlock
<1>3. Agreement' BY DEF TypeOK, Agreement, NodeAddBlock, dbVars, histVars
<1> QED BY <1>1, <1>2, <1>3

\* The node drops the top of its chain: fewer heights can disagree.
LEMMA NodeRollbackIndInv == ASSUME NEW p \in Heights PROVE IndInv /\ NodeRollback(p) => IndInv'
<1> SUFFICES ASSUME IndInv, NodeRollback(p) PROVE IndInv' OBVIOUS
<1> USE BlockIndexingAssumption DEF IndInv
<1>1. p \in Int /\ genesis <= p /\ p < head /\ head' = p /\ pc' = pc
  BY DEF NodeRollback, TypeOK, memVars
<1>2. chain \in [Heights -> 0..MaxBlocks] BY DEF TypeOK
<1>3. chain' = CutTo(chain, p) BY DEF NodeRollback
<1>4. /\ chain' \in [Heights -> 0..MaxBlocks]
      /\ \A h \in Heights : chain'[h] = IF h > p THEN NoBlock ELSE chain[h]
  BY <1>1, <1>2, <1>3, CutToType
<1>5. TypeOK' BY <1>1, <1>4 DEF TypeOK, NodeRollback, dbVars, memVars, histVars
<1>6. ChainShape' BY <1>1, <1>4 DEF TypeOK, ChainShape, NodeRollback
<1>7. Agreement' BY <1>1, <1>4 DEF TypeOK, Agreement, NodeRollback, dbVars, histVars
<1> QED BY <1>5, <1>6, <1>7

\* reset_to only drops rows.
LEMMA ResetToIndInv == IndInv /\ ResetTo => IndInv'
<1> SUFFICES ASSUME IndInv, ResetTo PROVE IndInv' OBVIOUS
<1> USE BlockIndexingAssumption DEF IndInv
<1> DEFINE p == HeightToReset
<1>1. p \in Int BY DEF HeightToReset, TypeOK
<1>2. blocks \in [Heights -> 0..MaxBlocks] BY DEF TypeOK
<1>3. blocks' = CutTo(blocks, p) BY DEF ResetTo
<1> HIDE DEF p
<1>4. /\ blocks' \in [Heights -> 0..MaxBlocks]
      /\ \A h \in Heights : blocks'[h] = IF h > p THEN NoBlock ELSE blocks[h]
  BY <1>1, <1>2, <1>3, CutToType
<1>5. last' \in 0..MaxHeight BY <1>4, LastHeight DEF ResetTo
<1>6. first' \in 0..MaxHeight BY DEF ResetTo, InitFirstBlockHeight, TypeOK
<1>7. genesisBlock' \in BOOLEAN /\ restore' \in BOOLEAN BY DEF ResetTo
<1>8. UNCHANGED <<chain, head, genesis, fresh, pc, stale, tainted, genesisIds>> /\ balances' = Partial
  BY DEF ResetTo, nodeVars, histVars
<1>a. HeightToReset \in 0..MaxHeight
  BY DEF ResetTo, HeightToReset, FirstAfterNewGenesis, TypeOK, ChainShape
<1>b. head \in Heights /\ RewardsTypeOK BY DEF TypeOK, RewardsTypeOK
<1>c. ResetRewardsTo(HeightToReset) BY DEF ResetTo
<1>d. RewardsTypeOK' BY <1>a, <1>b, <1>c, RewardsType
<1>9. TypeOK' BY <1>4, <1>5, <1>6, <1>7, <1>8, <1>d DEF TypeOK, RewardsTypeOK
<1>10. ChainShape' BY <1>8 DEF ChainShape
<1>11. Agreement' BY <1>4, <1>8 DEF Agreement
<1> QED BY <1>9, <1>10, <1>11

\* Choosing the branch of the loop touches neither the node nor the rows.
LEMMA MatchedIndInv == IndInv /\ Matched => IndInv'
<1> SUFFICES ASSUME IndInv, Matched PROVE IndInv' OBVIOUS
<1> USE BlockIndexingAssumption DEF IndInv
<1>1. genesisBlock' \in BOOLEAN BY DEF Matched
<1>2. pc = "check" /\ pc' \in {"genesis", "restore"} BY DEF Matched
<1>3. UNCHANGED <<chain, head, genesis, fresh, blocks, balances, rewards, grown, last, first, restore,
                  stale, tainted, genesisIds>>
  BY DEF Matched, nodeVars, dbVars, histVars
<1>4. TypeOK' BY <1>1, <1>2, <1>3 DEF TypeOK
<1>5. ChainShape' /\ Agreement' BY <1>2, <1>3 DEF ChainShape, Agreement
<1> QED BY <1>4, <1>5

\* The row of the genesis block is the node's genesis block.
LEMMA CommitGenesisIndInv == IndInv /\ (SaveGenesis \/ SaveGenesisUnacked) => IndInv'
<1> SUFFICES ASSUME IndInv, SaveGenesis \/ SaveGenesisUnacked PROVE IndInv' OBVIOUS
<1> USE BlockIndexingAssumption DEF IndInv, SaveGenesis, SaveGenesisUnacked, CommitGenesis
<1>1. tainted' \in BOOLEAN OBVIOUS
<1>2. genesisBlock' \in BOOLEAN BY DEF TypeOK
<1>3. pc = "genesis" /\ pc' \in {"genesis", "restore"} OBVIOUS
<1> HIDE DEF SaveGenesis, SaveGenesisUnacked
<1>a. CommitGenesis BY DEF SaveGenesis, SaveGenesisUnacked
<1>b. balances' \in 0..MaxBlocks BY <1>a DEF TypeOK
<1>4. /\ blocks' \in [Heights -> 0..MaxBlocks]
      /\ \A h \in Heights : blocks'[h] = IF h = genesis THEN chain[genesis] ELSE blocks[h]
      /\ balances' \in 0..MaxBlocks
  BY <1>a, <1>b DEF TypeOK
<1>5. UNCHANGED <<chain, head, genesis, fresh, last, first, restore, stale, genesisIds>> BY <1>a DEF nodeVars
<1>c. rewards' = KeptRewards(rewards, genesis) /\ UNCHANGED grown BY <1>a DEF CommitGenesis
<1>d. RewardsTypeOK /\ genesis \in Heights /\ MaxHeight \in 0..MaxHeight BY DEF TypeOK, RewardsTypeOK
<1>e. RewardsTypeOK' BY <1>c, <1>d, RewardsType
<1>6. TypeOK' BY <1>1, <1>2, <1>3, <1>4, <1>5, <1>e DEF TypeOK, RewardsTypeOK
<1>7. ChainShape' /\ Agreement' BY <1>3, <1>4, <1>5 DEF ChainShape, Agreement, TypeOK
<1> QED BY <1>6, <1>7

\* Restore writes no row of "blocks".
LEMMA RestoreIndInv == IndInv /\ Restore => IndInv'
<1> SUFFICES ASSUME IndInv, Restore PROVE IndInv' OBVIOUS
<1> USE BlockIndexingAssumption DEF IndInv, Restore
<1>1. tainted' \in BOOLEAN /\ restore' \in BOOLEAN OBVIOUS
<1>2. pc = "restore" /\ pc' = "save" OBVIOUS
<1>3. head - 1 \in Heights BY <1>2 DEF ChainShape, TypeOK
<1>4. balances' \in 0..MaxBlocks BY <1>3 DEF TypeOK
<1>5. UNCHANGED <<chain, head, genesis, fresh, blocks, rewards, grown, last, first, genesisBlock, stale, genesisIds>>
  BY DEF nodeVars
<1>6. TypeOK' BY <1>1, <1>2, <1>4, <1>5 DEF TypeOK
<1>7. ChainShape' /\ Agreement' BY <1>2, <1>5 DEF ChainShape, Agreement
<1> QED BY <1>6, <1>7

\* The row that saveData adds is the head of the node's chain.
LEMMA CommitBlockIndInv == IndInv /\ (SaveBlock \/ SaveBlockUnacked) => IndInv'
<1> SUFFICES ASSUME IndInv, SaveBlock \/ SaveBlockUnacked PROVE IndInv' OBVIOUS
<1> USE BlockIndexingAssumption DEF IndInv, SaveBlock, SaveBlockUnacked, CommitBlock
<1>a. CommitBlock OBVIOUS
<1>b. balances' \in 0..MaxBlocks BY <1>a DEF TypeOK
<1> HIDE DEF SaveBlock, SaveBlockUnacked
<1>1. /\ blocks' \in [Heights -> 0..MaxBlocks]
      /\ \A h \in Heights : blocks'[h] = IF h = head THEN chain[head] ELSE blocks[h]
      /\ balances' \in 0..MaxBlocks
  BY <1>a, <1>b DEF TypeOK
<1>2. pc = "save" /\ pc' \in {"save", "apply"} BY DEF SaveBlock, SaveBlockUnacked
<1>3. UNCHANGED <<nodeVars, memVars, histVars>> BY <1>a
<1>c. RewardsTypeOK /\ head \in Heights /\ MaxHeight \in 0..MaxHeight BY DEF TypeOK, RewardsTypeOK
<1>d. RewardsTypeOK' BY <1>a, <1>c, RewardsType
<1>4. TypeOK' BY <1>1, <1>2, <1>3, <1>d DEF TypeOK, nodeVars, memVars, histVars, RewardsTypeOK
<1>5. ChainShape' /\ Agreement' BY <1>1, <1>2, <1>3 DEF ChainShape, Agreement, TypeOK, nodeVars, histVars
<1> QED BY <1>4, <1>5

\* applyOnState only moves the height in memory.
LEMMA ApplyOnStateIndInv == IndInv /\ ApplyOnState => IndInv'
<1> USE BlockIndexingAssumption
<1>1. TypeOK /\ ApplyOnState => TypeOK' BY DEF TypeOK, ApplyOnState, nodeVars, dbVars, histVars
<1>2. ChainShape /\ ApplyOnState => ChainShape' BY DEF ChainShape, ApplyOnState, nodeVars
<1>3. Agreement /\ ApplyOnState => Agreement' BY DEF Agreement, ApplyOnState, nodeVars, dbVars, histVars
<1> QED BY <1>1, <1>2, <1>3 DEF IndInv

\* A crash loses memory and nothing else.
LEMMA CrashIndInv == IndInv /\ Crash => IndInv'
<1> SUFFICES ASSUME IndInv, Crash PROVE IndInv' OBVIOUS
<1> USE BlockIndexingAssumption DEF IndInv, Crash
<1>1. tainted' \in BOOLEAN /\ genesisBlock' \in BOOLEAN /\ restore' \in BOOLEAN OBVIOUS
<1>2. pc' = "down" /\ last' \in 0..MaxHeight /\ first' \in 0..MaxHeight OBVIOUS
<1>3. UNCHANGED <<nodeVars, dbVars, stale, genesisIds>> OBVIOUS
<1>4. TypeOK' BY <1>1, <1>2, <1>3 DEF TypeOK, nodeVars, dbVars
<1>5. ChainShape' /\ Agreement' BY <1>2, <1>3 DEF ChainShape, Agreement, nodeVars
<1> QED BY <1>4, <1>5

\* At a start every disagreement that is there is recorded.
LEMMA StartIndInv == IndInv /\ Start => IndInv'
<1> SUFFICES ASSUME IndInv, Start PROVE IndInv' OBVIOUS
<1> USE BlockIndexingAssumption DEF IndInv
<1>1. last' \in 0..MaxHeight BY LastHeight DEF Start, TypeOK
<1>2. head' \in Heights /\ genesis <= head' /\ head' <= head
  BY <1>1 DEF Start, StartHeight, TypeOK, ChainShape
<1>3. chain \in [Heights -> 0..MaxBlocks] /\ head' \in Int BY <1>2 DEF TypeOK
<1>4. chain' = CutTo(chain, head') BY DEF Start
<1>5. /\ chain' \in [Heights -> 0..MaxBlocks]
      /\ \A h \in Heights : chain'[h] = IF h > head' THEN NoBlock ELSE chain[h]
  BY <1>3, <1>4, CutToType
<1>6. stale' = {blocks[h] : h \in {k \in Heights :
                    chain'[k] # NoBlock /\ blocks[k] # NoBlock /\ blocks[k] # chain'[k]}}
  BY DEF Start
<1>7. stale' \subseteq 1..MaxBlocks BY <1>6 DEF TypeOK
<1>8. tainted' \in BOOLEAN /\ restore' \in BOOLEAN BY DEF Start
<1>9. pc' = "idle" /\ UNCHANGED <<genesis, fresh, blocks, balances, rewards, grown, first, genesisBlock, genesisIds>>
  BY DEF Start, dbVars
<1>10. TypeOK' BY <1>1, <1>2, <1>5, <1>7, <1>8, <1>9 DEF TypeOK
<1>11. ChainShape' BY <1>2, <1>5, <1>9 DEF ChainShape, TypeOK
<1>12. Agreement' BY <1>6, <1>9 DEF Agreement
<1> QED BY <1>10, <1>11, <1>12

\* A new genesis replaces the chain while the process is down.
LEMMA NewGenesisIndInv == ASSUME NEW g \in NewGenesisHeights PROVE IndInv /\ NewGenesis(g) => IndInv'
<1> SUFFICES ASSUME IndInv, NewGenesis(g) PROVE IndInv' OBVIOUS
<1> USE BlockIndexingAssumption DEF IndInv
<1>1. TypeOK' BY DEF TypeOK, NewGenesis, dbVars, memVars
<1>2. ChainShape' BY DEF ChainShape, NewGenesis, TypeOK
<1>3. Agreement' BY DEF Agreement, NewGenesis
<1> QED BY <1>1, <1>2, <1>3

\* Every step of the system preserves the inductive invariant.
LEMMA NextIndInv == IndInv /\ [Next]_vars => IndInv'
<1> SUFFICES ASSUME IndInv, [Next]_vars PROVE IndInv' OBVIOUS
<1>1. CASE Node BY <1>1, NodeAddBlockIndInv, NodeRollbackIndInv DEF Node
<1>2. CASE Handler
  BY <1>2, ResetToIndInv, MatchedIndInv, CommitGenesisIndInv, RestoreIndInv, CommitBlockIndInv,
     ApplyOnStateIndInv DEF Handler
<1>3. CASE Lost BY <1>3, CommitGenesisIndInv, CommitBlockIndInv DEF Lost
<1>4. CASE Process BY <1>4, CrashIndInv, StartIndInv, NewGenesisIndInv DEF Process
<1>5. CASE UNCHANGED vars
  BY <1>5 DEF vars, nodeVars, dbVars, memVars, histVars, IndInv, TypeOK, ChainShape, Agreement
<1> QED BY <1>1, <1>2, <1>3, <1>4, <1>5 DEF Next

\* Every variable of the indexing loop keeps its type: the heights stay within
\* the bounds although reset, genesis and restart all compute new ones, and
\* the state below the node's head, which Restore reads, always exists.
THEOREM TypeCorrect == Spec => []TypeOK
<1>1. IndInv => TypeOK BY DEF IndInv
<1> QED BY <1>1, InitIndInv, NextIndInv, PTL DEF Spec

\* indexBlock never introduces a divergence from the node: between two blocks
\* a row that is not the node's block was already there, and already not the
\* node's block, when the process started.
THEOREM MirrorsNodeAlways == Spec => []MirrorsNode
<1>1. IndInv => MirrorsNode BY DEF IndInv, Agreement, MirrorsNode
<1> QED BY <1>1, InitIndInv, NextIndInv, PTL DEF Spec

-----------------------------------------------------------------------------
(* The table: which rows can be there at each point of the handler. *)

\* There is no row above height n.
EmptyAbove(n) == \A h \in Heights : h > n => blocks[h] = NoBlock

\* Block numbers are handed out in order, and above the height of the genesis
\* block of the node the table has no hole.
RowsShape ==
    /\ chain[genesis] \in genesisIds
    /\ \A h \in Heights : blocks[h] < fresh /\ chain[h] < fresh
    /\ \A h, k \in Heights : genesis <= k /\ k <= h /\ blocks[h] # NoBlock => blocks[k] # NoBlock

\* lastIndexedHeight is the top of the table wherever indexBlock decides by it.
LastIsTop ==
    pc \in {"idle", "check"} => EmptyAbove(last) /\ (last # 0 => blocks[last] # NoBlock)

\* Where the node's head is relative to the top of the table.
Position ==
    /\ pc = "down" => first = 0 /\ ~restore
    /\ pc = "idle" => /\ head <= last \/ (head = genesis /\ first = 0)
                      /\ first # 0 => last # 0
    /\ pc = "check" => (last = 0 => first = genesis) /\ (genesisBlock => restore)
    /\ pc = "genesis" => EmptyAbove(genesis) /\ genesisBlock
    /\ pc = "restore" => EmptyAbove(head - 1) /\ blocks[head - 1] # NoBlock
    /\ pc = "save" => EmptyAbove(head) /\ blocks[head - 1] # NoBlock /\ ~restore
    /\ pc = "apply" => EmptyAbove(head) /\ blocks[head] = chain[head] /\ ~restore
    /\ genesisBlock => pc \in {"check", "genesis"} /\ head = genesis + 1

TableInv == RowsShape /\ LastIsTop /\ Position /\ HeightsFit

USE DEF EmptyAbove

\* The table is empty at the first start.
LEMMA InitTableInv == Init => TableInv
<1> SUFFICES ASSUME Init PROVE TableInv OBVIOUS
<1> USE BlockIndexingAssumption
<1>1. RowsShape BY DEF Init, RowsShape
<1>2. LastIsTop /\ Position BY DEF Init, LastIsTop, Position
<1>3. HeightsFit BY DEF Init, HeightsFit, NoHoles, NeverAheadOfExpected
<1> QED BY <1>1, <1>2, <1>3 DEF TableInv

\* The block that arrives is at most one above the top of the table, or it is
\* the first one after the genesis block.
LEMMA NodeAddBlockTableInv == IndInv /\ TableInv /\ NodeAddBlock => TableInv'
<1> SUFFICES ASSUME IndInv, TableInv, NodeAddBlock PROVE TableInv' OBVIOUS
<1> USE BlockIndexingAssumption DEF IndInv, TableInv
<1>1. /\ pc = "idle" /\ pc' = "check" /\ head' = head + 1 /\ head + 1 \in Heights /\ fresh' = fresh + 1
      /\ chain' = [chain EXCEPT ![head + 1] = fresh]
      /\ UNCHANGED <<genesis, blocks, balances, last, genesisBlock, restore, stale, tainted, genesisIds>>
  BY DEF NodeAddBlock, TypeOK, dbVars, histVars
<1>2. RowsShape' BY <1>1 DEF RowsShape, TypeOK, ChainShape
<1>3. LastIsTop' BY <1>1 DEF LastIsTop
<1>4. Position'
  <2>1. last = 0 => first' = genesis BY <1>1 DEF NodeAddBlock, InitFirstBlockHeight, Position
  <2> QED BY <1>1, <2>1 DEF Position
<1>5. HeightsFit' BY <1>1 DEF HeightsFit, NoHoles, NeverAheadOfExpected, HeightToIndex, Position, TypeOK
<1> QED BY <1>2, <1>3, <1>4, <1>5

\* A rollback of the node leaves the table alone.
LEMMA NodeRollbackTableInv ==
    ASSUME NEW p \in Heights PROVE IndInv /\ TableInv /\ NodeRollback(p) => TableInv'
<1> SUFFICES ASSUME IndInv, TableInv, NodeRollback(p) PROVE TableInv' OBVIOUS
<1> USE BlockIndexingAssumption DEF IndInv, TableInv
<1>1. /\ p \in Int /\ genesis <= p /\ p < head /\ head' = p /\ pc = "idle" /\ pc' = pc
      /\ UNCHANGED <<genesis, fresh, blocks, balances, last, first, genesisBlock, restore, stale, tainted, genesisIds>>
  BY DEF NodeRollback, TypeOK, memVars, dbVars, histVars
<1>2. \A h \in Heights : chain'[h] = IF h > p THEN NoBlock ELSE chain[h]
  BY <1>1, CutToType DEF NodeRollback, TypeOK
<1>3. RowsShape' BY <1>1, <1>2 DEF RowsShape, TypeOK
<1>4. LastIsTop' BY <1>1 DEF LastIsTop
<1>5. Position' BY <1>1 DEF Position, TypeOK
<1>6. HeightsFit' BY <1>1 DEF HeightsFit, NoHoles, NeverAheadOfExpected
<1> QED BY <1>3, <1>4, <1>5, <1>6

\* What reset_to leaves, and that it always asks for a restore.
LEMMA ResetToEffect ==
    ASSUME IndInv, ResetTo
    PROVE  /\ HeightToReset \in Heights \cup {0} /\ HeightToReset <= head - 1
           /\ blocks' = CutTo(blocks, HeightToReset)
           /\ blocks' \in [Heights -> 0..MaxBlocks]
           /\ \A h \in Heights : blocks'[h] = IF h > HeightToReset THEN NoBlock ELSE blocks[h]
           /\ restore' = TRUE
<1> USE BlockIndexingAssumption DEF IndInv
<1>1. head \in Heights /\ genesis \in Heights /\ genesis < head BY DEF ResetTo, TypeOK, ChainShape
<1>2. HeightToReset \in Heights \cup {0} /\ HeightToReset <= head - 1
  BY <1>1 DEF HeightToReset, FirstAfterNewGenesis
<1>3. blocks' = CutTo(blocks, HeightToReset) BY DEF ResetTo
<1>4. HeightToReset \in Int /\ blocks \in [Heights -> 0..MaxBlocks] BY <1>2 DEF TypeOK
<1>5. /\ CutTo(blocks, HeightToReset) \in [Heights -> 0..MaxBlocks]
      /\ \A h \in Heights : CutTo(blocks, HeightToReset)[h] = IF h > HeightToReset THEN NoBlock ELSE blocks[h]
  BY <1>4, CutToType
<1>6. first' \in {1, genesis} BY DEF ResetTo, InitFirstBlockHeight, nodeVars
<1>7. head # first' BY <1>1, <1>6
<1>8. restore' = TRUE BY <1>7 DEF ResetTo
<1> QED BY <1>2, <1>3, <1>5, <1>8

\* After a reset the block is the expected one, or the first after the genesis.
LEMMA ResetToTableInv == IndInv /\ TableInv /\ ResetTo => TableInv'
<1> SUFFICES ASSUME IndInv, TableInv, ResetTo PROVE TableInv' OBVIOUS
<1> USE BlockIndexingAssumption DEF IndInv, TableInv
<1> DEFINE p == HeightToReset
<1>1. /\ p \in Heights \cup {0} /\ p <= head - 1
      /\ blocks' \in [Heights -> 0..MaxBlocks]
      /\ \A h \in Heights : blocks'[h] = IF h > p THEN NoBlock ELSE blocks[h]
      /\ restore' = TRUE
  BY ResetToEffect
<1>2. /\ pc = "check" /\ pc' = "check" /\ last' = GetLastHeight(blocks') /\ head < HeightToIndex
      /\ UNCHANGED <<chain, head, genesis, fresh, stale, tainted, genesisIds>>
  BY DEF ResetTo, nodeVars, histVars
<1>3. genesisBlock' => head = genesis + 1 BY <1>2 DEF ResetTo, FirstAfterNewGenesis, Position
<1>4. head # genesis + 1 => p = head - 1 /\ ~genesisBlock'
  BY <1>2, <1>3 DEF HeightToReset, FirstAfterNewGenesis
<1> HIDE DEF p
<1>5. /\ last' \in 0..MaxHeight
      /\ last' # 0 => blocks'[last'] # NoBlock
      /\ \A h \in Heights : blocks'[h] # NoBlock => h <= last'
  BY <1>1, <1>2, LastHeight
<1>6. RowsShape'
  <2>1. \A h, k \in Heights : genesis <= k /\ k <= h /\ blocks'[h] # NoBlock => blocks'[k] # NoBlock
    BY <1>1 DEF RowsShape, TypeOK
  <2>2. \A h \in Heights : blocks'[h] < fresh BY <1>1 DEF RowsShape, TypeOK
  <2> QED BY <1>2, <2>1, <2>2 DEF RowsShape
<1>7. LastIsTop' BY <1>5 DEF LastIsTop
<1>8. Position'
  <2>1. last' = 0 => first' = genesis BY DEF ResetTo, InitFirstBlockHeight
  <2> QED BY <1>1, <1>2, <1>3, <2>1 DEF Position
<1>9. head # genesis + 1 => last' >= head - 1
  <2> SUFFICES ASSUME head # genesis + 1 PROVE last' >= head - 1 OBVIOUS
  <2>1. ~genesisBlock /\ head <= last
    BY <1>2 DEF Position, HeightToIndex, TypeOK
  <2>2. last \in Heights /\ head - 1 \in Heights /\ genesis <= head - 1 /\ blocks[last] # NoBlock
    BY <1>2, <2>1 DEF TypeOK, ChainShape, LastIsTop
  <2>3. blocks[head - 1] # NoBlock BY <2>1, <2>2 DEF RowsShape, TypeOK
  <2>4. blocks'[head - 1] # NoBlock BY <1>1, <1>4, <2>2, <2>3
  <2> QED BY <2>4, <2>2, <1>5
<1>10. HeightsFit'
  <2>1. NoHoles' BY <1>1, <1>2 DEF HeightsFit, NoHoles, TypeOK
  <2>2. NeverAheadOfExpected' BY <1>2, <1>5, <1>9 DEF NeverAheadOfExpected, HeightToIndex, TypeOK
  <2> QED BY <2>1, <2>2 DEF HeightsFit
<1> QED BY <1>6, <1>7, <1>8, <1>10

\* The block to index is just above the top of the table, or the table ends
\* below the genesis block, which is then indexed first.
LEMMA MatchedTableInv == IndInv /\ TableInv /\ Matched => TableInv'
<1> SUFFICES ASSUME IndInv, TableInv, Matched PROVE TableInv' OBVIOUS
<1> USE BlockIndexingAssumption DEF IndInv, TableInv
<1>1. /\ pc = "check" /\ pc' = (IF genesisBlock' THEN "genesis" ELSE "restore")
      /\ genesisBlock' = (genesisBlock \/ head > HeightToIndex)
      /\ head >= HeightToIndex /\ (head > HeightToIndex => head = genesis + 1)
      /\ UNCHANGED <<chain, head, genesis, fresh, blocks, balances, last, first, restore, stale, tainted, genesisIds>>
  BY DEF Matched, nodeVars, dbVars, histVars
<1>2. head \in Heights /\ genesis \in Heights /\ last \in 0..MaxHeight /\ genesis < head
  BY <1>1 DEF TypeOK, ChainShape
<1>3. EmptyAbove(last) /\ (last # 0 => blocks[last] # NoBlock) BY <1>1 DEF LastIsTop
<1>a. genesisBlock => HeightToIndex = last + 2 /\ head = genesis + 1 BY <1>2 DEF HeightToIndex, Position
<1>b. ~genesisBlock => HeightToIndex = last + 1 BY <1>2 DEF HeightToIndex
<1>c. HeightToIndex \in Int BY <1>2 DEF HeightToIndex
<1>4. genesisBlock' => head = genesis + 1 /\ last < genesis
  <2>1. CASE genesisBlock BY <2>1, <1>1, <1>2, <1>a
  <2>2. CASE ~genesisBlock /\ head > HeightToIndex BY <2>2, <1>1, <1>2, <1>b
  <2> QED BY <2>1, <2>2, <1>1
<1>5. ~genesisBlock' => head = last + 1
  <2>1. ~genesisBlock' => ~genesisBlock /\ ~(head > HeightToIndex) BY <1>1
  <2> QED BY <2>1, <1>1, <1>2, <1>b, <1>c
<1>6. RowsShape' BY <1>1 DEF RowsShape
<1>7. LastIsTop' BY <1>1 DEF LastIsTop
<1>8. Position'
  <2>1. CASE genesisBlock' BY <2>1, <1>1, <1>2, <1>3, <1>4 DEF Position
  <2>2. CASE ~genesisBlock' BY <2>2, <1>1, <1>2, <1>3, <1>5 DEF Position
  <2> QED BY <2>1, <2>2
<1>9. HeightsFit' BY <1>1 DEF HeightsFit, NoHoles, NeverAheadOfExpected
<1> QED BY <1>6, <1>7, <1>8, <1>9

\* The row of the genesis block becomes the top of the table.
LEMMA CommitGenesisTableInv == IndInv /\ TableInv /\ (SaveGenesis \/ SaveGenesisUnacked) => TableInv'
<1> SUFFICES ASSUME IndInv, TableInv, SaveGenesis \/ SaveGenesisUnacked PROVE TableInv' OBVIOUS
<1> USE BlockIndexingAssumption DEF IndInv, TableInv
<1>1. CommitGenesis BY DEF SaveGenesis, SaveGenesisUnacked
<1>2. /\ pc = "genesis" /\ blocks[genesis] = NoBlock
      /\ \A h \in Heights : blocks'[h] = IF h = genesis THEN chain[genesis] ELSE blocks[h]
      /\ UNCHANGED <<chain, head, genesis, fresh, last, first, restore, stale, genesisIds>>
  BY <1>1 DEF CommitGenesis, TypeOK, nodeVars
<1>3. \/ pc' = "genesis" /\ genesisBlock' = genesisBlock
      \/ pc' = "restore" /\ genesisBlock' = FALSE
  BY <1>2 DEF SaveGenesis, SaveGenesisUnacked
<1>4. /\ genesis \in Heights /\ head = genesis + 1 /\ EmptyAbove(genesis) /\ genesisBlock
      /\ chain[genesis] # NoBlock /\ chain[genesis] \in genesisIds
  BY <1>2 DEF Position, TypeOK, ChainShape, RowsShape
<1>5. \A h \in Heights : h > genesis => blocks'[h] = NoBlock BY <1>2, <1>4
<1>6. RowsShape'
  <2>1. \A h \in Heights : blocks'[h] < fresh BY <1>2, <1>4 DEF RowsShape, TypeOK
  <2>2. \A h, k \in Heights : genesis <= k /\ k <= h /\ blocks'[h] # NoBlock => blocks'[k] # NoBlock
    BY <1>2, <1>4, <1>5
  <2> QED BY <2>1, <2>2, <1>2 DEF RowsShape
<1>7. LastIsTop' BY <1>3 DEF LastIsTop
<1>8. Position'
  <2>1. blocks'[genesis] # NoBlock /\ head - 1 = genesis /\ head' - 1 = genesis BY <1>2, <1>4
  <2> QED BY <1>2, <1>3, <1>4, <1>5, <2>1 DEF Position
<1>9. HeightsFit'
  <2>1. NoHoles' BY <1>2, <1>4, <1>5 DEF HeightsFit, NoHoles, TypeOK
  <2>2. NeverAheadOfExpected' BY <1>3 DEF NeverAheadOfExpected
  <2> QED BY <2>1, <2>2 DEF HeightsFit
<1> QED BY <1>6, <1>7, <1>8, <1>9

\* Restore writes no row.
LEMMA RestoreTableInv == IndInv /\ TableInv /\ Restore => TableInv'
<1> SUFFICES ASSUME IndInv, TableInv, Restore PROVE TableInv' OBVIOUS
<1> USE BlockIndexingAssumption DEF IndInv, TableInv
<1>1. /\ pc = "restore" /\ pc' = "save" /\ restore' = FALSE
      /\ UNCHANGED <<chain, head, genesis, fresh, blocks, last, first, genesisBlock, stale, genesisIds>>
  BY DEF Restore, nodeVars
<1>2. RowsShape' BY <1>1 DEF RowsShape
<1>3. LastIsTop' BY <1>1 DEF LastIsTop
<1>4. Position' BY <1>1 DEF Position, TypeOK
<1>5. HeightsFit' BY <1>1 DEF HeightsFit, NoHoles, NeverAheadOfExpected
<1> QED BY <1>2, <1>3, <1>4, <1>5

\* The row of the block goes just above the top of the table.
LEMMA CommitBlockTableInv == IndInv /\ TableInv /\ (SaveBlock \/ SaveBlockUnacked) => TableInv'
<1> SUFFICES ASSUME IndInv, TableInv, SaveBlock \/ SaveBlockUnacked PROVE TableInv' OBVIOUS
<1> USE BlockIndexingAssumption DEF IndInv, TableInv
<1>1. CommitBlock BY DEF SaveBlock, SaveBlockUnacked
<1>2. /\ pc = "save" /\ blocks[head] = NoBlock
      /\ \A h \in Heights : blocks'[h] = IF h = head THEN chain[head] ELSE blocks[h]
      /\ UNCHANGED <<chain, head, genesis, fresh, last, first, genesisBlock, restore, stale, tainted, genesisIds>>
  BY <1>1 DEF CommitBlock, TypeOK, nodeVars, memVars, histVars
<1>3. pc' \in {"save", "apply"} BY <1>2 DEF SaveBlock, SaveBlockUnacked
<1>4. /\ head \in Heights /\ head - 1 \in Heights /\ genesis \in Heights /\ genesis <= head - 1
      /\ chain[head] # NoBlock /\ EmptyAbove(head) /\ blocks[head - 1] # NoBlock /\ ~restore
  BY <1>2 DEF Position, TypeOK, ChainShape
<1>5. \A h \in Heights : h > head => blocks'[h] = NoBlock BY <1>2, <1>4
<1>6. RowsShape'
  <2>1. \A h \in Heights : blocks'[h] < fresh BY <1>2, <1>4 DEF RowsShape, TypeOK
  <2>2. ASSUME NEW h \in Heights, NEW k \in Heights, genesis <= k, k <= h, blocks'[h] # NoBlock
        PROVE  blocks'[k] # NoBlock
    <3>1. k # head => k <= head - 1 BY <2>2, <1>4, <1>5
    <3>2. k # head => blocks[k] # NoBlock BY <3>1, <2>2, <1>4 DEF RowsShape
    <3> QED BY <3>2, <1>2, <1>4
  <2> QED BY <2>1, <2>2, <1>2 DEF RowsShape
<1>7. LastIsTop' BY <1>3 DEF LastIsTop
<1>8. Position'
  <2>1. blocks'[head] = chain[head] /\ blocks'[head - 1] # NoBlock BY <1>2, <1>4
  <2>2. ~genesisBlock BY <1>2 DEF Position
  <2> QED BY <1>2, <1>3, <1>4, <1>5, <2>1, <2>2 DEF Position
<1>9. HeightsFit'
  <2>1. NoHoles'
    <3> SUFFICES ASSUME NEW h \in Heights \ {1}, blocks'[h] # NoBlock, blocks'[h - 1] = NoBlock
                 PROVE  blocks'[h] \in genesisIds
      BY <1>2 DEF NoHoles
    <3>1. h # head BY <1>2, <1>4
    <3>2. h - 1 \in Heights /\ ~(h > head) BY <1>5
    <3>3. blocks'[h] = blocks[h] /\ blocks'[h - 1] = blocks[h - 1] BY <1>2, <1>4, <3>1, <3>2
    <3> QED BY <3>3 DEF HeightsFit, NoHoles
  <2>2. NeverAheadOfExpected' BY <1>3 DEF NeverAheadOfExpected
  <2> QED BY <2>1, <2>2 DEF HeightsFit
<1> QED BY <1>6, <1>7, <1>8, <1>9

\* The height in memory becomes the top of the table.
LEMMA ApplyOnStateTableInv == IndInv /\ TableInv /\ ApplyOnState => TableInv'
<1> SUFFICES ASSUME IndInv, TableInv, ApplyOnState PROVE TableInv' OBVIOUS
<1> USE BlockIndexingAssumption DEF IndInv, TableInv
<1>1. /\ pc = "apply" /\ pc' = "idle" /\ last' = head
      /\ UNCHANGED <<chain, head, genesis, fresh, blocks, first, genesisBlock, restore, stale, tainted, genesisIds>>
  BY DEF ApplyOnState, nodeVars, dbVars, histVars
<1>2. RowsShape' BY <1>1 DEF RowsShape
<1>3. blocks[head] # NoBlock /\ EmptyAbove(head) BY <1>1 DEF Position, ChainShape, TypeOK
<1>4. LastIsTop' BY <1>1, <1>3 DEF LastIsTop
<1>5. Position' BY <1>1 DEF Position, TypeOK
<1>6. HeightsFit' BY <1>1 DEF HeightsFit, NoHoles, NeverAheadOfExpected
<1> QED BY <1>2, <1>4, <1>5, <1>6

\* A crash writes no row.
LEMMA CrashTableInv == TableInv /\ Crash => TableInv'
<1> SUFFICES ASSUME TableInv, Crash PROVE TableInv' OBVIOUS
<1>1. /\ pc' = "down" /\ first' = 0 /\ genesisBlock' = FALSE /\ restore' = FALSE
      /\ UNCHANGED <<chain, head, genesis, fresh, blocks, genesisIds>>
  BY DEF Crash, nodeVars, dbVars
<1>2. RowsShape' /\ LastIsTop' /\ Position' BY <1>1 DEF TableInv, RowsShape, LastIsTop, Position
<1>3. HeightsFit' BY <1>1 DEF TableInv, HeightsFit, NoHoles, NeverAheadOfExpected
<1> QED BY <1>2, <1>3 DEF TableInv

\* What a start does to the node's chain and to the height in memory.
LEMMA StartEffect ==
    ASSUME IndInv, Start
    PROVE  /\ last' \in 0..MaxHeight
           /\ last' # 0 => blocks[last'] # NoBlock
           /\ \A h \in Heights : blocks[h] # NoBlock => h <= last'
           /\ head' \in Heights /\ genesis <= head' /\ (head' <= last' \/ head' = genesis)
           /\ \A h \in Heights : chain'[h] = IF h > head' THEN NoBlock ELSE chain[h]
<1> USE BlockIndexingAssumption DEF IndInv
<1>1. /\ last' \in 0..MaxHeight
      /\ last' # 0 => blocks[last'] # NoBlock
      /\ \A h \in Heights : blocks[h] # NoBlock => h <= last'
  BY LastHeight DEF Start, TypeOK
<1>2. head' \in Heights /\ genesis <= head' /\ (head' <= last' \/ head' = genesis)
  BY <1>1 DEF Start, StartHeight, TypeOK, ChainShape
<1>3. chain \in [Heights -> 0..MaxBlocks] /\ head' \in Int /\ chain' = CutTo(chain, head')
  BY <1>2 DEF TypeOK, Start
<1>4. \A h \in Heights : chain'[h] = IF h > head' THEN NoBlock ELSE chain[h] BY <1>3, CutToType
<1> QED BY <1>1, <1>2, <1>4

\* The process starts with the top of the table in memory and the node not
\* above it, unless at its genesis block.
LEMMA StartTableInv == IndInv /\ TableInv /\ Start => TableInv'
<1> SUFFICES ASSUME IndInv, TableInv, Start PROVE TableInv' OBVIOUS
<1> USE BlockIndexingAssumption DEF IndInv, TableInv
<1>1. /\ last' \in 0..MaxHeight
      /\ last' # 0 => blocks[last'] # NoBlock
      /\ \A h \in Heights : blocks[h] # NoBlock => h <= last'
      /\ head' \in Heights /\ genesis <= head' /\ (head' <= last' \/ head' = genesis)
      /\ \A h \in Heights : chain'[h] = IF h > head' THEN NoBlock ELSE chain[h]
  BY StartEffect
<1>2. /\ pc = "down" /\ pc' = "idle"
      /\ UNCHANGED <<genesis, fresh, blocks, balances, first, genesisBlock, genesisIds>>
  BY DEF Start, dbVars
<1>3. RowsShape'
  <2>1. genesis \in Heights /\ ~(genesis > head') BY <1>1 DEF TypeOK
  <2>2. chain'[genesis] = chain[genesis] BY <1>1, <2>1
  <2>3. NoBlock < fresh BY DEF TypeOK
  <2>4. \A h \in Heights : chain[h] < fresh BY DEF RowsShape
  <2>5. \A h \in Heights : chain'[h] < fresh BY <1>1, <2>3, <2>4
  <2> QED BY <1>2, <2>2, <2>5 DEF RowsShape
<1>4. LastIsTop' BY <1>1, <1>2 DEF LastIsTop
<1>5. Position'
  <2>1. first = 0 /\ ~genesisBlock /\ first' = first /\ genesisBlock' = genesisBlock BY <1>2 DEF Position
  <2>2. first' = 0 /\ ~genesisBlock' /\ pc' = "idle" BY <1>2, <2>1
  <2>3. head' <= last' \/ (head' = genesis' /\ first' = 0) BY <1>1, <1>2, <2>2
  <2> QED BY <2>2, <2>3 DEF Position
<1>6. HeightsFit' BY <1>2 DEF HeightsFit, NoHoles, NeverAheadOfExpected
<1> QED BY <1>3, <1>4, <1>5, <1>6

\* A new genesis is above the old one, so fewer heights have to be filled.
LEMMA NewGenesisTableInv ==
    ASSUME NEW g \in NewGenesisHeights PROVE IndInv /\ TableInv /\ NewGenesis(g) => TableInv'
<1> SUFFICES ASSUME IndInv, TableInv, NewGenesis(g) PROVE TableInv' OBVIOUS
<1> USE BlockIndexingAssumption DEF IndInv, TableInv
<1>1. /\ pc = "down" /\ pc' = "down" /\ g \in Heights /\ g > genesis /\ genesis' = g /\ head' = g
      /\ chain' = [h \in Heights |-> IF h = g THEN fresh ELSE NoBlock]
      /\ fresh' = fresh + 1 /\ genesisIds' = genesisIds \cup {fresh}
      /\ UNCHANGED <<blocks, last, first, genesisBlock, restore>>
  BY DEF NewGenesis, dbVars, memVars
<1>2. RowsShape'
  <2>1. fresh \in Nat /\ fresh > 0 /\ genesis \in Heights BY DEF TypeOK
  <2>2. \A h \in Heights : blocks[h] \in Int /\ blocks[h] < fresh + 1 BY DEF RowsShape, TypeOK
  <2>3. \A h \in Heights : chain'[h] < fresh + 1 BY <1>1, <2>1
  <2>4. chain'[g] \in genesisIds' BY <1>1
  <2>5. \A h, k \in Heights : g <= k /\ k <= h /\ blocks[h] # NoBlock => blocks[k] # NoBlock
    BY <1>1, <2>1 DEF RowsShape
  <2> QED BY <1>1, <2>2, <2>3, <2>4, <2>5 DEF RowsShape
<1>3. LastIsTop' BY <1>1 DEF LastIsTop
<1>4. Position' BY <1>1 DEF Position
<1>5. HeightsFit' BY <1>1 DEF HeightsFit, NoHoles, NeverAheadOfExpected
<1> QED BY <1>2, <1>3, <1>4, <1>5

\* Every step of the system preserves the shape of the table.
LEMMA NextTableInv == IndInv /\ TableInv /\ [Next]_vars => TableInv'
<1> SUFFICES ASSUME IndInv, TableInv, [Next]_vars PROVE TableInv' OBVIOUS
<1>1. CASE Node BY <1>1, NodeAddBlockTableInv, NodeRollbackTableInv DEF Node
<1>2. CASE Handler
  BY <1>2, ResetToTableInv, MatchedTableInv, CommitGenesisTableInv, RestoreTableInv,
     CommitBlockTableInv, ApplyOnStateTableInv DEF Handler
<1>3. CASE Lost BY <1>3, CommitGenesisTableInv, CommitBlockTableInv DEF Lost
<1>4. CASE Process BY <1>4, CrashTableInv, StartTableInv, NewGenesisTableInv DEF Process
<1>5. CASE UNCHANGED vars
  <2> USE <1>5 DEF vars, nodeVars, dbVars, memVars, histVars, TableInv
  <2>1. RowsShape' /\ LastIsTop' BY DEF RowsShape, LastIsTop
  <2>2. Position' BY DEF Position
  <2>3. HeightsFit' BY DEF HeightsFit, NoHoles, NeverAheadOfExpected, HeightToIndex
  <2> QED BY <2>1, <2>2, <2>3
<1> QED BY <1>1, <1>2, <1>3, <1>4, <1>5 DEF Next

\* The tables have no hole and the panic "Incoming block height=%d is greater
\* than expected %d" of indexBlock is unreachable, whatever forks, crashes,
\* lost acknowledgements and new genesis blocks come in which order.
THEOREM HeightsFitAlways == Spec => []HeightsFit
<1>1. Init => IndInv /\ TableInv BY InitIndInv, InitTableInv
<1>2. (IndInv /\ TableInv) /\ [Next]_vars => (IndInv /\ TableInv)' BY NextIndInv, NextTableInv
<1>3. TableInv => HeightsFit BY DEF TableInv
<1> QED BY <1>1, <1>2, <1>3, PTL DEF Spec

-----------------------------------------------------------------------------
(* The wiped and restored tables: which block's state they reproduce. *)

\* The balances are those of the top row when that row is the node's block,
\* unless they are about to be restored.
TopIsReproduced ==
    \A h \in Heights :
        /\ blocks[h] # NoBlock /\ EmptyAbove(h)
        /\ ~tainted /\ (restore => pc \in {"idle", "down"})
        => balances = blocks[h] \/ blocks[h] # chain[h]

\* The row below the block being handled is the node's block, or the handler
\* has been told to restore the balances.
ParentIsNodes ==
    ~tainted =>
        /\ pc = "idle" /\ last # 0 /\ head >= last => blocks[last] = chain[last]
        /\ pc = "check" /\ last # 0 /\ head > last /\ ~restore => blocks[last] = chain[last]
        /\ pc = "genesis" => genesis = first \/ restore
        /\ pc = "restore" /\ ~restore => blocks[head - 1] = chain[head - 1]
        /\ pc = "save" /\ blocks[head] = NoBlock => balances = chain[head - 1]

BalancesInv == TopIsReproduced /\ ParentIsNodes

\* There is no row at the first start.
LEMMA InitBalancesInv == Init => BalancesInv
BY DEF Init, BalancesInv, TopIsReproduced, ParentIsNodes

\* The new head has a number no row has.
LEMMA NodeAddBlockBalancesInv == IndInv /\ TableInv /\ BalancesInv /\ NodeAddBlock => BalancesInv'
<1> SUFFICES ASSUME IndInv, TableInv, BalancesInv, NodeAddBlock PROVE BalancesInv' OBVIOUS
<1> USE BlockIndexingAssumption DEF IndInv, TableInv, BalancesInv
<1>1. /\ pc = "idle" /\ pc' = "check" /\ head' = head + 1 /\ head + 1 \in Heights /\ fresh \in Int
      /\ \A h \in Heights : chain'[h] = IF h = head + 1 THEN fresh ELSE chain[h]
      /\ UNCHANGED <<genesis, blocks, balances, last, genesisBlock, restore, tainted>>
  BY DEF NodeAddBlock, TypeOK, dbVars, histVars
<1>2. TopIsReproduced'
  <2>1. \A h \in Heights : blocks[h] # fresh BY DEF RowsShape, TypeOK
  <2>2. \A h \in Heights : blocks[h] # chain[h] => blocks[h] # chain'[h] BY <1>1, <2>1
  <2> QED BY <1>1, <2>2 DEF TopIsReproduced
<1>3. ParentIsNodes'
  <2> SUFFICES ASSUME ~tainted, last # 0, head + 1 > last, ~restore PROVE blocks[last] = chain'[last]
    BY <1>1 DEF ParentIsNodes
  <2>1. head \in Int /\ last \in Heights /\ head >= last BY DEF TypeOK
  <2> QED BY <1>1, <2>1 DEF ParentIsNodes
<1> QED BY <1>2, <1>3

\* A rollback takes blocks away from the comparison.
LEMMA NodeRollbackBalancesInv ==
    ASSUME NEW p \in Heights PROVE IndInv /\ TableInv /\ BalancesInv /\ NodeRollback(p) => BalancesInv'
<1> SUFFICES ASSUME IndInv, TableInv, BalancesInv, NodeRollback(p) PROVE BalancesInv' OBVIOUS
<1> USE BlockIndexingAssumption DEF IndInv, TableInv, BalancesInv
<1>1. /\ p \in Int /\ genesis <= p /\ p < head /\ head' = p /\ pc = "idle" /\ pc' = pc
      /\ UNCHANGED <<genesis, fresh, blocks, balances, last, first, genesisBlock, restore, stale, tainted, genesisIds>>
  BY DEF NodeRollback, TypeOK, memVars, dbVars, histVars
<1>2. \A h \in Heights : chain'[h] = IF h > p THEN NoBlock ELSE chain[h]
  BY <1>1, CutToType DEF NodeRollback, TypeOK
<1>3. TopIsReproduced' BY <1>1, <1>2 DEF TopIsReproduced
<1>4. ParentIsNodes'
  <2> SUFFICES ASSUME ~tainted, last # 0, p >= last PROVE blocks[last] = chain'[last]
    BY <1>1 DEF ParentIsNodes
  <2>1. last \in Heights /\ head >= last /\ ~(last > p) BY <1>1 DEF TypeOK
  <2> QED BY <1>1, <1>2, <2>1 DEF ParentIsNodes
<1> QED BY <1>3, <1>4

\* A reset always asks for a restore, so nothing is promised until then.
LEMMA ResetToBalancesInv == IndInv /\ ResetTo => BalancesInv'
<1> SUFFICES ASSUME IndInv, ResetTo PROVE BalancesInv' OBVIOUS
<1>1. restore' = TRUE BY ResetToEffect
<1>2. pc' = "check" BY DEF ResetTo
<1> QED BY <1>1, <1>2 DEF BalancesInv, TopIsReproduced, ParentIsNodes

\* Without a pending restore the top row is the node's block, so it cannot be
\* below the genesis block: only the first genesis is indexed without one.
LEMMA MatchedBalancesInv == IndInv /\ TableInv /\ BalancesInv /\ Matched => BalancesInv'
<1> SUFFICES ASSUME IndInv, TableInv, BalancesInv, Matched PROVE BalancesInv' OBVIOUS
<1> USE BlockIndexingAssumption DEF IndInv, TableInv, BalancesInv
<1>1. /\ pc = "check" /\ pc' = (IF genesisBlock' THEN "genesis" ELSE "restore")
      /\ genesisBlock' = (genesisBlock \/ head > HeightToIndex)
      /\ head >= HeightToIndex /\ (head > HeightToIndex => head = genesis + 1)
      /\ UNCHANGED <<chain, head, genesis, fresh, blocks, balances, last, first, restore, stale, tainted, genesisIds>>
  BY DEF Matched, nodeVars, dbVars, histVars
<1>2. head \in Heights /\ genesis \in Heights /\ last \in 0..MaxHeight /\ genesis < head
  BY <1>1 DEF TypeOK, ChainShape
<1>3. ~genesisBlock => HeightToIndex = last + 1 BY <1>2 DEF HeightToIndex
<1>4. HeightToIndex \in Int BY <1>2 DEF HeightToIndex
<1>5. TopIsReproduced' BY <1>1 DEF TopIsReproduced
<1>6. ASSUME ~tainted, genesisBlock', ~restore PROVE genesis = first
  <2>1. ~genesisBlock BY <1>1, <1>6 DEF Position
  <2>2. head > HeightToIndex BY <1>1, <1>6, <2>1
  <2>3. last < genesis /\ last < head BY <2>1, <2>2, <1>1, <1>2, <1>3
  <2>4. last # 0 => blocks[last] = chain[last] /\ blocks[last] # NoBlock
    BY <1>1, <1>2, <1>6, <2>3 DEF ParentIsNodes, LastIsTop
  <2>5. last # 0 => chain[last] = NoBlock BY <1>2, <2>3 DEF ChainShape
  <2> QED BY <2>4, <2>5, <1>1 DEF Position
<1>7. ASSUME ~tainted, ~genesisBlock', ~restore PROVE blocks[head - 1] = chain[head - 1]
  <2>1. ~genesisBlock /\ ~(head > HeightToIndex) BY <1>1, <1>7
  <2>2. head = last + 1 /\ last # 0 BY <2>1, <1>1, <1>2, <1>3, <1>4
  <2>3. blocks[last] = chain[last] BY <1>1, <1>2, <1>7, <2>2 DEF ParentIsNodes
  <2>4. head - 1 = last BY <2>2, <1>2
  <2> QED BY <2>3, <2>4
<1>8. ParentIsNodes' BY <1>1, <1>6, <1>7 DEF ParentIsNodes
<1> QED BY <1>5, <1>8

\* The genesis block of an empty table carries all accounts.
LEMMA CommitGenesisBalancesInv ==
    IndInv /\ TableInv /\ BalancesInv /\ (SaveGenesis \/ SaveGenesisUnacked) => BalancesInv'
<1> SUFFICES ASSUME IndInv, TableInv, BalancesInv, SaveGenesis \/ SaveGenesisUnacked PROVE BalancesInv' OBVIOUS
<1> USE BlockIndexingAssumption DEF IndInv, TableInv, BalancesInv
<1>1. CommitGenesis BY DEF SaveGenesis, SaveGenesisUnacked
<1>2. /\ pc = "genesis" /\ blocks[genesis] = NoBlock
      /\ \A h \in Heights : blocks'[h] = IF h = genesis THEN chain[genesis] ELSE blocks[h]
      /\ UNCHANGED <<chain, head, genesis, fresh, last, first, restore, stale, genesisIds>>
  BY <1>1 DEF CommitGenesis, TypeOK, nodeVars
<1>3. pc' \in {"genesis", "restore"} BY <1>2 DEF SaveGenesis, SaveGenesisUnacked
<1>4. genesis \in Heights /\ head = genesis + 1 /\ EmptyAbove(genesis) /\ chain[genesis] # NoBlock
  BY <1>2 DEF Position, TypeOK, ChainShape
<1>5. ~tainted' /\ genesis # first => restore /\ ~tainted
  BY <1>1, <1>2 DEF CommitGenesis, ParentIsNodes
<1>6. genesis = first => balances' = chain[genesis] BY <1>1 DEF CommitGenesis
<1>7. blocks'[genesis] = chain[genesis] BY <1>2, <1>4
<1>8. TopIsReproduced'
  <2> SUFFICES ASSUME NEW h \in Heights, blocks'[h] # NoBlock, \A k \in Heights : k > h => blocks'[k] = NoBlock,
                      ~tainted', ~restore
               PROVE  balances' = blocks'[h]
    BY <1>2, <1>3 DEF TopIsReproduced
  <2>1. h = genesis BY <1>2, <1>4, <1>7
  <2> QED BY <2>1, <1>5, <1>6, <1>7
<1>9. ParentIsNodes'
  <2>1. head - 1 = genesis BY <1>4
  <2> QED BY <2>1, <1>2, <1>3, <1>5, <1>7 DEF ParentIsNodes
<1> QED BY <1>8, <1>9

\* A restore takes the state of the parent; without one the balances already
\* are those of the parent.
LEMMA RestoreBalancesInv == IndInv /\ TableInv /\ BalancesInv /\ Restore => BalancesInv'
<1> SUFFICES ASSUME IndInv, TableInv, BalancesInv, Restore PROVE BalancesInv' OBVIOUS
<1> USE BlockIndexingAssumption DEF IndInv, TableInv, BalancesInv
<1>1. /\ pc = "restore" /\ pc' = "save" /\ restore' = FALSE
      /\ UNCHANGED <<chain, head, genesis, fresh, blocks, last, first, genesisBlock, stale, genesisIds>>
  BY DEF Restore, nodeVars
<1>2. head - 1 \in Heights /\ EmptyAbove(head - 1) /\ blocks[head - 1] # NoBlock
  BY <1>1 DEF Position, ChainShape, TypeOK
<1>3. CASE restore
  <2>1. balances' = chain[head - 1] BY <1>3 DEF Restore
  <2>2. TopIsReproduced'
    <3> SUFFICES ASSUME NEW h \in Heights, blocks[h] # NoBlock, EmptyAbove(h), blocks[h] = chain[h]
                 PROVE  balances' = blocks[h]
      BY <1>1 DEF TopIsReproduced
    <3>1. h = head - 1 BY <1>2
    <3> QED BY <3>1, <2>1
  <2>3. ParentIsNodes' BY <1>1, <2>1 DEF ParentIsNodes
  <2> QED BY <2>2, <2>3
<1>4. CASE ~restore
  <2>1. balances' = balances /\ tainted' = tainted BY <1>4 DEF Restore, TypeOK
  <2>2. TopIsReproduced' BY <1>1, <1>4, <2>1 DEF TopIsReproduced
  <2>3. ~tainted => balances = chain[head - 1]
    BY <1>1, <1>2, <1>4 DEF TopIsReproduced, ParentIsNodes
  <2>4. ParentIsNodes' BY <1>1, <2>1, <2>3 DEF ParentIsNodes
  <2> QED BY <2>2, <2>4
<1> QED BY <1>3, <1>4

\* The balances that changed are applied to those of the parent.
LEMMA CommitBlockBalancesInv ==
    IndInv /\ TableInv /\ BalancesInv /\ (SaveBlock \/ SaveBlockUnacked) => BalancesInv'
<1> SUFFICES ASSUME IndInv, TableInv, BalancesInv, SaveBlock \/ SaveBlockUnacked PROVE BalancesInv' OBVIOUS
<1> USE BlockIndexingAssumption DEF IndInv, TableInv, BalancesInv
<1>1. CommitBlock BY DEF SaveBlock, SaveBlockUnacked
<1>2. /\ pc = "save" /\ blocks[head] = NoBlock
      /\ \A h \in Heights : blocks'[h] = IF h = head THEN chain[head] ELSE blocks[h]
      /\ UNCHANGED <<chain, head, genesis, fresh, last, first, genesisBlock, restore, stale, tainted, genesisIds>>
  BY <1>1 DEF CommitBlock, TypeOK, nodeVars, memVars, histVars
<1>3. pc' \in {"save", "apply"} BY <1>2 DEF SaveBlock, SaveBlockUnacked
<1>4. head \in Heights /\ chain[head] # NoBlock /\ EmptyAbove(head)
  BY <1>2 DEF Position, TypeOK, ChainShape
<1>5. ~tainted => balances' = chain[head] BY <1>1, <1>2 DEF CommitBlock, ParentIsNodes
<1>6. blocks'[head] = chain[head] BY <1>2, <1>4
<1>7. TopIsReproduced'
  <2> SUFFICES ASSUME NEW h \in Heights, blocks'[h] # NoBlock, \A k \in Heights : k > h => blocks'[k] = NoBlock,
                      ~tainted
               PROVE  balances' = blocks'[h]
    BY <1>2 DEF TopIsReproduced
  <2>1. h = head BY <1>2, <1>4, <1>6
  <2> QED BY <2>1, <1>5, <1>6
<1>8. ParentIsNodes' BY <1>2, <1>3, <1>4, <1>6 DEF ParentIsNodes
<1> QED BY <1>7, <1>8

\* The row just saved is the node's head.
LEMMA ApplyOnStateBalancesInv == TableInv /\ BalancesInv /\ ApplyOnState => BalancesInv'
<1> SUFFICES ASSUME TableInv, BalancesInv, ApplyOnState PROVE BalancesInv' OBVIOUS
<1> USE DEF TableInv, BalancesInv
<1>1. /\ pc = "apply" /\ pc' = "idle" /\ last' = head
      /\ UNCHANGED <<chain, head, genesis, fresh, blocks, balances, first, genesisBlock, restore, tainted>>
  BY DEF ApplyOnState, nodeVars, dbVars, histVars
<1>2. ~restore /\ blocks[head] = chain[head] BY <1>1 DEF Position
<1>3. TopIsReproduced' BY <1>1, <1>2 DEF TopIsReproduced
<1>4. ParentIsNodes' BY <1>1, <1>2 DEF ParentIsNodes
<1> QED BY <1>3, <1>4

\* A crash before a pending restore taints the balances.
LEMMA CrashBalancesInv == IndInv /\ BalancesInv /\ Crash => BalancesInv'
<1> SUFFICES ASSUME IndInv, BalancesInv, Crash PROVE BalancesInv' OBVIOUS
<1>1. pc' = "down" /\ restore' = FALSE /\ UNCHANGED <<chain, blocks, balances>>
  BY DEF Crash, nodeVars, dbVars
<1>2. ~tainted' => ~tainted /\ ~restore BY DEF Crash
<1>3. TopIsReproduced' BY <1>1, <1>2 DEF TopIsReproduced, BalancesInv
<1>4. ParentIsNodes' BY <1>1 DEF ParentIsNodes
<1> QED BY <1>3, <1>4 DEF BalancesInv

\* A start with a top row that is not the node's block taints the balances.
LEMMA StartBalancesInv == IndInv /\ TableInv /\ BalancesInv /\ Start => BalancesInv'
<1> SUFFICES ASSUME IndInv, TableInv, BalancesInv, Start PROVE BalancesInv' OBVIOUS
<1> USE BlockIndexingAssumption DEF IndInv, TableInv, BalancesInv
<1>1. \A h \in Heights : chain'[h] = IF h > head' THEN NoBlock ELSE chain[h] BY StartEffect
<1>2. /\ pc = "down" /\ pc' = "idle" /\ ~restore
      /\ UNCHANGED <<genesis, fresh, blocks, balances, first, genesisBlock, genesisIds>>
  BY DEF Start, dbVars, Position
<1>3. ~tainted' => ~tainted /\ (last' # 0 /\ head' >= last' => blocks[last'] = chain'[last'])
  BY DEF Start
<1>4. TopIsReproduced' BY <1>1, <1>2, <1>3 DEF TopIsReproduced
<1>5. ParentIsNodes' BY <1>2, <1>3 DEF ParentIsNodes
<1> QED BY <1>4, <1>5

\* A new genesis block has a number no row has.
LEMMA NewGenesisBalancesInv ==
    ASSUME NEW g \in NewGenesisHeights PROVE IndInv /\ TableInv /\ BalancesInv /\ NewGenesis(g) => BalancesInv'
<1> SUFFICES ASSUME IndInv, TableInv, BalancesInv, NewGenesis(g) PROVE BalancesInv' OBVIOUS
<1> USE BlockIndexingAssumption DEF IndInv, TableInv, BalancesInv
<1>1. /\ pc = "down" /\ pc' = "down"
      /\ chain' = [h \in Heights |-> IF h = g THEN fresh ELSE NoBlock]
      /\ UNCHANGED <<blocks, balances, restore, tainted>>
  BY DEF NewGenesis, dbVars, memVars
<1>2. \A h \in Heights : blocks[h] # fresh BY DEF RowsShape, TypeOK
<1>3. TopIsReproduced' BY <1>1, <1>2 DEF TopIsReproduced
<1>4. ParentIsNodes' BY <1>1 DEF ParentIsNodes
<1> QED BY <1>3, <1>4

\* Every step of the system preserves what is known of the balances.
LEMMA NextBalancesInv == IndInv /\ TableInv /\ BalancesInv /\ [Next]_vars => BalancesInv'
<1> SUFFICES ASSUME IndInv, TableInv, BalancesInv, [Next]_vars PROVE BalancesInv' OBVIOUS
<1>1. CASE Node BY <1>1, NodeAddBlockBalancesInv, NodeRollbackBalancesInv DEF Node
<1>2. CASE Handler
  BY <1>2, ResetToBalancesInv, MatchedBalancesInv, CommitGenesisBalancesInv, RestoreBalancesInv,
     CommitBlockBalancesInv, ApplyOnStateBalancesInv DEF Handler
<1>3. CASE Lost BY <1>3, CommitGenesisBalancesInv, CommitBlockBalancesInv DEF Lost
<1>4. CASE Process BY <1>4, CrashBalancesInv, StartBalancesInv, NewGenesisBalancesInv DEF Process
<1>5. CASE UNCHANGED vars
  BY <1>5 DEF vars, nodeVars, dbVars, memVars, histVars, BalancesInv, TopIsReproduced, ParentIsNodes
<1> QED BY <1>1, <1>2, <1>3, <1>4, <1>5 DEF Next

\* When indexBlock has caught up with the node, the tables that reset_to wipes
\* and the Restorer fills reproduce the node's state, through forks, genesis
\* changes, crashes and lost acknowledgements, unless the process died between
\* the two or started on a row that was not the node's.
THEOREM BalancesFollowStateAlways == Spec => []BalancesFollowState
<1>1. Init => IndInv /\ TableInv /\ BalancesInv BY InitIndInv, InitTableInv, InitBalancesInv
<1>2. (IndInv /\ TableInv /\ BalancesInv) /\ [Next]_vars => (IndInv /\ TableInv /\ BalancesInv)'
  BY NextIndInv, NextTableInv, NextBalancesInv
<1>3. IndInv /\ TableInv /\ BalancesInv => BalancesFollowState
  <2> SUFFICES ASSUME IndInv, TableInv, BalancesInv, pc = "idle", last = head, ~tainted
               PROVE  balances = chain[head]
    BY DEF BalancesFollowState
  <2>1. head \in Heights /\ last # 0 /\ head >= last BY BlockIndexingAssumption DEF IndInv, TypeOK
  <2>2. blocks[head] = chain[head] BY <2>1 DEF BalancesInv, ParentIsNodes
  <2>3. blocks[head] # NoBlock /\ EmptyAbove(head) BY <2>1 DEF TableInv, LastIsTop
  <2> QED BY <2>1, <2>2, <2>3 DEF BalancesInv, TopIsReproduced
<1> QED BY <1>1, <1>2, <1>3, PTL DEF Spec

-----------------------------------------------------------------------------
(* The table "blocks" implements the stack of BlockStore. *)

\* Every step of the indexer is a push, a cut or a stuttering step of the stack.
LEMMA NextIsStackStep == IndInv /\ TableInv /\ [Next]_vars => [Store!Next]_blocks
<1> SUFFICES ASSUME IndInv, TableInv, [Next]_vars PROVE Store!Next \/ UNCHANGED blocks OBVIOUS
<1> USE BlockIndexingAssumption DEF IndInv, TableInv
<1>1. CASE ResetTo
  <2>1. HeightToReset \in Heights \cup {0} /\ blocks' = CutTo(blocks, HeightToReset) BY <1>1, ResetToEffect
  <2>2. Store!CutAbove(HeightToReset) BY <2>1 DEF Store!CutAbove, CutTo
  <2> QED BY <2>1, <2>2 DEF Store!Next
<1>2. CASE CommitGenesis
  <2>1. genesis \in Heights /\ chain[genesis] \in Blocks BY <1>2 DEF CommitGenesis, TypeOK, ChainShape
  <2>2. EmptyAbove(genesis) /\ blocks[genesis] = NoBlock BY <1>2 DEF CommitGenesis, Position
  <2>3. \A k \in Heights : k >= genesis => blocks[k] = NoBlock BY <2>1, <2>2
  <2>4. Store!Push(genesis, chain[genesis]) BY <1>2, <2>3 DEF Store!Push, CommitGenesis
  <2> QED BY <2>1, <2>4 DEF Store!Next
<1>3. CASE CommitBlock
  <2>1. head \in Heights /\ chain[head] \in Blocks BY <1>3 DEF CommitBlock, TypeOK, ChainShape
  <2>2. EmptyAbove(head) /\ blocks[head] = NoBlock BY <1>3 DEF CommitBlock, Position
  <2>3. \A k \in Heights : k >= head => blocks[k] = NoBlock BY <2>1, <2>2
  <2>4. Store!Push(head, chain[head]) BY <1>3, <2>3 DEF Store!Push, CommitBlock
  <2> QED BY <2>1, <2>4 DEF Store!Next
<1>4. CASE UNCHANGED blocks BY <1>4
<1>5. Node => UNCHANGED blocks BY DEF Node, NodeAddBlock, NodeRollback, dbVars
<1>6. Process => UNCHANGED blocks BY DEF Process, Crash, Start, NewGenesis, dbVars
<1>7. Handler => ResetTo \/ CommitGenesis \/ CommitBlock \/ UNCHANGED blocks
  BY DEF Handler, Matched, SaveGenesis, Restore, SaveBlock, ApplyOnState, dbVars
<1>8. Lost => CommitGenesis \/ CommitBlock BY DEF Lost, SaveGenesisUnacked, SaveBlockUnacked
<1>9. UNCHANGED vars => UNCHANGED blocks BY DEF vars, dbVars
<1> QED BY <1>1, <1>2, <1>3, <1>4, <1>5, <1>6, <1>7, <1>8, <1>9 DEF Next

\* The table "blocks" is a stack to its readers: saveData only adds a row
\* above all others and reset_to only takes rows from the top, so no reader
\* sees a row rewritten in place or slipped in below another.
THEOREM BlocksRefineStack == Spec => StoreIsAStack
<1>1. Init => IndInv /\ TableInv BY InitIndInv, InitTableInv
<1>2. (IndInv /\ TableInv) /\ [Next]_vars => (IndInv /\ TableInv)' BY NextIndInv, NextTableInv
<1>3. Init => Store!Init BY DEF Init, Store!Init
<1> QED BY <1>1, <1>2, <1>3, NextIsStackStep, PTL DEF Spec, StoreIsAStack, Store!Spec
=============================================================================
