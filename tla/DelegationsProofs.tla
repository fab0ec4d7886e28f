------------------------- MODULE DelegationsProofs -------------------------
(***************************************************************************)
(* Proofs about delegations and pools (Delegations): the tables of pools   *)
(* agree with the node, and the delegation history can be taken back.      *)
(***************************************************************************)
EXTENDS Delegations, TLAPS, FiniteSetTheorems, WellFoundedInduction

-----------------------------------------------------------------------------
(* Induction, and what the recursive functions compute. *)

\* A set of numbers that is not empty has a least element.
LEMMA LeastNat == ASSUME NEW T, T \subseteq Nat, T # {} PROVE \E x \in T : \A y \in T : x <= y
<1> DEFINE R == OpToRel(<,Nat)
<1>1. IsWellFoundedOn(R, Nat) BY NatLessThanWellFounded
<1>2. \A y, x \in Nat : <<y, x>> \in R <=> y < x BY DEF OpToRel
<1> HIDE DEF R
<1>3. PICK x \in T : \A y \in T : ~(<<y, x>> \in R) BY <1>1, WFMin
<1>4. ASSUME NEW y \in T PROVE x <= y
  <2>1. <<y, x>> \notin R BY <1>3
  <2>2. x \in Nat /\ y \in Nat OBVIOUS
  <2>3. ~(y < x) BY <1>2, <2>1, <2>2
  <2> QED BY <2>2, <2>3
<1> QED BY <1>4

\* A set that has 0, and with every number the next, has them all.
LEMMA NatInd == ASSUME NEW P, 0 \in P, \A n \in Nat : n \in P => n + 1 \in P PROVE Nat \subseteq P
<1> SUFFICES ASSUME Nat \ P # {} PROVE FALSE OBVIOUS
<1>1. PICK x \in Nat \ P : \A y \in Nat \ P : x <= y BY LeastNat
<1>2. x # 0 BY <1>1
<1>3. x - 1 \in Nat /\ (x - 1) + 1 = x /\ ~(x <= x - 1) BY <1>2
<1>4. x - 1 \in P BY <1>1, <1>3
<1> QED BY <1>3, <1>4

\* The tables after each switch come from those before it.
LEMMA SwitchByStep ==
    ASSUME NEW t, NEW s, Len(s) \in Nat
    PROVE  /\ SaveSwitches(t, s)[0] = t
           /\ \A i \in 1 .. Len(s) : SaveSwitches(t, s)[i] = SaveSwitch(SaveSwitches(t, s)[i - 1], s[i])
<1> DEFINE Body(h, m) == [i \in 0 .. m |-> IF i = 0 THEN t ELSE SaveSwitch(h[i - 1], s[i])]
           P == {m \in Nat : \E h : h = Body(h, m)}
<1>1. 0 \in P
  <2> DEFINE h == [i \in 0 .. 0 |-> t]
  <2>1. h = Body(h, 0) OBVIOUS
  <2> QED BY <2>1
<1>2. ASSUME NEW m \in Nat, m \in P PROVE m + 1 \in P
  <2>1. PICK h : h = Body(h, m) BY <1>2
  <2> DEFINE g == [i \in 0 .. (m + 1) |-> IF i <= m THEN h[i] ELSE SaveSwitch(h[m], s[m + 1])]
  <2>2. ASSUME NEW i \in 0 .. (m + 1) PROVE g[i] = IF i = 0 THEN t ELSE SaveSwitch(g[i - 1], s[i])
    <3>1. CASE i <= m
      <4>1. i \in 0 .. m /\ g[i] = h[i] BY <3>1
      <4>2. h[i] = IF i = 0 THEN t ELSE SaveSwitch(h[i - 1], s[i]) BY <2>1, <4>1
      <4>3. i # 0 => i - 1 \in 0 .. (m + 1) /\ i - 1 <= m BY <4>1
      <4> HIDE DEF Body
      <4>4. i # 0 => g[i - 1] = h[i - 1] BY <4>3
      <4> QED BY <4>1, <4>2, <4>4
    <3>2. CASE ~(i <= m)
      <4>1. i = m + 1 /\ i # 0 /\ i - 1 = m BY <3>2
      <4>2. g[i] = SaveSwitch(h[m], s[m + 1]) BY <3>2
      <4>3. g[m] = h[m] OBVIOUS
      <4> QED BY <4>1, <4>2, <4>3
    <3> QED BY <3>1, <3>2
  <2>3. g = Body(g, m + 1) BY <2>2
  <2> HIDE DEF g
  <2>4. \E f : f = Body(f, m + 1) BY <2>3
  <2> QED BY <2>4
<1>3. Len(s) \in P
  <2> HIDE DEF P
  <2> QED BY <1>1, <1>2, NatInd
<1>4. PICK h : h = Body(h, Len(s)) BY <1>3
<1>5. SaveSwitches(t, s) = Body(SaveSwitches(t, s), Len(s)) BY <1>4 DEF SaveSwitches
<1>6. 0 \in 0 .. Len(s) /\ \A i \in 1 .. Len(s) : i \in 0 .. Len(s) /\ i # 0 OBVIOUS
<1> DEFINE f == SaveSwitches(t, s)
<1>7. f = [i \in 0 .. Len(s) |-> IF i = 0 THEN t ELSE SaveSwitch(f[i - 1], s[i])] BY <1>5
<1> HIDE DEF f
<1>8. f[0] = t /\ \A i \in 1 .. Len(s) : f[i] = SaveSwitch(f[i - 1], s[i]) BY <1>6, <1>7
<1> QED BY <1>8 DEF f

-----------------------------------------------------------------------------
(* The tables of pools. *)

Delegatees == [Delegator -> Pool \cup {NoOne}]

Delegating(d) == {a \in Delegator : d[a] # NoOne}

UsedPools(d) == {d[a] : a \in Delegating(d)}

Members(d, p) == {a \in Delegator : d[a] = p}

SizeRow == [total : Nat, size : Nat]

\* The tables say who delegates to whom, as d does, but for the sizes of the
\* pools, which are written last.
Mirrors(t, d) ==
  /\ t = [delegations |-> t.delegations, sizes |-> t.sizes, summary |-> t.summary]
  /\ t.delegations = [a \in Delegating(d) |-> d[a]]
  /\ t.sizes \in [UsedPools(d) -> SizeRow]
  /\ \A p \in UsedPools(d) : t.sizes[p].total = Cardinality(Members(d, p))
  /\ \/ t.summary = Cardinality(UsedPools(d))
     \/ t.summary = NoRow /\ UsedPools(d) = {}

\* A size is the one the pool had before, unless the pool is one of these.
SizesStay(t, u, some) ==
  \A p \in DOMAIN u.sizes : p \in some \/ (p \in DOMAIN t.sizes /\ u.sizes[p].size = t.sizes[p].size)

\* The delegators, the members of a pool and the pools are finite in number.
LEMMA FiniteTables ==
    ASSUME NEW d \in Delegatees
    PROVE  /\ UsedPools(d) \subseteq Pool /\ IsFiniteSet(UsedPools(d)) /\ Cardinality(UsedPools(d)) \in Nat
           /\ \A p : IsFiniteSet(Members(d, p)) /\ Cardinality(Members(d, p)) \in Nat
<1>1. IsFiniteSet(Delegator) /\ IsFiniteSet(Pool) BY DelegationsAssumption
<1>2. UsedPools(d) \subseteq Pool BY DEF UsedPools, Delegating, Delegatees
<1>3. IsFiniteSet(UsedPools(d)) BY <1>1, <1>2, FS_Subset
<1>4. ASSUME NEW p PROVE IsFiniteSet(Members(d, p)) /\ Cardinality(Members(d, p)) \in Nat
  <2>1. Members(d, p) \subseteq Delegator BY DEF Members
  <2>2. IsFiniteSet(Members(d, p)) BY <1>1, <2>1, FS_Subset
  <2> QED BY <2>2, FS_CardinalityType
<1> QED BY <1>2, <1>3, <1>4, FS_CardinalityType

\* A used pool has a member, and what has one is a used pool.
LEMMA UsedPoolsHaveMembers ==
    ASSUME NEW d \in Delegatees, NEW p \in Pool
    PROVE  p \in UsedPools(d) <=> Members(d, p) # {}
<1>1. p # NoOne BY DelegationsAssumption
<1> QED BY <1>1 DEF UsedPools, Delegating, Members, Delegatees

\* The delegator's row goes, and with the last one the pool.
LEMMA LeaveMirrors ==
    ASSUME NEW d \in Delegatees, NEW t, Mirrors(t, d), NEW a \in Delegator, NEW e, e = [d EXCEPT ![a] = NoOne]
    PROVE  e \in Delegatees /\ Mirrors(Leave(t, a), e) /\ SizesStay(t, Leave(t, a), {})
<1> DEFINE u == Leave(t, a)
           p == d[a]
<1>1. e \in Delegatees BY DEF Delegatees
<1>2. /\ e[a] = NoOne /\ \A b \in Delegator \ {a} : e[b] = d[b] BY DEF Delegatees
<1>3. /\ t = [delegations |-> t.delegations, sizes |-> t.sizes, summary |-> t.summary]
      /\ t.delegations = [b \in Delegating(d) |-> d[b]]
      /\ t.sizes \in [UsedPools(d) -> SizeRow]
      /\ \A q \in UsedPools(d) : t.sizes[q].total = Cardinality(Members(d, q))
      /\ \/ t.summary = Cardinality(UsedPools(d))
         \/ t.summary = NoRow /\ UsedPools(d) = {}
  BY DEF Mirrors
<1>4. CASE a \notin Delegating(d)
  <2>1. a \notin DOMAIN t.delegations BY <1>3, <1>4
  <2>2. u = t BY <2>1 DEF Leave
  <2>3. d[a] = NoOne BY <1>4 DEF Delegating
  <2>4. e = d BY <2>3 DEF Delegatees
  <2> QED BY <1>1, <2>2, <2>4 DEF SizesStay
<1>5. CASE a \in Delegating(d)
  <2>1. a \in DOMAIN t.delegations /\ t.delegations[a] = p BY <1>3, <1>5
  <2>2. p \in UsedPools(d) /\ p # NoOne /\ p \in Pool BY <1>5 DEF UsedPools, Delegating, Delegatees
  <2>3. a \in Members(d, p) BY DEF Members
  <2>4. Delegating(e) = Delegating(d) \ {a} BY <1>2 DEF Delegating
  <2>5. Without(t.delegations, {a}) = [b \in Delegating(e) |-> e[b]]
    <3>1. DOMAIN t.delegations \ {a} = Delegating(e) BY <1>3, <2>4
    <3>2. \A b \in Delegating(e) : t.delegations[b] = e[b] BY <1>2, <1>3, <2>4 DEF Delegating
    <3> QED BY <3>1, <3>2 DEF Without
  <2>6. Members(e, p) = Members(d, p) \ {a} BY <1>2, <2>2 DEF Members
  <2>7. ASSUME NEW q \in Pool, q # p PROVE Members(e, q) = Members(d, q)
    <3>1. q # NoOne BY DelegationsAssumption
    <3> QED BY <1>2, <2>7, <3>1 DEF Members
  <2>8. /\ IsFiniteSet(Members(d, p)) /\ Cardinality(Members(d, p)) \in Nat
        /\ IsFiniteSet(UsedPools(d)) /\ Cardinality(UsedPools(d)) \in Nat /\ UsedPools(d) \subseteq Pool
    BY FiniteTables
  <2>9. Cardinality(Members(e, p)) = Cardinality(Members(d, p)) - 1
    <3>1. Cardinality(Members(d, p) \ {a}) = Cardinality(Members(d, p)) - 1 BY <2>3, <2>8, FS_RemoveElement
    <3> QED BY <2>6, <3>1
  <2>10. IsFiniteSet(Members(e, p)) BY <1>1, FiniteTables
  <2>11. ASSUME NEW q \in Pool, q # p PROVE q \in UsedPools(e) <=> q \in UsedPools(d)
    BY <1>1, <2>7, <2>11, UsedPoolsHaveMembers
  <2>12. UsedPools(e) \subseteq Pool /\ IsFiniteSet(UsedPools(e)) BY <1>1, FiniteTables
  <2>13. t.sizes[p].total = Cardinality(Members(d, p)) /\ t.sizes[p] \in SizeRow BY <1>3, <2>2
  <2> HIDE DEF p
  <2>14. CASE t.sizes[p].total = 1
    <3>1. Cardinality(Members(e, p)) = 0 BY <2>9, <2>13, <2>14
    <3>2. Members(e, p) = {} BY <2>10, <3>1, FS_EmptySet
    <3>3. p \notin UsedPools(e) BY <1>1, <2>2, <3>2, UsedPoolsHaveMembers
    <3>4. UsedPools(e) = UsedPools(d) \ {p} BY <2>8, <2>11, <2>12, <3>3
    <3>5. u = [delegations |-> Without(t.delegations, {a}), sizes |-> Without(t.sizes, {p}),
               summary |-> IF t.summary = NoRow THEN NoRow ELSE t.summary - 1]
      BY <2>1, <2>14 DEF Leave
    <3>6. u.delegations = Without(t.delegations, {a}) /\ u.sizes = Without(t.sizes, {p})
      BY <3>5
    <3>7. u.sizes = [q \in UsedPools(e) |-> t.sizes[q]] BY <1>3, <3>4, <3>6 DEF Without
    <3>8. u.sizes \in [UsedPools(e) -> SizeRow] BY <1>3, <3>4, <3>7
    <3>9. \A q \in UsedPools(e) : u.sizes[q].total = Cardinality(Members(e, q))
      BY <1>3, <2>7, <2>8, <3>4, <3>7
    <3>10. t.summary = Cardinality(UsedPools(d)) BY <1>3, <2>2
    <3>11. t.summary # NoRow BY <2>8, <3>10 DEF NoRow
    <3>12. Cardinality(UsedPools(e)) = Cardinality(UsedPools(d)) - 1
      <4>1. Cardinality(UsedPools(d) \ {p}) = Cardinality(UsedPools(d)) - 1 BY <2>2, <2>8, FS_RemoveElement
      <4> QED BY <3>4, <4>1
    <3>13. u.summary = Cardinality(UsedPools(e)) BY <3>5, <3>10, <3>11, <3>12
    <3>14. u = [delegations |-> u.delegations, sizes |-> u.sizes, summary |-> u.summary] BY <3>5
    <3> HIDE DEF u
    <3>15. Mirrors(u, e) BY <2>5, <3>6, <3>8, <3>9, <3>13, <3>14 DEF Mirrors
    <3>16. SizesStay(t, u, {}) BY <1>3, <3>4, <3>7 DEF SizesStay
    <3> QED BY <1>1, <3>15, <3>16 DEF u
  <2>15. CASE t.sizes[p].total # 1
    <3>1. Cardinality(Members(e, p)) # 0 BY <2>8, <2>9, <2>13, <2>15
    <3>2. Members(e, p) # {} BY <3>1, FS_EmptySet
    <3>3. p \in UsedPools(e) BY <1>1, <2>2, <3>2, UsedPoolsHaveMembers
    <3>4. UsedPools(e) = UsedPools(d)
      <4>1. ASSUME NEW q PROVE q \in UsedPools(e) <=> q \in UsedPools(d)
        <5>1. CASE q = p BY <2>2, <3>3, <5>1
        <5>2. CASE q # p BY <2>8, <2>11, <2>12, <5>2
        <5> QED BY <5>1, <5>2
      <4> QED BY <4>1
    <3>5. u = [t EXCEPT !.delegations = Without(@, {a}), !.sizes[p].total = @ - 1]
      BY <2>1, <2>15 DEF Leave
    <3>6. /\ u.delegations = Without(t.delegations, {a}) /\ u.summary = t.summary
          /\ u.sizes = [t.sizes EXCEPT ![p].total = @ - 1]
          /\ u = [delegations |-> u.delegations, sizes |-> u.sizes, summary |-> u.summary]
      BY <1>3, <3>5
    <3> HIDE DEF u
    <3>7. t.sizes[p].total \in Nat /\ t.sizes[p].total - 1 \in Nat BY <2>8, <2>9, <2>10, <2>13, FS_CardinalityType
    <3>8. /\ u.sizes \in [UsedPools(e) -> SizeRow]
          /\ u.sizes[p].total = t.sizes[p].total - 1 /\ u.sizes[p].size = t.sizes[p].size
          /\ \A q \in UsedPools(e) \ {p} : u.sizes[q] = t.sizes[q]
      <4>1. PICK r : r = [t.sizes[p] EXCEPT !.total = @ - 1] OBVIOUS
      <4>2. r \in SizeRow /\ r.total = t.sizes[p].total - 1 /\ r.size = t.sizes[p].size
        BY <2>13, <3>7, <4>1 DEF SizeRow
      <4>3. u.sizes = [t.sizes EXCEPT ![p] = r] BY <1>3, <3>6, <4>1
      <4>4. u.sizes[p] = r /\ \A q \in UsedPools(e) \ {p} : u.sizes[q] = t.sizes[q] BY <1>3, <2>2, <3>4, <4>3
      <4>5. u.sizes \in [UsedPools(e) -> SizeRow] BY <1>3, <3>4, <4>2, <4>3
      <4> QED BY <4>2, <4>4, <4>5
    <3>9. \A q \in UsedPools(e) : u.sizes[q].total = Cardinality(Members(e, q))
      <4> SUFFICES ASSUME NEW q \in UsedPools(e) PROVE u.sizes[q].total = Cardinality(Members(e, q)) OBVIOUS
      <4>1. CASE q = p BY <2>9, <2>13, <3>8, <4>1
      <4>2. CASE q # p BY <1>3, <2>7, <2>12, <3>4, <3>8, <4>2
      <4> QED BY <4>1, <4>2
    <3>10. Mirrors(u, e) BY <1>3, <2>5, <3>4, <3>6, <3>8, <3>9 DEF Mirrors
    <3>11. SizesStay(t, u, {})
      <4>1. DOMAIN u.sizes = UsedPools(e) /\ DOMAIN t.sizes = UsedPools(e) BY <1>3, <3>4, <3>8
      <4> QED BY <3>8, <4>1 DEF SizesStay
    <3> QED BY <1>1, <3>10, <3>11 DEF u
  <2> QED BY <2>14, <2>15
<1> QED BY <1>4, <1>5

\* The delegator gets a row, and a pool that has none starts with size 0.
LEMMA JoinMirrors ==
    ASSUME NEW d \in Delegatees, NEW t, Mirrors(t, d), NEW a \in Delegator, d[a] = NoOne, NEW p \in Pool,
           NEW e, e = [d EXCEPT ![a] = p]
    PROVE  e \in Delegatees /\ Mirrors(Join(t, a, p), e) /\ SizesStay(t, Join(t, a, p), {p})
<1> DEFINE u == Join(t, a, p)
<1>1. e \in Delegatees BY DEF Delegatees
<1>2. e[a] = p /\ \A b \in Delegator \ {a} : e[b] = d[b] BY DEF Delegatees
<1>3. /\ t = [delegations |-> t.delegations, sizes |-> t.sizes, summary |-> t.summary]
      /\ t.delegations = [b \in Delegating(d) |-> d[b]]
      /\ t.sizes \in [UsedPools(d) -> SizeRow]
      /\ \A q \in UsedPools(d) : t.sizes[q].total = Cardinality(Members(d, q))
      /\ \/ t.summary = Cardinality(UsedPools(d))
         \/ t.summary = NoRow /\ UsedPools(d) = {}
  BY DEF Mirrors
<1>4. p # NoOne BY DelegationsAssumption
<1>5. Delegating(e) = Delegating(d) \cup {a} BY <1>2, <1>4 DEF Delegating
<1>6. With(t.delegations, a, p) = [b \in Delegating(e) |-> e[b]]
  <2>1. DOMAIN t.delegations \cup {a} = Delegating(e) BY <1>3, <1>5
  <2>2. \A b \in Delegating(e) : (IF b = a THEN p ELSE t.delegations[b]) = e[b]
    BY <1>2, <1>3, <1>5 DEF Delegating
  <2> QED BY <2>1, <2>2 DEF With
<1>7. Members(e, p) = Members(d, p) \cup {a} BY <1>2 DEF Members
<1>8. a \notin Members(d, p) BY <1>4 DEF Members
<1>9. ASSUME NEW q \in Pool, q # p PROVE Members(e, q) = Members(d, q)
  <2>1. q # NoOne BY DelegationsAssumption
  <2> QED BY <1>2, <1>9, <2>1 DEF Members
<1>10. /\ IsFiniteSet(Members(d, p)) /\ Cardinality(Members(d, p)) \in Nat
       /\ IsFiniteSet(UsedPools(d)) /\ Cardinality(UsedPools(d)) \in Nat /\ UsedPools(d) \subseteq Pool
  BY FiniteTables
<1>11. Cardinality(Members(e, p)) = Cardinality(Members(d, p)) + 1
  <2>1. Cardinality(Members(d, p) \cup {a}) = Cardinality(Members(d, p)) + 1 BY <1>8, <1>10, FS_AddElement
  <2> QED BY <1>7, <2>1
<1>12. ASSUME NEW q \in Pool, q # p PROVE q \in UsedPools(e) <=> q \in UsedPools(d)
  BY <1>1, <1>9, <1>12, UsedPoolsHaveMembers
<1>13. UsedPools(e) \subseteq Pool BY <1>1, FiniteTables
<1>14. p \in UsedPools(e) BY <1>1, <1>7, UsedPoolsHaveMembers
<1>15. UsedPools(e) = UsedPools(d) \cup {p} BY <1>10, <1>12, <1>13, <1>14
<1>16. CASE p \in DOMAIN t.sizes
  <2>1. p \in UsedPools(d) /\ UsedPools(e) = UsedPools(d) BY <1>3, <1>15, <1>16
  <2>2. u = [t EXCEPT !.delegations = With(@, a, p), !.sizes[p].total = @ + 1] BY <1>16 DEF Join
  <2>3. /\ u.delegations = With(t.delegations, a, p) /\ u.summary = t.summary
        /\ u.sizes = [t.sizes EXCEPT ![p].total = @ + 1]
        /\ u = [delegations |-> u.delegations, sizes |-> u.sizes, summary |-> u.summary]
    BY <1>3, <2>2
  <2> HIDE DEF u
  <2>4. t.sizes[p] \in SizeRow /\ t.sizes[p].total = Cardinality(Members(d, p)) BY <1>3, <2>1
  <2>5. t.sizes[p].total \in Nat /\ t.sizes[p].total + 1 \in Nat BY <1>10, <2>4
  <2>6. /\ u.sizes \in [UsedPools(e) -> SizeRow]
        /\ u.sizes[p].total = t.sizes[p].total + 1 /\ u.sizes[p].size = t.sizes[p].size
        /\ \A q \in UsedPools(e) \ {p} : u.sizes[q] = t.sizes[q]
    <3>1. PICK r : r = [t.sizes[p] EXCEPT !.total = @ + 1] OBVIOUS
    <3>2. r \in SizeRow /\ r.total = t.sizes[p].total + 1 /\ r.size = t.sizes[p].size
      BY <2>4, <2>5, <3>1 DEF SizeRow
    <3>3. u.sizes = [t.sizes EXCEPT ![p] = r] BY <1>3, <2>3, <3>1
    <3>4. u.sizes[p] = r /\ \A q \in UsedPools(e) \ {p} : u.sizes[q] = t.sizes[q] BY <1>3, <2>1, <3>3
    <3>5. u.sizes \in [UsedPools(e) -> SizeRow] BY <1>3, <2>1, <3>2, <3>3
    <3> QED BY <3>2, <3>4, <3>5
  <2>7. \A q \in UsedPools(e) : u.sizes[q].total = Cardinality(Members(e, q))
    <3> SUFFICES ASSUME NEW q \in UsedPools(e) PROVE u.sizes[q].total = Cardinality(Members(e, q)) OBVIOUS
    <3>1. CASE q = p BY <1>11, <2>4, <2>6, <3>1
    <3>2. CASE q # p BY <1>3, <1>9, <1>13, <2>1, <2>6, <3>2
    <3> QED BY <3>1, <3>2
  <2>8. Mirrors(u, e) BY <1>3, <1>6, <2>1, <2>3, <2>6, <2>7 DEF Mirrors
  <2>9. SizesStay(t, u, {p})
    <3>1. DOMAIN u.sizes = UsedPools(e) /\ DOMAIN t.sizes = UsedPools(e) BY <1>3, <2>1, <2>6
    <3> QED BY <2>6, <3>1 DEF SizesStay
  <2> QED BY <1>1, <2>8, <2>9 DEF u
<1>17. CASE p \notin DOMAIN t.sizes
  <2>1. p \notin UsedPools(d) BY <1>3, <1>17
  <2>2. Members(d, p) = {} BY <2>1, UsedPoolsHaveMembers
  <2>3. Cardinality(Members(d, p)) = 0 BY <2>2, FS_EmptySet
  <2>4. u = [delegations |-> With(t.delegations, a, p), sizes |-> With(t.sizes, p, [total |-> 1, size |-> 0]),
             summary |-> IF t.summary = NoRow THEN 1 ELSE t.summary + 1]
    BY <1>17 DEF Join
  <2>5. /\ u.delegations = With(t.delegations, a, p) /\ u.sizes = With(t.sizes, p, [total |-> 1, size |-> 0])
        /\ u = [delegations |-> u.delegations, sizes |-> u.sizes, summary |-> u.summary]
        /\ u.summary = IF t.summary = NoRow THEN 1 ELSE t.summary + 1
    BY <2>4
  <2> HIDE DEF u
  <2>6. PICK r : r = [total |-> 1, size |-> 0] OBVIOUS
  <2>7. r \in SizeRow /\ r.total = 1 BY <2>6 DEF SizeRow
  <2>8. u.sizes = [q \in UsedPools(e) |-> IF q = p THEN r ELSE t.sizes[q]] BY <1>3, <1>15, <2>5, <2>6 DEF With
  <2>9. u.sizes \in [UsedPools(e) -> SizeRow] BY <1>3, <1>15, <2>7, <2>8
  <2>10. \A q \in UsedPools(e) : u.sizes[q].total = Cardinality(Members(e, q))
    <3> SUFFICES ASSUME NEW q \in UsedPools(e) PROVE u.sizes[q].total = Cardinality(Members(e, q)) OBVIOUS
    <3>1. CASE q = p BY <1>11, <2>3, <2>7, <2>8, <3>1
    <3>2. CASE q # p BY <1>3, <1>9, <1>13, <1>15, <2>8, <3>2
    <3> QED BY <3>1, <3>2
  <2>11. Cardinality(UsedPools(e)) = Cardinality(UsedPools(d)) + 1
    <3>1. Cardinality(UsedPools(d) \cup {p}) = Cardinality(UsedPools(d)) + 1 BY <1>10, <2>1, FS_AddElement
    <3> QED BY <1>15, <3>1
  <2>12. u.summary = Cardinality(UsedPools(e))
    <3>1. CASE t.summary = NoRow
      <4>1. UsedPools(d) = {} BY <1>3, <1>10, <3>1 DEF NoRow
      <4>2. Cardinality(UsedPools(d)) = 0 BY <4>1, FS_EmptySet
      <4> QED BY <2>5, <2>11, <3>1, <4>2
    <3>2. CASE t.summary # NoRow BY <1>3, <2>5, <2>11, <3>2
    <3> QED BY <3>1, <3>2
  <2>13. Mirrors(u, e) BY <1>6, <2>5, <2>9, <2>10, <2>12 DEF Mirrors
  <2>14. SizesStay(t, u, {p}) BY <1>3, <1>15, <2>8 DEF SizesStay
  <2> QED BY <1>1, <2>13, <2>14 DEF u
<1> QED BY <1>16, <1>17

\* One switch.
LEMMA SwitchMirrors ==
    ASSUME NEW d \in Delegatees, NEW t, Mirrors(t, d), NEW s, s.who \in Delegator, s.to \in Pool \cup {NoOne},
           NEW e, e = [d EXCEPT ![s.who] = s.to]
    PROVE  e \in Delegatees /\ Mirrors(SaveSwitch(t, s), e) /\ SizesStay(t, SaveSwitch(t, s), {s.to})
<1>1. PICK a \in Delegator : a = s.who OBVIOUS
<1>2. PICK c : c = [d EXCEPT ![a] = NoOne] OBVIOUS
<1>3. PICK u : u = Leave(t, a) OBVIOUS
<1>4. c \in Delegatees /\ Mirrors(u, c) /\ SizesStay(t, u, {}) BY <1>2, <1>3, LeaveMirrors
<1>5. CASE s.to = NoOne
  <2>1. SaveSwitch(t, s) = u BY <1>1, <1>3, <1>5 DEF SaveSwitch
  <2>2. e = c BY <1>1, <1>2, <1>5
  <2>3. SizesStay(t, u, {s.to}) BY <1>4 DEF SizesStay
  <2> QED BY <1>4, <2>1, <2>2, <2>3
<1>6. CASE s.to # NoOne
  <2>1. PICK p \in Pool : p = s.to BY <1>6
  <2>2. c[a] = NoOne BY <1>2 DEF Delegatees
  <2>3. PICK f : f = [c EXCEPT ![a] = p] OBVIOUS
  <2>4. PICK v : v = Join(u, a, p) OBVIOUS
  <2>5. f \in Delegatees /\ Mirrors(v, f) /\ SizesStay(u, v, {p}) BY <1>4, <2>2, <2>3, <2>4, JoinMirrors
  <2>6. SaveSwitch(t, s) = v BY <1>1, <1>3, <1>6, <2>1, <2>4 DEF SaveSwitch
  <2>7. e = f BY <1>1, <1>2, <2>1, <2>3 DEF Delegatees
  <2>8. SizesStay(t, v, {p}) BY <1>4, <2>5 DEF SizesStay
  <2> QED BY <2>1, <2>5, <2>6, <2>7, <2>8
<1> QED BY <1>5, <1>6

\* Delegations after some have switched.
Switched(d, new, who) == [a \in Delegator |-> IF a \in who THEN new[a] ELSE d[a]]

\* All the switches of a block, each to the delegatee after the block.
LEMMA SwitchesMirror ==
    ASSUME NEW d \in Delegatees, NEW new \in Delegatees, NEW t, Mirrors(t, d),
           NEW s, Len(s) \in Nat, \A i \in 1 .. Len(s) : s[i].who \in Delegator /\ s[i].to = new[s[i].who],
           NEW who, who = {s[i].who : i \in 1 .. Len(s)}
    PROVE  /\ Mirrors(SaveSwitches(t, s)[Len(s)], Switched(d, new, who))
           /\ SizesStay(t, SaveSwitches(t, s)[Len(s)], {new[a] : a \in who})
<1> DEFINE f == SaveSwitches(t, s)
           W(i) == {s[j].who : j \in 1 .. i}
           OK(i) == /\ Mirrors(f[i], Switched(d, new, W(i))) /\ Switched(d, new, W(i)) \in Delegatees
                    /\ SizesStay(t, f[i], {new[a] : a \in W(i)})
           P == {i \in Nat : i <= Len(s) => OK(i)}
<1>1. f[0] = t /\ \A i \in 1 .. Len(s) : f[i] = SaveSwitch(f[i - 1], s[i]) BY SwitchByStep
<1> HIDE DEF f
<1>2. 0 \in P
  <2>1. W(0) = {} OBVIOUS
  <2>2. Switched(d, new, {}) = d BY DEF Switched, Delegatees
  <2>3. SizesStay(t, t, {new[a] : a \in {}}) BY DEF SizesStay
  <2> QED BY <1>1, <2>1, <2>2, <2>3
<1>3. ASSUME NEW i \in Nat, i \in P PROVE i + 1 \in P
  <2> SUFFICES ASSUME i + 1 <= Len(s) PROVE OK(i + 1) OBVIOUS
  <2>1. OK(i) BY <1>3
  <2>2. i + 1 \in 1 .. Len(s) /\ (i + 1) - 1 = i OBVIOUS
  <2>3. f[i + 1] = SaveSwitch(f[i], s[i + 1]) BY <1>1, <2>2
  <2>4. PICK x : x = s[i + 1] OBVIOUS
  <2>5. x.who \in Delegator /\ x.to = new[x.who] /\ x.to \in Pool \cup {NoOne} BY <2>2, <2>4 DEF Delegatees
  <2>6. W(i + 1) = W(i) \cup {x.who}
    <3>1. 1 .. (i + 1) = (1 .. i) \cup {i + 1} OBVIOUS
    <3> QED BY <2>4, <3>1
  <2>7. PICK c : c = Switched(d, new, W(i)) OBVIOUS
  <2>8. PICK e : e = [c EXCEPT ![x.who] = x.to] OBVIOUS
  <2>9. PICK g : g = f[i] OBVIOUS
  <2>10. c \in Delegatees /\ Mirrors(g, c) /\ SizesStay(t, g, {new[a] : a \in W(i)}) BY <2>1, <2>7, <2>9
  <2>11. /\ e \in Delegatees /\ Mirrors(SaveSwitch(g, x), e) /\ SizesStay(g, SaveSwitch(g, x), {x.to})
    BY <2>5, <2>8, <2>10, SwitchMirrors
  <2> HIDE DEF W
  <2>12. Switched(d, new, W(i + 1)) = e BY <2>5, <2>6, <2>7, <2>8 DEF Switched
  <2>13. SizesStay(t, SaveSwitch(g, x), {new[a] : a \in W(i + 1)}) BY <2>5, <2>6, <2>10, <2>11 DEF SizesStay
  <2> QED BY <2>3, <2>4, <2>9, <2>11, <2>12, <2>13
<1>4. Len(s) \in P
  <2> HIDE DEF P
  <2> QED BY <1>2, <1>3, NatInd
<1> QED BY <1>4 DEF f

-----------------------------------------------------------------------------
(* What a block switches. *)

\* An order of a finite set has each of its elements.
LEMMA OrderOfSet ==
    ASSUME NEW S, IsFiniteSet(S), NEW f \in SetToSeqs(S)
    PROVE  f \in Seq(S) /\ \A x \in S : \E i \in DOMAIN f : f[i] = x
<1> DEFINE D == 1 .. Cardinality(S)
<1>1. Cardinality(S) \in Nat BY FS_CardinalityType
<1>2. f \in [D -> S] /\ \A i, j \in D : i # j => f[i] # f[j] BY DEF SetToSeqs
<1>3. f \in Seq(S) BY <1>1, <1>2
<1>4. f \in Injection(D, S) BY <1>2 DEF Injection, IsInjective
<1>5. IsFiniteSet(D) /\ Cardinality(D) = Cardinality(S)
  <2>1. IsFiniteSet(D) /\ Cardinality(D) = IF 1 > Cardinality(S) THEN 0 ELSE Cardinality(S) - 1 + 1
    BY <1>1, FS_Interval
  <2> QED BY <1>1, <2>1
<1> HIDE DEF D
<1>6. f \in Surjection(D, S) BY <1>4, <1>5, FS_Injection
<1> QED BY <1>2, <1>3, <1>6 DEF Surjection

SwitchRow == [who : Delegator, to : Pool \cup {NoOne}]

\* A list of the switches of the delegators of S, to where they are in new.
SwitchList(s, new, S) ==
  /\ s \in Seq(SwitchRow)
  /\ \A i \in 1 .. Len(s) : s[i].who \in S /\ s[i].to = new.delegatee[s[i].who]
  /\ \A a \in S : \E i \in 1 .. Len(s) : s[i].who = a

\* Two such lists, one after the other.
LEMMA SwitchListsJoin ==
    ASSUME NEW new, NEW S, NEW T, NEW a, NEW b, SwitchList(a, new, S), SwitchList(b, new, T)
    PROVE  SwitchList(a \o b, new, S \cup T)
<1>1. a \in Seq(SwitchRow) /\ b \in Seq(SwitchRow) BY DEF SwitchList
<1>2. PICK c : c = a \o b OBVIOUS
<1>3. /\ c \in Seq(SwitchRow) /\ Len(a) \in Nat /\ Len(b) \in Nat /\ Len(c) = Len(a) + Len(b)
      /\ \A i \in 1 .. Len(a) : c[i] = a[i]
      /\ \A i \in (Len(a) + 1) .. (Len(a) + Len(b)) : c[i] = b[i - Len(a)]
  BY <1>1, <1>2
<1>4. ASSUME NEW i \in 1 .. Len(c) PROVE c[i].who \in S \cup T /\ c[i].to = new.delegatee[c[i].who]
  <2>1. CASE i <= Len(a)
    <3>1. i \in 1 .. Len(a) /\ c[i] = a[i] BY <1>3, <2>1
    <3> QED BY <3>1 DEF SwitchList
  <2>2. CASE ~(i <= Len(a))
    <3>1. i \in (Len(a) + 1) .. (Len(a) + Len(b)) /\ i - Len(a) \in 1 .. Len(b) BY <1>3, <2>2
    <3>2. c[i] = b[i - Len(a)] BY <1>3, <3>1
    <3> QED BY <3>1, <3>2 DEF SwitchList
  <2> QED BY <2>1, <2>2
<1>5. ASSUME NEW x \in S PROVE \E i \in 1 .. Len(c) : c[i].who = x
  <2>1. PICK i \in 1 .. Len(a) : a[i].who = x BY DEF SwitchList
  <2>2. i \in 1 .. Len(c) /\ c[i] = a[i] BY <1>3
  <2> QED BY <2>1, <2>2
<1>6. ASSUME NEW x \in T PROVE \E i \in 1 .. Len(c) : c[i].who = x
  <2>1. PICK i \in 1 .. Len(b) : b[i].who = x BY DEF SwitchList
  <2>2. PICK j : j = i + Len(a) OBVIOUS
  <2>3. j \in (Len(a) + 1) .. (Len(a) + Len(b)) /\ j \in 1 .. Len(c) /\ j - Len(a) = i BY <1>3, <2>2
  <2>4. c[j] = b[j - Len(a)] BY <1>3, <2>3
  <2> QED BY <2>1, <2>3, <2>4
<1>7. SwitchList(c, new, S \cup T) BY <1>3, <1>4, <1>5, <1>6 DEF SwitchList
<1> QED BY <1>2, <1>7

\* The switches of some delegators, in any order.
LEMMA SwitchesOf ==
    ASSUME NEW S, S \subseteq Delegator, NEW f \in SetToSeqs(S), NEW new, new.delegatee \in Delegatees
    PROVE  SwitchList([i \in DOMAIN f |-> [who |-> f[i], to |-> new.delegatee[f[i]]]], new, S)
<1>1. IsFiniteSet(S) BY DelegationsAssumption, FS_Subset
<1>2. f \in Seq(S) /\ \A x \in S : \E i \in DOMAIN f : f[i] = x BY <1>1, OrderOfSet
<1>3. Len(f) \in Nat /\ DOMAIN f = 1 .. Len(f) /\ \A i \in 1 .. Len(f) : f[i] \in S BY <1>2
<1>4. PICK g : g = [i \in 1 .. Len(f) |-> [who |-> f[i], to |-> new.delegatee[f[i]]]] OBVIOUS
<1>5. \A i \in 1 .. Len(f) : g[i].who = f[i] /\ g[i].to = new.delegatee[f[i]] /\ g[i] \in SwitchRow
  BY <1>3, <1>4 DEF SwitchRow, Delegatees
<1>6. g \in [1 .. Len(f) -> SwitchRow] BY <1>4, <1>5
<1>7. g \in Seq(SwitchRow) /\ Len(g) = Len(f) BY <1>3, <1>6
<1>8. SwitchList(g, new, S) BY <1>2, <1>3, <1>5, <1>7 DEF SwitchList
<1> QED BY <1>3, <1>4, <1>8

\* All the switches of a block.
LEMMA BlockSwitches ==
    ASSUME NEW new, new.delegatee \in Delegatees, NEW L, NEW W, NEW R,
           L \subseteq Delegator, W \subseteq Delegator, R \subseteq Delegator,
           \A a \in L \cup R : new.delegatee[a] = NoOne,
           NEW ks \in SetToSeqs(L), NEW ss \in SetToSeqs(W), NEW rs \in SetToSeqs(R)
    PROVE  SwitchList(DelegationSwitches(ks, ss, rs, new), new, L \cup W \cup R)
<1> DEFINE To(f) == [i \in DOMAIN f |-> [who |-> f[i], to |-> new.delegatee[f[i]]]]
<1>1. SwitchList(To(ks), new, L) /\ SwitchList(To(ss), new, W) /\ SwitchList(To(rs), new, R) BY SwitchesOf
<1>2. IsFiniteSet(L) /\ IsFiniteSet(R) BY DelegationsAssumption, FS_Subset
<1>3. ks \in Seq(L) /\ rs \in Seq(R) BY <1>2, OrderOfSet
<1>4. [i \in DOMAIN ks |-> [who |-> ks[i], to |-> NoOne]] = To(ks)
  <2>1. \A i \in DOMAIN ks : ks[i] \in L BY <1>3
  <2>2. \A i \in DOMAIN ks : new.delegatee[ks[i]] = NoOne BY <2>1
  <2> QED BY <2>2
<1>5. [i \in DOMAIN rs |-> [who |-> rs[i], to |-> NoOne]] = To(rs)
  <2>1. \A i \in DOMAIN rs : rs[i] \in R BY <1>3
  <2>2. \A i \in DOMAIN rs : new.delegatee[rs[i]] = NoOne BY <2>1
  <2> QED BY <2>2
<1>6. DelegationSwitches(ks, ss, rs, new) = To(ks) \o To(ss) \o To(rs) BY <1>4, <1>5 DEF DelegationSwitches
<1> HIDE DEF To
<1>7. PICK x : x = To(ks) \o To(ss) OBVIOUS
<1>8. SwitchList(x, new, L \cup W) BY <1>1, <1>7, SwitchListsJoin
<1>9. SwitchList(x \o To(rs), new, (L \cup W) \cup R) BY <1>1, <1>8, SwitchListsJoin
<1> QED BY <1>6, <1>7, <1>9

-----------------------------------------------------------------------------
(* The sizes of the pools. *)

NodeState ==
  [delegatee : Delegatees, valid : SUBSET (Delegator \cup Pool),
   waiting : UNION {[S -> Pool \cup {NoOne}] : S \in SUBSET Delegator}]

\* A pool has at most one member more than there are delegators: itself.
LEMMA PoolSizeIsBounded ==
    ASSUME NEW n \in NodeState, NEW p PROVE PoolSize(n, p) \in 0 .. (Cardinality(Delegator) + 1)
<1> DEFINE M == {a \in Delegator : n.delegatee[a] = p /\ a \in n.valid}
<1>1. IsFiniteSet(Delegator) BY DelegationsAssumption
<1>2. IsFiniteSet(M) /\ Cardinality(M) <= Cardinality(Delegator) BY <1>1, FS_Subset
<1>3. Cardinality(M) \in Nat /\ Cardinality(Delegator) \in Nat BY <1>1, <1>2, FS_CardinalityType
<1>4. PoolSize(n, p) = Cardinality(M) + (IF p \in n.valid THEN 1 ELSE 0) BY DEF PoolSize
<1> HIDE DEF M
<1> QED BY <1>2, <1>3, <1>4

\* The tables agree with the node, the sizes of the pools too.
Exact(t, n) ==
  /\ Mirrors(t, n.delegatee)
  /\ \A p \in UsedPools(n.delegatee) : t.sizes[p].size = PoolSize(n, p)

\* The members of a pool that is not to be updated are the same before and after.
LEMMA OtherPoolsKeepTheirSize ==
    ASSUME NEW prev \in NodeState, NEW new \in NodeState, NEW s, NEW S, S \subseteq Delegator, SwitchList(s, new, S),
           \A a \in Delegator \ S : new.delegatee[a] = prev.delegatee[a],
           NEW changed, \A x \in (Delegator \cup Pool) \ changed : x \in new.valid <=> x \in prev.valid,
           NEW p \in UsedPools(prev.delegatee), p \notin PoolsToUpdate(s, changed, prev, new)
    PROVE  PoolSize(prev, p) = PoolSize(new, p)
<1> DEFINE affected == {s[i].who : i \in DOMAIN s} \cup changed
<1>1. s \in Seq(SwitchRow) BY DEF SwitchList
<1>2. DOMAIN s = 1 .. Len(s) BY <1>1
<1>3. S \subseteq affected BY <1>2 DEF SwitchList
<1>4. /\ \A a \in affected \cap Delegator : prev.delegatee[a] # p /\ new.delegatee[a] # p
      /\ ~(p \in changed \cap Pool /\ (IsPool(prev, p) \/ IsPool(new, p)))
  BY DEF PoolsToUpdate
<1> HIDE DEF affected
<1>5. changed \subseteq affected BY DEF affected
<1>6. {a \in Delegator : prev.delegatee[a] = p /\ a \in prev.valid} = {a \in Delegator : new.delegatee[a] = p /\ a \in new.valid}
  <2>1. ASSUME NEW a \in Delegator
        PROVE  (prev.delegatee[a] = p /\ a \in prev.valid) <=> (new.delegatee[a] = p /\ a \in new.valid)
    <3>1. CASE a \in affected BY <1>4, <3>1
    <3>2. CASE a \notin affected
      <4>1. a \notin S /\ a \notin changed BY <1>3, <1>5, <3>2
      <4> QED BY <4>1
    <3> QED BY <3>1, <3>2
  <2> QED BY <2>1
<1>7. p \in Pool /\ IsPool(prev, p)
  <2>1. prev.delegatee \in Delegatees BY DEF NodeState
  <2> QED BY <2>1 DEF UsedPools, Delegating, Delegatees, IsPool
<1>8. p \in new.valid <=> p \in prev.valid BY <1>4, <1>7
<1> QED BY <1>6, <1>8 DEF PoolSize

\* What is saved of a block is exact again: the switches are counted one by one,
\* and the sizes that change are written.
LEMMA PoolsSaved ==
    ASSUME NEW prev \in NodeState, NEW new \in NodeState, NEW s, NEW S, S \subseteq Delegator, SwitchList(s, new, S),
           \A a \in Delegator \ S : new.delegatee[a] = prev.delegatee[a],
           NEW changed, \A x \in (Delegator \cup Pool) \ changed : x \in new.valid <=> x \in prev.valid,
           Exact(pools, prev)
    PROVE  Exact(SavePools(s, changed, prev, new), new)
<1> DEFINE some == PoolsToUpdate(s, changed, prev, new)
<1>1. PICK d \in Delegatees : d = prev.delegatee BY DEF NodeState
<1>2. PICK e \in Delegatees : e = new.delegatee BY DEF NodeState
<1>3. PICK t : t = SaveSwitches(pools, s)[Len(s)] OBVIOUS
<1>4. s \in Seq(SwitchRow) /\ Len(s) \in Nat BY DEF SwitchList
<1>5. S = {s[i].who : i \in 1 .. Len(s)} /\ \A i \in 1 .. Len(s) : s[i].who \in Delegator /\ s[i].to = e[s[i].who]
  BY <1>2, <1>4 DEF SwitchList
<1>6. Mirrors(pools, d) BY <1>1 DEF Exact
<1>7. Mirrors(t, Switched(d, e, S)) /\ SizesStay(pools, t, {e[a] : a \in S}) BY <1>3, <1>4, <1>5, <1>6, SwitchesMirror
<1>8. Switched(d, e, S) = e BY <1>1, <1>2 DEF Switched, Delegatees
<1>9. /\ t = [delegations |-> t.delegations, sizes |-> t.sizes, summary |-> t.summary]
      /\ t.delegations = [b \in Delegating(e) |-> e[b]]
      /\ t.sizes \in [UsedPools(e) -> SizeRow]
      /\ \A q \in UsedPools(e) : t.sizes[q].total = Cardinality(Members(e, q))
      /\ \/ t.summary = Cardinality(UsedPools(e))
         \/ t.summary = NoRow /\ UsedPools(e) = {}
  BY <1>7, <1>8 DEF Mirrors
<1>10. PICK z : z = [p \in UsedPools(e) |-> IF p \in some THEN [t.sizes[p] EXCEPT !.size = PoolSize(new, p)] ELSE t.sizes[p]]
  OBVIOUS
<1>11. PICK u : u = SavePools(s, changed, prev, new) OBVIOUS
<1>12. u = [t EXCEPT !.sizes = z] BY <1>3, <1>9, <1>10, <1>11 DEF SavePools
<1>13. /\ u = [delegations |-> u.delegations, sizes |-> u.sizes, summary |-> u.summary]
       /\ u.delegations = t.delegations /\ u.sizes = z /\ u.summary = t.summary
  BY <1>9, <1>12
<1>14. ASSUME NEW p \in UsedPools(e)
       PROVE  z[p] \in SizeRow /\ z[p].total = t.sizes[p].total /\ z[p].size = PoolSize(new, p)
  <2>1. t.sizes[p] \in SizeRow BY <1>9
  <2>2. CASE p \in some
    <3>1. PoolSize(new, p) \in Nat BY PoolSizeIsBounded, DelegationsAssumption, FS_CardinalityType
    <3>2. z[p] = [t.sizes[p] EXCEPT !.size = PoolSize(new, p)] BY <1>10, <2>2
    <3> QED BY <2>1, <3>1, <3>2 DEF SizeRow
  <2>3. CASE p \notin some
    <3>1. z[p] = t.sizes[p] BY <1>10, <2>3
    <3>2. p \in DOMAIN t.sizes BY <1>9
    <3>3. p \notin {e[a] : a \in S} BY <1>2, <1>4, <2>3 DEF PoolsToUpdate, SwitchList
    <3>4. p \in DOMAIN pools.sizes /\ t.sizes[p].size = pools.sizes[p].size BY <1>7, <3>2, <3>3 DEF SizesStay
    <3>5. p \in UsedPools(prev.delegatee) BY <1>1, <1>6, <3>4 DEF Mirrors
    <3>6. pools.sizes[p].size = PoolSize(prev, p) BY <3>5 DEF Exact
    <3>7. PoolSize(prev, p) = PoolSize(new, p) BY <2>3, <3>5, OtherPoolsKeepTheirSize
    <3> QED BY <2>1, <3>1, <3>4, <3>6, <3>7
  <2> QED BY <2>2, <2>3
<1>15. z \in [UsedPools(e) -> SizeRow] BY <1>10, <1>14
<1>16. Mirrors(u, e) BY <1>9, <1>13, <1>14, <1>15 DEF Mirrors
<1> QED BY <1>2, <1>11, <1>13, <1>14, <1>16 DEF Exact

-----------------------------------------------------------------------------
(* The steps. *)

\* The tables agree with the node, or are empty until they are restored.
PoolsInv ==
  /\ node \in NodeState
  /\ (restored = TRUE /\ Exact(pools, node)) \/ (restored = FALSE /\ pools = EmptyPools)
  /\ \E S : snap \in Seq(S)
  /\ Len(snap) <= MaxHeight
  /\ \A i \in 1 .. Len(snap) : snap[i].node \in NodeState
  /\ floor \in 0 .. MaxHeight /\ txs \in 0 .. MaxTx /\ resets \in 0 .. MaxResets

\* A switch may be put among those that wait.
LEMMA NodeWaits ==
    ASSUME NEW n \in NodeState, NEW a \in Delegator, NEW to \in Pool \cup {NoOne}
    PROVE  /\ [n EXCEPT !.waiting = With(@, a, to)] \in NodeState
           /\ [n EXCEPT !.waiting = With(@, a, to)].waiting = With(n.waiting, a, to)
           /\ [n EXCEPT !.waiting = With(@, a, to)].delegatee = n.delegatee
           /\ [n EXCEPT !.waiting = With(@, a, to)].valid = n.valid
           /\ DOMAIN With(n.waiting, a, to) = DOMAIN n.waiting \cup {a}
           /\ \A b \in DOMAIN n.waiting \ {a} : With(n.waiting, a, to)[b] = n.waiting[b]
<1>1. PICK S \in SUBSET Delegator : n.waiting \in [S -> Pool \cup {NoOne}] BY DEF NodeState
<1>2. PICK w : w = With(n.waiting, a, to) OBVIOUS
<1>3. w = [j \in S \cup {a} |-> IF j = a THEN to ELSE n.waiting[j]] BY <1>1, <1>2 DEF With
<1>4. w \in [S \cup {a} -> Pool \cup {NoOne}] /\ S \cup {a} \in SUBSET Delegator BY <1>1, <1>3
<1>5. w \in UNION {[T -> Pool \cup {NoOne}] : T \in SUBSET Delegator} BY <1>4
<1>6. PICK m : m = [n EXCEPT !.waiting = w] OBVIOUS
<1>7. m \in NodeState /\ m.waiting = w /\ m.delegatee = n.delegatee /\ m.valid = n.valid BY <1>5, <1>6 DEF NodeState
<1>8. DOMAIN w = DOMAIN n.waiting \cup {a} /\ \A b \in DOMAIN n.waiting \ {a} : w[b] = n.waiting[b] BY <1>1, <1>3
<1>9. [n EXCEPT !.waiting = With(@, a, to)] = m BY <1>2, <1>6
<1> QED BY <1>2, <1>7, <1>8, <1>9

\* The node after a block that applies what waits.
LEMMA NodeUpdates ==
    ASSUME NEW n \in NodeState, NEW killed, NEW dropped, NEW removed, NEW flipped \in SUBSET (Delegator \cup Pool)
    PROVE  AfterUpdate(n, killed, dropped, removed, flipped) \in NodeState
<1>1. PICK S \in SUBSET Delegator : n.waiting \in [S -> Pool \cup {NoOne}] BY DEF NodeState
<1>2. n.delegatee \in Delegatees /\ n.valid \subseteq Delegator \cup Pool BY DEF NodeState
<1>3. PICK d : d = [a \in Delegator |-> IF a \in killed \cup removed THEN NoOne
                                         ELSE IF a \in DOMAIN n.waiting \ dropped THEN n.waiting[a]
                                         ELSE n.delegatee[a]]
  OBVIOUS
<1>4. \A a \in DOMAIN n.waiting : n.waiting[a] \in Pool \cup {NoOne} BY <1>1
<1>5. d \in Delegatees BY <1>2, <1>3, <1>4 DEF Delegatees
<1>6. PICK v : v = ((n.valid \cup flipped) \ (n.valid \cap flipped)) \ killed OBVIOUS
<1>7. v \in SUBSET (Delegator \cup Pool) BY <1>2, <1>6
<1>8. PICK w : w = Without(n.waiting, DOMAIN n.waiting) OBVIOUS
<1>9. w \in [{} -> Pool \cup {NoOne}] BY <1>8 DEF Without
<1>10. w \in UNION {[T -> Pool \cup {NoOne}] : T \in SUBSET Delegator} BY <1>9
<1>11. AfterUpdate(n, killed, dropped, removed, flipped) = [delegatee |-> d, valid |-> v, waiting |-> w]
  BY <1>3, <1>6, <1>8 DEF AfterUpdate
<1> QED BY <1>5, <1>7, <1>10, <1>11 DEF NodeState

\* What a saved block does to the node and its snapshots.
LEMMA CommitKeeps ==
    ASSUME PoolsInv, NEW new \in NodeState, NEW updates, Commit(new, updates)
    PROVE  /\ restored = TRUE /\ restored' = TRUE /\ resets' = resets /\ node' = new
           /\ \E S : snap' \in Seq(S)
           /\ Len(snap)' <= MaxHeight
           /\ \A i \in 1 .. Len(snap') : snap'[i].node \in NodeState
           /\ floor' \in 0 .. MaxHeight
<1> DEFINE d == UpdateAll(history, changes, updates, Height + 1)[Len(updates)]
<1>1. restored = TRUE /\ restored' = TRUE /\ resets' = resets /\ node' = new BY DEF PoolsInv, Commit
<1>2. PICK x : x = [node |-> new, history |-> d.rows] OBVIOUS
<1>3. snap' = Append(snap, x) BY <1>2 DEF Commit
<1>4. PICK S : snap \in Seq(S) BY DEF PoolsInv
<1>5. x.node = new BY <1>2
<1> HIDE DEF d
<1>6. snap \in Seq(S \cup {x}) BY <1>4
<1>7. snap' \in Seq(S \cup {x}) /\ Len(snap') = Len(snap) + 1 BY <1>3, <1>6
<1>8. Len(snap) + 1 <= MaxHeight BY DEF Commit, Height
<1>9. ASSUME NEW i \in 1 .. Len(snap') PROVE snap'[i].node \in NodeState
  <2>1. Len(snap) \in Nat BY <1>4
  <2>2. CASE i <= Len(snap)
    <3>1. i \in 1 .. Len(snap) /\ snap'[i] = snap[i] BY <1>3, <1>6, <1>7, <2>1, <2>2
    <3> QED BY <3>1 DEF PoolsInv
  <2>3. CASE ~(i <= Len(snap))
    <3>1. i = Len(snap) + 1 BY <1>7, <2>1, <2>3
    <3>2. snap'[i] = x BY <1>3, <1>6, <3>1
    <3> QED BY <1>5, <3>2
  <2> QED BY <2>2, <2>3
<1>10. floor' \in 0 .. MaxHeight
  <2>1. ChangesBlocksCount \in Nat \ {0} /\ MaxHeight \in Nat BY DelegationsAssumption
  <2>2. PICK o : o = (Height + 1) - ChangesBlocksCount OBVIOUS
  <2>3. floor' = IF o > floor THEN o ELSE floor BY <2>2, Zenon DEF Commit
  <2>4. floor \in 0 .. MaxHeight /\ Len(snap) \in Nat BY <1>4 DEF PoolsInv
  <2>5. o \in Int /\ o <= MaxHeight BY <1>8, <2>1, <2>2, <2>4 DEF Height
  <2> QED BY <2>1, <2>3, <2>4, <2>5
<1> QED BY <1>1, <1>7, <1>8, <1>9, <1>10

\* A block with a transaction changes nobody's delegatee.
LEMMA TxBlockKeepsPools ==
    ASSUME PoolsInv, NEW a \in Delegator, NEW to \in Pool \cup {NoOne}, SaveTxBlock(a, to) PROVE PoolsInv'
<1>1. PICK new : new = [node EXCEPT !.waiting = With(@, a, to)] OBVIOUS
<1>2. node \in NodeState BY DEF PoolsInv
<1>3. new \in NodeState /\ new.delegatee = node.delegatee /\ new.valid = node.valid BY <1>1, <1>2, NodeWaits
<1>4. PICK updates : Commit(new, updates) BY <1>1 DEF SaveTxBlock
<1>5. /\ restored = TRUE /\ restored' = TRUE /\ resets' = resets /\ node' = new
      /\ \E S : snap' \in Seq(S)
      /\ Len(snap)' <= MaxHeight
      /\ \A i \in 1 .. Len(snap') : snap'[i].node \in NodeState
      /\ floor' \in 0 .. MaxHeight
  BY <1>3, <1>4, CommitKeeps
<1>6. pools' = pools /\ txs' = txs + 1 /\ txs < MaxTx BY DEF SaveTxBlock
<1>7. Exact(pools, node) BY <1>5 DEF PoolsInv
<1>8. \A p : PoolSize(new, p) = PoolSize(node, p) BY <1>3 DEF PoolSize
<1>9. Exact(pools', new) BY <1>3, <1>6, <1>7, <1>8 DEF Exact
<1>10. txs' \in 0 .. MaxTx
  <2>1. MaxTx \in Nat BY DelegationsAssumption
  <2> QED BY <1>6, <2>1 DEF PoolsInv
<1>11. resets' \in 0 .. MaxResets BY <1>5 DEF PoolsInv
<1> QED BY <1>3, <1>5, <1>9, <1>10, <1>11 DEF PoolsInv

\* The node as it is when a block applies what waits: with what the block sends.
ToApply(sent) ==
  IF sent = << >> THEN node ELSE [node EXCEPT !.waiting = With(@, sent[1].who, sent[1].to)]

SentBy == {<< >>} \cup {<<[who |-> a, to |-> p]>> : a \in Delegator, p \in Pool \cup {NoOne}}

\* What is sent is among what waits.
LEMMA SentWaits ==
    ASSUME node \in NodeState, NEW sent \in SentBy
    PROVE  /\ ToApply(sent) \in NodeState /\ ToApply(sent).delegatee = node.delegatee
           /\ ToApply(sent).valid = node.valid
           /\ \A a \in DOMAIN ToApply(sent).waiting \ DOMAIN node.waiting :
                a \in Delegator /\ sent # << >> /\ 1 \in DOMAIN sent /\ sent[1].who = a
<1>1. CASE sent = << >> BY <1>1 DEF ToApply
<1>2. CASE sent # << >>
  <2>1. PICK a \in Delegator, p \in Pool \cup {NoOne} : sent = <<[who |-> a, to |-> p]>> BY <1>2 DEF SentBy
  <2>2. sent[1].who = a /\ sent[1].to = p /\ 1 \in DOMAIN sent BY <2>1
  <2>3. ToApply(sent) = [node EXCEPT !.waiting = With(@, a, p)] BY <1>2, <2>2 DEF ToApply
  <2>4. /\ ToApply(sent) \in NodeState /\ ToApply(sent).delegatee = node.delegatee
        /\ ToApply(sent).valid = node.valid
        /\ ToApply(sent).waiting = With(node.waiting, a, p)
        /\ DOMAIN With(node.waiting, a, p) = DOMAIN node.waiting \cup {a}
    BY <2>3, NodeWaits
  <2> QED BY <1>2, <2>2, <2>4
<1> QED BY <1>1, <1>2

Leaving(killed) == {a \in killed : node.delegatee[a] # NoOne}

Candidates(sent, killed, new) ==
  (DOMAIN node.waiting \ killed) \cup LeftOver(sent, killed \cup DOMAIN node.waiting, node, new)

Switching(sent, killed, new) == {a \in Candidates(sent, killed, new) : Detected(a, node, new)}

\* Who is not among those a block switches delegates as before.
LEMMA OthersKeepTheirDelegatee ==
    ASSUME node \in NodeState, NEW sent \in SentBy, NEW killed \in SUBSET Delegator, NEW dropped, NEW removed,
           NEW flipped, NEW new, new = AfterUpdate(ToApply(sent), killed, dropped, removed, flipped),
           NEW a \in Delegator, a \notin Leaving(killed) \cup Switching(sent, killed, new) \cup removed
    PROVE  new.delegatee[a] = node.delegatee[a]
<1> DEFINE n == ToApply(sent)
<1>1. /\ n \in NodeState /\ n.delegatee = node.delegatee
      /\ \A b \in DOMAIN n.waiting \ DOMAIN node.waiting :
           b \in Delegator /\ sent # << >> /\ 1 \in DOMAIN sent /\ sent[1].who = b
  BY SentWaits
<1> HIDE DEF n
<1>2. new.delegatee[a] = IF a \in killed \cup removed THEN NoOne
                         ELSE IF a \in DOMAIN n.waiting \ dropped THEN n.waiting[a] ELSE n.delegatee[a]
  BY DEF AfterUpdate, n
<1>3. CASE a \in killed BY <1>2, <1>3 DEF Leaving
<1>4. CASE a \notin killed /\ a \notin DOMAIN n.waiting BY <1>1, <1>2, <1>4
<1>5. CASE a \notin killed /\ a \in DOMAIN node.waiting
  <2>1. ~Detected(a, node, new) BY <1>5 DEF Switching, Candidates
  <2> QED BY <2>1 DEF Detected
<1>6. CASE a \notin killed /\ a \in DOMAIN n.waiting \ DOMAIN node.waiting
  <2>1. 1 \in DOMAIN sent /\ sent[1].who = a BY <1>1, <1>6
  <2>2. Detected(a, node, new) => a \in LeftOver(sent, killed \cup DOMAIN node.waiting, node, new)
    BY <1>6, <2>1 DEF LeftOver
  <2>3. ~Detected(a, node, new) BY <2>2 DEF Switching, Candidates
  <2> QED BY <2>3 DEF Detected
<1> QED BY <1>3, <1>4, <1>5, <1>6

\* A block that applies what waits: every switch is saved and every size written.
LEMMA UpdateBlockKeepsPools ==
    ASSUME PoolsInv, NEW sent \in SentBy, NEW killed \in SUBSET Delegator, NEW dropped \in SUBSET Delegator,
           NEW removed \in SUBSET {a \in Delegator : node.delegatee[a] # NoOne},
           NEW flipped \in SUBSET (Delegator \cup Pool),
           SaveUpdateBlock(sent, killed, dropped, removed, flipped)
    PROVE  PoolsInv'
<1> DEFINE n == ToApply(sent)
<1>1. PICK new : new = AfterUpdate(n, killed, dropped, removed, flipped) OBVIOUS
<1>2. PICK L : L = Leaving(killed) OBVIOUS
<1>3. PICK C : C = Candidates(sent, killed, new) OBVIOUS
<1>4. PICK W : W = Switching(sent, killed, new) OBVIOUS
<1>5. /\ txs + Len(sent) <= MaxTx /\ txs' = txs + Len(sent)
      /\ \E ks \in SetToSeqs(L), rs \in SetToSeqs(removed) :
           /\ \E ss \in SetToSeqs(W) :
                pools' = SavePools(DelegationSwitches(ks, ss, rs, new), killed \cup flipped, node, new)
           /\ \E updates : Commit(new, updates)
  BY <1>1, <1>2, <1>3, <1>4 DEF SaveUpdateBlock, ToApply, Leaving, Candidates, Switching
<1>6. PICK ks \in SetToSeqs(L), rs \in SetToSeqs(removed), ss \in SetToSeqs(W) :
        /\ pools' = SavePools(DelegationSwitches(ks, ss, rs, new), killed \cup flipped, node, new)
        /\ \E updates : Commit(new, updates)
  BY <1>5
<1>7. node \in NodeState BY DEF PoolsInv
<1>8. n \in NodeState /\ n.delegatee = node.delegatee /\ n.valid = node.valid BY <1>7, SentWaits
<1> HIDE DEF n
<1>9. new \in NodeState BY <1>1, <1>8, NodeUpdates
<1>10. PICK updates : Commit(new, updates) BY <1>6
<1>11. /\ restored = TRUE /\ restored' = TRUE /\ resets' = resets /\ node' = new
       /\ \E S : snap' \in Seq(S)
       /\ Len(snap)' <= MaxHeight
       /\ \A i \in 1 .. Len(snap') : snap'[i].node \in NodeState
       /\ floor' \in 0 .. MaxHeight
  BY <1>9, <1>10, CommitKeeps
<1>12. new.delegatee \in Delegatees BY <1>9 DEF NodeState
<1>13. L \subseteq Delegator /\ W \subseteq Delegator /\ removed \subseteq Delegator
  <2>1. DOMAIN node.waiting \subseteq Delegator BY <1>7 DEF NodeState
  <2>2. LeftOver(sent, killed \cup DOMAIN node.waiting, node, new) \subseteq Delegator BY DEF LeftOver
  <2> QED BY <1>2, <1>4, <2>1, <2>2 DEF Leaving, Candidates, Switching
<1>14. \A a \in L \cup removed : new.delegatee[a] = NoOne
  <2>1. \A a \in L \cup removed : a \in killed \cup removed /\ a \in Delegator BY <1>2, <1>13 DEF Leaving
  <2> QED BY <1>1, <2>1 DEF AfterUpdate
<1>15. PICK s : s = DelegationSwitches(ks, ss, rs, new) OBVIOUS
<1>16. PICK S : S = L \cup W \cup removed OBVIOUS
<1>17. SwitchList(s, new, S) /\ S \subseteq Delegator BY <1>12, <1>13, <1>14, <1>15, <1>16, BlockSwitches
<1>18. \A a \in Delegator \ S : new.delegatee[a] = node.delegatee[a]
  <2> SUFFICES ASSUME NEW a \in Delegator, a \notin L \cup W \cup removed PROVE new.delegatee[a] = node.delegatee[a]
    BY <1>16
  <2>1. new = AfterUpdate(ToApply(sent), killed, dropped, removed, flipped) BY <1>1 DEF n
  <2>2. a \notin Leaving(killed) \cup Switching(sent, killed, new) \cup removed BY <1>2, <1>4
  <2> QED BY <1>7, <2>1, <2>2, OthersKeepTheirDelegatee
<1>19. PICK changed : changed = killed \cup flipped OBVIOUS
<1>20. \A x \in (Delegator \cup Pool) \ changed : x \in new.valid <=> x \in node.valid
  BY <1>1, <1>8, <1>19 DEF AfterUpdate
<1>21. Exact(pools, node) BY <1>11 DEF PoolsInv
<1>22. Exact(SavePools(s, changed, node, new), new) BY <1>7, <1>9, <1>17, <1>18, <1>20, <1>21, PoolsSaved
<1>23. Exact(pools', new) BY <1>6, <1>15, <1>19, <1>22
<1>24. txs' \in 0 .. MaxTx
  <2>1. Len(sent) \in Nat BY DEF SentBy
  <2>2. MaxTx \in Nat BY DelegationsAssumption
  <2> QED BY <1>5, <2>1, <2>2 DEF PoolsInv
<1>25. resets' \in 0 .. MaxResets BY <1>11 DEF PoolsInv
<1> QED BY <1>9, <1>11, <1>23, <1>24, <1>25 DEF PoolsInv

\* A reset goes back to a state of the node that was recorded, with empty tables.
LEMMA ResetKeepsPools == ASSUME PoolsInv, NEW p, ResetTo(p) PROVE PoolsInv'
<1>1. PICK S : snap \in Seq(S) BY DEF PoolsInv
<1>2. floor \in 0 .. MaxHeight /\ Len(snap) \in Nat /\ Len(snap) <= MaxHeight BY <1>1 DEF PoolsInv
<1>3. /\ resets < MaxResets /\ p \in floor .. Len(snap) - 1 /\ snap' = SubSeq(snap, 1, p)
      /\ node' = (IF p = 0 THEN Genesis ELSE snap[p].node) /\ pools' = EmptyPools /\ restored' = FALSE
      /\ resets' = resets + 1 /\ floor' = floor /\ txs' = txs
  BY DEF ResetTo, Height
<1>4. p \in 0 .. Len(snap) BY <1>2, <1>3
<1>5. /\ snap' \in Seq(S) /\ Len(snap') = p /\ \A i \in 1 .. p : snap'[i] = snap[i] BY <1>1, <1>3, <1>4
<1>6. \A i \in 1 .. Len(snap') : snap'[i].node \in NodeState
  <2>1. \A i \in 1 .. p : i \in 1 .. Len(snap) BY <1>4
  <2> QED BY <1>5, <2>1 DEF PoolsInv
<1>7. Genesis \in NodeState
  <2>1. [a \in Delegator |-> NoOne] \in Delegatees BY DEF Delegatees
  <2>2. [a \in {} |-> NoOne] \in [{} -> Pool \cup {NoOne}] OBVIOUS
  <2>3. [a \in {} |-> NoOne] \in UNION {[T -> Pool \cup {NoOne}] : T \in SUBSET Delegator} BY <2>2
  <2> QED BY <2>1, <2>3 DEF Genesis, NodeState
<1>8. node' \in NodeState
  <2>1. CASE p = 0 BY <1>3, <1>7, <2>1
  <2>2. CASE p # 0
    <3>1. p \in 1 .. Len(snap) BY <1>4, <2>2
    <3> QED BY <1>3, <2>2, <3>1 DEF PoolsInv
  <2> QED BY <2>1, <2>2
<1>9. Len(snap') <= MaxHeight BY <1>2, <1>4, <1>5, DelegationsAssumption
<1>10. resets' \in 0 .. MaxResets
  <2>1. MaxResets \in Nat BY DelegationsAssumption
  <2> QED BY <1>3, <2>1 DEF PoolsInv
<1>11. floor' \in 0 .. MaxHeight /\ txs' \in 0 .. MaxTx BY <1>3 DEF PoolsInv
<1> QED BY <1>3, <1>5, <1>6, <1>8, <1>9, <1>10, <1>11 DEF PoolsInv

\* The tables are filled from the node.
LEMMA RestoreKeepsPools == ASSUME PoolsInv, Restore PROVE PoolsInv'
<1>1. node \in NodeState /\ node.delegatee \in Delegatees BY DEF PoolsInv, NodeState
<1>2. PICK d \in Delegatees : d = node.delegatee BY <1>1
<1>3. PICK z : z = [p \in UsedPools(d) |-> [total |-> Cardinality(Members(d, p)), size |-> PoolSize(node, p)]] OBVIOUS
<1>4. ASSUME NEW p \in UsedPools(d) PROVE {a \in Delegating(d) : d[a] = p} = Members(d, p)
  <2>1. p # NoOne BY DEF UsedPools, Delegating
  <2> QED BY <2>1 DEF Delegating, Members
<1>5. PICK u : u = [delegations |-> [a \in Delegating(d) |-> d[a]], sizes |-> z, summary |-> Cardinality(UsedPools(d))]
  OBVIOUS
<1>6. pools' = u
  <2>1. Delegating(d) = {a \in Delegator : node.delegatee[a] # NoOne} BY <1>2 DEF Delegating
  <2>2. UsedPools(d) = {node.delegatee[a] : a \in Delegating(d)} BY <1>2 DEF UsedPools
  <2>3. pools' = [delegations |-> [a \in Delegating(d) |-> d[a]],
                  sizes |-> [p \in UsedPools(d) |-> [total |-> Cardinality({a \in Delegating(d) : d[a] = p}),
                                                     size |-> PoolSize(node, p)]],
                  summary |-> Cardinality(UsedPools(d))]
    BY <1>2, <2>1, <2>2 DEF Restore
  <2>4. [p \in UsedPools(d) |-> [total |-> Cardinality({a \in Delegating(d) : d[a] = p}), size |-> PoolSize(node, p)]] = z
    BY <1>3, <1>4
  <2> QED BY <1>5, <2>3, <2>4
<1>7. ASSUME NEW p \in UsedPools(d)
      PROVE  z[p] \in SizeRow /\ z[p].total = Cardinality(Members(d, p)) /\ z[p].size = PoolSize(node, p)
  <2>1. PoolSize(node, p) \in Nat BY <1>1, PoolSizeIsBounded, DelegationsAssumption, FS_CardinalityType
  <2>2. Cardinality(Members(d, p)) \in Nat BY FiniteTables
  <2> QED BY <1>3, <2>1, <2>2 DEF SizeRow
<1>8. z \in [UsedPools(d) -> SizeRow] BY <1>3, <1>7
<1>9. /\ u.delegations = [a \in Delegating(d) |-> d[a]] /\ u.sizes = z /\ u.summary = Cardinality(UsedPools(d))
      /\ u = [delegations |-> u.delegations, sizes |-> u.sizes, summary |-> u.summary]
  BY <1>5
<1>10. Mirrors(u, d) BY <1>7, <1>8, <1>9 DEF Mirrors
<1>11. Exact(pools', node) BY <1>2, <1>6, <1>7, <1>9, <1>10 DEF Exact
<1>12. restored' = TRUE /\ UNCHANGED <<node, history, changes, snap, floor, txs, resets>> BY DEF Restore
<1> QED BY <1>11, <1>12 DEF PoolsInv

\* Nobody delegates below block 1.
LEMMA PoolsInvInit == Init => PoolsInv
<1> SUFFICES ASSUME Init PROVE PoolsInv OBVIOUS
<1>1. PICK d : d = [a \in Delegator |-> NoOne] OBVIOUS
<1>2. node = [delegatee |-> d, valid |-> Delegator \cup Pool, waiting |-> [a \in {} |-> NoOne]] /\ node.delegatee = d
  BY <1>1 DEF Init, Genesis
<1>3. d \in Delegatees BY <1>1 DEF Delegatees
<1>4. [a \in {} |-> NoOne] \in [{} -> Pool \cup {NoOne}] OBVIOUS
<1>5. [a \in {} |-> NoOne] \in UNION {[T -> Pool \cup {NoOne}] : T \in SUBSET Delegator} BY <1>4
<1>6. node \in NodeState BY <1>2, <1>3, <1>5 DEF NodeState
<1>7. Delegating(d) = {} /\ UsedPools(d) = {} BY <1>1 DEF Delegating, UsedPools
<1>8. pools.delegations = [a \in {} |-> NoOne] /\ pools.sizes = [p \in {} |-> 0] /\ pools.summary = NoRow
      /\ pools = [delegations |-> pools.delegations, sizes |-> pools.sizes, summary |-> pools.summary]
  BY DEF Init, EmptyPools
<1>9. [a \in {} |-> NoOne] = [a \in {} |-> d[a]] OBVIOUS
<1>10. pools.sizes \in [{} -> SizeRow] BY <1>8
<1>11. Mirrors(pools, d) BY <1>7, <1>8, <1>9, <1>10 DEF Mirrors
<1>12. Exact(pools, node) BY <1>2, <1>7, <1>11 DEF Exact
<1>13. snap = << >> /\ floor = 0 /\ restored = TRUE /\ txs = 0 /\ resets = 0 BY DEF Init
<1>14. snap \in Seq({}) /\ Len(snap) = 0 BY <1>13
<1>15. {MaxHeight, MaxResets, MaxTx} \subseteq Nat BY DelegationsAssumption
<1> QED BY <1>6, <1>12, <1>13, <1>14, <1>15 DEF PoolsInv

\* Every step keeps the tables in agreement with the node.
LEMMA PoolsInvNext == PoolsInv /\ [Next]_vars => PoolsInv'
<1> SUFFICES ASSUME PoolsInv, [Next]_vars PROVE PoolsInv' OBVIOUS
<1>1. CASE \E a \in Delegator, to \in Pool \cup {NoOne} : SaveTxBlock(a, to) BY <1>1, TxBlockKeepsPools
<1>2. CASE UpdateBlock
  <2>1. PICK sent \in {<< >>} \cup {<<[who |-> a, to |-> p]>> :
                                       a \in Delegator, p \in Pool \cup {NoOne}},
             killed \in SUBSET Delegator, dropped \in SUBSET Delegator,
             removed \in SUBSET {a \in Delegator : node.delegatee[a] # NoOne},
             flipped \in SUBSET (Delegator \cup Pool) :
          SaveUpdateBlock(sent, killed, dropped, removed, flipped)
    BY <1>2 DEF UpdateBlock
  <2>2. sent \in SentBy BY <2>1 DEF SentBy
  <2> QED BY <2>1, <2>2, UpdateBlockKeepsPools
<1>3. CASE \E p \in 0 .. MaxHeight : ResetTo(p) BY <1>3, ResetKeepsPools
<1>4. CASE Restore BY <1>4, RestoreKeepsPools
<1>5. CASE UNCHANGED vars BY <1>5 DEF PoolsInv, vars
<1> QED BY <1>1, <1>2, <1>3, <1>4, <1>5 DEF Next

\* The invariant gives the bounds of the columns and the agreement with the node.
LEMMA PoolsInvIsSound == PoolsInv => PoolTablesAreSound
<1> SUFFICES ASSUME PoolsInv PROVE PoolTablesAreSound OBVIOUS
<1>1. PICK S : snap \in Seq(S) BY DEF PoolsInv
<1>2. node \in NodeState BY DEF PoolsInv
<1>3. PICK d \in Delegatees : d = node.delegatee BY <1>2 DEF NodeState
<1>4. node.valid \subseteq Delegator \cup Pool /\ DOMAIN node.waiting \subseteq Delegator BY <1>2 DEF NodeState
<1>5. IsFiniteSet(Delegator) /\ IsFiniteSet(Pool) BY DelegationsAssumption
<1>6. Cardinality(Delegator) \in Nat /\ Cardinality(Pool) \in Nat BY <1>5, FS_CardinalityType
<1>7. CASE restored = TRUE
  <2>1. Mirrors(pools, d) /\ \A p \in UsedPools(d) : pools.sizes[p].size = PoolSize(node, p)
    BY <1>3, <1>7 DEF PoolsInv, Exact
  <2>2. /\ pools.delegations = [a \in Delegating(d) |-> d[a]]
        /\ pools.sizes \in [UsedPools(d) -> SizeRow]
        /\ \A p \in UsedPools(d) : pools.sizes[p].total = Cardinality(Members(d, p))
        /\ \/ pools.summary = Cardinality(UsedPools(d))
           \/ pools.summary = NoRow /\ UsedPools(d) = {}
    BY <2>1 DEF Mirrors
  <2>3. UsedPools(d) \subseteq Pool /\ IsFiniteSet(UsedPools(d)) /\ Cardinality(UsedPools(d)) \in Nat BY FiniteTables
  <2>4. DOMAIN pools.delegations = Delegating(d) /\ DOMAIN pools.sizes = UsedPools(d) BY <2>2
  <2>5. Delegating(d) \subseteq Delegator BY DEF Delegating
  <2>6. ASSUME NEW p \in UsedPools(d)
        PROVE  /\ pools.sizes[p].total \in 1 .. Cardinality(Delegator)
               /\ pools.sizes[p].size \in 0 .. Cardinality(Delegator) + 1
    <3>1. Members(d, p) # {} BY <2>3, UsedPoolsHaveMembers
    <3>2. IsFiniteSet(Members(d, p)) /\ Cardinality(Members(d, p)) \in Nat BY FiniteTables
    <3>3. Cardinality(Members(d, p)) # 0 BY <3>1, <3>2, FS_EmptySet
    <3>4. Members(d, p) \subseteq Delegator BY DEF Members
    <3>5. Cardinality(Members(d, p)) <= Cardinality(Delegator) BY <1>5, <3>4, FS_Subset
    <3>6. PoolSize(node, p) \in 0 .. (Cardinality(Delegator) + 1) BY <1>2, PoolSizeIsBounded
    <3> QED BY <1>6, <2>1, <2>2, <3>2, <3>3, <3>5, <3>6
  <2>7. pools.summary \in {NoRow} \cup 0 .. Cardinality(Pool)
    <3>1. Cardinality(UsedPools(d)) <= Cardinality(Pool) BY <1>5, <2>3, FS_Subset
    <3> QED BY <1>6, <2>2, <2>3, <3>1
  <2>8. UsedPools(d) = {pools.delegations[a] : a \in Delegating(d)} BY <2>2 DEF UsedPools
  <2>9. ASSUME NEW p \in UsedPools(d) PROVE {a \in Delegating(d) : pools.delegations[a] = p} = Members(d, p)
    <3>1. p # NoOne BY DEF UsedPools, Delegating
    <3>2. \A a \in Delegating(d) : pools.delegations[a] = d[a] BY <2>2
    <3> QED BY <3>1, <3>2 DEF Delegating, Members
  <2>10. \A a \in Delegator : d[a] = IF a \in Delegating(d) THEN pools.delegations[a] ELSE NoOne
    BY <2>2 DEF Delegating
  <2>11. PoolsMirrorNode
    <3>1. PICK e : e = pools.delegations OBVIOUS
    <3>2. \A a \in Delegator : node.delegatee[a] = IF a \in DOMAIN e THEN e[a] ELSE NoOne BY <1>3, <2>4, <2>10, <3>1
    <3>3. DOMAIN pools.sizes = {e[a] : a \in DOMAIN e} BY <2>4, <2>8, <3>1
    <3>4. ASSUME NEW p \in DOMAIN pools.sizes
          PROVE  pools.sizes[p].total = Cardinality({a \in DOMAIN e : e[a] = p}) /\ pools.sizes[p].size = PoolSize(node, p)
      <4>1. p \in UsedPools(d) BY <2>4
      <4>2. {a \in DOMAIN e : e[a] = p} = Members(d, p) BY <2>4, <2>9, <3>1, <4>1
      <4> QED BY <2>1, <2>2, <4>1, <4>2
    <3>5. \/ pools.summary = Cardinality(DOMAIN pools.sizes)
          \/ (pools.summary = NoRow /\ DOMAIN pools.sizes = {})
      BY <2>2, <2>4
    <3> QED BY <3>1, <3>2, <3>3, <3>4, <3>5, Zenon DEF PoolsMirrorNode
  <2>12. TypeOK BY <1>1, <1>3, <1>4, <2>3, <2>4, <2>5, <2>6, <2>7 DEF TypeOK, PoolsInv, Delegatees, Height
  <2> QED BY <2>11, <2>12 DEF PoolTablesAreSound
<1>8. CASE restored = FALSE
  <2>1. pools = EmptyPools BY <1>8 DEF PoolsInv
  <2>2. DOMAIN pools.delegations = {} /\ DOMAIN pools.sizes = {} /\ pools.summary = NoRow BY <2>1 DEF EmptyPools
  <2>3. PoolsMirrorNode BY <1>8 DEF PoolsMirrorNode
  <2>4. TypeOK BY <1>1, <1>3, <1>4, <2>2 DEF TypeOK, PoolsInv, Delegatees, Height
  <2> QED BY <2>3, <2>4 DEF PoolTablesAreSound
<1> QED BY <1>7, <1>8 DEF PoolsInv

\* The tables of delegations and pools agree with the node at every block: the
\* counters that save_delegation_switches moves one switch at a time, and the
\* sizes that are written only for the pools detectPoolSizeUpdates finds.
THEOREM PoolTablesAreSoundAlways == Spec => []PoolTablesAreSound
<1>1. Init => PoolsInv BY PoolsInvInit
<1>2. PoolsInv /\ [Next]_vars => PoolsInv' BY PoolsInvNext
<1>3. PoolsInv => PoolTablesAreSound BY PoolsInvIsSound
<1> QED BY <1>1, <1>2, <1>3, PTL DEF Spec

-----------------------------------------------------------------------------
(* The delegation history and its log. *)

\* The history after each update comes from that before it.
LEMMA UpdateByStep ==
    ASSUME NEW rows, NEW log, NEW s, NEW h0, Len(s) \in Nat, NEW t, t = [rows |-> rows, log |-> log]
    PROVE  /\ UpdateAll(rows, log, s, h0)[0] = t
           /\ \A i \in 1 .. Len(s) : UpdateAll(rows, log, s, h0)[i] = UpdateHistory(UpdateAll(rows, log, s, h0)[i - 1], s[i], h0)
<1> DEFINE Body(h, m) == [i \in 0 .. m |-> IF i = 0 THEN t ELSE UpdateHistory(h[i - 1], s[i], h0)]
           P == {m \in Nat : \E h : h = Body(h, m)}
<1>1. 0 \in P
  <2> DEFINE h == [i \in 0 .. 0 |-> t]
  <2>1. h = Body(h, 0) OBVIOUS
  <2> QED BY <2>1
<1>2. ASSUME NEW m \in Nat, m \in P PROVE m + 1 \in P
  <2>1. PICK h : h = Body(h, m) BY <1>2
  <2> DEFINE g == [i \in 0 .. (m + 1) |-> IF i <= m THEN h[i] ELSE UpdateHistory(h[m], s[m + 1], h0)]
  <2>2. ASSUME NEW i \in 0 .. (m + 1) PROVE g[i] = IF i = 0 THEN t ELSE UpdateHistory(g[i - 1], s[i], h0)
    <3>1. CASE i <= m
      <4>1. i \in 0 .. m /\ g[i] = h[i] BY <3>1
      <4>2. h[i] = IF i = 0 THEN t ELSE UpdateHistory(h[i - 1], s[i], h0) BY <2>1, <4>1
      <4>3. i # 0 => i - 1 \in 0 .. (m + 1) /\ i - 1 <= m BY <4>1
      <4> HIDE DEF Body
      <4>4. i # 0 => g[i - 1] = h[i - 1] BY <4>3
      <4> QED BY <4>1, <4>2, <4>4
    <3>2. CASE ~(i <= m)
      <4>1. i = m + 1 /\ i # 0 /\ i - 1 = m BY <3>2
      <4>2. g[i] = UpdateHistory(h[m], s[m + 1], h0) BY <3>2
      <4>3. g[m] = h[m] OBVIOUS
      <4> QED BY <4>1, <4>2, <4>3
    <3> QED BY <3>1, <3>2
  <2>3. g = Body(g, m + 1) BY <2>2
  <2> HIDE DEF g
  <2>4. \E f : f = Body(f, m + 1) BY <2>3
  <2> QED BY <2>4
<1>3. Len(s) \in P
  <2> HIDE DEF P
  <2> QED BY <1>1, <1>2, NatInd
<1>4. PICK h : h = Body(h, Len(s)) BY <1>3
<1>5. UpdateAll(rows, log, s, h0) = Body(UpdateAll(rows, log, s, h0), Len(s)) BY <1>4 DEF UpdateAll
<1>6. 0 \in 0 .. Len(s) /\ \A i \in 1 .. Len(s) : i \in 0 .. Len(s) /\ i # 0 OBVIOUS
<1> DEFINE f == UpdateAll(rows, log, s, h0)
<1>7. f = [i \in 0 .. Len(s) |-> IF i = 0 THEN t ELSE UpdateHistory(f[i - 1], s[i], h0)] BY <1>5
<1> HIDE DEF f
<1>8. f[0] = t /\ \A i \in 1 .. Len(s) : f[i] = UpdateHistory(f[i - 1], s[i], h0) BY <1>6, <1>7
<1> QED BY <1>8 DEF f

\* The history after each change is undone comes from that before it.
LEMMA UndoneByStep ==
    ASSUME NEW t, NEW s, Len(s) \in Nat
    PROVE  /\ Undone(t, s)[0] = t
           /\ \A i \in 1 .. Len(s) : Undone(t, s)[i] = Undo(Undone(t, s)[i - 1], s[Len(s) + 1 - i])
<1> DEFINE Body(h, m) == [i \in 0 .. m |-> IF i = 0 THEN t ELSE Undo(h[i - 1], s[Len(s) + 1 - i])]
           P == {m \in Nat : \E h : h = Body(h, m)}
<1>1. 0 \in P
  <2> DEFINE h == [i \in 0 .. 0 |-> t]
  <2>1. h = Body(h, 0) OBVIOUS
  <2> QED BY <2>1
<1>2. ASSUME NEW m \in Nat, m \in P PROVE m + 1 \in P
  <2>1. PICK h : h = Body(h, m) BY <1>2
  <2> DEFINE g == [i \in 0 .. (m + 1) |-> IF i <= m THEN h[i] ELSE Undo(h[m], s[Len(s) + 1 - (m + 1)])]
  <2>2. ASSUME NEW i \in 0 .. (m + 1) PROVE g[i] = IF i = 0 THEN t ELSE Undo(g[i - 1], s[Len(s) + 1 - i])
    <3>1. CASE i <= m
      <4>1. i \in 0 .. m /\ g[i] = h[i] BY <3>1
      <4>2. h[i] = IF i = 0 THEN t ELSE Undo(h[i - 1], s[Len(s) + 1 - i]) BY <2>1, <4>1
      <4>3. i # 0 => i - 1 \in 0 .. (m + 1) /\ i - 1 <= m BY <4>1
      <4> HIDE DEF Body
      <4>4. i # 0 => g[i - 1] = h[i - 1] BY <4>3
      <4> QED BY <4>1, <4>2, <4>4
    <3>2. CASE ~(i <= m)
      <4>1. i = m + 1 /\ i # 0 /\ i - 1 = m BY <3>2
      <4>2. g[i] = Undo(h[m], s[Len(s) + 1 - (m + 1)]) BY <3>2
      <4>3. g[m] = h[m] OBVIOUS
      <4> QED BY <4>1, <4>2, <4>3
    <3> QED BY <3>1, <3>2
  <2>3. g = Body(g, m + 1) BY <2>2
  <2> HIDE DEF g
  <2>4. \E f : f = Body(f, m + 1) BY <2>3
  <2> HIDE DEF Body
  <2> QED BY <2>4
<1>3. Len(s) \in P
  <2> HIDE DEF P
  <2> QED BY <1>1, <1>2, NatInd
<1>4. PICK h : h = Body(h, Len(s)) BY <1>3
<1>5. Undone(t, s) = Body(Undone(t, s), Len(s)) BY <1>4 DEF Undone
<1>6. 0 \in 0 .. Len(s) /\ \A i \in 1 .. Len(s) : i \in 0 .. Len(s) /\ i # 0 OBVIOUS
<1> DEFINE f == Undone(t, s)
<1>7. f = [i \in 0 .. Len(s) |-> IF i = 0 THEN t ELSE Undo(f[i - 1], s[Len(s) + 1 - i])] BY <1>5
<1> HIDE DEF f
<1>8. f[0] = t /\ \A i \in 1 .. Len(s) : f[i] = Undo(f[i - 1], s[Len(s) + 1 - i]) BY <1>6, <1>7
<1> QED BY <1>8 DEF f

Reasons == {NoReason, "killed", "applyingFailure", "transitive", "undelegation"}

HistoryRow ==
  [who : Delegator, tx : Nat, dblock : Nat, reason : Reasons, ublock : Nat, actual : BOOLEAN]

UpdateRow == [who : Delegator, tx : Nat, dblock : Nat, reason : Reasons, ublock : Nat]

\* A table of history: one row for a delegator's transaction, one actual row for
\* a delegator, and no transaction later than T.
Good(rows, T) ==
  /\ rows \subseteq HistoryRow
  /\ \A r \in rows : r.tx <= T
  /\ \A r, s \in rows : r.who = s.who /\ r.tx = s.tx => r = s
  /\ \A r, s \in rows : r.who = s.who /\ r.actual /\ s.actual => r = s

NoActual(rows, a) == Actual(rows, a) = {}

OneActual(rows, a, r) == r \in rows /\ r.who = a /\ r.actual = TRUE /\ Actual(rows, a) = {r}

\* The actual rows of a delegator: none, or one.
LEMMA ActualRows ==
    ASSUME NEW T, NEW rows, Good(rows, T), NEW a
    PROVE  NoActual(rows, a) \/ \E r : OneActual(rows, a, r)
<1> SUFFICES ASSUME Actual(rows, a) # {} PROVE \E r : OneActual(rows, a, r) BY DEF NoActual
<1>1. PICK r : r \in Actual(rows, a) OBVIOUS
<1>2. r \in rows /\ r.who = a /\ r.actual = TRUE BY <1>1 DEF Actual, Good, HistoryRow
<1>3. \A s \in Actual(rows, a) : s = r BY <1>2 DEF Actual, Good
<1>4. Actual(rows, a) = {r} BY <1>1, <1>3
<1> QED BY <1>2, <1>4 DEF OneActual

\* So the unique index on them holds.
LEMMA GoodHasOneActual ==
    ASSUME NEW T, NEW rows, Good(rows, T), NEW a PROVE Cardinality(Actual(rows, a)) <= 1
<1>1. CASE NoActual(rows, a)
  <2>1. Cardinality(Actual(rows, a)) = 0 BY <1>1, FS_EmptySet DEF NoActual
  <2> QED BY <2>1
<1>2. CASE \E r : OneActual(rows, a, r)
  <2>1. PICK r : Actual(rows, a) = {r} BY <1>2 DEF OneActual
  <2>2. Cardinality({r}) = 1 BY FS_Singleton
  <2> QED BY <2>1, <2>2
<1> QED BY <1>1, <1>2, ActualRows

\* A set of one row as a sequence.
LEMMA OneRowAsSequence == ASSUME NEW r PROVE SetToSeq({r}) = <<r>>
<1>1. Cardinality({r}) = 1 BY FS_Singleton
<1>2. \E f \in [1 .. 1 -> {r}] : IsInjective(f)
  <2> DEFINE f == [i \in 1 .. 1 |-> r]
  <2>1. f \in [1 .. 1 -> {r}] /\ IsInjective(f) BY DEF IsInjective
  <2> QED BY <2>1
<1>3. SetToSeq({r}) \in [1 .. 1 -> {r}] BY <1>1, <1>2 DEF SetToSeq
<1> QED BY <1>3

\* No row as a sequence.
LEMMA NoRowAsSequence == SetToSeq({}) = << >>
<1>1. Cardinality({}) = 0 BY FS_EmptySet
<1>2. \E f \in [1 .. 0 -> {}] : IsInjective(f)
  <2> DEFINE f == [i \in 1 .. 0 |-> 0]
  <2>1. f \in [1 .. 0 -> {}] /\ IsInjective(f) BY DEF IsInjective
  <2> QED BY <2>1
<1>3. SetToSeq({}) \in [1 .. 0 -> {}] BY <1>1, <1>2 DEF SetToSeq
<1> QED BY <1>3

LogEntry == [height : Nat, row : HistoryRow]

\* st holds the tables after each change of the log, up to rows: undoing a
\* change gives the table before it.
Ladder(st, rows, log, T) ==
  /\ log \in Seq(LogEntry)
  /\ st[Len(log)] = rows
  /\ \A i \in 0 .. Len(log) : Good(st[i], T)
  /\ \A i \in 1 .. Len(log) : st[i - 1] = Undo(st[i], log[i])

\* What is logged at height h comes after what is there.
Grown(st, log, new, newlog, h) ==
  /\ Len(log) <= Len(newlog)
  /\ \A i \in 1 .. Len(log) : newlog[i] = log[i]
  /\ \A i \in 0 .. Len(log) : new[i] = st[i]
  /\ \A i \in (Len(log) + 1) .. Len(newlog) : newlog[i].height = h

\* One change more.
LEMMA LadderStep ==
    ASSUME NEW T \in Nat, NEW U \in Nat, T <= U, NEW st, NEW rows, NEW log, Ladder(st, rows, log, T),
           NEW next, Good(next, U), NEW h \in Nat, NEW r \in HistoryRow, NEW e, e = [height |-> h, row |-> r],
           Undo(next, e) = rows
    PROVE  \E new : Ladder(new, next, Append(log, e), U) /\ Grown(st, log, new, Append(log, e), h)
<1>1. log \in Seq(LogEntry) /\ Len(log) \in Nat BY DEF Ladder
<1>2. e \in LogEntry /\ e.height = h BY DEF LogEntry
<1>3. PICK l : l = Append(log, e) OBVIOUS
<1>4. /\ l \in Seq(LogEntry) /\ Len(l) = Len(log) + 1 /\ \A i \in 1 .. Len(log) : l[i] = log[i]
      /\ l[Len(log) + 1] = e
  BY <1>1, <1>2, <1>3
<1>5. PICK new : new = [i \in 0 .. (Len(log) + 1) |-> IF i <= Len(log) THEN st[i] ELSE next] OBVIOUS
<1>6. (\A i \in 0 .. Len(log) : new[i] = st[i]) /\ new[Len(log) + 1] = next BY <1>1, <1>5
<1>7. \A R : Good(R, T) => Good(R, U)
  <2> SUFFICES ASSUME NEW R, Good(R, T) PROVE Good(R, U) OBVIOUS
  <2>1. \A r1 \in R : r1.tx \in Nat BY DEF Good, HistoryRow
  <2> QED BY <2>1 DEF Good
<1>8. ASSUME NEW i \in 0 .. Len(l) PROVE Good(new[i], U)
  <2>1. CASE i <= Len(log)
    <3>1. i \in 0 .. Len(log) BY <1>1, <2>1
    <3> QED BY <1>6, <1>7, <3>1 DEF Ladder
  <2>2. CASE ~(i <= Len(log))
    <3>1. i = Len(log) + 1 BY <1>1, <1>4, <2>2
    <3> QED BY <1>6, <3>1
  <2> QED BY <2>1, <2>2
<1>9. ASSUME NEW i \in 1 .. Len(l) PROVE new[i - 1] = Undo(new[i], l[i])
  <2>1. CASE i <= Len(log)
    <3>1. i \in 1 .. Len(log) /\ i \in 0 .. Len(log) /\ i - 1 \in 0 .. Len(log) BY <1>1, <2>1
    <3> QED BY <1>4, <1>6, <3>1 DEF Ladder
  <2>2. CASE ~(i <= Len(log))
    <3>1. i = Len(log) + 1 /\ i - 1 = Len(log) /\ Len(log) \in 0 .. Len(log) BY <1>1, <1>4, <2>2
    <3>2. new[i - 1] = rows BY <1>6, <3>1 DEF Ladder
    <3> QED BY <1>4, <1>6, <3>1, <3>2
  <2> QED BY <2>1, <2>2
<1>10. Ladder(new, next, l, U) BY <1>4, <1>6, <1>8, <1>9 DEF Ladder
<1>11. Grown(st, log, new, l, h)
  <2>1. ASSUME NEW i \in (Len(log) + 1) .. Len(l) PROVE l[i].height = h
    <3>1. i = Len(log) + 1 BY <1>1, <1>4
    <3> QED BY <1>2, <1>4, <3>1
  <2> QED BY <1>1, <1>4, <1>6, <2>1 DEF Grown
<1> QED BY <1>3, <1>10, <1>11

Replaced(rows, r, m) == (rows \ {r}) \cup {m}

WithRow(rows, m) == rows \cup {m}

Updates(rows, r, m, e, next) ==
  /\ r \in rows /\ r.actual = TRUE
  /\ m \in HistoryRow /\ m.who = r.who /\ m.tx = r.tx
  /\ e.row = r /\ next = Replaced(rows, r, m)

Inserts(rows, T, u, e, next) ==
  /\ u \in UpdateRow /\ T < u.tx
  /\ \A s \in rows : s.who = u.who => ~s.actual
  /\ next = WithRow(rows, Row(u, TRUE)) /\ e.row = Inserted(u)

\* Undoing an update of an actual row.
LEMMA UndoOfUpdate ==
    ASSUME NEW T \in Nat, NEW rows, Good(rows, T), NEW r, NEW m, NEW e, NEW next, Updates(rows, r, m, e, next)
    PROVE  Good(next, T) /\ Undo(next, e) = rows
<1> USE DEF Updates
<1>1. r \in HistoryRow BY DEF Good
<1>2. next = (rows \ {r}) \cup {m} BY DEF Replaced
<1>3. \A s \in rows \ {r} : ~(s.who = r.who /\ s.tx = r.tx) BY DEF Good
<1>4. \A s \in rows \ {r} : s.who = r.who => ~s.actual BY DEF Good
<1>5. Good(next, T)
  <2>1. next \subseteq HistoryRow /\ \A s \in next : s.tx <= T BY <1>2 DEF Good
  <2>2. \A s, t \in next : s.who = t.who /\ s.tx = t.tx => s = t BY <1>2, <1>3 DEF Good
  <2>3. \A s, t \in next : s.who = t.who /\ s.actual /\ t.actual => s = t BY <1>2, <1>4 DEF Good
  <2> QED BY <2>1, <2>2, <2>3 DEF Good
<1>6. {s \in next : s.who = e.row.who /\ s.tx = e.row.tx} = {m} BY <1>2, <1>3
<1>7. Undo(next, e) = (next \ {m}) \cup {r} BY <1>6 DEF Undo, RestoredRow
<1>8. m \notin rows \ {r} BY <1>3
<1> QED BY <1>2, <1>5, <1>7, <1>8

\* Undoing an insertion.
LEMMA UndoOfInsertion ==
    ASSUME NEW T \in Nat, NEW U \in Nat, NEW rows, Good(rows, T), NEW u, u.tx <= U, NEW next, NEW e,
           Inserts(rows, T, u, e, next)
    PROVE  Good(next, U) /\ Undo(next, e) = rows
<1> USE DEF Inserts
<1>1. PICK m : m = Row(u, TRUE) OBVIOUS
<1>2. next = rows \cup {m} BY <1>1 DEF WithRow
<1>3. m \in HistoryRow /\ m.who = u.who /\ m.tx = u.tx /\ m.actual = TRUE BY <1>1 DEF Row, UpdateRow, HistoryRow
<1>4. \A s \in rows : s.tx \in Nat /\ s.tx <= T BY DEF Good, HistoryRow
<1>5. u.tx \in Nat BY DEF UpdateRow
<1>6. \A s \in rows : s.tx # u.tx /\ s.tx <= U BY <1>4, <1>5
<1>7. Good(next, U)
  <2>1. next \subseteq HistoryRow /\ \A s \in next : s.tx <= U BY <1>2, <1>3, <1>6 DEF Good
  <2>2. ASSUME NEW s \in next, NEW t \in next, s.who = t.who, s.tx = t.tx PROVE s = t
    <3>1. (s \in rows \/ s = m) /\ (t \in rows \/ t = m) BY <1>2
    <3>2. CASE s = m BY <1>3, <1>6, <2>2, <3>1, <3>2
    <3>3. CASE t = m BY <1>3, <1>6, <2>2, <3>1, <3>3
    <3>4. CASE s \in rows /\ t \in rows BY <2>2, <3>4 DEF Good
    <3> QED BY <3>1, <3>2, <3>3, <3>4
  <2>3. \A s, t \in next : s.who = t.who /\ s.actual /\ t.actual => s = t BY <1>2, <1>3 DEF Good
  <2> QED BY <2>1, <2>2, <2>3 DEF Good
<1>8. /\ e.row.who = u.who /\ e.row.tx = u.tx /\ e.row.dblock = 0 /\ e.row.reason = NoReason /\ e.row.ublock = 0
      /\ e.row.actual = FALSE
  BY DEF Inserted, Row, Update
<1>9. {s \in next : s.who = e.row.who /\ s.tx = e.row.tx} = {m} BY <1>2, <1>3, <1>6, <1>8
<1>10. Undo(next, e) = next \ {m} BY <1>8, <1>9 DEF Undo
<1>11. m \notin rows BY <1>3, <1>6
<1> QED BY <1>2, <1>7, <1>10, <1>11

Logged(rows, h) == [i \in 1 .. Len(rows) |-> [height |-> h, row |-> rows[i]]]

\* What is logged of no row, of one and of two.
LEMMA LoggedRows ==
    ASSUME NEW h, NEW r \in HistoryRow, NEW s \in HistoryRow
    PROVE  /\ Logged(<< >>, h) = << >>
           /\ Logged(<<r>>, h) = <<[height |-> h, row |-> r]>>
           /\ Logged(Append(<<r>>, s), h) = <<[height |-> h, row |-> r], [height |-> h, row |-> s]>>
<1>1. Logged(<< >>, h) = << >> BY DEF Logged
<1>2. Logged(<<r>>, h) = <<[height |-> h, row |-> r]>> BY DEF Logged
<1>3. Logged(Append(<<r>>, s), h) = <<[height |-> h, row |-> r], [height |-> h, row |-> s]>>
  <2>1. PICK q : q = <<r>> OBVIOUS
  <2>2. q \in Seq(HistoryRow) /\ Len(q) = 1 /\ q[1] = r BY <2>1
  <2>3. PICK z : z = Append(q, s) OBVIOUS
  <2>4. q \in Seq(HistoryRow) BY <2>2
  <2>5. z \in Seq(HistoryRow) BY <2>3, <2>4
  <2>6. Len(z) = Len(q) + 1 BY <2>3, <2>4
  <2>7. z[Len(q) + 1] = s BY <2>3, <2>4
  <2>8. z \in Seq(HistoryRow) /\ Len(z) = Len(q) + 1 /\ z[Len(q) + 1] = s BY <2>5, <2>6, <2>7
  <2>9. z[1] = q[1] BY <2>2, <2>3
  <2>10. z \in Seq(HistoryRow) /\ Len(z) = 2 /\ z[1] = r /\ z[2] = s BY <2>2, <2>8, <2>9
  <2>11. 1 .. 2 = {1, 2} OBVIOUS
  <2>12. Logged(z, h) = <<[height |-> h, row |-> r], [height |-> h, row |-> s]>> BY <2>10, <2>11 DEF Logged
  <2> QED BY <2>1, <2>3, <2>12
<1> QED BY <1>1, <1>2, <1>3

AfterMerge(rows, A, u) == (rows \ A) \cup {Merged(r, u) : r \in A}

AfterInsertion(rows, A, u) == (rows \ A) \cup {Row(u, TRUE)} \cup {[r EXCEPT !.actual = FALSE] : r \in A}

Parts(d, u, h, A, x) ==
  /\ u.tx = 0 => x.rows = AfterMerge(d.rows, A, u) /\ x.log = d.log \o Logged(SetToSeq(A), h)
  /\ u.tx # 0 => /\ x.rows = AfterInsertion(d.rows, A, u)
                 /\ x.log = d.log \o Logged(LoggedByInsertion(u, SetToSeq(A)), h)

\* What update_delegation_history does to the table and to the log.
LEMMA UpdateParts ==
    ASSUME NEW d, NEW u, NEW h PROVE Parts(d, u, h, Actual(d.rows, u.who), UpdateHistory(d, u, h))
<1>1. PICK A : A = Actual(d.rows, u.who) OBVIOUS
<1>2. CASE u.tx = 0
  <2>1. PICK x : x = AfterMerge(d.rows, A, u) OBVIOUS
  <2>2. PICK y : y = d.log \o Logged(SetToSeq(A), h) OBVIOUS
  <2>3. UpdateHistory(d, u, h) = [rows |-> x, log |-> y] BY <1>2, <1>1, <2>1, <2>2 DEF UpdateHistory, Logged, AfterMerge, AfterInsertion
  <2>4. UpdateHistory(d, u, h).rows = x /\ UpdateHistory(d, u, h).log = y BY <2>3
  <2> QED BY <1>2, <1>1, <2>1, <2>2, <2>4 DEF Parts
<1>3. CASE u.tx # 0
  <2>1. PICK x : x = AfterInsertion(d.rows, A, u) OBVIOUS
  <2>2. PICK y : y = d.log \o Logged(LoggedByInsertion(u, SetToSeq(A)), h) OBVIOUS
  <2>3. UpdateHistory(d, u, h) = [rows |-> x, log |-> y] BY <1>3, <1>1, <2>1, <2>2 DEF UpdateHistory, Logged, AfterMerge, AfterInsertion
  <2>4. UpdateHistory(d, u, h).rows = x /\ UpdateHistory(d, u, h).log = y BY <2>3
  <2> QED BY <1>3, <1>1, <2>1, <2>2, <2>4 DEF Parts
<1> QED BY <1>2, <1>3

\* What grows twice has grown.
LEMMA GrownTwice ==
    ASSUME NEW h, NEW st, NEW log, NEW stm, NEW l, NEW new, NEW q,
           Len(log) \in Nat, Len(l) \in Nat, Len(q) \in Nat, Grown(st, log, stm, l, h), Grown(stm, l, new, q, h)
    PROVE  Grown(st, log, new, q, h)
<1>1. Len(log) <= Len(l) /\ Len(l) <= Len(q) BY DEF Grown
<1>2. ASSUME NEW k \in (Len(log) + 1) .. Len(q) PROVE q[k].height = h
  <2>1. CASE k <= Len(l)
    <3>1. k \in 1 .. Len(l) /\ k \in (Len(log) + 1) .. Len(l) BY <2>1
    <3> QED BY <3>1 DEF Grown
  <2>2. CASE ~(k <= Len(l))
    <3>1. k \in (Len(l) + 1) .. Len(q) BY <2>2
    <3> QED BY <3>1 DEF Grown
  <2> QED BY <2>1, <2>2
<1>3. ASSUME NEW k \in 1 .. Len(log) PROVE q[k] = log[k]
  <2>1. k \in 1 .. Len(l) BY <1>1
  <2> QED BY <2>1 DEF Grown
<1>4. ASSUME NEW k \in 0 .. Len(log) PROVE new[k] = st[k]
  <2>1. k \in 0 .. Len(l) BY <1>1
  <2> QED BY <2>1 DEF Grown
<1>5. Len(log) <= Len(q) BY <1>1
<1> QED BY <1>2, <1>3, <1>4, <1>5 DEF Grown

\* update_delegation_history logs what it takes to undo it.
LEMMA UpdateClimbs ==
    ASSUME NEW T \in Nat, NEW U \in Nat, T <= U, NEW st, NEW d, Ladder(st, d.rows, d.log, T), NEW h \in Nat,
           NEW u \in UpdateRow, u.tx = 0 \/ (T < u.tx /\ u.tx <= U)
    PROVE  \E new : /\ Ladder(new, UpdateHistory(d, u, h).rows, UpdateHistory(d, u, h).log, U)
                    /\ Grown(st, d.log, new, UpdateHistory(d, u, h).log, h)
<1>1. PICK x : x = UpdateHistory(d, u, h) OBVIOUS
<1>2. PICK rows, log : rows = d.rows /\ log = d.log OBVIOUS
<1>3. Ladder(st, rows, log, T) /\ log \in Seq(LogEntry) /\ Len(log) \in Nat BY <1>2 DEF Ladder
<1>4. Good(rows, T)
  <2>1. Len(log) \in 0 .. Len(log) BY <1>3
  <2> QED BY <1>3, <2>1 DEF Ladder
<1>5. PICK A : A = Actual(rows, u.who) OBVIOUS
<1>6. \A s \in rows : s.who = u.who /\ s.actual => s \in A BY <1>5 DEF Actual
<1>7. u.who \in Delegator /\ u.tx \in Nat /\ u.dblock \in Nat /\ u.reason \in Reasons /\ u.ublock \in Nat BY DEF UpdateRow
<1>8. PICK i : i = Inserted(u) OBVIOUS
<1>9. i \in HistoryRow
  <2>1. PICK y \in Reasons : y = NoReason
    <3>1. NoReason \in Reasons BY DEF Reasons
    <3> QED BY <3>1
  <2>2. PICK v \in BOOLEAN : v = FALSE OBVIOUS
  <2>3. i = [who |-> u.who, tx |-> u.tx, dblock |-> 0, reason |-> y, ublock |-> 0, actual |-> v]
    BY <1>8, <2>2, <2>1 DEF Inserted, Row, Update
  <2> QED BY <1>7, <2>3 DEF HistoryRow
<1>10. PICK e : e = [height |-> h, row |-> i] OBVIOUS
<1>11. e.row = Inserted(u) BY <1>8, <1>10
<1>12. e \in LogEntry BY <1>9, <1>10 DEF LogEntry
<1>13. /\ u.tx = 0 => /\ x.rows = AfterMerge(rows, A, u)
                      /\ x.log = log \o Logged(SetToSeq(A), h)
       /\ u.tx # 0 => /\ x.rows = AfterInsertion(rows, A, u)
                      /\ x.log = log \o Logged(LoggedByInsertion(u, SetToSeq(A)), h)
  <2>1. A = Actual(d.rows, u.who) BY <1>2, <1>5
  <2>2. Parts(d, u, h, A, x) BY <1>1, <2>1, UpdateParts
  <2> QED BY <1>2, <2>2 DEF Parts
<1>14. CASE NoActual(rows, u.who) /\ u.tx = 0
  <2>1. A = {} BY <1>5, <1>14 DEF NoActual
  <2>2. x.rows = rows BY <1>13, <1>14, <2>1 DEF AfterMerge
  <2>3. Logged(SetToSeq(A), h) = << >> BY <1>9, <2>1, NoRowAsSequence, LoggedRows
  <2>4. x.log = log BY <1>3, <1>13, <1>14, <2>3
  <2>5. Grown(st, log, st, log, h) BY <1>3 DEF Grown
  <2>6. Ladder(st, rows, log, U)
    <3>1. ASSUME NEW k \in 0 .. Len(log) PROVE Good(st[k], U)
      <4>1. Good(st[k], T) BY <1>3 DEF Ladder
      <4>2. \A r \in st[k] : r.tx \in Nat BY <4>1 DEF Good, HistoryRow
      <4> QED BY <4>1, <4>2 DEF Good
    <3> QED BY <1>3, <3>1 DEF Ladder
  <2> QED BY <1>1, <1>2, <2>2, <2>4, <2>5, <2>6
<1>15. CASE NoActual(rows, u.who) /\ u.tx # 0
  <2>1. A = {} BY <1>5, <1>15 DEF NoActual
  <2>2. PICK next : next = WithRow(rows, Row(u, TRUE)) OBVIOUS
  <2>3. x.rows = next BY <1>13, <1>15, <2>1, <2>2 DEF WithRow, AfterInsertion
  <2>4. LoggedByInsertion(u, SetToSeq(A)) = <<i>>
    <3>1. Append(<< >>, i) = <<i>> OBVIOUS
    <3> QED BY <1>8, <2>1, <3>1, NoRowAsSequence DEF LoggedByInsertion
  <2>5. Logged(LoggedByInsertion(u, SetToSeq(A)), h) = <<e>> BY <1>9, <1>10, <2>4, LoggedRows
  <2>6. x.log = Append(log, e)
    <3>1. x.log = log \o <<e>> BY <1>13, <1>15, <2>5
    <3>2. log \o <<e>> = Append(log, e) BY <1>3, <1>12
    <3> QED BY <3>1, <3>2
  <2>7. \A s \in rows : s.who = u.who => ~s.actual BY <1>6, <2>1
  <2>8. Inserts(rows, T, u, e, next) /\ u.tx <= U BY <1>7, <1>11, <1>15, <2>2, <2>7 DEF Inserts
  <2>9. Good(next, U) /\ Undo(next, e) = rows BY <1>4, <2>8, UndoOfInsertion
  <2>10. \E new : Ladder(new, next, Append(log, e), U) /\ Grown(st, log, new, Append(log, e), h)
    BY <1>3, <1>9, <1>10, <2>9, LadderStep
  <2> QED BY <1>1, <1>2, <2>3, <2>6, <2>10
<1>16. CASE \E r : OneActual(rows, u.who, r)
  <2>1. PICK r : r \in rows /\ r.who = u.who /\ r.actual = TRUE /\ A = {r} BY <1>5, <1>16 DEF OneActual
  <2>2. r \in HistoryRow BY <1>4, <2>1 DEF Good
  <2>3. PICK c : c = [height |-> h, row |-> r] OBVIOUS
  <2>4. c.row = r /\ c \in LogEntry BY <2>2, <2>3 DEF LogEntry
  <2>5. SetToSeq(A) = <<r>> BY <2>1, OneRowAsSequence
  <2>6. CASE u.tx = 0
    <3>1. PICK m : m = Merged(r, u) OBVIOUS
    <3>2. m \in HistoryRow /\ m.who = r.who /\ m.tx = r.tx
      <4>1. PICK b, y, z : b = Coalesce(u.dblock, r.dblock, 0) /\ y = Coalesce(u.reason, r.reason, NoReason)
                             /\ z = Coalesce(u.ublock, r.ublock, 0)
        OBVIOUS
      <4>2. b \in Nat /\ y \in Reasons /\ z \in Nat BY <1>7, <2>2, <4>1 DEF Coalesce, HistoryRow
      <4>3. PICK v \in BOOLEAN : v = ~IsOver(b, y, z) OBVIOUS
      <4>4. m = [r EXCEPT !.dblock = b, !.reason = y, !.ublock = z, !.actual = v] BY <3>1, <4>1, <4>3 DEF Merged
      <4> QED BY <2>2, <4>2, <4>4 DEF HistoryRow
    <3>3. PICK next : next = Replaced(rows, r, m) OBVIOUS
    <3>4. x.rows = next
      <4>1. {Merged(s, u) : s \in A} = {m} BY <2>1, <3>1
      <4> QED BY <1>13, <2>1, <2>6, <3>3, <4>1 DEF Replaced, AfterMerge
    <3>5. Logged(SetToSeq(A), h) = <<c>> BY <2>2, <2>3, <2>5, LoggedRows
    <3>6. x.log = Append(log, c) BY <1>3, <1>13, <2>4, <2>6, <3>5
    <3>7. Updates(rows, r, m, c, next) BY <2>1, <2>4, <3>2, <3>3 DEF Updates
    <3>8. Good(next, T) /\ Undo(next, c) = rows BY <1>4, <3>7, UndoOfUpdate
    <3>9. Good(next, U)
      <4>1. \A s \in next : s.tx \in Nat BY <3>8 DEF Good, HistoryRow
      <4> QED BY <3>8, <4>1 DEF Good
    <3>10. \E new : Ladder(new, next, Append(log, c), U) /\ Grown(st, log, new, Append(log, c), h)
      BY <1>3, <2>2, <2>3, <3>8, <3>9, LadderStep
    <3> QED BY <1>1, <1>2, <3>4, <3>6, <3>10
  <2>7. CASE u.tx # 0
    <3>1. PICK m : m = [r EXCEPT !.actual = FALSE] OBVIOUS
    <3>2. m \in HistoryRow /\ m.who = r.who /\ m.tx = r.tx /\ m.actual = FALSE BY <2>2, <3>1 DEF HistoryRow
    <3>3. PICK mid : mid = Replaced(rows, r, m) OBVIOUS
    <3>4. PICK next : next = WithRow(mid, Row(u, TRUE)) OBVIOUS
    <3>5. PICK l : l = Append(log, c) OBVIOUS
    <3>6. x.rows = next /\ x.log = Append(l, e)
      <4>1. {[s EXCEPT !.actual = FALSE] : s \in A} = {m} BY <2>1, <3>1
      <4>2. x.rows = (rows \ {r}) \cup {Row(u, TRUE)} \cup {m} BY <1>13, <2>1, <2>7, <4>1 DEF AfterInsertion
      <4>3. x.rows = next BY <3>3, <3>4, <4>2 DEF Replaced, WithRow
      <4>4. LoggedByInsertion(u, SetToSeq(A)) = Append(<<r>>, i) BY <1>8, <2>5 DEF LoggedByInsertion
      <4>5. Logged(LoggedByInsertion(u, SetToSeq(A)), h) = <<c, e>>
        <5>1. Logged(Append(<<r>>, i), h) = <<[height |-> h, row |-> r], [height |-> h, row |-> i]>>
          BY <1>9, <2>2, LoggedRows
        <5> QED BY <1>10, <2>3, <4>4, <5>1
      <4>6. log \o <<c, e>> = Append(Append(log, c), e) BY <1>3, <1>12, <2>4
      <4> QED BY <1>13, <2>7, <3>5, <4>3, <4>5, <4>6
    <3>7. Updates(rows, r, m, c, mid) BY <2>1, <2>4, <3>2, <3>3 DEF Updates
    <3>8. Good(mid, T) /\ Undo(mid, c) = rows BY <1>4, <3>7, UndoOfUpdate
    <3>9. PICK stm : Ladder(stm, mid, l, T) /\ Grown(st, log, stm, l, h)
      <4>1. T <= T OBVIOUS
      <4> QED BY <1>3, <2>2, <2>3, <3>5, <3>8, <4>1, LadderStep
    <3>10. \A s \in mid : s.who = u.who => ~s.actual BY <1>6, <2>1, <3>2, <3>3 DEF Replaced
    <3>11. Inserts(mid, T, u, e, next) /\ u.tx <= U BY <1>7, <1>11, <2>7, <3>4, <3>10 DEF Inserts
    <3>12. Good(next, U) /\ Undo(next, e) = mid BY <3>8, <3>11, UndoOfInsertion
    <3>13. PICK new : Ladder(new, next, Append(l, e), U) /\ Grown(stm, l, new, Append(l, e), h)
      BY <1>9, <1>10, <3>9, <3>12, LadderStep
    <3>14. Grown(st, log, new, Append(l, e), h)
      <4>1. PICK q : q = Append(l, e) OBVIOUS
      <4>2. l \in Seq(LogEntry) /\ q \in Seq(LogEntry) BY <3>9, <3>13, <4>1 DEF Ladder
      <4>3. Len(l) \in Nat /\ Len(q) \in Nat BY <4>2
      <4>4. Grown(st, log, stm, l, h) /\ Grown(stm, l, new, q, h) BY <3>9, <3>13, <4>1
      <4>5. Grown(st, log, new, q, h) BY <1>3, <4>3, <4>4, GrownTwice
      <4> QED BY <4>1, <4>5
    <3> QED BY <1>1, <1>2, <3>6, <3>13, <3>14
  <2> QED BY <2>6, <2>7
<1> QED BY <1>4, <1>14, <1>15, <1>16, ActualRows

\* The updates of a block: the first may be an insertion, of the next transaction.
BlockUpdates(updates, T, U) ==
  /\ updates \in Seq(UpdateRow)
  /\ \A i \in 1 .. Len(updates) : updates[i].tx = 0 \/ (i = 1 /\ updates[i].tx = T + 1 /\ U = T + 1)

\* All the updates of a block can be undone.
LEMMA BlockClimbs ==
    ASSUME NEW T \in Nat, NEW U \in Nat, T <= U, NEW st, NEW rows, NEW log, Ladder(st, rows, log, T),
           NEW h \in Nat, NEW s, BlockUpdates(s, T, U),
           NEW d, d = UpdateAll(rows, log, s, h)[Len(s)]
    PROVE  \E new : Ladder(new, d.rows, d.log, U) /\ Grown(st, log, new, d.log, h)
<1> DEFINE f == UpdateAll(rows, log, s, h)
           At(i) == IF i = 0 THEN T ELSE U
           OK(i) == \E new : Ladder(new, f[i].rows, f[i].log, At(i)) /\ Grown(st, log, new, f[i].log, h)
           P == {i \in Nat : i <= Len(s) => OK(i)}
<1>1. s \in Seq(UpdateRow) /\ Len(s) \in Nat BY DEF BlockUpdates
<1>2. PICK t : t = [rows |-> rows, log |-> log] OBVIOUS
<1>3. f[0] = t /\ \A i \in 1 .. Len(s) : f[i] = UpdateHistory(f[i - 1], s[i], h) BY <1>1, <1>2, UpdateByStep
<1>4. t.rows = rows /\ t.log = log BY <1>2
<1>5. log \in Seq(LogEntry) /\ Len(log) \in Nat BY DEF Ladder
<1> HIDE DEF f
<1>6. 0 \in P
  <2>1. Grown(st, log, st, log, h) BY <1>5 DEF Grown
  <2>2. OK(0) BY <1>3, <1>4, <2>1
  <2> QED BY <2>2
<1>7. ASSUME NEW i \in Nat, i \in P PROVE i + 1 \in P
  <2> SUFFICES ASSUME i + 1 <= Len(s) PROVE OK(i + 1) OBVIOUS
  <2>1. i + 1 \in 1 .. Len(s) /\ (i + 1) - 1 = i /\ i <= Len(s) BY <1>1
  <2>2. OK(i) BY <1>7, <2>1
  <2>3. PICK stm : Ladder(stm, f[i].rows, f[i].log, At(i)) /\ Grown(st, log, stm, f[i].log, h) BY <2>2
  <2>4. PICK g : g = f[i] OBVIOUS
  <2>5. PICK u : u = s[i + 1] OBVIOUS
  <2>6. PICK V \in Nat : V = At(i) OBVIOUS
  <2>7. f[i + 1] = UpdateHistory(g, u, h) BY <1>3, <2>1, <2>4, <2>5
  <2>8. u \in UpdateRow BY <1>1, <2>1, <2>5
  <2>9. u.tx = 0 \/ (i + 1 = 1 /\ u.tx = T + 1 /\ U = T + 1) BY <2>1, <2>5 DEF BlockUpdates
  <2>10. u.tx = 0 \/ (V < u.tx /\ u.tx <= U) BY <2>6, <2>9
  <2>11. V <= U BY <2>6
  <2>12. Ladder(stm, g.rows, g.log, V) /\ Grown(st, log, stm, g.log, h) BY <2>3, <2>4, <2>6
  <2>13. PICK x : x = UpdateHistory(g, u, h) OBVIOUS
  <2>14. PICK new : Ladder(new, x.rows, x.log, U) /\ Grown(stm, g.log, new, x.log, h)
    BY <2>8, <2>10, <2>11, <2>12, <2>13, UpdateClimbs
  <2>15. g.log \in Seq(LogEntry) /\ x.log \in Seq(LogEntry) BY <2>12, <2>14 DEF Ladder
  <2>16. Len(g.log) \in Nat /\ Len(x.log) \in Nat BY <2>15
  <2>17. PICK l, q : l = g.log /\ q = x.log OBVIOUS
  <2>18. Grown(st, log, stm, l, h) /\ Grown(stm, l, new, q, h) BY <2>12, <2>14, <2>17
  <2>19. Grown(st, log, new, q, h) BY <1>5, <2>16, <2>17, <2>18, GrownTwice
  <2>20. At(i + 1) = U OBVIOUS
  <2> QED BY <2>7, <2>13, <2>14, <2>17, <2>19, <2>20
<1>8. Len(s) \in P
  <2> HIDE DEF P
  <2> QED BY <1>1, <1>6, <1>7, NatInd
<1>9. PICK new : Ladder(new, f[Len(s)].rows, f[Len(s)].log, At(Len(s))) /\ Grown(st, log, new, f[Len(s)].log, h)
  BY <1>1, <1>8
<1>10. d = f[Len(s)] BY DEF f
<1>11. CASE Len(s) # 0 BY <1>9, <1>10, <1>11
<1>12. CASE Len(s) = 0
  <2>1. Ladder(new, d.rows, d.log, T) BY <1>9, <1>10, <1>12
  <2>2. ASSUME NEW k \in 0 .. Len(d.log) PROVE Good(new[k], U)
    <3>1. Good(new[k], T) BY <2>1 DEF Ladder
    <3>2. \A r \in new[k] : r.tx \in Nat BY <3>1 DEF Good, HistoryRow
    <3> QED BY <3>1, <3>2 DEF Good
  <2>3. Ladder(new, d.rows, d.log, U) BY <2>1, <2>2 DEF Ladder
  <2> QED BY <1>9, <1>10, <2>3
<1> QED BY <1>11, <1>12

\* Undoing goes down the ladder.
LEMMA UndoneGoesDown ==
    ASSUME NEW T, NEW st, NEW rows, NEW log, Ladder(st, rows, log, T), NEW n \in 0 .. Len(log)
    PROVE  Undone(rows, log)[n] = st[Len(log) - n]
<1> DEFINE f == Undone(rows, log)
           P == {i \in Nat : i <= Len(log) => f[i] = st[Len(log) - i]}
<1>1. log \in Seq(LogEntry) /\ Len(log) \in Nat BY DEF Ladder
<1>2. f[0] = rows /\ \A i \in 1 .. Len(log) : f[i] = Undo(f[i - 1], log[Len(log) + 1 - i]) BY <1>1, UndoneByStep
<1> HIDE DEF f
<1>3. 0 \in P
  <2>1. Len(log) - 0 = Len(log) BY <1>1
  <2> QED BY <1>2, <2>1 DEF Ladder
<1>4. ASSUME NEW i \in Nat, i \in P PROVE i + 1 \in P
  <2> SUFFICES ASSUME i + 1 <= Len(log) PROVE f[i + 1] = st[Len(log) - (i + 1)] OBVIOUS
  <2>1. PICK j : j = Len(log) - i OBVIOUS
  <2>2. /\ i + 1 \in 1 .. Len(log) /\ (i + 1) - 1 = i /\ i <= Len(log) /\ Len(log) + 1 - (i + 1) = j
        /\ j \in 1 .. Len(log) /\ Len(log) - (i + 1) = j - 1
    BY <1>1, <2>1
  <2>3. f[i] = st[j] BY <1>4, <2>1, <2>2
  <2>4. f[i + 1] = Undo(f[i], log[j]) BY <1>2, <2>2
  <2>5. st[j - 1] = Undo(st[j], log[j]) BY <2>2 DEF Ladder
  <2> QED BY <2>2, <2>3, <2>4, <2>5
<1>5. n \in P
  <2> HIDE DEF P
  <2> QED BY <1>1, <1>3, <1>4, NatInd
<1> QED BY <1>1, <1>5 DEF f

-----------------------------------------------------------------------------
(* The log by height. *)

Sorted(log) == \A i, j \in 1 .. Len(log) : i <= j => log[i].height <= log[j].height

\* The log's first k changes are those of the blocks up to p.
Cut(log, p, k) ==
  /\ k \in 0 .. Len(log)
  /\ \A i \in 1 .. k : log[i].height <= p
  /\ \A i \in (k + 1) .. Len(log) : log[i].height > p

\* Where the log is cut is how many changes reset_to keeps.
LEMMA CutCounts ==
    ASSUME NEW log \in Seq(LogEntry), NEW p \in Int, NEW k, Cut(log, p, k) PROVE UpTo(log, p) = k
<1>1. Len(log) \in Nat /\ DOMAIN log = 1 .. Len(log) /\ k \in Nat /\ k <= Len(log) BY DEF Cut
<1>2. \A i \in 1 .. Len(log) : log[i].height \in Nat
  <2>1. \A i \in 1 .. Len(log) : log[i] \in LogEntry OBVIOUS
  <2> QED BY <2>1 DEF LogEntry
<1>3. {i \in DOMAIN log : log[i].height <= p} = 1 .. k
  <2>1. ASSUME NEW i \in 1 .. Len(log) PROVE log[i].height <= p <=> i \in 1 .. k
    <3>1. CASE i <= k
      <4>1. i \in 1 .. k BY <1>1, <3>1
      <4> QED BY <4>1 DEF Cut
    <3>2. CASE ~(i <= k)
      <4>1. i \in (k + 1) .. Len(log) /\ i \notin 1 .. k BY <1>1, <3>2
      <4>2. log[i].height > p BY <4>1 DEF Cut
      <4> QED BY <1>2, <4>1, <4>2
    <3> QED BY <3>1, <3>2
  <2>2. \A i \in 1 .. k : i \in 1 .. Len(log) BY <1>1
  <2> QED BY <1>1, <2>1, <2>2
<1>4. Cardinality(1 .. k) = k
  <2>1. Cardinality(1 .. k) = IF 1 > k THEN 0 ELSE k - 1 + 1 BY <1>1, FS_Interval
  <2> QED BY <1>1, <2>1
<1> QED BY <1>3, <1>4 DEF UpTo

\* A log that is sorted by height can be cut at every height.
LEMMA SortedHasCuts ==
    ASSUME NEW log \in Seq(LogEntry), Sorted(log), NEW p \in Int PROVE Cut(log, p, UpTo(log, p))
<1> DEFINE S == {i \in 1 .. (Len(log) + 1) : i = Len(log) + 1 \/ log[i].height > p}
<1>1. Len(log) \in Nat OBVIOUS
<1>2. \A i \in 1 .. Len(log) : log[i].height \in Nat
  <2>1. \A i \in 1 .. Len(log) : log[i] \in LogEntry OBVIOUS
  <2> QED BY <2>1 DEF LogEntry
<1>3. S \subseteq Nat /\ S # {} BY <1>1
<1>4. PICK x \in S : \A y \in S : x <= y
  <2> HIDE DEF S
  <2> QED BY <1>3, LeastNat
<1>5. PICK k : k = x - 1 OBVIOUS
<1>6. k \in 0 .. Len(log) BY <1>1, <1>5
<1>7. ASSUME NEW i \in 1 .. k PROVE log[i].height <= p
  <2>1. i \in 1 .. Len(log) /\ ~(x <= i) BY <1>1, <1>5, <1>6
  <2>2. i \notin S BY <1>4, <2>1
  <2> QED BY <1>2, <2>1, <2>2
<1>8. ASSUME NEW i \in (k + 1) .. Len(log) PROVE log[i].height > p
  <2>1. x \in 1 .. Len(log) /\ i \in 1 .. Len(log) /\ x <= i BY <1>1, <1>5, <1>6
  <2>2. log[x].height > p BY <2>1
  <2>3. log[x].height <= log[i].height BY <2>1 DEF Sorted
  <2> QED BY <1>2, <2>1, <2>2, <2>3
<1>9. Cut(log, p, k) BY <1>6, <1>7, <1>8 DEF Cut
<1>10. UpTo(log, p) = k BY <1>9, CutCounts
<1> QED BY <1>9, <1>10

Shorter(log, k, st, c, sf) == c = SubSeq(log, k + 1, Len(log)) /\ sf = [i \in 0 .. Len(c) |-> st[i + k]]

\* The ladder without its first k steps.
LEMMA LadderSuffix ==
    ASSUME NEW T, NEW st, NEW rows, NEW log, Ladder(st, rows, log, T), NEW k \in 0 .. Len(log),
           NEW c, NEW sf, Shorter(log, k, st, c, sf)
    PROVE  /\ Ladder(sf, rows, c, T) /\ Len(c) = Len(log) - k
           /\ \A i \in 1 .. Len(c) : c[i] = log[i + k]
<1>1. log \in Seq(LogEntry) /\ Len(log) \in Nat BY DEF Ladder
<1>2. c = SubSeq(log, k + 1, Len(log)) /\ sf = [i \in 0 .. Len(c) |-> st[i + k]] BY DEF Shorter
<1>3. c \in Seq(LogEntry) /\ Len(c) = Len(log) - k BY <1>2, <1>1
<1>4. ASSUME NEW i \in 1 .. Len(c) PROVE c[i] = log[i + k] BY <1>2, <1>1, <1>3
<1>5. Len(c) \in Nat BY <1>3
<1>6. \A i \in 0 .. Len(c) : sf[i] = st[i + k] /\ i + k \in 0 .. Len(log) BY <1>2, <1>1, <1>3
<1>7. sf[Len(c)] = rows
  <2>1. Len(c) \in 0 .. Len(c) /\ Len(c) + k = Len(log) BY <1>1, <1>3
  <2> QED BY <1>6, <2>1 DEF Ladder
<1>8. \A i \in 0 .. Len(c) : Good(sf[i], T) BY <1>6 DEF Ladder
<1>9. ASSUME NEW i \in 1 .. Len(c) PROVE sf[i - 1] = Undo(sf[i], c[i])
  <2>1. PICK j : j = i + k OBVIOUS
  <2>2. /\ i \in 0 .. Len(c) /\ i - 1 \in 0 .. Len(c) /\ j \in 1 .. Len(log) /\ (i - 1) + k = j - 1
    BY <1>1, <1>3, <2>1
  <2>3. sf[i] = st[j] /\ sf[i - 1] = st[j - 1] BY <1>6, <2>1, <2>2
  <2>4. c[i] = log[j] BY <1>4, <2>1
  <2> QED BY <2>2, <2>3, <2>4 DEF Ladder
<1> HIDE DEF Ladder
<1>10. Ladder(sf, rows, c, T) BY <1>3, <1>7, <1>8, <1>9 DEF Ladder
<1> QED BY <1>3, <1>4, <1>10

FirstOf(log, k, c) == c = SubSeq(log, 1, k)

\* The first k steps of the ladder.
LEMMA LadderPrefix ==
    ASSUME NEW T, NEW st, NEW rows, NEW log, Ladder(st, rows, log, T), NEW k \in 0 .. Len(log),
           NEW c, FirstOf(log, k, c)
    PROVE  Ladder(st, st[k], c, T) /\ Len(c) = k /\ \A i \in 1 .. k : c[i] = log[i]
<1>1. log \in Seq(LogEntry) /\ Len(log) \in Nat BY DEF Ladder
<1>2. c \in Seq(LogEntry) /\ Len(c) = k BY <1>1 DEF FirstOf
<1>3. \A i \in 1 .. k : c[i] = log[i] BY <1>1 DEF FirstOf
<1>4. \A i \in 0 .. k : i \in 0 .. Len(log) BY <1>1
<1>5. \A i \in 1 .. k : i \in 1 .. Len(log) BY <1>1
<1>6. \A i \in 0 .. Len(c) : Good(st[i], T) BY <1>2, <1>4 DEF Ladder
<1>7. \A i \in 1 .. Len(c) : st[i - 1] = Undo(st[i], c[i]) BY <1>2, <1>3, <1>5 DEF Ladder
<1>8. Ladder(st, st[k], c, T) BY <1>2, <1>6, <1>7 DEF Ladder
<1> QED BY <1>2, <1>3, <1>8

-----------------------------------------------------------------------------
(* The steps, for the history. *)

HistoryAt(p) == IF p = 0 THEN {} ELSE snap[p].history

\* The log is a ladder from the oldest table that can be reached to the table as
\* it is, and its steps at the ends of the blocks are the tables of the blocks.
HistoryInv ==
  /\ changes \in Seq(LogEntry) /\ Sorted(changes)
  /\ \A i \in 1 .. Len(changes) : changes[i].height <= Len(snap)
  /\ floor <= Len(snap)
  /\ \E st : /\ Ladder(st, history, changes, txs)
             /\ \A p \in floor .. Len(snap) : st[UpTo(changes, p)] = HistoryAt(p)

\* A block is saved, and the oldest changes are dropped.
LEMMA CommitKeepsHistory ==
    ASSUME PoolsInv, HistoryInv, NEW new, NEW s, Commit(new, s), NEW U \in Nat, txs <= U, BlockUpdates(s, txs, U),
           txs' = U
    PROVE  HistoryInv'
<1> DEFINE h == Len(snap) + 1
<1>1. PICK X : snap \in Seq(X) BY DEF PoolsInv
<1>2. /\ Len(snap) \in Nat /\ h \in Nat /\ txs \in Nat /\ floor \in Nat /\ ChangesBlocksCount \in Nat
      /\ ChangesBlocksCount # 0 /\ floor <= Len(snap)
  BY <1>1, DelegationsAssumption DEF PoolsInv, HistoryInv
<1>3. PICK d : d = UpdateAll(history, changes, s, h)[Len(s)] OBVIOUS
<1>4. PICK l : l = d.log OBVIOUS
<1>5. PICK o : o = h - ChangesBlocksCount OBVIOUS
<1>6. PICK x : x = [node |-> new, history |-> d.rows] OBVIOUS
<1>7. /\ history' = d.rows /\ changes' = SubSeq(l, UpTo(l, o) + 1, Len(l))
      /\ floor' = (IF o > floor THEN o ELSE floor) /\ snap' = Append(snap, x)
  BY <1>3, <1>4, <1>5, <1>6 DEF Commit, Height
<1> HIDE DEF h
<1>8. h = Len(snap) + 1 BY DEF h
<1>9. PICK st : /\ Ladder(st, history, changes, txs)
                /\ \A p \in floor .. Len(snap) : st[UpTo(changes, p)] = HistoryAt(p)
  BY DEF HistoryInv
<1>10. PICK stn : Ladder(stn, d.rows, l, U) /\ Grown(st, changes, stn, l, h) BY <1>2, <1>3, <1>4, <1>9, BlockClimbs
<1>11. l \in Seq(LogEntry) /\ changes \in Seq(LogEntry) BY <1>10 DEF Ladder, HistoryInv
<1>12. Len(l) \in Nat /\ Len(changes) \in Nat /\ Len(changes) <= Len(l) BY <1>10, <1>11 DEF Grown
<1>13. ASSUME NEW i \in 1 .. Len(l)
       PROVE  /\ l[i].height \in Nat
              /\ i <= Len(changes) => i \in 1 .. Len(changes) /\ l[i] = changes[i] /\ l[i].height <= Len(snap)
              /\ ~(i <= Len(changes)) => l[i].height = h
              /\ l[i].height <= h
  <2>1. l[i] \in LogEntry BY <1>11
  <2>2. l[i].height \in Nat BY <2>1 DEF LogEntry
  <2>3. CASE i <= Len(changes)
    <3>1. i \in 1 .. Len(changes) BY <1>12, <2>3
    <3>2. l[i] = changes[i] BY <1>10, <3>1 DEF Grown
    <3>3. changes[i].height <= Len(snap) BY <3>1 DEF HistoryInv
    <3> QED BY <1>2, <1>8, <2>2, <2>3, <3>1, <3>2, <3>3
  <2>4. CASE ~(i <= Len(changes))
    <3>1. i \in (Len(changes) + 1) .. Len(l) BY <1>12, <2>4
    <3>2. l[i].height = h BY <1>10, <3>1 DEF Grown
    <3> QED BY <1>2, <2>2, <2>4, <3>2
  <2> QED BY <2>3, <2>4
<1>14. Sorted(l)
  <2> SUFFICES ASSUME NEW i \in 1 .. Len(l), NEW j \in 1 .. Len(l), i <= j PROVE l[i].height <= l[j].height
    BY DEF Sorted
  <2>1. CASE j <= Len(changes)
    <3>1. i <= Len(changes) BY <1>12, <2>1
    <3>2. l[i] = changes[i] /\ l[j] = changes[j] /\ i \in 1 .. Len(changes) /\ j \in 1 .. Len(changes)
      BY <1>13, <2>1, <3>1
    <3> QED BY <3>2 DEF HistoryInv, Sorted
  <2>2. CASE ~(j <= Len(changes))
    <3>1. l[j].height = h /\ l[i].height <= h BY <1>13, <2>2
    <3> QED BY <3>1
  <2> QED BY <2>1, <2>2
<1>15. o \in Int BY <1>2, <1>5
<1>16. PICK k : k = UpTo(l, o) OBVIOUS
<1>17. Cut(l, o, k) BY <1>11, <1>14, <1>15, <1>16, SortedHasCuts
<1>18. k \in 0 .. Len(l) BY <1>17 DEF Cut
<1>19. PICK c : c = changes' OBVIOUS
<1>20. c = SubSeq(l, k + 1, Len(l)) BY <1>7, <1>16, <1>19
<1>21. PICK sf : sf = [i \in 0 .. Len(c) |-> stn[i + k]] OBVIOUS
<1>22. /\ Ladder(sf, d.rows, c, U) /\ Len(c) = Len(l) - k
       /\ \A i \in 1 .. Len(c) : c[i] = l[i + k]
  <2>1. Shorter(l, k, stn, c, sf) BY <1>20, <1>21 DEF Shorter
  <2> QED BY <1>10, <1>18, <2>1, LadderSuffix
<1>23. c \in Seq(LogEntry) BY <1>22 DEF Ladder
<1>24. Len(snap') = h /\ snap'[h] = x /\ \A p \in 1 .. Len(snap) : snap'[p] = snap[p]
  <2>1. snap \in Seq(X \cup {x}) BY <1>1
  <2> QED BY <1>7, <1>8, <2>1
<1>25. ASSUME NEW i \in 1 .. Len(c) PROVE i + k \in 1 .. Len(l) /\ c[i] = l[i + k] BY <1>12, <1>18, <1>22
<1>26. Sorted(c)
  <2> SUFFICES ASSUME NEW i \in 1 .. Len(c), NEW j \in 1 .. Len(c), i <= j PROVE c[i].height <= c[j].height
    BY DEF Sorted
  <2>1. i + k <= j + k BY <1>18
  <2> QED BY <1>14, <1>25, <2>1 DEF Sorted
<1>27. \A i \in 1 .. Len(c) : c[i].height <= Len(snap') BY <1>13, <1>24, <1>25
<1>28. floor' <= Len(snap') /\ floor' \in Nat /\ o <= floor' /\ floor <= floor' BY <1>2, <1>5, <1>7, <1>8, <1>15, <1>24
<1>29. ASSUME NEW p \in floor' .. Len(snap') PROVE sf[UpTo(c, p)] = HistoryAt(p)'
  <2>1. p \in Nat /\ p \in Int /\ o <= p /\ floor <= p /\ p <= h BY <1>2, <1>15, <1>24, <1>28
  <2>2. PICK m : m = UpTo(l, p) OBVIOUS
  <2>3. Cut(l, p, m) BY <1>11, <1>14, <2>1, <2>2, SortedHasCuts
  <2>4. m \in 0 .. Len(l) BY <2>3 DEF Cut
  <2>5. k <= m
    <3> SUFFICES ASSUME ~(k <= m) PROVE FALSE OBVIOUS
    <3>1. m + 1 \in (m + 1) .. Len(l) /\ m + 1 \in 1 .. k /\ m + 1 \in 1 .. Len(l) BY <1>12, <1>18, <2>4
    <3>2. l[m + 1].height > p /\ l[m + 1].height <= o BY <1>17, <2>3, <3>1 DEF Cut
    <3>3. l[m + 1].height \in Nat BY <1>13, <3>1
    <3> QED BY <1>15, <2>1, <3>2, <3>3
  <2>6. Cut(c, p, m - k)
    <3>1. m - k \in 0 .. Len(c) BY <1>12, <1>18, <1>22, <2>4, <2>5
    <3>2. ASSUME NEW i \in 1 .. (m - k) PROVE c[i].height <= p
      <4>1. i \in 1 .. Len(c) /\ i + k \in 1 .. m BY <1>12, <1>18, <1>22, <2>4, <2>5
      <4>2. l[i + k].height <= p BY <2>3, <4>1 DEF Cut
      <4> QED BY <1>25, <4>1, <4>2
    <3>3. ASSUME NEW i \in (m - k + 1) .. Len(c) PROVE c[i].height > p
      <4>1. i \in 1 .. Len(c) /\ i + k \in (m + 1) .. Len(l) BY <1>12, <1>18, <1>22, <2>4, <2>5
      <4>2. l[i + k].height > p BY <2>3, <4>1 DEF Cut
      <4> QED BY <1>25, <4>1, <4>2
    <3> QED BY <3>1, <3>2, <3>3 DEF Cut
  <2>7. UpTo(c, p) = m - k BY <1>23, <2>1, <2>6, CutCounts
  <2>8. sf[m - k] = stn[m]
    <3>1. m - k \in 0 .. Len(c) /\ (m - k) + k = m BY <1>12, <1>18, <1>22, <2>4, <2>5
    <3> QED BY <1>21, <3>1
  <2>9. stn[m] = HistoryAt(p)'
    <3>1. CASE p = h
      <4>1. Cut(l, h, Len(l))
        <5>1. Len(l) \in 0 .. Len(l) /\ (Len(l) + 1) .. Len(l) = {} BY <1>12
        <5> QED BY <1>13, <5>1 DEF Cut
      <4>2. h \in Int BY <1>2
      <4>3. m = Len(l) BY <1>11, <2>2, <3>1, <4>1, <4>2, CutCounts
      <4>4. stn[m] = d.rows BY <1>10, <4>3 DEF Ladder
      <4>5. p # 0 /\ snap'[p].history = d.rows BY <1>2, <1>6, <1>8, <1>24, <3>1
      <4> QED BY <4>4, <4>5 DEF HistoryAt
    <3>2. CASE p # h
      <4>1. p \in floor .. Len(snap) BY <1>2, <1>8, <2>1, <3>2
      <4>2. PICK n : n = UpTo(changes, p) OBVIOUS
      <4>3. Sorted(changes) BY DEF HistoryInv
      <4>4. Cut(changes, p, n) BY <1>11, <2>1, <4>2, <4>3, SortedHasCuts
      <4>5. n \in 0 .. Len(changes) BY <4>4 DEF Cut
      <4>6. Cut(l, p, n)
        <5>1. n \in 0 .. Len(l) BY <1>12, <4>5
        <5>2. ASSUME NEW i \in 1 .. n PROVE l[i].height <= p
          <6>1. i \in 1 .. Len(l) /\ i <= Len(changes) BY <1>12, <4>5
          <6>2. l[i] = changes[i] BY <1>13, <6>1
          <6> QED BY <4>4, <6>2 DEF Cut
        <5>3. ASSUME NEW i \in (n + 1) .. Len(l) PROVE l[i].height > p
          <6>1. i \in 1 .. Len(l) BY <1>12, <4>5
          <6>2. CASE i <= Len(changes)
            <7>1. l[i] = changes[i] /\ i \in (n + 1) .. Len(changes) BY <1>12, <1>13, <4>5, <6>1, <6>2
            <7> QED BY <4>4, <7>1 DEF Cut
          <6>3. CASE ~(i <= Len(changes))
            <7>1. l[i].height = h BY <1>13, <6>1, <6>3
            <7> QED BY <1>2, <2>1, <3>2, <7>1
          <6> QED BY <6>2, <6>3
        <5> QED BY <5>1, <5>2, <5>3 DEF Cut
      <4>7. m = n BY <1>11, <2>1, <2>2, <4>6, CutCounts
      <4>8. stn[n] = st[n] BY <1>10, <4>5 DEF Grown
      <4>9. st[n] = HistoryAt(p) BY <1>9, <4>1, <4>2
      <4>10. HistoryAt(p)' = HistoryAt(p)
        <5>1. CASE p = 0 BY <5>1 DEF HistoryAt
        <5>2. CASE p # 0
          <6>1. p \in 1 .. Len(snap) BY <1>2, <4>1, <5>2
          <6> QED BY <1>24, <5>2, <6>1 DEF HistoryAt
        <5> QED BY <5>1, <5>2
      <4> QED BY <4>7, <4>8, <4>9, <4>10
    <3> QED BY <3>1, <3>2
  <2> QED BY <2>7, <2>8, <2>9
<1>30. Ladder(sf, history', changes', txs') BY <1>7, <1>19, <1>22
<1>31. \A p \in floor' .. Len(snap') : sf[UpTo(changes', p)] = HistoryAt(p)' BY <1>19, <1>29
<1>32. changes' \in Seq(LogEntry) /\ Sorted(changes') /\ \A i \in 1 .. Len(changes') : changes'[i].height <= Len(snap')
  BY <1>19, <1>23, <1>26, <1>27
<1> QED BY <1>28, <1>30, <1>31, <1>32 DEF HistoryInv

\* Updates that insert nothing.
Quiet(s) == s \in Seq(UpdateRow) /\ \A i \in 1 .. Len(s) : s[i].tx = 0

\* Updates that insert nothing may follow.
LEMMA QuietAfter ==
    ASSUME NEW T, NEW U, NEW a, NEW b, BlockUpdates(a, T, U), Quiet(b) PROVE BlockUpdates(a \o b, T, U)
<1>1. a \in Seq(UpdateRow) /\ b \in Seq(UpdateRow) BY DEF BlockUpdates, Quiet
<1>2. PICK c : c = a \o b OBVIOUS
<1>3. /\ c \in Seq(UpdateRow) /\ Len(a) \in Nat /\ Len(b) \in Nat /\ Len(c) = Len(a) + Len(b)
      /\ \A i \in 1 .. Len(a) : c[i] = a[i]
      /\ \A i \in (Len(a) + 1) .. (Len(a) + Len(b)) : c[i] = b[i - Len(a)]
  BY <1>1, <1>2
<1>4. ASSUME NEW i \in 1 .. Len(c) PROVE c[i].tx = 0 \/ (i = 1 /\ c[i].tx = T + 1 /\ U = T + 1)
  <2>1. CASE i <= Len(a)
    <3>1. i \in 1 .. Len(a) /\ c[i] = a[i] BY <1>3, <2>1
    <3> QED BY <3>1 DEF BlockUpdates
  <2>2. CASE ~(i <= Len(a))
    <3>1. i \in (Len(a) + 1) .. (Len(a) + Len(b)) /\ i - Len(a) \in 1 .. Len(b) BY <1>3, <2>2
    <3>2. c[i] = b[i - Len(a)] BY <1>3, <3>1
    <3> QED BY <3>1, <3>2 DEF Quiet
  <2> QED BY <2>1, <2>2
<1>5. BlockUpdates(c, T, U) BY <1>3, <1>4 DEF BlockUpdates
<1> QED BY <1>2, <1>5

\* Two lists of updates that insert nothing, one after the other.
LEMMA QuietTwice == ASSUME NEW a, NEW b, Quiet(a), Quiet(b) PROVE Quiet(a \o b)
<1>1. a \in Seq(UpdateRow) /\ b \in Seq(UpdateRow) BY DEF Quiet
<1>2. PICK c : c = a \o b OBVIOUS
<1>3. /\ c \in Seq(UpdateRow) /\ Len(a) \in Nat /\ Len(b) \in Nat /\ Len(c) = Len(a) + Len(b)
      /\ \A i \in 1 .. Len(a) : c[i] = a[i]
      /\ \A i \in (Len(a) + 1) .. (Len(a) + Len(b)) : c[i] = b[i - Len(a)]
  BY <1>1, <1>2
<1>4. ASSUME NEW i \in 1 .. Len(c) PROVE c[i].tx = 0
  <2>1. CASE i <= Len(a)
    <3>1. i \in 1 .. Len(a) /\ c[i] = a[i] BY <1>3, <2>1
    <3> QED BY <3>1 DEF Quiet
  <2>2. CASE ~(i <= Len(a))
    <3>1. i \in (Len(a) + 1) .. (Len(a) + Len(b)) /\ i - Len(a) \in 1 .. Len(b) BY <1>3, <2>2
    <3>2. c[i] = b[i - Len(a)] BY <1>3, <3>1
    <3> QED BY <3>1, <3>2 DEF Quiet
  <2> QED BY <2>1, <2>2
<1>5. Quiet(c) BY <1>3, <1>4 DEF Quiet
<1> QED BY <1>2, <1>5

\* An update is of one of these rows.
LEMMA UpdateIsARow ==
    ASSUME NEW who \in Delegator, NEW tx \in Nat, NEW dblock \in Nat, NEW reason \in Reasons, NEW ublock \in Nat
    PROVE  Update(who, tx, dblock, reason, ublock) \in UpdateRow /\ Update(who, tx, dblock, reason, ublock).tx = tx
BY DEF Update, UpdateRow

\* The reasons an update may have.
LEMMA ReasonsAre == {NoReason, "killed", "applyingFailure", "transitive", "undelegation"} \subseteq Reasons
BY DEF Reasons

\* An update for each delegator of a list.
QuietOf(f, g) == g = [i \in DOMAIN f |-> g[i]] /\ \A i \in DOMAIN f : g[i] \in UpdateRow /\ g[i].tx = 0

\* An update of each of some delegators, in any order.
LEMMA QuietList ==
    ASSUME NEW S, S \subseteq Delegator, NEW f \in SetToSeqs(S), NEW g, QuietOf(f, g) PROVE Quiet(g)
<1>1. IsFiniteSet(S) BY DelegationsAssumption, FS_Subset
<1>2. f \in Seq(S) BY <1>1, OrderOfSet
<1>3. Len(f) \in Nat /\ DOMAIN f = 1 .. Len(f) BY <1>2
<1>4. g \in [1 .. Len(f) -> UpdateRow] BY <1>3 DEF QuietOf
<1>5. g \in Seq(UpdateRow) /\ Len(g) = Len(f) BY <1>3, <1>4
<1> QED BY <1>3, <1>5 DEF Quiet, QuietOf

\* What delegation.go detects of a block updates rows and inserts none.
LEMMA HistoryUpdatesAreQuiet ==
    ASSUME NEW L, NEW C, NEW R, L \subseteq Delegator, C \subseteq Delegator, R \subseteq Delegator,
           NEW ks \in SetToSeqs(L), NEW cs \in SetToSeqs(C), NEW rs \in SetToSeqs(R), NEW prev, NEW new, NEW h \in Nat
    PROVE  Quiet(HistoryUpdates(ks, cs, rs, prev, new, h))
<1>1. \A S \in SUBSET Delegator : \A f \in SetToSeqs(S) : \A i \in DOMAIN f : f[i] \in Delegator
  <2> SUFFICES ASSUME NEW S \in SUBSET Delegator, NEW f \in SetToSeqs(S) PROVE \A i \in DOMAIN f : f[i] \in Delegator
    OBVIOUS
  <2>1. IsFiniteSet(S) BY DelegationsAssumption, FS_Subset
  <2>2. f \in Seq(S) BY <2>1, OrderOfSet
  <2> QED BY <2>2
<1>2. /\ \A i \in DOMAIN ks : ks[i] \in Delegator
      /\ \A i \in DOMAIN cs : cs[i] \in Delegator
      /\ \A i \in DOMAIN rs : rs[i] \in Delegator
  BY <1>1
<1>3. ASSUME NEW a \in Delegator
      PROVE  /\ KilledUpdate(a, h) \in UpdateRow /\ KilledUpdate(a, h).tx = 0
             /\ SwitchUpdate(a, prev, new, h) \in UpdateRow /\ SwitchUpdate(a, prev, new, h).tx = 0
             /\ Update(a, 0, 0, "transitive", h) \in UpdateRow /\ Update(a, 0, 0, "transitive", h).tx = 0
  <2>1. 0 \in Nat OBVIOUS
  <2>2. "killed" \in Reasons /\ "transitive" \in Reasons /\ "applyingFailure" \in Reasons /\ NoReason \in Reasons
    BY ReasonsAre
  <2>3. KilledUpdate(a, h) \in UpdateRow /\ KilledUpdate(a, h).tx = 0 BY <2>1, <2>2, UpdateIsARow DEF KilledUpdate
  <2>4. Update(a, 0, 0, "transitive", h) \in UpdateRow /\ Update(a, 0, 0, "transitive", h).tx = 0
    BY <2>1, <2>2, UpdateIsARow
  <2>5. /\ Update(a, 0, h, "applyingFailure", h) \in UpdateRow /\ Update(a, 0, h, "applyingFailure", h).tx = 0
        /\ Update(a, 0, h, NoReason, 0) \in UpdateRow /\ Update(a, 0, h, NoReason, 0).tx = 0
        /\ Update(a, 0, 0, NoReason, h) \in UpdateRow /\ Update(a, 0, 0, NoReason, h).tx = 0
    BY <2>1, <2>2, UpdateIsARow
  <2>6. \/ SwitchUpdate(a, prev, new, h) = Update(a, 0, h, "applyingFailure", h)
        \/ SwitchUpdate(a, prev, new, h) = Update(a, 0, h, NoReason, 0)
        \/ SwitchUpdate(a, prev, new, h) = Update(a, 0, 0, NoReason, h)
    BY DEF SwitchUpdate
  <2> QED BY <2>3, <2>4, <2>5, <2>6
<1>4. PICK x : x = [i \in DOMAIN ks |-> KilledUpdate(ks[i], h)] OBVIOUS
<1>5. PICK y : y = [i \in DOMAIN cs |-> SwitchUpdate(cs[i], prev, new, h)] OBVIOUS
<1>6. PICK z : z = [i \in DOMAIN rs |-> Update(rs[i], 0, 0, "transitive", h)] OBVIOUS
<1>7. QuietOf(ks, x) BY <1>2, <1>3, <1>4 DEF QuietOf
<1>8. QuietOf(cs, y) BY <1>2, <1>3, <1>5 DEF QuietOf
<1>9. QuietOf(rs, z) BY <1>2, <1>3, <1>6 DEF QuietOf
<1>10. Quiet(x) /\ Quiet(y) /\ Quiet(z) BY <1>7, <1>8, <1>9, QuietList
<1>11. PICK w : w = x \o y OBVIOUS
<1>12. Quiet(w) BY <1>10, <1>11, QuietTwice
<1>13. Quiet(w \o z) BY <1>10, <1>12, QuietTwice
<1>14. HistoryUpdates(ks, cs, rs, prev, new, h) = x \o y \o z BY <1>4, <1>5, <1>6 DEF HistoryUpdates
<1> QED BY <1>11, <1>13, <1>14

\* What a transaction does to the history.
LEMMA TxUpdateIsNext ==
    ASSUME txs \in Nat, NEW a \in Delegator, NEW to \in Pool \cup {NoOne}
    PROVE  BlockUpdates(<<TxUpdate(a, to)>>, txs, txs + 1)
<1>1. PICK u : u = TxUpdate(a, to) OBVIOUS
<1>2. "undelegation" \in Reasons /\ NoReason \in Reasons BY ReasonsAre
<1>3. 0 \in Nat /\ txs + 1 \in Nat OBVIOUS
<1>4. u \in UpdateRow /\ (u.tx = 0 \/ u.tx = txs + 1)
  <2>1. CASE to = NoOne
    <3>1. u = Update(a, 0, 0, "undelegation", 0) BY <1>1, <2>1 DEF TxUpdate
    <3>2. Update(a, 0, 0, "undelegation", 0) \in UpdateRow /\ Update(a, 0, 0, "undelegation", 0).tx = 0
      BY <1>2, <1>3, UpdateIsARow
    <3> QED BY <3>1, <3>2
  <2>2. CASE to # NoOne
    <3>1. u = Update(a, txs + 1, 0, NoReason, 0) BY <1>1, <2>2 DEF TxUpdate
    <3>2. Update(a, txs + 1, 0, NoReason, 0) \in UpdateRow /\ Update(a, txs + 1, 0, NoReason, 0).tx = txs + 1
      BY <1>2, <1>3, UpdateIsARow
    <3> QED BY <3>1, <3>2
  <2> QED BY <2>1, <2>2
<1>5. <<u>> \in Seq(UpdateRow) /\ Len(<<u>>) = 1 /\ (<<u>>)[1] = u BY <1>4
<1>6. \A i \in 1 .. 1 : i = 1 OBVIOUS
<1>7. BlockUpdates(<<u>>, txs, txs + 1) BY <1>4, <1>5, <1>6 DEF BlockUpdates
<1> QED BY <1>1, <1>7

\* A block with a transaction can be undone.
LEMMA TxBlockKeepsHistory ==
    ASSUME PoolsInv, HistoryInv, NEW a \in Delegator, NEW to \in Pool \cup {NoOne}, SaveTxBlock(a, to) PROVE HistoryInv'
<1>1. txs \in Nat BY DEF PoolsInv
<1>2. PICK s : s = <<TxUpdate(a, to)>> OBVIOUS
<1>3. PICK U : U = txs + 1 OBVIOUS
<1>4. BlockUpdates(s, txs, U) BY <1>1, <1>2, <1>3, TxUpdateIsNext
<1>5. PICK new : Commit(new, s) BY <1>2 DEF SaveTxBlock
<1>6. txs' = U /\ txs <= U /\ U \in Nat BY <1>1, <1>3 DEF SaveTxBlock
<1> QED BY <1>4, <1>5, <1>6, CommitKeepsHistory

\* A block that applies what waits can be undone.
LEMMA UpdateBlockKeepsHistory ==
    ASSUME PoolsInv, HistoryInv, NEW sent \in SentBy, NEW killed \in SUBSET Delegator, NEW dropped,
           NEW removed \in SUBSET {a \in Delegator : node.delegatee[a] # NoOne}, NEW flipped,
           SaveUpdateBlock(sent, killed, dropped, removed, flipped)
    PROVE  HistoryInv'
<1>1. txs \in Nat /\ node \in NodeState BY DEF PoolsInv
<1>2. PICK X : snap \in Seq(X) BY DEF PoolsInv
<1>3. Len(snap) \in Nat BY <1>2
<1>4. PICK new : new = AfterUpdate(ToApply(sent), killed, dropped, removed, flipped) OBVIOUS
<1>5. PICK L : L = Leaving(killed) OBVIOUS
<1>6. PICK C : C = Candidates(sent, killed, new) OBVIOUS
<1>7. PICK own : own = [i \in 1 .. Len(sent) |-> TxUpdate(sent[i].who, sent[i].to)] OBVIOUS
<1>8. PICK h : h = Height + 1 OBVIOUS
<1>9. /\ txs' = txs + Len(sent)
      /\ \E ks \in SetToSeqs(L), rs \in SetToSeqs(removed) : \E cs \in SetToSeqs(C) :
           Commit(new, own \o HistoryUpdates(ks, cs, rs, node, new, h))
  BY <1>4, <1>5, <1>6, <1>7, <1>8 DEF SaveUpdateBlock, ToApply, Leaving, Candidates
<1>10. PICK ks \in SetToSeqs(L), rs \in SetToSeqs(removed), cs \in SetToSeqs(C) :
         Commit(new, own \o HistoryUpdates(ks, cs, rs, node, new, h))
  BY <1>9
<1>11. h \in Nat BY <1>3, <1>8 DEF Height
<1>12. L \subseteq Delegator /\ C \subseteq Delegator /\ removed \subseteq Delegator
  <2>1. DOMAIN node.waiting \subseteq Delegator BY <1>1 DEF NodeState
  <2>2. LeftOver(sent, killed \cup DOMAIN node.waiting, node, new) \subseteq Delegator BY DEF LeftOver
  <2> QED BY <1>5, <1>6, <2>1, <2>2 DEF Leaving, Candidates
<1>13. PICK t : t = HistoryUpdates(ks, cs, rs, node, new, h) OBVIOUS
<1>14. Quiet(t) BY <1>11, <1>12, <1>13, HistoryUpdatesAreQuiet
<1>15. PICK U : U = txs + Len(sent) OBVIOUS
<1>16. BlockUpdates(own, txs, U) /\ U \in Nat /\ txs <= U
  <2>1. CASE sent = << >>
    <3>1. Len(sent) = 0 BY <2>1
    <3>2. own = << >> BY <1>7, <3>1
    <3>3. own \in Seq(UpdateRow) /\ Len(own) = 0 BY <3>2
    <3>4. BlockUpdates(own, txs, U) BY <3>3 DEF BlockUpdates
    <3> QED BY <1>1, <1>15, <3>1, <3>4
  <2>2. CASE sent # << >>
    <3>1. PICK a \in Delegator, p \in Pool \cup {NoOne} : sent = <<[who |-> a, to |-> p]>> BY <2>2 DEF SentBy
    <3>2. Len(sent) = 1 /\ sent[1].who = a /\ sent[1].to = p BY <3>1
    <3>3. own = <<TxUpdate(a, p)>> BY <1>7, <3>2
    <3>4. U = txs + 1 BY <1>15, <3>2
    <3> QED BY <1>1, <3>3, <3>4, TxUpdateIsNext
  <2> QED BY <2>1, <2>2
<1>17. PICK s : s = own \o t OBVIOUS
<1>18. BlockUpdates(s, txs, U) BY <1>14, <1>16, <1>17, QuietAfter
<1>19. Commit(new, s) BY <1>10, <1>13, <1>17
<1>20. txs' = U BY <1>9, <1>15
<1> QED BY <1>16, <1>18, <1>19, <1>20, CommitKeepsHistory

\* A reset goes down the ladder to the end of a block.
LEMMA ResetKeepsHistory == ASSUME PoolsInv, HistoryInv, NEW p, ResetTo(p) PROVE HistoryInv'
<1>1. PICK X : snap \in Seq(X) BY DEF PoolsInv
<1>2. Len(snap) \in Nat /\ floor \in Nat BY <1>1 DEF PoolsInv
<1>3. PICK k : k = UpTo(changes, p) OBVIOUS
<1>4. PICK c : c = changes' OBVIOUS
<1>5. /\ p \in floor .. Len(snap) - 1 /\ snap' = SubSeq(snap, 1, p) /\ floor' = floor /\ txs' = txs
      /\ c = SubSeq(changes, 1, k) /\ history' = Undone(history, changes)[Len(changes) - k]
  BY <1>3, <1>4 DEF ResetTo, Height, UndoLast
<1>6. p \in Nat /\ p \in Int /\ p <= Len(snap) /\ floor <= p BY <1>2, <1>5
<1>7. PICK st : /\ Ladder(st, history, changes, txs)
                /\ \A q \in floor .. Len(snap) : st[UpTo(changes, q)] = HistoryAt(q)
  BY DEF HistoryInv
<1>8. changes \in Seq(LogEntry) /\ Sorted(changes) BY DEF HistoryInv
<1>9. Len(changes) \in Nat BY <1>8
<1>10. Cut(changes, p, k) BY <1>3, <1>6, <1>8, SortedHasCuts
<1>11. k \in 0 .. Len(changes) BY <1>10 DEF Cut
<1>12. PICK n : n = Len(changes) - k OBVIOUS
<1>13. n \in 0 .. Len(changes) /\ Len(changes) - n = k BY <1>9, <1>11, <1>12
<1>14. Undone(history, changes)[n] = st[k] BY <1>7, <1>13, UndoneGoesDown
<1>15. history' = st[k] BY <1>5, <1>12, <1>14
<1>16. Ladder(st, st[k], c, txs) /\ Len(c) = k /\ \A i \in 1 .. k : c[i] = changes[i]
  <2>1. FirstOf(changes, k, c) BY <1>5 DEF FirstOf
  <2>2. Ladder(st, history, changes, txs) BY <1>7
  <2> QED BY <1>11, <2>1, <2>2, LadderPrefix
<1>17. c \in Seq(LogEntry) BY <1>16 DEF Ladder
<1>18. Len(snap') = p /\ \A i \in 1 .. p : snap'[i] = snap[i] BY <1>1, <1>2, <1>5, <1>6
<1>19. Sorted(c)
  <2> SUFFICES ASSUME NEW i \in 1 .. k, NEW j \in 1 .. k, i <= j PROVE c[i].height <= c[j].height BY <1>16 DEF Sorted
  <2>1. i \in 1 .. Len(changes) /\ j \in 1 .. Len(changes) BY <1>9, <1>11
  <2> QED BY <1>8, <1>16, <2>1 DEF Sorted
<1>20. \A i \in 1 .. Len(c) : c[i].height <= Len(snap') BY <1>10, <1>16, <1>18 DEF Cut
<1>21. ASSUME NEW q \in floor .. p PROVE st[UpTo(c, q)] = HistoryAt(q)'
  <2>1. q \in floor .. Len(snap) /\ q \in Int /\ q <= p /\ q \in Nat BY <1>2, <1>6
  <2>2. PICK m : m = UpTo(changes, q) OBVIOUS
  <2>3. Cut(changes, q, m) BY <1>8, <2>1, <2>2, SortedHasCuts
  <2>4. m \in 0 .. Len(changes) BY <2>3 DEF Cut
  <2>5. m <= k
    <3> SUFFICES ASSUME ~(m <= k) PROVE FALSE OBVIOUS
    <3>1. k + 1 \in (k + 1) .. Len(changes) /\ k + 1 \in 1 .. m /\ k + 1 \in 1 .. Len(changes) BY <1>9, <1>11, <2>4
    <3>2. changes[k + 1].height > p /\ changes[k + 1].height <= q BY <1>10, <2>3, <3>1 DEF Cut
    <3>3. changes[k + 1] \in LogEntry BY <1>8, <3>1
    <3>4. changes[k + 1].height \in Nat BY <3>3 DEF LogEntry
    <3> QED BY <1>6, <2>1, <3>2, <3>4
  <2>6. Cut(c, q, m)
    <3>1. m \in 0 .. Len(c) BY <1>11, <1>16, <2>4, <2>5
    <3>2. ASSUME NEW i \in 1 .. m PROVE c[i].height <= q
      <4>1. i \in 1 .. k BY <1>11, <2>4, <2>5
      <4>2. changes[i].height <= q BY <2>3 DEF Cut
      <4> QED BY <1>16, <4>1, <4>2
    <3>3. ASSUME NEW i \in (m + 1) .. Len(c) PROVE c[i].height > q
      <4>1. i \in 1 .. k /\ i \in (m + 1) .. Len(changes) BY <1>9, <1>11, <1>16, <2>4
      <4>2. changes[i].height > q BY <2>3, <4>1 DEF Cut
      <4> QED BY <1>16, <4>1, <4>2
    <3> QED BY <3>1, <3>2, <3>3 DEF Cut
  <2>7. UpTo(c, q) = m BY <1>17, <2>1, <2>6, CutCounts
  <2>8. st[m] = HistoryAt(q) BY <1>7, <2>1, <2>2
  <2>9. HistoryAt(q)' = HistoryAt(q)
    <3>1. CASE q = 0 BY <3>1 DEF HistoryAt
    <3>2. CASE q # 0
      <4>1. q \in 1 .. p BY <1>6, <2>1, <3>2
      <4> QED BY <1>18, <3>2, <4>1 DEF HistoryAt
    <3> QED BY <3>1, <3>2
  <2> QED BY <2>7, <2>8, <2>9
<1>22. Ladder(st, history', changes', txs') BY <1>4, <1>5, <1>15, <1>16
<1>23. \A q \in floor' .. Len(snap') : st[UpTo(changes', q)] = HistoryAt(q)' BY <1>4, <1>5, <1>18, <1>21
<1>24. floor' <= Len(snap') BY <1>5, <1>6, <1>18
<1>25. changes' \in Seq(LogEntry) /\ Sorted(changes') /\ \A i \in 1 .. Len(changes') : changes'[i].height <= Len(snap')
  BY <1>4, <1>17, <1>19, <1>20
<1> QED BY <1>22, <1>23, <1>24, <1>25 DEF HistoryInv

\* There is no history below block 1.
LEMMA HistoryInvInit == Init => HistoryInv
<1> SUFFICES ASSUME Init PROVE HistoryInv OBVIOUS
<1>1. changes = << >> /\ snap = << >> /\ history = {} /\ floor = 0 /\ txs = 0 BY DEF Init
<1>2. changes \in Seq(LogEntry) /\ Len(changes) = 0 /\ Len(snap) = 0 BY <1>1
<1>3. PICK st : st = [i \in 0 .. 0 |-> {}] OBVIOUS
<1>4. st[0] = {} /\ \A i \in 0 .. 0 : st[i] = {} BY <1>3
<1>5. Good({}, 0) BY DEF Good
<1>6. Ladder(st, history, changes, txs)
  <2>1. \A i \in 0 .. 0 : Good(st[i], 0) BY <1>4, <1>5
  <2> QED BY <1>1, <1>2, <1>4, <2>1 DEF Ladder
<1>7. Sorted(changes) BY <1>2 DEF Sorted
<1>8. ASSUME NEW p \in floor .. Len(snap) PROVE st[UpTo(changes, p)] = HistoryAt(p)
  <2>1. p = 0 BY <1>1, <1>2
  <2>2. UpTo(changes, p) = 0
    <3>1. Cut(changes, p, 0) BY <1>2 DEF Cut
    <3>2. p \in Int BY <2>1
    <3> QED BY <1>2, <3>1, <3>2, CutCounts
  <2> QED BY <1>4, <2>1, <2>2 DEF HistoryAt
<1> QED BY <1>1, <1>2, <1>6, <1>7, <1>8 DEF HistoryInv

\* Every step keeps the log a ladder.
LEMMA HistoryInvNext == PoolsInv /\ HistoryInv /\ [Next]_vars => HistoryInv'
<1> SUFFICES ASSUME PoolsInv, HistoryInv, [Next]_vars PROVE HistoryInv' OBVIOUS
<1>1. CASE \E a \in Delegator, to \in Pool \cup {NoOne} : SaveTxBlock(a, to) BY <1>1, TxBlockKeepsHistory
<1>2. CASE UpdateBlock
  <2>1. PICK sent \in {<< >>} \cup {<<[who |-> a, to |-> p]>> :
                                       a \in Delegator, p \in Pool \cup {NoOne}},
             killed \in SUBSET Delegator, dropped \in SUBSET Delegator,
             removed \in SUBSET {a \in Delegator : node.delegatee[a] # NoOne},
             flipped \in SUBSET (Delegator \cup Pool) :
          SaveUpdateBlock(sent, killed, dropped, removed, flipped)
    BY <1>2 DEF UpdateBlock
  <2>2. sent \in SentBy BY <2>1 DEF SentBy
  <2> QED BY <2>1, <2>2, UpdateBlockKeepsHistory
<1>3. CASE \E p \in 0 .. MaxHeight : ResetTo(p) BY <1>3, ResetKeepsHistory
<1>4. CASE Restore BY <1>4 DEF HistoryInv, Restore, HistoryAt
<1>5. CASE UNCHANGED vars BY <1>5 DEF HistoryInv, vars, HistoryAt
<1> QED BY <1>1, <1>2, <1>3, <1>4, <1>5 DEF Next

\* The ladder gives back the table of every block it reaches, and each of its steps is a good table.
LEMMA HistoryInvGoesBack == PoolsInv /\ HistoryInv => HistoryGoesBack
<1> SUFFICES ASSUME PoolsInv, HistoryInv PROVE HistoryGoesBack OBVIOUS
<1>1. PICK X : snap \in Seq(X) BY DEF PoolsInv
<1>2. Len(snap) \in Nat /\ floor \in Nat BY <1>1 DEF PoolsInv
<1>3. PICK st : /\ Ladder(st, history, changes, txs)
                /\ \A q \in floor .. Len(snap) : st[UpTo(changes, q)] = HistoryAt(q)
  BY DEF HistoryInv
<1>4. changes \in Seq(LogEntry) /\ Sorted(changes) BY DEF HistoryInv
<1>5. Len(changes) \in Nat BY <1>4
<1>6. HistoryIsRecoverable
  <2> SUFFICES ASSUME NEW p \in floor .. Len(snap)
               PROVE  UndoLast(Len(changes) - UpTo(changes, p)) = IF p = 0 THEN {} ELSE snap[p].history
    BY DEF HistoryIsRecoverable, Height
  <2>1. p \in Int BY <1>2
  <2>2. PICK k : k = UpTo(changes, p) OBVIOUS
  <2>3. Cut(changes, p, k) BY <1>4, <2>1, <2>2, SortedHasCuts
  <2>4. k \in 0 .. Len(changes) BY <2>3 DEF Cut
  <2>5. PICK n : n = Len(changes) - k OBVIOUS
  <2>6. n \in 0 .. Len(changes) /\ Len(changes) - n = k BY <1>5, <2>4, <2>5
  <2>7. Undone(history, changes)[n] = st[k] BY <1>3, <2>6, UndoneGoesDown
  <2>8. st[k] = HistoryAt(p) BY <1>3, <2>2
  <2> QED BY <2>2, <2>5, <2>7, <2>8 DEF UndoLast, HistoryAt
<1>7. OneActualRow
  <2> SUFFICES ASSUME NEW n \in 0 .. Len(changes), NEW a \in Delegator PROVE Cardinality(Actual(UndoLast(n), a)) <= 1
    BY DEF OneActualRow
  <2>1. PICK j : j = Len(changes) - n OBVIOUS
  <2>2. j \in 0 .. Len(changes) BY <1>5, <2>1
  <2>3. Undone(history, changes)[n] = st[j] BY <1>3, <2>1, UndoneGoesDown
  <2>4. PICK rows : rows = st[j] OBVIOUS
  <2>5. Good(rows, txs) BY <1>3, <2>2, <2>4 DEF Ladder
  <2>6. Cardinality(Actual(rows, a)) <= 1 BY <2>5, GoodHasOneActual
  <2> QED BY <2>3, <2>4, <2>6 DEF UndoLast
<1> QED BY <1>6, <1>7 DEF HistoryGoesBack

\* The delegation history can be taken back to every block the log still
\* reaches, and the replay of the log never has two actual rows of a delegator,
\* although reset_delegation_history_changes tells an insertion from an update
\* only by the null columns of its log entry.
THEOREM HistoryGoesBackAlways == Spec => []HistoryGoesBack
<1> DEFINE Inv == PoolsInv /\ HistoryInv
<1>1. Init => Inv BY PoolsInvInit, HistoryInvInit
<1>2. Inv /\ [Next]_vars => Inv' BY PoolsInvNext, HistoryInvNext
<1>3. Inv => HistoryGoesBack BY HistoryInvGoesBack
<1> HIDE DEF Inv
<1> QED BY <1>1, <1>2, <1>3, PTL DEF Spec
=============================================================================
