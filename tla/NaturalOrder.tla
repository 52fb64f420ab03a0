---------------------------- MODULE NaturalOrder ----------------------------
(***************************************************************************)
(* Facts about sets of naturals that the proofs of the other modules use:  *)
(* a non-empty one has a least element, and a greatest one when it is      *)
(* bounded; one that holds 0 and every successor of a member is all of Nat.*)
(* And what follows about what is defined from each number to the next:    *)
(* growing sets, the reached part of a graph, sequences from which items   *)
(* are dropped or that are put together from pieces, iterated functions.   *)
(***************************************************************************)
EXTENDS Integers, FiniteSetTheorems, SequenceTheorems, WellFoundedInduction, TLAPS

\* Every non-empty set of naturals has a least element.  Derived from the
\* library's fact that finite sets are well founded under strict inclusion,
\* applied to the initial segments 0..k.
LEMMA LeastElement ==
  ASSUME NEW S \in SUBSET Nat, S # {}
  PROVE  \E m \in S : \A k \in S : m <= k
<1> DEFINE Segments == {0 .. k : k \in S}
<1>1. IsWellFoundedOn(StrictSubsetOrdering(Nat), FiniteSubsetsOf(Nat))
  BY FS_StrictSubsetOrderingWellFounded
<1>2. Segments \subseteq FiniteSubsetsOf(Nat) /\ Segments # {}
  <2>1. ASSUME NEW k \in S PROVE 0 .. k \in FiniteSubsetsOf(Nat)
    <3>1. IsFiniteSet(0 .. k) BY FS_Interval
    <3>2. 0 .. k \in SUBSET Nat OBVIOUS
    <3>3. QED BY <3>1, <3>2 DEF FiniteSubsetsOf
  <2>2. QED BY <2>1
<1>3. PICK X \in Segments :
        \A Y \in Segments : <<Y, X>> \notin StrictSubsetOrdering(Nat)
  <2> HIDE DEF Segments
  <2> QED BY <1>1, <1>2, WFMin
<1>4. PICK m \in S : X = 0 .. m
  BY <1>3
<1>5. ASSUME NEW k \in S PROVE m <= k
  <2>1. <<0 .. k, 0 .. m>> \notin StrictSubsetOrdering(Nat)
    BY <1>3, <1>4
  <2>2. 0 .. k \in SUBSET Nat /\ 0 .. m \in SUBSET Nat
    OBVIOUS
  <2>3. ASSUME k < m PROVE FALSE
    <3>1. m \in 0 .. m /\ m \notin 0 .. k BY <2>3
    <3>2. 0 .. k \subseteq 0 .. m BY <2>3
    <3>3. QED BY <2>1, <2>2, <3>1, <3>2 DEF StrictSubsetOrdering
  <2>4. QED BY <2>3
<1>6. QED BY <1>5

\* A non-empty set of naturals bounded by n has a greatest element.
LEMMA GreatestElement ==
  ASSUME NEW n \in Nat, NEW S \in SUBSET (0 .. n), S # {}
  PROVE  \E m \in S : \A k \in S : k <= m
<1> DEFINE T == {n - k : k \in S}
<1>1. T \in SUBSET Nat /\ T # {}
  <2>1. \A k \in S : n - k \in Nat OBVIOUS
  <2>2. QED BY <2>1
<1>2. PICK t \in T : \A u \in T : t <= u
  <2> HIDE DEF T
  <2> QED BY <1>1, LeastElement
<1>3. PICK m \in S : t = n - m
  BY <1>2
<1>4. \A k \in S : n - m <= n - k
  BY <1>2, <1>3
<1>5. QED BY <1>4

\* Induction, for what can be said with a set.
LEMMA InductionOnSet ==
  ASSUME NEW S, 0 \in S, \A n \in Nat : n \in S => n + 1 \in S
  PROVE  Nat \subseteq S
<1>1. SUFFICES ASSUME Nat \ S # {} PROVE FALSE
  OBVIOUS
<1>2. PICK m \in Nat \ S : \A k \in Nat \ S : m <= k
  BY <1>1, LeastElement
<1>3. m # 0 /\ m - 1 \in Nat /\ m - 1 + 1 = m /\ ~(m <= m - 1)
  BY <1>2
<1>4. m - 1 \in S
  BY <1>2, <1>3
<1> QED  BY <1>2, <1>3, <1>4

\* Values of V defined from each number to the next, by F.
Recurs(V, x, F, n, h) ==
  h \in [0 .. n -> V] /\ h[0] = x /\ \A k \in 1 .. n : h[k] = F[<<k, h[k-1]>>]

\* There are such values.
LEMMA Recursion ==
  ASSUME NEW V, NEW x \in V, NEW F \in [Nat \X V -> V], NEW n \in Nat
  PROVE  \E h : Recurs(V, x, F, n, h)
<1> DEFINE Good(m, h) == h \in [0 .. m -> V] /\ h[0] = x /\ \A k \in 1 .. m : h[k] = F[<<k, h[k-1]>>]
           T == {m \in Nat : \E h : Good(m, h)}
<1>1. 0 \in T
  <2>1. Good(0, [k \in 0 .. 0 |-> x])
    OBVIOUS
  <2> HIDE DEF Good
  <2> QED  BY <2>1
<1>2. ASSUME NEW m \in Nat, m \in T PROVE m + 1 \in T
  <2>1. PICK h : Good(m, h)
    BY <1>2
  <2> DEFINE i == [k \in 0 .. m + 1 |-> IF k = m + 1 THEN F[<<m + 1, h[m]>>] ELSE h[k]]
  <2>2. /\ \A k \in 0 .. m : h[k] \in V
        /\ h[0] = x /\ \A k \in 1 .. m : h[k] = F[<<k, h[k-1]>>]
    BY <2>1
  <2>3. \A k \in 0 .. m : i[k] = h[k]
    OBVIOUS
  <2>4. i[m + 1] = F[<<m + 1, h[m]>>] /\ i[m + 1] \in V
    <3>1. m \in 0 .. m /\ m + 1 \in Nat
      OBVIOUS
    <3>2. <<m + 1, h[m]>> \in Nat \X V
      BY <2>2, <3>1
    <3> QED  BY <3>2
  <2>5. i \in [0 .. m + 1 -> V]
    <3>1. \A k \in 0 .. m + 1 : k \in 0 .. m \/ k = m + 1
      OBVIOUS
    <3>2. \A k \in 0 .. m + 1 : i[k] \in V
      BY <2>2, <2>3, <2>4, <3>1
    <3> QED  BY <3>2
  <2> HIDE DEF i
  <2>6. i[0] = x
    BY <2>2, <2>3
  <2>7. ASSUME NEW k \in 1 .. m + 1 PROVE i[k] = F[<<k, i[k-1]>>]
    <3>1. k - 1 \in 0 .. m
      OBVIOUS
    <3>2. i[k-1] = h[k-1]
      BY <2>3, <3>1
    <3>3. CASE k = m + 1
      BY <2>4, <3>2, <3>3
    <3>4. CASE k # m + 1
      <4>1. k \in 0 .. m /\ k \in 1 .. m
        BY <3>4
      <4> QED  BY <2>2, <2>3, <3>2, <4>1
    <3> QED  BY <3>3, <3>4
  <2> QED  BY <2>5, <2>6, <2>7
<1>3. Nat \subseteq T
  <2> HIDE DEF T
  <2> QED  BY <1>1, <1>2, InductionOnSet
<1>4. PICK h : Good(n, h)
  BY <1>3
<1> QED  BY <1>4 DEF Recurs

\* A chain of growing sets that stands still once it has not grown: as long as
\* its bound is large, it ends with its bound or has stood still.
LEMMA ChainSettles ==
  ASSUME NEW B, IsFiniteSet(B), NEW n \in Nat, Cardinality(B) <= n, NEW h,
         \A k \in 0 .. n : h[k] \subseteq B,
         \A k \in 1 .. n : h[k-1] \subseteq h[k],
         \A k \in 1 .. n : k < n /\ h[k] = h[k-1] => h[k+1] = h[k]
  PROVE  h[n] = B \/ (n > 0 /\ h[n] = h[n-1])
<1> DEFINE Good(k) == Cardinality(h[k]) >= k \/ (k > 0 /\ h[k] = h[k-1])
           T == {k \in Nat : k <= n => Good(k)}
<1>1. \A k \in 0 .. n : IsFiniteSet(h[k]) /\ Cardinality(h[k]) \in Nat
  BY FS_Subset, FS_CardinalityType
<1>2. 0 \in T
  <2>1. 0 \in 0 .. n
    OBVIOUS
  <2> QED  BY <1>1, <2>1
<1>3. ASSUME NEW k \in Nat, k \in T PROVE k + 1 \in T
  <2>1. SUFFICES ASSUME k + 1 <= n PROVE Good(k + 1)
    OBVIOUS
  <2>2. k \in 0 .. n /\ k + 1 \in 0 .. n /\ k + 1 \in 1 .. n /\ k + 1 - 1 = k /\ k < n /\ k <= n
    BY <2>1
  <2>3. h[k] \subseteq h[k+1]
    BY <2>2
  <2>4. Good(k)
    BY <1>3, <2>2
  <2>5. CASE h[k+1] = h[k]
    BY <2>2, <2>5
  <2>6. CASE h[k+1] # h[k]
    <3>1. ~(k > 0 /\ h[k] = h[k-1])
      <4>1. k > 0 => k \in 1 .. n
        BY <2>2
      <4> QED  BY <2>2, <2>6, <4>1
    <3>2. Cardinality(h[k]) >= k
      BY <2>4, <3>1
    <3>3. Cardinality(h[k]) <= Cardinality(h[k+1]) /\ Cardinality(h[k]) # Cardinality(h[k+1])
      BY <1>1, <2>2, <2>3, <2>6, FS_Subset
    <3> QED  BY <1>1, <2>2, <3>2, <3>3
  <2> QED  BY <2>5, <2>6
<1>4. Good(n)
  <2> HIDE DEF Good
  <2>1. Nat \subseteq T
    <3> HIDE DEF T
    <3> QED  BY <1>2, <1>3, InductionOnSet
  <2> QED  BY <2>1
<1>5. CASE Cardinality(h[n]) >= n
  <2>1. n \in 0 .. n
    OBVIOUS
  <2>2. h[n] \subseteq B /\ Cardinality(h[n]) <= Cardinality(B) /\ Cardinality(B) \in Nat
    BY <2>1, FS_Subset, FS_CardinalityType
  <2>3. Cardinality(h[n]) = Cardinality(B)
    BY <1>1, <1>5, <2>1, <2>2
  <2> QED  BY <2>2, <2>3, FS_Subset
<1> QED  BY <1>4, <1>5

\* R is the least set that holds base and to which F adds nothing.
IsLeast(B, base, F, R) ==
  /\ R \in SUBSET B /\ base \subseteq R /\ F[R] \subseteq R
  /\ \A C : base \subseteq C /\ (\A S \in SUBSET B : S \subseteq C => F[S] \subseteq C) => R \subseteq C

\* A chain of sets, each with what F adds to the one before.
Grows(B, base, F, n, h) ==
  h \in [0 .. n -> SUBSET B] /\ h[0] = base /\ \A k \in 1 .. n : h[k] = h[k-1] \cup F[h[k-1]]

\* It ends with the least such set.
LEMMA ChainIsLeast ==
  ASSUME NEW B, IsFiniteSet(B), NEW n \in Nat, Cardinality(B) <= n,
         NEW base \in SUBSET B, NEW F \in [SUBSET B -> SUBSET B],
         NEW h, h[0] = base,
         \A k \in 1 .. n : h[k-1] \in SUBSET B => h[k] = h[k-1] \cup F[h[k-1]]
  PROVE  IsLeast(B, base, F, h[n])
<1> DEFINE Least(S) == \A C : base \subseteq C /\ (\A T \in SUBSET B : T \subseteq C => F[T] \subseteq C)
                                => S \subseteq C
           U == {k \in Nat : k <= n => h[k] \in SUBSET B /\ base \subseteq h[k] /\ Least(h[k])}
<1>1. 0 \in U
  OBVIOUS
<1>2. ASSUME NEW k \in Nat, k \in U PROVE k + 1 \in U
  <2>1. SUFFICES ASSUME k + 1 <= n
                 PROVE  h[k+1] \in SUBSET B /\ base \subseteq h[k+1] /\ Least(h[k+1])
    OBVIOUS
  <2>2. k + 1 \in 1 .. n /\ k + 1 - 1 = k /\ k <= n
    BY <2>1
  <2>3. h[k] \in SUBSET B /\ base \subseteq h[k] /\ Least(h[k])
    BY <1>2, <2>2
  <2>4. h[k+1] = h[k] \cup F[h[k]] /\ F[h[k]] \in SUBSET B
    BY <2>2, <2>3
  <2>5. Least(h[k+1])
    BY <2>3, <2>4
  <2> HIDE DEF Least
  <2> QED  BY <2>3, <2>4, <2>5
<1>3. \A k \in 0 .. n : h[k] \in SUBSET B /\ base \subseteq h[k] /\ Least(h[k])
  <2> HIDE DEF U
  <2>1. Nat \subseteq U
    BY <1>1, <1>2, InductionOnSet
  <2>2. \A k \in 0 .. n : k \in U /\ k <= n
    BY <2>1
  <2> QED  BY <2>2 DEF U
<1> HIDE DEF Least
<1>4. \A k \in 1 .. n : k - 1 \in 0 .. n /\ h[k] = h[k-1] \cup F[h[k-1]]
  <2>1. \A k \in 1 .. n : k - 1 \in 0 .. n
    OBVIOUS
  <2> QED  BY <1>3, <2>1
<1>5. h[n] = B \/ (n > 0 /\ h[n] = h[n-1])
  <2>1. \A k \in 0 .. n : h[k] \subseteq B
    BY <1>3
  <2>2. \A k \in 1 .. n : h[k-1] \subseteq h[k]
    BY <1>4
  <2>3. ASSUME NEW k \in 1 .. n, k < n, h[k] = h[k-1] PROVE h[k+1] = h[k]
    <3>1. k + 1 \in 1 .. n /\ k + 1 - 1 = k
      BY <2>3
    <3>2. h[k+1] = h[k] \cup F[h[k]] /\ h[k] = h[k-1] \cup F[h[k-1]]
      BY <1>4, <3>1
    <3> QED  BY <2>3, <3>2
  <2> QED  BY <2>1, <2>2, <2>3, ChainSettles
<1>6. n \in 0 .. n
  OBVIOUS
<1>7. h[n] \in SUBSET B /\ base \subseteq h[n] /\ Least(h[n])
  BY <1>3, <1>6
<1>8. F[h[n]] \subseteq h[n]
  <2>1. CASE h[n] = B
    BY <1>7, <2>1
  <2>2. CASE n > 0 /\ h[n] = h[n-1]
    <3>1. n \in 1 .. n
      BY <2>2
    <3> QED  BY <1>4, <2>2, <3>1
  <2> QED  BY <1>5, <2>1, <2>2
<1> QED  BY <1>7, <1>8 DEF Least, IsLeast

\* There is such a chain.
LEMMA ChainExists ==
  ASSUME NEW B, NEW n \in Nat, NEW base \in SUBSET B, NEW F \in [SUBSET B -> SUBSET B]
  PROVE  \E h : Grows(B, base, F, n, h)
<1> DEFINE V == SUBSET B
           G == [x \in Nat \X V |-> x[2] \cup F[x[2]]]
<1>1. G \in [Nat \X V -> V]
  OBVIOUS
<1>2. PICK g : Recurs(V, base, G, n, g)
  <2> HIDE DEF G, V
  <2>1. base \in V
    BY DEF V
  <2> QED  BY <1>1, <2>1, Recursion
<1>3. g \in [0 .. n -> V] /\ g[0] = base /\ \A k \in 1 .. n : g[k] = G[<<k, g[k-1]>>]
  BY <1>2 DEF Recurs
<1>4. ASSUME NEW k \in 1 .. n PROVE g[k] = g[k-1] \cup F[g[k-1]]
  <2>1. k - 1 \in 0 .. n /\ k \in Nat
    OBVIOUS
  <2>2. <<k, g[k-1]>> \in Nat \X V
    BY <1>3, <2>1
  <2> DEFINE w == <<k, g[k-1]>>
  <2>3. G[w] = w[2] \cup F[w[2]] /\ w[2] = g[k-1] /\ g[k] = G[w]
    BY <1>3, <2>2
  <2> HIDE DEF w, G
  <2> QED  BY <2>3
<1> HIDE DEF G
<1> QED  BY <1>3, <1>4 DEF Grows

-----------------------------------------------------------------------------
(* Graphs: what is reached from some blocks on paths that avoid others.    *)

\* Nothing can be added: the edges out of S lead to S, or to what is to be avoided.
Closed(g, S, avoid) == \A e \in g.edges : e[1] \in S => e[2] \in S \cup avoid

\* One round of ReachedFrom, and the chain of sets it takes.
OneEdgeOn(g, avoid, S) == {e[2] : e \in {x \in g.edges : x[1] \in S}} \ avoid
IsReachChain(g, start, avoid, n, h) ==
  h = [k \in 0 .. n |-> IF k = 0 THEN start \ avoid ELSE h[k-1] \cup OneEdgeOn(g, avoid, h[k-1])]

\* The last set of that chain is the least closed one that holds the start.
LEMMA ReachChainIsLeast ==
  ASSUME NEW g, IsFiniteSet(g.blocks), g.edges \subseteq g.blocks \X g.blocks, NEW start \in SUBSET g.blocks, NEW avoid
  PROVE  LET n == Cardinality(g.blocks)
             R == (CHOOSE h : IsReachChain(g, start, avoid, n, h))[n]
         IN  /\ start \ avoid \subseteq R /\ R \subseteq g.blocks \ avoid /\ Closed(g, R, avoid)
             /\ \A C : start \ avoid \subseteq C /\ Closed(g, C, avoid) => R \subseteq C
<1> DEFINE B == g.blocks
           n == Cardinality(B)
           F == [S \in SUBSET B |-> OneEdgeOn(g, avoid, S)]
           base == start \ avoid
<1>1. IsFiniteSet(B) /\ n \in Nat /\ g.edges \subseteq B \X B
  BY FS_CardinalityType
<1>2. \A S : OneEdgeOn(g, avoid, S) \subseteq B
  BY <1>1 DEF OneEdgeOn
<1>3. F \in [SUBSET B -> SUBSET B] /\ base \in SUBSET B
  BY <1>2
<1>4. PICK c : Grows(B, base, F, n, c)
  <2> HIDE DEF B, F, n, base
  <2> QED  BY <1>1, <1>3, ChainExists
<1>11. c \in [0 .. n -> SUBSET B] /\ c[0] = base /\ \A k \in 1 .. n : c[k] = c[k-1] \cup F[c[k-1]]
  BY <1>4 DEF Grows
<1>5. IsReachChain(g, start, avoid, n, c)
  <2>1. ASSUME NEW k \in 0 .. n
        PROVE  c[k] = IF k = 0 THEN start \ avoid ELSE c[k-1] \cup OneEdgeOn(g, avoid, c[k-1])
    <3>1. CASE k = 0
      BY <1>11, <3>1
    <3>2. CASE k # 0
      <4>1. k \in 1 .. n /\ k - 1 \in 0 .. n
        BY <1>1, <3>2
      <4>2. c[k-1] \in SUBSET B
        BY <1>11, <4>1
      <4> QED  BY <1>11, <3>2, <4>1, <4>2
    <3> QED  BY <3>1, <3>2
  <2>2. c = [k \in 0 .. n |-> c[k]]
    BY <1>11
  <2> QED  BY <2>1, <2>2 DEF IsReachChain
<1> DEFINE f == CHOOSE h : IsReachChain(g, start, avoid, n, h)
           R == f[n]
<1>6. IsReachChain(g, start, avoid, n, f)
  BY <1>5
<1> HIDE DEF f
<1>7. f[0] = base /\ \A k \in 1 .. n : f[k-1] \in SUBSET B => f[k] = f[k-1] \cup F[f[k-1]]
  <2>1. f = [k \in 0 .. n |-> IF k = 0 THEN start \ avoid ELSE f[k-1] \cup OneEdgeOn(g, avoid, f[k-1])]
    BY <1>6 DEF IsReachChain
  <2>2. \A k \in 0 .. n : f[k] = IF k = 0 THEN start \ avoid ELSE f[k-1] \cup OneEdgeOn(g, avoid, f[k-1])
    BY <2>1, Zenon
  <2>3. 0 \in 0 .. n /\ \A k \in 1 .. n : k \in 0 .. n /\ k # 0
    BY <1>1
  <2> QED  BY <2>2, <2>3
<1>8. IsLeast(B, base, F, R)
  <2>1. IsFiniteSet(B) /\ n \in Nat /\ Cardinality(B) <= n
    BY <1>1 DEF n
  <2> HIDE DEF B, F, n, base
  <2> QED  BY <1>3, <1>7, <2>1, ChainIsLeast
<1>12. /\ R \in SUBSET B /\ base \subseteq R /\ F[R] \subseteq R
      /\ \A C : base \subseteq C /\ (\A S \in SUBSET B : S \subseteq C => F[S] \subseteq C) => R \subseteq C
  BY <1>8 DEF IsLeast
<1> HIDE DEF R
<1>9. Closed(g, R, avoid)
  BY <1>12 DEF Closed, OneEdgeOn
<1>10. ASSUME NEW C, start \ avoid \subseteq C, Closed(g, C, avoid) PROVE R \subseteq C
  <2>1. ASSUME NEW S \in SUBSET B, S \subseteq C PROVE F[S] \subseteq C
    BY <1>10, <2>1 DEF Closed, OneEdgeOn
  <2> QED  BY <1>12, <1>10, <2>1
<1>13. R \subseteq B \ avoid
  <2>1. base \subseteq B \ avoid /\ \A S \in SUBSET B : F[S] \subseteq B \ avoid
    BY <1>2, <1>3 DEF OneEdgeOn
  <2> HIDE DEF F
  <2> QED  BY <1>12, <2>1
<1> QED  BY <1>12, <1>9, <1>10, <1>13 DEF R, f

-----------------------------------------------------------------------------
(* What is left of a sequence when items are dropped, and where they stand. *)

\* What is left of g, up to item n, when only the items of S stay.
Sieved(g, S, n, h) ==
  h = [k \in 0 .. n |-> IF k = 0 THEN << >> ELSE IF k \in S THEN Append(h[k-1], g[k]) ELSE h[k-1]]

\* Something is left at every item.
LEMMA SievesExist ==
  ASSUME NEW g, NEW S, NEW n \in Nat
  PROVE  \E h : Sieved(g, S, n, h)
<1> DEFINE T == {m \in Nat : \E h : Sieved(g, S, m, h)}
<1>1. 0 \in T
  <2> DEFINE h == [k \in 0 .. 0 |-> << >>]
  <2>1. h = [k \in 0 .. 0 |-> IF k = 0 THEN << >> ELSE IF k \in S THEN Append(h[k-1], g[k]) ELSE h[k-1]]
    OBVIOUS
  <2> HIDE DEF h
  <2>2. Sieved(g, S, 0, h)
    BY <2>1 DEF Sieved
  <2> QED  BY <2>2
<1>2. ASSUME NEW m \in Nat, m \in T PROVE m + 1 \in T
  <2>1. PICK h : Sieved(g, S, m, h)
    BY <1>2
  <2>2. h = [k \in 0 .. m |-> IF k = 0 THEN << >> ELSE IF k \in S THEN Append(h[k-1], g[k]) ELSE h[k-1]]
    BY <2>1 DEF Sieved
  <2> DEFINE last == IF m + 1 \in S THEN Append(h[m], g[m + 1]) ELSE h[m]
             i == [k \in 0 .. m + 1 |-> IF k = m + 1 THEN last ELSE h[k]]
  <2>3. ASSUME NEW k \in 0 .. m + 1
        PROVE  i[k] = IF k = 0 THEN << >> ELSE IF k \in S THEN Append(i[k-1], g[k]) ELSE i[k-1]
    <3>1. CASE k = m + 1
      <4>1. k - 1 = m /\ m \in 0 .. m + 1 /\ m # m + 1 /\ k # 0
        BY <3>1
      <4>2. i[k] = last /\ i[m] = h[m]
        BY <3>1, <4>1
      <4> HIDE DEF i
      <4> QED  BY <3>1, <4>1, <4>2
    <3>2. CASE k # m + 1
      <4>1. k \in 0 .. m /\ i[k] = h[k]
        BY <3>2
      <4>2. k # 0 => k - 1 \in 0 .. m + 1 /\ k - 1 # m + 1
        BY <3>2
      <4>3. k # 0 => i[k-1] = h[k-1]
        BY <4>2
      <4> HIDE DEF i
      <4> QED  BY <2>2, <4>1, <4>3
    <3> QED  BY <3>1, <3>2
  <2>4. i = [k \in 0 .. m + 1 |-> i[k]]
    OBVIOUS
  <2> HIDE DEF i
  <2>5. Sieved(g, S, m + 1, i)
    BY <2>3, <2>4 DEF Sieved
  <2> QED  BY <2>5
<1>3. Nat \subseteq T
  <2> HIDE DEF T
  <2> QED  BY <1>1, <1>2, InductionOnSet
<1> QED  BY <1>3

\* Where item k, or what stays of the items from it on, stands in what is left.
Place(h, k) == Len(h[k-1]) + 1

SievedFrom(T, g, S, n, h) ==
  n \in Nat /\ (\A k \in S \cap (1 .. n) : g[k] \in T) /\ Sieved(g, S, n, h)

\* One item at a time.
LEMMA SieveSteps ==
  ASSUME NEW T, NEW g, NEW S, NEW n, NEW h, SievedFrom(T, g, S, n, h)
  PROVE  /\ \A k \in 0 .. n : h[k] \in Seq(T)
         /\ h[0] = << >>
         /\ \A k \in 1 .. n : h[k] = IF k \in S THEN Append(h[k-1], g[k]) ELSE h[k-1]
<1>1. \A k \in 0 .. n : h[k] = IF k = 0 THEN << >> ELSE IF k \in S THEN Append(h[k-1], g[k]) ELSE h[k-1]
  BY Zenon DEF Sieved, SievedFrom
<1>a. n \in Nat
  BY DEF SievedFrom
<1> USE <1>a
<1>b. \A k \in S \cap (1 .. n) : g[k] \in T
  BY DEF SievedFrom
<1> DEFINE U == {k \in Nat : k <= n => h[k] \in Seq(T)}
<1>2. 0 \in U
  <2>1. 0 \in 0 .. n
    OBVIOUS
  <2>2. h[0] = << >>
    BY <1>1, <2>1
  <2>3. << >> \in Seq(T)
    OBVIOUS
  <2> QED  BY <2>2, <2>3
<1>3. ASSUME NEW k \in Nat, k \in U PROVE k + 1 \in U
  <2>1. SUFFICES ASSUME k + 1 <= n PROVE h[k + 1] \in Seq(T)
    OBVIOUS
  <2>2. k + 1 \in 0 .. n /\ k + 1 # 0 /\ k + 1 - 1 = k /\ k <= n /\ k + 1 \in 1 .. n
    BY <2>1
  <2>3. h[k] \in Seq(T)
    BY <1>3, <2>2
  <2>4. h[k + 1] = IF k + 1 \in S THEN Append(h[k], g[k + 1]) ELSE h[k]
    BY <1>1, <2>2
  <2> QED  BY <1>b, <2>2, <2>3, <2>4
<1>4. Nat \subseteq U
  <2> HIDE DEF U
  <2> QED  BY <1>2, <1>3, InductionOnSet
<1>5. \A k \in 0 .. n : h[k] \in Seq(T)
  BY <1>4
<1>6. h[0] = << >>
  BY <1>1
<1>7. \A k \in 1 .. n : h[k] = IF k \in S THEN Append(h[k-1], g[k]) ELSE h[k-1]
  BY <1>1
<1> QED  BY <1>5, <1>6, <1>7

\* What is left grows at its end: an item that stays stands where it was put.
LEMMA SieveGrows ==
  ASSUME NEW T, NEW g, NEW S, NEW n, NEW h, SievedFrom(T, g, S, n, h), NEW j \in 0 .. n, NEW k \in j .. n
  PROVE  /\ Len(h[j]) <= Len(h[k])
         /\ \A m \in 1 .. Len(h[j]) : h[k][m] = h[j][m]
<1> DEFINE Good(i) == Len(h[j]) <= Len(h[i]) /\ \A m \in 1 .. Len(h[j]) : h[i][m] = h[j][m]
           U == {d \in Nat : j + d <= n => Good(j + d)}
<1>1. /\ \A i \in 0 .. n : h[i] \in Seq(T)
      /\ \A i \in 1 .. n : h[i] = IF i \in S THEN Append(h[i-1], g[i]) ELSE h[i-1]
  BY SieveSteps
<1>a. n \in Nat
  BY DEF SievedFrom
<1> USE <1>a
<1>b. \A m \in S \cap (1 .. n) : g[m] \in T
  BY DEF SievedFrom
<1>2. Len(h[j]) \in Nat
  BY <1>1
<1>3. 0 \in U
  BY <1>2
<1>4. ASSUME NEW d \in Nat, d \in U PROVE d + 1 \in U
  <2>1. SUFFICES ASSUME j + (d + 1) <= n PROVE Good(j + (d + 1))
    OBVIOUS
  <2> DEFINE i == j + d
  <2>2. i \in 0 .. n /\ i + 1 \in 1 .. n /\ i + 1 - 1 = i /\ j + (d + 1) = i + 1 /\ j + d <= n
    BY <2>1
  <2>3. Good(i)
    BY <1>4, <2>2
  <2> HIDE DEF i
  <2>4. h[i] \in Seq(T) /\ h[i + 1] = IF i + 1 \in S THEN Append(h[i], g[i + 1]) ELSE h[i]
    BY <1>1, <2>2
  <2>5. Good(i + 1)
    BY <1>2, <2>2, <2>3, <2>4
  <2> QED  BY <2>2, <2>5
<1>5. Nat \subseteq U
  <2> HIDE DEF U
  <2> QED  BY <1>3, <1>4, InductionOnSet
<1>6. k - j \in Nat /\ j + (k - j) = k /\ k <= n
  OBVIOUS
<1> QED  BY <1>5, <1>6

\* The places of the items: they ascend by one at every item that stays, and
\* there is nothing else in what is left.
LEMMA SievePlaces ==
  ASSUME NEW T, NEW g, NEW S, NEW n, NEW h, SievedFrom(T, g, S, n, h)
  PROVE  /\ h[n] \in Seq(T)
         /\ Place(h, 1) = 1 /\ Place(h, n + 1) = Len(h[n]) + 1
         /\ \A k \in 1 .. n + 1 : Place(h, k) \in 1 .. Len(h[n]) + 1
         /\ \A k \in 1 .. n : Place(h, k + 1) = IF k \in S THEN Place(h, k) + 1 ELSE Place(h, k)
         /\ \A k \in S \cap (1 .. n) : Place(h, k) \in 1 .. Len(h[n]) /\ h[n][Place(h, k)] = g[k]
         /\ \A m \in 1 .. Len(h[n]) : \E k \in S \cap (1 .. n) : Place(h, k) = m
         /\ \A j, k \in S \cap (1 .. n) : Place(h, j) = Place(h, k) => j = k
<1>1. /\ \A k \in 0 .. n : h[k] \in Seq(T)
      /\ h[0] = << >>
      /\ \A k \in 1 .. n : h[k] = IF k \in S THEN Append(h[k-1], g[k]) ELSE h[k-1]
  BY SieveSteps
<1>a. n \in Nat
  BY DEF SievedFrom
<1> USE <1>a
<1>b. \A k \in S \cap (1 .. n) : g[k] \in T
  BY DEF SievedFrom
<1>2. \A k \in 0 .. n : Len(h[k]) \in Nat /\ Len(h[k]) <= Len(h[n])
  <2>1. \A k \in 0 .. n : n \in k .. n
    OBVIOUS
  <2> QED  BY <1>1, <2>1, SieveGrows
<1>3. Place(h, 1) = 1 /\ Place(h, n + 1) = Len(h[n]) + 1
  <2>1. Len(h[0]) = 0 /\ 1 - 1 = 0 /\ n + 1 - 1 = n
    BY <1>1
  <2> QED  BY <2>1 DEF Place
<1>4. ASSUME NEW k \in 1 .. n + 1 PROVE Place(h, k) \in 1 .. Len(h[n]) + 1
  <2>1. k - 1 \in 0 .. n /\ n \in 0 .. n
    OBVIOUS
  <2> QED  BY <1>2, <2>1 DEF Place
<1>5. ASSUME NEW k \in 1 .. n PROVE Place(h, k + 1) = IF k \in S THEN Place(h, k) + 1 ELSE Place(h, k)
  <2>1. k - 1 \in 0 .. n /\ k + 1 - 1 = k /\ h[k-1] \in Seq(T)
    BY <1>1
  <2>2. h[k] = IF k \in S THEN Append(h[k-1], g[k]) ELSE h[k-1]
    BY <1>1
  <2>3. k \in S => g[k] \in T
    BY <1>b
  <2>4. Len(h[k]) = IF k \in S THEN Len(h[k-1]) + 1 ELSE Len(h[k-1])
    BY <2>1, <2>2, <2>3
  <2>5. Place(h, k + 1) = Len(h[k]) + 1 /\ Place(h, k) = Len(h[k-1]) + 1
    BY <2>1 DEF Place
  <2>6. CASE k \in S
    BY <2>4, <2>5, <2>6
  <2>7. CASE k \notin S
    BY <2>4, <2>5, <2>7
  <2> QED  BY <2>6, <2>7
<1>6. ASSUME NEW k \in S \cap (1 .. n)
      PROVE  Place(h, k) \in 1 .. Len(h[n]) /\ h[n][Place(h, k)] = g[k] /\ Place(h, k) = Len(h[k])
  <2>1. k - 1 \in 0 .. n /\ k \in 0 .. n /\ n \in k .. n /\ h[k-1] \in Seq(T) /\ g[k] \in T
    BY <1>1, <1>b
  <2>2. h[k] = Append(h[k-1], g[k])
    BY <1>1
  <2>3. Len(h[k]) = Len(h[k-1]) + 1 /\ h[k][Len(h[k-1]) + 1] = g[k] /\ Len(h[k-1]) \in Nat
    BY <2>1, <2>2
  <2>4. Len(h[k-1]) + 1 \in 1 .. Len(h[k])
    BY <2>3
  <2>5. h[n][Len(h[k-1]) + 1] = g[k] /\ Len(h[k]) <= Len(h[n])
    BY <2>1, <2>3, <2>4, SieveGrows
  <2> QED  BY <1>2, <2>1, <2>3, <2>5 DEF Place
<1>7. ASSUME NEW m \in 1 .. Len(h[n]) PROVE \E k \in S \cap (1 .. n) : Place(h, k) = m
  <2> DEFINE U == {k \in 0 .. n : m <= Len(h[k])}
  <2>1. n \in U /\ U \subseteq Nat
    BY <1>2
  <2>2. PICK k \in U : \A j \in U : k <= j
    <3> HIDE DEF U
    <3> QED  BY <2>1, LeastElement
  <2>3. k \in 0 .. n /\ m <= Len(h[k]) /\ Len(h[n]) \in Nat
    BY <1>2, <2>2
  <2>4. k # 0
    BY <1>1, <2>3
  <2>5. k \in 1 .. n /\ k - 1 \in 0 .. n /\ ~(k <= k - 1)
    BY <2>3, <2>4
  <2>6. ~(m <= Len(h[k-1])) /\ Len(h[k-1]) \in Nat
    <3>1. k - 1 \notin U
      BY <2>2, <2>5
    <3> QED  BY <1>2, <2>5, <3>1
  <2>7. k \in S
    BY <1>1, <2>3, <2>5, <2>6
  <2>8. Len(h[k]) = Len(h[k-1]) + 1
    <3>1. h[k-1] \in Seq(T) /\ g[k] \in T /\ h[k] = Append(h[k-1], g[k])
      BY <1>1, <1>b, <2>5, <2>7
    <3> QED  BY <3>1
  <2> QED  BY <2>3, <2>5, <2>6, <2>7, <2>8 DEF Place
<1>8. ASSUME NEW j \in S \cap (1 .. n), NEW k \in S \cap (1 .. n), j < k PROVE Place(h, j) < Place(h, k)
  <2>1. j \in 0 .. n /\ k - 1 \in j .. n /\ k - 1 \in 0 .. n
    BY <1>8
  <2>2. Len(h[j]) <= Len(h[k-1])
    BY <2>1, SieveGrows
  <2>3. Place(h, j) = Len(h[j])
    BY <1>6
  <2> QED  BY <1>2, <2>1, <2>2, <2>3 DEF Place
<1>9. \A j, k \in S \cap (1 .. n) : Place(h, j) = Place(h, k) => j = k
  <2>1. SUFFICES ASSUME NEW j \in S \cap (1 .. n), NEW k \in S \cap (1 .. n), Place(h, j) = Place(h, k), j # k
                 PROVE  FALSE
    OBVIOUS
  <2>2. j < k \/ k < j
    BY <2>1
  <2>3. Place(h, j) \in Nat
    <3>1. j \in 1 .. n + 1
      OBVIOUS
    <3>2. Len(h[n]) \in Nat
      BY <1>2
    <3> QED  BY <1>4, <3>1, <3>2
  <2> QED  BY <1>8, <2>1, <2>2, <2>3
<1>10. h[n] \in Seq(T)
  BY <1>1
<1>11. \A k \in S \cap (1 .. n) : Place(h, k) \in 1 .. Len(h[n]) /\ h[n][Place(h, k)] = g[k]
  BY <1>6
<1>12. \A k \in 1 .. n + 1 : Place(h, k) \in 1 .. Len(h[n]) + 1
  BY <1>4
<1>13. \A k \in 1 .. n : Place(h, k + 1) = IF k \in S THEN Place(h, k) + 1 ELSE Place(h, k)
  BY <1>5
<1>14. \A m \in 1 .. Len(h[n]) : \E k \in S \cap (1 .. n) : Place(h, k) = m
  BY <1>7
<1> QED  BY <1>3, <1>9, <1>10, <1>11, <1>12, <1>13, <1>14, Zenon

-----------------------------------------------------------------------------
(* Sequences put together piece by piece.                                  *)

\* The first n pieces of g, one after the other.
Joined(g, n, h) == h = [k \in 0 .. n |-> IF k = 0 THEN << >> ELSE h[k-1] \o g[k]]

\* They can be.
LEMMA JoinsExist ==
  ASSUME NEW T, NEW n \in Nat, NEW g \in [1 .. n -> Seq(T)]
  PROVE  \E h : Joined(g, n, h)
<1> DEFINE F == [x \in Nat \X Seq(T) |-> IF x[1] \in 1 .. n THEN x[2] \o g[x[1]] ELSE x[2]]
<1>1. F \in [Nat \X Seq(T) -> Seq(T)]
  <2>1. ASSUME NEW x \in Nat \X Seq(T) PROVE (IF x[1] \in 1 .. n THEN x[2] \o g[x[1]] ELSE x[2]) \in Seq(T)
    OBVIOUS
  <2> QED  BY <2>1
<1>2. << >> \in Seq(T)
  OBVIOUS
<1> HIDE DEF F
<1>3. PICK h : Recurs(Seq(T), << >>, F, n, h)
  BY <1>1, <1>2, Recursion
<1>4. h \in [0 .. n -> Seq(T)] /\ h[0] = << >> /\ \A k \in 1 .. n : h[k] = F[<<k, h[k-1]>>]
  BY <1>3 DEF Recurs
<1>5. ASSUME NEW k \in 1 .. n PROVE h[k] = h[k-1] \o g[k]
  <2>1. k - 1 \in 0 .. n /\ k \in Nat
    OBVIOUS
  <2>2. <<k, h[k-1]>> \in Nat \X Seq(T)
    BY <1>4, <2>1
  <2>3. F[<<k, h[k-1]>>] = h[k-1] \o g[k]
    BY <2>2 DEF F
  <2> QED  BY <1>4, <2>3
<1>6. \A k \in 0 .. n : h[k] = IF k = 0 THEN << >> ELSE h[k-1] \o g[k]
  <2>1. \A k \in 0 .. n : k # 0 => k \in 1 .. n
    OBVIOUS
  <2> QED  BY <1>4, <1>5, <2>1
<1>7. h = [k \in 0 .. n |-> h[k]]
  BY <1>4
<1> QED  BY <1>6, <1>7 DEF Joined

JoinedFrom(T, g, n, h) == n \in Nat /\ g \in [1 .. n -> Seq(T)] /\ Joined(g, n, h)

\* The longer one is the shorter one and the piece.
Lengthened(s, t, u) ==
  /\ Len(u) = Len(s) + Len(t)
  /\ \A i \in 1 .. Len(s) : u[i] = s[i]
  /\ \A i \in 1 .. Len(t) : u[Len(s) + i] = t[i]

\* So does what two sequences make one behind the other.
LEMMA ConcatLengthens ==
  ASSUME NEW T, NEW s \in Seq(T), NEW t \in Seq(T)
  PROVE  s \o t \in Seq(T) /\ Lengthened(s, t, s \o t)
<1> DEFINE u == s \o t
<1>1. /\ u \in Seq(T) /\ Len(u) = Len(s) + Len(t)
      /\ \A i \in 1 .. Len(s) + Len(t) : u[i] = IF i <= Len(s) THEN s[i] ELSE t[i - Len(s)]
  BY ConcatProperties
<1>2. Len(s) \in Nat /\ Len(t) \in Nat
  OBVIOUS
<1> HIDE DEF u
<1>3. ASSUME NEW i \in 1 .. Len(s) PROVE u[i] = s[i]
  BY <1>1, <1>2
<1>4. ASSUME NEW i \in 1 .. Len(t) PROVE u[Len(s) + i] = t[i]
  <2>1. Len(s) + i \in 1 .. Len(s) + Len(t) /\ ~(Len(s) + i <= Len(s)) /\ Len(s) + i - Len(s) = i
    BY <1>2
  <2> QED  BY <1>1, <2>1
<1>5. Lengthened(s, t, u)
  BY <1>1, <1>3, <1>4 DEF Lengthened
<1> QED  BY <1>1, <1>5 DEF u

\* One piece at a time.
LEMMA JoinSteps ==
  ASSUME NEW T, NEW g, NEW n, NEW h, JoinedFrom(T, g, n, h)
  PROVE  /\ n \in Nat
         /\ \A k \in 1 .. n : g[k] \in Seq(T)
         /\ \A k \in 0 .. n : h[k] \in Seq(T)
         /\ h[0] = << >>
         /\ \A k \in 1 .. n : Lengthened(h[k-1], g[k], h[k])
<1>1. \A k \in 0 .. n : h[k] = IF k = 0 THEN << >> ELSE h[k-1] \o g[k]
  BY Zenon DEF Joined, JoinedFrom
<1>2. n \in Nat /\ \A k \in 1 .. n : g[k] \in Seq(T)
  BY DEF JoinedFrom
<1>3. h[0] = << >>
  <2>1. 0 \in 0 .. n
    BY <1>2
  <2> QED  BY <1>1, <2>1, Zenon
<1>4. ASSUME NEW k \in 1 .. n, h[k-1] \in Seq(T)
      PROVE  h[k] \in Seq(T) /\ Lengthened(h[k-1], g[k], h[k])
  <2>1. k \in 0 .. n /\ k # 0
    BY <1>2
  <2>2. h[k] = h[k-1] \o g[k]
    BY <1>1, <2>1, Zenon
  <2>3. g[k] \in Seq(T)
    BY <1>2
  <2> HIDE DEF Lengthened
  <2> QED  BY <1>4, <2>2, <2>3, ConcatLengthens
<1> DEFINE U == {k \in Nat : k <= n => h[k] \in Seq(T)}
<1>5. 0 \in U
  <2>1. << >> \in Seq(T)
    OBVIOUS
  <2> QED  BY <1>3, <2>1
<1>6. ASSUME NEW k \in Nat, k \in U PROVE k + 1 \in U
  <2>1. SUFFICES ASSUME k + 1 <= n PROVE h[k + 1] \in Seq(T)
    OBVIOUS
  <2>2. k + 1 - 1 = k /\ k <= n /\ k + 1 \in 1 .. n
    BY <1>2, <2>1
  <2>3. h[k] \in Seq(T)
    BY <1>6, <2>2
  <2> QED  BY <1>4, <2>2, <2>3
<1>7. Nat \subseteq U
  <2> HIDE DEF U
  <2> QED  BY <1>5, <1>6, InductionOnSet
<1>8. \A k \in 0 .. n : h[k] \in Seq(T)
  BY <1>2, <1>7
<1>9. \A k \in 1 .. n : h[k-1] \in Seq(T)
  BY <1>2, <1>8
<1> HIDE DEF U
<1> QED  BY <1>2, <1>3, <1>4, <1>8, <1>9

\* The lengths of what was put together.
LEMMA JoinLengths ==
  ASSUME NEW T, NEW g, NEW n, NEW h, JoinedFrom(T, g, n, h)
  PROVE  /\ \A k \in 0 .. n : Len(h[k]) \in Nat
         /\ \A k \in 1 .. n + 1 : Place(h, k) = Len(h[k-1]) + 1 /\ Place(h, k) \in Nat
         /\ \A k \in 1 .. n : Len(g[k]) \in Nat /\ Place(h, k + 1) = Place(h, k) + Len(g[k])
<1>1. /\ n \in Nat
      /\ \A k \in 1 .. n : g[k] \in Seq(T)
      /\ \A k \in 0 .. n : h[k] \in Seq(T)
      /\ \A k \in 1 .. n : Lengthened(h[k-1], g[k], h[k])
  BY JoinSteps
<1>0. n \in Nat
  BY <1>1
<1> USE <1>0
<1>2. \A k \in 0 .. n : Len(h[k]) \in Nat
  BY <1>1
<1>3. \A k \in 1 .. n : Len(g[k]) \in Nat
  BY <1>1
<1>4. ASSUME NEW k \in 1 .. n + 1 PROVE Place(h, k) = Len(h[k-1]) + 1 /\ Place(h, k) \in Nat
  <2>1. k - 1 \in 0 .. n
    OBVIOUS
  <2>2. Len(h[k-1]) \in Nat
    BY <1>2, <2>1
  <2> QED  BY <2>2 DEF Place
<1>5. ASSUME NEW k \in 1 .. n PROVE Place(h, k + 1) = Place(h, k) + Len(g[k])
  <2> DEFINE a == Len(h[k-1])
             b == Len(h[k])
             c == Len(g[k])
             d == Place(h, k)
             e == Place(h, k + 1)
  <2>1. k + 1 - 1 = k /\ k \in 1 .. n + 1 /\ k + 1 \in 1 .. n + 1 /\ k - 1 \in 0 .. n
    OBVIOUS
  <2>2. b = a + c
    BY <1>1 DEF Lengthened
  <2>3. a \in Nat /\ c \in Nat
    BY <1>2, <1>3, <2>1
  <2>4. d = a + 1
    BY <1>4, <2>1
  <2>5. e = b + 1
    <3>1. Place(h, k + 1) = Len(h[k + 1 - 1]) + 1
      BY <1>4, <2>1
    <3> QED  BY <2>1, <3>1
  <2> HIDE DEF a, b, c, d, e
  <2>6. e = d + c
    BY <2>2, <2>3, <2>4, <2>5
  <2> QED  BY <2>6 DEF c, d, e
<1> QED  BY <1>2, <1>3, <1>4, <1>5

\* What was put together stays at the beginning.
LEMMA JoinGrows ==
  ASSUME NEW T, NEW g, NEW n, NEW h, JoinedFrom(T, g, n, h), NEW j \in 0 .. n, NEW k \in j .. n
  PROVE  /\ Len(h[j]) <= Len(h[k])
         /\ \A m \in 1 .. Len(h[j]) : h[k][m] = h[j][m]
<1> DEFINE Starts(s, t) == Len(s) \in Nat /\ Len(t) \in Nat /\ Len(s) <= Len(t) /\ \A m \in 1 .. Len(s) : t[m] = s[m]
           U == {d \in Nat : j + d <= n => Starts(h[j], h[j + d])}
<1>1. /\ n \in Nat
      /\ \A i \in 0 .. n : Len(h[i]) \in Nat
      /\ \A i \in 1 .. n : Len(g[i]) \in Nat /\ Lengthened(h[i-1], g[i], h[i])
  BY JoinSteps, JoinLengths
<1>0. n \in Nat
  BY <1>1
<1> USE <1>0
<1>2. ASSUME NEW s, NEW t, NEW u, NEW v, Starts(s, t), Lengthened(t, v, u), Len(v) \in Nat PROVE Starts(s, u)
  BY <1>2 DEF Lengthened
<1>3. 0 \in U
  <2>1. j + 0 = j /\ Len(h[j]) \in Nat
    BY <1>1
  <2>2. Starts(h[j], h[j])
    BY <2>1
  <2> HIDE DEF Starts
  <2> QED  BY <2>1, <2>2
<1>4. ASSUME NEW d \in Nat, d \in U PROVE d + 1 \in U
  <2>1. SUFFICES ASSUME j + (d + 1) <= n PROVE Starts(h[j], h[j + (d + 1)])
    OBVIOUS
  <2>2. j + d + 1 \in 1 .. n /\ j + d + 1 - 1 = j + d /\ j + (d + 1) = j + d + 1 /\ j + d <= n
    BY <2>1
  <2>3. Starts(h[j], h[j + d])
    BY <1>4, <2>2
  <2>4. Lengthened(h[j + d], g[j + d + 1], h[j + d + 1]) /\ Len(g[j + d + 1]) \in Nat
    BY <1>1, <2>2
  <2> HIDE DEF Starts
  <2>5. Starts(h[j], h[j + d + 1])
    BY <1>2, <2>3, <2>4
  <2> QED  BY <2>2, <2>5
<1>5. Nat \subseteq U
  <2> HIDE DEF U
  <2> QED  BY <1>3, <1>4, InductionOnSet
<1>6. k - j \in Nat /\ j + (k - j) = k /\ k <= n
  OBVIOUS
<1>7. Starts(h[j], h[k])
  <2> HIDE DEF Starts
  <2> QED  BY <1>5, <1>6
<1> QED  BY <1>7

\* The pieces stand one behind the other, and there is nothing else.
LEMMA JoinPlaces ==
  ASSUME NEW T, NEW g, NEW n, NEW h, JoinedFrom(T, g, n, h)
  PROVE  /\ h[n] \in Seq(T)
         /\ Place(h, 1) = 1 /\ Place(h, n + 1) = Len(h[n]) + 1
         /\ \A k \in 1 .. n + 1 : Place(h, k) \in 1 .. Len(h[n]) + 1
         /\ \A k \in 1 .. n : \A i \in 1 .. Len(g[k]) :
              /\ Place(h, k) + i - 1 \in 1 .. Len(h[n])
              /\ h[n][Place(h, k) + i - 1] = g[k][i]
         /\ \A m \in 1 .. Len(h[n]) : \E k \in 1 .. n : \E i \in 1 .. Len(g[k]) : m = Place(h, k) + i - 1
<1>1. /\ n \in Nat
      /\ h[n] \in Seq(T)
      /\ h[0] = << >>
      /\ \A k \in 0 .. n : Len(h[k]) \in Nat
      /\ \A k \in 1 .. n : Len(g[k]) \in Nat /\ Lengthened(h[k-1], g[k], h[k])
      /\ \A k \in 1 .. n + 1 : Place(h, k) = Len(h[k-1]) + 1 /\ Place(h, k) \in Nat
  BY JoinSteps, JoinLengths
<1>0. n \in Nat
  BY <1>1
<1> USE <1>0
<1>2. \A k \in 0 .. n : Len(h[k]) <= Len(h[n])
  <2>1. ASSUME NEW k \in 0 .. n PROVE Len(h[k]) <= Len(h[n])
    <3>1. n \in k .. n
      OBVIOUS
    <3> QED  BY <3>1, JoinGrows
  <2> QED  BY <2>1
<1>4. ASSUME NEW k \in 1 .. n + 1 PROVE Place(h, k) \in 1 .. Len(h[n]) + 1
  <2>1. k - 1 \in 0 .. n /\ n \in 0 .. n
    OBVIOUS
  <2> DEFINE a == Len(h[k-1])
             b == Len(h[n])
             c == Place(h, k)
  <2>2. a \in Nat /\ b \in Nat /\ a <= b /\ c = a + 1
    BY <1>1, <1>2, <2>1
  <2> HIDE DEF a, b, c
  <2>3. c \in 1 .. b + 1
    BY <2>2
  <2> QED  BY <2>3 DEF b, c
<1>5. Place(h, 1) = 1 /\ Place(h, n + 1) = Len(h[n]) + 1
  <2>1. 1 \in 1 .. n + 1 /\ 1 - 1 = 0 /\ n + 1 \in 1 .. n + 1 /\ n + 1 - 1 = n /\ Len(h[0]) = 0
    BY <1>1
  <2>2. Place(h, 1) = Len(h[1 - 1]) + 1 /\ Place(h, n + 1) = Len(h[n + 1 - 1]) + 1
    BY <1>1, <2>1
  <2> QED  BY <2>1, <2>2
<1>7. ASSUME NEW k \in 1 .. n, NEW i \in 1 .. Len(g[k])
      PROVE  /\ Place(h, k) + i - 1 \in 1 .. Len(h[n])
             /\ h[n][Place(h, k) + i - 1] = g[k][i]
  <2>1. n \in k .. n /\ k \in 0 .. n /\ k - 1 \in 0 .. n /\ k \in 1 .. n + 1 /\ n \in 0 .. n
    OBVIOUS
  <2> DEFINE a == Len(h[k-1])
             b == Len(h[k])
             c == Len(g[k])
             d == Len(h[n])
             e == Place(h, k)
  <2>2. b <= d /\ \A m \in 1 .. b : h[n][m] = h[k][m]
    BY <2>1, JoinGrows
  <2>3. a \in Nat /\ b \in Nat /\ c \in Nat /\ d \in Nat /\ e = a + 1 /\ i \in 1 .. c
    BY <1>1, <2>1
  <2>4. b = a + c /\ h[k][a + i] = g[k][i]
    BY <1>1 DEF Lengthened
  <2> HIDE DEF a, b, c, d, e
  <2>5. e + i - 1 = a + i /\ a + i \in 1 .. b /\ a + i \in 1 .. d
    BY <2>2, <2>3, <2>4
  <2>6. h[n][e + i - 1] = g[k][i]
    BY <2>2, <2>4, <2>5
  <2> QED  BY <2>5, <2>6 DEF d, e
<1>8. ASSUME NEW m \in 1 .. Len(h[n])
      PROVE  \E k \in 1 .. n : \E i \in 1 .. Len(g[k]) : m = Place(h, k) + i - 1
  <2> DEFINE S == {k \in Nat : k <= n /\ m <= Len(h[k])}
  <2>1. n \in S
    <3>1. Len(h[n]) \in Nat
      BY <1>1
    <3> QED  BY <3>1
  <2>2. PICK k \in S : \A j \in S : k <= j
    <3>1. S \in SUBSET Nat /\ S # {}
      BY <2>1
    <3> HIDE DEF S
    <3> QED  BY <3>1, LeastElement
  <2>3. k # 0
    <3>1. Len(h[0]) = 0
      BY <1>1
    <3>2. Len(h[n]) \in Nat
      BY <1>1
    <3> QED  BY <2>2, <3>1, <3>2
  <2>4. k \in 1 .. n /\ k - 1 \in Nat /\ k - 1 <= n /\ ~(k <= k - 1) /\ k \in 1 .. n + 1 /\ k - 1 \in 0 .. n
        /\ k \in 0 .. n /\ n \in 0 .. n
    BY <2>2, <2>3
  <2> DEFINE a == Len(h[k-1])
             b == Len(h[k])
             c == Len(g[k])
             d == Len(h[n])
             e == Place(h, k)
  <2>5. ~(m <= a)
    <3>1. k - 1 \notin S
      BY <2>2, <2>4
    <3> QED  BY <2>4, <3>1
  <2>6. a \in Nat /\ b \in Nat /\ c \in Nat /\ d \in Nat /\ e = a + 1 /\ m \in 1 .. d /\ m <= b
    BY <1>1, <2>2, <2>4
  <2>7. b = a + c
    BY <1>1, <2>4 DEF Lengthened
  <2> DEFINE i == m - a
  <2> HIDE DEF a, b, c, d, e
  <2>8. i \in 1 .. c /\ m = e + i - 1
    BY <2>5, <2>6, <2>7
  <2> HIDE DEF i
  <2> QED  BY <2>4, <2>8 DEF c, e
<1> QED  BY <1>1, <1>4, <1>5, <1>7, <1>8

\* No two items of pieces stand at the same place.
LEMMA JoinedApart ==
  ASSUME NEW T, NEW g, NEW n, NEW h, JoinedFrom(T, g, n, h),
         NEW j \in 1 .. n, NEW k \in 1 .. n, NEW x \in 1 .. Len(g[j]), NEW y \in 1 .. Len(g[k]),
         Place(h, j) + x - 1 = Place(h, k) + y - 1
  PROVE  j = k /\ x = y
<1>1. /\ n \in Nat
      /\ \A i \in 1 .. n + 1 : Place(h, i) = Len(h[i-1]) + 1 /\ Place(h, i) \in Nat
      /\ \A i \in 1 .. n : Len(g[i]) \in Nat /\ Place(h, i + 1) = Place(h, i) + Len(g[i])
      /\ \A i \in 0 .. n : Len(h[i]) \in Nat
  BY JoinSteps, JoinLengths
<1>0. n \in Nat
  BY <1>1
<1> USE <1>0
<1>2. ASSUME NEW i \in 1 .. n, NEW l \in i + 1 .. n PROVE Place(h, i) + Len(g[i]) <= Place(h, l)
  <2>1. i \in 0 .. n /\ l - 1 \in i .. n /\ i + 1 \in 1 .. n + 1 /\ l \in 1 .. n + 1 /\ l - 1 \in 0 .. n /\ i + 1 - 1 = i
    OBVIOUS
  <2>2. Len(h[i]) <= Len(h[l-1])
    BY <2>1, JoinGrows
  <2>3. Place(h, i + 1) = Len(h[i]) + 1 /\ Place(h, l) = Len(h[l-1]) + 1
    BY <2>1 DEF Place
  <2>4. Len(h[i]) \in Nat /\ Len(h[l-1]) \in Nat /\ Place(h, i + 1) = Place(h, i) + Len(g[i])
    BY <1>1, <2>1
  <2> DEFINE a == Len(h[i])
             b == Len(h[l-1])
  <2>5. a \in Nat /\ b \in Nat /\ a <= b /\ Place(h, l) = b + 1 /\ Place(h, i) + Len(g[i]) = a + 1
    BY <2>1, <2>2, <2>3, <2>4
  <2> HIDE DEF a, b
  <2> QED  BY <2>5
<1> DEFINE a == Place(h, j)
           b == Place(h, k)
           c == Len(g[j])
           d == Len(g[k])
<1>3. a \in Nat /\ b \in Nat /\ c \in Nat /\ d \in Nat /\ x \in 1 .. c /\ y \in 1 .. d /\ a + x - 1 = b + y - 1
  <2>1. j \in 1 .. n + 1 /\ k \in 1 .. n + 1
    OBVIOUS
  <2> QED  BY <1>1, <2>1
<1>4. CASE j = k
  <2>1. a = b
    BY <1>4
  <2> HIDE DEF a, b, c, d
  <2> QED  BY <1>3, <1>4, <2>1
<1>5. CASE j < k
  <2>1. k \in j + 1 .. n
    BY <1>5
  <2>2. a + c <= b
    BY <1>2, <2>1
  <2> HIDE DEF a, b, c, d
  <2> QED  BY <1>3, <2>2
<1>6. CASE k < j
  <2>1. j \in k + 1 .. n
    BY <1>6
  <2>2. b + d <= a
    BY <1>2, <2>1
  <2> HIDE DEF a, b, c, d
  <2> QED  BY <1>3, <2>2
<1> QED  BY <1>4, <1>5, <1>6

-----------------------------------------------------------------------------
(* Functions applied again and again.                                      *)

Iterates(L, step, m, A) ==
  /\ A \in [0 .. m -> [L -> L]] /\ A[0] = [b \in L |-> b]
  /\ \A k \in 1 .. m : A[k] = [b \in L |-> step[A[k-1][b]]]

\* One can go on as long as one likes.
LEMMA IteratesExist ==
  ASSUME NEW L, NEW step \in [L -> L], NEW m \in Nat
  PROVE  \E A : Iterates(L, step, m, A)
<1> DEFINE V == [L -> L]
           F == [a \in Nat \X V |-> [b \in L |-> step[a[2][b]]]]
           x == [b \in L |-> b]
<1>1. x \in V
  OBVIOUS
<1>2. \A a \in Nat \X V : [b \in L |-> step[a[2][b]]] \in V
  OBVIOUS
<1>3. F \in [Nat \X V -> V]
  BY <1>2
<1>4. PICK A : Recurs(V, x, F, m, A)
  <2> HIDE DEF V, F, x
  <2> QED  BY <1>1, <1>3, Recursion
<1>5. A \in [0 .. m -> V] /\ A[0] = x /\ \A k \in 1 .. m : A[k] = F[<<k, A[k-1]>>]
  <2> HIDE DEF V, F, x
  <2> QED  BY <1>4 DEF Recurs
<1>6. ASSUME NEW k \in 1 .. m PROVE A[k] = [b \in L |-> step[A[k-1][b]]]
  <2> DEFINE w == <<k, A[k-1]>>
  <2>1. w \in Nat \X V /\ w[2] = A[k-1]
    <3>1. k - 1 \in 0 .. m /\ k \in Nat
      OBVIOUS
    <3> QED  BY <1>5, <3>1
  <2>2. A[k] = F[w]
    BY <1>5
  <2> HIDE DEF w, V
  <2>3. F[w] = [b \in L |-> step[w[2][b]]]
    BY <2>1
  <2> QED  BY <2>1, <2>2, <2>3
<1> QED  BY <1>5, <1>6 DEF Iterates

\* One step after the other.
LEMMA IterateFacts ==
  ASSUME NEW L, NEW step \in [L -> L], NEW m \in Nat, NEW A, Iterates(L, step, m, A)
  PROVE  /\ \A k \in 0 .. m, b \in L : A[k][b] \in L
         /\ \A b \in L : A[0][b] = b
         /\ \A k \in 1 .. m, b \in L : A[k][b] = step[A[k-1][b]]
<1>1. A \in [0 .. m -> [L -> L]] /\ A[0] = [b \in L |-> b]
  BY DEF Iterates
<1>2. ASSUME NEW k \in 0 .. m, NEW b \in L PROVE A[k][b] \in L
  <2>1. A[k] \in [L -> L]
    BY <1>1
  <2> QED  BY <2>1
<1>3. ASSUME NEW k \in 1 .. m, NEW b \in L PROVE A[k][b] = step[A[k-1][b]]
  <2>1. A[k] = [c \in L |-> step[A[k-1][c]]]
    BY DEF Iterates
  <2> QED  BY <2>1
<1>4. \A b \in L : A[0][b] = b
  BY <1>1
<1> QED  BY <1>2, <1>3, <1>4

\* Steps add up.
LEMMA IteratesAdd ==
  ASSUME NEW L, NEW step \in [L -> L], NEW m \in Nat, NEW A, Iterates(L, step, m, A),
         NEW j \in Nat, NEW b \in L
  PROVE  \A i \in Nat : i + j <= m => A[i + j][b] = A[i][A[j][b]]
<1>1. /\ \A k \in 0 .. m, c \in L : A[k][c] \in L
      /\ \A c \in L : A[0][c] = c
      /\ \A k \in 1 .. m, c \in L : A[k][c] = step[A[k-1][c]]
  BY IterateFacts
<1> DEFINE T == {i \in Nat : i + j <= m => A[i + j][b] = A[i][A[j][b]]}
<1>2. 0 \in T
  <2>1. SUFFICES ASSUME 0 + j <= m PROVE A[0 + j][b] = A[0][A[j][b]]
    OBVIOUS
  <2>2. j \in 0 .. m /\ 0 + j = j
    BY <2>1
  <2> QED  BY <1>1, <2>2
<1>3. ASSUME NEW i \in Nat, i \in T PROVE i + 1 \in T
  <2>1. SUFFICES ASSUME (i + 1) + j <= m PROVE A[(i + 1) + j][b] = A[i + 1][A[j][b]]
    OBVIOUS
  <2>2. /\ (i + 1) + j \in 1 .. m /\ (i + 1) + j - 1 = i + j /\ i + j <= m /\ j \in 0 .. m
        /\ i + 1 \in 1 .. m /\ i + 1 - 1 = i
    BY <2>1
  <2>3. A[i + j][b] = A[i][A[j][b]]
    BY <1>3, <2>2
  <2>4. A[(i + 1) + j][b] = step[A[i + j][b]]
    BY <1>1, <2>2
  <2>5. A[i + 1][A[j][b]] = step[A[i][A[j][b]]]
    <3>1. A[j][b] \in L
      BY <1>1, <2>2
    <3> QED  BY <1>1, <2>2, <3>1
  <2> QED  BY <2>3, <2>4, <2>5
<1>4. Nat \subseteq T
  <2> HIDE DEF T
  <2> QED  BY <1>2, <1>3, InductionOnSet
<1> QED  BY <1>4

\* Where only n elements are gone on from, after n steps one comes round again.
LEMMA IteratesComeRound ==
  ASSUME NEW L, NEW step \in [L -> L], NEW T \in SUBSET L, IsFiniteSet(T), NEW n \in Nat, Cardinality(T) = n,
         \A c \in L \ T : step[c] = c,
         NEW A, Iterates(L, step, n + n + 1, A), NEW b \in L
  PROVE  \E d \in 1 .. n + 1 : A[n + d][b] = A[n][b]
<1> DEFINE m == n + n + 1
<1>1. /\ \A k \in 0 .. m, c \in L : A[k][c] \in L
      /\ \A c \in L : A[0][c] = c
      /\ \A k \in 1 .. m, c \in L : A[k][c] = step[A[k-1][c]]
  <2>1. m \in Nat
    OBVIOUS
  <2> HIDE DEF m
  <2>2. Iterates(L, step, m, A)
    BY DEF m
  <2> QED  BY <2>1, <2>2, IterateFacts
<1>2. \A i, j \in Nat, c \in L : i + j <= m => A[i + j][c] = A[i][A[j][c]]
  BY IteratesAdd
<1>3. CASE \E j \in 0 .. n : A[j][b] \notin T
  <2>1. PICK j \in 0 .. n : A[j][b] \notin T
    BY <1>3
  <2> DEFINE c == A[j][b]
             U == {i \in Nat : i + j <= m => A[i + j][b] = c}
  <2>2. c \in L \ T /\ step[c] = c
    <3>1. j \in 0 .. m
      OBVIOUS
    <3> QED  BY <1>1, <2>1, <3>1
  <2>3. 0 \in U
    OBVIOUS
  <2>4. ASSUME NEW i \in Nat, i \in U PROVE i + 1 \in U
    <3>1. SUFFICES ASSUME (i + 1) + j <= m PROVE A[(i + 1) + j][b] = c
      OBVIOUS
    <3>2. (i + 1) + j \in 1 .. m /\ (i + 1) + j - 1 = i + j /\ i + j <= m
      BY <3>1
    <3>3. A[i + j][b] = c
      BY <2>4, <3>2
    <3> QED  BY <1>1, <2>2, <3>2, <3>3
  <2>5. Nat \subseteq U
    <3> HIDE DEF U
    <3> QED  BY <2>3, <2>4, InductionOnSet
  <2>6. n - j \in Nat /\ n + 1 - j \in Nat /\ (n - j) + j = n /\ (n + 1 - j) + j = n + 1 /\ n + 1 <= m /\ n <= m
    OBVIOUS
  <2>7. A[n][b] = c /\ A[n + 1][b] = c
    BY <2>5, <2>6
  <2>8. 1 \in 1 .. n + 1
    OBVIOUS
  <2> QED  BY <2>7, <2>8
<1>4. CASE \A j \in 0 .. n : A[j][b] \in T
  <2> DEFINE f == [j \in 0 .. n |-> A[j][b]]
  <2>1. f \in [0 .. n -> T]
    BY <1>4
  <2>2. IsFiniteSet(0 .. n) /\ Cardinality(0 .. n) = n + 1
    BY FS_Interval
  <2>3. Cardinality(T) < Cardinality(0 .. n)
    BY <2>2
  <2>4. \E i, j \in 0 .. n : i # j /\ f[i] = f[j]
    <3> HIDE DEF f
    <3> QED  BY <2>1, <2>2, <2>3, FS_PigeonHole
  <2>5. PICK i \in 0 .. n, j \in 0 .. n : i < j /\ A[i][b] = A[j][b]
    <3>1. PICK x \in 0 .. n, y \in 0 .. n : x # y /\ f[x] = f[y]
      BY <2>4
    <3>2. A[x][b] = A[y][b]
      BY <3>1
    <3>3. x < y \/ y < x
      BY <3>1
    <3> QED  BY <3>2, <3>3
  <2> DEFINE d == j - i
  <2>6. d \in 1 .. n + 1 /\ n - i \in Nat /\ (n - i) + j = n + d /\ (n - i) + i = n /\ n + d <= m /\ n <= m
    BY <2>5
  <2>7. A[(n - i) + j][b] = A[n - i][A[j][b]] /\ A[(n - i) + i][b] = A[n - i][A[i][b]]
    BY <1>2, <2>6
  <2> HIDE DEF d
  <2> QED  BY <2>5, <2>6, <2>7
<1> QED  BY <1>3, <1>4

TailOf(A, n, b) == {A[k][A[n][b]] : k \in 0 .. n}

\* So the elements one ends up with are the same from the next element on.
LEMMA TailsAgree ==
  ASSUME NEW L, NEW step \in [L -> L], NEW T \in SUBSET L, IsFiniteSet(T), NEW n \in Nat, Cardinality(T) = n,
         \A c \in L \ T : step[c] = c,
         NEW A, Iterates(L, step, n + n + 1, A), NEW b \in L
  PROVE  TailOf(A, n, step[b]) = TailOf(A, n, b)
<1> DEFINE m == n + n + 1
<1>1. /\ \A k \in 0 .. m, c \in L : A[k][c] \in L
      /\ \A c \in L : A[0][c] = c
      /\ \A k \in 1 .. m, c \in L : A[k][c] = step[A[k-1][c]]
  <2>1. m \in Nat
    OBVIOUS
  <2> HIDE DEF m
  <2>2. Iterates(L, step, m, A)
    BY DEF m
  <2> QED  BY <2>1, <2>2, IterateFacts
<1>2. \A i, j \in Nat, c \in L : i + j <= m => A[i + j][c] = A[i][A[j][c]]
  BY IteratesAdd
<1>3. PICK d \in 1 .. n + 1 : A[n + d][b] = A[n][b]
  BY IteratesComeRound
<1>4. A[1][b] = step[b]
  <2>1. 1 \in 1 .. m /\ 1 - 1 = 0
    OBVIOUS
  <2>2. A[1][b] = step[A[0][b]]
    BY <1>1, <2>1
  <2> QED  BY <1>1, <2>2
<1>5. \A k \in 0 .. n : A[k][A[n][b]] = A[k + n][b] /\ A[k][A[n][step[b]]] = A[k + (n + 1)][b]
  <2>1. SUFFICES ASSUME NEW k \in 0 .. n
                 PROVE  A[k][A[n][b]] = A[k + n][b] /\ A[k][A[n][step[b]]] = A[k + (n + 1)][b]
    OBVIOUS
  <2>2. k \in Nat /\ k + n <= m /\ k + (n + 1) <= m /\ n + 1 <= m /\ 1 \in Nat /\ n + 1 \in Nat
    OBVIOUS
  <2>3. A[n + 1][b] = A[n][A[1][b]]
    BY <1>2, <2>2
  <2>4. A[k + n][b] = A[k][A[n][b]] /\ A[k + (n + 1)][b] = A[k][A[n + 1][b]]
    BY <1>2, <2>2
  <2> QED  BY <1>4, <2>3, <2>4
<1>6. TailOf(A, n, step[b]) \subseteq TailOf(A, n, b)
  <2>1. SUFFICES ASSUME NEW k \in 0 .. n PROVE A[k + (n + 1)][b] \in TailOf(A, n, b)
    BY <1>5 DEF TailOf
  <2>2. CASE k < n
    <3>1. k + 1 \in 0 .. n /\ (k + 1) + n = k + (n + 1)
      BY <2>2
    <3>2. A[(k + 1) + n][b] \in TailOf(A, n, b)
      BY <1>5, <3>1 DEF TailOf
    <3> QED  BY <3>1, <3>2
  <2>3. CASE k = n
    <3> DEFINE j == n + 1 - d
    <3>1. j \in 0 .. n /\ j + (n + d) = k + (n + 1) /\ k + (n + 1) <= m /\ n + d \in Nat /\ j \in Nat /\ j + n <= m
      BY <2>3
    <3> HIDE DEF j
    <3>2. A[j + (n + d)][b] = A[j][A[n + d][b]]
      BY <1>2, <3>1
    <3>3. A[j][A[n][b]] \in TailOf(A, n, b)
      BY <3>1 DEF TailOf
    <3> QED  BY <1>3, <3>1, <3>2, <3>3
  <2> QED  BY <2>2, <2>3
<1>7. TailOf(A, n, b) \subseteq TailOf(A, n, step[b])
  <2>a. \A x \in TailOf(A, n, b) : \E k \in 0 .. n : x = A[k][A[n][b]]
    BY DEF TailOf
  <2>b. SUFFICES ASSUME NEW k \in 0 .. n PROVE A[k][A[n][b]] \in TailOf(A, n, step[b])
    BY <2>a
  <2>1. A[k][A[n][b]] = A[k + n][b]
    BY <1>5
  <2>2. CASE k > 0
    <3>1. k - 1 \in 0 .. n /\ (k - 1) + (n + 1) = k + n
      BY <2>2
    <3>2. A[(k - 1) + (n + 1)][b] \in TailOf(A, n, step[b])
      BY <1>5, <3>1 DEF TailOf
    <3> QED  BY <2>1, <3>1, <3>2
  <2>3. CASE k = 0
    <3>1. d - 1 \in 0 .. n /\ (d - 1) + (n + 1) = n + d /\ k + n = n
      BY <2>3
    <3>2. A[(d - 1) + (n + 1)][b] \in TailOf(A, n, step[b])
      BY <1>5, <3>1 DEF TailOf
    <3> QED  BY <1>3, <2>1, <3>1, <3>2
  <2> QED  BY <2>2, <2>3
<1> QED  BY <1>6, <1>7
=============================================================================
