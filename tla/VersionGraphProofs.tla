------------------------- MODULE VersionGraphProofs -------------------------
(***************************************************************************)
(* Lemmas about the version graph of FileViews: what VersionPath computes, *)
(* that CompareVersionPaths orders the heads, and which head wins when a   *)
(* version is added.                                                       *)
(*                                                                         *)
(* VersionPath is a recursive function.  Induction over the natural        *)
(* numbers is done with sets: a set that holds 0 and n + 1 with each n it  *)
(* holds has all of Nat, since a least number outside it cannot exist.     *)
(***************************************************************************)
EXTENDS FileViews, FiniteSetTheorems, SequenceTheorems, WellFoundedInduction, TLAPS

-----------------------------------------------------------------------------
(* Numbers *)

\* A non-empty set of numbers has a least one.
LEMMA LeastNatural ==
    ASSUME NEW T, T \subseteq Nat, T # {}
    PROVE  \E m \in T : \A n \in T : m <= n
<1> DEFINE Less == {p \in Nat \X Nat : p[1] < p[2]}
<1>1. Less = OpToRel(<, Nat)
  BY DEF OpToRel
<1>2. IsWellFoundedOn(Less, Nat)
  BY <1>1, NatLessThanWellFounded
<1>3. \A m, n \in Nat : n < m => <<n, m>> \in Less
  OBVIOUS
<1> HIDE DEF Less
<1>4. PICK m \in T : \A n \in T : <<n, m>> \notin Less
  BY <1>2, WFMin
<1>5. \A n \in T : ~(n < m)
  BY <1>3, <1>4
<1> QED
  BY <1>5

\* Induction: a set with 0 and every successor of its members is all of Nat.
LEMMA Induction ==
    ASSUME NEW T, 0 \in T, \A n \in Nat : n \in T => n + 1 \in T
    PROVE  Nat \subseteq T
<1> SUFFICES ASSUME Nat \ T # {} PROVE FALSE
  OBVIOUS
<1>1. PICK m \in Nat \ T : \A n \in Nat \ T : m <= n
  BY LeastNatural
<1>2. m # 0 /\ m - 1 \in Nat
  BY <1>1
<1>3. m - 1 \in T
  BY <1>1, <1>2
<1> QED
  BY <1>1, <1>2, <1>3

\* A function can be iterated.
LEMMA Iterate ==
    ASSUME NEW S, NEW s \in S, NEW D \in [S -> S]
    PROVE  \E f \in [Nat -> S] : f[0] = s /\ \A n \in Nat : f[n + 1] = D[f[n]]
<1> DEFINE Approx(n) == {g \in [0 .. n -> S] :
                            g[0] = s /\ \A i \in 0 .. n - 1 : g[i + 1] = D[g[i]]}
<1>1. \A n \in Nat : Approx(n) # {}
  <2> DEFINE T == {n \in Nat : Approx(n) # {}}
  <2>1. 0 \in T
    <3>1. [i \in 0 .. 0 |-> s] \in Approx(0)
      OBVIOUS
    <3> QED
      BY <3>1
  <2>2. ASSUME NEW n \in Nat, n \in T PROVE n + 1 \in T
    <3>1. PICK g \in [0 .. n -> S] : g[0] = s /\ \A i \in 0 .. n - 1 : g[i + 1] = D[g[i]]
      BY <2>2
    <3> DEFINE h == [i \in 0 .. n + 1 |-> IF i = n + 1 THEN D[g[n]] ELSE g[i]]
    <3>2. g[n] \in S /\ D[g[n]] \in S
      BY <3>1
    <3>3. h \in [0 .. n + 1 -> S]
      BY <3>1, <3>2
    <3>4. h[0] = s
      BY <3>1
    <3>5. \A i \in 0 .. n : h[i + 1] = D[h[i]]
      BY <3>1
    <3> HIDE DEF h
    <3>6. h \in Approx(n + 1)
      BY <3>3, <3>4, <3>5
    <3> QED
      BY <3>6
  <2> HIDE DEF T
  <2>3. Nat \subseteq T
    BY <2>1, <2>2, Induction
  <2> QED
    BY <2>3 DEF T
<1>2. \A i \in Nat : \A m, n \in Nat : \A g \in Approx(m), h \in Approx(n) :
         i <= m /\ i <= n => g[i] = h[i]
  <2> DEFINE T == {i \in Nat : \A m, n \in Nat : \A g \in Approx(m), h \in Approx(n) :
                                  i <= m /\ i <= n => g[i] = h[i]}
  <2>1. 0 \in T
    OBVIOUS
  <2>2. ASSUME NEW i \in Nat, i \in T PROVE i + 1 \in T
    <3>0. \A m, n \in Nat : \A g \in Approx(m), h \in Approx(n) : i <= m /\ i <= n => g[i] = h[i]
      <4> HIDE DEF Approx
      <4> QED
        BY <2>2
    <3> HIDE DEF Approx
    <3> SUFFICES ASSUME NEW m \in Nat, NEW n \in Nat, NEW g \in Approx(m), NEW h \in Approx(n),
                        i + 1 <= m, i + 1 <= n
                 PROVE  g[i + 1] = h[i + 1]
      OBVIOUS
    <3> USE DEF Approx
    <3>1. g[i] = h[i]
      <4>1. i <= m /\ i <= n
        OBVIOUS
      <4> HIDE DEF Approx
      <4> QED
        BY <3>0, <4>1
    <3>2. g[i + 1] = D[g[i]] /\ h[i + 1] = D[h[i]]
      OBVIOUS
    <3> QED
      BY <3>1, <3>2
  <2> HIDE DEF T
  <2>3. Nat \subseteq T
    BY <2>1, <2>2, Induction
  <2> QED
    BY <2>3 DEF T
<1> DEFINE a(n) == CHOOSE g : g \in Approx(n)
<1>3. \A n \in Nat : a(n) \in Approx(n)
  BY <1>1
<1> HIDE DEF a
<1> DEFINE f == [n \in Nat |-> a(n)[n]]
<1>4. f \in [Nat -> S]
  BY <1>3
<1>5. f[0] = s
  BY <1>3
<1>6. ASSUME NEW n \in Nat PROVE f[n + 1] = D[f[n]]
  <2>1. a(n + 1)[n + 1] = D[a(n + 1)[n]]
    BY <1>3
  <2>2. a(n + 1)[n] = a(n)[n]
    <3>1. a(n + 1) \in Approx(n + 1) /\ a(n) \in Approx(n)
      BY <1>3
    <3> HIDE DEF Approx
    <3> QED
      BY <1>2, <3>1
  <2> QED
    BY <2>1, <2>2
<1> HIDE DEF f
<1> QED
  BY <1>4, <1>5, <1>6

-----------------------------------------------------------------------------
(* Graphs and walks *)

\* What a set of versions has to be for its graph to make sense.
Links(V) == \A v \in V : v.id \in Nat \ {0} /\ v.parent \in Nat

Distinct(V) == \A v, w \in V : v.id = w.id => v = w

Acyclic(V) == \A U \in SUBSET V : U # {} => Heads(U) # {}

Graph(V) == IsFiniteSet(V) /\ Links(V) /\ Distinct(V) /\ Acyclic(V)

\* The function VersionPath is computed with.
Walk(V) ==
    CHOOSE walk : walk = [k \in Nat |->
        [i \in Nat |-> IF i = 0 \/ k = 0 THEN <<>> ELSE Append(walk[k - 1][ParentIn(V, i)], i)]]

\* The path of a version is its walk, cut off after as many steps as there are versions.
LEMMA PathIsWalk ==
    ASSUME NEW V, NEW i
    PROVE  VersionPath(V, i) = Walk(V)[Cardinality(V) + 1][i]
  BY DEF VersionPath, Walk

\* A parent is a number.
LEMMA ParentInNat ==
    ASSUME NEW V, Links(V), NEW i
    PROVE  ParentIn(V, i) \in Nat
  BY DEF ParentIn, Links

\* The parent of a version in the graph is the one it names.
LEMMA ParentOf ==
    ASSUME NEW V, Distinct(V), NEW v \in V
    PROVE  ParentIn(V, v.id) = v.parent
  BY DEF ParentIn, Distinct

\* A function with the equation of Walk exists.
LEMMA WalkExists ==
    ASSUME NEW V, Links(V)
    PROVE  \E walk : walk = [k \in Nat |->
              [i \in Nat |-> IF i = 0 \/ k = 0 THEN <<>> ELSE Append(walk[k - 1][ParentIn(V, i)], i)]]
<1> DEFINE S == [Nat -> Seq(Nat)]
           s == [i \in Nat |-> <<>>]
           D == [w \in S |-> [i \in Nat |-> IF i = 0 THEN <<>> ELSE Append(w[ParentIn(V, i)], i)]]
<1>1. s \in S
  OBVIOUS
<1>2. D \in [S -> S]
  <2> SUFFICES ASSUME NEW w \in S
               PROVE  [i \in Nat |-> IF i = 0 THEN <<>> ELSE Append(w[ParentIn(V, i)], i)] \in S
    OBVIOUS
  <2>1. \A i \in Nat : w[ParentIn(V, i)] \in Seq(Nat)
    BY ParentInNat
  <2>2. \A i \in Nat : Append(w[ParentIn(V, i)], i) \in Seq(Nat)
    BY <2>1
  <2> QED
    BY <2>2
<1>3. \A w \in S : D[w] = [i \in Nat |-> IF i = 0 THEN <<>> ELSE Append(w[ParentIn(V, i)], i)]
  OBVIOUS
<1>4. \A i \in Nat : s[i] = <<>>
  OBVIOUS
<1> HIDE DEF S, s, D
<1>5. PICK f \in [Nat -> S] : f[0] = s /\ \A n \in Nat : f[n + 1] = D[f[n]]
  BY <1>1, <1>2, Iterate
<1> DEFINE e(k, i) == IF i = 0 \/ k = 0 THEN <<>> ELSE Append(f[k - 1][ParentIn(V, i)], i)
<1>6. \A k \in Nat : f[k] = [i \in Nat |-> e(k, i)]
  <2> SUFFICES ASSUME NEW k \in Nat PROVE f[k] = [i \in Nat |-> e(k, i)]
    OBVIOUS
  <2>1. f[k] \in [Nat -> Seq(Nat)]
    BY <1>5 DEF S
  <2>2. ASSUME NEW i \in Nat PROVE f[k][i] = e(k, i)
    <3>1. CASE k = 0
      BY <3>1, <1>4, <1>5
    <3>2. CASE k # 0
      <4>1. k - 1 \in Nat /\ (k - 1) + 1 = k
        BY <3>2
      <4>2. f[k] = D[f[k - 1]] /\ f[k - 1] \in S
        BY <1>5, <4>1
      <4>3. f[k] = [j \in Nat |-> IF j = 0 THEN <<>> ELSE Append(f[k - 1][ParentIn(V, j)], j)]
        BY <4>2, <1>3
      <4>4. f[k][i] = IF i = 0 THEN <<>> ELSE Append(f[k - 1][ParentIn(V, i)], i)
        BY <4>3
      <4> QED
        BY <4>4, <3>2
    <3> QED
      BY <3>1, <3>2
  <2> HIDE DEF e
  <2> QED
    BY <2>1, <2>2
<1> HIDE DEF e
<1>7. f = [k \in Nat |-> [i \in Nat |-> e(k, i)]]
  BY <1>5, <1>6
<1> QED
  BY <1>7 DEF e

\* A walk of no steps is empty; a longer one ends with where it started, after
\* the walk from the parent.
LEMMA WalkStep ==
    ASSUME NEW V, Links(V)
    PROVE  /\ \A i \in Nat : Walk(V)[0][i] = <<>>
           /\ \A k, i \in Nat : Walk(V)[k + 1][i] =
                 IF i = 0 THEN <<>> ELSE Append(Walk(V)[k][ParentIn(V, i)], i)
           /\ \A k, i \in Nat : Walk(V)[k][i] \in Seq(Nat)
<1> DEFINE W == Walk(V)
           e(k, i) == IF i = 0 \/ k = 0 THEN <<>> ELSE Append(W[k - 1][ParentIn(V, i)], i)
<1>1. W = [k \in Nat |-> [i \in Nat |-> e(k, i)]]
  BY WalkExists DEF Walk
<1> HIDE DEF W, e
<1>2. ASSUME NEW k \in Nat, NEW i \in Nat PROVE W[k][i] = e(k, i)
  <2>1. W[k] = [j \in Nat |-> e(k, j)]
    BY <1>1, Zenon
  <2> QED
    BY <2>1
<1>3. \A i \in Nat : W[0][i] = <<>>
  BY <1>2 DEF e
<1>4. \A k, i \in Nat : W[k + 1][i] = IF i = 0 THEN <<>> ELSE Append(W[k][ParentIn(V, i)], i)
  <2> SUFFICES ASSUME NEW k \in Nat, NEW i \in Nat
               PROVE  W[k + 1][i] = IF i = 0 THEN <<>> ELSE Append(W[k][ParentIn(V, i)], i)
    OBVIOUS
  <2>1. k + 1 \in Nat /\ k + 1 # 0 /\ (k + 1) - 1 = k
    OBVIOUS
  <2>2. W[k + 1][i] = e(k + 1, i)
    BY <1>2, <2>1
  <2> QED
    BY <2>1, <2>2 DEF e
<1>5. \A k, i \in Nat : W[k][i] \in Seq(Nat)
  <2> DEFINE T == {k \in Nat : \A i \in Nat : W[k][i] \in Seq(Nat)}
  <2>0. <<>> \in Seq(Nat)
    OBVIOUS
  <2>1. 0 \in T
    BY <1>3, <2>0, Zenon
  <2>2. ASSUME NEW k \in Nat, k \in T PROVE k + 1 \in T
    <3>1. \A i \in Nat : W[k][ParentIn(V, i)] \in Seq(Nat)
      BY <2>2, ParentInNat
    <3>2. ASSUME NEW i \in Nat PROVE W[k + 1][i] \in Seq(Nat)
      <4>1. Append(W[k][ParentIn(V, i)], i) \in Seq(Nat)
        BY <3>1, AppendProperties
      <4>2. W[k + 1][i] = IF i = 0 THEN <<>> ELSE Append(W[k][ParentIn(V, i)], i)
        BY <1>4, Zenon
      <4> QED
        BY <4>1, <4>2, <2>0, Zenon
    <3> QED
      BY <3>2
  <2> HIDE DEF T
  <2>3. Nat \subseteq T
    BY <2>1, <2>2, Induction
  <2> QED
    BY <2>3 DEF T
<1> QED
  BY <1>3, <1>4, <1>5 DEF W

\* The same, for the step before.
LEMMA WalkBack ==
    ASSUME NEW V, Links(V), NEW m \in Nat \ {0}, NEW i \in Nat
    PROVE  Walk(V)[m][i] = IF i = 0 THEN <<>> ELSE Append(Walk(V)[m - 1][ParentIn(V, i)], i)
<1> DEFINE k == m - 1
<1>1. k \in Nat /\ k + 1 = m
  OBVIOUS
<1> HIDE DEF k
<1>2. Walk(V)[k + 1][i] = IF i = 0 THEN <<>> ELSE Append(Walk(V)[k][ParentIn(V, i)], i)
  BY <1>1, WalkStep
<1> QED
  BY <1>1, <1>2 DEF k

\* The ids of I have the same parents in both, and these are ids of I too.
Agree(U, V, I) ==
    /\ I \subseteq Nat
    /\ \A i \in I : ParentIn(U, i) = ParentIn(V, i) /\ ParentIn(V, i) \in I \union {0}

\* Walks that see the same parents are the same.
LEMMA SameWalk ==
    ASSUME NEW V, NEW U, Links(V), Links(U), NEW I, Agree(U, V, I)
    PROVE  \A k \in Nat, i \in I : Walk(U)[k][i] = Walk(V)[k][i]
<1> USE DEF Agree
<1> DEFINE T == {k \in Nat : \A i \in I \union {0} : Walk(U)[k][i] = Walk(V)[k][i]}
<1>1. 0 \in T
  BY WalkStep
<1>2. ASSUME NEW k \in Nat, k \in T PROVE k + 1 \in T
  <2>1. Walk(U)[k + 1][0] = Walk(V)[k + 1][0]
    BY WalkStep
  <2>2. ASSUME NEW i \in I PROVE Walk(U)[k + 1][i] = Walk(V)[k + 1][i]
    <3>1. Walk(U)[k][ParentIn(V, i)] = Walk(V)[k][ParentIn(V, i)]
      BY <1>2
    <3>2. Walk(U)[k + 1][i] = IF i = 0 THEN <<>> ELSE Append(Walk(U)[k][ParentIn(U, i)], i)
      BY WalkStep
    <3>3. Walk(V)[k + 1][i] = IF i = 0 THEN <<>> ELSE Append(Walk(V)[k][ParentIn(V, i)], i)
      BY WalkStep
    <3> QED
      BY <3>1, <3>2, <3>3
  <2>3. \A i \in I \union {0} : Walk(U)[k + 1][i] = Walk(V)[k + 1][i]
    BY <2>1, <2>2, Zenon
  <2> QED
    BY <2>3
<1> HIDE DEF T
<1>3. Nat \subseteq T
  BY <1>1, <1>2, Induction
<1> QED
  BY <1>3 DEF T

\* Part of a graph is a graph.
LEMMA Subgraph ==
    ASSUME NEW V, Graph(V), NEW U, U \subseteq V
    PROVE  Graph(U)
  BY FS_Subset DEF Graph, Links, Distinct, Acyclic

\* In a graph of n versions no walk goes on after n + 1 steps.
LEMMA WalkEnds ==
    ASSUME NEW V, Graph(V)
    PROVE  \A m, i \in Nat : m > Cardinality(V) => Walk(V)[m][i] = VersionPath(V, i)
<1> DEFINE Ends(U, n) == \A m, i \in Nat : m > n => Walk(U)[m][i] = Walk(U)[n + 1][i]
           T == {n \in Nat : \A U \in SUBSET V : Cardinality(U) = n => Ends(U, n)}
<1>1. 0 \in T
  <2> SUFFICES ASSUME NEW U \in SUBSET V, Cardinality(U) = 0, NEW m \in Nat, NEW i \in Nat, m > 0
               PROVE  Walk(U)[m][i] = Walk(U)[1][i]
    OBVIOUS
  <2>1. U = {} /\ Links(U)
    BY FS_Subset, FS_EmptySet DEF Graph, Links
  <2>2. ParentIn(U, i) = 0
    BY <2>1 DEF ParentIn
  <2>3. \A k \in Nat : Walk(U)[k][0] = <<>>
    <3> SUFFICES ASSUME NEW k \in Nat PROVE Walk(U)[k][0] = <<>>
      OBVIOUS
    <3>1. CASE k = 0
      BY <3>1, <2>1, WalkStep
    <3>2. CASE k # 0
      BY <3>2, <2>1, WalkBack
    <3> QED
      BY <3>1, <3>2
  <2>4. m \in Nat \ {0} /\ m - 1 \in Nat /\ 1 - 1 = 0 /\ 1 \in Nat \ {0}
    OBVIOUS
  <2>5. Walk(U)[m][i] = IF i = 0 THEN <<>> ELSE Append(Walk(U)[m - 1][0], i)
    <3>1. Walk(U)[m][i] = IF i = 0 THEN <<>> ELSE Append(Walk(U)[m - 1][ParentIn(U, i)], i)
      BY <2>1, <2>4, WalkBack
    <3> QED
      BY <2>2, <3>1
  <2>6. Walk(U)[1][i] = IF i = 0 THEN <<>> ELSE Append(Walk(U)[0][0], i)
    <3>1. Walk(U)[1][i] = IF i = 0 THEN <<>> ELSE Append(Walk(U)[1 - 1][ParentIn(U, i)], i)
      BY <2>1, <2>4, WalkBack
    <3> QED
      BY <2>2, <2>4, <3>1
  <2> QED
    BY <2>3, <2>4, <2>5, <2>6
<1>2. ASSUME NEW n \in Nat, n \in T PROVE n + 1 \in T
  <2> SUFFICES ASSUME NEW U \in SUBSET V, Cardinality(U) = n + 1,
                      NEW m \in Nat, NEW i \in Nat, m > n + 1
               PROVE  Walk(U)[m][i] = Walk(U)[n + 2][i]
    OBVIOUS
  <2>1. Graph(U) /\ U # {}
    BY Subgraph, FS_EmptySet
  <2>2. PICK h \in U : \A w \in U : w.parent # h.id
    BY <2>1 DEF Graph, Acyclic, Heads
  <2> DEFINE R == U \ {h}
             I == Nat \ {h.id}
  <2>3. Graph(R) /\ Cardinality(R) = n
    <3>1. Cardinality(R) = Cardinality(U) - 1
      BY <2>1, FS_RemoveElement DEF Graph
    <3> QED
      BY <2>1, <3>1, Subgraph
  <2>4. \A j \in I : ParentIn(U, j) = ParentIn(R, j) /\ ParentIn(R, j) \in I \union {0}
    <3> SUFFICES ASSUME NEW j \in I
                 PROVE  ParentIn(U, j) = ParentIn(R, j) /\ ParentIn(R, j) \in I \union {0}
      OBVIOUS
    <3>1. CASE \E v \in R : v.id = j
      <4>1. PICK v \in R : v.id = j
        BY <3>1
      <4>2. ParentIn(U, j) = v.parent /\ ParentIn(R, j) = v.parent
        BY <4>1, <2>1, <2>3, ParentOf DEF Graph
      <4>3. v.parent # h.id /\ v.parent \in Nat
        BY <2>1, <2>2 DEF Graph, Links
      <4> QED
        BY <4>2, <4>3
    <3>2. CASE \A v \in R : v.id # j
      BY <3>2 DEF ParentIn
    <3> QED
      BY <3>1, <3>2
  <2>5. \A k \in Nat, j \in I : Walk(U)[k][j] = Walk(R)[k][j]
    <3>1. Links(U) /\ Links(R)
      BY <2>1, <2>3 DEF Graph
    <3>2. Agree(U, R, I)
      BY <2>4 DEF Agree
    <3> HIDE DEF I, R
    <3> QED
      BY <3>1, <3>2, SameWalk
  <2>6. \A k \in Nat, j \in I : k > n => Walk(U)[k][j] = Walk(R)[n + 1][j]
    <3>1. Ends(R, n)
      BY <1>2, <2>3
    <3>2. I \subseteq Nat
      OBVIOUS
    <3> HIDE DEF I, R
    <3>3. \A k, j \in Nat : k > n => Walk(R)[k][j] = Walk(R)[n + 1][j]
      BY <3>1
    <3> HIDE DEF Ends
    <3> QED
      BY <3>2, <3>3, <2>5
  <2>7. CASE i # h.id
    BY <2>7, <2>6
  <2>8. CASE i = h.id
    <3>1. i # 0 /\ ParentIn(U, i) \in I
      BY <2>8, <2>1, <2>2, ParentOf DEF Graph, Links
    <3>2. m - 1 \in Nat /\ m - 1 > n /\ (m - 1) + 1 = m /\ (n + 1) + 1 = n + 2 /\ n + 1 > n
      OBVIOUS
    <3>3. Walk(U)[m - 1][ParentIn(U, i)] = Walk(U)[n + 1][ParentIn(U, i)]
      BY <2>6, <3>1, <3>2
    <3>4. Walk(U)[m][i] = Append(Walk(U)[m - 1][ParentIn(U, i)], i)
      <4>1. Links(U) /\ m \in Nat \ {0}
        BY <2>1 DEF Graph
      <4> QED
        BY <4>1, <3>1, WalkBack
    <3>5. Walk(U)[n + 2][i] = Append(Walk(U)[n + 1][ParentIn(U, i)], i)
      <4>1. Links(U) /\ n + 2 \in Nat \ {0} /\ (n + 2) - 1 = n + 1
        BY <2>1 DEF Graph
      <4>2. Walk(U)[n + 2][i] = Append(Walk(U)[(n + 2) - 1][ParentIn(U, i)], i)
        BY <4>1, <3>1, WalkBack
      <4> QED
        BY <4>1, <4>2
    <3> QED
      BY <3>3, <3>4, <3>5
  <2> QED
    BY <2>7, <2>8
<1> HIDE DEF T
<1>3. Nat \subseteq T
  BY <1>1, <1>2, Induction
<1>4. Cardinality(V) \in Nat
  BY FS_CardinalityType DEF Graph
<1>5. Ends(V, Cardinality(V))
  BY <1>3, <1>4 DEF T
<1> QED
  BY <1>4, <1>5, PathIsWalk

\* A path is a sequence of ids that ends with the version; the path of its
\* parent comes before.
LEMMA PathStep ==
    ASSUME NEW V, Graph(V), NEW i \in Nat
    PROVE  /\ VersionPath(V, i) \in Seq(Nat)
           /\ i = 0 => VersionPath(V, i) = <<>>
           /\ i # 0 => VersionPath(V, i) = Append(VersionPath(V, ParentIn(V, i)), i)
<1> DEFINE n == Cardinality(V)
<1>1. n \in Nat /\ n + 1 \in Nat /\ n + 2 \in Nat /\ (n + 1) + 1 = n + 2
  BY FS_CardinalityType DEF Graph
<1>2. Links(V)
  BY DEF Graph
<1>3. VersionPath(V, i) = Walk(V)[n + 1][i] /\ VersionPath(V, i) = Walk(V)[n + 2][i]
  BY <1>1, PathIsWalk, WalkEnds
<1>4. VersionPath(V, ParentIn(V, i)) = Walk(V)[n + 1][ParentIn(V, i)]
  BY PathIsWalk
<1> HIDE DEF n
<1>5. Walk(V)[n + 2][i] = IF i = 0 THEN <<>> ELSE Append(Walk(V)[n + 1][ParentIn(V, i)], i)
  <2>1. n + 2 \in Nat \ {0} /\ (n + 2) - 1 = n + 1
    BY <1>1
  <2>2. Walk(V)[n + 2][i] =
          IF i = 0 THEN <<>> ELSE Append(Walk(V)[(n + 2) - 1][ParentIn(V, i)], i)
    BY <2>1, <1>2, WalkBack
  <2> QED
    BY <2>1, <2>2
<1> QED
  BY <1>1, <1>2, <1>3, <1>4, <1>5, WalkStep

\* Along a path each version is the parent of the next; none of them is 0.
LEMMA PathLinks ==
    ASSUME NEW V, Graph(V), NEW i \in Nat
    PROVE  /\ \A j \in 1 .. Len(VersionPath(V, i)) : VersionPath(V, i)[j] # 0
           /\ \A j \in 1 .. Len(VersionPath(V, i)) - 1 :
                 ParentIn(V, VersionPath(V, i)[j + 1]) = VersionPath(V, i)[j]
<1> DEFINE OK(k) == /\ \A j \in 1 .. Len(VersionPath(V, k)) : VersionPath(V, k)[j] # 0
                    /\ \A j \in 1 .. Len(VersionPath(V, k)) - 1 :
                          ParentIn(V, VersionPath(V, k)[j + 1]) = VersionPath(V, k)[j]
           T == {n \in Nat : \A k \in Nat : Len(VersionPath(V, k)) = n => OK(k)}
<1>1. 0 \in T
  BY PathStep
<1>2. ASSUME NEW n \in Nat, n \in T PROVE n + 1 \in T
  <2> SUFFICES ASSUME NEW k \in Nat, Len(VersionPath(V, k)) = n + 1
               PROVE  OK(k)
    OBVIOUS
  <2> DEFINE par == ParentIn(V, k)
             p == VersionPath(V, par)
             q == VersionPath(V, k)
  <2>1. par \in Nat /\ p \in Seq(Nat) /\ q \in Seq(Nat)
    BY PathStep, ParentInNat DEF Graph
  <2>2. k # 0 /\ q = Append(p, k)
    BY PathStep
  <2>3. Len(p) = n /\ Len(q) = n + 1 /\ q[n + 1] = k /\ \A j \in 1 .. n : q[j] = p[j]
    BY <2>1, <2>2
  <2>4. OK(par)
    BY <2>1, <2>3, <1>2
  <2>5. n # 0 => p[n] = par
    <3> SUFFICES ASSUME n # 0 PROVE p[n] = par
      OBVIOUS
    <3>1. par # 0 /\ p = Append(VersionPath(V, ParentIn(V, par)), par)
      BY <2>1, <2>3, PathStep
    <3>2. VersionPath(V, ParentIn(V, par)) \in Seq(Nat)
      BY <2>1, PathStep, ParentInNat DEF Graph
    <3> QED
      BY <3>1, <3>2, <2>3
  <2> HIDE DEF p, q, par
  <2>6. \A j \in 1 .. n : p[j] # 0
    BY <2>3, <2>4 DEF p
  <2>7. \A j \in 1 .. n - 1 : ParentIn(V, p[j + 1]) = p[j]
    BY <2>3, <2>4 DEF p
  <2>8. \A j \in 1 .. n + 1 : q[j] # 0
    BY <2>2, <2>3, <2>6
  <2>9. \A j \in 1 .. n : ParentIn(V, q[j + 1]) = q[j]
    <3> SUFFICES ASSUME NEW j \in 1 .. n PROVE ParentIn(V, q[j + 1]) = q[j]
      OBVIOUS
    <3>1. CASE j = n
      BY <3>1, <2>3, <2>5 DEF par
    <3>2. CASE j < n
      <4>1. j \in 1 .. n - 1 /\ j + 1 \in 1 .. n
        BY <3>2
      <4> QED
        BY <4>1, <2>3, <2>7
    <3> QED
      BY <3>1, <3>2
  <2> QED
    BY <2>3, <2>8, <2>9 DEF q
<1> HIDE DEF T
<1>3. Nat \subseteq T
  BY <1>1, <1>2, Induction
<1>4. Len(VersionPath(V, i)) \in Nat
  BY PathStep
<1> QED
  BY <1>3, <1>4 DEF T

\* A path ends with the version itself.
LEMMA PathEnd ==
    ASSUME NEW V, Graph(V), NEW i \in Nat \ {0}
    PROVE  /\ Len(VersionPath(V, i)) \in Nat \ {0}
           /\ VersionPath(V, i)[Len(VersionPath(V, i))] = i
<1>1. VersionPath(V, i) = Append(VersionPath(V, ParentIn(V, i)), i)
  BY PathStep
<1>2. VersionPath(V, ParentIn(V, i)) \in Seq(Nat)
  BY PathStep, ParentInNat DEF Graph
<1> QED
  BY <1>1, <1>2

\* p comes before q, or is its beginning.
Begins(p, q) == Len(p) <= Len(q) /\ \A j \in 1 .. Len(p) : p[j] = q[j]

\* What a path begins with, its continuations begin with.
LEMMA BeginsAppend ==
    ASSUME NEW p \in Seq(Nat), NEW q \in Seq(Nat), Begins(p, q), NEW i \in Nat
    PROVE  Begins(p, Append(q, i)) /\ Len(Append(q, i)) > Len(p)
  BY DEF Begins

\* The path of a head begins no longer path.
LEMMA HeadEndsPath ==
    ASSUME NEW V, Graph(V), NEW h \in Heads(V), NEW i \in Nat,
           Begins(VersionPath(V, h.id), VersionPath(V, i))
    PROVE  VersionPath(V, i) = VersionPath(V, h.id)
<1> DEFINE p == VersionPath(V, h.id)
           q == VersionPath(V, i)
           n == Len(p)
<1>1. h \in V /\ h.id \in Nat \ {0}
  BY DEF Heads, Graph, Links
<1>2. p \in Seq(Nat) /\ q \in Seq(Nat) /\ n \in Nat \ {0} /\ p[n] = h.id
  BY <1>1, PathStep, PathEnd
<1>3. Len(q) = n
  <2> SUFFICES ASSUME Len(q) > n PROVE FALSE
    BY <1>2 DEF Begins
  <2>1. n \in 1 .. Len(q) - 1
    BY <1>2
  <2>2. ParentIn(V, q[n + 1]) = q[n]
    BY <2>1, PathLinks
  <2>3. q[n] = h.id
    BY <1>2 DEF Begins
  <2> HIDE DEF p, q, n
  <2>4. PICK v \in V : v.id = q[n + 1]
    BY <2>2, <2>3, <1>1 DEF ParentIn
  <2>5. v.parent = h.id
    BY <2>2, <2>3, <2>4, ParentOf DEF Graph
  <2> QED
    BY <2>5 DEF Heads
<1> QED
  BY <1>2, <1>3, SeqEqual DEF Begins

-----------------------------------------------------------------------------
(* The order of paths *)

\* No path precedes itself.
LEMMA OrderIrreflexive ==
    ASSUME NEW p \in Seq(Nat)
    PROVE  ~CompareVersionPaths(p, p)
  BY DEF CompareVersionPaths

\* Of two different paths one precedes the other.
LEMMA OrderTotal ==
    ASSUME NEW p \in Seq(Nat), NEW q \in Seq(Nat), p # q
    PROVE  CompareVersionPaths(p, q) \/ CompareVersionPaths(q, p)
<1> DEFINE D == {i \in Nat : i \in 1 .. Len(p) /\ i <= Len(q) /\ p[i] # q[i]}
<1>1. CASE D = {}
  <2>1. \A i \in 1 .. Len(p) : i <= Len(q) => p[i] = q[i]
    BY <1>1
  <2>2. Len(p) # Len(q)
    <3> SUFFICES ASSUME Len(p) = Len(q) PROVE FALSE
      OBVIOUS
    <3> QED
      BY <2>1, SeqEqual
  <2>3. CASE Len(p) < Len(q)
    BY <2>1, <2>3 DEF CompareVersionPaths
  <2>4. CASE Len(q) < Len(p)
    <3>1. \A j \in 1 .. Len(q) : q[j] = p[j]
      BY <2>1, <2>4
    <3> QED
      BY <2>4, <3>1 DEF CompareVersionPaths
  <2> QED
    BY <2>2, <2>3, <2>4
<1>2. CASE D # {}
  <2>1. PICK m \in D : \A i \in D : m <= i
    BY <1>2, LeastNatural
  <2>2. \A j \in 1 .. m - 1 : p[j] = q[j]
    <3> SUFFICES ASSUME NEW j \in 1 .. m - 1, p[j] # q[j] PROVE FALSE
      OBVIOUS
    <3>1. j \in D
      BY <2>1
    <3> QED
      BY <3>1, <2>1
  <2>3. m \in 1 .. Len(p) /\ m \in 1 .. Len(q) /\ p[m] \in Nat /\ q[m] \in Nat /\ p[m] # q[m]
    BY <2>1
  <2>4. CASE p[m] < q[m]
    BY <2>2, <2>3, <2>4 DEF CompareVersionPaths
  <2>5. CASE q[m] < p[m]
    BY <2>2, <2>3, <2>5 DEF CompareVersionPaths
  <2> QED
    BY <2>3, <2>4, <2>5
<1> QED
  BY <1>1, <1>2

\* The order is transitive.
LEMMA OrderTransitive ==
    ASSUME NEW p \in Seq(Nat), NEW q \in Seq(Nat), NEW r \in Seq(Nat),
           CompareVersionPaths(p, q), CompareVersionPaths(q, r)
    PROVE  CompareVersionPaths(p, r)
<1>1. CASE \E i \in 1 .. Len(p) : i <= Len(q) /\ p[i] < q[i] /\ \A j \in 1 .. i - 1 : p[j] = q[j]
  <2>1. PICK i \in 1 .. Len(p) : i <= Len(q) /\ p[i] < q[i] /\ \A j \in 1 .. i - 1 : p[j] = q[j]
    BY <1>1
  <2>2. CASE \E k \in 1 .. Len(q) : k <= Len(r) /\ q[k] < r[k] /\ \A j \in 1 .. k - 1 : q[j] = r[j]
    <3>1. PICK k \in 1 .. Len(q) : k <= Len(r) /\ q[k] < r[k] /\ \A j \in 1 .. k - 1 : q[j] = r[j]
      BY <2>2
    <3>2. p[i] \in Nat /\ q[i] \in Nat /\ q[k] \in Nat /\ r[k] \in Nat
      <4>1. i \in 1 .. Len(q) /\ k \in 1 .. Len(r)
        BY <2>1, <3>1
      <4> QED
        BY <4>1, ElementOfSeq
    <3>3. CASE i < k
      <4>1. i <= Len(r) /\ q[i] = r[i] /\ \A j \in 1 .. i - 1 : p[j] = r[j]
        <5>1. i \in 1 .. k - 1 /\ \A j \in 1 .. i - 1 : j \in 1 .. k - 1
          BY <3>3
        <5>2. k \in Nat /\ Len(r) \in Nat /\ k <= Len(r)
          BY <3>1
        <5>3. i <= Len(r)
          BY <5>2, <3>3
        <5> QED
          BY <5>1, <5>3, <2>1, <3>1
      <4> QED
        BY <4>1, <2>1 DEF CompareVersionPaths
    <3>4. CASE i = k
      <4>1. i <= Len(r) /\ \A j \in 1 .. i - 1 : p[j] = r[j]
        BY <2>1, <3>1, <3>4
      <4>2. p[i] < r[i]
        <5>1. p[i] < q[i] /\ q[i] < r[i]
          BY <2>1, <3>1, <3>4
        <5> QED
          BY <5>1, <3>2, <3>4
      <4> QED
        BY <4>1, <4>2, <2>1 DEF CompareVersionPaths
    <3>5. CASE k < i
      <4>0. k \in 1 .. i - 1 /\ k \in 1 .. Len(p) /\ i \in Nat
        BY <3>5
      <4>1. k <= Len(r) /\ p[k] < r[k] /\ \A j \in 1 .. k - 1 : p[j] = r[j]
        <5>1. p[k] = q[k]
          BY <4>0, <2>1
        <5>2. ASSUME NEW j \in 1 .. k - 1 PROVE p[j] = r[j]
          <6>1. j \in 1 .. i - 1
            BY <4>0
          <6> QED
            BY <6>1, <2>1, <3>1
        <5> QED
          BY <5>1, <5>2, <3>1
      <4> QED
        BY <4>0, <4>1 DEF CompareVersionPaths
    <3> QED
      BY <3>3, <3>4, <3>5
  <2>3. CASE Len(q) < Len(r) /\ \A j \in 1 .. Len(q) : q[j] = r[j]
    <3>1. i <= Len(r) /\ q[i] = r[i] /\ \A j \in 1 .. i - 1 : p[j] = r[j]
      BY <2>1, <2>3
    <3> QED
      BY <3>1, <2>1 DEF CompareVersionPaths
  <2> QED
    BY <2>2, <2>3 DEF CompareVersionPaths
<1>2. CASE Len(p) < Len(q) /\ \A j \in 1 .. Len(p) : p[j] = q[j]
  <2>1. CASE \E k \in 1 .. Len(q) : k <= Len(r) /\ q[k] < r[k] /\ \A j \in 1 .. k - 1 : q[j] = r[j]
    <3>1. PICK k \in 1 .. Len(q) : k <= Len(r) /\ q[k] < r[k] /\ \A j \in 1 .. k - 1 : q[j] = r[j]
      BY <2>1
    <3>2. CASE k <= Len(p)
      <4>1. k \in 1 .. Len(p) /\ p[k] < r[k] /\ \A j \in 1 .. k - 1 : p[j] = r[j]
        BY <1>2, <3>1, <3>2
      <4> QED
        BY <4>1, <3>1 DEF CompareVersionPaths
    <3>3. CASE k > Len(p)
      <4>1. Len(p) < Len(r) /\ \A j \in 1 .. Len(p) : p[j] = r[j]
        BY <1>2, <3>1, <3>3
      <4> QED
        BY <4>1 DEF CompareVersionPaths
    <3> QED
      BY <3>1, <3>2, <3>3
  <2>2. CASE Len(q) < Len(r) /\ \A j \in 1 .. Len(q) : q[j] = r[j]
    <3>1. Len(p) < Len(r) /\ \A j \in 1 .. Len(p) : p[j] = r[j]
      BY <1>2, <2>2
    <3> QED
      BY <3>1 DEF CompareVersionPaths
  <2> QED
    BY <2>1, <2>2 DEF CompareVersionPaths
<1> QED
  BY <1>1, <1>2 DEF CompareVersionPaths

\* What precedes a continuation of p precedes p, or continues it, or is p.
LEMMA OrderOfBeginning ==
    ASSUME NEW p \in Seq(Nat), NEW q \in Seq(Nat), NEW r \in Seq(Nat),
           CompareVersionPaths(r, q), Begins(p, q)
    PROVE  CompareVersionPaths(r, p) \/ Begins(p, r)
<1>1. CASE \E i \in 1 .. Len(r) : i <= Len(q) /\ r[i] < q[i] /\ \A j \in 1 .. i - 1 : r[j] = q[j]
  <2>1. PICK i \in 1 .. Len(r) : i <= Len(q) /\ r[i] < q[i] /\ \A j \in 1 .. i - 1 : r[j] = q[j]
    BY <1>1
  <2>2. CASE i <= Len(p)
    <3>1. r[i] < p[i] /\ \A j \in 1 .. i - 1 : r[j] = p[j]
      BY <2>1, <2>2 DEF Begins
    <3> QED
      BY <3>1, <2>1, <2>2 DEF CompareVersionPaths
  <2>3. CASE i > Len(p)
    <3>1. Len(p) <= Len(r) /\ \A j \in 1 .. Len(p) : p[j] = r[j]
      BY <2>1, <2>3 DEF Begins
    <3> QED
      BY <3>1 DEF Begins
  <2> QED
    BY <2>1, <2>2, <2>3
<1>2. CASE Len(r) < Len(q) /\ \A j \in 1 .. Len(r) : r[j] = q[j]
  <2>1. CASE Len(r) < Len(p)
    <3>1. \A j \in 1 .. Len(r) : r[j] = p[j]
      BY <1>2, <2>1 DEF Begins
    <3> QED
      BY <3>1, <2>1 DEF CompareVersionPaths
  <2>2. CASE Len(r) >= Len(p)
    <3>1. \A j \in 1 .. Len(p) : p[j] = r[j]
      BY <1>2, <2>2 DEF Begins
    <3> QED
      BY <3>1, <2>2 DEF Begins
  <2> QED
    BY <2>1, <2>2
<1> QED
  BY <1>1, <1>2 DEF CompareVersionPaths

\* What p precedes without beginning it, the continuations of p precede.
LEMMA OrderOfContinuation ==
    ASSUME NEW p \in Seq(Nat), NEW q \in Seq(Nat), NEW i \in Nat,
           CompareVersionPaths(p, q), ~Begins(p, q)
    PROVE  CompareVersionPaths(Append(p, i), q)
<1>1. PICK k \in 1 .. Len(p) : k <= Len(q) /\ p[k] < q[k] /\ \A j \in 1 .. k - 1 : p[j] = q[j]
  BY DEF CompareVersionPaths, Begins
<1> DEFINE r == Append(p, i)
<1>2. r \in Seq(Nat) /\ Len(r) = Len(p) + 1 /\ \A j \in 1 .. Len(p) : r[j] = p[j]
  OBVIOUS
<1> HIDE DEF r
<1>3. k \in 1 .. Len(r) /\ r[k] < q[k] /\ \A j \in 1 .. k - 1 : r[j] = q[j]
  BY <1>1, <1>2
<1>4. CompareVersionPaths(r, q)
  BY <1>1, <1>3 DEF CompareVersionPaths
<1> QED
  BY <1>4 DEF r

-----------------------------------------------------------------------------
(* The winner *)

Precedes(V, h, g) == CompareVersionPaths(VersionPath(V, h.id), VersionPath(V, g.id))

\* Different versions have different paths, and one precedes the other.
LEMMA HeadsOrdered ==
    ASSUME NEW V, Graph(V), NEW g \in V, NEW h \in V, g # h
    PROVE  Precedes(V, g, h) \/ Precedes(V, h, g)
<1>1. g.id \in Nat \ {0} /\ h.id \in Nat \ {0} /\ g.id # h.id
  BY DEF Graph, Links, Distinct
<1>2. VersionPath(V, g.id) # VersionPath(V, h.id)
  <2>1. VersionPath(V, g.id)[Len(VersionPath(V, g.id))] = g.id
    BY <1>1, PathEnd
  <2>2. VersionPath(V, h.id)[Len(VersionPath(V, h.id))] = h.id
    BY <1>1, PathEnd
  <2> QED
    BY <1>1, <2>1, <2>2
<1>3. VersionPath(V, g.id) \in Seq(Nat) /\ VersionPath(V, h.id) \in Seq(Nat)
  BY <1>1, PathStep
<1> QED
  BY <1>2, <1>3, OrderTotal DEF Precedes

\* Any versions of a graph have a first one.
LEMMA FirstVersion ==
    ASSUME NEW V, Graph(V), NEW H, H \subseteq V, H # {}
    PROVE  \E h \in H : \A g \in H \ {h} : Precedes(V, h, g)
<1> DEFINE First(U) == \E h \in U : \A g \in U \ {h} : Precedes(V, h, g)
           T == {n \in Nat : \A U \in SUBSET V : Cardinality(U) = n + 1 => First(U)}
<1>0. \A U \in SUBSET V : IsFiniteSet(U) /\ Cardinality(U) \in Nat
  BY FS_Subset, FS_CardinalityType DEF Graph
<1>1. 0 \in T
  <2> SUFFICES ASSUME NEW U \in SUBSET V, Cardinality(U) = 1 PROVE First(U)
    OBVIOUS
  <2>1. \E h : U = {h}
    BY <1>0, FS_Singleton
  <2> QED
    BY <2>1
<1>2. ASSUME NEW n \in Nat, n \in T PROVE n + 1 \in T
  <2> SUFFICES ASSUME NEW U \in SUBSET V, Cardinality(U) = n + 2 PROVE First(U)
    OBVIOUS
  <2>1. U # {}
    BY FS_EmptySet, <1>0
  <2>2. PICK u \in U : TRUE
    BY <2>1
  <2>3. Cardinality(U \ {u}) = n + 1
    BY <1>0, FS_RemoveElement
  <2>4. First(U \ {u})
    BY <2>3, <1>2
  <2>5. PICK h \in U \ {u} : \A g \in U \ {u, h} : Precedes(V, h, g)
    BY <2>4
  <2>6. CASE Precedes(V, h, u)
    BY <2>5, <2>6
  <2>7. CASE Precedes(V, u, h)
    <3>1. ASSUME NEW g \in U \ {u, h} PROVE Precedes(V, u, g)
      <4>1. Precedes(V, h, g)
        BY <2>5
      <4>2. u.id \in Nat /\ h.id \in Nat /\ g.id \in Nat
        BY DEF Graph, Links
      <4>3. VersionPath(V, u.id) \in Seq(Nat) /\ VersionPath(V, h.id) \in Seq(Nat)
            /\ VersionPath(V, g.id) \in Seq(Nat)
        BY <4>2, PathStep
      <4> QED
        BY <2>7, <4>1, <4>3, OrderTransitive DEF Precedes
    <3> QED
      BY <3>1, <2>7
  <2> QED
    BY <2>5, <2>6, <2>7, HeadsOrdered
<1> HIDE DEF T
<1>3. Nat \subseteq T
  BY <1>1, <1>2, Induction
<1>4. Cardinality(H) \in Nat /\ Cardinality(H) # 0
  BY <1>0, FS_EmptySet
<1>5. Cardinality(H) - 1 \in T /\ Cardinality(H) = (Cardinality(H) - 1) + 1
  BY <1>3, <1>4
<1> QED
  BY <1>5 DEF T

\* The winner is the head whose path comes first.
LEMMA WinnerWins ==
    ASSUME NEW V, Graph(V), V # {}
    PROVE  /\ Winner(V) \in Heads(V) /\ Winner(V) \in V
           /\ \A g \in Heads(V) \ {Winner(V)} : Precedes(V, Winner(V), g)
<1>1. Heads(V) # {} /\ Heads(V) \subseteq V
  BY DEF Graph, Acyclic, Heads
<1>2. \E h \in Heads(V) : \A g \in Heads(V) \ {h} : Precedes(V, h, g)
  BY <1>1, FirstVersion
<1>3. Winner(V) = CHOOSE h \in Heads(V) : \A g \in Heads(V) \ {h} : Precedes(V, h, g)
  BY DEF Winner, Precedes
<1> QED
  BY <1>1, <1>2, <1>3

\* A head whose path comes first is the winner.
LEMMA WinnerUnique ==
    ASSUME NEW V, Graph(V), NEW h \in Heads(V),
           \A g \in Heads(V) \ {h} : Precedes(V, h, g)
    PROVE  Winner(V) = h
<1> SUFFICES ASSUME Winner(V) # h PROVE FALSE
  OBVIOUS
<1>1. h \in V /\ V # {}
  BY DEF Heads
<1>2. Winner(V) \in Heads(V) /\ Winner(V) \in V /\ Precedes(V, Winner(V), h)
  BY <1>1, WinnerWins
<1>3. Precedes(V, h, Winner(V))
  BY <1>2
<1>4. h.id \in Nat /\ Winner(V).id \in Nat
  BY <1>1, <1>2 DEF Graph, Links
<1>5. VersionPath(V, h.id) \in Seq(Nat) /\ VersionPath(V, Winner(V).id) \in Seq(Nat)
  BY <1>4, PathStep
<1>6. CompareVersionPaths(VersionPath(V, h.id), VersionPath(V, h.id))
  BY <1>2, <1>3, <1>5, OrderTransitive DEF Precedes
<1> QED
  BY <1>5, <1>6, OrderIrreflexive

-----------------------------------------------------------------------------
(* Graphs that grow *)

\* A version with an id of its own, that no version has as its parent, can be added.
LEMMA AddToGraph ==
    ASSUME NEW V, Graph(V), NEW c, c.id \in Nat \ {0}, c.parent \in Nat, c.parent # c.id,
           \A v \in V : v.id # c.id /\ v.parent # c.id
    PROVE  Graph(V \union {c})
<1> DEFINE N == V \union {c}
<1>1. IsFiniteSet(N)
  BY FS_AddElement DEF Graph
<1>2. Links(N) /\ Distinct(N)
  BY DEF Graph, Links, Distinct
<1>3. Acyclic(N)
  <2> SUFFICES ASSUME NEW U \in SUBSET N, U # {} PROVE Heads(U) # {}
    BY DEF Acyclic
  <2>1. CASE c \in U
    BY <2>1 DEF Heads
  <2>2. CASE c \notin U
    BY <2>2 DEF Graph, Acyclic
  <2> QED
    BY <2>1, <2>2
<1> QED
  BY <1>1, <1>2, <1>3 DEF Graph

\* One version is a graph, with itself as its head.
LEMMA OneVersion ==
    ASSUME NEW c, c.id \in Nat \ {0}, c.parent \in Nat, c.parent # c.id
    PROVE  Graph({c}) /\ Heads({c}) = {c} /\ Winner({c}) = c
<1>1. Graph({})
  BY FS_EmptySet DEF Graph, Links, Distinct, Acyclic
<1>2. {} \union {c} = {c}
  OBVIOUS
<1>3. Graph({c})
  BY <1>1, <1>2, AddToGraph
<1>4. Heads({c}) = {c}
  BY DEF Heads
<1> QED
  BY <1>3, <1>4, WinnerUnique

\* The paths of a part that holds the parents of its versions are those of the whole.
LEMMA PathInPart ==
    ASSUME NEW V, NEW U, Graph(V), U \subseteq V,
           \A v \in U, w \in V : w.id = v.parent => w \in U,
           NEW u \in U
    PROVE  VersionPath(U, u.id) = VersionPath(V, u.id)
<1> DEFINE I == {v.id : v \in U} \union {v.parent : v \in U}
           m == Cardinality(U) + Cardinality(V) + 1
<1>1. Graph(U)
  BY Subgraph
<1>2. \A i \in I : ParentIn(U, i) = ParentIn(V, i) /\ ParentIn(V, i) \in I \union {0}
  <2> SUFFICES ASSUME NEW i \in I
               PROVE  ParentIn(U, i) = ParentIn(V, i) /\ ParentIn(V, i) \in I \union {0}
    OBVIOUS
  <2>1. CASE \E w \in V : w.id = i
    <3>1. PICK w \in V : w.id = i
      BY <2>1
    <3>2. w \in U
      BY <3>1 DEF Graph, Distinct
    <3>3. ParentIn(U, i) = w.parent /\ ParentIn(V, i) = w.parent
      BY <3>1, <3>2, <1>1, ParentOf DEF Graph
    <3> QED
      BY <3>2, <3>3
  <2>2. CASE \A w \in V : w.id # i
    BY <2>2 DEF ParentIn
  <2> QED
    BY <2>1, <2>2
<1>3. I \in SUBSET Nat /\ u.id \in I /\ Links(U) /\ Links(V)
  BY <1>1 DEF Graph, Links
<1>4. \A k \in Nat : Walk(U)[k][u.id] = Walk(V)[k][u.id]
  <2> HIDE DEF I, m
  <2>1. \A k \in Nat, i \in I : Walk(U)[k][i] = Walk(V)[k][i]
    <3>1. Agree(U, V, I) /\ Links(U) /\ Links(V)
      BY <1>2, <1>3 DEF Agree
    <3> QED
      BY <3>1, SameWalk
  <2> QED
    BY <1>3, <2>1
<1>5. m \in Nat /\ m > Cardinality(U) /\ m > Cardinality(V)
  BY <1>1, FS_CardinalityType DEF Graph
<1> QED
  BY <1>1, <1>3, <1>4, <1>5, WalkEnds

\* A new child leaves the paths of the others alone.
LEMMA PathOfOthers ==
    ASSUME NEW V, Graph(V), NEW c, Graph(V \union {c}),
           \A v \in V : v.id # c.id /\ v.parent # c.id,
           NEW i \in Nat \ {c.id}
    PROVE  VersionPath(V \union {c}, i) = VersionPath(V, i)
<1> DEFINE N == V \union {c}
           I == Nat \ {c.id}
           m == Cardinality(V) + Cardinality(N) + 1
<1>1. Links(V) /\ Links(N)
  BY DEF Graph
<1>2. \A j \in I : ParentIn(V, j) = ParentIn(N, j) /\ ParentIn(N, j) \in I \union {0}
  <2> SUFFICES ASSUME NEW j \in I
               PROVE  ParentIn(V, j) = ParentIn(N, j) /\ ParentIn(N, j) \in I \union {0}
    OBVIOUS
  <2>1. CASE \E v \in V : v.id = j
    <3>1. PICK v \in V : v.id = j
      BY <2>1
    <3>2. ParentIn(V, j) = v.parent /\ ParentIn(N, j) = v.parent
      BY <3>1, ParentOf DEF Graph
    <3> QED
      BY <3>2, <1>1 DEF Links
  <2>2. CASE \A v \in V : v.id # j
    BY <2>2 DEF ParentIn
  <2> QED
    BY <2>1, <2>2
<1>3. \A k \in Nat, j \in I : Walk(V)[k][j] = Walk(N)[k][j]
  <2>1. Agree(V, N, I)
    BY <1>2 DEF Agree
  <2> HIDE DEF I, N
  <2> QED
    BY <1>1, <2>1, SameWalk
<1>4. Cardinality(V) \in Nat /\ Cardinality(N) \in Nat
  BY FS_CardinalityType DEF Graph
<1>5. m \in Nat /\ m > Cardinality(V) /\ m > Cardinality(N)
  BY <1>4
<1>6. Walk(V)[m][i] = Walk(N)[m][i]
  BY <1>3, <1>5
<1> HIDE DEF N, m
<1>7. Walk(N)[m][i] = VersionPath(N, i) /\ Walk(V)[m][i] = VersionPath(V, i)
  BY <1>5, WalkEnds DEF N
<1> QED
  BY <1>6, <1>7 DEF N

\* A write on top of the winner wins, and takes its place among the heads.
LEMMA ChildOfWinner ==
    ASSUME NEW V, Graph(V), V # {}, NEW c, c.id \in Nat \ {0}, c.parent = Winner(V).id,
           \A v \in V : v.id # c.id /\ v.parent # c.id
    PROVE  /\ Graph(V \union {c})
           /\ Heads(V \union {c}) = (Heads(V) \ {Winner(V)}) \union {c}
           /\ Winner(V \union {c}) = c
<1> DEFINE N == V \union {c}
           w == Winner(V)
<1>1. w \in Heads(V) /\ w \in V /\ \A g \in Heads(V) \ {w} : Precedes(V, w, g)
  BY WinnerWins
<1>2. w.id \in Nat \ {0} /\ c.parent # c.id /\ c.parent \in Nat
  BY <1>1 DEF Graph, Links
<1>3. Graph(N)
  BY <1>2, AddToGraph
<1> HIDE DEF w
<1>4. Heads(N) = (Heads(V) \ {w}) \union {c}
  <2>1. \A v \in V : v.id = w.id => v = w
    BY <1>1 DEF Graph, Distinct
  <2>2. c.parent = w.id
    BY DEF w
  <2> QED
    BY <1>1, <1>2, <2>1, <2>2 DEF Heads
<1>5. VersionPath(N, c.id) = Append(VersionPath(V, w.id), c.id)
  <2>1. ParentIn(N, c.id) = w.id
    BY <1>3, ParentOf DEF Graph, w
  <2>2. VersionPath(N, w.id) = VersionPath(V, w.id)
    BY <1>1, <1>2, <1>3, PathOfOthers DEF w
  <2> HIDE DEF N
  <2>3. VersionPath(N, c.id) = Append(VersionPath(N, ParentIn(N, c.id)), c.id)
    BY <1>3, PathStep
  <2> QED
    BY <2>1, <2>2, <2>3
<1>6. ASSUME NEW g \in Heads(N) \ {c} PROVE Precedes(N, c, g)
  <2>1. g \in Heads(V) \ {w} /\ g \in V
    BY <1>4 DEF Heads
  <2>2. Precedes(V, w, g)
    BY <1>1, <2>1
  <2>3. g.id \in Nat \ {0} /\ g.id # c.id /\ g.id # w.id
    BY <1>1, <2>1 DEF Graph, Links, Distinct
  <2>4. VersionPath(N, g.id) = VersionPath(V, g.id)
    BY <1>3, <2>3, PathOfOthers
  <2>5. VersionPath(V, g.id) \in Seq(Nat) /\ VersionPath(V, w.id) \in Seq(Nat)
    BY <1>2, <2>3, PathStep
  <2>6. ~Begins(VersionPath(V, w.id), VersionPath(V, g.id))
    <3> SUFFICES ASSUME Begins(VersionPath(V, w.id), VersionPath(V, g.id)) PROVE FALSE
      OBVIOUS
    <3>1. VersionPath(V, g.id) = VersionPath(V, w.id)
      BY <1>1, <2>3, HeadEndsPath
    <3> QED
      BY <3>1, <2>2, <2>5, OrderIrreflexive DEF Precedes
  <2> QED
    BY <1>5, <2>2, <2>3, <2>4, <2>5, <2>6, OrderOfContinuation DEF Precedes
<1>7. c \in Heads(N)
  BY <1>4
<1> QED
  BY <1>3, <1>4, <1>6, <1>7, WinnerUnique DEF w

\* The winner continues any other version, or precedes it and is on another
\* branch.
LEMMA WinnerPrevails ==
    ASSUME NEW V, Graph(V), NEW old \in V
    PROVE  LET p == VersionPath(V, Winner(V).id)
               q == VersionPath(V, old.id)
           IN  \/ \E j \in 1 .. Len(p) : p[j] = old.id
               \/ /\ CompareVersionPaths(p, q)
                  /\ \E i \in 1 .. Len(p) : i <= Len(q) /\ p[i] # q[i]
<1> DEFINE w == Winner(V)
           p == VersionPath(V, w.id)
           q == VersionPath(V, old.id)
<1>1. w \in Heads(V) /\ w \in V /\ \A g \in Heads(V) \ {w} : Precedes(V, w, g)
  BY WinnerWins
<1>2. w.id \in Nat \ {0} /\ old.id \in Nat \ {0}
  BY <1>1 DEF Graph, Links
<1>3. p \in Seq(Nat) /\ q \in Seq(Nat) /\ Len(q) \in Nat \ {0} /\ q[Len(q)] = old.id
  BY <1>2, PathStep, PathEnd
<1>4. Begins(q, p) => \E j \in 1 .. Len(p) : p[j] = old.id
  <2> HIDE DEF p, q
  <2> QED
    BY <1>3 DEF Begins
<1> DEFINE S == {v \in V : Begins(q, VersionPath(V, v.id))}
<1>5. old \in S
  BY <1>3 DEF Begins
<1>6. PICK h \in S : \A v \in S : v.parent # h.id
  BY <1>5 DEF Graph, Acyclic, Heads
<1> DEFINE r == VersionPath(V, h.id)
<1>7. h \in V /\ h.id \in Nat \ {0} /\ r \in Seq(Nat) /\ Begins(q, r)
  BY <1>6, PathStep DEF Graph, Links
<1>8. h \in Heads(V)
  <2> SUFFICES ASSUME NEW u \in V, u.parent = h.id PROVE FALSE
    BY <1>7 DEF Heads
  <2>1. u.id \in Nat \ {0} /\ ParentIn(V, u.id) = h.id
    BY ParentOf DEF Graph, Links
  <2>2. VersionPath(V, u.id) = Append(r, u.id)
    BY <2>1, PathStep
  <2>3. Begins(q, VersionPath(V, u.id))
    BY <2>1, <2>2, <1>7, <1>3, BeginsAppend
  <2> QED
    BY <2>3, <1>6
<1>9. CASE h = w
  BY <1>7, <1>9, <1>4
<1>10. CASE h # w
  <2>1. CompareVersionPaths(p, r)
    BY <1>8, <1>10, <1>1 DEF Precedes
  <2>2. CompareVersionPaths(p, q) \/ Begins(q, p)
    BY <2>1, <1>7, <1>3, OrderOfBeginning
  <2>3. ASSUME Begins(p, q) PROVE FALSE
    <3>1. Begins(p, r)
      <4> HIDE DEF p, q, r
      <4> QED
        BY <2>3, <1>3, <1>7 DEF Begins
    <3>2. r = p
      BY <3>1, <1>1, <1>7, HeadEndsPath
    <3> HIDE DEF p, r
    <3> QED
      BY <3>2, <2>1, <1>3, OrderIrreflexive
  <2>4. CompareVersionPaths(p, q) => \E i \in 1 .. Len(p) : i <= Len(q) /\ p[i] # q[i]
    <3> SUFFICES ASSUME CompareVersionPaths(p, q), \A i \in 1 .. Len(p) : i <= Len(q) => p[i] = q[i]
                 PROVE  FALSE
      OBVIOUS
    <3> HIDE DEF p, q
    <3>1. p[1] = p[1] /\ \A i \in 1 .. Len(p) : i <= Len(q) => ~(p[i] < q[i])
      BY <1>3
    <3>2. Len(p) < Len(q) /\ \A j \in 1 .. Len(p) : p[j] = q[j]
      BY <3>1 DEF CompareVersionPaths
    <3> QED
      BY <3>2, <2>3, <1>3 DEF Begins
  <2> QED
    BY <2>2, <2>4, <1>4
<1> QED
  BY <1>9, <1>10

=============================================================================
