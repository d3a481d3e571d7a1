--------------------------- MODULE AuthoringProofs ---------------------------
(***************************************************************************)
(* Proofs about how workflows come to be, for any workflows, skills and    *)
(* documents:                                                              *)
(*   - what the validator accepts is a graph that the engine can run, with *)
(*     a warning if part of it is never fed, and every rewrite of such a   *)
(*     workflow is one;                                                    *)
(*   - the authoring loop finds the document in what a model usually says, *)
(*     gives back nothing that did not pass all its checks, and stops.     *)
(***************************************************************************)
EXTENDS Rewrites, Author, FiniteSetTheorems, TLAPS

-----------------------------------------------------------------------------
(* Numbers, and what is picked out of a sequence. *)

\* Every nonempty set of numbers has a least element.
LEMMA LeastNumber ==
    ASSUME NEW T, T \subseteq Nat, T # {}
    PROVE  \E n \in T : \A m \in T : n <= m
<1> DEFINE Less == {p \in Nat \X Nat : p[1] < p[2]}
<1>1. IsWellFoundedOn(Less, Nat)
  BY NatLessThanWellFounded, Zenon DEF OpToRel
<1>2. \E n \in T : \A m \in T : <<m, n>> \notin Less
  BY <1>1, WFMin, Zenon
<1>3. ASSUME NEW m \in Nat, NEW n \in Nat, <<m, n>> \notin Less
      PROVE  n <= m
  BY <1>3
<1> QED
  BY <1>2, <1>3

\* A finite set of numbers that is not empty has a least and a greatest element.
LEMMA Extremes ==
    ASSUME NEW T, T \subseteq Nat, T # {}
    PROVE  /\ Min(T) \in T /\ \A m \in T : Min(T) <= m
           /\ IsFiniteSet(T) => Max(T) \in T /\ \A m \in T : m <= Max(T)
<1>1. Min(T) \in T /\ \A m \in T : Min(T) <= m
  BY LeastNumber DEF Min
<1>2. ASSUME IsFiniteSet(T) PROVE \E n \in T : \A m \in T : m <= n
  <2> DEFINE Below(n) == {m \in T : m < n}
             Counts == {Cardinality(T) - Cardinality(Below(n)) : n \in T}
  <2>1. ASSUME NEW n \in T
        PROVE  /\ IsFiniteSet(Below(n)) /\ Cardinality(Below(n)) \in Nat
               /\ Cardinality(T) \in Nat /\ Cardinality(Below(n)) <= Cardinality(T)
    <3>1. Below(n) \in SUBSET T
      OBVIOUS
    <3> QED
      BY <1>2, <3>1, FS_Subset, FS_CardinalityType
  <2>2. ASSUME NEW n \in T, NEW m \in T, n < m
        PROVE  Cardinality(Below(n)) < Cardinality(Below(m))
    <3>0. n \in Nat /\ m \in Nat /\ \A l \in T : l \in Nat
      OBVIOUS
    <3>a. \A l \in T : l < n => l < m
      BY <2>2, <3>0
    <3>b. n \in Below(m)
      BY <2>2
    <3>c. n \notin Below(n)
      BY <3>0
    <3>d. Below(n) \subseteq Below(m)
      BY <3>a
    <3>1. Below(n) \in SUBSET Below(m) /\ n \in Below(m) /\ n \notin Below(n)
      BY <3>b, <3>c, <3>d, Zenon
    <3>2. /\ Cardinality(Below(n)) <= Cardinality(Below(m))
          /\ Cardinality(Below(n)) # Cardinality(Below(m))
      BY <2>1, <3>1, FS_Subset
    <3> QED
      BY <2>1, <3>2
  <2> HIDE DEF Below
  <2>3. Counts \subseteq Nat /\ Counts # {}
    <3>1. \A n \in T : Cardinality(T) - Cardinality(Below(n)) \in Nat
      BY <2>1
    <3> QED
      BY <3>1, Zenon
  <2>4. PICK k \in Counts : \A l \in Counts : k <= l
    BY <2>3, LeastNumber
  <2>5. PICK n \in T : k = Cardinality(T) - Cardinality(Below(n))
    BY <2>4
  <2>6. ASSUME NEW m \in T PROVE m <= n
    <3>1. Cardinality(T) - Cardinality(Below(n)) <= Cardinality(T) - Cardinality(Below(m))
      BY <2>4, <2>5
    <3>2. ~(n < m)
      BY <2>1, <2>2, <3>1
    <3> QED
      BY <3>2
  <2> QED
    BY <2>6
<1>3. ASSUME IsFiniteSet(T) PROVE Max(T) \in T /\ \A m \in T : m <= Max(T)
  <2>1. \E n \in T : \A m \in T : n >= m
    BY <1>2, <1>3
  <2>2. Max(T) \in T /\ \A m \in T : Max(T) >= m
    BY <2>1, Zenon DEF Max
  <2> QED
    BY <2>2
<1> QED
  BY <1>1, <1>3

\* u consists of the elements of s at the positions I, each once.
Picks(u, s, I) ==
    \E at \in Bijection(1..Cardinality(I), I) : u = [k \in 1..Cardinality(I) |-> s[at[k]]]

\* Only keeps what is at the positions it is given.
LEMMA OnlyPicks ==
    ASSUME NEW s, NEW I, IsFiniteSet(I), I \subseteq Nat
    PROVE  Picks(Only(s, I), s, I)
<1> DEFINE n == Cardinality(I)
           Below(i) == {j \in I : j < i}
           place == [i \in I |-> Cardinality(Below(i)) + 1]
           at == [k \in 1..n |-> CHOOSE i \in I : Cardinality(Below(i)) = k - 1]
<1>1. n \in Nat
  BY FS_CardinalityType
<1>2. ASSUME NEW i \in I
      PROVE  /\ IsFiniteSet(Below(i)) /\ Cardinality(Below(i)) \in Nat
             /\ Cardinality(Below(i)) < n
  <2>1. Below(i) \in SUBSET I /\ i \notin Below(i)
    OBVIOUS
  <2>2. IsFiniteSet(Below(i)) /\ Cardinality(Below(i)) <= n /\ Cardinality(Below(i)) # n
    BY <2>1, FS_Subset
  <2> QED
    BY <1>1, <2>2, FS_CardinalityType
<1>3. ASSUME NEW i \in I, NEW j \in I, i < j
      PROVE  Cardinality(Below(i)) < Cardinality(Below(j))
  <2>0. i \in Nat /\ j \in Nat /\ \A l \in I : l \in Nat
    OBVIOUS
  <2>a. \A l \in I : l < i => l < j
    BY <1>3, <2>0
  <2>b. i \in Below(j)
    BY <1>3
  <2>c. i \notin Below(i)
    BY <2>0
  <2>d. Below(i) \subseteq Below(j)
    BY <2>a
  <2>1. Below(i) \in SUBSET Below(j) /\ i \in Below(j) /\ i \notin Below(i)
    BY <2>b, <2>c, <2>d, Zenon
  <2>2. /\ Cardinality(Below(i)) <= Cardinality(Below(j))
        /\ Cardinality(Below(i)) # Cardinality(Below(j))
    BY <1>2, <2>1, FS_Subset
  <2> QED
    BY <1>2, <2>2
<1>4. Only(s, I) = [k \in 1..n |-> s[at[k]]]
  BY DEF Only
<1> HIDE DEF Below
<1>5. place \in [I -> 1..n]
  BY <1>1, <1>2
<1>6. ASSUME NEW i \in I, NEW j \in I, place[i] = place[j] PROVE i = j
  <2>1. ~(i < j) /\ ~(j < i)
    BY <1>2, <1>3, <1>6
  <2> QED
    BY <2>1
<1>7. place \in Injection(I, 1..n)
  BY <1>5, <1>6 DEF Injection, IsInjective
<1>8. IsFiniteSet(1..n) /\ Cardinality(1..n) = n
  BY <1>1, FS_Interval
<1> HIDE DEF n
<1>9. place \in Surjection(I, 1..n)
  BY <1>7, <1>8, FS_Injection DEF n
<1>10. ASSUME NEW k \in 1..n PROVE \E i \in I : Cardinality(Below(i)) = k - 1
  <2>1. PICK i \in I : place[i] = k
    BY <1>9 DEF Surjection
  <2> QED
    BY <1>2, <2>1
<1>11. ASSUME NEW k \in 1..n PROVE at[k] \in I /\ Cardinality(Below(at[k])) = k - 1
  BY <1>10
<1> HIDE DEF at
<1>12. at \in [1..n -> I]
  <2>1. at = [k \in 1..n |-> at[k]]
    BY DEF at
  <2> QED
    BY <1>11, <2>1
<1>13. ASSUME NEW k \in 1..n, NEW l \in 1..n, at[k] = at[l] PROVE k = l
  BY <1>1, <1>11, <1>13
<1>14. at \in Injection(1..n, I)
  BY <1>12, <1>13 DEF Injection, IsInjective
<1>15. at \in Surjection(1..n, I)
  BY <1>8, <1>14, FS_Injection DEF n
<1>16. at \in Bijection(1..n, I)
  BY <1>14, <1>15 DEF Bijection
<1> QED
  BY <1>4, <1>16 DEF Picks, n

\* What is picked out of a sequence is one, and holds what is at the positions.
LEMMA PickedFrom ==
    ASSUME NEW X, NEW s \in Seq(X), NEW I \in SUBSET DOMAIN s
    PROVE  /\ Only(s, I) \in Seq(X)
           /\ Len(Only(s, I)) = Cardinality(I) /\ Cardinality(I) \in Nat
           /\ Cardinality(I) <= Len(s) /\ IsFiniteSet(I)
           /\ Picks(Only(s, I), s, I)
           /\ Range(Only(s, I)) = {s[i] : i \in I}
<1>1. DOMAIN s = 1..Len(s) /\ Len(s) \in Nat
  OBVIOUS
<1>2. IsFiniteSet(1..Len(s)) /\ Cardinality(1..Len(s)) = Len(s)
  <2>1. \A m \in Nat : IsFiniteSet(1..m) /\ Cardinality(1..m) = m
    BY FS_Interval
  <2> QED
    BY <1>1, <2>1
<1>3. /\ IsFiniteSet(I) /\ I \subseteq Nat /\ Cardinality(I) \in Nat /\ Cardinality(I) <= Len(s)
  BY <1>1, <1>2, FS_Subset, FS_CardinalityType
<1>4. Picks(Only(s, I), s, I)
  BY <1>3, OnlyPicks
<1> DEFINE n == Cardinality(I)
<1>5. PICK at \in Bijection(1..n, I) : Only(s, I) = [k \in 1..n |-> s[at[k]]]
  BY <1>4 DEF Picks
<1>6. at \in [1..n -> I] /\ \A i \in I : \E k \in 1..n : at[k] = i
  BY <1>5 DEF Bijection, Injection, Surjection
<1> HIDE DEF n
<1>7. \A k \in 1..n : s[at[k]] \in X
  BY <1>1, <1>6
<1>8. Only(s, I) \in [1..n -> X]
  BY <1>5, <1>7
<1>9. n \in Nat
  BY <1>3 DEF n
<1>10. Only(s, I) \in Seq(X) /\ Len(Only(s, I)) = n
  BY <1>8, <1>9
<1>11. Range(Only(s, I)) = {s[i] : i \in I}
  <2>1. DOMAIN Only(s, I) = 1..n /\ \A k \in 1..n : Only(s, I)[k] = s[at[k]]
    BY <1>5
  <2>2. \A x \in Range(Only(s, I)) : x \in {s[i] : i \in I}
    BY <1>6, <2>1 DEF Range
  <2>3. \A i \in I : s[i] \in Range(Only(s, I))
    BY <1>6, <2>1 DEF Range
  <2> QED
    BY <2>2, <2>3, Zenon
<1> QED
  BY <1>3, <1>4, <1>10, <1>11 DEF n

\* Nested loops pair what is in one sequence with what is in the other.
LEMMA Paired ==
    ASSUME NEW X, NEW Y, NEW s \in Seq(X), NEW t \in Seq(Y)
    PROVE  EveryPair(s, t) \in Seq(Range(s) \X Range(t))
<1> DEFINE m == Len(s)
           n == Len(t)
<1>1. m \in Nat /\ n \in Nat /\ DOMAIN s = 1..m /\ DOMAIN t = 1..n
  OBVIOUS
<1> HIDE DEF m, n
<1>2. m * n \in Nat
  BY <1>1
<1>3. ASSUME NEW k \in 1..(m * n)
      PROVE  1 + ((k - 1) \div n) \in 1..m /\ 1 + ((k - 1) % n) \in 1..n
  <2>1. n > 0
    <3>1. n = 0 => m * n = 0
      BY <1>1
    <3> QED
      BY <1>1, <3>1
  <2> DEFINE q == (k - 1) \div n
             r == (k - 1) % n
  <2>2. /\ q \in Int /\ r \in 0..(n - 1) /\ k - 1 = n * q + r
        /\ k - 1 >= 0 /\ k - 1 < m * n
    BY <1>1, <1>2, <2>1
  <2> HIDE DEF q, r
  <2>3. q >= 0
    <3>1. \A x \in Int, y \in Nat : x < 0 /\ y > 0 => y * x <= -y
      OBVIOUS
    <3> QED
      BY <1>1, <2>1, <2>2, <3>1
  <2>4. q < m
    <3>1. \A x \in Int, y \in Nat, z \in Nat : x >= z => y * x >= z * y
      OBVIOUS
    <3> QED
      BY <1>1, <2>1, <2>2, <3>1
  <2> QED
    BY <1>1, <2>2, <2>3, <2>4 DEF q, r
<1>4. EveryPair(s, t) = [k \in 1..(m * n) |-> <<s[1 + ((k - 1) \div n)], t[1 + ((k - 1) % n)]>>]
  BY DEF EveryPair, m, n
<1>5. ASSUME NEW k \in 1..(m * n)
      PROVE  <<s[1 + ((k - 1) \div n)], t[1 + ((k - 1) % n)]>> \in Range(s) \X Range(t)
  BY <1>1, <1>3 DEF Range
<1> DEFINE Z == Range(s) \X Range(t)
<1> HIDE DEF Z
<1>6. EveryPair(s, t) \in [1..(m * n) -> Z]
  BY <1>4, <1>5 DEF Z
<1> QED
  BY <1>2, <1>6 DEF Z

-----------------------------------------------------------------------------
(* The searches of the graph. *)

\* What step makes of start, n times over.
Iterated(X, step, start, n) ==
    \E f \in [0..n -> X] : f[0] = start /\ \A k \in 1..n : f[k] = step[f[k - 1]]

\* A function can be applied as often as one likes.
LEMMA Iterates ==
    ASSUME NEW X, NEW step \in [X -> X], NEW start \in X, NEW n \in Nat
    PROVE  Iterated(X, step, start, n)
<1> DEFINE Good(m, f) == f[0] = start /\ \A k \in 1..m : f[k] = step[f[k - 1]]
           Missing == {m \in Nat : ~\E f \in [0..m -> X] : Good(m, f)}
<1>1. 0 \notin Missing
  <2>1. [i \in 0..0 |-> start] \in [0..0 -> X] /\ Good(0, [i \in 0..0 |-> start])
    OBVIOUS
  <2> QED
    BY <2>1
<1>2. ASSUME Missing # {} PROVE FALSE
  <2>1. PICK l \in Missing : \A m \in Missing : l <= m
    BY <1>2, LeastNumber
  <2>2. l \in Nat /\ l # 0 /\ l - 1 \in Nat /\ l - 1 \notin Missing
    <3>1. l \in Nat
      BY <2>1
    <3> HIDE DEF Missing
    <3>2. l # 0
      BY <1>1, <2>1
    <3> QED
      BY <2>1, <3>1, <3>2
  <2>3. PICK f \in [0..(l - 1) -> X] : Good(l - 1, f)
    BY <2>2
  <2> DEFINE g == [i \in 0..l |-> IF i = l THEN step[f[l - 1]] ELSE f[i]]
  <2>4. f[l - 1] \in X
    BY <2>2
  <2>5. g \in [0..l -> X]
    BY <2>2, <2>4
  <2>6. /\ g[l] = step[f[l - 1]] /\ \A i \in 0..(l - 1) : g[i] = f[i]
    BY <2>2
  <2> HIDE DEF g
  <2>7. g[0] = start
    BY <2>2, <2>3, <2>6
  <2>8. ASSUME NEW k \in 1..l PROVE g[k] = step[g[k - 1]]
    <3>1. CASE k = l
      BY <2>2, <2>6, <3>1
    <3>2. CASE k # l
      <4>1. k \in 1..(l - 1) /\ k \in 0..(l - 1) /\ k - 1 \in 0..(l - 1)
        BY <2>2, <3>2
      <4> QED
        BY <2>3, <2>6, <4>1
    <3> QED
      BY <3>1, <3>2
  <2>9. l \notin Missing
    BY <2>5, <2>7, <2>8
  <2> QED
    BY <2>1, <2>9
<1> QED
  BY <1>2 DEF Iterated

\* No set of nodes waits for each other.
Acyclic(V, E) == \A S \in (SUBSET V) \ {{}} : \E n \in S : \A p \in S : <<p, n>> \notin E

\* What a round of the topological sort leaves of S.
Rest(E, S) == {n \in S : \E p \in S : <<p, n>> \in E}

\* Untaken is what is left after as many rounds as there are nodes.
LEMMA UntakenIs ==
    ASSUME NEW w, Cardinality(Ids(w)) \in Nat
    PROVE  \E f \in [0..Cardinality(Ids(w)) -> SUBSET Ids(w)] :
              /\ f[0] = Ids(w)
              /\ \A k \in 1..Cardinality(Ids(w)) : f[k] = Rest(ValidEdges(w), f[k - 1])
              /\ Untaken(w) = f[Cardinality(Ids(w))]
<1> DEFINE V == Ids(w)
           E == ValidEdges(w)
           N == Cardinality(V)
           Left(f) == f = [k \in 0..N |->
                              IF k = 0 THEN V
                              ELSE LET rest == f[k - 1]
                                   IN  {n \in rest : \E p \in rest : <<p, n>> \in E}]
           left == CHOOSE f : Left(f)
           step == [S \in SUBSET V |-> Rest(E, S)]
<1>1. Untaken(w) = left[N]
  BY DEF Untaken
<1>2. step \in [SUBSET V -> SUBSET V] /\ V \in SUBSET V
  BY DEF Rest
<1>3. N \in Nat
  OBVIOUS
<1> HIDE DEF V, E, N
<1> DEFINE X == SUBSET V
<1>a. step \in [X -> X] /\ V \in X
  BY <1>2
<1>b. ASSUME NEW S \in X PROVE step[S] = Rest(E, S)
  OBVIOUS
<1> HIDE DEF X, step
<1>c. Iterated(X, step, V, N)
  BY <1>3, <1>a, Iterates, Zenon
<1>4. PICK f \in [0..N -> X] : f[0] = V /\ \A k \in 1..N : f[k] = step[f[k - 1]]
  BY <1>c, Zenon DEF Iterated
<1>5. ASSUME NEW k \in 1..N PROVE f[k] = Rest(E, f[k - 1])
  <2>1. f[k - 1] \in X
    BY <1>3
  <2> QED
    BY <1>4, <1>b, <2>1
<1>6. Left(f)
  <2>1. ASSUME NEW k \in 0..N
        PROVE  f[k] = IF k = 0 THEN V
                      ELSE {n \in f[k - 1] : \E p \in f[k - 1] : <<p, n>> \in E}
    <3>1. CASE k = 0
      BY <1>4, <3>1
    <3>2. CASE k # 0
      <4>1. k \in 1..N
        BY <1>3, <3>2
      <4>2. f[k] = {n \in f[k - 1] : \E p \in f[k - 1] : <<p, n>> \in E}
        BY <1>5, <4>1, Zenon DEF Rest
      <4> QED
        BY <3>2, <4>2
    <3> QED
      BY <3>1, <3>2
  <2>2. f = [k \in 0..N |-> f[k]]
    OBVIOUS
  <2> QED
    BY <2>1, <2>2
<1>7. Left(left)
  BY <1>6, Zenon
<1>8. ASSUME NEW g, Left(g)
      PROVE  /\ DOMAIN g = 0..N /\ g[0] = V
             /\ \A k \in 1..N : g[k] = Rest(E, g[k - 1])
  <2>1. g = [k \in 0..N |->
                IF k = 0 THEN V
                ELSE {n \in g[k - 1] : \E p \in g[k - 1] : <<p, n>> \in E}]
    BY <1>8, Zenon
  <2>2. DOMAIN g = 0..N
    BY <2>1
  <2>3. g[0] = V
    BY <1>3, <2>1
  <2>4. ASSUME NEW k \in 1..N PROVE g[k] = Rest(E, g[k - 1])
    <3>1. k \in 0..N /\ k # 0
      BY <1>3
    <3>2. g[k] = {n \in g[k - 1] : \E p \in g[k - 1] : <<p, n>> \in E}
      BY <2>1, <3>1
    <3> QED
      BY <3>2, Zenon DEF Rest
  <2> QED
    BY <2>2, <2>3, <2>4
<1> HIDE DEF left, Left
<1>9. /\ DOMAIN left = 0..N /\ left[0] = V
      /\ \A k \in 1..N : left[k] = Rest(E, left[k - 1])
  BY <1>7, <1>8
<1> DEFINE Odd == {k \in 0..N : left[k] # f[k]}
<1>10. ASSUME Odd # {} PROVE FALSE
  <2>1. Odd \subseteq Nat
    BY <1>3
  <2>2. PICK k \in Odd : \A l \in Odd : k <= l
    BY <1>10, <2>1, LeastNumber
  <2>3. k \in 1..N /\ k - 1 \in 0..N /\ k - 1 \notin Odd
    <3>1. k \in 0..N /\ left[k] # f[k]
      BY <2>2
    <3>a. k \in Nat /\ k # 0
      BY <1>3, <1>4, <1>9, <3>1
    <3>2. k \in 1..N /\ k - 1 \in 0..N /\ ~(k <= k - 1)
      BY <1>3, <3>1, <3>a
    <3> QED
      BY <2>2, <3>2, Zenon
  <2> QED
    BY <1>5, <1>9, <2>2, <2>3
<1>11. left[N] = f[N]
  BY <1>3, <1>10
<1> QED
  BY <1>1, <1>4, <1>5, <1>11, Zenon DEF V, E, N, X

\* The sort takes every node away exactly if no set of nodes waits for each other.
LEMMA SortedIfAcyclic ==
    ASSUME NEW w, IsFiniteSet(Ids(w))
    PROVE  ~HasCycle(w) <=> Acyclic(Ids(w), ValidEdges(w))
<1> DEFINE V == Ids(w)
           E == ValidEdges(w)
           N == Cardinality(V)
<1>1. N \in Nat
  BY FS_CardinalityType
<1>2. PICK f \in [0..N -> SUBSET V] :
          /\ f[0] = V
          /\ \A k \in 1..N : f[k] = Rest(E, f[k - 1])
          /\ Untaken(w) = f[N]
  BY <1>1, UntakenIs
<1> HIDE DEF V, E, N
<1>3. ASSUME f[N] = {}, NEW S \in SUBSET V, \A n \in S : \E p \in S : <<p, n>> \in E
      PROVE  S = {}
  <2> DEFINE Odd == {k \in 0..N : ~(S \subseteq f[k])}
  <2>1. ASSUME Odd # {} PROVE FALSE
    <3>1. Odd \subseteq Nat
      BY <1>1
    <3>2. PICK k \in Odd : \A l \in Odd : k <= l
      BY <2>1, <3>1, LeastNumber
    <3>3. k \in 1..N /\ k - 1 \in 0..N /\ k - 1 \notin Odd
      BY <1>1, <1>2, <3>2
    <3>4. S \subseteq Rest(E, f[k - 1])
      BY <1>3, <3>3 DEF Rest
    <3> QED
      BY <1>2, <3>2, <3>3, <3>4
  <2>2. S \subseteq f[N]
    BY <1>1, <2>1
  <2> QED
    BY <1>3, <2>2
<1>4. ASSUME Acyclic(V, E) PROVE f[N] = {}
  <2>1. ASSUME NEW k \in 0..N
        PROVE  IsFiniteSet(f[k]) /\ Cardinality(f[k]) \in Nat /\ f[k] \in SUBSET V
    BY <1>1, FS_Subset, FS_CardinalityType DEF V
  <2> DEFINE Odd == {k \in 0..N : Cardinality(f[k]) > N - k}
  <2>2. ASSUME Odd # {} PROVE FALSE
    <3>1. Odd \subseteq Nat
      BY <1>1
    <3>2. PICK k \in Odd : \A l \in Odd : k <= l
      BY <2>2, <3>1, LeastNumber
    <3>3. k # 0
      BY <1>1, <1>2, <3>2 DEF N
    <3>4. k \in 1..N /\ k - 1 \in 0..N /\ k - 1 \notin Odd
      BY <1>1, <3>2, <3>3
    <3> DEFINE T == f[k - 1]
    <3>5. Cardinality(T) <= N - (k - 1) /\ f[k] = Rest(E, T) /\ T \in SUBSET V
      BY <1>1, <1>2, <2>1, <3>4
    <3>6. /\ IsFiniteSet(T) /\ Cardinality(T) \in Nat
          /\ Cardinality(Rest(E, T)) \in Nat
      BY <2>1, <3>4, <3>5
    <3>7. Cardinality(Rest(E, T)) > N - k
      BY <3>2, <3>5
    <3> HIDE DEF T
    <3>8. CASE T = {}
      <4>1. Rest(E, T) = {}
        BY <3>8 DEF Rest
      <4> QED
        BY <1>1, <3>4, <3>7, <4>1, FS_EmptySet
    <3>9. CASE T # {}
      <4>1. PICK n \in T : \A p \in T : <<p, n>> \notin E
        BY <1>4, <3>5, <3>9 DEF Acyclic
      <4>2. Rest(E, T) \in SUBSET T /\ n \notin Rest(E, T)
        BY <4>1 DEF Rest
      <4>3. Cardinality(Rest(E, T)) <= Cardinality(T) /\ Cardinality(Rest(E, T)) # Cardinality(T)
        BY <3>6, <4>1, <4>2, FS_Subset
      <4> QED
        BY <1>1, <3>4, <3>5, <3>6, <3>7, <4>3
    <3> QED
      BY <3>8, <3>9
  <2>3. N \in 0..N
    BY <1>1
  <2>4. Cardinality(f[N]) <= 0
    <3>1. ~(Cardinality(f[N]) > N - N)
      BY <2>2, <2>3, Zenon
    <3> QED
      BY <1>1, <2>1, <2>3, <3>1
  <2>5. IsFiniteSet(f[N]) /\ Cardinality(f[N]) = 0
    BY <2>1, <2>3, <2>4
  <2> QED
    BY <2>5, FS_EmptySet
<1>5. ASSUME f[N] = {} PROVE Acyclic(V, E)
  BY <1>3, <1>5 DEF Acyclic
<1> QED
  BY <1>2, <1>4, <1>5 DEF HasCycle, V, E

\* The breadth-first search finds nothing that a closed set with the trigger lacks.
LEMMA ReachedOnly ==
    ASSUME NEW w, Cardinality(Ids(w)) \in Nat, NEW S, TriggerId(w) \in S,
           \A e \in ValidEdges(w) : e[1] \in S => e[2] \in S
    PROVE  Reachable(w) \subseteq S
<1> DEFINE E == ValidEdges(w)
           N == Cardinality(Ids(w))
           Next1(T) == T \cup {e[2] : e \in {d \in E : d[1] \in T}}
           Found(f) == f = [k \in 0..N |->
                              IF k = 0 THEN {TriggerId(w)}
                              ELSE LET known == f[k - 1]
                                   IN  known \cup {e[2] : e \in {d \in E : d[1] \in known}}]
           found == CHOOSE f : Found(f)
           step == [T \in SUBSET S |-> Next1(T)]
<1>1. Reachable(w) = found[N]
  BY DEF Reachable
<1>2. step \in [SUBSET S -> SUBSET S] /\ {TriggerId(w)} \in SUBSET S
  <2>1. \A T \in SUBSET S : Next1(T) \in SUBSET S
    OBVIOUS
  <2> HIDE DEF Next1
  <2> QED
    BY <2>1
<1>3. N \in Nat
  OBVIOUS
<1> HIDE DEF E, N
<1> DEFINE X == SUBSET S
           start == {TriggerId(w)}
<1>a. step \in [X -> X] /\ start \in X
  BY <1>2
<1>b. ASSUME NEW T \in X PROVE step[T] = Next1(T)
  OBVIOUS
<1> HIDE DEF X, step
<1>c. Iterated(X, step, start, N)
  BY <1>3, <1>a, Iterates, Zenon
<1>4. PICK f \in [0..N -> X] : f[0] = start /\ \A k \in 1..N : f[k] = step[f[k - 1]]
  BY <1>c, Zenon DEF Iterated
<1>5. ASSUME NEW k \in 1..N PROVE f[k] = Next1(f[k - 1])
  <2>1. f[k - 1] \in X
    BY <1>3
  <2> HIDE DEF Next1
  <2> QED
    BY <1>4, <1>b, <2>1
<1>6. Found(f)
  <2>1. ASSUME NEW k \in 0..N PROVE f[k] = IF k = 0 THEN {TriggerId(w)} ELSE Next1(f[k - 1])
    <3> HIDE DEF Next1
    <3>1. k # 0 => k \in 1..N
      BY <1>3
    <3> QED
      BY <1>3, <1>4, <1>5, <3>1
  <2>2. f = [k \in 0..N |-> f[k]]
    OBVIOUS
  <2> QED
    BY <2>1, <2>2
<1>7. Found(found)
  BY <1>6, Zenon
<1>8. ASSUME NEW g, Found(g)
      PROVE  /\ DOMAIN g = 0..N /\ g[0] = {TriggerId(w)}
             /\ \A k \in 1..N : g[k] = Next1(g[k - 1])
  <2>1. g = [k \in 0..N |-> IF k = 0 THEN {TriggerId(w)} ELSE Next1(g[k - 1])]
    BY <1>8, Zenon
  <2> HIDE DEF Next1
  <2>2. DOMAIN g = 0..N
    BY <2>1
  <2>3. g[0] = {TriggerId(w)}
    BY <1>3, <2>1
  <2>4. ASSUME NEW k \in 1..N PROVE g[k] = Next1(g[k - 1])
    <3>1. k \in 0..N /\ k # 0
      BY <1>3
    <3> QED
      BY <2>1, <3>1
  <2> QED
    BY <2>2, <2>3, <2>4
<1> HIDE DEF found, Found
<1>9. /\ DOMAIN found = 0..N /\ found[0] = {TriggerId(w)}
      /\ \A k \in 1..N : found[k] = Next1(found[k - 1])
  BY <1>7, <1>8
<1> DEFINE Odd == {k \in 0..N : found[k] # f[k]}
<1> HIDE DEF Next1
<1>10. ASSUME Odd # {} PROVE FALSE
  <2>1. Odd \subseteq Nat
    BY <1>3
  <2>2. PICK k \in Odd : \A l \in Odd : k <= l
    BY <1>10, <2>1, LeastNumber
  <2>3. k \in 1..N /\ k - 1 \in 0..N /\ k - 1 \notin Odd
    <3>1. k \in 0..N /\ found[k] # f[k]
      BY <2>2
    <3>b. found[0] = f[0]
      BY <1>4, <1>9
    <3>a. k \in Nat /\ k # 0
      BY <1>3, <3>1, <3>b
    <3>2. k \in 1..N /\ k - 1 \in 0..N /\ ~(k <= k - 1)
      BY <1>3, <3>1, <3>a
    <3> QED
      BY <2>2, <3>2, Zenon
  <2> QED
    BY <1>5, <1>9, <2>2, <2>3
<1>11. found[N] = f[N]
  BY <1>3, <1>10
<1>12. f[N] \in X
  BY <1>3
<1> QED
  BY <1>1, <1>11, <1>12 DEF X

-----------------------------------------------------------------------------
(* What validity means. *)

\* What the validator checks, said of positions: each id once, one trigger, connections
\* between nodes, from ports that exist.
UniqueIds(w) == \A i, j \in DOMAIN w.nodes : w.nodes[i].id = w.nodes[j].id => i = j
OneTrigger(w) ==
    \E t \in DOMAIN w.nodes : \A i \in DOMAIN w.nodes : w.nodes[i].kind = "trigger" <=> i = t
ConnsJoin(w) == \A k \in DOMAIN w.conns : w.conns[k].from \in Ids(w) /\ w.conns[k].to \in Ids(w)
PortsExist(w) ==
    \A k \in DOMAIN w.conns, i \in DOMAIN w.nodes :
        w.nodes[i].id = w.conns[k].from => PortOk(w.nodes[i], w.conns[k].port)

\* What a valid workflow is, without the checks.
Runnable(w) ==
    /\ w.version /\ w.nodes # <<>>
    /\ UniqueIds(w) /\ OneTrigger(w) /\ ConnsJoin(w) /\ PortsExist(w)
    /\ Acyclic(Ids(w), Edges(w))
    /\ ~SelfReference(w) /\ ~TriggerHasIncoming(w)

\* The ids of a workflow: finitely many, as many as nodes only if no two are the same.
LEMMA IdsAre ==
    ASSUME NEW w \in Workflow
    PROVE  /\ w.nodes \in Seq(WorkflowNode) /\ w.conns \in Seq(Connection) /\ w.version \in BOOLEAN
           /\ DOMAIN w.nodes = 1..Len(w.nodes) /\ Len(w.nodes) \in Nat
           /\ DOMAIN w.conns = 1..Len(w.conns) /\ Len(w.conns) \in Nat
           /\ \A i \in DOMAIN w.nodes : w.nodes[i] \in WorkflowNode /\ w.nodes[i].id \in Ids(w)
           /\ \A k \in DOMAIN w.conns : w.conns[k] \in Connection
           /\ \A n \in Ids(w) : \E i \in DOMAIN w.nodes : w.nodes[i].id = n
           /\ Ids(w) \subseteq Nat
           /\ IsFiniteSet(DOMAIN w.nodes) /\ Cardinality(DOMAIN w.nodes) = Len(w.nodes)
           /\ IsFiniteSet(Ids(w)) /\ Cardinality(Ids(w)) \in Nat
           /\ DuplicateNodeId(w) <=> ~UniqueIds(w)
<1>1. w.nodes \in Seq(WorkflowNode) /\ w.conns \in Seq(Connection) /\ w.version \in BOOLEAN
  BY DEF Workflow
<1>2. /\ DOMAIN w.nodes = 1..Len(w.nodes) /\ Len(w.nodes) \in Nat
      /\ DOMAIN w.conns = 1..Len(w.conns) /\ Len(w.conns) \in Nat
      /\ \A i \in DOMAIN w.nodes : w.nodes[i] \in WorkflowNode
      /\ \A k \in DOMAIN w.conns : w.conns[k] \in Connection
  BY <1>1
<1>3. /\ \A i \in DOMAIN w.nodes : w.nodes[i].id \in Ids(w)
      /\ \A n \in Ids(w) : \E i \in DOMAIN w.nodes : w.nodes[i].id = n
  BY Zenon DEF Ids, Range
<1>4. \A i \in DOMAIN w.nodes : w.nodes[i].id \in Nat
  BY <1>2 DEF WorkflowNode
<1>5. Ids(w) \subseteq Nat
  BY <1>3, <1>4, Zenon
<1>6. IsFiniteSet(DOMAIN w.nodes) /\ Cardinality(DOMAIN w.nodes) = Len(w.nodes)
  <2>1. \A m \in Nat : IsFiniteSet(1..m) /\ Cardinality(1..m) = m
    BY FS_Interval
  <2> QED
    BY <1>2, <2>1
<1> DEFINE D == DOMAIN w.nodes
           V == Ids(w)
           id == [i \in D |-> w.nodes[i].id]
<1>7. id \in Surjection(D, V)
  <2>1. id \in [D -> V]
    BY <1>3, Zenon
  <2>2. \A n \in V : \E i \in D : id[i] = n
    BY <1>3
  <2> QED
    BY <2>1, <2>2, Zenon DEF Surjection
<1>8. UniqueIds(w) <=> id \in Injection(D, V)
  <2>1. id \in [D -> V]
    BY <1>3, Zenon
  <2>2. \A i \in D : id[i] = w.nodes[i].id
    OBVIOUS
  <2> HIDE DEF id
  <2>3. UniqueIds(w) <=> \A i, j \in D : id[i] = id[j] => i = j
    BY <2>2, Zenon DEF UniqueIds
  <2>4. DOMAIN id = D
    BY <2>1
  <2> QED
    BY <2>1, <2>3, <2>4, Zenon DEF Injection, IsInjective
<1> HIDE DEF D, V, id
<1>9. /\ IsFiniteSet(V) /\ Cardinality(V) = Cardinality(D) <=> id \in Injection(D, V)
  BY <1>6, <1>7, FS_Surjection DEF D
<1>a. IsFiniteSet(V)
  BY <1>6, <1>7, FS_Surjection DEF D
<1>10. Cardinality(V) \in Nat
  BY <1>a, FS_CardinalityType
<1>11. DuplicateNodeId(w) <=> ~UniqueIds(w)
  BY <1>6, <1>8, <1>9, <1>a DEF DuplicateNodeId, D, V
<1> QED
  BY <1>1, <1>2, <1>3, <1>5, <1>6, <1>a, <1>10, <1>11, Zenon DEF V

\* With unique ids, by_id finds the node that has the id.
LEMMA NodeIs ==
    ASSUME NEW w \in Workflow, UniqueIds(w), NEW i \in DOMAIN w.nodes
    PROVE  Node(w, w.nodes[i].id) = w.nodes[i]
<1> DEFINE P == {j \in DOMAIN w.nodes : w.nodes[j].id = w.nodes[i].id}
<1>1. P \subseteq Nat /\ i \in P
  BY IdsAre
<1>2. Min(P) \in P
  BY <1>1, Extremes
<1>3. Min(P) = i
  BY <1>2 DEF UniqueIds
<1> QED
  BY <1>3, Zenon DEF Node

\* The trigger is the one node of its kind, wherever it stands.
LEMMA TriggerIs ==
    ASSUME NEW w \in Workflow
    PROVE  /\ ~NotOneTrigger(w) <=> OneTrigger(w)
           /\ TriggerNodes(w) # {} =>
                 \E t \in TriggerNodes(w) : TriggerId(w) = w.nodes[t].id
<1>1. TriggerNodes(w) \in SUBSET DOMAIN w.nodes /\ TriggerNodes(w) \subseteq Nat
  BY IdsAre DEF TriggerNodes
<1>2. IsFiniteSet(TriggerNodes(w))
  BY <1>1, IdsAre, FS_Subset
<1>3. Cardinality(TriggerNodes(w)) = 1 <=> \E t : TriggerNodes(w) = {t}
  BY <1>2, FS_Singleton
<1>4. OneTrigger(w) <=> \E t : TriggerNodes(w) = {t}
  <2>1. ASSUME OneTrigger(w) PROVE \E t : TriggerNodes(w) = {t}
    <3>1. PICK t \in DOMAIN w.nodes :
             \A i \in DOMAIN w.nodes : w.nodes[i].kind = "trigger" <=> i = t
      BY <2>1, Zenon DEF OneTrigger
    <3>2. TriggerNodes(w) = {t}
      BY <3>1, Zenon DEF TriggerNodes
    <3> QED
      BY <3>2
  <2>2. ASSUME NEW t, TriggerNodes(w) = {t} PROVE OneTrigger(w)
    <3>1. t \in DOMAIN w.nodes /\ \A i \in DOMAIN w.nodes : w.nodes[i].kind = "trigger" <=> i = t
      BY <2>2, Zenon DEF TriggerNodes
    <3> QED
      BY <3>1, Zenon DEF OneTrigger
  <2> QED
    BY <2>1, <2>2
<1>5. TriggerNodes(w) # {} => \E t \in TriggerNodes(w) : TriggerId(w) = w.nodes[t].id
  BY <1>1, Extremes, Zenon DEF TriggerId
<1> QED
  BY <1>3, <1>4, <1>5 DEF NotOneTrigger

\* A connection that joins two nodes on a port that exists is looked at by the search.
LEMMA PortsAre ==
    ASSUME NEW w \in Workflow, UniqueIds(w), ConnsJoin(w)
    PROVE  /\ PortsExist(w) <=> \A c \in Range(w.conns) : ~InvalidOutputPort(w, c)
           /\ PortsExist(w) => ValidEdges(w) = Edges(w)
<1>1. ASSUME NEW c \in Range(w.conns)
      PROVE  /\ ~Dangling(w, c)
             /\ InvalidOutputPort(w, c) <=> ~PortOk(Node(w, c.from), c.port)
             /\ \E i \in DOMAIN w.nodes : w.nodes[i].id = c.from /\ Node(w, c.from) = w.nodes[i]
  <2>1. c.from \in Ids(w) /\ c.to \in Ids(w)
    BY <1>1, Zenon DEF ConnsJoin, Range
  <2>2. PICK i \in DOMAIN w.nodes : w.nodes[i].id = c.from
    BY <2>1, IdsAre
  <2>3. Node(w, c.from) = w.nodes[i]
    BY <2>2, NodeIs
  <2>4. ~Dangling(w, c)
    BY <2>1 DEF Dangling
  <2> QED
    BY <2>1, <2>2, <2>3, <2>4, Zenon DEF InvalidOutputPort
<1>2. ASSUME PortsExist(w), NEW c \in Range(w.conns) PROVE ~InvalidOutputPort(w, c)
  <2>1. PICK k \in DOMAIN w.conns : c = w.conns[k]
    BY <1>2, Zenon DEF Range
  <2> QED
    BY <1>1, <1>2, <2>1, Zenon DEF PortsExist
<1>3. ASSUME \A c \in Range(w.conns) : ~InvalidOutputPort(w, c) PROVE PortsExist(w)
  <2> SUFFICES ASSUME NEW k \in DOMAIN w.conns, NEW i \in DOMAIN w.nodes,
                      w.nodes[i].id = w.conns[k].from
               PROVE  PortOk(w.nodes[i], w.conns[k].port)
    BY Zenon DEF PortsExist
  <2>1. w.conns[k] \in Range(w.conns)
    BY Zenon DEF Range
  <2>2. Node(w, w.conns[k].from) = w.nodes[i]
    BY NodeIs
  <2> QED
    BY <1>1, <1>3, <2>1, <2>2, Zenon
<1>4. ASSUME PortsExist(w) PROVE ValidEdges(w) = Edges(w)
  <2>1. {d \in Range(w.conns) : ~Dangling(w, d) /\ ~InvalidOutputPort(w, d)} = Range(w.conns)
    BY <1>1, <1>2, <1>4, Zenon
  <2> QED
    BY <2>1, Zenon DEF ValidEdges, Edges
<1> QED
  BY <1>2, <1>3, <1>4

\* What the validator accepts is what can be run.
LEMMA ValidMeans ==
    ASSUME NEW w \in Workflow
    PROVE  /\ IsValid(w) <=> Runnable(w)
           /\ IsValid(w) /\ "unreachable_node" \notin Report(w) => Ids(w) \subseteq Reachable(w)
<1> DEFINE Codes == {"duplicate_node_id", "trigger_count", "dangling_connection",
                     "invalid_output_port", "cycle", "unreachable_node",
                     "sub_workflow_self_reference", "trigger_has_incoming_connection"}
           Clean == /\ w.version /\ w.nodes # <<>>
                    /\ ~DuplicateNodeId(w) /\ ~NotOneTrigger(w)
                    /\ \A c \in Range(w.conns) : ~Dangling(w, c)
                    /\ \A c \in Range(w.conns) : ~InvalidOutputPort(w, c)
                    /\ ~HasCycle(w) /\ ~SelfReference(w) /\ ~TriggerHasIncoming(w)
<1>1. IsValid(w) <=> Clean
  <2>1. CASE w.version /\ w.nodes # <<>>
    <3> DEFINE D1 == DuplicateNodeId(w)
               D2 == NotOneTrigger(w)
               D3 == \E c \in Range(w.conns) : Dangling(w, c)
               D4 == \E c \in Range(w.conns) : InvalidOutputPort(w, c)
               D5 == HasCycle(w)
               D6 == Unreachable(w) # {}
               D7 == SelfReference(w)
               D8 == TriggerHasIncoming(w)
               Bad(code) == CASE code = "duplicate_node_id" -> D1
                              [] code = "trigger_count" -> D2
                              [] code = "dangling_connection" -> D3
                              [] code = "invalid_output_port" -> D4
                              [] code = "cycle" -> D5
                              [] code = "unreachable_node" -> D6
                              [] code = "sub_workflow_self_reference" -> D7
                              [] code = "trigger_has_incoming_connection" -> D8
    <3>1. Report(w) = {code \in Codes : Bad(code)}
      BY <2>1, Zenon DEF Report
    <3>2. Clean <=> ~D1 /\ ~D2 /\ ~D3 /\ ~D4 /\ ~D5 /\ ~D7 /\ ~D8
      BY <2>1, Zenon
    <3> HIDE DEF D1, D2, D3, D4, D5, D6, D7, D8, Clean
    <3>3. /\ Bad("duplicate_node_id") <=> D1
          /\ Bad("trigger_count") <=> D2
          /\ Bad("dangling_connection") <=> D3
          /\ Bad("invalid_output_port") <=> D4
          /\ Bad("cycle") <=> D5
          /\ Bad("sub_workflow_self_reference") <=> D7
          /\ Bad("trigger_has_incoming_connection") <=> D8
      OBVIOUS
    <3> HIDE DEF Bad
    <3>4. IsValid(w) <=> \A code \in Codes : Bad(code) => code = "unreachable_node"
      BY <3>1 DEF IsValid
    <3> QED
      BY <3>2, <3>3, <3>4
  <2>2. CASE ~w.version
    BY <2>2 DEF IsValid, Report
  <2>3. CASE w.version /\ w.nodes = <<>>
    BY <2>3 DEF IsValid, Report
  <2> QED
    BY <2>1, <2>2, <2>3
<1>2. Clean /\ "unreachable_node" \notin Report(w) => Unreachable(w) = {}
  BY DEF Report
<1>3. (\A c \in Range(w.conns) : ~Dangling(w, c)) <=> ConnsJoin(w)
  <2>1. \A c \in Range(w.conns) : ~Dangling(w, c) <=> c.from \in Ids(w) /\ c.to \in Ids(w)
    BY DEF Dangling
  <2> QED
    BY <2>1, Zenon DEF ConnsJoin, Range
<1>4. ~DuplicateNodeId(w) <=> UniqueIds(w)
  BY IdsAre
<1>5. ~NotOneTrigger(w) <=> OneTrigger(w)
  BY TriggerIs
<1>6. ~HasCycle(w) <=> Acyclic(Ids(w), ValidEdges(w))
  BY IdsAre, SortedIfAcyclic
<1>7. Clean <=> Runnable(w)
  BY <1>3, <1>4, <1>5, <1>6, PortsAre, Zenon DEF Runnable
<1>8. Clean /\ Unreachable(w) = {} => Ids(w) \subseteq Reachable(w)
  BY DEF Unreachable
<1> QED
  BY <1>1, <1>2, <1>7, <1>8

-----------------------------------------------------------------------------
(* Graphs without a cycle. *)

\* Every edge of F is one of E or goes past the node n, from a predecessor of it to a
\* successor.
Shortcuts(E, n, F) ==
    \A p, m : <<p, m>> \in F => <<p, m>> \in E \/ (<<p, n>> \in E /\ <<n, m>> \in E)

\* Every edge of F joins two nodes of V as one of E does, or has the node n in the middle
\* of the edge from a to b.
Middles(V, E, n, a, b, F) ==
    \A p, m : <<p, m>> \in F => \/ p \in V /\ m \in V /\ <<p, m>> \in E
                                \/ p = a /\ m = n
                                \/ p = n /\ m = b

\* Going past a node closes no cycle.
LEMMA ShortcutsCloseNoCycle ==
    ASSUME NEW V, NEW E, NEW W \in SUBSET V, NEW F, NEW n \in V, Acyclic(V, E),
           Shortcuts(E, n, F)
    PROVE  Acyclic(W, F)
<1> SUFFICES ASSUME NEW S \in (SUBSET W) \ {{}}
             PROVE  \E m \in S : \A p \in S : <<p, m>> \notin F
  BY Zenon DEF Acyclic
<1>1. S \cup {n} \in (SUBSET V) \ {{}} /\ S \in (SUBSET V) \ {{}}
  OBVIOUS
<1>2. PICK m \in S \cup {n} : \A p \in S \cup {n} : <<p, m>> \notin E
  BY <1>1, Zenon DEF Acyclic
<1>3. PICK k \in S : \A p \in S : <<p, k>> \notin E
  BY <1>1, Zenon DEF Acyclic
<1>4. CASE m \in S
  BY <1>2, <1>4, Zenon DEF Shortcuts
<1>5. CASE m = n
  BY <1>2, <1>3, <1>5, Zenon DEF Shortcuts
<1> QED
  BY <1>2, <1>4, <1>5

\* Nor does a new node in the middle of an edge.
LEMMA MiddlesCloseNoCycle ==
    ASSUME NEW V, NEW E, NEW n, n \notin V, NEW a \in V, NEW b \in V, <<a, b>> \in E, NEW F,
           Middles(V, E, n, a, b, F), Acyclic(V, E)
    PROVE  Acyclic(V \cup {n}, F)
<1> SUFFICES ASSUME NEW S \in (SUBSET (V \cup {n})) \ {{}}
             PROVE  \E m \in S : \A p \in S : <<p, m>> \notin F
  BY Zenon DEF Acyclic
<1> DEFINE T == S \ {n}
<1>1. CASE T = {}
  <2>1. n \in S /\ \A p \in S : p = n
    BY <1>1
  <2>2. <<n, n>> \notin F
    BY Zenon DEF Middles
  <2> QED
    BY <2>1, <2>2
<1>2. CASE T # {}
  <2>1. T \in (SUBSET V) \ {{}}
    BY <1>2
  <2>2. PICK m \in T : \A p \in T : <<p, m>> \notin E
    BY <2>1, Zenon DEF Acyclic
  <2>3. m \in V /\ m # n /\ m \in S
    BY <2>1, <2>2
  <2>4. CASE n \in S /\ m = b
    <3>1. a \notin S
      BY <2>2, <2>4
    <3>2. \A p \in S : <<p, n>> \notin F
      BY <3>1, Zenon DEF Middles
    <3> QED
      BY <2>4, <3>2
  <2>5. CASE ~(n \in S /\ m = b)
    <3>1. \A p \in S : <<p, m>> \notin F
      <4> SUFFICES ASSUME NEW p \in S, <<p, m>> \in F PROVE FALSE
        OBVIOUS
      <4>1. \/ p \in V /\ <<p, m>> \in E
            \/ p = n /\ m = b
        BY <2>3 DEF Middles
      <4>2. p \in V => p \in T
        OBVIOUS
      <4> QED
        BY <2>2, <2>5, <4>1, <4>2
    <3> QED
      BY <2>3, <3>1
  <2> QED
    BY <2>4, <2>5
<1> QED
  BY <1>1, <1>2

-----------------------------------------------------------------------------
(* The rewrites of a valid workflow: a field is set, a passthrough inserted. *)

\* What a connection says, and where the edges of the graph come from.
LEMMA EdgesAre ==
    ASSUME NEW w
    PROVE  /\ \A k \in DOMAIN w.conns : <<w.conns[k].from, w.conns[k].to>> \in Edges(w)
           /\ \A p, m : <<p, m>> \in Edges(w) =>
                 \E k \in DOMAIN w.conns : w.conns[k].from = p /\ w.conns[k].to = m
<1>1. \A k \in DOMAIN w.conns : <<w.conns[k].from, w.conns[k].to>> \in Edges(w)
  BY Zenon DEF Edges, Range
<1>2. ASSUME NEW p, NEW m, <<p, m>> \in Edges(w)
      PROVE  \E k \in DOMAIN w.conns : w.conns[k].from = p /\ w.conns[k].to = m
  <2>1. PICK c \in Range(w.conns) : <<p, m>> = <<c.from, c.to>>
    BY <1>2, Zenon DEF Edges
  <2>2. p = c.from /\ m = c.to
    BY <2>1
  <2> QED
    BY <2>2, Zenon DEF Range
<1> QED
  BY <1>1, <1>2

\* The checks of the nodes, by their positions.
LEMMA ByPosition ==
    ASSUME NEW w
    PROVE  /\ SelfReference(w) <=> \E i \in DOMAIN w.nodes :
                 w.nodes[i].kind = "sub_workflow" /\ w.nodes[i].calls = "itself"
           /\ TriggerHasIncoming(w) <=> \E i \in DOMAIN w.nodes, k \in DOMAIN w.conns :
                 w.nodes[i].kind = "trigger" /\ w.conns[k].to = w.nodes[i].id
           /\ \A n : n \in Ids(w) <=> \E i \in DOMAIN w.nodes : w.nodes[i].id = n
<1>1. SelfReference(w) <=> \E i \in DOMAIN w.nodes :
          w.nodes[i].kind = "sub_workflow" /\ w.nodes[i].calls = "itself"
  BY Zenon DEF SelfReference, Range
<1>2. TriggerHasIncoming(w) <=> \E i \in DOMAIN w.nodes, k \in DOMAIN w.conns :
          w.nodes[i].kind = "trigger" /\ w.conns[k].to = w.nodes[i].id
  BY Zenon DEF TriggerHasIncoming, Range
<1>3. \A n : n \in Ids(w) <=> \E i \in DOMAIN w.nodes : w.nodes[i].id = n
  BY Zenon DEF Ids, Range
<1> QED
  BY <1>1, <1>2, <1>3

\* Another mark on a node is nothing that the validator looks at.
LEMMA SetFieldKeeps ==
    ASSUME wf \in Workflow, Runnable(wf), NEW i \in DOMAIN wf.nodes, SetTransformField(i)
    PROVE  wf' \in Workflow /\ Runnable(wf') /\ Len(wf'.nodes) = Len(wf.nodes)
           /\ Ids(wf) \subseteq Ids(wf')
<1> DEFINE w == wf
           v == wf'
           m == IF w.nodes[i].mark = "token" THEN "both" ELSE "constant"
<1>m. m \in Marks
  BY DEF Marks
<1>1. v = [w EXCEPT !.nodes[i].mark = m]
  BY DEF SetTransformField
<1>2. /\ w.nodes \in Seq(WorkflowNode) /\ DOMAIN w.nodes = 1..Len(w.nodes) /\ Len(w.nodes) \in Nat
      /\ \A j \in DOMAIN w.nodes : w.nodes[j] \in WorkflowNode
  BY IdsAre
<1>3. w = [version |-> w.version, nodes |-> w.nodes, conns |-> w.conns]
  BY DEF Workflow
<1>4. /\ v.version = w.version /\ v.conns = w.conns
      /\ v.nodes = [w.nodes EXCEPT ![i].mark = m]
  BY <1>1, <1>3
<1>5. v.nodes \in Seq(WorkflowNode) /\ Len(v.nodes) = Len(w.nodes) /\ DOMAIN v.nodes = DOMAIN w.nodes
  <2>1. [w.nodes[i] EXCEPT !.mark = m] \in WorkflowNode
    BY <1>2, <1>m DEF WorkflowNode
  <2> QED
    BY <1>2, <1>4, <2>1
<1>6. v \in Workflow
  BY <1>1, <1>4, <1>5 DEF Workflow
<1>7. ASSUME NEW j \in DOMAIN w.nodes
      PROVE  /\ v.nodes[j].id = w.nodes[j].id /\ v.nodes[j].kind = w.nodes[j].kind
             /\ v.nodes[j].calls = w.nodes[j].calls
  <2>1. CASE j = i
    <3>1. v.nodes[j] = [w.nodes[i] EXCEPT !.mark = m]
      BY <1>4, <2>1
    <3> QED
      BY <1>2, <2>1, <3>1 DEF WorkflowNode
  <2>2. CASE j # i
    BY <1>4, <2>2
  <2> QED
    BY <2>1, <2>2
<1> HIDE DEF w, v
<1>w. Runnable(w)
  BY DEF w
<1>a. DOMAIN v.nodes = DOMAIN w.nodes
  BY <1>5
<1>b. v.conns = w.conns
  BY <1>4
<1>8. Ids(v) = Ids(w)
  <2>1. \A n : n \in Ids(v) <=> n \in Ids(w)
    BY <1>a, <1>7, ByPosition
  <2> QED
    BY <2>1, Zenon
<1>9. Edges(v) = Edges(w)
  BY <1>b, Zenon DEF Edges
<1>10. \A j \in DOMAIN w.nodes : \A port : PortOk(v.nodes[j], port) <=> PortOk(w.nodes[j], port)
  BY <1>7, Zenon DEF PortOk
<1>11. UniqueIds(v)
  BY <1>w, <1>a, <1>7 DEF Runnable, UniqueIds
<1>12. OneTrigger(v)
  <2>1. PICK t \in DOMAIN w.nodes : \A j \in DOMAIN w.nodes : w.nodes[j].kind = "trigger" <=> j = t
    BY <1>w DEF Runnable, OneTrigger
  <2>2. \A j \in DOMAIN v.nodes : v.nodes[j].kind = "trigger" <=> j = t
    BY <1>a, <1>7, <2>1
  <2> QED
    BY <1>a, <2>1, <2>2 DEF OneTrigger
<1>13. ConnsJoin(v)
  BY <1>w, <1>b, <1>8 DEF Runnable, ConnsJoin
<1>14. PortsExist(v)
  BY <1>w, <1>a, <1>b, <1>7, <1>10 DEF Runnable, PortsExist
<1>15. ~SelfReference(v)
  <2>1. ~SelfReference(w)
    BY <1>w DEF Runnable
  <2> QED
    BY <2>1, <1>a, <1>7, ByPosition
<1>16. ~TriggerHasIncoming(v)
  <2>1. ~TriggerHasIncoming(w)
    BY <1>w DEF Runnable
  <2> QED
    BY <2>1, <1>a, <1>b, <1>7, ByPosition
<1>17. v.nodes # <<>>
  BY <1>2, <1>5 DEF w
<1>18. Runnable(v)
  BY <1>w, <1>4, <1>8, <1>9, <1>11, <1>12, <1>13, <1>14, <1>15, <1>16, <1>17, Zenon DEF Runnable
<1> QED
  BY <1>5, <1>6, <1>8, <1>18 DEF v, w

\* A passthrough in the middle of a connection keeps the workflow runnable: its id is
\* one that no node has.
LEMMA InsertKeeps ==
    ASSUME wf \in Workflow, Runnable(wf), NEW i \in DOMAIN wf.conns, InsertPassthrough(i)
    PROVE  wf' \in Workflow /\ Runnable(wf') /\ Len(wf'.nodes) = 1 + Len(wf.nodes)
           /\ Ids(wf) \subseteq Ids(wf')
<1> DEFINE w == wf
           v == wf'
           f == Fresh
           new == [id |-> f, kind |-> "transform", mark |-> "empty", calls |-> "none"]
           L == Len(w.nodes)
           M == Len(w.conns)
           moved == [w.conns EXCEPT ![i].to = f]
           a == w.conns[i].from
           b == w.conns[i].to
<1>1. v = [w EXCEPT !.nodes = Append(@, new), !.conns = Append(moved, Conn(f, 0, b))]
  BY DEF InsertPassthrough
<1>2. /\ w.nodes \in Seq(WorkflowNode) /\ DOMAIN w.nodes = 1..L /\ L \in Nat
      /\ w.conns \in Seq(Connection) /\ DOMAIN w.conns = 1..M /\ M \in Nat
      /\ \A j \in DOMAIN w.nodes : w.nodes[j] \in WorkflowNode
      /\ \A k \in DOMAIN w.conns : w.conns[k] \in Connection
      /\ i \in DOMAIN w.conns
  BY IdsAre
<1>3. w = [version |-> w.version, nodes |-> w.nodes, conns |-> w.conns]
  BY DEF Workflow
<1>w. Runnable(w) /\ w \in Workflow
  OBVIOUS
<1>4. f \in Nat /\ \A n \in Ids(w) : n \in Nat /\ n < f
  <2>1. Ids(w) # {}
    <3>1. w.nodes # <<>>
      BY <1>w DEF Runnable
    <3>2. 1 \in DOMAIN w.nodes
      BY <1>2, <3>1
    <3> QED
      BY <3>2, ByPosition
  <2>2. Ids(w) \subseteq Nat /\ IsFiniteSet(Ids(w))
    BY IdsAre
  <2>3. Max(Ids(w)) \in Ids(w) /\ \A n \in Ids(w) : n <= Max(Ids(w))
    BY <2>1, <2>2, Extremes
  <2>4. f = 1 + Max(Ids(w))
    BY DEF Fresh
  <2> QED
    BY <2>2, <2>3, <2>4
<1> HIDE DEF f, w, v, L, M
<1>5. new \in WorkflowNode
  BY <1>4 DEF WorkflowNode, Kinds, Marks
<1>6. moved \in Seq(Connection) /\ Conn(f, 0, b) \in Connection /\ Len(moved) = M
  <2>1. w.conns[i] \in Connection
    BY <1>2
  <2>2. [w.conns[i] EXCEPT !.to = f] \in Connection
    BY <1>4, <2>1 DEF Connection
  <2>3. moved \in Seq(Connection) /\ Len(moved) = Len(w.conns)
    BY <1>2, <2>2
  <2> QED
    BY <1>4, <2>1, <2>3 DEF Connection, Conn, M
<1>7. /\ v.version = w.version /\ v.nodes = Append(w.nodes, new)
      /\ v.conns = Append(moved, Conn(f, 0, b))
      /\ v = [version |-> w.version, nodes |-> v.nodes, conns |-> v.conns]
  BY <1>1, <1>3
<1>8. ASSUME NEW j \in 1..L PROVE v.nodes[j] = w.nodes[j]
  BY <1>2, <1>7
<1>9. /\ v.nodes \in Seq(WorkflowNode) /\ Len(v.nodes) = L + 1
      /\ v.nodes[L + 1] = new /\ DOMAIN v.nodes = 1..(L + 1)
  BY <1>2, <1>5, <1>7 DEF L
<1>10. /\ v.conns \in Seq(Connection) /\ Len(v.conns) = M + 1
       /\ v.conns[M + 1] = Conn(f, 0, b) /\ DOMAIN v.conns = 1..(M + 1)
  <2>1. \A s \in Seq(Connection), c \in Connection :
           /\ Append(s, c) \in Seq(Connection) /\ Len(Append(s, c)) = Len(s) + 1
           /\ Append(s, c)[Len(s) + 1] = c /\ DOMAIN Append(s, c) = 1..(Len(s) + 1)
    OBVIOUS
  <2> HIDE DEF moved, b
  <2> QED
    BY <1>6, <1>7, <2>1
<1>11. ASSUME NEW k \in 1..M
       PROVE  /\ v.conns[k].from = w.conns[k].from /\ v.conns[k].port = w.conns[k].port
              /\ v.conns[k].to = IF k = i THEN f ELSE w.conns[k].to
  <2>1. v.conns[k] = moved[k]
    BY <1>2, <1>6, <1>7
  <2>2. moved[k] = IF k = i THEN [w.conns[i] EXCEPT !.to = f] ELSE w.conns[k]
    BY <1>2
  <2>3. w.conns[k] \in Connection /\ w.conns[i] \in Connection
    BY <1>2
  <2> QED
    BY <2>1, <2>2, <2>3 DEF Connection
<1>12. v \in Workflow
  BY <1>7, <1>9, <1>10, <1>w, IdsAre DEF Workflow
<1> HIDE DEF new, moved
<1>13. /\ new.id = f /\ new.kind = "transform" /\ new.calls = "none"
       /\ Conn(f, 0, b).from = f /\ Conn(f, 0, b).port = 0 /\ Conn(f, 0, b).to = b
  BY DEF new, Conn
<1>a. 1..(L + 1) = (1..L) \cup {L + 1} /\ 1..(M + 1) = (1..M) \cup {M + 1}
  BY <1>2
<1>14. Ids(v) = Ids(w) \cup {f}
  <2>1. \A n : n \in Ids(w) <=> \E j \in 1..L : w.nodes[j].id = n
    BY <1>2, ByPosition
  <2>2. \A n : n \in Ids(v) <=> \E j \in 1..(L + 1) : v.nodes[j].id = n
    BY <1>9, ByPosition
  <2>3. /\ \A j \in 1..L : v.nodes[j].id = w.nodes[j].id
        /\ v.nodes[L + 1].id = f
    BY <1>8, <1>9, <1>13
  <2> HIDE DEF new, v, w, f, L
  <2>4. ASSUME NEW n PROVE n \in Ids(v) <=> n \in Ids(w) \cup {f}
    BY <2>1, <2>2, <2>3, <1>a
  <2> QED
    BY <2>4, Zenon
<1>b. a \in Ids(w) /\ b \in Ids(w) /\ f \notin Ids(w) /\ a # f /\ b # f
  BY <1>w, <1>2, <1>4 DEF Runnable, ConnsJoin
<1>15. Acyclic(Ids(v), Edges(v))
  <2>1. ASSUME NEW p, NEW m, <<p, m>> \in Edges(v)
        PROVE  \/ p \in Ids(w) /\ m \in Ids(w) /\ <<p, m>> \in Edges(w)
               \/ p = a /\ m = f
               \/ p = f /\ m = b
    <3>1. PICK k \in DOMAIN v.conns : v.conns[k].from = p /\ v.conns[k].to = m
      BY <2>1, EdgesAre
    <3>2. CASE k = M + 1
      BY <1>10, <1>13, <3>1, <3>2
    <3>3. CASE k \in 1..M /\ k = i
      BY <1>11, <3>1, <3>3
    <3>4. CASE k \in 1..M /\ k # i
      <4>1. p = w.conns[k].from /\ m = w.conns[k].to
        BY <1>11, <3>1, <3>4
      <4>2. p \in Ids(w) /\ m \in Ids(w)
        BY <1>w, <1>2, <3>4, <4>1 DEF Runnable, ConnsJoin
      <4>3. <<p, m>> \in Edges(w)
        BY <1>2, <3>4, <4>1, EdgesAre
      <4> QED
        BY <4>2, <4>3
    <3> QED
      BY <1>10, <1>a, <3>1, <3>2, <3>3, <3>4
  <2>2. <<a, b>> \in Edges(w)
    BY <1>2, EdgesAre
  <2>3. Acyclic(Ids(w), Edges(w))
    BY <1>w DEF Runnable
  <2> HIDE DEF a, b
  <2>4. Acyclic(Ids(w) \cup {f}, Edges(v))
    <3>1. Middles(Ids(w), Edges(w), f, a, b, Edges(v))
      BY <2>1, Zenon DEF Middles
    <3> QED
      BY <1>b, <2>2, <2>3, <3>1, MiddlesCloseNoCycle, Zenon
  <2> QED
    BY <1>14, <2>4
<1>16. UniqueIds(v)
  <2>1. \A j, k \in 1..L : w.nodes[j].id = w.nodes[k].id => j = k
    BY <1>w, <1>2, Zenon DEF Runnable, UniqueIds
  <2>2. \A j \in 1..L : v.nodes[j].id = w.nodes[j].id /\ w.nodes[j].id # f
    BY <1>2, <1>8, <1>b, ByPosition
  <2> QED
    BY <1>9, <1>13, <1>a, <2>1, <2>2 DEF UniqueIds
<1>17. OneTrigger(v)
  <2>1. PICK t \in 1..L : \A j \in 1..L : w.nodes[j].kind = "trigger" <=> j = t
    BY <1>w, <1>2 DEF Runnable, OneTrigger
  <2>2. t \in DOMAIN v.nodes /\ L + 1 # t
    BY <1>2, <1>9
  <2>3. \A j \in DOMAIN v.nodes : v.nodes[j].kind = "trigger" <=> j = t
    BY <1>8, <1>9, <1>13, <1>a, <2>1, <2>2
  <2> QED
    BY <2>2, <2>3 DEF OneTrigger
<1>18. ConnsJoin(v)
  <2>1. \A k \in 1..M : w.conns[k].from \in Ids(w) /\ w.conns[k].to \in Ids(w)
    BY <1>w, <1>2 DEF Runnable, ConnsJoin
  <2> QED
    BY <1>10, <1>11, <1>13, <1>14, <1>a, <1>b, <2>1 DEF ConnsJoin
<1>19. PortsExist(v)
  <2>1. \A k \in 1..M, j \in 1..L :
           w.nodes[j].id = w.conns[k].from => PortOk(w.nodes[j], w.conns[k].port)
    BY <1>w, <1>2 DEF Runnable, PortsExist
  <2>2. PortOk(new, 0)
    BY <1>13 DEF PortOk
  <2>3. \A k \in 1..M : w.conns[k].from # f
    BY <1>w, <1>2, <1>b DEF Runnable, ConnsJoin
  <2>4. \A j \in 1..L : w.nodes[j].id # f
    BY <1>2, <1>b, ByPosition
  <2>5. ASSUME NEW k \in 1..(M + 1), NEW j \in 1..(L + 1),
               v.nodes[j].id = v.conns[k].from
        PROVE  PortOk(v.nodes[j], v.conns[k].port)
    <3>1. CASE j \in 1..L /\ k \in 1..M
      BY <1>8, <1>11, <2>1, <2>5, <3>1
    <3>2. CASE k = M + 1
      <4>1. v.conns[k].from = f /\ v.conns[k].port = 0
        BY <1>10, <1>13, <3>2
      <4>2. j = L + 1
        BY <1>8, <1>a, <2>4, <2>5, <4>1
      <4> QED
        BY <1>9, <2>2, <4>1, <4>2
    <3>3. CASE j = L + 1 /\ k \in 1..M
      BY <1>9, <1>11, <1>13, <2>3, <2>5, <3>3
    <3> QED
      BY <1>a, <3>1, <3>2, <3>3
  <2> QED
    BY <1>9, <1>10, <2>5 DEF PortsExist
<1>20. ~SelfReference(v)
  <2>1. ~SelfReference(w)
    BY <1>w DEF Runnable
  <2>2. \A j \in 1..L : ~(w.nodes[j].kind = "sub_workflow" /\ w.nodes[j].calls = "itself")
    BY <1>2, <2>1, ByPosition
  <2>3. ASSUME NEW j \in 1..(L + 1), v.nodes[j].kind = "sub_workflow",
               v.nodes[j].calls = "itself"
        PROVE  FALSE
    <3>1. CASE j = L + 1
      BY <1>9, <1>13, <2>3, <3>1
    <3>2. CASE j \in 1..L
      BY <1>8, <2>2, <2>3, <3>2
    <3> QED
      BY <1>a, <3>1, <3>2
  <2> QED
    BY <1>9, <2>3, ByPosition
<1>21. ~TriggerHasIncoming(v)
  <2>1. \A j \in 1..L, l \in 1..M :
           ~(w.nodes[j].kind = "trigger" /\ w.conns[l].to = w.nodes[j].id)
    <3>1. ~TriggerHasIncoming(w)
      BY <1>w DEF Runnable
    <3> QED
      BY <1>2, <3>1, ByPosition
  <2>2. ASSUME NEW j \in 1..L, NEW k \in 1..(M + 1),
               v.nodes[j].kind = "trigger", v.conns[k].to = v.nodes[j].id
        PROVE  FALSE
    <3>1. w.nodes[j].kind = "trigger" /\ v.conns[k].to = w.nodes[j].id /\ w.nodes[j].id # f
      BY <1>2, <1>8, <1>b, <2>2, ByPosition
    <3>2. \E l \in 1..M : v.conns[k].to = w.conns[l].to
      BY <1>2, <1>10, <1>11, <1>13, <1>a, <3>1
    <3> QED
      BY <2>1, <3>1, <3>2
  <2>3. ASSUME TriggerHasIncoming(v) PROVE FALSE
    <3>1. PICK j \in 1..(L + 1), k \in 1..(M + 1) :
             v.nodes[j].kind = "trigger" /\ v.conns[k].to = v.nodes[j].id
      BY <1>9, <1>10, <2>3, ByPosition
    <3>2. j \in 1..L
      BY <1>9, <1>13, <1>a, <3>1
    <3> QED
      BY <2>2, <3>1, <3>2
  <2> QED
    BY <2>3
<1>22. v.nodes # <<>>
  BY <1>2, <1>9
<1>23. Runnable(v)
  BY <1>w, <1>7, <1>15, <1>16, <1>17, <1>18, <1>19, <1>20, <1>21, <1>22 DEF Runnable
<1> QED
  BY <1>2, <1>9, <1>12, <1>14, <1>23 DEF v, w, L

-----------------------------------------------------------------------------
(* Connections that go past a node: a passthrough is removed, two nodes run *)
(* beside each other.                                                       *)

\* A connection of w, or one that goes past the node n.
Rerouted(w, n, c) ==
    \/ c \in Range(w.conns)
    \/ \E d, e \in Range(w.conns) :
          d.to = n /\ e.from = n /\ c.from = d.from /\ c.port = d.port /\ c.to = e.to

\* The nodes of v are nodes of w, the trigger among them, each once.
NodesOf(w, v) ==
    /\ \A j \in DOMAIN v.nodes : \E k \in DOMAIN w.nodes : v.nodes[j] = w.nodes[k]
    /\ \A k \in DOMAIN w.nodes :
          w.nodes[k].kind = "trigger" => \E j \in DOMAIN v.nodes : v.nodes[j] = w.nodes[k]

\* Without some of its nodes, and with connections that go past one of them, a runnable
\* workflow stays runnable.
LEMMA ReroutedIsRunnable ==
    ASSUME NEW w \in Workflow, NEW v \in Workflow, Runnable(w), NEW n \in Ids(w),
           v.version, UniqueIds(v), ConnsJoin(v), NodesOf(w, v),
           \A c \in Range(v.conns) : Rerouted(w, n, c)
    PROVE  Runnable(v)
<1>1. ASSUME NEW k \in DOMAIN v.conns
      PROVE  /\ \E l \in DOMAIN w.conns : /\ v.conns[k].from = w.conns[l].from
                                          /\ v.conns[k].port = w.conns[l].port
             /\ \E l \in DOMAIN w.conns : v.conns[k].to = w.conns[l].to
             /\ \/ <<v.conns[k].from, v.conns[k].to>> \in Edges(w)
                \/ /\ <<v.conns[k].from, n>> \in Edges(w)
                   /\ <<n, v.conns[k].to>> \in Edges(w)
  <2>1. v.conns[k] \in Range(v.conns)
    BY Zenon DEF Range
  <2>2. CASE v.conns[k] \in Range(w.conns)
    <3>1. PICK l \in DOMAIN w.conns : v.conns[k] = w.conns[l]
      BY <2>2, Zenon DEF Range
    <3> QED
      BY <3>1, EdgesAre
  <2>3. CASE \E d, e \in Range(w.conns) :
                d.to = n /\ e.from = n /\ v.conns[k].from = d.from
                /\ v.conns[k].port = d.port /\ v.conns[k].to = e.to
    <3>1. PICK d \in Range(w.conns), e \in Range(w.conns) :
                  d.to = n /\ e.from = n /\ v.conns[k].from = d.from
                  /\ v.conns[k].port = d.port /\ v.conns[k].to = e.to
      BY <2>3, Zenon
    <3>2. PICK l \in DOMAIN w.conns : d = w.conns[l]
      BY Zenon DEF Range
    <3>3. PICK m \in DOMAIN w.conns : e = w.conns[m]
      BY Zenon DEF Range
    <3>4. /\ <<w.conns[l].from, w.conns[l].to>> \in Edges(w)
          /\ <<w.conns[m].from, w.conns[m].to>> \in Edges(w)
      BY EdgesAre
    <3> QED
      BY <3>1, <3>2, <3>3, <3>4
  <2> QED
    BY <2>1, <2>2, <2>3, Zenon DEF Rerouted
<1>2. \A j \in DOMAIN v.nodes : \E k \in DOMAIN w.nodes : v.nodes[j] = w.nodes[k]
  BY Zenon DEF NodesOf
<1>3. Acyclic(Ids(v), Edges(v))
  <2>1. Ids(v) \in SUBSET Ids(w)
    <3>1. \A m : m \in Ids(v) => m \in Ids(w)
      BY <1>2, ByPosition
    <3> QED
      BY <3>1, Zenon
  <2>2. Shortcuts(Edges(w), n, Edges(v))
    <3> SUFFICES ASSUME NEW p, NEW m, <<p, m>> \in Edges(v)
                 PROVE  <<p, m>> \in Edges(w) \/ (<<p, n>> \in Edges(w) /\ <<n, m>> \in Edges(w))
      BY Zenon DEF Shortcuts
    <3>1. PICK k \in DOMAIN v.conns : v.conns[k].from = p /\ v.conns[k].to = m
      BY EdgesAre
    <3> QED
      BY <1>1, <3>1
  <2>3. Acyclic(Ids(w), Edges(w))
    BY Zenon DEF Runnable
  <2> QED
    BY <2>1, <2>2, <2>3, ShortcutsCloseNoCycle, Zenon
<1>4. PICK t \in DOMAIN w.nodes : \A k \in DOMAIN w.nodes : w.nodes[k].kind = "trigger" <=> k = t
  BY Zenon DEF Runnable, OneTrigger
<1>5. PICK s \in DOMAIN v.nodes : v.nodes[s] = w.nodes[t]
  BY <1>4, Zenon DEF NodesOf
<1>6. OneTrigger(v)
  <2>1. ASSUME NEW j \in DOMAIN v.nodes, v.nodes[j].kind = "trigger" PROVE j = s
    <3>1. PICK k \in DOMAIN w.nodes : v.nodes[j] = w.nodes[k]
      BY <1>2
    <3>2. v.nodes[j] = w.nodes[t]
      BY <1>4, <2>1, <3>1
    <3> QED
      BY <1>5, <3>2 DEF UniqueIds
  <2>2. v.nodes[s].kind = "trigger"
    BY <1>4, <1>5
  <2> QED
    BY <2>1, <2>2 DEF OneTrigger
<1>7. PortsExist(v)
  <2> SUFFICES ASSUME NEW k \in DOMAIN v.conns, NEW i \in DOMAIN v.nodes,
                      v.nodes[i].id = v.conns[k].from
               PROVE  PortOk(v.nodes[i], v.conns[k].port)
    BY Zenon DEF PortsExist
  <2>1. PICK l \in DOMAIN w.conns : /\ v.conns[k].from = w.conns[l].from
                                    /\ v.conns[k].port = w.conns[l].port
    BY <1>1
  <2>2. PICK j \in DOMAIN w.nodes : v.nodes[i] = w.nodes[j]
    BY <1>2
  <2>3. PortsExist(w)
    BY Zenon DEF Runnable
  <2>4. w.nodes[j].id = w.conns[l].from
    BY <2>1, <2>2
  <2>5. PortOk(w.nodes[j], w.conns[l].port)
    BY <2>3, <2>4, Zenon DEF PortsExist
  <2> QED
    BY <2>1, <2>2, <2>5
<1>8. ~SelfReference(v)
  <2>1. ~SelfReference(w)
    BY Zenon DEF Runnable
  <2>2. \A k \in DOMAIN w.nodes : ~(w.nodes[k].kind = "sub_workflow" /\ w.nodes[k].calls = "itself")
    BY <2>1, ByPosition
  <2>3. \A j \in DOMAIN v.nodes : ~(v.nodes[j].kind = "sub_workflow" /\ v.nodes[j].calls = "itself")
    BY <1>2, <2>2
  <2> QED
    BY <2>3, ByPosition
<1>9. ~TriggerHasIncoming(v)
  <2>1. ~TriggerHasIncoming(w)
    BY Zenon DEF Runnable
  <2>2. \A j \in DOMAIN w.nodes, k \in DOMAIN w.conns :
           ~(w.nodes[j].kind = "trigger" /\ w.conns[k].to = w.nodes[j].id)
    BY <2>1, ByPosition
  <2>3. ASSUME NEW j \in DOMAIN v.nodes, NEW k \in DOMAIN v.conns,
               v.nodes[j].kind = "trigger", v.conns[k].to = v.nodes[j].id
        PROVE  FALSE
    <3>1. PICK i \in DOMAIN w.nodes : v.nodes[j] = w.nodes[i]
      BY <1>2
    <3>2. PICK l \in DOMAIN w.conns : v.conns[k].to = w.conns[l].to
      BY <1>1
    <3> QED
      BY <2>2, <2>3, <3>1, <3>2
  <2> QED
    BY <2>3, ByPosition
<1>10. v.nodes # <<>>
  BY <1>5, IdsAre
<1> QED
  BY <1>3, <1>6, <1>7, <1>8, <1>9, <1>10 DEF Runnable

\* What is in two sequences, one after the other.
LEMMA InBoth ==
    ASSUME NEW X, NEW s \in Seq(X), NEW t \in Seq(X)
    PROVE  /\ s \o t \in Seq(X) /\ Len(s \o t) = Len(s) + Len(t)
           /\ Range(s \o t) = Range(s) \cup Range(t)
<1>1. /\ s \o t \in Seq(X) /\ Len(s) \in Nat /\ Len(t) \in Nat
      /\ DOMAIN s = 1..Len(s) /\ DOMAIN t = 1..Len(t)
      /\ DOMAIN (s \o t) = 1..(Len(s) + Len(t)) /\ Len(s \o t) = Len(s) + Len(t)
      /\ \A k \in 1..Len(s) : (s \o t)[k] = s[k]
      /\ \A k \in 1..Len(t) : (s \o t)[Len(s) + k] = t[k]
  OBVIOUS
<1> DEFINE u == s \o t
<1> HIDE DEF u
<1>2. ASSUME NEW k \in DOMAIN u PROVE u[k] \in Range(s) \cup Range(t)
  <2>1. CASE k <= Len(s)
    BY <1>1, <2>1 DEF Range, u
  <2>2. CASE ~(k <= Len(s))
    <3>1. k - Len(s) \in 1..Len(t) /\ Len(s) + (k - Len(s)) = k
      BY <1>1, <2>2 DEF u
    <3> QED
      BY <1>1, <3>1 DEF Range, u
  <2> QED
    BY <2>1, <2>2
<1>3. ASSUME NEW k \in DOMAIN s PROVE s[k] \in Range(u)
  BY <1>1, <1>3 DEF Range, u
<1>4. ASSUME NEW k \in DOMAIN t PROVE t[k] \in Range(u)
  <2>1. Len(s) + k \in DOMAIN u
    BY <1>1 DEF u
  <2> QED
    BY <1>1, <2>1 DEF Range, u
<1>5. Range(u) = Range(s) \cup Range(t)
  <2>1. \A x \in Range(u) : x \in Range(s) \cup Range(t)
    BY <1>2, Zenon DEF Range
  <2>2. \A x \in Range(s) : x \in Range(u)
    BY <1>3, Zenon DEF Range
  <2>3. \A x \in Range(t) : x \in Range(u)
    BY <1>4, Zenon DEF Range
  <2> QED
    BY <2>1, <2>2, <2>3, Zenon
<1> QED
  BY <1>1, <1>5 DEF u

\* u holds the nodes of w but for those with the id n.
Without(w, n, u) ==
    /\ u \in Seq(WorkflowNode) /\ Len(u) <= Len(w.nodes) /\ Len(u) \in Nat
    /\ n \in Ids(w) => Len(u) < Len(w.nodes)
    /\ \A j \in DOMAIN u : u[j].id # n /\ \E k \in DOMAIN w.nodes : u[j] = w.nodes[k]
    /\ \A k \in DOMAIN w.nodes :
          w.nodes[k].id # n => \E j \in DOMAIN u : u[j] = w.nodes[k]
    /\ UniqueIds(w) => \A j, l \in DOMAIN u : u[j].id = u[l].id => j = l

\* A node is taken out of a workflow, and no other.
LEMMA WithoutIs ==
    ASSUME NEW w \in Workflow, NEW n
    PROVE  Without(w, n, WithoutNode(w.nodes, n))
<1> DEFINE s == w.nodes
           I == {k \in DOMAIN s : s[k].id # n}
           u == WithoutNode(s, n)
<1>1. u = Only(s, I)
  BY DEF WithoutNode
<1>2. s \in Seq(WorkflowNode) /\ I \in SUBSET DOMAIN s /\ Len(s) \in Nat
      /\ IsFiniteSet(DOMAIN s) /\ Cardinality(DOMAIN s) = Len(s)
  BY IdsAre
<1>3. \A k : k \in I <=> k \in DOMAIN s /\ s[k].id # n
  OBVIOUS
<1> HIDE DEF I, u
<1>4. /\ u \in Seq(WorkflowNode) /\ Len(u) = Cardinality(I) /\ Cardinality(I) \in Nat
      /\ Cardinality(I) <= Len(s) /\ IsFiniteSet(I) /\ Picks(u, s, I)
      /\ Range(u) = {s[k] : k \in I}
  BY <1>1, <1>2, PickedFrom, Zenon
<1>5. ASSUME n \in Ids(w) PROVE Len(u) < Len(w.nodes)
  <2>1. I # DOMAIN s
    BY <1>3, <1>5, ByPosition
  <2>2. Cardinality(I) # Cardinality(DOMAIN s)
    BY <1>2, <2>1, FS_Subset
  <2> QED
    BY <1>2, <1>4, <2>2
<1>6. ASSUME NEW j \in DOMAIN u
      PROVE  u[j].id # n /\ \E k \in DOMAIN w.nodes : u[j] = w.nodes[k]
  <2>1. u[j] \in Range(u)
    BY Zenon DEF Range
  <2>2. PICK k \in I : u[j] = s[k]
    BY <1>4, <2>1
  <2> QED
    BY <1>3, <2>2
<1>7. ASSUME NEW k \in DOMAIN w.nodes, w.nodes[k].id # n PROVE \E j \in DOMAIN u : u[j] = w.nodes[k]
  <2>1. s[k] \in Range(u)
    BY <1>3, <1>4, <1>7
  <2> QED
    BY <2>1, Zenon DEF Range
<1>8. ASSUME UniqueIds(w), NEW j \in DOMAIN u, NEW l \in DOMAIN u, u[j].id = u[l].id
      PROVE  j = l
  <2>1. PICK at \in Bijection(1..Cardinality(I), I) : u = [k \in 1..Cardinality(I) |-> s[at[k]]]
    BY <1>4, Zenon DEF Picks
  <2>2. at \in [1..Cardinality(I) -> I]
        /\ \A k, m \in 1..Cardinality(I) : at[k] = at[m] => k = m
    BY <2>1, Zenon DEF Bijection, Injection, IsInjective
  <2>3. j \in 1..Cardinality(I) /\ l \in 1..Cardinality(I)
        /\ u[j] = s[at[j]] /\ u[l] = s[at[l]]
    BY <2>1
  <2>4. at[j] \in DOMAIN s /\ at[l] \in DOMAIN s /\ s[at[j]].id = s[at[l]].id
    BY <1>3, <1>8, <2>2, <2>3
  <2>5. at[j] = at[l]
    BY <1>8, <2>4 DEF UniqueIds
  <2> QED
    BY <2>2, <2>3, <2>5
<1> QED
  BY <1>4, <1>5, <1>6, <1>7, <1>8 DEF Without, u

\* The connections into a node, and out of it.
LEMMA AroundIs ==
    ASSUME NEW w \in Workflow, NEW n
    PROVE  /\ Into(w, n) \in Seq(Connection) /\ OutOf(w, n) \in Seq(Connection)
           /\ Apart(w.conns, n) \in Seq(Connection)
           /\ \A c \in Range(Into(w, n)) : c \in Range(w.conns) /\ c.to = n
           /\ \A c \in Range(OutOf(w, n)) : c \in Range(w.conns) /\ c.from = n
           /\ \A c \in Range(Apart(w.conns, n)) :
                 c \in Range(w.conns) /\ c.from # n /\ c.to # n
<1> DEFINE s == w.conns
           D == DOMAIN s
<1>1. s \in Seq(Connection)
  BY IdsAre
<1>2. ASSUME NEW I \in SUBSET D
      PROVE  /\ Only(s, I) \in Seq(Connection)
             /\ \A c \in Range(Only(s, I)) : c \in Range(s) /\ \E k \in I : c = s[k]
  <2>1. Only(s, I) \in Seq(Connection) /\ Range(Only(s, I)) = {s[k] : k \in I}
    BY <1>1, PickedFrom
  <2> QED
    BY <2>1, Zenon DEF Range
<1>3. {k \in D : s[k].to = n} \in SUBSET D /\ {k \in D : s[k].from = n} \in SUBSET D
      /\ {k \in D : n \notin {s[k].from, s[k].to}} \in SUBSET D
  BY Zenon
<1>4. /\ Into(w, n) \in Seq(Connection)
      /\ \A c \in Range(Into(w, n)) : c \in Range(w.conns) /\ c.to = n
  <2> DEFINE I == {k \in D : s[k].to = n}
  <2>1. Into(w, n) = Only(s, I)
    BY Zenon DEF Into
  <2>2. \A k \in I : s[k].to = n
    BY Zenon
  <2>3. I \in SUBSET D
    BY Zenon
  <2> HIDE DEF I
  <2> QED
    BY <1>2, <2>1, <2>2, <2>3
<1>5. /\ OutOf(w, n) \in Seq(Connection)
      /\ \A c \in Range(OutOf(w, n)) : c \in Range(w.conns) /\ c.from = n
  <2> DEFINE I == {k \in D : s[k].from = n}
  <2>1. OutOf(w, n) = Only(s, I)
    BY Zenon DEF OutOf
  <2>2. \A k \in I : s[k].from = n
    BY Zenon
  <2>3. I \in SUBSET D
    BY Zenon
  <2> HIDE DEF I
  <2> QED
    BY <1>2, <2>1, <2>2, <2>3
<1>6. /\ Apart(w.conns, n) \in Seq(Connection)
      /\ \A c \in Range(Apart(w.conns, n)) : c \in Range(w.conns) /\ c.from # n /\ c.to # n
  <2> DEFINE I == {k \in D : n \notin {s[k].from, s[k].to}}
  <2>1. Apart(w.conns, n) = Only(s, I)
    BY Zenon DEF Apart
  <2>2. \A k \in I : s[k].from # n /\ s[k].to # n
    BY Zenon
  <2>3. I \in SUBSET D
    BY Zenon
  <2> HIDE DEF I
  <2> QED
    BY <1>2, <2>1, <2>2, <2>3
<1> QED
  BY <1>4, <1>5, <1>6

\* What the connections into a node and out of it are bridged by.
LEMMA BridgedIs ==
    ASSUME NEW into \in Seq(Connection), NEW outof \in Seq(Connection)
    PROVE  /\ Bridged(into, outof) \in Seq(Connection)
           /\ \A c \in Range(Bridged(into, outof)) :
                 \E d \in Range(into), e \in Range(outof) :
                     c.from = d.from /\ c.port = d.port /\ c.to = e.to
<1> DEFINE pairs == EveryPair(into, outof)
           X == Range(into) \X Range(outof)
           u == Bridged(into, outof)
<1>1. pairs \in Seq(X)
  BY Paired
<1>2. u = [k \in DOMAIN pairs |-> Conn(pairs[k][1].from, pairs[k][1].port, pairs[k][2].to)]
  BY DEF Bridged
<1>3. (\A c \in Range(into) : c \in Connection) /\ (\A c \in Range(outof) : c \in Connection)
  BY DEF Range
<1> HIDE DEF pairs, X, u
<1>4. ASSUME NEW k \in DOMAIN pairs
      PROVE  /\ pairs[k][1] \in Range(into) /\ pairs[k][2] \in Range(outof)
             /\ u[k] = Conn(pairs[k][1].from, pairs[k][1].port, pairs[k][2].to)
  <2>1. pairs[k] \in X
    BY <1>1
  <2> QED
    BY <1>2, <2>1 DEF X
<1>a. \A from, port, to : /\ Conn(from, port, to).from = from
                           /\ Conn(from, port, to).port = port
                           /\ Conn(from, port, to).to = to
  BY DEF Conn
<1>b. \A d, e \in Connection : Conn(d.from, d.port, e.to) \in Connection
  BY DEF Conn, Connection
<1>5. ASSUME NEW k \in DOMAIN pairs PROVE u[k] \in Connection
  BY <1>3, <1>4, <1>b, Zenon
<1>6. DOMAIN pairs = 1..Len(pairs) /\ Len(pairs) \in Nat /\ DOMAIN u = DOMAIN pairs
  BY <1>1, <1>2
<1>7. u \in Seq(Connection)
  <2>1. u = [k \in 1..Len(pairs) |-> u[k]]
    BY <1>2, <1>6
  <2>2. u \in [1..Len(pairs) -> Connection]
    BY <1>5, <1>6, <2>1
  <2> QED
    BY <1>6, <2>2
<1>8. ASSUME NEW c \in Range(u)
      PROVE  \E d \in Range(into), e \in Range(outof) :
                 c.from = d.from /\ c.port = d.port /\ c.to = e.to
  <2>1. PICK k \in DOMAIN pairs : c = u[k]
    BY <1>6, <1>8, Zenon DEF Range
  <2>2. c.from = pairs[k][1].from /\ c.port = pairs[k][1].port /\ c.to = pairs[k][2].to
    <3>1. c = Conn(pairs[k][1].from, pairs[k][1].port, pairs[k][2].to)
      BY <1>4, <2>1
    <3> QED
      BY <1>a, <3>1
  <2> QED
    BY <1>4, <2>2
<1> QED
  BY <1>7, <1>8 DEF u

\* A passthrough that is taken out leaves a runnable workflow.
LEMMA RemoveKeeps ==
    ASSUME wf \in Workflow, Runnable(wf), NEW i \in DOMAIN wf.nodes, RemovePassthrough(i)
    PROVE  /\ wf' \in Workflow /\ Runnable(wf') /\ Len(wf'.nodes) <= Len(wf.nodes)
           /\ observe \in Ids(wf) => observe \in Ids(wf')
<1> DEFINE w == wf
           v == wf'
           n == w.nodes[i].id
           into == Into(w, n)
           outof == OutOf(w, n)
<1>1. /\ v = [w EXCEPT !.nodes = WithoutNode(@, n), !.conns = Apart(@, n) \o Bridged(into, outof)]
      /\ w.nodes[i].kind = "transform" /\ n # observe
  BY DEF RemovePassthrough
<1>2. w = [version |-> w.version, nodes |-> w.nodes, conns |-> w.conns]
  BY DEF Workflow
<1>w. Runnable(w) /\ w \in Workflow /\ i \in DOMAIN w.nodes
  OBVIOUS
<1> HIDE DEF w, v
<1>3. /\ v = [version |-> w.version, nodes |-> v.nodes, conns |-> v.conns]
      /\ v.version = w.version /\ v.nodes = WithoutNode(w.nodes, n)
      /\ v.conns = Apart(w.conns, n) \o Bridged(into, outof)
  BY <1>1, <1>2
<1>4. UniqueIds(w) /\ ConnsJoin(w) /\ Acyclic(Ids(w), Edges(w)) /\ w.version
  BY <1>w, Zenon DEF Runnable
<1>5. n \in Ids(w)
  BY <1>w, ByPosition
<1> HIDE DEF n, into, outof
<1>6. /\ v.nodes \in Seq(WorkflowNode) /\ Len(v.nodes) <= Len(w.nodes)
      /\ \A j \in DOMAIN v.nodes :
            v.nodes[j].id # n /\ \E k \in DOMAIN w.nodes : v.nodes[j] = w.nodes[k]
      /\ \A k \in DOMAIN w.nodes :
            w.nodes[k].id # n => \E j \in DOMAIN v.nodes : v.nodes[j] = w.nodes[k]
      /\ \A j, l \in DOMAIN v.nodes : v.nodes[j].id = v.nodes[l].id => j = l
  <2>1. Without(w, n, v.nodes)
    BY <1>w, <1>3, WithoutIs
  <2> QED
    BY <1>4, <2>1 DEF Without
<1>7. /\ into \in Seq(Connection) /\ outof \in Seq(Connection)
      /\ Apart(w.conns, n) \in Seq(Connection)
      /\ \A c \in Range(into) : c \in Range(w.conns) /\ c.to = n
      /\ \A c \in Range(outof) : c \in Range(w.conns) /\ c.from = n
      /\ \A c \in Range(Apart(w.conns, n)) : c \in Range(w.conns) /\ c.from # n /\ c.to # n
  BY <1>w, AroundIs DEF into, outof
<1>8. /\ Bridged(into, outof) \in Seq(Connection)
      /\ \A c \in Range(Bridged(into, outof)) :
            \E d \in Range(into), e \in Range(outof) :
                c.from = d.from /\ c.port = d.port /\ c.to = e.to
  BY <1>7, BridgedIs
<1>9. /\ v.conns \in Seq(Connection)
      /\ Range(v.conns) = Range(Apart(w.conns, n)) \cup Range(Bridged(into, outof))
  BY <1>3, <1>7, <1>8, InBoth
<1>10. v \in Workflow
  BY <1>w, <1>3, <1>6, <1>9, IdsAre DEF Workflow
<1>11. \A m \in Ids(w) : m # n => m \in Ids(v)
  <2> SUFFICES ASSUME NEW m \in Ids(w), m # n PROVE m \in Ids(v)
    OBVIOUS
  <2>1. PICK k \in DOMAIN w.nodes : w.nodes[k].id = m
    BY ByPosition
  <2>2. \E j \in DOMAIN v.nodes : v.nodes[j] = w.nodes[k]
    BY <1>6, <2>1
  <2> QED
    BY <2>1, <2>2, ByPosition
<1>12. ASSUME NEW c \in Range(w.conns) PROVE c.from \in Ids(w) /\ c.to \in Ids(w)
  BY <1>4, Zenon DEF ConnsJoin, Range
<1>13. <<n, n>> \notin Edges(w)
  <2>1. {n} \in (SUBSET Ids(w)) \ {{}}
    BY <1>5
  <2> QED
    BY <1>4, <2>1 DEF Acyclic
<1>14. \A c \in Range(w.conns) : ~(c.from = n /\ c.to = n)
  BY <1>13, Zenon DEF Edges
<1>15. ASSUME NEW c \in Range(v.conns)
       PROVE  Rerouted(w, n, c) /\ c.from \in Ids(v) /\ c.to \in Ids(v)
  <2>1. CASE c \in Range(Apart(w.conns, n))
    BY <1>7, <1>11, <1>12, <2>1, Zenon DEF Rerouted
  <2>2. CASE c \in Range(Bridged(into, outof))
    <3>1. PICK d \in Range(into), e \in Range(outof) :
                  c.from = d.from /\ c.port = d.port /\ c.to = e.to
      BY <1>8, <2>2, Zenon
    <3>2. d \in Range(w.conns) /\ d.to = n /\ e \in Range(w.conns) /\ e.from = n
      BY <1>7, <3>1
    <3>3. Rerouted(w, n, c)
      BY <3>1, <3>2, Zenon DEF Rerouted
    <3>4. d.from # n /\ e.to # n
      BY <1>14, <3>2
    <3>5. c.from \in Ids(v) /\ c.to \in Ids(v)
      BY <1>11, <1>12, <3>1, <3>2, <3>4
    <3> QED
      BY <3>3, <3>5
  <2> QED
    BY <1>9, <2>1, <2>2
<1>16. UniqueIds(v)
  BY <1>6, Zenon DEF UniqueIds
<1>17. ConnsJoin(v)
  BY <1>15, Zenon DEF ConnsJoin, Range
<1>18. NodesOf(w, v)
  <2>1. ASSUME NEW k \in DOMAIN w.nodes, w.nodes[k].kind = "trigger"
        PROVE  \E j \in DOMAIN v.nodes : v.nodes[j] = w.nodes[k]
    <3>1. w.nodes[k].id # n
      BY <1>w, <1>1, <1>4, <2>1 DEF UniqueIds, n
    <3> QED
      BY <1>6, <3>1
  <2> QED
    BY <1>6, <2>1 DEF NodesOf
<1>19. Runnable(v)
  <2>1. v.version
    BY <1>3, <1>4
  <2> QED
    BY <1>w, <1>5, <1>10, <1>15, <1>16, <1>17, <1>18, <2>1, ReroutedIsRunnable
<1>20. observe \in Ids(w) => observe \in Ids(v)
  BY <1>1, <1>11
<1> QED
  BY <1>6, <1>10, <1>19, <1>20 DEF w, v

\* A finite set is listed by a sequence of its elements.
LEMMA SetListed ==
    ASSUME NEW X, NEW S \in SUBSET X, IsFiniteSet(S)
    PROVE  SetToSeq(S) \in Seq(X) /\ \A x \in Range(SetToSeq(S)) : x \in S
<1> DEFINE n == Cardinality(S)
           u == SetToSeq(S)
<1>1. n \in Nat /\ ExistsBijection(1..n, S)
  BY FS_CardinalityType
<1>2. \E f \in [1..n -> S] : IsInjective(f)
  BY <1>1, Zenon DEF ExistsBijection, Bijection, Injection
<1>3. u \in [1..n -> S]
  BY <1>2, Zenon DEF SetToSeq
<1> HIDE DEF n, u
<1>4. u \in Seq(X) /\ DOMAIN u = 1..n
  BY <1>1, <1>3
<1>5. \A x \in Range(u) : x \in S
  BY <1>3, <1>4 DEF Range
<1> QED
  BY <1>4, <1>5 DEF u

\* What is in a sequence, and what is made of it one by one, is finite.
LEMMA InListFinite ==
    ASSUME NEW X, NEW s \in Seq(X), NEW g
    PROVE  IsFiniteSet(Range(s)) /\ IsFiniteSet({g[x] : x \in Range(s)})
<1>1. DOMAIN s = 1..Len(s) /\ Len(s) \in Nat
  OBVIOUS
<1>2. IsFiniteSet(DOMAIN s)
  <2>1. \A m \in Nat : IsFiniteSet(1..m)
    BY FS_Interval
  <2> QED
    BY <1>1, <2>1
<1> DEFINE R == Range(s)
           T == {g[x] : x \in R}
           f == [x \in R |-> g[x]]
<1>3. s \in Surjection(DOMAIN s, R)
  <2>1. s \in [DOMAIN s -> R] /\ \A x \in R : \E k \in DOMAIN s : s[k] = x
    BY DEF Range
  <2> QED
    BY <2>1 DEF Surjection
<1> HIDE DEF R
<1>4. IsFiniteSet(R)
  BY <1>2, <1>3, FS_Surjection
<1>5. f \in Surjection(R, T)
  BY DEF Surjection
<1>6. IsFiniteSet(T)
  BY <1>4, <1>5, FS_Surjection
<1> QED
  BY <1>4, <1>6 DEF R

\* Running b beside a leaves a runnable workflow of the same nodes.
LEMMA ParallelizeKeeps ==
    ASSUME wf \in Workflow, Runnable(wf), NEW edge \in SerialIndependent(wf),
           wf' = Parallelized(wf, edge)
    PROVE  wf' \in Workflow /\ Runnable(wf') /\ wf'.nodes = wf.nodes
<1> DEFINE w == wf
           v == wf'
           start == edge.from
           I == {k \in DOMAIN w.conns : w.conns[k] # edge}
           kept == Only(w.conns, I)
           into == Into(w, start)
           added == {Conn(c.from, c.port, edge.to) : c \in Range(into)}
           more == SetToSeq(added \ Range(kept))
<1>1. v = [w EXCEPT !.conns = kept \o more]
  BY DEF Parallelized
<1>2. w = [version |-> w.version, nodes |-> w.nodes, conns |-> w.conns]
  BY DEF Workflow
<1>w. Runnable(w) /\ w \in Workflow
  OBVIOUS
<1>3. edge \in Range(w.conns)
  BY Zenon DEF SerialIndependent
<1>4. kept \in Seq(Connection) /\ \A c \in Range(kept) : c \in Range(w.conns)
  <2>1. w.conns \in Seq(Connection) /\ I \in SUBSET DOMAIN w.conns
    BY IdsAre
  <2> HIDE DEF I
  <2>2. kept \in Seq(Connection) /\ Range(kept) = {w.conns[k] : k \in I}
    BY <2>1, PickedFrom
  <2> QED
    BY <2>1, <2>2, Zenon DEF Range
<1> HIDE DEF w, v, kept
<1>5. into \in Seq(Connection) /\ \A c \in Range(into) : c \in Range(w.conns) /\ c.to = start
  BY <1>w, AroundIs
<1> HIDE DEF into
<1>6. \A c \in Range(w.conns) : c \in Connection /\ c.from \in Ids(w) /\ c.to \in Ids(w)
  <2>1. ConnsJoin(w)
    BY <1>w, Zenon DEF Runnable
  <2>2. \A k \in DOMAIN w.conns :
           /\ w.conns[k] \in Connection
           /\ w.conns[k].from \in Ids(w) /\ w.conns[k].to \in Ids(w)
    BY <1>w, <2>1, IdsAre DEF ConnsJoin
  <2> QED
    BY <2>2, Zenon DEF Range
<1>7. \A c \in Range(into) : Conn(c.from, c.port, edge.to) \in Connection
  <2>1. \A d, e \in Connection : Conn(d.from, d.port, e.to) \in Connection
    BY DEF Conn, Connection
  <2> QED
    BY <1>3, <1>5, <1>6, <2>1
<1>8. IsFiniteSet(added) /\ added \in SUBSET Connection
  <2> DEFINE g == [c \in Range(into) |-> Conn(c.from, c.port, edge.to)]
  <2>1. IsFiniteSet({g[c] : c \in Range(into)})
    BY <1>5, InListFinite
  <2>2. added = {g[c] : c \in Range(into)}
    BY Zenon
  <2> QED
    BY <1>7, <2>1, <2>2
<1>9. more \in Seq(Connection) /\ \A c \in Range(more) : c \in added
  <2> HIDE DEF added
  <2>1. IsFiniteSet(added \ Range(kept)) /\ added \ Range(kept) \in SUBSET Connection
    BY <1>8, FS_Subset
  <2>2. more \in Seq(Connection) /\ \A c \in Range(more) : c \in added \ Range(kept)
    BY <2>1, SetListed, Zenon
  <2> QED
    BY <2>2, Zenon
<1> HIDE DEF more
<1>10. v.conns = kept \o more /\ v.nodes = w.nodes /\ v.version = w.version
       /\ v = [version |-> v.version, nodes |-> v.nodes, conns |-> v.conns]
  BY <1>1, <1>2
<1>11. v.conns \in Seq(Connection) /\ Range(v.conns) = Range(kept) \cup Range(more)
  BY <1>4, <1>9, <1>10, InBoth
<1>12. v \in Workflow
  BY <1>w, <1>10, <1>11, IdsAre DEF Workflow
<1>13. Ids(v) = Ids(w)
  BY <1>10, Zenon DEF Ids
<1>14. ASSUME NEW c \in Range(v.conns)
       PROVE  Rerouted(w, start, c) /\ c.from \in Ids(v) /\ c.to \in Ids(v)
  <2>1. CASE c \in Range(kept)
    BY <1>4, <1>6, <1>13, <2>1, Zenon DEF Rerouted
  <2>2. CASE c \in Range(more)
    <3>1. PICK d \in Range(into) : c = Conn(d.from, d.port, edge.to)
      BY <1>9, <2>2
    <3>2. c.from = d.from /\ c.port = d.port /\ c.to = edge.to
      BY <3>1 DEF Conn
    <3>3. d \in Range(w.conns) /\ d.to = start
      BY <1>5
    <3> QED
      BY <1>3, <1>6, <1>13, <3>2, <3>3, Zenon DEF Rerouted
  <2> QED
    BY <1>11, <2>1, <2>2
<1>15. UniqueIds(v)
  BY <1>w, <1>10, Zenon DEF UniqueIds, Runnable
<1>16. ConnsJoin(v)
  BY <1>14, Zenon DEF ConnsJoin, Range
<1>17. NodesOf(w, v)
  BY <1>10, Zenon DEF NodesOf
<1>18. v.version /\ start \in Ids(w)
  BY <1>w, <1>3, <1>6, <1>10 DEF Runnable
<1>19. Runnable(v)
  BY <1>w, <1>12, <1>14, <1>15, <1>16, <1>17, <1>18, ReroutedIsRunnable
<1> QED
  BY <1>10, <1>12, <1>19 DEF v, w

-----------------------------------------------------------------------------
(* Compositions. *)

\* Prefixes change no more than the ids.
LEMMA PrefixedIs ==
    ASSUME NEW nodes \in Seq(WorkflowNode), NEW conns \in Seq(Connection)
    PROVE  /\ Prefixed(nodes, A) \in Seq(WorkflowNode) /\ Len(Prefixed(nodes, A)) = Len(nodes)
           /\ Prefixed(nodes, B) \in Seq(WorkflowNode) /\ Len(Prefixed(nodes, B)) = Len(nodes)
           /\ PrefixedConns(conns, A) \in Seq(Connection)
           /\ PrefixedConns(conns, B) \in Seq(Connection)
<1>1. \A n \in Nat : A(n) \in Nat /\ B(n) \in Nat
  BY DEF A, B
<1>2. /\ DOMAIN nodes = 1..Len(nodes) /\ Len(nodes) \in Nat
      /\ DOMAIN conns = 1..Len(conns) /\ Len(conns) \in Nat
      /\ \A i \in DOMAIN nodes : nodes[i] \in WorkflowNode
      /\ \A i \in DOMAIN conns : conns[i] \in Connection
  OBVIOUS
<1>3. \A x \in WorkflowNode, n \in Nat : x.id \in Nat /\ [x EXCEPT !.id = n] \in WorkflowNode
  BY DEF WorkflowNode
<1>4. \A c \in Connection, m, n \in Nat :
         c.from \in Nat /\ c.to \in Nat /\ Conn(m, c.port, n) \in Connection
  BY DEF Connection, Conn
<1>5. \A i \in DOMAIN nodes : /\ [nodes[i] EXCEPT !.id = A(nodes[i].id)] \in WorkflowNode
                              /\ [nodes[i] EXCEPT !.id = B(nodes[i].id)] \in WorkflowNode
  BY <1>1, <1>2, <1>3
<1>6. \A i \in DOMAIN conns :
         /\ Conn(A(conns[i].from), conns[i].port, A(conns[i].to)) \in Connection
         /\ Conn(B(conns[i].from), conns[i].port, B(conns[i].to)) \in Connection
  BY <1>1, <1>2, <1>4
<1>7. /\ Prefixed(nodes, A) \in [1..Len(nodes) -> WorkflowNode]
      /\ Prefixed(nodes, B) \in [1..Len(nodes) -> WorkflowNode]
  BY <1>2, <1>5, Zenon DEF Prefixed
<1>8. /\ PrefixedConns(conns, A) \in [1..Len(conns) -> Connection]
      /\ PrefixedConns(conns, B) \in [1..Len(conns) -> Connection]
  BY <1>2, <1>6, Zenon DEF PrefixedConns
<1>9. \A X : \A n \in Nat : \A f \in [1..n -> X] : f \in Seq(X) /\ Len(f) = n
  OBVIOUS
<1> QED
  BY <1>2, <1>7, <1>8, <1>9

\* What joins the first workflow to the second.
LEMMA JoinedIs ==
    ASSUME NEW ends \in Seq(WorkflowNode), NEW entries \in Seq(Connection)
    PROVE  Joined(ends, entries) \in Seq(Connection)
<1> DEFINE pairs == EveryPair(ends, entries)
           X == Range(ends) \X Range(entries)
           u == Joined(ends, entries)
<1>1. pairs \in Seq(X)
  BY Paired
<1>2. u = [k \in DOMAIN pairs |-> Conn(A(pairs[k][1].id), 0, B(pairs[k][2].to))]
  BY Zenon DEF Joined
<1>3. (\A x \in Range(ends) : x \in WorkflowNode) /\ (\A c \in Range(entries) : c \in Connection)
  BY DEF Range
<1>4. \A x \in WorkflowNode, c \in Connection : Conn(A(x.id), 0, B(c.to)) \in Connection
  BY DEF Conn, A, B, WorkflowNode, Connection
<1> HIDE DEF pairs, X, u
<1>5. DOMAIN pairs = 1..Len(pairs) /\ Len(pairs) \in Nat
  BY <1>1
<1>6. \A k \in DOMAIN pairs : pairs[k][1] \in Range(ends) /\ pairs[k][2] \in Range(entries)
  BY <1>1 DEF X
<1>7. u \in [1..Len(pairs) -> Connection]
  BY <1>2, <1>3, <1>4, <1>5, <1>6
<1> QED
  BY <1>5, <1>7 DEF u

\* A composition is a workflow, of all nodes of the first and all but the trigger of the
\* second.
LEMMA ComposedIs ==
    ASSUME NEW a \in Workflow, NEW b \in Workflow, TriggerNodes(b) # {}
    PROVE  Composed(a, b) \in Workflow
           /\ Len(Composed(a, b).nodes) <= Len(a.nodes) + Len(b.nodes) - 1
<1> DEFINE start == TriggerId(b)
           I == {k \in DOMAIN b.conns : b.conns[k].from # start}
           J == {k \in DOMAIN a.nodes : \A c \in Range(a.conns) : c.from # a.nodes[k].id}
           rest == Only(b.conns, I)
           left == WithoutNode(b.nodes, start)
           ends == Terminals(a)
           entries == OutOf(b, start)
           nodes == Prefixed(a.nodes, A) \o Prefixed(left, B)
           conns == (PrefixedConns(a.conns, A) \o PrefixedConns(rest, B)) \o Joined(ends, entries)
<1>1. Composed(a, b) = [version |-> TRUE, nodes |-> nodes, conns |-> conns]
  BY Zenon DEF Composed
<1>2. /\ a.nodes \in Seq(WorkflowNode) /\ a.conns \in Seq(Connection)
      /\ b.nodes \in Seq(WorkflowNode) /\ b.conns \in Seq(Connection)
      /\ Len(a.nodes) \in Nat /\ Len(b.nodes) \in Nat
  BY IdsAre
<1>3. start \in Ids(b)
  BY TriggerIs, ByPosition DEF TriggerNodes
<1>4. rest \in Seq(Connection)
  <2>1. I \in SUBSET DOMAIN b.conns
    OBVIOUS
  <2> HIDE DEF I
  <2> QED
    BY <1>2, <2>1, PickedFrom
<1>5. ends \in Seq(WorkflowNode)
  <2>1. J \in SUBSET DOMAIN a.nodes
    BY Zenon
  <2>2. ends = Only(a.nodes, J)
    BY Zenon DEF Terminals
  <2> HIDE DEF J
  <2> QED
    BY <1>2, <2>1, <2>2, PickedFrom
<1>6. left \in Seq(WorkflowNode) /\ Len(left) \in Nat /\ Len(left) < Len(b.nodes)
  <2>1. Without(b, start, left)
    BY WithoutIs
  <2> QED
    BY <1>3, <2>1 DEF Without
<1>7. entries \in Seq(Connection)
  BY AroundIs
<1> HIDE DEF start, rest, left, ends, entries
<1>8. nodes \in Seq(WorkflowNode) /\ Len(nodes) = Len(a.nodes) + Len(left)
  <2> DEFINE u == Prefixed(a.nodes, A)
             t == Prefixed(left, B)
  <2>1. u \in Seq(WorkflowNode) /\ Len(u) = Len(a.nodes)
    BY <1>2, PrefixedIs
  <2>2. t \in Seq(WorkflowNode) /\ Len(t) = Len(left)
    BY <1>2, <1>6, PrefixedIs
  <2> HIDE DEF u, t
  <2>3. u \o t \in Seq(WorkflowNode) /\ Len(u \o t) = Len(u) + Len(t)
    BY <2>1, <2>2, InBoth
  <2> QED
    BY <2>1, <2>2, <2>3 DEF u, t
<1>9. conns \in Seq(Connection)
  <2>1. PrefixedConns(a.conns, A) \o PrefixedConns(rest, B) \in Seq(Connection)
    BY <1>2, <1>4, PrefixedIs, InBoth
  <2>2. Joined(ends, entries) \in Seq(Connection)
    BY <1>5, <1>7, JoinedIs
  <2> QED
    BY <2>1, <2>2, InBoth
<1> HIDE DEF nodes, conns
<1>10. Composed(a, b) \in Workflow /\ Composed(a, b).nodes = nodes
  BY <1>1, <1>8, <1>9 DEF Workflow
<1> QED
  <2>1. Len(Composed(a, b).nodes) = Len(a.nodes) + Len(left)
    BY <1>8, <1>10, Zenon
  <2>2. Len(a.nodes) + Len(left) <= Len(a.nodes) + Len(b.nodes) - 1
    <3>1. \A x, y, z \in Nat : y < z => x + y <= x + z - 1
      OBVIOUS
    <3> QED
      BY <1>2, <1>6, <3>1
  <2> QED
    BY <1>10, <2>1, <2>2

-----------------------------------------------------------------------------
(* The rewrites, one after the other. *)

\* The inductive invariant: what is rewritten is a workflow of the types, no larger than
\* the bound, and what was found valid is valid still.
RewritesInv == TypeOK /\ StaysValid

\* A workflow that is submitted has not been looked at yet.
LEMMA RewritesStart ==
    ASSUME Init
    PROVE  RewritesInv
<1>1. wf \in Workflow /\ Len(wf.nodes) <= MaxNodes /\ MaxSteps \in Nat
  BY RewritesAssumption DEF Init
<1> QED
  BY <1>1 DEF RewritesInv, TypeOK, StaysValid, Init

\* Every rewrite of a valid workflow leaves a valid one, within the bound.
LEMMA RewriteKeeps ==
    ASSUME RewritesInv, Rewrite
    PROVE  /\ RewritesInv'
           /\ op'.name # "compose" /\ observe \in Ids(wf) => observe' \in Ids(wf')
<1>1. /\ wf \in Workflow /\ Runnable(wf) /\ Len(wf.nodes) \in Nat
      /\ Len(wf.nodes) <= MaxNodes /\ MaxNodes \in Nat /\ verdict = "valid" /\ IsValid(wf)
  BY ValidMeans, IdsAre, RewritesAssumption DEF RewritesInv, TypeOK, StaysValid, Rewrite
<1>2. steps' \in 0..MaxSteps /\ verdict' = "valid"
  BY <1>1, RewritesAssumption DEF RewritesInv, TypeOK, Rewrite
<1> DEFINE Kept == wf' \in Workflow /\ IsValid(wf') /\ Len(wf'.nodes) <= MaxNodes
           Seen == op'.name # "compose" /\ observe \in Ids(wf) => observe' \in Ids(wf')
<1> SUFFICES Kept /\ Seen
  <2>1. ASSUME Kept PROVE RewritesInv'
    BY <1>2, <2>1 DEF RewritesInv, TypeOK, StaysValid
  <2> QED
    BY <2>1
<1>3. ASSUME wf' \in Workflow, Runnable(wf'), Len(wf'.nodes) <= MaxNodes PROVE Kept
  BY <1>3, ValidMeans
<1>4. CASE \E i \in DOMAIN wf.nodes : SetTransformField(i)
  <2>1. PICK i \in DOMAIN wf.nodes : SetTransformField(i)
    BY <1>4
  <2>2. wf' \in Workflow /\ Runnable(wf') /\ Len(wf'.nodes) = Len(wf.nodes)
        /\ Ids(wf) \subseteq Ids(wf')
    BY <1>1, <2>1, SetFieldKeeps
  <2>3. observe' = observe
    BY <2>1 DEF SetTransformField
  <2> QED
    BY <1>1, <1>3, <2>2, <2>3
<1>5. CASE \E i \in DOMAIN wf.conns : InsertPassthrough(i)
  <2>1. PICK i \in DOMAIN wf.conns : InsertPassthrough(i)
    BY <1>5
  <2>2. wf' \in Workflow /\ Runnable(wf') /\ Len(wf'.nodes) = 1 + Len(wf.nodes)
        /\ Ids(wf) \subseteq Ids(wf')
    BY <1>1, <2>1, InsertKeeps
  <2>3. observe' = observe /\ Len(wf.nodes) < MaxNodes
    BY <2>1 DEF InsertPassthrough
  <2> QED
    BY <1>1, <1>3, <2>2, <2>3
<1>6. CASE \E i \in DOMAIN wf.nodes : RemovePassthrough(i)
  <2>1. PICK i \in DOMAIN wf.nodes : RemovePassthrough(i)
    BY <1>6
  <2>2. wf' \in Workflow /\ Runnable(wf') /\ Len(wf'.nodes) <= Len(wf.nodes)
        /\ (observe \in Ids(wf) => observe \in Ids(wf'))
    BY <1>1, <2>1, RemoveKeeps
  <2>3. observe' = observe
    BY <2>1 DEF RemovePassthrough
  <2>4. Len(wf'.nodes) \in Nat
    BY <2>2, IdsAre
  <2> QED
    BY <1>1, <1>3, <2>2, <2>3, <2>4
<1>7. CASE \E b \in Skills : Compose(b)
  <2>1. PICK b \in Skills : Compose(b)
    BY <1>7
  <2>2. b.wf \in Workflow
    BY RewritesAssumption
  <2>3. op'.name = "compose"
    BY <2>1 DEF Compose
  <2>4. CASE Composable(wf, b.wf) /\ IsValid(Composed(wf, b.wf))
    <3>1. wf' = Composed(wf, b.wf) /\ Len(wf.nodes) + Len(b.wf.nodes) <= MaxNodes + 1
      BY <2>1, <2>4 DEF Compose
    <3>2. wf' \in Workflow /\ Len(wf'.nodes) <= Len(wf.nodes) + Len(b.wf.nodes) - 1
      BY <1>1, <2>2, <2>4, <3>1, ComposedIs DEF Composable
    <3>3. Len(wf'.nodes) \in Nat /\ Len(b.wf.nodes) \in Nat
      BY <2>2, <3>2, IdsAre
    <3>4. Len(wf'.nodes) <= MaxNodes
      <4>1. \A x, y, z, m \in Nat : x + y <= m + 1 /\ z <= x + y - 1 => z <= m
        OBVIOUS
      <4> QED
        BY <1>1, <3>1, <3>2, <3>3, <4>1
    <3> QED
      BY <2>3, <2>4, <3>1, <3>2, <3>4
  <2>5. CASE ~(Composable(wf, b.wf) /\ IsValid(Composed(wf, b.wf)))
    <3>1. wf' = wf
      BY <2>1, <2>5, Zenon DEF Compose
    <3> QED
      BY <1>1, <2>3, <3>1
  <2> QED
    BY <2>4, <2>5
<1>8. CASE \E edge \in SerialIndependent(wf), latency \in [Ids(wf) -> 0..1] :
              Parallelize(edge, latency)
  <2>1. PICK edge \in SerialIndependent(wf), latency \in [Ids(wf) -> 0..1] :
                Parallelize(edge, latency)
    BY <1>8
  <2>2. wf' = Parallelized(wf, edge) /\ observe' = observe
    BY <2>1 DEF Parallelize
  <2>3. wf' \in Workflow /\ Runnable(wf') /\ wf'.nodes = wf.nodes
    BY <1>1, <2>2, ParallelizeKeeps
  <2>4. Ids(wf') = Ids(wf)
    BY <2>3, Zenon DEF Ids
  <2> QED
    BY <1>1, <1>3, <2>2, <2>3, <2>4
<1> QED
  BY <1>4, <1>5, <1>6, <1>7, <1>8 DEF Rewrite

\* Every step keeps the invariant, and the search its node.
LEMMA RewritesStepKeeps ==
    ASSUME RewritesInv, [Next]_vars
    PROVE  RewritesInv' /\ (ObservedStays \/ UNCHANGED vars)
<1>1. CASE Rewrite
  <2>1. RewritesInv'
        /\ (op'.name # "compose" /\ observe \in Ids(wf) => observe' \in Ids(wf'))
    BY <1>1, RewriteKeeps
  <2> QED
    BY <2>1, Zenon DEF ObservedStays
<1>2. CASE Validate
  <2>1. /\ wf' = wf /\ observe' = observe /\ steps' = steps
        /\ verdict' = IF IsValid(wf) THEN "valid" ELSE "invalid"
    BY <1>2 DEF Validate
  <2>2. RewritesInv'
    BY <2>1 DEF RewritesInv, TypeOK, StaysValid
  <2>3. ObservedStays
    BY <2>1, Zenon DEF ObservedStays
  <2> QED
    BY <2>2, <2>3
<1>3. CASE UNCHANGED vars
  <2>1. wf' = wf /\ verdict' = verdict /\ steps' = steps
    BY <1>3 DEF vars
  <2>2. RewritesInv'
    BY <2>1 DEF RewritesInv, TypeOK, StaysValid
  <2> QED
    BY <1>3, <2>2
<1> QED
  BY <1>1, <1>2, <1>3 DEF Next

\* What was found valid can be run, and the validator warns of what is never fed.
LEMMA InvIsSound ==
    ASSUME RewritesInv
    PROVE  WorkflowsSound
<1>1. wf \in Workflow
  BY DEF RewritesInv, TypeOK
<1>2. ASSUME verdict = "valid" PROVE IsValid(wf) /\ Runnable(wf)
  BY <1>1, <1>2, ValidMeans DEF RewritesInv, StaysValid
<1>3. AcceptedIsRunnable
  <2> SUFFICES ASSUME verdict = "valid"
               PROVE  /\ \A i, j \in DOMAIN wf.nodes : wf.nodes[i].id = wf.nodes[j].id => i = j
                      /\ Cardinality({i \in DOMAIN wf.nodes : wf.nodes[i].kind = "trigger"}) = 1
                      /\ \A c \in Range(wf.conns) : {c.from, c.to} \subseteq Ids(wf)
                      /\ \A S \in (SUBSET Ids(wf)) \ {{}} :
                            \E n \in S : \A p \in S : <<p, n>> \notin Edges(wf)
    BY Zenon DEF AcceptedIsRunnable
  <2>1. Runnable(wf)
    BY <1>2
  <2>2. \A i, j \in DOMAIN wf.nodes : wf.nodes[i].id = wf.nodes[j].id => i = j
    BY <2>1, Zenon DEF Runnable, UniqueIds
  <2>3. Cardinality({i \in DOMAIN wf.nodes : wf.nodes[i].kind = "trigger"}) = 1
    <3>1. ~NotOneTrigger(wf)
      BY <1>1, <2>1, TriggerIs DEF Runnable
    <3> QED
      BY <3>1, Zenon DEF NotOneTrigger, TriggerNodes
  <2>4. \A c \in Range(wf.conns) : {c.from, c.to} \subseteq Ids(wf)
    <3>1. \A c \in Range(wf.conns) : c.from \in Ids(wf) /\ c.to \in Ids(wf)
      BY <2>1, Zenon DEF Runnable, ConnsJoin, Range
    <3> QED
      BY <3>1
  <2>5. \A S \in (SUBSET Ids(wf)) \ {{}} : \E n \in S : \A p \in S : <<p, n>> \notin Edges(wf)
    BY <2>1, Zenon DEF Runnable, Acyclic
  <2> QED
    BY <2>2, <2>3, <2>4, <2>5
<1>4. WarnedIfNeverFed
  <2> SUFFICES ASSUME verdict = "valid", "unreachable_node" \notin Report(wf),
                      NEW S \in SUBSET Ids(wf),
                      \A n \in Ids(wf) : Node(wf, n).kind = "trigger" => n \in S,
                      \A e \in Edges(wf) : e[1] \in S => e[2] \in S
               PROVE  Ids(wf) \subseteq S
    BY Zenon DEF WarnedIfNeverFed
  <2>1. Runnable(wf) /\ Ids(wf) \subseteq Reachable(wf)
    BY <1>1, <1>2, ValidMeans
  <2>2. PICK t \in TriggerNodes(wf) : TriggerId(wf) = wf.nodes[t].id
    <3>1. TriggerNodes(wf) # {}
      BY <2>1, Zenon DEF Runnable, OneTrigger, TriggerNodes
    <3> QED
      BY <1>1, <3>1, TriggerIs
  <2>3. TriggerId(wf) \in S
    <3>1. t \in DOMAIN wf.nodes /\ wf.nodes[t].kind = "trigger"
      BY <2>2, Zenon DEF TriggerNodes
    <3>2. Node(wf, wf.nodes[t].id) = wf.nodes[t]
      BY <1>1, <2>1, <3>1, NodeIs DEF Runnable
    <3>3. wf.nodes[t].id \in Ids(wf)
      BY <3>1, ByPosition
    <3> QED
      BY <2>2, <3>1, <3>2, <3>3
  <2>4. ValidEdges(wf) = Edges(wf)
    BY <1>1, <2>1, PortsAre DEF Runnable
  <2>5. Reachable(wf) \subseteq S
    <3>1. Cardinality(Ids(wf)) \in Nat
      BY <1>1, IdsAre
    <3>2. \A e \in ValidEdges(wf) : e[1] \in S => e[2] \in S
      BY <2>4
    <3> QED
      BY <2>3, <3>1, <3>2, ReachedOnly, Zenon
  <2> QED
    BY <2>1, <2>5, Zenon
<1> QED
  BY <1>3, <1>4 DEF WorkflowsSound, RewritesInv

\* The workflow is always of its types, and valid if it was found to be.
THEOREM RewritesCorrect == Spec => []RewritesInv
<1>1. Init => RewritesInv
  BY RewritesStart
<1>2. RewritesInv /\ [Next]_vars => RewritesInv'
  BY RewritesStepKeeps
<1> QED
  BY <1>1, <1>2, PTL DEF Spec

\* What the validator accepts can be run, is warned of what is never fed, and stays valid
\* under every rewrite.
THEOREM RewritesAreSound == Spec => []WorkflowsSound
<1>1. RewritesInv => WorkflowsSound
  BY InvIsSound
<1> QED
  BY <1>1, RewritesCorrect, PTL

\* No mutation of the search, and no suggestion of the optimizer, loses the node whose
\* output is looked at.
THEOREM ObservedIsKept == Spec => [][ObservedStays]_vars
<1>1. RewritesInv /\ [Next]_vars => [ObservedStays]_vars
  BY RewritesStepKeeps
<1> QED
  BY <1>1, RewritesCorrect, PTL DEF Spec

-----------------------------------------------------------------------------
(* The loop: finding the document in what the model says. *)

\* What an answer is made of.
Tokens == {"open", "close", "line", "fence", "prose"}

\* s holds the document d after a tokens, with nothing like a brace around it.
Holds(s, a, d) ==
    /\ s \in Seq(Tokens) /\ d \in Seq(Tokens) /\ a \in Nat
    /\ a + Len(d) <= Len(s)
    /\ \A i \in 1..Len(d) : s[a + i] = d[i]
    /\ \A i \in 1..Len(s) : i <= a \/ i > a + Len(d) => s[i] \notin {"open", "close"}

\* What Documents are assumed to be.
IsDocument(d) ==
    d \in Seq(Tokens) /\ Len(d) >= 2 /\ d[1] = "open" /\ d[Len(d)] = "close"

\* The first of a token is where it stands and does not stand before.
LEMMA FirstIs ==
    ASSUME NEW s \in Seq(Tokens), NEW token, NEW k \in 1..Len(s), s[k] = token,
           \A i \in 1..(k - 1) : s[i] # token
    PROVE  FirstOf(s, token) = k /\ IsIn(token, s)
<1> DEFINE S == {i \in DOMAIN s : s[i] = token} \cup {Len(s) + 1}
<1>1. Len(s) \in Nat /\ DOMAIN s = 1..Len(s)
  OBVIOUS
<1>2. k \in S /\ \A y \in S : y \in Nat /\ k <= y
  BY <1>1
<1>3. \A x \in S : (\A y \in S : x <= y) => x = k
  BY <1>2
<1> HIDE DEF S
<1>4. Min(S) = k
  BY <1>2, <1>3 DEF Min
<1>5. FirstOf(s, token) = k
  BY <1>4 DEF FirstOf, S
<1>6. IsIn(token, s)
  BY <1>1 DEF IsIn, Range
<1> QED
  BY <1>5, <1>6

\* The last of a token is where it stands and does not stand after.
LEMMA LastIs ==
    ASSUME NEW s \in Seq(Tokens), NEW token, NEW k \in 1..Len(s), s[k] = token,
           \A i \in (k + 1)..Len(s) : s[i] # token
    PROVE  LastOf(s, token) = k /\ IsIn(token, s)
<1> DEFINE S == {i \in DOMAIN s : s[i] = token} \cup {0}
<1>1. Len(s) \in Nat /\ DOMAIN s = 1..Len(s)
  OBVIOUS
<1>2. k \in S /\ \A y \in S : y \in Nat /\ y <= k
  BY <1>1
<1>3. \A x \in S : (\A y \in S : x >= y) => x = k
  BY <1>2
<1> HIDE DEF S
<1>4. Max(S) = k
  BY <1>2, <1>3 DEF Max
<1>5. LastOf(s, token) = k
  BY <1>4 DEF LastOf, S
<1>6. IsIn(token, s)
  BY <1>1 DEF IsIn, Range
<1> QED
  BY <1>5, <1>6

\* From the first opening brace to the last closing one: the document.
LEMMA CutOut ==
    ASSUME NEW s, NEW a, NEW d, Holds(s, a, d), IsDocument(d)
    PROVE  /\ IsIn("open", s) /\ FirstOf(s, "open") <= LastOf(s, "close")
           /\ SubSeq(s, FirstOf(s, "open"), LastOf(s, "close")) = d
<1> DEFINE n == Len(d)
<1>1. /\ s \in Seq(Tokens) /\ d \in Seq(Tokens) /\ a \in Nat /\ n \in Nat /\ n >= 2
      /\ Len(s) \in Nat /\ a + n <= Len(s)
  BY DEF Holds, IsDocument
<1>2. FirstOf(s, "open") = a + 1 /\ IsIn("open", s)
  <2>1. s[a + 1] = "open"
    <3>1. 1 \in 1..n /\ d[1] = "open"
      BY <1>1 DEF IsDocument
    <3>2. \A i \in 1..n : s[a + i] = d[i]
      BY DEF Holds
    <3> QED
      BY <3>1, <3>2
  <2>2. \A i \in 1..a : s[i] # "open"
    BY <1>1 DEF Holds
  <2>3. a + 1 \in 1..Len(s) /\ (a + 1) - 1 = a
    BY <1>1
  <2> QED
    BY <1>1, <2>1, <2>2, <2>3, FirstIs
<1>3. LastOf(s, "close") = a + n
  <2>1. s[a + n] = "close"
    <3>1. n \in 1..n /\ d[n] = "close"
      BY <1>1 DEF IsDocument
    <3>2. \A i \in 1..n : s[a + i] = d[i]
      BY DEF Holds
    <3> QED
      BY <3>1, <3>2
  <2>2. \A i \in (a + n + 1)..Len(s) : s[i] # "close"
    BY <1>1 DEF Holds
  <2>3. a + n \in 1..Len(s)
    BY <1>1
  <2> QED
    BY <1>1, <2>1, <2>2, <2>3, LastIs
<1>4. SubSeq(s, a + 1, a + n) = d
  <2>1. /\ SubSeq(s, a + 1, a + n) \in Seq(Tokens)
        /\ Len(SubSeq(s, a + 1, a + n)) = n
        /\ \A i \in 1..n : SubSeq(s, a + 1, a + n)[i] = s[a + i]
    BY <1>1
  <2>2. \A i \in 1..n : SubSeq(s, a + 1, a + n)[i] = d[i]
    BY <2>1 DEF Holds
  <2> QED
    BY <1>1, <2>1, <2>2
<1> QED
  BY <1>1, <1>2, <1>3, <1>4

\* Without line breaks at its ends, a text stays as it is.
LEMMA NothingTrimmed ==
    ASSUME NEW s \in Seq(Tokens), Len(s) > 0, s[1] # "line", s[Len(s)] # "line"
    PROVE  Trimmed(s) = s
BY DEF Trimmed

\* A line break before or after a document is trimmed.
LEMMA Wrapped ==
    ASSUME NEW d, IsDocument(d)
    PROVE  /\ Trimmed(<<"line">> \o d) = d
           /\ Trimmed(d \o <<"line">>) = d
<1>1. d \in Seq(Tokens) /\ Len(d) \in Nat /\ Len(d) >= 2
  BY DEF IsDocument
<1>2. Trimmed(<<"line">> \o d) = d
  <2> DEFINE s == <<"line">> \o d
  <2>1. /\ s \in Seq(Tokens) /\ Len(s) = Len(d) + 1 /\ s[1] = "line"
        /\ \A i \in 1..Len(d) : s[1 + i] = d[i]
    BY <1>1 DEF Tokens
  <2> HIDE DEF s
  <2>2. Tail(s) = d
    <3>1. /\ Tail(s) \in Seq(Tokens) /\ Len(Tail(s)) = Len(d)
          /\ \A i \in 1..Len(d) : Tail(s)[i] = s[i + 1]
      BY <1>1, <2>1
    <3> QED
      BY <1>1, <2>1, <3>1
  <2>3. s # <<>> /\ Head(s) = "line" /\ d # <<>> /\ d[Len(d)] # "line"
    BY <1>1, <2>1 DEF IsDocument
  <2> QED
    BY <2>2, <2>3 DEF Trimmed, s
<1>3. Trimmed(d \o <<"line">>) = d
  <2> DEFINE s == d \o <<"line">>
  <2>1. /\ s \in Seq(Tokens) /\ Len(s) = Len(d) + 1 /\ s[Len(d) + 1] = "line"
        /\ \A i \in 1..Len(d) : s[i] = d[i]
    BY <1>1 DEF Tokens
  <2> HIDE DEF s
  <2>2. Front(s) = d
    <3>1. /\ Front(s) \in Seq(Tokens) /\ Len(Front(s)) = Len(d)
          /\ \A i \in 1..Len(d) : Front(s)[i] = s[i]
      BY <1>1, <2>1 DEF Front
    <3> QED
      BY <1>1, <2>1, <3>1
  <2>3. s # <<>> /\ Head(s) # "line" /\ s[Len(s)] = "line"
    BY <1>1, <2>1 DEF IsDocument
  <2> QED
    BY <2>2, <2>3 DEF Trimmed, s
<1> QED
  BY <1>2, <1>3

\* A text that does not begin with a fence is not looked into for one.
LEMMA NotFenced ==
    ASSUME NEW s \in Seq(Tokens), Len(s) > 0, s[1] # "fence"
    PROVE  StripCodeFence(s) = s
BY DEF StripCodeFence

\* A document on its own is found.
LEMMA BareFound ==
    ASSUME NEW d, IsDocument(d)
    PROVE  ExtractJson(<<"line">> \o d) = d
<1>1. d \in Seq(Tokens) /\ Len(d) \in Nat /\ Len(d) >= 2 /\ d[1] # "fence"
  BY DEF IsDocument
<1>2. Trimmed(<<"line">> \o d) = d /\ StripCodeFence(d) = d
  BY <1>1, Wrapped, NotFenced
<1>3. Holds(d, 0, d)
  BY <1>1 DEF Holds
<1> QED
  BY <1>2, <1>3, CutOut DEF ExtractJson

\* One sequence of tokens after another.
LEMMA OneAfterAnother ==
    ASSUME NEW s \in Seq(Tokens), NEW t \in Seq(Tokens)
    PROVE  /\ s \o t \in Seq(Tokens) /\ Len(s \o t) = Len(s) + Len(t)
           /\ \A i \in 1..Len(s) : (s \o t)[i] = s[i]
           /\ \A i \in 1..Len(t) : (s \o t)[Len(s) + i] = t[i]
OBVIOUS

\* So is one with prose on both sides.
LEMMA ProseFound ==
    ASSUME NEW d, IsDocument(d), NEW before \in Seq({"prose", "line", "fence"}),
           NEW after \in Seq({"prose", "line", "fence"}), Len(before) > 0, Len(after) > 0,
           before[1] = "prose", after[Len(after)] = "prose"
    PROVE  ExtractJson(before \o d \o after) = d
<1> DEFINE s == before \o d \o after
           a == Len(before)
           n == Len(d)
           b == Len(after)
<1>1. /\ d \in Seq(Tokens) /\ n \in Nat /\ n >= 2 /\ a \in Nat /\ b \in Nat /\ a > 0 /\ b > 0
      /\ before \in Seq(Tokens) /\ after \in Seq(Tokens)
  BY DEF IsDocument, Tokens
<1>2. /\ s \in Seq(Tokens) /\ Len(s) = a + n + b
      /\ \A i \in 1..a : s[i] = before[i]
      /\ \A i \in 1..n : s[a + i] = d[i]
      /\ \A i \in 1..b : s[a + n + i] = after[i]
  <2>1. /\ before \o d \in Seq(Tokens) /\ Len(before \o d) = a + n
        /\ \A i \in 1..a : (before \o d)[i] = before[i]
        /\ \A i \in 1..n : (before \o d)[a + i] = d[i]
    BY <1>1
  <2> DEFINE c == before \o d
  <2> HIDE DEF c
  <2>2. /\ c \in Seq(Tokens) /\ Len(c) = a + n
        /\ \A i \in 1..a : c[i] = before[i]
        /\ \A i \in 1..n : c[a + i] = d[i]
    BY <2>1 DEF c
  <2>3. /\ c \o after \in Seq(Tokens) /\ Len(c \o after) = Len(c) + Len(after)
        /\ \A i \in 1..Len(c) : (c \o after)[i] = c[i]
        /\ \A i \in 1..Len(after) : (c \o after)[Len(c) + i] = after[i]
    BY <1>1, <2>2, OneAfterAnother
  <2>4. s = c \o after
    BY DEF c
  <2> HIDE DEF s, a, n
  <2> QED
    BY <1>1, <2>2, <2>3, <2>4
<1>0. /\ \A i \in 1..a : before[i] \notin {"open", "close"}
      /\ \A i \in 1..b : after[i] \notin {"open", "close"}
  BY DEF Tokens
<1>3. s[1] = "prose" /\ s[Len(s)] = "prose"
  <2>1. s[1] = before[1] /\ s[a + n + b] = after[b]
    BY <1>1, <1>2
  <2> QED
    BY <1>2, <2>1
<1> HIDE DEF s, a, n, b
<1>4. Len(s) > 0 /\ Len(s) \in Nat
  BY <1>1, <1>2
<1>5. Trimmed(s) = s /\ StripCodeFence(s) = s
  BY <1>2, <1>3, <1>4, NothingTrimmed, NotFenced
<1>6. Holds(s, a, d)
  <2>1. ASSUME NEW i \in 1..Len(s), i <= a \/ i > a + n
        PROVE  s[i] \notin {"open", "close"}
    <3>1. CASE i <= a
      <4>1. i \in 1..a
        BY <1>1, <3>1
      <4> QED
        BY <1>0, <1>2, <4>1
    <3>2. CASE i > a + n
      <4>1. i - (a + n) \in 1..b /\ i = a + n + (i - (a + n))
        BY <1>1, <1>2, <3>2
      <4> QED
        BY <1>0, <1>2, <4>1
    <3> QED
      BY <2>1, <3>1, <3>2
  <2> QED
    BY <1>1, <1>2, <2>1 DEF Holds, n
<1>7. SubSeq(s, FirstOf(s, "open"), LastOf(s, "close")) = d /\ IsIn("open", s)
      /\ FirstOf(s, "open") <= LastOf(s, "close")
  BY <1>6, CutOut
<1>8. ExtractJson(s) = d
  BY <1>5, <1>7 DEF ExtractJson
<1> QED
  BY <1>8 DEF s

\* And one between fences on lines of their own; the document may hold fences.
LEMMA FencedFound ==
    ASSUME NEW d, IsDocument(d)
    PROVE  ExtractJson(<<"fence", "prose", "line">> \o d \o <<"line", "fence">>) = d
<1> DEFINE n == Len(d)
           c == <<"fence", "prose", "line">> \o d
           s == <<"fence", "prose", "line">> \o d \o <<"line", "fence">>
           body == SubSeq(s, 4, Len(s))
           cut == SubSeq(body, 1, n + 1)
<1>1. d \in Seq(Tokens) /\ n \in Nat /\ n >= 2
  BY DEF IsDocument
<1>2. /\ c \in Seq(Tokens) /\ Len(c) = n + 3
      /\ c[1] = "fence" /\ c[2] = "prose" /\ c[3] = "line"
      /\ \A i \in 1..n : c[3 + i] = d[i]
  BY <1>1 DEF Tokens
<1>3. s = c \o <<"line", "fence">>
  OBVIOUS
<1> HIDE DEF c, s, n
<1>4. /\ s \in Seq(Tokens) /\ Len(s) = n + 5
      /\ s[1] = "fence" /\ s[2] = "prose" /\ s[3] = "line"
      /\ \A i \in 1..n : s[3 + i] = d[i]
      /\ s[n + 4] = "line" /\ s[n + 5] = "fence"
  <2>1. /\ s \in Seq(Tokens) /\ Len(s) = n + 5
        /\ \A i \in 1..(n + 3) : s[i] = c[i]
        /\ s[n + 4] = "line" /\ s[n + 5] = "fence"
    BY <1>1, <1>2, <1>3 DEF Tokens
  <2>2. /\ 1 \in 1..(n + 3) /\ 2 \in 1..(n + 3) /\ 3 \in 1..(n + 3)
        /\ \A i \in 1..n : 3 + i \in 1..(n + 3)
    BY <1>1
  <2> QED
    BY <1>2, <2>1, <2>2
<1>5. FirstOf(s, "line") = 3 /\ IsIn("line", s)
  <2>1. 3 \in 1..Len(s) /\ \A i \in 1..(3 - 1) : s[i] # "line"
    BY <1>1, <1>4
  <2> QED
    BY <1>4, <2>1, FirstIs
<1>6. /\ body \in Seq(Tokens) /\ Len(body) = n + 2
      /\ \A i \in 1..n : body[i] = d[i]
      /\ body[n + 1] = "line" /\ body[n + 2] = "fence"
  <2>1. /\ body \in Seq(Tokens) /\ Len(body) = n + 2
        /\ \A i \in 1..(n + 2) : body[i] = s[i + 3]
    BY <1>1, <1>4
  <2> HIDE DEF body
  <2> QED
    BY <1>1, <1>4, <2>1
<1> HIDE DEF body
<1>7. LastOf(body, "fence") = n + 2 /\ IsIn("fence", body)
  <2>1. n + 2 \in 1..Len(body) /\ \A i \in ((n + 2) + 1)..Len(body) : body[i] # "fence"
    BY <1>1, <1>6
  <2> QED
    BY <1>6, <2>1, LastIs
<1>8. cut = d \o <<"line">>
  <2>1. /\ cut \in Seq(Tokens) /\ Len(cut) = n + 1
        /\ \A i \in 1..(n + 1) : cut[i] = body[i]
    BY <1>1, <1>6
  <2>2. /\ d \o <<"line">> \in Seq(Tokens) /\ Len(d \o <<"line">>) = n + 1
        /\ \A i \in 1..n : (d \o <<"line">>)[i] = d[i]
        /\ (d \o <<"line">>)[n + 1] = "line"
    BY <1>1 DEF Tokens, n
  <2> DEFINE e == d \o <<"line">>
  <2> HIDE DEF cut, e
  <2>3. \A i \in 1..(n + 1) : cut[i] = e[i]
    BY <1>1, <1>6, <2>1, <2>2 DEF e
  <2> QED
    BY <1>1, <2>1, <2>2, <2>3 DEF e
<1>9. Trimmed(cut) = d
  BY <1>8, Wrapped
<1> HIDE DEF cut
<1>10. Trimmed(s) = s
  BY <1>1, <1>4, NothingTrimmed
<1>11. StripCodeFence(s) = d
  <2>1. s # <<>> /\ Head(s) = "fence"
    BY <1>1, <1>4
  <2>2. body = SubSeq(s, FirstOf(s, "line") + 1, Len(s))
    BY <1>5 DEF body
  <2>3. cut = SubSeq(body, 1, LastOf(body, "fence") - 1)
    <3>1. LastOf(body, "fence") - 1 = n + 1
      BY <1>1, <1>7
    <3> QED
      BY <3>1 DEF cut
  <2> QED
    BY <1>5, <1>7, <1>9, <2>1, <2>2, <2>3 DEF StripCodeFence
<1>12. Holds(d, 0, d)
  BY <1>1 DEF Holds, n
<1>13. ExtractJson(s) = d
  BY <1>10, <1>11, <1>12, CutOut DEF ExtractJson
<1> QED
  BY <1>13 DEF s

\* A document is found in what a model usually says.
LEMMA UsuallyFound ==
    ASSUME NEW d, IsDocument(d), NEW wrapper \in {"bare", "prose", "fenced", "prose_fenced"}
    PROVE  ExtractJson(Raw(wrapper, d)) = d
<1>1. CASE wrapper = "bare"
  BY <1>1, BareFound DEF Raw
<1>2. CASE wrapper = "prose"
  <2> DEFINE before == <<"prose", "line">>
             after == <<"line", "prose">>
  <2>1. /\ before \in Seq({"prose", "line", "fence"}) /\ after \in Seq({"prose", "line", "fence"})
        /\ Len(before) > 0 /\ Len(after) > 0
        /\ before[1] = "prose" /\ after[Len(after)] = "prose"
    OBVIOUS
  <2>2. Raw(wrapper, d) = before \o d \o after
    BY <1>2 DEF Raw
  <2> HIDE DEF before, after
  <2> QED
    BY <2>1, <2>2, ProseFound
<1>3. CASE wrapper = "fenced"
  BY <1>3, FencedFound DEF Raw
<1>4. CASE wrapper = "prose_fenced"
  <2> DEFINE before == <<"prose", "line", "fence", "line">>
             after == <<"line", "fence", "prose">>
  <2>1. /\ before \in Seq({"prose", "line", "fence"}) /\ after \in Seq({"prose", "line", "fence"})
        /\ Len(before) > 0 /\ Len(after) > 0
        /\ before[1] = "prose" /\ after[Len(after)] = "prose"
    OBVIOUS
  <2>2. Raw(wrapper, d) = before \o d \o after
    BY <1>4 DEF Raw
  <2> HIDE DEF before, after
  <2> QED
    BY <2>1, <2>2, ProseFound
<1> QED
  BY <1>1, <1>2, <1>3, <1>4

-----------------------------------------------------------------------------
(* The loop: its attempts, and what comes of them. *)

\* The attempts whose answers were workflows, and -1.
ParsedIn(record) ==
    {i - 1 : i \in {j \in DOMAIN record : record[j].failure # "parse"}} \cup {-1}

\* w is the greatest number of S.
Greatest(w, S) == w \in S /\ \A v \in S : v \in Int /\ v <= w

\* The caller's number of attempts, unless it wraps around.
AttemptsKept ==
    /\ repairs \in AskedFor /\ attempt \in Nat /\ attempt <= repairs
    /\ stage \in {"asking", "answered", "parsed", "checked", "over"}
    /\ stage # "over" => /\ repairs + 1 < Width
                        /\ Len(iterations) = attempt /\ outcome = Pending

\* What was recorded, and what the model is asked next.
RecordKept ==
    /\ iterations \in Seq([failure : {"none"} \cup Failures, quality : Qualities])
    /\ message.about \in {"prompt"} \cup Failures
    /\ message.attempt \in Int /\ -1 <= message.attempt /\ message.attempt <= attempt
    /\ stage = "asking" /\ attempt > 0 =>
          message.attempt = attempt - 1 /\ message.about = iterations[attempt].failure

\* What the answer at hand has passed, and the last one that was a workflow.
AnswerKept ==
    /\ answer \in Answers \cup {NoAnswer}
    /\ stage \in {"answered", "parsed", "checked"} => answer \in Answers
    /\ stage \in {"parsed", "checked"} => answer.quality # "no_workflow" /\ lastParsed = attempt
    /\ stage = "checked" => answer.quality # "unsound"
    /\ lastParsed \in Int /\ -1 <= lastParsed /\ lastParsed <= attempt
    /\ stage \in {"asking", "answered"} => Greatest(lastParsed, ParsedIn(iterations))

\* What the caller gets.
EndKept ==
    stage = "over" =>
       \/ /\ outcome.kind = "transport_error" /\ Len(iterations) <= repairs
       \/ /\ outcome.kind = "failure"
          /\ Len(iterations) <= repairs + 1
          /\ repairs # Width - 1 =>
                /\ Len(iterations) = repairs + 1
                /\ Greatest(outcome.workflow, ParsedIn(iterations))
       \/ /\ outcome.kind = "success" /\ answer.quality = "good"
          /\ outcome.workflow = Len(iterations) - 1
          /\ Len(iterations) <= repairs + 1

\* The inductive invariant of the loop.
AuthorInv == AttemptsKept /\ RecordKept /\ AnswerKept /\ EndKept

\* Before the first answer, no attempt has given a workflow.
LEMMA ParsedOfNone == Greatest(-1, ParsedIn(<<>>))
BY DEF Greatest, ParsedIn

\* The last attempt that gave a workflow, after one more answer.
LEMMA ParsedOfMore ==
    ASSUME NEW record, NEW X, record \in Seq(X), NEW e \in X, NEW w, NEW v,
           IF e.failure = "parse" THEN Greatest(w, ParsedIn(record)) /\ v = w
           ELSE v = Len(record)
    PROVE  Greatest(v, ParsedIn(Append(record, e)))
<1> DEFINE more == Append(record, e)
<1>1. /\ more \in Seq(X) /\ Len(more) = Len(record) + 1 /\ Len(record) \in Nat
      /\ \A i \in 1..Len(record) : more[i] = record[i]
      /\ more[Len(record) + 1] = e
  OBVIOUS
<1>2. DOMAIN record = 1..Len(record) /\ DOMAIN more = 1..(Len(record) + 1)
  BY <1>1
<1> HIDE DEF more
<1>3. CASE e.failure = "parse"
  <2>1. {j \in DOMAIN more : more[j].failure # "parse"} = {j \in DOMAIN record : record[j].failure # "parse"}
    BY <1>1, <1>2, <1>3
  <2>2. ParsedIn(more) = ParsedIn(record)
    BY <2>1, Zenon DEF ParsedIn
  <2> QED
    BY <1>3, <2>2 DEF more
<1>4. CASE e.failure # "parse"
  <2>1. Len(record) \in ParsedIn(more)
    <3>1. Len(record) + 1 \in {j \in DOMAIN more : more[j].failure # "parse"}
      BY <1>1, <1>2, <1>4
    <3>2. Len(record) = (Len(record) + 1) - 1
      BY <1>1
    <3> QED
      BY <3>1, <3>2, Zenon DEF ParsedIn
  <2>2. \A x \in ParsedIn(more) : x \in Int /\ x <= Len(record)
    BY <1>1, <1>2 DEF ParsedIn
  <2> QED
    BY <1>4, <2>1, <2>2 DEF Greatest, more
<1> QED
  BY <1>3, <1>4

\* One attempt and the repairs, unless their number wraps around to none.
LEMMA AttemptsCount ==
    ASSUME NEW r \in AskedFor
    PROVE  /\ r \in Nat /\ Width \in Nat /\ r < Width
           /\ r + 1 < Width => TotalAttempts(r) = r + 1
           /\ r + 1 = Width => TotalAttempts(r) = 0
           /\ r + 1 < Width \/ r = Width - 1
<1>1. r \in Nat /\ Width \in Nat /\ r < Width
  BY AuthorAssumption DEF AuthorAssumption
<1>2. \A w \in Nat \ {0} : \A k \in 0..(w - 1) : k % w = k
  OBVIOUS
<1>3. r + 1 < Width => TotalAttempts(r) = r + 1
  BY <1>1, <1>2 DEF TotalAttempts
<1>4. Width % Width = 0
  BY <1>1
<1> QED
  BY <1>1, <1>3, <1>4 DEF TotalAttempts

\* The loop begins with the prompt, or, when its number of attempts wraps around, is over.
LEMMA AuthorStarts == AuthorInit => AuthorInv
<1> SUFFICES ASSUME AuthorInit PROVE AuthorInv
  OBVIOUS
<1>1. repairs \in AskedFor /\ attempt = 0 /\ iterations = <<>> /\ lastParsed = -1 /\ answer = NoAnswer
      /\ message = [about |-> "prompt", attempt |-> -1]
  BY DEF AuthorInit
<1>2. \/ repairs + 1 < Width /\ stage = "asking" /\ outcome = Pending
      \/ repairs = Width - 1 /\ stage = "over" /\ outcome = [kind |-> "failure", workflow |-> -1]
  BY <1>1, AttemptsCount DEF AuthorInit
<1>3. repairs \in Nat
  BY <1>1, AttemptsCount
<1>4. AttemptsKept
  BY <1>1, <1>2, <1>3 DEF AttemptsKept
<1>5. RecordKept
  BY <1>1 DEF RecordKept
<1>6. AnswerKept
  BY <1>1, <1>2, ParsedOfNone DEF AnswerKept
<1>7. EndKept
  BY <1>1, <1>2, <1>3 DEF EndKept
<1> QED
  BY <1>4, <1>5, <1>6, <1>7 DEF AuthorInv

\* A failure, and what it makes of the loop.
LEMMA AgainKeeps ==
    ASSUME AuthorInv, NEW failure \in Failures, Again(failure, lastParsed),
           stage \in {"answered", "parsed", "checked"},
           IF failure = "parse" THEN stage = "answered" ELSE stage # "answered"
    PROVE  AuthorInv'
<1> USE DEF AuthorInv
<1> DEFINE e == [failure |-> failure, quality |-> answer.quality]
           X == [failure : {"none"} \cup Failures, quality : Qualities]
<1>1. /\ iterations' = Append(iterations, e) /\ message' = [about |-> failure, attempt |-> attempt]
      /\ lastParsed' = lastParsed /\ repairs' = repairs /\ answer' = answer
  BY DEF Again
<1>2. e \in X /\ iterations \in Seq(X) /\ answer \in Answers
  BY DEF AnswerKept, RecordKept, Answers
<1>3. /\ repairs \in Nat /\ attempt \in Nat /\ attempt <= repairs /\ repairs + 1 < Width
      /\ Width \in Nat /\ TotalAttempts(repairs) = repairs + 1 /\ Len(iterations) = attempt
      /\ outcome = Pending /\ repairs \in AskedFor
  BY AttemptsCount DEF AttemptsKept
<1>4. Greatest(lastParsed, ParsedIn(iterations'))
  <2>1. CASE failure = "parse"
    BY <1>1, <1>2, <2>1, ParsedOfMore DEF AnswerKept
  <2>2. CASE failure # "parse"
    BY <1>1, <1>2, <1>3, <2>2, ParsedOfMore DEF AnswerKept
  <2> QED
    BY <2>1, <2>2
<1>5. /\ iterations' \in Seq(X) /\ Len(iterations') = attempt + 1
      /\ iterations'[attempt + 1].failure = failure
  BY <1>1, <1>2, <1>3
<1>6. \/ attempt < repairs /\ attempt' = attempt + 1 /\ stage' = "asking" /\ outcome' = Pending
      \/ /\ attempt = repairs /\ attempt' = attempt /\ stage' = "over"
         /\ outcome' = [kind |-> "failure", workflow |-> lastParsed]
  BY <1>3 DEF Again
<1>7. AttemptsKept'
  BY <1>1, <1>3, <1>5, <1>6 DEF AttemptsKept
<1>8. RecordKept'
  BY <1>1, <1>3, <1>5, <1>6 DEF RecordKept
<1>9. AnswerKept'
  BY <1>1, <1>2, <1>3, <1>4, <1>6 DEF AnswerKept
<1>10. EndKept'
  BY <1>1, <1>3, <1>4, <1>5, <1>6 DEF EndKept
<1> QED
  BY <1>7, <1>8, <1>9, <1>10

\* Every step of the loop keeps the invariant.
LEMMA AuthorStepKeeps == AuthorInv /\ [AuthorStep]_authorVars => AuthorInv'
<1> SUFFICES ASSUME AuthorInv, [AuthorStep]_authorVars PROVE AuthorInv'
  OBVIOUS
<1> USE DEF AuthorInv
<1>0. /\ stage # "over" => /\ repairs \in Nat /\ attempt \in Nat /\ attempt <= repairs
                          /\ repairs + 1 < Width /\ Width \in Nat
                          /\ Len(iterations) = attempt /\ outcome = Pending
  BY AttemptsCount DEF AttemptsKept
<1>1. CASE Complete
  <2> USE <1>1 DEF Complete
  <2>1. AttemptsKept' /\ RecordKept'
    BY DEF AttemptsKept, RecordKept
  <2>2. AnswerKept' /\ EndKept'
    BY DEF AnswerKept, EndKept
  <2> QED
    BY <2>1, <2>2
<1>2. CASE TransportFails
  <2> USE <1>2 DEF TransportFails
  <2>1. AttemptsKept' /\ RecordKept'
    BY DEF AttemptsKept, RecordKept
  <2>2. AnswerKept' /\ EndKept'
    BY <1>0 DEF AnswerKept, EndKept
  <2> QED
    BY <2>1, <2>2
<1>3. CASE ParseAnswer
  <2>1. CASE Parses(answer)
    <3>1. /\ stage = "answered" /\ stage' = "parsed" /\ lastParsed' = attempt
          /\ answer.quality # "no_workflow"
          /\ UNCHANGED <<attempt, repairs, message, answer, iterations, outcome>>
      BY <1>3, <2>1 DEF ParseAnswer, Parses
    <3>2. AttemptsKept' /\ RecordKept'
      BY <3>1 DEF AttemptsKept, RecordKept
    <3>3. AnswerKept' /\ EndKept'
      BY <1>0, <3>1 DEF AnswerKept, EndKept
    <3> QED
      BY <3>2, <3>3
  <2>2. CASE ~Parses(answer)
    BY <1>3, <2>2, AgainKeeps DEF ParseAnswer, Failures
  <2> QED
    BY <2>1, <2>2
<1>4. CASE ValidateAnswer
  <2>1. CASE answer.quality # "unsound"
    <3>1. /\ stage = "parsed" /\ stage' = "checked"
          /\ UNCHANGED <<attempt, repairs, message, answer, lastParsed, iterations, outcome>>
      BY <1>4, <2>1 DEF ValidateAnswer
    <3>2. AttemptsKept' /\ RecordKept'
      BY <3>1 DEF AttemptsKept, RecordKept
    <3>3. AnswerKept' /\ EndKept'
      BY <2>1, <3>1 DEF AnswerKept, EndKept
    <3> QED
      BY <3>2, <3>3
  <2>2. CASE answer.quality = "unsound"
    BY <1>4, <2>2, AgainKeeps DEF ValidateAnswer, Failures
  <2> QED
    BY <2>1, <2>2
<1>5. CASE DryRunAnswer
  <2>1. CASE answer.quality # "stuck"
    <3>1. /\ stage = "checked" /\ stage' = "over"
          /\ outcome' = [kind |-> "success", workflow |-> attempt]
          /\ iterations' = Append(iterations, [failure |-> "none", quality |-> answer.quality])
          /\ UNCHANGED <<attempt, repairs, message, answer, lastParsed>>
      BY <1>5, <2>1 DEF DryRunAnswer
    <3>2. answer \in Answers /\ answer.quality = "good"
      BY <2>1, <3>1 DEF AnswerKept, Answers, Qualities
    <3>3. /\ iterations' \in Seq([failure : {"none"} \cup Failures, quality : Qualities])
          /\ Len(iterations') = attempt + 1
      BY <1>0, <3>1, <3>2 DEF RecordKept, Qualities
    <3>4. AttemptsKept'
      BY <3>1 DEF AttemptsKept
    <3>5. RecordKept'
      BY <3>1, <3>3 DEF RecordKept
    <3>6. AnswerKept'
      BY <3>1 DEF AnswerKept
    <3>7. EndKept'
      BY <1>0, <3>1, <3>2, <3>3 DEF EndKept
    <3> QED
      BY <3>4, <3>5, <3>6, <3>7
  <2>2. CASE answer.quality = "stuck"
    BY <1>5, <2>2, AgainKeeps DEF DryRunAnswer, Failures
  <2> QED
    BY <2>1, <2>2
<1>6. CASE UNCHANGED authorVars
  BY <1>6 DEF authorVars, AttemptsKept, RecordKept, AnswerKept, EndKept
<1> QED
  BY <1>1, <1>2, <1>3, <1>4, <1>5, <1>6 DEF AuthorStep

\* The loop always counts, records and judges as the invariant says.
THEOREM AuthorCorrect == AuthorSpec => []AuthorInv
BY AuthorStarts, AuthorStepKeeps, PTL DEF AuthorSpec

\* A document is found in what a model usually says, a success is a good workflow, the loop
\* gives up after as many attempts as were asked for, and repairs the last failure.
THEOREM AuthorIsSound == AuthorSpec => []AuthorSound
<1>1. AuthorInv => AuthorSound
  <2> SUFFICES ASSUME AuthorInv PROVE AuthorSound
    OBVIOUS
  <2> USE DEF AuthorInv
  <2>0. /\ repairs \in AskedFor /\ repairs \in Nat /\ Width \in Nat /\ repairs < Width
        /\ attempt \in Nat /\ attempt <= repairs
    BY AttemptsCount DEF AttemptsKept
  <2>1. AuthorTypeOK
    <3>1. attempt \in 0..(Width - 1) /\ message.attempt \in -1..attempt /\ lastParsed \in -1..attempt
      BY <2>0 DEF RecordKept, AnswerKept
    <3>2. \A i \in DOMAIN iterations :
             iterations[i].failure \in {"none"} \cup Failures /\ iterations[i].quality \in Qualities
      <4> DEFINE X == [failure : {"none"} \cup Failures, quality : Qualities]
      <4>1. iterations \in Seq(X) /\ \A x \in X : x.failure \in {"none"} \cup Failures /\ x.quality \in Qualities
        BY DEF RecordKept
      <4> HIDE DEF X
      <4>2. \A i \in DOMAIN iterations : iterations[i] \in X
        BY <4>1
      <4> QED
        BY <4>1, <4>2
    <3>3. outcome.kind \in {"pending", "transport_error", "failure", "success"}
      BY DEF AttemptsKept, EndKept, Pending
    <3> QED
      BY <2>0, <3>1, <3>2, <3>3 DEF AuthorTypeOK, AttemptsKept, RecordKept, AnswerKept
  <2>2. DocumentFound
    <3> SUFFICES ASSUME stage = "answered",
                        answer.wrapper \in {"bare", "prose", "fenced", "prose_fenced"}
                 PROVE  ExtractJson(Raw(answer.wrapper, answer.doc)) = answer.doc
      BY DEF DocumentFound
    <3>1. answer.doc \in Documents
      BY DEF AnswerKept, Answers
    <3>2. IsDocument(answer.doc)
      BY <3>1, AuthorAssumption DEF AuthorAssumption, IsDocument, Tokens
    <3> QED
      BY <3>2, UsuallyFound
  <2>3. SuccessIsGood
    BY DEF AttemptsKept, EndKept, Pending, SuccessIsGood
  <2>4. GivesUpInTime
    <3>1. Len(iterations) <= repairs + 1
      BY <2>0 DEF AttemptsKept, EndKept
    <3>2. ASSUME outcome.kind = "failure", repairs # Width - 1
          PROVE  /\ Len(iterations) = repairs + 1
                 /\ outcome.workflow = Max(ParsedIn(iterations))
      <4>1. Len(iterations) = repairs + 1 /\ Greatest(outcome.workflow, ParsedIn(iterations))
        BY <3>2 DEF AttemptsKept, EndKept, Pending
      <4>2. ASSUME NEW S, NEW w, Greatest(w, S) PROVE w = Max(S)
        <5>1. \A x \in S : (\A y \in S : x >= y) <=> x = w
          BY <4>2 DEF Greatest
        <5>2. w \in S
          BY <4>2 DEF Greatest
        <5> QED
          BY <5>1, <5>2 DEF Max
      <4> QED
        BY <4>1, <4>2
    <3> QED
      BY <3>1, <3>2 DEF GivesUpInTime, ParsedIn
  <2>5. RepairsTheLast
    BY DEF RecordKept, RepairsTheLast
  <2> QED
    BY <2>1, <2>2, <2>3, <2>4, <2>5 DEF AuthorSound
<1> QED
  BY <1>1, AuthorCorrect, PTL
=============================================================================
