----------------------------- MODULE ToolProofs -----------------------------
(***************************************************************************)
(* Proofs about what stands beside the engine, each for any values of its  *)
(* constants:                                                              *)
(*   - the search over workflows, its ranking, budget and certificate;     *)
(*   - verification and the skill library: what a report shows, what the   *)
(*     table holds, what a query finds;                                    *)
(*   - the credentials: what is stored can be read with the key it was     *)
(*     stored with and with no other, no nonce serves two rows, and        *)
(*     nothing is written without leave;                                   *)
(*   - a node's parameters and its routing: that those who read them       *)
(*     agree, and that no item is lost or doubled.                         *)
(***************************************************************************)
EXTENDS Search, Skills, Vault, NodeParams, FiniteSetTheorems, SequenceTheorems,
        WellFoundedInduction, TLAPS

-----------------------------------------------------------------------------
(* Finite sets in an order: who comes first, and the first so many. *)

\* Every nonempty set of numbers has a least element.
LEMMA LeastNumber ==
    ASSUME NEW T, T \subseteq Nat, T # {}
    PROVE  \E n \in T : \A m \in T : n <= m
<1> DEFINE Less == {p \in Nat \X Nat : p[1] < p[2]}
<1>1. IsWellFoundedOn(Less, Nat)
  BY NatLessThanWellFounded, Zenon DEF OpToRel
<1>2. \E n \in T : \A m \in T : <<m, n>> \notin Less
  BY <1>1, WFMin, Zenon
<1>3. ASSUME NEW m \in Nat, NEW n \in Nat, <<m, n>> \notin Less
      PROVE  n <= m
  BY <1>3
<1> QED
  BY <1>2, <1>3

\* R orders S: nothing is before itself, and what is before before is before.
StrictOrder(S, R) ==
    /\ \A c \in S : <<c, c>> \notin R
    /\ \A c, d, e \in S : <<c, d>> \in R /\ <<d, e>> \in R => <<c, e>> \in R
    /\ \A c, d \in S : c # d => <<c, d>> \in R \/ <<d, c>> \in R

\* What R puts before c.
Before(S, R, c) == {d \in S : <<d, c>> \in R}

\* Each element of a finite set comes after fewer elements than there are, and
\* after more than what comes before it does.
LEMMA PlacesDiffer ==
    ASSUME NEW S, NEW R, IsFiniteSet(S), StrictOrder(S, R)
    PROVE  /\ Cardinality(S) \in Nat
           /\ \A c \in S : /\ IsFiniteSet(Before(S, R, c))
                           /\ Cardinality(Before(S, R, c)) \in 0..(Cardinality(S) - 1)
           /\ \A c, d \in S : <<c, d>> \in R =>
                  Cardinality(Before(S, R, c)) < Cardinality(Before(S, R, d))
<1>1. ASSUME NEW U, IsFiniteSet(U), NEW T \in SUBSET U, NEW x \in U, x \notin T
      PROVE  IsFiniteSet(T) /\ Cardinality(T) \in Nat /\ Cardinality(U) \in Nat
             /\ Cardinality(T) < Cardinality(U)
  <2>1. IsFiniteSet(T) /\ Cardinality(T) <= Cardinality(U) /\ Cardinality(T) # Cardinality(U)
    BY <1>1, FS_Subset
  <2> QED
    BY <1>1, <2>1, FS_CardinalityType
<1>2. ASSUME NEW c \in S
      PROVE  /\ IsFiniteSet(Before(S, R, c)) /\ Cardinality(Before(S, R, c)) \in Nat
             /\ Cardinality(Before(S, R, c)) < Cardinality(S)
  <2>1. Before(S, R, c) \in SUBSET S /\ c \notin Before(S, R, c)
    BY DEF Before, StrictOrder
  <2> QED
    BY <1>1, <2>1
<1>3. ASSUME NEW c \in S, NEW d \in S, <<c, d>> \in R
      PROVE  Cardinality(Before(S, R, c)) < Cardinality(Before(S, R, d))
  <2>1. /\ Before(S, R, c) \in SUBSET Before(S, R, d)
        /\ c \in Before(S, R, d) /\ c \notin Before(S, R, c)
    BY <1>3 DEF Before, StrictOrder
  <2> QED
    BY <1>1, <1>2, <2>1
<1>4. Cardinality(S) \in Nat
  BY FS_CardinalityType
<1> QED
  BY <1>2, <1>3, <1>4

\* One of them comes first.
LEMMA FirstExists ==
    ASSUME NEW S, NEW R, IsFiniteSet(S), StrictOrder(S, R), S # {}
    PROVE  \E c \in S : Before(S, R, c) = {}
<1> DEFINE T == {Cardinality(Before(S, R, c)) : c \in S}
<1>1. T \subseteq Nat /\ T # {}
  BY PlacesDiffer
<1>2. PICK n \in T : \A m \in T : n <= m
  BY <1>1, LeastNumber
<1>3. PICK c \in S : n = Cardinality(Before(S, R, c))
  BY <1>2
<1>4. ASSUME NEW d \in Before(S, R, c) PROVE FALSE
  <2>1. d \in S /\ <<d, c>> \in R
    BY <1>4 DEF Before
  <2>2. Cardinality(Before(S, R, d)) < n /\ Cardinality(Before(S, R, d)) \in T
        /\ Cardinality(Before(S, R, d)) \in Nat /\ n \in Nat
    BY <1>1, <1>3, <2>1, PlacesDiffer
  <2> QED
    BY <1>2, <2>2
<1> QED
  BY <1>4

\* At most k come after fewer than k.
LEMMA FewComeFirst ==
    ASSUME NEW S, NEW R, IsFiniteSet(S), StrictOrder(S, R), NEW k \in Nat
    PROVE  Cardinality({c \in S : Cardinality(Before(S, R, c)) < k}) <= k
<1> DEFINE T == {c \in S : Cardinality(Before(S, R, c)) < k}
           place == [c \in T |-> Cardinality(Before(S, R, c))]
<1>1. \A c \in T : place[c] \in 0..(k - 1)
  BY PlacesDiffer
<1>2. ASSUME NEW c \in T, NEW d \in T, place[c] = place[d] PROVE c = d
  <2>1. c \in S /\ d \in S /\ place[c] \in Nat /\ place[d] \in Nat
        /\ place[c] = Cardinality(Before(S, R, c)) /\ place[d] = Cardinality(Before(S, R, d))
    BY <1>1
  <2>2. <<c, d>> \notin R /\ <<d, c>> \notin R
    BY <1>2, <2>1, PlacesDiffer
  <2> QED
    BY <2>1, <2>2 DEF StrictOrder
<1>3. place \in [T -> 0..(k - 1)]
  BY <1>1
<1>4. IsFiniteSet(0..(k - 1)) /\ Cardinality(0..(k - 1)) = k
  BY FS_Interval
<1> HIDE DEF T, place
<1>6. place \in Injection(T, 0..(k - 1))
  BY <1>2, <1>3 DEF Injection, IsInjective
<1>5. Cardinality(T) <= k
  BY <1>4, <1>6, FS_Injection
<1> QED
  BY <1>5 DEF T

\* Every place is taken.
LEMMA PlacesTaken ==
    ASSUME NEW S, NEW R, IsFiniteSet(S), StrictOrder(S, R), NEW i \in 0..(Cardinality(S) - 1)
    PROVE  \E c \in S : Cardinality(Before(S, R, c)) = i
<1> DEFINE place == [c \in S |-> Cardinality(Before(S, R, c))]
           T == 0..(Cardinality(S) - 1)
<1>1. place \in [S -> T]
  BY PlacesDiffer
<1>2. ASSUME NEW c \in S, NEW d \in S, place[c] = place[d] PROVE c = d
  <2>1. place[c] \in Nat /\ place[d] \in Nat
        /\ place[c] = Cardinality(Before(S, R, c)) /\ place[d] = Cardinality(Before(S, R, d))
    BY <1>1, PlacesDiffer
  <2>2. <<c, d>> \notin R /\ <<d, c>> \notin R
    BY <1>2, <2>1, PlacesDiffer
  <2> QED
    BY <2>2 DEF StrictOrder
<1>4. IsFiniteSet(T) /\ Cardinality(T) = Cardinality(S)
  BY PlacesDiffer, FS_Interval
<1> HIDE DEF place, T
<1>3. place \in Injection(S, T)
  BY <1>1, <1>2 DEF Injection, IsInjective
<1>5. place \in Surjection(S, T)
  BY <1>3, <1>4, FS_Injection
<1>6. \E c \in S : place[c] = i
  BY <1>5 DEF Surjection, T
<1> QED
  BY <1>6 DEF place

-----------------------------------------------------------------------------
(* Concatenations, reports and scores. *)

\* s is a sequence of length n.
IsSequence(s, n) == s = [i \in 1..n |-> s[i]]

\* u is s, of length m, and then t, of length n.
Joins(u, s, m, t, n) ==
    /\ IsSequence(u, m + n)
    /\ \A i \in 1..m : u[i] = s[i]
    /\ \A i \in 1..n : u[m + i] = t[i]
    /\ \A k \in 1..(m + n) : k \in 1..m \/ \E i \in 1..n : k = m + i

\* A concatenation is its first part, and then its second.
LEMMA Concatenated ==
    ASSUME NEW s, NEW t, NEW m \in Nat, NEW n \in Nat, IsSequence(s, m), IsSequence(t, n)
    PROVE  Joins(s \o t, s, m, t, n)
<1> DEFINE X == {s[i] : i \in 1..m} \cup {t[i] : i \in 1..n}
<1>0. s \in [1..m -> X] /\ t \in [1..n -> X]
  BY Zenon DEF IsSequence
<1> HIDE DEF X
<1>1. s \in Seq(X) /\ t \in Seq(X) /\ Len(s) = m /\ Len(t) = n
  BY <1>0
<1>2. s \o t = [i \in 1..(m + n) |-> (s \o t)[i]]
  <2>1. s \o t \in Seq(X) /\ Len(s \o t) = m + n
    BY <1>1
  <2>2. ASSUME NEW u \in Seq(X) PROVE u = [i \in 1..Len(u) |-> u[i]]
    OBVIOUS
  <2> QED
    BY <2>1, <2>2, Zenon
<1>3. \A i \in 1..m : (s \o t)[i] = s[i]
  BY <1>1
<1>4. \A i \in 1..n : (s \o t)[m + i] = t[i]
  BY <1>1
<1>5. ASSUME NEW k \in 1..(m + n), k \notin 1..m PROVE \E i \in 1..n : k = m + i
  <2>1. k - m \in 1..n /\ k = m + (k - m)
    BY <1>5
  <2> QED
    BY <2>1
<1> QED
  BY <1>2, <1>3, <1>4, <1>5 DEF IsSequence, Joins

\* The categories of a result.
Categories == {"spec", "golden", "semantic", "engine"}

\* The results that are about what the workflow is for.
Outcomes(w, plan) ==
    (IF plan.spec = <<>> THEN <<>> ELSE SpecResults(w, plan.spec[1]))
    \o GoldenResults(w, plan) \o SemanticResults(w, plan)

\* s has n results in these categories, with the semantic relations of the plan side by
\* side after some others; and no other of them is a semantic one.
Lists(s, n, before, categories, w, plan) ==
    /\ IsSequence(s, n)
    /\ \A k \in 1..n : s[k].category \in categories
    /\ \A i \in DOMAIN plan.semantic :
          /\ before + i \in 1..n
          /\ s[before + i] = Result("semantic", SemanticHolds(w, plan.semantic[i]))
    /\ \A k \in 1..n : s[k].category = "semantic" =>
          \E i \in DOMAIN plan.semantic :
             s[k] = Result("semantic", SemanticHolds(w, plan.semantic[i]))

\* The first part of a report.
LEMMA OutcomeParts ==
    ASSUME NEW w, NEW plan \in VerificationPlan
    PROVE  \E n \in Nat, before \in Nat :
              Lists(Outcomes(w, plan), n, before, {"spec", "golden", "semantic"}, w, plan)
<1> DEFINE A == IF plan.spec = <<>> THEN <<>> ELSE SpecResults(w, plan.spec[1])
           B == GoldenResults(w, plan)
           C == SemanticResults(w, plan)
<1>1. \E n \in Nat : IsSequence(A, n) /\ \A k \in 1..n : A[k].category = "spec"
  <2>1. CASE plan.spec = <<>>
    <3>1. IsSequence(A, 0) /\ \A k \in 1..0 : A[k].category = "spec"
      BY <2>1 DEF IsSequence
    <3> QED
      BY <3>1
  <2>2. CASE plan.spec # <<>>
    <3>1. plan.spec \in Seq(WorkflowSpec)
      BY DEF VerificationPlan, Optional
    <3>2. plan.spec[1] \in WorkflowSpec
      BY <2>2, <3>1
    <3>3. plan.spec[1].assertions \in Seq(SpecAssertion)
      BY <3>2 DEF WorkflowSpec
    <3> DEFINE n == Len(plan.spec[1].assertions)
    <3>4. n \in Nat /\ DOMAIN plan.spec[1].assertions = 1..n
      BY <3>3
    <3> HIDE DEF n
    <3>5. IsSequence(A, n) /\ \A k \in 1..n : A[k].category = "spec"
      BY <2>2, <3>4 DEF IsSequence, SpecResults, Result
    <3> QED
      BY <3>4, <3>5
  <2> QED
    BY <2>1, <2>2
<1>2. \E n \in Nat : IsSequence(B, n) /\ \A k \in 1..n : B[k].category = "golden"
  <2>1. plan.golden \in Seq(GoldenFixture)
    BY DEF VerificationPlan
  <2> DEFINE n == Len(plan.golden)
  <2>2. n \in Nat /\ DOMAIN plan.golden = 1..n
    BY <2>1
  <2> HIDE DEF n
  <2>3. IsSequence(B, n) /\ \A k \in 1..n : B[k].category = "golden"
    BY <2>2 DEF IsSequence, GoldenResults, Result
  <2> QED
    BY <2>2, <2>3
<1>3. \E n \in Nat : /\ IsSequence(C, n) /\ DOMAIN plan.semantic = 1..n
                    /\ \A k \in 1..n :
                          /\ C[k].category = "semantic"
                          /\ C[k] = Result("semantic", SemanticHolds(w, plan.semantic[k]))
  <2>1. plan.semantic \in Seq(SemanticRelation)
    BY DEF VerificationPlan
  <2> DEFINE n == Len(plan.semantic)
  <2>2. n \in Nat /\ DOMAIN plan.semantic = 1..n
    BY <2>1
  <2> HIDE DEF n
  <2>3. IsSequence(C, n) /\ \A k \in 1..n : C[k].category = "semantic"
    BY <2>2 DEF IsSequence, SemanticResults, Result
  <2>4. \A k \in 1..n : C[k] = Result("semantic", SemanticHolds(w, plan.semantic[k]))
    BY <2>2 DEF SemanticResults
  <2> QED
    BY <2>2, <2>3, <2>4
<1>4. Outcomes(w, plan) = A \o B \o C
  BY Zenon DEF Outcomes
<1> HIDE DEF A, B, C
<1>6. PICK a \in Nat : IsSequence(A, a) /\ \A k \in 1..a : A[k].category = "spec"
  BY <1>1
<1>7. PICK b \in Nat : IsSequence(B, b) /\ \A k \in 1..b : B[k].category = "golden"
  BY <1>2
<1>8. PICK c \in Nat : /\ IsSequence(C, c) /\ DOMAIN plan.semantic = 1..c
                      /\ \A k \in 1..c :
                            /\ C[k].category = "semantic"
                            /\ C[k] = Result("semantic", SemanticHolds(w, plan.semantic[k]))
  BY <1>3
<1> DEFINE AB == A \o B
           ABC == AB \o C
<1>10. /\ IsSequence(AB, a + b)
       /\ \A k \in 1..(a + b) : AB[k].category \in {"spec", "golden"}
  <2>1. Joins(AB, A, a, B, b)
    BY <1>6, <1>7, Concatenated
  <2> HIDE DEF AB
  <2>2. ASSUME NEW k \in 1..(a + b) PROVE AB[k].category \in {"spec", "golden"}
    <3>1. CASE k \in 1..a
      BY <1>6, <2>1, <3>1 DEF Joins
    <3>2. ASSUME NEW i \in 1..b, k = a + i PROVE AB[k].category = "golden"
      BY <1>7, <2>1, <3>2 DEF Joins
    <3> QED
      BY <2>1, <3>1, <3>2 DEF Joins
  <2> QED
    BY <2>1, <2>2 DEF Joins
<1> HIDE DEF AB
<1>11. /\ IsSequence(ABC, (a + b) + c)
       /\ \A k \in 1..c : ABC[(a + b) + k] = C[k]
       /\ \A k \in 1..((a + b) + c) :
             \/ ABC[k].category \in {"spec", "golden"}
             \/ \E l \in 1..c : ABC[k] = C[l]
  <2>0. a + b \in Nat
    OBVIOUS
  <2>1. Joins(ABC, AB, a + b, C, c)
    BY <1>8, <1>10, <2>0, Concatenated
  <2> HIDE DEF ABC
  <2>2. ASSUME NEW k \in 1..((a + b) + c)
        PROVE  \/ ABC[k].category \in {"spec", "golden"}
               \/ \E l \in 1..c : ABC[k] = C[l]
    BY <1>10, <2>1, Zenon DEF Joins
  <2> QED
    BY <2>1, <2>2 DEF Joins
<1> HIDE DEF ABC
<1> DEFINE n == (a + b) + c
<1>12. n \in Nat /\ a + b \in Nat /\ \A k \in 1..c : (a + b) + k \in 1..n
  OBVIOUS
<1> HIDE DEF n
<1>13. IsSequence(ABC, n)
  BY <1>11 DEF n
<1>14. ASSUME NEW k \in 1..n
       PROVE  /\ ABC[k].category \in {"spec", "golden", "semantic"}
              /\ ABC[k].category = "semantic" =>
                    \E i \in DOMAIN plan.semantic :
                       ABC[k] = Result("semantic", SemanticHolds(w, plan.semantic[i]))
  <2>1. CASE ABC[k].category \in {"spec", "golden"}
    BY <2>1
  <2>2. CASE \E l \in 1..c : ABC[k] = C[l]
    <3>1. PICK l \in 1..c : ABC[k] = C[l]
      BY <2>2
    <3>2. /\ ABC[k].category = "semantic" /\ l \in DOMAIN plan.semantic
          /\ ABC[k] = Result("semantic", SemanticHolds(w, plan.semantic[l]))
      BY <1>8, <3>1, Zenon
    <3> QED
      BY <3>2, Zenon
  <2> QED
    BY <1>11, <2>1, <2>2, Zenon DEF n
<1>15. ASSUME NEW i \in DOMAIN plan.semantic
       PROVE  /\ (a + b) + i \in 1..n
              /\ ABC[(a + b) + i] = Result("semantic", SemanticHolds(w, plan.semantic[i]))
  BY <1>8, <1>11, <1>12, Zenon
<1>16. Lists(ABC, n, a + b, {"spec", "golden", "semantic"}, w, plan)
  BY <1>13, <1>14, <1>15, Zenon DEF Lists
<1> QED
  BY <1>4, <1>12, <1>16, Zenon DEF ABC, AB

\* A report is a finite sequence of results.
LEMMA ReportParts ==
    ASSUME NEW w, NEW plan \in VerificationPlan
    PROVE  \E n \in Nat, before \in Nat : Lists(Report(w, plan), n, before, Categories, w, plan)
<1> DEFINE A == Outcomes(w, plan)
           D == IF plan.metamorphic = <<>> THEN <<>> ELSE InvariantResults(w, plan.metamorphic[1])
           R == A \o D
<1>1. PICK p \in Nat, before \in Nat : Lists(A, p, before, {"spec", "golden", "semantic"}, w, plan)
  BY OutcomeParts
<1>2. \E n \in Nat : IsSequence(D, n) /\ \A k \in 1..n : D[k].category = "engine"
  <2>1. CASE plan.metamorphic = <<>>
    <3>1. IsSequence(D, 0) /\ \A k \in 1..0 : D[k].category = "engine"
      BY <2>1 DEF IsSequence
    <3> QED
      BY <3>1
  <2>2. CASE plan.metamorphic # <<>>
    <3> DEFINE m == plan.metamorphic[1]
               Engine(s) == \E n \in Nat : /\ IsSequence(s, n)
                                          /\ \A k \in 1..n : s[k].category = "engine"
    <3>1. \A passed : Engine(<<Result("engine", passed)>>)
      <4> TAKE passed
      <4>1. IsSequence(<<Result("engine", passed)>>, 1)
        BY DEF IsSequence
      <4>2. \A k \in 1..1 : <<Result("engine", passed)>>[k].category = "engine"
        BY DEF Result
      <4> QED
        BY <4>1, <4>2
    <3>2. Engine(<<>>)
      <4>1. IsSequence(<<>>, 0)
        BY DEF IsSequence
      <4>2. \A k \in 1..0 : <<>>[k].category = "engine"
        OBVIOUS
      <4> QED
        BY <4>1, <4>2
    <3>3. ASSUME NEW s, NEW t, Engine(s), Engine(t) PROVE Engine(s \o t)
      <4>1. PICK i \in Nat : IsSequence(s, i) /\ \A k \in 1..i : s[k].category = "engine"
        BY <3>3
      <4>2. PICK j \in Nat : IsSequence(t, j) /\ \A k \in 1..j : t[k].category = "engine"
        BY <3>3
      <4>3. Joins(s \o t, s, i, t, j)
        BY <4>1, <4>2, Concatenated
      <4>4. \A k \in 1..(i + j) : (s \o t)[k].category = "engine"
        BY <4>1, <4>2, <4>3, Zenon DEF Joins
      <4>5. i + j \in Nat /\ IsSequence(s \o t, i + j)
        BY <4>3 DEF Joins
      <4> QED
        BY <4>4, <4>5
    <3> HIDE DEF Engine
    <3>4. Engine(InvariantResults(w, m))
      <4> DEFINE a == IF "rerun" \in m.relations
                      THEN <<Result("engine", RerunIdentity(w, m.seed))>> ELSE <<>>
                 b == IF "permutation" \in m.relations
                      THEN <<Result("engine", Permutation(w, m.seed))>> ELSE <<>>
                 c == IF m.factor >= 2 THEN
                        IF "duplication" \in m.relations
                        THEN <<Result("engine", Duplication(w, m.seed, m.factor))>> ELSE <<>>
                      ELSE <<>>
                 d == IF "additivity" \in m.relations
                      THEN <<Result("engine", Additivity(w, m.seed))>> ELSE <<>>
      <4>1. InvariantResults(w, m) = a \o b \o c \o d
        BY Zenon DEF InvariantResults
      <4>2. Engine(a) /\ Engine(b) /\ Engine(c) /\ Engine(d)
        BY <3>1, <3>2, Zenon
      <4> HIDE DEF a, b, c, d
      <4>3. Engine(a \o b)
        BY <3>3, <4>2
      <4>4. Engine(a \o b \o c)
        BY <3>3, <4>2, <4>3
      <4>5. Engine(a \o b \o c \o d)
        BY <3>3, <4>2, <4>4
      <4> QED
        BY <4>1, <4>5
    <3> QED
      BY <2>2, <3>4, Zenon DEF Engine
  <2> QED
    BY <2>1, <2>2
<1>3. Report(w, plan) = R
  BY Zenon DEF Report, Outcomes
<1> HIDE DEF A, D
<1>4. PICK d \in Nat : IsSequence(D, d) /\ \A k \in 1..d : D[k].category = "engine"
  BY <1>2
<1>5. Joins(R, A, p, D, d)
  BY <1>1, <1>4, Concatenated DEF Lists
<1> HIDE DEF R
<1>6. ASSUME NEW k \in 1..(p + d)
      PROVE  /\ R[k].category \in Categories
             /\ R[k].category = "semantic" =>
                   \E i \in DOMAIN plan.semantic :
                      R[k] = Result("semantic", SemanticHolds(w, plan.semantic[i]))
  <2>1. CASE k \in 1..p
    <3>1. R[k] = A[k]
      BY <1>5, <2>1, Zenon DEF Joins
    <3>2. {"spec", "golden", "semantic"} \subseteq Categories
      BY DEF Categories
    <3> QED
      BY <1>1, <2>1, <3>1, <3>2, Zenon DEF Lists
  <2>2. CASE \E l \in 1..d : k = p + l
    <3>1. R[k].category = "engine"
      BY <1>4, <1>5, <2>2, Zenon DEF Joins
    <3> QED
      BY <3>1 DEF Categories
  <2> QED
    BY <1>5, <2>1, <2>2, Zenon DEF Joins
<1>7. ASSUME NEW i \in DOMAIN plan.semantic
      PROVE  /\ before + i \in 1..(p + d)
             /\ R[before + i] = Result("semantic", SemanticHolds(w, plan.semantic[i]))
  <2>1. before + i \in 1..p /\ A[before + i] = Result("semantic", SemanticHolds(w, plan.semantic[i]))
    BY <1>1, Zenon DEF Lists
  <2>2. \A x \in 1..p : x \in 1..(p + d)
    OBVIOUS
  <2> QED
    BY <1>5, <2>1, <2>2, Zenon DEF Joins
<1>8. p + d \in Nat /\ IsSequence(R, p + d)
  BY <1>5 DEF Joins
<1> QED
  BY <1>3, <1>6, <1>7, <1>8, Zenon DEF Lists

\* A score is a share in percent.
LEMMA ScoreIsPercent ==
    ASSUME NEW got, NEW n \in Nat, IsSequence(got, n)
    PROVE  Score(got) \in 0..100
<1> DEFINE T == {i \in DOMAIN got : IsOutcome(got[i])}
           P == {i \in DOMAIN got : IsOutcome(got[i]) /\ got[i].passed}
           t == Cardinality(T)
           p == Cardinality(P)
<1>1. DOMAIN got = 1..n /\ IsFiniteSet(1..n)
  BY FS_Interval DEF IsSequence
<1>2. T \in SUBSET (1..n) /\ P \in SUBSET T
  BY <1>1
<1>3. OutcomeTotal(got) = t /\ OutcomePassed(got) = p
  BY DEF OutcomeTotal, OutcomePassed, Count
<1> HIDE DEF T, P
<1>4. IsFiniteSet(T) /\ t \in Nat
  BY <1>1, <1>2, FS_Subset, FS_CardinalityType
<1>5. IsFiniteSet(P) /\ p \in Nat /\ p <= t
  BY <1>2, <1>4, FS_Subset, FS_CardinalityType
<1> HIDE DEF t, p
<1>6. ASSUME t # 0 PROVE (100 * p) \div t \in 0..100
  <2> DEFINE q == (100 * p) \div t
  <2>1. q \in Int /\ t * q <= 100 * p /\ 100 * p < t * q + t
    BY <1>4, <1>5, <1>6
  <2> HIDE DEF q
  <2>2. ASSUME q > 100 PROVE FALSE
    <3>1. t * q >= t * 101
      BY <1>4, <2>1, <2>2
    <3> QED
      BY <1>4, <1>5, <1>6, <2>1, <3>1
  <2>3. ASSUME q < 0 PROVE FALSE
    <3>1. t * q <= t * (-1)
      BY <1>4, <2>1, <2>3
    <3> QED
      BY <1>4, <1>5, <1>6, <2>1, <3>1
  <2> QED
    BY <2>1, <2>2, <2>3 DEF q
<1> QED
  BY <1>3, <1>6 DEF Score

-----------------------------------------------------------------------------
(* The ranking of candidates. *)

\* The ranking as a relation.
Ranking(S) == {p \in S \X S : Better(p[1], p[2])}

\* A better score, then a smaller workflow, then the earlier one: a strict and total order
\* of any candidates (the tie-breaks of the search).
LEMMA RankingIsOrder ==
    ASSUME NEW S, S \subseteq Sound, fitness \in [Sound -> Int]
    PROVE  /\ StrictOrder(S, Ranking(S))
           /\ \A c \in S : Before(S, Ranking(S), c) = {d \in S : Better(d, c)}
<1>1. \A c \in S : fitness[c] \in Int /\ Size[c] \in Nat /\ c \in Nat
  BY SearchAssumption DEF SearchAssumption
<1>2. \A c, d \in S : <<c, d>> \in Ranking(S) <=> Better(c, d)
  BY DEF Ranking
<1>3. StrictOrder(S, Ranking(S))
  <2>1. \A c \in S : ~Better(c, c)
    BY <1>1 DEF Better
  <2>2. \A c, d, e \in S : Better(c, d) /\ Better(d, e) => Better(c, e)
    BY <1>1 DEF Better
  <2>3. \A c, d \in S : c # d => Better(c, d) \/ Better(d, c)
    BY <1>1 DEF Better
  <2> QED
    BY <1>2, <2>1, <2>2, <2>3, Zenon DEF StrictOrder
<1> QED
  BY <1>2, <1>3 DEF Before

\* The beam holds the k best, or all when there are fewer.
LEMMA TopOfRanking ==
    ASSUME NEW S, S \subseteq Sound, IsFiniteSet(S), S # {}, fitness \in [Sound -> Int],
           NEW k \in Nat \ {0}
    PROVE  /\ Top(S, k) \subseteq S /\ Top(S, k) # {}
           /\ k >= Cardinality(S) => Top(S, k) = S
<1>1. /\ StrictOrder(S, Ranking(S))
      /\ \A c \in S : Before(S, Ranking(S), c) = {d \in S : Better(d, c)}
  BY RankingIsOrder
<1>2. PICK c \in S : Before(S, Ranking(S), c) = {}
  BY <1>1, FirstExists
<1>3. c \in Top(S, k)
  <2>1. Cardinality({d \in S : Better(d, c)}) = 0
    BY <1>1, <1>2, FS_EmptySet
  <2> QED
    BY <2>1 DEF Top
<1>4. \A d \in S : Cardinality({e \in S : Better(e, d)}) \in 0..(Cardinality(S) - 1)
  BY <1>1, PlacesDiffer
<1>5. Cardinality(S) \in Nat
  BY FS_CardinalityType
<1>6. ASSUME k >= Cardinality(S), NEW d \in S PROVE d \in Top(S, k)
  <2> DEFINE place == Cardinality({e \in S : Better(e, d)})
  <2>1. place \in 0..(Cardinality(S) - 1)
    BY <1>4
  <2> HIDE DEF place
  <2>2. place < k
    BY <1>5, <1>6, <2>1
  <2> QED
    BY <2>2 DEF Top, place
<1> QED
  BY <1>3, <1>6 DEF Top

\* The incumbent is better than every other candidate.
LEMMA FirstOfRanking ==
    ASSUME NEW S, S \subseteq Sound, IsFiniteSet(S), S # {}, fitness \in [Sound -> Int]
    PROVE  First(S) \in S /\ \A d \in S \ {First(S)} : Better(First(S), d)
<1>1. /\ StrictOrder(S, Ranking(S))
      /\ \A c \in S : Before(S, Ranking(S), c) = {d \in S : Better(d, c)}
  BY RankingIsOrder
<1>2. PICK c \in S : Before(S, Ranking(S), c) = {}
  BY <1>1, FirstExists
<1>3. \A d \in S \ {c} : Better(c, d)
  <2> SUFFICES ASSUME NEW d \in S, d # c PROVE Better(c, d)
    OBVIOUS
  <2>1. <<d, c>> \notin Ranking(S)
    BY <1>2 DEF Before
  <2>2. <<c, d>> \in Ranking(S)
    BY <1>1, <2>1 DEF StrictOrder
  <2> QED
    BY <2>2 DEF Ranking
<1> QED
  BY <1>3 DEF First

\* The cap.
LEMMA CapHolds ==
    ASSUME NEW S, S \subseteq Nat, IsFiniteSet(S),
           budget \in [generations : Nat, beam : Nat, cap : Nat]
    PROVE  /\ Capped(S) \subseteq S
           /\ budget.cap = 0 => Capped(S) = S
           /\ budget.cap > 0 => Cardinality(Capped(S)) <= budget.cap
<1> DEFINE R == {p \in S \X S : p[1] < p[2]}
<1>1. \A c, d \in S : <<c, d>> \in R <=> c < d
  OBVIOUS
<1>2. \A c \in S : Before(S, R, c) = {d \in S : d < c}
  BY <1>1 DEF Before
<1> HIDE DEF R
<1>3. StrictOrder(S, R)
  BY <1>1 DEF StrictOrder
<1>6. budget.cap \in Nat
  OBVIOUS
<1>7. budget.cap # 0 => Capped(S) = {c \in S : Cardinality(Before(S, R, c)) < budget.cap}
  BY <1>2, Zenon DEF Capped
<1>4. budget.cap > 0 => Capped(S) = {c \in S : Cardinality(Before(S, R, c)) < budget.cap}
  BY <1>6, <1>7
<1>5. Cardinality({c \in S : Cardinality(Before(S, R, c)) < budget.cap}) <= budget.cap
  BY <1>3, FewComeFirst
<1> QED
  BY <1>4, <1>5 DEF Capped

\* A generation is finite.
LEMMA FreshIsFinite ==
    ASSUME ops \subseteq Operators, beam \subseteq Sound, IsFiniteSet(beam)
    PROVE  IsFiniteSet(Fresh) /\ Fresh \subseteq Sound /\ Fresh \cap seen = {}
<1> DEFINE pairs == ops \X beam
           made == [p \in pairs |-> Derived[p[1]][p[2]]]
           F == {made[p] : p \in pairs}
<1>1. IsFiniteSet(pairs)
  <2>1. IsFiniteSet(ops)
    BY SearchAssumption, FS_Subset DEF SearchAssumption
  <2> QED
    BY <2>1, FS_Product
<1>2. \A p \in pairs : IsFiniteSet(made[p])
  BY SearchAssumption DEF SearchAssumption
<1>3. made \in Surjection(pairs, F)
  <2>1. made \in [pairs -> F] /\ \A t \in F : \E p \in pairs : made[p] = t
    BY Zenon
  <2> QED
    BY <2>1, Zenon DEF Surjection
<1>4. IsFiniteSet(F)
  <2> HIDE DEF pairs, made, F
  <2> QED
    BY <1>1, <1>3, FS_Surjection
<1>5. IsFiniteSet(UNION F)
  <2>1. \A T \in F : IsFiniteSet(T)
    BY <1>2
  <2> HIDE DEF F
  <2> QED
    BY <1>4, <2>1, FS_UNION
<1>6. Fresh \subseteq UNION F
  <2> SUFFICES ASSUME NEW c \in Fresh PROVE c \in UNION F
    OBVIOUS
  <2>1. PICK op \in ops, parent \in beam : c \in Derived[op][parent]
    BY DEF Fresh
  <2>2. <<op, parent>> \in pairs /\ made[<<op, parent>>] = Derived[op][parent]
    OBVIOUS
  <2>3. made[<<op, parent>>] \in F
    BY <2>2
  <2> QED
    BY <2>1, <2>2, <2>3
<1> QED
  BY <1>5, <1>6, FS_Subset DEF Fresh

-----------------------------------------------------------------------------
(* The search. *)

\* A request is one of those that are submitted.
RequestKept ==
    /\ ops \subseteq Operators
    /\ plans \in [fitness : VerificationPlan, holdout : VerificationPlan]
    /\ budget \in [generations : Nat, beam : Nat, cap : Nat]

\* What is seen, what survives, and what a generation still has to score.
PoolKept ==
    /\ stage \in {"submitted", "expanding", "scoring", "certifying", "over"}
    /\ fitness \in [Sound -> Int]
    /\ seen \subseteq Sound /\ IsFiniteSet(seen)
    /\ beam \subseteq seen /\ beam # {} /\ scored \subseteq seen /\ best \in seen
    /\ raw \subseteq Sound /\ IsFiniteSet(raw) /\ raw \cap seen = {}
    /\ stage = "submitted" => seen = {Seed} /\ generation = 0 /\ scored = {}
    /\ stage \in {"submitted", "expanding", "certifying"} => raw = {}
    /\ stage = "scoring" => raw \cup scored # {} /\ best \notin scored /\ generation > 0
    /\ stage = "expanding" /\ generation > 0 => scored # {}

\* An outcome is there when the search is over, and is about the incumbent.
OutcomeKept ==
    /\ outcome.kind \in {"pending", "no_operator", "correlated", "unverifiable", "found"}
    /\ stage # "over" => outcome.kind = "pending"
    /\ stage \in {"expanding", "scoring", "certifying"} \/ outcome.kind = "found" =>
          ~SharedEvidence(plans.fitness, plans.holdout)

\* The best is the best of what earlier generations scored.
BestKept ==
    /\ stage = "scoring" => \A c \in seen \ (scored \cup {best}) : Better(best, c)
    /\ stage \in {"expanding", "certifying"} \/ outcome.kind = "found" =>
          \A c \in seen \ {best} : Better(best, c)

\* No candidate is scored twice, and no generation is larger than the cap.
BudgetHeld ==
    /\ generation \in Nat /\ evaluated \in Nat /\ generation <= budget.generations
    /\ evaluated = Cardinality(seen)
    /\ budget.cap > 0 => evaluated + Cardinality(raw) <= 1 + budget.cap * generation

\* Nothing has been cut off.
Uncut == budget.cap = 0 /\ budget.beam >= Cardinality(seen)

\* All that the operators make of S is in T.
Closed(S, T) == \A c \in Sound, op \in ops, parent \in S : c \in Derived[op][parent] => c \in T

\* What has left the beam has been expanded.
ExpandedKept ==
    Uncut => /\ stage = "expanding" => Closed(seen \ beam, seen)
             /\ stage = "scoring" => Closed(seen \ scored, seen \cup raw)
             /\ stage = "certifying" /\ scored = {} /\ generation > 0 => Closed(seen, seen)

\* The inductive invariant of the search.
SearchInv ==
    /\ RequestKept /\ PoolKept /\ OutcomeKept /\ BestKept /\ BudgetHeld /\ ExpandedKept

\* The invariant of the search holds of its first state.
LEMMA SearchStarts == SearchInit => SearchInv
<1> SUFFICES ASSUME SearchInit PROVE SearchInv
  OBVIOUS
<1> USE DEF SearchInit, Failed
<1>1. RequestKept
  BY SearchAssumption DEF SearchAssumption, RequestKept
<1>2. IsFiniteSet({Seed}) /\ Cardinality({Seed}) = 1
  BY FS_Singleton
<1>3. IsFiniteSet({}) /\ Cardinality({}) = 0
  BY FS_EmptySet
<1>4. Seed \in Sound
  BY SearchAssumption DEF SearchAssumption
<1>5. PoolKept
  BY <1>2, <1>3, <1>4 DEF PoolKept
<1>6. OutcomeKept /\ BestKept /\ ExpandedKept
  BY DEF OutcomeKept, BestKept, ExpandedKept
<1>7. BudgetHeld
  BY <1>1, <1>2, <1>3 DEF BudgetHeld, RequestKept
<1> QED
  BY <1>1, <1>5, <1>6, <1>7 DEF SearchInv

\* The fitness of a candidate is a number.
LEMMA FitnessIsInteger ==
    ASSUME RequestKept, NEW c
    PROVE  FitnessOf(c) \in Int
<1>1. plans.fitness \in VerificationPlan
  BY DEF RequestKept
<1>2. PICK n \in Nat : IsSequence(Report(does[c], plans.fitness), n)
  BY <1>1, ReportParts DEF Lists
<1>3. Score(Report(does[c], plans.fitness)) \in 0..100
  BY <1>2, ScoreIsPercent
<1> QED
  BY <1>3 DEF FitnessOf

\* The first scoring, of the seed, keeps the invariant.
LEMMA BeginKeeps ==
    ASSUME SearchInv, Begin
    PROVE  SearchInv'
<1> USE DEF SearchInv, Begin, searchRequest, Failed
<1>1. RequestKept'
  BY DEF RequestKept
<1>2. fitness' \in [Sound -> Int]
  BY FitnessIsInteger DEF PoolKept
<1>3. PoolKept'
  BY <1>2 DEF PoolKept
<1>4. OutcomeKept'
  BY DEF OutcomeKept
<1>5. BestKept'
  <2>1. seen' = {Seed} /\ best' = Seed /\ stage' \in {"expanding", "over"}
    BY DEF PoolKept
  <2> QED
    BY <2>1 DEF BestKept, PoolKept
<1>6. BudgetHeld'
  BY DEF BudgetHeld
<1>7. ExpandedKept'
  <2>1. seen' \ beam' = {} /\ stage' \in {"expanding", "over"}
    BY DEF PoolKept
  <2> QED
    BY <2>1 DEF ExpandedKept, Closed
<1> QED
  BY <1>1, <1>3, <1>4, <1>5, <1>6, <1>7

\* The expansion of a beam, capped, keeps the invariant.
LEMMA ExpandKeeps ==
    ASSUME SearchInv, Expand
    PROVE  SearchInv'
<1> USE DEF SearchInv, Expand, searchRequest
<1>0. /\ IsFiniteSet(Fresh) /\ Fresh \subseteq Sound /\ Fresh \cap seen = {}
  <2>1. beam \subseteq Sound /\ IsFiniteSet(beam)
    BY FS_Subset DEF PoolKept
  <2> QED
    BY <2>1, FreshIsFinite DEF RequestKept
<1>1. /\ Capped(Fresh) \subseteq Fresh
      /\ budget.cap = 0 => Capped(Fresh) = Fresh
      /\ budget.cap > 0 => Cardinality(Capped(Fresh)) <= budget.cap
      /\ IsFiniteSet(Capped(Fresh)) /\ Cardinality(Capped(Fresh)) \in Nat
  <2>1. Fresh \subseteq Nat
    BY <1>0, SearchAssumption DEF SearchAssumption
  <2>2. /\ Capped(Fresh) \subseteq Fresh
        /\ budget.cap = 0 => Capped(Fresh) = Fresh
        /\ budget.cap > 0 => Cardinality(Capped(Fresh)) <= budget.cap
    BY <1>0, <2>1, CapHolds DEF RequestKept
  <2> QED
    BY <1>0, <2>2, FS_Subset, FS_CardinalityType
<1>2. RequestKept'
  BY DEF RequestKept
<1>3. OutcomeKept'
  BY DEF OutcomeKept
<1>4. CASE generation = budget.generations
  <2>1. stage' = "certifying" /\ UNCHANGED <<raw, scored, generation, beam, seen, fitness, best,
                                            evaluated, budget, ops>>
    BY <1>4
  <2>2. PoolKept'
    BY <2>1 DEF PoolKept
  <2>3. BestKept'
    BY <2>1 DEF BestKept, Better
  <2>4. BudgetHeld'
    BY <2>1 DEF BudgetHeld
  <2>5. ExpandedKept'
    BY <2>1 DEF ExpandedKept, PoolKept
  <2> QED
    BY <1>2, <1>3, <2>2, <2>3, <2>4, <2>5
<1>5. CASE generation # budget.generations
  <2>1. /\ generation' = generation + 1 /\ raw' = Capped(Fresh) /\ scored' = {}
        /\ stage' = IF raw' = {} THEN "certifying" ELSE "scoring"
        /\ UNCHANGED <<beam, seen, fitness, best, evaluated, budget, ops>>
    BY <1>5
  <2>0. generation \in Nat /\ generation' \in Nat /\ generation' > 0
        /\ generation' <= budget.generations
    BY <1>5, <2>1 DEF BudgetHeld, RequestKept
  <2>2. PoolKept'
    BY <1>0, <1>1, <2>0, <2>1 DEF PoolKept
  <2>3. BestKept'
    BY <2>1 DEF BestKept, Better
  <2>4. BudgetHeld'
    <3>1. ASSUME budget.cap > 0
          PROVE  evaluated + Cardinality(raw') <= 1 + budget.cap * (generation + 1)
      <4> DEFINE spent == budget.cap * generation
      <4>0. budget.cap \in Nat
        BY DEF RequestKept
      <4>1. budget.cap * (generation + 1) = spent + budget.cap /\ spent \in Nat
        BY <2>0, <4>0
      <4>2. evaluated + Cardinality(raw) <= 1 + spent
        BY <3>1 DEF BudgetHeld
      <4>3. Cardinality(raw) = 0
        BY FS_EmptySet DEF PoolKept
      <4>4. Cardinality(raw') <= budget.cap /\ Cardinality(raw') \in Nat /\ evaluated \in Nat
        BY <1>1, <2>1, <3>1 DEF BudgetHeld
      <4> HIDE DEF spent
      <4> QED
        BY <4>0, <4>1, <4>2, <4>3, <4>4
    <3> QED
      BY <2>0, <2>1, <3>1 DEF BudgetHeld
  <2>5. ExpandedKept'
    <3>1. ASSUME Uncut' PROVE Closed(seen, seen \cup raw')
      <4>1. Uncut /\ raw' = Fresh
        BY <1>1, <2>1, <3>1 DEF Uncut
      <4>2. Closed(seen \ beam, seen)
        BY <4>1 DEF ExpandedKept
      <4>3. ASSUME NEW c \in Sound, NEW op \in ops, NEW parent \in beam, c \in Derived[op][parent]
            PROVE  c \in seen \cup raw'
        BY <4>1, <4>3 DEF Fresh
      <4> QED
        BY <4>2, <4>3 DEF Closed
    <3>2. raw' = {} => seen \cup raw' = seen
      OBVIOUS
    <3>3. ops' = ops /\ seen' = seen /\ scored' = {} /\ seen' \ scored' = seen
      BY <2>1
    <3>4. Uncut' /\ stage' = "scoring" => Closed(seen \ scored, seen \cup raw)'
      BY <3>1, <3>3 DEF Closed
    <3>5. Uncut' /\ stage' = "certifying" => Closed(seen, seen)'
      BY <2>1, <3>1, <3>2, <3>3 DEF Closed
    <3>6. stage' # "expanding"
      BY <2>1
    <3> QED
      BY <3>4, <3>5, <3>6 DEF ExpandedKept
  <2> QED
    BY <1>2, <1>3, <2>2, <2>3, <2>4, <2>5
<1> QED
  BY <1>4, <1>5

\* The scoring of a generation keeps the invariant.
LEMMA ScoreKeeps ==
    ASSUME SearchInv, ScoreNext
    PROVE  SearchInv'
<1> USE DEF SearchInv, searchRequest
<1> DEFINE c == Min(raw)
<1>1. c \in raw
  <2>1. raw \subseteq Nat /\ raw # {}
    BY SearchAssumption DEF SearchAssumption, PoolKept, ScoreNext
  <2>2. PICK m \in raw : \A n \in raw : m <= n
    BY <2>1, LeastNumber
  <2> QED
    BY <2>2 DEF Min
<1>2. /\ UNCHANGED <<ops, plans, budget, does, beam, best, generation>> /\ stage = "scoring"
      /\ \/ /\ outcome' = Failed("unverifiable") /\ stage' = "over"
            /\ UNCHANGED <<raw, seen, scored, fitness, evaluated>>
         \/ /\ raw' = raw \ {c} /\ seen' = seen \cup {c} /\ scored' = scored \cup {c}
            /\ fitness' = [fitness EXCEPT ![c] = FitnessOf(c)]
            /\ evaluated' = evaluated + 1 /\ UNCHANGED <<outcome, stage>>
  BY Zenon DEF ScoreNext
<1> HIDE DEF c
<1>3. RequestKept'
  BY <1>2 DEF RequestKept
<1>4. CASE outcome' = Failed("unverifiable") /\ stage' = "over"
           /\ UNCHANGED <<raw, seen, scored, fitness, evaluated>>
  BY <1>2, <1>3, <1>4 DEF PoolKept, OutcomeKept, BestKept, BudgetHeld, ExpandedKept, Uncut, Failed
<1>5. CASE /\ raw' = raw \ {c} /\ seen' = seen \cup {c} /\ scored' = scored \cup {c}
           /\ fitness' = [fitness EXCEPT ![c] = FitnessOf(c)]
           /\ evaluated' = evaluated + 1 /\ UNCHANGED <<outcome, stage>>
  <2>1. c \in Sound /\ c \notin seen /\ IsFiniteSet(seen) /\ IsFiniteSet(raw)
    BY <1>1 DEF PoolKept
  <2>2. /\ IsFiniteSet(seen') /\ Cardinality(seen') = Cardinality(seen) + 1
        /\ IsFiniteSet(raw') /\ Cardinality(raw') = Cardinality(raw) - 1
    BY <1>1, <1>5, <2>1, FS_AddElement, FS_RemoveElement
  <2>3. PoolKept'
    <3>1. fitness' \in [Sound -> Int]
      BY <1>5, FitnessIsInteger DEF PoolKept
    <3>2. c # best /\ c \in scored'
      BY <1>5, <2>1 DEF PoolKept
    <3> QED
      BY <1>1, <1>2, <1>5, <2>1, <2>2, <3>1, <3>2 DEF PoolKept
  <2>4. OutcomeKept'
    BY <1>2, <1>5 DEF OutcomeKept
  <2>5. BestKept'
    <3>1. seen' \ (scored' \cup {best}) = seen \ (scored \cup {best})
      BY <1>5, <2>1
    <3>2. \A d \in seen : d # c /\ fitness'[d] = fitness[d]
      BY <1>5, <2>1 DEF PoolKept
    <3>3. \A d \in seen \ (scored \cup {best}) : Better(best, d)'
      BY <1>2, <3>2 DEF BestKept, PoolKept, Better
    <3>4. stage' = "scoring" /\ outcome'.kind = "pending"
      BY <1>2, <1>5 DEF OutcomeKept
    <3> QED
      BY <1>2, <3>1, <3>3, <3>4 DEF BestKept
  <2>6. BudgetHeld'
    <3>1. Cardinality(raw) \in Nat /\ Cardinality(seen) \in Nat
      BY <2>1, FS_CardinalityType
    <3>2. evaluated' \in Nat /\ evaluated' = Cardinality(seen')
      BY <1>5, <2>2 DEF BudgetHeld
    <3>3. evaluated' + Cardinality(raw') = evaluated + Cardinality(raw)
      BY <1>5, <2>2, <3>1 DEF BudgetHeld
    <3> QED
      BY <1>2, <3>2, <3>3 DEF BudgetHeld
  <2>7. ExpandedKept'
    <3>1. Uncut' => Uncut
      <4>1. Cardinality(seen) \in Nat /\ budget.beam \in Nat
        BY <2>1, FS_CardinalityType DEF RequestKept
      <4> QED
        BY <1>2, <2>2, <4>1 DEF Uncut
    <3>2. seen' \ scored' = seen \ scored /\ seen' \cup raw' = seen \cup raw
      BY <1>1, <1>5, <2>1
    <3>3. Uncut' => Closed(seen \ scored, seen \cup raw)'
      BY <1>2, <3>1, <3>2 DEF ExpandedKept, Closed
    <3> QED
      BY <1>2, <1>5, <3>3 DEF ExpandedKept
  <2> QED
    BY <1>3, <2>3, <2>4, <2>5, <2>6, <2>7
<1> QED
  BY <1>2, <1>4, <1>5

\* The selection of the next beam, or the end of the search, keeps the invariant.
LEMMA SelectKeeps ==
    ASSUME SearchInv, Select
    PROVE  SearchInv'
<1> USE DEF SearchInv, searchRequest
<1> DEFINE k == Max({budget.beam, 1})
           w == First(scored)
<1>1. k \in Nat \ {0} /\ k >= budget.beam
  <2>1. budget.beam \in Nat
    BY DEF RequestKept
  <2>2. \E x \in {budget.beam, 1} : \A y \in {budget.beam, 1} : x >= y
    BY <2>1
  <2> QED
    BY <2>1, <2>2 DEF Max
<1>2. /\ scored \subseteq Sound /\ IsFiniteSet(scored) /\ scored # {}
      /\ fitness \in [Sound -> Int] /\ raw = {}
  BY FS_Subset DEF PoolKept, Select
<1> HIDE DEF k
<1>3. /\ Top(scored, k) \subseteq scored /\ Top(scored, k) # {}
      /\ k >= Cardinality(scored) => Top(scored, k) = scored
  BY <1>1, <1>2, TopOfRanking
<1>4. w \in scored /\ \A d \in scored \ {w} : Better(w, d)
  BY <1>2, FirstOfRanking
<1>5. /\ stage = "scoring"
      /\ best' = IF Better(w, best) THEN w ELSE best
      /\ beam' = Top(scored, k)
      /\ stage' \in {"certifying", "expanding"}
      /\ UNCHANGED <<ops, plans, budget, does, seen, raw, scored, fitness, evaluated, generation,
                     outcome>>
  BY DEF Select, k
<1> HIDE DEF w
<1>6. RequestKept'
  BY <1>5 DEF RequestKept
<1>7. PoolKept'
  BY <1>2, <1>3, <1>4, <1>5 DEF PoolKept
<1>8. OutcomeKept'
  BY <1>5 DEF OutcomeKept
<1>9. BestKept'
  <2>0. /\ \A c \in seen : fitness[c] \in Int /\ Size[c] \in Nat /\ c \in Nat
        /\ best \in seen /\ w \in seen /\ best # w
    BY <1>4, <1>5, SearchAssumption DEF SearchAssumption, PoolKept
  <2>1. \A c, d, e \in seen : Better(c, d) /\ Better(d, e) => Better(c, e)
    BY <2>0 DEF Better
  <2>2. \A c, d \in seen : c # d => Better(c, d) \/ Better(d, c)
    BY <2>0 DEF Better
  <2>3. \A c \in seen \ scored : c = best \/ Better(best, c)
    BY <1>5 DEF BestKept
  <2>4. \A c \in seen \ {best'} : Better(best', c)
    <3>1. CASE Better(w, best)
      <4>1. ASSUME NEW c \in seen, c # w PROVE Better(w, c)
        <5>1. CASE c \in scored
          BY <1>4, <4>1, <5>1
        <5>2. CASE c \notin scored
          BY <2>0, <2>1, <2>3, <3>1, <5>2
        <5> QED
          BY <5>1, <5>2
      <4> QED
        BY <1>5, <3>1, <4>1
    <3>2. CASE ~Better(w, best)
      <4>1. Better(best, w)
        BY <2>0, <2>2, <3>2
      <4>2. ASSUME NEW c \in seen, c # best PROVE Better(best, c)
        <5>1. CASE c \in scored
          BY <1>4, <2>0, <2>1, <4>1, <5>1
        <5>2. CASE c \notin scored
          BY <2>3, <4>2, <5>2
        <5> QED
          BY <5>1, <5>2
      <4> QED
        BY <1>5, <3>2, <4>2
    <3> QED
      BY <3>1, <3>2
  <2>5. \A c \in seen' \ {best'} : Better(best, c)'
    BY <1>5, <2>4 DEF Better
  <2> QED
    BY <1>5, <2>5 DEF BestKept
<1>10. BudgetHeld'
  BY <1>5 DEF BudgetHeld
<1>11. ExpandedKept'
  <2>1. ASSUME Uncut' PROVE beam' = scored /\ Closed(seen \ scored, seen)
    <3>1. Uncut
      BY <1>5, <2>1 DEF Uncut
    <3>2. Closed(seen \ scored, seen \cup raw) /\ seen \cup raw = seen
      BY <1>2, <1>5, <3>1 DEF ExpandedKept
    <3>3. Cardinality(scored) <= Cardinality(seen) /\ Cardinality(scored) \in Nat
          /\ Cardinality(seen) \in Nat /\ budget.beam \in Nat
      BY <1>2, FS_Subset, FS_CardinalityType DEF PoolKept, RequestKept
    <3>4. k >= Cardinality(scored)
      BY <1>1, <3>1, <3>3 DEF Uncut
    <3> QED
      BY <1>3, <1>5, <3>2, <3>4
  <2>2. Uncut' => Closed(seen \ beam, seen)'
    BY <1>5, <2>1 DEF Closed
  <2> QED
    BY <1>2, <1>5, <2>2 DEF ExpandedKept
<1> QED
  BY <1>6, <1>7, <1>8, <1>9, <1>10, <1>11

\* The certification of the incumbent keeps the invariant.
LEMMA CertifyKeeps ==
    ASSUME SearchInv, Certify
    PROVE  SearchInv'
<1> USE DEF SearchInv, Certify, searchRequest, Failed
<1>1. RequestKept' /\ PoolKept'
  BY DEF RequestKept, PoolKept
<1>2. OutcomeKept'
  BY DEF OutcomeKept
<1>3. BestKept'
  BY DEF BestKept, Better
<1>4. BudgetHeld' /\ ExpandedKept'
  BY DEF BudgetHeld, ExpandedKept
<1> QED
  BY <1>1, <1>2, <1>3, <1>4

\* At any time the search keeps its pool, its incumbent, its budget and what it has
\* expanded in step, for any candidates, operators, plans and budgets.
THEOREM SearchCorrect == SearchSpec => []SearchInv
<1>1. SearchInv /\ [SearchNext]_searchVars => SearchInv'
  <2> SUFFICES ASSUME SearchInv, [SearchNext]_searchVars PROVE SearchInv'
    OBVIOUS
  <2>1. CASE UNCHANGED searchVars
    BY <2>1 DEF SearchInv, searchVars, RequestKept, PoolKept, OutcomeKept, BestKept, Better,
                BudgetHeld, ExpandedKept, Uncut, Closed
  <2> QED
    BY <2>1, BeginKeeps, ExpandKeeps, ScoreKeeps, SelectKeeps, CertifyKeeps DEF SearchNext
<1> QED
  BY <1>1, SearchStarts, PTL DEF SearchSpec

\* Plans that the search takes have no piece of evidence in common: assertions, fixtures
\* and relations are of different kinds, so that comparing each kind with itself is enough.
LEMMA ApartIfNotShared ==
    ASSUME NEW f \in VerificationPlan, NEW h \in VerificationPlan, ~SharedEvidence(f, h)
    PROVE  LET Checks(plan) == Assertions(plan) \cup Range(plan.golden) \cup Range(plan.semantic)
           IN  Checks(f) \cap Checks(h) = {}
<1>1. ASSUME NEW plan \in VerificationPlan
      PROVE  /\ Range(plan.golden) \subseteq GoldenFixture
             /\ Range(plan.semantic) \subseteq SemanticRelation
             /\ Assertions(plan) \subseteq SpecAssertion
  <2>1. plan.golden \in Seq(GoldenFixture) /\ plan.semantic \in Seq(SemanticRelation)
        /\ plan.spec \in Seq(WorkflowSpec)
    BY DEF VerificationPlan, Optional
  <2>2. \A i \in DOMAIN plan.spec : plan.spec[i].assertions \in Seq(SpecAssertion)
    <3>1. \A i \in DOMAIN plan.spec : plan.spec[i] \in WorkflowSpec
      BY <2>1
    <3>2. \A x \in WorkflowSpec : x.assertions \in Seq(SpecAssertion)
      BY DEF WorkflowSpec
    <3> QED
      BY <3>1, <3>2
  <2>3. \A i \in DOMAIN plan.spec : Range(plan.spec[i].assertions) \subseteq SpecAssertion
    BY <2>2 DEF Range
  <2>4. Assertions(plan) \subseteq SpecAssertion
    BY <2>3, Zenon DEF Assertions
  <2> QED
    BY <2>1, <2>4 DEF Range
<1>2. /\ GoldenFixture \cap SemanticRelation = {}
      /\ GoldenFixture \cap SpecAssertion = {}
      /\ SemanticRelation \cap SpecAssertion = {}
  <2>1. \A x \in GoldenFixture : DOMAIN x = {"input", "mode", "expected"}
    BY DEF GoldenFixture
  <2>2. \A x \in SemanticRelation : "kind" \in DOMAIN x /\ x.kind \in {"scaling", "append", "conservation"}
    BY DEF SemanticRelation
  <2>3. \A x \in SpecAssertion : "kind" \in DOMAIN x /\ x.kind \notin {"scaling", "append", "conservation"}
    BY DEF SpecAssertion
  <2> QED
    BY <2>1, <2>2, <2>3
<1> QED
  BY <1>1, <1>2, Zenon DEF SharedEvidence

\* A search reports no candidate as an improvement that was not certified on evidence of its
\* own, keeps to its budget, and says it converged only when nothing is left to try: all of
\* SearchSound, for any candidates, operators, plans and budgets.
THEOREM SearchIsSound == SearchSpec => []SearchSound
<1>1. SearchInv => SearchSound
  <2> SUFFICES ASSUME SearchInv PROVE SearchSound
    OBVIOUS
  <2> USE DEF SearchInv
  <2>1. SearchTypeOK
    BY DEF PoolKept, OutcomeKept, SearchTypeOK
  <2>2. BestOfAll
    BY DEF BestKept, BestOfAll
  <2>3. BudgetKept
    <3>1. ASSUME budget.cap > 0 PROVE evaluated <= 1 + budget.cap * generation
      <4>1. Cardinality(raw) \in Nat
        BY FS_CardinalityType DEF PoolKept
      <4>2. budget.cap * generation \in Nat
        BY DEF RequestKept, BudgetHeld
      <4> QED
        BY <3>1, <4>1, <4>2 DEF BudgetHeld
    <3> QED
      BY <3>1 DEF BudgetHeld, BudgetKept
  <2>4. ConvergedIsExhausted
    BY DEF ExpandedKept, Uncut, Closed, ConvergedIsExhausted
  <2>5. CertifiedApart
    <3> SUFFICES ASSUME outcome.kind = "found" PROVE CertifiedApart
      BY DEF CertifiedApart
    <3>1. /\ ~SharedEvidence(plans.fitness, plans.holdout)
          /\ plans.fitness \in VerificationPlan /\ plans.holdout \in VerificationPlan
      BY DEF OutcomeKept, RequestKept
    <3>2. StatedInputs(plans.fitness) \cap StatedInputs(plans.holdout) = {}
      BY <3>1 DEF SharedEvidence
    <3> QED
      BY <3>1, <3>2, ApartIfNotShared, Zenon DEF CertifiedApart
  <2> QED
    BY <2>1, <2>2, <2>3, <2>4, <2>5 DEF SearchSound
<1> QED
  BY <1>1, SearchCorrect, PTL

-----------------------------------------------------------------------------
(* Sequences of sequences. *)

\* The sequences of ss, one after the other, up to the i-th.
JoinedUpTo(ss, f, n) ==
    /\ f[1] = ss[1]
    /\ \A i \in 2..n : f[i] = f[i - 1] \o ss[i]

\* FlattenSeq puts sequences one after the other.
LEMMA FlattenIs ==
    ASSUME NEW X, NEW n \in Nat \ {0}, NEW ss \in [1..n -> Seq(X)]
    PROVE  \E f \in [1..n -> Seq(X)] : JoinedUpTo(ss, f, n) /\ FlattenSeq(ss) = f[n]
<1> DEFINE S == Seq(X)
<1>a. ss \in [1..n -> S] /\ \A x, y \in S : x \o y \in S
  OBVIOUS
<1> DEFINE Missing == {m \in Nat \ {0} : m <= n /\ ~\E f \in [1..m -> S] : JoinedUpTo(ss, f, m)}
<1>0. Len(ss) = n
  OBVIOUS
<1> HIDE DEF S
<1>1. ASSUME Missing # {} PROVE FALSE
  <2>1. PICK l \in Missing : \A m \in Missing : l <= m
    BY <1>1, LeastNumber
  <2>2. l \in Nat /\ l > 0 /\ l <= n /\ ~\E f \in [1..l -> S] : JoinedUpTo(ss, f, l)
    BY <2>1
  <2>3. l # 1
    <3>1. [i \in 1..1 |-> ss[1]] \in [1..1 -> S]
      BY <1>a
    <3>2. JoinedUpTo(ss, [i \in 1..1 |-> ss[1]], 1)
      BY DEF JoinedUpTo
    <3> QED
      BY <2>2, <3>1, <3>2
  <2>4. l - 1 \notin Missing /\ l - 1 \in Nat \ {0} /\ l - 1 <= n
    BY <2>1, <2>2, <2>3
  <2>5. PICK f \in [1..(l - 1) -> S] : JoinedUpTo(ss, f, l - 1)
    BY <2>4
  <2> DEFINE v(i) == IF i = l THEN f[l - 1] \o ss[l] ELSE f[i]
             g == [i \in 1..l |-> v(i)]
  <2>6. f[l - 1] \in S /\ ss[l] \in S /\ f[l - 1] \o ss[l] \in S
    BY <1>a, <2>2, <2>4
  <2>7. g \in [1..l -> S]
    <3>1. \A i \in 1..l : i # l => i \in 1..(l - 1)
      BY <2>2
    <3>2. \A i \in 1..(l - 1) : f[i] \in S
      OBVIOUS
    <3>3. \A i \in 1..l : v(i) \in S
      BY <2>6, <3>1, <3>2, Zenon
    <3> HIDE DEF v
    <3> QED
      BY <3>3
  <2>8. g[l] = f[l - 1] \o ss[l] /\ \A i \in 1..(l - 1) : g[i] = f[i]
    <3>1. l \in 1..l /\ \A i \in 1..(l - 1) : i \in 1..l /\ i # l
      BY <2>2
    <3>2. \A i \in 1..l : g[i] = v(i)
      BY Zenon
    <3>3. v(l) = f[l - 1] \o ss[l] /\ \A i : i # l => v(i) = f[i]
      BY Zenon
    <3> HIDE DEF g, v
    <3> QED
      BY <3>1, <3>2, <3>3
  <2> HIDE DEF g
  <2>9. JoinedUpTo(ss, g, l)
    <3>1. g[1] = ss[1]
      BY <2>4, <2>5, <2>8 DEF JoinedUpTo
    <3>2. ASSUME NEW i \in 2..l PROVE g[i] = g[i - 1] \o ss[i]
      <4>1. i - 1 \in 1..(l - 1)
        BY <2>2
      <4>2. CASE i = l
        BY <4>1, <4>2, <2>8
      <4>3. CASE i # l
        <5>1. i \in 2..(l - 1) /\ i \in 1..(l - 1)
          BY <2>2, <4>3
        <5> QED
          BY <4>1, <5>1, <2>5, <2>8 DEF JoinedUpTo
      <4> QED
        BY <4>2, <4>3
    <3> QED
      BY <3>1, <3>2 DEF JoinedUpTo
  <2> QED
    BY <2>2, <2>7, <2>9
<1>2. PICK f \in [1..n -> Seq(X)] : JoinedUpTo(ss, f, n)
  BY <1>1 DEF S
<1> DEFINE Flat(g) == g = [i \in 1..n |-> IF i = 1 THEN ss[i] ELSE g[i - 1] \o ss[i]]
           flat == CHOOSE g : Flat(g)
<1>3. Flat(f)
  <2>1. ASSUME NEW i \in 1..n PROVE f[i] = IF i = 1 THEN ss[i] ELSE f[i - 1] \o ss[i]
    <3>1. CASE i = 1
      BY <1>2, <3>1 DEF JoinedUpTo
    <3>2. CASE i # 1
      <4>1. i \in 2..n
        BY <3>2
      <4> QED
        BY <1>2, <3>2, <4>1 DEF JoinedUpTo
    <3> QED
      BY <3>1, <3>2
  <2>2. f = [i \in 1..n |-> f[i]]
    OBVIOUS
  <2> QED
    BY <2>1, <2>2
<1>4. Flat(flat)
  BY <1>3, Zenon
<1>5. FlattenSeq(ss) = flat[n]
  <2>1. Len(ss) # 0
    BY <1>0
  <2> QED
    BY <1>0, <2>1 DEF FlattenSeq
<1> HIDE DEF flat
<1>6. DOMAIN flat = 1..n /\ \A i \in 1..n : flat[i] = IF i = 1 THEN ss[i] ELSE flat[i - 1] \o ss[i]
  BY <1>4
<1>7. \A i \in 1..n : flat[i] = f[i]
  <2> DEFINE Off == {i \in 1..n : flat[i] # f[i]}
  <2>1. SUFFICES ASSUME Off # {} PROVE FALSE
    OBVIOUS
  <2>2. PICK l \in Off : \A m \in Off : l <= m
    <3>1. Off \subseteq Nat
      OBVIOUS
    <3> QED
      BY <2>1, <3>1, LeastNumber
  <2>3. l \in 1..n /\ flat[l] # f[l]
    BY <2>2
  <2>4. CASE l = 1
    BY <1>2, <1>6, <2>3, <2>4 DEF JoinedUpTo
  <2>5. CASE l # 1
    <3>1. l \in 2..n /\ l - 1 \in 1..n /\ l - 1 \notin Off
      BY <2>2, <2>3, <2>5
    <3>2. flat[l - 1] = f[l - 1]
      BY <3>1
    <3> QED
      BY <1>2, <1>6, <2>3, <2>5, <3>1, <3>2 DEF JoinedUpTo
  <2> QED
    BY <2>4, <2>5
<1>8. FlattenSeq(ss) = f[n]
  BY <1>5, <1>7
<1> QED
  BY <1>2, <1>8

-----------------------------------------------------------------------------
(* How often: multisets of sequences. *)

\* How many of s are in C.
Occurs(s, C) == Cardinality({i \in DOMAIN s : s[i] \in C})

\* Sets of which one is numbered by the other have as many elements.
LEMMA Renumbered ==
    ASSUME NEW S, NEW T, IsFiniteSet(S), NEW f \in [S -> T],
           \A i, j \in S : f[i] = f[j] => i = j, \A t \in T : \E i \in S : f[i] = t
    PROVE  IsFiniteSet(T) /\ Cardinality(T) = Cardinality(S)
<1>1. ExistsBijection(S, T)
  BY Zenon DEF ExistsBijection, Bijection, Injection, Surjection, IsInjective
<1> QED
  BY <1>1, FS_Bijection

\* A number of positions.
LEMMA OccursIs ==
    ASSUME NEW S, NEW s \in Seq(S), NEW C
    PROVE  /\ IsFiniteSet({i \in DOMAIN s : s[i] \in C}) /\ Occurs(s, C) \in Nat
           /\ Occurs(s, C) = 0 <=> \A i \in DOMAIN s : s[i] \notin C
           /\ S \subseteq C => Occurs(s, C) = Len(s)
<1> DEFINE P == {i \in DOMAIN s : s[i] \in C}
<1>1. DOMAIN s = 1..Len(s) /\ Len(s) \in Nat
  OBVIOUS
<1>2. IsFiniteSet(1..Len(s)) /\ Cardinality(1..Len(s)) = Len(s)
  BY <1>1, FS_Interval
<1>3. IsFiniteSet(P)
  BY <1>1, <1>2, FS_Subset
<1>4. Cardinality(P) \in Nat /\ (Cardinality(P) = 0 <=> P = {})
  BY <1>3, FS_CardinalityType, FS_EmptySet
<1>5. ASSUME S \subseteq C PROVE P = 1..Len(s)
  BY <1>1, <1>5
<1> QED
  BY <1>2, <1>3, <1>4, <1>5 DEF Occurs

\* One after the other.
LEMMA OccursJoined ==
    ASSUME NEW S, NEW s \in Seq(S), NEW t \in Seq(S), NEW C
    PROVE  Occurs(s \o t, C) = Occurs(s, C) + Occurs(t, C)
<1> DEFINE P == {i \in DOMAIN s : s[i] \in C}
           Q == {i \in DOMAIN t : t[i] \in C}
           m == Len(s)
           R == {m + i : i \in Q}
           f == [i \in Q |-> m + i]
<1>1. IsFiniteSet(P) /\ IsFiniteSet(Q)
  BY OccursIs
<1>2. m \in Nat /\ Len(t) \in Nat /\ DOMAIN s = 1..m /\ DOMAIN t = 1..Len(t)
  OBVIOUS
<1>3. IsFiniteSet(R) /\ Cardinality(R) = Cardinality(Q)
  <2>1. f \in [Q -> R] /\ \A r \in R : \E i \in Q : f[i] = r
    OBVIOUS
  <2>2. \A i, j \in Q : f[i] = f[j] => i = j
    BY <1>2
  <2> HIDE DEF f, Q, R
  <2> QED
    BY <1>1, <2>1, <2>2, Renumbered
<1>4. {i \in DOMAIN (s \o t) : (s \o t)[i] \in C} = P \cup R
  <2>1. /\ DOMAIN (s \o t) = 1..(m + Len(t))
        /\ \A i \in 1..m : (s \o t)[i] = s[i]
        /\ \A i \in 1..Len(t) : (s \o t)[m + i] = t[i]
    BY <1>2
  <2>2. \A i \in DOMAIN (s \o t) : i \in 1..m \/ (i - m \in 1..Len(t) /\ i = m + (i - m))
    BY <1>2, <2>1
  <2>3. \A i \in 1..m : i \in DOMAIN (s \o t)
    BY <1>2, <2>1
  <2>4. \A i \in 1..Len(t) : m + i \in DOMAIN (s \o t)
    BY <1>2, <2>1
  <2>5. ASSUME NEW i \in DOMAIN (s \o t), (s \o t)[i] \in C PROVE i \in P \cup R
    <3>1. CASE i \in 1..m
      BY <1>2, <2>1, <2>5, <3>1
    <3>2. CASE i - m \in 1..Len(t) /\ i = m + (i - m)
      <4>1. i - m \in Q
        BY <1>2, <2>1, <2>5, <3>2
      <4> QED
        BY <3>2, <4>1
    <3> QED
      BY <2>2, <3>1, <3>2
  <2>6. ASSUME NEW i \in P PROVE i \in DOMAIN (s \o t) /\ (s \o t)[i] \in C
    BY <1>2, <2>1, <2>3
  <2>7. ASSUME NEW i \in R PROVE i \in DOMAIN (s \o t) /\ (s \o t)[i] \in C
    <3>1. PICK j \in Q : i = m + j
      OBVIOUS
    <3>2. j \in 1..Len(t) /\ t[j] \in C
      BY <1>2
    <3> QED
      BY <2>1, <2>4, <3>1, <3>2
  <2> QED
    BY <2>5, <2>6, <2>7
<1>5. P \cap R = {}
  BY <1>2
<1>6. Cardinality(P \cup R) = Cardinality(P) + Cardinality(R)
  <2> HIDE DEF P, R
  <2>1. Cardinality(P \cup R) = Cardinality(P) + Cardinality(R) - Cardinality({})
    BY <1>1, <1>3, <1>5, FS_Union
  <2> QED
    BY <1>1, <1>3, <2>1, FS_EmptySet, FS_CardinalityType
<1> QED
  BY <1>3, <1>4, <1>6 DEF Occurs

\* Backwards.
LEMMA OccursReversed ==
    ASSUME NEW S, NEW s \in Seq(S), NEW C
    PROVE  Occurs(Reverse(s), C) = Occurs(s, C) /\ Reverse(s) \in Seq(S)
<1> DEFINE P == {i \in DOMAIN s : s[i] \in C}
           r == Reverse(s)
           Q == {i \in DOMAIN r : r[i] \in C}
           n == Len(s)
           f == [i \in P |-> n - i + 1]
<1>1. n \in Nat /\ DOMAIN s = 1..n
  OBVIOUS
<1>a. IsFiniteSet(P)
  BY OccursIs
<1>2. DOMAIN r = 1..n /\ \A i \in 1..n : r[i] = s[n - i + 1] /\ n - i + 1 \in 1..n
  BY <1>1 DEF Reverse
<1>3. r \in Seq(S)
  BY <1>1, <1>2 DEF Reverse
<1> HIDE DEF r, n
<1>4. f \in [P -> Q] /\ \A i, j \in P : f[i] = f[j] => i = j
  BY <1>1, <1>2
<1>5. ASSUME NEW q \in Q PROVE \E i \in P : f[i] = q
  <2>1. q \in 1..n /\ n - q + 1 \in P /\ n - (n - q + 1) + 1 = q
    BY <1>1, <1>2
  <2> QED
    BY <2>1
<1>6. Cardinality(Q) = Cardinality(P)
  <2> HIDE DEF P, Q, f
  <2> QED
    BY <1>a, <1>4, <1>5, Renumbered
<1> QED
  BY <1>3, <1>6 DEF Occurs, r

\* Sequences in which everything occurs as often are the same multiset.
LEMMA SameMultiset ==
    ASSUME NEW S, NEW s \in Seq(S), NEW t \in Seq(S),
           \A C \in SUBSET S : Occurs(s, C) = Occurs(t, C)
    PROVE  MultisetEq(s, t)
<1>1. Len(s) = Len(t)
  <2>1. Occurs(s, S) = Occurs(t, S)
    OBVIOUS
  <2>2. Occurs(s, S) = Len(s) /\ Occurs(t, S) = Len(t)
    BY OccursIs
  <2> QED
    BY <2>1, <2>2
<1>2. \A v \in S : Occurs(s, {v}) = Occurs(t, {v})
  OBVIOUS
<1>3. Range(s) \subseteq S /\ Range(t) \subseteq S
  BY DEF Range
<1>4. \A v \in S : (v \in Range(s) <=> Occurs(s, {v}) # 0) /\ (v \in Range(t) <=> Occurs(t, {v}) # 0)
  <2>1. ASSUME NEW u \in Seq(S), NEW v \in S PROVE v \in Range(u) <=> Occurs(u, {v}) # 0
    <3>1. Occurs(u, {v}) = 0 <=> \A i \in DOMAIN u : u[i] \notin {v}
      BY OccursIs
    <3> QED
      BY <3>1 DEF Range
  <2> QED
    BY <2>1
<1>5. Range(s) = Range(t)
  BY <1>2, <1>3, <1>4
<1>6. \A u, v : Cardinality({i \in DOMAIN u : u[i] = v}) = Occurs(u, {v})
  <2>1. \A u, v : {i \in DOMAIN u : u[i] = v} = {i \in DOMAIN u : u[i] \in {v}}
    OBVIOUS
  <2> QED
    BY <2>1 DEF Occurs
<1>7. MultisetOf(s) = [v \in Range(s) |-> Occurs(s, {v})]
      /\ MultisetOf(t) = [v \in Range(t) |-> Occurs(t, {v})]
  BY <1>6 DEF MultisetOf
<1>8. [v \in Range(s) |-> Occurs(s, {v})] = [v \in Range(t) |-> Occurs(t, {v})]
  BY <1>2, <1>3, <1>5
<1> QED
  BY <1>1, <1>7, <1>8 DEF MultisetEq

\* Over and over again.
LEMMA OccursRepeated ==
    ASSUME NEW S, NEW s \in Seq(S), NEW k \in Nat \ {0}, NEW C
    PROVE  Occurs(Times(s, k), C) = k * Occurs(s, C) /\ Times(s, k) \in Seq(S)
<1> DEFINE ss == [i \in 1..k |-> s]
<1>1. ss \in [1..k -> Seq(S)] /\ \A i \in 1..k : ss[i] = s
  OBVIOUS
<1>2. Times(s, k) = FlattenSeq(ss)
  BY DEF Times
<1> HIDE DEF ss
<1>3. PICK f \in [1..k -> Seq(S)] : JoinedUpTo(ss, f, k) /\ FlattenSeq(ss) = f[k]
  BY <1>1, FlattenIs
<1>4. Occurs(s, C) \in Nat
  BY OccursIs
<1> DEFINE Off == {i \in 1..k : Occurs(f[i], C) # i * Occurs(s, C)}
<1>5. ASSUME Off # {} PROVE FALSE
  <2>0. Off \subseteq Nat
    OBVIOUS
  <2>1. PICK l \in Off : \A m \in Off : l <= m
    BY <1>5, <2>0, LeastNumber
  <2>2. l \in 1..k /\ Occurs(f[l], C) # l * Occurs(s, C)
    BY <2>1
  <2>3. l # 1
    <3>1. f[1] = s
      BY <1>1, <1>3 DEF JoinedUpTo
    <3> QED
      BY <1>4, <2>2, <3>1
  <2>4. l \in 2..k /\ l - 1 \in 1..k /\ l - 1 \notin Off
    BY <2>1, <2>2, <2>3
  <2>5. f[l] = f[l - 1] \o s /\ f[l - 1] \in Seq(S)
    BY <1>1, <1>3, <2>4 DEF JoinedUpTo
  <2>6. Occurs(f[l], C) = Occurs(f[l - 1], C) + Occurs(s, C)
    BY <2>5, OccursJoined
  <2>7. Occurs(f[l - 1], C) = (l - 1) * Occurs(s, C)
    BY <2>4
  <2>8. \A a, b \in Int : (a - 1) * b + b = a * b
    OBVIOUS
  <2> QED
    BY <1>4, <2>2, <2>6, <2>7, <2>8
<1>6. f[k] \in Seq(S) /\ k \notin Off /\ k \in 1..k
  BY <1>5
<1> QED
  BY <1>2, <1>3, <1>6

\* The elements of s that are in D.
Filtered(s, D) == FlattenSeq([i \in DOMAIN s |-> IF s[i] \in D THEN <<s[i]>> ELSE <<>>])

\* What a filter lets through.
LEMMA OccursFiltered ==
    ASSUME NEW S, NEW s \in Seq(S), NEW D, NEW C
    PROVE  Filtered(s, D) \in Seq(S) /\ Occurs(Filtered(s, D), C) = Occurs(s, C \cap D)
<1> DEFINE n == Len(s)
           piece(i) == IF s[i] \in D THEN <<s[i]>> ELSE <<>>
           ss == [i \in DOMAIN s |-> piece(i)]
           t == FlattenSeq(ss)
           Kept(i) == {j \in 1..i : s[j] \in C \cap D}
<1>0. Filtered(s, D) = t
  BY Zenon DEF Filtered
<1>1. n \in Nat /\ DOMAIN s = 1..n /\ \A i \in 1..n : s[i] \in S
  OBVIOUS
<1>2. CASE n = 0
  <2>1. t = <<>>
    BY <1>1, <1>2 DEF FlattenSeq
  <2>2. t \in Seq(S) /\ {i \in DOMAIN t : t[i] \in C} = {} /\ {i \in DOMAIN s : s[i] \in C \cap D} = {}
    <3> HIDE DEF t
    <3> QED
      BY <1>1, <1>2, <2>1
  <2> HIDE DEF t
  <2> QED
    BY <1>0, <2>2 DEF Occurs
<1>3. CASE n # 0
  <2>1. n \in Nat \ {0} /\ ss \in [1..n -> Seq(S)] /\ \A i \in 1..n : ss[i] = piece(i)
    <3>1. \A i \in 1..n : piece(i) \in Seq(S)
      BY <1>1
    <3> HIDE DEF piece
    <3> QED
      BY <1>1, <1>3, <3>1
  <2> HIDE DEF ss
  <2>2. PICK f \in [1..n -> Seq(S)] : JoinedUpTo(ss, f, n) /\ t = f[n]
    BY <2>1, FlattenIs
  <2>3. ASSUME NEW i \in 1..n
        PROVE  /\ piece(i) \in Seq(S)
               /\ Occurs(piece(i), C) = IF s[i] \in C \cap D THEN 1 ELSE 0
    <3>1. CASE s[i] \in D /\ s[i] \in C
      <4>1. piece(i) = <<s[i]>> /\ {j \in DOMAIN <<s[i]>> : <<s[i]>>[j] \in C} = {1}
        BY <3>1
      <4>2. piece(i) \in Seq(S)
        BY <1>1
      <4>3. Occurs(piece(i), C) = 1
        <5> HIDE DEF piece
        <5> QED
          BY <4>1, FS_Singleton, Zenon DEF Occurs
      <4> QED
        BY <3>1, <4>2, <4>3
    <3>2. CASE s[i] \notin D \/ s[i] \notin C
      <4>1. {j \in DOMAIN piece(i) : piece(i)[j] \in C} = {}
        BY <3>2
      <4>2. piece(i) \in Seq(S)
        BY <1>1
      <4> HIDE DEF piece
      <4> QED
        BY <3>2, <4>1, <4>2, FS_EmptySet DEF Occurs
    <3> QED
      BY <3>1, <3>2
  <2>4. \A i \in 1..n : IsFiniteSet(Kept(i)) /\ Cardinality(Kept(i)) \in Nat
    <3>1. \A i \in 1..n : IsFiniteSet(1..i) /\ Kept(i) \subseteq 1..i
      BY FS_Interval
    <3> QED
      BY <3>1, FS_Subset, FS_CardinalityType
  <2>5. ASSUME NEW i \in 2..n
        PROVE  Cardinality(Kept(i)) = Cardinality(Kept(i - 1)) + Occurs(piece(i), C)
    <3>1. i \in 1..n /\ i - 1 \in 1..n /\ i \notin Kept(i - 1)
      BY <1>1
    <3>2. CASE s[i] \in C \cap D
      <4>1. Kept(i) = Kept(i - 1) \cup {i}
        BY <3>1, <3>2
      <4> QED
        BY <2>3, <2>4, <3>1, <3>2, <4>1, FS_AddElement
    <3>3. CASE s[i] \notin C \cap D
      <4>1. Kept(i) = Kept(i - 1)
        BY <3>1, <3>3
      <4> QED
        <5>1. Occurs(piece(i), C) = 0
          BY <2>3, <3>1, <3>3
        <5>2. Cardinality(Kept(i - 1)) \in Nat
          BY <2>4, <3>1
        <5> HIDE DEF piece, Kept
        <5> QED
          BY <4>1, <5>1, <5>2
    <3> QED
      BY <3>2, <3>3
  <2>6. Cardinality(Kept(1)) = Occurs(piece(1), C) /\ 1 \in 1..n
    <3>1. 1 \in 1..n
      BY <1>1, <1>3
    <3>2. CASE s[1] \in C \cap D
      <4>1. Kept(1) = {1}
        BY <3>2
      <4> QED
        BY <2>3, <3>1, <3>2, <4>1, FS_Singleton
    <3>3. CASE s[1] \notin C \cap D
      <4>1. Kept(1) = {}
        BY <3>3
      <4> QED
        BY <2>3, <3>1, <3>3, <4>1, FS_EmptySet
    <3> QED
      BY <3>1, <3>2, <3>3
  <2> HIDE DEF piece, Kept, t
  <2> DEFINE Off == {i \in 1..n : Occurs(f[i], C) # Cardinality(Kept(i))}
  <2>7. ASSUME Off # {} PROVE FALSE
    <3>0. Off \subseteq Nat
      BY <1>1
    <3>1. PICK l \in Off : \A m \in Off : l <= m
      BY <2>7, <3>0, LeastNumber
    <3>2. l \in 1..n /\ Occurs(f[l], C) # Cardinality(Kept(l))
      BY <3>1
    <3>3. l # 1
      BY <2>1, <2>2, <2>6, <3>2 DEF JoinedUpTo
    <3>4. l \in 2..n /\ l - 1 \in 1..n /\ l - 1 \notin Off
      BY <1>1, <3>1, <3>2, <3>3
    <3>5. f[l] = f[l - 1] \o piece(l) /\ f[l - 1] \in Seq(S)
      BY <2>1, <2>2, <3>2, <3>4 DEF JoinedUpTo
    <3>6. Occurs(f[l], C) = Occurs(f[l - 1], C) + Occurs(piece(l), C)
      BY <2>3, <3>2, <3>5, OccursJoined
    <3> QED
      BY <2>5, <3>2, <3>4, <3>6
  <2>8. n \in 1..n /\ n \notin Off
    BY <1>1, <1>3, <2>7
  <2>9. Cardinality(Kept(n)) = Occurs(s, C \cap D)
    BY <1>1 DEF Occurs, Kept
  <2> QED
    BY <1>0, <2>2, <2>8, <2>9 DEF t, ss, piece
<1> QED
  BY <1>2, <1>3

-----------------------------------------------------------------------------
(* Sums. *)

\* f holds the sums of the first terms of s.
UpTo(s, n, f) ==
    f = [i \in 0..n |-> IF i = 0 THEN 0 ELSE f[i - 1] + (IF s[i] = Absent THEN 0 ELSE s[i])]

\* The partial sums of a sequence, one term further.
LEMMA OneMoreTerm ==
    ASSUME NEW s, NEW n \in Nat, \E f : UpTo(s, n, f)
    PROVE  \E f : UpTo(s, n + 1, f)
<1>1. PICK f : UpTo(s, n, f)
  OBVIOUS
<1> DEFINE last == f[n] + (IF s[n + 1] = Absent THEN 0 ELSE s[n + 1])
           g == [i \in 0..(n + 1) |-> IF i = n + 1 THEN last ELSE f[i]]
<1>2. \A i \in 0..n : f[i] = IF i = 0 THEN 0 ELSE f[i - 1] + (IF s[i] = Absent THEN 0 ELSE s[i])
  BY <1>1 DEF UpTo
<1>3. \A i \in 0..n : g[i] = f[i]
  OBVIOUS
<1>4. g[n + 1] = last
  OBVIOUS
<1> HIDE DEF last
<1>5. ASSUME NEW i \in 0..(n + 1)
      PROVE  g[i] = IF i = 0 THEN 0 ELSE g[i - 1] + (IF s[i] = Absent THEN 0 ELSE s[i])
  <2>1. CASE i = n + 1
    <3>1. i # 0 /\ i - 1 = n /\ g[i - 1] = f[n]
      BY <1>3, <2>1
    <3> QED
      BY <1>4, <2>1, <3>1 DEF last
  <2>2. CASE i # n + 1
    <3>1. i \in 0..n /\ (i # 0 => i - 1 \in 0..n)
      BY <2>2
    <3> QED
      BY <1>2, <1>3, <3>1
  <2> QED
    BY <2>1, <2>2
<1>6. g = [i \in 0..(n + 1) |-> g[i]]
  OBVIOUS
<1> HIDE DEF g
<1>7. UpTo(s, n + 1, g)
  BY <1>5, <1>6, Zenon DEF UpTo
<1> QED
  BY <1>7

\* A sequence has partial sums as far as one likes.
LEMMA TermsAddUp == ASSUME NEW s PROVE \A n \in Nat : \E f : UpTo(s, n, f)
<1> DEFINE Missing == {n \in Nat : ~\E f : UpTo(s, n, f)}
<1>1. \E f : UpTo(s, 0, f)
  <2>1. UpTo(s, 0, [i \in 0..0 |-> 0])
    BY DEF UpTo
  <2> QED
    BY <2>1
<1>2. ASSUME Missing # {} PROVE FALSE
  <2>1. PICK n \in Missing : \A m \in Missing : n <= m
    BY <1>2, LeastNumber
  <2>2. n - 1 \in Nat /\ n - 1 \notin Missing
    BY <1>1, <2>1
  <2>3. \E f : UpTo(s, (n - 1) + 1, f)
    BY <2>2, OneMoreTerm
  <2> QED
    BY <2>1, <2>3
<1> QED
  BY <1>2

\* A sum of integers is one.
LEMMA SumIsInteger ==
    ASSUME NEW s \in Seq(Int)
    PROVE  Sum(s) \in Int
<1> DEFINE n == Len(s)
           f == CHOOSE f : UpTo(s, n, f)
           Odd == {i \in 0..n : f[i] \notin Int}
<1>1. n \in Nat /\ \A i \in 1..n : s[i] \in Int
  OBVIOUS
<1>2. Sum(s) = f[n]
  BY DEF Sum, UpTo
<1> HIDE DEF n
<1>3. UpTo(s, n, f)
  BY <1>1, TermsAddUp
<1> HIDE DEF f
<1>4. \A i \in 0..n : f[i] = IF i = 0 THEN 0 ELSE f[i - 1] + (IF s[i] = Absent THEN 0 ELSE s[i])
  BY <1>3 DEF UpTo
<1>5. ASSUME Odd # {} PROVE FALSE
  <2>0. Odd \subseteq Nat
    BY <1>1
  <2>1. PICK i \in Odd : \A j \in Odd : i <= j
    BY <1>5, <2>0, LeastNumber
  <2>2. i \in 1..n /\ i - 1 \in 0..n /\ i - 1 \notin Odd
    BY <1>1, <1>4, <2>1
  <2>3. f[i - 1] \in Int /\ s[i] \in Int
    BY <1>1, <2>2
  <2> QED
    BY <1>1, <1>4, <2>1, <2>2, <2>3
<1> QED
  BY <1>1, <1>2, <1>5

-----------------------------------------------------------------------------
(* What workflows make of an input. *)

\* A workflow that passes every item on, along a number of paths.
Does(reads, paths) == [reads |-> reads, keep |-> "all", paths |-> paths, fails |-> FALSE]

\* A workflow that passes every item on.
LEMMA AllObserved ==
    ASSUME NEW reads \in {"a", "b", "one"}, NEW paths \in 1..2, NEW fed \in Input
    PROVE  /\ Does(reads, paths) \in Workflows /\ Itemwise(Does(reads, paths))
           /\ Len(Observe(Does(reads, paths), fed)) = paths * Len(fed)
<1> DEFINE w == Does(reads, paths)
           out == [i \in DOMAIN fed |-> Reading(w, fed[i])]
<1>1. w \in Workflows /\ Itemwise(w) /\ w.keep = "all" /\ w.paths = paths /\ w.reads = reads
  BY DEF Does, Workflows, Itemwise
<1>2. fed \in Seq(Item)
  BY DEF Input
<1>3. Observe(w, fed) = IF paths = 2 THEN out \o out ELSE out
  BY <1>1 DEF Observe, Reached
<1>4. \A i \in DOMAIN fed : Reading(w, fed[i]) \in Int
  <2>1. \A i \in DOMAIN fed : fed[i] \in Item
    BY <1>2
  <2> QED
    BY <1>1, <2>1 DEF Reading, Item
<1> HIDE DEF w
<1>5. out \in Seq(Int) /\ Len(out) = Len(fed)
  BY <1>2, <1>4
<1> HIDE DEF out
<1>6. Len(out \o out) = Len(fed) + Len(fed)
  BY <1>5
<1>7. Len(fed) \in Nat
  BY <1>2
<1>8. Len(Observe(w, fed)) = paths * Len(fed)
  <2>1. CASE paths = 1
    BY <1>3, <1>5, <1>7, <2>1
  <2>2. CASE paths = 2
    BY <1>3, <1>6, <1>7, <2>2
  <2> QED
    BY <2>1, <2>2
<1> QED
  BY <1>1, <1>8 DEF w

\* What is not filtered by an item's fields is observed from all inputs of one length
\* alike, but for the field that is read.
LEMMA ScalingAnotherField ==
    ASSUME NEW w \in Workflows, w.keep # "large", NEW field \in {"a", "b"}, w.reads # field,
           NEW factor \in Int, NEW fed \in Input
    PROVE  /\ Observe(w, ScaleField(fed, field, factor)) = Observe(w, fed)
           /\ Observe(w, fed) \in Seq(Int)
<1> DEFINE scaled == ScaleField(fed, field, factor)
<1>1. fed \in Seq(Item) /\ Len(fed) \in Nat /\ DOMAIN fed = 1..Len(fed)
  BY DEF Input
<1>2. scaled \in Seq(Item) /\ Len(scaled) = Len(fed) /\ DOMAIN scaled = DOMAIN fed
  <2>1. \A i \in DOMAIN fed : [fed[i] EXCEPT ![field] = @ * factor] \in Item
    <3>1. \A x \in Item : [x EXCEPT !["a"] = @ * factor] \in Item
      BY DEF Item
    <3>2. \A x \in Item : [x EXCEPT !["b"] = @ * factor] \in Item
      BY DEF Item
    <3> QED
      BY <1>1, <3>1, <3>2
  <2> QED
    BY <1>1, <2>1 DEF ScaleField
<1>3. \A i \in DOMAIN fed : /\ Reading(w, scaled[i]) = Reading(w, fed[i])
                              /\ Reading(w, fed[i]) \in Int
  <2> SUFFICES ASSUME NEW i \in DOMAIN fed
               PROVE  /\ Reading(w, scaled[i]) = Reading(w, fed[i])
                      /\ Reading(w, fed[i]) \in Int
    OBVIOUS
  <2>1. fed[i] \in Item /\ scaled[i] = [fed[i] EXCEPT ![field] = @ * factor]
    BY <1>1 DEF ScaleField
  <2>2. w.reads \in {"a", "b", "one"}
    BY DEF Workflows
  <2>3. fed[i].a \in Int /\ fed[i].b \in Int
    BY <2>1 DEF Item
  <2>4. CASE field = "a"
    <3>1. scaled[i].b = fed[i].b
      BY <2>1, <2>4 DEF Item
    <3> HIDE DEF scaled
    <3> QED
      BY <2>2, <2>3, <2>4, <3>1 DEF Reading
  <2>5. CASE field = "b"
    <3>1. scaled[i].a = fed[i].a
      BY <2>1, <2>5 DEF Item
    <3> HIDE DEF scaled
    <3> QED
      BY <2>2, <2>3, <2>5, <3>1 DEF Reading
  <2> QED
    BY <2>4, <2>5
<1> HIDE DEF scaled
<1> DEFINE Out(in) == IF w.keep = "mock" THEN <<Absent>>
                      ELSE [i \in DOMAIN Reached(w, in) |-> Reading(w, Reached(w, in)[i])]
<1>4. Out(scaled) = Out(fed) /\ Out(fed) \in Seq(Int)
  <2>1. CASE w.keep = "all"
    <3>1. Reached(w, scaled) = scaled /\ Reached(w, fed) = fed
      BY <2>1 DEF Reached
    <3>2. Out(scaled) = [i \in DOMAIN fed |-> Reading(w, scaled[i])]
          /\ Out(fed) = [i \in DOMAIN fed |-> Reading(w, fed[i])]
      BY <1>2, <2>1, <3>1
    <3>3. [i \in DOMAIN fed |-> Reading(w, fed[i])] \in Seq(Int)
      BY <1>1, <1>3
    <3> QED
      BY <1>3, <3>2, <3>3
  <2>2. CASE w.keep = "alternate"
    <3> DEFINE n == (Len(fed) + 1) \div 2
               Odd(in) == [i \in 1..n |-> in[2 * i - 1]]
    <3>1. Reached(w, scaled) = Odd(scaled) /\ Reached(w, fed) = Odd(fed)
      BY <1>2, <2>2 DEF Reached
    <3>2. n \in Nat /\ \A i \in 1..n : 2 * i - 1 \in DOMAIN fed
      BY <1>1
    <3> HIDE DEF n
    <3>3. Out(scaled) = [i \in 1..n |-> Reading(w, scaled[2 * i - 1])]
          /\ Out(fed) = [i \in 1..n |-> Reading(w, fed[2 * i - 1])]
      BY <2>2, <3>1
    <3>4. [i \in 1..n |-> Reading(w, fed[2 * i - 1])] \in Seq(Int)
      BY <1>3, <3>2
    <3> QED
      BY <1>3, <3>2, <3>3, <3>4
  <2>3. CASE w.keep = "mock"
    BY <2>3 DEF Absent
  <2> QED
    BY <2>1, <2>2, <2>3 DEF Workflows
<1>5. \A in : Observe(w, in) = IF w.paths = 2 THEN Out(in) \o Out(in) ELSE Out(in)
  BY Zenon DEF Observe
<1> HIDE DEF Out
<1>6. Out(fed) \o Out(fed) \in Seq(Int)
  BY <1>4
<1>7. Observe(w, scaled) = Observe(w, fed) /\ Observe(w, fed) \in Seq(Int)
  BY <1>4, <1>5, <1>6
<1> QED
  BY <1>7 DEF scaled

\* A scaling relation holds of no workflow that does not read its field.
LEMMA ScalingTells ==
    ASSUME NEW w \in Workflows, w.keep # "large", NEW r \in SemanticRelation,
           r.kind = "scaling", w.reads # r.field
    PROVE  ~SemanticHolds(w, r)
<1>1. r.field \in {"a", "b"} /\ r.factor \in Int /\ r.base \in Input
  BY DEF SemanticRelation
<1> DEFINE base == Sum(Observe(w, r.base))
<1>2. /\ Sum(Observe(w, ScaleField(r.base, r.field, r.factor))) = base
      /\ base \in Int
  BY <1>1, ScalingAnotherField, SumIsInteger
<1>3. SemanticHolds(w, r) <=> ~Degenerate(r.factor, base) /\ base = base * r.factor
  BY <1>2 DEF SemanticHolds, ScalingHolds
<1> HIDE DEF base
<1>4. ASSUME r.factor # 1, base # 0, base = base * r.factor PROVE FALSE
  <2>1. base * (r.factor - 1) = 0
    BY <1>1, <1>2, <1>4
  <2>2. r.factor - 1 # 0 /\ r.factor - 1 \in Int
    BY <1>1, <1>4
  <2>3. \A x, y \in Int : x * y = 0 => x = 0 \/ y = 0
    OBVIOUS
  <2> QED
    BY <1>2, <1>4, <2>1, <2>2, <2>3
<1> QED
  BY <1>3, <1>4 DEF Degenerate

-----------------------------------------------------------------------------
(* Workflows that handle their items one by one. *)

\* The items that a workflow makes something in C of.
Sources(w, C) == {x \in Item : (w.keep = "large" => x.a >= 2) /\ Reading(w, x) \in C}

\* What is observed occurs as often as the items it is made of, on every path.
LEMMA ObservedFromItems ==
    ASSUME NEW w \in Workflows, Itemwise(w), NEW s \in Input
    PROVE  /\ Observe(w, s) \in Seq(Int)
           /\ \A C : Occurs(Observe(w, s), C) = w.paths * Occurs(s, Sources(w, C))
<1> DEFINE reached == Reached(w, s)
           out == [i \in DOMAIN reached |-> Reading(w, reached[i])]
           E(C) == {x \in Item : Reading(w, x) \in C}
<1>1. s \in Seq(Item) /\ w.keep \in {"all", "large"} /\ w.paths \in 1..2
      /\ \A x \in Item : Reading(w, x) \in Int
  BY DEF Input, Itemwise, Workflows, Reading, Item
<1>2. reached \in Seq(Item) /\ \A C : Occurs(reached, E(C)) = Occurs(s, Sources(w, C))
  <2>1. CASE w.keep = "all"
    <3>1. reached = s
      BY <2>1 DEF Reached
    <3>2. \A C : E(C) = Sources(w, C)
      BY <2>1 DEF Sources
    <3> HIDE DEF reached, E
    <3> QED
      BY <1>1, <3>1, <3>2
  <2>2. CASE w.keep = "large"
    <3> DEFINE L == {x \in Item : x.a >= 2}
    <3>1. reached = FlattenSeq([i \in DOMAIN s |-> IF s[i].a >= 2 THEN <<s[i]>> ELSE <<>>])
      BY <2>2 DEF Reached
    <3>2. \A i \in DOMAIN s : s[i].a >= 2 <=> s[i] \in L
      BY <1>1
    <3>3. [i \in DOMAIN s |-> IF s[i].a >= 2 THEN <<s[i]>> ELSE <<>>]
          = [i \in DOMAIN s |-> IF s[i] \in L THEN <<s[i]>> ELSE <<>>]
      <4> HIDE DEF L
      <4> QED
        BY <3>2
    <3>4. \A C : E(C) \cap L = Sources(w, C)
      BY <2>2 DEF Sources
    <3> HIDE DEF reached, E, L
    <3>5. reached = Filtered(s, L)
      BY <3>1, <3>3, Zenon DEF Filtered
    <3>a. ASSUME NEW C
          PROVE  reached \in Seq(Item) /\ Occurs(reached, C) = Occurs(s, C \cap L)
      <4>1. s \in Seq(Item)
        BY <1>1
      <4>2. Filtered(s, L) \in Seq(Item) /\ Occurs(Filtered(s, L), C) = Occurs(s, C \cap L)
        BY <4>1, OccursFiltered
      <4> QED
        BY <3>5, <4>2
    <3>6. reached \in Seq(Item) /\ \A C : Occurs(reached, C) = Occurs(s, C \cap L)
      BY <3>a
    <3> QED
      BY <3>4, <3>6
  <2> QED
    BY <1>1, <2>1, <2>2
<1>3. out \in Seq(Int) /\ \A C : Occurs(out, C) = Occurs(reached, E(C))
  <2> HIDE DEF reached
  <2>1. DOMAIN reached = 1..Len(reached) /\ Len(reached) \in Nat
        /\ \A i \in DOMAIN reached : reached[i] \in Item
    BY <1>2
  <2>2. DOMAIN out = DOMAIN reached /\ \A i \in DOMAIN reached : out[i] = Reading(w, reached[i])
    OBVIOUS
  <2>3. \A i \in DOMAIN reached : Reading(w, reached[i]) \in Int
    BY <1>1, <2>1
  <2>4. out \in Seq(Int)
    BY <2>1, <2>3
  <2> HIDE DEF out
  <2>5. ASSUME NEW C PROVE {i \in DOMAIN out : out[i] \in C} = {i \in DOMAIN reached : reached[i] \in E(C)}
    BY <2>1, <2>2
  <2> QED
    BY <2>4, <2>5 DEF Occurs
<1>4. Observe(w, s) = IF w.paths = 2 THEN out \o out ELSE out
  BY <1>1 DEF Observe
<1> HIDE DEF out, reached, E
<1>5. out \o out \in Seq(Int) /\ \A C : Occurs(out \o out, C) = Occurs(out, C) + Occurs(out, C)
  BY <1>3, OccursJoined
<1>6. \A C : Occurs(out, C) \in Nat
  BY <1>3, OccursIs
<1>7. CASE w.paths = 2
  BY <1>2, <1>3, <1>4, <1>5, <1>6, <1>7
<1>8. CASE w.paths = 1
  BY <1>2, <1>3, <1>4, <1>6, <1>8
<1> QED
  BY <1>1, <1>7, <1>8

\* The order of the items does not matter.
LEMMA PermutationHolds ==
    ASSUME NEW w \in Workflows, Itemwise(w), NEW s \in Input
    PROVE  Permutation(w, s)
<1>1. s \in Seq(Item) /\ Reverse(s) \in Input /\ \A D : Occurs(Reverse(s), D) = Occurs(s, D)
  BY OccursReversed DEF Input
<1> DEFINE u == Observe(w, s)
           v == Observe(w, Reverse(s))
<1>2. u \in Seq(Int) /\ v \in Seq(Int) /\ \A C : Occurs(u, C) = Occurs(v, C)
  BY <1>1, ObservedFromItems
<1> HIDE DEF u, v
<1>3. MultisetEq(u, v)
  BY <1>2, SameMultiset
<1> QED
  BY <1>3 DEF Permutation, u, v

\* So many times the items, so many times the output.
LEMMA DuplicationHolds ==
    ASSUME NEW w \in Workflows, Itemwise(w), NEW s \in Input, NEW k \in Nat \ {0}
    PROVE  Duplication(w, s, k)
<1>1. s \in Seq(Item) /\ Times(s, k) \in Input /\ \A D : Occurs(Times(s, k), D) = k * Occurs(s, D)
  BY OccursRepeated DEF Input
<1> DEFINE u == Observe(w, s)
           v == Observe(w, Times(s, k))
<1>2. u \in Seq(Int) /\ v \in Seq(Int)
      /\ \A C : /\ Occurs(u, C) = w.paths * Occurs(s, Sources(w, C))
                /\ Occurs(v, C) = w.paths * (k * Occurs(s, Sources(w, C)))
  BY <1>1, ObservedFromItems
<1> HIDE DEF u, v
<1>3. Times(u, k) \in Seq(Int) /\ \A C : Occurs(Times(u, k), C) = k * Occurs(u, C)
  BY <1>2, OccursRepeated
<1>4. \A C : Occurs(Times(u, k), C) = Occurs(v, C)
  <2>1. \A x, y, z \in Int : x * (y * z) = y * (x * z)
    OBVIOUS
  <2>2. w.paths \in Int /\ k \in Int
    BY DEF Workflows
  <2>3. ASSUME NEW C PROVE Occurs(s, Sources(w, C)) \in Int
    <3>1. s \in Seq(Item)
      BY <1>1
    <3>2. Occurs(s, Sources(w, C)) \in Nat
      BY <3>1, OccursIs
    <3> QED
      BY <3>2
  <2> QED
    BY <1>2, <1>3, <2>1, <2>2, <2>3
<1>5. MultisetEq(Times(u, k), v)
  BY <1>2, <1>3, <1>4, SameMultiset
<1> QED
  BY <1>5 DEF Duplication, u, v

\* The output of the halves is that of the whole.
LEMMA AdditivityHolds ==
    ASSUME NEW w \in Workflows, Itemwise(w), NEW s \in Input
    PROVE  Additivity(w, s)
<1> DEFINE mid == Len(s) \div 2
           first == SubSeq(s, 1, mid)
           second == SubSeq(s, mid + 1, Len(s))
<1>1. s \in Seq(Item) /\ Len(s) \in Nat /\ mid \in Nat /\ mid <= Len(s)
  BY DEF Input
<1> HIDE DEF mid
<1>2. first \in Seq(Item) /\ second \in Seq(Item) /\ first \o second = s
  <2>1. first \in Seq(Item) /\ second \in Seq(Item)
    BY <1>1
  <2>2. 1 \in 1..(Len(s) + 1) /\ mid \in (1 - 1)..Len(s) /\ Len(s) \in mid..Len(s)
    BY <1>1
  <2>3. first \o second = SubSeq(s, 1, Len(s))
    BY <1>1, <2>2, ConcatAdjacentSubSeq
  <2> QED
    BY <1>1, <2>1, <2>3, SubSeqFull
<1> HIDE DEF first, second
<1> DEFINE u == Observe(w, first)
           v == Observe(w, second)
           whole == Observe(w, s)
<1>3. u \in Seq(Int) /\ v \in Seq(Int) /\ whole \in Seq(Int)
      /\ \A C : /\ Occurs(u, C) = w.paths * Occurs(first, Sources(w, C))
                /\ Occurs(v, C) = w.paths * Occurs(second, Sources(w, C))
                /\ Occurs(whole, C) = w.paths * Occurs(s, Sources(w, C))
  BY <1>1, <1>2, ObservedFromItems DEF Input
<1> HIDE DEF u, v, whole
<1>4. ASSUME NEW D
      PROVE  /\ Occurs(s, D) = Occurs(first, D) + Occurs(second, D)
             /\ Occurs(first, D) \in Nat /\ Occurs(second, D) \in Nat
  <2>1. Occurs(first \o second, D) = Occurs(first, D) + Occurs(second, D)
    BY <1>2, OccursJoined
  <2>2. Occurs(first, D) \in Nat /\ Occurs(second, D) \in Nat
    BY <1>2, OccursIs
  <2> QED
    BY <1>2, <2>1, <2>2
<1>a. u \o v \in Seq(Int)
  BY <1>3
<1>5. \A C : Occurs(u \o v, C) = Occurs(u, C) + Occurs(v, C)
  BY <1>3, OccursJoined
<1>6. \A C : Occurs(u \o v, C) = Occurs(whole, C)
  <2>1. \A x, y, z \in Int : x * (y + z) = x * y + x * z
    OBVIOUS
  <2>2. w.paths \in Int
    BY DEF Workflows
  <2>3. ASSUME NEW C PROVE Occurs(u \o v, C) = Occurs(whole, C)
    <3> DEFINE D == Sources(w, C)
    <3>1. /\ Occurs(s, D) = Occurs(first, D) + Occurs(second, D)
          /\ Occurs(first, D) \in Int /\ Occurs(second, D) \in Int
      BY <1>4
    <3>2. /\ Occurs(u, C) = w.paths * Occurs(first, D)
          /\ Occurs(v, C) = w.paths * Occurs(second, D)
          /\ Occurs(whole, C) = w.paths * Occurs(s, D)
      BY <1>3
    <3> QED
      BY <1>5, <2>1, <2>2, <3>1, <3>2
  <2> QED
    BY <2>3
<1>7. MultisetEq(u \o v, whole)
  <2>1. whole \in Seq(Int) /\ \A C \in SUBSET Int : Occurs(u \o v, C) = Occurs(whole, C)
    BY <1>3, <1>6
  <2> QED
    BY <1>a, <2>1, SameMultiset
<1> QED
  BY <1>7 DEF Additivity, u, v, whole, first, second, mid

\* The engine's relations are never in the way of such a workflow.
LEMMA SuitePasses ==
    ASSUME NEW w \in Workflows, Itemwise(w), NEW m \in MetamorphicSuite
    PROVE  InvariantResults(w, m) \in Seq({Result("engine", TRUE)})
<1> DEFINE A == {Result("engine", TRUE)}
           N(relation, passed) ==
               IF relation \in m.relations THEN <<Result("engine", passed)>> ELSE <<>>
           p == N("rerun", RerunIdentity(w, m.seed))
           q == N("permutation", Permutation(w, m.seed))
           r == IF m.factor >= 2 THEN N("duplication", Duplication(w, m.seed, m.factor)) ELSE <<>>
           t == N("additivity", Additivity(w, m.seed))
<1>1. m.seed \in Input /\ m.factor \in Nat
  BY DEF MetamorphicSuite
<1>0. ASSUME NEW relation, NEW passed, passed PROVE N(relation, passed) \in Seq(A)
  <2>1. Result("engine", passed) = Result("engine", TRUE)
    BY <1>0 DEF Result
  <2>2. <<Result("engine", TRUE)>> \in Seq(A) /\ <<>> \in Seq(A)
    OBVIOUS
  <2> QED
    BY <2>1, <2>2, Zenon
<1> HIDE DEF N
<1>2. p \in Seq(A)
  <2>1. RerunIdentity(w, m.seed)
    BY DEF RerunIdentity
  <2> QED
    BY <1>0, <2>1, Zenon
<1>3. q \in Seq(A)
  <2>1. Permutation(w, m.seed)
    BY <1>1, PermutationHolds
  <2> QED
    BY <1>0, <2>1, Zenon
<1>4. r \in Seq(A)
  <2>1. ASSUME m.factor >= 2 PROVE Duplication(w, m.seed, m.factor)
    BY <1>1, <2>1, DuplicationHolds
  <2>2. <<>> \in Seq(A)
    OBVIOUS
  <2> QED
    BY <1>0, <2>1, <2>2, Zenon
<1>5. t \in Seq(A)
  <2>1. Additivity(w, m.seed)
    BY <1>1, AdditivityHolds
  <2> QED
    BY <1>0, <2>1, Zenon
<1>6. InvariantResults(w, m) = ((p \o q) \o r) \o t
  BY Zenon DEF InvariantResults, N
<1> HIDE DEF p, q, r, t, A
<1>7. \A x, y \in Seq(A) : x \o y \in Seq(A)
  OBVIOUS
<1>8. InvariantResults(w, m) \in Seq(A)
  <2>1. p \o q \in Seq(A)
    BY <1>2, <1>3, <1>7
  <2>2. (p \o q) \o r \in Seq(A)
    BY <1>4, <1>7, <2>1
  <2>3. ((p \o q) \o r) \o t \in Seq(A)
    BY <1>5, <1>7, <2>2
  <2> QED
    BY <1>6, <2>3, Zenon
<1> QED
  BY <1>8, Zenon DEF A

\* What is enough without the engine's relations is enough with them: they are no part of
\* the score, and a workflow that handles its items one by one passes them all.
LEMMA SuiteChangesNothing ==
    ASSUME NEW w \in Workflows, Itemwise(w), NEW plan \in VerificationPlan,
           Meets(Report(w, [plan EXCEPT !.metamorphic = <<>>]))
    PROVE  Meets(Report(w, plan))
<1> DEFINE bare == [plan EXCEPT !.metamorphic = <<>>]
           A == Outcomes(w, plan)
           D == IF plan.metamorphic = <<>> THEN <<>> ELSE InvariantResults(w, plan.metamorphic[1])
           R == A \o D
<1>1. /\ bare.metamorphic = <<>> /\ bare.spec = plan.spec
      /\ bare.golden = plan.golden /\ bare.semantic = plan.semantic
  BY DEF VerificationPlan
<1> HIDE DEF bare
<1>2. Outcomes(w, bare) = A
  BY <1>1, Zenon DEF Outcomes, GoldenResults, SemanticResults
<1>3. Report(w, bare) = Outcomes(w, bare) \o <<>>
  BY <1>1, Zenon DEF Report, Outcomes
<1>4. Report(w, plan) = R
  BY Zenon DEF Report, Outcomes
<1>5. PICK n \in Nat : IsSequence(A, n)
  BY OutcomeParts DEF Lists
<1>6. D \in Seq({Result("engine", TRUE)})
  <2>1. CASE plan.metamorphic = <<>>
    BY <2>1
  <2>2. CASE plan.metamorphic # <<>>
    <3>1. plan.metamorphic \in Seq(MetamorphicSuite)
      BY DEF VerificationPlan, Optional
    <3>2. plan.metamorphic[1] \in MetamorphicSuite
      BY <2>2, <3>1
    <3> QED
      BY <2>2, <3>2, SuitePasses
  <2> QED
    BY <2>1, <2>2
<1> HIDE DEF A, D
<1>7. A \o <<>> = A
  <2>1. IsSequence(<<>>, 0)
    BY DEF IsSequence
  <2>2. Joins(A \o <<>>, A, n, <<>>, 0)
    BY <1>5, <2>1, Concatenated
  <2>3. n + 0 = n
    OBVIOUS
  <2> QED
    BY <1>5, <2>2, <2>3 DEF Joins, IsSequence
<1>8. Meets(A)
  BY <1>2, <1>3, <1>7, Zenon DEF bare
<1> DEFINE d == Len(D)
<1>9. d \in Nat /\ IsSequence(D, d) /\ \A k \in 1..d : D[k] = Result("engine", TRUE)
  <2>1. ASSUME NEW X, NEW u \in Seq(X)
        PROVE  Len(u) \in Nat /\ u = [i \in 1..Len(u) |-> u[i]] /\ \A k \in 1..Len(u) : u[k] \in X
    OBVIOUS
  <2>2. d \in Nat /\ IsSequence(D, d) /\ \A k \in 1..d : D[k] \in {Result("engine", TRUE)}
    BY <1>6, <2>1, Zenon DEF IsSequence
  <2> QED
    BY <2>2
<1> HIDE DEF d
<1>10. Joins(R, A, n, D, d)
  BY <1>5, <1>9, Concatenated
<1> HIDE DEF R
<1>11. /\ DOMAIN A = 1..n /\ DOMAIN R = 1..(n + d)
       /\ \A k \in 1..n : k \in 1..(n + d) /\ R[k] = A[k]
       /\ \A k \in 1..(n + d) : k \in 1..n \/ R[k] = Result("engine", TRUE)
  <2>1. DOMAIN A = 1..n
    BY <1>5, Zenon DEF IsSequence
  <2>2. DOMAIN R = 1..(n + d)
    BY <1>10, Zenon DEF Joins, IsSequence
  <2>3. \A k \in 1..n : k \in 1..(n + d)
    BY <1>9
  <2> QED
    BY <1>9, <1>10, <2>1, <2>2, <2>3, Zenon DEF Joins
<1>12. /\ Result("engine", TRUE).category = "engine" /\ Result("engine", TRUE).passed = TRUE
  BY DEF Result
<1>13. {i \in DOMAIN R : IsOutcome(R[i])} = {i \in DOMAIN A : IsOutcome(A[i])}
  BY <1>11, <1>12 DEF IsOutcome
<1>14. {i \in DOMAIN R : IsOutcome(R[i]) /\ R[i].passed}
       = {i \in DOMAIN A : IsOutcome(A[i]) /\ A[i].passed}
  BY <1>11, <1>12 DEF IsOutcome
<1>15. {i \in DOMAIN R : R[i].category = "semantic" /\ R[i].passed}
       = {i \in DOMAIN A : A[i].category = "semantic" /\ A[i].passed}
  BY <1>11, <1>12
<1>16. /\ OutcomeTotal(R) = OutcomeTotal(A) /\ OutcomePassed(R) = OutcomePassed(A)
       /\ SemanticPassed(R) = SemanticPassed(A)
  BY <1>13, <1>14, <1>15, Zenon DEF OutcomeTotal, OutcomePassed, SemanticPassed, Count
<1>17. \A i \in DOMAIN R : R[i].passed
  BY <1>8, <1>11, <1>12 DEF Meets
<1>18. Meets(R)
  BY <1>8, <1>16, <1>17 DEF Meets, Score
<1> QED
  BY <1>4, <1>18

-----------------------------------------------------------------------------
(* Evidence. *)

\* What is enough for promotion has a semantic relation, and all of them hold.
LEMMA MetByRelations ==
    ASSUME NEW w, NEW plan \in VerificationPlan, Meets(Report(w, plan))
    PROVE  /\ DOMAIN plan.semantic # {}
           /\ \A i \in DOMAIN plan.semantic : SemanticHolds(w, plan.semantic[i])
<1>1. PICK n \in Nat, before \in Nat :
          /\ IsSequence(Report(w, plan), n)
          /\ \A i \in DOMAIN plan.semantic :
                /\ before + i \in 1..n
                /\ Report(w, plan)[before + i] =
                       Result("semantic", SemanticHolds(w, plan.semantic[i]))
          /\ \A k \in 1..n : Report(w, plan)[k].category = "semantic" =>
                \E i \in DOMAIN plan.semantic :
                   Report(w, plan)[k] = Result("semantic", SemanticHolds(w, plan.semantic[i]))
  BY ReportParts, Zenon DEF Lists
<1> DEFINE got == Report(w, plan)
           S == {i \in DOMAIN got : got[i].category = "semantic" /\ got[i].passed}
<1>2. DOMAIN got = 1..n
  BY <1>1 DEF IsSequence
<1>3. \E k \in 1..n : got[k].category = "semantic"
  <2>1. Cardinality(S) >= 1
    BY DEF Meets, SemanticPassed, Count
  <2>2. S # {}
    BY <2>1, FS_EmptySet
  <2> QED
    BY <1>2, <2>2
<1>4. \A k \in 1..n : got[k].passed
  BY <1>2 DEF Meets
<1> HIDE DEF got
<1>5. ASSUME NEW i \in DOMAIN plan.semantic PROVE SemanticHolds(w, plan.semantic[i])
  <2>1. Result("semantic", SemanticHolds(w, plan.semantic[i])).passed
    BY <1>1, <1>4 DEF got
  <2> QED
    BY <2>1 DEF Result
<1>6. DOMAIN plan.semantic # {}
  BY <1>1, <1>3 DEF got
<1> QED
  BY <1>5, <1>6

\* Evidence that is enough for promotion would have turned some workflow down.
LEMMA EvidenceCanFail ==
    ASSUME NEW v, NEW plan \in VerificationPlan, Meets(Report(v, plan)), SaysSomething(plan)
    PROVE  \E w \in Workflows : Itemwise(w) /\ ~Meets(Report(w, plan))
<1>1. PICK i \in DOMAIN plan.semantic : TRUE
  BY MetByRelations
<1> DEFINE r == plan.semantic[i]
<1>2. r \in SemanticRelation
  BY DEF VerificationPlan
<1>3. \A w \in Workflows : ~SemanticHolds(w, r) => ~Meets(Report(w, plan))
  BY MetByRelations
<1>4. CASE r.kind = "scaling"
  <2> DEFINE w == Does("one", 1)
  <2>1. w \in Workflows /\ Itemwise(w) /\ w.keep = "all" /\ w.reads = "one"
    BY DEF Does, Workflows, Itemwise
  <2>2. r.field # "one"
    BY <1>2, <1>4 DEF SemanticRelation
  <2> HIDE DEF w, r
  <2>3. ~SemanticHolds(w, r)
    BY <1>2, <1>4, <2>1, <2>2, ScalingTells
  <2> QED
    BY <1>3, <2>1, <2>3
<1>5. CASE r.kind = "append"
  <2>1. r.base \in Input /\ r.extra \in Input /\ r.perItem \in Int /\ r.extra # <<>>
    BY <1>2, <1>5 DEF SemanticRelation, SaysSomething
  <2>2. /\ Len(r.base) \in Nat /\ Len(r.extra) \in Nat /\ Len(r.extra) # 0
        /\ r.base \o r.extra \in Input /\ Len(r.base \o r.extra) = Len(r.base) + Len(r.extra)
    BY <2>1 DEF Input
  <2>3. ASSUME NEW paths \in 1..2, SemanticHolds(Does("one", paths), r)
        PROVE  paths = r.perItem
    <3> DEFINE b == Len(r.base)
               e == Len(r.extra)
    <3>1. paths * Len(r.base \o r.extra) = paths * Len(r.base) + Len(r.extra) * r.perItem
      BY <1>5, <2>1, <2>2, <2>3, AllObserved DEF SemanticHolds, AppendHolds
    <3>2. paths * (b + e) = paths * b + e * r.perItem /\ b \in Nat /\ e \in Nat /\ e # 0
      BY <2>2, <3>1
    <3> HIDE DEF b, e
    <3>3. paths * (b + e) = paths * b + e * paths
      BY <3>2
    <3>4. e * paths = e * r.perItem
      <4> DEFINE pb == paths * b
                 ep == e * paths
                 ei == e * r.perItem
      <4>1. pb \in Int /\ ep \in Int /\ ei \in Int /\ pb + ei = pb + ep
        BY <2>1, <3>2, <3>3
      <4> HIDE DEF pb, ep, ei
      <4>2. ep = ei
        BY <4>1
      <4> QED
        BY <4>2 DEF ep, ei
    <3>5. e * (paths - r.perItem) = 0
      BY <2>1, <3>2, <3>4
    <3>6. \A x, y \in Int : x * y = 0 => x = 0 \/ y = 0
      OBVIOUS
    <3>7. paths - r.perItem \in Int
      BY <2>1
    <3>8. paths - r.perItem = 0
      BY <3>2, <3>5, <3>6, <3>7
    <3> QED
      BY <2>1, <3>8
  <2>4. ~SemanticHolds(Does("one", 1), r) \/ ~SemanticHolds(Does("one", 2), r)
    BY <2>3
  <2>5. \A paths \in 1..2 : Does("one", paths) \in Workflows /\ Itemwise(Does("one", paths))
    BY DEF Does, Workflows, Itemwise
  <2> QED
    BY <1>3, <2>4, <2>5
<1>6. CASE r.kind = "conservation"
  <2>1. r.base \in Input /\ r.base # <<>>
    BY <1>2, <1>6 DEF SemanticRelation, SaysSomething
  <2>2. Len(r.base) \in Nat /\ Len(r.base) # 0
    BY <2>1 DEF Input
  <2>3. Len(Observe(Does("one", 2), r.base)) = 2 * Len(r.base)
        /\ Does("one", 2) \in Workflows /\ Itemwise(Does("one", 2))
    BY <2>1, AllObserved
  <2>4. ~SemanticHolds(Does("one", 2), r)
    BY <1>6, <2>2, <2>3 DEF SemanticHolds, ConservationHolds
  <2> QED
    BY <1>3, <2>3, <2>4
<1> QED
  BY <1>2, <1>4, <1>5, <1>6 DEF SemanticRelation

-----------------------------------------------------------------------------
(* The ranking of rows. *)

\* The table: one row for a workflow.
Table(S) ==
    /\ IsFiniteSet(S)
    /\ \A r \in S : r.flow \in Nat /\ IsFiniteSet(r.tokens)
    /\ \A r, s \in S : r.flow = s.flow => r = s

\* A fraction that is not negative.
Fraction(x) == x[1] \in Nat /\ x[2] \in Nat \ {0}

\* A similarity has no negative part, and its denominator is not zero (an empty union counts
\* as one).
LEMMA SimilarityIsFraction ==
    ASSUME NEW query, IsFiniteSet(query), NEW r, IsFiniteSet(r.tokens)
    PROVE  Fraction(Similarity(query, r))
<1> DEFINE common == Cardinality(Tokens(query) \cap r.tokens)
           all == Cardinality(Tokens(query) \cup r.tokens)
<1>1. IsFiniteSet(Tokens(query))
  BY FS_Subset DEF Tokens
<1>2. common \in Nat /\ all \in Nat
  BY <1>1, FS_Union, FS_Subset, FS_CardinalityType
<1>3. Similarity(query, r) = IF all = 0 THEN <<1, 1>> ELSE <<common, all>>
  BY DEF Similarity
<1> HIDE DEF common, all
<1>4. CASE all = 0
  BY <1>3, <1>4 DEF Fraction
<1>5. CASE all # 0
  BY <1>2, <1>3, <1>5 DEF Fraction
<1> QED
  BY <1>4, <1>5

\* Not less, of fractions, is transitive.
LEMMA FractionsOrdered ==
    ASSUME NEW x, NEW y, NEW z, Fraction(x), Fraction(y), Fraction(z),
           ~More(y, x), ~More(z, y)
    PROVE  ~More(z, x) /\ (More(x, y) \/ More(y, z) => More(x, z))
<1> DEFINE a == x[1]
           b == x[2]
           c == y[1]
           d == y[2]
           e == z[1]
           f == z[2]
<1>1. a \in Nat /\ b \in Nat \ {0} /\ c \in Nat /\ d \in Nat \ {0} /\ e \in Nat /\ f \in Nat \ {0}
  BY DEF Fraction
<1>2. c * b <= a * d /\ e * d <= c * f
  BY <1>1 DEF More
<1>3. /\ More(z, x) <=> e * b > a * f
      /\ More(x, z) <=> a * f > e * b
      /\ More(x, y) <=> a * d > c * b
      /\ More(y, z) <=> c * f > e * d
  BY DEF More
<1> HIDE DEF a, b, c, d, e, f
<1>4. \A p, q \in Int, m \in Nat \ {0} : (p <= q <=> p * m <= q * m) /\ (p < q <=> p * m < q * m)
  OBVIOUS
<1>5. /\ c * b \in Int /\ a * d \in Int /\ e * d \in Int /\ c * f \in Int
      /\ e * b \in Int /\ a * f \in Int
  BY <1>1
<1>6. /\ (c * b) * f = (c * f) * b
      /\ (a * d) * f = (a * f) * d
      /\ (e * d) * b = (e * b) * d
  BY <1>1
<1>7. (c * b) * f <= (a * d) * f /\ (e * d) * b <= (c * f) * b
  BY <1>1, <1>2, <1>4, <1>5
<1> DEFINE cfb == (c * f) * b
           afd == (a * f) * d
           ebd == (e * b) * d
<1>8. cfb <= afd /\ ebd <= cfb /\ cfb \in Int /\ afd \in Int /\ ebd \in Int
  <2>1. cfb \in Int /\ afd \in Int /\ ebd \in Int
    BY <1>1
  <2> QED
    BY <1>6, <1>7, <2>1
<1>9. ~More(z, x)
  <2>1. ebd <= afd
    BY <1>8
  <2>2. e * b <= a * f
    BY <1>1, <1>4, <1>5, <2>1
  <2> QED
    BY <1>3, <1>5, <2>2
<1>10. ASSUME More(x, y) \/ More(y, z) PROVE More(x, z)
  <2>1. CASE More(x, y)
    <3>1. (c * b) * f < (a * d) * f
      BY <1>1, <1>3, <1>4, <1>5, <2>1
    <3>2. ebd < afd
      BY <1>6, <1>8, <3>1
    <3>3. e * b < a * f
      BY <1>1, <1>4, <1>5, <3>2
    <3> QED
      BY <1>3, <1>5, <3>3
  <2>2. CASE More(y, z)
    <3>1. (e * d) * b < (c * f) * b
      BY <1>1, <1>3, <1>4, <1>5, <2>2
    <3>2. ebd < afd
      BY <1>6, <1>8, <3>1
    <3>3. e * b < a * f
      BY <1>1, <1>4, <1>5, <3>2
    <3> QED
      BY <1>3, <1>5, <3>3
  <2> QED
    BY <1>10, <2>1, <2>2
<1> QED
  BY <1>9, <1>10

\* The ranking of rows as a relation.
Found(query, S) == {p \in S \X S : Precedes(query, p[1], p[2])}

\* More in common with the query, then the earlier workflow: a strict and total order of the
\* rows of a table.
LEMMA RowsAreOrdered ==
    ASSUME NEW query, IsFiniteSet(query), NEW S, Table(S)
    PROVE  /\ StrictOrder(S, Found(query, S))
           /\ \A r \in S : Before(S, Found(query, S), r) = {s \in S : Precedes(query, s, r)}
<1>1. \A r \in S : Fraction(Similarity(query, r)) /\ r.flow \in Nat
  BY SimilarityIsFraction DEF Table
<1>2. \A r, s \in S : <<r, s>> \in Found(query, S) <=> Precedes(query, r, s)
  BY DEF Found
<1>3. \A r, s \in S : Precedes(query, r, s) <=>
          \/ More(Similarity(query, r), Similarity(query, s))
          \/ ~More(Similarity(query, s), Similarity(query, r)) /\ r.flow < s.flow
  BY DEF Precedes
<1>4. \A r, s \in S : ~(/\ More(Similarity(query, r), Similarity(query, s))
                       /\ More(Similarity(query, s), Similarity(query, r)))
  BY <1>1 DEF More, Fraction
<1>5. \A r \in S : ~Precedes(query, r, r)
  BY <1>1, <1>3, <1>4
<1>6. ASSUME NEW r \in S, NEW s \in S, NEW t \in S,
             Precedes(query, r, s), Precedes(query, s, t)
      PROVE  Precedes(query, r, t)
  <2> DEFINE x == Similarity(query, r)
             y == Similarity(query, s)
             z == Similarity(query, t)
  <2>1. ~More(y, x) /\ ~More(z, y)
    BY <1>3, <1>4, <1>6
  <2>2. Fraction(x) /\ Fraction(y) /\ Fraction(z)
    BY <1>1
  <2> HIDE DEF x, y, z
  <2>3. ~More(z, x) /\ (More(x, y) \/ More(y, z) => More(x, z))
    BY <2>1, <2>2, FractionsOrdered
  <2> QED
    BY <1>1, <1>3, <1>6, <2>3 DEF x, y, z
<1>7. ASSUME NEW r \in S, NEW s \in S, r # s
      PROVE  Precedes(query, r, s) \/ Precedes(query, s, r)
  <2>1. r.flow # s.flow
    BY <1>7 DEF Table
  <2>2. r.flow < s.flow \/ s.flow < r.flow
    BY <1>1, <2>1
  <2> QED
    BY <1>3, <2>2
<1>8. StrictOrder(S, Found(query, S))
  BY <1>2, <1>5, <1>6, <1>7, Zenon DEF StrictOrder
<1> QED
  BY <1>2, <1>8 DEF Before

\* What a search returns is the first rows of the ranking.
LEMMA RetrievedInOrder ==
    ASSUME NEW query, IsFiniteSet(query), NEW S, Table(S), NEW k \in Nat
    PROVE  LET found == Retrieved(query, k, S)
           IN  /\ Len(found) = Min({k, Cardinality(S)})
               /\ \A i, j \in DOMAIN found :
                     i < j => found[i] # found[j]
                              /\ ~More(Similarity(query, found[j]), Similarity(query, found[i]))
               /\ Range(found) \subseteq S
               /\ \A r \in S \ Range(found), s \in Range(found) :
                     ~More(Similarity(query, r), Similarity(query, s))
<1> DEFINE n == Cardinality(S)
           m == IF k < n THEN k ELSE n
           place == [r \in S |-> Cardinality({s \in S : Precedes(query, s, r)})]
           found == Retrieved(query, k, S)
           R == Found(query, S)
<1>1. IsFiniteSet(S) /\ n \in Nat /\ m \in Nat /\ m <= n /\ m <= k
  BY FS_CardinalityType DEF Table
<1>2. StrictOrder(S, R) /\ \A r \in S : Before(S, R, r) = {s \in S : Precedes(query, s, r)}
  BY RowsAreOrdered
<1>3. \A r \in S : place[r] = Cardinality(Before(S, R, r))
  BY <1>2
<1>4. found = [i \in 1..m |-> CHOOSE r \in S : Cardinality({s \in S : Precedes(query, s, r)}) = i - 1]
  BY Zenon DEF Retrieved
<1>5. \A r, s \in S : <<r, s>> \in R <=> Precedes(query, r, s)
  BY DEF Found
<1>6. m = Min({k, n})
  <2>1. m \in {k, n} /\ \A y \in {k, n} : m <= y
    BY <1>1
  <2>2. \A x \in {k, n} : (\A y \in {k, n} : x <= y) => x = m
    BY <1>1
  <2> HIDE DEF m, n
  <2> QED
    BY <2>1, <2>2 DEF Min
<1> HIDE DEF found, n
<1>7. ASSUME NEW i \in 1..m
      PROVE  found[i] \in S /\ place[found[i]] = i - 1
  <2>1. i - 1 \in 0..(n - 1)
    BY <1>1
  <2>2. PICK r \in S : Cardinality(Before(S, R, r)) = i - 1
    BY <1>1, <1>2, <2>1, PlacesTaken DEF n
  <2>3. \E q \in S : Cardinality({s \in S : Precedes(query, s, q)}) = i - 1
    BY <1>2, <2>2
  <2> DEFINE chosen == CHOOSE q \in S : Cardinality({s \in S : Precedes(query, s, q)}) = i - 1
  <2>4. chosen \in S /\ Cardinality({s \in S : Precedes(query, s, chosen)}) = i - 1
    BY <2>3, Zenon
  <2>5. found[i] = chosen
    BY <1>4
  <2> HIDE DEF chosen
  <2> QED
    BY <2>4, <2>5
<1>8. \A r, s \in S : Precedes(query, r, s) => place[r] < place[s]
  <2>1. \A r, s \in S : <<r, s>> \in R =>
            Cardinality(Before(S, R, r)) < Cardinality(Before(S, R, s))
    BY <1>1, <1>2, PlacesDiffer
  <2> HIDE DEF place, R
  <2> QED
    BY <1>3, <1>5, <2>1
<1>9. \A r \in S : place[r] \in 0..(n - 1)
  BY <1>1, <1>2, <1>3, PlacesDiffer DEF n
<1>10. ASSUME NEW r \in S, NEW s \in S
       PROVE  /\ place[r] = place[s] => r = s
              /\ place[r] < place[s] => ~More(Similarity(query, s), Similarity(query, r))
  <2>1. r # s => Precedes(query, r, s) \/ Precedes(query, s, r)
    BY <1>2, <1>5 DEF StrictOrder
  <2>2. place[r] \in Nat /\ place[s] \in Nat
    BY <1>9
  <2>3. place[r] = place[s] => r = s
    BY <1>8, <2>1, <2>2
  <2>4. ASSUME place[r] < place[s] PROVE Precedes(query, r, s)
    BY <1>8, <2>1, <2>2, <2>4
  <2>5. ~(/\ More(Similarity(query, r), Similarity(query, s))
          /\ More(Similarity(query, s), Similarity(query, r)))
    <3>1. Fraction(Similarity(query, r)) /\ Fraction(Similarity(query, s))
      BY SimilarityIsFraction DEF Table
    <3> QED
      BY <3>1 DEF More, Fraction
  <2> QED
    BY <2>3, <2>4, <2>5 DEF Precedes
<1> HIDE DEF place
<1>11. DOMAIN found = 1..m
  BY <1>4
<1>12. Len(found) = m
  <2>1. found \in Seq(S)
    <3>1. found \in [1..m -> S]
      BY <1>4, <1>7
    <3> QED
      BY <1>1, <3>1
  <2> QED
    BY <1>1, <1>11, <2>1
<1>13. \A i, j \in 1..m : i < j => found[i] # found[j]
               /\ ~More(Similarity(query, found[j]), Similarity(query, found[i]))
  BY <1>7, <1>10
<1>14. Range(found) \subseteq S
  BY <1>7, <1>11 DEF Range
<1>15. ASSUME NEW r \in S \ Range(found), NEW s \in Range(found)
       PROVE  ~More(Similarity(query, r), Similarity(query, s))
  <2>1. PICK j \in 1..m : s = found[j]
    BY <1>11 DEF Range
  <2>2. s \in S /\ place[s] = j - 1
    BY <1>7, <2>1
  <2>3. place[r] >= m
    <3> SUFFICES ASSUME place[r] < m PROVE FALSE
      BY <1>1, <1>9
    <3>1. place[r] + 1 \in 1..m /\ place[r] \in Nat
      BY <1>1, <1>9
    <3>2. found[place[r] + 1] \in S /\ place[found[place[r] + 1]] = place[r]
      BY <1>7, <3>1
    <3>3. found[place[r] + 1] = r
      BY <1>10, <3>2
    <3> QED
      BY <1>11, <3>1, <3>3 DEF Range
  <2>4. place[s] < place[r]
    BY <1>1, <1>9, <2>2, <2>3
  <2> QED
    BY <1>10, <2>2, <2>4
<1> QED
  BY <1>6, <1>11, <1>12, <1>13, <1>14, <1>15 DEF found, n

-----------------------------------------------------------------------------
(* The library. *)

\* The report of what a client submitted.
Measured(c) == Report(request[c].does, request[c].plan)

\* What a client goes through, and what it asked for.
PhasesKept ==
    /\ request \in Requests
    /\ phase \in [Clients -> {"submitted", "verified", "listed", "answered"}]
    /\ DOMAIN report = Clients /\ DOMAIN answer = Clients /\ DOMAIN listed = Clients
    /\ \A c \in Clients : phase[c] = "listed" => request[c].kind = "find"

\* A report is of the promotion that it belongs to, and whoever is promoted has one
\* that is good enough, whoever is not has none.
ReportsKept ==
    \A c \in Clients :
        /\ phase[c] = "verified" => request[c].kind = "promote" /\ report[c] = Measured(c)
        /\ report[c] = <<>> \/ (request[c].kind = "promote" /\ report[c] = Measured(c))
        /\ answer[c].kind = "promoted" => request[c].kind = "promote" /\ Meets(Measured(c))
        /\ answer[c].kind = "not_promoted" => request[c].kind = "promote" /\ ~Meets(Measured(c))

\* What is in the table, and where it came from.
TableKept ==
    /\ Table(rows)
    /\ \A r \in rows : /\ r.readable \in BOOLEAN /\ r.score \in 0..100
                       /\ r.checks # <<>> =>
                             \E c \in Promotions : r = Row(request[c], Measured(c))

\* What was listed for a query, and the answer that was made of it.
SearchesKept ==
    \A c \in Clients :
        /\ Table(listed[c]) /\ (listed[c] # {} => request[c].kind = "find")
        /\ answer[c].kind = "found" =>
              /\ request[c].kind = "find" /\ phase[c] = "answered"
              /\ answer[c].skills = Retrieved(request[c].query, request[c].k, listed[c])

\* The inductive invariant of the library.
LibraryInv == PhasesKept /\ ReportsKept /\ TableKept /\ SearchesKept

\* The invariant of the library holds of its first state.
LEMMA LibraryStarts == SkillsInit => LibraryInv
<1> SUFFICES ASSUME SkillsInit PROVE LibraryInv
  OBVIOUS
<1> USE DEF SkillsInit
<1>1. PhasesKept
  BY DEF PhasesKept
<1>2. ReportsKept
  BY DEF ReportsKept, None
<1>3. TableKept
  BY SkillsAssumption DEF SkillsAssumption, TableKept, Table
<1>4. Table({})
  BY FS_EmptySet DEF Table
<1>5. SearchesKept
  BY <1>4 DEF SearchesKept, None
<1> QED
  BY <1>1, <1>2, <1>3, <1>5 DEF LibraryInv

\* The upsert of a promotion.
LEMMA PromotionIsRow ==
    ASSUME LibraryInv, NEW c \in Clients, phase[c] = "verified"
    PROVE  LET row == Row(request[c], report[c])
           IN  /\ row.flow \in Nat /\ IsFiniteSet(row.tokens)
               /\ row.readable \in BOOLEAN /\ row.score \in 0..100
               /\ row = Row(request[c], Measured(c)) /\ c \in Promotions
<1>1. /\ request[c].kind = "promote" /\ report[c] = Measured(c) /\ request \in Requests
  BY DEF LibraryInv, PhasesKept, ReportsKept
<1>2. /\ request[c].flow \in Nat /\ IsFiniteSet(request[c].query)
      /\ request[c].plan \in VerificationPlan
  BY <1>1, SkillsAssumption DEF SkillsAssumption
<1>3. Score(Measured(c)) \in 0..100
  BY <1>2, ReportParts, ScoreIsPercent DEF Measured, Lists
<1>4. IsFiniteSet(Tokens(request[c].query))
  BY <1>2, FS_Subset DEF Tokens
<1> QED
  BY <1>1, <1>2, <1>3, <1>4 DEF Row, Promotions

\* Every step of every client keeps the invariant of the library.
LEMMA LibraryStepKeeps == LibraryInv /\ [SkillsNext]_skillVars => LibraryInv'
<1> SUFFICES ASSUME LibraryInv, [SkillsNext]_skillVars PROVE LibraryInv'
  OBVIOUS
<1> USE DEF LibraryInv, Measured, Promotions
<1>1. ASSUME NEW c \in Clients, Verify(c) PROVE LibraryInv'
  <2> USE <1>1 DEF Verify
  <2>1. PhasesKept'
    BY DEF PhasesKept
  <2>2. ReportsKept'
    BY DEF PhasesKept, ReportsKept
  <2>3. TableKept'
    BY DEF TableKept
  <2>4. SearchesKept'
    BY DEF PhasesKept, SearchesKept
  <2> QED
    BY <2>1, <2>2, <2>3, <2>4
<1>2. ASSUME NEW c \in Clients, Promote(c) PROVE LibraryInv'
  <2>1. PhasesKept'
    BY <1>2 DEF Promote, PhasesKept
  <2>2. ReportsKept'
    BY <1>2 DEF Promote, PhasesKept, ReportsKept
  <2>3. TableKept'
    <3> DEFINE row == Row(request[c], report[c])
    <3>1. /\ row.flow \in Nat /\ IsFiniteSet(row.tokens)
          /\ row.readable \in BOOLEAN /\ row.score \in 0..100
          /\ row = Row(request[c], Measured(c)) /\ c \in Promotions
      BY <1>2, PromotionIsRow DEF Promote
    <3>2. rows' = rows \/ rows' = {r \in rows : r.flow # row.flow} \cup {row}
      BY <1>2 DEF Promote, SaveSkill
    <3> HIDE DEF row
    <3>3. CASE rows' = rows
      BY <1>2, <3>3 DEF Promote, TableKept
    <3>4. CASE rows' = {r \in rows : r.flow # row.flow} \cup {row}
      <4>1. IsFiniteSet(rows')
        <5>1. IsFiniteSet({r \in rows : r.flow # row.flow})
          BY FS_Subset DEF TableKept, Table
        <5> QED
          BY <3>4, <5>1, FS_AddElement
      <4>2. Table(rows)'
        BY <3>1, <3>4, <4>1 DEF TableKept, Table
      <4>3. request' = request
        BY <1>2 DEF Promote
      <4> QED
        BY <3>1, <3>4, <4>2, <4>3 DEF TableKept
    <3> QED
      BY <3>2, <3>3, <3>4
  <2>4. SearchesKept'
    BY <1>2 DEF Promote, PhasesKept, SearchesKept
  <2> QED
    BY <2>1, <2>2, <2>3, <2>4
<1>3. ASSUME NEW c \in Clients, ListSkills(c) PROVE LibraryInv'
  <2> USE <1>3 DEF ListSkills
  <2>1. PhasesKept'
    BY DEF PhasesKept
  <2>2. ReportsKept'
    BY DEF PhasesKept, ReportsKept
  <2>3. TableKept'
    BY DEF TableKept
  <2>4. SearchesKept'
    BY DEF PhasesKept, SearchesKept, TableKept
  <2> QED
    BY <2>1, <2>2, <2>3, <2>4
<1>4. ASSUME NEW c \in Clients, Rank(c) PROVE LibraryInv'
  <2> USE <1>4 DEF Rank
  <2>1. PhasesKept'
    BY DEF PhasesKept
  <2>2. ReportsKept'
    BY DEF PhasesKept, ReportsKept
  <2>3. TableKept'
    BY DEF TableKept
  <2>4. SearchesKept'
    BY DEF PhasesKept, SearchesKept
  <2> QED
    BY <2>1, <2>2, <2>3, <2>4
<1>5. ASSUME NEW c \in Clients, Resubmit(c) PROVE LibraryInv'
  <2> USE <1>5 DEF Resubmit
  <2>1. PhasesKept'
    BY DEF PhasesKept
  <2>2. ReportsKept'
    BY DEF PhasesKept, ReportsKept
  <2>3. TableKept'
    BY DEF TableKept
  <2>4. SearchesKept'
    BY DEF PhasesKept, SearchesKept
  <2> QED
    BY <2>1, <2>2, <2>3, <2>4
<1>6. CASE UNCHANGED skillVars
  BY <1>6 DEF skillVars, PhasesKept, ReportsKept, TableKept, SearchesKept
<1> QED
  BY <1>1, <1>2, <1>3, <1>4, <1>5, <1>6 DEF SkillsNext

\* At any time a report is of what its client submitted, the table has a row for a workflow,
\* and a row is what a promotion made of it, whatever the other clients do meanwhile.
THEOREM LibraryCorrect == SkillsSpec => []LibraryInv
BY LibraryStarts, LibraryStepKeeps, PTL DEF SkillsSpec

\* What is promoted passed a report whose evidence could have failed, a relation on the wrong
\* field turns its workflow down, a row is the last promotion's and no mixture of two, and
\* what is found is ranked and not cut short: all of LibrarySound, for any clients, plans,
\* workflows, rows and queries.
THEOREM LibraryIsSound == SkillsSpec => []LibrarySound
<1>1. LibraryInv => LibrarySound
  <2> SUFFICES ASSUME LibraryInv PROVE LibrarySound
    OBVIOUS
  <2> USE DEF LibraryInv
  <2>0. ASSUME NEW c \in Clients
        PROVE  /\ IsFiniteSet(request[c].query)
               /\ \/ /\ request[c].kind = "promote" /\ request[c].does \in Workflows
                     /\ request[c].plan \in VerificationPlan
                  \/ request[c].kind = "find" /\ request[c].k \in Nat
    BY SkillsAssumption DEF SkillsAssumption, PhasesKept
  <2>a. PhasesKept /\ ReportsKept /\ TableKept /\ SearchesKept
    OBVIOUS
  <2>1. SkillsTypeOK
    <3>1. ASSUME NEW c \in Clients, NEW i \in DOMAIN report[c]
          PROVE  report[c][i].category \in {"spec", "golden", "semantic", "engine"}
      <4>1. CASE report[c] = <<>>
        BY <3>1, <4>1
      <4>2. CASE request[c].kind = "promote" /\ report[c] = Measured(c)
        <5>1. PICK n \in Nat : /\ IsSequence(report[c], n)
                               /\ \A k \in 1..n : report[c][k].category \in Categories
          BY <2>0, <4>2, ReportParts DEF Measured, Lists
        <5>2. i \in 1..n
          BY <5>1 DEF IsSequence
        <5> QED
          BY <5>1, <5>2 DEF Categories
      <4> QED
        BY <4>1, <4>2 DEF ReportsKept
    <3>2. phase \in [Clients -> {"submitted", "verified", "listed", "answered"}]
      BY <2>a DEF PhasesKept
    <3>3. \A r \in rows : r.readable \in BOOLEAN /\ r.score \in 0..100
      BY <2>a DEF TableKept
    <3>4. \A c \in Clients : listed[c] # {} => request[c].kind = "find"
      BY <2>a DEF SearchesKept
    <3> QED
      BY <3>1, <3>2, <3>3, <3>4, Zenon DEF SkillsTypeOK
  <2>2. ASSUME NEW c \in Promoted
        PROVE  /\ request[c].does \in Workflows /\ request[c].plan \in VerificationPlan
               /\ Meets(Report(request[c].does, request[c].plan))
    BY <2>0 DEF Promoted, Promotions, ReportsKept, Measured
  <2>3. EvidenceTells
    BY <2>2, EvidenceCanFail DEF EvidenceTells
  <2>4. WrongFieldCaught
    <3> SUFFICES ASSUME NEW c \in Promoted, request[c].does.keep # "large",
                        NEW i \in DOMAIN request[c].plan.semantic,
                        request[c].plan.semantic[i].kind = "scaling",
                        request[c].does.reads # request[c].plan.semantic[i].field
                 PROVE  FALSE
      BY DEF WrongFieldCaught
    <3>1. SemanticHolds(request[c].does, request[c].plan.semantic[i])
      BY <2>2, MetByRelations
    <3>2. request[c].plan.semantic[i] \in SemanticRelation
      BY <2>2 DEF VerificationPlan
    <3>3. request[c].does \in Workflows
      BY <2>2
    <3> DEFINE w == request[c].does
               r == request[c].plan.semantic[i]
    <3>4. /\ w \in Workflows /\ w.keep # "large" /\ r \in SemanticRelation
          /\ r.kind = "scaling" /\ w.reads # r.field /\ SemanticHolds(w, r)
      BY <3>1, <3>2, <3>3
    <3> HIDE DEF w, r
    <3>5. ~SemanticHolds(w, r)
      BY <3>4, ScalingTells
    <3> QED
      BY <3>4, <3>5
  <2>5. RowIsOnePromotion
    BY <2>a DEF TableKept, Table, RowIsOnePromotion, Measured
  <2>6. FoundInOrder
    <3> SUFFICES ASSUME NEW c \in Clients, answer[c].kind = "found"
                 PROVE  LET found == answer[c].skills
                            q == request[c].query
                            Words(r) == Similarity(q, r)
                        IN  /\ Len(found) = Min({request[c].k, Cardinality(listed[c])})
                            /\ \A i, j \in DOMAIN found :
                                  i < j => found[i] # found[j]
                                           /\ Words(found[j])[1] * Words(found[i])[2]
                                                  <= Words(found[i])[1] * Words(found[j])[2]
                            /\ \A r \in listed[c] \ Range(found), s \in Range(found) :
                                  Words(r)[1] * Words(s)[2] <= Words(s)[1] * Words(r)[2]
      BY Zenon DEF FoundInOrder
    <3> DEFINE found == answer[c].skills
               q == request[c].query
               S == listed[c]
    <3>1. /\ found = Retrieved(q, request[c].k, S) /\ Table(S) /\ IsFiniteSet(q)
          /\ request[c].k \in Nat
      BY <2>0 DEF SearchesKept
    <3> HIDE DEF found, q, S
    <3>2. /\ Len(found) = Min({request[c].k, Cardinality(S)})
          /\ \A i, j \in DOMAIN found :
                i < j => found[i] # found[j]
                         /\ ~More(Similarity(q, found[j]), Similarity(q, found[i]))
          /\ Range(found) \subseteq S
          /\ \A r \in S \ Range(found), s \in Range(found) :
                ~More(Similarity(q, r), Similarity(q, s))
      BY <3>1, RetrievedInOrder
    <3>3. ASSUME NEW r \in S, NEW s \in S, ~More(Similarity(q, r), Similarity(q, s))
          PROVE  Similarity(q, r)[1] * Similarity(q, s)[2]
                     <= Similarity(q, s)[1] * Similarity(q, r)[2]
      <4>1. Fraction(Similarity(q, r)) /\ Fraction(Similarity(q, s))
        BY <3>1, SimilarityIsFraction DEF Table
      <4> QED
        BY <3>3, <4>1 DEF More, Fraction
    <3>4. \A i \in DOMAIN found : found[i] \in Range(found)
      BY DEF Range
    <3> QED
      BY <3>2, <3>3, <3>4, Zenon DEF found, q, S
  <2> QED
    BY <2>1, <2>3, <2>4, <2>5, <2>6 DEF LibrarySound
<1> QED
  BY <1>1, LibraryCorrect, PTL

\* A workflow that does what its author meant, and handles its items one by one, is promoted
\* on any plan that is enough for it: RightIsPromoted, for inputs, seeds and factors of any size.
THEOREM TheRightOneIsPromoted == SkillsSpec => []RightIsPromoted
<1>1. LibraryInv => RightIsPromoted
  <2> SUFFICES ASSUME LibraryInv, NEW c \in Promotions,
                      answer[c].kind = "not_promoted", request[c].does = request[c].intent,
                      request[c].enough, Itemwise(request[c].intent) \/ request[c].plan.metamorphic = <<>>
               PROVE  FALSE
    BY Zenon DEF RightIsPromoted
  <2> DEFINE w == request[c].does
             plan == request[c].plan
  <2>1. /\ c \in Clients /\ request \in Requests /\ request[c].kind = "promote"
        /\ ~Meets(Report(w, plan))
    BY DEF Promotions, LibraryInv, PhasesKept, ReportsKept, Measured
  <2>2. /\ w \in Workflows /\ plan \in VerificationPlan
        /\ Meets(Report(w, [plan EXCEPT !.metamorphic = <<>>]))
    BY <2>1, SkillsAssumption DEF SkillsAssumption
  <2>3. CASE Itemwise(w)
    BY <2>1, <2>2, <2>3, SuiteChangesNothing
  <2>4. CASE plan.metamorphic = <<>>
    <3>1. [plan EXCEPT !.metamorphic = <<>>] = plan
      BY <2>2, <2>4 DEF VerificationPlan
    <3> QED
      BY <2>1, <2>2, <3>1
  <2> QED
    BY <2>3, <2>4
<1> QED
  BY <1>1, LibraryCorrect, PTL

-----------------------------------------------------------------------------
(* The credentials. *)

Answers == [kind : {"no_resolver", "not_found", "crypto_error"}]
             \cup [kind : {"secret"}, secret : Secrets]

\* Whoever is up has what its environment made of it.
ServersKept ==
    /\ servers \in [Servers -> [up : BOOLEAN, environment : Environments,
                                key : Keys \cup {NoKey, "fatal"},
                                allowRun : BOOLEAN, allowWrites : BOOLEAN]]
    /\ \A p \in Servers : servers[p].up =>
          /\ servers[p].key = FromEnv(servers[p].environment)
          /\ servers[p].key # "fatal"

\* A run resolves as many credentials as it started with.
RunsKept ==
    /\ runs \in [Servers -> [left : Seq(CredentialIds),
                             got : Seq([id : CredentialIds, answer : Answers]),
                             on : BOOLEAN]]
    /\ \A p \in Servers : Len(runs[p].left) + Len(runs[p].got) <= MaxRefs

\* The table and its history agree: a row is the encryption, with a nonce that
\* was drawn before, of what was stored.
RowsKept ==
    /\ writes \in 0..MaxWrites
    /\ credentials \in [CredentialIds ->
          {NoRow} \cup [nonce : 0..MaxWrites,
                        cipher : [key : Keys, nonce : 0..MaxWrites, secret : Secrets]]]
    /\ stored \in [CredentialIds -> {NotStored} \cup [key : Keys, secret : Secrets]]
    /\ \A id \in CredentialIds :
          /\ credentials[id] = NoRow <=> stored[id] = NotStored
          /\ credentials[id] # NoRow =>
                /\ credentials[id].nonce < writes
                /\ credentials[id].cipher.nonce = credentials[id].nonce
                /\ credentials[id].cipher.key = stored[id].key
                /\ credentials[id].cipher.secret = stored[id].secret
    /\ \A i, j \in CredentialIds :
          credentials[i] # NoRow /\ credentials[j] # NoRow =>
              (credentials[i].nonce = credentials[j].nonce => i = j)

VaultInv == ServersKept /\ RunsKept /\ RowsKept

\* A server that may write has one of the keys.
LEMMA WriterHasKey ==
    ASSUME ServersKept, NEW p \in Servers, MayWrite(p)
    PROVE  servers[p].key \in Keys
BY VaultAssumption DEF ServersKept, MayWrite, HasVault, VaultAssumption

\* A stored secret is never mistaken for the want of one.
LEMMA SecretIsStored == \A s \in [key : Keys, secret : Secrets] : s # NotStored
BY VaultAssumption DEF NotStored, VaultAssumption

\* What get_secret answers: the secret to whoever has its key, and no secret to
\* anyone else.
LEMMA SecretForItsKey ==
    ASSUME RowsKept, NEW id \in CredentialIds, NEW key \in Keys \cup {NoKey, "fatal"}
    PROVE  /\ GetSecret(key, credentials[id]) \in Answers
           /\ IF stored[id] # NotStored /\ stored[id].key = key
              THEN GetSecret(key, credentials[id]) =
                       [kind |-> "secret", secret |-> stored[id].secret]
              ELSE GetSecret(key, credentials[id]).kind # "secret"
<1>1. CASE key = NoKey
  <2>1. GetSecret(key, credentials[id]) = [kind |-> "no_resolver"]
    BY <1>1 DEF GetSecret
  <2>2. stored[id] = NotStored \/ stored[id].key # key
    BY <1>1, VaultAssumption DEF RowsKept, VaultAssumption
  <2> QED
    BY <2>1, <2>2 DEF Answers
<1>2. CASE key # NoKey /\ credentials[id] = NoRow
  <2>1. GetSecret(key, credentials[id]) = [kind |-> "not_found"] /\ stored[id] = NotStored
    BY <1>2 DEF GetSecret, RowsKept
  <2> QED
    BY <2>1 DEF Answers
<1>3. CASE key # NoKey /\ credentials[id] # NoRow
  <2>1. /\ stored[id] # NotStored /\ credentials[id].cipher.nonce = credentials[id].nonce
        /\ credentials[id].cipher.key = stored[id].key
        /\ credentials[id].cipher.secret = stored[id].secret
        /\ stored[id] \in [key : Keys, secret : Secrets]
    BY <1>3 DEF RowsKept
  <2>2. CASE stored[id].key = key
    <3>1. GetSecret(key, credentials[id]) = [kind |-> "secret", secret |-> stored[id].secret]
      BY <1>3, <2>1, <2>2 DEF GetSecret, Decrypts
    <3> QED
      BY <2>1, <2>2, <3>1 DEF Answers
  <2>3. CASE stored[id].key # key
    <3>1. GetSecret(key, credentials[id]) = [kind |-> "crypto_error"]
      BY <1>3, <2>1, <2>3 DEF GetSecret, Decrypts
    <3> QED
      BY <2>3, <3>1 DEF Answers
  <2> QED
    BY <2>2, <2>3
<1> QED
  BY <1>1, <1>2, <1>3

-----------------------------------------------------------------------------
(* Induction. *)

\* Storing a secret under a fresh nonce.
LEMMA StoreKeeps ==
    ASSUME VaultInv, NEW p \in Servers, NEW id \in CredentialIds, NEW s \in Secrets,
           StoreSecret(p, id, s)
    PROVE  RowsKept'
<1> DEFINE row == [nonce |-> writes,
                   cipher |-> [key |-> servers[p].key, nonce |-> writes, secret |-> s]]
           new == [key |-> servers[p].key, secret |-> s]
<1>1. servers[p].key \in Keys /\ writes \in 0..MaxWrites /\ writes' = writes + 1
      /\ writes' \in 0..MaxWrites
  BY WriterHasKey, VaultAssumption DEF StoreSecret, VaultInv, RowsKept, VaultAssumption
<1>2. /\ row \in [nonce : 0..MaxWrites,
                  cipher : [key : Keys, nonce : 0..MaxWrites, secret : Secrets]]
      /\ row # NoRow /\ row.nonce = writes /\ row.cipher.nonce = writes
      /\ row.cipher.key = servers[p].key /\ row.cipher.secret = s
      /\ new \in [key : Keys, secret : Secrets] /\ new # NotStored
      /\ new.key = servers[p].key /\ new.secret = s
  BY <1>1, SecretIsStored DEF NoRow
<1>3. credentials' = [credentials EXCEPT ![id] = row] /\ stored' = [stored EXCEPT ![id] = new]
  BY DEF StoreSecret, Upserted, Encrypted
<1> HIDE DEF row, new
<1> QED
  BY <1>1, <1>2, <1>3 DEF VaultInv, RowsKept

\* Deleting what is there or is not.
LEMMA DeleteKeeps ==
    ASSUME VaultInv, NEW p \in Servers, NEW id \in CredentialIds, DeleteCredential(p, id)
    PROVE  RowsKept'
<1>1. /\ credentials' = [credentials EXCEPT ![id] = NoRow]
      /\ stored' = [stored EXCEPT ![id] = NotStored] /\ writes' = writes
  BY DEF DeleteCredential
<1> QED
  BY <1>1 DEF VaultInv, RowsKept

\* A node asks for its credential.
LEMMA ResolveKeeps ==
    ASSUME VaultInv, NEW p \in Servers, Resolve(p)
    PROVE  /\ RunsKept'
           /\ \E id \in CredentialIds :
                 runs'[p].got =
                     Append(runs[p].got,
                            [id |-> id, answer |-> GetSecret(servers[p].key, credentials[id])])
           /\ \A q \in Servers \ {p} : runs'[q] = runs[q]
<1> DEFINE run == runs[p]
           id == Head(run.left)
           told == GetSecret(servers[p].key, credentials[id])
           entry == [id |-> id, answer |-> told]
<1>1. /\ run.left \in Seq(CredentialIds) /\ run.left # <<>>
      /\ run.got \in Seq([id : CredentialIds, answer : Answers])
      /\ Len(run.left) + Len(run.got) <= MaxRefs
      /\ run \in [left : Seq(CredentialIds), got : Seq([id : CredentialIds, answer : Answers]),
                  on : BOOLEAN]
  BY DEF VaultInv, RunsKept, Resolve
<1>2. id \in CredentialIds /\ Tail(run.left) \in Seq(CredentialIds)
      /\ Len(Tail(run.left)) = Len(run.left) - 1 /\ Len(run.left) >= 1
  BY <1>1
<1>3. told \in Answers
  BY <1>2, SecretForItsKey DEF VaultInv, ServersKept
<1> HIDE DEF id, told
<1>4. entry \in [id : CredentialIds, answer : Answers]
  BY <1>2, <1>3
<1>5. PICK new : /\ runs' = [runs EXCEPT ![p] = new]
                 /\ \/ new = [run EXCEPT !.left = Tail(@), !.got = Append(@, entry)]
                    \/ new = [on |-> FALSE, left |-> <<>>, got |-> Append(run.got, entry)]
  BY DEF Resolve, id, told
<1> HIDE DEF run, entry
<1>6. /\ new \in [left : Seq(CredentialIds),
                  got : Seq([id : CredentialIds, answer : Answers]), on : BOOLEAN]
      /\ new.got = Append(run.got, entry)
      /\ Len(new.left) + Len(new.got) <= MaxRefs
  <2>0. /\ Append(run.got, entry) \in Seq([id : CredentialIds, answer : Answers])
        /\ Len(Append(run.got, entry)) = Len(run.got) + 1
        /\ Len(run.got) \in Nat /\ Len(run.left) \in Nat
        /\ <<>> \in Seq(CredentialIds) /\ Len(<<>>) = 0
    BY <1>1, <1>4
  <2>1. CASE new = [run EXCEPT !.left = Tail(@), !.got = Append(@, entry)]
    <3>1. new.left = Tail(run.left) /\ new.got = Append(run.got, entry)
      BY <1>1, <2>1
    <3>2. new \in [left : Seq(CredentialIds),
                  got : Seq([id : CredentialIds, answer : Answers]), on : BOOLEAN]
      BY <1>1, <1>2, <2>0, <2>1
    <3> QED
      BY <1>1, <1>2, <2>0, <3>1, <3>2
  <2>2. CASE new = [on |-> FALSE, left |-> <<>>, got |-> Append(run.got, entry)]
    <3>1. new.left = <<>> /\ new.got = Append(run.got, entry)
      BY <2>2
    <3>2. new \in [left : Seq(CredentialIds),
                  got : Seq([id : CredentialIds, answer : Answers]), on : BOOLEAN]
      BY <2>0, <2>2
    <3>3. Len(new.left) + Len(new.got) <= MaxRefs
      BY <1>1, <1>2, <2>0, <3>1, VaultAssumption DEF VaultAssumption
    <3> QED
      BY <3>1, <3>2, <3>3
  <2> QED
    BY <1>5, <2>1, <2>2
<1>7. RunsKept'
  BY <1>5, <1>6 DEF VaultInv, RunsKept
<1>8. runs'[p] = new /\ \A q \in Servers \ {p} : runs'[q] = runs[q]
  BY <1>5 DEF VaultInv, RunsKept
<1> QED
  BY <1>2, <1>6, <1>7, <1>8 DEF run, entry, told

\* Every step of a server or a run keeps the invariant.
LEMMA VaultStepKeeps == VaultInv /\ [VaultStep]_vaultVars => VaultInv'
<1> SUFFICES ASSUME VaultInv, [VaultStep]_vaultVars PROVE VaultInv'
  OBVIOUS
<1> USE DEF VaultInv
<1>1. ASSUME NEW p \in Servers, NEW e \in Environments, NEW r \in BOOLEAN, NEW w \in BOOLEAN,
             Start(p, e, r, w)
      PROVE  VaultInv'
  <2> DEFINE new == [up |-> FromEnv(e) # "fatal", environment |-> e, key |-> FromEnv(e),
                     allowRun |-> r, allowWrites |-> w]
  <2>1. /\ new \in [up : BOOLEAN, environment : Environments, key : Keys \cup {NoKey, "fatal"},
                    allowRun : BOOLEAN, allowWrites : BOOLEAN]
        /\ new.up => new.key = FromEnv(new.environment) /\ new.key # "fatal"
    BY DEF FromEnv
  <2>2. servers' = [servers EXCEPT ![p] = new]
    BY <1>1 DEF Start
  <2> HIDE DEF new
  <2>3. ServersKept'
    BY <2>1, <2>2 DEF ServersKept
  <2> QED
    BY <1>1, <2>3 DEF Start, RunsKept, RowsKept
<1>2. ASSUME NEW p \in Servers, Stop(p) PROVE VaultInv'
  <2>1. ServersKept'
    BY <1>2 DEF Stop, ServersKept, Down, Environments
  <2>2. RunsKept'
    <3>1. /\ NoRun \in [left : Seq(CredentialIds),
                        got : Seq([id : CredentialIds, answer : Answers]), on : BOOLEAN]
          /\ Len(NoRun.left) + Len(NoRun.got) <= MaxRefs
      BY VaultAssumption DEF NoRun, VaultAssumption
    <3> QED
      BY <1>2, <3>1 DEF Stop, RunsKept
  <2> QED
    BY <1>2, <2>1, <2>2 DEF Stop, RowsKept
<1>3. ASSUME NEW p \in Servers, NEW id \in CredentialIds, NEW s \in Secrets,
             StoreSecret(p, id, s)
      PROVE  VaultInv'
  BY <1>3, StoreKeeps DEF StoreSecret, ServersKept, RunsKept
<1>4. ASSUME NEW p \in Servers, NEW id \in CredentialIds, DeleteCredential(p, id)
      PROVE  VaultInv'
  BY <1>4, DeleteKeeps DEF DeleteCredential, ServersKept, RunsKept
<1>5. ASSUME NEW p \in Servers, NEW n \in 0..MaxRefs, NEW refs \in [1..n -> CredentialIds],
             StartRun(p, refs)
      PROVE  VaultInv'
  <2> DEFINE new == [left |-> refs, got |-> <<>>, on |-> TRUE]
  <2>1. refs \in Seq(CredentialIds) /\ Len(refs) = n
    OBVIOUS
  <2>2. /\ new \in [left : Seq(CredentialIds),
                    got : Seq([id : CredentialIds, answer : Answers]), on : BOOLEAN]
        /\ Len(new.left) + Len(new.got) <= MaxRefs
    BY <2>1, VaultAssumption DEF VaultAssumption
  <2>3. runs' = [runs EXCEPT ![p] = new]
    BY <1>5 DEF StartRun
  <2> HIDE DEF new
  <2>4. RunsKept'
    BY <2>2, <2>3 DEF RunsKept
  <2> QED
    BY <1>5, <2>4 DEF StartRun, ServersKept, RowsKept
<1>6. ASSUME NEW p \in Servers, Resolve(p) PROVE VaultInv'
  BY <1>6, ResolveKeeps DEF Resolve, ServersKept, RowsKept
<1>7. ASSUME NEW p \in Servers, FinishRun(p) PROVE VaultInv'
  <2>1. /\ NoRun \in [left : Seq(CredentialIds),
                      got : Seq([id : CredentialIds, answer : Answers]), on : BOOLEAN]
        /\ Len(NoRun.left) + Len(NoRun.got) <= MaxRefs
    BY VaultAssumption DEF NoRun, VaultAssumption
  <2>2. RunsKept'
    BY <1>7, <2>1 DEF FinishRun, RunsKept
  <2> QED
    BY <1>7, <2>2 DEF FinishRun, ServersKept, RowsKept
<1>8. CASE UNCHANGED vaultVars
  BY <1>8 DEF vaultVars, ServersKept, RunsKept, RowsKept
<1> QED
  BY <1>1, <1>2, <1>3, <1>4, <1>5, <1>6, <1>7, <1>8 DEF VaultStep

\* The vault starts empty and nobody is up.
LEMMA VaultStarts == VaultInit => VaultInv
<1> SUFFICES ASSUME VaultInit PROVE VaultInv
  OBVIOUS
<1>1. ServersKept
  BY DEF VaultInit, ServersKept, Down, Environments
<1>2. RunsKept
  BY VaultAssumption DEF VaultInit, RunsKept, NoRun, VaultAssumption
<1>3. RowsKept
  BY VaultAssumption DEF VaultInit, RowsKept, VaultAssumption
<1> QED
  BY <1>1, <1>2, <1>3 DEF VaultInv

\* Servers, runs, rows and what was stored agree.
THEOREM VaultCorrect == VaultSpec => []VaultInv
BY VaultStarts, VaultStepKeeps, PTL DEF VaultSpec

\* Whatever was stored, by either server and however often, is there for whoever
\* has the key it was stored with; a server whose key cannot be used does not
\* come up without one; no nonce serves two rows (Vault::from_env, store_secret
\* and get_secret).
THEOREM SecretsAreKept == VaultSpec => []SecretsKept
<1>1. VaultInv => SecretsKept
  <2> SUFFICES ASSUME VaultInv PROVE SecretsKept
    OBVIOUS
  <2>1. VaultTypeOK
    <3>1. ASSUME NEW id \in CredentialIds, credentials[id] # NoRow
          PROVE  /\ credentials[id].nonce \in 0..MaxWrites
                 /\ credentials[id].cipher \in [key : Keys, nonce : 0..MaxWrites, secret : Secrets]
      BY <3>1 DEF VaultInv, RowsKept
    <3> QED
      BY <3>1 DEF VaultInv, ServersKept, RunsKept, RowsKept, VaultTypeOK
  <2>2. NoSilentFallback
    BY VaultAssumption DEF VaultInv, ServersKept, NoSilentFallback, FromEnv, Environments,
                           VaultAssumption
  <2>3. StoredIsReadable
    <3> SUFFICES ASSUME NEW id \in CredentialIds, stored[id] # NotStored
                 PROVE  GetSecret(stored[id].key, credentials[id]) =
                            [kind |-> "secret", secret |-> stored[id].secret]
      BY DEF StoredIsReadable
    <3>1. stored[id].key \in Keys
      BY DEF VaultInv, RowsKept
    <3> QED
      BY <3>1, SecretForItsKey DEF VaultInv
  <2> QED
    BY <2>1, <2>2, <2>3 DEF SecretsKept
<1> QED
  BY <1>1, VaultCorrect, PTL

\* A run is given what is stored at the moment it asks, for its server's key, and
\* only a server that may write, with a key, changes the table (the resolver,
\* and the gates of the tools).
THEOREM SecretsAreHandled == VaultSpec => SecretsHandled
<1>1. VaultInv /\ [VaultStep]_vaultVars => [ResolvesTheCurrent /\ WrittenWithLeave]_vaultVars
  <2> SUFFICES ASSUME VaultInv, VaultStep
               PROVE  ResolvesTheCurrent /\ WrittenWithLeave
    OBVIOUS
  <2>1. ResolvesTheCurrent
    <3> SUFFICES ASSUME NEW p \in Servers, Len(runs'[p].got) > Len(runs[p].got)
                 PROVE  LET last == runs'[p].got[Len(runs'[p].got)]
                            current == stored[last.id]
                        IN  IF current # NotStored /\ current.key = servers[p].key
                            THEN last.answer = [kind |-> "secret", secret |-> current.secret]
                            ELSE last.answer.kind # "secret"
      BY DEF ResolvesTheCurrent
    <3>1. Resolve(p)
      <4>0. /\ runs \in [Servers -> [left : Seq(CredentialIds),
                                    got : Seq([id : CredentialIds, answer : Answers]),
                                    on : BOOLEAN]]
            /\ Len(runs[p].got) \in Nat
        <5>1. runs[p].got \in Seq([id : CredentialIds, answer : Answers])
          BY DEF VaultInv, RunsKept
        <5>2. Len(runs[p].got) \in Nat
          BY <5>1
        <5> QED
          BY <5>2 DEF VaultInv, RunsKept
      <4>1. ASSUME NEW q \in Servers, Stop(q) \/ FinishRun(q) PROVE FALSE
        BY <4>0, <4>1 DEF Stop, FinishRun, NoRun
      <4>2. ASSUME NEW q \in Servers, NEW refs, StartRun(q, refs) PROVE FALSE
        BY <4>0, <4>2 DEF StartRun
      <4>3. ASSUME UNCHANGED runs PROVE FALSE
        BY <4>0, <4>3
      <4>4. ASSUME NEW q \in Servers \ {p}, Resolve(q) PROVE FALSE
        BY <4>0, <4>4, ResolveKeeps
      <4> QED
        BY <4>1, <4>2, <4>3, <4>4 DEF VaultStep, Start, StoreSecret, DeleteCredential
    <3>2. PICK id \in CredentialIds :
              runs'[p].got =
                  Append(runs[p].got,
                         [id |-> id, answer |-> GetSecret(servers[p].key, credentials[id])])
      BY <3>1, ResolveKeeps
    <3>3. runs'[p].got[Len(runs'[p].got)] =
              [id |-> id, answer |-> GetSecret(servers[p].key, credentials[id])]
      BY <3>2 DEF VaultInv, RunsKept
    <3>4. servers[p].key \in Keys \cup {NoKey, "fatal"} /\ RowsKept
      BY DEF VaultInv, ServersKept
    <3> QED
      BY <3>3, <3>4, SecretForItsKey
  <2>2. WrittenWithLeave
    <3> SUFFICES ASSUME credentials' # credentials PROVE WrittenWithLeave
      BY DEF WrittenWithLeave
    <3>1. PICK p \in Servers, id \in CredentialIds :
              DeleteCredential(p, id) \/ \E s \in Secrets : StoreSecret(p, id, s)
      BY DEF VaultStep, Start, Stop, StartRun, Resolve, FinishRun
    <3>2. MayWrite(p) /\ servers[p].key \in Keys
      BY <3>1, WriterHasKey DEF VaultInv, DeleteCredential, StoreSecret
    <3>3. ASSUME NEW i \in CredentialIds
          PROVE  \/ credentials'[i] \in {credentials[i], NoRow}
                 \/ credentials'[i].cipher.key = servers[p].key
      BY <3>1 DEF VaultInv, RowsKept, DeleteCredential, StoreSecret, Upserted, Encrypted
    <3> QED
      BY <3>2, <3>3 DEF WrittenWithLeave, MayWrite, HasVault
  <2> QED
    BY <2>1, <2>2
<1> QED
  BY <1>1, VaultCorrect, PTL DEF VaultSpec, SecretsHandled

-----------------------------------------------------------------------------
(* What the readers of parameters make of each kind. *)

\* No false alarm, kind by kind.
LEMMA AlarmsAreTrue ==
    ASSUME NEW k \in Kinds, NEW f \in Params(k), kind = k, params = f, Flags(k, f)
    PROVE  BadAtRun(k, f) \/ Insisted
<1>1. CASE k = "http_request"
  <2>1. f \in HttpParams /\ FlagsHttp(f)
    BY <1>1 DEF Params, Flags
  <2>2. BadHttp(f) \/ f.method \in {"null", "number"} \/ f.headers = "list"
    BY <2>1 DEF HttpParams, FlagsHttp, BadHttp, BadAuth, Given, Text, Strings
  <2> QED
    BY <1>1, <2>2 DEF BadAtRun, Insisted
<1>2. CASE k = "branch"
  <2>1. f \in BranchParams /\ FlagsBranch(f)
    BY <1>2 DEF Params, Flags
  <2>2. BadBranch(f)
    BY <2>1 DEF BranchParams, FlagsBranch, BadBranch, Given, Text, Strings
  <2> QED
    BY <1>2, <2>2 DEF BadAtRun
<1>3. CASE k = "switch"
  <2>1. f \in SwitchParams /\ FlagsSwitch(f)
    BY <1>3 DEF Params, Flags
  <2>2. BadSwitch(f)
    BY <2>1 DEF SwitchParams, FlagsSwitch, BadSwitch, Given, Text, Strings
  <2> QED
    BY <1>3, <2>2 DEF BadAtRun
<1>4. CASE k = "sub_workflow"
  <2>1. f \in SubParams /\ FlagsSub(f)
    BY <1>4 DEF Params, Flags
  <2>2. BadSub(f) \/ f.workflow_id = "null" \/ f.workflow = "null"
    BY <2>1 DEF SubParams, FlagsSub, BadSub, Given, Text, Strings
  <2> QED
    BY <1>4, <2>2 DEF BadAtRun, Insisted
<1>5. CASE k = "mcp_tool_call"
  <2>1. f \in McpParams /\ FlagsMcp(f)
    BY <1>5 DEF Params, Flags
  <2>2. BadMcpSpec(f)
    BY <2>1 DEF McpParams, FlagsMcp, BadMcpSpec, Given
  <2> QED
    BY <1>5, <2>2 DEF BadAtRun, BadMcpCall
<1>6. CASE k = "code_step"
  <2>1. f \in CodeParams /\ FlagsCode(f)
    BY <1>6 DEF Params, Flags
  <2>2. BadCode(f) \/ f.function \in {"absent", "null"}
    BY <2>1 DEF CodeParams, FlagsCode, BadCode, Given, Text, Strings
  <2> QED
    BY <1>6, <2>2 DEF BadAtRun, BadModule, Insisted
<1>7. CASE k = "transform"
  <2>1. f \in TransformParams /\ Given(f.set) /\ f.set # "object"
    BY <1>7 DEF Params, Flags
  <2>2. BadTransform(f) \/ f.set = "null"
    BY <2>1 DEF TransformParams, BadTransform, Given
  <2> QED
    BY <1>7, <2>2 DEF BadAtRun, Insisted
<1>8. CASE k = "wait"
  <2>1. f \in WaitParams /\ f.duration_ms # "number"
    BY <1>8 DEF Params, Flags
  <2>2. BadWait(f) \/ f.duration_ms = "absent"
    BY <2>1 DEF WaitParams, BadWait
  <2> QED
    BY <1>8, <2>2 DEF BadAtRun, Insisted
<1>9. CASE k = "loop"
  BY <1>9 DEF Flags, BadAtRun
<1>10. CASE k = "llm_call"
  BY <1>10 DEF Flags, BadAtRun, BadLlm
<1>11. CASE k \in {"approval", "merge", "trigger"}
  BY <1>11 DEF Flags
<1> QED
  BY <1>1, <1>2, <1>3, <1>4, <1>5, <1>6, <1>7, <1>8, <1>9, <1>10, <1>11
     DEF Kinds, SideEffects

\* What the dry run lets pass although the run would refuse it, the validator has
\* refused, but for what only an execution finds out.
LEMMA DryRunTells ==
    ASSUME NEW k \in Kinds, NEW f \in Params(k), ~Flags(k, f), BadAtRun(k, f)
    PROVE  BadInDryRun(k, f) \/ OnlyTried(k, f)
<1>1. CASE k = "wait"
  BY <1>1 DEF Flags, BadAtRun, BadWait
<1>2. CASE k = "mcp_tool_call"
  BY <1>2 DEF BadInDryRun, BadAtRun, BadMcpCall, OnlyTried
<1>3. CASE k = "code_step"
  BY <1>3 DEF BadInDryRun, BadAtRun, BadModule, OnlyTried
<1>4. CASE k \in {"http_request", "sub_workflow"}
  BY <1>4 DEF OnlyTried
<1>5. CASE k \notin {"wait", "http_request", "sub_workflow", "mcp_tool_call", "code_step"}
  BY <1>5 DEF BadInDryRun
<1> QED
  BY <1>1, <1>2, <1>3, <1>4, <1>5

-----------------------------------------------------------------------------
(* Where items go. *)

\* Items on their way out: a switch has as many ports as it likes, here up to three.
Outgoing == [tag : 1..MaxInput, value : Values, port : 0..2]

\* What a node is given: some items, numbered from 1.
LEMMA InputsAre ==
    ASSUME NEW s \in Inputs
    PROVE  \E n \in Nat \ {0} : /\ n <= MaxInput /\ s \in [1..n -> Incoming] /\ Len(s) = n
                                /\ DOMAIN s = 1..n /\ s \in Seq(Incoming)
                                /\ \A i \in 1..n : s[i].tag = i
<1>1. PICK n \in 1..MaxInput : s \in {t \in [1..n -> Incoming] : \A i \in 1..n : t[i].tag = i}
  BY Zenon DEF Inputs
<1>2. n \in Nat \ {0} /\ n <= MaxInput
  BY NodeParamsAssumption
<1>3. s \in [1..n -> Incoming] /\ \A i \in 1..n : s[i].tag = i
  BY <1>1
<1>4. Len(s) = n /\ DOMAIN s = 1..n /\ s \in Seq(Incoming)
  BY <1>2, <1>3
<1> QED
  BY <1>2, <1>3, <1>4

\* o is s with the ports set anew, each to one of P.
Ported(s, o, P) ==
    /\ DOMAIN o = DOMAIN s
    /\ \A i \in DOMAIN s : \E p \in P : o[i] = [s[i] EXCEPT !.port = p]

\* Setting ports loses, doubles and reorders nothing.
LEMMA PortedIsKept ==
    ASSUME NEW s \in Inputs, NEW P, P \subseteq 0..2, NEW o, o = [i \in DOMAIN o |-> o[i]],
           Ported(s, o, P)
    PROVE  /\ Len(o) = Len(s)
           /\ \A i \in DOMAIN s : /\ o[i] \in Outgoing /\ o[i].port \in P
                                  /\ o[i].tag = s[i].tag /\ o[i].value = s[i].value
<1>1. PICK n \in Nat \ {0} : /\ n <= MaxInput /\ s \in [1..n -> Incoming] /\ Len(s) = n
                             /\ DOMAIN s = 1..n
  BY InputsAre
<1>2. DOMAIN o = 1..n
  BY <1>1 DEF Ported
<1>3. Len(o) = n
  BY <1>1, <1>2
<1>4. ASSUME NEW i \in DOMAIN s
      PROVE  /\ o[i] \in Outgoing /\ o[i].port \in P
             /\ o[i].tag = s[i].tag /\ o[i].value = s[i].value
  <2>1. PICK p \in P : o[i] = [s[i] EXCEPT !.port = p]
    BY DEF Ported
  <2>2. s[i] \in Incoming /\ p \in 0..2
    BY <1>1
  <2> QED
    BY <2>1, <2>2 DEF Incoming, Outgoing
<1> QED
  BY <1>1, <1>3, <1>4

\* A branch has two ports.
LEMMA BranchPorts ==
    ASSUME NEW s \in Inputs, NEW route
    PROVE  LET o == BranchOut(route, s)
           IN  o = [i \in DOMAIN o |-> o[i]] /\ Ported(s, o, {0, 1})
<1> DEFINE p(x) == IF Satisfied(route.op, x.value, route.value) THEN 0 ELSE 1
           o == BranchOut(route, s)
<1>1. o = [i \in DOMAIN s |-> [s[i] EXCEPT !.port = p(s[i])]]
  BY DEF BranchOut, OnPort
<1>2. \A x : p(x) \in {0, 1}
  OBVIOUS
<1> HIDE DEF o, p
<1> QED
  BY <1>1, <1>2 DEF Ported, o

\* The greatest of a set of numbers.
LEMMA MaxIs ==
    ASSUME NEW S, S \subseteq Int, NEW x \in S, \A y \in S : y <= x
    PROVE  Max(S) = x
<1>1. \E m \in S : \A y \in S : y <= m
  OBVIOUS
<1>2. Max(S) \in S /\ \A y \in S : y <= Max(S)
  BY <1>1 DEF Max
<1>3. \A a, b \in Int : a <= b /\ b <= a => a = b
  OBVIOUS
<1> QED
  BY <1>2, <1>3, Zenon

\* An item for which there is no case goes to a port past all cases, if it is not the
\* author who named one.
LEMMA SwitchPorts ==
    ASSUME NEW w \in Switches, NEW v
    PROVE  /\ SwitchPort(w, v) \in 0..2
           /\ w.default < 0 => \A c \in Range(w.cases) :
                 c.port = SwitchPort(w, v) => \E d \in Range(w.cases) : d.value = v
<1> DEFINE Case == [value : {"text", "null"}, port : 0..1]
<1>1. w.default \in -1..1 /\ \E n \in 0..2 : w.cases \in [1..n -> Case]
  BY DEF Switches
<1>2. PICK n \in 0..2 : w.cases \in [1..n -> Case]
  BY <1>1
<1>3. DOMAIN w.cases = 1..n /\ Range(w.cases) = {w.cases[i] : i \in 1..n}
  BY <1>2 DEF Range
<1> DEFINE hits == {i \in DOMAIN w.cases : w.cases[i].value = v}
           ports == {c.port : c \in Range(w.cases)}
<1>4. \A c \in Range(w.cases) : c \in Case /\ c.port \in 0..1
  BY <1>2, <1>3
<1>5. CASE hits = {}
  <2>1. SwitchPort(w, v) = DefaultPort(w)
    BY <1>5 DEF SwitchPort
  <2>2. \A c \in Range(w.cases) : c.value # v
    BY <1>3, <1>5
  <2>3. CASE w.default >= 0
    BY <1>1, <2>1, <2>3 DEF DefaultPort
  <2>4. CASE w.default < 0 /\ w.cases = <<>>
    <3>1. DefaultPort(w) = 0
      BY <1>1, <2>4 DEF DefaultPort
    <3>2. Range(w.cases) = {}
      BY <2>4 DEF Range
    <3> QED
      BY <2>1, <3>1, <3>2
  <2>5. CASE w.default < 0 /\ w.cases # <<>>
    <3>1. DefaultPort(w) = 1 + Max(ports)
      BY <1>1, <2>5 DEF DefaultPort
    <3>2. ports \subseteq {0, 1}
      BY <1>4
    <3>3. n # 0
      BY <1>2, <2>5
    <3>4. w.cases[1] \in Range(w.cases) /\ w.cases[1].port \in ports
      BY <1>2, <1>3, <3>3
    <3>5. Max(ports) \in ports /\ \A p \in ports : p <= Max(ports)
      <4> HIDE DEF ports
      <4>1. CASE 1 \in ports
        <5>1. ports \subseteq Int /\ \A y \in ports : y <= 1
          BY <3>2
        <5>2. Max(ports) = 1
          BY <4>1, <5>1, MaxIs, Zenon
        <5> QED
          BY <4>1, <5>1, <5>2
      <4>2. CASE 1 \notin ports
        <5>1. ports = {0}
          BY <3>2, <3>4, <4>2
        <5>2. ports \subseteq Int /\ 0 \in ports /\ \A y \in ports : y <= 0
          BY <5>1
        <5>3. Max(ports) = 0
          BY <5>2, MaxIs, Zenon
        <5> QED
          BY <5>2, <5>3
      <4> QED
        BY <4>1, <4>2
    <3>6. \A c \in Range(w.cases) : c.port \in ports
      OBVIOUS
    <3> HIDE DEF ports
    <3>7. Max(ports) \in {0, 1}
      BY <3>2, <3>5
    <3> DEFINE m == Max(ports)
    <3>8. SwitchPort(w, v) = 1 + m /\ m \in {0, 1} /\ \A p \in ports : p <= m
      BY <2>1, <3>1, <3>5, <3>7
    <3> HIDE DEF m
    <3>9. SwitchPort(w, v) \in 0..2 /\ \A p \in {0, 1} : p <= m => p # SwitchPort(w, v)
      BY <3>8
    <3>10. \A c \in Range(w.cases) : c.port # SwitchPort(w, v)
      BY <3>2, <3>6, <3>8, <3>9
    <3> QED
      BY <3>9, <3>10
  <2> QED
    BY <1>1, <2>3, <2>4, <2>5
<1>6. CASE hits # {}
  <2>1. hits \subseteq 1..n
    BY <1>3
  <2>2. Min(hits) \in hits
    <3>1. PICK m \in hits : \A i \in hits : m <= i
      BY <1>6, <2>1, LeastNumber
    <3> HIDE DEF hits
    <3> QED
      BY <3>1 DEF Min
  <2>3. SwitchPort(w, v) = w.cases[Min(hits)].port
    BY <1>6 DEF SwitchPort
  <2>4. w.cases[Min(hits)] \in Range(w.cases) /\ w.cases[Min(hits)].value = v
    BY <1>3, <2>2
  <2> QED
    BY <1>4, <2>3, <2>4
<1> QED
  BY <1>5, <1>6

\* What a switch does.
LEMMA SwitchedAre ==
    ASSUME NEW s \in Inputs, NEW w \in Switches
    PROVE  LET o == SwitchOut(w, s)
           IN  /\ o = [i \in DOMAIN o |-> o[i]] /\ Ported(s, o, 0..2)
               /\ \A i \in DOMAIN s : o[i].port = SwitchPort(w, s[i].value)
<1> DEFINE o == SwitchOut(w, s)
           p(x) == SwitchPort(w, x.value)
<1>1. o = [i \in DOMAIN s |-> [s[i] EXCEPT !.port = p(s[i])]]
  BY DEF SwitchOut, OnPort
<1>2. \A x : p(x) \in 0..2
  BY SwitchPorts
<1>3. \A i \in DOMAIN s : s[i] \in Incoming
  BY InputsAre
<1> HIDE DEF o, p
<1>4. Ported(s, o, 0..2) /\ o = [i \in DOMAIN o |-> o[i]]
  BY <1>1, <1>2 DEF Ported
<1>5. \A i \in DOMAIN s : o[i].port = p(s[i])
  BY <1>1, <1>3 DEF Incoming
<1> QED
  BY <1>4, <1>5 DEF o, p

\* The kinds with one port.
LEMMA PassedAre ==
    ASSUME NEW s \in Inputs
    PROVE  LET o == PassOut(s)
           IN  o = [i \in DOMAIN o |-> o[i]] /\ Ported(s, o, {0})
<1> DEFINE o == PassOut(s)
<1>1. o = [i \in DOMAIN s |-> [s[i] EXCEPT !.port = 0]]
  BY DEF PassOut, OnPort
<1> HIDE DEF o
<1> QED
  BY <1>1 DEF Ported, o

\* What a loop owes the i-th item, when it has sent o on.
ClosedOnce(s, o, i) ==
    LET own == {j \in DOMAIN o : o[j].tag = i}
    IN  IF s[i].value \in {"list", "nothing"}
        THEN {j \in own : o[j].port = 1} = {Max(own)}
        ELSE \E j \in own : own = {j} /\ o[j] = [s[i] EXCEPT !.port = 0]

\* The elements of one item.
LEMMA ElementsAre ==
    ASSUME NEW x \in Incoming
    PROVE  LET e == Elements(x)
           IN  /\ e \in Seq(Outgoing) /\ Len(e) \in 1..3
               /\ \A j \in 1..Len(e) : e[j].tag = x.tag
               /\ IF x.value \in {"list", "nothing"}
                  THEN \A j \in 1..Len(e) : e[j].port = 1 <=> j = Len(e)
                  ELSE Len(e) = 1 /\ e[1] = [x EXCEPT !.port = 0]
<1> DEFINE body == [x EXCEPT !.value = "text", !.port = 0]
           done == [x EXCEPT !.value = "zero", !.port = 1]
           same == [x EXCEPT !.port = 0]
<1>1. /\ body \in Outgoing /\ body.tag = x.tag /\ body.port = 0
      /\ done \in Outgoing /\ done.tag = x.tag /\ done.port = 1
      /\ same \in Outgoing /\ same.tag = x.tag
  <2>0. x \in Outgoing /\ {"text", "zero"} \subseteq Values /\ {0, 1} \subseteq 0..2
    BY DEF Incoming, Outgoing, Values
  <2>1. body \in Outgoing /\ done \in Outgoing
    <3> DEFINE T == 1..MaxInput
               P == 0..2
    <3>1. x \in [tag : T, value : Values, port : P] /\ {"text", "zero"} \subseteq Values /\ {0, 1} \subseteq P
      BY <2>0 DEF Outgoing
    <3> HIDE DEF T, P
    <3>2. /\ body \in [tag : T, value : Values, port : P]
          /\ done \in [tag : T, value : Values, port : P]
      BY <3>1
    <3> QED
      BY <3>2 DEF Outgoing, T, P
  <2>2. same \in Outgoing
    BY DEF Incoming, Outgoing
  <2>3. body.tag = x.tag /\ body.port = 0
    BY DEF Incoming
  <2>4. done.tag = x.tag /\ done.port = 1
    BY DEF Incoming
  <2>5. same.tag = x.tag
    BY DEF Incoming
  <2> QED
    BY <2>1, <2>2, <2>3, <2>4, <2>5
<1>2. Elements(x) = CASE x.value = "list" -> <<body, body, done>>
                      [] x.value = "nothing" -> <<done>>
                      [] OTHER -> <<same>>
  BY DEF Elements
<1>a. same = [x EXCEPT !.port = 0]
  OBVIOUS
<1> HIDE DEF body, done, same
<1>3. CASE x.value = "list"
  <2>1. Elements(x) = <<body, body, done>>
    BY <1>2, <1>3
  <2> QED
    BY <1>1, <1>3, <2>1
<1>4. CASE x.value = "nothing"
  <2>1. Elements(x) = <<done>>
    BY <1>2, <1>4
  <2> QED
    BY <1>1, <1>4, <2>1
<1>5. CASE x.value \notin {"list", "nothing"}
  <2>1. Elements(x) = <<same>>
    BY <1>2, <1>5
  <2>2. <<same>> \in Seq(Outgoing) /\ Len(<<same>>) = 1 /\ <<same>>[1] = same
    BY <1>1
  <2>3. Elements(x) \in Seq(Outgoing) /\ Len(Elements(x)) = 1 /\ Elements(x)[1] = same
    BY <2>1, <2>2
  <2> HIDE DEF Elements
  <2>4. \A j \in 1..1 : j = 1
    OBVIOUS
  <2>5. Len(Elements(x)) = 1 /\ Elements(x)[1] = [x EXCEPT !.port = 0]
    BY <1>a, <2>3, Zenon
  <2>6. \A j \in 1..Len(Elements(x)) : Elements(x)[j].tag = x.tag
    BY <1>1, <2>3, <2>4
  <2>7. Len(Elements(x)) \in 1..3
    BY <2>3
  <2> QED
    BY <1>5, <2>3, <2>5, <2>6, <2>7, Zenon
<1> QED
  BY <1>3, <1>4, <1>5

\* What a loop has sent on after k items.
SentOn(s, k, o) ==
    /\ o \in Seq(Outgoing)
    /\ \A j \in DOMAIN o : o[j].tag <= k
    /\ \A i \in 1..k : ClosedOnce(s, o, i)

\* The next item.
LEMMA NextIsSentOn ==
    ASSUME NEW n \in Nat, NEW s \in [1..n -> Incoming], NEW k \in 1..n, s[k].tag = k,
           NEW p, SentOn(s, k - 1, p)
    PROVE  SentOn(s, k, p \o Elements(s[k]))
<1> DEFINE x == s[k]
           e == Elements(x)
           o == p \o e
           l == Len(p)
           m == Len(e)
<1>1. /\ p \in Seq(Outgoing) /\ l \in Nat /\ DOMAIN p = 1..l
      /\ \A j \in 1..l : p[j] \in Outgoing /\ p[j].tag <= k - 1
  BY DEF SentOn
<1>2. x \in Incoming /\ x.tag = k
  OBVIOUS
<1>3. /\ e \in Seq(Outgoing) /\ m \in 1..3 /\ \A j \in 1..m : e[j].tag = k
      /\ IF x.value \in {"list", "nothing"}
         THEN \A j \in 1..m : e[j].port = 1 <=> j = m
         ELSE m = 1 /\ e[1] = [x EXCEPT !.port = 0]
  BY <1>2, ElementsAre
<1> HIDE DEF e, x
<1>4. /\ o \in Seq(Outgoing) /\ DOMAIN o = 1..(l + m)
      /\ \A j \in 1..l : o[j] = p[j]
      /\ \A j \in 1..m : o[l + j] = e[j]
  BY <1>1, <1>3
<1> HIDE DEF o, m
<1>5. \A j \in 1..(l + m) : j \in 1..l \/ (j - l \in 1..m /\ j = l + (j - l))
  BY <1>1, <1>3
<1>6. \A j \in 1..(l + m) : IF j \in 1..l THEN o[j] = p[j] /\ o[j].tag <= k - 1
                             ELSE j - l \in 1..m /\ o[j] = e[j - l] /\ o[j].tag = k
  <2>1. ASSUME NEW j \in 1..(l + m), j \notin 1..l
        PROVE  j - l \in 1..m /\ o[j] = e[j - l] /\ o[j].tag = k
    <3>1. j - l \in 1..m /\ j = l + (j - l)
      BY <1>5, <2>1
    <3> QED
      BY <1>3, <1>4, <3>1
  <2>2. ASSUME NEW j \in 1..l PROVE o[j] = p[j] /\ o[j].tag <= k - 1
    BY <1>1, <1>4, <2>2
  <2> QED
    BY <2>1, <2>2
<1>7. \A j \in DOMAIN o : o[j].tag <= k
  BY <1>1, <1>4, <1>6 DEF Outgoing
<1>8. ASSUME NEW i \in 1..(k - 1) PROVE ClosedOnce(s, o, i)
  <2>1. {j \in DOMAIN o : o[j].tag = i} = {j \in DOMAIN p : p[j].tag = i}
    <3>1. ASSUME NEW j \in DOMAIN o, o[j].tag = i PROVE j \in DOMAIN p /\ p[j].tag = i
      BY <1>1, <1>4, <1>6, <3>1
    <3>2. ASSUME NEW j \in DOMAIN p, p[j].tag = i PROVE j \in DOMAIN o /\ o[j].tag = i
      BY <1>1, <1>3, <1>4, <3>2
    <3> QED
      BY <3>1, <3>2
  <2>2. \A j \in DOMAIN p : o[j] = p[j]
    BY <1>1, <1>4
  <2> DEFINE own == {j \in DOMAIN p : p[j].tag = i}
  <2>3. {j \in own : o[j].port = 1} = {j \in own : p[j].port = 1} /\ \A j \in own : o[j] = p[j]
    BY <2>2
  <2>4. ClosedOnce(s, p, i)
    BY DEF SentOn
  <2>5. IF s[i].value \in {"list", "nothing"}
        THEN {j \in own : p[j].port = 1} = {Max(own)}
        ELSE \E j \in own : own = {j} /\ p[j] = [s[i] EXCEPT !.port = 0]
    BY <2>4 DEF ClosedOnce
  <2>6. {j \in DOMAIN o : o[j].tag = i} = own
    BY <2>1
  <2> HIDE DEF own
  <2>7. IF s[i].value \in {"list", "nothing"}
        THEN {j \in own : o[j].port = 1} = {Max(own)}
        ELSE \E j \in own : own = {j} /\ o[j] = [s[i] EXCEPT !.port = 0]
    BY <2>3, <2>5, Zenon
  <2> QED
    BY <2>6, <2>7, Zenon DEF ClosedOnce
<1>9. ClosedOnce(s, o, k)
  <2> DEFINE own == {j \in DOMAIN o : o[j].tag = k}
  <2>1. own = (l + 1)..(l + m)
    <3>1. ASSUME NEW j \in own PROVE j \in (l + 1)..(l + m)
      BY <1>1, <1>3, <1>4, <1>6
    <3>2. ASSUME NEW j \in (l + 1)..(l + m) PROVE j \in own
      <4>1. j \in 1..(l + m) /\ j \notin 1..l
        BY <1>1, <1>3
      <4> QED
        BY <1>4, <1>6, <4>1
    <3> QED
      BY <3>1, <3>2
  <2>2. l + m \in own /\ own \subseteq Int /\ \A j \in own : j <= l + m
    BY <1>1, <1>3, <2>1
  <2>3. ASSUME NEW j \in own PROVE j - l \in 1..m /\ o[j] = e[j - l]
    BY <1>1, <1>3, <1>4, <1>6, <2>1
  <2> HIDE DEF own
  <2>4. Max(own) = l + m
    BY <2>2, MaxIs
  <2>5. CASE x.value \in {"list", "nothing"}
    <3>1. \A j \in own : o[j].port = 1 <=> j - l = m
      BY <1>3, <2>3, <2>5
    <3>2. \A j \in own : j - l = m <=> j = l + m
      BY <1>1, <1>3, <2>2
    <3>3. {j \in own : o[j].port = 1} = {Max(own)}
      BY <2>2, <2>4, <3>1, <3>2
    <3> QED
      BY <2>5, <3>3 DEF ClosedOnce, own, x
  <2>6. CASE x.value \notin {"list", "nothing"}
    <3>1. m = 1 /\ e[1] = [x EXCEPT !.port = 0]
      BY <1>3, <2>6
    <3>2. own = {l + 1} /\ l + 1 \in own
      BY <1>1, <2>1, <3>1
    <3>3. o[l + 1] = e[1]
      BY <1>4, <3>1
    <3>4. \E j \in own : own = {j} /\ o[j] = [x EXCEPT !.port = 0]
      BY <3>1, <3>2, <3>3, Zenon
    <3> QED
      BY <2>6, <3>4, Zenon DEF ClosedOnce, own, x
  <2> QED
    BY <2>5, <2>6
<1>10. \A i \in 1..k : i \in 1..(k - 1) \/ i = k
  OBVIOUS
<1> QED
  BY <1>4, <1>7, <1>8, <1>9, <1>10 DEF SentOn, o, e, x

\* All items.
LEMMA LoopedAre ==
    ASSUME NEW s \in Inputs
    PROVE  /\ \A j \in DOMAIN LoopOut(s) : LoopOut(s)[j] \in Outgoing
           /\ \A i \in DOMAIN s : ClosedOnce(s, LoopOut(s), i) /\ s[i].tag = i
<1>1. PICK n \in Nat \ {0} : /\ s \in [1..n -> Incoming] /\ DOMAIN s = 1..n
                             /\ \A i \in 1..n : s[i].tag = i
  BY InputsAre
<1> DEFINE ss == [i \in DOMAIN s |-> Elements(s[i])]
<1>2. ss = [i \in 1..n |-> Elements(s[i])]
  BY <1>1
<1>3. \A i \in 1..n : Elements(s[i]) \in Seq(Outgoing)
  BY <1>1, ElementsAre
<1>4. ss \in [1..n -> Seq(Outgoing)] /\ \A i \in 1..n : ss[i] = Elements(s[i])
  BY <1>2, <1>3
<1>5. LoopOut(s) = FlattenSeq(ss)
  BY DEF LoopOut
<1> HIDE DEF ss
<1>6. PICK f \in [1..n -> Seq(Outgoing)] : JoinedUpTo(ss, f, n) /\ FlattenSeq(ss) = f[n]
  BY <1>4, FlattenIs
<1>7. SentOn(s, 0, <<>>)
  BY DEF SentOn
<1> DEFINE Off == {k \in 1..n : ~SentOn(s, k, f[k])}
<1>8. Off = {}
  <2>1. SUFFICES ASSUME Off # {} PROVE FALSE
    OBVIOUS
  <2>2. Off \subseteq Nat
    OBVIOUS
  <2>3. PICK l \in Off : \A k \in Off : l <= k
    BY <2>1, <2>2, LeastNumber
  <2>4. l \in 1..n /\ ~SentOn(s, l, f[l])
    BY <2>3
  <2>5. CASE l = 1
    <3>1. f[1] = <<>> \o Elements(s[1])
      <4>1. f[1] = Elements(s[1]) /\ Elements(s[1]) \in Seq(Outgoing)
        BY <1>3, <1>4, <1>6, <2>4, <2>5 DEF JoinedUpTo
      <4> QED
        BY <4>1
    <3>2. SentOn(s, 1 - 1, <<>>)
      BY <1>7
    <3>3. SentOn(s, 1, <<>> \o Elements(s[1]))
      BY <1>1, <2>4, <2>5, <3>2, NextIsSentOn
    <3> QED
      BY <2>4, <2>5, <3>1, <3>3
  <2>6. CASE l # 1
    <3>1. l - 1 \in 1..n /\ l \in 2..n /\ l - 1 \notin Off
      BY <2>3, <2>4, <2>6
    <3>2. SentOn(s, l - 1, f[l - 1])
      BY <3>1
    <3>3. SentOn(s, l, f[l - 1] \o Elements(s[l]))
      BY <1>1, <2>4, <3>2, NextIsSentOn
    <3>4. f[l] = f[l - 1] \o Elements(s[l])
      BY <1>4, <1>6, <2>4, <3>1 DEF JoinedUpTo
    <3> QED
      BY <2>4, <3>3, <3>4
  <2> QED
    BY <2>5, <2>6
<1>9. SentOn(s, n, LoopOut(s))
  BY <1>5, <1>6, <1>8
<1> QED
  BY <1>1, <1>9 DEF SentOn

-----------------------------------------------------------------------------
(* The node. *)

\* What each reader has said.
ReadersKept ==
    /\ kind \in Kinds /\ params \in Params(kind)
    /\ progress \in {"authored", "validated", "dry_run", "executed"}
    /\ flagged \in BOOLEAN /\ refused \in BOOLEAN /\ bad \in BOOLEAN
    /\ flagged => Flags(kind, params)
    /\ progress # "authored" /\ ~flagged => ~Flags(kind, params)
    /\ progress \in {"dry_run", "executed"} => ~flagged /\ (BadInDryRun(kind, params) => refused)
    /\ bad => progress = "executed" /\ BadAtRun(kind, params)

\* What is sent on is what the node's kind makes of its items.
DeliveryKept ==
    /\ input = <<>> \/ input \in Inputs
    /\ output # <<>> =>
         /\ input \in Inputs
         /\ \/ kind = "branch" /\ \E route \in Routes : output = BranchOut(route, input)
            \/ kind = "switch" /\ config \in Switches /\ output = SwitchOut(config, input)
            \/ kind = "loop" /\ output = LoopOut(input)
            \/ kind \in {"merge", "wait", "transform"} /\ output = PassOut(input)

\* The inductive invariant of the parameters of a node.
ParamsInv == ReadersKept /\ DeliveryKept

\* A reader's verdict is one of two.
LEMMA Verdicts ==
    ASSUME NEW k \in Kinds, NEW f \in Params(k)
    PROVE  Flags(k, f) \in BOOLEAN /\ BadInDryRun(k, f) \in BOOLEAN
<1>1. Flags(k, f) \in BOOLEAN
  BY DEF Flags, FlagsHttp, FlagsBranch, FlagsSwitch, FlagsSub, FlagsMcp, FlagsCode, Given, Text
<1>2. BadAtRun(k, f) \in BOOLEAN
  BY DEF BadAtRun, BadHttp, BadAuth, BadTransform, BadBranch, BadSwitch, BadWait, BadSub, BadLlm,
         BadMcpSpec, BadMcpCall, BadCode, BadModule, BadApproval, Given, Text
<1>3. BadInDryRun(k, f) \in BOOLEAN
  BY <1>2 DEF BadInDryRun, BadMcpSpec, BadCode, Given, Text
<1> QED
  BY <1>1, <1>3

\* At the start nobody has read anything.
LEMMA ParamsStart == Init => ParamsInv
  BY DEF Init, ParamsInv, ReadersKept, DeliveryKept

\* Every step keeps the invariant.
LEMMA ParamsKeep == ParamsInv /\ [Next]_vars => ParamsInv'
<1> SUFFICES ASSUME ParamsInv, [Next]_vars PROVE ParamsInv'
  OBVIOUS
<1> USE DEF ParamsInv
<1>1. CASE Validate
  <2>1. kind' = kind /\ params' = params /\ flagged' = Flags(kind, params) /\ progress' = "validated"
        /\ UNCHANGED <<refused, bad, input, output, config>> /\ progress = "authored"
    BY <1>1 DEF Validate
  <2>2. ReadersKept'
    BY <2>1, Verdicts DEF ReadersKept
  <2>3. DeliveryKept'
    BY <2>1 DEF DeliveryKept
  <2> QED
    BY <2>2, <2>3
<1>2. CASE DryRun
  <2>1. UNCHANGED <<kind, params, flagged, bad, input, output, config>> /\ ~flagged
        /\ refused' = BadInDryRun(kind, params) /\ progress = "validated" /\ progress' = "dry_run"
    BY <1>2 DEF DryRun
  <2>2. ReadersKept'
    BY <2>1, Verdicts DEF ReadersKept
  <2>3. DeliveryKept'
    BY <2>1 DEF DeliveryKept
  <2> QED
    BY <2>2, <2>3
<1>3. CASE Refuse
  <2>1. UNCHANGED <<kind, params, flagged, refused, input, output, config>> /\ bad' = TRUE
        /\ BadAtRun(kind, params) /\ progress = "dry_run" /\ progress' = "executed"
    BY <1>3 DEF Refuse
  <2>2. ReadersKept'
    BY <2>1 DEF ReadersKept
  <2>3. DeliveryKept'
    BY <2>1 DEF DeliveryKept
  <2> QED
    BY <2>2, <2>3
<1>4. ASSUME Run PROVE ReadersKept' /\ kind' = kind
  <2>1. UNCHANGED <<kind, params, flagged, refused, bad>> /\ progress = "dry_run" /\ progress' = "executed"
    BY <1>4 DEF Run
  <2> QED
    BY <2>1 DEF ReadersKept
<1>5. CASE RunBranch
  <2>1. /\ kind = "branch" /\ Run /\ input' \in Inputs /\ config' \in Routes
        /\ output' = BranchOut(config', input')
    BY <1>5 DEF RunBranch, Route
  <2> QED
    BY <1>4, <2>1 DEF DeliveryKept
<1>6. CASE RunSwitch
  <2>1. /\ kind = "switch" /\ Run /\ input' \in Inputs /\ config' \in Switches
        /\ output' = SwitchOut(config', input')
    BY <1>6 DEF RunSwitch, Route
  <2> QED
    BY <1>4, <2>1 DEF DeliveryKept
<1>7. CASE RunLoop
  <2>1. kind = "loop" /\ Run /\ input' \in Inputs /\ output' = LoopOut(input')
    BY <1>7 DEF RunLoop, Route
  <2> QED
    BY <1>4, <2>1 DEF DeliveryKept
<1>8. CASE RunPass
  <2>1. /\ kind \in {"merge", "wait", "transform"} /\ Run /\ input' \in Inputs
        /\ output' = PassOut(input')
    BY <1>8 DEF RunPass, Route
  <2> QED
    BY <1>4, <2>1 DEF DeliveryKept
<1>9. CASE RunOther
  <2>1. Run /\ UNCHANGED <<input, output, config>>
    BY <1>9 DEF RunOther
  <2> QED
    BY <1>4, <2>1 DEF DeliveryKept
<1>10. CASE UNCHANGED vars
  <2>1. ReadersKept'
    BY <1>10 DEF vars, ReadersKept
  <2>2. DeliveryKept'
    BY <1>10 DEF vars, DeliveryKept
  <2> QED
    BY <2>1, <2>2
<1> QED
  BY <1>1, <1>2, <1>3, <1>5, <1>6, <1>7, <1>8, <1>9, <1>10 DEF Next

\* The inductive invariant holds.
THEOREM ParamsCorrect == Spec => []ParamsInv
  BY ParamsStart, ParamsKeep, PTL DEF Spec

\* What a node sends on has the type of its items, and leaves once.
LEMMA DeliveredIs ==
    ASSUME ParamsInv, output # <<>>
    PROVE  /\ input \in Inputs /\ DOMAIN output = DOMAIN output
           /\ \A i \in DOMAIN output : output[i] \in Outgoing
           /\ kind # "loop" =>
                /\ Len(output) = Len(input) /\ DOMAIN output = DOMAIN input
                /\ \A i \in DOMAIN input :
                      /\ output[i].tag = input[i].tag /\ output[i].value = input[i].value
                      /\ kind = "branch" => output[i].port \in {0, 1}
                      /\ kind \in {"merge", "wait", "transform"} => output[i].port = 0
                      /\ kind = "switch" => config \in Switches
                                            /\ output[i].port = SwitchPort(config, input[i].value)
<1>1. input \in Inputs
  BY DEF ParamsInv, DeliveryKept
<1>2. ASSUME NEW P, P \subseteq 0..2, output = [i \in DOMAIN output |-> output[i]],
             Ported(input, output, P)
      PROVE  /\ \A i \in DOMAIN output : output[i] \in Outgoing
             /\ Len(output) = Len(input) /\ DOMAIN output = DOMAIN input
             /\ \A i \in DOMAIN input :
                   /\ output[i].tag = input[i].tag /\ output[i].value = input[i].value
                   /\ output[i].port \in P
  <2>1. DOMAIN output = DOMAIN input
    BY <1>2 DEF Ported
  <2>2. /\ Len(output) = Len(input)
        /\ \A i \in DOMAIN input : /\ output[i] \in Outgoing /\ output[i].port \in P
                                   /\ output[i].tag = input[i].tag /\ output[i].value = input[i].value
    BY <1>1, <1>2, PortedIsKept
  <2> QED
    BY <2>1, <2>2
<1>3. CASE kind = "branch"
  <2>1. PICK route \in Routes : output = BranchOut(route, input)
    BY <1>3 DEF ParamsInv, DeliveryKept
  <2>2. output = [i \in DOMAIN output |-> output[i]] /\ Ported(input, output, {0, 1})
    BY <1>1, <2>1, BranchPorts
  <2>3. {0, 1} \subseteq 0..2
    OBVIOUS
  <2> QED
    BY <1>1, <1>2, <1>3, <2>2, <2>3
<1>4. CASE kind = "switch"
  <2>1. config \in Switches /\ output = SwitchOut(config, input)
    BY <1>4 DEF ParamsInv, DeliveryKept
  <2>2. /\ output = [i \in DOMAIN output |-> output[i]] /\ Ported(input, output, 0..2)
        /\ \A i \in DOMAIN input : output[i].port = SwitchPort(config, input[i].value)
    BY <1>1, <2>1, SwitchedAre
  <2> QED
    BY <1>1, <1>2, <1>4, <2>1, <2>2
<1>5. CASE kind \in {"merge", "wait", "transform"}
  <2>1. output = PassOut(input)
    BY <1>5 DEF ParamsInv, DeliveryKept
  <2>2. output = [i \in DOMAIN output |-> output[i]] /\ Ported(input, output, {0})
    BY <1>1, <2>1, PassedAre
  <2>3. {0} \subseteq 0..2
    OBVIOUS
  <2> QED
    BY <1>1, <1>2, <1>5, <2>2, <2>3
<1>6. CASE kind = "loop"
  <2>1. output = LoopOut(input)
    BY <1>6 DEF ParamsInv, DeliveryKept
  <2> QED
    BY <1>1, <1>6, <2>1, LoopedAre
<1> QED
  BY <1>3, <1>4, <1>5, <1>6 DEF ParamsInv, DeliveryKept

\* The type invariant, for the readers and the items.
LEMMA ParamsTyped ==
    ASSUME ParamsInv
    PROVE  TypeOK
<1>1. \A i \in DOMAIN output : output[i] \in Outgoing
  <2>1. CASE output = <<>>
    BY <2>1
  <2>2. CASE output # <<>>
    BY <2>2, DeliveredIs
  <2> QED
    BY <2>1, <2>2
<1> QED
  BY <1>1 DEF ParamsInv, ReadersKept, DeliveryKept, TypeOK, Outgoing

\* ReadersOfParamsAgree: the validator, the dry run and the run of a node agree on its
\* parameters, whatever they are, but for the exceptions that the property names.
THEOREM ReadersAgreeOnParams == Spec => []ReadersOfParamsAgree
<1>1. ASSUME ParamsInv PROVE ReadersOfParamsAgree
  <2>1. TypeOK
    BY <1>1, ParamsTyped
  <2>2. NoFalseAlarm
    BY <1>1, AlarmsAreTrue DEF ParamsInv, ReadersKept, NoFalseAlarm
  <2>3. DryRunFindsBadParams
    <3>1. ASSUME bad PROVE refused \/ OnlyTried(kind, params)
      <4>1. /\ kind \in Kinds /\ params \in Params(kind) /\ BadAtRun(kind, params)
            /\ ~Flags(kind, params) /\ (BadInDryRun(kind, params) => refused)
        BY <1>1, <3>1 DEF ParamsInv, ReadersKept
      <4> QED
        BY <4>1, DryRunTells
    <3> QED
      BY <3>1 DEF DryRunFindsBadParams
  <2> QED
    BY <2>1, <2>2, <2>3 DEF ReadersOfParamsAgree
<1> QED
  BY <1>1, ParamsCorrect, PTL

\* RoutingSound: branch, switch, loop and the kinds with one port lose and double nothing,
\* for any number of items, and every list that a loop goes through is closed once.
THEOREM RoutingIsSound == Spec => []RoutingSound
<1>1. ASSUME ParamsInv PROVE RoutingSound
  <2>1. EveryItemLeavesOnce
    BY <1>1, DeliveredIs DEF EveryItemLeavesOnce
  <2>2. NoCaseNoPort
    <3> SUFFICES ASSUME kind = "switch", output # <<>>, config.default < 0, NEW i \in DOMAIN output,
                        NEW c \in Range(config.cases), c.port = output[i].port
                 PROVE  \E d \in Range(config.cases) : d.value = output[i].value
      BY Zenon DEF NoCaseNoPort
    <3>1. /\ i \in DOMAIN input /\ config \in Switches
          /\ output[i].port = SwitchPort(config, input[i].value)
          /\ output[i].value = input[i].value
      BY <1>1, DeliveredIs
    <3> QED
      BY <3>1, SwitchPorts
  <2>3. OneSummaryPerList
    <3>1. ASSUME kind = "loop", output # <<>>, NEW i \in DOMAIN input
          PROVE  ClosedOnce(input, output, i) /\ input[i].tag = i
      <4>1. input \in Inputs /\ output = LoopOut(input)
        BY <1>1, <3>1 DEF ParamsInv, DeliveryKept
      <4> QED
        BY <3>1, <4>1, LoopedAre
    <3> QED
      BY <3>1, Zenon DEF OneSummaryPerList, ClosedOnce
  <2> QED
    BY <2>1, <2>2, <2>3 DEF RoutingSound
<1> QED
  BY <1>1, ParamsCorrect, PTL
=============================================================================
