------------------------------ MODULE FiniteSums ------------------------------
(***************************************************************************)
(* What MapThenSumSet of the community modules computes, for a function    *)
(* summed over a finite set: the empty sum, one element taken out, sums of *)
(* the same summands, bounds.  Every fact is proved by a smallest subset   *)
(* that would refute it.                                                   *)
(***************************************************************************)
EXTENDS Integers, FiniteSets, FiniteSetsExt, FiniteSetTheorems, WellFoundedInduction, TLAPS

Sum(w, S) == MapThenSumSet(LAMBDA a : w[a], S)

\* The element a fold takes first, and the equation of the function it is.
Pick(S) == CHOOSE x \in S : TRUE
Rest(S) == S \ {Pick(S)}
IsTotals(g, w, S) == g = [T \in SUBSET S |-> IF T = {} THEN 0 ELSE w[Pick(T)] + g[Rest(T)]]
Total(w, S) == (CHOOSE g : IsTotals(g, w, S))[S]

-----------------------------------------------------------------------------
LEMMA SumIsTotal == ASSUME NEW w, NEW S PROVE Sum(w, S) = Total(w, S)
  BY DEF Sum, MapThenSumSet, MapThenFoldSet, Total, IsTotals, Pick, Rest

\* Of any subsets of a finite set, if there are some, one has none of the others
\* strictly inside it.
LEMMA SmallestSubset ==
    ASSUME NEW S, IsFiniteSet(S), NEW D \in SUBSET SUBSET S, D # {}
    PROVE  \E T \in D : \A U \in D : U \subseteq T => U = T
  <1> DEFINE R == StrictSubsetOrdering(S)
  <1>1. IsWellFoundedOn(R, SUBSET S)
    BY FS_StrictSubsetOrderingWellFounded, FS_FiniteSubsetsOfFinite
  <1> HIDE DEF R
  <1>2. PICK T \in D : \A U \in D : ~ (<<U, T>> \in R)
    BY <1>1, WFMin
  <1>3. \A U \in D : U \subseteq T => U = T
    BY <1>2 DEF R, StrictSubsetOrdering
  <1> QED
    BY <1>3

LEMMA PickRest ==
    ASSUME NEW S, S # {}
    PROVE  Pick(S) \in S /\ Rest(S) \subseteq S /\ Rest(S) # S
  BY DEF Pick, Rest

-----------------------------------------------------------------------------
\* The equation has one solution at most,
LEMMA TotalsAgree ==
    ASSUME NEW w, NEW S, NEW T, IsFiniteSet(S), NEW g, NEW h,
           IsTotals(g, w, S), IsTotals(h, w, T), NEW U \in SUBSET (S \cap T)
    PROVE  g[U] = h[U]
  <1> DEFINE D == {V \in SUBSET (S \cap T) : g[V] # h[V]}
  <1> SUFFICES ASSUME D # {} PROVE FALSE
    OBVIOUS
  <1>1. D \in SUBSET SUBSET S
    OBVIOUS
  <1> HIDE DEF D
  <1>2. PICK V \in D : \A W \in D : W \subseteq V => W = V
    BY <1>1, SmallestSubset
  <1> USE DEF D
  <1>3. V # {}
    BY DEF IsTotals
  <1>4. Rest(V) \in SUBSET (S \cap T) /\ Rest(V) \notin D
    BY <1>2, <1>3, PickRest
  <1>5. g[Rest(V)] = h[Rest(V)]
    BY <1>4
  <1>6. g[V] = w[Pick(V)] + g[Rest(V)] /\ h[V] = w[Pick(V)] + h[Rest(V)]
    BY <1>3 DEF IsTotals
  <1> QED
    BY <1>5, <1>6

Solvable(w, S) == \E g : IsTotals(g, w, S)

\* so that where it has one, Total obeys it, and so it does on every subset.
LEMMA TotalWhereSolvable ==
    ASSUME NEW w, NEW S, IsFiniteSet(S), Solvable(w, S)
    PROVE  /\ Total(w, {}) = 0
           /\ S # {} => Solvable(w, Rest(S)) /\ Total(w, S) = w[Pick(S)] + Total(w, Rest(S))
  <1> DEFINE g == CHOOSE g : IsTotals(g, w, S)
  <1>1. IsTotals(g, w, S) /\ Total(w, S) = g[S]
    BY DEF Solvable, Total
  <1> HIDE DEF g
  <1>2. ASSUME NEW T \in SUBSET S PROVE Solvable(w, T) /\ Total(w, T) = g[T]
    <2> DEFINE h == [U \in SUBSET T |-> g[U]]
    <2>1. IsTotals(h, w, T)
      <3>1. \A U \in SUBSET T : U # {} => Rest(U) \in SUBSET T
        BY PickRest
      <3>2. \A U \in SUBSET T : g[U] = IF U = {} THEN 0 ELSE w[Pick(U)] + g[Rest(U)]
        BY <1>1 DEF IsTotals
      <3>3. \A U \in SUBSET T : h[U] = IF U = {} THEN 0 ELSE w[Pick(U)] + h[Rest(U)]
        BY <3>1, <3>2
      <3> QED
        BY <3>3 DEF IsTotals
    <2> HIDE DEF h
    <2> DEFINE k == CHOOSE k : IsTotals(k, w, T)
    <2>2. IsTotals(k, w, T) /\ Total(w, T) = k[T]
      BY <2>1 DEF Total
    <2> HIDE DEF k
    <2>3. k[T] = g[T]
      BY <1>1, <2>2, TotalsAgree
    <2> QED
      BY <2>1, <2>2, <2>3 DEF Solvable
  <1>3. Total(w, {}) = g[{}] /\ g[{}] = 0
    BY <1>1, <1>2 DEF IsTotals
  <1>4. ASSUME S # {}
        PROVE  Solvable(w, Rest(S)) /\ Total(w, S) = w[Pick(S)] + Total(w, Rest(S))
    <2>1. g[S] = w[Pick(S)] + g[Rest(S)]
      BY <1>1, <1>4 DEF IsTotals
    <2>2. Rest(S) \in SUBSET S
      BY <1>4, PickRest
    <2> QED
      BY <1>1, <1>2, <2>1, <2>2
  <1> QED
    BY <1>3, <1>4

\* It has one on every finite set.
LEMMA TotalsExist ==
    ASSUME NEW w, NEW S, IsFiniteSet(S)
    PROVE  Solvable(w, S)
  <1> DEFINE D == {T \in SUBSET S : ~ Solvable(w, T)}
  <1> SUFFICES ASSUME D # {} PROVE FALSE
    OBVIOUS
  <1>0. D \in SUBSET SUBSET S
    OBVIOUS
  <1> HIDE DEF D
  <1>1. PICK T \in D : \A U \in D : U \subseteq T => U = T
    BY <1>0, SmallestSubset
  <1> USE DEF D
  <1>2. \A U \in SUBSET T : IsFiniteSet(U) /\ (U # T => Solvable(w, U))
    BY <1>1, FS_Subset
  <1> DEFINE value(U) == IF U = {} THEN 0 ELSE w[Pick(U)] + Total(w, Rest(U))
             g == [U \in SUBSET T |-> IF U = T THEN value(T) ELSE Total(w, U)]
  <1>3. \A U \in SUBSET T : U # T => Total(w, U) = value(U)
    BY <1>2, TotalWhereSolvable
  <1>4. \A U \in SUBSET T : g[U] = value(U)
    BY <1>3
  <1>5. \A U \in SUBSET T : U # {} => Rest(U) \in SUBSET T /\ Rest(U) # T
    BY PickRest
  <1>6. \A U \in SUBSET T : U # {} => g[Rest(U)] = Total(w, Rest(U))
    BY <1>5
  <1>7. \A U \in SUBSET T : g[U] = IF U = {} THEN 0 ELSE w[Pick(U)] + g[Rest(U)]
    BY <1>4, <1>6
  <1>8. IsTotals(g, w, T)
    BY <1>7 DEF IsTotals
  <1> QED
    BY <1>8 DEF Solvable

\* The sum over a finite set: nothing for the empty set, else the first element
\* and the sum of the rest.
LEMMA SumEquation ==
    ASSUME NEW w, NEW S, IsFiniteSet(S)
    PROVE  /\ Sum(w, {}) = 0
           /\ S # {} => Sum(w, S) = w[Pick(S)] + Sum(w, Rest(S))
  BY SumIsTotal, TotalsExist, TotalWhereSolvable

-----------------------------------------------------------------------------
\* A sum of integers is an integer, one of naturals a natural.
LEMMA SumType ==
    ASSUME NEW w, NEW S, IsFiniteSet(S), \A a \in S : w[a] \in Int
    PROVE  /\ Sum(w, S) \in Int
           /\ (\A a \in S : w[a] >= 0) => Sum(w, S) >= 0
  <1> DEFINE Fine(T) == /\ Sum(w, T) \in Int
                        /\ (\A a \in T : w[a] >= 0) => Sum(w, T) >= 0
             D == {T \in SUBSET S : ~ Fine(T)}
  <1> SUFFICES ASSUME D # {} PROVE FALSE
    OBVIOUS
  <1>0. D \in SUBSET SUBSET S
    OBVIOUS
  <1> HIDE DEF D
  <1>1. PICK T \in D : \A U \in D : U \subseteq T => U = T
    BY <1>0, SmallestSubset
  <1> USE DEF D
  <1>2. IsFiniteSet(T)
    BY FS_Subset
  <1>3. CASE T = {}
    <2>1. Sum(w, T) = 0
      BY <1>2, <1>3, SumEquation
    <2>2. Fine(T)
      BY <2>1
    <2> QED
      BY <2>2
  <1>4. CASE T # {}
    <2>1. Pick(T) \in T /\ Rest(T) \in SUBSET T /\ Rest(T) \notin D
      BY <1>1, <1>4, PickRest
    <2>2. Fine(Rest(T))
      BY <2>1
    <2>3. Sum(w, T) = w[Pick(T)] + Sum(w, Rest(T))
      BY <1>2, <1>4, SumEquation
    <2>4. w[Pick(T)] \in Int
      BY <2>1
    <2> QED
      BY <2>1, <2>2, <2>3, <2>4
  <1> QED
    BY <1>3, <1>4

\* Nothing adds up to nothing.
LEMMA SumOfZeros ==
    ASSUME NEW w, NEW S, IsFiniteSet(S), \A a \in S : w[a] = 0
    PROVE  Sum(w, S) = 0
  <1> DEFINE D == {T \in SUBSET S : Sum(w, T) # 0}
  <1> SUFFICES ASSUME D # {} PROVE FALSE
    OBVIOUS
  <1>0. D \in SUBSET SUBSET S
    OBVIOUS
  <1> HIDE DEF D
  <1>1. PICK T \in D : \A U \in D : U \subseteq T => U = T
    BY <1>0, SmallestSubset
  <1> USE DEF D
  <1>2. IsFiniteSet(T)
    BY FS_Subset
  <1>3. T # {}
    BY <1>2, SumEquation
  <1>4. Pick(T) \in T /\ Rest(T) \in SUBSET T /\ Rest(T) \notin D
    BY <1>1, <1>3, PickRest
  <1>5. Sum(w, T) = w[Pick(T)] + Sum(w, Rest(T))
    BY <1>2, <1>3, SumEquation
  <1> QED
    BY <1>4, <1>5

\* Any element may be taken out first.
LEMMA SumRemove ==
    ASSUME NEW w, NEW S, IsFiniteSet(S), \A a \in S : w[a] \in Int, NEW x \in S
    PROVE  Sum(w, S) = w[x] + Sum(w, S \ {x})
  <1> DEFINE D == {T \in SUBSET S : \E y \in T : Sum(w, T) # w[y] + Sum(w, T \ {y})}
  <1> SUFFICES ASSUME D # {} PROVE FALSE
    OBVIOUS
  <1>0. D \in SUBSET SUBSET S
    OBVIOUS
  <1> HIDE DEF D
  <1>1. PICK T \in D : \A U \in D : U \subseteq T => U = T
    BY <1>0, SmallestSubset
  <1> USE DEF D
  <1>2. PICK y \in T : Sum(w, T) # w[y] + Sum(w, T \ {y})
    BY <1>1
  <1> DEFINE x0 == Pick(T)
             both == (T \ {y}) \ {x0}
  <1>3. \A U \in SUBSET T : IsFiniteSet(U) /\ Sum(w, U) \in Int
    BY FS_Subset, SumType
  <1>4. /\ x0 \in T /\ Rest(T) = T \ {x0} /\ Sum(w, T) = w[x0] + Sum(w, T \ {x0})
        /\ w[x0] \in Int /\ w[y] \in Int
    BY <1>2, <1>3, PickRest, SumEquation DEF Rest
  <1>5. x0 # y
    BY <1>2, <1>4
  <1>6. T \ {x0} \notin D /\ T \ {y} \notin D /\ both \in SUBSET T
    BY <1>1, <1>2, <1>4
  <1>7. Sum(w, T \ {x0}) = w[y] + Sum(w, (T \ {x0}) \ {y})
    BY <1>2, <1>5, <1>6
  <1>8. Sum(w, T \ {y}) = w[x0] + Sum(w, both)
    BY <1>4, <1>5, <1>6
  <1>9. (T \ {x0}) \ {y} = both
    OBVIOUS
  <1>10. Sum(w, both) \in Int
    BY <1>3, <1>6
  <1>11. Sum(w, T) = w[x0] + (w[y] + Sum(w, both))
    BY <1>4, <1>7, <1>9
  <1>12. w[y] + Sum(w, T \ {y}) = w[y] + (w[x0] + Sum(w, both))
    BY <1>8
  <1>13. \A i, j, k \in Int : i + (j + k) = j + (i + k)
    OBVIOUS
  <1>14. w[x0] \in Int /\ w[y] \in Int
    BY <1>4
  <1> HIDE DEF x0, both
  <1> QED
    BY <1>2, <1>10, <1>11, <1>12, <1>13, <1>14

\* The same summands have the same sum, and larger ones no smaller a sum.
LEMMA SumMonotonic ==
    ASSUME NEW v, NEW w, NEW S, IsFiniteSet(S),
           \A a \in S : v[a] \in Int /\ w[a] \in Int /\ v[a] <= w[a]
    PROVE  Sum(v, S) <= Sum(w, S)
  <1> DEFINE D == {T \in SUBSET S : ~ (Sum(v, T) <= Sum(w, T))}
  <1> SUFFICES ASSUME D # {} PROVE FALSE
    OBVIOUS
  <1>0. D \in SUBSET SUBSET S
    OBVIOUS
  <1> HIDE DEF D
  <1>1. PICK T \in D : \A U \in D : U \subseteq T => U = T
    BY <1>0, SmallestSubset
  <1> USE DEF D
  <1>2. \A U \in SUBSET T : IsFiniteSet(U) /\ Sum(v, U) \in Int /\ Sum(w, U) \in Int
    BY FS_Subset, SumType
  <1>3. CASE T = {}
    <2>1. Sum(v, T) = 0 /\ Sum(w, T) = 0
      BY <1>2, <1>3, SumEquation
    <2>2. ~ (Sum(v, T) <= Sum(w, T))
      OBVIOUS
    <2> QED
      BY <2>1, <2>2
  <1>4. CASE T # {}
    <2>1. Pick(T) \in T /\ Rest(T) \in SUBSET T /\ Rest(T) \notin D
      BY <1>1, <1>4, PickRest
    <2>2. Sum(v, Rest(T)) <= Sum(w, Rest(T))
      BY <2>1
    <2>3. /\ Sum(v, T) = v[Pick(T)] + Sum(v, Rest(T))
          /\ Sum(w, T) = w[Pick(T)] + Sum(w, Rest(T))
      BY <1>2, <1>4, SumEquation
    <2>4. v[Pick(T)] \in Int /\ w[Pick(T)] \in Int /\ v[Pick(T)] <= w[Pick(T)]
      BY <2>1
    <2>5. Sum(v, Rest(T)) \in Int /\ Sum(w, Rest(T)) \in Int
      BY <1>2, <2>1
    <2> QED
      BY <2>2, <2>3, <2>4, <2>5
  <1> QED
    BY <1>3, <1>4

LEMMA SumSame ==
    ASSUME NEW v, NEW w, NEW S, IsFiniteSet(S),
           \A a \in S : v[a] \in Int /\ v[a] = w[a]
    PROVE  Sum(v, S) = Sum(w, S)
  <1>1. Sum(v, S) <= Sum(w, S) /\ Sum(w, S) <= Sum(v, S)
    BY SumMonotonic
  <1>2. Sum(v, S) \in Int /\ Sum(w, S) \in Int
    BY SumType
  <1> QED
    BY <1>1, <1>2

\* Changing one summand changes the sum by as much.
LEMMA SumChangedAt ==
    ASSUME NEW v, NEW w, NEW S, IsFiniteSet(S), NEW x \in S,
           \A a \in S : v[a] \in Int /\ w[a] \in Int,
           \A a \in S \ {x} : v[a] = w[a]
    PROVE  Sum(v, S) = Sum(w, S) + (v[x] - w[x])
  <1>1. IsFiniteSet(S \ {x})
    BY FS_Subset
  <1>2. Sum(v, S \ {x}) = Sum(w, S \ {x}) /\ Sum(w, S \ {x}) \in Int
    BY <1>1, SumSame, SumType
  <1>3. Sum(v, S) = v[x] + Sum(v, S \ {x}) /\ Sum(w, S) = w[x] + Sum(w, S \ {x})
    BY SumRemove
  <1> QED
    BY <1>2, <1>3

\* The sum over two sets without a common element,
LEMMA SumUnion ==
    ASSUME NEW w, NEW S, NEW T, IsFiniteSet(S), IsFiniteSet(T), S \cap T = {},
           \A a \in S \cup T : w[a] \in Int
    PROVE  Sum(w, S \cup T) = Sum(w, S) + Sum(w, T)
  <1> DEFINE D == {U \in SUBSET T : Sum(w, S \cup U) # Sum(w, S) + Sum(w, U)}
  <1> SUFFICES ASSUME D # {} PROVE FALSE
    OBVIOUS
  <1>0. D \in SUBSET SUBSET T
    OBVIOUS
  <1> HIDE DEF D
  <1>1. PICK U \in D : \A V \in D : V \subseteq U => V = U
    BY <1>0, SmallestSubset
  <1> USE DEF D
  <1>2. ASSUME NEW V \in SUBSET U
        PROVE  /\ IsFiniteSet(V) /\ IsFiniteSet(S \cup V)
               /\ Sum(w, V) \in Int /\ Sum(w, S) \in Int /\ Sum(w, S \cup V) \in Int
    <2>1. IsFiniteSet(V) /\ IsFiniteSet(S \cup V)
      BY FS_Subset, FS_Union
    <2> QED
      BY <2>1, SumType
  <1>3. CASE U = {}
    <2>1. Sum(w, U) = 0 /\ S \cup U = S /\ Sum(w, S) \in Int
      BY <1>2, <1>3, SumEquation
    <2>2. Sum(w, S \cup U) # Sum(w, S) + Sum(w, U)
      OBVIOUS
    <2> HIDE DEF D
    <2> QED
      BY <2>1, <2>2
  <1>4. CASE U # {}
    <2> DEFINE x == Pick(U)
    <2>1. x \in U /\ Rest(U) \in SUBSET U /\ Rest(U) \notin D /\ Rest(U) = U \ {x}
      BY <1>1, <1>4, PickRest DEF Rest
    <2>2. Sum(w, S \cup Rest(U)) = Sum(w, S) + Sum(w, Rest(U))
      BY <2>1
    <2>3. (S \cup U) \ {x} = S \cup Rest(U)
      BY <2>1
    <2>4. Sum(w, U) = w[x] + Sum(w, Rest(U))
      BY <1>2, <1>4, SumEquation
    <2>5. Sum(w, S \cup U) = w[x] + Sum(w, S \cup Rest(U))
      <3>1. IsFiniteSet(S \cup U) /\ x \in S \cup U /\ \A a \in S \cup U : w[a] \in Int
        BY <1>2, <2>1
      <3>2. Sum(w, S \cup U) = w[x] + Sum(w, (S \cup U) \ {x})
        BY <3>1, SumRemove
      <3> QED
        BY <2>3, <3>2
    <2>6. w[x] \in Int /\ Sum(w, Rest(U)) \in Int /\ Sum(w, S) \in Int
      BY <1>2, <2>1
    <2>7. Sum(w, S \cup U) # Sum(w, S) + Sum(w, U)
      OBVIOUS
    <2> HIDE DEF x
    <2> QED
      BY <2>2, <2>4, <2>5, <2>6, <2>7
  <1> QED
    BY <1>3, <1>4

\* and over the classes a function divides a set into: what is counted class by
\* class is counted once.
Class(f, S, n) == {a \in S : f[a] = n}
LEMMA SumOfClasses ==
    ASSUME NEW w, NEW S, NEW N, NEW f, NEW v, IsFiniteSet(S), IsFiniteSet(N),
           \A a \in S : w[a] \in Int /\ f[a] \in N,
           \A n \in N : v[n] = Sum(w, Class(f, S, n))
    PROVE  Sum(w, S) = Sum(v, N)
  <1> DEFINE In(M) == {a \in S : f[a] \in M}
             D == {M \in SUBSET N : Sum(w, In(M)) # Sum(v, M)}
  <1>0. In(N) = S
    OBVIOUS
  <1> SUFFICES ASSUME D # {} PROVE FALSE
    BY <1>0
  <1>1. D \in SUBSET SUBSET N
    OBVIOUS
  <1> HIDE DEF D
  <1>2. PICK M \in D : \A L \in D : L \subseteq M => L = M
    BY <1>1, SmallestSubset
  <1>3. M \in SUBSET N /\ Sum(w, In(M)) # Sum(v, M)
    BY DEF D
  <1>4. \A T \in SUBSET S : IsFiniteSet(T) /\ \A a \in T : w[a] \in Int
    BY FS_Subset
  <1>5. IsFiniteSet(M)
    BY <1>3, FS_Subset
  <1>6. M # {}
    <2> SUFFICES ASSUME M = {} PROVE FALSE
      OBVIOUS
    <2>1. In(M) = {}
      OBVIOUS
    <2> QED
      BY <1>3, <1>5, <2>1, SumEquation
  <1> DEFINE n == Pick(M)
  <1>7. n \in M /\ Rest(M) \in SUBSET M /\ Rest(M) \in SUBSET N /\ Rest(M) \notin D /\ Rest(M) = M \ {n}
    BY <1>2, <1>3, <1>6, PickRest DEF Rest
  <1>8. Sum(w, In(Rest(M))) = Sum(v, Rest(M))
    BY <1>7 DEF D
  <1>9. Sum(v, M) = v[n] + Sum(v, Rest(M))
    BY <1>5, <1>6, SumEquation
  <1>10. v[n] = Sum(w, Class(f, S, n))
    BY <1>3, <1>7
  <1>11. In(M) = Class(f, S, n) \cup In(Rest(M)) /\ Class(f, S, n) \cap In(Rest(M)) = {}
    BY <1>7 DEF Class
  <1>12. /\ In(Rest(M)) \in SUBSET S /\ Class(f, S, n) \in SUBSET S
    BY DEF Class
  <1> HIDE DEF In, n
  <1>13. Sum(w, In(M)) = Sum(w, Class(f, S, n)) + Sum(w, In(Rest(M)))
    <2>1. \A a \in Class(f, S, n) \cup In(Rest(M)) : w[a] \in Int
      BY <1>4, <1>12
    <2> QED
      BY <1>4, <1>11, <1>12, <2>1, SumUnion
  <1> QED
    BY <1>3, <1>8, <1>9, <1>10, <1>13
=============================================================================
