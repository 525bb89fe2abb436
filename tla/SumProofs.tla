----------------------------- MODULE SumProofs -----------------------------
(***************************************************************************)
(* What a sum over a finite set is, whatever is summed: the totals of this *)
(* project are SumFunctionOnSet of the community modules, which is defined *)
(* by recursion.  The recursion takes elements out in an order CHOOSE      *)
(* fixes; SumRemove shows that any order gives the same, and the rest      *)
(* follows from it.  Induction over the set is done by hand, on a smallest *)
(* subset that would be a counterexample (MinimalSubset).                  *)
(***************************************************************************)
EXTENDS Integers, FiniteSetsExt, FiniteSetTheorems, TLAPS

\* A family of subsets of a finite set has a smallest member.
LEMMA MinimalSubset ==
  ASSUME NEW S, IsFiniteSet(S), NEW F, F \subseteq SUBSET S, F # {}
  PROVE  \E T \in F : \A U \in F : U \subseteq T => U = T
<1> DEFINE R == StrictSubsetOrdering(S)
<1>1. IsWellFoundedOn(R, SUBSET S)
  BY FS_StrictSubsetOrderingWellFounded, FS_FiniteSubsetsOfFinite
<1>2. PICK T \in F : \A U \in F : ~(<<U, T>> \in R)
  <2> HIDE DEF R
  <2> QED BY <1>1, WFMin
<1> QED BY <1>2 DEF StrictSubsetOrdering

\* The element FoldFunctionOnSet takes out of s first.
Least(s) == CHOOSE x \in s : TRUE

\* g gives every part of S the sum of f over it.
IsSum(g, f, S) ==
  g = [s \in SUBSET S |->
         IF s = {} THEN 0 ELSE f[Least(s)] + g[s \ {Least(s)}]]

\* The element the recursion takes out next is one of the set.
LEMMA LeastIn == ASSUME NEW s, s # {} PROVE Least(s) \in s
BY DEF Least

\* Two functions that satisfy the recursion agree where both are defined.
LEMMA SumsAgree ==
  ASSUME NEW S, IsFiniteSet(S), NEW T, NEW f, NEW g, NEW h,
         IsSum(g, f, S), IsSum(h, f, T)
  PROVE  \A s \in SUBSET (S \cap T) : g[s] = h[s]
<1> DEFINE F == {s \in SUBSET (S \cap T) : g[s] # h[s]}
<1> SUFFICES ASSUME F # {} PROVE FALSE  OBVIOUS
<1>1. PICK s \in F : \A U \in F : U \subseteq s => U = s
  <2>1. F \subseteq SUBSET S
    OBVIOUS
  <2> HIDE DEF F
  <2> QED BY <2>1, MinimalSubset
<1> DEFINE c == Least(s)
<1>2. s \in SUBSET S /\ s \in SUBSET T /\ s \ {c} \in SUBSET (S \cap T)
  OBVIOUS
<1>3. g[s] = IF s = {} THEN 0 ELSE f[c] + g[s \ {c}]
  BY <1>2 DEF IsSum
<1>4. h[s] = IF s = {} THEN 0 ELSE f[c] + h[s \ {c}]
  BY <1>2 DEF IsSum
<1>5. s # {} => g[s \ {c}] = h[s \ {c}]
  BY <1>1, <1>2, LeastIn
<1> QED BY <1>3, <1>4, <1>5

\* A function that satisfies the recursion exists, with integer values.
LEMMA SumExists ==
  ASSUME NEW S, IsFiniteSet(S), NEW f, \A x \in S : f[x] \in Int
  PROVE  \E g \in [SUBSET S -> Int] : IsSum(g, f, S)
<1> DEFINE Has(U) == \E g \in [SUBSET U -> Int] : IsSum(g, f, U)
           F == {U \in SUBSET S : ~Has(U)}
<1> SUFFICES ASSUME F # {} PROVE FALSE  OBVIOUS
<1>1. PICK T \in F : \A U \in F : U \subseteq T => U = T
  <2>1. F \subseteq SUBSET S
    OBVIOUS
  <2> HIDE DEF F
  <2> QED BY <2>1, MinimalSubset
<1> DEFINE G(U) == CHOOSE g \in [SUBSET U -> Int] : IsSum(g, f, U)
<1>2. ASSUME NEW U \in SUBSET T, U # T
      PROVE  G(U) \in [SUBSET U -> Int] /\ IsSum(G(U), f, U)
  BY <1>1, <1>2
<1> DEFINE Rest(s) == s \ {Least(s)}
           g == [s \in SUBSET T |->
                   IF s = {} THEN 0 ELSE f[Least(s)] + G(Rest(s))[Rest(s)]]
<1>3. ASSUME NEW s \in SUBSET T, s # {}
      PROVE  Rest(s) \in SUBSET T /\ Rest(s) # T /\ Least(s) \in S
  BY <1>3, LeastIn
<1>4. ASSUME NEW s \in SUBSET T, s # T
      PROVE  g[s] = G(s)[s]
  <2>1. G(s) \in [SUBSET s -> Int] /\ IsSum(G(s), f, s)
    BY <1>2, <1>4
  <2>2. G(s)[s] = IF s = {} THEN 0 ELSE f[Least(s)] + G(s)[Rest(s)]
    <3> HIDE DEF G
    <3> QED BY <2>1 DEF IsSum
  <2>3. CASE s = {}
    BY <2>2, <2>3
  <2>4. CASE s # {}
    <3>1. Rest(s) \in SUBSET T /\ Rest(s) # T
      BY <1>3, <2>4
    <3>2. IsSum(G(Rest(s)), f, Rest(s))
      BY <3>1, <1>2
    <3>3. IsFiniteSet(s)
      BY FS_Subset
    <3>4. G(s)[Rest(s)] = G(Rest(s))[Rest(s)]
      <4> HIDE DEF G
      <4> QED BY <2>1, <3>2, <3>3, SumsAgree
    <3>5. g[s] = f[Least(s)] + G(Rest(s))[Rest(s)]
      <4> HIDE DEF G
      <4> QED BY <2>4
    <3> QED BY <2>2, <2>4, <3>4, <3>5
  <2> QED BY <2>3, <2>4
<1>5. g \in [SUBSET T -> Int]
  <2> SUFFICES ASSUME NEW s \in SUBSET T, s # {}
               PROVE  f[Least(s)] + G(Rest(s))[Rest(s)] \in Int
    <3> HIDE DEF G
    <3> QED OBVIOUS
  <2>1. G(Rest(s)) \in [SUBSET Rest(s) -> Int]
    BY <1>2, <1>3
  <2>2. G(Rest(s))[Rest(s)] \in Int
    <3> HIDE DEF G
    <3> QED BY <2>1
  <2>3. f[Least(s)] \in Int
    BY <1>3
  <2> HIDE DEF G
  <2> QED BY <2>2, <2>3
<1>6. IsSum(g, f, T)
  <2>1. \A s \in SUBSET T : s # {} => g[Rest(s)] = G(Rest(s))[Rest(s)]
    BY <1>3, <1>4
  <2> HIDE DEF G
  <2> QED BY <2>1 DEF IsSum
<1> QED
  <2> HIDE DEF g
  <2> QED BY <1>1, <1>5, <1>6

\* SumFunctionOnSet is the value of such a function.
LEMMA SumIsSum ==
  ASSUME NEW S, IsFiniteSet(S), NEW f, \A x \in S : f[x] \in Int
  PROVE  \E g \in [SUBSET S -> Int] :
            IsSum(g, f, S) /\ SumFunctionOnSet(f, S) = g[S]
<1> DEFINE iter == CHOOSE g : IsSum(g, f, S)
<1>1. PICK h \in [SUBSET S -> Int] : IsSum(h, f, S)
  BY SumExists
<1>2. IsSum(iter, f, S)
  BY <1>1
<1>3. SumFunctionOnSet(f, S) = iter[S]
  BY DEF SumFunctionOnSet, FoldFunctionOnSet, MapThenFoldSet, IsSum, Least
<1>4. iter \in [SUBSET S -> Int]
  <2>1. \A s \in SUBSET S : iter[s] = h[s]
    <3> HIDE DEF iter
    <3> QED BY <1>1, <1>2, SumsAgree
  <2>2. iter = [s \in SUBSET S |-> iter[s]]
    <3> HIDE DEF iter
    <3> QED BY <1>2 DEF IsSum
  <2> HIDE DEF iter
  <2> QED BY <2>1, <2>2
<1> QED 
 <2> HIDE DEF iter
 <2> QED BY <1>2, <1>3, <1>4

\* Induction: what holds of {} and survives an added element holds of S.
LEMMA SubsetInduction ==
  ASSUME NEW S, IsFiniteSet(S), NEW G, {} \in G,
         \A T \in SUBSET S : \A x \in S \ T : T \in G => T \cup {x} \in G
  PROVE  S \in G
<1> DEFINE F == {T \in SUBSET S : T \notin G}
<1> SUFFICES ASSUME F # {} PROVE FALSE  OBVIOUS
<1>1. PICK T \in F : \A U \in F : U \subseteq T => U = T
  <2>1. F \subseteq SUBSET S
    OBVIOUS
  <2> HIDE DEF F
  <2> QED BY <2>1, MinimalSubset
<1>2. PICK x \in T : TRUE
  BY <1>1
<1>3. T \ {x} \in G
  BY <1>1, <1>2
<1>4. (T \ {x}) \cup {x} = T /\ T \ {x} \in SUBSET S /\ x \in S \ (T \ {x})
  BY <1>2
<1>5. (T \ {x}) \cup {x} \in G
  BY <1>3, <1>4
<1> QED BY <1>4, <1>5

\* The sum over no elements is 0.
LEMMA SumEmpty == ASSUME NEW f PROVE SumFunctionOnSet(f, {}) = 0
<1>1. PICK g \in [SUBSET {} -> Int] : IsSum(g, f, {}) /\ SumFunctionOnSet(f, {}) = g[{}]
  BY SumIsSum, FS_EmptySet
<1> QED BY <1>1 DEF IsSum

\* A sum of integers is an integer.
LEMMA SumInt ==
  ASSUME NEW S, IsFiniteSet(S), NEW f, \A x \in S : f[x] \in Int
  PROVE  SumFunctionOnSet(f, S) \in Int
<1>1. PICK g \in [SUBSET S -> Int] : SumFunctionOnSet(f, S) = g[S]
  BY SumIsSum
<1> QED BY <1>1

\* The recursion of the definition.
LEMMA SumUnfold ==
  ASSUME NEW S, IsFiniteSet(S), NEW f, \A x \in S : f[x] \in Int, S # {}
  PROVE  SumFunctionOnSet(f, S)
           = f[Least(S)] + SumFunctionOnSet(f, S \ {Least(S)})
<1> DEFINE R == S \ {Least(S)}
<1>0. IsFiniteSet(R)
  BY FS_Subset
<1>1. PICK g \in [SUBSET S -> Int] : IsSum(g, f, S) /\ SumFunctionOnSet(f, S) = g[S]
  BY SumIsSum
<1>2. PICK h \in [SUBSET R -> Int] : IsSum(h, f, R) /\ SumFunctionOnSet(f, R) = h[R]
  BY <1>0, SumIsSum
<1>3. g[R] = h[R]
  BY <1>1, <1>2, SumsAgree
<1>4. g[S] = f[Least(S)] + g[R]
  BY <1>1 DEF IsSum
<1> QED BY <1>1, <1>2, <1>3, <1>4

\* Any element may be taken out first.
LEMMA SumRemove ==
  ASSUME NEW S, IsFiniteSet(S), NEW f, \A x \in S : f[x] \in Int, NEW x \in S
  PROVE  SumFunctionOnSet(f, S) = f[x] + SumFunctionOnSet(f, S \ {x})
<1> DEFINE Sum(T) == SumFunctionOnSet(f, T)
           F == {T \in SUBSET S : \E y \in T : Sum(T) # f[y] + Sum(T \ {y})}
<1> SUFFICES ASSUME F # {} PROVE FALSE  OBVIOUS
<1>1. PICK T \in F : \A U \in F : U \subseteq T => U = T
  <2>1. F \subseteq SUBSET S
    OBVIOUS
  <2> HIDE DEF F
  <2> QED BY <2>1, MinimalSubset
<1>2. PICK y \in T : Sum(T) # f[y] + Sum(T \ {y})
  BY <1>1
<1> DEFINE z == Least(T)
<1>3. z \in T
  BY <1>2, LeastIn
<1>4. \A U \in SUBSET S : IsFiniteSet(U) /\ Sum(U) \in Int
  BY FS_Subset, SumInt
<1>5. Sum(T) = f[z] + Sum(T \ {z})
  BY <1>1, <1>2, <1>4, SumUnfold
<1>6. y # z
  BY <1>2, <1>5
<1>7. \A x1 \in T : \A y1 \in T \ {x1} :
        Sum(T \ {x1}) = f[y1] + Sum((T \ {x1}) \ {y1})
  <2> SUFFICES ASSUME NEW x1 \in T, NEW y1 \in T \ {x1}
               PROVE  Sum(T \ {x1}) = f[y1] + Sum((T \ {x1}) \ {y1})
    OBVIOUS
  <2>1. T \ {x1} \notin F
    BY <1>1
  <2>2. T \ {x1} \in SUBSET S
    OBVIOUS
  <2> HIDE DEF Sum
  <2> QED BY <2>1, <2>2
<1>8. /\ Sum(T \ {y}) = f[z] + Sum((T \ {y}) \ {z})
      /\ Sum(T \ {z}) = f[y] + Sum((T \ {z}) \ {y})
  <2> HIDE DEF Sum, z
  <2> QED BY <1>3, <1>6, <1>7
<1>9. PICK rest \in Int : /\ Sum((T \ {y}) \ {z}) = rest
                           /\ Sum((T \ {z}) \ {y}) = rest
  <2>1. (T \ {z}) \ {y} = (T \ {y}) \ {z}
    OBVIOUS
  <2> QED BY <1>4, <2>1
<1>10. f[y] \in Int /\ f[z] \in Int
  BY <1>2, <1>3
<1>11. /\ Sum(T) = f[z] + (f[y] + rest)
       /\ Sum(T \ {y}) = f[z] + rest
  BY <1>5, <1>8, <1>9
<1> HIDE DEF Sum, z, F
<1> QED BY <1>2, <1>10, <1>11

\* A new element adds its term.
LEMMA SumAdd ==
  ASSUME NEW S, IsFiniteSet(S), NEW f, NEW x, x \notin S,
         \A y \in S \cup {x} : f[y] \in Int
  PROVE  SumFunctionOnSet(f, S \cup {x}) = f[x] + SumFunctionOnSet(f, S)
<1>1. IsFiniteSet(S \cup {x})
  BY FS_AddElement
<1>2. (S \cup {x}) \ {x} = S
  OBVIOUS
<1> QED BY <1>1, <1>2, SumRemove

\* Sums add up point by point.
LEMMA SumPlus ==
  ASSUME NEW S, IsFiniteSet(S), NEW f, NEW g, NEW h,
         \A x \in S : f[x] \in Int /\ g[x] \in Int /\ h[x] = f[x] + g[x]
  PROVE  SumFunctionOnSet(h, S) = SumFunctionOnSet(f, S) + SumFunctionOnSet(g, S)
<1> DEFINE G == {T \in SUBSET S : SumFunctionOnSet(h, T)
                   = SumFunctionOnSet(f, T) + SumFunctionOnSet(g, T)}
<1>1. {} \in G
  BY SumEmpty
<1>2. ASSUME NEW T \in SUBSET S, NEW x \in S \ T, T \in G
      PROVE  T \cup {x} \in G
  <2>1. IsFiniteSet(T) /\ x \notin T /\ T \cup {x} \in SUBSET S
    BY FS_Subset
  <2>2. /\ SumFunctionOnSet(f, T) \in Int /\ SumFunctionOnSet(g, T) \in Int
        /\ f[x] \in Int /\ g[x] \in Int /\ h[x] = f[x] + g[x]
    BY <2>1, SumInt
  <2>3. /\ SumFunctionOnSet(f, T \cup {x}) = f[x] + SumFunctionOnSet(f, T)
        /\ SumFunctionOnSet(g, T \cup {x}) = g[x] + SumFunctionOnSet(g, T)
        /\ SumFunctionOnSet(h, T \cup {x}) = h[x] + SumFunctionOnSet(h, T)
    <3>1. \A y \in T \cup {x} : f[y] \in Int /\ g[y] \in Int /\ h[y] \in Int
      BY <2>1
    <3> HIDE DEF G
    <3> QED BY <2>1, <3>1, SumAdd
  <2>4. SumFunctionOnSet(h, T)
          = SumFunctionOnSet(f, T) + SumFunctionOnSet(g, T)
    BY <1>2
  <2> QED BY <2>1, <2>2, <2>3, <2>4
<1> HIDE DEF G
<1>3. S \in G
  BY <1>1, <1>2, SubsetInduction
<1> QED BY <1>3 DEF G

\* Bounding every term bounds the sum, also under scaling.
LEMMA SumScale ==
  ASSUME NEW S, IsFiniteSet(S), NEW f, NEW g, NEW a \in Int, NEW b \in Int,
         \A x \in S : f[x] \in Int /\ g[x] \in Int /\ a * f[x] <= b * g[x]
  PROVE  a * SumFunctionOnSet(f, S) <= b * SumFunctionOnSet(g, S)
<1> DEFINE G == {T \in SUBSET S :
                   a * SumFunctionOnSet(f, T) <= b * SumFunctionOnSet(g, T)}
<1>1. {} \in G
  BY SumEmpty
<1>2. ASSUME NEW T \in SUBSET S, NEW x \in S \ T, T \in G
      PROVE  T \cup {x} \in G
  <2>1. IsFiniteSet(T) /\ x \notin T /\ T \cup {x} \in SUBSET S
    BY FS_Subset
  <2>2. PICK F \in Int, H \in Int, k \in Int, l \in Int :
          /\ F = SumFunctionOnSet(f, T) /\ H = SumFunctionOnSet(g, T)
          /\ k = f[x] /\ l = g[x]
    BY <2>1, SumInt
  <2>3. /\ SumFunctionOnSet(f, T \cup {x}) = k + F
        /\ SumFunctionOnSet(g, T \cup {x}) = l + H
    BY <2>1, <2>2, SumAdd
  <2>4. a * F <= b * H /\ a * k <= b * l
    BY <1>2, <2>2
  <2>5. a * (k + F) = a * k + a * F /\ b * (l + H) = b * l + b * H
    BY <2>2
  <2>6. a * (k + F) <= b * (l + H)
    BY <2>2, <2>4, <2>5
  <2> QED BY <2>1, <2>3, <2>6
<1> HIDE DEF G
<1>3. S \in G
  BY <1>1, <1>2, SubsetInduction
<1> QED BY <1>3 DEF G

\* A sum of smaller terms is smaller.
LEMMA SumMonotone ==
  ASSUME NEW S, IsFiniteSet(S), NEW f, NEW g,
         \A x \in S : f[x] \in Int /\ g[x] \in Int /\ f[x] <= g[x]
  PROVE  SumFunctionOnSet(f, S) <= SumFunctionOnSet(g, S)
<1>1. 1 * SumFunctionOnSet(f, S) <= 1 * SumFunctionOnSet(g, S)
  <2>1. \A x \in S : 1 * f[x] <= 1 * g[x]
    OBVIOUS
  <2> QED BY <2>1, SumScale
<1> QED BY <1>1, SumInt

\* A sum depends only on its terms.
LEMMA SumSame ==
  ASSUME NEW S, IsFiniteSet(S), NEW f, NEW g,
         \A x \in S : f[x] \in Int /\ g[x] = f[x]
  PROVE  SumFunctionOnSet(g, S) = SumFunctionOnSet(f, S)
<1>1. /\ SumFunctionOnSet(f, S) \in Int /\ SumFunctionOnSet(g, S) \in Int
  BY SumInt
<1>2. /\ SumFunctionOnSet(f, S) <= SumFunctionOnSet(g, S)
      /\ SumFunctionOnSet(g, S) <= SumFunctionOnSet(f, S)
  BY SumMonotone
<1> QED BY <1>1, <1>2

\* A sum of equal terms is their number times the term.
LEMMA SumConstant ==
  ASSUME NEW S, IsFiniteSet(S), NEW f, NEW k \in Int, \A x \in S : f[x] = k
  PROVE  SumFunctionOnSet(f, S) = k * Cardinality(S)
<1> DEFINE G == {T \in SUBSET S : SumFunctionOnSet(f, T) = k * Cardinality(T)}
<1>1. {} \in G
  BY SumEmpty, FS_EmptySet
<1>2. ASSUME NEW T \in SUBSET S, NEW x \in S \ T, T \in G
      PROVE  T \cup {x} \in G
  <2>1. IsFiniteSet(T) /\ x \notin T /\ T \cup {x} \in SUBSET S
    BY FS_Subset
  <2>2. PICK n \in Nat : n = Cardinality(T)
    BY <2>1, FS_CardinalityType
  <2>3. /\ SumFunctionOnSet(f, T \cup {x}) = k + k * n
        /\ Cardinality(T \cup {x}) = n + 1
    <3>1. \A y \in T \cup {x} : f[y] \in Int
      BY <2>1
    <3>2. SumFunctionOnSet(f, T) = k * n /\ f[x] = k
      BY <1>2, <2>2
    <3> HIDE DEF G
    <3> QED BY <2>1, <2>2, <3>1, <3>2, SumAdd, FS_AddElement
  <2>4. k + k * n = k * (n + 1)
    OBVIOUS
  <2> QED BY <2>1, <2>3, <2>4
<1> HIDE DEF G
<1>3. S \in G
  BY <1>1, <1>2, SubsetInduction
<1> QED BY <1>3 DEF G

\* A sum of zeros is 0.
LEMMA SumZero ==
  ASSUME NEW S, IsFiniteSet(S), NEW f, \A x \in S : f[x] = 0
  PROVE  SumFunctionOnSet(f, S) = 0
<1>1. SumFunctionOnSet(f, S) = 0 * Cardinality(S)
  BY SumConstant
<1> QED BY <1>1, FS_CardinalityType

\* A sum of naturals is a natural.
LEMMA SumNat ==
  ASSUME NEW S, IsFiniteSet(S), NEW f, \A x \in S : f[x] \in Nat
  PROVE  SumFunctionOnSet(f, S) \in Nat
<1> DEFINE zero == [x \in S |-> 0]
<1>1. SumFunctionOnSet(zero, S) = 0
  BY SumZero
<1>2. SumFunctionOnSet(zero, S) <= SumFunctionOnSet(f, S)
  <2> HIDE DEF zero
  <2>1. \A x \in S : zero[x] = 0
    BY DEF zero
  <2> QED BY <2>1, SumMonotone
<1>3. SumFunctionOnSet(f, S) \in Int
  BY SumInt
<1> HIDE DEF zero
<1> QED BY <1>1, <1>2, <1>3

\* A sum over two disjoint sets is the sum of the two sums.
LEMMA SumUnion ==
  ASSUME NEW S, IsFiniteSet(S), NEW U, IsFiniteSet(U), S \cap U = {},
         NEW f, \A x \in S \cup U : f[x] \in Int
  PROVE  SumFunctionOnSet(f, S \cup U)
           = SumFunctionOnSet(f, S) + SumFunctionOnSet(f, U)
<1> DEFINE G == {T \in SUBSET U : /\ IsFiniteSet(S \cup T)
                                 /\ SumFunctionOnSet(f, S \cup T)
                   = SumFunctionOnSet(f, S) + SumFunctionOnSet(f, T)}
<1>0. SumFunctionOnSet(f, S) \in Int
  BY SumInt
<1>1. {} \in G
  <2>1. S \cup {} = S
    OBVIOUS
  <2> QED BY <1>0, <2>1, SumEmpty
<1>2. ASSUME NEW T \in SUBSET U, NEW x \in U \ T, T \in G
      PROVE  T \cup {x} \in G
  <2>1. /\ IsFiniteSet(T) /\ x \notin T /\ x \notin S \cup T
        /\ S \cup (T \cup {x}) = (S \cup T) \cup {x}
    BY FS_Subset
  <2>2. /\ \A y \in T \cup {x} : f[y] \in Int
        /\ \A y \in (S \cup T) \cup {x} : f[y] \in Int
    OBVIOUS
  <2>3. IsFiniteSet(S \cup T) /\ IsFiniteSet((S \cup T) \cup {x})
    BY <1>2, FS_AddElement
  <2>4. /\ SumFunctionOnSet(f, T \cup {x}) = f[x] + SumFunctionOnSet(f, T)
        /\ SumFunctionOnSet(f, (S \cup T) \cup {x})
             = f[x] + SumFunctionOnSet(f, S \cup T)
        /\ SumFunctionOnSet(f, T) \in Int /\ f[x] \in Int
    <3> HIDE DEF G
    <3> QED BY <2>1, <2>2, <2>3, SumAdd, SumInt
  <2>5. SumFunctionOnSet(f, S \cup T)
          = SumFunctionOnSet(f, S) + SumFunctionOnSet(f, T)
    BY <1>2
  <2>6. SumFunctionOnSet(f, (S \cup T) \cup {x})
          = SumFunctionOnSet(f, S) + SumFunctionOnSet(f, T \cup {x})
    BY <1>0, <2>4, <2>5
  <2> QED BY <2>1, <2>3, <2>6
<1> HIDE DEF G
<1>3. U \in G
  BY <1>1, <1>2, SubsetInduction
<1> QED BY <1>3 DEF G

\* Changing one term changes the sum by as much.
LEMMA SumChange ==
  ASSUME NEW S, IsFiniteSet(S), NEW f, NEW g, NEW y \in S,
         \A x \in S : f[x] \in Int, g[y] \in Int,
         \A x \in S \ {y} : g[x] = f[x]
  PROVE  SumFunctionOnSet(g, S) = SumFunctionOnSet(f, S) + g[y] - f[y]
<1>1. \A x \in S : g[x] \in Int
  OBVIOUS
<1>2. IsFiniteSet(S \ {y}) /\ \A x \in S \ {y} : f[x] \in Int
  BY FS_Subset
<1>3. /\ SumFunctionOnSet(f, S) = f[y] + SumFunctionOnSet(f, S \ {y})
      /\ SumFunctionOnSet(g, S) = g[y] + SumFunctionOnSet(g, S \ {y})
  BY <1>1, SumRemove
<1>4. /\ SumFunctionOnSet(g, S \ {y}) = SumFunctionOnSet(f, S \ {y})
      /\ SumFunctionOnSet(f, S \ {y}) \in Int
  BY <1>2, SumSame, SumInt
<1> QED BY <1>3, <1>4

\* No term of a sum of naturals exceeds it.
LEMMA SumMember ==
  ASSUME NEW S, IsFiniteSet(S), NEW f, NEW y \in S, \A x \in S : f[x] \in Nat
  PROVE  f[y] <= SumFunctionOnSet(f, S)
<1>1. IsFiniteSet(S \ {y}) /\ \A x \in S : f[x] \in Int
  BY FS_Subset
<1>2. SumFunctionOnSet(f, S) = f[y] + SumFunctionOnSet(f, S \ {y})
  BY <1>1, SumRemove
<1>3. SumFunctionOnSet(f, S \ {y}) \in Nat
  BY <1>1, SumNat
<1> QED BY <1>2, <1>3

\* A part of a sum of naturals is no larger than the sum.
LEMMA SumSubset ==
  ASSUME NEW S, IsFiniteSet(S), NEW f, \A x \in S : f[x] \in Nat,
         NEW T \in SUBSET S
  PROVE  SumFunctionOnSet(f, T) <= SumFunctionOnSet(f, S)
<1>1. /\ IsFiniteSet(T) /\ IsFiniteSet(S \ T) /\ T \cap (S \ T) = {}
      /\ T \cup (S \ T) = S /\ \A x \in S : f[x] \in Int
  BY FS_Subset
<1>2. SumFunctionOnSet(f, S)
        = SumFunctionOnSet(f, T) + SumFunctionOnSet(f, S \ T)
  BY <1>1, SumUnion
<1>3. SumFunctionOnSet(f, T) \in Nat /\ SumFunctionOnSet(f, S \ T) \in Nat
  BY <1>1, SumNat
<1> QED BY <1>2, <1>3

\* Re-indexing: c lists elements, each once, and the sum over the indices is
\* the sum over the elements listed.
LEMMA SumImage ==
  ASSUME NEW I, IsFiniteSet(I), NEW c, NEW f, NEW g,
         \A i, j \in I : c[i] = c[j] => i = j,
         \A i \in I : f[c[i]] \in Int /\ g[i] = f[c[i]]
  PROVE  /\ IsFiniteSet({c[i] : i \in I})
         /\ SumFunctionOnSet(g, I) = SumFunctionOnSet(f, {c[i] : i \in I})
<1> DEFINE Img(J) == {c[i] : i \in J}
           G == {J \in SUBSET I :
                   /\ IsFiniteSet(Img(J))
                   /\ SumFunctionOnSet(g, J) = SumFunctionOnSet(f, Img(J))}
<1>1. {} \in G
  <2>1. Img({}) = {}
    OBVIOUS
  <2> QED BY <2>1, SumEmpty, FS_EmptySet
<1>2. ASSUME NEW J \in SUBSET I, NEW x \in I \ J, J \in G
      PROVE  J \cup {x} \in G
  <2>1. /\ IsFiniteSet(J) /\ x \notin J
        /\ \A y \in J \cup {x} : g[y] \in Int
    BY FS_Subset
  <2>2. /\ Img(J \cup {x}) = Img(J) \cup {c[x]} /\ c[x] \notin Img(J)
        /\ \A y \in Img(J) \cup {c[x]} : f[y] \in Int
    OBVIOUS
  <2>3. IsFiniteSet(Img(J)) /\ IsFiniteSet(Img(J) \cup {c[x]})
    BY <1>2, FS_AddElement
  <2>4. /\ SumFunctionOnSet(g, J \cup {x}) = g[x] + SumFunctionOnSet(g, J)
        /\ SumFunctionOnSet(f, Img(J) \cup {c[x]})
              = f[c[x]] + SumFunctionOnSet(f, Img(J))
    <3> HIDE DEF G, Img
    <3> QED BY <2>1, <2>2, <2>3, SumAdd
  <2> QED BY <1>2, <2>2, <2>3, <2>4
<1> HIDE DEF G
<1>3. I \in G
  BY <1>1, <1>2, SubsetInduction
<1> QED BY <1>3 DEF G

\* Summing what a condition selects is summing over what it selects.
LEMMA SumWhere ==
  ASSUME NEW S, IsFiniteSet(S), NEW D \in SUBSET S, NEW f, NEW g,
         \A x \in D : f[x] \in Int /\ g[x] = f[x],
         \A x \in S \ D : g[x] = 0
  PROVE  SumFunctionOnSet(g, S) = SumFunctionOnSet(f, D)
<1>1. /\ IsFiniteSet(D) /\ IsFiniteSet(S \ D)
      /\ D \cap (S \ D) = {} /\ D \cup (S \ D) = S
  BY FS_Subset
<1>2. \A x \in D \cup (S \ D) : g[x] \in Int
  OBVIOUS
<1>3. SumFunctionOnSet(g, D \cup (S \ D))
        = SumFunctionOnSet(g, D) + SumFunctionOnSet(g, S \ D)
  BY <1>1, <1>2, SumUnion
<1>4. SumFunctionOnSet(g, D) = SumFunctionOnSet(f, D)
  BY <1>1, SumSame
<1>5. SumFunctionOnSet(g, S \ D) = 0
  BY <1>1, SumZero
<1>6. SumFunctionOnSet(f, D) \in Int
  BY <1>1, SumInt
<1> QED
  BY <1>1, <1>3, <1>4, <1>5, <1>6

\* Appending k terms to n terms adds the sum of the k.
LEMMA SumAppend ==
  ASSUME NEW n \in Nat, NEW k \in Nat, NEW f, NEW g,
         \A i \in 1 .. n + k : f[i] \in Int,
         \A i \in 1 .. k : g[i] = f[n + i]
  PROVE  SumFunctionOnSet(f, 1 .. n + k)
           = SumFunctionOnSet(f, 1 .. n) + SumFunctionOnSet(g, 1 .. k)
<1> DEFINE c == [i \in 1 .. k |-> n + i]
<1>1. IsFiniteSet(1 .. k) /\ IsFiniteSet(1 .. n)
  BY FS_Interval
<1>2. \A i \in 1 .. k : c[i] = n + i /\ c[i] \in 1 .. n + k
  OBVIOUS
<1>3. \A i, j \in 1 .. k : c[i] = c[j] => i = j
  OBVIOUS
<1>4. {c[i] : i \in 1 .. k} = n + 1 .. n + k
  <2>1. ASSUME NEW x \in n + 1 .. n + k
        PROVE  \E i \in 1 .. k : c[i] = x
    <3>1. x - n \in 1 .. k /\ c[x - n] = x
      OBVIOUS
    <3> QED
      BY <3>1
  <2> QED
    BY <2>1
<1>5. \A i \in 1 .. k : f[c[i]] \in Int /\ g[i] = f[c[i]]
  BY <1>2
<1> HIDE DEF c
<1>6. /\ IsFiniteSet(n + 1 .. n + k)
      /\ SumFunctionOnSet(g, 1 .. k) = SumFunctionOnSet(f, n + 1 .. n + k)
  <2>1. /\ IsFiniteSet({c[i] : i \in 1 .. k})
        /\ SumFunctionOnSet(g, 1 .. k)
             = SumFunctionOnSet(f, {c[i] : i \in 1 .. k})
    <3> DEFINE I == 1 .. k
    <3>1. /\ IsFiniteSet(I)
          /\ \A i, j \in I : c[i] = c[j] => i = j
          /\ \A i \in I : f[c[i]] \in Int /\ g[i] = f[c[i]]
      BY <1>1, <1>3, <1>5
    <3> HIDE DEF I
    <3>2. /\ IsFiniteSet({c[i] : i \in I})
          /\ SumFunctionOnSet(g, I) = SumFunctionOnSet(f, {c[i] : i \in I})
      BY <3>1, SumImage
    <3> QED
      BY <3>2 DEF I
  <2> QED
    BY <1>4, <2>1, Zenon
<1>7. /\ (1 .. n) \cap (n + 1 .. n + k) = {}
      /\ (1 .. n) \cup (n + 1 .. n + k) = 1 .. n + k
  OBVIOUS
<1>8. SumFunctionOnSet(f, (1 .. n) \cup (n + 1 .. n + k))
        = SumFunctionOnSet(f, 1 .. n) + SumFunctionOnSet(f, n + 1 .. n + k)
  <2>1. \A i \in (1 .. n) \cup (n + 1 .. n + k) : f[i] \in Int
    BY <1>7
  <2> QED
    BY <1>1, <1>6, <1>7, <2>1, SumUnion
<1> QED
  BY <1>6, <1>7, <1>8
=============================================================================
