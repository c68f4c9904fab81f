------------------------------ MODULE SetLemmas ------------------------------
(***************************************************************************)
(* Least and greatest elements of sets of naturals; the sums of the        *)
(* community module Functions, which are folds in an order that nobody     *)
(* knows: that any element may be taken out first, and what follows from   *)
(* it; and the ranks of a finite order.  Each fact about all finite sets   *)
(* is proved from a smallest subset that would be an exception.            *)
(***************************************************************************)
EXTENDS Integers, FiniteSets, FiniteSetsExt, Functions, FiniteSetTheorems,
        WellFoundedInduction, TLAPS

-----------------------------------------------------------------------------
(* Least and greatest elements.                                            *)

\* The order of the naturals has no infinite descent.
LEMMA LessThanIsWellFounded ==
    IsWellFoundedOn({ss \in Nat \X Nat : ss[1] < ss[2]}, Nat)
BY NatLessThanWellFounded DEF OpToRel

\* A set of naturals has a least element.
LEMMA LeastNatural ==
    ASSUME NEW S \in SUBSET Nat, S # {}
    PROVE  \E x \in S : \A y \in S : x <= y
<1> DEFINE R == {ss \in Nat \X Nat : ss[1] < ss[2]}
<1>1. \E x \in S : \A y \in S : ~(<<y, x>> \in R)
  <2> HIDE DEF R
  <2> QED BY LessThanIsWellFounded, WFMin, Zenon DEF R
<1>2. \A x, y \in Nat : ~(<<y, x>> \in R) => x <= y
  <2> SUFFICES ASSUME NEW x \in Nat, NEW y \in Nat, y < x
               PROVE  <<y, x>> \in R
    OBVIOUS
  <2> QED OBVIOUS
<1> HIDE DEF R
<1> QED BY <1>1, <1>2

\* Min gives it.
LEMMA LeastElement ==
    ASSUME NEW S \in SUBSET Nat, S # {}
    PROVE  Min(S) \in S /\ \A y \in S : Min(S) <= y
<1>1. \E x \in S : \A y \in S : x <= y
  BY LeastNatural
<1> QED BY <1>1 DEF Min

\* The greatest element of a set of naturals below a bound is one of them, so that the next
\* natural is new and below the next bound.
LEMMA GreatestElement ==
    ASSUME NEW S \in SUBSET Nat, S # {}, NEW bound \in Nat, \A y \in S : y <= bound
    PROVE  Max(S) \in S /\ \A y \in S : Max(S) >= y
<1> DEFINE below == {bound - y : y \in S}
<1>1. below \in SUBSET Nat /\ below # {}
  <2>1. \A y \in S : bound - y \in Nat
    OBVIOUS
  <2>2. PICK y \in S : TRUE
    OBVIOUS
  <2>3. bound - y \in below
    BY <2>2
  <2> QED BY <2>1, <2>3
<1>2. PICK least \in below : \A z \in below : least <= z
  <2> HIDE DEF below
  <2> QED BY <1>1, LeastElement
<1>3. PICK greatest \in S : least = bound - greatest
  OBVIOUS
<1>4. \A y \in S : greatest >= y
  <2> SUFFICES ASSUME NEW y \in S PROVE greatest >= y
    OBVIOUS
  <2>1. bound - greatest <= bound - y
    BY <1>2, <1>3
  <2> QED BY <2>1
<1> QED BY <1>4 DEF Max

\* The greater of two naturals.
LEMMA GreaterOfTwo ==
    ASSUME NEW i \in Nat, NEW j \in Nat
    PROVE  Max({i, j}) \in {i, j} /\ i <= Max({i, j}) /\ j <= Max({i, j})
<1>1. \E x \in {i, j} : \A y \in {i, j} : x >= y
  <2>1. CASE i <= j
    BY <2>1
  <2>2. CASE ~(i <= j)
    BY <2>2
  <2> QED BY <2>1, <2>2
<1>2. Max({i, j}) \in {i, j} /\ \A y \in {i, j} : Max({i, j}) >= y
  BY <1>1 DEF Max
<1> QED BY <1>2

\* Among subsets of a finite set there is one that has no other below it.
LEMMA MinimalSubset ==
    ASSUME NEW S, IsFiniteSet(S), NEW B \in SUBSET SUBSET S, B # {}
    PROVE  \E T \in B : \A U \in B : U \subseteq T => U = T
<1> DEFINE sizes == {Cardinality(T) : T \in B}
<1>1. \A T \in B : IsFiniteSet(T) /\ Cardinality(T) \in Nat
  BY FS_Subset, FS_CardinalityType
<1>2. PICK n \in sizes : \A m \in sizes : n <= m
  <2>1. sizes \in SUBSET Nat /\ sizes # {}
    BY <1>1
  <2> HIDE DEF sizes
  <2> QED BY <2>1, LeastNatural
<1>3. PICK T \in B : Cardinality(T) = n
  OBVIOUS
<1>4. ASSUME NEW U \in B, U \subseteq T PROVE U = T
  <2>1. Cardinality(T) <= Cardinality(U)
    BY <1>2, <1>3
  <2>2. U # T => Cardinality(U) < Cardinality(T)
    BY <1>1, <1>4, FS_Subset
  <2> QED BY <1>1, <2>1, <2>2
<1> QED BY <1>4

\* What a function makes of a finite set is finite.
LEMMA FiniteImage ==
    ASSUME NEW h, NEW S, IsFiniteSet(S)
    PROVE  IsFiniteSet({h[s] : s \in S})
<1> DEFINE image == {h[s] : s \in S}
           g == [s \in S |-> h[s]]
<1>1. g \in Surjection(S, image)
  BY DEF Surjection
<1> HIDE DEF g, image
<1>2. IsFiniteSet(image)
  BY <1>1, FS_Surjection
<1> QED BY <1>2 DEF image

-----------------------------------------------------------------------------
(* Sums.                                                                   *)

\* The element that a fold takes first.
Pick(T) == CHOOSE x \in T : TRUE

IsIter(i, f, S) ==
    i = [s \in SUBSET S |-> IF s = {} THEN 0 ELSE f[Pick(s)] + i[s \ {Pick(s)}]]

LEMMA SumIter ==
    ASSUME NEW f, NEW S
    PROVE  SumFunctionOnSet(f, S) = (CHOOSE i : IsIter(i, f, S))[S]
BY DEF SumFunctionOnSet, FoldFunctionOnSet, MapThenFoldSet, IsIter, Pick

LEMMA PickIsMember ==
    ASSUME NEW T, T # {}
    PROVE  Pick(T) \in T
BY DEF Pick

\* Any function that satisfies the equation on the subsets of S gives the sums of those
\* subsets for which the sum satisfies it too.
LEMMA IterIsSum ==
    ASSUME NEW f, NEW S, IsFiniteSet(S), NEW i, IsIter(i, f, S),
           SumFunctionOnSet(f, {}) = 0,
           NEW T \in SUBSET S,
           \A U \in SUBSET T : U # {} =>
               SumFunctionOnSet(f, U) = f[Pick(U)] + SumFunctionOnSet(f, U \ {Pick(U)})
    PROVE  i[T] = SumFunctionOnSet(f, T)
<1> DEFINE Bad == {U \in SUBSET T : i[U] # SumFunctionOnSet(f, U)}
<1> SUFFICES ASSUME Bad # {} PROVE FALSE
  OBVIOUS
<1>1. PICK U \in Bad : \A V \in Bad : V \subseteq U => V = U
  <2>1. Bad \in SUBSET SUBSET S
    OBVIOUS
  <2> HIDE DEF Bad
  <2> QED BY <2>1, MinimalSubset
<1>2. U # {}
  BY DEF IsIter
<1>3. Pick(U) \in U
  BY <1>2, PickIsMember
<1>4. i[U] = f[Pick(U)] + i[U \ {Pick(U)}]
  <2>1. U \in SUBSET S
    OBVIOUS
  <2> HIDE DEF Bad
  <2> QED BY <1>2, <2>1 DEF IsIter
<1>5. i[U \ {Pick(U)}] = SumFunctionOnSet(f, U \ {Pick(U)})
  BY <1>1, <1>3
<1> QED BY <1>2, <1>4, <1>5

LEMMA SumOfNothing ==
    ASSUME NEW f
    PROVE  SumFunctionOnSet(f, {}) = 0
<1> DEFINE zero == [s \in SUBSET {} |-> 0]
<1>1. IsIter(zero, f, {})
  BY DEF IsIter
<1>2. \A i : IsIter(i, f, {}) => i[{}] = 0
  BY DEF IsIter
<1>3. IsIter(CHOOSE i : IsIter(i, f, {}), f, {})
  BY <1>1
<1> QED BY <1>2, <1>3, SumIter

\* The sum satisfies its recursive equation on every finite set.
LEMMA SumEquation ==
    ASSUME NEW f, NEW S, IsFiniteSet(S), S # {}
    PROVE  SumFunctionOnSet(f, S) = f[Pick(S)] + SumFunctionOnSet(f, S \ {Pick(S)})
<1> DEFINE Good(T) ==
        T # {} => SumFunctionOnSet(f, T) = f[Pick(T)] + SumFunctionOnSet(f, T \ {Pick(T)})
           Bad == {T \in SUBSET S : ~Good(T)}
<1> SUFFICES ASSUME Bad # {} PROVE FALSE
  OBVIOUS
<1>1. PICK T \in Bad : \A U \in Bad : U \subseteq T => U = T
  <2>1. Bad \in SUBSET SUBSET S
    OBVIOUS
  <2> HIDE DEF Bad
  <2> QED BY <2>1, MinimalSubset
<1>2. T # {} /\ IsFiniteSet(T)
  BY FS_Subset
<1>3. \A U \in SUBSET T : U # T => Good(U)
  <2>1. \A U \in SUBSET T : U \notin Bad => Good(U)
    OBVIOUS
  <2> HIDE DEF Good, Bad
  <2> QED BY <1>1, <2>1
<1> DEFINE sum == [s \in SUBSET T |->
                     IF s = {} THEN 0
                     ELSE f[Pick(s)] + SumFunctionOnSet(f, s \ {Pick(s)})]
<1>4. IsIter(sum, f, T)
  <2>1. ASSUME NEW s \in SUBSET T, s # {}
        PROVE  sum[s \ {Pick(s)}] = SumFunctionOnSet(f, s \ {Pick(s)})
    <3>1. s \ {Pick(s)} \in SUBSET T /\ s \ {Pick(s)} # T
      BY <2>1, PickIsMember
    <3>2. Good(s \ {Pick(s)})
      BY <1>3, <3>1
    <3> QED BY <3>1, <3>2, SumOfNothing
  <2>2. sum = [s \in SUBSET T |->
                 IF s = {} THEN 0 ELSE f[Pick(s)] + sum[s \ {Pick(s)}]]
    <3> HIDE DEF sum
    <3>1. sum = [s \in SUBSET T |->
                 IF s = {} THEN 0
                 ELSE f[Pick(s)] + SumFunctionOnSet(f, s \ {Pick(s)})]
      BY DEF sum
    <3> QED BY <2>1, <3>1
  <2> HIDE DEF sum
  <2> QED BY <2>2 DEF IsIter
<1>5. IsIter(CHOOSE j : IsIter(j, f, T), f, T)
  <2> HIDE DEF sum
  <2> QED BY <1>4
<1>6. PICK i : IsIter(i, f, T) /\ SumFunctionOnSet(f, T) = i[T]
  BY <1>5, SumIter
<1>7. i[T] = f[Pick(T)] + i[T \ {Pick(T)}]
  BY <1>2, <1>6 DEF IsIter
<1>8. i[T \ {Pick(T)}] = SumFunctionOnSet(f, T \ {Pick(T)})
  <2>1. T \ {Pick(T)} \in SUBSET T /\ Pick(T) \in T
    BY <1>2, PickIsMember
  <2>2. \A U \in SUBSET (T \ {Pick(T)}) : Good(U)
    <3> HIDE DEF Good
    <3> QED BY <1>3, <2>1
  <2>3. \A U \in SUBSET (T \ {Pick(T)}) : U # {} =>
          SumFunctionOnSet(f, U) = f[Pick(U)] + SumFunctionOnSet(f, U \ {Pick(U)})
    BY <2>2
  <2> DEFINE R == T \ {Pick(T)}
  <2>4. IsFiniteSet(T) /\ R \in SUBSET T /\ SumFunctionOnSet(f, {}) = 0
    BY <1>2, SumOfNothing
  <2> HIDE DEF Good, Bad, sum, R
  <2>5. \A U \in SUBSET R : U # {} =>
          SumFunctionOnSet(f, U) = f[Pick(U)] + SumFunctionOnSet(f, U \ {Pick(U)})
    BY <2>3 DEF R
  <2>6. i[R] = SumFunctionOnSet(f, R)
    BY Z3T(60), <1>6, <2>4, <2>5, IterIsSum
  <2> QED BY <2>6 DEF R
<1> QED BY <1>2, <1>6, <1>7, <1>8

\* A sum of integers is one, and every element may be taken out first.
LEMMA SumTakesOut ==
    ASSUME NEW f, NEW S, IsFiniteSet(S), \A s \in S : f[s] \in Int
    PROVE  /\ SumFunctionOnSet(f, S) \in Int
           /\ \A x \in S : SumFunctionOnSet(f, S) = f[x] + SumFunctionOnSet(f, S \ {x})
<1> DEFINE Good(T) ==
        /\ SumFunctionOnSet(f, T) \in Int
        /\ \A x \in T : SumFunctionOnSet(f, T) = f[x] + SumFunctionOnSet(f, T \ {x})
           Bad == {T \in SUBSET S : ~Good(T)}
<1> SUFFICES ASSUME Bad # {} PROVE FALSE
  OBVIOUS
<1>1. PICK T \in Bad : \A U \in Bad : U \subseteq T => U = T
  <2>1. Bad \in SUBSET SUBSET S
    OBVIOUS
  <2> HIDE DEF Bad
  <2> QED BY <2>1, MinimalSubset
<1>2. IsFiniteSet(T) /\ T \in SUBSET S /\ ~Good(T)
  BY FS_Subset
<1>3. \A U \in SUBSET T : U # T => Good(U)
  <2>1. \A U \in SUBSET T : U \notin Bad => Good(U)
    BY <1>2
  <2> HIDE DEF Good, Bad
  <2> QED BY <1>1, <2>1
<1>4. T # {}
  BY <1>2, SumOfNothing
<1> DEFINE c == Pick(T)
<1>5. c \in T
  BY <1>4, PickIsMember
<1>6. SumFunctionOnSet(f, T) = f[c] + SumFunctionOnSet(f, T \ {c})
  BY <1>2, <1>4, SumEquation
<1> HIDE DEF Bad, c
<1>7. f[c] \in Int /\ SumFunctionOnSet(f, T \ {c}) \in Int
  BY <1>2, <1>3, <1>5
<1>8. ASSUME NEW x \in T, x # c
      PROVE  SumFunctionOnSet(f, T) = f[x] + SumFunctionOnSet(f, T \ {x})
  <2>1. (T \ {c}) \ {x} = (T \ {x}) \ {c}
    OBVIOUS
  <2>2. SumFunctionOnSet(f, T \ {c}) = f[x] + SumFunctionOnSet(f, (T \ {c}) \ {x})
    BY <1>3, <1>5, <1>8
  <2>3. SumFunctionOnSet(f, T \ {x}) = f[c] + SumFunctionOnSet(f, (T \ {x}) \ {c})
    BY <1>3, <1>5, <1>8
  <2>4. SumFunctionOnSet(f, (T \ {c}) \ {x}) \in Int /\ f[x] \in Int
    BY <1>2, <1>3, <1>5
  <2> DEFINE rest == SumFunctionOnSet(f, (T \ {c}) \ {x})
  <2>5. SumFunctionOnSet(f, T) = f[c] + (f[x] + rest)
    BY <1>6, <2>2
  <2>6. SumFunctionOnSet(f, T \ {x}) = f[c] + rest
    BY <2>1, <2>3
  <2> HIDE DEF rest
  <2>7. f[c] + (f[x] + rest) = f[x] + (f[c] + rest)
    BY <1>7, <2>4 DEF rest
  <2> QED BY <2>5, <2>6, <2>7
<1>9. SumFunctionOnSet(f, T) \in Int
  BY <1>6, <1>7
<1> QED BY <1>2, <1>6, <1>8, <1>9

\* Functions that agree on a set have one sum there.
LEMMA SumOfEquals ==
    ASSUME NEW f, NEW g, NEW S, IsFiniteSet(S), \A s \in S : f[s] = g[s]
    PROVE  SumFunctionOnSet(f, S) = SumFunctionOnSet(g, S)
<1> DEFINE Bad == {T \in SUBSET S : SumFunctionOnSet(f, T) # SumFunctionOnSet(g, T)}
<1> SUFFICES ASSUME Bad # {} PROVE FALSE
  OBVIOUS
<1>1. PICK T \in Bad : \A U \in Bad : U \subseteq T => U = T
  <2>1. Bad \in SUBSET SUBSET S
    OBVIOUS
  <2> HIDE DEF Bad
  <2> QED BY <2>1, MinimalSubset
<1>2. IsFiniteSet(T) /\ T # {}
  BY FS_Subset, SumOfNothing
<1>3. Pick(T) \in T
  BY <1>2, PickIsMember
<1>4. SumFunctionOnSet(f, T \ {Pick(T)}) = SumFunctionOnSet(g, T \ {Pick(T)})
  BY <1>1, <1>3
<1>5. f[Pick(T)] = g[Pick(T)]
  BY <1>3
<1> HIDE DEF Bad
<1>6. SumFunctionOnSet(f, T) = SumFunctionOnSet(g, T)
  BY <1>2, <1>4, <1>5, SumEquation
<1> QED BY <1>6 DEF Bad

\* A sum of zeros is 0.
LEMMA SumOfZeros ==
    ASSUME NEW f, NEW S, IsFiniteSet(S), \A s \in S : f[s] = 0
    PROVE  SumFunctionOnSet(f, S) = 0
<1> DEFINE Bad == {T \in SUBSET S : SumFunctionOnSet(f, T) # 0}
<1> SUFFICES ASSUME Bad # {} PROVE FALSE
  OBVIOUS
<1>1. PICK T \in Bad : \A U \in Bad : U \subseteq T => U = T
  <2>1. Bad \in SUBSET SUBSET S
    OBVIOUS
  <2> HIDE DEF Bad
  <2> QED BY <2>1, MinimalSubset
<1>2. IsFiniteSet(T) /\ T # {}
  BY FS_Subset, SumOfNothing
<1>3. Pick(T) \in T
  BY <1>2, PickIsMember
<1>4. SumFunctionOnSet(f, T \ {Pick(T)}) = 0 /\ f[Pick(T)] = 0
  BY <1>1, <1>3
<1>5. SumFunctionOnSet(f, T) = 0
  BY <1>2, <1>4, SumEquation
<1> QED BY <1>5

\* A sum of naturals is one.
LEMMA SumOfNaturals ==
    ASSUME NEW f, NEW S, IsFiniteSet(S), \A s \in S : f[s] \in Nat
    PROVE  SumFunctionOnSet(f, S) \in Nat
<1> DEFINE Bad == {T \in SUBSET S : SumFunctionOnSet(f, T) \notin Nat}
<1> SUFFICES ASSUME Bad # {} PROVE FALSE
  OBVIOUS
<1>1. PICK T \in Bad : \A U \in Bad : U \subseteq T => U = T
  <2>1. Bad \in SUBSET SUBSET S
    OBVIOUS
  <2> HIDE DEF Bad
  <2> QED BY <2>1, MinimalSubset
<1>2. IsFiniteSet(T) /\ T # {}
  <2>1. SumFunctionOnSet(f, {}) \in Nat
    BY SumOfNothing
  <2> QED BY <2>1, FS_Subset
<1>3. PICK x \in T : TRUE
  BY <1>2
<1>4. SumFunctionOnSet(f, T \ {x}) \in Nat
  BY <1>1, <1>3
<1>5. SumFunctionOnSet(f, T) = f[x] + SumFunctionOnSet(f, T \ {x}) /\ f[x] \in Nat
  <2>1. \A s \in T : f[s] \in Int /\ f[s] \in Nat
    OBVIOUS
  <2> HIDE DEF Bad
  <2> QED BY <1>2, <1>3, <2>1, SumTakesOut
<1>6. SumFunctionOnSet(f, T) \in Nat
  BY <1>4, <1>5
<1> QED BY <1>6

\* A sum grows with what is summed.
LEMMA SumAtMost ==
    ASSUME NEW f, NEW g, NEW S, IsFiniteSet(S),
           \A s \in S : f[s] \in Int /\ g[s] \in Int /\ f[s] <= g[s]
    PROVE  SumFunctionOnSet(f, S) <= SumFunctionOnSet(g, S)
<1> DEFINE Bad == {T \in SUBSET S : ~(SumFunctionOnSet(f, T) <= SumFunctionOnSet(g, T))}
<1> SUFFICES ASSUME Bad # {} PROVE FALSE
  OBVIOUS
<1>1. PICK T \in Bad : \A U \in Bad : U \subseteq T => U = T
  <2>1. Bad \in SUBSET SUBSET S
    OBVIOUS
  <2> HIDE DEF Bad
  <2> QED BY <2>1, MinimalSubset
<1>2. IsFiniteSet(T) /\ T # {}
  <2>1. SumFunctionOnSet(f, {}) = 0 /\ SumFunctionOnSet(g, {}) = 0 /\ 0 <= 0
    BY SumOfNothing
  <2>2. SumFunctionOnSet(f, {}) <= SumFunctionOnSet(g, {})
    BY <2>1
  <2> QED BY <2>2, FS_Subset
<1>3. PICK x \in T : TRUE
  BY <1>2
<1>4. SumFunctionOnSet(f, T \ {x}) <= SumFunctionOnSet(g, T \ {x})
  BY <1>1, <1>3
<1>5. \A s \in T : f[s] \in Int /\ g[s] \in Int
  OBVIOUS
<1>6. f[x] \in Int /\ g[x] \in Int /\ f[x] <= g[x]
  OBVIOUS
<1> HIDE DEF Bad
<1>7. IsFiniteSet(T \ {x})
  BY <1>2, FS_Subset
<1>8. /\ SumFunctionOnSet(f, T) = f[x] + SumFunctionOnSet(f, T \ {x})
      /\ SumFunctionOnSet(g, T) = g[x] + SumFunctionOnSet(g, T \ {x})
  BY <1>2, <1>3, <1>5, SumTakesOut
<1>9. SumFunctionOnSet(f, T \ {x}) \in Int /\ SumFunctionOnSet(g, T \ {x}) \in Int
  BY <1>5, <1>7, SumTakesOut
<1>10. SumFunctionOnSet(f, T) <= SumFunctionOnSet(g, T)
  BY <1>4, <1>6, <1>8, <1>9
<1> QED BY <1>10 DEF Bad

\* A new element adds its value.
LEMMA SumWithNew ==
    ASSUME NEW f, NEW g, NEW S, IsFiniteSet(S), NEW x, x \notin S,
           \A s \in S : g[s] = f[s] /\ f[s] \in Int, g[x] \in Int
    PROVE  SumFunctionOnSet(g, S \cup {x}) = g[x] + SumFunctionOnSet(f, S)
<1>1. IsFiniteSet(S \cup {x}) /\ (S \cup {x}) \ {x} = S
  BY FS_AddElement
<1>2. \A s \in S \cup {x} : g[s] \in Int
  OBVIOUS
<1>3. SumFunctionOnSet(g, S \cup {x}) = g[x] + SumFunctionOnSet(g, (S \cup {x}) \ {x})
  BY <1>1, <1>2, SumTakesOut
<1>4. SumFunctionOnSet(g, S) = SumFunctionOnSet(f, S)
  BY SumOfEquals
<1> QED BY <1>1, <1>3, <1>4

\* A change of one value changes the sum by as much.
LEMMA SumChanges ==
    ASSUME NEW f, NEW g, NEW S, IsFiniteSet(S), NEW x \in S,
           \A s \in S : f[s] \in Int /\ g[s] \in Int,
           \A s \in S : s # x => g[s] = f[s]
    PROVE  /\ SumFunctionOnSet(f, S) \in Int
           /\ SumFunctionOnSet(g, S) = SumFunctionOnSet(f, S) + (g[x] - f[x])
<1>1. IsFiniteSet(S \ {x})
  BY FS_Subset
<1>2. SumFunctionOnSet(g, S \ {x}) = SumFunctionOnSet(f, S \ {x})
  BY <1>1, SumOfEquals
<1>3. /\ SumFunctionOnSet(f, S) \in Int
      /\ SumFunctionOnSet(f, S) = f[x] + SumFunctionOnSet(f, S \ {x})
      /\ SumFunctionOnSet(g, S) = g[x] + SumFunctionOnSet(g, S \ {x})
  BY Z3, SumTakesOut
<1>4. SumFunctionOnSet(f, S \ {x}) \in Int
  BY <1>1, SumTakesOut
<1>5. f[x] \in Int /\ g[x] \in Int
  OBVIOUS
<1> QED BY <1>2, <1>3, <1>4, <1>5

\* The sum over a set and one apart from it are added; names of the second may be changed,
\* each for its own.
LEMMA SumOfUnion ==
    ASSUME NEW f, NEW g, NEW h, NEW A, NEW B, IsFiniteSet(A), IsFiniteSet(B),
           \A b \in B : h[b] \notin A,
           \A b, d \in B : h[b] = h[d] => b = d,
           \A a \in A : f[a] \in Int,
           \A b \in B : g[b] \in Int /\ f[h[b]] = g[b]
    PROVE  SumFunctionOnSet(f, A \cup {h[b] : b \in B})
             = SumFunctionOnSet(f, A) + SumFunctionOnSet(g, B)
<1> DEFINE Good(T) == SumFunctionOnSet(f, A \cup {h[b] : b \in T})
                        = SumFunctionOnSet(f, A) + SumFunctionOnSet(g, T)
           Bad == {T \in SUBSET B : ~Good(T)}
<1> SUFFICES ASSUME Bad # {} PROVE FALSE
  OBVIOUS
<1>1. PICK T \in Bad : \A U \in Bad : U \subseteq T => U = T
  <2>1. Bad \in SUBSET SUBSET B
    OBVIOUS
  <2> HIDE DEF Bad
  <2> QED BY <2>1, MinimalSubset
<1>2. SumFunctionOnSet(f, A) \in Int
  BY SumTakesOut
<1>3. T # {}
  <2>1. A \cup {h[b] : b \in {}} = A
    OBVIOUS
  <2>2. SumFunctionOnSet(g, {}) = 0
    BY SumOfNothing
  <2>3. SumFunctionOnSet(f, A) = SumFunctionOnSet(f, A) + 0
    BY <1>2
  <2>4. Good({})
    BY <2>1, <2>2, <2>3
  <2> QED BY <2>4
<1>4. IsFiniteSet(T) /\ T \in SUBSET B /\ ~Good(T)
  BY FS_Subset
<1>5. PICK x \in T : TRUE
  BY <1>3
<1>6. IsFiniteSet(T \ {x}) /\ T \ {x} \in SUBSET B
  BY <1>4, FS_Subset
<1>7. Good(T \ {x})
  <2>1. T \ {x} \notin Bad
    <3> HIDE DEF Bad
    <3> QED BY <1>1, <1>5
  <2> QED BY <1>6, <2>1
<1> DEFINE rest == A \cup {h[b] : b \in T \ {x}}
<1>8. /\ IsFiniteSet(rest) /\ h[x] \notin rest
      /\ A \cup {h[b] : b \in T} = rest \cup {h[x]}
  <2>1. IsFiniteSet({h[b] : b \in T \ {x}})
    BY <1>6, FiniteImage
  <2>2. IsFiniteSet(rest)
    BY <2>1, FS_Union
  <2>3. \A b \in T \ {x} : h[b] # h[x]
    BY <1>4, <1>5
  <2>4. h[x] \notin A
    BY <1>4, <1>5
  <2>5. A \cup {h[b] : b \in T} = rest \cup {h[x]}
    BY <1>5
  <2> QED BY <2>2, <2>3, <2>4, <2>5
<1>9. \A s \in rest : f[s] \in Int
  BY <1>4
<1>10. f[h[x]] = g[x] /\ g[x] \in Int
  BY <1>4, <1>5
<1>11. SumFunctionOnSet(f, rest \cup {h[x]}) = f[h[x]] + SumFunctionOnSet(f, rest)
  <2> HIDE DEF rest, Bad, Good
  <2> QED BY <1>8, <1>9, <1>10, SumWithNew
<1>12. SumFunctionOnSet(g, T) = g[x] + SumFunctionOnSet(g, T \ {x})
       /\ SumFunctionOnSet(g, T \ {x}) \in Int
  <2>1. \A b \in T : g[b] \in Int
    BY <1>4
  <2> HIDE DEF Bad, Good
  <2> QED BY <1>4, <1>5, <1>6, <2>1, SumTakesOut
<1>13. SumFunctionOnSet(f, rest) = SumFunctionOnSet(f, A) + SumFunctionOnSet(g, T \ {x})
  BY <1>7
<1>14. SumFunctionOnSet(f, A \cup {h[b] : b \in T})
         = SumFunctionOnSet(f, A) + SumFunctionOnSet(g, T)
  <2> HIDE DEF Bad, Good, rest
  <2>1. SumFunctionOnSet(f, rest \cup {h[x]})
          = g[x] + (SumFunctionOnSet(f, A) + SumFunctionOnSet(g, T \ {x}))
    BY <1>10, <1>11, <1>13
  <2>2. SumFunctionOnSet(f, rest \cup {h[x]})
          = SumFunctionOnSet(f, A) + (g[x] + SumFunctionOnSet(g, T \ {x}))
    BY <1>2, <1>10, <1>12, <2>1
  <2> QED BY <1>8, <1>12, <2>2
<1> QED BY <1>4, <1>14

\* A sum is that over a part and that over the rest.
LEMMA SumSplits ==
    ASSUME NEW f, NEW S, IsFiniteSet(S), NEW T \in SUBSET S, \A s \in S : f[s] \in Int
    PROVE  /\ SumFunctionOnSet(f, S) = SumFunctionOnSet(f, S \ T) + SumFunctionOnSet(f, T)
           /\ SumFunctionOnSet(f, S \ T) \in Int /\ SumFunctionOnSet(f, T) \in Int
<1> DEFINE h == [t \in T |-> t]
<1>1. IsFiniteSet(S \ T) /\ IsFiniteSet(T)
  BY FS_Subset
<1>2. /\ \A b \in T : h[b] = b /\ h[b] \notin S \ T
      /\ \A b, d \in T : h[b] = h[d] => b = d
  OBVIOUS
<1>3. /\ \A a \in S \ T : f[a] \in Int
      /\ \A b \in T : f[b] \in Int /\ f[h[b]] = f[b]
  OBVIOUS
<1>4. (S \ T) \cup {h[b] : b \in T} = S
  <2>1. {h[b] : b \in T} = T
    BY <1>2
  <2> QED BY <2>1
<1> HIDE DEF h
<1>5. SumFunctionOnSet(f, (S \ T) \cup {h[b] : b \in T})
        = SumFunctionOnSet(f, S \ T) + SumFunctionOnSet(f, T)
  BY <1>1, <1>2, <1>3, SumOfUnion
<1>6. SumFunctionOnSet(f, S \ T) \in Int /\ SumFunctionOnSet(f, T) \in Int
  BY <1>1, SumTakesOut
<1> QED BY <1>4, <1>5, <1>6

\* The elements that a key leads to.
OfKey(S, key, d) == {x \in S : key[x] = d}

\* What is summed up by a key, key by key, adds up to the sum of all.
LEMMA SumByKey ==
    ASSUME NEW f, NEW key, NEW sums, NEW D, NEW S, IsFiniteSet(D), IsFiniteSet(S),
           \A x \in S : key[x] \in D /\ f[x] \in Int,
           \A d \in D : sums[d] = SumFunctionOnSet(f, OfKey(S, key, d))
    PROVE  SumFunctionOnSet(sums, D) = SumFunctionOnSet(f, S)
<1> DEFINE Of(T, d) == OfKey(T, key, d)
           By(T) == [d \in D |-> SumFunctionOnSet(f, Of(T, d))]
           Good(T) == SumFunctionOnSet(By(T), D) = SumFunctionOnSet(f, T)
           Bad == {T \in SUBSET S : ~Good(T)}
<1>1. SUFFICES ASSUME Bad # {} PROVE FALSE
  <2>1. S \in SUBSET S
    OBVIOUS
  <2>2. Bad = {} => Good(S)
    <3> HIDE DEF Good
    <3> QED BY <2>1
  <2>3. \A d \in D : sums[d] = By(S)[d]
    OBVIOUS
  <2>4. SumFunctionOnSet(sums, D) = SumFunctionOnSet(By(S), D)
    <3> HIDE DEF By
    <3> QED BY <2>3, SumOfEquals
  <2>5. Good(S) => SumFunctionOnSet(By(S), D) = SumFunctionOnSet(f, S)
    OBVIOUS
  <2> HIDE DEF Bad, Good, By
  <2> QED BY <2>2, <2>4, <2>5
<1>2. PICK T \in Bad : \A U \in Bad : U \subseteq T => U = T
  <2>1. Bad \in SUBSET SUBSET S
    OBVIOUS
  <2> HIDE DEF Bad
  <2> QED BY <1>1, <2>1, MinimalSubset
<1>3. T \in SUBSET S /\ ~Good(T) /\ IsFiniteSet(T)
  BY FS_Subset
<1>4. T # {}
  <2>1. \A d \in D : By({})[d] = 0
    <3>1. \A d \in D : Of({}, d) = {}
      BY DEF OfKey
    <3> HIDE DEF Of
    <3> QED BY <3>1, SumOfNothing
  <2>2. SumFunctionOnSet(By({}), D) = 0
    <3> HIDE DEF By
    <3> QED BY <2>1, SumOfZeros
  <2>3. Good({})
    <3> HIDE DEF By
    <3> QED BY <2>2, SumOfNothing
  <2> HIDE DEF Good
  <2> QED BY <1>3, <2>3
<1>5. PICK x \in T : TRUE
  BY <1>4
<1> DEFINE U == T \ {x}
<1>6. Good(U)
  <2>1. U \in SUBSET S /\ U \subseteq T /\ U # T
    BY <1>3, <1>5
  <2>2. U \notin Bad => Good(U)
    <3> HIDE DEF Good, U
    <3> QED BY <2>1
  <2> HIDE DEF Bad, Good, U
  <2> QED BY <1>2, <2>1, <2>2
<1>7. x \in S /\ key[x] \in D /\ f[x] \in Int
  BY <1>3, <1>5
<1> DEFINE k == key[x]
<1>8. \A d \in D : IsFiniteSet(Of(T, d)) /\ IsFiniteSet(Of(U, d))
  <2>1. \A d \in D : Of(T, d) \subseteq S /\ Of(U, d) \subseteq S
    BY <1>3 DEF OfKey
  <2> HIDE DEF Of, U
  <2> QED BY <2>1, FS_Subset
<1>9. \A s \in T : f[s] \in Int
  BY <1>3
<1>10. \A d \in D : By(T)[d] \in Int /\ By(U)[d] \in Int
  <2>1. \A d \in D : /\ \A s \in Of(T, d) : f[s] \in Int
                     /\ \A s \in Of(U, d) : f[s] \in Int
    BY <1>9 DEF OfKey
  <2> HIDE DEF Of, U
  <2> QED BY <1>8, <2>1, SumTakesOut
<1>11. \A d \in D : d # k => By(T)[d] = By(U)[d]
  <2>1. \A d \in D : d # k => Of(T, d) = Of(U, d)
    BY DEF OfKey
  <2> HIDE DEF Of, U, k
  <2> QED BY <2>1
<1>12. By(T)[k] = f[x] + By(U)[k]
  <2>1. Of(U, k) = Of(T, k) \ {x} /\ x \in Of(T, k)
    BY <1>5 DEF OfKey
  <2>2. \A s \in Of(T, k) : f[s] \in Int
    BY <1>9 DEF OfKey
  <2>3. k \in D
    BY <1>7
  <2> HIDE DEF Of, U, k
  <2>4. SumFunctionOnSet(f, Of(T, k)) = f[x] + SumFunctionOnSet(f, Of(T, k) \ {x})
    <3>1. PICK mine : mine = Of(T, k)
      OBVIOUS
    <3>2. IsFiniteSet(mine) /\ x \in mine /\ \A s \in mine : f[s] \in Int
      BY <1>8, <2>1, <2>2, <2>3, <3>1
    <3>3. SumFunctionOnSet(f, mine) = f[x] + SumFunctionOnSet(f, mine \ {x})
      BY <3>2, SumTakesOut
    <3> QED BY <3>1, <3>3
  <2> QED BY <2>1, <2>3, <2>4
<1>13. /\ SumFunctionOnSet(By(U), D) \in Int
       /\ SumFunctionOnSet(By(T), D)
            = SumFunctionOnSet(By(U), D) + (By(T)[k] - By(U)[k])
  <2>1. k \in D
    BY <1>7
  <2> HIDE DEF By, U, k
  <2> QED BY <1>10, <1>11, <2>1, SumChanges
<1>14. SumFunctionOnSet(f, T) = f[x] + SumFunctionOnSet(f, U)
  <2>1. IsFiniteSet(T) /\ x \in T
    BY <1>3, <1>5
  <2>2. SumFunctionOnSet(f, T) = f[x] + SumFunctionOnSet(f, T \ {x})
    <3> HIDE DEF Of, By, Good, Bad, U, k
    <3>1. PICK all : all = T
      OBVIOUS
    <3>2. IsFiniteSet(all) /\ x \in all /\ \A s \in all : f[s] \in Int
      BY <1>9, <2>1, <3>1
    <3>3. SumFunctionOnSet(f, all) = f[x] + SumFunctionOnSet(f, all \ {x})
      BY <3>2, SumTakesOut
    <3> QED BY <3>1, <3>3
  <2> QED BY <2>2
<1>15. By(U)[k] \in Int /\ By(T)[k] \in Int
  BY <1>7, <1>10
<1>16. SumFunctionOnSet(By(U), D) = SumFunctionOnSet(f, U)
  BY <1>6
<1>17. SumFunctionOnSet(By(T), D) = SumFunctionOnSet(f, T)
  <2> HIDE DEF By, U, k, Bad
  <2> QED BY <1>7, <1>12, <1>13, <1>14, <1>15, <1>16
<1> QED BY <1>3, <1>17

\* What is a times as much and b more for each element is so for the sum.
Linear(h, f, a, b, S) ==
    \A s \in S : f[s] \in Int /\ h[s] = a * f[s] + b

SumIsLinear(h, f, a, b, S) ==
    /\ SumFunctionOnSet(f, S) \in Int /\ Cardinality(S) \in Nat
    /\ SumFunctionOnSet(h, S) = a * SumFunctionOnSet(f, S) + b * Cardinality(S)

LEMMA SumLinear ==
    ASSUME NEW f, NEW h, NEW S, IsFiniteSet(S), NEW a \in Int, NEW b \in Int, Linear(h, f, a, b, S)
    PROVE  SumIsLinear(h, f, a, b, S)
<1> USE DEF Linear, SumIsLinear
<1> DEFINE Good(T) == SumFunctionOnSet(h, T) = a * SumFunctionOnSet(f, T) + b * Cardinality(T)
           Bad == {T \in SUBSET S : ~Good(T)}
<1>1. SUFFICES ASSUME Bad # {} PROVE FALSE
  <2>1. Good(S)
    OBVIOUS
  <2>2. SumFunctionOnSet(f, S) \in Int /\ Cardinality(S) \in Nat
    BY SumTakesOut, FS_CardinalityType
  <2> QED BY <2>1, <2>2
<1>2. PICK T \in Bad : \A U \in Bad : U \subseteq T => U = T
  <2>1. Bad \in SUBSET SUBSET S
    OBVIOUS
  <2> HIDE DEF Bad
  <2> QED BY <1>1, <2>1, MinimalSubset
<1>3. T \in SUBSET S /\ ~Good(T)
  OBVIOUS
<1>4. IsFiniteSet(T) /\ \A s \in T : f[s] \in Int /\ h[s] = a * f[s] + b
  BY <1>3, FS_Subset
<1>5. T # {}
  <2>1. SumFunctionOnSet(h, {}) = 0 /\ SumFunctionOnSet(f, {}) = 0 /\ Cardinality({}) = 0
    BY SumOfNothing, FS_EmptySet
  <2>2. Good({})
    BY <2>1
  <2> HIDE DEF Good
  <2> QED BY <1>3, <2>2
<1>6. PICK x \in T : TRUE
  BY <1>5
<1>7. PICK U : U = T \ {x}
  OBVIOUS
<1>8. U \in SUBSET S /\ U \subseteq T /\ U # T /\ x \notin U /\ T = U \cup {x}
  BY <1>3, <1>6, <1>7
<1>9. Good(U)
  <2> HIDE DEF Good
  <2>1. U \notin Bad
    <3> HIDE DEF Bad
    <3> QED BY <1>2, <1>8
  <2> QED BY <1>8, <2>1
<1> HIDE DEF Bad
<1>10. IsFiniteSet(U)
  BY <1>4, <1>8, FS_Subset
<1>11. Cardinality(T) = Cardinality(U) + 1 /\ Cardinality(U) \in Nat
  BY <1>8, <1>10, FS_AddElement, FS_CardinalityType
<1>12. \A s \in T : f[s] \in Int /\ h[s] \in Int
  BY <1>4
<1>13. /\ SumFunctionOnSet(f, T) = f[x] + SumFunctionOnSet(f, U)
       /\ SumFunctionOnSet(h, T) = h[x] + SumFunctionOnSet(h, U)
  BY <1>4, <1>6, <1>7, <1>12, SumTakesOut
<1>14. SumFunctionOnSet(f, U) \in Int
  BY <1>8, <1>10, <1>12, SumTakesOut
<1>15. PICK y \in Int, u \in Int, n \in Int :
           y = f[x] /\ u = SumFunctionOnSet(f, U) /\ n = Cardinality(U)
  BY <1>6, <1>11, <1>12, <1>14
<1>16. h[x] = a * y + b
  BY <1>4, <1>6, <1>15
<1>17. SumFunctionOnSet(h, U) = a * u + b * n
  BY <1>9, <1>15
<1>18. a * (y + u) = a * y + a * u /\ b * (n + 1) = b * n + b
  OBVIOUS
<1>19. a * y \in Int /\ a * u \in Int /\ b * n \in Int
  OBVIOUS
<1>20. SumFunctionOnSet(h, T) = a * (y + u) + b * (n + 1)
  BY <1>13, <1>16, <1>17, <1>18, <1>19
<1>21. Good(T)
  BY <1>11, <1>13, <1>15, <1>20
<1> QED BY <1>3, <1>21

\* The sum of what is added element by element is that of the sums.
LEMMA SumAdds ==
    ASSUME NEW f, NEW g, NEW h, NEW S, IsFiniteSet(S),
           \A s \in S : f[s] \in Int /\ g[s] \in Int /\ h[s] = f[s] + g[s]
    PROVE  SumFunctionOnSet(h, S) = SumFunctionOnSet(f, S) + SumFunctionOnSet(g, S)
<1> DEFINE Good(T) == SumFunctionOnSet(h, T) = SumFunctionOnSet(f, T) + SumFunctionOnSet(g, T)
           Bad == {T \in SUBSET S : ~Good(T)}
<1>1. SUFFICES ASSUME Bad # {} PROVE FALSE
  <2>1. Good(S)
    OBVIOUS
  <2> QED BY <2>1
<1>2. PICK T \in Bad : \A U \in Bad : U \subseteq T => U = T
  <2>1. Bad \in SUBSET SUBSET S
    OBVIOUS
  <2> HIDE DEF Bad
  <2> QED BY <1>1, <2>1, MinimalSubset
<1>3. T \in SUBSET S /\ ~Good(T)
  OBVIOUS
<1>4. IsFiniteSet(T) /\ \A s \in T : f[s] \in Int /\ g[s] \in Int /\ h[s] = f[s] + g[s]
  BY <1>3, FS_Subset
<1>5. T # {}
  <2>1. /\ SumFunctionOnSet(h, {}) = 0 /\ SumFunctionOnSet(f, {}) = 0
        /\ SumFunctionOnSet(g, {}) = 0
    BY SumOfNothing
  <2>2. Good({})
    BY <2>1
  <2> HIDE DEF Good
  <2> QED BY <1>3, <2>2
<1>6. PICK x \in T : TRUE
  BY <1>5
<1>7. PICK U : U = T \ {x}
  OBVIOUS
<1>8. U \in SUBSET S /\ U \subseteq T /\ U # T
  BY <1>3, <1>6, <1>7
<1>9. Good(U)
  <2> HIDE DEF Good
  <2>1. U \notin Bad
    <3> HIDE DEF Bad
    <3> QED BY <1>2, <1>8
  <2> QED BY <1>8, <2>1
<1> HIDE DEF Bad
<1>10. IsFiniteSet(U) /\ \A s \in U : f[s] \in Int /\ g[s] \in Int
  BY <1>4, <1>8, FS_Subset
<1>11. \A s \in T : h[s] \in Int
  BY <1>4
<1>12. /\ SumFunctionOnSet(f, T) = f[x] + SumFunctionOnSet(f, U)
       /\ SumFunctionOnSet(g, T) = g[x] + SumFunctionOnSet(g, U)
       /\ SumFunctionOnSet(h, T) = h[x] + SumFunctionOnSet(h, U)
  BY <1>4, <1>6, <1>7, <1>11, SumTakesOut
<1>13. SumFunctionOnSet(f, U) \in Int /\ SumFunctionOnSet(g, U) \in Int
  BY <1>10, SumTakesOut
<1>14. f[x] \in Int /\ g[x] \in Int /\ h[x] = f[x] + g[x]
  BY <1>4, <1>6
<1>15. Good(T)
  BY <1>9, <1>12, <1>13, <1>14
<1> QED BY <1>3, <1>15

-----------------------------------------------------------------------------
(* Ranks.                                                                  *)

\* Every rank of a finite strict order is taken: `below' maps an element to those below it.
Ranks(below, S) ==
    /\ \A x \in S : below[x] \subseteq S /\ x \notin below[x]
    /\ \A x, y \in S : x # y => x \in below[y] \/ y \in below[x]
    /\ \A x, y \in S : x \in below[y] => below[x] \subseteq below[y]

LEMMA EveryRankIsTaken ==
    ASSUME NEW S, IsFiniteSet(S), NEW below, Ranks(below, S),
           NEW k \in 0 .. Cardinality(S) - 1
    PROVE  \E x \in S : Cardinality(below[x]) = k
<1>0. /\ \A x \in S : below[x] \subseteq S /\ x \notin below[x]
      /\ \A x, y \in S : x # y => x \in below[y] \/ y \in below[x]
      /\ \A x, y \in S : x \in below[y] => below[x] \subseteq below[y]
  BY DEF Ranks
<1>1. PICK n \in Nat : n = Cardinality(S)
  BY FS_CardinalityType
<1>2. \A x \in S : IsFiniteSet(below[x]) /\ Cardinality(below[x]) \in Nat
  <2> TAKE x \in S
  <2> QED BY <1>0, FS_Subset, FS_CardinalityType
<1>3. \A x \in S : Cardinality(below[x]) < n
  <2> TAKE x \in S
  <2>1. below[x] \in SUBSET S /\ below[x] # S
    BY <1>0
  <2>2. Cardinality(below[x]) <= n /\ Cardinality(below[x]) # n
    BY <1>1, <2>1, FS_Subset
  <2> QED BY <1>1, <1>2, <2>2
<1>4. \A x, y \in S : x \in below[y] => Cardinality(below[x]) < Cardinality(below[y])
  <2> SUFFICES ASSUME NEW x \in S, NEW y \in S, x \in below[y]
               PROVE  Cardinality(below[x]) < Cardinality(below[y])
    OBVIOUS
  <2>1. below[x] \in SUBSET below[y] /\ below[x] # below[y]
    BY <1>0
  <2>2. /\ Cardinality(below[x]) <= Cardinality(below[y])
        /\ Cardinality(below[x]) # Cardinality(below[y])
    BY <1>2, <2>1, FS_Subset
  <2> QED BY <1>2, <2>2
<1>5. PICK rank : rank = [x \in S |-> Cardinality(below[x])]
  OBVIOUS
<1>6. rank \in [S -> 0 .. n - 1]
  BY <1>1, <1>2, <1>3, <1>5
<1>7. \A x, y \in S : rank[x] = rank[y] => x = y
  <2> SUFFICES ASSUME NEW x \in S, NEW y \in S, x # y PROVE rank[x] # rank[y]
    OBVIOUS
  <2>1. Cardinality(below[x]) \in Nat /\ Cardinality(below[y]) \in Nat
    BY <1>2
  <2>2. x \in below[y] \/ y \in below[x]
    BY <1>0
  <2> QED BY <1>4, <1>5, <2>1, <2>2
<1>8. rank \in Injection(S, 0 .. n - 1)
  BY <1>6, <1>7 DEF Injection, IsInjective
<1>9. IsFiniteSet(0 .. n - 1) /\ Cardinality(0 .. n - 1) = n
  BY <1>1, FS_Interval
<1>10. rank \in Surjection(S, 0 .. n - 1)
  BY <1>1, <1>8, <1>9, FS_Injection
<1>11. \E x \in S : rank[x] = k
  BY <1>1, <1>10 DEF Surjection
<1> QED BY <1>5, <1>11
=============================================================================
