-------------------------------- MODULE Sums --------------------------------
(***************************************************************************)
(* Sums over finite sets, as the byte accounts of the stores are stated    *)
(* with MapThenSumSet: what such a sum is, and that it does not depend on  *)
(* the order in which the elements are taken. The induction over the       *)
(* subsets of a set goes by a least counterexample.                        *)
(***************************************************************************)
EXTENDS Integers, FiniteSetTheorems, WellFoundedInduction, TLAPS

\* The element a fold takes first.
Any(s) == CHOOSE x \in s : TRUE

\* g gives the sum of f over every subset of S.
IsSum(f, S, g) ==
    g = [s \in SUBSET S |-> IF s = {} THEN 0 ELSE f[Any(s)] + g[s \ {Any(s)}]]

\* The sum of f over S.
Total(f, S) == (CHOOSE g : IsSum(f, S, g))[S]

\* A family of subsets of a finite set has a least one.
LEMMA LeastSubset ==
  ASSUME NEW S, IsFiniteSet(S), NEW F, F \subseteq SUBSET S, F # {}
  PROVE  \E m \in F : \A s \in F : s \subseteq m => s = m
<1>1. F \subseteq FiniteSubsetsOf(S)
  BY FS_Subset DEF FiniteSubsetsOf
<1>2. PICK m \in F : \A s \in F : <<s, m>> \notin StrictSubsetOrdering(S)
  BY <1>1, FS_StrictSubsetOrderingWellFounded, WFMin
<1>3. ASSUME NEW s \in F, s \subseteq m PROVE s = m
  <2>1. <<s, m>> \in (SUBSET S) \X (SUBSET S) /\ <<s, m>>[1] = s /\ <<s, m>>[2] = m
    BY <1>2, <1>3
  <2> QED
    BY <1>2, <1>3, <2>1, Zenon DEF StrictSubsetOrdering
<1> QED
  BY <1>2, <1>3

\* What a set and the element taken first from it are.
LEMMA AnyElement ==
  ASSUME NEW s, s # {}
  PROVE  Any(s) \in s
  BY DEF Any

\* The sums over the subsets of a set do not depend on what they are a part of.
LEMMA SumsAgree ==
  ASSUME NEW S, NEW T, IsFiniteSet(T), T \subseteq S, NEW f, NEW h,
         \A x \in T : f[x] = h[x],
         NEW g, IsSum(f, S, g), NEW k, IsSum(h, T, k)
  PROVE  \A s \in SUBSET T : g[s] = k[s]
<1> DEFINE F == {s \in SUBSET T : g[s] # k[s]}
<1>1. SUFFICES ASSUME F # {} PROVE FALSE
  OBVIOUS
<1>2. PICK m \in F : \A s \in F : s \subseteq m => s = m
  <2>1. F \subseteq SUBSET T
    OBVIOUS
  <2> HIDE DEF F
  <2> QED
    BY <1>1, <2>1, LeastSubset
<1>3. m \in SUBSET T /\ m \in SUBSET S /\ g[m] # k[m]
  BY <1>2
<1>4. CASE m = {}
  <2>1. g[m] = 0 /\ k[m] = 0
    BY <1>3, <1>4, Zenon DEF IsSum
  <2> QED
    BY <1>3, <2>1
<1>5. CASE m # {}
  <2> DEFINE x == Any(m)
  <2>1. x \in m /\ f[x] = h[x]
    BY <1>3, <1>5, AnyElement
  <2>2. g[m] = f[x] + g[m \ {x}] /\ k[m] = h[x] + k[m \ {x}]
    BY <1>3, <1>5 DEF IsSum
  <2> HIDE DEF x
  <2>3. g[m \ {x}] = k[m \ {x}]
    <3>1. m \ {x} \notin F
      BY <1>2, <2>1
    <3> QED
      BY <1>3, <3>1
  <2> QED
    BY <1>3, <2>1, <2>2, <2>3
<1> QED
  BY <1>4, <1>5

\* Every finite set has its sums.
LEMMA SumExists ==
  ASSUME NEW S, IsFiniteSet(S), NEW f
  PROVE  \E g : IsSum(f, S, g)
<1> DEFINE F == {s \in SUBSET S : ~ \E g : IsSum(f, s, g)}
<1>1. SUFFICES ASSUME F # {} PROVE FALSE
  OBVIOUS
<1>2. PICK m \in F : \A s \in F : s \subseteq m => s = m
  <2>1. F \subseteq SUBSET S
    OBVIOUS
  <2> HIDE DEF F
  <2> QED
    BY <1>1, <2>1, LeastSubset
<1>3. m \in SUBSET S /\ IsFiniteSet(m)
  BY <1>2, FS_Subset
<1>4. ASSUME NEW s \in SUBSET m, s # m
      PROVE  \E g : IsSum(f, s, g)
  BY <1>2, <1>3, <1>4
<1> DEFINE g == [s \in SUBSET m |-> IF s = {} THEN 0 ELSE f[Any(s)] + Total(f, s \ {Any(s)})]
<1>5. ASSUME NEW s \in SUBSET m, s # m
      PROVE  Total(f, s) = g[s]
  <2> DEFINE k == CHOOSE p : IsSum(f, s, p)
  <2>1. IsSum(f, s, k)
    BY <1>4, <1>5
  <2>2. Total(f, s) = k[s]
    BY DEF Total
  <2> HIDE DEF k
  <2>3. CASE s = {}
    <3>1. k[s] = 0
      BY <2>1, <2>3, Zenon DEF IsSum
    <3> QED
      BY <2>2, <2>3, <3>1
  <2>4. CASE s # {}
    <3> DEFINE x == Any(s)
               t == s \ {x}
               q == CHOOSE p : IsSum(f, t, p)
    <3>1. x \in s
      BY <2>4, AnyElement
    <3>2. k[s] = f[x] + k[t]
      BY <2>1, <2>4 DEF IsSum
    <3>3. g[s] = f[x] + Total(f, t)
      BY <2>4
    <3>4. t \in SUBSET m /\ t # m /\ t \subseteq s /\ IsFiniteSet(t)
      BY <1>3, <1>5, <3>1, FS_Subset
    <3>5. IsSum(f, t, q) /\ Total(f, t) = q[t]
      BY <1>4, <3>4 DEF Total
    <3> HIDE DEF q, t, x
    <3>6. k[t] = q[t]
      BY <2>1, <3>4, <3>5, SumsAgree
    <3> QED
      BY <2>2, <3>2, <3>3, <3>5, <3>6
  <2> QED
    BY <2>3, <2>4
<1>6. IsSum(f, m, g)
  <2>1. ASSUME NEW s \in SUBSET m, s # {}
        PROVE  Total(f, s \ {Any(s)}) = g[s \ {Any(s)}]
    <3>1. s \ {Any(s)} \in SUBSET m /\ s \ {Any(s)} # m
      BY <2>1, AnyElement
    <3> HIDE DEF g
    <3> QED
      BY <1>5, <3>1
  <2>2. g = [s \in SUBSET m |-> IF s = {} THEN 0 ELSE f[Any(s)] + g[s \ {Any(s)}]]
    BY <2>1
  <2> QED
    BY <2>2 DEF IsSum
<1> QED
  BY <1>2, <1>6

\* The sum over S is what any function of its sums gives.
LEMMA TotalIs ==
  ASSUME NEW S, IsFiniteSet(S), NEW f, NEW h, \A x \in S : f[x] = h[x],
         NEW g, IsSum(h, S, g)
  PROVE  \A s \in SUBSET S : g[s] = Total(f, s)
<1> TAKE s \in SUBSET S
<1> DEFINE k == CHOOSE p : IsSum(f, s, p)
<1>1. IsFiniteSet(s)
  BY FS_Subset
<1>2. IsSum(f, s, k) /\ Total(f, s) = k[s]
  BY <1>1, SumExists DEF Total
<1> HIDE DEF k
<1>3. g[s] = k[s]
  <2>1. s \in SUBSET s /\ \A x \in s : h[x] = f[x]
    OBVIOUS
  <2> QED
    BY <1>1, <1>2, <2>1, SumsAgree
<1> QED
  BY <1>2, <1>3

\* The sum over nothing is 0, and any element may be taken first.
LEMMA TotalSteps ==
  ASSUME NEW S, IsFiniteSet(S), NEW f, \A x \in S : f[x] \in Int
  PROVE  /\ Total(f, {}) = 0
         /\ Total(f, S) \in Int
         /\ \A x \in S : Total(f, S) = f[x] + Total(f, S \ {x})
<1>1. PICK g : IsSum(f, S, g)
  BY SumExists
<1>2. \A s \in SUBSET S : g[s] = Total(f, s)
  BY <1>1, TotalIs
<1>3. g[{}] = 0
  BY <1>1, Zenon DEF IsSum
<1>4. ASSUME NEW s \in SUBSET S, s # {}
      PROVE  Any(s) \in s /\ g[s] = f[Any(s)] + g[s \ {Any(s)}]
  BY <1>1, <1>4, AnyElement DEF IsSum
<1>5. ASSUME NEW s \in SUBSET S
      PROVE  g[s] \in Int
  <2> DEFINE F == {t \in SUBSET S : g[t] \notin Int}
  <2>1. SUFFICES ASSUME F # {} PROVE FALSE
    BY <1>5
  <2>2. PICK m \in F : \A t \in F : t \subseteq m => t = m
    <3>1. F \subseteq SUBSET S
      OBVIOUS
    <3> HIDE DEF F
    <3> QED
      BY <2>1, <3>1, LeastSubset
  <2>3. m # {}
    <3>1. g[{}] \in Int
      BY <1>3
    <3> QED
      BY <2>2, <3>1
  <2>4. Any(m) \in m /\ g[m] = f[Any(m)] + g[m \ {Any(m)}]
    BY <1>4, <2>2, <2>3
  <2>5. g[m \ {Any(m)}] \in Int
    BY <2>2, <2>4
  <2> QED
    BY <2>2, <2>4, <2>5
<1>6. ASSUME NEW s \in SUBSET S, NEW x \in s
      PROVE  g[s] = f[x] + g[s \ {x}]
  <2> DEFINE F == {t \in SUBSET S : \E y \in t : g[t] # f[y] + g[t \ {y}]}
  <2>1. SUFFICES ASSUME F # {} PROVE FALSE
    BY <1>6
  <2>2. PICK m \in F : \A t \in F : t \subseteq m => t = m
    <3>1. F \subseteq SUBSET S
      OBVIOUS
    <3> HIDE DEF F
    <3> QED
      BY <2>1, <3>1, LeastSubset
  <2>3. PICK y \in m : g[m] # f[y] + g[m \ {y}]
    BY <2>2
  <2>4. m \in SUBSET S
    BY <2>2
  <2>5. PICK z \in m : g[m] = f[z] + g[m \ {z}]
    BY <1>4, <2>4
  <2>6. z # y
    BY <2>3, <2>5
  <2>7. m \ {y} \notin F /\ m \ {z} \notin F
    BY <2>2
  <2>8. g[m \ {y}] = f[z] + g[(m \ {y}) \ {z}]
    BY <2>4, <2>6, <2>7
  <2>9. g[m \ {z}] = f[y] + g[(m \ {z}) \ {y}]
    BY <2>4, <2>6, <2>7
  <2>10. (m \ {y}) \ {z} = (m \ {z}) \ {y}
    OBVIOUS
  <2>11. f[y] \in Int /\ f[z] \in Int /\ g[(m \ {y}) \ {z}] \in Int
    BY <1>5, <2>4
  <2>12. f[z] + (f[y] + g[(m \ {y}) \ {z}]) = f[y] + (f[z] + g[(m \ {y}) \ {z}])
    BY <2>11
  <2> QED
    BY <2>3, <2>5, <2>8, <2>9, <2>10, <2>12, Zenon
<1> QED
  BY <1>2, <1>3, <1>5, <1>6

\* The sum over a set that has one element more.
LEMMA TotalAdd ==
  ASSUME NEW S, IsFiniteSet(S), NEW x, x \notin S, NEW f, \A y \in S \cup {x} : f[y] \in Int
  PROVE  Total(f, S \cup {x}) = f[x] + Total(f, S)
<1>1. IsFiniteSet(S \cup {x}) /\ (S \cup {x}) \ {x} = S
  BY FS_AddElement
<1> QED
  BY <1>1, TotalSteps

\* Only the elements of the set matter.
LEMMA TotalSame ==
  ASSUME NEW S, IsFiniteSet(S), NEW f, NEW h, \A x \in S : f[x] = h[x]
  PROVE  Total(f, S) = Total(h, S)
<1>1. PICK g : IsSum(h, S, g)
  BY SumExists
<1>2. g[S] = Total(f, S)
  BY <1>1, TotalIs
<1>3. g[S] = Total(h, S)
  BY <1>1, TotalIs
<1> QED
  BY <1>2, <1>3
=============================================================================
