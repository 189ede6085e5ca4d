----------------------------- MODULE SumLemmas -----------------------------
(***************************************************************************)
(* What SumFunction of the community modules computes.  It is a recursive   *)
(* function on the subsets of the domain, from which it takes one element   *)
(* after the other by CHOOSE.  The facts below say that the order does not  *)
(* matter; each is proved by looking at a smallest counterexample.         *)
(***************************************************************************)
EXTENDS Functions, FiniteSetTheorems, WellFoundedInduction, TLAPS

Some(S) == CHOOSE x \in S : TRUE

\* The equation of the recursive function over the subsets of S.
IsIter(iter, f, S) ==
    iter = [s \in SUBSET S |-> IF s = {} THEN 0 ELSE f[Some(s)] + iter[s \ {Some(s)}]]

Iter(f, S) == CHOOSE iter : IsIter(iter, f, S)

LEMMA SumIsIter ==
  ASSUME NEW f, NEW S
  PROVE  SumFunctionOnSet(f, S) = Iter(f, S)[S]
  BY DEF SumFunctionOnSet, FoldFunctionOnSet, MapThenFoldSet, Iter, IsIter, Some

-----------------------------------------------------------------------------
(* Smallest counterexamples.                                               *)

LEMMA SmallestNumber ==
  ASSUME NEW T \in SUBSET Nat, T # {}
  PROVE  \E n \in T : \A m \in T : n <= m
  <1> DEFINE Less == {p \in Nat \X Nat : p[1] < p[2]}
  <1>1. IsWellFoundedOn(Less, Nat)
    BY NatLessThanWellFounded, Zenon DEF OpToRel
  <1> HIDE DEF Less
  <1>2. PICK n \in T : \A m \in T : ~ (<<m, n>> \in Less)
    BY <1>1, WFMin
  <1>3. ASSUME NEW m \in T PROVE n <= m
    <2>1. m \in Nat /\ n \in Nat /\ ~ (<<m, n>> \in Less)
      BY <1>2
    <2> QED BY <2>1 DEF Less
  <1> QED BY <1>3

LEMMA RemoveElement ==
  ASSUME NEW S, IsFiniteSet(S), NEW T \in SUBSET S, NEW x \in T
  PROVE  /\ IsFiniteSet(T) /\ Cardinality(T) \in Nat
         /\ IsFiniteSet(T \ {x}) /\ Cardinality(T \ {x}) = Cardinality(T) - 1
  <1>1. IsFiniteSet(T)
    BY FS_Subset
  <1> QED BY <1>1, FS_RemoveElement, FS_CardinalityType

\* Among the subsets of a finite set of which something is false there is one
\* of which it becomes true when any element is taken away.
LEMMA SmallestSubset ==
  ASSUME NEW S, IsFiniteSet(S), NEW Bad \in SUBSET SUBSET S, Bad # {}
  PROVE  \E T \in Bad : \A x \in T : T \ {x} \notin Bad
  <1> DEFINE Sizes == {Cardinality(T) : T \in Bad}
  <1>1. \A T \in Bad : Cardinality(T) \in Nat
    BY FS_Subset, FS_CardinalityType
  <1>2. Sizes \in SUBSET Nat /\ Sizes # {}
    BY <1>1
  <1>3. PICK n \in Sizes : \A m \in Sizes : n <= m
    <2> HIDE DEF Sizes
    <2> QED BY <1>2, SmallestNumber
  <1>4. PICK T \in Bad : Cardinality(T) = n
    OBVIOUS
  <1>5. ASSUME NEW x \in T, T \ {x} \in Bad PROVE FALSE
    <2>1. Cardinality(T \ {x}) = n - 1 /\ n \in Nat
      BY <1>4, RemoveElement
    <2>2. n <= n - 1
      BY <1>3, <1>5, <2>1
    <2> QED BY <2>1, <2>2
  <1> QED BY <1>5

LEMMA SomeIsElement == ASSUME NEW S, S # {} PROVE Some(S) \in S
  BY DEF Some

-----------------------------------------------------------------------------
(* The recursive function exists and satisfies its equation.               *)

\* The subsets of S with at most n elements, and the function on them.
UpTo(S, n) == {s \in SUBSET S : Cardinality(s) <= n}

IsIterUpTo(iter, f, S, n) ==
    iter = [s \in UpTo(S, n) |-> IF s = {} THEN 0 ELSE f[Some(s)] + iter[s \ {Some(s)}]]

LEMMA IterUpToExists ==
  ASSUME NEW f, NEW S, IsFiniteSet(S), NEW n \in Nat
  PROVE  \E iter : IsIterUpTo(iter, f, S, n)
  <1> DEFINE Bad == {m \in Nat : ~ \E iter : IsIterUpTo(iter, f, S, m)}
  <1> SUFFICES ASSUME Bad # {} PROVE FALSE
    OBVIOUS
  <1>1. PICK m \in Bad : \A k \in Bad : m <= k
    <2>1. Bad \in SUBSET Nat
      OBVIOUS
    <2> HIDE DEF Bad
    <2> QED BY <2>1, SmallestNumber
  <1>2. CASE m = 0
    <2> DEFINE g == [s \in UpTo(S, m) |-> 0]
    <2>1. \A s \in UpTo(S, m) : s = {}
      <3> SUFFICES ASSUME NEW s \in UpTo(S, m), s # {} PROVE FALSE
        OBVIOUS
      <3>1. IsFiniteSet(s) /\ Cardinality(s) <= 0 /\ Cardinality(s) \in Nat
        BY <1>2, FS_Subset, FS_CardinalityType DEF UpTo
      <3> QED BY <3>1, FS_EmptySet
    <2>2. IsIterUpTo(g, f, S, m)
      BY <2>1 DEF IsIterUpTo
    <2> QED BY <2>2
  <1>3. CASE m # 0
    <2>1. m - 1 \in Nat /\ m - 1 \notin Bad
      BY <1>1, <1>3
    <2>2. PICK g : IsIterUpTo(g, f, S, m - 1)
      BY <2>1
    <2> DEFINE h == [s \in UpTo(S, m) |->
                       IF s = {} THEN 0 ELSE f[Some(s)] + g[s \ {Some(s)}]]
    <2>3. \A t \in UpTo(S, m - 1) : t \in UpTo(S, m) /\ h[t] = g[t]
      <3>1. \A t \in UpTo(S, m - 1) : t \in UpTo(S, m)
        <4> SUFFICES ASSUME NEW t \in UpTo(S, m - 1) PROVE t \in UpTo(S, m)
          OBVIOUS
        <4>1. Cardinality(t) \in Nat
          BY FS_Subset, FS_CardinalityType DEF UpTo
        <4> QED BY <1>1, <4>1 DEF UpTo
      <3>2. \A t \in UpTo(S, m - 1) :
              g[t] = IF t = {} THEN 0 ELSE f[Some(t)] + g[t \ {Some(t)}]
        BY <2>2 DEF IsIterUpTo
      <3> QED BY <3>1, <3>2
    <2>4. ASSUME NEW s \in UpTo(S, m), s # {}
          PROVE  s \ {Some(s)} \in UpTo(S, m - 1)
      <3>1. Some(s) \in s /\ s \in SUBSET S
        BY <2>4, SomeIsElement DEF UpTo
      <3>2. Cardinality(s \ {Some(s)}) = Cardinality(s) - 1 /\ Cardinality(s) \in Nat
        BY <3>1, RemoveElement
      <3> QED BY <1>1, <3>1, <3>2 DEF UpTo
    <2>5. IsIterUpTo(h, f, S, m)
      <3>1. \A s \in UpTo(S, m) :
              h[s] = IF s = {} THEN 0 ELSE f[Some(s)] + h[s \ {Some(s)}]
        BY <2>3, <2>4
      <3>2. h = [s \in UpTo(S, m) |-> h[s]]
        OBVIOUS
      <3> HIDE DEF h
      <3> QED BY <3>1, <3>2 DEF IsIterUpTo
    <2> QED BY <2>5
  <1> QED BY <1>2, <1>3

LEMMA IterIsIter ==
  ASSUME NEW f, NEW S, IsFiniteSet(S)
  PROVE  IsIter(Iter(f, S), f, S)
  <1>1. Cardinality(S) \in Nat
    BY FS_CardinalityType
  <1>2. UpTo(S, Cardinality(S)) = SUBSET S
    BY FS_Subset DEF UpTo
  <1>3. PICK g : IsIterUpTo(g, f, S, Cardinality(S))
    BY <1>1, IterUpToExists
  <1>4. IsIter(g, f, S)
    BY <1>2, <1>3 DEF IsIter, IsIterUpTo
  <1> QED BY <1>4 DEF Iter

\* The same, without the tests.
Steps(iter, f, S) ==
    /\ \A T \in SUBSET S : T = {} => iter[T] = 0
    /\ \A T \in SUBSET S : T # {} => iter[T] = f[Some(T)] + iter[T \ {Some(T)}]

LEMMA IterSteps ==
  ASSUME NEW f, NEW S, IsFiniteSet(S)
  PROVE  Steps(Iter(f, S), f, S)
  <1> DEFINE iter == Iter(f, S)
  <1>1. IsIter(iter, f, S)
    BY IterIsIter
  <1> HIDE DEF iter
  <1>2. \A T \in SUBSET S : T = {} => iter[T] = 0
    BY <1>1 DEF IsIter
  <1>3. \A T \in SUBSET S : T # {} => iter[T] = f[Some(T)] + iter[T \ {Some(T)}]
    BY <1>1 DEF IsIter
  <1>4. Steps(iter, f, S)
    BY <1>2, <1>3, Zenon DEF Steps
  <1> QED BY <1>4 DEF iter

-----------------------------------------------------------------------------
(* The value does not depend on the order of the elements.                 *)

LEMMA IterType ==
  ASSUME NEW S, IsFiniteSet(S), NEW f \in [S -> Int], NEW T \in SUBSET S
  PROVE  Iter(f, S)[T] \in Int
  <1> DEFINE iter == Iter(f, S)
             Bad == {U \in SUBSET S : iter[U] \notin Int}
  <1>1. Steps(iter, f, S)
    BY IterSteps
  <1> HIDE DEF iter
  <1>2. SUFFICES ASSUME Bad # {} PROVE FALSE
    BY DEF iter
  <1>3. PICK U \in Bad : \A x \in U : U \ {x} \notin Bad
    <2>1. Bad \in SUBSET SUBSET S
      OBVIOUS
    <2> HIDE DEF Bad
    <2> QED BY <1>2, <2>1, SmallestSubset
  <1>4. U # {}
    <2>1. 0 \in Int
      OBVIOUS
    <2> QED BY <1>1, <2>1, Zenon DEF Steps
  <1>5. Some(U) \in U
    BY <1>4, SomeIsElement
  <1>6. iter[U \ {Some(U)}] \in Int /\ f[Some(U)] \in Int
    BY <1>3, <1>5
  <1>7. iter[U] = f[Some(U)] + iter[U \ {Some(U)}]
    BY <1>1, <1>4, Zenon DEF Steps
  <1> QED BY <1>6, <1>7

\* Any element may be the one that is taken first.
Removes(iter, f, S) ==
    \A T \in SUBSET S : \A x \in T : iter[T] = f[x] + iter[T \ {x}]

LEMMA IterRemoves ==
  ASSUME NEW S, IsFiniteSet(S), NEW f \in [S -> Int]
  PROVE  Removes(Iter(f, S), f, S)
  <1> DEFINE iter == Iter(f, S)
             Bad == {U \in SUBSET S : \E z \in U : iter[U] # f[z] + iter[U \ {z}]}
  <1>1. Steps(iter, f, S)
    BY IterSteps
  <1>2. \A U \in SUBSET S : iter[U] \in Int
    BY IterType
  <1> HIDE DEF iter
  <1>3. SUFFICES ASSUME Bad # {} PROVE FALSE
    BY DEF iter, Removes
  <1>4. PICK U \in Bad : \A z \in U : U \ {z} \notin Bad
    <2>1. Bad \in SUBSET SUBSET S
      OBVIOUS
    <2> HIDE DEF Bad
    <2> QED BY <1>3, <2>1, SmallestSubset
  <1>5. PICK z \in U : iter[U] # f[z] + iter[U \ {z}]
    OBVIOUS
  <1> DEFINE y == Some(U)
  <1>6. y \in U /\ iter[U] = f[y] + iter[U \ {y}]
    BY <1>1, SomeIsElement, Zenon DEF Steps
  <1> HIDE DEF y
  <1>7. y # z
    BY <1>5, <1>6
  <1>8. iter[U \ {y}] = f[z] + iter[(U \ {y}) \ {z}]
    BY <1>4, <1>6, <1>7
  <1>9. iter[U \ {z}] = f[y] + iter[(U \ {z}) \ {y}]
    BY <1>4, <1>6, <1>7
  <1>10. (U \ {y}) \ {z} = (U \ {z}) \ {y}
    OBVIOUS
  <1>11. f[y] \in Int /\ f[z] \in Int /\ iter[(U \ {z}) \ {y}] \in Int
    BY <1>2, <1>6
  <1>12. iter[U] = f[y] + (f[z] + iter[(U \ {z}) \ {y}])
    BY <1>6, <1>8, <1>10, Zenon
  <1>13. f[z] + iter[U \ {z}] = f[z] + (f[y] + iter[(U \ {z}) \ {y}])
    BY <1>9, Zenon
  <1>14. \A i, j, k \in Int : i + (j + k) = j + (i + k)
    OBVIOUS
  <1> QED BY <1>5, <1>11, <1>12, <1>13, <1>14, Zenon

\* The elements may be renamed.
LEMMA IterRenamed ==
  ASSUME NEW S, IsFiniteSet(S), NEW T, IsFiniteSet(T),
         NEW f \in [T -> Int], NEW g \in [S -> Int], NEW b \in [S -> T],
         \A s, t \in S : b[s] = b[t] => s = t,
         \A s \in S : g[s] = f[b[s]],
         NEW U \in SUBSET S
  PROVE  Iter(g, S)[U] = Iter(f, T)[{b[s] : s \in U}]
  <1> DEFINE of == Iter(f, T)
             og == Iter(g, S)
             image(V) == {b[s] : s \in V}
             Bad == {V \in SUBSET S : og[V] # of[image(V)]}
  <1>1. Removes(og, g, S)
    BY IterRemoves
  <1>2. Removes(of, f, T)
    BY IterRemoves
  <1>3. og[{}] = 0 /\ of[{}] = 0
    BY IterSteps DEF Steps
  <1> HIDE DEF of, og
  <1>4. SUFFICES ASSUME Bad # {} PROVE FALSE
    BY DEF of, og
  <1>5. PICK V \in Bad : \A x \in V : V \ {x} \notin Bad
    <2>1. Bad \in SUBSET SUBSET S
      OBVIOUS
    <2> HIDE DEF Bad
    <2> QED BY <1>4, <2>1, SmallestSubset
  <1>6. CASE V = {}
    BY <1>3, <1>6
  <1>7. CASE V # {}
    <2>1. PICK x \in V : TRUE
      BY <1>7
    <2>2. og[V \ {x}] = of[image(V \ {x})]
      BY <1>5
    <2>3. image(V) \ {b[x]} = image(V \ {x})
      OBVIOUS
    <2>4. image(V) \in SUBSET T /\ b[x] \in image(V)
      OBVIOUS
    <2>5. of[image(V)] = f[b[x]] + of[image(V \ {x})]
      BY <1>2, <2>3, <2>4 DEF Removes
    <2>6. og[V] = g[x] + og[V \ {x}]
      BY <1>1 DEF Removes
    <2> QED BY <2>2, <2>5, <2>6
  <1> QED BY <1>6, <1>7

-----------------------------------------------------------------------------
(* The sum of a function.                                                  *)

LEMMA SumIsInteger ==
  ASSUME NEW S, IsFiniteSet(S), NEW f \in [S -> Int]
  PROVE  SumFunction(f) \in Int
  BY SumIsIter, IterType DEF SumFunction

LEMMA SumOfNothing == ASSUME NEW f \in [{} -> Int] PROVE SumFunction(f) = 0
  BY SumIsIter, IterSteps, FS_EmptySet DEF SumFunction, Steps

\* b is a bijection under which g and f have the same values.
Renames(b, g, f) ==
    /\ b \in [DOMAIN g -> DOMAIN f]
    /\ \A s, t \in DOMAIN g : b[s] = b[t] => s = t
    /\ \A t \in DOMAIN f : \E s \in DOMAIN g : t = b[s]
    /\ \A s \in DOMAIN g : g[s] = f[b[s]]

LEMMA SumRenamed ==
  ASSUME NEW S, IsFiniteSet(S), NEW T, IsFiniteSet(T),
         NEW f \in [T -> Int], NEW g \in [S -> Int], NEW b, Renames(b, g, f)
  PROVE  SumFunction(g) = SumFunction(f)
  <1>1. T = {b[s] : s \in S}
    BY DEF Renames
  <1>2. Iter(g, S)[S] = Iter(f, T)[{b[s] : s \in S}]
    BY IterRenamed DEF Renames
  <1> QED BY <1>1, <1>2, SumIsIter DEF SumFunction

\* Any one value can be taken out of the sum.
Without(f, x) == [s \in DOMAIN f \ {x} |-> f[s]]

LEMMA SumWithout ==
  ASSUME NEW S, IsFiniteSet(S), NEW f \in [S -> Int], NEW x \in S
  PROVE  /\ SumFunction(f) = f[x] + SumFunction(Without(f, x))
         /\ SumFunction(Without(f, x)) \in Int
  <1> DEFINE T == S \ {x}
             g == Without(f, x)
             b == [s \in T |-> s]
  <1>1. IsFiniteSet(T) /\ g \in [T -> Int]
    BY FS_Subset DEF Without
  <1>2. Iter(g, T)[T] = Iter(f, S)[{b[s] : s \in T}]
    <2>1. b \in [T -> S]
      OBVIOUS
    <2>2. /\ \A s, t \in T : b[s] = b[t] => s = t
          /\ \A s \in T : g[s] = f[b[s]]
      BY DEF Without
    <2> HIDE DEF b, T, g
    <2> QED BY <1>1, <2>1, <2>2, IterRenamed
  <1>3. {b[s] : s \in T} = S \ {x}
    OBVIOUS
  <1>4. Iter(f, S)[S] = f[x] + Iter(f, S)[S \ {x}]
    BY IterRemoves DEF Removes
  <1> HIDE DEF g, b, T
  <1>5. SumFunction(g) = Iter(g, T)[T] /\ SumFunction(f) = Iter(f, S)[S]
    BY <1>1, SumIsIter DEF SumFunction
  <1>6. SumFunction(f) = f[x] + SumFunction(g)
    BY <1>2, <1>3, <1>4, <1>5 DEF T
  <1>7. SumFunction(g) \in Int
    BY <1>1, SumIsInteger
  <1> QED BY <1>6, <1>7 DEF g

\* Changing one value changes the sum by as much.
LEMMA SumAfterChange ==
  ASSUME NEW S, IsFiniteSet(S), NEW f \in [S -> Int], NEW g \in [S -> Int], NEW x \in S,
         Without(f, x) = Without(g, x)
  PROVE  SumFunction(g) = SumFunction(f) - f[x] + g[x]
  <1> DEFINE rest == SumFunction(Without(f, x))
  <1>1. SumFunction(f) = f[x] + rest /\ rest \in Int
    BY SumWithout
  <1>2. SumFunction(g) = g[x] + rest
    BY SumWithout
  <1>3. f[x] \in Int /\ g[x] \in Int
    OBVIOUS
  <1> HIDE DEF rest
  <1> QED BY <1>1, <1>2, <1>3

\* Terms that are no smaller give a sum that is no smaller.
LEMMA SumIsMonotone ==
  ASSUME NEW S, IsFiniteSet(S), NEW f \in [S -> Int], NEW g \in [S -> Int],
         \A x \in S : f[x] <= g[x]
  PROVE  SumFunction(f) <= SumFunction(g)
  <1> DEFINE lower == Iter(f, S)
             upper == Iter(g, S)
             Bad == {U \in SUBSET S : ~ (lower[U] <= upper[U])}
  <1>1. Removes(lower, f, S) /\ Removes(upper, g, S)
    BY IterRemoves
  <1>2. lower[{}] = 0 /\ upper[{}] = 0 /\ SumFunction(f) = lower[S] /\ SumFunction(g) = upper[S]
    BY IterSteps, SumIsIter DEF SumFunction, Steps
  <1>3. \A U \in SUBSET S : lower[U] \in Int /\ upper[U] \in Int
    BY IterType
  <1> HIDE DEF lower, upper
  <1>4. ASSUME Bad # {} PROVE FALSE
    <2>1. PICK U \in Bad : \A x \in U : U \ {x} \notin Bad
      <3>1. Bad \in SUBSET SUBSET S
        OBVIOUS
      <3> HIDE DEF Bad
      <3> QED BY <1>4, <3>1, SmallestSubset
    <2>2. PICK x \in U : TRUE
      BY <1>2
    <2>3. lower[U \ {x}] <= upper[U \ {x}] /\ f[x] <= g[x]
      BY <2>1
    <2>4. lower[U] = f[x] + lower[U \ {x}] /\ upper[U] = g[x] + upper[U \ {x}]
      BY <1>1 DEF Removes
    <2>5. lower[U \ {x}] \in Int /\ upper[U \ {x}] \in Int /\ f[x] \in Int /\ g[x] \in Int
      BY <1>3
    <2> QED BY <2>3, <2>4, <2>5
  <1> QED BY <1>2, <1>4

\* If one of them is greater, so is the sum.
LEMMA SumGrows ==
  ASSUME NEW S, IsFiniteSet(S), NEW f \in [S -> Int], NEW g \in [S -> Int],
         \A x \in S : f[x] <= g[x], NEW y \in S, f[y] < g[y]
  PROVE  SumFunction(f) + 1 <= SumFunction(g)
  <1> DEFINE h == [g EXCEPT ![y] = g[y] - 1]
  <1>1. h \in [S -> Int] /\ \A x \in S : f[x] <= h[x]
    OBVIOUS
  <1>2. h[y] = g[y] - 1 /\ Without(g, y) = Without(h, y)
    BY DEF Without
  <1> HIDE DEF h
  <1>3. SumFunction(f) <= SumFunction(h)
    BY <1>1, SumIsMonotone
  <1>4. SumFunction(h) = SumFunction(g) - g[y] + h[y]
    BY <1>1, <1>2, SumAfterChange
  <1>5. SumFunction(f) \in Int /\ SumFunction(g) \in Int /\ SumFunction(h) \in Int /\ g[y] \in Int
    BY <1>1, SumIsInteger
  <1> QED BY <1>2, <1>3, <1>4, <1>5

LEMMA SumOfNaturals ==
  ASSUME NEW S, IsFiniteSet(S), NEW f \in [S -> Nat]
  PROVE  SumFunction(f) \in Nat /\ \A x \in S : f[x] <= SumFunction(f)
  <1>0. f \in [S -> Int]
    OBVIOUS
  <1> DEFINE iter == Iter(f, S)
             Bad == {U \in SUBSET S : iter[U] \notin Nat}
  <1>1. Removes(iter, f, S)
    BY <1>0, IterRemoves
  <1>2. iter[{}] = 0 /\ SumFunction(f) = iter[S]
    BY IterSteps, SumIsIter DEF SumFunction, Steps
  <1> HIDE DEF iter
  <1>3. ASSUME Bad # {} PROVE FALSE
    <2>1. PICK U \in Bad : \A x \in U : U \ {x} \notin Bad
      <3>1. Bad \in SUBSET SUBSET S
        OBVIOUS
      <3> HIDE DEF Bad
      <3> QED BY <1>3, <3>1, SmallestSubset
    <2>2. PICK x \in U : TRUE
      BY <1>2
    <2>3. iter[U \ {x}] \in Nat /\ f[x] \in Nat
      BY <2>1
    <2>4. iter[U] = f[x] + iter[U \ {x}]
      BY <1>1 DEF Removes
    <2> QED BY <2>3, <2>4
  <1>4. \A U \in SUBSET S : iter[U] \in Nat
    BY <1>3
  <1>5. ASSUME NEW x \in S PROVE f[x] <= iter[S]
    <2>1. iter[S] = f[x] + iter[S \ {x}] /\ iter[S \ {x}] \in Nat
      BY <1>1, <1>4 DEF Removes
    <2> QED BY <2>1
  <1> QED BY <1>2, <1>4, <1>5
LEMMA SumOfZeros ==
  ASSUME NEW S, IsFiniteSet(S), NEW f \in [S -> Int], \A x \in S : f[x] = 0
  PROVE  SumFunction(f) = 0
  <1> DEFINE iter == Iter(f, S)
             Bad == {U \in SUBSET S : iter[U] # 0}
  <1>1. Removes(iter, f, S) /\ iter[{}] = 0 /\ SumFunction(f) = iter[S]
    BY IterRemoves, IterSteps, SumIsIter DEF SumFunction, Steps
  <1> HIDE DEF iter
  <1>2. ASSUME Bad # {} PROVE FALSE
    <2>1. PICK U \in Bad : \A x \in U : U \ {x} \notin Bad
      <3>1. Bad \in SUBSET SUBSET S
        OBVIOUS
      <3> HIDE DEF Bad
      <3> QED BY <1>2, <3>1, SmallestSubset
    <2>2. PICK x \in U : TRUE
      BY <1>1
    <2>3. iter[U] = f[x] + iter[U \ {x}]
      BY <1>1 DEF Removes
    <2>4. iter[U \ {x}] = 0 /\ f[x] = 0
      BY <2>1
    <2> QED BY <2>3, <2>4
  <1> QED BY <1>1, <1>2

\* Naturals: leaving values out does not make the sum larger.
LEMMA SumOfPart ==
  ASSUME NEW S, IsFiniteSet(S), NEW f \in [S -> Nat], NEW R \in SUBSET S,
         NEW g \in [R -> Nat], \A r \in R : g[r] = f[r]
  PROVE  SumFunction(g) <= SumFunction(f)
  <1> DEFINE iter == Iter(f, S)
             b == [r \in R |-> r]
             Bad == {U \in SUBSET S : \E V \in SUBSET U : ~ (iter[V] <= iter[U])}
  <1>0. IsFiniteSet(R) /\ f \in [S -> Int] /\ g \in [R -> Int] /\ b \in [R -> S]
    BY FS_Subset
  <1>1. Removes(iter, f, S) /\ \A U \in SUBSET S : iter[U] \in Int
    BY <1>0, IterRemoves, IterType
  <1>2. Iter(g, R)[R] = iter[{b[r] : r \in R}]
    <2>1. /\ \A r, s \in R : b[r] = b[s] => r = s
          /\ \A r \in R : g[r] = f[b[r]]
      OBVIOUS
    <2> HIDE DEF b
    <2> QED BY <1>0, <2>1, IterRenamed
  <1>3. {b[r] : r \in R} = R
    OBVIOUS
  <1>4. SumFunction(g) = Iter(g, R)[R] /\ SumFunction(f) = iter[S]
    BY <1>0, SumIsIter DEF SumFunction
  <1> HIDE DEF iter, b
  <1>5. ASSUME Bad # {} PROVE FALSE
    <2>1. PICK U \in Bad : \A x \in U : U \ {x} \notin Bad
      <3>1. Bad \in SUBSET SUBSET S
        OBVIOUS
      <3> HIDE DEF Bad
      <3> QED BY <1>5, <3>1, SmallestSubset
    <2>2. PICK V \in SUBSET U : ~ (iter[V] <= iter[U])
      OBVIOUS
    <2>3. PICK x \in U : x \notin V
      <3>1. iter[U] <= iter[U]
        BY <1>1
      <3>2. V # U
        BY <2>2, <3>1
      <3> QED BY <3>2
    <2>4. iter[V] <= iter[U \ {x}] /\ iter[U \ {x}] \in Int /\ f[x] \in Nat
      BY <1>1, <2>1, <2>3
    <2>5. iter[U] = f[x] + iter[U \ {x}]
      BY <1>1 DEF Removes
    <2>6. iter[V] \in Int
      BY <1>1
    <2> QED BY <2>2, <2>4, <2>5, <2>6
  <1>6. iter[R] <= iter[S]
    BY <1>5
  <1> QED BY <1>2, <1>3, <1>4, <1>6

-----------------------------------------------------------------------------
(* The sum over the positions of a sequence.                               *)

LEMMA SumWithLast ==
  ASSUME NEW n \in Nat, NEW f \in [1 .. n -> Int], NEW g \in [1 .. n + 1 -> Int],
         \A i \in 1 .. n : g[i] = f[i]
  PROVE  SumFunction(g) = SumFunction(f) + g[n + 1]
  <1> DEFINE S == 1 .. n
             T == 1 .. n + 1
             m == n + 1
  <1>1. IsFiniteSet(S) /\ IsFiniteSet(T)
    BY FS_Interval
  <1>2. S = T \ {m} /\ m \in T /\ f \in [S -> Int] /\ g \in [T -> Int] /\ g[m] \in Int
    OBVIOUS
  <1>3. \A s \in S : f[s] = g[s]
    OBVIOUS
  <1>4. SumFunction(g) = g[m] + SumFunction(f)
    <2> HIDE DEF S, T, m
    <2>1. f = Without(g, m)
      BY <1>2, <1>3 DEF Without
    <2> QED BY <1>1, <1>2, <2>1, SumWithout
  <1>5. SumFunction(f) \in Int
    <2> HIDE DEF S
    <2> QED BY <1>1, <1>2, SumIsInteger
  <1> QED BY <1>2, <1>4, <1>5

\* The place of what is at i when the element at p is taken out.
Before(i, p) == IF i < p THEN i ELSE i + 1

LEMMA SumWithoutOne ==
  ASSUME NEW n \in Nat, NEW f \in [1 .. n -> Int], NEW p \in 1 .. n,
         NEW g \in [1 .. n - 1 -> Int], \A i \in 1 .. n - 1 : g[i] = f[Before(i, p)]
  PROVE  SumFunction(g) = SumFunction(f) - f[p]
  <1> DEFINE S == 1 .. n - 1
             U == 1 .. n
             T == U \ {p}
             h == Without(f, p)
             b == [s \in S |-> Before(s, p)]
  <1>1. IsFiniteSet(U) /\ IsFiniteSet(S) /\ IsFiniteSet(T)
    <2>1. IsFiniteSet(U) /\ IsFiniteSet(S)
      <3>1. 1 \in Int /\ n \in Int /\ n - 1 \in Int
        OBVIOUS
      <3> QED BY <3>1, FS_Interval
    <2>2. T \subseteq U
      OBVIOUS
    <2> HIDE DEF U, T
    <2> QED BY <2>1, <2>2, FS_Subset
  <1>2. b \in [S -> T] /\ h \in [T -> Int] /\ \A s \in S : g[s] = h[b[s]]
    BY DEF Before, Without
  <1>3. \A s, t \in S : b[s] = b[t] => s = t
    BY DEF Before
  <1>4. ASSUME NEW t \in T PROVE \E s \in S : t = b[s]
    <2>1. CASE t < p
      BY <2>1 DEF Before
    <2>2. CASE t > p
      <3>1. t - 1 \in S /\ b[t - 1] = t
        BY <2>2 DEF Before
      <3> QED BY <3>1
    <2> QED BY <2>1, <2>2
  <1>5. f \in [U -> Int] /\ p \in U /\ g \in [S -> Int] /\ f[p] \in Int
    OBVIOUS
  <1>6. SumFunction(f) = f[p] + SumFunction(h)
    <2> HIDE DEF U
    <2> QED BY <1>1, <1>5, SumWithout
  <1>7. SumFunction(g) = SumFunction(h) /\ SumFunction(h) \in Int
    <2> HIDE DEF S, T, h, b
    <2>0. Renames(b, g, h)
      BY <1>2, <1>3, <1>4, <1>5 DEF Renames
    <2>1. SumFunction(g) = SumFunction(h)
      BY <1>1, <1>2, <1>5, <2>0, SumRenamed
    <2> QED BY <1>1, <1>2, <2>1, SumIsInteger
  <1> QED BY <1>5, <1>6, <1>7
=============================================================================
