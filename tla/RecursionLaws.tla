---------------------------- MODULE RecursionLaws ----------------------------
(***************************************************************************)
(* Laws of definitions by recursion: induction over numbers, measures,     *)
(* subsets and sequences, with the property given as the set of what has   *)
(* it; the existence of a function that a recursive equation defines; and  *)
(* with both, laws of the sums and the selections that the models use.     *)
(***************************************************************************)
EXTENDS Integers, FiniteSets, Functions, Selection, FiniteSetTheorems, SequenceTheorems,
        WellFoundedInduction, TLAPS

\* A set that holds 0, and with a number its successor, holds every number.
THEOREM SetInduction ==
  ASSUME NEW S, 0 \in S, \A n \in Nat : n \in S => n + 1 \in S
  PROVE  Nat \subseteq S
<1> DEFINE Out == Nat \ S
<1>1. SUFFICES ASSUME Out # {} PROVE FALSE
  OBVIOUS
<1>2. PICK n \in Out : \A k \in Out : ~(<<k, n>> \in OpToRel(<, Nat))
  BY <1>1, NatLessThanWellFounded, WFMin
<1>3. n # 0 /\ n - 1 \in Nat /\ n - 1 < n
  OBVIOUS
<1>4. n - 1 \notin Out
  BY <1>2, <1>3 DEF OpToRel
<1> QED
  BY <1>3, <1>4

\* A set that holds an element as soon as it holds all smaller ones holds every one.
THEOREM MeasureInduction ==
  ASSUME NEW D, NEW size \in [D -> Nat], NEW S,
         \A x \in D : (\A y \in D : size[y] < size[x] => y \in S) => x \in S
  PROVE  D \subseteq S
<1> DEFINE Below == {n \in Nat : \A x \in D : size[x] < n => x \in S}
<1>1. 0 \in Below
  OBVIOUS
<1>2. ASSUME NEW n \in Nat, n \in Below PROVE n + 1 \in Below
  <2>1. ASSUME NEW x \in D, size[x] < n + 1 PROVE x \in S
    <3>1. \A y \in D : size[y] < size[x] => y \in S
      BY <1>2, <2>1
    <3> QED
      BY <3>1
  <2> QED
    BY <2>1
<1>3. Nat \subseteq Below
  <2> HIDE DEF Below
  <2> QED
    BY <1>1, <1>2, SetInduction
<1>4. ASSUME NEW x \in D PROVE x \in S
  <2>1. size[x] + 1 \in Below
    BY <1>3
  <2> QED
    BY <2>1
<1> QED
  BY <1>4

\* A set of elements with a measure has a least one.
THEOREM MinimumExists ==
  ASSUME NEW D, NEW size \in [D -> Nat], D # {}
  PROVE  \E x \in D : \A y \in D : size[x] <= size[y]
<1> SUFFICES ASSUME \A x \in D : \E y \in D : ~(size[x] <= size[y]) PROVE FALSE
  OBVIOUS
<1> DEFINE None == {}
<1>1. ASSUME NEW x \in D, \A y \in D : size[y] < size[x] => y \in None PROVE x \in None
  BY <1>1
<1>2. D \subseteq None
  <2> HIDE DEF None
  <2> QED
    BY <1>1, MeasureInduction
<1> QED
  BY <1>2

\* A recursive equation f = body[f] over D: what body makes of an element depends
\* on the function's values at smaller elements only.
IsRecursion(D, V, size, body) ==
  /\ size \in [D -> Nat]
  /\ body \in [[D -> V] -> [D -> V]]
  /\ \A f, g \in [D -> V] : \A x \in D :
       (\A y \in D : size[y] < size[x] => f[y] = g[y]) => body[f][x] = body[g][x]

HasSolution(D, V, body) == \E f \in [D -> V] : f = body[f]

\* Such an equation has a solution.
THEOREM RecursionExists ==
  ASSUME NEW D, NEW V, NEW some \in V, NEW size, NEW body, IsRecursion(D, V, size, body)
  PROVE  HasSolution(D, V, body)
<1> USE DEF IsRecursion
<1> DEFINE Solves(f, n) == \A x \in D : size[x] < n => f[x] = body[f][x]
           Solvable == {n \in Nat : \E f \in [D -> V] : Solves(f, n)}
\* Up to any measure there is a partial solution: apply body once more.
<1>1. 0 \in Solvable
  <2> DEFINE const == [x \in D |-> some]
  <2>1. const \in [D -> V] /\ Solves(const, 0)
    OBVIOUS
  <2> HIDE DEF const, Solves
  <2> QED
    BY <2>1
<1>2. ASSUME NEW n \in Nat, n \in Solvable PROVE n + 1 \in Solvable
  <2>1. PICK f \in [D -> V] : Solves(f, n)
    BY <1>2
  <2>2. body[f] \in [D -> V]
    OBVIOUS
  <2>3. ASSUME NEW x \in D, size[x] < n + 1 PROVE body[f][x] = body[body[f]][x]
    <3>1. \A y \in D : size[y] < size[x] => f[y] = body[f][y]
      BY <2>1, <2>3
    <3> QED
      BY <2>2, <3>1
  <2>4. Solves(body[f], n + 1)
    BY <2>3
  <2> QED
    BY <2>2, <2>4
<1>3. Nat \subseteq Solvable
  <2> HIDE DEF Solvable
  <2> QED
    BY <1>1, <1>2, SetInduction
\* Two partial solutions agree where both are defined.
<1>4. ASSUME NEW f \in [D -> V], NEW g \in [D -> V], NEW n \in Nat, NEW k \in Nat,
             Solves(f, n), Solves(g, k),
             NEW x \in D, size[x] < n, size[x] < k
      PROVE  f[x] = g[x]
  <2> DEFINE Agree == {y \in D : size[y] < n /\ size[y] < k => f[y] = g[y]}
  <2>1. ASSUME NEW z \in D, \A y \in D : size[y] < size[z] => y \in Agree
        PROVE  z \in Agree
    <3>1. SUFFICES ASSUME size[z] < n, size[z] < k PROVE f[z] = g[z]
      OBVIOUS
    <3>2. \A y \in D : size[y] < size[z] => f[y] = g[y]
      BY <2>1, <3>1
    <3>3. body[f][z] = body[g][z]
      BY <3>2
    <3> QED
      BY <1>4, <3>1, <3>3
  <2>2. D \subseteq Agree
    <3> HIDE DEF Agree
    <3> QED
      BY <2>1, MeasureInduction
  <2> QED
    BY <1>4, <2>2
<1> DEFINE Part(n) == CHOOSE f \in [D -> V] : Solves(f, n)
           limit == [x \in D |-> Part(size[x] + 1)[x]]
<1>5. ASSUME NEW n \in Nat PROVE Part(n) \in [D -> V] /\ Solves(Part(n), n)
  <2>1. \E f \in [D -> V] : Solves(f, n)
    BY <1>3
  <2> HIDE DEF Solves
  <2> QED
    BY <2>1
<1>6. limit \in [D -> V]
  <2>1. ASSUME NEW x \in D PROVE Part(size[x] + 1)[x] \in V
    <3> HIDE DEF Part, Solves
    <3>1. Part(size[x] + 1) \in [D -> V]
      BY <1>5
    <3> QED
      BY <3>1
  <2> HIDE DEF Part
  <2> QED
    BY <2>1
<1>7. ASSUME NEW x \in D PROVE limit[x] = body[limit][x]
  <2> DEFINE n == size[x] + 1
  <2>1. n \in Nat /\ size[x] < n
    OBVIOUS
  <2>2. Part(n) \in [D -> V] /\ Solves(Part(n), n)
    BY <1>5, <2>1
  <2>3. ASSUME NEW y \in D, size[y] < size[x] PROVE limit[y] = Part(n)[y]
    <3>1. size[y] + 1 \in Nat /\ size[y] < size[y] + 1 /\ size[y] < n
      BY <2>3
    <3>2. Part(size[y] + 1) \in [D -> V] /\ Solves(Part(size[y] + 1), size[y] + 1)
      BY <1>5, <3>1
    <3> HIDE DEF Part, Solves, n
    <3> QED
      BY <1>4, <2>1, <2>2, <3>1, <3>2
  <2>4. body[limit][x] = body[Part(n)][x]
    <3> HIDE DEF limit, Part
    <3> QED
      BY <1>6, <2>2, <2>3
  <2>5. Part(n)[x] = body[Part(n)][x]
    <3> HIDE DEF Part
    <3> QED
      BY <2>1, <2>2
  <2> QED
    BY <2>4, <2>5
<1>8. limit = body[limit]
  <2> HIDE DEF limit
  <2>1. body[limit] \in [D -> V]
    BY <1>6
  <2> QED
    BY <1>6, <1>7, <2>1
<1> QED
  BY <1>6, <1>8 DEF HasSolution
----------------------------------------------------------------------------
\* The size of the subsets of a finite set, for MeasureInduction over them.
Sizes(S) == [T \in SUBSET S |-> Cardinality(T)]

\* Sizes are numbers, and a set without one of its elements is smaller.
LEMMA SizesOfSubsets ==
  ASSUME NEW S, IsFiniteSet(S)
  PROVE  /\ Sizes(S) \in [SUBSET S -> Nat]
         /\ \A T \in SUBSET S : \A x \in T :
              T \ {x} \in SUBSET S /\ Sizes(S)[T \ {x}] < Sizes(S)[T]
<1>1. ASSUME NEW T \in SUBSET S PROVE IsFiniteSet(T) /\ Cardinality(T) \in Nat
  BY FS_Subset, FS_CardinalityType
<1>2. ASSUME NEW T \in SUBSET S, NEW x \in T
      PROVE  T \ {x} \in SUBSET S /\ Cardinality(T \ {x}) < Cardinality(T)
  BY <1>1, FS_RemoveElement
<1> QED
  BY <1>1, <1>2 DEF Sizes

\* A set of sets that holds a subset of S as soon as it holds the subset without
\* any one of its elements.
IsSubsetInductive(S, Q) ==
  \A T \in SUBSET S : (\A x \in T : T \ {x} \in Q) => T \in Q

\* Such a set of sets holds every subset of S.
LEMMA SubsetInduction ==
  ASSUME NEW S, IsFiniteSet(S), NEW Q, IsSubsetInductive(S, Q)
  PROVE  SUBSET S \subseteq Q
<1> DEFINE D == SUBSET S
           size == Sizes(S)
<1>1. size \in [D -> Nat]
  BY SizesOfSubsets
<1>2. ASSUME NEW T \in D, \A U \in D : size[U] < size[T] => U \in Q PROVE T \in Q
  <2>1. ASSUME NEW x \in T PROVE T \ {x} \in Q
    BY <1>2, SizesOfSubsets
  <2> QED
    BY <2>1 DEF IsSubsetInductive
<1> HIDE DEF D, size
<1>3. D \subseteq Q
  BY <1>1, <1>2, MeasureInduction
<1> QED
  BY <1>3 DEF D

\* A finite set of elements with a measure has a greatest one.
LEMMA MaximumExists ==
  ASSUME NEW S, IsFiniteSet(S), NEW size \in [S -> Nat], S # {}
  PROVE  \E x \in S : \A y \in S : size[y] <= size[x]
<1> DEFINE Bounded == {T \in SUBSET S : T # {} => \E x \in T : \A y \in T : size[y] <= size[x]}
<1>1. ASSUME NEW T \in SUBSET S, \A x \in T : T \ {x} \in Bounded PROVE T \in Bounded
  <2> SUFFICES ASSUME NEW e \in T PROVE \E x \in T : \A y \in T : size[y] <= size[x]
    OBVIOUS
  <2>1. CASE T \ {e} = {}
    BY <2>1
  <2>2. CASE T \ {e} # {}
    <3>1. PICK x \in T \ {e} : \A y \in T \ {e} : size[y] <= size[x]
      BY <1>1, <2>2
    <3>2. CASE size[e] <= size[x]
      BY <3>1, <3>2
    <3>3. CASE size[x] <= size[e]
      BY <3>1, <3>3
    <3> QED
      BY <3>2, <3>3
  <2> QED
    BY <2>1, <2>2
<1>2. IsSubsetInductive(S, Bounded)
  BY <1>1 DEF IsSubsetInductive
<1>3. SUBSET S \subseteq Bounded
  BY <1>2, SubsetInduction
<1> QED
  BY <1>3

\* A recursive equation over the subsets of S: the value at a subset depends on
\* the values at the subset without one of its elements.
IsSubsetRecursion(S, V, body) ==
  /\ body \in [[SUBSET S -> V] -> [SUBSET S -> V]]
  /\ \A f, g \in [SUBSET S -> V] : \A T \in SUBSET S :
       (\A x \in T : f[T \ {x}] = g[T \ {x}]) => body[f][T] = body[g][T]

\* Such an equation has a solution.
LEMMA SubsetRecursionExists ==
  ASSUME NEW S, IsFiniteSet(S), NEW V, NEW some \in V, NEW body, IsSubsetRecursion(S, V, body)
  PROVE  HasSolution(SUBSET S, V, body)
<1>1. IsRecursion(SUBSET S, V, Sizes(S), body)
  <2>1. Sizes(S) \in [SUBSET S -> Nat]
    BY SizesOfSubsets
  <2>2. ASSUME NEW f \in [SUBSET S -> V], NEW g \in [SUBSET S -> V], NEW T \in SUBSET S,
               \A U \in SUBSET S : Sizes(S)[U] < Sizes(S)[T] => f[U] = g[U]
        PROVE  body[f][T] = body[g][T]
    <3>1. ASSUME NEW x \in T PROVE f[T \ {x}] = g[T \ {x}]
      BY <2>2, SizesOfSubsets
    <3> QED
      BY <3>1 DEF IsSubsetRecursion
  <2> QED
    BY <2>1, <2>2 DEF IsRecursion, IsSubsetRecursion
<1> QED
  BY <1>1, RecursionExists

\* The equation that defines a sum over the subsets of S.
IsSum(iter, f, S) ==
  iter = [T \in SUBSET S |->
            IF T = {} THEN 0
            ELSE f[CHOOSE x \in T : TRUE] + iter[T \ {CHOOSE x \in T : TRUE}]]

\* The sum is the solution of its equation at the whole set.
LEMMA SumByEquation ==
  ASSUME NEW S, IsFiniteSet(S), NEW f, \A x \in S : f[x] \in Nat
  PROVE  \E iter \in [SUBSET S -> Nat] : IsSum(iter, f, S) /\ SumFunctionOnSet(f, S) = iter[S]
<1> DEFINE D == SUBSET S
           first(T) == CHOOSE x \in T : TRUE
           body == [g \in [D -> Int] |->
                      [T \in D |-> IF T = {} THEN 0 ELSE f[first(T)] + g[T \ {first(T)}]]]
           iter == CHOOSE g : IsSum(g, f, S)
<1>1. ASSUME NEW T \in D, T # {}
      PROVE  first(T) \in T /\ f[first(T)] \in Nat /\ T \ {first(T)} \in D
  BY <1>1
<1>2. HasSolution(D, Int, body)
  <2>1. body \in [[D -> Int] -> [D -> Int]]
    <3> SUFFICES ASSUME NEW g \in [D -> Int], NEW T \in D, T # {}
                 PROVE  f[first(T)] + g[T \ {first(T)}] \in Int
      OBVIOUS
    <3>1. f[first(T)] \in Nat /\ T \ {first(T)} \in D
      BY <1>1
    <3> HIDE DEF first
    <3> QED
      BY <3>1
  <2>2. ASSUME NEW g \in [D -> Int], NEW h \in [D -> Int], NEW T \in D,
               \A x \in T : g[T \ {x}] = h[T \ {x}]
        PROVE  body[g][T] = body[h][T]
    <3>1. T # {} => g[T \ {first(T)}] = h[T \ {first(T)}]
      BY <1>1, <2>2
    <3> HIDE DEF first
    <3> QED
      BY <3>1
  <2>3. 0 \in Int
    OBVIOUS
  <2>4. IsSubsetRecursion(S, Int, body)
    <3> HIDE DEF body
    <3> QED
      BY <2>1, <2>2 DEF IsSubsetRecursion
  <2> HIDE DEF body
  <2> QED
    BY <2>3, <2>4, SubsetRecursionExists
<1>3. \E g : IsSum(g, f, S)
  BY <1>2 DEF HasSolution, IsSum
<1>4. IsSum(iter, f, S)
  BY <1>3
<1>5. ASSUME NEW T \in D
      PROVE  iter[T] = IF T = {} THEN 0 ELSE f[first(T)] + iter[T \ {first(T)}]
  <2> HIDE DEF iter
  <2> QED
    BY <1>4 DEF IsSum
<1>6. D \subseteq {T \in D : iter[T] \in Nat}
  <2> DEFINE Typed == {T \in D : iter[T] \in Nat}
  <2>1. ASSUME NEW T \in D, \A x \in T : T \ {x} \in Typed
        PROVE  T \in Typed
    <3>1. CASE T = {}
      <4>1. iter[T] = 0
        BY <1>5, <3>1
      <4> HIDE DEF iter
      <4> QED
        BY <4>1
    <3>2. CASE T # {}
      <4>1. f[first(T)] \in Nat /\ iter[T \ {first(T)}] \in Nat
        BY <1>1, <2>1, <3>2
      <4>2. iter[T] = f[first(T)] + iter[T \ {first(T)}]
        BY <1>5, <3>2
      <4> HIDE DEF iter, first
      <4> QED
        BY <4>1, <4>2
    <3> QED
      BY <3>1, <3>2
  <2>2. IsSubsetInductive(S, Typed)
    BY <2>1 DEF IsSubsetInductive
  <2> QED
    BY <2>2, SubsetInduction
<1>7. iter \in [D -> Nat]
  <2> HIDE DEF iter
  <2> QED
    BY <1>4, <1>6 DEF IsSum
<1>8. SumFunctionOnSet(f, S) = iter[S]
  BY DEF SumFunctionOnSet, FoldFunctionOnSet, MapThenFoldSet, IsSum
<1> HIDE DEF iter
<1> QED
  BY <1>4, <1>7, <1>8

LEMMA SumType ==
  ASSUME NEW S, IsFiniteSet(S), NEW f, \A x \in S : f[x] \in Nat
  PROVE  SumFunctionOnSet(f, S) \in Nat
<1>1. PICK iter \in [SUBSET S -> Nat] : SumFunctionOnSet(f, S) = iter[S]
  BY SumByEquation
<1> QED
  BY <1>1

LEMMA SumEmpty ==
  ASSUME NEW f
  PROVE  SumFunctionOnSet(f, {}) = 0
<1>1. PICK iter \in [SUBSET {} -> Nat] : IsSum(iter, f, {}) /\ SumFunctionOnSet(f, {}) = iter[{}]
  BY SumByEquation, FS_EmptySet
<1> QED
  BY <1>1 DEF IsSum

\* The sum over a subset is the same solution at that subset.
LEMMA SumOfSubset ==
  ASSUME NEW S, IsFiniteSet(S), NEW f, \A x \in S : f[x] \in Nat,
         NEW iter \in [SUBSET S -> Nat], IsSum(iter, f, S), NEW T \in SUBSET S
  PROVE  SumFunctionOnSet(f, T) = iter[T]
<1>1. IsFiniteSet(T)
  BY FS_Subset
<1>2. PICK part \in [SUBSET T -> Nat] : IsSum(part, f, T) /\ SumFunctionOnSet(f, T) = part[T]
  BY <1>1, SumByEquation
<1> DEFINE Agree == {U \in SUBSET T : part[U] = iter[U]}
<1>3. ASSUME NEW U \in SUBSET T, \A x \in U : U \ {x} \in Agree
      PROVE  U \in Agree
  <2>1. CASE U = {}
    BY <1>2, <2>1 DEF IsSum
  <2>2. CASE U # {}
    <3> DEFINE x == CHOOSE y \in U : TRUE
    <3>1. x \in U
      BY <2>2
    <3>2. part[U \ {x}] = iter[U \ {x}]
      BY <1>3, <3>1
    <3>3. part[U] = f[x] + part[U \ {x}]
      BY <1>2, <2>2 DEF IsSum
    <3>4. iter[U] = f[x] + iter[U \ {x}]
      BY <2>2 DEF IsSum
    <3> QED
      BY <3>2, <3>3, <3>4
  <2> QED
    BY <2>1, <2>2
<1>4. SUBSET T \subseteq Agree
  <2>1. IsSubsetInductive(T, Agree)
    BY <1>3 DEF IsSubsetInductive
  <2> QED
    BY <1>1, <2>1, SubsetInduction
<1> QED
  BY <1>2, <1>4

\* One element of the set can be taken out of the sum.
LEMMA SumRemove ==
  ASSUME NEW S, IsFiniteSet(S), NEW f, \A x \in S : f[x] \in Nat, NEW e \in S
  PROVE  SumFunctionOnSet(f, S) = f[e] + SumFunctionOnSet(f, S \ {e})
<1>1. PICK iter \in [SUBSET S -> Nat] : IsSum(iter, f, S) /\ SumFunctionOnSet(f, S) = iter[S]
  BY SumByEquation
<1> DEFINE Split == {T \in SUBSET S : \A x \in T : iter[T] = f[x] + iter[T \ {x}]}
<1>2. ASSUME NEW T \in SUBSET S, \A x \in T : T \ {x} \in Split
      PROVE  T \in Split
  <2> SUFFICES ASSUME NEW x \in T PROVE iter[T] = f[x] + iter[T \ {x}]
    OBVIOUS
  <2> DEFINE c == CHOOSE y \in T : TRUE
  <2>1. c \in T
    OBVIOUS
  <2>2. iter[T] = f[c] + iter[T \ {c}]
    BY <1>1 DEF IsSum
  <2> HIDE DEF c
  <2>3. CASE x = c
    BY <2>2, <2>3
  <2>4. CASE x # c
    <3>1. T \ {c} \in Split /\ T \ {x} \in Split
      BY <1>2, <2>1
    <3>2. iter[T \ {c}] = f[x] + iter[(T \ {c}) \ {x}] /\ iter[T \ {x}] = f[c] + iter[(T \ {x}) \ {c}]
      BY <2>1, <2>4, <3>1
    <3>3. (T \ {c}) \ {x} = (T \ {x}) \ {c}
      OBVIOUS
    <3>4. f[x] \in Nat /\ f[c] \in Nat /\ iter[(T \ {x}) \ {c}] \in Nat
      BY <2>1
    <3>5. iter[T] = f[c] + (f[x] + iter[(T \ {x}) \ {c}])
      BY <2>2, <3>2, <3>3
    <3>6. iter[T \ {x}] = f[c] + iter[(T \ {x}) \ {c}]
      BY <3>2
    <3> HIDE DEF Split
    <3> QED
      BY <3>4, <3>5, <3>6
  <2> QED
    BY <2>3, <2>4
<1>3. SUBSET S \subseteq Split
  <2>1. IsSubsetInductive(S, Split)
    BY <1>2 DEF IsSubsetInductive
  <2> QED
    BY <2>1, SubsetInduction
<1>4. SumFunctionOnSet(f, S \ {e}) = iter[S \ {e}]
  <2>1. S \ {e} \in SUBSET S
    OBVIOUS
  <2> QED
    BY <1>1, <2>1, SumOfSubset
<1> QED
  BY <1>1, <1>3, <1>4

\* A sum depends on the summands alone.
LEMMA SumCongruence ==
  ASSUME NEW S, IsFiniteSet(S), NEW f, NEW g, \A x \in S : f[x] \in Nat /\ f[x] = g[x]
  PROVE  SumFunctionOnSet(f, S) = SumFunctionOnSet(g, S)
<1>1. PICK iter \in [SUBSET S -> Nat] : IsSum(iter, f, S) /\ SumFunctionOnSet(f, S) = iter[S]
  BY SumByEquation
<1>2. \A T \in SUBSET S : T # {} => f[CHOOSE x \in T : TRUE] = g[CHOOSE x \in T : TRUE]
  OBVIOUS
<1>3. IsSum(iter, g, S)
  BY <1>1, <1>2 DEF IsSum
<1>4. \A x \in S : g[x] \in Nat
  OBVIOUS
<1>5. S \in SUBSET S
  OBVIOUS
<1> QED
  BY <1>1, <1>3, <1>4, <1>5, SumOfSubset

\* A sum of zeros is zero, and only that.
LEMMA SumOfZeros ==
  ASSUME NEW S, IsFiniteSet(S), NEW f, \A x \in S : f[x] \in Nat
  PROVE  SumFunctionOnSet(f, S) = 0 <=> \A x \in S : f[x] = 0
<1> DEFINE Q == {T \in SUBSET S : SumFunctionOnSet(f, T) = 0 <=> \A x \in T : f[x] = 0}
<1>1. ASSUME NEW T \in SUBSET S, \A x \in T : T \ {x} \in Q PROVE T \in Q
  <2>1. CASE T = {}
    BY <2>1, SumEmpty
  <2>2. CASE T # {}
    <3>1. PICK e \in T : TRUE
      BY <2>2
    <3>2. IsFiniteSet(T) /\ \A x \in T : f[x] \in Nat
      BY FS_Subset
    <3>3. SumFunctionOnSet(f, T) = f[e] + SumFunctionOnSet(f, T \ {e})
      BY <3>2, SumRemove
    <3>4. SumFunctionOnSet(f, T \ {e}) \in Nat
      BY <3>2, FS_RemoveElement, SumType
    <3>5. SumFunctionOnSet(f, T \ {e}) = 0 <=> \A x \in T \ {e} : f[x] = 0
      BY <1>1
    <3>6. f[e] \in Nat
      BY <3>2
    <3>7. SumFunctionOnSet(f, T) = 0 <=> f[e] = 0 /\ SumFunctionOnSet(f, T \ {e}) = 0
      BY <3>3, <3>4, <3>6
    <3> QED
      BY <3>5, <3>7
  <2> QED
    BY <2>1, <2>2
<1>2. IsSubsetInductive(S, Q)
  BY <1>1 DEF IsSubsetInductive
<1> QED
  BY <1>2, SubsetInduction

\* Raising one summand by one raises the sum by one.
LEMMA SumRaised ==
  ASSUME NEW S, IsFiniteSet(S), NEW D, NEW f \in [D -> Nat], S \subseteq D, NEW e \in D
  PROVE  SumFunctionOnSet([f EXCEPT ![e] = @ + 1], S) =
           SumFunctionOnSet(f, S) + (IF e \in S THEN 1 ELSE 0)
<1> DEFINE g == [f EXCEPT ![e] = @ + 1]
<1>1. g \in [D -> Nat] /\ g[e] = f[e] + 1 /\ \A x \in D \ {e} : g[x] = f[x]
  OBVIOUS
<1> HIDE DEF g
<1>2. \A x \in S : f[x] \in Nat /\ g[x] \in Nat
  BY <1>1
<1>3. IsFiniteSet(S \ {e})
  BY FS_RemoveElement
<1>4. SumFunctionOnSet(f, S \ {e}) = SumFunctionOnSet(g, S \ {e})
  BY <1>1, <1>2, <1>3, SumCongruence
<1>5. SumFunctionOnSet(f, S \ {e}) \in Nat /\ f[e] \in Nat
  BY <1>2, <1>3, SumType
<1>6. CASE e \in S
  <2>1. SumFunctionOnSet(f, S) = f[e] + SumFunctionOnSet(f, S \ {e})
    BY <1>2, <1>6, SumRemove
  <2>2. SumFunctionOnSet(g, S) = g[e] + SumFunctionOnSet(g, S \ {e})
    BY <1>2, <1>6, SumRemove
  <2>3. SumFunctionOnSet(g, S) = SumFunctionOnSet(f, S) + 1
    BY <1>1, <1>4, <1>5, <2>1, <2>2
  <2> QED
    BY <1>6, <2>3 DEF g
<1>7. CASE e \notin S
  <2>1. S \ {e} = S
    BY <1>7
  <2> QED
    BY <1>4, <1>5, <1>7, <2>1 DEF g
<1> QED
  BY <1>6, <1>7

----------------------------------------------------------------------------
\* A set of sequences that holds the empty one and is closed under Append.
IsSeqInductive(T, Q) ==
  /\ <<>> \in Q
  /\ \A s \in Seq(T) : \A x \in T : s \in Q => Append(s, x) \in Q

\* Such a set holds every sequence.
LEMMA SeqInduction ==
  ASSUME NEW T, NEW Q, IsSeqInductive(T, Q)
  PROVE  Seq(T) \subseteq Q
<1> DEFINE OfLength == {n \in Nat : \A s \in Seq(T) : Len(s) = n => s \in Q}
<1>1. 0 \in OfLength
  <2>1. ASSUME NEW s \in Seq(T), Len(s) = 0 PROVE s = <<>>
    BY <2>1, EmptySeq
  <2> QED
    BY <2>1 DEF IsSeqInductive
<1>2. ASSUME NEW n \in Nat, n \in OfLength PROVE n + 1 \in OfLength
  <2> SUFFICES ASSUME NEW s \in Seq(T), Len(s) = n + 1 PROVE s \in Q
    OBVIOUS
  <2> DEFINE front == SubSeq(s, 1, n)
  <2>1. front \in Seq(T) /\ Len(front) = n /\ s[n + 1] \in T
    OBVIOUS
  <2>2. s = Append(front, s[n + 1])
    OBVIOUS
  <2>3. front \in Q
    BY <1>2, <2>1
  <2> HIDE DEF front
  <2> QED
    BY <2>1, <2>2, <2>3 DEF IsSeqInductive
<1>3. Nat \subseteq OfLength
  <2> HIDE DEF OfLength
  <2> QED
    BY <1>1, <1>2, SetInduction
<1> QED
  BY <1>3

----------------------------------------------------------------------------
\* The equation that defines Kept along a sequence.
IsKept(kept, s, S) ==
  kept = [i \in 0 .. Len(s) |->
            IF i = 0 THEN <<>>
            ELSE IF s[i] \in S THEN Append(kept[i - 1], s[i]) ELSE kept[i - 1]]

\* The equation at the start, and from one position to the next.
LEMMA KeptSteps ==
  ASSUME NEW T, NEW s \in Seq(T), NEW S, NEW kept, IsKept(kept, s, S)
  PROVE  /\ DOMAIN kept = 0 .. Len(s) /\ kept = [i \in DOMAIN kept |-> kept[i]]
         /\ kept[0] = <<>>
         /\ \A n \in Nat : n < Len(s) =>
              kept[n + 1] = IF s[n + 1] \in S THEN Append(kept[n], s[n + 1]) ELSE kept[n]
<1>1. DOMAIN kept = 0 .. Len(s) /\ kept = [i \in DOMAIN kept |-> kept[i]]
  BY DEF IsKept
<1>2. kept[0] = <<>>
  BY DEF IsKept
<1>3. ASSUME NEW n \in Nat, n < Len(s)
      PROVE  kept[n + 1] = IF s[n + 1] \in S THEN Append(kept[n], s[n + 1]) ELSE kept[n]
  <2> DEFINE i == n + 1
  <2>1. i \in 0 .. Len(s) /\ i # 0 /\ i - 1 = n
    BY <1>3
  <2>2. kept[i] = IF s[i] \in S THEN Append(kept[i - 1], s[i]) ELSE kept[i - 1]
    <3> HIDE DEF i
    <3> QED
      BY <2>1 DEF IsKept
  <2> QED
    BY <2>1, <2>2
<1> QED
  BY <1>1, <1>2, <1>3

\* What is kept is the solution of its equation at the end of the sequence.
LEMMA KeptByEquation ==
  ASSUME NEW T, NEW s \in Seq(T), NEW S
  PROVE  \E kept \in [0 .. Len(s) -> Seq(T)] : IsKept(kept, s, S) /\ Kept(s, S) = kept[Len(s)]
<1> DEFINE D == 0 .. Len(s)
           size == [i \in D |-> i]
           body == [g \in [D -> Seq(T)] |->
                      [i \in D |-> IF i = 0 THEN <<>>
                                   ELSE IF s[i] \in S THEN Append(g[i - 1], s[i]) ELSE g[i - 1]]]
           solution == CHOOSE g : IsKept(g, s, S)
<1>1. HasSolution(D, Seq(T), body)
  <2>1. body \in [[D -> Seq(T)] -> [D -> Seq(T)]]
    OBVIOUS
  <2>2. ASSUME NEW g \in [D -> Seq(T)], NEW h \in [D -> Seq(T)], NEW i \in D,
               \A k \in D : size[k] < size[i] => g[k] = h[k]
        PROVE  body[g][i] = body[h][i]
    <3>1. i # 0 => i - 1 \in D /\ size[i - 1] < size[i]
      OBVIOUS
    <3> QED
      BY <2>2, <3>1
  <2>3. size \in [D -> Nat] /\ <<>> \in Seq(T)
    OBVIOUS
  <2> HIDE DEF body, size, D
  <2>4. IsRecursion(D, Seq(T), size, body)
    BY <2>1, <2>2, <2>3 DEF IsRecursion
  <2> QED
    BY <2>3, <2>4, RecursionExists
<1>2. \E g \in [D -> Seq(T)] : IsKept(g, s, S)
  BY <1>1 DEF HasSolution, IsKept
<1>3. IsKept(solution, s, S)
  BY <1>2
<1>4. Kept(s, S) = solution[Len(s)]
  BY DEF Kept, IsKept
<1> HIDE DEF solution
<1> DEFINE Typed == {n \in Nat : n <= Len(s) => solution[n] \in Seq(T)}
<1>5. 0 \in Typed
  <2>1. solution[0] = <<>>
    BY <1>3, KeptSteps
  <2>2. <<>> \in Seq(T)
    OBVIOUS
  <2>3. solution[0] \in Seq(T)
    BY <2>1, <2>2
  <2> QED
    BY <2>3
<1>6. ASSUME NEW n \in Nat, n \in Typed PROVE n + 1 \in Typed
  <2> SUFFICES ASSUME n < Len(s) PROVE solution[n + 1] \in Seq(T)
    OBVIOUS
  <2>1. solution[n] \in Seq(T) /\ s[n + 1] \in T
    BY <1>6
  <2>2. solution[n + 1] = IF s[n + 1] \in S THEN Append(solution[n], s[n + 1]) ELSE solution[n]
    BY <1>3, KeptSteps
  <2> QED
    BY <2>1, <2>2
<1>7. Nat \subseteq Typed
  <2> HIDE DEF Typed
  <2> QED
    BY <1>5, <1>6, SetInduction
<1>8. solution \in [D -> Seq(T)]
  <2>1. DOMAIN solution = D /\ solution = [i \in DOMAIN solution |-> solution[i]]
    BY <1>3, KeptSteps
  <2>2. \A i \in D : solution[i] \in Seq(T)
    BY <1>7
  <2> QED
    BY <2>1, <2>2
<1> QED
  BY <1>3, <1>4, <1>8

LEMMA KeptType ==
  ASSUME NEW T, NEW s \in Seq(T), NEW S
  PROVE  Kept(s, S) \in Seq(T)
<1>1. PICK kept \in [0 .. Len(s) -> Seq(T)] : Kept(s, S) = kept[Len(s)]
  BY KeptByEquation
<1> QED
  BY <1>1

LEMMA KeptEmpty ==
  ASSUME NEW S
  PROVE  Kept(<<>>, S) = <<>>
<1> DEFINE s == <<>>
<1>1. s \in Seq({}) /\ Len(s) = 0
  OBVIOUS
<1> HIDE DEF s
<1>2. PICK kept \in [0 .. Len(s) -> Seq({})] : IsKept(kept, s, S) /\ Kept(s, S) = kept[Len(s)]
  BY <1>1, KeptByEquation
<1>3. kept[0] = <<>>
  BY <1>1, <1>2, KeptSteps
<1> QED
  BY <1>1, <1>2, <1>3 DEF s

\* A loop over a longer sequence starts as the loop over the shorter one does.
LEMMA KeptOfPrefix ==
  ASSUME NEW T, NEW s \in Seq(T), NEW t \in Seq(T), NEW S, Len(s) <= Len(t),
         \A i \in 1 .. Len(s) : t[i] = s[i],
         NEW long, IsKept(long, t, S)
  PROVE  Kept(s, S) = long[Len(s)]
<1>1. PICK kept \in [0 .. Len(s) -> Seq(T)] : IsKept(kept, s, S) /\ Kept(s, S) = kept[Len(s)]
  BY KeptByEquation
<1> DEFINE Agree == {n \in Nat : n <= Len(s) => kept[n] = long[n]}
<1>2. 0 \in Agree
  BY <1>1, KeptSteps
<1>3. ASSUME NEW n \in Nat, n \in Agree PROVE n + 1 \in Agree
  <2> SUFFICES ASSUME n < Len(s) PROVE kept[n + 1] = long[n + 1]
    OBVIOUS
  <2>1. kept[n] = long[n] /\ t[n + 1] = s[n + 1] /\ n < Len(t)
    BY <1>3
  <2>2. kept[n + 1] = IF s[n + 1] \in S THEN Append(kept[n], s[n + 1]) ELSE kept[n]
    BY <1>1, KeptSteps
  <2>3. long[n + 1] = IF t[n + 1] \in S THEN Append(long[n], t[n + 1]) ELSE long[n]
    BY <2>1, KeptSteps
  <2> QED
    BY <2>1, <2>2, <2>3
<1>4. Nat \subseteq Agree
  <2> HIDE DEF Agree
  <2> QED
    BY <1>2, <1>3, SetInduction
<1> QED
  BY <1>1, <1>4

LEMMA KeptAppend ==
  ASSUME NEW T, NEW s \in Seq(T), NEW x \in T, NEW S
  PROVE  Kept(Append(s, x), S) = IF x \in S THEN Append(Kept(s, S), x) ELSE Kept(s, S)
<1> DEFINE t == Append(s, x)
<1>1. /\ t \in Seq(T) /\ Len(t) = Len(s) + 1 /\ t[Len(s) + 1] = x
      /\ \A i \in 1 .. Len(s) : t[i] = s[i]
  OBVIOUS
<1> HIDE DEF t
<1>2. PICK long \in [0 .. Len(t) -> Seq(T)] : IsKept(long, t, S) /\ Kept(t, S) = long[Len(t)]
  BY <1>1, KeptByEquation
<1>3. Len(s) \in Nat /\ Len(s) < Len(t)
  BY <1>1
<1>4. long[Len(s) + 1] = IF x \in S THEN Append(long[Len(s)], x) ELSE long[Len(s)]
  BY <1>1, <1>2, <1>3, KeptSteps
<1>5. Kept(s, S) = long[Len(s)]
  BY <1>1, <1>2, <1>3, KeptOfPrefix
<1> QED
  BY <1>1, <1>2, <1>4, <1>5 DEF t

\* What is kept of a sequence is in the sequence and in the set.
LEMMA KeptElements ==
  ASSUME NEW T, NEW s \in Seq(T), NEW S
  PROVE  Kept(s, S) \in Seq(T \cap S)
<1> DEFINE Q == {u \in Seq(T) : Kept(u, S) \in Seq(T \cap S)}
<1>1. <<>> \in Q
  <2>1. <<>> \in Seq(T) /\ <<>> \in Seq(T \cap S)
    OBVIOUS
  <2> QED
    BY <2>1, KeptEmpty
<1>2. ASSUME NEW u \in Seq(T), NEW x \in T, u \in Q PROVE Append(u, x) \in Q
  <2>1. Kept(Append(u, x), S) = IF x \in S THEN Append(Kept(u, S), x) ELSE Kept(u, S)
    BY KeptAppend
  <2>2. CASE x \in S
    <3>1. Kept(u, S) \in Seq(T \cap S) /\ x \in T \cap S
      BY <1>2, <2>2
    <3>2. Append(Kept(u, S), x) \in Seq(T \cap S)
      BY <3>1
    <3> QED
      BY <2>1, <2>2, <3>2
  <2> QED
    BY <1>2, <2>1, <2>2
<1>3. IsSeqInductive(T, Q)
  BY <1>1, <1>2 DEF IsSeqInductive
<1> QED
  BY <1>3, SeqInduction

\* Only the elements of the sequence count.
LEMMA KeptCongruence ==
  ASSUME NEW T, NEW s \in Seq(T), NEW R, NEW S, \A i \in 1 .. Len(s) : s[i] \in R <=> s[i] \in S
  PROVE  Kept(s, R) = Kept(s, S)
<1> DEFINE Agree(u) == \A i \in 1 .. Len(u) : u[i] \in R <=> u[i] \in S
           Q == {u \in Seq(T) : Agree(u) => Kept(u, R) = Kept(u, S)}
<1>1. <<>> \in Q
  <2>1. <<>> \in Seq(T)
    OBVIOUS
  <2> QED
    BY <2>1, KeptEmpty
<1>2. ASSUME NEW u \in Seq(T), NEW x \in T, Agree(Append(u, x))
      PROVE  Agree(u) /\ (x \in R <=> x \in S)
  <2>1. ASSUME NEW i \in 1 .. Len(u) PROVE Append(u, x)[i] = u[i] /\ i \in 1 .. Len(Append(u, x))
    OBVIOUS
  <2>2. Append(u, x)[Len(u) + 1] = x /\ Len(u) + 1 \in 1 .. Len(Append(u, x))
    OBVIOUS
  <2> QED
    BY <1>2, <2>1, <2>2
<1>3. ASSUME NEW u \in Seq(T), NEW x \in T, u \in Q PROVE Append(u, x) \in Q
  <2>1. /\ Kept(Append(u, x), R) = IF x \in R THEN Append(Kept(u, R), x) ELSE Kept(u, R)
        /\ Kept(Append(u, x), S) = IF x \in S THEN Append(Kept(u, S), x) ELSE Kept(u, S)
    BY KeptAppend
  <2>2. Append(u, x) \in Seq(T)
    OBVIOUS
  <2>3. Agree(u) => Kept(u, R) = Kept(u, S)
    BY <1>3
  <2> HIDE DEF Agree
  <2>4. ASSUME Agree(Append(u, x)) PROVE Kept(Append(u, x), R) = Kept(Append(u, x), S)
    <3>1. Agree(u) /\ (x \in R <=> x \in S)
      BY <1>2, <2>4
    <3>2. Kept(u, R) = Kept(u, S)
      BY <2>3, <3>1
    <3> QED
      BY <2>1, <3>1, <3>2
  <2> QED
    BY <2>2, <2>4
<1>4. IsSeqInductive(T, Q)
  <2> HIDE DEF Agree
  <2> QED
    BY <1>1, <1>3 DEF IsSeqInductive
<1>5. s \in Q
  <2> HIDE DEF Q
  <2> QED
    BY <1>4, SeqInduction
<1> QED
  BY <1>5

LEMMA KeptConcat ==
  ASSUME NEW T, NEW s \in Seq(T), NEW t \in Seq(T), NEW S
  PROVE  Kept(s \o t, S) = Kept(s, S) \o Kept(t, S)
<1> DEFINE Q == {u \in Seq(T) : Kept(s \o u, S) = Kept(s, S) \o Kept(u, S)}
<1>1. <<>> \in Q
  <2>1. <<>> \in Seq(T) /\ s \o <<>> = s
    OBVIOUS
  <2>2. Kept(s, S) \in Seq(T)
    BY KeptType
  <2>3. Kept(s, S) \o <<>> = Kept(s, S)
    BY <2>2
  <2> QED
    BY <2>1, <2>3, KeptEmpty
<1>2. ASSUME NEW u \in Seq(T), NEW x \in T, u \in Q PROVE Append(u, x) \in Q
  <2>1. /\ s \o u \in Seq(T) /\ Append(u, x) \in Seq(T)
        /\ s \o Append(u, x) = Append(s \o u, x)
    OBVIOUS
  <2>2. Kept(Append(s \o u, x), S) =
          IF x \in S THEN Append(Kept(s \o u, S), x) ELSE Kept(s \o u, S)
    BY <2>1, KeptAppend
  <2>3. Kept(Append(u, x), S) = IF x \in S THEN Append(Kept(u, S), x) ELSE Kept(u, S)
    BY KeptAppend
  <2>4. Kept(s, S) \in Seq(T) /\ Kept(u, S) \in Seq(T)
    BY KeptType
  <2>5. Kept(s, S) \o Append(Kept(u, S), x) = Append(Kept(s, S) \o Kept(u, S), x)
    BY <2>4
  <2>6. Kept(s \o u, S) = Kept(s, S) \o Kept(u, S)
    BY <1>2
  <2> QED
    BY <2>1, <2>2, <2>3, <2>5, <2>6
<1>3. IsSeqInductive(T, Q)
  BY <1>1, <1>2 DEF IsSeqInductive
<1> QED
  BY <1>3, SeqInduction

\* Exactly the elements of the sequence that lie in the set are kept.
LEMMA KeptRange ==
  ASSUME NEW T, NEW s \in Seq(T), NEW S, NEW x
  PROVE  (\E i \in 1 .. Len(Kept(s, S)) : Kept(s, S)[i] = x)
           <=> x \in S /\ \E i \in 1 .. Len(s) : s[i] = x
<1> DEFINE In(u) == \E i \in 1 .. Len(u) : u[i] = x
           Q == {u \in Seq(T) : In(Kept(u, S)) <=> x \in S /\ In(u)}
<1>1. <<>> \in Q
  <2>1. <<>> \in Seq(T) /\ ~In(<<>>)
    OBVIOUS
  <2> QED
    BY <2>1, KeptEmpty
<1>2. ASSUME NEW u \in Seq(T), NEW e \in T PROVE In(Append(u, e)) <=> In(u) \/ x = e
  OBVIOUS
<1>3. ASSUME NEW u \in Seq(T), NEW e \in T, u \in Q PROVE Append(u, e) \in Q
  <2>1. Kept(Append(u, e), S) = IF e \in S THEN Append(Kept(u, S), e) ELSE Kept(u, S)
    BY KeptAppend
  <2>2. Kept(u, S) \in Seq(T)
    BY KeptType
  <2>3. In(Append(Kept(u, S), e)) <=> In(Kept(u, S)) \/ x = e
    BY <1>2, <2>2
  <2>4. In(Append(u, e)) <=> In(u) \/ x = e
    BY <1>2
  <2>5. In(Kept(u, S)) <=> x \in S /\ In(u)
    BY <1>3
  <2>6. Append(u, e) \in Seq(T)
    OBVIOUS
  <2> HIDE DEF In
  <2> QED
    BY <2>1, <2>3, <2>4, <2>5, <2>6
<1>4. IsSeqInductive(T, Q)
  <2> HIDE DEF In
  <2> QED
    BY <1>1, <1>3 DEF IsSeqInductive
<1> QED
  <2> HIDE DEF In
  <2>1. In(Kept(s, S)) <=> x \in S /\ In(s)
    BY <1>4, SeqInduction
  <2> QED
    BY <2>1 DEF In

\* Every element of a selection is in the set and one of the sequence.
LEMMA KeptFrom ==
  ASSUME NEW T, NEW s \in Seq(T), NEW S, NEW q \in 1 .. Len(Kept(s, S))
  PROVE  Kept(s, S)[q] \in S /\ \E i \in 1 .. Len(s) : s[i] = Kept(s, S)[q]
<1> DEFINE kept == Kept(s, S)
           x == kept[q]
<1>1. \E i \in 1 .. Len(kept) : kept[i] = x
  OBVIOUS
<1> HIDE DEF kept, x
<1>2. (\E i \in 1 .. Len(kept) : kept[i] = x) <=> x \in S /\ \E i \in 1 .. Len(s) : s[i] = x
  BY KeptRange DEF kept
<1>3. x \in S /\ \E i \in 1 .. Len(s) : s[i] = x
  BY <1>1, <1>2
<1> QED
  BY <1>3 DEF x, kept

\* If anything is kept, the first of it is an element that lies in the set.
LEMMA KeptHead ==
  ASSUME NEW T, NEW s \in Seq(T), NEW S, NEW i \in 1 .. Len(s), s[i] \in S
  PROVE  Head(Kept(s, S)) \in S /\ \E j \in 1 .. Len(s) : s[j] = Head(Kept(s, S))
<1> DEFINE e == s[i]
           kept == Kept(s, S)
           h == Head(kept)
<1>1. kept \in Seq(T)
  BY KeptType
<1>2. \E j \in 1 .. Len(s) : s[j] = e
  OBVIOUS
<1>3. e \in S
  OBVIOUS
<1> HIDE DEF e
<1>4. \E j \in 1 .. Len(kept) : kept[j] = e
  BY <1>2, <1>3, KeptRange
<1> HIDE DEF kept
<1>5. 1 \in 1 .. Len(kept) /\ kept[1] = h
  BY <1>1, <1>4
<1> HIDE DEF h
<1>6. \E j \in 1 .. Len(kept) : kept[j] = h
  BY <1>5
<1>7. h \in S /\ \E j \in 1 .. Len(s) : s[j] = h
  BY <1>6, KeptRange DEF kept
<1> QED
  BY <1>7 DEF h, kept
=============================================================================
