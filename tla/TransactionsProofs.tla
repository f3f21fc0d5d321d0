--------------------------- MODULE TransactionsProofs ---------------------------
(* What the operators that every service's module shares do.                 *)
EXTENDS Transactions, Integers, Functions, FiniteSets, FiniteSetTheorems,
        WellFoundedInduction, TLAPS

(* Put extends a partial function: the domain grows by x, the rest stays.    *)
LEMMA PutPartial ==
    ASSUME NEW S, NEW T, NEW f, IsPartialFn(f, S, T), NEW x \in S, NEW v \in T
    PROVE  /\ IsPartialFn(Put(f, x, v), S, T)
           /\ DOMAIN Put(f, x, v) = DOMAIN f \cup {x}
           /\ Put(f, x, v)[x] = v
           /\ \A y \in DOMAIN f : y # x => Put(f, x, v)[y] = f[y]
BY DEF IsPartialFn, Put

LEMMA EmptyPartial ==
    ASSUME NEW S, NEW T
    PROVE  IsPartialFn(EmptyFn, S, T) /\ DOMAIN EmptyFn = {}
BY DEF IsPartialFn, EmptyFn

(* A transaction that ends frees its rows and no others.                     *)
LEMMA ReleasedRows ==
    ASSUME NEW S, NEW R, NEW lock \in [S -> R \cup {Nobody}], NEW r
    PROVE  /\ Released(lock, r) \in [S -> R \cup {Nobody}]
           /\ \A x \in S, s \in R : s # r /\ lock[x] = s => Released(lock, r)[x] = s
           /\ \A x \in S, s \in R : s # Nobody /\ Released(lock, r)[x] = s =>
                  s # r /\ lock[x] = s
BY DEF Released

LEMMA ProductNat ==
    ASSUME NEW a \in Nat, NEW b \in Nat
    PROVE  a * b \in Nat
OBVIOUS

LEMMA ProductGrows ==
    ASSUME NEW q \in Nat, NEW a \in Nat, NEW b \in Nat, a <= b
    PROVE  q * a <= q * b
OBVIOUS

LEMMA DivisionBound ==
    ASSUME NEW a \in Nat, NEW n \in Nat \ {0}, NEW k \in Nat, k * n <= a
    PROVE  a \div n \in Nat /\ k <= a \div n
OBVIOUS

--------------------------------------------------------------------------------
(* Sums over a finite set.  Induction is by a least counterexample among its  *)
(* subsets.                                                                   *)

LEMMA SubsetInduction ==
    ASSUME NEW S, IsFiniteSet(S), NEW G,
           \A T \in SUBSET S : (\A U \in SUBSET T : U # T => U \in G) => T \in G
    PROVE  SUBSET S \subseteq G
<1> DEFINE Bad == (SUBSET S) \ G
<1> SUFFICES ASSUME Bad # {} PROVE FALSE
  OBVIOUS
<1>1. Bad \subseteq FiniteSubsetsOf(S)
  <2>1. \A T \in SUBSET S : IsFiniteSet(T)
    BY FS_Subset
  <2> QED BY <2>1 DEF FiniteSubsetsOf
<1>2. \E T \in Bad : \A U \in Bad : ~(<<U, T>> \in StrictSubsetOrdering(S))
  <2> HIDE DEF Bad
  <2> QED BY <1>1, FS_StrictSubsetOrderingWellFounded, WFMin
<1>3. PICK T \in Bad : \A U \in Bad : ~(<<U, T>> \in StrictSubsetOrdering(S))
  BY <1>2
<1>4. \A U \in SUBSET T : U # T => U \in G
  BY <1>3 DEF StrictSubsetOrdering
<1> QED
  BY <1>3, <1>4

AnyOf(T) == CHOOSE x \in T : TRUE
NextSum(f, g, T) == IF T = {} THEN 0 ELSE f[AnyOf(T)] + g[T \ {AnyOf(T)}]
SumTable(f, g, S) == g = [T \in SUBSET S |-> NextSum(f, g, T)]

LEMMA SumTableExists ==
    ASSUME NEW S, IsFiniteSet(S), NEW f
    PROVE  \E g : SumTable(f, g, S)
<1> DEFINE Small(n) == {T \in SUBSET S : Cardinality(T) <= n}
           Good == {n \in Nat : \E g : g = [T \in Small(n) |-> NextSum(f, g, T)]}
<1>0. \A T \in SUBSET S : IsFiniteSet(T) /\ Cardinality(T) \in Nat
  BY FS_Subset, FS_CardinalityType
<1>1. 0 \in Good
  <2> DEFINE g == [T \in Small(0) |-> 0]
  <2>1. \A T \in Small(0) : T = {}
    BY <1>0, FS_EmptySet
  <2>2. g = [T \in Small(0) |-> NextSum(f, g, T)]
    BY <2>1 DEF NextSum
  <2> QED BY <2>2
<1>2. ASSUME NEW n \in Good PROVE n + 1 \in Good
  <2>1. PICK g : g = [T \in Small(n) |-> NextSum(f, g, T)]
    BY <1>2
  <2> DEFINE h == [T \in Small(n + 1) |-> NextSum(f, g, T)]
  <2>2. \A T \in Small(n) : T \in Small(n + 1) /\ h[T] = g[T]
    <3>1. \A T \in Small(n) : T \in Small(n + 1)
      BY <1>0
    <3>2. \A T \in Small(n) : g[T] = NextSum(f, g, T)
      BY <2>1
    <3> QED BY <3>1, <3>2
  <2>3. ASSUME NEW T \in Small(n + 1) PROVE NextSum(f, g, T) = NextSum(f, h, T)
    <3>1. CASE T = {}
      BY <3>1 DEF NextSum
    <3>2. CASE T # {}
      <4>1. AnyOf(T) \in T
        BY <3>2 DEF AnyOf
      <4>2. Cardinality(T \ {AnyOf(T)}) = Cardinality(T) - 1
        BY <1>0, <4>1, FS_RemoveElement
      <4>3. T \ {AnyOf(T)} \in Small(n)
        BY <1>0, <4>2
      <4>4. h[T \ {AnyOf(T)}] = g[T \ {AnyOf(T)}]
        BY <4>3, <2>2
      <4> HIDE DEF h
      <4> QED BY <3>2, <4>4 DEF NextSum
    <3> QED BY <3>1, <3>2
  <2>4. h = [T \in Small(n + 1) |-> NextSum(f, h, T)]
    BY <2>3
  <2>5. \E k : k = [T \in Small(n + 1) |-> NextSum(f, k, T)]
    <3> HIDE DEF h, Small
    <3> QED BY <2>4
  <2>6. n + 1 \in Nat
    OBVIOUS
  <2> QED BY <2>5, <2>6
<1>3. Nat \subseteq Good
  <2> SUFFICES ASSUME NEW bad \in Nat, bad \notin Good PROVE FALSE
    OBVIOUS
  <2> DEFINE Bad == Nat \ Good
  <2>1. Bad \subseteq Nat /\ Bad # {}
    OBVIOUS
  <2>2. PICK m \in Bad : \A k \in Bad : ~(<<k, m>> \in OpToRel(<, Nat))
    <3> HIDE DEF Bad
    <3> QED BY <2>1, NatLessThanWellFounded, WFMin, Zenon
  <2>3. \A k \in Bad : ~(k < m)
    BY <2>2 DEF OpToRel
  <2> HIDE DEF Good
  <2>4. m \in Nat /\ m # 0
    BY <1>1
  <2>5. m - 1 \in Nat /\ m - 1 < m
    BY <2>4
  <2>6. m - 1 \in Good
    BY <2>3, <2>5
  <2>7. m - 1 + 1 \in Good
    BY <1>2, <2>6
  <2> QED BY <2>4, <2>7
<1>4. Small(Cardinality(S)) = SUBSET S
  BY <1>0, FS_Subset
<1>5. Cardinality(S) \in Good
  BY <1>0, <1>3
<1> QED
  BY <1>4, <1>5 DEF SumTable

LEMMA SumTableUnique ==
    ASSUME NEW S, IsFiniteSet(S), NEW T \in SUBSET S, NEW f, NEW g, NEW h,
           SumTable(f, g, S), SumTable(f, h, T)
    PROVE  g[T] = h[T]
<1> DEFINE G == {U \in SUBSET T : g[U] = h[U]}
<1>1. IsFiniteSet(T)
  BY FS_Subset
<1>2. ASSUME NEW U \in SUBSET T, \A V \in SUBSET U : V # U => V \in G PROVE U \in G
  <2>1. g[U] = NextSum(f, g, U) /\ h[U] = NextSum(f, h, U)
    BY DEF SumTable
  <2>2. CASE U = {}
    BY <2>1, <2>2 DEF NextSum
  <2>3. CASE U # {}
    <3>1. AnyOf(U) \in U
      BY <2>3 DEF AnyOf
    <3>2. U \ {AnyOf(U)} \in G
      BY <3>1, <1>2
    <3> QED BY <2>1, <2>3, <3>2 DEF NextSum
  <2> QED BY <2>2, <2>3
<1>3. SUBSET T \subseteq G
  <2> HIDE DEF G
  <2> QED BY <1>1, <1>2, SubsetInduction
<1> QED
  BY <1>3

LEMMA SumIsTable ==
    ASSUME NEW S, IsFiniteSet(S), NEW f
    PROVE  \E g : SumTable(f, g, S) /\ SumFunctionOnSet(f, S) = g[S]
<1> DEFINE g == CHOOSE g : g = [T \in SUBSET S |-> IF T = {} THEN 0 ELSE f[CHOOSE x \in T : TRUE] + g[T \ {CHOOSE x \in T : TRUE}]]
<1>1. SumFunctionOnSet(f, S) = g[S]
  BY DEF SumFunctionOnSet, FoldFunctionOnSet, MapThenFoldSet
<1>2. \E h : SumTable(f, h, S)
  BY SumTableExists
<1>3. \E h : h = [T \in SUBSET S |-> IF T = {} THEN 0 ELSE f[CHOOSE x \in T : TRUE] + h[T \ {CHOOSE x \in T : TRUE}]]
  BY <1>2 DEF SumTable, NextSum, AnyOf
<1>4. g = [T \in SUBSET S |-> IF T = {} THEN 0 ELSE f[CHOOSE x \in T : TRUE] + g[T \ {CHOOSE x \in T : TRUE}]]
  BY <1>3
<1>5. SumTable(f, g, S)
  BY <1>4 DEF SumTable, NextSum, AnyOf
<1> HIDE DEF g
<1> QED BY <1>1, <1>5

LEMMA SumStep ==
    ASSUME NEW S, IsFiniteSet(S), NEW f
    PROVE  /\ S = {} => SumFunctionOnSet(f, S) = 0
           /\ S # {} => /\ AnyOf(S) \in S
                        /\ SumFunctionOnSet(f, S)
                             = f[AnyOf(S)] + SumFunctionOnSet(f, S \ {AnyOf(S)})
<1>1. PICK g : SumTable(f, g, S) /\ SumFunctionOnSet(f, S) = g[S]
  BY SumIsTable
<1>2. g[S] = NextSum(f, g, S)
  BY <1>1 DEF SumTable
<1>3. CASE S = {}
  BY <1>1, <1>2, <1>3 DEF NextSum
<1>4. CASE S # {}
  <2>1. AnyOf(S) \in S
    BY <1>4 DEF AnyOf
  <2> DEFINE T == S \ {AnyOf(S)}
  <2>2. T \in SUBSET S /\ IsFiniteSet(T)
    BY FS_Subset
  <2>3. PICK h : SumTable(f, h, T) /\ SumFunctionOnSet(f, T) = h[T]
    BY <2>2, SumIsTable
  <2>4. g[T] = h[T]
    BY <1>1, <2>2, <2>3, SumTableUnique
  <2> QED BY <1>1, <1>2, <1>4, <2>1, <2>3, <2>4 DEF NextSum
<1> QED BY <1>3, <1>4

(* The sum over no elements.                                                  *)
LEMMA SumOfNone == \A f : SumFunctionOnSet(f, {}) = 0
BY SumStep, FS_EmptySet

(* A sum depends on the values at its elements alone.                         *)
LEMMA SumSame ==
    ASSUME NEW S, IsFiniteSet(S), NEW f, NEW g, \A x \in S : f[x] = g[x]
    PROVE  SumFunctionOnSet(f, S) = SumFunctionOnSet(g, S)
<1> DEFINE G == {T \in SUBSET S : SumFunctionOnSet(f, T) = SumFunctionOnSet(g, T)}
<1>1. ASSUME NEW T \in SUBSET S, \A U \in SUBSET T : U # T => U \in G PROVE T \in G
  <2>0. IsFiniteSet(T)
    BY FS_Subset
  <2>1. CASE T = {}
    BY <2>1, SumOfNone
  <2>2. CASE T # {}
    <3>1. AnyOf(T) \in T
      BY <2>2, <2>0, SumStep
    <3>2. SumFunctionOnSet(f, T \ {AnyOf(T)}) = SumFunctionOnSet(g, T \ {AnyOf(T)})
      BY <3>1, <1>1
    <3>3. SumFunctionOnSet(f, T) = SumFunctionOnSet(g, T)
      BY <3>1, <3>2, <2>0, <2>2, SumStep
    <3> QED BY <3>3
  <2> QED BY <2>1, <2>2
<1>2. SUBSET S \subseteq G
  <2> HIDE DEF G
  <2> QED BY <1>1, SubsetInduction
<1> QED BY <1>2

LEMMA SumInt ==
    ASSUME NEW S, IsFiniteSet(S), NEW f, \A x \in S : f[x] \in Int
    PROVE  SumFunctionOnSet(f, S) \in Int
<1> DEFINE G == {T \in SUBSET S : SumFunctionOnSet(f, T) \in Int}
<1>1. ASSUME NEW T \in SUBSET S, \A U \in SUBSET T : U # T => U \in G PROVE T \in G
  <2>0. IsFiniteSet(T)
    BY FS_Subset
  <2>1. CASE T = {}
    BY <2>1, SumOfNone
  <2>2. CASE T # {}
    <3>1. AnyOf(T) \in T
      BY <2>2, <2>0, SumStep
    <3>2. SumFunctionOnSet(f, T \ {AnyOf(T)}) \in Int
      BY <3>1, <1>1
    <3>3. SumFunctionOnSet(f, T) \in Int
      BY <3>1, <3>2, <2>0, <2>2, SumStep
    <3> QED BY <3>3
  <2> QED BY <2>1, <2>2
<1>2. SUBSET S \subseteq G
  <2> HIDE DEF G
  <2> QED BY <1>1, SubsetInduction
<1> QED BY <1>2

LEMMA SumNat ==
    ASSUME NEW S, IsFiniteSet(S), NEW f, \A x \in S : f[x] \in Nat
    PROVE  SumFunctionOnSet(f, S) \in Nat
<1> DEFINE G == {T \in SUBSET S : SumFunctionOnSet(f, T) \in Nat}
<1>1. ASSUME NEW T \in SUBSET S, \A U \in SUBSET T : U # T => U \in G PROVE T \in G
  <2>0. IsFiniteSet(T)
    BY FS_Subset
  <2>1. CASE T = {}
    BY <2>1, SumOfNone
  <2>2. CASE T # {}
    <3>1. AnyOf(T) \in T
      BY <2>2, <2>0, SumStep
    <3>2. SumFunctionOnSet(f, T \ {AnyOf(T)}) \in Nat
      BY <3>1, <1>1
    <3>3. SumFunctionOnSet(f, T) = f[AnyOf(T)] + SumFunctionOnSet(f, T \ {AnyOf(T)})
      BY <2>0, <2>2, SumStep
    <3>4. f[AnyOf(T)] \in Nat
      BY <3>1
    <3>5. SumFunctionOnSet(f, T) \in Nat
      BY <3>2, <3>3, <3>4
    <3> QED BY <3>5
  <2> QED BY <2>1, <2>2
<1>2. SUBSET S \subseteq G
  <2> HIDE DEF G
  <2> QED BY <1>1, SubsetInduction
<1> QED BY <1>2

(* Any element may be taken out first.                                        *)
LEMMA SumWithout ==
    ASSUME NEW S, IsFiniteSet(S), NEW f, \A x \in S : f[x] \in Int, NEW e \in S
    PROVE  SumFunctionOnSet(f, S) = f[e] + SumFunctionOnSet(f, S \ {e})
<1> DEFINE Splits(T) == \A x \in T : SumFunctionOnSet(f, T) = f[x] + SumFunctionOnSet(f, T \ {x})
           G == {T \in SUBSET S : Splits(T)}
<1>1. ASSUME NEW T \in SUBSET S, \A U \in SUBSET T : U # T => U \in G PROVE T \in G
  <2>0. IsFiniteSet(T)
    BY FS_Subset
  <2> SUFFICES ASSUME NEW x \in T
               PROVE  SumFunctionOnSet(f, T) = f[x] + SumFunctionOnSet(f, T \ {x})
    OBVIOUS
  <2>1. /\ AnyOf(T) \in T
        /\ SumFunctionOnSet(f, T) = f[AnyOf(T)] + SumFunctionOnSet(f, T \ {AnyOf(T)})
    BY <2>0, SumStep
  <2>2. CASE x = AnyOf(T)
    BY <2>1, <2>2
  <2>3. CASE x # AnyOf(T)
    <3> DEFINE a == AnyOf(T)
    <3>0. a \in T /\ a # x
      BY <2>1, <2>3
    <3>1. T \ {a} \in G /\ T \ {x} \in G
      BY <1>1, <3>0
    <3>2. SumFunctionOnSet(f, T \ {a}) = f[x] + SumFunctionOnSet(f, (T \ {a}) \ {x})
      BY <3>1, <3>0
    <3>3. SumFunctionOnSet(f, T \ {x}) = f[a] + SumFunctionOnSet(f, (T \ {x}) \ {a})
      BY <3>1, <3>0
    <3>4. (T \ {x}) \ {a} = (T \ {a}) \ {x}
      OBVIOUS
    <3>5. f[a] \in Int /\ f[x] \in Int
      BY <3>0
    <3>6. SumFunctionOnSet(f, (T \ {a}) \ {x}) \in Int
      <4>1. IsFiniteSet((T \ {a}) \ {x}) /\ (T \ {a}) \ {x} \subseteq S
        BY <2>0, FS_Subset
      <4> QED BY <4>1, SumInt
    <3>7. SumFunctionOnSet(f, T) = f[a] + SumFunctionOnSet(f, T \ {a})
      BY <2>1
    <3>8. SumFunctionOnSet(f, T \ {x}) = f[a] + SumFunctionOnSet(f, (T \ {a}) \ {x})
      BY <3>3, <3>4, Zenon
    <3> HIDE DEF a, G
    <3> QED BY <3>2, <3>5, <3>6, <3>7, <3>8
  <2> QED BY <2>2, <2>3
<1>2. SUBSET S \subseteq G
  <2> HIDE DEF G
  <2> QED BY <1>1, SubsetInduction
<1>3. S \in G
  BY <1>2
<1> QED BY <1>3

LEMMA SumWith ==
    ASSUME NEW S, IsFiniteSet(S), NEW f, NEW e, e \notin S, \A x \in S \cup {e} : f[x] \in Int
    PROVE  SumFunctionOnSet(f, S \cup {e}) = f[e] + SumFunctionOnSet(f, S)
<1>1. IsFiniteSet(S \cup {e}) /\ e \in S \cup {e} /\ (S \cup {e}) \ {e} = S
  BY FS_AddElement
<1> HIDE DEF SumFunctionOnSet
<1>2. SumFunctionOnSet(f, S \cup {e}) = f[e] + SumFunctionOnSet(f, (S \cup {e}) \ {e})
  BY <1>1, SumWithout
<1> QED BY <1>1, <1>2

(* What one element changes by, the sum changes by.                           *)
LEMMA SumChanged ==
    ASSUME NEW S, IsFiniteSet(S), NEW f, NEW g, NEW e \in S,
           \A x \in S : f[x] \in Int /\ g[x] \in Int,
           \A x \in S : x # e => g[x] = f[x]
    PROVE  SumFunctionOnSet(g, S) = SumFunctionOnSet(f, S) + g[e] - f[e]
<1>1. IsFiniteSet(S \ {e})
  BY FS_Subset
<1>2. SumFunctionOnSet(f, S) = f[e] + SumFunctionOnSet(f, S \ {e})
  BY SumWithout
<1>3. SumFunctionOnSet(g, S) = g[e] + SumFunctionOnSet(g, S \ {e})
  BY SumWithout
<1>4. SumFunctionOnSet(g, S \ {e}) = SumFunctionOnSet(f, S \ {e})
  BY <1>1, SumSame
<1>5. SumFunctionOnSet(f, S \ {e}) \in Int
  BY <1>1, SumInt
<1> QED BY <1>2, <1>3, <1>4, <1>5

(* Sums of sums.                                                              *)
LEMMA SumPlus ==
    ASSUME NEW S, IsFiniteSet(S), NEW f, NEW g, NEW h,
           \A x \in S : f[x] \in Int /\ g[x] \in Int /\ h[x] = f[x] + g[x]
    PROVE  SumFunctionOnSet(h, S) = SumFunctionOnSet(f, S) + SumFunctionOnSet(g, S)
<1> DEFINE G == {T \in SUBSET S : SumFunctionOnSet(h, T) = SumFunctionOnSet(f, T) + SumFunctionOnSet(g, T)}
<1>1. ASSUME NEW T \in SUBSET S, \A U \in SUBSET T : U # T => U \in G PROVE T \in G
  <2>0. IsFiniteSet(T)
    BY FS_Subset
  <2>1. CASE T = {}
    BY <2>1, SumOfNone
  <2>2. CASE T # {}
    <3> DEFINE U == T \ {AnyOf(T)}
    <3>1. AnyOf(T) \in T
      BY <2>2, <2>0, SumStep
    <3>2. SumFunctionOnSet(h, U) = SumFunctionOnSet(f, U) + SumFunctionOnSet(g, U)
      BY <3>1, <1>1
    <3>3. /\ SumFunctionOnSet(f, T) = f[AnyOf(T)] + SumFunctionOnSet(f, U)
          /\ SumFunctionOnSet(g, T) = g[AnyOf(T)] + SumFunctionOnSet(g, U)
          /\ SumFunctionOnSet(h, T) = h[AnyOf(T)] + SumFunctionOnSet(h, U)
      BY <2>0, <2>2, SumStep
    <3>4. SumFunctionOnSet(f, U) \in Int /\ SumFunctionOnSet(g, U) \in Int
      BY <2>0, FS_Subset, SumInt
    <3>5. SumFunctionOnSet(h, T) = SumFunctionOnSet(f, T) + SumFunctionOnSet(g, T)
      BY <3>1, <3>2, <3>3, <3>4
    <3> QED BY <3>5
  <2> QED BY <2>1, <2>2
<1>2. SUBSET S \subseteq G
  <2> HIDE DEF G
  <2> QED BY <1>1, SubsetInduction
<1>3. S \in G
  BY <1>2
<1> QED BY <1>3

(* The one integer that is twice itself.                                      *)
LEMMA TwiceItself ==
    ASSUME NEW n \in Int, n = n + n
    PROVE  n = 0
OBVIOUS

LEMMA SumOfZeros ==
    ASSUME NEW S, IsFiniteSet(S), NEW f, \A x \in S : f[x] = 0
    PROVE  SumFunctionOnSet(f, S) = 0
<1>1. SumFunctionOnSet(f, S) = SumFunctionOnSet(f, S) + SumFunctionOnSet(f, S)
  BY SumPlus
<1>2. SumFunctionOnSet(f, S) \in Int
  BY SumInt
<1> HIDE DEF SumFunctionOnSet
<1> QED BY <1>1, <1>2, TwiceItself, Zenon

(* The same of a whole function: as it stays, gains an element, or changes one. *)
LEMMA SumStays ==
    ASSUME NEW f, NEW g, IsFiniteSet(DOMAIN f), DOMAIN g = DOMAIN f,
           \A x \in DOMAIN f : g[x] = f[x]
    PROVE  SumFunction(g) = SumFunction(f)
BY SumSame DEF SumFunction

LEMMA SumGrows ==
    ASSUME NEW f, NEW g, NEW e, IsFiniteSet(DOMAIN f), e \notin DOMAIN f,
           DOMAIN g = DOMAIN f \cup {e}, g[e] \in Int,
           \A x \in DOMAIN f : f[x] \in Int /\ g[x] = f[x]
    PROVE  SumFunction(g) = SumFunction(f) + g[e]
<1>1. SumFunctionOnSet(g, DOMAIN g) = g[e] + SumFunctionOnSet(g, DOMAIN f)
  BY SumWith
<1>2. SumFunctionOnSet(g, DOMAIN f) = SumFunctionOnSet(f, DOMAIN f)
  BY SumSame
<1>3. SumFunctionOnSet(f, DOMAIN f) \in Int
  BY SumInt
<1> QED BY <1>1, <1>2, <1>3 DEF SumFunction

LEMMA SumMoves ==
    ASSUME NEW f, NEW g, NEW e \in DOMAIN f, IsFiniteSet(DOMAIN f), DOMAIN g = DOMAIN f,
           \A x \in DOMAIN f : f[x] \in Int /\ g[x] \in Int,
           \A x \in DOMAIN f : x # e => g[x] = f[x]
    PROVE  SumFunction(g) = SumFunction(f) + g[e] - f[e]
BY SumChanged DEF SumFunction

LEMMA SumTyped ==
    ASSUME NEW f, IsFiniteSet(DOMAIN f), \A x \in DOMAIN f : f[x] \in Int
    PROVE  SumFunction(f) \in Int
BY SumInt DEF SumFunction

LEMMA SumOfNothing ==
    ASSUME NEW f, DOMAIN f = {}
    PROVE  SumFunction(f) = 0
BY SumOfNone DEF SumFunction

LEMMA SumOfNoughts ==
    ASSUME NEW f, IsFiniteSet(DOMAIN f), \A x \in DOMAIN f : f[x] = 0
    PROVE  SumFunction(f) = 0
BY SumOfZeros DEF SumFunction

LEMMA SumAdds ==
    ASSUME NEW f, NEW g, NEW h, IsFiniteSet(DOMAIN f), DOMAIN g = DOMAIN f, DOMAIN h = DOMAIN f,
           \A x \in DOMAIN f : f[x] \in Int /\ g[x] \in Int /\ h[x] = f[x] + g[x]
    PROVE  SumFunction(h) = SumFunction(f) + SumFunction(g)
BY SumPlus DEF SumFunction

(* A function that is nought but in one place.                               *)
LEMMA SumOfOne ==
    ASSUME NEW f, NEW e \in DOMAIN f, IsFiniteSet(DOMAIN f), f[e] \in Int,
           \A x \in DOMAIN f : x # e => f[x] = 0
    PROVE  SumFunction(f) = f[e]
<1> DEFINE z == [x \in DOMAIN f |-> 0]
<1>1. DOMAIN z = DOMAIN f /\ \A x \in DOMAIN f : z[x] = 0
  OBVIOUS
<1> HIDE DEF z
<1>2. SumFunction(z) = 0
  BY <1>1, SumOfNoughts
<1>3. SumFunction(f) = SumFunction(z) + f[e] - z[e]
  <2>1. /\ e \in DOMAIN z /\ IsFiniteSet(DOMAIN z)
        /\ \A x \in DOMAIN z : z[x] \in Int /\ f[x] \in Int
        /\ \A x \in DOMAIN z : x # e => f[x] = z[x]
    BY <1>1
  <2> QED BY <1>1, <2>1, SumMoves
<1> QED BY <1>1, <1>2, <1>3

(* Noughts beyond the domain add nothing.                                    *)
LEMMA SumPads ==
    ASSUME NEW f, NEW g, IsFiniteSet(DOMAIN g), DOMAIN f \subseteq DOMAIN g,
           \A x \in DOMAIN f : f[x] \in Int /\ g[x] = f[x],
           \A x \in DOMAIN g \ DOMAIN f : g[x] = 0
    PROVE  SumFunction(g) = SumFunction(f)
<1> DEFINE S == DOMAIN f
           G == {T \in SUBSET DOMAIN g : SumFunctionOnSet(g, T) = SumFunctionOnSet(g, T \cap S)}
<1>1. \A x \in DOMAIN g : g[x] \in Int
  OBVIOUS
<1>2. ASSUME NEW T \in SUBSET DOMAIN g, \A U \in SUBSET T : U # T => U \in G PROVE T \in G
  <2>1. IsFiniteSet(T) /\ IsFiniteSet(T \cap S)
    BY FS_Subset
  <2>2. CASE T = {}
    <3>1. T \cap S = T
      BY <2>2
    <3> QED BY <3>1
  <2>3. CASE T # {}
    <3> DEFINE a == AnyOf(T)
    <3>1. a \in T /\ SumFunctionOnSet(g, T) = g[a] + SumFunctionOnSet(g, T \ {a})
      BY <2>1, <2>3, SumStep
    <3>2. SumFunctionOnSet(g, T \ {a}) = SumFunctionOnSet(g, (T \ {a}) \cap S)
      BY <1>2, <3>1
    <3>3. (T \ {a}) \cap S = (T \cap S) \ {a}
      OBVIOUS
    <3>4. SumFunctionOnSet(g, (T \cap S) \ {a}) \in Int
      <4>1. IsFiniteSet((T \cap S) \ {a}) /\ \A x \in (T \cap S) \ {a} : g[x] \in Int
        BY <2>1, FS_Subset
      <4> QED BY <4>1, SumInt
    <3>5. CASE a \in S
      <4>1. SumFunctionOnSet(g, T \cap S) = g[a] + SumFunctionOnSet(g, (T \cap S) \ {a})
        BY <1>1, <2>1, <3>1, <3>5, SumWithout
      <4>2. SumFunctionOnSet(g, T) = SumFunctionOnSet(g, T \cap S)
        BY <3>1, <3>2, <3>3, <4>1, Zenon
      <4> QED BY <4>2
    <3>6. CASE a \notin S
      <4>1. (T \cap S) \ {a} = T \cap S /\ g[a] = 0
        BY <3>1, <3>6
      <4>2. SumFunctionOnSet(g, T \ {a}) = SumFunctionOnSet(g, T \cap S)
        BY <3>2, <3>3, <4>1, Zenon
      <4>3. SumFunctionOnSet(g, T \cap S) \in Int
        BY <3>4, <4>1, Zenon
      <4> HIDE DEF a
      <4>4. SumFunctionOnSet(g, T) = SumFunctionOnSet(g, T \cap S)
        BY <3>1, <4>1, <4>2, <4>3
      <4> QED BY <4>4
    <3> QED BY <3>5, <3>6
  <2> QED BY <2>2, <2>3
<1>3. SUBSET DOMAIN g \subseteq G
  <2> HIDE DEF G
  <2> QED BY <1>2, SubsetInduction
<1>4. SumFunctionOnSet(g, DOMAIN g) = SumFunctionOnSet(g, DOMAIN g \cap S)
  BY <1>3
<1>5. DOMAIN g \cap S = DOMAIN f /\ IsFiniteSet(DOMAIN f)
  BY FS_Subset
<1>6. SumFunctionOnSet(g, DOMAIN f) = SumFunctionOnSet(f, DOMAIN f)
  BY <1>5, SumSame
<1>7. SumFunctionOnSet(g, DOMAIN g) = SumFunctionOnSet(f, DOMAIN f)
  BY <1>4, <1>5, <1>6, Zenon
<1> QED BY <1>7 DEF SumFunction

(* Part of a sum of naturals is no more than the whole.                       *)
LEMMA SumOfPart ==
    ASSUME NEW f, NEW g, IsFiniteSet(DOMAIN g), DOMAIN f \subseteq DOMAIN g,
           \A x \in DOMAIN g : g[x] \in Nat,
           \A x \in DOMAIN f : f[x] = g[x]
    PROVE  SumFunction(f) <= SumFunction(g) /\ SumFunction(f) \in Int /\ SumFunction(g) \in Int
<1> DEFINE p == [x \in DOMAIN g |-> IF x \in DOMAIN f THEN g[x] ELSE 0]
           q == [x \in DOMAIN g |-> IF x \in DOMAIN f THEN 0 ELSE g[x]]
<1>1. /\ DOMAIN p = DOMAIN g /\ DOMAIN q = DOMAIN g
      /\ \A x \in DOMAIN g : p[x] \in Int /\ q[x] \in Nat /\ q[x] \in Int /\ g[x] = p[x] + q[x]
      /\ \A x \in DOMAIN f : f[x] \in Int /\ p[x] = f[x]
      /\ \A x \in DOMAIN g \ DOMAIN f : p[x] = 0
  OBVIOUS
<1> HIDE DEF p, q
<1>2. SumFunction(p) = SumFunction(f)
  BY <1>1, SumPads
<1>3. SumFunction(g) = SumFunction(p) + SumFunction(q)
  BY <1>1, SumAdds
<1>4. SumFunction(q) \in Nat
  BY <1>1, SumNat DEF SumFunction
<1>5. SumFunction(p) \in Int
  BY <1>1, SumTyped
<1> QED BY <1>2, <1>3, <1>4, <1>5

================================================================================
