------------------------------ MODULE FoldFacts ------------------------------
(***************************************************************************)
(* Induction, recursion and sums in a form the provers can use.  The       *)
(* library's induction theorems quantify over an operator; here a property *)
(* is the set of the values that have it and a recursion step is a         *)
(* function.  The source of both is that every set of naturals has a least *)
(* element (WFMin).  The proofs about the models cite what follows for the *)
(* folds and sums of the community modules they are written with.          *)
(***************************************************************************)
EXTENDS Integers, SequencesExt, Lists, FiniteSetTheorems, WellFoundedInduction, TLAPS

LEMMA LeastNatural ==
  ASSUME NEW T, T \subseteq Nat, T # {}
  PROVE  \E m \in T : \A k \in T : m <= k
<1> DEFINE R == OpToRel(<, Nat)
<1>1. IsWellFoundedOn(R, Nat)
  BY NatLessThanWellFounded
<1>2. R = {ss \in Nat \X Nat : ss[1] < ss[2]}
  BY DEF OpToRel
<1> HIDE DEF R
<1>3. PICK m \in T : \A k \in T : <<k, m>> \notin R
  BY <1>1, WFMin
<1>4. \A k \in T : k \in Nat /\ m \in Nat /\ ~(k < m)
  BY <1>2, <1>3
<1>5. \A k \in T : m <= k
  BY <1>4
<1> QED
  BY <1>5

\* Induction over the naturals.
LEMMA NatInductive ==
  ASSUME NEW S, 0 \in S, \A n \in Nat : n \in S => n + 1 \in S
  PROVE  Nat \subseteq S
<1> DEFINE T == Nat \ S
<1>1. SUFFICES ASSUME T # {} PROVE FALSE
  OBVIOUS
<1>2. T \subseteq Nat
  OBVIOUS
<1> HIDE DEF T
<1>3. PICK m \in T : \A k \in T : m <= k
  BY <1>1, <1>2, LeastNatural
<1>4. m \in Nat /\ m \notin S
  BY <1>3 DEF T
<1>5. m # 0
  BY <1>4
<1>6. m - 1 \in Nat /\ m - 1 \notin T
  BY <1>3, <1>4, <1>5
<1>7. m - 1 \in S
  BY <1>6 DEF T
<1> QED
  BY <1>4, <1>6, <1>7

\* Induction up to a bound.
LEMMA UpTo ==
  ASSUME NEW n \in Nat, NEW S, 0 \in S, \A k \in 0 .. n - 1 : k \in S => k + 1 \in S
  PROVE  0 .. n \subseteq S
<1> DEFINE T == {k \in Nat : k <= n => k \in S}
<1>1. 0 \in T
  OBVIOUS
<1>2. \A k \in Nat : k \in T => k + 1 \in T
  OBVIOUS
<1> HIDE DEF T
<1>3. Nat \subseteq T
  BY <1>1, <1>2, NatInductive
<1> QED
  BY <1>3 DEF T

\* Induction over the subsets of a finite set, the smaller first.
LEMMA SmallerFirst ==
  ASSUME NEW S, IsFiniteSet(S), NEW P, {} \in P,
         \A T \in SUBSET S : T # {} /\ (\A x \in T : T \ {x} \in P) => T \in P
  PROVE  SUBSET S \subseteq P
<1> DEFINE N == {n \in Nat : \A T \in SUBSET S : Cardinality(T) = n => T \in P}
<1>1. \A T \in SUBSET S : IsFiniteSet(T) /\ Cardinality(T) \in Nat
  BY FS_Subset, FS_CardinalityType
<1>2. \A T \in SUBSET S : T = {} <=> Cardinality(T) = 0
  BY <1>1, FS_EmptySet
<1>3. 0 \in N
  BY <1>2
<1>4. ASSUME NEW n \in Nat, n \in N
      PROVE  n + 1 \in N
  <2> SUFFICES ASSUME NEW T \in SUBSET S, Cardinality(T) = n + 1
               PROVE  T \in P
    OBVIOUS
  <2>1. T # {}
    BY <1>2
  <2>2. ASSUME NEW x \in T
        PROVE  T \ {x} \in P
    <3>1. Cardinality(T \ {x}) = Cardinality(T) - 1
      BY <1>1, FS_RemoveElement
    <3> QED
      BY <1>4, <3>1
  <2> QED
    BY <2>1, <2>2
<1> HIDE DEF N
<1>5. Nat \subseteq N
  BY <1>3, <1>4, NatInductive
<1> QED
  BY <1>1, <1>5 DEF N

-----------------------------------------------------------------------------
\* A recursion over the subsets of a finite set, which takes away the element
\* `pick` names: there is a function that solves it.
Solves(it, S, base, pick, step) ==
  /\ it[{}] = base
  /\ \A T \in SUBSET S : T # {} => it[T] = step[pick[T]][it[T \ {pick[T]}]]

LEMMA SetRecursion ==
  ASSUME NEW S, IsFiniteSet(S), NEW X, NEW base \in X,
         NEW pick \in [(SUBSET S) \ {{}} -> S], \A T \in (SUBSET S) \ {{}} : pick[T] \in T,
         NEW step \in [S -> [X -> X]]
  PROVE  \E it \in [SUBSET S -> X] : Solves(it, S, base, pick, step)
<1> DEFINE Upto(it, n) == \A T \in SUBSET S :
             T # {} /\ Cardinality(T) <= n => it[T] = step[pick[T]][it[T \ {pick[T]}]]
           N == {n \in Nat : \E it \in [SUBSET S -> X] : it[{}] = base /\ Upto(it, n)}
<1>1. \A T \in SUBSET S : IsFiniteSet(T) /\ Cardinality(T) \in Nat
  BY FS_Subset, FS_CardinalityType
<1>2. Cardinality({}) = 0 /\ \A T \in SUBSET S : T = {} <=> Cardinality(T) = 0
  BY <1>1, FS_EmptySet
<1>3. \A T \in SUBSET S : T # {} => /\ T \ {pick[T]} \in SUBSET S
                                   /\ Cardinality(T \ {pick[T]}) = Cardinality(T) - 1
  BY <1>1, FS_RemoveElement
<1>4. 0 \in N
  <2> DEFINE it == [T \in SUBSET S |-> base]
  <2>1. it \in [SUBSET S -> X] /\ it[{}] = base
    OBVIOUS
  <2>2. Upto(it, 0)
    BY <1>1, <1>2
  <2> QED
    BY <2>1, <2>2
<1>5. ASSUME NEW n \in Nat, n \in N
      PROVE  n + 1 \in N
  <2>1. PICK it \in [SUBSET S -> X] : it[{}] = base /\ Upto(it, n)
    BY <1>5
  <2> DEFINE new == [T \in SUBSET S |-> IF Cardinality(T) <= n THEN it[T]
                                        ELSE step[pick[T]][it[T \ {pick[T]}]]]
  <2>2. new[{}] = base
    BY <1>2, <2>1
  <2>3. new \in [SUBSET S -> X]
    <3>1. ASSUME NEW T \in SUBSET S, ~(Cardinality(T) <= n)
          PROVE  step[pick[T]][it[T \ {pick[T]}]] \in X
      <4>1. T # {}
        BY <1>2, <3>1
      <4> QED
        BY <1>3, <4>1
    <3> QED
      BY <3>1
  <2>4. ASSUME NEW T \in SUBSET S, T # {}, Cardinality(T) <= n + 1
        PROVE  new[T] = step[pick[T]][new[T \ {pick[T]}]]
    <3>1. new[T \ {pick[T]}] = it[T \ {pick[T]}]
      BY <1>1, <1>3, <2>4
    <3>2. CASE Cardinality(T) <= n
      BY <2>1, <2>4, <3>1, <3>2
    <3>3. CASE ~(Cardinality(T) <= n)
      BY <3>1, <3>3
    <3> QED
      BY <3>2, <3>3
  <2>5. Upto(new, n + 1)
    BY <2>4
  <2> HIDE DEF new, Upto
  <2> QED
    BY <2>2, <2>3, <2>5
<1>6. Nat \subseteq N
  <2> HIDE DEF N
  <2> QED
    BY <1>4, <1>5, NatInductive
<1>7. Cardinality(S) \in Nat /\ \A T \in SUBSET S : Cardinality(T) <= Cardinality(S)
  BY FS_Subset, FS_CardinalityType
<1>8. PICK it \in [SUBSET S -> X] : it[{}] = base /\ Upto(it, Cardinality(S))
  BY <1>6, <1>7
<1>9. Solves(it, S, base, pick, step)
  BY <1>7, <1>8 DEF Solves
<1> QED
  BY <1>9

-----------------------------------------------------------------------------
\* Sums: SumFunctionOnSet(f, S) of the community modules.
Some(T) == CHOOSE x \in T : TRUE
IsSum(it, f, S) ==
  it = [T \in SUBSET S |-> IF T = {} THEN 0 ELSE f[Some(T)] + it[T \ {Some(T)}]]
IntOn(f, S) == \A x \in S : f[x] \in Int
Agree(f, g, S) == \A x \in S : f[x] = g[x]

LEMMA SumExists ==
  ASSUME NEW S, IsFiniteSet(S), NEW f, IntOn(f, S)
  PROVE  \E it : IsSum(it, f, S)
<1> DEFINE pick == [T \in (SUBSET S) \ {{}} |-> Some(T)]
           step == [x \in S |-> [v \in Int |-> f[x] + v]]
<1>1. pick \in [(SUBSET S) \ {{}} -> S] /\ \A T \in (SUBSET S) \ {{}} : pick[T] \in T
  BY DEF Some
<1>2. step \in [S -> [Int -> Int]]
  BY DEF IntOn
<1>3. PICK it \in [SUBSET S -> Int] : Solves(it, S, 0, pick, step)
  <2> HIDE DEF pick, step
  <2>1. 0 \in Int
    OBVIOUS
  <2> QED
    BY <1>1, <1>2, <2>1, SetRecursion
<1>4. ASSUME NEW T \in SUBSET S, T # {}
      PROVE  it[T] = f[Some(T)] + it[T \ {Some(T)}]
  <2>1. pick[T] = Some(T) /\ Some(T) \in S /\ T \ {Some(T)} \in SUBSET S
    BY <1>1, <1>4
  <2>2. it[T] = step[pick[T]][it[T \ {pick[T]}]]
    BY <1>3, <1>4 DEF Solves
  <2>3. it[T \ {Some(T)}] \in Int
    BY <2>1
  <2> QED
    BY <2>1, <2>2, <2>3
<1>5. it[{}] = 0
  BY <1>3 DEF Solves
<1> QED
  BY <1>4, <1>5 DEF IsSum

\* The sums are integers and do not depend on the order in which elements are
\* taken.
LEMMA SumRemove ==
  ASSUME NEW S, IsFiniteSet(S), NEW f, IntOn(f, S), NEW it, IsSum(it, f, S)
  PROVE  \A T \in SUBSET S : /\ it[T] \in Int
                             /\ \A x \in T : it[T] = f[x] + it[T \ {x}]
<1>1. \A T \in SUBSET S : it[T] \in Int
  <2> DEFINE P == {T \in SUBSET S : it[T] \in Int}
  <2>1. {} \in P
    BY DEF IsSum
  <2>2. ASSUME NEW T \in SUBSET S, T # {}, \A x \in T : T \ {x} \in P
        PROVE  T \in P
    <3>1. Some(T) \in T
      BY <2>2 DEF Some
    <3>2. it[T] = f[Some(T)] + it[T \ {Some(T)}]
      BY <2>2 DEF IsSum
    <3>3. f[Some(T)] \in Int /\ it[T \ {Some(T)}] \in Int
      BY <2>2, <3>1 DEF IntOn
    <3> QED
      BY <3>2, <3>3
  <2> HIDE DEF P
  <2>3. SUBSET S \subseteq P
    BY <2>1, <2>2, SmallerFirst
  <2> QED
    BY <2>3 DEF P
<1> DEFINE P == {T \in SUBSET S : \A x \in T : it[T] = f[x] + it[T \ {x}]}
<1>2. {} \in P
  OBVIOUS
<1>3. ASSUME NEW T \in SUBSET S, T # {}, \A x \in T : T \ {x} \in P
      PROVE  T \in P
  <2> DEFINE p == Some(T)
  <2>1. p \in T
    BY <1>3 DEF Some
  <2>2. it[T] = f[p] + it[T \ {p}]
    BY <1>3 DEF IsSum
  <2> HIDE DEF p
  <2>3. ASSUME NEW x \in T, x # p
        PROVE  it[T] = f[x] + it[T \ {x}]
    <3> DEFINE rest == it[(T \ {x}) \ {p}]
    <3>1. it[T \ {p}] = f[x] + it[(T \ {p}) \ {x}]
      BY <1>3, <2>1, <2>3
    <3>2. it[T \ {x}] = f[p] + rest
      BY <1>3, <2>1, <2>3
    <3>3. (T \ {p}) \ {x} = (T \ {x}) \ {p}
      OBVIOUS
    <3>4. f[p] \in Int /\ f[x] \in Int /\ rest \in Int
      BY <1>1, <2>1 DEF IntOn
    <3>5. it[T \ {p}] = f[x] + rest
      BY <3>1, <3>3
    <3> HIDE DEF rest
    <3> QED
      BY <2>2, <3>2, <3>4, <3>5
  <2> QED
    BY <2>2, <2>3
<1> HIDE DEF P
<1>4. SUBSET S \subseteq P
  BY <1>2, <1>3, SmallerFirst
<1> QED
  BY <1>1, <1>4 DEF P

\* Two sums over functions that agree agree.
LEMMA SumSame ==
  ASSUME NEW S, IsFiniteSet(S), NEW f, IntOn(f, S), NEW g, NEW R, S \subseteq R,
         Agree(f, g, S), NEW it, IsSum(it, f, S), NEW jt, IsSum(jt, g, R)
  PROVE  \A T \in SUBSET S : it[T] = jt[T]
<1> DEFINE P == {T \in SUBSET S : it[T] = jt[T]}
<1>1. {} \in P
  BY DEF IsSum
<1>2. ASSUME NEW T \in SUBSET S, T # {}, \A x \in T : T \ {x} \in P
      PROVE  T \in P
  <2>1. Some(T) \in T /\ T \in SUBSET R
    BY <1>2 DEF Some
  <2>2. it[T] = f[Some(T)] + it[T \ {Some(T)}]
    BY <1>2 DEF IsSum
  <2>3. jt[T] = g[Some(T)] + jt[T \ {Some(T)}]
    BY <1>2, <2>1 DEF IsSum
  <2> QED
    BY <1>2, <2>1, <2>2, <2>3 DEF Agree
<1> HIDE DEF P
<1>3. SUBSET S \subseteq P
  BY <1>1, <1>2, SmallerFirst
<1> QED
  BY <1>3 DEF P

\* What the sum of the community modules is.
LEMMA SumIsSum ==
  ASSUME NEW S, IsFiniteSet(S), NEW f, IntOn(f, S)
  PROVE  \E it : IsSum(it, f, S) /\ SumFunctionOnSet(f, S) = it[S]
<1> DEFINE it == CHOOSE it : IsSum(it, f, S)
<1>1. IsSum(it, f, S)
  BY SumExists
<1>2. SumFunctionOnSet(f, S) = it[S]
  BY DEF IsSum, Some, SumFunctionOnSet, FoldFunctionOnSet, MapThenFoldSet
<1> HIDE DEF it
<1> QED
  BY <1>1, <1>2

LEMMA SumOverSubset ==
  ASSUME NEW S, IsFiniteSet(S), NEW f, IntOn(f, S), NEW it, IsSum(it, f, S)
  PROVE  \A T \in SUBSET S : SumFunctionOnSet(f, T) = it[T]
<1> SUFFICES ASSUME NEW T \in SUBSET S
             PROVE  SumFunctionOnSet(f, T) = it[T]
  OBVIOUS
<1>1. IsFiniteSet(T) /\ IntOn(f, T) /\ T \subseteq S /\ Agree(f, f, T)
  BY FS_Subset DEF IntOn, Agree
<1>2. PICK jt : IsSum(jt, f, T) /\ SumFunctionOnSet(f, T) = jt[T]
  BY <1>1, SumIsSum
<1>3. \A U \in SUBSET T : jt[U] = it[U]
  BY <1>1, <1>2, SumSame
<1> QED
  BY <1>2, <1>3

\* The facts the models' proofs use: the empty sum, one element less, one more,
\* and functions that agree.
LEMMA SumOfNone == \A f : SumFunctionOnSet(f, {}) = 0
<1> SUFFICES ASSUME NEW f PROVE SumFunctionOnSet(f, {}) = 0
  OBVIOUS
<1>1. IsFiniteSet({}) /\ IntOn(f, {})
  BY FS_EmptySet DEF IntOn
<1>2. PICK it : IsSum(it, f, {}) /\ SumFunctionOnSet(f, {}) = it[{}]
  BY <1>1, SumIsSum
<1> QED
  BY <1>2 DEF IsSum

LEMMA SumWithout ==
  ASSUME NEW S, IsFiniteSet(S), NEW f, IntOn(f, S)
  PROVE  /\ SumFunctionOnSet(f, S) \in Int
         /\ \A x \in S : SumFunctionOnSet(f, S) = f[x] + SumFunctionOnSet(f, S \ {x})
<1>1. PICK it : IsSum(it, f, S)
  BY SumExists
<1>2. \A T \in SUBSET S : SumFunctionOnSet(f, T) = it[T]
  BY <1>1, SumOverSubset
<1>3. it[S] \in Int /\ \A x \in S : it[S] = f[x] + it[S \ {x}]
  BY <1>1, SumRemove
<1>4. S \in SUBSET S /\ \A x \in S : S \ {x} \in SUBSET S
  OBVIOUS
<1> QED
  BY <1>2, <1>3, <1>4

LEMMA SumWith ==
  ASSUME NEW S, IsFiniteSet(S), NEW x, x \notin S, NEW f, IntOn(f, S \cup {x})
  PROVE  SumFunctionOnSet(f, S \cup {x}) = f[x] + SumFunctionOnSet(f, S)
<1>1. IsFiniteSet(S \cup {x}) /\ (S \cup {x}) \ {x} = S /\ x \in S \cup {x}
  BY FS_AddElement
<1> QED
  BY <1>1, SumWithout

LEMMA SumCongruent ==
  ASSUME NEW S, IsFiniteSet(S), NEW f, NEW g, IntOn(f, S), Agree(f, g, S)
  PROVE  SumFunctionOnSet(f, S) = SumFunctionOnSet(g, S)
<1>1. IntOn(g, S)
  BY DEF IntOn, Agree
<1>2. PICK it : IsSum(it, f, S) /\ SumFunctionOnSet(f, S) = it[S]
  BY SumIsSum
<1>3. PICK jt : IsSum(jt, g, S) /\ SumFunctionOnSet(g, S) = jt[S]
  BY <1>1, SumIsSum
<1> QED
  BY <1>2, <1>3, SumSame

\* One summand changes; one is added; the others agree.
LEMMA SumChanged ==
  ASSUME NEW S, IsFiniteSet(S), NEW x \in S, NEW f, NEW g, IntOn(f, S), IntOn(g, S),
         Agree(f, g, S \ {x})
  PROVE  SumFunctionOnSet(g, S) = SumFunctionOnSet(f, S) - f[x] + g[x]
<1>1. IsFiniteSet(S \ {x}) /\ IntOn(f, S \ {x}) /\ f[x] \in Int /\ g[x] \in Int
  BY FS_RemoveElement DEF IntOn
<1>2. SumFunctionOnSet(f, S \ {x}) = SumFunctionOnSet(g, S \ {x})
  BY <1>1, SumCongruent
<1>3. SumFunctionOnSet(f, S \ {x}) \in Int
  BY <1>1, SumWithout
<1>4. /\ SumFunctionOnSet(f, S) = f[x] + SumFunctionOnSet(f, S \ {x})
      /\ SumFunctionOnSet(g, S) = g[x] + SumFunctionOnSet(g, S \ {x})
  BY SumWithout
<1> QED
  BY <1>1, <1>2, <1>3, <1>4

LEMMA SumExtended ==
  ASSUME NEW S, IsFiniteSet(S), NEW x, x \notin S, NEW f, NEW g, IntOn(f, S),
         g[x] \in Int, Agree(f, g, S)
  PROVE  SumFunctionOnSet(g, S \cup {x}) = SumFunctionOnSet(f, S) + g[x]
<1>1. IntOn(g, S \cup {x})
  BY DEF IntOn, Agree
<1>2. SumFunctionOnSet(f, S) = SumFunctionOnSet(g, S) /\ SumFunctionOnSet(f, S) \in Int
  BY SumCongruent, SumWithout
<1>3. SumFunctionOnSet(g, S \cup {x}) = g[x] + SumFunctionOnSet(g, S)
  BY <1>1, SumWith
<1> QED
  BY <1>2, <1>3

\* A summand that is the same for every element.
LEMMA SumOfConstant ==
  ASSUME NEW S, IsFiniteSet(S), NEW c \in Int, NEW f, \A x \in S : f[x] = c
  PROVE  SumFunctionOnSet(f, S) = c * Cardinality(S)
<1> DEFINE P == {T \in SUBSET S : SumFunctionOnSet(f, T) = c * Cardinality(T)}
<1>1. {} \in P
  BY SumOfNone, FS_EmptySet
<1>2. ASSUME NEW T \in SUBSET S, T # {}, \A x \in T : T \ {x} \in P
      PROVE  T \in P
  <2>1. IsFiniteSet(T) /\ IntOn(f, T)
    BY FS_Subset DEF IntOn
  <2>2. PICK x \in T : TRUE
    BY <1>2
  <2>3. SumFunctionOnSet(f, T) = c + SumFunctionOnSet(f, T \ {x})
    BY <2>1, SumWithout
  <2>4. SumFunctionOnSet(f, T \ {x}) = c * Cardinality(T \ {x})
    BY <1>2
  <2>5. Cardinality(T) \in Nat /\ Cardinality(T \ {x}) = Cardinality(T) - 1
    BY <2>1, FS_RemoveElement, FS_CardinalityType
  <2>6. \A n \in Nat : c + c * (n - 1) = c * n
    OBVIOUS
  <2> QED
    BY <2>3, <2>4, <2>5, <2>6
<1> HIDE DEF P
<1>3. S \in P
  BY <1>1, <1>2, SmallerFirst
<1> QED
  BY <1>3 DEF P

\* A sum of summands that are bounded.
LEMMA SumAtMost ==
  ASSUME NEW S, IsFiniteSet(S), NEW c \in Int, NEW f, IntOn(f, S), \A x \in S : f[x] <= c
  PROVE  SumFunctionOnSet(f, S) <= c * Cardinality(S)
<1> DEFINE P == {T \in SUBSET S : SumFunctionOnSet(f, T) <= c * Cardinality(T)}
<1>1. {} \in P
  BY SumOfNone, FS_EmptySet
<1>2. ASSUME NEW T \in SUBSET S, T # {}, \A x \in T : T \ {x} \in P
      PROVE  T \in P
  <2>1. IsFiniteSet(T) /\ IntOn(f, T)
    BY FS_Subset DEF IntOn
  <2>2. PICK x \in T : TRUE
    BY <1>2
  <2>3. SumFunctionOnSet(f, T) = f[x] + SumFunctionOnSet(f, T \ {x})
    BY <2>1, SumWithout
  <2>4. SumFunctionOnSet(f, T \ {x}) <= c * Cardinality(T \ {x})
    BY <1>2
  <2>5. Cardinality(T) \in Nat /\ Cardinality(T \ {x}) = Cardinality(T) - 1
    BY <2>1, FS_RemoveElement, FS_CardinalityType
  <2>6. \A n \in Nat : c + c * (n - 1) = c * n /\ c * (n - 1) \in Int
    OBVIOUS
  <2>7. f[x] \in Int /\ f[x] <= c /\ SumFunctionOnSet(f, T \ {x}) \in Int
    <3>1. IsFiniteSet(T \ {x}) /\ IntOn(f, T \ {x})
      BY <2>1, FS_Subset DEF IntOn
    <3> QED
      BY <3>1, SumWithout DEF IntOn
  <2>8. SumFunctionOnSet(f, T) <= c * Cardinality(T)
    <3> DEFINE n == Cardinality(T)
               rest == SumFunctionOnSet(f, T \ {x})
    <3>1. rest <= c * (n - 1) /\ rest \in Int /\ n \in Nat
      BY <2>4, <2>5, <2>7
    <3> HIDE DEF n, rest
    <3>2. f[x] + rest <= c + c * (n - 1)
      BY <2>6, <2>7, <3>1
    <3>3. f[x] + rest <= c * n
      BY <2>6, <3>1, <3>2
    <3> QED
      BY <2>3, <3>3 DEF n, rest
  <2> QED
    BY <2>8
<1> HIDE DEF P
<1>3. S \in P
  BY <1>1, <1>2, SmallerFirst
<1> QED
  BY <1>3 DEF P

LEMMA SumAtLeastNothing ==
  ASSUME NEW S, IsFiniteSet(S), NEW f, \A x \in S : f[x] \in Nat
  PROVE  SumFunctionOnSet(f, S) \in Nat
<1> DEFINE P == {T \in SUBSET S : SumFunctionOnSet(f, T) \in Nat}
<1>1. {} \in P
  BY SumOfNone
<1>2. ASSUME NEW T \in SUBSET S, T # {}, \A x \in T : T \ {x} \in P
      PROVE  T \in P
  <2>1. IsFiniteSet(T) /\ IntOn(f, T)
    BY FS_Subset DEF IntOn
  <2>2. PICK x \in T : TRUE
    BY <1>2
  <2>3. SumFunctionOnSet(f, T) = f[x] + SumFunctionOnSet(f, T \ {x})
    BY <2>1, SumWithout
  <2>4. SumFunctionOnSet(f, T \ {x}) \in Nat
    BY <1>2
  <2> QED
    BY <2>3, <2>4
<1> HIDE DEF P
<1>3. S \in P
  BY <1>1, <1>2, SmallerFirst
<1> QED
  BY <1>3 DEF P

\* Summands that are zero outside T.
LEMMA SumOfPart ==
  ASSUME NEW S, IsFiniteSet(S), NEW T \in SUBSET S, NEW f, IntOn(f, S),
         \A x \in S \ T : f[x] = 0
  PROVE  SumFunctionOnSet(f, S) = SumFunctionOnSet(f, T)
<1> DEFINE P == {U \in SUBSET (S \ T) :
                   SumFunctionOnSet(f, T \cup U) = SumFunctionOnSet(f, T)}
<1>0. IsFiniteSet(S \ T)
  BY FS_Subset
<1>1. {} \in P
  BY Zenon
<1>2. ASSUME NEW U \in SUBSET (S \ T), U # {}, \A x \in U : U \ {x} \in P
      PROVE  U \in P
  <2>1. PICK x \in U : TRUE
    BY <1>2
  <2>2. IsFiniteSet(T \cup U) /\ IntOn(f, T \cup U) /\ T \cup U \subseteq S
    BY FS_Subset DEF IntOn
  <2>3. x \in T \cup U /\ (T \cup U) \ {x} = T \cup (U \ {x})
    BY <2>1
  <2>4. SumFunctionOnSet(f, T \cup U) = f[x] + SumFunctionOnSet(f, T \cup (U \ {x}))
    BY <2>2, <2>3, SumWithout
  <2>5. f[x] = 0 /\ SumFunctionOnSet(f, T \cup (U \ {x})) = SumFunctionOnSet(f, T)
    BY <1>2, <2>1
  <2>6. SumFunctionOnSet(f, T) \in Int
    <3>1. IsFiniteSet(T) /\ IntOn(f, T)
      BY FS_Subset DEF IntOn
    <3> QED
      BY <3>1, SumWithout
  <2> QED
    BY <2>4, <2>5, <2>6
<1> HIDE DEF P
<1> DEFINE R == S \ T
<1>3. S \ T \in P
  <2>1. \A U \in SUBSET R : U # {} /\ (\A x \in U : U \ {x} \in P) => U \in P
    BY <1>2
  <2> HIDE DEF R
  <2>2. SUBSET R \subseteq P
    <3>1. IsFiniteSet(R)
      BY <1>0 DEF R
    <3> QED
      BY <1>1, <2>1, <3>1, SmallerFirst
  <2> QED
    BY <2>2 DEF R
<1>4. T \cup (S \ T) = S
  OBVIOUS
<1> QED
  BY <1>3, <1>4 DEF P

\* The same numbers under other names.
LEMMA SumReindexed ==
  ASSUME NEW S, IsFiniteSet(S), NEW f, IntOn(f, S), NEW T, NEW g, NEW h \in [S -> T],
         \A x, y \in S : h[x] = h[y] => x = y, \A z \in T : \E x \in S : h[x] = z,
         \A x \in S : f[x] = g[h[x]]
  PROVE  SumFunctionOnSet(f, S) = SumFunctionOnSet(g, T)
<1> DEFINE Image(U) == {h[x] : x \in U}
           P == {U \in SUBSET S : /\ IsFiniteSet(Image(U)) /\ IntOn(g, Image(U))
                                  /\ SumFunctionOnSet(f, U) = SumFunctionOnSet(g, Image(U))}
<1>1. {} \in P
  BY SumOfNone, FS_EmptySet DEF IntOn
<1>2. ASSUME NEW U \in SUBSET S, U # {}, \A x \in U : U \ {x} \in P
      PROVE  U \in P
  <2>1. PICK x \in U : TRUE
    BY <1>2
  <2> DEFINE R == U \ {x}
             z == h[x]
  <2>2. /\ R \in SUBSET S /\ IsFiniteSet(Image(R)) /\ IntOn(g, Image(R))
        /\ SumFunctionOnSet(f, R) = SumFunctionOnSet(g, Image(R))
    BY <1>2, <2>1
  <2>3. Image(U) = Image(R) \cup {z} /\ z \notin Image(R) /\ x \notin R /\ U = R \cup {x}
        /\ x \in S /\ g[z] = f[x] /\ f[x] \in Int
    BY <2>1 DEF IntOn
  <2>4. IsFiniteSet(R) /\ IntOn(f, R \cup {x})
    BY <2>3, FS_Subset DEF IntOn
  <2> HIDE DEF R, Image, z
  <2>5. IsFiniteSet(Image(U)) /\ IntOn(g, Image(U))
    BY <2>2, <2>3, FS_AddElement DEF IntOn
  <2>6. SumFunctionOnSet(f, U) = f[x] + SumFunctionOnSet(f, R)
    BY <2>3, <2>4, SumWith
  <2>7. SumFunctionOnSet(g, Image(U)) = g[z] + SumFunctionOnSet(g, Image(R))
    <3>1. IntOn(g, Image(R) \cup {z})
      BY <2>3, <2>5
    <3>2. SumFunctionOnSet(g, Image(R) \cup {z}) = g[z] + SumFunctionOnSet(g, Image(R))
      <4>1. IsFiniteSet(Image(R)) /\ z \notin Image(R)
        BY <2>2, <2>3
      <4> QED
        BY <3>1, <4>1, SumWith
    <3> QED
      BY <2>3, <3>2
  <2>8. SumFunctionOnSet(f, U) = SumFunctionOnSet(g, Image(U))
    BY <2>2, <2>3, <2>6, <2>7
  <2> QED
    BY <2>5, <2>8
<1> HIDE DEF P
<1>3. S \in P
  BY <1>1, <1>2, SmallerFirst
<1>4. Image(S) = T
  OBVIOUS
<1> QED
  BY <1>3, <1>4 DEF P

\* The elements behind one that is taken out of a list move up.
LEMMA SumRemovedAt ==
  ASSUME NEW n \in Nat, NEW at \in 1 .. n, NEW f, IntOn(f, 1 .. n), NEW g,
         \A j \in 1 .. n - 1 : g[j] = f[IF j < at THEN j ELSE j + 1]
  PROVE  SumFunctionOnSet(g, 1 .. n - 1) = SumFunctionOnSet(f, 1 .. n) - f[at]
<1> DEFINE S == 1 .. n - 1
           T == (1 .. n) \ {at}
           h == [j \in S |-> IF j < at THEN j ELSE j + 1]
<1>1. IsFiniteSet(S) /\ IsFiniteSet(1 .. n) /\ IsFiniteSet(T)
  <2>1. n \in Int /\ n - 1 \in Int /\ 1 \in Int /\ T \subseteq 1 .. n
    OBVIOUS
  <2> HIDE DEF T
  <2>2. IsFiniteSet(1 .. n)
    BY <2>1, FS_Interval
  <2>3. IsFiniteSet(S)
    BY <2>1, FS_Interval
  <2> QED
    BY <2>1, <2>2, <2>3, FS_Subset
<1>2. h \in [S -> T] /\ \A x, y \in S : h[x] = h[y] => x = y
  OBVIOUS
<1>3. ASSUME NEW z \in T PROVE \E x \in S : h[x] = z
  <2>1. CASE z < at
    <3>1. z \in S /\ h[z] = z
      BY <2>1
    <3> QED
      BY <3>1
  <2>2. CASE ~(z < at)
    <3>1. z - 1 \in S /\ h[z - 1] = z
      BY <2>2
    <3> QED
      BY <3>1
  <2> QED
    BY <2>1, <2>2
<1>4. \A x \in S : g[x] = f[h[x]]
  OBVIOUS
<1>5. IntOn(f, T) /\ IntOn(g, S)
  BY <1>2, <1>4 DEF IntOn
<1> HIDE DEF h, T, S
<1>6. SumFunctionOnSet(g, S) = SumFunctionOnSet(f, T)
  BY <1>1, <1>2, <1>3, <1>4, <1>5, SumReindexed
<1>7. SumFunctionOnSet(f, 1 .. n) = f[at] + SumFunctionOnSet(f, T)
  BY <1>1, SumWithout DEF T
<1>8. f[at] \in Int /\ SumFunctionOnSet(f, T) \in Int
  BY <1>1, <1>5, SumWithout DEF IntOn
<1> QED
  BY <1>6, <1>7, <1>8 DEF S

-----------------------------------------------------------------------------
\* A recursion over 1 .. n.
Follows(f, n, base, step) ==
  /\ f[0] = base
  /\ \A i \in 1 .. n : f[i] = step[i][f[i - 1]]

LEMMA NatRecursion ==
  ASSUME NEW n \in Nat, NEW X, NEW base \in X, NEW step \in [1 .. n -> [X -> X]]
  PROVE  \E f \in [0 .. n -> X] : Follows(f, n, base, step)
<1> DEFINE S == {k \in 0 .. n : \E f \in [0 .. n -> X] : Follows(f, k, base, step)}
<1>1. 0 \in S
  <2> DEFINE f == [i \in 0 .. n |-> base]
  <2>1. f \in [0 .. n -> X] /\ Follows(f, 0, base, step)
    BY DEF Follows
  <2> QED
    BY <2>1
<1>2. ASSUME NEW k \in 0 .. n - 1, k \in S
      PROVE  k + 1 \in S
  <2>1. PICK f \in [0 .. n -> X] : Follows(f, k, base, step)
    BY <1>2
  <2> DEFINE g == [f EXCEPT ![k + 1] = step[k + 1][f[k]]]
  <2>2. g \in [0 .. n -> X]
    OBVIOUS
  <2>3. Follows(g, k + 1, base, step)
    BY <2>1 DEF Follows
  <2> HIDE DEF g
  <2> QED
    BY <2>2, <2>3
<1> HIDE DEF S
<1>3. 0 .. n \subseteq S
  BY <1>1, <1>2, UpTo
<1> QED
  BY <1>3 DEF S

-----------------------------------------------------------------------------
\* Kept(list, keep) holds the elements of `list` that are in `keep`, in their
\* order: `from` says where each of them stood.
KeptFrom(list, keep, n, kept, from) ==
  /\ kept \in Seq(keep)
  /\ from \in [1 .. Len(kept) -> {i \in 1 .. n : list[i] \in keep}]
  /\ \A j \in 1 .. Len(kept) : kept[j] = list[from[j]]
  /\ \A j, k \in 1 .. Len(kept) : j < k => from[j] < from[k]
  /\ \A i \in 1 .. n : list[i] \in keep => \E j \in 1 .. Len(kept) : from[j] = i

\* The prefixes of the recursion in Kept.
IsKept(f, list, keep) ==
  f = [n \in 0 .. Len(list) |->
         IF n = 0 THEN <<>>
         ELSE IF list[n] \in keep THEN Append(f[n - 1], list[n]) ELSE f[n - 1]]

LEMMA MoreValues == \A S, T : S \subseteq T => Seq(S) \subseteq Seq(T)
<1> SUFFICES ASSUME NEW S, NEW T, S \subseteq T, NEW s \in Seq(S)
             PROVE  s \in Seq(T)
  OBVIOUS
<1>1. Len(s) \in Nat /\ s \in [1 .. Len(s) -> S]
  OBVIOUS
<1>2. s \in [1 .. Len(s) -> T]
  BY <1>1
<1> QED
  BY <1>1, <1>2

LEMMA KeptExists ==
  ASSUME NEW V, NEW list \in Seq(V), NEW keep
  PROVE  \E f : IsKept(f, list, keep)
<1> DEFINE n == Len(list)
           X == Seq(V)
           step == [i \in 1 .. n |-> [x \in X |->
                      IF list[i] \in keep THEN Append(x, list[i]) ELSE x]]
<1>1. n \in Nat /\ <<>> \in X
  OBVIOUS
<1>2. step \in [1 .. n -> [X -> X]]
  OBVIOUS
<1>3. PICK f \in [0 .. n -> X] : Follows(f, n, <<>>, step)
  <2> HIDE DEF step, X, n
  <2> QED
    BY <1>1, <1>2, NatRecursion
<1>4. ASSUME NEW i \in 1 .. n
      PROVE  f[i] = IF list[i] \in keep THEN Append(f[i - 1], list[i]) ELSE f[i - 1]
  <2>1. f[i] = step[i][f[i - 1]]
    BY <1>3 DEF Follows
  <2>2. f[i - 1] \in X
    BY <1>3
  <2> QED
    BY <2>1, <2>2
<1>5. f[0] = <<>>
  BY <1>3 DEF Follows
<1>6. \A i \in 0 .. n : f[i] = IF i = 0 THEN <<>>
                             ELSE IF list[i] \in keep THEN Append(f[i - 1], list[i])
                             ELSE f[i - 1]
  <2> SUFFICES ASSUME NEW i \in 0 .. n, i # 0
               PROVE  i \in 1 .. n
    BY <1>4, <1>5
  <2> QED
    OBVIOUS
<1>7. IsKept(f, list, keep)
  BY <1>6 DEF IsKept
<1> QED
  BY <1>7

LEMMA KeptIs ==
  ASSUME NEW V, NEW list \in Seq(V), NEW keep
  PROVE  \E from : KeptFrom(list, keep, Len(list), Kept(list, keep), from)
<1> DEFINE f == CHOOSE f : IsKept(f, list, keep)
           n == Len(list)
           S == {k \in 0 .. n : \E from : KeptFrom(list, keep, k, f[k], from)}
<1>1. IsKept(f, list, keep)
  BY KeptExists
<1>2. Kept(list, keep) = f[n]
  BY DEF Kept, IsKept
<1> HIDE DEF f
<1>3. 0 \in S
  <2> DEFINE from == [j \in {} |-> 1]
  <2>1. f[0] = <<>>
    BY <1>1 DEF IsKept
  <2>2. KeptFrom(list, keep, 0, f[0], from)
    BY <2>1 DEF KeptFrom
  <2> QED
    BY <2>2
<1>4. ASSUME NEW k \in 0 .. n - 1, k \in S
      PROVE  k + 1 \in S
  <2>1. PICK from : KeptFrom(list, keep, k, f[k], from)
    BY <1>4
  <2>2. f[k + 1] = IF list[k + 1] \in keep THEN Append(f[k], list[k + 1]) ELSE f[k]
    <3>1. k + 1 \in 0 .. n /\ k + 1 # 0 /\ (k + 1) - 1 = k
      OBVIOUS
    <3>2. \A i \in 0 .. n : i # 0 =>
            f[i] = IF list[i] \in keep THEN Append(f[i - 1], list[i]) ELSE f[i - 1]
      BY <1>1 DEF IsKept
    <3> QED
      BY <3>1, <3>2
  <2>3. CASE list[k + 1] \in keep
    <3> DEFINE m == Len(f[k])
               next == [j \in 1 .. m + 1 |-> IF j = m + 1 THEN k + 1 ELSE from[j]]
    <3>1. f[k + 1] = Append(f[k], list[k + 1]) /\ f[k] \in Seq(keep)
      BY <2>1, <2>2, <2>3 DEF KeptFrom
    <3>2. /\ f[k + 1] \in Seq(keep) /\ Len(f[k + 1]) = m + 1 /\ m \in Nat
          /\ \A j \in 1 .. m : f[k + 1][j] = f[k][j]
          /\ f[k + 1][m + 1] = list[k + 1]
      BY <2>3, <3>1
    <3>3. /\ from \in [1 .. m -> {i \in 1 .. k : list[i] \in keep}]
          /\ \A j \in 1 .. m : f[k][j] = list[from[j]]
          /\ \A i, j \in 1 .. m : i < j => from[i] < from[j]
          /\ \A i \in 1 .. k : list[i] \in keep => \E j \in 1 .. m : from[j] = i
      BY <2>1 DEF KeptFrom
    <3> HIDE DEF m
    <3>4. next \in [1 .. m + 1 -> {i \in 1 .. k + 1 : list[i] \in keep}]
      BY <2>3, <3>2, <3>3
    <3>5. \A j \in 1 .. m + 1 : f[k + 1][j] = list[next[j]]
      BY <3>2, <3>3
    <3>6. \A i, j \in 1 .. m + 1 : i < j => next[i] < next[j]
      BY <3>2, <3>3
    <3>7. \A i \in 1 .. k + 1 : list[i] \in keep => \E j \in 1 .. m + 1 : next[j] = i
      BY <3>2, <3>3
    <3> HIDE DEF next
    <3>8. KeptFrom(list, keep, k + 1, f[k + 1], next)
      BY <3>2, <3>4, <3>5, <3>6, <3>7 DEF KeptFrom
    <3> QED
      BY <3>8
  <2>4. CASE list[k + 1] \notin keep
    <3>1. KeptFrom(list, keep, k + 1, f[k + 1], from)
      BY <2>1, <2>2, <2>4 DEF KeptFrom
    <3> QED
      BY <3>1
  <2> QED
    BY <2>3, <2>4
<1>5. n \in Nat
  OBVIOUS
<1> HIDE DEF S
<1>6. 0 .. n \subseteq S
  BY <1>3, <1>4, <1>5, UpTo
<1>7. n \in S
  BY <1>5, <1>6
<1> QED
  BY <1>2, <1>7 DEF S

\* The same with domains: where in `list` the elements of `kept` come from.
Picks(from, list, kept, keep) ==
  /\ from \in [DOMAIN kept -> DOMAIN list]
  /\ \A j \in DOMAIN kept : kept[j] = list[from[j]] /\ kept[j] \in keep
  /\ \A j, k \in DOMAIN kept : from[j] = from[k] => j = k
  /\ \A i \in DOMAIN list : list[i] \in keep => \E j \in DOMAIN kept : from[j] = i

LEMMA KeptElements ==
  ASSUME NEW V, NEW list \in Seq(V), NEW keep
  PROVE  /\ Kept(list, keep) \in Seq(V)
         /\ \E from : Picks(from, list, Kept(list, keep), keep)
<1> DEFINE kept == Kept(list, keep)
<1>1. PICK from : KeptFrom(list, keep, Len(list), kept, from)
  BY KeptIs
<1> HIDE DEF kept
<1>2. kept \in Seq(keep) /\ DOMAIN kept = 1 .. Len(kept) /\ Len(kept) \in Nat
      /\ DOMAIN list = 1 .. Len(list)
  BY <1>1 DEF KeptFrom
<1>3. /\ from \in [DOMAIN kept -> {i \in DOMAIN list : list[i] \in keep}]
      /\ \A j \in DOMAIN kept : kept[j] = list[from[j]]
      /\ \A i \in DOMAIN list : list[i] \in keep => \E j \in DOMAIN kept : from[j] = i
  BY <1>1, <1>2 DEF KeptFrom
<1>4. ASSUME NEW j \in DOMAIN kept, NEW k \in DOMAIN kept, from[j] = from[k] PROVE j = k
  <2>1. j \in Nat /\ k \in Nat /\ from[j] \in Nat /\ from[k] \in Nat
    BY <1>2, <1>3
  <2>2. (j < k => from[j] < from[k]) /\ (k < j => from[k] < from[j])
    BY <1>1, <1>2 DEF KeptFrom
  <2> QED
    BY <1>4, <2>1, <2>2
<1>5. kept \in Seq(V)
  <2>1. \A j \in DOMAIN kept : kept[j] \in V
    BY <1>3
  <2>2. kept \in [1 .. Len(kept) -> V]
    BY <1>2, <2>1
  <2> QED
    BY <1>2, <2>2
<1>6. from \in [DOMAIN kept -> DOMAIN list]
  BY <1>3
<1> QED
  BY <1>2, <1>3, <1>4, <1>5, <1>6 DEF kept, Picks

-----------------------------------------------------------------------------
\* One element taken out of a list.
LEMMA RemovedAt ==
  ASSUME NEW V, NEW list \in Seq(V), NEW at \in 1 .. Len(list)
  PROVE  /\ RemoveAt(list, at) \in Seq(V) /\ Len(RemoveAt(list, at)) = Len(list) - 1
         /\ \A j \in 1 .. Len(list) - 1 :
              RemoveAt(list, at)[j] = IF j < at THEN list[j] ELSE list[j + 1]
<1> DEFINE before == SubSeq(list, 1, at - 1)
           after == SubSeq(list, at + 1, Len(list))
<1>1. /\ before \in Seq(V) /\ Len(before) = at - 1
      /\ \A j \in 1 .. at - 1 : before[j] = list[j]
  OBVIOUS
<1>2. /\ after \in Seq(V) /\ Len(after) = Len(list) - at
      /\ \A j \in 1 .. Len(list) - at : after[j] = list[at + j]
  OBVIOUS
<1>3. RemoveAt(list, at) = before \o after
  BY DEF RemoveAt
<1> HIDE DEF before, after
<1>4. before \o after \in Seq(V) /\ Len(before \o after) = Len(list) - 1
  BY <1>1, <1>2
<1>5. ASSUME NEW j \in 1 .. Len(list) - 1
      PROVE  (before \o after)[j] = IF j < at THEN list[j] ELSE list[j + 1]
  <2>1. CASE j < at
    BY <1>1, <1>2, <2>1
  <2>2. CASE ~(j < at)
    <3>1. j - (at - 1) \in 1 .. Len(list) - at /\ at + (j - (at - 1)) = j + 1
      BY <2>2
    <3>2. (before \o after)[j] = after[j - (at - 1)]
      BY <1>1, <1>2, <2>2, <3>1
    <3> QED
      BY <1>2, <2>2, <3>1, <3>2
  <2> QED
    BY <2>1, <2>2
<1> QED
  BY <1>3, <1>4, <1>5

\* Of some positions, the last one among those with the lowest rank.
LEMMA LowestLast ==
  ASSUME NEW n \in Nat, NEW T, T \subseteq 1 .. n, T # {}, NEW rank, \A k \in T : rank[k] \in Nat
  PROVE  \E m \in T : \A k \in T : rank[k] > rank[m] \/ (rank[k] = rank[m] /\ k <= m)
<1>1. \A k \in T : k \in Nat
  OBVIOUS
<1> DEFINE ranks == {rank[k] : k \in T}
<1>2. ranks \subseteq Nat /\ ranks # {}
  OBVIOUS
<1>3. PICK p \in ranks : \A q \in ranks : p <= q
  BY <1>2, LeastNatural
<1> DEFINE last == {n - k : k \in {j \in T : rank[j] = p}}
<1>4. last \subseteq Nat /\ last # {}
  BY <1>3
<1>5. PICK d \in last : \A e \in last : d <= e
  <2> HIDE DEF last
  <2> QED
    BY <1>4, LeastNatural
<1>6. PICK m \in T : rank[m] = p /\ d = n - m
  BY <1>5
<1>7. ASSUME NEW k \in T
      PROVE  rank[k] > rank[m] \/ (rank[k] = rank[m] /\ k <= m)
  <2>1. CASE rank[k] = p
    <3>1. n - m <= n - k
      BY <1>5, <1>6, <2>1
    <3>2. k \in Nat /\ m \in Nat
      BY <1>1
    <3> QED
      BY <1>6, <2>1, <3>1, <3>2
  <2>2. CASE rank[k] # p
    <3>1. p <= rank[k] /\ p \in Nat /\ rank[k] \in Nat
      BY <1>2, <1>3
    <3> QED
      BY <1>6, <2>2, <3>1
  <2> QED
    BY <2>1, <2>2
<1> QED
  BY <1>7

\* The extremes of the community modules.
LEMMA LeastOf ==
  ASSUME NEW S, S \subseteq Nat, S # {} PROVE Min(S) \in S /\ \A x \in S : Min(S) <= x
BY LeastNatural DEF Min

LEMMA GreatestOf ==
  ASSUME NEW S, IsFiniteSet(S), S \subseteq Nat, S # {}
  PROVE  Max(S) \in S /\ \A x \in S : x <= Max(S)
<1> DEFINE P == {T \in SUBSET S : T # {} => \E m \in T : \A x \in T : x <= m}
<1>1. {} \in P
  OBVIOUS
<1>2. ASSUME NEW T \in SUBSET S, T # {}, \A x \in T : T \ {x} \in P PROVE T \in P
  <2>1. PICK x \in T : TRUE
    BY <1>2
  <2>2. CASE T \ {x} = {}
    <3>1. \A y \in T : y <= x
      BY <2>1, <2>2
    <3> QED
      BY <2>1, <3>1
  <2>3. CASE T \ {x} # {}
    <3>1. PICK m \in T \ {x} : \A y \in T \ {x} : y <= m
      BY <1>2, <2>1, <2>3
    <3>2. CASE x <= m
      <4>1. \A y \in T : y <= m
        BY <3>1, <3>2
      <4> QED
        BY <4>1
    <3>3. CASE ~(x <= m)
      <4>1. m \in Nat /\ x \in Nat /\ m < x
        BY <3>3
      <4>2. \A y \in T : y \in Nat /\ (y = x \/ y <= m)
        BY <3>1
      <4>3. \A y \in T : y <= x
        BY <4>1, <4>2
      <4> QED
        BY <4>3
    <3> QED
      BY <3>2, <3>3
  <2> QED
    BY <2>2, <2>3
<1> HIDE DEF P
<1>3. S \in P
  BY <1>1, <1>2, SmallerFirst
<1>4. \E m \in S : \A x \in S : x <= m
  BY <1>3 DEF P
<1>5. \E m \in S : \A x \in S : m >= x
  BY <1>4
<1> QED
  BY <1>5 DEF Max

LEMMA OfTwo ==
  ASSUME NEW a \in Int, NEW b \in Int
  PROVE  /\ Min({a, b}) = IF a <= b THEN a ELSE b
         /\ Max({a, b}) = IF a >= b THEN a ELSE b
<1>1. CASE a <= b
  <2>1. \E x \in {a, b} : \A y \in {a, b} : x <= y
    BY <1>1
  <2>2. \E x \in {a, b} : \A y \in {a, b} : x >= y
    BY <1>1
  <2>3. Min({a, b}) \in {a, b} /\ \A y \in {a, b} : Min({a, b}) <= y
    BY <2>1 DEF Min
  <2>4. Max({a, b}) \in {a, b} /\ \A y \in {a, b} : Max({a, b}) >= y
    BY <2>2 DEF Max
  <2> QED
    BY <1>1, <2>3, <2>4
<1>2. CASE ~(a <= b)
  <2>1. \E x \in {a, b} : \A y \in {a, b} : x <= y
    BY <1>2
  <2>2. \E x \in {a, b} : \A y \in {a, b} : x >= y
    BY <1>2
  <2>3. Min({a, b}) \in {a, b} /\ \A y \in {a, b} : Min({a, b}) <= y
    BY <2>1 DEF Min
  <2>4. Max({a, b}) \in {a, b} /\ \A y \in {a, b} : Max({a, b}) >= y
    BY <2>2 DEF Max
  <2> QED
    BY <1>2, <2>3, <2>4
<1> QED
  BY <1>1, <1>2
=============================================================================
