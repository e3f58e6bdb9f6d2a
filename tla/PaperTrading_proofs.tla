-------------------------- MODULE PaperTrading_proofs --------------------------
(***************************************************************************)
(* Every safety property of the dry-run bot, for every number of tranches, *)
(* prices, sizes, candles and transfers.  Shape is what the program always *)
(* is: the table of orders, the two maps of pending ids and the list of    *)
(* tranches agree.  On it rest the price of a buy, the sell of a tranche,  *)
(* the bound of what the bot owes, and the books.                          *)
(***************************************************************************)
EXTENDS PaperTrading, FoldFacts, TLAPS

-----------------------------------------------------------------------------
(* The list of tranches and the cascade *)

Tranche == [index : Tranches, buy : Prices, amount : Nat, target : Int, since : Nat]

\* The tranches of a list after some of their targets came down.
Lowers(list, after) ==
  /\ after \in [DOMAIN list -> Tranche]
  /\ \A k \in DOMAIN list :
       /\ after[k].index = list[k].index /\ after[k].buy = list[k].buy
       /\ after[k].amount = list[k].amount /\ after[k].since = list[k].since
       /\ after[k].target <= list[k].target

LEMMA Numbers ==
  /\ Budget \in Nat /\ Lot \in Nat \ {0} /\ FeeRate \in 0 .. 100 /\ TakeProfit \in Nat
  /\ MinSize \in Nat /\ Recycled \in Nat /\ MaxDiscount \in Nat /\ MaxCandles \in Nat \ {0}
  /\ \A p \in Prices : p \in Nat /\ p > 0
  /\ \A s \in Sizes : s \in Nat
  /\ \A a \in Transfers : a \in Nat /\ a > 0
BY PaperAssumption

LEMMA DiscountTyped ==
  ASSUME NEW t \in Tranche, NEW left \in Int PROVE Discount(left, t) \in Nat
<1>1. t.target \in Int /\ t.buy \in Int
  <2>1. t.target \in Int /\ t.buy \in Prices
    BY DEF Tranche
  <2> QED
    BY <2>1, Numbers
<1>2. Percent(t.buy, MaxDiscount) \in Int
  <2>1. MaxDiscount \in Int
    BY Numbers
  <2> QED
    BY <1>1, <2>1 DEF Percent
<1>3. Reduction(t) \in Int
  BY <1>1, <1>2 DEF Reduction
<1> QED
  BY <1>3 DEF Discount

\* Among some tranches there is one to lower last.
LEMMA CheapestExists ==
  ASSUME NEW list \in Seq(Tranche), NEW T, T \subseteq DOMAIN list, T # {}
  PROVE  \E m \in T : \A k \in T : \/ list[k].buy > list[m].buy
                                   \/ list[k].buy = list[m].buy /\ k <= m
<1> DEFINE rank == [k \in T |-> list[k].buy]
<1>1. Len(list) \in Nat /\ T \subseteq 1 .. Len(list) /\ \A k \in T : list[k] \in Tranche
  OBVIOUS
<1>2. \A k \in T : rank[k] \in Nat
  BY <1>1, Numbers DEF Tranche
<1>3. \E m \in T : \A k \in T : rank[k] > rank[m] \/ (rank[k] = rank[m] /\ k <= m)
  <2> HIDE DEF rank
  <2> QED
    BY <1>1, <1>2, LowestLast
<1> QED
  BY <1>3

\* The cascade only lowers targets.
LEMMA SubsidyLowers ==
  ASSUME NEW list \in Seq(Tranche), NEW price, NEW subsidy \in Int
  PROVE  Lowers(list, Subsidized(list, price, subsidy))
<1> DEFINE Before(k, m) == \/ list[k].buy > list[m].buy
                           \/ list[k].buy = list[m].buy /\ k <= m
           Cheapest(T) == CHOOSE m \in T : \A k \in T : Before(k, m)
           S == {k \in DOMAIN list : list[k].buy > price}
           base == [left |-> subsidy, tranches |-> list]
           X == {acc \in [left : Int, tranches : [DOMAIN list -> Tranche]] :
                   Lowers(list, acc.tranches)}
           pick == [T \in (SUBSET S) \ {{}} |-> Cheapest(T)]
           step == [k \in S |-> [acc \in X |-> Lower(k, acc)]]
           G(jt) == jt = [T \in SUBSET S |->
                            IF T = {} THEN base
                            ELSE LET x == Cheapest(T) IN Lower(x, jt[T \ {x}])]
           it == CHOOSE jt : G(jt)
<1>1. list \in [DOMAIN list -> Tranche] /\ DOMAIN list = 1 .. Len(list) /\ Len(list) \in Nat
  OBVIOUS
<1>2. IsFiniteSet(S)
  <2>1. IsFiniteSet(1 .. Len(list)) /\ S \subseteq 1 .. Len(list)
    BY <1>1, FS_Interval
  <2> QED
    BY <2>1, FS_Subset
<1>3. base \in X
  <2>1. Lowers(list, list)
    <3>1. \A k \in DOMAIN list : list[k].target \in Int
      BY <1>1 DEF Tranche
    <3> QED
      BY <1>1, <3>1 DEF Lowers
  <2> QED
    BY <1>1, <2>1
<1>4. \A T \in (SUBSET S) \ {{}} : Cheapest(T) \in T
  <2> SUFFICES ASSUME NEW T \in (SUBSET S) \ {{}} PROVE Cheapest(T) \in T
    OBVIOUS
  <2>1. \E m \in T : \A k \in T : Before(k, m)
    <3>1. T \subseteq DOMAIN list /\ T # {}
      OBVIOUS
    <3> QED
      BY <3>1, CheapestExists
  <2> HIDE DEF Before
  <2> QED
    BY <2>1
<1>5. ASSUME NEW k \in S, NEW acc \in X PROVE Lower(k, acc) \in X
  <2> DEFINE d == Discount(acc.left, acc.tranches[k])
             a == acc.tranches
             b == [a EXCEPT ![k].target = @ - d]
  <2>1. a \in [DOMAIN list -> Tranche] /\ acc.left \in Int /\ Lowers(list, a) /\ k \in DOMAIN list
    OBVIOUS
  <2>2. d \in Nat
    BY <2>1, DiscountTyped
  <2>3. Lower(k, acc) = [left |-> acc.left - d, tranches |-> b]
    BY DEF Lower
  <2> HIDE DEF d, a
  <2>4. /\ b \in [DOMAIN list -> Tranche]
        /\ \A m \in DOMAIN list :
             /\ b[m].index = a[m].index /\ b[m].buy = a[m].buy
             /\ b[m].amount = a[m].amount /\ b[m].since = a[m].since
             /\ b[m].target <= a[m].target
    <3>1. a[k] \in Tranche
      BY <2>1
    <3>2. [a[k] EXCEPT !.target = a[k].target - d] \in Tranche
      <4> DEFINE v == a[k].target - d
      <4>1. v \in Int
        <5>1. a[k].target \in Int
          BY <3>1 DEF Tranche
        <5> QED
          BY <2>2, <5>1
      <4> HIDE DEF v
      <4>2. [a[k] EXCEPT !.target = v] \in Tranche
        BY <3>1, <4>1 DEF Tranche
      <4> QED
        BY <4>2 DEF v
    <3>3. b[k] = [a[k] EXCEPT !.target = a[k].target - d] /\ \A m \in DOMAIN list : m # k => b[m] = a[m]
      BY <2>1
    <3>4. b \in [DOMAIN list -> Tranche]
      BY <2>1, <3>2
    <3>5. /\ b[k].index = a[k].index /\ b[k].buy = a[k].buy /\ b[k].amount = a[k].amount
          /\ b[k].since = a[k].since /\ b[k].target = a[k].target - d /\ a[k].target \in Int
      <4> DEFINE w == a[k].target - d
      <4>1. b[k] = [a[k] EXCEPT !.target = w]
        BY <3>3
      <4>2. a[k].target \in Int
        BY <3>1 DEF Tranche
      <4> HIDE DEF b, w
      <4>3. /\ b[k].index = a[k].index /\ b[k].buy = a[k].buy /\ b[k].amount = a[k].amount
            /\ b[k].since = a[k].since /\ b[k].target = w
        BY <3>1, <4>1 DEF Tranche
      <4> QED
        BY <4>2, <4>3 DEF w
    <3>6. b[k].target <= a[k].target
      BY <2>2, <3>5
    <3>7. \A m \in DOMAIN list : a[m].target <= a[m].target
      BY <2>1 DEF Tranche
    <3> HIDE DEF b
    <3> QED
      BY <3>3, <3>4, <3>5, <3>6, <3>7
  <2>5. Lowers(list, b)
    <3>1. \A m \in DOMAIN list : /\ list[m].target \in Int /\ a[m].target \in Int
                                 /\ b[m].target \in Int
      BY <1>1, <2>1, <2>4 DEF Tranche
    <3> HIDE DEF b
    <3> QED
      BY <2>1, <2>4, <3>1 DEF Lowers
  <2> HIDE DEF b
  <2> QED
    BY <2>1, <2>2, <2>3, <2>4, <2>5
<1> HIDE DEF Cheapest, S, X, base
<1>6. pick \in [(SUBSET S) \ {{}} -> S] /\ \A T \in (SUBSET S) \ {{}} : pick[T] \in T
  BY <1>4
<1>7. step \in [S -> [X -> X]]
  BY <1>5
<1> HIDE DEF pick, step
<1>8. PICK jt \in [SUBSET S -> X] : Solves(jt, S, base, pick, step)
  BY <1>2, <1>3, <1>6, <1>7, SetRecursion
<1>9. G(jt)
  <2>1. jt[{}] = base
    BY <1>8 DEF Solves
  <2>2. ASSUME NEW T \in SUBSET S, T # {}
        PROVE  jt[T] = LET x == Cheapest(T) IN Lower(x, jt[T \ {x}])
    <3>1. jt[T] = step[pick[T]][jt[T \ {pick[T]}]]
      BY <1>8, <2>2 DEF Solves
    <3>2. pick[T] = Cheapest(T) /\ Cheapest(T) \in S
      BY <1>4, <2>2 DEF pick
    <3>3. jt[T \ {Cheapest(T)}] \in X
      BY <1>8
    <3> QED
      BY <3>1, <3>2, <3>3 DEF step
  <2> QED
    BY <1>8, <2>1, <2>2
<1>10. G(it)
  BY <1>9
<1> HIDE DEF it
<1>11. it[{}] = base /\ \A T \in SUBSET S : T # {} => it[T] = Lower(Cheapest(T), it[T \ {Cheapest(T)}])
  BY <1>10
<1> DEFINE P == {T \in SUBSET S : it[T] \in X}
<1>12. {} \in P
  BY <1>3, <1>11
<1>13. ASSUME NEW T \in SUBSET S, T # {}, \A x \in T : T \ {x} \in P
       PROVE  T \in P
  <2>1. Cheapest(T) \in T /\ Cheapest(T) \in S
    BY <1>4, <1>13
  <2>2. it[T \ {Cheapest(T)}] \in X
    BY <1>13, <2>1
  <2>3. Lower(Cheapest(T), it[T \ {Cheapest(T)}]) \in X
    BY <1>5, <2>1, <2>2
  <2>4. it[T] = Lower(Cheapest(T), it[T \ {Cheapest(T)}])
    BY <1>11, <1>13
  <2> QED
    BY <1>13, <2>3, <2>4
<1>14. it[S] \in X
  <2> HIDE DEF P
  <2>1. SUBSET S \subseteq P
    BY <1>2, <1>12, <1>13, SmallerFirst
  <2> QED
    BY <2>1 DEF P
<1>15. Subsidized(list, price, subsidy) = it[S].tranches
  BY DEF Subsidized, MapThenFoldSet, it, S, Cheapest, base
<1> QED
  BY <1>14, <1>15 DEF X

-----------------------------------------------------------------------------
(* Amounts of money and what is invested *)

\* Money of an order.
LEMMA ValueTyped ==
  ASSUME NEW amount \in Nat, NEW price \in Nat
  PROVE  Value(amount, price) \in Nat
<1>1. Lot \in Nat /\ Lot > 0
  BY Numbers
<1>2. amount * price \in Nat
  OBVIOUS
<1> QED
  BY <1>1, <1>2 DEF Value

LEMMA QuotientOf ==
  ASSUME NEW a \in Nat, NEW b \in Nat, b > 0
  PROVE  a \div b \in Nat /\ b * (a \div b) <= a /\ a < b * (a \div b) + b
OBVIOUS

LEMMA ValueWithin ==
  ASSUME NEW net \in Nat, NEW price \in Nat, price > 0,
         NEW amount \in Nat, amount <= (net * Lot) \div price
  PROVE  (net * Lot) \div price \in Nat /\ Value(amount, price) <= net
<1>1. Lot \in Nat /\ Lot > 0
  BY Numbers
<1> DEFINE total == net * Lot
           q == total \div price
           x == amount * price
           v == x \div Lot
<1>2. total \in Nat /\ x \in Nat
  BY <1>1
<1>3. q \in Nat /\ price * q <= total
  <2> HIDE DEF total
  <2> QED
    BY <1>2, QuotientOf
<1>4. v \in Nat /\ Lot * v <= x
  <2> HIDE DEF x
  <2> QED
    BY <1>1, <1>2, QuotientOf
<1>5. x <= total
  <2>1. amount <= q
    OBVIOUS
  <2> HIDE DEF q, total
  <2>2. amount * price <= q * price
    BY <1>3, <2>1
  <2>3. q * price = price * q
    BY <1>3
  <2> QED
    BY <1>2, <1>3, <2>2, <2>3
<1>6. Lot * v <= Lot * net
  <2> HIDE DEF v, x
  <2>1. total = Lot * net
    BY <1>1
  <2> HIDE DEF total
  <2> QED
    BY <1>1, <1>2, <1>4, <1>5, <2>1
<1> HIDE DEF v, x, q, total
<1>7. v <= net
  BY <1>1, <1>4, <1>6
<1> QED
  BY <1>3, <1>7 DEF Value, v, x, q, total

LEMMA PercentTyped == \A x, rate \in Nat : Percent(x, rate) \in Nat
BY DEF Percent

LEMMA FeeWithin == \A x \in Nat : Percent(x, FeeRate) \in Nat /\ Percent(x, FeeRate) <= x
<1> SUFFICES ASSUME NEW x \in Nat PROVE Percent(x, FeeRate) \in Nat /\ Percent(x, FeeRate) <= x
  OBVIOUS
<1>1. FeeRate \in 0 .. 100
  BY Numbers
<1>2. x * FeeRate \in Nat /\ x * FeeRate <= 100 * x
  BY <1>1
<1> DEFINE y == x * FeeRate
<1>3. y \in Nat /\ y <= 100 * x
  BY <1>2
<1> HIDE DEF y
<1>4. y \div 100 \in Nat /\ y \div 100 <= x
  BY <1>3
<1> QED
  BY <1>4 DEF Percent, y

-----------------------------------------------------------------------------
CostsOf(list) == [k \in DOMAIN list |-> Cost(list[k])]

LEMMA CostsTyped ==
  ASSUME NEW list \in Seq(Tranche)
  PROVE  /\ IsFiniteSet(DOMAIN list) /\ IntOn(CostsOf(list), DOMAIN list)
         /\ \A k \in DOMAIN list : list[k] \in Tranche /\ Cost(list[k]) \in Nat
<1>1. DOMAIN list = 1 .. Len(list) /\ Len(list) \in Nat /\ \A k \in DOMAIN list : list[k] \in Tranche
  OBVIOUS
<1>2. IsFiniteSet(DOMAIN list)
  BY <1>1, FS_Interval
<1>3. \A t \in Tranche : Cost(t) \in Nat
  <2> SUFFICES ASSUME NEW t \in Tranche PROVE Cost(t) \in Nat
    OBVIOUS
  <2>1. t.amount \in Nat /\ t.buy \in Prices
    BY DEF Tranche
  <2>2. t.buy \in Nat
    BY <2>1, Numbers
  <2> QED
    BY <2>1, <2>2, ValueTyped DEF Cost
<1> QED
  BY <1>1, <1>2, <1>3 DEF IntOn, CostsOf

LEMMA InvestedIsSum ==
  ASSUME NEW list \in Seq(Tranche)
  PROVE  Invested(list) = SumFunctionOnSet(CostsOf(list), DOMAIN list)
<1> DEFINE S == DOMAIN list
           f == CostsOf(list)
           G(jt) == jt = [T \in SUBSET S |->
                            IF T = {} THEN 0
                            ELSE Cost(list[CHOOSE x \in T : TRUE])
                                   + jt[T \ {CHOOSE x \in T : TRUE}]]
           it == CHOOSE jt : G(jt)
<1>1. IsFiniteSet(S) /\ IntOn(f, S)
  BY CostsTyped
<1>2. \A T \in SUBSET S : T # {} => f[Some(T)] = Cost(list[CHOOSE x \in T : TRUE])
  <2> SUFFICES ASSUME NEW T \in SUBSET S, T # {}
               PROVE  f[Some(T)] = Cost(list[CHOOSE x \in T : TRUE])
    OBVIOUS
  <2>1. Some(T) \in T /\ Some(T) = CHOOSE x \in T : TRUE
    BY DEF Some
  <2>2. Some(T) \in DOMAIN list
    BY <2>1
  <2> QED
    BY <2>1, <2>2 DEF CostsOf
<1>3. PICK jt : IsSum(jt, f, S)
  BY <1>1, SumExists
<1>4. ASSUME NEW kt PROVE IsSum(kt, f, S) <=> G(kt)
  <2> DEFINE a == [T \in SUBSET S |-> IF T = {} THEN 0 ELSE f[Some(T)] + kt[T \ {Some(T)}]]
             b == [T \in SUBSET S |->
                            IF T = {} THEN 0
                            ELSE Cost(list[CHOOSE x \in T : TRUE])
                                   + kt[T \ {CHOOSE x \in T : TRUE}]]
  <2>1. a = b
    <3> HIDE DEF S, f
    <3> QED
      BY <1>2 DEF Some
  <2>2. IsSum(kt, f, S) <=> kt = a
    BY DEF IsSum
  <2> HIDE DEF a
  <2> QED
    BY <2>1, <2>2
<1>5. G(jt)
  <2> HIDE DEF G, S, f
  <2>1. IsSum(jt, f, S) <=> G(jt)
    BY <1>4
  <2> QED
    BY <1>3, <2>1
<1>6. G(it)
  <2> HIDE DEF G
  <2> QED
    BY <1>5
<1>7. IsSum(it, f, S)
  BY <1>4, <1>6
<1>8. Invested(list) = it[S]
  BY DEF Invested, MapThenSumSet, MapThenFoldSet
<1> HIDE DEF it, S, f
<1>9. SumFunctionOnSet(f, S) = it[S]
  <2>1. S \in SUBSET S
    OBVIOUS
  <2> QED
    BY <1>1, <1>7, <2>1, SumOverSubset
<1> QED
  BY <1>8, <1>9 DEF S, f

LEMMA InvestedTyped ==
  ASSUME NEW list \in Seq(Tranche) PROVE Invested(list) \in Int
BY CostsTyped, InvestedIsSum, SumWithout

LEMMA InvestedNone == Invested(<<>>) = 0
<1>1. <<>> \in Seq(Tranche) /\ DOMAIN <<>> = {}
  OBVIOUS
<1> QED
  BY <1>1, InvestedIsSum, SumOfNone

LEMMA InvestedMore ==
  ASSUME NEW list \in Seq(Tranche), NEW t \in Tranche
  PROVE  Invested(Append(list, t)) = Invested(list) + Cost(t)
<1> DEFINE more == Append(list, t)
           n == Len(list)
<1>1. /\ more \in Seq(Tranche) /\ n \in Nat /\ DOMAIN more = DOMAIN list \cup {n + 1}
      /\ n + 1 \notin DOMAIN list /\ more[n + 1] = t /\ \A k \in DOMAIN list : more[k] = list[k]
  OBVIOUS
<1> HIDE DEF more, n
<1>2. /\ IsFiniteSet(DOMAIN list) /\ IntOn(CostsOf(list), DOMAIN list)
      /\ Cost(t) \in Int /\ CostsOf(more)[n + 1] = Cost(t)
  <2>1. IsFiniteSet(DOMAIN list) /\ IntOn(CostsOf(list), DOMAIN list)
    BY CostsTyped
  <2>2. n + 1 \in DOMAIN more
    BY <1>1
  <2>3. CostsOf(more)[n + 1] = Cost(more[n + 1])
    BY <2>2 DEF CostsOf
  <2>4. Cost(more[n + 1]) \in Nat
    BY <1>1, <2>2, CostsTyped
  <2> QED
    BY <1>1, <2>1, <2>3, <2>4
<1>3. Agree(CostsOf(list), CostsOf(more), DOMAIN list)
  BY <1>1 DEF Agree, CostsOf
<1>4. SumFunctionOnSet(CostsOf(more), DOMAIN list \cup {n + 1})
        = SumFunctionOnSet(CostsOf(list), DOMAIN list) + Cost(t)
  <2> DEFINE f == CostsOf(list)
             g == CostsOf(more)
             S == DOMAIN list
             x == n + 1
  <2>1. IsFiniteSet(S) /\ IntOn(f, S) /\ x \notin S /\ g[x] \in Int /\ Agree(f, g, S)
    BY <1>1, <1>2, <1>3
  <2> HIDE DEF f, g, S, x
  <2>2. SumFunctionOnSet(g, S \cup {x}) = SumFunctionOnSet(f, S) + g[x]
    BY <2>1, SumExtended
  <2> QED
    BY <1>2, <2>2 DEF f, g, S, x
<1> QED
  BY <1>1, <1>4, InvestedIsSum DEF more

LEMMA InvestedSame ==
  ASSUME NEW list \in Seq(Tranche), NEW after, Lowers(list, after)
  PROVE  after \in Seq(Tranche) /\ Invested(after) = Invested(list)
<1>1. DOMAIN list = 1 .. Len(list) /\ Len(list) \in Nat
  OBVIOUS
<1>2. after \in Seq(Tranche) /\ DOMAIN after = DOMAIN list
  BY <1>1 DEF Lowers
<1>3. Agree(CostsOf(list), CostsOf(after), DOMAIN list)
  BY <1>2 DEF Lowers, Agree, CostsOf, Cost
<1> QED
  BY <1>2, <1>3, CostsTyped, InvestedIsSum, SumCongruent

LEMMA InvestedLess ==
  ASSUME NEW list \in Seq(Tranche), NEW at \in DOMAIN list
  PROVE  /\ RemoveAt(list, at) \in Seq(Tranche)
         /\ Invested(RemoveAt(list, at)) = Invested(list) - Cost(list[at])
<1> DEFINE n == Len(list)
           less == RemoveAt(list, at)
           f == CostsOf(list)
           g == CostsOf(less)
<1>1. n \in Nat /\ DOMAIN list = 1 .. n /\ at \in 1 .. n
  OBVIOUS
<1>2. /\ less \in Seq(Tranche) /\ DOMAIN less = 1 .. n - 1
      /\ \A j \in 1 .. n - 1 : less[j] = list[IF j < at THEN j ELSE j + 1]
  <2>1. /\ less \in Seq(Tranche) /\ Len(less) = n - 1
        /\ \A j \in 1 .. n - 1 : less[j] = IF j < at THEN list[j] ELSE list[j + 1]
    BY <1>1, RemovedAt
  <2> HIDE DEF less, n
  <2>2. DOMAIN less = 1 .. n - 1
    BY <2>1
  <2> QED
    BY <2>1, <2>2
<1>3. IntOn(f, 1 .. n) /\ f[at] = Cost(list[at])
  BY <1>1, CostsTyped DEF CostsOf
<1>4. \A j \in 1 .. n - 1 : g[j] = f[IF j < at THEN j ELSE j + 1]
  <2> SUFFICES ASSUME NEW j \in 1 .. n - 1 PROVE g[j] = f[IF j < at THEN j ELSE j + 1]
    OBVIOUS
  <2> DEFINE m == IF j < at THEN j ELSE j + 1
  <2>1. m \in 1 .. n /\ less[j] = list[m] /\ j \in DOMAIN less
    BY <1>1, <1>2
  <2> HIDE DEF m, less, n
  <2> QED
    BY <1>1, <2>1 DEF CostsOf, m
<1> HIDE DEF n, less, f, g
<1>5. SumFunctionOnSet(g, 1 .. n - 1) = SumFunctionOnSet(f, 1 .. n) - f[at]
  BY <1>1, <1>3, <1>4, SumRemovedAt
<1>6. Invested(less) = SumFunctionOnSet(g, 1 .. n - 1) /\ Invested(list) = SumFunctionOnSet(f, 1 .. n)
  BY <1>1, <1>2, InvestedIsSum DEF f, g
<1> QED
  BY <1>2, <1>3, <1>5, <1>6 DEF less

-----------------------------------------------------------------------------
(* The shape of the state *)

Order == [price : Nat, amount : Nat, status : {"OPEN", "CLOSED"}]
Signal == [index : Tranches, size : Sizes]
Ids == {"buy", "sell"} \X Tranches \X Nat
RowValue(row) == Value(row.amount, row.price)

StateTyped ==
    /\ stored \in Candles(stored.ts) /\ stored.ts \in 1 .. MaxCandles
    /\ DOMAIN orders \subseteq Ids /\ orders \in [DOMAIN orders -> Order]
    /\ pendingBuy \in [Tranches -> DOMAIN orders \cup {None}]
    /\ pendingSell \in [Tranches -> DOMAIN orders \cup {None}]
    /\ active \in Seq(Tranche)
    /\ available \in Int /\ profit \in Int /\ deposited \in Int /\ withdrawn \in Nat
    /\ pc \in {"sleep", "buys", "sells", "signals"} /\ todo \subseteq Tranches
    /\ signals \in Seq(Signal)
    /\ ghost \in [asked : [Tranches -> Order \cup {None}], sold : [Tranches -> Nat],
                  larger : BOOLEAN]

\* What the cycle has still to do is there: the orders it has to close are
\* pending, and it handles signals only while there are some.
WorkIsThere ==
    /\ pc = "buys" => \A i \in todo : pendingBuy[i] # None
    /\ pc = "sells" => \A i \in todo : pendingSell[i] # None
    /\ pc = "signals" => signals # <<>>

OnePerIndex == \A k, m \in DOMAIN active : active[k].index = active[m].index => k = m
BuysLinked ==
    \A i \in Tranches : pendingBuy[i] # None =>
      pendingBuy[i][1] = "buy" /\ pendingBuy[i][2] = i /\ i \notin Indices
SellsLinked ==
    \A i \in Tranches :
      /\ pendingSell[i] # None <=> i \in Indices
      /\ pendingSell[i] # None => pendingSell[i][1] = "sell" /\ pendingSell[i][2] = i

\* No order is ahead of the stored candle, the buys of that candle are at its
\* close, and every buy is at a price of the market and worth something.
NoneAhead == \A id \in DOMAIN orders : id[3] <= stored.ts
BuysAtClose ==
    \A id \in DOMAIN orders :
      id[1] = "buy" /\ id[3] = stored.ts => orders[id].price = stored.close
BuysPlaced ==
    \A id \in DOMAIN orders : id[1] = "buy" =>
      /\ orders[id].price \in Prices
      /\ 0 < RowValue(orders[id]) /\ RowValue(orders[id]) <= Max(Sizes)

Shape == /\ StateTyped /\ WorkIsThere /\ OnePerIndex /\ BuysLinked /\ SellsLinked
         /\ NoneAhead /\ BuysAtClose /\ BuysPlaced

-----------------------------------------------------------------------------
LEMMA LargestSize == Max(Sizes) \in Nat /\ \A size \in Sizes : size <= Max(Sizes)
<1> DEFINE P == {T \in SUBSET Sizes : T # {} => \E x \in T : \A y \in T : x >= y}
<1>1. Sizes \subseteq Nat /\ Sizes # {} /\ IsFiniteSet(Sizes)
  BY PaperAssumption
<1>2. {} \in P
  OBVIOUS
<1>3. ASSUME NEW T \in SUBSET Sizes, T # {}, \A x \in T : T \ {x} \in P
      PROVE  T \in P
  <2>1. PICK x \in T : TRUE
    BY <1>3
  <2>2. CASE T \ {x} = {}
    <3>1. \A y \in T : y = x
      BY <2>2
    <3>2. x \in Nat
      BY <1>1, <1>3
    <3> QED
      BY <2>1, <3>1, <3>2
  <2>3. CASE T \ {x} # {}
    <3>1. PICK z \in T \ {x} : \A y \in T \ {x} : z >= y
      BY <1>3, <2>3
    <3>2. x \in Nat /\ z \in Nat
      BY <1>1, <1>3
    <3>3. CASE z >= x
      BY <3>1, <3>3
    <3>4. CASE ~(z >= x)
      <4>1. \A y \in T : y \in Nat
        BY <1>1, <1>3
      <4>2. \A y \in T : x >= y
        BY <3>1, <3>2, <3>4, <4>1
      <4> QED
        BY <4>2
    <3> QED
      BY <3>3, <3>4
  <2> QED
    BY <2>2, <2>3
<1>4. Sizes \in P
  <2> HIDE DEF P
  <2>1. SUBSET Sizes \subseteq P
    BY <1>1, <1>2, <1>3, SmallerFirst
  <2> QED
    BY <2>1
<1>5. \E x \in Sizes : \A y \in Sizes : x >= y
  BY <1>1, <1>4
<1>6. Max(Sizes) \in Sizes /\ \A y \in Sizes : Max(Sizes) >= y
  BY <1>5 DEF Max
<1> QED
  BY <1>1, <1>6

LEMMA IdsDiffer ==
  /\ None \notin Ids
  /\ \A i \in Tranches, ts \in Nat :
       <<"buy", i, ts>> \in Ids /\ <<"sell", i, ts>> \in Ids
  /\ \A id \in Ids : id[1] \in {"buy", "sell"} /\ id[2] \in Tranches /\ id[3] \in Nat
BY DEF None, Ids

\* The order of a signal that is placed.
LEMMA PlacedOrder ==
  ASSUME NEW size \in Sizes, size >= MinSize, NEW price \in Prices
  PROVE  /\ Bought(size, price) \in Nat
         /\ 0 < Value(Bought(size, price), price)
         /\ \A amount \in Nat : amount <= Bought(size, price) => Value(amount, price) <= size
<1>1. price \in Nat /\ price > 0 /\ size \in Nat
  BY Numbers
<1>2. Percent(size, FeeRate) \in Nat /\ Percent(size, FeeRate) <= size
  BY <1>1, FeeWithin
<1> DEFINE net == size - Percent(size, FeeRate)
<1>3. net \in Nat /\ net <= size
  BY <1>1, <1>2
<1>4. Bought(size, price) = (net * Lot) \div price
  BY DEF Bought
<1> HIDE DEF net
<1>5. (net * Lot) \div price \in Nat
  <2>1. 0 \in Nat /\ net * Lot \in Nat
    BY <1>3, Numbers
  <2> DEFINE x == net * Lot
  <2> HIDE DEF x
  <2>2. x \in Nat => x \div price \in Nat
    BY <1>1, QuotientOf
  <2> QED
    BY <2>1, <2>2 DEF x
<1>6. ASSUME NEW amount \in Nat, amount <= Bought(size, price)
      PROVE  Value(amount, price) <= size
  <2>1. Value(amount, price) <= net
    BY <1>1, <1>3, <1>4, <1>6, ValueWithin
  <2>2. Value(amount, price) \in Nat
    BY <1>1, ValueTyped
  <2> QED
    BY <1>1, <1>3, <2>1, <2>2
<1>7. 0 < Value(Bought(size, price), price)
  BY UnitAssumption
<1> QED
  BY <1>4, <1>5, <1>6, <1>7

\* The upsert and the update of the status keep every price and amount in the
\* table.
LEMMA SavedOrder ==
    ASSUME NEW table, table \in [DOMAIN table -> Order], NEW id, NEW order \in Order
    PROVE  /\ SaveOrder(table, id, order) \in [DOMAIN table \cup {id} -> Order]
           /\ \A d \in DOMAIN table :
                /\ SaveOrder(table, id, order)[d].price = table[d].price
                /\ SaveOrder(table, id, order)[d].amount = table[d].amount
                /\ d # id => SaveOrder(table, id, order)[d] = table[d]
           /\ id \notin DOMAIN table => SaveOrder(table, id, order)[id] = order
<1>1. CASE id \in DOMAIN table
  BY <1>1 DEF SaveOrder, Order
<1>2. CASE id \notin DOMAIN table
  BY <1>2 DEF SaveOrder
<1>3. QED BY <1>1, <1>2

LEMMA ClosedOrder ==
    ASSUME NEW table, table \in [DOMAIN table -> Order], NEW id
    PROVE  /\ Close(table, id) \in [DOMAIN table -> Order]
           /\ \A d \in DOMAIN table :
                /\ Close(table, id)[d].price = table[d].price
                /\ Close(table, id)[d].amount = table[d].amount
                /\ d # id => Close(table, id)[d] = table[d]
<1>1. CASE id \in DOMAIN table
  BY <1>1 DEF Close, Order
<1>2. CASE id \notin DOMAIN table
  BY <1>2 DEF Close
<1>3. QED BY <1>1, <1>2

LEMMA CandleTyped ==
    ASSUME StateTyped
    PROVE  stored.close \in Prices /\ stored.ts \in Nat /\ stored.ts > 0
<1>1. stored \in Candles(stored.ts) /\ stored.ts \in 1 .. MaxCandles
  BY DEF StateTyped
<1>2. stored.close \in Prices
  BY <1>1 DEF Candles
<1> QED
  BY <1>1, <1>2, Numbers

\* No pending id is the empty value.
LEMMA PendingAreOrders ==
    ASSUME StateTyped, NEW i \in Tranches
    PROVE  /\ pendingBuy[i] # None <=> pendingBuy[i] \in DOMAIN orders
           /\ pendingSell[i] # None <=> pendingSell[i] \in DOMAIN orders
           /\ None \notin DOMAIN orders
<1>1. None \notin DOMAIN orders
  BY IdsDiffer DEF StateTyped
<1>2. pendingBuy[i] \in DOMAIN orders \cup {None} /\ pendingSell[i] \in DOMAIN orders \cup {None}
  BY DEF StateTyped
<1> QED
  BY <1>1, <1>2

-----------------------------------------------------------------------------
(* What the three steps that trade do *)

\* What a step does when the candle reached a resting buy.
LEMMA WhatActivates ==
    ASSUME Shape, NEW i \in Tranches, Activate(i)
    PROVE  LET id == pendingBuy[i]
               filled == orders[id]
               t == [index |-> i, buy |-> filled.price, amount |-> filled.amount,
                     target |-> Target(filled.price), since |-> stored.ts]
               sell == <<"sell", i, stored.ts>>
           IN  /\ id \in DOMAIN orders /\ id[1] = "buy" /\ id[2] = i /\ id # sell
               /\ i \notin Indices /\ filled \in Order /\ filled.price \in Prices
               /\ t \in Tranche /\ Cost(t) = RowValue(filled)
               /\ active' = Append(active, t) /\ available' = available - RowValue(filled)
               /\ New(t.target, t.amount) \in Order
               /\ orders' \in [DOMAIN orders \cup {sell} -> Order]
               /\ \A d \in DOMAIN orders :
                    /\ orders'[d].price = orders[d].price
                    /\ orders'[d].amount = orders[d].amount
               /\ \A d \in DOMAIN orders \ {id, sell} : orders'[d] = orders[d]
               /\ sell \notin DOMAIN orders => orders'[sell] = New(t.target, t.amount)
               /\ pendingBuy' = [pendingBuy EXCEPT ![i] = None]
               /\ pendingSell' = [pendingSell EXCEPT ![i] = sell]
<1> USE DEF Shape
<1> DEFINE id == pendingBuy[i]
           filled == orders[id]
           t == [index |-> i, buy |-> filled.price, amount |-> filled.amount,
                 target |-> Target(filled.price), since |-> stored.ts]
           sell == <<"sell", i, stored.ts>>
           order == New(t.target, t.amount)
           closed == Close(orders, id)
<1>1. id # None /\ id \in DOMAIN orders /\ id[1] = "buy" /\ id[2] = i /\ i \notin Indices
  <2>1. id # None
    BY DEF Activate, WorkIsThere
  <2> QED
    BY <2>1, PendingAreOrders DEF BuysLinked
<1>2. id # sell
  BY <1>1
<1>3. filled \in Order /\ filled.price \in Prices
  BY <1>1 DEF StateTyped, BuysPlaced
<1>4. t \in Tranche /\ Cost(t) = RowValue(filled) /\ order \in Order
  <2>1. filled.price \in Nat /\ filled.amount \in Nat
    BY <1>3 DEF Order
  <2>2. Target(filled.price) \in Nat
    <3>1. TakeProfit \in Nat
      BY Numbers
    <3>2. Percent(filled.price, TakeProfit) \in Nat
      BY <2>1, <3>1, PercentTyped
    <3> HIDE DEF filled
    <3> QED
      BY <2>1, <3>2 DEF Target
  <2>3. stored.ts \in Nat
    BY CandleTyped
  <2>4. t.target = Target(filled.price) /\ t.amount = filled.amount /\ t.buy = filled.price
    OBVIOUS
  <2>5. t \in Tranche
    <3> HIDE DEF filled, id
    <3> QED
      BY <1>3, <2>1, <2>2, <2>3 DEF Tranche
  <2>6. order \in Order
    <3> HIDE DEF t
    <3> QED
      BY <2>1, <2>2, <2>4 DEF New, Order
  <2>7. Cost(t) = RowValue(filled)
    <3> HIDE DEF t
    <3> QED
      BY <2>4 DEF Cost, RowValue
  <2> QED
    BY <2>5, <2>6, <2>7
<1>5. /\ active' = Append(active, t) /\ available' = available - RowValue(filled)
      /\ orders' = SaveOrder(closed, sell, order)
      /\ pendingBuy' = [pendingBuy EXCEPT ![i] = None]
      /\ pendingSell' = [pendingSell EXCEPT ![i] = sell]
  BY DEF Activate, RowValue, Id
<1>6. /\ closed \in [DOMAIN orders -> Order]
      /\ \A d \in DOMAIN orders :
           /\ closed[d].price = orders[d].price /\ closed[d].amount = orders[d].amount
           /\ d # id => closed[d] = orders[d]
  <2>1. orders \in [DOMAIN orders -> Order]
    BY DEF StateTyped
  <2> HIDE DEF Shape, id, filled, t, sell, order
  <2> QED
    BY <2>1, ClosedOrder
<1> HIDE DEF closed, sell, order
<1>7. closed \in [DOMAIN closed -> Order] /\ DOMAIN closed = DOMAIN orders
  BY <1>6
<1> DEFINE after == SaveOrder(closed, sell, order)
<1>8. /\ after \in [DOMAIN orders \cup {sell} -> Order]
      /\ \A d \in DOMAIN orders :
           /\ after[d].price = closed[d].price
           /\ after[d].amount = closed[d].amount
           /\ d # sell => after[d] = closed[d]
      /\ sell \notin DOMAIN orders => after[sell] = order
  <2> HIDE DEF Shape
  <2>1. order \in Order
    BY <1>4
  <2>2. /\ after \in [DOMAIN closed \cup {sell} -> Order]
        /\ \A d \in DOMAIN closed :
             /\ after[d].price = closed[d].price
             /\ after[d].amount = closed[d].amount
             /\ d # sell => after[d] = closed[d]
        /\ sell \notin DOMAIN closed => after[sell] = order
    BY <2>1, <1>7, SavedOrder
  <2> QED
    BY <1>7, <2>2
<1> HIDE DEF after
<1>9. orders' = after
  BY <1>5 DEF after
<1>10. \A d \in DOMAIN orders :
         /\ orders'[d].price = orders[d].price
         /\ orders'[d].amount = orders[d].amount
         /\ d \notin {id, sell} => orders'[d] = orders[d]
  <2> HIDE DEF id, Shape
  <2> QED
    BY <1>6, <1>8, <1>9
<1> QED
  BY <1>1, <1>2, <1>3, <1>4, <1>5, <1>8, <1>9, <1>10 DEF sell, order

\* What it does when the candle reached a resting sell.
LEMMA WhatSells ==
    ASSUME Shape, NEW i \in Tranches, Sell(i)
    PROVE  \E at \in DOMAIN active : \E price \in Nat :
             LET sold == active[at]
                 others == RemoveAt(active, at)
                 gain == Revenue(sold, price) - Cost(sold)
             IN  /\ sold.index = i /\ sold \in Tranche
                 /\ Revenue(sold, price) \in Nat /\ Cost(sold) \in Nat
                 /\ others \in Seq(Tranche) /\ Lowers(others, active')
                 /\ available' = available + Revenue(sold, price)
                 /\ profit' = profit + gain
                 /\ pendingSell[i] \in DOMAIN orders
                 /\ pendingSell[i][1] = "sell" /\ pendingSell[i][2] = i
                 /\ orders' \in [DOMAIN orders -> Order]
                 /\ \A d \in DOMAIN orders :
                      /\ orders'[d].price = orders[d].price
                      /\ orders'[d].amount = orders[d].amount
                      /\ d # pendingSell[i] => orders'[d] = orders[d]
                 /\ pendingSell' = [pendingSell EXCEPT ![i] = None]
<1> USE DEF Shape
<1> DEFINE price == orders[pendingSell[i]].price
           at == CHOOSE k \in DOMAIN active : active[k].index = i
           sold == active[at]
           others == RemoveAt(active, at)
           gain == Revenue(sold, price) - Cost(sold)
<1>1. /\ pendingSell[i] \in DOMAIN orders /\ i \in Indices
      /\ pendingSell[i][1] = "sell" /\ pendingSell[i][2] = i
  <2>1. pendingSell[i] # None
    BY DEF Sell, WorkIsThere
  <2> QED
    BY <2>1, PendingAreOrders DEF SellsLinked
<1>2. at \in DOMAIN active /\ sold.index = i /\ sold \in Tranche
  <2>1. \E k \in DOMAIN active : active[k].index = i
    BY <1>1 DEF Indices
  <2>2. at \in DOMAIN active /\ active[at].index = i
    BY <2>1
  <2> HIDE DEF at
  <2>3. active[at] \in Tranche
    BY <2>2 DEF StateTyped
  <2> QED
    BY <2>2, <2>3
<1>3. price \in Nat
  BY <1>1 DEF StateTyped, Order
<1> DEFINE next == IF gain > 0 THEN Subsidized(others, sold.buy, Percent(gain, Recycled)) ELSE others
<1>4. /\ orders' = Close(orders, pendingSell[i])
      /\ available' = available + Revenue(sold, price) /\ profit' = profit + gain
      /\ active' = next
      /\ pendingSell' = [pendingSell EXCEPT ![i] = None]
  BY DEF Sell
<1> HIDE DEF at, price
<1>5. Revenue(sold, price) \in Nat /\ Cost(sold) \in Nat
  <2>1. sold.amount \in Nat /\ sold.buy \in Prices
    BY <1>2 DEF Tranche
  <2>2. Value(sold.amount, price) \in Nat /\ Cost(sold) \in Nat
    BY <1>3, <2>1, ValueTyped, Numbers DEF Cost
  <2>3. Percent(Value(sold.amount, price), FeeRate) \in Nat
        /\ Percent(Value(sold.amount, price), FeeRate) <= Value(sold.amount, price)
    BY <2>2, FeeWithin
  <2> QED
    BY <2>2, <2>3 DEF Revenue
<1>6. others \in Seq(Tranche)
  BY <1>2, InvestedLess DEF StateTyped
<1> HIDE DEF others, sold
<1>7. Lowers(others, active')
  <2>1. CASE gain > 0
    <3>1. Percent(gain, Recycled) \in Int
      <4>1. gain \in Int /\ Recycled \in Int
        BY <1>5, Numbers
      <4> HIDE DEF gain
      <4> QED
        BY <4>1 DEF Percent
    <3>2. active' = Subsidized(others, sold.buy, Percent(gain, Recycled))
      BY <1>4, <2>1
    <3> HIDE DEF gain, next
    <3> QED
      BY <1>6, <3>1, <3>2, SubsidyLowers
  <2>2. CASE ~(gain > 0)
    <3>1. active' = others
      BY <1>4, <2>2
    <3>2. others \in [DOMAIN others -> Tranche] /\ \A k \in DOMAIN others : others[k].target \in Int
      <4>1. others \in [DOMAIN others -> Tranche]
        BY <1>6
      <4>2. \A t \in Tranche : t.target \in Int
        BY DEF Tranche
      <4> HIDE DEF Shape
      <4> QED
        BY <4>1, <4>2
    <3>3. Lowers(others, others)
      BY <3>2 DEF Lowers
    <3> QED
      BY <3>1, <3>3
  <2> QED
    BY <2>1, <2>2
<1>8. /\ orders' \in [DOMAIN orders -> Order]
      /\ \A d \in DOMAIN orders :
           /\ orders'[d].price = orders[d].price /\ orders'[d].amount = orders[d].amount
           /\ d # pendingSell[i] => orders'[d] = orders[d]
  <2>1. orders \in [DOMAIN orders -> Order] /\ orders' = Close(orders, pendingSell[i])
    BY <1>4 DEF StateTyped
  <2> HIDE DEF Shape, next
  <2> QED
    BY <2>1, ClosedOrder
<1> HIDE DEF Shape, next
<1> QED
  BY <1>1, <1>2, <1>3, <1>4, <1>5, <1>6, <1>7, <1>8 DEF others, sold

\* What it does with a signal.
LEMMA WhatBuys ==
    ASSUME Shape, HandleBuySignal, ~Refused(Head(signals))
    PROVE  LET s == Head(signals)
               id == <<"buy", s.index, stored.ts>>
               order == New(stored.close, Bought(s.size, stored.close))
           IN  /\ s \in Signal /\ s.index \in Tranches /\ s.size \in Sizes
               /\ s.index \notin Indices /\ pendingBuy[s.index] = None
               /\ s.size <= available
               /\ order \in Order /\ order.price = stored.close
               /\ orders' \in [DOMAIN orders \cup {id} -> Order]
               /\ \A d \in DOMAIN orders :
                    /\ orders'[d].price = orders[d].price
                    /\ orders'[d].amount = orders[d].amount
                    /\ d # id => orders'[d] = orders[d]
               /\ id \notin DOMAIN orders => orders'[id] = order
               /\ orders'[id].price = stored.close
               /\ 0 < RowValue(orders'[id]) /\ RowValue(orders'[id]) <= Max(Sizes)
               /\ orders'[id].amount <= order.amount => RowValue(orders'[id]) <= s.size
               /\ pendingBuy' = [pendingBuy EXCEPT ![s.index] = id]
               /\ ghost' = [ghost EXCEPT !.asked[s.index] = order,
                              !.larger = @ \/ orders'[id].amount > order.amount]
<1> USE DEF Shape
<1> DEFINE s == Head(signals)
           id == <<"buy", s.index, stored.ts>>
           order == New(stored.close, Bought(s.size, stored.close))
<1>1. s \in Signal /\ s.index \in Tranches /\ s.size \in Sizes
  <2>1. signals # <<>> /\ signals \in Seq(Signal)
    BY DEF StateTyped, HandleBuySignal, WorkIsThere
  <2>2. s \in Signal
    BY <2>1
  <2> HIDE DEF s
  <2> QED
    BY <2>2 DEF Signal
<1>2. /\ s.index \notin Indices /\ pendingBuy[s.index] = None
      /\ ~(available < s.size) /\ ~(s.size < MinSize)
  BY DEF Refused
<1>3. s.size \in Nat /\ s.size <= available /\ s.size >= MinSize
  <2>1. available \in Int
    BY DEF StateTyped
  <2> QED
    BY <1>1, <1>2, <2>1, Numbers
<1>4. /\ orders' = SaveOrder(orders, id, order)
      /\ pendingBuy' = [pendingBuy EXCEPT ![s.index] = id]
      /\ ghost' = [ghost EXCEPT !.asked[s.index] = order,
                     !.larger = @ \/ orders'[id].amount > order.amount]
  BY DEF HandleBuySignal, Id
<1>5. stored.close \in Prices /\ stored.ts \in Nat
  BY CandleTyped
<1> HIDE DEF s
<1>6. /\ Bought(s.size, stored.close) \in Nat
      /\ 0 < Value(Bought(s.size, stored.close), stored.close)
      /\ \A amount \in Nat :
           amount <= Bought(s.size, stored.close) => Value(amount, stored.close) <= s.size
  BY <1>1, <1>3, <1>5, PlacedOrder
<1>7. /\ order \in Order /\ order.price = stored.close
      /\ order.amount = Bought(s.size, stored.close)
  <2>1. stored.close \in Nat
    BY <1>5, Numbers
  <2> QED
    BY <1>6, <2>1 DEF New, Order
<1> HIDE DEF order, id
<1>8. /\ orders' \in [DOMAIN orders \cup {id} -> Order]
      /\ \A d \in DOMAIN orders :
           /\ orders'[d].price = orders[d].price
           /\ orders'[d].amount = orders[d].amount
           /\ d # id => orders'[d] = orders[d]
      /\ id \notin DOMAIN orders => orders'[id] = order
  <2>1. orders \in [DOMAIN orders -> Order]
    BY DEF StateTyped
  <2> HIDE DEF Shape
  <2>2. /\ SaveOrder(orders, id, order) \in [DOMAIN orders \cup {id} -> Order]
        /\ \A d \in DOMAIN orders :
             /\ SaveOrder(orders, id, order)[d].price = orders[d].price
             /\ SaveOrder(orders, id, order)[d].amount = orders[d].amount
             /\ d # id => SaveOrder(orders, id, order)[d] = orders[d]
        /\ id \notin DOMAIN orders => SaveOrder(orders, id, order)[id] = order
    BY <1>7, <2>1, SavedOrder
  <2> QED
    BY <1>4, <2>2
<1>9. id[1] = "buy" /\ id[3] = stored.ts
  BY DEF id
<1>10. orders'[id].price = stored.close
  <2>1. CASE id \in DOMAIN orders
    BY <1>8, <1>9, <2>1 DEF BuysAtClose
  <2>2. CASE id \notin DOMAIN orders
    BY <1>7, <1>8, <2>2
  <2> QED
    BY <2>1, <2>2
<1>11. orders'[id].amount <= order.amount => RowValue(orders'[id]) <= s.size
  <2>1. orders'[id].amount \in Nat
    BY <1>8 DEF Order
  <2> QED
    BY <1>6, <1>7, <1>10, <2>1 DEF RowValue
<1>12. 0 < RowValue(orders'[id]) /\ RowValue(orders'[id]) <= Max(Sizes)
  <2>1. CASE id \in DOMAIN orders
    <3>1. 0 < RowValue(orders[id]) /\ RowValue(orders[id]) <= Max(Sizes)
      BY <1>9, <2>1 DEF BuysPlaced
    <3>2. RowValue(orders'[id]) = RowValue(orders[id])
      BY <1>8, <2>1 DEF RowValue
    <3> QED
      BY <3>1, <3>2
  <2>2. CASE id \notin DOMAIN orders
    <3>1. orders'[id] = order
      BY <1>8, <2>2
    <3>2. RowValue(orders'[id]) = Value(Bought(s.size, stored.close), stored.close)
      BY <1>7, <3>1 DEF RowValue
    <3>3. Value(Bought(s.size, stored.close), stored.close) <= s.size
      BY <1>6
    <3>4. Value(Bought(s.size, stored.close), stored.close) \in Nat
      BY <1>5, <1>6, ValueTyped, Numbers
    <3>5. s.size <= Max(Sizes) /\ Max(Sizes) \in Nat
      BY <1>1, LargestSize
    <3> QED
      BY <1>3, <1>6, <3>2, <3>3, <3>4, <3>5
  <2> QED
    BY <2>1, <2>2
<1> HIDE DEF Shape
<1> QED
  BY <1>1, <1>2, <1>3, <1>4, <1>7, <1>8, <1>10, <1>11, <1>12 DEF s, id, order

-----------------------------------------------------------------------------
(* Shape is inductive *)

IndicesOf(list) == {list[k].index : k \in DOMAIN list}
OneEach(list) == \A k, m \in DOMAIN list : list[k].index = list[m].index => k = m
Alike(t, u) == /\ t.index = u.index /\ t.buy = u.buy /\ t.amount = u.amount
               /\ t.since = u.since /\ t.target <= u.target

\* What is left of a list of tranches after one is sold.
LEMMA WhatIsLeft ==
  ASSUME NEW list \in Seq(Tranche), OneEach(list), NEW at \in DOMAIN list,
         NEW after, Lowers(RemoveAt(list, at), after)
  PROVE  /\ after \in Seq(Tranche) /\ OneEach(after)
         /\ IndicesOf(after) = IndicesOf(list) \ {list[at].index}
         /\ \A j \in DOMAIN after : \E k \in DOMAIN list \ {at} : Alike(after[j], list[k])
<1> DEFINE n == Len(list)
           others == RemoveAt(list, at)
           h(j) == IF j < at THEN j ELSE j + 1
<1>1. n \in Nat /\ DOMAIN list = 1 .. n /\ at \in 1 .. n
  OBVIOUS
<1>2. /\ others \in Seq(Tranche) /\ DOMAIN others = 1 .. n - 1
      /\ \A j \in 1 .. n - 1 : others[j] = list[h(j)]
  <2>1. /\ others \in Seq(Tranche) /\ Len(others) = n - 1
        /\ \A j \in 1 .. n - 1 : others[j] = IF j < at THEN list[j] ELSE list[j + 1]
    BY <1>1, RemovedAt
  <2> HIDE DEF others, n
  <2>2. DOMAIN others = 1 .. n - 1
    BY <2>1
  <2> QED
    BY <2>1, <2>2
<1> HIDE DEF n, others
<1>3. after \in Seq(Tranche) /\ DOMAIN after = 1 .. n - 1
  BY <1>2, InvestedSame DEF Lowers, others
<1>4. /\ \A j \in 1 .. n - 1 : h(j) \in DOMAIN list \ {at}
      /\ \A j, m \in 1 .. n - 1 : h(j) = h(m) => j = m
      /\ \A k \in DOMAIN list \ {at} : \E j \in 1 .. n - 1 : h(j) = k
  <2>1. ASSUME NEW j \in 1 .. n - 1 PROVE h(j) \in DOMAIN list \ {at}
    BY <1>1
  <2>2. ASSUME NEW j \in 1 .. n - 1, NEW m \in 1 .. n - 1, h(j) = h(m) PROVE j = m
    BY <1>1, <2>2
  <2>3. ASSUME NEW k \in DOMAIN list \ {at} PROVE \E j \in 1 .. n - 1 : h(j) = k
    <3>1. CASE k < at
      <4>1. k \in 1 .. n - 1 /\ h(k) = k
        BY <1>1, <3>1
      <4> QED
        BY <4>1
    <3>2. CASE ~(k < at)
      <4>1. k - 1 \in 1 .. n - 1 /\ h(k - 1) = k
        BY <1>1, <3>2
      <4> QED
        BY <4>1
    <3> QED
      BY <3>1, <3>2
  <2> QED
    BY <2>1, <2>2, <2>3
<1> HIDE DEF h
<1>5. \A j \in 1 .. n - 1 : Alike(after[j], list[h(j)])
  BY <1>2 DEF Lowers, Alike, others
<1>6. OneEach(after)
  <2> SUFFICES ASSUME NEW j \in 1 .. n - 1, NEW m \in 1 .. n - 1, after[j].index = after[m].index
               PROVE  j = m
    BY <1>3 DEF OneEach
  <2>1. list[h(j)].index = list[h(m)].index /\ h(j) \in DOMAIN list /\ h(m) \in DOMAIN list
    BY <1>4, <1>5 DEF Alike
  <2>2. h(j) = h(m)
    BY <2>1 DEF OneEach
  <2> QED
    BY <1>4, <2>2
<1>7. IndicesOf(after) = IndicesOf(list) \ {list[at].index}
  <2>1. ASSUME NEW i \in IndicesOf(after) PROVE i \in IndicesOf(list) /\ i # list[at].index
    <3>1. PICK j \in 1 .. n - 1 : after[j].index = i
      BY <1>3 DEF IndicesOf
    <3>2. list[h(j)].index = i /\ h(j) \in DOMAIN list /\ h(j) # at
      BY <1>4, <1>5, <3>1 DEF Alike
    <3>3. i # list[at].index
      BY <3>2 DEF OneEach
    <3> QED
      BY <3>2, <3>3 DEF IndicesOf
  <2>2. ASSUME NEW i \in IndicesOf(list), i # list[at].index PROVE i \in IndicesOf(after)
    <3>1. PICK k \in DOMAIN list : list[k].index = i
      BY DEF IndicesOf
    <3>2. k \in DOMAIN list \ {at}
      BY <2>2, <3>1
    <3>3. PICK j \in 1 .. n - 1 : h(j) = k
      BY <1>4, <3>2
    <3>4. after[j].index = i
      BY <1>5, <3>1, <3>3 DEF Alike
    <3> QED
      BY <1>3, <3>4 DEF IndicesOf
  <2> QED
    BY <2>1, <2>2
<1>8. \A j \in DOMAIN after : \E k \in DOMAIN list \ {at} : Alike(after[j], list[k])
  BY <1>3, <1>4, <1>5
<1> QED
  BY <1>3, <1>6, <1>7, <1>8

\* And after one is bought.
LEMMA WhatIsMore ==
  ASSUME NEW list \in Seq(Tranche), OneEach(list), NEW t \in Tranche,
         t.index \notin IndicesOf(list)
  PROVE  LET after == Append(list, t)
         IN  /\ after \in Seq(Tranche) /\ OneEach(after)
             /\ IndicesOf(after) = IndicesOf(list) \cup {t.index}
             /\ \A k \in DOMAIN after : after[k] = t \/ (k \in DOMAIN list /\ after[k] = list[k])
<1> DEFINE after == Append(list, t)
           n == Len(list)
<1>1. /\ after \in Seq(Tranche) /\ n \in Nat /\ DOMAIN after = DOMAIN list \cup {n + 1}
      /\ n + 1 \notin DOMAIN list /\ after[n + 1] = t /\ \A k \in DOMAIN list : after[k] = list[k]
  OBVIOUS
<1> HIDE DEF after, n
<1>2. OneEach(after)
  <2>1. \A k \in DOMAIN list : list[k].index # t.index
    BY DEF IndicesOf
  <2> QED
    BY <1>1, <2>1 DEF OneEach
<1>3. IndicesOf(after) = IndicesOf(list) \cup {t.index}
  <2>1. \A k \in DOMAIN after : after[k].index \in IndicesOf(list) \cup {t.index}
    BY <1>1 DEF IndicesOf
  <2>2. t.index \in IndicesOf(after)
    BY <1>1 DEF IndicesOf
  <2>3. \A k \in DOMAIN list : list[k].index \in IndicesOf(after)
    BY <1>1 DEF IndicesOf
  <2> QED
    BY <2>1, <2>2, <2>3 DEF IndicesOf
<1> QED
  BY <1>1, <1>2, <1>3 DEF after

LEMMA InitShape == Init => Shape
<1> SUFFICES ASSUME Init PROVE Shape
  OBVIOUS
<1>1. stored \in Candles(1) /\ stored.ts = 1 /\ MaxCandles \in Nat /\ MaxCandles > 0
  BY Numbers DEF Init, Candles
<1>2. DOMAIN orders = {} /\ orders \in [{} -> Order]
  BY DEF Init
<1>3. pendingBuy = [i \in Tranches |-> None] /\ pendingSell = [i \in Tranches |-> None]
  BY DEF Init
<1>4. ghost \in [asked : [Tranches -> Order \cup {None}], sold : [Tranches -> Nat],
                 larger : BOOLEAN]
  BY DEF Init
<1>5. signals \in Seq(Signal) /\ active \in Seq(Tranche)
  BY DEF Init
<1>6. available \in Int /\ profit \in Int /\ deposited \in Int /\ withdrawn \in Nat
  BY Numbers DEF Init
<1>7. StateTyped
  BY <1>1, <1>2, <1>3, <1>4, <1>5, <1>6 DEF StateTyped, Init
<1>8. Indices = {} /\ DOMAIN active = {}
  BY DEF Init, Indices
<1>9. OnePerIndex /\ BuysLinked /\ SellsLinked
  BY <1>3, <1>8 DEF OnePerIndex, BuysLinked, SellsLinked
<1>10. NoneAhead /\ BuysAtClose /\ BuysPlaced /\ WorkIsThere
  BY <1>2 DEF Init, WorkIsThere, NoneAhead, BuysAtClose, BuysPlaced
<1> QED
  BY <1>7, <1>9, <1>10 DEF Shape

\* Steps that leave the candle, the orders and the tranches.
LEMMA StillShape ==
    ASSUME Shape, StateTyped', WorkIsThere',
           stored' = stored, orders' = orders, pendingBuy' = pendingBuy,
           pendingSell' = pendingSell, active' = active
    PROVE  Shape'
<1>1. Indices' = Indices
  BY DEF Indices
<1>2. OnePerIndex' /\ BuysLinked' /\ SellsLinked'
  BY <1>1 DEF Shape, OnePerIndex, BuysLinked, SellsLinked
<1>3. NoneAhead' /\ BuysAtClose' /\ BuysPlaced'
  BY DEF Shape, NoneAhead, BuysAtClose, BuysPlaced
<1> QED
  BY <1>2, <1>3 DEF Shape

LEMMA SyncKeepsShape == Shape /\ SyncOnce => Shape'
<1> SUFFICES ASSUME Shape, SyncOnce PROVE Shape'
  OBVIOUS
<1> USE DEF Shape
<1>1. PICK ts \in stored.ts .. stored.ts + 1 :
        ts <= MaxCandles /\ \E candle \in Candles(ts) : stored' = Saved(candle)
  BY DEF SyncOnce
<1>2. PICK candle \in Candles(ts) : stored' = Saved(candle)
  BY <1>1
<1>3. /\ UNCHANGED <<orders, pendingBuy, pendingSell, active>>
      /\ UNCHANGED <<available, profit, deposited, withdrawn>>
      /\ UNCHANGED <<pc, todo, signals, ghost>>
  BY DEF SyncOnce, orderVars, cycleVars, bookVars, moneyVars
<1>4. candle.ts = ts /\ ts \in Nat /\ stored.ts \in Nat /\ stored.ts > 0
  BY <1>1, <1>2, CandleTyped DEF Candles
<1>5. stored' = stored \/ (stored' = candle /\ ts = stored.ts + 1)
  BY <1>1, <1>2, <1>4 DEF Saved
<1>6. stored'.ts \in 1 .. MaxCandles /\ stored' \in Candles(stored'.ts)
  <2>1. CASE stored' = stored
    BY <2>1 DEF StateTyped
  <2>2. CASE stored' = candle /\ ts = stored.ts + 1
    BY <1>1, <1>2, <1>4, <2>2, Numbers
  <2> QED
    BY <1>5, <2>1, <2>2
<1>7. StateTyped'
  BY <1>3, <1>6 DEF StateTyped
<1>8. NoneAhead' /\ BuysAtClose'
  <2>1. \A id \in DOMAIN orders : id[3] \in Nat
    BY IdsDiffer DEF StateTyped
  <2> QED
    BY <1>3, <1>4, <1>5, <2>1 DEF NoneAhead, BuysAtClose
<1>9. BuysPlaced' /\ WorkIsThere' /\ Indices' = Indices
  BY <1>3 DEF BuysPlaced, WorkIsThere, Indices
<1>10. OnePerIndex' /\ BuysLinked' /\ SellsLinked'
  BY <1>3, <1>9 DEF OnePerIndex, BuysLinked, SellsLinked
<1> QED
  BY <1>7, <1>8, <1>9, <1>10

LEMMA OtherKeepsShape ==
    ASSUME Shape,
           \/ StartCycle \/ BuysReconciled \/ Evaluate
           \/ \E amount \in Transfers : DepositCapital(amount) \/ WithdrawCapital(amount)
           \/ UNCHANGED vars
    PROVE  Shape'
<1> USE DEF Shape
<1>1. UNCHANGED <<stored, orders, pendingBuy, pendingSell, active, ghost>>
  BY DEF StartCycle, BuysReconciled, Evaluate, DepositCapital, WithdrawCapital, vars, orderVars,
     bookVars
<1>2. signals' \in Seq(Signal)
  <2>1. CASE Evaluate
    <3>1. PICK seq \in Signals : signals' = seq
      BY <2>1 DEF Evaluate
    <3>2. PICK n \in 0 .. Cardinality(Tranches) : seq \in [1 .. n -> Signal]
      BY <3>1 DEF Signals, SeqOf, Signal
    <3> QED BY <3>1, <3>2
  <2>2. CASE ~Evaluate
    BY <2>2 DEF StateTyped, StartCycle, BuysReconciled, DepositCapital, WithdrawCapital, vars,
       cycleVars
  <2> QED BY <2>1, <2>2
<1>3. available' \in Int /\ profit' \in Int /\ deposited' \in Int /\ withdrawn' \in Nat
  <2>1. CASE \E amount \in Transfers : DepositCapital(amount) \/ WithdrawCapital(amount)
    <3>1. PICK amount \in Transfers : DepositCapital(amount) \/ WithdrawCapital(amount)
      BY <2>1
    <3>2. amount \in Nat
      BY Numbers
    <3> QED
      BY <3>1, <3>2 DEF StateTyped, DepositCapital, WithdrawCapital
  <2>2. CASE StartCycle \/ BuysReconciled \/ Evaluate \/ UNCHANGED vars
    <3>1. UNCHANGED <<available, profit, deposited, withdrawn>>
      BY <2>2 DEF StartCycle, BuysReconciled, Evaluate, vars, bookVars, moneyVars
    <3> QED
      BY <3>1 DEF StateTyped
  <2> QED
    BY <2>1, <2>2
<1>4. pc' \in {"sleep", "buys", "sells", "signals"} /\ todo' \subseteq Tranches
  <2>1. ReachedBuys \subseteq Tranches /\ ReachedSells \subseteq Tranches
    BY DEF ReachedBuys, ReachedSells
  <2>2. pc \in {"sleep", "buys", "sells", "signals"} /\ todo \subseteq Tranches
    BY DEF StateTyped
  <2> QED
    BY <2>1, <2>2 DEF StartCycle, BuysReconciled, Evaluate, DepositCapital, WithdrawCapital, vars,
       cycleVars
<1>5. StateTyped'
  BY <1>1, <1>2, <1>3, <1>4 DEF StateTyped
<1>6. WorkIsThere'
  <2>1. CASE StartCycle \/ BuysReconciled
    BY <1>1, <2>1 DEF WorkIsThere, StartCycle, ReachedBuys, ReachedSells, BuysReconciled
  <2>2. CASE Evaluate
    BY <2>2 DEF WorkIsThere, Evaluate
  <2>3. CASE \/ \E amount \in Transfers : DepositCapital(amount) \/ WithdrawCapital(amount)
             \/ UNCHANGED vars
    BY <1>1, <2>3 DEF WorkIsThere, DepositCapital, WithdrawCapital, vars, cycleVars
  <2> QED
    BY <2>1, <2>2, <2>3
<1> HIDE DEF Shape
<1> QED
  BY <1>1, <1>5, <1>6, StillShape

LEMMA IndicesAre == Indices = IndicesOf(active) /\ (OnePerIndex <=> OneEach(active))
BY DEF Indices, IndicesOf, OnePerIndex, OneEach

LEMMA ActivateKeepsShape ==
    ASSUME Shape, NEW i \in Tranches, Activate(i)
    PROVE  Shape'
<1> DEFINE id == pendingBuy[i]
           filled == orders[id]
           t == [index |-> i, buy |-> filled.price, amount |-> filled.amount,
                 target |-> Target(filled.price), since |-> stored.ts]
           sell == <<"sell", i, stored.ts>>
<1>1. /\ id \in DOMAIN orders /\ id[1] = "buy" /\ id[2] = i
      /\ i \notin Indices /\ filled \in Order /\ t \in Tranche
      /\ active' = Append(active, t) /\ available' = available - RowValue(filled)
      /\ orders' \in [DOMAIN orders \cup {sell} -> Order]
      /\ \A d \in DOMAIN orders :
           /\ orders'[d].price = orders[d].price
           /\ orders'[d].amount = orders[d].amount
      /\ pendingBuy' = [pendingBuy EXCEPT ![i] = None]
      /\ pendingSell' = [pendingSell EXCEPT ![i] = sell]
  BY WhatActivates
<1>2. t.index = i
  OBVIOUS
<1> HIDE DEF t, id
<1> USE DEF Shape
<1>3. sell \in Ids /\ sell[1] = "sell" /\ sell[2] = i /\ sell[3] = stored.ts /\ sell # None
  <2>1. stored.ts \in Nat
    BY CandleTyped
  <2> QED
    BY <2>1, IdsDiffer DEF None
<1> HIDE DEF sell, filled
<1>4. /\ active' \in Seq(Tranche) /\ OneEach(active')
      /\ Indices' = Indices \cup {i} /\ OnePerIndex'
  <2>1. active \in Seq(Tranche) /\ OneEach(active) /\ t.index \notin IndicesOf(active)
    BY <1>1, <1>2, IndicesAre DEF StateTyped
  <2>2. /\ active' \in Seq(Tranche) /\ OneEach(active')
        /\ IndicesOf(active') = IndicesOf(active) \cup {i}
    BY <1>1, <1>2, <2>1, WhatIsMore
  <2>3. Indices' = IndicesOf(active') /\ (OnePerIndex' <=> OneEach(active'))
    BY DEF Indices, IndicesOf, OnePerIndex, OneEach
  <2> QED
    BY <2>2, <2>3, IndicesAre
<1>5. available' \in Int
  <2>1. RowValue(filled) \in Nat
    BY <1>1, ValueTyped DEF RowValue, Order
  <2> QED
    BY <1>1, <2>1 DEF StateTyped
<1>6. /\ UNCHANGED <<stored, profit, deposited, withdrawn, pc, signals>> /\ todo' = todo \ {i}
      /\ pc = "buys" /\ ghost' = [ghost EXCEPT !.asked[i] = None]
  BY DEF Activate
<1>7. /\ DOMAIN orders' \subseteq Ids
      /\ pendingBuy' \in [Tranches -> DOMAIN orders' \cup {None}]
      /\ pendingSell' \in [Tranches -> DOMAIN orders' \cup {None}]
      /\ ghost' \in [asked : [Tranches -> Order \cup {None}], sold : [Tranches -> Nat],
                     larger : BOOLEAN]
  BY <1>1, <1>3, <1>6 DEF StateTyped
<1>8. orders' \in [DOMAIN orders' -> Order]
  BY <1>1
<1>9. StateTyped'
  BY <1>4, <1>5, <1>6, <1>7, <1>8 DEF StateTyped
<1>10. pendingBuy \in [Tranches -> DOMAIN orders \cup {None}]
       /\ pendingSell \in [Tranches -> DOMAIN orders \cup {None}]
  BY DEF StateTyped
<1>11. WorkIsThere'
  BY <1>1, <1>6, <1>10 DEF WorkIsThere
<1>12. BuysLinked' /\ SellsLinked'
  BY <1>1, <1>3, <1>4, <1>10 DEF BuysLinked, SellsLinked
<1>13. DOMAIN orders' = DOMAIN orders \cup {sell}
  BY <1>1
<1>14. NoneAhead' /\ BuysAtClose'
  <2>1. stored.ts \in Nat
    BY CandleTyped
  <2> QED
    BY <1>1, <1>3, <1>6, <1>13, <2>1 DEF NoneAhead, BuysAtClose
<1>15. BuysPlaced'
  BY <1>1, <1>3, <1>13 DEF BuysPlaced, RowValue
<1> QED
  BY <1>4, <1>9, <1>11, <1>12, <1>14, <1>15

LEMMA SellKeepsShape ==
    ASSUME Shape, NEW i \in Tranches, Sell(i)
    PROVE  Shape'
<1>1. PICK at \in DOMAIN active, price \in Nat :
        /\ active[at].index = i
        /\ Revenue(active[at], price) \in Nat /\ Cost(active[at]) \in Nat
        /\ Lowers(RemoveAt(active, at), active')
        /\ available' = available + Revenue(active[at], price)
        /\ profit' = profit + (Revenue(active[at], price) - Cost(active[at]))
        /\ orders' \in [DOMAIN orders -> Order]
        /\ \A d \in DOMAIN orders :
             /\ orders'[d].price = orders[d].price
             /\ orders'[d].amount = orders[d].amount
        /\ pendingSell' = [pendingSell EXCEPT ![i] = None]
  BY WhatSells
<1> USE DEF Shape
<1>2. /\ active' \in Seq(Tranche) /\ OneEach(active')
      /\ Indices' = Indices \ {i} /\ OnePerIndex'
  <2>1. active \in Seq(Tranche) /\ OneEach(active)
    BY IndicesAre DEF StateTyped
  <2>2. /\ active' \in Seq(Tranche) /\ OneEach(active')
        /\ IndicesOf(active') = IndicesOf(active) \ {i}
    BY <1>1, <2>1, WhatIsLeft
  <2>3. Indices' = IndicesOf(active') /\ (OnePerIndex' <=> OneEach(active'))
    BY DEF Indices, IndicesOf, OnePerIndex, OneEach
  <2> QED
    BY <2>2, <2>3, IndicesAre
<1>3. available' \in Int /\ profit' \in Int
  <2>1. available \in Int /\ profit \in Int
    BY DEF StateTyped
  <2> HIDE DEF Shape
  <2> QED
    BY <1>1, <2>1
<1>4. /\ UNCHANGED <<stored, pendingBuy, deposited, withdrawn, pc, signals>> /\ todo' = todo \ {i}
      /\ pc = "sells" /\ ghost' = [ghost EXCEPT !.sold[i] = stored.ts]
  BY DEF Sell
<1>5. /\ DOMAIN orders' = DOMAIN orders /\ orders' \in [DOMAIN orders' -> Order]
      /\ pendingSell' \in [Tranches -> DOMAIN orders' \cup {None}]
      /\ ghost' \in [asked : [Tranches -> Order \cup {None}], sold : [Tranches -> Nat],
                     larger : BOOLEAN]
  <2>1. stored.ts \in Nat
    BY CandleTyped
  <2> QED
    BY <1>1, <1>4, <2>1 DEF StateTyped
<1>6. StateTyped'
  BY <1>2, <1>3, <1>4, <1>5 DEF StateTyped
<1>7. pendingSell \in [Tranches -> DOMAIN orders \cup {None}]
  BY DEF StateTyped
<1>8. WorkIsThere'
  BY <1>1, <1>4, <1>7 DEF WorkIsThere
<1>9. BuysLinked' /\ SellsLinked'
  BY <1>1, <1>2, <1>4, <1>7 DEF BuysLinked, SellsLinked
<1>10. NoneAhead' /\ BuysAtClose'
  BY <1>1, <1>4, <1>5 DEF NoneAhead, BuysAtClose
<1>11. BuysPlaced'
  BY <1>1, <1>5 DEF BuysPlaced, RowValue
<1> QED
  BY <1>2, <1>6, <1>8, <1>9, <1>10, <1>11

\* The signals that are left.
LEMMA FewerSignals ==
    ASSUME Shape, HandleBuySignal
    PROVE  /\ signals' \in Seq(Signal) /\ pc' \in {"sleep", "signals"} /\ WorkIsThere'
           /\ stored' = stored /\ UNCHANGED bookVars /\ todo' = todo
<1>1. signals # <<>> /\ signals \in Seq(Signal)
  BY DEF Shape, StateTyped, HandleBuySignal, WorkIsThere
<1>2. signals' = Tail(signals) /\ pc' = IF Len(signals) = 1 THEN "sleep" ELSE "signals"
  BY DEF HandleBuySignal
<1>3. Len(Tail(signals)) = Len(signals) - 1 /\ Len(signals) \in Nat /\ Tail(signals) \in Seq(Signal)
  BY <1>1
<1>4. Len(signals) # 1 => Tail(signals) # <<>>
  <2>1. Len(signals) # 1 => Len(Tail(signals)) # 0
    BY <1>3
  <2> QED
    BY <2>1
<1> QED
  BY <1>2, <1>3, <1>4 DEF WorkIsThere, HandleBuySignal

LEMMA BuyKeepsShape == Shape /\ HandleBuySignal => Shape'
<1> SUFFICES ASSUME Shape, HandleBuySignal PROVE Shape'
  OBVIOUS
<1>1. /\ signals' \in Seq(Signal) /\ pc' \in {"sleep", "signals"} /\ WorkIsThere'
      /\ stored' = stored /\ todo' = todo
      /\ UNCHANGED <<active, available, profit, deposited, withdrawn>>
  BY FewerSignals DEF bookVars, moneyVars
<1>2. CASE Refused(Head(signals))
  <2>1. UNCHANGED <<orders, pendingBuy, pendingSell, ghost>>
    BY <1>2 DEF HandleBuySignal, orderVars
  <2>2. StateTyped'
    BY <1>1, <2>1 DEF Shape, StateTyped
  <2> QED
    BY <1>1, <2>1, <2>2, StillShape
<1>3. CASE ~Refused(Head(signals))
  <2> DEFINE s == Head(signals)
             id == <<"buy", s.index, stored.ts>>
             order == New(stored.close, Bought(s.size, stored.close))
  <2>1. /\ s.index \in Tranches /\ s.index \notin Indices
        /\ order \in Order
        /\ orders' \in [DOMAIN orders \cup {id} -> Order]
        /\ \A d \in DOMAIN orders :
             /\ orders'[d].price = orders[d].price
             /\ orders'[d].amount = orders[d].amount
        /\ orders'[id].price = stored.close
        /\ 0 < RowValue(orders'[id]) /\ RowValue(orders'[id]) <= Max(Sizes)
        /\ pendingBuy' = [pendingBuy EXCEPT ![s.index] = id]
        /\ ghost' = [ghost EXCEPT !.asked[s.index] = order,
                       !.larger = @ \/ orders'[id].amount > order.amount]
    BY <1>3, WhatBuys
  <2>2. UNCHANGED pendingSell /\ stored.ts \in Nat /\ stored.close \in Prices
    BY <1>3, CandleTyped DEF HandleBuySignal, Shape
  <2> HIDE DEF s, order
  <2>3. id \in Ids /\ id[1] = "buy" /\ id[2] = s.index /\ id[3] = stored.ts /\ id # None
    BY <2>1, <2>2, IdsDiffer DEF None
  <2> HIDE DEF id
  <2> USE DEF Shape
  <2>4. DOMAIN orders' = DOMAIN orders \cup {id} /\ orders' \in [DOMAIN orders' -> Order]
    BY <2>1
  <2>5. ghost' \in [asked : [Tranches -> Order \cup {None}], sold : [Tranches -> Nat],
                    larger : BOOLEAN]
    <3> DEFINE l == ghost.larger \/ orders'[id].amount > order.amount
    <3>1. l \in BOOLEAN
      OBVIOUS
    <3>2. ghost' = [ghost EXCEPT !.asked[s.index] = order, !.larger = l]
      BY <2>1
    <3> HIDE DEF l
    <3>3. /\ ghost = [asked |-> ghost.asked, sold |-> ghost.sold, larger |-> ghost.larger]
          /\ ghost.asked \in [Tranches -> Order \cup {None}] /\ ghost.sold \in [Tranches -> Nat]
      BY DEF StateTyped
    <3>4. ghost' = [asked |-> [ghost.asked EXCEPT ![s.index] = order], sold |-> ghost.sold,
                    larger |-> l]
      BY <3>2, <3>3
    <3>5. [ghost.asked EXCEPT ![s.index] = order] \in [Tranches -> Order \cup {None}]
      BY <2>1, <3>3
    <3> QED
      BY <3>1, <3>3, <3>4, <3>5
  <2>6. /\ DOMAIN orders' \subseteq Ids
        /\ pendingBuy' \in [Tranches -> DOMAIN orders' \cup {None}]
        /\ pendingSell' \in [Tranches -> DOMAIN orders' \cup {None}]
    BY <2>1, <2>2, <2>3, <2>4 DEF StateTyped
  <2>7. StateTyped'
    BY <1>1, <2>4, <2>5, <2>6 DEF StateTyped
  <2>8. Indices' = Indices /\ pendingBuy \in [Tranches -> DOMAIN orders \cup {None}]
    BY <1>1 DEF Indices, StateTyped
  <2>9. OnePerIndex' /\ BuysLinked' /\ SellsLinked'
    BY <1>1, <2>1, <2>2, <2>3, <2>8 DEF OnePerIndex, BuysLinked, SellsLinked
  <2>10. NoneAhead' /\ BuysAtClose'
    BY <1>1, <2>1, <2>2, <2>3, <2>4 DEF NoneAhead, BuysAtClose
  <2>11. BuysPlaced'
    BY <2>1, <2>2, <2>4 DEF BuysPlaced, RowValue
  <2> QED
    BY <1>1, <2>7, <2>9, <2>10, <2>11
<1> QED
  BY <1>2, <1>3

LEMMA StepKeepsShape == Shape /\ [Next]_vars => Shape'
BY SyncKeepsShape, ActivateKeepsShape, SellKeepsShape, BuyKeepsShape, OtherKeepsShape DEF Next

LEMMA ShapeHolds == Spec => []Shape
BY InitShape, StepKeepsShape, PTL DEF Spec

\* One tranche, one resting buy and one resting sell per index, whose ids are in
\* table orders, whatever the ids that repeat (live_runner.py 249-301, 309-451).
THEOREM PaperTyped == Spec => []TypeOK
<1>1. Shape => TypeOK
  <2> SUFFICES ASSUME Shape PROVE TypeOK
    OBVIOUS
  <2>1. \A i \in Tranches :
         /\ pendingBuy[i] # None => pendingBuy[i] \in DOMAIN orders /\ i \notin Indices
         /\ pendingSell[i] # None <=> i \in Indices
         /\ pendingSell[i] # None => pendingSell[i] \in DOMAIN orders
    BY PendingAreOrders DEF Shape, BuysLinked, SellsLinked
  <2> QED
    BY <2>1 DEF Shape, StateTyped, OnePerIndex, TypeOK
<1> QED
  BY <1>1, ShapeHolds, PTL

-----------------------------------------------------------------------------
(* The price a resting buy was asked at *)

LEMMA StillAsked ==
    ASSUME Shape, BuyAtItsSignal,
           \A d \in DOMAIN orders : orders'[d].price = orders[d].price,
           \A i \in Tranches :
             \/ pendingBuy'[i] = None
             \/ pendingBuy'[i] = pendingBuy[i] /\ ghost'.asked[i] = ghost.asked[i]
    PROVE  BuyAtItsSignal'
<1> SUFFICES ASSUME NEW i \in Tranches, pendingBuy'[i] # None
             PROVE  orders'[pendingBuy'[i]].price = ghost'.asked[i].price
  BY DEF BuyAtItsSignal
<1>1. pendingBuy'[i] = pendingBuy[i] /\ ghost'.asked[i] = ghost.asked[i] /\ pendingBuy[i] # None
  OBVIOUS
<1>2. pendingBuy[i] \in DOMAIN orders
  BY <1>1, PendingAreOrders DEF Shape
<1> QED
  BY <1>1, <1>2 DEF BuyAtItsSignal

LEMMA StepKeepsPrices == Shape /\ BuyAtItsSignal /\ [Next]_vars => BuyAtItsSignal'
<1> SUFFICES ASSUME Shape, BuyAtItsSignal, [Next]_vars PROVE BuyAtItsSignal'
  OBVIOUS
<1>1. CASE \/ SyncOnce \/ StartCycle \/ BuysReconciled \/ Evaluate
           \/ \E amount \in Transfers : DepositCapital(amount) \/ WithdrawCapital(amount)
           \/ UNCHANGED vars
  <2>1. UNCHANGED <<orders, pendingBuy, ghost>>
    BY <1>1 DEF SyncOnce, StartCycle, BuysReconciled, Evaluate, DepositCapital, WithdrawCapital,
       vars, orderVars
  <2> QED
    BY <2>1, StillAsked
<1>2. ASSUME NEW i \in Tranches, Activate(i) PROVE BuyAtItsSignal'
  <2>1. /\ \A d \in DOMAIN orders : orders'[d].price = orders[d].price
        /\ pendingBuy' = [pendingBuy EXCEPT ![i] = None]
    BY <1>2, WhatActivates
  <2>2. ghost' = [ghost EXCEPT !.asked[i] = None]
    BY <1>2 DEF Activate
  <2>3. pendingBuy \in [Tranches -> DOMAIN orders \cup {None}]
        /\ ghost.asked \in [Tranches -> Order \cup {None}] /\ ghost'.asked = [ghost.asked EXCEPT ![i] = None]
    BY <2>2 DEF Shape, StateTyped
  <2> QED
    BY <2>1, <2>3, StillAsked
<1>3. ASSUME NEW i \in Tranches, Sell(i) PROVE BuyAtItsSignal'
  <2>1. \A d \in DOMAIN orders : orders'[d].price = orders[d].price
    BY <1>3, WhatSells
  <2>2. ghost' = [ghost EXCEPT !.sold[i] = stored.ts] /\ pendingBuy' = pendingBuy
    BY <1>3 DEF Sell
  <2>3. ghost'.asked = ghost.asked
    BY <2>2 DEF Shape, StateTyped
  <2> QED
    BY <2>1, <2>2, <2>3, StillAsked
<1>4. CASE HandleBuySignal /\ Refused(Head(signals))
  <2>1. UNCHANGED <<orders, pendingBuy, ghost>>
    BY <1>4 DEF HandleBuySignal, orderVars
  <2> QED
    BY <2>1, StillAsked
<1>5. CASE HandleBuySignal /\ ~Refused(Head(signals))
  <2> DEFINE s == Head(signals)
             id == <<"buy", s.index, stored.ts>>
             order == New(stored.close, Bought(s.size, stored.close))
  <2>1. /\ s.index \in Tranches /\ order.price = stored.close
        /\ \A d \in DOMAIN orders : orders'[d].price = orders[d].price
        /\ orders'[id].price = stored.close
        /\ pendingBuy' = [pendingBuy EXCEPT ![s.index] = id]
        /\ ghost' = [ghost EXCEPT !.asked[s.index] = order,
                       !.larger = @ \/ orders'[id].amount > order.amount]
    BY <1>5, WhatBuys
  <2> HIDE DEF s, id, order
  <2>2. /\ pendingBuy \in [Tranches -> DOMAIN orders \cup {None}]
        /\ ghost.asked \in [Tranches -> Order \cup {None}]
    BY DEF Shape, StateTyped
  <2>3. ghost'.asked = [ghost.asked EXCEPT ![s.index] = order]
    <3> DEFINE l == ghost.larger \/ orders'[id].amount > order.amount
    <3>1. ghost' = [ghost EXCEPT !.asked[s.index] = order, !.larger = l]
      BY <2>1
    <3> HIDE DEF l
    <3> QED
      BY <3>1 DEF Shape, StateTyped
  <2> SUFFICES ASSUME NEW j \in Tranches, pendingBuy'[j] # None
               PROVE  orders'[pendingBuy'[j]].price = ghost'.asked[j].price
    BY DEF BuyAtItsSignal
  <2>4. CASE j = s.index
    BY <2>1, <2>2, <2>3, <2>4
  <2>5. CASE j # s.index
    <3>1. pendingBuy'[j] = pendingBuy[j] /\ ghost'.asked[j] = ghost.asked[j]
      BY <2>1, <2>2, <2>3, <2>5
    <3>2. pendingBuy[j] \in DOMAIN orders
      BY <3>1, PendingAreOrders DEF Shape
    <3> QED
      BY <2>1, <3>1, <3>2 DEF BuyAtItsSignal
  <2> QED
    BY <2>4, <2>5
<1> QED
  BY <1>1, <1>2, <1>3, <1>4, <1>5 DEF Next

\* A simulated buy fills at the close of the candle it was placed on, although
\* its id may be one the table knows (live_runner.py:268, order_repository.py
\* :20-30), as long as a stored candle is never changed (candle_repository.py
\* :24-40).
THEOREM BuysAsAsked == Spec => []BuyAtItsSignal
<1>1. Init => BuyAtItsSignal
  BY DEF Init, BuyAtItsSignal
<1> QED
  BY <1>1, StepKeepsPrices, ShapeHolds, PTL DEF Spec

-----------------------------------------------------------------------------
(* The sell that rests for a tranche *)

LEMMA TrancheListed ==
    ASSUME Shape, NEW k \in DOMAIN active
    PROVE  /\ active[k] \in Tranche /\ active[k].target \in Int
           /\ active[k].index \in Tranches /\ active[k].index \in Indices
           /\ Target(active[k].buy) \in Int
<1>1. active \in Seq(Tranche)
  BY DEF Shape, StateTyped
<1>2. active[k] \in Tranche
  BY <1>1
<1>3. \A t \in Tranche : t.target \in Int /\ t.index \in Tranches /\ t.buy \in Prices
  BY DEF Tranche
<1>4. active[k].buy \in Nat /\ TakeProfit \in Nat
  BY <1>2, <1>3, Numbers
<1>5. Percent(active[k].buy, TakeProfit) \in Nat
  BY <1>4, PercentTyped
<1>6. Target(active[k].buy) \in Int
  BY <1>4, <1>5 DEF Target
<1>7. active[k].index \in Indices
  BY DEF Indices
<1> QED
  BY <1>2, <1>3, <1>6, <1>7

\* The table knows the sells that rest now and those of a candle no later than
\* the one the index was last sold on.
SoldBefore ==
    /\ \A i \in Tranches : ghost.sold[i] <= stored.ts
    /\ \A id \in DOMAIN orders :
         id[1] = "sell" => id = pendingSell[id[2]] \/ id[3] <= ghost.sold[id[2]]

SoldInv == SoldBefore /\ SellIsOwnUnlessResold

\* A step that leaves the sells.
LEMMA StillSold ==
    ASSUME Shape, SoldInv, active' = active, pendingSell' = pendingSell, ghost'.sold = ghost.sold,
           stored'.ts \in Nat, stored.ts <= stored'.ts,
           \A d \in DOMAIN orders : d[1] = "sell" => orders'[d] = orders[d],
           \A d \in DOMAIN orders' : d[1] = "sell" => d \in DOMAIN orders
    PROVE  SoldInv'
<1>1. SoldBefore'
  <2>1. stored.ts \in Nat /\ \A i \in Tranches : ghost.sold[i] \in Nat
    BY CandleTyped DEF Shape, StateTyped
  <2> QED
    BY <2>1 DEF SoldInv, SoldBefore
<1>2. SellIsOwnUnlessResold'
  <2> SUFFICES ASSUME NEW k \in DOMAIN active, ghost.sold[active[k].index] # active[k].since
               PROVE  OwnSell(active[k])'
    BY DEF SellIsOwnUnlessResold
  <2>1. OwnSell(active[k])
    BY DEF SoldInv, SellIsOwnUnlessResold
  <2>2. active[k].index \in Indices /\ active[k].index \in Tranches
    BY TrancheListed
  <2>3. /\ pendingSell[active[k].index] \in DOMAIN orders
        /\ pendingSell[active[k].index][1] = "sell"
    BY <2>2, PendingAreOrders DEF Shape, SellsLinked
  <2> QED
    BY <2>1, <2>3 DEF OwnSell
<1> QED
  BY <1>1, <1>2 DEF SoldInv

LEMMA ActivateKeepsSold ==
    ASSUME Shape, SoldInv, NEW i \in Tranches, Activate(i)
    PROVE  SoldInv'
<1> DEFINE id == pendingBuy[i]
           filled == orders[id]
           t == [index |-> i, buy |-> filled.price, amount |-> filled.amount,
                 target |-> Target(filled.price), since |-> stored.ts]
           sell == <<"sell", i, stored.ts>>
<1>1. /\ id \in DOMAIN orders /\ id[1] = "buy" /\ i \notin Indices /\ t \in Tranche
      /\ active' = Append(active, t)
      /\ orders' \in [DOMAIN orders \cup {sell} -> Order]
      /\ pendingSell' = [pendingSell EXCEPT ![i] = sell]
  BY WhatActivates
<1>0. sell \notin DOMAIN orders => orders'[sell] = New(t.target, t.amount)
  BY WhatActivates
<1>00. \A d \in DOMAIN orders \ {id, sell} : orders'[d] = orders[d]
  BY WhatActivates
<1>2. t.index = i /\ t.buy = filled.price /\ t.amount = filled.amount /\ t.since = stored.ts /\ t.target = Target(t.buy)
  OBVIOUS
<1> HIDE DEF t, filled, id
<1>3. sell[1] = "sell" /\ sell[2] = i /\ sell[3] = stored.ts
  OBVIOUS
<1> HIDE DEF sell
<1>4. ghost'.sold = ghost.sold /\ stored' = stored /\ stored.ts \in Nat
      /\ \A j \in Tranches : ghost.sold[j] \in Nat
  <2>1. ghost' = [ghost EXCEPT !.asked[i] = None] /\ stored' = stored
    BY DEF Activate
  <2> QED
    BY <2>1, CandleTyped DEF Shape, StateTyped
<1>5. pendingSell \in [Tranches -> DOMAIN orders \cup {None}] /\ pendingSell[i] = None
      /\ None \notin DOMAIN orders /\ active \in Seq(Tranche)
      /\ \A d \in DOMAIN orders : d[2] \in Tranches
  BY <1>1, PendingAreOrders, IdsDiffer DEF Shape, StateTyped, SellsLinked
<1>6. SoldBefore'
  <2>1. \A d \in DOMAIN orders' : d \in DOMAIN orders \/ d = sell
    BY <1>1
  <2> SUFFICES ASSUME NEW d \in DOMAIN orders', d[1] = "sell"
               PROVE  d = pendingSell'[d[2]] \/ d[3] <= ghost.sold[d[2]]
    BY <1>4 DEF SoldInv, SoldBefore
  <2>2. CASE d = sell
    BY <1>1, <1>3, <1>5, <2>2
  <2>3. CASE d # sell
    <3>1. d \in DOMAIN orders /\ (d = pendingSell[d[2]] \/ d[3] <= ghost.sold[d[2]])
      BY <2>1, <2>3 DEF SoldInv, SoldBefore
    <3>2. CASE d[2] = i
      BY <1>5, <3>1, <3>2
    <3>3. CASE d[2] # i
      BY <1>1, <1>5, <3>1, <3>3
    <3> QED
      BY <3>2, <3>3
  <2> QED
    BY <2>2, <2>3
<1>7. sell \in DOMAIN orders => ghost.sold[i] = stored.ts
  <2> SUFFICES ASSUME sell \in DOMAIN orders PROVE ghost.sold[i] = stored.ts
    OBVIOUS
  <2>1. stored.ts <= ghost.sold[i] /\ ghost.sold[i] <= stored.ts
    BY <1>3, <1>5 DEF SoldInv, SoldBefore
  <2> QED
    BY <1>4, <2>1
<1>8. SellIsOwnUnlessResold'
  <2> SUFFICES ASSUME NEW k \in DOMAIN active', ghost.sold[active'[k].index] # active'[k].since
               PROVE  OwnSell(active[k])'
    BY <1>4 DEF SellIsOwnUnlessResold
  <2>1. active'[k] = t \/ (k \in DOMAIN active /\ active'[k] = active[k])
    <3>1. OneEach(active) /\ t.index \notin IndicesOf(active)
      BY <1>1, <1>2, IndicesAre DEF Shape
    <3> QED
      BY <1>1, <1>5, <3>1, WhatIsMore
  <2>2. CASE active'[k] = t
    <3>1. sell \notin DOMAIN orders
      BY <1>2, <1>7, <2>2
    <3>2. orders'[sell] = New(Target(t.buy), t.amount) /\ pendingSell'[i] = sell
      BY <1>0, <1>1, <1>2, <1>5, <3>1
    <3>3. t.target \in Int
      BY <1>1 DEF Tranche
    <3>4. /\ orders'[pendingSell'[t.index]] = New(Target(t.buy), t.amount)
          /\ Target(t.buy) >= t.target
      BY <1>2, <3>2, <3>3
    <3> QED
      BY <2>2, <3>4 DEF OwnSell
  <2>3. CASE k \in DOMAIN active /\ active'[k] = active[k]
    <3> DEFINE u == active[k]
    <3>1. OwnSell(u)
      BY <1>4, <2>3 DEF SoldInv, SellIsOwnUnlessResold
    <3>2. u.index \in Indices /\ u.index \in Tranches /\ u.index # i
      BY <1>1, <2>3, TrancheListed
    <3>3. /\ pendingSell[u.index] \in DOMAIN orders
          /\ pendingSell[u.index][1] = "sell" /\ pendingSell[u.index][2] = u.index
      BY <3>2, PendingAreOrders DEF Shape, SellsLinked
    <3>4. pendingSell[u.index] # id /\ pendingSell[u.index] # sell
      BY <1>1, <1>3, <3>2, <3>3
    <3>5. pendingSell'[u.index] = pendingSell[u.index]
      BY <1>1, <1>5, <3>2
    <3>6. orders'[pendingSell[u.index]] = orders[pendingSell[u.index]]
      BY <1>00, <3>3, <3>4
    <3> HIDE DEF u
    <3>7. /\ orders'[pendingSell'[u.index]] = New(Target(u.buy), u.amount)
          /\ Target(u.buy) >= u.target
      BY <3>1, <3>5, <3>6 DEF OwnSell
    <3>8. active'[k] = u
      BY <2>3 DEF u
    <3> QED
      BY <3>7, <3>8 DEF OwnSell
  <2> QED
    BY <2>1, <2>2, <2>3
<1> QED
  BY <1>6, <1>8 DEF SoldInv

LEMMA SellKeepsSold ==
    ASSUME Shape, SoldInv, NEW i \in Tranches, Sell(i)
    PROVE  SoldInv'
<1>1. PICK at \in DOMAIN active :
        /\ active[at].index = i
        /\ Lowers(RemoveAt(active, at), active')
        /\ orders' \in [DOMAIN orders -> Order]
        /\ \A d \in DOMAIN orders : d # pendingSell[i] => orders'[d] = orders[d]
        /\ pendingSell' = [pendingSell EXCEPT ![i] = None]
  BY WhatSells
<1>2. /\ ghost.sold \in [Tranches -> Nat] /\ ghost'.sold = [ghost.sold EXCEPT ![i] = stored.ts]
      /\ stored' = stored /\ stored.ts \in Nat
  <2>1. ghost' = [ghost EXCEPT !.sold[i] = stored.ts] /\ stored' = stored
    BY DEF Sell
  <2> QED
    BY <2>1, CandleTyped DEF Shape, StateTyped
<1>3. pendingSell \in [Tranches -> DOMAIN orders \cup {None}] /\ active \in Seq(Tranche)
      /\ \A d \in DOMAIN orders : d[2] \in Tranches /\ d[3] <= stored.ts
  BY IdsDiffer DEF Shape, StateTyped, NoneAhead
<1>4. SoldBefore'
  <2>1. \A j \in Tranches : ghost'.sold[j] <= stored'.ts
    BY <1>2 DEF SoldInv, SoldBefore
  <2> SUFFICES ASSUME NEW d \in DOMAIN orders, d[1] = "sell"
               PROVE  d = pendingSell'[d[2]] \/ d[3] <= ghost'.sold[d[2]]
    BY <1>1, <2>1 DEF SoldBefore
  <2>2. CASE d[2] = i
    BY <1>2, <1>3, <2>2
  <2>3. CASE d[2] # i
    BY <1>1, <1>2, <1>3, <2>3 DEF SoldInv, SoldBefore
  <2> QED
    BY <2>2, <2>3
<1>5. SellIsOwnUnlessResold'
  <2> SUFFICES ASSUME NEW j \in DOMAIN active', ghost'.sold[active'[j].index] # active'[j].since
               PROVE  OwnSell(active[j])'
    BY DEF SellIsOwnUnlessResold
  <2>1. PICK k \in DOMAIN active \ {at} : Alike(active'[j], active[k])
    BY <1>1, <1>3, IndicesAre, WhatIsLeft DEF Shape
  <2> DEFINE u == active[k]
             v == active'[j]
  <2>2. u.index \in Indices /\ u.index \in Tranches /\ u.index # i /\ u \in Tranche /\ v \in Tranche
    <3>1. active' \in Seq(Tranche)
      BY SellKeepsShape DEF Shape, StateTyped
    <3>2. v \in Tranche
      BY <3>1
    <3>3. u \in Tranche /\ u.index \in Indices /\ u.index \in Tranches
      BY <2>1, TrancheListed
    <3>4. u.index # i
      BY <1>1, <2>1 DEF Shape, OnePerIndex
    <3> QED
      BY <3>2, <3>3, <3>4
  <2>3. /\ u.index = v.index /\ u.buy = v.buy /\ u.amount = v.amount
        /\ u.since = v.since /\ v.target <= u.target
    BY <2>1 DEF Alike
  <2> HIDE DEF v
  <2>4. ghost.sold[u.index] # u.since
    BY <1>2, <2>2, <2>3 DEF v
  <2>5. OwnSell(u)
    BY <2>4 DEF SoldInv, SellIsOwnUnlessResold
  <2> HIDE DEF u
  <2>6. /\ pendingSell[u.index] \in DOMAIN orders
        /\ pendingSell[u.index][2] = u.index
    BY <2>2, PendingAreOrders DEF Shape, SellsLinked
  <2>7. pendingSell[u.index] # pendingSell[i]
    <3>1. i \in Indices
      BY <1>1 DEF Indices
    <3>2. pendingSell[i][2] = i
      BY <3>1 DEF Shape, SellsLinked
    <3> QED
      BY <2>2, <2>6, <3>2
  <2>8. orders'[pendingSell'[v.index]] = orders[pendingSell[u.index]]
    BY <1>1, <1>3, <2>2, <2>3, <2>6, <2>7
  <2>9. /\ orders'[pendingSell'[v.index]] = New(Target(v.buy), v.amount)
        /\ Target(v.buy) >= v.target
    <3>1. u.target \in Int /\ v.target \in Int /\ Target(u.buy) \in Int
      <4>1. v.target \in Int
        BY <2>2 DEF Tranche
      <4> QED
        BY <2>1, <4>1, TrancheListed DEF u
    <3>2. orders[pendingSell[u.index]] = New(Target(u.buy), u.amount) /\ Target(u.buy) >= u.target
      BY <2>5 DEF OwnSell
    <3>3. Target(u.buy) >= v.target
      BY <2>3, <3>1, <3>2
    <3> QED
      BY <2>3, <2>8, <3>2, <3>3
  <2> QED
    BY <2>9 DEF OwnSell, v
<1> QED
  BY <1>4, <1>5 DEF SoldInv

LEMMA StepKeepsSold == Shape /\ SoldInv /\ [Next]_vars => SoldInv'
<1> SUFFICES ASSUME Shape, SoldInv, [Next]_vars PROVE SoldInv'
  OBVIOUS
<1>1. stored.ts \in Nat
  BY CandleTyped DEF Shape
<1>2. CASE \/ SyncOnce \/ StartCycle \/ BuysReconciled \/ Evaluate
           \/ \E amount \in Transfers : DepositCapital(amount) \/ WithdrawCapital(amount)
           \/ UNCHANGED vars
  <2>1. UNCHANGED <<orders, pendingSell, active, ghost>>
    BY <1>2 DEF SyncOnce, StartCycle, BuysReconciled, Evaluate, DepositCapital, WithdrawCapital,
       vars, orderVars, bookVars
  <2>2. stored' = stored \/ SyncOnce
    BY <1>2 DEF StartCycle, BuysReconciled, Evaluate, DepositCapital, WithdrawCapital, vars
  <2>3. stored'.ts \in Nat /\ stored.ts <= stored'.ts
    <3>1. CASE SyncOnce
      <4>1. PICK ts \in stored.ts .. stored.ts + 1 :
              \E candle \in Candles(ts) : stored' = Saved(candle)
        BY <3>1 DEF SyncOnce
      <4> QED
        BY <1>1, <4>1 DEF Saved, Candles
    <3>2. CASE stored' = stored
      BY <1>1, <3>2
    <3> QED
      BY <2>2, <3>1, <3>2
  <2> QED
    BY <2>1, <2>3, StillSold
<1>3. CASE HandleBuySignal
  <2>1. stored' = stored /\ active' = active /\ pendingSell' = pendingSell
    BY <1>3, FewerSignals DEF bookVars, HandleBuySignal, orderVars
  <2>2. CASE Refused(Head(signals))
    <3>1. UNCHANGED <<orders, ghost>>
      BY <1>3, <2>2 DEF HandleBuySignal, orderVars
    <3> QED
      BY <1>1, <2>1, <3>1, StillSold
  <2>3. CASE ~Refused(Head(signals))
    <3> DEFINE s == Head(signals)
               id == <<"buy", s.index, stored.ts>>
               order == New(stored.close, Bought(s.size, stored.close))
    <3>1. /\ orders' \in [DOMAIN orders \cup {id} -> Order]
          /\ \A d \in DOMAIN orders : d # id => orders'[d] = orders[d]
          /\ ghost' = [ghost EXCEPT !.asked[s.index] = order,
                         !.larger = @ \/ orders'[id].amount > order.amount]
      BY <1>3, <2>3, WhatBuys
    <3>2. id[1] = "buy"
      OBVIOUS
    <3> HIDE DEF s, id, order
    <3>3. ghost'.sold = ghost.sold
      <4> DEFINE l == ghost.larger \/ orders'[id].amount > order.amount
      <4>1. ghost' = [ghost EXCEPT !.asked[s.index] = order, !.larger = l]
        BY <3>1
      <4> HIDE DEF l
      <4> QED
        BY <4>1 DEF Shape, StateTyped
    <3>4. /\ \A d \in DOMAIN orders : d[1] = "sell" => orders'[d] = orders[d]
          /\ \A d \in DOMAIN orders' : d[1] = "sell" => d \in DOMAIN orders
      BY <3>1, <3>2
    <3> QED
      BY <1>1, <2>1, <3>3, <3>4, StillSold
  <2> QED
    BY <2>2, <2>3
<1> QED
  BY <1>2, <1>3, ActivateKeepsSold, SellKeepsSold DEF Next

\* The sell that rests for a tranche has its amount and a target no lower than
\* the one the cascade left it, unless the index was sold before on the candle
\* the tranche was bought on: then the upsert kept the row of the earlier sell
\* (live_runner.py 375-451, order_repository.py:20-30).
THEOREM SellsAreOwn == Spec => []SellIsOwnUnlessResold
<1>1. Init => SoldInv
  <2> SUFFICES ASSUME Init PROVE SoldInv
    OBVIOUS
  <2>1. DOMAIN active = {} /\ DOMAIN orders = {} /\ \A i \in Tranches : ghost.sold[i] = 0
    BY DEF Init
  <2>2. stored.ts = 1
    BY DEF Init, Candles
  <2> QED
    BY <2>1, <2>2 DEF SoldInv, SoldBefore, SellIsOwnUnlessResold
<1>2. SoldInv => SellIsOwnUnlessResold
  BY DEF SoldInv
<1> QED
  BY <1>1, <1>2, StepKeepsSold, ShapeHolds, PTL DEF Spec

-----------------------------------------------------------------------------
(* What the bot owes *)

Resting(p) == {i \in Tranches : p[i] # None}
Owing(o, p) == [i \in Resting(p) |-> RowValue(o[p[i]])]
OwedIn(o, p) == SumFunctionOnSet(Owing(o, p), Resting(p))

LEMMA OwedIsSum ==
  ASSUME NEW o, NEW p, \A i \in Resting(p) : RowValue(o[p[i]]) \in Nat
  PROVE  /\ IsFiniteSet(Resting(p)) /\ IntOn(Owing(o, p), Resting(p))
         /\ MapThenSumSet(LAMBDA i : Value(o[p[i]].amount, o[p[i]].price), Resting(p))
              = OwedIn(o, p)
<1> DEFINE S == Resting(p)
           f == Owing(o, p)
           G(jt) == jt = [T \in SUBSET S |->
                            IF T = {} THEN 0
                            ELSE Value(o[p[CHOOSE x \in T : TRUE]].amount,
                                       o[p[CHOOSE x \in T : TRUE]].price)
                                   + jt[T \ {CHOOSE x \in T : TRUE}]]
           it == CHOOSE jt : G(jt)
<1>1. IsFiniteSet(S) /\ IntOn(f, S)
  <2>1. IsFiniteSet(S)
    BY PaperAssumption, FS_Subset DEF Resting
  <2>2. \A i \in S : f[i] \in Int
    BY DEF Owing
  <2>3. IntOn(f, S)
    <3> HIDE DEF f, S
    <3> QED
      BY <2>2 DEF IntOn
  <2> QED
    BY <2>1, <2>3
<1>2. ASSUME NEW T \in SUBSET S, T # {}
      PROVE  f[Some(T)] = Value(o[p[CHOOSE x \in T : TRUE]].amount,
                                o[p[CHOOSE x \in T : TRUE]].price)
  <2>1. Some(T) \in T /\ Some(T) = CHOOSE x \in T : TRUE
    BY <1>2 DEF Some
  <2>2. Some(T) \in S
    BY <2>1
  <2>3. f[Some(T)] = RowValue(o[p[Some(T)]])
    BY <2>2 DEF Owing
  <2> QED
    BY <2>1, <2>3 DEF RowValue
<1>3. PICK jt : IsSum(jt, f, S)
  <2> HIDE DEF f, S
  <2> QED
    BY <1>1, SumExists
<1>4. ASSUME NEW kt PROVE IsSum(kt, f, S) <=> G(kt)
  <2> DEFINE a == [T \in SUBSET S |-> IF T = {} THEN 0 ELSE f[Some(T)] + kt[T \ {Some(T)}]]
             b == [T \in SUBSET S |->
                            IF T = {} THEN 0
                            ELSE Value(o[p[CHOOSE x \in T : TRUE]].amount,
                                       o[p[CHOOSE x \in T : TRUE]].price)
                                   + kt[T \ {CHOOSE x \in T : TRUE}]]
  <2>1. a = b
    <3> HIDE DEF S, f
    <3> QED
      BY <1>2 DEF Some
  <2>2. IsSum(kt, f, S) <=> kt = a
    BY DEF IsSum
  <2> HIDE DEF a
  <2> QED
    BY <2>1, <2>2
<1>5. G(jt)
  <2> HIDE DEF G, S, f
  <2>1. IsSum(jt, f, S) <=> G(jt)
    BY <1>4
  <2> QED
    BY <1>3, <2>1
<1>6. G(it)
  <2> HIDE DEF G
  <2> QED
    BY <1>5
<1>7. IsSum(it, f, S)
  <2> HIDE DEF G, S, f, it
  <2> QED
    BY <1>4, <1>6
<1>8. MapThenSumSet(LAMBDA i : Value(o[p[i]].amount, o[p[i]].price), S) = it[S]
  BY DEF MapThenSumSet, MapThenFoldSet
<1> HIDE DEF it
<1>9. SumFunctionOnSet(f, S) = it[S]
  <2> HIDE DEF S, f
  <2>1. S \in SUBSET S
    OBVIOUS
  <2> QED
    BY <1>1, <1>7, <2>1, SumOverSubset
<1> QED
  BY <1>1, <1>8, <1>9 DEF OwedIn

LEMMA BuysWorth ==
  ASSUME Shape
  PROVE  \A i \in Resting(pendingBuy) :
           /\ pendingBuy[i] \in DOMAIN orders /\ i \in Tranches
           /\ RowValue(orders[pendingBuy[i]]) \in Nat
           /\ 0 < RowValue(orders[pendingBuy[i]])
           /\ RowValue(orders[pendingBuy[i]]) <= Max(Sizes)
<1> SUFFICES ASSUME NEW i \in Resting(pendingBuy)
             PROVE  /\ pendingBuy[i] \in DOMAIN orders /\ i \in Tranches
                    /\ RowValue(orders[pendingBuy[i]]) \in Nat
                    /\ 0 < RowValue(orders[pendingBuy[i]])
                    /\ RowValue(orders[pendingBuy[i]]) <= Max(Sizes)
  OBVIOUS
<1>1. i \in Tranches /\ pendingBuy[i] # None
  BY DEF Resting
<1>2. pendingBuy[i] \in DOMAIN orders /\ pendingBuy[i][1] = "buy"
  BY <1>1, PendingAreOrders DEF Shape, BuysLinked
<1>3. orders[pendingBuy[i]] \in Order
  BY <1>2 DEF Shape, StateTyped
<1>4. RowValue(orders[pendingBuy[i]]) \in Nat
  BY <1>3, ValueTyped DEF RowValue, Order
<1> QED
  BY <1>1, <1>2, <1>4 DEF Shape, BuysPlaced

LEMMA OwedAnywhere ==
  ASSUME NEW o, NEW p, None \notin DOMAIN o, o \in [DOMAIN o -> Order],
         p \in [Tranches -> DOMAIN o \cup {None}]
  PROVE  /\ MapThenSumSet(LAMBDA i : Value(o[p[i]].amount, o[p[i]].price),
                          {i \in Tranches : p[i] # None}) = OwedIn(o, p)
         /\ OwedIn(o, p) \in Int /\ IsFiniteSet(Resting(p)) /\ IntOn(Owing(o, p), Resting(p))
<1>1. ASSUME NEW i \in Resting(p) PROVE RowValue(o[p[i]]) \in Nat
  <2>1. o[p[i]] \in Order
    BY DEF Resting
  <2> QED
    BY <2>1, ValueTyped DEF RowValue, Order
<1>2. /\ IsFiniteSet(Resting(p)) /\ IntOn(Owing(o, p), Resting(p))
      /\ MapThenSumSet(LAMBDA i : Value(o[p[i]].amount, o[p[i]].price), Resting(p))
           = OwedIn(o, p)
  BY <1>1, OwedIsSum
<1>3. OwedIn(o, p) \in Int
  BY <1>2, SumWithout DEF OwedIn
<1> QED
  BY <1>2, <1>3 DEF Resting

LEMMA OwedHere ==
  ASSUME Shape
  PROVE  Owed = OwedIn(orders, pendingBuy) /\ OwedIn(orders, pendingBuy) \in Int
<1>1. /\ None \notin DOMAIN orders /\ orders \in [DOMAIN orders -> Order]
      /\ pendingBuy \in [Tranches -> DOMAIN orders \cup {None}]
  BY IdsDiffer DEF Shape, StateTyped
<1> QED
  BY <1>1, OwedAnywhere DEF Owed

LEMMA OwedNext ==
  ASSUME Shape'
  PROVE  Owed' = OwedIn(orders', pendingBuy') /\ OwedIn(orders', pendingBuy') \in Int
<1>1. /\ None \notin DOMAIN orders' /\ orders' \in [DOMAIN orders' -> Order]
      /\ pendingBuy' \in [Tranches -> DOMAIN orders' \cup {None}]
  BY IdsDiffer DEF Shape, StateTyped
<1>2. MapThenSumSet(LAMBDA i : Value(orders'[pendingBuy'[i]].amount, orders'[pendingBuy'[i]].price),
                    {i \in Tranches : pendingBuy'[i] # None}) = OwedIn(orders', pendingBuy')
      /\ OwedIn(orders', pendingBuy') \in Int
  BY <1>1, OwedAnywhere
<1> QED
  BY <1>2 DEF Owed, MapThenSumSet, MapThenFoldSet

\* The bound, of any amount owed.
Unpaid == Cardinality(Tranches) - (IF withdrawn = 0 /\ ~ghost.larger THEN 1 ELSE 0)

LEMMA TranchesCounted ==
  /\ Cardinality(Tranches) \in Nat
  /\ \A S \in SUBSET Tranches : /\ IsFiniteSet(S) /\ Cardinality(S) \in Nat
                                /\ Cardinality(S) <= Cardinality(Tranches)
                                /\ \A i \in Tranches \ S : Cardinality(S) <= Cardinality(Tranches) - 1
<1>1. IsFiniteSet(Tranches)
  BY PaperAssumption
<1>2. Cardinality(Tranches) \in Nat
  BY <1>1, FS_CardinalityType
<1>3. ASSUME NEW S \in SUBSET Tranches
      PROVE  IsFiniteSet(S) /\ Cardinality(S) \in Nat /\ Cardinality(S) <= Cardinality(Tranches)
  BY <1>1, FS_Subset, FS_CardinalityType
<1>4. ASSUME NEW S \in SUBSET Tranches, NEW i \in Tranches \ S
      PROVE  Cardinality(S) <= Cardinality(Tranches) - 1
  <2>1. Cardinality(S \cup {i}) = Cardinality(S) + 1
    BY <1>3, FS_AddElement
  <2>2. S \cup {i} \in SUBSET Tranches
    OBVIOUS
  <2>3. Cardinality(S \cup {i}) <= Cardinality(Tranches)
    BY <1>3, <2>2
  <2> QED
    BY <1>2, <1>3, <2>1, <2>3
<1> QED
  BY <1>2, <1>3, <1>4

LEMMA Multiples ==
  ASSUME NEW m \in Nat, NEW a \in Int, NEW b \in Int, a <= b
  PROVE  m * a \in Int /\ a * m \in Int /\ m * a = a * m /\ a * m <= b * m
<1>1. b - a \in Nat
  OBVIOUS
<1>2. (b - a) * m \in Nat
  BY <1>1
<1>3. (b - a) * m = b * m - a * m
  OBVIOUS
<1> QED
  BY <1>2, <1>3

\* Any resting buys but some index's are worth at most as many of the largest.
LEMMA RestWithin ==
  ASSUME Shape, NEW S \in SUBSET Resting(pendingBuy)
  PROVE  /\ SumFunctionOnSet(Owing(orders, pendingBuy), S) \in Int
         /\ IsFiniteSet(S) /\ IntOn(Owing(orders, pendingBuy), S)
         /\ \A n \in Int : Cardinality(S) <= n =>
              SumFunctionOnSet(Owing(orders, pendingBuy), S) <= n * Max(Sizes)
<1> DEFINE f == Owing(orders, pendingBuy)
<1>1. S \in SUBSET Tranches
  BY DEF Resting
<1>2. IsFiniteSet(S) /\ Cardinality(S) \in Nat
  BY <1>1, TranchesCounted
<1>3. \A i \in S : f[i] \in Int /\ f[i] <= Max(Sizes)
  BY BuysWorth DEF Owing
<1> HIDE DEF f
<1>4. IntOn(f, S)
  BY <1>3 DEF IntOn
<1>5. SumFunctionOnSet(f, S) \in Int
  BY <1>2, <1>4, SumWithout
<1>6. Max(Sizes) \in Nat
  BY LargestSize
<1>7. SumFunctionOnSet(f, S) <= Max(Sizes) * Cardinality(S)
  <2> DEFINE c == Max(Sizes)
  <2>1. c \in Int /\ \A i \in S : f[i] <= c
    BY <1>3, <1>6
  <2> HIDE DEF c
  <2>2. SumFunctionOnSet(f, S) <= c * Cardinality(S)
    BY <1>2, <1>4, <2>1, SumAtMost
  <2> QED
    BY <2>2 DEF c
<1>8. ASSUME NEW n \in Int, Cardinality(S) <= n
      PROVE  SumFunctionOnSet(f, S) <= n * Max(Sizes)
  <2> DEFINE c == Max(Sizes)
             a == Cardinality(S)
  <2>0. a \in Int /\ c \in Nat /\ a <= n
    BY <1>2, <1>6, <1>8
  <2> HIDE DEF c, a
  <2>1. c * a \in Int /\ n * c \in Int /\ c * a = a * c /\ a * c <= n * c
    <3>1. c * a \in Int /\ c * a = a * c /\ a * c <= n * c
      BY <2>0, Multiples
    <3> QED
      BY <2>0, <3>1
  <2> QED
    BY <1>5, <1>7, <2>1 DEF c, a
<1> QED
  BY <1>2, <1>4, <1>5, <1>8 DEF f

LEMMA UnpaidTyped ==
  /\ Shape => Unpaid \in Int /\ Unpaid <= Cardinality(Tranches)
  /\ Cardinality(Tranches) \in Nat /\ Cardinality(Tranches) > 0
<1>1. Cardinality(Tranches) \in Nat
  BY TranchesCounted
<1>2. Cardinality(Tranches) # 0
  BY PaperAssumption, FS_EmptySet
<1> QED
  BY <1>1, <1>2 DEF Unpaid

\* A step after which no more is owed.
LEMMA OwesStill ==
    ASSUME Shape, Shape', OwesAtMost,
           available - OwedIn(orders, pendingBuy) <= available' - OwedIn(orders', pendingBuy'),
           Unpaid <= Unpaid'
    PROVE  OwesAtMost'
<1> DEFINE m == Max(Sizes)
           a == Unpaid
           b == Unpaid'
           x == available - OwedIn(orders, pendingBuy)
           y == available' - OwedIn(orders', pendingBuy')
<1>1. m \in Nat
  BY LargestSize
<1>2. a \in Int /\ b \in Int /\ a <= b
  BY UnpaidTyped DEF Unpaid
<1>3. x \in Int /\ y \in Int /\ x <= y
  <2>1. available \in Int /\ available' \in Int
    BY DEF Shape, StateTyped
  <2>2. OwedIn(orders, pendingBuy) \in Int /\ OwedIn(orders', pendingBuy') \in Int
    BY OwedHere, OwedNext
  <2> QED
    BY <2>1, <2>2
<1>4. x >= -(a * m)
  BY OwedHere DEF OwesAtMost, Unpaid
<1> HIDE DEF m, a, b, x, y
<1>5. a * m <= b * m /\ a * m \in Int /\ b * m \in Int
  BY <1>1, <1>2, Multiples
<1>6. y >= -(b * m)
  BY <1>3, <1>4, <1>5
<1>7. available' - Owed' >= -(Unpaid' * Max(Sizes))
  BY <1>6, OwedNext DEF y, b, m
<1> QED
  BY <1>7 DEF OwesAtMost, Unpaid

\* A step that leaves the pending buys and what their rows are worth.
LEMMA OwedSame ==
    ASSUME Shape, pendingBuy' = pendingBuy,
           \A d \in DOMAIN orders : RowValue(orders'[d]) = RowValue(orders[d])
    PROVE  OwedIn(orders', pendingBuy') = OwedIn(orders, pendingBuy)
<1> DEFINE S == Resting(pendingBuy)
           f == Owing(orders, pendingBuy)
           g == Owing(orders', pendingBuy')
<1>1. \A i \in S : f[i] = g[i]
  BY BuysWorth DEF Owing, Resting
<1>2. IsFiniteSet(S) /\ IntOn(f, S)
  BY RestWithin
<1> HIDE DEF f, g, S
<1>3. SumFunctionOnSet(f, S) = SumFunctionOnSet(g, S)
  BY <1>1, <1>2, SumCongruent DEF Agree
<1> QED
  BY <1>3 DEF OwedIn, f, g, S

LEMMA ActivateKeepsOwed ==
    ASSUME Shape, OwesAtMost, NEW i \in Tranches, Activate(i)
    PROVE  OwesAtMost'
<1>1. /\ pendingBuy[i] \in DOMAIN orders /\ orders[pendingBuy[i]] \in Order
      /\ available' = available - RowValue(orders[pendingBuy[i]])
      /\ \A d \in DOMAIN orders :
           orders'[d].price = orders[d].price /\ orders'[d].amount = orders[d].amount
      /\ pendingBuy' = [pendingBuy EXCEPT ![i] = None]
  BY WhatActivates
<1>2. pendingBuy \in [Tranches -> DOMAIN orders \cup {None}] /\ pendingBuy[i] # None
  BY <1>1, PendingAreOrders DEF Shape, StateTyped
<1> DEFINE S == Resting(pendingBuy)
           f == Owing(orders, pendingBuy)
           g == Owing(orders', pendingBuy')
           rest == S \ {i}
           v == RowValue(orders[pendingBuy[i]])
<1>3. i \in S /\ Resting(pendingBuy') = rest /\ f[i] = v
  <2>1. i \in S /\ Resting(pendingBuy') = rest
    BY <1>1, <1>2 DEF Resting
  <2> QED
    BY <2>1 DEF Owing
<1>4. \A j \in rest : f[j] = g[j]
  <2> SUFFICES ASSUME NEW j \in rest PROVE f[j] = g[j]
    OBVIOUS
  <2>1. j \in S /\ j \in Resting(pendingBuy') /\ pendingBuy'[j] = pendingBuy[j] /\ pendingBuy[j] \in DOMAIN orders
    BY <1>1, <1>2, <1>3, BuysWorth DEF Resting
  <2>2. f[j] = RowValue(orders[pendingBuy[j]]) /\ g[j] = RowValue(orders'[pendingBuy[j]])
    BY <2>1 DEF Owing
  <2>3. RowValue(orders'[pendingBuy[j]]) = RowValue(orders[pendingBuy[j]])
    BY <1>1, <2>1 DEF RowValue
  <2> QED
    BY <2>2, <2>3
<1>5. IsFiniteSet(S) /\ IntOn(f, S) /\ IsFiniteSet(rest) /\ IntOn(f, rest)
      /\ SumFunctionOnSet(f, rest) \in Int
  <2>1. S \in SUBSET S /\ rest \in SUBSET S
    OBVIOUS
  <2> QED
    BY <2>1, RestWithin
<1>6. v \in Nat
  BY <1>1, ValueTyped DEF RowValue, Order
<1>7. OwedIn(orders, pendingBuy) = v + SumFunctionOnSet(f, rest)
  <2> HIDE DEF f, S
  <2>1. SumFunctionOnSet(f, S) = f[i] + SumFunctionOnSet(f, S \ {i})
    BY <1>3, <1>5, SumWithout
  <2> HIDE DEF v
  <2> QED
    BY <1>3, <2>1 DEF OwedIn, f, S
<1>8. OwedIn(orders', pendingBuy') = SumFunctionOnSet(f, rest)
  <2> HIDE DEF f, g, rest
  <2>1. SumFunctionOnSet(f, rest) = SumFunctionOnSet(g, rest)
    BY <1>4, <1>5, SumCongruent DEF Agree
  <2> QED
    BY <1>3, <2>1 DEF OwedIn, g
<1>9. available - OwedIn(orders, pendingBuy) <= available' - OwedIn(orders', pendingBuy')
  <2>1. available \in Int
    BY DEF Shape, StateTyped
  <2> HIDE DEF v, f, rest
  <2>2. available' = available - v
    BY <1>1 DEF v
  <2> QED
    BY <1>5, <1>6, <1>7, <1>8, <2>1, <2>2
<1>10. Unpaid <= Unpaid' /\ Shape'
  <2>1. withdrawn' = withdrawn /\ ghost'.larger = ghost.larger
    BY DEF Activate, Shape, StateTyped
  <2>2. Unpaid' = Unpaid /\ Unpaid \in Int
    BY <2>1, UnpaidTyped DEF Unpaid
  <2> QED
    BY <2>2, ActivateKeepsShape
<1> QED
  BY <1>9, <1>10, OwesStill

LEMMA BuyKeepsOwed ==
    ASSUME Shape, OwesAtMost, HandleBuySignal, ~Refused(Head(signals))
    PROVE  OwesAtMost'
<1> DEFINE x == Head(signals).index
           size == Head(signals).size
           id == <<"buy", x, stored.ts>>
           order == New(stored.close, Bought(size, stored.close))
           v == RowValue(orders'[id])
<1>1. /\ x \in Tranches /\ size \in Sizes /\ pendingBuy[x] = None
      /\ size <= available /\ order \in Order
      /\ orders' \in [DOMAIN orders \cup {id} -> Order]
      /\ \A d \in DOMAIN orders :
           orders'[d].price = orders[d].price /\ orders'[d].amount = orders[d].amount
      /\ 0 < v /\ v <= Max(Sizes)
      /\ orders'[id].amount <= order.amount => v <= size
      /\ pendingBuy' = [pendingBuy EXCEPT ![x] = id]
      /\ ghost' = [ghost EXCEPT !.asked[x] = order,
                     !.larger = @ \/ orders'[id].amount > order.amount]
  BY WhatBuys
<1>2. id # None
  BY DEF None
<1> HIDE DEF x, size, id, order
<1>3. available' = available /\ withdrawn' = withdrawn /\ Shape' /\ available \in Int
  BY FewerSignals, BuyKeepsShape DEF bookVars, moneyVars, Shape, StateTyped
<1>4. pendingBuy \in [Tranches -> DOMAIN orders \cup {None}]
  BY DEF Shape, StateTyped
<1> DEFINE S == Resting(pendingBuy)
           f == Owing(orders, pendingBuy)
           g == Owing(orders', pendingBuy')
           N == Cardinality(Tranches)
           M == Max(Sizes)
           others == SumFunctionOnSet(f, S)
<1>5. x \notin S /\ Resting(pendingBuy') = S \cup {x} /\ g[x] = v
  <2>1. x \notin S /\ Resting(pendingBuy') = S \cup {x}
    BY <1>1, <1>2, <1>4 DEF Resting
  <2> QED
    BY <1>1, <1>4, <2>1 DEF Owing
<1>6. \A j \in S : f[j] = g[j]
  <2> SUFFICES ASSUME NEW j \in S PROVE f[j] = g[j]
    OBVIOUS
  <2>1. j \in Resting(pendingBuy') /\ pendingBuy'[j] = pendingBuy[j] /\ pendingBuy[j] \in DOMAIN orders
    BY <1>1, <1>4, <1>5, BuysWorth DEF Resting
  <2>2. f[j] = RowValue(orders[pendingBuy[j]]) /\ g[j] = RowValue(orders'[pendingBuy[j]])
    BY <2>1 DEF Owing
  <2>3. RowValue(orders'[pendingBuy[j]]) = RowValue(orders[pendingBuy[j]])
    BY <1>1, <2>1 DEF RowValue
  <2> QED
    BY <2>2, <2>3
<1>7. v \in Nat /\ M \in Nat /\ N \in Nat /\ N > 0 /\ size \in Nat
  <2>1. orders'[id] \in Order
    BY <1>1
  <2> QED
    BY <1>1, <2>1, LargestSize, ValueTyped, UnpaidTyped, Numbers DEF RowValue, Order
<1>8. others \in Int /\ IsFiniteSet(S) /\ IntOn(f, S) /\ others <= (N - 1) * M
  <2>1. S \in SUBSET Tranches /\ x \in Tranches \ S
    BY <1>1, <1>5 DEF Resting
  <2>2. Cardinality(S) <= N - 1
    BY <2>1, TranchesCounted
  <2>3. N - 1 \in Int /\ S \in SUBSET Resting(pendingBuy)
    BY <1>7
  <2>4. /\ others \in Int /\ IsFiniteSet(S) /\ IntOn(f, S)
        /\ \A n \in Int : Cardinality(S) <= n => others <= n * M
    BY <2>3, RestWithin
  <2> DEFINE n == N - 1
  <2> HIDE DEF n, f, S, M, N
  <2>5. Cardinality(S) <= n => others <= n * M
    BY <2>3, <2>4 DEF n
  <2> QED
    BY <2>2, <2>4, <2>5 DEF n
<1>9. OwedIn(orders', pendingBuy') = others + v
  <2> HIDE DEF f, g, S, v
  <2>1. SumFunctionOnSet(g, S \cup {x}) = SumFunctionOnSet(f, S) + g[x]
    BY <1>5, <1>6, <1>7, <1>8, SumExtended DEF Agree
  <2> QED
    BY <1>5, <2>1 DEF OwedIn, g
<1>10. ghost'.larger = (ghost.larger \/ orders'[id].amount > order.amount)
  <2> DEFINE l == ghost.larger \/ orders'[id].amount > order.amount
  <2>1. ghost' = [ghost EXCEPT !.asked[x] = order, !.larger = l]
    BY <1>1
  <2> HIDE DEF l
  <2>2. ghost'.larger = l
    BY <2>1 DEF Shape, StateTyped
  <2> QED
    BY <2>2 DEF l
<1>11. /\ (N - 1) * M \in Int /\ N * M \in Int /\ N * M = (N - 1) * M + M
       /\ (N - 1) * M <= N * M
  <2> HIDE DEF N, M
  <2> QED
    BY <1>7
<1>12. CASE withdrawn = 0 /\ ~ghost'.larger
  <2>1. Unpaid' = N - 1
    BY <1>3, <1>12 DEF Unpaid
  <2>2. orders'[id].amount \in Nat /\ order.amount \in Nat
    BY <1>1 DEF Order
  <2>3. v <= size
    <3>1. ~(orders'[id].amount > order.amount)
      BY <1>10, <1>12
    <3>2. orders'[id].amount <= order.amount
      <4> DEFINE a == orders'[id].amount
                 b == order.amount
      <4>1. a \in Nat /\ b \in Nat /\ ~(a > b)
        BY <2>2, <3>1
      <4> HIDE DEF a, b
      <4>2. a <= b
        BY <4>1
      <4> QED
        BY <4>2 DEF a, b
    <3> HIDE DEF v
    <3> QED
      BY <1>1, <3>2
  <2> DEFINE p == (N - 1) * M
  <2>4. p \in Int /\ others <= p
    BY <1>8, <1>11
  <2> HIDE DEF p, others, v, N, M
  <2>5. available - (others + v) >= -p
    BY <1>1, <1>3, <1>7, <1>8, <2>3, <2>4
  <2>6. available' - Owed' >= -(Unpaid' * M)
    BY <1>3, <1>9, <2>1, <2>5, OwedNext DEF p
  <2> QED
    BY <2>6 DEF OwesAtMost, Unpaid, M
<1>13. CASE ~(withdrawn = 0 /\ ~ghost'.larger)
  <2>1. Unpaid' = N
    BY <1>3, <1>7, <1>13 DEF Unpaid
  <2> DEFINE p == (N - 1) * M
             q == N * M
  <2>2. p \in Int /\ q \in Int /\ q = p + M /\ others <= p /\ v <= M
    BY <1>1, <1>8, <1>11
  <2> HIDE DEF p, q, others, v, N, M
  <2>3. available - (others + v) >= -q
    BY <1>1, <1>3, <1>7, <1>8, <2>2
  <2>4. available' - Owed' >= -(Unpaid' * M)
    BY <1>3, <1>9, <2>1, <2>3, OwedNext DEF q
  <2> QED
    BY <2>4 DEF OwesAtMost, Unpaid, M
<1> QED
  BY <1>12, <1>13

LEMMA WithdrawKeepsOwed ==
    ASSUME Shape, OwesAtMost, NEW amount \in Transfers, WithdrawCapital(amount)
    PROVE  OwesAtMost'
<1>1. amount \in Nat /\ amount > 0 /\ available \in Int /\ withdrawn \in Nat
  BY Numbers DEF Shape, StateTyped
<1>2. available' = available - amount /\ amount <= available /\ withdrawn' = withdrawn + amount
      /\ UNCHANGED <<orders, pendingBuy>>
  BY DEF WithdrawCapital, orderVars
<1>3. Shape'
  BY OtherKeepsShape
<1> DEFINE N == Cardinality(Tranches)
           M == Max(Sizes)
           S == Resting(pendingBuy)
           owed == OwedIn(orders, pendingBuy)
<1>4. Unpaid' = N
  BY <1>1, <1>2, UnpaidTyped DEF Unpaid
<1>5. N \in Int /\ M \in Nat /\ N * M \in Int
  BY UnpaidTyped, LargestSize
<1>6. owed \in Int /\ owed <= N * M
  <2>1. S \in SUBSET Tranches /\ S \in SUBSET Resting(pendingBuy)
    BY DEF Resting
  <2>2. Cardinality(S) <= N
    BY <2>1, TranchesCounted
  <2>3. \A n \in Int : Cardinality(S) <= n => owed <= n * M
    BY <2>1, RestWithin DEF OwedIn
  <2>4. owed \in Int
    BY OwedHere
  <2> HIDE DEF N, M, owed
  <2> QED
    BY <1>5, <2>2, <2>3, <2>4
<1>7. OwedIn(orders', pendingBuy') = owed
  BY <1>2
<1> DEFINE p == N * M
<1>8. p \in Int /\ owed <= p
  BY <1>5, <1>6
<1> HIDE DEF p, N, M, owed
<1>9. available' - owed >= -p
  BY <1>1, <1>2, <1>6, <1>8
<1>10. available' - Owed' >= -(Unpaid' * M)
  BY <1>3, <1>4, <1>7, <1>9, OwedNext DEF p
<1> QED
  BY <1>10 DEF OwesAtMost, Unpaid, M

LEMMA StepKeepsOwed == Shape /\ OwesAtMost /\ [Next]_vars => OwesAtMost'
<1> SUFFICES ASSUME Shape, OwesAtMost, [Next]_vars PROVE OwesAtMost'
  OBVIOUS
<1>1. Shape'
  BY StepKeepsShape
<1>2. available \in Int /\ OwedIn(orders, pendingBuy) \in Int /\ Unpaid \in Int
  BY OwedHere, UnpaidTyped DEF Shape, StateTyped
<1>3. CASE SyncOnce \/ StartCycle \/ BuysReconciled \/ Evaluate \/ UNCHANGED vars
           \/ (HandleBuySignal /\ Refused(Head(signals)))
  <2>1. UNCHANGED <<orders, pendingBuy, available, withdrawn, ghost>>
    BY <1>3 DEF SyncOnce, StartCycle, BuysReconciled, Evaluate, vars, HandleBuySignal, orderVars,
       bookVars, moneyVars
  <2>2. Unpaid' = Unpaid
    BY <2>1 DEF Unpaid
  <2>3. available - OwedIn(orders, pendingBuy) <= available' - OwedIn(orders', pendingBuy')
    BY <1>2, <2>1
  <2> QED
    BY <1>1, <1>2, <2>2, <2>3, OwesStill
<1>4. ASSUME NEW i \in Tranches, Sell(i) PROVE OwesAtMost'
  <2>1. PICK at \in DOMAIN active, price \in Nat :
          /\ Revenue(active[at], price) \in Nat
          /\ available' = available + Revenue(active[at], price)
          /\ \A d \in DOMAIN orders :
               orders'[d].price = orders[d].price /\ orders'[d].amount = orders[d].amount
    BY <1>4, WhatSells
  <2>2. pendingBuy' = pendingBuy /\ withdrawn' = withdrawn /\ ghost'.larger = ghost.larger
    BY <1>4 DEF Sell, Shape, StateTyped
  <2>3. Unpaid' = Unpaid
    BY <2>2 DEF Unpaid
  <2>4. OwedIn(orders', pendingBuy') = OwedIn(orders, pendingBuy)
    BY <2>1, <2>2, OwedSame DEF RowValue
  <2>5. available - OwedIn(orders, pendingBuy) <= available' - OwedIn(orders', pendingBuy')
    BY <1>2, <2>1, <2>4
  <2> QED
    BY <1>1, <1>2, <2>3, <2>5, OwesStill
<1>5. ASSUME NEW amount \in Transfers, DepositCapital(amount) PROVE OwesAtMost'
  <2>1. /\ UNCHANGED <<orders, pendingBuy, withdrawn, ghost>> /\ available' = available + amount
        /\ amount \in Nat
    BY <1>5, Numbers DEF DepositCapital, orderVars
  <2>2. Unpaid' = Unpaid
    BY <2>1 DEF Unpaid
  <2>3. available - OwedIn(orders, pendingBuy) <= available' - OwedIn(orders', pendingBuy')
    BY <1>2, <2>1
  <2> QED
    BY <1>1, <1>2, <2>2, <2>3, OwesStill
<1> QED
  BY <1>3, <1>4, <1>5, ActivateKeepsOwed, BuyKeepsOwed, WithdrawKeepsOwed DEF Next

\* Once every resting buy has filled, the bot owes at most all of them but the
\* one that was checked last (live_runner.py:259, 393).
THEOREM DebtIsBounded == Spec => []OwesAtMost
<1>1. Init => OwesAtMost
  <2> SUFFICES ASSUME Init PROVE OwesAtMost
    OBVIOUS
  <2>1. Shape /\ Owed = OwedIn(orders, pendingBuy)
    BY InitShape, OwedHere
  <2>2. Resting(pendingBuy) = {}
    BY DEF Init, Resting
  <2>3. Owed = 0
    BY <2>1, <2>2, SumOfNone DEF OwedIn
  <2>4. available \in Nat
    BY Numbers DEF Init
  <2> DEFINE N == Cardinality(Tranches)
             M == Max(Sizes)
  <2>5. N \in Nat /\ N > 0 /\ M \in Nat
    BY UnpaidTyped, LargestSize
  <2>6. Unpaid \in Nat
    BY <2>5 DEF Unpaid
  <2>7. Unpaid * M \in Nat
    <3> DEFINE u == Unpaid
    <3> HIDE DEF u, M
    <3>1. u \in Nat
      BY <2>6 DEF u
    <3>2. u * M \in Nat
      BY <2>5, <3>1
    <3> QED
      BY <3>2 DEF u
  <2> DEFINE p == Unpaid * M
  <2>8. p \in Nat
    BY <2>7
  <2> HIDE DEF p
  <2>9. available - Owed >= -p
    BY <2>3, <2>4, <2>8
  <2> QED
    BY <2>9 DEF p, OwesAtMost, Unpaid
<1> QED
  BY <1>1, StepKeepsOwed, ShapeHolds, PTL DEF Spec

-----------------------------------------------------------------------------
(* The books *)

\* Every tranche cost something.
TranchesCost == \A k \in DOMAIN active : Cost(active[k]) > 0

LEMMA InvestedNext == Invested(active)' = Invested(active')
BY DEF Invested, MapThenSumSet, MapThenFoldSet

LEMMA MoneyTyped == Shape => {available, Invested(active), profit, deposited, withdrawn} \subseteq Int
BY InvestedTyped DEF Shape, StateTyped

LEMMA MoneyTypedNext ==
  ASSUME Shape'
  PROVE  /\ {available', Invested(active'), profit', deposited', withdrawn'} \subseteq Int
         /\ Books!TypeOK'
<1>1. Invested(active') \in Int
  BY InvestedTyped DEF Shape, StateTyped
<1>2. {available', Invested(active'), profit', deposited', withdrawn'} \subseteq Int
  BY <1>1 DEF Shape, StateTyped
<1> QED
  BY <1>2, InvestedNext DEF Books!TypeOK

LEMMA StillBooks ==
    ASSUME TranchesCost, UNCHANGED <<active, available, profit, deposited, withdrawn>>
    PROVE  TranchesCost' /\ UNCHANGED Books!vars
<1>1. Invested(active)' = Invested(active)
  BY InvestedNext
<1> QED
  BY <1>1 DEF TranchesCost, Books!vars

LEMMA ActivateBooks ==
    ASSUME Shape, TranchesCost, NEW i \in Tranches, Activate(i)
    PROVE  TranchesCost' /\ Books!Next
<1> DEFINE filled == orders[pendingBuy[i]]
           t == [index |-> i, buy |-> filled.price, amount |-> filled.amount,
                 target |-> Target(filled.price), since |-> stored.ts]
           v == RowValue(filled)
<1>1. /\ pendingBuy[i] \in DOMAIN orders /\ pendingBuy[i][1] = "buy" /\ filled \in Order
      /\ i \notin Indices /\ t \in Tranche /\ Cost(t) = v /\ active' = Append(active, t)
      /\ available' = available - v
  BY WhatActivates
<1>2. t.index = i
  OBVIOUS
<1> HIDE DEF t
<1>3. v > 0 /\ v \in Nat
  <2>1. 0 < RowValue(filled)
    BY <1>1 DEF Shape, BuysPlaced
  <2>2. RowValue(filled) \in Nat
    BY <1>1, ValueTyped DEF RowValue, Order
  <2> QED
    BY <2>1, <2>2
<1> HIDE DEF v, filled
<1>4. active \in Seq(Tranche) /\ OneEach(active) /\ t.index \notin IndicesOf(active)
  BY <1>1, <1>2, IndicesAre DEF Shape, StateTyped
<1>5. Invested(active') = Invested(active) + v
  BY <1>1, <1>4, InvestedMore
<1>6. TranchesCost'
  <2> SUFFICES ASSUME NEW k \in DOMAIN active' PROVE Cost(active'[k]) > 0
    BY DEF TranchesCost, Cost
  <2>1. active'[k] = t \/ (k \in DOMAIN active /\ active'[k] = active[k])
    BY <1>1, <1>4, WhatIsMore
  <2> QED
    BY <1>1, <1>3, <2>1 DEF TranchesCost
<1>7. UNCHANGED <<profit, deposited, withdrawn>>
  BY DEF Activate
<1>8. Shape'
  BY ActivateKeepsShape
<1>9. Books!Buy
  <2>1. Invested(active) \in Int /\ available \in Int
    BY MoneyTyped
  <2> DEFINE before == Invested(active)
             after == Invested(active')
  <2>2. before \in Int /\ after = before + v
    BY <1>5, <2>1
  <2> HIDE DEF before, after
  <2>3. after > before /\ available' = available - (after - before)
    BY <1>1, <1>3, <2>1, <2>2
  <2>4. Invested(active)' = after
    BY InvestedNext DEF after
  <2> QED
    BY <1>7, <2>3, <2>4 DEF Books!Buy, before
<1> QED
  BY <1>6, <1>8, <1>9, MoneyTypedNext DEF Books!Next

LEMMA SellBooks ==
    ASSUME Shape, TranchesCost, NEW i \in Tranches, Sell(i)
    PROVE  TranchesCost' /\ Books!Next
<1>1. PICK at \in DOMAIN active, price \in Nat :
        /\ Revenue(active[at], price) \in Nat /\ Cost(active[at]) \in Nat
        /\ RemoveAt(active, at) \in Seq(Tranche)
        /\ Lowers(RemoveAt(active, at), active')
        /\ available' = available + Revenue(active[at], price)
        /\ profit' = profit + (Revenue(active[at], price) - Cost(active[at]))
  BY WhatSells
<1>2. active \in Seq(Tranche) /\ OneEach(active)
  BY IndicesAre DEF Shape, StateTyped
<1> DEFINE cost == Cost(active[at])
           revenue == Revenue(active[at], price)
           before == Invested(active)
           after == Invested(active')
<1>3. cost \in Nat /\ cost > 0 /\ revenue \in Nat
  BY <1>1 DEF TranchesCost
<1>4. after = before - cost /\ before \in Int
  <2>1. Invested(RemoveAt(active, at)) = Invested(active) - Cost(active[at])
    BY <1>2, InvestedLess
  <2>2. Invested(active') = Invested(RemoveAt(active, at))
    BY <1>1, InvestedSame
  <2>3. Invested(active) \in Int
    BY <1>2, InvestedTyped
  <2> QED
    BY <2>1, <2>2, <2>3
<1>5. TranchesCost'
  <2> SUFFICES ASSUME NEW j \in DOMAIN active' PROVE Cost(active'[j]) > 0
    BY DEF TranchesCost, Cost
  <2>1. PICK k \in DOMAIN active \ {at} : Alike(active'[j], active[k])
    BY <1>1, <1>2, WhatIsLeft
  <2>2. Cost(active'[j]) = Cost(active[k])
    BY <2>1 DEF Alike, Cost
  <2> QED
    BY <2>2 DEF TranchesCost
<1>6. UNCHANGED <<deposited, withdrawn>>
  BY DEF Sell
<1>7. Shape'
  BY SellKeepsShape
<1>8. Books!Sell
  <2>1. available \in Int /\ profit \in Int
    BY DEF Shape, StateTyped
  <2>2. available' = available + revenue /\ profit' = profit + (revenue - cost)
    BY <1>1
  <2> HIDE DEF cost, revenue, before, after
  <2>3. /\ before - after > 0
        /\ profit' = profit + ((available' - available) - (before - after))
    BY <1>3, <1>4, <2>1, <2>2
  <2>4. Invested(active)' = after
    BY InvestedNext DEF after
  <2> QED
    BY <1>6, <2>3, <2>4 DEF Books!Sell, before
<1> QED
  BY <1>5, <1>7, <1>8, MoneyTypedNext DEF Books!Next

LEMMA CapitalBooks ==
    ASSUME Shape, TranchesCost, NEW amount \in Transfers,
           DepositCapital(amount) \/ WithdrawCapital(amount)
    PROVE  TranchesCost' /\ Books!Next
<1>1. amount \in Nat /\ amount > 0
  BY Numbers
<1>2. available \in Int /\ deposited \in Int /\ withdrawn \in Int
  BY DEF Shape, StateTyped
<1>3. active' = active /\ profit' = profit /\ Invested(active)' = Invested(active)
  BY InvestedNext DEF DepositCapital, WithdrawCapital
<1>4. TranchesCost'
  BY <1>3 DEF TranchesCost
<1>5. CASE DepositCapital(amount)
  <2>1. available' = available + amount /\ deposited' = deposited + amount /\ withdrawn' = withdrawn
    BY <1>5 DEF DepositCapital
  <2> QED
    BY <1>1, <1>2, <1>3, <1>4, <2>1, OtherKeepsShape, MoneyTypedNext DEF Books!Deposit, Books!Next
<1>6. CASE WithdrawCapital(amount)
  <2>1. available' = available - amount /\ withdrawn' = withdrawn + amount /\ deposited' = deposited
    BY <1>6 DEF WithdrawCapital
  <2> QED
    BY <1>1, <1>2, <1>3, <1>4, <2>1, OtherKeepsShape, MoneyTypedNext DEF Books!Withdraw, Books!Next
<1> QED
  BY <1>5, <1>6

LEMMA StepIsBooking ==
  Shape /\ TranchesCost /\ [Next]_vars => TranchesCost' /\ [Books!Next]_(Books!vars)
<1> SUFFICES ASSUME Shape, TranchesCost, [Next]_vars
             PROVE  TranchesCost' /\ [Books!Next]_(Books!vars)
  OBVIOUS
<1>1. CASE SyncOnce \/ StartCycle \/ BuysReconciled \/ Evaluate \/ HandleBuySignal \/ UNCHANGED vars
  <2>1. UNCHANGED <<active, available, profit, deposited, withdrawn>>
    BY <1>1 DEF SyncOnce, StartCycle, BuysReconciled, Evaluate, HandleBuySignal, vars, bookVars,
       moneyVars
  <2> QED
    BY <2>1, StillBooks
<1> QED
  BY <1>1, ActivateBooks, SellBooks, CapitalBooks DEF Next

\* Every step of the cycle and of the capital threads is one booking of the
\* ledger or none (live_runner.py 389-393, 463-501; bot_service.py 426-510).
THEOREM PaperImplementsBooks == Spec => ImplementsBooks
<1>1. Init => TranchesCost /\ Books!Init
  <2> SUFFICES ASSUME Init PROVE TranchesCost /\ Books!Init
    OBVIOUS
  <2>1. active = <<>> /\ DOMAIN active = {}
    BY DEF Init
  <2> QED
    BY <2>1, InvestedNone DEF Init, TranchesCost, Books!Init
<1> QED
  BY <1>1, StepIsBooking, ShapeHolds, PTL DEF Spec, ImplementsBooks, Books!Spec
=============================================================================
