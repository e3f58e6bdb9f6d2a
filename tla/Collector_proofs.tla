--------------------------- MODULE Collector_proofs ---------------------------
(***************************************************************************)
(* The stored candles have no hole, for any number of symbols, histories,  *)
(* page sizes, pauses, failures, restarts and edits of the list: both      *)
(* tasks extend the stored interval at one of its ends, by a set that has  *)
(* no hole of its own and reaches back into the interval.                  *)
(***************************************************************************)
EXTENDS Collector, FiniteSetTheorems, WellFoundedInduction, TLAPS

(* ---------------------- least and greatest minutes ----------------------- *)
LEMMA LeastNat ==
    ASSUME NEW S \in SUBSET Nat, S # {}
    PROVE  \E x \in S : \A y \in S : x <= y
<1>1. IsWellFoundedOn(OpToRel(<, Nat), Nat)
  BY NatLessThanWellFounded
<1>2. \A x, y \in Nat : y < x => <<y, x>> \in OpToRel(<, Nat)
  BY DEF OpToRel
<1>3. PICK R : IsWellFoundedOn(R, Nat) /\ \A x, y \in Nat : y < x => <<y, x>> \in R
  BY <1>1, <1>2
<1>4. PICK x \in S : \A y \in S : ~ (<<y, x>> \in R)
  BY <1>3, WFMin
<1>5. \A y \in S : ~(y < x)
  BY <1>3, <1>4
<1>6. QED BY <1>5

LEMMA GreatestNat ==
    ASSUME NEW S \in SUBSET Nat, S # {}, NEW n \in Nat, \A x \in S : x <= n
    PROVE  \E x \in S : \A y \in S : y <= x
<1> DEFINE T == {n - x : x \in S}
<1>1. T \in SUBSET Nat /\ T # {}
  <2>1. \A x \in S : n - x \in Nat
    OBVIOUS
  <2>2. PICK x \in S : TRUE
    OBVIOUS
  <2>3. n - x \in T
    OBVIOUS
  <2> QED BY <2>1, <2>3
<1>2. PICK t \in T : \A u \in T : t <= u
  BY <1>1, LeastNat
<1>3. PICK x \in S : t = n - x
  BY <1>2
<1>4. \A y \in S : n - x <= n - y
  BY <1>2, <1>3
<1>5. QED BY <1>4

LEMMA MinIs ==
    ASSUME NEW S \in SUBSET Nat, S # {}
    PROVE  Min(S) \in S /\ \A y \in S : Min(S) <= y
BY LeastNat DEF Min

LEMMA MaxIs ==
    ASSUME NEW S \in SUBSET Nat, S # {}, NEW n \in Nat, \A x \in S : x <= n
    PROVE  Max(S) \in S /\ \A y \in S : y <= Max(S)
BY GreatestNat DEF Max

LEMMA MaxIsOnly ==
    ASSUME NEW S \in SUBSET Nat, NEW x \in S, \A y \in S : y <= x
    PROVE  Max(S) = x
<1>1. Max(S) \in S /\ \A y \in S : y <= Max(S)
  BY MaxIs
<1>2. Max(S) <= x /\ x <= Max(S) /\ Max(S) \in Nat /\ x \in Nat
  BY <1>1
<1>3. QED BY <1>2

(* ------------------------------- requests -------------------------------- *)
\* The newest n of a set reach up to its end.
LEMMA NewestReachUp ==
    ASSUME NEW S \in SUBSET Nat, IsFiniteSet(S), NEW n \in Nat,
           NEW a \in Newest(n, S), NEW m \in S, a <= m
    PROVE  m \in Newest(n, S)
<1> DEFINE After(x) == {k \in S : k > x}
<1>1. a \in S /\ Cardinality(After(a)) < n
  BY DEF Newest
<1>2. After(m) \subseteq After(a) /\ IsFiniteSet(After(a))
  <2>1. \A k \in S : k > m => k > a
    BY <1>1
  <2>2. After(a) \in SUBSET S
    OBVIOUS
  <2>3. IsFiniteSet(After(a))
    BY <2>2, FS_Subset
  <2>4. After(m) \subseteq After(a)
    BY <2>1
  <2> QED BY <2>3, <2>4
<1> HIDE DEF After
<1>3. Cardinality(After(m)) \in Nat /\ Cardinality(After(a)) \in Nat
      /\ Cardinality(After(m)) <= Cardinality(After(a))
  BY <1>2, FS_Subset, FS_CardinalityType
<1>4. Cardinality(After(m)) < n
  BY <1>1, <1>3
<1>5. QED BY <1>4 DEF Newest, After

\* The oldest n of a set reach down to its beginning.
LEMMA OldestReachDown ==
    ASSUME NEW S \in SUBSET Nat, IsFiniteSet(S), NEW n \in Nat,
           NEW b \in Oldest(n, S), NEW m \in S, m <= b
    PROVE  m \in Oldest(n, S)
<1> DEFINE Before(x) == {k \in S : k < x}
<1>1. b \in S /\ Cardinality(Before(b)) < n
  BY DEF Oldest
<1>2. Before(m) \subseteq Before(b) /\ IsFiniteSet(Before(b))
  <2>1. \A k \in S : k < m => k < b
    BY <1>1
  <2>2. Before(b) \in SUBSET S
    OBVIOUS
  <2>3. IsFiniteSet(Before(b))
    BY <2>2, FS_Subset
  <2>4. Before(m) \subseteq Before(b)
    BY <2>1
  <2> QED BY <2>3, <2>4
<1> HIDE DEF Before
<1>3. Cardinality(Before(m)) \in Nat /\ Cardinality(Before(b)) \in Nat
      /\ Cardinality(Before(m)) <= Cardinality(Before(b))
  BY <1>2, FS_Subset, FS_CardinalityType
<1>4. Cardinality(Before(m)) < n
  BY <1>1, <1>3
<1>5. QED BY <1>4 DEF Oldest, Before

\* A page from a minute on holds everything of as many minutes as it is long.
LEMMA OldestReachesFrom ==
    ASSUME NEW S \in SUBSET Nat, IsFiniteSet(S), NEW n \in Nat, NEW from \in Int,
           \A k \in S : k >= from, NEW m \in S, m - from < n
    PROVE  m \in Oldest(n, S)
<1> DEFINE Before == {k \in S : k < m}
<1>1. Before \subseteq from .. (m - 1)
  <2>1. \A k \in S : k < m => k \in Int /\ from <= k /\ k <= m - 1
    OBVIOUS
  <2>2. \A k \in Before : k \in from .. (m - 1)
    BY <2>1
  <2> QED BY <2>2
<1>2. IsFiniteSet(from .. (m - 1)) /\ Cardinality(from .. (m - 1)) = m - from
  <2>1. m \in Int /\ m - 1 \in Int /\ from <= m
    OBVIOUS
  <2>2. /\ IsFiniteSet(from .. (m - 1))
        /\ Cardinality(from .. (m - 1)) = IF from > m - 1 THEN 0 ELSE (m - 1) - from + 1
    BY <2>1, FS_Interval
  <2> QED BY <2>1, <2>2
<1>3. Cardinality(Before) <= m - from /\ IsFiniteSet(Before)
  BY <1>1, <1>2, FS_Subset
<1>4. Cardinality(Before) < n
  BY <1>3, FS_CardinalityType
<1>5. QED BY <1>4 DEF Oldest

(* ------------------------------ the invariant ----------------------------- *)
CollectorTyped ==
    /\ now \in Nat
    /\ stored \in [Symbols -> SUBSET Nat] /\ partial \in [Symbols -> SUBSET Nat]
    /\ completed \in [Symbols -> BOOLEAN]
    /\ \A s \in Symbols : partial[s] \subseteq stored[s] /\ stored[s] \subseteq Listed(s)

\* The request that is under way starts where the stored candles end still:
\* nobody else writes candles.
RequestFits ==
    /\ pc \in {"list", "wait"} => asked = NoRequest
    /\ pc \in {"list", "forward", "backward", "wait"}
    /\ \A s \in Symbols :
         /\ pc = "forward" /\ asked # NoRequest /\ asked.symbol = s => asked.from = Since(s)
         /\ pc = "backward" /\ asked.symbol = s => stored[s] # {} /\ asked.from = Earliest(s)

\* A completed symbol has the first candle of its history, present and future.
StartsAtGenesis ==
    \A s \in Symbols : completed[s] => \E k \in stored[s] : \A m \in History[s] : k <= m

CollectorInv == CollectorTyped /\ RequestFits /\ StartsAtGenesis /\ NoHoles /\ OlderAreFinal

LEMMA HistoryTyped ==
    ASSUME CollectorTyped, NEW s \in Symbols
    PROVE  Listed(s) \in SUBSET Nat /\ IsFiniteSet(Listed(s)) /\ \A m \in Listed(s) : m <= now
<1>1. Listed(s) \in SUBSET History[s] /\ History[s] \in SUBSET Nat /\ IsFiniteSet(History[s])
  BY CollectorAssumption DEF Listed
<1>2. QED BY <1>1, FS_Subset DEF Listed

LEMMA StoredEnds ==
    ASSUME CollectorTyped, NEW s \in Symbols, stored[s] # {}
    PROVE  /\ Latest(s) \in stored[s] /\ Latest(s) \in Nat /\ \A k \in stored[s] : k <= Latest(s)
           /\ Earliest(s) \in stored[s] /\ Earliest(s) \in Nat /\ \A k \in stored[s] : Earliest(s) <= k
<1>1. stored[s] \in SUBSET Nat /\ (\A k \in stored[s] : k <= now) /\ now \in Nat
  BY HistoryTyped DEF CollectorTyped
<1>2. QED BY <1>1, MinIs, MaxIs DEF Latest, Earliest

LEMMA InitCollector == Init => CollectorInv
<1> SUFFICES ASSUME Init PROVE CollectorInv
  OBVIOUS
<1>1. now \in Nat
  <2>1. Clock \in SUBSET Nat /\ Clock # {}
    BY CollectorAssumption
  <2> QED BY <2>1, MinIs DEF Init
<1>2. QED
  BY <1>1 DEF Init, CollectorInv, CollectorTyped, RequestFits, StartsAtGenesis, NoHoles, OlderAreFinal

(* ------------------------------ forward ---------------------------------- *)
\* A page from before the latest stored candle on takes that one in, leaves no
\* hole behind it, and has none itself.
LEMMA ForwardFits ==
    ASSUME CollectorTyped, NEW s \in Symbols, stored[s] # {}
    PROVE  LET C == Forward(s, Since(s))
           IN  /\ C \subseteq Listed(s)
               /\ \A m \in Listed(s) : Since(s) <= m /\ m <= Latest(s) => m \in C
               /\ \A b \in C : Since(s) <= b /\ \A m \in Listed(s) : Since(s) <= m /\ m <= b => m \in C
<1> DEFINE S == {m \in Listed(s) : m >= Since(s)}
<1>1. Overlap \in Nat /\ Page \in Nat /\ Page > Overlap + 1
  BY CollectorAssumption
<1>2. Latest(s) \in Nat /\ Since(s) = Latest(s) - Overlap
  BY StoredEnds DEF Since
<1>3. Since(s) # Unknown /\ Since(s) \in Int
  BY <1>1, <1>2 DEF Unknown
<1>4. Forward(s, Since(s)) = Oldest(Page, S)
  BY <1>3 DEF Forward
<1>5. S \in SUBSET Nat /\ IsFiniteSet(S)
  <2>1. S \in SUBSET Listed(s)
    OBVIOUS
  <2> QED BY <2>1, HistoryTyped, FS_Subset
<1>6. ASSUME NEW m \in Listed(s), Since(s) <= m, m <= Latest(s) PROVE m \in Oldest(Page, S)
  <2>1. m \in S /\ m \in Nat
    BY <1>3, <1>6, HistoryTyped
  <2>2. m - Since(s) < Page
    BY <1>1, <1>2, <1>6, <2>1
  <2>3. \A k \in S : k >= Since(s)
    OBVIOUS
  <2> HIDE DEF S
  <2> QED BY <1>1, <1>3, <1>5, <2>1, <2>2, <2>3, OldestReachesFrom
<1>7. ASSUME NEW b \in Oldest(Page, S)
      PROVE  Since(s) <= b /\ b \in Listed(s)
             /\ \A m \in Listed(s) : Since(s) <= m /\ m <= b => m \in Oldest(Page, S)
  <2>1. b \in S
    BY DEF Oldest
  <2>2. ASSUME NEW m \in Listed(s), Since(s) <= m, m <= b PROVE m \in Oldest(Page, S)
    <3>1. m \in S
      BY <1>3, <2>2, HistoryTyped
    <3> HIDE DEF S
    <3> QED BY <1>1, <1>5, <2>2, <3>1, OldestReachDown
  <2>3. Since(s) <= b
    BY <1>3, <2>1, HistoryTyped
  <2> QED BY <2>1, <2>2, <2>3
<1> HIDE DEF S
<1>8. QED BY <1>4, <1>6, <1>7

\* What Save does to one symbol, and that the other symbols do not notice.
LEMMA SaveKeeps ==
    ASSUME CollectorInv, NEW s \in Symbols, NEW C \in SUBSET Listed(s), Save(s, C),
           UNCHANGED <<now, completed>>, RequestFits',
           \A a, b \in stored[s] \cup C : \A m \in Listed(s) :
              a < m /\ m < b => m \in stored[s] \cup C,
           \A m \in (partial[s] \ C) \cup (C \cap {now}) :
              \A k \in stored[s] \cup C : k <= m
    PROVE  CollectorInv'
<1> USE DEF CollectorInv, CollectorTyped
<1>1. /\ stored' = [stored EXCEPT ![s] = stored[s] \cup C]
      /\ partial' = [partial EXCEPT ![s] = (partial[s] \ C) \cup (C \cap {now})]
  BY DEF Save
<1>2. C \in SUBSET Nat /\ \A t \in Symbols : Listed(t)' = Listed(t)
  BY HistoryTyped DEF Listed
<1>3. CollectorTyped'
  BY <1>1, <1>2
<1>4. StartsAtGenesis'
  BY <1>1 DEF StartsAtGenesis
<1>5. NoHoles'
  <2> SUFFICES ASSUME NEW t \in Symbols, NEW a \in stored'[t], NEW b \in stored'[t],
                      NEW m \in Listed(t), a < m, m < b
               PROVE  m \in stored'[t]
    BY <1>2 DEF NoHoles
  <2>1. CASE t = s
    BY <1>1, <2>1
  <2>2. CASE t # s
    <3>1. stored'[t] = stored[t]
      BY <1>1, <2>2
    <3>2. QED BY <3>1 DEF NoHoles
  <2>3. QED BY <2>1, <2>2
<1>6. OlderAreFinal'
  <2> SUFFICES ASSUME NEW t \in Symbols, NEW m \in partial'[t] PROVE m = Max(stored'[t])
    BY DEF OlderAreFinal, Latest
  <2>1. CASE t = s
    <3>1. m \in stored'[s] /\ stored'[s] \in SUBSET Nat
      BY <1>3, <2>1
    <3>2. \A k \in stored'[s] : k <= m
      BY <1>1, <2>1
    <3> QED BY <2>1, <3>1, <3>2, MaxIsOnly
  <2>2. CASE t # s
    BY <1>1, <2>2 DEF OlderAreFinal, Latest
  <2> QED BY <2>1, <2>2
<1>7. QED BY <1>3, <1>4, <1>5, <1>6

LEMMA ForwardKeeps ==
    ASSUME CollectorInv, NEW s \in Symbols, ForwardAnswer(s)
    PROVE  CollectorInv'
<1> USE DEF CollectorInv
<1> DEFINE C == Forward(s, Since(s))
<1>1. Save(s, C) /\ UNCHANGED <<now, completed>> /\ RequestFits'
  BY DEF ForwardAnswer, RequestFits, tableVars
<1>2. /\ Listed(s) \in SUBSET Nat /\ IsFiniteSet(Listed(s)) /\ \A m \in Listed(s) : m <= now
      /\ now \in Nat /\ stored[s] \subseteq Listed(s) /\ partial[s] \subseteq stored[s]
  BY HistoryTyped DEF CollectorTyped
<1>3. CASE stored[s] = {}
  <2>1. C = Newest(Page, Listed(s)) /\ Page \in Nat
    BY <1>3, CollectorAssumption DEF Forward, Since
  <2> HIDE DEF C
  <2>2. C \in SUBSET Listed(s)
    BY <2>1 DEF Newest
  <2>3. \A a, b \in stored[s] \cup C : \A m \in Listed(s) :
           a < m /\ m < b => m \in stored[s] \cup C
    BY <1>2, <1>3, <2>1, <2>2, NewestReachUp
  <2>4. \A m \in (partial[s] \ C) \cup (C \cap {now}) : \A k \in stored[s] \cup C : k <= m
    BY <1>2, <1>3, <2>2
  <2> QED BY <1>1, <2>2, <2>3, <2>4, SaveKeeps
<1>4. CASE stored[s] # {}
  <2>1. /\ C \in SUBSET Listed(s)
        /\ \A m \in Listed(s) : Since(s) <= m /\ m <= Latest(s) => m \in C
        /\ \A b \in C : Since(s) <= b /\ \A m \in Listed(s) : Since(s) <= m /\ m <= b => m \in C
    BY <1>4, ForwardFits
  <2> HIDE DEF C
  <2>2. /\ Latest(s) \in stored[s] /\ Latest(s) \in Nat /\ \A k \in stored[s] : k <= Latest(s)
        /\ Since(s) \in Int /\ Since(s) <= Latest(s)
    BY <1>4, StoredEnds, CollectorAssumption DEF Since
  <2>3. ASSUME NEW a \in stored[s] \cup C, NEW b \in stored[s] \cup C, NEW m \in Listed(s), a < m, m < b
        PROVE  m \in stored[s] \cup C
    <3>0. a \in Nat /\ b \in Nat /\ m \in Nat
      BY <1>2, <2>1
    <3>1. CASE m < Since(s)
      <4>1. a \in stored[s]
        BY <2>1, <2>2, <2>3, <3>0, <3>1
      <4>2. m < Latest(s)
        BY <2>2, <3>0, <3>1
      <4> QED BY <2>2, <2>3, <4>1, <4>2 DEF NoHoles
    <3>2. CASE Since(s) <= m /\ m <= Latest(s)
      BY <2>1, <3>2
    <3>3. CASE Since(s) <= m /\ Latest(s) < m
      <4>1. b \in C
        BY <2>2, <2>3, <3>0, <3>3
      <4> QED BY <2>1, <2>3, <3>0, <3>3, <4>1
    <3> QED BY <2>2, <3>0, <3>1, <3>2, <3>3
  <2>4. Latest(s) \in C
    BY <1>2, <2>1, <2>2
  <2>5. \A m \in (partial[s] \ C) \cup (C \cap {now}) : m = now
    BY <2>4 DEF OlderAreFinal
  <2>6. \A m \in (partial[s] \ C) \cup (C \cap {now}) : \A k \in stored[s] \cup C : k <= m
    BY <1>2, <2>1, <2>5
  <2> QED BY <1>1, <2>1, <2>3, <2>6, SaveKeeps
<1>5. QED BY <1>3, <1>4

(* ------------------------------ backward --------------------------------- *)
\* A block of the backfill reaches up to the oldest stored candle.
LEMMA BackfillFits ==
    ASSUME CollectorTyped, NEW s \in Symbols, NEW before \in Nat
    PROVE  LET C == Backfill(s, before)
           IN  /\ C \subseteq Older(s, before)
               /\ \A a \in C : \A m \in Older(s, before) : a <= m => m \in C
<1> DEFINE O == Older(s, before)
           W == {m \in O : m >= before - Window}
           K == {k \in Listed(s) : k >= before - Window}
<1>1. Window \in Nat /\ Page \in Nat /\ CcxtPage \in Nat /\ CcxtPage > Window
      /\ Kind[s] \in {"kucoin", "binance", "ccxt"}
  BY CollectorAssumption
<1>2. Listed(s) \in SUBSET Nat /\ IsFiniteSet(Listed(s))
  BY HistoryTyped
<1>3. O \in SUBSET Nat /\ IsFiniteSet(O) /\ O \subseteq Listed(s) /\ \A m \in O : m < before
  <2>1. O \in SUBSET Listed(s) /\ \A m \in O : m < before
    BY DEF Older
  <2> QED BY <1>2, <2>1, FS_Subset
<1>4. K \in SUBSET Nat /\ IsFiniteSet(K)
  <2>1. K \in SUBSET Listed(s)
    OBVIOUS
  <2> QED BY <1>2, <2>1, FS_Subset
<1>5. ASSUME NEW n \in Nat
      PROVE  /\ Newest(n, O) \subseteq O
             /\ \A a \in Newest(n, O) : \A m \in O : a <= m => m \in Newest(n, O)
  <2>1. Newest(n, O) \subseteq O
    BY DEF Newest
  <2> HIDE DEF O
  <2> QED BY <1>3, <2>1, NewestReachUp
<1>6. /\ W \subseteq O
      /\ \A a \in W : \A m \in O : a <= m => m \in W
  <2>1. \A a, m \in O : a >= before - Window /\ a <= m => m >= before - Window
    BY <1>1, <1>3
  <2> QED BY <2>1
<1>7. CASE Kind[s] = "kucoin"
  <2>1. Backfill(s, before) = IF W # {} THEN W ELSE Newest(Window, O)
    BY <1>7 DEF Backfill
  <2> HIDE DEF W, O
  <2> QED BY <1>1, <1>5, <1>6, <2>1 DEF O
<1>8. CASE Kind[s] = "binance"
  <2>1. Backfill(s, before) = Newest(Page, O)
    BY <1>8 DEF Backfill
  <2> HIDE DEF O
  <2> QED BY <1>1, <1>5, <2>1 DEF O
<1>9. CASE Kind[s] = "ccxt"
  <2>1. Backfill(s, before) = {m \in Oldest(CcxtPage, K) : m < before}
    BY <1>9 DEF Backfill
  <2>2. Oldest(CcxtPage, K) \subseteq K
    BY DEF Oldest
  <2>3. {m \in Oldest(CcxtPage, K) : m < before} \subseteq O
    BY <2>2 DEF Older
  <2>4. ASSUME NEW a \in Oldest(CcxtPage, K), NEW m \in O, a <= m
        PROVE  m \in Oldest(CcxtPage, K)
    <3>1. a \in K /\ a \in Nat /\ m \in Nat /\ m < before /\ m \in Listed(s)
      BY <1>3, <1>4, <2>2
    <3>2. m \in K
      BY <1>1, <2>4, <3>1
    <3>3. m - (before - Window) < CcxtPage /\ before - Window \in Int
      BY <1>1, <3>1
    <3>4. \A k \in K : k >= before - Window
      OBVIOUS
    <3> HIDE DEF K
    <3> QED BY <1>1, <1>4, <3>2, <3>3, <3>4, OldestReachesFrom
  <2> QED BY <1>3, <2>1, <2>3, <2>4
<1>10. QED BY <1>1, <1>7, <1>8, <1>9

LEMMA BackwardKeeps ==
    ASSUME CollectorInv, NEW s \in Symbols, BackwardAnswer(s)
    PROVE  CollectorInv'
<1> USE DEF CollectorInv
<1> DEFINE e == Earliest(s)
           C == Backfill(s, e)
<1>1. stored[s] # {} /\ asked.from = e
  BY DEF BackwardAnswer, RequestFits
<1>2. /\ e \in stored[s] /\ e \in Nat /\ \A k \in stored[s] : e <= k
      /\ Latest(s) \in stored[s] /\ Latest(s) \in Nat /\ \A k \in stored[s] : k <= Latest(s)
  BY <1>1, StoredEnds
<1>3. /\ Listed(s) \in SUBSET Nat /\ \A m \in Listed(s) : m <= now
      /\ now \in Nat /\ stored[s] \subseteq Listed(s) /\ partial[s] \subseteq stored[s]
  BY HistoryTyped DEF CollectorTyped
<1>4. RequestFits' /\ UNCHANGED now
  BY DEF BackwardAnswer, RequestFits
<1>5. CASE ReachedGenesis(s, e)
  <2>1. completed' = [completed EXCEPT ![s] = TRUE] /\ UNCHANGED <<stored, partial>>
    BY <1>1, <1>5 DEF BackwardAnswer, candleVars
  <2>2. \A m \in History[s] : e <= m
    <3>1. \A m \in Listed(s) : ~(m < e)
      BY <1>5 DEF ReachedGenesis, Older
    <3>2. \A m \in History[s] : m \in Nat /\ (m <= now => m \in Listed(s))
      BY CollectorAssumption DEF Listed
    <3> QED BY <1>2, <1>3, <3>1, <3>2
  <2> HIDE DEF e
  <2>3. StartsAtGenesis'
    BY <1>2, <2>1, <2>2 DEF StartsAtGenesis, CollectorTyped
  <2>4. CollectorTyped' /\ NoHoles' /\ OlderAreFinal'
    BY <1>4, <2>1 DEF CollectorTyped, NoHoles, OlderAreFinal, Listed, Latest
  <2> QED BY <1>4, <2>3, <2>4
<1>6. CASE ~ReachedGenesis(s, e)
  <2>1. Save(s, C) /\ UNCHANGED completed
    BY <1>1, <1>6 DEF BackwardAnswer
  <2>2. C \subseteq Older(s, e) /\ \A a \in C : \A m \in Older(s, e) : a <= m => m \in C
    BY <1>2, BackfillFits
  <2> HIDE DEF C, e
  <2>3. C \in SUBSET Listed(s) /\ \A k \in C : k < e
    BY <2>2 DEF Older
  <2>4. ASSUME NEW a \in stored[s] \cup C, NEW b \in stored[s] \cup C, NEW m \in Listed(s), a < m, m < b
        PROVE  m \in stored[s] \cup C
    <3>0. a \in Nat /\ b \in Nat /\ m \in Nat
      BY <1>3, <2>3
    <3>1. CASE m < e
      <4>1. a \in C /\ m \in Older(s, e)
        BY <1>2, <2>4, <3>0, <3>1 DEF Older
      <4> QED BY <2>2, <2>4, <3>0, <4>1
    <3>2. CASE m = e
      BY <1>2, <3>2
    <3>3. CASE e < m
      <4>1. b \in stored[s]
        BY <1>2, <2>3, <2>4, <3>0, <3>3
      <4> QED BY <1>2, <2>4, <3>3, <4>1 DEF NoHoles
    <3> QED BY <1>2, <3>0, <3>1, <3>2, <3>3
  <2>5. \A m \in (partial[s] \ C) \cup (C \cap {now}) : m = Latest(s)
    <3>1. now \notin C
      BY <1>2, <1>3, <2>3
    <3> QED BY <3>1 DEF OlderAreFinal
  <2>6. \A m \in (partial[s] \ C) \cup (C \cap {now}) : \A k \in stored[s] \cup C : k <= m
    BY <1>2, <1>3, <2>3, <2>5
  <2> QED BY <1>4, <2>1, <2>3, <2>4, <2>6, SaveKeeps
<1>7. QED BY <1>5, <1>6

(* --------------------- everything else, and the result -------------------- *)
LEMMA TickKeeps == CollectorInv /\ Tick => CollectorInv'
<1> SUFFICES ASSUME CollectorInv, Tick PROVE CollectorInv'
  OBVIOUS
<1> USE DEF CollectorInv
<1>1. /\ UNCHANGED <<stored, partial, completed, pc, asked>>
      /\ now' \in Nat /\ now \in Nat /\ now < now'
  BY CollectorAssumption DEF Tick, tableVars, candleVars, workerVars, CollectorTyped
<1>2. \A s \in Symbols : Listed(s) \subseteq Listed(s)'
                         /\ \A m \in Listed(s)' : m <= now => m \in Listed(s)
  BY <1>1, CollectorAssumption DEF Listed
<1>3. CollectorTyped'
  BY <1>1, <1>2 DEF CollectorTyped
<1>4. RequestFits' /\ StartsAtGenesis' /\ OlderAreFinal'
  BY <1>1 DEF RequestFits, Since, Latest, Earliest, StartsAtGenesis, OlderAreFinal
<1>5. NoHoles'
  <2> SUFFICES ASSUME NEW s \in Symbols, NEW a \in stored[s], NEW b \in stored[s],
                      NEW m \in Listed(s)', a < m, m < b
               PROVE  m \in stored[s]
    BY <1>1 DEF NoHoles
  <2>1. b \in Nat /\ b <= now /\ m \in Nat
    BY <1>2, <1>3, HistoryTyped, CollectorAssumption DEF CollectorTyped, Listed
  <2>2. m <= now
    BY <1>1, <2>1
  <2>3. m \in Listed(s)
    BY <1>2, <2>2
  <2> QED BY <2>3 DEF NoHoles
<1>6. QED BY <1>3, <1>4, <1>5

\* The steps that touch neither candles nor marks; those that ask take the ends
\* of the stored candles as they are.
LEMMA OtherKeeps ==
    ASSUME CollectorInv,
           \/ Worker \/ Restart \/ UNCHANGED vars
           \/ \E s \in Symbols : AddSymbol(s) \/ AutoTrack(s) \/ RemoveSymbol(s)
    PROVE  CollectorInv'
<1> USE DEF CollectorInv
<1>1. UNCHANGED <<now, stored, partial, completed>>
  BY DEF Worker, ReadList, AskForward, AskBackward, EndCycle, ForwardFails, BackwardFails, Restart,
         AddSymbol, AutoTrack, RemoveSymbol, vars, tableVars, candleVars
<1>2. CollectorTyped' /\ StartsAtGenesis' /\ NoHoles' /\ OlderAreFinal'
  BY <1>1 DEF CollectorTyped, StartsAtGenesis, NoHoles, OlderAreFinal, Listed, Latest
<1>3. RequestFits'
  <2>1. CASE AskForward
    BY <1>1, <2>1 DEF AskForward, RequestFits, Since, Latest
  <2>2. CASE AskBackward
    BY <1>1, <2>2 DEF AskBackward, RequestFits, Earliest
  <2>3. CASE \/ asked' = NoRequest /\ pc' \in {"list", "forward", "wait"}
             \/ UNCHANGED <<pc, asked>>
    BY <1>1, <2>3 DEF RequestFits, Since, Latest, Earliest
  <2>4. CASE ReadList
    BY <1>1, <2>4 DEF ReadList, RequestFits
  <2>5. CASE EndCycle
    BY <1>1, <2>5 DEF EndCycle, RequestFits
  <2> QED
    BY <2>1, <2>2, <2>3, <2>4, <2>5
       DEF Worker, ForwardFails, BackwardFails, Restart, AddSymbol, AutoTrack, RemoveSymbol,
           vars, workerVars
<1>4. QED BY <1>2, <1>3

LEMMA CollectorStays == Spec => []CollectorInv
<1>1. CollectorInv /\ [Next]_vars => CollectorInv'
  BY ForwardKeeps, BackwardKeeps, TickKeeps, OtherKeeps DEF Next
<1>2. QED BY <1>1, InitCollector, PTL DEF Spec

\* Between the oldest and the latest stored candle of a symbol nothing is
\* missing that the exchange has (collector.py:99-157, exchange_client.py:50-272).
THEOREM StoredWithoutHoles == Spec => []NoHoles
<1>1. CollectorInv => NoHoles
  BY DEF CollectorInv
<1>2. QED BY <1>1, CollectorStays, PTL

\* Only the latest stored candle may be one of a minute that was not over
\* (collector.py:101-106).
THEOREM RenewedBehindTheEnd == Spec => []OlderAreFinal
<1>1. CollectorInv => OlderAreFinal
  BY DEF CollectorInv
<1>2. QED BY <1>1, CollectorStays, PTL

\* The backfill is marked as completed only at the first candle of the history
\* (collector.py:144-151), whoever removed or added the symbol meanwhile.
THEOREM CompletedWithHistory == Spec => []CompletedAtGenesis
<1>1. CollectorInv => CompletedAtGenesis
  BY DEF CollectorInv, StartsAtGenesis, CompletedAtGenesis, Listed
<1>2. QED BY <1>1, CollectorStays, PTL
=============================================================================
