--------------------------- MODULE Simulation_proofs ---------------------------
(***************************************************************************)
(* Every property of the simulation engine, for all eleven strategies, all *)
(* candles, weights, fees and injections.  Fits, what a portfolio and the  *)
(* signals not executed yet always are, is inductive: a strategy sells     *)
(* each tranche once and buys at the close, whatever it combines.  On it   *)
(* rest the books, the subsidies and the floors.  That the chain descends  *)
(* needs Chain as well: a queued buy of a chained strategy is alone in its *)
(* candle and below everything held.                                       *)
(***************************************************************************)
EXTENDS Simulation, FoldFacts

\* A tranche: bought for something, with a target between its floor and what its
\* signal asked.
Held ==
    {t \in [index : Nat, allocated : Nat, fee : Nat, buy : Nat, amount : Nat,
            target : Int, asked : Int] :
       /\ t.allocated > 0 /\ t.buy > 0 /\ t.amount > 0
       /\ t.target <= t.asked /\ t.target >= FloorPrice(t)}

SellSignals == [side : {"SELL"}, index : Nat, price : Int, trailing : BOOLEAN]
BuySignals ==
    {s \in [side : {"BUY"}, index : Nat, price : Nat, cost : Int, target : Int] :
       0 < s.price /\ s.price <= Lot /\ s.price <= s.target}
Signals == SellSignals \cup BuySignals

Memory == [highest : Int, reference : Int, entry : Int]

OnePerIndex(list) == \A i, j \in DOMAIN list : list[i].index = list[j].index => i = j

\* A queued sell is for a tranche that is held, and for one of its own: the engine
\* never meets the sell it would skip (engine.py:86).
SellsHeld(signals, list) ==
    \A i \in DOMAIN signals : signals[i].side = "SELL" =>
      /\ signals[i].index \in Occupied(list)
      /\ \A j \in DOMAIN signals :
           signals[j].side = "SELL" /\ signals[j].index = signals[i].index => i = j

Fits ==
    /\ strategy \in StrategyNames /\ memory \in Memory
    /\ queue \in Seq(Signals)
    /\ {available, budget, deposited, profit} \subseteq Int
    /\ active \in Seq(Held) /\ OnePerIndex(active)
    /\ SellsHeld(queue, active)
    /\ granted \in Nat

\* A buy goes below everything the chain holds.
Descends(signal, list) ==
    signal.index < BaseTranches =>
      \A i \in DOMAIN list : list[i].index < BaseTranches =>
        list[i].index < signal.index /\ list[i].buy > signal.price

\* A chained strategy either sells or places one buy.
Steps(signals, list) ==
    \A i \in DOMAIN signals : signals[i].side = "BUY" =>
      Len(signals) = 1 /\ Descends(signals[i], list)
ChainReady == strategy \in Chained => Steps(queue, active)

-----------------------------------------------------------------------------
(* Numbers and lists *)

Row == [low : Nat, close : Nat \ {0}, high : Nat, atr : Nat, donchian : Nat,
        macro : Nat, ema50 : Nat, ema200 : Nat, adx : Nat, rsi : Nat]

LEMMA Numbers ==
  /\ Budget \in Nat /\ MaxTranches \in Nat \ {0} /\ BaseTranches \in Nat \ {0}
  /\ Lot \in Nat \ {0} /\ OneDollar \in Nat /\ FloorTranches \in Nat /\ TakeProfit \in Nat
  /\ TrailingStop \in Nat /\ BaseTranches <= MaxTranches
  /\ \A k \in 1 .. MaxTranches : Weights[k] \in Nat
  /\ FeeRate \in Nat /\ Slippage \in Nat /\ Recycled \in Nat /\ MaxDiscount \in Nat
  /\ Names \subseteq StrategyNames
  /\ \A a \in Injections : a \in Nat /\ a > 0
  /\ \A row \in Rows : row \in Row /\ row.close <= Lot
<1>1. \A k \in 1 .. MaxTranches : Weights[k] \in Nat
  <2>1. Weights \in Seq(Nat) /\ MaxTranches \in Nat /\ Len(Weights) >= MaxTranches
    BY StrategyAssumption
  <2> QED
    BY <2>1
<1>2. /\ Budget \in Nat /\ MaxTranches \in Nat \ {0} /\ BaseTranches \in Nat \ {0}
      /\ Lot \in Nat \ {0} /\ OneDollar \in Nat /\ FloorTranches \in Nat /\ TakeProfit \in Nat
      /\ TrailingStop \in Nat /\ BaseTranches <= MaxTranches
  BY StrategyAssumption
<1>3. /\ FeeRate \in Nat /\ Slippage \in Nat /\ Recycled \in Nat /\ MaxDiscount \in Nat
      /\ Names \subseteq StrategyNames
      /\ \A a \in Injections : a \in Nat /\ a > 0
  BY SimulationAssumption
<1>4. \A row \in Rows : row \in Row /\ row.close <= Lot
  BY SimulationAssumption DEF Row
<1> QED
  BY <1>1, <1>2, <1>3, <1>4

LEMMA QuotientOf ==
  ASSUME NEW a \in Nat, NEW b \in Nat, b > 0
  PROVE  a \div b \in Nat /\ b * (a \div b) <= a /\ a < b * (a \div b) + b
OBVIOUS

LEMMA RateInt == ASSUME NEW x, x \in Int, NEW r, r \in Int PROVE Rate(x, r) \in Int
<1> DEFINE y == x * r
<1>1. y \in Int
  OBVIOUS
<1> HIDE DEF y
<1>2. y \div 1000 \in Int
  BY <1>1
<1> QED
  BY <1>2 DEF Rate, y

LEMMA RateNat == \A x, r \in Nat : Rate(x, r) \in Nat
<1> SUFFICES ASSUME NEW x \in Nat, NEW r \in Nat PROVE Rate(x, r) \in Nat
  OBVIOUS
<1> DEFINE y == x * r
<1>1. y \in Nat
  OBVIOUS
<1> HIDE DEF y
<1>2. y \div 1000 \in Nat
  BY <1>1
<1> QED
  BY <1>2 DEF Rate, y

\* What a list keeps: its values are values of the list, at places of their own.
LEMMA WithIndexIs ==
  ASSUME NEW V, NEW list \in Seq(V), NEW indices
  PROVE  /\ WithIndex(list, indices) \in Seq(V)
         /\ \E from \in [DOMAIN WithIndex(list, indices) -> DOMAIN list] :
              /\ \A j \in DOMAIN WithIndex(list, indices) :
                   /\ WithIndex(list, indices)[j] = list[from[j]]
                   /\ list[from[j]].index \in indices
              /\ \A j, k \in DOMAIN WithIndex(list, indices) : from[j] = from[k] => j = k
              /\ \A i \in DOMAIN list : list[i].index \in indices =>
                   \E j \in DOMAIN WithIndex(list, indices) : from[j] = i
<1> DEFINE keep == {t \in ToSet(list) : t.index \in indices}
           kept == WithIndex(list, indices)
<1>1. kept \in Seq(V) /\ \E from : Picks(from, list, kept, keep)
  BY KeptElements DEF WithIndex
<1>2. \A i \in DOMAIN list : list[i] \in keep <=> list[i].index \in indices
  BY DEF ToSet
<1> HIDE DEF keep, kept
<1>3. PICK from : Picks(from, list, kept, keep)
  BY <1>1
<1>4. /\ from \in [DOMAIN kept -> DOMAIN list]
      /\ \A j \in DOMAIN kept : kept[j] = list[from[j]] /\ list[from[j]].index \in indices
      /\ \A j, k \in DOMAIN kept : from[j] = from[k] => j = k
      /\ \A i \in DOMAIN list : list[i].index \in indices => \E j \in DOMAIN kept : from[j] = i
  BY <1>2, <1>3 DEF Picks
<1>5. /\ kept \in Seq(V)
      /\ \E to \in [DOMAIN kept -> DOMAIN list] :
           /\ \A j \in DOMAIN kept : kept[j] = list[to[j]] /\ list[to[j]].index \in indices
           /\ \A j, k \in DOMAIN kept : to[j] = to[k] => j = k
           /\ \A i \in DOMAIN list : list[i].index \in indices => \E j \in DOMAIN kept : to[j] = i
  BY <1>1, <1>4
<1> QED
  BY <1>5 DEF kept

LEMMA BelowIs ==
  ASSUME NEW V, NEW list \in Seq(V), NEW n
  PROVE  /\ Below(list, n) \in Seq(V)
         /\ \A j \in DOMAIN Below(list, n) : Below(list, n)[j].index < n
         /\ \A j \in DOMAIN Below(list, n) : \E i \in DOMAIN list : Below(list, n)[j] = list[i]
         /\ \A i \in DOMAIN list : list[i].index < n =>
              \E j \in DOMAIN Below(list, n) : Below(list, n)[j] = list[i]
<1> DEFINE indices == {k \in Occupied(list) : k < n}
           kept == Below(list, n)
<1>1. kept = WithIndex(list, indices)
  BY DEF Below
<1>2. \A i \in DOMAIN list : list[i].index \in indices <=> list[i].index < n
  BY DEF Occupied
<1> HIDE DEF indices, kept
<1>3. /\ kept \in Seq(V)
      /\ \E from \in [DOMAIN kept -> DOMAIN list] :
              /\ \A j \in DOMAIN kept : kept[j] = list[from[j]] /\ list[from[j]].index \in indices
              /\ \A j, k \in DOMAIN kept : from[j] = from[k] => j = k
              /\ \A i \in DOMAIN list : list[i].index \in indices =>
                   \E j \in DOMAIN kept : from[j] = i
  BY <1>1, WithIndexIs
<1>4. PICK from \in [DOMAIN kept -> DOMAIN list] :
        /\ \A j \in DOMAIN kept : kept[j] = list[from[j]] /\ list[from[j]].index \in indices
        /\ \A i \in DOMAIN list : list[i].index \in indices => \E j \in DOMAIN kept : from[j] = i
  BY <1>3
<1>5. /\ \A j \in DOMAIN kept : kept[j].index < n
      /\ \A j \in DOMAIN kept : \E i \in DOMAIN list : kept[j] = list[i]
      /\ \A i \in DOMAIN list : list[i].index < n => \E j \in DOMAIN kept : kept[j] = list[i]
  BY <1>2, <1>4
<1> QED
  BY <1>3, <1>5 DEF kept

LEMMA HeldTyped ==
  ASSUME NEW t \in Held
  PROVE  /\ t.index \in Nat /\ t.allocated \in Nat /\ t.fee \in Nat /\ t.buy \in Nat
         /\ t.amount \in Nat /\ t.target \in Int /\ t.asked \in Int
         /\ t.allocated > 0 /\ t.buy > 0 /\ t.amount > 0
         /\ t.target <= t.asked /\ t.target >= FloorPrice(t)
BY DEF Held

LEMMA OccupiedTyped ==
  ASSUME NEW list \in Seq(Held)
  PROVE  Occupied(list) \subseteq Nat /\ IsFiniteSet(Occupied(list))
<1>1. \A i \in DOMAIN list : list[i] \in Held
  OBVIOUS
<1> DEFINE f == [i \in DOMAIN list |-> list[i].index]
<1>2. IsFiniteSet(DOMAIN list)
  BY FS_Interval
<1>3. f \in Surjection(DOMAIN list, Occupied(list))
  BY DEF Surjection, Occupied
<1> HIDE DEF f
<1>4. IsFiniteSet(Occupied(list))
  BY <1>2, <1>3, FS_Surjection
<1> QED
  BY <1>1, <1>4, HeldTyped DEF Occupied

\* Holding finds the tranche.
LEMMA HoldingIs ==
  ASSUME NEW list, NEW k \in Occupied(list)
  PROVE  \E i \in DOMAIN list : list[i].index = k /\ Holding(list, k) = list[i]
BY DEF Occupied, Holding

-----------------------------------------------------------------------------
(* What the strategies are made of *)

Folder(p) ==
    /\ p \in [available : Int, budget : Int, deposited : Int, profit : Int, withdrawn : Int,
              active : Seq(Held)]
    /\ OnePerIndex(p.active)

Outcome(out, list) ==
    /\ out.memory \in Memory
    /\ out.signals \in Seq(Signals) /\ SellsHeld(out.signals, list)

LEMMA TargetsAbove ==
  ASSUME NEW row \in Rows
  PROVE  \A target \in {Profitable(row), 2 * row.close, 5 * row.close,
                        Rate(row.close, 1050), Rate(row.close, 1070)} :
           target \in Int /\ row.close <= target
<1> DEFINE c == row.close
<1>1. c \in Nat
  BY Numbers DEF Row
<1> HIDE DEF c
<1>2. Rate(c, TakeProfit) \in Nat
  BY <1>1, Numbers, RateNat
<1>3. Rate(c, 1050) \in Nat /\ c <= Rate(c, 1050)
  BY <1>1 DEF Rate
<1>4. Rate(c, 1070) \in Nat /\ c <= Rate(c, 1070)
  BY <1>1 DEF Rate
<1>5. c <= 2 * c /\ c <= 5 * c /\ 2 * c \in Nat /\ 5 * c \in Nat
  BY <1>1
<1>6. c <= c + Rate(c, TakeProfit) /\ c + Rate(c, TakeProfit) \in Nat
  BY <1>1, <1>2
<1> QED
  BY <1>3, <1>4, <1>5, <1>6 DEF c, Profitable

\* At most one buy, of this tranche at this price.
Entry(signals) == signals \in Seq(BuySignals) /\ Len(signals) <= 1
IsFor(signals, k, price) ==
    \A i \in DOMAIN signals : signals[i].index = k /\ signals[i].price = price

LEMMA OrderIs ==
  ASSUME NEW row \in Rows, NEW p, Folder(p), NEW k, k \in Nat, NEW wanted, wanted \in Int,
         NEW capped, NEW target, target \in Int, row.close <= target
  PROVE  /\ Entry(Order(row, p, k, wanted, capped, target))
         /\ IsFor(Order(row, p, k, wanted, capped, target), k, row.close)
<1> DEFINE cost == IF capped THEN Min({wanted, p.available}) ELSE wanted
           s == [side |-> "BUY", index |-> k, price |-> row.close, cost |-> cost,
                 target |-> target]
           order == Order(row, p, k, wanted, capped, target)
<1>1. p.available \in Int
  BY DEF Folder
<1>2. cost \in Int
  BY <1>1, OfTwo
<1>3. row.close \in Nat /\ row.close > 0 /\ row.close <= Lot
  BY Numbers DEF Row
<1>4. order = <<s>> \/ order = <<>>
  BY DEF Order, Nothing
<1> HIDE DEF cost, order
<1>5. s \in BuySignals /\ s.index = k /\ s.price = row.close
  BY <1>2, <1>3 DEF BuySignals
<1> HIDE DEF s
<1>6. order \in Seq(BuySignals) /\ Len(order) <= 1 /\ \A i \in DOMAIN order : order[i] = s
  <2>1. CASE order = <<s>>
    <3>1. <<s>> \in Seq(BuySignals) /\ Len(<<s>>) = 1 /\ \A i \in DOMAIN <<s>> : <<s>>[i] = s
      BY <1>5
    <3> QED
      BY <2>1, <3>1
  <2>2. CASE order = <<>>
    <3>1. <<>> \in Seq(BuySignals) /\ Len(<<>>) = 0 /\ DOMAIN <<>> = {}
      OBVIOUS
    <3> QED
      BY <2>2, <3>1
  <2> QED
    BY <1>4, <2>1, <2>2
<1>7. Entry(order) /\ IsFor(order, k, row.close)
  BY <1>5, <1>6 DEF Entry, IsFor
<1> QED
  BY <1>7 DEF order

LEMMA NothingIs ==
  /\ Nothing \in Seq(BuySignals) /\ Nothing \in Seq(SellSignals) /\ Len(Nothing) = 0
  /\ DOMAIN Nothing = {}
BY DEF Nothing

LEMMA BasesTyped ==
  ASSUME NEW p, Folder(p)
  PROVE  CompoundBase(p) \in Int /\ QuantumBase(p) \in Int /\ EvolutionBase(p) \in Int
<1>1. /\ p.available \in Int /\ p.budget \in Int /\ p.deposited \in Int /\ p.profit \in Int
      /\ p.withdrawn \in Int /\ Budget \in Int
  BY Numbers DEF Folder
<1>2. p.profit - p.withdrawn \in Int /\ p.budget + p.profit + p.deposited - p.withdrawn \in Int
  BY <1>1
<1>0. \A a, b \in Int : Max({a, b}) \in Int
  BY OfTwo
<1>3. Max({0, p.profit - p.withdrawn}) \in Int /\ Max({0, p.profit}) \in Int
  BY <1>0, <1>1, <1>2
<1>4. Max({Budget, p.budget + p.profit + p.deposited - p.withdrawn}) \in Int
  BY <1>0, <1>1, <1>2
<1>5. CompoundBase(p) \in Int
  BY <1>1, <1>3 DEF CompoundBase
<1>6. EvolutionBase(p) \in Int
  BY <1>1, <1>3 DEF EvolutionBase
<1> QED
  BY <1>4, <1>5, <1>6 DEF QuantumBase

LEMMA WeightedInt ==
  ASSUME NEW base \in Int, NEW k \in 0 .. MaxTranches - 1
  PROVE  Rate(base, Weights[k + 1]) \in Int
<1>1. k + 1 \in 1 .. MaxTranches
  BY Numbers
<1>2. Weights[k + 1] \in Int
  BY <1>1, Numbers
<1> QED
  BY <1>2, RateInt

\* The sells of a candle, then its buys.
LEMMA Joined ==
  ASSUME NEW list, NEW sells \in Seq(SellSignals), SellsHeld(sells, list),
         NEW entries \in Seq(BuySignals)
  PROVE  sells \o entries \in Seq(Signals) /\ SellsHeld(sells \o entries, list)
<1> DEFINE all == sells \o entries
           n == Len(sells)
<1>1. n \in Nat /\ DOMAIN sells = 1 .. n /\ DOMAIN all = 1 .. n + Len(entries)
      /\ Len(entries) \in Nat
  OBVIOUS
<1>2. \A i \in DOMAIN all : IF i <= n THEN i \in DOMAIN sells /\ all[i] = sells[i]
                            ELSE all[i] \in BuySignals
  <2>1. \A i \in DOMAIN all : i <= n => i \in DOMAIN sells /\ all[i] = sells[i]
    BY <1>1
  <2>2. ASSUME NEW i \in DOMAIN all, ~(i <= n) PROVE all[i] \in BuySignals
    <3>1. i - n \in 1 .. Len(entries) /\ all[i] = entries[i - n]
      BY <1>1, <2>2
    <3> QED
      BY <3>1
  <2> QED
    BY <2>1, <2>2
<1>3. \A i \in DOMAIN sells : sells[i] \in SellSignals
  OBVIOUS
<1>4. all \in Seq(Signals)
  <2>1. sells \in Seq(Signals) /\ entries \in Seq(Signals)
    BY MoreValues DEF Signals
  <2> QED
    BY <2>1
<1> HIDE DEF all, n
<1>5. \A i \in DOMAIN all : all[i].side = "SELL" => i \in DOMAIN sells /\ all[i] = sells[i]
  BY <1>2 DEF BuySignals
<1>6. SellsHeld(all, list)
  BY <1>5 DEF SellsHeld
<1> QED
  BY <1>4, <1>6 DEF all

LEMMA OnlyBuys ==
  ASSUME NEW list, NEW entries \in Seq(BuySignals)
  PROVE  entries \in Seq(Signals) /\ SellsHeld(entries, list)
<1>1. entries \in Seq(Signals)
  BY MoreValues DEF Signals
<1>2. \A i \in DOMAIN entries : entries[i].side = "BUY"
  BY DEF BuySignals
<1> QED
  BY <1>1, <1>2 DEF SellsHeld

LEMMA OnlySells ==
  ASSUME NEW list, NEW sells \in Seq(SellSignals), SellsHeld(sells, list)
  PROVE  sells \in Seq(Signals) /\ \A i \in DOMAIN sells : sells[i].side = "SELL"
<1>1. SellSignals \subseteq Signals
  BY DEF Signals
<1>2. sells \in Seq(Signals)
  BY <1>1, MoreValues
<1>3. \A i \in DOMAIN sells : sells[i] \in SellSignals
  OBVIOUS
<1> QED
  BY <1>2, <1>3 DEF SellSignals

\* Sells of the tranches of some indices.
LEMMA SellsOf ==
  ASSUME NEW list \in Seq(Held), OnePerIndex(list), NEW indices, NEW signals,
         signals \in [DOMAIN WithIndex(list, indices) -> SellSignals],
         \A i \in DOMAIN signals : signals[i].index = WithIndex(list, indices)[i].index
  PROVE  signals \in Seq(SellSignals) /\ SellsHeld(signals, list)
<1> DEFINE sold == WithIndex(list, indices)
<1>1. /\ sold \in Seq(Held)
      /\ \E from \in [DOMAIN sold -> DOMAIN list] :
           /\ \A j \in DOMAIN sold : sold[j] = list[from[j]] /\ list[from[j]].index \in indices
           /\ \A j, k \in DOMAIN sold : from[j] = from[k] => j = k
           /\ \A i \in DOMAIN list : list[i].index \in indices => \E j \in DOMAIN sold : from[j] = i
  BY WithIndexIs
<1> HIDE DEF sold
<1>2. PICK from \in [DOMAIN sold -> DOMAIN list] :
        /\ \A j \in DOMAIN sold : sold[j] = list[from[j]]
        /\ \A j, k \in DOMAIN sold : from[j] = from[k] => j = k
  BY <1>1
<1>3. DOMAIN sold = 1 .. Len(sold) /\ Len(sold) \in Nat /\ DOMAIN signals = DOMAIN sold
  BY <1>1 DEF sold
<1>4. \A i \in DOMAIN signals : signals[i].index = list[from[i]].index /\ from[i] \in DOMAIN list
  BY <1>2, <1>3 DEF sold
<1>5. \A i, j \in DOMAIN signals : signals[i].index = signals[j].index => i = j
  BY <1>2, <1>3, <1>4 DEF OnePerIndex
<1>6. \A i \in DOMAIN signals : signals[i].index \in Occupied(list)
  BY <1>4 DEF Occupied
<1>7. signals \in Seq(SellSignals)
  BY <1>3 DEF sold
<1> QED
  BY <1>5, <1>6, <1>7 DEF SellsHeld

LEMMA ExitsAre ==
  ASSUME NEW row \in Rows, NEW p, Folder(p), NEW past \in Memory, NEW trail \in Nat, NEW resets
  PROVE  LET out == Exits(row, p, past, trail, resets)
         IN  /\ out.signals \in Seq(SellSignals) /\ SellsHeld(out.signals, p.active)
             /\ out.highest \in Int
<1> DEFINE list == p.active
           profits == TakeProfits(row, list)
           others == Occupied(list) \ profits
           follows == Regime(row) = "BULL_TREND" /\ past.highest # None /\ others # {}
           highest == IF follows THEN Max({past.highest, row.high}) ELSE past.highest
           stop == highest - Rate(highest, trail)
           hit == Kept(list, {t \in ToSet(list) : t.index \in others /\ follows
                                             /\ stop > t.buy /\ row.low <= stop})
           stopped == IF hit = Nothing THEN {}
                      ELSE IF resets THEN {Head(hit).index} ELSE Occupied(hit)
           sold == WithIndex(list, profits \cup stopped)
           signals == [i \in DOMAIN sold |->
              SellSignal(sold[i], IF sold[i].index \in profits THEN sold[i].target ELSE stop,
                         sold[i].index \in stopped)]
           last == IF resets /\ stopped # {} THEN None ELSE highest
           out == Exits(row, p, past, trail, resets)
<1>1. out = [signals |-> signals, highest |-> last]
  BY DEF Exits
<1> HIDE DEF out
<1>2. list \in Seq(Held) /\ OnePerIndex(list)
  BY DEF Folder
<1> HIDE DEF list, profits, stopped, hit
<1>3. highest \in Int
  <2>1. past.highest \in Int /\ row.high \in Int
    BY Numbers DEF Memory, Row
  <2> HIDE DEF follows
  <2> QED
    BY <2>1, OfTwo
<1> HIDE DEF highest, others, follows
<1>4. stop \in Int
  <2>1. trail \in Int
    OBVIOUS
  <2>2. Rate(highest, trail) \in Int
    BY <1>3, <2>1, RateInt
  <2> QED
    BY <1>3, <2>2
<1> HIDE DEF stop
<1>5. last \in Int
  BY <1>3 DEF None
<1>6. sold \in Seq(Held)
  BY <1>2, WithIndexIs
<1>7. ASSUME NEW i \in DOMAIN sold
      PROVE  signals[i] \in SellSignals /\ signals[i].index = sold[i].index
  <2>1. sold[i] \in Held
    BY <1>6
  <2>2. sold[i].index \in Nat /\ sold[i].target \in Int
    BY <2>1, HeldTyped
  <2> DEFINE price == IF sold[i].index \in profits THEN sold[i].target ELSE stop
             trailing == sold[i].index \in stopped
  <2>3. price \in Int /\ trailing \in BOOLEAN
    BY <1>4, <2>2
  <2>4. signals[i] = SellSignal(sold[i], price, trailing)
    OBVIOUS
  <2> HIDE DEF price, trailing, signals, sold
  <2> QED
    BY <2>2, <2>3, <2>4 DEF SellSignal, SellSignals
<1>8. signals \in [DOMAIN sold -> SellSignals]
  BY <1>7
<1> DEFINE indices == profits \cup stopped
<1>9. \A i \in DOMAIN signals : signals[i].index = WithIndex(list, indices)[i].index
  BY <1>7
<1>10. signals \in [DOMAIN WithIndex(list, indices) -> SellSignals]
  BY <1>8
<1> HIDE DEF signals, sold, indices
<1>11. signals \in Seq(SellSignals) /\ SellsHeld(signals, list)
  BY <1>2, <1>9, <1>10, SellsOf
<1> QED
  BY <1>1, <1>5, <1>11 DEF list, out

-----------------------------------------------------------------------------
(* Entries *)

Config ==
    [base : Int, capped : BOOLEAN, macro : Nat, calmRsi : Nat, tranches : {BaseTranches, MaxTranches},
     trend : Nat, panicRsi : Nat, panicTarget : {1050, 1070}]

\* ChainDescends for a list.
GoesDown(list) ==
    \A i, j \in DOMAIN list :
      list[i].index < list[j].index /\ list[j].index < BaseTranches => list[i].buy > list[j].buy

LEMMA NoEntry == Entry(Nothing)
BY NothingIs DEF Entry

\* What a chained entry is, in each of its cases.
LEMMA ChainedEntryCases ==
  ASSUME NEW row \in Rows, NEW p, Folder(p), NEW c \in Config
  PROVE  LET e == ChainedEntry(row, p, c)
             base == Below(p.active, c.tranches)
             next == NextTranche(Occupied(base))
         IN  \/ e = Nothing
             \/ /\ Occupied(base) = {}
                /\ \E wanted, target \in Int :
                     row.close <= target /\ e = Order(row, p, 0, wanted, c.capped, target)
             \/ /\ Occupied(base) # {} /\ next < c.tranches /\ next \in Nat \ {0}
                /\ row.close <= Holding(base, next - 1).buy - ChainedDrop(row, next)
                /\ \E wanted, target \in Int :
                     row.close <= target /\ e = Order(row, p, next, wanted, c.capped, target)
<1> DEFINE e == ChainedEntry(row, p, c)
           base == Below(p.active, c.tranches)
           held == Occupied(base)
           next == NextTranche(held)
           drop == Holding(base, next - 1).buy - ChainedDrop(row, next)
           tranche(k) == Order(row, p, k, Rate(c.base, Weights[k + 1]), c.capped, Profitable(row))
           trend == Order(row, p, 0, Rate(c.base, c.trend), c.capped, 2 * row.close)
           panic == Order(row, p, 0, Rate(c.base, 350), c.capped, Rate(row.close, c.panicTarget))
<1>1. \/ e = Nothing
      \/ held = {} /\ e \in {tranche(0), trend, panic}
      \/ held # {} /\ next < c.tranches /\ row.close <= drop /\ e = tranche(next)
  BY DEF ChainedEntry
<1>2. /\ c.base \in Int /\ c.trend \in Int /\ c.panicTarget \in {1050, 1070}
      /\ c.tranches <= MaxTranches /\ c.tranches \in Nat
  BY Numbers DEF Config
<1>3. /\ Rate(c.base, c.trend) \in Int /\ Rate(c.base, 350) \in Int
      /\ \A target \in {Profitable(row), 2 * row.close, Rate(row.close, c.panicTarget)} :
           target \in Int /\ row.close <= target
  <2>1. \A b, r \in Int : Rate(b, r) \in Int /\ Rate(b, 350) \in Int
    BY RateInt
  <2>4. c.base \in Int /\ c.trend \in Int
    BY <1>2
  <2> DEFINE b == c.base
             r == c.trend
  <2>5. b \in Int /\ r \in Int
    BY <2>4
  <2> HIDE DEF b, r
  <2>6. Rate(b, r) \in Int /\ Rate(b, 350) \in Int
    BY <2>1, <2>5
  <2>2. Rate(c.base, c.trend) \in Int /\ Rate(c.base, 350) \in Int
    BY <2>6 DEF b, r
  <2>3. \A target \in {Profitable(row), 2 * row.close, Rate(row.close, c.panicTarget)} :
           target \in Int /\ row.close <= target
    BY <1>2, TargetsAbove
  <2> QED
    BY <2>2, <2>3
<1> HIDE DEF e
<1>4. CASE held = {} /\ e \in {tranche(0), trend, panic}
  <2>1. 0 \in 0 .. MaxTranches - 1
    BY Numbers
  <2>2. Rate(c.base, Weights[0 + 1]) \in Int
    BY <1>2, <2>1, WeightedInt
  <2>3. \E wanted, target \in Int :
          row.close <= target /\ e = Order(row, p, 0, wanted, c.capped, target)
    <3>1. CASE e = tranche(0)
      BY <1>3, <2>2, <3>1
    <3>2. CASE e = trend
      BY <1>3, <3>2
    <3>3. CASE e = panic
      BY <1>3, <3>3
    <3> QED
      BY <1>4, <3>1, <3>2, <3>3
  <2> QED
    BY <1>4, <2>3 DEF e
<1>5. CASE held # {} /\ next < c.tranches /\ row.close <= drop /\ e = tranche(next)
  <2>1. base \in Seq(Held)
    BY BelowIs DEF Folder
  <2>2. held \subseteq Nat /\ IsFiniteSet(held)
    <3> HIDE DEF base
    <3> QED
      BY <2>1, OccupiedTyped
  <2>3. next \in Nat \ {0}
    <3>1. held # {}
      BY <1>5
    <3> HIDE DEF held
    <3>2. Max(held) \in held
      BY <2>2, <3>1, GreatestOf
    <3>3. next = Max(held) + 1 /\ Max(held) \in Nat
      BY <2>2, <3>1, <3>2 DEF NextTranche
    <3> HIDE DEF next
    <3> QED
      BY <3>3
  <2>4. next \in 0 .. MaxTranches - 1
    <3> HIDE DEF next
    <3> QED
      BY <1>2, <1>5, <2>3, Numbers
  <2>5. Rate(c.base, Weights[next + 1]) \in Int
    <3> HIDE DEF next
    <3> QED
      BY <1>2, <2>4, WeightedInt
  <2>6. \E wanted, target \in Int :
          row.close <= target /\ e = Order(row, p, next, wanted, c.capped, target)
    BY <1>3, <1>5, <2>5
  <2> QED
    BY <1>5, <2>3, <2>6 DEF e
<1> QED
  BY <1>1, <1>4, <1>5 DEF e

LEMMA ChainedEntryIs ==
  ASSUME NEW row \in Rows, NEW p, Folder(p), NEW c \in Config
  PROVE  Entry(ChainedEntry(row, p, c))
<1> DEFINE e == ChainedEntry(row, p, c)
<1>1. \/ e = Nothing
      \/ \E k \in Nat, wanted, target \in Int :
           row.close <= target /\ e = Order(row, p, k, wanted, c.capped, target)
  BY ChainedEntryCases
<1> HIDE DEF e
<1> QED
  BY <1>1, OrderIs, NoEntry DEF e

\* A drop is a drop, unless the market does not move.
LEMMA DropIsReal ==
  ASSUME NEW row \in Rows, row.atr > 0, NEW k \in Nat \ {0} PROVE ChainedDrop(row, k) \in Nat \ {0}
<1> DEFINE m == Min({k, Len(Spacing)})
           a == row.atr
<1>1. Len(Spacing) = 4
  BY DEF Spacing
<1>2. m \in 1 .. 4
  BY <1>1, OfTwo
<1> HIDE DEF m
<1>3. Spacing[m] \in {20, 35, 55, 80}
  BY <1>2 DEF Spacing
<1>4. a \in Nat /\ a > 0
  BY Numbers DEF Row
<1> HIDE DEF a
<1>5. \A x \in {20, 35, 55, 80} : (a * x) \div 10 \in Nat \ {0}
  BY <1>4
<1> QED
  BY <1>3, <1>5 DEF ChainedDrop, m, a

LEMMA ChainedEntryDescends ==
  ASSUME NEW row \in Rows, row.atr > 0, NEW p, Folder(p), GoesDown(p.active), NEW c \in Config
  PROVE  \A i \in DOMAIN ChainedEntry(row, p, c) :
           Descends(ChainedEntry(row, p, c)[i], p.active)
<1> DEFINE e == ChainedEntry(row, p, c)
           list == p.active
           base == Below(list, c.tranches)
           held == Occupied(base)
           next == NextTranche(held)
           drop == ChainedDrop(row, next)
<1>1. \/ e = Nothing
      \/ /\ held = {}
         /\ \E wanted, target \in Int :
              row.close <= target /\ e = Order(row, p, 0, wanted, c.capped, target)
      \/ /\ held # {} /\ next < c.tranches /\ next \in Nat \ {0}
         /\ row.close <= Holding(base, next - 1).buy - drop
         /\ \E wanted, target \in Int :
              row.close <= target /\ e = Order(row, p, next, wanted, c.capped, target)
  BY ChainedEntryCases, ZenonT(30)
<1>2. /\ list \in Seq(Held) /\ OnePerIndex(list) /\ GoesDown(list)
      /\ c.tranches \in Nat /\ BaseTranches \in Nat /\ BaseTranches <= c.tranches
  <2>1. list \in Seq(Held) /\ OnePerIndex(list)
    BY DEF Folder
  <2>2. c.tranches \in {BaseTranches, MaxTranches}
    BY DEF Config
  <2>3. c.tranches \in Nat /\ BaseTranches \in Nat /\ BaseTranches <= c.tranches
    BY <2>2, Numbers
  <2> QED
    BY <2>1, <2>3
<1> HIDE DEF e, list
<1>3. /\ base \in Seq(Held)
      /\ \A j \in DOMAIN base : base[j].index < c.tranches
      /\ \A j \in DOMAIN base : \E i \in DOMAIN list : base[j] = list[i]
      /\ \A i \in DOMAIN list : list[i].index < c.tranches => \E j \in DOMAIN base : base[j] = list[i]
  <2> DEFINE n == c.tranches
  <2> HIDE DEF n
  <2>1. list \in Seq(Held)
    BY <1>2
  <2>2. /\ Below(list, n) \in Seq(Held)
        /\ \A j \in DOMAIN Below(list, n) : Below(list, n)[j].index < n
        /\ \A j \in DOMAIN Below(list, n) : \E i \in DOMAIN list : Below(list, n)[j] = list[i]
        /\ \A i \in DOMAIN list : list[i].index < n =>
             \E j \in DOMAIN Below(list, n) : Below(list, n)[j] = list[i]
    BY <2>1, BelowIs
  <2> QED
    BY <2>2 DEF n
<1> HIDE DEF base
<1>4. \A i \in DOMAIN list : list[i].index \in Nat /\ list[i].buy \in Nat
  BY <1>2, HeldTyped
<1>5. \A i \in DOMAIN list : list[i].index < BaseTranches => list[i].index \in held
  <2>1. \A i \in DOMAIN list : list[i].index < BaseTranches => list[i].index < c.tranches
    BY <1>2, <1>4
  <2> QED
    BY <1>3, <2>1 DEF Occupied
<1>6. held \subseteq Nat /\ IsFiniteSet(held)
  BY <1>3, OccupiedTyped
<1>7. CASE e = Nothing
  BY <1>7, NothingIs DEF e, list
<1>8. ASSUME held = {},
             \E wanted, target \in Int :
               row.close <= target /\ e = Order(row, p, 0, wanted, c.capped, target)
      PROVE  \A i \in DOMAIN e : Descends(e[i], list)
  BY <1>5, <1>8 DEF Descends
<1>9. ASSUME held # {}, next \in Nat \ {0},
             row.close <= Holding(base, next - 1).buy - drop,
             NEW wanted \in Int, NEW target \in Int, row.close <= target,
             e = Order(row, p, next, wanted, c.capped, target)
      PROVE  \A i \in DOMAIN e : Descends(e[i], list)
  <2>1. Max(held) \in held /\ \A x \in held : x <= Max(held)
    <3> HIDE DEF held
    <3> QED
      BY <1>6, <1>9, GreatestOf
  <2>2. next - 1 \in held /\ \A x \in held : x <= next - 1
    <3>1. held # {}
      BY <1>9
    <3> HIDE DEF held
    <3>2. next = Max(held) + 1 /\ Max(held) \in Nat
      BY <1>6, <2>1, <3>1 DEF NextTranche
    <3>3. next - 1 = Max(held)
      <4> HIDE DEF next
      <4> QED
        BY <3>2
    <3> HIDE DEF next
    <3> QED
      BY <2>1, <3>3
  <2>3. PICK j \in DOMAIN base : base[j].index = next - 1 /\ Holding(base, next - 1) = base[j]
    <3> DEFINE k == next - 1
    <3>1. k \in Occupied(base)
      BY <2>2
    <3> HIDE DEF k
    <3> QED
      BY <3>1, HoldingIs DEF k
  <2>4. PICK n \in DOMAIN list : base[j] = list[n]
    BY <1>3
  <2>5. drop \in Nat \ {0}
    <3> HIDE DEF next
    <3> QED
      BY <1>9, DropIsReal
  <2>6. row.close \in Nat
    BY Numbers DEF Row
  <2> HIDE DEF next, drop, held
  <2>7. list[n].index = next - 1 /\ list[n].buy > row.close
    BY <1>4, <1>9, <2>3, <2>4, <2>5, <2>6
  <2>8. \A i \in DOMAIN e : e[i].index = next /\ e[i].price = row.close
    <3> DEFINE capped == c.capped
               order == Order(row, p, next, wanted, capped, target)
    <3>1. next \in Nat
      BY <1>9
    <3> HIDE DEF capped
    <3>2. IsFor(order, next, row.close)
      BY <1>9, <3>1, OrderIs
    <3>3. e = order
      BY <1>9 DEF capped
    <3> HIDE DEF order
    <3> QED
      BY <3>2, <3>3 DEF IsFor
  <2>9. ASSUME next < BaseTranches, NEW i \in DOMAIN list, list[i].index < BaseTranches
        PROVE  list[i].index < next /\ list[i].buy > row.close
    <3>1. list[i].index <= next - 1 /\ list[i].index \in Nat
      BY <1>4, <1>5, <2>2, <2>9
    <3>2. CASE list[i].index = next - 1
      <4>1. i = n
        BY <1>2, <2>7, <3>2 DEF OnePerIndex
      <4> QED
        BY <1>9, <2>7, <4>1
    <3>3. CASE list[i].index # next - 1
      <4>1. list[i].index < list[n].index /\ list[n].index < BaseTranches
        BY <1>2, <1>9, <2>7, <2>9, <3>1, <3>3
      <4>2. list[i].buy > list[n].buy
        BY <1>2, <4>1 DEF GoesDown
      <4> QED
        BY <1>4, <1>9, <2>6, <2>7, <3>1, <3>3, <4>2
    <3> QED
      BY <3>2, <3>3
  <2> QED
    BY <2>8, <2>9 DEF Descends
<1> QED
  BY <1>1, <1>7, <1>8, <1>9 DEF e, list

\* An order at a floor tranche is below every base tranche by its index alone.
LEMMA OrderBelow ==
  ASSUME NEW row \in Rows, NEW p, Folder(p), NEW k, k \in Nat, k >= BaseTranches,
         NEW wanted, wanted \in Int, NEW capped, NEW target, target \in Int, row.close <= target
  PROVE  /\ Entry(Order(row, p, k, wanted, capped, target))
         /\ \A i \in DOMAIN Order(row, p, k, wanted, capped, target) :
              Descends(Order(row, p, k, wanted, capped, target)[i], p.active)
<1> DEFINE order == Order(row, p, k, wanted, capped, target)
<1>1. Entry(order) /\ IsFor(order, k, row.close)
  BY OrderIs
<1>2. BaseTranches \in Nat
  BY Numbers
<1> HIDE DEF order
<1>3. \A i \in DOMAIN order : ~(order[i].index < BaseTranches)
  BY <1>1, <1>2 DEF IsFor
<1> QED
  BY <1>1, <1>3 DEF Descends, order

\* The floor tranches held are no base tranches.
LEMMA FloorIs ==
  ASSUME NEW list \in Seq(Held),
         NEW floor, floor = WithIndex(list, Occupied(list) \ Occupied(Below(list, BaseTranches))),
         floor # Nothing
  PROVE  Max(Occupied(floor)) \in Nat /\ Max(Occupied(floor)) >= BaseTranches
<1> DEFINE base == Below(list, BaseTranches)
           left == Occupied(list) \ Occupied(base)
<1>0. BaseTranches \in Nat
  BY Numbers
<1>1. \A i \in DOMAIN list : list[i].index < BaseTranches => \E j \in DOMAIN base : base[j] = list[i]
  BY BelowIs
<1>2. \A i \in DOMAIN list : list[i].index \in Nat
  BY HeldTyped
<1> HIDE DEF base
<1>3. ASSUME NEW i \in DOMAIN list, list[i].index \in left
      PROVE  list[i].index >= BaseTranches
  <2>1. ~(list[i].index < BaseTranches)
    BY <1>1, <1>3 DEF Occupied
  <2> QED
    BY <1>0, <1>2, <2>1
<1>4. floor = WithIndex(list, left)
  BY DEF base
<1> HIDE DEF left
<1>5. /\ floor \in Seq(Held)
      /\ \A j \in DOMAIN floor : \E i \in DOMAIN list : floor[j] = list[i] /\ list[i].index \in left
  <2> DEFINE kept == WithIndex(list, left)
  <2>1. /\ kept \in Seq(Held)
        /\ \A j \in DOMAIN kept : \E i \in DOMAIN list : kept[j] = list[i] /\ list[i].index \in left
    BY WithIndexIs
  <2> HIDE DEF kept
  <2>2. floor = kept
    BY <1>4 DEF kept
  <2> QED
    BY <2>1, <2>2
<1>6. Occupied(floor) \subseteq Nat /\ IsFiniteSet(Occupied(floor))
  BY <1>5, OccupiedTyped
<1>7. \A k \in Occupied(floor) : k >= BaseTranches
  BY <1>3, <1>5 DEF Occupied
<1>8. Occupied(floor) # {}
  <2>1. floor # <<>>
    BY DEF Nothing
  <2>2. 1 \in DOMAIN floor
    BY <1>5, <2>1
  <2> QED
    BY <2>2 DEF Occupied
<1>9. Max(Occupied(floor)) \in Occupied(floor)
  BY <1>6, <1>8, GreatestOf
<1> QED
  BY <1>6, <1>7, <1>9

LEMMA FloorEntryIs ==
  ASSUME NEW row \in Rows, NEW p, Folder(p)
  PROVE  /\ Entry(FloorEntry(row, p))
         /\ \A i \in DOMAIN FloorEntry(row, p) : Descends(FloorEntry(row, p)[i], p.active)
<1> DEFINE Good(order) == Entry(order) /\ \A i \in DOMAIN order : Descends(order[i], p.active)
           e == FloorEntry(row, p)
           base == Below(p.active, BaseTranches)
           floor == WithIndex(p.active, Occupied(p.active) \ Occupied(base))
           lowest == Min({base[i].buy : i \in DOMAIN base})
           last == Max(Occupied(floor))
           share == FloorWeights[Min({last + 2 - BaseTranches, 3})]
           some == Rate(p.available, 400)
           part == Rate(p.available, share)
           above == Rate(row.close, 1070)
           profitable == Profitable(row)
           sniper == Order(row, p, BaseTranches, some, TRUE, above)
           first == Order(row, p, BaseTranches, some, TRUE, profitable)
           later == Order(row, p, last + 1, part, TRUE, profitable)
           panic == Regime(row) = "PANIC_CAPITULATION" /\ row.rsi < 28 /\ floor = Nothing
<1>1. e = CASE p.available < 25 * OneDollar -> Nothing
            [] p.available >= 25 * OneDollar /\ panic /\ sniper # Nothing -> sniper
            [] p.available >= 25 * OneDollar /\ ~(panic /\ sniper # Nothing)
                 /\ floor = Nothing /\ FloorTranches > 0
                 /\ row.close <= lowest - (row.atr * 15) \div 10 /\ row.rsi < 48 -> first
            [] p.available >= 25 * OneDollar /\ floor # Nothing
                 /\ Len(floor) < FloorTranches /\ last + 1 < BaseTranches + FloorTranches
                 /\ row.close <= Holding(floor, last).buy - 2 * row.atr -> later
            [] OTHER -> Nothing
  BY DEF FloorEntry
<1> HIDE DEF e, floor, lowest, sniper, first, later, panic
<1>2. \/ e \in {Nothing, sniper, first}
      \/ floor # Nothing /\ e = later
  BY <1>1
<1>3. p.available \in Int /\ p.active \in Seq(Held) /\ BaseTranches \in Nat
  BY Numbers DEF Folder
<1>4. some \in Int
  BY <1>3, RateInt
<1>5. above \in Int /\ row.close <= above /\ profitable \in Int /\ row.close <= profitable
  BY TargetsAbove
<1>6. ASSUME floor # Nothing PROVE last \in Nat /\ last >= BaseTranches
  BY <1>3, <1>6, FloorIs DEF floor, base
<1> HIDE DEF some, above, profitable, last
<1>7. ASSUME floor # Nothing PROVE part \in Int
  <2> DEFINE n == last + 2 - BaseTranches
  <2>1. n \in Nat /\ n >= 2
    BY <1>3, <1>6, <1>7
  <2> HIDE DEF n
  <2>2. Min({n, 3}) \in 1 .. 3
    BY <2>1, OfTwo
  <2>3. FloorWeights[Min({n, 3})] \in Int
    BY <2>2 DEF FloorWeights
  <2>4. share \in Int
    BY <2>3 DEF n
  <2> HIDE DEF share
  <2> QED
    BY <1>3, <2>4, RateInt
<1> HIDE DEF part, Good
<1>8. Good(Nothing)
  BY NothingIs, NoEntry DEF Good
<1>9. Good(sniper) /\ Good(first)
  <2>1. BaseTranches >= BaseTranches
    BY <1>3
  <2>2. Good(sniper)
    BY <1>3, <1>4, <1>5, <2>1, OrderBelow DEF sniper, Good
  <2>3. Good(first)
    BY <1>3, <1>4, <1>5, <2>1, OrderBelow DEF first, Good
  <2> QED
    BY <2>2, <2>3
<1>10. ASSUME floor # Nothing PROVE Good(later)
  <2> DEFINE k == last + 1
  <2>1. k \in Nat /\ k >= BaseTranches
    BY <1>3, <1>6, <1>10
  <2>2. later = Order(row, p, k, part, TRUE, profitable)
    BY DEF later
  <2> HIDE DEF k
  <2>3. part \in Int
    BY <1>7, <1>10
  <2> QED
    BY <1>5, <2>1, <2>2, <2>3, OrderBelow DEF Good
<1>11. Good(e)
  BY <1>2, <1>8, <1>9, <1>10
<1> QED
  BY <1>11 DEF Good, e

LEMMA QuantumTrendIs ==
  ASSUME NEW row \in Rows, NEW p, Folder(p) PROVE Entry(QuantumTrend(row, p))
<1> DEFINE wanted == Rate(QuantumBase(p), 400)
           target == Profitable(row)
<1>1. wanted \in Int
  BY BasesTyped, RateInt
<1>2. target \in Int /\ row.close <= target
  BY TargetsAbove
<1> HIDE DEF wanted, target
<1>3. Entry(Order(row, p, 0, wanted, TRUE, target))
  BY <1>1, <1>2, OrderIs
<1> QED
  BY <1>3, NoEntry DEF QuantumTrend, wanted, target

LEMMA QuantumRangeIs ==
  ASSUME NEW row \in Rows, NEW p, Folder(p) PROVE QuantumRange(row, p) \in Seq(BuySignals)
<1> DEFINE held == Occupied(p.active)
           tranche(k) == Order(row, p, k, Rate(QuantumBase(p), Weights[k + 1]), TRUE, Profitable(row))
           reached == {k \in 1 .. MaxTranches - 1 :
                      /\ k \notin held /\ k - 1 \in held
                      /\ row.close <= Holding(p.active, k - 1).buy -
                            (IF k <= 4 THEN ChainedDrop(row, k) ELSE 2 * k * row.atr)}
           first == IF 0 \notin held /\ row.close > row.macro /\ row.rsi < 48 THEN tranche(0) ELSE Nothing
           second == IF reached # {} THEN tranche(Min(reached)) ELSE Nothing
<1>1. QuantumRange(row, p) = first \o second
  BY DEF QuantumRange
<1>2. Profitable(row) \in Int /\ row.close <= Profitable(row)
  BY TargetsAbove
<1>3. ASSUME NEW k \in 0 .. MaxTranches - 1 PROVE tranche(k) \in Seq(BuySignals)
  <2> DEFINE base == QuantumBase(p)
             wanted == Rate(base, Weights[k + 1])
  <2>1. base \in Int
    BY BasesTyped
  <2> HIDE DEF base
  <2>2. wanted \in Int
    BY <2>1, WeightedInt
  <2> HIDE DEF wanted
  <2>3. k \in Nat
    OBVIOUS
  <2>4. Entry(Order(row, p, k, wanted, TRUE, Profitable(row)))
    BY <1>2, <2>2, <2>3, OrderIs, Zenon
  <2> QED
    BY <2>4 DEF Entry, wanted, base
<1>4. reached \subseteq 1 .. MaxTranches - 1 /\ MaxTranches \in Nat \ {0}
  BY Numbers
<1> HIDE DEF tranche, reached, held
<1>5. first \in Seq(BuySignals)
  <2>1. 0 \in 0 .. MaxTranches - 1
    BY <1>4
  <2> QED
    BY <1>3, <2>1, NothingIs
<1>6. second \in Seq(BuySignals)
  <2>1. CASE reached # {}
    <3>1. reached \subseteq Nat
      BY <1>4
    <3>2. PICK least \in reached : Min(reached) = least
      BY <2>1, <3>1, LeastOf
    <3>3. least \in 0 .. MaxTranches - 1
      BY <1>4
    <3>4. tranche(least) \in Seq(BuySignals)
      BY <1>3, <3>3
    <3> QED
      BY <2>1, <3>2, <3>4
  <2> QED
    BY <2>1, NothingIs
<1> HIDE DEF first, second
<1> QED
  BY <1>1, <1>5, <1>6

LEMMA QuantumEntriesAre ==
  ASSUME NEW row \in Rows, NEW p, Folder(p)
  PROVE  QuantumEntries(row, p) \in Seq(BuySignals)
<1>1. Regime(row) \in {"BULL_TREND", "RANGE", "PANIC_CAPITULATION"}
  BY DEF Regime
<1>2. QuantumTrend(row, p) \in Seq(BuySignals) /\ QuantumRange(row, p) \in Seq(BuySignals)
  BY QuantumTrendIs, QuantumRangeIs DEF Entry
<1> DEFINE wanted == Rate(QuantumBase(p), 350)
           target == Rate(row.close, 1070)
           sniper == Order(row, p, 0, wanted, TRUE, target)
<1>3. QuantumEntries(row, p) \in {QuantumTrend(row, p), QuantumRange(row, p), Nothing, sniper}
  <2> DEFINE regime == Regime(row)
             fires == 0 \notin Occupied(p.active) /\ row.rsi < 28
             trend == QuantumTrend(row, p)
             range == QuantumRange(row, p)
  <2>1. QuantumEntries(row, p) =
          CASE regime = "BULL_TREND" -> trend
            [] regime = "RANGE" -> range
            [] regime = "PANIC_CAPITULATION" -> IF fires THEN sniper ELSE Nothing
    BY DEF QuantumEntries
  <2>2. regime \in {"BULL_TREND", "RANGE", "PANIC_CAPITULATION"}
    BY <1>1
  <2> HIDE DEF regime, fires, sniper, trend, range
  <2>3. QuantumEntries(row, p) \in {trend, range, Nothing, sniper}
    BY <2>1, <2>2
  <2> QED
    BY <2>3 DEF trend, range
<1>4. wanted \in Int
  BY BasesTyped, RateInt
<1>5. target \in Int /\ row.close <= target
  BY TargetsAbove
<1> HIDE DEF wanted, target
<1>6. Entry(sniper)
  BY <1>4, <1>5, OrderIs
<1> HIDE DEF sniper
<1> QED
  BY <1>2, <1>3, <1>6, NothingIs DEF Entry

LEMMA ReloadFloorIs ==
  ASSUME NEW row \in Rows, NEW p, Folder(p) PROVE ReloadFloor(row, p) \in Seq(BuySignals)
<1> DEFINE held == Occupied(p.active)
           base == Below(p.active, BaseTranches)
           lowest == Min({base[i].buy : i \in DOMAIN base})
           spacing(k) == IF k < 3 THEN ReloadSpacing[k + 1] ELSE 30 * (k + 1)
           reached == {k \in 0 .. FloorTranches - 1 :
                         /\ BaseTranches + k \notin held
                         /\ row.close <= lowest - (row.atr * spacing(k)) \div 10}
           k == BaseTranches + Min(reached)
           order == Order(row, p, k, Rate(QuantumBase(p), 100), TRUE, Profitable(row))
<1>1. ReloadFloor(row, p) = Nothing \/ (reached # {} /\ ReloadFloor(row, p) = order)
  BY DEF ReloadFloor
<1>2. reached \subseteq Nat /\ BaseTranches \in Nat
  BY Numbers
<1> HIDE DEF reached
<1>3. ASSUME reached # {} PROVE order \in Seq(BuySignals)
  <2>1. PICK least \in reached : Min(reached) = least
    BY <1>2, <1>3, LeastOf
  <2>2. k \in Nat
    <3>1. least \in Nat
      BY <1>2
    <3>2. BaseTranches + least \in Nat
      BY <1>2, <3>1
    <3> QED
      BY <2>1, <3>2
  <2> HIDE DEF k
  <2>3. Rate(QuantumBase(p), 100) \in Int
    BY BasesTyped, RateInt
  <2>4. Profitable(row) \in Int /\ row.close <= Profitable(row)
    BY TargetsAbove
  <2> QED
    BY <2>2, <2>3, <2>4, OrderIs DEF Entry
<1> QED
  BY <1>1, <1>3, NothingIs

LEMMA GridEntryIs ==
  ASSUME NEW row \in Rows, NEW p, Folder(p), NEW reference, NEW drops
  PROVE  Entry(GridEntry(row, p, reference, drops))
<1> DEFINE reached == {k \in 1 .. MaxTranches - 1 :
                      /\ k \notin Occupied(p.active)
                      /\ row.close <= reference - Rate(reference, drops[k])
                      /\ p.available >= Rate(Budget, Weights[k + 1])}
           k == Min(reached)
           wanted == Rate(Budget, Weights[k + 1])
<1>1. \/ GridEntry(row, p, reference, drops) = Nothing
      \/ reached # {} /\ GridEntry(row, p, reference, drops)
                           = Order(row, p, k, wanted, FALSE, Profitable(row))
  BY DEF GridEntry
<1>2. reached \subseteq 1 .. MaxTranches - 1 /\ MaxTranches \in Nat \ {0} /\ Budget \in Int
  BY Numbers
<1> HIDE DEF reached
<1>3. ASSUME reached # {} PROVE Entry(Order(row, p, k, wanted, FALSE, Profitable(row)))
  <2>1. reached \subseteq Nat
    BY <1>2
  <2>2. PICK least \in reached : k = least
    BY <1>3, <2>1, LeastOf
  <2>3. k \in 0 .. MaxTranches - 1 /\ k \in Nat
    <3>1. least \in 0 .. MaxTranches - 1 /\ least \in Nat
      BY <1>2
    <3> QED
      BY <2>2, <3>1
  <2> HIDE DEF k
  <2>4. wanted \in Int
    BY <1>2, <2>3, WeightedInt
  <2>5. Profitable(row) \in Int /\ row.close <= Profitable(row)
    BY TargetsAbove
  <2> HIDE DEF wanted
  <2> QED
    BY <2>3, <2>4, <2>5, OrderIs
<1> QED
  BY <1>1, <1>3, NoEntry

-----------------------------------------------------------------------------
(* Strategies *)

LEMMA Remembers ==
  ASSUME NEW past \in Memory, NEW x \in Int
  PROVE  /\ [past EXCEPT !.highest = x] \in Memory
         /\ [past EXCEPT !.reference = x] \in Memory
         /\ \A y \in Int : [past EXCEPT !.highest = x, !.entry = y] \in Memory
         /\ past.highest \in Int /\ past.reference \in Int /\ past.entry \in Int
BY DEF Memory

LEMMA RowTyped ==
  ASSUME NEW row \in Rows
  PROVE  /\ row.low \in Int /\ row.close \in Int /\ row.high \in Int /\ row.atr \in Nat
         /\ row.close > 0
BY Numbers DEF Row

LEMMA ExitsThenEntryIs ==
  ASSUME NEW row \in Rows, NEW p, Folder(p), NEW past \in Memory, NEW trail \in Nat,
         NEW entry, Entry(entry)
  PROVE  LET out == ExitsThenEntry(row, p, past, trail, entry)
         IN  /\ Outcome(out, p.active)
             /\ out = [signals |-> out.signals, memory |-> out.memory]
             /\ (\A i \in DOMAIN entry : Descends(entry[i], p.active)) => Steps(out.signals, p.active)
<1> DEFINE exits == Exits(row, p, past, trail, TRUE)
           sells == exits.signals
           last == exits.highest
           starts == entry # Nothing /\ Regime(row) = "BULL_TREND" /\ Head(entry).index = 0
           highest == IF starts THEN row.high ELSE last
           out == ExitsThenEntry(row, p, past, trail, entry)
<1>1. out = IF sells # Nothing
            THEN [signals |-> sells, memory |-> [past EXCEPT !.highest = last]]
            ELSE [signals |-> entry, memory |-> [past EXCEPT !.highest = highest]]
  BY DEF ExitsThenEntry
<1>2. sells \in Seq(SellSignals) /\ SellsHeld(sells, p.active) /\ last \in Int
  BY ExitsAre
<1> HIDE DEF sells, last, starts, out
<1>3. highest \in Int
  BY <1>2, RowTyped
<1> HIDE DEF highest
<1>4. [past EXCEPT !.highest = last] \in Memory /\ [past EXCEPT !.highest = highest] \in Memory
  BY <1>2, <1>3, Remembers
<1>5. CASE sells # Nothing
  <2>1. out.signals = sells /\ out.memory \in Memory
        /\ out = [signals |-> out.signals, memory |-> out.memory]
    BY <1>1, <1>4, <1>5
  <2>2. sells \in Seq(Signals) /\ \A i \in DOMAIN sells : sells[i].side = "SELL"
    BY <1>2, OnlySells
  <2>3. Outcome(out, p.active)
    BY <1>2, <2>1, <2>2 DEF Outcome
  <2> QED
    BY <2>1, <2>2, <2>3 DEF out, Steps
<1>6. CASE sells = Nothing
  <2>1. out.signals = entry /\ out.memory \in Memory
        /\ out = [signals |-> out.signals, memory |-> out.memory]
    BY <1>1, <1>4, <1>6
  <2>2. entry \in Seq(Signals) /\ SellsHeld(entry, p.active)
    BY OnlyBuys DEF Entry
  <2>3. Outcome(out, p.active)
    BY <2>1, <2>2 DEF Outcome
  <2>4. \A i \in DOMAIN entry : Len(entry) = 1
    <3>1. DOMAIN entry = 1 .. Len(entry) /\ Len(entry) \in Nat /\ Len(entry) <= 1
      BY DEF Entry
    <3> QED
      BY <3>1
  <2> QED
    BY <2>1, <2>3, <2>4 DEF out, Steps
<1> QED
  BY <1>5, <1>6

\* The five chained strategies differ in what they spend and where they look.
LEMMA ChainedStrategies ==
  ASSUME NEW row \in Rows, NEW p, Folder(p), NEW past \in Memory, NEW name \in Chained
  PROVE  \E trail \in Nat : \E entry :
           /\ Entry(entry)
           /\ Evaluate(name, row, p, past) = ExitsThenEntry(row, p, past, trail, entry)
           /\ row.atr > 0 /\ GoesDown(p.active) =>
                \A i \in DOMAIN entry : Descends(entry[i], p.active)
<1> DEFINE c1 == [base |-> Budget, capped |-> FALSE, macro |-> row.ema200, calmRsi |-> 48,
                  tranches |-> MaxTranches, trend |-> 400, panicRsi |-> 25, panicTarget |-> 1070]
           c2 == [base |-> CompoundBase(p), capped |-> FALSE, macro |-> row.ema200, calmRsi |-> 48,
                  tranches |-> MaxTranches, trend |-> 400, panicRsi |-> 25, panicTarget |-> 1050]
           c3 == [base |-> CompoundBase(p), capped |-> FALSE, macro |-> row.macro, calmRsi |-> 48,
                  tranches |-> MaxTranches, trend |-> 400, panicRsi |-> 25, panicTarget |-> 1050]
           c4 == [base |-> CompoundBase(p), capped |-> TRUE, macro |-> row.macro, calmRsi |-> 48,
                  tranches |-> MaxTranches, trend |-> 400, panicRsi |-> 25, panicTarget |-> 1050]
           c5 == [base |-> EvolutionBase(p), capped |-> TRUE, macro |-> row.macro, calmRsi |-> 48,
                  tranches |-> BaseTranches, trend |-> 700, panicRsi |-> 28, panicTarget |-> 1070]
           Good(entry) ==
             /\ Entry(entry)
             /\ row.atr > 0 /\ GoesDown(p.active) =>
                  \A i \in DOMAIN entry : Descends(entry[i], p.active)
<1>1. c1 \in Config /\ c2 \in Config /\ c3 \in Config /\ c4 \in Config /\ c5 \in Config
  <2>1. /\ row.ema200 \in Nat /\ row.macro \in Nat /\ Budget \in Int
        /\ CompoundBase(p) \in Int /\ EvolutionBase(p) \in Int
    BY Numbers, BasesTyped DEF Row
  <2> QED
    BY <2>1 DEF Config
<1> HIDE DEF c1, c2, c3, c4, c5
<1>2. \A c \in Config : Good(ChainedEntry(row, p, c))
  BY ChainedEntryIs, ChainedEntryDescends
<1>3. Good(FloorEntry(row, p))
  BY FloorEntryIs
<1> HIDE DEF Good
<1>4. TrailingStop \in Nat /\ 14 \in Nat
  BY Numbers
<1> DEFINE Is(trail, entry) ==
             Evaluate(name, row, p, past) = ExitsThenEntry(row, p, past, trail, entry)
<1>5. CASE name = "btc_regime"
  <2>1. Is(TrailingStop, ChainedEntry(row, p, c1))
    BY <1>5 DEF Evaluate, ChainedRegime, c1
  <2> QED
    BY <1>1, <1>2, <1>4, <2>1 DEF Good
<1>6. CASE name = "btc_compound"
  <2>1. Is(TrailingStop, ChainedEntry(row, p, c2))
    BY <1>6 DEF Evaluate, CompoundRegime, c2
  <2> QED
    BY <1>1, <1>2, <1>4, <2>1 DEF Good
<1>7. CASE name = "btc_macro_compound"
  <2>1. Is(TrailingStop, ChainedEntry(row, p, c3))
    BY <1>7 DEF Evaluate, MacroCompoundRegime, c3
  <2> QED
    BY <1>1, <1>2, <1>4, <2>1 DEF Good
<1>8. CASE name = "btc_ultra_compound"
  <2>1. Is(TrailingStop, ChainedEntry(row, p, c4))
    BY <1>8 DEF Evaluate, UltraCompoundRegime, c4
  <2> QED
    BY <1>1, <1>2, <1>4, <2>1 DEF Good
<1>9. CASE name = "btc_quantum_evolution"
  <2> DEFINE entry == IF BaseTranches - 1 \in Occupied(p.active) THEN FloorEntry(row, p)
                      ELSE ChainedEntry(row, p, c5)
  <2>1. Is(14, entry)
    BY <1>9 DEF Evaluate, EvolutionRegime, c5
  <2>2. Good(entry)
    BY <1>1, <1>2, <1>3
  <2> HIDE DEF entry
  <2> QED
    BY <1>4, <2>1, <2>2 DEF Good
<1> QED
  BY <1>5, <1>6, <1>7, <1>8, <1>9 DEF Chained

LEMMA ExitsAndEntriesAre ==
  ASSUME NEW row \in Rows, NEW p, Folder(p), NEW past \in Memory,
         NEW entries \in Seq(BuySignals)
  PROVE  Outcome(ExitsAndEntries(row, p, past, entries), p.active)
<1> DEFINE exits == Exits(row, p, past, TrailingStop, FALSE)
           sells == exits.signals
           enters == Regime(row) = "BULL_TREND" /\ QuantumTrend(row, p) # Nothing
           highest == IF enters THEN row.high ELSE exits.highest
           out == ExitsAndEntries(row, p, past, entries)
<1>1. out = [signals |-> sells \o entries, memory |-> [past EXCEPT !.highest = highest]]
  BY DEF ExitsAndEntries
<1>2. sells \in Seq(SellSignals) /\ SellsHeld(sells, p.active) /\ exits.highest \in Int
  BY ExitsAre, Numbers
<1> HIDE DEF exits, enters, out
<1>3. highest \in Int
  BY <1>2, RowTyped
<1> HIDE DEF sells, highest
<1>4. [past EXCEPT !.highest = highest] \in Memory
  BY <1>3, Remembers
<1>5. sells \o entries \in Seq(Signals) /\ SellsHeld(sells \o entries, p.active)
  BY <1>2, Joined
<1>6. out.signals = sells \o entries /\ out.memory \in Memory
  BY <1>1, <1>4
<1>7. Outcome(out, p.active)
  BY <1>5, <1>6 DEF Outcome
<1> QED
  BY <1>7 DEF out

LEMMA QuantumStrategies ==
  ASSUME NEW row \in Rows, NEW p, Folder(p), NEW past \in Memory
  PROVE  /\ Outcome(QuantumCompoundRegime(row, p, past), p.active)
         /\ Outcome(QuantumSatoshiRegime(row, p, past), p.active)
         /\ Outcome(QuantumReloadRegime(row, p, past), p.active)
<1>1. QuantumEntries(row, p) \in Seq(BuySignals)
  BY QuantumEntriesAre
<1>2. Outcome(QuantumCompoundRegime(row, p, past), p.active)
  BY <1>1, ExitsAndEntriesAre DEF QuantumCompoundRegime
<1>3. Outcome(QuantumReloadRegime(row, p, past), p.active)
  <2> DEFINE both == QuantumEntries(row, p) \o ReloadFloor(row, p)
  <2>1. ReloadFloor(row, p) \in Seq(BuySignals)
    BY ReloadFloorIs
  <2>2. both \in Seq(BuySignals)
    BY <1>1, <2>1
  <2>3. QuantumReloadRegime(row, p, past) = ExitsAndEntries(row, p, past, both)
    BY DEF QuantumReloadRegime
  <2> HIDE DEF both
  <2> QED
    BY <2>2, <2>3, ExitsAndEntriesAre
<1>4. Outcome(QuantumSatoshiRegime(row, p, past), p.active)
  <2> DEFINE wanted == Rate(QuantumBase(p), 250)
             target == Rate(row.close, 1070)
             order == Order(row, p, SniperIndex, wanted, TRUE, target)
             fires == row.rsi < 28 /\ SniperIndex \notin Occupied(p.active)
             sniper == IF fires THEN order ELSE Nothing
             kind == Regime(row)
             trend == QuantumTrend(row, p)
             range == QuantumRange(row, p)
             regime == CASE kind = "BULL_TREND" -> trend
                         [] kind = "RANGE" -> range
                         [] OTHER -> Nothing
  <2>1. QuantumSatoshiRegime(row, p, past) = ExitsAndEntries(row, p, past, regime \o sniper)
    BY DEF QuantumSatoshiRegime
  <2>2. wanted \in Int
    BY BasesTyped, RateInt
  <2>3. target \in Int /\ row.close <= target
    BY TargetsAbove
  <2>4. SniperIndex \in Nat
    BY DEF SniperIndex
  <2> HIDE DEF wanted, target
  <2>5. order \in Seq(BuySignals)
    BY <2>2, <2>3, <2>4, OrderIs DEF Entry
  <2> HIDE DEF order, fires
  <2>6. sniper \in Seq(BuySignals)
    BY <2>5, NothingIs
  <2>7. trend \in Seq(BuySignals) /\ range \in Seq(BuySignals)
    BY QuantumTrendIs, QuantumRangeIs DEF Entry
  <2> HIDE DEF kind, trend, range, sniper
  <2>8. regime \in Seq(BuySignals)
    BY <2>7, NothingIs
  <2> HIDE DEF regime
  <2> DEFINE both == regime \o sniper
  <2>9. both \in Seq(BuySignals)
    BY <2>6, <2>8
  <2> HIDE DEF both
  <2>10. QuantumSatoshiRegime(row, p, past) = ExitsAndEntries(row, p, past, both)
    BY <2>1 DEF both
  <2> QED
    BY <2>9, <2>10, ExitsAndEntriesAre
<1> QED
  BY <1>2, <1>3, <1>4

\* The first tranche of the strategies that have no chain.
LEMMA FirstIs ==
  ASSUME NEW row \in Rows, NEW p, Folder(p)
  PROVE  Entry(Order(row, p, 0, Rate(Budget, Weights[1]), FALSE, Profitable(row)))
<1> DEFINE wanted == Rate(Budget, Weights[1])
           target == Profitable(row)
<1>1. wanted \in Int
  <2>1. 0 \in 0 .. MaxTranches - 1 /\ Budget \in Int
    BY Numbers
  <2>2. Rate(Budget, Weights[0 + 1]) \in Int
    BY <2>1, WeightedInt
  <2> QED
    BY <2>2
<1>2. target \in Int /\ row.close <= target
  BY TargetsAbove
<1> HIDE DEF wanted, target
<1>3. Entry(Order(row, p, 0, wanted, FALSE, target))
  BY <1>1, <1>2, OrderIs
<1> QED
  BY <1>3 DEF wanted, target

LEMMA NaiveGridIs ==
  ASSUME NEW row \in Rows, NEW p, Folder(p), NEW past \in Memory
  PROVE  Outcome(NaiveGrid(row, p, past), p.active)
<1> DEFINE list == p.active
           profits == TakeProfits(row, list)
           sold == WithIndex(list, profits)
           sells == [i \in DOMAIN sold |-> SellSignal(sold[i], sold[i].target, FALSE)]
           reference == IF list = Nothing \/ past.reference = None
                        THEN row.close ELSE past.reference
           order == Order(row, p, 0, Rate(Budget, Weights[1]), FALSE, Profitable(row))
           first == IF list = Nothing THEN order ELSE Nothing
           grid == GridEntry(row, p, reference, FixedDrops)
           entry == IF first # Nothing THEN first ELSE grid
           out == NaiveGrid(row, p, past)
<1>1. out = [signals |-> sells \o entry, memory |-> [past EXCEPT !.reference = reference]]
  BY DEF NaiveGrid
<1>2. list \in Seq(Held) /\ OnePerIndex(list)
  BY DEF Folder
<1>3. order \in Seq(BuySignals) /\ grid \in Seq(BuySignals)
  BY FirstIs, GridEntryIs DEF Entry
<1> HIDE DEF out, order, grid, profits
<1>4. entry \in Seq(BuySignals)
  BY <1>3, NothingIs
<1> HIDE DEF entry
<1>5. reference \in Int
  BY Remembers, RowTyped
<1> HIDE DEF reference
<1>6. [past EXCEPT !.reference = reference] \in Memory
  BY <1>5, Remembers
<1> HIDE DEF list
<1>7. \A i \in DOMAIN sold : sells[i] \in SellSignals /\ sells[i].index = sold[i].index
  <2> TAKE i \in DOMAIN sold
  <2>1. sold \in Seq(Held)
    BY <1>2, WithIndexIs
  <2>2. sold[i] \in Held
    BY <2>1
  <2>3. sold[i].index \in Nat /\ sold[i].target \in Int
    BY <2>2, HeldTyped
  <2>4. sells[i] = SellSignal(sold[i], sold[i].target, FALSE)
    OBVIOUS
  <2> HIDE DEF sells, sold
  <2> QED
    BY <2>3, <2>4 DEF SellSignal, SellSignals
<1>8. sells \in [DOMAIN sold -> SellSignals] /\ \A i \in DOMAIN sells : sells[i].index = sold[i].index
  BY <1>7
<1> HIDE DEF sells
<1>9. sells \in Seq(SellSignals) /\ SellsHeld(sells, list)
  BY <1>2, <1>8, SellsOf
<1>10. sells \o entry \in Seq(Signals) /\ SellsHeld(sells \o entry, list)
  BY <1>4, <1>9, Joined
<1>11. out.signals = sells \o entry /\ out.memory \in Memory
  BY <1>1, <1>6
<1>12. Outcome(out, list)
  BY <1>10, <1>11 DEF Outcome
<1> QED
  BY <1>12 DEF out, list

LEMMA ThreeRegimeIs ==
  ASSUME NEW row \in Rows, NEW p, Folder(p), NEW past \in Memory
  PROVE  Outcome(ThreeRegime(row, p, past), p.active)
<1> DEFINE free == p.active = Nothing
           reference == IF Regime(row) = "RANGE" /\ free THEN row.close ELSE past.reference
           volatility == Max({(row.atr * 1000) \div row.close, 15})
           step == Max({30, (volatility * 15) \div 10})
           calm == free /\ row.close >= row.ema200 /\ row.rsi < 48
           order == Order(row, p, 0, Rate(Budget, Weights[1]), FALSE, Profitable(row))
           first == IF calm THEN order ELSE Nothing
           grid == GridEntry(row, p, reference, [k \in DOMAIN GeometricSpacing |->
                                       (step * GeometricSpacing[k]) \div 10])
           some == Rate(Budget, 400)
           less == Rate(Budget, 350)
           twice == 2 * row.close
           above == Rate(row.close, 1070)
           trend == Order(row, p, 0, some, FALSE, twice)
           panic == Order(row, p, 0, less, FALSE, above)
           range == IF first # Nothing \/ reference = None THEN first ELSE grid
           entry == CASE Regime(row) = "RANGE" -> range
                      [] Regime(row) = "BULL_TREND" /\ free
                           /\ (row.close <= Rate(row.ema50, 1015) \/ row.rsi < 55) -> trend
                      [] Regime(row) = "PANIC_CAPITULATION" /\ free /\ row.rsi < 25 -> panic
                      [] OTHER -> Nothing
           out == ExitsThenEntry(row, p, past, TrailingStop, entry)
<1>1. ThreeRegime(row, p, past) = [out EXCEPT !.memory.reference = reference]
  BY DEF ThreeRegime
<1>2. Entry(order) /\ Entry(grid)
  BY FirstIs, GridEntryIs
<1>3. some \in Int /\ less \in Int
  BY RateInt, Numbers
<1>4. twice \in Int /\ row.close <= twice /\ above \in Int /\ row.close <= above
  BY TargetsAbove
<1> HIDE DEF order, grid, some, less, twice, above, calm
<1>5. Entry(trend) /\ Entry(panic)
  BY <1>3, <1>4, OrderIs
<1>6. reference \in Int
  BY Remembers, RowTyped
<1> HIDE DEF trend, panic, reference
<1>7. Entry(range)
  BY <1>2, NoEntry
<1> HIDE DEF range, free
<1>8. Entry(entry)
  BY <1>5, <1>7, NoEntry
<1> HIDE DEF entry
<1>9. Outcome(out, p.active) /\ out = [signals |-> out.signals, memory |-> out.memory]
  BY <1>8, ExitsThenEntryIs, Numbers
<1> HIDE DEF out
<1>10. out.memory \in Memory
  BY <1>9 DEF Outcome
<1>11. [out.memory EXCEPT !.reference = reference] \in Memory
  BY <1>6, <1>10, Remembers
<1> DEFINE result == [out EXCEPT !.memory.reference = reference]
<1>12. /\ result.signals = out.signals
       /\ result.memory = [out.memory EXCEPT !.reference = reference]
  BY <1>9
<1> HIDE DEF result
<1>13. Outcome(result, p.active)
  BY <1>9, <1>11, <1>12 DEF Outcome
<1> QED
  BY <1>1, <1>13 DEF result

LEMMA TrendFollowingIs ==
  ASSUME NEW row \in Rows, NEW p, Folder(p), NEW past \in Memory
  PROVE  Outcome(TrendFollowing(row, p, past), p.active)
<1> DEFINE list == p.active
           held == Head(list)
           highest == Max({past.highest, row.high})
           entry == IF past.entry = None THEN held.buy ELSE past.entry
           stop == Max({highest - (row.atr * 28) \div 10, entry - Rate(entry, 40)})
           deploy == Rate(p.available, 850)
           order == Order(row, p, 0, deploy, FALSE, 5 * row.close)
           out == TrendFollowing(row, p, past)
           sell == [signals |-> <<SellSignal(held, stop, TRUE)>>,
                    memory |-> [past EXCEPT !.highest = None, !.entry = None]]
           hold == [signals |-> Nothing,
                    memory |-> [past EXCEPT !.highest = highest, !.entry = entry]]
           buy == [signals |-> order,
                   memory |-> [past EXCEPT !.highest = row.high, !.entry = row.close]]
           wait == [signals |-> Nothing, memory |-> past]
<1>1. \/ list # Nothing /\ out \in {sell, hold}
      \/ out \in {buy, wait}
  BY DEF TrendFollowing
<1>2. list \in Seq(Held) /\ p.available \in Int
  BY DEF Folder
<1>3. past.highest \in Int /\ past.entry \in Int /\ row.high \in Int /\ row.close \in Int
      /\ row.atr \in Nat /\ None \in Int
  <2>1. None \in Int
    BY DEF None
  <2> QED
    BY <2>1, Remembers, RowTyped
<1> HIDE DEF out
<1>4. Outcome(wait, list)
  BY NothingIs, OnlyBuys DEF Outcome
<1>5. Outcome(buy, list)
  <2> DEFINE target == 5 * row.close
  <2>1. deploy \in Int
    BY <1>2, RateInt
  <2>2. target \in Int /\ row.close <= target
    BY TargetsAbove
  <2> HIDE DEF deploy, target
  <2>3. Entry(Order(row, p, 0, deploy, FALSE, target))
    BY <2>1, <2>2, OrderIs
  <2>4. order \in Seq(Signals) /\ SellsHeld(order, list)
    BY <2>3, OnlyBuys DEF Entry, target
  <2> HIDE DEF order
  <2>5. [past EXCEPT !.highest = row.high, !.entry = row.close] \in Memory
    BY <1>3, Remembers
  <2> QED
    BY <2>4, <2>5 DEF Outcome
<1>6. ASSUME list # Nothing PROVE Outcome(sell, list) /\ Outcome(hold, list)
  <2>1. held \in Held /\ 1 \in DOMAIN list /\ held = list[1]
    BY <1>2, <1>6 DEF Nothing
  <2>2. held.index \in Nat /\ held.buy \in Int /\ held.index \in Occupied(list)
    <3> HIDE DEF held
    <3> QED
      BY <2>1, HeldTyped DEF Occupied
  <2> HIDE DEF held
  <2>3. highest \in Int
    BY <1>3, OfTwo
  <2>4. entry \in Int
    BY <1>3, <2>2
  <2> HIDE DEF highest, entry
  <2>5. stop \in Int
    <3> DEFINE a == highest - (row.atr * 28) \div 10
               b == entry - Rate(entry, 40)
    <3>1. a \in Int
      BY <1>3, <2>3
    <3>2. b \in Int
      <4>0. 40 \in Int
        OBVIOUS
      <4>1. Rate(entry, 40) \in Int
        BY <2>4, <4>0, RateInt
      <4> QED
        BY <2>4, <4>1
    <3> HIDE DEF a, b
    <3>3. Max({a, b}) \in Int
      BY <3>1, <3>2, OfTwo
    <3> QED
      BY <3>3 DEF a, b
  <2> HIDE DEF stop
  <2> DEFINE s == SellSignal(held, stop, TRUE)
  <2>6. s \in SellSignals /\ s.index = held.index
    BY <2>2, <2>5 DEF SellSignal, SellSignals
  <2> HIDE DEF s
  <2>7. <<s>> \in Seq(SellSignals) /\ SellsHeld(<<s>>, list)
    <3>1. DOMAIN <<s>> = {1} /\ <<s>>[1] = s
      OBVIOUS
    <3> QED
      BY <2>2, <2>6, <3>1 DEF SellsHeld
  <2>8. <<s>> \in Seq(Signals)
    BY <2>7, OnlySells
  <2>9. /\ [past EXCEPT !.highest = None, !.entry = None] \in Memory
        /\ [past EXCEPT !.highest = highest, !.entry = entry] \in Memory
    BY <1>3, <2>3, <2>4, Remembers
  <2>10. Outcome(sell, list)
    BY <2>7, <2>8, <2>9 DEF Outcome, s
  <2>11. Outcome(hold, list)
    BY <2>9, NothingIs, OnlyBuys DEF Outcome
  <2> QED
    BY <2>10, <2>11
<1> HIDE DEF list, sell, hold, buy, wait
<1>7. Outcome(out, list)
  BY <1>1, <1>4, <1>5, <1>6
<1> QED
  BY <1>7 DEF out, list

\* Whatever the strategy: sells of tranches that are held, each once, and buys at
\* the close of the candle.
LEMMA EvaluateIs ==
  ASSUME NEW row \in Rows, NEW p, Folder(p), NEW past \in Memory, NEW name \in StrategyNames
  PROVE  Outcome(Evaluate(name, row, p, past), p.active)
<1>1. CASE name \in Chained
  <2>1. \E trail \in Nat : \E entry :
          /\ Entry(entry)
          /\ Evaluate(name, row, p, past) = ExitsThenEntry(row, p, past, trail, entry)
    BY <1>1, ChainedStrategies
  <2> QED
    BY <2>1, ExitsThenEntryIs
<1>2. CASE name = "naive_grid"
  BY <1>2, NaiveGridIs DEF Evaluate
<1>3. CASE name = "three_regime"
  BY <1>3, ThreeRegimeIs DEF Evaluate
<1>4. CASE name = "trend_following"
  BY <1>4, TrendFollowingIs DEF Evaluate
<1>5. CASE name = "btc_quantum_compound"
  BY <1>5, QuantumStrategies DEF Evaluate
<1>6. CASE name = "btc_quantum_satoshi"
  BY <1>6, QuantumStrategies DEF Evaluate
<1>7. CASE name = "btc_quantum_reload"
  BY <1>7, QuantumStrategies DEF Evaluate
<1> QED
  BY <1>1, <1>2, <1>3, <1>4, <1>5, <1>6, <1>7 DEF StrategyNames

LEMMA EvaluateDescends ==
  ASSUME NEW row \in Rows, NEW p, Folder(p), NEW past \in Memory, NEW name \in Chained,
         row.atr > 0, GoesDown(p.active)
  PROVE  Steps(Evaluate(name, row, p, past).signals, p.active)
<1>1. \E trail \in Nat : \E entry :
        /\ Entry(entry)
        /\ Evaluate(name, row, p, past) = ExitsThenEntry(row, p, past, trail, entry)
        /\ \A i \in DOMAIN entry : Descends(entry[i], p.active)
  BY ChainedStrategies
<1> QED
  BY <1>1, ExitsThenEntryIs
-----------------------------------------------------------------------------
(* The cascade *)

LEMMA Products ==
  ASSUME NEW m \in Nat, NEW a \in Int, NEW b \in Int, a <= b
  PROVE  m * a \in Int /\ m * a <= m * b
<1>1. b - a \in Nat
  OBVIOUS
<1>2. m * (b - a) \in Nat
  BY <1>1
<1>3. m * (b - a) = m * b - m * a
  OBVIOUS
<1> QED
  BY <1>2, <1>3

LEMMA Cancelled ==
  ASSUME NEW m \in Nat, NEW a \in Int, NEW b \in Int, m * a < m * b
  PROVE  a < b
<1> SUFFICES ASSUME b <= a PROVE FALSE
  OBVIOUS
<1>1. m * b \in Int /\ m * a \in Int /\ m * b <= m * a
  BY Products
<1> QED
  BY <1>1

\* Whole discounts come out of a division whole.
LEMMA QuotientMore ==
  ASSUME NEW a \in Nat, NEW more \in Nat, NEW d \in Nat, NEW lot \in Nat, lot > 0,
         more <= lot * d
  PROVE  (a + more) \div lot <= a \div lot + d
<1> DEFINE x == a \div lot
           y == (a + more) \div lot
<1>1. x \in Nat /\ lot * x <= a /\ a < lot * x + lot
  BY QuotientOf
<1>2. a + more \in Nat
  OBVIOUS
<1>3. y \in Nat /\ lot * y <= a + more
  BY <1>2, QuotientOf
<1> HIDE DEF x, y
<1>4. lot * (x + d + 1) = lot * x + lot * d + lot
  BY <1>1
<1>5. lot * y \in Int /\ lot * x \in Int /\ lot * d \in Int
  BY <1>1, <1>3
<1>6. lot * y < lot * (x + d + 1)
  BY <1>1, <1>3, <1>4, <1>5
<1>7. x + d + 1 \in Int
  BY <1>1
<1>8. y < x + d + 1
  BY <1>3, <1>6, <1>7, Cancelled
<1> QED
  BY <1>1, <1>3, <1>8 DEF x, y

LEMMA ValueInt ==
  ASSUME NEW t \in Held, NEW price, price \in Int PROVE Value(t, price) \in Int
<1> DEFINE a == t.amount * price
<1>1. a \in Int
  BY HeldTyped
<1> HIDE DEF a
<1>2. a \div Lot \in Int
  BY <1>1, Numbers
<1> QED
  BY <1>2 DEF Value, a

LEMMA ValueNat ==
  ASSUME NEW t \in Held, NEW price, price \in Nat PROVE Value(t, price) \in Nat
<1> DEFINE a == t.amount * price
<1>1. a \in Nat
  BY HeldTyped
<1> HIDE DEF a
<1>2. a \div Lot \in Nat
  BY <1>1, Numbers
<1> QED
  BY <1>2 DEF Value, a

LEMMA FloorInt == ASSUME NEW t \in Held PROVE FloorPrice(t) \in Int
<1> DEFINE b == t.buy
<1>1. b \in Int /\ MaxDiscount \in Int
  BY HeldTyped, Numbers
<1> HIDE DEF b
<1>2. Rate(b, MaxDiscount) \in Int
  BY <1>1, RateInt
<1> QED
  BY <1>1, <1>2 DEF FloorPrice, b

LEMMA GivenNat == ASSUME NEW t \in Held PROVE Given(t) \in Nat
<1> DEFINE x == t.asked - t.target
<1>1. x \in Nat
  BY HeldTyped
<1> HIDE DEF x
<1> QED
  BY <1>1, ValueNat DEF Given, x

\* A tranche with a lower target.
Same(t, u) ==
    /\ u.index = t.index /\ u.allocated = t.allocated /\ u.fee = t.fee
    /\ u.buy = t.buy /\ u.amount = t.amount /\ u.asked = t.asked

\* What the tranche takes pays for what its target is lowered by, and the floor
\* holds: the divisions round to the side of the ledger.
LEMMA LoweredIs ==
  ASSUME NEW t \in Held, NEW left \in Nat
  PROVE  LET d == Absorbed(t, left)
             u == Lowered(t, d)
         IN  /\ d \in Nat /\ d <= left
             /\ u \in Held /\ Same(t, u) /\ Given(u) <= Given(t) + d
<1> DEFINE d == Absorbed(t, left)
           u == Lowered(t, d)
           lower == (d * Lot) \div t.amount
           a == t.amount
           target == t.target
           floor == FloorPrice(t)
           asked == t.asked
           reduction == target - floor
           worth == Value(t, reduction)
<1>1. a \in Nat /\ a > 0 /\ target \in Int /\ asked \in Int /\ target <= asked /\ target >= floor
  BY HeldTyped
<1>2. floor \in Int /\ Lot \in Nat /\ Lot > 0
  BY FloorInt, Numbers
<1>3. d = IF reduction <= 0 THEN 0 ELSE Min({left, worth})
  BY DEF Absorbed
<1>4. u = [t EXCEPT !.target = target - lower]
  BY DEF Lowered
<1>5. worth = (a * reduction) \div Lot
  BY DEF Value
<1> HIDE DEF d, u, a, target, floor, asked, worth
<1>6. reduction \in Nat
  BY <1>1, <1>2
<1>7. a * reduction \in Nat
  BY <1>1, <1>6
<1>8. worth \in Nat /\ Lot * worth <= a * reduction
  BY <1>2, <1>5, <1>7, QuotientOf
<1>9. d \in Nat /\ d <= left /\ d <= worth
  <2>1. CASE reduction <= 0
    BY <1>3, <1>8, <2>1
  <2>2. CASE ~(reduction <= 0)
    BY <1>3, <1>8, <2>2, OfTwo
  <2> QED
    BY <2>1, <2>2
<1>10. Lot * d \in Nat /\ Lot * d <= Lot * worth /\ d * Lot = Lot * d
  <2>1. Lot * d <= Lot * worth
    BY <1>2, <1>8, <1>9, Products
  <2> QED
    BY <1>2, <1>9, <2>1
<1>11. lower = (Lot * d) \div a
  BY <1>10 DEF a
<1> HIDE DEF lower
<1>12. lower \in Nat /\ a * lower <= Lot * d
  BY <1>1, <1>10, <1>11, QuotientOf
<1>13. lower <= reduction
  <2>1. Lot * worth \in Int /\ a * lower \in Int
    BY <1>1, <1>2, <1>8, <1>12
  <2>2. a * lower <= a * reduction
    BY <1>7, <1>8, <1>10, <1>12, <2>1
  <2>3. a * (reduction + 1) = a * reduction + a
    BY <1>1, <1>6
  <2>4. a * lower < a * (reduction + 1)
    BY <1>1, <1>7, <2>1, <2>2, <2>3
  <2>5. reduction + 1 \in Int
    BY <1>6
  <2>6. lower < reduction + 1
    BY <1>1, <1>12, <2>4, <2>5, Cancelled
  <2> QED
    BY <1>6, <1>12, <2>6
<1> DEFINE w == target - lower
<1>14. w \in Int /\ w <= asked /\ w >= floor
  BY <1>1, <1>2, <1>12, <1>13
<1>15. u = [t EXCEPT !.target = w]
  BY <1>4
<1> HIDE DEF w
<1>16. /\ u \in [index : Nat, allocated : Nat, fee : Nat, buy : Nat, amount : Nat,
                 target : Int, asked : Int]
       /\ Same(t, u) /\ u.target = w
       /\ t.allocated > 0 /\ t.buy > 0 /\ t.amount > 0
  BY <1>14, <1>15 DEF Held, Same
<1>17. FloorPrice(u) = floor
  BY <1>16 DEF FloorPrice, Same, floor
<1>18. u \in Held
  <2>1. u.target <= u.asked /\ u.target >= FloorPrice(u)
    BY <1>14, <1>16, <1>17 DEF Same, asked
  <2>2. u.allocated > 0 /\ u.buy > 0 /\ u.amount > 0
    BY <1>16 DEF Same
  <2> QED
    BY <1>16, <2>1, <2>2 DEF Held
<1>19. Given(u) <= Given(t) + d
  <2> DEFINE before == a * (asked - target)
             more == a * lower
  <2>1. before \in Nat /\ more \in Nat
    BY <1>1, <1>12
  <2>2. a * (asked - w) = before + more
    BY <1>1, <1>12 DEF w
  <2>3. Given(t) = before \div Lot
    BY DEF Given, Value, a, asked, target
  <2>4. Given(u) = (a * (asked - w)) \div Lot
    BY <1>16 DEF Given, Value, Same, a, asked
  <2> HIDE DEF before, more
  <2>5. more <= Lot * d
    BY <1>12 DEF more
  <2>6. (before + more) \div Lot <= before \div Lot + d
    BY <1>2, <1>9, <2>1, <2>5, QuotientMore
  <2> QED
    BY <2>2, <2>3, <2>4, <2>6
<1>20. d \in Nat /\ d <= left /\ u \in Held /\ Same(t, u) /\ Given(u) <= Given(t) + d
  BY <1>9, <1>16, <1>18, <1>19
<1> QED
  BY <1>20 DEF d, u

\* What the targets of a list were lowered by.
Spent(list) == SumFunctionOnSet([i \in DOMAIN list |-> Given(list[i])], DOMAIN list)
Lowers(list, new) ==
    DOMAIN new = DOMAIN list /\ \A i \in DOMAIN list : Same(list[i], new[i])

LEMMA SpentNat == ASSUME NEW list \in Seq(Held) PROVE Spent(list) \in Nat
<1> DEFINE f == [i \in DOMAIN list |-> Given(list[i])]
<1>1. IsFiniteSet(DOMAIN list)
  BY FS_Interval
<1>2. \A i \in DOMAIN list : f[i] \in Nat
  <2>1. \A i \in DOMAIN list : list[i] \in Held
    OBVIOUS
  <2> QED
    BY <2>1, GivenNat
<1> HIDE DEF f
<1>3. SumFunctionOnSet(f, DOMAIN list) \in Nat
  BY <1>1, <1>2, SumAtLeastNothing
<1> QED
  BY <1>3 DEF Spent, f

LEMMA LowerIs ==
  ASSUME NEW list \in Seq(Held), NEW k \in DOMAIN list, NEW left \in Nat
  PROVE  LET acc == [left |-> left, tranches |-> list]
             new == Lower(k, acc)
         IN  /\ new = [left |-> new.left, tranches |-> new.tranches]
             /\ new.left \in Nat /\ new.tranches \in Seq(Held) /\ Lowers(list, new.tranches)
             /\ Spent(new.tranches) + new.left <= Spent(list) + left
<1> DEFINE t == list[k]
           d == Absorbed(t, left)
           u == Lowered(t, d)
           after == [list EXCEPT ![k] = u]
           acc == [left |-> left, tranches |-> list]
           new == Lower(k, acc)
           S == DOMAIN list
           f == [i \in S |-> Given(list[i])]
           g == [i \in S |-> Given(after[i])]
<1>1. new = [left |-> left - d, tranches |-> after]
  BY DEF Lower
<1>2. t \in Held /\ IsFiniteSet(S) /\ k \in S
  BY FS_Interval
<1>3. d \in Nat /\ d <= left /\ u \in Held /\ Same(t, u) /\ Given(u) <= Given(t) + d
  BY <1>2, LoweredIs
<1> HIDE DEF new, d, u, t
<1>4. /\ after \in Seq(Held) /\ DOMAIN after = S /\ after[k] = u
      /\ \A i \in S \ {k} : after[i] = list[i]
  BY <1>2, <1>3
<1>5. \A i \in S : Same(list[i], after[i])
  BY <1>3, <1>4 DEF Same, t
<1> HIDE DEF after
<1>6. \A i \in S : list[i] \in Held /\ after[i] \in Held
  BY <1>4
<1>7. f[k] = Given(t) /\ g[k] = Given(u) /\ IntOn(f, S) /\ IntOn(g, S) /\ Agree(f, g, S \ {k})
  BY <1>2, <1>4, <1>6, GivenNat DEF IntOn, Agree, t
<1>8. Spent(list) = SumFunctionOnSet(f, S) /\ Spent(after) = SumFunctionOnSet(g, S)
  BY <1>4 DEF Spent
<1> HIDE DEF f, g, S
<1>9. SumFunctionOnSet(g, S) = SumFunctionOnSet(f, S) - f[k] + g[k]
  BY <1>2, <1>7, SumChanged
<1>10. Given(t) \in Nat /\ Given(u) \in Nat /\ Spent(list) \in Nat
  BY <1>2, <1>3, GivenNat, SpentNat
<1>11. Spent(after) + (left - d) <= Spent(list) + left /\ left - d \in Nat
  BY <1>3, <1>7, <1>8, <1>9, <1>10
<1>12. Lowers(list, after)
  BY <1>4, <1>5 DEF Lowers, S
<1> QED
  BY <1>1, <1>4, <1>11, <1>12 DEF new

LEMMA CascadeIs ==
  ASSUME NEW list \in Seq(Held), NEW price, NEW subsidy \in Nat
  PROVE  /\ Cascade(list, price, subsidy) \in Seq(Held)
         /\ Lowers(list, Cascade(list, price, subsidy))
         /\ Spent(Cascade(list, price, subsidy)) <= Spent(list) + subsidy
<1> DEFINE Dearer(k, m) == \/ list[k].buy > list[m].buy
                           \/ list[k].buy = list[m].buy /\ k <= m
           Cheapest(S) == CHOOSE m \in S : \A k \in S : Dearer(k, m)
           hung == {k \in DOMAIN list : list[k].buy > price}
           base == [left |-> subsidy, tranches |-> list]
           X == {acc \in [left : Nat, tranches : Seq(Held)] :
                   /\ Lowers(list, acc.tranches)
                   /\ Spent(acc.tranches) + acc.left <= Spent(list) + subsidy}
           pick == [T \in (SUBSET hung) \ {{}} |-> Cheapest(T)]
           step == [k \in hung |-> [acc \in X |-> Lower(k, acc)]]
           G(jt) == jt = [T \in SUBSET hung |->
                            IF T = {} THEN base
                            ELSE LET x == Cheapest(T) IN Lower(x, jt[T \ {x}])]
           it == CHOOSE jt : G(jt)
<1>1. IsFiniteSet(hung) /\ hung \subseteq DOMAIN list
  <2>1. IsFiniteSet(DOMAIN list)
    BY FS_Interval
  <2> QED
    BY <2>1, FS_Subset
<1>2. base \in X
  <2>1. Lowers(list, list)
    BY DEF Lowers, Same
  <2> QED
    BY <2>1, SpentNat
<1>3. \A T \in (SUBSET hung) \ {{}} : Cheapest(T) \in T
  <2> SUFFICES ASSUME NEW T \in (SUBSET hung) \ {{}} PROVE Cheapest(T) \in T
    OBVIOUS
  <2> DEFINE rank == [k \in T |-> list[k].buy]
  <2>1. T # {} /\ T \subseteq 1 .. Len(list) /\ Len(list) \in Nat
    OBVIOUS
  <2>2. \A k \in T : rank[k] \in Nat
    <3>1. \A k \in T : list[k] \in Held
      BY <2>1
    <3> QED
      BY <3>1, HeldTyped
  <2>3. \E m \in T : \A k \in T : rank[k] > rank[m] \/ (rank[k] = rank[m] /\ k <= m)
    <3> HIDE DEF rank
    <3> QED
      BY <2>1, <2>2, LowestLast
  <2>4. \E m \in T : \A k \in T : Dearer(k, m)
    BY <2>3
  <2> HIDE DEF Dearer
  <2> QED
    BY <2>4
<1>4. ASSUME NEW k \in hung, NEW acc \in X PROVE Lower(k, acc) \in X
  <2> DEFINE left == acc.left
             tranches == acc.tranches
             old == [left |-> left, tranches |-> tranches]
             new == Lower(k, old)
  <2>1. /\ acc = old /\ left \in Nat /\ tranches \in Seq(Held) /\ Lowers(list, tranches)
        /\ Spent(tranches) + left <= Spent(list) + subsidy
    OBVIOUS
  <2> HIDE DEF left, tranches
  <2>2. k \in DOMAIN tranches
    BY <1>1, <2>1 DEF Lowers
  <2>3. /\ new = [left |-> new.left, tranches |-> new.tranches]
        /\ new.left \in Nat /\ new.tranches \in Seq(Held) /\ Lowers(tranches, new.tranches)
        /\ Spent(new.tranches) + new.left <= Spent(tranches) + left
    BY <2>1, <2>2, LowerIs
  <2> HIDE DEF new
  <2>4. Lowers(list, new.tranches)
    BY <2>1, <2>3 DEF Lowers, Same
  <2>5. Spent(new.tranches) \in Nat /\ Spent(tranches) \in Nat /\ Spent(list) \in Nat
    BY <2>1, <2>3, SpentNat
  <2>6. Spent(new.tranches) + new.left <= Spent(list) + subsidy
    BY <2>1, <2>3, <2>5
  <2>7. new \in X
    BY <2>3, <2>4, <2>6
  <2> QED
    BY <2>1, <2>7 DEF new
<1> HIDE DEF Cheapest, hung, X, base
<1>5. pick \in [(SUBSET hung) \ {{}} -> hung] /\ \A T \in (SUBSET hung) \ {{}} : pick[T] \in T
  BY <1>3
<1>6. step \in [hung -> [X -> X]]
  BY <1>4
<1> HIDE DEF pick, step
<1>7. PICK jt \in [SUBSET hung -> X] : Solves(jt, hung, base, pick, step)
  <2>1. IsFiniteSet(hung)
    BY <1>1
  <2>2. pick \in [(SUBSET hung) \ {{}} -> hung]
    BY <1>5
  <2>3. \A T \in (SUBSET hung) \ {{}} : pick[T] \in T
    BY <1>5
  <2> HIDE DEF G, it
  <2>4. \E jt \in [SUBSET hung -> X] : Solves(jt, hung, base, pick, step)
    BY <1>2, <1>6, <2>1, <2>2, <2>3, SetRecursion
  <2> QED
    BY <2>4
<1>8. G(jt)
  <2>1. jt[{}] = base
    BY <1>7 DEF Solves
  <2>2. ASSUME NEW T \in SUBSET hung, T # {}
        PROVE  jt[T] = LET x == Cheapest(T) IN Lower(x, jt[T \ {x}])
    <3>1. jt[T] = step[pick[T]][jt[T \ {pick[T]}]]
      BY <1>7, <2>2 DEF Solves
    <3>2. pick[T] = Cheapest(T) /\ Cheapest(T) \in hung
      BY <1>3, <2>2 DEF pick
    <3>3. jt[T \ {Cheapest(T)}] \in X
      BY <1>7
    <3> QED
      BY <3>1, <3>2, <3>3 DEF step
  <2> QED
    BY <1>7, <2>1, <2>2
<1>9. G(it)
  BY <1>8
<1> HIDE DEF it
<1>10. /\ it[{}] = base
       /\ \A T \in SUBSET hung : T # {} => it[T] = Lower(Cheapest(T), it[T \ {Cheapest(T)}])
  BY <1>9
<1> DEFINE P == {T \in SUBSET hung : it[T] \in X}
<1>11. {} \in P
  BY <1>2, <1>10
<1>12. ASSUME NEW T \in SUBSET hung, T # {}, \A x \in T : T \ {x} \in P
       PROVE  T \in P
  <2>1. Cheapest(T) \in T /\ Cheapest(T) \in hung
    BY <1>3, <1>12
  <2>2. it[T \ {Cheapest(T)}] \in X
    BY <1>12, <2>1
  <2>3. Lower(Cheapest(T), it[T \ {Cheapest(T)}]) \in X
    BY <1>4, <2>1, <2>2
  <2>4. it[T] = Lower(Cheapest(T), it[T \ {Cheapest(T)}])
    BY <1>10, <1>12
  <2> QED
    BY <1>12, <2>3, <2>4
<1>13. it[hung] \in X
  <2> HIDE DEF P
  <2>1. SUBSET hung \subseteq P
    BY <1>1, <1>11, <1>12, SmallerFirst
  <2> QED
    BY <2>1 DEF P
<1>14. Cascade(list, price, subsidy) = it[hung].tranches
  BY DEF Cascade, MapThenFoldSet, it, hung, Cheapest, base
<1> DEFINE acc == it[hung]
<1>15. acc \in X /\ Cascade(list, price, subsidy) = acc.tranches
  BY <1>13, <1>14
<1> HIDE DEF acc
<1>16. /\ acc.left \in Nat /\ acc.tranches \in Seq(Held) /\ Lowers(list, acc.tranches)
       /\ Spent(acc.tranches) + acc.left <= Spent(list) + subsidy
  BY <1>15 DEF X
<1>17. Spent(acc.tranches) \in Nat /\ Spent(list) \in Nat
  BY <1>16, SpentNat
<1>18. Spent(acc.tranches) <= Spent(list) + subsidy
  BY <1>16, <1>17
<1> QED
  BY <1>15, <1>16, <1>18

-----------------------------------------------------------------------------
(* Sums over a portfolio *)

\* m says what a tranche contributes.
Total(m, list) == SumFunctionOnSet([i \in DOMAIN list |-> m[list[i]]], DOMAIN list)

LEMMA TotalInt ==
  ASSUME NEW m \in [Held -> Int], NEW list \in Seq(Held) PROVE Total(m, list) \in Int
<1> DEFINE f == [i \in DOMAIN list |-> m[list[i]]]
<1>1. IsFiniteSet(DOMAIN list)
  BY FS_Interval
<1>2. IntOn(f, DOMAIN list)
  BY DEF IntOn
<1> HIDE DEF f
<1>3. SumFunctionOnSet(f, DOMAIN list) \in Int
  BY <1>1, <1>2, SumWithout
<1> QED
  BY <1>3 DEF Total, f

LEMMA TotalMore ==
  ASSUME NEW m \in [Held -> Int], NEW list \in Seq(Held), NEW t \in Held
  PROVE  Total(m, Append(list, t)) = Total(m, list) + m[t]
<1> DEFINE more == Append(list, t)
           n == Len(list)
           x == n + 1
           S == DOMAIN list
           f == [i \in S |-> m[list[i]]]
           g == [i \in DOMAIN more |-> m[more[i]]]
<1>1. /\ more \in Seq(Held) /\ n \in Nat /\ DOMAIN more = S \cup {x}
      /\ x \notin S /\ more[x] = t /\ \A k \in S : more[k] = list[k]
  OBVIOUS
<1>2. IsFiniteSet(S)
  BY FS_Interval
<1> HIDE DEF more, n, x
<1>3. IntOn(f, S) /\ g[x] = m[t] /\ g[x] \in Int /\ Agree(f, g, S)
  BY <1>1 DEF IntOn, Agree
<1>4. Total(m, list) = SumFunctionOnSet(f, S) /\ Total(m, more) = SumFunctionOnSet(g, S \cup {x})
  BY <1>1 DEF Total
<1> HIDE DEF f, g, S
<1>5. SumFunctionOnSet(g, S \cup {x}) = SumFunctionOnSet(f, S) + g[x]
  <2>1. IsFiniteSet(S) /\ IntOn(f, S) /\ x \notin S /\ g[x] \in Int /\ Agree(f, g, S)
    BY <1>1, <1>2, <1>3
  <2> QED
    BY <2>1, SumExtended
<1> QED
  BY <1>3, <1>4, <1>5 DEF more

\* Where a tranche goes when another one is taken out.
LEMMA TakenOut ==
  ASSUME NEW list \in Seq(Held), NEW at \in DOMAIN list
  PROVE  /\ RemoveAt(list, at) \in Seq(Held)
         /\ DOMAIN list = 1 .. Len(list) /\ Len(list) \in Nat
         /\ DOMAIN RemoveAt(list, at) = 1 .. Len(list) - 1
         /\ \A j \in 1 .. Len(list) - 1 :
              RemoveAt(list, at)[j] = list[IF j < at THEN j ELSE j + 1]
<1> DEFINE n == Len(list)
           less == RemoveAt(list, at)
<1>1. n \in Nat /\ DOMAIN list = 1 .. n /\ at \in 1 .. n
  OBVIOUS
<1>2. /\ less \in Seq(Held) /\ Len(less) = n - 1
      /\ \A j \in 1 .. n - 1 : less[j] = IF j < at THEN list[j] ELSE list[j + 1]
  BY <1>1, RemovedAt
<1> HIDE DEF less, n
<1>3. DOMAIN less = 1 .. n - 1
  BY <1>2
<1>4. \A j \in 1 .. n - 1 : less[j] = list[IF j < at THEN j ELSE j + 1]
  BY <1>2
<1> QED
  BY <1>1, <1>2, <1>3, <1>4 DEF less, n

LEMMA TotalLess ==
  ASSUME NEW m \in [Held -> Int], NEW list \in Seq(Held), NEW at \in DOMAIN list
  PROVE  Total(m, RemoveAt(list, at)) = Total(m, list) - m[list[at]]
<1> DEFINE n == Len(list)
           less == RemoveAt(list, at)
           f == [i \in DOMAIN list |-> m[list[i]]]
           g == [i \in DOMAIN less |-> m[less[i]]]
<1>1. /\ n \in Nat /\ DOMAIN list = 1 .. n /\ at \in 1 .. n /\ DOMAIN less = 1 .. n - 1
      /\ \A j \in 1 .. n - 1 : less[j] = list[IF j < at THEN j ELSE j + 1]
  BY TakenOut
<1> HIDE DEF less, n
<1>2. IntOn(f, 1 .. n) /\ f[at] = m[list[at]]
  BY <1>1 DEF IntOn
<1>3. \A j \in 1 .. n - 1 : g[j] = f[IF j < at THEN j ELSE j + 1]
  <2> SUFFICES ASSUME NEW j \in 1 .. n - 1 PROVE g[j] = f[IF j < at THEN j ELSE j + 1]
    OBVIOUS
  <2> DEFINE k == IF j < at THEN j ELSE j + 1
  <2>1. k \in 1 .. n
    BY <1>1
  <2>2. less[j] = list[k]
    BY <1>1
  <2> HIDE DEF k
  <2>3. g[j] = m[less[j]] /\ f[k] = m[list[k]]
    BY <1>1, <2>1
  <2> QED
    BY <2>2, <2>3 DEF k
<1>4. Total(m, list) = SumFunctionOnSet(f, 1 .. n) /\ Total(m, less) = SumFunctionOnSet(g, 1 .. n - 1)
  BY <1>1 DEF Total
<1> HIDE DEF f, g
<1>5. SumFunctionOnSet(g, 1 .. n - 1) = SumFunctionOnSet(f, 1 .. n) - f[at]
  <2>1. /\ n \in Nat /\ at \in 1 .. n /\ IntOn(f, 1 .. n)
        /\ \A j \in 1 .. n - 1 : g[j] = f[IF j < at THEN j ELSE j + 1]
    BY <1>1, <1>2, <1>3
  <2> QED
    BY <2>1, SumRemovedAt
<1> QED
  BY <1>2, <1>4, <1>5 DEF less

Costs == [t \in Held |-> CostBasis(t)]
Givens == [t \in Held |-> Given(t)]

LEMMA CostsAre ==
  /\ Costs \in [Held -> Int]
  /\ \A t \in Held : Costs[t] = CostBasis(t) /\ CostBasis(t) > 0
  /\ \A list \in Seq(Held) : Invested(list) = Total(Costs, list)
<1>1. \A t \in Held : CostBasis(t) \in Int /\ CostBasis(t) > 0
  BY HeldTyped DEF CostBasis
<1>2. Costs \in [Held -> Int] /\ \A t \in Held : Costs[t] = CostBasis(t)
  BY <1>1 DEF Costs
<1>3. ASSUME NEW list \in Seq(Held) PROVE Invested(list) = Total(Costs, list)
  <2>1. \A i \in DOMAIN list : list[i] \in Held
    OBVIOUS
  <2>2. [i \in DOMAIN list |-> CostBasis(list[i])] = [i \in DOMAIN list |-> Costs[list[i]]]
    BY <1>2, <2>1
  <2> QED
    BY <2>2 DEF Invested, Total
<1> QED
  BY <1>1, <1>2, <1>3

LEMMA GivensAre ==
  /\ Givens \in [Held -> Int]
  /\ \A t \in Held : Givens[t] = Given(t) /\ Given(t) \in Nat
  /\ \A list \in Seq(Held) : Spent(list) = Total(Givens, list)
<1>1. \A t \in Held : Given(t) \in Nat
  BY GivenNat
<1>2. Givens \in [Held -> Int] /\ \A t \in Held : Givens[t] = Given(t)
  BY <1>1 DEF Givens
<1>3. ASSUME NEW list \in Seq(Held) PROVE Spent(list) = Total(Givens, list)
  <2>1. \A i \in DOMAIN list : list[i] \in Held
    OBVIOUS
  <2>2. [i \in DOMAIN list |-> Given(list[i])] = [i \in DOMAIN list |-> Givens[list[i]]]
    BY <1>2, <2>1
  <2> QED
    BY <2>2 DEF Spent, Total
<1> QED
  BY <1>1, <1>2, <1>3

\* A cascade does not touch what the tranches cost.
LEMMA InvestedSame ==
  ASSUME NEW list \in Seq(Held), NEW new \in Seq(Held), Lowers(list, new)
  PROVE  Invested(new) = Invested(list)
<1> DEFINE f == [i \in DOMAIN list |-> CostBasis(list[i])]
           g == [i \in DOMAIN list |-> CostBasis(new[i])]
<1>1. f = g
  BY DEF Lowers, Same, CostBasis
<1>2. DOMAIN new = DOMAIN list
  BY DEF Lowers
<1> HIDE DEF f
<1> QED
  BY <1>1, <1>2 DEF Invested, f

-----------------------------------------------------------------------------
(* Steps *)

LEMMA WhatIsLeft ==
  ASSUME NEW list \in Seq(Held), NEW at \in DOMAIN list, NEW new, Lowers(RemoveAt(list, at), new)
  PROVE  /\ \A j \in DOMAIN new : \E k \in DOMAIN list \ {at} : Same(list[k], new[j])
         /\ \A k \in DOMAIN list \ {at} : \E j \in DOMAIN new : Same(list[k], new[j])
         /\ OnePerIndex(list) => OnePerIndex(new)
<1> DEFINE n == Len(list)
           less == RemoveAt(list, at)
           from == [j \in 1 .. n - 1 |-> IF j < at THEN j ELSE j + 1]
<1>1. /\ n \in Nat /\ DOMAIN list = 1 .. n /\ at \in 1 .. n /\ DOMAIN less = 1 .. n - 1
      /\ \A j \in 1 .. n - 1 : less[j] = list[IF j < at THEN j ELSE j + 1]
  BY TakenOut
<1> HIDE DEF less, n
<1>2. DOMAIN new = 1 .. n - 1 /\ \A j \in 1 .. n - 1 : Same(less[j], new[j])
  BY <1>1 DEF Lowers, less
<1>3. \A j \in 1 .. n - 1 : from[j] \in 1 .. n /\ from[j] # at /\ less[j] = list[from[j]]
  BY <1>1
<1>4. \A i, j \in 1 .. n - 1 : from[i] = from[j] => i = j
  BY <1>1
<1>5. \A k \in (1 .. n) \ {at} : \E j \in 1 .. n - 1 : from[j] = k
  <2> SUFFICES ASSUME NEW k \in (1 .. n) \ {at} PROVE \E j \in 1 .. n - 1 : from[j] = k
    OBVIOUS
  <2>1. CASE k < at
    <3>1. k \in 1 .. n - 1 /\ from[k] = k
      BY <1>1, <2>1
    <3> QED
      BY <3>1
  <2>2. CASE ~(k < at)
    <3>1. k - 1 \in 1 .. n - 1 /\ from[k - 1] = k
      BY <1>1, <2>2
    <3> QED
      BY <3>1
  <2> QED
    BY <2>1, <2>2
<1> HIDE DEF from
<1>6. \A j \in 1 .. n - 1 : Same(list[from[j]], new[j])
  BY <1>2, <1>3
<1>7. \A j \in DOMAIN new : \E k \in DOMAIN list \ {at} : Same(list[k], new[j])
  BY <1>1, <1>2, <1>3, <1>6
<1>8. \A k \in DOMAIN list \ {at} : \E j \in DOMAIN new : Same(list[k], new[j])
  BY <1>1, <1>2, <1>5, <1>6
<1>9. OnePerIndex(list) => OnePerIndex(new)
  <2> SUFFICES ASSUME OnePerIndex(list), NEW i \in 1 .. n - 1, NEW j \in 1 .. n - 1,
                      new[i].index = new[j].index
               PROVE  i = j
    BY <1>2 DEF OnePerIndex
  <2>1. list[from[i]].index = list[from[j]].index
    BY <1>6 DEF Same
  <2>2. from[i] = from[j]
    BY <1>1, <1>3, <2>1 DEF OnePerIndex
  <2> QED
    BY <1>4, <2>2
<1> QED
  BY <1>7, <1>8, <1>9

LEMMA FirstSignal ==
  ASSUME Fits, queue # Nothing
  PROVE  /\ Head(queue) = queue[1] /\ 1 \in DOMAIN queue /\ Head(queue) \in Signals
         /\ Tail(queue) \in Seq(Signals)
         /\ \A i \in DOMAIN Tail(queue) :
              i + 1 \in DOMAIN queue /\ Tail(queue)[i] = queue[i + 1] /\ i + 1 # 1
         /\ Len(queue) = 1 => DOMAIN Tail(queue) = {}
<1>1. queue \in Seq(Signals) /\ queue # <<>>
  BY DEF Fits, Nothing
<1>2. Len(queue) \in Nat \ {0} /\ DOMAIN queue = 1 .. Len(queue)
  BY <1>1
<1>3. Head(queue) = queue[1] /\ 1 \in DOMAIN queue /\ Head(queue) \in Signals
  BY <1>1, <1>2
<1>4. Tail(queue) \in Seq(Signals) /\ Len(Tail(queue)) = Len(queue) - 1
      /\ \A i \in DOMAIN Tail(queue) : Tail(queue)[i] = queue[i + 1]
  BY <1>1
<1>5. DOMAIN Tail(queue) = 1 .. Len(queue) - 1
  BY <1>4
<1>6. \A i \in 1 .. Len(queue) - 1 : i + 1 \in 1 .. Len(queue) /\ i + 1 # 1
  BY <1>2
<1>7. Len(queue) = 1 => 1 .. Len(queue) - 1 = {}
  BY <1>2
<1> QED
  BY <1>2, <1>3, <1>4, <1>5, <1>6, <1>7

\* The other sells are of other tranches.
LEMMA SellsStayHeld ==
  ASSUME Fits, queue # Nothing, NEW list,
         \A i \in DOMAIN active :
           \/ Head(queue).side = "SELL" /\ active[i].index = Head(queue).index
           \/ active[i].index \in Occupied(list)
  PROVE  SellsHeld(Tail(queue), list)
<1> DEFINE rest == Tail(queue)
<1>1. /\ Head(queue) = queue[1] /\ 1 \in DOMAIN queue
      /\ \A i \in DOMAIN rest : i + 1 \in DOMAIN queue /\ rest[i] = queue[i + 1] /\ i + 1 # 1
      /\ rest \in Seq(Signals)
  BY FirstSignal
<1>2. DOMAIN rest \subseteq Int
  BY <1>1
<1> HIDE DEF rest
<1>3. SellsHeld(queue, active)
  BY DEF Fits
<1>4. ASSUME NEW i \in DOMAIN rest, rest[i].side = "SELL"
      PROVE  /\ rest[i].index \in Occupied(list)
             /\ \A j \in DOMAIN rest :
                  rest[j].side = "SELL" /\ rest[j].index = rest[i].index => i = j
  <2>1. /\ rest[i].index \in Occupied(active)
        /\ \A j \in DOMAIN queue :
             queue[j].side = "SELL" /\ queue[j].index = rest[i].index => i + 1 = j
    BY <1>1, <1>3, <1>4 DEF SellsHeld
  <2>2. ~(queue[1].side = "SELL" /\ queue[1].index = rest[i].index)
    BY <1>1, <2>1
  <2>3. PICK k \in DOMAIN active : active[k].index = rest[i].index
    BY <2>1 DEF Occupied
  <2>4. rest[i].index \in Occupied(list)
    BY <1>1, <2>2, <2>3
  <2>5. ASSUME NEW j \in DOMAIN rest, rest[j].side = "SELL", rest[j].index = rest[i].index
        PROVE  i = j
    <3>1. i + 1 = j + 1
      BY <1>1, <2>1, <2>5
    <3> QED
      BY <1>2, <3>1
  <2> QED
    BY <2>4, <2>5
<1> QED
  BY <1>4 DEF SellsHeld, rest

LEMMA WhatSells ==
  ASSUME Fits, ExecuteSell
  PROVE  \E at \in DOMAIN active, revenue \in Int, subsidy \in Nat :
           /\ active[at].index = Head(queue).index
           /\ available' = available + revenue
           /\ profit' = profit + (revenue - CostBasis(active[at]))
           /\ granted' = granted + subsidy
           /\ RemoveAt(active, at) \in Seq(Held) /\ active' \in Seq(Held)
           /\ Lowers(RemoveAt(active, at), active')
           /\ Spent(active') <= Spent(RemoveAt(active, at)) + subsidy
<1> DEFINE at == CHOOSE i \in DOMAIN active : active[i].index = Head(queue).index
           sold == active[at]
           price == ExecutedPrice(Head(queue))
           gross == Value(sold, price)
           revenue == gross - Rate(gross, FeeRate)
           gain == revenue - CostBasis(sold)
           subsidy == IF gain > 0 THEN Rate(gain, Recycled) ELSE 0
           left == RemoveAt(active, at)
<1>1. /\ available' = available + revenue
      /\ profit' = profit + gain
      /\ active' = Cascade(left, sold.buy, subsidy)
      /\ granted' = granted + subsidy
      /\ queue # Nothing /\ Head(queue).side = "SELL" /\ Head(queue).index \in Occupied(active)
  BY DEF ExecuteSell
<1>2. active \in Seq(Held)
  BY DEF Fits
<1>3. at \in DOMAIN active /\ active[at].index = Head(queue).index
  BY <1>1 DEF Occupied
<1> HIDE DEF at
<1>4. sold \in Held
  BY <1>2, <1>3
<1>5. price \in Int
  <2> DEFINE s == Head(queue)
  <2>1. s \in Signals /\ s.side = "SELL"
    BY <1>1, FirstSignal
  <2> HIDE DEF s
  <2>2. s.price \in Int
    BY <2>1 DEF Signals, SellSignals, BuySignals
  <2> DEFINE q == s.price
  <2>3. q \in Int
    BY <2>2
  <2> HIDE DEF q
  <2>4. Rate(q, Slippage) \in Int
    BY <2>3, Numbers, RateInt
  <2> QED
    BY <2>3, <2>4 DEF ExecutedPrice, q, s
<1> HIDE DEF price, sold
<1>6. gross \in Int
  BY <1>4, <1>5, ValueInt
<1> HIDE DEF gross
<1>7. revenue \in Int
  <2>1. Rate(gross, FeeRate) \in Int
    BY <1>6, Numbers, RateInt
  <2> QED
    BY <1>6, <2>1
<1> HIDE DEF revenue
<1>8. gain \in Int
  <2>1. CostBasis(sold) \in Int
    BY <1>4, HeldTyped DEF CostBasis
  <2> QED
    BY <1>7, <2>1
<1>9. gain = revenue - CostBasis(active[at])
  BY DEF sold
<1> HIDE DEF gain
<1>10. subsidy \in Nat
  <2>1. CASE gain > 0
    <3>1. gain \in Nat /\ Recycled \in Nat
      BY <1>8, <2>1, Numbers
    <3>2. Rate(gain, Recycled) \in Nat
      BY <3>1, RateNat
    <3> QED
      BY <2>1, <3>2
  <2> QED
    BY <2>1
<1> HIDE DEF subsidy
<1>11. left \in Seq(Held)
  BY <1>2, <1>3, TakenOut
<1>12. active' \in Seq(Held) /\ Lowers(left, active') /\ Spent(active') <= Spent(left) + subsidy
  <2> HIDE DEF left
  <2> QED
    BY <1>1, <1>10, <1>11, CascadeIs
<1> QED
  BY <1>1, <1>3, <1>7, <1>9, <1>10, <1>11, <1>12

LEMMA WhatBuys ==
  ASSUME Fits, ExecuteBuy
  PROVE  \E t \in Held :
           /\ t.index = Head(queue).index /\ t.buy = Head(queue).price
           /\ t.index \notin Occupied(active) /\ Given(t) = 0
           /\ active' = Append(active, t) /\ available' = available - CostBasis(t)
<1> DEFINE s == Head(queue)
           cost == s.cost
           price == s.price
           target == s.target
           fee == Rate(cost, FeeRate)
           amount == (cost * Lot) \div price
           t == [index |-> s.index, allocated |-> cost, fee |-> fee, buy |-> price,
                 amount |-> amount, target |-> target, asked |-> target]
<1>1. /\ available' = available - (cost + fee) /\ active' = Append(active, t)
      /\ s.index \notin Occupied(active) /\ cost > 0 /\ queue # Nothing /\ s.side = "BUY"
  BY DEF ExecuteBuy, CanBuy
<1>2. s \in BuySignals
  BY <1>1, FirstSignal DEF Signals, SellSignals
<1> HIDE DEF s
<1>3. /\ s.index \in Nat /\ price \in Nat /\ price > 0 /\ price <= Lot /\ target \in Int
      /\ price <= target /\ cost \in Nat /\ cost > 0 /\ Lot \in Nat
  BY <1>1, <1>2, Numbers DEF BuySignals
<1> HIDE DEF price, cost, target
<1>4. fee \in Nat
  BY <1>3, Numbers, RateNat
<1>5. amount \in Nat /\ amount > 0
  <2> DEFINE worth == cost * Lot
  <2>1. worth \in Nat
    BY <1>3
  <2>2. worth >= price
    <3>1. Lot * 1 <= Lot * cost
      BY <1>3, Products
    <3> QED
      BY <1>3, <3>1
  <2> HIDE DEF worth
  <2>3. worth \div price \in Nat /\ worth < price * (worth \div price) + price
    BY <1>3, <2>1, QuotientOf
  <2> DEFINE q == worth \div price
  <2>4. q \in Nat /\ worth < price * q + price
    BY <2>3
  <2> HIDE DEF q
  <2>5. q # 0
    BY <1>3, <2>1, <2>2, <2>4
  <2> QED
    BY <2>4, <2>5 DEF q, worth
<1> HIDE DEF fee, amount
<1>6. FloorPrice(t) <= price
  <2>1. Rate(price, MaxDiscount) \in Nat
    BY <1>3, Numbers, RateNat
  <2>2. FloorPrice(t) = price - Rate(price, MaxDiscount)
    BY DEF FloorPrice
  <2> QED
    BY <1>3, <2>1, <2>2
<1>7. t \in Held
  <2>1. FloorPrice(t) \in Int
    <3>1. Rate(price, MaxDiscount) \in Nat
      BY <1>3, Numbers, RateNat
    <3> QED
      BY <1>3, <3>1 DEF FloorPrice
  <2>2. t.target >= FloorPrice(t)
    BY <1>3, <1>6, <2>1
  <2>3. /\ t \in [index : Nat, allocated : Nat, fee : Nat, buy : Nat, amount : Nat,
                  target : Int, asked : Int]
        /\ t.allocated > 0 /\ t.buy > 0 /\ t.amount > 0 /\ t.target <= t.asked
    BY <1>3, <1>4, <1>5
  <2> HIDE DEF t
  <2> QED
    BY <2>2, <2>3 DEF Held
<1>8. Given(t) = 0
  <2>1. t.amount * (t.asked - t.target) = 0
    BY <1>3, <1>5
  <2>2. 0 \div Lot = 0
    BY Numbers
  <2> HIDE DEF t
  <2> QED
    BY <2>1, <2>2 DEF Given, Value
<1>9. CostBasis(t) = cost + fee
  BY DEF CostBasis
<1>10. t.index = s.index /\ t.buy = price
  OBVIOUS
<1> HIDE DEF t
<1> QED
  BY <1>1, <1>7, <1>8, <1>9, <1>10 DEF s, price
\* The signals of one side, at places of their own.
LEMMA ThoseAre ==
  ASSUME NEW signals \in Seq(Signals), NEW side
  PROVE  /\ Those(signals, side) \in Seq(Signals)
         /\ \E from \in [DOMAIN Those(signals, side) -> DOMAIN signals] :
              /\ \A j \in DOMAIN Those(signals, side) :
                   Those(signals, side)[j] = signals[from[j]] /\ signals[from[j]].side = side
              /\ \A j, k \in DOMAIN Those(signals, side) : from[j] = from[k] => j = k
<1> DEFINE keep == {s \in ToSet(signals) : s.side = side}
           kept == Those(signals, side)
<1>1. kept \in Seq(Signals) /\ \E from : Picks(from, signals, kept, keep)
  BY KeptElements DEF Those
<1>2. \A s \in keep : s.side = side
  OBVIOUS
<1> HIDE DEF keep, kept
<1>3. PICK from : Picks(from, signals, kept, keep)
  BY <1>1
<1>4. /\ from \in [DOMAIN kept -> DOMAIN signals]
      /\ \A j \in DOMAIN kept : kept[j] = signals[from[j]] /\ signals[from[j]] \in keep
      /\ \A j, k \in DOMAIN kept : from[j] = from[k] => j = k
  BY <1>3 DEF Picks
<1>5. \A j \in DOMAIN kept : kept[j] = signals[from[j]] /\ signals[from[j]].side = side
  BY <1>2, <1>4
<1>6. /\ kept \in Seq(Signals)
      /\ \E to \in [DOMAIN kept -> DOMAIN signals] :
           /\ \A j \in DOMAIN kept : kept[j] = signals[to[j]] /\ signals[to[j]].side = side
           /\ \A j, k \in DOMAIN kept : to[j] = to[k] => j = k
  BY <1>1, <1>4, <1>5
<1> QED
  BY <1>6 DEF kept

\* The loops over the sells and over the buys take nothing away that matters.
LEMMA QueueIs ==
  ASSUME NEW signals \in Seq(Signals), NEW list, SellsHeld(signals, list)
  PROVE  LET all == Those(signals, "SELL") \o Those(signals, "BUY")
         IN  /\ all \in Seq(Signals) /\ SellsHeld(all, list)
             /\ Steps(signals, list) => Steps(all, list)
<1> DEFINE sells == Those(signals, "SELL")
           buys == Those(signals, "BUY")
           all == sells \o buys
           n == Len(sells)
           m == Len(buys)
<1>1. /\ sells \in Seq(Signals)
      /\ \E from \in [DOMAIN sells -> DOMAIN signals] :
           /\ \A j \in DOMAIN sells : sells[j] = signals[from[j]] /\ signals[from[j]].side = "SELL"
           /\ \A j, k \in DOMAIN sells : from[j] = from[k] => j = k
  BY ThoseAre
<1>2. /\ buys \in Seq(Signals)
      /\ \E from \in [DOMAIN buys -> DOMAIN signals] :
           /\ \A j \in DOMAIN buys : buys[j] = signals[from[j]] /\ signals[from[j]].side = "BUY"
           /\ \A j, k \in DOMAIN buys : from[j] = from[k] => j = k
  BY ThoseAre
<1> HIDE DEF sells, buys
<1>3. PICK from \in [DOMAIN sells -> DOMAIN signals] :
        /\ \A j \in DOMAIN sells : sells[j] = signals[from[j]] /\ signals[from[j]].side = "SELL"
        /\ \A j, k \in DOMAIN sells : from[j] = from[k] => j = k
  BY <1>1
<1>4. PICK to \in [DOMAIN buys -> DOMAIN signals] :
        /\ \A j \in DOMAIN buys : buys[j] = signals[to[j]] /\ signals[to[j]].side = "BUY"
        /\ \A j, k \in DOMAIN buys : to[j] = to[k] => j = k
  BY <1>2
<1>5. /\ n \in Nat /\ m \in Nat /\ DOMAIN sells = 1 .. n /\ DOMAIN buys = 1 .. m
      /\ all \in Seq(Signals) /\ DOMAIN all = 1 .. n + m /\ Len(all) = n + m
  BY <1>1, <1>2
<1>6. /\ \A i \in 1 .. n : all[i] = sells[i]
      /\ \A i \in 1 .. n + m : ~(i <= n) => i - n \in 1 .. m /\ all[i] = buys[i - n]
  BY <1>1, <1>2, <1>5
<1> HIDE DEF all, n, m
<1>7. \A i \in DOMAIN all : all[i].side = "SELL" => i \in DOMAIN sells /\ all[i] = sells[i]
  <2> SUFFICES ASSUME NEW i \in 1 .. n + m, all[i].side = "SELL"
               PROVE  i \in DOMAIN sells /\ all[i] = sells[i]
    BY <1>5
  <2>1. i <= n
    <3> SUFFICES ASSUME ~(i <= n) PROVE FALSE
      OBVIOUS
    <3>1. i - n \in DOMAIN buys /\ all[i] = buys[i - n]
      BY <1>5, <1>6
    <3>2. all[i].side = "BUY"
      BY <1>4, <3>1
    <3> QED
      BY <3>2
  <2>2. i \in 1 .. n
    BY <1>5, <2>1
  <2> QED
    BY <1>5, <1>6, <2>2
<1>8. SellsHeld(all, list)
  <2> SUFFICES ASSUME NEW i \in DOMAIN all, all[i].side = "SELL"
               PROVE  /\ all[i].index \in Occupied(list)
                      /\ \A j \in DOMAIN all :
                           all[j].side = "SELL" /\ all[j].index = all[i].index => i = j
    BY DEF SellsHeld
  <2>1. \A j \in DOMAIN all : all[j].side = "SELL" =>
          j \in DOMAIN sells /\ all[j] = signals[from[j]] /\ from[j] \in DOMAIN signals
    BY <1>3, <1>7
  <2>2. /\ signals[from[i]].index \in Occupied(list)
        /\ \A j \in DOMAIN signals :
             signals[j].side = "SELL" /\ signals[j].index = signals[from[i]].index => from[i] = j
    BY <2>1 DEF SellsHeld
  <2>3. ASSUME NEW j \in DOMAIN all, all[j].side = "SELL", all[j].index = all[i].index
        PROVE  i = j
    <3>1. from[i] = from[j]
      BY <2>1, <2>2, <2>3
    <3> QED
      BY <1>3, <2>1, <2>3, <3>1
  <2> QED
    BY <2>1, <2>2, <2>3
<1>9. ASSUME Steps(signals, list) PROVE Steps(all, list)
  <2> SUFFICES ASSUME NEW i \in DOMAIN all, all[i].side = "BUY"
               PROVE  Len(all) = 1 /\ Descends(all[i], list)
    BY DEF Steps
  <2>1. ~(i <= n)
    <3> SUFFICES ASSUME i <= n PROVE FALSE
      OBVIOUS
    <3>1. i \in 1 .. n
      BY <1>5
    <3>2. all[i].side = "SELL"
      BY <1>3, <1>5, <1>6, <3>1
    <3> QED
      BY <3>2
  <2> DEFINE k == i - n
  <2>2. k \in 1 .. m /\ all[i] = buys[k]
    BY <1>5, <1>6, <2>1
  <2> HIDE DEF k
  <2>3. all[i] = signals[to[k]] /\ to[k] \in DOMAIN signals /\ signals[to[k]].side = "BUY"
    BY <1>4, <1>5, <2>2
  <2>4. Len(signals) = 1 /\ Descends(all[i], list)
    BY <1>9, <2>3 DEF Steps
  <2>5. DOMAIN signals = {1}
    BY <2>4
  <2>6. n = 0
    <3> SUFFICES ASSUME n # 0 PROVE FALSE
      OBVIOUS
    <3>1. 1 \in DOMAIN sells
      BY <1>5
    <3>2. signals[from[1]].side = "SELL" /\ from[1] = to[k]
      BY <1>3, <2>3, <2>5, <3>1
    <3> QED
      BY <2>3, <3>2
  <2>7. m = 1
    <3> SUFFICES ASSUME m # 1 PROVE FALSE
      OBVIOUS
    <3>1. 1 \in 1 .. m /\ 2 \in 1 .. m
      BY <1>5, <2>2
    <3>2. to[1] = 1 /\ to[2] = 1
      BY <1>4, <1>5, <2>5, <3>1
    <3>3. 1 = 2
      BY <1>4, <1>5, <3>1, <3>2
    <3> QED
      BY <3>3
  <2> QED
    BY <1>5, <2>4, <2>6, <2>7
<1> QED
  BY <1>5, <1>8, <1>9 DEF all, sells, buys

LEMMA PortfolioFolds == Fits => Folder(Portfolio)
BY DEF Fits, Folder, Portfolio

\* What a candle queues.
LEMMA WhatQueues ==
  ASSUME Fits, NEW row \in Rows, EvaluateCandle(row)
  PROVE  /\ memory' \in Memory /\ queue' \in Seq(Signals) /\ SellsHeld(queue', active)
         /\ strategy \in Chained /\ row.atr > 0 /\ GoesDown(active) => Steps(queue', active)
<1> DEFINE out == Evaluate(strategy, row, Portfolio, memory)
           p == Portfolio
<1>1. /\ queue' = Those(out.signals, "SELL") \o Those(out.signals, "BUY")
      /\ memory' = out.memory
  BY DEF EvaluateCandle
<1>2. Folder(p) /\ memory \in Memory /\ strategy \in StrategyNames
  BY PortfolioFolds DEF Fits
<1>3. p.active = active
  BY DEF Portfolio
<1> HIDE DEF p
<1>4. Outcome(Evaluate(strategy, row, p, memory), p.active)
  BY <1>2, EvaluateIs
<1>5. out.memory \in Memory /\ out.signals \in Seq(Signals) /\ SellsHeld(out.signals, active)
  BY <1>3, <1>4 DEF Outcome, p
<1>6. ASSUME strategy \in Chained, row.atr > 0, GoesDown(active)
      PROVE  Steps(out.signals, active)
  <2>1. GoesDown(p.active)
    BY <1>3, <1>6
  <2>2. Steps(Evaluate(strategy, row, p, memory).signals, p.active)
    BY <1>2, <1>6, <2>1, EvaluateDescends
  <2> QED
    BY <1>3, <2>2 DEF p
<1> HIDE DEF out
<1> DEFINE signals == out.signals
           all == Those(signals, "SELL") \o Those(signals, "BUY")
<1>7. signals \in Seq(Signals) /\ SellsHeld(signals, active)
  BY <1>5
<1> HIDE DEF signals
<1>8. all \in Seq(Signals) /\ SellsHeld(all, active) /\ (Steps(signals, active) => Steps(all, active))
  BY <1>7, QueueIs
<1>9. queue' = all
  BY <1>1 DEF signals
<1> HIDE DEF all
<1> QED
  BY <1>1, <1>5, <1>6, <1>8, <1>9 DEF signals

-----------------------------------------------------------------------------
(* Fits is inductive *)

LEMMA InitFits == Init => Fits
<1> SUFFICES ASSUME Init PROVE Fits
  OBVIOUS
<1>1. strategy \in StrategyNames
  BY Numbers DEF Init
<1>2. memory \in Memory
  BY DEF Init, Forgotten, Memory, None
<1>3. queue \in Seq(Signals) /\ active \in Seq(Held) /\ DOMAIN queue = {} /\ DOMAIN active = {}
  BY DEF Init, Nothing
<1>4. OnePerIndex(active) /\ SellsHeld(queue, active)
  BY <1>3 DEF OnePerIndex, SellsHeld
<1>5. {available, budget, deposited, profit} \subseteq Int /\ granted \in Nat
  BY Numbers DEF Init
<1> QED
  BY <1>1, <1>2, <1>3, <1>4, <1>5 DEF Fits

LEMMA InjectFits == ASSUME Fits, NEW amount \in Injections, Inject(amount) PROVE Fits'
<1>1. amount \in Nat
  BY Numbers
<1>2. {available, budget, deposited, profit}' \subseteq Int
  BY <1>1 DEF Fits, Inject
<1>3. UNCHANGED <<strategy, memory, queue, active, granted>>
  BY DEF Inject
<1> QED
  BY <1>2, <1>3 DEF Fits, OnePerIndex, SellsHeld, Occupied

LEMMA EvaluateFits == ASSUME Fits, NEW row \in Rows, EvaluateCandle(row) PROVE Fits'
<1>1. UNCHANGED <<strategy, portfolioVars, granted>>
  BY DEF EvaluateCandle
<1>2. memory' \in Memory /\ queue' \in Seq(Signals) /\ SellsHeld(queue', active)
  BY WhatQueues
<1>3. SellsHeld(queue', active')
  BY <1>1, <1>2 DEF portfolioVars
<1>4. active' \in Seq(Held) /\ OnePerIndex(active')
  BY <1>1 DEF Fits, portfolioVars
<1> QED
  BY <1>1, <1>2, <1>3, <1>4 DEF Fits, portfolioVars, OnePerIndex, SellsHeld, Occupied

LEMMA SellFits == ASSUME Fits, ExecuteSell PROVE Fits'
<1>1. PICK at \in DOMAIN active, revenue \in Int, subsidy \in Nat :
        /\ active[at].index = Head(queue).index
        /\ available' = available + revenue
        /\ profit' = profit + (revenue - CostBasis(active[at]))
        /\ granted' = granted + subsidy
        /\ active' \in Seq(Held) /\ Lowers(RemoveAt(active, at), active')
  BY WhatSells
<1>2. /\ UNCHANGED <<strategy, memory, budget, deposited>> /\ queue' = Tail(queue)
      /\ queue # Nothing /\ Head(queue).side = "SELL"
  BY DEF ExecuteSell
<1>3. active \in Seq(Held) /\ OnePerIndex(active)
  BY DEF Fits
<1>4. /\ OnePerIndex(active')
      /\ \A k \in DOMAIN active \ {at} : \E j \in DOMAIN active' : Same(active[k], active'[j])
  BY <1>1, <1>3, WhatIsLeft
<1>5. SellsHeld(queue', active')
  <2>1. \A i \in DOMAIN active :
          \/ Head(queue).side = "SELL" /\ active[i].index = Head(queue).index
          \/ active[i].index \in Occupied(active')
    BY <1>1, <1>2, <1>4 DEF Same, Occupied
  <2> QED
    BY <1>2, <2>1, SellsStayHeld
<1>6. {available, budget, deposited, profit}' \subseteq Int /\ granted' \in Nat
  <2>1. active[at] \in Held
    BY <1>3
  <2>2. CostBasis(active[at]) \in Int
    BY <2>1, HeldTyped DEF CostBasis
  <2>3. {available, budget, deposited, profit} \subseteq Int /\ granted \in Nat
    BY DEF Fits
  <2> DEFINE cost == CostBasis(active[at])
  <2>4. /\ cost \in Int /\ available' = available + revenue /\ granted' = granted + subsidy
        /\ profit' = profit + (revenue - cost) /\ budget' = budget /\ deposited' = deposited
    BY <1>1, <1>2, <2>2
  <2> HIDE DEF cost
  <2> QED
    BY <2>3, <2>4
<1>7. queue' \in Seq(Signals)
  BY <1>2, FirstSignal
<1>8. strategy' \in StrategyNames /\ memory' \in Memory
  BY <1>2 DEF Fits
<1> QED
  BY <1>1, <1>4, <1>5, <1>6, <1>7, <1>8 DEF Fits, OnePerIndex, SellsHeld, Occupied

\* A new tranche at the end of the list.
LEMMA OneMore ==
  ASSUME NEW list \in Seq(Held), NEW t \in Held
  PROVE  /\ Append(list, t) \in Seq(Held)
         /\ \A i \in DOMAIN list : i \in DOMAIN Append(list, t) /\ Append(list, t)[i] = list[i]
         /\ \A i \in DOMAIN Append(list, t) :
              \/ i \in DOMAIN list /\ Append(list, t)[i] = list[i]
              \/ i = Len(list) + 1 /\ Append(list, t)[i] = t
OBVIOUS

LEMMA BuyFits == ASSUME Fits, ExecuteBuy PROVE Fits'
<1>1. PICK t \in Held :
        /\ t.index \notin Occupied(active)
        /\ active' = Append(active, t) /\ available' = available - CostBasis(t)
  BY WhatBuys
<1>2. /\ UNCHANGED <<strategy, memory, budget, deposited, profit, granted>> /\ queue' = Tail(queue)
      /\ queue # Nothing
  BY DEF ExecuteBuy
<1>3. active \in Seq(Held) /\ OnePerIndex(active)
  BY DEF Fits
<1>4. /\ active' \in Seq(Held)
      /\ \A i \in DOMAIN active : i \in DOMAIN active' /\ active'[i] = active[i]
      /\ \A i \in DOMAIN active' :
           \/ i \in DOMAIN active /\ active'[i] = active[i]
           \/ i = Len(active) + 1 /\ active'[i] = t
  BY <1>1, <1>3, OneMore
<1>5. OnePerIndex(active')
  BY <1>1, <1>3, <1>4 DEF OnePerIndex, Occupied
<1>6. SellsHeld(queue', active')
  <2>1. \A i \in DOMAIN active : active[i].index \in Occupied(active')
    BY <1>4 DEF Occupied
  <2> QED
    BY <1>2, <2>1, SellsStayHeld
<1>7. {available, budget, deposited, profit}' \subseteq Int /\ granted' \in Nat
  <2>1. CostBasis(t) \in Int
    BY HeldTyped DEF CostBasis
  <2>2. {available, budget, deposited, profit} \subseteq Int /\ granted \in Nat
    BY DEF Fits
  <2> DEFINE cost == CostBasis(t)
  <2>3. cost \in Int /\ available' = available - cost
    BY <1>1, <2>1
  <2> HIDE DEF cost
  <2> QED
    BY <1>2, <2>2, <2>3
<1>8. queue' \in Seq(Signals)
  BY <1>2, FirstSignal
<1>9. strategy' \in StrategyNames /\ memory' \in Memory
  BY <1>2 DEF Fits
<1> QED
  BY <1>4, <1>5, <1>6, <1>7, <1>8, <1>9 DEF Fits, OnePerIndex, SellsHeld, Occupied

LEMMA RejectFits == ASSUME Fits, RejectBuy PROVE Fits'
<1>1. /\ UNCHANGED <<strategy, memory, portfolioVars, granted>> /\ queue' = Tail(queue)
      /\ queue # Nothing
  BY DEF RejectBuy
<1>2. queue' \in Seq(Signals)
  BY <1>1, FirstSignal
<1>3. SellsHeld(queue', active')
  <2>1. \A i \in DOMAIN active : active[i].index \in Occupied(active')
    BY <1>1 DEF Occupied, portfolioVars
  <2> QED
    BY <1>1, <2>1, SellsStayHeld
<1>4. active' \in Seq(Held) /\ OnePerIndex(active')
  BY <1>1 DEF Fits, portfolioVars
<1> QED
  BY <1>1, <1>2, <1>3, <1>4 DEF Fits, portfolioVars, OnePerIndex, SellsHeld, Occupied

LEMMA StutterFits == ASSUME Fits, UNCHANGED vars PROVE Fits'
BY DEF Fits, vars, portfolioVars, OnePerIndex, SellsHeld, Occupied

LEMMA StepFits == Fits /\ [Next]_vars => Fits'
BY InjectFits, EvaluateFits, SellFits, BuyFits, RejectFits, StutterFits DEF Next

LEMMA AlwaysFits == Spec => []Fits
BY InitFits, StepFits, PTL DEF Spec
-----------------------------------------------------------------------------
(* The properties *)

\* No cascade pushes a target below the floor of its tranche, whatever the gains
\* and however many tranches share one (engine.py:114-136).
THEOREM FloorsHold == Spec => []TargetsKeepTheirFloor
<1>1. Fits => TargetsKeepTheirFloor
  <2> SUFFICES ASSUME Fits, NEW i \in DOMAIN active
               PROVE  active[i].target >= FloorPrice(active[i])
    BY DEF TargetsKeepTheirFloor
  <2>1. active[i] \in Held
    BY DEF Fits
  <2> QED
    BY <2>1, HeldTyped
<1> QED
  BY <1>1, AlwaysFits, PTL

LEMMA StepSpends == Fits /\ SubsidyIsPaidFor /\ [Next]_vars => SubsidyIsPaidFor'
<1> SUFFICES ASSUME Fits, SubsidyIsPaidFor, [Next]_vars PROVE SubsidyIsPaidFor'
  OBVIOUS
<1>1. Spent(active) <= granted /\ active \in Seq(Held) /\ granted \in Nat
  BY DEF SubsidyIsPaidFor, Spent, Fits
<1>2. ASSUME Spent(active') <= granted' PROVE SubsidyIsPaidFor'
  BY <1>2 DEF SubsidyIsPaidFor, Spent, Given, Value
<1>3. CASE ExecuteSell
  <2>1. PICK at \in DOMAIN active, subsidy \in Nat :
          /\ granted' = granted + subsidy
          /\ RemoveAt(active, at) \in Seq(Held) /\ active' \in Seq(Held)
          /\ Spent(active') <= Spent(RemoveAt(active, at)) + subsidy
    BY <1>3, WhatSells
  <2>2. /\ Total(Givens, RemoveAt(active, at)) = Total(Givens, active) - Givens[active[at]]
        /\ active[at] \in Held
    BY <1>1, GivensAre, TotalLess
  <2> DEFINE before == Spent(active)
             left == Spent(RemoveAt(active, at))
             after == Spent(active')
             given == Given(active[at])
  <2>3. left = before - given /\ given \in Nat
    BY <1>1, <2>1, <2>2, GivensAre
  <2>4. before \in Nat /\ after \in Nat
    BY <1>1, <2>1, SpentNat
  <2>5. before <= granted /\ after <= left + subsidy
    BY <1>1, <2>1
  <2> HIDE DEF before, left, after, given
  <2>6. after <= granted'
    BY <1>1, <2>1, <2>3, <2>4, <2>5
  <2> QED
    BY <1>2, <2>6 DEF after
<1>4. CASE ExecuteBuy
  <2>1. PICK t \in Held : Given(t) = 0 /\ active' = Append(active, t)
    BY <1>4, WhatBuys
  <2>2. Total(Givens, Append(active, t)) = Total(Givens, active) + Givens[t]
    BY <1>1, GivensAre, TotalMore
  <2>3. active' \in Seq(Held)
    BY <1>1, <2>1, OneMore
  <2> DEFINE before == Spent(active)
             after == Spent(active')
  <2>4. after = before + 0
    BY <1>1, <2>1, <2>2, <2>3, GivensAre
  <2>5. before \in Nat /\ before <= granted
    BY <1>1, SpentNat
  <2>6. granted' = granted
    BY <1>4 DEF ExecuteBuy
  <2> HIDE DEF before, after
  <2>7. after <= granted'
    BY <2>4, <2>5, <2>6
  <2> QED
    BY <1>2, <2>7 DEF after
<1>5. CASE \/ \E amount \in Injections : Inject(amount)
           \/ \E row \in Rows : EvaluateCandle(row)
           \/ RejectBuy \/ UNCHANGED vars
  <2>1. active' = active /\ granted' = granted
    BY <1>5 DEF Inject, EvaluateCandle, RejectBuy, vars, portfolioVars
  <2> QED
    BY <1>1, <1>2, <2>1
<1> QED
  BY <1>3, <1>4, <1>5 DEF Next

\* What the targets were lowered by, over all cascades, is covered by the
\* fractions of the gains set aside for it: a subsidy is spent once, and no
\* rounding takes more than there is (engine.py:114-136).
THEOREM SubsidiesArePaid == Spec => []SubsidyIsPaidFor
<1>1. Init => SubsidyIsPaidFor
  <2> SUFFICES ASSUME Init PROVE SubsidyIsPaidFor
    OBVIOUS
  <2>1. DOMAIN active = {} /\ granted = 0
    BY DEF Init, Nothing
  <2> QED
    BY <2>1, SumOfNone DEF SubsidyIsPaidFor
<1> QED
  BY <1>1, StepSpends, AlwaysFits, PTL DEF Spec

-----------------------------------------------------------------------------
(* The books *)

LEMMA InvestedNext == Invested(active)' = Invested(active')
BY DEF Invested, CostBasis

LEMMA MoneyTyped == Fits => {available, Invested(active), profit, deposited} \subseteq Int
<1> SUFFICES ASSUME Fits PROVE {available, Invested(active), profit, deposited} \subseteq Int
  OBVIOUS
<1>1. active \in Seq(Held)
  BY DEF Fits
<1>2. Invested(active) \in Int
  BY <1>1, CostsAre, TotalInt
<1> QED
  BY <1>2 DEF Fits

LEMMA MoneyTypedNext == ASSUME Fits' PROVE Books!TypeOK'
<1>1. active' \in Seq(Held)
  BY DEF Fits
<1>2. Invested(active') \in Int
  BY <1>1, CostsAre, TotalInt
<1>3. {available', Invested(active'), profit', deposited', 0} \subseteq Int
  BY <1>2 DEF Fits
<1> QED
  BY <1>3, InvestedNext DEF Books!TypeOK

LEMMA InjectBooks == ASSUME Fits, NEW amount \in Injections, Inject(amount) PROVE Books!Next
<1>1. amount \in Nat /\ amount > 0
  BY Numbers
<1>2. /\ available' = available + amount /\ deposited' = deposited + amount
      /\ profit' = profit /\ active' = active
  BY DEF Inject
<1>3. available \in Int /\ deposited \in Int
  BY DEF Fits
<1>4. Invested(active)' = Invested(active)
  BY <1>2, InvestedNext
<1>5. deposited' > deposited /\ available' = available + (deposited' - deposited)
  BY <1>1, <1>2, <1>3
<1> QED
  BY <1>2, <1>4, <1>5, InjectFits, MoneyTypedNext DEF Books!Deposit, Books!Next

LEMMA SellBooks == ASSUME Fits, ExecuteSell PROVE Books!Next
<1>1. PICK at \in DOMAIN active, revenue \in Int :
        /\ available' = available + revenue
        /\ profit' = profit + (revenue - CostBasis(active[at]))
        /\ RemoveAt(active, at) \in Seq(Held) /\ active' \in Seq(Held)
        /\ Lowers(RemoveAt(active, at), active')
  BY WhatSells
<1> DEFINE cost == CostBasis(active[at])
           before == Invested(active)
           after == Invested(active')
<1>2. active \in Seq(Held) /\ available \in Int /\ profit \in Int
  BY DEF Fits
<1>3. cost > 0 /\ cost \in Int
  <2>1. active[at] \in Held
    BY <1>2
  <2> QED
    BY <2>1, CostsAre, HeldTyped DEF CostBasis
<1>4. after = before - cost /\ before \in Int
  <2>1. Total(Costs, RemoveAt(active, at)) = Total(Costs, active) - Costs[active[at]]
    BY <1>2, CostsAre, TotalLess
  <2>2. Invested(active') = Invested(RemoveAt(active, at))
    BY <1>1, InvestedSame
  <2>3. active[at] \in Held
    BY <1>2
  <2>4. Invested(active) \in Int
    BY MoneyTyped
  <2> QED
    BY <1>1, <1>2, <2>1, <2>2, <2>3, <2>4, CostsAre
<1>5. UNCHANGED deposited
  BY DEF ExecuteSell
<1>6. Books!Sell
  <2>1. available' = available + revenue /\ profit' = profit + (revenue - cost)
    BY <1>1
  <2> HIDE DEF cost, before, after
  <2>2. before - after > 0 /\ profit' = profit + ((available' - available) - (before - after))
    BY <1>1, <1>2, <1>3, <1>4, <2>1
  <2>3. Invested(active)' = after
    BY InvestedNext DEF after
  <2> QED
    BY <1>5, <2>2, <2>3 DEF Books!Sell, before
<1> QED
  BY <1>6, SellFits, MoneyTypedNext DEF Books!Next

LEMMA BuyBooks == ASSUME Fits, ExecuteBuy PROVE Books!Next
<1>1. PICK t \in Held : active' = Append(active, t) /\ available' = available - CostBasis(t)
  BY WhatBuys
<1> DEFINE cost == CostBasis(t)
           before == Invested(active)
           after == Invested(active')
<1>2. active \in Seq(Held) /\ available \in Int
  BY DEF Fits
<1>3. cost > 0 /\ cost \in Int
  BY CostsAre, HeldTyped DEF CostBasis
<1>4. after = before + cost /\ before \in Int
  <2>1. Total(Costs, Append(active, t)) = Total(Costs, active) + Costs[t]
    BY <1>2, CostsAre, TotalMore
  <2>2. Append(active, t) \in Seq(Held)
    BY <1>2, OneMore
  <2>3. Invested(active) \in Int
    BY MoneyTyped
  <2> QED
    BY <1>1, <1>2, <2>1, <2>2, <2>3, CostsAre
<1>5. UNCHANGED <<deposited, profit>>
  BY DEF ExecuteBuy
<1>6. Books!Buy
  <2>1. available' = available - cost
    BY <1>1
  <2> HIDE DEF cost, before, after
  <2>2. after > before /\ available' = available - (after - before)
    BY <1>2, <1>3, <1>4, <2>1
  <2>3. Invested(active)' = after
    BY InvestedNext DEF after
  <2> QED
    BY <1>5, <2>2, <2>3 DEF Books!Buy, before
<1> QED
  BY <1>6, BuyFits, MoneyTypedNext DEF Books!Next

LEMMA StepIsBooking == Fits /\ [Next]_vars => [Books!Next]_(Books!vars)
<1> SUFFICES ASSUME Fits, [Next]_vars PROVE [Books!Next]_(Books!vars)
  OBVIOUS
<1>1. CASE (\E row \in Rows : EvaluateCandle(row)) \/ RejectBuy \/ UNCHANGED vars
  <2>1. UNCHANGED <<active, available, profit, deposited>>
    BY <1>1 DEF EvaluateCandle, RejectBuy, vars, portfolioVars
  <2>2. Invested(active)' = Invested(active)
    BY <2>1, InvestedNext
  <2> QED
    BY <2>1, <2>2 DEF Books!vars
<1> QED
  BY <1>1, InjectBooks, SellBooks, BuyBooks DEF Next

\* Every step of the engine is one booking of the ledger or none, with the fees
\* in the cost of a tranche (engine.py:71-112, 145-174).
THEOREM SimulationImplementsBooks == Spec => ImplementsBooks
<1>1. Init => Books!Init
  <2> SUFFICES ASSUME Init PROVE Books!Init
    OBVIOUS
  <2>1. DOMAIN active = {}
    BY DEF Init, Nothing
  <2>2. Invested(active) = 0
    BY <2>1, SumOfNone DEF Invested
  <2> QED
    BY <2>2 DEF Init, Books!Init
<1> QED
  BY <1>1, StepIsBooking, AlwaysFits, PTL DEF Spec, ImplementsBooks, Books!Spec

-----------------------------------------------------------------------------
(* The chain *)

Chain == ChainReady /\ (strategy \in Chained => GoesDown(active))

LEMMA InitChain == Init => Chain
<1> SUFFICES ASSUME Init PROVE Chain
  OBVIOUS
<1>1. DOMAIN active = {} /\ DOMAIN queue = {}
  BY DEF Init, Nothing
<1> QED
  BY <1>1 DEF Chain, ChainReady, Steps, GoesDown

\* A chained strategy that sells queues no buy.
LEMMA QueueEnds ==
  ASSUME Fits, ChainReady, strategy \in Chained, queue # Nothing
  PROVE  \A list : Steps(Tail(queue), list)
<1>1. /\ 1 \in DOMAIN queue /\ (Len(queue) = 1 => DOMAIN Tail(queue) = {})
      /\ \A i \in DOMAIN Tail(queue) : i + 1 \in DOMAIN queue /\ Tail(queue)[i] = queue[i + 1]
  BY FirstSignal
<1>2. \A i \in DOMAIN queue : queue[i].side = "BUY" => Len(queue) = 1
  BY DEF ChainReady, Steps
<1>3. \A i \in DOMAIN Tail(queue) : Tail(queue)[i].side # "BUY"
  BY <1>1, <1>2
<1> QED
  BY <1>3 DEF Steps

LEMMA StepGoesDown ==
  ASSUME \A row \in Rows : row.atr > 0
  PROVE  Fits /\ Chain /\ [Next]_vars => Chain'
<1> SUFFICES ASSUME Fits, Chain, [Next]_vars, strategy' \in Chained
             PROVE  Steps(queue', active') /\ GoesDown(active')
  BY DEF Chain, ChainReady, Steps, GoesDown, Descends
<1>1. strategy' = strategy
  BY DEF Next, Inject, EvaluateCandle, ExecuteSell, ExecuteBuy, RejectBuy, vars
<1>2. strategy \in Chained /\ ChainReady /\ Steps(queue, active) /\ GoesDown(active)
  BY <1>1 DEF Chain, ChainReady
<1>3. active \in Seq(Held)
  BY DEF Fits
<1>4. CASE (\E amount \in Injections : Inject(amount)) \/ UNCHANGED vars
  <2>1. queue' = queue /\ active' = active
    BY <1>4 DEF Inject, vars, portfolioVars
  <2> QED
    BY <1>2, <2>1
<1>5. ASSUME NEW row \in Rows, EvaluateCandle(row)
      PROVE  Steps(queue', active') /\ GoesDown(active')
  <2>1. active' = active
    BY <1>5 DEF EvaluateCandle, portfolioVars
  <2>2. row.atr > 0
    OBVIOUS
  <2>3. Steps(queue', active)
    BY <1>2, <1>5, <2>2, WhatQueues
  <2> QED
    BY <1>2, <2>1, <2>3
<1>6. CASE ExecuteSell
  <2>1. queue' = Tail(queue) /\ queue # Nothing
    BY <1>6 DEF ExecuteSell
  <2>2. Steps(queue', active')
    BY <1>2, <2>1, QueueEnds
  <2>3. PICK at \in DOMAIN active : Lowers(RemoveAt(active, at), active')
    BY <1>6, WhatSells
  <2>4. \A j \in DOMAIN active' : \E k \in DOMAIN active \ {at} : Same(active[k], active'[j])
    BY <1>3, <2>3, WhatIsLeft
  <2>5. GoesDown(active')
    <3> SUFFICES ASSUME NEW i \in DOMAIN active', NEW j \in DOMAIN active',
                        active'[i].index < active'[j].index, active'[j].index < BaseTranches
                 PROVE  active'[i].buy > active'[j].buy
      BY DEF GoesDown
    <3>1. PICK k \in DOMAIN active : Same(active[k], active'[i])
      BY <2>4
    <3>2. PICK m \in DOMAIN active : Same(active[m], active'[j])
      BY <2>4
    <3>3. active[k].index < active[m].index /\ active[m].index < BaseTranches
      BY <3>1, <3>2 DEF Same
    <3>4. active[k].buy > active[m].buy
      BY <1>2, <3>3 DEF GoesDown
    <3> QED
      BY <3>1, <3>2, <3>4 DEF Same
  <2> QED
    BY <2>2, <2>5
<1>7. CASE ExecuteBuy
  <2>1. queue' = Tail(queue) /\ queue # Nothing /\ Head(queue).side = "BUY"
    BY <1>7 DEF ExecuteBuy
  <2>2. Steps(queue', active')
    BY <1>2, <2>1, QueueEnds
  <2>3. PICK t \in Held :
          /\ t.index = Head(queue).index /\ t.buy = Head(queue).price
          /\ active' = Append(active, t)
    BY <1>7, WhatBuys
  <2>4. \A i \in DOMAIN active' : active'[i] = t \/ \E k \in DOMAIN active : active'[i] = active[k]
    BY <1>3, <2>3, OneMore
  <2>5. t.index < BaseTranches => \A k \in DOMAIN active : active[k].index < BaseTranches =>
          active[k].index < t.index /\ active[k].buy > t.buy
    <3>1. Head(queue) = queue[1] /\ 1 \in DOMAIN queue
      BY <2>1, FirstSignal
    <3>2. Descends(queue[1], active)
      BY <1>2, <2>1, <3>1 DEF Steps
    <3> QED
      BY <2>3, <3>1, <3>2 DEF Descends
  <2>6. GoesDown(active')
    <3> SUFFICES ASSUME NEW i \in DOMAIN active', NEW j \in DOMAIN active',
                        active'[i].index < active'[j].index, active'[j].index < BaseTranches
                 PROVE  active'[i].buy > active'[j].buy
      BY DEF GoesDown
    <3>0. t.index \in Nat /\ \A k \in DOMAIN active : active[k].index \in Nat
      BY <1>3, HeldTyped
    <3>8. BaseTranches \in Nat
      BY Numbers
    <3>1. CASE active'[j] = t
      <4>1. active'[i] # t
        BY <3>0, <3>1
      <4>2. PICK k \in DOMAIN active : active'[i] = active[k]
        BY <2>4, <4>1
      <4> QED
        BY <2>5, <3>0, <3>1, <3>8, <4>2
    <3>2. CASE active'[j] # t
      <4>1. PICK k \in DOMAIN active : active'[j] = active[k]
        BY <2>4, <3>2
      <4>2. active'[i] # t
        <5> SUFFICES ASSUME active'[i] = t PROVE FALSE
          OBVIOUS
        <5>1. t.index < active[k].index /\ active[k].index < BaseTranches
          BY <4>1
        <5>2. t.index < BaseTranches
          BY <3>0, <3>8, <5>1
        <5>3. active[k].index < t.index
          BY <2>5, <5>1, <5>2
        <5> QED
          BY <3>0, <5>1, <5>3
      <4>3. PICK m \in DOMAIN active : active'[i] = active[m]
        BY <2>4, <4>2
      <4> QED
        BY <1>2, <4>1, <4>3 DEF GoesDown
    <3> QED
      BY <3>1, <3>2
  <2> QED
    BY <2>2, <2>6
<1>8. CASE RejectBuy
  <2>1. queue' = Tail(queue) /\ queue # Nothing /\ active' = active
    BY <1>8 DEF RejectBuy, portfolioVars
  <2> QED
    BY <1>2, <2>1, QueueEnds
<1> QED
  BY <1>4, <1>5, <1>6, <1>7, <1>8 DEF Next

\* However the tranches were sold and bought again, the chained strategies hold
\* the base tranches in the order of their prices, as long as the market moves
\* at all: with an ATR of 0 the drop between two tranches is 0
\* (btc_regime.py:109, btc_quantum_evolution_regime.py:199).
THEOREM ChainGoesDown ==
  ASSUME \A row \in Rows : row.atr > 0
  PROVE  Spec => []ChainDescends
<1>1. Fits /\ Chain => ChainDescends
  BY DEF Chain, GoesDown, ChainDescends
<1>2. Fits /\ Chain /\ [Next]_vars => Chain'
  BY StepGoesDown
<1> QED
  BY <1>1, <1>2, InitChain, AlwaysFits, PTL DEF Spec
=============================================================================
