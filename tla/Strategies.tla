------------------------------ MODULE Strategies ------------------------------
(***************************************************************************)
(* The strategies of bot/src/strategies: what each one signals for a       *)
(* candle, given the portfolio and what it remembers from earlier candles. *)
(* They share their parts: a market regime, exits by take-profit and by a  *)
(* trailing stop, a way to size an order, and a rule that says which       *)
(* tranche comes next.  A strategy is a combination of these.              *)
(*                                                                         *)
(* Prices and money are whole units; a rate is in thousandths, an ATR      *)
(* multiplier in tenths.  The price 0 stands for None.                     *)
(***************************************************************************)
EXTENDS Integers, SequencesExt, Lists

CONSTANTS
    Budget,          \* config.budget
    MaxTranches,     \* config.max_tranches
    BaseTranches,    \* base_max_tranches of the strategies with a floor
    FloorTranches,   \* extra_floor_tranches
    Weights,         \* config.tranche_weights, in thousandths
    TakeProfit,      \* config.take_profit_pct, in thousandths
    TrailingStop,    \* trailing_stop_pct, in thousandths
    Lot,             \* units of the asset per price unit, for whole amounts
    OneDollar        \* money units in one USDT

ASSUME StrategyAssumption ==
    /\ {Budget, MaxTranches, BaseTranches, Lot, OneDollar} \subseteq Nat \ {0}
    /\ {FloorTranches, TakeProfit, TrailingStop} \subseteq Nat
    /\ BaseTranches <= MaxTranches
    /\ Weights \in Seq(Nat) /\ Len(Weights) >= MaxTranches

None == 0
Rate(x, thousandths) == (x * thousandths) \div 1000

\* MarketRegimeDetector.detect_regime
Regime(row) ==
    IF row.close < row.ema200 /\ row.rsi < 30 THEN "PANIC_CAPITULATION"
    ELSE IF row.close > row.ema50 /\ row.ema50 > row.ema200 /\ row.adx >= 22
         THEN "BULL_TREND" ELSE "RANGE"

Occupied(active) == {active[i].index : i \in DOMAIN active}
Holding(active, k) == active[CHOOSE i \in DOMAIN active : active[i].index = k]
\* The tranches with these indices, in the order of purchase.
WithIndex(active, indices) == Kept(active, {t \in ToSet(active) : t.index \in indices})
Below(active, n) == WithIndex(active, {k \in Occupied(active) : k < n})

SellSignal(t, price, trailing) ==
    [side |-> "SELL", index |-> t.index, price |-> price, trailing |-> trailing]
Nothing == <<>>

(* ----------------------------- sizing ----------------------------------- *)
\* The documented effective base: withdrawals consume profit before capital.
CompoundBase(p) == Budget + p.deposited + Max({0, p.profit - p.withdrawn})
\* The quantum strategies start from total_budget, which an injection raises
\* together with the deposits.
QuantumBase(p) ==
    Max({Budget, p.budget + p.profit + p.deposited - p.withdrawn})
EvolutionBase(p) == Budget + Max({0, p.profit}) + p.deposited - p.withdrawn

\* An order for `wanted`: the capped kind takes what there is, from 10 USDT on;
\* the other kind is placed whole or not at all.
Order(row, p, k, wanted, capped, target) ==
    LET cost == IF capped THEN Min({wanted, p.available}) ELSE wanted
        placed == IF capped THEN cost >= 10 * OneDollar ELSE p.available >= cost
    IN  IF placed
        THEN <<[side |-> "BUY", index |-> k, price |-> row.close,
                cost |-> cost, target |-> target]>>
        ELSE Nothing

Profitable(row) == row.close + Rate(row.close, TakeProfit)

(* ------------------------------ exits ----------------------------------- *)
TakeProfits(row, active) ==
    {active[i].index : i \in {j \in DOMAIN active : row.high >= active[j].target}}

\* Exits of the regime strategies.  In a bull trend the strategy follows the
\* highest price it remembers and sells what would still sell above its cost.
\* A strategy that `resets` forgets the price at its first stop, so the other
\* tranches are not looked at.
Exits(row, p, memory, trail, resets) ==
    LET profits == TakeProfits(row, p.active)
        others == Occupied(p.active) \ profits
        follows == Regime(row) = "BULL_TREND" /\ memory.highest # None
                   /\ others # {}
        highest == IF follows THEN Max({memory.highest, row.high}) ELSE memory.highest
        stop == highest - Rate(highest, trail)
        hit == Kept(p.active, {t \in ToSet(p.active) : t.index \in others /\ follows
                                                    /\ stop > t.buy /\ row.low <= stop})
        stopped == IF hit = Nothing THEN {}
                   ELSE IF resets THEN {Head(hit).index} ELSE Occupied(hit)
        sold == WithIndex(p.active, profits \cup stopped)
    IN  [signals |-> [i \in DOMAIN sold |->
            SellSignal(sold[i], IF sold[i].index \in profits THEN sold[i].target ELSE stop,
                       sold[i].index \in stopped)],
         highest |-> IF resets /\ stopped # {} THEN None ELSE highest]

(* --------------------- the chained regime strategies --------------------- *)
\* (btc_regime, like the grids below, has no spacing for more than five tranches.)
Spacing == <<20, 35, 55, 80>>
\* Mutant: a tranche opens without a drop.
ChainedDropNone(row, k) == 0
\* The drop from tranche k - 1 that opens tranche k.
ChainedDrop(row, k) == (row.atr * Spacing[Min({k, Len(Spacing)})]) \div 10

NextTranche(held) == IF held = {} THEN 0 ELSE Max(held) + 1

\* Entries of BtcChained, BtcCompound, BtcMacroCompound, BtcUltraCompound and
\* of the base tranches of BtcQuantumEvolution; c holds what they differ in.
ChainedEntry(row, p, c) ==
    LET base == Below(p.active, c.tranches)
        held == Occupied(base)
        next == NextTranche(held)
        tranche(k) == Order(row, p, k, Rate(c.base, Weights[k + 1]), c.capped, Profitable(row))
    IN  CASE Regime(row) = "RANGE" /\ held = {}
               /\ row.close >= c.macro /\ row.rsi < c.calmRsi -> tranche(0)
          [] Regime(row) = "RANGE" /\ held # {} /\ next < c.tranches
               /\ row.close <= Holding(base, next - 1).buy - ChainedDrop(row, next) -> tranche(next)
          [] Regime(row) = "BULL_TREND" /\ held = {}
               /\ (row.close <= Rate(row.ema50, 1015) \/ row.rsi < 55) ->
               Order(row, p, 0, Rate(c.base, c.trend), c.capped, 2 * row.close)
          [] Regime(row) = "PANIC_CAPITULATION" /\ held = {} /\ row.rsi < c.panicRsi ->
               Order(row, p, 0, Rate(c.base, 350), c.capped, Rate(row.close, c.panicTarget))
          [] OTHER -> Nothing

\* A strategy that leaves a candle with its exits and enters on another one.
ExitsThenEntry(row, p, memory, trail, entry) ==
    LET out == Exits(row, p, memory, trail, TRUE)
    IN  IF out.signals # Nothing
        THEN [signals |-> out.signals, memory |-> [memory EXCEPT !.highest = out.highest]]
        ELSE [signals |-> entry,
              memory |-> [memory EXCEPT !.highest =
                 IF entry # Nothing /\ Regime(row) = "BULL_TREND" /\ Head(entry).index = 0
                 THEN row.high ELSE out.highest]]

ChainedRegime(row, p, memory) ==
    ExitsThenEntry(row, p, memory, TrailingStop, ChainedEntry(row, p,
        [base |-> Budget, capped |-> FALSE, macro |-> row.ema200, calmRsi |-> 48,
         tranches |-> MaxTranches, trend |-> 400, panicRsi |-> 25, panicTarget |-> 1070]))

CompoundRegime(row, p, memory) ==
    ExitsThenEntry(row, p, memory, TrailingStop, ChainedEntry(row, p,
        [base |-> CompoundBase(p), capped |-> FALSE, macro |-> row.ema200, calmRsi |-> 48,
         tranches |-> MaxTranches, trend |-> 400, panicRsi |-> 25, panicTarget |-> 1050]))

MacroCompoundRegime(row, p, memory) ==
    ExitsThenEntry(row, p, memory, TrailingStop, ChainedEntry(row, p,
        [base |-> CompoundBase(p), capped |-> FALSE, macro |-> row.macro, calmRsi |-> 48,
         tranches |-> MaxTranches, trend |-> 400, panicRsi |-> 25, panicTarget |-> 1050]))

UltraCompoundRegime(row, p, memory) ==
    ExitsThenEntry(row, p, memory, TrailingStop, ChainedEntry(row, p,
        [base |-> CompoundBase(p), capped |-> TRUE, macro |-> row.macro, calmRsi |-> 48,
         tranches |-> MaxTranches, trend |-> 400, panicRsi |-> 25, panicTarget |-> 1050]))

(* ------------------------------ evolution -------------------------------- *)
\* Floor tranches, once the last base tranche is held and 25 USDT are left:
\* a sniper in a panic, else a first tranche below the base and a chain on it.
FloorWeights == <<400, 350, 250>>
FloorEntry(row, p) ==
    LET base == Below(p.active, BaseTranches)
        floor == WithIndex(p.active, Occupied(p.active) \ Occupied(base))
        lowest == Min({base[i].buy : i \in DOMAIN base})
        last == Max(Occupied(floor))
        sniper == Order(row, p, BaseTranches, Rate(p.available, 400), TRUE, Rate(row.close, 1070))
        panic == Regime(row) = "PANIC_CAPITULATION" /\ row.rsi < 28 /\ floor = Nothing
    IN  CASE p.available < 25 * OneDollar -> Nothing
          [] p.available >= 25 * OneDollar /\ panic /\ sniper # Nothing -> sniper
          [] p.available >= 25 * OneDollar /\ ~(panic /\ sniper # Nothing)
               /\ floor = Nothing /\ FloorTranches > 0
               /\ row.close <= lowest - (row.atr * 15) \div 10 /\ row.rsi < 48 ->
               Order(row, p, BaseTranches, Rate(p.available, 400), TRUE, Profitable(row))
          [] p.available >= 25 * OneDollar /\ floor # Nothing
               /\ Len(floor) < FloorTranches /\ last + 1 < BaseTranches + FloorTranches
               /\ row.close <= Holding(floor, last).buy - 2 * row.atr ->
               Order(row, p, last + 1,
                     Rate(p.available, FloorWeights[Min({last + 2 - BaseTranches, 3})]),
                     TRUE, Profitable(row))
          [] OTHER -> Nothing

EvolutionRegime(row, p, memory) ==
    LET exhausted == BaseTranches - 1 \in Occupied(p.active)
        base == ChainedEntry(row, p,
            [base |-> EvolutionBase(p), capped |-> TRUE, macro |-> row.macro, calmRsi |-> 48,
             tranches |-> BaseTranches, trend |-> 700, panicRsi |-> 28, panicTarget |-> 1070])
    IN  ExitsThenEntry(row, p, memory, 14, IF exhausted THEN FloorEntry(row, p) ELSE base)

(* --------------------- the quantum regime strategies --------------------- *)
\* Range entries: tranche 0 above the macro line, and the first free tranche
\* whose neighbour above is held and far enough; both may come in one candle.
QuantumRange(row, p) ==
    LET held == Occupied(p.active)
        tranche(k) == Order(row, p, k, Rate(QuantumBase(p), Weights[k + 1]), TRUE, Profitable(row))
        reached == {k \in 1 .. MaxTranches - 1 :
                      /\ k \notin held /\ k - 1 \in held
                      /\ row.close <= Holding(p.active, k - 1).buy -
                            (IF k <= 4 THEN ChainedDrop(row, k) ELSE 2 * k * row.atr)}
    IN  (IF 0 \notin held /\ row.close > row.macro /\ row.rsi < 48 THEN tranche(0) ELSE Nothing)
        \o (IF reached # {} THEN tranche(Min(reached)) ELSE Nothing)

QuantumTrend(row, p) ==
    IF 0 \notin Occupied(p.active)
    THEN Order(row, p, 0, Rate(QuantumBase(p), 400), TRUE, Profitable(row)) ELSE Nothing

\* The quantum strategies look for entries on a candle with exits as well: the
\* tranches about to be sold still occupy their index.
ExitsAndEntries(row, p, memory, entries) ==
    LET out == Exits(row, p, memory, TrailingStop, FALSE)
        enters == Regime(row) = "BULL_TREND" /\ QuantumTrend(row, p) # Nothing
    IN  [signals |-> out.signals \o entries,
         memory |-> [memory EXCEPT !.highest = IF enters THEN row.high ELSE out.highest]]

QuantumEntries(row, p) ==
    CASE Regime(row) = "BULL_TREND" -> QuantumTrend(row, p)
      [] Regime(row) = "RANGE" -> QuantumRange(row, p)
      [] Regime(row) = "PANIC_CAPITULATION" ->
           IF 0 \notin Occupied(p.active) /\ row.rsi < 28
           THEN Order(row, p, 0, Rate(QuantumBase(p), 350), TRUE, Rate(row.close, 1070))
           ELSE Nothing

QuantumCompoundRegime(row, p, memory) ==
    ExitsAndEntries(row, p, memory, QuantumEntries(row, p))

\* The satoshi variant keeps its sniper at an index of its own and fires it in
\* any regime.
SniperIndex == 99
QuantumSatoshiRegime(row, p, memory) ==
    LET sniper == IF row.rsi < 28 /\ SniperIndex \notin Occupied(p.active)
                  THEN Order(row, p, SniperIndex, Rate(QuantumBase(p), 250), TRUE,
                             Rate(row.close, 1070))
                  ELSE Nothing
        regime == CASE Regime(row) = "BULL_TREND" -> QuantumTrend(row, p)
                    [] Regime(row) = "RANGE" -> QuantumRange(row, p)
                    [] OTHER -> Nothing
    IN  ExitsAndEntries(row, p, memory, regime \o sniper)

\* The reload variant adds floor tranches below the full base.
ReloadSpacing == <<25, 40, 60>>
ReloadFloor(row, p) ==
    LET held == Occupied(p.active)
        base == Below(p.active, BaseTranches)
        lowest == Min({base[i].buy : i \in DOMAIN base})
        spacing(k) == IF k < 3 THEN ReloadSpacing[k + 1] ELSE 30 * (k + 1)
        reached == {k \in 0 .. FloorTranches - 1 :
                      /\ BaseTranches + k \notin held
                      /\ row.close <= lowest - (row.atr * spacing(k)) \div 10}
        order == Order(row, p, BaseTranches + Min(reached), Rate(QuantumBase(p), 100), TRUE,
                       Profitable(row))
    IN  IF 0 .. BaseTranches - 1 \subseteq held /\ p.available >= 50 * OneDollar
           /\ row.rsi < 45 /\ reached # {}
        THEN order ELSE Nothing

QuantumReloadRegime(row, p, memory) ==
    ExitsAndEntries(row, p, memory, QuantumEntries(row, p) \o ReloadFloor(row, p))

(* ---------------------- grids and trend following ------------------------ *)
\* The first free tranche whose drop from the reference price is reached and
\* whose whole budget is there.
GridEntry(row, p, reference, drops) ==
    LET reached == {k \in 1 .. MaxTranches - 1 :
                      /\ k \notin Occupied(p.active)
                      /\ row.close <= reference - Rate(reference, drops[k])
                      /\ p.available >= Rate(Budget, Weights[k + 1])}
    IN  IF reached = {} THEN Nothing
        ELSE Order(row, p, Min(reached), Rate(Budget, Weights[Min(reached) + 1]), FALSE,
                   Profitable(row))

FixedDrops == <<40, 100, 200, 350>>
NaiveGrid(row, p, memory) ==
    LET profits == TakeProfits(row, p.active)
        sold == WithIndex(p.active, profits)
        sells == [i \in DOMAIN sold |-> SellSignal(sold[i], sold[i].target, FALSE)]
        reference == IF p.active = Nothing \/ memory.reference = None
                     THEN row.close ELSE memory.reference
        first == IF p.active = Nothing
                 THEN Order(row, p, 0, Rate(Budget, Weights[1]), FALSE, Profitable(row))
                 ELSE Nothing
    IN  [signals |-> sells \o (IF first # Nothing THEN first
             ELSE GridEntry(row, p, reference, FixedDrops)),
         memory |-> [memory EXCEPT !.reference = reference]]

GeometricSpacing == <<10, 22, 40, 65>>
ThreeRegime(row, p, memory) ==
    LET free == p.active = Nothing
        reference == IF Regime(row) = "RANGE" /\ free THEN row.close ELSE memory.reference
        volatility == Max({(row.atr * 1000) \div row.close, 15})
        step == Max({30, (volatility * 15) \div 10})
        entry ==
          CASE Regime(row) = "RANGE" ->
                 LET first == IF free /\ row.close >= row.ema200 /\ row.rsi < 48
                              THEN Order(row, p, 0, Rate(Budget, Weights[1]), FALSE,
                                         Profitable(row))
                              ELSE Nothing
                 IN  IF first # Nothing \/ reference = None THEN first
                     ELSE GridEntry(row, p, reference,
                                    [k \in DOMAIN GeometricSpacing |->
                                       (step * GeometricSpacing[k]) \div 10])
            [] Regime(row) = "BULL_TREND" /\ free
                 /\ (row.close <= Rate(row.ema50, 1015) \/ row.rsi < 55) ->
                 Order(row, p, 0, Rate(Budget, 400), FALSE, 2 * row.close)
            [] Regime(row) = "PANIC_CAPITULATION" /\ free /\ row.rsi < 25 ->
                 Order(row, p, 0, Rate(Budget, 350), FALSE, Rate(row.close, 1070))
            [] OTHER -> Nothing
        out == ExitsThenEntry(row, p, memory, TrailingStop, entry)
    IN  [out EXCEPT !.memory.reference = reference]

\* One position, sold by a chandelier stop under the highest price since entry
\* or by a hard stop under the entry price.
TrendFollowing(row, p, memory) ==
    LET held == Head(p.active)
        highest == Max({memory.highest, row.high})
        entry == IF memory.entry = None THEN held.buy ELSE memory.entry
        stop == Max({highest - (row.atr * 28) \div 10, entry - Rate(entry, 40)})
        deploy == Rate(p.available, 850)
    IN  CASE p.active # Nothing /\ row.low <= stop ->
               [signals |-> <<SellSignal(held, stop, TRUE)>>,
                memory |-> [memory EXCEPT !.highest = None, !.entry = None]]
          [] p.active # Nothing /\ row.low > stop ->
               [signals |-> Nothing,
                memory |-> [memory EXCEPT !.highest = highest, !.entry = entry]]
          [] p.active = Nothing /\ row.close >= row.donchian /\ row.close > row.ema200
               /\ row.adx >= 18 /\ deploy >= 50 * OneDollar ->
               [signals |-> Order(row, p, 0, deploy, FALSE, 5 * row.close),
                memory |-> [memory EXCEPT !.highest = row.high, !.entry = row.close]]
          [] OTHER -> [signals |-> Nothing, memory |-> memory]

Forgotten == [highest |-> None, reference |-> None, entry |-> None]

\* The strategies that go down a chain of tranches.
Chained == {"btc_regime", "btc_compound", "btc_macro_compound", "btc_ultra_compound",
            "btc_quantum_evolution"}
StrategyNames == Chained \cup {"naive_grid", "three_regime", "trend_following",
    "btc_quantum_compound", "btc_quantum_satoshi", "btc_quantum_reload"}

Evaluate(strategy, row, p, memory) ==
    CASE strategy = "naive_grid" -> NaiveGrid(row, p, memory)
      [] strategy = "three_regime" -> ThreeRegime(row, p, memory)
      [] strategy = "trend_following" -> TrendFollowing(row, p, memory)
      [] strategy = "btc_regime" -> ChainedRegime(row, p, memory)
      [] strategy = "btc_compound" -> CompoundRegime(row, p, memory)
      [] strategy = "btc_macro_compound" -> MacroCompoundRegime(row, p, memory)
      [] strategy = "btc_ultra_compound" -> UltraCompoundRegime(row, p, memory)
      [] strategy = "btc_quantum_compound" -> QuantumCompoundRegime(row, p, memory)
      [] strategy = "btc_quantum_satoshi" -> QuantumSatoshiRegime(row, p, memory)
      [] strategy = "btc_quantum_reload" -> QuantumReloadRegime(row, p, memory)
      [] strategy = "btc_quantum_evolution" -> EvolutionRegime(row, p, memory)
=============================================================================
