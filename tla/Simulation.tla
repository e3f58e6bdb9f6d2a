------------------------------ MODULE Simulation ------------------------------
(***************************************************************************)
(* SimulationEngine.run (bot/src/simulation/engine.py): one strategy over  *)
(* a series of candles.  A candle is injections, one evaluation, then the  *)
(* signals: the sells first, each with its cascade, then the buys.  One    *)
(* action is one booking, so that the books can be compared with           *)
(* BotLedger after each of them.                                           *)
(***************************************************************************)
EXTENDS Strategies

CONSTANTS
    Names,           \* the strategies to run
    Rows,            \* candles with their indicators
    Injections,      \* amounts of capital_injections
    FeeRate,         \* fee_rate, in thousandths
    Slippage,        \* stop_slippage, in thousandths
    Recycled,        \* recycle_profit_fraction, in thousandths
    MaxDiscount,     \* max_subsidized_discount_pct, in thousandths
    MaxCandles,      \* bound: candles of the series
    MaxInjections    \* bound: capital injections

ASSUME SimulationAssumption ==
    /\ {FeeRate, Slippage, Recycled, MaxDiscount, MaxCandles, MaxInjections} \subseteq Nat
    /\ Names \subseteq StrategyNames
    /\ Injections \subseteq Nat \ {0}
    /\ Rows \subseteq [low : Nat, close : Nat \ {0}, high : Nat, atr : Nat, donchian : Nat,
                       macro : Nat, ema50 : Nat, ema200 : Nat, adx : Nat, rsi : Nat]
    \* Amounts are floats in the code: whatever is paid buys more than nothing.
    /\ \A row \in Rows : row.close <= Lot

VARIABLES
    strategy,    \* the strategy of this run
    memory,      \* what it remembers between candles
    queue,       \* signals not executed yet, sells before buys
    available,   \* portfolio.available_usdt
    budget,      \* portfolio.total_budget
    deposited,   \* portfolio.total_deposited_amount
    profit,      \* portfolio.total_realized_profit
    active,      \* portfolio.active_tranches, in the order of purchase
    candles,     \* candles evaluated so far
    injected,    \* injections so far
    granted      \* ghost: what the profitable sells set aside for subsidies

portfolioVars == <<available, budget, deposited, profit, active>>
vars == <<strategy, memory, queue, portfolioVars, candles, injected, granted>>

Portfolio == [available |-> available, budget |-> budget, deposited |-> deposited,
              profit |-> profit, withdrawn |-> 0, active |-> active]

Init ==
    /\ strategy \in Names
    /\ memory = Forgotten
    /\ queue = Nothing
    /\ available = Budget /\ budget = Budget
    /\ deposited = 0 /\ profit = 0
    /\ active = Nothing
    /\ candles = 0 /\ injected = 0
    /\ granted = 0

\* Injections that are due come before the candle is evaluated.
Inject(amount) ==
    /\ queue = Nothing /\ injected < MaxInjections /\ candles < MaxCandles
    /\ available' = available + amount
    /\ budget' = budget + amount
    /\ deposited' = deposited + amount
    /\ injected' = injected + 1
    /\ UNCHANGED <<strategy, memory, queue, profit, active, candles, granted>>

\* The loop over the signals of one side.
Those(signals, side) == Kept(signals, {s \in ToSet(signals) : s.side = side})
EvaluateCandle(candle) ==
    /\ queue = Nothing /\ candles < MaxCandles
    /\ \E out \in {Evaluate(strategy, candle, Portfolio, memory)} :
          /\ queue' = Those(out.signals, "SELL") \o Those(out.signals, "BUY")
          /\ memory' = out.memory
    /\ candles' = candles + 1
    /\ UNCHANGED <<strategy, portfolioVars, injected, granted>>

(* ------------------------------ the cascade ------------------------------ *)
Value(t, price) == (t.amount * price) \div Lot
FloorPrice(t) == t.buy - Rate(t.buy, MaxDiscount)

\* Mutant: the floor does not limit what a tranche takes.
AbsorbedWhole(t, left) == left
\* What one hung tranche takes of the discount that is left.
Absorbed(t, left) ==
    LET reduction == t.target - FloorPrice(t)
    IN  IF reduction <= 0 THEN 0 ELSE Min({left, Value(t, reduction)})
Lowered(t, discount) == [t EXCEPT !.target = @ - (discount * Lot) \div t.amount]

\* Mutant: every hung tranche gets the whole discount.
LowerWhole(k, acc) ==
    [acc EXCEPT !.tranches[k] = Lowered(@, Absorbed(@, acc.left))]
Lower(k, acc) ==
    LET discount == Absorbed(acc.tranches[k], acc.left)
    IN  [left |-> acc.left - discount,
         tranches |-> [acc.tranches EXCEPT ![k] = Lowered(@, discount)]]

\* The tranches bought above `price` take their share, the dearest first and the
\* older of two at one price.
Cascade(tranches, price, subsidy) ==
    LET Dearer(k, m) == \/ tranches[k].buy > tranches[m].buy
                        \/ tranches[k].buy = tranches[m].buy /\ k <= m
        Cheapest(S) == CHOOSE m \in S : \A k \in S : Dearer(k, m)
        hung == {k \in DOMAIN tranches : tranches[k].buy > price}
    IN  MapThenFoldSet(Lower, [left |-> subsidy, tranches |-> tranches],
                       LAMBDA k : k, Cheapest, hung).tranches

(* ------------------------------ execution -------------------------------- *)
ExecutedPrice(signal) ==
    IF signal.trailing THEN signal.price - Rate(signal.price, Slippage) ELSE signal.price

\* Mutant: the fee of the purchase is left out.
CostBasisNet(t) == t.allocated
CostBasis(t) == t.allocated + t.fee

ExecuteSell ==
    /\ queue # Nothing /\ Head(queue).side = "SELL"
    /\ Head(queue).index \in Occupied(active)
    /\ LET at == CHOOSE i \in DOMAIN active : active[i].index = Head(queue).index
           sold == active[at]
           gross == Value(sold, ExecutedPrice(Head(queue)))
           revenue == gross - Rate(gross, FeeRate)
           gain == revenue - CostBasis(sold)
           subsidy == IF gain > 0 THEN Rate(gain, Recycled) ELSE 0
       IN  /\ available' = available + revenue
           /\ profit' = profit + gain
           /\ active' = Cascade(RemoveAt(active, at), sold.buy, subsidy)
           /\ granted' = granted + subsidy
    /\ queue' = Tail(queue)
    /\ UNCHANGED <<strategy, memory, budget, deposited, candles, injected>>

CanBuy(signal) ==
    /\ signal.index \notin Occupied(active)
    /\ signal.cost > 0
    /\ available >= signal.cost + Rate(signal.cost, FeeRate)

ExecuteBuy ==
    /\ queue # Nothing /\ Head(queue).side = "BUY"
    /\ CanBuy(Head(queue))
    /\ LET signal == Head(queue)
           fee == Rate(signal.cost, FeeRate)
       IN  /\ available' = available - (signal.cost + fee)
           /\ active' = Append(active,
                [index |-> signal.index, allocated |-> signal.cost, fee |-> fee,
                 buy |-> signal.price, amount |-> (signal.cost * Lot) \div signal.price,
                 target |-> signal.target, asked |-> signal.target])
    /\ queue' = Tail(queue)
    /\ UNCHANGED <<strategy, memory, budget, deposited, profit, candles, injected, granted>>

\* A buy the portfolio does not take.
RejectBuy ==
    /\ queue # Nothing /\ Head(queue).side = "BUY"
    /\ ~CanBuy(Head(queue))
    /\ queue' = Tail(queue)
    /\ UNCHANGED <<strategy, memory, portfolioVars, candles, injected, granted>>

Next ==
    \/ \E amount \in Injections : Inject(amount)
    \/ \E candle \in Rows : EvaluateCandle(candle)
    \/ ExecuteSell \/ ExecuteBuy \/ RejectBuy

Spec == Init /\ [][Next]_vars

-----------------------------------------------------------------------------
\* The portfolio adds up at every booking: with the active tranches at what they
\* cost, fees included, the engine's steps are bookings of the ledger the LIVE
\* bot implements as well.  The profit is computed per sale from a cost basis,
\* the cash from the revenue; a fee booked on one side only would drift apart.
\* An injection is a deposit.
Invested(tranches) ==
    SumFunctionOnSet([i \in DOMAIN tranches |-> CostBasis(tranches[i])], DOMAIN tranches)
Books == INSTANCE BotLedger WITH invested <- Invested(active), overwritten <- 0, withdrawn <- 0
ImplementsBooks == Books!Spec

\* Profit recycled once is spent once: what the targets of the active tranches
\* were lowered by, over all cascades and however many tranches shared one, is
\* covered by the fractions of gains set aside for it.
Given(t) == Value(t, t.asked - t.target)
SubsidyIsPaidFor ==
    SumFunctionOnSet([i \in DOMAIN active |-> Given(active[i])], DOMAIN active) <= granted

\* No cascade pushes a target below the floor of its tranche.
TargetsKeepTheirFloor ==
    \A i \in DOMAIN active : active[i].target >= FloorPrice(active[i])

\* The chained strategies go down the ladder: of two base tranches held, the
\* one with the higher index was bought lower, however the others were sold
\* and bought again in between.
ChainDescends ==
    strategy \in Chained =>
      \A i, j \in DOMAIN active :
        active[i].index < active[j].index /\ active[j].index < BaseTranches
          => active[i].buy > active[j].buy
=============================================================================
