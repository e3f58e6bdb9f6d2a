----------------------------- MODULE PaperTrading -----------------------------
(***************************************************************************)
(* A dry-run bot: LiveRunner.run_cycle with simulated orders, which live   *)
(* in table orders under an id made of side, index and the timestamp of    *)
(* the latest stored candle, and fill when that candle touches their       *)
(* price.  The ingestor stores candles between cycles (same event loop);   *)
(* the capital routes run in threads, so at any step of a cycle.  One      *)
(* action of the cycle is one order or one signal.                         *)
(***************************************************************************)
EXTENDS Integers, SequencesExt

CONSTANTS
    Budget,         \* config.budget
    Tranches,       \* tranche indices
    Sizes,          \* budgets a signal may ask for
    MinSize,        \* orders under it are not placed
    Prices,         \* prices of the market
    Lot,            \* units of the base currency an amount counts
    FeeRate,        \* fee_rate, in hundredths
    TakeProfit,     \* take_profit_pct
    Recycled,       \* recycle_fraction, in hundredths
    MaxDiscount,    \* max_subsidized_discount_pct, in hundredths
    Transfers,      \* amounts deposited or withdrawn
    MaxCandles,     \* bound: hours stored
    MaxOrders,      \* bound: simulated buys placed
    MaxTransfers    \* bound: deposits and withdrawals

ASSUME PaperAssumption ==
    /\ {Budget, MinSize, Lot, FeeRate, TakeProfit, Recycled, MaxDiscount,
        MaxCandles, MaxOrders, MaxTransfers} \subseteq Nat
    /\ Lot > 0 /\ FeeRate <= 100 /\ MaxCandles > 0
    /\ Tranches # {} /\ IsFiniteSet(Tranches)
    /\ Sizes \subseteq Nat /\ Sizes # {} /\ IsFiniteSet(Sizes)
    /\ Transfers \subseteq Nat \ {0} /\ Prices \subseteq Nat \ {0}

VARIABLES
    stored,        \* the latest row of table candles
    orders,        \* table orders: id -> [price, amount, status]
    pendingBuy,    \* _pending_buy_orders[bot]: index -> id, or None
    pendingSell,   \* _pending_sell_orders[bot]
    active,        \* active_tranches
    available, profit, deposited, withdrawn,   \* BotInstance
    pc,            \* what the cycle does next
    todo,          \* indices whose order the candle reached
    signals,       \* buy signals of this cycle not handled yet
    placed, transfers,   \* counters of the bounds
    ghost          \* asked: the signal each pending buy stands for; sold: timestamp of its last
                   \* sale; larger: an order was placed whose row says more than was asked

moneyVars == <<available, profit, deposited, withdrawn>>
bookVars == <<active, moneyVars>>
orderVars == <<orders, pendingBuy, pendingSell>>
cycleVars == <<pc, todo, signals>>
vars == <<stored, orderVars, bookVars, cycleVars, placed, transfers, ghost>>

None == <<>>
Candles(ts) == {c \in [ts : {ts}, low : Prices, close : Prices, high : Prices] :
                  c.low <= c.close /\ c.close <= c.high}
Percent(x, rate) == (x * rate) \div 100
Value(amount, price) == (amount * price) \div Lot
Bought(size, price) == ((size - Percent(size, FeeRate)) * Lot) \div price

\* Amounts are counted finely enough that no order that is placed rounds to nothing.
ASSUME UnitAssumption ==
    \A size \in Sizes, price \in Prices : size >= MinSize => Value(Bought(size, price), price) > 0

Init ==
    /\ stored \in Candles(1)
    /\ orders = <<>>
    /\ pendingBuy = [i \in Tranches |-> None] /\ pendingSell = [i \in Tranches |-> None]
    /\ active = <<>> /\ available = Budget /\ profit = 0 /\ deposited = 0 /\ withdrawn = 0
    /\ pc = "sleep" /\ todo = {} /\ signals = <<>>
    /\ placed = 0 /\ transfers = 0
    /\ ghost = [asked |-> [i \in Tranches |-> None], sold |-> [i \in Tranches |-> 0],
                larger |-> FALSE]

(* ----------------------------- the ingestor ------------------------------ *)
\* Mutant: a candle that is stored already is updated.
SavedLatest(candle) == candle
\* ON CONFLICT DO NOTHING: the first snapshot of an hour, taken while it is
\* still open, is the row that stays.
Saved(candle) == IF candle.ts = stored.ts THEN stored ELSE candle

\* The provider answers with the hour that is stored, or with a later one.
SyncOnce ==
    /\ pc = "sleep"
    /\ \E ts \in stored.ts .. stored.ts + 1 : ts <= MaxCandles /\
         \E candle \in Candles(ts) : stored' = Saved(candle)
    /\ UNCHANGED <<orderVars, bookVars, cycleVars, placed, transfers, ghost>>

(* -------------------------- table orders ---------------------------------- *)
\* Mutant: the index is left out of the id.
IdOfAll(side, index) == <<side, 0, stored.ts>>
Id(side, index) == <<side, index, stored.ts>>
New(price, amount) == [price |-> price, amount |-> amount, status |-> "OPEN"]

\* INSERT ... ON CONFLICT (id) DO UPDATE SET status: price and amount stay.
SaveOrder(table, id, order) ==
    IF id \in DOMAIN table THEN [table EXCEPT ![id].status = order.status]
                           ELSE [d \in DOMAIN table \cup {id} |-> IF d = id THEN order ELSE table[d]]
Close(table, id) == [table EXCEPT ![id].status = "CLOSED"]

\* The indices whose resting order the candle touched.
ReachedBuys == {i \in Tranches : pendingBuy[i] # None /\ stored.low <= orders[pendingBuy[i]].price}
ReachedSells == {i \in Tranches : pendingSell[i] # None /\ stored.high >= orders[pendingSell[i]].price}

(* ------------------------------- the cycle -------------------------------- *)
StartCycle ==
    /\ pc = "sleep"
    /\ pc' = "buys" /\ todo' = ReachedBuys
    /\ UNCHANGED <<stored, orderVars, bookVars, signals, placed, transfers, ghost>>

Target(price) == price + Percent(price, TakeProfit)
Indices == {active[k].index : k \in DOMAIN active}

\* _activate_filled_tranche: the tranche, its cost, and the simulated sell.
Activate(i) ==
    /\ pc = "buys" /\ i \in todo
    /\ LET filled == orders[pendingBuy[i]]
           tranche == [index |-> i, buy |-> filled.price, amount |-> filled.amount,
                       target |-> Target(filled.price), since |-> stored.ts]
       IN  /\ active' = Append(active, tranche)
           /\ available' = available - Value(filled.amount, filled.price)
           /\ orders' = SaveOrder(Close(orders, pendingBuy[i]), Id("sell", i),
                                  New(tranche.target, filled.amount))
    /\ pendingSell' = [pendingSell EXCEPT ![i] = Id("sell", i)]
    /\ pendingBuy' = [pendingBuy EXCEPT ![i] = None]
    /\ todo' = todo \ {i}
    /\ ghost' = [ghost EXCEPT !.asked[i] = None]
    /\ UNCHANGED <<stored, profit, deposited, withdrawn, pc, signals, placed, transfers>>

\* The sells are looked at after the buys, those just placed included.
BuysReconciled ==
    /\ pc = "buys" /\ todo = {}
    /\ pc' = "sells" /\ todo' = ReachedSells
    /\ UNCHANGED <<stored, orderVars, bookVars, signals, placed, transfers, ghost>>

\* The cascade: tranches bought dearer than the one sold, the dearest first and
\* the older of two at one price, have their target lowered, down to a floor.  A
\* simulated order keeps its price.
Reduction(t) == t.target - (t.buy - Percent(t.buy, MaxDiscount))
Discount(left, t) ==
    LET most == IF left < Reduction(t) THEN left ELSE Reduction(t)
    IN  IF most > 0 THEN most ELSE 0
Lower(k, acc) ==
    LET discount == Discount(acc.left, acc.tranches[k])
    IN  [left |-> acc.left - discount,
         tranches |-> [acc.tranches EXCEPT ![k].target = @ - discount]]
Subsidized(tranches, price, subsidy) ==
    LET Before(k, m) == \/ tranches[k].buy > tranches[m].buy
                        \/ tranches[k].buy = tranches[m].buy /\ k <= m
        Cheapest(S) == CHOOSE m \in S : \A k \in S : Before(k, m)
        hung == {k \in DOMAIN tranches : tranches[k].buy > price}
    IN  MapThenFoldSet(Lower, [left |-> subsidy, tranches |-> tranches],
                       LAMBDA k : k, Cheapest, hung).tranches

Cost(t) == Value(t.amount, t.buy)
Invested(tranches) == MapThenSumSet(LAMBDA k : Cost(tranches[k]), DOMAIN tranches)
Revenue(t, price) == Value(t.amount, price) - Percent(Value(t.amount, price), FeeRate)

\* _close_filled_tranche: at the price in table orders.
Sell(i) ==
    /\ pc = "sells" /\ i \in todo
    /\ LET price == orders[pendingSell[i]].price
           at == CHOOSE k \in DOMAIN active : active[k].index = i
           sold == active[at]
           gain == Revenue(sold, price) - Cost(sold)
           others == RemoveAt(active, at)
       IN  /\ available' = available + Revenue(sold, price)
           /\ profit' = profit + gain
           /\ active' = IF gain > 0 THEN Subsidized(others, sold.buy, Percent(gain, Recycled))
                                    ELSE others
    /\ orders' = Close(orders, pendingSell[i])
    /\ pendingSell' = [pendingSell EXCEPT ![i] = None]
    /\ todo' = todo \ {i}
    /\ ghost' = [ghost EXCEPT !.sold[i] = stored.ts]
    /\ UNCHANGED <<stored, pendingBuy, deposited, withdrawn, pc, signals, placed, transfers>>

\* strategy.evaluate: any signals, at the close of the stored candle.
Signals == {s \in SeqOf([index : Tranches, size : Sizes], Cardinality(Tranches)) :
              \A m, n \in DOMAIN s : m # n => s[m].index # s[n].index}
Evaluate ==
    /\ pc = "sells" /\ todo = {}
    /\ \E s \in Signals :
         /\ placed + Len(s) <= MaxOrders
         /\ signals' = s
         /\ pc' = IF s = <<>> THEN "sleep" ELSE "signals"
    /\ UNCHANGED <<stored, orderVars, bookVars, todo, placed, transfers, ghost>>

\* Mutant: a signal for an index that has a tranche is not refused.
RefusedIfPending(s) == pendingBuy[s.index] # None \/ available < s.size \/ s.size < MinSize
\* Mutant: the balance is not checked.
RefusedUnchecked(s) == s.index \in Indices \/ pendingBuy[s.index] # None \/ s.size < MinSize
Refused(s) ==
    \/ s.index \in Indices \/ pendingBuy[s.index] # None
    \/ available < s.size \/ s.size < MinSize

\* _handle_buy_signal: nothing is reserved for the order.
HandleBuySignal ==
    /\ pc = "signals"
    /\ LET s == Head(signals)
           order == New(stored.close, Bought(s.size, stored.close))
       IN  IF Refused(s) THEN UNCHANGED <<orderVars, placed, ghost>>
           ELSE /\ orders' = SaveOrder(orders, Id("buy", s.index), order)
                /\ pendingBuy' = [pendingBuy EXCEPT ![s.index] = Id("buy", s.index)]
                /\ placed' = placed + 1
                /\ ghost' = [ghost EXCEPT !.asked[s.index] = order,
                     !.larger = @ \/ orders'[Id("buy", s.index)].amount > order.amount]
                /\ UNCHANGED pendingSell
    /\ signals' = Tail(signals)
    /\ pc' = IF Len(signals) = 1 THEN "sleep" ELSE "signals"
    /\ UNCHANGED <<stored, bookVars, todo, transfers>>

(* ------------------------- the capital routes ----------------------------- *)
DepositCapital(amount) ==
    /\ transfers < MaxTransfers
    /\ available' = available + amount /\ deposited' = deposited + amount
    /\ transfers' = transfers + 1
    /\ UNCHANGED <<stored, orderVars, active, profit, withdrawn, cycleVars, placed, ghost>>

\* Mutant: the total is not counted.
WithdrawUncounted(amount) ==
    /\ transfers < MaxTransfers /\ amount <= available
    /\ available' = available - amount
    /\ transfers' = transfers + 1
    /\ UNCHANGED <<stored, orderVars, active, profit, deposited, withdrawn, cycleVars, placed, ghost>>
WithdrawCapital(amount) ==
    /\ transfers < MaxTransfers /\ amount <= available
    /\ available' = available - amount /\ withdrawn' = withdrawn + amount
    /\ transfers' = transfers + 1
    /\ UNCHANGED <<stored, orderVars, active, profit, deposited, cycleVars, placed, ghost>>

Next ==
    \/ SyncOnce \/ StartCycle \/ BuysReconciled \/ Evaluate \/ HandleBuySignal
    \/ \E i \in Tranches : Activate(i) \/ Sell(i)
    \/ \E amount \in Transfers : DepositCapital(amount) \/ WithdrawCapital(amount)

Spec == Init /\ [][Next]_vars

-----------------------------------------------------------------------------
\* One tranche and one resting order of a kind per index, every recorded id is
\* in table orders, and a sell rests exactly for the active tranches.
TypeOK ==
    /\ stored \in Candles(stored.ts) /\ stored.ts \in 1 .. MaxCandles
    /\ \A k, m \in DOMAIN active : active[k].index = active[m].index => k = m
    /\ \A i \in Tranches :
         /\ pendingBuy[i] # None => pendingBuy[i] \in DOMAIN orders /\ i \notin Indices
         /\ pendingSell[i] # None <=> i \in Indices
         /\ pendingSell[i] # None => pendingSell[i] \in DOMAIN orders
    /\ pc \in {"sleep", "buys", "sells", "signals"} /\ todo \subseteq Tranches

\* The books of a dry-run bot implement the abstract ones, booking by booking,
\* with the capital threads between any two of them.
Books == INSTANCE BotLedger WITH invested <- Invested(active), overwritten <- 0
ImplementsBooks == Books!Spec

\* An id that repeats overwrites neither price nor amount, yet a resting buy is
\* always at the price its signal asked for: the id repeats only on one stored
\* candle, whose close never changes.
BuyAtItsSignal ==
    \A i \in Tranches : pendingBuy[i] # None => orders[pendingBuy[i]].price = ghost.asked[i].price

\* What the order that rests for a tranche should be.
OwnSell(t) ==
    /\ orders[pendingSell[t.index]] = New(Target(t.buy), t.amount)
    /\ Target(t.buy) >= t.target
\* The simulated sell of a tranche is its own, unless the index was sold before
\* on the candle the tranche was bought on.
SellIsOwnUnlessResold ==
    \A k \in DOMAIN active : OwnSell(active[k]) \/ ghost.sold[active[k].index] = active[k].since

\* Nothing is reserved for a resting buy, so several can be checked against one
\* balance: once they have all filled, the bot owes at most all of them but the
\* one checked last.  It may owe that one too after an owner withdrew in between,
\* or when the id it was placed under had a row with a larger amount.
Owed == LET resting == {i \in Tranches : pendingBuy[i] # None}
        IN  MapThenSumSet(LAMBDA i : Value(orders[pendingBuy[i]].amount,
                                           orders[pendingBuy[i]].price), resting)
OwesAtMost ==
    LET unpaid == Cardinality(Tranches) - (IF withdrawn = 0 /\ ~ghost.larger THEN 1 ELSE 0)
    IN  available - Owed >= -(unpaid * Max(Sizes))
=============================================================================
