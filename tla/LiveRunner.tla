------------------------------ MODULE LiveRunner ------------------------------
(***************************************************************************)
(* One LIVE bot: the LiveRunner coroutine that trades it, the API handlers *)
(* that share its BotInstance, the PostgreSQL rows both write, and the     *)
(* exchange (external) that holds the resting orders.                      *)
(*                                                                         *)
(* The runner is one asyncio coroutine.  It gives up the event loop only   *)
(* where it awaits an exchange call, so pc names the call it waits for and *)
(* one action is the code between two awaits.  Everything else (API calls, *)
(* fills, a crash) may happen while it waits.                              *)
(*                                                                         *)
(* Data.  Every order is for one unit of the base coin, so the price of an *)
(* order is also its cost.  The tranche row is named by the id of the buy  *)
(* order that opened it.  Candles and indicators are left out: the         *)
(* strategy may signal any free tranche at any price it can pay.  One unit *)
(* per order hides that the cascade takes a USDT value off the price of a  *)
(* unit (live_runner.py 497-498).                                          *)
(*                                                                         *)
(* Database errors.  DbErrors lets the statements of the two fill handlers *)
(* and of the cascade raise, which ends the cycle and not the process.     *)
(* Left out are the others: a save_order that raises (the order is tracked *)
(* without a row in table orders), a record_transaction of the balance     *)
(* reconciliation, the writes of the API handlers, and candles that cannot *)
(* be read (the cycle ends before it starts).  Left out too are threads of *)
(* the capital handlers inside any other read-then-write of the runner     *)
(* than the reconciliation's.                                              *)
(***************************************************************************)
EXTENDS Integers, Sequences, FiniteSets, FiniteSetsExt

CONSTANTS
    Commands,      \* bound: statuses the API handlers set in this instance
    Tranches,      \* tranche indexes of the strategy, a set of naturals
    Prices,        \* prices the strategy may signal, positive
    Budget,        \* config.budget
    TakeProfit,    \* price distance from a buy to its take-profit target
    Fee,           \* exchange fee of one fill, in quote currency
    RecycleDiv,    \* 1 / recycle_fraction: the share of a profit that subsidizes
    MaxDiscount,   \* how far below its buy price a target may be subsidized
    MaxBuys,       \* bound: buy orders the strategy ever asks for
    MaxTransfers,  \* bound: external transfers and API capital movements
    MaxCrashes,    \* bound: crashes of the process
    Rejects,       \* TRUE iff an exchange call may raise
    LostReplies,   \* TRUE iff an accepted order's reply may be lost
    DbErrors,      \* TRUE iff a statement of the fill handlers may raise
    ThreadedApi    \* TRUE iff a capital handler's thread may run inside
                   \* the reconciliation's read-then-write window

ASSUME RunnerAssumption ==
    /\ Commands \subseteq {"RUNNING", "PAUSED", "STOPPED"}
    /\ Tranches \subseteq Nat
    /\ Prices \subseteq Nat \ {0}
    /\ Budget \in Nat /\ TakeProfit \in Nat /\ Fee \in Nat
    /\ RecycleDiv \in Nat \ {0}
    /\ MaxDiscount \in Nat
    /\ MaxBuys \in Nat /\ MaxTransfers \in Nat /\ MaxCrashes \in Nat
    /\ {Rejects, LostReplies, DbErrors, ThreadedApi} \subseteq BOOLEAN

VARIABLES
    \* the BotInstance in memory
    status,       \* "RUNNING", "PAUSED" or "STOPPED"
    active,       \* active_tranches
    sold,         \* id and profit of those a failed sale left marked CLOSED
    available,    \* available_usdt
    profit,       \* total_realized_profit
    deposited,    \* total_deposited_amount
    withdrawn,    \* total_withdrawn_amount
    \* the runner's maps from tranche index to resting order
    pendingBuy,
    pendingSell,
    \* the runner's coroutine
    pc,           \* the call it awaits
    todo,         \* rest of the snapshot a reconciliation loop iterates over
    cur,          \* tranche index and price of the order being placed
    newId,        \* id in the exchange's reply, not yet handled
    real,         \* free balance in the exchange's reply
    diff,         \* available_usdt - real, once computed
    hung,         \* ids of the tranches the cascade has still to visit
    subsidy,      \* remaining_subsidy of the cascade
    signals,      \* buy signals still to handle
    \* PostgreSQL
    dbStatus,     \* bots.status
    rows,         \* table tranches
    dbDeposited,  \* get_totals over table capital_transactions
    dbWithdrawn,
    \* the exchange; the db field of an order is its status in table orders
    orders,
    free,         \* free quote currency of the subaccount
    coins,        \* free base coins of the subaccount
    \* history: cost of the active tranches, booked as it changes
    invested,
    overwritten,  \* capital moved while the reconciliation overwrites the balance
    \* history: where a crash or a database error cut a handler short
    lost,         \* fills dropped before their tranche was saved
    halfSold,     \* tranches sold on the exchange, ACTIVE in table tranches
    unsaved,      \* tranches with a lower target in memory than in the table
    \* counters of the bounds
    transfers,
    crashes

moneyVars  == <<available, invested, profit, deposited, withdrawn, overwritten>>
botVars    == <<status, active, sold, moneyVars>>
mapVars    == <<pendingBuy, pendingSell>>
loopVars   == <<todo, cur, newId, real, diff, hung, subsidy, signals>>
capitalRows == <<dbDeposited, dbWithdrawn>>
dbVars     == <<dbStatus, rows, capitalRows>>
exchangeVars == <<orders, free, coins>>
errorVars  == <<lost, halfSold, unsaved>>
auxVars    == <<errorVars, transfers, crashes>>
vars == <<botVars, mapVars, pc, loopVars, dbVars, exchangeVars, auxVars>>

None == 0    \* no order recorded for the index
Simulated == -1  \* the sim_sell id, which the exchange does not know
NoOrder == [idx |-> 0, price |-> 0, tries |-> 0]
MaxRetries == 3

OrderIds == 1..Len(orders)
Status == {"RUNNING", "PAUSED", "STOPPED"}
Pcs == {"sleep", "balance", "apply", "write", "buys", "placeSell",
        "sellPlaced", "sells", "cascade", "cancel", "replace", "replaced",
        "signals", "placeBuy", "buyPlaced"}
Order == [side : {"buy", "sell"}, idx : Tranches, price : Int,
          st : {"open", "closed", "canceled"},
          db : {"none", "OPEN", "CLOSED", "CANCELED"}]
Tranche == [id : Nat, idx : Tranches, buy : Prices, target : Int]
Row == [id : Nat, idx : Tranches, buy : Prices, target : Int,
        st : {"ACTIVE", "CLOSED"}, profit : Int]
Pending == [idx : Tranches, price : Int, tries : 0..MaxRetries]

\* The orders, tranches and the coroutine; the proofs keep these for every
\* value of the constants.
OrdersTyped ==
    /\ status \in Status /\ dbStatus \in Status
    /\ active \subseteq Tranche
    /\ sold \subseteq [id : Nat, gain : Int]
    /\ {lost, halfSold, unsaved} \subseteq SUBSET Nat
    /\ rows \subseteq Row
    /\ {real, free, coins, subsidy} \subseteq Int
    /\ pendingBuy \in [Tranches -> {None} \cup OrderIds]
    /\ pendingSell \in [Tranches -> {None, Simulated} \cup OrderIds]
    /\ pc \in Pcs
    /\ todo \subseteq [idx : Tranches, id : {Simulated} \cup OrderIds]
    /\ cur \in {NoOrder} \cup Pending
    /\ newId \in {None} \cup OrderIds
    /\ hung \subseteq Nat
    /\ signals \in Seq([idx : Tranches, price : Prices])
    /\ orders \in Seq(Order)
    /\ transfers \in Nat /\ crashes \in Nat

\* The books, some of which a restart computes as sums over table tranches.
BooksTyped ==
    /\ {available, invested, profit, diff, overwritten} \subseteq Int
    /\ {deposited, withdrawn, dbDeposited, dbWithdrawn} \subseteq Nat

TypeOK == OrdersTyped /\ BooksTyped

-----------------------------------------------------------------------------
(* The exchange *)

IsOpen(id, side) == orders[id].st = "open" /\ orders[id].side = side
OpenOrders(side) == {id \in OrderIds : IsOpen(id, side)}
BuyOrders == {id \in OrderIds : orders[id].side = "buy"}

Funded(side, price) ==
    IF side = "buy" THEN free >= price + Fee ELSE coins >= 1

NewOrder(side) == [side |-> side, idx |-> cur.idx, price |-> cur.price,
                   st |-> "open", db |-> "none"]

\* A resting order is filled, in full and at its own price.
Fill(id) ==
    /\ orders[id].st = "open"
    /\ orders' = [orders EXCEPT ![id].st = "closed"]
    /\ IF orders[id].side = "buy"
       THEN coins' = coins + 1 /\ UNCHANGED free
       ELSE free' = free + (orders[id].price - Fee) /\ UNCHANGED coins
    /\ UNCHANGED <<botVars, mapVars, pc, loopVars, dbVars, auxVars>>

\* The owner moves quote currency into or out of the subaccount.
ExternalTransfer(amount) ==
    /\ transfers < MaxTransfers
    /\ free + amount >= 0
    /\ free' = free + amount
    /\ transfers' = transfers + 1
    /\ UNCHANGED <<botVars, mapVars, pc, loopVars, dbVars, orders, coins, errorVars,
                   crashes>>

-----------------------------------------------------------------------------
(* client.create_order, as the coroutine sees it *)

\* The exchange takes the order in cur and reserves what it may cost.
Placed(side) ==
    /\ Funded(side, cur.price)
    /\ orders' = Append(orders, NewOrder(side))
    /\ IF side = "buy"
       THEN free' = free - (cur.price + Fee) /\ UNCHANGED coins
       ELSE coins' = coins - 1 /\ UNCHANGED free

\* The exchange takes the order and the reply arrives.
Accepted(side) ==
    /\ Placed(side)
    /\ newId' = Len(orders) + 1

\* A network error, before or after the exchange took the order: the client
\* submits it again, with no client order id to recognise it by.
Retried(side) ==
    /\ LostReplies
    /\ cur.tries < MaxRetries
    /\ cur' = [cur EXCEPT !.tries = @ + 1]
    /\ Placed(side) \/ UNCHANGED exchangeVars
    /\ UNCHANGED newId

\* The call raises: refused by the exchange, or out of retries.
Raised(side) ==
    /\ Rejects \/ ~Funded(side, cur.price) \/ cur.tries = MaxRetries
    /\ UNCHANGED <<exchangeVars, newId>>

CanSubmit == cur.tries < MaxRetries

-----------------------------------------------------------------------------
(* run_cycle, up to the reconciliation of resting orders *)

Snapshot(map) ==
    {[idx |-> i, id |-> map[i]] : i \in {j \in Tranches : map[j] # None}}

StartCycle ==
    /\ pc = "sleep"
    /\ status = "RUNNING"
    /\ pc' = "balance"
    /\ UNCHANGED <<botVars, mapVars, loopVars, dbVars, exchangeVars, auxVars>>

ReadBalance ==
    /\ pc = "balance"
    /\ real' = free
    /\ pc' = "apply"
    /\ UNCHANGED <<botVars, mapVars, todo, cur, newId, diff, hung, subsidy,
                   signals, dbVars, exchangeVars, auxVars>>

BalanceUnknown ==
    /\ pc = "balance"
    /\ Rejects
    /\ pc' = "buys"
    /\ todo' = Snapshot(pendingBuy)
    /\ UNCHANGED <<botVars, mapVars, cur, newId, real, diff, hung, subsidy,
                   signals, dbVars, exchangeVars, auxVars>>

CompareBalance ==
    /\ pc = "apply"
    /\ IF available = real
       THEN /\ pc' = "buys"
            /\ todo' = Snapshot(pendingBuy)
            /\ real' = 0
            /\ UNCHANGED diff
       ELSE /\ pc' = "write"
            /\ diff' = available - real
            /\ UNCHANGED <<todo, real>>
    /\ UNCHANGED <<botVars, mapVars, cur, newId, hung, subsidy, signals, dbVars,
                   exchangeVars, auxVars>>

\* The difference is booked as capital moved outside the bot.
BookDifference ==
    /\ pc = "write"
    /\ IF diff > 0
       THEN /\ withdrawn' = withdrawn + diff
            /\ dbWithdrawn' = dbWithdrawn + diff
            /\ UNCHANGED <<deposited, dbDeposited>>
       ELSE /\ deposited' = deposited - diff
            /\ dbDeposited' = dbDeposited - diff
            /\ UNCHANGED <<withdrawn, dbWithdrawn>>
    /\ available' = real
    /\ pc' = "buys"
    /\ todo' = Snapshot(pendingBuy)
    /\ real' = 0
    /\ diff' = 0
    /\ UNCHANGED <<status, active, sold, invested, profit, overwritten, mapVars, cur,
                   newId, hung, subsidy, signals, dbStatus, rows, exchangeVars, auxVars>>

-----------------------------------------------------------------------------
(* _reconcile_resting_orders, buys: _activate_filled_tranche *)

\* Mutants of MarkClosed: another status name; no update of the order at all.
MarkFilled(id) == [orders EXCEPT ![id].db = "FILLED"]
MarkNothing(id) == orders

\* order_repo.update_order_status(order_id, "CLOSED")
MarkClosed(id) == [orders EXCEPT ![id].db = "CLOSED"]

Filled(item) == item.id \in OrderIds /\ orders[item.id].st = "closed"

BuyStillOpen(item) ==
    /\ pc = "buys"
    /\ item \in todo
    /\ Rejects \/ ~Filled(item)
    /\ todo' = todo \ {item}
    /\ UNCHANGED <<botVars, mapVars, pc, cur, newId, real, diff, hung, subsidy,
                   signals, dbVars, exchangeVars, auxVars>>

\* The runner learns of the fill and drops the order from its map.
TakeBuy(item) ==
    /\ pc = "buys"
    /\ item \in todo
    /\ Filled(item)
    /\ pendingBuy' = [pendingBuy EXCEPT ![item.idx] = None]
    /\ UNCHANGED pendingSell

\* What the fill leaves in memory and in the tables.
BookBuy(item) ==
    LET price == orders[item.id].price
        tranche == [id |-> item.id, idx |-> item.idx, buy |-> price,
                    target |-> price + TakeProfit]
    IN  /\ orders' = MarkClosed(item.id)
        /\ active' = active \cup {tranche}
        /\ rows' = rows \cup
             {[id |-> item.id, idx |-> item.idx, buy |-> price,
               target |-> price + TakeProfit, st |-> "ACTIVE", profit |-> 0]}
        /\ available' = available - price
        /\ invested' = invested + price
        /\ UNCHANGED <<status, sold, profit, deposited, withdrawn, overwritten,
                       dbStatus, capitalRows, free, coins, auxVars>>

Activate(item) ==
    /\ TakeBuy(item)
    /\ BookBuy(item)
    /\ todo' = todo \ {item}
    /\ pc' = "placeSell"
    /\ cur' = [idx |-> item.idx, price |-> orders[item.id].price + TakeProfit,
               tries |-> 0]
    /\ UNCHANGED <<newId, real, diff, hung, subsidy, signals>>

\* A statement raises: the exception leaves run_cycle, _loop logs it and sleeps.
CycleAborts ==
    /\ DbErrors
    /\ pc' = "sleep"
    /\ todo' = {} /\ hung' = {} /\ subsidy' = 0
    /\ UNCHANGED <<cur, newId, real, diff, signals>>

\* update_order_status raises, or save_tranche after it: the fill is in no map
\* and in no row.
BuyDropped(item) ==
    /\ TakeBuy(item)
    /\ UNCHANGED orders \/ orders' = MarkClosed(item.id)
    /\ lost' = lost \cup {item.id}
    /\ CycleAborts
    /\ UNCHANGED <<botVars, dbVars, free, coins, halfSold, unsaved, transfers, crashes>>

\* record_event raises: the tranche is booked, its sell order never placed.
BuyWithoutSell(item) == TakeBuy(item) /\ BookBuy(item) /\ CycleAborts

\* Mutant of Track: the id in the reply is dropped.
Untracked(map, id) == map

\* The runner remembers the order it placed for the index.
Track(map, id) == [map EXCEPT ![cur.idx] = id]

SellAccepted ==
    /\ pc = "placeSell"
    /\ CanSubmit
    /\ Accepted("sell")
    /\ pc' = "sellPlaced"
    /\ UNCHANGED <<botVars, mapVars, todo, cur, real, diff, hung, subsidy,
                   signals, dbVars, auxVars>>

RecordSell ==
    /\ pc = "sellPlaced"
    /\ pendingSell' = Track(pendingSell, newId)
    /\ orders' = [orders EXCEPT ![newId].db = "OPEN"]
    /\ pc' = "buys"
    /\ cur' = NoOrder
    /\ newId' = None
    /\ UNCHANGED <<botVars, pendingBuy, todo, real, diff, hung, subsidy,
                   signals, dbVars, free, coins, auxVars>>

\* The failure is logged and the tranche keeps the simulated id.
SellFailed ==
    /\ pc = "placeSell"
    /\ Raised("sell")
    /\ pendingSell' = Track(pendingSell, Simulated)
    /\ pc' = "buys"
    /\ cur' = NoOrder
    /\ UNCHANGED <<botVars, pendingBuy, todo, real, diff, hung, subsidy,
                   signals, dbVars, auxVars>>

BuysReconciled ==
    /\ pc = "buys"
    /\ todo = {}
    /\ pc' = "sells"
    /\ todo' = Snapshot(pendingSell)
    /\ UNCHANGED <<botVars, mapVars, cur, newId, real, diff, hung, subsidy,
                   signals, dbVars, exchangeVars, auxVars>>

-----------------------------------------------------------------------------
(* _reconcile_resting_orders, sells: _close_filled_tranche *)

SellStillOpen(item) ==
    /\ pc = "sells"
    /\ item \in todo
    /\ Rejects \/ ~Filled(item)
    /\ todo' = todo \ {item}
    /\ UNCHANGED <<botVars, mapVars, pc, cur, newId, real, diff, hung, subsidy,
                   signals, dbVars, exchangeVars, auxVars>>

\* Mutant of Saved: the subsidized target is not written.
SavedWithoutTarget(t, st, gain) ==
    {IF row.id = t.id THEN [row EXCEPT !.st = st, !.profit = gain]
     ELSE row : row \in rows}

\* The tranche rows after a change of the active tranche t.
Saved(t, st, gain) ==
    {IF row.id = t.id
     THEN [row EXCEPT !.target = t.target, !.st = st, !.profit = gain]
     ELSE row : row \in rows}

\* Mutant of Revenue: the fee is not deducted.
GrossRevenue(price) == price

\* What a fill brings in once the exchange took its fee.
Revenue(price) == price - Fee

\* The runner learns of the fill and drops the order from its map.
TakeSell(item) ==
    /\ pc = "sells"
    /\ item \in todo
    /\ Filled(item)
    /\ pendingSell' = [pendingSell EXCEPT ![item.idx] = None]
    /\ UNCHANGED pendingBuy

\* The profit of tranche t, sold by the order of the item.
Gain(item, t) == Revenue(orders[item.id].price) - t.buy

\* What the sale of tranche t leaves in memory and in the tables.
BookSale(item, t) ==
    /\ t.idx = item.idx
    /\ orders' = MarkClosed(item.id)
    /\ active' = active \ {t}
    /\ sold' = {s \in sold : s.id # t.id}
    /\ rows' = Saved(t, "CLOSED", Gain(item, t))
    /\ available' = available + Revenue(orders[item.id].price)
    /\ invested' = invested - t.buy
    /\ profit' = profit + Gain(item, t)
    /\ UNCHANGED <<status, deposited, withdrawn, overwritten, dbStatus, capitalRows,
                   free, coins, auxVars>>

\* The index of the sold order has no tranche: only the order is marked.
CloseNothing(item) ==
    /\ \A t \in active : t.idx # item.idx
    /\ orders' = MarkClosed(item.id)
    /\ UNCHANGED <<botVars, dbVars, free, coins, auxVars, pc, hung, subsidy>>

Close(item) ==
    /\ TakeSell(item)
    /\ todo' = todo \ {item}
    /\ \/ CloseNothing(item)
       \/ \E t \in active :
            /\ BookSale(item, t)
            /\ IF Gain(item, t) > 0 /\ active \ {t} # {}
               THEN /\ pc' = "cascade"
                    /\ subsidy' = Gain(item, t) \div RecycleDiv
                    /\ hung' = {u.id : u \in {v \in active \ {t} : v.buy > t.buy}}
               ELSE UNCHANGED <<pc, hung, subsidy>>
    /\ UNCHANGED <<cur, newId, real, diff, signals>>

\* update_order_status raises: the sale is forgotten.
SaleDropped(item) ==
    /\ TakeSell(item)
    /\ CycleAborts
    /\ UNCHANGED <<botVars, dbVars, exchangeVars, auxVars>>

\* update_tranche raises: the tranche, CLOSED in memory and ACTIVE in its row,
\* stays in active_tranches.
SaleHalfBooked(item) ==
    /\ TakeSell(item)
    /\ CycleAborts
    /\ orders' = MarkClosed(item.id)
    /\ \E t \in active : /\ t.idx = item.idx
                         /\ sold' = {s \in sold : s.id # t.id}
                                      \cup {[id |-> t.id, gain |-> Gain(item, t)]}
                         /\ halfSold' = halfSold \cup {t.id}
    /\ UNCHANGED <<status, active, moneyVars, dbVars, free, coins, lost, unsaved,
                   transfers, crashes>>

\* record_event raises: the sale is booked, its profit not recycled.
SaleWithoutCascade(item) ==
    /\ TakeSell(item)
    /\ \E t \in active : BookSale(item, t)
    /\ CycleAborts

-----------------------------------------------------------------------------
(* Cascading subsidy and _update_resting_sell_order_price *)

CascadeEnds ==
    /\ pc = "cascade"
    /\ hung = {} \/ subsidy = 0
    /\ pc' = "sells"
    /\ hung' = {}
    /\ subsidy' = 0
    /\ UNCHANGED <<botVars, mapVars, todo, cur, newId, real, diff, signals,
                   dbVars, exchangeVars, auxVars>>

\* Mutant of Discount: the floor is ignored.
WholeSubsidy(t) == subsidy

\* What is left of the subsidy, but not past the floor under the buy price.
Discount(t) ==
    LET room == t.target - (t.buy - MaxDiscount)
    IN  IF subsidy < room THEN subsidy ELSE room

Sold(id) == \E s \in sold : s.id = id

\* update_tranche writes the status and the profit the tranche has in memory.
SavedAsIs(t) ==
    IF Sold(t.id) THEN Saved(t, "CLOSED", (CHOOSE s \in sold : s.id = t.id).gain)
    ELSE Saved(t, "ACTIVE", 0)

\* The dearest hung tranche is next.
NextHung(t) ==
    /\ pc = "cascade"
    /\ subsidy > 0
    /\ t.id \in hung
    /\ \A u \in active : u.id \in hung => u.buy <= t.buy

\* Its target drops by what is left of the subsidy, down to the floor under its
\* buy price.
Cheaper(t) == [t EXCEPT !.target = @ - Discount(t)]

Subsidize ==
    /\ \E t \in active :
         /\ NextHung(t)
         /\ hung' = hung \ {t.id}
         /\ IF Discount(t) > 0
            THEN /\ active' = (active \ {t}) \cup {Cheaper(t)}
                 /\ rows' = SavedAsIs(Cheaper(t))
                 /\ unsaved' = unsaved \ {t.id}
                 /\ subsidy' = subsidy - Discount(t)
                 /\ IF pendingSell[t.idx] # None
                    THEN /\ pc' = "cancel"
                         /\ cur' = [idx |-> t.idx, price |-> Cheaper(t).target,
                                    tries |-> 0]
                    ELSE UNCHANGED <<pc, cur>>
            ELSE UNCHANGED <<active, rows, unsaved, subsidy, pc, cur>>
    /\ UNCHANGED <<status, sold, moneyVars, mapVars, todo, newId, real, diff, signals,
                   dbStatus, capitalRows, exchangeVars, lost, halfSold, transfers,
                   crashes>>

\* update_tranche raises: the target is lower in memory only, and the order on
\* the exchange keeps the old one.
SubsidyUnsaved ==
    /\ \E t \in active :
         /\ NextHung(t)
         /\ Discount(t) > 0
         /\ active' = (active \ {t}) \cup {Cheaper(t)}
         /\ unsaved' = unsaved \cup {t.id}
    /\ CycleAborts
    /\ UNCHANGED <<status, sold, moneyVars, mapVars, dbVars, exchangeVars, lost,
                   halfSold, transfers, crashes>>

CancelAccepted ==
    LET id == pendingSell[cur.idx]
    IN  /\ pc = "cancel"
        /\ id \in OrderIds
        /\ orders[id].st = "open"
        /\ orders' = [orders EXCEPT ![id].st = "canceled", ![id].db = "CANCELED"]
        /\ coins' = coins + 1
        /\ pc' = "replace"
        /\ UNCHANGED <<botVars, mapVars, loopVars, dbVars, free, auxVars>>

\* The call raises: the order is no longer open, or the exchange refused; or the
\* order was canceled and the reply lost, or its row not updated.  Either way
\* the old id stays recorded.
CancelFailed ==
    LET id == pendingSell[cur.idx]
    IN  /\ pc = "cancel"
        /\ \/ /\ Rejects \/ id \notin OpenOrders("sell")
              /\ UNCHANGED <<orders, coins>>
           \/ /\ LostReplies \/ DbErrors
              /\ id \in OpenOrders("sell")
              /\ orders' = [orders EXCEPT ![id].st = "canceled"]
              /\ coins' = coins + 1
        /\ pc' = "cascade"
        /\ cur' = NoOrder
        /\ UNCHANGED <<botVars, mapVars, todo, newId, real, diff, hung, subsidy,
                       signals, dbVars, free, auxVars>>

ReplaceAccepted ==
    /\ pc = "replace"
    /\ CanSubmit
    /\ Accepted("sell")
    /\ pc' = "replaced"
    /\ UNCHANGED <<botVars, mapVars, todo, cur, real, diff, hung, subsidy,
                   signals, dbVars, auxVars>>

\* Mutant of RecordReplaced: the map keeps the canceled order.
ReplacedUntracked ==
    /\ pc = "replaced"
    /\ orders' = [orders EXCEPT ![newId].db = "OPEN"]
    /\ pc' = "cascade"
    /\ cur' = NoOrder
    /\ newId' = None
    /\ UNCHANGED <<botVars, mapVars, todo, real, diff, hung, subsidy, signals,
                   dbVars, free, coins, auxVars>>

RecordReplaced ==
    /\ pc = "replaced"
    /\ pendingSell' = Track(pendingSell, newId)
    /\ orders' = [orders EXCEPT ![newId].db = "OPEN"]
    /\ pc' = "cascade"
    /\ cur' = NoOrder
    /\ newId' = None
    /\ UNCHANGED <<botVars, pendingBuy, todo, real, diff, hung, subsidy,
                   signals, dbVars, free, coins, auxVars>>

ReplaceFailed ==
    /\ pc = "replace"
    /\ Raised("sell")
    /\ pc' = "cascade"
    /\ cur' = NoOrder
    /\ UNCHANGED <<botVars, mapVars, todo, real, diff, hung, subsidy, signals,
                   dbVars, auxVars>>

-----------------------------------------------------------------------------
(* Strategy evaluation and _handle_buy_signal *)

\* A tranche marked CLOSED does not occupy its index.
Occupied(i) == \E t \in active : t.idx = i /\ ~Sold(t.id)
FreeIdx == {i \in Tranches : ~Occupied(i)}
Buyable == {[idx |-> i, price |-> p] : i \in FreeIdx,
                                       p \in {q \in Prices : q <= available}}

\* BtcQuantumCompound may signal the first tranche and a deeper one together,
\* each against the whole available balance.
Evaluate ==
    /\ pc = "sells"
    /\ todo = {}
    /\ pc' = "signals"
    /\ signals' \in {<<>>} \cup {<<s>> : s \in Buyable}
           \cup {<<s[1], s[2]>> : s \in {r \in Buyable \X Buyable :
                                          r[1].idx < r[2].idx}}
    /\ signals' = <<>> \/ Cardinality(BuyOrders) + Len(signals') <= MaxBuys
    /\ UNCHANGED <<botVars, mapVars, todo, cur, newId, real, diff, hung, subsidy,
                   dbVars, exchangeVars, auxVars>>

\* Mutant of Rejected: the index's own resting buy is not looked up.
RejectedIfActive(s) == available < s.price \/ Occupied(s.idx)

Rejected(s) ==
    \/ Occupied(s.idx)
    \/ pendingBuy[s.idx] # None
    \/ available < s.price

SkipSignal ==
    /\ pc = "signals"
    /\ signals # <<>>
    /\ Rejected(Head(signals))
    /\ signals' = Tail(signals)
    /\ UNCHANGED <<botVars, mapVars, pc, todo, cur, newId, real, diff, hung,
                   subsidy, dbVars, exchangeVars, auxVars>>

HandleBuySignal ==
    /\ pc = "signals"
    /\ signals # <<>>
    /\ ~Rejected(Head(signals))
    /\ signals' = Tail(signals)
    /\ pc' = "placeBuy"
    /\ cur' = [idx |-> Head(signals).idx, price |-> Head(signals).price,
               tries |-> 0]
    /\ UNCHANGED <<botVars, mapVars, todo, newId, real, diff, hung, subsidy,
                   dbVars, exchangeVars, auxVars>>

BuyAccepted ==
    /\ pc = "placeBuy"
    /\ CanSubmit
    /\ Accepted("buy")
    /\ pc' = "buyPlaced"
    /\ UNCHANGED <<botVars, mapVars, todo, cur, real, diff, hung, subsidy,
                   signals, dbVars, auxVars>>

RecordBuy ==
    /\ pc = "buyPlaced"
    /\ pendingBuy' = Track(pendingBuy, newId)
    /\ orders' = [orders EXCEPT ![newId].db = "OPEN"]
    /\ pc' = "signals"
    /\ cur' = NoOrder
    /\ newId' = None
    /\ UNCHANGED <<botVars, pendingSell, todo, real, diff, hung, subsidy,
                   signals, dbVars, free, coins, auxVars>>

BuyFailed ==
    /\ pc = "placeBuy"
    /\ Raised("buy")
    /\ pc' = "signals"
    /\ cur' = NoOrder
    /\ UNCHANGED <<botVars, mapVars, todo, real, diff, hung, subsidy, signals,
                   dbVars, auxVars>>

\* The three places that await create_order retry it alike.
Resubmit ==
    /\ \/ pc = "placeBuy" /\ Retried("buy")
       \/ pc \in {"placeSell", "replace"} /\ Retried("sell")
    /\ UNCHANGED <<botVars, mapVars, pc, todo, real, diff, hung, subsidy,
                   signals, dbVars, auxVars>>

\* The telemetry event is published; the loop sleeps interval_seconds.
EndCycle ==
    /\ pc = "signals"
    /\ signals = <<>>
    /\ pc' = "sleep"
    /\ UNCHANGED <<botVars, mapVars, loopVars, dbVars, exchangeVars, auxVars>>

-----------------------------------------------------------------------------
(* API handlers (BotService) *)

\* Lifecycle handlers run on the event loop, so only while the runner awaits a
\* call or its reply: not inside its synchronous stretches.
LoopIsFree ==
    /\ pc \notin {"write", "cascade", "signals"}
    /\ pc \in {"buys", "sells"} => todo # {}

SetStatus(s) ==
    /\ LoopIsFree
    /\ status' = s
    /\ dbStatus' = s
    /\ UNCHANGED <<active, sold, moneyVars, mapVars, pc, loopVars, rows, capitalRows,
                   exchangeVars, auxVars>>

PauseBot == "PAUSED" \in Commands /\ SetStatus("PAUSED")
ResumeBot == "RUNNING" \in Commands /\ SetStatus("RUNNING")
StopBot == "STOPPED" \in Commands /\ SetStatus("STOPPED")

\* deposit_capital and withdraw_capital run in a worker thread.  What they move
\* between the reconciliation's reading of the balance and its writing is
\* overwritten.
CapitalHandler(amount) ==
    /\ transfers < MaxTransfers
    /\ pc = "write" => ThreadedApi
    /\ transfers' = transfers + 1
    /\ available' = available + amount
    /\ overwritten' = overwritten + (IF pc = "write" THEN amount ELSE 0)
    /\ UNCHANGED <<status, active, sold, invested, profit, mapVars, pc, loopVars,
                   dbStatus, rows, exchangeVars, errorVars, crashes>>

\* Mutant of DepositCapital: the total is not increased.
DepositUncounted(amount) ==
    /\ CapitalHandler(amount)
    /\ UNCHANGED <<deposited, dbDeposited, withdrawn, dbWithdrawn>>

DepositCapital(amount) ==
    /\ CapitalHandler(amount)
    /\ deposited' = deposited + amount
    /\ dbDeposited' = dbDeposited + amount
    /\ UNCHANGED <<withdrawn, dbWithdrawn>>

WithdrawCapital(amount) ==
    /\ amount <= available
    /\ CapitalHandler(-amount)
    /\ withdrawn' = withdrawn + amount
    /\ dbWithdrawn' = dbWithdrawn + amount
    /\ UNCHANGED <<deposited, dbDeposited>>

-----------------------------------------------------------------------------
(* Crash and restart: _init_default_bots, _hydrate_bot_financials *)

\* Mutants of RowsIn: a query that ignores the status; one that finds nothing.
AnyRows(st) == rows
NoRows(st) == {}

RowsIn(st) == {row \in rows : row.st = st}
Invested(S) == MapThenSumSet(LAMBDA t : t.buy, S)

Rehydrate ==
    LET open == RowsIn("ACTIVE")
    IN  /\ crashes < MaxCrashes
        /\ crashes' = crashes + 1
        /\ status' = dbStatus
        /\ active' = {[id |-> row.id, idx |-> row.idx, buy |-> row.buy,
                       target |-> row.target] : row \in open}
        /\ sold' = {} /\ unsaved' = {}
        /\ profit' = MapThenSumSet(LAMBDA row : row.profit, RowsIn("CLOSED"))
        /\ deposited' = dbDeposited
        /\ withdrawn' = dbWithdrawn
        /\ invested' = Invested(open)
        /\ available' = (IF Budget > Invested(open)
                         THEN Budget - Invested(open) ELSE 0)
                          + (dbDeposited - dbWithdrawn)
        /\ pendingBuy' = [i \in Tranches |-> None]
        /\ pendingSell' = [i \in Tranches |-> None]
        /\ pc' = "sleep"
        /\ todo' = {} /\ cur' = NoOrder /\ newId' = None
        /\ real' = 0 /\ diff' = 0
        /\ hung' = {} /\ subsidy' = 0 /\ signals' = <<>>
        /\ UNCHANGED <<dbVars, free, coins, overwritten, halfSold, transfers>>

Crash == Rehydrate /\ UNCHANGED <<orders, lost>>

\* The process dies between update_order_status, the first statement of both
\* fill handlers, and the write to table tranches.
CrashInHandler(item) ==
    /\ pc \in {"buys", "sells"}
    /\ item \in todo
    /\ Filled(item)
    /\ orders' = MarkClosed(item.id)
    /\ lost' = IF pc = "buys" THEN lost \cup {item.id} ELSE lost
    /\ Rehydrate

-----------------------------------------------------------------------------
Init ==
    /\ status = "RUNNING" /\ dbStatus = "RUNNING"
    /\ active = {} /\ sold = {} /\ rows = {}
    /\ lost = {} /\ halfSold = {} /\ unsaved = {}
    /\ available = Budget /\ invested = 0 /\ overwritten = 0
    /\ free = Budget /\ coins = 0
    /\ profit = 0
    /\ deposited = 0 /\ withdrawn = 0
    /\ dbDeposited = 0 /\ dbWithdrawn = 0
    /\ pendingBuy = [i \in Tranches |-> None]
    /\ pendingSell = [i \in Tranches |-> None]
    /\ pc = "sleep"
    /\ todo = {} /\ cur = NoOrder /\ newId = None
    /\ real = 0 /\ diff = 0
    /\ hung = {} /\ subsidy = 0 /\ signals = <<>>
    /\ orders = <<>>
    /\ transfers = 0 /\ crashes = 0

Balance == StartCycle \/ ReadBalance \/ BalanceUnknown \/ CompareBalance \/ BookDifference
Buys == BuysReconciled \/ SellAccepted \/ RecordSell \/ SellFailed
          \/ \E item \in todo : BuyStillOpen(item) \/ Activate(item)
Sells == \E item \in todo : SellStillOpen(item) \/ Close(item)
Cascade == CascadeEnds \/ Subsidize \/ CancelAccepted \/ CancelFailed
             \/ ReplaceAccepted \/ RecordReplaced \/ ReplaceFailed
Entries == Evaluate \/ SkipSignal \/ HandleBuySignal \/ BuyAccepted
             \/ RecordBuy \/ BuyFailed \/ EndCycle
Runner == Balance \/ Buys \/ Sells \/ Cascade \/ Entries \/ Resubmit

Api == \/ PauseBot \/ ResumeBot \/ StopBot
       \/ \E amount \in Prices : DepositCapital(amount) \/ WithdrawCapital(amount)
Exchange == \/ \E id \in OrderIds : Fill(id)
            \/ \E amount \in Prices : ExternalTransfer(amount) \/ ExternalTransfer(-amount)
Failure == Crash \/ \E item \in todo : CrashInHandler(item)
DbError == \/ SubsidyUnsaved
           \/ \E item \in todo :
                \/ BuyDropped(item) \/ BuyWithoutSell(item)
                \/ SaleDropped(item) \/ SaleHalfBooked(item) \/ SaleWithoutCascade(item)

Next == Runner \/ Api \/ Exchange \/ Failure \/ DbError

Spec == Init /\ [][Next]_vars

\* The event loop runs the coroutine and every exchange call returns.  Nothing
\* is assumed of the owner, the market or the API.
FairSpec == Spec /\ WF_vars(Runner)

-----------------------------------------------------------------------------
(* Safety *)

\* No index ever has two active tranches, whatever crashes in between: the
\* runner finds the tranche of a filled sell by its index alone (next(...) at
\* live_runner.py 459), so a second one would be sold on the books of the first.
\* The exception is a sale whose update_tranche raised (474): its tranche is
\* marked CLOSED in memory, and the index is bought again beside it.
OneTranchePerIndex ==
    \A t, u \in active :
        t.idx = u.idx => t = u \/ {t.id, u.id} \cap halfSold # {}

\* At most one take-profit order per index rests on the exchange: a replaced
\* order is gone before its successor is placed, in every interleaving with
\* fills, refusals and crashes (_update_resting_sell_order_price).
OneOpenSell ==
    \A i, j \in OpenOrders("sell") : orders[i].idx = orders[j].idx => i = j

\* At every await the tranches in memory are the ACTIVE rows of table tranches:
\* that is what makes a restart lose no tranche.  Their targets agree too, but
\* where the update of a subsidized one raised (live_runner.py 498-501): then
\* memory is below the row, and a restart goes back to the dearer target.  The
\* tranche of a sale whose update raised (474) may be in one and not the other.
Bought(t) == [id |-> t.id, idx |-> t.idx, buy |-> t.buy]
WholeIn(S) == {t \in S : t.id \notin halfSold}
MemoryIsDurable ==
    /\ {Bought(t) : t \in WholeIn(active)}
         = {Bought(row) : row \in WholeIn(RowsIn("ACTIVE"))}
    /\ \A t \in active, row \in RowsIn("ACTIVE") :
        t.id = row.id => IF t.id \in unsaved THEN t.target <= row.target
                         ELSE t.target = row.target

\* Each row of table tranches stands for one filled buy, and each filled buy the
\* runner has processed has one row, unless a crash or a database error came
\* between the order's status and the tranche (live_runner.py 337-390): no fill
\* is activated twice, and nothing else drops one.  What is dropped there stays
\* dropped: no later cycle or restart books it.
EveryFillOneTranche ==
    /\ \A r, s \in rows : r.id = s.id => r = s
    /\ {row.id : row \in rows}
         = {id \in BuyOrders : orders[id].db = "CLOSED"} \ lost

\* Between two cycles every active tranche has its take-profit order on the
\* exchange: resting at the target the books show, or filled, at that target or
\* at the dearer one a subsidy was about to replace.  Stated for calls that
\* succeed and statements that do not raise: a refused sell (435), a replacement
\* refused half-way (557) and a cycle cut short leave a tranche without its order.
TakeProfitResting ==
    pc = "sleep" =>
        \A t \in active :
            LET id == pendingSell[t.idx]
            IN  /\ id \in OrderIds
                /\ orders[id].side = "sell"
                /\ orders[id].idx = t.idx
                /\ \/ orders[id].st = "open" /\ orders[id].price = t.target
                   \/ orders[id].st = "closed" /\ orders[id].price >= t.target

\* Every order resting on the exchange is one the runner will ask about again,
\* or the one whose reply it is about to record.  Stated for a process that does
\* not restart (the maps are memory only), a network that loses no reply (an
\* order submitted again rests twice) and statements that do not raise: it does
\* not catch the orders those leave behind.
NoOrphanOrder ==
    \A id \in OrderIds :
        orders[id].st = "open" =>
            \/ pendingBuy[orders[id].idx] = id
            \/ pendingSell[orders[id].idx] = id
            \/ newId = id

\* A subsidy lowers a target no further than the floor under the buy price, and
\* never moves a target up or touches the price a tranche was bought at.  How
\* much of the profit it may take is not stated: live_runner.py 497-498 takes a
\* USDT value off the price of a unit, and here every tranche is one unit.
SubsidyBounded ==
    [][ \A t \in active, u \in active' :
            t.id = u.id => /\ u.buy = t.buy
                           /\ u.target <= t.target
                           /\ u.target >= t.buy - MaxDiscount ]_vars

\* The books and the account agree once nothing is outstanding.  While a buy
\* rests the balance reconciliation books its reserve as a withdrawal and the
\* fill as a deposit; when no buy rests and every fill is processed and
\* reconciled, the two cancel out up to the buy fees, which the books never
\* charge.  Stated for a subaccount nobody else moved money in, and for a
\* process that neither restarts nor meets a database error in a fill handler.
Settled ==
    /\ OpenOrders("buy") = {}
    /\ \A id \in OrderIds : orders[id].st = "closed" => orders[id].db = "CLOSED"
    /\ available = free
PhantomsCancel ==
    Settled /\ transfers = 0 =>
        withdrawn - deposited
          = Fee * Cardinality({id \in BuyOrders : orders[id].st = "closed"})

\* The balance a reconciliation that is about to write took as its own.
Liquid == IF pc = "write" THEN real + diff ELSE available

\* The books of the bot implement the abstract ledger: every step of the runner
\* and of the API handlers, capital threads that run inside the reconciliation's
\* read-then-write window included, is one booking of BotLedger or none.  With
\* its Identity, everything the bot ever owned is liquid, in a tranche, or
\* moved in that window and overwritten; the strategies size a tranche by the
\* one side and check it against the other.  A restart recomputes the books by
\* another formula (bot_service.py 92-103), so it is stated between restarts.
Books == INSTANCE BotLedger WITH available <- Liquid
ImplementsLedger == Books!Spec

(* Liveness, when no call and no statement fails *)

\* Ids an order can have: a buy leads to one sell and, when that closes, to at
\* most one replacement per other tranche.
MaxOrders == MaxBuys * (1 + Cardinality(Tranches))

\* A fill of a tracked order reaches the books unless the owner halts the bot:
\* no order is starved by the loops over the snapshots, by cascades that run in
\* between or by orders replaced while they are iterated over.
FillsAreBooked ==
    \A id \in 1..MaxOrders :
        (id \in OrderIds /\ orders[id].st = "closed" /\ status = "RUNNING")
            ~> (status # "RUNNING" \/ (id \in OrderIds /\ orders[id].db = "CLOSED"))
=============================================================================
