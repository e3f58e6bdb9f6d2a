---------------------------- MODULE LiveRunner_inv ----------------------------
(***************************************************************************)
(* The inductive invariants of LiveRunner: what the runner's maps, its     *)
(* coroutine, table tranches and the orders on the exchange say of each    *)
(* other at every await.  LiveRunner_proofs proves them for every value of *)
(* the constants; a run checks them on a small instance.                   *)
(***************************************************************************)
EXTENDS LiveRunner

Buying == {"placeBuy", "buyPlaced"}
Selling == {"placeSell", "sellPlaced"}
Replacing == {"cancel", "replace", "replaced"}
BuyPhase == {"buys"} \cup Selling
SellPhase == {"sells", "cascade"} \cup Replacing

IsOrder(id, side, i) == orders[id].side = side /\ orders[id].idx = i
ActiveAt(i) == \E t \in active : t.idx = i

\* While an order is on its way cur describes it, and only between the reply
\* and its record does newId name an order.
InFlight ==
    /\ pc \in Buying \cup Selling \cup Replacing => cur \in Pending
    /\ pc \in Buying => cur.price \in Prices
    /\ newId # None => pc \in {"buyPlaced", "sellPlaced", "replaced"}
    /\ pc = "buyPlaced" => newId # None /\ IsOrder(newId, "buy", cur.idx)
    /\ pc \in {"sellPlaced", "replaced"}
         => newId # None /\ IsOrder(newId, "sell", cur.idx)
    /\ newId # None => orders[newId].db = "none"

\* The maps name orders of the right side and index, the buys unprocessed.
MapsTracked ==
    \A i \in Tranches :
      /\ pendingBuy[i] # None => /\ IsOrder(pendingBuy[i], "buy", i)
                                 /\ orders[pendingBuy[i]].db = "OPEN"
      /\ pendingSell[i] \in OrderIds => IsOrder(pendingSell[i], "sell", i)

\* So do the snapshots the reconciliation loops iterate over.
TodoTracked ==
    /\ pc \in BuyPhase => \A item \in todo : pendingBuy[item.idx] = item.id
    /\ pc \in SellPhase =>
         \A item \in todo :
            item.id \in OrderIds => IsOrder(item.id, "sell", item.idx)

\* A buy order carries a price the strategy signaled.
BuysPriced ==
    \A id \in OrderIds : orders[id].side = "buy" => orders[id].price \in Prices

\* Each row stands for a processed buy of its own.
RowsBooked ==
    /\ \A row \in rows : /\ row.id \in OrderIds
                         /\ orders[row.id].side = "buy"
                         /\ orders[row.id].db = "CLOSED"
    /\ \A r, s \in rows : r.id = s.id => r = s

\* A processed buy has its row or was lost; a lost one was recorded once, is in
\* no map and has no row.
FillsKept ==
    /\ \A id \in BuyOrders :
          orders[id].db = "CLOSED" => id \in lost \/ \E row \in rows : row.id = id
    /\ \A id \in lost : /\ id \in OrderIds /\ orders[id].db # "none"
                        /\ \A i \in Tranches : pendingBuy[i] # id
                        /\ \A row \in rows : row.id # id

\* A tranche in memory has the row of its id: ACTIVE unless it is half sold,
\* with the same target unless that is unsaved.  An ACTIVE row has its tranche.
MemoryBooked ==
    /\ \A t \in active : \E row \in rows :
          /\ row.id = t.id /\ row.idx = t.idx /\ row.buy = t.buy
          /\ t.id \notin halfSold => row.st = "ACTIVE"
          /\ IF t.id \in unsaved THEN t.target <= row.target ELSE t.target = row.target
    /\ \A row \in rows : row.st = "ACTIVE" => \E t \in active : t.id = row.id
    /\ \A t, u \in active : t.id = u.id => t = u
    /\ \A s \in sold : s.id \in halfSold

\* An index with a resting buy, or a buy on its way, has no active tranche but
\* half-sold ones.
Taken(i) == \E t \in active : t.idx = i /\ t.id \notin halfSold
IndexReserved ==
    /\ \A i \in Tranches : pendingBuy[i] # None => ~Taken(i)
    /\ pc \in Buying => pendingBuy[cur.idx] = None /\ ~Taken(cur.idx)

\* No target is below the floor under its buy price.
AboveFloor ==
    /\ \A t \in active : t.target >= t.buy - MaxDiscount
    /\ \A row \in rows : row.target >= row.buy - MaxDiscount

\* Only database errors sell a tranche by half or leave a target unsaved.
Unharmed == ~DbErrors => sold = {} /\ halfSold = {} /\ unsaved = {}

RunnerInv == /\ OrdersTyped /\ InFlight /\ MapsTracked /\ TodoTracked
             /\ BuysPriced /\ RowsBooked /\ FillsKept /\ MemoryBooked
             /\ IndexReserved /\ OneTranchePerIndex /\ AboveFloor /\ Unharmed

\* Without database errors nothing of this has an exception.
IndexUnique == \A t, u \in active : t.idx = u.idx => t = u
IndexFree ==
    /\ \A i \in Tranches : pendingBuy[i] # None => ~ActiveAt(i)
    /\ pc \in Buying => pendingBuy[cur.idx] = None /\ ~ActiveAt(cur.idx)
Exact == IndexUnique /\ IndexFree

-----------------------------------------------------------------------------
OpenSells(i) == {id \in OpenOrders("sell") : orders[id].idx = i}

\* An open sell belongs to an active tranche, and not to a half-sold one.
SellsActive == \A id \in OpenOrders("sell") : Taken(orders[id].idx)

\* What was sold by half has its row.
HalfBooked == \A id \in halfSold : \E row \in rows : row.id = id

\* It is the one the runner tracks for the index or has just placed.
SellsTracked ==
    \A i \in Tranches :
      pendingSell[i] # None => Taken(i) /\ OpenSells(i) \subseteq {pendingSell[i], newId}

\* A sell is placed for an active tranche that has none.
SellsPlaced ==
    /\ pc \in Selling \cup Replacing => Taken(cur.idx)
    /\ pc \in {"placeSell", "replace"} => OpenSells(cur.idx) = {}
    /\ pc \in {"sellPlaced", "replaced"} => OpenSells(cur.idx) \subseteq {newId}

\* A snapshot item the cascade has overtaken names a canceled order.
SnapshotFresh ==
    /\ pc \in {"replace", "replaced"} =>
         /\ pendingSell[cur.idx] \in OrderIds
         /\ orders[pendingSell[cur.idx]].st = "canceled"
    /\ pc \in SellPhase =>
         \A item \in todo :
            item.id \in OrderIds => \/ pendingSell[item.idx] = item.id
                                    \/ orders[item.id].st = "canceled"

SellInv == /\ SellsActive /\ SellsTracked /\ SellsPlaced /\ SnapshotFresh
           /\ OneOpenSell

-----------------------------------------------------------------------------
\* What the runner has processed is filled on the exchange.
ProcessedIsFilled ==
    \A id \in OrderIds : orders[id].db = "CLOSED" => orders[id].st = "closed"

\* A tracked take-profit order belongs to an active tranche.
TrackedActive ==
    /\ \A i \in Tranches : pendingSell[i] # None => ActiveAt(i)
    /\ pc \in Selling \cup Replacing => ActiveAt(cur.idx)

FillInv == ProcessedIsFilled /\ TrackedActive /\ SnapshotFresh

-----------------------------------------------------------------------------
\* The order `id` sells the tranche, or has sold it, for what the books expect.
TakesProfit(id, t) ==
    /\ id \in OrderIds
    /\ \/ orders[id].st = "open" /\ orders[id].price = t.target
       \/ orders[id].st = "closed" /\ orders[id].price >= t.target

\* Every tranche has its take-profit order but the one whose order is being
\* placed, at the target of the tranche, or replaced.
Covered(t) ==
    IF pc \in Selling \cup Replacing /\ cur.idx = t.idx
    THEN /\ cur.price = t.target
         /\ pc = "cancel" => LET id == pendingSell[t.idx]
                             IN  /\ id \in OrderIds
                                 /\ orders[id].st \in {"open", "closed"}
                                 /\ orders[id].price >= t.target
         /\ pc \in {"sellPlaced", "replaced"} => TakesProfit(newId, t)
    ELSE TakesProfit(pendingSell[t.idx], t)

\* The account holds a coin for each filled buy that is not processed, and the
\* one an order is about to be placed for.
Unprocessed == {id \in BuyOrders : orders[id].st = "closed" /\ orders[id].db # "CLOSED"}
CoinsCounted ==
    coins = Cardinality(Unprocessed) + IF pc \in {"placeSell", "replace"} THEN 1 ELSE 0

CoverInv == CoinsCounted /\ cur.tries = 0 /\ \A t \in active : Covered(t)

-----------------------------------------------------------------------------
\* What an order makes the account differ from the books: the reserve of a buy
\* until it is processed, its fee for good, the revenue of a filled sell until
\* it is processed.
Outstanding ==
    [id \in OrderIds |->
       LET o == orders[id]
       IN  IF o.side = "buy" THEN (IF o.db = "CLOSED" THEN 0 ELSE -o.price) - Fee
           ELSE IF o.st = "closed" /\ o.db # "CLOSED" THEN o.price - Fee
           ELSE 0]

\* While nobody else moves money, the account and the books, less what the
\* balance reconciliation has booked as transfers, differ by that.
AccountExplained ==
    transfers = 0 =>
      /\ pc = "write" => diff = available - real
      /\ free - available + deposited - withdrawn = SumFunctionOnSet(Outstanding, OrderIds)

BuysNotCanceled == \A id \in BuyOrders : orders[id].st # "canceled"
SellsUnprocessed ==
    \A i \in Tranches :
        pendingSell[i] \in OrderIds => orders[pendingSell[i]].db # "CLOSED"
AccountInv == AccountExplained /\ BuysNotCanceled /\ SellsUnprocessed
=============================================================================
