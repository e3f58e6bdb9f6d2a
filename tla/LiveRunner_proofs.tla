-------------------------- MODULE LiveRunner_proofs --------------------------
(***************************************************************************)
(* What holds of one live bot for every set of tranches and prices, every  *)
(* budget, fee and bound: see the theorems at the end.                     *)
(***************************************************************************)
EXTENDS LiveRunner_inv, FoldFacts, SequenceTheorems

-----------------------------------------------------------------------------
(* Facts about the list of orders *)

LEMMA OrderAppended ==
  ASSUME orders \in Seq(Order), NEW o \in Order
  PROVE  /\ Append(orders, o) \in Seq(Order)
         /\ Len(Append(orders, o)) = Len(orders) + 1
         /\ \A id \in 1..Len(orders) : Append(orders, o)[id] = orders[id]
         /\ Append(orders, o)[Len(orders) + 1] = o
BY AppendProperties

LEMMA OrderUpdated ==
  ASSUME NEW s \in Seq(Order), NEW id \in 1..Len(s), NEW o \in Order
  PROVE  /\ [s EXCEPT ![id] = o] \in Seq(Order)
         /\ Len([s EXCEPT ![id] = o]) = Len(s)
         /\ \A j \in 1..Len(s) : [s EXCEPT ![id] = o][j] = IF j = id THEN o ELSE s[j]
BY ExceptSeq

\* The list t is s with order id changed in its exchange status, in its
\* database status, or in both.
SameOrders(s, t) ==
  /\ t \in Seq(Order) /\ Len(t) = Len(s)
  /\ \A j \in 1..Len(s) : /\ t[j].side = s[j].side /\ t[j].idx = s[j].idx
                          /\ t[j].price = s[j].price
StatusChanged(s, t, id, st) ==
  \A j \in 1..Len(s) : t[j].st = IF j = id THEN st ELSE s[j].st
DbChanged(s, t, id, db) ==
  \A j \in 1..Len(s) : t[j].db = IF j = id THEN db ELSE s[j].db

LEMMA StatusSet ==
  ASSUME NEW s \in Seq(Order), NEW id \in 1..Len(s),
         NEW v \in {"open", "closed", "canceled"}
  PROVE  /\ SameOrders(s, [s EXCEPT ![id].st = v])
         /\ StatusChanged(s, [s EXCEPT ![id].st = v], id, v)
         /\ \A j \in 1..Len(s) : [s EXCEPT ![id].st = v][j].db = s[j].db
<1>1. s[id] \in Order /\ \A j \in 1..Len(s) : s[j] \in Order
  BY ElementOfSeq
<1>2. [s[id] EXCEPT !.st = v] \in Order
  BY <1>1 DEF Order
<1>3. [s EXCEPT ![id].st = v] = [s EXCEPT ![id] = [s[id] EXCEPT !.st = v]]
  OBVIOUS
<1> QED
  BY <1>1, <1>2, <1>3, OrderUpdated DEF Order, SameOrders, StatusChanged

LEMMA DbSet ==
  ASSUME NEW s \in Seq(Order), NEW id \in 1..Len(s),
         NEW v \in {"none", "OPEN", "CLOSED", "CANCELED"}
  PROVE  /\ SameOrders(s, [s EXCEPT ![id].db = v])
         /\ DbChanged(s, [s EXCEPT ![id].db = v], id, v)
         /\ \A j \in 1..Len(s) : [s EXCEPT ![id].db = v][j].st = s[j].st
<1>1. s[id] \in Order /\ \A j \in 1..Len(s) : s[j] \in Order
  BY ElementOfSeq
<1>2. [s[id] EXCEPT !.db = v] \in Order
  BY <1>1 DEF Order
<1>3. [s EXCEPT ![id].db = v] = [s EXCEPT ![id] = [s[id] EXCEPT !.db = v]]
  OBVIOUS
<1> QED
  BY <1>1, <1>2, <1>3, OrderUpdated DEF Order, SameOrders, DbChanged

LEMMA CancelSet ==
  ASSUME NEW s \in Seq(Order), NEW id \in 1..Len(s), NEW w,
         w = [s EXCEPT ![id].st = "canceled", ![id].db = "CANCELED"]
  PROVE  /\ SameOrders(s, w)
         /\ StatusChanged(s, w, id, "canceled")
         /\ DbChanged(s, w, id, "CANCELED")
<1> DEFINE o == [s[id] EXCEPT !.st = "canceled", !.db = "CANCELED"]
<1>1. s[id] \in Order
  BY ElementOfSeq
<1>2. /\ o \in Order
      /\ o.side = s[id].side /\ o.idx = s[id].idx /\ o.price = s[id].price
      /\ o.st = "canceled" /\ o.db = "CANCELED"
  BY <1>1 DEF Order
<1>3. w = [s EXCEPT ![id] = o]
  BY <1>1, LenProperties DEF Order
<1> HIDE DEF o
<1>4. /\ w \in Seq(Order) /\ Len(w) = Len(s)
      /\ \A j \in 1..Len(s) : w[j] = IF j = id THEN o ELSE s[j]
  <2>1. /\ [s EXCEPT ![id] = o] \in Seq(Order)
        /\ Len([s EXCEPT ![id] = o]) = Len(s)
        /\ \A j \in 1..Len(s) : [s EXCEPT ![id] = o][j] = IF j = id THEN o ELSE s[j]
    BY <1>2, OrderUpdated, Zenon
  <2> QED
    BY <1>3, <2>1, Zenon
<1> QED
  BY <1>2, <1>4 DEF SameOrders, StatusChanged, DbChanged

\* An order appended to the list: the others keep their place.
OneMore(s, t, o) ==
  /\ t \in Seq(Order) /\ Len(s) \in Nat /\ Len(t) = Len(s) + 1
  /\ \A j \in 1..Len(s) : t[j] = s[j]
  /\ t[Len(s) + 1] = o

LEMMA OrderPlaced ==
  ASSUME orders \in Seq(Order), cur \in Pending, NEW side \in {"buy", "sell"}
  PROVE  OneMore(orders, Append(orders, NewOrder(side)), NewOrder(side))
<1>1. NewOrder(side) \in Order
  BY DEF NewOrder, Order, Pending
<1> QED
  BY <1>1, OrderAppended, LenProperties DEF OneMore

-----------------------------------------------------------------------------
(* The invariant of the tranches *)

LEMMA TrancheFields ==
  ASSUME NEW t \in Tranche
  PROVE  t.id \in Nat /\ t.idx \in Tranches /\ t.buy \in Int /\ t.target \in Int
<1>1. t.id \in Nat /\ t.idx \in Tranches /\ t.buy \in Prices /\ t.target \in Int
  BY DEF Tranche
<1>2. Prices \subseteq Int
  BY RunnerAssumption
<1> QED
  BY <1>1, <1>2

LEMMA ShortSeq ==
  ASSUME NEW S
  PROVE  /\ <<>> \in Seq(S)
         /\ \A r \in S : <<r>> \in Seq(S)
         /\ \A r, u \in S : <<r, u>> \in Seq(S)
OBVIOUS

\* The orders of s are in t, unchanged but for their exchange status.
KeptOrders(s, t) ==
  \A j \in 1..Len(s) : /\ j \in 1..Len(t)
                       /\ t[j].side = s[j].side /\ t[j].idx = s[j].idx
                       /\ t[j].price = s[j].price /\ t[j].db = s[j].db

LEMMA KeptByStatus ==
  ASSUME NEW s, NEW t, SameOrders(s, t), \A j \in 1..Len(s) : t[j].db = s[j].db
  PROVE  KeptOrders(s, t)
BY DEF SameOrders, KeptOrders

LEMMA KeptByPlacing ==
  ASSUME NEW s, NEW t, NEW o, OneMore(s, t, o)
  PROVE  KeptOrders(s, t)
BY DEF OneMore, KeptOrders

(* One lemma per part of the invariant: what it reads is left alone *)

LEMMA RowsFrame ==
  ASSUME RunnerInv, UNCHANGED rows, KeptOrders(orders, orders')
  PROVE  RowsBooked'
BY DEF RunnerInv, RowsBooked, KeptOrders, OrderIds

LEMMA TranchesFrame ==
  ASSUME RunnerInv, UNCHANGED <<active, sold, rows, halfSold, unsaved>>
  PROVE  (MemoryBooked /\ OneTranchePerIndex /\ AboveFloor /\ Unharmed)'
BY DEF RunnerInv, MemoryBooked, OneTranchePerIndex, AboveFloor, Unharmed

\* No buy of s becomes processed in t, and recorded orders stay recorded.
FillsStand(s, t) ==
  /\ \A j \in 1..Len(t) : t[j].side = "buy" /\ t[j].db = "CLOSED" =>
        j \in 1..Len(s) /\ s[j].side = "buy" /\ s[j].db = "CLOSED"
  /\ \A j \in 1..Len(s) : s[j].db # "none" => j \in 1..Len(t) /\ t[j].db # "none"

LEMMA FillsFrame ==
  ASSUME RunnerInv, UNCHANGED <<rows, lost, pendingBuy>>, FillsStand(orders, orders')
  PROVE  FillsKept'
BY DEF RunnerInv, FillsKept, FillsStand, OrderIds, BuyOrders

LEMMA PricesFrame ==
  ASSUME RunnerInv, KeptOrders(orders, orders'), Len(orders') = Len(orders)
  PROVE  BuysPriced'
BY DEF RunnerInv, BuysPriced, KeptOrders, OrderIds

LEMMA MapsFrame ==
  ASSUME RunnerInv, UNCHANGED <<pendingBuy, pendingSell>>, KeptOrders(orders, orders')
  PROVE  MapsTracked'
<1> SUFFICES ASSUME NEW i \in Tranches
             PROVE  /\ pendingBuy[i] # None => /\ IsOrder(pendingBuy[i], "buy", i)'
                                               /\ orders'[pendingBuy[i]].db = "OPEN"
                    /\ pendingSell[i] \in OrderIds' => IsOrder(pendingSell[i], "sell", i)'
  BY DEF MapsTracked
<1>1. /\ pendingBuy[i] \in {None} \cup 1..Len(orders)
      /\ pendingBuy[i] # None => /\ IsOrder(pendingBuy[i], "buy", i)
                                 /\ orders[pendingBuy[i]].db = "OPEN"
  BY DEF RunnerInv, OrdersTyped, MapsTracked, OrderIds
<1>2. /\ pendingSell[i] \in {None, Simulated} \cup 1..Len(orders)
      /\ pendingSell[i] \in 1..Len(orders) => IsOrder(pendingSell[i], "sell", i)
  BY DEF RunnerInv, OrdersTyped, MapsTracked, OrderIds
<1>3. pendingSell[i] \in OrderIds' => pendingSell[i] \in 1..Len(orders)
  BY <1>2 DEF OrderIds, None, Simulated
<1> QED
  BY <1>1, <1>2, <1>3 DEF IsOrder, KeptOrders

\* Steps of the coroutine that place no order and change no map.
LEMMA OrdersFrame ==
  ASSUME RunnerInv, UNCHANGED <<active, sold, rows, pendingBuy, pendingSell, orders,
                                errorVars>>
  PROVE  (RowsBooked /\ FillsKept /\ MemoryBooked /\ OneTranchePerIndex /\ AboveFloor
            /\ Unharmed /\ BuysPriced /\ MapsTracked)'
<1>1. KeptOrders(orders, orders') /\ FillsStand(orders, orders')
  BY DEF KeptOrders, FillsStand
<1>2. UNCHANGED <<lost, halfSold, unsaved>>
  BY DEF errorVars
<1> QED
  BY <1>1, <1>2, RowsFrame, TranchesFrame, FillsFrame, PricesFrame, MapsFrame

LEMMA ApiTranches ==
  ASSUME RunnerInv, Api
  PROVE  RunnerInv'
<1>1. UNCHANGED <<active, sold, rows, mapVars, orders, pc, loopVars, errorVars>>
  BY DEF Api, PauseBot, ResumeBot, StopBot, SetStatus, DepositCapital,
         WithdrawCapital, CapitalHandler, exchangeVars, auxVars
<1>2. OrdersTyped'
  <2>1. status' \in Status /\ dbStatus' \in Status
    BY DEF Api, PauseBot, ResumeBot, StopBot, SetStatus, DepositCapital,
           WithdrawCapital, CapitalHandler, Status, RunnerInv, OrdersTyped
  <2>2. transfers' \in Nat /\ crashes' \in Nat /\ UNCHANGED <<free, coins>>
    BY DEF Api, PauseBot, ResumeBot, StopBot, SetStatus, DepositCapital,
           WithdrawCapital, CapitalHandler, RunnerInv, OrdersTyped, auxVars, errorVars,
           exchangeVars
  <2> QED
    BY <1>1, <2>1, <2>2 DEF RunnerInv, OrdersTyped, OrderIds, mapVars, loopVars, errorVars
<1>3. (InFlight /\ TodoTracked /\ IndexReserved)'
  BY <1>1
  DEF auxVars, errorVars, RunnerInv, InFlight, TodoTracked, IndexReserved, IsOrder, Taken,
              OrderIds, mapVars, loopVars
<1> QED
  BY <1>1, <1>2, <1>3, OrdersFrame DEF RunnerInv, mapVars, auxVars

LEMMA BalanceTranches ==
  ASSUME RunnerInv, Balance
  PROVE  RunnerInv'
<1> USE DEF StartCycle, ReadBalance, BalanceUnknown, CompareBalance, BookDifference
<1>1. UNCHANGED <<status, active, sold, rows, mapVars, orders, free, coins, cur, newId,
                  hung, subsidy, signals, dbStatus, auxVars>>
  BY DEF Balance, loopVars, botVars, dbVars, exchangeVars
<1>2. /\ pc \in {"sleep", "balance", "apply", "write"}
      /\ pc' \in {"balance", "apply", "write", "buys"}
      /\ pc' = "buys" => todo' = Snapshot(pendingBuy)
      /\ pc' # "buys" => todo' = todo
  BY DEF Balance, loopVars
<1>3. real' \in Int
  BY DEF Balance, loopVars, RunnerInv, OrdersTyped
<1>4. \A item \in Snapshot(pendingBuy) :
        /\ item \in [idx : Tranches, id : {Simulated} \cup OrderIds]
        /\ pendingBuy[item.idx] = item.id
  BY DEF RunnerInv, OrdersTyped, Snapshot
<1>5. OrdersTyped'
  BY <1>1, <1>2, <1>3, <1>4 DEF RunnerInv, OrdersTyped, OrderIds, mapVars, auxVars, errorVars, Pcs
<1>6. InFlight' /\ IndexReserved'
  BY <1>1, <1>2
  DEF auxVars, errorVars, RunnerInv, InFlight, IndexReserved, Buying, Selling, Replacing,
                    IsOrder, Taken, mapVars
<1>7. TodoTracked'
  BY <1>1, <1>2, <1>4 DEF TodoTracked, BuyPhase, SellPhase, Selling, Replacing, mapVars
<1> QED
  BY <1>1, <1>5, <1>6, <1>7, OrdersFrame DEF RunnerInv, mapVars, auxVars

\* Steps of the coroutine between two calls that only move its own state.
LEMMA QuietTranches ==
  ASSUME RunnerInv,
         \/ BuysReconciled \/ CascadeEnds \/ EndCycle \/ SkipSignal \/ BuyFailed
         \/ ReplaceFailed \/ \E item \in todo : BuyStillOpen(item) \/ SellStillOpen(item)
  PROVE  RunnerInv'
<1> USE DEF BuysReconciled, CascadeEnds, EndCycle, SkipSignal, BuyFailed, ReplaceFailed,
            BuyStillOpen, SellStillOpen, Raised
<1>1. /\ UNCHANGED <<status, active, sold, rows, mapVars, orders, free, coins, newId, real,
                     dbStatus, auxVars>>
      /\ cur' \in {cur, NoOrder}
  BY DEF loopVars, botVars, dbVars, exchangeVars
<1>2. /\ signals' = signals \/ (signals # <<>> /\ signals' = Tail(signals))
      /\ hung' \in {hung, {}}
      /\ subsidy' \in {subsidy, 0}
  BY DEF loopVars
<1>3. \/ pc = "buys" /\ pc' = "buys" /\ todo' \subseteq todo
      \/ pc = "buys" /\ pc' = "sells" /\ todo' = Snapshot(pendingSell)
      \/ pc = "sells" /\ pc' = "sells" /\ todo' \subseteq todo
      \/ pc \in {"cascade", "replace"} /\ pc' \in {"sells", "cascade"} /\ todo' = todo
      \/ pc \in {"signals", "placeBuy"} /\ pc' \in {"signals", "sleep"} /\ todo' = todo
  BY DEF loopVars
<1>4. pc' \in {"buys", "placeBuy"} \/ cur' = NoOrder \/ cur' = cur
  BY <1>1
<1>5. \A item \in Snapshot(pendingSell) :
        /\ item \in [idx : Tranches, id : {Simulated} \cup OrderIds]
        /\ item.id \in OrderIds => IsOrder(item.id, "sell", item.idx)
  BY DEF RunnerInv, OrdersTyped, MapsTracked, Snapshot
<1>6. signals' \in Seq([idx : Tranches, price : Prices])
  <2>1. signals \in Seq([idx : Tranches, price : Prices])
    BY DEF RunnerInv, OrdersTyped
  <2>2. signals # <<>> => Tail(signals) \in Seq([idx : Tranches, price : Prices])
    BY <2>1, HeadTailProperties, Zenon
  <2> QED
    BY <1>2, <2>1, <2>2, Zenon
<1>7. pc' \in Pcs /\ todo' \subseteq [idx : Tranches, id : {Simulated} \cup OrderIds]
  BY <1>3, <1>5 DEF RunnerInv, OrdersTyped, Pcs
<1>8. OrdersTyped'
  BY <1>1, <1>2, <1>6, <1>7 DEF RunnerInv, OrdersTyped, OrderIds, mapVars, auxVars, errorVars
<1>9. newId = None
  BY <1>3 DEF RunnerInv, InFlight
<1>10. InFlight' /\ IndexReserved'
  BY <1>1, <1>3, <1>9
  DEF auxVars, errorVars, RunnerInv, InFlight, IndexReserved, Buying, Selling, Replacing,
                          Taken, mapVars
<1>11. TodoTracked'
  BY <1>1, <1>3, <1>5 DEF RunnerInv, TodoTracked, BuyPhase, SellPhase, Selling,
                          Replacing, mapVars, IsOrder, OrderIds
<1> QED
  BY <1>1, <1>8, <1>10, <1>11, OrdersFrame DEF RunnerInv, mapVars, auxVars

\* The signals the strategy gives are for free indexes and signaled prices.
LEMMA EvaluateTranches ==
  ASSUME RunnerInv, Evaluate
  PROVE  RunnerInv'
<1> USE DEF Evaluate
<1>1. UNCHANGED <<status, active, sold, rows, mapVars, orders, free, coins, newId, real, todo,
                  cur, hung, subsidy, dbStatus, auxVars>>
  BY DEF loopVars, botVars, dbVars, exchangeVars
<1>2. pc' = "signals" /\ pc = "sells"
  OBVIOUS
<1>3. signals' \in Seq([idx : Tranches, price : Prices])
  <2>1. Buyable \subseteq [idx : Tranches, price : Prices]
    BY DEF Buyable, FreeIdx
  <2>2. \/ signals' = <<>>
        \/ \E r \in Buyable : signals' = <<r>>
        \/ \E r, u \in Buyable : signals' = <<r, u>>
    OBVIOUS
  <2> QED
    BY <2>1, <2>2, ShortSeq, ZenonT(40)
<1>4. OrdersTyped'
  BY <1>1, <1>2, <1>3 DEF RunnerInv, OrdersTyped, OrderIds, mapVars, auxVars, errorVars, Pcs
<1>5. (InFlight /\ IndexReserved /\ TodoTracked)'
  BY <1>1, <1>2
  DEF auxVars, errorVars, RunnerInv, InFlight, IndexReserved, TodoTracked, Buying, Selling,
                    Replacing, BuyPhase, SellPhase, Taken, mapVars, IsOrder
<1> QED
  BY <1>1, <1>4, <1>5, OrdersFrame DEF RunnerInv, mapVars, auxVars

LEMMA SignalTranches ==
  ASSUME RunnerInv, HandleBuySignal
  PROVE  RunnerInv'
<1> USE DEF HandleBuySignal
<1>1. UNCHANGED <<status, active, sold, rows, mapVars, orders, free, coins, newId, real, todo,
                  hung, subsidy, dbStatus, auxVars>>
  BY DEF loopVars, botVars, dbVars, exchangeVars
<1>2. pc' = "placeBuy" /\ pc = "signals"
  OBVIOUS
<1>3. /\ Head(signals) \in [idx : Tranches, price : Prices]
      /\ signals' \in Seq([idx : Tranches, price : Prices])
  BY HeadTailProperties DEF RunnerInv, OrdersTyped
<1>4. cur' \in Pending /\ cur'.price \in Prices /\ cur'.idx = Head(signals).idx
  BY <1>3, RunnerAssumption DEF Pending, MaxRetries
<1>5. OrdersTyped'
  BY <1>1, <1>2, <1>3, <1>4 DEF RunnerInv, OrdersTyped, OrderIds, mapVars, auxVars, errorVars, Pcs
<1>6. InFlight' /\ TodoTracked'
  BY <1>1, <1>2, <1>4 DEF RunnerInv, InFlight, TodoTracked, Selling, Replacing, BuyPhase,
                          SellPhase
<1>7. IndexReserved'
  <2>1. pendingBuy[cur'.idx] = None /\ ~Occupied(cur'.idx)
    BY <1>4 DEF Rejected
  <2>2. \A t \in active : t.id \notin halfSold => ~Sold(t.id)
    BY DEF RunnerInv, MemoryBooked, Sold
  <2>3. ~Taken(cur'.idx)
    BY <2>1, <2>2 DEF Taken, Occupied
  <2>4. UNCHANGED <<active, halfSold, pendingBuy>>
    BY <1>1 DEF mapVars, auxVars, errorVars
  <2> QED
    BY <1>2, <2>1, <2>3, <2>4 DEF RunnerInv, IndexReserved, Taken
<1> QED
  BY <1>1, <1>5, <1>6, <1>7, OrdersFrame DEF RunnerInv, mapVars, auxVars

\* The exchange takes an order: it is the last of the list, as described by cur.
LEMMA PlacedOrders ==
  ASSUME RunnerInv, NEW side \in {"buy", "sell"}, Placed(side),
         pc \in Buying \cup Selling \cup Replacing, side = "buy" => pc \in Buying
  PROVE  /\ OneMore(orders, orders', NewOrder(side))
         /\ KeptOrders(orders, orders') /\ FillsStand(orders, orders')
         /\ free' \in Int /\ coins' \in Int
         /\ BuysPriced'
<1>1. cur \in Pending /\ orders \in Seq(Order)
  BY DEF RunnerInv, InFlight, OrdersTyped
<1>2. OneMore(orders, orders', NewOrder(side))
  BY <1>1, OrderPlaced DEF Placed
<1>3. KeptOrders(orders, orders') /\ FillsStand(orders, orders')
  BY <1>2, KeptByPlacing DEF OneMore, FillsStand, NewOrder
<1>4. free' \in Int /\ coins' \in Int
  <2>1. free \in Int /\ coins \in Int /\ Fee \in Int
    BY RunnerAssumption DEF RunnerInv, OrdersTyped
  <2> QED
    BY <1>1, <2>1 DEF Placed, Pending
<1>5. BuysPriced'
  <2>1. \A id \in 1..Len(orders) : orders[id].side = "buy" => orders[id].price \in Prices
    BY DEF RunnerInv, BuysPriced, OrderIds
  <2>2. side = "buy" => NewOrder(side).price \in Prices
    BY <1>1 DEF RunnerInv, InFlight, NewOrder
  <2>3. NewOrder(side).side = side
    BY DEF NewOrder
  <2> QED
    BY <1>2, <2>1, <2>2, <2>3 DEF BuysPriced, OrderIds, OneMore
<1> QED
  BY <1>2, <1>3, <1>4, <1>5

\* An accepted order is the one in newId until it is recorded.
LEMMA AcceptedTranches ==
  ASSUME RunnerInv, BuyAccepted \/ SellAccepted \/ ReplaceAccepted
  PROVE  RunnerInv'
<1> USE DEF BuyAccepted, SellAccepted, ReplaceAccepted, Accepted
<1> DEFINE side == IF pc = "placeBuy" THEN "buy" ELSE "sell"
<1>1. UNCHANGED <<status, active, sold, rows, mapVars, real, todo, cur, hung, subsidy, signals,
                  dbStatus, auxVars>>
  BY DEF botVars, dbVars
<1>2. \/ pc = "placeBuy" /\ pc' = "buyPlaced" /\ side = "buy"
      \/ pc = "placeSell" /\ pc' = "sellPlaced" /\ side = "sell"
      \/ pc = "replace" /\ pc' = "replaced" /\ side = "sell"
  OBVIOUS
<1>3. Placed(side) /\ newId' = Len(orders) + 1
  OBVIOUS
<1>4. side \in {"buy", "sell"} /\ side = "buy" => pc \in Buying
  BY DEF Buying
<1> HIDE DEF side, BuyAccepted, SellAccepted, ReplaceAccepted, Accepted
<1>5. /\ OneMore(orders, orders', NewOrder(side)) /\ KeptOrders(orders, orders')
      /\ FillsStand(orders, orders')
      /\ free' \in Int /\ coins' \in Int
      /\ BuysPriced'
  <2>1. pc \in Buying \cup Selling \cup Replacing /\ side \in {"buy", "sell"}
    BY <1>2 DEF Buying, Selling, Replacing
  <2> QED
    BY <1>2, <1>3, <2>1, PlacedOrders DEF Buying
<1>6. newId' \in OrderIds' /\ newId' # None
  BY <1>3, <1>5 DEF OneMore, OrderIds, None
<1>7. OrdersTyped'
  <2>1. pc' \in Pcs
    BY <1>2 DEF Pcs
  <2>2. OrderIds \subseteq OrderIds' /\ orders' \in Seq(Order)
    BY <1>5 DEF OneMore, OrderIds
  <2> QED
    BY <1>1, <1>5, <1>6, <2>1, <2>2 DEF RunnerInv, OrdersTyped, mapVars, auxVars, errorVars
<1>8. InFlight'
  <2>1. /\ orders'[newId'].side = side /\ orders'[newId'].idx = cur.idx
        /\ orders'[newId'].db = "none"
    BY <1>3, <1>5 DEF OneMore, NewOrder
  <2>2. /\ cur' \in Pending
        /\ pc' \in Buying => cur'.price \in Prices
    BY <1>1, <1>2 DEF RunnerInv, InFlight, Buying, Selling, Replacing
  <2> QED
    BY <1>1, <1>2, <1>6, <2>1, <2>2 DEF InFlight, IsOrder
<1>9. IndexReserved'
  BY <1>1, <1>2 DEF auxVars, errorVars, RunnerInv, IndexReserved, Buying, Taken, mapVars
<1>10. TodoTracked'
  <2>1. todo \subseteq [idx : Tranches, id : {Simulated} \cup OrderIds]
    BY DEF RunnerInv, OrdersTyped
  <2>2. \A item \in todo : item.id \in OrderIds' => item.id \in OrderIds
    BY <2>1, <1>5 DEF OneMore, OrderIds, Simulated
  <2>3. \A id \in OrderIds : IsOrder(id, "sell", orders[id].idx) =>
                             orders'[id].side = "sell" /\ orders'[id].idx = orders[id].idx
    BY <1>5 DEF KeptOrders, OrderIds, IsOrder
  <2> QED
    BY <1>1, <1>2, <2>2, <2>3 DEF RunnerInv, TodoTracked, BuyPhase, SellPhase, Selling,
                                  Replacing, mapVars, IsOrder
<1> QED
  BY <1>1, <1>5, <1>7, <1>8, <1>9, <1>10, RowsFrame, TranchesFrame, FillsFrame, MapsFrame
  DEF RunnerInv, mapVars, auxVars, errorVars

\* The database status of one order changes.
LEMMA DbOrders ==
  ASSUME RunnerInv, NEW id \in OrderIds,
         NEW v \in {"none", "OPEN", "CLOSED", "CANCELED"},
         orders' = [orders EXCEPT ![id].db = v]
  PROVE  /\ SameOrders(orders, orders') /\ DbChanged(orders, orders', id, v)
         /\ \A j \in 1..Len(orders) : orders'[j].st = orders[j].st
         /\ BuysPriced'
<1>1. orders \in Seq(Order) /\ id \in 1..Len(orders)
  BY DEF RunnerInv, OrdersTyped, OrderIds
<1>2. /\ SameOrders(orders, orders') /\ DbChanged(orders, orders', id, v)
      /\ \A j \in 1..Len(orders) : orders'[j].st = orders[j].st
  <2>1. /\ SameOrders(orders, [orders EXCEPT ![id].db = v])
        /\ DbChanged(orders, [orders EXCEPT ![id].db = v], id, v)
        /\ \A j \in 1..Len(orders) : [orders EXCEPT ![id].db = v][j].st = orders[j].st
    BY <1>1, DbSet, ZenonT(40)
  <2> QED
    BY <2>1, Zenon
<1>3. BuysPriced'
  BY <1>2 DEF RunnerInv, BuysPriced, SameOrders, OrderIds
<1> QED
  BY <1>2, <1>3

\* Recording an accepted buy: its index joins the map of resting buys.
LEMMA RecordBuyTranches ==
  ASSUME RunnerInv, RecordBuy
  PROVE  RunnerInv'
<1>1. /\ UNCHANGED <<status, active, sold, rows, pendingSell, free, coins, real, todo, hung,
                     subsidy, signals, dbStatus, auxVars>>
      /\ cur' = NoOrder /\ newId' = None
      /\ pc = "buyPlaced" /\ pc' = "signals"
      /\ pendingBuy' = [pendingBuy EXCEPT ![cur.idx] = newId]
      /\ orders' = [orders EXCEPT ![newId].db = "OPEN"]
  BY DEF RecordBuy, botVars, dbVars, Track
<1>2. /\ newId \in OrderIds /\ IsOrder(newId, "buy", cur.idx)
      /\ orders[newId].db = "none" /\ cur \in Pending
  BY <1>1 DEF RunnerInv, InFlight, OrdersTyped, Buying
<1>3. /\ SameOrders(orders, orders') /\ DbChanged(orders, orders', newId, "OPEN")
      /\ BuysPriced'
  BY <1>1, <1>2, DbOrders
<1>4. pendingBuy \in [Tranches -> {None} \cup OrderIds] /\ cur.idx \in Tranches
  BY <1>2 DEF RunnerInv, OrdersTyped, Pending
<1>5. OrdersTyped'
  <2>1. pendingBuy' \in [Tranches -> {None} \cup OrderIds]
    BY <1>1, <1>2, <1>4
  <2>2. OrderIds' = OrderIds /\ orders' \in Seq(Order)
    BY <1>3 DEF SameOrders, OrderIds
  <2> QED
    BY <1>1, <2>1, <2>2 DEF RunnerInv, OrdersTyped, auxVars, errorVars, Pcs
<1>6. InFlight' /\ TodoTracked'
  BY <1>1 DEF InFlight, TodoTracked, Buying, Selling, Replacing, BuyPhase, SellPhase
<1>7. MapsTracked'
  <2> SUFFICES ASSUME NEW i \in Tranches
               PROVE  /\ pendingBuy'[i] # None =>
                           /\ IsOrder(pendingBuy[i], "buy", i)'
                           /\ orders'[pendingBuy'[i]].db = "OPEN"
                      /\ pendingSell'[i] \in OrderIds' => IsOrder(pendingSell[i], "sell", i)'
    BY DEF MapsTracked
  <2>1. pendingBuy[i] # None => /\ pendingBuy[i] \in 1..Len(orders)
                                /\ IsOrder(pendingBuy[i], "buy", i)
                                /\ orders[pendingBuy[i]].db = "OPEN"
    BY <1>4 DEF RunnerInv, MapsTracked, OrderIds
  <2>2. pendingBuy'[i] = IF i = cur.idx THEN newId ELSE pendingBuy[i]
    BY <1>1, <1>4
  <2>3. pendingSell[i] \in OrderIds' => IsOrder(pendingSell[i], "sell", i)
    BY <1>3 DEF RunnerInv, MapsTracked, SameOrders, OrderIds
  <2> QED
    BY <1>1, <1>2, <1>3, <2>1, <2>2, <2>3 DEF IsOrder, SameOrders, DbChanged, OrderIds
<1>8. RowsBooked'
  BY <1>1, <1>2, <1>3 DEF RunnerInv, RowsBooked, SameOrders, DbChanged, OrderIds
<1>9. IndexReserved'
  <2>1. \A i \in Tranches : pendingBuy'[i] = IF i = cur.idx THEN newId ELSE pendingBuy[i]
    BY <1>1, <1>4
  <2>2. ~Taken(cur.idx) /\ \A i \in Tranches : pendingBuy[i] # None => ~Taken(i)
    BY <1>1 DEF auxVars, errorVars, RunnerInv, IndexReserved, Buying
  <2> QED
    BY <1>1, <2>1, <2>2 DEF auxVars, errorVars, IndexReserved, Buying, Taken
<1>10. FillsKept'
  <2>1. newId \notin lost
    BY <1>2 DEF RunnerInv, FillsKept
  <2>2. \A i \in Tranches : pendingBuy'[i] \in {newId, pendingBuy[i]}
    BY <1>1, <1>4
  <2> QED
    BY <1>1, <1>2, <1>3, <2>1, <2>2
    DEF RunnerInv, FillsKept, SameOrders, DbChanged, OrderIds, BuyOrders, auxVars, errorVars
<1> QED
  BY <1>1, <1>3, <1>5, <1>6, <1>7, <1>8, <1>9, <1>10, TranchesFrame
  DEF RunnerInv, auxVars, errorVars

\* Recording a sell, new or replaced, or the failure to place one.
LEMMA RecordSellTranches ==
  ASSUME RunnerInv, RecordSell \/ RecordReplaced
  PROVE  RunnerInv'
<1>1. /\ UNCHANGED <<status, active, sold, rows, pendingBuy, free, coins, real, todo, hung,
                     subsidy, signals, dbStatus, auxVars>>
      /\ cur' = NoOrder /\ newId' = None
      /\ pendingSell' = [pendingSell EXCEPT ![cur.idx] = newId]
      /\ orders' = [orders EXCEPT ![newId].db = "OPEN"]
  BY DEF RecordSell, RecordReplaced, botVars, dbVars, Track
<1>2. \/ pc = "sellPlaced" /\ pc' = "buys"
      \/ pc = "replaced" /\ pc' = "cascade"
  BY DEF RecordSell, RecordReplaced
<1>3. /\ newId \in OrderIds /\ IsOrder(newId, "sell", cur.idx) /\ cur \in Pending
      /\ orders[newId].db = "none"
  BY <1>2 DEF RunnerInv, InFlight, OrdersTyped, Selling, Replacing
<1>4. /\ SameOrders(orders, orders') /\ DbChanged(orders, orders', newId, "OPEN")
      /\ BuysPriced'
  BY <1>1, <1>3, DbOrders
<1>5. /\ pendingSell \in [Tranches -> {None, Simulated} \cup OrderIds]
      /\ cur.idx \in Tranches
  BY <1>3 DEF RunnerInv, OrdersTyped, Pending
<1>6. \A i \in Tranches : pendingSell'[i] = IF i = cur.idx THEN newId ELSE pendingSell[i]
  BY <1>1, <1>5
<1>7. OrdersTyped'
  <2>1. pendingSell' \in [Tranches -> {None, Simulated} \cup OrderIds]
    BY <1>1, <1>3, <1>5
  <2>2. OrderIds' = OrderIds /\ orders' \in Seq(Order)
    BY <1>4 DEF SameOrders, OrderIds
  <2> QED
    BY <1>1, <1>2, <2>1, <2>2 DEF RunnerInv, OrdersTyped, auxVars, errorVars, Pcs
<1>8. InFlight' /\ IndexReserved'
  BY <1>1, <1>2
  DEF auxVars, errorVars, RunnerInv, InFlight, IndexReserved, Buying, Selling, Replacing, Taken
<1>9. TodoTracked'
  BY <1>1, <1>2, <1>4 DEF RunnerInv, TodoTracked, BuyPhase, SellPhase, Selling, Replacing,
                          IsOrder, SameOrders, OrderIds
<1>10. MapsTracked'
  <2> SUFFICES ASSUME NEW i \in Tranches
               PROVE  /\ pendingBuy'[i] # None =>
                           /\ IsOrder(pendingBuy[i], "buy", i)'
                           /\ orders'[pendingBuy'[i]].db = "OPEN"
                      /\ pendingSell'[i] \in OrderIds' => IsOrder(pendingSell[i], "sell", i)'
    BY DEF MapsTracked
  <2>1. pendingBuy[i] # None => /\ pendingBuy[i] \in 1..Len(orders)
                                /\ IsOrder(pendingBuy[i], "buy", i)
                                /\ orders[pendingBuy[i]].db = "OPEN"
    BY DEF RunnerInv, OrdersTyped, MapsTracked, OrderIds
  <2>2. pendingSell[i] \in 1..Len(orders) => IsOrder(pendingSell[i], "sell", i)
    BY DEF RunnerInv, MapsTracked, OrderIds
  <2> QED
    BY <1>1, <1>3, <1>4, <1>6, <2>1, <2>2 DEF IsOrder, SameOrders, DbChanged, OrderIds
<1>11. RowsBooked'
  BY <1>1, <1>3, <1>4 DEF RunnerInv, RowsBooked, SameOrders, DbChanged, OrderIds
<1>12. FillsStand(orders, orders')
  BY <1>3, <1>4 DEF FillsStand, SameOrders, DbChanged, OrderIds
<1> QED
  BY <1>1, <1>4, <1>7, <1>8, <1>9, <1>10, <1>11, <1>12, TranchesFrame, FillsFrame
  DEF RunnerInv, auxVars, errorVars

LEMMA SellFailedTranches ==
  ASSUME RunnerInv, SellFailed
  PROVE  RunnerInv'
<1>1. /\ UNCHANGED <<status, active, sold, rows, pendingBuy, orders, free, coins, newId, real,
                     todo, hung, subsidy, signals, dbStatus, auxVars>>
      /\ cur' = NoOrder /\ pc = "placeSell" /\ pc' = "buys"
      /\ pendingSell' = [pendingSell EXCEPT ![cur.idx] = Simulated]
  BY DEF SellFailed, Raised, botVars, dbVars, Track, exchangeVars
<1>2. /\ pendingSell \in [Tranches -> {None, Simulated} \cup OrderIds]
      /\ cur.idx \in Tranches
  BY <1>1 DEF RunnerInv, OrdersTyped, InFlight, Pending, Selling
<1>3. \A i \in Tranches :
         pendingSell'[i] = IF i = cur.idx THEN Simulated ELSE pendingSell[i]
  BY <1>1, <1>2
<1>4. OrdersTyped'
  <2>1. pendingSell' \in [Tranches -> {None, Simulated} \cup OrderIds]
    BY <1>1, <1>2
  <2> QED
    BY <1>1, <2>1 DEF RunnerInv, OrdersTyped, auxVars, errorVars, Pcs, OrderIds
<1>5. (InFlight /\ IndexReserved /\ TodoTracked)'
  BY <1>1
  DEF auxVars, errorVars, RunnerInv, InFlight, IndexReserved, TodoTracked, Buying, Selling, Replacing,
              BuyPhase, SellPhase, Taken
<1>6. MapsTracked'
  BY <1>1, <1>3 DEF RunnerInv, MapsTracked, IsOrder, OrderIds, Simulated
<1>7. (RowsBooked /\ BuysPriced)'
  BY <1>1 DEF RunnerInv, RowsBooked, BuysPriced, OrderIds
<1>8. FillsStand(orders, orders')
  BY <1>1 DEF FillsStand
<1> QED
  BY <1>1, <1>4, <1>5, <1>6, <1>7, <1>8, TranchesFrame, FillsFrame
  DEF RunnerInv, auxVars, errorVars

\* A cancel, whether its reply arrives or not, leaves the maps alone.
LEMMA CancelTranches ==
  ASSUME RunnerInv, CancelAccepted \/ CancelFailed
  PROVE  RunnerInv'
<1> DEFINE id == pendingSell[cur.idx]
<1>1. /\ UNCHANGED <<status, active, sold, rows, mapVars, free, newId, real, todo, hung, subsidy,
                     signals, dbStatus, auxVars>>
      /\ pc = "cancel"
      /\ \/ pc' = "replace" /\ cur' = cur
         \/ pc' = "cascade" /\ cur' = NoOrder
      /\ coins' = coins \/ coins' = coins + 1
  BY DEF CancelAccepted, CancelFailed, botVars, dbVars, exchangeVars, loopVars
<1>2. cur \in Pending /\ newId = None
  BY <1>1 DEF RunnerInv, InFlight, Replacing
<1>3. orders \in Seq(Order)
  BY DEF RunnerInv, OrdersTyped
<1>4. id \in OrderIds => orders[id].side = "sell"
  BY <1>2 DEF RunnerInv, MapsTracked, IsOrder, Pending
<1>5. \/ orders' = orders
      \/ /\ id \in OrderIds
         /\ orders' = [orders EXCEPT ![id].st = "canceled"]
      \/ /\ id \in OrderIds
         /\ orders' = [orders EXCEPT ![id].st = "canceled", ![id].db = "CANCELED"]
  BY DEF CancelAccepted, CancelFailed, OpenOrders
<1> HIDE DEF id
<1>6. /\ SameOrders(orders, orders')
      /\ \A j \in 1..Len(orders) :
            /\ orders[j].side = "buy" => orders'[j].db = orders[j].db
            /\ orders'[j].db \in {orders[j].db, "CANCELED"}
  <2>1. CASE orders' = orders
    BY <1>3, <2>1 DEF SameOrders
  <2>2. CASE /\ id \in OrderIds
             /\ orders' = [orders EXCEPT ![id].st = "canceled"]
    <3>1. "canceled" \in {"open", "closed", "canceled"} /\ id \in 1..Len(orders)
      BY <2>2 DEF OrderIds
    <3>2. /\ SameOrders(orders, [orders EXCEPT ![id].st = "canceled"])
          /\ \A j \in 1..Len(orders) :
               [orders EXCEPT ![id].st = "canceled"][j].db = orders[j].db
      BY <1>3, <3>1, StatusSet, Zenon
    <3> QED
      BY <2>2, <3>2, Zenon
  <2>3. CASE /\ id \in OrderIds
             /\ orders' = [orders EXCEPT ![id].st = "canceled", ![id].db = "CANCELED"]
    <3>1. SameOrders(orders, orders') /\ DbChanged(orders, orders', id, "CANCELED")
      BY <1>3, <2>3, CancelSet, Zenon DEF OrderIds
    <3> QED
      BY <1>4, <2>3, <3>1 DEF DbChanged
  <2> QED
    BY <1>5, <2>1, <2>2, <2>3
<1>7. OrderIds' = OrderIds
  BY <1>6 DEF SameOrders, OrderIds
<1>8. OrdersTyped'
  BY <1>1, <1>6, <1>7 DEF RunnerInv, OrdersTyped, auxVars, errorVars, Pcs, SameOrders, mapVars
<1>9. InFlight' /\ IndexReserved'
  BY <1>1, <1>2
  DEF auxVars, errorVars, RunnerInv, InFlight, IndexReserved, Buying, Selling, Replacing, Taken,
                    mapVars
<1>10. TodoTracked'
  BY <1>1, <1>6 DEF RunnerInv, TodoTracked, BuyPhase, SellPhase, Selling, Replacing,
                    IsOrder, SameOrders, OrderIds, mapVars
<1>11. MapsTracked'
  <2>1. \A i \in Tranches : pendingBuy[i] # None => pendingBuy[i] \in 1..Len(orders)
    BY DEF RunnerInv, OrdersTyped, OrderIds
  <2> QED
    BY <1>1, <1>6, <2>1 DEF RunnerInv, MapsTracked, IsOrder, SameOrders, OrderIds, mapVars
<1>12. (RowsBooked /\ BuysPriced)'
  BY <1>1, <1>6 DEF RunnerInv, RowsBooked, BuysPriced, SameOrders, OrderIds
<1>13. FillsStand(orders, orders')
  BY <1>6 DEF FillsStand, SameOrders
<1> QED
  BY <1>1, <1>8, <1>9, <1>10, <1>11, <1>12, <1>13, TranchesFrame, FillsFrame
  DEF RunnerInv, auxVars, errorVars, mapVars

\* A retry may leave an order behind that nobody tracks.
LEMMA ResubmitTranches ==
  ASSUME RunnerInv, Resubmit
  PROVE  RunnerInv'
<1>1. /\ UNCHANGED <<status, active, sold, rows, mapVars, newId, real, todo, hung, subsidy,
                     signals, dbStatus, auxVars, pc>>
      /\ pc \in {"placeBuy", "placeSell", "replace"}
      /\ cur' = [cur EXCEPT !.tries = @ + 1] /\ cur.tries < MaxRetries
  BY DEF Resubmit, Retried, botVars, dbVars
<1>2. cur \in Pending /\ newId = None
  BY <1>1 DEF RunnerInv, InFlight, Buying, Selling, Replacing
<1>3. cur' \in Pending /\ cur'.idx = cur.idx /\ cur'.price = cur.price
  BY <1>1, <1>2 DEF Pending, MaxRetries
<1>4. /\ KeptOrders(orders, orders') /\ FillsStand(orders, orders')
      /\ BuysPriced' /\ OrderIds \subseteq OrderIds'
      /\ orders' \in Seq(Order) /\ free' \in Int /\ coins' \in Int
  <2>1. CASE UNCHANGED exchangeVars
    BY <2>1 DEF RunnerInv, OrdersTyped, BuysPriced, KeptOrders, FillsStand, exchangeVars,
                OrderIds
  <2>2. CASE pc = "placeBuy" /\ Placed("buy")
    BY <2>2, PlacedOrders DEF Buying, OneMore, OrderIds
  <2>3. CASE pc \in {"placeSell", "replace"} /\ Placed("sell")
    BY <2>3, PlacedOrders DEF Selling, Replacing, OneMore, OrderIds
  <2> QED
    BY <2>1, <2>2, <2>3 DEF Resubmit, Retried
<1>5. OrdersTyped'
  BY <1>1, <1>3, <1>4 DEF RunnerInv, OrdersTyped, auxVars, errorVars, mapVars
<1>6. InFlight' /\ IndexReserved'
  BY <1>1, <1>2, <1>3
  DEF auxVars, errorVars, RunnerInv, InFlight, IndexReserved, Buying, Selling, Replacing,
                          Taken, mapVars
<1>7. TodoTracked'
  <2>1. todo \subseteq [idx : Tranches, id : {Simulated} \cup OrderIds]
    BY DEF RunnerInv, OrdersTyped
  <2>2. \A item \in todo : item.id \in OrderIds' => item.id \in OrderIds
    BY <2>1 DEF OrderIds, Simulated
  <2> QED
    BY <1>1, <1>4, <2>2 DEF RunnerInv, TodoTracked, BuyPhase, SellPhase, Selling,
                            Replacing, mapVars, IsOrder, KeptOrders, OrderIds
<1> QED
  BY <1>1, <1>4, <1>5, <1>6, <1>7, RowsFrame, TranchesFrame, FillsFrame, MapsFrame
  DEF RunnerInv, mapVars, auxVars, errorVars
-----------------------------------------------------------------------------
(* A filled buy *)

\* The order of a filled buy was recorded, and its index is free.
LEMMA BuyTaken ==
  ASSUME RunnerInv, NEW item \in todo, TakeBuy(item)
  PROVE  /\ item.id \in OrderIds /\ item.id # None /\ item.id \in Nat
         /\ item.idx \in Tranches
         /\ IsOrder(item.id, "buy", item.idx) /\ orders[item.id].db = "OPEN"
         /\ orders[item.id].price \in Prices
         /\ ~Taken(item.idx) /\ newId = None
         /\ pendingBuy' \in [Tranches -> {None} \cup OrderIds]
         /\ \A i \in Tranches :
               pendingBuy'[i] = IF i = item.idx THEN None ELSE pendingBuy[i]
         /\ \A i \in Tranches : pendingBuy'[i] # item.id
<1>1. /\ pc = "buys" /\ item.id \in OrderIds
      /\ pendingBuy' = [pendingBuy EXCEPT ![item.idx] = None]
  BY DEF TakeBuy, Filled
<1>2. /\ item \in [idx : Tranches, id : {Simulated} \cup OrderIds]
      /\ pendingBuy \in [Tranches -> {None} \cup OrderIds]
      /\ pendingBuy[item.idx] = item.id
  BY <1>1 DEF RunnerInv, OrdersTyped, TodoTracked, BuyPhase
<1>3. item.id # None /\ item.id \in Nat
  BY <1>1 DEF None, OrderIds
<1>4. /\ IsOrder(item.id, "buy", item.idx) /\ orders[item.id].db = "OPEN"
      /\ ~Taken(item.idx)
  BY <1>2, <1>3 DEF RunnerInv, MapsTracked, IndexReserved
<1>5. orders[item.id].price \in Prices
  BY <1>1, <1>4 DEF RunnerInv, BuysPriced, IsOrder
<1>6. /\ \A i \in Tranches :
            pendingBuy'[i] = IF i = item.idx THEN None ELSE pendingBuy[i]
      /\ pendingBuy' \in [Tranches -> {None} \cup OrderIds]
  BY <1>1, <1>2
<1>7. \A i \in Tranches : pendingBuy[i] = item.id => i = item.idx
  BY <1>3, <1>4 DEF RunnerInv, MapsTracked, IsOrder
<1>8. newId = None
  BY <1>1 DEF RunnerInv, InFlight
<1> QED
  BY <1>1, <1>2, <1>3, <1>4, <1>5, <1>6, <1>7, <1>8

\* Its order is marked or not, and leaves the map.
LEMMA BuyMarked ==
  ASSUME RunnerInv, NEW item \in todo, TakeBuy(item),
         orders' = orders \/ orders' = MarkClosed(item.id)
  PROVE  /\ SameOrders(orders, orders') /\ BuysPriced' /\ MapsTracked'
         /\ OrderIds' = OrderIds /\ orders' \in Seq(Order)
         /\ \A j \in 1..Len(orders) : j # item.id => orders'[j].db = orders[j].db
         /\ orders'[item.id].db # "none"
         /\ orders' = MarkClosed(item.id) => orders'[item.id].db = "CLOSED"
<1>1. /\ item.id \in OrderIds /\ IsOrder(item.id, "buy", item.idx)
      /\ orders[item.id].db = "OPEN" /\ item.idx \in Tranches
      /\ \A i \in Tranches :
            pendingBuy'[i] = IF i = item.idx THEN None ELSE pendingBuy[i]
      /\ \A i \in Tranches : pendingBuy'[i] # item.id
  BY BuyTaken
<1>2. /\ SameOrders(orders, orders') /\ BuysPriced'
      /\ \A j \in 1..Len(orders) : j # item.id => orders'[j].db = orders[j].db
      /\ orders'[item.id].db # "none"
      /\ orders' = MarkClosed(item.id) => orders'[item.id].db = "CLOSED"
  <2>1. CASE orders' = MarkClosed(item.id)
    <3>1. SameOrders(orders, orders') /\ DbChanged(orders, orders', item.id, "CLOSED")
          /\ BuysPriced'
      BY <1>1, <2>1, DbOrders DEF MarkClosed
    <3> QED
      BY <1>1, <3>1 DEF DbChanged, OrderIds
  <2>2. CASE orders' = orders /\ orders' # MarkClosed(item.id)
    BY <1>1, <2>2 DEF RunnerInv, OrdersTyped, BuysPriced, SameOrders, OrderIds
  <2> QED
    BY <2>1, <2>2
<1>3. OrderIds' = OrderIds /\ orders' \in Seq(Order)
  BY <1>2 DEF SameOrders, OrderIds
<1>4. MapsTracked'
  <2> SUFFICES ASSUME NEW i \in Tranches
               PROVE  /\ pendingBuy'[i] # None =>
                           /\ IsOrder(pendingBuy[i], "buy", i)'
                           /\ orders'[pendingBuy'[i]].db = "OPEN"
                      /\ pendingSell'[i] \in OrderIds' => IsOrder(pendingSell[i], "sell", i)'
    BY DEF MapsTracked
  <2>1. pendingBuy[i] # None => /\ pendingBuy[i] \in 1..Len(orders)
                                /\ IsOrder(pendingBuy[i], "buy", i)
                                /\ orders[pendingBuy[i]].db = "OPEN"
    BY DEF RunnerInv, OrdersTyped, MapsTracked, OrderIds
  <2>2. pendingSell[i] \in 1..Len(orders) => IsOrder(pendingSell[i], "sell", i)
    BY DEF RunnerInv, MapsTracked, OrderIds
  <2>3. pendingSell' = pendingSell
    BY DEF TakeBuy
  <2> QED
    BY <1>1, <1>2, <1>3, <2>1, <2>2, <2>3 DEF IsOrder, SameOrders, OrderIds
<1> QED
  BY <1>2, <1>3, <1>4

\* Booked, it opens the only tranche of its index but half-sold ones.
LEMMA BuyBooked ==
  ASSUME RunnerInv, NEW item \in todo, TakeBuy(item), BookBuy(item)
  PROVE  /\ active' \subseteq Tranche /\ rows' \subseteq Row
         /\ (RowsBooked /\ FillsKept /\ MemoryBooked /\ OneTranchePerIndex
               /\ AboveFloor /\ Unharmed)'
         /\ \A i \in Tranches : pendingBuy'[i] # None => ~Taken(i)'
<1> DEFINE id == item.id
           price == orders[id].price
           tranche == [id |-> id, idx |-> item.idx, buy |-> price,
                       target |-> price + TakeProfit]
           row == [id |-> id, idx |-> item.idx, buy |-> price,
                   target |-> price + TakeProfit, st |-> "ACTIVE", profit |-> 0]
<1>1. /\ UNCHANGED <<sold, lost, halfSold, unsaved>>
      /\ active' = active \cup {tranche} /\ rows' = rows \cup {row}
      /\ orders' = MarkClosed(id)
  BY DEF BookBuy, auxVars, errorVars
<1>2. /\ id \in OrderIds /\ id # None /\ id \in Nat /\ item.idx \in Tranches
      /\ IsOrder(id, "buy", item.idx) /\ orders[id].db = "OPEN" /\ price \in Prices
      /\ ~Taken(item.idx)
      /\ \A i \in Tranches :
            pendingBuy'[i] = IF i = item.idx THEN None ELSE pendingBuy[i]
      /\ \A i \in Tranches : pendingBuy'[i] # id
  BY BuyTaken
<1>3. /\ SameOrders(orders, orders') /\ OrderIds' = OrderIds
      /\ \A j \in 1..Len(orders) : j # id => orders'[j].db = orders[j].db
      /\ orders'[id].db = "CLOSED"
  BY <1>1, BuyMarked
<1>4. price \in Int /\ price + TakeProfit \in Int
      /\ price + TakeProfit >= price - MaxDiscount
  <2>1. price \in Prices /\ Prices \subseteq Nat /\ TakeProfit \in Nat /\ MaxDiscount \in Nat
    BY <1>2, RunnerAssumption
  <2>2. price \in Nat
    BY <2>1
  <2> QED
    BY <2>1, <2>2
<1>5. tranche \in Tranche /\ row \in Row
  BY <1>2, <1>4 DEF Tranche, Row
<1>6. active' \subseteq Tranche /\ rows' \subseteq Row
  BY <1>1, <1>5 DEF RunnerInv, OrdersTyped
<1>7. /\ row.id = id /\ row.idx = tranche.idx /\ row.buy = tranche.buy
      /\ row.target = tranche.target /\ row.st = "ACTIVE"
      /\ tranche.id = id /\ tranche.idx = item.idx
      /\ tranche.target >= tranche.buy - MaxDiscount /\ tranche.target \in Int
  BY <1>4
<1> HIDE DEF tranche, row, price
<1>8. \A r \in rows : r.id # id
  BY <1>2 DEF RunnerInv, RowsBooked
<1>9. RowsBooked'
  <2>1. \A r \in rows : r.id \in OrderIds' /\ orders'[r.id].side = "buy"
                                           /\ orders'[r.id].db = "CLOSED"
    BY <1>3, <1>8 DEF RunnerInv, RowsBooked, SameOrders, OrderIds
  <2>2. row.id \in OrderIds' /\ orders'[row.id].side = "buy"
                             /\ orders'[row.id].db = "CLOSED"
    BY <1>2, <1>3, <1>7 DEF SameOrders, OrderIds, IsOrder
  <2>3. \A r, u \in rows : r.id = u.id => r = u
    BY DEF RunnerInv, RowsBooked
  <2> QED
    BY <1>1, <1>7, <1>8, <2>1, <2>2, <2>3 DEF RowsBooked
<1>10. FillsKept'
  <2>1. id \notin lost
    <3>1. pendingBuy[item.idx] = id
      BY DEF RunnerInv, TodoTracked, BuyPhase, TakeBuy
    <3> QED
      BY <1>2, <3>1 DEF RunnerInv, FillsKept
  <2>2. \A j \in BuyOrders' : orders'[j].db = "CLOSED" => j = id \/ (j \in BuyOrders /\ orders[j].db = "CLOSED")
    BY <1>3 DEF BuyOrders, OrderIds, SameOrders
  <2>3. \A j \in lost : /\ j \in OrderIds' /\ orders'[j].db # "none"
                        /\ \A i \in Tranches : pendingBuy'[i] # j
                        /\ \A r \in rows' : r.id # j
    <3>1. SUFFICES ASSUME NEW j \in lost
                   PROVE  /\ j \in OrderIds' /\ orders'[j].db # "none"
                          /\ \A i \in Tranches : pendingBuy'[i] # j
                          /\ \A r \in rows' : r.id # j
      OBVIOUS
    <3>2. /\ j \in OrderIds /\ orders[j].db # "none" /\ j # None
          /\ \A i \in Tranches : pendingBuy[i] # j
          /\ \A r \in rows : r.id # j
      BY DEF RunnerInv, FillsKept, OrderIds, None
    <3> QED
      BY <1>1, <1>2, <1>3, <1>7, <2>1, <3>2 DEF OrderIds
  <2> QED
    BY <1>1, <1>7, <2>2, <2>3 DEF RunnerInv, FillsKept
<1>11. MemoryBooked'
  <2>1. \A t \in active : t.id # id
    BY <1>8 DEF RunnerInv, MemoryBooked
  <2>2. \A t \in active' : \E r \in rows' :
          /\ r.id = t.id /\ r.idx = t.idx /\ r.buy = t.buy
          /\ t.id \notin halfSold => r.st = "ACTIVE"
          /\ IF t.id \in unsaved THEN t.target <= r.target ELSE t.target = r.target
    BY <1>1, <1>7 DEF RunnerInv, MemoryBooked
  <2>3. \A r \in rows' : r.st = "ACTIVE" => \E t \in active' : t.id = r.id
    BY <1>1, <1>7 DEF RunnerInv, MemoryBooked
  <2> QED
    BY <1>1, <1>7, <2>1, <2>2, <2>3 DEF RunnerInv, MemoryBooked
<1>12. OneTranchePerIndex'
  BY <1>1, <1>2, <1>7 DEF RunnerInv, OneTranchePerIndex, Taken
<1>13. AboveFloor'
  BY <1>1, <1>7 DEF RunnerInv, AboveFloor
<1>14. Unharmed'
  BY <1>1 DEF RunnerInv, Unharmed
<1>15. \A i \in Tranches : pendingBuy'[i] # None => ~Taken(i)'
  BY <1>1, <1>2, <1>7 DEF RunnerInv, IndexReserved, Taken
<1> QED
  BY <1>6, <1>9, <1>10, <1>11, <1>12, <1>13, <1>14, <1>15

LEMMA ActivateTranches ==
  ASSUME RunnerInv, NEW item \in todo, Activate(item)
  PROVE  RunnerInv'
<1>1. /\ TakeBuy(item) /\ BookBuy(item)
      /\ UNCHANGED <<newId, real, hung, subsidy, signals>>
      /\ pc' = "placeSell" /\ todo' = todo \ {item}
      /\ cur' = [idx |-> item.idx, price |-> orders[item.id].price + TakeProfit, tries |-> 0]
  BY DEF Activate
<1>2. /\ UNCHANGED <<status, sold, pendingSell, free, coins, dbStatus, auxVars>>
      /\ orders' = MarkClosed(item.id) /\ pc = "buys"
  BY <1>1 DEF TakeBuy, BookBuy
<1>3. /\ item.idx \in Tranches /\ orders[item.id].price \in Prices
      /\ pendingBuy' \in [Tranches -> {None} \cup OrderIds]
      /\ \A i \in Tranches :
            pendingBuy'[i] = IF i = item.idx THEN None ELSE pendingBuy[i]
  BY <1>1, BuyTaken
<1>4. /\ BuysPriced' /\ MapsTracked' /\ OrderIds' = OrderIds /\ orders' \in Seq(Order)
  BY <1>1, <1>2, BuyMarked
<1>5. /\ active' \subseteq Tranche /\ rows' \subseteq Row
      /\ (RowsBooked /\ FillsKept /\ MemoryBooked /\ OneTranchePerIndex
            /\ AboveFloor /\ Unharmed)'
      /\ \A i \in Tranches : pendingBuy'[i] # None => ~Taken(i)'
  BY <1>1, BuyBooked
<1>6. cur' \in Pending
  <2>1. Prices \subseteq Int /\ TakeProfit \in Int
    BY RunnerAssumption
  <2>2. orders[item.id].price + TakeProfit \in Int /\ item.idx \in Tranches
    <3>1. orders[item.id].price \in Prices /\ item.idx \in Tranches
      BY <1>3
    <3>2. orders[item.id].price \in Int
      BY <2>1, <3>1
    <3> QED
      BY <2>1, <3>1, <3>2
  <2>3. cur' = [idx |-> item.idx, price |-> orders[item.id].price + TakeProfit, tries |-> 0]
    BY <1>1
  <2> QED
    BY <2>2, <2>3 DEF Pending, MaxRetries
<1>7. OrdersTyped'
  BY <1>1, <1>2, <1>3, <1>4, <1>5, <1>6
  DEF RunnerInv, OrdersTyped, auxVars, errorVars, Pcs
<1>8. InFlight' /\ IndexReserved'
  BY <1>1, <1>2, <1>5, <1>6 DEF RunnerInv, InFlight, IndexReserved, Buying, Selling, Replacing
<1>9. TodoTracked'
  <2>1. ASSUME NEW other \in todo, other # item PROVE pendingBuy'[other.idx] = other.id
    <3>1. /\ other \in [idx : Tranches, id : {Simulated} \cup OrderIds]
          /\ pendingBuy[other.idx] = other.id
          /\ item \in [idx : Tranches, id : {Simulated} \cup OrderIds]
          /\ pendingBuy[item.idx] = item.id
      BY <1>2 DEF RunnerInv, OrdersTyped, TodoTracked, BuyPhase
    <3>2. other.idx # item.idx
      BY <2>1, <3>1
    <3> QED
      BY <1>3, <3>1, <3>2
  <2> QED
    BY <1>1, <2>1 DEF TodoTracked, SellPhase, Replacing
<1> QED
  BY <1>4, <1>5, <1>7, <1>8, <1>9 DEF RunnerInv

\* An exception sends the coroutine back to sleep.
LEMMA CycleAborted ==
  ASSUME RunnerInv, CycleAborts, pc \in {"buys", "sells", "cascade"}
  PROVE  /\ InFlight' /\ TodoTracked' /\ pc' \in Pcs /\ pc' \notin Buying
         /\ UNCHANGED <<newId, real, signals, cur>>
         /\ todo' = {} /\ hung' = {} /\ subsidy' = 0
<1>1. newId = None
  BY DEF RunnerInv, InFlight
<1> QED
  BY <1>1 DEF CycleAborts, InFlight, TodoTracked, Buying, Selling, Replacing, BuyPhase,
              SellPhase, Pcs

LEMMA BuyDroppedTranches ==
  ASSUME RunnerInv, NEW item \in todo, BuyDropped(item)
  PROVE  RunnerInv'
<1>1. /\ TakeBuy(item) /\ CycleAborts
      /\ orders' = orders \/ orders' = MarkClosed(item.id)
      /\ lost' = lost \cup {item.id}
      /\ UNCHANGED <<status, active, sold, rows, pendingSell, free, coins, dbStatus,
                     halfSold, unsaved, transfers, crashes>>
      /\ pc = "buys"
  BY DEF BuyDropped, TakeBuy, botVars, dbVars
<1>2. /\ item.id \in OrderIds /\ item.id \in Nat /\ item.id # None
      /\ IsOrder(item.id, "buy", item.idx) /\ orders[item.id].db = "OPEN"
      /\ pendingBuy' \in [Tranches -> {None} \cup OrderIds]
      /\ \A i \in Tranches :
            pendingBuy'[i] = IF i = item.idx THEN None ELSE pendingBuy[i]
      /\ \A i \in Tranches : pendingBuy'[i] # item.id
  BY <1>1, BuyTaken
<1>3. /\ SameOrders(orders, orders') /\ BuysPriced' /\ MapsTracked'
      /\ OrderIds' = OrderIds /\ orders' \in Seq(Order)
      /\ \A j \in 1..Len(orders) : j # item.id => orders'[j].db = orders[j].db
      /\ orders'[item.id].db # "none"
  BY <1>1, BuyMarked
<1>4. /\ InFlight' /\ TodoTracked' /\ pc' \in Pcs /\ pc' \notin Buying
      /\ UNCHANGED <<newId, real, signals, cur>>
      /\ todo' = {} /\ hung' = {} /\ subsidy' = 0
  BY <1>1, CycleAborted
<1>5. OrdersTyped'
  BY <1>1, <1>2, <1>3, <1>4 DEF RunnerInv, OrdersTyped
<1>6. \A r \in rows : r.id # item.id
  BY <1>2 DEF RunnerInv, RowsBooked
<1>7. RowsBooked'
  BY <1>1, <1>3, <1>6 DEF RunnerInv, RowsBooked, SameOrders, OrderIds
<1>8. FillsKept'
  <2>1. \A j \in BuyOrders' : orders'[j].db = "CLOSED" =>
            j = item.id \/ (j \in BuyOrders /\ orders[j].db = "CLOSED")
    BY <1>3 DEF BuyOrders, OrderIds, SameOrders
  <2>2. ASSUME NEW j \in lost'
        PROVE  /\ j \in OrderIds' /\ orders'[j].db # "none"
               /\ \A i \in Tranches : pendingBuy'[i] # j
               /\ \A r \in rows' : r.id # j
    <3>1. CASE j = item.id
      BY <1>1, <1>2, <1>3, <1>6, <3>1
    <3>2. CASE j # item.id
      <4>1. /\ j \in OrderIds /\ orders[j].db # "none" /\ j # None
            /\ \A i \in Tranches : pendingBuy[i] # j
            /\ \A r \in rows : r.id # j
        BY <1>1, <3>2 DEF RunnerInv, FillsKept, OrderIds, None
      <4> QED
        BY <1>1, <1>2, <1>3, <3>2, <4>1 DEF OrderIds
    <3> QED
      BY <3>1, <3>2
  <2> QED
    BY <1>1, <2>1, <2>2 DEF RunnerInv, FillsKept
<1>9. IndexReserved'
  BY <1>1, <1>2, <1>4 DEF RunnerInv, IndexReserved, Taken
<1> QED
  BY <1>1, <1>3, <1>4, <1>5, <1>7, <1>8, <1>9, TranchesFrame DEF RunnerInv

LEMMA BuyWithoutSellTranches ==
  ASSUME RunnerInv, NEW item \in todo, BuyWithoutSell(item)
  PROVE  RunnerInv'
<1>1. TakeBuy(item) /\ BookBuy(item) /\ CycleAborts
  BY DEF BuyWithoutSell
<1>2. /\ UNCHANGED <<status, sold, pendingSell, free, coins, dbStatus, auxVars>>
      /\ orders' = MarkClosed(item.id) /\ pc = "buys"
  BY <1>1 DEF TakeBuy, BookBuy
<1>3. pendingBuy' \in [Tranches -> {None} \cup OrderIds]
  BY <1>1, BuyTaken
<1>4. /\ BuysPriced' /\ MapsTracked' /\ OrderIds' = OrderIds /\ orders' \in Seq(Order)
  BY <1>1, <1>2, BuyMarked
<1>5. /\ active' \subseteq Tranche /\ rows' \subseteq Row
      /\ (RowsBooked /\ FillsKept /\ MemoryBooked /\ OneTranchePerIndex
            /\ AboveFloor /\ Unharmed)'
      /\ \A i \in Tranches : pendingBuy'[i] # None => ~Taken(i)'
  BY <1>1, BuyBooked
<1>6. /\ InFlight' /\ TodoTracked' /\ pc' \in Pcs /\ pc' \notin Buying
      /\ UNCHANGED <<newId, real, signals, cur>>
      /\ todo' = {} /\ hung' = {} /\ subsidy' = 0
  BY <1>1, <1>2, CycleAborted
<1>7. OrdersTyped'
  BY <1>2, <1>3, <1>4, <1>5, <1>6 DEF RunnerInv, OrdersTyped, auxVars, errorVars
<1>8. IndexReserved'
  BY <1>5, <1>6 DEF IndexReserved
<1> QED
  BY <1>4, <1>5, <1>6, <1>7, <1>8 DEF RunnerInv

-----------------------------------------------------------------------------
(* An active tranche t is saved as u: its row, and no other, changes *)

LEMMA SavedRow ==
  ASSUME RunnerInv, NEW t \in active, NEW u \in Tranche, u.id = t.id,
         NEW st \in {"ACTIVE", "CLOSED"}, NEW gain \in Int
  PROVE  \E old \in rows, new \in Row :
            /\ old.id = t.id /\ old.idx = t.idx /\ old.buy = t.buy
            /\ new.id = old.id /\ new.idx = old.idx /\ new.buy = old.buy
            /\ new.target = u.target /\ new.st = st
            /\ Saved(u, st, gain) = (rows \ {old}) \cup {new}
            /\ \A r \in rows : r.id = t.id => r = old
<1>1. PICK old \in rows : old.id = t.id /\ old.idx = t.idx /\ old.buy = t.buy
  BY DEF RunnerInv, MemoryBooked
<1>2. old \in Row
  BY DEF RunnerInv, OrdersTyped
<1>3. \A r \in rows : r.id = t.id => r = old
  BY <1>1 DEF RunnerInv, RowsBooked
<1> DEFINE new == [old EXCEPT !.target = u.target, !.st = st, !.profit = gain]
<1>4. /\ new \in Row
      /\ new.id = old.id /\ new.idx = old.idx /\ new.buy = old.buy
      /\ new.target = u.target /\ new.st = st
  BY <1>2 DEF Row, Tranche
<1>6. Saved(u, st, gain) = {IF r.id = t.id THEN new ELSE r : r \in rows}
  <2> DEFINE F(r) == IF r.id = u.id
                     THEN [r EXCEPT !.target = u.target, !.st = st, !.profit = gain]
                     ELSE r
             G(r) == IF r.id = t.id THEN new ELSE r
  <2>1. \A r \in rows : F(r) = G(r)
    BY <1>3
  <2>2. Saved(u, st, gain) = {F(r) : r \in rows}
    BY DEF Saved
  <2> HIDE DEF F, G
  <2>3. Saved(u, st, gain) = {G(r) : r \in rows}
    BY <2>1, <2>2
  <2> QED
    BY <2>3 DEF G
<1> HIDE DEF new
<1>7. Saved(u, st, gain) = (rows \ {old}) \cup {new}
  BY <1>1, <1>3, <1>6
<1> QED
  BY <1>1, <1>3, <1>4, <1>7

\* What the rows name stays the same, and memory stays booked.
RowsRenewed ==
  /\ rows' \subseteq Row
  /\ \A r, v \in rows' : r.id = v.id => r = v
  /\ \A r \in rows' : \E q \in rows : q.id = r.id
  /\ \A q \in rows : \E r \in rows' : r.id = q.id

\* The tranche is sold: it leaves memory and its row is closed.
LEMMA SoldTranche ==
  ASSUME RunnerInv, NEW t \in active, NEW gain \in Int,
         rows' = Saved(t, "CLOSED", gain), active' = active \ {t},
         sold' \subseteq sold, UNCHANGED <<halfSold, unsaved>>
  PROVE  RowsRenewed /\ MemoryBooked' /\ AboveFloor'
<1>1. t \in Tranche /\ "CLOSED" \in {"ACTIVE", "CLOSED"}
  BY DEF RunnerInv, OrdersTyped
<1>2. PICK old \in rows, new \in Row :
            /\ old.id = t.id /\ old.idx = t.idx /\ old.buy = t.buy
            /\ new.id = old.id /\ new.idx = old.idx /\ new.buy = old.buy
            /\ new.target = t.target /\ new.st = "CLOSED"
            /\ rows' = (rows \ {old}) \cup {new}
            /\ \A r \in rows : r.id = t.id => r = old
  <2> HIDE DEF Saved
  <2> QED
    BY <1>1, SavedRow
<1>3. RowsRenewed
  BY <1>2 DEF RunnerInv, OrdersTyped, RowsBooked, RowsRenewed
<1>4. MemoryBooked'
  <2>1. \A v \in active' : v \in active /\ v.id # t.id
    BY DEF RunnerInv, MemoryBooked
  <2>2. \A v \in active' : \E row \in rows' :
          /\ row.id = v.id /\ row.idx = v.idx /\ row.buy = v.buy
          /\ v.id \notin halfSold => row.st = "ACTIVE"
          /\ IF v.id \in unsaved THEN v.target <= row.target ELSE v.target = row.target
    BY <1>2, <2>1 DEF RunnerInv, MemoryBooked
  <2>3. \A row \in rows' : row.st = "ACTIVE" => \E v \in active' : v.id = row.id
    BY <1>2 DEF RunnerInv, MemoryBooked
  <2> QED
    BY <2>1, <2>2, <2>3 DEF RunnerInv, MemoryBooked
<1>5. AboveFloor'
  BY <1>2 DEF RunnerInv, AboveFloor
<1> QED
  BY <1>3, <1>4, <1>5

\* The tranche changes its target, in memory and in its row.
LEMMA SavedTranche ==
  ASSUME RunnerInv, NEW t \in active, NEW u \in Tranche, u.id = t.id,
         u.idx = t.idx, u.buy = t.buy,
         NEW st \in {"ACTIVE", "CLOSED"}, NEW gain \in Int,
         st = "CLOSED" => t.id \in halfSold,
         rows' = Saved(u, st, gain), active' = (active \ {t}) \cup {u},
         UNCHANGED <<sold, halfSold>>, unsaved' = unsaved \ {t.id},
         u.target >= u.buy - MaxDiscount
  PROVE  RowsRenewed /\ MemoryBooked' /\ AboveFloor'
<1>2. PICK old \in rows, new \in Row :
            /\ old.id = t.id /\ old.idx = t.idx /\ old.buy = t.buy
            /\ new.id = old.id /\ new.idx = old.idx /\ new.buy = old.buy
            /\ new.target = u.target /\ new.st = st
            /\ rows' = (rows \ {old}) \cup {new}
            /\ \A r \in rows : r.id = t.id => r = old
  <2> HIDE DEF Saved
  <2> QED
    BY SavedRow
<1>3. RowsRenewed
  BY <1>2 DEF RunnerInv, OrdersTyped, RowsBooked, RowsRenewed
<1>4. MemoryBooked'
  <2>1. \A v \in active' : v = u \/ (v \in active /\ v.id # t.id)
    BY DEF RunnerInv, MemoryBooked
  <2>2. ASSUME NEW v \in active'
        PROVE  \E row \in rows' :
          /\ row.id = v.id /\ row.idx = v.idx /\ row.buy = v.buy
          /\ v.id \notin halfSold => row.st = "ACTIVE"
          /\ IF v.id \in unsaved' THEN v.target <= row.target ELSE v.target = row.target
    <3>1. CASE v = u
      <4>1. u.id \notin unsaved' /\ u.idx = new.idx /\ u.buy = new.buy /\ new \in rows'
        BY <1>2
      <4> QED
        BY <1>2, <3>1, <4>1
    <3>2. CASE v \in active /\ v.id # t.id
      BY <1>2, <3>2 DEF RunnerInv, MemoryBooked
    <3> QED
      BY <2>1, <3>1, <3>2
  <2>3. \A row \in rows' : row.st = "ACTIVE" => \E v \in active' : v.id = row.id
    BY <1>2 DEF RunnerInv, MemoryBooked
  <2> QED
    BY <2>1, <2>2, <2>3 DEF RunnerInv, MemoryBooked
<1>5. AboveFloor'
  BY <1>2 DEF RunnerInv, AboveFloor
<1> QED
  BY <1>3, <1>4, <1>5

\* Rows that keep their ids stay booked while the buys keep their status.
LEMMA RowsKept ==
  ASSUME RunnerInv, RowsRenewed, SameOrders(orders, orders'),
         FillsStand(orders, orders'), UNCHANGED lost,
         \A j \in OrderIds : orders[j].side = "buy" => orders'[j].db = orders[j].db,
         UNCHANGED pendingBuy
  PROVE  RowsBooked' /\ FillsKept'
<1>1. RowsBooked'
  BY DEF RunnerInv, RowsRenewed, RowsBooked, SameOrders, OrderIds
<1>2. FillsKept'
  BY DEF RunnerInv, RowsRenewed, FillsKept, FillsStand, SameOrders, OrderIds, BuyOrders
<1> QED
  BY <1>1, <1>2

-----------------------------------------------------------------------------
(* A filled sell *)

LEMMA SellTaken ==
  ASSUME RunnerInv, NEW item \in todo, TakeSell(item),
         orders' = orders \/ orders' = MarkClosed(item.id)
  PROVE  /\ newId = None /\ pc = "sells" /\ UNCHANGED pendingBuy
         /\ item.id \in OrderIds /\ IsOrder(item.id, "sell", item.idx)
         /\ orders[item.id].price \in Int
         /\ pendingSell' \in [Tranches -> {None, Simulated} \cup OrderIds]
         /\ SameOrders(orders, orders') /\ BuysPriced' /\ MapsTracked'
         /\ OrderIds' = OrderIds /\ orders' \in Seq(Order)
         /\ FillsStand(orders, orders')
         /\ \A j \in OrderIds : orders[j].side = "buy" => orders'[j].db = orders[j].db
<1>1. /\ pc = "sells" /\ item.id \in OrderIds /\ UNCHANGED pendingBuy
      /\ pendingSell' = [pendingSell EXCEPT ![item.idx] = None]
  BY DEF TakeSell, Filled
<1>2. /\ item \in [idx : Tranches, id : {Simulated} \cup OrderIds]
      /\ pendingSell \in [Tranches -> {None, Simulated} \cup OrderIds]
      /\ IsOrder(item.id, "sell", item.idx)
  BY <1>1 DEF RunnerInv, OrdersTyped, TodoTracked, SellPhase
<1>3. /\ SameOrders(orders, orders') /\ BuysPriced' /\ FillsStand(orders, orders')
      /\ \A j \in OrderIds : orders[j].side = "buy" => orders'[j].db = orders[j].db
  <2>1. CASE orders' = MarkClosed(item.id)
    <3>1. SameOrders(orders, orders') /\ DbChanged(orders, orders', item.id, "CLOSED")
          /\ BuysPriced'
      BY <1>1, <2>1, DbOrders DEF MarkClosed
    <3> QED
      BY <1>1, <1>2, <3>1 DEF DbChanged, OrderIds, SameOrders, FillsStand, IsOrder
  <2>2. CASE orders' = orders
    BY <2>2 DEF RunnerInv, OrdersTyped, BuysPriced, SameOrders, FillsStand, OrderIds
  <2> QED
    BY <2>1, <2>2
<1>4. OrderIds' = OrderIds /\ orders' \in Seq(Order)
  BY <1>3 DEF SameOrders, OrderIds
<1>5. \A i \in Tranches : pendingSell'[i] = IF i = item.idx THEN None ELSE pendingSell[i]
  BY <1>1, <1>2
<1>6. MapsTracked'
  <2> SUFFICES ASSUME NEW i \in Tranches
               PROVE  /\ pendingBuy'[i] # None =>
                           /\ IsOrder(pendingBuy[i], "buy", i)'
                           /\ orders'[pendingBuy'[i]].db = "OPEN"
                      /\ pendingSell'[i] \in OrderIds' => IsOrder(pendingSell[i], "sell", i)'
    BY DEF MapsTracked
  <2>1. pendingBuy[i] # None => /\ pendingBuy[i] \in OrderIds
                                /\ IsOrder(pendingBuy[i], "buy", i)
                                /\ orders[pendingBuy[i]].db = "OPEN"
    BY DEF RunnerInv, OrdersTyped, MapsTracked
  <2>2. pendingSell[i] \in OrderIds => IsOrder(pendingSell[i], "sell", i)
    BY DEF RunnerInv, MapsTracked
  <2>3. None \notin OrderIds
    BY DEF None, OrderIds
  <2> QED
    BY <1>1, <1>3, <1>4, <1>5, <2>1, <2>2, <2>3 DEF IsOrder, SameOrders, OrderIds
<1>7. pendingSell' \in [Tranches -> {None, Simulated} \cup OrderIds]
  BY <1>1, <1>2
<1>8. orders[item.id].price \in Int
  <2>1. orders[item.id] \in Order
    BY <1>1, ElementOfSeq DEF RunnerInv, OrdersTyped, OrderIds
  <2> QED
    BY <2>1 DEF Order
<1>9. newId = None
  BY <1>1 DEF RunnerInv, InFlight
<1> QED
  BY <1>1, <1>2, <1>3, <1>4, <1>6, <1>7, <1>8, <1>9

\* A booked sale takes the tranche out of memory and closes its row.
LEMMA SaleBooked ==
  ASSUME RunnerInv, NEW item \in todo, TakeSell(item), NEW t \in active, BookSale(item, t)
  PROVE  /\ active' \subseteq active /\ rows' \subseteq Row
         /\ sold' \subseteq sold /\ Gain(item, t) \in Int
         /\ orders' = MarkClosed(item.id)
         /\ UNCHANGED <<status, dbStatus, free, coins, auxVars>>
         /\ (RowsBooked /\ FillsKept /\ MemoryBooked /\ OneTranchePerIndex
               /\ AboveFloor /\ Unharmed)'
<1>1. /\ orders' = MarkClosed(item.id) /\ active' = active \ {t}
      /\ sold' \subseteq sold /\ rows' = Saved(t, "CLOSED", Gain(item, t))
      /\ UNCHANGED <<status, dbStatus, free, coins, auxVars, lost, halfSold, unsaved>>
  BY DEF BookSale, auxVars, errorVars
<1>2. /\ SameOrders(orders, orders') /\ FillsStand(orders, orders') /\ UNCHANGED pendingBuy
      /\ \A j \in OrderIds : orders[j].side = "buy" => orders'[j].db = orders[j].db
      /\ orders[item.id].price \in Int
  BY <1>1, SellTaken
<1>3. Gain(item, t) \in Int
  <2>1. t.buy \in Int /\ Fee \in Int
    BY TrancheFields, RunnerAssumption DEF RunnerInv, OrdersTyped
  <2> QED
    BY <1>2, <2>1 DEF Gain, Revenue
<1>4. RowsRenewed /\ MemoryBooked' /\ AboveFloor'
  <2> HIDE DEF Gain
  <2> QED
    BY <1>1, <1>3, SoldTranche
<1>5. RowsBooked' /\ FillsKept'
  BY <1>1, <1>2, <1>4, RowsKept
<1>6. OneTranchePerIndex' /\ Unharmed'
  BY <1>1 DEF RunnerInv, OneTranchePerIndex, Unharmed
<1> QED
  BY <1>1, <1>3, <1>4, <1>5, <1>6 DEF RowsRenewed

\* A filled sell closes the tranche of its index, if there is one.
LEMMA CloseTranches ==
  ASSUME RunnerInv, NEW item \in todo, Close(item)
  PROVE  RunnerInv'
<1>1. /\ TakeSell(item) /\ todo' = todo \ {item}
      /\ UNCHANGED <<cur, newId, real, signals>>
      /\ orders' = MarkClosed(item.id)
      /\ pc' \in {"sells", "cascade"}
  BY DEF Close, CloseNothing, BookSale, TakeSell
<1>2. /\ newId = None /\ pc = "sells" /\ UNCHANGED pendingBuy
      /\ pendingSell' \in [Tranches -> {None, Simulated} \cup OrderIds]
      /\ SameOrders(orders, orders') /\ BuysPriced' /\ MapsTracked'
      /\ OrderIds' = OrderIds /\ orders' \in Seq(Order)
      /\ FillsStand(orders, orders')
      /\ \A j \in OrderIds : orders[j].side = "buy" => orders'[j].db = orders[j].db
  BY <1>1, SellTaken
<1>3. /\ active' \subseteq active /\ rows' \subseteq Row /\ sold' \subseteq sold
      /\ UNCHANGED <<status, dbStatus, free, coins, auxVars>>
      /\ (RowsBooked /\ FillsKept /\ MemoryBooked /\ OneTranchePerIndex
            /\ AboveFloor /\ Unharmed)'
      /\ hung' \subseteq Nat /\ subsidy' \in Int
  <2>1. CASE CloseNothing(item)
    <3>1. /\ UNCHANGED <<active, sold, rows, status, dbStatus, free, coins, auxVars, lost,
                         halfSold, unsaved, hung, subsidy>>
      BY <2>1 DEF CloseNothing, botVars, dbVars, auxVars, errorVars
    <3>2. (MemoryBooked /\ OneTranchePerIndex /\ AboveFloor /\ Unharmed)'
      BY <3>1, TranchesFrame
    <3>3. RowsRenewed
      BY <3>1 DEF RowsRenewed, RunnerInv, OrdersTyped, RowsBooked
    <3>4. RowsBooked' /\ FillsKept'
      BY <1>2, <3>1, <3>3, RowsKept
    <3> QED
      BY <3>1, <3>2, <3>4 DEF RunnerInv, OrdersTyped
  <2>2. ASSUME NEW t \in active, BookSale(item, t),
               \/ /\ subsidy' = Gain(item, t) \div RecycleDiv
                  /\ hung' = {u.id : u \in {v \in active \ {t} : v.buy > t.buy}}
               \/ UNCHANGED <<hung, subsidy>>
        PROVE  /\ active' \subseteq active /\ rows' \subseteq Row /\ sold' \subseteq sold
               /\ UNCHANGED <<status, dbStatus, free, coins, auxVars>>
               /\ (RowsBooked /\ FillsKept /\ MemoryBooked /\ OneTranchePerIndex
                     /\ AboveFloor /\ Unharmed)'
               /\ hung' \subseteq Nat /\ subsidy' \in Int
    <3>1. /\ active' \subseteq active /\ rows' \subseteq Row
          /\ sold' \subseteq sold /\ Gain(item, t) \in Int
          /\ UNCHANGED <<status, dbStatus, free, coins, auxVars>>
          /\ (RowsBooked /\ FillsKept /\ MemoryBooked /\ OneTranchePerIndex
                /\ AboveFloor /\ Unharmed)'
      BY <1>1, <2>2, SaleBooked
    <3>2. hung \subseteq Nat /\ subsidy \in Int /\ \A u \in active : u.id \in Nat
      BY TrancheFields DEF RunnerInv, OrdersTyped
    <3>3. subsidy' \in Int
      <4>1. RecycleDiv \in Nat \ {0}
        BY RunnerAssumption
      <4> HIDE DEF Gain
      <4> QED
        BY <2>2, <3>1, <3>2, <4>1
    <3>4. hung' \subseteq Nat
      <4> HIDE DEF Gain
      <4> QED
        BY <2>2, <3>2
    <3> QED
      BY <3>1, <3>3, <3>4
  <2> QED
    BY <2>1, <2>2 DEF Close
<1>4. OrdersTyped'
  <2>1. todo' \subseteq [idx : Tranches, id : {Simulated} \cup OrderIds']
    BY <1>1, <1>2 DEF RunnerInv, OrdersTyped
  <2> QED
    BY <1>1, <1>2, <1>3, <2>1 DEF RunnerInv, OrdersTyped, auxVars, errorVars, Pcs
<1>5. InFlight'
  BY <1>1, <1>2 DEF RunnerInv, InFlight, Buying, Selling, Replacing
<1>6. IndexReserved'
  BY <1>1, <1>2, <1>3 DEF RunnerInv, IndexReserved, Buying, Taken, auxVars, errorVars
<1>7. TodoTracked'
  BY <1>1, <1>2 DEF RunnerInv, TodoTracked, BuyPhase, SellPhase, Selling, IsOrder,
                    SameOrders, OrderIds
<1> QED
  BY <1>2, <1>3, <1>4, <1>5, <1>6, <1>7 DEF RunnerInv

LEMMA SaleDroppedTranches ==
  ASSUME RunnerInv, NEW item \in todo, SaleDropped(item)
  PROVE  RunnerInv'
<1>1. /\ TakeSell(item) /\ CycleAborts
      /\ UNCHANGED <<status, active, sold, rows, orders, free, coins, dbStatus, auxVars>>
  BY DEF SaleDropped, botVars, dbVars, exchangeVars
<1>2. /\ newId = None /\ pc = "sells" /\ UNCHANGED pendingBuy
      /\ pendingSell' \in [Tranches -> {None, Simulated} \cup OrderIds]
      /\ SameOrders(orders, orders') /\ BuysPriced' /\ MapsTracked'
      /\ OrderIds' = OrderIds /\ orders' \in Seq(Order)
      /\ FillsStand(orders, orders')
  BY <1>1, SellTaken
<1>3. /\ InFlight' /\ TodoTracked' /\ pc' \in Pcs /\ pc' \notin Buying
      /\ UNCHANGED <<newId, real, signals, cur>>
      /\ todo' = {} /\ hung' = {} /\ subsidy' = 0
  BY <1>1, <1>2, CycleAborted
<1>4. OrdersTyped'
  BY <1>1, <1>2, <1>3 DEF RunnerInv, OrdersTyped, auxVars, errorVars
<1>5. IndexReserved'
  BY <1>1, <1>2, <1>3 DEF RunnerInv, IndexReserved, Taken, auxVars, errorVars
<1>6. RowsBooked'
  BY <1>1 DEF RunnerInv, RowsBooked, OrderIds
<1> QED
  BY <1>1, <1>2, <1>3, <1>4, <1>5, <1>6, TranchesFrame, FillsFrame
  DEF RunnerInv, auxVars, errorVars

LEMMA SaleHalfBookedTranches ==
  ASSUME RunnerInv, NEW item \in todo, SaleHalfBooked(item)
  PROVE  RunnerInv'
<1>1. PICK t \in active :
         /\ TakeSell(item) /\ CycleAborts /\ orders' = MarkClosed(item.id)
         /\ sold' = {s \in sold : s.id # t.id} \cup {[id |-> t.id, gain |-> Gain(item, t)]}
         /\ halfSold' = halfSold \cup {t.id}
         /\ UNCHANGED <<status, active, rows, free, coins, dbStatus, lost, unsaved,
                        transfers, crashes>>
  BY DEF SaleHalfBooked, dbVars
<1>2. /\ newId = None /\ pc = "sells" /\ UNCHANGED pendingBuy
      /\ pendingSell' \in [Tranches -> {None, Simulated} \cup OrderIds]
      /\ SameOrders(orders, orders') /\ BuysPriced' /\ MapsTracked'
      /\ OrderIds' = OrderIds /\ orders' \in Seq(Order)
      /\ FillsStand(orders, orders') /\ orders[item.id].price \in Int
      /\ \A j \in OrderIds : orders[j].side = "buy" => orders'[j].db = orders[j].db
  BY <1>1, SellTaken
<1>3. /\ InFlight' /\ TodoTracked' /\ pc' \in Pcs /\ pc' \notin Buying
      /\ UNCHANGED <<newId, real, signals, cur>>
      /\ todo' = {} /\ hung' = {} /\ subsidy' = 0
  BY <1>1, <1>2, CycleAborted
<1>4. t.id \in Nat /\ Gain(item, t) \in Int
  <2>1. t.buy \in Int /\ t.id \in Nat /\ Fee \in Int
    BY TrancheFields, RunnerAssumption DEF RunnerInv, OrdersTyped
  <2> QED
    BY <1>2, <2>1 DEF Gain, Revenue
<1> HIDE DEF Gain
<1>5. OrdersTyped'
  <2>1. sold' \subseteq [id : Nat, gain : Int] /\ halfSold' \subseteq Nat
    BY <1>1, <1>4 DEF RunnerInv, OrdersTyped
  <2> QED
    BY <1>1, <1>2, <1>3, <2>1 DEF RunnerInv, OrdersTyped
<1>6. IndexReserved' /\ OneTranchePerIndex' /\ AboveFloor'
  BY <1>1, <1>2, <1>3 DEF RunnerInv, IndexReserved, Taken, OneTranchePerIndex, AboveFloor
<1>7. MemoryBooked'
  BY <1>1 DEF RunnerInv, MemoryBooked
<1>8. Unharmed'
  BY <1>1 DEF CycleAborts, Unharmed
<1>9. RowsBooked' /\ FillsKept'
  <2>1. RowsRenewed
    BY <1>1 DEF RowsRenewed, RunnerInv, OrdersTyped, RowsBooked
  <2> QED
    BY <1>1, <1>2, <2>1, RowsKept
<1> QED
  BY <1>2, <1>3, <1>5, <1>6, <1>7, <1>8, <1>9 DEF RunnerInv

LEMMA SaleWithoutCascadeTranches ==
  ASSUME RunnerInv, NEW item \in todo, SaleWithoutCascade(item)
  PROVE  RunnerInv'
<1>1. PICK t \in active : TakeSell(item) /\ CycleAborts /\ BookSale(item, t)
  BY DEF SaleWithoutCascade
<1>2. /\ active' \subseteq active /\ rows' \subseteq Row /\ sold' \subseteq sold
      /\ orders' = MarkClosed(item.id)
      /\ UNCHANGED <<status, dbStatus, free, coins, auxVars>>
      /\ (RowsBooked /\ FillsKept /\ MemoryBooked /\ OneTranchePerIndex
            /\ AboveFloor /\ Unharmed)'
  BY <1>1, SaleBooked
<1>3. /\ newId = None /\ pc = "sells" /\ UNCHANGED pendingBuy
      /\ pendingSell' \in [Tranches -> {None, Simulated} \cup OrderIds]
      /\ BuysPriced' /\ MapsTracked'
      /\ OrderIds' = OrderIds /\ orders' \in Seq(Order)
  BY <1>1, <1>2, SellTaken
<1>4. /\ InFlight' /\ TodoTracked' /\ pc' \in Pcs /\ pc' \notin Buying
      /\ UNCHANGED <<newId, real, signals, cur>>
      /\ todo' = {} /\ hung' = {} /\ subsidy' = 0
  BY <1>1, <1>3, CycleAborted
<1>5. OrdersTyped'
  BY <1>2, <1>3, <1>4 DEF RunnerInv, OrdersTyped, auxVars, errorVars
<1>6. IndexReserved'
  BY <1>2, <1>3, <1>4 DEF RunnerInv, IndexReserved, Taken, auxVars, errorVars
<1> QED
  BY <1>2, <1>3, <1>4, <1>5, <1>6 DEF RunnerInv

\* A discount is positive and stops at the floor.
LEMMA DiscountBounds ==
  ASSUME NEW t \in Tranche, subsidy \in Int, Discount(t) > 0
  PROVE  Discount(t) \in Int /\ t.target - Discount(t) >= t.buy - MaxDiscount
<1>1. t.target \in Int /\ t.buy \in Int /\ MaxDiscount \in Int
  BY TrancheFields, RunnerAssumption
<1> QED
  BY <1>1 DEF Discount

\* A subsidized tranche is the same at a lower target.
LEMMA CheaperTranche ==
  ASSUME RunnerInv, NEW t \in active, Discount(t) > 0
  PROVE  /\ t \in Tranche /\ subsidy \in Int /\ Discount(t) \in Int
         /\ Cheaper(t) \in Tranche /\ Cheaper(t).id = t.id /\ Cheaper(t).idx = t.idx
         /\ Cheaper(t).buy = t.buy /\ Cheaper(t).target = t.target - Discount(t)
         /\ Cheaper(t).target >= Cheaper(t).buy - MaxDiscount
<1>1. t \in Tranche /\ subsidy \in Int
  BY DEF RunnerInv, OrdersTyped
<1>2. Discount(t) \in Int /\ t.target - Discount(t) >= t.buy - MaxDiscount
  BY <1>1, DiscountBounds
<1> HIDE DEF Discount
<1> QED
  BY <1>1, <1>2 DEF Cheaper, Tranche

\* Saved as it is in memory, the row has the status its half sale left.
LEMMA SavedAsIsTranche ==
  ASSUME RunnerInv, NEW t \in active, NEW u \in Tranche, u.id = t.id
  PROVE  \E st \in {"ACTIVE", "CLOSED"}, gain \in Int :
            /\ SavedAsIs(u) = Saved(u, st, gain)
            /\ st = "CLOSED" => t.id \in halfSold
<1>1. CASE Sold(u.id)
  <2> DEFINE gain == (CHOOSE s \in sold : s.id = u.id).gain
  <2>1. PICK s \in sold : s = CHOOSE x \in sold : x.id = u.id
    BY <1>1 DEF Sold
  <2>2. gain \in Int
    BY <2>1 DEF RunnerInv, OrdersTyped
  <2>3. t.id \in halfSold
    BY <1>1 DEF Sold, RunnerInv, MemoryBooked
  <2>4. SavedAsIs(u) = Saved(u, "CLOSED", gain)
    BY <1>1 DEF SavedAsIs
  <2> HIDE DEF gain
  <2> QED
    BY <2>2, <2>3, <2>4
<1>2. CASE ~Sold(u.id)
  BY <1>2 DEF SavedAsIs
<1> QED
  BY <1>1, <1>2

\* A subsidy replaces a tranche by itself at a lower target.
LEMMA SubsidizeTranches ==
  ASSUME RunnerInv, Subsidize
  PROVE  RunnerInv'
<1>1. PICK t \in active :
        /\ pc = "cascade"
        /\ hung' = hung \ {t.id}
        /\ \/ /\ Discount(t) > 0
              /\ active' = (active \ {t}) \cup {Cheaper(t)}
              /\ rows' = SavedAsIs(Cheaper(t))
              /\ unsaved' = unsaved \ {t.id}
              /\ subsidy' = subsidy - Discount(t)
              /\ \/ /\ pc' = "cancel"
                    /\ cur' = [idx |-> t.idx, price |-> Cheaper(t).target, tries |-> 0]
                 \/ UNCHANGED <<pc, cur>>
           \/ UNCHANGED <<active, rows, unsaved, subsidy, pc, cur>>
  BY DEF Subsidize, NextHung
<1>2. UNCHANGED <<status, sold, mapVars, orders, free, coins, newId, real, todo, signals,
                  dbStatus, lost, halfSold, transfers, crashes>>
  BY DEF Subsidize, exchangeVars
<1>3. t \in Tranche /\ subsidy \in Int /\ hung' \subseteq Nat /\ newId = None
  BY <1>1 DEF RunnerInv, OrdersTyped, InFlight
<1>4. /\ rows' \subseteq Row /\ active' \subseteq Tranche /\ unsaved' \subseteq Nat
      /\ (RowsBooked /\ FillsKept /\ MemoryBooked /\ OneTranchePerIndex
            /\ AboveFloor /\ Unharmed)'
      /\ \A i \in Tranches : Taken(i)' <=> Taken(i)
      /\ subsidy' \in Int /\ cur' \in {NoOrder} \cup Pending
      /\ pc' \in {"cascade", "cancel"} /\ (pc' = "cancel" => cur' \in Pending)
  <2>0. SameOrders(orders, orders') /\ FillsStand(orders, orders')
    BY <1>2 DEF SameOrders, FillsStand, RunnerInv, OrdersTyped
  <2>1. CASE UNCHANGED <<active, rows, unsaved, subsidy, pc, cur>>
    <3>1. (MemoryBooked /\ OneTranchePerIndex /\ AboveFloor /\ Unharmed)'
      BY <1>2, <2>1, TranchesFrame
    <3>2. RowsRenewed
      BY <2>1 DEF RowsRenewed, RunnerInv, OrdersTyped, RowsBooked
    <3>3. RowsBooked' /\ FillsKept'
      BY <1>2, <2>0, <3>2, RowsKept DEF mapVars
    <3> QED
      BY <1>1, <1>2, <2>1, <3>1, <3>3 DEF RunnerInv, OrdersTyped, Taken
  <2>2. CASE /\ Discount(t) > 0
             /\ active' = (active \ {t}) \cup {Cheaper(t)}
             /\ rows' = SavedAsIs(Cheaper(t))
             /\ unsaved' = unsaved \ {t.id}
             /\ subsidy' = subsidy - Discount(t)
             /\ \/ /\ pc' = "cancel"
                   /\ cur' = [idx |-> t.idx, price |-> Cheaper(t).target, tries |-> 0]
                \/ UNCHANGED <<pc, cur>>
    <3>1. /\ Discount(t) \in Int
          /\ Cheaper(t) \in Tranche /\ Cheaper(t).id = t.id /\ Cheaper(t).idx = t.idx
          /\ Cheaper(t).buy = t.buy
          /\ Cheaper(t).target >= Cheaper(t).buy - MaxDiscount
      BY <2>2, CheaperTranche
    <3> DEFINE u == Cheaper(t)
    <3>2. PICK st \in {"ACTIVE", "CLOSED"}, gain \in Int :
            SavedAsIs(u) = Saved(u, st, gain) /\ (st = "CLOSED" => t.id \in halfSold)
      BY <3>1, SavedAsIsTranche
    <3> HIDE DEF u, Saved, SavedAsIs, Discount, Cheaper
    <3>3. /\ u \in Tranche /\ u.id = t.id /\ u.idx = t.idx /\ u.buy = t.buy
          /\ u.target >= u.buy - MaxDiscount /\ u.target \in Int
          /\ rows' = Saved(u, st, gain) /\ active' = (active \ {t}) \cup {u}
          /\ unsaved' = unsaved \ {t.id} /\ UNCHANGED <<sold, halfSold>>
      BY <1>2, <2>2, <3>1, <3>2 DEF u, Tranche
    <3>4. RowsRenewed /\ MemoryBooked' /\ AboveFloor'
      BY <3>2, <3>3, SavedTranche
    <3>5. RowsBooked' /\ FillsKept'
      BY <1>2, <2>0, <3>4, RowsKept DEF mapVars
    <3>6. OneTranchePerIndex' /\ Unharmed'
      BY <3>3 DEF RunnerInv, OneTranchePerIndex, Unharmed
    <3>7. \A i \in Tranches : Taken(i)' <=> Taken(i)
      BY <3>3 DEF Taken
    <3>8. /\ active' \subseteq Tranche /\ unsaved' \subseteq Nat /\ subsidy' \in Int
      BY <1>3, <2>2, <3>1, <3>3 DEF RunnerInv, OrdersTyped
    <3>9. /\ cur' \in {NoOrder} \cup Pending /\ pc' \in {"cascade", "cancel"}
          /\ pc' = "cancel" => cur' \in Pending
      <4>1. [idx |-> t.idx, price |-> u.target, tries |-> 0] \in Pending
        BY <1>3, <3>3 DEF Pending, Tranche, MaxRetries
      <4> QED
        BY <1>1, <2>2, <4>1 DEF RunnerInv, OrdersTyped, u
    <3> QED
      BY <3>4, <3>5, <3>6, <3>7, <3>8, <3>9 DEF RowsRenewed
  <2> QED
    BY <1>1, <2>1, <2>2
<1>5. OrdersTyped'
  BY <1>2, <1>3, <1>4 DEF RunnerInv, OrdersTyped, OrderIds, mapVars, Pcs
<1>6. InFlight' /\ TodoTracked'
  BY <1>1, <1>2, <1>3, <1>4 DEF RunnerInv, InFlight, TodoTracked, Buying, Selling, Replacing,
                    BuyPhase, SellPhase, IsOrder, OrderIds, mapVars
<1>7. IndexReserved'
  BY <1>2, <1>4 DEF RunnerInv, IndexReserved, Buying, mapVars
<1>8. (MapsTracked /\ BuysPriced)'
  BY <1>2, PricesFrame, MapsFrame DEF KeptOrders, mapVars
<1> QED
  BY <1>4, <1>5, <1>6, <1>7, <1>8 DEF RunnerInv

\* The update raised: memory is below the row.
LEMMA SubsidyUnsavedTranches ==
  ASSUME RunnerInv, SubsidyUnsaved
  PROVE  RunnerInv'
<1>1. PICK t \in active :
        /\ pc = "cascade" /\ CycleAborts /\ Discount(t) > 0
        /\ active' = (active \ {t}) \cup {Cheaper(t)}
        /\ unsaved' = unsaved \cup {t.id}
        /\ UNCHANGED <<status, sold, mapVars, rows, orders, free, coins, dbStatus, lost,
                       halfSold, transfers, crashes>>
  BY DEF SubsidyUnsaved, NextHung, dbVars, exchangeVars
<1>2. /\ t \in Tranche /\ subsidy \in Int /\ Discount(t) \in Int
      /\ Cheaper(t) \in Tranche /\ Cheaper(t).id = t.id /\ Cheaper(t).idx = t.idx
      /\ Cheaper(t).buy = t.buy /\ Cheaper(t).target = t.target - Discount(t)
      /\ Cheaper(t).target >= Cheaper(t).buy - MaxDiscount
  BY <1>1, CheaperTranche
<1> DEFINE u == Cheaper(t)
<1>3. /\ u \in Tranche /\ u.id = t.id /\ u.idx = t.idx /\ u.buy = t.buy
      /\ u.target >= u.buy - MaxDiscount /\ u.target <= t.target
      /\ u.target \in Int /\ t.target \in Int /\ t.id \in Nat
      /\ active' = (active \ {t}) \cup {u}
  <2> HIDE DEF Discount, Cheaper
  <2> QED
    BY <1>1, <1>2, TrancheFields
<1> HIDE DEF u
<1>4. /\ InFlight' /\ TodoTracked' /\ pc' \in Pcs /\ pc' \notin Buying
      /\ UNCHANGED <<newId, real, signals, cur>>
      /\ todo' = {} /\ hung' = {} /\ subsidy' = 0
  BY <1>1, CycleAborted
<1>5. OrdersTyped'
  <2>1. active' \subseteq Tranche /\ unsaved' \subseteq Nat
    BY <1>1, <1>3 DEF RunnerInv, OrdersTyped
  <2>2. UNCHANGED <<newId, real, signals, cur>> /\ todo' = {} /\ hung' = {} /\ subsidy' = 0
    BY <1>4
  <2> QED
    BY <1>1, <1>4, <2>1, <2>2 DEF RunnerInv, OrdersTyped, OrderIds, mapVars
<1>6. MemoryBooked'
  <2>1. \A v \in active' : v = u \/ (v \in active /\ v.id # t.id)
    BY <1>3 DEF RunnerInv, MemoryBooked
  <2>2. PICK old \in rows : /\ old.id = t.id /\ old.idx = t.idx /\ old.buy = t.buy
                            /\ t.id \notin halfSold => old.st = "ACTIVE"
                            /\ IF t.id \in unsaved THEN t.target <= old.target
                               ELSE t.target = old.target
    BY DEF RunnerInv, MemoryBooked
  <2>3. old.target \in Int
    BY <2>2 DEF RunnerInv, OrdersTyped, Row
  <2>4. u.target <= old.target
    BY <1>3, <2>2, <2>3
  <2>5. ASSUME NEW v \in active'
        PROVE  \E row \in rows' :
          /\ row.id = v.id /\ row.idx = v.idx /\ row.buy = v.buy
          /\ v.id \notin halfSold' => row.st = "ACTIVE"
          /\ IF v.id \in unsaved' THEN v.target <= row.target ELSE v.target = row.target
    <3>1. CASE v = u
      BY <1>1, <1>3, <2>2, <2>4, <3>1
    <3>2. CASE v \in active /\ v.id # t.id
      BY <1>1, <3>2 DEF RunnerInv, MemoryBooked
    <3> QED
      BY <2>1, <3>1, <3>2
  <2>6. \A row \in rows' : row.st = "ACTIVE" => \E v \in active' : v.id = row.id
    BY <1>1, <1>3 DEF RunnerInv, MemoryBooked
  <2>7. \A v, w \in active' : v.id = w.id => v = w
    BY <1>3, <2>1 DEF RunnerInv, MemoryBooked
  <2>8. \A s \in sold' : s.id \in halfSold'
    BY <1>1 DEF RunnerInv, MemoryBooked
  <2> QED
    BY <2>5, <2>6, <2>7, <2>8 DEF MemoryBooked
<1>7. OneTranchePerIndex' /\ AboveFloor'
  BY <1>1, <1>3 DEF RunnerInv, OneTranchePerIndex, AboveFloor
<1>8. IndexReserved'
  BY <1>1, <1>3, <1>4 DEF RunnerInv, IndexReserved, Taken, mapVars
<1>9. Unharmed'
  BY <1>1 DEF CycleAborts, Unharmed
<1>10. KeptOrders(orders, orders') /\ FillsStand(orders, orders')
  BY <1>1 DEF KeptOrders, FillsStand
<1> QED
  BY <1>1, <1>4, <1>5, <1>6, <1>7, <1>8, <1>9, <1>10, RowsFrame, FillsFrame, PricesFrame,
     MapsFrame DEF RunnerInv, mapVars

\* A restart reads the tranches from their rows.
LEMMA CrashTranches ==
  ASSUME RunnerInv, Crash \/ \E item \in todo : CrashInHandler(item)
  PROVE  RunnerInv'
<1>1. /\ UNCHANGED <<dbVars, free, coins, transfers, halfSold>>
      /\ status' = dbStatus /\ crashes' = crashes + 1
      /\ active' = {[id |-> row.id, idx |-> row.idx, buy |-> row.buy,
                     target |-> row.target] : row \in RowsIn("ACTIVE")}
      /\ sold' = {} /\ unsaved' = {}
      /\ pendingBuy' = [i \in Tranches |-> None]
      /\ pendingSell' = [i \in Tranches |-> None]
      /\ pc' = "sleep" /\ todo' = {} /\ cur' = NoOrder /\ newId' = None
      /\ real' = 0 /\ hung' = {} /\ subsidy' = 0 /\ signals' = <<>>
  BY DEF Crash, CrashInHandler, Rehydrate
<1>2. /\ SameOrders(orders, orders') /\ BuysPriced'
      /\ \A j \in OrderIds : orders[j].db # "none" => orders'[j].db \in {"CLOSED", orders[j].db}
      /\ \A j \in OrderIds :
            orders[j].side = "buy" /\ orders'[j].db = "CLOSED" => orders[j].db = "CLOSED" \/ j \in lost'
      /\ lost \subseteq lost' /\ lost' \subseteq Nat
      /\ \A j \in lost' \ lost : j \in OrderIds /\ orders[j].db = "OPEN"
      /\ \A j \in OrderIds : j \in lost' => orders'[j].db # "none"
  <2>1. CASE Crash
    <3>1. UNCHANGED <<orders, lost>>
      BY <2>1 DEF Crash
    <3> QED
      BY <3>1 DEF SameOrders, RunnerInv, OrdersTyped, BuysPriced, FillsKept, OrderIds
  <2>2. ASSUME NEW item \in todo, CrashInHandler(item)
        PROVE  /\ SameOrders(orders, orders') /\ BuysPriced'
               /\ \A j \in OrderIds :
                     orders[j].db # "none" => orders'[j].db \in {"CLOSED", orders[j].db}
               /\ \A j \in OrderIds :
                     orders[j].side = "buy" /\ orders'[j].db = "CLOSED" =>
                        orders[j].db = "CLOSED" \/ j \in lost'
               /\ lost \subseteq lost' /\ lost' \subseteq Nat
               /\ \A j \in lost' \ lost : j \in OrderIds /\ orders[j].db = "OPEN"
               /\ \A j \in OrderIds : j \in lost' => orders'[j].db # "none"
    <3>1. /\ pc \in {"buys", "sells"} /\ item.id \in OrderIds
          /\ orders' = [orders EXCEPT ![item.id].db = "CLOSED"]
          /\ lost' = IF pc = "buys" THEN lost \cup {item.id} ELSE lost
      BY <2>2 DEF CrashInHandler, Filled, MarkClosed
    <3>2. /\ SameOrders(orders, orders') /\ BuysPriced'
          /\ DbChanged(orders, orders', item.id, "CLOSED")
      BY <3>1, DbOrders
    <3>3. /\ item \in [idx : Tranches, id : {Simulated} \cup OrderIds]
          /\ pc = "buys" => /\ pendingBuy[item.idx] = item.id
          /\ pc = "sells" => IsOrder(item.id, "sell", item.idx)
      BY <3>1 DEF RunnerInv, OrdersTyped, TodoTracked, BuyPhase, SellPhase
    <3>4. pc = "buys" => orders[item.id].db = "OPEN"
      BY <3>1, <3>3 DEF RunnerInv, MapsTracked, OrderIds, None
    <3>5. \A j \in lost : j \in OrderIds /\ orders[j].db # "none"
      BY DEF RunnerInv, FillsKept
    <3>6. lost' \subseteq Nat
      BY <3>1 DEF RunnerInv, OrdersTyped, OrderIds
    <3> QED
      BY <3>1, <3>2, <3>3, <3>4, <3>5, <3>6 DEF DbChanged, OrderIds, IsOrder
  <2> QED
    BY <2>1, <2>2
<1>3. OrderIds' = OrderIds /\ orders' \in Seq(Order) /\ UNCHANGED <<rows, dbStatus>>
  BY <1>1, <1>2 DEF SameOrders, OrderIds, dbVars
<1>4. \A t \in active' : \E row \in rows :
         /\ row.st = "ACTIVE" /\ t.id = row.id /\ t.idx = row.idx /\ t.buy = row.buy
         /\ t.target = row.target
  BY <1>1 DEF RowsIn
<1>5. \A row \in rows : row.st = "ACTIVE" => \E t \in active' : t.id = row.id
  <2> SUFFICES ASSUME NEW row \in rows, row.st = "ACTIVE"
               PROVE  \E t \in active' : t.id = row.id
    OBVIOUS
  <2> DEFINE t == [id |-> row.id, idx |-> row.idx, buy |-> row.buy, target |-> row.target]
  <2>1. t \in active'
    BY <1>1 DEF RowsIn
  <2>2. t.id = row.id
    OBVIOUS
  <2> QED
    BY <2>1, <2>2
<1>6. \A t, u \in active' : t.id = u.id => t = u
  <2> SUFFICES ASSUME NEW t \in active', NEW u \in active', t.id = u.id PROVE t = u
    OBVIOUS
  <2>1. PICK r \in rows : t = [id |-> r.id, idx |-> r.idx, buy |-> r.buy, target |-> r.target]
    BY <1>1 DEF RowsIn
  <2>2. PICK v \in rows : u = [id |-> v.id, idx |-> v.idx, buy |-> v.buy, target |-> v.target]
    BY <1>1 DEF RowsIn
  <2>3. r = v
    BY <2>1, <2>2 DEF RunnerInv, RowsBooked
  <2> QED
    BY <2>1, <2>2, <2>3
<1>7. MemoryBooked'
  BY <1>1, <1>3, <1>4, <1>5, <1>6 DEF MemoryBooked
<1>8. OneTranchePerIndex'
  <2> SUFFICES ASSUME NEW t \in active', NEW u \in active', t.idx = u.idx,
                      t.id \notin halfSold, u.id \notin halfSold
               PROVE  t = u
    BY <1>1 DEF OneTranchePerIndex
  <2>1. PICK x \in active : x.id = t.id /\ x.idx = t.idx
    BY <1>4 DEF RunnerInv, MemoryBooked, RowsBooked
  <2>2. PICK y \in active : y.id = u.id /\ y.idx = u.idx
    BY <1>4 DEF RunnerInv, MemoryBooked, RowsBooked
  <2>3. x = y
    BY <2>1, <2>2 DEF RunnerInv, OneTranchePerIndex
  <2> QED
    BY <1>6, <2>1, <2>2, <2>3
<1>9. AboveFloor' /\ Unharmed'
  BY <1>1, <1>3, <1>4 DEF RunnerInv, AboveFloor, Unharmed
<1>10. OrdersTyped'
  <2>1. active' \subseteq Tranche
    BY <1>1 DEF RunnerInv, OrdersTyped, RowsIn, Row, Tranche
  <2> QED
    BY <1>1, <1>2, <1>3, <2>1, EmptySeq DEF RunnerInv, OrdersTyped, Pcs
<1>11. (InFlight /\ TodoTracked /\ IndexReserved)'
  BY <1>1 DEF InFlight, TodoTracked, IndexReserved, Buying, Selling, Replacing, BuyPhase,
              SellPhase
<1>12. MapsTracked'
  BY <1>1 DEF MapsTracked, OrderIds, None
<1>13. RowsBooked'
  BY <1>2, <1>3 DEF RunnerInv, RowsBooked, SameOrders, OrderIds
<1>14. FillsKept'
  <2>1. \A j \in BuyOrders' : orders'[j].db = "CLOSED" =>
            j \in lost' \/ (j \in BuyOrders /\ orders[j].db = "CLOSED")
    BY <1>2, <1>3 DEF BuyOrders, OrderIds, SameOrders
  <2>2. ASSUME NEW j \in lost'
        PROVE  /\ j \in OrderIds' /\ orders'[j].db # "none"
               /\ \A i \in Tranches : pendingBuy'[i] # j
               /\ \A row \in rows' : row.id # j
    <3>1. j \in OrderIds
      BY <1>2 DEF RunnerInv, FillsKept
    <3>2. \A row \in rows : row.id # j
      BY <1>2 DEF RunnerInv, FillsKept, RowsBooked
    <3> QED
      BY <1>1, <1>2, <1>3, <3>1, <3>2 DEF OrderIds, None
  <2> QED
    BY <1>2, <1>3, <2>1, <2>2 DEF RunnerInv, FillsKept
<1> QED
  BY <1>2, <1>7, <1>8, <1>9, <1>10, <1>11, <1>12, <1>13, <1>14 DEF RunnerInv

LEMMA ExchangeTranches ==
  ASSUME RunnerInv, Exchange
  PROVE  RunnerInv'
<1>1. UNCHANGED <<status, active, sold, rows, mapVars, pc, loopVars, dbStatus, lost, halfSold,
                  unsaved>>
  BY DEF Exchange, Fill, ExternalTransfer, botVars, dbVars, auxVars, errorVars
<1>2. /\ SameOrders(orders, orders') /\ \A j \in 1..Len(orders) : orders'[j].db = orders[j].db
      /\ free' \in Int /\ coins' \in Int /\ transfers' \in Nat /\ crashes' \in Nat
  <2>1. ASSUME NEW id \in OrderIds, Fill(id)
        PROVE  /\ SameOrders(orders, orders')
               /\ \A j \in 1..Len(orders) : orders'[j].db = orders[j].db
               /\ free' \in Int /\ coins' \in Int /\ UNCHANGED auxVars
    <3>1. /\ orders' = [orders EXCEPT ![id].st = "closed"] /\ orders \in Seq(Order)
          /\ id \in 1..Len(orders)
      BY <2>1 DEF Fill, RunnerInv, OrdersTyped, OrderIds
    <3>2. "closed" \in {"open", "closed", "canceled"}
      OBVIOUS
    <3>3. /\ SameOrders(orders, [orders EXCEPT ![id].st = "closed"])
          /\ \A j \in 1..Len(orders) :
               [orders EXCEPT ![id].st = "closed"][j].db = orders[j].db
      BY <3>1, <3>2, StatusSet, Zenon
    <3>4. /\ SameOrders(orders, orders')
          /\ \A j \in 1..Len(orders) : orders'[j].db = orders[j].db
      BY <3>1, <3>3, Zenon
    <3>5. orders[id] \in Order
      BY <3>1, ElementOfSeq
    <3>6. free \in Int /\ coins \in Int /\ Fee \in Int
      BY RunnerAssumption DEF RunnerInv, OrdersTyped
    <3> QED
      BY <2>1, <3>4, <3>5, <3>6 DEF Fill, Order
  <2>2. ASSUME NEW amount \in Int, ExternalTransfer(amount)
        PROVE  /\ UNCHANGED <<orders, coins, crashes>>
               /\ free' \in Int /\ transfers' \in Nat
    BY <2>2 DEF ExternalTransfer, RunnerInv, OrdersTyped
  <2>3. \/ \E id \in OrderIds : Fill(id)
        \/ \E amount \in Int : ExternalTransfer(amount)
    BY RunnerAssumption DEF Exchange
  <2> QED
    BY <2>1, <2>2, <2>3 DEF RunnerInv, OrdersTyped, SameOrders, auxVars, errorVars
<1>3. /\ KeptOrders(orders, orders') /\ OrderIds' = OrderIds /\ orders' \in Seq(Order)
      /\ FillsStand(orders, orders')
  BY <1>2, KeptByStatus DEF SameOrders, OrderIds, FillsStand
<1>4. OrdersTyped'
  BY <1>1, <1>2, <1>3 DEF RunnerInv, OrdersTyped, mapVars, loopVars
<1>5. (InFlight /\ TodoTracked /\ IndexReserved)'
  <2>1. newId \in {None} \cup OrderIds
    BY DEF RunnerInv, OrdersTyped
  <2> QED
    BY <1>1, <1>3, <2>1 DEF RunnerInv, InFlight, TodoTracked, IndexReserved, IsOrder, Taken,
                            KeptOrders, OrderIds, mapVars, loopVars
<1>6. BuysPriced'
  BY <1>2, <1>3, PricesFrame DEF SameOrders
<1> QED
  BY <1>1, <1>3, <1>4, <1>5, <1>6, RowsFrame, TranchesFrame, FillsFrame, MapsFrame
  DEF RunnerInv, mapVars

LEMMA InitTranches == Init => RunnerInv
<1> SUFFICES ASSUME Init PROVE RunnerInv
  OBVIOUS
<1> USE RunnerAssumption DEF Init
<1>1. OrdersTyped
  BY EmptySeq DEF OrdersTyped, Status, Pcs, OrderIds
<1>2. InFlight /\ IndexReserved
  BY DEF InFlight, IndexReserved, Buying, Selling, Replacing
<1>3. MapsTracked /\ TodoTracked /\ BuysPriced
  BY DEF MapsTracked, TodoTracked, BuysPriced, BuyPhase, SellPhase, Selling, Replacing,
         OrderIds, None
<1>4. RowsBooked /\ FillsKept /\ MemoryBooked
  BY DEF RowsBooked, FillsKept, MemoryBooked, OrderIds, BuyOrders
<1>5. OneTranchePerIndex /\ AboveFloor /\ Unharmed
  BY DEF OneTranchePerIndex, AboveFloor, Unharmed
<1> QED
  BY <1>1, <1>2, <1>3, <1>4, <1>5 DEF RunnerInv

LEMMA NextTranches == RunnerInv /\ [Next]_vars => RunnerInv'
<1> SUFFICES ASSUME RunnerInv, [Next]_vars PROVE RunnerInv'
  OBVIOUS
<1>1. CASE Balance
  BY <1>1, BalanceTranches
<1>2. CASE Buys
  BY <1>2, QuietTranches, AcceptedTranches, RecordSellTranches, SellFailedTranches,
     ActivateTranches DEF Buys
<1>3. CASE Sells
  BY <1>3, QuietTranches, CloseTranches DEF Sells
<1>4. CASE Cascade
  BY <1>4, QuietTranches, SubsidizeTranches, CancelTranches, AcceptedTranches,
     RecordSellTranches DEF Cascade
<1>5. CASE Entries
  BY <1>5, QuietTranches, EvaluateTranches, SignalTranches, AcceptedTranches,
     RecordBuyTranches DEF Entries
<1>6. CASE Resubmit
  BY <1>6, ResubmitTranches
<1>7. CASE Api
  BY <1>7, ApiTranches
<1>8. CASE Exchange
  BY <1>8, ExchangeTranches
<1>9. CASE Failure
  BY <1>9, CrashTranches DEF Failure
<1>10. CASE UNCHANGED vars
  <2>1. UNCHANGED <<status, active, sold, rows, mapVars, orders, pc, loopVars, free, coins,
                    dbStatus, auxVars>>
    BY <1>10 DEF vars, botVars, dbVars, exchangeVars
  <2>2. OrdersTyped'
    BY <2>1 DEF RunnerInv, OrdersTyped, OrderIds, mapVars, loopVars, auxVars, errorVars
  <2>3. (InFlight /\ TodoTracked /\ IndexReserved)'
    BY <2>1 DEF RunnerInv, InFlight, TodoTracked, IndexReserved, IsOrder, Taken, OrderIds,
                mapVars, loopVars, auxVars, errorVars
  <2> QED
    BY <2>1, <2>2, <2>3, OrdersFrame DEF RunnerInv, mapVars, auxVars
<1>11. CASE DbError
  BY <1>11, BuyDroppedTranches, BuyWithoutSellTranches, SaleDroppedTranches,
     SaleHalfBookedTranches, SaleWithoutCascadeTranches, SubsidyUnsavedTranches DEF DbError
<1> QED
  BY <1>1, <1>2, <1>3, <1>4, <1>5, <1>6, <1>7, <1>8, <1>9, <1>10, <1>11 DEF Next, Runner

-----------------------------------------------------------------------------
\* The maps, the coroutine, the rows and the orders always agree as RunnerInv
\* says: the invariant the other theorems about tranches come from.
THEOREM TranchesAgree == Spec => []RunnerInv
<1> QED
  BY InitTranches, NextTranches, PTL DEF Spec

\* Whatever fills, is refused, is retried or crashes between two awaits, an
\* index never has two active tranches, but beside one whose sale was booked by
\* half (live_runner.py 250, 255, 392, 459, 474).
THEOREM TranchePerIndex == Spec => []OneTranchePerIndex
<1>1. RunnerInv => OneTranchePerIndex
  BY DEF RunnerInv
<1> QED
  BY <1>1, TranchesAgree, PTL

\* Every await leaves table tranches able to rebuild active_tranches, with the
\* subsidized targets but those whose update raised (live_runner.py 390, 474,
\* 498-501; bot_service.py 83-90).
THEOREM TranchesDurable == Spec => []MemoryIsDurable
<1>1. ASSUME RunnerInv PROVE MemoryIsDurable
  <2>1. \A t \in active : \E row \in rows :
          /\ row.id = t.id /\ row.idx = t.idx /\ row.buy = t.buy
          /\ t.id \notin halfSold => row.st = "ACTIVE"
          /\ IF t.id \in unsaved THEN t.target <= row.target ELSE t.target = row.target
    BY <1>1 DEF RunnerInv, MemoryBooked
  <2>2. \A row \in rows : row.st = "ACTIVE" => \E t \in active : t.id = row.id
    BY <1>1 DEF RunnerInv, MemoryBooked
  <2>3. \A r, s \in rows : r.id = s.id => r = s
    BY <1>1 DEF RunnerInv, RowsBooked
  <2>4. ASSUME NEW t \in active, t.id \notin halfSold
        PROVE  \E row \in RowsIn("ACTIVE") : row.id \notin halfSold /\ Bought(row) = Bought(t)
    BY <2>1, <2>4 DEF RowsIn, Bought
  <2>5. ASSUME NEW row \in RowsIn("ACTIVE"), row.id \notin halfSold
        PROVE  \E t \in active : t.id \notin halfSold /\ Bought(t) = Bought(row)
    <3>1. PICK t \in active : t.id = row.id
      BY <2>2 DEF RowsIn
    <3>2. PICK own \in rows : own.id = t.id /\ own.idx = t.idx /\ own.buy = t.buy
      BY <2>1
    <3>3. own = row
      BY <2>3, <3>1, <3>2 DEF RowsIn
    <3> QED
      BY <2>5, <3>1, <3>2, <3>3 DEF Bought
  <2>6. {Bought(t) : t \in WholeIn(active)}
          = {Bought(row) : row \in WholeIn(RowsIn("ACTIVE"))}
    <3> HIDE DEF Bought
    <3> QED
      BY <2>4, <2>5 DEF WholeIn
  <2>7. ASSUME NEW t \in active, NEW row \in RowsIn("ACTIVE"), t.id = row.id
        PROVE  IF t.id \in unsaved THEN t.target <= row.target ELSE t.target = row.target
    BY <2>1, <2>3, <2>7 DEF RowsIn
  <2> QED
    BY <2>6, <2>7 DEF MemoryIsDurable
<1> QED
  BY <1>1, TranchesAgree, PTL

\* Each processed buy has one row and each row its own processed buy, but the
\* fills a crash or a database error dropped between the order's status and the
\* tranche (live_runner.py 337, 373, 390).
THEOREM FillsBecomeTranches == Spec => []EveryFillOneTranche
<1>1. ASSUME RunnerInv PROVE EveryFillOneTranche
  BY <1>1 DEF RunnerInv, RowsBooked, FillsKept, EveryFillOneTranche, BuyOrders
<1> QED
  BY <1>1, TranchesAgree, PTL

-----------------------------------------------------------------------------
(* What a step does to the targets *)

TargetsKept ==
  \A t \in active, u \in active' :
     t.id = u.id => u.buy = t.buy /\ u.target <= t.target /\ u.target >= t.buy - MaxDiscount

\* A tranche is found by its id.
LEMMA UniqueTranches ==
  ASSUME RunnerInv, NEW t \in active, NEW u \in active, t.id = u.id
  PROVE  t = u
BY DEF RunnerInv, MemoryBooked

LEMMA FewerTranches ==
  ASSUME RunnerInv, active' \subseteq active
  PROVE  TargetsKept
<1> SUFFICES ASSUME NEW t \in active, NEW u \in active, t.id = u.id
             PROVE  u.buy = t.buy /\ u.target <= t.target /\ u.target >= t.buy - MaxDiscount
  BY DEF TargetsKept
<1>1. t = u
  BY UniqueTranches
<1>2. t.target \in Int
  BY TrancheFields DEF RunnerInv, OrdersTyped
<1> QED
  BY <1>1, <1>2 DEF RunnerInv, AboveFloor

LEMMA BookBuyTargets ==
  ASSUME RunnerInv, NEW item \in todo, TakeBuy(item), BookBuy(item)
  PROVE  TargetsKept
<1>1. item.id \in OrderIds /\ orders[item.id].db = "OPEN"
  BY BuyTaken
<1>2. \A t \in active : t.id # item.id
  BY <1>1 DEF RunnerInv, MemoryBooked, RowsBooked
<1>3. \A u \in active' : u \in active \/ u.id = item.id
  BY DEF BookBuy
<1>4. \A t, u \in active : t.id = u.id =>
        u.buy = t.buy /\ u.target <= t.target /\ u.target >= t.buy - MaxDiscount
  <2> SUFFICES ASSUME NEW t \in active, NEW u \in active, t.id = u.id
               PROVE  /\ u.buy = t.buy /\ u.target <= t.target
                      /\ u.target >= t.buy - MaxDiscount
    OBVIOUS
  <2>1. t = u
    BY UniqueTranches
  <2>2. t.target \in Int
    BY TrancheFields DEF RunnerInv, OrdersTyped
  <2> QED
    BY <2>1, <2>2 DEF RunnerInv, AboveFloor
<1> QED
  BY <1>2, <1>3, <1>4 DEF TargetsKept

LEMMA CheaperTargets ==
  ASSUME RunnerInv, NEW t \in active, Discount(t) > 0,
         active' = (active \ {t}) \cup {Cheaper(t)}
  PROVE  TargetsKept
<1>1. /\ t \in Tranche /\ Discount(t) \in Int
      /\ Cheaper(t).id = t.id /\ Cheaper(t).buy = t.buy
      /\ Cheaper(t).target = t.target - Discount(t)
      /\ Cheaper(t).target >= Cheaper(t).buy - MaxDiscount
  BY CheaperTranche
<1>2. t.target \in Int
  BY <1>1, TrancheFields
<1> HIDE DEF Discount, Cheaper
<1>3. Cheaper(t).target <= t.target
  BY <1>1, <1>2
<1> SUFFICES ASSUME NEW v \in active, NEW u \in active', v.id = u.id
             PROVE  u.buy = v.buy /\ u.target <= v.target /\ u.target >= v.buy - MaxDiscount
  BY DEF TargetsKept
<1>4. CASE u = Cheaper(t)
  <2>1. v = t
    BY <1>1, <1>4, UniqueTranches
  <2> QED
    BY <1>1, <1>3, <1>4, <2>1
<1>5. CASE u \in active
  <2>1. v = u /\ v.target \in Int
    BY <1>5, UniqueTranches, TrancheFields DEF RunnerInv, OrdersTyped
  <2> QED
    BY <1>5, <2>1 DEF RunnerInv, AboveFloor
<1> QED
  BY <1>4, <1>5

\* Without database errors a restart finds the targets memory had.
LEMMA RestartTargets ==
  ASSUME DbErrors = FALSE, RunnerInv, Failure
  PROVE  TargetsKept
<1>1. active' = {[id |-> row.id, idx |-> row.idx, buy |-> row.buy,
                  target |-> row.target] : row \in RowsIn("ACTIVE")}
  BY DEF Failure, Crash, CrashInHandler, Rehydrate
<1> SUFFICES ASSUME NEW t \in active, NEW u \in active', t.id = u.id
             PROVE  u.buy = t.buy /\ u.target <= t.target /\ u.target >= t.buy - MaxDiscount
  BY DEF TargetsKept
<1>2. PICK row \in rows : u.id = row.id /\ u.buy = row.buy /\ u.target = row.target
  BY <1>1 DEF RowsIn
<1>3. t.id \notin unsaved
  BY DEF RunnerInv, Unharmed
<1>4. PICK own \in rows : own.id = t.id /\ own.buy = t.buy /\ own.target = t.target
  BY <1>3 DEF RunnerInv, MemoryBooked
<1>5. own = row
  BY <1>2, <1>4 DEF RunnerInv, RowsBooked
<1>6. t.target \in Int
  BY TrancheFields DEF RunnerInv, OrdersTyped
<1> QED
  BY <1>2, <1>4, <1>5, <1>6 DEF RunnerInv, AboveFloor

LEMMA DbErrorTargets ==
  ASSUME RunnerInv, DbError
  PROVE  TargetsKept
<1>1. CASE SubsidyUnsaved
  <2>1. PICK t \in active :
          Discount(t) > 0 /\ active' = (active \ {t}) \cup {Cheaper(t)}
    BY <1>1 DEF SubsidyUnsaved
  <2> QED
    BY <2>1, CheaperTargets
<1>2. ASSUME NEW item \in todo, BuyWithoutSell(item)
      PROVE  TargetsKept
  BY <1>2, BookBuyTargets DEF BuyWithoutSell
<1>3. ASSUME NEW item \in todo,
             BuyDropped(item) \/ SaleDropped(item) \/ SaleHalfBooked(item)
               \/ SaleWithoutCascade(item)
      PROVE  TargetsKept
  <2>1. active' \subseteq active
    BY <1>3 DEF BuyDropped, SaleDropped, SaleHalfBooked, SaleWithoutCascade, BookSale, botVars
  <2> QED
    BY <2>1, FewerTranches
<1> QED
  BY <1>1, <1>2, <1>3 DEF DbError

\* When a restart is safe for the targets.
RestartsKeepTargets == MaxCrashes = 0 \/ DbErrors = FALSE

LEMMA NoFailure == MaxCrashes = 0 /\ RunnerInv => ~Failure
<1> SUFFICES ASSUME MaxCrashes = 0, RunnerInv, Failure PROVE FALSE
  OBVIOUS
<1>1. crashes \in Nat /\ crashes < 0
  BY DEF RunnerInv, OrdersTyped, Failure, Crash, CrashInHandler, Rehydrate
<1> QED
  BY <1>1

LEMMA NextTargets == RestartsKeepTargets /\ RunnerInv /\ [Next]_vars => TargetsKept
<1> SUFFICES ASSUME RestartsKeepTargets, RunnerInv, [Next]_vars PROVE TargetsKept
  OBVIOUS
<1>1. CASE Balance \/ Api \/ Exchange \/ Resubmit \/ UNCHANGED vars
  <2>1. UNCHANGED active
    BY <1>1 DEF Balance, StartCycle, ReadBalance, BalanceUnknown, CompareBalance,
       BookDifference, Api, PauseBot, ResumeBot, StopBot, SetStatus, DepositCapital,
       WithdrawCapital, CapitalHandler, Exchange, Fill, ExternalTransfer, Resubmit,
       botVars, vars
  <2> QED
    BY <2>1, FewerTranches
<1>2. CASE Entries
  <2>1. UNCHANGED active
    BY <1>2 DEF Entries, Evaluate, SkipSignal, HandleBuySignal, BuyAccepted, RecordBuy,
       BuyFailed, EndCycle, botVars
  <2> QED
    BY <2>1, FewerTranches
<1>3. CASE Buys
  <2>1. CASE BuysReconciled \/ SellAccepted \/ RecordSell \/ SellFailed
             \/ \E item \in todo : BuyStillOpen(item)
    <3>1. UNCHANGED active
      BY <2>1 DEF BuysReconciled, SellAccepted, RecordSell, SellFailed, BuyStillOpen, botVars
    <3> QED
      BY <3>1, FewerTranches
  <2>2. ASSUME NEW item \in todo, Activate(item)
        PROVE  TargetsKept
    BY <2>2, BookBuyTargets DEF Activate
  <2> QED
    BY <1>3, <2>1, <2>2 DEF Buys
<1>4. CASE Sells
  <2>1. active' \subseteq active
    BY <1>4 DEF Sells, SellStillOpen, Close, CloseNothing, BookSale, botVars
  <2> QED
    BY <2>1, FewerTranches
<1>5. CASE Cascade
  <2>1. CASE CascadeEnds \/ CancelAccepted \/ CancelFailed \/ ReplaceAccepted
             \/ RecordReplaced \/ ReplaceFailed
    <3>1. UNCHANGED active
      BY <2>1 DEF CascadeEnds, CancelAccepted, CancelFailed, ReplaceAccepted,
         RecordReplaced, ReplaceFailed, botVars
    <3> QED
      BY <3>1, FewerTranches
  <2>2. CASE Subsidize
    <3>1. \/ UNCHANGED active
          \/ \E t \in active :
               Discount(t) > 0 /\ active' = (active \ {t}) \cup {Cheaper(t)}
      BY <2>2 DEF Subsidize
    <3> QED
      BY <3>1, FewerTranches, CheaperTargets
  <2> QED
    BY <1>5, <2>1, <2>2 DEF Cascade
<1>6. CASE Failure
  BY <1>6, NoFailure, RestartTargets DEF RestartsKeepTargets
<1>7. CASE DbError
  BY <1>7, DbErrorTargets
<1> QED
  BY <1>1, <1>2, <1>3, <1>4, <1>5, <1>6, <1>7 DEF Next, Runner

\* No cascade, refusal or restart moves a target up, past the floor under its
\* buy price, or changes what a tranche was bought at (live_runner.py 486-501).
\* How much of a profit a cascade may take is not part of it.  The one thing
\* that does move a target up is a restart after a subsidy that was never
\* written, so one of the two is assumed away.
THEOREM TargetsOnlyFall ==
  ASSUME MaxCrashes = 0 \/ DbErrors = FALSE
  PROVE  Spec => SubsidyBounded
<1>1. RunnerInv /\ [Next]_vars => TargetsKept
  BY NextTargets DEF RestartsKeepTargets
<1>2. RunnerInv /\ [Next]_vars =>
        [ \A t \in active, u \in active' :
            t.id = u.id => /\ u.buy = t.buy
                           /\ u.target <= t.target
                           /\ u.target >= t.buy - MaxDiscount ]_vars
  BY <1>1 DEF TargetsKept
<1> QED
  BY <1>2, InitTranches, NextTranches, PTL DEF Spec, SubsidyBounded

-----------------------------------------------------------------------------
(* The take-profit orders, when no reply of the exchange is lost *)

\* No order reopens, and a canceled one stays canceled.
NoReopen(s, t) ==
  \A j \in 1..Len(s) : /\ t[j].st = "open" => s[j].st = "open"
                       /\ s[j].st = "canceled" => t[j].st = "canceled"

LEMMA OpenSell ==
  ASSUME RunnerInv, NEW i, NEW id
  PROVE  id \in OpenSells(i) <=> /\ id \in 1..Len(orders) /\ orders[id].st = "open"
                                 /\ orders[id].side = "sell" /\ orders[id].idx = i
BY DEF OpenSells, OpenOrders, IsOpen, OrderIds

LEMMA OpenSellNext ==
  ASSUME NEW i, NEW id
  PROVE  id \in OpenSells(i)' <=> /\ id \in 1..Len(orders') /\ orders'[id].st = "open"
                                  /\ orders'[id].side = "sell" /\ orders'[id].idx = i
BY DEF OpenSells, OpenOrders, IsOpen, OrderIds

\* Steps that close, cancel or rename orders at most and lose no tranche.
LEMMA SellsFrame ==
  ASSUME RunnerInv, SellInv, SameOrders(orders, orders'), NoReopen(orders, orders'),
         \A i \in Tranches : Taken(i) => Taken(i)'
  PROVE  /\ \A i \in Tranches : OpenSells(i)' \subseteq OpenSells(i)
         /\ SellsActive' /\ OneOpenSell'
<1>1. \A i : OpenSells(i)' \subseteq OpenSells(i)
  BY OpenSell, OpenSellNext DEF SameOrders, NoReopen
<1>2. \A id \in 1..Len(orders) : orders[id].idx \in Tranches
  <2>1. \A id \in 1..Len(orders) : orders[id] \in Order
    BY ElementOfSeq DEF RunnerInv, OrdersTyped
  <2> QED
    BY <2>1 DEF Order
<1>3. SellsActive'
  BY <1>2 DEF SellInv, SellsActive, OpenOrders, IsOpen, OrderIds, SameOrders, NoReopen
<1>4. OneOpenSell'
  BY DEF SellInv, OneOpenSell, OpenOrders, IsOpen, OrderIds, SameOrders, NoReopen
<1> QED
  BY <1>1, <1>3, <1>4

LEMMA SameOrdersRefl == orders \in Seq(Order) =>
                          SameOrders(orders, orders) /\ NoReopen(orders, orders)
BY DEF SameOrders, NoReopen

\* Steps that neither place nor record an order: they may finish a call, move
\* the loops on, or turn to the replacement of an active tranche's order.
LEMMA QuietSells ==
  ASSUME RunnerInv, SellInv, UNCHANGED <<pendingSell, newId>>,
         SameOrders(orders, orders'), NoReopen(orders, orders'),
         \A i \in Tranches : Taken(i) => Taken(i)',
         \/ UNCHANGED <<pc, cur, todo>>
         \/ pc' \notin SellPhase \cup Selling
         \/ /\ pc' \in {"sells", "cascade"}
            /\ \/ pc \in SellPhase /\ todo' \subseteq todo
               \/ todo' = Snapshot(pendingSell)
         \/ /\ pc \in SellPhase /\ UNCHANGED todo
            /\ pc' = "cancel" /\ Taken(cur.idx)'
  PROVE  SellInv'
<1>1. /\ \A i \in Tranches : OpenSells(i)' \subseteq OpenSells(i)
      /\ SellsActive' /\ OneOpenSell'
  BY SellsFrame
<1>2. SellsTracked'
  BY <1>1 DEF SellInv, SellsTracked
<1>3. \A item \in Snapshot(pendingSell) : pendingSell[item.idx] = item.id
  BY DEF Snapshot
<1>4. pc \in Selling \cup Replacing => cur.idx \in Tranches
  BY DEF RunnerInv, InFlight, Selling, Replacing, Buying, Pending
<1>5. SellsPlaced'
  <2>1. CASE UNCHANGED <<pc, cur, todo>>
    <3>1. ASSUME Taken(cur.idx), cur.idx \in Tranches PROVE Taken(cur.idx)'
      <4>1. Taken(cur.idx) => \E t \in active' : t.idx = cur.idx /\ t.id \notin halfSold'
        BY <3>1 DEF Taken
      <4> QED
        BY <2>1, <3>1, <4>1 DEF Taken
    <3>2. ASSUME cur.idx \in Tranches
          PROVE  OpenSells(cur.idx)' \subseteq OpenSells(cur.idx)
      BY <2>1, <3>2 DEF OpenSells, OpenOrders, IsOpen, OrderIds, SameOrders, NoReopen
    <3> QED
      BY <1>4, <2>1, <3>1, <3>2 DEF SellInv, SellsPlaced, Selling, Replacing
  <2>2. CASE pc' \notin SellPhase \cup Selling \/ pc' \in {"sells", "cascade"}
    BY <2>2 DEF SellsPlaced, Selling, Replacing, SellPhase
  <2>3. CASE pc' = "cancel" /\ Taken(cur.idx)'
    BY <2>3 DEF SellsPlaced, Selling, Replacing, Taken
  <2> QED
    BY <2>1, <2>2, <2>3
<1>6. OrderIds' = OrderIds
  BY DEF SameOrders, OrderIds
<1>7. \A item \in todo : item.idx \in Tranches
  BY DEF RunnerInv, OrdersTyped
<1>8. SnapshotFresh'
  BY <1>3, <1>6, <1>7 DEF SellInv, SnapshotFresh, SellPhase, Replacing, Selling, OrderIds,
     NoReopen
<1> QED
  BY <1>1, <1>2, <1>5, <1>8 DEF SellInv

\* The steps around the replacement of orders: the balance, the loops, the
\* signals, the handlers of the API and the fills of the exchange.
LEMMA LoopSells ==
  ASSUME RunnerInv, SellInv,
         \/ Balance \/ BuysReconciled \/ Evaluate \/ SkipSignal \/ HandleBuySignal
         \/ BuyFailed \/ EndCycle \/ CascadeEnds \/ ReplaceFailed \/ Api
         \/ UNCHANGED vars
         \/ \E item \in todo : BuyStillOpen(item) \/ SellStillOpen(item)
  PROVE  SellInv'
<1>1. UNCHANGED <<active, halfSold, orders, pendingSell, newId>>
  <2> USE DEF botVars, mapVars, exchangeVars, loopVars, auxVars, errorVars
  <2>1. CASE Balance
    BY <2>1 DEF Balance, StartCycle, ReadBalance, BalanceUnknown, CompareBalance,
                BookDifference
  <2>2. CASE BuysReconciled \/ Evaluate \/ SkipSignal \/ HandleBuySignal \/ EndCycle
             \/ CascadeEnds \/ UNCHANGED vars
    BY <2>2 DEF BuysReconciled, Evaluate, SkipSignal, HandleBuySignal, EndCycle,
                CascadeEnds, vars
  <2>3. CASE BuyFailed \/ ReplaceFailed
    BY <2>3 DEF BuyFailed, ReplaceFailed, Raised
  <2>4. CASE Api
    BY <2>4 DEF Api, PauseBot, ResumeBot, StopBot, SetStatus, DepositCapital,
                WithdrawCapital, CapitalHandler
  <2>5. CASE \E item \in todo : BuyStillOpen(item) \/ SellStillOpen(item)
    BY <2>5 DEF BuyStillOpen, SellStillOpen
  <2> QED
    BY <2>1, <2>2, <2>3, <2>4, <2>5
<1>2. \/ UNCHANGED <<pc, cur, todo>>
      \/ pc' \notin SellPhase \cup Selling
      \/ /\ pc' \in {"sells", "cascade"}
         /\ \/ pc \in SellPhase /\ todo' \subseteq todo
            \/ todo' = Snapshot(pendingSell)
  <2> USE DEF SellPhase, Selling, Replacing
  <2>1. CASE Balance
    BY <2>1 DEF Balance, StartCycle, ReadBalance, BalanceUnknown, CompareBalance,
                BookDifference
  <2>2. CASE BuysReconciled \/ Evaluate \/ SkipSignal \/ HandleBuySignal \/ EndCycle
             \/ CascadeEnds
    BY <2>2 DEF BuysReconciled, Evaluate, SkipSignal, HandleBuySignal, EndCycle,
                CascadeEnds
  <2>3. CASE BuyFailed \/ ReplaceFailed
    BY <2>3 DEF BuyFailed, ReplaceFailed
  <2>4. CASE Api \/ UNCHANGED vars
    BY <2>4 DEF Api, PauseBot, ResumeBot, StopBot, SetStatus, DepositCapital,
                WithdrawCapital, CapitalHandler, vars, loopVars
  <2>5. CASE \E item \in todo : BuyStillOpen(item) \/ SellStillOpen(item)
    BY <2>5 DEF BuyStillOpen, SellStillOpen
  <2> QED
    BY <2>1, <2>2, <2>3, <2>4, <2>5
<1>3. SameOrders(orders, orders') /\ NoReopen(orders, orders')
  BY <1>1, SameOrdersRefl DEF RunnerInv, OrdersTyped
<1>4. \A i \in Tranches : Taken(i) => Taken(i)'
  BY <1>1 DEF Taken
<1> QED
  BY <1>1, <1>2, <1>3, <1>4, QuietSells

LEMMA ExchangeSells ==
  ASSUME RunnerInv, SellInv, Exchange
  PROVE  SellInv'
<1>1. UNCHANGED <<active, halfSold, pendingSell, newId, pc, cur, todo>>
  BY DEF Exchange, Fill, ExternalTransfer, botVars, mapVars, loopVars, auxVars, errorVars
<1>2. SameOrders(orders, orders') /\ NoReopen(orders, orders')
  <2>1. orders \in Seq(Order)
    BY DEF RunnerInv, OrdersTyped
  <2>2. CASE orders' = orders
    BY <2>1, <2>2, SameOrdersRefl
  <2>3. ASSUME NEW id \in OrderIds, Fill(id)
        PROVE  SameOrders(orders, orders') /\ NoReopen(orders, orders')
    <3>1. /\ orders' = [orders EXCEPT ![id].st = "closed"] /\ orders[id].st = "open"
          /\ id \in 1..Len(orders) /\ "closed" \in {"open", "closed", "canceled"}
      BY <2>3 DEF Fill, OrderIds
    <3>2. /\ SameOrders(orders, [orders EXCEPT ![id].st = "closed"])
          /\ StatusChanged(orders, [orders EXCEPT ![id].st = "closed"], id, "closed")
      BY <2>1, <3>1, StatusSet, Zenon
    <3>3. SameOrders(orders, orders') /\ StatusChanged(orders, orders', id, "closed")
      BY <3>1, <3>2, Zenon
    <3> QED
      BY <3>1, <3>3 DEF StatusChanged, NoReopen
  <2>4. orders' = orders \/ \E id \in OrderIds : Fill(id)
    BY DEF Exchange, ExternalTransfer
  <2> QED
    BY <2>2, <2>3, <2>4
<1>3. \A i \in Tranches : Taken(i) => Taken(i)'
  BY <1>1 DEF Taken
<1> QED
  BY <1>1, <1>2, <1>3, QuietSells

\* An order taken by the exchange is the only new open one.
LEMMA AcceptedSells ==
  ASSUME RunnerInv, SellInv, BuyAccepted \/ SellAccepted \/ ReplaceAccepted
  PROVE  SellInv'
<1> DEFINE side == IF pc = "placeBuy" THEN "buy" ELSE "sell"
           new == Len(orders) + 1
<1>1. /\ UNCHANGED <<active, halfSold, pendingSell, cur, todo>>
      /\ Placed(side) /\ newId' = new
      /\ \/ pc = "placeBuy" /\ pc' = "buyPlaced" /\ side = "buy"
         \/ pc = "placeSell" /\ pc' = "sellPlaced" /\ side = "sell"
         \/ pc = "replace" /\ pc' = "replaced" /\ side = "sell"
  BY DEF BuyAccepted, SellAccepted, ReplaceAccepted, Accepted, botVars, mapVars, auxVars,
         errorVars
<1>2. newId = None /\ cur.idx \in Tranches
  BY <1>1 DEF RunnerInv, InFlight, Buying, Selling, Replacing, Pending
<1> HIDE DEF side
<1>3. OneMore(orders, orders', NewOrder(side))
  <2>1. /\ side \in {"buy", "sell"} /\ pc \in Buying \cup Selling \cup Replacing
        /\ side = "buy" => pc \in Buying
    BY <1>1 DEF Buying, Selling, Replacing
  <2> QED
    BY <1>1, <2>1, PlacedOrders
<1>4. /\ Len(orders) \in Nat /\ Len(orders') = Len(orders) + 1
      /\ \A j \in 1..Len(orders) : orders'[j] = orders[j]
      /\ orders'[new].side = side /\ orders'[new].idx = cur.idx
  BY <1>3 DEF OneMore, NewOrder
<1>5. \A id \in OpenOrders("sell")' : \/ id \in OpenOrders("sell")
                                      \/ id = new /\ side = "sell"
  BY <1>4 DEF OpenOrders, IsOpen, OrderIds
<1>6. \A id \in OpenOrders("sell") : id \in 1..Len(orders) /\ orders'[id] = orders[id]
  BY <1>4 DEF OpenOrders, OrderIds
<1>7. side = "sell" => /\ Taken(cur.idx)
                       /\ \A id \in OpenOrders("sell") : orders[id].idx # cur.idx
  BY <1>1 DEF SellInv, SellsPlaced, Selling, Replacing, OpenSells
<1>8. SellsActive'
  BY <1>1, <1>4, <1>5, <1>6, <1>7 DEF SellInv, SellsActive, Taken
<1>9. OneOpenSell'
  BY <1>4, <1>5, <1>6, <1>7 DEF SellInv, OneOpenSell
<1>10. SellsTracked'
  <2>1. \A i : Taken(i) => Taken(i)'
    BY <1>1 DEF Taken
  <2> QED
    BY <1>1, <1>2, <1>4, <1>5, <1>6, <2>1
    DEF SellInv, SellsTracked, OpenSells, OrderIds, None
<1>11. SellsPlaced'
  <2>1. pc' \in Selling \cup Replacing => Taken(cur.idx)'
    BY <1>1, <1>7 DEF Selling, Replacing, Taken
  <2>2. pc' \in {"sellPlaced", "replaced"} => OpenSells(cur.idx)' \subseteq {newId'}
    BY <1>1, <1>5, <1>6, <1>7 DEF OpenSells
  <2> QED
    BY <1>1, <2>1, <2>2 DEF SellsPlaced, Selling, Replacing
<1>12. SnapshotFresh'
  <2>1. todo \subseteq [idx : Tranches, id : {Simulated} \cup OrderIds]
    BY DEF RunnerInv, OrdersTyped
  <2>2. \A item \in todo : item.id \in OrderIds' => item.id \in OrderIds
    BY <1>4, <2>1 DEF OrderIds, Simulated
  <2> QED
    BY <1>1, <1>4, <2>2 DEF SellInv, SnapshotFresh, SellPhase, Replacing, OrderIds
<1> QED
  BY <1>8, <1>9, <1>10, <1>11, <1>12 DEF SellInv

LEMMA RecordBuySells ==
  ASSUME RunnerInv, SellInv, RecordBuy
  PROVE  SellInv'
<1>1. /\ UNCHANGED <<active, halfSold, pendingSell>>
      /\ pc = "buyPlaced" /\ pc' = "signals" /\ newId' = None
      /\ orders' = [orders EXCEPT ![newId].db = "OPEN"]
  BY DEF RecordBuy, botVars, auxVars, errorVars
<1>2. newId \in OrderIds /\ IsOrder(newId, "buy", cur.idx)
  BY <1>1 DEF RunnerInv, InFlight, OrdersTyped
<1>3. SameOrders(orders, orders') /\ NoReopen(orders, orders')
  BY <1>1, <1>2, DbOrders DEF NoReopen
<1>4. \A i \in Tranches : Taken(i) => Taken(i)'
  BY <1>1 DEF Taken
<1>5. /\ \A i \in Tranches : OpenSells(i)' \subseteq OpenSells(i)
      /\ SellsActive' /\ OneOpenSell'
  BY <1>3, <1>4, SellsFrame
<1>6. \A i \in Tranches : newId \notin OpenSells(i)
  BY <1>2, OpenSell DEF IsOrder
<1>7. SellsTracked'
  BY <1>1, <1>4, <1>5, <1>6 DEF SellInv, SellsTracked
<1>8. SellsPlaced' /\ SnapshotFresh'
  BY <1>1 DEF SellsPlaced, SnapshotFresh, SellPhase, Selling, Replacing
<1> QED
  BY <1>5, <1>7, <1>8 DEF SellInv

\* The recorded sell is the only open one of its index.
LEMMA RecordSells ==
  ASSUME RunnerInv, SellInv, RecordSell \/ RecordReplaced
  PROVE  SellInv'
<1>1. /\ UNCHANGED <<active, halfSold, todo>>
      /\ newId' = None
      /\ pendingSell' = [pendingSell EXCEPT ![cur.idx] = newId]
      /\ orders' = [orders EXCEPT ![newId].db = "OPEN"]
      /\ \/ pc = "sellPlaced" /\ pc' = "buys"
         \/ pc = "replaced" /\ pc' = "cascade"
  BY DEF RecordSell, RecordReplaced, botVars, Track, auxVars, errorVars
<1>2. /\ newId \in OrderIds /\ IsOrder(newId, "sell", cur.idx) /\ cur.idx \in Tranches
      /\ pendingSell \in [Tranches -> {None, Simulated} \cup OrderIds]
  BY <1>1 DEF RunnerInv, InFlight, OrdersTyped, Selling, Replacing, Pending
<1>3. /\ SameOrders(orders, orders') /\ NoReopen(orders, orders')
      /\ \A j \in 1..Len(orders) : orders'[j].st = orders[j].st
  BY <1>1, <1>2, DbOrders DEF NoReopen
<1>4. \A i \in Tranches : Taken(i) => Taken(i)'
  BY <1>1 DEF Taken
<1>5. /\ \A i \in Tranches : OpenSells(i)' \subseteq OpenSells(i)
      /\ SellsActive' /\ OneOpenSell'
  BY <1>3, <1>4, SellsFrame
<1>6. \A i \in Tranches : pendingSell'[i] = IF i = cur.idx THEN newId ELSE pendingSell[i]
  BY <1>1, <1>2
<1>7. SellsTracked'
  <2> SUFFICES ASSUME NEW i \in Tranches, pendingSell'[i] # None
               PROVE  Taken(i)' /\ OpenSells(i)' \subseteq {pendingSell'[i], newId'}
    BY DEF SellsTracked
  <2>1. CASE i = cur.idx
    <3>1. Taken(cur.idx) /\ OpenSells(cur.idx) \subseteq {newId}
      BY <1>1 DEF SellInv, SellsPlaced, Selling, Replacing
    <3>2. Taken(i)' /\ OpenSells(i)' \subseteq OpenSells(i)
      BY <1>4, <1>5, <2>1, <3>1
    <3> QED
      BY <1>6, <2>1, <3>1, <3>2
  <2>2. CASE i # cur.idx
    <3>1. newId \notin OpenSells(i)
      BY <1>2, <2>2, OpenSell DEF IsOrder
    <3>2. /\ pendingSell[i] # None /\ Taken(i)
          /\ OpenSells(i) \subseteq {pendingSell[i], newId}
      BY <1>6, <2>2 DEF SellInv, SellsTracked
    <3> QED
      BY <1>4, <1>5, <1>6, <2>2, <3>1, <3>2
  <2> QED
    BY <2>1, <2>2
<1>8. SellsPlaced'
  BY <1>1 DEF SellsPlaced, Selling, Replacing
<1>9. SnapshotFresh'
  <2> SUFFICES ASSUME pc = "replaced", NEW item \in todo, item.id \in 1..Len(orders)
               PROVE  \/ pendingSell'[item.idx] = item.id
                      \/ orders'[item.id].st = "canceled"
    BY <1>1, <1>3 DEF SnapshotFresh, SellPhase, Replacing, SameOrders, OrderIds
  <2>1. \/ pendingSell[item.idx] = item.id
        \/ orders[item.id].st = "canceled"
    BY DEF SellInv, SnapshotFresh, SellPhase, Replacing, OrderIds
  <2>2. orders[pendingSell[cur.idx]].st = "canceled"
    BY DEF SellInv, SnapshotFresh
  <2>3. item.idx \in Tranches
    BY DEF RunnerInv, OrdersTyped
  <2> QED
    BY <1>3, <1>6, <2>1, <2>2, <2>3
<1> QED
  BY <1>5, <1>7, <1>8, <1>9 DEF SellInv

\* A tranche whose sell was refused keeps no open one.
LEMMA SellFailedSells ==
  ASSUME RunnerInv, SellInv, SellFailed
  PROVE  SellInv'
<1>1. /\ UNCHANGED <<active, halfSold, orders, newId>>
      /\ pc = "placeSell" /\ pc' = "buys"
      /\ pendingSell' = [pendingSell EXCEPT ![cur.idx] = Simulated]
  BY DEF SellFailed, Raised, botVars, Track, exchangeVars, auxVars, errorVars
<1>2. /\ pendingSell \in [Tranches -> {None, Simulated} \cup OrderIds]
      /\ cur.idx \in Tranches
  BY <1>1 DEF RunnerInv, OrdersTyped, InFlight, Pending, Selling
<1>3. /\ \A i \in Tranches : OpenSells(i)' \subseteq OpenSells(i)
      /\ SellsActive' /\ OneOpenSell'
      /\ \A i \in Tranches : Taken(i) => Taken(i)'
  <2>1. SameOrders(orders, orders') /\ NoReopen(orders, orders')
    BY <1>1, SameOrdersRefl DEF RunnerInv, OrdersTyped
  <2>2. \A i \in Tranches : Taken(i) => Taken(i)'
    BY <1>1 DEF Taken
  <2> QED
    BY <2>1, <2>2, SellsFrame
<1>4. SellsTracked'
  <2>1. \A i \in Tranches : pendingSell'[i] = IF i = cur.idx THEN Simulated
                                                            ELSE pendingSell[i]
    BY <1>1, <1>2
  <2>2. OpenSells(cur.idx) = {} /\ Taken(cur.idx)
    BY <1>1 DEF SellInv, SellsPlaced, Selling
  <2> QED
    BY <1>1, <1>2, <1>3, <2>1, <2>2 DEF SellInv, SellsTracked
<1>5. SellsPlaced' /\ SnapshotFresh'
  BY <1>1 DEF SellsPlaced, SnapshotFresh, SellPhase, Selling, Replacing
<1> QED
  BY <1>3, <1>4, <1>5 DEF SellInv

\* The order the runner is replacing is gone before it places the next one.
LEMMA CancelSells ==
  ASSUME RunnerInv, SellInv, CancelAccepted
  PROVE  SellInv'
<1> DEFINE id == pendingSell[cur.idx]
<1>1. /\ UNCHANGED <<active, halfSold, pendingSell, newId, cur, todo>>
      /\ pc = "cancel" /\ pc' = "replace"
      /\ id \in 1..Len(orders) /\ orders[id].st = "open"
      /\ orders' = [orders EXCEPT ![id].st = "canceled", ![id].db = "CANCELED"]
  BY DEF CancelAccepted, botVars, mapVars, loopVars, OrderIds, auxVars, errorVars
<1>2. cur.idx \in Tranches /\ newId = None
  BY <1>1 DEF RunnerInv, InFlight, Replacing, Pending
<1>3. /\ SameOrders(orders, orders')
      /\ StatusChanged(orders, orders', pendingSell[cur.idx], "canceled")
  <2>1. orders \in Seq(Order)
    BY DEF RunnerInv, OrdersTyped
  <2> QED
    BY <1>1, <2>1, CancelSet, Zenon
<1>4. NoReopen(orders, orders')
  BY <1>3 DEF NoReopen, StatusChanged
<1>5. \A i \in Tranches : Taken(i) => Taken(i)'
  BY <1>1 DEF Taken
<1>6. /\ \A i \in Tranches : OpenSells(i)' \subseteq OpenSells(i)
      /\ SellsActive' /\ OneOpenSell'
  BY <1>3, <1>4, <1>5, SellsFrame
<1>7. SellsTracked'
  BY <1>1, <1>5, <1>6 DEF SellInv, SellsTracked
<1>8. SellsPlaced'
  <2>1. Taken(cur.idx)'
    BY <1>1 DEF SellInv, SellsPlaced, Replacing, Taken
  <2>2. OpenSells(cur.idx) \subseteq {id, None}
    BY <1>1, <1>2 DEF SellInv, SellsTracked, None
  <2>3. \A j \in 1..Len(orders) : j # None
    BY DEF None
  <2>4. \A j \in 1..Len(orders) : /\ orders[j].st = "open" /\ orders[j].side = "sell"
                                  /\ orders[j].idx = cur.idx
                                  => j = id
    BY <2>2, <2>3, OpenSell
  <2>5. OpenSells(cur.idx)' = {}
    <3>1. \A j : j \notin OpenSells(cur.idx)'
      <4> SUFFICES ASSUME NEW j, j \in OpenSells(cur.idx)'
                   PROVE  FALSE
        OBVIOUS
      <4>1. /\ j \in 1..Len(orders') /\ orders'[j].st = "open"
            /\ orders'[j].side = "sell" /\ orders'[j].idx = cur.idx
        BY <1>1 DEF OpenSells, OpenOrders, IsOpen, OrderIds
      <4>2. /\ j \in 1..Len(orders) /\ orders[j].side = "sell" /\ orders[j].idx = cur.idx
            /\ j # id /\ orders[j].st = "open"
        BY <1>3, <4>1 DEF SameOrders, StatusChanged
      <4> QED
        BY <2>4, <4>2
    <3> QED
      BY <3>1
  <2> QED
    BY <1>1, <2>1, <2>5 DEF SellsPlaced, Selling, Replacing
<1>9. SnapshotFresh'
  <2>1. orders'[id].st = "canceled" /\ id \in OrderIds'
    BY <1>1, <1>3 DEF StatusChanged, SameOrders, OrderIds
  <2> QED
    BY <1>1, <1>3, <1>4, <2>1 DEF SellInv, SnapshotFresh, SellPhase, Replacing, OrderIds,
       NoReopen, SameOrders
<1> QED
  BY <1>6, <1>7, <1>8, <1>9 DEF SellInv

\* A cancellation that is not recorded moves the loop on.
LEMMA CancelFailedSells ==
  ASSUME RunnerInv, SellInv, CancelFailed
  PROVE  SellInv'
<1>1. /\ UNCHANGED <<active, halfSold, pendingSell, newId, todo>>
      /\ pc = "cancel" /\ pc' = "cascade"
  BY DEF CancelFailed, botVars, mapVars, auxVars, errorVars
<1>2. \/ UNCHANGED orders
      \/ \E id \in OrderIds : orders' = [orders EXCEPT ![id].st = "canceled"]
  BY DEF CancelFailed, OpenOrders
<1>3. orders \in Seq(Order)
  BY DEF RunnerInv, OrdersTyped
<1>4. SameOrders(orders, orders') /\ NoReopen(orders, orders')
  <2>1. CASE UNCHANGED orders
    BY <1>3, <2>1, SameOrdersRefl
  <2>2. ASSUME NEW id \in OrderIds, orders' = [orders EXCEPT ![id].st = "canceled"]
        PROVE  SameOrders(orders, orders') /\ NoReopen(orders, orders')
    <3>1. id \in 1..Len(orders) /\ "canceled" \in {"open", "closed", "canceled"}
      BY DEF OrderIds
    <3>2. /\ SameOrders(orders, [orders EXCEPT ![id].st = "canceled"])
          /\ StatusChanged(orders, [orders EXCEPT ![id].st = "canceled"], id, "canceled")
      BY <1>3, <3>1, StatusSet, Zenon
    <3>3. SameOrders(orders, orders') /\ StatusChanged(orders, orders', id, "canceled")
      BY <2>2, <3>2, Zenon
    <3> QED
      BY <3>3 DEF StatusChanged, NoReopen
  <2> QED
    BY <1>2, <2>1, <2>2
<1>5. \A i \in Tranches : Taken(i) => Taken(i)'
  BY <1>1 DEF Taken
<1> QED
  BY <1>1, <1>4, <1>5, QuietSells DEF SellPhase, Replacing

\* Marking a filled order, or none, opens no order.
LEMMA MarkedOrders ==
  ASSUME RunnerInv, NEW id \in OrderIds, orders' = orders \/ orders' = MarkClosed(id)
  PROVE  /\ SameOrders(orders, orders') /\ NoReopen(orders, orders')
         /\ \A j \in 1..Len(orders) : orders'[j].st = orders[j].st
<1>1. CASE orders' = MarkClosed(id)
  <2>1. orders' = [orders EXCEPT ![id].db = "CLOSED"]
    BY <1>1 DEF MarkClosed
  <2> QED
    BY <2>1, DbOrders DEF NoReopen
<1>2. CASE orders' = orders
  BY <1>2, SameOrdersRefl DEF RunnerInv, OrdersTyped
<1> QED
  BY <1>1, <1>2

\* The tranche a filled buy opens has no open sell, for its index had none.
LEMMA ActivateSells ==
  ASSUME RunnerInv, SellInv, HalfBooked, NEW item \in todo, Activate(item)
  PROVE  SellInv'
<1> DEFINE price == orders[item.id].price
           tranche == [id |-> item.id, idx |-> item.idx, buy |-> price,
                       target |-> price + TakeProfit]
<1>0. /\ TakeBuy(item)
      /\ UNCHANGED <<pendingSell, newId, halfSold>>
      /\ active' = active \cup {tranche}
      /\ pc = "buys" /\ pc' = "placeSell"
      /\ cur' = [idx |-> item.idx, price |-> tranche.target, tries |-> 0]
      /\ orders' = MarkClosed(item.id)
  BY DEF Activate, TakeBuy, BookBuy, auxVars, errorVars
<1>1. /\ active \subseteq active' /\ cur'.idx = item.idx
      /\ \E t \in active' : t.idx = item.idx /\ t.id = item.id
  <2>1. tranche.idx = item.idx /\ tranche.id = item.id /\ cur'.idx = item.idx
    BY <1>0
  <2> HIDE DEF tranche
  <2> QED
    BY <1>0, <2>1
<1>2. /\ item.id \in OrderIds /\ item.idx \in Tranches /\ ~Taken(item.idx)
      /\ orders[item.id].db = "OPEN"
  BY <1>0, BuyTaken
<1>3. item.id \notin halfSold
  BY <1>2 DEF HalfBooked, RunnerInv, RowsBooked
<1>4. OpenSells(item.idx) = {}
  BY <1>2 DEF SellInv, SellsActive, OpenSells
<1>5. SameOrders(orders, orders') /\ NoReopen(orders, orders')
  BY <1>0, <1>2, MarkedOrders
<1>6. \A i \in Tranches : Taken(i) => Taken(i)'
  BY <1>0, <1>1 DEF Taken
<1>7. /\ \A i \in Tranches : OpenSells(i)' \subseteq OpenSells(i)
      /\ SellsActive' /\ OneOpenSell'
  BY <1>5, <1>6, SellsFrame
<1>8. SellsTracked'
  BY <1>0, <1>6, <1>7 DEF SellInv, SellsTracked
<1>9. SellsPlaced'
  <2>1. Taken(cur.idx)'
    BY <1>0, <1>1, <1>3 DEF Taken
  <2>2. OpenSells(cur.idx)' = {}
    BY <1>1, <1>4, <1>5 DEF OpenSells, OpenOrders, IsOpen, OrderIds, SameOrders, NoReopen
  <2> QED
    BY <1>0, <2>1, <2>2 DEF SellsPlaced
<1>10. SnapshotFresh'
  BY <1>0 DEF SnapshotFresh, SellPhase, Replacing
<1> QED
  BY <1>7, <1>8, <1>9, <1>10 DEF SellInv

\* A filled sell was the last order of its index, so the tranche it sells
\* leaves none behind.
LEMMA TakenSells ==
  ASSUME RunnerInv, SellInv, NEW item \in todo, TakeSell(item), UNCHANGED newId,
         orders' = orders \/ orders' = MarkClosed(item.id),
         \A i \in Tranches : i # item.idx /\ Taken(i) => Taken(i)'
  PROVE  /\ SellsActive' /\ OneOpenSell' /\ SellsTracked'
         /\ \A i \in Tranches :
               pendingSell'[i] = IF i = item.idx THEN None ELSE pendingSell[i]
         /\ \A j \in 1..Len(orders) : orders'[j].st = orders[j].st
         /\ OrderIds' = OrderIds
         /\ pendingSell[item.idx] = item.id
<1>1. /\ pc = "sells" /\ pendingSell' = [pendingSell EXCEPT ![item.idx] = None]
      /\ item.id \in OrderIds /\ orders[item.id].st = "closed"
  BY DEF TakeSell, Filled
<1>2. /\ pendingSell \in [Tranches -> {None, Simulated} \cup OrderIds]
      /\ todo \subseteq [idx : Tranches, id : {Simulated} \cup OrderIds]
      /\ newId = None
  BY <1>1 DEF RunnerInv, OrdersTyped, InFlight
<1>3. pendingSell[item.idx] = item.id /\ item.id # None
  BY <1>1 DEF SellInv, SnapshotFresh, SellPhase, OrderIds, None
<1>4. OpenSells(item.idx) = {}
  <2>1. OpenSells(item.idx) \subseteq {item.id, None}
    BY <1>2, <1>3 DEF SellInv, SellsTracked
  <2>2. item.id \notin OpenSells(item.idx) /\ None \notin OpenSells(item.idx)
    BY <1>1, OpenSell DEF None
  <2> QED
    BY <2>1, <2>2
<1>5. /\ SameOrders(orders, orders') /\ NoReopen(orders, orders')
      /\ \A j \in 1..Len(orders) : orders'[j].st = orders[j].st
  BY <1>1, MarkedOrders
<1>6. \A id \in OpenOrders("sell")' : /\ id \in OpenOrders("sell")
                                      /\ orders'[id].idx = orders[id].idx
  BY <1>5 DEF OpenOrders, IsOpen, OrderIds, SameOrders
<1>7. \A id \in OpenOrders("sell") : orders[id].idx # item.idx
  BY <1>4 DEF OpenSells
<1>8. \A id \in OpenOrders("sell") : orders[id].idx \in Tranches
  <2>1. \A id \in OpenOrders("sell") : orders[id] \in Order
    BY ElementOfSeq DEF RunnerInv, OrdersTyped, OpenOrders, OrderIds
  <2> QED
    BY <2>1 DEF Order
<1>9. SellsActive'
  BY <1>6, <1>7, <1>8 DEF SellInv, SellsActive
<1>10. OneOpenSell'
  BY <1>6 DEF SellInv, OneOpenSell
<1>11. \A i \in Tranches : pendingSell'[i] = IF i = item.idx THEN None ELSE pendingSell[i]
  BY <1>1, <1>2
<1>12. SellsTracked'
  <2> SUFFICES ASSUME NEW i \in Tranches, pendingSell'[i] # None
               PROVE  Taken(i)' /\ OpenSells(i)' \subseteq {pendingSell'[i], newId'}
    BY DEF SellsTracked
  <2>1. i # item.idx /\ Taken(i) /\ OpenSells(i) \subseteq {pendingSell[i], newId}
    BY <1>11 DEF SellInv, SellsTracked
  <2>2. OpenSells(i)' \subseteq OpenSells(i)
    BY <1>6 DEF OpenSells
  <2> QED
    BY <1>11, <2>1, <2>2
<1> QED
  BY <1>3, <1>5, <1>9, <1>10, <1>11, <1>12 DEF SameOrders, OrderIds

\* Booking a sale leaves the other indexes as taken as they were.
LEMMA SaleTaken ==
  ASSUME NEW item, UNCHANGED halfSold,
         active' = active \/ \E t \in active : t.idx = item.idx /\ active' = active \ {t}
  PROVE  \A i \in Tranches : i # item.idx /\ Taken(i) => Taken(i)'
BY DEF Taken

LEMMA CloseSells ==
  ASSUME RunnerInv, SellInv, NEW item \in todo, Close(item)
  PROVE  SellInv'
<1>1. /\ UNCHANGED <<newId, halfSold>> /\ TakeSell(item)
      /\ pc = "sells" /\ pc' \in {"sells", "cascade"} /\ todo' = todo \ {item}
      /\ orders' = MarkClosed(item.id)
      /\ \/ active' = active
         \/ \E t \in active : t.idx = item.idx /\ active' = active \ {t}
  BY DEF Close, TakeSell, CloseNothing, BookSale, botVars, auxVars, errorVars
<1>2. \A i \in Tranches : i # item.idx /\ Taken(i) => Taken(i)'
  BY <1>1, SaleTaken
<1>3. /\ SellsActive' /\ OneOpenSell' /\ SellsTracked'
      /\ \A i \in Tranches :
            pendingSell'[i] = IF i = item.idx THEN None ELSE pendingSell[i]
      /\ \A j \in 1..Len(orders) : orders'[j].st = orders[j].st
      /\ OrderIds' = OrderIds
      /\ pendingSell[item.idx] = item.id
  BY <1>1, <1>2, TakenSells
<1>4. SellsPlaced'
  BY <1>1 DEF SellsPlaced, Selling, Replacing
<1>5. SnapshotFresh'
  <2> SUFFICES ASSUME NEW other \in todo, other # item, other.id \in OrderIds
               PROVE  \/ pendingSell'[other.idx] = other.id
                      \/ orders'[other.id].st = "canceled"
    BY <1>1, <1>3 DEF SnapshotFresh, SellPhase, Replacing
  <2>1. \/ pendingSell[other.idx] = other.id
        \/ orders[other.id].st = "canceled"
    BY <1>1 DEF SellInv, SnapshotFresh, SellPhase
  <2>2. todo \subseteq [idx : Tranches, id : {Simulated} \cup OrderIds]
    BY DEF RunnerInv, OrdersTyped
  <2>3. pendingSell[other.idx] = other.id => other.idx # item.idx
    BY <1>3, <2>2
  <2> QED
    BY <1>3, <2>1, <2>2, <2>3 DEF OrderIds
<1> QED
  BY <1>3, <1>4, <1>5 DEF SellInv

\* A subsidy changes no order yet and no index.
LEMMA CheaperTaken ==
  ASSUME RunnerInv, UNCHANGED halfSold,
         \/ UNCHANGED active
         \/ \E t \in active : Discount(t) > 0 /\ active' = (active \ {t}) \cup {Cheaper(t)}
  PROVE  \A i : Taken(i) => Taken(i)'
<1>1. ASSUME NEW t \in active, Discount(t) > 0, active' = (active \ {t}) \cup {Cheaper(t)}
      PROVE  \A i : Taken(i) => Taken(i)'
  <2>1. Cheaper(t).id = t.id /\ Cheaper(t).idx = t.idx
    BY <1>1, CheaperTranche
  <2> HIDE DEF Cheaper
  <2> QED
    BY <1>1, <2>1 DEF Taken
<1> QED
  BY <1>1 DEF Taken

LEMMA SubsidizeSells ==
  ASSUME RunnerInv, SellInv, Subsidize
  PROVE  SellInv'
<1>1. /\ UNCHANGED <<orders, pendingSell, newId, todo, halfSold>> /\ pc = "cascade"
      /\ \/ UNCHANGED active
         \/ \E t \in active : Discount(t) > 0 /\ active' = (active \ {t}) \cup {Cheaper(t)}
  BY DEF Subsidize, NextHung, mapVars, exchangeVars
<1>2. \A i : Taken(i) => Taken(i)'
  BY <1>1, CheaperTaken
<1>3. \/ UNCHANGED <<pc, cur>>
      \/ pc' = "cancel" /\ Taken(cur.idx)'
  <2>1. \/ UNCHANGED <<pc, cur>>
        \/ \E t \in active :
             /\ pc' = "cancel" /\ cur' = [idx |-> t.idx, price |-> Cheaper(t).target, tries |-> 0]
             /\ pendingSell[t.idx] # None
    BY DEF Subsidize
  <2>2. ASSUME NEW t \in active, pc' = "cancel",
               cur' = [idx |-> t.idx, price |-> Cheaper(t).target, tries |-> 0],
               pendingSell[t.idx] # None
        PROVE  Taken(cur.idx)'
    <3>1. cur'.idx = t.idx /\ t.idx \in Tranches
      BY <2>2, TrancheFields DEF RunnerInv, OrdersTyped
    <3>2. Taken(t.idx)
      BY <2>2, <3>1 DEF SellInv, SellsTracked
    <3>3. \E u \in active' : u.idx = t.idx /\ u.id \notin halfSold'
      BY <1>2, <3>2 DEF Taken
    <3> QED
      BY <3>1, <3>3 DEF Taken
  <2> QED
    BY <2>1, <2>2
<1>4. SameOrders(orders, orders') /\ NoReopen(orders, orders')
  BY <1>1, SameOrdersRefl DEF RunnerInv, OrdersTyped
<1> QED
  BY <1>1, <1>2, <1>3, <1>4, QuietSells DEF SellPhase

\* A database error ends the cycle; whatever it left behind, the orders on the
\* exchange are as they were.
LEMMA DbErrorSells ==
  ASSUME RunnerInv, SellInv, DbError
  PROVE  SellInv'
<1>1. pc' = "sleep" /\ UNCHANGED newId
  BY DEF DbError, SubsidyUnsaved, BuyDropped, BuyWithoutSell, SaleDropped, SaleHalfBooked,
         SaleWithoutCascade, CycleAborts
<1>2. CASE SubsidyUnsaved
  <2>1. /\ UNCHANGED <<orders, pendingSell, halfSold>>
        /\ \E t \in active : Discount(t) > 0 /\ active' = (active \ {t}) \cup {Cheaper(t)}
    BY <1>2 DEF SubsidyUnsaved, mapVars, exchangeVars
  <2>2. \A i : Taken(i) => Taken(i)'
    BY <2>1, CheaperTaken
  <2>3. SameOrders(orders, orders') /\ NoReopen(orders, orders')
    BY <2>1, SameOrdersRefl DEF RunnerInv, OrdersTyped
  <2> QED
    BY <1>1, <2>1, <2>2, <2>3, QuietSells DEF SellPhase, Selling, Replacing
<1>3. ASSUME NEW item \in todo, BuyDropped(item) \/ BuyWithoutSell(item)
      PROVE  SellInv'
  <2>1. /\ UNCHANGED <<pendingSell, halfSold>> /\ active \subseteq active' /\ TakeBuy(item)
        /\ orders' = orders \/ orders' = MarkClosed(item.id)
    BY <1>3 DEF BuyDropped, BuyWithoutSell, TakeBuy, BookBuy, botVars, auxVars, errorVars
  <2>2. SameOrders(orders, orders') /\ NoReopen(orders, orders')
    BY <2>1, BuyTaken, MarkedOrders
  <2>3. \A i \in Tranches : Taken(i) => Taken(i)'
    BY <2>1 DEF Taken
  <2> QED
    BY <1>1, <2>1, <2>2, <2>3, QuietSells DEF SellPhase, Selling, Replacing
<1>4. ASSUME NEW item \in todo,
             SaleDropped(item) \/ SaleHalfBooked(item) \/ SaleWithoutCascade(item)
      PROVE  SellInv'
  <2>1. /\ TakeSell(item)
        /\ orders' = orders \/ orders' = MarkClosed(item.id)
    BY <1>4 DEF SaleDropped, SaleHalfBooked, SaleWithoutCascade, BookSale, exchangeVars
  <2>2. \A i \in Tranches : i # item.idx /\ Taken(i) => Taken(i)'
    <3>1. CASE SaleDropped(item) \/ SaleWithoutCascade(item)
      <4>1. /\ UNCHANGED halfSold
            /\ active' = active \/ \E t \in active : t.idx = item.idx /\ active' = active \ {t}
        BY <3>1 DEF SaleDropped, SaleWithoutCascade, BookSale, botVars, auxVars, errorVars
      <4> QED
        BY <4>1, SaleTaken
    <3>2. CASE SaleHalfBooked(item)
      <4>1. PICK t \in active : t.idx = item.idx /\ halfSold' = halfSold \cup {t.id}
        BY <3>2 DEF SaleHalfBooked
      <4>2. UNCHANGED active
        BY <3>2 DEF SaleHalfBooked
      <4>3. \A u \in active : u.id = t.id => u = t
        BY UniqueTranches
      <4> QED
        BY <4>1, <4>2, <4>3 DEF Taken
    <3> QED
      BY <1>4, <3>1, <3>2
  <2>3. SellsActive' /\ OneOpenSell' /\ SellsTracked'
    BY <1>1, <2>1, <2>2, TakenSells
  <2>4. SellsPlaced' /\ SnapshotFresh'
    BY <1>1 DEF SellsPlaced, SnapshotFresh, SellPhase, Selling, Replacing
  <2> QED
    BY <2>3, <2>4 DEF SellInv
<1> QED
  BY <1>2, <1>3, <1>4 DEF DbError

\* After a restart the runner tracks nothing, and the tranches are back.
LEMMA CrashSells ==
  ASSUME RunnerInv, SellInv, Crash \/ \E item \in todo : CrashInHandler(item)
  PROVE  SellInv'
<1>1. /\ active' = {[id |-> row.id, idx |-> row.idx, buy |-> row.buy,
                     target |-> row.target] : row \in RowsIn("ACTIVE")}
      /\ pendingSell' = [i \in Tranches |-> None]
      /\ pc' = "sleep" /\ UNCHANGED halfSold
  BY DEF Crash, CrashInHandler, Rehydrate
<1>2. SameOrders(orders, orders') /\ NoReopen(orders, orders')
  <2>1. \/ UNCHANGED orders
        \/ \E id \in OrderIds : orders' = MarkClosed(id)
    BY DEF Crash, CrashInHandler, Filled
  <2> QED
    BY <2>1, MarkedOrders, SameOrdersRefl DEF RunnerInv, OrdersTyped
<1>3. \A i \in Tranches : Taken(i) => Taken(i)'
  <2> SUFFICES ASSUME NEW t \in active, t.id \notin halfSold
               PROVE  \E u \in active' : u.idx = t.idx /\ u.id = t.id
    BY <1>1 DEF Taken
  <2>1. PICK row \in rows : row.id = t.id /\ row.idx = t.idx /\ row.st = "ACTIVE"
    BY DEF RunnerInv, MemoryBooked
  <2> DEFINE u == [id |-> row.id, idx |-> row.idx, buy |-> row.buy, target |-> row.target]
  <2>2. u \in active'
    BY <1>1, <2>1 DEF RowsIn
  <2>3. u.idx = t.idx /\ u.id = t.id
    BY <2>1
  <2> QED
    BY <2>2, <2>3
<1>4. SellsActive' /\ OneOpenSell'
  BY <1>2, <1>3, SellsFrame
<1>5. SellsTracked' /\ SellsPlaced' /\ SnapshotFresh'
  BY <1>1 DEF SellsTracked, SellsPlaced, SnapshotFresh, SellPhase, Selling, Replacing
<1> QED
  BY <1>4, <1>5 DEF SellInv

\* A row keeps its id for good.
LEMMA SavedIds ==
  ASSUME RunnerInv, NEW t, NEW st, NEW gain
  PROVE  \A row \in rows : \E new \in Saved(t, st, gain) : new.id = row.id
<1> SUFFICES ASSUME NEW row \in rows
             PROVE  \E new \in Saved(t, st, gain) : new.id = row.id
  OBVIOUS
<1> DEFINE new == IF row.id = t.id
                  THEN [row EXCEPT !.target = t.target, !.st = st, !.profit = gain]
                  ELSE row
<1>1. row \in Row
  BY DEF RunnerInv, OrdersTyped
<1>2. new.id = row.id
  BY <1>1 DEF Row
<1>3. new \in Saved(t, st, gain)
  BY DEF Saved
<1> QED
  BY <1>2, <1>3

LEMMA NextHalf == RunnerInv /\ HalfBooked /\ [Next]_vars => HalfBooked'
<1> SUFFICES ASSUME RunnerInv, HalfBooked, [Next]_vars PROVE HalfBooked'
  OBVIOUS
<1>1. CASE UNCHANGED <<rows, halfSold>>
  BY <1>1 DEF HalfBooked
<1>2. CASE UNCHANGED halfSold /\ \E t, st, gain : rows' = Saved(t, st, gain)
  BY <1>2, SavedIds DEF HalfBooked
<1>3. CASE UNCHANGED halfSold /\ rows \subseteq rows'
  BY <1>3 DEF HalfBooked
<1>4. CASE \E item \in todo : SaleHalfBooked(item)
  <2>1. PICK t \in active : halfSold' = halfSold \cup {t.id} /\ UNCHANGED rows
    BY <1>4 DEF SaleHalfBooked, dbVars
  <2>2. \E row \in rows : row.id = t.id
    BY DEF RunnerInv, MemoryBooked
  <2> QED
    BY <2>1, <2>2 DEF HalfBooked
<1> USE DEF botVars, dbVars, auxVars, errorVars
<1>5. Balance \/ Api \/ Exchange \/ Entries \/ Resubmit \/ Failure \/ UNCHANGED vars
        => UNCHANGED <<rows, halfSold>>
  BY DEF Balance, StartCycle, ReadBalance, BalanceUnknown, CompareBalance,
     BookDifference, Api, PauseBot, ResumeBot, StopBot, SetStatus, DepositCapital,
     WithdrawCapital, CapitalHandler, Exchange, Fill, ExternalTransfer, Entries, Evaluate,
     SkipSignal, HandleBuySignal, BuyAccepted, RecordBuy, BuyFailed, EndCycle, Resubmit,
     Failure, Crash, CrashInHandler, Rehydrate, vars
<1>6. CASE Buys
  <2>1. UNCHANGED halfSold /\ rows \subseteq rows'
    BY <1>6 DEF Buys, BuysReconciled, SellAccepted, RecordSell, SellFailed, BuyStillOpen,
       Activate, BookBuy
  <2> QED
    BY <1>3, <2>1
<1>7. CASE Sells
  <2>1. /\ UNCHANGED halfSold
        /\ UNCHANGED rows \/ \E t, st, gain : rows' = Saved(t, st, gain)
    BY <1>7 DEF Sells, SellStillOpen, Close, CloseNothing, BookSale
  <2> QED
    BY <1>1, <1>2, <2>1
<1>8. CASE Cascade
  <2>1. /\ UNCHANGED halfSold
        /\ UNCHANGED rows \/ \E t, st, gain : rows' = Saved(t, st, gain)
    BY <1>8 DEF Cascade, CascadeEnds, Subsidize, SavedAsIs, CancelAccepted, CancelFailed,
       ReplaceAccepted, RecordReplaced, ReplaceFailed
  <2> QED
    BY <1>1, <1>2, <2>1
<1>9. CASE DbError
  <2>1. CASE SubsidyUnsaved
    BY <1>1, <2>1 DEF SubsidyUnsaved
  <2>2. ASSUME NEW item \in todo, BuyDropped(item) \/ BuyWithoutSell(item)
        PROVE  HalfBooked'
    BY <1>3, <2>2 DEF BuyDropped, BuyWithoutSell, BookBuy
  <2>3. ASSUME NEW item \in todo, SaleDropped(item) \/ SaleWithoutCascade(item)
        PROVE  HalfBooked'
    BY <1>1, <1>2, <2>3 DEF SaleDropped, SaleWithoutCascade, BookSale
  <2> QED
    BY <1>4, <1>9, <2>1, <2>2, <2>3 DEF DbError
<1> QED
  BY <1>1, <1>5, <1>6, <1>7, <1>8, <1>9 DEF Next, Runner

LEMMA InitSells == Init => SellInv /\ HalfBooked
BY DEF Init, SellInv, SellsActive, SellsTracked, SellsPlaced, SnapshotFresh, OneOpenSell,
       OpenOrders, IsOpen, OrderIds, SellPhase, Selling, Replacing, HalfBooked

LEMMA NextSells ==
  LostReplies = FALSE /\ RunnerInv /\ SellInv /\ HalfBooked /\ [Next]_vars => SellInv'
<1> SUFFICES ASSUME LostReplies = FALSE, RunnerInv, SellInv, HalfBooked, [Next]_vars
             PROVE  SellInv'
  OBVIOUS
<1>1. CASE Balance \/ Api \/ UNCHANGED vars
  BY <1>1, LoopSells
<1>2. CASE Buys
  BY <1>2, LoopSells, AcceptedSells, RecordSells, SellFailedSells, ActivateSells DEF Buys
<1>3. CASE Sells
  BY <1>3, LoopSells, CloseSells DEF Sells
<1>4. CASE Cascade
  BY <1>4, LoopSells, SubsidizeSells, CancelSells, CancelFailedSells, AcceptedSells,
     RecordSells DEF Cascade
<1>5. CASE Entries
  BY <1>5, LoopSells, AcceptedSells, RecordBuySells DEF Entries
<1>6. ~Resubmit
  BY DEF Resubmit, Retried
<1>7. CASE Exchange
  BY <1>7, ExchangeSells
<1>8. CASE Failure
  BY <1>8, CrashSells DEF Failure
<1>9. CASE DbError
  BY <1>9, DbErrorSells
<1> QED
  BY <1>1, <1>2, <1>3, <1>4, <1>5, <1>6, <1>7, <1>8, <1>9 DEF Next, Runner

-----------------------------------------------------------------------------
\* Unless a reply is lost, no interleaving of fills, refusals, replacements,
\* database errors and crashes leaves two take-profit orders of an index on the
\* exchange (live_runner.py 521-556: cancel, then create).
THEOREM SellPerIndex ==
  ASSUME LostReplies = FALSE
  PROVE  Spec => []OneOpenSell
<1> DEFINE Inv == RunnerInv /\ SellInv /\ HalfBooked
<1>1. Init => Inv
  BY InitTranches, InitSells
<1>2. Inv /\ [Next]_vars => Inv'
  BY NextTranches, NextSells, NextHalf
<1>3. Inv => OneOpenSell
  BY DEF SellInv
<1> QED
  BY <1>1, <1>2, <1>3, PTL DEF Spec

-----------------------------------------------------------------------------
(* The books, while the process does not restart *)
LEMMA InitBooks == Init => BooksTyped /\ Books!Init
BY RunnerAssumption DEF Init, BooksTyped, Liquid, Books!Init

\* Steps that move no money and do not touch the comparison of the balance.
LEMMA QuietBooks ==
  ASSUME BooksTyped, UNCHANGED moneyVars, UNCHANGED capitalRows, UNCHANGED <<diff, real>>,
         UNCHANGED pc \/ "write" \notin {pc, pc'}
  PROVE  BooksTyped' /\ UNCHANGED Books!vars
BY DEF BooksTyped, moneyVars, capitalRows, Liquid, Books!vars

\* The difference is booked between the balance that was read and the one it
\* was compared with, whatever a capital handler did in between.
LEMMA BalanceBooks ==
  ASSUME RunnerInv, BooksTyped, Balance
  PROVE  BooksTyped' /\ [Books!Next]_(Books!vars)
<1> USE DEF botVars, moneyVars, dbVars, capitalRows, loopVars
<1>1. CASE StartCycle \/ ReadBalance \/ BalanceUnknown
  <2>1. UNCHANGED <<moneyVars, capitalRows, diff>> /\ "write" \notin {pc, pc'}
    BY <1>1 DEF StartCycle, ReadBalance, BalanceUnknown
  <2> QED
    BY <2>1 DEF BooksTyped, Liquid, Books!vars
<1>2. CASE CompareBalance
  <2>1. /\ UNCHANGED <<moneyVars, capitalRows>> /\ pc = "apply"
        /\ \/ pc' = "buys" /\ diff' = diff
           \/ pc' = "write" /\ diff' = available - real /\ real' = real
    BY <1>2 DEF CompareBalance
  <2>2. available \in Int /\ real \in Int
    BY DEF BooksTyped, RunnerInv, OrdersTyped
  <2>3. Liquid' = available /\ Liquid = available
    BY <2>1, <2>2 DEF Liquid
  <2> QED
    BY <2>1, <2>2, <2>3 DEF BooksTyped, Books!vars
<1>3. CASE BookDifference
  <2>1. /\ real \in Int
        /\ {available, invested, profit, diff, overwritten} \subseteq Int
        /\ {deposited, withdrawn, dbDeposited, dbWithdrawn} \subseteq Nat
    BY DEF BooksTyped, RunnerInv, OrdersTyped
  <2>2. /\ pc = "write" /\ pc' = "buys" /\ available' = real /\ diff' = 0
        /\ UNCHANGED <<invested, profit, overwritten>>
    BY <1>3 DEF BookDifference
  <2>3. Liquid = real + diff /\ Liquid' = real
    BY <2>2 DEF Liquid
  <2>4. CASE diff > 0
    <3>1. /\ withdrawn' = withdrawn + diff /\ dbWithdrawn' = dbWithdrawn + diff
          /\ UNCHANGED <<deposited, dbDeposited>>
      BY <1>3, <2>4 DEF BookDifference
    <3> QED
      BY <2>1, <2>2, <2>3, <2>4, <3>1 DEF BooksTyped, Books!Next, Books!Withdraw,
         Books!TypeOK
  <2>5. CASE diff < 0
    <3>1. /\ deposited' = deposited - diff /\ dbDeposited' = dbDeposited - diff
          /\ UNCHANGED <<withdrawn, dbWithdrawn>>
      BY <1>3, <2>1, <2>5 DEF BookDifference
    <3> QED
      BY <2>1, <2>2, <2>3, <2>5, <3>1 DEF BooksTyped, Books!Next, Books!Deposit,
         Books!TypeOK
  <2>6. CASE diff = 0
    <3>1. UNCHANGED <<deposited, dbDeposited, withdrawn, dbWithdrawn>>
      BY <1>3, <2>1, <2>6 DEF BookDifference
    <3> QED
      BY <2>1, <2>2, <2>3, <2>6, <3>1 DEF BooksTyped, Books!vars
  <2> QED
    BY <2>1, <2>4, <2>5, <2>6
<1> QED
  BY <1>1, <1>2, <1>3 DEF Balance

\* A filled buy is a Buy of the ledger.
LEMMA BookBuyBooks ==
  ASSUME RunnerInv, BooksTyped, NEW item \in todo, TakeBuy(item), BookBuy(item),
         UNCHANGED diff, pc' # "write"
  PROVE  BooksTyped' /\ Books!Next
<1> DEFINE price == orders[item.id].price
<1>1. /\ available' = available - price /\ invested' = invested + price
      /\ UNCHANGED <<profit, deposited, withdrawn, overwritten, capitalRows>>
      /\ pc = "buys"
  BY DEF TakeBuy, BookBuy
<1>2. price \in Nat /\ price > 0
  <2>1. price \in Prices /\ Prices \subseteq Nat \ {0}
    BY BuyTaken, RunnerAssumption
  <2> HIDE DEF price
  <2>2. price \in Nat \ {0}
    BY <2>1
  <2> QED
    BY <2>2
<1>3. Liquid = available /\ Liquid' = available'
  BY <1>1 DEF Liquid
<1> HIDE DEF price
<1> QED
  BY <1>1, <1>2, <1>3 DEF BooksTyped, capitalRows, Books!Next, Books!Buy, Books!TypeOK

\* A booked sale is a Sell of the ledger.
LEMMA BookSaleBooks ==
  ASSUME RunnerInv, BooksTyped, NEW item \in todo, TakeSell(item),
         NEW t \in active, BookSale(item, t), UNCHANGED diff, pc' # "write"
  PROVE  BooksTyped' /\ Books!Next
<1> DEFINE revenue == Revenue(orders[item.id].price)
<1>1. /\ available' = available + revenue
      /\ invested' = invested - t.buy
      /\ profit' = profit + (revenue - t.buy)
      /\ UNCHANGED <<deposited, withdrawn, overwritten, capitalRows>>
      /\ pc = "sells" /\ item.id \in OrderIds
  BY DEF TakeSell, BookSale, Gain, Filled
<1>2. revenue \in Int
  <2>1. orders[item.id] \in Order
    BY <1>1, ElementOfSeq DEF RunnerInv, OrdersTyped, OrderIds
  <2>2. orders[item.id].price \in Int /\ Fee \in Int
    BY <2>1, RunnerAssumption DEF Order
  <2> QED
    BY <2>2 DEF Revenue
<1>3. t.buy \in Nat /\ t.buy > 0
  <2>1. t.buy \in Prices /\ Prices \subseteq Nat \ {0}
    BY RunnerAssumption DEF RunnerInv, OrdersTyped, Tranche
  <2>2. t.buy \in Nat \ {0}
    BY <2>1
  <2> QED
    BY <2>2
<1>4. Liquid = available /\ Liquid' = available'
  BY <1>1 DEF Liquid
<1> HIDE DEF revenue
<1> QED
  BY <1>1, <1>2, <1>3, <1>4 DEF BooksTyped, capitalRows, Books!Next, Books!Sell,
     Books!TypeOK

\* A capital handler that ran to its end is a Deposit or a Withdraw, or is lost
\* when the balance it changed is about to be overwritten.
LEMMA ApiBooks ==
  ASSUME RunnerInv, BooksTyped, Api
  PROVE  BooksTyped' /\ [Books!Next]_(Books!vars)
<1>1. CASE PauseBot \/ ResumeBot \/ StopBot
  <2>1. UNCHANGED <<moneyVars, capitalRows, diff, real, pc>>
    BY <1>1 DEF PauseBot, ResumeBot, StopBot, SetStatus, loopVars
  <2> QED
    BY <2>1, QuietBooks
<1>2. ASSUME NEW amount \in Prices, DepositCapital(amount) \/ WithdrawCapital(amount)
      PROVE  BooksTyped' /\ Books!Next
  <2>1. amount \in Nat /\ amount > 0
    BY RunnerAssumption
  <2>2. UNCHANGED <<invested, profit, diff, real, pc>>
    BY <1>2 DEF DepositCapital, WithdrawCapital, CapitalHandler, loopVars
  <2>3. real \in Int /\ diff \in Int
    BY DEF RunnerInv, OrdersTyped, BooksTyped
  <2>4. CASE DepositCapital(amount)
    <3>1. /\ available' = available + amount /\ deposited' = deposited + amount
          /\ dbDeposited' = dbDeposited + amount
          /\ overwritten' = overwritten + (IF pc = "write" THEN amount ELSE 0)
          /\ UNCHANGED <<withdrawn, dbWithdrawn>>
      BY <2>4 DEF DepositCapital, CapitalHandler
    <3>2. BooksTyped' /\ Books!TypeOK'
      BY <2>1, <2>2, <2>3, <3>1 DEF BooksTyped, Books!TypeOK, Liquid
    <3>3. CASE pc = "write"
      BY <2>1, <2>2, <2>3, <3>1, <3>2, <3>3 DEF BooksTyped, Books!Next, Books!Lose, Liquid
    <3>4. CASE pc # "write"
      BY <2>1, <2>2, <3>1, <3>2, <3>4 DEF BooksTyped, Books!Next, Books!Deposit, Liquid
    <3> QED
      BY <3>2, <3>3, <3>4
  <2>5. CASE WithdrawCapital(amount)
    <3>1. /\ available' = available + (-amount) /\ withdrawn' = withdrawn + amount
          /\ dbWithdrawn' = dbWithdrawn + amount
          /\ overwritten' = overwritten + (IF pc = "write" THEN -amount ELSE 0)
          /\ UNCHANGED <<deposited, dbDeposited>>
      BY <2>5 DEF WithdrawCapital, CapitalHandler
    <3>2. BooksTyped' /\ Books!TypeOK'
      BY <2>1, <2>2, <2>3, <3>1 DEF BooksTyped, Books!TypeOK, Liquid
    <3>3. CASE pc = "write"
      BY <2>1, <2>2, <2>3, <3>1, <3>2, <3>3 DEF BooksTyped, Books!Next, Books!Lose, Liquid
    <3>4. CASE pc # "write"
      BY <2>1, <2>2, <3>1, <3>2, <3>4 DEF BooksTyped, Books!Next, Books!Withdraw, Liquid
    <3> QED
      BY <3>2, <3>3, <3>4
  <2> QED
    BY <1>2, <2>4, <2>5
<1> QED
  BY <1>1, <1>2 DEF Api

\* A database error leaves a fill booked as a whole or not at all.
LEMMA DbErrorBooks ==
  ASSUME RunnerInv, BooksTyped, DbError
  PROVE  BooksTyped' /\ [Books!Next]_(Books!vars)
<1>1. pc' # "write" /\ UNCHANGED <<diff, real>>
  BY DEF DbError, SubsidyUnsaved, BuyDropped, BuyWithoutSell, SaleDropped, SaleHalfBooked,
         SaleWithoutCascade, CycleAborts
<1>2. CASE SubsidyUnsaved
  <2>1. pc = "cascade" /\ UNCHANGED <<moneyVars, capitalRows>>
    BY <1>2 DEF SubsidyUnsaved, NextHung, dbVars
  <2> QED
    BY <1>1, <2>1, QuietBooks
<1>3. ASSUME NEW item \in todo, BuyDropped(item) \/ SaleDropped(item) \/ SaleHalfBooked(item)
      PROVE  BooksTyped' /\ UNCHANGED Books!vars
  <2>1. pc \in {"buys", "sells"} /\ UNCHANGED <<moneyVars, capitalRows>>
    BY <1>3 DEF BuyDropped, SaleDropped, SaleHalfBooked, TakeBuy, TakeSell, dbVars, botVars
  <2> QED
    BY <1>1, <2>1, QuietBooks
<1>4. ASSUME NEW item \in todo, BuyWithoutSell(item)
      PROVE  BooksTyped' /\ Books!Next
  BY <1>1, <1>4, BookBuyBooks DEF BuyWithoutSell
<1>5. ASSUME NEW item \in todo, SaleWithoutCascade(item)
      PROVE  BooksTyped' /\ Books!Next
  BY <1>1, <1>5, BookSaleBooks DEF SaleWithoutCascade
<1> QED
  BY <1>2, <1>3, <1>4, <1>5 DEF DbError

LEMMA NextBooks ==
  ASSUME RunnerInv, BooksTyped, [Next]_vars, ~Failure
  PROVE  BooksTyped' /\ [Books!Next]_(Books!vars)
<1>1. CASE Balance
  BY <1>1, BalanceBooks
<1>2. CASE Buys
  <2>1. CASE BuysReconciled \/ SellAccepted \/ RecordSell \/ SellFailed
             \/ \E item \in todo : BuyStillOpen(item)
    <3>1. UNCHANGED <<moneyVars, capitalRows, diff, real>> /\ "write" \notin {pc, pc'}
      BY <2>1 DEF BuysReconciled, SellAccepted, RecordSell, SellFailed, BuyStillOpen,
         botVars, dbVars
    <3> QED
      BY <3>1, QuietBooks
  <2>2. ASSUME NEW item \in todo, Activate(item)
        PROVE  BooksTyped' /\ Books!Next
    BY <2>2, BookBuyBooks DEF Activate
  <2> QED
    BY <1>2, <2>1, <2>2 DEF Buys
<1>3. CASE Sells
  <2>1. CASE \E item \in todo : SellStillOpen(item)
    <3>1. UNCHANGED <<moneyVars, capitalRows, diff, real, pc>>
      BY <2>1 DEF SellStillOpen, botVars, dbVars
    <3> QED
      BY <3>1, QuietBooks
  <2>2. ASSUME NEW item \in todo, Close(item)
        PROVE  BooksTyped' /\ [Books!Next]_(Books!vars)
    <3>1. /\ TakeSell(item) /\ "write" \notin {pc, pc'} /\ UNCHANGED <<diff, real>>
          /\ CloseNothing(item) \/ \E t \in active : BookSale(item, t)
      BY <2>2 DEF Close, TakeSell, CloseNothing
    <3>2. CASE CloseNothing(item)
      BY <3>1, <3>2, QuietBooks DEF CloseNothing, botVars, dbVars
    <3> QED
      BY <3>1, <3>2, BookSaleBooks
  <2> QED
    BY <1>3, <2>1, <2>2 DEF Sells
<1>4. CASE Cascade
  <2>1. UNCHANGED <<moneyVars, capitalRows, diff, real>> /\ "write" \notin {pc, pc'}
    BY <1>4 DEF Cascade, CascadeEnds, Subsidize, NextHung, CancelAccepted, CancelFailed,
       ReplaceAccepted, RecordReplaced, ReplaceFailed, botVars, dbVars, loopVars
  <2> QED
    BY <2>1, QuietBooks
<1>5. CASE Entries \/ Resubmit
  <2>1. UNCHANGED <<moneyVars, capitalRows, diff, real>> /\ "write" \notin {pc, pc'}
    BY <1>5 DEF Entries, Evaluate, SkipSignal, HandleBuySignal, BuyAccepted, RecordBuy,
       BuyFailed, EndCycle, Resubmit, botVars, dbVars, loopVars
  <2> QED
    BY <2>1, QuietBooks
<1>6. CASE Api
  BY <1>6, ApiBooks
<1>7. CASE Exchange \/ UNCHANGED vars
  <2>1. UNCHANGED <<moneyVars, capitalRows, diff, real, pc>>
    BY <1>7 DEF Exchange, Fill, ExternalTransfer, botVars, dbVars, loopVars, vars
  <2> QED
    BY <2>1, QuietBooks
<1>8. CASE DbError
  BY <1>8, DbErrorBooks
<1> QED
  BY <1>1, <1>2, <1>3, <1>4, <1>5, <1>6, <1>7, <1>8 DEF Next, Runner

-----------------------------------------------------------------------------
\* Every step of a runner that is not restarted and of the handlers' threads is
\* one booking of the ledger or none: a phantom withdrawal, a fill and the
\* cascade that follows it included, and the capital that a reconciliation
\* overwrites counted apart (live_runner.py 373-393, 458-501, 566-605;
\* bot_service.py 433-441, 478-486).
THEOREM RunnerImplementsLedger ==
  ASSUME MaxCrashes = 0
  PROVE  Spec => ImplementsLedger
<1>1. Init => RunnerInv /\ BooksTyped /\ Books!Init
  BY InitTranches, InitBooks
<1>2. RunnerInv /\ BooksTyped /\ [Next]_vars
        => (RunnerInv /\ BooksTyped)' /\ [Books!Next]_(Books!vars)
  BY NextTranches, NextBooks, NoFailure
<1> QED
  BY <1>1, <1>2, PTL DEF Spec, ImplementsLedger, Books!Spec

-----------------------------------------------------------------------------
(* The ledger by itself *)

\* Cash plus invested cost is budget plus profit plus net transfers, less what a
\* reconciliation overwrote, whatever the order of fills, deposits and
\* withdrawals: no booking of BotInstance creates or loses money otherwise
\* (live_runner.py 393, 477-478, 572-584; bot_service.py 437-438, 482-483).
THEOREM LedgerIdentity ==
  ASSUME Budget \in Int
  PROVE  Books!Spec => []Books!Identity
<1> DEFINE Inv == Books!TypeOK /\ Books!Identity
<1>1. Books!Init => Inv
  BY DEF Books!Init, Books!TypeOK, Books!Identity
<1>2. Inv /\ [Books!Next]_(Books!vars) => Inv'
  <2> SUFFICES ASSUME Inv, [Books!Next]_(Books!vars) PROVE Inv'
    OBVIOUS
  <2> USE DEF Books!TypeOK, Books!Identity
  <2>1. CASE Books!TypeOK' /\ Books!Buy
    BY <2>1 DEF Books!Buy
  <2>2. CASE Books!TypeOK' /\ Books!Sell
    BY <2>2 DEF Books!Sell
  <2>3. CASE Books!TypeOK' /\ Books!Deposit
    BY <2>3 DEF Books!Deposit
  <2>4. CASE Books!TypeOK' /\ Books!Withdraw
    BY <2>4 DEF Books!Withdraw
  <2>5. CASE Books!TypeOK' /\ Books!Lose
    BY <2>5 DEF Books!Lose
  <2>6. CASE UNCHANGED Books!vars
    BY <2>6 DEF Books!vars
  <2> QED
    BY <2>1, <2>2, <2>3, <2>4, <2>5, <2>6 DEF Books!Next
<1> QED
  BY <1>1, <1>2, PTL DEF Books!Spec

\* So the books of the runner keep the identity.
THEOREM BooksBalance ==
  ASSUME MaxCrashes = 0
  PROVE  Spec => []Books!Identity
<1>1. Budget \in Int
  BY RunnerAssumption
<1> QED
  BY <1>1, LedgerIdentity, RunnerImplementsLedger, PTL DEF ImplementsLedger

-----------------------------------------------------------------------------
(* What a step does to the orders, the tranches and the maps *)

\* Without database errors no tranche is half sold, so none is excepted.
LEMMA NoExceptions ==
  ASSUME DbErrors = FALSE, RunnerInv
  PROVE  Exact
<1>1. halfSold = {}
  BY DEF RunnerInv, Unharmed
<1> QED
  BY <1>1 DEF RunnerInv, OneTranchePerIndex, IndexReserved, Taken, ActiveAt, Exact,
     IndexUnique, IndexFree

\* Steps that leave them alone.
QuietStep ==
  \/ Balance \/ BuysReconciled \/ Evaluate \/ SkipSignal \/ HandleBuySignal
  \/ BuyFailed \/ EndCycle \/ CascadeEnds \/ ReplaceFailed \/ Api \/ UNCHANGED vars
  \/ UNCHANGED orders /\ (CancelFailed \/ Resubmit)
  \/ \E item \in todo : BuyStillOpen(item) \/ SellStillOpen(item)
  \/ \E amount \in Int : ExternalTransfer(amount)

\* Steps in which the exchange takes an order, whether its reply arrives or not.
PlacingStep ==
  \/ BuyAccepted \/ SellAccepted \/ ReplaceAccepted
  \/ Resubmit /\ ~UNCHANGED orders

\* Steps in which it cancels one.
CancelingStep ==
  \/ CancelAccepted
  \/ CancelFailed /\ ~UNCHANGED orders

LEMMA StepKinds ==
  ASSUME DbErrors = FALSE, [Next]_vars
  PROVE  \/ QuietStep \/ PlacingStep \/ CancelingStep
         \/ RecordBuy \/ RecordSell \/ RecordReplaced \/ SellFailed \/ Subsidize
         \/ \E item \in todo : Activate(item) \/ Close(item)
         \/ \E id \in OrderIds : Fill(id)
         \/ Failure
<1>1. \A amount \in Prices : amount \in Int /\ -amount \in Int
  BY RunnerAssumption
<1>2. Exchange => \/ \E id \in OrderIds : Fill(id)
                  \/ \E amount \in Int : ExternalTransfer(amount)
  BY <1>1 DEF Exchange
<1>3. CASE Balance \/ Api \/ UNCHANGED vars \/ Failure
  BY <1>3 DEF QuietStep
<1>4. CASE Buys \/ Sells
  BY <1>4 DEF Buys, Sells, QuietStep, PlacingStep
<1>5. CASE Cascade
  <2>1. CascadeEnds \/ ReplaceFailed => QuietStep
    BY DEF QuietStep
  <2>2. CancelFailed => QuietStep \/ CancelingStep
    BY DEF QuietStep, CancelingStep
  <2>3. CancelAccepted => CancelingStep
    BY DEF CancelingStep
  <2>4. ReplaceAccepted => PlacingStep
    BY DEF PlacingStep
  <2> QED
    BY <1>5, <2>1, <2>2, <2>3, <2>4 DEF Cascade
<1>6. CASE Entries \/ Resubmit
  BY <1>6 DEF Entries, QuietStep, PlacingStep
<1>7. CASE Exchange
  BY <1>2, <1>7 DEF QuietStep
<1>8. ~DbError
  BY DEF DbError, SubsidyUnsaved, BuyDropped, BuyWithoutSell, SaleDropped, SaleHalfBooked,
         SaleWithoutCascade, CycleAborts
<1> QED
  BY <1>3, <1>4, <1>5, <1>6, <1>7, <1>8 DEF Next, Runner

LEMMA QuietFacts ==
  ASSUME RunnerInv, QuietStep
  PROVE  /\ UNCHANGED <<active, rows, orders, pendingSell, newId>>
         /\ UNCHANGED pendingBuy
         /\ \/ UNCHANGED <<pc, todo>> /\ cur'.idx = cur.idx /\ cur'.price = cur.price
            \/ pc' \notin SellPhase \cup Selling
            \/ /\ pc' \in {"sells", "cascade"}
               /\ \/ pc \in SellPhase /\ todo' \subseteq todo
                  \/ todo' = Snapshot(pendingSell)
<1> USE DEF SellPhase, Selling, Replacing
<1>1. CASE Balance
  <2>1. UNCHANGED <<active, rows, orders, pendingSell, newId, pendingBuy>>
    BY <1>1 DEF Balance, StartCycle, ReadBalance, BalanceUnknown, CompareBalance,
                BookDifference, botVars, mapVars, exchangeVars, loopVars, dbVars
  <2>2. pc' \in {"balance", "apply", "write", "buys"}
    BY <1>1 DEF Balance, StartCycle, ReadBalance, BalanceUnknown, CompareBalance,
                BookDifference
  <2> QED
    BY <2>1, <2>2
<1>2. CASE BuysReconciled \/ Evaluate \/ SkipSignal \/ HandleBuySignal \/ EndCycle
           \/ CascadeEnds
  BY <1>2 DEF BuysReconciled, Evaluate, SkipSignal, HandleBuySignal, EndCycle,
              CascadeEnds, botVars, mapVars, exchangeVars, loopVars, dbVars
<1>3. CASE BuyFailed \/ ReplaceFailed \/ (UNCHANGED orders /\ CancelFailed)
  BY <1>3 DEF BuyFailed, ReplaceFailed, CancelFailed, Raised, botVars, mapVars,
              exchangeVars, loopVars, dbVars
<1>4. CASE Api
  BY <1>4 DEF Api, PauseBot, ResumeBot, StopBot, SetStatus, DepositCapital,
              WithdrawCapital, CapitalHandler, mapVars, exchangeVars, loopVars
<1>5. CASE UNCHANGED vars \/ \E amount \in Int : ExternalTransfer(amount)
  BY <1>5 DEF ExternalTransfer, vars, botVars, mapVars, exchangeVars, loopVars, dbVars
<1>6. CASE \E item \in todo : BuyStillOpen(item) \/ SellStillOpen(item)
  BY <1>6 DEF BuyStillOpen, SellStillOpen, botVars, mapVars, exchangeVars, dbVars
<1>7. CASE UNCHANGED orders /\ Resubmit
  <2>1. /\ UNCHANGED <<active, rows, pendingBuy, pendingSell, newId, pc, todo>>
        /\ cur' = [cur EXCEPT !.tries = @ + 1]
        /\ pc \in {"placeBuy", "placeSell", "replace"}
    BY <1>7 DEF Resubmit, Retried, botVars, mapVars, dbVars
  <2>2. cur \in Pending
    BY <2>1 DEF RunnerInv, InFlight, Buying, Selling, Replacing
  <2>3. cur'.idx = cur.idx /\ cur'.price = cur.price
    BY <2>1, <2>2 DEF Pending
  <2> QED
    BY <1>7, <2>1, <2>3
<1> QED
  BY <1>1, <1>2, <1>3, <1>4, <1>5, <1>6, <1>7 DEF QuietStep

LEMMA PlacingFacts ==
  ASSUME RunnerInv, PlacingStep
  PROVE  \E side \in {"buy", "sell"} :
           /\ UNCHANGED <<active, rows, pendingBuy, pendingSell, todo>>
           /\ Placed(side)
           /\ OneMore(orders, orders', NewOrder(side))
           /\ cur \in Pending /\ cur'.idx = cur.idx /\ cur'.price = cur.price
           /\ side = "buy" <=> pc = "placeBuy"
           /\ side = "sell" <=> pc \in {"placeSell", "replace"}
           /\ newId = None
           /\ \/ /\ newId' = Len(orders) + 1 /\ UNCHANGED cur
                 /\ \/ pc = "placeBuy" /\ pc' = "buyPlaced"
                    \/ pc = "placeSell" /\ pc' = "sellPlaced"
                    \/ pc = "replace" /\ pc' = "replaced"
              \/ UNCHANGED <<pc, newId>> /\ LostReplies
<1> DEFINE side == IF pc = "placeBuy" THEN "buy" ELSE "sell"
<1>1. /\ UNCHANGED <<active, rows, pendingBuy, pendingSell, todo>>
      /\ Placed(side)
      /\ pc \in {"placeBuy", "placeSell", "replace"}
      /\ \/ /\ newId' = Len(orders) + 1 /\ UNCHANGED cur
            /\ \/ pc = "placeBuy" /\ pc' = "buyPlaced"
               \/ pc = "placeSell" /\ pc' = "sellPlaced"
               \/ pc = "replace" /\ pc' = "replaced"
         \/ UNCHANGED <<pc, newId>> /\ LostReplies /\ cur' = [cur EXCEPT !.tries = @ + 1]
  BY DEF PlacingStep, BuyAccepted, SellAccepted, ReplaceAccepted, Accepted, Resubmit,
         Retried, botVars, mapVars, dbVars, exchangeVars
<1>2. cur \in Pending /\ newId = None
  BY <1>1 DEF RunnerInv, InFlight, Buying, Selling, Replacing
<1>3. cur'.idx = cur.idx /\ cur'.price = cur.price
  BY <1>1, <1>2 DEF Pending
<1>4. /\ side \in {"buy", "sell"} /\ pc \in Buying \cup Selling \cup Replacing
      /\ side = "buy" => pc \in Buying
      /\ side = "buy" <=> pc = "placeBuy"
      /\ side = "sell" <=> pc \in {"placeSell", "replace"}
  BY <1>1 DEF Buying, Selling, Replacing
<1> HIDE DEF side
<1>5. OneMore(orders, orders', NewOrder(side))
  BY <1>1, <1>4, PlacedOrders
<1> QED
  BY <1>1, <1>2, <1>3, <1>4, <1>5

LEMMA CancelingFacts ==
  ASSUME DbErrors = FALSE, RunnerInv, CancelingStep
  PROVE  LET id == pendingSell[cur.idx]
         IN  /\ UNCHANGED <<active, rows, pendingBuy, pendingSell, newId, todo>>
             /\ id \in 1..Len(orders) /\ orders[id].st = "open" /\ orders[id].side = "sell"
             /\ SameOrders(orders, orders')
             /\ StatusChanged(orders, orders', id, "canceled")
             /\ \A j \in 1..Len(orders) : j # id => orders'[j].db = orders[j].db
             /\ orders'[id].db \in {orders[id].db, "CANCELED"}
             /\ cur.idx \in Tranches /\ newId = None
             /\ pc = "cancel"
             /\ \/ CancelAccepted /\ pc' = "replace" /\ UNCHANGED cur
                \/ LostReplies /\ pc' = "cascade"
<1> DEFINE id == pendingSell[cur.idx]
<1>1. /\ UNCHANGED <<active, rows, pendingBuy, pendingSell, newId, todo>>
      /\ pc = "cancel"
      /\ \/ /\ CancelAccepted /\ pc' = "replace" /\ UNCHANGED cur
            /\ id \in OrderIds /\ orders[id].st = "open"
            /\ orders' = [orders EXCEPT ![id].st = "canceled", ![id].db = "CANCELED"]
         \/ /\ LostReplies /\ pc' = "cascade"
            /\ id \in OpenOrders("sell")
            /\ orders' = [orders EXCEPT ![id].st = "canceled"]
  BY DEF CancelingStep, CancelAccepted, CancelFailed, botVars, mapVars, dbVars, loopVars
<1>2. cur.idx \in Tranches /\ newId = None
  BY <1>1 DEF RunnerInv, InFlight, Replacing, Pending
<1>3. id \in 1..Len(orders) /\ orders[id].st = "open"
  BY <1>1 DEF OpenOrders, IsOpen, OrderIds
<1>4. orders[id].side = "sell" /\ orders \in Seq(Order)
  BY <1>2, <1>3 DEF RunnerInv, OrdersTyped, MapsTracked, IsOrder, OrderIds
<1> HIDE DEF id
<1>5. /\ SameOrders(orders, orders')
      /\ StatusChanged(orders, orders', id, "canceled")
      /\ \A j \in 1..Len(orders) : j # id => orders'[j].db = orders[j].db
      /\ orders'[id].db \in {orders[id].db, "CANCELED"}
  <2>1. CASE orders' = [orders EXCEPT ![id].st = "canceled", ![id].db = "CANCELED"]
    <3>1. /\ SameOrders(orders, orders')
          /\ StatusChanged(orders, orders', id, "canceled")
          /\ DbChanged(orders, orders', id, "CANCELED")
      BY <1>3, <1>4, <2>1, CancelSet, Zenon
    <3> QED
      BY <1>3, <3>1 DEF DbChanged
  <2>2. CASE orders' = [orders EXCEPT ![id].st = "canceled"]
    <3>1. "canceled" \in {"open", "closed", "canceled"}
      OBVIOUS
    <3>2. /\ SameOrders(orders, [orders EXCEPT ![id].st = "canceled"])
          /\ StatusChanged(orders, [orders EXCEPT ![id].st = "canceled"], id, "canceled")
          /\ \A j \in 1..Len(orders) :
               [orders EXCEPT ![id].st = "canceled"][j].db = orders[j].db
      BY <1>3, <1>4, <3>1, StatusSet, Zenon
    <3>3. /\ SameOrders(orders, orders')
          /\ StatusChanged(orders, orders', id, "canceled")
          /\ \A j \in 1..Len(orders) : orders'[j].db = orders[j].db
      BY <2>2, <3>2, Zenon
    <3> QED
      BY <1>3, <3>3
  <2> QED
    BY <1>1, <2>1, <2>2
<1> QED
  BY <1>1, <1>2, <1>3, <1>4, <1>5 DEF id

\* The id in the reply is recorded, in table orders and in one of the maps.
LEMMA RecordFacts ==
  ASSUME RunnerInv, RecordBuy \/ RecordSell \/ RecordReplaced
  PROVE  /\ UNCHANGED <<active, rows, todo>> /\ newId' = None /\ cur' = NoOrder
         /\ newId \in 1..Len(orders) /\ cur \in Pending /\ orders[newId].db = "none"
         /\ SameOrders(orders, orders') /\ DbChanged(orders, orders', newId, "OPEN")
         /\ \A j \in 1..Len(orders) : orders'[j].st = orders[j].st
         /\ \/ /\ pc = "buyPlaced" /\ pc' = "signals" /\ IsOrder(newId, "buy", cur.idx)
               /\ UNCHANGED pendingSell
               /\ \A i \in Tranches :
                     pendingBuy'[i] = IF i = cur.idx THEN newId ELSE pendingBuy[i]
            \/ /\ \/ pc = "sellPlaced" /\ pc' = "buys"
                  \/ pc = "replaced" /\ pc' = "cascade"
               /\ IsOrder(newId, "sell", cur.idx)
               /\ UNCHANGED pendingBuy
               /\ \A i \in Tranches :
                     pendingSell'[i] = IF i = cur.idx THEN newId ELSE pendingSell[i]
<1>1. /\ UNCHANGED <<active, rows, todo>> /\ newId' = None /\ cur' = NoOrder
      /\ orders' = [orders EXCEPT ![newId].db = "OPEN"]
      /\ \/ /\ pc = "buyPlaced" /\ pc' = "signals" /\ UNCHANGED pendingSell
            /\ pendingBuy' = [pendingBuy EXCEPT ![cur.idx] = newId]
         \/ /\ \/ pc = "sellPlaced" /\ pc' = "buys"
               \/ pc = "replaced" /\ pc' = "cascade"
            /\ UNCHANGED pendingBuy
            /\ pendingSell' = [pendingSell EXCEPT ![cur.idx] = newId]
  BY DEF RecordBuy, RecordSell, RecordReplaced, Track, botVars, dbVars
<1>2. /\ newId \in OrderIds /\ cur \in Pending /\ orders[newId].db = "none"
      /\ pc = "buyPlaced" => IsOrder(newId, "buy", cur.idx)
      /\ pc # "buyPlaced" => IsOrder(newId, "sell", cur.idx)
  BY <1>1 DEF RunnerInv, InFlight, OrdersTyped, Buying, Selling, Replacing
<1>3. /\ SameOrders(orders, orders') /\ DbChanged(orders, orders', newId, "OPEN")
      /\ \A j \in 1..Len(orders) : orders'[j].st = orders[j].st
  BY <1>1, <1>2, DbOrders
<1>4. /\ pendingBuy \in [Tranches -> {None} \cup OrderIds] /\ cur.idx \in Tranches
      /\ pendingSell \in [Tranches -> {None, Simulated} \cup OrderIds]
  BY <1>2 DEF RunnerInv, OrdersTyped, Pending
<1>5. CASE pc = "buyPlaced"
  <2>1. \A i \in Tranches : pendingBuy'[i] = IF i = cur.idx THEN newId ELSE pendingBuy[i]
    BY <1>1, <1>4, <1>5
  <2> QED
    BY <1>1, <1>2, <1>3, <1>5, <2>1 DEF OrderIds
<1>6. CASE pc # "buyPlaced"
  <2>1. \A i \in Tranches : pendingSell'[i] = IF i = cur.idx THEN newId ELSE pendingSell[i]
    BY <1>1, <1>4, <1>6
  <2> QED
    BY <1>1, <1>2, <1>3, <1>6, <2>1 DEF OrderIds
<1> QED
  BY <1>5, <1>6

LEMMA SellFailedFacts ==
  ASSUME RunnerInv, SellFailed
  PROVE  /\ UNCHANGED <<active, rows, orders, pendingBuy, newId, todo>>
         /\ cur \in Pending /\ cur' = NoOrder /\ pc = "placeSell" /\ pc' = "buys"
         /\ \A i \in Tranches :
               pendingSell'[i] = IF i = cur.idx THEN Simulated ELSE pendingSell[i]
<1>1. /\ UNCHANGED <<active, rows, orders, pendingBuy, newId, todo>>
      /\ cur' = NoOrder /\ pc = "placeSell" /\ pc' = "buys"
      /\ pendingSell' = [pendingSell EXCEPT ![cur.idx] = Simulated]
  BY DEF SellFailed, Raised, botVars, dbVars, Track, exchangeVars
<1>2. /\ pendingSell \in [Tranches -> {None, Simulated} \cup OrderIds] /\ cur \in Pending
  BY <1>1 DEF RunnerInv, OrdersTyped, InFlight, Selling
<1> QED
  BY <1>1, <1>2

\* A filled order is processed: what both fill handlers find and leave.
ProcessingFacts(item, side) ==
  /\ todo' = todo \ {item}
  /\ item.idx \in Tranches /\ item.id \in 1..Len(orders) /\ newId = None
  /\ UNCHANGED <<newId, free, coins>>
  /\ orders[item.id].st = "closed" /\ IsOrder(item.id, side, item.idx)
  /\ SameOrders(orders, orders') /\ DbChanged(orders, orders', item.id, "CLOSED")
  /\ \A j \in 1..Len(orders) : orders'[j].st = orders[j].st

OpenedBy(item) ==
  [id |-> item.id, idx |-> item.idx, buy |-> orders[item.id].price,
   target |-> orders[item.id].price + TakeProfit]

LEMMA ActivateFacts ==
  ASSUME RunnerInv, Exact, NEW item \in todo, Activate(item)
  PROVE  /\ ProcessingFacts(item, "buy")
         /\ pc = "buys" /\ pc' = "placeSell" /\ UNCHANGED pendingSell
         /\ pendingBuy[item.idx] = item.id /\ orders[item.id].db = "OPEN"
         /\ \A i \in Tranches : pendingBuy'[i] = IF i = item.idx THEN None ELSE pendingBuy[i]
         /\ orders[item.id].price \in Int
         /\ active' = active \cup {OpenedBy(item)} /\ ~ActiveAt(item.idx)
         /\ \E row : row.id = item.id /\ rows' = rows \cup {row}
         /\ cur' = [idx |-> item.idx, price |-> OpenedBy(item).target, tries |-> 0]
<1>1. /\ UNCHANGED <<pendingSell, newId, free, coins>>
      /\ pc = "buys" /\ pc' = "placeSell" /\ todo' = todo \ {item}
      /\ active' = active \cup {OpenedBy(item)}
      /\ cur' = [idx |-> item.idx, price |-> OpenedBy(item).target, tries |-> 0]
      /\ pendingBuy' = [pendingBuy EXCEPT ![item.idx] = None]
      /\ item.id \in OrderIds /\ orders[item.id].st = "closed"
      /\ orders' = [orders EXCEPT ![item.id].db = "CLOSED"]
  BY DEF Activate, TakeBuy, BookBuy, Filled, MarkClosed, OpenedBy
<1>2. /\ item \in [idx : Tranches, id : {Simulated} \cup OrderIds]
      /\ pendingBuy \in [Tranches -> {None} \cup OrderIds]
      /\ pendingBuy[item.idx] = item.id /\ newId = None
  BY <1>1 DEF RunnerInv, OrdersTyped, TodoTracked, BuyPhase, InFlight
<1>3. /\ IsOrder(item.id, "buy", item.idx) /\ orders[item.id].db = "OPEN"
      /\ ~ActiveAt(item.idx)
  BY <1>1, <1>2 DEF RunnerInv, Exact, MapsTracked, IndexFree, None, OrderIds
<1>4. /\ SameOrders(orders, orders') /\ DbChanged(orders, orders', item.id, "CLOSED")
      /\ \A j \in 1..Len(orders) : orders'[j].st = orders[j].st
  BY <1>1, DbOrders
<1>5. \A i \in Tranches : pendingBuy'[i] = IF i = item.idx THEN None ELSE pendingBuy[i]
  BY <1>1, <1>2
<1>6. orders[item.id].price \in Int
  <2>1. orders[item.id] \in Order
    BY <1>1, ElementOfSeq DEF RunnerInv, OrdersTyped, OrderIds
  <2> QED
    BY <2>1 DEF Order
<1>7. \E row : row.id = item.id /\ rows' = rows \cup {row}
  <2> DEFINE row == [id |-> item.id, idx |-> item.idx, buy |-> orders[item.id].price,
                     target |-> orders[item.id].price + TakeProfit, st |-> "ACTIVE",
                     profit |-> 0]
  <2>1. rows' = rows \cup {row} /\ row.id = item.id
    BY DEF Activate, BookBuy
  <2> HIDE DEF row
  <2> QED
    BY <2>1
<1> QED
  BY <1>1, <1>2, <1>3, <1>4, <1>5, <1>6, <1>7 DEF ProcessingFacts, OrderIds

LEMMA CloseFacts ==
  ASSUME RunnerInv, SnapshotFresh, NEW item \in todo, Close(item)
  PROVE  /\ ProcessingFacts(item, "sell")
         /\ pc = "sells" /\ pc' \in {"sells", "cascade"} /\ UNCHANGED <<pendingBuy, cur>>
         /\ pendingSell[item.idx] = item.id
         /\ \A i \in Tranches :
               pendingSell'[i] = IF i = item.idx THEN None ELSE pendingSell[i]
         /\ \/ UNCHANGED <<active, rows>> /\ ~ActiveAt(item.idx)
            \/ \E t \in active : t.idx = item.idx /\ active' = active \ {t}
         /\ \A r \in rows : \E q \in rows' : q.id = r.id
<1>1. /\ UNCHANGED <<newId, free, coins, pendingBuy, cur>>
      /\ pc = "sells" /\ pc' \in {"sells", "cascade"} /\ todo' = todo \ {item}
      /\ pendingSell' = [pendingSell EXCEPT ![item.idx] = None]
      /\ item.id \in OrderIds /\ orders[item.id].st = "closed"
      /\ orders' = [orders EXCEPT ![item.id].db = "CLOSED"]
  BY DEF Close, TakeSell, BookSale, CloseNothing, Filled, MarkClosed, botVars, dbVars
<1>2. /\ item \in [idx : Tranches, id : {Simulated} \cup OrderIds]
      /\ pendingSell \in [Tranches -> {None, Simulated} \cup OrderIds]
      /\ IsOrder(item.id, "sell", item.idx) /\ newId = None
  BY <1>1 DEF RunnerInv, OrdersTyped, TodoTracked, SellPhase, InFlight
<1>3. pendingSell[item.idx] = item.id
  BY <1>1 DEF SnapshotFresh, SellPhase
<1>4. /\ SameOrders(orders, orders') /\ DbChanged(orders, orders', item.id, "CLOSED")
      /\ \A j \in 1..Len(orders) : orders'[j].st = orders[j].st
  BY <1>1, DbOrders
<1>5. \A i \in Tranches : pendingSell'[i] = IF i = item.idx THEN None ELSE pendingSell[i]
  BY <1>1, <1>2
<1>6. \/ UNCHANGED <<active, rows>> /\ ~ActiveAt(item.idx)
      \/ \E t \in active : /\ t.idx = item.idx /\ active' = active \ {t}
                           /\ \E gain : rows' = Saved(t, "CLOSED", gain)
  BY DEF Close, CloseNothing, BookSale, ActiveAt, botVars, dbVars
<1>7. \A r \in rows : \E q \in rows' : q.id = r.id
  <2>1. ASSUME NEW t, NEW gain, rows' = Saved(t, "CLOSED", gain), NEW r \in rows
        PROVE  \E q \in rows' : q.id = r.id
    BY <2>1, SavedIds
  <2> QED
    BY <1>6, <2>1
<1>8. \/ UNCHANGED <<active, rows>> /\ ~ActiveAt(item.idx)
      \/ \E t \in active : t.idx = item.idx /\ active' = active \ {t}
  BY <1>6
<1> QED
  BY <1>1, <1>2, <1>3, <1>4, <1>5, <1>7, <1>8 DEF ProcessingFacts, OrderIds

LEMMA SubsidizeFacts ==
  ASSUME RunnerInv, Subsidize
  PROVE  /\ UNCHANGED <<orders, pendingBuy, pendingSell, newId, todo, free, coins>>
         /\ pc = "cascade"
         /\ \A r \in rows : \E q \in rows' : q.id = r.id
         /\ \/ \E t \in active, u \in Tranche :
                 /\ u.id = t.id /\ u.idx = t.idx /\ u.target <= t.target
                 /\ active' = (active \ {t}) \cup {u}
                 /\ \/ /\ pendingSell[t.idx] # None
                       /\ pc' = "cancel"
                       /\ cur' = [idx |-> t.idx, price |-> u.target, tries |-> 0]
                    \/ UNCHANGED <<pc, cur>> /\ pendingSell[t.idx] = None
            \/ UNCHANGED <<active, pc, cur>>
<1>1. PICK t \in active :
        \/ /\ Discount(t) > 0
           /\ active' = (active \ {t}) \cup {Cheaper(t)}
           /\ rows' = SavedAsIs(Cheaper(t))
           /\ \/ /\ pendingSell[t.idx] # None
                 /\ pc' = "cancel"
                 /\ cur' = [idx |-> t.idx, price |-> Cheaper(t).target, tries |-> 0]
              \/ UNCHANGED <<pc, cur>> /\ pendingSell[t.idx] = None
        \/ UNCHANGED <<active, rows, pc, cur>>
  BY DEF Subsidize, NextHung
<1>2. UNCHANGED <<orders, pendingBuy, pendingSell, newId, todo, free, coins>> /\ pc = "cascade"
  BY DEF Subsidize, NextHung, exchangeVars, mapVars
<1>3. CASE UNCHANGED <<active, rows, pc, cur>>
  BY <1>2, <1>3
<1>4. CASE ~UNCHANGED <<active, rows, pc, cur>>
  <2> DEFINE u == Cheaper(t)
  <2>1. t \in Tranche /\ subsidy \in Int /\ t.target \in Int
    BY TrancheFields DEF RunnerInv, OrdersTyped
  <2>2. Discount(t) \in Int /\ Discount(t) > 0
    BY <1>1, <1>4, <2>1, DiscountBounds
  <2>3. u \in Tranche /\ u.id = t.id /\ u.idx = t.idx /\ u.target <= t.target
    <3> HIDE DEF Discount
    <3> QED
      BY <2>1, <2>2 DEF Tranche, Cheaper
  <2>4. /\ active' = (active \ {t}) \cup {u} /\ rows' = SavedAsIs(u)
        /\ \/ /\ pendingSell[t.idx] # None
              /\ pc' = "cancel"
              /\ cur' = [idx |-> t.idx, tries |-> 0, price |-> u.target]
           \/ UNCHANGED <<pc, cur>> /\ pendingSell[t.idx] = None
    BY <1>1, <1>4
  <2> HIDE DEF u
  <2>5. \A r \in rows : \E q \in rows' : q.id = r.id
    <3>1. \E st, gain : rows' = Saved(u, st, gain)
      BY <2>4 DEF SavedAsIs
    <3> QED
      BY <3>1, SavedIds
  <2> QED
    BY <1>2, <2>3, <2>4, <2>5
<1> QED
  BY <1>3, <1>4

LEMMA FillFacts ==
  ASSUME RunnerInv, NEW id \in OrderIds, Fill(id)
  PROVE  /\ UNCHANGED <<active, rows, pendingBuy, pendingSell, newId, pc, cur, todo>>
         /\ id \in 1..Len(orders) /\ orders[id].st = "open"
         /\ SameOrders(orders, orders') /\ StatusChanged(orders, orders', id, "closed")
         /\ \A j \in 1..Len(orders) : orders'[j].db = orders[j].db
<1>1. /\ orders' = [orders EXCEPT ![id].st = "closed"] /\ orders[id].st = "open"
      /\ id \in 1..Len(orders) /\ "closed" \in {"open", "closed", "canceled"}
      /\ UNCHANGED <<active, rows, pendingBuy, pendingSell, newId, pc, cur, todo>>
  BY DEF Fill, OrderIds, botVars, mapVars, loopVars, dbVars
<1>2. orders \in Seq(Order)
  BY DEF RunnerInv, OrdersTyped
<1>3. /\ SameOrders(orders, [orders EXCEPT ![id].st = "closed"])
      /\ StatusChanged(orders, [orders EXCEPT ![id].st = "closed"], id, "closed")
      /\ \A j \in 1..Len(orders) : [orders EXCEPT ![id].st = "closed"][j].db = orders[j].db
  BY <1>1, <1>2, StatusSet, Zenon
<1>4. /\ SameOrders(orders, orders') /\ StatusChanged(orders, orders', id, "closed")
      /\ \A j \in 1..Len(orders) : orders'[j].db = orders[j].db
  BY <1>1, <1>3, Zenon
<1> QED
  BY <1>1, <1>4

-----------------------------------------------------------------------------
(* Processed fills and their rows *)

-----------------------------------------------------------------------------
(* What is processed is filled *)

\* Steps that process no fill.
LEMMA ProcessedFrame ==
  ASSUME FillInv, orders' \in Seq(Order), Len(orders) \in Nat, Len(orders') \in Nat,
         \A j \in 1..Len(orders') :
           orders'[j].db = "CLOSED" =>
             /\ j \in 1..Len(orders) /\ orders[j].db = "CLOSED"
             /\ orders[j].st = "closed" => orders'[j].st = "closed"
  PROVE  ProcessedIsFilled'
BY DEF FillInv, ProcessedIsFilled, OrderIds

LEMMA QuietFills ==
  ASSUME RunnerInv, FillInv, QuietStep
  PROVE  FillInv'
<1>1. /\ UNCHANGED <<active, rows, orders, pendingSell, newId>>
      /\ \/ UNCHANGED <<pc, todo>> /\ cur'.idx = cur.idx
         \/ pc' \notin SellPhase \cup Selling
         \/ /\ pc' \in {"sells", "cascade"}
            /\ \/ pc \in SellPhase /\ todo' \subseteq todo
               \/ todo' = Snapshot(pendingSell)
  BY QuietFacts
<1>2. ProcessedIsFilled'
  BY <1>1 DEF FillInv, ProcessedIsFilled, OrderIds
<1>3. TrackedActive'
  BY <1>1 DEF FillInv, TrackedActive, ActiveAt, Selling, Replacing, SellPhase
<1>4. \A item \in Snapshot(pendingSell) : pendingSell[item.idx] = item.id
  BY DEF Snapshot
<1>5. SnapshotFresh'
  BY <1>1, <1>4 DEF FillInv, SnapshotFresh, SellPhase, Replacing, Selling, OrderIds
<1> QED
  BY <1>2, <1>3, <1>5 DEF FillInv

LEMMA PlacingFills ==
  ASSUME RunnerInv, FillInv, PlacingStep
  PROVE  FillInv'
<1>1. PICK side \in {"buy", "sell"} :
           /\ UNCHANGED <<active, rows, pendingSell, todo>>
           /\ OneMore(orders, orders', NewOrder(side))
           /\ cur'.idx = cur.idx
           /\ pc \in {"placeBuy", "placeSell", "replace"}
           /\ \/ pc = "placeBuy" /\ pc' = "buyPlaced"
              \/ pc = "placeSell" /\ pc' = "sellPlaced"
              \/ pc = "replace" /\ pc' = "replaced"
              \/ UNCHANGED pc
  BY PlacingFacts
<1>2. /\ orders' \in Seq(Order) /\ Len(orders) \in Nat /\ Len(orders') = Len(orders) + 1
      /\ \A j \in 1..Len(orders) : orders'[j] = orders[j]
      /\ orders'[Len(orders) + 1].db = "none"
  BY <1>1 DEF OneMore, NewOrder
<1>3. ProcessedIsFilled'
  BY <1>1, <1>2, ProcessedFrame
<1>4. TrackedActive'
  BY <1>1 DEF FillInv, TrackedActive, ActiveAt, Selling, Replacing
<1>5. SnapshotFresh'
  <2>1. todo \subseteq [idx : Tranches, id : {Simulated} \cup OrderIds]
    BY DEF RunnerInv, OrdersTyped
  <2>2. \A item \in todo : item.id \in OrderIds' => item.id \in OrderIds
    BY <1>2, <2>1 DEF OrderIds, Simulated
  <2> QED
    BY <1>1, <1>2, <2>2 DEF FillInv, SnapshotFresh, SellPhase, Replacing, OrderIds
<1> QED
  BY <1>3, <1>4, <1>5 DEF FillInv

LEMMA CancelingFills ==
  ASSUME DbErrors = FALSE, RunnerInv, FillInv, CancelingStep
  PROVE  FillInv'
<1> DEFINE id == pendingSell[cur.idx]
<1>1. /\ UNCHANGED <<active, rows, pendingSell, todo>>
      /\ id \in 1..Len(orders) /\ orders[id].st = "open"
      /\ SameOrders(orders, orders') /\ StatusChanged(orders, orders', id, "canceled")
      /\ \A j \in 1..Len(orders) : j # id => orders'[j].db = orders[j].db
      /\ orders'[id].db \in {orders[id].db, "CANCELED"}
      /\ cur.idx \in Tranches /\ pc = "cancel"
      /\ \/ pc' = "replace" /\ UNCHANGED cur
         \/ pc' = "cascade"
  BY CancelingFacts
<1>2. orders' \in Seq(Order) /\ Len(orders') = Len(orders) /\ Len(orders) \in Nat
  BY <1>1, LenProperties DEF SameOrders, RunnerInv, OrdersTyped
<1>3. orders[id].db # "CLOSED"
  BY <1>1 DEF FillInv, ProcessedIsFilled, OrderIds
<1>4. ProcessedIsFilled'
  <2>1. ASSUME NEW j \in 1..Len(orders'), orders'[j].db = "CLOSED"
        PROVE  /\ j \in 1..Len(orders) /\ orders[j].db = "CLOSED"
               /\ orders[j].st = "closed" => orders'[j].st = "closed"
    BY <1>1, <1>2, <1>3, <2>1 DEF SameOrders, StatusChanged
  <2> QED
    BY <1>1, <1>2, <2>1, ProcessedFrame
<1>5. TrackedActive'
  BY <1>1 DEF FillInv, TrackedActive, ActiveAt, Selling, Replacing
<1>6. SnapshotFresh'
  <2>1. OrderIds' = OrderIds /\ id \in OrderIds
    BY <1>1, <1>2 DEF OrderIds
  <2>2. \A j \in OrderIds : orders[j].st = "canceled" => orders'[j].st = "canceled"
    BY <1>1 DEF StatusChanged, OrderIds
  <2>3. orders'[id].st = "canceled"
    BY <1>1 DEF StatusChanged
  <2>4. pc' \in {"replace", "replaced"} => pendingSell'[cur'.idx] = id
    BY <1>1
  <2>5. \A item \in todo : item.id \in OrderIds =>
          pendingSell[item.idx] = item.id \/ orders[item.id].st = "canceled"
    BY <1>1 DEF FillInv, SnapshotFresh, SellPhase, Replacing
  <2> HIDE DEF id
  <2> QED
    BY <1>1, <2>1, <2>2, <2>3, <2>4, <2>5 DEF SnapshotFresh
<1> QED
  BY <1>4, <1>5, <1>6 DEF FillInv

LEMMA RecordFills ==
  ASSUME RunnerInv, FillInv, RecordBuy \/ RecordSell \/ RecordReplaced
  PROVE  FillInv'
<1>1. /\ UNCHANGED <<active, rows, todo>>
      /\ newId \in 1..Len(orders) /\ cur \in Pending
      /\ SameOrders(orders, orders') /\ DbChanged(orders, orders', newId, "OPEN")
      /\ \A j \in 1..Len(orders) : orders'[j].st = orders[j].st
      /\ \/ pc = "buyPlaced" /\ pc' = "signals" /\ UNCHANGED pendingSell
         \/ /\ \/ pc = "sellPlaced" /\ pc' = "buys"
               \/ pc = "replaced" /\ pc' = "cascade"
            /\ \A i \in Tranches :
                  pendingSell'[i] = IF i = cur.idx THEN newId ELSE pendingSell[i]
  BY RecordFacts
<1>2. /\ orders' \in Seq(Order) /\ Len(orders') = Len(orders) /\ Len(orders) \in Nat
      /\ cur.idx \in Tranches
  BY <1>1, LenProperties DEF SameOrders, RunnerInv, OrdersTyped, Pending
<1>3. ProcessedIsFilled'
  <2>1. ASSUME NEW j \in 1..Len(orders'), orders'[j].db = "CLOSED"
        PROVE  /\ j \in 1..Len(orders) /\ orders[j].db = "CLOSED"
               /\ orders[j].st = "closed" => orders'[j].st = "closed"
    BY <1>1, <1>2, <2>1 DEF SameOrders, DbChanged
  <2> QED
    BY <1>1, <1>2, <2>1, ProcessedFrame
<1>4. TrackedActive'
  <2>1. pc # "buyPlaced" => ActiveAt(cur.idx)
    BY <1>1 DEF FillInv, TrackedActive, Selling, Replacing
  <2> QED
    BY <1>1, <2>1 DEF FillInv, TrackedActive, ActiveAt, Selling, Replacing
<1>5. SnapshotFresh'
  <2> SUFFICES ASSUME pc = "replaced", NEW item \in todo, item.id \in 1..Len(orders)
               PROVE  \/ pendingSell'[item.idx] = item.id
                      \/ orders'[item.id].st = "canceled"
    BY <1>1, <1>2 DEF SnapshotFresh, SellPhase, Replacing, Selling, OrderIds
  <2>1. \/ pendingSell[item.idx] = item.id
        \/ orders[item.id].st = "canceled"
    BY DEF FillInv, SnapshotFresh, SellPhase, Replacing, OrderIds
  <2>2. orders[pendingSell[cur.idx]].st = "canceled"
    BY DEF FillInv, SnapshotFresh
  <2>3. item.idx \in Tranches
    BY DEF RunnerInv, OrdersTyped
  <2> QED
    BY <1>1, <2>1, <2>2, <2>3
<1> QED
  BY <1>3, <1>4, <1>5 DEF FillInv

LEMMA SellFailedFills ==
  ASSUME RunnerInv, FillInv, SellFailed
  PROVE  FillInv'
<1>1. /\ UNCHANGED <<active, rows, orders>>
      /\ cur \in Pending /\ pc = "placeSell" /\ pc' = "buys"
      /\ \A i \in Tranches :
            pendingSell'[i] = IF i = cur.idx THEN Simulated ELSE pendingSell[i]
  BY SellFailedFacts
<1>2. ProcessedIsFilled'
  BY <1>1 DEF FillInv, ProcessedIsFilled, OrderIds
<1>3. TrackedActive' /\ SnapshotFresh'
  BY <1>1 DEF FillInv, TrackedActive, ActiveAt, SnapshotFresh, Selling, Replacing, SellPhase
<1> QED
  BY <1>2, <1>3 DEF FillInv

LEMMA SubsidizeFills ==
  ASSUME RunnerInv, FillInv, Subsidize
  PROVE  FillInv'
<1>1. /\ UNCHANGED <<orders, pendingSell, todo>>
      /\ pc = "cascade" /\ pc' \in {"cascade", "cancel"}
      /\ \A i : ActiveAt(i) => ActiveAt(i)'
      /\ pc' = "cancel" => ActiveAt(cur.idx)'
  <2>1. CASE UNCHANGED <<active, pc, cur>>
    BY <2>1, SubsidizeFacts DEF ActiveAt
  <2>2. ASSUME NEW t \in active, NEW u \in Tranche, u.idx = t.idx,
               active' = (active \ {t}) \cup {u},
               \/ pc' = "cancel" /\ cur'.idx = t.idx
               \/ UNCHANGED pc
        PROVE  /\ \A i : ActiveAt(i) => ActiveAt(i)'
               /\ pc = "cascade" /\ pc' = "cancel" => ActiveAt(cur.idx)'
    BY <2>2 DEF ActiveAt
  <2> QED
    BY <2>1, <2>2, SubsidizeFacts
<1>2. ProcessedIsFilled'
  <2>1. orders \in Seq(Order) /\ Len(orders) \in Nat
    BY LenProperties DEF RunnerInv, OrdersTyped
  <2> QED
    BY <1>1, <2>1, ProcessedFrame
<1>3. TrackedActive'
  BY <1>1 DEF FillInv, TrackedActive, ActiveAt, Selling, Replacing
<1>4. SnapshotFresh'
  BY <1>1 DEF FillInv, SnapshotFresh, SellPhase, Replacing, OrderIds
<1> QED
  BY <1>2, <1>3, <1>4 DEF FillInv

LEMMA ActivateFills ==
  ASSUME RunnerInv, Exact, FillInv, NEW item \in todo, Activate(item)
  PROVE  FillInv'
<1>1. /\ item.id \in 1..Len(orders) /\ orders[item.id].st = "closed"
      /\ SameOrders(orders, orders') /\ DbChanged(orders, orders', item.id, "CLOSED")
      /\ \A j \in 1..Len(orders) : orders'[j].st = orders[j].st
  BY ActivateFacts DEF ProcessingFacts
<1>3. /\ active' = active \cup {OpenedBy(item)} /\ OpenedBy(item).idx = item.idx
      /\ pc' = "placeSell" /\ UNCHANGED pendingSell /\ cur'.idx = item.idx
  BY ActivateFacts DEF OpenedBy
<1>4. ProcessedIsFilled'
  BY <1>1 DEF FillInv, ProcessedIsFilled, SameOrders, DbChanged, OrderIds
<1>6. TrackedActive'
  BY <1>3 DEF FillInv, TrackedActive, ActiveAt
<1>7. SnapshotFresh'
  BY <1>3 DEF SnapshotFresh, SellPhase, Replacing
<1> QED
  BY <1>4, <1>6, <1>7 DEF FillInv

LEMMA CloseFills ==
  ASSUME RunnerInv, FillInv, NEW item \in todo, Close(item)
  PROVE  FillInv'
<1>0. SnapshotFresh
  BY DEF FillInv
<1>1. /\ item.id \in 1..Len(orders) /\ orders[item.id].st = "closed"
      /\ IsOrder(item.id, "sell", item.idx) /\ item.idx \in Tranches
      /\ SameOrders(orders, orders') /\ DbChanged(orders, orders', item.id, "CLOSED")
      /\ \A j \in 1..Len(orders) : orders'[j].st = orders[j].st
      /\ todo' = todo \ {item}
  BY <1>0, CloseFacts DEF ProcessingFacts
<1>2. /\ pc = "sells" /\ pc' \in {"sells", "cascade"}
      /\ pendingSell[item.idx] = item.id
      /\ \A i \in Tranches :
            pendingSell'[i] = IF i = item.idx THEN None ELSE pendingSell[i]
      /\ \/ UNCHANGED active
         \/ \E t \in active : t.idx = item.idx /\ active' = active \ {t}
  BY <1>0, CloseFacts
<1>3. ProcessedIsFilled'
  BY <1>1 DEF FillInv, ProcessedIsFilled, SameOrders, DbChanged, OrderIds
<1>5. TrackedActive'
  <2>1. \A i \in Tranches : pendingSell'[i] # None => ActiveAt(i)'
    BY <1>2 DEF FillInv, TrackedActive, ActiveAt
  <2> QED
    BY <1>2, <2>1 DEF TrackedActive, Selling, Replacing
<1>6. SnapshotFresh'
  <2> SUFFICES ASSUME NEW other \in todo, other # item, other.id \in 1..Len(orders)
               PROVE  \/ pendingSell'[other.idx] = other.id
                      \/ orders'[other.id].st = "canceled"
    BY <1>1, <1>2 DEF SnapshotFresh, SellPhase, Replacing, SameOrders, OrderIds
  <2>1. todo \subseteq [idx : Tranches, id : {Simulated} \cup OrderIds]
    BY DEF RunnerInv, OrdersTyped
  <2>2. \/ pendingSell[other.idx] = other.id
        \/ orders[other.id].st = "canceled"
    BY <1>2 DEF FillInv, SnapshotFresh, SellPhase, OrderIds
  <2>3. pendingSell[other.idx] = other.id => other.idx # item.idx
    BY <1>2, <2>1
  <2> QED
    BY <1>1, <1>2, <2>1, <2>2, <2>3
<1> QED
  BY <1>3, <1>5, <1>6 DEF FillInv

LEMMA FilledFills ==
  ASSUME RunnerInv, FillInv, NEW id \in OrderIds, Fill(id)
  PROVE  FillInv'
<1>1. /\ UNCHANGED <<active, rows, pendingSell, pc, cur, todo>>
      /\ id \in 1..Len(orders) /\ orders[id].st = "open"
      /\ SameOrders(orders, orders') /\ StatusChanged(orders, orders', id, "closed")
      /\ \A j \in 1..Len(orders) : orders'[j].db = orders[j].db
  BY FillFacts
<1>2. ProcessedIsFilled'
  BY <1>1 DEF FillInv, ProcessedIsFilled, SameOrders, StatusChanged, OrderIds
<1>4. TrackedActive'
  BY <1>1 DEF FillInv, TrackedActive, ActiveAt
<1>5. SnapshotFresh'
  <2>1. \A j \in OrderIds : orders[j].st = "canceled" => orders'[j].st = "canceled"
    BY <1>1 DEF StatusChanged, OrderIds
  <2>2. OrderIds' = OrderIds
    BY <1>1 DEF SameOrders, OrderIds
  <2> QED
    BY <1>1, <2>1, <2>2 DEF FillInv, SnapshotFresh
<1> QED
  BY <1>2, <1>4, <1>5 DEF FillInv

LEMMA InitFills == Init => FillInv
BY DEF Init, FillInv, ProcessedIsFilled, TrackedActive, SnapshotFresh,
       OrderIds, SellPhase, Selling, Replacing, None

LEMMA NextFills ==
  DbErrors = FALSE /\ MaxCrashes = 0 /\ RunnerInv /\ Exact /\ FillInv /\ [Next]_vars
    => FillInv'
<1> SUFFICES ASSUME DbErrors = FALSE, MaxCrashes = 0, RunnerInv, Exact, FillInv,
                    [Next]_vars
             PROVE  FillInv'
  OBVIOUS
<1>1. \/ QuietStep \/ PlacingStep \/ CancelingStep
      \/ RecordBuy \/ RecordSell \/ RecordReplaced \/ SellFailed \/ Subsidize
      \/ \E item \in todo : Activate(item) \/ Close(item)
      \/ \E id \in OrderIds : Fill(id)
  BY StepKinds, NoFailure
<1> QED
  BY <1>1, QuietFills, PlacingFills, CancelingFills, RecordFills, SellFailedFills,
     SubsidizeFills, ActivateFills, CloseFills, FilledFills

-----------------------------------------------------------------------------
(* Orders nobody asks about *)

\* An open order stays with the map or the reply that names it.
LEMMA OrphansFrame ==
  ASSUME RunnerInv, NoOrphanOrder, SameOrders(orders, orders'), UNCHANGED newId,
         \A j \in 1..Len(orders) : orders'[j].st = "open" =>
            /\ orders[j].st = "open"
            /\ pendingBuy[orders[j].idx] = j => pendingBuy'[orders[j].idx] = j
            /\ pendingSell[orders[j].idx] = j => pendingSell'[orders[j].idx] = j
  PROVE  NoOrphanOrder'
BY DEF NoOrphanOrder, OrderIds, SameOrders

LEMMA PlacingOrphans ==
  ASSUME RunnerInv, NoOrphanOrder, PlacingStep, LostReplies = FALSE
  PROVE  NoOrphanOrder'
<1>1. PICK side \in {"buy", "sell"} :
           /\ UNCHANGED <<pendingBuy, pendingSell>>
           /\ OneMore(orders, orders', NewOrder(side))
           /\ newId = None /\ newId' = Len(orders) + 1
  BY PlacingFacts
<1>2. \A j \in 1..Len(orders) : j # None
  BY DEF None
<1> QED
  BY <1>1, <1>2 DEF NoOrphanOrder, OrderIds, OneMore

LEMMA IndexOfOrder ==
  ASSUME RunnerInv, NEW j \in 1..Len(orders)
  PROVE  orders[j].idx \in Tranches
<1>1. orders[j] \in Order
  BY ElementOfSeq DEF RunnerInv, OrdersTyped
<1> QED
  BY <1>1 DEF Order

LEMMA RecordOrphans ==
  ASSUME RunnerInv, Exact, SellInv, NoOrphanOrder,
         RecordBuy \/ RecordSell \/ RecordReplaced
  PROVE  NoOrphanOrder'
<1>1. /\ newId \in 1..Len(orders) /\ cur \in Pending
      /\ SameOrders(orders, orders')
      /\ \A j \in 1..Len(orders) : orders'[j].st = orders[j].st
      /\ \/ /\ pc = "buyPlaced" /\ IsOrder(newId, "buy", cur.idx)
            /\ UNCHANGED pendingSell
            /\ \A i \in Tranches :
                 pendingBuy'[i] = IF i = cur.idx THEN newId ELSE pendingBuy[i]
         \/ /\ pc \in {"sellPlaced", "replaced"} /\ IsOrder(newId, "sell", cur.idx)
            /\ UNCHANGED pendingBuy
            /\ \A i \in Tranches :
                 pendingSell'[i] = IF i = cur.idx THEN newId ELSE pendingSell[i]
  BY RecordFacts
<1>2. cur.idx \in Tranches
  BY <1>1 DEF Pending
<1> SUFFICES ASSUME NEW j \in 1..Len(orders), orders[j].st = "open"
             PROVE  \/ pendingBuy'[orders[j].idx] = j
                    \/ pendingSell'[orders[j].idx] = j
  BY <1>1 DEF NoOrphanOrder, OrderIds, SameOrders
<1>3. /\ orders[j].idx \in Tranches
      /\ \/ pendingBuy[orders[j].idx] = j \/ pendingSell[orders[j].idx] = j \/ newId = j
  BY IndexOfOrder DEF NoOrphanOrder, OrderIds
<1>4. CASE pc = "buyPlaced"
  <2>1. pendingBuy[cur.idx] = None /\ None # j
    BY <1>4 DEF RunnerInv, Exact, IndexFree, Buying, None
  <2> QED
    BY <1>1, <1>3, <1>4, <2>1 DEF IsOrder
<1>5. CASE pc \in {"sellPlaced", "replaced"}
  <2>1. pendingSell[orders[j].idx] = j => orders[j].side = "sell"
    BY <1>3 DEF RunnerInv, MapsTracked, IsOrder, OrderIds
  <2>2. ASSUME pendingSell[cur.idx] = j, orders[j].idx = cur.idx PROVE j = newId
    <3>1. j \in OpenSells(cur.idx)
      BY <2>1, <2>2, OpenSell
    <3> QED
      BY <1>5, <3>1 DEF SellInv, SellsPlaced
  <2> QED
    BY <1>1, <1>3, <1>5, <2>2 DEF IsOrder
<1> QED
  BY <1>1, <1>4, <1>5

LEMMA SellFailedOrphans ==
  ASSUME RunnerInv, SellInv, NoOrphanOrder, SellFailed
  PROVE  NoOrphanOrder'
<1>1. /\ UNCHANGED <<orders, pendingBuy, newId>> /\ cur \in Pending /\ pc = "placeSell"
      /\ \A i \in Tranches :
            pendingSell'[i] = IF i = cur.idx THEN Simulated ELSE pendingSell[i]
  BY SellFailedFacts
<1>2. OpenSells(cur.idx) = {}
  BY <1>1 DEF SellInv, SellsPlaced
<1>3. ASSUME NEW j \in 1..Len(orders), orders[j].st = "open",
             pendingSell[orders[j].idx] = j
      PROVE  pendingSell'[orders[j].idx] = j
  <2>1. orders[j].idx \in Tranches
    BY IndexOfOrder
  <2>2. orders[j].side = "sell"
    BY <1>3, <2>1 DEF RunnerInv, MapsTracked, IsOrder, OrderIds
  <2>3. orders[j].idx # cur.idx
    BY <1>2, <1>3, <2>2, OpenSell
  <2> QED
    BY <1>1, <1>3, <2>1, <2>3
<1>4. SameOrders(orders, orders')
  BY <1>1, SameOrdersRefl DEF RunnerInv, OrdersTyped
<1> QED
  BY <1>1, <1>3, <1>4, OrphansFrame

LEMMA NextOrphans ==
  DbErrors = FALSE /\ MaxCrashes = 0 /\ LostReplies = FALSE
    /\ RunnerInv /\ Exact /\ SellInv /\ NoOrphanOrder /\ [Next]_vars => NoOrphanOrder'
<1> SUFFICES ASSUME DbErrors = FALSE, MaxCrashes = 0, LostReplies = FALSE, RunnerInv,
                    Exact, SellInv, NoOrphanOrder, [Next]_vars
             PROVE  NoOrphanOrder'
  OBVIOUS
<1>1. CASE QuietStep
  <2>1. UNCHANGED <<orders, pendingBuy, pendingSell, newId>>
    BY <1>1, QuietFacts
  <2> QED
    BY <2>1 DEF NoOrphanOrder, OrderIds
<1>2. CASE PlacingStep
  BY <1>2, PlacingOrphans
<1>3. CASE CancelingStep
  <2>1. /\ UNCHANGED <<pendingBuy, pendingSell, newId>> /\ SameOrders(orders, orders')
        /\ StatusChanged(orders, orders', pendingSell[cur.idx], "canceled")
    BY <1>3, CancelingFacts
  <2> QED
    BY <2>1, OrphansFrame DEF StatusChanged
<1>4. CASE RecordBuy \/ RecordSell \/ RecordReplaced
  BY <1>4, RecordOrphans
<1>5. CASE SellFailed
  BY <1>5, SellFailedOrphans
<1>6. CASE Subsidize
  <2>1. UNCHANGED <<orders, pendingBuy, pendingSell, newId>>
    BY <1>6, SubsidizeFacts
  <2> QED
    BY <2>1 DEF NoOrphanOrder, OrderIds
<1>7. ASSUME NEW item \in todo, Activate(item)
      PROVE  NoOrphanOrder'
  <2>1. /\ SameOrders(orders, orders') /\ orders[item.id].st = "closed"
        /\ UNCHANGED newId /\ \A j \in 1..Len(orders) : orders'[j].st = orders[j].st
    BY <1>7, ActivateFacts DEF ProcessingFacts
  <2>2. /\ pendingBuy[item.idx] = item.id /\ UNCHANGED pendingSell
        /\ \A i \in Tranches : pendingBuy'[i] = IF i = item.idx THEN None ELSE pendingBuy[i]
    BY <1>7, ActivateFacts
  <2> QED
    BY <2>1, <2>2, IndexOfOrder, OrphansFrame
<1>8. ASSUME NEW item \in todo, Close(item)
      PROVE  NoOrphanOrder'
  <2>0. SnapshotFresh
    BY DEF SellInv
  <2>1. /\ SameOrders(orders, orders') /\ orders[item.id].st = "closed"
        /\ UNCHANGED newId /\ \A j \in 1..Len(orders) : orders'[j].st = orders[j].st
    BY <1>8, <2>0, CloseFacts DEF ProcessingFacts
  <2>2. /\ pendingSell[item.idx] = item.id /\ UNCHANGED pendingBuy
        /\ \A i \in Tranches :
             pendingSell'[i] = IF i = item.idx THEN None ELSE pendingSell[i]
    BY <1>8, <2>0, CloseFacts
  <2> QED
    BY <2>1, <2>2, IndexOfOrder, OrphansFrame
<1>9. ASSUME NEW id \in OrderIds, Fill(id)
      PROVE  NoOrphanOrder'
  <2>1. /\ UNCHANGED <<pendingBuy, pendingSell, newId>> /\ SameOrders(orders, orders')
        /\ StatusChanged(orders, orders', id, "closed")
    BY <1>9, FillFacts
  <2> QED
    BY <2>1, OrphansFrame DEF StatusChanged
<1> QED
  BY <1>1, <1>2, <1>3, <1>4, <1>5, <1>6, <1>7, <1>8, <1>9, StepKinds, NoFailure

\* Unless a reply is lost, the process restarts or a database statement raises,
\* every order resting on the exchange is in one of the runner's maps or about to
\* enter it, through refusals, fills and replacements at any await
\* (live_runner.py 269-289, 418-438, 521-556).
THEOREM NothingOrphaned ==
  ASSUME LostReplies = FALSE, MaxCrashes = 0, DbErrors = FALSE
  PROVE  Spec => []NoOrphanOrder
<1> DEFINE Inv == RunnerInv /\ SellInv /\ HalfBooked /\ NoOrphanOrder
<1>1. Init => Inv
  BY InitTranches, InitSells DEF Init, NoOrphanOrder, OrderIds
<1>2. Inv /\ [Next]_vars => Inv'
  BY NextTranches, NextSells, NextHalf, NextOrphans, NoExceptions
<1>3. Inv => NoOrphanOrder
  OBVIOUS
<1> QED
  BY <1>1, <1>2, <1>3, PTL DEF Spec


-----------------------------------------------------------------------------
(* The take-profit order of every tranche, when no call fails *)

LEMMA CountingSets ==
  ASSUME RunnerInv
  PROVE  /\ IsFiniteSet(Unprocessed) /\ Cardinality(Unprocessed) \in Nat
         /\ \A id \in Unprocessed :
              Cardinality(Unprocessed \ {id}) = Cardinality(Unprocessed) - 1
         /\ \A id : id \notin Unprocessed =>
              Cardinality(Unprocessed \cup {id}) = Cardinality(Unprocessed) + 1
<1>1. Len(orders) \in Nat
  BY LenProperties DEF RunnerInv, OrdersTyped
<1>2. IsFiniteSet(1..Len(orders))
  BY <1>1, FS_Interval
<1>3. IsFiniteSet(Unprocessed)
  <2>1. Unprocessed \subseteq 1..Len(orders)
    BY DEF Unprocessed, BuyOrders, OrderIds
  <2> QED
    BY <1>2, <2>1, FS_Subset
<1>4. Cardinality(Unprocessed) \in Nat
  BY <1>3, FS_CardinalityType
<1>5. \A id \in Unprocessed :
              Cardinality(Unprocessed \ {id}) = Cardinality(Unprocessed) - 1
  BY <1>3, FS_RemoveElement
<1>6. \A id : id \notin Unprocessed =>
              Cardinality(Unprocessed \cup {id}) = Cardinality(Unprocessed) + 1
  BY <1>3, FS_AddElement
<1> QED
  BY <1>3, <1>4, <1>5, <1>6

\* There is a coin for the order about to be placed, so nothing raises.
LEMMA NothingRaised ==
  ASSUME Rejects = FALSE, RunnerInv, CoverInv
  PROVE  ~SellFailed /\ ~ReplaceFailed
<1> SUFFICES ASSUME SellFailed \/ ReplaceFailed PROVE FALSE
  OBVIOUS
<1>1. coins = Cardinality(Unprocessed) + 1 /\ Cardinality(Unprocessed) \in Nat
  BY CountingSets DEF CoverInv, CoinsCounted, SellFailed, ReplaceFailed
<1>2. Funded("sell", cur.price) /\ cur.tries # MaxRetries
  BY <1>1 DEF CoverInv, Funded, MaxRetries
<1> QED
  BY <1>2 DEF SellFailed, ReplaceFailed, Raised

\* Steps that move the coroutine on at most, outside a placement.
LEMMA QuietCover ==
  ASSUME DbErrors = FALSE, Rejects = FALSE, LostReplies = FALSE, RunnerInv, CoverInv,
         QuietStep
  PROVE  CoverInv'
<1>1. UNCHANGED <<active, orders, pendingSell, newId>>
  BY QuietFacts
<1>2. Unprocessed' = Unprocessed
  BY <1>1 DEF Unprocessed, BuyOrders, OrderIds
<1>3. CASE CancelFailed
  <2>1. /\ pc = "cancel" /\ pc' = "cascade" /\ cur' = NoOrder /\ UNCHANGED coins
        /\ pendingSell[cur.idx] \notin OpenOrders("sell")
    BY <1>3 DEF CancelFailed
  <2>2. \A t \in active : t.idx = cur.idx => TakesProfit(pendingSell[t.idx], t)
    <3> SUFFICES ASSUME NEW t \in active, t.idx = cur.idx
                 PROVE  TakesProfit(pendingSell[t.idx], t)
      OBVIOUS
    <3>1. /\ pendingSell[t.idx] \in OrderIds
          /\ orders[pendingSell[t.idx]].st \in {"open", "closed"}
          /\ orders[pendingSell[t.idx]].price >= t.target
      BY <2>1 DEF CoverInv, Covered, Replacing
    <3>2. orders[pendingSell[t.idx]].side = "sell"
      <4>1. t.idx \in Tranches
        BY DEF RunnerInv, OrdersTyped, Tranche
      <4> QED
        BY <3>1, <4>1 DEF RunnerInv, MapsTracked, IsOrder
    <3> QED
      BY <2>1, <3>1, <3>2 DEF OpenOrders, IsOpen, TakesProfit
  <2>3. \A t \in active : Covered(t)'
    BY <1>1, <2>1, <2>2 DEF CoverInv, Covered, TakesProfit, OrderIds, Selling, Replacing
  <2> QED
    BY <1>2, <2>1, <2>3, <1>1 DEF CoverInv, CoinsCounted, NoOrder
<1>4. CASE ~CancelFailed
  <2>1. /\ UNCHANGED coins /\ cur'.tries = 0
        /\ \/ UNCHANGED <<pc, cur>>
           \/ pc \notin Selling \cup Replacing /\ pc' \notin Selling \cup Replacing
    <3> USE DEF Selling, Replacing
    <3>0. cur.tries = 0
      BY DEF CoverInv
    <3>1. CASE Balance
      BY <1>4, <3>0, <3>1 DEF Balance, StartCycle, ReadBalance, BalanceUnknown, CompareBalance,
                  BookDifference, exchangeVars, loopVars
    <3>2. CASE BuysReconciled \/ Evaluate \/ SkipSignal \/ HandleBuySignal \/ EndCycle
               \/ CascadeEnds \/ BuyFailed
      BY <1>4, <3>0, <3>2 DEF BuysReconciled, Evaluate, SkipSignal, HandleBuySignal, EndCycle,
                  CascadeEnds, BuyFailed, Raised, exchangeVars, loopVars, NoOrder
    <3>3. CASE Api
      BY <1>4, <3>0, <3>3 DEF Api, PauseBot, ResumeBot, StopBot, SetStatus, DepositCapital,
                  WithdrawCapital, CapitalHandler, exchangeVars, loopVars
    <3>4. CASE UNCHANGED vars \/ \E amount \in Int : ExternalTransfer(amount)
      BY <1>4, <3>0, <3>4 DEF ExternalTransfer, vars, exchangeVars, loopVars
    <3>5. CASE \E item \in todo : BuyStillOpen(item) \/ SellStillOpen(item)
      BY <1>4, <3>0, <3>5 DEF BuyStillOpen, SellStillOpen, exchangeVars
    <3>6. ~Resubmit
      BY DEF Resubmit, Retried
    <3> QED
      BY <1>4, <3>1, <3>2, <3>3, <3>4, <3>5, <3>6, NothingRaised DEF QuietStep
  <2>2. \A t \in active : Covered(t)'
    BY <1>1, <2>1 DEF CoverInv, Covered, TakesProfit, OrderIds
  <2>3. CoinsCounted'
    BY <1>2, <2>1 DEF CoverInv, CoinsCounted, Selling, Replacing
  <2> QED
    BY <1>1, <2>1, <2>2, <2>3 DEF CoverInv
<1> QED
  BY <1>3, <1>4

LEMMA PlacingCover ==
  ASSUME LostReplies = FALSE, RunnerInv, CoverInv, PlacingStep
  PROVE  CoverInv'
<1>1. PICK side \in {"buy", "sell"} :
           /\ UNCHANGED <<active, pendingSell, cur>>
           /\ Placed(side)
           /\ OneMore(orders, orders', NewOrder(side))
           /\ side = "buy" <=> pc = "placeBuy"
           /\ newId' = Len(orders) + 1
           /\ \/ pc = "placeBuy" /\ pc' = "buyPlaced"
              \/ pc = "placeSell" /\ pc' = "sellPlaced"
              \/ pc = "replace" /\ pc' = "replaced"
  BY PlacingFacts
<1>2. /\ Len(orders) \in Nat /\ Len(orders') = Len(orders) + 1
      /\ \A j \in 1..Len(orders) : orders'[j] = orders[j]
      /\ orders'[newId'].st = "open" /\ orders'[newId'].price = cur.price
      /\ newId' \in 1..Len(orders')
  BY <1>1 DEF OneMore, NewOrder
<1>3. Unprocessed' = Unprocessed
  BY <1>1, <1>2 DEF Unprocessed, BuyOrders, OrderIds
<1>4. CoinsCounted'
  <2>1. Cardinality(Unprocessed) \in Nat
    BY CountingSets
  <2> QED
    BY <1>1, <1>3, <2>1 DEF CoverInv, CoinsCounted, Placed
<1>5. \A t \in active : Covered(t)'
  <2> SUFFICES ASSUME NEW t \in active PROVE Covered(t)'
    OBVIOUS
  <2>1. CASE pc # "placeBuy" /\ cur.idx = t.idx
    <3>1. cur.price = t.target
      BY <1>1, <2>1 DEF CoverInv, Covered, Selling, Replacing
    <3> QED
      BY <1>1, <1>2, <2>1, <3>1 DEF Covered, TakesProfit, OrderIds, Selling, Replacing
  <2>2. CASE ~(pc # "placeBuy" /\ cur.idx = t.idx)
    <3>1. TakesProfit(pendingSell[t.idx], t)
      BY <1>1, <2>2 DEF CoverInv, Covered, Selling, Replacing
    <3>2. TakesProfit(pendingSell[t.idx], t)'
      BY <1>1, <1>2, <3>1 DEF TakesProfit, OrderIds
    <3> QED
      BY <1>1, <2>2, <3>2 DEF Covered, Selling, Replacing
  <2> QED
    BY <2>1, <2>2
<1> QED
  BY <1>1, <1>4, <1>5 DEF CoverInv

LEMMA CancelingCover ==
  ASSUME DbErrors = FALSE, LostReplies = FALSE, RunnerInv, CoverInv,
         CancelingStep
  PROVE  CoverInv'
<1> DEFINE resting == pendingSell[cur.idx]
<1>1. /\ UNCHANGED <<active, pendingSell, cur>>
      /\ resting \in 1..Len(orders) /\ orders[resting].side = "sell"
      /\ SameOrders(orders, orders') /\ StatusChanged(orders, orders', resting, "canceled")
      /\ \A j \in 1..Len(orders) : j # resting => orders'[j].db = orders[j].db
      /\ cur.idx \in Tranches
      /\ pc = "cancel" /\ pc' = "replace" /\ CancelAccepted
  BY CancelingFacts
<1>2. coins' = coins + 1
  BY <1>1 DEF CancelAccepted
<1>3. Unprocessed' = Unprocessed
  BY <1>1 DEF Unprocessed, BuyOrders, OrderIds, SameOrders, StatusChanged
<1>4. CoinsCounted'
  <2>1. Cardinality(Unprocessed) \in Nat
    BY CountingSets
  <2> QED
    BY <1>1, <1>2, <1>3, <2>1 DEF CoverInv, CoinsCounted
<1>5. \A t \in active : Covered(t)'
  <2> SUFFICES ASSUME NEW t \in active PROVE Covered(t)'
    OBVIOUS
  <2>1. CASE cur.idx = t.idx
    <3>1. cur.price = t.target
      BY <1>1, <2>1 DEF CoverInv, Covered, Replacing
    <3>2. cur' = cur /\ pc' = "replace"
      BY <1>1
    <3>3. pc' \in Selling \cup Replacing /\ pc' # "cancel"
          /\ pc' \notin {"sellPlaced", "replaced"} /\ cur'.price = t.target
          /\ cur'.idx = t.idx
      BY <2>1, <3>1, <3>2 DEF Replacing
    <3> HIDE DEF resting
    <3> QED
      BY <3>3 DEF Covered
  <2>2. CASE cur.idx # t.idx
    <3>1. TakesProfit(pendingSell[t.idx], t)
      BY <2>2 DEF CoverInv, Covered
    <3>2. pendingSell[t.idx] # resting
      <4>1. t.idx \in Tranches
        BY DEF RunnerInv, OrdersTyped, Tranche
      <4> QED
        BY <1>1, <2>2, <4>1 DEF RunnerInv, MapsTracked, IsOrder, OrderIds
    <3>3. TakesProfit(pendingSell[t.idx], t)'
      BY <1>1, <3>1, <3>2 DEF TakesProfit, OrderIds, SameOrders, StatusChanged
    <3> QED
      BY <1>1, <2>2, <3>3 DEF Covered
  <2> QED
    BY <2>1, <2>2
<1> QED
  BY <1>1, <1>4, <1>5 DEF CoverInv

LEMMA RecordCover ==
  ASSUME RunnerInv, CoverInv, RecordBuy \/ RecordSell \/ RecordReplaced
  PROVE  CoverInv'
<1>1. /\ UNCHANGED active /\ cur' = NoOrder
      /\ newId \in 1..Len(orders) /\ cur \in Pending /\ orders[newId].db = "none"
      /\ SameOrders(orders, orders') /\ DbChanged(orders, orders', newId, "OPEN")
      /\ \A j \in 1..Len(orders) : orders'[j].st = orders[j].st
      /\ \/ /\ pc = "buyPlaced" /\ pc' = "signals" /\ UNCHANGED pendingSell
         \/ /\ pc \in {"sellPlaced", "replaced"} /\ pc' \in {"buys", "cascade"}
            /\ \A i \in Tranches :
                  pendingSell'[i] = IF i = cur.idx THEN newId ELSE pendingSell[i]
  BY RecordFacts
<1>2. UNCHANGED coins
  BY DEF RecordBuy, RecordSell, RecordReplaced
<1>3. Unprocessed' = Unprocessed
  BY <1>1 DEF Unprocessed, BuyOrders, OrderIds, SameOrders, DbChanged
<1>4. CoinsCounted'
  BY <1>1, <1>2, <1>3 DEF CoverInv, CoinsCounted
<1>5. \A t \in active : Covered(t)'
  <2> SUFFICES ASSUME NEW t \in active PROVE TakesProfit(pendingSell[t.idx], t)'
    BY <1>1 DEF Covered, Selling, Replacing
  <2>1. t.idx \in Tranches
    BY DEF RunnerInv, OrdersTyped, Tranche
  <2>2. CASE pc \in {"sellPlaced", "replaced"} /\ cur.idx = t.idx
    <3>1. TakesProfit(newId, t)
      BY <2>2 DEF CoverInv, Covered, Selling, Replacing
    <3>2. pendingSell'[t.idx] = newId
      BY <1>1, <2>1, <2>2
    <3>3. TakesProfit(newId, t) => /\ newId \in OrderIds'
                                   /\ \/ /\ orders'[newId].st = "open"
                                         /\ orders'[newId].price = t.target
                                      \/ /\ orders'[newId].st = "closed"
                                         /\ orders'[newId].price >= t.target
      BY <1>1 DEF TakesProfit, OrderIds, SameOrders
    <3> QED
      BY <3>1, <3>2, <3>3 DEF TakesProfit
  <2>3. CASE ~(pc \in {"sellPlaced", "replaced"} /\ cur.idx = t.idx)
    <3>1. TakesProfit(pendingSell[t.idx], t)
      BY <1>1, <2>3 DEF CoverInv, Covered, Selling, Replacing
    <3>2. pendingSell'[t.idx] = pendingSell[t.idx]
      BY <1>1, <2>1, <2>3
    <3> QED
      BY <1>1, <3>1, <3>2 DEF TakesProfit, OrderIds, SameOrders
  <2> QED
    BY <2>2, <2>3
<1> QED
  BY <1>1, <1>4, <1>5 DEF CoverInv, NoOrder

LEMMA SubsidizeCover ==
  ASSUME RunnerInv, Exact, CoverInv, Subsidize
  PROVE  CoverInv'
<1>1. /\ UNCHANGED <<orders, pendingSell, newId, coins>> /\ pc = "cascade"
      /\ \/ \E t \in active, u \in Tranche :
              /\ u.id = t.id /\ u.idx = t.idx /\ u.target <= t.target
              /\ active' = (active \ {t}) \cup {u}
              /\ \/ /\ pendingSell[t.idx] # None
                    /\ pc' = "cancel"
                    /\ cur' = [idx |-> t.idx, price |-> u.target, tries |-> 0]
                 \/ UNCHANGED <<pc, cur>> /\ pendingSell[t.idx] = None
         \/ UNCHANGED <<active, pc, cur>>
  BY SubsidizeFacts
<1>2. CoinsCounted'
  <2>1. pc' \in {"cascade", "cancel"}
    BY <1>1
  <2>2. Unprocessed' = Unprocessed
    BY <1>1 DEF Unprocessed, BuyOrders, OrderIds
  <2> QED
    BY <1>1, <2>1, <2>2 DEF CoverInv, CoinsCounted
<1>3. \A v \in active : TakesProfit(pendingSell[v.idx], v)
  BY <1>1 DEF CoverInv, Covered, Selling, Replacing
<1>4. CASE UNCHANGED <<active, pc, cur>>
  BY <1>1, <1>2, <1>4 DEF CoverInv, Covered, TakesProfit, OrderIds
<1>5. ASSUME NEW t \in active, NEW u \in Tranche,
             u.idx = t.idx, u.target <= t.target, active' = (active \ {t}) \cup {u},
             \/ pc' = "cancel" /\ cur' = [idx |-> t.idx, price |-> u.target, tries |-> 0]
             \/ UNCHANGED <<pc, cur>> /\ pendingSell[t.idx] = None
      PROVE  CoverInv'
  <2>1. TakesProfit(pendingSell[t.idx], t)
    BY <1>3
  <2>2. /\ pc' = "cancel" /\ cur'.idx = t.idx /\ cur'.price = u.target /\ cur'.tries = 0
    BY <1>5, <2>1 DEF TakesProfit, OrderIds, None
  <2>3. \A v \in active : v # t => v.idx # t.idx
    BY DEF RunnerInv, Exact, IndexUnique
  <2>4. u.target \in Int /\ t.target \in Int
    BY TrancheFields DEF RunnerInv, OrdersTyped
  <2>5. orders[pendingSell[t.idx]].price \in Int
    <3>1. pendingSell[t.idx] \in 1..Len(orders)
      BY <2>1 DEF TakesProfit, OrderIds
    <3>2. orders[pendingSell[t.idx]] \in Order
      BY <3>1, ElementOfSeq DEF RunnerInv, OrdersTyped
    <3> QED
      BY <3>2 DEF Order
  <2>6. Covered(u)'
    <3>1. /\ pendingSell[u.idx] \in OrderIds
          /\ orders[pendingSell[u.idx]].st \in {"open", "closed"}
          /\ orders[pendingSell[u.idx]].price >= u.target
      BY <1>5, <2>1, <2>4, <2>5 DEF TakesProfit
    <3> QED
      BY <1>1, <1>5, <2>2, <3>1 DEF Covered, OrderIds, Replacing
  <2>7. ASSUME NEW v \in active, v # t
        PROVE  Covered(v)'
    <3>1. TakesProfit(pendingSell[v.idx], v)'
      BY <1>1, <1>3 DEF TakesProfit, OrderIds
    <3> QED
      BY <1>1, <2>2, <2>3, <2>7, <3>1 DEF Covered
  <2>8. \A v \in active' : Covered(v)'
    BY <1>5, <2>6, <2>7
  <2> QED
    BY <1>2, <2>2, <2>8 DEF CoverInv
<1> QED
  BY <1>1, <1>4, <1>5

LEMMA ActivateCover ==
  ASSUME RunnerInv, Exact, CoverInv, NEW item \in todo, Activate(item)
  PROVE  CoverInv'
<1>1. /\ item.id \in 1..Len(orders) /\ orders[item.id].st = "closed"
      /\ IsOrder(item.id, "buy", item.idx) /\ UNCHANGED coins
      /\ SameOrders(orders, orders') /\ DbChanged(orders, orders', item.id, "CLOSED")
      /\ \A j \in 1..Len(orders) : orders'[j].st = orders[j].st
  BY ActivateFacts DEF ProcessingFacts
<1>2. /\ pc = "buys" /\ pc' = "placeSell" /\ UNCHANGED pendingSell
      /\ orders[item.id].db = "OPEN"
      /\ active' = active \cup {OpenedBy(item)} /\ ~ActiveAt(item.idx)
      /\ cur'.idx = item.idx /\ cur'.price = OpenedBy(item).target /\ cur'.tries = 0
  BY ActivateFacts
<1>3. OpenedBy(item).idx = item.idx
  BY DEF OpenedBy
<1>4. CoinsCounted'
  <2>1. item.id \in Unprocessed
    BY <1>1, <1>2 DEF Unprocessed, BuyOrders, OrderIds, IsOrder
  <2>2. Unprocessed' = Unprocessed \ {item.id}
    BY <1>1 DEF Unprocessed, BuyOrders, OrderIds, SameOrders, DbChanged
  <2>3. /\ Cardinality(Unprocessed') = Cardinality(Unprocessed) - 1
        /\ Cardinality(Unprocessed) \in Nat
    BY <2>1, <2>2, CountingSets
  <2>4. coins = Cardinality(Unprocessed)
    BY <1>2, <2>3 DEF CoverInv, CoinsCounted
  <2> QED
    BY <1>1, <1>2, <2>3, <2>4 DEF CoinsCounted
<1>5. \A t \in active : Covered(t)'
  <2> SUFFICES ASSUME NEW t \in active PROVE Covered(t)'
    OBVIOUS
  <2>1. t.idx # item.idx /\ TakesProfit(pendingSell[t.idx], t)
    BY <1>2 DEF ActiveAt, CoverInv, Covered, Selling, Replacing
  <2>2. TakesProfit(pendingSell[t.idx], t)'
    BY <1>1, <1>2, <2>1 DEF TakesProfit, OrderIds, SameOrders
  <2> QED
    BY <1>2, <2>1, <2>2 DEF Covered
<1>6. \A t : t = OpenedBy(item) => Covered(t)'
  BY <1>2, <1>3 DEF Covered, Selling
<1>7. \A t \in active' : Covered(t)'
  BY <1>2, <1>5, <1>6
<1> QED
  BY <1>2, <1>4, <1>7 DEF CoverInv

LEMMA CloseCover ==
  ASSUME RunnerInv, Exact, FillInv, CoverInv, NEW item \in todo, Close(item)
  PROVE  CoverInv'
<1>0. SnapshotFresh
  BY DEF FillInv
<1>1. /\ item.id \in 1..Len(orders) /\ IsOrder(item.id, "sell", item.idx)
      /\ SameOrders(orders, orders') /\ DbChanged(orders, orders', item.id, "CLOSED")
      /\ \A j \in 1..Len(orders) : orders'[j].st = orders[j].st
      /\ UNCHANGED coins
  BY <1>0, CloseFacts DEF ProcessingFacts
<1>2. /\ pc = "sells" /\ pc' \in {"sells", "cascade"} /\ UNCHANGED cur
      /\ \A i \in Tranches :
            pendingSell'[i] = IF i = item.idx THEN None ELSE pendingSell[i]
      /\ \/ UNCHANGED active /\ ~ActiveAt(item.idx)
         \/ \E t \in active : t.idx = item.idx /\ active' = active \ {t}
  BY <1>0, CloseFacts
<1>3. CoinsCounted'
  <2>1. Unprocessed' = Unprocessed
    BY <1>1 DEF Unprocessed, BuyOrders, OrderIds, SameOrders, DbChanged, IsOrder
  <2> QED
    BY <1>1, <1>2, <2>1 DEF CoverInv, CoinsCounted
<1>4. \A t \in active' : t \in active /\ t.idx # item.idx
  BY <1>2 DEF ActiveAt, RunnerInv, Exact, IndexUnique
<1>5. \A t \in active' : Covered(t)'
  <2> SUFFICES ASSUME NEW t \in active, t.idx # item.idx PROVE Covered(t)'
    BY <1>4
  <2>1. t.idx \in Tranches /\ TakesProfit(pendingSell[t.idx], t)
    BY <1>2 DEF RunnerInv, OrdersTyped, Tranche, CoverInv, Covered, Selling, Replacing
  <2>2. TakesProfit(pendingSell[t.idx], t)'
    BY <1>1, <1>2, <2>1 DEF TakesProfit, OrderIds, SameOrders
  <2> QED
    BY <1>2, <2>2 DEF Covered, Selling, Replacing
<1> QED
  BY <1>2, <1>3, <1>5 DEF CoverInv

LEMMA FilledCover ==
  ASSUME RunnerInv, FillInv, CoverInv, NEW id \in OrderIds, Fill(id)
  PROVE  CoverInv'
<1>1. /\ UNCHANGED <<active, pendingSell, newId, pc, cur>>
      /\ id \in 1..Len(orders) /\ orders[id].st = "open"
      /\ SameOrders(orders, orders') /\ StatusChanged(orders, orders', id, "closed")
      /\ \A j \in 1..Len(orders) : orders'[j].db = orders[j].db
  BY FillFacts
<1>2. orders[id].db # "CLOSED"
  BY <1>1 DEF FillInv, ProcessedIsFilled, OrderIds
<1>3. CoinsCounted'
  <2>1. Cardinality(Unprocessed) \in Nat
    BY CountingSets
  <2>2. CASE orders[id].side = "buy"
    <3>1. id \notin Unprocessed /\ Unprocessed' = Unprocessed \cup {id}
      BY <1>1, <1>2, <2>2 DEF Unprocessed, BuyOrders, OrderIds, SameOrders, StatusChanged
    <3>2. Cardinality(Unprocessed') = Cardinality(Unprocessed) + 1
      BY <3>1, CountingSets
    <3>3. coins' = coins + 1
      BY <2>2 DEF Fill
    <3> QED
      BY <1>1, <2>1, <3>2, <3>3 DEF CoverInv, CoinsCounted
  <2>3. CASE orders[id].side # "buy"
    <3>1. Unprocessed' = Unprocessed
      BY <1>1, <2>3 DEF Unprocessed, BuyOrders, OrderIds, SameOrders, StatusChanged
    <3>2. UNCHANGED coins
      BY <2>3 DEF Fill
    <3> QED
      BY <1>1, <3>1, <3>2 DEF CoverInv, CoinsCounted
  <2> QED
    BY <2>2, <2>3
<1>4. \A t \in active : Covered(t)'
  <2> SUFFICES ASSUME NEW t \in active PROVE Covered(t)'
    OBVIOUS
  <2>1. t.target \in Int
    BY TrancheFields DEF RunnerInv, OrdersTyped
  <2>2. TakesProfit(pendingSell[t.idx], t) => TakesProfit(pendingSell[t.idx], t)'
    BY <1>1, <2>1 DEF TakesProfit, OrderIds, SameOrders, StatusChanged
  <2>3. TakesProfit(newId, t) => TakesProfit(newId, t)'
    BY <1>1, <2>1 DEF TakesProfit, OrderIds, SameOrders, StatusChanged
  <2>4. \A j \in OrderIds : orders[j].st \in {"open", "closed"} =>
          /\ j \in OrderIds' /\ orders'[j].st \in {"open", "closed"}
          /\ orders'[j].price = orders[j].price
    BY <1>1 DEF OrderIds, SameOrders, StatusChanged
  <2> QED
    BY <1>1, <2>2, <2>3, <2>4 DEF CoverInv, Covered
<1> QED
  BY <1>1, <1>3, <1>4 DEF CoverInv

LEMMA InitCover == Init => CoverInv
<1> SUFFICES ASSUME Init PROVE CoverInv
  OBVIOUS
<1>1. Unprocessed = {} /\ Cardinality({}) = 0
  BY FS_EmptySet DEF Init, Unprocessed, BuyOrders, OrderIds
<1> QED
  BY <1>1 DEF Init, CoverInv, CoinsCounted, NoOrder

LEMMA NextCover ==
  DbErrors = FALSE /\ Rejects = FALSE /\ LostReplies = FALSE /\ MaxCrashes = 0
    /\ RunnerInv /\ Exact /\ FillInv /\ CoverInv /\ [Next]_vars => CoverInv'
<1> SUFFICES ASSUME DbErrors = FALSE, Rejects = FALSE, LostReplies = FALSE,
                    MaxCrashes = 0, RunnerInv, Exact, FillInv, CoverInv, [Next]_vars
             PROVE  CoverInv'
  OBVIOUS
<1>1. \/ QuietStep \/ PlacingStep \/ CancelingStep
      \/ RecordBuy \/ RecordSell \/ RecordReplaced \/ Subsidize
      \/ \E item \in todo : Activate(item) \/ Close(item)
      \/ \E id \in OrderIds : Fill(id)
  BY StepKinds, NoFailure, NothingRaised
<1> QED
  BY <1>1, QuietCover, PlacingCover, CancelingCover, RecordCover, SubsidizeCover,
     ActivateCover, CloseCover, FilledCover

\* While every call succeeds, between two cycles every active tranche has its
\* take-profit order, resting at the target the books show or filled for no less,
\* whatever fills, pauses and cascades interleave (live_runner.py 418-438,
\* 486-501, 521-556).
THEOREM TakeProfitRests ==
  ASSUME Rejects = FALSE, LostReplies = FALSE, MaxCrashes = 0, DbErrors = FALSE
  PROVE  Spec => []TakeProfitResting
<1> DEFINE Inv == RunnerInv /\ FillInv /\ CoverInv
<1>1. Init => Inv
  BY InitTranches, InitFills, InitCover
<1>2. Inv /\ [Next]_vars => Inv'
  BY NextTranches, NextFills, NextCover, NoExceptions
<1>3. Inv => TakeProfitResting
  <2> SUFFICES ASSUME RunnerInv, CoverInv, pc = "sleep", NEW t \in active
               PROVE  /\ TakesProfit(pendingSell[t.idx], t)
                      /\ IsOrder(pendingSell[t.idx], "sell", t.idx)
    BY DEF TakeProfitResting, TakesProfit, IsOrder
  <2>1. TakesProfit(pendingSell[t.idx], t)
    BY DEF CoverInv, Covered, Selling, Replacing
  <2>2. t.idx \in Tranches
    BY DEF RunnerInv, OrdersTyped, Tranche
  <2> QED
    BY <2>1, <2>2 DEF RunnerInv, MapsTracked, TakesProfit
<1> QED
  BY <1>1, <1>2, <1>3, PTL DEF Spec

-----------------------------------------------------------------------------
(* Types: the sums a restart computes over table tranches are integers *)

LEMMA ProfitsAdd ==
  ASSUME NEW S, IsFiniteSet(S), \A row \in S : row.profit \in Int
  PROVE  MapThenSumSet(LAMBDA row : row.profit, S) \in Int
<1> DEFINE f == [row \in S |-> row.profit]
           G(jt) == jt = [T \in SUBSET S |->
                            IF T = {} THEN 0
                            ELSE (CHOOSE x \in T : TRUE).profit
                                   + jt[T \ {CHOOSE x \in T : TRUE}]]
           it == CHOOSE jt : G(jt)
<1>1. IntOn(f, S)
  BY DEF IntOn
<1>2. PICK jt : IsSum(jt, f, S)
  BY <1>1, SumExists
<1>3. G(jt)
  BY <1>2 DEF IsSum, Some
<1>4. G(it)
  BY <1>3
<1>5. IsSum(it, f, S)
  <2> HIDE DEF it
  <2> QED
    BY <1>4 DEF IsSum, Some
<1>6. it[S] \in Int
  <2> HIDE DEF it
  <2> QED
    BY <1>1, <1>5, SumRemove
<1>7. MapThenSumSet(LAMBDA row : row.profit, S) = it[S]
  BY DEF MapThenSumSet, MapThenFoldSet
<1> QED
  BY <1>6, <1>7

LEMMA CostsAdd ==
  ASSUME NEW S, IsFiniteSet(S), \A t \in S : t.buy \in Int
  PROVE  Invested(S) \in Int
<1> DEFINE f == [t \in S |-> t.buy]
           G(jt) == jt = [T \in SUBSET S |->
                            IF T = {} THEN 0
                            ELSE (CHOOSE x \in T : TRUE).buy
                                   + jt[T \ {CHOOSE x \in T : TRUE}]]
           it == CHOOSE jt : G(jt)
<1>1. IntOn(f, S)
  BY DEF IntOn
<1>2. PICK jt : IsSum(jt, f, S)
  BY <1>1, SumExists
<1>3. G(jt)
  BY <1>2 DEF IsSum, Some
<1>4. G(it)
  BY <1>3
<1>5. IsSum(it, f, S)
  <2> HIDE DEF it
  <2> QED
    BY <1>4 DEF IsSum, Some
<1>6. it[S] \in Int
  <2> HIDE DEF it
  <2> QED
    BY <1>1, <1>5, SumRemove
<1>7. Invested(S) = it[S]
  BY DEF Invested, MapThenSumSet, MapThenFoldSet
<1> QED
  BY <1>6, <1>7

TypeInv == BooksTyped /\ IsFiniteSet(rows)

LEMMA RowsStayFinite ==
  ASSUME RunnerInv, IsFiniteSet(rows), [Next]_vars
  PROVE  IsFiniteSet(rows')
<1>1. CASE UNCHANGED rows
  BY <1>1
<1>2. CASE \E row : rows' = rows \cup {row}
  BY <1>2, FS_AddElement
<1>3. CASE \E t, st, gain : rows' = Saved(t, st, gain)
  <2>1. PICK t, st, gain : rows' = Saved(t, st, gain)
    BY <1>3
  <2> DEFINE After(row) == IF row.id = t.id
                           THEN [row EXCEPT !.target = t.target, !.st = st, !.profit = gain]
                           ELSE row
  <2>2. rows' = {After(row) : row \in rows}
    BY <2>1 DEF Saved
  <2> HIDE DEF After
  <2>3. IsFiniteSet({After(row) : row \in rows})
    <3> DEFINE f == [row \in rows |-> After(row)]
    <3>1. f \in Surjection(rows, {After(row) : row \in rows})
      BY DEF Surjection
    <3> QED
      BY <3>1, FS_Surjection
  <2> QED
    BY <2>2, <2>3
<1> QED
  <2>1. CASE Balance \/ Api \/ Exchange \/ Resubmit \/ Entries \/ UNCHANGED vars
    <3>1. UNCHANGED rows
      BY <2>1 DEF Balance, StartCycle, ReadBalance, BalanceUnknown, CompareBalance, BookDifference,
         Api, PauseBot, ResumeBot, StopBot, SetStatus, DepositCapital, WithdrawCapital,
         CapitalHandler, Exchange, Fill, ExternalTransfer, Resubmit, Entries, Evaluate, SkipSignal,
         HandleBuySignal, BuyAccepted, RecordBuy, BuyFailed, EndCycle, dbVars, vars
    <3> QED
      BY <3>1, <1>1
  <2>2. CASE Buys
    <3>1. UNCHANGED rows \/ \E row : rows' = rows \cup {row}
      BY <2>2 DEF Buys, BuysReconciled, SellAccepted, RecordSell, SellFailed, BuyStillOpen,
         Activate, BookBuy, dbVars
    <3> QED
      BY <3>1, <1>1, <1>2
  <2>3. CASE Sells
    <3>1. UNCHANGED rows \/ \E t, st, gain : rows' = Saved(t, st, gain)
      BY <2>3 DEF Sells, SellStillOpen, Close, CloseNothing, BookSale, dbVars
    <3> QED
      BY <3>1, <1>1, <1>3
  <2>4. CASE Cascade
    <3>1. UNCHANGED rows \/ \E t, st, gain : rows' = Saved(t, st, gain)
      BY <2>4 DEF Cascade, CascadeEnds, Subsidize, SavedAsIs, CancelAccepted, CancelFailed,
         ReplaceAccepted, RecordReplaced, ReplaceFailed, dbVars
    <3> QED
      BY <3>1, <1>1, <1>3
  <2>5. CASE Failure
    BY <2>5, <1>1 DEF Failure, Crash, CrashInHandler, Rehydrate, dbVars
  <2>6. CASE DbError
    <3>1. CASE SubsidyUnsaved
      BY <3>1, <1>1 DEF SubsidyUnsaved, dbVars
    <3>2. ASSUME NEW item \in todo,
                 BuyDropped(item) \/ SaleDropped(item) \/ SaleHalfBooked(item)
          PROVE  IsFiniteSet(rows')
      BY <3>2, <1>1 DEF BuyDropped, SaleDropped, SaleHalfBooked, dbVars
    <3>3. ASSUME NEW item \in todo, BuyWithoutSell(item)
          PROVE  IsFiniteSet(rows')
      BY <3>3, <1>2 DEF BuyWithoutSell, BookBuy
    <3>4. ASSUME NEW item \in todo, SaleWithoutCascade(item)
          PROVE  IsFiniteSet(rows')
      BY <3>4, <1>3 DEF SaleWithoutCascade, BookSale
    <3> QED
      BY <2>6, <3>1, <3>2, <3>3, <3>4 DEF DbError
  <2> QED
    BY <2>1, <2>2, <2>3, <2>4, <2>5, <2>6 DEF Next, Runner

LEMMA CrashTypes ==
  ASSUME RunnerInv, TypeInv, Rehydrate
  PROVE  BooksTyped'
<1>1. /\ \A row \in RowsIn("CLOSED") : row.profit \in Int
      /\ \A row \in RowsIn("ACTIVE") : row.buy \in Int
  <2>1. \A row \in rows : row.profit \in Int /\ row.buy \in Prices
    BY DEF RunnerInv, OrdersTyped, Row
  <2>2. Prices \subseteq Int
    BY RunnerAssumption
  <2> QED
    BY <2>1, <2>2 DEF RowsIn
<1>2. IsFiniteSet(RowsIn("CLOSED")) /\ IsFiniteSet(RowsIn("ACTIVE"))
  BY FS_Subset DEF TypeInv, RowsIn
<1>3. MapThenSumSet(LAMBDA row : row.profit, RowsIn("CLOSED")) \in Int
  BY <1>1, <1>2, ProfitsAdd
<1>4. Invested(RowsIn("ACTIVE")) \in Int
  BY <1>1, <1>2, CostsAdd
<1>5. profit' \in Int
  BY <1>3 DEF Rehydrate
<1>6. UNCHANGED <<dbDeposited, dbWithdrawn>> /\ deposited' = dbDeposited
      /\ withdrawn' = dbWithdrawn /\ diff' = 0 /\ UNCHANGED overwritten
  BY DEF Rehydrate, dbVars, capitalRows
<1>7. invested' \in Int /\ available' \in Int
  <2>1. /\ invested' = Invested(RowsIn("ACTIVE"))
        /\ available' = (IF Budget > Invested(RowsIn("ACTIVE"))
                         THEN Budget - Invested(RowsIn("ACTIVE")) ELSE 0)
                          + (dbDeposited - dbWithdrawn)
    BY DEF Rehydrate
  <2>2. Budget \in Int /\ dbDeposited \in Int /\ dbWithdrawn \in Int
    BY RunnerAssumption DEF TypeInv, BooksTyped
  <2> QED
    BY <1>4, <2>1, <2>2
<1> QED
  BY <1>5, <1>6, <1>7 DEF TypeInv, BooksTyped

LEMMA NextTypes == RunnerInv /\ TypeInv /\ [Next]_vars => TypeInv'
<1> SUFFICES ASSUME RunnerInv, TypeInv, [Next]_vars PROVE BooksTyped'
  BY RowsStayFinite DEF TypeInv
<1>1. CASE Failure
  BY <1>1, CrashTypes DEF Failure, Crash, CrashInHandler
<1>2. CASE ~Failure
  BY <1>2, NextBooks DEF TypeInv
<1> QED
  BY <1>1, <1>2

LEMMA InitTypes == Init => TypeInv
BY RunnerAssumption, FS_EmptySet DEF Init, TypeInv, BooksTyped

\* The amounts of the books stay amounts, the totals of the transfers never
\* negative, and the maps name orders, through every interleaving and restart:
\* what _hydrate_bot_financials sums up from table tranches is a balance again.
THEOREM TypesHold == Spec => []TypeOK
<1>1. Init => RunnerInv /\ TypeInv
  BY InitTranches, InitTypes
<1>2. RunnerInv /\ TypeInv /\ [Next]_vars => (RunnerInv /\ TypeInv)'
  BY NextTranches, NextTypes
<1>3. RunnerInv /\ TypeInv => TypeOK
  BY DEF RunnerInv, TypeInv, TypeOK
<1> QED
  BY <1>1, <1>2, <1>3, PTL DEF Spec
-----------------------------------------------------------------------------
(* The account and the books *)

\* What order o makes the account differ from the books.
Owed(o) ==
  IF o.side = "buy" THEN (IF o.db = "CLOSED" THEN 0 ELSE -o.price) - Fee
  ELSE IF o.st = "closed" /\ o.db # "CLOSED" THEN o.price - Fee
  ELSE 0

LEMMA OwedOutstanding == \A id \in OrderIds : Outstanding[id] = Owed(orders[id])
BY DEF Outstanding, Owed

LEMMA OwedNext == \A id \in OrderIds' : Outstanding'[id] = Owed(orders'[id])
BY DEF Outstanding, Owed

LEMMA OwedInt == \A o \in Order : Owed(o) \in Int
<1>1. Fee \in Int
  BY RunnerAssumption
<1> QED
  BY <1>1 DEF Owed, Order

LEMMA OutstandingInt ==
  ASSUME orders \in Seq(Order)
  PROVE  IsFiniteSet(OrderIds) /\ IntOn(Outstanding, OrderIds)
         /\ SumFunctionOnSet(Outstanding, OrderIds) \in Int
<1>1. Len(orders) \in Nat /\ \A id \in OrderIds : orders[id] \in Order
  BY LenProperties, ElementOfSeq DEF OrderIds
<1>2. IsFiniteSet(OrderIds)
  BY <1>1, FS_Interval DEF OrderIds
<1>3. IntOn(Outstanding, OrderIds)
  BY <1>1, OwedOutstanding, OwedInt DEF IntOn
<1> QED
  BY <1>2, <1>3, SumWithout

\* The sum after a step that changes what one order owes, or that of none.
LEMMA SameOwed ==
  ASSUME orders \in Seq(Order), orders' \in Seq(Order), Len(orders') = Len(orders),
         \A j \in 1..Len(orders) : Owed(orders'[j]) = Owed(orders[j])
  PROVE  SumFunctionOnSet(Outstanding, OrderIds)' = SumFunctionOnSet(Outstanding, OrderIds)
<1>1. OrderIds' = OrderIds
  BY DEF OrderIds
<1>2. Agree(Outstanding, Outstanding', OrderIds)
  BY <1>1, OwedOutstanding, OwedNext DEF Agree, OrderIds
<1>3. SumFunctionOnSet(Outstanding, OrderIds) = SumFunctionOnSet(Outstanding', OrderIds)
  BY <1>2, OutstandingInt, SumCongruent
<1> QED
  BY <1>1, <1>3

LEMMA OneOwed ==
  ASSUME orders \in Seq(Order), orders' \in Seq(Order), Len(orders') = Len(orders),
         NEW id \in 1..Len(orders),
         \A j \in 1..Len(orders) : j # id => Owed(orders'[j]) = Owed(orders[j])
  PROVE  SumFunctionOnSet(Outstanding, OrderIds)'
           = SumFunctionOnSet(Outstanding, OrderIds) - Owed(orders[id]) + Owed(orders'[id])
<1>1. OrderIds' = OrderIds /\ id \in OrderIds
  BY DEF OrderIds
<1>2. Agree(Outstanding, Outstanding', OrderIds \ {id})
  BY <1>1, OwedOutstanding, OwedNext DEF Agree, OrderIds
<1>3. IntOn(Outstanding', OrderIds)
  <2>1. \A j \in OrderIds : orders'[j] \in Order
    BY <1>1, ElementOfSeq DEF OrderIds
  <2> QED
    BY <1>1, <2>1, OwedNext, OwedInt DEF IntOn
<1>4. SumFunctionOnSet(Outstanding', OrderIds)
        = SumFunctionOnSet(Outstanding, OrderIds) - Outstanding[id] + Outstanding'[id]
  BY <1>1, <1>2, <1>3, OutstandingInt, SumChanged
<1> QED
  BY <1>1, <1>4, OwedOutstanding, OwedNext

LEMMA NewOwed ==
  ASSUME orders \in Seq(Order), NEW o \in Order, OneMore(orders, orders', o)
  PROVE  SumFunctionOnSet(Outstanding, OrderIds)'
           = SumFunctionOnSet(Outstanding, OrderIds) + Owed(o)
<1> DEFINE id == Len(orders) + 1
<1>1. Len(orders) \in Nat /\ Len(orders') = id /\ orders'[id] = o
      /\ \A j \in 1..Len(orders) : orders'[j] = orders[j]
  BY LenProperties DEF OneMore
<1>2. OrderIds' = OrderIds \cup {id} /\ id \notin OrderIds
  BY <1>1 DEF OrderIds
<1>3. Agree(Outstanding, Outstanding', OrderIds)
  BY <1>1, <1>2, OwedOutstanding, OwedNext DEF Agree, OrderIds
<1>4. Outstanding'[id] = Owed(o) /\ Owed(o) \in Int
  BY <1>1, <1>2, OwedNext, OwedInt
<1>5. SumFunctionOnSet(Outstanding', OrderIds \cup {id})
        = SumFunctionOnSet(Outstanding, OrderIds) + Outstanding'[id]
  <2> HIDE DEF id
  <2>1. IsFiniteSet(OrderIds) /\ IntOn(Outstanding, OrderIds)
    BY OutstandingInt
  <2>2. Outstanding'[id] \in Int
    BY <1>4
  <2> QED
    BY <1>2, <1>3, <2>1, <2>2, SumExtended
<1> QED
  BY <1>2, <1>4, <1>5

Owing == SumFunctionOnSet(Outstanding, OrderIds)
Difference == free - available + deposited - withdrawn

\* Steps that leave the comparison of the balance alone, and change the account
\* and what is outstanding alike.
LEMMA AccountFrame ==
  ASSUME AccountInv, UNCHANGED transfers,
         pc' # "write" \/ UNCHANGED <<pc, diff, available, real>>,
         Owing \in Int, Difference \in Int, NEW change \in Int,
         Owing' = Owing + change, Difference' = Difference + change
  PROVE  AccountExplained'
BY DEF AccountInv, AccountExplained, Owing, Difference

LEMMA AccountTypes ==
  ASSUME RunnerInv, BooksTyped
  PROVE  /\ orders \in Seq(Order) /\ Owing \in Int /\ Difference \in Int
         /\ {free, available, deposited, withdrawn, real, diff, Fee} \subseteq Int
         /\ transfers \in Nat
         /\ \A id \in 1..Len(orders) : orders[id] \in Order
<1>1. {free, available, deposited, withdrawn, real, diff, Fee} \subseteq Int
  BY RunnerAssumption DEF RunnerInv, OrdersTyped, BooksTyped
<1>2. orders \in Seq(Order) /\ transfers \in Nat
  BY DEF RunnerInv, OrdersTyped
<1> QED
  BY <1>1, <1>2, OutstandingInt, ElementOfSeq DEF Owing, Difference

LEMMA QuietAccount ==
  ASSUME RunnerInv, BooksTyped, AccountInv, QuietStep
  PROVE  AccountInv'
<1>1. UNCHANGED <<orders, pendingSell>>
  BY QuietFacts
<1>2. (BuysNotCanceled /\ SellsUnprocessed)'
  BY <1>1 DEF AccountInv, BuysNotCanceled, SellsUnprocessed, BuyOrders, OrderIds
<1>3. Owing' = Owing
  BY <1>1 DEF Owing, Outstanding, OrderIds
<1>4. {free, available, deposited, withdrawn, real, diff} \subseteq Int /\ transfers \in Nat
      /\ Owing \in Int /\ Difference \in Int
  BY AccountTypes
<1>5. AccountExplained'
  <2>1. CASE UNCHANGED <<free, moneyVars, transfers>>
             /\ (pc' # "write" \/ UNCHANGED <<pc, diff, real>>)
    <3>1. Difference' = Difference + 0 /\ Owing' = Owing + 0
      BY <1>3, <1>4, <2>1 DEF Difference, moneyVars
    <3> QED
      BY <1>4, <2>1, <3>1, AccountFrame DEF moneyVars
  <2>2. CASE CompareBalance
    <3>1. /\ UNCHANGED <<free, available, deposited, withdrawn, transfers>>
          /\ pc' = "write" => diff' = available - real /\ real' = real
      BY <2>2 DEF CompareBalance, botVars, moneyVars, exchangeVars, auxVars, errorVars
    <3>2. Difference' = Difference
      BY <3>1 DEF Difference
    <3> QED
      BY <1>3, <3>1, <3>2 DEF AccountInv, AccountExplained, Owing, Difference
  <2>3. CASE BookDifference
    <3>1. /\ UNCHANGED <<free, transfers>> /\ pc = "write" /\ pc' = "buys" /\ available' = real
          /\ \/ withdrawn' = withdrawn + diff /\ UNCHANGED deposited
             \/ deposited' = deposited - diff /\ UNCHANGED withdrawn
      BY <2>3 DEF BookDifference, exchangeVars, auxVars, errorVars
    <3>2. transfers = 0 => Difference' = Difference
      BY <1>4, <3>1 DEF AccountInv, AccountExplained, Difference
    <3> QED
      BY <1>3, <3>1, <3>2 DEF AccountInv, AccountExplained, Owing, Difference
  <2>4. CASE transfers' = transfers + 1
    BY <1>4, <2>4 DEF AccountExplained
  <2> USE DEF botVars, exchangeVars, auxVars, errorVars, loopVars
  <2>5. CASE Balance
    <3>1. CASE StartCycle \/ ReadBalance \/ BalanceUnknown
      BY <2>1, <3>1 DEF StartCycle, ReadBalance, BalanceUnknown
    <3> QED
      BY <2>2, <2>3, <2>5, <3>1 DEF Balance
  <2>6. CASE \/ BuysReconciled \/ Evaluate \/ SkipSignal \/ HandleBuySignal
             \/ BuyFailed \/ EndCycle \/ CascadeEnds \/ ReplaceFailed \/ UNCHANGED vars
             \/ \E item \in todo : BuyStillOpen(item) \/ SellStillOpen(item)
    BY <2>1, <2>6 DEF BuysReconciled, Evaluate, SkipSignal, HandleBuySignal, BuyFailed, EndCycle,
       CascadeEnds, ReplaceFailed, Raised, BuyStillOpen, SellStillOpen, vars
  <2>7. CASE UNCHANGED orders /\ (CancelFailed \/ Resubmit)
    <3>1. CASE CancelFailed
      BY <2>1, <3>1 DEF CancelFailed
    <3>2. CASE Resubmit
      <4>1. PICK side \in {"buy", "sell"} : Retried(side)
        BY <3>2 DEF Resubmit
      <4>2. ~Placed(side)
        <5>1. orders \in Seq(Order) /\ Len(orders) \in Nat
          BY LenProperties DEF RunnerInv, OrdersTyped
        <5>2. orders' = orders
          BY <2>7
        <5> QED
          BY <3>2, <4>1, <5>1, <5>2, PlacedOrders DEF Placed, Resubmit, OneMore, Buying, Selling,
             Replacing
      <4>3. UNCHANGED free
        BY <4>1, <4>2 DEF Retried
      <4> QED
        BY <2>1, <3>2, <4>3 DEF Resubmit
    <3> QED
      BY <2>7, <3>1, <3>2
  <2>8. CASE Api
    <3>1. CASE PauseBot \/ ResumeBot \/ StopBot
      BY <2>1, <3>1 DEF PauseBot, ResumeBot, StopBot, SetStatus
    <3>2. CASE \E amount \in Prices : DepositCapital(amount) \/ WithdrawCapital(amount)
      BY <2>4, <3>2 DEF DepositCapital, WithdrawCapital, CapitalHandler
    <3> QED
      BY <2>8, <3>1, <3>2 DEF Api
  <2>9. CASE \E amount \in Int : ExternalTransfer(amount)
    BY <2>4, <2>9 DEF ExternalTransfer
  <2> QED
    BY <2>5, <2>6, <2>7, <2>8, <2>9 DEF QuietStep
<1> QED
  BY <1>2, <1>5 DEF AccountInv

LEMMA PlacingAccount ==
  ASSUME RunnerInv, BooksTyped, AccountInv, PlacingStep
  PROVE  AccountInv'
<1>1. PICK side \in {"buy", "sell"} :
           /\ UNCHANGED pendingSell
           /\ Placed(side)
           /\ OneMore(orders, orders', NewOrder(side))
           /\ cur \in Pending
  BY PlacingFacts
<1>2. /\ orders \in Seq(Order) /\ Owing \in Int /\ Difference \in Int /\ Fee \in Int
      /\ {free, available, deposited, withdrawn} \subseteq Int
      /\ \A id \in 1..Len(orders) : orders[id] \in Order
  BY AccountTypes
<1>3. cur.price \in Int /\ cur.idx \in Tranches
  BY <1>1 DEF Pending
<1>4. NewOrder(side) \in Order
  BY <1>1, <1>3 DEF NewOrder, Order
<1>5. Owing' = Owing + Owed(NewOrder(side))
  BY <1>1, <1>2, <1>4, NewOwed DEF Owing
<1>6. Owed(NewOrder(side)) = IF side = "buy" THEN -cur.price - Fee ELSE 0
  BY <1>1 DEF Owed, NewOrder
<1>7. /\ free' = free + Owed(NewOrder(side))
      /\ Owed(NewOrder(side)) \in Int
  BY <1>1, <1>2, <1>3, <1>6 DEF Placed
<1>8. \/ UNCHANGED <<available, deposited, withdrawn, transfers, pc, diff, real>>
      \/ UNCHANGED <<available, deposited, withdrawn, transfers>> /\ pc' # "write"
  BY DEF PlacingStep, BuyAccepted, SellAccepted, ReplaceAccepted, Resubmit, botVars, moneyVars,
     auxVars, errorVars
<1>9. Difference' = Difference + Owed(NewOrder(side))
  BY <1>2, <1>7, <1>8 DEF Difference
<1>10. AccountExplained'
  BY <1>2, <1>5, <1>7, <1>8, <1>9, AccountFrame
<1>11. /\ Len(orders) \in Nat /\ Len(orders') = Len(orders) + 1
       /\ \A j \in 1..Len(orders) : orders'[j] = orders[j]
       /\ orders'[Len(orders) + 1].st = "open" /\ orders'[Len(orders) + 1].db = "none"
  BY <1>1 DEF OneMore, NewOrder
<1>12. BuysNotCanceled'
  BY <1>11 DEF AccountInv, BuysNotCanceled, BuyOrders, OrderIds
<1>13. SellsUnprocessed'
  BY <1>1, <1>11 DEF AccountInv, SellsUnprocessed, OrderIds
<1> QED
  BY <1>10, <1>12, <1>13 DEF AccountInv

\* Steps that change neither what is owed nor any amount.
LEMMA BooklessAccount ==
  ASSUME RunnerInv, BooksTyped, AccountInv, SameOrders(orders, orders'),
         \A j \in 1..Len(orders) : Owed(orders'[j]) = Owed(orders[j]),
         UNCHANGED <<free, available, deposited, withdrawn, transfers>>,
         pc' # "write" \/ UNCHANGED <<pc, diff, real>>
  PROVE  AccountExplained'
<1>1. orders \in Seq(Order) /\ Owing \in Int /\ Difference \in Int
  BY AccountTypes
<1>2. Owing' = Owing + 0 /\ Difference' = Difference + 0
  BY <1>1, SameOwed DEF Owing, Difference, SameOrders
<1> QED
  BY <1>1, <1>2, AccountFrame

LEMMA CancelingAccount ==
  ASSUME DbErrors = FALSE, RunnerInv, BooksTyped, AccountInv, CancelingStep
  PROVE  AccountInv'
<1> DEFINE resting == pendingSell[cur.idx]
<1>1. /\ UNCHANGED pendingSell
      /\ resting \in 1..Len(orders) /\ orders[resting].side = "sell"
      /\ orders[resting].st = "open"
      /\ SameOrders(orders, orders') /\ StatusChanged(orders, orders', resting, "canceled")
      /\ \A j \in 1..Len(orders) : j # resting => orders'[j].db = orders[j].db
      /\ orders'[resting].db \in {orders[resting].db, "CANCELED"}
      /\ pc = "cancel" /\ pc' \in {"replace", "cascade"}
  BY CancelingFacts
<1> HIDE DEF resting
<1>2. \A j \in 1..Len(orders) : Owed(orders'[j]) = Owed(orders[j])
  BY <1>1 DEF Owed, SameOrders, StatusChanged
<1>3. UNCHANGED <<free, available, deposited, withdrawn, transfers>>
  BY DEF CancelingStep, CancelAccepted, CancelFailed, botVars, moneyVars, auxVars, errorVars
<1>4. AccountExplained'
  BY <1>1, <1>2, <1>3, BooklessAccount
<1>5. BuysNotCanceled'
  BY <1>1 DEF AccountInv, BuysNotCanceled, BuyOrders, OrderIds, SameOrders, StatusChanged
<1>6. SellsUnprocessed'
  BY <1>1 DEF AccountInv, SellsUnprocessed, OrderIds, SameOrders
<1> QED
  BY <1>4, <1>5, <1>6 DEF AccountInv

LEMMA RecordAccount ==
  ASSUME RunnerInv, BooksTyped, AccountInv, RecordBuy \/ RecordSell \/ RecordReplaced
  PROVE  AccountInv'
<1>1. /\ newId \in 1..Len(orders) /\ cur \in Pending /\ orders[newId].db = "none"
      /\ SameOrders(orders, orders') /\ DbChanged(orders, orders', newId, "OPEN")
      /\ \A j \in 1..Len(orders) : orders'[j].st = orders[j].st
      /\ pc' \in {"signals", "buys", "cascade"}
      /\ \/ UNCHANGED pendingSell
         \/ \A i \in Tranches :
              pendingSell'[i] = IF i = cur.idx THEN newId ELSE pendingSell[i]
  BY RecordFacts
<1>2. \A j \in 1..Len(orders) : Owed(orders'[j]) = Owed(orders[j])
  BY <1>1 DEF Owed, SameOrders, DbChanged
<1>3. UNCHANGED <<free, available, deposited, withdrawn, transfers>>
  BY DEF RecordBuy, RecordSell, RecordReplaced, botVars, moneyVars, auxVars, errorVars
<1>4. AccountExplained'
  BY <1>1, <1>2, <1>3, BooklessAccount
<1>5. BuysNotCanceled'
  BY <1>1 DEF AccountInv, BuysNotCanceled, BuyOrders, OrderIds, SameOrders
<1>6. SellsUnprocessed'
  BY <1>1 DEF AccountInv, SellsUnprocessed, OrderIds, SameOrders, DbChanged
<1> QED
  BY <1>4, <1>5, <1>6 DEF AccountInv

LEMMA SellFailedAccount ==
  ASSUME RunnerInv, BooksTyped, AccountInv, SellFailed
  PROVE  AccountInv'
<1>1. /\ UNCHANGED orders /\ pc' = "buys"
      /\ \A i \in Tranches :
           pendingSell'[i] = IF i = cur.idx THEN Simulated ELSE pendingSell[i]
  BY SellFailedFacts
<1>2. SameOrders(orders, orders')
  BY <1>1, AccountTypes DEF SameOrders
<1>3. UNCHANGED <<free, available, deposited, withdrawn, transfers>>
  BY DEF SellFailed, Raised, botVars, moneyVars, exchangeVars, auxVars, errorVars
<1>4. AccountExplained'
  BY <1>1, <1>2, <1>3, BooklessAccount
<1>5. SellsUnprocessed'
  BY <1>1 DEF AccountInv, SellsUnprocessed, OrderIds, Simulated
<1> QED
  BY <1>1, <1>4, <1>5 DEF AccountInv, BuysNotCanceled, BuyOrders, OrderIds

LEMMA SubsidizeAccount ==
  ASSUME RunnerInv, BooksTyped, AccountInv, Subsidize
  PROVE  AccountInv'
<1>1. UNCHANGED <<orders, pendingSell, free>> /\ pc = "cascade"
      /\ pc' \in {"cascade", "cancel"}
  BY SubsidizeFacts
<1>2. SameOrders(orders, orders')
  BY <1>1, AccountTypes DEF SameOrders
<1>3. UNCHANGED <<available, deposited, withdrawn, transfers>>
  BY DEF Subsidize, moneyVars, auxVars, errorVars
<1>4. AccountExplained'
  BY <1>1, <1>2, <1>3, BooklessAccount
<1> QED
  BY <1>1, <1>4 DEF AccountInv, BuysNotCanceled, SellsUnprocessed, BuyOrders, OrderIds

LEMMA ActivateAccount ==
  ASSUME RunnerInv, Exact, BooksTyped, AccountInv, NEW item \in todo, Activate(item)
  PROVE  AccountInv'
<1>1. /\ ProcessingFacts(item, "buy")
      /\ pc' = "placeSell" /\ UNCHANGED pendingSell
      /\ orders[item.id].db = "OPEN" /\ orders[item.id].price \in Int
  BY ActivateFacts
<1> DEFINE id == item.id
           price == orders[id].price
<1>2. /\ id \in 1..Len(orders) /\ orders[id].st = "closed" /\ orders[id].side = "buy"
      /\ SameOrders(orders, orders') /\ DbChanged(orders, orders', id, "CLOSED")
      /\ \A j \in 1..Len(orders) : orders'[j].st = orders[j].st
      /\ UNCHANGED free
  BY <1>1 DEF ProcessingFacts, IsOrder
<1>3. /\ orders \in Seq(Order) /\ Owing \in Int /\ Difference \in Int /\ Fee \in Int
      /\ {free, available, deposited, withdrawn} \subseteq Int
  BY AccountTypes
<1>4. /\ available' = available - price /\ UNCHANGED <<deposited, withdrawn, transfers>>
  BY DEF Activate, BookBuy, auxVars, errorVars
<1>5. price \in Int
  BY <1>1
<1>6. /\ \A j \in 1..Len(orders) : j # id => Owed(orders'[j]) = Owed(orders[j])
      /\ Owed(orders[id]) = -price - Fee /\ Owed(orders'[id]) = 0 - Fee
  BY <1>1, <1>2 DEF Owed, SameOrders, DbChanged
<1>7. Owing' = Owing - Owed(orders[id]) + Owed(orders'[id])
  BY <1>2, <1>3, <1>6, OneOwed DEF Owing, SameOrders
<1> HIDE DEF price
<1>8. Owing' = Owing + price /\ Difference' = Difference + price
  <2>1. Owing' = Owing - (-price - Fee) + (0 - Fee)
    BY <1>6, <1>7
  <2>2. Difference' = free - (available - price) + deposited - withdrawn
    BY <1>2, <1>4 DEF Difference
  <2> QED
    BY <1>3, <1>5, <2>1, <2>2 DEF Difference
<1>9. AccountExplained'
  BY <1>1, <1>3, <1>4, <1>5, <1>8, AccountFrame
<1>10. BuysNotCanceled'
  BY <1>2 DEF AccountInv, BuysNotCanceled, BuyOrders, OrderIds, SameOrders
<1>11. SellsUnprocessed'
  <2> SUFFICES ASSUME NEW i \in Tranches, pendingSell[i] \in 1..Len(orders)
               PROVE  orders'[pendingSell[i]].db # "CLOSED"
    BY <1>1, <1>2 DEF SellsUnprocessed, OrderIds, SameOrders
  <2>1. orders[pendingSell[i]].side = "sell" /\ orders[pendingSell[i]].db # "CLOSED"
    BY DEF RunnerInv, MapsTracked, IsOrder, AccountInv, SellsUnprocessed, OrderIds
  <2> QED
    BY <1>2, <2>1 DEF DbChanged
<1> QED
  BY <1>9, <1>10, <1>11 DEF AccountInv

LEMMA CloseAccount ==
  ASSUME RunnerInv, BooksTyped, FillInv, AccountInv, NEW item \in todo, Close(item)
  PROVE  AccountInv'
<1>1. /\ ProcessingFacts(item, "sell")
      /\ pc' \in {"sells", "cascade"} /\ pendingSell[item.idx] = item.id
      /\ \A i \in Tranches :
           pendingSell'[i] = IF i = item.idx THEN None ELSE pendingSell[i]
  BY CloseFacts DEF FillInv
<1> DEFINE id == item.id
           price == orders[id].price
<1>2. /\ id \in 1..Len(orders) /\ orders[id].st = "closed" /\ orders[id].side = "sell"
      /\ orders[id].idx = item.idx /\ item.idx \in Tranches
      /\ SameOrders(orders, orders') /\ DbChanged(orders, orders', id, "CLOSED")
      /\ \A j \in 1..Len(orders) : orders'[j].st = orders[j].st
      /\ UNCHANGED free
  BY <1>1 DEF ProcessingFacts, IsOrder
<1>3. /\ orders \in Seq(Order) /\ Owing \in Int /\ Difference \in Int /\ Fee \in Int
      /\ {free, available, deposited, withdrawn} \subseteq Int
      /\ orders[id] \in Order
  BY <1>2, AccountTypes
<1>4. ActiveAt(item.idx)
  BY <1>1, <1>2 DEF FillInv, TrackedActive, None
<1>5. /\ available' = available + (price - Fee)
      /\ UNCHANGED <<deposited, withdrawn, transfers>>
  BY <1>4 DEF Close, CloseNothing, BookSale, ActiveAt, Revenue, auxVars, errorVars
<1>6. price \in Int
  BY <1>3 DEF Order
<1>7. orders[id].db # "CLOSED"
  BY <1>1, <1>2 DEF AccountInv, SellsUnprocessed, OrderIds
<1>8. /\ \A j \in 1..Len(orders) : j # id => Owed(orders'[j]) = Owed(orders[j])
      /\ Owed(orders[id]) = price - Fee /\ Owed(orders'[id]) = 0
  BY <1>2, <1>7 DEF Owed, SameOrders, DbChanged
<1>9. Owing' = Owing - Owed(orders[id]) + Owed(orders'[id])
  BY <1>2, <1>3, <1>8, OneOwed DEF Owing, SameOrders
<1> HIDE DEF price
<1>10. Owing' = Owing + (Fee - price) /\ Difference' = Difference + (Fee - price)
       /\ Fee - price \in Int
  <2>1. Owing' = Owing - (price - Fee) + 0
    BY <1>8, <1>9
  <2>2. Difference' = free - (available + (price - Fee)) + deposited - withdrawn
    BY <1>2, <1>5 DEF Difference
  <2> QED
    BY <1>3, <1>6, <2>1, <2>2 DEF Difference
<1>11. AccountExplained'
  BY <1>1, <1>3, <1>5, <1>10, AccountFrame
<1>12. BuysNotCanceled'
  BY <1>2 DEF AccountInv, BuysNotCanceled, BuyOrders, OrderIds, SameOrders
<1>13. SellsUnprocessed'
  <2> SUFFICES ASSUME NEW i \in Tranches, i # item.idx, pendingSell[i] \in 1..Len(orders)
               PROVE  orders'[pendingSell[i]].db # "CLOSED"
    BY <1>1, <1>2 DEF SellsUnprocessed, OrderIds, SameOrders, None
  <2>1. orders[pendingSell[i]].idx = i /\ orders[pendingSell[i]].db # "CLOSED"
    BY DEF RunnerInv, MapsTracked, IsOrder, AccountInv, SellsUnprocessed, OrderIds
  <2> QED
    BY <1>2, <2>1 DEF DbChanged
<1> QED
  BY <1>11, <1>12, <1>13 DEF AccountInv

LEMMA FilledAccount ==
  ASSUME RunnerInv, BooksTyped, FillInv, AccountInv, NEW id \in OrderIds, Fill(id)
  PROVE  AccountInv'
<1> DEFINE price == orders[id].price
<1>1. /\ UNCHANGED <<pendingSell, pc>>
      /\ id \in 1..Len(orders) /\ orders[id].st = "open"
      /\ SameOrders(orders, orders') /\ StatusChanged(orders, orders', id, "closed")
      /\ \A j \in 1..Len(orders) : orders'[j].db = orders[j].db
  BY FillFacts
<1>2. /\ orders \in Seq(Order) /\ Owing \in Int /\ Difference \in Int /\ Fee \in Int
      /\ {free, available, deposited, withdrawn} \subseteq Int
      /\ orders[id] \in Order
  BY <1>1, AccountTypes
<1>3. price \in Int /\ orders[id].side \in {"buy", "sell"}
  BY <1>2 DEF Order
<1>4. orders[id].db # "CLOSED"
  BY <1>1 DEF FillInv, ProcessedIsFilled
<1>5. /\ UNCHANGED <<available, deposited, withdrawn, transfers, diff, real>>
      /\ free' = free + (IF orders[id].side = "buy" THEN 0 ELSE price - Fee)
  BY <1>2 DEF Fill, botVars, moneyVars, auxVars, errorVars, loopVars
<1>6. /\ \A j \in 1..Len(orders) : j # id => Owed(orders'[j]) = Owed(orders[j])
      /\ orders[id].side = "buy" => Owed(orders'[id]) = Owed(orders[id])
      /\ orders[id].side = "sell" =>
           Owed(orders[id]) = 0 /\ Owed(orders'[id]) = price - Fee
  BY <1>1, <1>4 DEF Owed, SameOrders, StatusChanged
<1>7. Owing' = Owing - Owed(orders[id]) + Owed(orders'[id]) /\ Owed(orders[id]) \in Int
  BY <1>1, <1>2, <1>6, OneOwed, OwedInt DEF Owing, SameOrders
<1> HIDE DEF price
<1> DEFINE change == IF orders[id].side = "buy" THEN 0 ELSE price - Fee
<1>8. Owing' = Owing + change /\ Difference' = Difference + change /\ change \in Int
  <2>1. CASE orders[id].side = "buy"
    <3>1. Owing' = Owing - Owed(orders[id]) + Owed(orders[id])
      BY <1>6, <1>7, <2>1
    <3>2. UNCHANGED Difference
      BY <1>2, <1>5, <2>1 DEF Difference
    <3> QED
      BY <1>2, <1>7, <2>1, <3>1, <3>2
  <2>2. CASE orders[id].side # "buy"
    <3>1. Owing' = Owing - 0 + (price - Fee)
      BY <1>3, <1>6, <1>7, <2>2
    <3>2. free' = free + (price - Fee) /\ change = price - Fee
      BY <1>5, <2>2
    <3> HIDE DEF change
    <3>3. Difference' = Difference + (price - Fee) /\ price - Fee \in Int
      BY <1>2, <1>3, <1>5, <3>2 DEF Difference
    <3> QED
      BY <1>2, <1>3, <3>1, <3>2, <3>3
  <2> QED
    BY <2>1, <2>2
<1> HIDE DEF change
<1>9. AccountExplained'
  BY <1>1, <1>2, <1>5, <1>8, AccountFrame
<1>10. BuysNotCanceled'
  BY <1>1 DEF AccountInv, BuysNotCanceled, BuyOrders, OrderIds, SameOrders, StatusChanged
<1>11. SellsUnprocessed'
  BY <1>1 DEF AccountInv, SellsUnprocessed, OrderIds, SameOrders
<1> QED
  BY <1>9, <1>10, <1>11 DEF AccountInv

LEMMA InitAccount == Init => AccountInv
<1> SUFFICES ASSUME Init PROVE AccountInv
  OBVIOUS
<1>1. orders = <<>> /\ OrderIds = {}
  BY DEF Init, OrderIds
<1>2. SumFunctionOnSet(Outstanding, OrderIds) = 0
  BY <1>1, SumOfNone
<1>3. free = Budget /\ available = Budget /\ deposited = 0 /\ withdrawn = 0 /\ pc = "sleep"
      /\ \A i \in Tranches : pendingSell[i] = None
  BY DEF Init
<1> QED
  BY <1>1, <1>2, <1>3, RunnerAssumption DEF AccountInv, AccountExplained, BuysNotCanceled,
     BuyOrders, SellsUnprocessed, None

LEMMA NextAccount ==
  DbErrors = FALSE /\ MaxCrashes = 0 /\ RunnerInv /\ Exact /\ BooksTyped /\ FillInv
    /\ AccountInv /\ [Next]_vars
    => AccountInv'
BY StepKinds, NoFailure, QuietAccount, PlacingAccount, CancelingAccount, RecordAccount,
   SellFailedAccount, SubsidizeAccount, ActivateAccount, CloseAccount, FilledAccount

LEMMA SettledAccount ==
  ASSUME RunnerInv, BooksTyped, AccountInv
  PROVE  PhantomsCancel
<1> DEFINE bought == {id \in BuyOrders : orders[id].st = "closed"}
<1> SUFFICES ASSUME Settled, transfers = 0
             PROVE  withdrawn - deposited = Fee * Cardinality(bought)
  BY DEF PhantomsCancel
<1>1. /\ Difference \in Int /\ Fee \in Int
      /\ {free, available, deposited, withdrawn} \subseteq Int
      /\ \A id \in OrderIds : orders[id] \in Order
      /\ IsFiniteSet(OrderIds) /\ IntOn(Outstanding, OrderIds)
  BY AccountTypes, OutstandingInt DEF OrderIds
<1>2. bought \in SUBSET OrderIds
  BY DEF BuyOrders
<1>3. \A id \in bought : Outstanding[id] = -Fee
  BY <1>1, OwedOutstanding DEF Owed, Settled, BuyOrders
<1>4. \A id \in OrderIds \ bought : Outstanding[id] = 0
  <2> SUFFICES ASSUME NEW id \in OrderIds, id \notin bought PROVE Owed(orders[id]) = 0
    BY OwedOutstanding
  <2>1. orders[id].side = "sell"
    BY <1>1 DEF Order, Settled, OpenOrders, IsOpen, BuyOrders, AccountInv, BuysNotCanceled
  <2> QED
    BY <2>1 DEF Owed, Settled
<1>5. IsFiniteSet(bought)
  BY <1>1, <1>2, FS_Subset
<1>6. Cardinality(bought) \in Nat
  BY <1>5, FS_CardinalityType
<1> HIDE DEF bought
<1>7. Owing = SumFunctionOnSet(Outstanding, bought)
  BY <1>1, <1>2, <1>4, SumOfPart DEF Owing
<1>8. -Fee \in Int
  BY <1>1
<1>9. SumFunctionOnSet(Outstanding, bought) = (-Fee) * Cardinality(bought)
  BY <1>3, <1>5, <1>8, SumOfConstant
<1>10. Difference = Owing /\ available = free
  BY DEF AccountInv, AccountExplained, Difference, Owing, Settled
<1>11. withdrawn - deposited = 0 - Owing
  BY <1>1, <1>7, <1>9, <1>10 DEF Difference
<1>12. \A f \in Int, n \in Nat : 0 - (-f) * n = f * n
  OBVIOUS
<1> QED
  BY <1>1, <1>6, <1>7, <1>9, <1>11, <1>12

\* The phantom transfers the balance reconciliation books while a buy rests
\* cancel out but for the buy fees, whatever exchange call fails, whatever reply
\* is lost, with any number of tranches: once no buy rests and every fill is
\* processed, the withdrawals exceed the deposits by one fee per buy
\* (live_runner.py _reconcile_kucoin_balance; client.py create_order). Assumed away: a
\* restart and a database error, either of which may drop a fill for good.
THEOREM PhantomsBalance ==
  ASSUME MaxCrashes = 0, DbErrors = FALSE
  PROVE  Spec => []PhantomsCancel
<1> DEFINE Inv == RunnerInv /\ TypeInv /\ FillInv /\ AccountInv
<1>1. Init => Inv
  BY InitTranches, InitTypes, InitFills, InitAccount
<1>2. Inv /\ [Next]_vars => Inv'
  BY NextTranches, NextTypes, NextFills, NextAccount, NoExceptions DEF TypeInv
<1>3. Inv => PhantomsCancel
  BY SettledAccount DEF TypeInv
<1> QED
  BY <1>1, <1>2, <1>3, PTL DEF Spec
=============================================================================
