------------------------------- MODULE Ledger --------------------------------
(***************************************************************************)
(* What the trading ledger promises: every operation on orders, portfolios *)
(* and holdings as ONE atomic step.  This is the program as its author     *)
(* reads it, each request and each scheduler step run alone to its commit; *)
(* TradeSessions takes the same handlers apart into statements.            *)
(*                                                                         *)
(* A handler that raises before its commit rolls back and changes nothing, *)
(* so its refusals are the steps these actions do not take.                *)
(***************************************************************************)
EXTENDS Account, Totals, Sequences, FiniteSets

CONSTANTS
  Users,           \* user ids
  Symbols,         \* stock symbols
  Prices,          \* live prices, and limit prices a request may carry
  Quantities,      \* order quantities (TradeCreate, OrderCreate: gt=0)
  InitialBalance,  \* Portfolio.available_balance default, 100000.0 in the code
  BuyCap,          \* BUY orders a FREE user may place per day, 5 in the code
  MaxOrders,       \* bound: orders ever created
  LastDay          \* bound: trading days

ASSUME PricesAssumption == Prices \subseteq Nat \ {0}
ASSUME QuantitiesAssumption == Quantities \subseteq Nat \ {0}
ASSUME BalanceAssumption == InitialBalance \in Nat
ASSUME CapAssumption == BuyCap \in Nat
ASSUME BoundsAssumption == MaxOrders \in Nat /\ LastDay \in Nat

VARIABLES
  portfolio,     \* [Users -> Portfolio row]; no row behaves as a fresh one
  holding,       \* [Users -> [Symbols -> Holding row]]
  orders,        \* the orders table; an order's id is its index
  subscription,  \* [Users -> "FREE" or "PRO"]
  day, market,   \* trading day; "OPEN" or "CLOSED" (get_market_status)
  resetAt        \* history: orders that existed at the user's last reset

vars == <<portfolio, holding, orders, subscription, day, market, resetAt>>

\* limit_price and executed_price are 0 where the row holds NULL; created_day
\* is the day of created_at, and for a LIMIT order of expires_at.
Order == [user_id : Users, symbol : Symbols, quantity : Quantities,
          trade_type : TradeTypes, order_type : OrderTypes,
          limit_price : Prices \cup {0}, reserved_amount : Nat,
          status : Statuses, executed_price : Prices \cup {0},
          created_day : Nat]

Init ==
  /\ portfolio = [u \in Users |-> FreshPortfolio(InitialBalance)]
  /\ holding = [u \in Users |-> [s \in Symbols |-> EmptyHolding]]
  /\ orders = <<>>
  /\ subscription = [u \in Users |-> "FREE"]
  /\ day = 1
  /\ market = "OPEN"
  /\ resetAt = [u \in Users |-> 0]

-----------------------------------------------------------------------------
(* Guards. *)

Ids == DOMAIN orders

PendingOf(u) == {i \in Ids : orders[i].user_id = u /\ orders[i].status = "PENDING"}

\* BUY orders of u dated d that count against the cap.
BuysOn(u, d) ==
  {i \in Ids : /\ orders[i].user_id = u
               /\ orders[i].trade_type = "BUY"
               /\ orders[i].status \in {"PENDING", "EXECUTED"}
               /\ orders[i].created_day = d}

\* Mutant of UnderBuyCap: lets the order after the last one through.
UnderBuyCapInclusive(u, trade_type) ==
  trade_type = "BUY" /\ subscription[u] = "FREE"
    => Cardinality(BuysOn(u, day)) <= BuyCap


UnderBuyCap(u, trade_type) ==
  trade_type = "BUY" /\ subscription[u] = "FREE"
    => Cardinality(BuysOn(u, day)) < BuyCap

\* expires_at of a LIMIT order is the close of the day it was placed on.
Expired(o) ==
  /\ o.order_type = "LIMIT"
  /\ \/ day > o.created_day
     \/ day = o.created_day /\ market = "CLOSED"

-----------------------------------------------------------------------------
(* Effects. *)

SetAccount(u, s, pf, h) ==
  /\ portfolio' = [portfolio EXCEPT ![u] = pf]
  /\ holding' = [holding EXCEPT ![u] = [@ EXCEPT ![s] = h]]

\* The ledger part of execute_order once nothing is left to release.
ApplyFill(u, s, pf, h, trade_type, quantity, live_price) ==
  /\ CanFill(pf, h, trade_type, quantity, live_price)
  /\ SetAccount(u, s, FillPortfolio(pf, h, trade_type, quantity, live_price),
                      FillHolding(h, trade_type, quantity, live_price))

\* Mutant of MarketOrder: the value of the trade in place of its price.
MarketOrderByValue(u, s, t, q, p) ==
  [user_id |-> u, symbol |-> s, quantity |-> q, trade_type |-> t,
   order_type |-> "MARKET", limit_price |-> 0, reserved_amount |-> 0,
   status |-> "EXECUTED", executed_price |-> p * q, created_day |-> day]


MarketOrder(u, s, t, q, p) ==
  [user_id |-> u, symbol |-> s, quantity |-> q, trade_type |-> t,
   order_type |-> "MARKET", limit_price |-> 0, reserved_amount |-> 0,
   status |-> "EXECUTED", executed_price |-> p, created_day |-> day]

LimitOrder(u, s, t, q, l) ==
  [user_id |-> u, symbol |-> s, quantity |-> q, trade_type |-> t,
   order_type |-> "LIMIT", limit_price |-> l,
   reserved_amount |-> ReservedAmount(t, q, l),
   status |-> "PENDING", executed_price |-> 0, created_day |-> day]

\* release_reservation, with the status the caller then gives the order.
ReleaseAs(i, status) ==
  LET o == orders[i]
      u == o.user_id
  IN /\ IF o.order_type = "LIMIT"
        THEN SetAccount(u, o.symbol, ReleaseFunds(portfolio[u], o),
                                     ReleaseShares(holding[u][o.symbol], o))
        ELSE UNCHANGED <<portfolio, holding>>
     /\ orders' = [orders EXCEPT ![i] = [@ EXCEPT !.status = status]]

-----------------------------------------------------------------------------
(* Operations. *)

\* POST /trades/orders with a MARKET order, and the legacy POST /trades/.
PlaceMarket(u, s, t, q, p) ==
  /\ market = "OPEN"
  /\ Len(orders) < MaxOrders
  /\ UnderBuyCap(u, t)
  /\ ApplyFill(u, s, portfolio[u], holding[u][s], t, q, p)
  /\ orders' = Append(orders, MarketOrder(u, s, t, q, p))
  /\ UNCHANGED <<subscription, day, market, resetAt>>

\* POST /trades/orders with a LIMIT order: reserve, and fill at once at the
\* live price p when it already satisfies the limit l.
PlaceLimit(u, s, t, q, l, p) ==
  LET o  == LimitOrder(u, s, t, q, l)
      pf == ReserveFunds(portfolio[u], o.reserved_amount)
      h  == ReserveShares(holding[u][s], t, q)
  IN /\ market = "OPEN"
     /\ Len(orders) < MaxOrders
     /\ UnderBuyCap(u, t)
     /\ WithinBand(l, p)
     /\ CanReserve(portfolio[u], holding[u][s], t, q, l)
     /\ IF IsLimitFillable(t, l, p)
        THEN /\ ApplyFill(u, s, ReleaseFunds(pf, o), ReleaseShares(h, o), t, q, p)
             /\ orders' = Append(orders, [o EXCEPT !.status = "EXECUTED",
                                                   !.executed_price = p])
        ELSE /\ SetAccount(u, s, pf, h)
             /\ orders' = Append(orders, o)
     /\ UNCHANGED <<subscription, day, market, resetAt>>

\* Mutant of CancelOrder: cancels whatever the order has become.
CancelAnyOrder(i) ==
  /\ orders[i].status # "CANCELLED"
  /\ ReleaseAs(i, "CANCELLED")
  /\ UNCHANGED <<subscription, day, market, resetAt>>


CancelOrder(i) ==
  /\ orders[i].status = "PENDING"
  /\ ReleaseAs(i, "CANCELLED")
  /\ UNCHANGED <<subscription, day, market, resetAt>>

\* One order of a tick of execute_pending_orders_job at live price p.
ExecutePending(i, p) ==
  LET o == orders[i]
      u == o.user_id
  IN /\ market = "OPEN"
     /\ o.status = "PENDING"
     /\ o.order_type = "LIMIT"
     /\ IsLimitFillable(o.trade_type, o.limit_price, p)
     /\ ~Expired(o)
     /\ ApplyFill(u, o.symbol, ReleaseFunds(portfolio[u], o),
                  ReleaseShares(holding[u][o.symbol], o),
                  o.trade_type, o.quantity, p)
     /\ orders' = [orders EXCEPT ![i] = [@ EXCEPT !.status = "EXECUTED",
                                                  !.executed_price = p]]
     /\ UNCHANGED <<subscription, day, market, resetAt>>

\* The same tick finds an order an earlier day left behind.
RejectOrder(i, p) ==
  /\ market = "OPEN"
  /\ orders[i].status = "PENDING"
  /\ orders[i].order_type = "LIMIT"
  /\ IsLimitFillable(orders[i].trade_type, orders[i].limit_price, p)
  /\ Expired(orders[i])
  /\ ReleaseAs(i, "REJECTED")
  /\ UNCHANGED <<subscription, day, market, resetAt>>

\* One order of a sweep of expire_stale_orders_job.
ExpireOrder(i) ==
  /\ orders[i].status = "PENDING"
  /\ Expired(orders[i])
  /\ ReleaseAs(i, "EXPIRED")
  /\ UNCHANGED <<subscription, day, market, resetAt>>

\* Mutant of ResetPortfolio: resets the cash and keeps the holdings.
ResetKeepingHoldings(u) ==
  /\ PendingOf(u) = {}
  /\ portfolio' = [portfolio EXCEPT ![u] = FreshPortfolio(InitialBalance)]
  /\ resetAt' = [resetAt EXCEPT ![u] = Len(orders)]
  /\ UNCHANGED <<holding, orders, subscription, day, market>>

\* POST /trades/reset after its cancel_all_pending_for_user.
ResetPortfolio(u) ==
  /\ PendingOf(u) = {}
  /\ portfolio' = [portfolio EXCEPT ![u] = FreshPortfolio(InitialBalance)]
  /\ holding' = [holding EXCEPT ![u] = [s \in Symbols |-> EmptyHolding]]
  /\ resetAt' = [resetAt EXCEPT ![u] = Len(orders)]
  /\ UNCHANGED <<orders, subscription, day, market>>

\* A verified payment; nothing in the code takes PRO back.
Upgrade(u) ==
  /\ subscription[u] = "FREE"
  /\ subscription' = [subscription EXCEPT ![u] = "PRO"]
  /\ UNCHANGED <<portfolio, holding, orders, day, market, resetAt>>

CloseMarket ==
  /\ market = "OPEN"
  /\ market' = "CLOSED"
  /\ UNCHANGED <<portfolio, holding, orders, subscription, day, resetAt>>

OpenNextDay ==
  /\ market = "CLOSED"
  /\ day < LastDay
  /\ market' = "OPEN"
  /\ day' = day + 1
  /\ UNCHANGED <<portfolio, holding, orders, subscription, resetAt>>

Next ==
  \/ \E u \in Users, s \in Symbols, t \in TradeTypes, q \in Quantities, p \in Prices :
       \/ PlaceMarket(u, s, t, q, p)
       \/ \E l \in Prices : PlaceLimit(u, s, t, q, l, p)
  \/ \E i \in Ids :
       \/ CancelOrder(i)
       \/ ExpireOrder(i)
       \/ \E p \in Prices : ExecutePending(i, p) \/ RejectOrder(i, p)
  \/ \E u \in Users : ResetPortfolio(u) \/ Upgrade(u)
  \/ CloseMarket
  \/ OpenNextDay

Spec == Init /\ [][Next]_vars

-----------------------------------------------------------------------------
(* Properties.                                                             *)

\* What order o keeps locked.  A SELL locks shares; its reserved_amount is 0.
LockedCash(o) == IF o.status = "PENDING" THEN o.reserved_amount ELSE 0

LockedShares(o) ==
  IF o.status = "PENDING" /\ o.trade_type = "SELL" THEN o.quantity ELSE 0

CashLocked(u) ==
  [i \in Ids |-> IF orders[i].user_id = u THEN LockedCash(orders[i]) ELSE 0]

SharesLocked(u, s) ==
  [i \in Ids |-> IF orders[i].user_id = u /\ orders[i].symbol = s
                 THEN LockedShares(orders[i]) ELSE 0]

\* Executed since the user's last reset: the part of the trade log that the
\* portfolio and the holdings are the sum of.
Counts(i, u, t) ==
  /\ i > resetAt[u]
  /\ orders[i].user_id = u
  /\ orders[i].trade_type = t
  /\ orders[i].status = "EXECUTED"

CashTraded(u, t) ==
  [i \in Ids |-> IF Counts(i, u, t)
                 THEN orders[i].executed_price * orders[i].quantity ELSE 0]

SharesTraded(u, s, t) ==
  [i \in Ids |-> IF Counts(i, u, t) /\ orders[i].symbol = s
                 THEN orders[i].quantity ELSE 0]

\* The values the tables and the clock may hold.
TypeOK ==
  /\ portfolio \in [Users -> Portfolio]
  /\ holding \in [Users -> [Symbols -> Holding]]
  /\ orders \in Seq(Order)
  /\ Len(orders) <= MaxOrders
  /\ subscription \in [Users -> {"FREE", "PRO"}]
  /\ day \in Nat
  /\ market \in {"OPEN", "CLOSED"}
  /\ resetAt \in [Users -> Nat]

\* reserved_balance is exactly the cash the user's PENDING BUY orders locked:
\* no path out of PENDING forgets a release or makes one twice.
ReservedCashBacked ==
  \A u \in Users : portfolio[u].reserved_balance = Total(CashLocked(u))

\* reserved_quantity is exactly the shares the PENDING SELL orders locked.
ReservedSharesBacked ==
  \A u \in Users, s \in Symbols :
    holding[u][s].reserved_quantity = Total(SharesLocked(u, s))

\* Nobody spends or sells what is not there: cash never goes negative, and
\* the shares promised to SELL orders are shares the user holds.
Solvent ==
  \A u \in Users :
    /\ portfolio[u].available_balance >= 0
    /\ \A s \in Symbols : holding[u][s].reserved_quantity <= holding[u][s].quantity

\* Cash free and locked, plus the cost of what is held, is the initial balance
\* plus realized profit, across every fill, cancel, expiry and reset.
AccountingIdentity ==
  \A u \in Users :
    portfolio[u].available_balance + portfolio[u].reserved_balance
      + portfolio[u].invested_amount = InitialBalance + portfolio[u].realized_pnl

\* What u's shares of each symbol cost at their average price.
HoldingCosts(u) == [s \in Symbols |-> holding[u][s].quantity * holding[u][s].avg_price]

\* Portfolio.invested_amount, kept up by deltas, is what the holdings cost at
\* their average prices: get_portfolio and get_holdings agree on it.
InvestedMatchesHoldings ==
  \A u \in Users : portfolio[u].invested_amount = Total(HoldingCosts(u))

\* The cash and the shares of an account are what the orders executed since
\* its last reset make them: nothing is lost or applied twice.
HistoryExplainsAccount ==
  \A u \in Users :
    /\ portfolio[u].available_balance + portfolio[u].reserved_balance
         = InitialBalance - Total(CashTraded(u, "BUY")) + Total(CashTraded(u, "SELL"))
    /\ \A s \in Symbols :
         holding[u][s].quantity
           = Total(SharesTraded(u, s, "BUY")) - Total(SharesTraded(u, s, "SELL"))

\* The scheduler is never refused: once its reservation is released, a PENDING
\* order can be filled at every price that satisfies its limit.
FillNeverRefused ==
  \A i \in Ids, p \in Prices :
    LET o == orders[i]
        u == o.user_id
    IN o.status = "PENDING" /\ IsLimitFillable(o.trade_type, o.limit_price, p)
         => CanFill(ReleaseFunds(portfolio[u], o),
                    ReleaseShares(holding[u][o.symbol], o),
                    o.trade_type, o.quantity, p)

\* check_free_user_buy_cap: a FREE user never has more than BuyCap live BUY
\* orders of one day, whichever of the three placement paths made them.
FreeBuyCap ==
  \A u \in Users, d \in 1..LastDay :
    subscription[u] = "FREE" => Cardinality(BuysOn(u, d)) <= BuyCap

\* An order that left PENDING is never touched again, by any path.
TerminalStatusFinal ==
  [][\A i \in Ids : orders[i].status # "PENDING" => orders'[i] = orders[i]]_vars
=============================================================================
