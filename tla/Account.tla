------------------------------- MODULE Account -------------------------------
(***************************************************************************)
(* The arithmetic of one trading account: what a reservation, a release    *)
(* and a fill do to a Portfolio row and a Holding row, and the conditions  *)
(* under which the code refuses them.  No state; the serial specification  *)
(* (Ledger) and the concurrent one (TradeSessions) are both built on it.   *)
(*                                                                         *)
(* Money and prices are integers in the smallest unit.  avg_price is a     *)
(* floor division where the code has a float; a run that depends on the    *)
(* average uses prices for which every division is exact.                  *)
(***************************************************************************)
EXTENDS Integers

TradeTypes == {"BUY", "SELL"}
OrderTypes == {"MARKET", "LIMIT"}
Statuses   == {"PENDING", "EXECUTED", "CANCELLED", "EXPIRED", "REJECTED"}

LIMIT_PRICE_BAND_PERCENT == 10

Money == Int

Portfolio == [available_balance : Money, reserved_balance : Money,
              invested_amount : Money, realized_pnl : Money]

Holding == [quantity : Int, reserved_quantity : Int, avg_price : Nat]

\* A new Portfolio row; total_balance is constant and left out.
FreshPortfolio(balance) ==
  [available_balance |-> balance, reserved_balance |-> 0,
   invested_amount |-> 0, realized_pnl |-> 0]

\* A new Holding row.  invested_amount is always quantity * avg_price and is
\* left out, with the per-holding realized_pnl.
EmptyHolding == [quantity |-> 0, reserved_quantity |-> 0, avg_price |-> 0]

IsLimitFillable(trade_type, limit_price, live_price) ==
  IF trade_type = "BUY" THEN live_price <= limit_price
                        ELSE live_price >= limit_price

WithinBand(limit_price, live_price) ==
  /\ (100 - LIMIT_PRICE_BAND_PERCENT) * live_price <= 100 * limit_price
  /\ 100 * limit_price <= (100 + LIMIT_PRICE_BAND_PERCENT) * live_price

-----------------------------------------------------------------------------
(* Reservations. *)

AvailableQuantity(h) == h.quantity - h.reserved_quantity

\* Mutant of CanReserve: a SELL may promise shares that are already promised.
CanReserveTwice(pf, h, trade_type, quantity, limit_price) ==
  IF trade_type = "BUY" THEN pf.available_balance >= limit_price * quantity
                        ELSE h.quantity >= quantity


CanReserve(pf, h, trade_type, quantity, limit_price) ==
  IF trade_type = "BUY" THEN pf.available_balance >= limit_price * quantity
                        ELSE AvailableQuantity(h) >= quantity

\* Mutant of ReservedAmount: the price of one share whatever the quantity.
ReservedAmountOfOne(trade_type, quantity, limit_price) ==
  IF trade_type = "BUY" THEN limit_price ELSE 0

\* Only a BUY locks cash; a SELL locks shares of the holding.
ReservedAmount(trade_type, quantity, limit_price) ==
  IF trade_type = "BUY" THEN limit_price * quantity ELSE 0

ReserveFunds(pf, amount) ==
  [pf EXCEPT !.available_balance = @ - amount, !.reserved_balance = @ + amount]

ReserveShares(h, trade_type, quantity) ==
  IF trade_type = "SELL" THEN [h EXCEPT !.reserved_quantity = @ + quantity]
                         ELSE h

\* Mutant of ReleaseFunds: gives the cash back and forgets that it was locked.
ReleaseFundsCreditOnly(pf, o) ==
  IF o.trade_type = "BUY"
  THEN [pf EXCEPT !.available_balance = @ + o.reserved_amount] ELSE pf


ReleaseFunds(pf, o) ==
  IF o.trade_type = "BUY"
  THEN [pf EXCEPT !.reserved_balance = @ - o.reserved_amount,
                  !.available_balance = @ + o.reserved_amount]
  ELSE pf

\* Mutant of ReleaseShares: the shares stay locked.
ReleaseSharesNever(h, o) == h


ReleaseShares(h, o) ==
  IF o.trade_type = "SELL" THEN [h EXCEPT !.reserved_quantity = @ - o.quantity]
                           ELSE h

-----------------------------------------------------------------------------
(* Fills.  pf and h are the rows after the order's own reservation, if it  *)
(* has one, was released.                                                  *)

CanFill(pf, h, trade_type, quantity, live_price) ==
  IF trade_type = "BUY" THEN pf.available_balance >= live_price * quantity
                        ELSE AvailableQuantity(h) >= quantity

\* Mutant of FillPortfolio: reads avg_price after the holding that was sold out
\* has had it reset to 0.
FillPortfolioAfterReset(pf, h, trade_type, quantity, live_price) ==
  LET sold_avg == IF h.quantity = quantity THEN 0 ELSE h.avg_price
  IN IF trade_type = "BUY"
     THEN [pf EXCEPT !.available_balance = @ - live_price * quantity,
                     !.invested_amount = @ + live_price * quantity]
     ELSE [pf EXCEPT !.available_balance = @ + live_price * quantity,
                     !.realized_pnl = @ + (live_price - h.avg_price) * quantity,
                     !.invested_amount = @ - quantity * sold_avg]


FillPortfolio(pf, h, trade_type, quantity, live_price) ==
  IF trade_type = "BUY"
  THEN [pf EXCEPT !.available_balance = @ - live_price * quantity,
                  !.invested_amount = @ + live_price * quantity]
  ELSE [pf EXCEPT !.available_balance = @ + live_price * quantity,
                  !.realized_pnl = @ + (live_price - h.avg_price) * quantity,
                  !.invested_amount = @ - quantity * h.avg_price]

\* Mutant of AverageAfterBuy: the mean of the two prices, not of the shares.
AverageOfPrices(h, quantity, live_price) ==
  IF h.quantity = 0 THEN live_price ELSE (h.avg_price + live_price) \div 2


AverageAfterBuy(h, quantity, live_price) ==
  (h.quantity * h.avg_price + live_price * quantity) \div (h.quantity + quantity)

FillHolding(h, trade_type, quantity, live_price) ==
  IF trade_type = "BUY"
  THEN [h EXCEPT !.quantity = @ + quantity,
                 !.avg_price = AverageAfterBuy(h, quantity, live_price)]
  ELSE [h EXCEPT !.quantity = @ - quantity,
                 !.avg_price = IF h.quantity = quantity THEN 0 ELSE @]
=============================================================================
